---------------------------- MODULE DialogProofs ----------------------------
(***************************************************************************)
(* Proofs about Dialog, for every set of status codes and any number of    *)
(* requests.  The inductive invariant is a predicate of the world, so that *)
(* each function of dialog.c has a lemma of its own.                       *)
(***************************************************************************)
EXTENDS Dialog, TLAPS, WellFoundedInduction

Worlds == [d : Dialogs, t : [Ids -> Transactions]]

\* The CSeqs that can be repeated in a 200 are those of the peer.
Numbered(w) ==
    /\ w.d.last_200Ok \in CSeqs \cup {0}
    /\ \A i \in Ids : ~w.t[i].client /\ w.t[i].state # "NONE" => w.t[i].cseq \in CSeqs
    /\ w.d.state \in {"NULL", "EARLY"} /\ w.d.is_server =>
          \A i \in Ids : w.t[i].client => w.t[i].method # "INVITE"

\* The dialog hears of the end of every transaction that is under way.
Live(w) ==
    \A i \in Ids : Transient(w.t[i].state) => w.t[i].in_dialog /\ w.t[i].code < 200

\* Transactions are numbered in the order of their creation.
Allotted(w) ==
    /\ \A i, j \in Ids : i < j /\ w.t[i].state = "NONE" => w.t[j].state = "NONE"
    /\ w.t[w.d.last_transaction].state # "NONE"

\* The queue holds requests without a CSeq, in the order of their creation.
\* None of them has begun, and none is the one that a BYE would supersede.
Waiting(w) ==
    LET q == w.d.queued_ct
    IN /\ \A k, l \in DOMAIN q : k < l => q[k] < q[l]
       /\ \A k \in DOMAIN q : /\ w.t[q[k]].dialog_queued /\ w.t[q[k]].cseq = 0
                              /\ w.t[q[k]].state = "INIT" /\ w.t[q[k]].code = 0
                              /\ w.t[q[k]].in_dialog /\ q[k] # w.d.last_transaction

\* Those that left it did so in that order.
Departed(w) ==
    /\ \A i \in Ids : w.t[i].dialog_queued =>
          /\ w.t[i].client /\ w.t[i].state # "NONE" /\ w.t[i].cseq <= w.d.local_cseq
          /\ w.t[i].cseq = 0 => InQueue(w, i) \/ w.t[i].state = "TERMINATED"
    /\ \A i, j \in Ids :
          i < j /\ w.t[i].dialog_queued /\ w.t[j].dialog_queued /\ w.t[j].cseq # 0
             => ~InQueue(w, i) /\ w.t[i].cseq < w.t[j].cseq

Sound(w) ==
    w \in Worlds /\ Numbered(w) /\ Live(w) /\ Allotted(w) /\ Waiting(w) /\ Departed(w)

\* NoLostWakeup, of a world
Attentive(w) ==
    w.d.queued_ct # <<>> /\ w.d.state # "TERMINATED" /\ ~request_pending(w)
        => w.d.scheduled

\* What a function leaves that looks at the queue in the end
Woken(w) == w.d.queued_ct # <<>> => w.d.scheduled

IInv == Sound(World) /\ Attentive(World) /\ oks \subseteq CSeqs /\ acks \subseteq CSeqs

\* What the functions of dialog.c may do to a world: transactions end, and
\* the queue is left alone or emptied with all its transactions terminated.
Follows(v, w) ==
    /\ v \in Worlds
    /\ v.d.local_cseq = w.d.local_cseq /\ v.d.is_server = w.d.is_server
    /\ v.d.last_200Ok \in CSeqs \cup {0}
    /\ v.d.state \in {"NULL", "EARLY"} => w.d.state \in {"NULL", "EARLY"}
    /\ \A i \in Ids :
          /\ v.t[i].client = w.t[i].client /\ v.t[i].method = w.t[i].method
          /\ v.t[i].code = w.t[i].code /\ v.t[i].cseq = w.t[i].cseq
          /\ v.t[i].dialog_queued = w.t[i].dialog_queued
          /\ \/ v.t[i].state = w.t[i].state /\ v.t[i].in_dialog = w.t[i].in_dialog
             \/ v.t[i].state = "TERMINATED" /\ w.t[i].state # "NONE"
    /\ ~InQueue(v, v.d.last_transaction) /\ v.t[v.d.last_transaction].state # "NONE"
    /\ \/ /\ v.d.queued_ct = w.d.queued_ct
          /\ \A i \in Ids : InQueue(w, i) => v.t[i] = w.t[i]
       \/ /\ v.d.queued_ct = <<>>
          /\ \A i \in Ids : InQueue(w, i) => v.t[i].state = "TERMINATED"

-----------------------------------------------------------------------------
(* The types of the fields, by name: a lemma expands the ones it needs.    *)

Flags == BOOLEAN
Numbers == Nat
Queues == Seq(Ids)

LEMMA Typing ==
    /\ Dialogs = [state : DialogStates, is_server : Flags, needs_ack : Flags,
                  got_initial_ack : Flags, last_transaction : Ids, last_out_ack : Numbers,
                  local_cseq : Numbers, remote_cseq : Numbers, remote_invite_cseq : Numbers,
                  last_200Ok : Numbers, queued_ct : Queues, scheduled : Flags, listed : Flags]
    /\ Transactions = [client : Flags, method : Methods, state : TransactionStates,
                       code : Numbers, cseq : Numbers, in_dialog : Flags, dialog_queued : Flags]
BY DEF Dialogs, Transactions, Flags, Numbers, Queues

LEMMA Members ==
    /\ \A s \in {"NULL", "EARLY", "CONFIRMED", "TERMINATED"} : s \in DialogStates
    /\ \A s \in {"NONE", "INIT", "TRYING", "PROCEEDING", "DONE", "TERMINATED"} :
          s \in TransactionStates
    /\ \A s \in {"INVITE", "BYE", "INFO"} : s \in Methods
    /\ TRUE \in Flags /\ FALSE \in Flags /\ 0 \in Numbers /\ 1 \in Numbers
    /\ <<>> \in Queues /\ Ids \subseteq Nat /\ CSeqs \subseteq Numbers
    /\ 1 \in Ids /\ MaxRequests \in Ids /\ 1 \in CSeqs
BY BoundAssumption DEF DialogStates, TransactionStates, Methods, Flags, Numbers, Queues, Ids, CSeqs

-----------------------------------------------------------------------------
(* Follows is what keeps a world sound.                                    *)

LEMMA FollowsSound ==
    ASSUME NEW w, NEW v, Sound(w), Follows(v, w)
    PROVE  Sound(v)
<1>1. v \in Worlds
  BY DEF Follows
<1>2. Numbered(v)
  BY DEF Follows, Sound, Numbered
<1>3. Live(v)
  BY DEF Follows, Sound, Live, Transient
<1>4. Allotted(v)
  BY DEF Follows, Sound, Allotted
<1>5. Waiting(v)
  <2>1. CASE v.d.queued_ct = <<>>
    BY <2>1 DEF Waiting
  <2>2. CASE v.d.queued_ct = w.d.queued_ct
    <3>1. \A k \in DOMAIN w.d.queued_ct : w.d.queued_ct[k] \in Ids /\ InQueue(w, w.d.queued_ct[k])
      BY DEF Sound, Worlds, Dialogs, InQueue
    <3>2. \A k \in DOMAIN v.d.queued_ct : v.d.queued_ct[k] # v.d.last_transaction
      BY DEF Follows, InQueue
    <3>3. \A i \in Ids : InQueue(w, i) => v.t[i] = w.t[i] \/ v.d.queued_ct = <<>>
      BY DEF Follows
    <3>4. CASE v.d.queued_ct = <<>>
      BY <3>4 DEF Waiting
    <3>5. CASE v.d.queued_ct # <<>>
      BY <2>2, <3>1, <3>2, <3>3, <3>5 DEF Sound, Waiting
    <3>. QED BY <3>4, <3>5
  <2>. QED BY <2>1, <2>2 DEF Follows
<1>6. Departed(v)
  <2>1. CASE v.d.queued_ct = <<>> /\ \A i \in Ids : InQueue(w, i) => v.t[i].state = "TERMINATED"
    <3>1. \A i : ~InQueue(v, i)
      BY <2>1 DEF InQueue
    <3>. QED BY <2>1, <3>1 DEF Follows, Sound, Departed
  <2>2. CASE v.d.queued_ct = w.d.queued_ct
    <3>1. \A i : InQueue(v, i) = InQueue(w, i)
      BY <2>2 DEF InQueue
    <3>. QED BY <2>2, <3>1 DEF Follows, Sound, Departed
  <2>. QED BY <2>1, <2>2 DEF Follows
<1>. QED BY <1>1, <1>2, <1>3, <1>4, <1>5, <1>6 DEF Sound

LEMMA FollowsChain ==
    ASSUME NEW w, NEW v, NEW u, Sound(w), Follows(v, w), Follows(u, v)
    PROVE  Follows(u, w)
<1>1. \A i : v.d.queued_ct = w.d.queued_ct => InQueue(v, i) = InQueue(w, i)
  BY DEF InQueue
<1>. QED BY <1>1 DEF Follows

LEMMA FollowsItself ==
    ASSUME NEW w, Sound(w)
    PROVE  Follows(w, w)
BY DEF Follows, Sound, Numbered, Allotted, Waiting, InQueue

\* Nothing joins the queue.
LEMMA FollowsQueue ==
    ASSUME NEW w, NEW v, Follows(v, w), NEW i, ~InQueue(w, i)
    PROVE  ~InQueue(v, i)
BY DEF Follows, InQueue

\* A function that only touches the dialog's own fields
LEMMA TuneFollows ==
    ASSUME NEW w, Sound(w), NEW e \in Dialogs,
           e.queued_ct = w.d.queued_ct, e.local_cseq = w.d.local_cseq,
           e.is_server = w.d.is_server, e.last_200Ok \in CSeqs \cup {0},
           e.state \in {"NULL", "EARLY"} => w.d.state \in {"NULL", "EARLY"},
           ~InQueue(w, e.last_transaction), w.t[e.last_transaction].state # "NONE"
    PROVE  Follows([w EXCEPT !.d = e], w)
BY DEF Follows, Sound, Worlds, InQueue

LEMMA WorldTyped ==
    ASSUME NEW w, Sound(w)
    PROVE  /\ w \in Worlds /\ w.d \in Dialogs /\ w.t \in [Ids -> Transactions]
           /\ w.d.last_transaction \in Ids /\ w.d.queued_ct \in Seq(Ids)
           /\ w.d.local_cseq \in Nat /\ w.d.remote_cseq \in Nat
           /\ w.d.remote_invite_cseq \in Nat /\ w.d.last_out_ack \in Nat
           /\ w.d.state \in DialogStates /\ w.d.scheduled \in Flags /\ w.d.listed \in Flags
           /\ w.d.is_server \in Flags /\ w.d.needs_ack \in Flags /\ w.d.got_initial_ack \in Flags
           /\ w.d.last_200Ok \in CSeqs \cup {0} /\ ~InQueue(w, w.d.last_transaction)
           /\ w.t[w.d.last_transaction].state # "NONE"
           /\ \A i \in Ids : /\ w.t[i] \in Transactions
                             /\ w.t[i].code \in Nat /\ w.t[i].cseq \in Nat
                             /\ w.t[i].client \in Flags /\ w.t[i].in_dialog \in Flags
                             /\ w.t[i].dialog_queued \in Flags
                             /\ w.t[i].method \in Methods /\ w.t[i].state \in TransactionStates
<1>1. w \in Worlds /\ w.d \in Dialogs /\ w.t \in [Ids -> Transactions]
  BY DEF Sound, Worlds
<1>2. /\ w.d.last_transaction \in Ids /\ w.d.queued_ct \in Queues
      /\ w.d.local_cseq \in Numbers /\ w.d.remote_cseq \in Numbers
      /\ w.d.remote_invite_cseq \in Numbers /\ w.d.last_out_ack \in Numbers
      /\ w.d.state \in DialogStates /\ w.d.scheduled \in Flags /\ w.d.listed \in Flags
      /\ w.d.is_server \in Flags /\ w.d.needs_ack \in Flags /\ w.d.got_initial_ack \in Flags
  BY <1>1, Typing
<1>3. ASSUME NEW i \in Ids
      PROVE  /\ w.t[i] \in Transactions
             /\ w.t[i].code \in Numbers /\ w.t[i].cseq \in Numbers
             /\ w.t[i].client \in Flags /\ w.t[i].in_dialog \in Flags
             /\ w.t[i].dialog_queued \in Flags
             /\ w.t[i].method \in Methods /\ w.t[i].state \in TransactionStates
  <2>1. w.t[i] \in Transactions
    BY <1>1
  <2>. QED BY <2>1, Typing
<1>4. /\ w.d.last_200Ok \in CSeqs \cup {0} /\ ~InQueue(w, w.d.last_transaction)
      /\ w.t[w.d.last_transaction].state # "NONE"
  BY DEF Sound, Numbered, Allotted, Waiting, InQueue
<1>. QED BY <1>1, <1>2, <1>3, <1>4 DEF Numbers, Queues

\* belle_sip_dialog_process_queue
LEMMA ProcessQueueShape ==
    ASSUME NEW w, Sound(w)
    PROVE  LET v == process_queue(w)
           IN Follows(v, w) /\ Woken(v) /\ v.t = w.t /\ v.d.needs_ack = w.d.needs_ack
<1>. DEFINE b == w.d.scheduled \/ w.d.queued_ct # <<>>
            e == [w.d EXCEPT !.scheduled = b]
            v == process_queue(w)
<1>1. b \in Flags /\ (w.d.queued_ct # <<>> => b) /\ w.d \in Dialogs
  BY WorldTyped DEF Flags
<1>2. v = [w EXCEPT !.d = e]
  BY WorldTyped DEF process_queue, Worlds
<1>. HIDE DEF b
<1>3. e \in Dialogs
  BY <1>1, Typing
<1>4. /\ e.queued_ct = w.d.queued_ct /\ e.local_cseq = w.d.local_cseq
      /\ e.is_server = w.d.is_server /\ e.last_200Ok = w.d.last_200Ok
      /\ e.state = w.d.state /\ e.scheduled = b /\ e.needs_ack = w.d.needs_ack
      /\ e.last_transaction = w.d.last_transaction
  BY <1>1, Typing
<1>. HIDE DEF e, v
<1>5. Follows(v, w)
  BY <1>2, <1>3, <1>4, WorldTyped, TuneFollows
<1>6. v.d = e /\ v.t = w.t
  BY <1>2, WorldTyped DEF Worlds
<1>7. Follows(v, w) /\ Woken(v) /\ v.t = w.t /\ v.d.needs_ack = w.d.needs_ack
  BY <1>1, <1>4, <1>5, <1>6 DEF Woken
<1>. QED BY <1>7 DEF v

-----------------------------------------------------------------------------
(* The assignments to the dialog's fields.                                 *)

\* Those of several fields, by name
Filled(w, x, y) ==
    [w EXCEPT !.d.needs_ack = x, !.d.state = y]
Acked(w, x, y) ==
    [w EXCEPT !.d.needs_ack = x, !.d.last_out_ack = y]
Got(w, x, y) ==
    [w EXCEPT !.d.needs_ack = x, !.d.got_initial_ack = y]
Notes(w, x, y, z) ==
    [w EXCEPT !.d.last_transaction = x, !.d.remote_cseq = y, !.d.remote_invite_cseq = z]

LEMMA SetState ==
    ASSUME NEW w, Sound(w), NEW x \in DialogStates,
           x \in {"NULL", "EARLY"} => w.d.state \in {"NULL", "EARLY"}
    PROVE  LET v == [w EXCEPT !.d.state = x]
           IN /\ Follows(v, w) /\ Sound(v) /\ v.t = w.t
              /\ v.d.state = x /\ v.d.needs_ack = w.d.needs_ack /\ v.d.last_transaction = w.d.last_transaction
              /\ v.d.last_200Ok = w.d.last_200Ok /\ v.d.scheduled = w.d.scheduled /\ v.d.queued_ct = w.d.queued_ct
              /\ v.d.listed = w.d.listed /\ v.d.local_cseq = w.d.local_cseq /\ v.d.is_server = w.d.is_server
<1>. DEFINE v == [w EXCEPT !.d.state = x]
            e == [w.d EXCEPT !.state = x]
<1>1. w \in Worlds /\ w.d \in Dialogs /\ w.d.last_200Ok \in CSeqs \cup {0}
      /\ ~InQueue(w, w.d.last_transaction) /\ w.t[w.d.last_transaction].state # "NONE"
  BY WorldTyped, Members
<1>2. v = [w EXCEPT !.d = e]
  BY <1>1 DEF Worlds
<1>3. e \in Dialogs
  BY <1>1, Typing
<1>4. /\ e.state = x /\ e.needs_ack = w.d.needs_ack /\ e.last_transaction = w.d.last_transaction
      /\ e.last_200Ok = w.d.last_200Ok /\ e.scheduled = w.d.scheduled /\ e.queued_ct = w.d.queued_ct
      /\ e.listed = w.d.listed /\ e.local_cseq = w.d.local_cseq /\ e.is_server = w.d.is_server
  BY <1>1, Typing
<1>. HIDE DEF e, v
<1>5. Follows(v, w) /\ v.d = e /\ v.t = w.t
  BY <1>1, <1>2, <1>3, <1>4, TuneFollows DEF Worlds
<1>6. /\ Follows(v, w) /\ Sound(v) /\ v.t = w.t
      /\ v.d.state = x /\ v.d.needs_ack = w.d.needs_ack /\ v.d.last_transaction = w.d.last_transaction
      /\ v.d.last_200Ok = w.d.last_200Ok /\ v.d.scheduled = w.d.scheduled /\ v.d.queued_ct = w.d.queued_ct
      /\ v.d.listed = w.d.listed /\ v.d.local_cseq = w.d.local_cseq /\ v.d.is_server = w.d.is_server
  BY <1>4, <1>5, FollowsSound
<1>. QED BY <1>6 DEF v

LEMMA SetNeedsAck ==
    ASSUME NEW w, Sound(w), NEW x \in Flags
    PROVE  LET v == [w EXCEPT !.d.needs_ack = x]
           IN /\ Follows(v, w) /\ Sound(v) /\ v.t = w.t
              /\ v.d.state = w.d.state /\ v.d.needs_ack = x /\ v.d.last_transaction = w.d.last_transaction
              /\ v.d.last_200Ok = w.d.last_200Ok /\ v.d.scheduled = w.d.scheduled /\ v.d.queued_ct = w.d.queued_ct
              /\ v.d.listed = w.d.listed /\ v.d.local_cseq = w.d.local_cseq /\ v.d.is_server = w.d.is_server
<1>. DEFINE v == [w EXCEPT !.d.needs_ack = x]
            e == [w.d EXCEPT !.needs_ack = x]
<1>1. w \in Worlds /\ w.d \in Dialogs /\ w.d.last_200Ok \in CSeqs \cup {0}
      /\ ~InQueue(w, w.d.last_transaction) /\ w.t[w.d.last_transaction].state # "NONE"
  BY WorldTyped, Members
<1>2. v = [w EXCEPT !.d = e]
  BY <1>1 DEF Worlds
<1>3. e \in Dialogs
  BY <1>1, Typing
<1>4. /\ e.state = w.d.state /\ e.needs_ack = x /\ e.last_transaction = w.d.last_transaction
      /\ e.last_200Ok = w.d.last_200Ok /\ e.scheduled = w.d.scheduled /\ e.queued_ct = w.d.queued_ct
      /\ e.listed = w.d.listed /\ e.local_cseq = w.d.local_cseq /\ e.is_server = w.d.is_server
  BY <1>1, Typing
<1>. HIDE DEF e, v
<1>5. Follows(v, w) /\ v.d = e /\ v.t = w.t
  BY <1>1, <1>2, <1>3, <1>4, TuneFollows DEF Worlds
<1>6. /\ Follows(v, w) /\ Sound(v) /\ v.t = w.t
      /\ v.d.state = w.d.state /\ v.d.needs_ack = x /\ v.d.last_transaction = w.d.last_transaction
      /\ v.d.last_200Ok = w.d.last_200Ok /\ v.d.scheduled = w.d.scheduled /\ v.d.queued_ct = w.d.queued_ct
      /\ v.d.listed = w.d.listed /\ v.d.local_cseq = w.d.local_cseq /\ v.d.is_server = w.d.is_server
  BY <1>4, <1>5, FollowsSound
<1>. QED BY <1>6 DEF v

LEMMA SetFull ==
    ASSUME NEW w, Sound(w), NEW x \in Flags, NEW y \in DialogStates,
           y \in {"NULL", "EARLY"} => w.d.state \in {"NULL", "EARLY"}
    PROVE  LET v == Filled(w, x, y)
           IN /\ Follows(v, w) /\ Sound(v) /\ v.t = w.t
              /\ v.d.state = y /\ v.d.needs_ack = x /\ v.d.last_transaction = w.d.last_transaction
              /\ v.d.last_200Ok = w.d.last_200Ok /\ v.d.scheduled = w.d.scheduled /\ v.d.queued_ct = w.d.queued_ct
              /\ v.d.listed = w.d.listed /\ v.d.local_cseq = w.d.local_cseq /\ v.d.is_server = w.d.is_server
<1>. DEFINE v == Filled(w, x, y)
            e == [w.d EXCEPT !.needs_ack = x, !.state = y]
<1>1. w \in Worlds /\ w.d \in Dialogs /\ w.d.last_200Ok \in CSeqs \cup {0}
      /\ ~InQueue(w, w.d.last_transaction) /\ w.t[w.d.last_transaction].state # "NONE"
  BY WorldTyped, Members
<1>2. v = [w EXCEPT !.d = e]
  BY <1>1 DEF Worlds, Filled
<1>3. e \in Dialogs
  BY <1>1, Typing
<1>4. /\ e.state = y /\ e.needs_ack = x /\ e.last_transaction = w.d.last_transaction
      /\ e.last_200Ok = w.d.last_200Ok /\ e.scheduled = w.d.scheduled /\ e.queued_ct = w.d.queued_ct
      /\ e.listed = w.d.listed /\ e.local_cseq = w.d.local_cseq /\ e.is_server = w.d.is_server
  BY <1>1, Typing
<1>. HIDE DEF e, v
<1>5. Follows(v, w) /\ v.d = e /\ v.t = w.t
  BY <1>1, <1>2, <1>3, <1>4, TuneFollows DEF Worlds
<1>6. /\ Follows(v, w) /\ Sound(v) /\ v.t = w.t
      /\ v.d.state = y /\ v.d.needs_ack = x /\ v.d.last_transaction = w.d.last_transaction
      /\ v.d.last_200Ok = w.d.last_200Ok /\ v.d.scheduled = w.d.scheduled /\ v.d.queued_ct = w.d.queued_ct
      /\ v.d.listed = w.d.listed /\ v.d.local_cseq = w.d.local_cseq /\ v.d.is_server = w.d.is_server
  BY <1>4, <1>5, FollowsSound
<1>. QED BY <1>6 DEF v

LEMMA SetAcked ==
    ASSUME NEW w, Sound(w), NEW x \in Flags, NEW y \in Numbers
    PROVE  LET v == Acked(w, x, y)
           IN /\ Follows(v, w) /\ Sound(v) /\ v.t = w.t
              /\ v.d.state = w.d.state /\ v.d.needs_ack = x /\ v.d.last_transaction = w.d.last_transaction
              /\ v.d.last_200Ok = w.d.last_200Ok /\ v.d.scheduled = w.d.scheduled /\ v.d.queued_ct = w.d.queued_ct
              /\ v.d.listed = w.d.listed /\ v.d.local_cseq = w.d.local_cseq /\ v.d.is_server = w.d.is_server
<1>. DEFINE v == Acked(w, x, y)
            e == [w.d EXCEPT !.needs_ack = x, !.last_out_ack = y]
<1>1. w \in Worlds /\ w.d \in Dialogs /\ w.d.last_200Ok \in CSeqs \cup {0}
      /\ ~InQueue(w, w.d.last_transaction) /\ w.t[w.d.last_transaction].state # "NONE"
  BY WorldTyped, Members
<1>2. v = [w EXCEPT !.d = e]
  BY <1>1 DEF Worlds, Acked
<1>3. e \in Dialogs
  BY <1>1, Typing
<1>4. /\ e.state = w.d.state /\ e.needs_ack = x /\ e.last_transaction = w.d.last_transaction
      /\ e.last_200Ok = w.d.last_200Ok /\ e.scheduled = w.d.scheduled /\ e.queued_ct = w.d.queued_ct
      /\ e.listed = w.d.listed /\ e.local_cseq = w.d.local_cseq /\ e.is_server = w.d.is_server
  BY <1>1, Typing
<1>. HIDE DEF e, v
<1>5. Follows(v, w) /\ v.d = e /\ v.t = w.t
  BY <1>1, <1>2, <1>3, <1>4, TuneFollows DEF Worlds
<1>6. /\ Follows(v, w) /\ Sound(v) /\ v.t = w.t
      /\ v.d.state = w.d.state /\ v.d.needs_ack = x /\ v.d.last_transaction = w.d.last_transaction
      /\ v.d.last_200Ok = w.d.last_200Ok /\ v.d.scheduled = w.d.scheduled /\ v.d.queued_ct = w.d.queued_ct
      /\ v.d.listed = w.d.listed /\ v.d.local_cseq = w.d.local_cseq /\ v.d.is_server = w.d.is_server
  BY <1>4, <1>5, FollowsSound
<1>. QED BY <1>6 DEF v

LEMMA SetGot ==
    ASSUME NEW w, Sound(w), NEW x \in Flags, NEW y \in Flags
    PROVE  LET v == Got(w, x, y)
           IN /\ Follows(v, w) /\ Sound(v) /\ v.t = w.t
              /\ v.d.state = w.d.state /\ v.d.needs_ack = x /\ v.d.last_transaction = w.d.last_transaction
              /\ v.d.last_200Ok = w.d.last_200Ok /\ v.d.scheduled = w.d.scheduled /\ v.d.queued_ct = w.d.queued_ct
              /\ v.d.listed = w.d.listed /\ v.d.local_cseq = w.d.local_cseq /\ v.d.is_server = w.d.is_server
<1>. DEFINE v == Got(w, x, y)
            e == [w.d EXCEPT !.needs_ack = x, !.got_initial_ack = y]
<1>1. w \in Worlds /\ w.d \in Dialogs /\ w.d.last_200Ok \in CSeqs \cup {0}
      /\ ~InQueue(w, w.d.last_transaction) /\ w.t[w.d.last_transaction].state # "NONE"
  BY WorldTyped, Members
<1>2. v = [w EXCEPT !.d = e]
  BY <1>1 DEF Worlds, Got
<1>3. e \in Dialogs
  BY <1>1, Typing
<1>4. /\ e.state = w.d.state /\ e.needs_ack = x /\ e.last_transaction = w.d.last_transaction
      /\ e.last_200Ok = w.d.last_200Ok /\ e.scheduled = w.d.scheduled /\ e.queued_ct = w.d.queued_ct
      /\ e.listed = w.d.listed /\ e.local_cseq = w.d.local_cseq /\ e.is_server = w.d.is_server
  BY <1>1, Typing
<1>. HIDE DEF e, v
<1>5. Follows(v, w) /\ v.d = e /\ v.t = w.t
  BY <1>1, <1>2, <1>3, <1>4, TuneFollows DEF Worlds
<1>6. /\ Follows(v, w) /\ Sound(v) /\ v.t = w.t
      /\ v.d.state = w.d.state /\ v.d.needs_ack = x /\ v.d.last_transaction = w.d.last_transaction
      /\ v.d.last_200Ok = w.d.last_200Ok /\ v.d.scheduled = w.d.scheduled /\ v.d.queued_ct = w.d.queued_ct
      /\ v.d.listed = w.d.listed /\ v.d.local_cseq = w.d.local_cseq /\ v.d.is_server = w.d.is_server
  BY <1>4, <1>5, FollowsSound
<1>. QED BY <1>6 DEF v

LEMMA SetLast ==
    ASSUME NEW w, Sound(w), NEW x \in Ids, ~InQueue(w, x), w.t[x].state # "NONE"
    PROVE  LET v == [w EXCEPT !.d.last_transaction = x]
           IN /\ Follows(v, w) /\ Sound(v) /\ v.t = w.t
              /\ v.d.state = w.d.state /\ v.d.needs_ack = w.d.needs_ack /\ v.d.last_transaction = x
              /\ v.d.last_200Ok = w.d.last_200Ok /\ v.d.scheduled = w.d.scheduled /\ v.d.queued_ct = w.d.queued_ct
              /\ v.d.listed = w.d.listed /\ v.d.local_cseq = w.d.local_cseq /\ v.d.is_server = w.d.is_server
<1>. DEFINE v == [w EXCEPT !.d.last_transaction = x]
            e == [w.d EXCEPT !.last_transaction = x]
<1>1. w \in Worlds /\ w.d \in Dialogs /\ w.d.last_200Ok \in CSeqs \cup {0}
      /\ ~InQueue(w, w.d.last_transaction) /\ w.t[w.d.last_transaction].state # "NONE"
  BY WorldTyped, Members
<1>2. v = [w EXCEPT !.d = e]
  BY <1>1 DEF Worlds
<1>3. e \in Dialogs
  BY <1>1, Typing
<1>4. /\ e.state = w.d.state /\ e.needs_ack = w.d.needs_ack /\ e.last_transaction = x
      /\ e.last_200Ok = w.d.last_200Ok /\ e.scheduled = w.d.scheduled /\ e.queued_ct = w.d.queued_ct
      /\ e.listed = w.d.listed /\ e.local_cseq = w.d.local_cseq /\ e.is_server = w.d.is_server
  BY <1>1, Typing
<1>. HIDE DEF e, v
<1>5. Follows(v, w) /\ v.d = e /\ v.t = w.t
  BY <1>1, <1>2, <1>3, <1>4, TuneFollows DEF Worlds
<1>6. /\ Follows(v, w) /\ Sound(v) /\ v.t = w.t
      /\ v.d.state = w.d.state /\ v.d.needs_ack = w.d.needs_ack /\ v.d.last_transaction = x
      /\ v.d.last_200Ok = w.d.last_200Ok /\ v.d.scheduled = w.d.scheduled /\ v.d.queued_ct = w.d.queued_ct
      /\ v.d.listed = w.d.listed /\ v.d.local_cseq = w.d.local_cseq /\ v.d.is_server = w.d.is_server
  BY <1>4, <1>5, FollowsSound
<1>. QED BY <1>6 DEF v

LEMMA SetOk ==
    ASSUME NEW w, Sound(w), NEW x \in CSeqs \cup {0}
    PROVE  LET v == [w EXCEPT !.d.last_200Ok = x]
           IN /\ Follows(v, w) /\ Sound(v) /\ v.t = w.t
              /\ v.d.state = w.d.state /\ v.d.needs_ack = w.d.needs_ack /\ v.d.last_transaction = w.d.last_transaction
              /\ v.d.last_200Ok = x /\ v.d.scheduled = w.d.scheduled /\ v.d.queued_ct = w.d.queued_ct
              /\ v.d.listed = w.d.listed /\ v.d.local_cseq = w.d.local_cseq /\ v.d.is_server = w.d.is_server
<1>. DEFINE v == [w EXCEPT !.d.last_200Ok = x]
            e == [w.d EXCEPT !.last_200Ok = x]
<1>1. w \in Worlds /\ w.d \in Dialogs /\ w.d.last_200Ok \in CSeqs \cup {0}
      /\ ~InQueue(w, w.d.last_transaction) /\ w.t[w.d.last_transaction].state # "NONE"
      /\ x \in Numbers
  BY WorldTyped, Members
<1>2. v = [w EXCEPT !.d = e]
  BY <1>1 DEF Worlds
<1>3. e \in Dialogs
  BY <1>1, Typing
<1>4. /\ e.state = w.d.state /\ e.needs_ack = w.d.needs_ack /\ e.last_transaction = w.d.last_transaction
      /\ e.last_200Ok = x /\ e.scheduled = w.d.scheduled /\ e.queued_ct = w.d.queued_ct
      /\ e.listed = w.d.listed /\ e.local_cseq = w.d.local_cseq /\ e.is_server = w.d.is_server
  BY <1>1, Typing
<1>. HIDE DEF e, v
<1>5. Follows(v, w) /\ v.d = e /\ v.t = w.t
  BY <1>1, <1>2, <1>3, <1>4, TuneFollows DEF Worlds
<1>6. /\ Follows(v, w) /\ Sound(v) /\ v.t = w.t
      /\ v.d.state = w.d.state /\ v.d.needs_ack = w.d.needs_ack /\ v.d.last_transaction = w.d.last_transaction
      /\ v.d.last_200Ok = x /\ v.d.scheduled = w.d.scheduled /\ v.d.queued_ct = w.d.queued_ct
      /\ v.d.listed = w.d.listed /\ v.d.local_cseq = w.d.local_cseq /\ v.d.is_server = w.d.is_server
  BY <1>4, <1>5, FollowsSound
<1>. QED BY <1>6 DEF v

LEMMA SetScheduled ==
    ASSUME NEW w, Sound(w), NEW x \in Flags
    PROVE  LET v == [w EXCEPT !.d.scheduled = x]
           IN /\ Follows(v, w) /\ Sound(v) /\ v.t = w.t
              /\ v.d.state = w.d.state /\ v.d.needs_ack = w.d.needs_ack /\ v.d.last_transaction = w.d.last_transaction
              /\ v.d.last_200Ok = w.d.last_200Ok /\ v.d.scheduled = x /\ v.d.queued_ct = w.d.queued_ct
              /\ v.d.listed = w.d.listed /\ v.d.local_cseq = w.d.local_cseq /\ v.d.is_server = w.d.is_server
<1>. DEFINE v == [w EXCEPT !.d.scheduled = x]
            e == [w.d EXCEPT !.scheduled = x]
<1>1. w \in Worlds /\ w.d \in Dialogs /\ w.d.last_200Ok \in CSeqs \cup {0}
      /\ ~InQueue(w, w.d.last_transaction) /\ w.t[w.d.last_transaction].state # "NONE"
  BY WorldTyped, Members
<1>2. v = [w EXCEPT !.d = e]
  BY <1>1 DEF Worlds
<1>3. e \in Dialogs
  BY <1>1, Typing
<1>4. /\ e.state = w.d.state /\ e.needs_ack = w.d.needs_ack /\ e.last_transaction = w.d.last_transaction
      /\ e.last_200Ok = w.d.last_200Ok /\ e.scheduled = x /\ e.queued_ct = w.d.queued_ct
      /\ e.listed = w.d.listed /\ e.local_cseq = w.d.local_cseq /\ e.is_server = w.d.is_server
  BY <1>1, Typing
<1>. HIDE DEF e, v
<1>5. Follows(v, w) /\ v.d = e /\ v.t = w.t
  BY <1>1, <1>2, <1>3, <1>4, TuneFollows DEF Worlds
<1>6. /\ Follows(v, w) /\ Sound(v) /\ v.t = w.t
      /\ v.d.state = w.d.state /\ v.d.needs_ack = w.d.needs_ack /\ v.d.last_transaction = w.d.last_transaction
      /\ v.d.last_200Ok = w.d.last_200Ok /\ v.d.scheduled = x /\ v.d.queued_ct = w.d.queued_ct
      /\ v.d.listed = w.d.listed /\ v.d.local_cseq = w.d.local_cseq /\ v.d.is_server = w.d.is_server
  BY <1>4, <1>5, FollowsSound
<1>. QED BY <1>6 DEF v

LEMMA SetNoted ==
    ASSUME NEW w, Sound(w), NEW x \in Ids, NEW y \in Numbers, NEW z \in Numbers,
           ~InQueue(w, x), w.t[x].state # "NONE"
    PROVE  LET v == Notes(w, x, y, z)
           IN /\ Follows(v, w) /\ Sound(v) /\ v.t = w.t
              /\ v.d.state = w.d.state /\ v.d.needs_ack = w.d.needs_ack /\ v.d.last_transaction = x
              /\ v.d.last_200Ok = w.d.last_200Ok /\ v.d.scheduled = w.d.scheduled /\ v.d.queued_ct = w.d.queued_ct
              /\ v.d.listed = w.d.listed /\ v.d.local_cseq = w.d.local_cseq /\ v.d.is_server = w.d.is_server
<1>. DEFINE v == Notes(w, x, y, z)
            e == [w.d EXCEPT !.last_transaction = x, !.remote_cseq = y, !.remote_invite_cseq = z]
<1>1. w \in Worlds /\ w.d \in Dialogs /\ w.d.last_200Ok \in CSeqs \cup {0}
      /\ ~InQueue(w, w.d.last_transaction) /\ w.t[w.d.last_transaction].state # "NONE"
  BY WorldTyped, Members
<1>2. v = [w EXCEPT !.d = e]
  BY <1>1 DEF Worlds, Notes
<1>3. e \in Dialogs
  BY <1>1, Typing
<1>4. /\ e.state = w.d.state /\ e.needs_ack = w.d.needs_ack /\ e.last_transaction = x
      /\ e.last_200Ok = w.d.last_200Ok /\ e.scheduled = w.d.scheduled /\ e.queued_ct = w.d.queued_ct
      /\ e.listed = w.d.listed /\ e.local_cseq = w.d.local_cseq /\ e.is_server = w.d.is_server
  BY <1>1, Typing
<1>. HIDE DEF e, v
<1>5. Follows(v, w) /\ v.d = e /\ v.t = w.t
  BY <1>1, <1>2, <1>3, <1>4, TuneFollows DEF Worlds
<1>6. /\ Follows(v, w) /\ Sound(v) /\ v.t = w.t
      /\ v.d.state = w.d.state /\ v.d.needs_ack = w.d.needs_ack /\ v.d.last_transaction = x
      /\ v.d.last_200Ok = w.d.last_200Ok /\ v.d.scheduled = w.d.scheduled /\ v.d.queued_ct = w.d.queued_ct
      /\ v.d.listed = w.d.listed /\ v.d.local_cseq = w.d.local_cseq /\ v.d.is_server = w.d.is_server
  BY <1>4, <1>5, FollowsSound
<1>. QED BY <1>6 DEF v

-----------------------------------------------------------------------------
(* The functions that belle_sip_dialog_update is made of, for a             *)
(* transaction i, whose link to the dialog they leave.                      *)

Heeds(v, w, i) == Sound(v) /\ Follows(v, w) /\ v.t[i].in_dialog = w.t[i].in_dialog

LEMMA HeedsChain ==
    ASSUME NEW w, NEW v, NEW u, NEW i, Sound(w), Heeds(v, w, i), Heeds(u, v, i)
    PROVE  Heeds(u, w, i)
BY FollowsChain DEF Heeds

LEMMA StopShape ==
    ASSUME NEW w, Sound(w)
    PROVE  LET v == stop_200Ok_retrans(w)
           IN /\ Sound(v) /\ Follows(v, w) /\ v.t = w.t
              /\ v.d.state = w.d.state /\ v.d.needs_ack = w.d.needs_ack
              /\ v.d.last_transaction = w.d.last_transaction
              /\ v.d.scheduled = w.d.scheduled /\ v.d.queued_ct = w.d.queued_ct
<1>1. 0 \in CSeqs \cup {0}
  OBVIOUS
<1>. QED BY <1>1, SetOk DEF stop_200Ok_retrans

\* belle_sip_dialog_delete
LEMMA DeleteShape ==
    ASSUME NEW w, Sound(w), NEW i \in Ids
    PROVE  LET v == dialog_delete(w)
           IN Heeds(v, w, i) /\ Woken(v)
<1>. DEFINE q == w.d.queued_ct
            no == FALSE
            over == "TERMINATED"
            z == stop_200Ok_retrans(w)
            l == IF q = <<>> THEN z.d.last_transaction ELSE q[Len(q)]
            e == [z.d EXCEPT !.state = over, !.last_transaction = l,
                             !.queued_ct = <<>>, !.listed = no]
            g(k) == [w.t[k] EXCEPT !.state = over]
            f == [k \in Ids |-> IF InQueue(w, k) THEN g(k) ELSE w.t[k]]
            v == dialog_delete(w)
<1>1. /\ w \in Worlds /\ w.d \in Dialogs /\ w.t \in [Ids -> Transactions]
      /\ q \in Seq(Ids) /\ w.d.last_transaction \in Ids
      /\ no \in Flags /\ 0 \in Numbers /\ <<>> \in Queues /\ over \in DialogStates
      /\ over \in TransactionStates
  BY WorldTyped, Members
<1>a. 0 \in CSeqs \cup {0}
  OBVIOUS
<1>b. /\ Sound(z) /\ z.d.local_cseq = w.d.local_cseq /\ z.d.is_server = w.d.is_server
      /\ z.d.last_200Ok = 0 /\ z.d.last_transaction = w.d.last_transaction
  BY <1>a, SetOk DEF stop_200Ok_retrans
<1>c. z \in Worlds /\ z.d \in Dialogs /\ z.d.last_transaction \in Ids
  BY <1>b, WorldTyped
<1>2. l \in Ids /\ w.t[l].state # "NONE"
  <2>1. q # <<>> => q[Len(q)] \in Ids /\ w.t[q[Len(q)]].state = "INIT"
    BY <1>1 DEF Sound, Waiting
  <2>. QED BY <1>b, <2>1, WorldTyped
<1>d. v = [z EXCEPT !.d.state = over, !.d.last_transaction = l, !.d.queued_ct = <<>>,
                    !.d.listed = no, !.t = f]
  BY DEF dialog_delete
<1>. HIDE DEF l, no, z, over, f
<1>3. v = [z EXCEPT !.d = e, !.t = f]
  BY <1>c, <1>d DEF Worlds
<1>. USE DEF over, f
<1>4. e \in Dialogs
  BY <1>1, <1>2, <1>c, Typing
<1>5. /\ e.queued_ct = <<>> /\ e.local_cseq = w.d.local_cseq /\ e.is_server = w.d.is_server
      /\ e.last_200Ok = 0 /\ e.state = "TERMINATED" /\ e.last_transaction = l
  BY <1>b, <1>c, Typing
<1>6. ASSUME NEW k \in Ids
      PROVE  /\ g(k) \in Transactions /\ g(k).client = w.t[k].client
             /\ g(k).method = w.t[k].method /\ g(k).code = w.t[k].code
             /\ g(k).cseq = w.t[k].cseq /\ g(k).dialog_queued = w.t[k].dialog_queued
             /\ g(k).in_dialog = w.t[k].in_dialog /\ g(k).state = "TERMINATED"
  <2>1. w.t[k] \in Transactions
    BY <1>1
  <2>. QED BY <1>1, <2>1, Typing
<1>7. ASSUME NEW k \in Ids, InQueue(w, k)
      PROVE  w.t[k].state # "NONE"
  BY <1>7 DEF InQueue, Sound, Waiting
<1>. HIDE DEF e, v, g
<1>8. f \in [Ids -> Transactions]
  BY <1>1, <1>6
<1>9. v.d = e /\ v.t = f /\ v \in Worlds
  BY <1>3, <1>4, <1>8, <1>c DEF Worlds
<1>10. \A k \in Ids : f[k] = IF InQueue(w, k) THEN g(k) ELSE w.t[k]
  OBVIOUS
<1>. HIDE DEF f
<1>11. Follows(v, w)
  <2>1. ASSUME NEW k \in Ids
        PROVE  /\ v.t[k].client = w.t[k].client /\ v.t[k].method = w.t[k].method
               /\ v.t[k].code = w.t[k].code /\ v.t[k].cseq = w.t[k].cseq
               /\ v.t[k].dialog_queued = w.t[k].dialog_queued
               /\ \/ v.t[k].state = w.t[k].state /\ v.t[k].in_dialog = w.t[k].in_dialog
                  \/ v.t[k].state = "TERMINATED" /\ w.t[k].state # "NONE"
               /\ InQueue(w, k) => v.t[k].state = "TERMINATED"
    BY <1>6, <1>7, <1>9, <1>10
  <2>2. \A k : ~InQueue(v, k)
    BY <1>5, <1>9 DEF InQueue
  <2>3. v.d.last_transaction \in Ids /\ v.t[v.d.last_transaction].state # "NONE"
    BY <1>2, <1>5, <1>9, <2>1
  <2>. QED BY <1>5, <1>9, <2>1, <2>2, <2>3 DEF Follows
<1>12. Heeds(v, w, i) /\ Woken(v)
  BY <1>5, <1>6, <1>9, <1>10, <1>11, FollowsSound DEF Heeds, Woken
<1>. QED BY <1>12 DEF v

\* init_200Ok_retrans, for a request of the peer
LEMMA InitOkShape ==
    ASSUME NEW w, Sound(w), NEW i \in Ids, w.t[i].cseq \in CSeqs
    PROVE  LET v == init_200Ok_retrans(w, i)
           IN Sound(v) /\ Follows(v, w) /\ v.t = w.t
<1>1. w.t[i].cseq \in CSeqs \cup {0}
  OBVIOUS
<1>. QED BY <1>1, SetOk, FollowsItself DEF init_200Ok_retrans

LEMMA ExhumedShape ==
    ASSUME NEW w, Sound(w), NEW i, NEW as_uas
    PROVE  LET v == Exhumed(w, i, as_uas)
           IN Sound(v) /\ Follows(v, w) /\ v.t = w.t
<1>1. "CONFIRMED" \in DialogStates /\ "CONFIRMED" \notin {"NULL", "EARLY"}
  BY Members
<1>. QED BY <1>1, SetState, FollowsItself DEF Exhumed

LEMMA NotedShape ==
    ASSUME NEW w, Sound(w), NEW i \in Ids, NEW as_uas \in BOOLEAN, ~InQueue(w, i),
           w.t[i].state # "NONE"
    PROVE  LET v == Noted(w, i, as_uas)
           IN Sound(v) /\ Follows(v, w) /\ v.t = w.t
<1>. DEFINE newer == w.d.remote_cseq < w.t[i].cseq
            l == IF newer /\ w.t[i].code # 491 THEN i ELSE w.d.last_transaction
            c == IF newer THEN w.t[i].cseq ELSE w.d.remote_cseq
            n == IF /\ w.t[i].method = "INVITE" /\ w.t[i].code \in 200..299
                    /\ w.d.remote_invite_cseq < w.t[i].cseq
                 THEN w.t[i].cseq ELSE w.d.remote_invite_cseq
<1>1. /\ l \in Ids /\ c \in Numbers /\ n \in Numbers
      /\ ~InQueue(w, l) /\ w.t[l].state # "NONE"
  BY WorldTyped DEF Numbers
<1>2. CASE as_uas
  <2>. DEFINE v == Notes(w, l, c, n)
  <2>1. Noted(w, i, as_uas) = v
    BY <1>2, WorldTyped DEF Noted, Worlds, Notes
  <2>. HIDE DEF l, c, n
  <2>2. Sound(v) /\ Follows(v, w) /\ v.t = w.t
    BY <1>1, SetNoted
  <2>. HIDE DEF v
  <2>. QED BY <2>1, <2>2
<1>3. CASE ~as_uas
  BY <1>3, SetLast DEF Noted
<1>. QED BY <1>2, <1>3

\* A transaction other than i is detached and terminated.
LEMMA SupersedeShape ==
    ASSUME NEW w, Sound(w), NEW previous \in Ids, NEW i \in Ids, ~InQueue(w, previous)
    PROVE  Heeds(Supersede(w, previous, i), w, i)
<1>1. CASE previous # i /\ Transient(w.t[previous].state)
  <2>. DEFINE no == FALSE
              over == "TERMINATED"
              g == [w.t[previous] EXCEPT !.state = over, !.in_dialog = no]
              f == [w.t EXCEPT ![previous] = g]
              v == Supersede(w, previous, i)
  <2>1. /\ w \in Worlds /\ w.t \in [Ids -> Transactions] /\ w.t[previous] \in Transactions
        /\ no \in Flags /\ over \in TransactionStates /\ w.d \in Dialogs
        /\ w.d.last_200Ok \in CSeqs \cup {0}
    BY WorldTyped, Members
  <2>2. v = [w EXCEPT !.t[previous].state = over, !.t[previous].in_dialog = no]
    BY <1>1 DEF Supersede
  <2>. HIDE DEF no, over
  <2>3. v = [w EXCEPT !.t = f]
    BY <2>1, <2>2 DEF Worlds
  <2>4. /\ g \in Transactions /\ g.client = w.t[previous].client
        /\ g.method = w.t[previous].method /\ g.code = w.t[previous].code
        /\ g.cseq = w.t[previous].cseq /\ g.dialog_queued = w.t[previous].dialog_queued
        /\ g.state = over
    BY <2>1, Typing
  <2>. HIDE DEF g, v
  <2>5. f \in [Ids -> Transactions] /\ \A k \in Ids : f[k] = IF k = previous THEN g ELSE w.t[k]
    BY <2>1, <2>4
  <2>. HIDE DEF f
  <2>6. v \in Worlds /\ v.d = w.d /\ v.t = f
    BY <2>1, <2>3, <2>5 DEF Worlds
  <2>7. w.t[previous].state # "NONE"
    BY <1>1 DEF Transient
  <2>8. ASSUME NEW k \in Ids
        PROVE  /\ v.t[k].client = w.t[k].client /\ v.t[k].method = w.t[k].method
               /\ v.t[k].code = w.t[k].code /\ v.t[k].cseq = w.t[k].cseq
               /\ v.t[k].dialog_queued = w.t[k].dialog_queued
               /\ \/ v.t[k].state = w.t[k].state /\ v.t[k].in_dialog = w.t[k].in_dialog
                  \/ v.t[k].state = "TERMINATED" /\ w.t[k].state # "NONE"
    BY <2>4, <2>5, <2>6, <2>7 DEF over
  <2>a. /\ \A k : InQueue(v, k) = InQueue(w, k)
        /\ ~InQueue(w, w.d.last_transaction) /\ w.t[w.d.last_transaction].state # "NONE"
        /\ w.d.last_transaction \in Ids
    BY <2>6, WorldTyped DEF InQueue
  <2>b. \A k \in Ids : InQueue(w, k) => v.t[k] = w.t[k]
    BY <2>5, <2>6
  <2>9. Follows(v, w)
    BY <2>1, <2>6, <2>8, <2>a, <2>b DEF Follows
  <2>10. Heeds(v, w, i)
    BY <1>1, <2>5, <2>6, <2>9, FollowsSound DEF Heeds
  <2>. QED BY <2>10 DEF v
<1>2. CASE ~(previous # i /\ Transient(w.t[previous].state))
  BY <1>2, FollowsItself DEF Supersede, Heeds
<1>. QED BY <1>1, <1>2

\* Whatever a function made of the world, it looks at the queue in the end.
LEMMA QueueShape ==
    ASSUME NEW w, NEW v, NEW i, Sound(w), Heeds(v, w, i)
    PROVE  LET u == process_queue(v)
           IN Heeds(u, w, i) /\ Woken(u)
<1>1. Sound(v)
  BY DEF Heeds
<1>2. LET u == process_queue(v)
      IN Follows(u, v) /\ Woken(u) /\ u.t = v.t
  BY <1>1, ProcessQueueShape
<1>. QED BY <1>1, <1>2, FollowsSound, HeedsChain DEF Heeds

LEMMA EarlyShape ==
    ASSUME NEW w, Sound(w), NEW i \in Ids, w.t[i].state # "NONE",
           w.d.state \in {"NULL", "EARLY"}
    PROVE  LET v == UpdateEarly(w, i)
           IN Heeds(v, w, i) /\ Woken(v)
<1>. DEFINE code == w.t[i].code
            invite == w.t[i].method = "INVITE"
            over == w.t[i].state = "TERMINATED"
            yes == TRUE
            full == "CONFIRMED"
            v == UpdateEarly(w, i)
            early == "EARLY"
            begun == [w EXCEPT !.d.state = early]
            confirmed == Filled(w, yes, full)
            repeated == IF w.d.is_server THEN init_200Ok_retrans(confirmed, i) ELSE confirmed
            c1 == w.d.state = "NULL" /\ invite /\ code \in 101..199
            c2 == invite /\ code >= 300 /\ code # 407
            c3 == invite /\ code \in 200..299
            c4 == code < 200 /\ over
            v1 == process_queue(begun)
            v2 == dialog_delete(w)
            v3 == process_queue(repeated)
            v4 == process_queue(w)
<1>0. v = CASE c1 -> v1 [] c2 -> v2 [] c3 -> v3 [] c4 -> v2 [] OTHER -> v4
  BY DEF UpdateEarly, Filled
<1>1. v = v1 \/ v = v2 \/ (invite /\ v = v3) \/ v = v4
  <2>1. c3 => invite
    OBVIOUS
  <2>. HIDE DEF c1, c2, c3, c4, v, v1, v2, v3, v4, invite
  <2>. QED BY <1>0, <2>1
<1>2. Heeds(begun, w, i)
  <2>1. early \in DialogStates
    BY Members
  <2>. HIDE DEF early
  <2>. QED BY <2>1, SetState DEF Heeds
<1>3. Sound(confirmed) /\ Follows(confirmed, w) /\ confirmed.t = w.t
  <2>1. yes \in Flags /\ full \in DialogStates /\ full \notin {"NULL", "EARLY"}
    BY Members
  <2>. HIDE DEF yes, full
  <2>. QED BY <2>1, SetFull
<1>. HIDE DEF confirmed, begun
<1>4. invite => Heeds(repeated, w, i)
  <2>1. CASE invite /\ w.d.is_server
    <3>1. ~w.t[i].client
      BY <2>1 DEF Sound, Numbered
    <3>2. confirmed.t[i].cseq \in CSeqs
      BY <1>3, <3>1 DEF Sound, Numbered
    <3>3. LET u == init_200Ok_retrans(confirmed, i)
          IN Sound(u) /\ Follows(u, confirmed) /\ u.t = confirmed.t
      BY <1>3, <3>2, InitOkShape
    <3>. QED BY <1>3, <2>1, <3>3, FollowsChain DEF Heeds
  <2>2. CASE ~w.d.is_server
    BY <1>3, <2>2 DEF Heeds
  <2>. QED BY <2>1, <2>2
<1>5. LET u == dialog_delete(w) IN Heeds(u, w, i) /\ Woken(u)
  BY DeleteShape
<1>6. Heeds(w, w, i)
  BY FollowsItself DEF Heeds
<1>. HIDE DEF v, repeated
<1>7. Heeds(v, w, i) /\ Woken(v)
  BY <1>1, <1>2, <1>4, <1>5, <1>6, QueueShape
<1>. QED BY <1>7 DEF v

LEMMA ConfirmedShape ==
    ASSUME NEW w, Sound(w), NEW i \in Ids, w.t[i].state # "NONE", NEW previous \in Ids,
           NEW as_uas \in BOOLEAN, as_uas => ~w.t[i].client, ~InQueue(w, previous),
           w.t[previous].state # "NONE"
    PROVE  LET v == UpdateConfirmed(w, i, as_uas, previous)
           IN Heeds(v, w, i) /\ Woken(v)
<1>. DEFINE yes == TRUE
            no == FALSE
            v == UpdateConfirmed(w, i, as_uas, previous)
            known == [w EXCEPT !.d.last_transaction = previous]
            fresh == [w EXCEPT !.d.needs_ack = yes]
            repeated == IF as_uas THEN init_200Ok_retrans(fresh, i) ELSE fresh
            freed == [w EXCEPT !.d.needs_ack = no]
            code == w.t[i].code
            method == w.t[i].method
            over == code >= 200 \/ (code = 0 /\ w.t[i].state = "TERMINATED")
            c1 == method = "INVITE" /\ code = 481
            c2 == method = "INVITE" /\ code \in 200..299
            c3 == method = "BYE" /\ over
            c4 == method = "BYE" /\ ~as_uas /\ code = 0
            v1 == dialog_delete(w)
            v2 == IF ~as_uas /\ handle_200Ok(w, i) THEN process_queue(known)
                  ELSE process_queue(repeated)
            v3 == dialog_delete(Supersede(freed, previous, i))
            v4 == process_queue(Supersede(w, previous, i))
            v5 == process_queue(w)
<1>0. v = CASE c1 -> v1 [] c2 -> v2 [] c3 -> v3 [] c4 -> v4 [] OTHER -> v5
  BY DEF UpdateConfirmed
<1>1. \/ v = dialog_delete(w)
      \/ v = process_queue(known)
      \/ v = process_queue(repeated)
      \/ v = dialog_delete(Supersede(freed, previous, i))
      \/ v = process_queue(Supersede(w, previous, i))
      \/ v = process_queue(w)
  <2>1. v = v1 \/ v = v2 \/ v = v3 \/ v = v4 \/ v = v5
    <3>. HIDE DEF c1, c2, c3, c4, v, v1, v2, v3, v4, v5
    <3>. QED BY <1>0
  <2>2. v2 = process_queue(known) \/ v2 = process_queue(repeated)
    OBVIOUS
  <2>. HIDE DEF v, v2, known, repeated, freed
  <2>. QED BY <2>1, <2>2
<1>2. Heeds(known, w, i)
  BY SetLast DEF Heeds
<1>3. /\ Sound(fresh) /\ Follows(fresh, w) /\ fresh.t = w.t
      /\ Sound(freed) /\ Heeds(freed, w, i)
  <2>1. yes \in Flags /\ no \in Flags
    BY Members
  <2>. HIDE DEF yes, no
  <2>. QED BY <2>1, SetNeedsAck DEF Heeds
<1>. HIDE DEF known, fresh, freed
<1>4. Heeds(repeated, w, i)
  <2>1. CASE as_uas
    <3>1. fresh.t[i].cseq \in CSeqs
      BY <1>3, <2>1 DEF Sound, Numbered
    <3>2. LET u == init_200Ok_retrans(fresh, i)
          IN Sound(u) /\ Follows(u, fresh) /\ u.t = fresh.t
      BY <1>3, <3>1, InitOkShape
    <3>. QED BY <1>3, <2>1, <3>2, FollowsChain DEF Heeds
  <2>2. CASE ~as_uas
    BY <1>3, <2>2 DEF Heeds
  <2>. QED BY <2>1, <2>2
<1>5. LET u == dialog_delete(w) IN Heeds(u, w, i) /\ Woken(u)
  BY DeleteShape
<1>6. LET u == dialog_delete(Supersede(freed, previous, i)) IN Heeds(u, w, i) /\ Woken(u)
  <2>. DEFINE x == Supersede(freed, previous, i)
  <2>0. ~InQueue(freed, previous)
    BY <1>3, FollowsQueue DEF Heeds
  <2>1. Heeds(x, freed, i)
    BY <1>3, <2>0, SupersedeShape
  <2>. HIDE DEF x
  <2>2. Sound(x)
    BY <2>1 DEF Heeds
  <2>3. LET u == dialog_delete(x) IN Heeds(u, x, i) /\ Woken(u)
    BY <2>2, DeleteShape
  <2>4. Heeds(x, w, i)
    BY <1>3, <2>1, HeedsChain
  <2>5. LET u == dialog_delete(x) IN Heeds(u, w, i) /\ Woken(u)
    BY <2>3, <2>4, HeedsChain
  <2>. QED BY <2>5 DEF x
<1>7. Heeds(Supersede(w, previous, i), w, i)
  BY SupersedeShape
<1>8. Heeds(w, w, i)
  BY FollowsItself DEF Heeds
<1>. HIDE DEF v, repeated
<1>9. Heeds(v, w, i) /\ Woken(v)
  BY <1>1, <1>2, <1>4, <1>5, <1>6, <1>7, <1>8, QueueShape
<1>. QED BY <1>9 DEF v

\* belle_sip_dialog_update always ends with a look at the queue, or deletes it.
LEMMA UpdateShape ==
    ASSUME NEW w, Sound(w), NEW i \in Ids, w.t[i].state # "NONE",
           NEW as_uas \in BOOLEAN, as_uas => ~w.t[i].client, ~InQueue(w, i)
    PROVE  LET v == dialog_update(w, i, as_uas)
           IN Heeds(v, w, i) /\ Woken(v)
<1>. DEFINE x == Exhumed(w, i, as_uas)
            n == Noted(x, i, as_uas)
            v == dialog_update(w, i, as_uas)
            l == w.d.last_transaction
<1>1. Sound(x) /\ Follows(x, w) /\ x.t = w.t
  BY ExhumedShape
<1>2. v = CASE n.d.state \in {"NULL", "EARLY"} -> UpdateEarly(n, i)
            [] n.d.state = "CONFIRMED" -> UpdateConfirmed(n, i, as_uas, l)
            [] OTHER -> process_queue(n)
  BY DEF dialog_update
<1>. HIDE DEF x
<1>a. ~InQueue(x, i) /\ x.t[i].state # "NONE"
  BY <1>1, FollowsQueue
<1>3. Sound(n) /\ Follows(n, x) /\ n.t = x.t
  BY <1>1, <1>a, NotedShape
<1>. HIDE DEF n, v
<1>4. Heeds(n, w, i) /\ n.t[i].state # "NONE" /\ (as_uas => ~n.t[i].client) /\ l \in Ids
  BY <1>1, <1>3, FollowsChain, WorldTyped DEF Heeds
<1>b. ~InQueue(n, l) /\ n.t[l].state # "NONE"
  BY <1>1, <1>3, <1>4, FollowsQueue, WorldTyped DEF Heeds
<1>. HIDE DEF l
<1>5. CASE n.d.state \in {"NULL", "EARLY"}
  <2>1. v = UpdateEarly(n, i)
    BY <1>2, <1>5
  <2>2. Heeds(v, n, i) /\ Woken(v)
    BY <1>3, <1>4, <1>5, <2>1, EarlyShape
  <2>. QED BY <1>4, <2>2, HeedsChain DEF v
<1>6. CASE n.d.state = "CONFIRMED"
  <2>1. v = UpdateConfirmed(n, i, as_uas, l)
    BY <1>2, <1>6
  <2>2. Heeds(v, n, i) /\ Woken(v)
    BY <1>3, <1>4, <1>b, <2>1, ConfirmedShape
  <2>. QED BY <1>4, <2>2, HeedsChain DEF v
<1>7. CASE n.d.state \notin {"NULL", "EARLY", "CONFIRMED"}
  <2>1. v = process_queue(n)
    BY <1>2, <1>7
  <2>. QED BY <1>4, <2>1, QueueShape DEF v
<1>. QED BY <1>5, <1>6, <1>7

\* A transaction is over.
LEMMA OverShape ==
    ASSUME NEW w, Sound(w), NEW i \in Ids, w.t[i].state # "NONE", ~InQueue(w, i)
    PROVE  LET v == [w EXCEPT !.t[i].state = "TERMINATED"]
           IN Heeds(v, w, i) /\ v.d = w.d /\ v.t[i].state = "TERMINATED"
              /\ \A k \in Ids : k # i => v.t[k] = w.t[k]
<1>. DEFINE over == "TERMINATED"
            v == [w EXCEPT !.t[i].state = over]
            g == [w.t[i] EXCEPT !.state = over]
            f == [w.t EXCEPT ![i] = g]
<1>1. /\ w \in Worlds /\ w.t \in [Ids -> Transactions] /\ w.t[i] \in Transactions
      /\ over \in TransactionStates /\ w.d \in Dialogs
      /\ w.d.last_200Ok \in CSeqs \cup {0} /\ over = "TERMINATED"
  BY WorldTyped, Members
<1>. HIDE DEF over
<1>2. v = [w EXCEPT !.t = f]
  BY <1>1 DEF Worlds
<1>3. /\ g \in Transactions /\ g.client = w.t[i].client
      /\ g.method = w.t[i].method /\ g.code = w.t[i].code
      /\ g.cseq = w.t[i].cseq /\ g.dialog_queued = w.t[i].dialog_queued
      /\ g.state = over /\ g.in_dialog = w.t[i].in_dialog
  BY <1>1, Typing
<1>. HIDE DEF g, v
<1>4. f \in [Ids -> Transactions] /\ \A k \in Ids : f[k] = IF k = i THEN g ELSE w.t[k]
  BY <1>1, <1>3
<1>. HIDE DEF f
<1>5. v \in Worlds /\ v.d = w.d /\ v.t = f
  BY <1>1, <1>2, <1>4 DEF Worlds
<1>a. /\ \A k : InQueue(v, k) = InQueue(w, k)
      /\ ~InQueue(w, w.d.last_transaction) /\ w.t[w.d.last_transaction].state # "NONE"
      /\ w.d.last_transaction \in Ids
  BY <1>5, WorldTyped DEF InQueue
<1>b. \A k \in Ids : InQueue(w, k) => v.t[k] = w.t[k]
  BY <1>4, <1>5
<1>6. Follows(v, w)
  BY <1>1, <1>3, <1>4, <1>5, <1>a, <1>b DEF Follows
<1>7. /\ Heeds(v, w, i) /\ v.d = w.d /\ v.t[i].state = "TERMINATED"
      /\ \A k \in Ids : k # i => v.t[k] = w.t[k]
  BY <1>1, <1>3, <1>4, <1>5, <1>6, FollowsSound DEF Heeds
<1>. QED BY <1>7 DEF v, over

LEMMA WokenAttentive ==
    ASSUME NEW w, Woken(w)
    PROVE  Attentive(w)
BY DEF Woken, Attentive

\* belle_sip_transaction_terminate: the dialog is told unless it knew before.
LEMMA TerminateShape ==
    ASSUME NEW w, Sound(w), NEW i \in Ids, w.t[i].state # "NONE", ~InQueue(w, i)
    PROVE  LET v == terminate(w, i)
           IN /\ Heeds(v, w, i)
              /\ Attentive(w) => Attentive(v)
              /\ Woken(w) => Woken(v)
<1>. DEFINE x == [w EXCEPT !.t[i].state = "TERMINATED"]
            told == w.t[i].state # "TERMINATED" /\ w.t[i].in_dialog /\ w.t[i].code < 200
            server == ~w.t[i].client
            u == dialog_update(x, i, server)
            v == terminate(w, i)
<1>1. v = IF told THEN u ELSE x
  BY DEF terminate
<1>2. /\ Heeds(x, w, i) /\ x.d = w.d /\ x.t[i].state = "TERMINATED"
      /\ \A k \in Ids : k # i => x.t[k] = w.t[k]
  BY OverShape
<1>. HIDE DEF x
<1>3. /\ Sound(x) /\ x.t[i].state # "NONE" /\ server \in BOOLEAN
      /\ (server => ~x.t[i].client) /\ ~InQueue(x, i)
  BY <1>2, FollowsQueue DEF Heeds, Follows
<1>. HIDE DEF server
<1>4. Heeds(u, x, i) /\ Woken(u)
  BY <1>3, UpdateShape
<1>. HIDE DEF u, v
<1>5. CASE told
  <2>1. Heeds(v, w, i) /\ Woken(v)
    BY <1>1, <1>2, <1>4, <1>5, HeedsChain
  <2>. QED BY <2>1, WokenAttentive DEF v
<1>6. CASE ~told
  <2>1. ~Transient(w.t[i].state) /\ ~Transient(x.t[i].state)
    BY <1>2, <1>6 DEF Sound, Live, Transient
  <2>2. request_pending(x) = request_pending(w)
    BY <1>2, <2>1, WorldTyped DEF request_pending
  <2>3. v = x
    BY <1>1, <1>6
  <2>4. /\ Heeds(v, w, i)
        /\ Attentive(w) => Attentive(v)
        /\ Woken(w) => Woken(v)
    BY <1>2, <2>2, <2>3 DEF Attentive, Woken
  <2>. QED BY <2>4 DEF v
<1>. QED BY <1>5, <1>6

-----------------------------------------------------------------------------
(* New transactions.                                                       *)

\* Among numbers there is a least one.
LEMMA Least ==
    ASSUME NEW T, T \subseteq Nat, T # {}
    PROVE  \E i \in T : \A j \in T : i <= j
<1>. DEFINE R == OpToRel(<, Nat)
<1>1. IsWellFoundedOn(R, Nat)
  BY NatLessThanWellFounded
<1>2. \A x, y \in Nat : <<y, x>> \in R <=> y < x
  BY DEF OpToRel
<1>. HIDE DEF R
<1>3. PICK i \in T : \A j \in T : ~(<<j, i>> \in R)
  BY <1>1, WFMin
<1>4. ASSUME NEW j \in T PROVE i <= j
  <2>1. i \in Nat /\ j \in Nat
    OBVIOUS
  <2>2. ~(j < i)
    BY <1>2, <1>3, <2>1
  <2>. QED BY <2>1, <2>2
<1>. QED BY <1>4

LEMMA NextIdLeast ==
    ASSUME NEW w, Free(w) # {}
    PROVE  NextId(w) \in Free(w) /\ \A j \in Free(w) : NextId(w) <= j
<1>1. Free(w) \subseteq Nat
  BY Members DEF Free
<1>2. \E i \in Free(w) : \A j \in Free(w) : i <= j
  BY <1>1, Least
<1>. QED BY <1>2 DEF NextId

\* A transaction takes the place of nobody.
Joined(w, new, cseq) ==
    [d |-> [w.d EXCEPT !.local_cseq = cseq], t |-> [w.t EXCEPT ![NextId(w)] = new]]

LEMMA NewShape ==
    ASSUME NEW w, Sound(w), Free(w) # {}, NEW new \in Transactions, NEW cseq \in Nat,
           new.state # "NONE", Transient(new.state) => new.in_dialog /\ new.code < 200,
           ~new.client => new.cseq \in CSeqs,
           new.client /\ new.method = "INVITE" => w.d.state \notin {"NULL", "EARLY"},
           w.d.local_cseq <= cseq,
           new.dialog_queued => /\ new.client /\ new.cseq # 0
                                /\ w.d.local_cseq < new.cseq /\ new.cseq <= cseq
                                /\ w.d.queued_ct = <<>>
    PROVE  LET i == NextId(w)
               v == Joined(w, new, cseq)
           IN Sound(v) /\ i \in Ids /\ v.t[i] = new /\ w.t[i].state = "NONE"
<1>. DEFINE i == NextId(w)
            e == [w.d EXCEPT !.local_cseq = cseq]
            f == [w.t EXCEPT ![i] = new]
            v == Joined(w, new, cseq)
<1>0. v = [d |-> e, t |-> f]
  BY DEF Joined
<1>1. i \in Ids /\ w.t[i].state = "NONE" /\ \A j \in Ids : w.t[j].state = "NONE" => i <= j
  BY NextIdLeast DEF Free
<1>2. w \in Worlds /\ w.d \in Dialogs /\ w.t \in [Ids -> Transactions]
  BY WorldTyped
<1>3. e \in Dialogs
  BY <1>2, Typing DEF Numbers
<1>4. /\ e.queued_ct = w.d.queued_ct /\ e.local_cseq = cseq /\ e.is_server = w.d.is_server
      /\ e.state = w.d.state /\ e.last_200Ok = w.d.last_200Ok
      /\ e.last_transaction = w.d.last_transaction
  BY <1>2, Typing
<1>. HIDE DEF i, e
<1>5. f \in [Ids -> Transactions] /\ \A k \in Ids : f[k] = IF k = i THEN new ELSE w.t[k]
  BY <1>1, <1>2
<1>. HIDE DEF f, v
<1>6. v \in Worlds /\ v.d = e /\ v.t = f
  BY <1>0, <1>3, <1>5 DEF Worlds
<1>7. Numbered(v)
  BY <1>1, <1>4, <1>5, <1>6 DEF Sound, Numbered
<1>8. Live(v)
  BY <1>5, <1>6 DEF Sound, Live, Transient
<1>9. Allotted(v)
  <2>1. Ids \subseteq Nat
    BY Members
  <2>2. v.t[v.d.last_transaction].state # "NONE"
    BY <1>4, <1>5, <1>6, WorldTyped
  <2>. QED BY <1>1, <1>5, <1>6, <2>1, <2>2 DEF Sound, Allotted
<1>10. \A k : InQueue(v, k) = InQueue(w, k)
  BY <1>4, <1>6 DEF InQueue
<1>11. /\ \A k \in DOMAIN w.d.queued_ct : w.d.queued_ct[k] \in Ids /\ w.d.queued_ct[k] # i
       /\ ~w.t[i].dialog_queued /\ ~InQueue(w, i)
  BY <1>1, <1>2 DEF Sound, Waiting, Departed, Dialogs, InQueue
<1>12. Waiting(v)
  BY <1>4, <1>5, <1>6, <1>11 DEF Sound, Waiting
<1>13. Departed(v)
  <2>1. ASSUME NEW k \in Ids, k # i, w.t[k].dialog_queued
        PROVE  k < i /\ w.t[k].cseq \in Nat /\ w.t[k].cseq <= w.d.local_cseq /\ w.d.local_cseq \in Nat
    <3>1. w.t[k].state # "NONE" /\ w.t[k].cseq <= w.d.local_cseq
      BY <2>1 DEF Sound, Departed
    <3>2. ~(i < k)
      BY <1>1, <3>1 DEF Sound, Allotted
    <3>3. i \in Nat /\ k \in Nat
      BY <1>1, Members
    <3>. QED BY <2>1, <3>1, <3>2, <3>3, WorldTyped
  <2>2. new.dialog_queued => \A k : ~InQueue(w, k)
    BY DEF InQueue
  <2>3. new.cseq \in Nat /\ i \in Nat
    BY <1>1, Members, Typing DEF Numbers
  <2>4. ASSUME NEW k \in Ids, v.t[k].dialog_queued
        PROVE  /\ v.t[k].client /\ v.t[k].state # "NONE" /\ v.t[k].cseq <= v.d.local_cseq
               /\ v.t[k].cseq = 0 => InQueue(v, k) \/ v.t[k].state = "TERMINATED"
    <3>1. CASE k = i
      BY <1>4, <1>5, <1>6, <2>4, <3>1
    <3>2. CASE k # i
      <4>1. w.t[k].dialog_queued /\ v.t[k] = w.t[k]
        BY <1>5, <1>6, <2>4, <3>2
      <4>. QED BY <1>4, <1>6, <1>10, <2>1, <3>2, <4>1 DEF Sound, Departed
    <3>. QED BY <3>1, <3>2
  <2>5. ASSUME NEW k \in Ids, NEW j \in Ids, k < j, v.t[k].dialog_queued, v.t[j].dialog_queued,
               v.t[j].cseq # 0
        PROVE  ~InQueue(v, k) /\ v.t[k].cseq < v.t[j].cseq
    <3>1. CASE k = i
      <4>1. w.t[j].dialog_queued /\ j # i
        BY <1>5, <1>6, <2>3, <2>5, <3>1
      <4>. QED BY <2>1, <2>3, <2>5, <3>1, <4>1
    <3>2. CASE k # i /\ j = i
      BY <1>5, <1>6, <1>10, <2>1, <2>2, <2>3, <2>5, <3>2
    <3>3. CASE k # i /\ j # i
      BY <1>5, <1>6, <1>10, <2>5, <3>3 DEF Sound, Departed
    <3>. QED BY <3>1, <3>2, <3>3
  <2>. QED BY <2>4, <2>5 DEF Departed
<1>14. Sound(v) /\ i \in Ids /\ v.t[i] = new /\ w.t[i].state = "NONE"
  BY <1>1, <1>5, <1>6, <1>7, <1>8, <1>9, <1>12, <1>13 DEF Sound
<1>. QED BY <1>14 DEF v, i

\* A transaction that moves on, with the answer that it got or gave
Moved(w, i, state, code) ==
    [d |-> w.d, t |-> [w.t EXCEPT ![i] = [w.t[i] EXCEPT !.state = state, !.code = code]]]

LEMMA MovedShape ==
    ASSUME NEW w, Sound(w), NEW i \in Ids, w.t[i].state # "NONE",
           NEW state \in TransactionStates, state # "NONE", NEW code \in Nat,
           Transient(state) => w.t[i].in_dialog /\ code < 200,
           ~InQueue(w, i), w.t[i].state # "TERMINATED" \/ w.t[i].cseq # 0
    PROVE  LET v == Moved(w, i, state, code)
           IN /\ Sound(v) /\ v.d = w.d /\ Free(v) = Free(w)
              /\ v.t[i].state = state /\ v.t[i].code = code
              /\ v.t[i].client = w.t[i].client /\ v.t[i].method = w.t[i].method
              /\ v.t[i].cseq = w.t[i].cseq /\ v.t[i].in_dialog = w.t[i].in_dialog
              /\ \A k \in Ids : k # i => v.t[k] = w.t[k]
<1>. DEFINE g == [w.t[i] EXCEPT !.state = state, !.code = code]
            f == [w.t EXCEPT ![i] = g]
            v == Moved(w, i, state, code)
<1>1. /\ w \in Worlds /\ w.t \in [Ids -> Transactions] /\ w.t[i] \in Transactions
      /\ w.d \in Dialogs /\ code \in Numbers
  BY WorldTyped DEF Numbers
<1>2. v = [d |-> w.d, t |-> f]
  BY DEF Moved
<1>3. /\ g \in Transactions /\ g.client = w.t[i].client
      /\ g.method = w.t[i].method /\ g.code = code /\ g.state = state
      /\ g.cseq = w.t[i].cseq /\ g.dialog_queued = w.t[i].dialog_queued
      /\ g.in_dialog = w.t[i].in_dialog
  BY <1>1, Typing
<1>. HIDE DEF g, v
<1>4. f \in [Ids -> Transactions] /\ \A k \in Ids : f[k] = IF k = i THEN g ELSE w.t[k]
  BY <1>1, <1>3
<1>. HIDE DEF f
<1>5. v \in Worlds /\ v.d = w.d /\ v.t = f
  BY <1>1, <1>2, <1>4 DEF Worlds
<1>6. \A k \in Ids :
         /\ v.t[k].client = w.t[k].client /\ v.t[k].method = w.t[k].method
         /\ v.t[k].cseq = w.t[k].cseq /\ v.t[k].dialog_queued = w.t[k].dialog_queued
         /\ v.t[k].in_dialog = w.t[k].in_dialog
         /\ v.t[k].state = "NONE" <=> w.t[k].state = "NONE"
  BY <1>3, <1>4, <1>5
<1>7. \A k : InQueue(v, k) = InQueue(w, k)
  BY <1>5 DEF InQueue
<1>8. Numbered(v) /\ Allotted(v)
  <2>1. w.d.last_transaction \in Ids
    BY WorldTyped
  <2>. QED BY <1>5, <1>6, <2>1 DEF Sound, Numbered, Allotted
<1>9. Live(v)
  BY <1>3, <1>4, <1>5 DEF Sound, Live
<1>10. Waiting(v)
  <2>1. \A k \in DOMAIN w.d.queued_ct : w.d.queued_ct[k] \in Ids /\ w.d.queued_ct[k] # i
    BY <1>1 DEF Dialogs, InQueue
  <2>2. \A k \in DOMAIN w.d.queued_ct : v.t[w.d.queued_ct[k]] = w.t[w.d.queued_ct[k]]
    BY <1>4, <1>5, <2>1
  <2>. QED BY <1>5, <2>2 DEF Sound, Waiting
<1>11. Departed(v)
  <2>1. ASSUME NEW k \in Ids, v.t[k].dialog_queued
        PROVE  /\ v.t[k].client /\ v.t[k].state # "NONE" /\ v.t[k].cseq <= v.d.local_cseq
               /\ v.t[k].cseq = 0 => InQueue(v, k) \/ v.t[k].state = "TERMINATED"
    <3>1. /\ w.t[k].client /\ w.t[k].state # "NONE" /\ w.t[k].cseq <= w.d.local_cseq
          /\ w.t[k].cseq = 0 => InQueue(w, k) \/ w.t[k].state = "TERMINATED"
      BY <1>6, <2>1 DEF Sound, Departed
    <3>2. k # i => v.t[k] = w.t[k]
      BY <1>4, <1>5
    <3>. QED BY <1>5, <1>6, <1>7, <3>1, <3>2
  <2>2. \A k, j \in Ids :
          k < j /\ v.t[k].dialog_queued /\ v.t[j].dialog_queued /\ v.t[j].cseq # 0
             => ~InQueue(v, k) /\ v.t[k].cseq < v.t[j].cseq
    BY <1>6, <1>7 DEF Sound, Departed
  <2>. QED BY <2>1, <2>2 DEF Departed
<1>12. /\ Sound(v) /\ v.d = w.d /\ Free(v) = Free(w)
       /\ v.t[i].state = state /\ v.t[i].code = code
       /\ v.t[i].client = w.t[i].client /\ v.t[i].method = w.t[i].method
       /\ v.t[i].cseq = w.t[i].cseq /\ v.t[i].in_dialog = w.t[i].in_dialog
       /\ \A k \in Ids : k # i => v.t[k] = w.t[k]
  BY <1>3, <1>4, <1>5, <1>6, <1>8, <1>9, <1>10, <1>11 DEF Sound, Free
<1>. QED BY <1>12 DEF v

\* A request made in the dialog, with the next CSeq of this end
LEMMA RequestShape ==
    ASSUME NEW w, Sound(w), Free(w) # {}, NEW method \in Methods, NEW queued \in BOOLEAN,
           method = "INVITE" => w.d.state \notin {"NULL", "EARLY"},
           queued => w.d.queued_ct = <<>>
    PROVE  LET i == NextId(w)
               v == update_request(NewRequest(w, i, method, queued), i)
           IN /\ Sound(v) /\ i \in Ids
              /\ v.t[i].state = "INIT" /\ v.t[i].client /\ v.t[i].in_dialog
              /\ v.t[i].code = 0 /\ v.t[i].cseq # 0
<1>. DEFINE i == NextId(w)
            yes == TRUE
            c == w.d.local_cseq + 1
            made == [Nobody EXCEPT !.client = yes, !.method = method, !.state = "INIT",
                                   !.in_dialog = yes, !.dialog_queued = queued]
            new == [made EXCEPT !.cseq = c]
            u == NewRequest(w, i, method, queued)
            v == update_request(u, i)
            x == Joined(w, new, c)
<1>1. /\ w \in Worlds /\ w.d \in Dialogs /\ w.t \in [Ids -> Transactions]
      /\ w.d.local_cseq \in Nat /\ c \in Nat /\ c # 0 /\ w.d.local_cseq < c
      /\ w.d.local_cseq <= c /\ c <= c
  BY WorldTyped
<1>2. i \in Ids
  BY NextIdLeast DEF Free
<1>3. u = [w EXCEPT !.t[i] = made] /\ yes \in Flags /\ yes /\ queued \in Flags
  BY Members DEF NewRequest, Flags
<1>4. /\ made \in Transactions /\ made.state = "INIT" /\ made.client = yes
      /\ made.method = method
      /\ made.in_dialog = yes /\ made.code = 0 /\ made.dialog_queued = queued
  <2>. DEFINE no == FALSE
  <2>1. Nobody = [client |-> no, method |-> "INFO", state |-> "NONE", code |-> 0,
                  cseq |-> 0, in_dialog |-> no, dialog_queued |-> no] /\ no \in Flags
    BY Members DEF Nobody
  <2>. HIDE DEF yes, no
  <2>. QED BY <1>3, <2>1, Typing, Members
<1>. HIDE DEF yes, i, made, u
<1>5. u \in Worlds /\ u.d = w.d /\ u.t = [w.t EXCEPT ![i] = made] /\ u.t[i] = made
  BY <1>1, <1>2, <1>3, <1>4 DEF Worlds
<1>6. v = [u EXCEPT !.d.local_cseq = c, !.t[i].cseq = c]
  BY <1>5 DEF update_request
<1>. HIDE DEF c
<1>7. v = [d |-> [u.d EXCEPT !.local_cseq = c], t |-> [u.t EXCEPT ![i] = new]]
  BY <1>5, <1>6 DEF Worlds
<1>8. /\ new \in Transactions /\ new.state = "INIT" /\ new.client = yes
      /\ new.in_dialog = yes /\ new.code = 0 /\ new.cseq = c /\ new.method = method
      /\ new.dialog_queued = queued
  BY <1>1, <1>4, Typing DEF Numbers
<1>. HIDE DEF new, v
<1>9. v = x
  BY <1>1, <1>2, <1>5, <1>7 DEF Joined, i
<1>10. Sound(x) /\ x.t[i] = new
  <2>1. new.client /\ new.in_dialog /\ new.state # "NONE" /\ new.code < 200
    BY <1>3, <1>8
  <2>2. /\ Transient(new.state) => new.in_dialog /\ new.code < 200
        /\ ~new.client => new.cseq \in CSeqs
        /\ new.client /\ new.method = "INVITE" => w.d.state \notin {"NULL", "EARLY"}
        /\ new.dialog_queued => /\ new.client /\ new.cseq # 0
                                /\ w.d.local_cseq < new.cseq /\ new.cseq <= c
                                /\ w.d.queued_ct = <<>>
    BY <1>1, <1>8, <2>1
  <2>. QED BY <1>1, <1>8, <2>1, <2>2, NewShape DEF i
<1>. HIDE DEF x
<1>11. /\ Sound(v) /\ i \in Ids
       /\ v.t[i].state = "INIT" /\ v.t[i].client /\ v.t[i].in_dialog
       /\ v.t[i].code = 0 /\ v.t[i].cseq # 0
  BY <1>1, <1>2, <1>3, <1>8, <1>9, <1>10
<1>. QED BY <1>11 DEF v, u, i

\* Whether or not a channel is found, the dialog was told.
LEMMA LeavesShape ==
    ASSUME NEW w, Sound(w), NEW i \in Ids, w.t[i].state = "INIT", w.t[i].client,
           w.t[i].in_dialog, w.t[i].code = 0, w.t[i].cseq # 0, NEW found \in BOOLEAN
    PROVE  LET v == Leaves(w, i, found)
           IN Sound(v) /\ Attentive(v)
<1>. DEFINE no == FALSE
            told == dialog_update(w, i, no)
            gone == [told EXCEPT !.t[i].state = "TRYING"]
            v == Leaves(w, i, found)
<1>0. ~InQueue(w, i)
  BY DEF InQueue, Sound, Waiting
<1>1. v = IF found THEN gone ELSE terminate(told, i)
  BY DEF Leaves
<1>2. no \in BOOLEAN /\ ~no
  OBVIOUS
<1>. HIDE DEF no
<1>3. Heeds(told, w, i) /\ Woken(told)
  BY <1>0, <1>2, UpdateShape
<1>. HIDE DEF told
<1>4. /\ Sound(told) /\ told.t[i].in_dialog /\ told.t[i].code = 0 /\ told.t[i].cseq # 0
      /\ told.t[i].state # "NONE" /\ told.t[i] \in Transactions /\ told \in Worlds
      /\ told.t \in [Ids -> Transactions] /\ ~InQueue(told, i)
  <2>1. Sound(told) /\ Follows(told, w) /\ told.t[i].in_dialog = w.t[i].in_dialog
    BY <1>3 DEF Heeds
  <2>2. told.t[i].code = w.t[i].code /\ told.t[i].cseq = w.t[i].cseq /\ told.t[i].state # "NONE"
    BY <2>1 DEF Follows
  <2>. QED BY <1>0, <2>1, <2>2, WorldTyped, FollowsQueue
<1>5. CASE found
  <2>. DEFINE state == "TRYING"
              code == told.t[i].code
              m == Moved(told, i, state, code)
  <2>1. gone = m
    <3>1. [told.t[i] EXCEPT !.state = state, !.code = code] = [told.t[i] EXCEPT !.state = state]
      BY <1>4, Typing
    <3>. QED BY <1>4, <3>1 DEF Moved, Worlds
  <2>2. state \in TransactionStates /\ state # "NONE" /\ code \in Nat /\ code < 200
    BY <1>4, Members
  <2>. HIDE DEF state, code
  <2>3. Sound(m) /\ m.d = told.d
    BY <1>4, <2>2, MovedShape
  <2>. HIDE DEF m, gone
  <2>4. Sound(v) /\ Woken(v)
    BY <1>1, <1>3, <1>5, <2>1, <2>3 DEF Woken
  <2>. QED BY <2>4, WokenAttentive
<1>6. CASE ~found
  <2>. DEFINE u == terminate(told, i)
  <2>1. Heeds(u, told, i) /\ Woken(u)
    BY <1>3, <1>4, TerminateShape
  <2>. HIDE DEF u
  <2>2. v = u
    BY <1>1, <1>6 DEF u
  <2>. QED BY <2>1, <2>2, WokenAttentive DEF Heeds
<1>. QED BY <1>5, <1>6

LEMMA RequestLeaves ==
    ASSUME NEW w, Sound(w), Free(w) # {}, NEW method \in Methods, NEW queued \in BOOLEAN,
           method = "INVITE" => w.d.state \notin {"NULL", "EARLY"},
           queued => w.d.queued_ct = <<>>, NEW found \in BOOLEAN
    PROVE  LET i == NextId(w)
               v == Leaves(update_request(NewRequest(w, i, method, queued), i), i, found)
           IN Sound(v) /\ Attentive(v)
<1>. DEFINE i == NextId(w)
            u == update_request(NewRequest(w, i, method, queued), i)
            v == Leaves(u, i, found)
<1>1. /\ Sound(u) /\ i \in Ids
      /\ u.t[i].state = "INIT" /\ u.t[i].client /\ u.t[i].in_dialog
      /\ u.t[i].code = 0 /\ u.t[i].cseq # 0
  BY RequestShape
<1>. HIDE DEF u, i
<1>2. Sound(v) /\ Attentive(v)
  BY <1>1, LeavesShape
<1>. QED BY <1>2 DEF v, u, i

LEMMA SendByeShape ==
    ASSUME NEW w, Sound(w), Free(w) # {}, NEW found \in BOOLEAN
    PROVE  LET v == SendBye(w, found)
           IN Sound(v) /\ Attentive(v)
<1>. DEFINE no == FALSE
            bye == "BYE"
            i == NextId(w)
            v == Leaves(update_request(NewRequest(w, i, bye, no), i), i, found)
<1>1. SendBye(w, found) = v
  BY DEF SendBye
<1>2. bye \in Methods /\ bye # "INVITE" /\ no \in BOOLEAN /\ ~no
  BY Members
<1>. HIDE DEF no, bye
<1>3. Sound(v) /\ Attentive(v)
  BY <1>2, RequestLeaves
<1>. QED BY <1>1, <1>3

\* belle_sip_dialog_send_ack and belle_sip_dialog_check_ack_sent
LEMMA AcknowledgeShape ==
    ASSUME NEW w, Sound(w), Woken(w), Free(w) # {}, NEW i \in Ids, NEW listener,
           NEW found \in BOOLEAN
    PROVE  LET v == Acknowledge(w, i, listener, found)
           IN Sound(v) /\ Attentive(v)
<1>. DEFINE no == FALSE
            c == w.t[i].cseq
            a == Acked(w, no, c)
            v == Acknowledge(w, i, listener, found)
            v1 == process_queue(a)
            v2 == SendBye(w, found)
            v3 == dialog_delete(w)
            v4 == IF can_create_request(w) THEN v2 ELSE v3
            c1 == ~w.d.needs_ack
            c2 == w.d.needs_ack /\ listener = "ack"
            c3 == w.d.needs_ack /\ listener # "ack"
<1>1. v = CASE c1 -> w [] c2 -> v1 [] c3 -> v4
  BY DEF Acknowledge, Acked
<1>2. v = w \/ v = v1 \/ v = v2 \/ v = v3
  <2>1. (c1 \/ c2 \/ c3) /\ (v4 = v2 \/ v4 = v3)
    OBVIOUS
  <2>. HIDE DEF c1, c2, c3, v, v1, v2, v3, v4
  <2>. QED BY <1>1, <2>1
<1>3. Sound(v1) /\ Attentive(v1)
  <2>1. no \in Flags /\ c \in Numbers
    BY Members, WorldTyped DEF Numbers
  <2>. HIDE DEF no, c
  <2>2. Sound(a)
    BY <2>1, SetAcked
  <2>. HIDE DEF a
  <2>3. Follows(v1, a) /\ Woken(v1)
    BY <2>2, ProcessQueueShape
  <2>. QED BY <2>2, <2>3, FollowsSound, WokenAttentive
<1>4. Sound(v2) /\ Attentive(v2)
  BY SendByeShape
<1>5. Sound(v3) /\ Attentive(v3)
  <2>1. Heeds(v3, w, i) /\ Woken(v3)
    BY DeleteShape
  <2>. QED BY <2>1, WokenAttentive DEF Heeds
<1>6. Attentive(w)
  BY WokenAttentive
<1>. HIDE DEF v, v1, v2, v3
<1>7. Sound(v) /\ Attentive(v)
  BY <1>2, <1>3, <1>4, <1>5, <1>6
<1>. QED BY <1>7 DEF v

-----------------------------------------------------------------------------
(* The queue.                                                              *)

\* A request joins the queue: it is newer than all that wait there.
Enqueued(w, new) ==
    [d |-> [w.d EXCEPT !.queued_ct = Append(w.d.queued_ct, NextId(w))],
     t |-> [w.t EXCEPT ![NextId(w)] = new]]

LEMMA EnqueuedShape ==
    ASSUME NEW w, Sound(w), Attentive(w), Free(w) # {}, NEW new \in Transactions,
           new.state = "INIT", new.client, new.method = "INFO", new.in_dialog,
           new.code = 0, new.cseq = 0, new.dialog_queued,
           request_pending(w) \/ w.d.queued_ct # <<>>
    PROVE  LET v == Enqueued(w, new)
           IN Sound(v) /\ Attentive(v)
<1>. DEFINE i == NextId(w)
            q == w.d.queued_ct
            r == Append(q, i)
            e == [w.d EXCEPT !.queued_ct = r]
            f == [w.t EXCEPT ![i] = new]
            v == Enqueued(w, new)
<1>0. v = [d |-> e, t |-> f]
  BY DEF Enqueued
<1>1. i \in Ids /\ w.t[i].state = "NONE" /\ \A j \in Ids : w.t[j].state = "NONE" => i <= j
  BY NextIdLeast DEF Free
<1>2. /\ w \in Worlds /\ w.d \in Dialogs /\ w.t \in [Ids -> Transactions] /\ q \in Seq(Ids)
      /\ w.d.last_transaction \in Ids /\ w.t[w.d.last_transaction].state # "NONE"
  BY WorldTyped
<1>. HIDE DEF i
<1>3. r \in Queues
  BY <1>1, <1>2 DEF Queues
<1>4. /\ DOMAIN r = 1..(Len(q) + 1) /\ DOMAIN q = 1..Len(q) /\ r[Len(q) + 1] = i
      /\ \A k \in DOMAIN q : r[k] = q[k] /\ q[k] \in Ids
      /\ Len(q) \in Nat
  BY <1>1, <1>2
<1>. HIDE DEF r
<1>5. e \in Dialogs
  BY <1>2, <1>3, Typing
<1>6. /\ e.queued_ct = r /\ e.local_cseq = w.d.local_cseq /\ e.is_server = w.d.is_server
      /\ e.state = w.d.state /\ e.last_200Ok = w.d.last_200Ok
      /\ e.last_transaction = w.d.last_transaction /\ e.needs_ack = w.d.needs_ack
      /\ e.scheduled = w.d.scheduled
  BY <1>2, Typing
<1>. HIDE DEF e
<1>7. f \in [Ids -> Transactions] /\ \A k \in Ids : f[k] = IF k = i THEN new ELSE w.t[k]
  BY <1>1, <1>2
<1>. HIDE DEF f, v
<1>8. v \in Worlds /\ v.d = e /\ v.t = f
  BY <1>0, <1>5, <1>7 DEF Worlds
<1>9. \A k \in Ids : k # i /\ w.t[k].state # "NONE" => k < i
  <2>1. Ids \subseteq Nat
    BY Members
  <2>. QED BY <1>1, <2>1 DEF Sound, Allotted
<1>10. Numbered(v) /\ Live(v) /\ Allotted(v)
  <2>1. Ids \subseteq Nat /\ "INFO" # "INVITE"
    BY Members
  <2>2. Numbered(v)
    BY <1>6, <1>7, <1>8 DEF Sound, Numbered
  <2>3. Live(v)
    BY <1>7, <1>8 DEF Sound, Live, Transient
  <2>4. Allotted(v)
    <3>1. v.t[v.d.last_transaction].state # "NONE"
      BY <1>2, <1>6, <1>7, <1>8
    <3>. QED BY <1>1, <1>7, <1>8, <2>1, <3>1 DEF Sound, Allotted
  <2>. QED BY <2>2, <2>3, <2>4
<1>11. \A k \in DOMAIN q : /\ q[k] # i /\ q[k] < i /\ w.t[q[k]].dialog_queued
                           /\ w.t[q[k]].cseq = 0 /\ w.t[q[k]].state = "INIT"
                           /\ w.t[q[k]].code = 0 /\ w.t[q[k]].in_dialog
                           /\ q[k] # w.d.last_transaction
  BY <1>1, <1>4, <1>9 DEF Sound, Waiting
<1>12. Waiting(v)
  <2>1. ASSUME NEW k \in DOMAIN r
        PROVE  /\ v.t[r[k]].dialog_queued /\ v.t[r[k]].cseq = 0
               /\ v.t[r[k]].state = "INIT" /\ v.t[r[k]].code = 0
               /\ v.t[r[k]].in_dialog /\ r[k] # v.d.last_transaction
    <3>1. CASE k \in DOMAIN q
      <4>1. r[k] = q[k] /\ v.t[r[k]] = w.t[q[k]]
        BY <1>4, <1>7, <1>8, <1>11, <3>1
      <4>. QED BY <1>6, <1>8, <1>11, <3>1, <4>1
    <3>2. CASE k = Len(q) + 1
      <4>1. r[k] = i /\ v.t[r[k]] = new /\ i # v.d.last_transaction
        BY <1>1, <1>2, <1>4, <1>6, <1>7, <1>8, <3>2
      <4>. QED BY <4>1
    <3>. QED BY <1>4, <3>1, <3>2
  <2>2. ASSUME NEW k \in DOMAIN r, NEW l \in DOMAIN r, k < l
        PROVE  r[k] < r[l]
    <3>1. CASE l \in DOMAIN q
      BY <1>4, <2>2, <3>1 DEF Sound, Waiting
    <3>2. CASE l = Len(q) + 1
      BY <1>4, <1>11, <2>2, <3>2
    <3>. QED BY <1>4, <3>1, <3>2
  <2>. QED BY <1>6, <1>8, <2>1, <2>2 DEF Waiting
<1>13. \A k : InQueue(v, k) <=> InQueue(w, k) \/ k = i
  BY <1>4, <1>6, <1>8 DEF InQueue
<1>14. Departed(v)
  <2>1. ASSUME NEW k \in Ids, v.t[k].dialog_queued
        PROVE  /\ v.t[k].client /\ v.t[k].state # "NONE" /\ v.t[k].cseq <= v.d.local_cseq
               /\ v.t[k].cseq = 0 => InQueue(v, k) \/ v.t[k].state = "TERMINATED"
    <3>1. CASE k = i
      <4>1. w.d.local_cseq \in Nat
        BY WorldTyped
      <4>. QED BY <1>6, <1>7, <1>8, <1>13, <3>1, <4>1
    <3>2. CASE k # i
      <4>1. v.t[k] = w.t[k]
        BY <1>7, <1>8, <3>2
      <4>. QED BY <1>6, <1>8, <1>13, <2>1, <4>1 DEF Sound, Departed
    <3>. QED BY <3>1, <3>2
  <2>2. ASSUME NEW k \in Ids, NEW j \in Ids, k < j, v.t[k].dialog_queued, v.t[j].dialog_queued,
               v.t[j].cseq # 0
        PROVE  ~InQueue(v, k) /\ v.t[k].cseq < v.t[j].cseq
    <3>1. j # i /\ v.t[j] = w.t[j]
      BY <1>7, <1>8, <2>2
    <3>2. w.t[j].state # "NONE"
      BY <2>2, <3>1 DEF Sound, Departed
    <3>3. k # i
      <4>1. j < i /\ i \in Nat /\ j \in Nat
        BY <1>1, <1>9, <3>1, <3>2, Members
      <4>. QED BY <2>2, <4>1
    <3>4. v.t[k] = w.t[k]
      BY <1>7, <1>8, <3>3
    <3>. QED BY <1>13, <2>2, <3>1, <3>3, <3>4 DEF Sound, Departed
  <2>. QED BY <2>1, <2>2 DEF Departed
<1>15. Attentive(v)
  <2>1. request_pending(v) = request_pending(w)
    <3>1. v.t[v.d.last_transaction] = w.t[w.d.last_transaction]
      BY <1>1, <1>2, <1>6, <1>7, <1>8
    <3>. QED BY <1>6, <1>8, <3>1 DEF request_pending
  <2>. QED BY <1>6, <1>8, <2>1 DEF Attentive
<1>16. Sound(v) /\ Attentive(v)
  BY <1>8, <1>10, <1>12, <1>14, <1>15 DEF Sound
<1>. QED BY <1>16 DEF v

\* The first of the queue gets the next CSeq of this end, larger than that
\* of every request that left before.
Popped(w, scheduled) ==
    LET c == w.d.local_cseq + 1
        i == Head(w.d.queued_ct)
    IN [d |-> [w.d EXCEPT !.queued_ct = Tail(w.d.queued_ct), !.scheduled = scheduled,
                          !.local_cseq = c],
        t |-> [w.t EXCEPT ![i] = [w.t[i] EXCEPT !.cseq = c]]]

LEMMA PoppedShape ==
    ASSUME NEW w, Sound(w), w.d.queued_ct # <<>>, NEW scheduled \in Flags
    PROVE  LET v == Popped(w, scheduled)
               i == Head(w.d.queued_ct)
           IN /\ Sound(v) /\ i \in Ids
              /\ v.t[i].state = "INIT" /\ v.t[i].client /\ v.t[i].in_dialog
              /\ v.t[i].code = 0 /\ v.t[i].cseq # 0
<1>. DEFINE q == w.d.queued_ct
            i == Head(q)
            r == Tail(q)
            c == w.d.local_cseq + 1
            g == [w.t[i] EXCEPT !.cseq = c]
            e == [w.d EXCEPT !.queued_ct = r, !.scheduled = scheduled, !.local_cseq = c]
            f == [w.t EXCEPT ![i] = g]
            v == Popped(w, scheduled)
<1>0. v = [d |-> e, t |-> f]
  BY DEF Popped
<1>1. /\ w \in Worlds /\ w.d \in Dialogs /\ w.t \in [Ids -> Transactions] /\ q \in Seq(Ids)
      /\ w.d.last_transaction \in Ids /\ w.t[w.d.last_transaction].state # "NONE"
      /\ w.d.local_cseq \in Nat /\ c \in Numbers /\ c # 0 /\ w.d.local_cseq < c
  BY WorldTyped DEF Numbers
<1>2. /\ r \in Queues /\ i = q[1] /\ 1 \in DOMAIN q /\ i \in Ids
      /\ Len(q) \in Nat /\ DOMAIN q = 1..Len(q) /\ DOMAIN r = 1..(Len(q) - 1)
      /\ \A k \in DOMAIN r : k + 1 \in DOMAIN q /\ r[k] = q[k + 1]
      /\ \A k \in DOMAIN q : q[k] \in Ids
  BY <1>1 DEF Queues
<1>. HIDE DEF c, r, i
<1>3. /\ w.t[i].dialog_queued /\ w.t[i].cseq = 0 /\ w.t[i].state = "INIT"
      /\ w.t[i].code = 0 /\ w.t[i].in_dialog /\ i # w.d.last_transaction
  BY <1>2 DEF Sound, Waiting
<1>4. w.t[i].client /\ w.t[i] \in Transactions
  BY <1>1, <1>2, <1>3 DEF Sound, Departed
<1>5. e \in Dialogs
  BY <1>1, <1>2, Typing
<1>6. /\ e.queued_ct = r /\ e.local_cseq = c /\ e.is_server = w.d.is_server
      /\ e.state = w.d.state /\ e.last_200Ok = w.d.last_200Ok
      /\ e.last_transaction = w.d.last_transaction
  BY <1>1, Typing
<1>7. /\ g \in Transactions /\ g.client = w.t[i].client /\ g.method = w.t[i].method
      /\ g.code = w.t[i].code /\ g.state = w.t[i].state /\ g.cseq = c
      /\ g.dialog_queued = w.t[i].dialog_queued /\ g.in_dialog = w.t[i].in_dialog
  BY <1>1, <1>4, Typing
<1>. HIDE DEF e, g
<1>8. f \in [Ids -> Transactions] /\ \A k \in Ids : f[k] = IF k = i THEN g ELSE w.t[k]
  BY <1>1, <1>2, <1>7
<1>. HIDE DEF f, v
<1>9. v \in Worlds /\ v.d = e /\ v.t = f
  BY <1>0, <1>5, <1>8 DEF Worlds
<1>10. \A k \in Ids :
          /\ v.t[k].client = w.t[k].client /\ v.t[k].method = w.t[k].method
          /\ v.t[k].code = w.t[k].code /\ v.t[k].state = w.t[k].state
          /\ v.t[k].dialog_queued = w.t[k].dialog_queued
          /\ v.t[k].in_dialog = w.t[k].in_dialog
          /\ v.t[k].cseq = IF k = i THEN c ELSE w.t[k].cseq
  BY <1>7, <1>8, <1>9
<1>11. Numbered(v) /\ Live(v) /\ Allotted(v)
  <2>1. Numbered(v)
    BY <1>4, <1>6, <1>9, <1>10 DEF Sound, Numbered
  <2>2. Live(v)
    BY <1>10 DEF Sound, Live
  <2>3. Allotted(v)
    BY <1>1, <1>6, <1>9, <1>10 DEF Sound, Allotted
  <2>. QED BY <2>1, <2>2, <2>3
<1>12. \A k \in DOMAIN r : r[k] \in Ids /\ i < r[k] /\ r[k] # i
  <2>1. ASSUME NEW k \in DOMAIN r
        PROVE  i < r[k] /\ r[k] \in Ids
    <3>1. k \in Nat /\ 1 < k + 1 /\ k + 1 \in DOMAIN q
      BY <1>2
    <3>. QED BY <1>2, <3>1 DEF Sound, Waiting
  <2>2. Ids \subseteq Nat
    BY Members
  <2>. QED BY <1>2, <2>1, <2>2
<1>13. Waiting(v)
  <2>1. ASSUME NEW k \in DOMAIN r
        PROVE  /\ v.t[r[k]].dialog_queued /\ v.t[r[k]].cseq = 0
               /\ v.t[r[k]].state = "INIT" /\ v.t[r[k]].code = 0
               /\ v.t[r[k]].in_dialog /\ r[k] # v.d.last_transaction
    <3>1. v.t[r[k]] = w.t[q[k + 1]] /\ r[k] = q[k + 1] /\ k + 1 \in DOMAIN q
      BY <1>2, <1>8, <1>9, <1>12
    <3>. QED BY <1>6, <1>9, <3>1 DEF Sound, Waiting
  <2>2. ASSUME NEW k \in DOMAIN r, NEW l \in DOMAIN r, k < l
        PROVE  r[k] < r[l]
    <3>1. k + 1 \in DOMAIN q /\ l + 1 \in DOMAIN q /\ k + 1 < l + 1
      BY <1>2, <2>2
    <3>. QED BY <1>2, <3>1 DEF Sound, Waiting
  <2>. QED BY <1>6, <1>9, <2>1, <2>2 DEF Waiting
<1>14. \A k : (InQueue(w, k) <=> InQueue(v, k) \/ k = i) /\ ~InQueue(v, i)
  <2>1. ASSUME NEW k PROVE InQueue(v, k) => InQueue(w, k)
    BY <1>2, <1>6, <1>9 DEF InQueue
  <2>2. ASSUME NEW k, InQueue(w, k) PROVE InQueue(v, k) \/ k = i
    <3>1. PICK l \in DOMAIN q : q[l] = k
      BY <2>2 DEF InQueue
    <3>2. CASE l = 1
      BY <1>2, <3>1, <3>2
    <3>3. CASE l # 1
      <4>1. l - 1 \in DOMAIN r /\ (l - 1) + 1 = l
        BY <1>2, <3>3
      <4>2. r[l - 1] = k
        BY <1>2, <3>1, <4>1
      <4>. QED BY <1>6, <1>9, <4>1, <4>2 DEF InQueue
    <3>. QED BY <3>2, <3>3
  <2>3. InQueue(w, i) /\ ~InQueue(v, i)
    BY <1>2, <1>6, <1>9, <1>12 DEF InQueue
  <2>. QED BY <2>1, <2>2, <2>3
<1>15. Departed(v)
  <2>1. ASSUME NEW k \in Ids, v.t[k].dialog_queued
        PROVE  /\ v.t[k].client /\ v.t[k].state # "NONE" /\ v.t[k].cseq <= v.d.local_cseq
               /\ v.t[k].cseq = 0 => InQueue(v, k) \/ v.t[k].state = "TERMINATED"
    <3>1. /\ w.t[k].client /\ w.t[k].state # "NONE" /\ w.t[k].cseq <= w.d.local_cseq
          /\ w.t[k].cseq = 0 => InQueue(w, k) \/ w.t[k].state = "TERMINATED"
          /\ w.t[k].cseq \in Nat
      BY <1>10, <2>1, WorldTyped DEF Sound, Departed
    <3>. QED BY <1>1, <1>6, <1>9, <1>10, <1>14, <3>1 DEF Numbers
  <2>2. ASSUME NEW k \in Ids, NEW j \in Ids, k < j, v.t[k].dialog_queued, v.t[j].dialog_queued,
               v.t[j].cseq # 0
        PROVE  ~InQueue(v, k) /\ v.t[k].cseq < v.t[j].cseq
    <3>1. w.t[k].dialog_queued /\ w.t[j].dialog_queued /\ k \in Nat /\ j \in Nat
      BY <1>10, <2>2, Members
    <3>2. CASE j = i
      <4>1. ~InQueue(v, k)
        BY <1>6, <1>9, <1>12, <2>2, <3>1, <3>2 DEF InQueue
      <4>2. w.t[k].cseq \in Nat /\ w.t[k].cseq <= w.d.local_cseq
        BY <3>1, WorldTyped DEF Sound, Departed
      <4>. QED BY <1>1, <1>10, <2>2, <3>1, <3>2, <4>1, <4>2 DEF Numbers
    <3>3. CASE j # i
      <4>1. ~InQueue(w, k) /\ w.t[k].cseq < w.t[j].cseq
        BY <1>10, <2>2, <3>1, <3>3 DEF Sound, Departed
      <4>. QED BY <1>10, <1>14, <3>3, <4>1
    <3>. QED BY <3>2, <3>3
  <2>. QED BY <2>1, <2>2 DEF Departed
<1>16. /\ Sound(v) /\ i \in Ids
       /\ v.t[i].state = "INIT" /\ v.t[i].client /\ v.t[i].in_dialog
       /\ v.t[i].code = 0 /\ v.t[i].cseq # 0
  BY <1>1, <1>2, <1>3, <1>4, <1>9, <1>10, <1>11, <1>13, <1>15 DEF Sound
<1>. QED BY <1>16 DEF v, i

-----------------------------------------------------------------------------
(* The actions.                                                            *)

LEMMA Becoming ==
    ASSUME NEW v, Sound(v), Attentive(v), Becomes(v)
    PROVE  Sound(World)' /\ Attentive(World)'
<1>1. d' = v.d /\ t' = v.t
  BY DEF Becomes
<1>2. World' = v
  BY <1>1, WorldTyped DEF World, Worlds
<1>. QED BY <1>2

LEMMA Standing ==
    ASSUME UNCHANGED <<d, t>>
    PROVE  World' = World
BY DEF World

LEMMA Fields == World.d = d /\ World.t = t
BY DEF World

LEMMA SendQueuedStep ==
    ASSUME IInv, SendQueued
    PROVE  Sound(World)' /\ Attentive(World)'
<1>. DEFINE w == World
            i == NextId(w)
            yes == TRUE
            info == "INFO"
            made == NewRequest(w, i, info, yes)
            new == [Nobody EXCEPT !.client = yes, !.method = info, !.state = "INIT",
                                  !.in_dialog = yes, !.dialog_queued = yes]
            x == [made EXCEPT !.d.queued_ct = Append(@, i)]
<1>1. Sound(w) /\ Attentive(w) /\ w.d = d /\ w.t = t
  BY Fields DEF IInv
<1>2. Free(w) # {}
  BY <1>1, Members DEF SendQueued, MayRequest, Free
<1>3. \/ /\ request_pending(w) \/ w.d.queued_ct # <<>>
         /\ Becomes(x)
      \/ /\ w.d.queued_ct = <<>>
         /\ \E found \in BOOLEAN : Becomes(Leaves(update_request(made, i), i, found))
  BY <1>1, Zenon DEF SendQueued
<1>4. yes \in BOOLEAN /\ yes \in Flags /\ yes /\ info \in Methods /\ info # "INVITE" /\ info = "INFO"
  BY Members
<1>5. CASE /\ request_pending(w) \/ w.d.queued_ct # <<>>
           /\ Becomes(x)
  <2>. DEFINE v == Enqueued(w, new)
  <2>1. /\ new \in Transactions /\ new.state = "INIT" /\ new.client = yes /\ new.method = info
        /\ new.in_dialog = yes /\ new.code = 0 /\ new.cseq = 0 /\ new.dialog_queued = yes
    <3>. DEFINE no == FALSE
    <3>1. Nobody = [client |-> no, method |-> "INFO", state |-> "NONE", code |-> 0,
                    cseq |-> 0, in_dialog |-> no, dialog_queued |-> no] /\ no \in Flags
      BY Members DEF Nobody
    <3>. HIDE DEF yes, no, info
    <3>. QED BY <1>4, <3>1, Typing, Members
  <2>2. made = [w EXCEPT !.t[i] = new]
    BY DEF NewRequest
  <2>. HIDE DEF new, made, i, w
  <2>3. x = v
    <3>1. w \in Worlds /\ w.d \in Dialogs
      BY <1>1, WorldTyped
    <3>2. made = [d |-> w.d, t |-> [w.t EXCEPT ![i] = new]]
      BY <2>2, <3>1 DEF Worlds
    <3>. DEFINE D == w.d
                T == [w.t EXCEPT ![i] = new]
                r == Append(D.queued_ct, i)
    <3>3. made = [d |-> D, t |-> T] /\ made.d = D
      BY <3>2
    <3>4. x = [made EXCEPT !.d.queued_ct = r]
      BY <3>3
    <3>5. v = [d |-> [D EXCEPT !.queued_ct = r], t |-> T]
      BY DEF Enqueued, i
    <3>. HIDE DEF D, T, r, x, v
    <3>. QED BY <3>3, <3>4, <3>5
  <2>. HIDE DEF x
  <2>4. new.client /\ new.in_dialog /\ new.dialog_queued /\ new.method = "INFO"
    BY <1>4, <2>1
  <2>. HIDE DEF yes, info
  <2>5. Sound(v) /\ Attentive(v)
    BY <1>1, <1>2, <1>5, <2>1, <2>4, EnqueuedShape
  <2>. HIDE DEF v
  <2>. QED BY <1>5, <2>3, <2>5, Becoming
<1>6. CASE /\ w.d.queued_ct = <<>>
           /\ \E found \in BOOLEAN : Becomes(Leaves(update_request(made, i), i, found))
  <2>1. PICK found \in BOOLEAN : Becomes(Leaves(update_request(made, i), i, found))
    BY <1>6
  <2>. DEFINE v == Leaves(update_request(made, i), i, found)
  <2>. HIDE DEF yes, info, w
  <2>2. Sound(v) /\ Attentive(v)
    BY <1>1, <1>2, <1>4, <1>6, RequestLeaves
  <2>. HIDE DEF v
  <2>. QED BY <2>1, <2>2, Becoming DEF v
<1>. QED BY <1>3, <1>5, <1>6

LEMMA SendNowStep ==
    ASSUME IInv, NEW method \in {"INVITE", "BYE"}, SendNow(method)
    PROVE  Sound(World)' /\ Attentive(World)'
<1>. DEFINE w == World
            i == NextId(w)
            no == FALSE
<1>1. Sound(w) /\ w.d = d /\ w.t = t
  BY Fields DEF IInv
<1>2. Free(w) # {}
  BY <1>1, Members DEF SendNow, MayRequest, Free
<1>3. PICK found \in BOOLEAN :
         Becomes(Leaves(update_request(NewRequest(w, i, method, no), i), i, found))
  BY Zenon DEF SendNow
<1>4. no \in BOOLEAN /\ ~no /\ method \in Methods
      /\ (method = "INVITE" => w.d.state \notin {"NULL", "EARLY"})
  BY <1>1, Members DEF SendNow
<1>. DEFINE v == Leaves(update_request(NewRequest(w, i, method, no), i), i, found)
<1>. HIDE DEF w, no
<1>5. Sound(v) /\ Attentive(v)
  BY <1>1, <1>2, <1>4, RequestLeaves
<1>. HIDE DEF v
<1>. QED BY <1>3, <1>5, Becoming DEF v

LEMMA ProcessQueueStep ==
    ASSUME IInv, ProcessQueue
    PROVE  Sound(World)' /\ Attentive(World)'
<1>. DEFINE w == World
            no == FALSE
            u == [w EXCEPT !.d.scheduled = no]
            i == Head(d.queued_ct)
            popped == [u EXCEPT !.d.queued_ct = Tail(@)]
            idle == d.state = "TERMINATED" \/ request_pending(u) \/ d.queued_ct = <<>>
<1>1. Sound(w) /\ w.d = d /\ w.t = t /\ w \in Worlds /\ w.d \in Dialogs
  BY Fields, WorldTyped DEF IInv
<1>2. \/ idle /\ Becomes(u)
      \/ /\ ~idle
         /\ \E found \in BOOLEAN : Becomes(Leaves(update_request(popped, i), i, found))
  <2>1. ASSUME d.queued_ct # <<>> PROVE t[i].state = "INIT"
    <3>1. d.queued_ct \in Seq(Ids)
      BY <1>1, Typing DEF Queues
    <3>2. 1 \in DOMAIN d.queued_ct /\ i = d.queued_ct[1]
      BY <2>1, <3>1
    <3>. QED BY <1>1, <3>2 DEF Sound, Waiting
  <2>. QED BY <2>1, Zenon DEF ProcessQueue
<1>3. no \in Flags
  BY Members
<1>. HIDE DEF no, w
<1>4. /\ Sound(u) /\ u.t = w.t /\ u.d.state = w.d.state /\ u.d.queued_ct = w.d.queued_ct
  BY <1>1, <1>3, SetScheduled
<1>5. CASE idle /\ Becomes(u)
  <2>1. Attentive(u)
    BY <1>1, <1>4, <1>5 DEF Attentive
  <2>. HIDE DEF u
  <2>. QED BY <1>4, <1>5, <2>1, Becoming
<1>6. CASE ~idle /\ \E found \in BOOLEAN : Becomes(Leaves(update_request(popped, i), i, found))
  <2>1. PICK found \in BOOLEAN : Becomes(Leaves(update_request(popped, i), i, found))
    BY <1>6
  <2>. DEFINE x == update_request(popped, i)
              p == Popped(w, no)
              v == Leaves(x, i, found)
  <2>2. w.d.queued_ct # <<>> /\ i = Head(w.d.queued_ct)
    BY <1>1, <1>6
  <2>3. /\ Sound(p) /\ i \in Ids
        /\ p.t[i].state = "INIT" /\ p.t[i].client /\ p.t[i].in_dialog
        /\ p.t[i].code = 0 /\ p.t[i].cseq # 0
    BY <1>1, <1>3, <2>2, PoppedShape
  <2>4. x = p
    <3>. DEFINE D == w.d
                T == w.t
                r == Tail(D.queued_ct)
                e == [D EXCEPT !.scheduled = no, !.queued_ct = r]
                c == D.local_cseq + 1
    <3>1. w = [d |-> D, t |-> T] /\ D \in Dialogs /\ T \in [Ids -> Transactions]
      BY <1>1, WorldTyped DEF Worlds
    <3>2. u = [w EXCEPT !.d.scheduled = no] /\ u.d.queued_ct = D.queued_ct
      BY <1>4
    <3>3. popped = [u EXCEPT !.d.queued_ct = r]
      BY <3>2
    <3>4. p = [d |-> [D EXCEPT !.queued_ct = r, !.scheduled = no, !.local_cseq = c],
               t |-> [T EXCEPT ![i] = [T[i] EXCEPT !.cseq = c]]]
      BY <2>2 DEF Popped
    <3>5. x = [popped EXCEPT !.d.local_cseq = @ + 1, !.t[i].cseq = popped.d.local_cseq + 1]
      BY DEF update_request
    <3>. HIDE DEF D, T, r, x, p, u, popped, i
    <3>6. popped = [d |-> e, t |-> T]
      BY <3>1, <3>2, <3>3
    <3>7. e.local_cseq = D.local_cseq /\ e = [D EXCEPT !.queued_ct = r, !.scheduled = no]
      BY <3>1, Typing
    <3>8. x = [popped EXCEPT !.d.local_cseq = c, !.t[i].cseq = c]
      BY <3>5, <3>6, <3>7
    <3>. HIDE DEF c, e
    <3>9. x = [d |-> [e EXCEPT !.local_cseq = c], t |-> [T EXCEPT ![i] = [T[i] EXCEPT !.cseq = c]]]
      BY <2>3, <3>1, <3>6, <3>8
    <3>. QED BY <3>4, <3>7, <3>9
  <2>. HIDE DEF x, p, i
  <2>5. Sound(v) /\ Attentive(v)
    BY <2>3, <2>4, LeavesShape
  <2>. HIDE DEF v
  <2>. QED BY <2>1, <2>5, Becoming DEF v, x
<1>. QED BY <1>2, <1>5, <1>6

\* The assignments that Moved stands for
Heard(w, i, state, code) ==
    [w EXCEPT !.t[i].code = code, !.t[i].state = state]

LEMMA HeardMoved ==
    ASSUME NEW w, Sound(w), NEW i \in Ids, NEW state, NEW code
    PROVE  Heard(w, i, state, code) = Moved(w, i, state, code)
<1>. DEFINE D == w.d
            T == w.t
            a == [T[i] EXCEPT !.code = code]
            b == [a EXCEPT !.state = state]
<1>1. w = [d |-> D, t |-> T] /\ T \in [Ids -> Transactions] /\ T[i] \in Transactions
  BY WorldTyped DEF Worlds
<1>2. b = [T[i] EXCEPT !.state = state, !.code = code]
  BY <1>1, Typing
<1>3. Moved(w, i, state, code) = [d |-> D, t |-> [T EXCEPT ![i] = b]]
  BY <1>2 DEF Moved
<1>. DEFINE A == [T EXCEPT ![i] = a]
            x == [d |-> D, t |-> A]
<1>. HIDE DEF D, T
<1>a. A[i] = a /\ A \in [Ids -> {T[k] : k \in Ids} \cup {a}] /\ [A EXCEPT ![i] = b] = [T EXCEPT ![i] = b]
  <2>. HIDE DEF a, b
  <2>. QED BY <1>1
<1>b. [w EXCEPT !.t[i].code = code] = x
  BY <1>1
<1>c. Heard(w, i, state, code) = [[w EXCEPT !.t[i].code = code] EXCEPT !.t[i].state = state]
  BY <1>1 DEF Heard
<1>. HIDE DEF A, a
<1>d. [x EXCEPT !.t[i].state = state] = [d |-> D, t |-> [A EXCEPT ![i] = b]]
  BY <1>1, <1>a
<1>4. Heard(w, i, state, code) = [d |-> D, t |-> [T EXCEPT ![i] = b]]
  BY <1>a, <1>b, <1>c, <1>d
<1>. QED BY <1>3, <1>4

\* A transaction under way or answered does not wait in the queue.
LEMMA NotQueued ==
    ASSUME NEW w, Sound(w), NEW i, w.t[i].state # "INIT" \/ w.t[i].cseq # 0
    PROVE  ~InQueue(w, i)
BY DEF InQueue, Sound, Waiting

LEMMA ReceiveResponseStep ==
    ASSUME IInv, NEW i \in Ids, NEW code \in Codes, ReceiveResponse(i, code)
    PROVE  Sound(World)' /\ Attentive(World)'
<1>. DEFINE w == World
            state == IF code < 200 THEN "PROCEEDING" ELSE "DONE"
            heard == Heard(w, i, state, code)
            no == FALSE
            updated == dialog_update(heard, i, no)
<1>1. Sound(w) /\ w.d = d /\ w.t = t /\ Free(w) # {}
  BY Fields DEF IInv, ReceiveResponse
<1>2. \/ Becomes(updated)
      \/ \E listener \in {"ack", "none"}, found \in BOOLEAN :
            Becomes(Acknowledge(updated, i, listener, found))
  BY Zenon DEF ReceiveResponse, Heard
<1>3. /\ w.t[i].state \in {"TRYING", "PROCEEDING", "DONE"}
      /\ w.t[i].state = "DONE" => code \in 200..299
      /\ code \in Nat /\ code \in 100..699
  BY <1>1, CodesAssumption DEF ReceiveResponse
<1>4. /\ state \in TransactionStates /\ state # "NONE"
      /\ Transient(state) => w.t[i].in_dialog /\ code < 200
      /\ ~InQueue(w, i)
  <2>1. ~InQueue(w, i)
    BY <1>1, <1>3, NotQueued
  <2>2. Transient(state) => w.t[i].in_dialog /\ code < 200
    BY <1>1, <1>3 DEF Sound, Live, Transient
  <2>. QED BY <2>1, <2>2, Members
<1>5. no \in BOOLEAN /\ ~no
  OBVIOUS
<1>. HIDE DEF no, w, state
<1>6. /\ Sound(heard) /\ Free(heard) = Free(w) /\ heard.t[i].state = state /\ heard.d = w.d
  BY <1>1, <1>3, <1>4, HeardMoved, MovedShape
<1>7. ~InQueue(heard, i)
  BY <1>4, <1>6 DEF InQueue
<1>. HIDE DEF heard
<1>8. Heeds(updated, heard, i) /\ Woken(updated)
  BY <1>4, <1>5, <1>6, <1>7, UpdateShape
<1>. HIDE DEF updated
<1>9. Sound(updated) /\ Free(updated) # {}
  <2>1. Sound(updated) /\ Follows(updated, heard)
    BY <1>8 DEF Heeds
  <2>2. Free(heard) \subseteq Free(updated)
    BY <2>1 DEF Follows, Free
  <2>. QED BY <1>1, <1>6, <2>1, <2>2
<1>10. CASE Becomes(updated)
  BY <1>8, <1>9, <1>10, WokenAttentive, Becoming
<1>11. CASE \E listener \in {"ack", "none"}, found \in BOOLEAN :
               Becomes(Acknowledge(updated, i, listener, found))
  <2>1. PICK listener \in {"ack", "none"}, found \in BOOLEAN :
               Becomes(Acknowledge(updated, i, listener, found))
    BY <1>11
  <2>. DEFINE v == Acknowledge(updated, i, listener, found)
  <2>2. Sound(v) /\ Attentive(v)
    BY <1>8, <1>9, AcknowledgeShape
  <2>. HIDE DEF v
  <2>. QED BY <2>1, <2>2, Becoming DEF v
<1>. QED BY <1>2, <1>10, <1>11

LEMMA TransactionEndsStep ==
    ASSUME IInv, NEW i \in Ids, TransactionEnds(i)
    PROVE  Sound(World)' /\ Attentive(World)'
<1>. DEFINE w == World
            v == terminate(w, i)
<1>1. Sound(w) /\ Attentive(w) /\ w.d = d /\ w.t = t /\ Becomes(v)
  BY Fields DEF IInv, TransactionEnds
<1>2. ~InQueue(w, i) /\ w.t[i].state # "NONE"
  BY <1>1, NotQueued DEF TransactionEnds, Transient
<1>. HIDE DEF w
<1>3. Heeds(v, w, i) /\ Attentive(v)
  BY <1>1, <1>2, TerminateShape
<1>. HIDE DEF v
<1>. QED BY <1>1, <1>3, Becoming DEF Heeds

LEMMA SendResponseStep ==
    ASSUME IInv, NEW i \in Ids, NEW code \in Codes, SendResponse(i, code)
    PROVE  Sound(World)' /\ Attentive(World)' /\ (oks \subseteq CSeqs)'
<1>. DEFINE w == World
            state == IF code < 200 THEN w.t[i].state ELSE "DONE"
            heard == Heard(w, i, state, code)
            yes == TRUE
            v == dialog_update(heard, i, yes)
<1>1. Sound(w) /\ w.d = d /\ w.t = t
  BY Fields DEF IInv
<1>2. Becomes(v)
  BY <1>1 DEF SendResponse, Heard
<1>3. /\ w.t[i].state \in {"TRYING", "PROCEEDING"} /\ ~w.t[i].client
      /\ code \in Nat /\ code \in 100..699
  BY <1>1, CodesAssumption DEF SendResponse
<1>4. /\ state \in TransactionStates /\ state # "NONE"
      /\ Transient(state) => w.t[i].in_dialog /\ code < 200
      /\ ~InQueue(w, i)
  <2>1. ~InQueue(w, i)
    BY <1>1, <1>3, NotQueued
  <2>2. Transient(state) => w.t[i].in_dialog /\ code < 200
    BY <1>1, <1>3 DEF Sound, Live, Transient
  <2>. QED BY <1>3, <2>1, <2>2, Members
<1>5. yes \in BOOLEAN
  OBVIOUS
<1>6. oks' \subseteq CSeqs
  <2>1. t[i].cseq \in CSeqs
    BY <1>1, <1>3 DEF Sound, Numbered
  <2>. QED BY <2>1 DEF SendResponse, IInv
<1>. HIDE DEF yes, w, state
<1>7. /\ Sound(heard) /\ heard.t[i].state = state /\ heard.d = w.d /\ ~heard.t[i].client
  BY <1>1, <1>3, <1>4, HeardMoved, MovedShape
<1>8. ~InQueue(heard, i)
  BY <1>4, <1>7 DEF InQueue
<1>. HIDE DEF heard
<1>9. Heeds(v, heard, i) /\ Woken(v)
  BY <1>4, <1>5, <1>7, <1>8, UpdateShape
<1>. HIDE DEF v
<1>. QED BY <1>2, <1>6, <1>9, WokenAttentive, Becoming DEF Heeds

LEMMA ServerShape ==
    ASSUME NEW w, Sound(w), Attentive(w), Free(w) # {}, NEW method \in Methods, NEW cseq \in CSeqs
    PROVE  LET i == NextId(w)
               v == NewServerTransaction(w, i, method, cseq)
           IN /\ Sound(v) /\ Attentive(v) /\ i \in Ids
              /\ v.t[i].state # "NONE" /\ ~v.t[i].client /\ v.t[i].cseq # 0
<1>. DEFINE i == NextId(w)
            yes == TRUE
            no == FALSE
            state == IF method = "INVITE" THEN "PROCEEDING" ELSE "TRYING"
            code == IF method = "INVITE" THEN 100 ELSE 0
            new == [Nobody EXCEPT !.method = method, !.cseq = cseq, !.in_dialog = yes,
                                  !.state = state, !.code = code]
            made == [w EXCEPT !.t[i] = new]
            c == w.d.local_cseq
            x == Joined(w, new, c)
            told == dialog_update(made, i, yes)
            v == NewServerTransaction(w, i, method, cseq)
<1>1. v = IF method = "INVITE" THEN told ELSE made
  BY DEF NewServerTransaction
<1>2. /\ w \in Worlds /\ w.d \in Dialogs /\ w.t \in [Ids -> Transactions] /\ c \in Nat
      /\ w.d.last_transaction \in Ids /\ w.t[w.d.last_transaction].state # "NONE"
      /\ cseq \in Numbers /\ cseq # 0 /\ c <= c
  BY WorldTyped, Members DEF CSeqs
<1>3. /\ yes \in Flags /\ yes /\ state \in TransactionStates /\ state # "NONE"
      /\ code \in Numbers /\ code < 200 /\ no \in Flags /\ ~no /\ yes \in BOOLEAN
  <2>1. yes \in Flags /\ yes /\ no \in Flags /\ ~no /\ yes \in BOOLEAN
    BY Members
  <2>2. state \in TransactionStates /\ state # "NONE"
    BY Members
  <2>3. code \in Numbers /\ code < 200
    BY DEF Numbers
  <2>. QED BY <2>1, <2>2, <2>3
<1>4. /\ new \in Transactions /\ new.method = method /\ new.cseq = cseq /\ new.in_dialog = yes
      /\ new.state = state /\ new.code = code /\ new.client = no /\ new.dialog_queued = no
  <2>1. Nobody = [client |-> no, method |-> "INFO", state |-> "NONE", code |-> 0,
                  cseq |-> 0, in_dialog |-> no, dialog_queued |-> no]
    BY DEF Nobody
  <2>. HIDE DEF yes, no, state, code
  <2>. QED BY <1>2, <1>3, <2>1, Typing, Members
<1>. HIDE DEF new, i, yes, no, state, code
<1>5. made = x /\ made.d = w.d /\ made.t = [w.t EXCEPT ![i] = new]
  <2>1. [w.d EXCEPT !.local_cseq = c] = w.d
    BY <1>2, Typing
  <2>. QED BY <1>2, <2>1 DEF Joined, Worlds, i
<1>6. /\ new.state # "NONE" /\ new.in_dialog /\ new.code < 200 /\ ~new.client
      /\ ~new.dialog_queued /\ new.cseq \in CSeqs
  BY <1>3, <1>4
<1>. HIDE DEF c
<1>7. Sound(x) /\ i \in Ids /\ x.t[i] = new /\ w.t[i].state = "NONE"
  <2>1. /\ Transient(new.state) => new.in_dialog /\ new.code < 200
        /\ ~new.client => new.cseq \in CSeqs
        /\ new.client /\ new.method = "INVITE" => w.d.state \notin {"NULL", "EARLY"}
        /\ new.dialog_queued => /\ new.client /\ new.cseq # 0
                                /\ w.d.local_cseq < new.cseq /\ new.cseq <= c
                                /\ w.d.queued_ct = <<>>
        /\ c \in Nat /\ w.d.local_cseq <= c
    BY <1>2, <1>6 DEF c
  <2>. QED BY <1>4, <1>6, <2>1, NewShape DEF i
<1>. HIDE DEF x, made
<1>8. CASE method = "INVITE"
  <2>1. ~InQueue(made, i)
    BY <1>2, <1>4, <1>5, <1>7, NotQueued
  <2>2. Heeds(told, made, i) /\ Woken(told)
    BY <1>3, <1>5, <1>6, <1>7, <2>1, UpdateShape
  <2>. HIDE DEF told, v
  <2>3. Sound(told) /\ Follows(told, made)
    BY <2>2 DEF Heeds
  <2>4. told.t[i].state # "NONE" /\ ~told.t[i].client /\ told.t[i].cseq # 0
    BY <1>2, <1>4, <1>5, <1>6, <1>7, <2>3 DEF Follows
  <2>5. /\ Sound(v) /\ Attentive(v)
        /\ v.t[i].state # "NONE" /\ ~v.t[i].client /\ v.t[i].cseq # 0
    BY <1>1, <1>8, <2>2, <2>3, <2>4, WokenAttentive
  <2>. QED BY <1>7, <2>5 DEF v, i
<1>9. CASE method # "INVITE"
  <2>1. made.t[w.d.last_transaction] = w.t[w.d.last_transaction]
    BY <1>2, <1>5, <1>7
  <2>2. Attentive(made)
    BY <1>5, <2>1 DEF Attentive, request_pending
  <2>. HIDE DEF told, v
  <2>3. /\ Sound(v) /\ Attentive(v)
        /\ v.t[i].state # "NONE" /\ ~v.t[i].client /\ v.t[i].cseq # 0
    BY <1>1, <1>2, <1>4, <1>5, <1>6, <1>7, <1>9, <2>2
  <2>. QED BY <1>7, <2>3 DEF v, i
<1>. QED BY <1>8, <1>9

LEMMA ReceiveRequestStep ==
    ASSUME IInv, NEW method \in Methods, NEW cseq \in CSeqs, ReceiveRequest(method, cseq)
    PROVE  Sound(World)' /\ Attentive(World)'
<1>. DEFINE w == World
            i == NextId(w)
            reinvite == method = "INVITE" /\ d.needs_ack
            u == IF reinvite THEN stop_200Ok_retrans(w) ELSE w
            v == NewServerTransaction(u, i, method, cseq)
            state == "DONE"
            code == 491
            yes == TRUE
            busy == Heard(v, i, state, code)
            x == dialog_update(busy, i, yes)
<1>1. Sound(w) /\ Attentive(w) /\ w.d = d /\ w.t = t
  BY Fields DEF IInv
<1>2. Free(w) # {}
  BY <1>1, Members DEF ReceiveRequest, MayRequest, Free
<1>3. Becomes(v) \/ Becomes(x)
  BY Zenon DEF ReceiveRequest, Heard
<1>. HIDE DEF w
<1>4. Sound(u) /\ Attentive(u) /\ u.t = w.t
  <2>. DEFINE s == stop_200Ok_retrans(w)
  <2>1. /\ Sound(s) /\ s.t = w.t
        /\ s.d.state = w.d.state /\ s.d.needs_ack = w.d.needs_ack
        /\ s.d.last_transaction = w.d.last_transaction
        /\ s.d.scheduled = w.d.scheduled /\ s.d.queued_ct = w.d.queued_ct
    BY <1>1, StopShape
  <2>. HIDE DEF s
  <2>2. Attentive(s)
    BY <1>1, <2>1 DEF Attentive, request_pending
  <2>. QED BY <1>1, <2>1, <2>2 DEF s
<1>. HIDE DEF u
<1>5. Free(u) # {} /\ NextId(u) = i
  <2>1. Free(u) = Free(w)
    BY <1>4 DEF Free
  <2>. QED BY <1>2, <2>1 DEF NextId
<1>. HIDE DEF i
<1>6. /\ Sound(v) /\ Attentive(v) /\ i \in Ids
      /\ v.t[i].state # "NONE" /\ ~v.t[i].client /\ v.t[i].cseq # 0
  BY <1>4, <1>5, ServerShape
<1>. HIDE DEF v
<1>7. CASE Becomes(v)
  BY <1>6, <1>7, Becoming
<1>8. CASE Becomes(x)
  <2>1. /\ state \in TransactionStates /\ state # "NONE" /\ ~Transient(state)
        /\ code \in Nat /\ yes \in BOOLEAN /\ ~InQueue(v, i)
    BY <1>6, Members, NotQueued DEF Transient
  <2>. HIDE DEF state, code, yes
  <2>2. /\ Sound(busy) /\ busy.t[i].state = state /\ busy.d = v.d /\ ~busy.t[i].client
    BY <1>6, <2>1, HeardMoved, MovedShape
  <2>3. ~InQueue(busy, i)
    BY <2>1, <2>2 DEF InQueue
  <2>. HIDE DEF busy
  <2>4. Heeds(x, busy, i) /\ Woken(x)
    BY <1>6, <2>1, <2>2, <2>3, UpdateShape
  <2>. HIDE DEF x
  <2>. QED BY <1>8, <2>4, WokenAttentive, Becoming DEF Heeds
<1>. QED BY <1>3, <1>7, <1>8

LEMMA Timer200OkEndStep ==
    ASSUME IInv, Timer200OkEnd
    PROVE  Sound(World)' /\ Attentive(World)'
<1>. DEFINE w == World
            s == stop_200Ok_retrans(w)
            full == "CONFIRMED"
            u == [s EXCEPT !.d.state = full]
<1>1. Sound(w) /\ Attentive(w) /\ w.d = d /\ w.t = t /\ Free(w) # {}
  BY Fields DEF IInv, Timer200OkEnd
<1>2. Becomes(s) \/ \E found \in BOOLEAN : Becomes(SendBye(u, found))
  BY Zenon DEF Timer200OkEnd
<1>. HIDE DEF w
<1>3. /\ Sound(s) /\ s.t = w.t
      /\ s.d.state = w.d.state /\ s.d.needs_ack = w.d.needs_ack
      /\ s.d.last_transaction = w.d.last_transaction
      /\ s.d.scheduled = w.d.scheduled /\ s.d.queued_ct = w.d.queued_ct
  BY <1>1, StopShape
<1>. HIDE DEF s
<1>4. Attentive(s)
  BY <1>1, <1>3 DEF Attentive, request_pending
<1>5. Sound(u) /\ Free(u) # {}
  <2>1. full \in DialogStates /\ full \notin {"NULL", "EARLY"}
    BY Members
  <2>. HIDE DEF full
  <2>2. Sound(u) /\ u.t = s.t
    BY <1>3, <2>1, SetState
  <2>. QED BY <1>1, <1>3, <2>2 DEF Free
<1>. HIDE DEF u
<1>6. CASE Becomes(s)
  BY <1>3, <1>4, <1>6, Becoming
<1>7. CASE \E found \in BOOLEAN : Becomes(SendBye(u, found))
  <2>1. PICK found \in BOOLEAN : Becomes(SendBye(u, found))
    BY <1>7
  <2>2. Sound(SendBye(u, found)) /\ Attentive(SendBye(u, found))
    BY <1>5, SendByeShape
  <2>. QED BY <2>1, <2>2, Becoming
<1>. QED BY <1>2, <1>6, <1>7

LEMMA ReceiveAckStep ==
    ASSUME IInv, NEW cseq \in CSeqs, ReceiveAck(cseq)
    PROVE  Sound(World)' /\ Attentive(World)'
<1>. DEFINE w == World
            s == stop_200Ok_retrans(w)
            no == FALSE
            b == s.d.got_initial_ack \/ w.d.is_server
            g == Got(s, no, b)
            v == process_queue(g)
<1>1. Sound(w) /\ Attentive(w) /\ w.d = d /\ w.t = t
  BY Fields DEF IInv
<1>2. Becomes(w) \/ Becomes(v)
  <2>1. Becomes(w) \/ Becomes(handle_ack(w, cseq))
    BY Zenon DEF ReceiveAck
  <2>2. handle_ack(w, cseq) = w \/ handle_ack(w, cseq) = v
    BY DEF handle_ack, Got
  <2>. HIDE DEF w, v
  <2>. QED BY <2>1, <2>2
<1>. HIDE DEF w
<1>3. Sound(s)
  BY <1>1, StopShape
<1>4. no \in Flags /\ b \in Flags
  BY Members DEF Flags
<1>. HIDE DEF s, no, b
<1>5. Sound(g)
  BY <1>3, <1>4, SetGot
<1>. HIDE DEF g
<1>6. Follows(v, g) /\ Woken(v)
  BY <1>5, ProcessQueueShape
<1>. HIDE DEF v
<1>7. Sound(v) /\ Attentive(v)
  BY <1>5, <1>6, FollowsSound, WokenAttentive
<1>. QED BY <1>1, <1>2, <1>7, Becoming

LEMMA KillStep ==
    ASSUME IInv, Kill
    PROVE  Sound(World)' /\ Attentive(World)'
<1>. DEFINE w == World
            v == dialog_delete(w)
            i == w.d.last_transaction
<1>1. Sound(w) /\ Becomes(v) /\ i \in Ids
  BY WorldTyped DEF IInv, Kill
<1>. HIDE DEF w, i
<1>2. Heeds(v, w, i) /\ Woken(v)
  BY <1>1, DeleteShape
<1>. HIDE DEF v
<1>. QED BY <1>1, <1>2, WokenAttentive, Becoming DEF Heeds

-----------------------------------------------------------------------------
(* The inductive invariant and what follows from it.                       *)

LEMMA Initially == Init => IInv
<1>. SUFFICES ASSUME Init PROVE IInv
  OBVIOUS
<1>. DEFINE no == FALSE
            yes == TRUE
<1>1. PICK server \in BOOLEAN :
        /\ d = [state |-> "NULL", is_server |-> server, needs_ack |-> no,
                got_initial_ack |-> no, last_transaction |-> 1,
                last_out_ack |-> 0, local_cseq |-> IF server THEN 0 ELSE 1,
                remote_cseq |-> IF server THEN 1 ELSE 0, remote_invite_cseq |-> 0,
                last_200Ok |-> 0, queued_ct |-> <<>>, scheduled |-> no,
                listed |-> yes]
        /\ t = [i \in Ids |-> IF i # 1 THEN Nobody
                ELSE [Nobody EXCEPT !.client = ~server, !.method = "INVITE",
                                    !.state = "PROCEEDING", !.cseq = 1,
                                    !.in_dialog = yes]]
  BY Zenon DEF Init
<1>. DEFINE b == ~server
            l == IF server THEN 0 ELSE 1
            r == IF server THEN 1 ELSE 0
            first == [Nobody EXCEPT !.client = b, !.method = "INVITE",
                                    !.state = "PROCEEDING", !.cseq = 1, !.in_dialog = yes]
            w == World
<1>2. /\ no \in Flags /\ ~no /\ yes \in Flags /\ yes /\ server \in Flags /\ b \in Flags
      /\ l \in Numbers /\ r \in Numbers
  BY Members DEF Flags, Numbers
<1>3. Nobody = [client |-> no, method |-> "INFO", state |-> "NONE", code |-> 0,
                cseq |-> 0, in_dialog |-> no, dialog_queued |-> no]
  BY DEF Nobody
<1>4. server => ~b
  OBVIOUS
<1>. HIDE DEF no, yes, b, l, r
<1>5. Nobody \in Transactions /\ first \in Transactions
  BY <1>2, <1>3, Typing, Members
<1>6. /\ Nobody.client = no /\ Nobody.method = "INFO" /\ Nobody.state = "NONE"
      /\ Nobody.dialog_queued = no /\ Nobody.cseq = 0
      /\ first.client = b /\ first.state = "PROCEEDING" /\ first.cseq = 1
      /\ first.in_dialog = yes /\ first.code = 0 /\ first.dialog_queued = no
  BY <1>3
<1>7. /\ d \in Dialogs /\ d.state = "NULL" /\ d.is_server = server /\ d.last_transaction = 1
      /\ d.last_200Ok = 0 /\ d.queued_ct = <<>>
  <2>1. d = [state |-> "NULL", is_server |-> server, needs_ack |-> no,
             got_initial_ack |-> no, last_transaction |-> 1,
             last_out_ack |-> 0, local_cseq |-> l,
             remote_cseq |-> r, remote_invite_cseq |-> 0,
             last_200Ok |-> 0, queued_ct |-> <<>>, scheduled |-> no, listed |-> yes]
    BY <1>1 DEF l, r
  <2>. QED BY <1>2, <2>1, Typing, Members
<1>8. t = [i \in Ids |-> IF i # 1 THEN Nobody ELSE first]
  BY <1>1 DEF b
<1>. HIDE DEF first
<1>9. t \in [Ids -> Transactions] /\ \A i \in Ids : t[i] = IF i # 1 THEN Nobody ELSE first
  BY <1>5, <1>8
<1>10. w.d = d /\ w.t = t /\ w \in Worlds
  BY <1>7, <1>9 DEF World, Worlds
<1>. HIDE DEF w
<1>11. 1 \in Ids /\ 1 \in CSeqs /\ Ids \subseteq Nat /\ \A i \in Ids : ~(i < 1)
  BY Members DEF Ids
<1>12. (\A i \in Ids : ~w.t[i].dialog_queued) /\ \A i : ~InQueue(w, i)
  BY <1>2, <1>6, <1>7, <1>9, <1>10 DEF InQueue
<1>13. Numbered(w)
  BY <1>2, <1>4, <1>6, <1>7, <1>9, <1>10, <1>11 DEF Numbered
<1>14. Live(w)
  <2>1. ASSUME NEW i \in Ids, Transient(w.t[i].state)
        PROVE  w.t[i].in_dialog /\ w.t[i].code < 200
    <3>1. w.t[i] = first
      BY <1>6, <1>9, <1>10, <2>1 DEF Transient
    <3>2. first.in_dialog
      BY <1>2, <1>6
    <3>. QED BY <1>6, <3>1, <3>2
  <2>. QED BY <2>1 DEF Live
<1>15. Allotted(w)
  BY <1>6, <1>7, <1>9, <1>10, <1>11 DEF Allotted
<1>16. Waiting(w) /\ Departed(w)
  BY <1>7, <1>10, <1>12 DEF Waiting, Departed
<1>17. Sound(w) /\ Attentive(w)
  BY <1>7, <1>10, <1>13, <1>14, <1>15, <1>16 DEF Sound, Attentive
<1>18. oks = {} /\ acks = {}
  BY DEF Init
<1>. QED BY <1>17, <1>18 DEF IInv, w

LEMMA Inductive == IInv /\ [Next]_vars => IInv'
<1>. SUFFICES ASSUME IInv, [Next]_vars PROVE IInv'
  OBVIOUS
<1>. USE DEF IInv
<1>1. CASE SendQueued
  BY <1>1, SendQueuedStep DEF SendQueued
<1>2. ASSUME NEW method \in {"INVITE", "BYE"}, SendNow(method) PROVE IInv'
  BY <1>2, SendNowStep DEF SendNow
<1>3. CASE ProcessQueue
  BY <1>3, ProcessQueueStep DEF ProcessQueue
<1>4. CASE Timer200Ok
  <2>1. World' = World
    BY <1>4, Standing DEF Timer200Ok
  <2>2. d.last_200Ok \in CSeqs
    <3>1. Sound(World) /\ World.d = d
      BY Fields
    <3>. QED BY <1>4, <3>1 DEF Timer200Ok, Sound, Numbered
  <2>. QED BY <1>4, <2>1, <2>2 DEF Timer200Ok
<1>5. CASE Timer200OkEnd
  BY <1>5, Timer200OkEndStep DEF Timer200OkEnd
<1>6. CASE Lose
  <2>1. World' = World
    BY <1>6, Standing DEF Lose
  <2>. QED BY <1>6, <2>1 DEF Lose
<1>7. CASE Kill
  BY <1>7, KillStep DEF Kill
<1>8. ASSUME NEW i \in Ids, TransactionEnds(i) PROVE IInv'
  BY <1>8, TransactionEndsStep DEF TransactionEnds
<1>9. ASSUME NEW i \in Ids, NEW code \in Codes, ReceiveResponse(i, code) PROVE IInv'
  BY <1>9, ReceiveResponseStep DEF ReceiveResponse
<1>10. ASSUME NEW i \in Ids, NEW code \in Codes, SendResponse(i, code) PROVE IInv'
  <2>1. UNCHANGED acks
    BY <1>10 DEF SendResponse
  <2>. QED BY <1>10, <2>1, SendResponseStep
<1>11. ASSUME NEW method \in Methods, NEW cseq \in CSeqs, ReceiveRequest(method, cseq) PROVE IInv'
  <2>1. UNCHANGED <<oks, acks>>
    BY <1>11 DEF ReceiveRequest
  <2>. QED BY <1>11, <2>1, ReceiveRequestStep
<1>12. ASSUME NEW cseq \in CSeqs, PeerAcks(cseq) PROVE IInv'
  <2>1. World' = World
    BY <1>12, Standing DEF PeerAcks
  <2>. QED BY <1>12, <2>1 DEF PeerAcks
<1>13. ASSUME NEW cseq \in CSeqs, ReceiveAck(cseq) PROVE IInv'
  BY <1>13, ReceiveAckStep DEF ReceiveAck
<1>14. CASE UNCHANGED vars
  <2>1. World' = World /\ oks' = oks /\ acks' = acks
    BY <1>14, Standing DEF vars
  <2>. QED BY <2>1
<1>. QED BY <1>1, <1>2, <1>3, <1>4, <1>5, <1>6, <1>7, <1>8, <1>9, <1>10, <1>11, <1>12, <1>13,
            <1>14 DEF Next

LEMMA Invariance == Spec => []IInv
BY Initially, Inductive, PTL DEF Spec

\* The dialog, its transactions and the messages stay within their types,
\* whatever the application, the peer and the network do.
THEOREM TypeCorrect == Spec => []TypeOK
<1>1. IInv => TypeOK
  BY Fields, WorldTyped DEF IInv, TypeOK
<1>. QED BY <1>1, Invariance, PTL

\* However a dialog becomes free (an ACK, a final answer, a timeout, the end of
\* a superseded transaction), belle_sip_dialog_process_queue has been scheduled
\* if requests wait: for any number of requests and every set of status codes.
THEOREM WakeupSafety == Spec => []NoLostWakeup
<1>1. IInv => NoLostWakeup
  BY Fields DEF IInv, Attentive, NoLostWakeup
<1>. QED BY <1>1, Invariance, PTL

\* Queued requests leave in the order of their submission with increasing CSeq,
\* and one without a CSeq still waits or was terminated, however many requests
\* there are and whatever the dialog went through in between.
THEOREM OrderSafety == Spec => []InSubmissionOrder
<1>1. IInv => InSubmissionOrder
  <2>. SUFFICES ASSUME IInv, NEW i \in Ids, NEW j \in Ids,
                       i < j, t[i].dialog_queued, t[j].dialog_queued
                PROVE  /\ t[j].cseq # 0 => ~InQueue(World, i) /\ t[i].cseq < t[j].cseq
                       /\ t[i].cseq = 0 => InQueue(World, i) \/ t[i].state = "TERMINATED"
    BY DEF InSubmissionOrder
  <2>. QED BY Fields DEF IInv, Sound, Departed
<1>. QED BY <1>1, Invariance, PTL
=============================================================================
