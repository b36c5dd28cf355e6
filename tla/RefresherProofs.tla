-------------------------- MODULE RefresherProofs --------------------------
(***************************************************************************)
(* Proofs about Refresher, for every set of methods and status codes and   *)
(* whatever the application calls from its listener.                       *)
(***************************************************************************)
EXTENDS Refresher, TLAPS

(* The inductive invariant is a predicate of the refresher's record, so    *)
(* that each function of refresher.c has a lemma of its own.               *)

\* Only a subscription has a dialog, only a publication is ever delayed, and
\* so the requests of a publication never overlap.
InSequence(r) ==
    /\ method # "SUBSCRIBE" => r.dialog = "none"
    /\ r.publish_pending => method = "PUBLISH"
    /\ method = "PUBLISH" => ~r.overlap

Proper(r) == r \in RefresherStates /\ InSequence(r)

\* The application did not stop the refresher, or has a publication.
Loud(r) == method = "PUBLISH" \/ ~r.quiet

\* A refresher that the application stopped has no timer and no request.
Hushed(r) ==
    Loud(r) \/ (r.state = "stopped" /\ r.timer = "none" /\ ~Transient(r))

Sane(r) == Proper(r) /\ Hushed(r)

\* It wants to be refreshed and no timer will do it.
Idle(r) == r.state = "started" /\ r.target_expires > 0 /\ r.timer = "none"

Excused(r) == r.last \in Final \/ r.on_io_error

\* NeverAbandoned, of a record
Attended(r) == Idle(r) /\ ~Transient(r) => Excused(r)

\* Inside a handler: what a request that ends next leaves attended
Covered(r) == Idle(r) => Excused(r) \/ r.publish_pending \/ r.fresh

IInv == method \in Methods /\ manual \in BOOLEAN /\ Sane(w) /\ Attended(w)

-----------------------------------------------------------------------------
(* The types of the fields, by name: a lemma expands the ones it needs.    *)

States == {"started", "stopped"}
Timers == {"none", "NORMAL_REFRESH", "RETRY"}
Bits == 0..1
Flags == BOOLEAN
Dialogs == {"none", "CONFIRMED", "TERMINATED"}
TxStates == {"INIT", "TRYING", "PROCEEDING", "COMPLETED", "TERMINATED"}
Transactions ==
    [state : TxStates, expires : Bits, unknown : Flags, channel : Flags, timed_out : Flags]
Results == -1..0
Outcomes == Codes \cup {NoFailure, ToldCaller, Dropped, AboutToExpire, 408, 503}
AllConds == {"ready", "connecting", "nochannel", "busy", "nocreds"}

LEMMA Typing ==
    RefresherStates =
       [state : States, timer : Timers, target_expires : Bits, auth_failures : Bits,
        publish_pending : Flags, on_io_error : Flags, contact_fixing : Flags,
        first_acknowledged : Flags, dialog : Dialogs, learnt : Flags, tx : Transactions,
        ret : Results, fresh : Flags, overlap : Flags, quiet : Flags, last : Outcomes]
BY DEF RefresherStates, States, Timers, Bits, Flags, Dialogs, TxStates, Transactions,
       Results, Outcomes

LEMMA Members ==
    /\ "started" \in States /\ "stopped" \in States
    /\ "none" \in Timers /\ "NORMAL_REFRESH" \in Timers /\ "RETRY" \in Timers
    /\ 0 \in Bits /\ 1 \in Bits /\ TRUE \in Flags /\ FALSE \in Flags
    /\ "none" \in Dialogs /\ "CONFIRMED" \in Dialogs /\ "TERMINATED" \in Dialogs
    /\ 0 \in Results /\ -1 \in Results
    /\ NoFailure \in Outcomes /\ ToldCaller \in Outcomes /\ Dropped \in Outcomes
    /\ AboutToExpire \in Outcomes /\ 408 \in Outcomes /\ 503 \in Outcomes
    /\ \A s \in {"INIT", "TRYING", "PROCEEDING", "COMPLETED", "TERMINATED"} : s \in TxStates
BY DEF States, Timers, Bits, Flags, Dialogs, TxStates, Results, Outcomes

LEMMA CondsKnown ==
    /\ Conds \subseteq AllConds /\ DelayedConds \subseteq AllConds
    /\ \A reaction \in Reactions :
          reaction.call \in {"none", "stop", "refresh", "unrefresh"} /\ reaction.cond \in AllConds
BY CallsAssumption DEF Conds, DelayedConds, AllConds, Reactions

\* The failures that NeverAbandoned excuses include those without a retry.
LEMMA FinalMembers ==
    /\ ToldCaller \in Final /\ Dropped \in Final /\ AboutToExpire \in Final
    /\ \A code \in {301, 302, 401, 407, 404, 423, 480, 500} : code \in Final
    /\ \A code \in Codes : code >= 600 => code \in Final
BY DEF Final

LEMMA LoudSane ==
    ASSUME NEW r, Proper(r), Loud(r)
    PROVE  Sane(r)
BY DEF Sane, Hushed

-----------------------------------------------------------------------------
(* The functions that send a request.                                      *)

\* The new transaction is under way unless the provider has no channel.
LEMMA TransactionShape ==
    ASSUME NEW r \in RefresherStates, NEW cond \in AllConds
    PROVE  LET t == NewTransaction(r, cond)
           IN /\ t \in Transactions
              /\ cond # "nochannel" => t.state \in {"INIT", "TRYING"}
<1>. DEFINE s == CASE cond = "connecting" -> "INIT"
                   [] cond = "nochannel" -> "TERMINATED"
                   [] OTHER -> "TRYING"
            u == method # "PUBLISH" /\ ~r.learnt
            k == cond # "nochannel"
            no == FALSE
<1>1. /\ s \in TxStates
      /\ cond # "nochannel" => s \in {"INIT", "TRYING"}
  BY DEF AllConds, TxStates
<1>2. r.target_expires \in Bits /\ u \in Flags /\ k \in Flags /\ no \in Flags
  BY Typing DEF Flags
<1>3. NewTransaction(r, cond) =
         [state |-> s, expires |-> r.target_expires, unknown |-> u, channel |-> k,
          timed_out |-> no]
  BY DEF NewTransaction
<1>. HIDE DEF s, u, k, no
<1>. QED BY <1>1, <1>2, <1>3 DEF Transactions

LEMMA SubmitShape ==
    ASSUME NEW r \in RefresherStates, NEW cond \in AllConds
    PROVE  LET d == Submit(r, cond)
           IN /\ d \in RefresherStates
              /\ d.dialog = r.dialog /\ d.quiet = r.quiet
              /\ d.overlap => r.overlap \/ r.tx.state = "PROCEEDING"
              /\ d.fresh /\ (d.publish_pending => r.publish_pending)
              /\ d.ret = IF cond = "nochannel" THEN -1 ELSE 0
              /\ cond # "nochannel" => Transient(d)
<1>. DEFINE t == NewTransaction(r, cond)
            o == r.overlap \/ r.tx.state = "PROCEEDING"
            l == r.learnt /\ cond # "connecting"
            sent == [r EXCEPT !.on_io_error = FALSE, !.tx = t, !.learnt = l,
                              !.overlap = o, !.fresh = TRUE, !.ret = 0]
            again == r.publish_pending /\ r.state = "started"
            timer == IF again THEN "none" ELSE sent.timer
            failures == IF again THEN 0 ELSE sent.auth_failures
            lost == [sent EXCEPT !.ret = -1, !.publish_pending = FALSE,
                                 !.timer = timer, !.auth_failures = failures]
<1>1. t \in Transactions /\ (cond # "nochannel" => t.state \in {"INIT", "TRYING"})
  BY TransactionShape
<1>2. o \in Flags /\ l \in Flags
  BY DEF Flags
<1>3. Submit(r, cond) = IF cond # "nochannel" THEN sent ELSE lost
  BY DEF Submit
<1>. HIDE DEF t, o, l
<1>4. sent \in RefresherStates
  BY <1>1, <1>2, Typing, Members
<1>5. /\ sent.dialog = r.dialog /\ sent.quiet = r.quiet /\ sent.overlap = o /\ sent.fresh
      /\ sent.publish_pending = r.publish_pending /\ sent.ret = 0 /\ sent.tx = t
  BY Typing
<1>. HIDE DEF sent
<1>6. timer \in Timers /\ failures \in Bits
  BY <1>4, Typing, Members
<1>. HIDE DEF timer, failures
<1>7. lost \in RefresherStates
  BY <1>4, <1>6, Typing, Members
<1>8. /\ lost.dialog = sent.dialog /\ lost.quiet = sent.quiet /\ lost.overlap = sent.overlap
      /\ lost.fresh = sent.fresh /\ ~lost.publish_pending /\ lost.ret = -1
  BY <1>4, Typing
<1>. HIDE DEF lost
<1>. QED BY <1>1, <1>3, <1>4, <1>5, <1>7, <1>8 DEF Transient, o

\* belle_sip_refresher_refresh_internal: unless it returns -1 a request is
\* under way, the new one or the one that delays it.
LEMMA RefreshInternalShape ==
    ASSUME NEW r, Proper(r), NEW expires \in -1..1, NEW auth \in BOOLEAN, NEW cond \in AllConds
    PROVE  LET d == refresh_internal(r, expires, auth, cond)
           IN /\ Proper(d) /\ d.quiet = r.quiet /\ d.ret \in {-1, 0}
              /\ d.ret = 0 => Transient(d) /\ (d.fresh \/ d.publish_pending)
<1>. DEFINE a == Aim(r, expires)
            replaced == r.dialog = "TERMINATED"
            g == IF replaced THEN "none" ELSE a.dialog
            f == a.first_acknowledged /\ ~replaced
            b == [a EXCEPT !.dialog = g, !.first_acknowledged = f]
            s == Submit(b, cond)
            p == [a EXCEPT !.publish_pending = TRUE, !.ret = 0]
            n == [a EXCEPT !.ret = -1]
            e == [cancel_retry(s) EXCEPT !.state = "stopped"]
            d == refresh_internal(r, expires, auth, cond)
<1>1. r \in RefresherStates /\ InSequence(r)
  BY DEF Proper
<1>2. /\ a \in RefresherStates /\ a.dialog = r.dialog /\ a.quiet = r.quiet
      /\ a.overlap = r.overlap /\ a.publish_pending = r.publish_pending /\ a.tx = r.tx
  <2>1. CASE expires >= 0
    <3>1. expires \in Bits
      BY <2>1 DEF Bits
    <3>2. a = [r EXCEPT !.target_expires = expires]
      BY <2>1 DEF Aim
    <3>. QED BY <1>1, <3>1, <3>2, Typing
  <2>2. CASE ~(expires >= 0)
    BY <1>1, <2>2 DEF Aim
  <2>. QED BY <2>1, <2>2
<1>3. Delayed(r) => d = p
  BY DEF refresh_internal
<1>4. Delayed(r) \/ d = n \/ d = s \/ (s.ret = 0 /\ d = e)
  BY DEF refresh_internal
<1>. HIDE DEF a, d
<1>5. p \in RefresherStates /\ n \in RefresherStates
  BY <1>2, Typing, Members
<1>6. /\ p.dialog = a.dialog /\ p.quiet = a.quiet /\ p.overlap = a.overlap
      /\ p.publish_pending /\ p.ret = 0 /\ p.tx = a.tx
      /\ n.dialog = a.dialog /\ n.quiet = a.quiet /\ n.overlap = a.overlap
      /\ n.publish_pending = a.publish_pending /\ n.ret = -1
  BY <1>2, Typing
<1>7. g \in Dialogs /\ f \in Flags /\ (g = a.dialog \/ g = "none")
  BY <1>2, Typing, Members DEF Flags
<1>. HIDE DEF g, f, p, n
<1>8. b \in RefresherStates
  BY <1>2, <1>7, Typing
<1>9. /\ b.dialog = g /\ b.quiet = a.quiet /\ b.overlap = a.overlap
      /\ b.publish_pending = a.publish_pending /\ b.tx = a.tx
  BY <1>2, Typing
<1>. HIDE DEF b
<1>10. /\ s \in RefresherStates
       /\ s.dialog = b.dialog /\ s.quiet = b.quiet
       /\ s.overlap => b.overlap \/ b.tx.state = "PROCEEDING"
       /\ s.fresh /\ (s.publish_pending => b.publish_pending)
       /\ s.ret = IF cond = "nochannel" THEN -1 ELSE 0
       /\ cond # "nochannel" => Transient(s)
  BY <1>8, SubmitShape
<1>. HIDE DEF s
<1>11. e \in RefresherStates
  BY <1>10, Typing, Members DEF cancel_retry
<1>12. /\ e.dialog = s.dialog /\ e.quiet = s.quiet /\ e.overlap = s.overlap
       /\ e.publish_pending = s.publish_pending /\ e.ret = s.ret /\ e.tx = s.tx
       /\ e.fresh = s.fresh
  BY <1>10, Typing DEF cancel_retry
<1>. HIDE DEF e
<1>13. CASE Delayed(r)
  <2>1. d = p /\ method = "PUBLISH" /\ Transient(r)
    BY <1>3, <1>13 DEF Delayed
  <2>2. InSequence(d)
    BY <1>1, <1>2, <1>6, <2>1 DEF InSequence
  <2>3. Transient(d)
    BY <1>2, <1>6, <2>1 DEF Transient
  <2>. QED BY <1>2, <1>5, <1>6, <2>1, <2>2, <2>3 DEF Proper, d
<1>14. CASE ~Delayed(r)
  <2>1. method = "PUBLISH" => r.tx.state # "PROCEEDING"
    BY <1>1, <1>14 DEF Delayed, InSequence, Transient
  <2>2. CASE d = n
    BY <1>1, <1>2, <1>5, <1>6, <2>2 DEF Proper, InSequence, d
  <2>3. CASE d = s
    <3>1. InSequence(d)
      BY <1>1, <1>2, <1>7, <1>9, <1>10, <2>1, <2>3 DEF InSequence
    <3>. QED BY <1>2, <1>9, <1>10, <2>3, <3>1 DEF Proper, d
  <2>4. CASE s.ret = 0 /\ d = e
    <3>1. InSequence(d)
      BY <1>1, <1>2, <1>7, <1>9, <1>10, <1>12, <2>1, <2>4 DEF InSequence
    <3>2. Transient(d)
      BY <1>10, <1>12, <2>4 DEF Transient
    <3>. QED BY <1>2, <1>9, <1>10, <1>11, <1>12, <2>4, <3>1, <3>2 DEF Proper, d
  <2>. QED BY <1>4, <1>14, <2>2, <2>3, <2>4
<1>. QED BY <1>13, <1>14

\* belle_sip_refresher_refresh
LEMMA RefreshShape ==
    ASSUME NEW r, Proper(r), NEW expires \in -1..1, NEW cond \in AllConds
    PROVE  LET d == refresh(r, expires, cond)
           IN /\ Proper(d) /\ d.quiet = r.quiet /\ d.ret \in {-1, 0}
              /\ d.ret = 0 => Transient(d) /\ (d.fresh \/ d.publish_pending)
<1>. DEFINE b == [cancel_retry(r) EXCEPT !.auth_failures = 0, !.last = NoFailure]
            no == FALSE
<1>1. b \in RefresherStates
  BY Typing, Members DEF Proper, cancel_retry
<1>2. /\ b.dialog = r.dialog /\ b.publish_pending = r.publish_pending
      /\ b.overlap = r.overlap /\ b.quiet = r.quiet
  BY Typing DEF Proper, cancel_retry
<1>3. refresh(r, expires, cond) = refresh_internal(b, expires, no, cond) /\ no \in BOOLEAN
  BY DEF refresh
<1>. HIDE DEF b, no
<1>4. Proper(b)
  BY <1>1, <1>2 DEF Proper, InSequence
<1>. QED BY <1>2, <1>3, <1>4, RefreshInternalShape

\* What the caller of a refresh that fails notes leaves it attended.
LEMMA NotedShape ==
    ASSUME NEW d, Proper(d), NEW note \in Final \cap Outcomes, d.ret \in {-1, 0},
           d.ret = 0 => Transient(d) /\ (d.fresh \/ d.publish_pending)
    PROVE  LET e == IF d.ret = -1 THEN [d EXCEPT !.last = note] ELSE d
           IN Proper(e) /\ Attended(e) /\ Covered(e) /\ e.quiet = d.quiet
<1>. DEFINE n == [d EXCEPT !.last = note]
<1>1. n \in RefresherStates
  BY Typing DEF Proper
<1>2. /\ n.dialog = d.dialog /\ n.publish_pending = d.publish_pending
      /\ n.overlap = d.overlap /\ n.quiet = d.quiet /\ n.last = note
  BY Typing DEF Proper
<1>. HIDE DEF n
<1>3. Proper(n) /\ Attended(n) /\ Covered(n)
  BY <1>1, <1>2 DEF Proper, InSequence, Attended, Covered, Excused
<1>4. d.ret = 0 => Attended(d) /\ Covered(d)
  BY DEF Attended, Covered
<1>. QED BY <1>2, <1>3, <1>4 DEF n

\* A refresh by the refresher itself
LEMMA UncheckedShape ==
    ASSUME NEW r, Proper(r), NEW cond \in AllConds
    PROVE  LET d == refresh_unchecked(r, cond)
           IN Proper(d) /\ Attended(d) /\ Covered(d) /\ d.quiet = r.quiet
<1>. DEFINE d == refresh(r, r.target_expires, cond)
<1>1. r.target_expires \in -1..1
  BY Typing DEF Proper, Bits
<1>2. /\ Proper(d) /\ d.quiet = r.quiet /\ d.ret \in {-1, 0}
      /\ d.ret = 0 => Transient(d) /\ (d.fresh \/ d.publish_pending)
  BY <1>1, RefreshShape
<1>3. refresh_unchecked(r, cond) = IF d.ret = -1 THEN [d EXCEPT !.last = Dropped] ELSE d
  BY DEF refresh_unchecked
<1>. HIDE DEF d
<1>. QED BY <1>2, <1>3, NotedShape, Members, FinalMembers

\* belle_sip_transaction_terminate and process_transaction_terminated
LEMMA TerminateShape ==
    ASSUME NEW r, Proper(r), NEW cond \in AllConds
    PROVE  LET d == terminate(r, cond)
           IN /\ Proper(d) /\ d.quiet = r.quiet
              /\ method # "PUBLISH" => /\ d.state = r.state /\ d.timer = r.timer
                                       /\ d.tx.state = "TERMINATED"
              /\ Attended(r) /\ Covered(r) /\ ~r.fresh => Attended(d)
<1>. DEFINE b == [r EXCEPT !.tx.state = "TERMINATED"]
            k == [b EXCEPT !.publish_pending = FALSE]
            u == refresh_unchecked(k, cond)
            d == terminate(r, cond)
<1>1. r \in RefresherStates /\ InSequence(r)
  BY DEF Proper
<1>2. CASE r.tx.state = "TERMINATED"
  BY <1>2 DEF terminate
<1>3. CASE r.tx.state # "TERMINATED"
  <2>1. b \in RefresherStates
    <3>1. r.tx \in Transactions
      BY <1>1, Typing
    <3>2. [r.tx EXCEPT !.state = "TERMINATED"] \in Transactions
      BY <3>1, Members DEF Transactions
    <3>. QED BY <1>1, <3>2, Typing
  <2>2. /\ b.dialog = r.dialog /\ b.publish_pending = r.publish_pending
        /\ b.overlap = r.overlap /\ b.quiet = r.quiet /\ b.last = r.last
        /\ b.state = r.state /\ b.timer = r.timer /\ b.target_expires = r.target_expires
        /\ b.on_io_error = r.on_io_error /\ b.tx.state = "TERMINATED"
    BY <1>1, Typing DEF Transactions
  <2>3. d = IF b.publish_pending /\ b.state = "started" THEN u ELSE k
    BY <1>3 DEF terminate, process_transaction_terminated
  <2>. HIDE DEF b, d
  <2>4. k \in RefresherStates
    BY <2>1, Typing, Members
  <2>5. /\ k.dialog = b.dialog /\ ~k.publish_pending
        /\ k.overlap = b.overlap /\ k.quiet = b.quiet /\ k.last = b.last
        /\ k.state = b.state /\ k.timer = b.timer /\ k.target_expires = b.target_expires
        /\ k.on_io_error = b.on_io_error /\ k.tx = b.tx
    BY <2>1, Typing
  <2>. HIDE DEF k
  <2>6. Proper(k)
    BY <1>1, <2>2, <2>4, <2>5 DEF Proper, InSequence
  <2>7. CASE b.publish_pending /\ b.state = "started"
    <3>1. method = "PUBLISH"
      BY <1>1, <2>2, <2>7 DEF InSequence
    <3>2. Proper(u) /\ Attended(u) /\ u.quiet = k.quiet
      BY <2>6, UncheckedShape
    <3>. HIDE DEF u
    <3>. QED BY <2>2, <2>3, <2>5, <2>7, <3>1, <3>2 DEF d
  <2>8. CASE ~(b.publish_pending /\ b.state = "started")
    <3>1. Attended(r) /\ Covered(r) /\ ~r.fresh => Attended(k)
      BY <2>2, <2>5, <2>8 DEF Attended, Covered, Idle, Excused
    <3>. QED BY <2>2, <2>3, <2>5, <2>6, <2>8, <3>1 DEF d
  <2>. QED BY <2>7, <2>8
<1>. QED BY <1>2, <1>3

\* belle_sip_refresher_stop
LEMMA StopShape ==
    ASSUME NEW r, Proper(r), NEW cond \in AllConds
    PROVE  LET d == stop(r, cond)
           IN /\ Proper(d) /\ d.quiet = r.quiet /\ d.state = "stopped"
              /\ method # "PUBLISH" => d.timer = "none" /\ ~Transient(d)
<1>. DEFINE c == cancel_retry(r)
            e == IF Transient(r) THEN terminate(c, cond) ELSE c
            d == [e EXCEPT !.state = "stopped"]
<1>1. c \in RefresherStates
  BY Typing, Members DEF Proper, cancel_retry
<1>2. /\ c.dialog = r.dialog /\ c.publish_pending = r.publish_pending
      /\ c.overlap = r.overlap /\ c.quiet = r.quiet /\ c.timer = "none" /\ c.tx = r.tx
  BY Typing DEF Proper, cancel_retry
<1>3. stop(r, cond) = d
  BY DEF stop
<1>. HIDE DEF c
<1>4. Proper(c)
  BY <1>1, <1>2 DEF Proper, InSequence
<1>5. /\ Proper(e) /\ e.quiet = r.quiet
      /\ method # "PUBLISH" => e.timer = "none" /\ ~Transient(e)
  BY <1>2, <1>4, TerminateShape DEF Transient
<1>. HIDE DEF e
<1>6. d \in RefresherStates
  BY <1>5, Typing, Members DEF Proper
<1>7. /\ d.dialog = e.dialog /\ d.publish_pending = e.publish_pending
      /\ d.overlap = e.overlap /\ d.quiet = e.quiet /\ d.timer = e.timer /\ d.tx = e.tx
      /\ d.state = "stopped"
  BY <1>5, Typing DEF Proper
<1>. HIDE DEF d
<1>. QED BY <1>3, <1>5, <1>6, <1>7 DEF Proper, InSequence, Transient

-----------------------------------------------------------------------------
(* The application.                                                        *)

LEMMA AppRefreshShape ==
    ASSUME NEW r, Proper(r), NEW expires \in -1..1, NEW cond \in AllConds
    PROVE  LET d == AppRefresh(r, expires, cond)
           IN Sane(d) /\ Attended(d) /\ Covered(d)
<1>. DEFINE b == [r EXCEPT !.quiet = FALSE]
            d == refresh(b, expires, cond)
<1>1. b \in RefresherStates
  BY Typing, Members DEF Proper
<1>2. /\ b.dialog = r.dialog /\ b.publish_pending = r.publish_pending
      /\ b.overlap = r.overlap /\ ~b.quiet
  BY Typing DEF Proper
<1>3. AppRefresh(r, expires, cond) = IF d.ret = -1 THEN [d EXCEPT !.last = ToldCaller] ELSE d
  BY DEF AppRefresh
<1>. HIDE DEF b
<1>4. Proper(b)
  BY <1>1, <1>2 DEF Proper, InSequence
<1>5. /\ Proper(d) /\ d.quiet = b.quiet /\ d.ret \in {-1, 0}
      /\ d.ret = 0 => Transient(d) /\ (d.fresh \/ d.publish_pending)
  BY <1>4, RefreshShape
<1>. HIDE DEF d
<1>. DEFINE e == IF d.ret = -1 THEN [d EXCEPT !.last = ToldCaller] ELSE d
<1>6. Proper(e) /\ Attended(e) /\ Covered(e) /\ e.quiet = d.quiet
  BY <1>5, NotedShape, Members, FinalMembers
<1>. HIDE DEF e
<1>7. Sane(e)
  BY <1>2, <1>5, <1>6, LoudSane DEF Loud
<1>. QED BY <1>3, <1>6, <1>7 DEF e

LEMMA AppStopShape ==
    ASSUME NEW r, Proper(r), NEW cond \in AllConds
    PROVE  LET d == AppStop(r, cond)
           IN Sane(d) /\ d.state = "stopped"
<1>. DEFINE e == stop(r, cond)
            d == [e EXCEPT !.quiet = TRUE]
<1>1. /\ Proper(e) /\ e.state = "stopped"
      /\ method # "PUBLISH" => e.timer = "none" /\ ~Transient(e)
  BY StopShape
<1>2. AppStop(r, cond) = d
  BY DEF AppStop
<1>. HIDE DEF e
<1>3. d \in RefresherStates
  BY <1>1, Typing, Members DEF Proper
<1>4. /\ d.dialog = e.dialog /\ d.publish_pending = e.publish_pending
      /\ d.overlap = e.overlap /\ d.timer = e.timer /\ d.tx = e.tx /\ d.state = e.state
  BY <1>1, Typing DEF Proper
<1>. HIDE DEF d
<1>5. Proper(d)
  BY <1>1, <1>3, <1>4 DEF Proper, InSequence
<1>6. Hushed(d)
  BY <1>1, <1>4 DEF Hushed, Loud, Transient
<1>. QED BY <1>1, <1>2, <1>4, <1>5, <1>6 DEF Sane

\* Whatever the application calls from its listener
LEMMA ReactShape ==
    ASSUME NEW r, Sane(r), NEW reaction \in Reactions
    PROVE  LET d == React(r, reaction)
           IN /\ Sane(d)
              /\ Attended(r) => Attended(d)
              /\ Covered(r) => Covered(d)
<1>1. /\ reaction.call \in {"none", "stop", "refresh", "unrefresh"}
      /\ reaction.cond \in AllConds
  BY CondsKnown
<1>2. Proper(r)
  BY DEF Sane
<1>3. CASE reaction.call = "none"
  BY <1>3 DEF React
<1>4. CASE reaction.call = "stop"
  <2>1. React(r, reaction) = AppStop(r, reaction.cond)
    BY <1>4 DEF React
  <2>2. /\ Sane(AppStop(r, reaction.cond))
        /\ AppStop(r, reaction.cond).state = "stopped"
    BY <1>1, <1>2, AppStopShape
  <2>. QED BY <2>1, <2>2 DEF Attended, Covered, Idle
<1>5. CASE reaction.call = "refresh"
  <2>1. React(r, reaction) = AppRefresh(r, 1, reaction.cond)
    BY <1>5 DEF React
  <2>. QED BY <1>1, <1>2, <2>1, AppRefreshShape
<1>6. CASE reaction.call = "unrefresh"
  <2>1. React(r, reaction) = AppRefresh(r, 0, reaction.cond)
    BY <1>6 DEF React
  <2>. QED BY <1>1, <1>2, <2>1, AppRefreshShape
<1>. QED BY <1>1, <1>3, <1>4, <1>5, <1>6

\* A call of the listener leaves the refresher attended when a timer runs,
\* nothing is wanted, or the outcome is one that is reported without a retry.
LEMMA ListenerShape ==
    ASSUME NEW r, Sane(r), NEW code \in Outcomes, NEW reaction \in Reactions
    PROVE  LET d == listener(r, code, reaction)
           IN /\ Sane(d)
              /\ ~Idle(r) \/ code \in Final => Attended(d) /\ Covered(d)
<1>. DEFINE b == [r EXCEPT !.last = code]
<1>1. b \in RefresherStates
  BY Typing DEF Sane, Proper
<1>2. /\ b.dialog = r.dialog /\ b.publish_pending = r.publish_pending
      /\ b.overlap = r.overlap /\ b.quiet = r.quiet /\ b.last = code
      /\ b.state = r.state /\ b.timer = r.timer /\ b.target_expires = r.target_expires
      /\ b.tx = r.tx
  BY Typing DEF Sane, Proper
<1>3. listener(r, code, reaction) = React(b, reaction)
  BY DEF listener
<1>. HIDE DEF b
<1>4. Sane(b)
  BY <1>1, <1>2 DEF Sane, Proper, InSequence, Hushed, Loud, Transient
<1>5. ~Idle(r) \/ code \in Final => Attended(b) /\ Covered(b)
  BY <1>2 DEF Attended, Covered, Idle, Excused
<1>. QED BY <1>3, <1>4, <1>5, ReactShape

-----------------------------------------------------------------------------
(* The events.                                                             *)

LEMMA RetryShape ==
    ASSUME NEW r, Proper(r), NEW purpose \in {"NORMAL_REFRESH", "RETRY"}
    PROVE  LET d == schedule_timer_at(r, purpose)
           IN /\ Proper(d) /\ ~Idle(d) /\ d.quiet = r.quiet /\ d.state = r.state
              /\ d.tx = r.tx /\ d.target_expires = r.target_expires /\ d.fresh = r.fresh
<1>. DEFINE d == [r EXCEPT !.timer = purpose]
<1>1. purpose \in Timers /\ purpose # "none"
  BY DEF Timers
<1>2. d \in RefresherStates
  BY <1>1, Typing DEF Proper
<1>3. /\ d.dialog = r.dialog /\ d.publish_pending = r.publish_pending
      /\ d.overlap = r.overlap /\ d.quiet = r.quiet /\ d.timer = purpose
      /\ d.state = r.state /\ d.tx = r.tx /\ d.target_expires = r.target_expires
      /\ d.fresh = r.fresh
  BY Typing DEF Proper
<1>4. schedule_timer_at(r, purpose) = d
  BY DEF schedule_timer_at
<1>. HIDE DEF d
<1>. QED BY <1>1, <1>2, <1>3, <1>4 DEF Proper, InSequence, Idle

\* A started refresher retries; a stopped one does not.
LEMMA RetryIfStarted ==
    ASSUME NEW r, Sane(r)
    PROVE  LET d == IF r.state = "started" THEN retry_later(r) ELSE r
           IN Sane(d) /\ ~Idle(d)
<1>1. CASE r.state = "started"
  <2>1. Proper(r) /\ Loud(r)
    BY <1>1 DEF Sane, Hushed
  <2>2. /\ Proper(retry_later(r)) /\ ~Idle(retry_later(r)) /\ retry_later(r).quiet = r.quiet
    BY <2>1, RetryShape DEF retry_later
  <2>. QED BY <1>1, <2>1, <2>2, LoudSane DEF Loud
<1>2. CASE r.state # "started"
  BY <1>2 DEF Idle
<1>. QED BY <1>1, <1>2

\* process_timeout
LEMMA TimeoutShape ==
    ASSUME NEW r, Sane(r), NEW reaction \in Reactions
    PROVE  LET d == process_timeout(r, reaction)
           IN Sane(d) /\ Attended(d) /\ Covered(d)
<1>. DEFINE b == IF r.state = "started" THEN retry_later(r) ELSE r
<1>1. Sane(b) /\ ~Idle(b)
  BY RetryIfStarted
<1>2. process_timeout(r, reaction) = listener(b, 408, reaction)
  BY DEF process_timeout
<1>. HIDE DEF b
<1>. QED BY <1>1, <1>2, ListenerShape, Members

\* process_io_error, from the current transaction, which ends next
LEMMA IoErrorShape ==
    ASSUME NEW r, Sane(r), Attended(r), NEW reaction \in Reactions
    PROVE  LET d == process_io_error(r, reaction)
           IN Sane(d) /\ Attended(d) /\ Covered(d)
<1>. DEFINE b == IF r.state = "started" THEN retry_later(r) ELSE r
            ignored == \/ r.on_io_error
                       \/ r.tx.state = "PROCEEDING"
                             /\ (r.state = "stopped" \/ r.target_expires = 0)
<1>1. Sane(b) /\ ~Idle(b)
  BY RetryIfStarted
<1>2. process_io_error(r, reaction) = IF ignored THEN r ELSE listener(b, 503, reaction)
  BY DEF process_io_error
<1>. HIDE DEF b
<1>3. ignored => Covered(r)
  BY DEF Covered, Idle, Excused
<1>. HIDE DEF ignored
<1>4. LET d == listener(b, 503, reaction) IN Sane(d) /\ Attended(d) /\ Covered(d)
  BY <1>1, ListenerShape, Members
<1>. QED BY <1>2, <1>3, <1>4

\* process_io_error, from the provider
LEMMA ProviderErrorShape ==
    ASSUME NEW r, Sane(r), Attended(r), ~Transient(r), NEW reaction \in Reactions
    PROVE  LET d == process_provider_error(r, reaction)
           IN Sane(d) /\ Attended(d) /\ Covered(d)
<1>. DEFINE b == listener(retry_later(r), 503, reaction)
            d == [b EXCEPT !.on_io_error = TRUE]
<1>1. CASE r.on_io_error \/ r.state = "stopped"
  BY <1>1 DEF process_provider_error, Attended, Covered, Idle
<1>2. CASE ~(r.on_io_error \/ r.state = "stopped")
  <2>1. r.state = "started"
    BY <1>2, Typing DEF Sane, Proper, States
  <2>2. Sane(retry_later(r)) /\ ~Idle(retry_later(r))
    BY <2>1, RetryIfStarted
  <2>3. Sane(b)
    BY <2>2, ListenerShape, Members
  <2>4. process_provider_error(r, reaction) = d
    BY <1>2 DEF process_provider_error
  <2>. HIDE DEF b
  <2>5. d \in RefresherStates
    BY <2>3, Typing, Members DEF Sane, Proper
  <2>6. /\ d.dialog = b.dialog /\ d.publish_pending = b.publish_pending
        /\ d.overlap = b.overlap /\ d.quiet = b.quiet /\ d.on_io_error
        /\ d.state = b.state /\ d.timer = b.timer /\ d.tx = b.tx
    BY <2>3, Typing DEF Sane, Proper
  <2>. HIDE DEF d
  <2>7. Sane(d)
    BY <2>3, <2>5, <2>6 DEF Sane, Proper, InSequence, Hushed, Loud, Transient
  <2>. QED BY <2>4, <2>6, <2>7 DEF Attended, Covered, Excused
<1>. QED BY <1>1, <1>2

\* timer_cb: manual mode reports, otherwise a refresh that fails is retried.
LEMMA TimerShape ==
    ASSUME NEW r, Sane(r), r.timer # "none", NEW cond \in AllConds, NEW reaction \in Reactions
    PROVE  LET d == timer_cb(r, cond, reaction)
           IN Sane(d) /\ Attended(d)
<1>1. Proper(r) /\ Loud(r)
  BY DEF Sane, Hushed
<1>2. CASE r.timer = "NORMAL_REFRESH" /\ manual
  <2>. DEFINE c == cancel_retry(r)
  <2>1. c \in RefresherStates
    BY <1>1, Typing, Members DEF Proper, cancel_retry
  <2>2. /\ c.dialog = r.dialog /\ c.publish_pending = r.publish_pending
        /\ c.overlap = r.overlap /\ c.quiet = r.quiet
    BY <1>1, Typing DEF Proper, cancel_retry
  <2>3. timer_cb(r, cond, reaction) = listener(c, AboutToExpire, reaction)
    BY <1>2 DEF timer_cb
  <2>. HIDE DEF c
  <2>4. Sane(c)
    BY <1>1, <2>1, <2>2, LoudSane DEF Proper, InSequence, Loud
  <2>. QED BY <2>3, <2>4, ListenerShape, Members, FinalMembers
<1>3. CASE ~(r.timer = "NORMAL_REFRESH" /\ manual)
  <2>. DEFINE e == refresh(r, r.target_expires, cond)
  <2>1. r.target_expires \in -1..1
    BY <1>1, Typing DEF Proper, Bits
  <2>2. /\ Proper(e) /\ e.quiet = r.quiet /\ e.ret \in {-1, 0}
        /\ e.ret = 0 => Transient(e)
    BY <1>1, <2>1, RefreshShape
  <2>3. timer_cb(r, cond, reaction) = IF e.ret = -1 THEN retry_later(e) ELSE e
    BY <1>3 DEF timer_cb
  <2>. HIDE DEF e
  <2>4. Sane(e)
    BY <1>1, <2>2, LoudSane DEF Loud
  <2>5. Proper(retry_later(e)) /\ ~Idle(retry_later(e)) /\ retry_later(e).quiet = e.quiet
    BY <2>2, RetryShape DEF retry_later
  <2>6. Sane(retry_later(e))
    BY <1>1, <2>2, <2>5, LoudSane DEF Loud
  <2>. QED BY <2>2, <2>3, <2>4, <2>5, <2>6 DEF Attended
<1>. QED BY <1>2, <1>3

\* The 2xx of process_response_event
LEMMA SuccessShape ==
    ASSUME NEW r, Proper(r), Loud(r), NEW accurate \in BOOLEAN, NEW cond \in AllConds,
           NEW reaction \in Reactions
    PROVE  LET d == Success(r, accurate, cond, reaction)
           IN Sane(d) /\ Attended(d)
<1>. DEFINE g == IF method = "SUBSCRIBE" /\ r.dialog = "none" THEN "CONFIRMED" ELSE r.dialog
            h == [r EXCEPT !.auth_failures = 0, !.target_expires = r.tx.expires, !.dialog = g]
            e == IF h.target_expires = 0 THEN stop(h, cond) ELSE h
            f == method = "SUBSCRIBE"
            k == [e EXCEPT !.first_acknowledged = f]
            x == [k EXCEPT !.contact_fixing = FALSE]
            u == refresh_unchecked(k, cond)
            v == [u EXCEPT !.contact_fixing = TRUE]
<1>1. r \in RefresherStates /\ InSequence(r) /\ r.tx.expires \in Bits
  BY Typing DEF Proper, Transactions
<1>2. g \in Dialogs /\ (method # "SUBSCRIBE" => g = r.dialog)
  BY <1>1, Typing, Members
<1>3. \/ e.state = "stopped" /\ Success(r, accurate, cond, reaction) = listener(e, NoFailure, reaction)
      \/ Success(r, accurate, cond, reaction) \in
            {listener(schedule_timer(k), NoFailure, reaction), v,
             listener(schedule_timer(x), NoFailure, reaction)}
  BY DEF Success
<1>. HIDE DEF g, f
<1>4. h \in RefresherStates
  BY <1>1, <1>2, Typing, Members
<1>5. /\ h.dialog = g /\ h.publish_pending = r.publish_pending
      /\ h.overlap = r.overlap /\ h.quiet = r.quiet
  BY <1>1, Typing
<1>. HIDE DEF h
<1>6. Proper(h) /\ Loud(h)
  BY <1>1, <1>2, <1>4, <1>5 DEF Proper, InSequence, Loud
<1>7. Proper(e) /\ Loud(e)
  BY <1>6, StopShape DEF Loud
<1>. HIDE DEF e
<1>8. k \in RefresherStates
  <2>1. f \in Flags
    BY DEF f, Flags
  <2>. QED BY <1>7, <2>1, Typing DEF Proper
<1>9. /\ k.dialog = e.dialog /\ k.publish_pending = e.publish_pending
      /\ k.overlap = e.overlap /\ k.quiet = e.quiet
  BY <1>7, Typing DEF Proper
<1>. HIDE DEF k
<1>10. Proper(k) /\ Loud(k)
  BY <1>7, <1>8, <1>9 DEF Proper, InSequence, Loud
<1>11. x \in RefresherStates
  BY <1>8, Typing, Members
<1>12. /\ x.dialog = k.dialog /\ x.publish_pending = k.publish_pending
       /\ x.overlap = k.overlap /\ x.quiet = k.quiet
  BY <1>8, Typing
<1>. HIDE DEF x
<1>13. Proper(x) /\ Loud(x)
  BY <1>10, <1>11, <1>12 DEF Proper, InSequence, Loud
<1>14. ASSUME NEW y, Proper(y), Loud(y)
       PROVE  LET d == listener(schedule_timer(y), NoFailure, reaction)
              IN Sane(d) /\ Attended(d)
  <2>1. /\ Proper(schedule_timer(y)) /\ ~Idle(schedule_timer(y))
        /\ schedule_timer(y).quiet = y.quiet
    BY <1>14, RetryShape DEF schedule_timer
  <2>2. Sane(schedule_timer(y))
    BY <1>14, <2>1, LoudSane DEF Loud
  <2>. QED BY <2>1, <2>2, ListenerShape, Members
<1>15. Sane(v) /\ Attended(v)
  <2>1. Proper(u) /\ Attended(u) /\ u.quiet = k.quiet
    BY <1>10, UncheckedShape
  <2>. HIDE DEF u
  <2>2. v \in RefresherStates
    BY <2>1, Typing, Members DEF Proper
  <2>3. /\ v.dialog = u.dialog /\ v.publish_pending = u.publish_pending
        /\ v.overlap = u.overlap /\ v.quiet = u.quiet /\ v.last = u.last
        /\ v.state = u.state /\ v.timer = u.timer /\ v.target_expires = u.target_expires
        /\ v.tx = u.tx /\ v.on_io_error = u.on_io_error
    BY <2>1, Typing DEF Proper
  <2>. HIDE DEF v
  <2>4. Attended(v)
    BY <2>1, <2>3 DEF Attended, Idle, Excused, Transient
  <2>5. Sane(v)
    BY <1>10, <2>1, <2>2, <2>3, LoudSane DEF Proper, InSequence, Loud
  <2>. QED BY <2>4, <2>5
<1>16. e.state = "stopped" =>
         LET d == listener(e, NoFailure, reaction) IN Sane(d) /\ Attended(d)
  BY <1>7, LoudSane, ListenerShape, Members DEF Idle
<1>17. LET d == listener(schedule_timer(k), NoFailure, reaction) IN Sane(d) /\ Attended(d)
  BY <1>10, <1>14
<1>18. LET d == listener(schedule_timer(x), NoFailure, reaction) IN Sane(d) /\ Attended(d)
  BY <1>13, <1>14
<1>. HIDE DEF v
<1>. QED BY <1>3, <1>15, <1>16, <1>17, <1>18

\* A request sent again at once, after a redirection or a challenge
LEMMA ResubmitShape ==
    ASSUME NEW r, Proper(r), Loud(r), NEW t \in Bits, NEW auth \in BOOLEAN, NEW cond \in AllConds
    PROVE  LET e == refresh_internal(r, t, auth, cond)
           IN Sane(e) /\ (e.ret = 0 => Attended(e))
<1>1. t \in -1..1
  BY DEF Bits
<1>2. LET e == refresh_internal(r, t, auth, cond)
      IN Proper(e) /\ e.quiet = r.quiet /\ (e.ret = 0 => Transient(e))
  BY <1>1, RefreshInternalShape
<1>. QED BY <1>2, LoudSane DEF Loud, Attended

\* The other final answers: each is retried, sent again at once, or reported
\* with a code of Final.
LEMMA FailureShape ==
    ASSUME NEW r, Proper(r), Loud(r), NEW code \in Codes, code >= 300,
           NEW header \in BOOLEAN, NEW cond \in AllConds, NEW reaction \in Reactions
    PROVE  LET d == Failure(r, code, header, cond, reaction)
           IN Sane(d) /\ Attended(d)
<1>. DEFINE wanted == r.target_expires > 0
            later == IF wanted THEN retry_later(r) ELSE r
            yes == TRUE
            t == r.target_expires
            resubmitted == refresh_internal(r, t, yes, cond)
            challenged == [r EXCEPT !.auth_failures = 1]
            answered == refresh_internal(challenged, t, yes, cond)
            forgiven == [later EXCEPT !.auth_failures = 0]
            aimed == [r EXCEPT !.target_expires = 1]
            d == Failure(r, code, header, cond, reaction)
            told == listener(r, code, reaction)
            retold == listener(later, code, reaction)
            moved == IF ~header THEN told
                     ELSE IF resubmitted.ret = 0 THEN resubmitted
                     ELSE listener(resubmitted, code, reaction)
            authorized == IF r.auth_failures > 0 THEN listener(forgiven, code, reaction)
                          ELSE IF answered.ret = 0 THEN answered
                          ELSE listener(answered, code, reaction)
            lengthened == IF header /\ r.state = "started" THEN refresh_unchecked(aimed, cond)
                          ELSE told
            postponed == IF wanted /\ header THEN later ELSE told
            publication == method = "PUBLISH"
<1>a. d = CASE code \in {301, 302} -> moved
            [] code \in {401, 407} -> authorized
            [] code = 412 /\ publication /\ wanted -> later
            [] code = 423 -> lengthened
            [] code = 491 /\ wanted -> later
            [] code \in {404, 480, 500} -> postponed
            [] code >= 600 -> told
            [] OTHER -> retold
  BY DEF Failure
<1>b. /\ code \in {301, 302} => d = moved
      /\ code \in {401, 407} => d = authorized
      /\ code = 423 => d = lengthened
      /\ code \in {404, 480, 500} => d = postponed
      /\ code >= 600 => d = told
      /\ code \in {412, 491} => d = later \/ d = retold
      /\ code \notin {301, 302, 401, 407, 412, 423, 491, 404, 480, 500} /\ ~(code >= 600)
            => d = retold
  <2>1. code \in Int
    BY CodesAssumption
  <2>. HIDE DEF moved, authorized, lengthened, postponed, later, told, retold, wanted,
                publication, d
  <2>. QED BY <1>a, <2>1
<1>1. r \in RefresherStates /\ Sane(r) /\ r.target_expires \in Bits
  BY LoudSane, Typing DEF Proper
<1>2. code \in Outcomes /\ code \in Nat
  BY CodesAssumption DEF Outcomes
<1>3. Proper(later) /\ Loud(later) /\ ~Idle(later) /\ Sane(later)
  <2>1. CASE wanted
    <3>1. /\ Proper(retry_later(r)) /\ ~Idle(retry_later(r)) /\ retry_later(r).quiet = r.quiet
      BY RetryShape DEF retry_later
    <3>. QED BY <2>1, <3>1, LoudSane DEF Loud
  <2>2. CASE ~wanted
    BY <1>1, <2>2 DEF Idle
  <2>. QED BY <2>1, <2>2
<1>4. ASSUME NEW y, Proper(y), Loud(y)
      PROVE  LET e == refresh_internal(y, t, yes, cond)
             IN Sane(e) /\ (e.ret = 0 => Attended(e))
  <2>1. t \in Bits /\ yes \in BOOLEAN
    BY <1>1
  <2>. HIDE DEF yes, t
  <2>. QED BY <1>4, <2>1, ResubmitShape
<1>5. Proper(challenged) /\ Loud(challenged)
  <2>1. challenged \in RefresherStates
    BY <1>1, Typing, Members
  <2>2. /\ challenged.dialog = r.dialog /\ challenged.publish_pending = r.publish_pending
        /\ challenged.overlap = r.overlap /\ challenged.quiet = r.quiet
    BY <1>1, Typing
  <2>. HIDE DEF challenged
  <2>. QED BY <2>1, <2>2 DEF Proper, InSequence, Loud
<1>6. Sane(forgiven) /\ ~Idle(forgiven)
  <2>. HIDE DEF later
  <2>1. forgiven \in RefresherStates
    BY <1>3, Typing, Members DEF Proper
  <2>2. /\ forgiven.dialog = later.dialog /\ forgiven.publish_pending = later.publish_pending
        /\ forgiven.overlap = later.overlap /\ forgiven.quiet = later.quiet
        /\ forgiven.state = later.state /\ forgiven.timer = later.timer
        /\ forgiven.target_expires = later.target_expires
    BY <1>3, Typing DEF Proper
  <2>. HIDE DEF forgiven
  <2>. QED BY <1>3, <2>1, <2>2, LoudSane DEF Proper, InSequence, Loud, Idle
<1>7. Proper(aimed) /\ Loud(aimed)
  <2>1. aimed \in RefresherStates
    BY <1>1, Typing, Members
  <2>2. /\ aimed.dialog = r.dialog /\ aimed.publish_pending = r.publish_pending
        /\ aimed.overlap = r.overlap /\ aimed.quiet = r.quiet
    BY <1>1, Typing
  <2>. HIDE DEF aimed
  <2>. QED BY <2>1, <2>2 DEF Proper, InSequence, Loud
<1>8. CASE code \in {301, 302}
  <2>1. d = moved
    BY <1>b, <1>8
  <2>2. Sane(resubmitted) /\ (resubmitted.ret = 0 => Attended(resubmitted))
    BY <1>4
  <2>. HIDE DEF resubmitted, d
  <2>3. ASSUME NEW y, Sane(y)
        PROVE  LET e == listener(y, code, reaction) IN Sane(e) /\ Attended(e)
    BY <1>2, <1>8, <2>3, ListenerShape, FinalMembers
  <2>. QED BY <1>1, <2>1, <2>2, <2>3 DEF d
<1>9. CASE code \in {401, 407}
  <2>1. d = authorized
    BY <1>b, <1>9
  <2>2. Sane(answered) /\ (answered.ret = 0 => Attended(answered))
    <3>. HIDE DEF challenged
    <3>. QED BY <1>4, <1>5
  <2>. HIDE DEF answered, forgiven, d
  <2>3. ASSUME NEW y, Sane(y)
        PROVE  LET e == listener(y, code, reaction) IN Sane(e) /\ Attended(e)
    BY <1>2, <1>9, <2>3, ListenerShape, FinalMembers
  <2>. QED BY <1>6, <2>1, <2>2, <2>3 DEF d
<1>10. CASE code = 423
  <2>1. d = lengthened
    BY <1>b, <1>10
  <2>. HIDE DEF aimed
  <2>2. LET e == refresh_unchecked(aimed, cond) IN Sane(e) /\ Attended(e)
    BY <1>7, UncheckedShape, LoudSane DEF Loud
  <2>3. LET e == listener(r, code, reaction) IN Sane(e) /\ Attended(e)
    BY <1>1, <1>2, <1>10, ListenerShape, FinalMembers
  <2>. QED BY <2>1, <2>2, <2>3
<1>11. Sane(told) /\ (code \in Final => Attended(told))
  BY <1>1, <1>2, ListenerShape
<1>12. Sane(retold) /\ Attended(retold)
  <2>. HIDE DEF later
  <2>. QED BY <1>2, <1>3, ListenerShape
<1>13. Attended(later)
  BY <1>3 DEF Attended
<1>14. CASE code \in {404, 480, 500}
  <2>1. d = postponed
    BY <1>b, <1>14
  <2>2. code \in Final
    BY <1>14, FinalMembers
  <2>. HIDE DEF later, told, d
  <2>. QED BY <1>3, <1>11, <1>13, <2>1, <2>2 DEF d
<1>15. CASE code >= 600
  <2>1. d = told
    BY <1>b, <1>15
  <2>. QED BY <1>11, <1>15, <2>1, FinalMembers
<1>16. CASE code \in {412, 491}
  <2>1. d = later \/ d = retold
    BY <1>b, <1>16
  <2>. HIDE DEF later, retold, d
  <2>. QED BY <1>3, <1>12, <1>13, <2>1 DEF d
<1>17. CASE code \notin {301, 302, 401, 407, 412, 423, 491, 404, 480, 500} /\ ~(code >= 600)
  <2>1. d = retold
    BY <1>b, <1>17
  <2>. QED BY <1>12, <2>1
<1>. QED BY <1>8, <1>9, <1>10, <1>14, <1>15, <1>16, <1>17

-----------------------------------------------------------------------------
(* The events.                                                             *)

\* The end of the current transaction leaves a refresher attended when a
\* delayed publication, a timer or a reported failure takes over.
LEMMA EndShape ==
    ASSUME NEW r, Sane(r), Attended(r), Covered(r), ~r.fresh, NEW cond \in AllConds
    PROVE  LET d == terminate(r, cond)
           IN Sane(d) /\ Attended(d)
<1>. DEFINE d == terminate(r, cond)
<1>1. /\ Proper(d) /\ d.quiet = r.quiet /\ Attended(d)
      /\ method # "PUBLISH" => /\ d.state = r.state /\ d.timer = r.timer
                               /\ d.tx.state = "TERMINATED"
  BY TerminateShape DEF Sane
<1>. HIDE DEF d
<1>2. Hushed(d)
  BY <1>1 DEF Sane, Hushed, Loud, Transient
<1>3. Sane(d) /\ Attended(d)
  BY <1>1, <1>2 DEF Sane
<1>. QED BY <1>3 DEF d

LEMMA HandleShape ==
    ASSUME NEW d, Sane(d), Attended(d), method \in Methods, manual \in BOOLEAN, Handle(d)
    PROVE  IInv'
<1>. DEFINE x == [d EXCEPT !.ret = 0]
<1>1. d \in RefresherStates
  BY DEF Sane, Proper
<1>2. x \in RefresherStates
  BY <1>1, Typing, Members
<1>3. /\ x.dialog = d.dialog /\ x.publish_pending = d.publish_pending /\ x.overlap = d.overlap
      /\ x.quiet = d.quiet /\ x.last = d.last /\ x.on_io_error = d.on_io_error
      /\ x.state = d.state /\ x.timer = d.timer /\ x.target_expires = d.target_expires
      /\ x.tx = d.tx
  BY <1>1, Typing
<1>4. w' = x /\ method' = method /\ manual' = manual
  BY DEF Handle
<1>. HIDE DEF x
<1>5. Sane(x) /\ Attended(x)
  BY <1>2, <1>3 DEF Sane, Proper, InSequence, Hushed, Loud, Attended, Idle, Excused, Transient
<1>6. Sane(w)'
  BY <1>4, <1>5 DEF Sane, Proper, InSequence, Hushed, Loud, Transient
<1>7. Attended(w)'
  BY <1>4, <1>5 DEF Attended, Idle, Excused, Transient, Final
<1>. QED BY <1>4, <1>6, <1>7 DEF IInv

\* An event finds the refresher as it is, and the fields that it sets before
\* it is handled are those of the transaction and of the channel.
LEMMA NowShape ==
    ASSUME IInv, NEW t \in Transactions, NEW l \in Flags
    PROVE  LET n == [Now EXCEPT !.tx = t, !.learnt = l]
           IN /\ n \in RefresherStates /\ ~n.fresh /\ n.tx = t /\ Proper(n)
              /\ n.state = w.state /\ n.timer = w.timer /\ n.target_expires = w.target_expires
              /\ n.quiet = w.quiet /\ n.last = w.last /\ n.on_io_error = w.on_io_error
              /\ n.dialog = w.dialog
<1>. DEFINE n == [Now EXCEPT !.tx = t, !.learnt = l]
            no == FALSE
<1>1. w \in RefresherStates /\ no \in Flags
  BY Members DEF IInv, Sane, Proper
<1>2. Now = [w EXCEPT !.fresh = no] /\ ~no
  BY DEF Now
<1>. HIDE DEF no
<1>3. Now \in RefresherStates
  BY <1>1, <1>2, Typing
<1>4. /\ Now.fresh = no
      /\ Now.state = w.state /\ Now.timer = w.timer /\ Now.target_expires = w.target_expires
      /\ Now.quiet = w.quiet /\ Now.last = w.last /\ Now.on_io_error = w.on_io_error
      /\ Now.dialog = w.dialog /\ Now.publish_pending = w.publish_pending
      /\ Now.overlap = w.overlap
  BY <1>1, <1>2, Typing
<1>5. n \in RefresherStates
  BY <1>3, Typing
<1>6. /\ n.fresh = Now.fresh /\ n.tx = t
      /\ n.state = Now.state /\ n.timer = Now.timer /\ n.target_expires = Now.target_expires
      /\ n.quiet = Now.quiet /\ n.last = Now.last /\ n.on_io_error = Now.on_io_error
      /\ n.dialog = Now.dialog /\ n.publish_pending = Now.publish_pending
      /\ n.overlap = Now.overlap
  BY <1>3, Typing
<1>. HIDE DEF n
<1>7. Proper(n)
  BY <1>4, <1>5, <1>6 DEF IInv, Sane, Proper, InSequence
<1>8. /\ n \in RefresherStates /\ ~n.fresh /\ n.tx = t /\ Proper(n)
      /\ n.state = w.state /\ n.timer = w.timer /\ n.target_expires = w.target_expires
      /\ n.quiet = w.quiet /\ n.last = w.last /\ n.on_io_error = w.on_io_error
      /\ n.dialog = w.dialog
  BY <1>2, <1>4, <1>5, <1>6, <1>7
<1>. QED BY <1>8 DEF n

\* The transaction stays in its state.
LEMMA SteadyShape ==
    ASSUME IInv, NEW t \in Transactions, NEW l \in Flags, t.state = w.tx.state
    PROVE  LET n == [Now EXCEPT !.tx = t, !.learnt = l]
           IN /\ Sane(n) /\ Attended(n) /\ ~n.fresh /\ n.tx = t /\ n.timer = w.timer
              /\ ~Transient(n) => Covered(n)
<1>. DEFINE n == [Now EXCEPT !.tx = t, !.learnt = l]
<1>1. /\ n \in RefresherStates /\ ~n.fresh /\ n.tx = t /\ Proper(n)
      /\ n.state = w.state /\ n.timer = w.timer /\ n.target_expires = w.target_expires
      /\ n.quiet = w.quiet /\ n.last = w.last /\ n.on_io_error = w.on_io_error
  BY NowShape
<1>. HIDE DEF n
<1>2. Hushed(n)
  BY <1>1 DEF IInv, Sane, Hushed, Loud, Transient
<1>3. Attended(n) /\ (~Transient(n) => Covered(n))
  BY <1>1 DEF IInv, Attended, Covered, Idle, Excused, Transient
<1>4. /\ Sane(n) /\ Attended(n) /\ ~n.fresh /\ n.tx = t /\ n.timer = w.timer
      /\ ~Transient(n) => Covered(n)
  BY <1>1, <1>2, <1>3 DEF Sane
<1>. QED BY <1>4 DEF n

\* The transaction was under way, so the application has not stopped it.
LEMMA LiveShape ==
    ASSUME IInv, NEW t \in Transactions, NEW l \in Flags, Transient(w)
    PROVE  LET n == [Now EXCEPT !.tx = t, !.learnt = l]
           IN Proper(n) /\ Loud(n) /\ n.tx = t
<1>. DEFINE n == [Now EXCEPT !.tx = t, !.learnt = l]
<1>1. n.tx = t /\ Proper(n) /\ n.quiet = w.quiet
  BY NowShape
<1>2. Loud(w)
  BY DEF IInv, Sane, Hushed
<1>. HIDE DEF n
<1>3. Proper(n) /\ Loud(n) /\ n.tx = t
  BY <1>1, <1>2 DEF Loud
<1>. QED BY <1>3 DEF n

LEMMA NowTyped ==
    ASSUME IInv
    PROVE  /\ w \in RefresherStates /\ Now \in RefresherStates
           /\ w.tx \in Transactions /\ w.learnt \in Flags
           /\ Now.tx = w.tx /\ Now.learnt = w.learnt
           /\ w.tx.channel \in Flags /\ w.tx.timed_out \in Flags /\ w.tx.unknown \in Flags
<1>. DEFINE no == FALSE
<1>1. w \in RefresherStates /\ no \in Flags
  BY Members DEF IInv, Sane, Proper
<1>2. Now = [w EXCEPT !.fresh = no]
  BY DEF Now
<1>. HIDE DEF no
<1>3. Now \in RefresherStates
  BY <1>1, <1>2, Typing
<1>4. w.tx \in Transactions /\ w.learnt \in Flags /\ Now.tx = w.tx /\ Now.learnt = w.learnt
  BY <1>1, <1>2, Typing
<1>5. w.tx.channel \in Flags /\ w.tx.timed_out \in Flags /\ w.tx.unknown \in Flags
  BY <1>4 DEF Transactions
<1>. QED BY <1>1, <1>3, <1>4, <1>5

LEMMA Unmoved ==
    ASSUME IInv
    PROVE  /\ Now = [Now EXCEPT !.tx = w.tx, !.learnt = w.learnt]
           /\ \A l : [Now EXCEPT !.learnt = l] = [Now EXCEPT !.tx = w.tx, !.learnt = l]
           /\ \A s, l : [Now EXCEPT !.tx.state = s, !.learnt = l]
                          = [Now EXCEPT !.tx = [w.tx EXCEPT !.state = s], !.learnt = l]
<1>1. Now \in RefresherStates /\ Now.tx = w.tx /\ Now.learnt = w.learnt
  BY NowTyped
<1>. HIDE DEF Now
<1>2. Now = [Now EXCEPT !.tx = w.tx, !.learnt = w.learnt]
  BY <1>1, Typing
<1>3. ASSUME NEW l PROVE [Now EXCEPT !.learnt = l] = [Now EXCEPT !.tx = w.tx, !.learnt = l]
  BY <1>1, Typing
<1>4. ASSUME NEW s, NEW l
      PROVE  [Now EXCEPT !.tx.state = s, !.learnt = l]
                 = [Now EXCEPT !.tx = [w.tx EXCEPT !.state = s], !.learnt = l]
  BY <1>1, Typing
<1>. QED BY <1>2, <1>3, <1>4

LEMMA NowSane ==
    ASSUME IInv
    PROVE  /\ Sane(Now) /\ Attended(Now) /\ ~Now.fresh /\ Now.tx = w.tx /\ Now.timer = w.timer
           /\ ~Transient(Now) => Covered(Now)
<1>. DEFINE t == w.tx
            l == w.learnt
            n == [Now EXCEPT !.tx = t, !.learnt = l]
<1>1. t \in Transactions /\ l \in Flags /\ t.state = w.tx.state
  BY NowTyped
<1>2. Now = n /\ t = w.tx
  BY Unmoved
<1>. HIDE DEF t, l
<1>3. /\ Sane(n) /\ Attended(n) /\ ~n.fresh /\ n.tx = t /\ n.timer = w.timer
      /\ ~Transient(n) => Covered(n)
  BY <1>1, SteadyShape
<1>. HIDE DEF n
<1>. QED BY <1>2, <1>3

LEMMA CallStep ==
    ASSUME IInv, CallRefresh \/ CallStop
    PROVE  IInv'
<1>1. Proper(Now) /\ method \in Methods /\ manual \in BOOLEAN
  BY NowSane DEF IInv, Sane
<1>2. CASE CallRefresh
  <2>1. PICK expires \in -1..1, cond \in Conds : Handle(AppRefresh(Now, expires, cond))
    BY <1>2 DEF CallRefresh, REUSE_EXPIRES
  <2>. DEFINE d == AppRefresh(Now, expires, cond)
  <2>2. Sane(d) /\ Attended(d)
    BY <1>1, CondsKnown, AppRefreshShape
  <2>3. Handle(d)
    BY <2>1
  <2>. HIDE DEF d
  <2>. QED BY <1>1, <2>2, <2>3, HandleShape
<1>3. CASE CallStop
  <2>1. PICK cond \in DelayedConds : Handle(AppStop(Now, cond))
    BY <1>3 DEF CallStop
  <2>. DEFINE d == AppStop(Now, cond)
  <2>2. Sane(d) /\ Attended(d)
    BY <1>1, CondsKnown, AppStopShape DEF Attended, Idle
  <2>3. Handle(d)
    BY <2>1
  <2>. HIDE DEF d
  <2>. QED BY <1>1, <2>2, <2>3, HandleShape
<1>. QED BY <1>2, <1>3

\* A final answer finds the refresher with its transaction completed.
LEMMA AnsweredShape ==
    ASSUME IInv, w.tx.state \in {"TRYING", "PROCEEDING"}
    PROVE  Proper(Answered) /\ Loud(Answered)
<1>. DEFINE yes == TRUE
            s == "COMPLETED"
            t == [w.tx EXCEPT !.state = s]
            n == [Now EXCEPT !.tx = t, !.learnt = yes]
<1>1. Transient(w)
  BY DEF Transient
<1>2. Answered = [Now EXCEPT !.tx.state = s, !.learnt = yes] /\ yes \in Flags
  BY Members DEF Answered
<1>3. t \in Transactions
  BY NowTyped, Members DEF Transactions
<1>. HIDE DEF yes, s
<1>4. Answered = n
  BY <1>2, NowTyped, Typing
<1>. HIDE DEF t
<1>5. Proper(n) /\ Loud(n)
  BY <1>1, <1>2, <1>3, LiveShape
<1>. HIDE DEF n
<1>. QED BY <1>4, <1>5

LEMMA AnswerStep ==
    ASSUME IInv, ProcessSuccess \/ ProcessFailure
    PROVE  IInv'
<1>1. /\ Proper(Answered) /\ Loud(Answered) /\ method \in Methods /\ manual \in BOOLEAN
  BY AnsweredShape DEF ProcessSuccess, ProcessFailure, IInv
<1>2. CASE ProcessSuccess
  <2>1. PICK accurate \in BOOLEAN, cond \in Conds, reaction \in Reactions :
           Handle(Success(Answered, accurate, cond, reaction))
    BY <1>2 DEF ProcessSuccess
  <2>. DEFINE d == Success(Answered, accurate, cond, reaction)
  <2>2. Sane(d) /\ Attended(d)
    BY <1>1, CondsKnown, SuccessShape
  <2>3. Handle(d)
    BY <2>1
  <2>. HIDE DEF d
  <2>. QED BY <1>1, <2>2, <2>3, HandleShape
<1>3. CASE ProcessFailure
  <2>a. PICK code \in {c \in Codes : c >= 300}, reaction \in Reactions :
           \E header \in IF code \in {301, 302, 404, 423, 480, 500} THEN BOOLEAN ELSE {FALSE},
              cond \in IF code \in {301, 302, 401, 407, 423} THEN Conds \cup {"nocreds"}
                       ELSE {"ready"} :
                 Handle(Failure(Answered, code, header, cond, reaction))
    BY <1>3 DEF ProcessFailure
  <2>. DEFINE H == IF code \in {301, 302, 404, 423, 480, 500} THEN BOOLEAN ELSE {FALSE}
              C == IF code \in {301, 302, 401, 407, 423} THEN Conds \cup {"nocreds"}
                   ELSE {"ready"}
  <2>b. H \subseteq BOOLEAN
    OBVIOUS
  <2>c. C \subseteq AllConds
    BY CondsKnown DEF AllConds
  <2>1. PICK header \in H, cond \in C : Handle(Failure(Answered, code, header, cond, reaction))
    BY <2>a
  <2>. HIDE DEF H, C
  <2>2. header \in BOOLEAN /\ cond \in AllConds
    BY <2>b, <2>c
  <2>. DEFINE d == Failure(Answered, code, header, cond, reaction)
  <2>3. Sane(d) /\ Attended(d)
    BY <1>1, <2>2, FailureShape
  <2>4. Handle(d)
    BY <2>1
  <2>. HIDE DEF d
  <2>. QED BY <1>1, <2>3, <2>4, HandleShape
<1>. QED BY <1>2, <1>3

LEMMA ProgressStep ==
    ASSUME IInv, Provisional \/ ChannelReady
    PROVE  IInv'
<1>1. w.tx \in Transactions /\ w.learnt \in Flags /\ method \in Methods /\ manual \in BOOLEAN
  BY NowTyped DEF IInv
<1>2. CASE Provisional
  <2>. DEFINE yes == TRUE
              s == "PROCEEDING"
              t == [w.tx EXCEPT !.state = s]
              n == [Now EXCEPT !.tx = t, !.learnt = yes]
              m == [Now EXCEPT !.tx.state = s, !.learnt = yes]
  <2>1. PICK reaction \in Reactions : Handle(React(m, reaction))
    BY <1>2 DEF Provisional
  <2>2. Transient(w) /\ yes \in Flags
    BY <1>2, Members DEF Provisional, Transient
  <2>3. t \in Transactions /\ t.state = "PROCEEDING"
    BY NowTyped, Members DEF Transactions
  <2>. HIDE DEF yes, s
  <2>4. m = n
    BY NowTyped, Typing
  <2>. HIDE DEF t
  <2>5. Proper(n) /\ Loud(n) /\ n.tx = t
    BY <2>2, <2>3, LiveShape
  <2>. HIDE DEF n, m
  <2>6. Sane(n) /\ Attended(n)
    BY <2>3, <2>5, LoudSane DEF Attended, Transient
  <2>. DEFINE d == React(n, reaction)
  <2>7. Sane(d) /\ Attended(d)
    BY <2>6, ReactShape
  <2>8. Handle(d)
    BY <2>1, <2>4
  <2>. HIDE DEF d
  <2>. QED BY <1>1, <2>7, <2>8, HandleShape
<1>3. CASE ChannelReady
  <2>. DEFINE s == "TRYING"
              u == method # "PUBLISH" /\ ~w.learnt
              t == [w.tx EXCEPT !.state = s, !.unknown = u]
              l == w.learnt
              n == [Now EXCEPT !.tx = t, !.learnt = l]
              m == [Now EXCEPT !.tx.state = s, !.tx.unknown = u]
  <2>1. Handle(m)
    BY <1>3 DEF ChannelReady
  <2>2. Transient(w) /\ u \in Flags /\ s \in TxStates /\ s = "TRYING"
    BY <1>3, Members DEF ChannelReady, Transient, Flags
  <2>. HIDE DEF s, u
  <2>3. t \in Transactions /\ t.state = "TRYING"
    BY <1>1, <2>2 DEF Transactions
  <2>4. m = n
    BY NowTyped, Typing
  <2>. HIDE DEF t
  <2>5. Proper(n) /\ Loud(n) /\ n.tx = t
    BY <1>1, <2>2, <2>3, LiveShape
  <2>. HIDE DEF n, m
  <2>6. Sane(n) /\ Attended(n)
    BY <2>3, <2>5, LoudSane DEF Attended, Transient
  <2>. QED BY <1>1, <2>1, <2>4, <2>6, HandleShape
<1>. QED BY <1>2, <1>3

LEMMA EndStep ==
    ASSUME IInv, TransactionEnds
    PROVE  IInv'
<1>1. method \in Methods /\ manual \in BOOLEAN
  BY DEF IInv
<1>2. PICK cond \in DelayedConds : Handle(terminate(Now, cond))
  BY DEF TransactionEnds
<1>. DEFINE d == terminate(Now, cond)
<1>3. Sane(Now) /\ Attended(Now) /\ ~Now.fresh /\ Covered(Now)
  BY NowSane DEF TransactionEnds, Transient
<1>4. Sane(d) /\ Attended(d)
  BY <1>3, CondsKnown, EndShape
<1>5. Handle(d)
  BY <1>2
<1>. HIDE DEF d
<1>. QED BY <1>1, <1>4, <1>5, HandleShape

LEMMA TimerStep ==
    ASSUME IInv, TimerCb
    PROVE  IInv'
<1>1. method \in Methods /\ manual \in BOOLEAN
  BY DEF IInv
<1>2. PICK cond \in Conds, reaction \in Reactions : Handle(timer_cb(Now, cond, reaction))
  BY DEF TimerCb
<1>. DEFINE d == timer_cb(Now, cond, reaction)
<1>3. Sane(Now) /\ Now.timer # "none"
  BY NowSane DEF TimerCb
<1>4. Sane(d) /\ Attended(d)
  BY <1>3, CondsKnown, TimerShape
<1>5. Handle(d)
  BY <1>2
<1>. HIDE DEF d
<1>. QED BY <1>1, <1>4, <1>5, HandleShape

LEMMA TimeoutStep ==
    ASSUME IInv, TransactionTimeout
    PROVE  IInv'
<1>1. w.tx \in Transactions /\ w.learnt \in Flags /\ method \in Methods /\ manual \in BOOLEAN
  BY NowTyped DEF IInv
<1>2. ASSUME NEW cond \in DelayedConds, NEW reaction \in Reactions,
             LET told == process_timeout(Now, reaction)
             IN Handle(IF told.fresh THEN told ELSE terminate(told, cond))
      PROVE  IInv'
  <2>. DEFINE told == process_timeout(Now, reaction)
              d == IF told.fresh THEN told ELSE terminate(told, cond)
  <2>1. Handle(d)
    BY <1>2
  <2>2. Sane(told) /\ Attended(told) /\ Covered(told)
    BY NowSane, TimeoutShape
  <2>. HIDE DEF told
  <2>3. Sane(d) /\ Attended(d)
    BY <2>2, CondsKnown, EndShape
  <2>. HIDE DEF d
  <2>. QED BY <1>1, <2>1, <2>3, HandleShape
<1>3. ASSUME Handle([Now EXCEPT !.tx.timed_out = TRUE])
      PROVE  IInv'
  <2>. DEFINE yes == TRUE
              t == [w.tx EXCEPT !.timed_out = yes]
              l == w.learnt
              n == [Now EXCEPT !.tx = t, !.learnt = l]
              m == [Now EXCEPT !.tx.timed_out = yes]
  <2>1. Handle(m)
    BY <1>3
  <2>2. yes \in Flags
    BY Members
  <2>. HIDE DEF yes
  <2>3. t \in Transactions /\ t.state = w.tx.state
    BY <1>1, <2>2 DEF Transactions
  <2>4. m = n
    BY NowTyped, Typing
  <2>. HIDE DEF t
  <2>5. Sane(n) /\ Attended(n)
    BY <1>1, <2>3, SteadyShape
  <2>. HIDE DEF n, m
  <2>. QED BY <1>1, <2>1, <2>4, <2>5, HandleShape
<1>. QED BY <1>2, <1>3 DEF TransactionTimeout

\* The transaction without its channel
LEMMA UnboundShape ==
    ASSUME NEW r, Sane(r), Attended(r)
    PROVE  LET d == [r EXCEPT !.tx.channel = FALSE]
           IN Sane(d) /\ Attended(d)
<1>. DEFINE no == FALSE
            t == [r.tx EXCEPT !.channel = no]
            d == [r EXCEPT !.tx.channel = no]
<1>1. r \in RefresherStates /\ no \in Flags
  BY Members DEF Sane, Proper
<1>. HIDE DEF no
<1>2. r.tx \in Transactions
  BY <1>1, Typing
<1>3. t \in Transactions /\ t.state = r.tx.state
  BY <1>1, <1>2 DEF Transactions
<1>4. d = [r EXCEPT !.tx = t]
  BY <1>1, Typing
<1>. HIDE DEF t, d
<1>5. d \in RefresherStates
  BY <1>1, <1>3, <1>4, Typing
<1>6. /\ d.dialog = r.dialog /\ d.publish_pending = r.publish_pending /\ d.overlap = r.overlap
      /\ d.quiet = r.quiet /\ d.last = r.last /\ d.on_io_error = r.on_io_error
      /\ d.state = r.state /\ d.timer = r.timer /\ d.target_expires = r.target_expires
      /\ d.tx = t
  BY <1>1, <1>4, Typing
<1>7. Sane(d) /\ Attended(d)
  BY <1>3, <1>5, <1>6
     DEF Sane, Proper, InSequence, Hushed, Loud, Attended, Idle, Excused, Transient
<1>. QED BY <1>7 DEF d, no

LEMMA LossStep ==
    ASSUME IInv, ChannelLost
    PROVE  IInv'
<1>. DEFINE no == FALSE
            tx == w.tx
            r == [Now EXCEPT !.learnt = no]
            n == [Now EXCEPT !.tx = tx, !.learnt = no]
<1>1. /\ tx \in Transactions /\ no \in Flags /\ tx.state = w.tx.state
      /\ method \in Methods /\ manual \in BOOLEAN
  BY NowTyped, Members DEF IInv
<1>2. PICK cond \in DelayedConds, reaction, second \in Reactions :
         LET told == IF r.tx.state = "TERMINATED" THEN process_provider_error(r, reaction)
                     ELSE IF Transient(r) THEN process_io_error(r, reaction)
                     ELSE r
             expired == IF r.tx.timed_out /\ ~told.fresh THEN process_timeout(told, second)
                        ELSE told
             ended == IF expired.fresh THEN expired ELSE terminate(expired, cond)
         IN /\ r.tx.timed_out \/ second = reaction
            /\ Handle(IF ended.fresh THEN ended ELSE [ended EXCEPT !.tx.channel = FALSE])
  BY Zenon DEF ChannelLost
<1>. HIDE DEF no
<1>3. r = n
  BY NowTyped, Typing
<1>. HIDE DEF tx
<1>4. /\ Sane(n) /\ Attended(n) /\ ~n.fresh
      /\ ~Transient(n) => Covered(n)
  BY <1>1, SteadyShape
<1>. HIDE DEF n, r
<1>. DEFINE told == IF r.tx.state = "TERMINATED" THEN process_provider_error(r, reaction)
                    ELSE IF Transient(r) THEN process_io_error(r, reaction)
                    ELSE r
            expired == IF r.tx.timed_out /\ ~told.fresh THEN process_timeout(told, second)
                       ELSE told
            ended == IF expired.fresh THEN expired ELSE terminate(expired, cond)
            d == IF ended.fresh THEN ended ELSE [ended EXCEPT !.tx.channel = FALSE]
<1>5. Handle(d)
  BY <1>2
<1>6. Sane(told) /\ Attended(told) /\ Covered(told)
  <2>1. CASE r.tx.state = "TERMINATED"
    <3>1. ~Transient(r)
      BY <2>1 DEF Transient
    <3>. QED BY <1>3, <1>4, <2>1, <3>1, ProviderErrorShape
  <2>2. CASE r.tx.state # "TERMINATED" /\ Transient(r)
    BY <1>3, <1>4, <2>2, IoErrorShape
  <2>3. CASE r.tx.state # "TERMINATED" /\ ~Transient(r)
    BY <1>3, <1>4, <2>3
  <2>. QED BY <2>1, <2>2, <2>3
<1>. HIDE DEF told
<1>7. Sane(expired) /\ Attended(expired) /\ Covered(expired)
  BY <1>6, TimeoutShape
<1>. HIDE DEF expired
<1>8. Sane(ended) /\ Attended(ended)
  BY <1>7, CondsKnown, EndShape
<1>. HIDE DEF ended
<1>9. Sane(d) /\ Attended(d)
  BY <1>8, UnboundShape
<1>. HIDE DEF d
<1>. QED BY <1>1, <1>5, <1>9, HandleShape

LEMMA DialogStep ==
    ASSUME IInv, DialogEnds
    PROVE  IInv'
<1>. DEFINE r == [Now EXCEPT !.dialog = "TERMINATED"]
<1>1. PICK reaction \in Reactions : Handle(IF r.state = "started" THEN React(r, reaction) ELSE r)
  BY DEF DialogEnds
<1>. DEFINE d == IF r.state = "started" THEN React(r, reaction) ELSE r
<1>2. Handle(d)
  BY <1>1
<1>3. Sane(Now) /\ Attended(Now) /\ Now \in RefresherStates
  BY NowSane, NowTyped
<1>4. r \in RefresherStates
  BY <1>3, Typing, Members
<1>5. /\ r.publish_pending = Now.publish_pending /\ r.overlap = Now.overlap
      /\ r.quiet = Now.quiet /\ r.last = Now.last /\ r.on_io_error = Now.on_io_error
      /\ r.state = Now.state /\ r.timer = Now.timer /\ r.target_expires = Now.target_expires
      /\ r.tx = Now.tx
  BY <1>3, Typing
<1>6. method = "SUBSCRIBE" /\ method \in Methods /\ manual \in BOOLEAN
  BY DEF DialogEnds, IInv, Sane, Proper, InSequence
<1>. HIDE DEF r
<1>7. Sane(r) /\ Attended(r)
  BY <1>3, <1>4, <1>5, <1>6
     DEF Sane, Proper, InSequence, Hushed, Loud, Attended, Idle, Excused, Transient
<1>8. Sane(d) /\ Attended(d)
  BY <1>7, ReactShape
<1>. HIDE DEF d
<1>. QED BY <1>2, <1>6, <1>8, HandleShape

-----------------------------------------------------------------------------
(* The specification.                                                      *)

\* What belle_sip_refresher_new takes over has a request under way or a timer.
LEMMA AdoptedShape ==
    ASSUME NEW state \in {"INIT", "TRYING", "COMPLETED"}
    PROVE  LET r == Adopted(state)
           IN Proper(r) /\ Loud(r) /\ Attended(r)
<1>. DEFINE no == FALSE
            yes == TRUE
            r == Adopted(state)
            u == method # "PUBLISH"
            t == [state |-> state, expires |-> 1, unknown |-> u, channel |-> yes, timed_out |-> no]
            timer == IF state = "COMPLETED" THEN "NORMAL_REFRESH" ELSE "none"
            f == state = "COMPLETED" /\ method = "SUBSCRIBE"
            g == IF state = "COMPLETED" /\ method = "SUBSCRIBE" THEN "CONFIRMED" ELSE "none"
            l == state = "COMPLETED"
            x == [state |-> "started", timer |-> timer, target_expires |-> 1,
                  auth_failures |-> 0, publish_pending |-> no, on_io_error |-> no,
                  contact_fixing |-> no, first_acknowledged |-> f, dialog |-> g, learnt |-> l,
                  tx |-> t, ret |-> 0, fresh |-> no, overlap |-> no, quiet |-> no,
                  last |-> NoFailure]
<1>1. r = x
  BY DEF Adopted
<1>2. /\ no \in Flags /\ yes \in Flags /\ u \in Flags /\ f \in Flags /\ l \in Flags /\ ~no
      /\ timer \in Timers /\ g \in Dialogs /\ state \in TxStates
      /\ method # "SUBSCRIBE" => g = "none"
      /\ state = "COMPLETED" => timer # "none"
  BY Members DEF Flags
<1>. HIDE DEF no, yes, u, timer, f, g, l
<1>3. t \in Transactions /\ t.state = state
  BY <1>2, Members DEF Transactions
<1>. HIDE DEF t
<1>4. x \in RefresherStates
  BY <1>2, <1>3, Typing, Members
<1>5. /\ x.dialog = g /\ x.publish_pending = no /\ x.overlap = no /\ x.quiet = no
      /\ x.timer = timer /\ x.tx = t
  OBVIOUS
<1>. HIDE DEF x
<1>6. Proper(x) /\ Loud(x)
  BY <1>2, <1>4, <1>5 DEF Proper, InSequence, Loud
<1>7. Attended(x)
  BY <1>2, <1>3, <1>5 DEF Attended, Idle, Transient
<1>. HIDE DEF r
<1>8. Proper(r) /\ Loud(r) /\ Attended(r)
  BY <1>1, <1>6, <1>7
<1>. QED BY <1>8 DEF r

LEMMA Initially == Init => IInv
<1>. SUFFICES ASSUME Init PROVE IInv
  OBVIOUS
<1>1. method \in Methods /\ manual \in BOOLEAN
  BY DEF Init
<1>2. ASSUME NEW state \in {"INIT", "TRYING", "COMPLETED"}, w = Adopted(state)
      PROVE  IInv
  BY <1>1, <1>2, AdoptedShape, LoudSane DEF IInv
<1>3. ASSUME NEW cond \in Conds, w = refresh_unchecked(Adopted("COMPLETED"), cond)
      PROVE  IInv
  <2>. DEFINE r == Adopted("COMPLETED")
  <2>1. Proper(r) /\ Loud(r)
    BY AdoptedShape
  <2>2. w = refresh_unchecked(r, cond)
    BY <1>3
  <2>. HIDE DEF r
  <2>3. Proper(w) /\ Attended(w) /\ w.quiet = r.quiet
    BY <2>1, <2>2, CondsKnown, UncheckedShape
  <2>. QED BY <1>1, <2>1, <2>3, LoudSane DEF IInv, Loud
<1>. QED BY <1>2, <1>3 DEF Init

LEMMA Inductive == IInv /\ [Next]_vars => IInv'
<1>. SUFFICES ASSUME IInv, [Next]_vars PROVE IInv'
  OBVIOUS
<1>1. CASE UNCHANGED vars
  BY <1>1 DEF vars, IInv, Sane, Proper, InSequence, Hushed, Loud, Attended, Idle, Excused,
              Transient, Final
<1>2. CASE CallRefresh \/ CallStop
  BY <1>2, CallStep
<1>3. CASE ProcessSuccess \/ ProcessFailure
  BY <1>3, AnswerStep
<1>4. CASE Provisional \/ ChannelReady
  BY <1>4, ProgressStep
<1>5. CASE TransactionEnds
  BY <1>5, EndStep
<1>6. CASE TransactionTimeout
  BY <1>6, TimeoutStep
<1>7. CASE ChannelLost
  BY <1>7, LossStep
<1>8. CASE TimerCb
  BY <1>8, TimerStep
<1>9. CASE DialogEnds
  BY <1>9, DialogStep
<1>. QED BY <1>1, <1>2, <1>3, <1>4, <1>5, <1>6, <1>7, <1>8, <1>9 DEF Next

LEMMA Invariance == Spec => []IInv
BY Initially, Inductive, PTL DEF Spec

\* Types: an expiration that refresher.c sends is never the -1 by which the
\* application asks it to keep the last one.
THEOREM TypeCorrect == Spec => []TypeOK
<1>1. IInv => TypeOK
  BY DEF IInv, Sane, Proper, TypeOK
<1>. QED BY <1>1, Invariance, PTL

\* A started refresher that wants its registration has a timer armed or a
\* request under way unless refresher.c reported why not, for every method,
\* every set of answers and every call that the listener makes.
THEOREM RefreshSafety == Spec => []NeverAbandoned
<1>1. IInv => NeverAbandoned
  BY DEF IInv, NeverAbandoned, Unattended, Attended, Idle, Excused
<1>. QED BY <1>1, Invariance, PTL

\* After belle_sip_refresher_stop nothing arms the timer or sends a request
\* until the application asks again.
THEOREM StopSafety == Spec => []QuietOnceStopped
<1>1. IInv => QuietOnceStopped
  BY DEF IInv, Sane, Hushed, Loud, QuietOnceStopped
<1>. QED BY <1>1, Invariance, PTL

\* belle_sip_refresher_refresh_internal delays a PUBLISH whose predecessor is
\* pending, so two of them never overlap.
THEOREM SequenceSafety == Spec => []PublishesInSequence
<1>1. IInv => PublishesInSequence
  BY DEF IInv, Sane, Proper, InSequence, PublishesInSequence
<1>. QED BY <1>1, Invariance, PTL
=============================================================================
