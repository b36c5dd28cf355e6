------------------------------- MODULE Dialog -------------------------------
(***************************************************************************)
(* An INVITE dialog (dialog.c) at one end of a call, with the transactions *)
(* that run in it: its establishment, the 200 OK it repeats until the ACK  *)
(* arrives, re-INVITEs in both directions, BYE, and the client requests it *)
(* queues while it is busy.  What transactions do on their own is in       *)
(* NonInviteTransaction and InviteTransaction; here one only has the state *)
(* its dialog looks at.  The peer and the application are nondeterministic.*)
(***************************************************************************)
EXTENDS Naturals, Sequences

CONSTANTS
    Codes,          \* status codes of responses, in both directions
    MaxRequests,    \* bound: requests of the application and of the peer
    MaxByes         \* bound: BYEs that the dialog sends by itself

ASSUME CodesAssumption == Codes \subseteq 100..699
ASSUME BoundAssumption == MaxRequests \in Nat \ {0} /\ MaxByes \in Nat

VARIABLES
    d,      \* the dialog
    t,      \* the transactions, in the order of their creation
    oks,    \* CSeq of the 200s for INVITEs on their way to the peer
    acks    \* CSeq of the ACKs of those on their way to the dialog

vars == <<d, t, oks, acks>>

Ids == 1..(MaxRequests + MaxByes)

Methods == {"INVITE", "BYE", "INFO"}
DialogStates == {"NULL", "EARLY", "CONFIRMED", "TERMINATED"}
TransactionStates == {"NONE", "INIT", "TRYING", "PROCEEDING", "DONE", "TERMINATED"}

Dialogs == [state : DialogStates,
            is_server : BOOLEAN,
            needs_ack : BOOLEAN,
            got_initial_ack : BOOLEAN,
            last_transaction : Ids,
            last_out_ack : Nat,         \* its CSeq, 0 when NULL
            local_cseq : Nat, remote_cseq : Nat, remote_invite_cseq : Nat,
            last_200Ok : Nat,           \* its CSeq, 0 when both timers are NULL
            queued_ct : Seq(Ids),
            scheduled : BOOLEAN,        \* _belle_sip_dialog_process_queue is due
            listed : BOOLEAN]           \* the provider finds it

Transactions == [client : BOOLEAN, method : Methods, state : TransactionStates,
                 code : Nat,            \* of last_response, 0 when NULL
                 cseq : Nat,            \* 0 for a queued request not sent yet
                 in_dialog : BOOLEAN,   \* t->dialog is not NULL
                 dialog_queued : BOOLEAN]

Nobody == [client |-> FALSE, method |-> "INFO", state |-> "NONE", code |-> 0,
           cseq |-> 0, in_dialog |-> FALSE, dialog_queued |-> FALSE]

\* belle_sip_dialog_new, for the INVITE that is transaction 1
Init ==
    /\ \E server \in BOOLEAN :
          /\ d = [state |-> "NULL", is_server |-> server, needs_ack |-> FALSE,
                  got_initial_ack |-> FALSE, last_transaction |-> 1,
                  last_out_ack |-> 0, local_cseq |-> IF server THEN 0 ELSE 1,
                  remote_cseq |-> IF server THEN 1 ELSE 0, remote_invite_cseq |-> 0,
                  last_200Ok |-> 0, queued_ct |-> <<>>, scheduled |-> FALSE,
                  listed |-> TRUE]
          /\ t = [i \in Ids |-> IF i # 1 THEN Nobody
                  ELSE [Nobody EXCEPT !.client = ~server, !.method = "INVITE",
                                      !.state = "PROCEEDING", !.cseq = 1,
                                      !.in_dialog = TRUE]]
    /\ oks = {}
    /\ acks = {}

-----------------------------------------------------------------------------
(* What the functions of dialog.c do to a world w, the record of the       *)
(* dialog and its transactions.                                            *)

World == [d |-> d, t |-> t]

\* belle_sip_transaction_state_is_transient
Transient(state) == state \in {"INIT", "TRYING", "PROCEEDING"}

\* belle_sip_dialog_request_pending
request_pending(w) ==
    w.d.needs_ack \/ Transient(w.t[w.d.last_transaction].state)

\* belle_sip_dialog_process_queue.  Several tasks act as one: what a second
\* would find is what the next update finds.
process_queue(w) ==
    [w EXCEPT !.d.scheduled = @ \/ w.d.queued_ct # <<>>]

\* belle_sip_dialog_init_200Ok_retrans
init_200Ok_retrans(w, i) ==
    IF w.d.last_200Ok # 0 THEN w
    ELSE [w EXCEPT !.d.last_200Ok = w.t[i].cseq]

\* belle_sip_dialog_stop_200Ok_retrans
stop_200Ok_retrans(w) == [w EXCEPT !.d.last_200Ok = 0]

InQueue(w, i) == \E k \in DOMAIN w.d.queued_ct : w.d.queued_ct[k] = i

\* Fault: the requests that wait in the queue are forgotten, not terminated.
dialog_delete_Forgets(w) ==
    [w EXCEPT !.d.state = "TERMINATED", !.d.last_200Ok = 0, !.d.listed = FALSE]

\* belle_sip_dialog_delete.  The queued transactions it terminates update
\* the dialog, which then only notes the last of them.
dialog_delete(w) ==
    LET q == w.d.queued_ct
    IN [stop_200Ok_retrans(w) EXCEPT
          !.d.state = "TERMINATED",
          !.d.last_transaction = IF q = <<>> THEN @ ELSE q[Len(q)],
          !.d.queued_ct = <<>>,
          !.d.listed = FALSE,
          !.t = [i \in Ids |-> IF InQueue(w, i)
                               THEN [w.t[i] EXCEPT !.state = "TERMINATED"]
                               ELSE w.t[i]]]

\* belle_sip_dialog_update, its first part: which transaction is the last
\* one now, and the CSeq of the peer.  A server transaction counts only if
\* it is newer than what the peer sent before, and never once it is a 491.
Noted(w, i, as_uas) ==
    LET cseq == w.t[i].cseq
        code == w.t[i].code
        newer == w.d.remote_cseq < cseq
    IN IF ~as_uas THEN [w EXCEPT !.d.last_transaction = i]
       ELSE [w EXCEPT
               !.d.last_transaction = IF newer /\ code # 491 THEN i ELSE @,
               !.d.remote_cseq = IF newer THEN cseq ELSE @,
               !.d.remote_invite_cseq =
                   IF /\ w.t[i].method = "INVITE" /\ code \in 200..299
                      /\ @ < cseq
                   THEN cseq ELSE @]

\* A transaction that a BYE supersedes is detached, then terminated.
Supersede(w, previous, i) ==
    IF previous # i /\ Transient(w.t[previous].state)
    THEN [w EXCEPT !.t[previous].state = "TERMINATED",
                   !.t[previous].in_dialog = FALSE]
    ELSE w

\* The case NULL or EARLY of belle_sip_dialog_update
UpdateEarly(w, i) ==
    LET code == w.t[i].code
        invite == w.t[i].method = "INVITE"
        over == w.t[i].state = "TERMINATED"
    IN CASE w.d.state = "NULL" /\ invite /\ code \in 101..199 ->
              process_queue([w EXCEPT !.d.state = "EARLY"])
         [] invite /\ code >= 300 /\ code # 407 -> dialog_delete(w)
         [] invite /\ code \in 200..299 ->
              LET full == [w EXCEPT !.d.needs_ack = TRUE, !.d.state = "CONFIRMED"]
              IN process_queue(IF w.d.is_server THEN init_200Ok_retrans(full, i)
                               ELSE full)
         [] code < 200 /\ over -> dialog_delete(w)
         [] OTHER -> process_queue(w)

\* belle_sip_dialog_handle_200Ok: is it a copy of a 200 already acknowledged?
handle_200Ok(w, i) == w.d.last_out_ack # 0 /\ w.d.last_out_ack = w.t[i].cseq

\* Fault: a BYE that nobody answers leaves the dialog as it is.
UpdateConfirmed_OnlyAnswered(w, i, as_uas, previous) ==
    IF w.t[i].method = "BYE" /\ w.t[i].code >= 200
    THEN dialog_delete(Supersede([w EXCEPT !.d.needs_ack = FALSE], previous, i))
    ELSE process_queue(w)

\* The case CONFIRMED of belle_sip_dialog_update
UpdateConfirmed(w, i, as_uas, previous) ==
    LET code == w.t[i].code
        method == w.t[i].method
        over == code >= 200 \/ (code = 0 /\ w.t[i].state = "TERMINATED")
    IN CASE method = "INVITE" /\ code = 481 -> dialog_delete(w)
         [] method = "INVITE" /\ code \in 200..299 ->
              IF ~as_uas /\ handle_200Ok(w, i)
              THEN process_queue([w EXCEPT !.d.last_transaction = previous])
              ELSE LET fresh == [w EXCEPT !.d.needs_ack = TRUE]
                   IN process_queue(IF as_uas THEN init_200Ok_retrans(fresh, i)
                                    ELSE fresh)
         [] method = "BYE" /\ over ->
              dialog_delete(Supersede([w EXCEPT !.d.needs_ack = FALSE], previous, i))
         [] method = "BYE" /\ ~as_uas /\ code = 0 ->
              process_queue(Supersede(w, previous, i))
         [] OTHER -> process_queue(w)

\* A 200 for an INVITE brings a terminated dialog back.
Exhumed(w, i, as_uas) ==
    IF /\ w.d.state = "TERMINATED" /\ ~as_uas
       /\ w.t[i].method = "INVITE" /\ w.t[i].code \in 200..299
    THEN [w EXCEPT !.d.state = "CONFIRMED"] ELSE w

\* belle_sip_dialog_update.  (Here and below a function of one argument
\* stands for a step whose argument TLC is to compute once.)
dialog_update(w, i, as_uas) ==
    LET noted == Noted(Exhumed(w, i, as_uas), i, as_uas)
        Update[v \in {noted}] ==
            CASE v.d.state \in {"NULL", "EARLY"} -> UpdateEarly(v, i)
              [] v.d.state = "CONFIRMED" ->
                   UpdateConfirmed(v, i, as_uas, w.d.last_transaction)
              [] OTHER -> process_queue(v)
    IN Update[noted]

\* belle_sip_transaction_terminate
terminate(w, i) ==
    LET over == [w EXCEPT !.t[i].state = "TERMINATED"]
    IN IF w.t[i].state # "TERMINATED" /\ w.t[i].in_dialog /\ w.t[i].code < 200
       THEN dialog_update(over, i, ~w.t[i].client) ELSE over

-----------------------------------------------------------------------------
(* Requests of this end.                                                   *)

Free(w) == {i \in Ids : w.t[i].state = "NONE"}
NextId(w) == CHOOSE i \in Free(w) : \A j \in Free(w) : i <= j

\* The bound on what the application and the peer ask for
MayRequest == t[MaxRequests].state = "NONE"

\* belle_sip_client_transaction_send_request once nothing holds it back: the
\* dialog is told first, then a channel is found or not.  A transaction that
\* waits for its channel to be ready counts as TRYING.
Leaves(w, i, found) ==
    LET told == dialog_update(w, i, FALSE)
        Sent[v \in {told}] == IF found THEN [v EXCEPT !.t[i].state = "TRYING"]
                              ELSE terminate(v, i)
    IN Sent[told]

\* belle_sip_dialog_update_request and belle_sip_dialog_update_local_cseq
update_request(w, i) ==
    [w EXCEPT !.d.local_cseq = @ + 1, !.t[i].cseq = w.d.local_cseq + 1]

\* belle_sip_dialog_create_request and a client transaction for it
NewRequest(w, i, method, queued) ==
    [w EXCEPT !.t[i] = [Nobody EXCEPT !.client = TRUE, !.method = method,
                                      !.state = "INIT", !.in_dialog = TRUE,
                                      !.dialog_queued = queued]]

\* dialog_can_create_request
can_create_request(w) == w.d.state \in {"EARLY", "CONFIRMED"}

\* belle_sip_dialog_can_create_synchronous_request
can_create_synchronous_request(w, method) ==
    /\ can_create_request(w)
    /\ \/ method = "BYE" \/ w.d.state = "EARLY"
       \/ ~Transient(w.t[w.d.last_transaction].state)

\* The BYE that the dialog sends by itself
SendBye(w, found) ==
    LET i == NextId(w)
    IN Leaves(update_request(NewRequest(w, i, "BYE", FALSE), i), i, found)

\* belle_sip_dialog_send_ack and, when the listener did not call it,
\* belle_sip_dialog_check_ack_sent
Acknowledge(updated, i, listener, found) ==
    LET Answered[w \in {updated}] ==
            CASE ~w.d.needs_ack -> w
              [] w.d.needs_ack /\ listener = "ack" ->
                   process_queue([w EXCEPT !.d.needs_ack = FALSE,
                                           !.d.last_out_ack = w.t[i].cseq])
              [] w.d.needs_ack /\ listener # "ack" ->
                   IF can_create_request(w) THEN SendBye(w, found)
                   ELSE dialog_delete(w)
    IN Answered[updated]

-----------------------------------------------------------------------------
(* The actions.                                                            *)

Becomes(world) == \E w \in {world} : d' = w.d /\ t' = w.t

\* Fault: a request does not queue up behind those that already wait.
SendQueued_Overtakes ==
    /\ MayRequest
    /\ can_create_request(World)
    /\ LET i == NextId(World)
           made == NewRequest(World, i, "INFO", TRUE)
       IN IF request_pending(World)
          THEN Becomes([made EXCEPT !.d.queued_ct = Append(@, i)])
          ELSE Becomes(Leaves(update_request(made, i), i, TRUE))
    /\ UNCHANGED <<oks, acks>>

\* belle_sip_client_transaction_send_request, for a request made with
\* belle_sip_dialog_create_queued_request
SendQueued ==
    /\ MayRequest
    /\ can_create_request(World)
    /\ LET i == NextId(World)
           made == NewRequest(World, i, "INFO", TRUE)
       IN IF request_pending(World) \/ d.queued_ct # <<>>
          THEN Becomes([made EXCEPT !.d.queued_ct = Append(@, i)])
          ELSE \E found \in BOOLEAN : Becomes(Leaves(update_request(made, i), i, found))
    /\ UNCHANGED <<oks, acks>>

\* belle_sip_client_transaction_send_request, for a request made with
\* belle_sip_dialog_create_request
SendNow(method) ==
    /\ MayRequest
    /\ can_create_synchronous_request(World, method)
    /\ method = "INVITE" => d.state = "CONFIRMED"
    /\ \E found \in BOOLEAN :
          LET i == NextId(World)
          IN Becomes(Leaves(update_request(NewRequest(World, i, method, FALSE), i),
                            i, found))
    /\ UNCHANGED <<oks, acks>>

\* _belle_sip_dialog_process_queue, from the main loop.  What is no longer
\* in INIT is refused by belle_sip_client_transaction_send_request.
ProcessQueue ==
    /\ d.scheduled
    /\ LET w == [World EXCEPT !.d.scheduled = FALSE]
       IN IF d.state = "TERMINATED" \/ request_pending(w) \/ d.queued_ct = <<>>
          THEN Becomes(w)
          ELSE LET i == Head(d.queued_ct)
                   popped == [w EXCEPT !.d.queued_ct = Tail(@)]
               IN IF t[i].state # "INIT" THEN Becomes(popped)
                  ELSE \E found \in BOOLEAN :
                          Becomes(Leaves(update_request(popped, i), i, found))
    /\ UNCHANGED <<oks, acks>>

\* belle_sip_client_transaction_notify_response.  An INVITE that has a final
\* answer still hears the copies of a 2xx.
ReceiveResponse(i, code) ==
    /\ t[i].client
    /\ \/ t[i].state \in {"TRYING", "PROCEEDING"}
       \/ t[i].state = "DONE" /\ t[i].method = "INVITE" /\ code \in 200..299
    /\ t[i].method = "INFO" => code = 200
    /\ Free(World) # {}
    /\ LET heard == [World EXCEPT !.t[i].code = code,
                                  !.t[i].state = IF code < 200 THEN "PROCEEDING" ELSE "DONE"]
           accepted == t[i].method = "INVITE" /\ code \in 200..299
           absorbed == /\ accepted /\ d.state \in {"CONFIRMED", "TERMINATED"}
                       /\ handle_200Ok(heard, i)
           updated == dialog_update(heard, i, FALSE)
       IN IF ~accepted \/ absorbed THEN Becomes(updated)
          ELSE \E listener \in {"ack", "none"}, found \in BOOLEAN :
                  Becomes(Acknowledge(updated, i, listener, found))
    /\ UNCHANGED <<oks, acks>>

\* belle_sip_transaction_terminate: a timeout or a lost channel, and for an
\* INVITE with a final answer the timer after which it hears no more copies.
\* The application is taken not to terminate a request that waits in the queue:
\* the code then takes that one for the last of the dialog (dialog.c:615), and
\* the requests behind it wait for the next update.
TransactionEnds(i) ==
    /\ \/ Transient(t[i].state) /\ ~InQueue(World, i)
       \/ t[i].state = "DONE" /\ t[i].client /\ t[i].method = "INVITE"
    /\ Becomes(terminate(World, i))
    /\ UNCHANGED <<oks, acks>>

\* belle_sip_dialog_can_accept_request
can_accept_request(w, method) ==
    request_pending(w) =>
        ~(method = "INVITE" /\ w.t[w.d.last_transaction].method = "INVITE")

\* belle_sip_provider_create_server_transaction, with its 100 for an INVITE
NewServerTransaction(w, i, method, cseq) ==
    LET made == [w EXCEPT !.t[i] = [Nobody EXCEPT
                    !.method = method, !.cseq = cseq, !.in_dialog = TRUE,
                    !.state = IF method = "INVITE" THEN "PROCEEDING" ELSE "TRYING",
                    !.code = IF method = "INVITE" THEN 100 ELSE 0]]
    IN IF method = "INVITE" THEN dialog_update(made, i, TRUE) ELSE made

\* belle_sip_provider_dispatch_request for a request other than ACK.  The
\* requests of the peer may arrive in another order than it sent them.
ReceiveRequest(method, cseq) ==
    /\ MayRequest
    /\ d.listed /\ d.state # "NULL"
    /\ \A i \in Ids : t[i].state # "NONE" /\ ~t[i].client => t[i].cseq # cseq
    /\ LET i == NextId(World)
           reinvite == method = "INVITE" /\ d.needs_ack
           w == NewServerTransaction(IF reinvite THEN stop_200Ok_retrans(World)
                                     ELSE World, i, method, cseq)
       IN IF reinvite \/ can_accept_request(World, method) THEN Becomes(w)
          ELSE Becomes(dialog_update([w EXCEPT !.t[i].code = 491,
                                               !.t[i].state = "DONE"], i, TRUE))
    /\ UNCHANGED <<oks, acks>>

\* belle_sip_server_transaction_send_response
SendResponse(i, code) ==
    /\ ~t[i].client /\ t[i].state \in {"TRYING", "PROCEEDING"}
    /\ t[i].method = "INFO" => code = 200
    /\ Becomes(dialog_update(
                 [World EXCEPT !.t[i].code = code,
                               !.t[i].state = IF code < 200 THEN @ ELSE "DONE"],
                 i, TRUE))
    /\ oks' = IF t[i].method = "INVITE" /\ code \in 200..299
              THEN oks \cup {t[i].cseq} ELSE oks
    /\ UNCHANGED acks

\* Fault: the timer goes on after the 200 was released.
Timer200Ok_Stale ==
    /\ oks' = oks \cup {d.last_200Ok}
    /\ UNCHANGED <<d, t, acks>>

\* dialog_on_200Ok_timer
Timer200Ok ==
    /\ d.last_200Ok # 0
    /\ oks' = oks \cup {d.last_200Ok}
    /\ UNCHANGED <<d, t, acks>>

\* dialog_on_200Ok_end: the ACK did not arrive within 64 * T1
Timer200OkEnd ==
    /\ d.last_200Ok # 0
    /\ Free(World) # {}
    /\ LET w == stop_200Ok_retrans(World)
           last == t[d.last_transaction]
       IN IF (d.is_server /\ d.got_initial_ack) \/ (last.client /\ last.method = "BYE")
          THEN Becomes(w)
          ELSE \E found \in BOOLEAN :
                  Becomes(SendBye([w EXCEPT !.d.state = "CONFIRMED"], found))
    /\ UNCHANGED <<oks, acks>>

\* The peer acknowledges every copy of a 200.
PeerAcks(cseq) ==
    /\ cseq \in oks
    /\ oks' = oks \ {cseq}
    /\ acks' = acks \cup {cseq}
    /\ UNCHANGED <<d, t>>

\* Fault: the queue is not looked at when the ACK frees the dialog.
handle_ack_NoWakeup(w, cseq) ==
    IF w.d.needs_ack /\ cseq = w.d.remote_invite_cseq
    THEN [stop_200Ok_retrans(w) EXCEPT !.d.needs_ack = FALSE]
    ELSE w

\* belle_sip_dialog_handle_ack
handle_ack(w, cseq) ==
    IF w.d.needs_ack /\ cseq = w.d.remote_invite_cseq
    THEN process_queue([stop_200Ok_retrans(w) EXCEPT
                          !.d.needs_ack = FALSE,
                          !.d.got_initial_ack = @ \/ w.d.is_server])
    ELSE w

\* belle_sip_provider_dispatch_request for an ACK
ReceiveAck(cseq) ==
    /\ cseq \in acks
    /\ acks' = acks \ {cseq}
    /\ Becomes(IF d.listed THEN handle_ack(World, cseq) ELSE World)
    /\ UNCHANGED oks

Lose ==
    /\ \/ \E cseq \in oks : oks' = oks \ {cseq} /\ UNCHANGED acks
       \/ \E cseq \in acks : acks' = acks \ {cseq} /\ UNCHANGED oks
    /\ UNCHANGED <<d, t>>

\* belle_sip_dialog_delete, called by the application
Kill ==
    /\ d.state # "TERMINATED"
    /\ Becomes(dialog_delete(World))
    /\ UNCHANGED <<oks, acks>>

CSeqs == 1..MaxRequests

Next ==
    \/ SendQueued \/ (\E method \in {"INVITE", "BYE"} : SendNow(method))
    \/ ProcessQueue \/ Timer200Ok \/ Timer200OkEnd \/ Lose \/ Kill
    \/ \E i \in Ids : TransactionEnds(i)
    \/ \E i \in Ids, code \in Codes : ReceiveResponse(i, code) \/ SendResponse(i, code)
    \/ \E method \in Methods, cseq \in CSeqs : ReceiveRequest(method, cseq)
    \/ \E cseq \in CSeqs : PeerAcks(cseq) \/ ReceiveAck(cseq)

Spec == Init /\ [][Next]_vars

\* The main loop runs its timers and tasks, every transaction ends (what the
\* transaction modules show, if the application answers), and the network
\* delivers an ACK that is sent again and again.
Fairness ==
    /\ WF_vars(ProcessQueue) /\ WF_vars(Timer200Ok) /\ WF_vars(Timer200OkEnd)
    /\ WF_vars(\E i \in Ids : TransactionEnds(i))
    /\ SF_vars(\E cseq \in CSeqs : PeerAcks(cseq))
    /\ SF_vars(\E cseq \in CSeqs : ReceiveAck(cseq))

FairSpec == Spec /\ Fairness

-----------------------------------------------------------------------------
(* Properties.                                                             *)

\* The dialog, its transactions and the messages stay within their types.
TypeOK ==
    /\ d \in Dialogs
    /\ t \in [Ids -> Transactions]
    /\ oks \subseteq CSeqs /\ acks \subseteq CSeqs

\* Whenever the dialog is free and requests wait in its queue, the task that
\* sends the next one is due: no way of becoming free forgets them.
NoLostWakeup ==
    d.queued_ct # <<>> /\ d.state # "TERMINATED" /\ ~request_pending(World)
        => d.scheduled

\* Queued requests leave in the order in which they were submitted, with
\* increasing CSeq, and none is stranded: it waits, left, or was terminated.
InSubmissionOrder ==
    \A i, j \in Ids :
        i < j /\ t[i].dialog_queued /\ t[j].dialog_queued =>
            /\ t[j].cseq # 0 => ~InQueue(World, i) /\ t[i].cseq < t[j].cseq
            /\ t[i].cseq = 0 => InQueue(World, i) \/ t[i].state = "TERMINATED"

\* A BYE that ended after a provisional response and no other: its code is
\* neither 0 nor final, and belle_sip_dialog_update takes no notice, although
\* the RFC it quotes there wants the dialog terminated (dialog.c:744-751).
HalfAnsweredBye(i) ==
    t[i].method = "BYE" /\ t[i].state = "TERMINATED" /\ t[i].code \in 100..199

\* A BYE that runs in a confirmed dialog, sent or received, ends the dialog,
\* answered or not, unless all that a BYE got was a provisional response.
ByeEnds ==
    (\E i \in Ids : t[i].method = "BYE" /\ Transient(t[i].state) /\ d.state = "CONFIRMED")
        ~> (d.state = "TERMINATED" \/ \E i \in Ids : HalfAnsweredBye(i))

\* A late 200 brought the dialog back after its deletion; the provider does
\* not know it any more, so neither ACKs nor requests of the peer reach it.
Revenant == d.state # "TERMINATED" /\ ~d.listed

\* The dialog still waits for the ACK of a 200 that it does not repeat: the
\* 64 * T1 of dialog_on_200Ok_end are over, or a new INVITE stopped them.
AckGivenUp == d.needs_ack /\ d.last_200Ok = 0

\* Queued requests do not wait for ever: each is sent, or terminated with the
\* dialog, unless the dialog ends up as one of the two above.
QueueDrains ==
    \/ d.queued_ct # <<>> ~> d.queued_ct = <<>>
    \/ <>[](Revenant \/ AckGivenUp)
=============================================================================
