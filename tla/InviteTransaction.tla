-------------------------- MODULE InviteTransaction --------------------------
(***************************************************************************)
(* One INVITE carried by belle-sip: the client transaction (ict.c), the    *)
(* server transaction (ist.c), what both inherit from transaction.c (with  *)
(* the call repair timers that keep a call alive while its channel is      *)
(* replaced), and the part of provider.c that matches messages with        *)
(* transactions.  ACK stands for the ACK of a failure, which belongs to    *)
(* the transaction; the ACK of a 2xx belongs to the dialog.                *)
(***************************************************************************)
EXTENDS Naturals

CONSTANTS
    Codes,          \* status codes the called application may answer with
    Reliable,       \* TRUE for TCP and TLS, FALSE for UDP
    Forking,        \* TRUE when a proxy may add a 2xx of another branch
    Reactions,      \* what the application may do inside a response callback
    MaxFailures,    \* bound: how often each side may lose its channel
    MaxDeliveries   \* bound: how often the INVITE may reach the called TU

ASSUME CodesAssumption == Codes \subseteq 101..699
ASSUME ModeAssumption == Reliable \in BOOLEAN /\ Forking \in BOOLEAN
ASSUME ReactionsAssumption == Reactions \subseteq {"none", "terminate", "close"}
ASSUME BoundsAssumption == MaxFailures \in Nat /\ MaxDeliveries \in Nat \ {0}

VARIABLES
    client,     \* the client transaction, its channel and its upcalls
    server,     \* the server transaction of the latest incarnation
    invites,    \* is a copy of the INVITE in flight?
    acks,       \* is an ACK of a failure in flight?
    responses,  \* codes of the responses in flight
    answers     \* history: <<incarnation, code>> of every final response sent,
                \* incarnation 0 for another branch

vars == <<client, server, invites, acks, responses, answers>>

Success(code) == code \in 200..299
Failure(code) == code >= 300
Final(code) == Success(code) \/ Failure(code)
AllCodes == Codes \cup {100, 503}

ClientStates == {"INIT", "CALLING", "PROCEEDING", "ACCEPTED", "COMPLETED", "TERMINATED"}
ServerStates == {"NONE", "PROCEEDING", "ACCEPTED", "COMPLETED", "CONFIRMED", "TERMINATED"}
ChannelStates == {"NONE", "CONNECTING", "READY", "ERROR", "CLOSED"}
Causes == {"none", "application", "channel", "timer", "repair", "acked"}

Clients == [state : ClientStates,
            timers : SUBSET {"A", "B", "D", "M", "R"},  \* R: call_repair_timer
            bound : BOOLEAN,        \* t->channel is not NULL
            chan : ChannelStates,   \* ERROR: listeners not notified yet
            success : BOOLEAN,      \* a 2xx was notified
            failures : Nat, timeouts : Nat, ioerrors : Nat, ends : Nat,
            cause : Causes]         \* what ended the transaction

Servers == [state : ServerStates,
            timers : SUBSET {"G", "H", "I", "L", "R"},
            bound : BOOLEAN,
            last : AllCodes \cup {0},   \* last_response, 0 when NULL
            gaveUp : BOOLEAN,   \* history: the call repair timer found no channel
            delivered : Nat, ioerrors : Nat, ends : Nat,
            cause : Causes]

NewClient == [state |-> "INIT", timers |-> {}, bound |-> FALSE, chan |-> "NONE",
              success |-> FALSE, failures |-> 0, timeouts |-> 0,
              ioerrors |-> 0, ends |-> 0, cause |-> "none"]

NoServer == [state |-> "NONE", timers |-> {}, bound |-> FALSE, last |-> 0,
             gaveUp |-> FALSE, delivered |-> 0, ioerrors |-> 0, ends |-> 0, cause |-> "none"]

Init == /\ client = NewClient
        /\ server = NoServer
        /\ invites = FALSE
        /\ acks = FALSE
        /\ responses = {}
        /\ answers = {}

-----------------------------------------------------------------------------
(* What both kinds of transaction inherit from transaction.c.              *)

\* belle_sip_transaction_state_is_transient
Transient(state) == state \in {"INIT", "CALLING", "PROCEEDING"}

\* belle_sip_transaction_terminate with on_ict_terminate and ist_on_terminate
Terminate(t, cause) ==
    IF t.state = "TERMINATED" THEN [t EXCEPT !.timers = @ \ {"R"}]
    ELSE [t EXCEPT !.state = "TERMINATED", !.timers = {}, !.ends = @ + 1,
                   !.cause = cause]

\* Fault: only a transaction somebody answered is repaired.
ChannelError_NoRepair(t) ==
    [(IF t.state = "PROCEEDING"
      THEN [t EXCEPT !.ioerrors = @ + 1]
      ELSE Terminate(t, "channel")) EXCEPT !.bound = FALSE]

\* transaction_handle_channel_error: an INVITE that has no final answer yet
\* survives its channel and is given 32 * T1 to find another one.
ChannelError(t) ==
    [(IF Transient(t.state)
      THEN [t EXCEPT !.ioerrors = @ + 1, !.timers = @ \cup {"R"}]
      ELSE Terminate(t, "channel")) EXCEPT !.bound = FALSE]

ClientChannelError(c) == IF c.bound THEN ChannelError(c) ELSE c

\* What the application may do inside process_response_event
React(c, reaction) ==
    CASE reaction = "terminate" -> Terminate(c, "application")
      [] reaction = "close"     -> [ClientChannelError(c) EXCEPT !.chan = "CLOSED"]
      [] OTHER                  -> c

-----------------------------------------------------------------------------
(* The client transaction (ict.c).                                         *)

ict_send_request(c) ==
    [c EXCEPT !.state = "CALLING",
              !.timers = {"B"} \cup (IF Reliable THEN {} ELSE {"A"})]

\* belle_sip_client_transaction_send_request
SendRequest ==
    /\ client.state = "INIT"
    /\ client.chan = "NONE"
    /\ \/ /\ client' = ict_send_request([client EXCEPT !.bound = TRUE, !.chan = "READY"])
          /\ invites' = TRUE
       \/ /\ client' = [client EXCEPT !.bound = TRUE, !.chan = "CONNECTING"]
          /\ UNCHANGED invites
       \/ /\ client' = Terminate(client, "application")
          /\ UNCHANGED invites
    /\ UNCHANGED <<server, acks, responses, answers>>

\* on_channel_state_changed(READY)
ChannelReady ==
    /\ client.chan = "CONNECTING"
    /\ IF client.bound /\ client.state = "INIT"
       THEN /\ client' = ict_send_request([client EXCEPT !.chan = "READY"])
            /\ invites' = TRUE
       ELSE /\ client' = [client EXCEPT !.chan = "READY"]
            /\ UNCHANGED invites
    /\ UNCHANGED <<server, acks, responses, answers>>

\* belle_sip_channel_handle_error, then channel_notify_error_to_listeners
\* from the main loop
ChannelFails ==
    /\ client.chan \in {"CONNECTING", "READY"}
    /\ client.ioerrors < MaxFailures
    /\ client' = [client EXCEPT !.chan = "ERROR"]
    /\ UNCHANGED <<server, invites, acks, responses, answers>>

ChannelErrorNotified ==
    /\ client.chan = "ERROR"
    /\ client' = [ClientChannelError(client) EXCEPT !.chan = "CLOSED"]
    /\ UNCHANGED <<server, invites, acks, responses, answers>>

\* channel_set_state(DISCONNECTED), or RETRY because a REGISTER on the same
\* channel blamed it: the listeners hear at once.
ChannelDisconnected ==
    /\ client.chan \in {"CONNECTING", "READY", "ERROR"}
    /\ client.ioerrors < MaxFailures
    /\ client' = [ClientChannelError(client) EXCEPT !.chan = "CLOSED"]
    /\ UNCHANGED <<server, invites, acks, responses, answers>>

\* belle_sip_provider_dispatch_response gives a transaction without channel
\* the one that leads to its next hop now.
Rebind(c) == IF c.bound THEN c ELSE [c EXCEPT !.bound = TRUE, !.chan = "READY"]

\* Fault: a failure is believed even after the call was accepted, and timer
\* M is started only by the first 2xx after a provisional response.
ict_on_response_Believes(c, code, reaction) ==
    IF Failure(code) /\ c.state \in {"CALLING", "PROCEEDING", "ACCEPTED"}
    THEN [React([c EXCEPT !.state = "COMPLETED", !.failures = @ + 1], reaction)
             EXCEPT !.timers = @ \cup {"D"}]
    ELSE IF Success(code)
    THEN React([c EXCEPT !.state = "ACCEPTED", !.success = TRUE,
                         !.timers = IF c.state = "PROCEEDING" THEN @ \cup {"M"} ELSE @],
               reaction)
    ELSE c

\* ict_on_response.  Timer D is armed after the application was told, even
\* if it ended the transaction meanwhile.
ict_on_response(c, code, reaction) ==
    CASE c.state \in {"CALLING", "PROCEEDING"} /\ Failure(code) ->
            LET told == React([c EXCEPT !.state = "COMPLETED", !.failures = @ + 1],
                              reaction)
            IN [told EXCEPT !.timers = @ \cup {"D"}]
      [] c.state \in {"CALLING", "PROCEEDING"} /\ Success(code) ->
            React([c EXCEPT !.state = "ACCEPTED", !.timers = @ \cup {"M"},
                            !.success = TRUE], reaction)
      [] c.state \in {"CALLING", "PROCEEDING"} /\ ~Final(code) ->
            React([c EXCEPT !.state = "PROCEEDING"], reaction)
      [] c.state \in {"ACCEPTED", "COMPLETED"} /\ Success(code) ->
            React([c EXCEPT !.success = TRUE], reaction)
      [] OTHER -> c

\* Fault: every failure is acknowledged, also one the transaction ignores.
SendsAck_Always(c, code) == Failure(code)

\* ict_on_response acknowledges the first failure and each of its copies:
\* make_ack builds the ACK on entry to COMPLETED and on_ict_terminate drops it.
SendsAck(c, code) == Failure(code) /\ c.state \in {"CALLING", "PROCEEDING", "COMPLETED"}

\* belle_sip_provider_dispatch_response; a response that matches no live
\* transaction, or one for which no channel is found, goes to the
\* application without a transaction.
ReceiveResponse(code) ==
    /\ code \in responses
    /\ \/ /\ client.state \in {"INIT", "TERMINATED"} \/ ~client.bound
          /\ UNCHANGED <<client, acks>>
       \/ /\ client.state \notin {"INIT", "TERMINATED"}
          /\ LET c == Rebind(client)
             IN /\ \E reaction \in Reactions :
                      /\ reaction = "close" => client.ioerrors < MaxFailures
                      /\ client' = ict_on_response(c, code, reaction)
                /\ acks' = (acks \/ (SendsAck(c, code) /\ c.chan = "READY"))
    /\ \/ responses' = responses \ {code}
       \/ ~Reliable /\ UNCHANGED responses
    /\ UNCHANGED <<server, invites, answers>>

\* ict_on_timer_A: gone for good once it finds no channel
TimerA ==
    /\ "A" \in client.timers
    /\ client' = IF client.bound THEN client
                 ELSE [client EXCEPT !.timers = @ \ {"A"}]
    /\ invites' = (invites \/ (client.bound /\ client.state = "CALLING"
                                            /\ client.chan = "READY"))
    /\ UNCHANGED <<server, acks, responses, answers>>

\* Fault: timer B does not look at the state.
TimerB_AnyState ==
    /\ "B" \in client.timers
    /\ client' = Terminate([client EXCEPT !.timers = @ \ {"B"}, !.timeouts = @ + 1],
                           "timer")
    /\ UNCHANGED <<server, invites, acks, responses, answers>>

\* ict_on_timer_B: only a request nobody answered at all times out
TimerB ==
    /\ "B" \in client.timers
    /\ LET fired == [client EXCEPT !.timers = @ \ {"B"}]
       IN client' = IF client.state = "CALLING"
                    THEN Terminate([fired EXCEPT !.timeouts = @ + 1], "timer")
                    ELSE fired
    /\ UNCHANGED <<server, invites, acks, responses, answers>>

\* ict_on_timer_D
TimerD ==
    /\ "D" \in client.timers
    /\ LET fired == [client EXCEPT !.timers = @ \ {"D"}]
       IN client' = IF client.state = "COMPLETED" THEN Terminate(fired, "timer")
                    ELSE fired
    /\ UNCHANGED <<server, invites, acks, responses, answers>>

\* ict_on_timer_M
TimerM ==
    /\ "M" \in client.timers
    /\ LET fired == [client EXCEPT !.timers = @ \ {"M"}]
       IN client' = IF client.state = "ACCEPTED" THEN Terminate(fired, "timer")
                    ELSE fired
    /\ UNCHANGED <<server, invites, acks, responses, answers>>

\* client_transaction_on_call_repair_timer
ClientRepairTimer ==
    /\ "R" \in client.timers
    /\ client' = Terminate([client EXCEPT !.timers = @ \ {"R"}], "repair")
    /\ UNCHANGED <<server, invites, acks, responses, answers>>

\* ict_stop_retransmissions
StopRetransmissions ==
    /\ "A" \in client.timers
    /\ client' = [client EXCEPT !.timers = @ \ {"A"}]
    /\ UNCHANGED <<server, invites, acks, responses, answers>>

ApplicationTerminates ==
    /\ client.state # "TERMINATED"
    /\ client' = Terminate(client, "application")
    /\ UNCHANGED <<server, invites, acks, responses, answers>>

\* ict_destroy, transaction_destroy
ClientDestroyed ==
    /\ client.state = "TERMINATED"
    /\ client.bound \/ client.timers # {}
    /\ client' = [client EXCEPT !.bound = FALSE, !.timers = {}]
    /\ UNCHANGED <<server, invites, acks, responses, answers>>

-----------------------------------------------------------------------------
(* The server transaction (ist.c).                                         *)

\* Fault: the state stays the zero of the freshly allocated object.
belle_sip_ist_new_StaysInit(s) ==
    [NoServer EXCEPT !.state = "INIT", !.bound = TRUE, !.last = 100,
                     !.delivered = s.delivered + 1]

\* belle_sip_provider_create_server_transaction: belle_sip_ist_new, then a
\* 100 that stops the retransmissions of the client
belle_sip_ist_new(s) ==
    [NoServer EXCEPT !.state = "PROCEEDING", !.bound = TRUE, !.last = 100,
                     !.delivered = s.delivered + 1, !.ioerrors = s.ioerrors]

\* belle_sip_server_transaction_check_channel when a channel is there or is
\* found.  belle_sip_provider_get_channel finds none when no listening point
\* serves the transport any more; nothing is sent then.
Bind(s) == [s EXCEPT !.bound = TRUE, !.gaveUp = FALSE]

\* belle_sip_provider_dispatch_request, and for a known INVITE
\* ist_on_request_retransmission, which looks for a channel if it lost its own.
ReceiveInvite ==
    /\ invites
    /\ CASE server.state \in {"NONE", "TERMINATED"} ->
              /\ server.delivered < MaxDeliveries
              /\ server' = belle_sip_ist_new(server)
              /\ responses' = responses \cup {100}
         [] server.state \in {"PROCEEDING", "COMPLETED"} ->
              \/ /\ server' = Bind(server)
                 /\ responses' = responses \cup {server.last}
              \/ /\ ~server.bound
                 /\ UNCHANGED <<server, responses>>
         [] OTHER -> UNCHANGED <<server, responses>>
    /\ \/ invites' = FALSE
       \/ ~Reliable /\ UNCHANGED invites
    /\ UNCHANGED <<client, acks, answers>>

\* Fault: no timer ends the transaction, only those that repeat the response.
ist_send_new_response_NoEnd(s, code) ==
    IF s.state = "PROCEEDING" /\ Failure(code)
    THEN [s EXCEPT !.state = "COMPLETED", !.last = code,
                   !.timers = @ \cup (IF Reliable THEN {} ELSE {"G"})]
    ELSE IF s.state = "PROCEEDING" /\ Success(code)
    THEN [s EXCEPT !.state = "ACCEPTED", !.last = code]
    ELSE s

\* ist_send_new_response, and last_response in its caller
ist_send_new_response(s, code) ==
    CASE s.state = "PROCEEDING" /\ Success(code) ->
            [s EXCEPT !.state = "ACCEPTED", !.timers = @ \cup {"L"}, !.last = code]
      [] s.state = "PROCEEDING" /\ Failure(code) ->
            [s EXCEPT !.state = "COMPLETED", !.last = code,
                      !.timers = @ \cup {"H"} \cup (IF Reliable THEN {} ELSE {"G"})]
      [] s.state = "PROCEEDING" /\ ~Final(code) -> [s EXCEPT !.last = code]
      [] s.state = "ACCEPTED" /\ Success(code) -> [s EXCEPT !.last = code]
      [] OTHER -> s

\* belle_sip_server_transaction_send_response when there is a channel: only
\* a transaction in PROCEEDING sends.
Answer(s, code) ==
    /\ server' = ist_send_new_response(Bind(s), code)
    /\ IF server.state = "PROCEEDING"
       THEN /\ responses' = responses \cup {code}
            /\ answers' = IF Final(code)
                          THEN answers \cup {<<server.delivered, code>>} ELSE answers
       ELSE UNCHANGED <<responses, answers>>
    /\ UNCHANGED <<client, invites, acks>>

\* The application answers; without a channel the response is dropped, which
\* changes nothing here.
SendResponse(code) ==
    /\ server.state \notin {"NONE", "TERMINATED"}
    /\ Answer(server, code)

\* server_transaction_on_call_repair_timer: the timer stops even if no
\* channel was found for the 503.
ServerRepairTimer ==
    /\ "R" \in server.timers
    /\ LET fired == [server EXCEPT !.timers = @ \ {"R"}]
       IN \/ Answer(fired, 503)
          \/ /\ ~server.bound
             /\ server' = [fired EXCEPT !.gaveUp = TRUE]
             /\ UNCHANGED <<client, invites, acks, responses, answers>>

\* belle_sip_server_transaction_on_request and belle_sip_ist_process_ack
ReceiveAck ==
    /\ acks
    /\ server' = IF server.state # "COMPLETED" THEN server
                 ELSE LET confirmed == [server EXCEPT !.state = "CONFIRMED",
                                                      !.timers = @ \ {"G"}]
                      IN IF Reliable THEN Terminate(confirmed, "acked")
                         ELSE [confirmed EXCEPT !.timers = @ \cup {"I"}]
    /\ \/ acks' = FALSE
       \/ ~Reliable /\ UNCHANGED acks
    /\ UNCHANGED <<client, invites, responses, answers>>

\* ist_on_timer_G
TimerG ==
    /\ "G" \in server.timers
    /\ IF server.state = "COMPLETED"
       THEN /\ responses' = responses \cup {server.last}
            /\ server' = Bind(server)
       ELSE /\ server' = [server EXCEPT !.timers = @ \ {"G"}]
            /\ UNCHANGED responses
    /\ UNCHANGED <<client, invites, acks, answers>>

\* ist_on_timer_H
TimerH ==
    /\ "H" \in server.timers
    /\ LET fired == [server EXCEPT !.timers = @ \ {"H"}]
       IN server' = IF server.state = "COMPLETED" THEN Terminate(fired, "timer")
                    ELSE fired
    /\ UNCHANGED <<client, invites, acks, responses, answers>>

\* ist_on_timer_I
TimerI ==
    /\ "I" \in server.timers
    /\ server' = Terminate([server EXCEPT !.timers = @ \ {"I"}], "acked")
    /\ UNCHANGED <<client, invites, acks, responses, answers>>

\* ist_on_timer_L
TimerL ==
    /\ "L" \in server.timers
    /\ server' = Terminate([server EXCEPT !.timers = @ \ {"L"}], "timer")
    /\ UNCHANGED <<client, invites, acks, responses, answers>>

ServerChannelLost ==
    /\ server.bound
    /\ server.ioerrors < MaxFailures
    /\ server' = ChannelError(server)
    /\ UNCHANGED <<client, invites, acks, responses, answers>>

-----------------------------------------------------------------------------
(* The network.                                                            *)

Lose ==
    /\ ~Reliable
    /\ \/ invites /\ invites' = FALSE /\ UNCHANGED <<acks, responses>>
       \/ acks /\ acks' = FALSE /\ UNCHANGED <<invites, responses>>
       \/ \E code \in responses :
             responses' = responses \ {code} /\ UNCHANGED <<invites, acks>>
    /\ UNCHANGED <<client, server, answers>>

\* A proxy forked the INVITE and another branch accepts the call.
ForkedAnswer(code) ==
    /\ Forking
    /\ Success(code)
    /\ client.state # "INIT" /\ server.state # "NONE"
    /\ responses' = responses \cup {code}
    /\ answers' = answers \cup {<<0, code>>}
    /\ UNCHANGED <<client, server, invites, acks>>

ClientNext ==
    \/ SendRequest \/ ChannelReady \/ ChannelFails \/ ChannelErrorNotified
    \/ ChannelDisconnected \/ (\E code \in AllCodes : ReceiveResponse(code))
    \/ TimerA \/ TimerB \/ TimerD \/ TimerM \/ ClientRepairTimer
    \/ StopRetransmissions \/ ApplicationTerminates \/ ClientDestroyed

ServerNext ==
    \/ ReceiveInvite \/ ReceiveAck \/ (\E code \in Codes : SendResponse(code))
    \/ ServerRepairTimer \/ TimerG \/ TimerH \/ TimerI \/ TimerL
    \/ ServerChannelLost

Next ==
    \/ ClientNext \/ ServerNext
    \/ Lose \/ (\E code \in Codes : ForkedAnswer(code))

Spec == Init /\ [][Next]_vars

\* The main loop serves every expired timer and every deferred task; nothing
\* is assumed of the network or of the applications.
Fairness ==
    /\ WF_vars(TimerB) /\ WF_vars(TimerD) /\ WF_vars(TimerM)
    /\ WF_vars(ClientRepairTimer) /\ WF_vars(ChannelErrorNotified)
    /\ WF_vars(TimerH) /\ WF_vars(TimerI) /\ WF_vars(TimerL)
    /\ WF_vars(ServerRepairTimer)

FairSpec == Spec /\ Fairness

-----------------------------------------------------------------------------
(* Properties.                                                             *)

\* Both transactions, the messages in flight and the history stay within
\* their types.
TypeOK ==
    /\ client \in Clients
    /\ server \in Servers
    /\ invites \in BOOLEAN /\ acks \in BOOLEAN
    /\ responses \in SUBSET AllCodes
    /\ answers \in SUBSET (Nat \X AllCodes)

\* An INVITE that lost its channel is watched: as long as a side has no final
\* answer and no channel, its call repair timer runs, and as long as nobody
\* answered the client, timer B or that timer runs.  The one exception is a
\* server transaction whose call repair timer found no channel for its 503
\* (server_transaction_on_call_repair_timer stops all the same): only another
\* copy of the INVITE or the application can still move it.
RepairArmed ==
    /\ Transient(client.state) /\ client.chan = "CLOSED" /\ ~client.bound
          => "R" \in client.timers
    /\ client.state = "CALLING" => {"B", "R"} \cap client.timers # {}
    /\ Transient(server.state) /\ ~server.bound => "R" \in server.timers \/ server.gaveUp
    /\ server.gaveUp => server.state = "PROCEEDING" /\ ~server.bound /\ server.timers = {}

\* A server transaction that waits for the ACK of its failure has a channel
\* (belle_sip_ist_process_ack asks it whether it is reliable) and a timer
\* that ends the wait.
AckAwaited ==
    server.state = "COMPLETED" => server.bound /\ "H" \in server.timers

\* Whoever waits, for an answer, a channel or an ACK, has what ends the wait,
\* or has used up its call repair timer for nothing.
NeverStranded == RepairArmed /\ AckAwaited

\* The called side takes the call for refused-and-acknowledged only when the
\* caller was told of a failure.
ConfirmedMeansHeard ==
    server.state = "CONFIRMED" \/ server.cause = "acked" => client.failures = 1

\* The caller hears at most one failure and one timeout, never both, and one
\* end; a transaction it did not end itself reported something before.
\* Without forking, and unless a late copy of the INVITE made the called
\* side start again, it never hears both a failure and a success.
OneOutcome ==
    /\ ~Forking /\ server.delivered <= 1 => ~(client.success /\ client.failures > 0)
    /\ client.failures + client.timeouts <= 1
    /\ client.timeouts = 1 => ~client.success
    /\ client.ends = IF client.state = "TERMINATED" THEN 1 ELSE 0
    /\ client.state = "TERMINATED" =>
          \/ client.cause = "application" \/ client.success
          \/ client.failures + client.timeouts + client.ioerrors > 0

\* Each incarnation of the server transaction commits to one final answer,
\* whatever its application and its call repair timer send afterwards.
CommittedAnswer ==
    \A a, b \in answers : a[1] = b[1] /\ a[1] > 0 => a = b

\* Both sides of a refused call agree that it was refused, and with which
\* answer.
AgreedAnswer == CommittedAnswer /\ ConfirmedMeansHeard

\* A caller whose call was accepted is never told afterwards that it failed,
\* though a success may still follow a failure (the CANCEL / 200 race).
NoFailureAfterSuccess ==
    [][client.success => client'.failures = client.failures]_vars

\* A caller with a final answer, or without any answer, is not kept waiting
\* for ever, and neither is one whose channel is gone.
ClientEnds ==
    /\ client.state \in {"CALLING", "COMPLETED", "ACCEPTED"}
          ~> client.state \notin {"CALLING", "COMPLETED", "ACCEPTED"}
    /\ (Transient(client.state) /\ client.chan = "CLOSED")
          ~> (client.state = "TERMINATED" \/ client.bound)

\* A server transaction that answered is released by timers H, I or L, and
\* one that lost its channel finds another one, answers 503, or gave up
\* because its call repair timer found no channel.
ServerReleased ==
    /\ server.state \in {"ACCEPTED", "COMPLETED", "CONFIRMED"} ~> server.state = "TERMINATED"
    /\ (server.state = "PROCEEDING" /\ ~server.bound)
          ~> (server.state # "PROCEEDING" \/ server.bound \/ server.gaveUp)
=============================================================================
