------------------------ MODULE NonInviteTransaction ------------------------
(***************************************************************************)
(* One non-INVITE request carried by belle-sip: the client transaction     *)
(* (nict.c), the server transaction (nist.c), what both inherit from       *)
(* transaction.c, the part of provider.c that matches messages with        *)
(* transactions, and the channel of the client as the transaction sees it. *)
(* The network may lose, duplicate, delay and reorder unless the transport *)
(* is reliable.  Timers are sets of armed timers here and fire at any      *)
(* time; NonInviteTimed adds the durations.                                *)
(***************************************************************************)
EXTENDS Naturals

CONSTANTS
    Codes,          \* status codes the server application may answer with
    Reliable,       \* TRUE for TCP and TLS, FALSE for UDP
    Register,       \* TRUE when the method is REGISTER
    Reactions,      \* what the application may do inside a response callback
    MaxDeliveries   \* bound: how often the request may reach the server's TU

ASSUME CodesAssumption == Codes \subseteq 100..699
ASSUME ModeAssumption == Reliable \in BOOLEAN /\ Register \in BOOLEAN
ASSUME ReactionsAssumption == Reactions \subseteq {"none", "terminate", "close"}
ASSUME DeliveriesAssumption == MaxDeliveries \in Nat \ {0}

VARIABLES
    client,     \* the client transaction, its channel and its upcalls
    server,     \* the server transaction of the latest incarnation
    requests,   \* is a copy of the request in flight?
    responses,  \* codes of the responses in flight
    answers     \* history: <<incarnation, code>> of every final response sent

vars == <<client, server, requests, responses, answers>>

Final(code) == code >= 200

ClientStates == {"INIT", "TRYING", "PROCEEDING", "COMPLETED", "TERMINATED"}
ServerStates == {"NONE", "TRYING", "PROCEEDING", "COMPLETED", "TERMINATED"}
ChannelStates == {"NONE", "CONNECTING", "READY", "ERROR", "CLOSED"}

Clients == [state : ClientStates,
            timers : SUBSET {"E", "F", "K"},
            bound : BOOLEAN,        \* t->channel is not NULL
            chan : ChannelStates,   \* ERROR: listeners not notified yet
            timed_out : BOOLEAN,
            finals : Nat, final : Codes \cup {0},
            timeouts : Nat, ioerrors : Nat, ends : Nat,
            dropped : BOOLEAN,      \* ended by the application, or never sent
            nullUse : BOOLEAN]      \* a NULL channel was dereferenced

Servers == [state : ServerStates,
            timers : SUBSET {"J"},
            bound : BOOLEAN,
            last : Codes \cup {0},  \* last_response, 0 when NULL
            delivered : Nat, ioerrors : Nat, ends : Nat]

NewClient == [state |-> "INIT", timers |-> {}, bound |-> FALSE,
              chan |-> "NONE", timed_out |-> FALSE, finals |-> 0, final |-> 0,
              timeouts |-> 0, ioerrors |-> 0, ends |-> 0, dropped |-> FALSE,
              nullUse |-> FALSE]

NoServer == [state |-> "NONE", timers |-> {}, bound |-> FALSE, last |-> 0,
             delivered |-> 0, ioerrors |-> 0, ends |-> 0]

Init == /\ client = NewClient
        /\ server = NoServer
        /\ requests = FALSE
        /\ responses = {}
        /\ answers = {}

-----------------------------------------------------------------------------
(* What both kinds of transaction inherit from transaction.c.              *)

\* belle_sip_transaction_terminate with the on_terminate of nict.c and
\* nist.c: the first call stops every timer and tells the listener, the
\* others do nothing.
Terminate(t) ==
    IF t.state = "TERMINATED" THEN t
    ELSE [t EXCEPT !.state = "TERMINATED", !.timers = {}, !.ends = @ + 1]

\* transaction_handle_channel_error for a transaction that listens to the
\* lost channel.  A non-INVITE transaction has no call repair: it ends.
ReportIoError(t) ==
    IF t.state \in {"COMPLETED", "TERMINATED"} THEN t
    ELSE [t EXCEPT !.ioerrors = @ + 1]

\* Fault: the transaction survives its channel, as an INVITE does.
ClientChannelError_Survives(c) ==
    IF c.bound THEN [ReportIoError(c) EXCEPT !.bound = FALSE] ELSE c

ClientChannelError(c) ==
    LET told == [ReportIoError(c) EXCEPT
                    !.timeouts = IF c.timed_out THEN @ + 1 ELSE @]
    IN IF c.bound THEN [Terminate(told) EXCEPT !.bound = FALSE] ELSE c

ServerChannelError(s) ==
    [Terminate(ReportIoError(s)) EXCEPT !.bound = FALSE]

\* The channel moves on to its next address: channel_set_state(RETRY) tells
\* the listeners at once, and a transaction whose request left fails.
ChannelRetry(c) ==
    [(IF c.state = "INIT" THEN c ELSE ClientChannelError(c))
        EXCEPT !.chan = "CONNECTING"]

\* channel_set_state(ERROR) after soft_error = TRUE: another address if
\* there is one, otherwise ERROR now and the listeners from the main loop.
SoftError(c, alternate) ==
    IF c.chan = "ERROR" THEN c
    ELSE IF alternate THEN ChannelRetry(c)
    ELSE [c EXCEPT !.chan = "ERROR"]

\* What the application may do inside process_response_event.
React(c, reaction) ==
    CASE reaction = "terminate" -> [Terminate(c) EXCEPT !.dropped = TRUE]
      [] reaction = "close"     -> [ClientChannelError(c) EXCEPT !.chan = "CLOSED"]
      [] OTHER                  -> c

-----------------------------------------------------------------------------
(* The client transaction (nict.c).                                        *)

\* nict_send_request.  A message queued on a channel that is not READY is
\* not sent; the one caller that finds the channel not READY is timer E.
nict_send_request(c) ==
    [c EXCEPT !.state = "TRYING",
              !.timers = {"F"} \cup (IF Reliable THEN {} ELSE {"E"})]

\* belle_sip_client_transaction_send_request: the provider finds or creates
\* a channel that is ready or still has to connect, or finds none.
SendRequest ==
    /\ client.state = "INIT"
    /\ client.chan = "NONE"
    /\ \/ /\ client' = nict_send_request([client EXCEPT !.bound = TRUE, !.chan = "READY"])
          /\ requests' = TRUE
       \/ /\ client' = [client EXCEPT !.bound = TRUE, !.chan = "CONNECTING"]
          /\ UNCHANGED requests
       \/ /\ client' = [Terminate(client) EXCEPT !.dropped = TRUE]
          /\ UNCHANGED requests
    /\ UNCHANGED <<server, responses, answers>>

\* on_channel_state_changed(READY)
ChannelReady ==
    /\ client.chan = "CONNECTING"
    /\ IF client.bound /\ client.state = "INIT"
       THEN /\ client' = nict_send_request([client EXCEPT !.chan = "READY"])
            /\ requests' = TRUE
       ELSE /\ client' = [client EXCEPT !.chan = "READY"]
            /\ UNCHANGED requests
    /\ UNCHANGED <<server, responses, answers>>

\* belle_sip_channel_handle_error: the connection attempt failed or the
\* channel broke; the listeners are told later, from the main loop.
ChannelFails ==
    /\ client.chan \in {"CONNECTING", "READY"}
    /\ client' = [client EXCEPT !.chan = "ERROR"]
    /\ UNCHANGED <<server, requests, responses, answers>>

\* channel_notify_error_to_listeners
ChannelErrorNotified ==
    /\ client.chan = "ERROR"
    /\ client' = [ClientChannelError(client) EXCEPT !.chan = "CLOSED"]
    /\ UNCHANGED <<server, requests, responses, answers>>

\* channel_set_state(DISCONNECTED): the peer closed, the inactivity timer
\* fired, or the application closed the channel; the listeners hear at once.
ChannelDisconnected ==
    /\ client.chan \in {"CONNECTING", "READY", "ERROR"}
    /\ client' = [ClientChannelError(client) EXCEPT !.chan = "CLOSED"]
    /\ UNCHANGED <<server, requests, responses, answers>>

\* belle_sip_client_transaction_notify_response for a final response to
\* nict_set_completed, which then arms timer K or ends.
notify_response(c, code, reaction, alternate) ==
    LET heard   == IF Final(code)
                   THEN [c EXCEPT !.finals = @ + 1, !.final = code] ELSE c
        reacted == React(heard, reaction)
    IN IF Register /\ code \in {500, 503}
       THEN IF reacted.bound THEN SoftError(reacted, alternate)
            ELSE [reacted EXCEPT !.nullUse = TRUE]
       ELSE reacted

\* Fault: nothing is left to end a completed transaction.
nict_set_completed_NoTimerK(c, code, reaction, alternate) ==
    notify_response([c EXCEPT !.state = "COMPLETED"], code, reaction, alternate)

nict_set_completed(c, code, reaction, alternate) ==
    LET told == notify_response([c EXCEPT !.state = "COMPLETED"],
                                code, reaction, alternate)
    IN IF Reliable THEN Terminate(told)
       ELSE [told EXCEPT !.timers = @ \cup {"K"}]

\* Fault: a copy of the final response is taken for a new one.
nict_on_response_Repeats(c, code, reaction, alternate) ==
    IF c.state \in {"TRYING", "PROCEEDING", "COMPLETED"} /\ Final(code)
    THEN nict_set_completed(c, code, reaction, alternate)
    ELSE c

nict_on_response(c, code, reaction, alternate) ==
    CASE c.state \in {"TRYING", "PROCEEDING"} /\ Final(code) ->
            nict_set_completed(c, code, reaction, alternate)
      [] c.state = "TRYING" /\ ~Final(code) ->
            notify_response([c EXCEPT !.state = "PROCEEDING"], code, reaction, alternate)
      [] OTHER -> c

\* belle_sip_provider_dispatch_response.  A response that matches no live
\* transaction goes to the application without one.
ReceiveResponse(code) ==
    /\ code \in responses
    /\ \E reaction \in Reactions, alternate \in BOOLEAN :
          client' = nict_on_response(client, code, reaction, alternate)
    /\ \/ responses' = responses \ {code}
       \/ ~Reliable /\ UNCHANGED responses
    /\ UNCHANGED <<server, requests, answers>>

\* nict_on_timer_E, which uses base->channel without looking at it
TimerE ==
    /\ "E" \in client.timers
    /\ IF client.state \in {"TRYING", "PROCEEDING"}
       THEN /\ client' = [client EXCEPT !.nullUse = @ \/ ~client.bound]
            /\ requests' = (requests \/ client.chan = "READY")
       ELSE /\ client' = [client EXCEPT !.timers = @ \ {"E"}]
            /\ UNCHANGED requests
    /\ UNCHANGED <<server, responses, answers>>

\* belle_sip_transaction_notify_timeout: a REGISTER blames the channel when
\* it is READY and silent for a minute (suspect), and leaves the report to
\* the error that follows.  The flag is set after the channel has spoken.
notify_timeout(c, suspect, alternate) ==
    IF Register /\ suspect /\ c.chan = "READY"
    THEN [SoftError(c, alternate) EXCEPT !.timed_out = TRUE]
    ELSE Terminate([c EXCEPT !.timeouts = @ + 1])

\* nict_on_timer_F
TimerF ==
    /\ "F" \in client.timers
    /\ LET fired == [client EXCEPT !.timers = @ \ {"F"}]
       IN IF client.state \in {"TRYING", "PROCEEDING"}
          THEN \E suspect, alternate \in BOOLEAN :
                  client' = notify_timeout(fired, suspect, alternate)
          ELSE client' = fired
    /\ UNCHANGED <<server, requests, responses, answers>>

\* nict_on_timer_K
TimerK ==
    /\ "K" \in client.timers
    /\ client' = Terminate([client EXCEPT !.timers = @ \ {"K"}])
    /\ UNCHANGED <<server, requests, responses, answers>>

\* belle_sip_client_transaction_stop_retransmissions, nict_stop_retransmissions
StopRetransmissions ==
    /\ "E" \in client.timers
    /\ client' = [client EXCEPT !.timers = @ \ {"E"}]
    /\ UNCHANGED <<server, requests, responses, answers>>

\* The application ends the transaction itself.
ApplicationTerminates ==
    /\ client.state # "TERMINATED"
    /\ client' = [Terminate(client) EXCEPT !.dropped = TRUE]
    /\ UNCHANGED <<server, requests, responses, answers>>

\* The last reference to an ended transaction goes: nict_destroy,
\* transaction_destroy.
ClientDestroyed ==
    /\ client.state = "TERMINATED"
    /\ client.bound \/ client.timers # {}
    /\ client' = [client EXCEPT !.bound = FALSE, !.timers = {}]
    /\ UNCHANGED <<server, requests, responses, answers>>

-----------------------------------------------------------------------------
(* The server transaction (nist.c).                                        *)

\* Fault: the state stays the zero of the freshly allocated object.
belle_sip_nist_new_StaysInit(s) ==
    [NoServer EXCEPT !.state = "INIT", !.delivered = s.delivered + 1]

\* A request no live transaction matches goes to the application, which
\* creates a transaction for it: belle_sip_nist_new.
belle_sip_nist_new(s) ==
    [NoServer EXCEPT !.state = "TRYING", !.delivered = s.delivered + 1]

\* belle_sip_provider_dispatch_request, and for a known request
\* nist_on_request_retransmission.
ReceiveRequest ==
    /\ requests
    /\ IF server.state \in {"NONE", "TERMINATED"}
       THEN /\ server.delivered < MaxDeliveries
            /\ server' = belle_sip_nist_new(server)
            /\ UNCHANGED responses
       ELSE /\ responses' =
                  IF server.state \in {"PROCEEDING", "COMPLETED"} /\ server.bound
                  THEN responses \cup {server.last} ELSE responses
            /\ UNCHANGED server
    /\ \/ requests' = FALSE
       \/ ~Reliable /\ UNCHANGED requests
    /\ UNCHANGED <<client, answers>>

\* Fault: a second final response replaces the first.
nist_send_new_response_Replaces(s, code) ==
    IF s.state \in {"TRYING", "PROCEEDING", "COMPLETED"} /\ Final(code)
    THEN [s EXCEPT !.state = "COMPLETED", !.timers = {"J"}, !.last = code]
    ELSE [s EXCEPT !.last = code]

\* nist_send_new_response and the assignment of last_response by its caller
nist_send_new_response(s, code) ==
    CASE s.state \in {"TRYING", "PROCEEDING"} /\ Final(code) ->
            [s EXCEPT !.state = "COMPLETED", !.timers = {"J"}, !.last = code]
      [] s.state \in {"TRYING", "PROCEEDING"} /\ ~Final(code) ->
            [s EXCEPT !.state = "PROCEEDING", !.last = code]
      [] s.state = "COMPLETED" -> s
      [] OTHER -> [s EXCEPT !.last = code]

\* belle_sip_server_transaction_send_response.  When the transaction has no
\* channel and the provider finds none, nothing happens at all.
SendResponse(code) ==
    /\ server.state # "NONE"
    /\ server' = nist_send_new_response([server EXCEPT !.bound = TRUE], code)
    /\ IF server.state \in {"TRYING", "PROCEEDING"}
       THEN /\ responses' = responses \cup {code}
            /\ answers' = IF Final(code)
                          THEN answers \cup {<<server.delivered, code>>} ELSE answers
       ELSE UNCHANGED <<responses, answers>>
    /\ UNCHANGED <<client, requests>>

ServerChannelLost ==
    /\ server.bound
    /\ server' = ServerChannelError(server)
    /\ UNCHANGED <<client, requests, responses, answers>>

\* nist_on_timer_J
TimerJ ==
    /\ "J" \in server.timers
    /\ server' = Terminate([server EXCEPT !.timers = {}])
    /\ UNCHANGED <<client, requests, responses, answers>>

\* The network loses a message.
Lose ==
    /\ ~Reliable
    /\ \/ requests /\ requests' = FALSE /\ UNCHANGED responses
       \/ \E code \in responses :
             responses' = responses \ {code} /\ UNCHANGED requests
    /\ UNCHANGED <<client, server, answers>>

-----------------------------------------------------------------------------
ClientNext ==
    \/ SendRequest \/ ChannelReady \/ ChannelFails \/ ChannelErrorNotified
    \/ ChannelDisconnected \/ (\E code \in Codes : ReceiveResponse(code))
    \/ TimerE \/ TimerF \/ TimerK
    \/ StopRetransmissions \/ ApplicationTerminates \/ ClientDestroyed

ServerNext ==
    \/ ReceiveRequest \/ (\E code \in Codes : SendResponse(code))
    \/ ServerChannelLost \/ TimerJ

Next == ClientNext \/ ServerNext \/ Lose

Spec == Init /\ [][Next]_vars

\* The main loop serves every timer that has expired and every task handed
\* to belle_sip_main_loop_do_later; nothing is assumed of the network.
Fairness ==
    /\ WF_vars(TimerF) /\ WF_vars(TimerK) /\ WF_vars(TimerJ)
    /\ WF_vars(ChannelErrorNotified)

FairSpec == Spec /\ Fairness

-----------------------------------------------------------------------------
(* Properties.                                                             *)

\* Both transactions, the messages in flight and the history stay within
\* their types.
TypeOK ==
    /\ client \in Clients
    /\ server \in Servers
    /\ requests \in BOOLEAN
    /\ responses \in SUBSET Codes
    /\ answers \in SUBSET (Nat \X Codes)

\* The code never follows a NULL channel: timer E (nict.c:113) and the
\* report of a failing registrar (transaction.c:657) use base->channel
\* without a test.
NoNullChannelUse == ~client.nullUse

\* A request that left is never forgotten: while it waits for its answer
\* the client has a channel, and either timer F is armed or the error of
\* that channel is about to be notified.
WatchdogArmed ==
    client.state \in {"TRYING", "PROCEEDING"} =>
        /\ client.bound
        /\ "F" \in client.timers \/ client.chan = "ERROR"

\* However duplicated and late the answers, errors and timers are, the
\* application hears one outcome and one end.  A REGISTER that blamed its
\* channel may still hear a late answer before the timeout is reported.
OneOutcome ==
    /\ client.finals + client.ioerrors <= 1
    /\ client.timeouts <= 1
    /\ ~Register => client.finals + client.ioerrors + client.timeouts <= 1
    /\ client.ends = IF client.state = "TERMINATED" THEN 1 ELSE 0

\* A transaction the application did not end itself never ends without an
\* answer, a timeout or an I/O error having been reported.
NoSilentEnd ==
    client.state = "TERMINATED" =>
        client.dropped \/ client.finals + client.timeouts + client.ioerrors > 0

\* Each incarnation of the server transaction commits to one final response:
\* retransmissions never carry another, whatever the application tries to
\* send afterwards, and the client only hears what some incarnation said.
ConsistentAnswer ==
    /\ \A a, b \in answers : a[1] = b[1] => a = b
    /\ \A code \in responses \cup {client.final} :
          Final(code) => \E a \in answers : a[2] = code

\* Once the client has its answer, or has ended, no copy of the request
\* enters the network any more (timers E and F may still be running).
NoLateRetransmission ==
    [][client.state \in {"COMPLETED", "TERMINATED"} => (requests' => requests)]_vars

\* A request that left ends: by its answer, by timer F, or by the channel.
ClientEnds == client.state \in {"TRYING", "PROCEEDING", "COMPLETED"} ~> client.state = "TERMINATED"
=============================================================================
