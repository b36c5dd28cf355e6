------------------------ MODULE NonInviteTimedProofs ------------------------
(***************************************************************************)
(* Proofs about NonInviteTimed, for every T1, T4 and set of status codes,  *)
(* every method and both kinds of transport.  Each theorem names what it   *)
(* asks of T2 and of the delay of the network.                             *)
(***************************************************************************)
EXTENDS NonInviteTimed, NonInviteProofs

-----------------------------------------------------------------------------
(* The steps of the client, seen from its timers.                          *)

\* A step from c to d that is not the departure of the request: the state
\* only moves on, no timer starts while the client waits for its answer, and
\* timer K accompanies a completed transaction.
Calm(c, d) ==
    /\ d.state = "INIT" => c.state = "INIT" /\ d.timers \subseteq c.timers
    /\ d.state = "TRYING" => c.state = "TRYING"
    /\ Waiting(d) => Waiting(c) /\ d.timers \subseteq c.timers
    /\ d.state = "COMPLETED" =>
          \/ c.state = "COMPLETED" /\ ("K" \in c.timers => "K" \in d.timers)
          \/ Waiting(c) /\ "K" \in d.timers

\* The request leaves for the first time.
Departs ==
    /\ client.state = "INIT"
    /\ client'.state = "TRYING"
    /\ client'.timers = {"F"} \cup (IF Reliable THEN {} ELSE {"E"})
    /\ requests' = TRUE
    /\ UNCHANGED <<server, answers>>

LEMMA EndedCalm ==
    ASSUME NEW c, NEW d, d.state = "TERMINATED"
    PROVE  Calm(c, d)
BY DEF Calm, Waiting

\* d has the state of c, and at most a timer E or F less.
LEMMA SameStateCalm ==
    ASSUME NEW c, NEW d, d.state = c.state, d.timers \subseteq c.timers,
           "K" \in c.timers => "K" \in d.timers
    PROVE  Calm(c, d)
BY DEF Calm, Waiting

\* nict_on_response
LEMMA ResponseCalm ==
    ASSUME NEW c, Sane(c), NEW code \in Codes,
           NEW reaction \in Reactions, NEW alternate \in BOOLEAN
    PROVE  Calm(c, nict_on_response(c, code, reaction, alternate))
<1>1. CASE Waiting(c) /\ Final(code)
  <2>. DEFINE d == nict_set_completed(c, code, reaction, alternate)
  <2>1. nict_on_response(c, code, reaction, alternate) = d
    BY <1>1 DEF nict_on_response, Waiting
  <2>2. /\ d.state \in {"COMPLETED", "TERMINATED"}
        /\ d.state = "COMPLETED" => "K" \in d.timers
    BY <1>1, CompletedSane
  <2>. HIDE DEF d
  <2>3. Calm(c, d)
    BY <1>1, <2>2 DEF Calm, Waiting
  <2>. QED BY <2>1, <2>3
<1>2. CASE c.state = "TRYING" /\ ~Final(code)
  <2>. DEFINE h == [c EXCEPT !.state = "PROCEEDING"]
              d == React(h, reaction)
  <2>1. ~(code \in {500, 503})
    BY <1>2, CodesAssumption DEF Final
  <2>2. nict_on_response(c, code, reaction, alternate) = d
    BY <1>2, <2>1 DEF nict_on_response, notify_response
  <2>3. h.state = "PROCEEDING" /\ h.timers = c.timers /\ h.bound = c.bound /\ h \in Clients
    BY DEF Sane, Clients, ClientStates
  <2>4. c.bound
    BY <1>2 DEF Sane, Channelled, Waiting
  <2>. HIDE DEF h
  <2>5. d.state = "TERMINATED" \/ d = h
    <3>1. CASE reaction = "none"
      BY <3>1 DEF React
    <3>2. CASE reaction = "terminate"
      <4>. DEFINE e == Terminate(h)
      <4>1. e \in Clients /\ e.state = "TERMINATED"
        BY <2>3, TerminateShape
      <4>2. d = [e EXCEPT !.dropped = TRUE]
        BY <3>2 DEF React
      <4>. HIDE DEF e, d
      <4>. QED BY <4>1, <4>2 DEF Clients
    <3>3. CASE reaction = "close"
      <4>. DEFINE e == ClientChannelError(h)
      <4>1. e \in Clients /\ e.state = "TERMINATED"
        BY <2>3, <2>4, ChannelErrorShape
      <4>2. d = [e EXCEPT !.chan = "CLOSED"]
        BY <3>3 DEF React
      <4>. HIDE DEF e, d
      <4>. QED BY <4>1, <4>2 DEF Clients
    <3>. QED BY <3>1, <3>2, <3>3, ReactionsAssumption
  <2>. HIDE DEF d
  <2>6. Calm(c, d)
    BY <1>2, <2>3, <2>5 DEF Calm, Waiting
  <2>. QED BY <2>2, <2>6
<1>3. CASE ~(Waiting(c) /\ Final(code)) /\ ~(c.state = "TRYING" /\ ~Final(code))
  <2>1. nict_on_response(c, code, reaction, alternate) = c
    BY <1>3 DEF nict_on_response, Waiting
  <2>. QED BY <2>1, SameStateCalm
<1>. QED BY <1>1, <1>2, <1>3

\* nict_on_timer_F: the transaction ends, or waits for the error of the
\* channel it blames.
LEMMA TimeoutCalm ==
    ASSUME NEW c, Sane(c), Waiting(c), NEW suspect \in BOOLEAN, NEW alternate \in BOOLEAN
    PROVE  Calm(c, notify_timeout([c EXCEPT !.timers = @ \ {"F"}], suspect, alternate))
<1>. DEFINE h == [c EXCEPT !.timers = @ \ {"F"}]
            d == notify_timeout(h, suspect, alternate)
<1>1. /\ h \in Clients /\ h.state = c.state /\ h.timers = c.timers \ {"F"}
      /\ h.bound = c.bound
  BY DEF Sane, Clients
<1>2. c.bound /\ c.state \in {"TRYING", "PROCEEDING"}
  BY DEF Sane, Channelled, Waiting
<1>. HIDE DEF h
<1>3. CASE ~(Register /\ suspect /\ h.chan = "READY")
  <2>. DEFINE e == [h EXCEPT !.timeouts = @ + 1]
  <2>1. d = Terminate(e)
    BY <1>3 DEF notify_timeout
  <2>2. h.timeouts + 1 \in Nat
    BY <1>1, CountersGrow
  <2>3. e \in Clients
    BY <1>1, <2>2 DEF Clients
  <2>. HIDE DEF e
  <2>4. Terminate(e).state = "TERMINATED"
    BY <2>3, TerminateShape
  <2>. HIDE DEF d
  <2>. QED BY <2>1, <2>4, EndedCalm DEF d, h
<1>4. CASE Register /\ suspect /\ h.chan = "READY" /\ alternate
  <2>. DEFINE e == ClientChannelError(h)
  <2>1. d = [[e EXCEPT !.chan = "CONNECTING"] EXCEPT !.timed_out = TRUE]
    BY <1>1, <1>2, <1>4 DEF notify_timeout, SoftError, ChannelRetry
  <2>2. e \in Clients /\ e.state = "TERMINATED"
    BY <1>1, <1>2, ChannelErrorShape
  <2>. HIDE DEF e, d
  <2>3. d.state = "TERMINATED"
    BY <2>1, <2>2 DEF Clients
  <2>. QED BY <2>3, EndedCalm DEF d, h
<1>5. CASE Register /\ suspect /\ h.chan = "READY" /\ ~alternate
  <2>1. d = [[h EXCEPT !.chan = "ERROR"] EXCEPT !.timed_out = TRUE]
    BY <1>5 DEF notify_timeout, SoftError
  <2>. HIDE DEF d
  <2>2. d.state = h.state /\ d.timers = h.timers
    BY <1>1, <2>1 DEF Clients
  <2>3. Calm(c, d)
    BY <1>1, <2>2, SameStateCalm
  <2>. QED BY <2>3 DEF d, h
<1>. QED BY <1>3, <1>4, <1>5 DEF h

\* Only the first copy of the request is a departure.
LEMMA SendingStep ==
    ASSUME Sane(client), SendRequest \/ ChannelReady
    PROVE  Departs \/ (Calm(client, client') /\ UNCHANGED <<server, requests, answers>>)
<1>. DEFINE c == client
<1>1. c \in Clients /\ Channelled(c)
  BY DEF Sane
<1>2. CASE SendRequest
  <2>1. CASE /\ client' = nict_send_request([client EXCEPT !.bound = TRUE, !.chan = "READY"])
             /\ requests' = TRUE
    <3>1. /\ client'.state = "TRYING"
          /\ client'.timers = {"F"} \cup (IF Reliable THEN {} ELSE {"E"})
      BY <1>1, <2>1 DEF nict_send_request, Clients
    <3>. QED BY <1>2, <2>1, <3>1 DEF SendRequest, Departs
  <2>2. CASE client' = [client EXCEPT !.bound = TRUE, !.chan = "CONNECTING"] /\ UNCHANGED requests
    <3>1. client'.state = c.state /\ client'.timers = c.timers
      BY <1>1, <2>2 DEF Clients
    <3>. QED BY <1>2, <2>2, <3>1, SameStateCalm DEF SendRequest
  <2>3. CASE client' = [Terminate(client) EXCEPT !.dropped = TRUE] /\ UNCHANGED requests
    <3>1. Terminate(c) \in Clients /\ Terminate(c).state = "TERMINATED"
      BY <1>1, TerminateShape
    <3>2. client'.state = "TERMINATED"
      BY <2>3, <3>1 DEF Clients
    <3>. QED BY <1>2, <2>3, <3>2, EndedCalm DEF SendRequest
  <2>. QED BY <1>2, <2>1, <2>2, <2>3 DEF SendRequest
<1>3. CASE ChannelReady
  <2>1. CASE c.bound /\ c.state = "INIT"
    <3>1. client' = nict_send_request([c EXCEPT !.chan = "READY"]) /\ requests' = TRUE
      BY <1>3, <2>1 DEF ChannelReady
    <3>2. /\ client'.state = "TRYING"
          /\ client'.timers = {"F"} \cup (IF Reliable THEN {} ELSE {"E"})
      BY <1>1, <3>1 DEF nict_send_request, Clients
    <3>. QED BY <1>3, <2>1, <3>1, <3>2 DEF ChannelReady, Departs
  <2>2. CASE ~(c.bound /\ c.state = "INIT")
    <3>1. client' = [c EXCEPT !.chan = "READY"]
      BY <1>3, <2>2 DEF ChannelReady
    <3>2. client'.state = c.state /\ client'.timers = c.timers
      BY <1>1, <3>1 DEF Clients
    <3>. QED BY <1>3, <2>2, <3>2, SameStateCalm DEF ChannelReady
  <2>. QED BY <2>1, <2>2
<1>. QED BY <1>2, <1>3

\* Every other step is calm.
LEMMA CalmStep ==
    ASSUME Sane(client),
           \/ ChannelFails \/ ChannelErrorNotified \/ ChannelDisconnected
           \/ (\E code \in Codes : ReceiveResponse(code))
           \/ TimerE \/ TimerF \/ TimerK
           \/ StopRetransmissions \/ ApplicationTerminates \/ ClientDestroyed
           \/ UNCHANGED client
    PROVE  Calm(client, client')
<1>. DEFINE c == client
<1>1. c \in Clients /\ Channelled(c)
  BY DEF Sane
<1>4. CASE ChannelFails
  <2>1. client'.state = c.state /\ client'.timers = c.timers
    BY <1>1, <1>4 DEF ChannelFails, Clients
  <2>. QED BY <2>1, SameStateCalm
<1>5. CASE ChannelErrorNotified \/ ChannelDisconnected
  <2>. DEFINE e == ClientChannelError(c)
  <2>1. client' = [e EXCEPT !.chan = "CLOSED"]
    BY <1>5 DEF ChannelErrorNotified, ChannelDisconnected
  <2>2. e \in Clients /\ (e.state = "TERMINATED" \/ e = c)
    BY <1>1, ChannelErrorShape DEF ClientChannelError
  <2>. HIDE DEF e
  <2>3. client'.state = e.state /\ client'.timers = e.timers
    BY <2>1, <2>2 DEF Clients
  <2>. QED BY <2>2, <2>3, EndedCalm, SameStateCalm
<1>6. CASE \E code \in Codes : ReceiveResponse(code)
  BY <1>6, ResponseCalm DEF ReceiveResponse
<1>7. CASE TimerE
  <2>1. CASE Waiting(c)
    <3>1. client' = [c EXCEPT !.nullUse = @ \/ ~c.bound]
      BY <1>7, <2>1 DEF TimerE, Waiting
    <3>2. client'.state = c.state /\ client'.timers = c.timers
      BY <1>1, <3>1 DEF Clients
    <3>. QED BY <3>2, SameStateCalm
  <2>2. CASE ~Waiting(c)
    <3>1. client' = [c EXCEPT !.timers = @ \ {"E"}]
      BY <1>7, <2>2 DEF TimerE, Waiting
    <3>2. client'.state = c.state /\ client'.timers = c.timers \ {"E"}
      BY <1>1, <3>1 DEF Clients
    <3>. QED BY <3>2, SameStateCalm
  <2>. QED BY <2>1, <2>2
<1>8. CASE TimerF
  <2>1. CASE Waiting(c)
    BY <1>8, <2>1, TimeoutCalm DEF TimerF, Waiting
  <2>2. CASE ~Waiting(c)
    <3>1. client' = [c EXCEPT !.timers = @ \ {"F"}]
      BY <1>8, <2>2 DEF TimerF, Waiting
    <3>2. client'.state = c.state /\ client'.timers = c.timers \ {"F"}
      BY <1>1, <3>1 DEF Clients
    <3>. QED BY <3>2, SameStateCalm
  <2>. QED BY <2>1, <2>2
<1>9. CASE TimerK
  <2>. DEFINE e == [c EXCEPT !.timers = @ \ {"K"}]
  <2>1. client' = Terminate(e) /\ e \in Clients
    BY <1>1, <1>9 DEF TimerK, Clients
  <2>. HIDE DEF e
  <2>2. client'.state = "TERMINATED"
    BY <2>1, TerminateShape
  <2>. QED BY <2>2, EndedCalm
<1>10. CASE StopRetransmissions
  <2>1. client'.state = c.state /\ client'.timers = c.timers \ {"E"}
    BY <1>1, <1>10 DEF StopRetransmissions, Clients
  <2>. QED BY <2>1, SameStateCalm
<1>11. CASE ApplicationTerminates
  <2>1. Terminate(c) \in Clients /\ Terminate(c).state = "TERMINATED"
    BY <1>1, TerminateShape
  <2>2. client' = [Terminate(c) EXCEPT !.dropped = TRUE]
    BY <1>11 DEF ApplicationTerminates
  <2>3. client'.state = "TERMINATED"
    BY <2>1, <2>2 DEF Clients
  <2>. QED BY <2>3, EndedCalm
<1>12. CASE ClientDestroyed
  <2>1. client'.state = "TERMINATED"
    BY <1>1, <1>12 DEF ClientDestroyed, Clients
  <2>. QED BY <2>1, EndedCalm
<1>13. CASE UNCHANGED client
  BY <1>13, SameStateCalm
<1>. QED BY <1>4, <1>5, <1>6, <1>7, <1>8, <1>9, <1>10, <1>11, <1>12,
            <1>13

-----------------------------------------------------------------------------
(* The steps of the timed specification.                                   *)

\* Without its clocks, a timed step is a step of NonInviteTransaction.
LEMMA TimedStep == ASSUME [TimedNext]_timedVars PROVE [Next]_vars
<1>1. CASE TimedNext
  BY <1>1 DEF TimedNext, Tick, Sends, Quiet, TimedE, TimedReceiveRequest, TimedSendResponse,
              TimedServerChannelLost, Next, ClientNext, ServerNext, vars
<1>2. CASE UNCHANGED timedVars
  BY <1>2 DEF timedVars, vars
<1>. QED BY <1>1, <1>2

\* The timers in a step that takes no time: what it arms starts with its
\* duration, what it stops is cleared.
TimersMove ==
    /\ left' = [t \in Timers |->
                  IF t \notin Armed' THEN 0
                  ELSE IF t \in Armed THEN left[t] ELSE Duration(t)]
    /\ interval' = IF "E" \notin Armed' THEN 0
                   ELSE IF "E" \in Armed THEN interval ELSE T1

\* No copy leaves and no time passes.
Still ==
    /\ TimersMove
    /\ reqLeft' = IF ~requests' THEN 0 ELSE reqLeft
    /\ age' = IF client'.state = "TERMINATED" THEN 0 ELSE age
    /\ sent' = sent

\* The clocks when the request leaves for the first time
Started ==
    /\ Departs
    /\ TimersMove
    /\ reqLeft' = Delay
    /\ age' = age
    /\ sent' = sent + 1
    /\ broken' = broken

\* Timer E of a client that waits: one more copy, if the channel is ready.
Repeated ==
    /\ Waiting(client)
    /\ "E" \in client.timers
    /\ left["E"] = 0
    /\ client'.state = client.state /\ client'.timers = client.timers
    /\ interval' = NextInterval
    /\ left' = [left EXCEPT !["E"] = NextInterval]
    /\ reqLeft' = IF requests' THEN Delay ELSE 0
    /\ sent' = sent + 1
    /\ requests' \in BOOLEAN
    /\ UNCHANGED <<server, answers, age, broken>>

\* What may happen to the server in a step that sends no copy
ServerMoves ==
    \/ UNCHANGED <<server, answers, broken>>
    \/ ReceiveRequest /\ UNCHANGED broken
    \/ (\E code \in Codes : SendResponse(code)) /\ UNCHANGED broken
    \/ ServerChannelLost /\ broken' = TRUE
    \/ TimerJ /\ "J" \in Armed /\ left["J"] = 0 /\ UNCHANGED broken

\* Every other step: both transactions go on, time stands still, and no copy
\* of the request enters the network.
Calmed ==
    /\ Calm(client, client')
    /\ Still
    /\ requests' \in {requests, FALSE}
    /\ ServerMoves

\* Steps of the client that do not send
LEMMA QuietCalmed ==
    ASSUME Calm(client, client'), Clocks(FALSE, {}), UNCHANGED broken,
           requests' \in {requests, FALSE}, UNCHANGED <<server, answers>>
    PROVE  Calmed
BY DEF Calmed, Still, TimersMove, ServerMoves, Clocks

\* Whatever happens is a tick, the departure of the request, a copy of it,
\* or calm.
LEMMA StepKinds ==
    ASSUME Sane(client), Committed, TimedNext
    PROVE  Tick \/ Started \/ Repeated \/ Calmed
<1>1. client \in Clients /\ server \in Servers /\ Channelled(client)
  BY DEF Sane, Committed
<1>2. CASE Sends(SendRequest) \/ Sends(ChannelReady)
  <2>. DEFINE go == requests' /\ client'.state = "TRYING" /\ client.state = "INIT"
  <2>1. Clocks(go, {}) /\ UNCHANGED broken
    BY <1>2 DEF Sends
  <2>2. Departs \/ (Calm(client, client') /\ UNCHANGED <<server, requests, answers>>)
    BY <1>2, SendingStep DEF Sends
  <2>3. CASE Departs
    <3>1. go /\ client'.state # "TERMINATED" /\ requests'
      BY <2>3 DEF Departs
    <3>2. Clocks(TRUE, {})
      BY <2>1, <3>1
    <3>. QED BY <2>1, <2>3, <3>1, <3>2 DEF Started, TimersMove, Clocks
  <2>4. CASE Calm(client, client') /\ UNCHANGED <<server, requests, answers>>
    <3>1. ~go
      BY <2>4 DEF Calm
    <3>2. Clocks(FALSE, {})
      BY <2>1, <3>1
    <3>. QED BY <2>1, <2>4, <3>2, QuietCalmed
  <2>. QED BY <2>2, <2>3, <2>4
<1>3. CASE \/ Quiet(ChannelFails) \/ Quiet(ChannelErrorNotified) \/ Quiet(ChannelDisconnected)
           \/ Quiet(\E code \in Codes : ReceiveResponse(code))
           \/ Quiet(TimerF) \/ Quiet(TimerK)
           \/ Quiet(StopRetransmissions) \/ Quiet(ApplicationTerminates) \/ Quiet(ClientDestroyed)
           \/ Quiet(Lose)
  <2>1. Clocks(FALSE, {}) /\ UNCHANGED broken
    BY <1>3 DEF Quiet
  <2>2. UNCHANGED <<server, answers>> /\ requests' \in {requests, FALSE}
    <3>1. CASE Quiet(\E code \in Codes : ReceiveResponse(code)) \/ Quiet(Lose)
      BY <3>1 DEF Quiet, ReceiveResponse, Lose
    <3>2. CASE \/ Quiet(ChannelFails) \/ Quiet(ChannelErrorNotified) \/ Quiet(ChannelDisconnected)
               \/ Quiet(TimerF) \/ Quiet(TimerK)
      BY <3>2 DEF Quiet, ChannelFails, ChannelErrorNotified, ChannelDisconnected, TimerF, TimerK
    <3>3. CASE \/ Quiet(StopRetransmissions) \/ Quiet(ApplicationTerminates)
               \/ Quiet(ClientDestroyed)
      BY <3>3 DEF Quiet, StopRetransmissions, ApplicationTerminates, ClientDestroyed
    <3>. QED BY <1>3, <3>1, <3>2, <3>3
  <2>3. Calm(client, client')
    BY <1>3, CalmStep DEF Quiet, Lose
  <2>. QED BY <2>1, <2>2, <2>3, QuietCalmed
<1>4. CASE TimedE
  <2>1. "E" \in client.timers /\ UNCHANGED <<server, answers>> /\ left["E"] = 0
    BY <1>4 DEF TimedE, TimerE, Expired
  <2>2. CASE Waiting(client)
    <3>1. client' = [client EXCEPT !.nullUse = @ \/ ~client.bound]
      BY <1>4, <2>2 DEF TimedE, TimerE, Waiting
    <3>2. client'.state = client.state /\ client'.timers = client.timers
      BY <1>1, <3>1 DEF Clients
    <3>3. "E" \in Armed'
      BY <2>1, <3>2 DEF Armed
    <3>4. requests' \in BOOLEAN
      BY <1>4, <2>2 DEF TimedE, TimerE, Waiting
    <3>. QED BY <1>4, <2>1, <2>2, <3>2, <3>3, <3>4 DEF TimedE, Repeated
  <2>3. CASE ~Waiting(client)
    <3>1. client' = [client EXCEPT !.timers = @ \ {"E"}] /\ UNCHANGED requests
      BY <1>4, <2>3 DEF TimedE, TimerE, Waiting
    <3>2. "E" \notin Armed'
      BY <1>1, <2>1, <3>1 DEF Armed, Clients, Servers
    <3>3. Calm(client, client')
      BY <1>4, CalmStep DEF TimedE
    <3>4. Clocks(FALSE, {}) /\ UNCHANGED broken
      BY <1>4, <3>2 DEF TimedE
    <3>. QED BY <2>1, <3>1, <3>3, <3>4, QuietCalmed
  <2>. QED BY <2>2, <2>3
<1>5. CASE \/ TimedReceiveRequest \/ TimedServerChannelLost
           \/ (\E code \in Codes : TimedSendResponse(code))
           \/ Expired("J") /\ Quiet(TimerJ)
  <2>1. client' = client /\ requests' \in {requests, FALSE}
    BY <1>5 DEF TimedReceiveRequest, TimedServerChannelLost, TimedSendResponse, Quiet,
                ReceiveRequest, ServerChannelLost, SendResponse, TimerJ
  <2>2. Calm(client, client')
    BY <2>1, CalmStep
  <2>3. Still
    BY <1>5 DEF TimedReceiveRequest, TimedServerChannelLost, TimedSendResponse, Quiet, Clocks,
                Still, TimersMove
  <2>4. ServerMoves
    BY <1>5 DEF TimedReceiveRequest, TimedServerChannelLost, TimedSendResponse, Quiet,
                ServerMoves, Expired
  <2>. QED BY <2>1, <2>2, <2>3, <2>4 DEF Calmed
<1>. QED BY <1>2, <1>3, <1>4, <1>5 DEF TimedNext

-----------------------------------------------------------------------------
(* Multiples of T1.                                                        *)

Multiple(x) == \E k \in Nat : x = k * T1
Even(x) == \E k \in Nat : x = 2 * (k * T1)
Odd(x) == \E k \in Nat : x = 2 * (k * T1) + T1

LEMMA Constants == T1 \in Nat /\ T2 \in Nat /\ T4 \in Nat /\ Delay \in Nat /\ T1 > 0 /\ T1 <= T2
BY TimingAssumption

LEMMA TwiceIsEven == ASSUME NEW x \in Nat, Multiple(x) PROVE Even(2 * x)
BY Constants DEF Multiple, Even

LEMMA EvenIsMultiple == ASSUME NEW x \in Nat, Even(x) PROVE Multiple(x)
<1>. PICK k \in Nat : x = 2 * (k * T1)
  BY DEF Even
<1>1. 2 * k \in Nat /\ x = (2 * k) * T1
  BY Constants
<1>. QED BY <1>1 DEF Multiple

LEMMA OddPlusEven ==
    ASSUME NEW x \in Nat, NEW y \in Nat, Odd(x), Even(y)
    PROVE  Odd(x + y)
<1>1. PICK k \in Nat : x = 2 * (k * T1) + T1
  BY DEF Odd
<1>2. PICK m \in Nat : y = 2 * (m * T1)
  BY DEF Even
<1>3. k + m \in Nat /\ (k + m) * T1 = k * T1 + m * T1
  BY Constants
<1>4. k * T1 \in Nat /\ m * T1 \in Nat
  BY Constants
<1>5. x + y = 2 * ((k + m) * T1) + T1
  BY <1>1, <1>2, <1>3, <1>4, Constants
<1>. QED BY <1>3, <1>5 DEF Odd

LEMMA OneIsOdd == Odd(T1) /\ Multiple(T1)
<1>1. 0 \in Nat /\ T1 = 2 * (0 * T1) + T1
  BY Constants
<1>2. 1 \in Nat /\ T1 = 1 * T1
  BY Constants
<1>. QED BY <1>1, <1>2 DEF Odd, Multiple

\* No odd multiple of T1 lies in the last T1 before timer F.
LEMMA LastBeforeF == ASSUME NEW x \in Nat, Odd(x), x <= 64 * T1 PROVE x <= 63 * T1
<1>. PICK k \in Nat : x = 2 * (k * T1) + T1
  BY DEF Odd
<1>1. CASE k <= 31
  <2>1. 31 - k \in Nat /\ k * T1 + (31 - k) * T1 = 31 * T1
    BY <1>1, Constants
  <2>2. k * T1 \in Nat /\ (31 - k) * T1 \in Nat
    BY <2>1, Constants
  <2>. QED BY <2>1, <2>2, Constants
<1>2. CASE k >= 32
  <2>1. k - 32 \in Nat /\ k * T1 = (k - 32) * T1 + 32 * T1
    BY <1>2, Constants
  <2>2. k * T1 \in Nat /\ (k - 32) * T1 \in Nat
    BY <2>1, Constants
  <2>. QED BY <2>1, <2>2, Constants
<1>. QED BY <1>1, <1>2

-----------------------------------------------------------------------------
(* The clocks of the client.                                               *)

TimedTypes ==
    /\ left \in [Timers -> Nat]
    /\ interval \in Nat /\ reqLeft \in Nat /\ age \in Nat /\ sent \in Nat
    /\ broken \in BOOLEAN

\* Timer F counts down the 64 * T1 from the first copy, and timer K what is
\* left to a completed transaction.
Timely ==
    /\ client.state = "INIT" => client.timers = {} /\ age = 0
    /\ Waiting(client) =>
          /\ age <= 64 * T1
          /\ "F" \in client.timers => left["F"] + age = 64 * T1
    /\ client.state = "COMPLETED" =>
          "K" \in client.timers /\ age + left["K"] <= 64 * T1 + T4

\* While the client waits and repeats, age + left["E"] is when it next does.
\* With T2 an even multiple of T1 this is an odd multiple of T1.
Spaced ==
    Waiting(client) /\ "E" \in client.timers =>
        Odd(age + left["E"]) /\ Multiple(interval)

\* With T2 = 8 * T1, the n-th copy is followed by another at least so late.
NotBefore(n, t) ==
    /\ n = 1 => t >= T1
    /\ n = 2 => t >= 3 * T1
    /\ n = 3 => t >= 7 * T1
    /\ n = 4 => t >= 15 * T1
    /\ n = 5 => t >= 23 * T1
    /\ n = 6 => t >= 31 * T1
    /\ n = 7 => t >= 39 * T1
    /\ n = 8 => t >= 47 * T1
    /\ n = 9 => t >= 55 * T1
    /\ n = 10 => t >= 63 * T1
    /\ n = 11 => t >= 71 * T1

\* The timeout of timer E after n copies, while nothing has been heard
Pace(n, i) ==
    /\ n = 1 => i >= T1
    /\ n = 2 => i >= 2 * T1
    /\ n = 3 => i >= 4 * T1
    /\ n >= 4 => i >= 8 * T1

Paced ==
    /\ client.state = "INIT" => sent = 0
    /\ sent <= 11
    /\ Waiting(client) => sent >= 1
    /\ Waiting(client) /\ "E" \in client.timers =>
          /\ NotBefore(sent, age + left["E"])
          /\ client.state = "TRYING" => Pace(sent, interval)

\* Timers E, F and K are the client's, timer J is the server's.
LEMMA WhoseTimer ==
    ASSUME Sane(client), Committed
    PROVE  /\ \A t \in {"E", "F", "K"} : t \in Armed <=> t \in client.timers
           /\ "J" \in Armed <=> "J" \in server.timers
           /\ Armed \subseteq Timers
BY DEF Sane, Committed, Clients, Servers, Armed, Timers

LEMMA Durations ==
    /\ \A t \in Timers : Duration(t) \in Nat
    /\ Duration("E") = T1 /\ Duration("F") = 64 * T1 /\ Duration("K") = T4
    /\ ~Reliable => Duration("J") = 64 * T1
BY Constants DEF Duration, Timers

LEMMA NextIntervalType ==
    ASSUME TimedTypes
    PROVE  NextInterval \in Nat
BY Constants DEF NextInterval, Smaller, TimedTypes

LEMMA TypesStep ==
    ASSUME TimedTypes, Tick \/ Started \/ Repeated \/ Calmed
    PROVE  TimedTypes'
<1>1. CASE Tick
  BY <1>1, Constants DEF Tick, TimedTypes, Timers
<1>2. CASE Started
  <2>1. left' \in [Timers -> Nat]
    BY <1>2, Durations DEF Started, TimersMove, TimedTypes
  <2>. QED BY <1>2, <2>1, Constants DEF Started, TimersMove, TimedTypes
<1>3. CASE Repeated
  <2>1. NextInterval \in Nat
    BY NextIntervalType
  <2>2. left' \in [Timers -> Nat]
    BY <1>3, <2>1 DEF Repeated, TimedTypes
  <2>. QED BY <1>3, <2>1, <2>2, Constants DEF Repeated, TimedTypes
<1>4. CASE Calmed
  <2>1. left' \in [Timers -> Nat]
    BY <1>4, Durations DEF Calmed, Still, TimersMove, TimedTypes
  <2>2. interval' \in Nat /\ reqLeft' \in Nat /\ age' \in Nat /\ sent' \in Nat
    BY <1>4, Constants DEF Calmed, Still, TimersMove, TimedTypes
  <2>3. broken' \in BOOLEAN
    BY <1>4 DEF Calmed, ServerMoves, TimedTypes
  <2>. QED BY <2>1, <2>2, <2>3 DEF TimedTypes
<1>. QED BY <1>1, <1>2, <1>3, <1>4

\* In a calm step a timer that stays armed keeps its time, and one that
\* starts has its duration.
LEMMA StillTimers ==
    ASSUME Sane(client), Committed, Sane(client)', Committed', Calmed
    PROVE  /\ \A t \in {"E", "F", "K"} :
                 t \in client'.timers =>
                    left'[t] = IF t \in client.timers THEN left[t] ELSE Duration(t)
           /\ "J" \in server'.timers =>
                 left'["J"] = IF "J" \in server.timers THEN left["J"] ELSE Duration("J")
           /\ "E" \in client.timers /\ "E" \in client'.timers => interval' = interval
<1>1. /\ \A t \in {"E", "F", "K"} : t \in Armed <=> t \in client.timers
      /\ "J" \in Armed <=> "J" \in server.timers
  BY WhoseTimer
<1>2. /\ \A t \in {"E", "F", "K"} : t \in Armed' <=> t \in client'.timers
      /\ "J" \in Armed' <=> "J" \in server'.timers
  BY DEF Sane, Committed, Clients, Servers, Armed
<1>3. \A t \in Timers : left'[t] = IF t \notin Armed' THEN 0
                                   ELSE IF t \in Armed THEN left[t] ELSE Duration(t)
  BY DEF Calmed, Still, TimersMove
<1>4. interval' = IF "E" \notin Armed' THEN 0 ELSE IF "E" \in Armed THEN interval ELSE T1
  BY DEF Calmed, Still, TimersMove
<1>. HIDE DEF Armed
<1>5. \A t \in {"E", "F", "K", "J"} : t \in Timers
  BY DEF Timers
<1>6. ASSUME NEW t \in {"E", "F", "K"}, t \in client'.timers
      PROVE  left'[t] = IF t \in client.timers THEN left[t] ELSE Duration(t)
  BY <1>1, <1>2, <1>3, <1>5, <1>6
<1>7. "J" \in server'.timers =>
         left'["J"] = IF "J" \in server.timers THEN left["J"] ELSE Duration("J")
  BY <1>1, <1>2, <1>3, <1>5
<1>8. "E" \in client.timers /\ "E" \in client'.timers => interval' = interval
  BY <1>1, <1>2, <1>4
<1>. QED BY <1>6, <1>7, <1>8

\* When the request leaves, timer F starts, and timer E on an unreliable
\* transport.
LEMMA StartedTimers ==
    ASSUME Sane(client), Committed, client.timers = {}, Started
    PROVE  /\ left'["F"] = 64 * T1
           /\ ~Reliable => left'["E"] = T1 /\ interval' = T1
           /\ Reliable => "E" \notin client'.timers
           /\ "K" \notin client'.timers
<1>1. "E" \notin Armed /\ "F" \notin Armed
  BY DEF Committed, Servers, Armed
<1>2. client'.timers = {"F"} \cup (IF Reliable THEN {} ELSE {"E"})
  BY DEF Started, Departs
<1>3. "F" \in Armed' /\ (~Reliable => "E" \in Armed')
  BY <1>2 DEF Armed
<1>4. \A t \in Timers : left'[t] = IF t \notin Armed' THEN 0
                                   ELSE IF t \in Armed THEN left[t] ELSE Duration(t)
  BY DEF Started, TimersMove
<1>5. interval' = IF "E" \notin Armed' THEN 0 ELSE IF "E" \in Armed THEN interval ELSE T1
  BY DEF Started, TimersMove
<1>. HIDE DEF Armed
<1>. QED BY <1>1, <1>2, <1>3, <1>4, <1>5, Durations DEF Timers

\* A tick takes one from every armed timer, and a client that waits has
\* timer F armed.
LEMMA TickTimers ==
    ASSUME Sane(client), Committed, TimedTypes, Tick
    PROVE  /\ \A t \in {"E", "F", "K"} :
                 t \in client.timers => left[t] > 0 /\ left'[t] = left[t] - 1
           /\ "J" \in server.timers => left["J"] > 0 /\ left'["J"] = left["J"] - 1
           /\ Waiting(client) => "F" \in client.timers
           /\ client.state \in {"TRYING", "PROCEEDING", "COMPLETED"} => age' = age + 1
           /\ client.state = "INIT" => age' = age
<1>1. /\ \A t \in {"E", "F", "K"} : t \in Armed <=> t \in client.timers
      /\ "J" \in Armed <=> "J" \in server.timers
  BY WhoseTimer
<1>2. \A t \in Timers : left'[t] = IF t \in Armed THEN left[t] - 1 ELSE 0
  BY DEF Tick
<1>3. \A t \in Armed : left[t] > 0
  BY DEF Tick
<1>. HIDE DEF Armed
<1>4. Waiting(client) => "F" \in client.timers
  BY DEF Tick, Sane, Channelled
<1>5. \A t \in {"E", "F", "K", "J"} : t \in Timers
  BY DEF Timers
<1>6. /\ client.state \in {"TRYING", "PROCEEDING", "COMPLETED"} => age' = age + 1
      /\ client.state = "INIT" => age' = age
  BY DEF Tick
<1>. QED BY <1>1, <1>2, <1>3, <1>4, <1>5, <1>6

-----------------------------------------------------------------------------
(* Every step keeps the clocks of the client.                              *)

LEMMA TimelyStep ==
    ASSUME Sane(client), Committed, Sane(client)', Committed', TimedTypes, TimedTypes', Timely,
           Tick \/ Started \/ Repeated \/ Calmed
    PROVE  Timely'
<1>1. /\ \A t \in {"E", "F", "K", "J"} : left[t] \in Nat /\ left'[t] \in Nat
      /\ age \in Nat /\ age' \in Nat
  BY DEF TimedTypes, Timers
<1>2. CASE Tick
  <2>1. client' = client
    BY <1>2 DEF Tick
  <2>2. /\ \A t \in {"E", "F", "K"} :
              t \in client.timers => left[t] > 0 /\ left'[t] = left[t] - 1
        /\ Waiting(client) => "F" \in client.timers
        /\ client.state \in {"TRYING", "PROCEEDING", "COMPLETED"} => age' = age + 1
        /\ client.state = "INIT" => age' = age
    BY <1>2, TickTimers
  <2>3. CASE Waiting(client)
    <3>1. left["F"] + age = 64 * T1 /\ left["F"] > 0 /\ left'["F"] = left["F"] - 1 /\ age' = age + 1
      BY <2>2, <2>3 DEF Timely, Waiting
    <3>2. age' <= 64 * T1 /\ left'["F"] + age' = 64 * T1
      BY <1>1, <3>1, Constants
    <3>. QED BY <2>1, <2>3, <3>2 DEF Timely, Waiting
  <2>4. CASE client.state = "COMPLETED"
    <3>1. /\ "K" \in client.timers /\ age + left["K"] <= 64 * T1 + T4
          /\ left["K"] > 0 /\ left'["K"] = left["K"] - 1 /\ age' = age + 1
      BY <2>2, <2>4 DEF Timely
    <3>2. age' + left'["K"] <= 64 * T1 + T4
      BY <1>1, <3>1, Constants
    <3>. QED BY <2>1, <2>4, <3>1, <3>2 DEF Timely, Waiting
  <2>5. CASE ~Waiting(client) /\ client.state # "COMPLETED"
    BY <2>1, <2>2, <2>5 DEF Timely, Waiting
  <2>. QED BY <2>3, <2>4, <2>5
<1>3. CASE Started
  <2>1. client.timers = {} /\ age = 0 /\ age' = age /\ client'.state = "TRYING"
    BY <1>3 DEF Started, Departs, Timely
  <2>2. left'["F"] = 64 * T1
    BY <1>3, <2>1, StartedTimers
  <2>3. age' <= 64 * T1 /\ left'["F"] + age' = 64 * T1
    BY <2>1, <2>2, Constants
  <2>. QED BY <2>1, <2>3 DEF Timely, Waiting
<1>4. CASE Repeated
  <2>1. /\ client'.state = client.state /\ client'.timers = client.timers
        /\ age' = age /\ Waiting(client)
    BY <1>4 DEF Repeated
  <2>2. left'["F"] = left["F"]
    BY <1>4 DEF Repeated, TimedTypes, Timers
  <2>. QED BY <2>1, <2>2 DEF Timely, Waiting
<1>5. CASE Calmed
  <2>1. /\ \A t \in {"E", "F", "K"} :
              t \in client'.timers =>
                 left'[t] = IF t \in client.timers THEN left[t] ELSE Duration(t)
    BY <1>5, StillTimers
  <2>2. /\ Calm(client, client')
        /\ client'.state # "TERMINATED" => age' = age
    BY <1>5 DEF Calmed, Still
  <2>3. CASE client'.state = "INIT"
    BY <2>2, <2>3 DEF Timely, Calm, Waiting
  <2>4. CASE Waiting(client')
    <3>1. Waiting(client) /\ client'.timers \subseteq client.timers /\ age' = age
      BY <2>2, <2>4 DEF Calm, Waiting
    <3>2. "F" \in client'.timers => left'["F"] = left["F"] /\ "F" \in client.timers
      BY <2>1, <3>1
    <3>3. age' <= 64 * T1 /\ ("F" \in client'.timers => left'["F"] + age' = 64 * T1)
      BY <3>1, <3>2 DEF Timely
    <3>. QED BY <2>4, <3>3 DEF Timely, Waiting
  <2>5. CASE client'.state = "COMPLETED"
    <3>1. age' = age
      BY <2>2, <2>5
    <3>2. "K" \in client'.timers /\ age' + left'["K"] <= 64 * T1 + T4
      <4>1. CASE client.state = "COMPLETED" /\ ("K" \in client.timers => "K" \in client'.timers)
        <5>1. "K" \in client.timers /\ age + left["K"] <= 64 * T1 + T4 /\ "K" \in client'.timers
          BY <4>1 DEF Timely
        <5>. QED BY <2>1, <3>1, <5>1
      <4>2. CASE Waiting(client) /\ "K" \in client'.timers
        <5>1. "K" \notin client.timers
          BY <4>2 DEF Sane, Channelled, Waiting
        <5>2. left'["K"] = T4
          BY <2>1, <4>2, <5>1, Durations
        <5>3. age <= 64 * T1
          BY <4>2 DEF Timely
        <5>. QED BY <1>1, <3>1, <4>2, <5>2, <5>3, Constants
      <4>. QED BY <2>2, <2>5, <4>1, <4>2 DEF Calm
    <3>. QED BY <2>5, <3>2 DEF Timely, Waiting
  <2>. QED BY <2>3, <2>4, <2>5 DEF Timely
<1>. QED BY <1>2, <1>3, <1>4, <1>5

\* The clocks of timer E, when no copy leaves
LEMMA UnhurriedE ==
    ASSUME Sane(client), Committed, Sane(client)', Committed', TimedTypes, TimedTypes',
           Tick \/ Calmed, Waiting(client'), "E" \in client'.timers
    PROVE  /\ Waiting(client) /\ "E" \in client.timers
           /\ client'.state = "TRYING" => client.state = "TRYING"
           /\ age' + left'["E"] = age + left["E"]
           /\ interval' = interval /\ sent' = sent
<1>1. left["E"] \in Nat /\ age \in Nat
  BY DEF TimedTypes, Timers
<1>2. CASE Tick
  <2>1. client' = client /\ interval' = interval /\ sent' = sent
    BY <1>2 DEF Tick
  <2>2. left["E"] > 0 /\ left'["E"] = left["E"] - 1 /\ age' = age + 1
    BY <1>2, <2>1, TickTimers DEF Waiting
  <2>. QED BY <1>1, <2>1, <2>2
<1>3. CASE Calmed
  <2>1. Waiting(client) /\ client'.timers \subseteq client.timers
    BY <1>3 DEF Calmed, Calm
  <2>2. left'["E"] = left["E"] /\ interval' = interval
    BY <1>3, <2>1, StillTimers
  <2>3. age' = age /\ sent' = sent
    BY <1>3 DEF Calmed, Still, Waiting
  <2>. QED BY <1>3, <2>1, <2>2, <2>3 DEF Calmed, Calm
<1>. QED BY <1>2, <1>3

LEMMA SpacedStep ==
    ASSUME Sane(client), Committed, Sane(client)', Committed', TimedTypes, TimedTypes', Timely,
           Spaced, Even(T2), Tick \/ Started \/ Repeated \/ Calmed
    PROVE  Spaced'
<1>. SUFFICES ASSUME Waiting(client'), "E" \in client'.timers
              PROVE  Odd(age' + left'["E"]) /\ Multiple(interval')
  BY DEF Spaced, Odd, Multiple
<1>1. left["E"] \in Nat /\ age \in Nat /\ interval \in Nat
  BY DEF TimedTypes, Timers
<1>2. CASE Tick \/ Calmed
  <2>1. /\ Waiting(client) /\ "E" \in client.timers
        /\ age' + left'["E"] = age + left["E"] /\ interval' = interval
    BY <1>2, UnhurriedE
  <2>. QED BY <2>1 DEF Spaced
<1>3. CASE Started
  <2>1. client.timers = {} /\ age = 0 /\ age' = age
    BY <1>3 DEF Started, Departs, Timely
  <2>2. left'["E"] = T1 /\ interval' = T1
    BY <1>3, <2>1, StartedTimers
  <2>3. age' + left'["E"] = T1
    BY <2>1, <2>2, Constants
  <2>. QED BY <2>2, <2>3, OneIsOdd
<1>4. CASE Repeated
  <2>1. /\ Waiting(client) /\ "E" \in client.timers /\ left["E"] = 0
        /\ interval' = NextInterval /\ age' = age
    BY <1>4 DEF Repeated
  <2>2. left'["E"] = NextInterval
    BY <1>4 DEF Repeated, TimedTypes, Timers
  <2>3. Odd(age) /\ Multiple(interval)
    <3>1. age + left["E"] = age
      BY <1>1, <2>1
    <3>. QED BY <2>1, <3>1 DEF Spaced
  <2>4. Even(2 * interval)
    BY <1>1, <2>3, TwiceIsEven
  <2>5. NextInterval \in {2 * interval, T2}
    BY DEF NextInterval, Smaller
  <2>6. Even(NextInterval) /\ NextInterval \in Nat
    BY <2>4, <2>5, NextIntervalType
  <2>7. Multiple(NextInterval) /\ Odd(age + NextInterval)
    BY <1>1, <2>3, <2>6, EvenIsMultiple, OddPlusEven
  <2>. QED BY <2>1, <2>2, <2>7
<1>. QED BY <1>2, <1>3, <1>4

\* One more copy, later than the last by the interval that nict_on_timer_E
\* computes: the arithmetic of the schedule.
LEMMA NextCopy ==
    ASSUME NEW n \in 1..11, NEW a \in Nat, NEW i \in Nat, NEW j \in Nat, NotBefore(n, a),
           a <= 64 * T1, (Pace(n, i) /\ j \in {2 * i, 8 * T1}) \/ j = 8 * T1
    PROVE  /\ n + 1 \in 1..11
           /\ NotBefore(n + 1, a + j)
<1>. DEFINE t == T1
<1>1. t \in Nat /\ t > 0
  BY Constants
<1>2. n # 11
  BY <1>1 DEF NotBefore
<1>3. CASE n = 1
  BY <1>1, <1>3 DEF NotBefore, Pace
<1>4. CASE n = 2
  BY <1>1, <1>4 DEF NotBefore, Pace
<1>5. CASE n = 3
  BY <1>1, <1>5 DEF NotBefore, Pace
<1>6. CASE n \in 4..10
  <2>1. j >= 8 * T1
    BY <1>1, <1>6 DEF Pace
  <2>2. CASE n \in 4..6
    BY <1>1, <2>1, <2>2 DEF NotBefore
  <2>3. CASE n \in 7..10
    BY <1>1, <2>1, <2>3 DEF NotBefore
  <2>. QED BY <1>6, <2>2, <2>3
<1>. QED BY <1>2, <1>3, <1>4, <1>5, <1>6

\* While nothing is heard the interval doubles up to T2.
LEMMA NextPace ==
    ASSUME T2 = 8 * T1, NEW n \in 1..11, NEW i \in Nat, Pace(n, i)
    PROVE  Pace(n + 1, Smaller(2 * i, T2))
<1>1. T1 \in Nat /\ T1 > 0
  BY Constants
<1>2. Smaller(2 * i, T2) = IF 2 * i < 8 * T1 THEN 2 * i ELSE 8 * T1
  BY DEF Smaller
<1>. QED BY <1>1, <1>2 DEF Pace

LEMMA PacedStep ==
    ASSUME T2 = 8 * T1, Sane(client), Committed, Sane(client)', Committed',
           TimedTypes, TimedTypes', Timely, Paced, Tick \/ Started \/ Repeated \/ Calmed
    PROVE  Paced'
<1>1. left["E"] \in Nat /\ age \in Nat /\ interval \in Nat /\ sent \in Nat
  BY DEF TimedTypes, Timers
<1>2. CASE Tick \/ Calmed
  <2>1. sent' = sent
    BY <1>2 DEF Tick, Calmed, Still
  <2>2. client'.state = "INIT" => client.state = "INIT"
    BY <1>2 DEF Tick, Calmed, Calm
  <2>3. Waiting(client') => Waiting(client)
    BY <1>2 DEF Tick, Calmed, Calm
  <2>4. ASSUME Waiting(client'), "E" \in client'.timers
        PROVE  /\ NotBefore(sent', age' + left'["E"])
               /\ client'.state = "TRYING" => Pace(sent', interval')
    <3>1. /\ Waiting(client) /\ "E" \in client.timers
          /\ client'.state = "TRYING" => client.state = "TRYING"
          /\ age' + left'["E"] = age + left["E"]
          /\ interval' = interval
      BY <1>2, <2>4, UnhurriedE
    <3>. QED BY <2>1, <3>1 DEF Paced
  <2>. QED BY <2>1, <2>2, <2>3, <2>4 DEF Paced
<1>3. CASE Started
  <2>1. /\ client.timers = {} /\ age = 0 /\ age' = age /\ client'.state = "TRYING"
        /\ sent = 0 /\ sent' = sent + 1
    BY <1>3 DEF Started, Departs, Timely, Paced
  <2>2. "E" \in client'.timers => left'["E"] = T1 /\ interval' = T1
    BY <1>3, <2>1, StartedTimers
  <2>3. sent' = 1
    BY <2>1
  <2>4. "E" \in client'.timers => NotBefore(1, age' + left'["E"]) /\ Pace(1, interval')
    BY <2>1, <2>2, Constants DEF NotBefore, Pace
  <2>. QED BY <2>1, <2>3, <2>4 DEF Paced, Waiting
<1>4. CASE Repeated
  <2>1. /\ Waiting(client) /\ "E" \in client.timers /\ left["E"] = 0
        /\ client'.state = client.state /\ client'.timers = client.timers
        /\ interval' = NextInterval /\ age' = age /\ sent' = sent + 1
    BY <1>4 DEF Repeated
  <2>2. left'["E"] = NextInterval
    BY <1>4 DEF Repeated, TimedTypes, Timers
  <2>3. /\ sent \in 1..11 /\ NotBefore(sent, age) /\ age <= 64 * T1
        /\ client.state = "TRYING" => Pace(sent, interval)
    <3>1. age + left["E"] = age
      BY <1>1, <2>1
    <3>. QED BY <1>1, <2>1, <3>1 DEF Paced, Timely
  <2>4. /\ client.state = "TRYING" => NextInterval \in {2 * interval, 8 * T1}
        /\ client.state # "TRYING" => NextInterval = 8 * T1
    BY DEF NextInterval, Smaller
  <2>5. NextInterval \in Nat
    BY NextIntervalType
  <2>6. sent + 1 \in 1..11 /\ NotBefore(sent + 1, age + NextInterval)
    BY <1>1, <2>3, <2>4, <2>5, NextCopy
  <2>7. client.state = "TRYING" => Pace(sent + 1, NextInterval)
    <3>. SUFFICES ASSUME client.state = "TRYING" PROVE Pace(sent + 1, NextInterval)
      OBVIOUS
    <3>1. NextInterval = Smaller(2 * interval, T2)
      BY DEF NextInterval
    <3>2. Pace(sent + 1, Smaller(2 * interval, T2))
      BY <1>1, <2>3, NextPace
    <3>. QED BY <3>1, <3>2
  <2>. QED BY <2>1, <2>2, <2>6, <2>7 DEF Paced, Waiting
<1>. QED BY <1>2, <1>3, <1>4

-----------------------------------------------------------------------------
(* The theorems about the effort of the client.                            *)

\* The timed specification implements the untimed one: what NonInviteProofs
\* shows of the timers in any order holds of them in their time.
THEOREM TimedIsUntimed == TimedSpec => Spec
<1>1. TimedInit => Init
  BY DEF TimedInit
<1>2. [TimedNext]_timedVars => [Next]_vars
  BY TimedStep
<1>. QED BY <1>1, <1>2, PTL DEF TimedSpec, Spec

\* What NonInviteProofs shows of both transactions, and the clocks
Clocked == /\ Sane(client) /\ Committed /\ HeardAnswer
           /\ TimedTypes /\ Timely

LEMMA ClockedInit == ASSUME TimedInit PROVE Clocked
<1>1. Sane(client)
  BY NewClientSane DEF TimedInit, Init
<1>2. server \in Servers /\ server.state = "NONE"
  BY DEF TimedInit, Init, NoServer, Servers, ServerStates
<1>3. HeardAnswer
  BY DEF TimedInit, Init, NewClient, HeardAnswer, Final
<1>4. Committed
  BY <1>2 DEF TimedInit, Init, Committed
<1>5. TimedTypes
  BY DEF TimedInit, TimedTypes
<1>6. client.state = "INIT" /\ client.timers = {} /\ age = 0
  BY DEF TimedInit, Init, NewClient
<1>7. Timely
  BY <1>6 DEF Timely, Waiting
<1>. QED BY <1>1, <1>3, <1>4, <1>5, <1>7 DEF Clocked

LEMMA ClockedStep == ASSUME Clocked, [TimedNext]_timedVars PROVE Clocked'
<1>1. Sane(client)' /\ Committed' /\ HeardAnswer'
  <2>1. [Next]_vars
    BY TimedStep
  <2>. QED BY <2>1, ClientStep, CommittedStep, HeardStep DEF Clocked
<1>2. CASE TimedNext
  <2>1. Tick \/ Started \/ Repeated \/ Calmed
    BY <1>2, StepKinds DEF Clocked
  <2>2. TimedTypes'
    BY <2>1, TypesStep DEF Clocked
  <2>3. Timely'
    BY <1>1, <2>1, <2>2, TimelyStep DEF Clocked
  <2>. QED BY <1>1, <2>2, <2>3 DEF Clocked
<1>3. CASE UNCHANGED timedVars
  BY <1>1, <1>3 DEF Clocked, timedVars, TimedTypes, Timely, Waiting
<1>. QED BY <1>2, <1>3

\* With the default ratio of T2 to T1 (belle_sip_timer_config_t of sipstack.c)
\* a request is answered or given up within 64 * T1, the transaction is gone
\* T4 later, and at most 11 copies leave.
THEOREM EffortBounded == T2 = 8 * T1 => (TimedSpec => []BoundedEffort)
<1>. SUFFICES ASSUME T2 = 8 * T1 PROVE TimedSpec => []BoundedEffort
  OBVIOUS
<1>. DEFINE Inv == Clocked /\ Paced
<1>1. TimedInit => Inv
  <2>. SUFFICES ASSUME TimedInit PROVE Inv
    OBVIOUS
  <2>1. client.state = "INIT" /\ sent = 0
    BY DEF TimedInit, Init, NewClient
  <2>2. Paced
    BY <2>1 DEF Paced, Waiting
  <2>. QED BY <2>2, ClockedInit
<1>2. Inv /\ [TimedNext]_timedVars => Inv'
  <2>. SUFFICES ASSUME Inv, [TimedNext]_timedVars PROVE Inv'
    OBVIOUS
  <2>1. Clocked'
    BY ClockedStep
  <2>2. CASE TimedNext
    <3>1. Tick \/ Started \/ Repeated \/ Calmed
      BY <2>2, StepKinds DEF Clocked
    <3>2. Paced'
      BY <2>1, <3>1, PacedStep DEF Clocked
    <3>. QED BY <2>1, <3>2
  <2>3. CASE UNCHANGED timedVars
    <3>1. Paced'
      BY <2>3 DEF timedVars, Paced, Waiting, NotBefore, Pace
    <3>. QED BY <2>1, <3>1
  <2>. QED BY <2>2, <2>3
<1>3. Inv => BoundedEffort
  <2>. SUFFICES ASSUME Inv PROVE BoundedEffort
    OBVIOUS
  <2>1. left["K"] \in Nat /\ age \in Nat
    BY DEF Clocked, TimedTypes, Timers
  <2>2. client.state = "COMPLETED" => age <= 64 * T1 + T4
    BY <2>1, Constants DEF Clocked, Timely
  <2>. QED BY <2>2 DEF Clocked, Timely, Paced, Waiting, BoundedEffort
<1>. QED BY <1>1, <1>2, <1>3, PTL DEF TimedSpec

-----------------------------------------------------------------------------
(* Timer J outlives the copies of the request.                             *)

OneAnswer == \E code \in Codes : answers = {<<1, code>>}

\* Before the request left there is no server; on a reliable transport there
\* is one copy and it is not repeated.
Single ==
    /\ client.state = "INIT" => server.state = "NONE" /\ requests = FALSE
    /\ Reliable => /\ Waiting(client) => "E" \notin client.timers
                   /\ server.state # "NONE" => requests = FALSE
    /\ reqLeft <= Delay
    /\ requests \in BOOLEAN
    /\ server.state = "NONE" => server = NoServer
    /\ server.state \in {"TRYING", "PROCEEDING"} => server.timers = {}

\* While the server has answered it outlives every copy in flight and every
\* copy the client can still send, and when it is gone none of either is left.
Outlived ==
    /\ server.delivered = IF server.state = "NONE" THEN 0 ELSE 1
    /\ server.state \in {"NONE", "TRYING", "PROCEEDING"} => answers = {}
    /\ server.state = "COMPLETED" =>
          /\ "J" \in server.timers /\ OneAnswer
          /\ ~Reliable => /\ requests => left["J"] > reqLeft
                          /\ Waiting(client) => left["J"] + age >= 64 * T1
    /\ server.state = "TERMINATED" =>
          /\ OneAnswer /\ requests = FALSE
          /\ Waiting(client) /\ "E" \in client.timers => age >= 64 * T1

Covered == Single /\ (~broken => Outlived)

\* The copies of timer E: while the server lives it has at least T1 left, and
\* once it is gone timer E does not fire any more.
LEMMA CoveredCopy ==
    ASSUME Sane(client), Committed, TimedTypes, Timely, Spaced, Covered, Delay < T1, Repeated
    PROVE  Covered'
<1>1. left["E"] \in Nat /\ left["J"] \in Nat /\ age \in Nat /\ reqLeft \in Nat
  BY DEF TimedTypes, Timers
<1>2. /\ Waiting(client) /\ "E" \in client.timers /\ left["E"] = 0
      /\ client'.state = client.state /\ client'.timers = client.timers
      /\ reqLeft' = IF requests' THEN Delay ELSE 0
      /\ UNCHANGED <<server, answers, age, broken>>
  BY DEF Repeated
<1>3. left'["J"] = left["J"]
  BY DEF Repeated, TimedTypes, Timers
<1>4. age <= 63 * T1
  <2>1. age + left["E"] = age /\ age <= 64 * T1
    BY <1>1, <1>2 DEF Timely
  <2>2. Odd(age)
    BY <1>2, <2>1 DEF Spaced
  <2>. QED BY <1>1, <2>1, <2>2, LastBeforeF
<1>5. ~Reliable
  BY <1>2 DEF Covered, Single
<1>6. Single' /\ (~broken' => Outlived')
  <2>1. Single'
    <3>1. reqLeft' <= Delay /\ requests' \in BOOLEAN
      BY <1>2, Constants DEF Repeated
    <3>. QED BY <1>2, <1>5, <3>1 DEF Single, Waiting, Covered
  <2>2. ASSUME ~broken PROVE Outlived'
    <3>1. Outlived
      BY <2>2 DEF Covered
    <3>2. server.state # "TERMINATED"
      <4>1. ASSUME server.state = "TERMINATED" PROVE FALSE
        <5>1. age >= 64 * T1
          BY <1>2, <3>1, <4>1 DEF Outlived
        <5>. QED BY <1>1, <1>4, <5>1, Constants
      <4>. QED BY <4>1
    <3>3. server.state = "COMPLETED" =>
             /\ "J" \in server.timers /\ OneAnswer
             /\ left["J"] + age >= 64 * T1 /\ left["J"] > Delay
      <4>. SUFFICES ASSUME server.state = "COMPLETED"
                    PROVE  /\ "J" \in server.timers /\ OneAnswer
                           /\ left["J"] + age >= 64 * T1 /\ left["J"] > Delay
        OBVIOUS
      <4>1. "J" \in server.timers /\ OneAnswer /\ left["J"] + age >= 64 * T1
        BY <1>2, <1>5, <3>1 DEF Outlived
      <4>2. left["J"] > Delay
        BY <1>1, <1>4, <4>1, Constants
      <4>. QED BY <4>1, <4>2
    <3>4. server.delivered = (IF server.state = "NONE" THEN 0 ELSE 1)
      BY <3>1 DEF Outlived
    <3>5. server.state \in {"NONE", "TRYING", "PROCEEDING"} => answers = {}
      BY <3>1 DEF Outlived
    <3>6. server.state = "COMPLETED" => left'["J"] > reqLeft' /\ left'["J"] + age' >= 64 * T1
      BY <1>1, <1>2, <1>3, <3>3, Constants
    <3>. QED BY <1>2, <3>2, <3>3, <3>4, <3>5, <3>6 DEF Outlived, OneAnswer
  <2>. QED BY <1>2, <2>1, <2>2
<1>. QED BY <1>6 DEF Covered

\* A tick takes as much from the copies in flight as from timer J.
LEMMA CoveredTick ==
    ASSUME Sane(client), Committed, TimedTypes, Timely, Covered, Tick
    PROVE  Covered'
<1>1. left["J"] \in Nat /\ age \in Nat /\ reqLeft \in Nat
  BY DEF TimedTypes, Timers
<1>2. UNCHANGED <<client, server, requests, answers, broken>>
  BY DEF Tick
<1>3. reqLeft' = (IF requests THEN reqLeft - 1 ELSE 0) /\ (requests => reqLeft > 0)
  BY DEF Tick
<1>4. /\ "J" \in server.timers => left["J"] > 0 /\ left'["J"] = left["J"] - 1
      /\ Waiting(client) => age' = age + 1
  BY TickTimers DEF Waiting
<1>5. Single'
  <2>1. reqLeft' <= Delay
    BY <1>1, <1>3, Constants DEF Covered, Single
  <2>. QED BY <1>2, <2>1 DEF Covered, Single
<1>6. ASSUME ~broken PROVE Outlived'
  <2>1. Outlived
    BY <1>6 DEF Covered
  <2>2. ASSUME server.state = "COMPLETED", ~Reliable
        PROVE  /\ requests => left'["J"] > reqLeft'
               /\ Waiting(client) => left'["J"] + age' >= 64 * T1
    <3>1. "J" \in server.timers /\ (requests => left["J"] > reqLeft)
      BY <2>1, <2>2 DEF Outlived
    <3>2. requests => left'["J"] > reqLeft'
      BY <1>1, <1>3, <1>4, <3>1
    <3>3. Waiting(client) => left["J"] + age >= 64 * T1
      BY <2>1, <2>2 DEF Outlived
    <3>4. Waiting(client) => left'["J"] + age' >= 64 * T1
      BY <1>1, <1>4, <3>1, <3>3, Constants
    <3>. QED BY <3>2, <3>4
  <2>3. Waiting(client) /\ age >= 64 * T1 => age' >= 64 * T1
    BY <1>1, <1>4, Constants
  <2>. QED BY <1>2, <2>1, <2>2, <2>3 DEF Outlived, OneAnswer
<1>. QED BY <1>2, <1>5, <1>6 DEF Covered

\* The request leaves, and there is no server yet.
LEMMA CoveredStart ==
    ASSUME Sane(client), Committed, Timely, Covered, Started
    PROVE  Covered'
<1>1. /\ client.state = "INIT" /\ client.timers = {} /\ client'.state = "TRYING"
      /\ server.state = "NONE" /\ requests' = TRUE /\ reqLeft' = Delay
      /\ UNCHANGED <<server, answers, broken>>
  BY DEF Started, Departs, Covered, Single, Timely
<1>2. Reliable => "E" \notin client'.timers
  BY <1>1, StartedTimers
<1>3. Single'
  BY <1>1, <1>2, Constants DEF Single, Covered
<1>4. ~broken => Outlived'
  BY <1>1 DEF Covered, Outlived
<1>. QED BY <1>1, <1>3, <1>4 DEF Covered

\* What a calm step leaves of the premises of Outlived
CalmFacts ==
    /\ client'.state = "INIT" => client.state = "INIT"
    /\ Waiting(client') => Waiting(client) /\ client'.timers \subseteq client.timers /\ age' = age
    /\ requests' \in {requests, FALSE}
    /\ reqLeft' <= reqLeft
    /\ "J" \in server'.timers =>
          left'["J"] = IF "J" \in server.timers THEN left["J"] ELSE Duration("J")

LEMMA CalmedFacts ==
    ASSUME Sane(client), Committed, Sane(client)', Committed', TimedTypes, Calmed
    PROVE  CalmFacts
<1>1. reqLeft \in Nat
  BY DEF TimedTypes
<1>2. reqLeft' = 0 \/ reqLeft' = reqLeft
  BY DEF Calmed, Still
<1>3. reqLeft' <= reqLeft
  BY <1>1, <1>2
<1>4. /\ client'.state = "INIT" => client.state = "INIT"
      /\ Waiting(client') => Waiting(client) /\ client'.timers \subseteq client.timers /\ age' = age
      /\ requests' \in {requests, FALSE}
  BY DEF Calmed, Calm, Still, Waiting
<1>5. "J" \in server'.timers =>
         left'["J"] = IF "J" \in server.timers THEN left["J"] ELSE Duration("J")
  BY StillTimers
<1>. QED BY <1>3, <1>4, <1>5 DEF CalmFacts

\* The server is as it was.
LEMMA CoveredSameServer ==
    ASSUME TimedTypes, TimedTypes', Covered, CalmFacts,
           server.state = "NONE" => server' = server,
           server'.state = server.state, server'.timers = server.timers,
           server'.delivered = server.delivered, UNCHANGED <<answers, broken>>
    PROVE  Covered'
<1>1. /\ left["J"] \in Nat /\ left'["J"] \in Nat /\ age \in Nat
      /\ reqLeft \in Nat /\ reqLeft' \in Nat
  BY DEF TimedTypes, Timers
<1>2. requests \in BOOLEAN /\ reqLeft <= Delay
  BY DEF Covered, Single
<1>3. requests' \in BOOLEAN /\ (requests = FALSE => requests' = FALSE)
  BY <1>2 DEF CalmFacts
<1>4. reqLeft' <= Delay
  BY <1>1, <1>2, Constants DEF CalmFacts
<1>5. Single'
  BY <1>3, <1>4 DEF Covered, Single, CalmFacts
<1>6. ASSUME ~broken PROVE Outlived'
  <2>1. Outlived
    BY <1>6 DEF Covered
  <2>2. ASSUME server.state = "COMPLETED", ~Reliable
        PROVE  /\ requests' => left'["J"] > reqLeft'
               /\ Waiting(client') => left'["J"] + age' >= 64 * T1
    <3>1. /\ "J" \in server.timers
          /\ requests => left["J"] > reqLeft
          /\ Waiting(client) => left["J"] + age >= 64 * T1
      BY <2>1, <2>2 DEF Outlived
    <3>2. left'["J"] = left["J"] /\ reqLeft' <= reqLeft
      BY <3>1 DEF CalmFacts
    <3>3. requests' => requests
      BY <1>2, <1>3
    <3>4. requests' => left'["J"] > reqLeft'
      BY <1>1, <3>1, <3>2, <3>3
    <3>. QED BY <3>1, <3>2, <3>4 DEF CalmFacts
  <2>3. server.state = "TERMINATED" =>
           /\ requests' = FALSE
           /\ Waiting(client') /\ "E" \in client'.timers => age' >= 64 * T1
    BY <1>3, <2>1 DEF Outlived, CalmFacts
  <2>. QED BY <2>1, <2>2, <2>3 DEF Outlived, OneAnswer
<1>. QED BY <1>5, <1>6 DEF Covered

\* belle_sip_provider_dispatch_request: with the server gone no copy arrives.
LEMMA CoveredRequest ==
    ASSUME Committed, TimedTypes, TimedTypes', Covered, CalmFacts,
           ReceiveRequest, UNCHANGED broken
    PROVE  Covered'
<1>1. requests = TRUE /\ answers' = answers /\ client' = client
  BY DEF ReceiveRequest, Covered, Single
<1>2. CASE server.state \in {"NONE", "TERMINATED"}
  <2>1. /\ server' = [NoServer EXCEPT !.state = "TRYING", !.delivered = server.delivered + 1]
        /\ Reliable => requests' = FALSE
    BY <1>2 DEF ReceiveRequest, belle_sip_nist_new
  <2>2. /\ server'.state = "TRYING" /\ server'.timers = {}
        /\ server'.delivered = server.delivered + 1
    BY <2>1 DEF NoServer
  <2>3. Single'
    <3>1. reqLeft \in Nat /\ reqLeft' \in Nat /\ reqLeft <= Delay
      BY DEF TimedTypes, Covered, Single
    <3>2. reqLeft' <= Delay
      BY <3>1, Constants DEF CalmFacts
    <3>4. requests' \in BOOLEAN
      BY <1>1 DEF CalmFacts
    <3>3. client.state # "INIT"
      BY <1>1 DEF Covered, Single
    <3>. QED BY <1>1, <2>1, <2>2, <3>2, <3>3, <3>4 DEF Covered, Single
  <2>4. ~broken => Outlived'
    <3>. SUFFICES ASSUME ~broken PROVE Outlived'
      OBVIOUS
    <3>1. server.state = "NONE" /\ server.delivered = 0 /\ answers = {}
      BY <1>1, <1>2 DEF Covered, Outlived
    <3>. QED BY <1>1, <2>2, <3>1 DEF Outlived
  <2>. QED BY <2>3, <2>4 DEF Covered
<1>3. CASE ~(server.state \in {"NONE", "TERMINATED"})
  <2>1. server' = server
    BY <1>3 DEF ReceiveRequest
  <2>. QED BY <1>1, <2>1, CoveredSameServer
<1>. QED BY <1>2, <1>3

\* belle_sip_server_transaction_send_response: timer J starts with 64 * T1,
\* more than any copy has left and than the client has to wait.
LEMMA CoveredResponse ==
    ASSUME Committed, TimedTypes, TimedTypes', Covered, CalmFacts, Delay < T1,
           NEW code \in Codes, SendResponse(code), UNCHANGED broken
    PROVE  Covered'
<1>1. client' = client /\ requests' = requests /\ server \in Servers /\ server.state # "NONE"
  BY DEF SendResponse, Committed
<1>2. CASE server.state \in {"TRYING", "PROCEEDING"} /\ Final(code)
  <2>1. /\ server' = [[server EXCEPT !.bound = TRUE] EXCEPT
                         !.state = "COMPLETED", !.timers = {"J"}, !.last = code]
        /\ answers' = answers \cup {<<server.delivered, code>>}
    BY <1>2 DEF SendResponse, nist_send_new_response
  <2>2. /\ server'.state = "COMPLETED" /\ server'.timers = {"J"}
        /\ server'.delivered = server.delivered
    BY <1>1, <2>1 DEF Servers
  <2>3. server.timers = {} /\ reqLeft <= Delay /\ requests \in BOOLEAN
    BY <1>2 DEF Covered, Single
  <2>4. reqLeft \in Nat /\ reqLeft' \in Nat /\ age \in Nat /\ age' \in Nat
    BY DEF TimedTypes
  <2>5. reqLeft' <= Delay
    BY <2>3, <2>4, Constants DEF CalmFacts
  <2>6. Single'
    BY <1>1, <1>2, <2>2, <2>3, <2>5 DEF Covered, Single, CalmFacts
  <2>7. ~broken => Outlived'
    <3>. SUFFICES ASSUME ~broken PROVE Outlived'
      OBVIOUS
    <3>1. server.delivered = 1 /\ answers = {}
      BY <1>2 DEF Covered, Outlived
    <3>2. OneAnswer'
      BY <2>1, <3>1 DEF OneAnswer
    <3>3. ~Reliable => left'["J"] = 64 * T1
      BY <2>2, <2>3, Durations DEF CalmFacts
    <3>4. ~Reliable => left'["J"] > reqLeft' /\ left'["J"] + age' >= 64 * T1
      BY <2>4, <2>5, <3>3, Constants
    <3>. QED BY <2>2, <3>1, <3>2, <3>4 DEF Outlived
  <2>. QED BY <2>6, <2>7 DEF Covered
<1>3. CASE ~(server.state \in {"TRYING", "PROCEEDING"} /\ Final(code))
  <2>1. answers' = answers
    BY <1>3 DEF SendResponse
  <2>2. CASE server.state \in {"TRYING", "PROCEEDING"} /\ ~Final(code)
    <3>1. server' = [[server EXCEPT !.bound = TRUE] EXCEPT !.state = "PROCEEDING", !.last = code]
      BY <2>2 DEF SendResponse, nist_send_new_response
    <3>2. /\ server'.state = "PROCEEDING" /\ server'.timers = server.timers
          /\ server'.delivered = server.delivered
      BY <1>1, <3>1 DEF Servers
    <3>3. reqLeft \in Nat /\ reqLeft' \in Nat /\ reqLeft <= Delay
      BY DEF TimedTypes, Covered, Single
    <3>4. reqLeft' <= Delay
      BY <3>3, Constants DEF CalmFacts
    <3>5. Single'
      BY <1>1, <2>2, <3>2, <3>4 DEF Covered, Single, CalmFacts
    <3>6. ~broken => Outlived'
      BY <2>1, <2>2, <3>2 DEF Covered, Outlived
    <3>. QED BY <3>5, <3>6 DEF Covered
  <2>3. CASE server.state \in {"COMPLETED", "TERMINATED"}
    <3>1. \/ server' = [server EXCEPT !.bound = TRUE]
          \/ server' = [[server EXCEPT !.bound = TRUE] EXCEPT !.last = code]
      BY <1>1, <2>3 DEF SendResponse, nist_send_new_response, Servers
    <3>2. /\ server'.state = server.state /\ server'.timers = server.timers
          /\ server'.delivered = server.delivered
      BY <1>1, <3>1 DEF Servers
    <3>. QED BY <2>1, <2>3, <3>2, CoveredSameServer
  <2>. QED BY <1>1, <1>3, <2>2, <2>3 DEF Servers, ServerStates
<1>. QED BY <1>2, <1>3

\* nist_on_timer_J and the loss of the server's channel
LEMMA CoveredEnd ==
    ASSUME Committed, TimedTypes, TimedTypes', Timely, Covered, CalmFacts,
           \/ ServerChannelLost /\ broken' = TRUE
           \/ TimerJ /\ left["J"] = 0 /\ UNCHANGED broken
    PROVE  Covered'
<1>1. client' = client /\ requests' = requests /\ answers' = answers /\ server \in Servers
  BY DEF ServerChannelLost, TimerJ, Committed
<1>2. server'.state = "TERMINATED" /\ server'.delivered = server.delivered
  <2>1. server.ends + 1 \in Nat /\ server.ioerrors + 1 \in Nat
    BY <1>1 DEF Servers
  <2>. QED BY <1>1, <2>1 DEF ServerChannelLost, TimerJ, ServerChannelError, ReportIoError,
                             Terminate, Servers, ServerStates
<1>3. server.state # "NONE"
  BY DEF ServerChannelLost, TimerJ, Covered, Single, NoServer
<1>4. Single'
  <2>1. reqLeft \in Nat /\ reqLeft' \in Nat /\ reqLeft <= Delay
    BY DEF TimedTypes, Covered, Single
  <2>2. reqLeft' <= Delay
    BY <2>1, Constants DEF CalmFacts
  <2>. QED BY <1>1, <1>2, <1>3, <2>2 DEF Covered, Single
<1>5. ASSUME TimerJ, left["J"] = 0, ~broken PROVE Outlived'
  <2>1. server.state \in {"COMPLETED", "TERMINATED"}
    BY <1>1, <1>3, <1>5 DEF TimerJ, Covered, Single, Servers, ServerStates
  <2>2. Outlived /\ Single
    BY <1>5 DEF Covered
  <2>3. OneAnswer /\ server.delivered = 1
    BY <2>1, <2>2 DEF Outlived
  <2>4. age \in Nat /\ reqLeft \in Nat
    BY DEF TimedTypes
  <2>5. requests = FALSE /\ (Waiting(client) /\ "E" \in client.timers => age >= 64 * T1)
    <3>1. CASE server.state = "TERMINATED"
      BY <2>2, <3>1 DEF Outlived
    <3>2. CASE server.state = "COMPLETED" /\ Reliable
      BY <1>3, <2>2, <3>2 DEF Single
    <3>3. CASE server.state = "COMPLETED" /\ ~Reliable
      <4>1. requests => 0 > reqLeft
        BY <1>5, <2>2, <3>3 DEF Outlived
      <4>2. ~requests
        BY <2>4, <4>1
      <4>3. requests = FALSE
        BY <2>2, <4>2 DEF Single
      <4>4. Waiting(client) => 0 + age >= 64 * T1
        BY <1>5, <2>2, <3>3 DEF Outlived
      <4>. QED BY <2>4, <4>3, <4>4
    <3>. QED BY <2>1, <3>1, <3>2, <3>3
  <2>6. Waiting(client) => age' = age
    BY <1>1 DEF CalmFacts
  <2>. QED BY <1>1, <1>2, <2>3, <2>5, <2>6 DEF Outlived, OneAnswer
<1>. QED BY <1>4, <1>5 DEF Covered

LEMMA CoveredStep ==
    ASSUME Sane(client), Committed, Sane(client)', Committed', TimedTypes, TimedTypes', Timely,
           Spaced, Covered, Delay < T1, Tick \/ Started \/ Repeated \/ Calmed
    PROVE  Covered'
<1>1. CASE Calmed
  <2>1. CalmFacts
    BY <1>1, CalmedFacts
  <2>2. CASE UNCHANGED <<server, answers, broken>>
    BY <2>1, <2>2, CoveredSameServer
  <2>3. CASE ReceiveRequest /\ UNCHANGED broken
    BY <2>1, <2>3, CoveredRequest
  <2>4. CASE (\E code \in Codes : SendResponse(code)) /\ UNCHANGED broken
    BY <2>1, <2>4, CoveredResponse
  <2>5. CASE \/ ServerChannelLost /\ broken' = TRUE
             \/ TimerJ /\ "J" \in Armed /\ left["J"] = 0 /\ UNCHANGED broken
    BY <2>1, <2>5, CoveredEnd
  <2>. QED BY <1>1, <2>2, <2>3, <2>4, <2>5 DEF Calmed, ServerMoves
<1>. QED BY <1>1, CoveredTick, CoveredStart, CoveredCopy

-----------------------------------------------------------------------------
(* The theorem about the request and its answer.                           *)

\* What the client remembers as its answer is a final response.
Concluded == client.final # 0 => Final(client.final)

LEMMA ConcludedStep ==
    ASSUME Sane(client), Concluded, [Next]_vars
    PROVE  Concluded'
<1>1. client \in Clients
  BY DEF Sane
<1>2. CASE \E code \in Codes : ReceiveResponse(code)
  <2>1. PICK code \in Codes : ReceiveResponse(code)
    BY <1>2
  <2>2. CASE Final(code)
    <3>1. client'.final \in {client.final, code}
      BY <1>1, <2>1, ResponseKeepsFinal DEF ReceiveResponse
    <3>. QED BY <2>2, <3>1 DEF Concluded
  <2>3. CASE ~Final(code)
    <3>1. client'.final = client.final
      BY <1>1, <2>1, <2>3, ProvisionalKeepsFinal DEF ReceiveResponse
    <3>. QED BY <3>1 DEF Concluded
  <2>. QED BY <2>2, <2>3
<1>3. CASE ~\E code \in Codes : ReceiveResponse(code)
  BY <1>3, FinalKept DEF Concluded
<1>. QED BY <1>2, <1>3

\* When T2 is an even multiple of T1, as with the defaults of sipstack.c, and
\* a message takes less than T1, the application of a server that keeps its
\* channel sees the request once and both applications agree on the answer.
THEOREM DeliveredOnce ==
    Even(T2) /\ Delay < T1 => (TimedSpec => []AtMostOnceDelivery)
<1>. SUFFICES ASSUME Even(T2), Delay < T1 PROVE TimedSpec => []AtMostOnceDelivery
  OBVIOUS
<1>. DEFINE Inv == Clocked /\ Spaced /\ Covered /\ Concluded
<1>1. TimedInit => Inv
  <2>. SUFFICES ASSUME TimedInit PROVE Inv
    OBVIOUS
  <2>1. client.state = "INIT" /\ client.final = 0
    BY DEF TimedInit, Init, NewClient
  <2>2. server = NoServer /\ server.state = "NONE" /\ server.delivered = 0
    BY DEF TimedInit, Init, NoServer
  <2>3. Spaced /\ Concluded
    BY <2>1 DEF Spaced, Waiting, Concluded
  <2>4. Single
    <3>1. reqLeft <= Delay
      BY Constants DEF TimedInit
    <3>2. requests = FALSE /\ requests \in BOOLEAN
      BY DEF TimedInit, Init
    <3>. QED BY <2>1, <2>2, <3>1, <3>2 DEF Single, Waiting
  <2>5. Outlived
    BY <2>2 DEF TimedInit, Init, Outlived
  <2>. QED BY <2>3, <2>4, <2>5, ClockedInit DEF Covered
<1>2. Inv /\ [TimedNext]_timedVars => Inv'
  <2>. SUFFICES ASSUME Inv, [TimedNext]_timedVars PROVE Inv'
    OBVIOUS
  <2>1. Clocked'
    BY ClockedStep
  <2>2. Concluded'
    BY TimedStep, ConcludedStep DEF Clocked
  <2>3. CASE TimedNext
    <3>1. Tick \/ Started \/ Repeated \/ Calmed
      BY <2>3, StepKinds DEF Clocked
    <3>2. Spaced'
      BY <2>1, <3>1, SpacedStep DEF Clocked
    <3>3. Covered'
      BY <2>1, <3>1, CoveredStep DEF Clocked
    <3>. QED BY <2>1, <2>2, <3>2, <3>3
  <2>4. CASE UNCHANGED timedVars
    <3>1. Spaced' /\ Covered'
      BY <2>4 DEF timedVars, Spaced, Waiting, Odd, Multiple, Covered, Single, Outlived, OneAnswer
    <3>. QED BY <2>1, <2>2, <3>1
  <2>. QED BY <2>3, <2>4
<1>3. Inv => AtMostOnceDelivery
  <2>. SUFFICES ASSUME Inv, ~broken PROVE /\ server.delivered <= 1
                                          /\ client.final # 0 => answers = {<<1, client.final>>}
    BY DEF AtMostOnceDelivery
  <2>1. Outlived
    BY DEF Covered
  <2>2. server.delivered <= 1
    BY <2>1 DEF Outlived
  <2>3. ASSUME client.final # 0 PROVE answers = {<<1, client.final>>}
    <3>1. Answered(client.final)
      BY <2>3 DEF Concluded, Clocked, HeardAnswer
    <3>2. PICK a \in answers : a[2] = client.final
      BY <3>1 DEF Answered
    <3>3. server.state \in {"COMPLETED", "TERMINATED"}
      BY <2>1, <3>2 DEF Outlived, Clocked, Committed, Servers, ServerStates
    <3>4. PICK code \in Codes : answers = {<<1, code>>}
      BY <2>1, <3>3 DEF Outlived, OneAnswer
    <3>. QED BY <3>2, <3>4
  <2>. QED BY <2>2, <2>3
<1>. QED BY <1>1, <1>2, <1>3, PTL DEF TimedSpec

=============================================================================
