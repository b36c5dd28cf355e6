--------------------------- MODULE NonInviteTimed ---------------------------
(***************************************************************************)
(* NonInviteTransaction with the durations of its timers.  Time advances   *)
(* in ticks; a timer fires in the tick in which it expires, a task given   *)
(* to the main loop runs before the next tick, and a message spends at     *)
(* most Delay ticks in the network.                                        *)
(***************************************************************************)
EXTENDS NonInviteTransaction

CONSTANTS
    T1, T2, T4,     \* belle_sip_timer_config_t, in ticks
    Delay           \* bound: the longest time a message is in flight

ASSUME TimingAssumption ==
    {T1, T2, T4, Delay} \subseteq Nat /\ T1 > 0 /\ T1 <= T2

VARIABLES
    left,           \* ticks until each armed timer fires, 0 when not armed
    interval,       \* the timeout of timer E
    reqLeft,        \* ticks the newest copy of the request may still travel
    respLeft,       \* the same for each response
    age,            \* ticks since the request left, while the client lives
    sent,           \* copies of the request sent
    broken          \* the server lost a channel

timedVars == <<client, server, requests, responses, answers,
               left, interval, reqLeft, respLeft, age, sent, broken>>

Timers == {"E", "F", "K", "J"}
Armed == client.timers \cup server.timers

\* Fault: timer J lasts as long as a call repair timer.
Duration_ShortJ(t) ==
    CASE t = "E" -> T1
      [] t = "F" -> 64 * T1
      [] t = "K" -> T4
      [] t = "J" -> 32 * T1

\* Fault: timer F runs for one interval of timer E too long.
Duration_LongF(t) ==
    CASE t = "E" -> T1
      [] t = "F" -> 64 * T1 + T2
      [] t = "K" -> T4
      [] t = "J" -> 64 * T1

\* The timeouts given to belle_sip_timeout_source_new in nict.c and nist.c;
\* timer E is armed with T1 and then keeps the interval it computes.
Duration(t) ==
    CASE t = "E" -> T1
      [] t = "F" -> 64 * T1
      [] t = "K" -> T4
      [] t = "J" -> IF Reliable THEN 0 ELSE 64 * T1

Smaller(a, b) == IF a < b THEN a ELSE b

\* nict_on_timer_E: the new timeout of the timer that goes on
NextInterval ==
    IF client.state = "TRYING" THEN Smaller(2 * interval, T2) ELSE T2

TimedInit ==
    /\ Init
    /\ left = [t \in Timers |-> 0]
    /\ interval = 0
    /\ reqLeft = 0
    /\ respLeft = [code \in Codes |-> 0]
    /\ age = 0
    /\ sent = 0
    /\ broken = FALSE

\* The clocks after a step of NonInviteTransaction that is not the firing of
\* timer E: what the step arms starts with its duration, what it stops is
\* cleared, and a copy that the step sends starts its journey.
Clocks(reqSent, respSent) ==
    /\ left' = [t \in Timers |->
                  IF t \notin Armed' THEN 0
                  ELSE IF t \in Armed THEN left[t] ELSE Duration(t)]
    /\ interval' = IF "E" \notin Armed' THEN 0
                   ELSE IF "E" \in Armed THEN interval ELSE T1
    /\ reqLeft' = IF ~requests' THEN 0 ELSE IF reqSent THEN Delay ELSE reqLeft
    /\ respLeft' = [code \in Codes |->
                      IF code \notin responses' THEN 0
                      ELSE IF code \in respSent THEN Delay ELSE respLeft[code]]
    /\ age' = IF client'.state = "TERMINATED" THEN 0 ELSE age
    /\ sent' = IF reqSent THEN sent + 1 ELSE sent

\* A step that sends nothing
Quiet(A) == A /\ Clocks(FALSE, {}) /\ UNCHANGED broken

\* A step that may put the request on the wire for the first time
Sends(A) ==
    /\ A
    /\ Clocks(requests' /\ client'.state = "TRYING" /\ client.state = "INIT", {})
    /\ UNCHANGED broken

Expired(t) == t \in Armed /\ left[t] = 0

\* Timer E again, as belle_sip_main_loop_iterate does for a callback that
\* returns BELLE_SIP_CONTINUE_WITHOUT_CATCHUP.
TimedE ==
    /\ Expired("E")
    /\ TimerE
    /\ IF "E" \in Armed'
       THEN /\ interval' = NextInterval
            /\ left' = [left EXCEPT !["E"] = NextInterval]
            /\ reqLeft' = IF requests' THEN Delay ELSE 0
            /\ sent' = sent + 1
            /\ UNCHANGED <<respLeft, age, broken>>
       ELSE Clocks(FALSE, {}) /\ UNCHANGED broken

TimedReceiveRequest ==
    /\ ReceiveRequest
    /\ Clocks(FALSE, IF server' = server THEN {server.last} ELSE {})
    /\ UNCHANGED broken

TimedSendResponse(code) ==
    /\ SendResponse(code)
    /\ Clocks(FALSE, {code})
    /\ UNCHANGED broken

TimedServerChannelLost ==
    /\ ServerChannelLost
    /\ Clocks(FALSE, {})
    /\ broken' = TRUE

Tick ==
    /\ \A t \in Armed : left[t] > 0
    /\ client.chan # "ERROR"
    /\ requests => reqLeft > 0
    /\ \A code \in responses : respLeft[code] > 0
    /\ left' = [t \in Timers |-> IF t \in Armed THEN left[t] - 1 ELSE 0]
    /\ reqLeft' = IF requests THEN reqLeft - 1 ELSE 0
    /\ respLeft' = [code \in Codes |->
                      IF code \in responses THEN respLeft[code] - 1 ELSE 0]
    /\ age' = IF client.state \in {"TRYING", "PROCEEDING", "COMPLETED"}
              THEN age + 1 ELSE age
    /\ Armed # {} \/ requests \/ responses # {}
    /\ UNCHANGED <<client, server, requests, responses, answers,
                   interval, sent, broken>>

TimedNext ==
    \/ Tick
    \/ Sends(SendRequest) \/ Sends(ChannelReady)
    \/ Quiet(ChannelFails) \/ Quiet(ChannelErrorNotified) \/ Quiet(ChannelDisconnected)
    \/ Quiet(\E code \in Codes : ReceiveResponse(code))
    \/ TimedE
    \/ Expired("F") /\ Quiet(TimerF)
    \/ Expired("K") /\ Quiet(TimerK)
    \/ Expired("J") /\ Quiet(TimerJ)
    \/ Quiet(StopRetransmissions) \/ Quiet(ApplicationTerminates) \/ Quiet(ClientDestroyed)
    \/ TimedReceiveRequest
    \/ (\E code \in Codes : TimedSendResponse(code))
    \/ TimedServerChannelLost
    \/ Quiet(Lose)

TimedSpec == TimedInit /\ [][TimedNext]_timedVars

-----------------------------------------------------------------------------
(* Properties.                                                             *)
\* Timer J (64 * T1 from the answer) outlives every retransmission of the
\* client (timer F, 64 * T1 from the first copy): as long as T2 is an even
\* multiple of T1, a message takes less than T1 and the server keeps its
\* channel, the application of the server sees the request once, and both
\* applications agree on the answer.
AtMostOnceDelivery ==
    ~broken => /\ server.delivered <= 1
               /\ client.final # 0 => answers = {<<1, client.final>>}

\* A request is answered or given up within 64 * T1, and the transaction is
\* gone T4 later whatever arrives in the meantime.  With T2 = 8 * T1 the
\* request leaves at most 11 times before timer F.
BoundedEffort ==
    /\ client.state \in {"TRYING", "PROCEEDING"} => age <= 64 * T1
    /\ client.state = "COMPLETED" => age <= 64 * T1 + T4
    /\ sent <= 11
=============================================================================
