---------------------------- MODULE InviteProofs ----------------------------
(***************************************************************************)
(* Proofs about InviteTransaction, for every set of status codes, both     *)
(* kinds of transport, with and without forking, whatever the application  *)
(* does in its callbacks and however often channels fail and INVITEs are   *)
(* delivered.                                                              *)
(***************************************************************************)
EXTENDS InviteTransaction, TLAPS

(* The inductive invariant.  What concerns one side only is a predicate of *)
(* its record, so that each function of ict.c and ist.c has a lemma of its *)
(* own: it takes a sane transaction to a sane one.                         *)

\* What the caller was told in each state
Told(c) ==
    /\ Transient(c.state) => ~c.success /\ c.failures = 0 /\ c.timeouts = 0
    /\ c.state = "ACCEPTED" => c.success /\ c.failures = 0 /\ c.timeouts = 0
    /\ c.state = "COMPLETED" => c.failures = 1 /\ c.timeouts = 0
    /\ c.failures + c.timeouts <= 1
    /\ c.timeouts = 1 => ~c.success
    /\ c.ends = IF c.state = "TERMINATED" THEN 1 ELSE 0
    /\ c.state = "TERMINATED" =>
          \/ c.cause = "application" \/ c.success
          \/ c.failures + c.timeouts + c.ioerrors > 0

\* The timers that watch over a client without an answer; the call repair
\* timer is started by an error of the channel only.
Watched(c) ==
    /\ Transient(c.state) /\ ~c.bound =>
          "R" \in c.timers \/ (c.state = "INIT" /\ c.chan = "NONE")
    /\ c.state = "CALLING" => "B" \in c.timers \/ "R" \in c.timers
    /\ "R" \in c.timers => c.ioerrors > 0

ClientSane(c) == c \in Clients /\ Told(c) /\ Watched(c)

ServerSane(s) ==
    /\ s \in Servers
    /\ s.state = "NONE" => ~s.bound /\ s.timers = {}
    /\ s.state # "NONE" => s.delivered > 0 /\ s.last \in AllCodes
    /\ s.state = "PROCEEDING" => s.timers \subseteq {"R"}
    /\ s.state = "PROCEEDING" /\ ~s.bound => "R" \in s.timers \/ s.gaveUp
    /\ s.gaveUp => s.state = "PROCEEDING" /\ ~s.bound /\ s.timers = {}
    /\ s.state \in {"ACCEPTED", "CONFIRMED"} => s.bound
    /\ s.state = "TERMINATED" => "R" \notin s.timers
    /\ s.state = "COMPLETED" => s.bound /\ "H" \in s.timers
    /\ "I" \in s.timers => s.state = "CONFIRMED"

\* The history of answers: only incarnations that exist have answered, and
\* one that is still in PROCEEDING has not.
Recorded ==
    /\ \A a \in answers : a[1] <= server.delivered /\ (a[1] = 0 => Forking)
    /\ server.state = "PROCEEDING" => \A a \in answers : a[1] # server.delivered
    /\ CommittedAnswer

\* Every final response in flight, repeated by the server or heard by the
\* client is one that somebody answered.
Answered(code) == \E a \in answers : a[2] = code

Traced ==
    /\ \A code \in responses : Final(code) => Answered(code)
    /\ server.state \in {"PROCEEDING", "COMPLETED"} /\ Final(server.last)
          => Answered(server.last)
    /\ client.success => \E a \in answers : Success(a[2])
    /\ client.failures > 0 => \E a \in answers : Failure(a[2])

\* An ACK is sent only by a client that was told of the failure.
Acknowledged ==
    /\ acks => client.failures = 1
    /\ ConfirmedMeansHeard

Messages ==
    /\ invites \in BOOLEAN /\ acks \in BOOLEAN
    /\ responses \in SUBSET AllCodes
    /\ answers \in SUBSET (Nat \X AllCodes)

IInv ==
    /\ ClientSane(client) /\ ServerSane(server)
    /\ Messages /\ Recorded /\ Traced /\ Acknowledged

-----------------------------------------------------------------------------
(* The client: what each function does to the fields.                      *)

\* The caller hears nothing.
Quiet(c, d) == d.success = c.success /\ d.failures = c.failures

\* The caller hears at most the given response.
Hears(c, d, code) ==
    /\ d.success => c.success \/ Success(code)
    /\ \/ d.failures = c.failures
       \/ d.failures = 1 /\ ~c.success /\ c.failures = 0 /\ Failure(code)

LEMMA CountersGrow ==
    ASSUME NEW c \in Clients
    PROVE  /\ c.ends + 1 \in Nat /\ c.failures + 1 \in Nat
           /\ c.timeouts + 1 \in Nat /\ c.ioerrors + 1 \in Nat
BY DEF Clients

\* belle_sip_transaction_terminate
LEMMA TerminateShape ==
    ASSUME NEW c \in Clients, NEW cause \in Causes
    PROVE  LET d == Terminate(c, cause)
           IN /\ d \in Clients
              /\ d.state = "TERMINATED" /\ "R" \notin d.timers
              /\ d.ends = IF c.state = "TERMINATED" THEN c.ends ELSE c.ends + 1
              /\ d.cause = IF c.state = "TERMINATED" THEN c.cause ELSE cause
              /\ d.bound = c.bound /\ d.chan = c.chan
              /\ d.success = c.success /\ d.failures = c.failures
              /\ d.timeouts = c.timeouts /\ d.ioerrors = c.ioerrors
BY CountersGrow DEF Terminate, Clients, ClientStates

\* A transaction may end when the application wants it or something was
\* reported.
LEMMA EndSane ==
    ASSUME NEW c, ClientSane(c), NEW cause \in Causes,
           \/ cause = "application" \/ c.success \/ c.state = "TERMINATED"
           \/ c.failures + c.timeouts + c.ioerrors > 0
    PROVE  LET d == Terminate(c, cause)
           IN ClientSane(d) /\ Quiet(c, d) /\ d.state = "TERMINATED"
<1>. DEFINE d == Terminate(c, cause)
<1>1. c \in Clients
  BY DEF ClientSane
<1>2. /\ d \in Clients
      /\ d.state = "TERMINATED" /\ "R" \notin d.timers
      /\ d.ends = IF c.state = "TERMINATED" THEN c.ends ELSE c.ends + 1
      /\ d.cause = IF c.state = "TERMINATED" THEN c.cause ELSE cause
      /\ d.success = c.success /\ d.failures = c.failures
      /\ d.timeouts = c.timeouts /\ d.ioerrors = c.ioerrors
  BY <1>1, TerminateShape
<1>. HIDE DEF d
<1>3. /\ c.ends \in Nat /\ c.failures \in Nat /\ c.timeouts \in Nat /\ c.ioerrors \in Nat
  BY <1>1 DEF Clients
<1>4. Told(d)
  BY <1>2, <1>3 DEF ClientSane, Told, Transient
<1>5. Watched(d)
  BY <1>2 DEF Watched, Transient
<1>. QED BY <1>2, <1>4, <1>5 DEF ClientSane, Quiet, d

\* transaction_handle_channel_error and the end of the channel
LEMMA ChannelErrorSane ==
    ASSUME NEW c, ClientSane(c), ~(c.state = "INIT" /\ c.chan = "NONE")
    PROVE  LET d == [ClientChannelError(c) EXCEPT !.chan = "CLOSED"]
           IN ClientSane(d) /\ Quiet(c, d) /\ d.state \in {c.state, "TERMINATED"}
<1>. DEFINE d == [ClientChannelError(c) EXCEPT !.chan = "CLOSED"]
<1>1. c \in Clients /\ Told(c) /\ Watched(c)
  BY DEF ClientSane
<1>2. CASE ~c.bound
  <2>1. /\ d \in Clients /\ d.state = c.state /\ d.timers = c.timers /\ d.bound = c.bound
        /\ d.success = c.success /\ d.failures = c.failures /\ d.timeouts = c.timeouts
        /\ d.ioerrors = c.ioerrors /\ d.ends = c.ends /\ d.cause = c.cause
    BY <1>1, <1>2 DEF ClientChannelError, Clients, ChannelStates
  <2>. HIDE DEF d
  <2>2. Told(d)
    BY <1>1, <2>1 DEF Told
  <2>3. Watched(d)
    BY <1>1, <1>2, <2>1 DEF Watched
  <2>. QED BY <2>1, <2>2, <2>3 DEF ClientSane, Quiet, d
<1>3. CASE c.bound /\ Transient(c.state)
  <2>1. /\ d \in Clients /\ d.state = c.state /\ "R" \in d.timers
        /\ d.success = c.success /\ d.failures = c.failures /\ d.timeouts = c.timeouts
        /\ d.ioerrors = c.ioerrors + 1 /\ d.ends = c.ends /\ d.cause = c.cause
    BY <1>1, <1>3, CountersGrow DEF ClientChannelError, ChannelError, Clients, ChannelStates
  <2>. HIDE DEF d
  <2>2. c.ioerrors \in Nat
    BY <1>1 DEF Clients
  <2>3. Told(d)
    BY <1>1, <1>3, <2>1, <2>2 DEF Told, Transient
  <2>4. Watched(d)
    BY <2>1, <2>2 DEF Watched
  <2>. QED BY <2>1, <2>3, <2>4 DEF ClientSane, Quiet, d
<1>4. CASE c.bound /\ ~Transient(c.state)
  <2>. DEFINE e == Terminate(c, "channel")
  <2>1. c.success \/ c.state = "TERMINATED" \/ c.failures + c.timeouts + c.ioerrors > 0
    <3>1. c.state \in {"ACCEPTED", "COMPLETED", "TERMINATED"} /\ c.ioerrors \in Nat
      BY <1>1, <1>4 DEF Clients, ClientStates, Transient
    <3>. QED BY <1>1, <3>1 DEF Told
  <2>2. ClientSane(e) /\ Quiet(c, e) /\ e.state = "TERMINATED"
    BY <2>1, EndSane DEF Causes
  <2>3. d = [[e EXCEPT !.bound = FALSE] EXCEPT !.chan = "CLOSED"]
    BY <1>4 DEF ClientChannelError, ChannelError
  <2>. HIDE DEF e
  <2>4. /\ d \in Clients /\ d.state = e.state /\ d.timers = e.timers
        /\ d.success = e.success /\ d.failures = e.failures /\ d.timeouts = e.timeouts
        /\ d.ioerrors = e.ioerrors /\ d.ends = e.ends /\ d.cause = e.cause
    BY <2>2, <2>3 DEF ClientSane, Clients, ChannelStates
  <2>. HIDE DEF d
  <2>5. Told(d)
    BY <2>2, <2>4 DEF ClientSane, Told
  <2>6. Watched(d)
    BY <2>2, <2>4 DEF ClientSane, Watched, Transient
  <2>. QED BY <2>2, <2>4, <2>5, <2>6 DEF ClientSane, Quiet, d
<1>. QED BY <1>2, <1>3, <1>4

\* Other timers, as long as those that watch stay
LEMMA TimersSane ==
    ASSUME NEW c, ClientSane(c), NEW T \in SUBSET {"A", "B", "D", "M", "R"},
           "R" \in T <=> "R" \in c.timers,
           c.state = "CALLING" /\ "B" \in c.timers => "B" \in T
    PROVE  LET d == [c EXCEPT !.timers = T]
           IN ClientSane(d) /\ Quiet(c, d) /\ d.state = c.state
<1>. DEFINE d == [c EXCEPT !.timers = T]
<1>1. c \in Clients /\ Told(c) /\ Watched(c)
  BY DEF ClientSane
<1>2. /\ d \in Clients /\ d.state = c.state /\ d.timers = T /\ d.bound = c.bound
      /\ d.success = c.success /\ d.failures = c.failures /\ d.timeouts = c.timeouts
      /\ d.ioerrors = c.ioerrors /\ d.ends = c.ends /\ d.cause = c.cause
      /\ d.chan = c.chan
  BY <1>1 DEF Clients
<1>. HIDE DEF d
<1>3. Told(d)
  BY <1>1, <1>2 DEF Told
<1>4. Watched(d)
  BY <1>1, <1>2 DEF Watched
<1>. QED BY <1>2, <1>3, <1>4 DEF ClientSane, Quiet, d

\* Whatever the application does inside process_response_event
LEMMA ReactSane ==
    ASSUME NEW c, ClientSane(c), c.state # "INIT", NEW reaction \in Reactions
    PROVE  LET d == React(c, reaction)
           IN ClientSane(d) /\ Quiet(c, d) /\ d.state \in {c.state, "TERMINATED"}
<1>1. reaction \in {"none", "terminate", "close"}
  BY ReactionsAssumption
<1>2. CASE reaction = "none"
  BY <1>2 DEF React, Quiet
<1>3. CASE reaction = "terminate"
  BY <1>3, EndSane DEF React, Causes
<1>4. CASE reaction = "close"
  BY <1>4, ChannelErrorSane DEF React
<1>. QED BY <1>1, <1>2, <1>3, <1>4

\* The client is given a channel.
LEMMA BindSane ==
    ASSUME NEW c, ClientSane(c), NEW chan \in ChannelStates
    PROVE  LET d == [c EXCEPT !.bound = TRUE, !.chan = chan]
           IN ClientSane(d) /\ Quiet(c, d) /\ d.state = c.state /\ d.bound
<1>. DEFINE d == [c EXCEPT !.bound = TRUE, !.chan = chan]
<1>1. c \in Clients /\ Told(c) /\ Watched(c)
  BY DEF ClientSane
<1>2. /\ d \in Clients /\ d.state = c.state /\ d.timers = c.timers /\ d.bound
      /\ d.success = c.success /\ d.failures = c.failures /\ d.timeouts = c.timeouts
      /\ d.ioerrors = c.ioerrors /\ d.ends = c.ends /\ d.cause = c.cause
  BY <1>1 DEF Clients
<1>. HIDE DEF d
<1>3. Told(d)
  BY <1>1, <1>2 DEF Told
<1>4. Watched(d)
  BY <1>1, <1>2 DEF Watched
<1>. QED BY <1>2, <1>3, <1>4 DEF ClientSane, Quiet, d

\* belle_sip_provider_dispatch_response binds a transaction that has no
\* channel.
LEMMA RebindSane ==
    ASSUME NEW c, ClientSane(c)
    PROVE  LET d == Rebind(c)
           IN ClientSane(d) /\ Quiet(c, d) /\ d.state = c.state
<1>1. CASE c.bound
  BY <1>1 DEF Rebind, Quiet
<1>2. CASE ~c.bound
  BY <1>2, BindSane DEF Rebind, ChannelStates
<1>. QED BY <1>1, <1>2

\* ict_on_response: the caller hears the response at most, and a client that
\* acknowledges a failure was told of one.
LEMMA ResponseSane ==
    ASSUME NEW c, ClientSane(c), c.state \notin {"INIT", "TERMINATED"},
           NEW code \in AllCodes, NEW reaction \in Reactions
    PROVE  LET d == ict_on_response(c, code, reaction)
           IN /\ ClientSane(d) /\ Hears(c, d, code)
              /\ SendsAck(c, code) => d.failures = 1
<1>. DEFINE d == ict_on_response(c, code, reaction)
<1>1. c \in Clients /\ Told(c) /\ Watched(c)
  BY DEF ClientSane
<1>2. code \in 100..699
  BY CodesAssumption DEF AllCodes
<1>3. /\ c.ends \in Nat /\ c.failures \in Nat /\ c.timeouts \in Nat /\ c.ioerrors \in Nat
      /\ c.success \in BOOLEAN
  BY <1>1 DEF Clients
<1>4. CASE c.state \in {"CALLING", "PROCEEDING"} /\ Failure(code)
  <2>. DEFINE h == [c EXCEPT !.state = "COMPLETED", !.failures = @ + 1]
              r == React(h, reaction)
              k == [r EXCEPT !.timers = @ \cup {"D"}]
  <2>0. ~Success(code) /\ Final(code)
    BY <1>2, <1>4 DEF Success, Failure, Final
  <2>1. d = k
    BY <1>4, <2>0 DEF ict_on_response
  <2>2. /\ h \in Clients /\ h.state = "COMPLETED" /\ h.failures = c.failures + 1
        /\ h.timers = c.timers /\ h.success = c.success /\ h.timeouts = c.timeouts
        /\ h.ioerrors = c.ioerrors /\ h.ends = c.ends
    BY <1>1, CountersGrow DEF Clients, ClientStates
  <2>3. ~c.success /\ c.failures = 0 /\ c.timeouts = 0 /\ c.ends = 0
    BY <1>1, <1>4 DEF Told, Transient
  <2>. HIDE DEF h
  <2>4. Told(h)
    BY <2>2, <2>3 DEF Told, Transient
  <2>5. Watched(h)
    BY <1>1, <2>2 DEF Watched, Transient
  <2>6. ClientSane(r) /\ Quiet(h, r) /\ r.state \in {"COMPLETED", "TERMINATED"}
    BY <2>2, <2>4, <2>5, ReactSane DEF ClientSane
  <2>. HIDE DEF r
  <2>7. r.timers \cup {"D"} \in SUBSET {"A", "B", "D", "M", "R"}
    BY <2>6 DEF ClientSane, Clients
  <2>8. ClientSane(k) /\ Quiet(r, k)
    BY <2>6, <2>7, TimersSane
  <2>9. d.failures = 1 /\ ~d.success
    BY <2>1, <2>2, <2>3, <2>6, <2>8 DEF Quiet
  <2>. QED BY <1>4, <2>1, <2>3, <2>8, <2>9 DEF Hears
<1>5. CASE c.state \in {"CALLING", "PROCEEDING"} /\ Success(code)
  <2>. DEFINE h == [c EXCEPT !.state = "ACCEPTED", !.timers = @ \cup {"M"},
                             !.success = TRUE]
              r == React(h, reaction)
  <2>0. ~Failure(code) /\ Final(code)
    BY <1>2, <1>5 DEF Success, Failure, Final
  <2>1. d = r
    BY <1>5, <2>0 DEF ict_on_response
  <2>2. /\ h \in Clients /\ h.state = "ACCEPTED" /\ h.failures = c.failures
        /\ ("R" \in h.timers => "R" \in c.timers) /\ h.success /\ h.timeouts = c.timeouts
        /\ h.ioerrors = c.ioerrors /\ h.ends = c.ends
    BY <1>1 DEF Clients, ClientStates
  <2>3. ~c.success /\ c.failures = 0 /\ c.timeouts = 0 /\ c.ends = 0
    BY <1>1, <1>5 DEF Told, Transient
  <2>. HIDE DEF h
  <2>4. Told(h)
    BY <2>2, <2>3 DEF Told, Transient
  <2>5. Watched(h)
    BY <1>1, <2>2 DEF Watched, Transient
  <2>6. ClientSane(r) /\ Quiet(h, r)
    BY <2>2, <2>4, <2>5, ReactSane DEF ClientSane
  <2>. HIDE DEF r
  <2>. QED BY <1>5, <2>0, <2>1, <2>2, <2>6 DEF Hears, Quiet, SendsAck
<1>6. CASE c.state \in {"CALLING", "PROCEEDING"} /\ ~Final(code)
  <2>. DEFINE h == [c EXCEPT !.state = "PROCEEDING"]
              r == React(h, reaction)
  <2>0. ~Failure(code) /\ ~Success(code)
    BY <1>6 DEF Final
  <2>1. d = r
    BY <1>6, <2>0 DEF ict_on_response
  <2>2. /\ h \in Clients /\ h.state = "PROCEEDING" /\ h.failures = c.failures
        /\ h.timers = c.timers /\ h.success = c.success /\ h.timeouts = c.timeouts
        /\ h.ioerrors = c.ioerrors /\ h.ends = c.ends /\ h.bound = c.bound
    BY <1>1 DEF Clients, ClientStates
  <2>. HIDE DEF h
  <2>4. Told(h)
    BY <1>1, <1>6, <2>2 DEF Told, Transient
  <2>5. Watched(h)
    BY <1>1, <1>6, <2>2 DEF Watched, Transient
  <2>6. ClientSane(r) /\ Quiet(h, r)
    BY <2>2, <2>4, <2>5, ReactSane DEF ClientSane
  <2>. HIDE DEF r
  <2>. QED BY <2>0, <2>1, <2>2, <2>6 DEF Hears, Quiet, SendsAck
<1>7. CASE c.state \in {"ACCEPTED", "COMPLETED"} /\ Success(code)
  <2>. DEFINE h == [c EXCEPT !.success = TRUE]
              r == React(h, reaction)
  <2>0. ~Failure(code)
    BY <1>2, <1>7 DEF Success, Failure
  <2>1. d = r
    BY <1>7 DEF ict_on_response
  <2>2. /\ h \in Clients /\ h.state = c.state /\ h.failures = c.failures
        /\ h.timers = c.timers /\ h.success /\ h.timeouts = c.timeouts
        /\ h.ioerrors = c.ioerrors /\ h.ends = c.ends /\ h.bound = c.bound
    BY <1>1 DEF Clients
  <2>. HIDE DEF h
  <2>4. Told(h)
    BY <1>1, <1>7, <2>2 DEF Told, Transient
  <2>5. Watched(h)
    BY <1>1, <1>7, <2>2 DEF Watched, Transient
  <2>6. ClientSane(r) /\ Quiet(h, r)
    BY <1>7, <2>2, <2>4, <2>5, ReactSane DEF ClientSane
  <2>. HIDE DEF r
  <2>. QED BY <1>7, <2>0, <2>1, <2>2, <2>6 DEF Hears, Quiet, SendsAck
<1>8. CASE c.state \in {"ACCEPTED", "COMPLETED"} /\ ~Success(code)
  <2>1. d = c
    BY <1>8 DEF ict_on_response
  <2>. QED BY <1>1, <1>8, <2>1 DEF Hears, SendsAck, Told
<1>9. c.state \in {"CALLING", "PROCEEDING", "ACCEPTED", "COMPLETED"}
  BY <1>1 DEF Clients, ClientStates
<1>. QED BY <1>4, <1>5, <1>6, <1>7, <1>8, <1>9 DEF Final

\* ict_send_request, once the channel is ready
LEMMA SendSane ==
    ASSUME NEW c, ClientSane(c), c.state = "INIT", c.bound
    PROVE  LET d == ict_send_request([c EXCEPT !.chan = "READY"])
           IN ClientSane(d) /\ Quiet(c, d)
<1>. DEFINE d == ict_send_request([c EXCEPT !.chan = "READY"])
<1>1. c \in Clients /\ Told(c) /\ Watched(c)
  BY DEF ClientSane
<1>2. /\ d \in Clients /\ d.state = "CALLING" /\ "B" \in d.timers /\ "R" \notin d.timers
      /\ d.bound = c.bound /\ d.ends = c.ends /\ d.ioerrors = c.ioerrors
      /\ d.success = c.success /\ d.failures = c.failures /\ d.timeouts = c.timeouts
  BY <1>1 DEF ict_send_request, Clients, ClientStates, ChannelStates
<1>. HIDE DEF d
<1>3. Told(d)
  BY <1>1, <1>2 DEF Told, Transient
<1>4. Watched(d)
  BY <1>2 DEF Watched
<1>. QED BY <1>2, <1>3, <1>4 DEF ClientSane, Quiet, d

\* The state of a channel that exists changes.
LEMMA ChannelMovesSane ==
    ASSUME NEW c, ClientSane(c), c.chan # "NONE", NEW chan \in ChannelStates
    PROVE  LET d == [c EXCEPT !.chan = chan]
           IN ClientSane(d) /\ Quiet(c, d)
<1>. DEFINE d == [c EXCEPT !.chan = chan]
<1>1. c \in Clients /\ Told(c) /\ Watched(c)
  BY DEF ClientSane
<1>2. /\ d \in Clients /\ d.state = c.state /\ d.timers = c.timers /\ d.bound = c.bound
      /\ d.success = c.success /\ d.failures = c.failures /\ d.timeouts = c.timeouts
      /\ d.ioerrors = c.ioerrors /\ d.ends = c.ends /\ d.cause = c.cause
  BY <1>1 DEF Clients
<1>. HIDE DEF d
<1>3. Told(d)
  BY <1>1, <1>2 DEF Told
<1>4. Watched(d)
  BY <1>1, <1>2 DEF Watched
<1>. QED BY <1>2, <1>3, <1>4 DEF ClientSane, Quiet, d

\* ict_on_timer_B while nobody answered
LEMMA TimeoutSane ==
    ASSUME NEW c, ClientSane(c), c.state = "CALLING"
    PROVE  LET d == Terminate([[c EXCEPT !.timers = @ \ {"B"}] EXCEPT !.timeouts = @ + 1],
                              "timer")
           IN ClientSane(d) /\ Quiet(c, d)
<1>. DEFINE h == [[c EXCEPT !.timers = @ \ {"B"}] EXCEPT !.timeouts = @ + 1]
            d == Terminate(h, "timer")
<1>1. c \in Clients /\ Told(c) /\ Watched(c)
  BY DEF ClientSane
<1>2. /\ h \in Clients /\ h.state = c.state /\ h.ends = c.ends /\ h.ioerrors = c.ioerrors
      /\ h.success = c.success /\ h.failures = c.failures /\ h.timeouts = c.timeouts + 1
  BY <1>1, CountersGrow DEF Clients
<1>3. ~c.success /\ c.failures = 0 /\ c.timeouts = 0 /\ c.ends = 0 /\ c.ioerrors \in Nat
  BY <1>1 DEF Told, Transient, Clients
<1>. HIDE DEF h
<1>4. /\ d \in Clients /\ d.state = "TERMINATED" /\ "R" \notin d.timers
      /\ d.ends = IF h.state = "TERMINATED" THEN h.ends ELSE h.ends + 1
      /\ d.success = h.success /\ d.failures = h.failures
      /\ d.timeouts = h.timeouts /\ d.ioerrors = h.ioerrors
  BY <1>2, TerminateShape DEF Causes
<1>. HIDE DEF d
<1>5. Told(d)
  BY <1>2, <1>3, <1>4 DEF Told, Transient
<1>6. Watched(d)
  BY <1>4 DEF Watched, Transient
<1>7. ClientSane(d) /\ Quiet(c, d)
  BY <1>2, <1>4, <1>5, <1>6 DEF ClientSane, Quiet
<1>. QED BY <1>7 DEF d, h

-----------------------------------------------------------------------------
(* A step of the client.                                                   *)

\* Whatever the client does, it stays sane, it hears at most one response in
\* flight, and it sends an ACK only once it was told of a failure.
LEMMA ClientStep ==
    ASSUME ClientSane(client), Messages, ClientNext
    PROVE  /\ ClientSane(client') /\ Messages'
           /\ UNCHANGED <<server, answers>> /\ responses' \subseteq responses
           /\ Quiet(client, client') \/ \E code \in responses : Hears(client, client', code)
           /\ acks' => acks \/ client'.failures = 1
<1>. DEFINE c == client
<1>1. /\ c \in Clients /\ Watched(c) /\ Told(c)
      /\ c.timers \in SUBSET {"A", "B", "D", "M", "R"}
  BY DEF ClientSane, Clients
<1>2. CASE SendRequest
  <2>. DEFINE b == [c EXCEPT !.bound = TRUE, !.chan = "READY"]
  <2>1. CASE client' = ict_send_request(b)
    <3>1. ClientSane(b) /\ Quiet(c, b) /\ b.state = "INIT" /\ b.bound
      BY <1>2, BindSane DEF SendRequest, ChannelStates
    <3>2. b \in Clients /\ b = [b EXCEPT !.chan = "READY"]
      BY <1>1 DEF Clients, ChannelStates
    <3>. HIDE DEF b
    <3>3. ClientSane(client') /\ Quiet(b, client')
      BY <2>1, <3>1, <3>2, SendSane
    <3>. QED BY <1>2, <3>1, <3>3 DEF SendRequest, Quiet, Messages
  <2>2. CASE client' = [client EXCEPT !.bound = TRUE, !.chan = "CONNECTING"]
    BY <1>2, <2>2, BindSane DEF SendRequest, Messages, ChannelStates
  <2>3. CASE client' = Terminate(client, "application")
    BY <1>2, <2>3, EndSane DEF SendRequest, Messages, Causes
  <2>. QED BY <1>2, <2>1, <2>2, <2>3 DEF SendRequest
<1>3. CASE ChannelReady
  <2>1. CASE client.bound /\ client.state = "INIT"
    BY <1>3, <2>1, SendSane DEF ChannelReady, Messages
  <2>2. CASE ~(client.bound /\ client.state = "INIT")
    BY <1>3, <2>2, ChannelMovesSane DEF ChannelReady, Messages, ChannelStates
  <2>. QED BY <2>1, <2>2
<1>4. CASE ChannelFails
  BY <1>4, ChannelMovesSane DEF ChannelFails, Messages, ChannelStates
<1>5. CASE ChannelErrorNotified
  BY <1>5, ChannelErrorSane DEF ChannelErrorNotified, Messages
<1>6. CASE ChannelDisconnected
  BY <1>6, ChannelErrorSane DEF ChannelDisconnected, Messages
<1>7. ASSUME NEW code \in AllCodes, ReceiveResponse(code)
      PROVE  /\ ClientSane(client') /\ Messages'
             /\ UNCHANGED <<server, answers>> /\ responses' \subseteq responses
             /\ Quiet(client, client') \/ \E k \in responses : Hears(client, client', k)
             /\ acks' => acks \/ client'.failures = 1
  <2>1. /\ code \in responses /\ responses' \subseteq responses
        /\ UNCHANGED <<server, invites, answers>>
    BY <1>7 DEF ReceiveResponse
  <2>2. CASE UNCHANGED <<client, acks>>
    BY <2>1, <2>2 DEF Messages, Quiet
  <2>3. CASE ~UNCHANGED <<client, acks>>
    <3>0. client.state \notin {"INIT", "TERMINATED"}
      BY <1>7, <2>3 DEF ReceiveResponse
    <3>. DEFINE b == Rebind(client)
    <3>1. ClientSane(b) /\ Quiet(c, b) /\ b.state = c.state
      BY RebindSane
    <3>2. PICK reaction \in Reactions : client' = ict_on_response(b, code, reaction)
      BY <1>7, <2>3 DEF ReceiveResponse
    <3>3. acks' = (acks \/ (SendsAck(b, code) /\ b.chan = "READY"))
      BY <1>7, <2>3 DEF ReceiveResponse
    <3>. HIDE DEF b
    <3>4. /\ ClientSane(client') /\ Hears(b, client', code)
          /\ SendsAck(b, code) => client'.failures = 1
      BY <3>0, <3>1, <3>2, ResponseSane
    <3>5. Hears(client, client', code)
      BY <3>1, <3>4 DEF Hears, Quiet
    <3>6. acks' \in BOOLEAN /\ (acks' => acks \/ client'.failures = 1)
      BY <3>3, <3>4, Zenon DEF Messages
    <3>7. Messages'
      BY <2>1, <3>6 DEF Messages
    <3>. QED BY <2>1, <3>4, <3>5, <3>6, <3>7
  <2>. QED BY <2>2, <2>3
<1>8. CASE TimerA
  <2>1. UNCHANGED <<server, acks, responses, answers>> /\ invites' \in BOOLEAN
    BY <1>8 DEF TimerA, Messages
  <2>2. CASE client.bound
    BY <1>8, <2>1, <2>2 DEF TimerA, Messages, Quiet
  <2>3. CASE ~client.bound
    <3>1. c.timers \ {"A"} \in SUBSET {"A", "B", "D", "M", "R"}
      BY <1>1
    <3>. QED BY <1>8, <2>1, <2>3, <3>1, TimersSane DEF TimerA, Messages
  <2>. QED BY <2>2, <2>3
<1>9. CASE TimerB
  <2>1. CASE client.state = "CALLING"
    BY <1>9, <2>1, TimeoutSane DEF TimerB, Messages
  <2>2. CASE client.state # "CALLING"
    <3>1. c.timers \ {"B"} \in SUBSET {"A", "B", "D", "M", "R"}
      BY <1>1
    <3>. QED BY <1>9, <2>2, <3>1, TimersSane DEF TimerB, Messages
  <2>. QED BY <2>1, <2>2
<1>10. CASE TimerD
  <2>. DEFINE f == [c EXCEPT !.timers = @ \ {"D"}]
  <2>1. c.timers \ {"D"} \in SUBSET {"A", "B", "D", "M", "R"}
    BY <1>1
  <2>2. ClientSane(f) /\ Quiet(c, f) /\ f.state = c.state
    BY <2>1, TimersSane
  <2>3. client' = IF client.state = "COMPLETED" THEN Terminate(f, "timer") ELSE f
    BY <1>10 DEF TimerD
  <2>. HIDE DEF f
  <2>4. c.state = "COMPLETED" => f.failures + f.timeouts + f.ioerrors > 0
    BY <2>2 DEF ClientSane, Told, Clients
  <2>5. ClientSane(client') /\ Quiet(client, client')
    BY <2>2, <2>3, <2>4, EndSane DEF Quiet, Causes
  <2>. QED BY <1>10, <2>5 DEF TimerD, Messages
<1>11. CASE TimerM
  <2>. DEFINE f == [c EXCEPT !.timers = @ \ {"M"}]
  <2>1. c.timers \ {"M"} \in SUBSET {"A", "B", "D", "M", "R"}
    BY <1>1
  <2>2. ClientSane(f) /\ Quiet(c, f) /\ f.state = c.state
    BY <2>1, TimersSane
  <2>3. client' = IF client.state = "ACCEPTED" THEN Terminate(f, "timer") ELSE f
    BY <1>11 DEF TimerM
  <2>. HIDE DEF f
  <2>4. c.state = "ACCEPTED" => f.success
    BY <2>2 DEF ClientSane, Told
  <2>5. ClientSane(client') /\ Quiet(client, client')
    BY <2>2, <2>3, <2>4, EndSane DEF Quiet, Causes
  <2>. QED BY <1>11, <2>5 DEF TimerM, Messages
<1>12. CASE ClientRepairTimer
  <2>. DEFINE f == [c EXCEPT !.timers = @ \ {"R"}]
              d == Terminate(f, "repair")
  <2>1. /\ f \in Clients /\ f.state = c.state /\ f.success = c.success
        /\ f.failures = c.failures /\ f.timeouts = c.timeouts /\ f.ioerrors = c.ioerrors
        /\ f.ends = c.ends /\ f.cause = c.cause
    BY <1>1 DEF Clients
  <2>2. client' = d
    BY <1>12 DEF ClientRepairTimer
  <2>. HIDE DEF f
  <2>3. /\ d \in Clients
        /\ d.state = "TERMINATED" /\ "R" \notin d.timers
        /\ d.ends = IF f.state = "TERMINATED" THEN f.ends ELSE f.ends + 1
        /\ d.success = f.success /\ d.failures = f.failures
        /\ d.timeouts = f.timeouts /\ d.ioerrors = f.ioerrors
    BY <2>1, TerminateShape DEF Causes
  <2>. HIDE DEF d
  <2>4. /\ c.ioerrors > 0 /\ c.ioerrors \in Nat /\ c.failures \in Nat
        /\ c.timeouts \in Nat /\ c.ends \in Nat
    BY <1>1, <1>12 DEF ClientRepairTimer, Watched, Clients
  <2>5. Told(d)
    BY <1>1, <2>1, <2>3, <2>4 DEF Told, Transient
  <2>6. Watched(d)
    BY <2>3 DEF Watched, Transient
  <2>. QED BY <1>12, <2>1, <2>2, <2>3, <2>5, <2>6
           DEF ClientRepairTimer, Messages, ClientSane, Quiet
<1>13. CASE StopRetransmissions
  <2>1. c.timers \ {"A"} \in SUBSET {"A", "B", "D", "M", "R"}
    BY <1>1
  <2>. QED BY <1>13, <2>1, TimersSane DEF StopRetransmissions, Messages
<1>14. CASE ApplicationTerminates
  BY <1>14, EndSane DEF ApplicationTerminates, Messages, Causes
<1>15. CASE ClientDestroyed
  <2>1. /\ client' \in Clients /\ client'.state = c.state /\ client'.timers = {}
        /\ client'.success = c.success /\ client'.failures = c.failures
        /\ client'.timeouts = c.timeouts /\ client'.ioerrors = c.ioerrors
        /\ client'.ends = c.ends /\ client'.cause = c.cause
    BY <1>1, <1>15 DEF ClientDestroyed, Clients
  <2>2. Told(client')
    BY <1>1, <2>1 DEF Told
  <2>3. Watched(client')
    BY <1>15, <2>1 DEF ClientDestroyed, Watched, Transient
  <2>. QED BY <1>15, <2>1, <2>2, <2>3 DEF ClientDestroyed, ClientSane, Messages, Quiet
<1>. QED BY <1>2, <1>3, <1>4, <1>5, <1>6, <1>7, <1>8, <1>9, <1>10, <1>11, <1>12,
            <1>13, <1>14, <1>15 DEF ClientNext

-----------------------------------------------------------------------------
(* The server: what each function does to the fields.                      *)

ServerTimers == {"G", "H", "I", "L", "R"}

\* belle_sip_transaction_terminate
LEMMA ServerTerminateShape ==
    ASSUME NEW s \in Servers, NEW cause \in Causes
    PROVE  LET d == Terminate(s, cause)
           IN /\ d \in Servers /\ d.state = "TERMINATED"
              /\ d.timers = IF s.state = "TERMINATED" THEN s.timers \ {"R"} ELSE {}
              /\ d.cause = IF s.state = "TERMINATED" THEN s.cause ELSE cause
              /\ d.bound = s.bound /\ d.last = s.last /\ d.delivered = s.delivered
              /\ d.gaveUp = s.gaveUp
<1>1. s.ends + 1 \in Nat
  BY DEF Servers
<1>. QED BY <1>1 DEF Terminate, Servers, ServerStates

\* A server that ends keeps its incarnation.
LEMMA ServerEndSane ==
    ASSUME NEW s, ServerSane(s), NEW cause \in Causes, s.state # "NONE",
           s.state # "PROCEEDING"
    PROVE  LET d == Terminate(s, cause)
           IN /\ ServerSane(d) /\ d.state = "TERMINATED" /\ d.delivered = s.delivered
              /\ d.cause = IF s.state = "TERMINATED" THEN s.cause ELSE cause
<1>. DEFINE d == Terminate(s, cause)
<1>1. /\ d \in Servers /\ d.state = "TERMINATED"
      /\ d.timers = IF s.state = "TERMINATED" THEN s.timers \ {"R"} ELSE {}
      /\ d.cause = IF s.state = "TERMINATED" THEN s.cause ELSE cause
      /\ d.last = s.last /\ d.delivered = s.delivered /\ d.gaveUp = s.gaveUp
  BY ServerTerminateShape DEF ServerSane
<1>. HIDE DEF d
<1>. QED BY <1>1 DEF ServerSane, d

\* Fewer timers
LEMMA ServerTimersSane ==
    ASSUME NEW s, ServerSane(s), NEW T \in SUBSET ServerTimers,
           s.state = "PROCEEDING" /\ "R" \in s.timers => "R" \in T,
           s.state = "COMPLETED" => "H" \in T, T \subseteq s.timers
    PROVE  LET d == [s EXCEPT !.timers = T]
           IN /\ ServerSane(d) /\ d.state = s.state /\ d.timers = T
              /\ d.delivered = s.delivered /\ d.last = s.last /\ d.cause = s.cause
<1>. DEFINE d == [s EXCEPT !.timers = T]
<1>1. /\ d \in Servers /\ d.state = s.state /\ d.timers = T /\ d.bound = s.bound
      /\ d.delivered = s.delivered /\ d.last = s.last /\ d.cause = s.cause
      /\ d.gaveUp = s.gaveUp
  BY DEF ServerSane, Servers, ServerTimers
<1>. HIDE DEF d
<1>. QED BY <1>1 DEF ServerSane, d

LEMMA ServerBindSane ==
    ASSUME NEW s, ServerSane(s), s.state # "NONE"
    PROVE  LET d == Bind(s)
           IN /\ ServerSane(d) /\ d.state = s.state /\ d.timers = s.timers /\ d.bound
              /\ d.delivered = s.delivered /\ d.last = s.last /\ d.cause = s.cause
<1>. DEFINE d == Bind(s)
<1>1. /\ d \in Servers /\ d.state = s.state /\ d.timers = s.timers /\ d.bound /\ ~d.gaveUp
      /\ d.delivered = s.delivered /\ d.last = s.last /\ d.cause = s.cause
  BY DEF ServerSane, Servers, Bind
<1>. HIDE DEF d
<1>. QED BY <1>1 DEF ServerSane, d

\* ist_send_new_response: only a transaction in PROCEEDING answers, with its
\* timer, and a provisional response answers nothing.
LEMMA NewResponseSane ==
    ASSUME NEW s, ServerSane(s), s.bound, NEW code \in AllCodes
    PROVE  LET d == ist_send_new_response(s, code)
           IN /\ ServerSane(d) /\ d.delivered = s.delivered /\ d.cause = s.cause
              /\ s.state # "PROCEEDING" => d.state = s.state
              /\ s.state = "COMPLETED" => d.last = s.last
              /\ s.state = "PROCEEDING" =>
                    /\ d.last = code
                    /\ d.state = IF Success(code) THEN "ACCEPTED"
                                 ELSE IF Failure(code) THEN "COMPLETED" ELSE "PROCEEDING"
<1>. DEFINE d == ist_send_new_response(s, code)
<1>1. s \in Servers /\ s.state \in ServerStates
  BY DEF ServerSane, Servers
<1>2. code \in 100..699
  BY CodesAssumption DEF AllCodes
<1>3. CASE s.state = "PROCEEDING" /\ Success(code)
  <2>1. ~Failure(code) /\ Final(code)
    BY <1>2, <1>3 DEF Success, Failure, Final
  <2>2. d = [s EXCEPT !.state = "ACCEPTED", !.timers = @ \cup {"L"}, !.last = code]
    BY <1>3, <2>1 DEF ist_send_new_response
  <2>3. /\ d \in Servers /\ d.state = "ACCEPTED" /\ d.timers = s.timers \cup {"L"}
        /\ d.last = code /\ d.delivered = s.delivered /\ d.cause = s.cause
        /\ d.gaveUp = s.gaveUp /\ d.bound = s.bound
    BY <1>1, <2>2 DEF Servers, ServerStates
  <2>. HIDE DEF d
  <2>. QED BY <1>3, <2>3 DEF ServerSane, d
<1>4. CASE s.state = "PROCEEDING" /\ Failure(code)
  <2>1. ~Success(code) /\ Final(code)
    BY <1>2, <1>4 DEF Success, Failure, Final
  <2>. DEFINE T == s.timers \cup {"H"} \cup (IF Reliable THEN {} ELSE {"G"})
  <2>2. d = [s EXCEPT !.state = "COMPLETED", !.last = code, !.timers = T]
    BY <1>4, <2>1 DEF ist_send_new_response
  <2>3. T \in SUBSET ServerTimers /\ "H" \in T /\ ("I" \in T => "I" \in s.timers)
    BY <1>1 DEF Servers, ServerTimers
  <2>. HIDE DEF T
  <2>4. /\ d \in Servers /\ d.state = "COMPLETED" /\ d.timers = T /\ d.bound
        /\ d.last = code /\ d.delivered = s.delivered /\ d.cause = s.cause
        /\ d.gaveUp = s.gaveUp /\ d.bound = s.bound
    BY <1>1, <2>2, <2>3 DEF Servers, ServerStates, ServerTimers
  <2>. HIDE DEF d
  <2>. QED BY <1>4, <2>1, <2>3, <2>4 DEF ServerSane, d
<1>5. CASE s.state = "PROCEEDING" /\ ~Final(code)
  <2>1. ~Success(code) /\ ~Failure(code)
    BY <1>5 DEF Final
  <2>2. d = [s EXCEPT !.last = code]
    BY <1>5, <2>1 DEF ist_send_new_response
  <2>3. /\ d \in Servers /\ d.state = s.state /\ d.timers = s.timers /\ d.bound
        /\ d.last = code /\ d.delivered = s.delivered /\ d.cause = s.cause
        /\ d.gaveUp = s.gaveUp /\ d.bound = s.bound
    BY <1>1, <2>2 DEF Servers
  <2>. HIDE DEF d
  <2>. QED BY <1>5, <2>1, <2>3 DEF ServerSane, d
<1>6. CASE s.state = "ACCEPTED" /\ Success(code)
  <2>2. d = [s EXCEPT !.last = code]
    BY <1>6 DEF ist_send_new_response
  <2>3. /\ d \in Servers /\ d.state = s.state /\ d.timers = s.timers
        /\ d.last = code /\ d.delivered = s.delivered /\ d.cause = s.cause
        /\ d.gaveUp = s.gaveUp /\ d.bound = s.bound
    BY <1>1, <2>2 DEF Servers
  <2>. HIDE DEF d
  <2>. QED BY <1>6, <2>3 DEF ServerSane, d
<1>7. CASE s.state # "PROCEEDING" /\ ~(s.state = "ACCEPTED" /\ Success(code))
  BY <1>7 DEF ist_send_new_response
<1>. QED BY <1>3, <1>4, <1>5, <1>6, <1>7 DEF Final

-----------------------------------------------------------------------------
(* A step of the server keeps the invariant.                               *)

\* belle_sip_server_transaction_send_response, from the application or from
\* the call repair timer: the first final answer of an incarnation is the
\* only one that is recorded.
LEMMA AnswerStep ==
    ASSUME IInv, NEW code \in AllCodes, NEW b, ServerSane(b), b.bound,
           b.state = server.state, b.delivered = server.delivered,
           b.last = server.last, b.cause = server.cause,
           server' = ist_send_new_response(b, code),
           \E s : Answer(s, code)
    PROVE  IInv'
<1>. DEFINE d == ist_send_new_response(b, code)
<1>1. /\ ServerSane(server) /\ server \in Servers /\ Messages /\ Recorded /\ Traced
      /\ Acknowledged /\ server.state \in ServerStates
  BY DEF IInv, ServerSane, Servers
<1>4. server' = d /\ UNCHANGED <<client, invites, acks>>
  BY DEF Answer
<1>6. /\ ServerSane(server') /\ server'.delivered = server.delivered
      /\ server'.cause = server.cause
      /\ server.state # "PROCEEDING" => server'.state = server.state
      /\ server.state = "COMPLETED" => server'.last = server.last
      /\ server.state = "PROCEEDING" =>
            /\ server'.last = code
            /\ server'.state = IF Success(code) THEN "ACCEPTED"
                               ELSE IF Failure(code) THEN "COMPLETED" ELSE "PROCEEDING"
  BY <1>4, NewResponseSane
<1>. HIDE DEF d
<1>7. ClientSane(client')
  BY <1>4 DEF IInv
<1>8. Acknowledged'
  BY <1>1, <1>4, <1>6 DEF Acknowledged, ConfirmedMeansHeard
<1>9. CASE server.state # "PROCEEDING"
  <2>1. UNCHANGED <<responses, answers>>
    BY <1>9 DEF Answer
  <2>2. Messages'
    BY <1>1, <1>4, <2>1 DEF Messages
  <2>3. Recorded'
    BY <1>1, <1>6, <1>9, <2>1 DEF Recorded, CommittedAnswer
  <2>4. Traced'
    BY <1>1, <1>4, <1>6, <1>9, <2>1 DEF Traced, Answered
  <2>. QED BY <1>6, <1>7, <1>8, <2>2, <2>3, <2>4 DEF IInv
<1>10. CASE server.state = "PROCEEDING"
  <2>. DEFINE new == <<server.delivered, code>>
  <2>1. /\ responses' = responses \cup {code}
        /\ answers' = IF Final(code) THEN answers \cup {new} ELSE answers
    BY <1>10 DEF Answer
  <2>2. server.delivered \in Nat /\ server.delivered > 0
    BY <1>1, <1>10 DEF ServerSane, Servers
  <2>3. new \in Nat \X AllCodes /\ new[1] = server.delivered /\ new[2] = code
    BY <2>2
  <2>. HIDE DEF new
  <2>4. Messages'
    BY <1>1, <1>4, <2>1, <2>3 DEF Messages
  <2>5. Recorded'
    <3>1. server'.state = "PROCEEDING" => answers' = answers
      BY <1>6, <1>10, <2>1 DEF Final
    <3>2. \A a \in answers' : a = new \/ a \in answers
      BY <2>1
    <3>3. \A a \in answers : a[1] # new[1]
      BY <1>1, <1>10, <2>3 DEF Recorded
    <3>4. CommittedAnswer'
      BY <1>1, <3>2, <3>3 DEF Recorded, CommittedAnswer
    <3>. QED BY <1>1, <1>6, <1>10, <2>2, <2>3, <3>1, <3>2, <3>4 DEF Recorded
  <2>6. Traced'
    <3>1. answers \subseteq answers' /\ (Final(code) => new \in answers')
      BY <2>1
    <3>2. Final(code) => Answered(code)'
      BY <2>3, <3>1 DEF Answered
    <3>3. \A k \in responses' : Final(k) => Answered(k)'
      BY <1>1, <2>1, <3>1, <3>2 DEF Traced, Answered
    <3>. QED BY <1>1, <1>4, <1>6, <1>10, <3>1, <3>2, <3>3 DEF Traced
  <2>. QED BY <1>6, <1>7, <1>8, <2>4, <2>5, <2>6 DEF IInv
<1>. QED BY <1>9, <1>10

\* The server repeats what it answered, changes timers or channel, moves on
\* to CONFIRMED or ends; it answers nothing new.
LEMMA ServerKeeps ==
    ASSUME IInv, ServerSane(server'), server'.delivered = server.delivered,
           \/ server'.state = server.state /\ server'.last = server.last
           \/ server'.state \in {"CONFIRMED", "TERMINATED"},
           UNCHANGED <<client, answers>>, invites' \in BOOLEAN, acks' \in BOOLEAN,
           acks' => acks,
           \/ responses' \subseteq responses
           \/ /\ server.state \in {"PROCEEDING", "COMPLETED"}
              /\ responses' = responses \cup {server.last},
           ConfirmedMeansHeard'
    PROVE  IInv'
<1>1. /\ ServerSane(server) /\ Messages /\ Recorded /\ Traced /\ Acknowledged
      /\ ClientSane(client)
  BY DEF IInv
<1>2. Messages'
  BY <1>1 DEF Messages, ServerSane
<1>3. Recorded'
  BY <1>1 DEF Recorded, CommittedAnswer
<1>4. Traced'
  BY <1>1 DEF Traced, Answered
<1>5. Acknowledged'
  BY <1>1 DEF Acknowledged
<1>6. ClientSane(client')
  BY <1>1
<1>. QED BY <1>2, <1>3, <1>4, <1>5, <1>6 DEF IInv

\* belle_sip_provider_dispatch_request: a new incarnation has answered
\* nothing, a known one repeats its last response.
LEMMA ReceiveInviteStep ==
    ASSUME IInv, ReceiveInvite
    PROVE  IInv'
<1>1. /\ ServerSane(server) /\ Messages /\ Recorded /\ Traced /\ Acknowledged
      /\ ClientSane(client) /\ server \in Servers
  BY DEF IInv, ServerSane
<1>2. UNCHANGED <<client, acks, answers>> /\ invites' \in BOOLEAN
  BY DEF ReceiveInvite
<1>3. acks \in BOOLEAN /\ acks' \in BOOLEAN
  BY <1>1, <1>2 DEF Messages
<1>4. CASE server.state \in {"NONE", "TERMINATED"}
  <2>. DEFINE d == belle_sip_ist_new(server)
  <2>1. server' = d /\ responses' = responses \cup {100}
    BY <1>4 DEF ReceiveInvite
  <2>2. server.delivered + 1 \in Nat /\ server.ioerrors \in Nat /\ server.delivered \in Nat
    BY <1>1 DEF Servers
  <2>3. /\ d \in Servers /\ d.state = "PROCEEDING" /\ d.bound /\ d.last = 100
        /\ ~d.gaveUp /\ d.timers = {} /\ d.cause = "none" /\ d.delivered = server.delivered + 1
    BY <2>2 DEF belle_sip_ist_new, NoServer, Servers, ServerStates, AllCodes, Causes
  <2>. HIDE DEF d
  <2>4. ServerSane(server')
    BY <2>1, <2>2, <2>3 DEF ServerSane, AllCodes
  <2>5. Messages'
    BY <1>1, <1>2, <1>3, <2>1 DEF Messages, AllCodes
  <2>6. Recorded'
    <3>1. \A a \in answers : a[1] \in Nat
      BY <1>1 DEF Messages
    <3>2. \A a \in answers : a[1] <= server.delivered /\ (a[1] = 0 => Forking)
      BY <1>1 DEF Recorded
    <3>3. \A a \in answers' : a[1] < server'.delivered /\ (a[1] = 0 => Forking)
      BY <1>2, <2>1, <2>2, <2>3, <3>1, <3>2
    <3>4. CommittedAnswer'
      BY <1>1, <1>2 DEF Recorded, CommittedAnswer
    <3>5. \A a \in answers' : a[1] <= server'.delivered /\ a[1] # server'.delivered
      BY <1>2, <2>1, <2>2, <2>3, <3>1, <3>3
    <3>. QED BY <3>3, <3>4, <3>5 DEF Recorded
  <2>7. Traced'
    <3>1. ~Final(100)
      BY DEF Final, Success, Failure
    <3>. QED BY <1>1, <1>2, <2>1, <2>3, <3>1 DEF Traced, Answered
  <2>8. Acknowledged'
    BY <1>1, <1>2, <2>1, <2>3 DEF Acknowledged, ConfirmedMeansHeard
  <2>. QED BY <1>1, <1>2, <2>4, <2>5, <2>6, <2>7, <2>8 DEF IInv
<1>5. CASE server.state \in {"PROCEEDING", "COMPLETED"}
  <2>1. \/ server' = Bind(server) /\ responses' = responses \cup {server.last}
        \/ UNCHANGED <<server, responses>>
    BY <1>5 DEF ReceiveInvite
  <2>2. /\ ServerSane(server') /\ server'.state = server.state
        /\ server'.last = server.last /\ server'.delivered = server.delivered
        /\ server'.cause = server.cause
    BY <1>1, <1>5, <2>1, ServerBindSane
  <2>3. ConfirmedMeansHeard'
    BY <1>1, <1>2, <2>2 DEF Acknowledged, ConfirmedMeansHeard
  <2>. QED BY <1>2, <1>3, <1>5, <2>1, <2>2, <2>3, ServerKeeps
<1>6. CASE server.state \notin {"NONE", "TERMINATED", "PROCEEDING", "COMPLETED"}
  <2>1. UNCHANGED <<server, responses>>
    BY <1>6 DEF ReceiveInvite
  <2>2. ConfirmedMeansHeard'
    BY <1>1, <1>2, <2>1 DEF Acknowledged, ConfirmedMeansHeard
  <2>. QED BY <1>1, <1>2, <1>3, <2>1, <2>2, ServerKeeps
<1>. QED BY <1>4, <1>5, <1>6

LEMMA ServerStep ==
    ASSUME IInv, ServerNext
    PROVE  IInv'
<1>1. /\ ServerSane(server) /\ Messages /\ Recorded /\ Traced /\ Acknowledged
      /\ ClientSane(client) /\ server \in Servers
  BY DEF IInv, ServerSane
<1>2. /\ invites \in BOOLEAN /\ acks \in BOOLEAN
      /\ server.timers \in SUBSET ServerTimers /\ server.delivered \in Nat
      /\ server.last \in AllCodes \cup {0} /\ server.ioerrors \in Nat
      /\ server.state \in ServerStates
  BY <1>1 DEF Messages, Servers, ServerTimers
<1>3. CASE ReceiveInvite
  BY <1>3, ReceiveInviteStep
<1>4. CASE ReceiveAck
  <2>1. /\ acks /\ acks' \in BOOLEAN /\ client.failures = 1
        /\ UNCHANGED <<client, invites, responses, answers>>
    BY <1>1, <1>4 DEF ReceiveAck, Acknowledged, Messages
  <2>2. CASE server.state # "COMPLETED"
    <3>1. server' = server
      BY <1>4, <2>2 DEF ReceiveAck
    <3>. QED BY <1>1, <1>2, <2>1, <3>1, ServerKeeps DEF ConfirmedMeansHeard
  <2>3. CASE server.state = "COMPLETED"
    <3>. DEFINE f == [server EXCEPT !.state = "CONFIRMED", !.timers = @ \ {"G"}]
                i == [f EXCEPT !.timers = @ \cup {"I"}]
    <3>1. server' = IF Reliable THEN Terminate(f, "acked") ELSE i
      BY <1>4, <2>3 DEF ReceiveAck
    <3>2. /\ f \in Servers /\ f.state = "CONFIRMED" /\ f.delivered = server.delivered
          /\ f.last = server.last /\ f.bound = server.bound /\ f.gaveUp = server.gaveUp
          /\ f.timers \subseteq server.timers
      BY <1>1 DEF Servers, ServerStates
    <3>3. f.delivered > 0 /\ f.last \in AllCodes /\ f.bound /\ ~f.gaveUp
      BY <1>1, <2>3, <3>2 DEF ServerSane
    <3>. HIDE DEF f
    <3>4. ServerSane(f)
      BY <3>2, <3>3 DEF ServerSane
    <3>5. /\ i \in Servers /\ i.state = "CONFIRMED" /\ i.delivered = f.delivered
          /\ i.last = f.last /\ i.bound = f.bound /\ i.gaveUp = f.gaveUp
      BY <3>2 DEF Servers
    <3>. HIDE DEF i
    <3>6. ServerSane(i)
      BY <3>2, <3>3, <3>5 DEF ServerSane
    <3>7. /\ ServerSane(Terminate(f, "acked")) /\ Terminate(f, "acked").state = "TERMINATED"
          /\ Terminate(f, "acked").delivered = f.delivered
      BY <3>2, <3>4, ServerEndSane DEF Causes
    <3>8. /\ ServerSane(server') /\ server'.delivered = server.delivered
          /\ server'.state \in {"CONFIRMED", "TERMINATED"}
      BY <3>1, <3>2, <3>5, <3>6, <3>7
    <3>. QED BY <1>2, <2>1, <3>8, ServerKeeps DEF ConfirmedMeansHeard
  <2>. QED BY <2>2, <2>3
<1>5. ASSUME NEW code \in Codes, SendResponse(code) PROVE IInv'
  <2>. DEFINE b == Bind(server)
  <2>1. server.state # "NONE" /\ Answer(server, code)
    BY <1>5 DEF SendResponse
  <2>2. server' = ist_send_new_response(b, code)
    BY <2>1 DEF Answer
  <2>3. /\ ServerSane(b) /\ b.bound /\ b.state = server.state
        /\ b.delivered = server.delivered /\ b.last = server.last /\ b.cause = server.cause
    BY <1>1, <2>1, ServerBindSane
  <2>. HIDE DEF b
  <2>. QED BY <2>1, <2>2, <2>3, AnswerStep DEF AllCodes
<1>6. CASE ServerRepairTimer
  <2>. DEFINE f == [server EXCEPT !.timers = @ \ {"R"}]
              g == [f EXCEPT !.gaveUp = TRUE]
              b == Bind(f)
  <2>1. server.state # "NONE" /\ ~server.gaveUp
    BY <1>1, <1>6 DEF ServerRepairTimer, ServerSane
  <2>2. /\ f \in Servers /\ f.state = server.state /\ f.timers = server.timers \ {"R"}
        /\ f.bound = server.bound /\ f.last = server.last /\ f.gaveUp = server.gaveUp
        /\ f.delivered = server.delivered /\ f.cause = server.cause
    BY <1>1 DEF Servers
  <2>3. \/ Answer(f, 503)
        \/ /\ ~server.bound /\ server' = g
           /\ UNCHANGED <<client, invites, acks, responses, answers>>
    BY <1>6 DEF ServerRepairTimer
  <2>. HIDE DEF f
  <2>4. CASE Answer(f, 503)
    <3>1. /\ b \in Servers /\ b.state = f.state /\ b.timers = f.timers /\ b.bound
          /\ ~b.gaveUp /\ b.last = f.last /\ b.delivered = f.delivered /\ b.cause = f.cause
      BY <2>2 DEF Bind, Servers
    <3>2. server' = ist_send_new_response(b, 503)
      BY <2>4 DEF Answer
    <3>. HIDE DEF b
    <3>3. ServerSane(b)
      BY <1>1, <2>1, <2>2, <3>1 DEF ServerSane
    <3>. QED BY <2>2, <2>4, <3>1, <3>2, <3>3, AnswerStep DEF AllCodes
  <2>5. CASE /\ ~server.bound /\ server' = g
             /\ UNCHANGED <<client, invites, acks, responses, answers>>
    <3>1. /\ server' \in Servers /\ server'.state = f.state /\ server'.timers = f.timers
          /\ server'.bound = f.bound /\ server'.gaveUp /\ server'.last = f.last
          /\ server'.delivered = f.delivered /\ server'.cause = f.cause
      BY <2>2, <2>5 DEF Servers
    <3>2. server.state = "PROCEEDING"
      <4>1. "R" \in server.timers
        BY <1>6 DEF ServerRepairTimer
      <4>. QED BY <1>1, <1>2, <2>1, <2>5, <4>1 DEF ServerSane, ServerStates
    <3>3. ServerSane(server')
      BY <1>1, <2>2, <2>5, <3>1, <3>2 DEF ServerSane
    <3>4. ConfirmedMeansHeard'
      BY <1>1, <2>2, <2>5, <3>1 DEF Acknowledged, ConfirmedMeansHeard
    <3>. QED BY <1>2, <2>2, <2>5, <3>1, <3>3, <3>4, ServerKeeps
  <2>. QED BY <2>3, <2>4, <2>5
<1>7. CASE TimerG
  <2>1. UNCHANGED <<client, invites, acks, answers>>
    BY <1>7 DEF TimerG
  <2>2. CASE server.state = "COMPLETED"
    <3>1. /\ server' = Bind(server)
          /\ responses' = responses \cup {server.last}
      BY <1>7, <2>2 DEF TimerG
    <3>2. /\ ServerSane(server') /\ server'.state = server.state
          /\ server'.last = server.last /\ server'.delivered = server.delivered
          /\ server'.cause = server.cause
      BY <1>1, <2>2, <3>1, ServerBindSane
    <3>3. ConfirmedMeansHeard'
      BY <1>1, <2>1, <3>2 DEF Acknowledged, ConfirmedMeansHeard
    <3>. QED BY <1>2, <2>1, <2>2, <3>1, <3>2, <3>3, ServerKeeps
  <2>3. CASE server.state # "COMPLETED"
    <3>1. server' = [server EXCEPT !.timers = @ \ {"G"}] /\ UNCHANGED responses
      BY <1>7, <2>3 DEF TimerG
    <3>2. /\ ServerSane(server') /\ server'.state = server.state
          /\ server'.last = server.last /\ server'.delivered = server.delivered
          /\ server'.cause = server.cause
      <4>1. server.timers \ {"G"} \in SUBSET ServerTimers
        BY <1>2
      <4>. QED BY <1>1, <2>3, <3>1, <4>1, ServerTimersSane
    <3>3. ConfirmedMeansHeard'
      BY <1>1, <2>1, <3>2 DEF Acknowledged, ConfirmedMeansHeard
    <3>. QED BY <1>2, <2>1, <3>1, <3>2, <3>3, ServerKeeps
  <2>. QED BY <2>2, <2>3
<1>8. CASE TimerH
  <2>. DEFINE f == [server EXCEPT !.timers = @ \ {"H"}]
  <2>1. /\ server' = IF server.state = "COMPLETED" THEN Terminate(f, "timer") ELSE f
        /\ UNCHANGED <<client, invites, acks, responses, answers>>
    BY <1>8 DEF TimerH
  <2>2. /\ f \in Servers /\ f.state = server.state /\ f.timers = server.timers \ {"H"}
        /\ f.bound = server.bound /\ f.last = server.last /\ f.gaveUp = server.gaveUp
        /\ f.delivered = server.delivered /\ f.cause = server.cause
    BY <1>1 DEF Servers
  <2>. HIDE DEF f
  <2>3. CASE server.state = "COMPLETED"
    <3>. DEFINE d == Terminate(f, "timer")
    <3>1. /\ d \in Servers /\ d.state = "TERMINATED" /\ d.timers = {} /\ d.cause = "timer"
          /\ d.last = f.last /\ d.delivered = f.delivered /\ d.gaveUp = f.gaveUp
      BY <2>2, <2>3, ServerTerminateShape DEF Causes
    <3>2. server' = d
      BY <2>1, <2>3
    <3>. HIDE DEF d
    <3>3. ServerSane(server') /\ server'.state = "TERMINATED"
          /\ server'.delivered = server.delivered
      BY <1>1, <2>2, <2>3, <3>1, <3>2 DEF ServerSane
    <3>4. ConfirmedMeansHeard'
      BY <3>1, <3>2 DEF ConfirmedMeansHeard
    <3>. QED BY <1>2, <2>1, <3>3, <3>4, ServerKeeps
  <2>4. CASE server.state # "COMPLETED"
    <3>1. server' = f
      BY <2>1, <2>4
    <3>2. ServerSane(server')
      BY <1>1, <2>2, <2>4, <3>1 DEF ServerSane
    <3>3. ConfirmedMeansHeard'
      BY <1>1, <2>1, <2>2, <3>1 DEF Acknowledged, ConfirmedMeansHeard
    <3>. QED BY <1>2, <2>1, <2>2, <3>1, <3>2, <3>3, ServerKeeps
  <2>. QED BY <2>3, <2>4
<1>9. CASE TimerI
  <2>. DEFINE f == [server EXCEPT !.timers = @ \ {"I"}]
              d == Terminate(f, "acked")
  <2>1. server' = d /\ UNCHANGED <<client, invites, acks, responses, answers>>
    BY <1>9 DEF TimerI
  <2>2. server.state = "CONFIRMED" /\ client.failures = 1
    BY <1>1, <1>9 DEF TimerI, ServerSane, Acknowledged, ConfirmedMeansHeard
  <2>3. ServerSane(f) /\ f.state = server.state /\ f.delivered = server.delivered
    <3>1. server.timers \ {"I"} \in SUBSET ServerTimers
      BY <1>2
    <3>. QED BY <1>1, <2>2, <3>1, ServerTimersSane
  <2>. HIDE DEF f
  <2>4. ServerSane(d) /\ d.state = "TERMINATED" /\ d.delivered = f.delivered
    BY <2>2, <2>3, ServerEndSane DEF Causes
  <2>. HIDE DEF d
  <2>. QED BY <1>2, <2>1, <2>2, <2>3, <2>4, ServerKeeps DEF ConfirmedMeansHeard
<1>10. CASE TimerL
  <2>. DEFINE f == [server EXCEPT !.timers = @ \ {"L"}]
              d == Terminate(f, "timer")
  <2>1. server' = d /\ UNCHANGED <<client, invites, acks, responses, answers>>
    BY <1>10 DEF TimerL
  <2>2. /\ f \in Servers /\ f.state = server.state /\ f.last = server.last
        /\ f.timers \subseteq server.timers /\ f.gaveUp = server.gaveUp
        /\ f.delivered = server.delivered /\ f.cause = server.cause
    BY <1>1 DEF Servers
  <2>. HIDE DEF f
  <2>3. /\ d \in Servers /\ d.state = "TERMINATED" /\ d.last = f.last
        /\ d.timers = IF f.state = "TERMINATED" THEN f.timers \ {"R"} ELSE {}
        /\ d.delivered = f.delivered /\ d.gaveUp = f.gaveUp
        /\ d.cause = IF f.state = "TERMINATED" THEN f.cause ELSE "timer"
    BY <2>2, ServerTerminateShape DEF Causes
  <2>. HIDE DEF d
  <2>4. server.state # "NONE" /\ ~server.gaveUp
    BY <1>1, <1>10 DEF ServerSane, TimerL
  <2>5. /\ ServerSane(server') /\ server'.delivered = server.delivered
        /\ server'.state = "TERMINATED"
    BY <1>1, <2>1, <2>2, <2>3, <2>4 DEF ServerSane
  <2>6. ConfirmedMeansHeard'
    BY <1>1, <2>1, <2>2, <2>3 DEF Acknowledged, ConfirmedMeansHeard
  <2>. QED BY <1>2, <2>1, <2>5, <2>6, ServerKeeps
<1>11. CASE ServerChannelLost
  <2>1. /\ server' = ChannelError(server) /\ server.bound
        /\ UNCHANGED <<client, invites, acks, responses, answers>>
    BY <1>11 DEF ServerChannelLost
  <2>2. CASE Transient(server.state)
    <3>1. /\ server' \in Servers /\ server'.state = server.state /\ "R" \in server'.timers
          /\ ("I" \in server'.timers => "I" \in server.timers)
          /\ server'.timers = server.timers \cup {"R"} /\ server'.gaveUp = server.gaveUp
          /\ server'.last = server.last /\ server'.delivered = server.delivered
          /\ server'.cause = server.cause
      <4>1. server.ioerrors + 1 \in Nat
        BY <1>2
      <4>. QED BY <1>1, <2>1, <2>2, <4>1 DEF ChannelError, Servers
    <3>2. ServerSane(server')
      <4>1. server.state = "PROCEEDING" /\ ~server.gaveUp
        BY <1>1, <1>2, <2>1, <2>2 DEF ServerSane, Transient, ServerStates
      <4>. QED BY <1>1, <3>1, <4>1 DEF ServerSane
    <3>3. ConfirmedMeansHeard'
      BY <1>1, <2>1, <3>1 DEF Acknowledged, ConfirmedMeansHeard
    <3>. QED BY <1>2, <2>1, <3>1, <3>2, <3>3, ServerKeeps
  <2>3. CASE ~Transient(server.state)
    <3>. DEFINE e == Terminate(server, "channel")
    <3>1. server' = [e EXCEPT !.bound = FALSE]
      BY <2>1, <2>3 DEF ChannelError
    <3>2. /\ e \in Servers /\ e.state = "TERMINATED" /\ e.last = server.last
          /\ e.timers = IF server.state = "TERMINATED" THEN server.timers \ {"R"} ELSE {}
          /\ e.delivered = server.delivered /\ e.gaveUp = server.gaveUp
          /\ e.cause = IF server.state = "TERMINATED" THEN server.cause ELSE "channel"
      BY <1>1, ServerTerminateShape DEF Causes
    <3>. HIDE DEF e
    <3>3. /\ server' \in Servers /\ server'.state = e.state /\ server'.last = e.last
          /\ server'.timers = e.timers /\ server'.delivered = e.delivered
          /\ server'.cause = e.cause /\ server'.gaveUp = e.gaveUp
      BY <3>1, <3>2 DEF Servers
    <3>4. /\ ServerSane(server') /\ server'.delivered = server.delivered
          /\ server'.state = "TERMINATED"
      <4>1. server.state # "NONE" /\ ~server.gaveUp
        BY <1>1, <2>1 DEF ServerSane
      <4>. QED BY <1>1, <3>2, <3>3, <4>1 DEF ServerSane
    <3>5. ConfirmedMeansHeard'
      BY <1>1, <2>1, <3>2, <3>3 DEF Acknowledged, ConfirmedMeansHeard
    <3>. QED BY <1>2, <2>1, <3>4, <3>5, ServerKeeps
  <2>. QED BY <2>2, <2>3
<1>. QED BY <1>3, <1>4, <1>5, <1>6, <1>7, <1>8, <1>9, <1>10, <1>11 DEF ServerNext

-----------------------------------------------------------------------------
(* The invariant and what it implies.                                      *)

LEMMA Initially == Init => IInv
<1>. SUFFICES ASSUME Init PROVE IInv
  OBVIOUS
<1>1. client \in Clients /\ client = NewClient
  BY DEF Init, NewClient, Clients, ClientStates, ChannelStates, Causes
<1>2. Told(client) /\ Watched(client)
  BY <1>1 DEF NewClient, Told, Watched, Transient
<1>3. server \in Servers /\ server = NoServer
  BY DEF Init, NoServer, Servers, ServerStates, AllCodes, Causes
<1>4. ServerSane(server)
  BY <1>3 DEF NoServer, ServerSane
<1>5. Messages
  BY DEF Init, Messages
<1>6. Recorded /\ Traced /\ Acknowledged
  BY <1>1, <1>3 DEF Init, NewClient, NoServer, Recorded, CommittedAnswer, Traced,
                    Acknowledged, ConfirmedMeansHeard
<1>. QED BY <1>1, <1>2, <1>4, <1>5, <1>6 DEF IInv, ClientSane

\* Loss and forking touch the messages and the history only.
LEMMA NetworkStep ==
    ASSUME IInv, Lose \/ \E code \in Codes : ForkedAnswer(code)
    PROVE  IInv'
<1>1. /\ ServerSane(server) /\ Messages /\ Recorded /\ Traced /\ Acknowledged
      /\ ClientSane(client) /\ server \in Servers
  BY DEF IInv, ServerSane
<1>2. UNCHANGED <<client, server>>
  BY DEF Lose, ForkedAnswer
<1>3. CASE Lose
  <2>1. UNCHANGED answers /\ responses' \subseteq responses /\ (acks' => acks)
    BY <1>3 DEF Lose
  <2>4. invites' \in {invites, FALSE} /\ acks' \in {acks, FALSE}
    BY <1>3, Zenon DEF Lose
  <2>2. Messages'
    BY <1>1, <2>1, <2>4 DEF Messages
  <2>3. Recorded' /\ Traced' /\ Acknowledged'
    BY <1>1, <1>2, <2>1 DEF Recorded, CommittedAnswer, Traced, Answered, Acknowledged,
                            ConfirmedMeansHeard
  <2>. QED BY <1>1, <1>2, <2>2, <2>3 DEF IInv
<1>4. ASSUME NEW code \in Codes, ForkedAnswer(code) PROVE IInv'
  <2>. DEFINE new == <<0, code>>
  <2>1. /\ responses' = responses \cup {code} /\ answers' = answers \cup {new}
        /\ Forking /\ UNCHANGED <<invites, acks>> /\ server.state # "NONE"
    BY <1>4 DEF ForkedAnswer
  <2>2. new \in Nat \X AllCodes /\ new[1] = 0 /\ new[2] = code /\ code \in AllCodes
    BY DEF AllCodes
  <2>3. server.delivered \in Nat /\ server.delivered > 0
    BY <1>1, <2>1 DEF ServerSane, Servers
  <2>. HIDE DEF new
  <2>4. Messages'
    BY <1>1, <2>1, <2>2 DEF Messages
  <2>5. Recorded'
    <3>1. \A a \in answers' : a = new \/ a \in answers
      BY <2>1
    <3>2. CommittedAnswer'
      BY <1>1, <2>2, <3>1 DEF Recorded, CommittedAnswer
    <3>. QED BY <1>1, <1>2, <2>1, <2>2, <2>3, <3>1, <3>2 DEF Recorded
  <2>6. Traced'
    <3>1. answers \subseteq answers' /\ new \in answers'
      BY <2>1
    <3>2. \A k \in responses' : Final(k) => Answered(k)'
      BY <1>1, <2>1, <2>2, <3>1 DEF Traced, Answered
    <3>3. server'.state \in {"PROCEEDING", "COMPLETED"} /\ Final(server'.last)
             => Answered(server.last)'
      BY <1>1, <1>2, <3>1 DEF Traced, Answered
    <3>. QED BY <1>1, <1>2, <3>1, <3>2, <3>3 DEF Traced
  <2>7. Acknowledged'
    BY <1>1, <1>2, <2>1 DEF Acknowledged, ConfirmedMeansHeard
  <2>. QED BY <1>1, <1>2, <2>4, <2>5, <2>6, <2>7 DEF IInv
<1>. QED BY <1>3, <1>4

LEMMA Inductive == IInv /\ [Next]_vars => IInv'
<1>. SUFFICES ASSUME IInv, [Next]_vars PROVE IInv'
  OBVIOUS
<1>1. CASE ClientNext
  <2>1. /\ ClientSane(client) /\ ServerSane(server) /\ Messages /\ Recorded /\ Traced
        /\ Acknowledged
    BY DEF IInv
  <2>2. /\ ClientSane(client') /\ Messages'
        /\ UNCHANGED <<server, answers>> /\ responses' \subseteq responses
        /\ Quiet(client, client') \/ \E code \in responses : Hears(client, client', code)
        /\ acks' => acks \/ client'.failures = 1
    BY <1>1, <2>1, ClientStep
  <2>3. client.failures \in Nat /\ (client.failures = 1 => client'.failures = 1)
    BY <2>1, <2>2 DEF ClientSane, Clients, Quiet, Hears
  <2>4. Recorded'
    BY <2>1, <2>2 DEF Recorded, CommittedAnswer
  <2>5. Traced'
    <3>1. client'.success => \E a \in answers : Success(a[2])
      <4>1. CASE Quiet(client, client')
        BY <2>1, <4>1 DEF Traced, Quiet
      <4>2. ASSUME NEW code \in responses, Hears(client, client', code), client'.success
            PROVE  \E a \in answers : Success(a[2])
        BY <2>1, <4>2 DEF Traced, Hears, Answered, Final
      <4>. QED BY <2>2, <4>1, <4>2
    <3>2. client'.failures > 0 => \E a \in answers : Failure(a[2])
      <4>1. CASE Quiet(client, client')
        BY <2>1, <4>1 DEF Traced, Quiet
      <4>2. ASSUME NEW code \in responses, Hears(client, client', code), client'.failures > 0
            PROVE  \E a \in answers : Failure(a[2])
        BY <2>1, <4>2 DEF Traced, Hears, Answered, Final
      <4>. QED BY <2>2, <4>1, <4>2
    <3>. QED BY <2>1, <2>2, <3>1, <3>2 DEF Traced, Answered
  <2>6. Acknowledged'
    BY <2>1, <2>2, <2>3 DEF Acknowledged, ConfirmedMeansHeard
  <2>. QED BY <2>1, <2>2, <2>4, <2>5, <2>6 DEF IInv
<1>2. CASE ServerNext
  BY <1>2, ServerStep
<1>3. CASE Lose \/ \E code \in Codes : ForkedAnswer(code)
  BY <1>3, NetworkStep
<1>4. CASE UNCHANGED vars
  BY <1>4 DEF vars, IInv, Messages, Recorded, CommittedAnswer, Traced, Answered,
              Acknowledged, ConfirmedMeansHeard
<1>. QED BY <1>1, <1>2, <1>3, <1>4 DEF Next

LEMMA Invariance == Spec => []IInv
BY Initially, Inductive, PTL DEF Spec

\* Both transactions, the messages and the history keep their types.
THEOREM TypeCorrect == Spec => []TypeOK
<1>1. IInv => TypeOK
  BY DEF IInv, ClientSane, ServerSane, Messages, TypeOK
<1>. QED BY <1>1, Invariance, PTL

\* Whatever fails and however often, a side without final answer that lost
\* its channel is watched by its call repair timer, a caller nobody answered
\* by timer B or that timer, and a refused call by timer H; the only side
\* that nothing watches is a server transaction whose call repair timer went
\* off and found no channel for the 503.
THEOREM StrandingSafety == Spec => []NeverStranded
<1>1. IInv => NeverStranded
  <2>. SUFFICES ASSUME IInv PROVE NeverStranded
    OBVIOUS
  <2>1. ClientSane(client) /\ ServerSane(server) /\ server.state \in ServerStates
    BY DEF IInv, ServerSane, Servers
  <2>2. RepairArmed
    BY <2>1 DEF ClientSane, Watched, ServerSane, RepairArmed, Transient, ServerStates
  <2>3. AckAwaited
    BY <2>1 DEF ServerSane, AckAwaited
  <2>. QED BY <2>2, <2>3 DEF NeverStranded
<1>. QED BY <1>1, Invariance, PTL

\* The caller hears one outcome.  That it never hears both a failure and a
\* success rests on both sides: what it hears was answered, and a single
\* incarnation answers once.
THEOREM OutcomeSafety == Spec => []OneOutcome
<1>1. IInv => OneOutcome
  <2>. SUFFICES ASSUME IInv PROVE OneOutcome
    OBVIOUS
  <2>1. Told(client) /\ client \in Clients /\ Messages /\ Recorded /\ Traced
    BY DEF IInv, ClientSane
  <2>2. ASSUME ~Forking, server.delivered <= 1, client.success, client.failures > 0
        PROVE  FALSE
    <3>1. PICK a \in answers : Success(a[2])
      BY <2>1, <2>2 DEF Traced
    <3>2. PICK b \in answers : Failure(b[2])
      BY <2>1, <2>2 DEF Traced
    <3>3. /\ a[1] \in Nat /\ b[1] \in Nat /\ a[1] # 0 /\ b[1] # 0
          /\ a[1] <= server.delivered /\ b[1] <= server.delivered /\ server.delivered \in Nat
      BY <2>1, <2>2, IInv DEF Messages, Recorded, IInv, ServerSane, Servers
    <3>4. a[1] = 1 /\ b[1] = 1
      BY <2>2, <3>3
    <3>5. a = b
      BY <2>1, <3>4 DEF Recorded, CommittedAnswer
    <3>. QED BY <3>1, <3>2, <3>5 DEF Success, Failure
  <2>3. client.failures \in Nat
    BY <2>1 DEF Clients
  <2>. QED BY <2>1, <2>2, <2>3 DEF Told, OneOutcome
<1>. QED BY <1>1, Invariance, PTL

\* Each incarnation of the called side commits to one final answer, and it
\* takes the call for refused and acknowledged only if the caller was told.
THEOREM AnswerSafety == Spec => []AgreedAnswer
<1>1. IInv => AgreedAnswer
  BY DEF IInv, Recorded, Acknowledged, AgreedAnswer
<1>. QED BY <1>1, Invariance, PTL

\* Once a caller heard that its call was accepted, no step tells it of a
\* failure.
THEOREM SuccessIsLasting == Spec => NoFailureAfterSuccess
<1>1. IInv /\ [Next]_vars => [client.success => client'.failures = client.failures]_vars
  <2>. SUFFICES ASSUME IInv, [Next]_vars, client.success
                PROVE  client'.failures = client.failures
    OBVIOUS
  <2>1. CASE ClientNext
    BY <2>1, ClientStep DEF IInv, Quiet, Hears
  <2>2. CASE ServerNext
    BY <2>2 DEF ServerNext, ReceiveInvite, ReceiveAck, SendResponse, ServerRepairTimer,
                Answer, TimerG, TimerH, TimerI, TimerL, ServerChannelLost
  <2>3. CASE Lose \/ \E code \in Codes : ForkedAnswer(code)
    BY <2>3 DEF Lose, ForkedAnswer
  <2>4. CASE UNCHANGED vars
    BY <2>4 DEF vars
  <2>. QED BY <2>1, <2>2, <2>3, <2>4 DEF Next
<1>. QED BY <1>1, Invariance, PTL DEF Spec, NoFailureAfterSuccess
=============================================================================
