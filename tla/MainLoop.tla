------------------------------ MODULE MainLoop ------------------------------
(***************************************************************************)
(* The main loop of belle-sip (belle_sip_loop.c): file descriptors and     *)
(* timers that are polled and notified in iterations of four steps, while  *)
(* the callbacks add, remove, cancel and restart sources, and another      *)
(* thread hands over tasks with belle_sip_main_loop_do_later, the one      *)
(* function the header declares thread-safe.  Each action is a stretch of  *)
(* code under sources_mutex, or one that only the loop's thread executes.  *)
(***************************************************************************)
EXTENDS Integers, Sequences, FiniteSets

CONSTANTS
    Timers,         \* sources of the application without file descriptor
    Fds,            \* sources of the application with one
    Tasks,          \* one-shot sources of belle_sip_main_loop_do_later
    Timeouts,       \* the values of belle_sip_source_set_timeout_int64
    MaxTime,        \* bound: the last value of the clock
    MaxCalls        \* bound: calls by which callbacks change the sources

ASSUME SourcesAssumption ==
    /\ IsFiniteSet(Timers) /\ IsFiniteSet(Fds) /\ IsFiniteSet(Tasks)
    /\ Timers \cap Fds = {} /\ Timers \cap Tasks = {} /\ Fds \cap Tasks = {}
ASSUME TimeAssumption == Timeouts \subseteq Nat \ {0} /\ Timeouts # {}
ASSUME BoundAssumption == MaxTime \in Nat /\ MaxCalls \in Nat

Disabled == -1                  \* a negative timeout: no timer
App == Timers \cup Fds
Sources == App \cup Tasks

VARIABLES
    m,          \* the sources, as the functions of belle_sip_loop.c see them
    now,        \* belle_sip_time_ms
    cur,        \* the time at which the loop looked for expired timers
    pc,         \* where the iteration is
    run,        \* ml->run
    room,       \* nsources when the poll table was allocated
    polled,     \* the sources in the poll table
    wakeup,     \* when poll returns at the latest, Disabled for never
    ready,      \* the sources whose descriptor poll reports
    readable,   \* the sources whose descriptor has something to read
    pipe,       \* control_fds holds a byte
    woken,      \* poll reports that byte
    to_be_notified,
    calls,      \* how often callbacks changed the sources
    submitted,  \* history: the tasks, in the order they were handed over
    ran         \* history: the tasks, in the order they ran

vars == <<m, now, cur, pc, run, room, polled, wakeup, ready, readable, pipe,
          woken, to_be_notified, calls, submitted, ran>>

env == <<now, readable, pipe, run>>

\* Where the loop's thread is
Steps == {"allocate", "prepare", "poll", "clear", "collect", "notify", "out"}

SourceStates == [linked : BOOLEAN,      \* in fd_sources
                 cancelled : BOOLEAN,
                 expired : BOOLEAN,
                 revents : SUBSET {"READ", "TIMEOUT"},
                 timeout : Int,
                 expire_ms : Int,
                 refs : Nat,
                 due : Int]             \* history: the deadline last asked for

\* The application has added its sources and the loop starts.
Shortest == CHOOSE v \in Timeouts : \A u \in Timeouts : v <= u

Init ==
    /\ \E order \in [1..Cardinality(Timers) -> Timers] :
          /\ \A i, j \in DOMAIN order : order[i] = order[j] => i = j
          /\ m = [src |-> [s \in Sources |->
                     [linked |-> s \in Fds, cancelled |-> FALSE, expired |-> FALSE,
                      revents |-> {},
                      timeout |-> CASE s \in Tasks -> 0
                                    [] s \in Fds -> Disabled
                                    [] s \in Timers -> Shortest,
                      expire_ms |-> IF s \in Timers THEN Shortest ELSE 0,
                      refs |-> IF s \in App THEN 2 ELSE 1,
                      due |-> IF s \in Timers THEN Shortest ELSE Disabled]],
                  timers |-> [k \in DOMAIN order |-> [key |-> Shortest, source |-> order[k]]],
                  nsources |-> Cardinality(App)]
    /\ now = 0 /\ cur = 0 /\ pc = "allocate" /\ run = TRUE
    /\ room = 0 /\ polled = {} /\ wakeup = Disabled /\ ready = {} /\ woken = FALSE
    /\ readable = {} /\ pipe = FALSE
    /\ to_be_notified = <<>> /\ calls = 0 /\ submitted = <<>> /\ ran = <<>>

-----------------------------------------------------------------------------
(* The functions of belle_sip_loop.c on the sources w.  timer_sources is a *)
(* multimap: sorted by key, and by insertion among equal keys.             *)

InMap(w, s) == \E k \in DOMAIN w.timers : w.timers[k].source = s

Registered(w, s) == w.src[s].linked \/ InMap(w, s)

\* bctbx_map_erase of the place where the source is
Erase(timers, s) ==
    LET k == CHOOSE k \in DOMAIN timers : timers[k].source = s
    IN SubSeq(timers, 1, k - 1) \o SubSeq(timers, k + 1, Len(timers))

\* bctbx_map_insert_and_delete_with_returned_it
Insert(timers, key, s) ==
    LET n == Cardinality({k \in DOMAIN timers : timers[k].key <= key})
    IN SubSeq(timers, 1, n) \o <<[key |-> key, source |-> s]>>
          \o SubSeq(timers, n + 1, Len(timers))

\* Fault: only a source with a timeout is counted.
add_source_Uncounted(w, s) ==
    LET x == w.src[s]
        timed == x.timeout >= 0
        expire == now + x.timeout
    IN [w EXCEPT
          !.src[s] = [x EXCEPT
              !.cancelled = FALSE,
              !.linked = s \in Fds,
              !.expire_ms = IF timed THEN expire ELSE x.expire_ms,
              !.due = IF timed THEN expire ELSE Disabled,
              !.refs = x.refs + (IF timed THEN 1 ELSE 0) + (IF s \in Fds THEN 1 ELSE 0)],
          !.timers = IF timed THEN Insert(@, expire, s) ELSE @,
          !.nsources = IF timed THEN @ + 1 ELSE @]

\* belle_sip_main_loop_add_source
add_source(w, s) ==
    LET x == w.src[s]
        timed == x.timeout >= 0
        expire == now + x.timeout
    IN [w EXCEPT
          !.src[s] = [x EXCEPT
              !.cancelled = FALSE,
              !.linked = s \in Fds,
              !.expire_ms = IF timed THEN expire ELSE x.expire_ms,
              !.due = IF timed THEN expire ELSE Disabled,
              !.refs = x.refs + (IF timed THEN 1 ELSE 0) + (IF s \in Fds THEN 1 ELSE 0)],
          !.timers = IF timed THEN Insert(@, expire, s) ELSE @,
          !.nsources = @ + 1]

\* Fault: every list that the source leaves counts as a source.
remove_source_Twice(w, s) ==
    LET x == w.src[s]
        unrefs == (IF x.linked THEN 1 ELSE 0) + (IF InMap(w, s) THEN 1 ELSE 0)
    IN IF unrefs = 0 THEN w
       ELSE [w EXCEPT !.src[s] = [x EXCEPT !.linked = FALSE, !.cancelled = TRUE,
                                           !.refs = x.refs - unrefs],
                      !.timers = IF InMap(w, s) THEN Erase(@, s) ELSE @,
                      !.nsources = @ - unrefs]

\* Fault: a source that was removed is not marked.
remove_source_Unmarked(w, s) ==
    LET x == w.src[s]
        unrefs == (IF x.linked THEN 1 ELSE 0) + (IF InMap(w, s) THEN 1 ELSE 0)
    IN IF unrefs = 0 THEN w
       ELSE [w EXCEPT !.src[s] = [x EXCEPT !.linked = FALSE, !.refs = x.refs - unrefs],
                      !.timers = IF InMap(w, s) THEN Erase(@, s) ELSE @,
                      !.nsources = @ - 1]

\* belle_sip_main_loop_remove_source
remove_source(w, s) ==
    LET x == w.src[s]
        unrefs == (IF x.linked THEN 1 ELSE 0) + (IF InMap(w, s) THEN 1 ELSE 0)
    IN IF unrefs = 0 THEN w
       ELSE [w EXCEPT !.src[s] = [x EXCEPT !.linked = FALSE, !.cancelled = TRUE,
                                           !.refs = x.refs - unrefs],
                      !.timers = IF InMap(w, s) THEN Erase(@, s) ELSE @,
                      !.nsources = @ - 1]

\* belle_sip_source_set_timeout_int64
set_timeout(w, s, value) ==
    LET x == w.src[s]
        moved == ~x.expired /\ InMap(w, s)
    IN [w EXCEPT
          !.src[s] = [x EXCEPT
              !.timeout = value,
              !.expire_ms = IF x.expired THEN x.expire_ms ELSE now + value,
              !.due = IF value = Disabled THEN Disabled ELSE now + value,
              !.refs = IF moved /\ value = Disabled THEN x.refs - 1 ELSE x.refs],
          !.timers = CASE ~moved -> @
                       [] moved /\ value = Disabled -> Erase(@, s)
                       [] OTHER -> Insert(Erase(@, s), now + value, s)]

\* belle_sip_source_cancel
cancel(w, s) ==
    [w EXCEPT !.src[s].cancelled = TRUE,
              !.timers = IF InMap(w, s) THEN Insert(Erase(@, s), 0, s) ELSE @]

\* The application adds a source that is not in the loop and that has
\* something to wait for.
MayAdd(w, s) == ~Registered(w, s) /\ (s \in Fds \/ w.src[s].timeout >= 0)

\* What the callback of a source does to the sources of the application
Changes(w) ==
    {remove_source(w, s) : s \in App} \cup {cancel(w, s) : s \in App}
        \cup {add_source(w, s) : s \in {x \in App : MayAdd(w, x)}}
        \cup {set_timeout(w, s, value) : s \in App, value \in Timeouts \cup {Disabled}}

CallbackLeads(w) ==
    \/ w = m /\ UNCHANGED calls
    \/ w # m /\ calls < MaxCalls /\ calls' = calls + 1

-----------------------------------------------------------------------------
(* belle_sip_main_loop_iterate and belle_sip_main_loop_run                 *)

At(here) == pc = here

\* The allocation of the poll table reads nsources without the mutex.
Allocate ==
    /\ At("allocate")
    /\ room' = m.nsources
    /\ pc' = "prepare"
    /\ UNCHANGED <<m, cur, polled, wakeup, ready, woken, to_be_notified, calls, submitted, ran, env>>

\* Step 1: the poll table and the time to wait
Prepare ==
    /\ At("prepare")
    /\ polled' = {s \in Fds : m.src[s].linked /\ ~m.src[s].cancelled}
    /\ wakeup' = IF m.timers = <<>> THEN Disabled ELSE Head(m.timers).key
    /\ pc' = "poll"
    /\ UNCHANGED <<m, cur, room, ready, woken, to_be_notified, calls, submitted, ran, env>>

\* What poll was given is not needed any more.
PollOver == room' = 0 /\ polled' = {} /\ wakeup' = Disabled

\* belle_sip_poll returns: a descriptor, the control pipe, or the time
Poll ==
    /\ At("poll") /\ PollOver
    /\ \/ polled \cap readable # {}
       \/ pipe
       \/ wakeup # Disabled /\ wakeup <= now
    /\ ready' = polled \cap readable
    /\ woken' = pipe
    /\ pc' = "clear"
    /\ UNCHANGED <<m, cur, to_be_notified, calls, submitted, ran, env>>

\* After each iteration belle_sip_main_loop_run looks at ml->run.
Again == pc' = IF run THEN "allocate" ELSE "out"

\* belle_sip_poll fails with EINTR.
PollInterrupted ==
    /\ At("poll") /\ PollOver
    /\ Again
    /\ UNCHANGED <<m, cur, ready, woken, to_be_notified, calls, submitted, ran, env>>

ClearPipe ==
    /\ At("clear")
    /\ pipe' = (pipe /\ ~woken)
    /\ woken' = FALSE
    /\ pc' = "collect"
    /\ UNCHANGED <<m, now, cur, run, room, polled, wakeup, ready, readable,
                   to_be_notified, calls, submitted, ran>>

\* Steps 2 and 3: descriptors with an event and cancelled ones first, in any
\* order here, then the timers that expired and were not reported already.
Collect ==
    /\ At("collect")
    /\ LET first == {s \in Fds : m.src[s].linked /\ (m.src[s].cancelled \/ s \in ready)}
           Revents(s) == IF s \in first /\ ~m.src[s].cancelled THEN {"READ"} ELSE {}
           late == {k \in DOMAIN m.timers : m.timers[k].key <= now}
           Late(s) == \E k \in late : m.timers[k].source = s
           fresh == {k \in late : Revents(m.timers[k].source) = {}}
       IN /\ \E order \in [1..Cardinality(first) -> first],
                rest \in [1..Cardinality(fresh) -> fresh] :
                /\ \A i, j \in DOMAIN order : order[i] = order[j] => i = j
                /\ \A i, j \in DOMAIN rest : i < j => rest[i] < rest[j]
                /\ to_be_notified' =
                      order \o [k \in DOMAIN rest |-> m.timers[rest[k]].source]
          /\ m' = [m EXCEPT !.src = [s \in Sources |-> [m.src[s] EXCEPT
                      !.revents = Revents(s) \cup (IF Late(s) THEN {"TIMEOUT"} ELSE {}),
                      !.expired = m.src[s].expired \/ (Late(s) /\ Revents(s) = {}),
                      !.refs = m.src[s].refs + (IF s \in first THEN 1 ELSE 0)
                                 + (IF Late(s) /\ Revents(s) = {} THEN 1 ELSE 0)]]]
    /\ cur' = now
    /\ ready' = {}
    /\ pc' = "notify"
    /\ UNCHANGED <<room, polled, wakeup, woken, calls, submitted, ran, env>>

\* Step 4, after a callback that wants its source to go on
Restarted(w, s, ret) ==
    LET x == w.src[s]
        over == x.expired /\ InMap(w, s)
        timers == IF over THEN Erase(w.timers, s) ELSE w.timers
        again == (over \/ ~InMap(w, s)) /\ x.timeout >= 0
        expire == (IF ret = "CONTINUE" THEN x.expire_ms ELSE cur) + x.timeout
    IN [w EXCEPT
          !.src[s] = [x EXCEPT
              !.expire_ms = IF again THEN expire ELSE x.expire_ms,
              !.due = IF again THEN expire ELSE x.due,
              !.expired = IF again THEN FALSE ELSE x.expired,
              !.refs = x.refs - (IF over THEN 1 ELSE 0) + (IF again THEN 1 ELSE 0)],
          !.timers = IF again THEN Insert(timers, expire, s) ELSE timers]

\* The end of Step 4 for a source: its events are over, the list lets it go.
Released(w, s) ==
    LET x == w.src[s]
    IN [w EXCEPT !.src[s] = [x EXCEPT !.revents = {}, !.refs = x.refs - 1]]

NotifyNext ==
    /\ At("notify") /\ to_be_notified # <<>>
    /\ to_be_notified' = Tail(to_be_notified)
    /\ UNCHANGED <<cur, pc, room, polled, wakeup, ready, woken, submitted, now, pipe>>

\* A cancelled source is removed, not notified.
Skip ==
    /\ NotifyNext
    /\ LET s == Head(to_be_notified)
       IN /\ m.src[s].cancelled
          /\ m' = Released(remove_source(m, s), s)
    /\ UNCHANGED <<run, readable, calls, ran>>

\* s->notify for a source of the application.  It reads its descriptor.  If
\* it has removed its own source it returns BELLE_SIP_STOP.
Notify ==
    /\ NotifyNext
    /\ LET s == Head(to_be_notified)
       IN /\ s \in App /\ ~m.src[s].cancelled
          /\ \E w \in Changes(m) \cup {m}, ret \in {"STOP", "CONTINUE", "WITHOUT_CATCHUP"} :
                /\ CallbackLeads(w)
                /\ ~Registered(w, s) => ret = "STOP"
                /\ m' = Released(IF ret = "STOP" THEN remove_source(w, s)
                                 ELSE Restarted(w, s, ret), s)
          /\ readable' = readable \ {s}
    /\ UNCHANGED <<run, ran>>

\* _do_later_cb: the task runs, its source loses its owner and is removed.
RunTask ==
    /\ NotifyNext
    /\ LET s == Head(to_be_notified)
       IN /\ s \in Tasks /\ ~m.src[s].cancelled
          /\ \E w \in Changes(m) \cup {m} :
                /\ CallbackLeads(w)
                /\ m' = Released(remove_source([w EXCEPT !.src[s].refs = @ - 1], s), s)
          /\ ran' = Append(ran, s)
    /\ UNCHANGED <<run, readable>>

IterationEnds ==
    /\ At("notify") /\ to_be_notified = <<>>
    /\ Again
    /\ cur' = 0
    /\ UNCHANGED <<m, room, polled, wakeup, ready, woken, to_be_notified, calls,
                   submitted, ran, env>>

-----------------------------------------------------------------------------
(* The other thread, the clock and the network.                            *)

\* Fault: the loop is not woken up.
do_later_Quiet(s) ==
    /\ s \in Tasks /\ \A k \in DOMAIN submitted : submitted[k] # s
    /\ m' = add_source(m, s)
    /\ submitted' = Append(submitted, s)
    /\ UNCHANGED <<now, cur, pc, run, room, polled, wakeup, ready, readable, pipe,
                   woken, to_be_notified, calls, ran>>

\* belle_sip_main_loop_do_later, from another thread or from a callback
do_later(s) ==
    /\ s \in Tasks /\ \A k \in DOMAIN submitted : submitted[k] # s
    /\ m' = add_source(m, s)
    /\ submitted' = Append(submitted, s)
    /\ pipe' = TRUE \/ (At("notify") /\ pipe' = pipe)
    /\ UNCHANGED <<now, cur, pc, run, room, polled, wakeup, ready, readable,
                   woken, to_be_notified, calls, ran>>

\* belle_sip_main_loop_quit followed by belle_sip_main_loop_wake_up, from
\* another thread while the loop waits
Quit ==
    /\ At("poll") /\ run
    /\ run' = FALSE
    /\ pipe' = TRUE
    /\ UNCHANGED <<m, now, cur, pc, room, polled, wakeup, ready, readable, woken,
                   to_be_notified, calls, submitted, ran>>

\* Time passes in poll and in the callbacks; the rest is short.
Tick ==
    /\ At("poll") \/ At("notify")
    /\ now < MaxTime
    /\ now' = now + 1
    /\ UNCHANGED <<m, cur, pc, run, room, polled, wakeup, ready, readable, pipe, woken,
                   to_be_notified, calls, submitted, ran>>

\* What arrives while the loop is busy is seen by the next poll.
DataArrives(s) ==
    /\ At("poll")
    /\ s \in Fds \ readable
    /\ readable' = readable \cup {s}
    /\ UNCHANGED <<m, now, cur, pc, run, room, polled, wakeup, ready, pipe, woken,
                   to_be_notified, calls, submitted, ran>>

LoopStep ==
    \/ Allocate \/ Prepare \/ Poll \/ ClearPipe \/ Collect
    \/ Skip \/ Notify \/ RunTask \/ IterationEnds

Next ==
    \/ LoopStep \/ PollInterrupted \/ Quit \/ Tick
    \/ \E s \in Tasks : do_later(s)
    \/ \E s \in Fds : DataArrives(s)

Spec == Init /\ [][Next]_vars

\* The loop's thread is scheduled, and signals do not interrupt every poll.
FairSpec == Spec /\ WF_vars(LoopStep) /\ SF_vars(Poll)

-----------------------------------------------------------------------------
(* Properties.                                                             *)

Count(sequence, s) == Cardinality({k \in DOMAIN sequence : sequence[k] = s})

\* Every variable has its type.
TypeOK ==
    /\ m.src \in [Sources -> SourceStates]
    /\ m.timers \in Seq([key : Nat, source : Sources])
    /\ m.nsources \in Nat /\ room \in Nat
    /\ now \in 0..MaxTime /\ cur \in 0..MaxTime
    /\ pc \in Steps /\ run \in BOOLEAN /\ pipe \in BOOLEAN /\ woken \in BOOLEAN
    /\ polled \subseteq Fds /\ ready \subseteq Fds /\ readable \subseteq Fds
    /\ wakeup \in Nat \cup {Disabled}
    /\ to_be_notified \in Seq(Sources)
    /\ submitted \in Seq(Tasks) /\ ran \in Seq(Tasks)

\* A source has one reference for its owner and one for each place that
\* still uses it: none is leaked, none is freed while a list holds it.
RefsBalanced ==
    \A s \in Sources :
        m.src[s].refs = (IF Count(ran, s) = 0 THEN 1 ELSE 0)
                          + (IF m.src[s].linked THEN 1 ELSE 0)
                          + (IF InMap(m, s) THEN 1 ELSE 0)
                          + Count(to_be_notified, s)

\* The poll table, allocated for nsources entries and one for the control
\* pipe, has room for every descriptor that Step 1 puts there, though other
\* threads add sources between the allocation and Step 1.
PollTableFits == At("poll") => Cardinality(polled) <= room

\* A callback is only called for a source that is in the loop: not for one
\* that an earlier callback of the same iteration removed.
NotifiedIsRegistered ==
    At("notify") /\ to_be_notified # <<>> =>
        LET s == Head(to_be_notified)
        IN m.src[s].cancelled \/ Registered(m, s)

\* No callback finds its source freed, leaked or removed.
SourcesSound == RefsBalanced /\ NotifiedIsRegistered

\* While the loop waits in poll and no byte is in the control pipe, it wakes
\* up in time for every timer and task, those of other threads included, at
\* the deadline that was asked for last.
NoLostWakeup ==
    At("poll") /\ ~pipe =>
        \A k \in DOMAIN m.timers :
            LET s == m.src[m.timers[k].source]
            IN /\ wakeup # Disabled /\ wakeup <= m.timers[k].key
               /\ s.cancelled \/ s.expired \/ m.timers[k].key = s.due

\* Tasks run once and in the order in which they were handed over.
TasksInOrder == Len(ran) <= Len(submitted) /\ ran = SubSeq(submitted, 1, Len(ran))

\* The tasks handed over while the loop runs are run, even if the loop was about
\* to wait without a timeout.
TaskRuns == ran # submitted ~> (ran = submitted \/ ~run)

\* Every task runs, once and in its turn.
TasksServed == []TasksInOrder /\ TaskRuns
=============================================================================
