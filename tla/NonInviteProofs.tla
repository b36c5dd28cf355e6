-------------------------- MODULE NonInviteProofs --------------------------
(***************************************************************************)
(* Proofs about NonInviteTransaction, for every set of status codes, both  *)
(* kinds of transport, every method and any number of deliveries.          *)
(***************************************************************************)
EXTENDS NonInviteTransaction, TLAPS

(* The inductive invariant of the client is a predicate of its record, so  *)
(* that each function of nict.c and transaction.c has a lemma of its own:  *)
(* it takes a sane transaction to a sane one.                              *)

Reports(c) == c.finals + c.ioerrors + c.timeouts

Waiting(c) == c.state \in {"TRYING", "PROCEEDING"}

\* Before its end a transaction has reported nothing but its final response.
Silent(c) ==
    /\ c.state \in {"INIT", "TRYING", "PROCEEDING"} =>
          c.finals = 0 /\ c.ioerrors = 0 /\ c.timeouts = 0
    /\ c.state = "COMPLETED" => c.finals = 1 /\ c.ioerrors = 0 /\ c.timeouts = 0

\* Where the channel of a live transaction can be, and which timers run
Channelled(c) ==
    /\ c.state = "INIT" =>
          ~c.timed_out /\ (c.bound => c.chan \in {"CONNECTING", "ERROR"})
    /\ Waiting(c) => /\ c.bound
                     /\ c.chan \in {"READY", "ERROR"}
                     /\ "F" \in c.timers \/ c.chan = "ERROR"
                     /\ c.timed_out => "F" \notin c.timers
    /\ c.state = "COMPLETED" => c.bound
    /\ "K" \in c.timers => c.state \in {"COMPLETED", "TERMINATED"}

\* What has been reported so far; a timeout that is still to come (timed_out)
\* comes with the error of the channel, while the transaction is bound.
Reported(c) ==
    /\ c.finals + c.ioerrors <= 1
    /\ c.timeouts <= 1
    /\ c.timeouts = 1 => (c.timed_out => ~c.bound)
    /\ ~Register => ~c.timed_out /\ Reports(c) <= 1
    /\ c.ends = IF c.state = "TERMINATED" THEN 1 ELSE 0
    /\ c.state = "TERMINATED" => c.dropped \/ Reports(c) > 0

\* A NULL channel is used only where a REGISTER meets an application that
\* closes channels in its callbacks.
Guarded(c) == ~Register \/ "close" \notin Reactions => ~c.nullUse

Sane(c) ==
    /\ c \in Clients
    /\ Silent(c) /\ Channelled(c) /\ Reported(c) /\ Guarded(c)

-----------------------------------------------------------------------------
(* What the functions that end a transaction do to each field.             *)

LEMMA CountersGrow ==
    ASSUME NEW c \in Clients
    PROVE  /\ c.ends + 1 \in Nat /\ c.finals + 1 \in Nat
           /\ c.timeouts + 1 \in Nat /\ c.ioerrors + 1 \in Nat
BY DEF Clients

\* belle_sip_transaction_terminate
LEMMA TerminateShape ==
    ASSUME NEW c \in Clients
    PROVE  LET d == Terminate(c)
           IN /\ d \in Clients
              /\ d.state = "TERMINATED"
              /\ d.timers = IF c.state = "TERMINATED" THEN c.timers ELSE {}
              /\ d.ends = IF c.state = "TERMINATED" THEN c.ends ELSE c.ends + 1
              /\ d.bound = c.bound /\ d.chan = c.chan /\ d.timed_out = c.timed_out
              /\ d.finals = c.finals /\ d.final = c.final
              /\ d.timeouts = c.timeouts /\ d.ioerrors = c.ioerrors
              /\ d.dropped = c.dropped /\ d.nullUse = c.nullUse
BY CountersGrow DEF Terminate, Clients, ClientStates

LEMMA ReportShape ==
    ASSUME NEW c \in Clients
    PROVE  LET d == ReportIoError(c)
           IN /\ d \in Clients
              /\ d.ioerrors = IF c.state \in {"COMPLETED", "TERMINATED"}
                              THEN c.ioerrors ELSE c.ioerrors + 1
              /\ d.state = c.state /\ d.timers = c.timers /\ d.ends = c.ends
              /\ d.bound = c.bound /\ d.chan = c.chan /\ d.timed_out = c.timed_out
              /\ d.finals = c.finals /\ d.final = c.final /\ d.timeouts = c.timeouts
              /\ d.dropped = c.dropped /\ d.nullUse = c.nullUse
BY CountersGrow DEF ReportIoError, Clients

\* transaction_handle_channel_error, for a transaction that has a channel
LEMMA ChannelErrorShape ==
    ASSUME NEW c \in Clients, c.bound
    PROVE  LET d == ClientChannelError(c)
           IN /\ d \in Clients
              /\ d.state = "TERMINATED" /\ d.bound = FALSE
              /\ d.ends = IF c.state = "TERMINATED" THEN c.ends ELSE c.ends + 1
              /\ d.ioerrors = IF c.state \in {"COMPLETED", "TERMINATED"}
                              THEN c.ioerrors ELSE c.ioerrors + 1
              /\ d.timeouts = IF c.timed_out THEN c.timeouts + 1 ELSE c.timeouts
              /\ d.chan = c.chan /\ d.timed_out = c.timed_out
              /\ d.finals = c.finals /\ d.final = c.final
              /\ d.dropped = c.dropped /\ d.nullUse = c.nullUse
<1>. DEFINE r == ReportIoError(c)
            told == [r EXCEPT !.timeouts = IF c.timed_out THEN @ + 1 ELSE @]
            e == Terminate(told)
<1>1. /\ told \in Clients
      /\ told.timeouts = IF c.timed_out THEN c.timeouts + 1 ELSE c.timeouts
      /\ told.state = r.state /\ told.ends = r.ends /\ told.ioerrors = r.ioerrors
      /\ told.chan = r.chan /\ told.timed_out = r.timed_out
      /\ told.finals = r.finals /\ told.final = r.final
      /\ told.dropped = r.dropped /\ told.nullUse = r.nullUse
  <2>1. r \in Clients /\ r.timeouts = c.timeouts
    BY ReportShape
  <2>2. r.timeouts + 1 \in Nat
    BY <2>1, CountersGrow
  <2>. HIDE DEF r
  <2>. QED BY <2>1, <2>2 DEF Clients
<1>2. ClientChannelError(c) = [e EXCEPT !.bound = FALSE]
  BY DEF ClientChannelError
<1>3. /\ e \in Clients /\ e.state = "TERMINATED"
      /\ e.ends = IF told.state = "TERMINATED" THEN told.ends ELSE told.ends + 1
      /\ e.chan = told.chan /\ e.timed_out = told.timed_out
      /\ e.finals = told.finals /\ e.final = told.final
      /\ e.timeouts = told.timeouts /\ e.ioerrors = told.ioerrors
      /\ e.dropped = told.dropped /\ e.nullUse = told.nullUse
  <2>. HIDE DEF told
  <2>. QED BY <1>1, TerminateShape
<1>4. /\ r.ioerrors = IF c.state \in {"COMPLETED", "TERMINATED"}
                      THEN c.ioerrors ELSE c.ioerrors + 1
      /\ r.state = c.state /\ r.ends = c.ends /\ r.chan = c.chan
      /\ r.timed_out = c.timed_out /\ r.finals = c.finals /\ r.final = c.final
      /\ r.dropped = c.dropped /\ r.nullUse = c.nullUse
  BY ReportShape
<1>5. /\ [e EXCEPT !.bound = FALSE] \in Clients
      /\ LET d == [e EXCEPT !.bound = FALSE]
         IN /\ d.bound = FALSE /\ d.state = e.state /\ d.ends = e.ends
            /\ d.ioerrors = e.ioerrors /\ d.timeouts = e.timeouts
            /\ d.chan = e.chan /\ d.timed_out = e.timed_out
            /\ d.finals = e.finals /\ d.final = e.final
            /\ d.dropped = e.dropped /\ d.nullUse = e.nullUse
  <2>. HIDE DEF e
  <2>. QED BY <1>3 DEF Clients
<1>. HIDE DEF r, told, e
<1>. QED BY <1>1, <1>2, <1>3, <1>4, <1>5

-----------------------------------------------------------------------------
(* Each function keeps a transaction sane.                                 *)

\* An error of the channel may reach a transaction in any state.
LEMMA ChannelErrorSane ==
    ASSUME NEW c, Sane(c)
    PROVE  Sane(ClientChannelError(c))
<1>1. CASE ~c.bound
  BY <1>1 DEF ClientChannelError
<1>2. CASE c.bound
  <2>. DEFINE d == ClientChannelError(c)
  <2>1. c \in Clients
    BY DEF Sane
  <2>2. /\ d \in Clients
        /\ d.state = "TERMINATED" /\ d.bound = FALSE
        /\ d.ends = IF c.state = "TERMINATED" THEN c.ends ELSE c.ends + 1
        /\ d.ioerrors = IF c.state \in {"COMPLETED", "TERMINATED"}
                        THEN c.ioerrors ELSE c.ioerrors + 1
        /\ d.timeouts = IF c.timed_out THEN c.timeouts + 1 ELSE c.timeouts
        /\ d.timed_out = c.timed_out
        /\ d.finals = c.finals /\ d.dropped = c.dropped /\ d.nullUse = c.nullUse
    BY <1>2, <2>1, ChannelErrorShape
  <2>. HIDE DEF d
  <2>3. /\ c.state \in ClientStates /\ c.ends \in Nat /\ c.finals \in Nat
        /\ c.ioerrors \in Nat /\ c.timeouts \in Nat
    BY <2>1 DEF Clients
  <2>4. Silent(d) /\ Channelled(d)
    BY <2>2 DEF Silent, Channelled, Waiting
  <2>5. Reported(d)
    <3>1. Silent(c) /\ Channelled(c) /\ Reported(c)
      BY DEF Sane
    <3>2. CASE c.state = "TERMINATED"
      BY <1>2, <2>2, <2>3, <3>1, <3>2 DEF Reported, Reports
    <3>3. CASE c.state = "COMPLETED"
      BY <1>2, <2>2, <2>3, <3>1, <3>3 DEF Silent, Reported, Reports
    <3>4. CASE c.state \in {"INIT", "TRYING", "PROCEEDING"}
      BY <1>2, <2>2, <2>3, <3>1, <3>4 DEF Silent, Reported, Reports
    <3>. QED BY <2>3, <3>2, <3>3, <3>4 DEF ClientStates
  <2>6. Guarded(d)
    <3>1. Guarded(c) /\ d.nullUse = c.nullUse
      BY <2>2 DEF Sane
    <3>. QED BY <3>1 DEF Guarded
  <2>7. Sane(d)
    BY <2>2, <2>4, <2>5, <2>6 DEF Sane
  <2>. QED BY <2>7 DEF d
<1>. QED BY <1>1, <1>2

\* The application ends a transaction in any state.
LEMMA DropSane ==
    ASSUME NEW c, Sane(c)
    PROVE  Sane([Terminate(c) EXCEPT !.dropped = TRUE])
<1>. DEFINE e == Terminate(c)
            d == [e EXCEPT !.dropped = TRUE]
<1>1. c \in Clients
  BY DEF Sane
<1>2. /\ e \in Clients /\ e.state = "TERMINATED"
      /\ e.ends = IF c.state = "TERMINATED" THEN c.ends ELSE c.ends + 1
      /\ e.bound = c.bound /\ e.timed_out = c.timed_out
      /\ e.finals = c.finals /\ e.timeouts = c.timeouts /\ e.ioerrors = c.ioerrors
      /\ e.nullUse = c.nullUse
  BY <1>1, TerminateShape
<1>. HIDE DEF e
<1>3. /\ d \in Clients /\ d.dropped /\ d.state = e.state
      /\ d.ends = e.ends /\ d.bound = e.bound /\ d.timed_out = e.timed_out
      /\ d.finals = e.finals /\ d.timeouts = e.timeouts /\ d.ioerrors = e.ioerrors
      /\ d.nullUse = e.nullUse
  BY <1>2 DEF Clients
<1>. HIDE DEF d
<1>4. /\ c.ends \in Nat /\ c.finals \in Nat /\ c.ioerrors \in Nat /\ c.timeouts \in Nat
  BY <1>1 DEF Clients
<1>5. Silent(d) /\ Channelled(d) /\ Guarded(d)
  BY <1>2, <1>3 DEF Silent, Channelled, Waiting, Guarded, Sane
<1>6. Reported(d)
  BY <1>2, <1>3, <1>4 DEF Sane, Reported, Reports
<1>7. Sane(d)
  BY <1>3, <1>5, <1>6 DEF Sane
<1>. QED BY <1>7 DEF d, e

\* The end of a transaction that has something to show for it
LEMMA TerminateSane ==
    ASSUME NEW c, Sane(c), c.state \in {"COMPLETED", "TERMINATED"}
    PROVE  Sane(Terminate(c))
<1>. DEFINE d == Terminate(c)
<1>1. c \in Clients
  BY DEF Sane
<1>2. /\ d \in Clients /\ d.state = "TERMINATED"
      /\ d.ends = IF c.state = "TERMINATED" THEN c.ends ELSE c.ends + 1
      /\ d.bound = c.bound /\ d.timed_out = c.timed_out /\ d.dropped = c.dropped
      /\ d.finals = c.finals /\ d.timeouts = c.timeouts /\ d.ioerrors = c.ioerrors
      /\ d.nullUse = c.nullUse
  BY <1>1, TerminateShape
<1>. HIDE DEF d
<1>3. /\ c.ends \in Nat /\ c.finals \in Nat /\ c.ioerrors \in Nat /\ c.timeouts \in Nat
  BY <1>1 DEF Clients
<1>4. Silent(d) /\ Channelled(d) /\ Guarded(d)
  BY <1>2 DEF Silent, Channelled, Waiting, Guarded, Sane
<1>5. Reported(d)
  BY <1>2, <1>3 DEF Sane, Silent, Reported, Reports
<1>6. Sane(d)
  BY <1>2, <1>4, <1>5 DEF Sane
<1>. QED BY <1>6 DEF d

\* d differs from c in its channel, its timers and its last response only.
SameReports(c, d) ==
    /\ d \in Clients
    /\ d.state = c.state /\ d.bound = c.bound /\ d.timed_out = c.timed_out
    /\ d.finals = c.finals /\ d.timeouts = c.timeouts /\ d.ioerrors = c.ioerrors
    /\ d.ends = c.ends /\ d.dropped = c.dropped /\ d.nullUse = c.nullUse

\* A new state of the channel, or other timers, disturb only a transaction
\* that waits.
LEMMA SameReportsSane ==
    ASSUME NEW c, NEW d, Sane(c), SameReports(c, d), Channelled(d)
    PROVE  Sane(d)
<1>1. Silent(d)
  BY DEF Sane, SameReports, Silent
<1>2. Reported(d) /\ Guarded(d)
  BY DEF Sane, SameReports, Reported, Reports, Guarded
<1>. QED BY <1>1, <1>2 DEF Sane, SameReports

LEMMA SetChan ==
    ASSUME NEW c \in Clients, NEW chan \in ChannelStates
    PROVE  LET d == [c EXCEPT !.chan = chan]
           IN SameReports(c, d) /\ d.chan = chan /\ d.timers = c.timers
BY DEF SameReports, Clients

\* channel_set_state(ERROR) after a soft error
LEMMA SoftErrorSane ==
    ASSUME NEW c, Sane(c), c.state # "INIT", c.bound, NEW alternate \in BOOLEAN
    PROVE  LET d == SoftError(c, alternate)
           IN Sane(d) /\ d.state \in {c.state, "TERMINATED"}
<1>. DEFINE e == ClientChannelError(c)
            f == [e EXCEPT !.chan = "CONNECTING"]
            g == [c EXCEPT !.chan = "ERROR"]
<1>1. c \in Clients
  BY DEF Sane
<1>2. Sane(e) /\ e \in Clients /\ e.state = "TERMINATED"
  BY <1>1, ChannelErrorSane, ChannelErrorShape
<1>3. SameReports(e, f) /\ f.state = "TERMINATED"
  <2>. HIDE DEF e
  <2>. QED BY <1>2, SetChan DEF ChannelStates, SameReports
<1>4. /\ SameReports(c, g) /\ g.timers = c.timers /\ g.timed_out = c.timed_out
      /\ g.state = c.state /\ g.chan = "ERROR" /\ g.bound
  <2>1. SameReports(c, g) /\ g.timers = c.timers /\ g.chan = "ERROR"
    BY <1>1, SetChan DEF ChannelStates
  <2>. QED BY <2>1 DEF SameReports
<1>5. SoftError(c, alternate) \in {c, f, g}
  BY DEF SoftError, ChannelRetry
<1>. HIDE DEF e, f, g
<1>6. Sane(f)
  <2>1. Channelled(f)
    BY <1>3 DEF Channelled, Waiting
  <2>. QED BY <1>2, <1>3, <2>1, SameReportsSane
<1>7. Sane(g)
  <2>1. Channelled(g)
    BY <1>4 DEF Sane, Channelled, Waiting
  <2>. QED BY <1>4, <2>1, SameReportsSane
<1>. QED BY <1>3, <1>4, <1>5, <1>6, <1>7

\* Whatever the application does inside process_response_event
LEMMA ReactSane ==
    ASSUME NEW c, Sane(c), c.state # "INIT", NEW reaction \in Reactions
    PROVE  LET d == React(c, reaction)
           IN /\ Sane(d) /\ d.state \in {c.state, "TERMINATED"}
              /\ d.state # "TERMINATED" => d.timers = c.timers
              /\ reaction # "close" => d.bound = c.bound
<1>1. c \in Clients
  BY DEF Sane
<1>2. reaction \in {"none", "terminate", "close"}
  BY ReactionsAssumption
<1>3. CASE reaction = "none"
  BY <1>3 DEF React
<1>4. CASE reaction = "terminate"
  <2>. DEFINE e == Terminate(c)
              d == [e EXCEPT !.dropped = TRUE]
  <2>1. React(c, reaction) = d
    BY <1>4 DEF React
  <2>2. Sane(d)
    BY DropSane
  <2>3. e \in Clients /\ e.state = "TERMINATED" /\ e.bound = c.bound
    BY <1>1, TerminateShape
  <2>4. d.state = "TERMINATED" /\ d.bound = c.bound
    <3>. HIDE DEF e
    <3>. QED BY <2>3 DEF Clients
  <2>. QED BY <2>1, <2>2, <2>4
<1>5. CASE reaction = "close"
  <2>. DEFINE e == ClientChannelError(c)
              d == [e EXCEPT !.chan = "CLOSED"]
  <2>1. React(c, reaction) = d
    BY <1>5 DEF React
  <2>2. Sane(e) /\ e \in Clients
    BY ChannelErrorSane DEF Sane
  <2>3. e.state \in {c.state, "TERMINATED"} /\ (e.state # "TERMINATED" => ~c.bound /\ e = c)
    <3>1. CASE c.bound
      BY <1>1, <3>1, ChannelErrorShape
    <3>2. CASE ~c.bound
      BY <3>2 DEF ClientChannelError
    <3>. QED BY <3>1, <3>2
  <2>. HIDE DEF e
  <2>4. SameReports(e, d) /\ d.timers = e.timers
    BY <2>2, SetChan DEF ChannelStates
  <2>. HIDE DEF d
  <2>5. d.state = e.state /\ d.bound = e.bound
    BY <2>4 DEF SameReports
  <2>6. Channelled(d)
    BY <2>2, <2>3, <2>4, <2>5 DEF Sane, Channelled, Waiting
  <2>7. Sane(d)
    BY <2>2, <2>4, <2>6, SameReportsSane
  <2>. QED BY <1>5, <2>1, <2>3, <2>4, <2>5, <2>7
<1>. QED BY <1>2, <1>3, <1>4, <1>5

\* The report of a failing registrar, after the application was told
BlameRegistrar(c, code, alternate) ==
    IF Register /\ code \in {500, 503}
    THEN IF c.bound THEN SoftError(c, alternate) ELSE [c EXCEPT !.nullUse = TRUE]
    ELSE c

LEMMA BlameSane ==
    ASSUME NEW c, Sane(c), c.state # "INIT", NEW code \in Codes, NEW alternate \in BOOLEAN,
           c.bound \/ "close" \in Reactions
    PROVE  LET d == BlameRegistrar(c, code, alternate)
           IN Sane(d) /\ d.state \in {c.state, "TERMINATED"}
<1>1. CASE ~(Register /\ code \in {500, 503})
  BY <1>1 DEF BlameRegistrar
<1>2. CASE Register /\ code \in {500, 503} /\ c.bound
  BY <1>2, SoftErrorSane DEF BlameRegistrar
<1>3. CASE Register /\ code \in {500, 503} /\ ~c.bound
  <2>. DEFINE d == [c EXCEPT !.nullUse = TRUE]
  <2>1. /\ d \in Clients /\ d.state = c.state /\ d.timers = c.timers
        /\ d.bound = c.bound /\ d.chan = c.chan /\ d.timed_out = c.timed_out
        /\ d.finals = c.finals /\ d.timeouts = c.timeouts /\ d.ioerrors = c.ioerrors
        /\ d.ends = c.ends /\ d.dropped = c.dropped
    BY DEF Sane, Clients
  <2>2. BlameRegistrar(c, code, alternate) = d
    BY <1>3 DEF BlameRegistrar
  <2>. HIDE DEF d
  <2>3. Silent(d) /\ Channelled(d)
    BY <2>1 DEF Sane, Silent, Channelled, Waiting
  <2>4. Reported(d)
    BY <2>1 DEF Sane, Reported, Reports
  <2>5. Guarded(d)
    BY <1>3 DEF Guarded
  <2>. QED BY <2>1, <2>2, <2>3, <2>4, <2>5 DEF Sane
<1>. QED BY <1>1, <1>2, <1>3

\* nict_set_completed: the state, the upcall, the channel of the registrar,
\* then timer K or the end.
LEMMA CompletedSane ==
    ASSUME NEW c, Sane(c), Waiting(c), NEW code \in Codes, Final(code),
           NEW reaction \in Reactions, NEW alternate \in BOOLEAN
    PROVE  LET d == nict_set_completed(c, code, reaction, alternate)
           IN /\ Sane(d) /\ d.state \in {"COMPLETED", "TERMINATED"}
              /\ d.state = "COMPLETED" => "K" \in d.timers
<1>. DEFINE h == [[c EXCEPT !.state = "COMPLETED"] EXCEPT !.finals = @ + 1, !.final = code]
            r == React(h, reaction)
            b == BlameRegistrar(r, code, alternate)
            k == [b EXCEPT !.timers = @ \cup {"K"}]
<1>1. c \in Clients /\ c.finals = 0 /\ c.finals + 1 \in Nat
  BY CountersGrow DEF Sane, Silent, Waiting
<1>2. /\ h \in Clients /\ h.state = "COMPLETED" /\ h.finals = c.finals + 1
      /\ h.bound = c.bound /\ h.chan = c.chan /\ h.timed_out = c.timed_out
      /\ h.timeouts = c.timeouts /\ h.ioerrors = c.ioerrors
      /\ h.ends = c.ends /\ h.dropped = c.dropped /\ h.nullUse = c.nullUse
  BY <1>1 DEF Clients, ClientStates
<1>3. nict_set_completed(c, code, reaction, alternate) =
         IF Reliable THEN Terminate(b) ELSE k
  BY DEF nict_set_completed, notify_response, BlameRegistrar
<1>. HIDE DEF h
<1>4. Sane(h) /\ h.bound
  <2>1. Silent(c) /\ Channelled(c) /\ Reported(c) /\ Guarded(c)
    BY DEF Sane
  <2>2. Silent(h) /\ Channelled(h) /\ Guarded(h) /\ h.bound
    BY <1>1, <1>2, <2>1 DEF Silent, Channelled, Guarded, Waiting
  <2>3. Reported(h)
    BY <1>1, <1>2, <2>1 DEF Reported, Reports, Silent, Waiting
  <2>. QED BY <1>2, <2>2, <2>3 DEF Sane
<1>5. /\ Sane(r) /\ r.state \in {"COMPLETED", "TERMINATED"}
      /\ r.bound \/ "close" \in Reactions
  BY <1>2, <1>4, ReactSane
<1>. HIDE DEF r
<1>6. Sane(b) /\ b.state \in {"COMPLETED", "TERMINATED"}
  BY <1>5, BlameSane
<1>. HIDE DEF b
<1>7. Sane(Terminate(b)) /\ Terminate(b).state = "TERMINATED"
  BY <1>6, TerminateSane, TerminateShape DEF Sane
<1>8. Sane(k) /\ k.state \in {"COMPLETED", "TERMINATED"} /\ "K" \in k.timers
  <2>1. SameReports(b, k) /\ "K" \in k.timers
    BY <1>6 DEF Sane, Clients, SameReports
  <2>. HIDE DEF k
  <2>2. Channelled(k) /\ k.state = b.state
    BY <1>6, <2>1 DEF Sane, Channelled, Waiting, SameReports
  <2>. QED BY <1>6, <2>1, <2>2, SameReportsSane
<1>. QED BY <1>3, <1>7, <1>8

\* nict_on_response
LEMMA ResponseSane ==
    ASSUME NEW c, Sane(c), NEW code \in Codes,
           NEW reaction \in Reactions, NEW alternate \in BOOLEAN
    PROVE  Sane(nict_on_response(c, code, reaction, alternate))
<1>1. CASE Waiting(c) /\ Final(code)
  <2>1. nict_on_response(c, code, reaction, alternate) =
           nict_set_completed(c, code, reaction, alternate)
    BY <1>1 DEF nict_on_response, Waiting
  <2>. QED BY <1>1, <2>1, CompletedSane
<1>2. CASE c.state = "TRYING" /\ ~Final(code)
  <2>. DEFINE h == [c EXCEPT !.state = "PROCEEDING"]
  <2>1. nict_on_response(c, code, reaction, alternate) =
           notify_response(h, code, reaction, alternate)
    BY <1>2 DEF nict_on_response
  <2>2. ~(code \in {500, 503})
    BY <1>2, CodesAssumption DEF Final
  <2>3. notify_response(h, code, reaction, alternate) = React(h, reaction)
    BY <1>2, <2>2 DEF notify_response
  <2>4. /\ h \in Clients /\ h.state = "PROCEEDING" /\ h.timers = c.timers
        /\ h.bound = c.bound /\ h.chan = c.chan /\ h.timed_out = c.timed_out
        /\ h.finals = c.finals /\ h.timeouts = c.timeouts /\ h.ioerrors = c.ioerrors
        /\ h.ends = c.ends /\ h.dropped = c.dropped /\ h.nullUse = c.nullUse
    BY DEF Sane, Clients, ClientStates
  <2>. HIDE DEF h
  <2>5. Sane(h)
    <3>1. Silent(c) /\ Channelled(c) /\ Reported(c) /\ Guarded(c)
      BY DEF Sane
    <3>2. Silent(h) /\ Channelled(h) /\ Guarded(h)
      BY <1>2, <2>4, <3>1 DEF Silent, Channelled, Guarded, Waiting
    <3>3. Reported(h)
      BY <1>2, <2>4, <3>1 DEF Reported, Reports
    <3>. QED BY <2>4, <3>2, <3>3 DEF Sane
  <2>. QED BY <2>1, <2>3, <2>4, <2>5, ReactSane
<1>3. CASE ~(Waiting(c) /\ Final(code)) /\ ~(c.state = "TRYING" /\ ~Final(code))
  BY <1>3 DEF nict_on_response, Waiting
<1>. QED BY <1>1, <1>2, <1>3

\* nict_on_timer_F and belle_sip_transaction_notify_timeout
LEMMA TimeoutSane ==
    ASSUME NEW c, Sane(c), Waiting(c), "F" \in c.timers,
           NEW suspect \in BOOLEAN, NEW alternate \in BOOLEAN
    PROVE  Sane(notify_timeout([c EXCEPT !.timers = @ \ {"F"}], suspect, alternate))
<1>. DEFINE h == [c EXCEPT !.timers = @ \ {"F"}]
<1>1. /\ h \in Clients /\ h.state = c.state
      /\ h.bound = c.bound /\ h.chan = c.chan /\ h.timed_out = c.timed_out
      /\ h.finals = c.finals /\ h.timeouts = c.timeouts /\ h.ioerrors = c.ioerrors
      /\ h.ends = c.ends /\ h.dropped = c.dropped /\ h.nullUse = c.nullUse
  BY DEF Sane, Clients
<1>2. /\ c.finals = 0 /\ c.ioerrors = 0 /\ c.timeouts = 0 /\ c.ends = 0
      /\ c.bound /\ c.state \in {"TRYING", "PROCEEDING"} /\ Guarded(c)
      /\ ~c.timed_out
  BY DEF Sane, Silent, Channelled, Reported, Waiting
<1>. HIDE DEF h
<1>3. CASE ~(Register /\ suspect /\ h.chan = "READY")
  <2>. DEFINE e == [h EXCEPT !.timeouts = @ + 1]
              d == Terminate(e)
  <2>1. notify_timeout(h, suspect, alternate) = d
    BY <1>3 DEF notify_timeout
  <2>2. h.timeouts + 1 \in Nat /\ h.timeouts + 1 = 1
    BY <1>1, <1>2
  <2>3. /\ e \in Clients /\ e.timeouts = h.timeouts + 1 /\ e.state = h.state
        /\ e.bound = h.bound /\ e.timed_out = h.timed_out
        /\ e.finals = h.finals /\ e.ioerrors = h.ioerrors
        /\ e.ends = h.ends /\ e.nullUse = h.nullUse
    BY <1>1, <2>2 DEF Clients
  <2>. HIDE DEF e
  <2>4. /\ d \in Clients /\ d.state = "TERMINATED"
        /\ d.ends = IF e.state = "TERMINATED" THEN e.ends ELSE e.ends + 1
        /\ d.timeouts = e.timeouts /\ d.finals = e.finals /\ d.ioerrors = e.ioerrors
        /\ d.timed_out = e.timed_out /\ d.nullUse = e.nullUse
    BY <2>3, TerminateShape
  <2>. HIDE DEF d
  <2>5. Silent(d) /\ Channelled(d) /\ Guarded(d)
    BY <1>1, <1>2, <2>3, <2>4 DEF Silent, Channelled, Guarded, Waiting
  <2>6. Reported(d)
    BY <1>1, <1>2, <2>2, <2>3, <2>4 DEF Reported, Reports
  <2>7. Sane(d)
    BY <2>4, <2>5, <2>6 DEF Sane
  <2>. QED BY <2>1, <2>7 DEF h
<1>4. CASE Register /\ suspect /\ h.chan = "READY" /\ alternate
  <2>. DEFINE e == ClientChannelError(h)
              d == [[e EXCEPT !.chan = "CONNECTING"] EXCEPT !.timed_out = TRUE]
  <2>1. notify_timeout(h, suspect, alternate) = d
    BY <1>1, <1>2, <1>4 DEF notify_timeout, SoftError, ChannelRetry
  <2>2. /\ e \in Clients /\ e.state = "TERMINATED" /\ e.bound = FALSE
        /\ e.ends = IF h.state = "TERMINATED" THEN h.ends ELSE h.ends + 1
        /\ e.ioerrors = IF h.state \in {"COMPLETED", "TERMINATED"}
                        THEN h.ioerrors ELSE h.ioerrors + 1
        /\ e.timeouts = IF h.timed_out THEN h.timeouts + 1 ELSE h.timeouts
        /\ e.finals = h.finals /\ e.nullUse = h.nullUse
    BY <1>1, <1>2, ChannelErrorShape
  <2>. HIDE DEF e
  <2>3. /\ d \in Clients /\ d.state = e.state /\ d.bound = e.bound /\ d.ends = e.ends
        /\ d.ioerrors = e.ioerrors /\ d.timeouts = e.timeouts /\ d.finals = e.finals
        /\ d.nullUse = e.nullUse
    BY <2>2 DEF Clients, ChannelStates
  <2>. HIDE DEF d
  <2>4. Silent(d) /\ Channelled(d) /\ Guarded(d)
    BY <1>1, <1>2, <2>2, <2>3 DEF Silent, Channelled, Guarded, Waiting
  <2>5. Reported(d)
    BY <1>1, <1>2, <1>4, <2>2, <2>3 DEF Reported, Reports
  <2>6. Sane(d)
    BY <2>3, <2>4, <2>5 DEF Sane
  <2>. QED BY <2>1, <2>6 DEF h
<1>5. CASE Register /\ suspect /\ h.chan = "READY" /\ ~alternate
  <2>. DEFINE d == [[h EXCEPT !.chan = "ERROR"] EXCEPT !.timed_out = TRUE]
  <2>1. notify_timeout(h, suspect, alternate) = d
    BY <1>5 DEF notify_timeout, SoftError
  <2>2. /\ d \in Clients /\ d.state = h.state /\ d.bound = h.bound /\ d.chan = "ERROR"
        /\ d.timers = h.timers /\ d.ends = h.ends /\ d.nullUse = h.nullUse
        /\ d.ioerrors = h.ioerrors /\ d.timeouts = h.timeouts /\ d.finals = h.finals
    BY <1>1 DEF Clients, ChannelStates
  <2>3. "F" \notin h.timers /\ "K" \notin h.timers
    BY DEF h, Sane, Clients, Channelled, Waiting
  <2>. HIDE DEF d
  <2>4. Silent(d) /\ Channelled(d) /\ Guarded(d)
    BY <1>1, <1>2, <2>2, <2>3 DEF Silent, Channelled, Guarded, Waiting
  <2>5. Reported(d)
    BY <1>1, <1>2, <1>5, <2>2 DEF Reported, Reports
  <2>6. Sane(d)
    BY <2>2, <2>4, <2>5 DEF Sane
  <2>. QED BY <2>1, <2>6 DEF h
<1>. QED BY <1>3, <1>4, <1>5 DEF h

-----------------------------------------------------------------------------
(* Each step of the specification keeps the client sane.                   *)

\* belle_sip_nict_new
LEMMA NewClientSane == Sane(NewClient)
<1>1. NewClient \in Clients
  BY DEF NewClient, Clients, ClientStates, ChannelStates
<1>2. Silent(NewClient) /\ Channelled(NewClient) /\ Guarded(NewClient)
  BY DEF NewClient, Silent, Channelled, Waiting, Guarded
<1>3. Reported(NewClient)
  BY DEF NewClient, Reported, Reports
<1>. QED BY <1>1, <1>2, <1>3 DEF Sane

\* nict_send_request, once the channel is ready
LEMMA SendSane ==
    ASSUME NEW c, Sane(c), c.state = "INIT"
    PROVE  Sane(nict_send_request([c EXCEPT !.bound = TRUE, !.chan = "READY"]))
<1>. DEFINE d == nict_send_request([c EXCEPT !.bound = TRUE, !.chan = "READY"])
<1>1. /\ d \in Clients /\ d.state = "TRYING" /\ d.bound /\ d.chan = "READY"
      /\ "F" \in d.timers /\ d.timed_out = c.timed_out
      /\ d.finals = c.finals /\ d.timeouts = c.timeouts /\ d.ioerrors = c.ioerrors
      /\ d.ends = c.ends /\ d.dropped = c.dropped /\ d.nullUse = c.nullUse
  BY DEF Sane, nict_send_request, Clients, ClientStates, ChannelStates
<1>6. "K" \notin d.timers
  BY DEF Sane, nict_send_request, Clients
<1>. HIDE DEF d
<1>2. Silent(c) /\ Channelled(c) /\ Reported(c) /\ Guarded(c)
  BY DEF Sane
<1>3. Silent(d) /\ Channelled(d) /\ Guarded(d)
  BY <1>1, <1>2, <1>6 DEF Silent, Channelled, Guarded, Waiting
<1>4. Reported(d)
  BY <1>1, <1>2 DEF Silent, Reported, Reports
<1>5. Sane(d)
  BY <1>1, <1>3, <1>4 DEF Sane
<1>. QED BY <1>5 DEF d

LEMMA ClientStep ==
    ASSUME Sane(client), [Next]_vars
    PROVE  Sane(client')
<1>. DEFINE c == client
<1>1. c \in Clients /\ Channelled(c)
  BY DEF Sane
<1>2. CASE SendRequest
  <2>1. CASE client' = nict_send_request([client EXCEPT !.bound = TRUE, !.chan = "READY"])
    BY <1>2, <2>1, SendSane DEF SendRequest
  <2>2. CASE client' = [client EXCEPT !.bound = TRUE, !.chan = "CONNECTING"]
    <3>1. /\ client' \in Clients /\ client'.state = "INIT" /\ client'.bound
          /\ client'.timers = c.timers
          /\ client'.chan = "CONNECTING" /\ client'.timed_out = c.timed_out
          /\ client'.finals = c.finals /\ client'.timeouts = c.timeouts
          /\ client'.ioerrors = c.ioerrors /\ client'.ends = c.ends
          /\ client'.dropped = c.dropped /\ client'.nullUse = c.nullUse
      BY <1>1, <1>2, <2>2 DEF SendRequest, Clients, ChannelStates
    <3>2. c.state = "INIT" /\ Silent(c) /\ Reported(c) /\ Guarded(c)
      BY <1>2 DEF SendRequest, Sane
    <3>3. Silent(client') /\ Channelled(client') /\ Guarded(client')
      BY <1>1, <3>1, <3>2 DEF Silent, Channelled, Guarded, Waiting
    <3>4. Reported(client')
      BY <1>1, <3>1, <3>2, ModeAssumption DEF Reported, Reports, Channelled
    <3>. QED BY <3>1, <3>3, <3>4 DEF Sane
  <2>3. CASE client' = [Terminate(client) EXCEPT !.dropped = TRUE]
    BY <2>3, DropSane
  <2>. QED BY <1>2, <2>1, <2>2, <2>3 DEF SendRequest
<1>3. CASE ChannelReady
  <2>1. CASE c.bound /\ c.state = "INIT"
    <3>1. client' = nict_send_request([c EXCEPT !.chan = "READY"])
      BY <1>3, <2>1 DEF ChannelReady
    <3>2. nict_send_request([c EXCEPT !.chan = "READY"]) =
             nict_send_request([c EXCEPT !.bound = TRUE, !.chan = "READY"])
      BY <1>1, <2>1 DEF Clients, nict_send_request
    <3>. QED BY <2>1, <3>1, <3>2, SendSane
  <2>2. CASE ~(c.bound /\ c.state = "INIT")
    <3>1. client' = [c EXCEPT !.chan = "READY"]
      BY <1>3, <2>2 DEF ChannelReady
    <3>2. SameReports(c, client') /\ client'.timers = c.timers
      BY <1>1, <3>1, SetChan DEF ChannelStates
    <3>3. c.chan = "CONNECTING"
      BY <1>3 DEF ChannelReady
    <3>4. Channelled(client')
      BY <1>1, <2>2, <3>2, <3>3 DEF SameReports, Channelled, Waiting
    <3>. QED BY <3>2, <3>4, SameReportsSane
  <2>. QED BY <2>1, <2>2
<1>4. CASE ChannelFails
  <2>1. client' = [c EXCEPT !.chan = "ERROR"]
    BY <1>4 DEF ChannelFails
  <2>2. SameReports(c, client') /\ client'.chan = "ERROR" /\ client'.timers = c.timers
    BY <1>1, <2>1, SetChan DEF ChannelStates
  <2>3. Channelled(client')
    BY <1>1, <2>2 DEF SameReports, Channelled, Waiting
  <2>. QED BY <2>2, <2>3, SameReportsSane
<1>5. CASE ChannelErrorNotified \/ ChannelDisconnected
  <2>. DEFINE e == ClientChannelError(c)
  <2>1. client' = [e EXCEPT !.chan = "CLOSED"] /\ c.chan # "NONE"
    BY <1>5 DEF ChannelErrorNotified, ChannelDisconnected
  <2>2. Sane(e) /\ e \in Clients
    BY ChannelErrorSane DEF Sane
  <2>3. e.state = "TERMINATED" \/ (~c.bound /\ e = c)
    BY <1>1, ChannelErrorShape DEF ClientChannelError
  <2>. HIDE DEF e
  <2>4. SameReports(e, client') /\ client'.timers = e.timers
    BY <2>1, <2>2, SetChan DEF ChannelStates
  <2>5. Channelled(client')
    BY <1>1, <2>2, <2>3, <2>4 DEF Sane, SameReports, Channelled, Waiting
  <2>. QED BY <2>2, <2>4, <2>5, SameReportsSane
<1>6. CASE \E code \in Codes : ReceiveResponse(code)
  BY <1>6, ResponseSane DEF ReceiveResponse
<1>7. CASE TimerE
  <2>1. CASE Waiting(c)
    <3>1. client' = [c EXCEPT !.nullUse = @ \/ ~c.bound] /\ c.bound
      BY <1>1, <1>7, <2>1 DEF TimerE, Waiting, Channelled
    <3>2. client' = c
      BY <1>1, <3>1 DEF Clients
    <3>. QED BY <3>2
  <2>2. CASE ~Waiting(c)
    <3>1. client' = [c EXCEPT !.timers = @ \ {"E"}]
      BY <1>7, <2>2 DEF TimerE, Waiting
    <3>2. /\ SameReports(c, client') /\ client'.chan = c.chan
          /\ client'.timers = c.timers \ {"E"}
      BY <1>1, <3>1 DEF Clients, SameReports
    <3>3. Channelled(client')
      BY <1>1, <2>2, <3>2 DEF SameReports, Channelled, Waiting
    <3>. QED BY <3>2, <3>3, SameReportsSane
  <2>. QED BY <2>1, <2>2
<1>8. CASE TimerF
  <2>1. CASE Waiting(c)
    BY <1>8, <2>1, TimeoutSane DEF TimerF, Waiting
  <2>2. CASE ~Waiting(c)
    <3>1. client' = [c EXCEPT !.timers = @ \ {"F"}]
      BY <1>8, <2>2 DEF TimerF, Waiting
    <3>2. /\ SameReports(c, client') /\ client'.chan = c.chan
          /\ client'.timers = c.timers \ {"F"}
      BY <1>1, <3>1 DEF Clients, SameReports
    <3>3. Channelled(client')
      BY <1>1, <2>2, <3>2 DEF SameReports, Channelled, Waiting
    <3>. QED BY <3>2, <3>3, SameReportsSane
  <2>. QED BY <2>1, <2>2
<1>9. CASE TimerK
  <2>. DEFINE e == [c EXCEPT !.timers = @ \ {"K"}]
  <2>1. client' = Terminate(e) /\ c.state \in {"COMPLETED", "TERMINATED"}
    BY <1>1, <1>9 DEF TimerK, Channelled
  <2>2. SameReports(c, e)
    BY <1>1 DEF Clients, SameReports
  <2>. HIDE DEF e
  <2>3. Channelled(e) /\ e.state = c.state
    BY <1>1, <2>1, <2>2 DEF SameReports, Channelled, Waiting
  <2>. QED BY <2>1, <2>2, <2>3, SameReportsSane, TerminateSane
<1>10. CASE StopRetransmissions
  <2>1. client' = [c EXCEPT !.timers = @ \ {"E"}]
    BY <1>10 DEF StopRetransmissions
  <2>2. /\ SameReports(c, client') /\ client'.chan = c.chan
        /\ client'.timers = c.timers \ {"E"}
    BY <1>1, <2>1 DEF Clients, SameReports
  <2>3. Channelled(client')
    BY <1>1, <2>2 DEF SameReports, Channelled, Waiting
  <2>. QED BY <2>2, <2>3, SameReportsSane
<1>11. CASE ApplicationTerminates
  BY <1>11, DropSane DEF ApplicationTerminates
<1>12. CASE ClientDestroyed
  <2>1. client' = [c EXCEPT !.bound = FALSE, !.timers = {}] /\ c.state = "TERMINATED"
    BY <1>12 DEF ClientDestroyed
  <2>2. /\ client' \in Clients /\ client'.state = "TERMINATED" /\ client'.bound = FALSE
        /\ client'.timed_out = c.timed_out /\ client'.ends = c.ends
        /\ client'.finals = c.finals /\ client'.timeouts = c.timeouts
        /\ client'.ioerrors = c.ioerrors /\ client'.dropped = c.dropped
        /\ client'.nullUse = c.nullUse
    BY <1>1, <2>1 DEF Clients
  <2>3. Reported(c) /\ Guarded(c)
    BY DEF Sane
  <2>4. Silent(client') /\ Channelled(client') /\ Guarded(client')
    BY <2>2, <2>3 DEF Silent, Channelled, Waiting, Guarded
  <2>5. Reported(client')
    BY <2>1, <2>2, <2>3 DEF Reported, Reports
  <2>. QED BY <2>2, <2>4, <2>5 DEF Sane
<1>13. CASE UNCHANGED client
  BY <1>13
<1>14. CASE ServerNext \/ Lose
  BY <1>14, <1>13 DEF ServerNext, Lose, ReceiveRequest, SendResponse, ServerChannelLost, TimerJ
<1>15. CASE UNCHANGED vars
  BY <1>15, <1>13 DEF vars
<1>. QED BY <1>2, <1>3, <1>4, <1>5, <1>6, <1>7, <1>8, <1>9, <1>10, <1>11, <1>12,
            <1>14, <1>15 DEF Next, ClientNext

LEMMA ClientInvariant == Spec => []Sane(client)
<1>1. Init => Sane(client)
  BY NewClientSane DEF Init
<1>2. Sane(client) /\ [Next]_vars => Sane(client)'
  BY ClientStep
<1>. QED BY <1>1, <1>2, PTL DEF Spec

\* Whatever happens on the network and however the application reacts, it
\* hears one outcome and one end, a request that left is watched by timer F
\* or by the error of its channel, and nothing ends in silence.
THEOREM ClientSafety == Spec => [](WatchdogArmed /\ OneOutcome /\ NoSilentEnd)
<1>1. Sane(client) => WatchdogArmed /\ OneOutcome /\ NoSilentEnd
  <2>. SUFFICES ASSUME Sane(client) PROVE WatchdogArmed /\ OneOutcome /\ NoSilentEnd
    OBVIOUS
  <2>1. client \in Clients /\ Channelled(client) /\ Reported(client)
    BY DEF Sane
  <2>2. client.finals \in Nat /\ client.ioerrors \in Nat /\ client.timeouts \in Nat
    BY <2>1 DEF Clients
  <2>3. WatchdogArmed
    BY <2>1 DEF Channelled, Waiting, WatchdogArmed
  <2>4. OneOutcome
    BY <2>1, <2>2 DEF Reported, Reports, OneOutcome
  <2>5. NoSilentEnd
    BY <2>1, <2>2 DEF Reported, Reports, NoSilentEnd
  <2>. QED BY <2>3, <2>4, <2>5
<1>. QED BY <1>1, ClientInvariant, PTL

\* No NULL channel is used, unless a REGISTER meets an application that
\* closes its channel inside the response callback (transaction.c:657).
THEOREM ChannelSafety ==
    ASSUME ~Register \/ "close" \notin Reactions
    PROVE  Spec => []NoNullChannelUse
<1>1. Sane(client) => NoNullChannelUse
  BY DEF Sane, Guarded, NoNullChannelUse
<1>. QED BY <1>1, ClientInvariant, PTL

-----------------------------------------------------------------------------
(* The server commits to one answer.                                       *)

Answered(code) == \E a \in answers : a[2] = code

\* The answers of earlier incarnations are never touched again; the current
\* one has none before it completes, and repeats only what it answered.
Committed ==
    /\ server \in Servers
    /\ responses \in SUBSET Codes
    /\ answers \in SUBSET (Nat \X Codes)
    /\ \A a \in answers : a[1] <= server.delivered
    /\ server.state \in {"NONE", "TRYING", "PROCEEDING"} =>
          \A a \in answers : a[1] < server.delivered
    /\ \A a, b \in answers : a[1] = b[1] => a = b
    /\ server.state \in {"PROCEEDING", "COMPLETED"} => server.last \in Codes
    /\ server.state \in {"PROCEEDING", "COMPLETED"} /\ Final(server.last) =>
          Answered(server.last)
    /\ \A code \in responses : Final(code) => Answered(code)

LEMMA CommittedStep ==
    ASSUME Committed, [Next]_vars
    PROVE  Committed'
<1>1. CASE ReceiveRequest
  <2>1. CASE server.state \in {"NONE", "TERMINATED"}
    <3>1. /\ server' = [NoServer EXCEPT !.state = "TRYING", !.delivered = server.delivered + 1]
          /\ UNCHANGED <<responses, answers>>
      BY <1>1, <2>1 DEF ReceiveRequest, belle_sip_nist_new
    <3>2. server.delivered + 1 \in Nat /\ server.delivered \in Nat
      BY DEF Committed, Servers
    <3>3. /\ server' \in Servers /\ server'.state = "TRYING"
          /\ server'.delivered = server.delivered + 1
      BY <3>1, <3>2 DEF NoServer, Servers, ServerStates
    <3>4. \A a \in answers : a[1] \in Nat
      BY DEF Committed
    <3>. QED BY <3>1, <3>2, <3>3, <3>4 DEF Committed, Answered
  <2>2. CASE server.state \notin {"NONE", "TERMINATED"}
    <3>1. /\ UNCHANGED <<server, answers>>
          /\ responses' = responses \/ responses' = responses \cup {server.last}
          /\ responses' # responses => server.state \in {"PROCEEDING", "COMPLETED"}
      BY <1>1, <2>2 DEF ReceiveRequest
    <3>. QED BY <3>1 DEF Committed, Answered
  <2>. QED BY <2>1, <2>2
<1>2. CASE \E code \in Codes : SendResponse(code)
  <2>. PICK code \in Codes : SendResponse(code)
    BY <1>2
  <2>1. CASE server.state \in {"TRYING", "PROCEEDING"} /\ Final(code)
    <3>1. /\ server' = [[server EXCEPT !.bound = TRUE] EXCEPT
                           !.state = "COMPLETED", !.timers = {"J"}, !.last = code]
          /\ responses' = responses \cup {code}
          /\ answers' = answers \cup {<<server.delivered, code>>}
      BY <2>1 DEF SendResponse, nist_send_new_response
    <3>2. /\ server' \in Servers /\ server'.state = "COMPLETED"
          /\ server'.delivered = server.delivered /\ server'.last = code
      BY <3>1 DEF Committed, Servers, ServerStates
    <3>3. server.delivered \in Nat
      BY DEF Committed, Servers
    <3>4. \A a \in answers : a[1] \in Nat /\ a[1] < server.delivered
      BY <2>1 DEF Committed
    <3>5. answers' \in SUBSET (Nat \X Codes) /\ responses' \in SUBSET Codes
      BY <3>1, <3>3 DEF Committed
    <3>6. \A a \in answers' : a[1] <= server.delivered
      BY <3>1, <3>3, <3>4
    <3>7. \A a, b \in answers' : a[1] = b[1] => a = b
      BY <3>1, <3>3, <3>4 DEF Committed
    <3>8. Answered(code)' /\ \A k \in responses' : Final(k) => Answered(k)'
      <4>1. <<server.delivered, code>> \in answers' /\ <<server.delivered, code>>[2] = code
        BY <3>1
      <4>2. Answered(code)'
        BY <4>1 DEF Answered
      <4>3. ASSUME NEW k \in responses', Final(k) PROVE Answered(k)'
        <5>1. k = code \/ Answered(k)
          BY <3>1, <4>3 DEF Committed
        <5>. QED BY <3>1, <4>2, <5>1 DEF Answered
      <4>. QED BY <4>2, <4>3
    <3>. QED BY <3>2, <3>5, <3>6, <3>7, <3>8 DEF Committed
  <2>2. CASE server.state \in {"TRYING", "PROCEEDING"} /\ ~Final(code)
    <3>1. /\ server' = [[server EXCEPT !.bound = TRUE] EXCEPT
                           !.state = "PROCEEDING", !.last = code]
          /\ responses' = responses \cup {code} /\ answers' = answers
      BY <2>2 DEF SendResponse, nist_send_new_response
    <3>2. /\ server' \in Servers /\ server'.state = "PROCEEDING"
          /\ server'.delivered = server.delivered /\ server'.last = code
      BY <3>1 DEF Committed, Servers, ServerStates
    <3>. QED BY <2>2, <3>1, <3>2 DEF Committed, Answered
  <2>3. CASE server.state \in {"COMPLETED", "TERMINATED"}
    <3>1. /\ \/ server' = [server EXCEPT !.bound = TRUE]
             \/ server.state = "TERMINATED"
                /\ server' = [[server EXCEPT !.bound = TRUE] EXCEPT !.last = code]
          /\ UNCHANGED <<responses, answers>>
      BY <2>3 DEF SendResponse, nist_send_new_response, Committed, Servers
    <3>2. /\ server' \in Servers /\ server'.state = server.state
          /\ server'.delivered = server.delivered
          /\ server.state = "COMPLETED" => server'.last = server.last
      BY <2>3, <3>1 DEF Committed, Servers
    <3>. QED BY <2>3, <3>1, <3>2 DEF Committed, Answered
  <2>. QED BY <2>1, <2>2, <2>3 DEF SendResponse, Committed, Servers, ServerStates
<1>3. CASE ServerChannelLost \/ TimerJ
  <2>1. server.ends + 1 \in Nat /\ server.ioerrors + 1 \in Nat
    BY DEF Committed, Servers
  <2>2. UNCHANGED <<responses, answers>>
    BY <1>3 DEF ServerChannelLost, TimerJ
  <2>3. /\ server' \in Servers /\ server'.state = "TERMINATED"
        /\ server'.delivered = server.delivered
    BY <1>3, <2>1 DEF ServerChannelLost, TimerJ, ServerChannelError, ReportIoError, Terminate,
                      Committed, Servers, ServerStates
  <2>. QED BY <2>2, <2>3 DEF Committed, Answered
<1>4. CASE ClientNext \/ Lose
  <2>1. UNCHANGED <<server, answers>> /\ responses' \subseteq responses
    BY <1>4 DEF ClientNext, Lose, SendRequest, ChannelReady, ChannelFails, ChannelErrorNotified,
          ChannelDisconnected, ReceiveResponse, TimerE, TimerF, TimerK, StopRetransmissions,
          ApplicationTerminates, ClientDestroyed
  <2>. QED BY <2>1 DEF Committed, Answered
<1>5. CASE UNCHANGED vars
  BY <1>5 DEF vars, Committed, Answered
<1>. QED BY <1>1, <1>2, <1>3, <1>4, <1>5 DEF Next, ServerNext

\* The client hears only what some incarnation answered.
HeardAnswer == Final(client.final) => Answered(client.final)

\* Neither the end of a transaction nor the loss of its channel changes the
\* final response it heard.
LEMMA EndKeepsFinal ==
    ASSUME NEW c \in Clients
    PROVE  /\ Terminate(c) \in Clients /\ Terminate(c).final = c.final
           /\ ClientChannelError(c) \in Clients /\ ClientChannelError(c).final = c.final
<1>1. Terminate(c) \in Clients /\ Terminate(c).final = c.final
  BY TerminateShape
<1>2. CASE c.bound
  BY <1>1, <1>2, ChannelErrorShape
<1>3. CASE ~c.bound
  BY <1>1, <1>3 DEF ClientChannelError
<1>. QED BY <1>2, <1>3

LEMMA ReactKeepsFinal ==
    ASSUME NEW c \in Clients, NEW reaction \in Reactions
    PROVE  React(c, reaction) \in Clients /\ React(c, reaction).final = c.final
<1>. DEFINE t == Terminate(c)
            e == ClientChannelError(c)
<1>1. React(c, reaction) \in {c, [t EXCEPT !.dropped = TRUE], [e EXCEPT !.chan = "CLOSED"]}
  BY ReactionsAssumption DEF React
<1>2. t \in Clients /\ t.final = c.final /\ e \in Clients /\ e.final = c.final
  BY EndKeepsFinal
<1>. HIDE DEF t, e
<1>3. /\ [t EXCEPT !.dropped = TRUE] \in Clients /\ [t EXCEPT !.dropped = TRUE].final = t.final
      /\ [e EXCEPT !.chan = "CLOSED"] \in Clients /\ [e EXCEPT !.chan = "CLOSED"].final = e.final
  BY <1>2 DEF Clients, ChannelStates
<1>. QED BY <1>1, <1>2, <1>3

LEMMA SoftErrorKeepsFinal ==
    ASSUME NEW c \in Clients, NEW alternate \in BOOLEAN
    PROVE  SoftError(c, alternate) \in Clients /\ SoftError(c, alternate).final = c.final
<1>. DEFINE e == ClientChannelError(c)
<1>1. e \in Clients /\ e.final = c.final
  BY EndKeepsFinal
<1>2. SoftError(c, alternate) \in {c, [c EXCEPT !.chan = "CONNECTING"],
                                   [e EXCEPT !.chan = "CONNECTING"], [c EXCEPT !.chan = "ERROR"]}
  BY DEF SoftError, ChannelRetry
<1>. HIDE DEF e
<1>3. /\ [c EXCEPT !.chan = "CONNECTING"] \in Clients
      /\ [c EXCEPT !.chan = "CONNECTING"].final = c.final
      /\ [e EXCEPT !.chan = "CONNECTING"] \in Clients
      /\ [e EXCEPT !.chan = "CONNECTING"].final = e.final
      /\ [c EXCEPT !.chan = "ERROR"] \in Clients /\ [c EXCEPT !.chan = "ERROR"].final = c.final
  BY <1>1 DEF Clients, ChannelStates
<1>. QED BY <1>1, <1>2, <1>3

\* belle_sip_client_transaction_notify_response
LEMMA NotifyKeepsFinal ==
    ASSUME NEW c \in Clients, NEW code \in Codes, NEW reaction \in Reactions,
           NEW alternate \in BOOLEAN
    PROVE  LET d == notify_response(c, code, reaction, alternate)
           IN d \in Clients /\ d.final \in {c.final, code}
<1>. DEFINE h == IF Final(code) THEN [c EXCEPT !.finals = @ + 1, !.final = code] ELSE c
            r == React(h, reaction)
<1>1. h \in Clients /\ h.final \in {c.final, code}
  BY CountersGrow DEF Clients
<1>2. notify_response(c, code, reaction, alternate) =
         IF Register /\ code \in {500, 503}
         THEN IF r.bound THEN SoftError(r, alternate) ELSE [r EXCEPT !.nullUse = TRUE]
         ELSE r
  BY DEF notify_response
<1>. HIDE DEF h
<1>3. r \in Clients /\ r.final = h.final
  BY <1>1, ReactKeepsFinal
<1>. HIDE DEF r
<1>4. SoftError(r, alternate) \in Clients /\ SoftError(r, alternate).final = r.final
  BY <1>3, SoftErrorKeepsFinal
<1>5. [r EXCEPT !.nullUse = TRUE] \in Clients /\ [r EXCEPT !.nullUse = TRUE].final = r.final
  BY <1>3 DEF Clients
<1>. QED BY <1>1, <1>2, <1>3, <1>4, <1>5

\* nict_on_response leaves the final response that was there or the one that
\* just came.
LEMMA ResponseKeepsFinal ==
    ASSUME NEW c \in Clients, NEW code \in Codes, NEW reaction \in Reactions,
           NEW alternate \in BOOLEAN
    PROVE  nict_on_response(c, code, reaction, alternate).final \in {c.final, code}
<1>. DEFINE p == [c EXCEPT !.state = "PROCEEDING"]
            q == [c EXCEPT !.state = "COMPLETED"]
            np == notify_response(p, code, reaction, alternate)
            nq == notify_response(q, code, reaction, alternate)
            k == [nq EXCEPT !.timers = @ \cup {"K"}]
<1>1. p \in Clients /\ p.final = c.final /\ q \in Clients /\ q.final = c.final
  BY DEF Clients, ClientStates
<1>2. nict_on_response(c, code, reaction, alternate) \in {c, np, Terminate(nq), k}
  BY DEF nict_on_response, nict_set_completed
<1>. HIDE DEF p, q
<1>3. np.final \in {c.final, code} /\ nq \in Clients /\ nq.final \in {c.final, code}
  BY <1>1, NotifyKeepsFinal
<1>. HIDE DEF np, nq
<1>4. Terminate(nq).final = nq.final
  BY <1>3, EndKeepsFinal
<1>5. k.final = nq.final
  BY <1>3 DEF Clients
<1>. HIDE DEF k
<1>. QED BY <1>2, <1>3, <1>4, <1>5

\* A provisional response leaves it alone.
LEMMA ProvisionalKeepsFinal ==
    ASSUME NEW c \in Clients, NEW code \in Codes, ~Final(code), NEW reaction \in Reactions,
           NEW alternate \in BOOLEAN
    PROVE  nict_on_response(c, code, reaction, alternate).final = c.final
<1>. DEFINE p == [c EXCEPT !.state = "PROCEEDING"]
            r == React(p, reaction)
<1>1. p \in Clients /\ p.final = c.final
  BY DEF Clients, ClientStates
<1>2. ~(code \in {500, 503})
  BY CodesAssumption DEF Final
<1>3. nict_on_response(c, code, reaction, alternate) \in {c, r}
  BY <1>2 DEF nict_on_response, notify_response
<1>. HIDE DEF p
<1>4. r.final = p.final
  BY <1>1, ReactKeepsFinal
<1>. HIDE DEF r
<1>. QED BY <1>1, <1>3, <1>4

\* Only a response changes the final response.
LEMMA FinalKept ==
    ASSUME Sane(client), [Next]_vars, ~\E code \in Codes : ReceiveResponse(code)
    PROVE  client'.final = client.final
<1>. DEFINE c == client
<1>1. c \in Clients
  BY DEF Sane
<1>5. CASE TimerF
  <2>. DEFINE h == [c EXCEPT !.timers = @ \ {"F"}]
              u == [h EXCEPT !.timeouts = @ + 1]
  <2>1. h \in Clients /\ h.final = c.final
    BY <1>1 DEF Clients
  <2>2. \E alternate \in BOOLEAN :
           client' \in {h, Terminate(u), [SoftError(h, alternate) EXCEPT !.timed_out = TRUE]}
    BY <1>5 DEF TimerF, notify_timeout
  <2>. HIDE DEF h
  <2>3. u \in Clients /\ u.final = h.final
    BY <2>1, CountersGrow DEF Clients
  <2>. HIDE DEF u
  <2>4. Terminate(u).final = h.final
    BY <2>3, EndKeepsFinal
  <2>5. ASSUME NEW alternate \in BOOLEAN
        PROVE  [SoftError(h, alternate) EXCEPT !.timed_out = TRUE].final = h.final
    <3>. DEFINE x == SoftError(h, alternate)
    <3>1. x \in Clients /\ x.final = h.final
      BY <2>1, SoftErrorKeepsFinal
    <3>. HIDE DEF x
    <3>2. [x EXCEPT !.timed_out = TRUE].final = x.final
      BY <3>1 DEF Clients
    <3>. QED BY <3>1, <3>2 DEF x
  <2>6. client'.final = c.final
    BY <2>1, <2>2, <2>4, <2>5
  <2>. QED BY <2>6
<1>6. CASE SendRequest \/ ApplicationTerminates
  <2>1. Terminate(c) \in Clients /\ Terminate(c).final = c.final
    BY <1>1, EndKeepsFinal
  <2>2. [Terminate(c) EXCEPT !.dropped = TRUE].final = c.final
    BY <2>1 DEF Clients
  <2>3. /\ nict_send_request([c EXCEPT !.bound = TRUE, !.chan = "READY"]).final = c.final
        /\ [c EXCEPT !.bound = TRUE, !.chan = "CONNECTING"].final = c.final
    BY <1>1 DEF nict_send_request, Clients
  <2>4. client'.final = c.final
    BY <1>6, <2>2, <2>3 DEF SendRequest, ApplicationTerminates
  <2>. QED BY <2>4
<1>7. CASE ChannelErrorNotified \/ ChannelDisconnected
  <2>. DEFINE e == ClientChannelError(c)
  <2>1. e \in Clients /\ e.final = c.final
    BY <1>1, EndKeepsFinal
  <2>2. client' = [e EXCEPT !.chan = "CLOSED"]
    BY <1>7 DEF ChannelErrorNotified, ChannelDisconnected
  <2>. HIDE DEF e
  <2>3. client'.final = c.final
    BY <2>1, <2>2 DEF Clients
  <2>. QED BY <2>3
<1>8. CASE ChannelReady \/ ChannelFails \/ TimerE \/ StopRetransmissions \/ ClientDestroyed
  <2>1. client'.final = c.final
    BY <1>1, <1>8 DEF ChannelReady, ChannelFails, TimerE, StopRetransmissions, ClientDestroyed,
                      nict_send_request, Clients
  <2>. QED BY <2>1
<1>9. CASE TimerK
  <2>. DEFINE h == [c EXCEPT !.timers = @ \ {"K"}]
  <2>1. client' = Terminate(h) /\ h \in Clients /\ h.final = c.final
    BY <1>1, <1>9 DEF TimerK, Clients
  <2>. HIDE DEF h
  <2>2. client'.final = c.final
    BY <2>1, EndKeepsFinal
  <2>. QED BY <2>2
<1>10. CASE ServerNext \/ Lose \/ UNCHANGED vars
  <2>1. client' = client
    BY <1>10 DEF ServerNext, Lose, ReceiveRequest, SendResponse, ServerChannelLost, TimerJ, vars
  <2>. QED BY <2>1
<1>. QED BY <1>5, <1>6, <1>7, <1>8, <1>9, <1>10 DEF Next, ClientNext

LEMMA HeardStep ==
    ASSUME Sane(client), Committed, HeardAnswer, [Next]_vars
    PROVE  HeardAnswer'
<1>1. client \in Clients
  BY DEF Sane
<1>2. \A code : Answered(code) => Answered(code)'
  <2>1. answers \subseteq answers'
    BY DEF Next, ClientNext, ServerNext, Lose, SendRequest, ChannelReady, ChannelFails,
           ChannelErrorNotified, ChannelDisconnected, ReceiveResponse, TimerE, TimerF, TimerK,
           StopRetransmissions, ApplicationTerminates, ClientDestroyed, ReceiveRequest,
           SendResponse, ServerChannelLost, TimerJ, vars
  <2>. QED BY <2>1 DEF Answered
<1>3. CASE \E code \in Codes : ReceiveResponse(code)
  <2>. PICK code \in Codes : ReceiveResponse(code)
    BY <1>3
  <2>1. client'.final \in {client.final, code}
    BY <1>1, ResponseKeepsFinal DEF ReceiveResponse
  <2>2. code \in responses /\ answers' = answers
    BY DEF ReceiveResponse
  <2>3. Final(code) => Answered(code)
    BY <2>2 DEF Committed
  <2>. QED BY <1>2, <2>1, <2>2, <2>3 DEF HeardAnswer, Answered
<1>4. CASE ~\E code \in Codes : ReceiveResponse(code)
  BY <1>2, <1>4, FinalKept DEF HeardAnswer, Answered
<1>. QED BY <1>3, <1>4

\* Client and server together: type correctness of the whole specification.
THEOREM TypeCorrect == Spec => []TypeOK
<1>. DEFINE Inv == Sane(client) /\ Committed /\ requests \in BOOLEAN
<1>1. Init => Inv
  <2>. SUFFICES ASSUME Init PROVE Inv
    OBVIOUS
  <2>1. Sane(client)
    BY NewClientSane DEF Init
  <2>2. server \in Servers /\ server.state = "NONE"
    BY DEF Init, NoServer, Servers, ServerStates
  <2>. QED BY <2>1, <2>2 DEF Init, Committed
<1>2. Inv /\ [Next]_vars => Inv'
  <2>. SUFFICES ASSUME Inv, [Next]_vars PROVE Inv'
    OBVIOUS
  <2>1. Sane(client)' /\ Committed'
    BY ClientStep, CommittedStep
  <2>2. requests' \in BOOLEAN
    BY DEF Next, ClientNext, ServerNext, Lose, SendRequest, ChannelReady, ChannelFails,
           ChannelErrorNotified, ChannelDisconnected, ReceiveResponse, TimerE, TimerF, TimerK,
           StopRetransmissions, ApplicationTerminates, ClientDestroyed, ReceiveRequest,
           SendResponse, ServerChannelLost, TimerJ, vars
  <2>. QED BY <2>1, <2>2
<1>3. Inv => TypeOK
  BY DEF Sane, Committed, TypeOK
<1>. QED BY <1>1, <1>2, <1>3, PTL DEF Spec

\* Each incarnation of the server transaction answers once, retransmissions
\* never carry another answer, and the client hears only what was answered.
THEOREM AnswerSafety == Spec => []ConsistentAnswer
<1>. DEFINE Inv == Sane(client) /\ Committed /\ HeardAnswer
<1>1. Init => Inv
  <2>. SUFFICES ASSUME Init PROVE Inv
    OBVIOUS
  <2>1. Sane(client)
    BY NewClientSane DEF Init
  <2>2. server \in Servers /\ server.state = "NONE"
    BY DEF Init, NoServer, Servers, ServerStates
  <2>3. HeardAnswer
    BY DEF Init, NewClient, HeardAnswer, Final
  <2>. QED BY <2>1, <2>2, <2>3 DEF Init, Committed
<1>2. Inv /\ [Next]_vars => Inv'
  BY ClientStep, CommittedStep, HeardStep
<1>3. Inv => ConsistentAnswer
  BY DEF Committed, HeardAnswer, Answered, ConsistentAnswer
<1>. QED BY <1>1, <1>2, <1>3, PTL DEF Spec

\* Once a request is answered, or given up, no further copy of it leaves.
THEOREM RetransmissionSafety == Spec => NoLateRetransmission
<1>1. [Next]_vars => [client.state \in {"COMPLETED", "TERMINATED"} => (requests' => requests)]_vars
  BY DEF Next, ClientNext, ServerNext, Lose, SendRequest, ChannelReady, ChannelFails,
         ChannelErrorNotified, ChannelDisconnected, ReceiveResponse, TimerE, TimerF, TimerK,
         StopRetransmissions, ApplicationTerminates, ClientDestroyed, ReceiveRequest,
         SendResponse, ServerChannelLost, TimerJ, vars
<1>. QED BY <1>1, PTL DEF Spec, NoLateRetransmission
=============================================================================
