---------------------------- MODULE ChannelProofs ----------------------------
(***************************************************************************)
(* Theorems about Channel: a channel that waits is never stuck and its     *)
(* messages leave in order, whatever the TTL does, and without a TTL it    *)
(* implements ChannelView and loses no message in silence.                 *)
(***************************************************************************)
EXTENDS Channel, TLAPS, FiniteSetTheorems, SequenceTheorems

\* The channel record has its type, and its peer is in the list.
Typed(c) == c \in Channels /\ c.peer <= c.peers

\* Something is there to move the channel c.
Moving(c) ==
    /\ c.state = "RES_IN_PROGRESS" => c.resolver
    /\ c.state = "RETRY" => c.nexts > 0
    /\ c.state = "CONNECTING" => c.sock = "pending"
    /\ c.state = "ERROR" /\ ~c.released => c.errors > 0

\* What queue q, current message b and channel c must satisfy together
QueueMoves(c, q, b) ==
    c.state = "READY" /\ q # <<>> => b /\ c.sock \in {"up", "pending"}

StuckInv == Typed(chan) /\ Moving(chan) /\ QueueMoves(chan, out, busy)

\* Without a TTL, the only resolution is the first one, nothing else is going on
\* beside it, and only a failed or a closed channel is released.
Quiet(c) ==
    /\ c.ttl = "off"
    /\ c.resolver => /\ c.peer = 0 /\ c.errors = 0 /\ c.nexts = 0
                     /\ c.state \in {"RES_IN_PROGRESS", "DISCONNECTED"}
    /\ c.state = "INIT" => ~c.resolver /\ c.peer = 0 /\ c.errors = 0 /\ c.nexts = 0
    /\ c.state \in {"INIT", "RES_IN_PROGRESS"} => c.sock = "none"
    /\ c.released => c.state \in {"ERROR", "DISCONNECTED"}
    /\ c.state = "DISCONNECTED" => c.released

ViewInv == StuckInv /\ Quiet(chan)

-----------------------------------------------------------------------------
(* What the operators on the record do.                                    *)

\* The channels c and r agree on what errors and connection attempts leave alone.
Alike(c, r) ==
    r.ttl = c.ttl /\ r.resolver = c.resolver /\ r.released = c.released

\* r is what an error makes of the channel c: a task is scheduled whenever the
\* state changes, and a channel that worked is retried only after a soft error.
Handled(c, soft, r) ==
    \/ c.state = "ERROR" /\ r = c
    \/ /\ c.state # "ERROR" /\ r.state = "RETRY" /\ r.nexts > 0
       /\ HasNext(c) /\ (c.state = "READY" => soft)
    \/ c.state # "ERROR" /\ r.state = "ERROR" /\ r.errors > 0

\* r is what belle_sip_channel_connect leaves: a pending socket, or an error that
\* is handled already.
Attempted(r) ==
    \/ r.state = "CONNECTING" /\ r.sock = "pending"
    \/ r.state = "RETRY" /\ r.nexts > 0
    \/ r.state = "ERROR" /\ r.errors > 0

\* handle_error as its callers need it
LEMMA HandleErrorFields ==
    ASSUME NEW c, Typed(c), NEW soft \in BOOLEAN
    PROVE  /\ Typed(handle_error(c, soft))
           /\ Alike(c, handle_error(c, soft))
           /\ Handled(c, soft, handle_error(c, soft))
<1>1. c \in Channels /\ c.peer <= c.peers
  BY DEF Typed
<1>2. CASE c.state = "ERROR"
  BY <1>1, <1>2 DEF handle_error, Typed, Alike, Handled
<1>3. CASE c.state # "ERROR" /\ (c.state # "READY" \/ soft) /\ HasNext(c)
  <2>. DEFINE r == [c EXCEPT !.sock = "none", !.peer = @ + 1, !.state = "RETRY",
                            !.nexts = @ + 1]
  <2>1. handle_error(c, soft) = r
    BY <1>1, <1>3 DEF handle_error, CloseSocket, Channels
  <2>2. r.peer \in 0..MaxPeers /\ r.peer <= r.peers
    BY <1>1, <1>3, PeersAssumption DEF HasNext, Channels
  <2>3. r.nexts \in Nat /\ r.nexts > 0
    BY <1>1 DEF Channels
  <2>4. r \in Channels
    BY <1>1, <2>2, <2>3 DEF Channels, States
  <2>5. /\ r.ttl = c.ttl /\ r.resolver = c.resolver /\ r.released = c.released
        /\ r.state = "RETRY"
    BY <1>1 DEF Channels
  <2>6. Typed(r)
    BY <2>2, <2>4 DEF Typed
  <2>7. HasNext(c) /\ c.state # "ERROR" /\ (c.state = "READY" => soft)
    BY <1>3
  <2>. HIDE DEF r
  <2>8. Handled(c, soft, r)
    BY <2>3, <2>5, <2>7, Zenon DEF Handled
  <2>9. Alike(c, r)
    BY <2>5 DEF Alike
  <2>. QED BY <2>1, <2>6, <2>8, <2>9
<1>4. CASE c.state # "ERROR" /\ ~((c.state # "READY" \/ soft) /\ HasNext(c))
  <2>. DEFINE r == [c EXCEPT !.state = "ERROR", !.errors = @ + 1]
  <2>1. handle_error(c, soft) = r
    BY <1>4 DEF handle_error
  <2>2. r.errors \in Nat /\ r.errors > 0
    BY <1>1 DEF Channels
  <2>3. r \in Channels
    BY <1>1, <2>2 DEF Channels, States
  <2>4. /\ r.ttl = c.ttl /\ r.resolver = c.resolver /\ r.released = c.released
        /\ r.state = "ERROR" /\ r.peer <= r.peers
    BY <1>1 DEF Channels
  <2>. HIDE DEF r
  <2>. QED BY <1>4, <2>1, <2>2, <2>3, <2>4 DEF Typed, Alike, Handled
<1>. QED BY <1>2, <1>3, <1>4

\* connect as its callers need it
LEMMA ConnectFields ==
    ASSUME NEW c, Typed(c), NEW started \in BOOLEAN
    PROVE  /\ Typed(connect(c, started))
           /\ Alike(c, connect(c, started))
           /\ Attempted(connect(c, started))
<1>. DEFINE d == [c EXCEPT !.state = "CONNECTING", !.pong = FALSE]
<1>1. Typed(d) /\ d.state = "CONNECTING" /\ Alike(c, d)
  BY DEF Typed, Channels, States, Alike
<1>2. CASE started
  <2>. DEFINE e == [d EXCEPT !.sock = "pending", !.conn = @ + 1]
  <2>1. connect(c, started) = e
    BY <1>2 DEF connect
  <2>. HIDE DEF d
  <2>2. d \in Channels /\ d.peer <= d.peers
    BY <1>1 DEF Typed
  <2>. e.conn \in Nat
    BY <2>2 DEF Channels
  <2>3. e \in Channels
    BY <2>2 DEF Channels
  <2>4. /\ e.peer <= e.peers /\ e.sock = "pending" /\ e.state = d.state
        /\ e.ttl = d.ttl /\ e.resolver = d.resolver /\ e.released = d.released
    BY <2>2 DEF Channels
  <2>. HIDE DEF e
  <2>5. Typed(e)
    BY <2>3, <2>4 DEF Typed
  <2>. QED BY <1>1, <2>1, <2>4, <2>5 DEF Alike, Attempted
<1>3. CASE ~started
  <2>1. connect(c, started) = handle_error(d, FALSE)
    BY <1>3 DEF connect
  <2>. HIDE DEF d
  <2>2. /\ Typed(handle_error(d, FALSE)) /\ Alike(d, handle_error(d, FALSE))
        /\ Handled(d, FALSE, handle_error(d, FALSE))
    BY <1>1, HandleErrorFields
  <2>. QED BY <2>1, <2>2, <1>1 DEF Alike, Handled, Attempted
<1>. QED BY <1>2, <1>3

\* channel_process_queue keeps the channel or takes a READY one to ERROR, and a
\* queue that is left in READY waits for the socket.
LEMMA ProcessQueueFields ==
    ASSUME NEW c, Typed(c), c.state = "READY", NEW q, process_queue(c, q)
    PROVE  /\ Typed(chan') /\ Alike(c, chan')
           /\ chan' = c \/ (chan'.state = "ERROR" /\ chan'.errors > 0)
           /\ QueueMoves(chan', out', busy')
<1>1. PICK n \in Sendable(c, q) :
        \/ n = Len(q) /\ chan' = c /\ out' = <<>> /\ busy' = FALSE
        \/ n < Len(q) /\ SendBlocks(c, q, n)
        \/ n < Len(q) /\ SendFails(c, q, n)
  BY DEF process_queue
<1>2. CASE n = Len(q) /\ chan' = c /\ out' = <<>> /\ busy' = FALSE
  BY <1>2 DEF QueueMoves, Alike
<1>3. CASE SendBlocks(c, q, n)
  BY <1>3 DEF SendBlocks, QueueMoves, Alike
<1>4. CASE SendFails(c, q, n)
  <2>. DEFINE d == [c EXCEPT !.sock = IF @ = "up" THEN "broken" ELSE @]
  <2>1. Typed(d) /\ d.state = "READY" /\ Alike(c, d)
    BY DEF Typed, Channels, Alike
  <2>2. chan' = handle_error(d, FALSE)
    BY <1>4 DEF SendFails
  <2>. HIDE DEF d
  <2>3. Typed(chan') /\ Alike(d, chan') /\ Handled(d, FALSE, chan')
    BY <2>1, <2>2, HandleErrorFields
  <2>. QED BY <2>1, <2>3 DEF QueueMoves, Alike, Handled
<1>. QED BY <1>1, <1>2, <1>3, <1>4
-----------------------------------------------------------------------------
(* A channel that waits is never stuck.                                    *)

\* A channel after handle_error, or after connect, is moving if it was.
LEMMA HandledMoves ==
    ASSUME NEW c, Moving(c), NEW soft, NEW r, Handled(c, soft, r)
    PROVE  Moving(r) /\ r.state \in {"RETRY", "ERROR"}
BY DEF Handled, Moving

LEMMA AttemptedMoves ==
    ASSUME NEW r, Attempted(r)
    PROVE  Moving(r) /\ r.state \in {"CONNECTING", "RETRY", "ERROR"}
BY DEF Attempted, Moving

\* set_error_and_close on a READY channel
LEMMA ErrorClosed ==
    ASSUME NEW c, Typed(c), c.state = "READY"
    PROVE  /\ Typed(SetErrorAndClose(c)) /\ Alike(c, SetErrorAndClose(c))
           /\ SetErrorAndClose(c).state = "ERROR" /\ SetErrorAndClose(c).errors > 0
           /\ Moving(SetErrorAndClose(c))
           /\ \A q, b : QueueMoves(SetErrorAndClose(c), q, b)
<1>. DEFINE r == handle_error(c, FALSE)
<1>1. Typed(r) /\ Alike(c, r) /\ r.state = "ERROR" /\ r.errors > 0
  BY HandleErrorFields DEF Handled
<1>2. SetErrorAndClose(c) = [r EXCEPT !.sock = "none"]
  BY DEF SetErrorAndClose, CloseSocket
<1>. HIDE DEF r
<1>. DEFINE e == [r EXCEPT !.sock = "none"]
<1>3. /\ e \in Channels /\ e.peer <= e.peers /\ e.state = "ERROR" /\ e.errors > 0
      /\ e.ttl = r.ttl /\ e.resolver = r.resolver /\ e.released = r.released
  BY <1>1 DEF Typed, Channels
<1>. HIDE DEF e
<1>. QED BY <1>1, <1>2, <1>3 DEF e, Typed, Alike, Moving, QueueMoves

\* A closed channel is released.
LEMMA DisconnectFields ==
    ASSUME NEW c, Typed(c)
    PROVE  /\ Typed(disconnect(c)) /\ disconnect(c).state = "DISCONNECTED"
           /\ disconnect(c).ttl = c.ttl /\ disconnect(c).resolver = c.resolver
           /\ disconnect(c).errors = c.errors /\ disconnect(c).nexts = c.nexts
           /\ disconnect(c).peer = c.peer
           /\ c.state # "DISCONNECTED" => disconnect(c).released
           /\ c.state = "DISCONNECTED" => disconnect(c) = c
<1>1. CASE c.state = "DISCONNECTED"
  BY <1>1 DEF disconnect
<1>2. CASE c.state # "DISCONNECTED"
  <2>1. disconnect(c) = [c EXCEPT !.sock = "none", !.state = "DISCONNECTED", !.released = TRUE]
    BY <1>2 DEF disconnect, CloseSocket, Typed, Channels
  <2>. QED BY <1>2, <2>1 DEF Typed, Channels, States
<1>. QED BY <1>1, <1>2

\* channel_res_done leaves a channel that is moving, whatever state the answer
\* finds it in.
LEMMA ResDoneMoves ==
    ASSUME Typed(chan), Moving(chan), QueueMoves(chan, out, busy), channel_res_done
    PROVE  Typed(chan') /\ Moving(chan') /\ QueueMoves(chan', out', busy')
<1>. DEFINE Armed(c, more) == IF more THEN [c EXCEPT !.ttl = "armed"] ELSE c
            Answered(l) == [chan EXCEPT !.resolver = FALSE, !.peers = l]
<1>0. chan \in Channels
  BY DEF Typed
<1>1. PICK l \in 0..MaxPeers, more \in {FALSE, MaxExpiries > 0}, started \in BOOLEAN :
        \/ /\ l = 0
           /\ chan' = handle_error([Answered(l) EXCEPT !.peer = 0], FALSE)
        \/ /\ l > 0
           /\ chan' = Armed(connect([Answered(l) EXCEPT !.peer = 1], started), more)
        \/ /\ l > 0
           /\ \E place \in 1..l :
                 process_queue(Armed([Answered(l) EXCEPT !.peer = place, !.state = "READY"], more), out)
        \/ /\ l > 0
           /\ chan' = Armed([CloseSocket(Answered(l)) EXCEPT
                                !.peer = 1, !.state = "RETRY", !.nexts = @ + 1], more)
  BY DEF channel_res_done
<1>2. ASSUME NEW c, Typed(c)
      PROVE  /\ Typed(Armed(c, more)) /\ Armed(c, more).state = c.state
             /\ Armed(c, more).sock = c.sock /\ Armed(c, more).errors = c.errors
             /\ Armed(c, more).nexts = c.nexts /\ Armed(c, more).resolver = c.resolver
             /\ Armed(c, more).released = c.released
  BY <1>2 DEF Typed, Channels
<1>3. ASSUME NEW p \in 0..l
      PROVE  /\ Typed([Answered(l) EXCEPT !.peer = p])
             /\ Typed([Answered(l) EXCEPT !.peer = p, !.state = "READY"])
             /\ [Answered(l) EXCEPT !.peer = p].state = chan.state
             /\ [Answered(l) EXCEPT !.peer = p, !.state = "READY"].state = "READY"
  <2>1. p \in 0..MaxPeers /\ p <= l /\ l \in 0..MaxPeers
    BY <1>3, PeersAssumption
  <2>. DEFINE d == [chan EXCEPT !.resolver = FALSE, !.peers = l, !.peer = p]
              e == [d EXCEPT !.state = "READY"]
  <2>2. [Answered(l) EXCEPT !.peer = p] = d
    OBVIOUS
  <2>3. [Answered(l) EXCEPT !.peer = p, !.state = "READY"] = e
    OBVIOUS
  <2>4. d \in Channels
    BY <1>0, <2>1 DEF Channels
  <2>5. d.peer <= d.peers /\ d.state = chan.state
    BY <1>0, <2>1 DEF Channels
  <2>. HIDE DEF d
  <2>6. e \in Channels /\ e.peer <= e.peers /\ e.state = "READY"
    BY <2>4, <2>5 DEF Channels, States
  <2>. HIDE DEF e, Answered
  <2>. QED BY <2>2, <2>3, <2>4, <2>5, <2>6 DEF Typed
<1>4. CASE chan' = handle_error([Answered(l) EXCEPT !.peer = 0], FALSE)
  <2>. DEFINE c == [Answered(l) EXCEPT !.peer = 0]
  <2>1. Typed(c) /\ c.state = chan.state
    <3>. HIDE DEF Answered
    <3>1. 0 \in 0..l
      OBVIOUS
    <3>. QED BY <1>3, <3>1
  <2>2. c.released = chan.released /\ c.errors = chan.errors
    BY <1>0 DEF Channels
  <2>. HIDE DEF c
  <2>3. chan' = handle_error(c, FALSE)
    BY <1>4 DEF c
  <2>. QED BY <2>1, <2>2, <2>3, HandleErrorFields DEF Handled, Moving, QueueMoves
<1>5. CASE l > 0 /\ chan' = Armed(connect([Answered(l) EXCEPT !.peer = 1], started), more)
  <2>. DEFINE c == [Answered(l) EXCEPT !.peer = 1]
  <2>1. Typed(c)
    <3>. HIDE DEF Answered
    <3>1. 1 \in 0..l
      BY <1>5
    <3>. QED BY <1>3, <3>1
  <2>. HIDE DEF c
  <2>2. chan' = Armed(connect(c, started), more)
    BY <1>5 DEF c
  <2>. DEFINE r == connect(c, started)
  <2>3. Typed(r) /\ Attempted(r)
    BY <2>1, ConnectFields
  <2>4. chan' = Armed(r, more)
    BY <2>2
  <2>. HIDE DEF r, Armed
  <2>. QED BY <1>2, <2>3, <2>4 DEF Attempted, Moving, QueueMoves
<1>6. CASE \E place \in 1..l :
              process_queue(Armed([Answered(l) EXCEPT !.peer = place, !.state = "READY"], more), out)
  <2>1. PICK place \in 1..l :
              process_queue(Armed([Answered(l) EXCEPT !.peer = place, !.state = "READY"], more), out)
    BY <1>6
  <2>. DEFINE c == Armed([Answered(l) EXCEPT !.peer = place, !.state = "READY"], more)
  <2>2. Typed(c) /\ c.state = "READY"
    <3>1. place \in 0..l
      OBVIOUS
    <3>. HIDE DEF Armed, Answered
    <3>. QED BY <1>2, <1>3, <3>1
  <2>. HIDE DEF c
  <2>3. process_queue(c, out)
    BY <2>1 DEF c
  <2>. QED BY <2>2, <2>3, ProcessQueueFields DEF Moving
<1>7. CASE /\ l > 0
           /\ chan' = Armed([CloseSocket(Answered(l)) EXCEPT
                                !.peer = 1, !.state = "RETRY", !.nexts = @ + 1], more)
  <2>. DEFINE c == [chan EXCEPT !.resolver = FALSE, !.peers = l, !.sock = "none",
                                !.peer = 1, !.state = "RETRY", !.nexts = @ + 1]
  <2>1. [CloseSocket(Answered(l)) EXCEPT !.peer = 1, !.state = "RETRY", !.nexts = @ + 1] = c
    BY <1>0 DEF CloseSocket, Channels
  <2>2. c.nexts \in Nat /\ c.nexts > 0 /\ c.state = "RETRY" /\ c.peer <= c.peers
    BY <1>0, <1>7 DEF Channels
  <2>3. c \in Channels
    <3>1. 1 \in 0..MaxPeers
      BY PeersAssumption
    <3>. QED BY <1>0, <2>2, <3>1 DEF Channels, States
  <2>. HIDE DEF c, Armed
  <2>. QED BY <1>2, <1>7, <2>1, <2>2, <2>3 DEF Typed, Moving, QueueMoves
<1>. QED BY <1>1, <1>4, <1>5, <1>6, <1>7

\* The initial state satisfies the invariant.
LEMMA StuckInit == Init => StuckInv
BY PeersAssumption DEF Init, NewChannel, StuckInv, Typed, Moving, QueueMoves, Channels, States

\* Every step keeps the channel typed and moving.
LEMMA StuckStep == StuckInv /\ [Next]_vars => StuckInv'
<1>. SUFFICES ASSUME StuckInv, [Next]_vars
              PROVE  StuckInv'
  OBVIOUS
<1>. USE DEF StuckInv
<1>0. /\ Typed(chan) /\ Moving(chan) /\ QueueMoves(chan, out, busy)
      /\ chan \in Channels /\ chan.peer <= chan.peers
  BY DEF Typed
<1>1. CASE queue_message
  <2>1. CASE chan.state = "READY"
    <3>1. PICK q : process_queue(chan, q)
      BY <1>1, <2>1 DEF queue_message
    <3>. QED BY <1>0, <2>1, <3>1, ProcessQueueFields DEF Moving
  <2>2. CASE chan.state # "READY"
    <3>1. chan' = IF chan.state = "INIT" THEN resolve(chan) ELSE chan
      BY <1>1, <2>2 DEF queue_message
    <3>2. CASE chan.state = "INIT"
      BY <1>0, <3>1, <3>2 DEF resolve, Typed, Moving, QueueMoves, Channels, States
    <3>3. CASE chan.state # "INIT"
      BY <1>0, <2>2, <3>1, <3>3 DEF QueueMoves
    <3>. QED BY <3>2, <3>3
  <2>. QED BY <2>1, <2>2
<1>2. CASE get_channel
  <2>1. chan' = [chan EXCEPT !.ttl = "off", !.state = "RES_IN_PROGRESS", !.resolver = TRUE]
    BY <1>0, <1>2 DEF get_channel, resolve, Channels
  <2>. QED BY <1>0, <2>1 DEF Typed, Moving, QueueMoves, Channels, States
<1>3. CASE send_keep_alive
  <2>1. UNCHANGED <<out, busy>> /\ chan.state = "READY" /\ ~busy
    BY <1>3 DEF send_keep_alive, KeepQueue
  <2>2. CASE chan.sock \in {"up", "pending"} /\ chan' = [chan EXCEPT !.pong = TRUE]
    BY <1>0, <2>1, <2>2 DEF Typed, Moving, QueueMoves, Channels
  <2>3. CASE chan' = SetErrorAndClose(chan)
    BY <1>0, <2>1, <2>3, ErrorClosed
  <2>. QED BY <1>3, <2>2, <2>3 DEF send_keep_alive
<1>4. CASE SoftError
  <2>1. chan' = handle_error(chan, TRUE)
    BY <1>4 DEF SoftError
  <2>. QED BY <1>0, <2>1, HandleErrorFields, HandledMoves DEF QueueMoves
<1>5. CASE Disconnect
  <2>1. chan' = disconnect(chan)
    BY <1>5 DEF Disconnect
  <2>. QED BY <1>0, <2>1, DisconnectFields DEF QueueMoves, Moving
<1>6. CASE channel_res_done
  BY <1>0, <1>6, ResDoneMoves
<1>7. CASE channel_dns_ttl_timeout
  <2>1. chan' = [chan EXCEPT !.ttl = "expired"] /\ UNCHANGED <<out, busy>>
    BY <1>7 DEF channel_dns_ttl_timeout, KeepQueue
  <2>. QED BY <1>0, <2>1 DEF Typed, Moving, QueueMoves, Channels
<1>8. CASE pong_timeout
  <2>1. UNCHANGED <<out, busy>>
    BY <1>8 DEF pong_timeout, KeepQueue
  <2>2. CASE chan.state = "READY"
    <3>1. chan' = [SetErrorAndClose(chan) EXCEPT !.pong = FALSE]
      BY <1>8, <2>2 DEF pong_timeout
    <3>2. /\ SetErrorAndClose(chan) \in Channels
          /\ SetErrorAndClose(chan).peer <= SetErrorAndClose(chan).peers
          /\ SetErrorAndClose(chan).state = "ERROR" /\ SetErrorAndClose(chan).errors > 0
      BY <1>0, <2>2, ErrorClosed DEF Typed
    <3>. QED BY <3>1, <3>2 DEF Typed, Moving, QueueMoves, Channels
  <2>3. CASE chan.state # "READY"
    <3>1. chan' = [chan EXCEPT !.pong = FALSE]
      BY <1>8, <2>3 DEF pong_timeout
    <3>. QED BY <1>0, <2>1, <3>1 DEF Typed, Moving, QueueMoves, Channels
  <2>. QED BY <2>2, <2>3
<1>9. CASE SocketWritable
  BY <1>0, <1>9, ProcessQueueFields DEF SocketWritable, Moving
<1>10. CASE ConnectCompletes
  <2>. DEFINE c == [chan EXCEPT !.state = "READY", !.sock = "up"]
  <2>1. process_queue(c, out)
    BY <1>10 DEF ConnectCompletes
  <2>2. Typed(c) /\ c.state = "READY"
    BY <1>0 DEF Typed, Channels, States
  <2>. HIDE DEF c
  <2>. QED BY <2>1, <2>2, ProcessQueueFields DEF Moving
<1>11. CASE ConnectFails \/ ReceiveFails
  <2>. DEFINE c == [chan EXCEPT !.sock = "broken"]
  <2>1. chan' = handle_error(c, FALSE)
    BY <1>11 DEF ConnectFails, ReceiveFails
  <2>2. Typed(c) /\ c.state \in {"CONNECTING", "READY", "RES_IN_PROGRESS"}
    BY <1>0, <1>11 DEF ConnectFails, ReceiveFails, Typed, Channels
  <2>. HIDE DEF c
  <2>. QED BY <2>1, <2>2, HandleErrorFields DEF Handled, Moving, QueueMoves
<1>12. CASE ConnectsUnnoticed
  <2>1. /\ chan' = [chan EXCEPT !.sock = "up"] /\ UNCHANGED <<out, busy>>
        /\ chan.sock = "pending" /\ chan.state # "CONNECTING"
    BY <1>12 DEF ConnectsUnnoticed, KeepQueue
  <2>. QED BY <1>0, <2>1 DEF Typed, Moving, QueueMoves, Channels
<1>13. CASE PeerCloses
  <2>1. chan' = disconnect(chan)
    BY <1>13 DEF PeerCloses
  <2>. QED BY <1>0, <2>1, DisconnectFields DEF QueueMoves, Moving
<1>14. CASE Receive
  <2>1. chan' = [chan EXCEPT !.pong = FALSE] /\ UNCHANGED <<out, busy>>
    BY <1>14 DEF Receive, KeepQueue
  <2>. QED BY <1>0, <2>1 DEF Typed, Moving, QueueMoves, Channels
<1>15. CASE notify_error_to_listeners
  <2>1. UNCHANGED <<out, busy>> /\ chan.errors > 0
    BY <1>15 DEF notify_error_to_listeners, KeepQueue
  <2>2. CASE chan.state = "ERROR"
    <3>1. chan' = [chan EXCEPT !.errors = @ - 1, !.sock = "none", !.released = TRUE]
      BY <1>0, <1>15, <2>2 DEF notify_error_to_listeners, CloseSocket, Channels
    <3>2. chan.errors - 1 \in Nat
      BY <1>0, <2>1 DEF Channels
    <3>. QED BY <1>0, <2>2, <3>1, <3>2 DEF Typed, Moving, QueueMoves, Channels
  <2>3. CASE chan.state # "ERROR"
    <3>1. chan' = [chan EXCEPT !.errors = @ - 1]
      BY <1>15, <2>3 DEF notify_error_to_listeners
    <3>2. chan.errors - 1 \in Nat
      BY <1>0, <2>1 DEF Channels
    <3>. QED BY <1>0, <2>1, <2>3, <3>1, <3>2 DEF Typed, Moving, QueueMoves, Channels
  <2>. QED BY <2>2, <2>3
<1>16. CASE connect_next
  <2>1. UNCHANGED <<out, busy>> /\ chan.nexts > 0
    BY <1>16 DEF connect_next, KeepQueue
  <2>. DEFINE d == [chan EXCEPT !.nexts = @ - 1]
  <2>2. chan.nexts - 1 \in Nat
    BY <1>0, <2>1 DEF Channels
  <2>3. Typed(d)
    BY <1>0, <2>2 DEF Typed, Channels
  <2>4. PICK started \in BOOLEAN :
            chan' = IF chan.state = "RETRY" THEN connect(d, started) ELSE d
    BY <1>16 DEF connect_next
  <2>5. CASE chan.state = "RETRY"
    <3>. HIDE DEF d
    <3>. QED BY <2>3, <2>4, <2>5, ConnectFields, AttemptedMoves DEF QueueMoves
  <2>6. CASE chan.state # "RETRY"
    BY <1>0, <2>1, <2>3, <2>4, <2>6 DEF Moving, QueueMoves, Channels
  <2>. QED BY <2>5, <2>6
<1>17. CASE UNCHANGED vars
  BY <1>0, <1>17 DEF vars, Typed, Moving, QueueMoves
<1>. QED
  BY <1>1, <1>2, <1>3, <1>4, <1>5, <1>6, <1>7, <1>8, <1>9, <1>10, <1>11, <1>12,
     <1>13, <1>14, <1>15, <1>16, <1>17 DEF Next, Socket, Tasks

\* A channel that resolves, connects, retries or failed always has a resolution, a
\* deferred task or a socket that will move it on, and a queue that waits in READY
\* waits for a socket: for every number of addresses, messages and TTLs.
THEOREM ChannelNeverStuck == Spec => []NeverStuck
<1>1. StuckInv => NeverStuck
  BY DEF StuckInv, Moving, QueueMoves, NeverStuck
<1>. QED BY <1>1, StuckInit, StuckStep, PTL DEF Spec

-----------------------------------------------------------------------------
(* Without a TTL the channel implements ChannelView.                       *)

\* An error of a channel without a resolution leaves it quiet.
LEMMA HandledQuiet ==
    ASSUME NEW c, ~c.resolver, ~c.released, c.ttl = "off",
           NEW soft, NEW r, Alike(c, r), Handled(c, soft, r)
    PROVE  Quiet(r)
BY DEF Alike, Handled, Quiet

\* So does a connection attempt.
LEMMA AttemptedQuiet ==
    ASSUME NEW c, ~c.resolver, ~c.released, c.ttl = "off",
           NEW r, Alike(c, r), Attempted(r)
    PROVE  Quiet(r)
BY DEF Alike, Attempted, Quiet

\* The views, one state at a time
LEMMA ViewValues ==
    ASSUME NEW c
    PROVE  /\ c.state = "INIT" => ViewOf(c) = "NONE"
           /\ c.state \in {"RES_IN_PROGRESS", "CONNECTING", "RETRY"} => ViewOf(c) = "CONNECTING"
           /\ c.state = "READY" => ViewOf(c) = "READY"
           /\ c.state = "ERROR" /\ ~c.released => ViewOf(c) = "ERROR"
           /\ c.state = "ERROR" /\ c.released => ViewOf(c) = "CLOSED"
           /\ c.state = "DISCONNECTED" => ViewOf(c) = "CLOSED"
<1>1. CASE c.state = "INIT"  BY <1>1 DEF ViewOf
<1>2. CASE c.state \in {"RES_IN_PROGRESS", "CONNECTING", "RETRY"}  BY <1>2 DEF ViewOf
<1>3. CASE c.state = "READY"  BY <1>3 DEF ViewOf
<1>4. CASE c.state = "ERROR" /\ ~c.released  BY <1>4 DEF ViewOf
<1>5. CASE c.state = "ERROR" /\ c.released  BY <1>5 DEF ViewOf
<1>6. CASE c.state = "DISCONNECTED"  BY <1>6 DEF ViewOf
<1>. QED BY <1>1, <1>2, <1>3, <1>4, <1>5, <1>6

\* The steps of ChannelView, from view u to view v
Allowed(u, v) ==
    \/ u = v
    \/ u = "NONE" /\ v = "CONNECTING"
    \/ u = "CONNECTING" /\ v \in {"READY", "ERROR"}
    \/ u = "READY" /\ v \in {"CONNECTING", "ERROR"}
    \/ u # "CLOSED" /\ v = "CLOSED"

\* The pong timer is nothing a transaction sees.
LEMMA SameView ==
    ASSUME chan \in Channels, Quiet(chan), chan' = [chan EXCEPT !.pong = FALSE]
    PROVE  Quiet(chan') /\ Allowed(ViewOf(chan), ViewOf(chan'))
<1>1. /\ Alike(chan, chan') /\ chan'.state = chan.state /\ chan'.peer = chan.peer
      /\ chan'.sock = chan.sock /\ chan'.errors = chan.errors /\ chan'.nexts = chan.nexts
  BY DEF Channels, Alike
<1>2. Quiet(chan')
  BY <1>1 DEF Quiet, Alike
<1>3. ViewOf(chan') = ViewOf(chan)
  BY <1>1 DEF ViewOf, Alike
<1>. QED BY <1>2, <1>3 DEF Allowed

\* The only answer of the resolver finds a channel that waits for it and nothing
\* else, and starts the first connection attempt or fails.
LEMMA ResDoneQuiet ==
    ASSUME MaxExpiries = 0, Typed(chan), Quiet(chan), channel_res_done
    PROVE  Quiet(chan') /\ Allowed(ViewOf(chan), ViewOf(chan'))
<1>0. chan \in Channels
  BY DEF Typed
<1>1. /\ chan.state = "RES_IN_PROGRESS" /\ ~chan.released /\ chan.peer = 0
      /\ chan.ttl = "off"
  <2>1. chan.resolver /\ (~chan.released \/ chan.errors + chan.nexts > 0)
    BY DEF channel_res_done, Exists
  <2>2. /\ chan.peer = 0 /\ chan.errors = 0 /\ chan.nexts = 0 /\ chan.ttl = "off"
        /\ chan.state \in {"RES_IN_PROGRESS", "DISCONNECTED"}
        /\ chan.state = "DISCONNECTED" => chan.released
    BY <2>1 DEF Quiet
  <2>3. ~(chan.errors + chan.nexts > 0)
    BY <2>2
  <2>. QED BY <2>1, <2>2, <2>3
<1>. DEFINE C(l, p) == [chan EXCEPT !.resolver = FALSE, !.peers = l, !.peer = p]
<1>2. PICK l \in 0..MaxPeers, started \in BOOLEAN :
        \/ l = 0 /\ chan' = handle_error(C(0, 0), FALSE)
        \/ l > 0 /\ chan' = connect(C(l, 1), started)
  <2>. DEFINE Armed(c, more) == IF more THEN [c EXCEPT !.ttl = "armed"] ELSE c
              A(l) == [chan EXCEPT !.resolver = FALSE, !.peers = l]
  <2>1. PICK l \in 0..MaxPeers, more \in {FALSE, MaxExpiries > 0}, started \in BOOLEAN :
          \/ l = 0 /\ chan' = handle_error([A(l) EXCEPT !.peer = 0], FALSE)
          \/ l > 0 /\ chan' = Armed(connect([A(l) EXCEPT !.peer = 1], started), more)
          \/ chan.peer # 0
    BY DEF channel_res_done
  <2>2. ~more
    <3>1. ~(MaxExpiries > 0)
      OBVIOUS
    <3>. QED BY <2>1, <3>1, Zenon
  <2>3. Armed(connect([A(l) EXCEPT !.peer = 1], started), more)
           = connect([A(l) EXCEPT !.peer = 1], started)
    BY <2>2
  <2>4. [A(l) EXCEPT !.peer = 1] = C(l, 1) /\ (l = 0 => [A(l) EXCEPT !.peer = 0] = C(0, 0))
    OBVIOUS
  <2>. QED BY <1>1, <2>1, <2>3, <2>4
<1>3. ASSUME NEW k \in 0..MaxPeers, NEW p \in 0..k
      PROVE  /\ Typed(C(k, p)) /\ ~C(k, p).resolver /\ ~C(k, p).released
             /\ C(k, p).ttl = "off" /\ C(k, p).state = "RES_IN_PROGRESS"
  <2>1. p \in 0..MaxPeers /\ p <= k
    BY <1>3, PeersAssumption
  <2>2. C(k, p) \in Channels
    BY <1>0, <2>1 DEF Channels
  <2>. QED BY <1>0, <1>1, <2>1, <2>2 DEF Typed, Channels
<1>4. CASE chan' = handle_error(C(0, 0), FALSE)
  <2>. DEFINE c == C(0, 0)
  <2>1. /\ Typed(c) /\ ~c.resolver /\ ~c.released /\ c.ttl = "off"
        /\ c.state = "RES_IN_PROGRESS"
    <3>. HIDE DEF C
    <3>1. 0 \in 0..MaxPeers /\ 0 \in 0..0
      BY PeersAssumption
    <3>. QED BY <1>3, <3>1
  <2>. HIDE DEF c
  <2>2. chan' = handle_error(c, FALSE)
    BY <1>4 DEF c
  <2>3. Alike(c, chan') /\ Handled(c, FALSE, chan')
    BY <2>1, <2>2, HandleErrorFields
  <2>4. Quiet(chan')
    BY <2>1, <2>3, HandledQuiet
  <2>5. chan'.state \in {"RETRY", "ERROR"} /\ ~chan'.released
    BY <2>1, <2>3 DEF Alike, Handled
  <2>. QED BY <1>1, <2>4, <2>5, ViewValues DEF Allowed
<1>5. CASE l > 0 /\ chan' = connect(C(l, 1), started)
  <2>. DEFINE c == C(l, 1)
  <2>1. /\ Typed(c) /\ ~c.resolver /\ ~c.released /\ c.ttl = "off"
    <3>. HIDE DEF C
    <3>1. 1 \in 0..l
      BY <1>5
    <3>. QED BY <1>3, <3>1
  <2>. HIDE DEF c
  <2>2. chan' = connect(c, started)
    BY <1>5 DEF c
  <2>3. Alike(c, chan') /\ Attempted(chan')
    BY <2>1, <2>2, ConnectFields
  <2>4. Quiet(chan')
    BY <2>1, <2>3, AttemptedQuiet
  <2>5. chan'.state \in {"CONNECTING", "RETRY", "ERROR"} /\ ~chan'.released
    BY <2>1, <2>3 DEF Attempted, Alike
  <2>. QED BY <1>1, <2>4, <2>5, ViewValues DEF Allowed
<1>. QED BY <1>2, <1>4, <1>5

\* Every step of a channel that is quiet keeps it quiet and is a step of its view.
LEMMA QuietStep ==
    ASSUME MaxExpiries = 0, ViewInv, [Next]_vars
    PROVE  Quiet(chan') /\ Allowed(ViewOf(chan), ViewOf(chan'))
<1>0. /\ Typed(chan) /\ Moving(chan) /\ Quiet(chan)
      /\ chan \in Channels /\ chan.peer <= chan.peers
  BY DEF ViewInv, StuckInv, Typed
<1>. DEFINE Live == ~chan.resolver /\ ~chan.released /\ chan.ttl = "off"
<1>L. chan.state \in {"CONNECTING", "RETRY", "READY"} => Live
  BY <1>0 DEF Quiet
<1>1. CASE queue_message
  <2>1. CASE chan.state = "READY"
    <3>1. PICK q : process_queue(chan, q)
      BY <1>1, <2>1 DEF queue_message
    <3>2. /\ Alike(chan, chan')
          /\ chan' = chan \/ (chan'.state = "ERROR" /\ chan'.errors > 0)
      BY <1>0, <2>1, <3>1, ProcessQueueFields
    <3>. QED BY <1>0, <1>L, <2>1, <3>2, ViewValues DEF Alike, Quiet, Allowed
  <2>2. CASE chan.state # "READY"
    <3>1. chan' = IF chan.state = "INIT" THEN resolve(chan) ELSE chan
      BY <1>1, <2>2 DEF queue_message
    <3>2. CASE chan.state = "INIT"
      <4>1. chan' = [chan EXCEPT !.state = "RES_IN_PROGRESS", !.resolver = TRUE]
        BY <3>1, <3>2 DEF resolve
      <4>2. /\ chan'.state = "RES_IN_PROGRESS" /\ chan'.ttl = chan.ttl
            /\ chan'.peer = chan.peer /\ chan'.errors = chan.errors
            /\ chan'.nexts = chan.nexts /\ chan'.sock = chan.sock
            /\ chan'.released = chan.released
        BY <1>0, <4>1 DEF Channels
      <4>. QED BY <1>0, <3>2, <4>2, ViewValues DEF Quiet, Allowed
    <3>3. CASE chan.state # "INIT"
      BY <1>0, <3>1, <3>3 DEF Allowed
    <3>. QED BY <3>2, <3>3
  <2>. QED BY <2>1, <2>2
<1>2. CASE get_channel
  BY <1>0, <1>2 DEF get_channel, Quiet
<1>3. CASE send_keep_alive
  <2>1. chan.state = "READY"
    BY <1>3 DEF send_keep_alive
  <2>2. CASE chan' = [chan EXCEPT !.pong = TRUE]
    <3>1. /\ chan'.state = chan.state /\ Alike(chan, chan')
      BY <1>0, <2>2 DEF Channels, Alike
    <3>. QED BY <1>L, <2>1, <3>1, ViewValues DEF Quiet, Allowed, Alike
  <2>3. CASE chan' = SetErrorAndClose(chan)
    <3>1. chan'.state = "ERROR" /\ Alike(chan, chan')
      BY <1>0, <2>1, <2>3, ErrorClosed
    <3>. QED BY <1>L, <2>1, <3>1, ViewValues DEF Quiet, Allowed, Alike
  <2>. QED BY <1>3, <2>2, <2>3 DEF send_keep_alive
<1>4. CASE SoftError
  <2>1. chan' = handle_error(chan, TRUE) /\ chan.state = "READY"
    BY <1>0, <1>4 DEF SoftError, Quiet
  <2>2. Alike(chan, chan') /\ Handled(chan, TRUE, chan')
    BY <1>0, <2>1, HandleErrorFields
  <2>3. Quiet(chan')
    BY <1>L, <2>1, <2>2, HandledQuiet
  <2>4. chan'.state \in {"RETRY", "ERROR"} /\ ~chan'.released
    BY <1>L, <2>1, <2>2 DEF Alike, Handled
  <2>. QED BY <2>1, <2>3, <2>4, ViewValues DEF Allowed
<1>5. CASE Disconnect \/ PeerCloses
  <2>1. chan' = disconnect(chan)
    BY <1>5 DEF Disconnect, PeerCloses
  <2>2. /\ chan'.state = "DISCONNECTED" /\ chan'.ttl = chan.ttl
        /\ chan'.resolver = chan.resolver /\ chan'.errors = chan.errors
        /\ chan'.nexts = chan.nexts /\ chan'.peer = chan.peer
        /\ chan.state # "DISCONNECTED" => chan'.released
        /\ chan.state = "DISCONNECTED" => chan' = chan
    BY <1>0, <2>1, DisconnectFields
  <2>3. Quiet(chan')
    BY <1>0, <2>2 DEF Quiet
  <2>. QED BY <2>2, <2>3, ViewValues DEF Allowed
<1>6. CASE channel_res_done
  BY <1>0, <1>6, ResDoneQuiet
<1>7. CASE channel_dns_ttl_timeout
  BY <1>0, <1>7 DEF channel_dns_ttl_timeout, Quiet
<1>8. CASE pong_timeout
  <2>1. CASE chan.state = "READY"
    <3>1. chan' = [SetErrorAndClose(chan) EXCEPT !.pong = FALSE]
      BY <1>8, <2>1 DEF pong_timeout
    <3>2. /\ SetErrorAndClose(chan) \in Channels /\ Alike(chan, SetErrorAndClose(chan))
          /\ SetErrorAndClose(chan).state = "ERROR"
      BY <1>0, <2>1, ErrorClosed DEF Typed
    <3>3. chan'.state = "ERROR" /\ Alike(chan, chan')
      BY <3>1, <3>2 DEF Channels, Alike
    <3>. QED BY <1>L, <2>1, <3>3, ViewValues DEF Quiet, Allowed, Alike
  <2>2. CASE chan.state # "READY"
    <3>1. chan' = [chan EXCEPT !.pong = FALSE]
      BY <1>8, <2>2 DEF pong_timeout
    <3>. QED BY <1>0, <3>1, SameView
  <2>. QED BY <2>1, <2>2
<1>9. CASE SocketWritable
  <2>1. process_queue(chan, out) /\ chan.state = "READY"
    BY <1>9 DEF SocketWritable
  <2>2. /\ Alike(chan, chan')
        /\ chan' = chan \/ (chan'.state = "ERROR" /\ chan'.errors > 0)
    BY <1>0, <2>1, ProcessQueueFields
  <2>. QED BY <1>0, <1>L, <2>1, <2>2, ViewValues DEF Alike, Quiet, Allowed
<1>10. CASE ConnectCompletes
  <2>. DEFINE c == [chan EXCEPT !.state = "READY", !.sock = "up"]
  <2>1. process_queue(c, out) /\ chan.state = "CONNECTING"
    BY <1>10 DEF ConnectCompletes
  <2>2. Typed(c) /\ c.state = "READY" /\ Alike(chan, c)
    BY <1>0 DEF Typed, Channels, States, Alike
  <2>. HIDE DEF c
  <2>3. /\ Alike(c, chan')
        /\ chan' = c \/ (chan'.state = "ERROR" /\ chan'.errors > 0)
    BY <2>1, <2>2, ProcessQueueFields
  <2>. QED BY <1>L, <2>1, <2>2, <2>3, ViewValues DEF Alike, Quiet, Allowed
<1>11. CASE ConnectFails \/ ReceiveFails
  <2>. DEFINE c == [chan EXCEPT !.sock = "broken"]
  <2>1. chan' = handle_error(c, FALSE) /\ chan.state \in {"CONNECTING", "READY"}
    BY <1>0, <1>11 DEF ConnectFails, ReceiveFails, Quiet
  <2>2. Typed(c) /\ c.state = chan.state /\ Alike(chan, c)
    BY <1>0 DEF Typed, Channels, Alike
  <2>. HIDE DEF c
  <2>3. Alike(c, chan') /\ Handled(c, FALSE, chan')
    BY <2>1, <2>2, HandleErrorFields
  <2>4. ~c.resolver /\ ~c.released /\ c.ttl = "off"
    BY <1>L, <2>1, <2>2 DEF Alike
  <2>5. Quiet(chan')
    BY <2>3, <2>4, HandledQuiet
  <2>6. chan'.state \in {"RETRY", "ERROR"} /\ ~chan'.released
    BY <2>1, <2>2, <2>3, <2>4 DEF Alike, Handled
  <2>. QED BY <2>1, <2>5, <2>6, ViewValues DEF Allowed
<1>12. CASE ConnectsUnnoticed
  <2>1. chan' = [chan EXCEPT !.sock = "up"] /\ chan.sock = "pending"
    BY <1>12 DEF ConnectsUnnoticed
  <2>2. /\ Alike(chan, chan') /\ chan'.state = chan.state /\ chan'.peer = chan.peer
        /\ chan'.errors = chan.errors /\ chan'.nexts = chan.nexts
    BY <1>0, <2>1 DEF Channels, Alike
  <2>3. chan.state \notin {"INIT", "RES_IN_PROGRESS"}
    BY <1>0, <2>1 DEF Quiet
  <2>4. Quiet(chan')
    BY <1>0, <2>2, <2>3 DEF Quiet, Alike
  <2>5. ViewOf(chan') = ViewOf(chan)
    BY <2>2 DEF ViewOf, Alike
  <2>. QED BY <2>4, <2>5 DEF Allowed
<1>14. CASE Receive
  <2>1. chan' = [chan EXCEPT !.pong = FALSE]
    BY <1>14 DEF Receive
  <2>. QED BY <1>0, <2>1, SameView
<1>15. CASE notify_error_to_listeners
  <2>1. CASE chan.state = "ERROR"
    <3>1. chan' = [chan EXCEPT !.errors = @ - 1, !.sock = "none", !.released = TRUE]
      BY <1>0, <1>15, <2>1 DEF notify_error_to_listeners, CloseSocket, Channels
    <3>2. /\ chan'.state = "ERROR" /\ chan'.released /\ chan'.ttl = chan.ttl
          /\ chan'.resolver = chan.resolver
      BY <1>0, <2>1, <3>1 DEF Channels
    <3>. QED BY <1>0, <2>1, <3>2, ViewValues DEF Quiet, Allowed
  <2>2. CASE chan.state # "ERROR"
    <3>1. chan' = [chan EXCEPT !.errors = @ - 1] /\ chan.errors > 0
      BY <1>15, <2>2 DEF notify_error_to_listeners
    <3>2. /\ Alike(chan, chan') /\ chan'.state = chan.state /\ chan'.peer = chan.peer
          /\ chan'.sock = chan.sock /\ chan'.nexts = chan.nexts
      BY <1>0, <3>1 DEF Channels, Alike
    <3>3. ~chan.resolver /\ chan.state # "INIT"
      BY <1>0, <3>1 DEF Quiet
    <3>4. ViewOf(chan') = ViewOf(chan)
      BY <3>2 DEF ViewOf, Alike
    <3>. QED BY <1>0, <3>2, <3>3, <3>4 DEF Quiet, Allowed, Alike
  <2>. QED BY <2>1, <2>2
<1>16. CASE connect_next
  <2>. DEFINE d == [chan EXCEPT !.nexts = @ - 1]
  <2>1. chan.nexts > 0
    BY <1>16 DEF connect_next
  <2>2. chan.nexts - 1 \in Nat
    BY <1>0, <2>1 DEF Channels
  <2>3. /\ Typed(d) /\ Alike(chan, d) /\ d.state = chan.state /\ d.sock = chan.sock
        /\ d.peer = chan.peer /\ d.errors = chan.errors
    BY <1>0, <2>2 DEF Typed, Channels, Alike
  <2>4. PICK started \in BOOLEAN :
            chan' = IF chan.state = "RETRY" THEN connect(d, started) ELSE d
    BY <1>16 DEF connect_next
  <2>. HIDE DEF d
  <2>5. CASE chan.state = "RETRY"
    <3>1. Alike(d, chan') /\ Attempted(chan')
      BY <2>3, <2>4, <2>5, ConnectFields
    <3>2. ~d.resolver /\ ~d.released /\ d.ttl = "off"
      BY <1>L, <2>3, <2>5 DEF Alike
    <3>3. Quiet(chan')
      BY <3>1, <3>2, AttemptedQuiet
    <3>4. chan'.state \in {"CONNECTING", "RETRY", "ERROR"} /\ ~chan'.released
      BY <3>1, <3>2 DEF Attempted, Alike
    <3>. QED BY <2>5, <3>3, <3>4, ViewValues DEF Allowed
  <2>6. CASE chan.state # "RETRY"
    <3>1. chan' = d
      BY <2>4, <2>6
    <3>2. ~chan.resolver /\ chan.state # "INIT"
      BY <1>0, <2>1 DEF Quiet
    <3>3. ViewOf(chan') = ViewOf(chan)
      BY <2>3, <3>1 DEF ViewOf, Alike
    <3>. QED BY <1>0, <2>3, <3>1, <3>2, <3>3 DEF Quiet, Allowed, Alike
  <2>. QED BY <2>5, <2>6
<1>17. CASE UNCHANGED vars
  BY <1>0, <1>17 DEF vars, Allowed
<1>. QED
  BY <1>1, <1>2, <1>3, <1>4, <1>5, <1>6, <1>7, <1>8, <1>9, <1>10, <1>11, <1>12,
     <1>14, <1>15, <1>16, <1>17 DEF Next, Socket, Tasks

\* Without a TTL the channel implements ChannelView: the view the transaction
\* modules take of a channel is sound.
THEOREM ChannelImplementsView ==
    ASSUME MaxExpiries = 0
    PROVE  Spec => ImplementsView
<1>1. Init => ViewInv /\ Abstract!ViewInit
  <2>1. Init => Quiet(chan) /\ ViewOf(chan) = "NONE"
    BY DEF Init, NewChannel, Quiet, ViewOf
  <2>. QED BY <2>1, StuckInit DEF ViewInv, Abstract!ViewInit, View
<1>2. ViewInv /\ [Next]_vars => ViewInv' /\ [Abstract!ViewNext]_View
  <2>. SUFFICES ASSUME ViewInv, [Next]_vars
                PROVE  ViewInv' /\ [Abstract!ViewNext]_View
    OBVIOUS
  <2>1. StuckInv'
    BY StuckStep DEF ViewInv
  <2>2. Quiet(chan') /\ Allowed(ViewOf(chan), ViewOf(chan'))
    BY QuietStep
  <2>3. [Abstract!ViewNext]_View
    BY <2>2 DEF Allowed, View, Abstract!ViewNext, Abstract!Start, Abstract!BecomeReady,
                Abstract!Retry, Abstract!Fail, Abstract!Close
  <2>. QED BY <2>1, <2>2, <2>3 DEF ViewInv
<1>. QED BY <1>1, <1>2, PTL DEF Spec, ImplementsView, Abstract!ViewSpec

-----------------------------------------------------------------------------
(* The queue: messages leave in order, once.                               *)

\* The queue q, the history s of what was sent and the number n of messages
\* queued, for a channel whose latest connection has the number k: only the
\* message in front may have begun to leave.
InLine(k, q, s, n) ==
    /\ q \in Seq(Messages) /\ s \in Seq(Deliveries)
    /\ \A i, j \in 1..Len(q) : i < j => q[i].id < q[j].id /\ q[j].on = 0
    /\ \A j \in 1..Len(q) : q[j].id <= n /\ q[j].on <= k
    /\ \A i \in 1..Len(s) : s[i].id <= n /\ s[i].to <= k
    /\ \A i, j \in 1..Len(s) : i < j => s[i].id < s[j].id /\ s[i].to <= s[j].from
    /\ \A i \in 1..Len(s), j \in 1..Len(q) :
          s[i].id < q[j].id /\ (q[j].on # 0 => s[i].to <= q[j].on)

OrderInv ==
    /\ StuckInv /\ InLine(chan.conn, out, sent, queued)
    /\ busy \in BOOLEAN /\ queued \in 0..MaxMessages /\ expiries \in 0..MaxExpiries

\* The numbers in a queue and in a history
LEMMA FieldTypes ==
    ASSUME NEW q \in Seq(Messages), NEW s \in Seq(Deliveries)
    PROVE  /\ \A j \in 1..Len(q) : q[j].id \in Nat /\ q[j].on \in Nat
           /\ \A i \in 1..Len(s) : s[i].id \in Nat /\ s[i].from \in Nat /\ s[i].to \in Nat
<1>1. \A x \in Messages : x.id \in Nat /\ x.on \in Nat
  BY MessagesAssumption DEF Messages
<1>2. \A x \in Deliveries : x.id \in Nat /\ x.from \in Nat /\ x.to \in Nat
  BY MessagesAssumption DEF Deliveries
<1>3. \A j \in 1..Len(q) : q[j] \in Messages
  OBVIOUS
<1>4. \A i \in 1..Len(s) : s[i] \in Deliveries
  OBVIOUS
<1>. QED BY <1>1, <1>2, <1>3, <1>4

\* A later connection changes nothing.
LEMMA InLineLater ==
    ASSUME NEW k \in Nat, NEW l \in Nat, k <= l, NEW q, NEW s, NEW n, InLine(k, q, s, n)
    PROVE  InLine(l, q, s, n)
<1>1. /\ q \in Seq(Messages) /\ s \in Seq(Deliveries)
      /\ \A j \in 1..Len(q) : q[j].on \in Nat /\ q[j].on <= k
      /\ \A i \in 1..Len(s) : s[i].to \in Nat /\ s[i].to <= k
  BY FieldTypes DEF InLine
<1>2. \A j \in 1..Len(q) : q[j].on <= l
  BY <1>1
<1>3. \A i \in 1..Len(s) : s[i].to <= l
  BY <1>1
<1>. QED BY <1>2, <1>3 DEF InLine

\* A new message queues up behind all others.
LEMMA InLineAppend ==
    ASSUME NEW k \in Nat, NEW q, NEW s, NEW n \in 0..MaxMessages, n < MaxMessages,
           InLine(k, q, s, n)
    PROVE  InLine(k, Append(q, [id |-> n + 1, on |-> 0]), s, n + 1)
<1>. DEFINE m == [id |-> n + 1, on |-> 0]
            r == Append(q, m)
<1>1. m \in Messages /\ m.id = n + 1 /\ m.on = 0
  BY MessagesAssumption DEF Messages
<1>2. q \in Seq(Messages) /\ Len(q) \in Nat
  BY DEF InLine
<1>. HIDE DEF m
<1>3. /\ r \in Seq(Messages) /\ Len(r) = Len(q) + 1 /\ r[Len(q) + 1] = m
      /\ \A j \in 1..Len(q) : r[j] = q[j]
  BY <1>1, <1>2
<1>. HIDE DEF r
<1>4. \A j \in 1..Len(r) : j \in 1..Len(q) \/ j = Len(q) + 1
  BY <1>2, <1>3
<1>5. /\ \A j \in 1..Len(q) : q[j].id \in Nat /\ q[j].id <= n
      /\ \A i \in 1..Len(s) : s[i].id \in Nat /\ s[i].id <= n
  BY FieldTypes DEF InLine
<1>6. \A i, j \in 1..Len(r) : i < j => r[i].id < r[j].id /\ r[j].on = 0
  <2>. SUFFICES ASSUME NEW i \in 1..Len(r), NEW j \in 1..Len(r), i < j
                PROVE  r[i].id < r[j].id /\ r[j].on = 0
    OBVIOUS
  <2>1. i \in 1..Len(q)
    BY <1>2, <1>3
  <2>2. CASE j \in 1..Len(q)
    BY <1>3, <2>1, <2>2 DEF InLine
  <2>3. CASE j = Len(q) + 1
    BY <1>1, <1>3, <1>5, <2>1, <2>3
  <2>. QED BY <1>4, <2>2, <2>3
<1>7. \A j \in 1..Len(r) : r[j].id <= n + 1 /\ r[j].on <= k
  <2>. SUFFICES ASSUME NEW j \in 1..Len(r) PROVE r[j].id <= n + 1 /\ r[j].on <= k
    OBVIOUS
  <2>1. CASE j \in 1..Len(q)
    BY <1>3, <1>5, <2>1 DEF InLine
  <2>2. CASE j = Len(q) + 1
    BY <1>1, <1>3, <2>2
  <2>. QED BY <1>4, <2>1, <2>2
<1>8. \A i \in 1..Len(s) : s[i].id <= n + 1 /\ s[i].to <= k
  BY <1>5 DEF InLine
<1>9. \A i \in 1..Len(s), j \in 1..Len(r) :
          s[i].id < r[j].id /\ (r[j].on # 0 => s[i].to <= r[j].on)
  <2>. SUFFICES ASSUME NEW i \in 1..Len(s), NEW j \in 1..Len(r)
                PROVE  s[i].id < r[j].id /\ (r[j].on # 0 => s[i].to <= r[j].on)
    OBVIOUS
  <2>1. CASE j \in 1..Len(q)
    BY <1>3, <2>1 DEF InLine
  <2>2. CASE j = Len(q) + 1
    BY <1>1, <1>3, <1>5, <2>2
  <2>. QED BY <1>4, <2>1, <2>2
<1>10. InLine(k, r, s, n + 1)
  BY <1>3, <1>6, <1>7, <1>8, <1>9 DEF InLine
<1>. QED BY <1>10 DEF r, m

\* The messages of q at the positions order[1], ..., order[m] left on the
\* connection k and follow s in the history t.
Parcels(k, q, s, t, m, order) ==
    /\ \A i, j \in 1..m : i < j => order[i] < order[j]
    /\ t \in Seq(Deliveries) /\ Len(t) = Len(s) + m
    /\ \A i \in 1..Len(s) : t[i] = s[i]
    /\ \A i \in 1..m :
          /\ t[Len(s) + i].id = q[order[i]].id
          /\ t[Len(s) + i].to = k
          /\ t[Len(s) + i].from = IF q[order[i]].on = 0 THEN k ELSE q[order[i]].on

\* Those are what fits of the first n messages.
Shipped(k, q, n, s, t) ==
    \E m \in Nat : \E order \in [1..m -> 1..n] :
        /\ Parcels(k, q, s, t, m, order)
        /\ \A j \in 1..n : q[j].id \notin Oversized => \E i \in 1..m : order[i] = j

\* r is q without its first m messages; the new front may have begun to leave.
Left(k, q, m, r) ==
    /\ r \in Seq(Messages) /\ Len(r) = Len(q) - m
    /\ \A j \in 1..Len(r) : /\ r[j].id = q[m + j].id
                            /\ r[j].on = q[m + j].on \/ (j = 1 /\ r[j].on = k)

\* What channel_process_queue writes to the socket
LEMMA DeliverShips ==
    ASSUME NEW c, c.conn \in Nat, NEW q \in Seq(Messages), NEW n \in 0..Len(q),
           sent \in Seq(Deliveries), Deliver(c, q, n)
    PROVE  Shipped(c.conn, q, n, sent, sent')
<1>. DEFINE fitting == {k \in 1..n : q[k].id \notin Oversized}
            m == Cardinality(fitting)
            Parcel(k) == [id |-> q[k].id, to |-> c.conn,
                          from |-> IF q[k].on = 0 THEN c.conn ELSE q[k].on]
<1>0. n \in Nat /\ n <= Len(q) /\ Len(q) \in Nat
  OBVIOUS
<1>1. IsFiniteSet(fitting) /\ m \in Nat /\ fitting \subseteq 1..n
  <2>1. IsFiniteSet(1..n)
    BY <1>0, FS_Interval
  <2>2. fitting \subseteq 1..n
    OBVIOUS
  <2>. QED BY <2>1, <2>2, FS_Subset, FS_CardinalityType
<1>2. PICK order \in [1..m -> fitting] :
        /\ \A i, j \in DOMAIN order : i < j => order[i] < order[j]
        /\ sent' = sent \o [i \in DOMAIN order |-> Parcel(order[i])]
  BY Zenon DEF Deliver
<1>3. DOMAIN order = 1..m /\ \A i \in 1..m : order[i] \in 1..n
  BY <1>1, <1>2
<1>4. \A j \in 1..n : q[j].id \notin Oversized => \E i \in 1..m : order[i] = j
  <2>1. \A i, j \in 1..m : order[i] = order[j] => i = j
    <3>. SUFFICES ASSUME NEW i \in 1..m, NEW j \in 1..m, order[i] = order[j]
                  PROVE  i = j
      OBVIOUS
    <3>1. order[i] \in Int /\ order[j] \in Int /\ i \in Int /\ j \in Int
      BY <1>1, <1>3
    <3>2. (i < j => order[i] < order[j]) /\ (j < i => order[j] < order[i])
      BY <1>2, <1>3
    <3>. QED BY <3>1, <3>2
  <2>2. IsFiniteSet(1..m) /\ Cardinality(1..m) = m
    BY <1>1, FS_Interval
  <2>3. order \in Injection(1..m, fitting)
    BY <1>2, <1>3, <2>1 DEF Injection, IsInjective
  <2>. HIDE DEF m
  <2>4. order \in Surjection(1..m, fitting)
    BY <1>1, <2>2, <2>3, FS_Injection DEF m
  <2>5. \A j \in fitting : \E i \in 1..m : order[i] = j
    BY <2>4 DEF Surjection
  <2>. QED BY <2>5
<1>. DEFINE new == [i \in 1..m |-> Parcel(order[i])]
<1>5. sent' = sent \o new
  BY <1>2, <1>3
<1>6. \A k \in 1..n : Parcel(k) \in Deliveries
  <2>. SUFFICES ASSUME NEW k \in 1..n PROVE Parcel(k) \in Deliveries
    OBVIOUS
  <2>1. k \in 1..Len(q)
    BY <1>0
  <2>2. q[k] \in Messages
    BY <2>1
  <2>3. q[k].id \in 1..MaxMessages /\ q[k].on \in Nat
    BY <2>2 DEF Messages
  <2>. QED BY <2>3 DEF Deliveries
<1>. HIDE DEF m, fitting, Parcel
<1>7. new \in Seq(Deliveries) /\ Len(new) = m /\ \A i \in 1..m : new[i] = Parcel(order[i])
  <2>1. new \in [1..m -> Deliveries]
    BY <1>3, <1>6
  <2>. QED BY <1>1, <2>1, LenProperties, SeqDef
<1>. HIDE DEF new
<1>8. /\ sent' \in Seq(Deliveries) /\ Len(sent') = Len(sent) + m
      /\ \A i \in 1..Len(sent) : sent'[i] = sent[i]
      /\ \A i \in 1..m : sent'[Len(sent) + i] = Parcel(order[i])
  <2>1. Len(sent) \in Nat
    OBVIOUS
  <2>2. /\ sent' \in Seq(Deliveries) /\ Len(sent') = Len(sent) + m
        /\ \A i \in 1..(Len(sent) + m) :
              sent'[i] = IF i <= Len(sent) THEN sent[i] ELSE new[i - Len(sent)]
    BY <1>5, <1>7, ConcatProperties
  <2>3. \A i \in 1..Len(sent) : sent'[i] = sent[i]
    BY <1>1, <2>1, <2>2
  <2>4. ASSUME NEW i \in 1..m PROVE sent'[Len(sent) + i] = Parcel(order[i])
    <3>1. /\ Len(sent) + i \in 1..(Len(sent) + m) /\ ~(Len(sent) + i <= Len(sent))
          /\ (Len(sent) + i) - Len(sent) = i
      BY <1>1, <2>1
    <3>2. sent'[Len(sent) + i] = new[i]
      BY <2>2, <3>1
    <3>. QED BY <1>7, <3>2
  <2>. QED BY <2>2, <2>3, <2>4
<1>9. order \in [1..m -> 1..n]
  BY <1>1, <1>2
<1>10. \A i \in 1..m : /\ sent'[Len(sent) + i].id = q[order[i]].id
                       /\ sent'[Len(sent) + i].to = c.conn
                       /\ sent'[Len(sent) + i].from = IF q[order[i]].on = 0 THEN c.conn
                                                      ELSE q[order[i]].on
  <2>1. \A k : /\ Parcel(k).id = q[k].id /\ Parcel(k).to = c.conn
               /\ Parcel(k).from = IF q[k].on = 0 THEN c.conn ELSE q[k].on
    BY DEF Parcel
  <2>. QED BY <1>8, <2>1
<1>11. \A i, j \in 1..m : i < j => order[i] < order[j]
  BY <1>2, <1>3
<1>12. Parcels(c.conn, q, sent, sent', m, order)
  BY <1>8, <1>10, <1>11 DEF Parcels
<1>. QED BY <1>1, <1>4, <1>9, <1>12 DEF Shipped

\* What was sent and what is left is in line.
LEMMA ShippedInLine ==
    ASSUME NEW k \in Nat, NEW q, NEW s, NEW N \in Nat, InLine(k, q, s, N),
           NEW n \in 0..Len(q), NEW t, Shipped(k, q, n, s, t),
           NEW m \in {n, n + 1}, m <= Len(q), NEW r, Left(k, q, m, r)
    PROVE  InLine(k, r, t, N)
<1>0. /\ q \in Seq(Messages) /\ s \in Seq(Deliveries) /\ Len(q) \in Nat /\ Len(s) \in Nat
      /\ n \in Nat /\ m \in Nat /\ n <= m /\ r \in Seq(Messages) /\ Len(r) = Len(q) - m
      /\ Len(r) \in Nat
  BY DEF InLine, Left
<1>. PICK l \in Nat : \E order \in [1..l -> 1..n] : Parcels(k, q, s, t, l, order)
  BY DEF Shipped
<1>. PICK order \in [1..l -> 1..n] : Parcels(k, q, s, t, l, order)
  OBVIOUS
<1>1. /\ \A i, j \in 1..l : i < j => order[i] < order[j]
      /\ t \in Seq(Deliveries) /\ Len(t) = Len(s) + l
      /\ \A i \in 1..Len(s) : t[i] = s[i]
      /\ \A i \in 1..l :
            /\ t[Len(s) + i].id = q[order[i]].id
            /\ t[Len(s) + i].to = k
            /\ t[Len(s) + i].from = IF q[order[i]].on = 0 THEN k ELSE q[order[i]].on
  BY DEF Parcels
<1>2. /\ \A j \in 1..Len(q) : q[j].id \in Nat /\ q[j].on \in Nat /\ q[j].id <= N /\ q[j].on <= k
      /\ \A i \in 1..Len(s) : /\ s[i].id \in Nat /\ s[i].to \in Nat /\ s[i].from \in Nat
                              /\ s[i].id <= N /\ s[i].to <= k
  BY <1>0, FieldTypes DEF InLine
<1>3. /\ \A i, j \in 1..Len(q) : i < j => q[i].id < q[j].id /\ q[j].on = 0
      /\ \A i, j \in 1..Len(s) : i < j => s[i].id < s[j].id /\ s[i].to <= s[j].from
      /\ \A i \in 1..Len(s), j \in 1..Len(q) :
            s[i].id < q[j].id /\ (q[j].on # 0 => s[i].to <= q[j].on)
  BY DEF InLine
<1>4. \A j \in 1..Len(r) : /\ m + j \in 1..Len(q) /\ r[j].id = q[m + j].id
                           /\ r[j].on = q[m + j].on \/ (j = 1 /\ r[j].on = k)
  BY <1>0 DEF Left
<1>5. \A i \in 1..l : order[i] \in 1..Len(q) /\ order[i] \in 1..n
  <2>1. \A i \in 1..l : order[i] \in 1..n
    OBVIOUS
  <2>2. 1..n \subseteq 1..Len(q)
    BY <1>0
  <2>. QED BY <2>1, <2>2
<1>6. ASSUME NEW i \in 1..Len(t)
      PROVE  \/ i \in 1..Len(s) /\ t[i] = s[i]
             \/ \E j \in 1..l : i = Len(s) + j
  <2>1. CASE i <= Len(s)
    BY <1>0, <1>1, <2>1
  <2>2. CASE ~(i <= Len(s))
    <3>1. i - Len(s) \in 1..l /\ i = Len(s) + (i - Len(s))
      BY <1>0, <1>1, <2>2
    <3>. QED BY <3>1
  <2>. QED BY <2>1, <2>2
<1>7. \A i, j \in 1..Len(r) : i < j => r[i].id < r[j].id /\ r[j].on = 0
  <2>. SUFFICES ASSUME NEW i \in 1..Len(r), NEW j \in 1..Len(r), i < j
                PROVE  r[i].id < r[j].id /\ r[j].on = 0
    OBVIOUS
  <2>1. m + i \in 1..Len(q) /\ m + j \in 1..Len(q) /\ m + i < m + j /\ j # 1
    BY <1>0, <1>4
  <2>. QED BY <1>3, <1>4, <2>1
<1>8. \A j \in 1..Len(r) : r[j].id <= N /\ r[j].on <= k
  <2>. SUFFICES ASSUME NEW j \in 1..Len(r) PROVE r[j].id <= N /\ r[j].on <= k
    OBVIOUS
  <2>1. /\ m + j \in 1..Len(q) /\ r[j].id = q[m + j].id
        /\ r[j].on = q[m + j].on \/ r[j].on = k
    BY <1>4
  <2>2. q[m + j].id <= N /\ q[m + j].on <= k
    BY <1>2, <2>1
  <2>. QED BY <2>1, <2>2
<1>9. \A i \in 1..Len(t) : t[i].id <= N /\ t[i].to <= k
  <2>. SUFFICES ASSUME NEW i \in 1..Len(t) PROVE t[i].id <= N /\ t[i].to <= k
    OBVIOUS
  <2>1. CASE i \in 1..Len(s) /\ t[i] = s[i]
    BY <1>2, <2>1
  <2>2. CASE \E j \in 1..l : i = Len(s) + j
    <3>1. PICK j \in 1..l : i = Len(s) + j
      BY <2>2
    <3>2. t[i].id = q[order[j]].id /\ t[i].to = k
      BY <1>1, <3>1
    <3>. QED BY <1>2, <1>5, <3>2
  <2>. QED BY <1>6, <2>1, <2>2
<1>10. \A i, j \in 1..Len(t) : i < j => t[i].id < t[j].id /\ t[i].to <= t[j].from
  <2>. SUFFICES ASSUME NEW i \in 1..Len(t), NEW j \in 1..Len(t), i < j
                PROVE  t[i].id < t[j].id /\ t[i].to <= t[j].from
    OBVIOUS
  <2>1. CASE j \in 1..Len(s)
    <3>1. i \in 1..Len(s)
      BY <1>0, <1>1, <2>1
    <3>. QED BY <1>1, <1>3, <2>1, <3>1
  <2>2. CASE \E b \in 1..l : j = Len(s) + b
    <3>1. PICK b \in 1..l : j = Len(s) + b
      BY <2>2
    <3>2. /\ t[j].id = q[order[b]].id /\ order[b] \in 1..Len(q)
          /\ t[j].from = IF q[order[b]].on = 0 THEN k ELSE q[order[b]].on
      BY <1>1, <1>5, <3>1
    <3>3. CASE i \in 1..Len(s) /\ t[i] = s[i]
      <4>1. s[i].id < q[order[b]].id /\ (q[order[b]].on # 0 => s[i].to <= q[order[b]].on)
        BY <1>3, <3>2, <3>3
      <4>2. s[i].to <= k
        BY <1>2, <3>3
      <4>. QED BY <3>2, <3>3, <4>1, <4>2
    <3>4. CASE \E a \in 1..l : i = Len(s) + a
      <4>1. PICK a \in 1..l : i = Len(s) + a
        BY <3>4
      <4>2. a < b
        BY <1>0, <1>1, <3>1, <4>1
      <4>3. order[a] < order[b] /\ order[a] \in 1..Len(q)
        BY <1>1, <1>5, <4>2
      <4>4. t[i].id = q[order[a]].id /\ t[i].to = k
        BY <1>1, <4>1
      <4>5. q[order[a]].id < q[order[b]].id /\ q[order[b]].on = 0
        BY <1>3, <3>2, <4>3
      <4>. QED BY <3>2, <4>4, <4>5
    <3>. QED BY <1>6, <3>3, <3>4
  <2>. QED BY <1>6, <2>1, <2>2
<1>11. \A i \in 1..Len(t), j \in 1..Len(r) :
          t[i].id < r[j].id /\ (r[j].on # 0 => t[i].to <= r[j].on)
  <2>. SUFFICES ASSUME NEW i \in 1..Len(t), NEW j \in 1..Len(r)
                PROVE  t[i].id < r[j].id /\ (r[j].on # 0 => t[i].to <= r[j].on)
    OBVIOUS
  <2>1. /\ m + j \in 1..Len(q) /\ r[j].id = q[m + j].id
        /\ r[j].on = q[m + j].on \/ r[j].on = k
    BY <1>4
  <2>2. t[i].to <= k
    BY <1>9
  <2>3. CASE i \in 1..Len(s) /\ t[i] = s[i]
    BY <1>3, <2>1, <2>2, <2>3
  <2>4. CASE \E a \in 1..l : i = Len(s) + a
    <3>1. PICK a \in 1..l : i = Len(s) + a
      BY <2>4
    <3>2. t[i].id = q[order[a]].id /\ order[a] \in 1..Len(q)
      BY <1>1, <1>5, <3>1
    <3>3. order[a] < m + j
      <4>1. order[a] \in 1..n
        BY <1>5
      <4>. QED BY <1>0, <4>1
    <3>4. q[order[a]].id < q[m + j].id /\ q[m + j].on = 0
      BY <1>3, <2>1, <3>2, <3>3
    <3>. QED BY <2>1, <2>2, <3>2, <3>4
  <2>. QED BY <1>6, <2>3, <2>4
<1>. QED BY <1>0, <1>1, <1>7, <1>8, <1>9, <1>10, <1>11 DEF InLine

\* A message is accounted for: it waits in q or left, as the history s says.
Accounted(id, q, s) ==
    \/ \E i \in 1..Len(s) : s[i].id = id
    \/ \E j \in 1..Len(q) : q[j].id = id

\* Only the message that send() failed on, and what does not fit, is missing.
LEMMA ShippedAccounted ==
    ASSUME NEW k, NEW q \in Seq(Messages), NEW s \in Seq(Deliveries), NEW n \in 0..Len(q),
           NEW t, Shipped(k, q, n, s, t), NEW r, Left(k, q, n, r),
           NEW id, id \notin Oversized, Accounted(id, q, s)
    PROVE  Accounted(id, r, t)
<1>. PICK m \in Nat : \E order \in [1..m -> 1..n] :
        /\ Parcels(k, q, s, t, m, order)
        /\ \A j \in 1..n : q[j].id \notin Oversized => \E i \in 1..m : order[i] = j
  BY DEF Shipped
<1>1. PICK order \in [1..m -> 1..n] :
        /\ Parcels(k, q, s, t, m, order)
        /\ \A j \in 1..n : q[j].id \notin Oversized => \E i \in 1..m : order[i] = j
  OBVIOUS
<1>2. Len(s) \in Nat /\ Len(t) = Len(s) + m /\ Len(q) \in Nat /\ Len(r) = Len(q) - n
  BY <1>1 DEF Parcels, Left
<1>3. CASE \E i \in 1..Len(s) : s[i].id = id
  <2>1. PICK i \in 1..Len(s) : s[i].id = id
    BY <1>3
  <2>2. i \in 1..Len(t) /\ t[i] = s[i]
    BY <1>1, <1>2 DEF Parcels
  <2>. QED BY <2>1, <2>2 DEF Accounted
<1>4. CASE \E j \in 1..Len(q) : q[j].id = id
  <2>1. PICK j \in 1..Len(q) : q[j].id = id
    BY <1>4
  <2>2. CASE j <= n
    <3>1. j \in 1..n
      BY <2>2
    <3>2. PICK i \in 1..m : order[i] = j
      BY <1>1, <2>1, <3>1
    <3>3. Len(s) + i \in 1..Len(t) /\ t[Len(s) + i].id = q[j].id
      BY <1>1, <1>2, <3>2 DEF Parcels
    <3>. QED BY <2>1, <3>3 DEF Accounted
  <2>3. CASE ~(j <= n)
    <3>1. j - n \in 1..Len(r) /\ n + (j - n) = j
      BY <1>2, <2>3
    <3>2. r[j - n].id = q[j].id
      BY <3>1 DEF Left
    <3>. QED BY <2>1, <3>1, <3>2 DEF Accounted
  <2>. QED BY <2>2, <2>3
<1>. QED BY <1>3, <1>4 DEF Accounted

\* Errors do not open connections.
LEMMA HandleErrorConn ==
    ASSUME NEW c, Typed(c), NEW soft \in BOOLEAN
    PROVE  handle_error(c, soft).conn = c.conn
<1>1. c \in Channels
  BY DEF Typed
<1>. DEFINE r == [c EXCEPT !.sock = "none", !.peer = @ + 1, !.state = "RETRY",
                           !.nexts = @ + 1]
            e == [c EXCEPT !.state = "ERROR", !.errors = @ + 1]
<1>2. r.conn = c.conn /\ e.conn = c.conn
  BY <1>1 DEF Channels
<1>3. handle_error(c, soft) \in {c, r, e}
  BY <1>1 DEF handle_error, CloseSocket, Channels
<1>. HIDE DEF r, e
<1>. QED BY <1>2, <1>3

\* channel_process_queue keeps the messages in line and loses one only with
\* the channel.
LEMMA ProcessQueueInLine ==
    ASSUME NEW c, Typed(c), c.state = "READY", NEW q, NEW N \in Nat,
           InLine(c.conn, q, sent, N), process_queue(c, q)
    PROVE  /\ InLine(c.conn, out', sent', N) /\ chan'.conn = c.conn /\ busy' \in BOOLEAN
           /\ \A id : id \notin Oversized /\ Accounted(id, q, sent)
                  => Accounted(id, out', sent') \/ chan'.state = "ERROR"
<1>0. /\ c \in Channels /\ c.conn \in Nat
      /\ q \in Seq(Messages) /\ sent \in Seq(Deliveries) /\ Len(q) \in Nat
  BY DEF Typed, Channels, InLine
<1>1. PICK n \in Sendable(c, q) :
        /\ Deliver(c, q, n)
        /\ \/ n = Len(q) /\ chan' = c /\ out' = <<>> /\ busy' = FALSE
           \/ n < Len(q) /\ SendBlocks(c, q, n)
           \/ n < Len(q) /\ SendFails(c, q, n)
  BY DEF process_queue
<1>2. n \in 0..Len(q) /\ n \in Nat
  BY <1>0 DEF Sendable
<1>3. Shipped(c.conn, q, n, sent, sent')
  BY <1>0, <1>1, <1>2, DeliverShips
<1>4. CASE n = Len(q) /\ chan' = c /\ out' = <<>> /\ busy' = FALSE
  <2>1. Left(c.conn, q, n, out')
    BY <1>0, <1>2, <1>4 DEF Left
  <2>2. InLine(c.conn, out', sent', N)
    BY <1>0, <1>2, <1>3, <1>4, <2>1, ShippedInLine
  <2>. QED BY <1>0, <1>2, <1>3, <1>4, <2>1, <2>2, ShippedAccounted
<1>5. CASE n < Len(q) /\ SendBlocks(c, q, n)
  <2>1. PICK taken \in {FALSE, c.sock = "up"} :
          out' = <<[q[n + 1] EXCEPT !.on = IF taken /\ @ = 0 THEN c.conn ELSE @]>>
                     \o SubSeq(q, n + 2, Len(q))
    BY <1>5 DEF SendBlocks
  <2>2. chan' = c /\ busy' = TRUE
    BY <1>5 DEF SendBlocks
  <2>. DEFINE h == [q[n + 1] EXCEPT !.on = IF taken /\ @ = 0 THEN c.conn ELSE @]
              z == SubSeq(q, n + 2, Len(q))
  <2>3. n + 1 \in 1..Len(q) /\ q[n + 1] \in Messages
    BY <1>0, <1>2, <1>5
  <2>4. h \in Messages /\ h.id = q[n + 1].id /\ (h.on = q[n + 1].on \/ h.on = c.conn)
    BY <1>0, <2>3 DEF Messages
  <2>5. /\ z \in Seq(Messages) /\ Len(z) = Len(q) - (n + 1)
        /\ \A j \in 1..Len(z) : z[j] = q[n + 1 + j]
    <3>1. n + 2 \in Int /\ Len(q) \in Int /\ \A i \in (n + 2)..Len(q) : q[i] \in Messages
      BY <1>0, <1>2
    <3>2. /\ z \in Seq(Messages)
          /\ Len(z) = IF n + 2 <= Len(q) THEN Len(q) - (n + 2) + 1 ELSE 0
          /\ \A i \in 1..(Len(q) - (n + 2) + 1) : z[i] = q[n + 2 + i - 1]
      BY <3>1, SubSeqProperties
    <3>3. Len(z) = Len(q) - (n + 1) /\ Len(z) = Len(q) - (n + 2) + 1
      BY <1>0, <1>2, <1>5, <3>2
    <3>4. \A j \in 1..Len(z) : n + 2 + j - 1 = n + 1 + j
      BY <1>0, <1>2, <3>3
    <3>. QED BY <3>2, <3>3, <3>4
  <2>6. out' = <<h>> \o z
    BY <2>1
  <2>. HIDE DEF h, z
  <2>7. /\ <<h>> \in Seq(Messages) /\ Len(<<h>>) = 1 /\ <<h>>[1] = h
    BY <2>4
  <2>8. /\ out' \in Seq(Messages) /\ Len(out') = 1 + Len(z)
        /\ \A i \in 1..(1 + Len(z)) : out'[i] = IF i <= 1 THEN <<h>>[i] ELSE z[i - 1]
    BY <2>5, <2>6, <2>7, ConcatProperties
  <2>9. Left(c.conn, q, n, out')
    <3>1. Len(out') = Len(q) - n
      BY <1>0, <1>2, <2>5, <2>8
    <3>2. ASSUME NEW j \in 1..Len(out')
          PROVE  /\ out'[j].id = q[n + j].id
                 /\ out'[j].on = q[n + j].on \/ (j = 1 /\ out'[j].on = c.conn)
      <4>1. CASE j = 1
        <5>1. out'[j] = h
          BY <2>5, <2>7, <2>8, <4>1
        <5>. QED BY <2>4, <4>1, <5>1
      <4>2. CASE j # 1
        <5>1. /\ ~(j <= 1) /\ j \in 1..(1 + Len(z)) /\ j - 1 \in 1..Len(z)
              /\ n + 1 + (j - 1) = n + j
          BY <1>0, <1>2, <2>5, <2>8, <4>2
        <5>2. out'[j] = z[j - 1]
          BY <2>8, <5>1
        <5>3. z[j - 1] = q[n + 1 + (j - 1)]
          BY <2>5, <5>1
        <5>. QED BY <5>1, <5>2, <5>3
      <4>. QED BY <4>1, <4>2
    <3>. QED BY <2>8, <3>1, <3>2 DEF Left
  <2>10. InLine(c.conn, out', sent', N)
    BY <1>0, <1>2, <1>3, <1>5, <2>9, ShippedInLine
  <2>11. \A id : id \notin Oversized /\ Accounted(id, q, sent) => Accounted(id, out', sent')
    BY <1>0, <1>2, <1>3, <2>9, ShippedAccounted
  <2>. QED BY <2>2, <2>10, <2>11
<1>6. CASE n < Len(q) /\ SendFails(c, q, n)
  <2>. DEFINE e == [c EXCEPT !.sock = IF @ = "up" THEN "broken" ELSE @]
  <2>1. /\ chan' = handle_error(e, FALSE) /\ busy' = FALSE
        /\ out' = SubSeq(q, n + 2, Len(q))
    BY <1>6 DEF SendFails
  <2>2. Typed(e) /\ e.conn = c.conn /\ e.state = "READY"
    BY DEF Typed, Channels
  <2>. HIDE DEF e
  <2>3. chan'.conn = c.conn
    BY <2>1, <2>2, HandleErrorConn
  <2>4. chan'.state = "ERROR"
    BY <2>1, <2>2, HandleErrorFields DEF Handled
  <2>5. Left(c.conn, q, n + 1, out')
    <3>1. n + 2 \in Int /\ Len(q) \in Int /\ \A i \in (n + 2)..Len(q) : q[i] \in Messages
      BY <1>0, <1>2
    <3>2. /\ out' \in Seq(Messages)
          /\ Len(out') = IF n + 2 <= Len(q) THEN Len(q) - (n + 2) + 1 ELSE 0
          /\ \A i \in 1..(Len(q) - (n + 2) + 1) : out'[i] = q[n + 2 + i - 1]
      BY <2>1, <3>1, SubSeqProperties
    <3>3. Len(out') = Len(q) - (n + 1) /\ Len(out') = Len(q) - (n + 2) + 1
      BY <1>0, <1>2, <1>6, <3>2
    <3>4. \A j \in 1..Len(out') : n + 2 + j - 1 = (n + 1) + j
      BY <1>0, <1>2, <3>3
    <3>5. \A j \in 1..Len(out') : out'[j] = q[(n + 1) + j]
      BY <3>2, <3>3, <3>4
    <3>. QED BY <3>2, <3>3, <3>5 DEF Left
  <2>6. n + 1 \in {n, n + 1} /\ n + 1 <= Len(q)
    BY <1>0, <1>2, <1>6
  <2>7. InLine(c.conn, out', sent', N)
    BY <1>0, <1>2, <1>3, <2>5, <2>6, ShippedInLine
  <2>. QED BY <2>1, <2>3, <2>4, <2>7
<1>. QED BY <1>1, <1>4, <1>5, <1>6

\* A connection attempt opens one connection or none.
LEMMA ConnectConn ==
    ASSUME NEW c, Typed(c), NEW started \in BOOLEAN
    PROVE  connect(c, started).conn \in {c.conn, c.conn + 1}
<1>. DEFINE d == [c EXCEPT !.state = "CONNECTING", !.pong = FALSE]
            e == [d EXCEPT !.sock = "pending", !.conn = @ + 1]
<1>1. Typed(d) /\ d.conn = c.conn
  BY DEF Typed, Channels, States
<1>2. connect(c, started) = IF started THEN e ELSE handle_error(d, FALSE)
  BY DEF connect
<1>3. e.conn = c.conn + 1
  BY DEF Typed, Channels
<1>. HIDE DEF d, e
<1>4. handle_error(d, FALSE).conn = c.conn
  BY <1>1, HandleErrorConn
<1>. QED BY <1>2, <1>3, <1>4

\* The queue and its history rest while a connection may be opened.
Rests == UNCHANGED <<out, busy, queued, sent>> /\ chan'.conn \in {chan.conn, chan.conn + 1}

\* They change when channel_process_queue runs on the connection in use.
Sends ==
    /\ UNCHANGED queued
    /\ \E c : Typed(c) /\ c.state = "READY" /\ c.conn = chan.conn /\ process_queue(c, out)

\* channel_res_done
LEMMA ResDoneQueue ==
    ASSUME Typed(chan), channel_res_done
    PROVE  Rests \/ Sends
<1>. DEFINE Armed(c, more) == IF more THEN [c EXCEPT !.ttl = "armed"] ELSE c
            Answered(l) == [chan EXCEPT !.resolver = FALSE, !.peers = l]
            Ready(l, p) == [Answered(l) EXCEPT !.peer = p, !.state = "READY"]
            Again(l) == [CloseSocket(Answered(l)) EXCEPT
                            !.peer = 1, !.state = "RETRY", !.nexts = @ + 1]
<1>0. chan \in Channels
  BY DEF Typed
<1>1. PICK l \in 0..MaxPeers, more \in {FALSE, MaxExpiries > 0}, started \in BOOLEAN :
        \/ /\ l = 0
           /\ chan' = handle_error([Answered(l) EXCEPT !.peer = 0], FALSE)
           /\ KeepQueue
        \/ /\ l > 0
           /\ chan' = Armed(connect([Answered(l) EXCEPT !.peer = 1], started), more)
           /\ KeepQueue
        \/ /\ l > 0
           /\ \E place \in 1..l : process_queue(Armed(Ready(l, place), more), out)
           /\ UNCHANGED queued
        \/ /\ l > 0
           /\ chan' = Armed(Again(l), more)
           /\ KeepQueue
  BY DEF channel_res_done
<1>2. ASSUME NEW c, c \in Channels
      PROVE  /\ Armed(c, more) \in Channels /\ Armed(c, more).conn = c.conn
             /\ Armed(c, more).state = c.state /\ Armed(c, more).peer = c.peer
             /\ Armed(c, more).peers = c.peers
  BY <1>2 DEF Channels
<1>3. ASSUME NEW p \in 0..l
      PROVE  /\ Typed([Answered(l) EXCEPT !.peer = p])
             /\ [Answered(l) EXCEPT !.peer = p].conn = chan.conn
             /\ Typed(Ready(l, p)) /\ Ready(l, p).state = "READY"
             /\ Ready(l, p).conn = chan.conn
  <2>1. p \in 0..MaxPeers /\ p <= l /\ l \in 0..MaxPeers
    BY <1>3, PeersAssumption
  <2>. DEFINE d == [chan EXCEPT !.resolver = FALSE, !.peers = l, !.peer = p]
              e == [d EXCEPT !.state = "READY"]
  <2>2. [Answered(l) EXCEPT !.peer = p] = d
    OBVIOUS
  <2>3. Ready(l, p) = e
    OBVIOUS
  <2>4. d \in Channels
    BY <1>0, <2>1 DEF Channels
  <2>5. d.peer <= d.peers /\ d.conn = chan.conn
    BY <1>0, <2>1 DEF Channels
  <2>. HIDE DEF d
  <2>6. e \in Channels /\ e.peer <= e.peers /\ e.state = "READY" /\ e.conn = chan.conn
    BY <2>4, <2>5 DEF Channels, States
  <2>. HIDE DEF e, Answered, Ready
  <2>. QED BY <2>2, <2>3, <2>4, <2>5, <2>6 DEF Typed
<1>4. CASE /\ chan' = handle_error([Answered(l) EXCEPT !.peer = 0], FALSE)
           /\ KeepQueue
  <2>. DEFINE c == [Answered(l) EXCEPT !.peer = 0]
  <2>1. Typed(c) /\ c.conn = chan.conn
    <3>. HIDE DEF Answered
    <3>1. 0 \in 0..l
      OBVIOUS
    <3>. QED BY <1>3, <3>1
  <2>2. chan' = handle_error(c, FALSE)
    BY <1>4
  <2>. HIDE DEF c
  <2>3. chan'.conn = chan.conn
    BY <2>1, <2>2, HandleErrorConn
  <2>. QED BY <1>4, <2>3 DEF Rests, KeepQueue
<1>5. CASE /\ l > 0
           /\ chan' = Armed(connect([Answered(l) EXCEPT !.peer = 1], started), more)
           /\ KeepQueue
  <2>. DEFINE c == [Answered(l) EXCEPT !.peer = 1]
              r == connect(c, started)
  <2>1. Typed(c) /\ c.conn = chan.conn
    <3>. HIDE DEF Answered
    <3>1. 1 \in 0..l
      BY <1>5
    <3>. QED BY <1>3, <3>1
  <2>. HIDE DEF c
  <2>2. chan' = Armed(r, more)
    BY <1>5 DEF c
  <2>3. r \in Channels /\ r.conn \in {chan.conn, chan.conn + 1}
    BY <2>1, ConnectFields, ConnectConn DEF Typed
  <2>. HIDE DEF r, Armed
  <2>4. chan'.conn = r.conn
    BY <1>2, <2>2, <2>3
  <2>. QED BY <1>5, <2>3, <2>4 DEF Rests, KeepQueue
<1>6. CASE /\ \E place \in 1..l : process_queue(Armed(Ready(l, place), more), out)
           /\ UNCHANGED queued
  <2>1. PICK place \in 1..l : process_queue(Armed(Ready(l, place), more), out)
    BY <1>6
  <2>. DEFINE c == Armed(Ready(l, place), more)
  <2>2. Typed(c) /\ c.state = "READY" /\ c.conn = chan.conn
    <3>1. place \in 0..l
      OBVIOUS
    <3>. DEFINE b == Ready(l, place)
    <3>2. Typed(b) /\ b.state = "READY" /\ b.conn = chan.conn
      <4>. HIDE DEF Armed, Ready, Answered
      <4>. QED BY <1>3, <3>1
    <3>3. c = Armed(b, more)
      OBVIOUS
    <3>. HIDE DEF b, Armed, c
    <3>. QED BY <1>2, <3>2, <3>3 DEF Typed
  <2>3. process_queue(c, out)
    BY <2>1
  <2>. HIDE DEF c
  <2>. QED BY <1>6, <2>2, <2>3, Zenon DEF Sends
<1>7. CASE chan' = Armed(Again(l), more) /\ KeepQueue
  <2>. DEFINE c == [chan EXCEPT !.resolver = FALSE, !.peers = l, !.sock = "none",
                                !.peer = 1, !.state = "RETRY", !.nexts = @ + 1]
  <2>1. Again(l) = c
    BY <1>0 DEF CloseSocket, Channels
  <2>2. c.conn = chan.conn /\ c.nexts \in Nat
    BY <1>0 DEF Channels
  <2>3. c \in Channels
    <3>1. 1 \in 0..MaxPeers
      BY PeersAssumption
    <3>. QED BY <1>0, <2>2, <3>1 DEF Channels, States
  <2>4. chan' = Armed(c, more)
    BY <1>7, <2>1
  <2>. HIDE DEF c, Armed
  <2>5. chan'.conn = chan.conn
    BY <1>2, <2>2, <2>3, <2>4
  <2>. QED BY <1>7, <2>5 DEF Rests, KeepQueue
<1>. QED BY <1>1, <1>4, <1>5, <1>6, <1>7

\* Every step leaves the queue alone, sends, or queues a message.
LEMMA QueueSteps ==
    ASSUME StuckInv, [Next]_vars
    PROVE  Rests \/ Sends \/ queue_message
<1>0. Typed(chan) /\ chan \in Channels
  BY DEF StuckInv, Typed
<1>1. ASSUME NEW c, Typed(c), c.conn = chan.conn, NEW soft \in BOOLEAN,
             chan' = handle_error(c, soft), KeepQueue
      PROVE  Rests
  BY <1>1, HandleErrorConn DEF Rests, KeepQueue
<1>2. CASE get_channel
  <2>1. chan' = [chan EXCEPT !.ttl = "off", !.state = "RES_IN_PROGRESS", !.resolver = TRUE]
    BY <1>0, <1>2 DEF get_channel, resolve, Channels
  <2>2. chan'.conn = chan.conn
    BY <1>0, <2>1 DEF Channels
  <2>. QED BY <1>2, <2>2 DEF get_channel, Rests, KeepQueue
<1>C. ASSUME chan.state = "READY"
      PROVE  SetErrorAndClose(chan) \in Channels /\ SetErrorAndClose(chan).conn = chan.conn
  <2>. DEFINE r == handle_error(chan, FALSE)
  <2>1. r \in Channels /\ r.conn = chan.conn
    BY <1>0, HandleErrorFields, HandleErrorConn DEF Typed
  <2>2. SetErrorAndClose(chan) = [r EXCEPT !.sock = "none"]
    BY DEF SetErrorAndClose, CloseSocket
  <2>. HIDE DEF r
  <2>. QED BY <2>1, <2>2 DEF Channels
<1>3. CASE send_keep_alive
  <2>1. CASE chan' = [chan EXCEPT !.pong = TRUE]
    <3>1. chan'.conn = chan.conn
      BY <1>0, <2>1 DEF Channels
    <3>. QED BY <1>3, <3>1 DEF send_keep_alive, Rests, KeepQueue
  <2>2. CASE chan' = SetErrorAndClose(chan)
    BY <1>3, <1>C, <2>2 DEF send_keep_alive, Rests, KeepQueue
  <2>. QED BY <1>3, <2>1, <2>2 DEF send_keep_alive
<1>4. CASE SoftError
  BY <1>0, <1>1, <1>4 DEF SoftError
<1>5. CASE Disconnect \/ PeerCloses
  <2>1. chan' = disconnect(chan) /\ KeepQueue
    BY <1>5 DEF Disconnect, PeerCloses
  <2>2. chan'.conn = chan.conn
    <3>1. CASE chan.state = "DISCONNECTED"
      BY <2>1, <3>1 DEF disconnect
    <3>2. CASE chan.state # "DISCONNECTED"
      <4>1. chan' = [chan EXCEPT !.sock = "none", !.state = "DISCONNECTED", !.released = TRUE]
        BY <1>0, <2>1, <3>2 DEF disconnect, CloseSocket, Channels
      <4>. QED BY <1>0, <4>1 DEF Channels
    <3>. QED BY <3>1, <3>2
  <2>. QED BY <2>1, <2>2 DEF Rests, KeepQueue
<1>6. CASE channel_res_done
  BY <1>0, <1>6, ResDoneQueue
<1>7. CASE channel_dns_ttl_timeout
  <2>1. chan' = [chan EXCEPT !.ttl = "expired"] /\ KeepQueue
    BY <1>7 DEF channel_dns_ttl_timeout
  <2>2. chan'.conn = chan.conn
    BY <1>0, <2>1 DEF Channels
  <2>. QED BY <2>1, <2>2 DEF Rests, KeepQueue
<1>8. CASE pong_timeout
  <2>. DEFINE c == IF chan.state = "READY" THEN SetErrorAndClose(chan) ELSE chan
  <2>1. chan' = [c EXCEPT !.pong = FALSE] /\ KeepQueue
    BY <1>8 DEF pong_timeout
  <2>2. c \in Channels /\ c.conn = chan.conn
    BY <1>0, <1>C
  <2>. HIDE DEF c
  <2>3. chan'.conn = chan.conn
    BY <2>1, <2>2 DEF Channels
  <2>. QED BY <2>1, <2>3 DEF Rests, KeepQueue
<1>9. CASE SocketWritable
  BY <1>0, <1>9 DEF SocketWritable, Sends
<1>10. CASE ConnectCompletes
  <2>. DEFINE c == [chan EXCEPT !.state = "READY", !.sock = "up"]
  <2>1. process_queue(c, out) /\ UNCHANGED queued
    BY <1>10 DEF ConnectCompletes
  <2>2. Typed(c) /\ c.state = "READY" /\ c.conn = chan.conn
    BY <1>0 DEF Typed, Channels, States
  <2>. HIDE DEF c
  <2>. QED BY <2>1, <2>2 DEF Sends
<1>11. CASE ConnectFails \/ ReceiveFails
  <2>. DEFINE c == [chan EXCEPT !.sock = "broken"]
  <2>1. chan' = handle_error(c, FALSE) /\ KeepQueue
    BY <1>11 DEF ConnectFails, ReceiveFails
  <2>2. Typed(c) /\ c.conn = chan.conn
    BY <1>0 DEF Typed, Channels
  <2>. HIDE DEF c
  <2>. QED BY <1>1, <2>1, <2>2
<1>12. CASE ConnectsUnnoticed
  <2>1. chan' = [chan EXCEPT !.sock = "up"] /\ KeepQueue
    BY <1>12 DEF ConnectsUnnoticed
  <2>2. chan'.conn = chan.conn
    BY <1>0, <2>1 DEF Channels
  <2>. QED BY <2>1, <2>2 DEF Rests, KeepQueue
<1>13. CASE Receive
  <2>1. chan' = [chan EXCEPT !.pong = FALSE] /\ KeepQueue
    BY <1>13 DEF Receive
  <2>2. chan'.conn = chan.conn
    BY <1>0, <2>1 DEF Channels
  <2>. QED BY <2>1, <2>2 DEF Rests, KeepQueue
<1>14. CASE notify_error_to_listeners
  <2>. DEFINE d == [chan EXCEPT !.errors = @ - 1]
              e == [chan EXCEPT !.errors = @ - 1, !.sock = "none", !.released = TRUE]
  <2>1. chan' \in {d, e} /\ KeepQueue
    BY <1>0, <1>14 DEF notify_error_to_listeners, CloseSocket, Channels
  <2>2. d.conn = chan.conn /\ e.conn = chan.conn
    BY <1>0 DEF Channels
  <2>. HIDE DEF d, e
  <2>. QED BY <2>1, <2>2 DEF Rests, KeepQueue
<1>15. CASE connect_next
  <2>. DEFINE d == [chan EXCEPT !.nexts = @ - 1]
  <2>1. chan.nexts > 0 /\ KeepQueue
    BY <1>15 DEF connect_next
  <2>2. chan.nexts - 1 \in Nat
    BY <1>0, <2>1 DEF Channels
  <2>3. Typed(d) /\ d.conn = chan.conn
    BY <1>0, <2>2 DEF Typed, Channels
  <2>4. PICK started \in BOOLEAN :
            chan' = IF chan.state = "RETRY" THEN connect(d, started) ELSE d
    BY <1>15 DEF connect_next
  <2>. HIDE DEF d
  <2>5. chan'.conn \in {chan.conn, chan.conn + 1}
    BY <2>3, <2>4, ConnectConn
  <2>. QED BY <2>1, <2>5 DEF Rests, KeepQueue
<1>16. CASE UNCHANGED vars
  BY <1>16 DEF vars, Rests
<1>. QED
  BY <1>2, <1>3, <1>4, <1>5, <1>6, <1>7, <1>8, <1>9, <1>10, <1>11, <1>12,
     <1>13, <1>14, <1>15, <1>16 DEF Next, Socket, Tasks

\* Every step keeps the messages in line, and loses none, the one it queues
\* included, but by an error of the channel.
LEMMA OrderStep ==
    ASSUME OrderInv, [Next]_vars
    PROVE  /\ OrderInv'
           /\ queued' \in {queued, queued + 1}
           /\ \A id : /\ id \notin Oversized
                      /\ Accounted(id, out, sent) \/ id \in (queued + 1)..queued'
                  => Accounted(id, out', sent') \/ chan'.state = "ERROR"
<1>0. /\ StuckInv /\ Typed(chan) /\ chan.conn \in Nat
      /\ InLine(chan.conn, out, sent, queued) /\ out \in Seq(Messages)
      /\ busy \in BOOLEAN /\ queued \in 0..MaxMessages /\ queued \in Nat
      /\ expiries \in 0..MaxExpiries
  BY MessagesAssumption DEF OrderInv, StuckInv, Typed, Channels, InLine
<1>1. StuckInv'
  BY <1>0, StuckStep
<1>2. expiries' \in 0..MaxExpiries
  <2>1. expiries' = expiries \/ (expiries < MaxExpiries /\ expiries' = expiries + 1)
    BY DEF Next, Socket, Tasks, vars, queue_message, get_channel, send_keep_alive, SoftError,
           Disconnect, channel_res_done, channel_dns_ttl_timeout, pong_timeout,
           ConnectCompletes, ConnectFails, ConnectsUnnoticed, ReceiveFails, PeerCloses,
           Receive, SocketWritable, notify_error_to_listeners, connect_next
  <2>. QED BY <1>0, <2>1, ExpiriesAssumption
<1>3. CASE Rests
  <2>1. /\ UNCHANGED <<out, busy, queued, sent>>
        /\ chan'.conn \in Nat /\ chan.conn <= chan'.conn
    BY <1>0, <1>3 DEF Rests
  <2>2. InLine(chan'.conn, out', sent', queued')
    BY <1>0, <2>1, InLineLater
  <2>3. (queued + 1)..queued' = {}
    BY <1>0, <2>1
  <2>. QED BY <1>0, <1>1, <1>2, <2>1, <2>2, <2>3 DEF OrderInv
<1>4. CASE Sends
  <2>1. PICK c : Typed(c) /\ c.state = "READY" /\ c.conn = chan.conn /\ process_queue(c, out)
    BY <1>4 DEF Sends
  <2>2. queued' = queued /\ (queued + 1)..queued' = {}
    BY <1>0, <1>4 DEF Sends
  <2>3. /\ InLine(c.conn, out', sent', queued) /\ chan'.conn = c.conn /\ busy' \in BOOLEAN
        /\ \A id : id \notin Oversized /\ Accounted(id, out, sent)
               => Accounted(id, out', sent') \/ chan'.state = "ERROR"
    BY <1>0, <2>1, ProcessQueueInLine
  <2>. QED BY <1>0, <1>1, <1>2, <2>2, <2>3 DEF OrderInv
<1>5. CASE queue_message
  <2>. DEFINE q == Append(out, [id |-> queued + 1, on |-> 0])
  <2>1. /\ queued < MaxMessages /\ queued' = queued + 1
        /\ \/ chan.state = "READY" /\ process_queue(chan, q)
           \/ /\ chan.state # "READY" /\ out' = q /\ UNCHANGED <<busy, sent>>
              /\ chan' = IF chan.state = "INIT" THEN resolve(chan) ELSE chan
    BY <1>5 DEF queue_message
  <2>2. InLine(chan.conn, q, sent, queued')
    BY <1>0, <2>1, InLineAppend
  <2>3. queued' \in Nat /\ queued' \in 0..MaxMessages /\ (queued + 1)..queued' = {queued'}
    BY <1>0, <2>1, MessagesAssumption
  <2>4. /\ Len(q) = Len(out) + 1 /\ q[Len(out) + 1] = [id |-> queued + 1, on |-> 0]
        /\ \A j \in 1..Len(out) : q[j] = out[j]
        /\ Len(out) \in Nat
    BY <1>0
  <2>. HIDE DEF q
  <2>5. \A id : Accounted(id, out, sent) \/ id = queued' => Accounted(id, q, sent)
    <3>. SUFFICES ASSUME NEW id, Accounted(id, out, sent) \/ id = queued'
                  PROVE  Accounted(id, q, sent)
      OBVIOUS
    <3>1. CASE \E i \in 1..Len(sent) : sent[i].id = id
      BY <3>1 DEF Accounted
    <3>2. CASE \E j \in 1..Len(out) : out[j].id = id
      <4>1. PICK j \in 1..Len(out) : out[j].id = id
        BY <3>2
      <4>2. j \in 1..Len(q) /\ q[j] = out[j]
        BY <2>4
      <4>. QED BY <4>1, <4>2 DEF Accounted
    <3>3. CASE id = queued'
      <4>1. Len(out) + 1 \in 1..Len(q) /\ q[Len(out) + 1].id = id
        BY <2>1, <2>4, <3>3
      <4>. QED BY <4>1 DEF Accounted
    <3>. QED BY <3>1, <3>2, <3>3 DEF Accounted
  <2>6. CASE chan.state = "READY" /\ process_queue(chan, q)
    <3>1. /\ InLine(chan.conn, out', sent', queued') /\ chan'.conn = chan.conn
          /\ busy' \in BOOLEAN
          /\ \A id : id \notin Oversized /\ Accounted(id, q, sent)
                 => Accounted(id, out', sent') \/ chan'.state = "ERROR"
      BY <1>0, <2>2, <2>3, <2>6, ProcessQueueInLine
    <3>. QED BY <1>1, <1>2, <2>1, <2>3, <2>5, <3>1 DEF OrderInv
  <2>7. CASE /\ out' = q /\ UNCHANGED <<busy, sent>>
             /\ chan' = IF chan.state = "INIT" THEN resolve(chan) ELSE chan
    <3>1. chan'.conn = chan.conn
      BY <1>0, <2>7 DEF resolve, Typed, Channels
    <3>. QED BY <1>0, <1>1, <1>2, <2>1, <2>2, <2>3, <2>5, <2>7, <3>1 DEF OrderInv
  <2>. QED BY <2>1, <2>6, <2>7
<1>. QED BY <1>0, <1>3, <1>4, <1>5, QueueSteps

\* A new channel has an empty queue.
LEMMA OrderInit == Init => OrderInv
<1>. SUFFICES ASSUME Init PROVE OrderInv
  OBVIOUS
<1>1. /\ out = <<>> /\ sent = <<>> /\ busy = FALSE /\ queued = 0 /\ expiries = 0
  BY DEF Init
<1>2. Len(out) = 0 /\ Len(sent) = 0 /\ out \in Seq(Messages) /\ sent \in Seq(Deliveries)
  BY <1>1
<1>3. \A i \in 1..0 : FALSE
  OBVIOUS
<1>4. InLine(chan.conn, out, sent, queued)
  BY <1>2, <1>3 DEF InLine
<1>5. queued \in 0..MaxMessages /\ expiries \in 0..MaxExpiries
  BY <1>1, MessagesAssumption, ExpiriesAssumption
<1>6. busy \in BOOLEAN
  BY <1>1
<1>. QED BY <1>4, <1>5, <1>6, StuckInit, Zenon DEF OrderInv

\* The channel, its queue and its history keep their types, and current_peer is in
\* the list, for any number of addresses, messages and TTLs.
THEOREM TypeCorrect == Spec => []TypeOK
<1>1. OrderInv => TypeOK
  BY DEF OrderInv, StuckInv, Typed, InLine, TypeOK
<1>2. OrderInv /\ [Next]_vars => OrderInv'
  BY OrderStep
<1>. QED BY <1>1, <1>2, OrderInit, PTL DEF Spec

\* Messages leave in the order they were queued, none twice, whatever the number of
\* connections and resolutions: at most the first message of a connection is
\* the rest of one that an earlier connection began.
THEOREM DeliverySafety == Spec => []InOrderOnce
<1>1. OrderInv => InOrderOnce
  BY DEF OrderInv, InLine, InOrderOnce
<1>2. OrderInv /\ [Next]_vars => OrderInv'
  BY OrderStep
<1>. QED BY <1>1, <1>2, OrderInit, PTL DEF Spec

\* Without a TTL, a message that neither left nor waits, and was not too large, is
\* lost with its channel, whose listeners hear of it: nothing brings a failed or
\* closed channel back.
THEOREM LossSafety ==
    ASSUME MaxExpiries = 0
    PROVE  Spec => []NoSilentLoss
<1>. DEFINE Down(c) == c.state \in {"ERROR", "DISCONNECTED"}
            LossInv == ViewInv /\ OrderInv /\ NoSilentLoss
<1>1. Init => LossInv
  <2>. SUFFICES ASSUME Init PROVE LossInv
    OBVIOUS
  <2>1. Quiet(chan)
    BY DEF Init, NewChannel, Quiet
  <2>2. 1..queued = {}
    BY DEF Init
  <2>. QED BY <2>1, <2>2, StuckInit, OrderInit DEF ViewInv, NoSilentLoss
<1>2. LossInv /\ [Next]_vars => LossInv'
  <2>. SUFFICES ASSUME LossInv, [Next]_vars PROVE LossInv'
    OBVIOUS
  <2>1. OrderInv' /\ queued' \in {queued, queued + 1} /\ queued \in Nat
    BY OrderStep, MessagesAssumption DEF OrderInv
  <2>2. Quiet(chan') /\ Allowed(ViewOf(chan), ViewOf(chan'))
    BY QuietStep
  <2>3. ViewInv'
    BY <2>1, <2>2 DEF ViewInv, OrderInv
  <2>4. Down(chan) => Down(chan')
    <3>. SUFFICES ASSUME Down(chan) PROVE Down(chan')
      OBVIOUS
    <3>1. ViewOf(chan) \in {"ERROR", "CLOSED"}
      BY ViewValues
    <3>2. ViewOf(chan') \in {"ERROR", "CLOSED"}
      BY <2>2, <3>1 DEF Allowed
    <3>3. chan'.state \in States
      BY <2>3 DEF ViewInv, StuckInv, Typed, Channels
    <3>. QED BY <3>2, <3>3, ViewValues DEF States
  <2>5. NoSilentLoss'
    <3>. SUFFICES ASSUME NEW id \in (1..queued') \ Oversized
                  PROVE  Accounted(id, out', sent') \/ Down(chan')
      BY DEF NoSilentLoss, Accounted
    <3>1. id \in 1..queued \/ id \in (queued + 1)..queued'
      BY <2>1
    <3>2. CASE id \in 1..queued
      <4>1. Accounted(id, out, sent) \/ Down(chan)
        BY <3>2 DEF NoSilentLoss, Accounted
      <4>. QED BY <2>4, <4>1, OrderStep
    <3>3. CASE id \in (queued + 1)..queued'
      BY <3>3, OrderStep
    <3>. QED BY <3>1, <3>2, <3>3
  <2>. QED BY <2>1, <2>3, <2>5
<1>3. LossInv => NoSilentLoss
  OBVIOUS
<1>. QED BY <1>1, <1>2, <1>3, PTL DEF Spec
=============================================================================
