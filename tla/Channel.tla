------------------------------- MODULE Channel -------------------------------
(***************************************************************************)
(* One outgoing TCP channel of belle-sip (channel.c with the transport of  *)
(* stream_channel.c): name resolution and its time to live, connection     *)
(* attempts on the addresses of the answer, the queue of outgoing messages *)
(* and what a full socket buffer does to it, and the errors that reach the *)
(* listeners through tasks deferred to the next turn of the main loop.     *)
(***************************************************************************)
EXTENDS Naturals, Sequences, FiniteSets

CONSTANTS
    MaxPeers,       \* bound: addresses in an answer of the resolver
    MaxMessages,    \* bound: messages queued in a run
    MaxExpiries,    \* bound: how often the TTL of an answer runs out
    Oversized       \* messages that do not fit the marshalling buffer

ASSUME PeersAssumption == MaxPeers \in Nat \ {0}
ASSUME MessagesAssumption == MaxMessages \in Nat /\ Oversized \subseteq 1..MaxMessages
ASSUME ExpiriesAssumption == MaxExpiries \in Nat

VARIABLES
    chan,       \* the channel, its socket, its timers and its deferred tasks
    out,        \* cur_out_message followed by outgoing_messages
    busy,       \* out_state # OUTPUT_STREAM_IDLE: the head of out is current
    queued,     \* history: how many messages were queued; they are numbered
    sent,       \* history: messages whose last byte left, with the connections
                \* that carried their first and their last byte
    expiries    \* history: how often the TTL ran out

vars == <<chan, out, busy, queued, sent, expiries>>

States == {"INIT", "RES_IN_PROGRESS", "CONNECTING", "RETRY", "READY", "ERROR",
           "DISCONNECTED"}

Channels == [state : States,
             peers : 0..MaxPeers,       \* length of peer_list
             peer : 0..MaxPeers,        \* current_peer in it, 0 for NULL
             resolver : BOOLEAN,        \* resolver_ctx is not NULL
             ttl : {"off", "armed", "expired"},
                                        \* dns_ttl_timer, dns_ttl_timedout
             pong : BOOLEAN,            \* expect_pong_timer, pongs confirmed
             sock : {"none", "pending", "up", "broken"},
             conn : Nat,                \* number of the latest socket
             errors : Nat,              \* deferred notify_error_to_listeners
             nexts : Nat,               \* deferred channel_connect_next
             released : BOOLEAN]        \* dropped by bank and transactions

NewChannel == [state |-> "INIT", peers |-> 0, peer |-> 0, resolver |-> FALSE,
               ttl |-> "off", pong |-> FALSE, sock |-> "none", conn |-> 0,
               errors |-> 0, nexts |-> 0, released |-> FALSE]

Messages == [id : 1..MaxMessages,
             on : Nat]      \* connection its first byte left on, 0 for none

Deliveries == [id : 1..MaxMessages, from : Nat, to : Nat]

Init == /\ chan = NewChannel
        /\ out = <<>>
        /\ busy = FALSE
        /\ queued = 0
        /\ sent = <<>>
        /\ expiries = 0

\* A deferred task holds a reference; belle_sip_channel_destroy cancels the
\* resolution and the timers.
Exists(c) == ~c.released \/ c.errors + c.nexts > 0

-----------------------------------------------------------------------------
(* Changes of state.                                                       *)

\* belle_sip_channel_close
CloseSocket(c) == [c EXCEPT !.sock = "none"]

\* current_peer->ai_next; current_peer is NULL after a failed resolution
HasNext(c) == c.peer # 0 /\ c.peer < c.peers

\* Fault: the attempt on the next address is never scheduled.
handle_error_NoTask(c, soft) ==
    IF c.state = "ERROR" THEN c
    ELSE IF (c.state # "READY" \/ soft) /\ HasNext(c)
    THEN [CloseSocket(c) EXCEPT !.peer = @ + 1, !.state = "RETRY"]
    ELSE [c EXCEPT !.state = "ERROR", !.errors = @ + 1]

\* Fault: the last address of the list has a successor.
handle_error_PastTheEnd(c, soft) ==
    IF c.state = "ERROR" THEN c
    ELSE IF (c.state # "READY" \/ soft) /\ c.peer # 0
    THEN [CloseSocket(c) EXCEPT !.peer = @ + 1, !.state = "RETRY", !.nexts = @ + 1]
    ELSE [c EXCEPT !.state = "ERROR", !.errors = @ + 1]

\* channel_set_state(ERROR) and belle_sip_channel_handle_error: a connection
\* that never worked, or a soft error, is tried again on the next address.
\* Either way the rest is left to a task of the main loop.
handle_error(c, soft) ==
    IF c.state = "ERROR" THEN c
    ELSE IF (c.state # "READY" \/ soft) /\ HasNext(c)
    THEN [CloseSocket(c) EXCEPT !.peer = @ + 1, !.state = "RETRY", !.nexts = @ + 1]
    ELSE [c EXCEPT !.state = "ERROR", !.errors = @ + 1]

\* channel_set_state(DISCONNECTED): the listeners are told at once, the bank and
\* the transactions let the channel go and its socket is closed.
disconnect(c) ==
    IF c.state = "DISCONNECTED" THEN c
    ELSE [CloseSocket(c) EXCEPT !.state = "DISCONNECTED", !.released = TRUE]

\* belle_sip_channel_resolve
resolve(c) == [c EXCEPT !.state = "RES_IN_PROGRESS", !.resolver = TRUE]

\* belle_sip_channel_connect with stream_channel_connect, which may fail at once
connect(c, started) ==
    LET connecting == [c EXCEPT !.state = "CONNECTING", !.pong = FALSE]
    IN  IF started
        THEN [connecting EXCEPT !.sock = "pending", !.conn = @ + 1]
        ELSE handle_error(connecting, FALSE)

-----------------------------------------------------------------------------
(* The outgoing queue.  out, busy and sent are written by these only.      *)

\* The first n messages of the queue q leave on the socket of c.  The rest of a
\* message that was begun follows; an oversized message is dropped.
Deliver(c, q, n) ==
    LET fitting == {k \in 1..n : q[k].id \notin Oversized}
    IN  \E order \in [1..Cardinality(fitting) -> fitting] :
          /\ \A i, j \in DOMAIN order : i < j => order[i] < order[j]
          /\ sent' = sent \o [i \in DOMAIN order |->
                        [id |-> q[order[i]].id, to |-> c.conn,
                         from |-> IF q[order[i]].on = 0 THEN c.conn ELSE q[order[i]].on]]

\* How many messages of q the socket of c may take before something stops it
Sendable(c, q) ==
    IF c.sock = "up" THEN 0..Len(q)
    ELSE {n \in 0..Len(q) : \A i \in 1..n : q[i].id \in Oversized}

\* Fault: a message that could not be sent is dropped on a live channel.
SendFails_Ignored(c, q, n) ==
    /\ c.sock # "pending"
    /\ q[n + 1].id \notin Oversized
    /\ chan' = c
    /\ out' = SubSeq(q, n + 2, Len(q))
    /\ busy' = FALSE

\* send() fails on message n + 1 of q: it is dropped and the channel is in error.
SendFails(c, q, n) ==
    /\ c.sock # "pending"
    /\ q[n + 1].id \notin Oversized
    /\ chan' = handle_error([c EXCEPT !.sock = IF @ = "up" THEN "broken" ELSE @], FALSE)
    /\ out' = SubSeq(q, n + 2, Len(q))
    /\ busy' = FALSE

\* send() would block on message n + 1 of q, with or without some of its bytes
\* taken: handle_ewouldblock keeps the rest and waits for the socket.
SendBlocks(c, q, n) ==
    /\ c.sock \in {"up", "pending"}
    /\ q[n + 1].id \notin Oversized
    /\ chan' = c
    /\ \E taken \in {FALSE, c.sock = "up"} :
          out' = <<[q[n + 1] EXCEPT !.on = IF taken /\ @ = 0 THEN c.conn ELSE @]>>
                     \o SubSeq(q, n + 2, Len(q))
    /\ busy' = TRUE

\* channel_process_queue with _send_message, in state READY
process_queue(c, q) ==
    \E n \in Sendable(c, q) :
        /\ Deliver(c, q, n)
        /\ \/ n = Len(q) /\ chan' = c /\ out' = <<>> /\ busy' = FALSE
           \/ n < Len(q) /\ SendBlocks(c, q, n)
           \/ n < Len(q) /\ SendFails(c, q, n)

\* Fault: a new message overtakes the one that waits for the socket.
queue_message_Overtakes ==
    /\ ~chan.released
    /\ queued < MaxMessages
    /\ queued' = queued + 1
    /\ LET q == IF chan.state = "READY" /\ busy
                THEN <<[id |-> queued + 1, on |-> 0]>> \o out
                ELSE Append(out, [id |-> queued + 1, on |-> 0])
       IN  \/ /\ chan.state = "READY"
              /\ process_queue(chan, q)
           \/ /\ chan.state # "READY"
              /\ chan' = IF chan.state = "INIT" THEN resolve(chan) ELSE chan
              /\ out' = q
              /\ UNCHANGED <<busy, sent>>
    /\ UNCHANGED expiries

\* queue_message
queue_message ==
    /\ ~chan.released
    /\ queued < MaxMessages
    /\ queued' = queued + 1
    /\ LET q == Append(out, [id |-> queued + 1, on |-> 0])
       IN  \/ /\ chan.state = "READY"
              /\ process_queue(chan, q)
           \/ /\ chan.state # "READY"
              /\ chan' = IF chan.state = "INIT" THEN resolve(chan) ELSE chan
              /\ out' = q
              /\ UNCHANGED <<busy, sent>>
    /\ UNCHANGED expiries

\* belle_sip_channel_process_data, EVENT_WRITE after an EWOULDBLOCK
SocketWritable ==
    /\ chan.state = "READY" /\ chan.sock = "up" /\ busy
    /\ process_queue(chan, out)
    /\ UNCHANGED <<queued, expiries>>

KeepQueue == UNCHANGED <<out, busy, queued, sent>>

-----------------------------------------------------------------------------
(* Name resolution.                                                        *)

\* channel_res_done: the list has length addresses (0 for a failure), and the
\* address in use is its element place (0 when it is not kept).
channel_res_done ==
    /\ Exists(chan) /\ chan.resolver
    /\ \E length \in 0..MaxPeers, more \in {FALSE, MaxExpiries > 0}, started \in BOOLEAN :
       LET answered == [chan EXCEPT !.resolver = FALSE, !.peers = length]
           \* the TTL timer is armed once the rest is done
           Armed(c) == IF more THEN [c EXCEPT !.ttl = "armed"] ELSE c
       IN  \/ /\ length = 0
              /\ chan' = handle_error([answered EXCEPT !.peer = 0], FALSE)
              /\ KeepQueue
           \/ /\ length > 0 /\ chan.peer = 0
              /\ chan' = Armed(connect([answered EXCEPT !.peer = 1], started))
              /\ KeepQueue
           \/ /\ length > 0 /\ chan.peer # 0
              /\ \E place \in 1..length :
                    process_queue(Armed([answered EXCEPT !.peer = place, !.state = "READY"]), out)
              /\ UNCHANGED queued
           \/ /\ length > 0 /\ chan.peer # 0
              /\ chan' = Armed([CloseSocket(answered) EXCEPT
                                    !.peer = 1, !.state = "RETRY", !.nexts = @ + 1])
              /\ KeepQueue
    /\ UNCHANGED expiries

\* channel_dns_ttl_timeout
channel_dns_ttl_timeout ==
    /\ Exists(chan) /\ chan.ttl = "armed"
    /\ expiries < MaxExpiries
    /\ chan' = [chan EXCEPT !.ttl = "expired"]
    /\ expiries' = expiries + 1
    /\ KeepQueue

\* belle_sip_provider_get_channel: the bank gives a channel to a new transaction,
\* and belle_sip_channel_check_dns_reusability resolves again.
get_channel ==
    /\ ~chan.released
    /\ chan.state \notin {"ERROR", "DISCONNECTED"}
    /\ chan.ttl = "expired"
    /\ chan' = resolve([chan EXCEPT !.ttl = "off"])
    /\ KeepQueue /\ UNCHANGED expiries

-----------------------------------------------------------------------------
(* The socket.                                                             *)

\* stream_channel_process_data in state CONNECTING, then
\* belle_sip_channel_set_ready
ConnectCompletes ==
    /\ chan.state = "CONNECTING"
    /\ process_queue([chan EXCEPT !.state = "READY", !.sock = "up"], out)
    /\ UNCHANGED <<queued, expiries>>

\* finalize_stream_connection fails, or the transport timeout fires first
ConnectFails ==
    /\ chan.state = "CONNECTING"
    /\ chan' = handle_error([chan EXCEPT !.sock = "broken"], FALSE)
    /\ KeepQueue /\ UNCHANGED expiries

\* The kernel connects while the channel is not in state CONNECTING any more:
\* nothing but the queue looks at it.
ConnectsUnnoticed ==
    /\ Exists(chan)
    /\ chan.sock = "pending" /\ chan.state # "CONNECTING"
    /\ chan' = [chan EXCEPT !.sock = "up"]
    /\ KeepQueue /\ UNCHANGED expiries

\* belle_sip_channel_process_read_data gets an error
ReceiveFails ==
    /\ chan.state \in {"READY", "RES_IN_PROGRESS"}
    /\ chan.sock \in {"pending", "up"}
    /\ chan' = handle_error([chan EXCEPT !.sock = "broken"], FALSE)
    /\ KeepQueue /\ UNCHANGED expiries

\* belle_sip_channel_process_read_data gets the end of the stream
PeerCloses ==
    /\ chan.state \in {"READY", "RES_IN_PROGRESS"}
    /\ chan.sock = "up"
    /\ chan' = disconnect(chan)
    /\ KeepQueue /\ UNCHANGED expiries

\* belle_sip_channel_recv: anything received cancels the wait for a pong
Receive ==
    /\ chan.state \in {"READY", "RES_IN_PROGRESS"}
    /\ chan.sock = "up" /\ chan.pong
    /\ chan' = [chan EXCEPT !.pong = FALSE]
    /\ KeepQueue /\ UNCHANGED expiries

-----------------------------------------------------------------------------
(* Keep-alive, and errors found by the transactions.                       *)

\* set_error_and_close and the body of pong_timeout
SetErrorAndClose(c) == CloseSocket(handle_error(c, FALSE))

\* send_keep_alive, on an idle channel only
send_keep_alive ==
    /\ chan.state = "READY" /\ ~chan.released /\ ~busy
    /\ \/ chan.sock \in {"up", "pending"} /\ chan' = [chan EXCEPT !.pong = TRUE]
       \/ chan.sock # "pending" /\ chan' = SetErrorAndClose(chan)
    /\ KeepQueue /\ UNCHANGED expiries

\* pong_timeout
pong_timeout ==
    /\ Exists(chan) /\ chan.pong
    /\ chan' = [(IF chan.state = "READY" THEN SetErrorAndClose(chan) ELSE chan)
                    EXCEPT !.pong = FALSE]
    /\ KeepQueue /\ UNCHANGED expiries

\* belle_sip_channel_notify_server_error, called while a response is read, and
\* belle_sip_channel_notify_timeout
SoftError ==
    /\ ~chan.released
    /\ \/ chan.state = "READY"
       \/ chan.state = "RES_IN_PROGRESS" /\ chan.sock = "up"
    /\ chan' = handle_error(chan, TRUE)
    /\ KeepQueue /\ UNCHANGED expiries

\* belle_sip_channel_force_close and channel_inactive_timeout
Disconnect ==
    /\ Exists(chan) /\ chan.state # "DISCONNECTED"
    /\ chan' = disconnect(chan)
    /\ KeepQueue /\ UNCHANGED expiries

-----------------------------------------------------------------------------
(* The deferred tasks of the main loop.                                    *)

\* channel_notify_error_to_listeners
notify_error_to_listeners ==
    /\ chan.errors > 0
    /\ LET done == [chan EXCEPT !.errors = @ - 1]
       IN  chan' = IF chan.state = "ERROR"
                   THEN [CloseSocket(done) EXCEPT !.released = TRUE]
                   ELSE done
    /\ KeepQueue /\ UNCHANGED expiries

\* Fault: the channel may have been closed in between.
connect_next_AlwaysConnects ==
    /\ chan.nexts > 0
    /\ \E started \in BOOLEAN :
          chan' = connect([chan EXCEPT !.nexts = @ - 1], started)
    /\ KeepQueue /\ UNCHANGED expiries

\* channel_connect_next
connect_next ==
    /\ chan.nexts > 0
    /\ \E started \in BOOLEAN :
       LET done == [chan EXCEPT !.nexts = @ - 1]
       IN  chan' = IF chan.state = "RETRY" THEN connect(done, started) ELSE done
    /\ KeepQueue /\ UNCHANGED expiries

-----------------------------------------------------------------------------
Tasks == notify_error_to_listeners \/ connect_next

Socket == ConnectCompletes \/ ConnectFails \/ ConnectsUnnoticed \/ ReceiveFails
             \/ PeerCloses \/ Receive \/ SocketWritable

Next == \/ queue_message \/ get_channel \/ send_keep_alive \/ SoftError \/ Disconnect
        \/ channel_res_done \/ channel_dns_ttl_timeout \/ pong_timeout
        \/ Socket \/ Tasks

Spec == Init /\ [][Next]_vars

\* The main loop runs its tasks, the resolver answers or gives up, and a
\* connection attempt ends, at the latest with the transport timeout.
FairSpec == /\ Spec
            /\ WF_vars(notify_error_to_listeners) /\ WF_vars(connect_next)
            /\ WF_vars(channel_res_done)
            /\ WF_vars(ConnectCompletes \/ ConnectFails)

-----------------------------------------------------------------------------
(* Properties.                                                             *)

TypeOK == /\ chan \in Channels
          /\ out \in Seq(Messages)
          /\ busy \in BOOLEAN
          /\ queued \in 0..MaxMessages
          /\ sent \in Seq(Deliveries)
          /\ expiries \in 0..MaxExpiries
          /\ chan.peer <= chan.peers

\* Somebody will move a channel that is neither ready nor closed: a resolution, a
\* deferred task or a socket is there for the state it waits in, and a queue
\* that waits in state READY waits for a socket that can become writable.
NeverStuck ==
    /\ chan.state = "RES_IN_PROGRESS" => chan.resolver
    /\ chan.state = "RETRY" => chan.nexts > 0
    /\ chan.state = "CONNECTING" => chan.sock = "pending"
    /\ chan.state = "ERROR" /\ ~chan.released => chan.errors > 0
    /\ chan.state = "READY" /\ out # <<>> => busy /\ chan.sock \in {"up", "pending"}

\* Messages leave in the order they were queued, none of them twice, whatever
\* the number of connections it takes; only the first message of a connection
\* may be the rest of one that an earlier connection began.
InOrderOnce ==
    /\ \A i, j \in 1..Len(sent) :
          i < j => sent[i].id < sent[j].id /\ sent[i].to <= sent[j].from
    /\ \A i \in 1..Len(sent), j \in 1..Len(out) : sent[i].id < out[j].id

\* A message that was queued and is neither sent nor waiting is lost with its
\* channel, unless it could not be marshalled: _send_message drops a message
\* whose send() fails, and the listeners hear of the failure.
NoSilentLoss ==
    \A id \in (1..queued) \ Oversized :
        \/ \E i \in 1..Len(sent) : sent[i].id = id
        \/ \E j \in 1..Len(out) : out[j].id = id
        \/ chan.state \in {"ERROR", "DISCONNECTED"}

\* A channel that resolves, connects, retries or has failed becomes ready or is
\* closed in the end.
Settles ==
    chan.state \in {"RES_IN_PROGRESS", "CONNECTING", "RETRY", "ERROR"}
        ~> chan.state = "READY" \/ chan.released

\* What a transaction sees of the channel c
ViewOf(c) ==
    CASE c.state = "INIT" -> "NONE"
      [] c.state \in {"RES_IN_PROGRESS", "CONNECTING", "RETRY"} -> "CONNECTING"
      [] c.state = "READY" -> "READY"
      [] c.state = "ERROR" /\ ~c.released -> "ERROR"
      [] OTHER -> "CLOSED"

View == ViewOf(chan)

Abstract == INSTANCE ChannelView WITH view <- View

\* The channel behaves as the transactions' models assume.
ImplementsView == Abstract!ViewSpec
=============================================================================
