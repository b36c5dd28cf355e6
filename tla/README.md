# Formal model of the signalling core of linphone-sdk

linphone-sdk is a VoIP client stack: `liblinphone` (calls, chat, conferences,
accounts) over `belle-sip` (SIP signalling), `mediastreamer2` and `ortp`
(media), `bzrtp` and `lime` (encryption) and `bctoolbox` (utilities). Every
call, registration, message and subscription goes through belle-sip: its
transactions, where timers, retransmissions, lost channels and application
callbacks meet; its dialogs, which order the requests of a call; its refreshers,
which keep registrations alive; its channels, where name resolution, connections
and a queue of messages meet; and the main loop that drives them all. The keys of
an encrypted call are agreed by `bzrtp`. This project models these parts in TLA+,
checks them with TLC and proves their main properties with TLAPS.

## 1. Inventory

| Component | State | Operations | Works with |
|---|---|---|---|
| client transactions `nict.c`, `ict.c` | state, timers E F K / A B D M, channel, last response, ACK | send request, receive response, timers, stop retransmissions, terminate | provider, channel, application callbacks |
| server transactions `nist.c`, `ist.c` | state, timers J / G H I L, channel, last response | new, send response, receive retransmission, receive ACK, timers | provider, channel, application |
| `transaction.c` | call repair timer, `timed_out` flag | terminate, handle channel error, notify response / timeout / I/O error | all of the above |
| `provider.c` | lists of transactions and dialogs | dispatch request / response, match, re-bind, create transactions | channel listeners, application |
| `channel.c` | state, outgoing queue, peer addresses | connect, retry, error, disconnect, queue and send | main loop, resolver, listeners |
| `dialog.c` | state, CSeqs, `needs_ack`, last transaction, queued transactions, timer of the 200 | update, ACK, queue transactions, delete, exhume | transactions, provider, main loop |
| `refresher.c` | transaction, timer, target expiry, state, flags | refresh, retry, stop, manual mode, listener of the transaction | transactions, dialog, main loop, application |
| `belle_sip_loop.c` | sources, timers ordered by expiry, control pipe | iterate, do later, cancel, remove, set timeout, quit | every component, other threads |
| `bzrtp`: `stateMachine.c`, `bzrtp.c`, `zidCache.c` | per channel: state, role, timer, keys; per call: retained secrets, flags; per peer: cache row | start, iterate, process a packet, verify the SAS, add a channel | media thread, RTP socket, ZID cache |

Hard behaviours: a callback of the application may end the transaction or close
its channel in the middle of a handler; the end of a channel reaches its
listeners at once in one case (DISCONNECTED, RETRY) and from the main loop in
another (ERROR); armed timers survive the state they were armed for; UDP loses,
duplicates and reorders; an INVITE survives the loss of its channel for a while
(call repair) and is bound to another one; a REGISTER turns a timeout or a
500/503 into an error of the channel; the next request of a dialog is sent by a
task that runs later than the event that allowed it; a callback of the main loop
changes the sources of the iteration it runs in, while another thread hands over
a task; a refresher is stopped, or refreshed again, from inside its own listener;
only one side of a ZRTP handshake retransmits, and the two sides renew their
caches one packet apart.

What makes these parts correct: a request that left always has something that
will end it; its application hears one outcome and one end; the server
application sees a request once and its answer does not change; a transaction
whose channel is gone never uses it; requests of a dialog go out in order, none
forgotten; no wakeup is lost; a registration is never given up in silence; two
engines with keys have the same keys; everything is eventually released.

`PROJECT.json` lists the components that are not modelled, with the reason, and
the hazards, each at its line.

## 2. Modules

| Module | Models | State and actions |
|---|---|---|
| `NonInviteTransaction` | `nict.c`, `nist.c`, `transaction.c`, the transaction part of `provider.c`, the channel as a transaction sees it | one request between a client and a server |
| `NonInviteTimed` | the same with the durations of the timers | extends the first; `Tick` is the clock |
| `InviteTransaction` | `ict.c`, `ist.c`, `transaction.c` with call repair, the same part of `provider.c` | one INVITE between a caller and a called side |
| `Channel` | `channel.c` with the TCP transport `stream_channel.c`, and what `provider.c`, `channel_bank.cc` and `listeningpoint.c` do to it | one outgoing channel, its queue, its resolver and its deferred tasks |
| `ChannelView` | the channel as the transaction modules see it | abstract; `Channel` implements it |
| `Dialog` | `dialog.c` for a call, with the dialog part of `transaction.c` and `provider.c` | one dialog seen from one end, its transactions, its queue and the task that empties it; the peer and the network are the environment |
| `MainLoop` | `belle_sip_loop.c` | one loop thread whose `pc` walks through an iteration, its callbacks, and another thread |
| `Refresher` | `refresher.c` with the part of `nict.c` and `transaction.c` that calls it | one refresher, the transaction it owns and the application |
| `Zrtp` | `bzrtp/src/stateMachine.c` and `bzrtp.c` | two engines, the packets between them and their caches, over several calls |
| `NonInviteProofs` | - | theorems about `NonInviteTransaction` |
| `NonInviteTimedProofs` | - | theorems about `NonInviteTimed`; extends the one above |
| `InviteProofs` | - | theorems about `InviteTransaction` |
| `ChannelProofs` | - | theorems about `Channel` |
| `DialogProofs` | - | theorems about `Dialog` |
| `MainLoopProofs` | - | theorems about `MainLoop` |
| `ZrtpProofs` | - | theorems about `Zrtp` |
| `RefresherProofs` | - | theorems about `Refresher` |

`ChannelView` joins the two levels: its states and steps are those of the field
`chan` in `NonInviteTransaction` and `InviteTransaction`, and `Channel` is shown
to implement it under the mapping `ViewOf`.

### How the state corresponds to the code

`client` and `server` are records of the C objects: `state`, `timers` (the
timer sources that are armed), `bound` (`base->channel` is not NULL),
`timed_out`, `last` (`last_response`). `chan` is the state of the channel the
client was given: NONE before `send_request`, CONNECTING for everything before
READY, ERROR from `channel_set_state(ERROR)` until the deferred notification of
the listeners, CLOSED afterwards. The other fields count what the application
was told (`finals`, `failures`, `timeouts`, `ioerrors`, `ends`) or record
history (`final`, `success`, `cause`, `dropped`, `nullUse`). `answers` is a
history of the final responses that left, per incarnation of the server
transaction.

The network is a set of the messages in flight. All copies of a message are
alike, so one flag (`requests`, `invites`, `acks`) or one membership
(`responses`) stands for any number of copies: receiving either consumes the
last copy or, without a reliable transport, leaves one more. `Lose` drops a
message. Over a reliable transport nothing is lost or duplicated.

An action is a whole handler. The steps a handler takes in order, with the
callback of the application in the middle, are operators on the record
(`nict_set_completed` calls `notify_response`, which calls `React`, and then
arms timer K), so an application that ends the transaction or closes the
channel inside its callback (`Reactions`) does so where the code lets it.

In `Channel`, `chan` is the C object: `peer` and `peers` are `current_peer` and
`peer_list` as positions, `resolver` is `resolver_ctx`, `ttl` is the timer and
flag of the TTL, `pong` the timer that waits for a pong, `sock` and `conn` the
socket (broken: an error was seen and the socket is not closed yet), `errors`
and `nexts` the pending calls of `channel_notify_error_to_listeners` and
`channel_connect_next`, each of which holds a reference. `out` is
`cur_out_message`, when `busy`, followed by `outgoing_messages`; a message keeps
the connection its first bytes left on. RES_DONE is passed through inside
`channel_res_done` and is no state of its own. The test of `soft_error` and its
reset happen in one call, so it is a parameter of `handle_error`.

In `Dialog` the record `d` is the C object, with the pending call of
`_belle_sip_dialog_process_queue` as a flag (`scheduled`) and `listed` for its
place in the provider; `t` holds the transactions with what `dialog.c` reads of
them, and `oks` and `acks` the 200s and ACKs on the wire. One `needs_ack` serves
both directions, as in the code.

In `MainLoop` the record `m` is `belle_sip_main_loop_t`: the linked sources, the
map of timers ordered by expiry, `nsources`; a source has the flags of the code
(`cancelled`, `expired`, `revents`) and a reference count. An iteration
is split where the code releases the mutex, calls back or waits: computing the
timeout, building the poll table, polling, collecting what is to be notified,
each callback.

In `Refresher` the record `w` is `belle_sip_refresher_t`, with the purpose of the
armed timer, and its transaction (`tx`). A listener method of the code is an operator
on the record that ends in the listener of the application, which may stop or
refresh (`React`).

In `Zrtp` a channel is its state function, role, timer and keys; a context the
secrets read from the cache and the flags `cacheMismatchFlag`, `pvs`, `peerPVS`,
`isSecure`. A secret is the number of the call that made it, and a key is what
went into it: who was initiator (of this channel and of the main one) and which
retained secret was mixed in.

### Abstractions

* A message is its status code; headers, branches and tags are matched already.
* The dialog is left out of the transaction modules: `notify_response` always
  notifies. In the code a dialog may absorb the retransmission of a 2xx, which notifies less.
* A connection attempt that moves on to the next address while the request has
  not left (RETRY in state INIT) changes nothing a transaction sees.
* A response of the application for which the provider finds no channel changes
  nothing, and is a stuttering step. The call repair timer is different: it is
  consumed whether or not its 503 found a channel (`transaction.c:112-116`), which
  is the second way of `ServerRepairTimer`. The history field `gaveUp` remembers it.
* `Rebind` gives an INVITE the channel the provider finds, or none: then the
  response that needed it is dropped (`provider.c:288-318`). A channel that is found
  is taken to be READY, since the response has just come in through the same
  listening point. It may in fact still have to connect, in which case the ACK
  is queued until it does.
* In `Channel` an answer of the resolver is its length and the place of the
  address in use, so both policies of `reconnect_to_primary_asap` are covered. A
  numeric address, whose answer comes inside `belle_sip_stack_resolve`, is an
  answer that comes in the next step.
* A handler of the channel calls its listeners in the middle (a transaction sends
  its request while READY is notified); these calls queue behind what is in the
  queue and are the next steps of the model. One read delivers at most one
  server error.
* `tx_delay`, `send_error` and `simulated_recv_return` simulate a bad network in
  the tests and are left out. The parser of incoming bytes is not modelled:
  `Receive` is any input, and what a transaction makes of it is `SoftError`.
* `suspect` in `notify_timeout` stands for the test that the channel received
  nothing for a minute; both outcomes are explored.
* In `Dialog` the headers, route sets and tags are left out, and the answer to a
  request other than INVITE and BYE is 200. An INVITE or a BYE gets any code, a
  provisional one included. The transactions end as the transaction modules say
  they do; the application does not terminate a request that waits in the queue
  (see the deviations).
* In `MainLoop` time is a counter; the contract the code assumes is respected:
  other threads only call `do_later`, sources are added outside an iteration or
  by callbacks, and a callback that removes its own source returns STOP. The map of
  timers is the multimap of `bctoolbox` (`map.cc`): `Insert` puts a key behind its
  equals, `Erase` removes one entry.
* In `Refresher` delays are left out (a timer is armed or not), and realms and
  the lists of credentials are one choice: credentials are there or not.
* In `Zrtp` the packets of a sender arrive in order. This is no restriction:
  `bzrtp_packetCheck` discards a packet that is not newer than the last one taken,
  and a refused packet leaves no trace, so that reordering and repetition amount
  to loss. The count of a stopped timer is
  never read and is cleared. A second channel is added once the main one is secure on both sides.

## 3. Runs

All runs say `CHECK_DEADLOCK FALSE`: a transaction or a dialog that ended with an
empty network, a channel that was closed, a loop that was told to quit, a
stopped refresher and a secure channel are where the system stops.

| Run | Question | Bounds |
|---|---|---|
| `noninvite_udp` | safety and liveness of a non-INVITE request over UDP | codes 100, 200, 503; two incarnations of the server |
| `register_closed` | is the channel safe in a REGISTER callback? It is not (finding 1) | one incarnation |
| `noninvite_timed` | at most one delivery, the same answer on both sides, bounded life and retransmissions | T1 = 1, T2 = 8, T4 = 10 ticks; messages take less than one tick |
| `invite_udp` | safety and liveness of an INVITE with call repair | codes 180, 200, 486 and the 100, 503 the stack sends; one lost channel on each side; two incarnations |
| `invite_tcp` | failures and successes of several branches over breaking connections, any application | two lost channels on each side |
| `channel_tcp` | does the channel keep what transactions assume of it, lose nothing silently, and settle? | 3 addresses, 3 messages of which one is too large, no TTL |
| `channel_ttl` | with resolutions beside everything else, is it ever stuck, and does it reorder or repeat? | 2 addresses, 3 messages, 2 expiries of the TTL |
| `dialog` | are all queued requests sent, in order, and does a BYE end the dialog? | codes 180, 200, 481, 486, for BYEs too; three requests of the application and the peer, and one BYE the dialog sends by itself |
| `mainloop` | is a wakeup, a task or a source ever lost or used after its removal? | one timer, one descriptor, two tasks, two ticks, one change of the sources by a callback |
| `refresher` | is a registration ever given up in silence, and a stopped one revived? | REGISTER, PUBLISH and SUBSCRIBE; one code for each case of the listener |
| `refresher_stop` | does stop end what is pending? Not a delayed PUBLISH (finding 2) | the same |
| `zrtp` | do both sides get the same keys, keep their caches together, and finish? | three calls; one lost packet per channel; a second channel and a reset timer in the first call; limits 1 and 0 instead of 20 and 10 |

One code of each class that the code tells apart is enough: it compares codes
with 200 and 300 and with 500 and 503; the dialog tells 481 from other failures;
the refresher has a case for each code of its configuration. Two incarnations of
the server transaction are needed for a late copy of a request to be delivered
again. The counters are bounded by the properties themselves (`OneOutcome`),
except `ioerrors` of an INVITE, which `MaxFailures` bounds. In `noninvite_timed`
the proportions are those of `sipstack.c` (500, 4000 and 5000 ms), so the 11
copies of `BoundedEffort` are the copies the code sends. For the channel, two
addresses are needed for a retry and a third for a retry of a retry; two
messages for an order and a third for one in the middle that is dropped; two
expiries for an answer that finds the consequences of another one. In the
dialog, three requests are one under way and two queued behind it. In the main loop two tasks make an order, and a task of each thread a race.
In `zrtp` three calls are one that both sides finish, one that only one side
finishes, and the one that must cope; a limit of 1 for Hello lets each be sent
twice, once more than the network loses.

### Fairness

The main loop serves every expired timer and every deferred task, so the timers
that end something (F, K, J; B, D, M, H, I, L and call repair) and the deferred
notification of a channel error are weakly fair. Nothing is assumed of the
network, of the applications, of the channel or of the timers that only
retransmit (E, A, G).

For the channel, the deferred tasks are fair for the same reason; the resolver
answers or times out; and a connection attempt ends, because
`stream_channel_connect` gives the socket the transport timeout
(`sipstack.c`, 63 s). Nothing is assumed of a socket that blocks, of the peer or
of the application.

For the dialog, the tasks and timers of the main loop are weakly fair, every
transaction ends (which the transaction modules check), and an ACK that answers
a repeated 200 is delivered in the end if it is sent again and again (strong
fairness). For the main loop, its thread goes on, and `poll` returns when
something is ready; a signal does not interrupt every `poll` (strong fairness).
For the refresher, a channel that connects becomes ready or fails, and timers F
and K fire. For ZRTP, the media thread of each side polls its engine and reads
its socket, and both sides start.

### What the runs show

* `NeverStranded` (an INVITE without a channel has the repair timer, a refused one
  timer H): something always ends the wait. The exception is a server transaction
  whose repair timer found no channel for the 503 (`gaveUp`); nothing else leads there.
* `OneOutcome`: the application hears one outcome, then one end. The exception is
  a REGISTER that blamed its channel: it may hear a late answer and the timeout.
* `ConsistentAnswer`, `AgreedAnswer`, `NoFailureAfterSuccess`: the two sides do not
  contradict themselves or each other.
* `AtMostOnceDelivery`, `BoundedEffort`: with real durations and a server that keeps
  its channel, one request is executed once and answered the same, after a
  bounded number of copies and a bounded life. Without durations
  (`noninvite_udp`) the second delivery does happen.
* `ClientEnds`, `ServerReleased`: everything ends, a server that gave up excepted.
* `ImplementsView`, `NoSilentLoss`, `Settles`: without a TTL the channel is what the
  transactions take it for. A message is lost only with its channel, or when it
  does not fit the marshalling buffer.
* `NeverStuck`, `InOrderOnce`: these hold with a TTL too. `ImplementsView` does
  not, because an answer that comes between a failure and its deferred
  notification takes the channel from ERROR back to READY, and because of the
  TTL deviation below.
* `InSubmissionOrder`, `NoLostWakeup`, `QueueDrains`, `ByeEnds` of the dialog: queued
  requests leave in order; whenever the dialog is free and its queue is not
  empty, the task that sends the next one is scheduled; the queue drains or ends
  with the dialog; and a BYE ends it, answered or not, unless a provisional
  response is all it got (`HalfAnsweredBye`). `QueueDrains` excludes the
  deviation below, in which the lost ACK is never asked for again.
* `SourcesSound`, `PollTableFits`, `NoLostWakeup`, `TasksServed` of the main loop: no
  callback for a source that is gone, no reference leaked or dropped too early,
  room in the poll table, no sleep past a deadline, each task once and in order.
* `NeverAbandoned`, `QuietOnceStopped`, `PublishesInSequence`, `DelayedPublishSent`: a
  started refresher has a transaction or a timer, unless its last failure is one
  of those the code reports without a retry (or does not report at all, see the
  deviations); a stopped one sends nothing, except in finding 2; PUBLISHes do not overlap, and a
  delayed one is tried when its turn comes. A cleared flag does not satisfy the
  property: it asks for a fresh transaction that has a channel, or that ended
  because there is none.
* `TypeOK` of ZRTP: no timer repeats a Hello, or another packet, more often than
  the limit of that packet; each state has its own bound (`MaxCount`).
* `SameKeys`, `HandshakeCompletes`: whoever wins the contention and whatever the
  caches hold, both engines get the same keys and both finish, if a packet is not
  lost every time it is sent.
* `OneHalfIsHarmless`, `VerifiedMeansContinuity`: a call whose end one side did not see
  costs nothing, because the older secret is kept; and the user is told "verified"
  only if the keys go on from a secret of both.

### Findings

1. `transaction.c:657` follows `base->channel` after the listener ran. If the
   listener of a REGISTER answered 500 or 503 closes the channel, the pointer is
   NULL. `nict.c:39` warns of exactly this.
2. `refresher.h:58` says of stop that a pending transaction "will be terminated".
   `refresher.c:866-881` terminates it while the refresher still counts as started,
   so that a delayed PUBLISH is sent from `process_transaction_terminated`.

### Known deviations without a run

Met while modelling. Each is part of the model's behaviour, unless its entry says
otherwise; a property that meets one names it as its exception.

* The call repair timer is not stopped when an INVITE gets a new channel
  (`transaction.c:118`), so it may end an accepted transaction before timer M
  (`ict.c:100`).
* The call repair timer of a server transaction is consumed although no channel was
  found for its 503 (`transaction.c:112-116`, `391`): the transaction stays PROCEEDING
  with neither channel nor timer (`NeverStranded`, `ServerReleased`).
* `ist.c:146` says that a further 2xx in ACCEPTED goes to the transport; nothing
  sends it. Timer H ends without telling the application (`ist.c:73`, a FIXME).
* `channel.c:1780` resolves again in any state when the TTL runs out, and the
  answer sets READY, also over a socket that is pending or gone, which
  `stream_channel.c:267` takes to be connected.
* A soft error sends a READY channel to its next address with the rest of a
  half-sent message, and the new connection starts with that rest
  (`channel.c:1144`).
* `set_timeout` on a source that expired in the same iteration has no effect
  before its callback (`belle_sip_loop.c:474`), where `channel.c:830` expects a new
  period. `NoLostWakeup` takes over the deadline of a restart and does not judge it.
* A BYE that is answered 1xx and then times out does not end the dialog, because its
  code is neither 0 nor final (`dialog.c:750`). The RFC quoted above that line wants
  the dialog terminated when the transaction times out (`ByeEnds`).
* A re-INVITE that arrives before the ACK of a 200 stops the repetition of that
  200 (`provider.c:171`, `dialog.c:354-365`); if the ACK was lost, queued requests
  wait until the dialog ends (`QueueDrains`, by `AckGivenUp`). The same branch skips `can_accept_request`, so two
  INVITEs may be pending although `dialog.c:1346` says they come one at a time.
* In the dialog: a late 200 brings a deleted dialog back (`dialog.c:602`); a second
  BYE is possible (`dialog.c:368`).
* Outside the model: when the application terminates a request that waits in the
  queue, the dialog takes it for its last transaction (`dialog.c:615`) although
  another may be under way, and an early dialog is deleted. The task then pops it and
  `transaction.c:504` refuses it without another update, so that the requests behind
  it wait for the next one, where `dialog.h:71` says that they are sent when the
  dialog becomes available.
* In the main loop: `nsources` grows with each `set_timeout(-1)`; `expired` stays set
  after STOP; a callback that removes its own source and returns CONTINUE inserts
  it again.
* In the refresher: `will_retry` is reported TRUE without a timer for a 401 without
  credentials, a redirection without Contact and a 404, 480 or 500 without
  Retry-After; `on_io_error` is raised after the listener ran (`refresher.c:183`), so that
  a listener that refreshes there finds it set, and an error of its new request
  is neither reported nor retried (`NeverAbandoned`); `contact_fixing` is never reset; `refresh(0)` during a PUBLISH is
  overwritten by the expiry of its answer; the result of the refresher's own
  refresh is ignored, so that a delayed PUBLISH without a channel is lost
  (`DelayedPublishSent`); `refresher.c:169` relies on an error that a COMPLETED
  transaction does not report; manual mode still resubmits after 401 and 423.
* In ZRTP: two calls in a row whose end only one side saw lead to a cache mismatch,
  since an update erases the secret that matched when it was rs2
  (`stateMachine.c:2779`). A Hello received while sending Commit is refused, though
  the comment of the state promises a HelloACK, so a lost HelloACK is only made
  up for by the Commit. `bzrtp_resetRetransmissionTimer` does nothing for an engine
  that waits for a Hello. The test before DHPart1 (`stateMachine.c:430`) names
  preshared mode twice and multistream never.

## 4. Proofs

`NonInviteProofs` proves, for every set of status codes, every transport, method
and reaction and any number of deliveries:

* `TypeCorrect`: `Spec => []TypeOK`
* `ClientSafety`: `Spec => [](WatchdogArmed /\ OneOutcome /\ NoSilentEnd)`
* `ChannelSafety`: `Spec => []NoNullChannelUse`, assuming that the request is not a
  REGISTER or that the application does not close the channel in its callback
  (finding 1 is why the assumption is needed)
* `AnswerSafety`: `Spec => []ConsistentAnswer`
* `RetransmissionSafety`: `Spec => NoLateRetransmission`

None of them is inductive. The inductive invariant of the client, `Sane`, adds
to its type what the counters mean in each state: nothing was reported before the
outcome is known (`Silent`), a client that waits has a channel, and timer F or a
pending error of that channel (`Channelled`), the outcome was reported when the
state says so (`Reported`), and no NULL channel was used (`Guarded`). `OneOutcome`
needs the first three: a channel error adds a report only in a state where `Silent` says
there is none yet. The answers need `Committed` (a live server transaction's
`last` is the answer in the history once it is COMPLETED, and no answer of a later
incarnation exists) and `HeardAnswer` (final codes in flight, and the one heard,
come from the history).

The handlers are compositions of operators on one record, so the proofs have a
lemma per operator that says what it does to each field, and the invariance
proofs have one step per action that cites them. The assumptions are those of
the module: codes are numbers, the modes are Booleans, the reactions are the
known ones.

`NonInviteTimedProofs` proves, for every T1 and T4, every set of status codes, both
transports, every method and any losses:

* `TimedIsUntimed`: `TimedSpec => Spec`, so that the theorems above hold with the
  real durations
* `EffortBounded`: `TimedSpec => []BoundedEffort`, assuming `T2 = 8 * T1`
* `DeliveredOnce`: `TimedSpec => []AtMostOnceDelivery`, assuming that `T2` is an even
  multiple of `T1` and that `Delay < T1`

The defaults (`sipstack.c:192`: 500, 4000 and 5000 ms) satisfy both assumptions on
`T2`. Each step is a tick, the departure of the request, a copy of it by timer E, or
takes no time and sends no copy (`StepKinds`), which reduces the
disjuncts of `TimedNext` to four. `Timely` says that timer F and the age of the
request make up 64 * T1, and what timer K leaves to a completed transaction.
`Paced` gives the earliest time at which each copy can be followed by the next:
after the eleventh it is 71 * T1, when timer F has fired.
`DeliveredOnce` rests on a fact about parity: while `T2` is an even multiple of
`T1`, timer E fires at odd multiples of `T1` only (`Spaced`), whether or not a
provisional response moves its interval to `T2` early, and so never in the last
`T1` before timer F. Hence every copy has left the network when timer J can fire
(`Outlived`): timer J has more left than any copy in flight, and together with the age
of the request it has at least 64 * T1. The assumption is needed. With `T2 = 3 * T1`
TLC finds the request delivered twice: timers E, F and J expire in the same tick and
the last copy leaves after the server is gone. `Delay < T1` is needed because the
copy at 63 * T1 has `T1` left to arrive.

`ChannelProofs` proves, for any number of addresses and messages:

* `ChannelNeverStuck`: `Spec => []NeverStuck`, for any number of expiries of the TTL
* `ChannelImplementsView`: `Spec => ImplementsView`, assuming `MaxExpiries = 0`
  (section 3 says why the assumption is needed)
* `TypeCorrect`: `Spec => []TypeOK`
* `DeliverySafety`: `Spec => []InOrderOnce`
* `LossSafety`: `Spec => []NoSilentLoss`, assuming `MaxExpiries = 0`

`NeverStuck` with the type of the channel record (`StuckInv`) is inductive; the
argument is that `handle_error` schedules a task whenever it changes the state and
`connect` leaves a pending socket or a handled error (`Handled`, `Attempted`). The
refinement needs `Quiet` as well: without a TTL the only resolution is the first,
no socket and no task exist beside it, and only a failed or closed channel is
released. From it each step of the channel is a step of the view or none
(`Allowed`).

The order of the messages is a fact about the queue and its history together
(`InLine`): numbers increase along both, what left is older than what waits, only
the message in front may have begun to leave, and a message that began on one
connection is finished on that one or a later one. `InOrderOnce` alone says nothing of the
queue, from which the next message leaves. A visit of the queue ships some of the
messages that fit and keeps or drops the rest (`Shipped`, `Left`), and that keeps
`InLine` whichever they are (`ShippedInLine`). `LossSafety` needs no TTL because the
answer to a resolution that the TTL started can bring a failed channel back to
READY; the refinement's invariant says that nothing else does.

`InviteProofs` proves, for every set of status codes, both transports, with and
without forking, any reactions and any number of channel failures and deliveries:

* `TypeCorrect`: `Spec => []TypeOK`
* `StrandingSafety`: `Spec => []NeverStranded`
* `OutcomeSafety`: `Spec => []OneOutcome`
* `AnswerSafety`: `Spec => []AgreedAnswer`
* `SuccessIsLasting`: `Spec => NoFailureAfterSuccess`

The inductive invariant has a part per side. `ClientSane` says what the caller was
told in each state (`Told`) and which timers watch over it (`Watched`): a client
that loses its channel is safe only because timer B or the repair timer was
there before. `ServerSane` does the same for the called side: its
only unwatched state without a channel is the one in which the repair timer gave
up, and `StrandingSafety` says so. The rest joins them:
`Recorded` (only incarnations that exist have answered, and one in PROCEEDING has
not), `Traced` (each final response that is in flight, repeated or heard was
answered by somebody) and `Acknowledged` (an ACK comes from a client that was
told of the failure). That a caller does not hear both a failure and a success is
a fact about the called side: it follows from `Traced` and the single answer of
`Recorded`, and from neither record alone.

`RefresherProofs` proves, for every set of methods and codes and whatever the
application calls from its listener:

* `TypeCorrect`: `Spec => []TypeOK`
* `RefreshSafety`: `Spec => []NeverAbandoned`
* `StopSafety`: `Spec => []QuietOnceStopped`
* `SequenceSafety`: `Spec => []PublishesInSequence`

The invariant of the record adds to these that only a subscription has a dialog and
only a publication is delayed (`InSequence`), and that a refresher stopped by the
application is in state `stopped` (`Hushed`). `NeverAbandoned` does not hold in the
middle of a handler, where the old transaction is over and the new one not yet
sent; there the lemmas use `Covered`, which also accepts a delayed publication or
a fresh transaction.

`DialogProofs` proves, for every set of codes and any number of requests:

* `TypeCorrect`: `Spec => []TypeOK`
* `WakeupSafety`: `Spec => []NoLostWakeup`
* `OrderSafety`: `Spec => []InSubmissionOrder`

All three are about `Spec`, whose application terminates no queued request.
`NoLostWakeup` needs `Live` (a transaction under way is linked to the dialog, which
therefore hears of its end), and `Live` needs to know of the queue that its
requests have not begun and are not `last_transaction`, which a BYE supersedes
(`Waiting`). `InSubmissionOrder` needs that transactions are numbered as they are
created (`Allotted`), that the queue is ordered, and that no CSeq given to a
queued request exceeds `local_cseq` (`Departed`). What the functions of `dialog.c`
may do to all this is stated once (`Follows`): they end transactions, and leave
the queue alone or empty it and terminate what was there.

`MainLoopProofs` proves, for any number of sources, tasks and timeouts and any
number of changes by the callbacks:

* `TypeCorrect`: `Spec => []TypeOK`
* `SourceSafety`: `Spec => []SourcesSound`
* `PollTableSafety`: `Spec => []PollTableFits`
* `WakeupSafety`: `Spec => []NoLostWakeup`

The invariant (`Sound`) says of the map that it is sorted and holds a source once
(`Table`), of each source that its references are its owner and its places and
what must hold while it is to be notified or after it ran (`Kept`), of each key
that it is the deadline unless the source is cancelled or expired (`Timely`), and
of the list that only a descriptor can be there twice (`Single`). `PollTableFits`
rests on the fact that `nsources` is never less than the number of registered
sources; it may be more. Each function of `belle_sip_loop.c` edits one source and
its place in the map (`Edits`), so `EditSound` carries the argument and the
functions differ in the edit. The module also holds the lemmas about sequences
that this takes: inserting into and cutting from a sorted sequence, counting
occurrences, numbering a finite set of indices.

`ZrtpProofs` proves, for any number of calls, retransmissions and losses:

* `TypeCorrect`: `Spec => []TypeOK`
* `KeySafety`: `Spec => []SameKeys`
* `MismatchSafety`: `Spec => []OneHalfIsHarmless`
* `ContinuitySafety`: `Spec => []VerifiedMeansContinuity`

The invariant says of each peer what its state implies about its role, keys, context
and row of the cache (`Own`), and of the two how far one may be ahead of the other
(`Abreast`), which keys each has (`KeysOf`) and which secrets they began the call
with (`Bond`). Every packet under way says something of its sender that later steps
of the sender do not take back (`Justified`), which is why two engines cannot both
become responders: a Commit of a responder was sent by the loser of the contention.
That both derive the same keys rests on `MatchDHPart1` and `MatchDHPart2` choosing
the same secret of the four identifiers (`Agreed`, by `InitiatorMatches` and
`ResponderMatches`), and this in turn on an older secret never being present without
a newer one. `Bond` carries the caches over calls: it tells two peers that renewed
together (`Lucky`) from two of which one renewed alone once since (`Harmless`), and
in either case a secret is in common when the next call begins (`Inherited`). A
step changes the records of one peer, so the invariant is stated on records and
each way a record may change is a lemma (`AlikeGood` to `UnverifiedGood`), which
the handlers cite.

The bound on the count of a timer in `TypeOK` has an invariant of its own
(`WithinLimits`): a firing repeats a packet only below the limit of the state
(`FiredCounted`), and a handler that changes to a state with another limit clears the
count or stops the timer (`HandlerRewinds`).

The inductive invariants were checked with TLC, as invariants of the runs' own
instances, before they were proved. The proofs use the assumptions stated in the
modules and no others, apart from the hypotheses of the five theorems named above
(`ChannelSafety`, `EffortBounded`, `DeliveredOnce`, `ChannelImplementsView`,
`LossSafety`).

Only model-checked: liveness under fairness (`ClientEnds` and the like, and
`TasksServed` of `MainLoop`), which is out of the prover's reach. Every invariant of the
passing runs is stated by a theorem.

## 5. Plan

Candidates for models: the ICE check lists of `mediastreamer2`, the double ratchet of
`lime`, TLS channels, the HTTP provider, subscriptions in dialogs.

## 6. Not modelled

* Of the modelled parts: SUBSCRIBE dialogs and their expiration, PRACK,
  `terminate_on_bye = 0`, forked dialogs; UDP and TLS channels, incoming
  connections; the object pool and the Windows loop; GoClear, preshared mode,
  auxiliary secrets, fragments and the choice of algorithms of ZRTP.
* `liblinphone` (calls, conferences, chat, accounts, core) is larger than the rest
  together. Its state machines follow the events of the parts above and are
  spread over callbacks, databases and generated XML code.
* Parsers and headers (string processing), media filters and codecs, SQL storage,
  testers and wrappers of external libraries have no control worth a model.
