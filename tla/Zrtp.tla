-------------------------------- MODULE Zrtp --------------------------------
(***************************************************************************)
(* The ZRTP key agreement of bzrtp (bzrtp/src/stateMachine.c, bzrtp.c)     *)
(* between two peers, over several calls that share their caches of        *)
(* retained secrets.                                                       *)
(*                                                                         *)
(* A call starts with the main channel in Diffie-Hellman mode ("DHM") and  *)
(* may add a channel in multistream mode ("Mult"), whose keys derive from  *)
(* the first.  Either user may hang up at any moment; the contexts are     *)
(* then destroyed and only the caches survive.                             *)
(*                                                                         *)
(* Secrets are numbered by the call that produced them and 0 stands for no *)
(* secret.  A key is <<initiator, initiator of the main channel, retained  *)
(* secret mixed in>>, which is all of s0 that two runs of one call can     *)
(* disagree about.  The GoClear extension (off unless the application      *)
(* accepts it, bzrtp.c:62), the auxiliary and PBX secrets, preshared mode, *)
(* fragments and the choice of algorithms are left out.                    *)
(***************************************************************************)
EXTENDS Integers, Sequences, FiniteSets

CONSTANTS
    Peers,          \* the two ends of the call
    HelloMax,       \* HELLO_MAX_RETRANSMISSION_NUMBER
    OtherMax,       \* NON_HELLO_MAX_RETRANSMISSION_NUMBER
    MaxLoss,        \* bound: packets the network may lose in one channel
    MaxCalls,       \* bound: calls between the two peers
    MultCalls,      \* bound: the calls that may add a second channel
    ResetCalls      \* bound: the calls in which the application may reset a
                    \* timer of the main channel, once

ASSUME PeersAssumption == \E p, q \in Peers : p # q /\ Peers = {p, q}
ASSUME BoundsAssumption ==
    /\ {HelloMax, OtherMax, MaxLoss} \subseteq Nat
    /\ MaxCalls \in Nat \ {0}
    /\ MultCalls \cup ResetCalls \subseteq 1 .. MaxCalls

VARIABLES
    chan,       \* bzrtpChannelContext_t of each peer
    ctx,        \* bzrtpContext_t of each peer
    net,        \* packets each peer has sent and that are under way, in order
    cache,      \* the row of the peer in the ZID cache of each peer
    call,       \* the current call and channel, see CallType
    updated,    \* history: peers that renewed their cache in this call
    shared,     \* history: both peers once renewed their caches in one call
    halves      \* history: calls since then in which only one of them did

vars == <<chan, ctx, net, cache, call, updated, shared, halves>>

None == 0
Secrets == 0 .. MaxCalls
NoKey == <<>>
Keys == Peers \X Peers \X Secrets

Other(p) == CHOOSE q \in Peers : q # p

Types == {"Hello", "HelloAck", "Commit", "DHPart1", "DHPart2",
          "Confirm1", "Confirm2", "Conf2Ack"}
States == {"idle", "init", "waitHello", "waitHelloAck", "sendingCommit",
           "respDHPart1", "initDHPart2", "respConfirm1", "initConfirm2",
           "secure"}

ChannelType ==
    [st : States, role : {"initiator", "responder"},
     on : BOOLEAN, count : Int,      \* firings of the timer, see MaxCount
     key : Keys \cup {NoKey}, srtp : SUBSET {"receiver", "sender"},
     told : BOOLEAN]
ContextType ==
    [rs1 : Secrets, rs2 : Secrets, id1 : Secrets, id2 : Secrets,
     pvs : BOOLEAN, peerPVS : BOOLEAN, mismatch : BOOLEAN,
     sess : Keys \cup {NoKey}, secure : BOOLEAN]
CacheType == [rs1 : Secrets, rs2 : Secrets, pvs : BOOLEAN]
CallType ==
    [n : 1 .. MaxCalls, mode : {"DHM", "Mult"}, lower : Peers,
     lost : 0 .. MaxLoss, reset : BOOLEAN]

\* bzrtp_initChannelContext: every engine starts as initiator.
NewChannel ==
    [st |-> "idle", role |-> "initiator", on |-> FALSE, count |-> 0,
     key |-> NoKey, srtp |-> {}, told |-> FALSE]
\* bzrtp_createBzrtpContext.
NewContext ==
    [rs1 |-> None, rs2 |-> None, id1 |-> None, id2 |-> None,
     pvs |-> FALSE, peerPVS |-> FALSE, mismatch |-> FALSE,
     sess |-> NoKey, secure |-> FALSE]

Init ==
    /\ chan = [p \in Peers |-> NewChannel]
    /\ ctx = [p \in Peers |-> NewContext]
    /\ net = [p \in Peers |-> <<>>]
    /\ cache = [p \in Peers |-> [rs1 |-> None, rs2 |-> None, pvs |-> FALSE]]
    /\ call \in {c \in CallType :
                    /\ c.n = 1 /\ c.mode = "DHM"
                    /\ c.lost = 0 /\ ~c.reset}
    /\ updated = {}
    /\ shared = FALSE
    /\ halves = 0

-----------------------------------------------------------------------------
(* Packets, timers and the parts of the handlers. *)

\* bzrtp_sendPacket, and the consumption of the packet that is answered.
Answer(p, packets) ==
    net' = [net EXCEPT ![Other(p)] = Tail(@), ![p] = @ \o packets]

Armed(c) == [c EXCEPT !.on = TRUE, !.count = 0]
\* The count of a stopped timer is never read: every start resets it.
Stopped(c) == [c EXCEPT !.on = FALSE, !.count = 0]

MultKey(p, initiator) == <<initiator, ctx[p].sess[2], ctx[p].sess[3]>>

\* bzrtp_responseToHelloMessage reads the cache, unless the channel is a
\* multistream one, and fixes the secret IDs that the DHPart will carry.
responseToHelloMessage(x, row) ==
    IF call.mode = "Mult" THEN x
    ELSE [x EXCEPT !.rs1 = row.rs1, !.rs2 = row.rs2, !.pvs = row.pvs,
                   !.id1 = row.rs1, !.id2 = row.rs2]

\* First call of state_keyAgreement_sendingCommit.
SendingCommit(c) == [Armed(c) EXCEPT !.st = "sendingCommit"]

\* bzrtp_turnIntoResponder; in multistream mode the keys are derived at once.
turnIntoResponder(p) ==
    LET c == [Stopped(chan[p]) EXCEPT !.role = "responder"] IN
    IF call.mode = "DHM"
    THEN /\ chan' = [chan EXCEPT ![p] = [c EXCEPT !.st = "respDHPart1"]]
         /\ Answer(p, <<"DHPart1">>)
    ELSE /\ chan' = [chan EXCEPT ![p] = [c EXCEPT !.st = "respConfirm1",
                                            !.key = MultKey(p, Other(p))]]
         /\ Answer(p, <<"Confirm1">>)

\* The retained secrets of an initiator against the IDs in DHPart1.
MatchDHPart1(x, id1, id2) ==
    LET miss == x.rs1 # None /\ x.rs1 \notin {id1, id2}
        save == x.rs2 # None /\ x.rs2 \in {id1, id2} IN
    IF ~miss THEN x
    ELSE [x EXCEPT !.rs1 = None, !.rs2 = IF save THEN @ ELSE None,
                   !.mismatch = ~save]

\* Fault: a matching rs2 leaves the newer rs1 in use.
MatchDHPart2_KeepsRs1(x, id1, id2) ==
    IF x.rs1 = None \/ {x.rs1, x.rs2} \cap ({id1, id2} \ {None}) # {} THEN x
    ELSE [x EXCEPT !.rs1 = None, !.rs2 = None, !.mismatch = TRUE]

\* The retained secrets of a responder against the IDs in DHPart2.
MatchDHPart2(x, id1, id2) ==
    CASE x.rs1 = None \/ x.rs1 = id1 -> x
      [] x.rs1 # None /\ x.rs1 # id1 /\ x.rs2 # None /\ x.rs2 = id1 ->
            [x EXCEPT !.rs1 = None]
      [] OTHER ->
            IF x.rs1 = id2 THEN x
            ELSE IF x.rs2 # None /\ x.rs2 = id2 THEN [x EXCEPT !.rs1 = None]
            ELSE [x EXCEPT !.rs1 = None, !.rs2 = None, !.mismatch = TRUE]

\* Fault: the mark survives a mismatch.
Distrust_Never(r, x) == r

\* A mismatch takes back "previously verified", in the context and in the
\* cache: r is either of them.
Distrust(r, x) == [r EXCEPT !.pvs = @ /\ ~x.mismatch]

\* bzrtp_computeS0DHMMode with s1 = rs1, or rs2 when rs1 was discarded.
S0DHMMode(x, initiator) ==
    <<initiator, initiator, IF x.rs1 # None THEN x.rs1 ELSE x.rs2>>

\* bzrtp_updateCachedSecrets: the new secret replaces rs1, and the rs1 still
\* in the context, if any, becomes rs2.  A mismatch delays it.
CacheIsRenewed(x) == call.mode = "DHM" /\ ~x.mismatch
\* Fault: the old rs1 is not kept as rs2.
RenewedRow_NoBackup(row, x) == [row EXCEPT !.rs1 = call.n, !.rs2 = None]
RenewedRow(row, x) == [row EXCEPT !.rs1 = call.n, !.rs2 = x.rs1]
updateCachedSecrets(p, x) ==
    IF CacheIsRenewed(x)
    THEN /\ cache' = [cache EXCEPT ![p] = RenewedRow(@, x)]
         /\ updated' = updated \cup {p}
    ELSE UNCHANGED <<cache, updated>>
Spent(x) == IF CacheIsRenewed(x) THEN [x EXCEPT !.rs1 = None, !.rs2 = None]
            ELSE x

\* First call of state_secure, which starts the SRTP session and tells the
\* application whether the SAS was verified before, by both ends.
Secure(c, x) ==
    [Stopped(c) EXCEPT !.st = "secure", !.srtp = {"receiver", "sender"},
                       !.told = x.pvs /\ x.peerPVS]
SecureContext(x) == [Spent(x) EXCEPT !.secure = TRUE]

\* First call of state_confirmation_initiatorSendingConfirm2.
SendingConfirm2(c) ==
    [Armed(c) EXCEPT !.st = "initConfirm2", !.srtp = {"receiver"}]

-----------------------------------------------------------------------------
(* The states.  Each takes the packet m at the head of the peer's packets. *)

\* Fault: the Hellos do not start again.
AfterHello_Unarmed(c) == [c EXCEPT !.st = "waitHelloAck"]

\* The Hellos sent before the peer listened were lost: they start again.
AfterHello(c) == [Armed(c) EXCEPT !.st = "waitHelloAck"]

state_discovery_init(p, m) ==
    /\ chan[p].st = "init"
    /\ \/ /\ m = "Hello"
          /\ ctx' = [ctx EXCEPT ![p] = responseToHelloMessage(@, cache[p])]
          /\ chan' = [chan EXCEPT ![p] = AfterHello(@)]
          /\ Answer(p, <<"HelloAck">>)
       \/ /\ m = "HelloAck"
          /\ chan' = [chan EXCEPT ![p] = [Stopped(@) EXCEPT
                                            !.st = "waitHello"]]
          /\ Answer(p, <<>>)
          /\ UNCHANGED ctx
    /\ UNCHANGED <<cache, updated>>

state_discovery_waitingForHello(p, m) ==
    /\ chan[p].st = "waitHello"
    /\ m = "Hello"
    /\ ctx' = [ctx EXCEPT ![p] = responseToHelloMessage(@, cache[p])]
    /\ chan' = [chan EXCEPT ![p] = SendingCommit(@)]
    /\ Answer(p, <<"HelloAck", "Commit">>)
    /\ UNCHANGED <<cache, updated>>

state_discovery_waitingForHelloAck(p, m) ==
    /\ chan[p].st = "waitHelloAck"
    /\ \/ m = "Hello" /\ Answer(p, <<"HelloAck">>) /\ UNCHANGED chan
       \/ /\ m = "HelloAck"
          /\ chan' = [chan EXCEPT ![p] = SendingCommit(@)]
          /\ Answer(p, <<"Commit">>)
       \/ m = "Commit" /\ turnIntoResponder(p)
    /\ UNCHANGED <<ctx, cache, updated>>

\* A Commit of the peer loses the contention unless its hvi, or its nonce in
\* multistream mode, is the higher one.
state_keyAgreement_sendingCommit(p, m) ==
    /\ chan[p].st = "sendingCommit"
    /\ \/ /\ m = "Commit"
          /\ \/ call.lower = p /\ turnIntoResponder(p)
             \/ call.lower # p /\ Answer(p, <<>>) /\ UNCHANGED chan
          /\ UNCHANGED <<ctx, cache>>
       \/ /\ m = "DHPart1" /\ call.mode = "DHM"
          /\ LET q == Other(p)
                 y == MatchDHPart1(ctx[p], ctx[q].id1, ctx[q].id2)
                 x == Distrust(y, y)
                 s0 == S0DHMMode(x, p) IN
             /\ ctx' = [ctx EXCEPT ![p] = [x EXCEPT !.sess = s0]]
             /\ cache' = [cache EXCEPT ![p] = Distrust(@, x)]
             /\ chan' = [chan EXCEPT ![p] = [Armed(@) EXCEPT
                                    !.st = "initDHPart2", !.key = s0]]
          /\ Answer(p, <<"DHPart2">>)
       \/ /\ m = "Confirm1" /\ call.mode = "Mult"
          /\ chan' = [chan EXCEPT ![p] = [SendingConfirm2(@) EXCEPT
                                            !.key = MultKey(p, p)]]
          /\ Answer(p, <<"Confirm2">>)
          /\ UNCHANGED <<ctx, cache>>
    /\ UNCHANGED updated

state_keyAgreement_responderSendingDHPart1(p, m) ==
    /\ chan[p].st = "respDHPart1"
    /\ \/ m = "Commit" /\ Answer(p, <<"DHPart1">>)
          /\ UNCHANGED <<chan, ctx, cache>>
       \/ /\ m = "DHPart2"
          /\ LET q == Other(p)
                 y == MatchDHPart2(ctx[p], ctx[q].id1, ctx[q].id2)
                 x == Distrust(y, y)
                 s0 == S0DHMMode(x, q) IN
             /\ ctx' = [ctx EXCEPT ![p] = [x EXCEPT !.sess = s0]]
             /\ cache' = [cache EXCEPT ![p] = Distrust(@, x)]
             /\ chan' = [chan EXCEPT ![p] = [Stopped(@) EXCEPT
                                    !.st = "respConfirm1", !.key = s0]]
          /\ Answer(p, <<"Confirm1">>)
    /\ UNCHANGED updated

\* peerPVS is the V flag of the Confirm packet.
state_keyAgreement_initiatorSendingDHPart2(p, m) ==
    /\ chan[p].st = "initDHPart2"
    /\ \/ m = "DHPart1" /\ Answer(p, <<>>) /\ UNCHANGED <<chan, ctx>>
       \/ /\ m = "Confirm1"
          /\ ctx' = [ctx EXCEPT ![p].peerPVS = ctx[Other(p)].pvs]
          /\ chan' = [chan EXCEPT ![p] = SendingConfirm2(@)]
          /\ Answer(p, <<"Confirm2">>)
    /\ UNCHANGED <<cache, updated>>

state_confirmation_responderSendingConfirm1(p, m) ==
    /\ chan[p].st = "respConfirm1"
    /\ \/ /\ m = IF call.mode = "DHM" THEN "DHPart2" ELSE "Commit"
          /\ Answer(p, <<"Confirm1">>)
          /\ UNCHANGED <<chan, ctx, cache, updated>>
       \/ /\ m = "Confirm2"
          /\ LET x == IF call.mode = "Mult" THEN ctx[p]
                      ELSE [ctx[p] EXCEPT !.peerPVS = ctx[Other(p)].pvs] IN
             /\ updateCachedSecrets(p, x)
             /\ ctx' = [ctx EXCEPT ![p] = SecureContext(x)]
             /\ chan' = [chan EXCEPT ![p] = Secure(@, x)]
          /\ Answer(p, <<"Conf2Ack">>)

state_confirmation_initiatorSendingConfirm2(p, m) ==
    /\ chan[p].st = "initConfirm2"
    /\ \/ m = "Confirm1" /\ Answer(p, <<>>)
          /\ UNCHANGED <<chan, ctx, cache, updated>>
       \/ /\ m = "Conf2Ack"
          /\ updateCachedSecrets(p, ctx[p])
          /\ ctx' = [ctx EXCEPT ![p] = SecureContext(@)]
          /\ chan' = [chan EXCEPT ![p] = Secure(@, ctx[p])]
          /\ Answer(p, <<>>)

state_secure(p, m) ==
    /\ chan[p].st = "secure" /\ m = "Confirm2"
    /\ Answer(p, <<"Conf2Ack">>)
    /\ UNCHANGED <<chan, ctx, cache, updated>>

\* What a state takes; it refuses every other packet without a trace.  A
\* Confirm is refused as well when its MAC was made with another key.
Expected(p) ==
    LET mode(dhm, mult) == IF call.mode = "DHM" THEN {dhm} ELSE {mult} IN
    CASE chan[p].st = "idle" -> {}
      [] chan[p].st = "init" -> {"Hello", "HelloAck"}
      [] chan[p].st = "waitHello" -> {"Hello"}
      [] chan[p].st = "waitHelloAck" -> {"Hello", "HelloAck", "Commit"}
      [] chan[p].st = "sendingCommit" ->
            {"Commit"} \cup mode("DHPart1", "Confirm1")
      [] chan[p].st = "respDHPart1" -> {"Commit", "DHPart2"}
      [] chan[p].st = "initDHPart2" -> {"DHPart1", "Confirm1"}
      [] chan[p].st = "respConfirm1" ->
            {"Confirm2"} \cup mode("DHPart2", "Commit")
      [] chan[p].st = "initConfirm2" -> {"Confirm1", "Conf2Ack"}
      [] chan[p].st = "secure" -> {"Confirm2"}
MacMatches(p, m) ==
    m \in {"Confirm1", "Confirm2"} =>
        chan[Other(p)].key = IF chan[p].st = "sendingCommit"
                             THEN MultKey(p, p) ELSE chan[p].key
Unexpected(p, m) ==
    /\ ~(m \in Expected(p) /\ MacMatches(p, m))
    /\ Answer(p, <<>>)
    /\ UNCHANGED <<chan, ctx, cache, updated>>

Handler(p, m) ==
    \/ state_discovery_init(p, m)
    \/ state_discovery_waitingForHello(p, m)
    \/ state_discovery_waitingForHelloAck(p, m)
    \/ state_keyAgreement_sendingCommit(p, m)
    \/ state_keyAgreement_responderSendingDHPart1(p, m)
    \/ state_keyAgreement_initiatorSendingDHPart2(p, m)
    \/ state_confirmation_responderSendingConfirm1(p, m)
    \/ state_confirmation_initiatorSendingConfirm2(p, m)
    \/ state_secure(p, m)

\* bzrtp_processMessage.  A packet older than the last one taken is discarded
\* by its sequence number, and one a state refuses changes nothing, so that
\* every order of arrival amounts to the order of sending with losses; the
\* same holds of a packet that the network repeats.
processMessage(p) ==
    /\ net[Other(p)] # <<>>
    /\ LET m == Head(net[Other(p)]) IN
       \/ m \in Expected(p) /\ MacMatches(p, m) /\ Handler(p, m)
       \/ Unexpected(p, m)
    /\ UNCHANGED <<call, shared, halves>>

\* The network loses the next packet of q.
Lose(q) ==
    /\ net[q] # <<>> /\ call.lost < MaxLoss
    /\ net' = [net EXCEPT ![q] = Tail(@)]
    /\ call' = [call EXCEPT !.lost = @ + 1]
    /\ UNCHANGED <<chan, ctx, cache, updated, shared, halves>>

-----------------------------------------------------------------------------
(* The application and the clock. *)

\* bzrtp_startChannelEngine; packets that come before are dropped.
startChannelEngine(p) ==
    /\ chan[p].st = "idle"
    /\ call.mode = "Mult" => ctx[p].secure
    /\ chan' = [chan EXCEPT ![p] = [Armed(@) EXCEPT !.st = "init"]]
    /\ UNCHANGED <<ctx, net, cache, call, updated, shared, halves>>

\* What a state sends again when its timer fires, and how often.
Resent == [init |-> "Hello", waitHelloAck |-> "Hello",
           sendingCommit |-> "Commit", initDHPart2 |-> "DHPart2",
           initConfirm2 |-> "Confirm2"]
Limit(st) == IF Resent[st] = "Hello" THEN HelloMax ELSE OtherMax

\* Fault: every packet has the limit of the Hello.
Fired_HelloLimit(c) == IF c.count < HelloMax THEN [c EXCEPT !.count = @ + 1]
                       ELSE Stopped(c)

\* The timer fires: the last packet is sent although the timer is stopped.
Fired(c) == IF c.count < Limit(c.st) THEN [c EXCEPT !.count = @ + 1]
            ELSE Stopped(c)

\* bzrtp_iterate.
iterate(p) ==
    /\ chan[p].on /\ chan[p].st \in DOMAIN Resent
    /\ chan' = [chan EXCEPT ![p] = Fired(@)]
    /\ net' = [net EXCEPT ![p] = Append(@, Resent[chan[p].st])]
    /\ UNCHANGED <<ctx, cache, call, updated, shared, halves>>

\* bzrtp_resetRetransmissionTimer, called for instance when ICE completes.
resetRetransmissionTimer(p) ==
    /\ call.n \in ResetCalls /\ call.mode = "DHM" /\ ~call.reset
    /\ chan[p].st \notin {"idle", "secure"} /\ chan[p].role = "initiator"
    /\ chan' = [chan EXCEPT ![p].on = TRUE, ![p].count = -1]
    /\ call' = [call EXCEPT !.reset = TRUE]
    /\ UNCHANGED <<ctx, net, cache, updated, shared, halves>>

\* bzrtp_SASVerified, with the update that a mismatch had delayed.
SASVerified(p) ==
    /\ ctx[p].secure
    /\ LET x == [ctx[p] EXCEPT !.mismatch = FALSE]
           row == IF ctx[p].mismatch
                  THEN RenewedRow(cache[p], x)
                  ELSE cache[p] IN
       /\ cache' = [cache EXCEPT ![p] = [row EXCEPT !.pvs = TRUE]]
       /\ ctx' = [ctx EXCEPT ![p] = x]
       /\ updated' = IF ctx[p].mismatch THEN updated \cup {p} ELSE updated
    /\ UNCHANGED <<chan, net, call, shared, halves>>

resetSASVerified(p) ==
    /\ ctx[p].secure /\ cache[p].pvs
    /\ cache' = [cache EXCEPT ![p].pvs = FALSE]
    /\ UNCHANGED <<chan, ctx, net, call, updated, shared, halves>>

\* bzrtp_addChannel on both sides of a call whose main channel is secure on
\* both; the packets of a channel are told from others by its SSRC.
addChannel ==
    /\ call.mode = "DHM" /\ call.n \in MultCalls
    /\ \A p \in Peers : chan[p].st = "secure"
    /\ chan' = [p \in Peers |-> NewChannel]
    /\ net' = [p \in Peers |-> <<>>]
    /\ \E l \in Peers :
        call' = [call EXCEPT !.mode = "Mult", !.lower = l,
                             !.lost = 0, !.reset = FALSE]
    /\ UNCHANGED <<ctx, cache, updated, shared, halves>>

\* One side hangs up: both contexts are destroyed, and a new call begins.
newCall ==
    /\ call.n < MaxCalls
    /\ chan' = [p \in Peers |-> NewChannel]
    /\ ctx' = [p \in Peers |-> NewContext]
    /\ net' = [p \in Peers |-> <<>>]
    /\ \E l \in Peers :
        call' = [n |-> call.n + 1, mode |-> "DHM", lower |-> l,
                 lost |-> 0, reset |-> FALSE]
    /\ updated' = {}
    /\ shared' = (shared \/ updated = Peers)
    /\ halves' = CASE updated = Peers -> 0
                   [] updated = {} -> halves
                   [] OTHER -> halves + 1
    /\ UNCHANGED cache

Next ==
    \/ \E p \in Peers :
        \/ processMessage(p)
        \/ Lose(p)
        \/ startChannelEngine(p)
        \/ iterate(p)
        \/ resetRetransmissionTimer(p)
        \/ SASVerified(p)
        \/ resetSASVerified(p)
    \/ addChannel
    \/ newCall

Spec == Init /\ [][Next]_vars

\* The media thread of each side polls its engine and reads its socket, and
\* both sides of a call start their engines.
FairSpec ==
    Spec /\ \A p \in Peers : /\ WF_vars(processMessage(p))
                             /\ WF_vars(iterate(p))
                             /\ WF_vars(startChannelEngine(p))

-----------------------------------------------------------------------------
(* Properties *)

WellTyped ==
    /\ chan \in [Peers -> ChannelType]
    /\ ctx \in [Peers -> ContextType]
    /\ net \in [Peers -> Seq(Types)]
    /\ cache \in [Peers -> CacheType]
    /\ call \in CallType
    /\ updated \subseteq Peers
    /\ shared \in BOOLEAN /\ halves \in 0 .. MaxCalls

\* What the timer may count to: the limit of the packet that the state repeats.
MaxCount(st) == IF st \in DOMAIN Resent THEN Limit(st) ELSE 0

(* Types; above all, the timer of a channel never counts past the limit of
   the packet that the current state repeats: HELLO_MAX_RETRANSMISSION_NUMBER
   for the Hello, NON_HELLO_MAX_RETRANSMISSION_NUMBER for the others, and no
   count survives into a state with a lower limit (stateMachine.c:150, 350,
   664, 1015, 1399). *)
TypeOK ==
    /\ WellTyped
    /\ \A p \in Peers : chan[p].count \in -1 .. MaxCount(chan[p].st)

(* Two engines that have derived keys have derived the same ones, whoever
   won the commit contention and whichever retained secrets their caches
   held; and a peer that encrypts (it has the sender keys) talks to a peer
   that already has the keys to decrypt. *)
SameKeys ==
    \A p \in Peers : LET q == Other(p) IN
        /\ chan[p].key # NoKey /\ chan[q].key # NoKey =>
                chan[p].key = chan[q].key
        /\ "sender" \in chan[p].srtp => "receiver" \in chan[q].srtp

(* One call in which only one side renewed its cache (the other never got
   Conf2ACK) costs nothing: the next one finds a secret in common.  A cache
   mismatch is announced only to peers that never shared a secret, or that
   lost the end of two calls. *)
OneHalfIsHarmless ==
    \A p \in Peers : ctx[p].mismatch => ~shared \/ halves >= 2

(* When the application is told that the SAS was verified before, the keys
   of this call derive from a secret that both sides retained. *)
VerifiedMeansContinuity ==
    \A p \in Peers : chan[p].told => ctx[p].sess[3] # None

(* A channel whose packets are lost fewer times than each is sent becomes
   secure on both sides, whichever side starts late and whoever wins the
   commit contention, unless the call ends first: the last channel of every
   behaviour does. *)
HandshakeCompletes ==
    []<>(\A p \in Peers : chan[p].st = "secure")

=============================================================================
