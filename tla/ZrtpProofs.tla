----------------------------- MODULE ZrtpProofs -----------------------------
(***************************************************************************)
(* Proofs about Zrtp, for any number of calls, retransmissions and losses. *)
(***************************************************************************)
EXTENDS Zrtp, TLAPS

(* The inductive invariant has a part about each peer, Own, and one about  *)
(* the two, Pair.  Both are predicates of the records of the peers and of  *)
(* what they have in common in a call, w, so that a step of one peer is    *)
(* checked on its new records.                                             *)

WorldType ==
    [mode : {"DHM", "Mult"}, n : 1 .. MaxCalls, lower : Peers,
     shared : BOOLEAN, halves : 0 .. MaxCalls]
World ==
    [mode |-> call.mode, n |-> call.n, lower |-> call.lower,
     shared |-> shared, halves |-> halves]

DHM(w) == w.mode = "DHM"
Mult(w) == w.mode = "Mult"

\* Both peers renewed their caches in the last call that renewed any, or at
\* most one call since then renewed one of them.
Lucky(w) == w.shared /\ w.halves = 0
Harmless(w) == w.shared /\ w.halves < 2

Fresh(c) == c.st \in {"idle", "init", "waitHello"}     \* has seen no Hello
Early(c) == Fresh(c) \/ c.st = "waitHelloAck"          \* has not committed
Keyed(c) == c.st \in {"initDHPart2", "initConfirm2", "respConfirm1", "secure"}
Leads(c) == c.role = "initiator"
Follows(c) == c.role = "responder"
Chosen(c) == Leads(c) /\ Keyed(c)                      \* its Commit was answered

\* The retained secrets with which a peer began the call: they are in the
\* cache until the Hello, and in the identifiers of the context afterwards.
Start1(w, c, x, row) == IF DHM(w) /\ Fresh(c) THEN row.rs1 ELSE x.id1
Start2(w, c, x, row) == IF DHM(w) /\ Fresh(c) THEN row.rs2 ELSE x.id2

\* The secret that an initiator with the context x and a responder with the
\* context y have in common
Agreed(x, y) ==
    IF x.id1 # None /\ x.id1 \in {y.id1, y.id2} THEN x.id1
    ELSE IF x.id2 # None /\ x.id2 \in {y.id1, y.id2} THEN x.id2
    ELSE None

\* A packet m of the peer p with the channel c under way says how far it is.
Justified(w, p, c, m) ==
    /\ m = "Commit" => ~Early(c) /\ (Follows(c) => w.lower = p)
    /\ m = "DHPart1" => DHM(w) /\ Follows(c)
    /\ m = "DHPart2" => DHM(w) /\ Chosen(c)
    /\ m = "Confirm1" => Follows(c) /\ Keyed(c)
    /\ m = "Confirm2" => Leads(c) /\ c.st \in {"initConfirm2", "secure"}
    /\ m = "Conf2Ack" => Follows(c) /\ c.st = "secure"

\* The state of a channel, its role and what it has
Shape(w, c) ==
    /\ c \in ChannelType
    /\ c.st \in {"respDHPart1", "respConfirm1"} => Follows(c)
    /\ Follows(c) => c.st \in {"respDHPart1", "respConfirm1", "secure"}
    /\ c.st \in {"respDHPart1", "initDHPart2"} => DHM(w)
    /\ Keyed(c) <=> c.key # NoKey
    /\ c.st \in {"initConfirm2", "secure"} => "receiver" \in c.srtp
    /\ "sender" \in c.srtp => c.st = "secure"
    /\ c.told => c.st = "secure"

\* The row of the cache: no older secret without a newer one, and no mark
\* without a secret.
Row(row) ==
    /\ row \in CacheType
    /\ row.rs1 = None => row.rs2 = None
    /\ row.pvs => row.rs1 # None

\* The context of a peer that has not derived the keys of its main channel
Unkeyed(c, x) ==
    /\ ~x.mismatch
    /\ Fresh(c) => ~x.pvs
    /\ ~Fresh(c) => x.rs1 = x.id1 /\ x.rs2 = x.id2 /\ (x.pvs => x.id1 # None)

\* The context of one that has
Rooted(w, c, x) ==
    /\ x.sess # NoKey
    /\ x.pvs => x.sess[3] # None
    /\ c.told => x.pvs
    /\ DHM(w) => x.sess = c.key
    /\ DHM(w) /\ Lucky(w) /\ c.st # "secure" => x.rs1 = x.id1

Context(w, c, x) ==
    /\ x \in ContextType
    /\ x.id1 = None => x.id2 = None
    /\ x.secure <=> Mult(w) \/ c.st = "secure"
    /\ DHM(w) /\ ~Keyed(c) => Unkeyed(c, x)
    /\ Mult(w) \/ Keyed(c) => Rooted(w, c, x)
    /\ x.mismatch => ~Harmless(w)

\* What a call did to the row: nothing yet, or it was renewed.
Renewal(w, c, x, row, renewed) ==
    /\ ~renewed => /\ row.rs1 = Start1(w, c, x, row)
                   /\ row.rs2 = Start2(w, c, x, row)
    /\ renewed => /\ row.rs1 = w.n /\ x.secure
                  /\ Lucky(w) => row.rs2 = Start1(w, c, x, row)
    /\ x.secure /\ ~x.mismatch => renewed

Own(w, c, x, row, renewed) ==
    Shape(w, c) /\ Row(row) /\ Context(w, c, x) /\ Renewal(w, c, x, row, renewed)

\* How far a peer may be ahead of the other
Abreast(c, d) ==
    /\ Follows(c) => Leads(d) /\ ~Early(d)
    /\ Chosen(c) => Follows(d)
    /\ c.st = "secure" => d.st \in {"initConfirm2", "secure"}
    /\ c.st = "secure" /\ Leads(c) => d.st = "secure"

\* The keys of the peer p, against those of q
KeysOf(w, p, q, c, x, y) ==
    /\ DHM(w) /\ Keyed(c) => c.key = IF Leads(c) THEN <<p, p, Agreed(x, y)>>
                                     ELSE <<q, q, Agreed(y, x)>>
    /\ Mult(w) => x.sess = y.sess
    /\ Mult(w) /\ Keyed(c) =>
          c.key = <<IF Leads(c) THEN p ELSE q, x.sess[2], x.sess[3]>>

\* The secrets that one peer and the other began the call with
Common(s1, s2, t1, t2) ==
    \/ s1 = t1 /\ s1 # None
    \/ s2 = t1 /\ s2 # None
    \/ s1 = t2 /\ s1 # None
Bond(w, s1, s2, t1, t2) ==
    /\ Lucky(w) => s1 = t1 /\ s1 # None
    /\ Harmless(w) => Common(s1, s2, t1, t2)

Pair(w, p, q, c, x, row, d, y, rov) ==
    /\ Abreast(c, d)
    /\ KeysOf(w, p, q, c, x, y)
    /\ Bond(w, Start1(w, c, x, row), Start2(w, c, x, row),
            Start1(w, d, y, rov), Start2(w, d, y, rov))

Sent(p) == {net[p][k] : k \in DOMAIN net[p]}

PeerInv(p) ==
    /\ Own(World, chan[p], ctx[p], cache[p], p \in updated)
    /\ Pair(World, p, Other(p), chan[p], ctx[p], cache[p],
            chan[Other(p)], ctx[Other(p)], cache[Other(p)])
    /\ \A m \in Sent(p) : Justified(World, p, chan[p], m)

IInv ==
    /\ WellTyped /\ halves < call.n
    /\ \A p \in Peers : PeerInv(p)

-----------------------------------------------------------------------------
(* The two peers and a step of one of them. *)

LEMMA TwoPeers ==
  ASSUME NEW p \in Peers
  PROVE  /\ Other(p) \in Peers /\ Other(p) # p /\ Other(Other(p)) = p
         /\ \A r \in Peers : r = p \/ r = Other(p)
<1>1. PICK a \in Peers, b \in Peers : a # b /\ Peers = {a, b}
  BY PeersAssumption
<1>2. ASSUME NEW r \in Peers
      PROVE  Other(r) \in Peers /\ Other(r) # r
  <2>1. \E s \in Peers : s # r
    BY <1>1
  <2>. QED BY <2>1 DEF Other
<1>3. Other(p) \in Peers /\ Other(p) # p
  BY <1>2
<1>4. Other(Other(p)) \in Peers /\ Other(Other(p)) # Other(p)
  BY <1>2, <1>3
<1>. QED BY <1>1, <1>3, <1>4

\* The records of a peer and their relation to those of the other
Good(w, p, q, c, x, row, renewed, d, y, rov) ==
    /\ Own(w, c, x, row, renewed)
    /\ Pair(w, p, q, c, x, row, d, y, rov)
    /\ Pair(w, q, p, d, y, rov, c, x, row)

\* What the invariant says, seen from one peer
LEMMA FromInv ==
  ASSUME IInv, NEW p \in Peers
  PROVE  /\ Good(World, p, Other(p), chan[p], ctx[p], cache[p], p \in updated,
                 chan[Other(p)], ctx[Other(p)], cache[Other(p)])
         /\ Own(World, chan[Other(p)], ctx[Other(p)], cache[Other(p)],
                Other(p) \in updated)
         /\ \A m \in Sent(p) : Justified(World, p, chan[p], m)
         /\ \A m \in Sent(Other(p)) :
               Justified(World, Other(p), chan[Other(p)], m)
         /\ World \in WorldType
<1>1. PeerInv(p) /\ PeerInv(Other(p)) /\ Other(Other(p)) = p
  BY TwoPeers DEF IInv
<1>2. World \in WorldType
  BY DEF IInv, WellTyped, World, WorldType, CallType
<1>. QED BY <1>1, <1>2, Zenon DEF PeerInv, Good

\* A step of p gives p the records c, x and row, and leaves q alone.
Step(p, c, x, row) ==
    /\ World' = World /\ call' \in CallType /\ halves' < call'.n
    /\ shared' \in BOOLEAN /\ halves' \in 0 .. MaxCalls
    /\ chan' = [chan EXCEPT ![p] = c]
    /\ ctx' = [ctx EXCEPT ![p] = x]
    /\ cache' = [cache EXCEPT ![p] = row]
    /\ updated' \subseteq Peers /\ updated' \ {p} = updated \ {p}
    /\ net' \in [Peers -> Seq(Types)]
    /\ Sent(Other(p))' \subseteq Sent(Other(p))

LEMMA PeerStep ==
  ASSUME IInv, NEW p \in Peers, NEW c, NEW x, NEW row,
         Step(p, c, x, row),
         Good(World, p, Other(p), c, x, row, p \in updated',
              chan[Other(p)], ctx[Other(p)], cache[Other(p)]),
         \A m \in Sent(p)' : Justified(World, p, c, m)
  PROVE  IInv'
<1>. DEFINE q == Other(p)
<1>1. q \in Peers /\ q # p /\ Other(q) = p /\ \A r \in Peers : r = p \/ r = q
  BY TwoPeers
<1>2. /\ chan \in [Peers -> ChannelType] /\ ctx \in [Peers -> ContextType]
      /\ cache \in [Peers -> CacheType]
  BY DEF IInv, WellTyped
<1>3. c \in ChannelType /\ x \in ContextType /\ row \in CacheType
  BY DEF Good, Own, Shape, Context, Row
<1>4. WellTyped' /\ halves' < call'.n
  BY <1>2, <1>3 DEF Step, WellTyped
<1>5. /\ chan'[p] = c /\ ctx'[p] = x /\ cache'[p] = row
      /\ chan'[q] = chan[q] /\ ctx'[q] = ctx[q] /\ cache'[q] = cache[q]
      /\ (q \in updated') = (q \in updated)
  BY <1>1, <1>2 DEF Step
<1>6. World' = World
  BY DEF Step
<1>7. PeerInv(p)'
  BY <1>5, <1>6, Zenon DEF PeerInv, Good
<1>8. PeerInv(q)'
  <2>1. PeerInv(q)
    BY <1>1 DEF IInv
  <2>2. Sent(q)' \subseteq Sent(q)
    BY DEF Step
  <2>3. Own(World, chan[q], ctx[q], cache[q], q \in updated)
    BY <2>1 DEF PeerInv
  <2>4. Own(World, chan'[q], ctx'[q], cache'[q], q \in updated')
    BY <1>5, <2>3
  <2>5. Pair(World, q, p, chan'[q], ctx'[q], cache'[q], c, x, row)
    BY <1>5 DEF Good
  <2>6. \A m \in Sent(q)' : Justified(World, q, chan'[q], m)
    BY <1>5, <2>1, <2>2 DEF PeerInv
  <2>. QED BY <1>1, <1>5, <1>6, <2>4, <2>5, <2>6, Zenon DEF PeerInv
<1>. QED BY <1>1, <1>4, <1>7, <1>8 DEF IInv

\* A packet that is taken comes from what was sent, and what is sent is added.
LEMMA AnswerSent ==
  ASSUME WellTyped, NEW p \in Peers, net[Other(p)] # <<>>,
         NEW packets \in Seq(Types), Answer(p, packets)
  PROVE  /\ net' \in [Peers -> Seq(Types)]
         /\ Head(net[Other(p)]) \in Sent(Other(p))
         /\ Head(net[Other(p)]) \in Types
         /\ Sent(Other(p))' \subseteq Sent(Other(p))
         /\ \A m \in Sent(p)' : \/ m \in Sent(p)
                                \/ \E k \in 1 .. Len(packets) : m = packets[k]
<1>. DEFINE q == Other(p)
<1>1. q \in Peers /\ q # p
  BY TwoPeers
<1>2. net \in [Peers -> Seq(Types)]
  BY DEF WellTyped
<1>3. net[p] \in Seq(Types) /\ net[q] \in Seq(Types) /\ net[q] # <<>>
  BY <1>1, <1>2
<1>. HIDE DEF q
<1>4. net' = [net EXCEPT ![q] = Tail(net[q]), ![p] = net[p] \o packets]
  BY <1>1, <1>2 DEF Answer, q
<1>5. net'[q] = Tail(net[q]) /\ net'[p] = net[p] \o packets
  BY <1>1, <1>2, <1>4
<1>6. net' \in [Peers -> Seq(Types)]
  <2>1. Tail(net[q]) \in Seq(Types) /\ net[p] \o packets \in Seq(Types)
    BY <1>3
  <2>. QED BY <1>2, <1>4, <2>1
<1>7. Head(net[q]) = net[q][1] /\ 1 \in DOMAIN net[q] /\ net[q][1] \in Types
  BY <1>3
<1>8. Sent(q)' \subseteq Sent(q)
  <2>. SUFFICES ASSUME NEW k \in DOMAIN Tail(net[q])
                PROVE  \E j \in DOMAIN net[q] : Tail(net[q])[k] = net[q][j]
    BY <1>5 DEF Sent
  <2>1. k + 1 \in DOMAIN net[q] /\ Tail(net[q])[k] = net[q][k + 1]
    BY <1>3
  <2>. QED BY <2>1
<1>9. ASSUME NEW m \in Sent(p)'
      PROVE  m \in Sent(p) \/ \E k \in 1 .. Len(packets) : m = packets[k]
  <2>1. PICK k \in DOMAIN (net[p] \o packets) : m = (net[p] \o packets)[k]
    BY <1>5, <1>9 DEF Sent
  <2>2. CASE k <= Len(net[p])
    <3>1. k \in DOMAIN net[p] /\ m = net[p][k]
      BY <1>3, <2>1, <2>2
    <3>. QED BY <3>1 DEF Sent
  <2>3. CASE k > Len(net[p])
    <3>1. k - Len(net[p]) \in 1 .. Len(packets) /\ m = packets[k - Len(net[p])]
      BY <1>3, <2>1, <2>3
    <3>. QED BY <3>1
  <2>4. k \in Nat /\ Len(net[p]) \in Nat
    BY <1>3, <2>1
  <2>. QED BY <2>2, <2>3, <2>4
<1>. QED BY <1>6, <1>7, <1>8, <1>9 DEF Sent, q

-----------------------------------------------------------------------------
(* What a step may do to the records of a peer. *)

\* The packets under way remain justified.
Kept(w, p, c, e) ==
    \A m \in Types : Justified(w, p, c, m) => Justified(w, p, e, m)

LEMMA ChannelFields ==
  ASSUME NEW c \in ChannelType
  PROVE  /\ c.st \in States /\ c.role \in {"initiator", "responder"}
         /\ c.on \in BOOLEAN /\ c.count \in Int
         /\ c.key \in Keys \cup {NoKey} /\ c.srtp \in SUBSET {"receiver", "sender"}
         /\ c.told \in BOOLEAN
BY DEF ChannelType

LEMMA ContextFields ==
  ASSUME NEW x \in ContextType
  PROVE  /\ x.rs1 \in Secrets /\ x.rs2 \in Secrets
         /\ x.id1 \in Secrets /\ x.id2 \in Secrets
         /\ x.pvs \in BOOLEAN /\ x.peerPVS \in BOOLEAN
         /\ x.mismatch \in BOOLEAN /\ x.secure \in BOOLEAN
         /\ x.sess \in Keys \cup {NoKey}
BY DEF ContextType

\* The timer is all that changes.
Alike(c, e) ==
    /\ e.st = c.st /\ e.role = c.role /\ e.key = c.key
    /\ e.srtp = c.srtp /\ e.told = c.told

\* Where the channel is changes, and nothing else of it that matters.
Moved(c, e, st) ==
    /\ e.st = st /\ e.role = c.role /\ e.key = c.key
    /\ e.srtp = c.srtp /\ e.told = c.told

LEMMA AlikeGood ==
  ASSUME NEW w \in WorldType, NEW p, NEW q, NEW c, NEW x, NEW row, NEW renewed,
         NEW d, NEW y, NEW rov, NEW e \in ChannelType, Alike(c, e),
         Good(w, p, q, c, x, row, renewed, d, y, rov)
  PROVE  Good(w, p, q, e, x, row, renewed, d, y, rov) /\ Kept(w, p, c, e)
<1>1. /\ Fresh(e) <=> Fresh(c)
      /\ Early(e) <=> Early(c)
      /\ Keyed(e) <=> Keyed(c)
      /\ Leads(e) <=> Leads(c)
      /\ Follows(e) <=> Follows(c)
      /\ Chosen(e) <=> Chosen(c)
  BY DEF Alike, Fresh, Early, Keyed, Leads, Follows, Chosen
<1>2. /\ Start1(w, e, x, row) = Start1(w, c, x, row)
      /\ Start2(w, e, x, row) = Start2(w, c, x, row)
  BY <1>1 DEF Start1, Start2
<1>3. Shape(w, e)
  BY <1>1 DEF Good, Own, Shape, Alike
<1>4. Row(row) /\ Context(w, e, x)
  BY <1>1 DEF Good, Own, Context, Unkeyed, Rooted, Alike
<1>5. Renewal(w, e, x, row, renewed)
  BY <1>2 DEF Good, Own, Renewal
<1>6. Abreast(e, d) /\ Abreast(d, e)
  BY <1>1 DEF Good, Pair, Abreast, Alike
<1>7. KeysOf(w, p, q, e, x, y) /\ KeysOf(w, q, p, d, y, x)
  BY <1>1 DEF Good, Pair, KeysOf, Alike
<1>8. Kept(w, p, c, e)
  BY <1>1 DEF Kept, Justified, Alike
<1>. QED BY <1>2, <1>3, <1>4, <1>5, <1>6, <1>7, <1>8 DEF Good, Own, Pair

LEMMA FreshGood ==
  ASSUME NEW w \in WorldType, NEW p, NEW q, NEW c, NEW x, NEW row, NEW renewed,
         NEW d, NEW y, NEW rov, NEW e \in ChannelType,
         NEW st \in {"init", "waitHello"}, Fresh(c), Moved(c, e, st),
         Good(w, p, q, c, x, row, renewed, d, y, rov)
  PROVE  Good(w, p, q, e, x, row, renewed, d, y, rov) /\ Kept(w, p, c, e)
<1>1. /\ Fresh(e) /\ Early(e) /\ Early(c) /\ ~Keyed(e) /\ ~Keyed(c)
      /\ Leads(e) <=> Leads(c)
      /\ Follows(e) <=> Follows(c)
      /\ ~Chosen(e) /\ ~Chosen(c) /\ c.st # "secure" /\ e.st # "secure"
      /\ e.st \notin {"respDHPart1", "initDHPart2", "respConfirm1", "initConfirm2"}
      /\ c.st \notin {"respDHPart1", "initDHPart2", "respConfirm1", "initConfirm2"}
  BY DEF Moved, Fresh, Early, Keyed, Leads, Follows, Chosen
<1>2. /\ Start1(w, e, x, row) = Start1(w, c, x, row)
      /\ Start2(w, e, x, row) = Start2(w, c, x, row)
  BY <1>1 DEF Start1, Start2
<1>3. Shape(w, e) /\ ~Follows(c)
  BY <1>1 DEF Good, Own, Shape, Moved
<1>4. Row(row) /\ Context(w, e, x)
  BY <1>1 DEF Good, Own, Context, Unkeyed, Rooted, Moved
<1>5. Renewal(w, e, x, row, renewed)
  BY <1>2 DEF Good, Own, Renewal
<1>6. Abreast(e, d) /\ Abreast(d, e)
  BY <1>1, <1>3 DEF Good, Pair, Abreast
<1>7. KeysOf(w, p, q, e, x, y) /\ KeysOf(w, q, p, d, y, x)
  BY <1>1 DEF Good, Pair, KeysOf
<1>8. Kept(w, p, c, e)
  BY <1>1, <1>3 DEF Kept, Justified
<1>. QED BY <1>2, <1>3, <1>4, <1>5, <1>6, <1>7, <1>8 DEF Good, Own, Pair

LEMMA CommitGood ==
  ASSUME NEW w \in WorldType, NEW p, NEW q, NEW c, NEW x, NEW row, NEW renewed,
         NEW d, NEW y, NEW rov, NEW e \in ChannelType,
         c.st = "waitHelloAck", Moved(c, e, "sendingCommit"),
         Good(w, p, q, c, x, row, renewed, d, y, rov)
  PROVE  Good(w, p, q, e, x, row, renewed, d, y, rov) /\ Kept(w, p, c, e)
<1>1. /\ ~Fresh(e) /\ ~Fresh(c) /\ ~Early(e) /\ Early(c) /\ ~Keyed(e) /\ ~Keyed(c)
      /\ Leads(e) <=> Leads(c)
      /\ Follows(e) <=> Follows(c)
      /\ ~Chosen(e) /\ ~Chosen(c) /\ c.st # "secure" /\ e.st # "secure"
      /\ e.st \notin {"respDHPart1", "initDHPart2", "respConfirm1", "initConfirm2"}
      /\ c.st \notin {"respDHPart1", "initDHPart2", "respConfirm1", "initConfirm2"}
  BY DEF Moved, Fresh, Early, Keyed, Leads, Follows, Chosen
<1>2. /\ Start1(w, e, x, row) = Start1(w, c, x, row)
      /\ Start2(w, e, x, row) = Start2(w, c, x, row)
  BY <1>1 DEF Start1, Start2
<1>3. Shape(w, e) /\ ~Follows(c)
  BY <1>1 DEF Good, Own, Shape, Moved
<1>4. Row(row) /\ Context(w, e, x)
  BY <1>1 DEF Good, Own, Context, Unkeyed, Rooted, Moved
<1>5. Renewal(w, e, x, row, renewed)
  BY <1>2 DEF Good, Own, Renewal
<1>6. Abreast(e, d) /\ Abreast(d, e)
  BY <1>1, <1>3 DEF Good, Pair, Abreast
<1>7. KeysOf(w, p, q, e, x, y) /\ KeysOf(w, q, p, d, y, x)
  BY <1>1 DEF Good, Pair, KeysOf
<1>8. Kept(w, p, c, e)
  BY <1>1, <1>3 DEF Kept, Justified
<1>. QED BY <1>2, <1>3, <1>4, <1>5, <1>6, <1>7, <1>8 DEF Good, Own, Pair

\* The Hello of the peer fixes the secrets of a peer that has none yet.
LEMMA HelloGood ==
  ASSUME NEW w \in WorldType, NEW p, NEW q, NEW c, NEW x, NEW row, NEW renewed,
         NEW d, NEW y, NEW rov, NEW e \in ChannelType, NEW z \in ContextType,
         NEW st \in {"waitHelloAck", "sendingCommit"}, Fresh(c), Moved(c, e, st),
         d \in ChannelType,
         Mult(w) => z = x,
         DHM(w) => /\ z.rs1 = row.rs1 /\ z.rs2 = row.rs2 /\ z.pvs = row.pvs
                   /\ z.id1 = row.rs1 /\ z.id2 = row.rs2
                   /\ z.mismatch = x.mismatch /\ z.secure = x.secure,
         Good(w, p, q, c, x, row, renewed, d, y, rov)
  PROVE  Good(w, p, q, e, z, row, renewed, d, y, rov) /\ Kept(w, p, c, e)
<1>1. /\ ~Fresh(e) /\ Early(c) /\ ~Keyed(e) /\ ~Keyed(c)
      /\ Leads(e) <=> Leads(c)
      /\ Follows(e) <=> Follows(c)
      /\ ~Chosen(e) /\ ~Chosen(c) /\ c.st # "secure" /\ e.st # "secure"
      /\ e.st \notin {"respDHPart1", "initDHPart2", "respConfirm1", "initConfirm2"}
      /\ c.st \notin {"respDHPart1", "initDHPart2", "respConfirm1", "initConfirm2"}
  BY DEF Moved, Fresh, Early, Keyed, Leads, Follows, Chosen
<1>2. Mult(w) \/ DHM(w)
  BY DEF WorldType, Mult, DHM
<1>3. ~(Mult(w) /\ DHM(w))
  BY DEF Mult, DHM
<1>4. /\ Start1(w, e, z, row) = Start1(w, c, x, row)
      /\ Start2(w, e, z, row) = Start2(w, c, x, row)
  BY <1>1, <1>2, <1>3 DEF Start1, Start2
<1>5. Shape(w, e) /\ ~Follows(c)
  BY <1>1 DEF Good, Own, Shape, Moved
<1>6. Row(row) /\ Context(w, c, x)
  BY DEF Good, Own
<1>7. Context(w, e, z)
  <2>1. CASE Mult(w)
    BY <1>1, <1>3, <1>6, <2>1 DEF Context, Rooted, Moved
  <2>2. CASE DHM(w)
    BY <1>1, <1>3, <1>6, <2>2 DEF Context, Unkeyed, Row
  <2>. QED BY <1>2, <2>1, <2>2
<1>8. z.secure = x.secure /\ z.mismatch = x.mismatch
  BY <1>2
<1>9. Renewal(w, e, z, row, renewed)
  BY <1>4, <1>8 DEF Good, Own, Renewal
<1>10. Abreast(e, d) /\ Abreast(d, e)
  BY <1>1, <1>5 DEF Good, Pair, Abreast
<1>11. ~Keyed(d) \/ Mult(w)
  <2>1. ~Chosen(d) /\ ~Follows(d)
    BY <1>1, <1>5 DEF Good, Pair, Abreast
  <2>. QED BY <2>1, ChannelFields DEF Chosen, Follows, Leads
<1>12. KeysOf(w, p, q, e, z, y) /\ KeysOf(w, q, p, d, y, z)
  BY <1>1, <1>2, <1>3, <1>11 DEF Good, Pair, KeysOf
<1>13. Kept(w, p, c, e)
  BY <1>1, <1>5 DEF Kept, Justified
<1>. QED
  BY <1>4, <1>5, <1>6, <1>7, <1>9, <1>10, <1>12, <1>13 DEF Good, Own, Pair

\* The Commit of the peer makes a peer that has not committed, or that loses the
\* contention, the responder.
LEMMA TurnGood ==
  ASSUME NEW w \in WorldType, NEW p, NEW q, NEW c, NEW x, NEW row, NEW renewed,
         NEW d, NEW y, NEW rov, NEW e \in ChannelType, p # q,
         \/ c.st = "waitHelloAck"
         \/ c.st = "sendingCommit" /\ w.lower = p,
         Justified(w, q, d, "Commit"),
         Follows(e), e.srtp = c.srtp, e.told = c.told,
         DHM(w) => e.st = "respDHPart1" /\ e.key = c.key,
         Mult(w) => e.st = "respConfirm1" /\ e.key = <<q, x.sess[2], x.sess[3]>>,
         d \in ChannelType,
         Good(w, p, q, c, x, row, renewed, d, y, rov)
  PROVE  Good(w, p, q, e, x, row, renewed, d, y, rov) /\ Kept(w, p, c, e)
<1>1. Mult(w) \/ DHM(w)
  BY DEF WorldType, Mult, DHM
<1>2. ~(Mult(w) /\ DHM(w))
  BY DEF Mult, DHM
<1>3. /\ ~Fresh(e) /\ ~Fresh(c) /\ ~Early(e) /\ ~Keyed(c) /\ ~Chosen(c)
      /\ ~Leads(e) /\ ~Chosen(e) /\ e.st # "secure" /\ c.st # "secure"
      /\ Keyed(e) <=> Mult(w)
      /\ c.st \notin {"respDHPart1", "initDHPart2", "respConfirm1", "initConfirm2"}
  BY <1>1, <1>2 DEF Fresh, Early, Keyed, Leads, Follows, Chosen
<1>4. ~Follows(c)
  BY <1>3 DEF Good, Own, Shape
<1>5. Leads(d) /\ ~Early(d)
  <2>1. ~Follows(d)
    BY <1>4 DEF Good, Pair, Abreast, Justified, Early
  <2>. QED BY <2>1, ChannelFields DEF Justified, Leads, Follows
<1>6. /\ Start1(w, e, x, row) = Start1(w, c, x, row)
      /\ Start2(w, e, x, row) = Start2(w, c, x, row)
  BY <1>3 DEF Start1, Start2
<1>7. Shape(w, e)
  <2>1. <<q, x.sess[2], x.sess[3]>> # NoKey
    BY DEF NoKey
  <2>2. ~e.told /\ "sender" \notin e.srtp
    BY <1>3 DEF Good, Own, Shape
  <2>3. ~Keyed(e) => e.key = NoKey
    BY <1>1, <1>3 DEF Good, Own, Shape
  <2>4. Keyed(e) => e.key # NoKey
    BY <1>1, <1>2, <1>3, <2>1
  <2>. QED BY <1>1, <1>2, <2>2, <2>3, <2>4 DEF Shape
<1>8. Row(row) /\ Context(w, e, x)
  BY <1>1, <1>2, <1>3 DEF Good, Own, Context, Unkeyed, Rooted
<1>9. Renewal(w, e, x, row, renewed)
  BY <1>6 DEF Good, Own, Renewal
<1>10. Abreast(e, d) /\ Abreast(d, e)
  <2>1. ~Follows(d)
    BY <1>5 DEF Leads, Follows
  <2>2. d.st # "secure"
    BY <1>3 DEF Good, Pair, Abreast
  <2>. QED BY <1>3, <1>5, <2>1, <2>2 DEF Abreast
<1>11. KeysOf(w, p, q, e, x, y) /\ KeysOf(w, q, p, d, y, x)
  <2>1. Mult(w) => e.key = <<IF Leads(e) THEN p ELSE q, x.sess[2], x.sess[3]>>
    BY <1>3
  <2>. QED BY <1>1, <1>2, <1>3, <2>1 DEF Good, Pair, KeysOf
<1>12. Kept(w, p, c, e)
  BY <1>3, <1>4 DEF Kept, Justified, Early
<1>. QED
  BY <1>6, <1>7, <1>8, <1>9, <1>10, <1>11, <1>12 DEF Good, Own, Pair

\* The context z comes from x by comparing its secrets with the identifiers i1 and
\* i2 of the peer, and s is the secret it chooses.
Matched(x, z, i1, i2, s) ==
    /\ z \in ContextType
    /\ z.id1 = x.id1 /\ z.id2 = x.id2 /\ z.secure = x.secure
    /\ s = IF z.rs1 # None THEN z.rs1 ELSE z.rs2
    /\ z.pvs => s # None
    /\ z.mismatch => ~Common(x.id1, x.id2, i1, i2)
    /\ x.id1 = i1 /\ x.id1 # None => z.rs1 = x.id1

\* The context of a peer that knows its secrets and has not compared them
Known(x) ==
    /\ x \in ContextType /\ ~x.mismatch
    /\ x.rs1 = x.id1 /\ x.rs2 = x.id2
    /\ x.id1 = None => x.id2 = None
    /\ x.pvs => x.id1 # None

\* How a comparison ends: what is left of the two secrets, and the alarm
Ends(x, u, rs1, rs2, alarm) ==
    /\ u \in ContextType /\ u.rs1 = rs1 /\ u.rs2 = rs2
    /\ u.mismatch = alarm /\ u.pvs = x.pvs
    /\ u.id1 = x.id1 /\ u.id2 = x.id2 /\ u.secure = x.secure

LEMMA EndsFields ==
  ASSUME NEW x \in ContextType, NEW rs1 \in Secrets, NEW rs2 \in Secrets,
         NEW alarm \in BOOLEAN, NEW u,
         u = [x EXCEPT !.rs1 = rs1, !.rs2 = rs2, !.mismatch = alarm]
  PROVE  Ends(x, u, rs1, rs2, alarm)
<1>1. u \in ContextType
  BY DEF ContextType
<1>2. /\ u.rs1 = rs1 /\ u.rs2 = rs2 /\ u.mismatch = alarm /\ u.pvs = x.pvs
      /\ u.id1 = x.id1 /\ u.id2 = x.id2 /\ u.secure = x.secure
  BY DEF ContextType
<1>. QED BY <1>1, <1>2 DEF Ends

LEMMA ClearedFields ==
  ASSUME NEW x \in ContextType, NEW u, u = [x EXCEPT !.rs1 = None]
  PROVE  Ends(x, u, None, x.rs2, x.mismatch)
<1>1. None \in Secrets
  BY BoundsAssumption DEF None, Secrets
<1>2. u \in ContextType
  BY <1>1 DEF ContextType
<1>3. /\ u.rs1 = None /\ u.rs2 = x.rs2 /\ u.mismatch = x.mismatch
      /\ u.pvs = x.pvs
      /\ u.id1 = x.id1 /\ u.id2 = x.id2 /\ u.secure = x.secure
  BY DEF ContextType
<1>. QED BY <1>2, <1>3 DEF Ends

LEMMA DistrustFields ==
  ASSUME NEW u \in ContextType, NEW z, z = Distrust(u, u)
  PROVE  /\ z \in ContextType /\ z.rs1 = u.rs1 /\ z.rs2 = u.rs2
         /\ z.mismatch = u.mismatch /\ (z.pvs => u.pvs /\ ~u.mismatch)
         /\ z.id1 = u.id1 /\ z.id2 = u.id2 /\ z.secure = u.secure
<1>. DEFINE on == u.pvs /\ ~u.mismatch
<1>1. on \in BOOLEAN /\ (on => u.pvs /\ ~u.mismatch)
  BY ContextFields
<1>2. z = [u EXCEPT !.pvs = on]
  BY DEF Distrust
<1>. HIDE DEF on
<1>3. z \in ContextType
  BY <1>1, <1>2 DEF ContextType
<1>4. /\ z.rs1 = u.rs1 /\ z.rs2 = u.rs2 /\ z.mismatch = u.mismatch /\ z.pvs = on
      /\ z.id1 = u.id1 /\ z.id2 = u.id2 /\ z.secure = u.secure
  BY <1>2 DEF ContextType
<1>. QED BY <1>1, <1>3, <1>4

\* The initiator finds the secret that the two have in common.
LEMMA InitiatorMatches ==
  ASSUME NEW x, NEW y, Known(x), y \in ContextType,
         NEW u, u = MatchDHPart1(x, y.id1, y.id2), NEW z, z = Distrust(u, u)
  PROVE  Matched(x, z, y.id1, y.id2, Agreed(x, y))
<1>1. x \in ContextType /\ x.rs1 \in Secrets /\ x.rs2 \in Secrets
  BY ContextFields DEF Known
<1>2. None \in Secrets
  BY BoundsAssumption DEF None, Secrets
<1>. DEFINE miss == x.rs1 # None /\ x.rs1 \notin {y.id1, y.id2}
            save == x.rs2 # None /\ x.rs2 \in {y.id1, y.id2}
            no == FALSE
            yes == TRUE
<1>3. /\ ~miss => u = x
      /\ miss => u = [x EXCEPT !.rs1 = None, !.rs2 = IF save THEN x.rs2 ELSE None,
                              !.mismatch = ~save]
  BY <1>1 DEF MatchDHPart1, ContextType
<1>4. no \in BOOLEAN /\ yes \in BOOLEAN /\ ~no /\ yes
  OBVIOUS
<1>5. /\ miss /\ save => u = [x EXCEPT !.rs1 = None, !.rs2 = x.rs2, !.mismatch = no]
      /\ miss /\ ~save => u = [x EXCEPT !.rs1 = None, !.rs2 = None, !.mismatch = yes]
  <2>1. (save => (~save) = no) /\ (~save => (~save) = yes)
    OBVIOUS
  <2>. HIDE DEF miss, save, no, yes
  <2>. QED BY <1>3, <2>1
<1>. HIDE DEF no, yes
<1>6. CASE ~miss
  <2>1. Ends(x, u, x.rs1, x.rs2, x.mismatch)
    BY <1>1, <1>3, <1>6 DEF Ends
  <2>. QED
    BY <1>6, <2>1, DistrustFields DEF Ends, Known, Matched, Agreed, Common
<1>7. CASE miss /\ save
  <2>1. u = [x EXCEPT !.rs1 = None, !.rs2 = x.rs2, !.mismatch = no]
    BY <1>5, <1>7
  <2>2. Ends(x, u, None, x.rs2, no)
    BY ONLY <1>1, <1>2, <1>4, <2>1, EndsFields
  <2>. QED
    BY <1>4, <1>7, <2>2, DistrustFields DEF Ends, Known, Matched, Agreed, Common
<1>8. CASE miss /\ ~save
  <2>1. u = [x EXCEPT !.rs1 = None, !.rs2 = None, !.mismatch = yes]
    BY <1>5, <1>8
  <2>2. Ends(x, u, None, None, yes)
    BY ONLY <1>1, <1>2, <1>4, <2>1, EndsFields
  <2>3. /\ z \in ContextType /\ z.rs1 = None /\ z.rs2 = None /\ ~z.pvs
        /\ z.id1 = x.id1 /\ z.id2 = x.id2 /\ z.secure = x.secure
    BY <1>4, <2>2, DistrustFields DEF Ends
  <2>4. ~Common(x.id1, x.id2, y.id1, y.id2) /\ Agreed(x, y) = None
    BY <1>8 DEF Known, Agreed, Common
  <2>5. ~(x.id1 = y.id1 /\ x.id1 # None)
    BY <1>8 DEF Known
  <2>. QED BY <2>3, <2>4, <2>5 DEF Matched
<1>. QED BY <1>6, <1>7, <1>8

\* The responder finds the same one.
LEMMA ResponderMatches ==
  ASSUME NEW x, NEW y, Known(x), y \in ContextType, y.id1 = None => y.id2 = None,
         NEW u, u = MatchDHPart2(x, y.id1, y.id2), NEW z, z = Distrust(u, u)
  PROVE  Matched(x, z, y.id1, y.id2, Agreed(y, x))
<1>1. x \in ContextType /\ x.rs1 \in Secrets /\ x.rs2 \in Secrets
  BY ContextFields DEF Known
<1>2. None \in Secrets
  BY BoundsAssumption DEF None, Secrets
<1>. DEFINE same == \/ x.rs1 = None \/ x.rs1 = y.id1
                    \/ ~(x.rs2 # None /\ x.rs2 = y.id1) /\ x.rs1 = y.id2
            save == ~same /\ x.rs2 # None /\ x.rs2 \in {y.id1, y.id2}
            yes == TRUE
<1>3. yes \in BOOLEAN /\ yes
  OBVIOUS
<1>4. /\ same => u = x
      /\ save => u = [x EXCEPT !.rs1 = None]
      /\ ~same /\ ~save => u = [x EXCEPT !.rs1 = None, !.rs2 = None, !.mismatch = yes]
  <2>1. CASE x.rs1 = None \/ x.rs1 = y.id1
    BY <2>1 DEF MatchDHPart2
  <2>2. CASE x.rs1 # None /\ x.rs1 # y.id1 /\ x.rs2 # None /\ x.rs2 = y.id1
    BY <2>2 DEF MatchDHPart2
  <2>3. CASE x.rs1 # None /\ x.rs1 # y.id1 /\ ~(x.rs2 # None /\ x.rs2 = y.id1)
    <3>1. u = IF x.rs1 = y.id2 THEN x
              ELSE IF x.rs2 # None /\ x.rs2 = y.id2 THEN [x EXCEPT !.rs1 = None]
              ELSE [x EXCEPT !.rs1 = None, !.rs2 = None, !.mismatch = TRUE]
      BY <2>3 DEF MatchDHPart2
    <3>. QED BY <2>3, <3>1
  <2>. QED BY <2>1, <2>2, <2>3
<1>. HIDE DEF yes
<1>6. CASE same
  <2>1. Ends(x, u, x.rs1, x.rs2, x.mismatch)
    BY <1>1, <1>4, <1>6 DEF Ends
  <2>. QED
    BY <1>6, <2>1, DistrustFields DEF Ends, Known, Matched, Agreed, Common
<1>7. CASE save
  <2>0. u = [x EXCEPT !.rs1 = None]
    BY <1>4, <1>7
  <2>1. Ends(x, u, None, x.rs2, x.mismatch)
    BY ONLY <1>1, <2>0, ClearedFields
  <2>. QED
    BY <1>7, <2>1, DistrustFields DEF Ends, Known, Matched, Agreed, Common
<1>8. CASE ~same /\ ~save
  <2>1. u = [x EXCEPT !.rs1 = None, !.rs2 = None, !.mismatch = yes]
    BY <1>4, <1>8
  <2>2. Ends(x, u, None, None, yes)
    BY ONLY <1>1, <1>2, <1>3, <2>1, EndsFields
  <2>3. /\ z \in ContextType /\ z.rs1 = None /\ z.rs2 = None /\ ~z.pvs
        /\ z.id1 = x.id1 /\ z.id2 = x.id2 /\ z.secure = x.secure
    BY <1>3, <2>2, DistrustFields DEF Ends
  <2>4. ~Common(x.id1, x.id2, y.id1, y.id2) /\ Agreed(y, x) = None
    BY <1>8 DEF Known, Agreed, Common
  <2>5. ~(x.id1 = y.id1 /\ x.id1 # None)
    BY <1>8 DEF Known
  <2>. QED BY <2>3, <2>4, <2>5 DEF Matched
<1>. QED BY <1>6, <1>7, <1>8

\* The peer p derives the keys e.key of the main channel from the secret s, having
\* compared its secrets with those of q.
DerivedChannel(p, q, c, e, s) ==
    /\ e \in ChannelType
    /\ e.role = c.role /\ e.srtp = c.srtp /\ e.told = c.told
    /\ e.st = IF Leads(c) THEN "initDHPart2" ELSE "respConfirm1"
    /\ e.key = IF Leads(c) THEN <<p, p, s>> ELSE <<q, q, s>>
DerivedContext(x, y, z, e, u, s) ==
    /\ Matched(x, u, y.id1, y.id2, s)
    /\ z \in ContextType /\ z.sess = e.key /\ z.pvs = u.pvs /\ z.rs1 = u.rs1
    /\ z.id1 = u.id1 /\ z.id2 = u.id2
    /\ z.mismatch = u.mismatch /\ z.secure = u.secure
DerivedRow(row, rew) ==
    /\ rew \in CacheType
    /\ rew.rs1 = row.rs1 /\ rew.rs2 = row.rs2 /\ (rew.pvs => row.pvs)

LEMMA KeyedGood ==
  ASSUME NEW w \in WorldType, NEW p, NEW q, NEW c, NEW x, NEW row, NEW renewed,
         NEW d, NEW y, NEW rov, NEW e, NEW z, NEW rew, NEW s, NEW u,
         DHM(w), ~Keyed(c), ~Early(c), ~Fresh(d), Leads(c) => Follows(d),
         s = IF Leads(c) THEN Agreed(x, y) ELSE Agreed(y, x),
         DerivedChannel(p, q, c, e, s), DerivedContext(x, y, z, e, u, s),
         DerivedRow(row, rew),
         Good(w, p, q, c, x, row, renewed, d, y, rov)
  PROVE  Good(w, p, q, e, z, rew, renewed, d, y, rov) /\ Kept(w, p, c, e)
<1>. USE DEF DerivedChannel, DerivedContext, DerivedRow
<1>1. ~Mult(w)
  BY DEF Mult, DHM
<1>2. /\ ~Fresh(c) /\ ~Fresh(e) /\ ~Early(e) /\ Keyed(e) /\ ~Chosen(c)
      /\ c.st # "secure" /\ e.st # "secure"
      /\ Leads(e) <=> Leads(c)
      /\ Follows(e) <=> Follows(c)
      /\ Chosen(e) <=> Leads(c)
      /\ c.st \notin {"initDHPart2", "respConfirm1", "initConfirm2"}
      /\ ~(Leads(c) /\ Follows(c))
  BY DEF Fresh, Early, Keyed, Leads, Follows, Chosen
<1>3. Shape(w, c) /\ Row(row) /\ Context(w, c, x) /\ Renewal(w, c, x, row, renewed)
  BY DEF Good, Own
<1>4. c \in ChannelType /\ (Leads(c) \/ Follows(c))
  BY <1>3, ChannelFields DEF Shape, Leads, Follows
<1>5. Shape(w, e)
  <2>1. e.key # NoKey
    BY DEF NoKey
  <2>2. ~e.told /\ "sender" \notin e.srtp
    BY <1>2, <1>3 DEF Shape
  <2>3. /\ e.st \in {"respDHPart1", "respConfirm1"} => Follows(e)
        /\ Follows(e) => e.st \in {"respDHPart1", "respConfirm1", "secure"}
        /\ e.st \notin {"initConfirm2", "secure"}
    BY <1>2, <1>4
  <2>. QED BY <1>2, <2>1, <2>2, <2>3 DEF Shape
<1>6. Row(rew)
  BY <1>3 DEF Row
<1>7. /\ Start1(w, e, z, rew) = x.id1 /\ Start1(w, c, x, row) = x.id1
      /\ Start2(w, e, z, rew) = x.id2 /\ Start2(w, c, x, row) = x.id2
      /\ Start1(w, d, y, rov) = y.id1 /\ Start2(w, d, y, rov) = y.id2
  BY <1>2 DEF Start1, Start2, Matched
<1>8. Bond(w, x.id1, x.id2, y.id1, y.id2)
  BY <1>7 DEF Good, Pair
<1>9. Context(w, e, z)
  <2>1. /\ z.id1 = None => z.id2 = None
        /\ ~z.secure
    BY <1>1, <1>2, <1>3 DEF Context, Matched
  <2>2. z.mismatch => ~Harmless(w)
    BY <1>8 DEF Bond, Matched
  <2>3. z.sess # NoKey /\ z.sess[3] = s
    BY DEF NoKey
  <2>4. z.pvs => z.sess[3] # None
    BY <2>3 DEF Matched
  <2>5. Lucky(w) => z.rs1 = z.id1
    BY <1>8 DEF Bond, Matched
  <2>6. ~e.told
    BY <1>2, <1>3 DEF Shape
  <2>7. Rooted(w, e, z)
    BY <2>3, <2>4, <2>5, <2>6 DEF Rooted
  <2>. QED BY <1>1, <1>2, <2>1, <2>2, <2>7 DEF Context
<1>10. Renewal(w, e, z, rew, renewed)
  <2>1. ~x.secure /\ ~z.secure
    BY <1>1, <1>2, <1>3 DEF Context, Matched
  <2>. QED BY <1>3, <1>7, <2>1 DEF Renewal
<1>11. Abreast(e, d) /\ Abreast(d, e)
  BY <1>2 DEF Good, Pair, Abreast
<1>12. KeysOf(w, p, q, e, z, y) /\ KeysOf(w, q, p, d, y, z)
  <2>1. Agreed(z, y) = Agreed(x, y) /\ Agreed(y, z) = Agreed(y, x)
    BY DEF Agreed, Matched
  <2>2. e.key = IF Leads(e) THEN <<p, p, Agreed(z, y)>> ELSE <<q, q, Agreed(y, z)>>
    BY <1>2, <2>1
  <2>. QED BY <1>1, <2>1, <2>2 DEF Good, Pair, KeysOf
<1>13. Kept(w, p, c, e)
  BY <1>2 DEF Kept, Justified
<1>. QED
  BY <1>5, <1>6, <1>7, <1>9, <1>10, <1>11, <1>12, <1>13 DEF Good, Own, Pair

\* An initiator hears Confirm1: in multistream mode it derives its keys then.
LEMMA ConfirmGood ==
  ASSUME NEW w \in WorldType, NEW p, NEW q, NEW c, NEW x, NEW row, NEW renewed,
         NEW d, NEW y, NEW rov, NEW e \in ChannelType, NEW z \in ContextType,
         c.st = IF DHM(w) THEN "initDHPart2" ELSE "sendingCommit",
         e.st = "initConfirm2", e.role = c.role, e.told = c.told,
         e.srtp = {"receiver"},
         e.key = IF DHM(w) THEN c.key ELSE <<p, x.sess[2], x.sess[3]>>,
         z.id1 = x.id1, z.id2 = x.id2, z.secure = x.secure, z.pvs = x.pvs,
         z.mismatch = x.mismatch, z.sess = x.sess, z.rs1 = x.rs1,
         Follows(d),
         Good(w, p, q, c, x, row, renewed, d, y, rov)
  PROVE  Good(w, p, q, e, z, row, renewed, d, y, rov) /\ Kept(w, p, c, e)
<1>1. DHM(w) <=> ~Mult(w)
  BY DEF Mult, DHM, WorldType
<1>2. /\ ~Fresh(c) /\ ~Fresh(e) /\ ~Early(e) /\ Keyed(e) /\ ~Early(c)
      /\ Keyed(c) <=> DHM(w)
      /\ c.st # "secure" /\ e.st # "secure"
      /\ Leads(e) <=> Leads(c)
      /\ Follows(e) <=> Follows(c)
      /\ Chosen(e) <=> Leads(c)
      /\ c.st \notin {"respDHPart1", "respConfirm1", "initConfirm2"}
      /\ ~(Leads(c) /\ Follows(c))
  BY DEF Fresh, Early, Keyed, Leads, Follows, Chosen
<1>3. Shape(w, c) /\ Row(row) /\ Context(w, c, x) /\ Renewal(w, c, x, row, renewed)
  BY DEF Good, Own
<1>4. Leads(c) /\ ~Follows(c)
  BY <1>2, <1>3, ChannelFields DEF Shape, Leads, Follows
<1>5. Shape(w, e)
  <2>1. e.key # NoKey
    BY <1>2, <1>3 DEF NoKey, Shape
  <2>2. ~e.told /\ "sender" \notin e.srtp /\ "receiver" \in e.srtp
    BY <1>2, <1>3 DEF Shape
  <2>. QED BY <1>2, <1>4, <2>1, <2>2 DEF Shape
<1>6. /\ Start1(w, e, z, row) = x.id1 /\ Start1(w, c, x, row) = x.id1
      /\ Start2(w, e, z, row) = x.id2 /\ Start2(w, c, x, row) = x.id2
  BY <1>2 DEF Start1, Start2
<1>7. Context(w, e, z)
  <2>1. Rooted(w, c, x)
    BY <1>1, <1>2, <1>3 DEF Context
  <2>2. Rooted(w, e, z)
    BY <1>2, <2>1 DEF Rooted
  <2>. QED BY <1>2, <1>3, <2>2 DEF Context
<1>8. Renewal(w, e, z, row, renewed)
  BY <1>6, <1>3 DEF Renewal
<1>9. Abreast(e, d) /\ Abreast(d, e)
  BY <1>2, <1>4 DEF Good, Pair, Abreast
<1>10. KeysOf(w, p, q, e, z, y) /\ KeysOf(w, q, p, d, y, z)
  <2>1. Agreed(z, y) = Agreed(x, y) /\ Agreed(y, z) = Agreed(y, x)
    BY DEF Agreed
  <2>. QED BY <1>1, <1>2, <1>4, <2>1 DEF Good, Pair, KeysOf
<1>11. Kept(w, p, c, e)
  BY <1>2, <1>4 DEF Kept, Justified, Chosen
<1>. QED
  BY <1>3, <1>5, <1>6, <1>7, <1>8, <1>9, <1>10, <1>11 DEF Good, Own, Pair

\* A peer becomes secure and, in the main channel and without a mismatch, renews its
\* row.
LEMMA SecureGood ==
  ASSUME NEW w \in WorldType, NEW p, NEW q, NEW c, NEW x, NEW row, NEW renewed,
         NEW d, NEW y, NEW rov, NEW e \in ChannelType, NEW z \in ContextType,
         NEW rew \in CacheType, NEW renewing,
         IF Leads(c) THEN c.st = "initConfirm2" /\ d.st = "secure"
         ELSE c.st = "respConfirm1" /\ d.st \in {"initConfirm2", "secure"},
         e.st = "secure", e.role = c.role, e.srtp = {"receiver", "sender"},
         e.told => x.pvs, e.key = c.key,
         z.id1 = x.id1, z.id2 = x.id2, z.secure, z.pvs = x.pvs,
         z.mismatch = x.mismatch, z.sess = x.sess,
         IF DHM(w) /\ ~x.mismatch
         THEN rew.rs1 = w.n /\ rew.rs2 = x.rs1 /\ renewing
         ELSE rew = row /\ (renewing <=> renewed),
         Good(w, p, q, c, x, row, renewed, d, y, rov)
  PROVE  Good(w, p, q, e, z, rew, renewing, d, y, rov) /\ Kept(w, p, c, e)
<1>1. DHM(w) <=> ~Mult(w)
  BY DEF Mult, DHM, WorldType
<1>2. /\ ~Fresh(c) /\ ~Fresh(e) /\ ~Early(e) /\ Keyed(e) /\ Keyed(c) /\ ~Early(c)
      /\ c.st # "secure"
      /\ Leads(e) <=> Leads(c)
      /\ Follows(e) <=> Follows(c)
      /\ Chosen(e) <=> Chosen(c)
  BY DEF Fresh, Early, Keyed, Leads, Follows, Chosen
<1>3. Shape(w, c) /\ Row(row) /\ Context(w, c, x) /\ Renewal(w, c, x, row, renewed)
  BY DEF Good, Own
<1>4. Shape(w, e)
  <2>1. e.key # NoKey
    BY <1>2, <1>3 DEF Shape
  <2>2. "receiver" \in e.srtp
    OBVIOUS
  <2>. QED BY <1>2, <2>1, <2>2 DEF Shape
<1>5. /\ Start1(w, e, z, rew) = x.id1 /\ Start1(w, c, x, row) = x.id1
      /\ Start2(w, e, z, rew) = x.id2 /\ Start2(w, c, x, row) = x.id2
  BY <1>2 DEF Start1, Start2
<1>6. Rooted(w, c, x)
  BY <1>2, <1>3 DEF Context
<1>7. Context(w, e, z)
  <2>1. Rooted(w, e, z)
    BY <1>6 DEF Rooted
  <2>. QED BY <1>2, <1>3, <2>1 DEF Context
<1>8. w.n # None /\ w.n \in Nat
  BY BoundsAssumption DEF WorldType, None
<1>9. Row(rew)
  BY <1>3, <1>8 DEF Row
<1>10. Renewal(w, e, z, rew, renewing)
  <2>1. CASE DHM(w) /\ ~x.mismatch
    <3>1. rew.rs1 = w.n /\ renewing /\ (Lucky(w) => rew.rs2 = x.id1)
      BY <1>2, <1>6, <2>1 DEF Rooted
    <3>. QED BY <1>5, <3>1 DEF Renewal
  <2>2. CASE DHM(w) /\ x.mismatch
    BY <1>3, <1>5, <2>2 DEF Renewal
  <2>3. CASE Mult(w)
    <3>1. x.secure /\ rew = row /\ (renewing <=> renewed)
      BY <1>1, <1>3, <2>3 DEF Context
    <3>. QED BY <1>3, <1>5, <3>1 DEF Renewal
  <2>. QED BY <1>1, <2>1, <2>2, <2>3
<1>11. Abreast(e, d) /\ Abreast(d, e)
  BY <1>2 DEF Good, Pair, Abreast
<1>12. KeysOf(w, p, q, e, z, y) /\ KeysOf(w, q, p, d, y, z)
  <2>1. Agreed(z, y) = Agreed(x, y) /\ Agreed(y, z) = Agreed(y, x)
    BY DEF Agreed
  <2>. QED BY <1>1, <1>2, <2>1 DEF Good, Pair, KeysOf
<1>13. Kept(w, p, c, e)
  BY <1>2 DEF Kept, Justified
<1>. QED
  BY <1>4, <1>5, <1>7, <1>9, <1>10, <1>11, <1>12, <1>13 DEF Good, Own, Pair

\* The user verifies the SAS: a mismatch is forgiven and the row is renewed.
LEMMA VerifiedGood ==
  ASSUME NEW w \in WorldType, NEW p, NEW q, NEW c, NEW x, NEW row, NEW renewed,
         NEW d, NEW y, NEW rov, NEW z \in ContextType,
         NEW rew \in CacheType, NEW renewing,
         x.secure,
         z.id1 = x.id1, z.id2 = x.id2, z.secure = x.secure, z.pvs = x.pvs,
         ~z.mismatch, z.sess = x.sess, z.rs1 = x.rs1,
         IF x.mismatch THEN rew.rs1 = w.n /\ renewing
         ELSE rew.rs1 = row.rs1 /\ rew.rs2 = row.rs2 /\ (renewing <=> renewed),
         Good(w, p, q, c, x, row, renewed, d, y, rov)
  PROVE  Good(w, p, q, c, z, rew, renewing, d, y, rov)
<1>1. DHM(w) <=> ~Mult(w)
  BY DEF Mult, DHM, WorldType
<1>2. Shape(w, c) /\ Row(row) /\ Context(w, c, x) /\ Renewal(w, c, x, row, renewed)
  BY DEF Good, Own
<1>3. Mult(w) \/ c.st = "secure"
  BY <1>2 DEF Context
<1>4. Mult(w) \/ (Keyed(c) /\ ~Fresh(c))
  BY <1>3 DEF Keyed, Fresh
<1>5. /\ Start1(w, c, z, rew) = x.id1 /\ Start1(w, c, x, row) = x.id1
      /\ Start2(w, c, z, rew) = x.id2 /\ Start2(w, c, x, row) = x.id2
  BY <1>1, <1>4 DEF Start1, Start2
<1>6. Rooted(w, c, x)
  BY <1>2, <1>4 DEF Context
<1>7. Context(w, c, z)
  <2>1. Rooted(w, c, z)
    BY <1>6 DEF Rooted
  <2>. QED BY <1>1, <1>2, <1>4, <2>1 DEF Context
<1>8. w.n # None
  BY BoundsAssumption DEF WorldType, None
<1>9. rew.rs1 = w.n /\ renewing /\ (Lucky(w) => rew.rs2 = x.id1)
  <2>1. CASE x.mismatch
    <3>1. ~Harmless(w)
      BY <1>2, <2>1 DEF Context
    <3>2. ~Lucky(w)
      BY <3>1 DEF Harmless, Lucky
    <3>. QED BY <2>1, <3>2
  <2>2. CASE ~x.mismatch
    BY <1>2, <1>5, <2>2 DEF Renewal
  <2>. QED BY <2>1, <2>2
<1>10. Row(rew)
  BY <1>8, <1>9 DEF Row
<1>11. Renewal(w, c, z, rew, renewing)
  BY <1>5, <1>9 DEF Renewal
<1>12. KeysOf(w, p, q, c, z, y) /\ KeysOf(w, q, p, d, y, z)
  <2>1. Agreed(z, y) = Agreed(x, y) /\ Agreed(y, z) = Agreed(y, x)
    BY DEF Agreed
  <2>. QED BY <2>1 DEF Good, Pair, KeysOf
<1>. QED BY <1>2, <1>5, <1>7, <1>10, <1>11, <1>12 DEF Good, Own, Pair

\* The user takes the verification back.
LEMMA UnverifiedGood ==
  ASSUME NEW w \in WorldType, NEW p, NEW q, NEW c, NEW x, NEW row, NEW renewed,
         NEW d, NEW y, NEW rov, NEW rew \in CacheType,
         rew.rs1 = row.rs1, rew.rs2 = row.rs2, ~rew.pvs,
         Good(w, p, q, c, x, row, renewed, d, y, rov)
  PROVE  Good(w, p, q, c, x, rew, renewed, d, y, rov)
<1>1. /\ Start1(w, c, x, rew) = Start1(w, c, x, row)
      /\ Start2(w, c, x, rew) = Start2(w, c, x, row)
  BY DEF Start1, Start2
<1>2. Row(rew)
  BY DEF Good, Own, Row
<1>3. Renewal(w, c, x, rew, renewed)
  BY <1>1 DEF Good, Own, Renewal
<1>. QED BY <1>1, <1>2, <1>3 DEF Good, Own, Pair

-----------------------------------------------------------------------------
(* The handlers. *)

LEMMA TimerFields ==
  ASSUME NEW c \in ChannelType
  PROVE  /\ Armed(c) \in ChannelType /\ Alike(c, Armed(c))
         /\ Stopped(c) \in ChannelType /\ Alike(c, Stopped(c))
<1>. DEFINE yes == TRUE
            no == FALSE
<1>1. yes \in BOOLEAN /\ no \in BOOLEAN
  OBVIOUS
<1>2. 0 \in Int
  OBVIOUS
<1>3. /\ Armed(c) = [c EXCEPT !.on = yes, !.count = 0]
      /\ Stopped(c) = [c EXCEPT !.on = no, !.count = 0]
  BY DEF Armed, Stopped
<1>. HIDE DEF yes, no
<1>4. Armed(c) \in ChannelType /\ Stopped(c) \in ChannelType
  BY <1>1, <1>2, <1>3 DEF ChannelType
<1>5. Alike(c, Armed(c)) /\ Alike(c, Stopped(c))
  BY <1>3 DEF ChannelType, Alike
<1>. QED BY <1>4, <1>5

LEMMA MovedFields ==
  ASSUME NEW c \in ChannelType, NEW b \in ChannelType, Alike(c, b),
         NEW st \in States, NEW e, e = [b EXCEPT !.st = st]
  PROVE  e \in ChannelType /\ Moved(c, e, st)
<1>1. e \in ChannelType
  BY DEF ChannelType
<1>2. /\ e.st = st /\ e.role = b.role /\ e.key = b.key
      /\ e.srtp = b.srtp /\ e.told = b.told
  BY DEF ChannelType
<1>. QED BY <1>1, <1>2 DEF Moved, Alike

\* A handler gives p the records e, z and rew.
Outcome(p, e, z, rew) ==
    /\ chan' = [chan EXCEPT ![p] = e] /\ ctx' = [ctx EXCEPT ![p] = z]
    /\ cache' = [cache EXCEPT ![p] = rew]
    /\ updated' \subseteq Peers /\ updated' \ {p} = updated \ {p}
    /\ Good(World, p, Other(p), e, z, rew, p \in updated',
            chan[Other(p)], ctx[Other(p)], cache[Other(p)])
    /\ Kept(World, p, chan[p], e)

LEMMA LocalStep ==
  ASSUME IInv, NEW p \in Peers, NEW e, NEW z, NEW rew, Outcome(p, e, z, rew),
         World' = World, call' \in CallType, call'.n = call.n,
         UNCHANGED <<shared, halves>>,
         net' \in [Peers -> Seq(Types)], Sent(Other(p))' \subseteq Sent(Other(p)),
         \A m \in Sent(p)' : m \in Sent(p) \/ Justified(World, p, e, m)
  PROVE  IInv'
<1>1. Step(p, e, z, rew)
  <2>1. /\ halves' < call'.n
        /\ shared' \in BOOLEAN /\ halves' \in 0 .. MaxCalls
    BY DEF IInv, WellTyped
  <2>. QED BY <2>1 DEF Step, Outcome
<1>2. ASSUME NEW m \in Sent(p)'
      PROVE  Justified(World, p, e, m)
  <2>1. CASE m \in Sent(p)
    <3>1. Justified(World, p, chan[p], m)
      BY <2>1, FromInv
    <3>2. m \in Types
      BY <2>1 DEF IInv, WellTyped, Sent
    <3>. QED BY <3>1, <3>2 DEF Kept, Outcome
  <2>. QED BY <1>2, <2>1
<1>. QED BY <1>1, <1>2, PeerStep DEF Outcome

LEMMA AnswerStep ==
  ASSUME IInv, NEW p \in Peers, net[Other(p)] # <<>>,
         UNCHANGED <<call, shared, halves>>,
         NEW e, NEW z, NEW rew, Outcome(p, e, z, rew),
         NEW packets \in Seq(Types), Answer(p, packets),
         \A k \in 1 .. Len(packets) : Justified(World, p, e, packets[k])
  PROVE  IInv'
<1>1. WellTyped
  BY DEF IInv
<1>2. /\ net' \in [Peers -> Seq(Types)]
      /\ Sent(Other(p))' \subseteq Sent(Other(p))
      /\ \A m \in Sent(p)' : \/ m \in Sent(p)
                             \/ \E k \in 1 .. Len(packets) : m = packets[k]
  BY <1>1, AnswerSent
<1>3. \A m \in Sent(p)' : m \in Sent(p) \/ Justified(World, p, e, m)
  BY <1>2
<1>4. World' = World /\ call' \in CallType /\ call'.n = call.n
  BY <1>1 DEF World, WellTyped
<1>. QED BY <1>2, <1>3, <1>4, LocalStep

\* The head of the packets of the other peer is justified.
LEMMA HeadJustified ==
  ASSUME IInv, NEW p \in Peers, net[Other(p)] # <<>>
  PROVE  Justified(World, Other(p), chan[Other(p)], Head(net[Other(p)]))
<1>1. net[Other(p)] \in Seq(Types)
  BY TwoPeers DEF IInv, WellTyped
<1>2. 1 \in DOMAIN net[Other(p)] /\ Head(net[Other(p)]) = net[Other(p)][1]
  BY <1>1
<1>3. Head(net[Other(p)]) \in Sent(Other(p))
  BY <1>2 DEF Sent
<1>. QED BY <1>3, FromInv

LEMMA AnswerNone ==
  ASSUME IInv, NEW p \in Peers, net[Other(p)] # <<>>,
         UNCHANGED <<call, shared, halves>>,
         NEW e, NEW z, NEW rew, Outcome(p, e, z, rew), Answer(p, <<>>)
  PROVE  IInv'
<1>. DEFINE none == <<>>
<1>1. none \in Seq(Types) /\ \A k \in 1 .. Len(none) : Justified(World, p, e, none[k])
  OBVIOUS
<1>2. Answer(p, none)
  OBVIOUS
<1>. HIDE DEF none
<1>. QED BY <1>1, <1>2, AnswerStep

LEMMA AnswerOne ==
  ASSUME IInv, NEW p \in Peers, net[Other(p)] # <<>>,
         UNCHANGED <<call, shared, halves>>,
         NEW e, NEW z, NEW rew, Outcome(p, e, z, rew),
         NEW m \in Types, Answer(p, <<m>>), Justified(World, p, e, m)
  PROVE  IInv'
<1>. DEFINE one == <<m>>
<1>1. one \in Seq(Types) /\ \A k \in 1 .. Len(one) : Justified(World, p, e, one[k])
  OBVIOUS
<1>2. Answer(p, one)
  OBVIOUS
<1>. HIDE DEF one
<1>. QED BY <1>1, <1>2, AnswerStep

\* A handler that changes nothing
LEMMA SameOutcome ==
  ASSUME IInv, NEW p \in Peers, UNCHANGED <<chan, ctx, cache, updated>>
  PROVE  Outcome(p, chan[p], ctx[p], cache[p])
<1>1. /\ chan' = [chan EXCEPT ![p] = chan[p]] /\ ctx' = [ctx EXCEPT ![p] = ctx[p]]
      /\ cache' = [cache EXCEPT ![p] = cache[p]]
  BY DEF IInv, WellTyped
<1>2. updated' \subseteq Peers /\ updated' \ {p} = updated \ {p}
  BY DEF IInv, WellTyped
<1>3. Good(World, p, Other(p), chan[p], ctx[p], cache[p], p \in updated',
           chan[Other(p)], ctx[Other(p)], cache[Other(p)])
  BY FromInv
<1>4. Kept(World, p, chan[p], chan[p])
  BY DEF Kept
<1>. QED BY <1>1, <1>2, <1>3, <1>4 DEF Outcome

\* What the invariant says of the peers of a handler
LEMMA Facts ==
  ASSUME IInv, NEW p \in Peers
  PROVE  /\ chan[p] \in ChannelType /\ ctx[p] \in ContextType
         /\ cache[p] \in CacheType
         /\ chan[Other(p)] \in ChannelType /\ ctx[Other(p)] \in ContextType
         /\ cache[Other(p)] \in CacheType
         /\ Shape(World, chan[p]) /\ Shape(World, chan[Other(p)])
         /\ World.mode = call.mode /\ World.lower = call.lower /\ World.n = call.n
         /\ call.mode \in {"DHM", "Mult"} /\ call.n \in 1 .. MaxCalls
         /\ updated \subseteq Peers
BY FromInv, TwoPeers DEF IInv, WellTyped, CallType, World, Good, Own

LEMMA HelloContext ==
  ASSUME IInv, NEW p \in Peers, NEW z,
         z = responseToHelloMessage(ctx[p], cache[p])
  PROVE  /\ z \in ContextType
         /\ Mult(World) => z = ctx[p]
         /\ DHM(World) => /\ z.rs1 = cache[p].rs1 /\ z.rs2 = cache[p].rs2
                          /\ z.pvs = cache[p].pvs
                          /\ z.id1 = cache[p].rs1 /\ z.id2 = cache[p].rs2
                          /\ z.mismatch = ctx[p].mismatch
                          /\ z.secure = ctx[p].secure
<1>1. ctx[p] \in ContextType /\ cache[p] \in CacheType /\ World.mode = call.mode
  BY Facts
<1>. DEFINE x == ctx[p]
            row == cache[p]
<1>2. row.rs1 \in Secrets /\ row.rs2 \in Secrets /\ row.pvs \in BOOLEAN
  BY <1>1 DEF CacheType
<1>3. Mult(World) => z = x
  BY <1>1 DEF responseToHelloMessage, Mult
<1>4. ~Mult(World) =>
        z = [x EXCEPT !.rs1 = row.rs1, !.rs2 = row.rs2, !.pvs = row.pvs,
                      !.id1 = row.rs1, !.id2 = row.rs2]
  BY <1>1 DEF responseToHelloMessage, Mult
<1>. DEFINE v == [x EXCEPT !.rs1 = row.rs1, !.rs2 = row.rs2, !.pvs = row.pvs,
                           !.id1 = row.rs1, !.id2 = row.rs2]
<1>5. v \in ContextType
  <2>. HIDE DEF row, x
  <2>1. x \in ContextType
    BY <1>1 DEF x
  <2>. QED BY <1>2, <2>1 DEF ContextType
<1>6. /\ v.rs1 = row.rs1 /\ v.rs2 = row.rs2 /\ v.pvs = row.pvs
      /\ v.id1 = row.rs1 /\ v.id2 = row.rs2
      /\ v.mismatch = x.mismatch /\ v.secure = x.secure
  <2>. HIDE DEF row, x
  <2>1. x \in ContextType
    BY <1>1 DEF x
  <2>. QED BY <2>1 DEF ContextType
<1>7. DHM(World) => ~Mult(World)
  BY DEF DHM, Mult
<1>8. ~Mult(World) => z = v
  BY <1>4
<1>. HIDE DEF v
<1>. QED BY <1>1, <1>3, <1>5, <1>6, <1>7, <1>8

LEMMA InitStep ==
  ASSUME IInv, NEW p \in Peers, net[Other(p)] # <<>>, NEW m,
         UNCHANGED <<call, shared, halves>>, state_discovery_init(p, m)
  PROVE  IInv'
<1>1. /\ chan[p] \in ChannelType /\ chan[Other(p)] \in ChannelType
      /\ World \in WorldType
      /\ Good(World, p, Other(p), chan[p], ctx[p], cache[p], p \in updated,
              chan[Other(p)], ctx[Other(p)], cache[Other(p)])
      /\ updated \subseteq Peers
  BY Facts, FromInv
<1>2. chan[p].st = "init" /\ Fresh(chan[p]) /\ UNCHANGED <<cache, updated>>
  BY DEF state_discovery_init, Fresh
<1>3. cache' = [cache EXCEPT ![p] = cache[p]]
  BY <1>2 DEF IInv, WellTyped
<1>4. CASE /\ ctx' = [ctx EXCEPT ![p] = responseToHelloMessage(@, cache[p])]
           /\ chan' = [chan EXCEPT ![p] = AfterHello(@)]
           /\ Answer(p, <<"HelloAck">>)
  <2>. DEFINE z == responseToHelloMessage(ctx[p], cache[p])
              e == AfterHello(chan[p])
  <2>1. ctx' = [ctx EXCEPT ![p] = z] /\ chan' = [chan EXCEPT ![p] = e]
    BY <1>4 DEF IInv, WellTyped
  <2>2. e \in ChannelType /\ Moved(chan[p], e, "waitHelloAck")
    BY <1>1, TimerFields, MovedFields DEF AfterHello, States
  <2>3. /\ z \in ContextType
        /\ Mult(World) => z = ctx[p]
        /\ DHM(World) => /\ z.rs1 = cache[p].rs1 /\ z.rs2 = cache[p].rs2
                         /\ z.pvs = cache[p].pvs
                         /\ z.id1 = cache[p].rs1 /\ z.id2 = cache[p].rs2
                         /\ z.mismatch = ctx[p].mismatch
                         /\ z.secure = ctx[p].secure
    BY HelloContext
  <2>. HIDE DEF z, e
  <2>4. /\ Good(World, p, Other(p), e, z, cache[p], p \in updated,
                chan[Other(p)], ctx[Other(p)], cache[Other(p)])
        /\ Kept(World, p, chan[p], e)
    BY <1>1, <1>2, <2>2, <2>3, HelloGood
  <2>5. "HelloAck" \in Types /\ Justified(World, p, e, "HelloAck")
    BY DEF Types, Justified
  <2>6. Outcome(p, e, z, cache[p])
    BY <1>1, <1>2, <1>3, <2>1, <2>4 DEF Outcome
  <2>. QED BY <1>4, <2>5, <2>6, AnswerOne
<1>5. CASE /\ chan' = [chan EXCEPT ![p] = [Stopped(@) EXCEPT !.st = "waitHello"]]
           /\ Answer(p, <<>>)
           /\ UNCHANGED ctx
  <2>. DEFINE e == [Stopped(chan[p]) EXCEPT !.st = "waitHello"]
  <2>1. ctx' = [ctx EXCEPT ![p] = ctx[p]] /\ chan' = [chan EXCEPT ![p] = e]
    BY <1>5 DEF IInv, WellTyped
  <2>2. e \in ChannelType /\ Moved(chan[p], e, "waitHello")
    BY <1>1, TimerFields, MovedFields DEF States
  <2>. HIDE DEF e
  <2>4. /\ Good(World, p, Other(p), e, ctx[p], cache[p], p \in updated,
                chan[Other(p)], ctx[Other(p)], cache[Other(p)])
        /\ Kept(World, p, chan[p], e)
    BY <1>1, <1>2, <2>2, FreshGood
  <2>5. Outcome(p, e, ctx[p], cache[p])
    BY <1>1, <1>2, <1>3, <2>1, <2>4 DEF Outcome
  <2>. QED BY <1>5, <2>5, AnswerNone
<1>. QED BY <1>4, <1>5 DEF state_discovery_init

LEMMA WaitHelloStep ==
  ASSUME IInv, NEW p \in Peers, net[Other(p)] # <<>>, NEW m,
         UNCHANGED <<call, shared, halves>>, state_discovery_waitingForHello(p, m)
  PROVE  IInv'
<1>1. /\ chan[p] \in ChannelType /\ chan[Other(p)] \in ChannelType
      /\ World \in WorldType
      /\ Good(World, p, Other(p), chan[p], ctx[p], cache[p], p \in updated,
              chan[Other(p)], ctx[Other(p)], cache[Other(p)])
      /\ updated \subseteq Peers
  BY Facts, FromInv
<1>2. chan[p].st = "waitHello" /\ Fresh(chan[p]) /\ UNCHANGED <<cache, updated>>
  BY DEF state_discovery_waitingForHello, Fresh
<1>3. cache' = [cache EXCEPT ![p] = cache[p]]
  BY <1>2 DEF IInv, WellTyped
<1>. DEFINE z == responseToHelloMessage(ctx[p], cache[p])
            e == SendingCommit(chan[p])
            reply == <<"HelloAck", "Commit">>
<1>4. /\ ctx' = [ctx EXCEPT ![p] = z] /\ chan' = [chan EXCEPT ![p] = e]
      /\ Answer(p, reply)
  BY DEF IInv, WellTyped, state_discovery_waitingForHello
<1>5. e \in ChannelType /\ Moved(chan[p], e, "sendingCommit")
  BY <1>1, TimerFields, MovedFields DEF SendingCommit, States
<1>6. /\ z \in ContextType
      /\ Mult(World) => z = ctx[p]
      /\ DHM(World) => /\ z.rs1 = cache[p].rs1 /\ z.rs2 = cache[p].rs2
                       /\ z.pvs = cache[p].pvs
                       /\ z.id1 = cache[p].rs1 /\ z.id2 = cache[p].rs2
                       /\ z.mismatch = ctx[p].mismatch
                       /\ z.secure = ctx[p].secure
  BY HelloContext
<1>. HIDE DEF z, e
<1>7. /\ Good(World, p, Other(p), e, z, cache[p], p \in updated,
              chan[Other(p)], ctx[Other(p)], cache[Other(p)])
      /\ Kept(World, p, chan[p], e)
  BY <1>1, <1>2, <1>5, <1>6, HelloGood
<1>8. reply \in Seq(Types)
  BY DEF Types
<1>9. Justified(World, p, e, "HelloAck") /\ Justified(World, p, e, "Commit")
  <2>1. ~Early(e) /\ ~Follows(e)
    BY <1>5, <1>7 DEF Moved, Early, Fresh, Good, Own, Shape
  <2>. QED BY <2>1 DEF Justified
<1>10. \A k \in 1 .. Len(reply) : Justified(World, p, e, reply[k])
  BY <1>9
<1>11. Outcome(p, e, z, cache[p])
  BY <1>1, <1>2, <1>3, <1>4, <1>7 DEF Outcome
<1>. HIDE DEF reply
<1>. QED BY <1>4, <1>8, <1>10, <1>11, AnswerStep

LEMMA MultKeyType ==
  ASSUME IInv, NEW p \in Peers, Mult(World), NEW a \in Peers
  PROVE  /\ MultKey(p, a) \in Keys
         /\ MultKey(p, a) = <<a, ctx[p].sess[2], ctx[p].sess[3]>>
<1>1. ctx[p].sess # NoKey /\ ctx[p] \in ContextType
  BY FromInv, Facts DEF Good, Own, Context, Rooted
<1>2. ctx[p].sess \in Keys
  BY <1>1, ContextFields
<1>3. ctx[p].sess[2] \in Peers /\ ctx[p].sess[3] \in Secrets
  BY <1>2 DEF Keys
<1>. QED BY <1>3 DEF MultKey, Keys

LEMMA TurnStep ==
  ASSUME IInv, NEW p \in Peers, net[Other(p)] # <<>>,
         UNCHANGED <<call, shared, halves>>, UNCHANGED <<ctx, cache, updated>>,
         Head(net[Other(p)]) = "Commit",
         \/ chan[p].st = "waitHelloAck"
         \/ chan[p].st = "sendingCommit" /\ call.lower = p,
         turnIntoResponder(p)
  PROVE  IInv'
<1>. DEFINE q == Other(p)
<1>1. /\ chan[p] \in ChannelType /\ chan[q] \in ChannelType
      /\ World \in WorldType
      /\ Good(World, p, q, chan[p], ctx[p], cache[p], p \in updated,
              chan[q], ctx[q], cache[q])
      /\ updated \subseteq Peers
      /\ World.mode = call.mode /\ World.lower = call.lower
      /\ call.mode \in {"DHM", "Mult"}
  BY Facts, FromInv
<1>2. q \in Peers /\ p # q
  BY TwoPeers
<1>3. Justified(World, q, chan[q], "Commit")
  BY HeadJustified
<1>4. ctx' = [ctx EXCEPT ![p] = ctx[p]] /\ cache' = [cache EXCEPT ![p] = cache[p]]
  BY DEF IInv, WellTyped
<1>. DEFINE b == Stopped(chan[p])
            f == "responder"
            c == [b EXCEPT !.role = f]
            e1 == [c EXCEPT !.st = "respDHPart1"]
            k == MultKey(p, q)
            e2 == [c EXCEPT !.st = "respConfirm1", !.key = k]
<1>5. b \in ChannelType /\ Alike(chan[p], b)
  BY <1>1, TimerFields
<1>. HIDE DEF b
<1>6. c \in ChannelType /\ e1 \in ChannelType
  BY <1>5 DEF ChannelType, States
<1>7. c.srtp = b.srtp /\ c.told = b.told /\ c.key = b.key /\ c.role = f
  BY <1>5 DEF ChannelType
<1>8. CASE DHM(World)
  <2>1. chan' = [chan EXCEPT ![p] = e1] /\ Answer(p, <<"DHPart1">>)
    BY <1>1, <1>8 DEF DHM, turnIntoResponder, b
  <2>2. /\ e1.st = "respDHPart1" /\ e1.key = chan[p].key /\ Follows(e1)
        /\ e1.srtp = chan[p].srtp /\ e1.told = chan[p].told
    BY <1>5, <1>6, <1>7 DEF ChannelType, Alike, Follows
  <2>. HIDE DEF e1
  <2>3. /\ Good(World, p, q, e1, ctx[p], cache[p], p \in updated,
                chan[q], ctx[q], cache[q])
        /\ Kept(World, p, chan[p], e1)
    <3>1. ~Mult(World)
      BY <1>8 DEF DHM, Mult
    <3>. QED BY <1>1, <1>2, <1>3, <1>6, <2>2, <3>1, TurnGood
  <2>4. Outcome(p, e1, ctx[p], cache[p])
    BY <1>1, <1>4, <2>1, <2>3 DEF Outcome
  <2>5. "DHPart1" \in Types /\ Justified(World, p, e1, "DHPart1")
    BY <1>8, <2>2 DEF Types, Justified
  <2>. QED BY <2>1, <2>4, <2>5, AnswerOne
<1>9. CASE Mult(World)
  <2>1. chan' = [chan EXCEPT ![p] = e2] /\ Answer(p, <<"Confirm1">>)
    BY <1>1, <1>9 DEF Mult, turnIntoResponder, b
  <2>2. k \in Keys /\ k = <<q, ctx[p].sess[2], ctx[p].sess[3]>>
    BY <1>2, <1>9, MultKeyType
  <2>. HIDE DEF k
  <2>3. e2 \in ChannelType
    BY <1>6, <2>2 DEF ChannelType, States
  <2>4. /\ e2.st = "respConfirm1" /\ e2.key = k /\ Follows(e2)
        /\ e2.srtp = chan[p].srtp /\ e2.told = chan[p].told
    BY <1>5, <1>6, <1>7 DEF ChannelType, Alike, Follows
  <2>. HIDE DEF e2
  <2>5. /\ Good(World, p, q, e2, ctx[p], cache[p], p \in updated,
                chan[q], ctx[q], cache[q])
        /\ Kept(World, p, chan[p], e2)
    <3>1. ~DHM(World)
      BY <1>9 DEF DHM, Mult
    <3>. QED BY <1>1, <1>2, <1>3, <2>2, <2>3, <2>4, <3>1, TurnGood
  <2>6. Outcome(p, e2, ctx[p], cache[p])
    BY <1>1, <1>4, <2>1, <2>5 DEF Outcome
  <2>7. "Confirm1" \in Types /\ Justified(World, p, e2, "Confirm1")
    BY <2>4 DEF Types, Justified, Keyed
  <2>. QED BY <2>1, <2>6, <2>7, AnswerOne
<1>. QED BY <1>1, <1>8, <1>9 DEF DHM, Mult

LEMMA WaitHelloAckStep ==
  ASSUME IInv, NEW p \in Peers, net[Other(p)] # <<>>, NEW m,
         m = Head(net[Other(p)]),
         UNCHANGED <<call, shared, halves>>,
         state_discovery_waitingForHelloAck(p, m)
  PROVE  IInv'
<1>1. /\ chan[p] \in ChannelType /\ chan[Other(p)] \in ChannelType
      /\ World \in WorldType
      /\ Good(World, p, Other(p), chan[p], ctx[p], cache[p], p \in updated,
              chan[Other(p)], ctx[Other(p)], cache[Other(p)])
      /\ updated \subseteq Peers
  BY Facts, FromInv
<1>2. chan[p].st = "waitHelloAck" /\ UNCHANGED <<ctx, cache, updated>>
  BY DEF state_discovery_waitingForHelloAck
<1>3. CASE m = "Hello" /\ Answer(p, <<"HelloAck">>) /\ UNCHANGED chan
  <2>1. Outcome(p, chan[p], ctx[p], cache[p])
    BY <1>2, <1>3, SameOutcome
  <2>2. "HelloAck" \in Types /\ Justified(World, p, chan[p], "HelloAck")
    BY DEF Types, Justified
  <2>. QED BY <1>3, <2>1, <2>2, AnswerOne
<1>4. CASE /\ chan' = [chan EXCEPT ![p] = SendingCommit(@)]
           /\ Answer(p, <<"Commit">>)
  <2>. DEFINE e == SendingCommit(chan[p])
  <2>1. /\ chan' = [chan EXCEPT ![p] = e] /\ ctx' = [ctx EXCEPT ![p] = ctx[p]]
        /\ cache' = [cache EXCEPT ![p] = cache[p]]
    BY <1>2, <1>4 DEF IInv, WellTyped
  <2>2. e \in ChannelType /\ Moved(chan[p], e, "sendingCommit")
    BY <1>1, TimerFields, MovedFields DEF SendingCommit, States
  <2>. HIDE DEF e
  <2>3. /\ Good(World, p, Other(p), e, ctx[p], cache[p], p \in updated,
                chan[Other(p)], ctx[Other(p)], cache[Other(p)])
        /\ Kept(World, p, chan[p], e)
    BY <1>1, <1>2, <2>2, CommitGood
  <2>4. Outcome(p, e, ctx[p], cache[p])
    BY <1>1, <1>2, <2>1, <2>3 DEF Outcome
  <2>5. ~Early(e) /\ ~Follows(e)
    BY <2>2, <2>3 DEF Moved, Early, Fresh, Good, Own, Shape
  <2>6. "Commit" \in Types /\ Justified(World, p, e, "Commit")
    BY <2>5 DEF Types, Justified
  <2>. QED BY <1>4, <2>4, <2>6, AnswerOne
<1>5. CASE m = "Commit" /\ turnIntoResponder(p)
  BY <1>2, <1>5, TurnStep
<1>. QED BY <1>3, <1>4, <1>5 DEF state_discovery_waitingForHelloAck

\* A peer that has seen the Hello and has no key yet knows its secrets.
LEMMA KnownContext ==
  ASSUME IInv, NEW p \in Peers, DHM(World), ~Keyed(chan[p]), ~Fresh(chan[p])
  PROVE  Known(ctx[p])
<1>1. Context(World, chan[p], ctx[p])
  BY FromInv DEF Good, Own
<1>. QED BY <1>1 DEF Context, Unkeyed, Known

\* A peer p compares its secrets, derives the keys and marks its row: a is the
\* initiator, v what the comparison leaves, st the state that follows.
LEMMA DeriveStep ==
  ASSUME IInv, NEW p \in Peers, net[Other(p)] # <<>>,
         UNCHANGED <<call, shared, halves, updated>>,
         NEW b \in ChannelType, Alike(chan[p], b), NEW st \in States,
         NEW v, NEW s0, NEW u, u = Distrust(v, v), NEW a \in Peers,
         s0 = S0DHMMode(u, a),
         a = IF Leads(chan[p]) THEN p ELSE Other(p),
         st = IF Leads(chan[p]) THEN "initDHPart2" ELSE "respConfirm1",
         Matched(ctx[p], u, ctx[Other(p)].id1, ctx[Other(p)].id2,
                 IF Leads(chan[p]) THEN Agreed(ctx[p], ctx[Other(p)])
                 ELSE Agreed(ctx[Other(p)], ctx[p])),
         ctx' = [ctx EXCEPT ![p] = [u EXCEPT !.sess = s0]],
         cache' = [cache EXCEPT ![p] = Distrust(cache[p], u)],
         chan' = [chan EXCEPT ![p] = [b EXCEPT !.st = st, !.key = s0]],
         DHM(World), ~Keyed(chan[p]), ~Early(chan[p]), ~Fresh(chan[Other(p)]),
         Leads(chan[p]) => Follows(chan[Other(p)]),
         NEW m \in Types, Answer(p, <<m>>),
         m = IF Leads(chan[p]) THEN "DHPart2" ELSE "Confirm1"
  PROVE  IInv'
<1>. DEFINE q == Other(p)
            s == IF Leads(chan[p]) THEN Agreed(ctx[p], ctx[q])
                 ELSE Agreed(ctx[q], ctx[p])
            e == [b EXCEPT !.st = st, !.key = s0]
            z == [u EXCEPT !.sess = s0]
            rew == Distrust(cache[p], u)
<1>1. /\ chan[p] \in ChannelType /\ chan[q] \in ChannelType
      /\ cache[p] \in CacheType
      /\ World \in WorldType
      /\ Good(World, p, q, chan[p], ctx[p], cache[p], p \in updated,
              chan[q], ctx[q], cache[q])
      /\ updated \subseteq Peers
  BY Facts, FromInv
<1>2. u \in ContextType /\ s = IF u.rs1 # None THEN u.rs1 ELSE u.rs2
  BY DEF Matched
<1>3. s0 = <<a, a, s>> /\ s \in Secrets
  BY <1>2, ContextFields DEF S0DHMMode
<1>. HIDE DEF s
<1>4. s0 \in Keys
  BY <1>3 DEF Keys
<1>5. e \in ChannelType
  BY <1>4 DEF ChannelType
<1>6. /\ e.st = st /\ e.key = s0 /\ e.role = chan[p].role
      /\ e.srtp = chan[p].srtp /\ e.told = chan[p].told
  BY DEF ChannelType, Alike
<1>7. z \in ContextType
  BY <1>2, <1>4 DEF ContextType
<1>8. /\ z.sess = s0 /\ z.pvs = u.pvs /\ z.rs1 = u.rs1 /\ z.id1 = u.id1
      /\ z.id2 = u.id2 /\ z.mismatch = u.mismatch /\ z.secure = u.secure
  BY <1>2 DEF ContextType
<1>9. /\ rew \in CacheType /\ rew.rs1 = cache[p].rs1 /\ rew.rs2 = cache[p].rs2
      /\ rew.pvs => cache[p].pvs
  <2>. DEFINE on == cache[p].pvs /\ ~u.mismatch
  <2>1. on \in BOOLEAN /\ (on => cache[p].pvs)
    BY <1>1 DEF CacheType
  <2>2. rew = [cache[p] EXCEPT !.pvs = on]
    BY DEF Distrust
  <2>. HIDE DEF on, rew
  <2>3. rew \in CacheType
    BY <1>1, <2>1, <2>2 DEF CacheType
  <2>4. rew.rs1 = cache[p].rs1 /\ rew.rs2 = cache[p].rs2 /\ rew.pvs = on
    BY <1>1, <2>2 DEF CacheType
  <2>. QED BY <2>1, <2>3, <2>4
<1>10. chan' = [chan EXCEPT ![p] = e] /\ ctx' = [ctx EXCEPT ![p] = z]
       /\ cache' = [cache EXCEPT ![p] = rew]
  OBVIOUS
<1>11. Matched(ctx[p], u, ctx[q].id1, ctx[q].id2, s)
  BY DEF s
<1>. HIDE DEF e, z, rew
<1>12. e.key = IF Leads(chan[p]) THEN <<p, p, s>> ELSE <<q, q, s>>
  BY <1>3, <1>6
<1>13. /\ Good(World, p, q, e, z, rew, p \in updated, chan[q], ctx[q], cache[q])
       /\ Kept(World, p, chan[p], e)
  <2>1. s = IF Leads(chan[p]) THEN Agreed(ctx[p], ctx[q])
            ELSE Agreed(ctx[q], ctx[p])
    BY DEF s
  <2>2. DerivedChannel(p, q, chan[p], e, s)
    BY <1>5, <1>6, <1>12 DEF DerivedChannel
  <2>3. DerivedContext(ctx[p], ctx[q], z, e, u, s)
    BY <1>6, <1>7, <1>8, <1>11 DEF DerivedContext
  <2>4. DerivedRow(cache[p], rew)
    BY <1>9 DEF DerivedRow
  <2>. QED BY <1>1, <2>1, <2>2, <2>3, <2>4, KeyedGood
<1>14. Outcome(p, e, z, rew)
  BY <1>1, <1>10, <1>13 DEF Outcome
<1>15. Justified(World, p, e, m)
  <2>1. Leads(e) <=> Leads(chan[p])
    BY <1>6 DEF Leads
  <2>2. Keyed(e)
    BY <1>6 DEF Keyed
  <2>3. Leads(e) \/ Follows(e)
    BY <1>5, ChannelFields DEF Leads, Follows
  <2>. QED BY <2>1, <2>2, <2>3 DEF Justified, Chosen
<1>. QED BY <1>14, <1>15, AnswerOne

LEMMA SendingConfirm2Fields ==
  ASSUME NEW c \in ChannelType
  PROVE  LET e == SendingConfirm2(c) IN
         /\ e \in ChannelType /\ e.st = "initConfirm2" /\ e.srtp = {"receiver"}
         /\ e.role = c.role /\ e.key = c.key /\ e.told = c.told
<1>. DEFINE b == Armed(c)
            r == {"receiver"}
            e == [b EXCEPT !.st = "initConfirm2", !.srtp = r]
<1>1. b \in ChannelType /\ Alike(c, b) /\ r \in SUBSET {"receiver", "sender"}
  BY TimerFields
<1>2. SendingConfirm2(c) = e
  BY DEF SendingConfirm2
<1>. HIDE DEF b, r
<1>3. e \in ChannelType
  BY <1>1 DEF ChannelType, States
<1>4. /\ e.st = "initConfirm2" /\ e.srtp = r
      /\ e.role = c.role /\ e.key = c.key /\ e.told = c.told
  BY <1>1 DEF ChannelType, Alike
<1>. QED BY <1>2, <1>3, <1>4 DEF r

\* Confirm1 reaches an initiator.
LEMMA Confirm1Step ==
  ASSUME IInv, NEW p \in Peers, net[Other(p)] # <<>>,
         UNCHANGED <<call, shared, halves>>, UNCHANGED <<cache, updated>>,
         Head(net[Other(p)]) = "Confirm1", Answer(p, <<"Confirm2">>),
         chan[p].st = IF DHM(World) THEN "initDHPart2" ELSE "sendingCommit",
         NEW e \in ChannelType, chan' = [chan EXCEPT ![p] = e],
         e.st = "initConfirm2", e.srtp = {"receiver"},
         e.role = chan[p].role, e.told = chan[p].told,
         e.key = IF DHM(World) THEN chan[p].key ELSE MultKey(p, p),
         NEW z \in ContextType, ctx' = [ctx EXCEPT ![p] = z],
         z.id1 = ctx[p].id1, z.id2 = ctx[p].id2, z.secure = ctx[p].secure,
         z.pvs = ctx[p].pvs, z.mismatch = ctx[p].mismatch,
         z.sess = ctx[p].sess, z.rs1 = ctx[p].rs1
  PROVE  IInv'
<1>1. /\ chan[p] \in ChannelType /\ chan[Other(p)] \in ChannelType
      /\ World \in WorldType
      /\ Good(World, p, Other(p), chan[p], ctx[p], cache[p], p \in updated,
              chan[Other(p)], ctx[Other(p)], cache[Other(p)])
      /\ updated \subseteq Peers /\ Shape(World, chan[p])
  BY Facts, FromInv
<1>2. Follows(chan[Other(p)])
  BY HeadJustified DEF Justified
<1>3. e.key = IF DHM(World) THEN chan[p].key
              ELSE <<p, ctx[p].sess[2], ctx[p].sess[3]>>
  BY DEF MultKey
<1>4. /\ Good(World, p, Other(p), e, z, cache[p], p \in updated,
              chan[Other(p)], ctx[Other(p)], cache[Other(p)])
      /\ Kept(World, p, chan[p], e)
  BY <1>1, <1>2, <1>3, ConfirmGood, Zenon
<1>5. cache' = [cache EXCEPT ![p] = cache[p]]
  BY DEF IInv, WellTyped
<1>6. Outcome(p, e, z, cache[p])
  BY <1>1, <1>4, <1>5 DEF Outcome
<1>7. ~Follows(chan[p])
  BY <1>1 DEF Shape
<1>8. "Confirm2" \in Types /\ Justified(World, p, e, "Confirm2")
  BY <1>1, <1>7, ChannelFields DEF Types, Justified, Leads, Follows
<1>. QED BY <1>6, <1>8, AnswerOne

LEMMA SendingCommitStep ==
  ASSUME IInv, NEW p \in Peers, net[Other(p)] # <<>>, NEW m,
         m = Head(net[Other(p)]),
         UNCHANGED <<call, shared, halves>>,
         state_keyAgreement_sendingCommit(p, m)
  PROVE  IInv'
<1>. DEFINE q == Other(p)
<1>1. /\ chan[p] \in ChannelType /\ ctx[p] \in ContextType
      /\ ctx[q] \in ContextType /\ Shape(World, chan[p]) /\ Shape(World, chan[q])
      /\ World.mode = call.mode
  BY Facts
<1>2. /\ chan[p].st = "sendingCommit" /\ UNCHANGED updated
      /\ ~Keyed(chan[p]) /\ ~Early(chan[p]) /\ ~Fresh(chan[p])
  BY DEF state_keyAgreement_sendingCommit, Keyed, Early, Fresh
<1>3. Leads(chan[p])
  BY <1>1, <1>2, ChannelFields DEF Shape, Leads, Follows
<1>4. CASE /\ m = "Commit" /\ call.lower = p /\ turnIntoResponder(p)
           /\ UNCHANGED <<ctx, cache>>
  BY <1>2, <1>4, TurnStep
<1>5. CASE Answer(p, <<>>) /\ UNCHANGED chan /\ UNCHANGED <<ctx, cache>>
  <2>1. Outcome(p, chan[p], ctx[p], cache[p])
    BY <1>2, <1>5, SameOutcome
  <2>. QED BY <1>5, <2>1, AnswerNone
<1>6. CASE /\ m = "DHPart1" /\ call.mode = "DHM"
           /\ LET r == Other(p)
                  y == MatchDHPart1(ctx[p], ctx[r].id1, ctx[r].id2)
                  x == Distrust(y, y)
                  s0 == S0DHMMode(x, p) IN
              /\ ctx' = [ctx EXCEPT ![p] = [x EXCEPT !.sess = s0]]
              /\ cache' = [cache EXCEPT ![p] = Distrust(@, x)]
              /\ chan' = [chan EXCEPT ![p] = [Armed(@) EXCEPT
                                     !.st = "initDHPart2", !.key = s0]]
           /\ Answer(p, <<"DHPart2">>)
  <2>. DEFINE v == MatchDHPart1(ctx[p], ctx[q].id1, ctx[q].id2)
              u == Distrust(v, v)
              s0 == S0DHMMode(u, p)
              b == Armed(chan[p])
              st == "initDHPart2"
  <2>1. /\ ctx' = [ctx EXCEPT ![p] = [u EXCEPT !.sess = s0]]
        /\ cache' = [cache EXCEPT ![p] = Distrust(cache[p], u)]
        /\ chan' = [chan EXCEPT ![p] = [b EXCEPT !.st = st, !.key = s0]]
    BY <1>6 DEF IInv, WellTyped
  <2>2. DHM(World)
    BY <1>1, <1>6 DEF DHM
  <2>3. Known(ctx[p])
    BY <1>2, <2>2, KnownContext
  <2>4. Matched(ctx[p], u, ctx[q].id1, ctx[q].id2, Agreed(ctx[p], ctx[q]))
    BY <1>1, <2>3, InitiatorMatches
  <2>5. Follows(chan[q])
    BY <1>6, HeadJustified DEF Justified
  <2>6. ~Fresh(chan[q])
    BY <1>1, <2>5 DEF Shape, Fresh
  <2>7. b \in ChannelType /\ Alike(chan[p], b) /\ st \in States
    BY <1>1, TimerFields DEF States
  <2>8. Matched(ctx[p], u, ctx[q].id1, ctx[q].id2,
                IF Leads(chan[p]) THEN Agreed(ctx[p], ctx[q])
                ELSE Agreed(ctx[q], ctx[p]))
    BY <1>3, <2>4
  <2>9. /\ p = IF Leads(chan[p]) THEN p ELSE Other(p)
        /\ st = IF Leads(chan[p]) THEN "initDHPart2" ELSE "respConfirm1"
        /\ "DHPart2" = IF Leads(chan[p]) THEN "DHPart2" ELSE "Confirm1"
        /\ "DHPart2" \in Types /\ Answer(p, <<"DHPart2">>)
    BY <1>3, <1>6 DEF Types
  <2>10. u = Distrust(v, v) /\ s0 = S0DHMMode(u, p)
    OBVIOUS
  <2>. HIDE DEF v, u, s0, b, st
  <2>. QED
    BY <1>2, <2>1, <2>2, <2>5, <2>6, <2>7, <2>8, <2>9, <2>10, DeriveStep
<1>7. CASE /\ m = "Confirm1" /\ call.mode = "Mult"
           /\ chan' = [chan EXCEPT ![p] = [SendingConfirm2(@) EXCEPT
                                             !.key = MultKey(p, p)]]
           /\ Answer(p, <<"Confirm2">>)
           /\ UNCHANGED <<ctx, cache>>
  <2>. DEFINE b == SendingConfirm2(chan[p])
              k == MultKey(p, p)
              e == [b EXCEPT !.key = k]
  <2>1. Mult(World) /\ ~DHM(World)
    BY <1>1, <1>7 DEF DHM, Mult
  <2>2. k \in Keys
    BY <2>1, MultKeyType
  <2>3. /\ b \in ChannelType /\ b.st = "initConfirm2" /\ b.srtp = {"receiver"}
        /\ b.role = chan[p].role /\ b.told = chan[p].told
    BY <1>1, SendingConfirm2Fields
  <2>4. chan' = [chan EXCEPT ![p] = e] /\ ctx' = [ctx EXCEPT ![p] = ctx[p]]
    BY <1>7 DEF IInv, WellTyped
  <2>5. k = MultKey(p, p)
    OBVIOUS
  <2>. HIDE DEF b, k
  <2>6. e \in ChannelType
    BY <2>2, <2>3 DEF ChannelType
  <2>7. /\ e.st = b.st /\ e.srtp = b.srtp /\ e.role = b.role
        /\ e.told = b.told /\ e.key = k
    BY <2>3 DEF ChannelType
  <2>. HIDE DEF e
  <2>8. /\ e.st = "initConfirm2" /\ e.srtp = {"receiver"}
        /\ e.role = chan[p].role /\ e.told = chan[p].told
        /\ e.key = IF DHM(World) THEN chan[p].key ELSE MultKey(p, p)
        /\ chan[p].st = IF DHM(World) THEN "initDHPart2" ELSE "sendingCommit"
    BY <1>2, <2>1, <2>3, <2>5, <2>7
  <2>. QED BY <1>1, <1>2, <1>7, <2>4, <2>6, <2>8, Confirm1Step
<1>. QED BY <1>4, <1>5, <1>6, <1>7 DEF state_keyAgreement_sendingCommit

LEMMA RespDHPart1Step ==
  ASSUME IInv, NEW p \in Peers, net[Other(p)] # <<>>, NEW m,
         m = Head(net[Other(p)]),
         UNCHANGED <<call, shared, halves>>,
         state_keyAgreement_responderSendingDHPart1(p, m)
  PROVE  IInv'
<1>. DEFINE q == Other(p)
<1>1. /\ chan[p] \in ChannelType /\ ctx[p] \in ContextType
      /\ ctx[q] \in ContextType /\ Shape(World, chan[p]) /\ Shape(World, chan[q])
      /\ World.mode = call.mode
  BY Facts
<1>2. /\ chan[p].st = "respDHPart1" /\ UNCHANGED updated
      /\ ~Keyed(chan[p]) /\ ~Early(chan[p]) /\ ~Fresh(chan[p])
  BY DEF state_keyAgreement_responderSendingDHPart1, Keyed, Early, Fresh
<1>3. ~Leads(chan[p]) /\ DHM(World) /\ Follows(chan[p])
  BY <1>1, <1>2 DEF Shape, Leads, Follows
<1>4. CASE m = "Commit" /\ Answer(p, <<"DHPart1">>) /\ UNCHANGED <<chan, ctx, cache>>
  <2>1. Outcome(p, chan[p], ctx[p], cache[p])
    BY <1>2, <1>4, SameOutcome
  <2>2. "DHPart1" \in Types /\ Justified(World, p, chan[p], "DHPart1")
    BY <1>3 DEF Types, Justified
  <2>. QED BY <1>4, <2>1, <2>2, AnswerOne
<1>5. CASE /\ m = "DHPart2"
           /\ LET r == Other(p)
                  y == MatchDHPart2(ctx[p], ctx[r].id1, ctx[r].id2)
                  x == Distrust(y, y)
                  s0 == S0DHMMode(x, r) IN
              /\ ctx' = [ctx EXCEPT ![p] = [x EXCEPT !.sess = s0]]
              /\ cache' = [cache EXCEPT ![p] = Distrust(@, x)]
              /\ chan' = [chan EXCEPT ![p] = [Stopped(@) EXCEPT
                                     !.st = "respConfirm1", !.key = s0]]
           /\ Answer(p, <<"Confirm1">>)
  <2>. DEFINE v == MatchDHPart2(ctx[p], ctx[q].id1, ctx[q].id2)
              u == Distrust(v, v)
              s0 == S0DHMMode(u, q)
              b == Stopped(chan[p])
              st == "respConfirm1"
  <2>1. /\ ctx' = [ctx EXCEPT ![p] = [u EXCEPT !.sess = s0]]
        /\ cache' = [cache EXCEPT ![p] = Distrust(cache[p], u)]
        /\ chan' = [chan EXCEPT ![p] = [b EXCEPT !.st = st, !.key = s0]]
    BY <1>5 DEF IInv, WellTyped
  <2>2. ctx[q].id1 = None => ctx[q].id2 = None
    BY FromInv DEF Own, Context
  <2>3. Known(ctx[p])
    BY <1>2, <1>3, KnownContext
  <2>4. Matched(ctx[p], u, ctx[q].id1, ctx[q].id2, Agreed(ctx[q], ctx[p]))
    BY <1>1, <2>2, <2>3, ResponderMatches
  <2>5. Keyed(chan[q])
    BY <1>5, HeadJustified DEF Justified, Chosen
  <2>6. ~Fresh(chan[q])
    BY <2>5 DEF Keyed, Fresh
  <2>7. b \in ChannelType /\ Alike(chan[p], b) /\ st \in States
    BY <1>1, TimerFields DEF States
  <2>8. Matched(ctx[p], u, ctx[q].id1, ctx[q].id2,
                IF Leads(chan[p]) THEN Agreed(ctx[p], ctx[q])
                ELSE Agreed(ctx[q], ctx[p]))
    BY <1>3, <2>4
  <2>9. /\ q = IF Leads(chan[p]) THEN p ELSE Other(p)
        /\ st = IF Leads(chan[p]) THEN "initDHPart2" ELSE "respConfirm1"
        /\ "Confirm1" = IF Leads(chan[p]) THEN "DHPart2" ELSE "Confirm1"
        /\ "Confirm1" \in Types /\ Answer(p, <<"Confirm1">>)
    BY <1>3, <1>5 DEF Types
  <2>10. u = Distrust(v, v) /\ s0 = S0DHMMode(u, q) /\ q \in Peers
    BY TwoPeers
  <2>. HIDE DEF v, u, s0, b, st
  <2>. QED
    BY <1>2, <1>3, <2>1, <2>6, <2>7, <2>8, <2>9, <2>10, DeriveStep
<1>. QED BY <1>4, <1>5 DEF state_keyAgreement_responderSendingDHPart1

LEMMA PeerPVSFields ==
  ASSUME NEW x \in ContextType, NEW v \in BOOLEAN, NEW z,
         z = [x EXCEPT !.peerPVS = v]
  PROVE  /\ z \in ContextType /\ z.id1 = x.id1 /\ z.id2 = x.id2
         /\ z.secure = x.secure /\ z.pvs = x.pvs /\ z.mismatch = x.mismatch
         /\ z.sess = x.sess /\ z.rs1 = x.rs1 /\ z.rs2 = x.rs2
<1>1. z \in ContextType
  BY DEF ContextType
<1>2. /\ z.id1 = x.id1 /\ z.id2 = x.id2
      /\ z.secure = x.secure /\ z.pvs = x.pvs /\ z.mismatch = x.mismatch
      /\ z.sess = x.sess /\ z.rs1 = x.rs1 /\ z.rs2 = x.rs2
  BY DEF ContextType
<1>. QED BY <1>1, <1>2

LEMMA InitDHPart2Step ==
  ASSUME IInv, NEW p \in Peers, net[Other(p)] # <<>>, NEW m,
         m = Head(net[Other(p)]),
         UNCHANGED <<call, shared, halves>>,
         state_keyAgreement_initiatorSendingDHPart2(p, m)
  PROVE  IInv'
<1>1. /\ chan[p] \in ChannelType /\ ctx[p] \in ContextType
      /\ ctx[Other(p)] \in ContextType /\ Shape(World, chan[p])
  BY Facts
<1>2. chan[p].st = "initDHPart2" /\ UNCHANGED <<cache, updated>>
  BY DEF state_keyAgreement_initiatorSendingDHPart2
<1>3. DHM(World)
  BY <1>1, <1>2 DEF Shape
<1>4. CASE Answer(p, <<>>) /\ UNCHANGED <<chan, ctx>>
  <2>1. Outcome(p, chan[p], ctx[p], cache[p])
    BY <1>2, <1>4, SameOutcome
  <2>. QED BY <1>4, <2>1, AnswerNone
<1>5. CASE /\ m = "Confirm1"
           /\ ctx' = [ctx EXCEPT ![p].peerPVS = ctx[Other(p)].pvs]
           /\ chan' = [chan EXCEPT ![p] = SendingConfirm2(@)]
           /\ Answer(p, <<"Confirm2">>)
  <2>. DEFINE v == ctx[Other(p)].pvs
              z == [ctx[p] EXCEPT !.peerPVS = v]
              e == SendingConfirm2(chan[p])
  <2>1. ctx' = [ctx EXCEPT ![p] = z] /\ chan' = [chan EXCEPT ![p] = e]
    BY <1>5 DEF IInv, WellTyped
  <2>2. v \in BOOLEAN
    BY <1>1, ContextFields
  <2>. HIDE DEF v
  <2>3. /\ z \in ContextType /\ z.id1 = ctx[p].id1 /\ z.id2 = ctx[p].id2
        /\ z.secure = ctx[p].secure /\ z.pvs = ctx[p].pvs
        /\ z.mismatch = ctx[p].mismatch
        /\ z.sess = ctx[p].sess /\ z.rs1 = ctx[p].rs1
    BY <1>1, <2>2, PeerPVSFields
  <2>4. /\ e \in ChannelType /\ e.st = "initConfirm2" /\ e.srtp = {"receiver"}
        /\ e.role = chan[p].role /\ e.told = chan[p].told /\ e.key = chan[p].key
    BY <1>1, SendingConfirm2Fields
  <2>. HIDE DEF z, e
  <2>5. /\ e.key = IF DHM(World) THEN chan[p].key ELSE MultKey(p, p)
        /\ chan[p].st = IF DHM(World) THEN "initDHPart2" ELSE "sendingCommit"
    BY <1>2, <1>3, <2>4
  <2>. QED BY <1>2, <1>5, <2>1, <2>3, <2>4, <2>5, Confirm1Step
<1>. QED BY <1>4, <1>5 DEF state_keyAgreement_initiatorSendingDHPart2

LEMMA SecureFields ==
  ASSUME NEW c \in ChannelType, NEW x \in ContextType
  PROVE  LET e == Secure(c, x) IN
         /\ e \in ChannelType /\ e.st = "secure"
         /\ e.srtp = {"receiver", "sender"}
         /\ e.role = c.role /\ e.key = c.key /\ (e.told => x.pvs)
<1>. DEFINE b == Stopped(c)
            r == {"receiver", "sender"}
            t == x.pvs /\ x.peerPVS
            e == [b EXCEPT !.st = "secure", !.srtp = r, !.told = t]
<1>1. /\ b \in ChannelType /\ Alike(c, b) /\ r \in SUBSET {"receiver", "sender"}
      /\ t \in BOOLEAN /\ (t => x.pvs)
  BY TimerFields, ContextFields
<1>2. Secure(c, x) = e
  BY DEF Secure
<1>. HIDE DEF b, r, t
<1>3. e \in ChannelType
  BY <1>1 DEF ChannelType, States
<1>4. /\ e.st = "secure" /\ e.srtp = r /\ e.told = t
      /\ e.role = c.role /\ e.key = c.key
  BY <1>1 DEF ChannelType, Alike
<1>. QED BY <1>1, <1>2, <1>3, <1>4 DEF r

LEMMA SecureContextFields ==
  ASSUME NEW x \in ContextType
  PROVE  LET z == SecureContext(x) IN
         /\ z \in ContextType /\ z.secure
         /\ z.id1 = x.id1 /\ z.id2 = x.id2 /\ z.pvs = x.pvs
         /\ z.mismatch = x.mismatch /\ z.sess = x.sess
<1>. DEFINE s == Spent(x)
            none == None
            yes == TRUE
            z == [s EXCEPT !.secure = yes]
<1>1. yes \in BOOLEAN /\ yes /\ none \in Secrets
  BY BoundsAssumption DEF None, Secrets
<1>2. SecureContext(x) = z
  BY DEF SecureContext
<1>3. s = x \/ s = [x EXCEPT !.rs1 = none, !.rs2 = none]
  BY DEF Spent
<1>. HIDE DEF s, none, yes
<1>4. s \in ContextType
  BY <1>1, <1>3 DEF ContextType
<1>5. /\ s.id1 = x.id1 /\ s.id2 = x.id2 /\ s.pvs = x.pvs
      /\ s.mismatch = x.mismatch /\ s.sess = x.sess
  BY <1>3 DEF ContextType
<1>6. z \in ContextType
  BY <1>1, <1>4 DEF ContextType
<1>7. /\ z.secure = yes /\ z.id1 = s.id1 /\ z.id2 = s.id2 /\ z.pvs = s.pvs
      /\ z.mismatch = s.mismatch /\ z.sess = s.sess
  BY <1>4 DEF ContextType
<1>. QED BY <1>1, <1>2, <1>5, <1>6, <1>7

LEMMA RenewedFields ==
  ASSUME NEW row \in CacheType, NEW x \in ContextType, call.n \in Secrets
  PROVE  LET rew == RenewedRow(row, x) IN
         /\ rew \in CacheType /\ rew.rs1 = call.n /\ rew.rs2 = x.rs1
         /\ rew.pvs = row.pvs
<1>. DEFINE n == call.n
            s == x.rs1
            rew == [row EXCEPT !.rs1 = n, !.rs2 = s]
<1>1. n \in Secrets /\ s \in Secrets
  BY ContextFields
<1>2. RenewedRow(row, x) = rew
  BY DEF RenewedRow
<1>. HIDE DEF n, s
<1>3. rew \in CacheType
  BY <1>1 DEF CacheType
<1>4. rew.rs1 = n /\ rew.rs2 = s /\ rew.pvs = row.pvs
  BY DEF CacheType
<1>. QED BY <1>2, <1>3, <1>4 DEF n, s

\* The first call of state_secure, with the context x at that moment
LEMMA SecureOutcome ==
  ASSUME IInv, NEW p \in Peers,
         NEW x \in ContextType, updateCachedSecrets(p, x),
         x.id1 = ctx[p].id1, x.id2 = ctx[p].id2, x.pvs = ctx[p].pvs,
         x.mismatch = ctx[p].mismatch, x.sess = ctx[p].sess, x.rs1 = ctx[p].rs1,
         ctx' = [ctx EXCEPT ![p] = SecureContext(x)],
         chan' = [chan EXCEPT ![p] = Secure(chan[p], x)],
         IF Leads(chan[p])
         THEN chan[p].st = "initConfirm2" /\ chan[Other(p)].st = "secure"
         ELSE /\ chan[p].st = "respConfirm1"
              /\ chan[Other(p)].st \in {"initConfirm2", "secure"}
  PROVE  \E rew : Outcome(p, Secure(chan[p], x), SecureContext(x), rew)
<1>. DEFINE q == Other(p)
            e == Secure(chan[p], x)
            z == SecureContext(x)
            rew == IF CacheIsRenewed(x) THEN RenewedRow(cache[p], x) ELSE cache[p]
<1>1. /\ chan[p] \in ChannelType /\ chan[q] \in ChannelType
      /\ cache[p] \in CacheType
      /\ World \in WorldType
      /\ Good(World, p, q, chan[p], ctx[p], cache[p], p \in updated,
              chan[q], ctx[q], cache[q])
      /\ updated \subseteq Peers /\ World.mode = call.mode /\ World.n = call.n
      /\ call.n \in 1 .. MaxCalls
  BY Facts, FromInv
<1>2. call.n \in Secrets
  BY <1>1, BoundsAssumption DEF Secrets
<1>3. CacheIsRenewed(x) <=> DHM(World) /\ ~ctx[p].mismatch
  BY <1>1 DEF CacheIsRenewed, DHM
<1>4. /\ rew \in CacheType
      /\ CacheIsRenewed(x) => rew.rs1 = World.n /\ rew.rs2 = ctx[p].rs1
      /\ ~CacheIsRenewed(x) => rew = cache[p]
  BY <1>1, <1>2, RenewedFields
<1>5. /\ cache' = [cache EXCEPT ![p] = rew]
      /\ updated' = IF CacheIsRenewed(x) THEN updated \cup {p} ELSE updated
  <2>1. cache \in [Peers -> CacheType]
    BY DEF IInv, WellTyped
  <2>2. CASE CacheIsRenewed(x)
    BY <2>1, <2>2 DEF updateCachedSecrets
  <2>3. CASE ~CacheIsRenewed(x)
    BY <2>1, <2>3 DEF updateCachedSecrets
  <2>. QED BY <2>2, <2>3
<1>6. updated' \subseteq Peers /\ updated' \ {p} = updated \ {p}
  BY <1>1, <1>5
<1>7. /\ CacheIsRenewed(x) => p \in updated'
      /\ ~CacheIsRenewed(x) => (p \in updated' <=> p \in updated)
  BY <1>5
<1>8. /\ e \in ChannelType /\ e.st = "secure" /\ e.srtp = {"receiver", "sender"}
      /\ e.role = chan[p].role /\ e.key = chan[p].key /\ (e.told => ctx[p].pvs)
  BY <1>1, SecureFields
<1>9. /\ z \in ContextType /\ z.secure
      /\ z.id1 = ctx[p].id1 /\ z.id2 = ctx[p].id2 /\ z.pvs = ctx[p].pvs
      /\ z.mismatch = ctx[p].mismatch /\ z.sess = ctx[p].sess
  BY SecureContextFields
<1>10. IF DHM(World) /\ ~ctx[p].mismatch
       THEN rew.rs1 = World.n /\ rew.rs2 = ctx[p].rs1 /\ p \in updated'
       ELSE rew = cache[p] /\ (p \in updated' <=> p \in updated)
  BY <1>3, <1>4, <1>7
<1>. HIDE DEF e, z, rew
<1>11. /\ Good(World, p, q, e, z, rew, p \in updated', chan[q], ctx[q], cache[q])
       /\ Kept(World, p, chan[p], e)
  BY <1>1, <1>4, <1>8, <1>9, <1>10, SecureGood, Zenon
<1>12. chan' = [chan EXCEPT ![p] = e] /\ ctx' = [ctx EXCEPT ![p] = z]
  BY DEF e, z
<1>13. Outcome(p, e, z, rew)
  BY <1>5, <1>6, <1>11, <1>12 DEF Outcome
<1>. QED BY <1>13 DEF e, z

LEMMA RespConfirm1Step ==
  ASSUME IInv, NEW p \in Peers, net[Other(p)] # <<>>, NEW m,
         m = Head(net[Other(p)]),
         UNCHANGED <<call, shared, halves>>,
         state_confirmation_responderSendingConfirm1(p, m)
  PROVE  IInv'
<1>1. /\ chan[p] \in ChannelType /\ ctx[p] \in ContextType
      /\ ctx[Other(p)] \in ContextType /\ Shape(World, chan[p])
  BY Facts
<1>2. chan[p].st = "respConfirm1"
  BY DEF state_confirmation_responderSendingConfirm1
<1>3. Follows(chan[p]) /\ ~Leads(chan[p]) /\ Keyed(chan[p])
  BY <1>1, <1>2 DEF Shape, Follows, Leads, Keyed
<1>4. CASE Answer(p, <<"Confirm1">>) /\ UNCHANGED <<chan, ctx, cache, updated>>
  <2>1. Outcome(p, chan[p], ctx[p], cache[p])
    BY <1>4, SameOutcome
  <2>2. "Confirm1" \in Types /\ Justified(World, p, chan[p], "Confirm1")
    BY <1>3 DEF Types, Justified
  <2>. QED BY <1>4, <2>1, <2>2, AnswerOne
<1>5. CASE /\ m = "Confirm2"
           /\ LET x == IF call.mode = "Mult" THEN ctx[p]
                       ELSE [ctx[p] EXCEPT !.peerPVS = ctx[Other(p)].pvs] IN
              /\ updateCachedSecrets(p, x)
              /\ ctx' = [ctx EXCEPT ![p] = SecureContext(x)]
              /\ chan' = [chan EXCEPT ![p] = Secure(@, x)]
           /\ Answer(p, <<"Conf2Ack">>)
  <2>. DEFINE v == ctx[Other(p)].pvs
              x == IF call.mode = "Mult" THEN ctx[p]
                   ELSE [ctx[p] EXCEPT !.peerPVS = v]
  <2>1. /\ updateCachedSecrets(p, x)
        /\ ctx' = [ctx EXCEPT ![p] = SecureContext(x)]
        /\ chan' = [chan EXCEPT ![p] = Secure(chan[p], x)]
    BY <1>5 DEF IInv, WellTyped
  <2>2. v \in BOOLEAN
    BY <1>1, ContextFields
  <2>. HIDE DEF v
  <2>3. /\ x \in ContextType
        /\ x.id1 = ctx[p].id1 /\ x.id2 = ctx[p].id2 /\ x.pvs = ctx[p].pvs
        /\ x.mismatch = ctx[p].mismatch /\ x.sess = ctx[p].sess
        /\ x.rs1 = ctx[p].rs1
    BY <1>1, <2>2, PeerPVSFields
  <2>. HIDE DEF x
  <2>4. chan[Other(p)].st \in {"initConfirm2", "secure"}
    BY <1>5, HeadJustified DEF Justified
  <2>5. PICK rew : Outcome(p, Secure(chan[p], x), SecureContext(x), rew)
    BY <1>2, <1>3, <2>1, <2>3, <2>4, SecureOutcome
  <2>6. "Conf2Ack" \in Types /\ Justified(World, p, Secure(chan[p], x), "Conf2Ack")
    BY <1>1, <1>3, <2>3, SecureFields DEF Types, Justified, Follows
  <2>. QED BY <1>5, <2>5, <2>6, AnswerOne
<1>. QED BY <1>4, <1>5 DEF state_confirmation_responderSendingConfirm1

LEMMA InitConfirm2Step ==
  ASSUME IInv, NEW p \in Peers, net[Other(p)] # <<>>, NEW m,
         m = Head(net[Other(p)]),
         UNCHANGED <<call, shared, halves>>,
         state_confirmation_initiatorSendingConfirm2(p, m)
  PROVE  IInv'
<1>1. /\ chan[p] \in ChannelType /\ ctx[p] \in ContextType
      /\ Shape(World, chan[p])
  BY Facts
<1>2. chan[p].st = "initConfirm2"
  BY DEF state_confirmation_initiatorSendingConfirm2
<1>3. Leads(chan[p])
  BY <1>1, <1>2, ChannelFields DEF Shape, Follows, Leads
<1>4. CASE Answer(p, <<>>) /\ UNCHANGED <<chan, ctx, cache, updated>>
  <2>1. Outcome(p, chan[p], ctx[p], cache[p])
    BY <1>4, SameOutcome
  <2>. QED BY <1>4, <2>1, AnswerNone
<1>5. CASE /\ m = "Conf2Ack"
           /\ updateCachedSecrets(p, ctx[p])
           /\ ctx' = [ctx EXCEPT ![p] = SecureContext(@)]
           /\ chan' = [chan EXCEPT ![p] = Secure(@, ctx[p])]
           /\ Answer(p, <<>>)
  <2>1. /\ ctx' = [ctx EXCEPT ![p] = SecureContext(ctx[p])]
        /\ chan' = [chan EXCEPT ![p] = Secure(chan[p], ctx[p])]
    BY <1>5 DEF IInv, WellTyped
  <2>2. chan[Other(p)].st = "secure"
    BY <1>5, HeadJustified DEF Justified
  <2>3. PICK rew : Outcome(p, Secure(chan[p], ctx[p]), SecureContext(ctx[p]), rew)
    BY <1>1, <1>2, <1>3, <1>5, <2>1, <2>2, SecureOutcome
  <2>. QED BY <1>5, <2>3, AnswerNone
<1>. QED BY <1>4, <1>5 DEF state_confirmation_initiatorSendingConfirm2

LEMMA SecureStateStep ==
  ASSUME IInv, NEW p \in Peers, net[Other(p)] # <<>>, NEW m,
         m = Head(net[Other(p)]),
         UNCHANGED <<call, shared, halves>>, state_secure(p, m)
  PROVE  IInv'
<1>1. /\ chan[p].st = "secure" /\ m = "Confirm2" /\ Answer(p, <<"Conf2Ack">>)
      /\ UNCHANGED <<chan, ctx, cache, updated>>
  BY DEF state_secure
<1>2. Outcome(p, chan[p], ctx[p], cache[p])
  BY <1>1, SameOutcome
<1>3. Chosen(chan[Other(p)])
  BY <1>1, HeadJustified DEF Justified, Chosen, Keyed
<1>4. Follows(chan[p])
  BY <1>3, FromInv DEF Good, Pair, Abreast
<1>5. "Conf2Ack" \in Types /\ Justified(World, p, chan[p], "Conf2Ack")
  BY <1>1, <1>4 DEF Types, Justified
<1>. QED BY <1>1, <1>2, <1>5, AnswerOne

LEMMA ProcessStep ==
  ASSUME IInv, NEW p \in Peers, processMessage(p)
  PROVE  IInv'
<1>. DEFINE m == Head(net[Other(p)])
<1>1. net[Other(p)] # <<>> /\ UNCHANGED <<call, shared, halves>>
  BY DEF processMessage
<1>2. Handler(p, m) \/ Unexpected(p, m)
  BY DEF processMessage
<1>3. CASE Unexpected(p, m)
  <2>1. Answer(p, <<>>) /\ UNCHANGED <<chan, ctx, cache, updated>>
    BY <1>3 DEF Unexpected
  <2>2. Outcome(p, chan[p], ctx[p], cache[p])
    BY <2>1, SameOutcome
  <2>. QED BY <1>1, <2>1, <2>2, AnswerNone
<1>4. CASE Handler(p, m)
  <2>1. CASE state_discovery_init(p, m)
    BY <1>1, <2>1, InitStep
  <2>2. CASE state_discovery_waitingForHello(p, m)
    BY <1>1, <2>2, WaitHelloStep
  <2>3. CASE state_discovery_waitingForHelloAck(p, m)
    BY <1>1, <2>3, WaitHelloAckStep
  <2>4. CASE state_keyAgreement_sendingCommit(p, m)
    BY <1>1, <2>4, SendingCommitStep
  <2>5. CASE state_keyAgreement_responderSendingDHPart1(p, m)
    BY <1>1, <2>5, RespDHPart1Step
  <2>6. CASE state_keyAgreement_initiatorSendingDHPart2(p, m)
    BY <1>1, <2>6, InitDHPart2Step
  <2>7. CASE state_confirmation_responderSendingConfirm1(p, m)
    BY <1>1, <2>7, RespConfirm1Step
  <2>8. CASE state_confirmation_initiatorSendingConfirm2(p, m)
    BY <1>1, <2>8, InitConfirm2Step
  <2>9. CASE state_secure(p, m)
    BY <1>1, <2>9, SecureStateStep
  <2>. QED
    BY <1>4, <2>1, <2>2, <2>3, <2>4, <2>5, <2>6, <2>7, <2>8, <2>9 DEF Handler
<1>. QED BY <1>2, <1>3, <1>4

-----------------------------------------------------------------------------
(* The network, the application and the clock. *)

LEMMA LoseStep ==
  ASSUME IInv, NEW q \in Peers, Lose(q)
  PROVE  IInv'
<1>. DEFINE p == Other(q)
<1>1. p \in Peers /\ p # q /\ Other(p) = q
  BY TwoPeers
<1>2. net \in [Peers -> Seq(Types)] /\ call \in CallType
  BY DEF IInv, WellTyped
<1>3. /\ net[q] # <<>> /\ call.lost < MaxLoss
      /\ net' = [net EXCEPT ![q] = Tail(net[q])]
      /\ call' = [call EXCEPT !.lost = call.lost + 1]
      /\ UNCHANGED <<chan, ctx, cache, updated, shared, halves>>
  BY <1>2 DEF Lose, CallType
<1>4. Outcome(p, chan[p], ctx[p], cache[p])
  BY <1>1, <1>3, SameOutcome
<1>5. call.lost + 1 \in 0 .. MaxLoss
  BY <1>2, <1>3, BoundsAssumption DEF CallType
<1>6. /\ call' \in CallType /\ call'.n = call.n /\ call'.mode = call.mode
      /\ call'.lower = call.lower
  BY <1>2, <1>3, <1>5 DEF CallType
<1>7. World' = World
  BY <1>3, <1>6 DEF World
<1>8. net[q] \in Seq(Types) /\ net'[q] = Tail(net[q]) /\ net'[p] = net[p]
  BY <1>1, <1>2, <1>3
<1>9. net' \in [Peers -> Seq(Types)]
  <2>1. Tail(net[q]) \in Seq(Types)
    BY <1>3, <1>8
  <2>. QED BY <1>2, <1>3, <2>1
<1>10. Sent(Other(p))' \subseteq Sent(Other(p))
  <2>. SUFFICES ASSUME NEW k \in DOMAIN Tail(net[q])
                PROVE  \E j \in DOMAIN net[q] : Tail(net[q])[k] = net[q][j]
    BY <1>1, <1>8 DEF Sent
  <2>1. k + 1 \in DOMAIN net[q] /\ Tail(net[q])[k] = net[q][k + 1]
    BY <1>3, <1>8
  <2>. QED BY <2>1
<1>11. Sent(p)' = Sent(p)
  BY <1>8 DEF Sent
<1>. HIDE DEF p
<1>. QED BY <1>1, <1>3, <1>4, <1>6, <1>7, <1>9, <1>10, <1>11, LocalStep

\* A step of p that sends nothing and leaves the call alone
LEMMA SilentStep ==
  ASSUME IInv, NEW p \in Peers, NEW e, NEW z, NEW rew, Outcome(p, e, z, rew),
         UNCHANGED <<net, call, shared, halves>>
  PROVE  IInv'
<1>1. World' = World /\ call' \in CallType /\ call'.n = call.n
  BY DEF World, IInv, WellTyped
<1>2. /\ net' \in [Peers -> Seq(Types)] /\ Sent(Other(p))' = Sent(Other(p))
      /\ Sent(p)' = Sent(p)
  BY DEF IInv, WellTyped, Sent
<1>. QED BY <1>1, <1>2, LocalStep

LEMMA StartStep ==
  ASSUME IInv, NEW p \in Peers, startChannelEngine(p)
  PROVE  IInv'
<1>1. /\ chan[p] \in ChannelType /\ chan[Other(p)] \in ChannelType
      /\ World \in WorldType
      /\ Good(World, p, Other(p), chan[p], ctx[p], cache[p], p \in updated,
              chan[Other(p)], ctx[Other(p)], cache[Other(p)])
      /\ updated \subseteq Peers
  BY Facts, FromInv
<1>. DEFINE e == [Armed(chan[p]) EXCEPT !.st = "init"]
<1>2. /\ Fresh(chan[p]) /\ chan' = [chan EXCEPT ![p] = e]
      /\ UNCHANGED <<ctx, net, cache, call, updated, shared, halves>>
  BY DEF startChannelEngine, Fresh, IInv, WellTyped
<1>3. ctx' = [ctx EXCEPT ![p] = ctx[p]] /\ cache' = [cache EXCEPT ![p] = cache[p]]
  BY <1>2 DEF IInv, WellTyped
<1>4. e \in ChannelType /\ Moved(chan[p], e, "init")
  BY <1>1, TimerFields, MovedFields DEF States
<1>. HIDE DEF e
<1>5. /\ Good(World, p, Other(p), e, ctx[p], cache[p], p \in updated,
              chan[Other(p)], ctx[Other(p)], cache[Other(p)])
      /\ Kept(World, p, chan[p], e)
  BY <1>1, <1>2, <1>4, FreshGood
<1>6. Outcome(p, e, ctx[p], cache[p])
  BY <1>1, <1>2, <1>3, <1>5 DEF Outcome
<1>. QED BY <1>2, <1>6, SilentStep

\* A timer changes and nothing else of the records.
LEMMA TimerOutcome ==
  ASSUME IInv, NEW p \in Peers, NEW e \in ChannelType, Alike(chan[p], e),
         chan' = [chan EXCEPT ![p] = e], UNCHANGED <<ctx, cache, updated>>
  PROVE  Outcome(p, e, ctx[p], cache[p])
<1>1. /\ World \in WorldType
      /\ Good(World, p, Other(p), chan[p], ctx[p], cache[p], p \in updated,
              chan[Other(p)], ctx[Other(p)], cache[Other(p)])
      /\ updated \subseteq Peers
  BY Facts, FromInv
<1>2. /\ Good(World, p, Other(p), e, ctx[p], cache[p], p \in updated,
              chan[Other(p)], ctx[Other(p)], cache[Other(p)])
      /\ Kept(World, p, chan[p], e)
  BY <1>1, AlikeGood
<1>3. ctx' = [ctx EXCEPT ![p] = ctx[p]] /\ cache' = [cache EXCEPT ![p] = cache[p]]
  BY DEF IInv, WellTyped
<1>. QED BY <1>1, <1>2, <1>3 DEF Outcome

LEMMA FiredFields ==
  ASSUME NEW c \in ChannelType
  PROVE  Fired(c) \in ChannelType /\ Alike(c, Fired(c))
<1>1. CASE c.count < Limit(c.st)
  <2>. DEFINE n == c.count + 1
              e == [c EXCEPT !.count = n]
  <2>1. n \in Int
    BY ChannelFields
  <2>2. Fired(c) = e
    BY <1>1 DEF Fired, ChannelType
  <2>. HIDE DEF n
  <2>3. e \in ChannelType
    BY <2>1 DEF ChannelType
  <2>4. Alike(c, e)
    BY DEF Alike, ChannelType
  <2>. QED BY <2>2, <2>3, <2>4
<1>2. CASE ~(c.count < Limit(c.st))
  BY <1>2, TimerFields DEF Fired
<1>. QED BY <1>1, <1>2

\* What a peer repeats is justified by its state.
LEMMA ResentJustified ==
  ASSUME NEW w, NEW p, NEW c, Shape(w, c), c.st \in DOMAIN Resent
  PROVE  Resent[c.st] \in Types /\ Justified(w, p, c, Resent[c.st])
<1>1. c.st \in {"init", "waitHelloAck", "sendingCommit", "initDHPart2", "initConfirm2"}
  BY DEF Resent
<1>2. Leads(c) /\ ~Follows(c)
  BY <1>1, ChannelFields DEF Shape, Leads, Follows
<1>3. CASE c.st = "init"
  BY <1>3 DEF Resent, Types, Justified
<1>4. CASE c.st = "waitHelloAck"
  BY <1>4 DEF Resent, Types, Justified
<1>5. CASE c.st = "sendingCommit"
  BY <1>2, <1>5 DEF Resent, Types, Justified, Early, Fresh
<1>6. CASE c.st = "initDHPart2"
  BY <1>2, <1>6 DEF Resent, Types, Justified, Chosen, Keyed, Shape
<1>7. CASE c.st = "initConfirm2"
  BY <1>2, <1>7 DEF Resent, Types, Justified
<1>. QED BY <1>1, <1>3, <1>4, <1>5, <1>6, <1>7

LEMMA IterateStep ==
  ASSUME IInv, NEW p \in Peers, iterate(p)
  PROVE  IInv'
<1>. DEFINE e == Fired(chan[p])
            m == Resent[chan[p].st]
<1>1. /\ chan[p] \in ChannelType /\ Shape(World, chan[p])
      /\ chan[p].st \in DOMAIN Resent
      /\ chan \in [Peers -> ChannelType] /\ net \in [Peers -> Seq(Types)]
  BY Facts DEF iterate, IInv, WellTyped
<1>2. e \in ChannelType /\ Alike(chan[p], e)
  BY <1>1, FiredFields
<1>3. m \in Types /\ Justified(World, p, chan[p], m)
  BY <1>1, ResentJustified
<1>. HIDE DEF e, m
<1>4. /\ chan' = [chan EXCEPT ![p] = e]
      /\ net' = [net EXCEPT ![p] = Append(net[p], m)]
      /\ UNCHANGED <<ctx, cache, call, updated, shared, halves>>
  BY <1>1 DEF iterate, e, m
<1>5. Outcome(p, e, ctx[p], cache[p])
  BY <1>2, <1>4, TimerOutcome
<1>6. Justified(World, p, e, m)
  BY <1>3, <1>5 DEF Outcome, Kept
<1>7. Other(p) \in Peers /\ Other(p) # p
  BY TwoPeers
<1>8. /\ net[p] \in Seq(Types) /\ net'[p] = Append(net[p], m)
      /\ net'[Other(p)] = net[Other(p)]
  BY <1>1, <1>4, <1>7
<1>9. net' \in [Peers -> Seq(Types)]
  <2>1. Append(net[p], m) \in Seq(Types)
    BY <1>3, <1>8
  <2>. QED BY <1>1, <1>4, <2>1
<1>10. Sent(Other(p))' \subseteq Sent(Other(p))
  BY <1>8 DEF Sent
<1>11. ASSUME NEW k \in Sent(p)'
       PROVE  k \in Sent(p) \/ Justified(World, p, e, k)
  <2>1. PICK j \in DOMAIN Append(net[p], m) : k = Append(net[p], m)[j]
    BY <1>8, <1>11 DEF Sent
  <2>2. CASE j = Len(net[p]) + 1
    BY <1>3, <1>6, <1>8, <2>1, <2>2
  <2>3. CASE j # Len(net[p]) + 1
    <3>1. j \in DOMAIN net[p] /\ k = net[p][j]
      BY <1>3, <1>8, <2>1, <2>3
    <3>. QED BY <3>1 DEF Sent
  <2>. QED BY <2>2, <2>3
<1>12. World' = World /\ call' \in CallType /\ call'.n = call.n
  BY <1>4 DEF World, IInv, WellTyped
<1>. QED BY <1>4, <1>5, <1>9, <1>10, <1>11, <1>12, LocalStep

LEMMA ResetTimerStep ==
  ASSUME IInv, NEW p \in Peers, resetRetransmissionTimer(p)
  PROVE  IInv'
<1>. DEFINE yes == TRUE
            e == [chan[p] EXCEPT !.on = yes, !.count = -1]
<1>1. /\ chan[p] \in ChannelType /\ chan \in [Peers -> ChannelType]
      /\ call \in CallType
  BY Facts DEF IInv, WellTyped
<1>2. /\ chan' = [chan EXCEPT ![p] = e]
      /\ call' = [call EXCEPT !.reset = yes]
      /\ UNCHANGED <<ctx, net, cache, updated, shared, halves>>
  BY <1>1 DEF resetRetransmissionTimer
<1>3. yes \in BOOLEAN /\ -1 \in Int
  OBVIOUS
<1>. HIDE DEF yes
<1>4. e \in ChannelType
  BY <1>1, <1>3 DEF ChannelType
<1>5. Alike(chan[p], e)
  BY <1>1 DEF ChannelType, Alike
<1>. HIDE DEF e
<1>6. Outcome(p, e, ctx[p], cache[p])
  BY <1>2, <1>4, <1>5, TimerOutcome
<1>7. call' \in CallType
  BY <1>1, <1>2, <1>3 DEF CallType
<1>8. call'.n = call.n /\ call'.mode = call.mode /\ call'.lower = call.lower
  BY <1>1, <1>2 DEF CallType
<1>9. World' = World
  BY <1>2, <1>8 DEF World
<1>10. /\ net' \in [Peers -> Seq(Types)] /\ Sent(Other(p))' = Sent(Other(p))
       /\ Sent(p)' = Sent(p)
  BY <1>2 DEF IInv, WellTyped, Sent
<1>. QED BY <1>2, <1>6, <1>7, <1>8, <1>9, <1>10, LocalStep

LEMMA SASVerifiedStep ==
  ASSUME IInv, NEW p \in Peers, SASVerified(p)
  PROVE  IInv'
<1>. DEFINE q == Other(p)
            no == FALSE
            yes == TRUE
            z == [ctx[p] EXCEPT !.mismatch = no]
            row == IF ctx[p].mismatch THEN RenewedRow(cache[p], z) ELSE cache[p]
            rew == [row EXCEPT !.pvs = yes]
<1>1. /\ chan[p] \in ChannelType /\ ctx[p] \in ContextType
      /\ cache[p] \in CacheType
      /\ World \in WorldType
      /\ Good(World, p, q, chan[p], ctx[p], cache[p], p \in updated,
              chan[q], ctx[q], cache[q])
      /\ updated \subseteq Peers /\ World.n = call.n
      /\ call.n \in 1 .. MaxCalls
  BY Facts, FromInv
<1>2. /\ ctx[p].secure
      /\ cache' = [cache EXCEPT ![p] = rew] /\ ctx' = [ctx EXCEPT ![p] = z]
      /\ updated' = IF ctx[p].mismatch THEN updated \cup {p} ELSE updated
      /\ UNCHANGED <<chan, net, call, shared, halves>>
  BY DEF SASVerified
<1>3. no \in BOOLEAN /\ yes \in BOOLEAN /\ ~no
  OBVIOUS
<1>. HIDE DEF no, yes
<1>4. z \in ContextType
  BY <1>1, <1>3 DEF ContextType
<1>5. /\ z.id1 = ctx[p].id1 /\ z.id2 = ctx[p].id2 /\ z.secure = ctx[p].secure
      /\ z.pvs = ctx[p].pvs /\ z.mismatch = no /\ z.sess = ctx[p].sess
      /\ z.rs1 = ctx[p].rs1
  BY <1>1 DEF ContextType
<1>. HIDE DEF z
<1>6. call.n \in Secrets
  BY <1>1, BoundsAssumption DEF Secrets
<1>7. /\ row \in CacheType
      /\ ctx[p].mismatch => row.rs1 = call.n
      /\ ~ctx[p].mismatch => row = cache[p]
  BY <1>1, <1>4, <1>6, RenewedFields
<1>. HIDE DEF row
<1>8. rew \in CacheType
  BY <1>3, <1>7 DEF CacheType
<1>9. rew.rs1 = row.rs1 /\ rew.rs2 = row.rs2
  BY <1>7 DEF CacheType
<1>. HIDE DEF rew
<1>10. IF ctx[p].mismatch THEN rew.rs1 = World.n /\ p \in updated'
       ELSE /\ rew.rs1 = cache[p].rs1 /\ rew.rs2 = cache[p].rs2
            /\ (p \in updated' <=> p \in updated)
  BY <1>1, <1>2, <1>7, <1>9
<1>11. Good(World, p, q, chan[p], z, rew, p \in updated', chan[q], ctx[q], cache[q])
  <2>1. ~z.mismatch
    BY <1>3, <1>5
  <2>. QED BY <1>1, <1>2, <1>4, <1>5, <1>8, <1>10, <2>1, VerifiedGood, Zenon
<1>12. updated' \subseteq Peers /\ updated' \ {p} = updated \ {p}
  BY <1>1, <1>2
<1>13. chan' = [chan EXCEPT ![p] = chan[p]] /\ Kept(World, p, chan[p], chan[p])
  BY <1>2 DEF IInv, WellTyped, Kept
<1>14. Outcome(p, chan[p], z, rew)
  BY <1>2, <1>11, <1>12, <1>13 DEF Outcome
<1>. QED BY <1>2, <1>14, SilentStep

LEMMA ResetSASStep ==
  ASSUME IInv, NEW p \in Peers, resetSASVerified(p)
  PROVE  IInv'
<1>. DEFINE q == Other(p)
            no == FALSE
            rew == [cache[p] EXCEPT !.pvs = no]
<1>1. /\ cache[p] \in CacheType
      /\ World \in WorldType
      /\ Good(World, p, q, chan[p], ctx[p], cache[p], p \in updated,
              chan[q], ctx[q], cache[q])
      /\ updated \subseteq Peers
  BY Facts, FromInv
<1>2. /\ cache' = [cache EXCEPT ![p] = rew]
      /\ UNCHANGED <<chan, ctx, net, call, updated, shared, halves>>
  BY DEF resetSASVerified, IInv, WellTyped
<1>3. no \in BOOLEAN /\ ~no
  OBVIOUS
<1>. HIDE DEF no
<1>4. rew \in CacheType
  BY <1>1, <1>3 DEF CacheType
<1>5. rew.rs1 = cache[p].rs1 /\ rew.rs2 = cache[p].rs2 /\ rew.pvs = no
  BY <1>1 DEF CacheType
<1>. HIDE DEF rew
<1>6. Good(World, p, q, chan[p], ctx[p], rew, p \in updated,
           chan[q], ctx[q], cache[q])
  BY <1>1, <1>3, <1>4, <1>5, UnverifiedGood
<1>7. /\ chan' = [chan EXCEPT ![p] = chan[p]] /\ Kept(World, p, chan[p], chan[p])
      /\ ctx' = [ctx EXCEPT ![p] = ctx[p]]
  BY <1>2 DEF IInv, WellTyped, Kept
<1>8. Outcome(p, chan[p], ctx[p], rew)
  BY <1>1, <1>2, <1>6, <1>7 DEF Outcome
<1>. QED BY <1>2, <1>8, SilentStep

LEMMA NewFields ==
  /\ NewChannel \in ChannelType /\ NewChannel.st = "idle"
  /\ NewChannel.role = "initiator" /\ NewChannel.key = NoKey
  /\ NewChannel.srtp = {} /\ ~NewChannel.told
  /\ NewContext \in ContextType
  /\ NewContext.id1 = None /\ NewContext.id2 = None
  /\ ~NewContext.pvs /\ ~NewContext.mismatch /\ ~NewContext.secure
<1>. DEFINE no == FALSE
            none == {}
            zero == None
<1>1. /\ no \in BOOLEAN /\ ~no /\ none \in SUBSET {"receiver", "sender"}
      /\ 0 \in Int /\ zero \in Secrets
  BY BoundsAssumption DEF None, Secrets
<1>2. NewChannel = [st |-> "idle", role |-> "initiator", on |-> no, count |-> 0,
                    key |-> NoKey, srtp |-> none, told |-> no]
  BY DEF NewChannel
<1>3. NewContext = [rs1 |-> zero, rs2 |-> zero, id1 |-> zero, id2 |-> zero,
                    pvs |-> no, peerPVS |-> no, mismatch |-> no,
                    sess |-> NoKey, secure |-> no]
  BY DEF NewContext
<1>. HIDE DEF no, none, zero
<1>4. NewChannel \in ChannelType
  BY <1>1, <1>2 DEF ChannelType, States
<1>5. /\ NewChannel.st = "idle" /\ NewChannel.role = "initiator"
      /\ NewChannel.key = NoKey /\ NewChannel.srtp = none /\ NewChannel.told = no
  BY <1>2
<1>6. NewContext \in ContextType
  BY <1>1, <1>3 DEF ContextType
<1>7. /\ NewContext.id1 = zero /\ NewContext.id2 = zero /\ NewContext.pvs = no
      /\ NewContext.mismatch = no /\ NewContext.secure = no
  BY <1>3
<1>. QED BY <1>1, <1>4, <1>5, <1>6, <1>7 DEF none, zero

\* The state of a new channel
LEMMA NewState ==
  /\ Fresh(NewChannel) /\ Early(NewChannel) /\ ~Keyed(NewChannel)
  /\ ~Follows(NewChannel) /\ ~Chosen(NewChannel) /\ NewChannel.st # "secure"
  /\ \A w : Shape(w, NewChannel)
<1>1. /\ Fresh(NewChannel) /\ Early(NewChannel) /\ ~Keyed(NewChannel)
      /\ ~Follows(NewChannel) /\ ~Chosen(NewChannel) /\ NewChannel.st # "secure"
  BY NewFields DEF Fresh, Early, Keyed, Follows, Chosen
<1>. QED BY <1>1, NewFields DEF Shape

\* The two peers of a secure channel have the same session key.
LEMMA SameSession ==
  ASSUME IInv, NEW p \in Peers, DHM(World), chan[p].st = "secure",
         chan[Other(p)].st = "secure"
  PROVE  ctx[p].sess = ctx[Other(p)].sess
<1>. DEFINE q == Other(p)
<1>1. Keyed(chan[p]) /\ Keyed(chan[q])
  BY DEF Keyed
<1>2. ctx[p].sess = chan[p].key /\ ctx[q].sess = chan[q].key
  BY <1>1, FromInv DEF Good, Own, Context, Rooted
<1>3. /\ Leads(chan[p]) \/ Follows(chan[p])
      /\ Leads(chan[q]) \/ Follows(chan[q])
      /\ ~(Leads(chan[p]) /\ Follows(chan[p]))
      /\ ~(Leads(chan[q]) /\ Follows(chan[q]))
  BY Facts, ChannelFields DEF Leads, Follows
<1>4. Leads(chan[p]) <=> Follows(chan[q])
  BY <1>1, <1>3, FromInv DEF Good, Pair, Abreast, Chosen
<1>5. chan[p].key = chan[q].key
  BY <1>1, <1>3, <1>4, FromInv DEF Good, Pair, KeysOf
<1>. QED BY <1>2, <1>5

LEMMA AddChannelStep ==
  ASSUME IInv, addChannel
  PROVE  IInv'
<1>1. PICK l \in Peers :
        call' = [call EXCEPT !.mode = "Mult", !.lower = l, !.lost = 0,
                             !.reset = FALSE]
  BY DEF addChannel
<1>2. /\ call.mode = "DHM" /\ \A p \in Peers : chan[p].st = "secure"
      /\ chan' = [p \in Peers |-> NewChannel]
      /\ net' = [p \in Peers |-> <<>>]
      /\ UNCHANGED <<ctx, cache, updated, shared, halves>>
  BY DEF addChannel
<1>3. call \in CallType /\ 0 \in 0 .. MaxLoss
  BY BoundsAssumption DEF IInv, WellTyped
<1>4. call' \in CallType
  BY <1>1, <1>3 DEF CallType
<1>5. call'.n = call.n /\ call'.mode = "Mult"
  BY <1>1, <1>3 DEF CallType
<1>6. WellTyped' /\ halves' < call'.n
  BY <1>2, <1>4, <1>5, NewFields DEF IInv, WellTyped
<1>. DEFINE w == World
            v == World'
            c == NewChannel
<1>7. /\ DHM(w) /\ Mult(v) /\ ~DHM(v) /\ ~Mult(w) /\ v.n = w.n
      /\ Lucky(v) <=> Lucky(w)
      /\ Harmless(v) <=> Harmless(w)
  BY <1>2, <1>5 DEF World, DHM, Mult, Lucky, Harmless
<1>8. ASSUME NEW p \in Peers
      PROVE  PeerInv(p)'
  <2>. DEFINE q == Other(p)
  <2>1. /\ q \in Peers /\ p # q /\ chan[p].st = "secure" /\ chan[q].st = "secure"
    BY <1>2, TwoPeers
  <2>2. /\ Good(w, p, q, chan[p], ctx[p], cache[p], p \in updated,
                chan[q], ctx[q], cache[q])
    BY FromInv
  <2>3. Keyed(chan[p]) /\ ~Fresh(chan[p]) /\ ~Fresh(chan[q])
    BY <2>1 DEF Keyed, Fresh
  <2>4. /\ chan'[p] = c /\ chan'[q] = c /\ ctx'[p] = ctx[p] /\ ctx'[q] = ctx[q]
        /\ cache'[p] = cache[p] /\ cache'[q] = cache[q]
        /\ updated' = updated /\ net'[p] = <<>>
    BY <1>2, <2>1
  <2>. HIDE DEF w, v, c
  <2>5. /\ Start1(v, c, ctx[p], cache[p]) = Start1(w, chan[p], ctx[p], cache[p])
        /\ Start2(v, c, ctx[p], cache[p]) = Start2(w, chan[p], ctx[p], cache[p])
        /\ Start1(v, c, ctx[q], cache[q]) = Start1(w, chan[q], ctx[q], cache[q])
        /\ Start2(v, c, ctx[q], cache[q]) = Start2(w, chan[q], ctx[q], cache[q])
    BY <1>7, <2>3 DEF Start1, Start2
  <2>6. Own(v, c, ctx[p], cache[p], p \in updated)
    <3>1. Shape(v, c) /\ Row(cache[p]) /\ ~c.told
      BY <2>2, NewState, NewFields DEF Good, Own, c
    <3>2. Rooted(v, c, ctx[p])
      BY <1>7, <2>2, <2>3, <3>1 DEF Good, Own, Context, Rooted
    <3>3. Context(v, c, ctx[p])
      BY <1>7, <2>1, <2>2, <3>2 DEF Good, Own, Context
    <3>4. Renewal(v, c, ctx[p], cache[p], p \in updated)
      BY <1>7, <2>2, <2>5 DEF Good, Own, Renewal
    <3>. QED BY <3>1, <3>3, <3>4 DEF Own
  <2>7. Pair(v, p, q, c, ctx[p], cache[p], c, ctx[q], cache[q])
    <3>1. Abreast(c, c)
      BY NewState DEF Abreast, c
    <3>2. ctx[p].sess = ctx[q].sess
      BY <1>7, <2>1, SameSession DEF w
    <3>3. KeysOf(v, p, q, c, ctx[p], ctx[q])
      BY <1>7, <3>2, NewState DEF KeysOf, c
    <3>4. Bond(v, Start1(v, c, ctx[p], cache[p]), Start2(v, c, ctx[p], cache[p]),
               Start1(v, c, ctx[q], cache[q]), Start2(v, c, ctx[q], cache[q]))
      BY <1>7, <2>2, <2>5 DEF Good, Pair, Bond
    <3>. QED BY <3>1, <3>3, <3>4 DEF Pair
  <2>8. Sent(p)' = {}
    BY <2>4 DEF Sent
  <2>. QED BY <2>4, <2>6, <2>7, <2>8, Zenon DEF PeerInv, v
<1>. QED BY <1>6, <1>8 DEF IInv

\* The beginning of a call, when only the caches remain
LEMMA NewGood ==
  ASSUME NEW v, DHM(v), NEW p, NEW q, NEW row, NEW rov, NEW renewed, ~renewed,
         Row(row), Bond(v, row.rs1, row.rs2, rov.rs1, rov.rs2)
  PROVE  /\ Own(v, NewChannel, NewContext, row, renewed)
         /\ Pair(v, p, q, NewChannel, NewContext, row, NewChannel, NewContext, rov)
<1>1. ~Mult(v)
  BY DEF DHM, Mult
<1>2. /\ Start1(v, NewChannel, NewContext, row) = row.rs1
      /\ Start2(v, NewChannel, NewContext, row) = row.rs2
      /\ Start1(v, NewChannel, NewContext, rov) = rov.rs1
      /\ Start2(v, NewChannel, NewContext, rov) = rov.rs2
  BY NewState DEF Start1, Start2
<1>3. Context(v, NewChannel, NewContext)
  BY <1>1, NewState, NewFields DEF Context, Unkeyed
<1>4. Renewal(v, NewChannel, NewContext, row, renewed)
  BY <1>2, NewFields DEF Renewal
<1>5. Abreast(NewChannel, NewChannel) /\ Shape(v, NewChannel)
  BY NewState DEF Abreast
<1>6. KeysOf(v, p, q, NewChannel, NewContext, NewContext)
  BY <1>1, NewState DEF KeysOf
<1>. QED BY <1>2, <1>3, <1>4, <1>5, <1>6 DEF Own, Pair

\* The caches at the end of a call that leaves the history to the next one, v
LEMMA Inherited ==
  ASSUME IInv, NEW p \in Peers, NEW v,
         v.shared => shared \/ updated = Peers,
         IF updated = Peers THEN v.halves = 0
         ELSE IF updated = {} THEN v.halves = halves
         ELSE v.halves = halves + 1
  PROVE  Bond(v, cache[p].rs1, cache[p].rs2,
              cache[Other(p)].rs1, cache[Other(p)].rs2)
<1>. DEFINE q == Other(p)
            w == World
            s1 == Start1(w, chan[p], ctx[p], cache[p])
            s2 == Start2(w, chan[p], ctx[p], cache[p])
            t1 == Start1(w, chan[q], ctx[q], cache[q])
            t2 == Start2(w, chan[q], ctx[q], cache[q])
            a == cache[p]
            b == cache[q]
<1>1. /\ Renewal(w, chan[p], ctx[p], cache[p], p \in updated)
      /\ Renewal(w, chan[q], ctx[q], cache[q], q \in updated)
      /\ Bond(w, s1, s2, t1, t2)
  BY FromInv DEF Good, Own, Pair
<1>2. /\ q \in Peers /\ p # q /\ \A r \in Peers : r = p \/ r = q
  BY TwoPeers
<1>3. /\ w.shared = shared /\ w.halves = halves /\ w.n # None
      /\ halves \in Nat /\ updated \subseteq Peers
  BY BoundsAssumption DEF World, IInv, WellTyped, CallType, None
<1>4. /\ p \in updated => a.rs1 = w.n /\ (Lucky(w) => a.rs2 = s1)
      /\ p \notin updated => a.rs1 = s1 /\ a.rs2 = s2
      /\ q \in updated => b.rs1 = w.n /\ (Lucky(w) => b.rs2 = t1)
      /\ q \notin updated => b.rs1 = t1 /\ b.rs2 = t2
  BY <1>1 DEF Renewal
<1>5. /\ Lucky(w) => s1 = t1 /\ s1 # None
      /\ Harmless(w) => Common(s1, s2, t1, t2)
      /\ Lucky(w) <=> shared /\ halves = 0
      /\ Harmless(w) <=> shared /\ halves < 2
  BY <1>1, <1>3 DEF Bond, Lucky, Harmless
<1>. HIDE DEF w, s1, s2, t1, t2, a, b
<1>6. CASE p \in updated /\ q \in updated
  BY <1>3, <1>4, <1>6 DEF Bond, Common, a, b
<1>7. CASE p \notin updated /\ q \notin updated
  <2>1. updated = {} /\ updated # Peers
    BY <1>2, <1>3, <1>7
  <2>2. /\ Lucky(v) => Lucky(w)
        /\ Harmless(v) => Harmless(w)
    BY <1>5, <2>1 DEF Lucky, Harmless
  <2>. QED BY <1>4, <1>5, <1>7, <2>2 DEF Bond, a, b
<1>8. CASE ~(p \in updated <=> q \in updated)
  <2>1. updated # {} /\ updated # Peers
    BY <1>2, <1>8
  <2>2. /\ ~Lucky(v)
        /\ Harmless(v) => Lucky(w)
    BY <1>3, <1>5, <2>1 DEF Lucky, Harmless
  <2>3. Lucky(w) => Common(a.rs1, a.rs2, b.rs1, b.rs2)
    BY <1>4, <1>5, <1>8 DEF Common
  <2>. QED BY <2>2, <2>3 DEF Bond, a, b
<1>. QED BY <1>6, <1>7, <1>8

LEMMA NewCallStep ==
  ASSUME IInv, newCall
  PROVE  IInv'
<1>1. PICK l \in Peers :
        call' = [n |-> call.n + 1, mode |-> "DHM", lower |-> l,
                 lost |-> 0, reset |-> FALSE]
  BY DEF newCall
<1>2. /\ call.n < MaxCalls
      /\ chan' = [p \in Peers |-> NewChannel]
      /\ ctx' = [p \in Peers |-> NewContext]
      /\ net' = [p \in Peers |-> <<>>]
      /\ updated' = {} /\ cache' = cache
      /\ shared' = (shared \/ updated = Peers)
  BY DEF newCall
<1>3. /\ halves' = CASE updated = Peers -> 0
                     [] updated = {} -> halves
                     [] OTHER -> halves + 1
  BY DEF newCall
<1>4. Peers # {}
  BY PeersAssumption
<1>5. IF updated = Peers THEN halves' = 0
      ELSE IF updated = {} THEN halves' = halves
      ELSE halves' = halves + 1
  BY <1>3, <1>4
<1>6. /\ call.n \in 1 .. MaxCalls /\ halves \in 0 .. MaxCalls /\ halves < call.n
      /\ MaxCalls \in Nat /\ MaxLoss \in Nat
  BY BoundsAssumption DEF IInv, WellTyped, CallType
<1>7. call' \in CallType /\ call'.n = call.n + 1 /\ call'.mode = "DHM"
  BY <1>1, <1>2, <1>6 DEF CallType
<1>8. halves' \in 0 .. MaxCalls /\ halves' < call'.n
  <2>1. halves' = 0 \/ halves' = halves \/ halves' = halves + 1
    BY <1>5
  <2>. QED BY <1>2, <1>6, <1>7, <2>1
<1>9. WellTyped'
  BY <1>2, <1>7, <1>8, NewFields DEF IInv, WellTyped
<1>. DEFINE v == World'
<1>10. DHM(v) /\ v.shared = shared' /\ v.halves = halves'
  BY <1>7 DEF World, DHM
<1>11. ASSUME NEW p \in Peers
       PROVE  PeerInv(p)'
  <2>. DEFINE q == Other(p)
  <2>1. q \in Peers
    BY TwoPeers
  <2>2. /\ chan'[p] = NewChannel /\ chan'[q] = NewChannel
        /\ ctx'[p] = NewContext /\ ctx'[q] = NewContext
        /\ cache'[p] = cache[p] /\ cache'[q] = cache[q]
        /\ p \notin updated' /\ net'[p] = <<>>
    BY <1>2, <2>1
  <2>. HIDE DEF v
  <2>3. v.shared => shared \/ updated = Peers
    BY <1>2, <1>10, Zenon
  <2>4. IF updated = Peers THEN v.halves = 0
        ELSE IF updated = {} THEN v.halves = halves
        ELSE v.halves = halves + 1
    BY <1>5, <1>10
  <2>5. Bond(v, cache[p].rs1, cache[p].rs2, cache[q].rs1, cache[q].rs2)
    BY <2>3, <2>4, Inherited, Zenon
  <2>6. Row(cache[p])
    BY FromInv DEF Good, Own
  <2>7. /\ Own(v, NewChannel, NewContext, cache[p], p \in updated')
        /\ Pair(v, p, q, NewChannel, NewContext, cache[p],
                NewChannel, NewContext, cache[q])
    BY <1>10, <2>2, <2>5, <2>6, NewGood
  <2>8. Sent(p)' = {}
    BY <2>2 DEF Sent
  <2>. QED BY <2>2, <2>7, <2>8, Zenon DEF PeerInv, v
<1>. QED BY <1>8, <1>9, <1>11 DEF IInv

LEMMA InvInit == Init => IInv
<1>. SUFFICES ASSUME Init PROVE IInv
  OBVIOUS
<1>. DEFINE no == FALSE
            zero == None
            row == [rs1 |-> zero, rs2 |-> zero, pvs |-> no]
<1>1. /\ chan = [p \in Peers |-> NewChannel]
      /\ ctx = [p \in Peers |-> NewContext]
      /\ net = [p \in Peers |-> <<>>]
      /\ cache = [p \in Peers |-> row]
      /\ call \in CallType /\ call.n = 1 /\ call.mode = "DHM"
      /\ updated = {} /\ shared = FALSE /\ halves = 0
  BY DEF Init
<1>2. no \in BOOLEAN /\ ~no /\ zero \in Secrets /\ zero = None
  BY BoundsAssumption DEF Secrets, None
<1>. HIDE DEF no, zero
<1>3. row \in CacheType
  BY <1>2 DEF CacheType
<1>4. row.rs1 = zero /\ row.rs2 = zero /\ row.pvs = no
  OBVIOUS
<1>. HIDE DEF row
<1>5. Row(row)
  BY <1>2, <1>3, <1>4 DEF Row
<1>6. WellTyped /\ halves < call.n
  <2>1. MaxCalls \in Nat
    BY BoundsAssumption
  <2>2. halves \in 0 .. MaxCalls /\ halves < call.n
    BY <1>1, <2>1
  <2>3. /\ chan \in [Peers -> ChannelType] /\ ctx \in [Peers -> ContextType]
        /\ net \in [Peers -> Seq(Types)] /\ cache \in [Peers -> CacheType]
    BY <1>1, <1>3, NewFields
  <2>4. shared \in BOOLEAN /\ updated \subseteq Peers
    BY <1>1, Zenon
  <2>. QED BY <1>1, <2>2, <2>3, <2>4, Zenon DEF WellTyped
<1>7. DHM(World) /\ ~World.shared
  BY <1>1 DEF World, DHM
<1>8. Bond(World, row.rs1, row.rs2, row.rs1, row.rs2)
  BY <1>7 DEF Bond, Lucky, Harmless
<1>9. ASSUME NEW p \in Peers
      PROVE  PeerInv(p)
  <2>1. Other(p) \in Peers
    BY TwoPeers
  <2>2. /\ chan[p] = NewChannel /\ chan[Other(p)] = NewChannel
        /\ ctx[p] = NewContext /\ ctx[Other(p)] = NewContext
        /\ cache[p] = row /\ cache[Other(p)] = row
        /\ p \notin updated /\ net[p] = <<>>
    BY <1>1, <2>1
  <2>3. /\ Own(World, NewChannel, NewContext, row, p \in updated)
        /\ Pair(World, p, Other(p), NewChannel, NewContext, row,
                NewChannel, NewContext, row)
    BY <1>5, <1>7, <1>8, <2>2, NewGood
  <2>4. Sent(p) = {}
    BY <2>2 DEF Sent
  <2>. QED BY <2>2, <2>3, <2>4 DEF PeerInv
<1>. QED BY <1>6, <1>9 DEF IInv

LEMMA InvStep == IInv /\ [Next]_vars => IInv'
<1>. SUFFICES ASSUME IInv, [Next]_vars PROVE IInv'
  OBVIOUS
<1>1. ASSUME NEW p \in Peers, processMessage(p) PROVE IInv'
  BY <1>1, ProcessStep
<1>2. ASSUME NEW p \in Peers, Lose(p) PROVE IInv'
  BY <1>2, LoseStep
<1>3. ASSUME NEW p \in Peers, startChannelEngine(p) PROVE IInv'
  BY <1>3, StartStep
<1>4. ASSUME NEW p \in Peers, iterate(p) PROVE IInv'
  BY <1>4, IterateStep
<1>5. ASSUME NEW p \in Peers, resetRetransmissionTimer(p) PROVE IInv'
  BY <1>5, ResetTimerStep
<1>6. ASSUME NEW p \in Peers, SASVerified(p) PROVE IInv'
  BY <1>6, SASVerifiedStep
<1>7. ASSUME NEW p \in Peers, resetSASVerified(p) PROVE IInv'
  BY <1>7, ResetSASStep
<1>8. CASE addChannel
  BY <1>8, AddChannelStep
<1>9. CASE newCall
  BY <1>9, NewCallStep
<1>10. CASE UNCHANGED vars
  <2>1. PICK p \in Peers : TRUE
    BY PeersAssumption
  <2>2. Outcome(p, chan[p], ctx[p], cache[p])
    BY <1>10, SameOutcome DEF vars
  <2>. QED BY <1>10, <2>2, SilentStep DEF vars
<1>. QED
  BY <1>1, <1>2, <1>3, <1>4, <1>5, <1>6, <1>7, <1>8, <1>9, <1>10 DEF Next

-----------------------------------------------------------------------------
(* The timers. *)

Counted(c) == c.count \in -1 .. MaxCount(c.st)
WithinLimits == \A p \in Peers : Counted(chan[p])

\* A timer that was just armed, stopped or reset is within every limit.
LEMMA LowCounted ==
  ASSUME NEW c, c.count \in {-1, 0}
  PROVE  Counted(c)
<1>1. MaxCount(c.st) \in {0, HelloMax, OtherMax}
  BY DEF MaxCount, Limit
<1>. QED BY <1>1, BoundsAssumption DEF Counted

\* A firing goes up to the limit of the state's packet.
LEMMA FiredCounted ==
  ASSUME NEW c \in ChannelType, Counted(c), c.st \in DOMAIN Resent
  PROVE  Counted(Fired(c))
<1>1. CASE c.count < Limit(c.st)
  <2>1. Limit(c.st) \in {HelloMax, OtherMax} /\ MaxCount(c.st) = Limit(c.st)
    BY DEF Limit, MaxCount
  <2>2. Fired(c).count = c.count + 1 /\ Fired(c).st = c.st
    BY <1>1 DEF Fired, ChannelType
  <2>. QED BY <1>1, <2>1, <2>2, BoundsAssumption DEF Counted
<1>2. CASE ~(c.count < Limit(c.st))
  <2>1. Fired(c).count = 0
    BY <1>2 DEF Fired, Stopped, ChannelType
  <2>. QED BY <2>1, LowCounted
<1>. QED BY <1>1, <1>2

\* A step that leaves the channels alone, or changes one and keeps its count in bounds
Rewound(p) ==
    \/ UNCHANGED chan
    \/ \E e : chan' = [chan EXCEPT ![p] = e] /\ Counted(e)

LEMMA RewoundStep ==
  ASSUME WellTyped, WithinLimits, NEW p \in Peers, Rewound(p)
  PROVE  WithinLimits'
<1>1. CASE UNCHANGED chan
  BY <1>1 DEF WithinLimits, Counted
<1>2. CASE \E e : chan' = [chan EXCEPT ![p] = e] /\ Counted(e)
  <2>1. PICK e : chan' = [chan EXCEPT ![p] = e] /\ Counted(e)
    BY <1>2
  <2>2. ASSUME NEW q \in Peers PROVE Counted(chan'[q])
    BY <2>1 DEF WellTyped, WithinLimits
  <2>. QED BY <2>2 DEF WithinLimits, Counted
<1>. QED BY <1>1, <1>2 DEF Rewound

\* Every handler that arms or stops a timer clears its count.
LEMMA TimersCleared ==
  ASSUME NEW c \in ChannelType, NEW st, NEW k, NEW r, NEW x
  PROVE  /\ Counted(Armed(c)) /\ Counted(Stopped(c))
         /\ Counted([Armed(c) EXCEPT !.st = st])
         /\ Counted([Armed(c) EXCEPT !.st = st, !.key = k])
         /\ Counted([Stopped(c) EXCEPT !.st = st])
         /\ Counted([Stopped(c) EXCEPT !.st = st, !.key = k])
         /\ Counted([[Stopped(c) EXCEPT !.role = r] EXCEPT !.st = st])
         /\ Counted([[Stopped(c) EXCEPT !.role = r] EXCEPT !.st = st, !.key = k])
         /\ Counted(SendingConfirm2(c))
         /\ Counted([SendingConfirm2(c) EXCEPT !.key = k])
         /\ Counted(Secure(c, x))
<1>. DEFINE a == Armed(c)
            s == Stopped(c)
<1>0. ASSUME NEW e, e.count = 0 PROVE Counted(e)
  BY <1>0, LowCounted
<1>1. a \in ChannelType /\ s \in ChannelType
  BY TimerFields
<1>2. a.count = 0 /\ s.count = 0
  BY DEF Armed, Stopped, ChannelType
<1>. HIDE DEF a, s
<1>3. /\ [a EXCEPT !.st = st].count = 0
      /\ [a EXCEPT !.st = st, !.key = k].count = 0
      /\ [s EXCEPT !.st = st].count = 0
      /\ [s EXCEPT !.st = st, !.key = k].count = 0
      /\ [[s EXCEPT !.role = r] EXCEPT !.st = st].count = 0
      /\ [[s EXCEPT !.role = r] EXCEPT !.st = st, !.key = k].count = 0
  BY <1>1, <1>2 DEF ChannelType
<1>4. /\ Counted(a) /\ Counted(s)
      /\ Counted([a EXCEPT !.st = st]) /\ Counted([a EXCEPT !.st = st, !.key = k])
      /\ Counted([s EXCEPT !.st = st]) /\ Counted([s EXCEPT !.st = st, !.key = k])
      /\ Counted([[s EXCEPT !.role = r] EXCEPT !.st = st])
      /\ Counted([[s EXCEPT !.role = r] EXCEPT !.st = st, !.key = k])
  BY <1>0, <1>2, <1>3, Zenon
<1>. DEFINE f == [a EXCEPT !.st = "initConfirm2", !.srtp = {"receiver"}]
            g == [f EXCEPT !.key = k]
<1>5. f.count = 0 /\ g.count = 0
  BY <1>1, <1>2 DEF ChannelType
<1>6. SendingConfirm2(c) = f
  BY DEF SendingConfirm2, a
<1>7. Counted(SendingConfirm2(c)) /\ Counted([SendingConfirm2(c) EXCEPT !.key = k])
  BY <1>0, <1>5, <1>6, Zenon
<1>. DEFINE b == x.pvs /\ x.peerPVS
            h == [s EXCEPT !.st = "secure", !.srtp = {"receiver", "sender"}, !.told = b]
<1>8. Secure(c, x) = h
  BY DEF Secure, s
<1>. HIDE DEF b
<1>9. h.count = 0
  BY <1>1, <1>2 DEF ChannelType
<1>10. Counted(Secure(c, x))
  BY <1>0, <1>8, <1>9, Zenon
<1>. QED BY <1>4, <1>7, <1>10 DEF a, s

\* The handlers of the packets
LEMMA HandlerRewinds ==
  ASSUME WellTyped, NEW p \in Peers, NEW m, Handler(p, m)
  PROVE  Rewound(p)
<1>. DEFINE c == chan[p]
<1>1. c \in ChannelType
  BY DEF WellTyped
<1>2. CASE state_discovery_init(p, m)
  BY <1>1, <1>2, TimersCleared DEF state_discovery_init, AfterHello, Rewound
<1>3. CASE state_discovery_waitingForHello(p, m)
  BY <1>1, <1>3, TimersCleared DEF state_discovery_waitingForHello, SendingCommit, Rewound
<1>4. ASSUME turnIntoResponder(p) PROVE Rewound(p)
  BY <1>1, <1>4, TimersCleared DEF turnIntoResponder, Rewound
<1>5. CASE state_discovery_waitingForHelloAck(p, m)
  BY <1>1, <1>4, <1>5, TimersCleared DEF state_discovery_waitingForHelloAck, SendingCommit, Rewound
<1>6. CASE state_keyAgreement_sendingCommit(p, m)
  <2>1. CASE UNCHANGED chan \/ turnIntoResponder(p)
    BY <1>4, <2>1 DEF Rewound
  <2>2. CASE \E k : chan' = [chan EXCEPT ![p] = [Armed(c) EXCEPT !.st = "initDHPart2", !.key = k]]
    <3>1. PICK k : chan' = [chan EXCEPT ![p] = [Armed(c) EXCEPT !.st = "initDHPart2", !.key = k]]
      BY <2>2
    <3>. QED BY <1>1, <3>1, TimersCleared DEF Rewound
  <2>3. CASE \E k : chan' = [chan EXCEPT ![p] = [SendingConfirm2(c) EXCEPT !.key = k]]
    <3>1. PICK k : chan' = [chan EXCEPT ![p] = [SendingConfirm2(c) EXCEPT !.key = k]]
      BY <2>3
    <3>. QED BY <1>1, <3>1, TimersCleared DEF Rewound
  <2>. QED BY <1>6, <2>1, <2>2, <2>3, Zenon DEF state_keyAgreement_sendingCommit
<1>7. CASE state_keyAgreement_responderSendingDHPart1(p, m)
  <2>1. CASE \E k : chan' = [chan EXCEPT ![p] = [Stopped(c) EXCEPT !.st = "respConfirm1", !.key = k]]
    <3>1. PICK k : chan' = [chan EXCEPT ![p] = [Stopped(c) EXCEPT !.st = "respConfirm1", !.key = k]]
      BY <2>1
    <3>. QED BY <1>1, <3>1, TimersCleared DEF Rewound
  <2>2. CASE UNCHANGED chan
    BY <2>2 DEF Rewound
  <2>. QED BY <1>7, <2>1, <2>2, Zenon DEF state_keyAgreement_responderSendingDHPart1
<1>8. CASE state_keyAgreement_initiatorSendingDHPart2(p, m)
  BY <1>1, <1>8, TimersCleared DEF state_keyAgreement_initiatorSendingDHPart2, Rewound
<1>9. CASE state_confirmation_responderSendingConfirm1(p, m)
  BY <1>1, <1>9, TimersCleared DEF state_confirmation_responderSendingConfirm1, Rewound
<1>10. CASE state_confirmation_initiatorSendingConfirm2(p, m)
  BY <1>1, <1>10, TimersCleared DEF state_confirmation_initiatorSendingConfirm2, Rewound
<1>11. CASE state_secure(p, m)
  BY <1>11 DEF state_secure, Rewound
<1>. QED
  BY <1>2, <1>3, <1>5, <1>6, <1>7, <1>8, <1>9, <1>10, <1>11 DEF Handler

\* Every step keeps the counts within their limits.
LEMMA LimitsStep ==
  ASSUME WellTyped, WithinLimits, [Next]_vars
  PROVE  WithinLimits'
<1>1. ASSUME NEW p \in Peers, processMessage(p) PROVE WithinLimits'
  BY <1>1, HandlerRewinds, RewoundStep DEF processMessage, Unexpected, Rewound
<1>2. ASSUME NEW p \in Peers, Lose(p) \/ SASVerified(p) \/ resetSASVerified(p)
      PROVE  WithinLimits'
  BY <1>2, RewoundStep DEF Lose, SASVerified, resetSASVerified, Rewound
<1>3. ASSUME NEW p \in Peers, startChannelEngine(p) PROVE WithinLimits'
  <2>1. chan[p] \in ChannelType
    BY DEF WellTyped
  <2>. QED BY <1>3, <2>1, TimersCleared, RewoundStep DEF startChannelEngine, Rewound
<1>4. ASSUME NEW p \in Peers, iterate(p) PROVE WithinLimits'
  <2>1. chan[p] \in ChannelType /\ Counted(chan[p])
    BY DEF WellTyped, WithinLimits
  <2>. QED BY <1>4, <2>1, FiredCounted, RewoundStep DEF iterate, Rewound
<1>5. ASSUME NEW p \in Peers, resetRetransmissionTimer(p) PROVE WithinLimits'
  <2>. DEFINE e == [chan[p] EXCEPT !.on = TRUE, !.count = -1]
  <2>1. chan[p] \in ChannelType /\ chan \in [Peers -> ChannelType]
    BY DEF WellTyped
  <2>2. chan' = [chan EXCEPT ![p] = e]
    BY <1>5, <2>1 DEF resetRetransmissionTimer
  <2>3. e.count = -1
    BY <2>1 DEF ChannelType
  <2>. HIDE DEF e
  <2>4. Counted(e)
    BY <2>3, LowCounted
  <2>5. Rewound(p)
    BY <2>2, <2>4 DEF Rewound
  <2>. QED BY <2>5, RewoundStep
<1>6. CASE addChannel \/ newCall
  <2>1. chan' = [p \in Peers |-> NewChannel]
    BY <1>6 DEF addChannel, newCall
  <2>2. NewChannel.count = 0
    BY DEF NewChannel
  <2>. QED BY <2>1, <2>2, LowCounted DEF WithinLimits
<1>7. CASE UNCHANGED vars
  BY <1>7 DEF vars, WithinLimits, Counted
<1>. QED
  BY <1>1, <1>2, <1>3, <1>4, <1>5, <1>6, <1>7 DEF Next

-----------------------------------------------------------------------------
(* The theorems. *)

\* The records of both engines, the packets and the caches keep their types; above
\* all, the timer of bzrtp_iterate never counts past the limit of the packet that the
\* current state repeats, for every pair of limits.
THEOREM TypeCorrect == Spec => []TypeOK
<1>1. Init => WithinLimits
  <2>1. NewChannel.count = 0
    BY DEF NewChannel
  <2>. QED BY <2>1, LowCounted DEF Init, WithinLimits
<1>2. IInv /\ WithinLimits /\ [Next]_vars => WithinLimits'
  BY LimitsStep DEF IInv
<1>3. IInv /\ WithinLimits => TypeOK
  BY DEF IInv, WithinLimits, Counted, TypeOK
<1>. QED BY <1>1, <1>2, <1>3, InvInit, InvStep, PTL DEF Spec

\* Two engines that have derived keys have the same ones, whoever won the commit
\* contention of bzrtp_turnIntoResponder and whichever secrets the caches held, and
\* a peer that encrypts talks to one that can decrypt.
THEOREM KeySafety == Spec => []SameKeys
<1>1. IInv => SameKeys
  <2>. SUFFICES ASSUME IInv, NEW p \in Peers
                PROVE  /\ chan[p].key # NoKey /\ chan[Other(p)].key # NoKey =>
                              chan[p].key = chan[Other(p)].key
                       /\ "sender" \in chan[p].srtp =>
                              "receiver" \in chan[Other(p)].srtp
    BY DEF SameKeys
  <2>. DEFINE q == Other(p)
  <2>1. Shape(World, chan[p]) /\ Shape(World, chan[q])
    BY Facts
  <2>2. ASSUME chan[p].key # NoKey, chan[q].key # NoKey
        PROVE  chan[p].key = chan[q].key
    <3>1. Keyed(chan[p]) /\ Keyed(chan[q])
      BY <2>1, <2>2 DEF Shape
    <3>2. /\ Leads(chan[p]) \/ Follows(chan[p])
          /\ Leads(chan[q]) \/ Follows(chan[q])
          /\ ~(Leads(chan[p]) /\ Follows(chan[p]))
          /\ ~(Leads(chan[q]) /\ Follows(chan[q]))
      BY Facts, ChannelFields DEF Leads, Follows
    <3>3. Leads(chan[p]) <=> Follows(chan[q])
      BY <3>1, <3>2, FromInv DEF Good, Pair, Abreast, Chosen
    <3>4. DHM(World) \/ Mult(World)
      BY FromInv DEF WorldType, DHM, Mult
    <3>. QED BY <3>1, <3>2, <3>3, <3>4, FromInv DEF Good, Pair, KeysOf
  <2>3. ASSUME "sender" \in chan[p].srtp
        PROVE  "receiver" \in chan[q].srtp
    <3>1. chan[p].st = "secure"
      BY <2>1, <2>3 DEF Shape
    <3>2. chan[q].st \in {"initConfirm2", "secure"}
      BY <3>1, FromInv DEF Good, Pair, Abreast
    <3>. QED BY <2>1, <3>2 DEF Shape
  <2>. QED BY <2>2, <2>3
<1>. QED BY <1>1, InvInit, InvStep, PTL DEF Spec

\* A cache mismatch is announced only to peers that never shared a secret or that
\* lost the end of two calls: one call whose Conf2ACK was lost is made good by the
\* rs2 that bzrtp_updateCachedSecrets keeps.
THEOREM MismatchSafety == Spec => []OneHalfIsHarmless
<1>1. IInv => OneHalfIsHarmless
  <2>. SUFFICES ASSUME IInv, NEW p \in Peers, ctx[p].mismatch
                PROVE  ~shared \/ halves >= 2
    BY DEF OneHalfIsHarmless
  <2>1. ~Harmless(World)
    BY FromInv DEF Good, Own, Context
  <2>2. halves \in 0 .. MaxCalls
    BY DEF IInv, WellTyped
  <2>. QED BY <2>1, <2>2 DEF Harmless, World
<1>. QED BY <1>1, InvInit, InvStep, PTL DEF Spec

\* When state_secure tells the application that the SAS was verified before, the keys
\* derive from a secret that both sides retained.
THEOREM ContinuitySafety == Spec => []VerifiedMeansContinuity
<1>1. IInv => VerifiedMeansContinuity
  <2>. SUFFICES ASSUME IInv, NEW p \in Peers, chan[p].told
                PROVE  ctx[p].sess[3] # None
    BY DEF VerifiedMeansContinuity
  <2>1. Keyed(chan[p])
    BY Facts DEF Shape, Keyed
  <2>. QED BY <2>1, FromInv DEF Good, Own, Context, Rooted
<1>. QED BY <1>1, InvInit, InvStep, PTL DEF Spec

==============================================================================
