--------------------------- MODULE MainLoopProofs ---------------------------
(***************************************************************************)
(* Proofs about MainLoop, for any number of sources and tasks, all values  *)
(* of the timeouts and any number of changes by the callbacks.             *)
(***************************************************************************)
EXTENDS MainLoop, TLAPS, FiniteSetTheorems, SequenceTheorems, WellFoundedInduction

\* The fields of a source that are not numbers of references: those follow
\* from the places where the source is.
Flags == BOOLEAN
Numbers == Int
Events == SUBSET {"READ", "TIMEOUT"}
States == [linked : Flags, cancelled : Flags, expired : Flags, revents : Events,
           timeout : Numbers, expire_ms : Numbers, refs : Numbers, due : Numbers]

Entries == [key : Nat, source : Sources]

\* timer_sources is sorted, and a source is there once.
Table(T) ==
    /\ T \in Seq(Entries)
    /\ \A k, l \in DOMAIN T : k < l => T[k].key <= T[l].key
    /\ \A k, l \in DOMAIN T : T[k].source = T[l].source => k = l

Holds(T, s) == \E k \in DOMAIN T : T[k].source = s

In(q, s) == \E k \in DOMAIN q : q[k] = s

One(b) == IF b THEN 1 ELSE 0

\* What is true of the source s of the sources w, while q is to be notified,
\* the tasks r ran and the tasks u were handed over.
Kept(w, q, r, u, s) ==
    LET x == w.src[s]
    IN /\ x.linked => s \in Fds
       /\ s \in Fds /\ InMap(w, s) => x.linked
       /\ x.expired \/ InMap(w, s) \/ x.timeout >= 0 => x.expire_ms >= 0
       /\ x.refs = One(~In(r, s)) + One(x.linked) + One(InMap(w, s)) + Count(q, s)
       /\ In(q, s) => /\ s \in Fds => x.cancelled \/ x.linked
                      /\ s \notin Fds => x.expired /\ (x.cancelled \/ InMap(w, s))
       /\ In(r, s) => s \in Tasks /\ In(u, s) /\ x.cancelled /\ ~Registered(w, s)
       /\ s \in Tasks /\ ~In(u, s) => ~Registered(w, s) /\ ~In(q, s)

\* A key is the deadline, unless its source is on its way out or was late.
Timely(w) ==
    \A k \in DOMAIN w.timers :
        LET x == w.src[w.timers[k].source]
        IN x.cancelled \/ x.expired \/ w.timers[k].key = x.due

\* Only a source with a descriptor can be notified for two reasons.
Single(q) == \A k, l \in DOMAIN q : q[k] = q[l] /\ k # l => q[k] \in Fds

\* nsources may count sources that lost their last place without a call of
\* belle_sip_main_loop_remove_source, never less than there are.
Members(w) == {s \in Sources : Registered(w, s)}

Worlds == [src : [Sources -> States], timers : Seq(Entries), nsources : Numbers]

Sound(w, q, r, u) ==
    /\ w \in Worlds
    /\ Table(w.timers)
    /\ q \in Seq(Sources) /\ r \in Seq(Tasks) /\ u \in Seq(Tasks)
    /\ Single(q)
    /\ Timely(w)
    /\ Cardinality(Members(w)) <= w.nsources
    /\ \A s \in Sources : Kept(w, q, r, u, s)

Linked == {s \in Fds : m.src[s].linked}

IInv ==
    /\ Sound(m, to_be_notified, ran, submitted)
    /\ now \in 0..MaxTime /\ cur \in 0..MaxTime
    /\ pc \in Steps /\ run \in BOOLEAN /\ pipe \in BOOLEAN /\ woken \in BOOLEAN
    /\ polled \subseteq Fds /\ ready \subseteq Fds /\ readable \subseteq Fds
    /\ wakeup \in Nat \cup {Disabled} /\ room \in Nat
    /\ pc # "notify" => to_be_notified = <<>>
    /\ At("prepare") => Cardinality(Linked) <= room
    /\ At("poll") => Cardinality(polled) <= room
    /\ At("poll") /\ ~pipe =>
          \A k \in DOMAIN m.timers : wakeup # Disabled /\ wakeup <= m.timers[k].key

-----------------------------------------------------------------------------
(* Numbers and sequences.                                                  *)

\* Among numbers there is a least one.
LEMMA Least ==
    ASSUME NEW T, T \subseteq Nat, T # {}
    PROVE  \E i \in T : \A j \in T : i <= j
<1>. DEFINE R == OpToRel(<, Nat)
<1>1. IsWellFoundedOn(R, Nat)
  BY NatLessThanWellFounded
<1>2. \A x, y \in Nat : <<y, x>> \in R <=> y < x
  BY DEF OpToRel
<1>. HIDE DEF R
<1>3. PICK i \in T : \A j \in T : ~(<<j, i>> \in R)
  BY <1>1, WFMin
<1>4. ASSUME NEW j \in T PROVE i <= j
  <2>1. i \in Nat /\ j \in Nat
    OBVIOUS
  <2>2. ~(j < i)
    BY <1>2, <1>3, <2>1
  <2>. QED BY <2>1, <2>2
<1>. QED BY <1>4

\* A set of indices without gaps is an interval.
LEMMA Prefix ==
    ASSUME NEW n \in Nat, NEW S \in SUBSET (1..n),
           \A k \in S : \A j \in 1..n : j <= k => j \in S
    PROVE  Cardinality(S) \in 0..n /\ S = 1..Cardinality(S)
<1>. DEFINE T == {k \in 1..(n + 1) : k \notin S}
<1>1. n + 1 \in T /\ T \subseteq Nat
  OBVIOUS
<1>2. PICK b \in T : \A j \in T : b <= j
  BY <1>1, Least
<1>3. b \in 1..(n + 1) /\ b \notin S
  OBVIOUS
<1>4. S = 1..(b - 1)
  <2>1. ASSUME NEW j \in 1..(b - 1) PROVE j \in S
    <3>1. j \in 1..(n + 1) /\ ~(b <= j)
      BY <1>3
    <3>. QED BY <1>2, <3>1
  <2>2. ASSUME NEW j \in S PROVE j \in 1..(b - 1)
    <3>1. CASE b <= n
      BY <1>3, <3>1
    <3>2. CASE ~(b <= n)
      BY <1>3, <3>2
    <3>. QED BY <3>1, <3>2
  <2>. QED BY <2>1, <2>2
<1>5. Cardinality(1..(b - 1)) = b - 1
  BY <1>3, FS_Interval
<1>. QED BY <1>3, <1>4, <1>5

Splice(T, n, e) == SubSeq(T, 1, n) \o <<e>> \o SubSeq(T, n + 1, Len(T))

Cut(T, j) == SubSeq(T, 1, j - 1) \o SubSeq(T, j + 1, Len(T))

\* r is T with e after its first n elements.
Spliced(r, S, T, n, e) ==
    /\ r \in Seq(S) /\ Len(r) = Len(T) + 1
    /\ \A k \in 1..(Len(T) + 1) :
          r[k] = IF k <= n THEN T[k] ELSE IF k = n + 1 THEN e ELSE T[k - 1]

LEMMA SpliceShape ==
    ASSUME NEW S, NEW T \in Seq(S), NEW n \in 0..Len(T), NEW e \in S
    PROVE  Spliced(Splice(T, n, e), S, T, n, e)
<1>. DEFINE L == Len(T)
            a == SubSeq(T, 1, n)
            b == SubSeq(T, n + 1, L)
            c == a \o <<e>>
            r == Splice(T, n, e)
<1>1. L \in Nat /\ n \in Nat /\ n <= L /\ \A k \in 1..L : T[k] \in S
  BY LenProperties, ElementOfSeq
<1>. HIDE DEF L
<1>2. a \in Seq(S) /\ Len(a) = n /\ \A k \in 1..n : a[k] = T[k]
  <2>1. \A k \in 1..n : T[k] \in S
    BY <1>1
  <2>2. /\ a \in Seq(S) /\ Len(a) = IF 1 <= n THEN n - 1 + 1 ELSE 0
        /\ \A k \in 1..(n - 1 + 1) : a[k] = T[1 + k - 1]
    BY <1>1, <2>1, SubSeqProperties
  <2>. HIDE DEF a
  <2>. QED BY <1>1, <2>2
<1>3. b \in Seq(S) /\ Len(b) = L - n /\ \A k \in 1..(L - n) : b[k] = T[n + k]
  <2>1. \A k \in (n + 1)..L : T[k] \in S
    BY <1>1
  <2>2. /\ b \in Seq(S) /\ Len(b) = IF n + 1 <= L THEN L - (n + 1) + 1 ELSE 0
        /\ \A k \in 1..(L - (n + 1) + 1) : b[k] = T[(n + 1) + k - 1]
    BY <1>1, <2>1, SubSeqProperties
  <2>. HIDE DEF b
  <2>. QED BY <1>1, <2>2
<1>. HIDE DEF a, b
<1>4. c \in Seq(S) /\ Len(c) = n + 1 /\ \A k \in 1..(n + 1) : c[k] = IF k <= n THEN T[k] ELSE e
  <2>1. <<e>> \in Seq(S) /\ Len(<<e>>) = 1 /\ <<e>>[1] = e
    OBVIOUS
  <2>. DEFINE f == <<e>>
  <2>. HIDE DEF f
  <2>2. /\ a \o f \in Seq(S) /\ Len(a \o f) = n + 1
        /\ \A k \in 1..(n + 1) : (a \o f)[k] = IF k <= n THEN a[k] ELSE f[k - n]
    BY <1>1, <1>2, <2>1, ConcatProperties DEF f
  <2>. DEFINE g == a \o f
  <2>3. c = g
    BY DEF f
  <2>. HIDE DEF g, c
  <2>. QED BY <1>1, <1>2, <2>1, <2>2, <2>3 DEF g, f
<1>. HIDE DEF c
<1>5. r = c \o b
  BY DEF Splice, a, b, c, L
<1>6. /\ c \o b \in Seq(S) /\ Len(c \o b) = L + 1
      /\ \A k \in 1..(L + 1) : (c \o b)[k] = IF k <= n + 1 THEN c[k] ELSE b[k - (n + 1)]
  <2>1. /\ c \o b \in Seq(S) /\ Len(c \o b) = Len(c) + Len(b)
        /\ \A k \in 1..(Len(c) + Len(b)) :
              (c \o b)[k] = IF k <= Len(c) THEN c[k] ELSE b[k - Len(c)]
    BY <1>3, <1>4, ConcatProperties
  <2>2. Len(c) = n + 1 /\ Len(c) + Len(b) = L + 1
    BY <1>1, <1>3, <1>4
  <2>. QED BY <2>1, <2>2
<1>. HIDE DEF r
<1>7. ASSUME NEW k \in 1..(L + 1)
      PROVE  r[k] = IF k <= n THEN T[k] ELSE IF k = n + 1 THEN e ELSE T[k - 1]
  <2>1. CASE k <= n + 1
    BY <1>1, <1>4, <1>5, <1>6, <2>1
  <2>2. CASE ~(k <= n + 1)
    <3>1. k - (n + 1) \in 1..(L - n) /\ n + (k - (n + 1)) = k - 1
      BY <1>1, <2>2
    <3>2. r[k] = b[k - (n + 1)]
      BY <1>5, <1>6, <2>2
    <3>3. b[k - (n + 1)] = T[n + (k - (n + 1))]
      BY <1>3, <3>1
    <3>4. r[k] = T[k - 1]
      BY <3>1, <3>2, <3>3
    <3>5. ~(k <= n) /\ k # n + 1
      BY <1>1, <2>2
    <3>. QED BY <3>4, <3>5
  <2>. QED BY <2>1, <2>2
<1>8. r \in Seq(S) /\ Len(r) = L + 1
  BY <1>1, <1>5, <1>6
<1>. QED BY <1>7, <1>8 DEF r, L, Spliced

LEMMA CutShape ==
    ASSUME NEW S, NEW T \in Seq(S), NEW j \in 1..Len(T)
    PROVE  LET r == Cut(T, j)
           IN /\ r \in Seq(S) /\ Len(r) = Len(T) - 1
              /\ \A k \in 1..(Len(T) - 1) : r[k] = IF k < j THEN T[k] ELSE T[k + 1]
<1>. DEFINE L == Len(T)
            a == SubSeq(T, 1, j - 1)
            b == SubSeq(T, j + 1, L)
            r == Cut(T, j)
<1>1. L \in Nat /\ j \in Nat /\ 1 <= j /\ j <= L /\ \A k \in 1..L : T[k] \in S
  BY LenProperties, ElementOfSeq
<1>. HIDE DEF L
<1>2. a \in Seq(S) /\ Len(a) = j - 1 /\ \A k \in 1..(j - 1) : a[k] = T[k]
  <2>1. \A k \in 1..(j - 1) : T[k] \in S
    BY <1>1
  <2>2. /\ a \in Seq(S) /\ Len(a) = IF 1 <= j - 1 THEN (j - 1) - 1 + 1 ELSE 0
        /\ \A k \in 1..((j - 1) - 1 + 1) : a[k] = T[1 + k - 1]
    BY <1>1, <2>1, SubSeqProperties
  <2>. HIDE DEF a
  <2>. QED BY <1>1, <2>2
<1>3. b \in Seq(S) /\ Len(b) = L - j /\ \A k \in 1..(L - j) : b[k] = T[j + k]
  <2>1. \A k \in (j + 1)..L : T[k] \in S
    BY <1>1
  <2>2. /\ b \in Seq(S) /\ Len(b) = IF j + 1 <= L THEN L - (j + 1) + 1 ELSE 0
        /\ \A k \in 1..(L - (j + 1) + 1) : b[k] = T[(j + 1) + k - 1]
    BY <1>1, <2>1, SubSeqProperties
  <2>. HIDE DEF b
  <2>. QED BY <1>1, <2>2
<1>. HIDE DEF a, b
<1>4. /\ a \o b \in Seq(S) /\ Len(a \o b) = L - 1
      /\ \A k \in 1..(L - 1) : (a \o b)[k] = IF k <= j - 1 THEN a[k] ELSE b[k - (j - 1)]
  <2>1. /\ a \o b \in Seq(S) /\ Len(a \o b) = Len(a) + Len(b)
        /\ \A k \in 1..(Len(a) + Len(b)) :
              (a \o b)[k] = IF k <= Len(a) THEN a[k] ELSE b[k - Len(a)]
    BY <1>2, <1>3, ConcatProperties
  <2>2. Len(a) = j - 1 /\ Len(a) + Len(b) = L - 1
    BY <1>1, <1>2, <1>3
  <2>. QED BY <2>1, <2>2
<1>5. r = a \o b
  BY DEF Cut, a, b, L
<1>. HIDE DEF r
<1>6. ASSUME NEW k \in 1..(L - 1)
      PROVE  r[k] = IF k < j THEN T[k] ELSE T[k + 1]
  <2>1. CASE k < j
    BY <1>1, <1>2, <1>4, <1>5, <2>1
  <2>2. CASE ~(k < j)
    <3>1. k - (j - 1) \in 1..(L - j) /\ j + (k - (j - 1)) = k + 1
      BY <1>1, <2>2
    <3>2. r[k] = b[k - (j - 1)]
      BY <1>1, <1>4, <1>5, <2>2
    <3>3. b[k - (j - 1)] = T[j + (k - (j - 1))]
      BY <1>3, <3>1
    <3>. QED BY <2>2, <3>1, <3>2, <3>3
  <2>. QED BY <2>1, <2>2
<1>7. r \in Seq(S) /\ Len(r) = L - 1
  BY <1>1, <1>4, <1>5
<1>. QED BY <1>6, <1>7 DEF r, L

-----------------------------------------------------------------------------
(* The map of the timers.                                                  *)

LEMMA TableDomain ==
    ASSUME NEW T, Table(T)
    PROVE  /\ T \in Seq(Entries) /\ Len(T) \in Nat /\ DOMAIN T = 1..Len(T)
           /\ \A k \in DOMAIN T : T[k] \in Entries /\ T[k].key \in Nat /\ T[k].source \in Sources
<1>1. T \in Seq(Entries)
  BY DEF Table
<1>2. Len(T) \in Nat /\ DOMAIN T = 1..Len(T)
  BY <1>1, LenProperties
<1>3. \A k \in DOMAIN T : T[k] \in Entries
  BY <1>1, <1>2, ElementOfSeq
<1>. QED BY <1>1, <1>2, <1>3 DEF Entries

LEMMA EraseShape ==
    ASSUME NEW T, Table(T), NEW s, Holds(T, s)
    PROVE  LET r == Erase(T, s)
           IN /\ Table(r)
              /\ \A x : Holds(r, x) <=> Holds(T, x) /\ x # s
              /\ \A k \in DOMAIN r : \E l \in DOMAIN T : r[k] = T[l]
<1>. DEFINE L == Len(T)
            j == CHOOSE k \in DOMAIN T : T[k].source = s
            r == Erase(T, s)
<1>1. /\ T \in Seq(Entries) /\ L \in Nat /\ DOMAIN T = 1..L
      /\ \A k \in DOMAIN T : T[k] \in Entries /\ T[k].key \in Nat
  BY TableDomain
<1>2. j \in DOMAIN T /\ T[j].source = s
  BY DEF Holds
<1>3. r = Cut(T, j)
  BY DEF Erase, Cut
<1>. HIDE DEF j
<1>4. /\ r \in Seq(Entries) /\ Len(r) = L - 1
      /\ \A k \in 1..(L - 1) : r[k] = IF k < j THEN T[k] ELSE T[k + 1]
  BY <1>1, <1>2, <1>3, CutShape
<1>5. DOMAIN r = 1..(L - 1)
  BY <1>4, LenProperties
<1>. HIDE DEF r, L
<1>. DEFINE o(k) == IF k < j THEN k ELSE k + 1
<1>6. ASSUME NEW k \in DOMAIN r
      PROVE  o(k) \in DOMAIN T /\ r[k] = T[o(k)] /\ o(k) # j /\ o(k) \in Nat
  BY <1>1, <1>2, <1>4, <1>5
<1>7. \A k, l \in DOMAIN r : k < l => o(k) < o(l)
  BY <1>1, <1>2, <1>5
<1>8. \A k, l \in DOMAIN r : o(k) = o(l) => k = l
  BY <1>1, <1>2, <1>5
<1>9. ASSUME NEW l \in DOMAIN T, l # j
      PROVE  \E k \in DOMAIN r : o(k) = l
  <2>1. CASE l < j
    <3>1. l \in DOMAIN r /\ o(l) = l
      BY <1>1, <1>2, <1>5, <2>1
    <3>. QED BY <3>1
  <2>2. CASE ~(l < j)
    <3>1. l - 1 \in DOMAIN r /\ o(l - 1) = l
      BY <1>1, <1>2, <1>5, <1>9, <2>2
    <3>. QED BY <3>1
  <2>. QED BY <2>1, <2>2
<1>. HIDE DEF o
<1>10. Table(r)
  <2>1. ASSUME NEW k \in DOMAIN r, NEW l \in DOMAIN r, k < l
        PROVE  r[k].key <= r[l].key
    BY <1>6, <1>7, <2>1 DEF Table
  <2>2. ASSUME NEW k \in DOMAIN r, NEW l \in DOMAIN r, r[k].source = r[l].source
        PROVE  k = l
    <3>1. o(k) = o(l)
      BY <1>6, <2>2 DEF Table
    <3>. QED BY <1>8, <3>1
  <2>. QED BY <1>4, <2>1, <2>2 DEF Table
<1>11. ASSUME NEW x PROVE Holds(r, x) <=> Holds(T, x) /\ x # s
  <2>1. ASSUME Holds(r, x) PROVE Holds(T, x) /\ x # s
    <3>1. PICK k \in DOMAIN r : r[k].source = x
      BY <2>1 DEF Holds
    <3>2. o(k) \in DOMAIN T /\ T[o(k)].source = x /\ o(k) # j
      BY <1>6, <3>1
    <3>. QED BY <1>2, <3>2 DEF Holds, Table
  <2>2. ASSUME Holds(T, x), x # s PROVE Holds(r, x)
    <3>1. PICK l \in DOMAIN T : T[l].source = x
      BY <2>2 DEF Holds
    <3>2. l # j
      BY <1>2, <2>2, <3>1
    <3>3. PICK k \in DOMAIN r : o(k) = l
      BY <1>9, <3>2
    <3>. QED BY <1>6, <3>1, <3>3 DEF Holds
  <2>. QED BY <2>1, <2>2
<1>12. \A k \in DOMAIN r : \E l \in DOMAIN T : r[k] = T[l]
  BY <1>6
<1>. QED BY <1>10, <1>11, <1>12 DEF r

LEMMA InsertShape ==
    ASSUME NEW T, Table(T), NEW key \in Nat, NEW s \in Sources, ~Holds(T, s)
    PROVE  LET r == Insert(T, key, s)
           IN /\ Table(r)
              /\ \A x : Holds(r, x) <=> Holds(T, x) \/ x = s
              /\ \A k \in DOMAIN r : \/ r[k].source = s /\ r[k].key = key
                                     \/ \E l \in DOMAIN T : r[k] = T[l]
<1>. DEFINE L == Len(T)
            S == {k \in DOMAIN T : T[k].key <= key}
            n == Cardinality(S)
            e == [key |-> key, source |-> s]
            r == Insert(T, key, s)
<1>1. /\ T \in Seq(Entries) /\ L \in Nat /\ DOMAIN T = 1..L
      /\ \A k \in DOMAIN T : T[k] \in Entries /\ T[k].key \in Nat
  BY TableDomain
<1>2. r = Splice(T, n, e)
  BY DEF Insert, Splice
<1>3. e \in Entries /\ e.key = key /\ e.source = s
  BY DEF Entries
<1>. HIDE DEF L, e
<1>4. n \in 0..L /\ S = 1..n
  <2>1. ASSUME NEW k \in S, NEW j \in 1..L, j <= k PROVE j \in S
    <3>1. k \in DOMAIN T /\ T[k].key <= key /\ j \in DOMAIN T /\ T[j].key \in Nat /\ T[k].key \in Nat
      BY <1>1
    <3>2. T[j].key <= T[k].key
      <4>1. CASE j = k
        BY <3>1, <4>1
      <4>2. CASE j # k
        BY <1>1, <2>1, <3>1, <4>2 DEF Table
      <4>. QED BY <4>1, <4>2
    <3>3. T[j].key <= key
      BY <3>1, <3>2
    <3>. QED BY <3>1, <3>3
  <2>2. S \in SUBSET (1..L)
    BY <1>1
  <2>. HIDE DEF S
  <2>. QED BY <1>1, <2>1, <2>2, Prefix
<1>5. \A k \in DOMAIN T : T[k].key <= key <=> k <= n
  BY <1>1, <1>4
<1>. HIDE DEF S, n
<1>6. /\ r \in Seq(Entries) /\ Len(r) = L + 1
      /\ \A k \in 1..(L + 1) :
            r[k] = IF k <= n THEN T[k] ELSE IF k = n + 1 THEN e ELSE T[k - 1]
  <2>. HIDE DEF r
  <2>1. n \in 0..Len(T)
    BY <1>4 DEF L
  <2>2. Spliced(Splice(T, n, e), Entries, T, n, e)
    BY <1>1, <1>3, <2>1, SpliceShape
  <2>3. Spliced(r, Entries, T, n, e)
    BY <1>2, <2>2
  <2>. QED BY <2>3 DEF L, Spliced
<1>7. DOMAIN r = 1..(L + 1)
  BY <1>6, LenProperties
<1>. HIDE DEF r
<1>. DEFINE o(k) == IF k <= n THEN k ELSE k - 1
<1>8. ASSUME NEW k \in DOMAIN r, k # n + 1
      PROVE  o(k) \in DOMAIN T /\ r[k] = T[o(k)] /\ (k <= n <=> o(k) <= n) /\ o(k) \in Nat
  BY <1>1, <1>4, <1>6, <1>7, <1>8
<1>9. n + 1 \in DOMAIN r /\ r[n + 1] = e
  BY <1>1, <1>4, <1>6, <1>7
<1>10. \A k, l \in DOMAIN r : k # n + 1 /\ l # n + 1 =>
          (k < l => o(k) < o(l)) /\ (o(k) = o(l) => k = l)
  BY <1>1, <1>4, <1>7
<1>11. ASSUME NEW l \in DOMAIN T
       PROVE  \E k \in DOMAIN r : k # n + 1 /\ o(k) = l
  <2>1. CASE l <= n
    <3>1. l \in DOMAIN r /\ l # n + 1 /\ o(l) = l
      BY <1>1, <1>4, <1>7, <2>1
    <3>. QED BY <3>1
  <2>2. CASE ~(l <= n)
    <3>1. l + 1 \in DOMAIN r /\ l + 1 # n + 1 /\ o(l + 1) = l
      BY <1>1, <1>4, <1>7, <2>2
    <3>. QED BY <3>1
  <2>. QED BY <2>1, <2>2
<1>12. \A k, l \in DOMAIN r : k \in Nat /\ l \in Nat /\ (k < n + 1 => k <= n) /\ (n + 1 < l => ~(l <= n))
  BY <1>4, <1>7
<1>. HIDE DEF o
<1>13. ASSUME NEW k \in DOMAIN r, NEW l \in DOMAIN r, k < l
       PROVE  r[k].key <= r[l].key
  <2>1. CASE k = n + 1
    <3>1. ~(l <= n) /\ l # n + 1
      BY <1>4, <1>12, <1>13, <2>1
    <3>2. ~(T[o(l)].key <= key) /\ T[o(l)].key \in Nat
      BY <1>1, <1>5, <1>8, <3>1
    <3>. QED BY <1>3, <1>8, <1>9, <2>1, <3>1, <3>2
  <2>2. CASE l = n + 1
    <3>1. k <= n /\ k # n + 1
      BY <1>4, <1>12, <1>13, <2>2
    <3>2. T[o(k)].key <= key
      BY <1>5, <1>8, <3>1
    <3>. QED BY <1>3, <1>8, <1>9, <2>2, <3>1, <3>2
  <2>3. CASE k # n + 1 /\ l # n + 1
    BY <1>8, <1>10, <1>13, <2>3 DEF Table
  <2>. QED BY <2>1, <2>2, <2>3
<1>14. \A l \in DOMAIN T : T[l].source # s
  BY DEF Holds
<1>15. ASSUME NEW k \in DOMAIN r, NEW l \in DOMAIN r, r[k].source = r[l].source
       PROVE  k = l
  <2>1. CASE k = n + 1 \/ l = n + 1
    BY <1>3, <1>8, <1>9, <1>14, <1>15, <2>1
  <2>2. CASE k # n + 1 /\ l # n + 1
    <3>1. o(k) = o(l)
      BY <1>8, <1>15, <2>2 DEF Table
    <3>. QED BY <1>10, <2>2, <3>1
  <2>. QED BY <2>1, <2>2
<1>16. Table(r)
  BY <1>6, <1>13, <1>15 DEF Table
<1>17. ASSUME NEW x PROVE Holds(r, x) <=> Holds(T, x) \/ x = s
  <2>1. ASSUME Holds(r, x) PROVE Holds(T, x) \/ x = s
    <3>1. PICK k \in DOMAIN r : r[k].source = x
      BY <2>1 DEF Holds
    <3>. QED BY <1>3, <1>8, <1>9, <3>1 DEF Holds
  <2>2. ASSUME Holds(T, x) PROVE Holds(r, x)
    <3>1. PICK l \in DOMAIN T : T[l].source = x
      BY <2>2 DEF Holds
    <3>2. PICK k \in DOMAIN r : k # n + 1 /\ o(k) = l
      BY <1>11
    <3>. QED BY <1>8, <3>1, <3>2 DEF Holds
  <2>3. Holds(r, s)
    BY <1>3, <1>9 DEF Holds
  <2>. QED BY <2>1, <2>2, <2>3
<1>18. \A k \in DOMAIN r : \/ r[k].source = s /\ r[k].key = key
                           \/ \E l \in DOMAIN T : r[k] = T[l]
  BY <1>3, <1>8, <1>9
<1>. QED BY <1>16, <1>17, <1>18 DEF r

-----------------------------------------------------------------------------
(* How often a source is in a sequence.                                    *)

LEMMA CountFinite ==
    ASSUME NEW S, NEW q \in Seq(S), NEW x
    PROVE  /\ Count(q, x) \in Nat
           /\ IsFiniteSet({k \in DOMAIN q : q[k] = x})
           /\ Count(q, x) = 0 <=> ~In(q, x)
<1>. DEFINE A == {k \in DOMAIN q : q[k] = x}
<1>1. IsFiniteSet(DOMAIN q)
  BY LenProperties, FS_Interval
<1>2. A \in SUBSET (DOMAIN q)
  OBVIOUS
<1>3. Count(q, x) = Cardinality(A)
  BY DEF Count
<1>4. In(q, x) <=> A # {}
  BY DEF In
<1>. HIDE DEF A
<1>5. IsFiniteSet(A)
  BY <1>1, <1>2, FS_Subset
<1>6. Cardinality(A) \in Nat /\ (Cardinality(A) = 0 <=> A = {})
  BY <1>5, FS_CardinalityType, FS_EmptySet
<1>. QED BY <1>3, <1>4, <1>5, <1>6 DEF A

\* The first element leaves the sequence, once.
LEMMA CountTail ==
    ASSUME NEW S, NEW q \in Seq(S), q # <<>>, NEW x
    PROVE  /\ Count(q, x) = Count(Tail(q), x) + One(x = Head(q))
           /\ In(Tail(q), x) => In(q, x)
<1>. DEFINE t == Tail(q)
            A == {k \in DOMAIN q : q[k] = x}
            B == {k \in DOMAIN t : t[k] = x}
            C == A \ {1}
            f == [k \in B |-> k + 1]
            L == Len(q)
<1>1. /\ Head(q) = q[1] /\ t \in Seq(S) /\ L \in Nat /\ L # 0 /\ Len(t) = L - 1
      /\ \A k \in 1..Len(t) : t[k] = q[k + 1]
  BY HeadTailProperties, LenProperties, EmptySeq
<1>2. DOMAIN q = 1..L /\ DOMAIN t = 1..(L - 1)
  BY <1>1, LenProperties
<1>3. Count(q, x) = Cardinality(A) /\ Count(t, x) = Cardinality(B)
  BY DEF Count
<1>4. IsFiniteSet(A) /\ IsFiniteSet(B)
  BY <1>1, CountFinite
<1>5. \A k \in B : k \in 1..(L - 1) /\ q[k + 1] = x
  BY <1>1, <1>2
<1>6. \A k \in C : k - 1 \in 1..(L - 1) /\ t[k - 1] = x /\ k \in Nat
  BY <1>1, <1>2
<1>. HIDE DEF L
<1>7. f \in Bijection(B, C)
  <2>1. \A k \in B : f[k] \in C /\ f[k] = k + 1 /\ k \in Nat
    BY <1>1, <1>2, <1>5
  <2>2. \A k, l \in B : f[k] = f[l] => k = l
    BY <2>1
  <2>3. \A k \in C : k - 1 \in B /\ k = (k - 1) + 1
    BY <1>1, <1>2, <1>6
  <2>4. \A k \in C : \E l \in B : f[l] = k
    BY <2>1, <2>3
  <2>5. f \in [B -> C]
    BY <2>1
  <2>. QED BY <2>2, <2>4, <2>5 DEF Bijection, Injection, IsInjective, Surjection
<1>. HIDE DEF f, B, t
<1>8. ExistsBijection(B, C)
  BY <1>7 DEF ExistsBijection
<1>. HIDE DEF A
<1>9. IsFiniteSet(C) /\ Cardinality(C) = IF 1 \in A THEN Cardinality(A) - 1 ELSE Cardinality(A)
  BY <1>4, FS_RemoveElement
<1>10. Cardinality(C) = Cardinality(B)
  BY <1>4, <1>8, FS_Bijection
<1>11. 1 \in A <=> x = Head(q)
  BY <1>1, <1>2 DEF A
<1>12. Cardinality(A) \in Nat
  BY <1>4, FS_CardinalityType
<1>13. Count(q, x) = Count(t, x) + One(x = Head(q))
  BY <1>3, <1>9, <1>10, <1>11, <1>12 DEF One
<1>14. In(t, x) => In(q, x)
  BY <1>1, <1>2 DEF In
<1>. QED BY <1>13, <1>14 DEF t

LEMMA InAppend ==
    ASSUME NEW S, NEW q \in Seq(S), NEW s \in S, NEW x
    PROVE  Append(q, s) \in Seq(S) /\ (In(Append(q, s), x) <=> In(q, x) \/ x = s)
<1>. DEFINE p == Append(q, s)
            L == Len(q)
<1>1. /\ p \in Seq(S) /\ L \in Nat /\ Len(p) = L + 1 /\ p[L + 1] = s
      /\ \A k \in 1..L : p[k] = q[k]
  BY AppendProperties, LenProperties
<1>2. DOMAIN p = 1..(L + 1) /\ DOMAIN q = 1..L
  BY <1>1, LenProperties
<1>. HIDE DEF p, L
<1>3. \A k \in DOMAIN p : k \in DOMAIN q \/ k = L + 1
  BY <1>1, <1>2
<1>4. L + 1 \in DOMAIN p /\ \A k \in DOMAIN q : k \in DOMAIN p
  BY <1>1, <1>2
<1>5. In(p, x) <=> In(q, x) \/ x = s
  BY <1>1, <1>2, <1>3, <1>4 DEF In
<1>. QED BY <1>1, <1>5 DEF p

LEMMA CountAppend ==
    ASSUME NEW S, NEW q \in Seq(S), NEW s \in S, NEW x, x # s
    PROVE  Count(Append(q, s), x) = Count(q, x)
<1>. DEFINE p == Append(q, s)
            L == Len(q)
<1>1. /\ p \in Seq(S) /\ L \in Nat /\ Len(p) = L + 1 /\ p[L + 1] = s
      /\ \A k \in 1..L : p[k] = q[k]
  BY AppendProperties, LenProperties
<1>2. DOMAIN p = 1..(L + 1) /\ DOMAIN q = 1..L
  BY <1>1, LenProperties
<1>. HIDE DEF p, L
<1>3. \A k \in DOMAIN p : k \in DOMAIN q \/ k = L + 1
  BY <1>1, <1>2
<1>4. \A k \in DOMAIN q : k \in DOMAIN p
  BY <1>1, <1>2
<1>5. {k \in DOMAIN p : p[k] = x} = {k \in DOMAIN q : q[k] = x}
  BY <1>1, <1>2, <1>3, <1>4
<1>. QED BY <1>5 DEF Count, p

LEMMA CountConcat ==
    ASSUME NEW S, NEW p \in Seq(S), NEW q \in Seq(S), NEW x
    PROVE  /\ Count(p \o q, x) = Count(p, x) + Count(q, x)
           /\ In(p \o q, x) <=> In(p, x) \/ In(q, x)
<1>. DEFINE c == p \o q
            L == Len(p)
            n == Len(q)
            A == {k \in DOMAIN p : p[k] = x}
            B == {k \in DOMAIN q : q[k] = x}
            D == {k \in DOMAIN c : ~(k <= L) /\ c[k] = x}
            f == [k \in B |-> k + L]
<1>1. L \in Nat /\ n \in Nat /\ DOMAIN p = 1..L /\ DOMAIN q = 1..n
  BY LenProperties
<1>2. /\ c \in Seq(S) /\ Len(c) = L + n
      /\ \A k \in 1..(L + n) : c[k] = IF k <= L THEN p[k] ELSE q[k - L]
  BY ConcatProperties
<1>3. DOMAIN c = 1..(L + n)
  BY <1>2, LenProperties
<1>4. IsFiniteSet(A) /\ IsFiniteSet(B)
  BY CountFinite
<1>. HIDE DEF c, L, n
<1>5. \A k \in B : k + L \in D /\ k \in Nat
  BY <1>1, <1>2, <1>3
<1>6. \A k \in D : k - L \in B /\ k = (k - L) + L
  BY <1>1, <1>2, <1>3
<1>7. f \in Bijection(B, D)
  <2>1. \A k \in B : f[k] = k + L /\ f[k] \in D
    BY <1>5
  <2>2. \A k, l \in B : f[k] = f[l] => k = l
    BY <1>1, <1>5, <2>1
  <2>3. \A k \in D : \E l \in B : f[l] = k
    BY <1>6, <2>1
  <2>4. f \in [B -> D]
    BY <2>1
  <2>. QED BY <2>2, <2>3, <2>4 DEF Bijection, Injection, IsInjective, Surjection
<1>8. A \cap D = {}
  BY <1>1
<1>9. {k \in DOMAIN c : c[k] = x} = A \cup D
  <2>1. ASSUME NEW k \in DOMAIN c, c[k] = x PROVE k \in A \cup D
    <3>1. CASE k <= L
      BY <1>1, <1>2, <1>3, <2>1, <3>1
    <3>2. CASE ~(k <= L)
      BY <2>1, <3>2
    <3>. QED BY <3>1, <3>2
  <2>2. ASSUME NEW k \in A PROVE k \in DOMAIN c /\ c[k] = x
    BY <1>1, <1>2, <1>3
  <2>. QED BY <2>1, <2>2
<1>. HIDE DEF f, A, B, D
<1>10. ExistsBijection(B, D)
  BY <1>7 DEF ExistsBijection
<1>11. IsFiniteSet(D) /\ Cardinality(D) = Cardinality(B)
  BY <1>4, <1>10, FS_Bijection
<1>12. Cardinality(A \cup D) = Cardinality(A) + Cardinality(D) - Cardinality(A \cap D)
  BY <1>4, <1>11, FS_Union
<1>13. Cardinality(A) \in Nat /\ Cardinality(D) \in Nat /\ Cardinality({}) = 0
  BY <1>4, <1>11, FS_CardinalityType, FS_EmptySet
<1>14. Cardinality(A \cup D) = Cardinality(A) + Cardinality(B)
  <2>1. Cardinality(A \cap D) = 0
    BY <1>8, <1>13
  <2>2. Cardinality(A \cup D) = Cardinality(A) + Cardinality(D) - 0
    BY <1>12, <2>1
  <2>. QED BY <1>11, <1>13, <2>2
<1>15. Count(c, x) = Count(p, x) + Count(q, x)
  BY <1>9, <1>14 DEF Count, A, B
<1>16. /\ Count(c, x) = 0 <=> ~In(c, x)
       /\ Count(p, x) = 0 <=> ~In(p, x)
       /\ Count(q, x) = 0 <=> ~In(q, x)
       /\ Count(p, x) \in Nat /\ Count(q, x) \in Nat
  BY <1>2, CountFinite
<1>17. In(c, x) <=> In(p, x) \/ In(q, x)
  BY <1>15, <1>16
<1>. QED BY <1>15, <1>17 DEF c

\* In a sequence without repetition
LEMMA CountOnce ==
    ASSUME NEW S, NEW q \in Seq(S), \A i, j \in DOMAIN q : q[i] = q[j] => i = j, NEW x
    PROVE  Count(q, x) = One(In(q, x))
<1>1. CASE In(q, x)
  <2>1. PICK k \in DOMAIN q : q[k] = x
    BY <1>1 DEF In
  <2>2. {i \in DOMAIN q : q[i] = x} = {k}
    BY <2>1
  <2>3. Cardinality({k}) = 1
    BY FS_Singleton
  <2>. QED BY <1>1, <2>2, <2>3 DEF Count, One
<1>2. CASE ~In(q, x)
  BY <1>2, CountFinite DEF One
<1>. QED BY <1>1, <1>2

\* A function that numbers a finite set without repetition reaches all of it.
LEMMA Numbering ==
    ASSUME NEW S, IsFiniteSet(S), NEW f \in [1..Cardinality(S) -> S],
           \A i, j \in DOMAIN f : f[i] = f[j] => i = j
    PROVE  /\ Cardinality(S) \in Nat /\ f \in Seq(S) /\ Len(f) = Cardinality(S)
           /\ DOMAIN f = 1..Cardinality(S)
           /\ \A x \in S : In(f, x)
<1>. DEFINE n == Cardinality(S)
<1>1. n \in Nat /\ DOMAIN f = 1..n
  BY FS_CardinalityType
<1>2. IsFiniteSet(1..n) /\ Cardinality(1..n) = n
  BY <1>1, FS_Interval
<1>3. f \in Injection(1..n, S)
  BY <1>1 DEF Injection, IsInjective
<1>4. f \in Surjection(1..n, S)
  BY <1>2, <1>3, FS_Injection
<1>5. \A x \in S : In(f, x)
  BY <1>1, <1>4 DEF Surjection, In
<1>6. f \in Seq(S) /\ Len(f) = n
  BY <1>1, LenProperties, SeqDef
<1>. QED BY <1>1, <1>5, <1>6

-----------------------------------------------------------------------------
(* Every function of belle_sip_loop.c concerns one source.                 *)

LEMMA FinitelyMany ==
    IsFiniteSet(Sources) /\ IsFiniteSet(App) /\ IsFiniteSet(Fds)
<1>1. IsFiniteSet(Timers) /\ IsFiniteSet(Fds) /\ IsFiniteSet(Tasks)
  BY SourcesAssumption
<1>2. IsFiniteSet(App)
  BY <1>1, FS_Union DEF App
<1>3. IsFiniteSet(Sources)
  BY <1>1, <1>2, FS_Union DEF Sources
<1>. QED BY <1>1, <1>2, <1>3

LEMMA Kinds ==
    /\ Timers \subseteq App /\ Fds \subseteq App /\ App \subseteq Sources /\ Tasks \subseteq Sources
    /\ \A s \in Tasks : s \notin App /\ s \notin Fds
    /\ \A s \in Sources : s \in App \/ s \in Tasks
BY SourcesAssumption DEF App, Sources

\* v differs from w in the source s: in its state, its place in the map of the
\* timers and whether nsources counts it.
Edits(v, w, s) ==
    /\ v \in Worlds
    /\ Table(v.timers)
    /\ \A x \in Sources : x # s => v.src[x] = w.src[x] /\ (InMap(v, x) <=> InMap(w, x))
    /\ \A k \in DOMAIN v.timers :
          \/ v.timers[k].source = s
          \/ \E l \in DOMAIN w.timers : v.timers[k] = w.timers[l]
    /\ \A k \in DOMAIN v.timers :
          v.timers[k].source = s =>
             v.src[s].cancelled \/ v.src[s].expired \/ v.timers[k].key = v.src[s].due
    /\ w.nsources + One(Registered(v, s)) <= v.nsources + One(Registered(w, s))

\* The sequences p and q differ in the source s.
Aside(p, q, s) ==
    \A x \in Sources : x # s => Count(p, x) = Count(q, x) /\ (In(p, x) <=> In(q, x))

LEMMA EditsCounted ==
    ASSUME NEW w, NEW v, NEW s \in Sources,
           \A x \in Sources : x # s => (Registered(v, x) <=> Registered(w, x))
    PROVE  /\ Cardinality(Members(v)) \in Nat /\ Cardinality(Members(w)) \in Nat
           /\ Cardinality(Members(v)) + One(Registered(w, s))
                 = Cardinality(Members(w)) + One(Registered(v, s))
<1>. DEFINE V == Members(v)
            W == Members(w)
            R == W \ {s}
<1>1. V \in SUBSET Sources /\ W \in SUBSET Sources
  BY DEF Members
<1>2. V \ {s} = R
  BY DEF Members
<1>3. (s \in V <=> Registered(v, s)) /\ (s \in W <=> Registered(w, s))
  BY DEF Members
<1>. HIDE DEF V, W
<1>4. IsFiniteSet(V) /\ IsFiniteSet(W)
  BY <1>1, FinitelyMany, FS_Subset
<1>5. Cardinality(V) \in Nat /\ Cardinality(W) \in Nat
  BY <1>4, FS_CardinalityType
<1>6. Cardinality(R) = IF s \in W THEN Cardinality(W) - 1 ELSE Cardinality(W)
  BY <1>4, FS_RemoveElement
<1>7. Cardinality(V \ {s}) = IF s \in V THEN Cardinality(V) - 1 ELSE Cardinality(V)
  BY <1>4, FS_RemoveElement
<1>8. Cardinality(V) + One(Registered(w, s)) = Cardinality(W) + One(Registered(v, s))
  BY <1>2, <1>3, <1>5, <1>6, <1>7 DEF One
<1>. QED BY <1>5, <1>8 DEF V, W

LEMMA EditSound ==
    ASSUME NEW w, NEW q, NEW r, NEW u, Sound(w, q, r, u), NEW s \in Sources,
           NEW v, Edits(v, w, s),
           NEW p \in Seq(Sources), NEW a \in Seq(Tasks), NEW b \in Seq(Tasks), Single(p),
           Aside(p, q, s), Aside(a, r, s), Aside(b, u, s),
           Kept(v, p, a, b, s)
    PROVE  Sound(v, p, a, b)
<1>1. \A x \in Sources : x # s => v.src[x] = w.src[x] /\ (InMap(v, x) <=> InMap(w, x))
  BY DEF Edits
<1>2. \A x \in Sources : x # s => (Registered(v, x) <=> Registered(w, x))
  BY <1>1 DEF Registered
<1>3. ASSUME NEW x \in Sources PROVE Kept(v, p, a, b, x)
  <2>1. CASE x = s
    BY <2>1
  <2>2. CASE x # s
    <3>1. Kept(w, q, r, u, x)
      BY DEF Sound
    <3>2. /\ v.src[x] = w.src[x] /\ (InMap(v, x) <=> InMap(w, x))
          /\ (Registered(v, x) <=> Registered(w, x))
      BY <1>1, <1>2, <2>2
    <3>3. /\ Count(p, x) = Count(q, x) /\ (In(p, x) <=> In(q, x))
          /\ (In(a, x) <=> In(r, x)) /\ (In(b, x) <=> In(u, x))
      BY <2>2 DEF Aside
    <3>. QED BY <3>1, <3>2, <3>3 DEF Kept, One
  <2>. QED BY <2>1, <2>2
<1>4. Cardinality(Members(v)) <= v.nsources
  <2>1. /\ Cardinality(Members(v)) \in Nat /\ Cardinality(Members(w)) \in Nat
        /\ Cardinality(Members(v)) + One(Registered(w, s))
              = Cardinality(Members(w)) + One(Registered(v, s))
    BY <1>2, EditsCounted
  <2>2. /\ Cardinality(Members(w)) <= w.nsources
        /\ w.nsources + One(Registered(v, s)) <= v.nsources + One(Registered(w, s))
    BY DEF Sound, Edits
  <2>3. w.nsources \in Int /\ v.nsources \in Int
    BY DEF Sound, Edits, Worlds, Numbers
  <2>4. One(Registered(v, s)) \in Int /\ One(Registered(w, s)) \in Int
    BY DEF One
  <2>. QED BY <2>1, <2>2, <2>3, <2>4
<1>5. ASSUME NEW k \in DOMAIN v.timers
      PROVE  LET x == v.src[v.timers[k].source]
             IN x.cancelled \/ x.expired \/ v.timers[k].key = x.due
  <2>1. CASE v.timers[k].source = s
    BY <2>1 DEF Edits
  <2>2. CASE v.timers[k].source # s
    <3>1. PICK l \in DOMAIN w.timers : v.timers[k] = w.timers[l]
      BY <2>2 DEF Edits
    <3>2. v.timers[k].source \in Sources
      BY TableDomain DEF Edits
    <3>3. v.src[v.timers[k].source] = w.src[w.timers[l].source]
      BY <1>1, <2>2, <3>1, <3>2
    <3>. QED BY <3>1, <3>3 DEF Sound, Timely
  <2>. QED BY <2>1, <2>2
<1>6. Timely(v)
  BY <1>5 DEF Timely
<1>7. v \in Worlds /\ Table(v.timers)
  BY DEF Edits
<1>. QED BY <1>3, <1>4, <1>6, <1>7 DEF Sound

LEMMA AsideSame ==
    ASSUME NEW q, NEW s
    PROVE  Aside(q, q, s)
BY DEF Aside

\* What an edit needs when the sequences stay as they are
LEMMA EditAlone ==
    ASSUME NEW w, NEW q, NEW r, NEW u, Sound(w, q, r, u), NEW s \in Sources,
           NEW v, Edits(v, w, s), Kept(v, q, r, u, s)
    PROVE  Sound(v, q, r, u)
<1>1. q \in Seq(Sources) /\ r \in Seq(Tasks) /\ u \in Seq(Tasks) /\ Single(q)
  BY DEF Sound
<1>2. Aside(q, q, s) /\ Aside(r, r, s) /\ Aside(u, u, s)
  BY AsideSame
<1>. QED BY <1>1, <1>2, EditSound

Edited(w, s, g, T, n) == [w EXCEPT !.src[s] = g, !.timers = T, !.nsources = n]

LEMMA EditedShape ==
    ASSUME NEW w \in Worlds, NEW s \in Sources, NEW g \in States,
           NEW T \in Seq(Entries), NEW n \in Numbers
    PROVE  /\ Edited(w, s, g, T, n) \in Worlds
           /\ Edited(w, s, g, T, n).src[s] = g
           /\ \A x \in Sources : x # s => Edited(w, s, g, T, n).src[x] = w.src[x]
           /\ Edited(w, s, g, T, n).timers = T
           /\ Edited(w, s, g, T, n).nsources = n
BY DEF Edited, Worlds

LEMMA WorldShape ==
    ASSUME NEW w \in Worlds, NEW s \in Sources
    PROVE  /\ w.src[s] \in States /\ w.timers \in Seq(Entries) /\ w.nsources \in Int
           /\ w.src \in [Sources -> States]
           /\ w.src[s].refs \in Int /\ w.src[s].timeout \in Int
           /\ w.src[s].expire_ms \in Int /\ w.src[s].due \in Int
BY DEF Worlds, States, Numbers

-----------------------------------------------------------------------------
(* The place of a source in the map.                                       *)

Moves(T, U, s) ==
    /\ Table(T)
    /\ \A x : x # s => (Holds(T, x) <=> Holds(U, x))
    /\ \A k \in DOMAIN T : T[k].source = s \/ \E l \in DOMAIN U : T[k] = U[l]

\* All that T holds for s has this key.
Filed(T, s, key) == \A k \in DOMAIN T : T[k].source = s => T[k].key = key

LEMMA StayMoves ==
    ASSUME NEW T, Table(T), NEW s
    PROVE  Moves(T, T, s)
BY DEF Moves

LEMMA EraseMoves ==
    ASSUME NEW T, Table(T), NEW s, Holds(T, s)
    PROVE  /\ Moves(Erase(T, s), T, s) /\ ~Holds(Erase(T, s), s)
           /\ Table(Erase(T, s)) /\ Erase(T, s) \in Seq(Entries)
<1>. DEFINE r == Erase(T, s)
<1>1. /\ Table(r)
      /\ \A x : Holds(r, x) <=> Holds(T, x) /\ x # s
      /\ \A k \in DOMAIN r : \E l \in DOMAIN T : r[k] = T[l]
  BY EraseShape
<1>. HIDE DEF r
<1>. QED BY <1>1 DEF Moves, Table, r

LEMMA InsertMoves ==
    ASSUME NEW T, Table(T), NEW s \in Sources, NEW key \in Nat, ~Holds(T, s)
    PROVE  /\ Moves(Insert(T, key, s), T, s) /\ Holds(Insert(T, key, s), s)
           /\ Filed(Insert(T, key, s), s, key)
           /\ Table(Insert(T, key, s)) /\ Insert(T, key, s) \in Seq(Entries)
<1>. DEFINE r == Insert(T, key, s)
<1>1. /\ Table(r)
      /\ \A x : Holds(r, x) <=> Holds(T, x) \/ x = s
      /\ \A k \in DOMAIN r : \/ r[k].source = s /\ r[k].key = key
                             \/ \E l \in DOMAIN T : r[k] = T[l]
  BY InsertShape
<1>. HIDE DEF r
<1>2. \A l \in DOMAIN T : T[l].source # s
  BY DEF Holds
<1>3. Filed(r, s, key)
  BY <1>1, <1>2 DEF Filed
<1>4. Moves(r, T, s)
  BY <1>1 DEF Moves
<1>. QED BY <1>1, <1>3, <1>4 DEF Table, r

LEMMA ReinsertMoves ==
    ASSUME NEW T, Table(T), NEW s \in Sources, NEW key \in Nat, Holds(T, s)
    PROVE  /\ Moves(Insert(Erase(T, s), key, s), T, s)
           /\ Holds(Insert(Erase(T, s), key, s), s)
           /\ Filed(Insert(Erase(T, s), key, s), s, key)
           /\ Table(Insert(Erase(T, s), key, s))
           /\ Insert(Erase(T, s), key, s) \in Seq(Entries)
<1>. DEFINE U == Erase(T, s)
            r == Insert(U, key, s)
<1>1. Moves(U, T, s) /\ ~Holds(U, s) /\ Table(U)
  BY EraseMoves
<1>. HIDE DEF U
<1>2. /\ Moves(r, U, s) /\ Holds(r, s) /\ Filed(r, s, key)
      /\ Table(r) /\ r \in Seq(Entries)
  BY <1>1, InsertMoves
<1>. HIDE DEF r
<1>3. ASSUME NEW k \in DOMAIN r, r[k].source # s
      PROVE  \E l \in DOMAIN T : r[k] = T[l]
  <2>1. PICK j \in DOMAIN U : r[k] = U[j]
    BY <1>2, <1>3 DEF Moves
  <2>. QED BY <1>1, <1>3, <2>1 DEF Moves
<1>4. Moves(r, T, s)
  BY <1>1, <1>2, <1>3 DEF Moves
<1>. QED BY <1>2, <1>4 DEF r, U

LEMMA EditedEdits ==
    ASSUME NEW w \in Worlds, NEW s \in Sources, NEW g \in States,
           NEW T \in Seq(Entries), NEW n \in Numbers,
           Moves(T, w.timers, s),
           g.cancelled \/ g.expired \/ Filed(T, s, g.due),
           w.nsources + One(g.linked \/ Holds(T, s))
              <= n + One(w.src[s].linked \/ Holds(w.timers, s))
    PROVE  Edits(Edited(w, s, g, T, n), w, s)
<1>. DEFINE v == Edited(w, s, g, T, n)
<1>1. /\ v \in Worlds /\ v.src[s] = g /\ v.timers = T /\ v.nsources = n
      /\ \A x \in Sources : x # s => v.src[x] = w.src[x]
  BY EditedShape
<1>. HIDE DEF v
<1>2. \A x : (InMap(v, x) <=> Holds(T, x)) /\ (InMap(w, x) <=> Holds(w.timers, x))
  BY <1>1 DEF InMap, Holds
<1>3. /\ One(Registered(v, s)) = One(g.linked \/ Holds(T, s))
      /\ One(Registered(w, s)) = One(w.src[s].linked \/ Holds(w.timers, s))
  BY <1>1, <1>2 DEF Registered, One
<1>4. \A x \in Sources : x # s => v.src[x] = w.src[x] /\ (InMap(v, x) <=> InMap(w, x))
  BY <1>1, <1>2 DEF Moves
<1>5. \A k \in DOMAIN v.timers :
          v.timers[k].source = s =>
             v.src[s].cancelled \/ v.src[s].expired \/ v.timers[k].key = v.src[s].due
  BY <1>1 DEF Filed
<1>6. v.nsources = n
  BY <1>1
<1>7. w.nsources + One(Registered(v, s)) <= v.nsources + One(Registered(w, s))
  BY <1>3, <1>6
<1>. QED BY <1>1, <1>4, <1>5, <1>7 DEF Edits, Moves, v

\* Kept, of the state g of a source that is in the map if h
KeptAs(g, h, q, r, u, s) ==
    /\ g.linked => s \in Fds
    /\ s \in Fds /\ h => g.linked
    /\ g.expired \/ h \/ g.timeout >= 0 => g.expire_ms >= 0
    /\ g.refs = One(~In(r, s)) + One(g.linked) + One(h) + Count(q, s)
    /\ In(q, s) => /\ s \in Fds => g.cancelled \/ g.linked
                   /\ s \notin Fds => g.expired /\ (g.cancelled \/ h)
    /\ In(r, s) => s \in Tasks /\ In(u, s) /\ g.cancelled /\ ~g.linked /\ ~h
    /\ s \in Tasks /\ ~In(u, s) => ~g.linked /\ ~h /\ ~In(q, s)

LEMMA KeptIff ==
    ASSUME NEW w, NEW q, NEW r, NEW u, NEW s
    PROVE  Kept(w, q, r, u, s) <=> KeptAs(w.src[s], InMap(w, s), q, r, u, s)
BY DEF Kept, KeptAs, Registered

\* An edit that keeps its source keeps the sources sound.
LEMMA EditedSound ==
    ASSUME NEW w, NEW q, NEW r, NEW u, Sound(w, q, r, u), NEW s \in Sources,
           NEW g \in States, NEW T \in Seq(Entries), NEW n \in Numbers,
           Moves(T, w.timers, s),
           g.cancelled \/ g.expired \/ Filed(T, s, g.due),
           w.nsources + One(g.linked \/ Holds(T, s))
              <= n + One(w.src[s].linked \/ Holds(w.timers, s)),
           KeptAs(g, Holds(T, s), q, r, u, s)
    PROVE  Sound(Edited(w, s, g, T, n), q, r, u)
<1>. DEFINE v == Edited(w, s, g, T, n)
<1>1. w \in Worlds
  BY DEF Sound
<1>2. v.src[s] = g /\ v.timers = T
  BY <1>1, EditedShape
<1>3. Edits(v, w, s)
  BY <1>1, EditedEdits
<1>. HIDE DEF v
<1>4. InMap(v, s) = Holds(T, s)
  BY <1>2 DEF InMap, Holds
<1>5. KeptAs(v.src[s], InMap(v, s), q, r, u, s)
  BY <1>2, <1>4
<1>6. Kept(v, q, r, u, s)
  BY <1>5, KeptIff
<1>. QED BY <1>3, <1>6, EditAlone DEF v

-----------------------------------------------------------------------------
(* belle_sip_main_loop_remove_source and belle_sip_source_cancel           *)

LEMMA StateFields ==
    ASSUME NEW x \in States
    PROVE  /\ x.linked \in Flags /\ x.cancelled \in Flags /\ x.expired \in Flags
           /\ x.linked \in BOOLEAN /\ x.cancelled \in BOOLEAN /\ x.expired \in BOOLEAN
           /\ x.revents \in Events /\ x.timeout \in Int /\ x.expire_ms \in Int
           /\ x.refs \in Int /\ x.due \in Int
BY DEF States, Flags, Numbers

\* No other source has changed.
Beside(v, w, s) ==
    \A x \in Sources : x # s => v.src[x] = w.src[x] /\ (InMap(v, x) <=> InMap(w, x))

LEMMA EditedBeside ==
    ASSUME NEW w \in Worlds, NEW s \in Sources, NEW g \in States,
           NEW T \in Seq(Entries), NEW n \in Numbers, Moves(T, w.timers, s)
    PROVE  /\ Beside(Edited(w, s, g, T, n), w, s)
           /\ Edited(w, s, g, T, n).src[s] = g
           /\ InMap(Edited(w, s, g, T, n), s) <=> Holds(T, s)
<1>. DEFINE v == Edited(w, s, g, T, n)
<1>1. /\ v.src[s] = g /\ v.timers = T
      /\ \A x \in Sources : x # s => v.src[x] = w.src[x]
  BY EditedShape
<1>. HIDE DEF v
<1>2. \A x : (InMap(v, x) <=> Holds(T, x)) /\ (InMap(w, x) <=> Holds(w.timers, x))
  BY <1>1 DEF InMap, Holds
<1>. QED BY <1>1, <1>2 DEF Moves, Beside, v

Removed(x, n) == [x EXCEPT !.linked = FALSE, !.cancelled = TRUE, !.refs = @ - n]

LEMMA RemovedShape ==
    ASSUME NEW x \in States, NEW n \in Int
    PROVE  /\ Removed(x, n) \in States
           /\ Removed(x, n).linked = FALSE /\ Removed(x, n).cancelled = TRUE
           /\ Removed(x, n).refs = x.refs - n
           /\ Removed(x, n).expired = x.expired /\ Removed(x, n).timeout = x.timeout
           /\ Removed(x, n).expire_ms = x.expire_ms
<1>. DEFINE no == FALSE
            yes == TRUE
            k == x.refs - n
            g == [x EXCEPT !.linked = no, !.cancelled = yes, !.refs = k]
<1>1. no \in Flags /\ yes \in Flags /\ k \in Numbers
  BY StateFields DEF Flags, Numbers
<1>2. Removed(x, n) = g
  BY DEF Removed
<1>. HIDE DEF no, yes, k
<1>3. g \in States
  BY <1>1 DEF States
<1>4. /\ g.linked = no /\ g.cancelled = yes /\ g.refs = k
      /\ g.expired = x.expired /\ g.timeout = x.timeout /\ g.expire_ms = x.expire_ms
  BY DEF States
<1>. HIDE DEF g
<1>. QED BY <1>2, <1>3, <1>4 DEF no, yes, k

LEMMA OneType ==
    ASSUME NEW b
    PROVE  One(b) \in {0, 1} /\ (b => One(b) = 1) /\ (~b => One(b) = 0)
BY DEF One

LEMMA RemoveSound ==
    ASSUME NEW w, NEW q, NEW r, NEW u, Sound(w, q, r, u), NEW s \in Sources
    PROVE  /\ Sound(remove_source(w, s), q, r, u)
           /\ Beside(remove_source(w, s), w, s)
           /\ ~Registered(remove_source(w, s), s)
           /\ Registered(w, s) \/ w.src[s].cancelled => remove_source(w, s).src[s].cancelled
<1>. DEFINE x == w.src[s]
            h == InMap(w, s)
            n == One(x.linked) + One(h)
            T == IF h THEN Erase(w.timers, s) ELSE w.timers
            g == Removed(x, n)
            c == w.nsources - 1
            v == Edited(w, s, g, T, c)
            o == remove_source(w, s)
<1>1. w \in Worlds /\ Table(w.timers) /\ Kept(w, q, r, u, s) /\ q \in Seq(Sources)
  BY DEF Sound
<1>2. x \in States /\ x.linked \in BOOLEAN /\ w.nsources \in Int /\ x.refs \in Int
  BY <1>1, WorldShape, StateFields
<1>3. n \in Int /\ (n = 0 <=> ~Registered(w, s))
  BY <1>2 DEF One, Registered
<1>4. CASE n = 0
  <2>1. o = w
    BY <1>4 DEF remove_source, One
  <2>2. Beside(w, w, s)
    BY DEF Beside
  <2>. QED BY <1>3, <1>4, <2>1, <2>2
<1>5. CASE n # 0
  <2>1. o = v
    BY <1>1, <1>5 DEF remove_source, One, Edited, Removed, Worlds
  <2>2. /\ g \in States /\ g.linked = FALSE /\ g.cancelled = TRUE
        /\ g.refs = x.refs - n /\ g.expired = x.expired /\ g.timeout = x.timeout
        /\ g.expire_ms = x.expire_ms
    BY <1>2, <1>3, RemovedShape
  <2>3. h <=> Holds(w.timers, s)
    BY DEF InMap, Holds
  <2>4. Moves(T, w.timers, s) /\ ~Holds(T, s) /\ T \in Seq(Entries)
    <3>1. CASE h
      <4>1. T = Erase(w.timers, s)
        BY <3>1
      <4>. QED BY <1>1, <2>3, <3>1, <4>1, EraseMoves
    <3>2. CASE ~h
      <4>1. T = w.timers
        BY <3>2
      <4>. QED BY <1>1, <2>3, <3>2, <4>1, StayMoves, TableDomain
    <3>. QED BY <3>1, <3>2
  <2>5. c \in Numbers /\ c = w.nsources - 1
    BY <1>2 DEF Numbers
  <2>6. x.linked \/ Holds(w.timers, s)
    BY <1>2, <1>5, <2>3 DEF One
  <2>7. KeptAs(x, h, q, r, u, s)
    BY <1>1, KeptIff
  <2>. HIDE DEF g, T, c, v, o, x
  <2>8. w.nsources + One(g.linked \/ Holds(T, s))
          <= c + One(w.src[s].linked \/ Holds(w.timers, s))
    BY <1>2, <2>2, <2>4, <2>5, <2>6 DEF One, x
  <2>9. KeptAs(g, Holds(T, s), q, r, u, s)
    <3>1. One(x.linked) \in {0, 1} /\ One(h) \in {0, 1} /\ One(~In(r, s)) \in {0, 1}
      BY OneType
    <3>2. Count(q, s) \in Nat
      BY <1>1, CountFinite
    <3>3. One(g.linked) = 0 /\ One(Holds(T, s)) = 0
      BY <2>2, <2>4 DEF One
    <3>4. g.refs = One(~In(r, s)) + One(g.linked) + One(Holds(T, s)) + Count(q, s)
      BY <1>2, <2>2, <2>7, <3>1, <3>2, <3>3 DEF KeptAs
    <3>5. In(r, s) => s \in Tasks /\ In(u, s)
      BY <2>7 DEF KeptAs
    <3>6. s \in Tasks /\ ~In(u, s) => ~In(q, s)
      BY <2>7 DEF KeptAs
    <3>7. g.expired \/ g.timeout >= 0 => g.expire_ms >= 0
      BY <2>2, <2>7 DEF KeptAs
    <3>8. In(q, s) /\ s \notin Fds => g.expired
      BY <2>2, <2>7 DEF KeptAs
    <3>. HIDE DEF h, n
    <3>. QED BY <2>2, <2>4, <3>4, <3>5, <3>6, <3>7, <3>8 DEF KeptAs
  <2>10. Sound(v, q, r, u)
    BY <2>2, <2>4, <2>5, <2>8, <2>9, EditedSound DEF v
  <2>11. Beside(v, w, s) /\ v.src[s] = g /\ (InMap(v, s) <=> Holds(T, s))
    BY <1>1, <2>2, <2>4, <2>5, EditedBeside DEF v
  <2>12. ~Registered(v, s) /\ v.src[s].cancelled
    BY <2>2, <2>4, <2>11 DEF Registered
  <2>. QED BY <2>1, <2>10, <2>11, <2>12 DEF o
<1>. QED BY <1>4, <1>5

Cancelled(x) == [x EXCEPT !.cancelled = TRUE]

LEMMA CancelledShape ==
    ASSUME NEW x \in States
    PROVE  /\ Cancelled(x) \in States /\ Cancelled(x).cancelled = TRUE
           /\ Cancelled(x).linked = x.linked /\ Cancelled(x).refs = x.refs
           /\ Cancelled(x).expired = x.expired /\ Cancelled(x).timeout = x.timeout
           /\ Cancelled(x).expire_ms = x.expire_ms
<1>. DEFINE yes == TRUE
            g == [x EXCEPT !.cancelled = yes]
<1>1. yes \in Flags
  BY DEF Flags
<1>2. Cancelled(x) = g
  BY DEF Cancelled
<1>. HIDE DEF yes
<1>3. g \in States
  BY <1>1 DEF States
<1>4. /\ g.linked = x.linked /\ g.cancelled = yes /\ g.refs = x.refs
      /\ g.expired = x.expired /\ g.timeout = x.timeout /\ g.expire_ms = x.expire_ms
  BY DEF States
<1>. HIDE DEF g
<1>. QED BY <1>2, <1>3, <1>4 DEF yes

LEMMA CancelSound ==
    ASSUME NEW w, NEW q, NEW r, NEW u, Sound(w, q, r, u), NEW s \in Sources
    PROVE  Sound(cancel(w, s), q, r, u) /\ Beside(cancel(w, s), w, s)
<1>. DEFINE x == w.src[s]
            h == InMap(w, s)
            T == IF h THEN Insert(Erase(w.timers, s), 0, s) ELSE w.timers
            g == Cancelled(x)
            c == w.nsources
            v == Edited(w, s, g, T, c)
<1>1. w \in Worlds /\ Table(w.timers) /\ Kept(w, q, r, u, s)
  BY DEF Sound
<1>2. x \in States /\ c \in Numbers /\ c \in Int
  BY <1>1, WorldShape DEF Numbers
<1>3. cancel(w, s) = v
  BY <1>1 DEF cancel, Edited, Cancelled, Worlds
<1>4. /\ g \in States /\ g.cancelled = TRUE /\ g.linked = x.linked /\ g.refs = x.refs
      /\ g.expired = x.expired /\ g.timeout = x.timeout /\ g.expire_ms = x.expire_ms
  BY <1>2, CancelledShape
<1>5. h = Holds(w.timers, s)
  BY DEF InMap, Holds
<1>6. Moves(T, w.timers, s) /\ Holds(T, s) = h /\ T \in Seq(Entries)
  <2>1. CASE h
    <3>1. T = Insert(Erase(w.timers, s), 0, s)
      BY <2>1
    <3>2. Moves(T, w.timers, s) /\ Holds(T, s) /\ T \in Seq(Entries)
      BY <1>1, <1>5, <2>1, <3>1, ReinsertMoves
    <3>. QED BY <2>1, <3>2 DEF Holds
  <2>2. CASE ~h
    <3>1. T = w.timers
      BY <2>2
    <3>. QED BY <1>1, <1>5, <2>2, <3>1, StayMoves, TableDomain
  <2>. QED BY <2>1, <2>2
<1>7. KeptAs(x, h, q, r, u, s)
  BY <1>1, KeptIff
<1>. HIDE DEF g, T, v, x, h
<1>8. KeptAs(g, h, q, r, u, s)
  BY <1>4, <1>7 DEF KeptAs
<1>9. KeptAs(g, Holds(T, s), q, r, u, s)
  BY <1>6, <1>8
<1>10. w.nsources + One(g.linked \/ Holds(T, s))
          <= c + One(w.src[s].linked \/ Holds(w.timers, s))
  BY <1>2, <1>4, <1>5, <1>6 DEF One, x
<1>. HIDE DEF c
<1>11. Sound(v, q, r, u)
  BY <1>2, <1>4, <1>6, <1>9, <1>10, EditedSound DEF v
<1>12. Beside(v, w, s)
  BY <1>1, <1>2, <1>4, <1>6, EditedBeside DEF v
<1>. QED BY <1>3, <1>11, <1>12

-----------------------------------------------------------------------------
(* belle_sip_main_loop_add_source and belle_sip_source_set_timeout_int64   *)

\* EditedSound, of an edit after which other sequences are in force
LEMMA EditedSoundIn ==
    ASSUME NEW w, NEW q, NEW r, NEW u, Sound(w, q, r, u), NEW s \in Sources,
           NEW g \in States, NEW T \in Seq(Entries), NEW n \in Numbers,
           Moves(T, w.timers, s),
           g.cancelled \/ g.expired \/ Filed(T, s, g.due),
           w.nsources + One(g.linked \/ Holds(T, s))
              <= n + One(w.src[s].linked \/ Holds(w.timers, s)),
           NEW p \in Seq(Sources), NEW a \in Seq(Tasks), NEW b \in Seq(Tasks), Single(p),
           Aside(p, q, s), Aside(a, r, s), Aside(b, u, s),
           KeptAs(g, Holds(T, s), p, a, b, s)
    PROVE  Sound(Edited(w, s, g, T, n), p, a, b)
<1>. DEFINE v == Edited(w, s, g, T, n)
<1>1. w \in Worlds
  BY DEF Sound
<1>2. v.src[s] = g /\ v.timers = T
  BY <1>1, EditedShape
<1>3. Edits(v, w, s)
  BY <1>1, EditedEdits
<1>. HIDE DEF v
<1>4. InMap(v, s) = Holds(T, s)
  BY <1>2 DEF InMap, Holds
<1>5. KeptAs(v.src[s], InMap(v, s), p, a, b, s)
  BY <1>2, <1>4
<1>6. Kept(v, p, a, b, s)
  BY <1>5, KeptIff
<1>. QED BY <1>3, <1>6, EditSound DEF v

Placed(x, l, e, d, k) ==
    [x EXCEPT !.cancelled = FALSE, !.linked = l, !.expire_ms = e, !.due = d, !.refs = k]

PlacedAs(g, x, l, e, d, k) ==
    /\ g \in States /\ g.linked = l /\ g.expire_ms = e /\ g.due = d /\ g.refs = k
    /\ g.cancelled = FALSE /\ g.expired = x.expired /\ g.timeout = x.timeout

LEMMA PlacedShape ==
    ASSUME NEW x \in States, NEW l \in Flags, NEW e \in Numbers, NEW d \in Numbers, NEW k \in Numbers
    PROVE  PlacedAs(Placed(x, l, e, d, k), x, l, e, d, k)
<1>. DEFINE no == FALSE
            g == [x EXCEPT !.cancelled = no, !.linked = l, !.expire_ms = e, !.due = d, !.refs = k]
<1>1. no \in Flags
  BY DEF Flags
<1>2. Placed(x, l, e, d, k) = g
  BY DEF Placed
<1>. HIDE DEF no
<1>3. g \in States
  BY <1>1 DEF States
<1>4. /\ g.linked = l /\ g.expire_ms = e /\ g.due = d /\ g.refs = k /\ g.cancelled = no
      /\ g.expired = x.expired /\ g.timeout = x.timeout
  BY DEF States
<1>. HIDE DEF g
<1>. QED BY <1>2, <1>3, <1>4 DEF no, PlacedAs

\* Either a callback adds a source of the application, or a task is handed over.
LEMMA AddSound ==
    ASSUME NEW w, NEW q, NEW r, NEW u, Sound(w, q, r, u), NEW s \in Sources, now \in Nat,
           ~Registered(w, s), NEW b \in Seq(Tasks), Aside(b, u, s),
           \/ s \in App /\ b = u /\ (s \in Fds \/ w.src[s].timeout >= 0)
           \/ s \in Tasks /\ In(b, s) /\ ~In(u, s)
    PROVE  Sound(add_source(w, s), q, r, b) /\ Beside(add_source(w, s), w, s)
<1>. DEFINE x == w.src[s]
            timed == x.timeout >= 0
            expire == now + x.timeout
            l == s \in Fds
            e == IF timed THEN expire ELSE x.expire_ms
            d == IF timed THEN expire ELSE Disabled
            k == x.refs + (IF timed THEN 1 ELSE 0) + (IF s \in Fds THEN 1 ELSE 0)
            g == Placed(x, l, e, d, k)
            T == IF timed THEN Insert(w.timers, expire, s) ELSE w.timers
            c == w.nsources + 1
            v == Edited(w, s, g, T, c)
<1>1. /\ w \in Worlds /\ Table(w.timers) /\ Kept(w, q, r, u, s) /\ q \in Seq(Sources)
      /\ r \in Seq(Tasks) /\ Single(q)
  BY DEF Sound
<1>2. /\ x \in States /\ x.timeout \in Int /\ x.refs \in Int /\ x.expire_ms \in Int
      /\ w.nsources \in Int
  BY <1>1, WorldShape
<1>3. add_source(w, s) = v
  BY <1>1 DEF add_source, Edited, Placed, Worlds
<1>4. l \in Flags /\ e \in Numbers /\ d \in Numbers /\ k \in Numbers /\ c \in Numbers
  BY <1>2 DEF Flags, Numbers, Disabled
<1>5. ~x.linked /\ ~Holds(w.timers, s) /\ ~InMap(w, s)
  BY DEF Registered, InMap, Holds
<1>6. KeptAs(x, InMap(w, s), q, r, u, s)
  BY <1>1, KeptIff
<1>7. timed => expire \in Nat /\ e = expire /\ d = expire
  BY <1>2
<1>8. ~timed => e = x.expire_ms
  OBVIOUS
<1>9. k = x.refs + One(timed) + One(l) /\ k \in Int
  BY <1>2 DEF One
<1>10. Count(q, s) \in Nat
  BY <1>1, CountFinite
<1>11. c = w.nsources + 1
  OBVIOUS
<1>12. timed <=> x.timeout >= 0
  OBVIOUS
<1>. HIDE DEF e, d, k, l
<1>13. /\ g \in States /\ g.linked = l /\ g.expire_ms = e /\ g.due = d /\ g.refs = k
       /\ g.cancelled = FALSE /\ g.expired = x.expired /\ g.timeout = x.timeout
  <2>1. PlacedAs(g, x, l, e, d, k)
    BY <1>2, <1>4, PlacedShape
  <2>. QED BY <2>1 DEF PlacedAs
<1>14. /\ Moves(T, w.timers, s) /\ (Holds(T, s) <=> timed) /\ T \in Seq(Entries)
       /\ Filed(T, s, d)
  <2>1. CASE timed
    <3>1. T = Insert(w.timers, expire, s) /\ expire \in Nat /\ d = expire
      BY <1>7, <2>1
    <3>. HIDE DEF timed, T
    <3>. QED BY <1>1, <1>5, <2>1, <3>1, InsertMoves
  <2>2. CASE ~timed
    <3>1. T = w.timers
      BY <2>2
    <3>2. Moves(T, w.timers, s) /\ ~Holds(T, s) /\ T \in Seq(Entries)
      BY <1>1, <1>5, <3>1, StayMoves, TableDomain
    <3>3. Filed(T, s, d)
      BY <1>5, <3>1 DEF Filed, Holds
    <3>. HIDE DEF timed, T
    <3>. QED BY <2>2, <3>2, <3>3
  <2>. QED BY <2>1, <2>2
<1>. HIDE DEF g, T, v, timed, expire, c, x
<1>15. w.nsources + One(g.linked \/ Holds(T, s))
          <= c + One(w.src[s].linked \/ Holds(w.timers, s))
  BY <1>2, <1>11 DEF One
<1>16. l <=> s \in Fds
  BY DEF l
<1>17. In(r, s) => s \in Tasks /\ In(u, s)
  BY <1>6 DEF KeptAs
<1>18. s \in Tasks => s \notin App /\ s \notin Fds
  BY Kinds
<1>19. s \in Tasks /\ ~In(u, s) => ~In(q, s)
  BY <1>6 DEF KeptAs
<1>20. ~In(r, s)
  BY <1>17, <1>18
<1>21. KeptAs(g, timed, q, r, b, s)
  <2>1. g.linked => s \in Fds
    BY <1>13, <1>16
  <2>2. s \in Fds /\ timed => g.linked
    BY <1>13, <1>16
  <2>3. g.expired \/ timed \/ g.timeout >= 0 => g.expire_ms >= 0
    <3>1. CASE timed
      BY <1>7, <1>13, <3>1
    <3>2. CASE ~timed
      BY <1>6, <1>8, <1>12, <1>13, <3>2 DEF KeptAs
    <3>. QED BY <3>1, <3>2
  <2>4. g.refs = One(~In(r, s)) + One(g.linked) + One(timed) + Count(q, s)
    <3>1. x.refs = 1 + Count(q, s)
      BY <1>5, <1>6, <1>10, <1>20 DEF KeptAs, One
    <3>2. One(~In(r, s)) = 1 /\ One(g.linked) = One(l)
      BY <1>13, <1>20 DEF One
    <3>3. One(timed) \in {0, 1} /\ One(l) \in {0, 1}
      BY OneType
    <3>4. g.refs = x.refs + One(timed) + One(l)
      BY <1>9, <1>13
    <3>. QED BY <1>10, <3>1, <3>2, <3>3, <3>4
  <2>5. ASSUME In(q, s), s \in Fds PROVE g.cancelled \/ g.linked
    BY <1>13, <1>16, <2>5
  <2>6. ASSUME In(q, s), s \notin Fds PROVE g.expired /\ (g.cancelled \/ timed)
    <3>1. x.expired
      BY <1>6, <2>6 DEF KeptAs
    <3>2. timed
      BY <1>12, <1>19, <2>6 DEF x
    <3>. QED BY <1>13, <3>1, <3>2
  <2>7. s \in Tasks => In(b, s)
    BY <1>18
  <2>. QED BY <1>20, <2>1, <2>2, <2>3, <2>4, <2>5, <2>6, <2>7 DEF KeptAs
<1>22. KeptAs(g, Holds(T, s), q, r, b, s)
  <2>1. Holds(T, s) \in BOOLEAN /\ timed \in BOOLEAN
    BY DEF Holds, timed
  <2>2. Holds(T, s) = timed
    BY <1>14, <2>1
  <2>. QED BY <1>21, <2>2
<1>23. Aside(q, q, s) /\ Aside(r, r, s)
  BY AsideSame
<1>24. g.cancelled \/ g.expired \/ Filed(T, s, g.due)
  BY <1>13, <1>14
<1>25. Sound(v, q, r, b)
  BY <1>1, <1>4, <1>13, <1>14, <1>15, <1>22, <1>23, <1>24, EditedSoundIn DEF v
<1>26. Beside(v, w, s)
  BY <1>1, <1>4, <1>13, <1>14, EditedBeside DEF v
<1>. QED BY <1>3, <1>25, <1>26

Retimed(x, t, e, d, k) ==
    [x EXCEPT !.timeout = t, !.expire_ms = e, !.due = d, !.refs = k]

RetimedAs(g, x, t, e, d, k) ==
    /\ g \in States /\ g.timeout = t /\ g.expire_ms = e /\ g.due = d /\ g.refs = k
    /\ g.linked = x.linked /\ g.cancelled = x.cancelled /\ g.expired = x.expired

LEMMA RetimedShape ==
    ASSUME NEW x \in States, NEW t \in Numbers, NEW e \in Numbers, NEW d \in Numbers,
           NEW k \in Numbers
    PROVE  RetimedAs(Retimed(x, t, e, d, k), x, t, e, d, k)
<1>. DEFINE g == Retimed(x, t, e, d, k)
<1>1. g \in States
  BY DEF Retimed, States
<1>2. /\ g.timeout = t /\ g.expire_ms = e /\ g.due = d /\ g.refs = k
      /\ g.linked = x.linked /\ g.cancelled = x.cancelled /\ g.expired = x.expired
  BY DEF Retimed, States
<1>. QED BY <1>1, <1>2 DEF RetimedAs

LEMMA SetTimeoutSound ==
    ASSUME NEW w, NEW q, NEW r, NEW u, Sound(w, q, r, u), NEW s \in App, now \in Nat,
           NEW value \in Timeouts \cup {Disabled}
    PROVE  /\ Sound(set_timeout(w, s, value), q, r, u)
           /\ Beside(set_timeout(w, s, value), w, s)
<1>. DEFINE x == w.src[s]
            h == InMap(w, s)
            moved == ~x.expired /\ h
            off == value = Disabled
            e == IF x.expired THEN x.expire_ms ELSE now + value
            d == IF value = Disabled THEN Disabled ELSE now + value
            k == IF moved /\ value = Disabled THEN x.refs - 1 ELSE x.refs
            g == Retimed(x, value, e, d, k)
            T == CASE ~moved -> w.timers
                   [] moved /\ value = Disabled -> Erase(w.timers, s)
                   [] OTHER -> Insert(Erase(w.timers, s), now + value, s)
            c == w.nsources
            v == Edited(w, s, g, T, c)
<1>1. /\ w \in Worlds /\ Table(w.timers) /\ Kept(w, q, r, u, s) /\ q \in Seq(Sources)
      /\ s \in Sources /\ s \notin Tasks /\ Timely(w)
  BY Kinds DEF Sound
<1>2. /\ x \in States /\ x.timeout \in Int /\ x.refs \in Int /\ x.expire_ms \in Int
      /\ w.nsources \in Int /\ x.linked \in BOOLEAN /\ x.expired \in BOOLEAN
  BY <1>1, WorldShape, StateFields
<1>3. set_timeout(w, s, value) = v
  BY <1>1 DEF set_timeout, Edited, Retimed, Worlds
<1>4. value \in Int /\ (~off => value \in Nat) /\ (off => value = -1 /\ ~(value >= 0))
  BY TimeAssumption DEF Disabled
<1>5. value \in Numbers /\ e \in Numbers /\ d \in Numbers /\ k \in Numbers /\ c \in Numbers
  BY <1>2, <1>4 DEF Numbers, Disabled
<1>6. h = Holds(w.timers, s)
  BY DEF InMap, Holds
<1>7. KeptAs(x, h, q, r, u, s)
  BY <1>1, KeptIff
<1>8. /\ (x.expired => e = x.expire_ms) /\ (~x.expired /\ ~off => e \in Nat)
      /\ (~off => d = now + value) /\ (moved /\ off => k = x.refs - 1)
      /\ (~(moved /\ off) => k = x.refs)
  BY <1>2, <1>4
<1>9. Count(q, s) \in Nat
  BY <1>1, CountFinite
<1>10. moved \in BOOLEAN /\ h \in BOOLEAN /\ off \in BOOLEAN /\ (moved <=> ~x.expired /\ h)
  BY <1>2 DEF InMap
<1>11. /\ ~moved => T = w.timers
       /\ moved /\ off => T = Erase(w.timers, s)
       /\ moved /\ ~off => T = Insert(Erase(w.timers, s), now + value, s)
  OBVIOUS
<1>. HIDE DEF e, d, k, T, moved, off
<1>12. /\ g \in States /\ g.timeout = value /\ g.expire_ms = e /\ g.due = d /\ g.refs = k
       /\ g.linked = x.linked /\ g.cancelled = x.cancelled /\ g.expired = x.expired
  <2>1. RetimedAs(g, x, value, e, d, k)
    BY <1>2, <1>5, RetimedShape
  <2>. QED BY <2>1 DEF RetimedAs
<1>. HIDE DEF g, v, x, h
<1>13. /\ Moves(T, w.timers, s) /\ (Holds(T, s) <=> h /\ ~(moved /\ off))
       /\ T \in Seq(Entries) /\ (g.cancelled \/ g.expired \/ Filed(T, s, g.due))
  <2>1. CASE ~moved
    <3>1. T = w.timers
      BY <1>11, <2>1
    <3>2. Moves(T, w.timers, s) /\ T \in Seq(Entries)
      BY <1>1, <3>1, StayMoves, TableDomain
    <3>3. Holds(T, s) <=> h
      BY <1>6, <3>1
    <3>4. x.expired \/ ~h
      BY <1>2, <1>10, <2>1
    <3>5. ~h => Filed(T, s, g.due)
      BY <3>3 DEF Filed, Holds
    <3>. QED BY <1>12, <2>1, <3>2, <3>3, <3>4, <3>5
  <2>2. CASE moved /\ off
    <3>1. T = Erase(w.timers, s) /\ Holds(w.timers, s)
      BY <1>6, <1>10, <1>11, <2>2
    <3>2. Moves(T, w.timers, s) /\ ~Holds(T, s) /\ T \in Seq(Entries)
      BY <1>1, <3>1, EraseMoves
    <3>3. Filed(T, s, g.due)
      BY <3>2 DEF Filed, Holds
    <3>. QED BY <2>2, <3>2, <3>3
  <2>3. CASE moved /\ ~off
    <3>1. T = Insert(Erase(w.timers, s), now + value, s) /\ Holds(w.timers, s)
      BY <1>6, <1>10, <1>11, <2>3
    <3>2. now + value \in Nat /\ g.due = now + value
      BY <1>4, <1>8, <1>12, <2>3
    <3>3. Moves(T, w.timers, s) /\ Holds(T, s) /\ T \in Seq(Entries) /\ Filed(T, s, now + value)
      BY <1>1, <3>1, <3>2, ReinsertMoves
    <3>. QED BY <1>10, <2>3, <3>2, <3>3
  <2>. QED BY <1>10, <2>1, <2>2, <2>3
<1>14. w.nsources + One(g.linked \/ Holds(T, s))
          <= c + One(w.src[s].linked \/ Holds(w.timers, s))
  <2>1. One(g.linked \/ Holds(T, s)) <= One(w.src[s].linked \/ Holds(w.timers, s))
    BY <1>6, <1>12, <1>13 DEF One, x
  <2>2. /\ One(g.linked \/ Holds(T, s)) \in Int
        /\ One(w.src[s].linked \/ Holds(w.timers, s)) \in Int
    BY DEF One
  <2>. QED BY <1>2, <2>1, <2>2
<1>15. ~In(r, s)
  BY <1>1, <1>7 DEF KeptAs
<1>. DEFINE i == Holds(T, s)
<1>16. i <=> h /\ ~(moved /\ off)
  BY <1>13
<1>17. i \in BOOLEAN
  BY DEF Holds
<1>. HIDE DEF i, c
<1>18. KeptAs(g, i, q, r, u, s)
  <2>1. g.linked => s \in Fds
    BY <1>7, <1>12 DEF KeptAs
  <2>2. s \in Fds /\ i => g.linked
    BY <1>7, <1>12, <1>16 DEF KeptAs
  <2>3. ASSUME g.expired \/ i \/ g.timeout >= 0 PROVE g.expire_ms >= 0
    <3>1. CASE x.expired
      BY <1>7, <1>8, <1>12, <3>1 DEF KeptAs
    <3>2. CASE ~x.expired
      <4>1. ~off
        BY <1>4, <1>10, <1>12, <1>16, <2>3, <3>2
      <4>. QED BY <1>8, <1>12, <3>2, <4>1
    <3>. QED BY <3>1, <3>2
  <2>4. g.refs = One(~In(r, s)) + One(g.linked) + One(i) + Count(q, s)
    <3>1. x.refs = One(~In(r, s)) + One(x.linked) + One(h) + Count(q, s)
      BY <1>7 DEF KeptAs
    <3>2. One(~In(r, s)) \in {0, 1} /\ One(x.linked) \in {0, 1} /\ One(g.linked) = One(x.linked)
      BY <1>12, OneType
    <3>3. CASE moved /\ off
      <4>1. One(h) = 1 /\ One(i) = 0
        BY <1>10, <1>16, <3>3, OneType
      <4>2. k = x.refs - 1
        BY <1>8, <3>3
      <4>. QED BY <1>2, <1>9, <1>12, <3>1, <3>2, <4>1, <4>2
    <3>4. CASE ~(moved /\ off)
      <4>1. One(h) = One(i)
        BY <1>16, <3>4 DEF One
      <4>2. k = x.refs
        BY <1>8, <3>4
      <4>. QED BY <1>2, <1>9, <1>12, <3>1, <3>2, <4>1, <4>2
    <3>. QED BY <3>3, <3>4
  <2>5. ASSUME In(q, s), s \in Fds PROVE g.cancelled \/ g.linked
    BY <1>7, <1>12, <2>5 DEF KeptAs
  <2>6. ASSUME In(q, s), s \notin Fds PROVE g.expired /\ (g.cancelled \/ i)
    BY <1>7, <1>10, <1>12, <1>16, <2>6 DEF KeptAs
  <2>. QED BY <1>1, <1>15, <2>1, <2>2, <2>3, <2>4, <2>5, <2>6 DEF KeptAs
<1>19. KeptAs(g, Holds(T, s), q, r, u, s)
  BY <1>18 DEF i
<1>20. Sound(v, q, r, u)
  BY <1>1, <1>5, <1>12, <1>13, <1>14, <1>19, EditedSound DEF v
<1>21. Beside(v, w, s)
  BY <1>1, <1>5, <1>12, <1>13, EditedBeside DEF v
<1>. QED BY <1>3, <1>20, <1>21

\* What the callback of a source does to the sources keeps them sound, and
\* leaves the tasks alone.
LEMMA ChangesSound ==
    ASSUME NEW w, NEW q, NEW r, NEW u, Sound(w, q, r, u), now \in Nat,
           NEW v \in Changes(w) \cup {w}
    PROVE  /\ Sound(v, q, r, u)
           /\ \A x \in Tasks : v.src[x] = w.src[x] /\ (InMap(v, x) <=> InMap(w, x))
<1>1. \A x \in Tasks : x \in Sources /\ x \notin App
  BY Kinds
<1>2. ASSUME NEW s \in App, Beside(v, w, s)
      PROVE  \A x \in Tasks : v.src[x] = w.src[x] /\ (InMap(v, x) <=> InMap(w, x))
  BY <1>1, <1>2 DEF Beside
<1>3. u \in Seq(Tasks)
  BY DEF Sound
<1>4. CASE v = w
  BY <1>4
<1>5. CASE \E s \in App : v = remove_source(w, s)
  <2>1. PICK s \in App : v = remove_source(w, s)
    BY <1>5
  <2>2. s \in Sources
    BY Kinds
  <2>3. Sound(v, q, r, u) /\ Beside(v, w, s)
    BY <2>1, <2>2, RemoveSound
  <2>. QED BY <1>2, <2>3
<1>6. CASE \E s \in App : v = cancel(w, s)
  <2>1. PICK s \in App : v = cancel(w, s)
    BY <1>6
  <2>2. s \in Sources
    BY Kinds
  <2>3. Sound(v, q, r, u) /\ Beside(v, w, s)
    BY <2>1, <2>2, CancelSound
  <2>. QED BY <1>2, <2>3
<1>7. CASE \E s \in {x \in App : MayAdd(w, x)} : v = add_source(w, s)
  <2>1. PICK s \in App : MayAdd(w, s) /\ v = add_source(w, s)
    BY <1>7
  <2>2. s \in Sources /\ Aside(u, u, s)
    BY Kinds, AsideSame
  <2>3. ~Registered(w, s) /\ (s \in Fds \/ w.src[s].timeout >= 0)
    BY <2>1 DEF MayAdd
  <2>4. Sound(v, q, r, u) /\ Beside(v, w, s)
    BY <1>3, <2>1, <2>2, <2>3, AddSound
  <2>. QED BY <1>2, <2>4
<1>8. CASE \E s \in App, value \in Timeouts \cup {Disabled} : v = set_timeout(w, s, value)
  <2>1. PICK s \in App, value \in Timeouts \cup {Disabled} : v = set_timeout(w, s, value)
    BY <1>8
  <2>2. Sound(v, q, r, u) /\ Beside(v, w, s)
    BY <2>1, SetTimeoutSound
  <2>. QED BY <1>2, <2>2
<1>9. \/ v = w
      \/ \E s \in App : v = remove_source(w, s)
      \/ \E s \in App : v = cancel(w, s)
      \/ \E s \in {x \in App : MayAdd(w, x)} : v = add_source(w, s)
      \/ \E s \in App, value \in Timeouts \cup {Disabled} : v = set_timeout(w, s, value)
  BY DEF Changes
<1>. QED BY <1>4, <1>5, <1>6, <1>7, <1>8, <1>9

-----------------------------------------------------------------------------
(* Step 4: the first source of to_be_notified is notified and let go.      *)

\* The rest of the list
LEMMA TailSingle ==
    ASSUME NEW q \in Seq(Sources), q # <<>>, Single(q)
    PROVE  /\ Tail(q) \in Seq(Sources) /\ Head(q) \in Sources /\ In(q, Head(q))
           /\ Single(Tail(q)) /\ Aside(Tail(q), q, Head(q))
           /\ In(Tail(q), Head(q)) => Head(q) \in Fds
           /\ Count(q, Head(q)) = Count(Tail(q), Head(q)) + 1
           /\ Count(Tail(q), Head(q)) \in Nat
<1>. DEFINE t == Tail(q)
            s == Head(q)
            L == Len(q)
<1>1. /\ s = q[1] /\ t \in Seq(Sources) /\ L \in Nat /\ L # 0 /\ Len(t) = L - 1
      /\ \A k \in 1..Len(t) : t[k] = q[k + 1]
  BY HeadTailProperties, LenProperties, EmptySeq
<1>2. DOMAIN q = 1..L /\ DOMAIN t = 1..(L - 1)
  BY <1>1, LenProperties
<1>3. 1 \in DOMAIN q
  BY <1>1, <1>2
<1>4. s \in Sources /\ In(q, s)
  BY <1>1, <1>2, <1>3, ElementOfSeq DEF In
<1>5. \A k \in DOMAIN t : k + 1 \in DOMAIN q /\ k + 1 # 1 /\ t[k] = q[k + 1] /\ k \in Nat
  BY <1>1, <1>2
<1>6. ASSUME NEW x
      PROVE  Count(q, x) = Count(t, x) + One(x = s) /\ (In(t, x) => In(q, x))
  BY CountTail
<1>7. \A x : Count(t, x) \in Nat /\ (Count(t, x) = 0 <=> ~In(t, x)) /\ (Count(q, x) = 0 <=> ~In(q, x))
  BY <1>1, CountFinite
<1>. HIDE DEF t, s, L
<1>8. Single(t)
  <2>1. ASSUME NEW k \in DOMAIN t, NEW l \in DOMAIN t, t[k] = t[l], k # l
        PROVE  t[k] \in Fds
    <3>1. k + 1 # l + 1
      BY <1>5, <2>1
    <3>. QED BY <1>5, <2>1, <3>1 DEF Single
  <2>. QED BY <2>1 DEF Single
<1>9. ASSUME NEW x \in Sources, x # s
      PROVE  Count(t, x) = Count(q, x) /\ (In(t, x) <=> In(q, x))
  <2>1. Count(q, x) = Count(t, x)
    BY <1>6, <1>7, <1>9 DEF One
  <2>. QED BY <1>7, <2>1
<1>10. ASSUME In(t, s) PROVE s \in Fds
  <2>1. PICK k \in DOMAIN t : t[k] = s
    BY <1>10 DEF In
  <2>2. k + 1 \in DOMAIN q /\ k + 1 # 1 /\ q[k + 1] = s /\ q[1] = s
    BY <1>1, <1>5, <2>1
  <2>. QED BY <1>3, <2>2 DEF Single
<1>11. Count(q, s) = Count(t, s) + 1
  BY <1>6 DEF One
<1>12. Count(t, s) \in Nat
  BY <1>7
<1>. QED BY <1>1, <1>4, <1>8, <1>9, <1>10, <1>11, <1>12 DEF Aside, t, s

Freed(x) == [x EXCEPT !.revents = {}, !.refs = x.refs - 1]

FreedAs(g, x) ==
    /\ g \in States /\ g.refs = x.refs - 1
    /\ g.linked = x.linked /\ g.cancelled = x.cancelled /\ g.expired = x.expired
    /\ g.timeout = x.timeout /\ g.expire_ms = x.expire_ms /\ g.due = x.due

LEMMA FreedShape ==
    ASSUME NEW x \in States
    PROVE  FreedAs(Freed(x), x)
<1>. DEFINE e == {}
            k == x.refs - 1
            g == [x EXCEPT !.revents = e, !.refs = k]
<1>1. Freed(x) = g
  BY DEF Freed
<1>2. e \in Events /\ k \in Numbers
  BY StateFields DEF Events, Numbers
<1>. HIDE DEF e, k
<1>3. g \in States
  BY <1>2 DEF States
<1>4. /\ g.refs = k /\ g.linked = x.linked /\ g.cancelled = x.cancelled
      /\ g.expired = x.expired /\ g.timeout = x.timeout /\ g.expire_ms = x.expire_ms
      /\ g.due = x.due
  BY DEF States
<1>. HIDE DEF g
<1>. QED BY <1>1, <1>3, <1>4 DEF FreedAs, k

LEMMA ReleasedEdited ==
    ASSUME NEW w \in Worlds, NEW s \in Sources
    PROVE  Released(w, s) = Edited(w, s, Freed(w.src[s]), w.timers, w.nsources)
<1>. DEFINE y == Freed(w.src[s])
<1>1. Released(w, s) = [w EXCEPT !.src[s] = y]
  BY DEF Released, Freed
<1>. HIDE DEF y
<1>2. [w EXCEPT !.src[s] = y] = Edited(w, s, y, w.timers, w.nsources)
  BY DEF Edited, Worlds
<1>. QED BY <1>1, <1>2 DEF y

LEMMA EditedTwice ==
    ASSUME NEW w \in Worlds, NEW s \in Sources, NEW g \in States, NEW f \in States,
           NEW T, NEW n, NEW U, NEW k
    PROVE  Edited(Edited(w, s, g, T, n), s, f, U, k) = Edited(w, s, f, U, k)
BY DEF Edited, Worlds

\* The end of Step 4, when the source is not restarted
LEMMA ReleasedSound ==
    ASSUME NEW w, NEW q, NEW r, NEW u, Sound(w, q, r, u), q # <<>>, NEW s, s = Head(q)
    PROVE  Sound(Released(w, s), Tail(q), r, u)
<1>. DEFINE x == w.src[s]
            h == InMap(w, s)
            g == Freed(x)
            T == w.timers
            n == w.nsources
            p == Tail(q)
<1>1. /\ w \in Worlds /\ Table(T) /\ q \in Seq(Sources) /\ r \in Seq(Tasks) /\ u \in Seq(Tasks)
      /\ Single(q) /\ Timely(w) /\ \A y \in Sources : Kept(w, q, r, u, y)
  BY DEF Sound
<1>2. /\ p \in Seq(Sources) /\ s \in Sources /\ In(q, s) /\ Single(p) /\ Aside(p, q, s)
      /\ Count(q, s) = Count(p, s) + 1 /\ Count(p, s) \in Nat
  BY <1>1, TailSingle
<1>3. KeptAs(x, h, q, r, u, s)
  BY <1>1, <1>2, KeptIff
<1>4. x \in States /\ T \in Seq(Entries) /\ n \in Int /\ n \in Numbers /\ x.refs \in Int
  BY <1>1, <1>2, WorldShape DEF Numbers
<1>5. /\ g \in States /\ g.refs = x.refs - 1
      /\ g.linked = x.linked /\ g.cancelled = x.cancelled /\ g.expired = x.expired
      /\ g.timeout = x.timeout /\ g.expire_ms = x.expire_ms /\ g.due = x.due
  BY <1>4, FreedShape DEF FreedAs
<1>6. Released(w, s) = Edited(w, s, g, T, n)
  BY <1>1, <1>2, ReleasedEdited
<1>7. h = Holds(T, s)
  BY DEF InMap, Holds
<1>8. Moves(T, w.timers, s)
  BY <1>1, StayMoves
<1>9. x.cancelled \/ x.expired \/ Filed(T, s, x.due)
  BY <1>1 DEF Timely, Filed
<1>. HIDE DEF x, g, h, p
<1>10. KeptAs(g, h, p, r, u, s)
  <2>1. One(~In(r, s)) \in {0, 1} /\ One(x.linked) \in {0, 1} /\ One(h) \in {0, 1}
    BY OneType
  <2>2. x.refs = One(~In(r, s)) + One(x.linked) + One(h) + Count(q, s)
    BY <1>3 DEF KeptAs
  <2>3. One(g.linked) = One(x.linked)
    BY <1>5
  <2>4. g.refs = One(~In(r, s)) + One(g.linked) + One(h) + Count(p, s)
    BY <1>2, <1>4, <1>5, <2>1, <2>2, <2>3
  <2>5. s \in Tasks => In(u, s)
    BY <1>2, <1>3 DEF KeptAs
  <2>. QED BY <1>2, <1>3, <1>5, <2>4, <2>5 DEF KeptAs
<1>11. KeptAs(g, Holds(T, s), p, r, u, s)
  BY <1>7, <1>10
<1>12. g.cancelled \/ g.expired \/ Filed(T, s, g.due)
  BY <1>5, <1>9
<1>13. Aside(r, r, s) /\ Aside(u, u, s)
  BY AsideSame
<1>14. n + One(g.linked \/ Holds(T, s)) <= n + One(w.src[s].linked \/ Holds(w.timers, s))
  <2>1. One(g.linked \/ Holds(T, s)) = One(w.src[s].linked \/ Holds(w.timers, s))
    BY <1>5 DEF x
  <2>2. One(g.linked \/ Holds(T, s)) \in Int
    BY DEF One
  <2>. QED BY <1>4, <2>1, <2>2
<1>15. Sound(Edited(w, s, g, T, n), p, r, u)
  BY <1>1, <1>2, <1>4, <1>5, <1>8, <1>11, <1>12, <1>13, <1>14, EditedSoundIn
<1>. QED BY <1>6, <1>15 DEF p

Rearmed(x, e, d, y, k) ==
    [x EXCEPT !.expire_ms = e, !.due = d, !.expired = y, !.refs = k]

RearmedAs(g, x, e, d, y, k) ==
    /\ g \in States /\ g.expire_ms = e /\ g.due = d /\ g.expired = y /\ g.refs = k
    /\ g.linked = x.linked /\ g.cancelled = x.cancelled /\ g.timeout = x.timeout

LEMMA RearmedShape ==
    ASSUME NEW x \in States, NEW e \in Numbers, NEW d \in Numbers, NEW y \in Flags,
           NEW k \in Numbers
    PROVE  RearmedAs(Rearmed(x, e, d, y, k), x, e, d, y, k)
<1>. DEFINE g == Rearmed(x, e, d, y, k)
<1>1. g \in States
  BY DEF Rearmed, States
<1>2. /\ g.expire_ms = e /\ g.due = d /\ g.expired = y /\ g.refs = k
      /\ g.linked = x.linked /\ g.cancelled = x.cancelled /\ g.timeout = x.timeout
  BY DEF Rearmed, States
<1>. QED BY <1>1, <1>2 DEF RearmedAs

\* The end of Step 4, when the callback wants its source to go on.  What was
\* late is late no more, and a source without descriptor is not in the rest of
\* the list: it may start a new deadline.
LEMMA RestartedSound ==
    ASSUME NEW w, NEW q, NEW r, NEW u, Sound(w, q, r, u), q # <<>>,
           NEW s \in App, s = Head(q), Registered(w, s), cur \in Nat, NEW ret
    PROVE  Sound(Released(Restarted(w, s, ret), s), Tail(q), r, u)
<1>. DEFINE x == w.src[s]
            h == InMap(w, s)
            over == x.expired /\ h
            U == IF over THEN Erase(w.timers, s) ELSE w.timers
            again == (over \/ ~h) /\ x.timeout >= 0
            expire == (IF ret = "CONTINUE" THEN x.expire_ms ELSE cur) + x.timeout
            e == IF again THEN expire ELSE x.expire_ms
            d == IF again THEN expire ELSE x.due
            y == IF again THEN FALSE ELSE x.expired
            k == x.refs - (IF over THEN 1 ELSE 0) + (IF again THEN 1 ELSE 0)
            g == Rearmed(x, e, d, y, k)
            T == IF again THEN Insert(U, expire, s) ELSE U
            n == w.nsources
            f == Freed(g)
            p == Tail(q)
<1>1. /\ w \in Worlds /\ Table(w.timers) /\ q \in Seq(Sources) /\ r \in Seq(Tasks)
      /\ u \in Seq(Tasks) /\ Single(q) /\ Timely(w) /\ \A z \in Sources : Kept(w, q, r, u, z)
  BY DEF Sound
<1>2. /\ p \in Seq(Sources) /\ s \in Sources /\ In(q, s) /\ Single(p) /\ Aside(p, q, s)
      /\ Count(q, s) = Count(p, s) + 1 /\ Count(p, s) \in Nat /\ (In(p, s) => s \in Fds)
  BY <1>1, TailSingle
<1>3. s \notin Tasks
  BY Kinds
<1>4. KeptAs(x, h, q, r, u, s)
  BY <1>1, <1>2, KeptIff
<1>5. /\ x \in States /\ w.timers \in Seq(Entries) /\ n \in Int /\ n \in Numbers
      /\ x.refs \in Int /\ x.timeout \in Int /\ x.expire_ms \in Int /\ x.due \in Int
      /\ x.expired \in BOOLEAN /\ x.linked \in BOOLEAN
  BY <1>1, <1>2, WorldShape, StateFields DEF Numbers
<1>6. h = Holds(w.timers, s) /\ h \in BOOLEAN
  BY DEF InMap, Holds
<1>7. Restarted(w, s, ret) = Edited(w, s, g, T, n)
  BY <1>1 DEF Restarted, Edited, Rearmed, Worlds
<1>8. /\ (over <=> x.expired /\ h) /\ (again <=> (over \/ ~h) /\ x.timeout >= 0)
      /\ over \in BOOLEAN /\ again \in BOOLEAN
  BY <1>5, <1>6
<1>9. /\ (again => e = expire /\ d = expire /\ y = FALSE /\ T = Insert(U, expire, s))
      /\ (~again => e = x.expire_ms /\ d = x.due /\ y = x.expired /\ T = U)
      /\ (over => U = Erase(w.timers, s)) /\ (~over => U = w.timers)
      /\ k = x.refs - One(over) + One(again)
  BY DEF One
<1>10. again => expire \in Nat
  <2>1. CASE x.timeout >= 0
    <3>1. x.expire_ms >= 0
      BY <1>4, <2>1 DEF KeptAs
    <3>. QED BY <1>5, <2>1, <3>1
  <2>2. CASE ~(x.timeout >= 0)
    BY <2>2
  <2>. QED BY <2>1, <2>2
<1>. HIDE DEF over, again, expire, e, d, y, k, T, U, n, p, g, f
<1>11. e \in Numbers /\ d \in Numbers /\ y \in Flags /\ k \in Numbers /\ k \in Int
  <2>1. One(over) \in {0, 1} /\ One(again) \in {0, 1}
    BY OneType
  <2>2. k \in Int
    BY <1>5, <1>9, <2>1
  <2>3. CASE again
    <3>1. e \in Int /\ d \in Int
      BY <1>9, <1>10, <2>3
    <3>2. y \in Flags
      BY <1>9, <2>3 DEF Flags
    <3>. QED BY <2>2, <3>1, <3>2 DEF Numbers
  <2>4. CASE ~again
    <3>1. e \in Int /\ d \in Int
      BY <1>5, <1>9, <2>4
    <3>2. y \in Flags
      BY <1>5, <1>9, <2>4 DEF Flags
    <3>. QED BY <2>2, <3>1, <3>2 DEF Numbers
  <2>. QED BY <2>3, <2>4
<1>12. RearmedAs(g, x, e, d, y, k)
  BY <1>5, <1>11, RearmedShape DEF g
<1>13. /\ g \in States /\ g.expire_ms = e /\ g.due = d /\ g.expired = y /\ g.refs = k
       /\ g.linked = x.linked /\ g.cancelled = x.cancelled /\ g.timeout = x.timeout
  BY <1>12 DEF RearmedAs
<1>14. FreedAs(f, g)
  BY <1>13, FreedShape DEF f
<1>15. /\ f \in States /\ f.refs = k - 1 /\ f.linked = x.linked /\ f.cancelled = x.cancelled
       /\ f.expired = y /\ f.timeout = x.timeout /\ f.expire_ms = e /\ f.due = d
  BY <1>13, <1>14 DEF FreedAs
<1>. HIDE DEF x, h
<1>16. /\ Moves(U, w.timers, s) /\ Table(U) /\ U \in Seq(Entries)
       /\ (Holds(U, s) <=> h /\ ~over)
  <2>1. CASE over
    <3>1. Holds(w.timers, s)
      BY <1>6, <1>8, <2>1
    <3>. QED BY <1>1, <1>9, <2>1, <3>1, EraseMoves
  <2>2. CASE ~over
    BY <1>1, <1>6, <1>9, <2>2, StayMoves, TableDomain
  <2>. QED BY <2>1, <2>2
<1>17. /\ Moves(T, w.timers, s) /\ T \in Seq(Entries)
       /\ (Holds(T, s) <=> again \/ (h /\ ~over))
       /\ (x.cancelled \/ y \/ Filed(T, s, d))
  <2>1. CASE again
    <3>1. ~Holds(U, s) /\ T = Insert(U, expire, s) /\ expire \in Nat /\ d = expire
      BY <1>8, <1>9, <1>10, <1>16, <2>1
    <3>2. Moves(T, U, s) /\ Holds(T, s) /\ Filed(T, s, d) /\ Table(T) /\ T \in Seq(Entries)
      BY <1>2, <1>16, <3>1, InsertMoves
    <3>3. ASSUME NEW i \in DOMAIN T, T[i].source # s
          PROVE  \E j \in DOMAIN w.timers : T[i] = w.timers[j]
      <4>1. PICK l \in DOMAIN U : T[i] = U[l]
        BY <3>2, <3>3 DEF Moves
      <4>. QED BY <1>16, <3>3, <4>1 DEF Moves
    <3>4. Moves(T, w.timers, s)
      BY <1>16, <3>2, <3>3 DEF Moves
    <3>. QED BY <2>1, <3>2, <3>4
  <2>2. CASE ~again
    <3>1. T = U /\ y = x.expired /\ d = x.due
      BY <1>9, <2>2
    <3>2. Moves(T, w.timers, s) /\ T \in Seq(Entries) /\ (Holds(T, s) <=> h /\ ~over)
      BY <1>16, <3>1
    <3>3. x.cancelled \/ x.expired \/ Filed(w.timers, s, x.due)
      BY <1>1 DEF Timely, Filed, x
    <3>4. ~over => T = w.timers
      BY <1>9, <3>1
    <3>5. over => Filed(T, s, d)
      BY <3>2 DEF Filed, Holds
    <3>6. x.cancelled \/ y \/ Filed(T, s, d)
      BY <1>8, <3>1, <3>3, <3>4, <3>5
    <3>. QED BY <2>2, <3>2, <3>6
  <2>. QED BY <1>8, <2>1, <2>2
<1>. DEFINE i == Holds(T, s)
<1>18. (i <=> again \/ (h /\ ~over)) /\ i \in BOOLEAN
  BY <1>17 DEF Holds
<1>. HIDE DEF i
<1>19. ~In(r, s)
  BY <1>3, <1>4 DEF KeptAs
<1>20. s \in Fds => x.linked
  BY <1>4 DEF KeptAs, Registered, x, h
<1>21. KeptAs(f, i, p, r, u, s)
  <2>1. f.linked => s \in Fds
    BY <1>4, <1>15 DEF KeptAs
  <2>2. s \in Fds /\ i => f.linked
    BY <1>15, <1>20
  <2>3. ASSUME f.expired \/ i \/ f.timeout >= 0 PROVE f.expire_ms >= 0
    <3>1. CASE again
      BY <1>9, <1>10, <1>15, <3>1
    <3>2. CASE ~again
      <4>1. x.expired \/ h \/ x.timeout >= 0
        BY <1>9, <1>15, <1>18, <2>3, <3>2
      <4>2. x.expire_ms >= 0
        BY <1>4, <4>1 DEF KeptAs
      <4>. QED BY <1>9, <1>15, <3>2, <4>2
    <3>. QED BY <3>1, <3>2
  <2>4. f.refs = One(~In(r, s)) + One(f.linked) + One(i) + Count(p, s)
    <3>. DEFINE held == One(~In(r, s))
                linked == One(x.linked)
                before == One(h)
                after == One(i)
                less == One(over)
                more == One(again)
    <3>1. x.refs = held + linked + before + Count(q, s)
      BY <1>4 DEF KeptAs
    <3>2. /\ held \in {0, 1} /\ linked \in {0, 1} /\ before \in {0, 1} /\ after \in {0, 1}
          /\ less \in {0, 1} /\ more \in {0, 1}
      BY DEF One
    <3>3. /\ (h => before = 1) /\ (~h => before = 0) /\ (i => after = 1) /\ (~i => after = 0)
          /\ (over => less = 1) /\ (~over => less = 0) /\ (again => more = 1) /\ (~again => more = 0)
      BY DEF One
    <3>4. One(f.linked) = linked
      BY <1>15
    <3>5. k = x.refs - less + more
      BY <1>9
    <3>. HIDE DEF held, linked, before, after, less, more
    <3>6. after = before - less + more
      <4>1. CASE over
        <5>1. h /\ before = 1 /\ less = 1
          BY <1>8, <3>3, <4>1
        <5>2. i <=> again
          BY <1>18, <4>1
        <5>3. after = more
          BY <3>3, <5>2
        <5>. QED BY <3>2, <5>1, <5>3
      <4>2. CASE ~over /\ again
        <5>1. ~h /\ i
          BY <1>8, <1>18, <4>2
        <5>2. before = 0 /\ less = 0 /\ more = 1 /\ after = 1
          BY <3>3, <4>2, <5>1
        <5>. QED BY <5>2
      <4>3. CASE ~over /\ ~again
        <5>1. i <=> h
          BY <1>18, <4>3
        <5>2. less = 0 /\ more = 0 /\ after = before
          BY <3>3, <4>3, <5>1
        <5>. QED BY <3>2, <5>2
      <4>. QED BY <4>1, <4>2, <4>3
    <3>7. f.refs = k - 1
      BY <1>15
    <3>8. f.refs = held + linked + after + Count(p, s)
      BY <1>2, <1>5, <3>1, <3>2, <3>5, <3>6, <3>7
    <3>. QED BY <3>4, <3>8 DEF held, after
  <2>5. ASSUME In(p, s) PROVE s \in Fds /\ f.linked
    BY <1>2, <1>15, <1>20, <2>5
  <2>. QED BY <1>3, <1>19, <2>1, <2>2, <2>3, <2>4, <2>5 DEF KeptAs
<1>22. KeptAs(f, Holds(T, s), p, r, u, s)
  BY <1>21 DEF i
<1>23. f.cancelled \/ f.expired \/ Filed(T, s, f.due)
  BY <1>15, <1>17
<1>24. n + One(f.linked \/ Holds(T, s)) <= n + One(w.src[s].linked \/ Holds(w.timers, s))
  <2>1. w.src[s].linked \/ Holds(w.timers, s)
    BY DEF Registered, InMap, Holds
  <2>2. One(w.src[s].linked \/ Holds(w.timers, s)) = 1 /\ One(f.linked \/ Holds(T, s)) \in {0, 1}
    BY <2>1, OneType
  <2>. QED BY <1>5, <2>2
<1>25. Aside(r, r, s) /\ Aside(u, u, s)
  BY AsideSame
<1>26. Sound(Edited(w, s, f, T, n), p, r, u)
  BY <1>1, <1>2, <1>5, <1>15, <1>17, <1>22, <1>23, <1>24, <1>25, EditedSoundIn DEF n
<1>27. Released(Restarted(w, s, ret), s) = Edited(w, s, f, T, n)
  <2>. DEFINE v == Edited(w, s, g, T, n)
  <2>1. v \in Worlds /\ v.src[s] = g /\ v.timers = T /\ v.nsources = n
    BY <1>1, <1>2, <1>5, <1>13, <1>17, EditedShape
  <2>2. Released(v, s) = Edited(v, s, Freed(v.src[s]), v.timers, v.nsources)
    BY <1>2, <2>1, ReleasedEdited
  <2>. HIDE DEF v
  <2>3. Released(v, s) = Edited(v, s, f, T, n)
    BY <2>1, <2>2 DEF f
  <2>4. Edited(v, s, f, T, n) = Edited(w, s, f, T, n)
    BY <1>1, <1>2, <1>13, <1>15, EditedTwice DEF v
  <2>. QED BY <1>7, <2>3, <2>4 DEF v
<1>. QED BY <1>26, <1>27 DEF p

\* _do_later_cb
Unowned(x) == [x EXCEPT !.refs = x.refs - 1]

LEMMA RemovedFromMap ==
    ASSUME NEW w \in Worlds, NEW s \in Sources, ~w.src[s].linked, InMap(w, s)
    PROVE  remove_source(w, s)
              = Edited(w, s, Removed(w.src[s], 1), Erase(w.timers, s), w.nsources - 1)
BY DEF remove_source, Edited, Removed, Worlds

LEMMA TaskSound ==
    ASSUME NEW w, NEW q, NEW r, NEW u, Sound(w, q, r, u), q # <<>>,
           NEW s \in Tasks, s = Head(q), ~w.src[s].cancelled
    PROVE  Sound(Released(remove_source([w EXCEPT !.src[s].refs = @ - 1], s), s),
                 Tail(q), Append(r, s), u)
<1>. DEFINE x == w.src[s]
            z == Unowned(x)
            w1 == Edited(w, s, z, w.timers, w.nsources)
            y == Removed(z, 1)
            T == Erase(w.timers, s)
            n == w.nsources - 1
            w2 == Edited(w1, s, y, T, n)
            f == Freed(y)
            p == Tail(q)
            a == Append(r, s)
<1>1. /\ w \in Worlds /\ Table(w.timers) /\ q \in Seq(Sources) /\ r \in Seq(Tasks)
      /\ u \in Seq(Tasks) /\ Single(q) /\ \A i \in Sources : Kept(w, q, r, u, i)
  BY DEF Sound
<1>2. /\ p \in Seq(Sources) /\ s \in Sources /\ In(q, s) /\ Single(p) /\ Aside(p, q, s)
      /\ Count(q, s) = Count(p, s) + 1 /\ Count(p, s) \in Nat /\ (In(p, s) => s \in Fds)
  BY <1>1, TailSingle
<1>3. s \notin Fds
  BY Kinds
<1>4. KeptAs(x, InMap(w, s), q, r, u, s)
  BY <1>1, <1>2, KeptIff
<1>5. InMap(w, s) /\ ~x.linked /\ ~In(r, s) /\ In(u, s) /\ x.expired
  BY <1>2, <1>3, <1>4 DEF KeptAs
<1>6. /\ x \in States /\ w.timers \in Seq(Entries) /\ w.nsources \in Int
      /\ w.nsources \in Numbers /\ n \in Numbers /\ n = w.nsources - 1 /\ x.refs \in Int
  BY <1>1, <1>2, WorldShape DEF Numbers
<1>7. [w EXCEPT !.src[s].refs = @ - 1] = w1
  <2>1. [w EXCEPT !.src[s].refs = @ - 1] = [w EXCEPT !.src[s] = z]
    BY <1>1, <1>2 DEF Unowned, Worlds, States
  <2>. HIDE DEF z
  <2>2. [w EXCEPT !.src[s] = z] = Edited(w, s, z, w.timers, w.nsources)
    BY <1>1 DEF Edited, Worlds
  <2>. QED BY <2>1, <2>2
<1>8. /\ z \in States /\ z.refs = x.refs - 1 /\ z.linked = x.linked /\ z.expired = x.expired
      /\ z.expire_ms = x.expire_ms /\ z.timeout = x.timeout
  <2>. DEFINE k == x.refs - 1
  <2>1. k \in Numbers /\ z = [x EXCEPT !.refs = k]
    BY <1>6 DEF Numbers, Unowned
  <2>. HIDE DEF k, z
  <2>2. z \in States
    BY <1>6, <2>1 DEF States
  <2>3. /\ z.refs = k /\ z.linked = x.linked /\ z.expired = x.expired
        /\ z.expire_ms = x.expire_ms /\ z.timeout = x.timeout
    BY <1>6, <2>1 DEF States
  <2>. QED BY <2>2, <2>3 DEF k
<1>. HIDE DEF z
<1>9. w1 \in Worlds /\ w1.src[s] = z /\ w1.timers = w.timers /\ w1.nsources = w.nsources
  BY <1>1, <1>2, <1>6, <1>8, EditedShape
<1>. HIDE DEF w1
<1>10. InMap(w1, s) /\ ~w1.src[s].linked
  BY <1>5, <1>8, <1>9 DEF InMap
<1>11. remove_source(w1, s)
          = Edited(w1, s, Removed(w1.src[s], 1), Erase(w1.timers, s), w1.nsources - 1)
  BY <1>2, <1>9, <1>10, RemovedFromMap
<1>12. remove_source(w1, s) = w2
  BY <1>9, <1>11
<1>13. Holds(w.timers, s)
  BY <1>5 DEF InMap, Holds
<1>14. Moves(T, w.timers, s) /\ ~Holds(T, s) /\ T \in Seq(Entries)
  BY <1>1, <1>13, EraseMoves
<1>15. /\ y \in States /\ y.linked = FALSE /\ y.cancelled = TRUE /\ y.refs = z.refs - 1
       /\ y.expired = z.expired /\ y.timeout = z.timeout /\ y.expire_ms = z.expire_ms
  <2>1. z \in States /\ 1 \in Int
    BY <1>8
  <2>. QED BY ONLY <2>1, RemovedShape
<1>. HIDE DEF y, T, n
<1>16. w2 \in Worlds /\ w2.src[s] = y /\ w2.timers = T /\ w2.nsources = n
  BY <1>2, <1>6, <1>9, <1>14, <1>15, EditedShape
<1>. HIDE DEF f
<1>17. FreedAs(f, y)
  BY <1>15, FreedShape DEF f
<1>18. /\ f \in States /\ f.refs = y.refs - 1 /\ f.linked = y.linked /\ f.cancelled = y.cancelled
       /\ f.expired = y.expired /\ f.timeout = y.timeout /\ f.expire_ms = y.expire_ms
  BY <1>17 DEF FreedAs
<1>19. Released(w2, s) = Edited(w, s, f, T, n)
  <2>1. Released(w2, s) = Edited(w2, s, Freed(w2.src[s]), w2.timers, w2.nsources)
    BY <1>2, <1>16, ReleasedEdited
  <2>2. Released(w2, s) = Edited(w2, s, f, T, n)
    <3>. HIDE DEF w2
    <3>. QED BY <1>16, <2>1 DEF f
  <2>3. Edited(w2, s, f, T, n) = Edited(w1, s, f, T, n)
    BY <1>2, <1>9, <1>15, <1>18, EditedTwice
  <2>4. Edited(w1, s, f, T, n) = Edited(w, s, f, T, n)
    BY <1>1, <1>2, <1>8, <1>18, EditedTwice DEF w1
  <2>. HIDE DEF w2
  <2>. QED BY <2>2, <2>3, <2>4
<1>20. a \in Seq(Tasks) /\ \A i : In(a, i) <=> In(r, i) \/ i = s
  BY <1>1, InAppend
<1>21. Aside(a, r, s)
  <2>1. ASSUME NEW i \in Sources, i # s PROVE Count(a, i) = Count(r, i)
    BY <1>1, <2>1, CountAppend
  <2>. HIDE DEF a
  <2>. QED BY <1>20, <2>1 DEF Aside
<1>22. ~In(p, s) /\ Count(p, s) = 0
  BY <1>2, <1>3, CountFinite
<1>. HIDE DEF p, a, x
<1>23. KeptAs(f, Holds(T, s), p, a, u, s)
  <2>1. x.refs = 3
    <3>1. x.refs = One(~In(r, s)) + One(x.linked) + One(InMap(w, s)) + Count(q, s)
      BY <1>4 DEF KeptAs
    <3>2. One(~In(r, s)) = 1 /\ One(x.linked) = 0 /\ One(InMap(w, s)) = 1
      BY <1>5 DEF One
    <3>3. Count(q, s) = 1
      BY <1>2, <1>22
    <3>. QED BY <3>1, <3>2, <3>3
  <2>2. f.refs = 0
    BY <1>8, <1>15, <1>18, <2>1
  <2>3. One(~In(a, s)) = 0 /\ One(f.linked) = 0 /\ One(Holds(T, s)) = 0
    BY <1>14, <1>15, <1>18, <1>20 DEF One
  <2>4. f.refs = One(~In(a, s)) + One(f.linked) + One(Holds(T, s)) + Count(p, s)
    BY <1>22, <2>2, <2>3
  <2>5. x.expire_ms >= 0
    BY <1>4, <1>5 DEF KeptAs
  <2>6. f.expire_ms >= 0
    BY <1>8, <1>15, <1>18, <2>5
  <2>7. ~f.linked /\ f.cancelled
    BY <1>15, <1>18
  <2>. QED BY <1>3, <1>5, <1>14, <1>22, <2>4, <2>6, <2>7 DEF KeptAs
<1>24. Aside(u, u, s)
  BY AsideSame
<1>25. w.nsources + One(f.linked \/ Holds(T, s))
          <= n + One(w.src[s].linked \/ Holds(w.timers, s))
  <2>1. One(f.linked \/ Holds(T, s)) = 0 /\ One(w.src[s].linked \/ Holds(w.timers, s)) = 1
    BY <1>13, <1>14, <1>15, <1>18 DEF One
  <2>. QED BY <1>6, <2>1
<1>26. f.cancelled
  BY <1>15, <1>18
<1>27. Sound(Edited(w, s, f, T, n), p, a, u)
  BY <1>1, <1>2, <1>6, <1>14, <1>18, <1>20, <1>21, <1>23, <1>24, <1>25, <1>26, EditedSoundIn
<1>. QED BY <1>7, <1>12, <1>19, <1>27 DEF p, a

-----------------------------------------------------------------------------
(* Steps 2 and 3.                                                          *)

First(w, y) == {s \in Fds : w.src[s].linked /\ (w.src[s].cancelled \/ s \in y)}

Read(w, y, s) == IF s \in First(w, y) /\ ~w.src[s].cancelled THEN {"READ"} ELSE {}

Overdue(w) == {k \in DOMAIN w.timers : w.timers[k].key <= now}

IsLate(w, s) == \E k \in Overdue(w) : w.timers[k].source = s

Fresh(w, y) == {k \in Overdue(w) : Read(w, y, w.timers[k].source) = {}}

\* Reported for its timer alone
Timed(w, y, s) == IsLate(w, s) /\ Read(w, y, s) = {}

Reporting(w, y) ==
    [s \in Sources |-> [w.src[s] EXCEPT
        !.revents = Read(w, y, s) \cup (IF IsLate(w, s) THEN {"TIMEOUT"} ELSE {}),
        !.expired = w.src[s].expired \/ (IsLate(w, s) /\ Read(w, y, s) = {}),
        !.refs = w.src[s].refs + (IF s \in First(w, y) THEN 1 ELSE 0)
                   + (IF IsLate(w, s) /\ Read(w, y, s) = {} THEN 1 ELSE 0)]]

Reported(w, y) == [w EXCEPT !.src = Reporting(w, y)]

\* The states that follow w, each for its source
ReportedAs(v, w, y) ==
    /\ v \in Worlds /\ v.timers = w.timers /\ v.nsources = w.nsources
    /\ \A s \in Sources :
          /\ v.src[s].linked = w.src[s].linked /\ v.src[s].cancelled = w.src[s].cancelled
          /\ v.src[s].timeout = w.src[s].timeout /\ v.src[s].expire_ms = w.src[s].expire_ms
          /\ v.src[s].due = w.src[s].due
          /\ v.src[s].expired <=> w.src[s].expired \/ Timed(w, y, s)
          /\ v.src[s].refs = w.src[s].refs + One(s \in First(w, y)) + One(Timed(w, y, s))

Marked(x, e, b, k) == [x EXCEPT !.revents = e, !.expired = b, !.refs = k]

MarkedAs(g, x, e, b, k) ==
    /\ g \in States /\ g.expired = b /\ g.refs = k
    /\ g.linked = x.linked /\ g.cancelled = x.cancelled /\ g.timeout = x.timeout
    /\ g.expire_ms = x.expire_ms /\ g.due = x.due

LEMMA MarkedShape ==
    ASSUME NEW x \in States, NEW e \in Events, NEW b \in Flags, NEW k \in Numbers
    PROVE  MarkedAs(Marked(x, e, b, k), x, e, b, k)
<1>. DEFINE g == Marked(x, e, b, k)
<1>1. g \in States
  BY DEF Marked, States
<1>2. /\ g.expired = b /\ g.refs = k
      /\ g.linked = x.linked /\ g.cancelled = x.cancelled /\ g.timeout = x.timeout
      /\ g.expire_ms = x.expire_ms /\ g.due = x.due
  BY DEF Marked, States
<1>. QED BY <1>1, <1>2 DEF MarkedAs

LEMMA ReportedShape ==
    ASSUME NEW w \in Worlds, NEW y
    PROVE  ReportedAs(Reported(w, y), w, y)
<1>. DEFINE v == Reported(w, y)
            f == Reporting(w, y)
<1>1. ASSUME NEW s \in Sources
      PROVE  /\ f[s] \in States
             /\ f[s].linked = w.src[s].linked /\ f[s].cancelled = w.src[s].cancelled
             /\ f[s].timeout = w.src[s].timeout /\ f[s].expire_ms = w.src[s].expire_ms
             /\ f[s].due = w.src[s].due
             /\ f[s].expired <=> w.src[s].expired \/ Timed(w, y, s)
             /\ f[s].refs = w.src[s].refs + One(s \in First(w, y)) + One(Timed(w, y, s))
  <2>. DEFINE x == w.src[s]
              e == Read(w, y, s) \cup (IF IsLate(w, s) THEN {"TIMEOUT"} ELSE {})
              b == x.expired \/ (IsLate(w, s) /\ Read(w, y, s) = {})
              k == x.refs + (IF s \in First(w, y) THEN 1 ELSE 0)
                     + (IF IsLate(w, s) /\ Read(w, y, s) = {} THEN 1 ELSE 0)
  <2>1. x \in States /\ x.refs \in Int
    BY WorldShape
  <2>2. e \in Events
    BY DEF Events, Read
  <2>3. b \in Flags /\ (b <=> x.expired \/ Timed(w, y, s))
    BY DEF Flags, Timed
  <2>4. k = x.refs + One(s \in First(w, y)) + One(Timed(w, y, s))
    BY DEF One, Timed
  <2>5. k \in Numbers
    BY <2>1 DEF Numbers
  <2>6. f[s] = Marked(x, e, b, k)
    BY DEF Reporting, Marked
  <2>. HIDE DEF x, e, b, k, f
  <2>7. MarkedAs(Marked(x, e, b, k), x, e, b, k)
    BY <2>1, <2>2, <2>3, <2>5, MarkedShape
  <2>8. MarkedAs(f[s], x, e, b, k)
    BY <2>6, <2>7
  <2>9. /\ f[s] \in States /\ f[s].expired = b /\ f[s].refs = k
        /\ f[s].linked = x.linked /\ f[s].cancelled = x.cancelled /\ f[s].timeout = x.timeout
        /\ f[s].expire_ms = x.expire_ms /\ f[s].due = x.due
    BY <2>8 DEF MarkedAs
  <2>. QED BY <2>3, <2>4, <2>9 DEF x
<1>2. f \in [Sources -> States]
  <2>1. f = [s \in Sources |-> f[s]]
    BY DEF Reporting
  <2>. HIDE DEF f
  <2>. QED BY <1>1, <2>1
<1>3. v = [w EXCEPT !.src = f]
  BY DEF Reported
<1>. HIDE DEF f
<1>4. v \in Worlds /\ v.src = f /\ v.timers = w.timers /\ v.nsources = w.nsources
  BY <1>2, <1>3 DEF Worlds
<1>. HIDE DEF v
<1>5. \A s \in Sources :
          /\ v.src[s].linked = w.src[s].linked /\ v.src[s].cancelled = w.src[s].cancelled
          /\ v.src[s].timeout = w.src[s].timeout /\ v.src[s].expire_ms = w.src[s].expire_ms
          /\ v.src[s].due = w.src[s].due
          /\ v.src[s].expired <=> w.src[s].expired \/ Timed(w, y, s)
          /\ v.src[s].refs = w.src[s].refs + One(s \in First(w, y)) + One(Timed(w, y, s))
  BY <1>1, <1>4
<1>. QED BY <1>4, <1>5 DEF ReportedAs, v

\* The list of the late timers, without those reported already
LEMMA FreshList ==
    ASSUME NEW w \in Worlds, Table(w.timers), NEW y,
           NEW rest \in [1..Cardinality(Fresh(w, y)) -> Fresh(w, y)],
           \A i, j \in DOMAIN rest : i < j => rest[i] < rest[j],
           NEW t, t = [k \in DOMAIN rest |-> w.timers[rest[k]].source]
    PROVE  /\ t \in Seq(Sources)
           /\ \A i, j \in DOMAIN t : t[i] = t[j] => i = j
           /\ \A s : In(t, s) <=> Timed(w, y, s)
<1>. DEFINE F == Fresh(w, y)
            n == Cardinality(F)
            T == w.timers
<1>1. /\ Len(T) \in Nat /\ DOMAIN T = 1..Len(T) /\ IsFiniteSet(DOMAIN T)
      /\ \A k \in DOMAIN T : T[k].source \in Sources
  <2>1. /\ Len(T) \in Nat /\ DOMAIN T = 1..Len(T)
        /\ \A k \in DOMAIN T : T[k].source \in Sources
    BY TableDomain
  <2>2. IsFiniteSet(1..Len(T))
    BY <2>1, FS_Interval
  <2>. QED BY <2>1, <2>2
<1>2. F \in SUBSET (DOMAIN T) /\ F \subseteq Nat
  BY <1>1 DEF Fresh, Overdue
<1>3. IsFiniteSet(F)
  BY <1>1, <1>2, FS_Subset
<1>4. \A k \in F : Timed(w, y, T[k].source)
  BY DEF Fresh, Timed, IsLate
<1>5. ASSUME NEW s, Timed(w, y, s) PROVE \E k \in F : T[k].source = s
  <2>1. PICK k \in Overdue(w) : T[k].source = s
    BY <1>5 DEF Timed, IsLate
  <2>2. Read(w, y, T[k].source) = {}
    BY <1>5, <2>1 DEF Timed
  <2>. QED BY <2>1, <2>2 DEF Fresh
<1>. HIDE DEF F, T
<1>6. rest \in [1..n -> F] /\ n \in Nat /\ DOMAIN rest = 1..n
  BY <1>3, FS_CardinalityType DEF F
<1>7. ASSUME NEW i \in DOMAIN rest, NEW j \in DOMAIN rest, rest[i] = rest[j]
      PROVE  i = j
  <2>. HIDE DEF n
  <2>1. i \in 1..n /\ j \in 1..n /\ rest[i] \in F /\ rest[j] \in F
    BY <1>6
  <2>2. i \in Nat /\ j \in Nat /\ rest[i] \in Nat /\ rest[j] \in Nat
    BY <1>2, <1>6, <2>1
  <2>3. ~(i < j) /\ ~(j < i)
    BY <1>7, <2>2
  <2>. QED BY <2>2, <2>3
<1>8. \A x \in F : In(rest, x)
  BY <1>3, <1>6, <1>7, Numbering
<1>9. DOMAIN t = 1..n /\ \A k \in 1..n : rest[k] \in F /\ t[k] = T[rest[k]].source
  BY <1>6 DEF T
<1>10. \A k \in 1..n : rest[k] \in DOMAIN T /\ t[k] \in Sources
  BY <1>1, <1>2, <1>9
<1>11. t \in Seq(Sources)
  <2>1. t \in [1..n -> Sources]
    BY <1>6, <1>10
  <2>. QED BY <1>6, <2>1, SeqDef
<1>12. ASSUME NEW i \in DOMAIN t, NEW j \in DOMAIN t, t[i] = t[j] PROVE i = j
  <2>1. rest[i] = rest[j]
    BY <1>9, <1>10, <1>12 DEF Table, T
  <2>. QED BY <1>6, <1>7, <1>9, <2>1
<1>13. ASSUME NEW s PROVE In(t, s) <=> Timed(w, y, s)
  <2>1. ASSUME In(t, s) PROVE Timed(w, y, s)
    <3>1. PICK k \in DOMAIN t : t[k] = s
      BY <2>1 DEF In
    <3>. QED BY <1>4, <1>9, <3>1
  <2>2. ASSUME Timed(w, y, s) PROVE In(t, s)
    <3>1. PICK k \in F : T[k].source = s
      BY <1>5, <2>2
    <3>2. PICK i \in DOMAIN rest : rest[i] = k
      BY <1>8 DEF In
    <3>3. i \in DOMAIN t /\ t[i] = s
      BY <1>6, <1>9, <3>1, <3>2
    <3>. QED BY <3>3 DEF In
  <2>. QED BY <2>1, <2>2
<1>. QED BY <1>11, <1>12, <1>13

LEMMA CollectSound ==
    ASSUME NEW w, NEW r, NEW u, Sound(w, <<>>, r, u), NEW y,
           NEW order \in [1..Cardinality(First(w, y)) -> First(w, y)],
           \A i, j \in DOMAIN order : order[i] = order[j] => i = j,
           NEW rest \in [1..Cardinality(Fresh(w, y)) -> Fresh(w, y)],
           \A i, j \in DOMAIN rest : i < j => rest[i] < rest[j],
           NEW q, q = order \o [k \in DOMAIN rest |-> w.timers[rest[k]].source]
    PROVE  Sound(Reported(w, y), q, r, u)
<1>. DEFINE F == First(w, y)
            t == [k \in DOMAIN rest |-> w.timers[rest[k]].source]
            v == Reported(w, y)
<1>1. /\ w \in Worlds /\ Table(w.timers) /\ r \in Seq(Tasks) /\ u \in Seq(Tasks)
      /\ Timely(w) /\ Cardinality(Members(w)) <= w.nsources
      /\ \A s \in Sources : Kept(w, <<>>, r, u, s)
  BY DEF Sound
<1>2. ReportedAs(v, w, y)
  BY <1>1, ReportedShape
<1>3. F \in SUBSET Fds /\ IsFiniteSet(F)
  <2>1. F \in SUBSET Fds
    BY DEF First
  <2>. QED BY <2>1, FinitelyMany, FS_Subset
<1>4. F \subseteq Sources
  BY <1>3, Kinds
<1>5. \A s \in F : w.src[s].linked
  BY DEF First
<1>6. /\ t \in Seq(Sources)
      /\ \A i, j \in DOMAIN t : t[i] = t[j] => i = j
      /\ \A s : In(t, s) <=> Timed(w, y, s)
  BY <1>1, FreshList
<1>. HIDE DEF F
<1>7. /\ order \in Seq(F) /\ Len(order) = Cardinality(F) /\ Len(order) \in Nat
      /\ DOMAIN order = 1..Len(order)
      /\ \A x \in F : In(order, x)
  <2>1. /\ order \in [1..Cardinality(F) -> F]
        /\ \A i, j \in DOMAIN order : order[i] = order[j] => i = j
    BY DEF F
  <2>2. /\ Cardinality(F) \in Nat /\ order \in Seq(F) /\ Len(order) = Cardinality(F)
        /\ DOMAIN order = 1..Cardinality(F)
        /\ \A x \in F : In(order, x)
    BY ONLY <1>3, <2>1, Numbering
  <2>. QED BY <2>2
<1>8. \A k \in DOMAIN order : order[k] \in F
  BY DEF F
<1>9. order \in Seq(Sources)
  BY <1>4, <1>7, <1>8, SeqDef
<1>10. \A s : In(order, s) <=> s \in F
  BY <1>7, <1>8 DEF In
<1>. HIDE DEF t, v
<1>11. q = order \o t
  BY DEF t
<1>12. \A s : /\ Count(q, s) = Count(order, s) + Count(t, s)
              /\ In(q, s) <=> In(order, s) \/ In(t, s)
  <2>1. \A s : /\ Count(order \o t, s) = Count(order, s) + Count(t, s)
               /\ In(order \o t, s) <=> In(order, s) \/ In(t, s)
    BY ONLY <1>6, <1>9, CountConcat
  <2>. QED BY ONLY <1>11, <2>1
<1>13. \A s : Count(order, s) = One(In(order, s)) /\ Count(t, s) = One(In(t, s))
  BY <1>6, <1>9, CountOnce
<1>14. \A s : Count(q, s) = One(s \in F) + One(Timed(w, y, s))
  BY <1>6, <1>10, <1>12, <1>13 DEF One
<1>15. \A s : In(q, s) <=> s \in F \/ Timed(w, y, s)
  BY <1>6, <1>10, <1>12
<1>16. q \in Seq(Sources) /\ Single(q)
  <2>1. /\ q \in Seq(Sources) /\ Len(q) = Len(order) + Len(t)
        /\ \A k \in 1..(Len(order) + Len(t)) :
              q[k] = IF k <= Len(order) THEN order[k] ELSE t[k - Len(order)]
    <3>1. /\ order \o t \in Seq(Sources) /\ Len(order \o t) = Len(order) + Len(t)
          /\ \A k \in 1..(Len(order) + Len(t)) :
                (order \o t)[k] = IF k <= Len(order) THEN order[k] ELSE t[k - Len(order)]
      BY ONLY <1>6, <1>9, ConcatProperties
    <3>. QED BY ONLY <1>11, <3>1
  <2>2. Len(t) \in Nat /\ DOMAIN t = 1..Len(t) /\ DOMAIN q = 1..(Len(order) + Len(t))
    BY <1>6, <2>1, LenProperties
  <2>3. ASSUME NEW k \in DOMAIN q, NEW l \in DOMAIN q, q[k] = q[l], k # l
        PROVE  q[k] \in Fds
    <3>1. CASE k <= Len(order)
      <4>1. k \in DOMAIN order /\ q[k] = order[k]
        BY <1>7, <2>1, <2>2, <3>1
      <4>. QED BY <1>3, <1>8, <4>1
    <3>2. CASE l <= Len(order)
      <4>1. l \in DOMAIN order /\ q[l] = order[l]
        BY <1>7, <2>1, <2>2, <3>2
      <4>. QED BY <1>3, <1>8, <2>3, <4>1
    <3>3. CASE ~(k <= Len(order)) /\ ~(l <= Len(order))
      <4>1. /\ k - Len(order) \in DOMAIN t /\ l - Len(order) \in DOMAIN t
            /\ k - Len(order) # l - Len(order)
        <5>1. /\ k \in 1..(Len(order) + Len(t)) /\ l \in 1..(Len(order) + Len(t)) /\ k # l
              /\ Len(order) \in Nat
          BY <1>7, <2>2, <2>3
        <5>. QED BY ONLY <2>2, <3>3, <5>1
      <4>2. q[k] = t[k - Len(order)] /\ q[l] = t[l - Len(order)]
        BY <2>1, <2>2, <3>3
      <4>. QED BY <1>6, <2>3, <4>1, <4>2
    <3>. QED BY <3>1, <3>2, <3>3
  <2>. QED BY <2>1, <2>3 DEF Single
<1>17. /\ v \in Worlds /\ v.timers = w.timers /\ v.nsources = w.nsources
       /\ \A s : InMap(v, s) <=> InMap(w, s)
       /\ \A s \in Sources : v.src[s].linked = w.src[s].linked
  BY <1>2 DEF ReportedAs, InMap
<1>18. Members(v) = Members(w)
  BY <1>17 DEF Members, Registered
<1>19. Timely(v)
  <2>1. ASSUME NEW k \in DOMAIN v.timers
        PROVE  LET x == v.src[v.timers[k].source]
               IN x.cancelled \/ x.expired \/ v.timers[k].key = x.due
    <3>1. k \in DOMAIN w.timers /\ v.timers[k] = w.timers[k] /\ w.timers[k].source \in Sources
      BY <1>1, <1>17, TableDomain
    <3>2. LET x == w.src[w.timers[k].source]
          IN x.cancelled \/ x.expired \/ w.timers[k].key = x.due
      BY <1>1, <3>1 DEF Timely
    <3>. DEFINE s == w.timers[k].source
    <3>3. /\ v.src[s].cancelled = w.src[s].cancelled /\ v.src[s].due = w.src[s].due
          /\ (w.src[s].expired => v.src[s].expired)
      BY <1>2, <3>1 DEF ReportedAs
    <3>. QED BY <3>1, <3>2, <3>3
  <2>. QED BY <2>1 DEF Timely
<1>20. ASSUME NEW s \in Sources PROVE Kept(v, q, r, u, s)
  <2>. DEFINE x == w.src[s]
              g == v.src[s]
              h == InMap(w, s)
              late == Timed(w, y, s)
  <2>1. KeptAs(x, h, <<>>, r, u, s)
    BY <1>1, KeptIff
  <2>2. /\ g.linked = x.linked /\ g.cancelled = x.cancelled /\ g.timeout = x.timeout
        /\ g.expire_ms = x.expire_ms
        /\ (g.expired <=> x.expired \/ late)
        /\ g.refs = x.refs + One(s \in F) + One(late)
    BY <1>2 DEF ReportedAs, F
  <2>3. late => h
    BY DEF Timed, IsLate, Overdue, InMap
  <2>4. Count(<<>>, s) = 0 /\ ~In(<<>>, s)
    <3>1. <<>> \in Seq(Sources) /\ ~In(<<>>, s)
      BY DEF In
    <3>. QED BY <3>1, CountFinite
  <2>5. (s \in F => s \in Fds /\ x.linked) /\ (s \in Tasks => s \notin Fds)
    BY <1>3, <1>5, Kinds
  <2>6. In(q, s) <=> s \in F \/ late
    BY <1>15
  <2>7. Count(q, s) = One(s \in F) + One(late)
    BY <1>14
  <2>8. x.refs = One(~In(r, s)) + One(x.linked) + One(h) + 0
    BY <2>1, <2>4 DEF KeptAs
  <2>. HIDE DEF x, g, h, late
  <2>9. g.refs = One(~In(r, s)) + One(g.linked) + One(h) + Count(q, s)
    <3>. DEFINE a == One(~In(r, s))
                b == One(x.linked)
                c == One(h)
                d == One(s \in F)
                e == One(late)
    <3>1. a \in {0, 1} /\ b \in {0, 1} /\ c \in {0, 1} /\ d \in {0, 1} /\ e \in {0, 1}
      BY DEF One
    <3>2. One(g.linked) = b /\ x.refs = a + b + c + 0 /\ g.refs = x.refs + d + e /\ Count(q, s) = d + e
      BY <2>2, <2>7, <2>8
    <3>. HIDE DEF a, b, c, d, e
    <3>3. g.refs = a + b + c + Count(q, s)
      BY <3>1, <3>2
    <3>. QED BY <3>2, <3>3 DEF a, c
  <2>10. g.linked => s \in Fds
    BY <2>1, <2>2 DEF KeptAs
  <2>11. s \in Fds /\ h => g.linked
    BY <2>1, <2>2 DEF KeptAs
  <2>12. g.expired \/ h \/ g.timeout >= 0 => g.expire_ms >= 0
    BY <2>1, <2>2, <2>3 DEF KeptAs
  <2>13. In(q, s) /\ s \in Fds => g.linked
    BY <2>2, <2>3, <2>5, <2>6, <2>11
  <2>14. In(q, s) /\ s \notin Fds => g.expired /\ h
    BY <2>2, <2>3, <2>5, <2>6
  <2>15. In(r, s) => s \in Tasks /\ In(u, s) /\ g.cancelled /\ ~g.linked /\ ~h
    BY <2>1, <2>2 DEF KeptAs
  <2>16. s \in Tasks /\ ~In(u, s) => ~g.linked /\ ~h /\ ~In(q, s)
    BY <2>1, <2>2, <2>3, <2>5, <2>6 DEF KeptAs
  <2>17. KeptAs(g, h, q, r, u, s)
    BY <2>9, <2>10, <2>11, <2>12, <2>13, <2>14, <2>15, <2>16 DEF KeptAs
  <2>18. InMap(v, s) = h
    BY <1>17 DEF h, InMap
  <2>19. KeptAs(v.src[s], InMap(v, s), q, r, u, s)
    BY <2>17, <2>18 DEF g
  <2>. QED BY <2>19, KeptIff
<1>. QED BY <1>1, <1>16, <1>17, <1>18, <1>19, <1>20 DEF Sound, v

-----------------------------------------------------------------------------
(* The start.                                                              *)

LEMMA ShortestType == Shortest \in Nat
<1>1. Timeouts \subseteq Nat /\ Timeouts # {}
  BY TimeAssumption
<1>2. \E v \in Timeouts : \A u \in Timeouts : v <= u
  BY <1>1, Least
<1>3. Shortest \in Timeouts
  BY <1>2 DEF Shortest
<1>. QED BY <1>1, <1>3

StartState(s) ==
    [linked |-> s \in Fds, cancelled |-> FALSE, expired |-> FALSE,
     revents |-> {},
     timeout |-> CASE s \in Tasks -> 0
                   [] s \in Fds -> Disabled
                   [] s \in Timers -> Shortest,
     expire_ms |-> IF s \in Timers THEN Shortest ELSE 0,
     refs |-> IF s \in App THEN 2 ELSE 1,
     due |-> IF s \in Timers THEN Shortest ELSE Disabled]

LEMMA StartShape ==
    ASSUME NEW s \in Sources
    PROVE  LET x == StartState(s)
           IN /\ x \in States /\ (x.linked <=> s \in Fds) /\ ~x.expired
              /\ x.expire_ms >= 0 /\ x.refs = (IF s \in App THEN 2 ELSE 1)
              /\ (s \in Timers => x.due = Shortest)
<1>. DEFINE x == StartState(s)
            l == s \in Fds
            no == FALSE
            t == CASE s \in Tasks -> 0
                   [] s \in Fds -> Disabled
                   [] s \in Timers -> Shortest
            none == {}
            e == IF s \in Timers THEN Shortest ELSE 0
            k == IF s \in App THEN 2 ELSE 1
            d == IF s \in Timers THEN Shortest ELSE Disabled
<1>1. s \in Tasks \/ s \in Fds \/ s \in Timers
  BY DEF Sources, App
<1>2. t = 0 \/ t = Disabled \/ t = Shortest
  BY <1>1
<1>3. /\ t \in Numbers /\ e \in Numbers /\ e >= 0 /\ k \in Numbers /\ d \in Numbers
      /\ (s \in Timers => d = Shortest)
  <2>. HIDE DEF t
  <2>. QED BY <1>2, ShortestType DEF Numbers, Disabled
<1>4. l \in Flags /\ no \in Flags /\ none \in Events
  BY DEF Flags, Events
<1>5. x = [linked |-> l, cancelled |-> no, expired |-> no, revents |-> none,
           timeout |-> t, expire_ms |-> e, refs |-> k, due |-> d]
  BY DEF StartState
<1>6. k = IF s \in App THEN 2 ELSE 1
  OBVIOUS
<1>. HIDE DEF l, no, t, none, e, k, d, x
<1>7. x \in States
  BY <1>3, <1>4, <1>5 DEF States
<1>8. x.linked = l /\ x.expired = no /\ x.expire_ms = e /\ x.refs = k /\ x.due = d
  BY <1>5
<1>9. (x.linked <=> s \in Fds) /\ ~x.expired
  BY <1>8 DEF l, no
<1>. QED BY <1>3, <1>6, <1>7, <1>8, <1>9 DEF x

LEMMA StartSound ==
    ASSUME NEW order \in [1..Cardinality(Timers) -> Timers],
           \A i, j \in DOMAIN order : order[i] = order[j] => i = j,
           NEW w, w = [src |-> [s \in Sources |-> StartState(s)],
                       timers |-> [k \in DOMAIN order |-> [key |-> Shortest, source |-> order[k]]],
                       nsources |-> Cardinality(App)]
    PROVE  Sound(w, <<>>, <<>>, <<>>)
<1>. DEFINE T == w.timers
            n == Cardinality(Timers)
<1>1. IsFiniteSet(Timers) /\ Timers \subseteq Sources /\ Timers \subseteq App
  BY SourcesAssumption, Kinds
<1>2. /\ n \in Nat /\ DOMAIN order = 1..n /\ \A x \in Timers : In(order, x)
  BY <1>1, Numbering
<1>3. /\ T = [k \in DOMAIN order |-> [key |-> Shortest, source |-> order[k]]]
      /\ w.nsources = Cardinality(App)
      /\ w.src = [s \in Sources |-> StartState(s)]
  OBVIOUS
<1>4. DOMAIN T = 1..n /\ \A k \in 1..n : T[k] = [key |-> Shortest, source |-> order[k]]
  BY <1>2, <1>3
<1>5. \A s \in Sources : w.src[s] = StartState(s)
  BY <1>3
<1>. HIDE DEF T
<1>6. \A k \in 1..n : order[k] \in Timers /\ T[k].key = Shortest /\ T[k].source = order[k]
  BY <1>2, <1>4
<1>7. \A k \in 1..n : T[k] \in Entries
  BY <1>1, <1>2, <1>4, <1>6, ShortestType DEF Entries
<1>8. T \in Seq(Entries)
  <2>1. T \in [1..n -> Entries]
    BY <1>2, <1>3, <1>4, <1>7
  <2>. QED BY <1>2, <2>1, SeqDef
<1>9. Table(T)
  <2>1. ASSUME NEW k \in DOMAIN T, NEW l \in DOMAIN T PROVE T[k].key <= T[l].key
    BY <1>4, <1>6, ShortestType
  <2>2. ASSUME NEW k \in DOMAIN T, NEW l \in DOMAIN T, T[k].source = T[l].source PROVE k = l
    BY <1>2, <1>4, <1>6, <2>2
  <2>. QED BY <1>8, <2>1, <2>2 DEF Table
<1>10. \A s : InMap(w, s) <=> s \in Timers
  <2>1. ASSUME NEW s, InMap(w, s) PROVE s \in Timers
    BY <1>4, <1>6, <2>1 DEF InMap, T
  <2>2. ASSUME NEW s \in Timers PROVE InMap(w, s)
    <3>1. PICK k \in DOMAIN order : order[k] = s
      BY <1>2 DEF In
    <3>2. k \in DOMAIN T /\ T[k].source = s
      BY <1>2, <1>4, <1>6, <3>1
    <3>. QED BY <3>2 DEF InMap, T
  <2>. QED BY <2>1, <2>2
<1>11. Cardinality(App) \in Nat
  BY FinitelyMany, FS_CardinalityType
<1>12. w \in Worlds
  <2>. DEFINE f == [s \in Sources |-> StartState(s)]
              c == Cardinality(App)
  <2>1. f \in [Sources -> States]
    BY StartShape
  <2>2. c \in Numbers
    BY <1>11 DEF Numbers
  <2>3. w = [src |-> f, timers |-> T, nsources |-> c]
    BY <1>3
  <2>. HIDE DEF f, c
  <2>. QED BY ONLY <1>8, <2>1, <2>2, <2>3 DEF Worlds
<1>13. <<>> \in Seq(Sources) /\ <<>> \in Seq(Tasks) /\ Single(<<>>)
  BY DEF Single
<1>14. \A s : ~In(<<>>, s) /\ Count(<<>>, s) = 0
  <2>1. \A s : ~In(<<>>, s)
    BY DEF In
  <2>. QED BY <1>13, <2>1, CountFinite
<1>15. Timely(w)
  <2>1. ASSUME NEW k \in DOMAIN w.timers
        PROVE  w.timers[k].key = w.src[w.timers[k].source].due
    <3>1. k \in 1..n /\ T[k].source \in Timers /\ T[k].key = Shortest
      BY <1>4, <1>6 DEF T
    <3>2. w.src[T[k].source].due = Shortest
      BY <1>1, <1>5, <3>1, StartShape
    <3>. QED BY <3>1, <3>2 DEF T
  <2>. QED BY <2>1 DEF Timely
<1>16. ASSUME NEW s \in Sources PROVE Kept(w, <<>>, <<>>, <<>>, s)
  <2>. DEFINE g == w.src[s]
              h == InMap(w, s)
  <2>1. /\ (g.linked <=> s \in Fds) /\ ~g.expired /\ g.expire_ms >= 0
        /\ g.refs = (IF s \in App THEN 2 ELSE 1)
    BY <1>5, StartShape
  <2>2. h <=> s \in Timers
    BY <1>10
  <2>3. /\ (s \in Timers => s \notin Fds /\ s \in App) /\ (s \in Fds => s \in App)
        /\ (s \in App => s \in Timers \/ s \in Fds)
        /\ (s \in Tasks => s \notin Timers /\ s \notin Fds)
    BY SourcesAssumption DEF App
  <2>4. ~In(<<>>, s) /\ Count(<<>>, s) = 0
    BY <1>14
  <2>. HIDE DEF g, h
  <2>5. One(~In(<<>>, s)) = 1
    BY <2>4 DEF One
  <2>6. g.refs = 1 + One(g.linked) + One(h) + 0
    <3>1. CASE s \in Fds
      BY <2>1, <2>2, <2>3, <3>1 DEF One
    <3>2. CASE s \in Timers
      BY <2>1, <2>2, <2>3, <3>2 DEF One
    <3>3. CASE s \notin App
      BY <2>1, <2>2, <2>3, <3>3 DEF One
    <3>. QED BY <2>3, <3>1, <3>2, <3>3
  <2>7. g.refs = One(~In(<<>>, s)) + One(g.linked) + One(h) + Count(<<>>, s)
    BY <2>4, <2>5, <2>6
  <2>8. KeptAs(g, h, <<>>, <<>>, <<>>, s)
    BY <2>1, <2>2, <2>3, <2>4, <2>7 DEF KeptAs
  <2>. QED BY <2>8, KeptIff DEF g, h
<1>17. Cardinality(Members(w)) <= w.nsources
  <2>1. \A s \in Sources : Registered(w, s) <=> s \in App
    BY <1>5, <1>10, StartShape DEF Registered, App
  <2>2. Members(w) = App
    BY <2>1, Kinds DEF Members
  <2>. QED BY <1>3, <1>11, <2>2
<1>. QED BY <1>9, <1>12, <1>13, <1>15, <1>16, <1>17 DEF Sound, T

LEMMA InitEstablishes == Init => IInv
<1>. SUFFICES ASSUME Init PROVE IInv
  OBVIOUS
<1>1. PICK order \in [1..Cardinality(Timers) -> Timers] :
          /\ \A i, j \in DOMAIN order : order[i] = order[j] => i = j
          /\ m = [src |-> [s \in Sources |->
                     [linked |-> s \in Fds, cancelled |-> FALSE, expired |-> FALSE,
                      revents |-> {},
                      timeout |-> CASE s \in Tasks -> 0
                                    [] s \in Fds -> Disabled
                                    [] s \in Timers -> Shortest,
                      expire_ms |-> IF s \in Timers THEN Shortest ELSE 0,
                      refs |-> IF s \in App THEN 2 ELSE 1,
                      due |-> IF s \in Timers THEN Shortest ELSE Disabled]],
                  timers |-> [k \in DOMAIN order |-> [key |-> Shortest, source |-> order[k]]],
                  nsources |-> Cardinality(App)]
  BY DEF Init
<1>2. m = [src |-> [s \in Sources |-> StartState(s)],
           timers |-> [k \in DOMAIN order |-> [key |-> Shortest, source |-> order[k]]],
           nsources |-> Cardinality(App)]
  BY <1>1 DEF StartState
<1>3. Sound(m, <<>>, <<>>, <<>>)
  BY <1>1, <1>2, StartSound
<1>4. /\ now = 0 /\ cur = 0 /\ pc = "allocate" /\ run = TRUE
      /\ room = 0 /\ polled = {} /\ wakeup = Disabled /\ ready = {} /\ woken = FALSE
      /\ readable = {} /\ pipe = FALSE
      /\ to_be_notified = <<>> /\ submitted = <<>> /\ ran = <<>>
  BY DEF Init
<1>5. Sound(m, to_be_notified, ran, submitted)
  BY <1>3, <1>4
<1>6. now \in 0..MaxTime /\ cur \in 0..MaxTime
  BY <1>4, BoundAssumption
<1>7. pc \in Steps /\ ~At("prepare") /\ ~At("poll") /\ (pc # "notify" => to_be_notified = <<>>)
  BY <1>4 DEF Steps, At
<1>8. /\ run \in BOOLEAN /\ pipe \in BOOLEAN /\ woken \in BOOLEAN
      /\ polled \subseteq Fds /\ ready \subseteq Fds /\ readable \subseteq Fds
      /\ wakeup \in Nat \cup {Disabled} /\ room \in Nat
  BY <1>4
<1>. QED BY <1>5, <1>6, <1>7, <1>8 DEF IInv

-----------------------------------------------------------------------------
(* One lemma per action.                                                   *)

\* What IInv says of the clock, the descriptors and the control pipe
Around ==
    /\ now \in 0..MaxTime /\ cur \in 0..MaxTime
    /\ pc \in Steps /\ run \in BOOLEAN /\ pipe \in BOOLEAN /\ woken \in BOOLEAN
    /\ polled \subseteq Fds /\ ready \subseteq Fds /\ readable \subseteq Fds
    /\ wakeup \in Nat \cup {Disabled} /\ room \in Nat

\* What it says of an iteration that is about to poll
Polling ==
    /\ pc # "notify" => to_be_notified = <<>>
    /\ At("prepare") => Cardinality(Linked) <= room
    /\ At("poll") => Cardinality(polled) <= room
    /\ At("poll") /\ ~pipe =>
          \A k \in DOMAIN m.timers : wakeup # Disabled /\ wakeup <= m.timers[k].key

LEMMA Parts == IInv <=> Sound(m, to_be_notified, ran, submitted) /\ Around /\ Polling
BY DEF IInv, Around, Polling

LEMMA Clock == Around => now \in Nat /\ cur \in Nat
BY BoundAssumption DEF Around

LEMMA LinkedFit ==
    ASSUME Sound(m, to_be_notified, ran, submitted)
    PROVE  /\ m.nsources \in Nat /\ Cardinality(Linked) <= m.nsources
           /\ Cardinality(Linked) \in Nat /\ IsFiniteSet(Linked)
<1>1. Linked \in SUBSET Members(m) /\ Members(m) \in SUBSET Sources
  BY Kinds DEF Linked, Members, Registered
<1>2. IsFiniteSet(Members(m))
  BY <1>1, FinitelyMany, FS_Subset
<1>3. IsFiniteSet(Linked) /\ Cardinality(Linked) <= Cardinality(Members(m))
  BY <1>1, <1>2, FS_Subset
<1>4. Cardinality(Linked) \in Nat /\ Cardinality(Members(m)) \in Nat
  BY <1>2, <1>3, FS_CardinalityType
<1>5. m.nsources \in Int /\ Cardinality(Members(m)) <= m.nsources
  BY DEF Sound, Worlds, Numbers
<1>. QED BY <1>3, <1>4, <1>5

LEMMA AllocateKeeps == IInv /\ Allocate => IInv'
<1>. SUFFICES ASSUME IInv, Allocate PROVE IInv'
  OBVIOUS
<1>1. Sound(m, to_be_notified, ran, submitted) /\ Around /\ Polling
  BY Parts
<1>2. /\ pc = "allocate" /\ pc' = "prepare" /\ room' = m.nsources
      /\ m' = m /\ to_be_notified' = to_be_notified /\ ran' = ran /\ submitted' = submitted
      /\ now' = now /\ cur' = cur /\ run' = run /\ pipe' = pipe /\ woken' = woken
      /\ polled' = polled /\ ready' = ready /\ readable' = readable /\ wakeup' = wakeup
  BY DEF Allocate, At, env
<1>3. m.nsources \in Nat /\ Cardinality(Linked) <= m.nsources
  BY <1>1, LinkedFit
<1>4. Linked' = Linked
  BY <1>2 DEF Linked
<1>5. Around'
  BY <1>1, <1>2, <1>3 DEF Around, Steps
<1>6. Polling'
  BY <1>1, <1>2, <1>3, <1>4 DEF Polling, At
<1>7. Sound(m, to_be_notified, ran, submitted)'
  BY <1>1, <1>2
<1>. QED BY <1>5, <1>6, <1>7 DEF IInv, Around, Polling

LEMMA PrepareKeeps == IInv /\ Prepare => IInv'
<1>. SUFFICES ASSUME IInv, Prepare PROVE IInv'
  OBVIOUS
<1>1. Sound(m, to_be_notified, ran, submitted) /\ Around /\ Polling
  BY Parts
<1>2. /\ pc = "prepare" /\ pc' = "poll"
      /\ polled' = {s \in Fds : m.src[s].linked /\ ~m.src[s].cancelled}
      /\ wakeup' = IF m.timers = <<>> THEN Disabled ELSE Head(m.timers).key
      /\ m' = m /\ to_be_notified' = to_be_notified /\ ran' = ran /\ submitted' = submitted
      /\ now' = now /\ cur' = cur /\ run' = run /\ pipe' = pipe /\ woken' = woken
      /\ room' = room /\ ready' = ready /\ readable' = readable
  BY DEF Prepare, At, env
<1>3. Table(m.timers)
  BY <1>1 DEF Sound
<1>. DEFINE T == m.timers
<1>4. /\ Len(T) \in Nat /\ DOMAIN T = 1..Len(T) /\ T \in Seq(Entries)
      /\ \A k \in DOMAIN T : T[k].key \in Nat
  BY <1>3, TableDomain
<1>5. /\ wakeup' \in Nat \cup {Disabled}
      /\ \A k \in DOMAIN T : wakeup' # Disabled /\ wakeup' <= T[k].key
  <2>1. CASE T = <<>>
    <3>1. wakeup' = Disabled /\ DOMAIN T = {}
      BY <1>2, <2>1
    <3>. QED BY <3>1
  <2>2. CASE T # <<>>
    <3>1. 1 \in DOMAIN T /\ Head(T) = T[1]
      BY <1>4, <2>2, EmptySeq, HeadTailProperties
    <3>2. wakeup' = T[1].key
      BY <1>2, <2>2, <3>1
    <3>3. ASSUME NEW k \in DOMAIN T PROVE T[1].key <= T[k].key
      <4>1. CASE k = 1
        BY <1>4, <3>1, <4>1
      <4>2. CASE k # 1
        <5>1. 1 < k
          BY <1>4, <4>2
        <5>. QED BY <1>3, <3>1, <5>1 DEF Table
      <4>. QED BY <4>1, <4>2
    <3>4. wakeup' \in Nat /\ wakeup' # Disabled
      BY <1>4, <3>1, <3>2 DEF Disabled
    <3>. QED BY <3>2, <3>3, <3>4
  <2>. QED BY <2>1, <2>2
<1>6. Cardinality(polled') <= room
  <2>1. polled' \in SUBSET Linked
    BY <1>2 DEF Linked
  <2>2. IsFiniteSet(Linked) /\ Cardinality(Linked) \in Nat /\ Cardinality(Linked) <= room
    BY <1>1, <1>2, LinkedFit DEF Polling, At
  <2>3. Cardinality(polled') <= Cardinality(Linked) /\ IsFiniteSet(polled')
    BY <2>1, <2>2, FS_Subset
  <2>4. Cardinality(polled') \in Nat /\ room \in Nat
    BY <1>1, <2>3, FS_CardinalityType DEF Around
  <2>. QED BY <2>2, <2>3, <2>4
<1>7. Around'
  <2>1. polled' \subseteq Fds
    BY <1>2
  <2>. QED BY <1>1, <1>2, <1>5, <2>1 DEF Around, Steps
<1>8. Polling'
  BY <1>1, <1>2, <1>5, <1>6 DEF Polling, At
<1>9. Sound(m, to_be_notified, ran, submitted)'
  BY <1>1, <1>2
<1>. QED BY <1>7, <1>8, <1>9 DEF IInv, Around, Polling

LEMMA PollKeeps == IInv /\ (Poll \/ PollInterrupted) => IInv'
<1>. SUFFICES ASSUME IInv, Poll \/ PollInterrupted PROVE IInv'
  OBVIOUS
<1>1. Sound(m, to_be_notified, ran, submitted) /\ Around /\ Polling
  BY Parts
<1>2. /\ pc = "poll" /\ pc' \in {"clear", "allocate", "out"}
      /\ m' = m /\ to_be_notified' = to_be_notified /\ ran' = ran /\ submitted' = submitted
      /\ now' = now /\ cur' = cur /\ run' = run /\ pipe' = pipe /\ readable' = readable
      /\ room' = 0 /\ polled' = {} /\ wakeup' = Disabled
  BY DEF Poll, PollInterrupted, PollOver, Again, At, env
<1>3. (ready' = polled \cap readable \/ ready' = ready) /\ (woken' = pipe \/ woken' = woken)
  BY DEF Poll, PollInterrupted
<1>4. Around'
  BY <1>1, <1>2, <1>3 DEF Around, Steps
<1>5. Polling'
  BY <1>1, <1>2 DEF Polling, At
<1>6. Sound(m, to_be_notified, ran, submitted)'
  BY <1>1, <1>2
<1>. QED BY <1>4, <1>5, <1>6 DEF IInv, Around, Polling

LEMMA ClearPipeKeeps == IInv /\ ClearPipe => IInv'
<1>. SUFFICES ASSUME IInv, ClearPipe PROVE IInv'
  OBVIOUS
<1>1. Sound(m, to_be_notified, ran, submitted) /\ Around /\ Polling
  BY Parts
<1>2. /\ pc = "clear" /\ pc' = "collect"
      /\ m' = m /\ to_be_notified' = to_be_notified /\ ran' = ran /\ submitted' = submitted
      /\ now' = now /\ cur' = cur /\ run' = run /\ ready' = ready /\ readable' = readable
      /\ room' = room /\ polled' = polled /\ wakeup' = wakeup
  BY DEF ClearPipe, At
<1>3. pipe' \in BOOLEAN /\ woken' \in BOOLEAN
  BY DEF ClearPipe
<1>4. Around'
  BY <1>1, <1>2, <1>3 DEF Around, Steps
<1>5. Polling'
  BY <1>1, <1>2 DEF Polling, At
<1>6. Sound(m, to_be_notified, ran, submitted)'
  BY <1>1, <1>2
<1>. QED BY <1>4, <1>5, <1>6 DEF IInv, Around, Polling

LEMMA CollectKeeps == IInv /\ Collect => IInv'
<1>. SUFFICES ASSUME IInv, Collect PROVE IInv'
  OBVIOUS
<1>1. Sound(m, to_be_notified, ran, submitted) /\ Around /\ Polling
  BY Parts
<1>2. /\ pc = "collect" /\ pc' = "notify" /\ cur' = now /\ ready' = {}
      /\ ran' = ran /\ submitted' = submitted
      /\ now' = now /\ run' = run /\ readable' = readable /\ pipe' = pipe /\ woken' = woken
      /\ room' = room /\ polled' = polled /\ wakeup' = wakeup
  BY DEF Collect, At, env
<1>3. to_be_notified = <<>>
  BY <1>1, <1>2 DEF Polling
<1>4. /\ \E order \in [1..Cardinality(First(m, ready)) -> First(m, ready)],
            rest \in [1..Cardinality(Fresh(m, ready)) -> Fresh(m, ready)] :
            /\ \A i, j \in DOMAIN order : order[i] = order[j] => i = j
            /\ \A i, j \in DOMAIN rest : i < j => rest[i] < rest[j]
            /\ to_be_notified' = order \o [k \in DOMAIN rest |-> m.timers[rest[k]].source]
      /\ m' = Reported(m, ready)
  BY Zenon DEF Collect, Reported, Reporting, First, Fresh, Overdue, Read, IsLate
<1>5. PICK order \in [1..Cardinality(First(m, ready)) -> First(m, ready)],
           rest \in [1..Cardinality(Fresh(m, ready)) -> Fresh(m, ready)] :
            /\ \A i, j \in DOMAIN order : order[i] = order[j] => i = j
            /\ \A i, j \in DOMAIN rest : i < j => rest[i] < rest[j]
            /\ to_be_notified' = order \o [k \in DOMAIN rest |-> m.timers[rest[k]].source]
  BY <1>4
<1>6. Sound(m, <<>>, ran, submitted)
  BY <1>1, <1>3
<1>. DEFINE q == order \o [k \in DOMAIN rest |-> m.timers[rest[k]].source]
<1>7. Sound(Reported(m, ready), q, ran, submitted)
  BY <1>5, <1>6, CollectSound
<1>8. Sound(m, to_be_notified, ran, submitted)'
  <2>1. to_be_notified' = q
    BY <1>5
  <2>. HIDE DEF q
  <2>. QED BY <1>2, <1>4, <1>7, <2>1
<1>9. Around'
  BY <1>1, <1>2 DEF Around, Steps
<1>10. Polling'
  BY <1>2 DEF Polling, At
<1>. QED BY <1>8, <1>9, <1>10 DEF IInv, Around, Polling

\* What Skip, Notify and RunTask share
LEMMA NotifyNextKeeps ==
    ASSUME IInv, NotifyNext, run' = run, readable' \subseteq readable
    PROVE  /\ Around' /\ Polling' /\ to_be_notified # <<>>
           /\ to_be_notified' = Tail(to_be_notified) /\ submitted' = submitted
<1>1. Around
  BY Parts
<1>2. /\ pc = "notify" /\ pc' = pc /\ cur' = cur /\ ready' = ready
      /\ to_be_notified # <<>> /\ to_be_notified' = Tail(to_be_notified)
      /\ submitted' = submitted /\ now' = now /\ pipe' = pipe /\ woken' = woken
      /\ room' = room /\ polled' = polled /\ wakeup' = wakeup
  BY DEF NotifyNext, At
<1>3. Around'
  BY <1>1, <1>2 DEF Around, Steps
<1>4. Polling'
  BY <1>2 DEF Polling, At
<1>. QED BY <1>2, <1>3, <1>4

LEMMA SkipKeeps == IInv /\ Skip => IInv'
<1>. SUFFICES ASSUME IInv, Skip PROVE IInv'
  OBVIOUS
<1>. DEFINE q == to_be_notified
            s == Head(to_be_notified)
<1>1. Sound(m, q, ran, submitted)
  BY Parts
<1>2. NotifyNext /\ m' = Released(remove_source(m, s), s) /\ run' = run /\ readable' = readable /\ ran' = ran
  BY DEF Skip
<1>3. Around' /\ Polling' /\ q # <<>> /\ to_be_notified' = Tail(q) /\ submitted' = submitted
  BY <1>2, NotifyNextKeeps
<1>4. s \in Sources
  BY <1>1, <1>3, TailSingle DEF Sound
<1>5. Sound(remove_source(m, s), q, ran, submitted)
  BY <1>1, <1>4, RemoveSound
<1>6. Sound(Released(remove_source(m, s), s), Tail(q), ran, submitted)
  BY <1>3, <1>5, ReleasedSound
<1>7. Sound(m, to_be_notified, ran, submitted)'
  BY <1>2, <1>3, <1>6
<1>. QED BY <1>3, <1>7 DEF IInv, Around, Polling

LEMMA NotifyKeeps == IInv /\ Notify => IInv'
<1>. SUFFICES ASSUME IInv, Notify PROVE IInv'
  OBVIOUS
<1>. DEFINE q == to_be_notified
            s == Head(to_be_notified)
<1>1. Sound(m, q, ran, submitted) /\ now \in Nat /\ cur \in Nat
  BY Parts, Clock
<1>2. /\ NotifyNext /\ run' = run /\ readable' = readable \ {s} /\ ran' = ran /\ s \in App
      /\ \E w \in Changes(m) \cup {m}, ret \in {"STOP", "CONTINUE", "WITHOUT_CATCHUP"} :
            /\ ~Registered(w, s) => ret = "STOP"
            /\ m' = Released(IF ret = "STOP" THEN remove_source(w, s)
                             ELSE Restarted(w, s, ret), s)
  BY DEF Notify
<1>3. PICK w \in Changes(m) \cup {m}, ret \in {"STOP", "CONTINUE", "WITHOUT_CATCHUP"} :
            /\ ~Registered(w, s) => ret = "STOP"
            /\ m' = Released(IF ret = "STOP" THEN remove_source(w, s)
                             ELSE Restarted(w, s, ret), s)
  BY <1>2
<1>4. Around' /\ Polling' /\ q # <<>> /\ to_be_notified' = Tail(q) /\ submitted' = submitted
  <2>1. readable' \subseteq readable
    BY <1>2
  <2>. QED BY <1>2, <2>1, NotifyNextKeeps
<1>5. Sound(w, q, ran, submitted)
  BY <1>1, ChangesSound
<1>6. s \in Sources
  BY <1>2, Kinds
<1>7. CASE ret = "STOP"
  <2>1. m' = Released(remove_source(w, s), s)
    BY <1>3, <1>7
  <2>2. Sound(remove_source(w, s), q, ran, submitted)
    BY <1>5, <1>6, RemoveSound
  <2>3. Sound(Released(remove_source(w, s), s), Tail(q), ran, submitted)
    BY <1>4, <2>2, ReleasedSound
  <2>4. Sound(m, to_be_notified, ran, submitted)'
    BY <1>2, <1>4, <2>1, <2>3
  <2>. QED BY <1>4, <2>4 DEF IInv, Around, Polling
<1>8. CASE ret # "STOP"
  <2>1. m' = Released(Restarted(w, s, ret), s) /\ Registered(w, s)
    BY <1>3, <1>8
  <2>2. Sound(Released(Restarted(w, s, ret), s), Tail(q), ran, submitted)
    BY <1>1, <1>2, <1>4, <1>5, <2>1, RestartedSound
  <2>3. Sound(m, to_be_notified, ran, submitted)'
    BY <1>2, <1>4, <2>1, <2>2
  <2>. QED BY <1>4, <2>3 DEF IInv, Around, Polling
<1>. QED BY <1>7, <1>8

LEMMA RunTaskKeeps == IInv /\ RunTask => IInv'
<1>. SUFFICES ASSUME IInv, RunTask PROVE IInv'
  OBVIOUS
<1>. DEFINE q == to_be_notified
            s == Head(to_be_notified)
<1>1. Sound(m, q, ran, submitted) /\ now \in Nat
  BY Parts, Clock
<1>2. /\ NotifyNext /\ run' = run /\ readable' = readable /\ ran' = Append(ran, s)
      /\ s \in Tasks /\ ~m.src[s].cancelled
      /\ \E w \in Changes(m) \cup {m} :
            m' = Released(remove_source([w EXCEPT !.src[s].refs = @ - 1], s), s)
  BY DEF RunTask
<1>3. PICK w \in Changes(m) \cup {m} :
            m' = Released(remove_source([w EXCEPT !.src[s].refs = @ - 1], s), s)
  BY <1>2
<1>4. Around' /\ Polling' /\ q # <<>> /\ to_be_notified' = Tail(q) /\ submitted' = submitted
  BY <1>2, NotifyNextKeeps
<1>5. Sound(w, q, ran, submitted) /\ w.src[s] = m.src[s]
  BY <1>1, <1>2, ChangesSound
<1>6. Sound(Released(remove_source([w EXCEPT !.src[s].refs = @ - 1], s), s),
            Tail(q), Append(ran, s), submitted)
  BY <1>2, <1>4, <1>5, TaskSound
<1>7. Sound(m, to_be_notified, ran, submitted)'
  BY <1>2, <1>3, <1>4, <1>6
<1>. QED BY <1>4, <1>7 DEF IInv, Around, Polling

LEMMA IterationEndsKeeps == IInv /\ IterationEnds => IInv'
<1>. SUFFICES ASSUME IInv, IterationEnds PROVE IInv'
  OBVIOUS
<1>1. Sound(m, to_be_notified, ran, submitted) /\ Around /\ Polling
  BY Parts
<1>2. /\ pc = "notify" /\ to_be_notified = <<>> /\ pc' \in {"allocate", "out"} /\ cur' = 0
      /\ m' = m /\ to_be_notified' = to_be_notified /\ ran' = ran /\ submitted' = submitted
      /\ now' = now /\ run' = run /\ pipe' = pipe /\ readable' = readable
      /\ room' = room /\ polled' = polled /\ wakeup' = wakeup /\ ready' = ready /\ woken' = woken
  BY DEF IterationEnds, Again, At, env
<1>3. Around'
  BY <1>1, <1>2, BoundAssumption DEF Around, Steps
<1>4. Polling'
  BY <1>2 DEF Polling, At
<1>5. Sound(m, to_be_notified, ran, submitted)'
  BY <1>1, <1>2
<1>. QED BY <1>3, <1>4, <1>5 DEF IInv, Around, Polling

\* A task that is handed over after Step 1 leaves its byte in the pipe: poll
\* returns at once.  It takes no place in the poll table.
LEMMA DoLaterKeeps ==
    ASSUME IInv, NEW s \in Tasks, do_later(s)
    PROVE  IInv'
<1>1. Sound(m, to_be_notified, ran, submitted) /\ Around /\ Polling /\ now \in Nat
  BY Parts, Clock
<1>2. /\ m' = add_source(m, s) /\ submitted' = Append(submitted, s)
      /\ (pipe' = TRUE \/ (pc = "notify" /\ pipe' = pipe))
      /\ now' = now /\ cur' = cur /\ pc' = pc /\ run' = run /\ room' = room
      /\ polled' = polled /\ wakeup' = wakeup /\ ready' = ready /\ readable' = readable
      /\ woken' = woken /\ to_be_notified' = to_be_notified /\ ran' = ran
  BY DEF do_later, At
<1>3. ~In(submitted, s)
  BY DEF do_later, In
<1>4. s \in Sources /\ s \notin Fds
  BY Kinds
<1>5. submitted \in Seq(Tasks) /\ Kept(m, to_be_notified, ran, submitted, s)
  BY <1>1, <1>4 DEF Sound
<1>6. ~Registered(m, s)
  BY <1>3, <1>5 DEF Kept
<1>7. Append(submitted, s) \in Seq(Tasks) /\ In(Append(submitted, s), s)
  BY <1>5, InAppend
<1>8. Aside(Append(submitted, s), submitted, s)
  BY <1>5, InAppend, CountAppend DEF Aside
<1>9. Sound(add_source(m, s), to_be_notified, ran, Append(submitted, s)) /\ Beside(add_source(m, s), m, s)
  BY <1>1, <1>3, <1>4, <1>6, <1>7, <1>8, AddSound
<1>10. Sound(m, to_be_notified, ran, submitted)'
  BY <1>2, <1>9
<1>11. Linked' = Linked
  <2>1. \A x \in Fds : x \in Sources /\ x # s
    BY <1>4, Kinds
  <2>2. \A x \in Fds : m'.src[x] = m.src[x]
    BY <1>2, <1>9, <2>1 DEF Beside
  <2>. QED BY <2>2 DEF Linked
<1>12. Around'
  BY <1>1, <1>2 DEF Around
<1>13. Polling'
  BY <1>1, <1>2, <1>11 DEF Polling, At
<1>. QED BY <1>10, <1>12, <1>13 DEF IInv, Around, Polling

LEMMA EnvironmentKeeps ==
    ASSUME IInv, Quit \/ Tick \/ \E s \in Fds : DataArrives(s)
    PROVE  IInv'
<1>1. Sound(m, to_be_notified, ran, submitted) /\ Around /\ Polling
  BY Parts
<1>2. /\ m' = m /\ to_be_notified' = to_be_notified /\ ran' = ran /\ submitted' = submitted
      /\ cur' = cur /\ pc' = pc /\ room' = room /\ polled' = polled /\ wakeup' = wakeup
      /\ ready' = ready /\ woken' = woken
  BY DEF Quit, Tick, DataArrives
<1>3. /\ pipe' = TRUE \/ pipe' = pipe
      /\ run' = FALSE \/ run' = run
      /\ readable' \subseteq Fds
      /\ now' \in 0..MaxTime
  BY <1>1, BoundAssumption DEF Quit, Tick, DataArrives, Around
<1>4. Around'
  BY <1>1, <1>2, <1>3 DEF Around
<1>5. Linked' = Linked
  BY <1>2 DEF Linked
<1>6. Polling'
  BY <1>1, <1>2, <1>3, <1>5 DEF Polling, At
<1>7. Sound(m, to_be_notified, ran, submitted)'
  BY <1>1, <1>2
<1>. QED BY <1>4, <1>6, <1>7 DEF IInv, Around, Polling

LEMMA Inductive == IInv /\ [Next]_vars => IInv'
<1>. SUFFICES ASSUME IInv, [Next]_vars PROVE IInv'
  OBVIOUS
<1>1. CASE LoopStep
  BY <1>1, AllocateKeeps, PrepareKeeps, PollKeeps, ClearPipeKeeps, CollectKeeps, SkipKeeps,
     NotifyKeeps, RunTaskKeeps, IterationEndsKeeps DEF LoopStep
<1>2. CASE PollInterrupted
  BY <1>2, PollKeeps
<1>3. CASE Quit \/ Tick \/ \E s \in Fds : DataArrives(s)
  BY <1>3, EnvironmentKeeps
<1>4. CASE \E s \in Tasks : do_later(s)
  BY <1>4, DoLaterKeeps
<1>5. CASE UNCHANGED vars
  BY <1>5 DEF vars, IInv, At, Linked
<1>. QED BY <1>1, <1>2, <1>3, <1>4, <1>5 DEF Next

LEMMA Invariance == Spec => []IInv
BY InitEstablishes, Inductive, PTL DEF Spec

-----------------------------------------------------------------------------
(* What IInv says.                                                         *)

LEMMA RefsFollow == IInv => RefsBalanced /\ \A s \in Sources : m.src[s].refs \in Nat
<1>. SUFFICES ASSUME IInv, NEW s \in Sources
              PROVE  /\ m.src[s].refs \in Nat
                     /\ m.src[s].refs = (IF Count(ran, s) = 0 THEN 1 ELSE 0)
                          + (IF m.src[s].linked THEN 1 ELSE 0)
                          + (IF InMap(m, s) THEN 1 ELSE 0)
                          + Count(to_be_notified, s)
  BY DEF RefsBalanced
<1>1. Sound(m, to_be_notified, ran, submitted)
  BY Parts
<1>2. /\ Kept(m, to_be_notified, ran, submitted, s)
      /\ ran \in Seq(Tasks) /\ to_be_notified \in Seq(Sources)
  BY <1>1 DEF Sound
<1>3. (Count(ran, s) = 0 <=> ~In(ran, s)) /\ Count(to_be_notified, s) \in Nat
  BY <1>2, CountFinite
<1>4. m.src[s].refs = One(~In(ran, s)) + One(m.src[s].linked) + One(InMap(m, s))
                        + Count(to_be_notified, s)
  BY <1>2 DEF Kept
<1>5. /\ One(~In(ran, s)) = (IF Count(ran, s) = 0 THEN 1 ELSE 0)
      /\ One(m.src[s].linked) = (IF m.src[s].linked THEN 1 ELSE 0)
      /\ One(InMap(m, s)) = (IF InMap(m, s) THEN 1 ELSE 0)
  BY <1>3 DEF One
<1>6. m.src[s].refs = (IF Count(ran, s) = 0 THEN 1 ELSE 0)
                          + (IF m.src[s].linked THEN 1 ELSE 0)
                          + (IF InMap(m, s) THEN 1 ELSE 0)
                          + Count(to_be_notified, s)
  BY <1>4, <1>5
<1>. QED BY <1>3, <1>6

\* The variables of the main loop always have their types.  That no source
\* has a negative number of references rests on their balance.
THEOREM TypeCorrect == Spec => []TypeOK
<1>1. IInv => TypeOK
  <2>. SUFFICES ASSUME IInv PROVE TypeOK
    OBVIOUS
  <2>1. Sound(m, to_be_notified, ran, submitted) /\ Around /\ Polling
    BY Parts
  <2>2. /\ m \in Worlds /\ to_be_notified \in Seq(Sources)
        /\ submitted \in Seq(Tasks) /\ ran \in Seq(Tasks)
    BY <2>1 DEF Sound
  <2>3. m.src \in [Sources -> States] /\ m.timers \in Seq([key : Nat, source : Sources])
    BY <2>2 DEF Worlds, Entries
  <2>4. m.nsources \in Nat
    BY <2>1, LinkedFit
  <2>5. ASSUME NEW s \in Sources PROVE m.src[s] \in SourceStates
    <3>1. m.src[s] \in States /\ m.src[s].refs \in Nat
      BY <2>3, RefsFollow
    <3>. QED BY <3>1 DEF States, SourceStates, Flags, Numbers, Events
  <2>6. m.src \in [Sources -> SourceStates]
    BY <2>3, <2>5
  <2>. QED BY <2>1, <2>2, <2>3, <2>4, <2>6 DEF TypeOK, Around
<1>. QED BY <1>1, Invariance, PTL

\* belle_sip_object_ref and unref are balanced whatever the callbacks do to the
\* sources, and a callback is only called for a source that is in the loop:
\* no interleaving of cancel, remove_source, add_source and set_timeout within
\* an iteration leaks a source, frees it while a list holds it or notifies it
\* after its removal.
THEOREM SourceSafety == Spec => []SourcesSound
<1>1. IInv => SourcesSound
  <2>. SUFFICES ASSUME IInv PROVE SourcesSound
    OBVIOUS
  <2>1. RefsBalanced
    BY RefsFollow
  <2>2. ASSUME At("notify"), to_be_notified # <<>>
        PROVE  LET s == Head(to_be_notified) IN m.src[s].cancelled \/ Registered(m, s)
    <3>. DEFINE s == Head(to_be_notified)
    <3>1. Sound(m, to_be_notified, ran, submitted)
      BY Parts
    <3>2. s \in Sources /\ In(to_be_notified, s)
      BY <2>2, <3>1, TailSingle DEF Sound
    <3>3. Kept(m, to_be_notified, ran, submitted, s)
      BY <3>1, <3>2 DEF Sound
    <3>. HIDE DEF s
    <3>4. m.src[s].cancelled \/ Registered(m, s)
      BY <3>2, <3>3 DEF Kept, Registered
    <3>. QED BY <3>4 DEF s
  <2>3. NotifiedIsRegistered
    BY <2>2 DEF NotifiedIsRegistered
  <2>. QED BY <2>1, <2>3 DEF SourcesSound
<1>. QED BY <1>1, Invariance, PTL

\* The poll table that belle_sip_main_loop_iterate allocates without the mutex
\* is never too small, although other threads add sources before Step 1: what
\* they add has no descriptor, and nsources never counts too few.
THEOREM PollTableSafety == Spec => []PollTableFits
<1>1. IInv => PollTableFits
  BY DEF IInv, PollTableFits
<1>. QED BY <1>1, Invariance, PTL

\* While the loop waits in poll and the control pipe is empty, poll returns in
\* time for every timer and every task, at the deadline that was asked for last.
THEOREM WakeupSafety == Spec => []NoLostWakeup
<1>1. IInv => NoLostWakeup
  BY DEF IInv, NoLostWakeup, Sound, Timely
<1>. QED BY <1>1, Invariance, PTL
=============================================================================
