------------------------- MODULE CatNativeProofs -------------------------
(* Proofs about CatNative for every number of applications, descriptors and   *)
(* commands, as long as they fit (Room).                                      *)
EXTENDS CatNative, SequenceTheorems, FiniteSetTheorems, TLAPS

-----------------------------------------------------------------------------
(* Sets of numbers and the arrays of the decoder. *)

LEMMA LeastFacts ==
  ASSUME NEW S \in SUBSET Nat, S # {}
  PROVE  Least(S) \in S /\ \A j \in S : Least(S) <= j
<1>1. PICK x \in S : \A y \in S : <<y, x>> \notin OpToRel(<, Nat)
  BY NatLessThanWellFounded, WFMin, Zenon
<1>2. \A y \in S : x <= y
  <2>1. \A y \in S : ~(y < x)
    BY <1>1 DEF OpToRel
  <2> QED BY <2>1
<1> QED BY <1>2, Zenon DEF Least

\* Entries K of the array p move to q, in their order: pos says where to.
Moves(pos, K, p, q) ==
  /\ K \subseteq DOMAIN p
  /\ pos \in [K -> DOMAIN q]
  /\ \A i, j \in K : i < j => pos[i] < pos[j]
  /\ \A n \in DOMAIN q : \E k \in K : pos[k] = n
  /\ \A k \in K : q[pos[k]] = p[k] /\ pos[k] <= k

Rank(K, k) == Cardinality({j \in K : j <= k})

LEMMA RankFacts ==
  ASSUME NEW n \in Nat, NEW K \in SUBSET (1..n)
  PROVE  /\ Cardinality(K) \in Nat /\ Cardinality(K) <= n
         /\ \A k \in K : Rank(K, k) \in 1..Cardinality(K) /\ Rank(K, k) <= k
         /\ \A i, j \in K : i < j => Rank(K, i) < Rank(K, j)
         /\ \A m \in 1..Cardinality(K) : \E k \in K : Rank(K, k) = m
<1> DEFINE Up(k) == {j \in K : j <= k}
<1>1. IsFiniteSet(1..n) /\ Cardinality(1..n) = n
  BY FS_Interval
<1>0. \A k \in K : k \in 1..n
  OBVIOUS
<1>2. IsFiniteSet(K) /\ Cardinality(K) \in Nat /\ Cardinality(K) <= n
  BY <1>1, FS_Subset, FS_CardinalityType
<1>3. \A k \in K : IsFiniteSet(Up(k)) /\ Cardinality(Up(k)) \in Nat
  BY <1>2, FS_Subset, FS_CardinalityType
<1>4. ASSUME NEW k \in K
      PROVE  Rank(K, k) \in 1..Cardinality(K) /\ Rank(K, k) <= k
  <2>1. Cardinality(Up(k)) <= Cardinality(K)
    BY <1>2, FS_Subset
  <2>2. Up(k) \subseteq 1..k /\ k \in Nat
    <3>1. k \in Nat /\ \A j \in K : j \in Nat /\ 1 <= j
      BY <1>0
    <3>2. \A j \in Up(k) : j \in 1..k
      BY <3>1
    <3> QED BY <3>1, <3>2
  <2>3. IsFiniteSet(1..k) /\ Cardinality(1..k) = k
    BY <2>2, FS_Interval
  <2>4. Cardinality(Up(k)) <= k
    BY <2>2, <2>3, FS_Subset
  <2>5. Cardinality(Up(k)) # 0
    <3>1. k \in Up(k)
      BY <1>0
    <3> QED BY <3>1, <1>3, FS_EmptySet
  <2> QED BY <1>2, <1>3, <2>1, <2>4, <2>5 DEF Rank
<1>5. ASSUME NEW i \in K, NEW j \in K, i < j
      PROVE  Rank(K, i) < Rank(K, j)
  <2>1. Up(i) \subseteq Up(j) /\ j \in Up(j) /\ j \notin Up(i)
    <3>1. \A k \in K : k <= i => k <= j
      BY <1>0, <1>5
    <3>2. j <= j /\ ~(j <= i)
      BY <1>0, <1>5
    <3> QED BY <3>1, <3>2
  <2>2. Cardinality(Up(i)) <= Cardinality(Up(j)) /\ Cardinality(Up(i)) # Cardinality(Up(j))
    BY <1>3, <2>1, FS_Subset
  <2> QED BY <1>3, <2>2 DEF Rank
<1>6. ASSUME NEW m \in 1..Cardinality(K)
      PROVE  \E k \in K : Rank(K, k) = m
  <2> SUFFICES ASSUME \A k \in K : Rank(K, k) # m
               PROVE  FALSE
    OBVIOUS
  <2> DEFINE T == (1..Cardinality(K)) \ {m}
             f == [k \in K |-> Rank(K, k)]
  <2>1. f \in [K -> T]
    BY <1>4
  <2>2. IsFiniteSet(1..Cardinality(K)) /\ Cardinality(1..Cardinality(K)) = Cardinality(K)
    BY <1>2, FS_Interval
  <2>3. IsFiniteSet(T) /\ Cardinality(T) = Cardinality(K) - 1
    <3>1. PICK S : S = 1..Cardinality(K)
      OBVIOUS
    <3>2. T = S \ {m} /\ m \in S
      BY <3>1
    <3> HIDE DEF T, f
    <3>3. IsFiniteSet(S) /\ Cardinality(S) = Cardinality(K)
      BY <2>2, <3>1, Zenon
    <3>4. IsFiniteSet(S \ {m}) /\ Cardinality(S \ {m}) = Cardinality(S) - 1
      BY <3>2, <3>3, FS_RemoveElement, ZenonT(40)
    <3> QED BY <3>2, <3>3, <3>4, Zenon
  <2>4. PICK x \in K, y \in K : x # y /\ f[x] = f[y]
    <3> HIDE DEF T, f
    <3>1. Cardinality(T) < Cardinality(K)
      BY <1>2, <2>3
    <3> QED BY <1>2, <2>1, <2>3, <3>1, FS_PigeonHole, Zenon
  <2>5. x \in Int /\ y \in Int /\ (x < y \/ y < x)
    BY <1>0, <2>4
  <2>6. Rank(K, x) \in Int /\ Rank(K, y) \in Int /\ Rank(K, x) = Rank(K, y)
    BY <1>4, <2>4
  <2> QED BY <1>5, <2>5, <2>6
<1> QED BY <1>2, <1>4, <1>5, <1>6

LEMMA KeepFacts ==
  ASSUME NEW S, NEW p \in Seq(S), NEW K \in SUBSET (1..Len(p))
  PROVE  /\ Keep(p, K) \in Seq(S)
         /\ Len(Keep(p, K)) = Cardinality(K) /\ Len(Keep(p, K)) <= Len(p)
         /\ \E pos : Moves(pos, K, p, Keep(p, K))
<1> DEFINE q == Keep(p, K)
           at(n) == CHOOSE k \in K : Cardinality({j \in K : j <= k}) = n
           pos == [k \in K |-> Rank(K, k)]
<1>1. Len(p) \in Nat /\ DOMAIN p = 1..Len(p) /\ \A k \in 1..Len(p) : p[k] \in S
  OBVIOUS
<1>2. /\ Cardinality(K) \in Nat /\ Cardinality(K) <= Len(p)
      /\ \A k \in K : Rank(K, k) \in 1..Cardinality(K) /\ Rank(K, k) <= k
      /\ \A i, j \in K : i < j => Rank(K, i) < Rank(K, j)
      /\ \A m \in 1..Cardinality(K) : \E k \in K : Rank(K, k) = m
  BY <1>1, RankFacts
<1>3. \A m \in 1..Cardinality(K) : at(m) \in K /\ Rank(K, at(m)) = m
  <2> TAKE m \in 1..Cardinality(K)
  <2>1. \E k \in K : Cardinality({j \in K : j <= k}) = m
    BY <1>2, Zenon DEF Rank
  <2>2. at(m) \in K /\ Cardinality({j \in K : j <= at(m)}) = m
    BY <2>1, Zenon
  <2> QED BY <2>2, Zenon DEF Rank
<1>4. q = [m \in 1..Cardinality(K) |-> p[at(m)]]
  BY Zenon DEF Keep
<1> HIDE DEF at, q
<1>5. \A m \in 1..Cardinality(K) : p[at(m)] \in S
  BY <1>1, <1>3
<1>6. q \in Seq(S) /\ Len(q) = Cardinality(K) /\ DOMAIN q = 1..Cardinality(K)
  BY <1>2, <1>4, <1>5
<1>7. \A k \in K : at(Rank(K, k)) = k
  <2> TAKE k \in K
  <2>1. PICK x \in K : x = at(Rank(K, k)) /\ Rank(K, x) = Rank(K, k)
    BY <1>2, <1>3
  <2>2. \A i, j \in K : i < j \/ j < i \/ i = j
    BY <1>1
  <2>3. Rank(K, k) \in Int
    BY <1>2
  <2> QED BY <1>2, <2>1, <2>2, <2>3
<1>8. Moves(pos, K, p, q)
  <2>1. pos \in [K -> DOMAIN q] /\ \A k \in K : pos[k] = Rank(K, k)
    BY <1>2, <1>6
  <2>2. \A k \in K : q[pos[k]] = p[k]
    BY <1>2, <1>4, <1>7, <2>1
  <2> HIDE DEF pos
  <2> QED BY <1>1, <1>2, <1>6, <2>1, <2>2 DEF Moves
<1>9. \E w : Moves(w, K, p, q)
  BY <1>8
<1> QED BY <1>2, <1>6, <1>9 DEF q

\* The head of an array goes, the others move up.
LEMMA TailMoves ==
  ASSUME NEW S, NEW p \in Seq(S), p # <<>>
  PROVE  /\ Tail(p) \in Seq(S) /\ Len(Tail(p)) = Len(p) - 1 /\ Len(p) \in Nat \ {0}
         /\ \A k \in 1..Len(Tail(p)) : Tail(p)[k] = p[k + 1]
         /\ Moves([k \in 2..Len(p) |-> k - 1], 2..Len(p), p, Tail(p))
<1>1. /\ Tail(p) \in Seq(S) /\ Len(Tail(p)) = Len(p) - 1 /\ Len(p) \in Nat \ {0}
      /\ \A k \in 1..Len(Tail(p)) : Tail(p)[k] = p[k + 1]
      /\ DOMAIN p = 1..Len(p) /\ DOMAIN Tail(p) = 1..(Len(p) - 1)
  OBVIOUS
<1> DEFINE pos == [k \in 2..Len(p) |-> k - 1]
<1>2. pos \in [2..Len(p) -> DOMAIN Tail(p)]
  BY <1>1
<1>3. \A n \in DOMAIN Tail(p) : n + 1 \in 2..Len(p) /\ pos[n + 1] = n
  BY <1>1
<1>4. \A k \in 2..Len(p) : pos[k] = k - 1 /\ Tail(p)[pos[k]] = p[k] /\ pos[k] <= k
  BY <1>1
<1>5. 2..Len(p) \subseteq DOMAIN p
  BY <1>1
<1>6. \A i, j \in 2..Len(p) : i < j => pos[i] < pos[j]
  BY <1>1, <1>4
<1> HIDE DEF pos
<1>7. Moves(pos, 2..Len(p), p, Tail(p))
  BY <1>2, <1>3, <1>4, <1>5, <1>6 DEF Moves
<1> QED BY <1>1, <1>7 DEF pos

-----------------------------------------------------------------------------
(* What a handler works on. *)

Passed == [src : Source \cup {Radio}, to : SUBSET App]

Work ==
  [decoder : BOOLEAN, multi : BOOLEAN, filter : BOOLEAN, routing : BOOLEAN,
   turn : Fd \cup {None}, client : Client \cup {0}, fresh : BOOLEAN,
   own : BOOLEAN, hold : BOOLEAN, slots : [Client -> Fd \cup {None}],
   pend : Seq(Pending), half : BOOLEAN, buf : Seq(Source \cup {Radio}),
   flush : BOOLEAN, tx : Seq(Command), out : Seq(Passed), dest : Int,
   answered : BOOLEAN]

SameTurns(s, t) ==
  t.turn = s.turn /\ t.client = s.client /\ t.fresh = s.fresh /\ t.slots = s.slots
SamePend(s, t) == t.pend = s.pend /\ t.decoder = s.decoder /\ t.half = s.half
SameOwn(s, t) == t.own = s.own /\ t.hold = s.hold /\ t.tx = s.tx
SameRoute(s, t) ==
  /\ t.multi = s.multi /\ t.filter = s.filter /\ t.routing = s.routing
  /\ t.buf = s.buf /\ t.flush = s.flush /\ t.out = s.out
SameByte(s, t) == t.dest = s.dest /\ t.answered = s.answered

SameButRoute(s, t) ==
  SameTurns(s, t) /\ SamePend(s, t) /\ SameOwn(s, t) /\ SameByte(s, t)

\* Handlers start with the channel's state and end with it.
CatnOf(c, s) ==
  /\ SameTurns(c, s) /\ SamePend(c, s)
  /\ s.own = c.own /\ s.hold = c.hold
  /\ s.multi = c.multi /\ s.filter = c.filter /\ s.routing = c.routing
  /\ s.buf = c.buf /\ s.flush = c.flush

LEMMA BeginFacts ==
  ASSUME NEW c \in CatnType
  PROVE  /\ Begin(c) \in Work /\ CatnOf(c, Begin(c))
         /\ Begin(c).tx = <<>> /\ Begin(c).out = <<>>
         /\ Begin(c).dest = NoDest /\ Begin(c).answered = FALSE
<1>1. PICK tx \in Seq(Command), out \in Seq(Passed), dest \in Int :
        tx = <<>> /\ out = <<>> /\ dest = NoDest
  <2>1. <<>> \in Seq(Command) /\ <<>> \in Seq(Passed) /\ NoDest \in Int
    BY DEF NoDest
  <2> QED BY <2>1
<1> DEFINE s == [decoder |-> c.decoder, multi |-> c.multi, filter |-> c.filter,
                 routing |-> c.routing, turn |-> c.turn, client |-> c.client,
                 fresh |-> c.fresh, own |-> c.own, hold |-> c.hold, slots |-> c.slots,
                 pend |-> c.pend, half |-> c.half, buf |-> c.buf, flush |-> c.flush,
                 tx |-> tx, out |-> out, dest |-> dest, answered |-> FALSE]
<1>2. s = Begin(c)
  BY <1>1, Zenon DEF Begin
<1>3. s \in Work
  BY DEF CatnType, Work
<1>4. CatnOf(c, s)
  BY DEF CatnOf, SameTurns, SamePend
<1>5. s.tx = tx /\ s.out = out /\ s.dest = dest /\ s.answered = FALSE
  OBVIOUS
<1> HIDE DEF s
<1> QED BY <1>1, <1>2, <1>3, <1>4, <1>5

LEMMA EndFacts ==
  ASSUME NEW s \in Work, NEW c \in CatnType
  PROVE  LET e == [x \in DOMAIN c |-> s[x]] IN e \in CatnType /\ CatnOf(e, s)
<1> DEFINE e == [x \in DOMAIN c |-> s[x]]
<1>1. e \in CatnType
  BY DEF Work, CatnType, Passed
<1>2. CatnOf(e, s)
  BY DEF Work, CatnType, CatnOf, SameTurns, SamePend
<1> QED BY <1>1, <1>2

-----------------------------------------------------------------------------
(* Routing. *)

Elements(x) == {x[k] : k \in 1..Len(x)}

\* The parts passed to applications so far.
Emitted(s) == Elements(s.out)

\* The parts of a buffer, passed to the applications A.
To(parts, A) == {[src |-> parts[k], to |-> A] : k \in 1..Len(parts)}

LEMMA EmptyBuf == <<>> \in Seq(Source \cup {Radio})
OBVIOUS

\* The elements of two queues, one behind the other.
LEMMA ConcatElements ==
  ASSUME NEW S, NEW x \in Seq(S), NEW y \in Seq(S)
  PROVE  Elements(x \o y) = Elements(x) \cup Elements(y)
<1> DEFINE z == x \o y
<1>1. Len(x) \in Nat /\ Len(y) \in Nat
  BY LenProperties
<1>2. /\ Len(z) = Len(x) + Len(y)
      /\ \A k \in 1..Len(z) : z[k] = IF k <= Len(x) THEN x[k] ELSE y[k - Len(x)]
  BY ConcatProperties
<1> HIDE DEF z
<1>3. \A k \in 1..Len(z) :
        \/ k \in 1..Len(x) /\ z[k] = x[k]
        \/ k - Len(x) \in 1..Len(y) /\ z[k] = y[k - Len(x)]
  <2> TAKE k \in 1..Len(z)
  <2>1. k \in 1..(Len(x) + Len(y)) /\ z[k] = IF k <= Len(x) THEN x[k] ELSE y[k - Len(x)]
    BY <1>2
  <2>2. CASE k <= Len(x)
    BY <1>1, <2>1, <2>2
  <2>3. CASE ~(k <= Len(x))
    <3>1. k - Len(x) \in 1..Len(y)
      BY <1>1, <2>1, <2>3
    <3> QED BY <2>1, <2>3, <3>1
  <2> QED BY <2>2, <2>3
<1>4. \A k \in 1..Len(x) : k \in 1..Len(z) /\ z[k] = x[k]
  BY <1>1, <1>2
<1>5. \A k \in 1..Len(y) : k + Len(x) \in 1..Len(z) /\ z[k + Len(x)] = y[k]
  BY <1>1, <1>2
<1>6. Elements(z) = Elements(x) \cup Elements(y)
  <2>1. ASSUME NEW e \in Elements(z)
        PROVE  e \in Elements(x) \cup Elements(y)
    BY <1>3 DEF Elements
  <2>2. ASSUME NEW e \in Elements(x)
        PROVE  e \in Elements(z)
    BY <1>4 DEF Elements
  <2>3. ASSUME NEW e \in Elements(y)
        PROVE  e \in Elements(z)
    BY <1>5 DEF Elements
  <2> QED BY <2>1, <2>2, <2>3
<1> QED BY <1>6 DEF z

LEMMA ReceiversFacts ==
  ASSUME prods \in Seq(App), NEW dest
  PROVE  Connected \subseteq App /\ Receivers(dest) \subseteq Connected
BY DEF Connected, Receivers

PassesOut(s, t, parts, A) ==
  /\ t \in Work /\ SameButRoute(s, t)
  /\ t.multi = s.multi /\ t.filter = s.filter /\ t.routing = s.routing
  /\ t.buf = s.buf /\ t.flush = s.flush
  /\ Emitted(t) = Emitted(s) \cup To(parts, A)

LEMMA PassOutFacts ==
  ASSUME NEW s \in Work, NEW parts \in Seq(Source \cup {Radio}), NEW dest, prods \in Seq(App)
  PROVE  PassesOut(s, pass_out(s, parts, dest), parts, Receivers(dest))
<1> DEFINE A == Receivers(dest)
           q == [k \in 1..Len(parts) |-> [src |-> parts[k], to |-> A]]
           t == pass_out(s, parts, dest)
<1>1. A \in SUBSET App
  BY ReceiversFacts
<1>2. \A k \in 1..Len(parts) : parts[k] \in Source \cup {Radio}
  OBVIOUS
<1>3. q \in Seq(Passed) /\ DOMAIN q = 1..Len(parts) /\ \A k \in 1..Len(q) : q[k] = [src |-> parts[k], to |-> A]
  <2> HIDE DEF A
  <2>1. \A k \in 1..Len(parts) : [src |-> parts[k], to |-> A] \in Passed
    BY <1>1, <1>2 DEF Passed
  <2> QED BY <2>1
<1>4. s.out \in Seq(Passed)
  BY DEF Work
<1>5. Elements(q) = To(parts, A)
  <2>1. Len(q) = Len(parts)
    BY <1>3
  <2> HIDE DEF q, A
  <2> QED BY <1>3, <2>1, Zenon DEF To, Elements
<1>6. t = [s EXCEPT !.out = s.out \o q]
  BY DEF pass_out, Work
<1> HIDE DEF q, t, A
<1>7. PICK o \in Seq(Passed) : o = s.out \o q
  BY <1>3, <1>4, ConcatProperties
<1>8. Elements(o) = Emitted(s) \cup To(parts, A)
  <2>1. Elements(s.out \o q) = Elements(s.out) \cup Elements(q)
    BY <1>3, <1>4, ConcatElements
  <2> QED BY <1>5, <1>7, <2>1, Zenon DEF Emitted
<1>9. /\ t \in Work /\ SameButRoute(s, t)
      /\ t.multi = s.multi /\ t.filter = s.filter /\ t.routing = s.routing
      /\ t.buf = s.buf /\ t.flush = s.flush /\ t.out = o
  BY <1>6, <1>7 DEF Work, SameButRoute, SameTurns, SamePend, SameOwn, SameByte
<1>10. PassesOut(s, t, parts, A)
  BY <1>8, <1>9, Zenon DEF Emitted, PassesOut
<1> QED BY <1>10, Zenon DEF t, A

Flushes(s, t, dest) ==
  /\ t \in Work /\ SameButRoute(s, t)
  /\ t.multi = s.multi /\ t.filter = s.filter /\ t.routing = s.routing
  /\ t.buf = <<>> /\ t.flush = FALSE
  /\ dest = Drop => Emitted(t) = Emitted(s)
  /\ dest # Drop => Emitted(t) = Emitted(s) \cup To(s.buf, Receivers(dest))

LEMMA FlushFacts ==
  ASSUME NEW s \in Work, NEW dest, prods \in Seq(App)
  PROVE  Flushes(s, route_flush(s, dest), dest)
<1> DEFINE t == route_flush(s, dest)
<1>1. PICK u : u = IF s.buf # <<>> /\ dest # Drop THEN pass_out(s, s.buf, dest) ELSE s
  OBVIOUS
<1>2. PICK e \in Seq(Source \cup {Radio}) : e = <<>>
  BY EmptyBuf
<1>3. t = [u EXCEPT !.buf = e, !.flush = FALSE]
  BY <1>1, <1>2 DEF route_flush
<1> HIDE DEF t
<1>4. s.buf \in Seq(Source \cup {Radio})
  BY DEF Work
<1>5. CASE s.buf # <<>> /\ dest # Drop
  <2>1. PassesOut(s, u, s.buf, Receivers(dest))
    BY <1>1, <1>4, <1>5, PassOutFacts, Zenon
  <2>2. /\ t \in Work /\ SameButRoute(s, t)
        /\ t.multi = s.multi /\ t.filter = s.filter /\ t.routing = s.routing
        /\ t.buf = e /\ t.flush = FALSE /\ t.out = u.out
    BY <1>3, <2>1 DEF PassesOut, Work, SameButRoute, SameTurns, SamePend, SameOwn, SameByte
  <2>3. Emitted(t) = Emitted(s) \cup To(s.buf, Receivers(dest))
    BY <2>1, <2>2, Zenon DEF PassesOut, Emitted
  <2>4. Flushes(s, t, dest)
    BY <1>2, <1>5, <2>2, <2>3, Zenon DEF Flushes
  <2> QED BY <2>4, Zenon DEF t
<1>6. CASE s.buf = <<>> \/ dest = Drop
  <2>1. u = s
    BY <1>1, <1>6
  <2>2. /\ t \in Work /\ SameButRoute(s, t)
        /\ t.multi = s.multi /\ t.filter = s.filter /\ t.routing = s.routing
        /\ t.buf = e /\ t.flush = FALSE /\ t.out = s.out
    BY <1>3, <2>1 DEF Work, SameButRoute, SameTurns, SamePend, SameOwn, SameByte
  <2>3. s.buf = <<>> => To(s.buf, Receivers(dest)) = {}
    BY DEF To
  <2>4. Emitted(t) = Emitted(s)
    BY <2>2, Zenon DEF Emitted
  <2>5. dest # Drop => Emitted(s) = Emitted(s) \cup To(s.buf, Receivers(dest))
    BY <1>6, <2>3
  <2>6. Flushes(s, t, dest)
    BY <1>2, <2>2, <2>4, <2>5, Zenon DEF Flushes
  <2> QED BY <2>6, Zenon DEF t
<1> QED BY <1>5, <1>6

StartsRoute(s, t) ==
  /\ t \in Work /\ SameButRoute(s, t)
  /\ t.multi = s.multi /\ t.filter = s.filter /\ t.flush = s.flush /\ t.out = s.out
  /\ t.routing = TRUE
  /\ s.routing => t.buf = s.buf
  /\ ~s.routing => t.buf = <<>>

LEMMA RouteStartFacts ==
  ASSUME NEW s \in Work
  PROVE  StartsRoute(s, route_start(s))
<1> DEFINE t == route_start(s)
<1>1. CASE s.routing
  <2>1. t = s /\ s.routing = TRUE
    BY <1>1 DEF route_start, Work
  <2> HIDE DEF t
  <2>2. StartsRoute(s, t)
    BY <1>1, <2>1 DEF StartsRoute, SameButRoute, SameTurns, SamePend, SameOwn, SameByte
  <2> QED BY <2>2 DEF t
<1>2. CASE ~s.routing
  <2>1. PICK e \in Seq(Source \cup {Radio}) : e = <<>>
    BY EmptyBuf
  <2>2. t = [s EXCEPT !.routing = TRUE, !.buf = e]
    BY <1>2, <2>1 DEF route_start
  <2> HIDE DEF t
  <2>3. /\ t \in Work /\ SameButRoute(s, t)
        /\ t.multi = s.multi /\ t.filter = s.filter /\ t.flush = s.flush /\ t.out = s.out
        /\ t.routing = TRUE /\ t.buf = e
    BY <2>2 DEF Work, SameButRoute, SameTurns, SamePend, SameOwn, SameByte
  <2>4. StartsRoute(s, t)
    BY <1>2, <2>1, <2>3, Zenon DEF StartsRoute
  <2> QED BY <2>4, Zenon DEF t
<1> QED BY <1>1, <1>2

StopsRoute(s, t) ==
  /\ t \in Work /\ SameButRoute(s, t)
  /\ t.multi = s.multi /\ t.filter = s.filter /\ t.routing = FALSE
  /\ s.routing => t.buf = <<>> /\ Emitted(t) = Emitted(s) \cup To(s.buf, Connected)
  /\ ~s.routing => t = s

LEMMA RouteStopFacts ==
  ASSUME NEW s \in Work, prods \in Seq(App)
  PROVE  StopsRoute(s, route_stop(s))
<1> DEFINE t == route_stop(s)
<1>1. CASE s.routing
  <2>1. PICK u : u = route_flush(s, All)
    OBVIOUS
  <2>2. t = [u EXCEPT !.routing = FALSE]
    BY <1>1, <2>1 DEF route_stop
  <2> HIDE DEF t
  <2>3. All # Drop
    BY DEF All, Drop
  <2>4. Receivers(All) = Connected
    BY DEF Receivers, All, Unsolicited
  <2>5. Flushes(s, u, All)
    BY <2>1, FlushFacts, Zenon
  <2>6. /\ t \in Work /\ SameButRoute(s, t)
        /\ t.multi = s.multi /\ t.filter = s.filter /\ t.routing = FALSE
        /\ t.buf = u.buf /\ t.out = u.out
    BY <2>2, <2>5 DEF Flushes, Work, SameButRoute, SameTurns, SamePend, SameOwn, SameByte
  <2>7. t.buf = <<>> /\ Emitted(t) = Emitted(s) \cup To(s.buf, Connected)
    BY <2>3, <2>4, <2>5, <2>6, Zenon DEF Flushes, Emitted
  <2>8. StopsRoute(s, t)
    BY <1>1, <2>6, <2>7, Zenon DEF StopsRoute
  <2> QED BY <2>8, Zenon DEF t
<1>2. CASE ~s.routing
  <2>1. t = s /\ s.routing = FALSE
    BY <1>2 DEF route_stop, Work
  <2> HIDE DEF t
  <2>2. StopsRoute(s, t)
    BY <1>2, <2>1 DEF StopsRoute, SameButRoute, SameTurns, SamePend, SameOwn, SameByte
  <2> QED BY <2>2 DEF t
<1> QED BY <1>1, <1>2

\* Routing goes on, starts, or stops.
RouteStep(s, t) ==
  \/ t.routing = s.routing /\ t.buf = s.buf /\ t.flush = s.flush /\ t.out = s.out
  \/ ~s.routing /\ t.routing = TRUE /\ t.buf = <<>> /\ t.out = s.out
  \/ /\ s.routing /\ t.routing = FALSE /\ t.buf = <<>>
     /\ ~route_always(t) /\ ~s.own /\ ~PendingOwn(s) /\ ~removed_busy(s)
     /\ Emitted(t) = Emitted(s) \cup To(s.buf, Connected)

ChecksRoute(s, t) ==
  /\ t \in Work /\ SameButRoute(s, t)
  /\ t.multi = s.multi /\ t.filter = s.filter /\ RouteStep(s, t)
  /\ ~route_always(s) /\ ~s.own /\ ~PendingOwn(s) /\ ~removed_busy(s) => ~t.routing

LEMMA RouteCheckFacts ==
  ASSUME NEW s \in Work, prods \in Seq(App)
  PROVE  ChecksRoute(s, route_check(s))
<1> DEFINE t == route_check(s)
           stops == s.routing /\ ~route_always(s) /\ ~s.own /\ ~PendingOwn(s) /\ ~removed_busy(s)
<1>1. CASE stops
  <2>1. t = route_stop(s)
    BY <1>1 DEF route_check
  <2> HIDE DEF t
  <2>2. StopsRoute(s, t)
    BY <2>1, RouteStopFacts, Zenon
  <2>3. ~route_always(t)
    BY <1>1, <2>2, Zenon DEF route_always, StopsRoute
  <2>4. ChecksRoute(s, t)
    BY <1>1, <2>2, <2>3, Zenon DEF RouteStep, ChecksRoute, StopsRoute
  <2> QED BY <2>4, Zenon DEF t
<1>2. CASE ~stops
  <2>1. t = s
    BY <1>2 DEF route_check
  <2> HIDE DEF t
  <2>2. ~route_always(s) /\ ~s.own /\ ~PendingOwn(s) /\ ~removed_busy(s) => ~t.routing
    BY <1>2, <2>1, Zenon
  <2>3. RouteStep(s, t)
    BY <2>1 DEF RouteStep
  <2>4. ChecksRoute(s, t)
    BY <2>1, <2>2, <2>3 DEF ChecksRoute, SameButRoute, SameTurns, SamePend, SameOwn, SameByte
  <2> QED BY <2>4, Zenon DEF t
<1> QED BY <1>1, <1>2

-----------------------------------------------------------------------------
(* Turns. *)

LEMMA ClientType ==
  ASSUME NEW s \in Work, NEW fd
  PROVE  client_of(s, fd) \in Client \cup {0}
<1> DEFINE mine == {i \in Client : s.slots[i] = fd}
           free == {i \in Client : s.slots[i] = None}
           gone == {i \in Client : s.slots[i] # None /\ ~Registered(s.slots[i])}
<1>1. mine \in SUBSET Nat /\ free \in SUBSET Nat /\ gone \in SUBSET Nat
  BY DEF Client
<1>2. mine \subseteq Client /\ free \subseteq Client /\ gone \subseteq Client
  OBVIOUS
<1>3. \/ client_of(s, fd) = Least(mine) /\ mine # {}
      \/ client_of(s, fd) = Least(free) /\ free # {}
      \/ client_of(s, fd) = Least(gone) /\ gone # {}
      \/ client_of(s, fd) = 0
  BY Zenon DEF client_of
<1> HIDE DEF mine, free, gone
<1>4. \A S \in SUBSET Nat : S # {} => Least(S) \in S
  BY LeastFacts, Zenon
<1> QED BY <1>1, <1>2, <1>3, <1>4

Numbers(s, t, fd) ==
  /\ t \in Work /\ SamePend(s, t) /\ SameOwn(s, t) /\ SameRoute(s, t) /\ SameByte(s, t)
  /\ t.turn = s.turn /\ t.client = s.client /\ t.fresh = s.fresh
  /\ client_of(s, fd) = 0 => t.slots = s.slots
  /\ client_of(s, fd) # 0 => t.slots = [s.slots EXCEPT ![client_of(s, fd)] = fd]

LEMMA NumberFacts ==
  ASSUME NEW s \in Work, NEW fd \in Fd
  PROVE  Numbers(s, Numbered(s, fd), fd)
<1> DEFINE t == Numbered(s, fd)
<1>1. PICK c \in Client \cup {0} : c = client_of(s, fd)
  BY ClientType, Zenon
<1>2. CASE c = 0
  <2>1. t = s
    BY <1>1, <1>2, Zenon DEF Numbered
  <2> HIDE DEF t
  <2>2. Numbers(s, t, fd)
    BY <1>1, <1>2, <2>1 DEF Numbers, SamePend, SameOwn, SameRoute, SameByte
  <2> QED BY <2>2 DEF t
<1>3. CASE c # 0
  <2>1. PICK m \in [Client -> Fd \cup {None}] : m = [s.slots EXCEPT ![c] = fd]
    BY <1>3 DEF Work
  <2>2. t = [s EXCEPT !.slots = m]
    BY <1>1, <1>3, <2>1 DEF Numbered
  <2> HIDE DEF t
  <2>3. /\ t \in Work /\ SamePend(s, t) /\ SameOwn(s, t) /\ SameRoute(s, t) /\ SameByte(s, t)
        /\ t.turn = s.turn /\ t.client = s.client /\ t.fresh = s.fresh /\ t.slots = m
    BY <2>2 DEF Work, SamePend, SameOwn, SameRoute, SameByte
  <2>4. Numbers(s, t, fd)
    BY <1>1, <1>3, <2>1, <2>3, Zenon DEF Numbers
  <2> QED BY <2>4 DEF t
<1> QED BY <1>2, <1>3

GivesTurn(s, t, fd, fresh) ==
  /\ t \in Work /\ SamePend(s, t) /\ SameOwn(s, t) /\ SameRoute(s, t) /\ SameByte(s, t)
  /\ t.turn = fd /\ t.fresh = fresh
  /\ fd = None => t.client = 0 /\ t.slots = s.slots
  /\ fd # None => /\ t.client = client_of(s, fd)
                  /\ client_of(s, fd) = 0 => t.slots = s.slots
                  /\ client_of(s, fd) # 0 => t.slots = [s.slots EXCEPT ![client_of(s, fd)] = fd]

LEMMA TurnGiveFacts ==
  ASSUME NEW s \in Work, NEW fd \in Fd \cup {None}, NEW fresh \in BOOLEAN
  PROVE  GivesTurn(s, turn_give(s, fd, fresh), fd, fresh)
<1> DEFINE t == turn_give(s, fd, fresh)
<1>1. CASE fd = None
  <2>1. t = [s EXCEPT !.turn = None, !.client = 0, !.fresh = fresh]
    BY <1>1 DEF turn_give
  <2> HIDE DEF t
  <2>2. GivesTurn(s, t, fd, fresh)
    BY <1>1, <2>1 DEF GivesTurn, Work, SamePend, SameOwn, SameRoute, SameByte
  <2> QED BY <2>2 DEF t
<1>2. CASE fd # None
  <2>1. PICK c \in Client \cup {0} : c = client_of(s, fd)
    BY ClientType, Zenon
  <2>2. PICK u : u = Numbered(s, fd)
    OBVIOUS
  <2>3. t = [u EXCEPT !.turn = fd, !.client = c, !.fresh = fresh]
    BY <1>2, <2>1, <2>2, Zenon DEF turn_give
  <2> HIDE DEF t
  <2>4. fd \in Fd
    BY <1>2
  <2>5. Numbers(s, u, fd)
    BY <2>2, <2>4, NumberFacts, Zenon
  <2>6. /\ t \in Work /\ SamePend(s, t) /\ SameOwn(s, t) /\ SameRoute(s, t) /\ SameByte(s, t)
        /\ t.turn = fd /\ t.fresh = fresh /\ t.client = c /\ t.slots = u.slots
    BY <2>3, <2>5 DEF Numbers, Work, SamePend, SameOwn, SameRoute, SameByte
  <2>7. GivesTurn(s, t, fd, fresh)
    BY <1>2, <2>1, <2>5, <2>6, Zenon DEF GivesTurn, Numbers
  <2> QED BY <2>7 DEF t
<1> QED BY <1>1, <1>2

\* What is left of the commands when some are given up or answered.
Thins(p, q, K) == K \subseteq 1..Len(p) /\ q \in Seq(Pending) /\ \E pos : Moves(pos, K, p, q)

Discards(s, t) ==
  /\ t \in Work /\ SameTurns(s, t) /\ SameOwn(s, t) /\ SameRoute(s, t) /\ SameByte(s, t)
  /\ t.decoder = s.decoder /\ t.half = s.half

LEMMA DiscardFacts ==
  ASSUME NEW s \in Work, NEW c
  PROVE  LET t == client_discard(s, c)
         IN  /\ Discards(s, t)
             /\ Thins(s.pend, t.pend, {k \in 1..Len(s.pend) : c = 0 \/ s.pend[k].client # c})
<1> DEFINE K == {k \in 1..Len(s.pend) : c = 0 \/ s.pend[k].client # c}
           t == client_discard(s, c)
<1>1. s.pend \in Seq(Pending)
  BY DEF Work
<1>2. K \in SUBSET (1..Len(s.pend))
  OBVIOUS
<1>3. PICK q : q = Keep(s.pend, K)
  OBVIOUS
<1>4. t = [s EXCEPT !.pend = q]
  BY <1>3 DEF client_discard, Work
<1> HIDE DEF K, t
<1>5. q \in Seq(Pending) /\ \E pos : Moves(pos, K, s.pend, q)
  BY <1>1, <1>2, <1>3, KeepFacts, Zenon
<1>6. t.pend = q /\ Discards(s, t)
  BY <1>4, <1>5 DEF Work, Discards, SameTurns, SameOwn, SameRoute, SameByte
<1>7. Thins(s.pend, t.pend, K)
  BY <1>2, <1>5, <1>6 DEF Thins
<1> QED BY <1>6, <1>7 DEF K, t

\* Every connector of the channel has a descriptor.
Joined == prods \in Seq(App) /\ \A x \in Connected : fdOf[x] \in Fd

LEMMA WaitingFd ==
  ASSUME Joined, NEW fd
  PROVE  next_waiting(fd) \in Fd \cup {None}
<1> DEFINE w == {k \in 1..Len(prods) : fdOf[prods[k]] # fd /\ sock[prods[k]] # <<>>}
           after == {k \in w : \E j \in 1..(k-1) : fdOf[prods[j]] = fd}
<1>1. \A k \in 1..Len(prods) : fdOf[prods[k]] \in Fd
  BY DEF Joined, Connected
<1>2. /\ w \in SUBSET Nat /\ after \in SUBSET Nat
      /\ w \subseteq 1..Len(prods) /\ after \subseteq 1..Len(prods)
  BY DEF Joined
<1>3. \/ next_waiting(fd) = fdOf[prods[Least(after)]] /\ after # {}
      \/ next_waiting(fd) = fdOf[prods[Least(w)]] /\ w # {}
      \/ next_waiting(fd) = None
  BY Zenon DEF next_waiting
<1> HIDE DEF w, after
<1>4. \A S \in SUBSET Nat : S # {} => Least(S) \in S
  BY LeastFacts, Zenon
<1> QED BY <1>1, <1>2, <1>3, <1>4

\* The turn goes on to the application on fd, or to nobody.
MovesTurn(s, t) ==
  \E u \in Work, fd \in Fd \cup {None} :
    /\ GivesTurn(u, t, fd, fd # None)
    /\ \/ Fresh(s) /\ u = s
       \/ /\ ~Fresh(s) /\ Discards(s, u)
          /\ Thins(s.pend, u.pend,
                   {k \in 1..Len(s.pend) : s.client = 0 \/ s.pend[k].client # s.client})

LEMMA TurnCheckFacts ==
  ASSUME NEW s \in Work, Joined, NEW expired \in BOOLEAN
  PROVE  LET t == turn_check(s, expired)
         IN  \/ /\ s.turn = None \/ (~expired /\ (Fresh(s) \/ client_busy(s, s.client)))
                /\ t = s
             \/ /\ s.turn # None /\ (expired \/ (~Fresh(s) /\ ~client_busy(s, s.client)))
                /\ MovesTurn(s, t)
<1> DEFINE t == turn_check(s, expired)
           stays == s.turn = None \/ (~expired /\ (Fresh(s) \/ client_busy(s, s.client)))
<1>1. CASE stays
  BY <1>1, Zenon DEF turn_check
<1>2. CASE ~stays
  <2>1. PICK u : u = IF ~Fresh(s) THEN client_discard(s, s.client) ELSE s
    OBVIOUS
  <2>2. PICK fd \in Fd \cup {None} : fd = IF u.multi THEN next_waiting(u.turn) ELSE None
    <3>1. (IF u.multi THEN next_waiting(u.turn) ELSE None) \in Fd \cup {None}
      BY WaitingFd
    <3> QED BY <3>1
  <2>3. /\ u \in Work
        /\ \/ Fresh(s) /\ u = s
           \/ /\ ~Fresh(s) /\ Discards(s, u)
              /\ Thins(s.pend, u.pend,
                       {k \in 1..Len(s.pend) : s.client = 0 \/ s.pend[k].client # s.client})
    <3>1. CASE Fresh(s)
      BY <2>1, <3>1
    <3>2. CASE ~Fresh(s)
      <4>1. u = client_discard(s, s.client)
        BY <2>1, <3>2
      <4>2. /\ Discards(s, u)
            /\ Thins(s.pend, u.pend,
                     {k \in 1..Len(s.pend) : s.client = 0 \/ s.pend[k].client # s.client})
        BY <4>1, DiscardFacts, Zenon
      <4> QED BY <3>2, <4>2, Zenon DEF Discards
    <3> QED BY <3>1, <3>2
  <2>4. u.multi = s.multi /\ u.turn = s.turn
    BY <2>3, Zenon DEF Discards, SameTurns, SameRoute
  <2>5. t = turn_give(u, fd, fd # None)
    <3>1. t = LET v == IF ~Fresh(s) THEN client_discard(s, s.client) ELSE s
                  next == IF s.multi THEN next_waiting(s.turn) ELSE None
              IN  turn_give(v, next, next # None)
      BY <1>2, Zenon DEF turn_check
    <3>2. fd = IF s.multi THEN next_waiting(s.turn) ELSE None
      BY <2>2, <2>4, Zenon
    <3> QED BY <2>1, <3>1, <3>2, Zenon
  <2>6. GivesTurn(u, t, fd, fd # None)
    <3>1. (fd # None) \in BOOLEAN
      OBVIOUS
    <3> HIDE DEF t
    <3> QED BY <2>3, <2>5, <3>1, TurnGiveFacts, Zenon
  <2>7. MovesTurn(s, t)
    BY <2>3, <2>6, Zenon DEF MovesTurn
  <2> QED BY <1>2, <2>7, Zenon
<1> QED BY <1>1, <1>2

\* The buffer is kept or passed to all.
RouteAny(s, t) ==
  /\ t.buf = s.buf \/ t.buf = <<>>
  /\ Emitted(t) = Emitted(s) \/ Emitted(t) = Emitted(s) \cup To(s.buf, Connected)
  /\ (~s.routing => s.buf = <<>>) => (~t.routing => t.buf = <<>>)

LEMMA NoParts == ASSUME NEW x, x = <<>>, NEW A PROVE To(x, A) = {}
BY DEF To

LEMMA RouteAnyTwice ==
  ASSUME NEW s, NEW t, NEW u, RouteAny(s, t), RouteAny(t, u)
  PROVE  RouteAny(s, u)
<1>1. t.buf = s.buf \/ To(t.buf, Connected) = {}
  BY NoParts, Zenon DEF RouteAny
<1>2. Emitted(u) = Emitted(s) \/ Emitted(u) = Emitted(s) \cup To(s.buf, Connected)
  <2>1. CASE t.buf = s.buf
    <3>1. To(t.buf, Connected) = To(s.buf, Connected)
      BY <2>1, Zenon
    <3> QED BY <3>1 DEF RouteAny
  <2>2. CASE To(t.buf, Connected) = {}
    BY <2>2 DEF RouteAny
  <2> QED BY <1>1, <2>1, <2>2
<1> QED BY <1>2, Zenon DEF RouteAny

LEMMA RouteStepAny ==
  ASSUME NEW s \in Work, NEW t, RouteStep(s, t)
  PROVE  RouteAny(s, t)
<1>1. CASE t.routing = s.routing /\ t.buf = s.buf /\ t.flush = s.flush /\ t.out = s.out
  BY <1>1, Zenon DEF RouteAny, Emitted
<1>2. CASE ~s.routing /\ t.routing = TRUE /\ t.buf = <<>> /\ t.out = s.out
  BY <1>2, Zenon DEF RouteAny, Emitted
<1>3. CASE /\ s.routing /\ t.routing = FALSE /\ t.buf = <<>>
           /\ Emitted(t) = Emitted(s) \cup To(s.buf, Connected)
  BY <1>3, Zenon DEF RouteAny
<1> QED BY <1>1, <1>2, <1>3, Zenon DEF RouteStep

\* The turn is nobody's any more.
TurnGone(s, t) ==
  t.turn = None /\ t.client = 0 /\ t.fresh = FALSE /\ t.slots = s.slots

MultiUpdates(s, t) ==
  /\ t \in Work /\ SamePend(s, t) /\ SameOwn(s, t) /\ SameByte(s, t)
  /\ SameTurns(s, t) \/ (~s.decoder /\ TurnGone(s, t))
  /\ t.multi = (s.decoder /\ Len(prods) > 1)
  /\ t.filter = (s.decoder /\ Connected \cap NoUnsol # {})
  /\ RouteStep(s, t)
  /\ route_always(t) => t.routing = TRUE
  /\ ~route_always(t) /\ ~s.own /\ ~PendingOwn(s) /\ ~removed_busy(s) => ~t.routing

LEMMA SamePendFacts ==
  ASSUME NEW s, NEW t, t.pend = s.pend, t.slots = s.slots
  PROVE  (PendingOwn(t) <=> PendingOwn(s)) /\ (removed_busy(t) <=> removed_busy(s))
<1>1. PendingOwn(t) <=> PendingOwn(s)
  BY Zenon DEF PendingOwn
<1>2. removed_busy(t) <=> removed_busy(s)
  BY Zenon DEF removed_busy, client_busy
<1> QED BY <1>1, <1>2

LEMMA MultiUpdateFacts ==
  ASSUME NEW s \in Work, prods \in Seq(App)
  PROVE  MultiUpdates(s, multi_update(s))
<1>1. PICK multi \in BOOLEAN, filter \in BOOLEAN :
        /\ multi = (s.decoder /\ Len(prods) > 1)
        /\ filter = (s.decoder /\ Connected \cap NoUnsol # {})
  OBVIOUS
<1>2. PICK t : t = [s EXCEPT !.filter = filter, !.multi = multi]
  OBVIOUS
<1>3. /\ t \in Work /\ SamePend(s, t) /\ SameOwn(s, t) /\ SameByte(s, t) /\ SameTurns(s, t)
      /\ t.multi = multi /\ t.filter = filter /\ t.routing = s.routing
      /\ t.buf = s.buf /\ t.flush = s.flush /\ t.out = s.out
  BY <1>2 DEF Work, SameTurns, SamePend, SameOwn, SameByte
<1>4. PICK u : u = IF s.multi /\ ~t.multi /\ ~s.decoder THEN turn_give(t, None, FALSE) ELSE t
  OBVIOUS
<1>5. /\ u \in Work /\ SamePend(s, u) /\ SameOwn(s, u) /\ SameByte(s, u)
      /\ SameTurns(s, u) \/ (~s.decoder /\ TurnGone(s, u))
      /\ u.multi = multi /\ u.filter = filter /\ u.routing = s.routing
      /\ u.buf = s.buf /\ u.flush = s.flush /\ u.out = s.out
  <2>1. CASE s.multi /\ ~t.multi /\ ~s.decoder
    <3>1. None \in Fd \cup {None} /\ FALSE \in BOOLEAN
      OBVIOUS
    <3>2. u = turn_give(t, None, FALSE)
      BY <1>4, <2>1
    <3>3. GivesTurn(t, u, None, FALSE)
      BY <1>3, <3>1, <3>2, TurnGiveFacts, Zenon
    <3>4. u \in Work /\ SamePend(t, u) /\ SameOwn(t, u) /\ SameRoute(t, u) /\ SameByte(t, u)
          /\ u.turn = None /\ u.client = 0 /\ u.fresh = FALSE /\ u.slots = t.slots
      BY <3>3, Zenon DEF GivesTurn
    <3> QED BY <1>3, <2>1, <3>4
            DEF SamePend, SameOwn, SameRoute, SameByte, SameTurns, TurnGone
  <2>2. CASE ~(s.multi /\ ~t.multi /\ ~s.decoder)
    BY <1>3, <1>4, <2>2, Zenon
  <2> QED BY <2>1, <2>2
<1>6. (PendingOwn(u) <=> PendingOwn(s)) /\ (removed_busy(u) <=> removed_busy(s))
  <2>1. u.pend = s.pend /\ u.slots = s.slots
    BY <1>5, Zenon DEF SamePend, SameTurns, TurnGone
  <2> QED BY <2>1, SamePendFacts, Zenon
<1>7. PICK v : v = IF route_always(u) THEN route_start(u) ELSE route_check(u)
  OBVIOUS
<1>8. v = multi_update(s)
  BY <1>1, <1>2, <1>4, <1>7, Zenon DEF multi_update
<1>9. /\ SameButRoute(u, v) /\ v \in Work /\ v.multi = u.multi /\ v.filter = u.filter
      /\ RouteStep(u, v)
      /\ route_always(u) => v.routing = TRUE
      /\ ~route_always(u) /\ ~u.own /\ ~PendingOwn(u) /\ ~removed_busy(u) => ~v.routing
  <2>1. CASE route_always(u)
    <3>1. StartsRoute(u, v)
      BY <1>5, <1>7, <2>1, RouteStartFacts, Zenon
    <3>2. u.routing \in BOOLEAN
      BY <1>5 DEF Work
    <3>3. RouteStep(u, v)
      BY <3>1, <3>2 DEF StartsRoute, RouteStep
    <3> QED BY <2>1, <3>1, <3>3, Zenon DEF StartsRoute
  <2>2. CASE ~route_always(u)
    <3>1. ChecksRoute(u, v)
      BY <1>5, <1>7, <2>2, RouteCheckFacts, Zenon
    <3> QED BY <2>2, <3>1, Zenon DEF ChecksRoute
  <2> QED BY <2>1, <2>2
<1>10. route_always(v) <=> route_always(u)
  BY <1>9, Zenon DEF route_always
<1>11. RouteStep(s, v)
  <2>1. Emitted(u) = Emitted(s)
    BY <1>5, Zenon DEF Emitted
  <2>2. u.own = s.own
    BY <1>5, Zenon DEF SameOwn
  <2>3. CASE v.routing = u.routing /\ v.buf = u.buf /\ v.flush = u.flush /\ v.out = u.out
    BY <1>5, <2>3, Zenon DEF RouteStep
  <2>4. CASE ~u.routing /\ v.routing = TRUE /\ v.buf = <<>> /\ v.out = u.out
    BY <1>5, <2>4, Zenon DEF RouteStep
  <2>5. CASE /\ u.routing /\ v.routing = FALSE /\ v.buf = <<>>
             /\ ~route_always(v) /\ ~u.own /\ ~PendingOwn(u) /\ ~removed_busy(u)
             /\ Emitted(v) = Emitted(u) \cup To(u.buf, Connected)
    BY <1>5, <1>6, <2>1, <2>2, <2>5, Zenon DEF RouteStep
  <2> QED BY <1>9, <2>3, <2>4, <2>5, Zenon DEF RouteStep
<1>12. /\ v \in Work /\ SamePend(s, v) /\ SameOwn(s, v) /\ SameByte(s, v)
       /\ SameTurns(s, v) \/ (~s.decoder /\ TurnGone(s, v))
  BY <1>5, <1>9 DEF SameButRoute, SamePend, SameOwn, SameByte, SameTurns, TurnGone
<1>13. /\ v.multi = (s.decoder /\ Len(prods) > 1)
       /\ v.filter = (s.decoder /\ Connected \cap NoUnsol # {})
  BY <1>1, <1>5, <1>9, Zenon
<1>14. /\ route_always(v) => v.routing = TRUE
       /\ ~route_always(v) /\ ~s.own /\ ~PendingOwn(s) /\ ~removed_busy(s) => ~v.routing
  <2>1. u.own = s.own
    BY <1>5, Zenon DEF SameOwn
  <2> QED BY <1>6, <1>9, <1>10, <2>1, Zenon
<1>15. MultiUpdates(s, v)
  BY <1>11, <1>12, <1>13, <1>14, Zenon DEF MultiUpdates
<1> QED BY <1>8, <1>15, Zenon

-----------------------------------------------------------------------------
(* Own queries and the decoder's life. *)

EndsOwn(s, t) ==
  /\ t \in Work /\ SameTurns(s, t) /\ SamePend(s, t) /\ SameRoute(s, t) /\ SameByte(s, t)
  /\ t.tx = s.tx /\ t.own = FALSE /\ t.hold = FALSE

LEMMA OwnEndFacts ==
  ASSUME NEW s \in Work
  PROVE  EndsOwn(s, own_end(s))
<1> DEFINE t == own_end(s)
<1>1. t = [s EXCEPT !.own = FALSE, !.hold = FALSE]
  BY DEF own_end
<1> HIDE DEF t
<1>2. EndsOwn(s, t)
  BY <1>1 DEF EndsOwn, Work, SameTurns, SamePend, SameRoute, SameByte
<1> QED BY <1>2 DEF t

\* What reset and setup leave of the decoder.
Cleared(s, t) ==
  /\ t \in Work /\ SameByte(s, t) /\ t.tx = s.tx
  /\ TurnGone(s, t) /\ t.pend = <<>> /\ t.half = FALSE
  /\ t.own = FALSE /\ t.hold = FALSE
  /\ RouteAny(s, t)

LEMMA ResetFacts ==
  ASSUME NEW s \in Work, prods \in Seq(App)
  PROVE  Cleared(s, reset(s)) /\ reset(s).decoder = FALSE
<1>1. PICK e \in Seq(Pending) : e = <<>>
  <2>1. <<>> \in Seq(Pending)
    OBVIOUS
  <2> QED BY <2>1
<1>2. PICK u : u = [s EXCEPT !.decoder = FALSE, !.pend = e, !.half = FALSE]
  OBVIOUS
<1>3. /\ u \in Work /\ SameTurns(s, u) /\ SameOwn(s, u) /\ SameRoute(s, u) /\ SameByte(s, u)
      /\ u.decoder = FALSE /\ u.pend = e /\ u.half = FALSE
  BY <1>2 DEF Work, SameTurns, SameOwn, SameRoute, SameByte
<1>4. PICK v : v = own_end(u)
  OBVIOUS
<1>5. EndsOwn(u, v)
  BY <1>3, <1>4, OwnEndFacts, Zenon
<1>6. PICK w : w = IF route_always(v) THEN v ELSE route_stop(v)
  OBVIOUS
<1>7. w \in Work /\ SameButRoute(v, w) /\ RouteAny(v, w)
  <2>1. CASE route_always(v)
    <3>1. w = v
      BY <1>6, <2>1
    <3> QED BY <1>5, <3>1, Zenon
            DEF EndsOwn, SameButRoute, SameTurns, SamePend, SameOwn, SameByte, RouteAny
  <2>2. CASE ~route_always(v)
    <3>1. w = route_stop(v) /\ v \in Work
      BY <1>5, <1>6, <2>2, Zenon DEF EndsOwn
    <3>2. StopsRoute(v, w)
      BY <3>1, RouteStopFacts, Zenon
    <3>3. v.routing \in BOOLEAN
      BY <1>5 DEF EndsOwn, Work
    <3>4. RouteAny(v, w)
      BY <3>2, <3>3, Zenon DEF StopsRoute, RouteAny
    <3> QED BY <3>2, <3>4, Zenon DEF StopsRoute
  <2> QED BY <2>1, <2>2
<1>8. PICK t : t = turn_give(w, None, FALSE)
  OBVIOUS
<1>9. GivesTurn(w, t, None, FALSE)
  <2>1. None \in Fd \cup {None} /\ FALSE \in BOOLEAN
    OBVIOUS
  <2> QED BY <1>7, <1>8, <2>1, TurnGiveFacts, Zenon
<1>10. t = reset(s)
  BY <1>1, <1>2, <1>4, <1>6, <1>8, Zenon DEF reset
<1>11. RouteAny(s, t)
  <2>1. v.buf = s.buf /\ v.routing = s.routing /\ v.out = s.out
    BY <1>3, <1>5, Zenon DEF EndsOwn, SameRoute
  <2>2. t.buf = w.buf /\ t.routing = w.routing /\ t.out = w.out
    BY <1>9, Zenon DEF GivesTurn, SameRoute
  <2>3. RouteAny(s, w)
    BY <1>7, <2>1, Zenon DEF RouteAny, Emitted
  <2> QED BY <2>2, <2>3, Zenon DEF RouteAny, Emitted
<1>12. TurnGone(s, t)
  <2>1. t.turn = None /\ t.client = 0 /\ t.fresh = FALSE /\ t.slots = w.slots
    BY <1>9, Zenon DEF GivesTurn
  <2>2. w.slots = s.slots
    BY <1>3, <1>5, <1>7, Zenon DEF EndsOwn, SameButRoute, SameTurns
  <2> QED BY <2>1, <2>2, Zenon DEF TurnGone
<1>13. /\ t.pend = e /\ t.half = FALSE /\ t.decoder = FALSE
       /\ t.own = FALSE /\ t.hold = FALSE /\ t.tx = s.tx
  <2>1. v.pend = e /\ v.half = FALSE /\ v.decoder = FALSE /\ v.own = FALSE /\ v.hold = FALSE
        /\ v.tx = s.tx
    BY <1>3, <1>5, Zenon DEF EndsOwn, SamePend, SameOwn
  <2>2. w.pend = e /\ w.half = FALSE /\ w.decoder = FALSE /\ w.own = FALSE /\ w.hold = FALSE
        /\ w.tx = s.tx
    BY <1>7, <2>1, Zenon DEF SameButRoute, SamePend, SameOwn
  <2> QED BY <1>9, <2>2, Zenon DEF GivesTurn, SamePend, SameOwn
<1>14. SameByte(s, t)
  BY <1>3, <1>5, <1>7, <1>9, Zenon DEF EndsOwn, SameButRoute, GivesTurn, SameByte
<1>15. Cleared(s, t)
  BY <1>1, <1>9, <1>11, <1>12, <1>13, <1>14, Zenon DEF Cleared, GivesTurn
<1> QED BY <1>10, <1>13, <1>15, Zenon

SetsUp(s, t) ==
  \/ s.decoder /\ t = s
  \/ ~s.decoder /\ Cleared(s, t) /\ t.decoder = TRUE

LEMMA SetupFacts ==
  ASSUME NEW s \in Work, prods \in Seq(App)
  PROVE  SetsUp(s, setup(s))
<1>1. CASE s.decoder
  BY <1>1, Zenon DEF setup, SetsUp
<1>2. CASE ~s.decoder
  <2>1. PICK r : r = reset(s)
    OBVIOUS
  <2>2. Cleared(s, r)
    BY <2>1, ResetFacts, Zenon
  <2>3. PICK u : u = [r EXCEPT !.decoder = TRUE]
    OBVIOUS
  <2>4. /\ u \in Work /\ SameTurns(r, u) /\ SameOwn(r, u) /\ SameRoute(r, u) /\ SameByte(r, u)
        /\ u.decoder = TRUE /\ u.pend = r.pend /\ u.half = r.half
    <3>1. r \in Work
      BY <2>2, Zenon DEF Cleared
    <3> QED BY <2>3, <3>1 DEF Work, SameTurns, SameOwn, SameRoute, SameByte
  <2>5. PICK t : t = multi_update(u)
    OBVIOUS
  <2>6. MultiUpdates(u, t)
    BY <2>4, <2>5, MultiUpdateFacts, Zenon
  <2>7. t = setup(s)
    BY <1>2, <2>1, <2>3, <2>5, Zenon DEF setup
  <2>8. SameTurns(u, t)
    BY <2>4, <2>6 DEF MultiUpdates
  <2>9. RouteAny(s, t)
    <3>1. RouteAny(s, u)
      BY <2>2, <2>4, Zenon DEF Cleared, SameRoute, RouteAny, Emitted
    <3>2. RouteAny(u, t)
      BY <2>4, <2>6, RouteStepAny, Zenon DEF MultiUpdates
    <3> QED BY <3>1, <3>2, RouteAnyTwice, Zenon
  <2>10. TurnGone(s, t)
    BY <2>2, <2>4, <2>8, Zenon DEF Cleared, TurnGone, SameTurns
  <2>11. /\ t.pend = <<>> /\ t.half = FALSE /\ t.decoder = TRUE
         /\ t.own = FALSE /\ t.hold = FALSE /\ t.tx = s.tx
    <3>1. /\ u.pend = <<>> /\ u.half = FALSE /\ u.own = FALSE /\ u.hold = FALSE /\ u.tx = s.tx
      BY <2>2, <2>4, Zenon DEF Cleared, SameOwn
    <3> QED BY <2>4, <2>6, <3>1, Zenon DEF MultiUpdates, SamePend, SameOwn
  <2>12. SameByte(s, t)
    BY <2>2, <2>4, <2>6, Zenon DEF Cleared, MultiUpdates, SameByte
  <2>13. SetsUp(s, t)
    BY <1>2, <2>6, <2>9, <2>10, <2>11, <2>12, Zenon DEF SetsUp, Cleared, MultiUpdates
  <2> QED BY <2>7, <2>13, Zenon
<1> QED BY <1>1, <1>2

\* A command is added behind those that are pending; there is room for it.
AddsEntry(s, t, p) ==
  /\ t \in Work /\ SameTurns(s, t) /\ SameOwn(s, t) /\ SameRoute(s, t) /\ SameByte(s, t)
  /\ t.decoder = s.decoder /\ t.half = s.half
  /\ Len(s.pend) < PendMax => t.pend = Append(s.pend, p)

LEMMA PendAddFacts ==
  ASSUME NEW s \in Work, NEW p \in Pending
  PROVE  AddsEntry(s, pend_add(s, p), p)
<1>1. s.pend \in Seq(Pending) /\ PendMax \in Nat \ {0}
  BY CatAssumption DEF Work
<1>2. PICK x \in Seq(Pending) : x = IF Len(s.pend) = PendMax THEN Tail(s.pend) ELSE s.pend
  <2>1. Len(s.pend) = PendMax => Tail(s.pend) \in Seq(Pending)
    BY <1>1, TailMoves
  <2> QED BY <1>1, <2>1
<1>3. PICK q \in Seq(Pending) : q = Append(x, p)
  BY <1>2, AppendProperties, Zenon
<1> DEFINE t == pend_add(s, p)
<1>4. t = [s EXCEPT !.pend = q]
  BY <1>2, <1>3, Zenon DEF pend_add
<1> HIDE DEF t
<1>5. Len(s.pend) < PendMax => q = Append(s.pend, p)
  BY <1>1, <1>2, <1>3
<1>6. t.pend = q /\ t \in Work /\ SameTurns(s, t) /\ SameOwn(s, t) /\ SameRoute(s, t)
      /\ SameByte(s, t) /\ t.decoder = s.decoder /\ t.half = s.half
  BY <1>4 DEF Work, SameTurns, SameOwn, SameRoute, SameByte
<1>7. AddsEntry(s, t, p)
  BY <1>5, <1>6, Zenon DEF AddsEntry
<1> QED BY <1>7 DEF t

OwnCommand == [src |-> Own, kind |-> OwnKind, turn |-> TRUE]
OwnEntry == [own |-> TRUE, kind |-> OwnKind, client |-> 0, host |-> TRUE,
             echoed |-> FALSE, src |-> Own]

\* The query is on its way, unless the router has no room for it.
Asks(s, t) ==
  /\ t \in Work /\ SameTurns(s, t) /\ SameByte(s, t)
  /\ t.decoder = s.decoder /\ t.half = s.half
  /\ t.multi = s.multi /\ t.filter = s.filter /\ t.flush = s.flush /\ t.out = s.out
  /\ t.own = TRUE /\ t.hold = TRUE /\ t.tx = Append(s.tx, OwnCommand)
  /\ t.routing = TRUE
  /\ s.routing => t.buf = s.buf
  /\ ~s.routing => t.buf = <<>>
  /\ s.pend = <<>> => t.pend = <<OwnEntry>>

LEMMA OwnSendFacts ==
  ASSUME NEW s \in Work
  PROVE  own_send(s) = s \/ Asks(s, own_send(s))
<1> DEFINE full == Len(line) + Len(s.tx) >= LineCap
<1>1. CASE full
  <2>1. own_send(s) = s
    BY <1>1, Zenon DEF own_send
  <2> QED BY <2>1
<1>2. CASE ~full
  <2>1. OwnCommand \in Command /\ OwnEntry \in Pending
    BY DEF OwnCommand, OwnEntry, Command, Pending, Source
  <2>2. PICK x \in Seq(Command) : x = Append(s.tx, OwnCommand)
    <3>1. s.tx \in Seq(Command)
      BY DEF Work
    <3> QED BY <2>1, <3>1, AppendProperties, Zenon
  <2>3. PICK u : u = [s EXCEPT !.tx = x, !.hold = TRUE, !.own = TRUE]
    OBVIOUS
  <2>4. /\ u \in Work /\ SameTurns(s, u) /\ SamePend(s, u) /\ SameRoute(s, u) /\ SameByte(s, u)
        /\ u.tx = x /\ u.own = TRUE /\ u.hold = TRUE
    BY <2>3 DEF Work, SameTurns, SamePend, SameRoute, SameByte
  <2>5. PICK v : v = route_start(u)
    OBVIOUS
  <2>6. StartsRoute(u, v)
    BY <2>4, <2>5, RouteStartFacts, Zenon
  <2>7. PICK t : t = pend_add(v, OwnEntry)
    OBVIOUS
  <2>8. AddsEntry(v, t, OwnEntry)
    BY <2>1, <2>6, <2>7, PendAddFacts, Zenon DEF StartsRoute
  <2>9. t = own_send(s)
    BY <1>2, <2>2, <2>3, <2>5, <2>7, Zenon DEF own_send, OwnEntry, OwnCommand
  <2>10. s.pend = <<>> => t.pend = <<OwnEntry>>
    <3>1. v.pend = s.pend
      BY <2>4, <2>6, Zenon DEF StartsRoute, SameButRoute, SamePend
    <3>2. s.pend = <<>> => Len(v.pend) < PendMax /\ Append(v.pend, OwnEntry) = <<OwnEntry>>
      BY <3>1, CatAssumption
    <3> QED BY <2>8, <3>2, Zenon DEF AddsEntry
  <2>11. /\ t \in Work /\ SameTurns(s, t) /\ SameByte(s, t)
         /\ t.decoder = s.decoder /\ t.half = s.half
         /\ t.multi = s.multi /\ t.filter = s.filter /\ t.flush = s.flush /\ t.out = s.out
         /\ t.own = TRUE /\ t.hold = TRUE /\ t.tx = x /\ t.routing = TRUE
         /\ s.routing => t.buf = s.buf
         /\ ~s.routing => t.buf = <<>>
    BY <2>4, <2>6, <2>8, Zenon
       DEF StartsRoute, SameButRoute, AddsEntry, SameTurns, SamePend, SameOwn, SameRoute, SameByte
  <2>12. Asks(s, t)
    BY <2>2, <2>10, <2>11, Zenon DEF Asks
  <2> QED BY <2>9, <2>12, Zenon
<1> QED BY <1>1, <1>2

LEMMA OwnTryFacts ==
  ASSUME NEW s \in Work
  PROVE  \/ own_try(s) = s
         \/ /\ Asks(s, own_try(s))
            /\ ~s.own /\ s.decoder /\ online /\ s.pend = <<>>
            /\ s.turn = None \/ s.fresh
<1>1. CASE s.own \/ ~OwnQueries \/ ~s.decoder \/ ~online \/ s.pend # <<>>
           \/ (s.turn # None /\ ~s.fresh)
  BY <1>1, Zenon DEF own_try
<1>2. CASE ~(s.own \/ ~OwnQueries \/ ~s.decoder \/ ~online \/ s.pend # <<>>
             \/ (s.turn # None /\ ~s.fresh))
  <2>1. own_try(s) = own_send(s)
    BY <1>2, Zenon DEF own_try
  <2> QED BY <1>2, <2>1, OwnSendFacts, Zenon
<1> QED BY <1>1, <1>2

-----------------------------------------------------------------------------
(* The CI-V decoder. *)

\* What becomes of an own query when a frame belongs to it (own) or not.
OwnAfter(s, t, own, kind) ==
  /\ t.tx = s.tx
  /\ own /\ s.own /\ kind # "echo" => t.own = FALSE /\ t.hold = FALSE
  /\ ~(own /\ s.own /\ kind # "echo") => t.own = s.own /\ t.hold = s.hold

CallsBack(s, t, own, client, kind) ==
  /\ t \in Work /\ SameTurns(s, t) /\ SamePend(s, t) /\ SameRoute(s, t)
  /\ OwnAfter(s, t, own, kind)
  /\ own => t.dest = Drop /\ t.answered = s.answered
  /\ ~own => t.dest = FrameDest(s, client, kind)
             /\ t.answered = (client # 0 /\ kind = "reply")

LEMMA DestType ==
  ASSUME NEW s \in Work, NEW client \in Client \cup {0}, NEW kind
  PROVE  FrameDest(s, client, kind) \in Int \ {NoDest}
<1>1. s.turn \in Fd \cup {None} /\ s.slots \in [Client -> Fd \cup {None}]
  BY DEF Work
<1>2. Fd \subseteq Nat
  BY CatAssumption
<1>3. \/ client # 0 /\ s.slots[client] # None /\ FrameDest(s, client, kind) = s.slots[client]
      \/ FrameDest(s, client, kind) = Unsolicited
      \/ s.turn # None /\ FrameDest(s, client, kind) = s.turn
      \/ FrameDest(s, client, kind) = All
  BY Zenon DEF FrameDest, route_default
<1>4. \A fd \in Fd : fd \in Int \ {NoDest}
  BY <1>2 DEF NoDest
<1>5. Unsolicited \in Int \ {NoDest} /\ All \in Int \ {NoDest}
  BY DEF Unsolicited, All, NoDest
<1>6. client # 0 => s.slots[client] \in Fd \cup {None}
  BY <1>1
<1> QED BY <1>1, <1>3, <1>4, <1>5, <1>6

LEMMA FrameCbFacts ==
  ASSUME NEW s \in Work, NEW own \in BOOLEAN, NEW client \in Client \cup {0}, NEW kind
  PROVE  CallsBack(s, frame_cb(s, own, client, kind), own, client, kind)
<1> DEFINE t == frame_cb(s, own, client, kind)
<1>1. CASE own
  <2>1. PICK u : u = IF s.own /\ kind # "echo" THEN own_end(s) ELSE s
    OBVIOUS
  <2>2. PICK d \in Int : d = Drop
    BY DEF Drop
  <2>9. t = [u EXCEPT !.dest = d]
    BY <1>1, <2>1, <2>2 DEF frame_cb
  <2> HIDE DEF t
  <2>3. /\ u \in Work /\ SameTurns(s, u) /\ SamePend(s, u) /\ SameRoute(s, u)
        /\ OwnAfter(s, u, own, kind) /\ u.answered = s.answered
    <3>1. CASE s.own /\ kind # "echo"
      <4>1. EndsOwn(s, u)
        BY <2>1, <3>1, OwnEndFacts, Zenon
      <4> QED BY <1>1, <3>1, <4>1, Zenon DEF EndsOwn, OwnAfter, SameByte
    <3>2. CASE ~(s.own /\ kind # "echo")
      <4>1. u = s
        BY <2>1, <3>2, Zenon
      <4> QED BY <3>2, <4>1, Zenon DEF OwnAfter, SameTurns, SamePend, SameRoute
    <3> QED BY <3>1, <3>2
  <2>4. /\ t \in Work /\ SameTurns(u, t) /\ SamePend(u, t) /\ SameRoute(u, t) /\ SameOwn(u, t)
        /\ t.dest = d /\ t.answered = u.answered
    BY <2>9, <2>3 DEF Work, SameTurns, SamePend, SameRoute, SameOwn
  <2>5. CallsBack(s, t, own, client, kind)
    BY <1>1, <2>2, <2>3, <2>4, Zenon
       DEF CallsBack, OwnAfter, SameTurns, SamePend, SameRoute, SameOwn
  <2> QED BY <2>5 DEF t
<1>2. CASE ~own
  <2>1. PICK d \in Int : d = FrameDest(s, client, kind)
    BY DestType
  <2>2. PICK x \in BOOLEAN : x = (client # 0 /\ kind = "reply")
    OBVIOUS
  <2>3. t = [s EXCEPT !.dest = d, !.answered = x]
    BY <1>2, <2>1, <2>2, Zenon DEF frame_cb
  <2> HIDE DEF t
  <2>4. /\ t \in Work /\ SameTurns(s, t) /\ SamePend(s, t) /\ SameRoute(s, t) /\ SameOwn(s, t)
        /\ t.dest = d /\ t.answered = x
    BY <2>3 DEF Work, SameTurns, SamePend, SameRoute, SameOwn
  <2>5. CallsBack(s, t, own, client, kind)
    BY <1>2, <2>1, <2>2, <2>4, Zenon DEF CallsBack, OwnAfter, SameOwn
  <2> QED BY <2>5 DEF t
<1> QED BY <1>1, <1>2

\* q is p with the echo of p[i] noted.
Echoes(p, q, i) ==
  /\ q \in Seq(Pending) /\ Len(q) = Len(p)
  /\ \A k \in 1..Len(p) :
       /\ q[k].own = p[k].own /\ q[k].kind = p[k].kind /\ q[k].client = p[k].client
       /\ q[k].host = p[k].host /\ q[k].src = p[k].src
       /\ k # i => q[k].echoed = p[k].echoed

LEMMA EchoFacts ==
  ASSUME NEW p \in Seq(Pending), NEW i \in 1..Len(p)
  PROVE  Echoes(p, [p EXCEPT ![i].echoed = TRUE], i)
<1> DEFINE q == [p EXCEPT ![i].echoed = TRUE]
<1>1. \A k \in 1..Len(p) : p[k] \in Pending
  OBVIOUS
<1>2. PICK e \in Pending : e = [p[i] EXCEPT !.echoed = TRUE]
  BY <1>1 DEF Pending
<1>3. e.own = p[i].own /\ e.kind = p[i].kind /\ e.client = p[i].client
      /\ e.host = p[i].host /\ e.src = p[i].src
  BY <1>1, <1>2 DEF Pending
<1>4. q = [p EXCEPT ![i] = e]
  BY <1>2
<1> HIDE DEF q
<1>5. q \in Seq(Pending) /\ Len(q) = Len(p)
      /\ \A k \in 1..Len(p) : q[k] = IF k = i THEN e ELSE p[k]
  BY <1>4
<1>6. Echoes(p, q, i)
  BY <1>3, <1>5 DEF Echoes
<1> QED BY <1>6 DEF q

\* What stays pending when the command i has been answered.
After(p, i) ==
  {j \in 1..Len(p) : j > i \/ (p[j].src = Own) # (p[i].src = Own) \/ p[j].client # p[i].client}

\* Any frame of the radio.
Processes(s, t) ==
  /\ t \in Work /\ SameTurns(s, t) /\ SameRoute(s, t)
  /\ t.decoder = s.decoder /\ t.half = s.half /\ t.tx = s.tx /\ t.dest # NoDest
  /\ (t.own = s.own /\ t.hold = s.hold) \/ (t.own = FALSE /\ t.hold = FALSE)

TakesEcho(s, t, i) ==
  /\ Echoes(s.pend, t.pend, i)
  /\ s.pend[i].own => t.dest = Drop
  /\ ~s.pend[i].own => t.dest = FrameDest(s, s.pend[i].client, "echo")
  /\ t.own = s.own /\ t.answered = (IF s.pend[i].own THEN s.answered ELSE FALSE)

TakesAnswer(s, t, i) ==
  /\ Thins(s.pend, t.pend, After(s.pend, i))
  /\ s.pend[i].own => t.own = FALSE /\ t.dest = Drop
  /\ ~s.pend[i].own => /\ t.own = s.own
                       /\ \E kind \in {"ack", "reply"} :
                            t.dest = FrameDest(s, s.pend[i].client, kind)

LEMMA SameDest ==
  ASSUME NEW s, NEW t, SameTurns(s, t), NEW client, NEW kind
  PROVE  FrameDest(t, client, kind) = FrameDest(s, client, kind)
BY Zenon DEF FrameDest, route_default, SameTurns

\* u is s with other commands pending.
Repends(s, u) ==
  /\ u \in Work /\ SameTurns(s, u) /\ SameOwn(s, u) /\ SameRoute(s, u)
  /\ u.decoder = s.decoder /\ u.half = s.half

CallsBackFrom(s, u, t, own, client, kind) ==
  /\ Processes(s, t) /\ CallsBack(u, t, own, client, kind)
  /\ ~own => t.dest = FrameDest(s, client, kind)

LEMMA CallsBackProcesses ==
  ASSUME NEW s \in Work, NEW u, Repends(s, u),
         NEW own \in BOOLEAN, NEW client \in Client \cup {0}, NEW kind
  PROVE  CallsBackFrom(s, u, frame_cb(u, own, client, kind), own, client, kind)
<1>0. PICK t : t = frame_cb(u, own, client, kind)
  OBVIOUS
<1>1. CallsBack(u, t, own, client, kind)
  BY <1>0, FrameCbFacts, Zenon DEF Repends
<1>2. ~own => t.dest = FrameDest(s, client, kind)
  <2>0. SameTurns(s, u)
    BY Zenon DEF Repends
  <2>1. FrameDest(u, client, kind) = FrameDest(s, client, kind)
    BY <2>0, SameDest
  <2> QED BY <1>1, <2>1, Zenon DEF CallsBack
<1>3. t.dest # NoDest
  <2>1. FrameDest(s, client, kind) # NoDest
    BY DestType
  <2>2. Drop # NoDest
    BY DEF Drop, NoDest
  <2> QED BY <1>1, <1>2, <2>1, <2>2, Zenon DEF CallsBack
<1>4. (t.own = s.own /\ t.hold = s.hold) \/ (t.own = FALSE /\ t.hold = FALSE)
  BY <1>1, Zenon DEF CallsBack, OwnAfter, SameOwn, Repends
<1>5. Processes(s, t)
  BY <1>1, <1>3, <1>4, Zenon
     DEF Processes, CallsBack, OwnAfter, SameTurns, SameRoute, SamePend, SameOwn, Repends
<1> QED BY <1>0, <1>1, <1>2, <1>5, Zenon DEF CallsBackFrom

LEMMA ProcessFacts ==
  ASSUME NEW s \in Work, NEW f \in Frame, f.what # "noise",
         f.what = "echo" => f.src \in Source
  PROVE  LET t == process_radio_frame(s, f)
             i == Least(Candidates(s, f))
         IN  /\ Processes(s, t)
             /\ f.what = "trx" => /\ t.pend = s.pend /\ t.own = s.own /\ t.dest = Unsolicited
                                  /\ t.answered = FALSE
             /\ Candidates(s, f) # {} =>
                  /\ i \in Candidates(s, f) /\ \A k \in Candidates(s, f) : i <= k
                  /\ f.what = "echo" => TakesEcho(s, t, i)
                  /\ f.what = "answer" => TakesAnswer(s, t, i)
<1> DEFINE t == process_radio_frame(s, f)
           i == Least(Candidates(s, f))
           p == s.pend[i]
<1>0. Repends(s, s)
  BY DEF Repends, SameTurns, SameOwn, SameRoute
<1>1. f.what \in {"echo", "answer", "trx"} /\ f.src \in Source \cup {Radio}
      /\ f.kind \in Kind \cup {OwnKind}
  BY DEF Frame
<1>2. s.pend \in Seq(Pending)
  BY DEF Work
<1>3. Candidates(s, f) \subseteq 1..Len(s.pend) /\ Candidates(s, f) \in SUBSET Nat
  BY <1>2 DEF Candidates
<1>4. CASE f.what = "trx"
  <2>1. t = frame_cb(s, FALSE, 0, "unsolicited")
    BY <1>4, Zenon DEF process_radio_frame
  <2> HIDE DEF t
  <2>2. /\ Processes(s, t) /\ CallsBack(s, t, FALSE, 0, "unsolicited")
        /\ t.dest = FrameDest(s, 0, "unsolicited")
    <3>1. FALSE \in BOOLEAN /\ 0 \in Client \cup {0}
      OBVIOUS
    <3> QED BY <1>0, <2>1, <3>1, CallsBackProcesses, ZenonT(40) DEF CallsBackFrom
  <2>3. FrameDest(s, 0, "unsolicited") = Unsolicited
    BY DEF FrameDest
  <2>4. t.pend = s.pend /\ t.own = s.own /\ t.answered = FALSE
    BY <2>2 DEF CallsBack, SamePend, OwnAfter
  <2>5. f.what # "echo" /\ f.what # "answer"
    BY <1>4
  <2> HIDE DEF i
  <2>6. Candidates(s, f) # {} => i \in Candidates(s, f) /\ \A k \in Candidates(s, f) : i <= k
    BY <1>3, LeastFacts, Zenon DEF i
  <2> QED BY <2>2, <2>3, <2>4, <2>5, <2>6, Zenon DEF t, i
<1>5. CASE f.what # "trx" /\ Candidates(s, f) # {}
  <2>1. i \in Candidates(s, f) /\ \A k \in Candidates(s, f) : i <= k
    BY <1>3, <1>5, LeastFacts, Zenon
  <2>2. PICK j \in 1..Len(s.pend) : j = i
    BY <1>3, <2>1
  <2>3. PICK e \in Pending : e = s.pend[j]
    BY <1>2
  <2>4. e.own \in BOOLEAN /\ e.client \in Client \cup {0}
    BY DEF Pending
  <2>5. CASE f.what = "echo"
    <3>1. PICK q : q = [s.pend EXCEPT ![j].echoed = TRUE]
      OBVIOUS
    <3>2. Echoes(s.pend, q, j)
      BY <1>2, <3>1, EchoFacts, Zenon
    <3>3. PICK u : u = [s EXCEPT !.pend = q]
      OBVIOUS
    <3>4. u = [s EXCEPT !.pend[j].echoed = TRUE]
      BY <3>1, <3>3
    <3>5. t = frame_cb(u, e.own, e.client, "echo")
      BY <1>5, <2>2, <2>3, <2>5, <3>4, Zenon DEF process_radio_frame
    <3>6. q \in Seq(Pending)
      BY <3>2 DEF Echoes
    <3>7. /\ u \in Work /\ SameTurns(s, u) /\ SameOwn(s, u) /\ SameRoute(s, u) /\ SameByte(s, u)
          /\ u.decoder = s.decoder /\ u.half = s.half /\ u.pend = q
      BY <3>3, <3>6 DEF Work, SameTurns, SameOwn, SameRoute, SameByte
    <3> HIDE DEF t
    <3>8. /\ Processes(s, t) /\ CallsBack(u, t, e.own, e.client, "echo")
          /\ ~e.own => t.dest = FrameDest(s, e.client, "echo")
      <4>1. Repends(s, u)
        BY <3>7, Zenon DEF Repends
      <4>2. CallsBackFrom(s, u, frame_cb(u, e.own, e.client, "echo"), e.own, e.client, "echo")
        BY <2>4, <4>1, CallsBackProcesses
      <4> QED BY <3>5, <4>2, Zenon DEF CallsBackFrom
    <3>9. t.pend = q /\ t.own = s.own /\ (e.own => t.dest = Drop /\ t.answered = s.answered)
          /\ (~e.own => t.answered = FALSE)
      BY <3>7, <3>8 DEF CallsBack, OwnAfter, SamePend, SameOwn, SameByte
    <3>10. t.answered = (IF e.own THEN s.answered ELSE FALSE)
      BY <3>9
    <3>11. TakesEcho(s, t, j)
      BY <2>3, <3>2, <3>8, <3>9, <3>10, Zenon DEF TakesEcho
    <3>12. f.what # "answer" /\ f.what # "trx"
      BY <2>5
    <3> QED BY <2>1, <2>2, <3>8, <3>11, <3>12, Zenon DEF t
  <2>6. CASE f.what = "answer"
    <3>1. PICK q : q = pend_consume(s.pend, j)
      OBVIOUS
    <3>2. q = Keep(s.pend, After(s.pend, j))
      BY <3>1, Zenon DEF pend_consume, After
    <3>3. Thins(s.pend, q, After(s.pend, j))
      <4>1. After(s.pend, j) \in SUBSET (1..Len(s.pend))
        BY DEF After
      <4> QED BY <1>2, <3>2, <4>1, KeepFacts, Zenon DEF Thins
    <3>4. PICK u : u = [s EXCEPT !.pend = q]
      OBVIOUS
    <3>5. u = [s EXCEPT !.pend = pend_consume(@, j)]
      BY <3>1, <3>4 DEF Work
    <3>6. PICK kind : kind = IF f.kind \in Set THEN "ack" ELSE "reply"
      OBVIOUS
    <3>7. t = frame_cb(u, e.own, e.client, kind)
      <4>1. f.what # "echo" /\ f.what # "trx"
        BY <2>6
      <4> QED BY <1>5, <2>2, <2>3, <2>6, <3>5, <3>6, <4>1, Zenon DEF process_radio_frame
    <3>8. q \in Seq(Pending)
      BY <3>3 DEF Thins
    <3>9. /\ u \in Work /\ SameTurns(s, u) /\ SameOwn(s, u) /\ SameRoute(s, u) /\ SameByte(s, u)
          /\ u.decoder = s.decoder /\ u.half = s.half /\ u.pend = q
      BY <3>4, <3>8 DEF Work, SameTurns, SameOwn, SameRoute, SameByte
    <3> HIDE DEF t
    <3>10. /\ Processes(s, t) /\ CallsBack(u, t, e.own, e.client, kind)
           /\ ~e.own => t.dest = FrameDest(s, e.client, kind)
      <4>1. Repends(s, u)
        BY <3>9, Zenon DEF Repends
      <4>2. CallsBackFrom(s, u, frame_cb(u, e.own, e.client, kind), e.own, e.client, kind)
        BY <2>4, <4>1, CallsBackProcesses
      <4> QED BY <3>7, <4>2, Zenon DEF CallsBackFrom
    <3>11. kind \in {"ack", "reply"} /\ kind # "echo"
      BY <3>6
    <3>12. t.pend = q /\ (e.own => t.dest = Drop) /\ (~e.own => t.own = s.own)
      BY <3>9, <3>10 DEF CallsBack, OwnAfter, SamePend, SameOwn
    <3>13. e.own => t.own = FALSE
      <4>1. s.own \in BOOLEAN /\ u.own = s.own
        BY <3>9 DEF Work, SameOwn
      <4> QED BY <3>10, <3>11, <4>1 DEF CallsBack, OwnAfter
    <3>14. TakesAnswer(s, t, j)
      BY <2>3, <3>3, <3>10, <3>11, <3>12, <3>13, Zenon DEF TakesAnswer
    <3>15. f.what # "echo" /\ f.what # "trx"
      BY <2>6
    <3> QED BY <2>1, <2>2, <3>10, <3>14, <3>15, Zenon DEF t
  <2> QED BY <1>1, <1>5, <2>5, <2>6
<1>6. CASE f.what # "trx" /\ Candidates(s, f) = {}
  <2>1. PICK u : u = IF f.what = "echo"
                     THEN pend_add(s, [own |-> FALSE, kind |-> f.kind, client |-> 0,
                                       host |-> FALSE, echoed |-> TRUE, src |-> f.src])
                     ELSE s
    OBVIOUS
  <2>2. PICK kind : kind = IF f.what = "echo" THEN "command" ELSE "unmatched"
    OBVIOUS
  <2>3. t = frame_cb(u, FALSE, 0, kind)
    <3>1. CASE f.what = "echo"
      BY <1>6, <2>1, <2>2, <3>1, Zenon DEF process_radio_frame
    <3>2. CASE f.what = "answer"
      <4>1. f.what # "echo" /\ f.what # "trx"
        BY <3>2
      <4> QED BY <1>6, <2>1, <2>2, <3>2, <4>1, Zenon DEF process_radio_frame
    <3> QED BY <1>1, <1>6, <3>1, <3>2
  <2>4. Repends(s, u)
    <3>1. CASE f.what = "echo" /\ f.src \in Source
      <4>1. PICK e \in Pending : e = [own |-> FALSE, kind |-> f.kind, client |-> 0,
                                      host |-> FALSE, echoed |-> TRUE, src |-> f.src]
        BY <1>1, <3>1 DEF Pending
      <4>2. u = pend_add(s, e)
        BY <2>1, <3>1, <4>1
      <4>3. AddsEntry(s, u, e)
        BY <4>2, PendAddFacts, Zenon
      <4> QED BY <4>3, Zenon DEF AddsEntry, Repends
    <3>2. CASE f.what # "echo"
      <4>1. u = s
        BY <2>1, <3>2
      <4> QED BY <1>0, <4>1
    <3> QED BY <1>6, <3>1, <3>2
  <2> HIDE DEF t
  <2>5. Processes(s, t)
    <3>1. FALSE \in BOOLEAN /\ 0 \in Client \cup {0}
      OBVIOUS
    <3> QED BY <2>3, <2>4, <3>1, CallsBackProcesses, Zenon DEF CallsBackFrom
  <2> QED BY <1>6, <2>5, Zenon DEF t
<1> QED BY <1>4, <1>5, <1>6

-----------------------------------------------------------------------------
(* The invariants.  Those that depend on nobody being late speak of a work      *)
(* record s, of the commands ln on the line and of the frames fr of the radio,  *)
(* so that they can be followed through a handler.                              *)

\* Nobody connects on a descriptor that is still busy, and everything fits: the
\* decoder has a client number for every descriptor, no pending command has to make
\* room, and the router's buffer holds what is not a complete frame.
Room ==
  /\ ~JoinBusy
  /\ Cardinality(Fd) <= MaxClients
  /\ MaxPipe < PendMax
  /\ MaxTrx + 1 < RouteMax

Types ==
  /\ prods \in Seq(App)
  /\ fdOf \in [App -> Fd \cup {None, Gone}]
  /\ sock \in [App -> Seq(Kind)]
  /\ line \in Seq(Command)
  /\ fromR \in Seq(Frame)
  /\ begun \in BOOLEAN
  /\ cn \in CatnType
  /\ online \in BOOLEAN
  /\ count \in [{"lost", "late", "trx", "off"} -> Nat]

Connectors ==
  /\ \A k, j \in 1..Len(prods) : prods[k] = prods[j] => k = j
  /\ \A x \in App : x \in Connected <=> fdOf[x] \in Fd
  /\ \A x, y \in Connected : fdOf[x] = fdOf[y] => x = y
  /\ \A x \in App : Len(sock[x]) <= 1 /\ (sock[x] # <<>> => x \in Connected)

Modes ==
  /\ cn.hold = cn.own
  /\ cn.own => online
  /\ online => cn.decoder
  /\ ~online => fromR = <<>>

\* What is not the radio's own follows a command, and its echo comes before its answer.
Frames(fr) ==
  \A j \in 1..Len(fr) :
    /\ fr[j].what \in {"trx", "noise"} <=> fr[j].src = Radio
    /\ fr[j].what = "echo" =>
         /\ j + 1 \in 1..Len(fr) /\ fr[j + 1].what = "answer"
         /\ fr[j + 1].src = fr[j].src /\ fr[j + 1].kind = fr[j].kind
         /\ fr[j + 1].turn = fr[j].turn

\* Descriptors have client numbers of their own.
Slots(s) ==
  /\ \A i, j \in Client : s.slots[i] = s.slots[j] /\ s.slots[i] # None => i = j
  /\ s.turn = None => s.client = 0
  /\ s.turn # None => s.client \in Client /\ s.slots[s.client] = s.turn

\* Without a decoder there are no turns and nothing is pending.
Idle(s) == ~s.decoder => s.turn = None /\ s.pend = <<>>

\* Pending commands: those of mhuxd come first; the number of the others is that of
\* the connector of the application that sent them, as long as it exists.
EntryOk(s, k) ==
  /\ s.pend[k].host
  /\ s.pend[k].own <=> s.pend[k].src = Own
  /\ s.pend[k].own => k = 1
  /\ s.pend[k].src \in App =>
       /\ s.pend[k].client # 0 /\ s.slots[s.pend[k].client] # None
       /\ fdOf[s.pend[k].src] # None
       /\ \A x \in Connected : fdOf[x] = s.slots[s.pend[k].client] <=> x = s.pend[k].src

SameSender(p, e) == p.src \in App /\ e.src \in App /\ p.client = e.client => p.src = e.src

Entries(s) ==
  /\ \A k \in 1..Len(s.pend) : EntryOk(s, k)
  /\ \A k, j \in 1..Len(s.pend) : SameSender(s.pend[k], s.pend[j])

PendOf(p, x) == {k \in 1..Len(p) : p[k].src = x}

\* An application that has sent a command has not sent too many.
Bound(s) == \A x \in App : sock[x] # <<>> => Cardinality(PendOf(s.pend, x)) < MaxPipe

\* Commands of applications are those of the one that has the turn, or the only one
\* there is.
Turns(s) ==
  \A k \in 1..Len(s.pend) :
    s.pend[k].src \in App /\ (online \/ k >= 2) =>
      /\ s.turn # None => s.pend[k].client = s.client /\ ~s.fresh
      /\ s.turn = None => Connected \subseteq {s.pend[k].src}

\* While mhuxd waits for an answer nobody else does.
OwnOnly(s) == s.own => \A k \in 1..Len(s.pend) : s.pend[k].own

\* What all applications would see may be seen by all.
Lonely(s) ==
  \A k \in 1..Len(s.pend) :
    /\ s.pend[k].src \in App /\ online =>
         /\ ~s.multi => Len(prods) <= 1
         /\ ~s.routing => Connected \subseteq {s.pend[k].src}
    /\ s.pend[k].own => s.routing

Answers(fr) == {j \in 1..Len(fr) : fr[j].what = "answer"}

\* Commands that will be answered, or that were sent in a turn.
Sent(ln) == {k \in 1..Len(ln) : online \/ ln[k].turn}

\* The command or answer x has the pending command e; its sender still has the turn.
Awaited(s, x, e) ==
  /\ s.pend[e].src = x.src /\ s.pend[e].kind = x.kind
  /\ x.turn /\ x.src \in App => s.turn # None /\ s.pend[e].client = s.client /\ ~s.fresh

Increasing(S, f) == \A i, j \in S : i < j => f[i] < f[j]
Before(S, f, T, g) == \A i \in S, j \in T : f[i] < g[j]

\* An echo still to come is not noted yet.
AnswersMatch(s, fr, er) ==
  \A j \in Answers(fr) :
    /\ Awaited(s, fr[j], er[j])
    /\ j > 1 /\ fr[j - 1].what = "echo" => ~s.pend[er[j]].echoed
SentMatch(s, ln, el) ==
  \A j \in Sent(ln) : Awaited(s, ln[j], el[j]) /\ ~s.pend[el[j]].echoed

\* Whatever is under way is pending, in its order: er and el say where.
Tracks(s, ln, fr, er, el) ==
  /\ er \in [Answers(fr) -> 1..Len(s.pend)] /\ Increasing(Answers(fr), er)
  /\ el \in [Sent(ln) -> 1..Len(s.pend)] /\ Increasing(Sent(ln), el)
  /\ Before(Answers(fr), er, Sent(ln), el)
  /\ AnswersMatch(s, fr, er) /\ SentMatch(s, ln, el)

Tracked(s, ln, fr) == \E er, el : Tracks(s, ln, fr, er, el)

\* The parts in the buffer are the radio's own, but for the start of a frame.
Parts(s, fr, bg) ==
  /\ bg => fr # <<>> /\ fr[1].what # "noise" /\ s.half
  /\ ~s.routing => s.buf = <<>>
  /\ \A k \in 1..Len(s.buf) : s.buf[k] = Radio \/ (bg /\ s.buf[k] = Owner(fr[1]))

Noise(fr) == {j \in 1..Len(fr) : fr[j].what = "noise"}

\* The parts in the buffer and the noise still to come, of at most m.
Counts(s, fr, bg, m, n, nr) ==
  /\ n \in Nat /\ n <= m
  /\ Len(s.buf) <= n + (IF bg THEN 1 ELSE 0)
  /\ nr \in [Noise(fr) -> (n + 1)..m]
  /\ \A i, j \in Noise(fr) : i < j => nr[i] < nr[j]

Buffered(s, fr, bg, m) == \E n, nr : Counts(s, fr, bg, m, n, nr)

\* No application sees what belongs to another one or to mhuxd.
Clean(s) ==
  \A e \in Emitted(s) :
    /\ e.src = Own => e.to = {}
    /\ e.src \in App => e.to \subseteq {e.src}

\* What the turns and the decoder rely on, and what the routing relies on.
Waiting(s, ln, fr) ==
  /\ Slots(s) /\ Idle(s) /\ Entries(s) /\ Turns(s) /\ OwnOnly(s)
  /\ Tracked(s, ln, fr)

Core(s, ln, fr) == Waiting(s, ln, fr) /\ Bound(s)

Routes(s, fr, bg, m) == Lonely(s) /\ Parts(s, fr, bg) /\ Buffered(s, fr, bg, m)

Always == Types /\ Connectors /\ Modes /\ Frames(fromR)

InvInTime ==
  /\ Core(cn, line, fromR)
  /\ Routes(cn, fromR, begun, count["trx"]) /\ count["trx"] <= MaxTrx
  /\ stray = {} /\ ~leaked /\ ~missed

Inv == Always /\ (InTime => InvInTime)

LEMMA SameSlots ==
  ASSUME NEW s, NEW t, t.slots = s.slots, t.turn = s.turn, t.client = s.client, Slots(s)
  PROVE  Slots(t)
<1>1. \A i, j \in Client : t.slots[i] = t.slots[j] /\ t.slots[i] # None => i = j
  BY DEF Slots
<1>2. t.turn = None => t.client = 0
  BY DEF Slots
<1>3. t.turn # None => t.client \in Client /\ t.slots[t.client] = t.turn
  BY DEF Slots
<1> QED BY <1>1, <1>2, <1>3 DEF Slots

LEMMA SameIdle ==
  ASSUME NEW s, NEW t, t.pend = s.pend, t.decoder = s.decoder, t.turn = s.turn, Idle(s)
  PROVE  Idle(t)
BY DEF Idle

LEMMA TurnSlots ==
  ASSUME NEW s, NEW t, SameTurns(s, t), Slots(s)
  PROVE  Slots(t)
<1>1. t.slots = s.slots /\ t.turn = s.turn /\ t.client = s.client
  BY DEF SameTurns
<1> QED BY <1>1, SameSlots, Zenon


-----------------------------------------------------------------------------
(* The pending commands when some are given up. *)

\* From s to t: the commands K are still pending, client numbers are kept, and the turn
\* only passes on when no command K was sent in it.
Evolves(s, t, pos, K) ==
  /\ s \in Work /\ t \in Work
  /\ Moves(pos, K, s.pend, t.pend)
  /\ \A i \in Client : s.slots[i] # None => t.slots[i] = s.slots[i]
  /\ t.own => s.own
  /\ \A k \in K : s.pend[k].src \in App /\ s.turn # None /\ ~s.fresh /\ s.pend[k].client = s.client
        => t.turn # None /\ t.client = s.client /\ ~t.fresh
  /\ s.turn = None => t.turn = None \/ Len(prods) > 1

LEMMA SameMoves ==
  ASSUME NEW p \in Seq(Pending)
  PROVE  Moves([k \in 1..Len(p) |-> k], 1..Len(p), p, p)
<1> DEFINE pos == [k \in 1..Len(p) |-> k]
<1>1. DOMAIN p = 1..Len(p) /\ Len(p) \in Nat
  OBVIOUS
<1>2. pos \in [1..Len(p) -> 1..Len(p)] /\ \A k \in 1..Len(p) : pos[k] = k
  OBVIOUS
<1> HIDE DEF pos
<1>3. Moves(pos, 1..Len(p), p, p)
  BY <1>1, <1>2 DEF Moves
<1> QED BY <1>3 DEF pos

\* Where a pending command of t comes from.
CameFrom(s, t, pos, K) ==
  /\ s.pend \in Seq(Pending) /\ t.pend \in Seq(Pending)
  /\ K \subseteq 1..Len(s.pend)
  /\ \A n \in 1..Len(t.pend) : \E k \in K : pos[k] = n /\ t.pend[n] = s.pend[k] /\ n <= k
  /\ \A k \in K : pos[k] \in 1..Len(t.pend) /\ t.pend[pos[k]] = s.pend[k]
  /\ \A i, j \in K : i < j => pos[i] < pos[j]

LEMMA MovedFrom ==
  ASSUME NEW s, NEW t, NEW pos, NEW K, Evolves(s, t, pos, K)
  PROVE  CameFrom(s, t, pos, K)
<1>1. s.pend \in Seq(Pending) /\ t.pend \in Seq(Pending)
  BY DEF Evolves, Work
<1>2. DOMAIN s.pend = 1..Len(s.pend) /\ DOMAIN t.pend = 1..Len(t.pend)
  BY <1>1
<1>3. Moves(pos, K, s.pend, t.pend)
  BY Zenon DEF Evolves
<1>4. K \subseteq 1..Len(s.pend) /\ pos \in [K -> 1..Len(t.pend)]
  BY <1>2, <1>3, Zenon DEF Moves
<1>5. \A n \in 1..Len(t.pend) : \E k \in K : pos[k] = n /\ t.pend[n] = s.pend[k] /\ n <= k
  BY <1>2, <1>3, Zenon DEF Moves
<1> QED BY <1>1, <1>3, <1>4, <1>5, Zenon DEF Moves, CameFrom

LEMMA MovedEntries ==
  ASSUME NEW s, NEW t, NEW pos, NEW K, Evolves(s, t, pos, K), Entries(s)
  PROVE  Entries(t)
<1>1. /\ s.pend \in Seq(Pending) /\ t.pend \in Seq(Pending) /\ K \subseteq 1..Len(s.pend)
      /\ \A n \in 1..Len(t.pend) : \E k \in K : t.pend[n] = s.pend[k] /\ n <= k
  BY MovedFrom DEF CameFrom
<1>2. \A k \in 1..Len(s.pend) : s.pend[k] \in Pending
  BY <1>1
<1>3. ASSUME NEW n \in 1..Len(t.pend)
      PROVE  EntryOk(t, n)
  <2>1. PICK k \in 1..Len(s.pend) : t.pend[n] = s.pend[k] /\ n <= k
    BY <1>1
  <2>2. PICK e \in Pending : e = s.pend[k]
    BY <1>2
  <2>3. e.client \in Client \cup {0}
    BY DEF Pending
  <2>4. /\ e.host
        /\ e.own <=> e.src = Own
        /\ e.own => k = 1
        /\ e.src \in App =>
             /\ e.client # 0 /\ s.slots[e.client] # None
             /\ fdOf[e.src] # None
             /\ \A x \in Connected : fdOf[x] = s.slots[e.client] <=> x = e.src
    BY <2>2, Zenon DEF Entries, EntryOk
  <2>5. e.src \in App => t.slots[e.client] = s.slots[e.client]
    <3>1. e.src \in App => e.client \in Client
      BY <2>3, <2>4
    <3> QED BY <2>4, <3>1, Zenon DEF Evolves
  <2>6. e.own => n = 1
    BY <2>1, <2>4
  <2>7. e = t.pend[n]
    BY <2>1, <2>2
  <2> QED BY <2>4, <2>5, <2>6, <2>7, Zenon DEF EntryOk
<1>4. ASSUME NEW n \in 1..Len(t.pend), NEW m \in 1..Len(t.pend)
      PROVE  SameSender(t.pend[n], t.pend[m])
  <2>1. PICK k \in 1..Len(s.pend), j \in 1..Len(s.pend) :
          t.pend[n] = s.pend[k] /\ t.pend[m] = s.pend[j]
    BY <1>1
  <2> QED BY <2>1, Zenon DEF Entries
<1> QED BY <1>3, <1>4, Zenon DEF Entries

LEMMA MovedTurns ==
  ASSUME NEW s, NEW t, NEW pos, NEW K, Evolves(s, t, pos, K), Turns(s), Connectors,
         prods \in Seq(App)
  PROVE  Turns(t)
<1>1. /\ s.pend \in Seq(Pending) /\ t.pend \in Seq(Pending) /\ K \subseteq 1..Len(s.pend)
      /\ \A n \in 1..Len(t.pend) : \E k \in K : t.pend[n] = s.pend[k] /\ n <= k
  BY MovedFrom DEF CameFrom
<1>2. Len(prods) > 1 => \A x : ~(Connected \subseteq {x})
  <2> SUFFICES ASSUME Len(prods) > 1, NEW x, Connected \subseteq {x}
               PROVE  FALSE
    OBVIOUS
  <2>1. 1 \in 1..Len(prods) /\ 2 \in 1..Len(prods)
    OBVIOUS
  <2>2. prods[1] = x /\ prods[2] = x
    BY <2>1 DEF Connected
  <2> QED BY <2>1, <2>2 DEF Connectors
<1> SUFFICES ASSUME NEW n \in 1..Len(t.pend), t.pend[n].src \in App, online \/ n >= 2
             PROVE  /\ t.turn # None => t.pend[n].client = t.client /\ ~t.fresh
                    /\ t.turn = None => Connected \subseteq {t.pend[n].src}
  BY Zenon DEF Turns
<1>3. PICK k \in K : t.pend[n] = s.pend[k] /\ n <= k
  BY <1>1
<1>4. k \in 1..Len(s.pend) /\ (online \/ k >= 2)
  BY <1>1, <1>3
<1>5. /\ s.turn # None => s.pend[k].client = s.client /\ ~s.fresh
      /\ s.turn = None => Connected \subseteq {s.pend[k].src}
  BY <1>3, <1>4, Zenon DEF Turns
<1>6. CASE s.turn # None
  <2>1. t.turn # None /\ t.client = s.client /\ ~t.fresh
    BY <1>3, <1>5, <1>6, Zenon DEF Evolves
  <2> QED BY <1>3, <1>5, <1>6, <2>1, Zenon
<1>7. CASE s.turn = None
  <2>1. t.turn = None
    BY <1>2, <1>5, <1>7, Zenon DEF Evolves
  <2> QED BY <1>3, <1>5, <1>7, <2>1, Zenon
<1> QED BY <1>6, <1>7

LEMMA MovedOwnOnly ==
  ASSUME NEW s, NEW t, NEW pos, NEW K, Evolves(s, t, pos, K), OwnOnly(s)
  PROVE  OwnOnly(t)
<1>1. /\ K \subseteq 1..Len(s.pend)
      /\ \A n \in 1..Len(t.pend) : \E k \in K : t.pend[n] = s.pend[k] /\ n <= k
  BY MovedFrom DEF CameFrom
<1>2. t.own => s.own
  BY Zenon DEF Evolves
<1>3. \A n \in 1..Len(t.pend) : \E k \in 1..Len(s.pend) : t.pend[n] = s.pend[k]
  BY <1>1
<1> QED BY <1>2, <1>3, Zenon DEF OwnOnly

LEMMA PendOfType ==
  ASSUME NEW p \in Seq(Pending), NEW x
  PROVE  IsFiniteSet(PendOf(p, x)) /\ Cardinality(PendOf(p, x)) \in Nat
<1>1. IsFiniteSet(1..Len(p)) /\ PendOf(p, x) \subseteq 1..Len(p)
  <2>1. Len(p) \in Nat
    OBVIOUS
  <2> QED BY <2>1, FS_Interval DEF PendOf
<1> QED BY <1>1, FS_Subset, FS_CardinalityType

LEMMA MovedBound ==
  ASSUME NEW s, NEW t, NEW pos, NEW K, Evolves(s, t, pos, K), Bound(s)
  PROVE  Bound(t)
<1>1. /\ s.pend \in Seq(Pending) /\ t.pend \in Seq(Pending) /\ K \subseteq 1..Len(s.pend)
      /\ \A n \in 1..Len(t.pend) : \E k \in K : pos[k] = n /\ t.pend[n] = s.pend[k]
      /\ \A k \in K : pos[k] \in 1..Len(t.pend) /\ t.pend[pos[k]] = s.pend[k]
  BY MovedFrom DEF CameFrom
<1> SUFFICES ASSUME NEW x \in App, sock[x] # <<>>
             PROVE  Cardinality(PendOf(t.pend, x)) < MaxPipe
  BY DEF Bound
<1> DEFINE A == {k \in K : s.pend[k].src = x}
           f == [k \in A |-> pos[k]]
<1>2. IsFiniteSet(PendOf(s.pend, x)) /\ Cardinality(PendOf(s.pend, x)) \in Nat
  BY <1>1, PendOfType
<1>3. A \subseteq PendOf(s.pend, x)
  BY <1>1 DEF PendOf
<1>4. IsFiniteSet(A) /\ Cardinality(A) <= Cardinality(PendOf(s.pend, x)) /\ Cardinality(A) \in Nat
  BY <1>2, <1>3, FS_Subset, FS_CardinalityType
<1>5. f \in Surjection(A, PendOf(t.pend, x))
  <2>1. \A k \in A : f[k] \in PendOf(t.pend, x)
    BY <1>1 DEF PendOf
  <2>2. \A n \in PendOf(t.pend, x) : \E k \in A : f[k] = n
    BY <1>1 DEF PendOf
  <2> HIDE DEF A
  <2>3. f \in [A -> PendOf(t.pend, x)]
    BY <2>1
  <2> QED BY <2>2, <2>3, Zenon DEF Surjection
<1> HIDE DEF A, f
<1>6. Cardinality(PendOf(t.pend, x)) <= Cardinality(A)
  BY <1>4, <1>5, FS_Surjection, Zenon
<1>7. Cardinality(PendOf(t.pend, x)) \in Nat
  BY <1>1, PendOfType
<1>8. Cardinality(PendOf(s.pend, x)) < MaxPipe
  BY DEF Bound
<1> QED BY <1>2, <1>4, <1>6, <1>7, <1>8, CatAssumption

LEMMA MovedTracks ==
  ASSUME NEW s, NEW t, NEW pos, NEW K, Evolves(s, t, pos, K),
         NEW ln \in Seq(Command), NEW fr \in Seq(Frame), NEW er, NEW el,
         Tracks(s, ln, fr, er, el),
         \A j \in Answers(fr) : er[j] \in K,
         \A j \in Sent(ln) : el[j] \in K
  PROVE  Tracked(t, ln, fr)
<1> DEFINE fer == [j \in Answers(fr) |-> pos[er[j]]]
           fel == [j \in Sent(ln) |-> pos[el[j]]]
<1>1. /\ K \subseteq 1..Len(s.pend)
      /\ \A k \in K : pos[k] \in 1..Len(t.pend) /\ t.pend[pos[k]] = s.pend[k]
      /\ \A i, j \in K : i < j => pos[i] < pos[j]
  BY MovedFrom DEF CameFrom
<1>2. \A x : \A k \in K : Awaited(s, x, k) => Awaited(t, x, pos[k])
  <2> TAKE x
  <2> TAKE k \in K
  <2> HAVE Awaited(s, x, k)
  <2>1. t.pend[pos[k]] = s.pend[k]
    BY <1>1
  <2>2. x.turn /\ x.src \in App =>
          /\ s.pend[k].src \in App /\ s.turn # None /\ ~s.fresh /\ s.pend[k].client = s.client
    BY Zenon DEF Awaited
  <2>3. x.turn /\ x.src \in App => t.turn # None /\ t.client = s.client /\ ~t.fresh
    BY <2>2, Zenon DEF Evolves
  <2> QED BY <2>1, <2>2, <2>3, Zenon DEF Awaited
<1>3. /\ \A j \in Answers(fr) : fer[j] = pos[er[j]]
      /\ \A j \in Sent(ln) : fel[j] = pos[el[j]]
  OBVIOUS
<1>4. fer \in [Answers(fr) -> 1..Len(t.pend)]
  BY <1>1
<1>5. fel \in [Sent(ln) -> 1..Len(t.pend)]
  BY <1>1
<1> HIDE DEF fer, fel
<1>6. Tracks(t, ln, fr, fer, fel)
  <2>1. Increasing(Answers(fr), fer)
    BY <1>1, <1>3, Zenon DEF Tracks, Increasing
  <2>2. Increasing(Sent(ln), fel)
    BY <1>1, <1>3, Zenon DEF Tracks, Increasing
  <2>3. Before(Answers(fr), fer, Sent(ln), fel)
    BY <1>1, <1>3, Zenon DEF Tracks, Before
  <2>4. AnswersMatch(t, fr, fer)
    BY <1>1, <1>2, <1>3, ZenonT(40) DEF Tracks, AnswersMatch
  <2>5. SentMatch(t, ln, fel)
    BY <1>1, <1>2, <1>3, ZenonT(40) DEF Tracks, SentMatch
  <2> QED BY <1>4, <1>5, <2>1, <2>2, <2>3, <2>4, <2>5, Zenon DEF Tracks
<1> QED BY <1>6, Zenon DEF Tracked

\* Everything at once.
LEMMA MovedCore ==
  ASSUME NEW s, NEW t, NEW pos, NEW K, Evolves(s, t, pos, K),
         NEW ln \in Seq(Command), NEW fr \in Seq(Frame),
         Core(s, ln, fr), Connectors, prods \in Seq(App), Slots(t), Idle(t),
         \A er, el : Tracks(s, ln, fr, er, el) =>
            /\ \A j \in Answers(fr) : er[j] \in K
            /\ \A j \in Sent(ln) : el[j] \in K
  PROVE  Core(t, ln, fr)
<1>1. Entries(t) /\ Turns(t) /\ OwnOnly(t) /\ Bound(t)
  BY MovedEntries, MovedTurns, MovedOwnOnly, MovedBound, Zenon DEF Core, Waiting
<1>2. PICK er, el : Tracks(s, ln, fr, er, el)
  BY Zenon DEF Core, Waiting, Tracked
<1>3. Tracked(t, ln, fr)
  BY <1>2, MovedTracks, Zenon
<1> QED BY <1>1, <1>3, Zenon DEF Core, Waiting

\* Nothing changes but the turn.
LEMMA KeptCore ==
  ASSUME NEW s \in Work, NEW t \in Work, t.pend = s.pend,
         \A i \in Client : s.slots[i] # None => t.slots[i] = s.slots[i],
         t.own => s.own,
         s.turn # None /\ ~s.fresh => t.turn # None /\ t.client = s.client /\ ~t.fresh,
         s.turn = None => t.turn = None \/ Len(prods) > 1,
         NEW ln \in Seq(Command), NEW fr \in Seq(Frame),
         Core(s, ln, fr), Connectors, prods \in Seq(App), Slots(t), Idle(t)
  PROVE  Core(t, ln, fr)
<1> DEFINE K == 1..Len(s.pend)
           pos == [k \in K |-> k]
<1>1. Moves(pos, K, s.pend, t.pend)
  BY SameMoves DEF Work
<1> HIDE DEF pos
<1>2. Evolves(s, t, pos, K)
  BY <1>1, Zenon DEF Evolves
<1>3. \A er, el : Tracks(s, ln, fr, er, el) =>
        /\ \A j \in Answers(fr) : er[j] \in K
        /\ \A j \in Sent(ln) : el[j] \in K
  BY DEF Tracks
<1> HIDE DEF K
<1> QED BY <1>2, <1>3, MovedCore, Zenon

\* What a handler keeps from step to step.
Good(s, ln, fr, bg, m) == Core(s, ln, fr) /\ Routes(s, fr, bg, m) /\ Clean(s)

LEMMA KeptRoutes ==
  ASSUME NEW s, NEW t, NEW pos, NEW K, CameFrom(s, t, pos, K), SameRoute(s, t),
         NEW fr, NEW bg, NEW m, Routes(s, fr, bg, m), Clean(s), bg => t.half
  PROVE  Routes(t, fr, bg, m) /\ Clean(t)
<1>1. Lonely(t)
  <2>1. \A n \in 1..Len(t.pend) : \E k \in 1..Len(s.pend) : t.pend[n] = s.pend[k]
    BY DEF CameFrom
  <2>2. t.multi = s.multi /\ t.routing = s.routing
    BY DEF SameRoute
  <2> QED BY <2>1, <2>2, Zenon DEF Routes, Lonely
<1>2. t.buf = s.buf /\ t.routing = s.routing /\ t.out = s.out
  BY DEF SameRoute
<1>3. Parts(t, fr, bg)
  BY <1>2, Zenon DEF Routes, Parts
<1>4. Buffered(t, fr, bg, m)
  <2>1. \A n, nr : Counts(s, fr, bg, m, n, nr) => Counts(t, fr, bg, m, n, nr)
    BY <1>2, Zenon DEF Counts
  <2> QED BY <2>1, Zenon DEF Routes, Buffered
<1>5. Clean(t)
  BY <1>2, Zenon DEF Clean, Emitted
<1> QED BY <1>1, <1>3, <1>4, <1>5, Zenon DEF Routes

LEMMA SameCameFrom ==
  ASSUME NEW s, NEW t, s.pend \in Seq(Pending), t.pend = s.pend
  PROVE  CameFrom(s, t, [k \in 1..Len(s.pend) |-> k], 1..Len(s.pend))
<1> DEFINE pos == [k \in 1..Len(s.pend) |-> k]
<1>1. \A k \in 1..Len(s.pend) : pos[k] = k /\ k \in Nat
  OBVIOUS
<1> HIDE DEF pos
<1>2. \A k \in 1..Len(s.pend) : k <= k
  BY <1>1
<1>3. \A i, j \in 1..Len(s.pend) : i < j => pos[i] < pos[j]
  BY <1>1
<1>4. CameFrom(s, t, pos, 1..Len(s.pend))
  BY <1>1, <1>2, <1>3, Zenon DEF CameFrom
<1> QED BY <1>4 DEF pos

-----------------------------------------------------------------------------
(* Passing the turn on. *)

\* There is a client number for every descriptor.
LEMMA ClientFacts ==
  ASSUME Room, NEW s \in Work, Slots(s), NEW fd \in Fd
  PROVE  /\ client_of(s, fd) \in Client
         /\ s.slots[client_of(s, fd)] \in {None, fd}
         /\ \A i \in Client : s.slots[i] = fd => client_of(s, fd) = i
<1> DEFINE mine == {i \in Client : s.slots[i] = fd}
           free == {i \in Client : s.slots[i] = None}
<1>0. s.slots \in [Client -> Fd \cup {None}] /\ fd # None
  BY CatAssumption DEF Work, None
<1>1. mine \in SUBSET Nat /\ free \in SUBSET Nat
  BY DEF Client
<1>2. CASE mine # {}
  <2>1. client_of(s, fd) = Least(mine)
    BY <1>2, Zenon DEF client_of
  <2>2. Least(mine) \in mine
    BY <1>1, <1>2, LeastFacts, Zenon
  <2>3. \A i \in mine : i = Least(mine)
    BY <1>0, <2>2, Zenon DEF Slots
  <2> QED BY <2>1, <2>2, <2>3
<1>3. CASE mine = {} /\ free # {}
  <2>1. client_of(s, fd) = Least(free)
    BY <1>3, Zenon DEF client_of
  <2>2. Least(free) \in free
    BY <1>1, <1>3, LeastFacts, Zenon
  <2> QED BY <1>3, <2>1, <2>2
<1>4. CASE mine = {} /\ free = {}
  <2> DEFINE F == Fd \ {fd}
  <2>1. s.slots \in [Client -> F]
    BY <1>0, <1>4
  <2>2. IsFiniteSet(Fd) /\ MaxClients \in Nat
    BY CatAssumption
  <2>3. IsFiniteSet(F) /\ Cardinality(F) = Cardinality(Fd) - 1 /\ Cardinality(Fd) \in Nat
    BY <2>2, FS_RemoveElement, FS_CardinalityType
  <2>4. IsFiniteSet(Client) /\ Cardinality(Client) = MaxClients
    BY <2>2, FS_Interval DEF Client
  <2>5. Cardinality(F) < Cardinality(Client) /\ Cardinality(Client) \in Nat
    BY <2>2, <2>3, <2>4 DEF Room
  <2> HIDE DEF F
  <2>6. \E i, j \in Client : i # j /\ s.slots[i] = s.slots[j]
    BY <2>1, <2>3, <2>4, <2>5, FS_PigeonHole, Zenon
  <2> QED BY <1>4, <2>6, Zenon DEF Slots
<1> QED BY <1>2, <1>3, <1>4

KeepsSlots(s, t) == \A i \in Client : s.slots[i] # None => t.slots[i] = s.slots[i]

LEMMA GivenSlots ==
  ASSUME Room, NEW s \in Work, Slots(s), NEW fd \in Fd \cup {None}, NEW fresh,
         NEW t, GivesTurn(s, t, fd, fresh)
  PROVE  /\ Slots(t) /\ KeepsSlots(s, t)
         /\ fd # None => /\ t.client \in Client /\ t.slots[t.client] = fd
                         /\ \A i \in Client : s.slots[i] = fd => t.client = i
<1>1. CASE fd = None
  <2>1. t.turn = None /\ t.client = 0 /\ t.slots = s.slots
    BY <1>1, Zenon DEF GivesTurn
  <2> QED BY <1>1, <2>1, Zenon DEF Slots, KeepsSlots
<1>2. CASE fd # None
  <2>1. fd \in Fd
    BY <1>2
  <2>2. PICK c \in Client : c = client_of(s, fd)
    BY <2>1, ClientFacts
  <2>3. s.slots[c] \in {None, fd} /\ \A i \in Client : s.slots[i] = fd => c = i
    BY <2>1, <2>2, ClientFacts
  <2>4. c # 0
    BY DEF Client
  <2>5. t.turn = fd /\ t.client = c /\ t.slots = [s.slots EXCEPT ![c] = fd]
    BY <1>2, <2>2, <2>4, Zenon DEF GivesTurn
  <2>6. s.slots \in [Client -> Fd \cup {None}]
    BY DEF Work
  <2>7. \A i \in Client : t.slots[i] = IF i = c THEN fd ELSE s.slots[i]
    BY <2>5, <2>6
  <2>8. Slots(t)
    <3>1. \A i, j \in Client : t.slots[i] = t.slots[j] /\ t.slots[i] # None => i = j
      BY <2>3, <2>7 DEF Slots
    <3> QED BY <1>2, <2>5, <2>7, <3>1, Zenon DEF Slots
  <2>9. KeepsSlots(s, t)
    BY <2>3, <2>7 DEF KeepsSlots
  <2> QED BY <2>3, <2>5, <2>7, <2>8, <2>9
<1> QED BY <1>1, <1>2

\* Nobody waits for an answer to a command that is given up.
Settled(s, ln, fr) ==
  \A k \in 1..Len(s.pend) :
    s.pend[k].client = s.client =>
      /\ \A j \in Answers(fr) : fr[j].src # s.pend[k].src
      /\ \A j \in Sent(ln) : ln[j].src # s.pend[k].src

LEMMA TurnCheckGood ==
  ASSUME Room, NEW s \in Work, Joined, Connectors, NEW expired \in BOOLEAN,
         NEW ln \in Seq(Command), NEW fr \in Seq(Frame), NEW bg, NEW m,
         Good(s, ln, fr, bg, m),
         expired /\ ~Fresh(s) => Settled(s, ln, fr)
  PROVE  Good(turn_check(s, expired), ln, fr, bg, m)
<1>1. PICK t : t = turn_check(s, expired)
  OBVIOUS
<1>2. CASE t = s
  BY <1>1, <1>2
<1>3. CASE /\ s.turn # None /\ (expired \/ (~Fresh(s) /\ ~client_busy(s, s.client)))
           /\ MovesTurn(s, t)
  <2>0. prods \in Seq(App)
    BY DEF Joined
  <2>1. PICK u \in Work, fd \in Fd \cup {None} :
          /\ GivesTurn(u, t, fd, fd # None)
          /\ \/ Fresh(s) /\ u = s
             \/ /\ ~Fresh(s) /\ Discards(s, u)
                /\ Thins(s.pend, u.pend,
                         {k \in 1..Len(s.pend) : s.client = 0 \/ s.pend[k].client # s.client})
    BY <1>3, Zenon DEF MovesTurn
  <2>2. /\ Slots(s) /\ Idle(s) /\ s.client \in Client /\ s.client # 0
    BY <1>3 DEF Good, Core, Waiting, Slots, Client
  <2>3. u.slots = s.slots /\ u.turn = s.turn /\ u.client = s.client /\ u.own = s.own
        /\ u.decoder = s.decoder /\ u.half = s.half
    BY <2>1, Zenon DEF Discards, SameTurns, SameOwn
  <2>4. SameRoute(s, u)
    BY <2>1, Zenon DEF Discards, SameRoute
  <2>5. Slots(u)
    BY <2>2, <2>3, Zenon DEF Slots
  <2>6. Slots(t) /\ KeepsSlots(s, t)
    <3>1. Slots(t) /\ KeepsSlots(u, t)
      BY <2>1, <2>5, GivenSlots, Zenon
    <3> QED BY <2>3, <3>1, Zenon DEF KeepsSlots
  <2>7. /\ t \in Work /\ t.pend = u.pend /\ t.own = s.own /\ t.decoder = s.decoder
        /\ t.half = s.half /\ SameRoute(s, t)
    BY <2>1, <2>3, <2>4, Zenon DEF GivesTurn, SamePend, SameOwn, SameRoute
  <2>8. Idle(t)
    BY <1>3, <2>2, <2>7, Zenon DEF Idle
  <2>9. PICK K, pos :
          /\ Moves(pos, K, s.pend, t.pend)
          /\ \A k \in K : Fresh(s) \/ s.pend[k].client # s.client
          /\ \A k \in 1..Len(s.pend) : Fresh(s) \/ s.pend[k].client # s.client => k \in K
    <3>1. CASE Fresh(s) /\ u = s
      <4>1. Moves([k \in 1..Len(s.pend) |-> k], 1..Len(s.pend), s.pend, t.pend)
        BY <2>7, <3>1, SameMoves DEF Work
      <4> QED BY <3>1, <4>1, Zenon
    <3>2. CASE ~Fresh(s) /\ Thins(s.pend, u.pend,
                 {k \in 1..Len(s.pend) : s.client = 0 \/ s.pend[k].client # s.client})
      <4> DEFINE K == {k \in 1..Len(s.pend) : s.client = 0 \/ s.pend[k].client # s.client}
      <4>1. PICK pos : Moves(pos, K, s.pend, t.pend)
        BY <2>7, <3>2, Zenon DEF Thins
      <4>2. \A k \in K : s.pend[k].client # s.client
        BY <2>2
      <4>3. \A k \in 1..Len(s.pend) : s.pend[k].client # s.client => k \in K
        OBVIOUS
      <4> HIDE DEF K
      <4> QED BY <3>2, <4>1, <4>2, <4>3, Zenon
    <3> QED BY <2>1, <3>1, <3>2, Zenon
  <2>10. Evolves(s, t, pos, K)
    <3>1. \A k \in K : ~(s.turn # None /\ ~s.fresh /\ s.pend[k].client = s.client)
      BY <2>9, Zenon DEF Fresh
    <3> QED BY <1>3, <2>6, <2>7, <2>9, <3>1, Zenon DEF Evolves, KeepsSlots
  <2>11. ASSUME NEW er, NEW el, Tracks(s, ln, fr, er, el)
         PROVE  /\ \A j \in Answers(fr) : er[j] \in K
                /\ \A j \in Sent(ln) : el[j] \in K
    <3>1. /\ \A j \in Answers(fr) : er[j] \in 1..Len(s.pend) /\ s.pend[er[j]].src = fr[j].src
          /\ \A j \in Sent(ln) : el[j] \in 1..Len(s.pend) /\ s.pend[el[j]].src = ln[j].src
      BY <2>11 DEF Tracks, AnswersMatch, SentMatch, Awaited
    <3>2. CASE Fresh(s)
      BY <2>9, <3>1, <3>2, Zenon
    <3>3. CASE ~Fresh(s) /\ ~client_busy(s, s.client)
      <4>1. \A k \in 1..Len(s.pend) : s.pend[k].client # s.client
        BY <2>2, <3>3, Zenon DEF client_busy
      <4> QED BY <2>9, <3>1, <4>1, Zenon
    <3>4. CASE ~Fresh(s) /\ expired
      <4>1. Settled(s, ln, fr)
        BY <3>4
      <4> QED BY <2>9, <3>1, <4>1, Zenon DEF Settled
    <3> QED BY <1>3, <3>2, <3>3, <3>4
  <2>12. Core(t, ln, fr)
    <3>1. Core(s, ln, fr)
      BY DEF Good
    <3> QED BY <2>0, <2>6, <2>8, <2>10, <2>11, <3>1, MovedCore, Zenon
  <2>13. Routes(t, fr, bg, m) /\ Clean(t)
    <3>1. Routes(s, fr, bg, m) /\ Clean(s)
      BY DEF Good
    <3>2. bg => t.half
      BY <2>7, <3>1, Zenon DEF Routes, Parts
    <3>3. CameFrom(s, t, pos, K)
      BY <2>10, MovedFrom, Zenon
    <3>4. SameRoute(s, t)
      BY <2>7
    <3> QED BY <3>1, <3>2, <3>3, <3>4, KeptRoutes, Zenon
  <2>14. Good(t, ln, fr, bg, m)
    BY <2>12, <2>13 DEF Good
  <2> QED BY <1>1, <2>14
<1> QED BY <1>1, <1>2, <1>3, TurnCheckFacts, Zenon

-----------------------------------------------------------------------------
(* Routing starts and stops. *)

\* With one connector left and no removed one busy, all is what the sender of a
\* pending command may see.
LEMMA OnlySender ==
  ASSUME NEW s \in Work, Entries(s), Len(prods) <= 1, prods \in Seq(App), ~removed_busy(s),
         NEW k \in 1..Len(s.pend), s.pend[k].src \in App
  PROVE  Connected \subseteq {s.pend[k].src}
<1> SUFFICES ASSUME NEW x \in Connected, x # s.pend[k].src
             PROVE  FALSE
  OBVIOUS
<1>1. PICK c \in Client \cup {0} : c = s.pend[k].client
  <2>1. s.pend[k] \in Pending
    BY DEF Work
  <2> QED BY <2>1 DEF Pending
<1>2. c # 0 /\ s.slots[c] # None /\ fdOf[x] # s.slots[c]
  BY <1>1, Zenon DEF Entries, EntryOk
<1>3. \A y \in Connected : y = x
  BY DEF Connected
<1>4. ~Registered(s.slots[c])
  BY <1>2, <1>3, Zenon DEF Registered
<1>5. client_busy(s, c)
  BY <1>1, <1>2, Zenon DEF client_busy
<1>6. c \in Client
  BY <1>2
<1> QED BY <1>2, <1>4, <1>5, <1>6, Zenon DEF removed_busy

\* A frame that is not the radio's own belongs to a pending command.
LEMMA HeadEntry ==
  ASSUME NEW s, NEW ln, NEW fr \in Seq(Frame), Core(s, ln, fr), Frames(fr), fr # <<>>,
         fr[1].src # Radio
  PROVE  \E k \in 1..Len(s.pend) : s.pend[k].src = fr[1].src
<1>1. PICK er, el : Tracks(s, ln, fr, er, el)
  BY Zenon DEF Core, Waiting, Tracked
<1>2. 1 \in 1..Len(fr) /\ fr[1].what \in {"echo", "answer", "trx", "noise"}
  <2>1. 1 \in 1..Len(fr) /\ fr[1] \in Frame
    OBVIOUS
  <2> QED BY <2>1 DEF Frame
<1>3. fr[1].what \in {"echo", "answer"}
  BY <1>2 DEF Frames
<1>4. PICK j \in Answers(fr) : fr[j].src = fr[1].src
  <2>1. CASE fr[1].what = "answer"
    BY <1>2, <2>1 DEF Answers
  <2>2. CASE fr[1].what = "echo"
    <3>1. 2 \in Answers(fr) /\ fr[2].src = fr[1].src
      BY <1>2, <2>2 DEF Answers, Frames
    <3> QED BY <3>1
  <2> QED BY <1>3, <2>1, <2>2
<1>5. er[j] \in 1..Len(s.pend) /\ s.pend[er[j]].src = fr[j].src
  BY <1>1 DEF Tracks, AnswersMatch, Awaited
<1> QED BY <1>4, <1>5

\* Parts passed to A are harmless.
Harmless(parts, A) ==
  \A k \in 1..Len(parts) :
    /\ parts[k] = Own => A = {}
    /\ parts[k] \in App => A \subseteq {parts[k]}

LEMMA HarmlessClean ==
  ASSUME NEW s, NEW t, NEW parts, NEW A, Clean(s), Harmless(parts, A),
         Emitted(t) = Emitted(s) \cup To(parts, A)
  PROVE  Clean(t)
<1> SUFFICES ASSUME NEW e \in Emitted(t)
             PROVE  (e.src = Own => e.to = {}) /\ (e.src \in App => e.to \subseteq {e.src})
  BY DEF Clean
<1>1. CASE e \in Emitted(s)
  BY <1>1, Zenon DEF Clean
<1>2. CASE e \in To(parts, A)
  BY <1>2 DEF To, Harmless
<1> QED BY <1>1, <1>2

LEMMA SourceFacts ==
  /\ Radio \notin App /\ Own \notin App /\ Radio # Own
BY CatAssumption DEF Radio, Own

\* Parts of the radio's own may go to everybody.
LEMMA PartsHarmless ==
  ASSUME NEW s, NEW fr, NEW bg, Parts(s, fr, bg), NEW A,
         bg => Harmless(<<Owner(fr[1])>>, A)
  PROVE  Harmless(s.buf, A)
<1> SUFFICES ASSUME NEW k \in 1..Len(s.buf)
             PROVE  /\ s.buf[k] = Own => A = {}
                    /\ s.buf[k] \in App => A \subseteq {s.buf[k]}
  BY DEF Harmless
<1>1. s.buf[k] = Radio \/ (bg /\ s.buf[k] = Owner(fr[1]))
  BY Zenon DEF Parts
<1>2. CASE s.buf[k] = Radio
  BY <1>2, SourceFacts
<1>3. CASE bg /\ s.buf[k] = Owner(fr[1])
  <2> DEFINE o == Owner(fr[1])
  <2>1. Harmless(<<o>>, A)
    BY <1>3
  <2> HIDE DEF o
  <2>2. (o = Own => A = {}) /\ (o \in App => A \subseteq {o})
    BY <2>1 DEF Harmless
  <2>3. s.buf[k] = o
    BY <1>3 DEF o
  <2> QED BY <2>2, <2>3
<1> QED BY <1>1, <1>2, <1>3

LEMMA EmptyCounts ==
  ASSUME NEW s, NEW t, NEW fr, NEW bg, NEW m, Buffered(s, fr, bg, m),
         t.buf = s.buf \/ t.buf = <<>>
  PROVE  Buffered(t, fr, bg, m)
<1>1. PICK n, nr : Counts(s, fr, bg, m, n, nr)
  BY Zenon DEF Buffered
<1>2. Len(t.buf) <= n + (IF bg THEN 1 ELSE 0)
  <2>1. CASE t.buf = s.buf
    BY <1>1, <2>1, Zenon DEF Counts
  <2>2. CASE t.buf = <<>>
    <3>1. Len(t.buf) = 0 /\ n \in Nat
      BY <1>1, <2>2 DEF Counts
    <3> QED BY <3>1
  <2> QED BY <2>1, <2>2
<1>3. Counts(t, fr, bg, m, n, nr)
  BY <1>1, <1>2, Zenon DEF Counts
<1> QED BY <1>3, Zenon DEF Buffered

\* A step of the routing.
LEMMA RouteStepGood ==
  ASSUME NEW s \in Work, NEW t \in Work,
         NEW ln \in Seq(Command), NEW fr \in Seq(Frame), NEW bg, NEW m,
         Good(s, ln, fr, bg, m), Frames(fr), Connectors, prods \in Seq(App),
         online \/ fr = <<>>,
         SamePend(s, t), t.own = s.own,
         SameTurns(s, t) \/ (~s.decoder /\ TurnGone(s, t)),
         online => t.multi = s.multi \/ t.multi \/ Len(prods) <= 1,
         RouteStep(s, t)
  PROVE  Good(t, ln, fr, bg, m)
<1>1. Core(s, ln, fr) /\ Lonely(s) /\ Parts(s, fr, bg) /\ Buffered(s, fr, bg, m) /\ Clean(s)
      /\ Slots(s) /\ Idle(s) /\ Entries(s)
  BY DEF Good, Routes, Core, Waiting
<1>2. Core(t, ln, fr)
  <2>1. t.pend = s.pend /\ t.slots = s.slots /\ t.decoder = s.decoder
    BY Zenon DEF SamePend, SameTurns, TurnGone
  <2>2. Slots(t) /\ Idle(t)
    <3>1. CASE SameTurns(s, t)
      <4>1. Slots(t)
        BY <1>1, <3>1, TurnSlots
      <4>2. Idle(t)
        BY <1>1, <2>1, <3>1, SameIdle DEF SameTurns
      <4> QED BY <4>1, <4>2
    <3>2. CASE ~s.decoder /\ TurnGone(s, t)
      <4>1. t.turn = None /\ t.client = 0
        BY <3>2, Zenon DEF TurnGone
      <4>2. Slots(t)
        BY <1>1, <2>1, <4>1 DEF Slots
      <4>3. Idle(t)
        BY <4>1, <1>1, <2>1 DEF Idle
      <4> QED BY <4>2, <4>3
    <3> QED BY <3>1, <3>2
  <2>3. \A i \in Client : s.slots[i] # None => t.slots[i] = s.slots[i]
    BY <2>1, Zenon
  <2>4. s.turn # None /\ ~s.fresh => t.turn # None /\ t.client = s.client /\ ~t.fresh
    BY <1>1, Zenon DEF Idle, SameTurns
  <2>5. s.turn = None => t.turn = None \/ Len(prods) > 1
    BY Zenon DEF SameTurns, TurnGone
  <2> QED BY <1>1, <2>1, <2>2, <2>3, <2>4, <2>5, KeptCore, Zenon
<1>3. Parts(t, fr, bg)
  <2>1. t.half = s.half
    BY Zenon DEF SamePend
  <2>2. t.buf = s.buf \/ Len(t.buf) = 0
    BY DEF RouteStep
  <2>3. ~t.routing => t.buf = <<>>
    BY <1>1, Zenon DEF RouteStep, Parts
  <2>4. \A k \in 1..Len(t.buf) : t.buf[k] = Radio \/ (bg /\ t.buf[k] = Owner(fr[1]))
    <3>1. CASE t.buf = s.buf
      BY <1>1, <3>1, Zenon DEF Parts
    <3>2. CASE Len(t.buf) = 0
      BY <3>2
    <3> QED BY <2>2, <3>1, <3>2
  <2> QED BY <1>1, <2>1, <2>3, <2>4, Zenon DEF Parts
<1>4. Buffered(t, fr, bg, m)
  BY <1>1, EmptyCounts, Zenon DEF RouteStep
<1>5. CASE /\ s.routing /\ t.routing = FALSE /\ t.buf = <<>>
           /\ ~route_always(t) /\ ~s.own /\ ~PendingOwn(s) /\ ~removed_busy(s)
           /\ Emitted(t) = Emitted(s) \cup To(s.buf, Connected)
  <2>1. ~t.multi
    BY <1>5, Zenon DEF route_always
  <2>3. ASSUME NEW k \in 1..Len(s.pend), s.pend[k].src \in App, online
        PROVE  Len(prods) <= 1 /\ Connected \subseteq {s.pend[k].src}
    <3>1. Len(prods) <= 1
      BY <1>1, <2>1, <2>3, Zenon DEF Lonely
    <3> QED BY <1>1, <1>5, <2>3, <3>1, OnlySender, Zenon
  <2>4. \A k \in 1..Len(s.pend) : ~s.pend[k].own
    BY <1>5, Zenon DEF PendingOwn
  <2>5. Lonely(t)
    <3>1. t.pend = s.pend
      BY Zenon DEF SamePend
    <3> QED BY <2>3, <2>4, <3>1, Zenon DEF Lonely
  <2>6. Harmless(s.buf, Connected)
    <3>1. ASSUME bg
          PROVE  Harmless(<<Owner(fr[1])>>, Connected)
      <4>1. fr # <<>> /\ online
        BY <1>1, <3>1 DEF Parts
      <4>2. CASE fr[1].src = Radio
        BY <4>2, SourceFacts DEF Owner, Harmless
      <4>3. CASE fr[1].src # Radio
        <5>1. PICK k \in 1..Len(s.pend) : s.pend[k].src = fr[1].src
          BY <1>1, <4>1, <4>3, HeadEntry
        <5>2. fr[1].src # Own
          BY <1>1, <2>4, <5>1, Zenon DEF Entries, EntryOk
        <5>3. fr[1].src \in App => Connected \subseteq {fr[1].src}
          BY <2>3, <4>1, <5>1, Zenon
        <5>4. Owner(fr[1]) = fr[1].src \/ Owner(fr[1]) = Radio
          BY DEF Owner
        <5> QED BY <5>2, <5>3, <5>4, SourceFacts DEF Harmless
      <4> QED BY <4>2, <4>3
    <3> QED BY <1>1, <3>1, PartsHarmless, Zenon
  <2>7. Clean(t)
    BY <1>1, <1>5, <2>6, HarmlessClean, Zenon
  <2> QED BY <1>2, <1>3, <1>4, <2>5, <2>7, Zenon DEF Good, Routes
<1>6. CASE \/ t.routing = s.routing /\ t.buf = s.buf /\ t.flush = s.flush /\ t.out = s.out
           \/ ~s.routing /\ t.routing = TRUE /\ t.buf = <<>> /\ t.out = s.out
  <2>1. t.pend = s.pend /\ t.out = s.out /\ (~t.routing => ~s.routing)
    BY <1>6, Zenon DEF SamePend
  <2>2. ASSUME NEW k \in 1..Len(s.pend), s.pend[k].src \in App, online, ~t.multi
        PROVE  Len(prods) <= 1
    <3>1. CASE t.multi = s.multi
      BY <1>1, <2>2, <3>1, Zenon DEF Lonely
    <3>2. CASE t.multi \/ Len(prods) <= 1
      BY <2>2, <3>2
    <3> QED BY <2>2, <3>1, <3>2
  <2>3. \A k \in 1..Len(s.pend) : s.pend[k].own => t.routing
    BY <1>1, <2>1, Zenon DEF Lonely
  <2>4. Lonely(t)
    BY <1>1, <2>1, <2>2, <2>3, Zenon DEF Lonely
  <2>5. Clean(t)
    BY <1>1, <2>1, Zenon DEF Clean, Emitted
  <2> QED BY <1>2, <1>3, <1>4, <2>4, <2>5, Zenon DEF Good, Routes
<1> QED BY <1>5, <1>6, Zenon DEF RouteStep

\* Handlers run while the radio is silent or the keyer is online.
Steady(s, fr) ==
  (online => s.decoder) /\ (online \/ fr = <<>>) /\ Frames(fr) /\ Connectors /\ Joined

LEMMA MultiUpdateGood ==
  ASSUME NEW s \in Work, NEW ln \in Seq(Command), NEW fr \in Seq(Frame), NEW bg, NEW m,
         Good(s, ln, fr, bg, m), Steady(s, fr)
  PROVE  Good(multi_update(s), ln, fr, bg, m)
<1>1. PICK t : t = multi_update(s)
  OBVIOUS
<1>2. prods \in Seq(App)
  BY DEF Steady, Joined
<1>3. MultiUpdates(s, t)
  BY <1>1, <1>2, MultiUpdateFacts, Zenon
<1>4. online => t.multi = s.multi \/ t.multi \/ Len(prods) <= 1
  <2>1. Len(prods) \in Nat
    BY <1>2
  <2>2. t.multi = (s.decoder /\ Len(prods) > 1)
    BY <1>3, Zenon DEF MultiUpdates
  <2>3. online => s.decoder
    BY DEF Steady
  <2>4. t.multi <=> (s.decoder /\ Len(prods) > 1)
    BY <2>2, Zenon
  <2> QED BY <2>1, <2>3, <2>4
<1>5. /\ t \in Work /\ SamePend(s, t) /\ t.own = s.own
      /\ SameTurns(s, t) \/ (~s.decoder /\ TurnGone(s, t))
      /\ RouteStep(s, t)
  BY <1>3, Zenon DEF MultiUpdates, SameOwn
<1>6. Good(t, ln, fr, bg, m)
  <2>1. online \/ fr = <<>>
    BY DEF Steady
  <2>2. Frames(fr) /\ Connectors
    BY DEF Steady
  <2> QED BY <1>2, <1>4, <1>5, <2>1, <2>2, RouteStepGood, Zenon
<1> QED BY <1>1, <1>6

LEMMA RouteCheckGood ==
  ASSUME NEW s \in Work, NEW ln \in Seq(Command), NEW fr \in Seq(Frame), NEW bg, NEW m,
         Good(s, ln, fr, bg, m), Steady(s, fr)
  PROVE  Good(route_check(s), ln, fr, bg, m)
<1>1. PICK t : t = route_check(s)
  OBVIOUS
<1>2. prods \in Seq(App)
  BY DEF Steady, Joined
<1>3. ChecksRoute(s, t)
  BY <1>1, <1>2, RouteCheckFacts, Zenon
<1>4. /\ t \in Work /\ SamePend(s, t) /\ t.own = s.own
      /\ SameTurns(s, t) \/ (~s.decoder /\ TurnGone(s, t))
      /\ online => t.multi = s.multi \/ t.multi \/ Len(prods) <= 1
      /\ RouteStep(s, t)
  BY <1>3, Zenon DEF ChecksRoute, SameButRoute, SameOwn
<1>5. Good(t, ln, fr, bg, m)
  <2>1. (online \/ fr = <<>>) /\ Frames(fr) /\ Connectors
    BY DEF Steady
  <2> QED BY <1>2, <1>4, <2>1, RouteStepGood, Zenon
<1> QED BY <1>1, <1>5

-----------------------------------------------------------------------------
(* Own queries, and the decoder's life. *)

LEMMA EndsOwnGood ==
  ASSUME NEW s \in Work, NEW t, EndsOwn(s, t), Connectors, prods \in Seq(App),
         NEW ln \in Seq(Command), NEW fr \in Seq(Frame), NEW bg, NEW m, Good(s, ln, fr, bg, m)
  PROVE  Good(t, ln, fr, bg, m)
<1>1. t \in Work /\ SameTurns(s, t) /\ t.pend = s.pend /\ t.decoder = s.decoder
      /\ t.half = s.half /\ SameRoute(s, t) /\ ~t.own
  BY DEF EndsOwn, SamePend
<1>2. Core(s, ln, fr) /\ Routes(s, fr, bg, m) /\ Clean(s) /\ Slots(s) /\ Idle(s)
  BY DEF Good, Core, Waiting
<1>3. Slots(t) /\ Idle(t)
  <2>1. Slots(t)
    BY <1>1, <1>2, TurnSlots
  <2>2. Idle(t)
    BY <1>1, <1>2, SameIdle DEF SameTurns
  <2> QED BY <2>1, <2>2
<1>4. Core(t, ln, fr)
  <2>1. \A i \in Client : s.slots[i] # None => t.slots[i] = s.slots[i]
    BY <1>1, Zenon DEF SameTurns
  <2>2. s.turn # None /\ ~s.fresh => t.turn # None /\ t.client = s.client /\ ~t.fresh
    BY <1>1, Zenon DEF SameTurns
  <2>3. s.turn = None => t.turn = None \/ Len(prods) > 1
    BY <1>1, Zenon DEF SameTurns
  <2> QED BY <1>1, <1>2, <1>3, <2>1, <2>2, <2>3, KeptCore, Zenon
<1>5. Routes(t, fr, bg, m) /\ Clean(t)
  <2>1. s.pend \in Seq(Pending)
    BY DEF Work
  <2>2. bg => t.half
    BY <1>1, <1>2, Zenon DEF Routes, Parts
  <2>3. PICK pos, K : CameFrom(s, t, pos, K)
    BY <1>1, <2>1, SameCameFrom
  <2> QED BY <1>1, <1>2, <2>2, <2>3, KeptRoutes, Zenon
<1> QED BY <1>4, <1>5, Zenon DEF Good

LEMMA SetupGood ==
  ASSUME NEW s \in Work, NEW ln \in Seq(Command), NEW fr \in Seq(Frame), NEW bg, NEW m,
         Good(s, ln, fr, bg, m), Steady(s, fr)
  PROVE  Good(setup(s), ln, fr, bg, m) /\ SetsUp(s, setup(s))
<1>1. PICK t : t = setup(s)
  OBVIOUS
<1>2. prods \in Seq(App) /\ Connectors
  BY DEF Steady, Joined
<1>3. SetsUp(s, t)
  BY <1>1, <1>2, SetupFacts, Zenon
<1>4. CASE s.decoder
  BY <1>1, <1>3, <1>4, Zenon DEF SetsUp
<1>5. CASE ~s.decoder
  <2>1. Cleared(s, t) /\ t.decoder = TRUE
    BY <1>3, <1>5, Zenon DEF SetsUp
  <2>2. Core(s, ln, fr) /\ Parts(s, fr, bg) /\ Buffered(s, fr, bg, m) /\ Clean(s)
        /\ Slots(s) /\ Idle(s)
    BY DEF Good, Routes, Core, Waiting
  <2>3. t \in Work /\ s.turn = None /\ s.pend = <<>> /\ t.pend = <<>> /\ TurnGone(s, t)
        /\ t.own = FALSE /\ RouteAny(s, t)
    BY <1>5, <2>1, <2>2, Zenon DEF Cleared, Idle
  <2>4. ~bg
    BY <1>5, <2>2, Zenon DEF Steady, Parts
  <2>5. Slots(t) /\ Idle(t)
    <3>1. t.turn = None /\ t.client = 0 /\ t.slots = s.slots
      BY <2>3, Zenon DEF TurnGone
    <3>2. Slots(t)
      BY <2>1, <2>2, <3>1 DEF Slots
    <3>3. Idle(t)
      BY <2>1, <2>2, <3>1 DEF Idle
    <3> QED BY <3>2, <3>3
  <2>6. Core(t, ln, fr)
    <3>1. \A i \in Client : s.slots[i] # None => t.slots[i] = s.slots[i]
      BY <2>3, Zenon DEF TurnGone
    <3>2. ~t.own /\ t.turn = None /\ t.pend = s.pend
      BY <2>3 DEF TurnGone
    <3> QED BY <1>2, <2>2, <2>3, <2>5, <3>1, <3>2, KeptCore, Zenon
  <2>7. Lonely(t)
    BY <2>3 DEF Lonely
  <2>8. t.buf = s.buf \/ Len(t.buf) = 0
    BY <2>3 DEF RouteAny
  <2>9. Parts(t, fr, bg)
    <3>1. \A k \in 1..Len(s.buf) : s.buf[k] = Radio
      BY <2>2, <2>4, Zenon DEF Parts
    <3>2. \A k \in 1..Len(t.buf) : t.buf[k] = Radio
      <4>1. CASE t.buf = s.buf
        BY <3>1, <4>1, Zenon
      <4>2. CASE Len(t.buf) = 0
        BY <4>2
      <4> QED BY <2>8, <4>1, <4>2
    <3>3. ~t.routing => t.buf = <<>>
      BY <2>2, <2>3, Zenon DEF Parts, RouteAny
    <3> QED BY <2>4, <3>2, <3>3, Zenon DEF Parts
  <2>10. Buffered(t, fr, bg, m)
    BY <2>2, <2>3, EmptyCounts, Zenon DEF RouteAny
  <2>11. Clean(t)
    <3>1. Harmless(s.buf, Connected)
      <4>1. bg => Harmless(<<Owner(fr[1])>>, Connected)
        BY <2>4, Zenon
      <4> QED BY <2>2, <4>1, PartsHarmless, Zenon
    <3>2. CASE Emitted(t) = Emitted(s)
      BY <2>2, <3>2, Zenon DEF Clean
    <3>3. CASE Emitted(t) = Emitted(s) \cup To(s.buf, Connected)
      BY <2>2, <3>1, <3>3, HarmlessClean, Zenon
    <3> QED BY <2>3, <3>2, <3>3, Zenon DEF RouteAny
  <2>12. Good(t, ln, fr, bg, m)
    BY <2>6, <2>7, <2>9, <2>10, <2>11, Zenon DEF Good, Routes
  <2> QED BY <1>1, <1>3, <2>12, Zenon
<1> QED BY <1>4, <1>5

\* An own query is asked: nothing else is under way.
LEMMA AsksGood ==
  ASSUME NEW s \in Work, NEW t, Asks(s, t), s.tx = <<>>, s.pend = <<>>, s.decoder, online,
         NEW ln \in Seq(Command), NEW fr \in Seq(Frame), NEW bg, NEW m, Good(s, ln, fr, bg, m)
  PROVE  Good(t, ln \o t.tx, fr, bg, m)
<1>1. Core(s, ln, fr) /\ Parts(s, fr, bg) /\ Buffered(s, fr, bg, m) /\ Clean(s) /\ Slots(s)
  BY DEF Good, Routes, Core, Waiting
<1>2. t \in Work /\ t.pend = <<OwnEntry>> /\ t.tx = <<OwnCommand>> /\ SameTurns(s, t)
      /\ t.decoder /\ t.half = s.half /\ t.out = s.out /\ t.routing
      /\ (t.buf = s.buf \/ t.buf = <<>>)
  <2>1. t.tx = Append(<<>>, OwnCommand)
    BY Zenon DEF Asks
  <2>2. t.tx = <<OwnCommand>>
    BY <2>1
  <2> QED BY <2>2, Zenon DEF Asks
<1>3. Answers(fr) = {} /\ Sent(ln) = {}
  <2>1. PICK er, el : Tracks(s, ln, fr, er, el)
    BY <1>1, Zenon DEF Core, Waiting, Tracked
  <2>2. er \in [Answers(fr) -> 1..0] /\ el \in [Sent(ln) -> 1..0]
    BY <2>1 DEF Tracks
  <2>3. \A j \in Answers(fr) : er[j] \in 1..0
    BY <2>2, Zenon
  <2>4. \A j \in Sent(ln) : el[j] \in 1..0
    BY <2>2, Zenon
  <2> QED BY <2>3, <2>4
<1>4. ln = <<>>
  <2>1. \A k \in 1..Len(ln) : k \in Sent(ln)
    BY DEF Sent
  <2>2. ln # <<>> => 1 \in 1..Len(ln)
    OBVIOUS
  <2> QED BY <1>3, <2>1, <2>2
<1>5. PICK q \in Seq(Command) : q = ln \o t.tx /\ Len(q) = 1 /\ q[1] = OwnCommand
  <2>1. OwnCommand \in Command
    BY DEF OwnCommand, Command, Source
  <2>2. <<OwnCommand>> \in Seq(Command) /\ ln \o t.tx = <<OwnCommand>>
    BY <1>2, <1>4, <2>1
  <2> QED BY <2>2
<1>6. Len(t.pend) = 1 /\ t.pend[1] = OwnEntry /\ OwnEntry.own /\ OwnEntry.src = Own
      /\ OwnEntry.host /\ ~OwnEntry.echoed /\ OwnEntry.kind = OwnKind /\ OwnCommand.src = Own
      /\ OwnCommand.kind = OwnKind
  BY <1>2 DEF OwnEntry, OwnCommand
<1>7. Own \notin App
  BY SourceFacts
<1>8. Slots(t) /\ Idle(t)
  <2>0. SameTurns(s, t) /\ Slots(s)
    BY <1>1, <1>2
  <2>1. Slots(t)
    BY <2>0, TurnSlots
  <2>2. Idle(t)
    BY <1>2 DEF Idle
  <2> QED BY <2>1, <2>2
<1>9. Entries(t)
  BY <1>6, <1>7 DEF Entries, EntryOk, SameSender
<1>10. Turns(t) /\ OwnOnly(t)
  BY <1>6, <1>7 DEF Turns, OwnOnly
<1>11. Tracked(t, q, fr)
  <2> DEFINE er == [j \in {} |-> 1]
             el == [j \in Sent(q) |-> 1]
  <2>1. Sent(q) = {1}
    BY <1>5 DEF Sent
  <2>2. er \in [Answers(fr) -> 1..Len(t.pend)] /\ el \in [Sent(q) -> 1..Len(t.pend)]
    BY <1>3, <1>6
  <2>3. el[1] = 1
    BY <2>1
  <2> HIDE DEF er, el
  <2>4. Increasing(Answers(fr), er) /\ Increasing(Sent(q), el)
        /\ Before(Answers(fr), er, Sent(q), el) /\ AnswersMatch(t, fr, er)
    BY <1>3, <2>1 DEF Increasing, Before, AnswersMatch
  <2>5. SentMatch(t, q, el)
    BY <1>5, <1>6, <1>7, <2>1, <2>3 DEF SentMatch, Awaited
  <2> QED BY <2>2, <2>4, <2>5, Zenon DEF Tracks, Tracked
<1>12. Bound(t)
  <2>1. \A x \in App : PendOf(t.pend, x) = {}
    BY <1>6, <1>7 DEF PendOf
  <2>2. Cardinality({}) = 0
    BY FS_EmptySet
  <2>3. MaxPipe \in Nat \ {0}
    BY CatAssumption
  <2>4. \A x \in App : Cardinality(PendOf(t.pend, x)) < MaxPipe
    <3> TAKE x \in App
    <3>1. PendOf(t.pend, x) = {}
      BY <2>1
    <3> QED BY <2>2, <2>3, <3>1
  <2> QED BY <2>4, Zenon DEF Bound
<1>13. Core(t, q, fr)
  BY <1>8, <1>9, <1>10, <1>11, <1>12, Zenon DEF Core, Waiting
<1>14. Lonely(t)
  BY <1>2, <1>6, <1>7 DEF Lonely
<1>15. Parts(t, fr, bg)
  <2>1. CASE t.buf = s.buf
    BY <1>1, <1>2, <2>1, Zenon DEF Parts
  <2>2. CASE t.buf = <<>>
    <3>1. Len(t.buf) = 0
      BY <2>2
    <3> QED BY <1>1, <1>2, <3>1 DEF Parts
  <2> QED BY <1>2, <2>1, <2>2
<1>16. Buffered(t, fr, bg, m)
  BY <1>1, <1>2, EmptyCounts, Zenon
<1>17. Clean(t)
  BY <1>1, <1>2, Zenon DEF Clean, Emitted
<1> QED BY <1>5, <1>13, <1>14, <1>15, <1>16, <1>17, Zenon DEF Good, Routes

LEMMA OwnTryGood ==
  ASSUME NEW s \in Work, s.tx = <<>>,
         NEW ln \in Seq(Command), NEW fr \in Seq(Frame), NEW bg, NEW m, Good(s, ln, fr, bg, m)
  PROVE  Good(own_try(s), ln \o own_try(s).tx, fr, bg, m)
<1>1. PICK t : t = own_try(s)
  OBVIOUS
<1>2. CASE t = s
  <2>1. ln \o t.tx = ln
    BY <1>2
  <2> QED BY <1>1, <1>2, <2>1, Zenon
<1>3. CASE Asks(s, t) /\ ~s.own /\ s.decoder /\ online /\ s.pend = <<>>
  BY <1>1, <1>3, AsksGood, Zenon
<1> QED BY <1>1, <1>2, <1>3, OwnTryFacts, Zenon

-----------------------------------------------------------------------------
(* An application's command. *)

LEMMA KeptGood ==
  ASSUME NEW s \in Work, NEW t \in Work, t.pend = s.pend, KeepsSlots(s, t), t.own => s.own,
         s.turn # None /\ ~s.fresh => t.turn # None /\ t.client = s.client /\ ~t.fresh,
         s.turn = None => t.turn = None \/ Len(prods) > 1,
         Slots(t), Idle(t), SameRoute(s, t), t.half = s.half, Connectors, prods \in Seq(App),
         NEW ln \in Seq(Command), NEW fr \in Seq(Frame), NEW bg, NEW m, Good(s, ln, fr, bg, m)
  PROVE  Good(t, ln, fr, bg, m)
<1>1. Core(s, ln, fr) /\ Routes(s, fr, bg, m) /\ Clean(s)
  BY DEF Good
<1>2. Core(t, ln, fr)
  BY <1>1, KeptCore, Zenon DEF KeepsSlots
<1>3. Routes(t, fr, bg, m) /\ Clean(t)
  <2>1. bg => t.half
    BY <1>1, Zenon DEF Routes, Parts
  <2>2. PICK pos, K : CameFrom(s, t, pos, K)
    BY SameCameFrom DEF Work
  <2> QED BY <1>1, <2>1, <2>2, KeptRoutes, Zenon
<1> QED BY <1>2, <1>3, Zenon DEF Good

LEMMA GrantGood ==
  ASSUME Room, NEW s \in Work, NEW fd \in Fd, NEW fresh \in BOOLEAN, NEW t,
         GivesTurn(s, t, fd, fresh), s.turn = None, Len(prods) > 1,
         s.decoder, Connectors, prods \in Seq(App),
         NEW ln \in Seq(Command), NEW fr \in Seq(Frame), NEW bg, NEW m, Good(s, ln, fr, bg, m)
  PROVE  Good(t, ln, fr, bg, m)
<1>1. /\ t \in Work /\ t.pend = s.pend /\ t.decoder = s.decoder /\ t.half = s.half
      /\ t.own = s.own /\ SameRoute(s, t)
  BY Zenon DEF GivesTurn, SamePend, SameOwn
<1>2. Slots(s)
  BY DEF Good, Core, Waiting
<1>3. Slots(t) /\ KeepsSlots(s, t)
  <2>1. fd \in Fd \cup {None}
    OBVIOUS
  <2> QED BY <1>2, <2>1, GivenSlots, Zenon
<1>4. Idle(t)
  BY <1>1, Zenon DEF Idle
<1> QED BY <1>1, <1>3, <1>4, KeptGood, Zenon

LEMMA FreshGood ==
  ASSUME NEW s \in Work, NEW t, t = [s EXCEPT !.fresh = FALSE], Connectors, prods \in Seq(App),
         NEW ln \in Seq(Command), NEW fr \in Seq(Frame), NEW bg, NEW m, Good(s, ln, fr, bg, m)
  PROVE  Good(t, ln, fr, bg, m)
<1>1. /\ t \in Work /\ SamePend(s, t) /\ SameOwn(s, t) /\ SameRoute(s, t)
      /\ t.turn = s.turn /\ t.client = s.client /\ t.slots = s.slots /\ t.fresh = FALSE
  BY DEF Work, SamePend, SameOwn, SameRoute
<1>2. Slots(s) /\ Idle(s)
  BY DEF Good, Core, Waiting
<1>3. Slots(t) /\ Idle(t) /\ KeepsSlots(s, t)
  <2>1. Slots(t)
    BY <1>1, <1>2, SameSlots
  <2>2. Idle(t)
    BY <1>1, <1>2, SameIdle DEF SamePend
  <2> QED BY <1>1, <2>1, <2>2 DEF KeepsSlots
<1>4. t.pend = s.pend /\ t.half = s.half /\ t.own = s.own
  BY <1>1, Zenon DEF SamePend, SameOwn
<1>5. s.turn # None /\ ~s.fresh => t.turn # None /\ t.client = s.client /\ ~t.fresh
  BY <1>1
<1> QED BY <1>1, <1>3, <1>4, <1>5, KeptGood, Zenon

LEMMA NumberedGood ==
  ASSUME Room, NEW s \in Work, NEW fd \in Fd, NEW t, Numbers(s, t, fd),
         Connectors, prods \in Seq(App),
         NEW ln \in Seq(Command), NEW fr \in Seq(Frame), NEW bg, NEW m, Good(s, ln, fr, bg, m)
  PROVE  /\ Good(t, ln, fr, bg, m)
         /\ client_of(s, fd) \in Client /\ t.slots[client_of(s, fd)] = fd
         /\ \A i \in Client : s.slots[i] = fd => client_of(s, fd) = i
<1>1. Slots(s) /\ Idle(s)
  BY DEF Good, Core, Waiting
<1>2. PICK c \in Client : c = client_of(s, fd)
  BY <1>1, ClientFacts
<1>3. s.slots[c] \in {None, fd} /\ \A i \in Client : s.slots[i] = fd => c = i
  BY <1>1, <1>2, ClientFacts
<1>4. c # 0 /\ fd # None
  BY CatAssumption DEF Client, None
<1>5. /\ t \in Work /\ SamePend(s, t) /\ SameOwn(s, t) /\ SameRoute(s, t)
      /\ t.turn = s.turn /\ t.client = s.client /\ t.fresh = s.fresh
      /\ t.slots = [s.slots EXCEPT ![c] = fd]
  BY <1>2, <1>4, Zenon DEF Numbers
<1>6. \A i \in Client : t.slots[i] = IF i = c THEN fd ELSE s.slots[i]
  BY <1>5 DEF Work
<1>7. KeepsSlots(s, t)
  BY <1>3, <1>6 DEF KeepsSlots
<1>8. Slots(t)
  <2>1. \A i, j \in Client : t.slots[i] = t.slots[j] /\ t.slots[i] # None => i = j
    BY <1>1, <1>3, <1>6 DEF Slots
  <2>2. t.turn # None => t.client \in Client /\ t.slots[t.client] = t.turn
    BY <1>1, <1>5, <1>7, Zenon DEF Slots, KeepsSlots
  <2> QED BY <1>1, <1>5, <2>1, <2>2, Zenon DEF Slots
<1>9. Idle(t)
  BY <1>1, <1>5, Zenon DEF Idle, SamePend
<1>10. t.pend = s.pend /\ t.half = s.half /\ t.own = s.own
  BY <1>5, Zenon DEF SamePend, SameOwn
<1>11. Good(t, ln, fr, bg, m)
  BY <1>5, <1>7, <1>8, <1>9, <1>10, KeptGood, Zenon
<1> QED BY <1>2, <1>3, <1>6, <1>11

HostEntry(a, k, c) ==
  [own |-> FALSE, kind |-> k, client |-> c, host |-> TRUE, echoed |-> FALSE, src |-> a]

\* The application has the line and a client number.
CanSend(s, a, c) ==
  /\ s \in Work /\ a \in Connected /\ sock[a] # <<>> /\ ~s.own
  /\ c \in Client /\ s.slots[c] = fdOf[a]
  /\ s.turn # None => s.client = c /\ ~s.fresh
  /\ s.turn = None => Len(prods) <= 1 \/ (s.pend = <<>> /\ ~online)
  /\ online => Len(prods) <= 1 \/ (s.multi /\ s.routing)

\* Then all commands but a first one are its own, so that there is room for one more.
LEMMA RoomToSend ==
  ASSUME Room, NEW a \in App, NEW c, NEW s, CanSend(s, a, c), Entries(s), Turns(s), Bound(s)
  PROVE  Len(s.pend) < PendMax
<1>1. s.pend \in Seq(Pending) /\ Len(s.pend) \in Nat
  BY DEF CanSend, Work
<1>2. ASSUME NEW k \in 2..Len(s.pend)
      PROVE  k \in 1..Len(s.pend) /\ s.pend[k].src = a
  <2>1. k \in 1..Len(s.pend) /\ k >= 2 /\ k # 1
    BY <1>1
  <2>2. s.pend[k] \in Pending
    BY <1>1, <2>1
  <2>3. s.pend[k].src \in App \cup {Own}
    BY <2>2 DEF Pending, Source
  <2>4. s.pend[k].src \in App
    BY <2>1, <2>3, Zenon DEF Entries, EntryOk
  <2>5. CASE s.turn # None
    <3>1. s.pend[k].client = c
      BY <2>1, <2>4, <2>5, Zenon DEF Turns, CanSend
    <3>2. s.slots[s.pend[k].client] = fdOf[a]
      BY <3>1, Zenon DEF CanSend
    <3> QED BY <2>1, <2>4, <3>2, Zenon DEF Entries, EntryOk, CanSend
  <2>6. CASE s.turn = None
    <3>1. Connected \subseteq {s.pend[k].src}
      BY <2>1, <2>4, <2>6, Zenon DEF Turns
    <3> QED BY <2>1, <3>1 DEF CanSend
  <2> QED BY <2>1, <2>5, <2>6
<1>3. 2..Len(s.pend) \subseteq PendOf(s.pend, a)
  BY <1>2 DEF PendOf
<1>4. IsFiniteSet(PendOf(s.pend, a)) /\ Cardinality(PendOf(s.pend, a)) \in Nat
  BY <1>1, PendOfType
<1>5. Cardinality(2..Len(s.pend)) <= Cardinality(PendOf(s.pend, a))
  BY <1>3, <1>4, FS_Subset
<1>6. Cardinality(2..Len(s.pend)) = IF 2 > Len(s.pend) THEN 0 ELSE Len(s.pend) - 2 + 1
  <2>1. PICK h \in Int : h = Len(s.pend)
    BY <1>1
  <2>2. PICK l \in Int : l = 2
    OBVIOUS
  <2>3. Cardinality(l..h) = IF l > h THEN 0 ELSE h - l + 1
    BY FS_Interval, Zenon
  <2> QED BY <2>1, <2>2, <2>3
<1>7. Cardinality(PendOf(s.pend, a)) < MaxPipe
  BY Zenon DEF Bound, CanSend
<1>8. MaxPipe \in Nat \ {0} /\ PendMax \in Nat /\ MaxPipe < PendMax
  BY CatAssumption DEF Room
<1> QED BY <1>1, <1>4, <1>5, <1>6, <1>7, <1>8

LEMMA SendsWaiting ==
  ASSUME Room, NEW a \in App, NEW c, NEW s, CanSend(s, a, c), NEW k \in Kind, NEW t,
         AddsEntry(s, t, HostEntry(a, k, c)), NEW x \in Command, x.src = a, x.kind = k,
         x.turn => s.turn # None, s.decoder,
         NEW ln \in Seq(Command), NEW fr \in Seq(Frame),
         Core(s, ln, fr), Connectors, prods \in Seq(App)
  PROVE  /\ Waiting(t, Append(ln, x), fr)
         /\ \A y \in App \ {a} : PendOf(t.pend, y) = PendOf(s.pend, y)
         /\ \A n \in 1..Len(t.pend) :
              \/ n \in 1..Len(s.pend) /\ t.pend[n] = s.pend[n]
              \/ t.pend[n].src = a /\ ~t.pend[n].own
<1>1. Slots(s) /\ Idle(s) /\ Entries(s) /\ Turns(s) /\ OwnOnly(s) /\ Tracked(s, ln, fr) /\ Bound(s)
  BY DEF Core, Waiting
<1>2. PICK e \in Pending : e = HostEntry(a, k, c)
  <2>1. c \in Client
    BY DEF CanSend
  <2> QED BY <2>1 DEF HostEntry, Pending, Source
<1>3. /\ ~e.own /\ e.kind = k /\ e.client = c /\ e.host /\ ~e.echoed /\ e.src = a
  BY <1>2 DEF HostEntry
<1>4. t.pend = Append(s.pend, e)
  BY <1>1, <1>2, RoomToSend, Zenon DEF AddsEntry
<1>5. t \in Work /\ SameTurns(s, t) /\ t.own = s.own /\ t.decoder = s.decoder
  BY Zenon DEF AddsEntry, SameOwn
<1>6. /\ s.pend \in Seq(Pending) /\ Len(s.pend) \in Nat /\ Len(t.pend) = Len(s.pend) + 1
      /\ \A n \in 1..Len(s.pend) : t.pend[n] = s.pend[n]
      /\ t.pend[Len(s.pend) + 1] = e
  <2>1. s.pend \in Seq(Pending)
    BY DEF CanSend, Work
  <2>2. Len(s.pend) \in Nat
    BY <2>1
  <2> QED BY <1>4, <2>1, <2>2, AppendProperties
<1> DEFINE L == Len(s.pend)
<1>7. \A n \in 1..Len(t.pend) : (n \in 1..L /\ t.pend[n] = s.pend[n]) \/ (n = L + 1 /\ t.pend[n] = e)
  BY <1>6
<1>8. L + 1 \in 1..Len(t.pend) /\ \A n \in 1..L : n \in 1..Len(t.pend) /\ n < L + 1
  BY <1>6
<1> HIDE DEF L
<1>9. a # Own /\ a \in Connected /\ c \in Client /\ s.slots[c] = fdOf[a] /\ c # 0
      /\ fdOf[a] \in Fd /\ fdOf[a] # None
  <2>1. c # 0
    BY DEF CanSend, Client
  <2>2. fdOf[a] \in Fd
    BY DEF CanSend, Connectors
  <2>3. None \notin Fd
    BY CatAssumption DEF None
  <2> QED BY <2>1, <2>2, <2>3, SourceFacts DEF CanSend
<1>10. t.slots = s.slots /\ t.turn = s.turn /\ t.client = s.client /\ t.fresh = s.fresh
  BY <1>5, Zenon DEF SameTurns
<1>11. Slots(t)
  BY <1>1, <1>5, TurnSlots
<1>12. Idle(t)
  BY <1>5, Zenon DEF Idle
<1>13. Entries(t)
  <2>1. ASSUME NEW n \in 1..Len(t.pend)
        PROVE  EntryOk(t, n)
    <3>1. CASE n \in 1..L /\ t.pend[n] = s.pend[n]
      <4>1. EntryOk(s, n)
        BY <1>1, <3>1 DEF Entries, L
      <4> QED BY <1>10, <3>1, <4>1, Zenon DEF EntryOk
    <3>2. CASE n = L + 1 /\ t.pend[n] = e
      <4>1. \A z \in Connected : fdOf[z] = t.slots[c] <=> z = a
        BY <1>9, <1>10, Zenon DEF Connectors
      <4> QED BY <1>3, <1>9, <1>10, <3>2, <4>1, Zenon DEF EntryOk
    <3> QED BY <1>7, <3>1, <3>2
  <2>2. ASSUME NEW n \in 1..L
        PROVE  SameSender(s.pend[n], e) /\ SameSender(e, s.pend[n])
    <3>1. s.pend[n].src \in App /\ s.pend[n].client = c => s.pend[n].src = a
      <4>1. EntryOk(s, n)
        BY <1>1 DEF Entries, L
      <4>2. s.pend[n].src \in App =>
              \A z \in Connected : fdOf[z] = s.slots[s.pend[n].client] <=> z = s.pend[n].src
        BY <4>1, Zenon DEF EntryOk
      <4> QED BY <1>9, <4>2, Zenon
    <3> QED BY <1>3, <3>1, Zenon DEF SameSender
  <2>3. SameSender(e, e) /\ \A n, j \in 1..L : SameSender(s.pend[n], s.pend[j])
    BY <1>1, Zenon DEF SameSender, Entries, L
  <2>4. ASSUME NEW n \in 1..Len(t.pend), NEW j \in 1..Len(t.pend)
        PROVE  SameSender(t.pend[n], t.pend[j])
    BY <1>7, <2>2, <2>3, Zenon
  <2> QED BY <2>1, <2>4, Zenon DEF Entries
<1>14. Turns(t)
  <2> SUFFICES ASSUME NEW n \in 1..Len(t.pend), t.pend[n].src \in App, online \/ n >= 2
               PROVE  /\ t.turn # None => t.pend[n].client = t.client /\ ~t.fresh
                      /\ t.turn = None => Connected \subseteq {t.pend[n].src}
    BY Zenon DEF Turns
  <2>1. CASE n \in 1..L /\ t.pend[n] = s.pend[n]
    BY <1>1, <1>10, <2>1, Zenon DEF Turns, L
  <2>2. CASE n = L + 1 /\ t.pend[n] = e
    <3>1. t.turn # None => e.client = t.client /\ ~t.fresh
      BY <1>3, <1>10, Zenon DEF CanSend
    <3>2. s.pend = <<>> => L = 0
      BY DEF L
    <3>3. s.pend = <<>> /\ ~online => FALSE
      BY <2>2, <3>2
    <3>4. Len(prods) <= 1 => Connected \subseteq {a}
      BY <1>9 DEF Connected
    <3>5. t.turn = None => Connected \subseteq {a}
      BY <1>10, <3>3, <3>4, Zenon DEF CanSend
    <3> QED BY <1>3, <2>2, <3>1, <3>5, Zenon
  <2> QED BY <1>7, <2>1, <2>2
<1>15. OwnOnly(t)
  BY <1>5, Zenon DEF OwnOnly, CanSend
<1>16. Tracked(t, Append(ln, x), fr)
  <2>1. PICK er, el : Tracks(s, ln, fr, er, el)
    BY <1>1, Zenon DEF Tracked
  <2>2. PICK q \in Seq(Command) :
          q = Append(ln, x) /\ Len(q) = Len(ln) + 1 /\ q[Len(ln) + 1] = x
          /\ \A j \in 1..Len(ln) : q[j] = ln[j]
    <3>1. /\ Append(ln, x) \in Seq(Command) /\ Len(Append(ln, x)) = Len(ln) + 1
          /\ Append(ln, x)[Len(ln) + 1] = x
          /\ \A j \in 1..Len(ln) : Append(ln, x)[j] = ln[j]
      BY AppendProperties
    <3> QED BY <3>1, Zenon
  <2>3. Len(ln) \in Nat
    OBVIOUS
  <2> DEFINE fl == [j \in Sent(q) |-> IF j = Len(ln) + 1 THEN L + 1 ELSE el[j]]
  <2>4. \A j \in Sent(q) : j = Len(ln) + 1 \/ (j \in Sent(ln) /\ j < Len(ln) + 1 /\ q[j] = ln[j])
    BY <2>2, <2>3 DEF Sent
  <2>5. \A j \in Sent(ln) : j # Len(ln) + 1
    BY <2>3 DEF Sent
  <2>6. \A j \in Sent(q) : fl[j] = IF j = Len(ln) + 1 THEN L + 1 ELSE el[j]
    OBVIOUS
  <2>7. /\ er \in [Answers(fr) -> 1..L] /\ el \in [Sent(ln) -> 1..L]
        /\ Increasing(Answers(fr), er) /\ Increasing(Sent(ln), el)
        /\ Before(Answers(fr), er, Sent(ln), el)
        /\ AnswersMatch(s, fr, er) /\ SentMatch(s, ln, el)
    BY <2>1 DEF Tracks, L
  <2>8. fl \in [Sent(q) -> 1..Len(t.pend)] /\ er \in [Answers(fr) -> 1..Len(t.pend)]
    <3>1. \A j \in Sent(q) : (IF j = Len(ln) + 1 THEN L + 1 ELSE el[j]) \in 1..Len(t.pend)
      BY <1>8, <2>4, <2>7
    <3>2. 1..L \subseteq 1..Len(t.pend)
      BY <1>8
    <3> QED BY <2>7, <3>1, <3>2
  <2> HIDE DEF fl
  <2>9. Increasing(Sent(q), fl)
    <3> SUFFICES ASSUME NEW i \in Sent(q), NEW j \in Sent(q), i < j
                 PROVE  fl[i] < fl[j]
      BY DEF Increasing
    <3>1. j \in 1..(Len(ln) + 1) /\ i \in Nat
      BY <2>2, <2>3 DEF Sent
    <3>2. i # Len(ln) + 1
      BY <2>3, <3>1
    <3>3. i \in Sent(ln) /\ fl[i] = el[i]
      BY <2>4, <2>6, <3>2
    <3>4. CASE j = Len(ln) + 1
      BY <1>8, <2>6, <2>7, <3>3, <3>4
    <3>5. CASE j # Len(ln) + 1
      BY <2>4, <2>6, <2>7, <3>3, <3>5, Zenon DEF Increasing
    <3> QED BY <3>4, <3>5
  <2>10. Before(Answers(fr), er, Sent(q), fl)
    <3> SUFFICES ASSUME NEW i \in Answers(fr), NEW j \in Sent(q)
                 PROVE  er[i] < fl[j]
      BY DEF Before
    <3>1. CASE j = Len(ln) + 1
      BY <1>8, <2>6, <2>7, <3>1
    <3>2. CASE j # Len(ln) + 1
      BY <2>4, <2>6, <2>7, <3>2, Zenon DEF Before
    <3> QED BY <3>1, <3>2
  <2>11. \A y : \A n \in 1..L : Awaited(s, y, n) => Awaited(t, y, n)
    BY <1>6, <1>10, Zenon DEF Awaited, L
  <2>12. \A n \in 1..L : t.pend[n] = s.pend[n]
    BY <1>6, Zenon DEF L
  <2>13. AnswersMatch(t, fr, er)
    BY <2>7, <2>11, <2>12, Zenon DEF AnswersMatch
  <2>14. SentMatch(t, q, fl)
    <3> SUFFICES ASSUME NEW j \in Sent(q)
                 PROVE  Awaited(t, q[j], fl[j]) /\ ~t.pend[fl[j]].echoed
      BY DEF SentMatch
    <3>1. CASE j = Len(ln) + 1
      <4>1. fl[j] = L + 1 /\ q[j] = x /\ t.pend[L + 1] = e
        BY <1>6, <2>2, <2>6, <3>1, Zenon DEF L
      <4>2. x.turn => s.turn # None /\ s.client = c /\ ~s.fresh
        BY DEF CanSend
      <4>3. Awaited(t, x, L + 1)
        BY <1>3, <1>10, <4>1, <4>2, Zenon DEF Awaited
      <4> QED BY <1>3, <4>1, <4>3, Zenon
    <3>2. CASE j # Len(ln) + 1
      <4>1. j \in Sent(ln) /\ q[j] = ln[j] /\ fl[j] = el[j] /\ el[j] \in 1..L
        BY <2>4, <2>6, <2>7, <3>2
      <4>2. Awaited(s, ln[j], el[j]) /\ ~s.pend[el[j]].echoed
        BY <2>7, <4>1, Zenon DEF SentMatch
      <4>3. Awaited(t, ln[j], el[j])
        BY <2>11, <4>1, <4>2, Zenon
      <4> QED BY <2>12, <4>1, <4>2, <4>3, Zenon
    <3> QED BY <3>1, <3>2
  <2>15. Tracks(t, q, fr, er, fl)
    BY <2>7, <2>8, <2>9, <2>10, <2>13, <2>14, Zenon DEF Tracks
  <2> QED BY <2>2, <2>15, Zenon DEF Tracked
<1>17. ASSUME NEW y \in App \ {a}
       PROVE  PendOf(t.pend, y) = PendOf(s.pend, y)
  <2>1. \A n \in 1..Len(t.pend) : t.pend[n].src = y => n \in 1..L /\ s.pend[n].src = y
    BY <1>3, <1>7, Zenon
  <2>2. \A n \in 1..L : n \in 1..Len(t.pend) /\ t.pend[n] = s.pend[n]
    BY <1>6, <1>8, Zenon DEF L
  <2> QED BY <2>1, <2>2 DEF PendOf, L
<1>18. \A n \in 1..Len(t.pend) :
         \/ n \in 1..Len(s.pend) /\ t.pend[n] = s.pend[n]
         \/ t.pend[n].src = a /\ ~t.pend[n].own
  BY <1>3, <1>7, Zenon DEF L
<1> QED BY <1>11, <1>12, <1>13, <1>14, <1>15, <1>16, <1>17, <1>18, Zenon DEF Waiting
-----------------------------------------------------------------------------
(* What always holds, whoever is late. *)

\* Applications' data is held exactly while an own query is under way, and there is a
\* decoder while the keyer is online.
Sound(s) ==
  /\ s \in Work
  /\ s.hold = s.own /\ (s.own => online) /\ (online => s.decoder)

LEMMA SoundSame ==
  ASSUME NEW s, Sound(s), NEW t \in Work,
         t.own = s.own, t.hold = s.hold, t.decoder = s.decoder
  PROVE  Sound(t)
BY Zenon DEF Sound

LEMMA SoundSteps ==
  ASSUME NEW s, Sound(s), Joined
  PROVE  /\ Sound(multi_update(s)) /\ Sound(route_check(s)) /\ Sound(setup(s))
         /\ Sound(own_try(s)) /\ Sound(own_end(s))
         /\ \A expired \in BOOLEAN : Sound(turn_check(s, expired))
<1>1. s \in Work /\ prods \in Seq(App)
  BY DEF Sound, Joined
<1>2. Sound(multi_update(s))
  <2>1. MultiUpdates(s, multi_update(s))
    BY <1>1, MultiUpdateFacts
  <2> QED BY <2>1, SoundSame, Zenon DEF MultiUpdates, SamePend, SameOwn
<1>3. Sound(route_check(s))
  <2>1. ChecksRoute(s, route_check(s))
    BY <1>1, RouteCheckFacts
  <2> QED BY <2>1, SoundSame, Zenon DEF ChecksRoute, SameButRoute, SamePend, SameOwn
<1>4. Sound(setup(s))
  <2>1. SetsUp(s, setup(s))
    BY <1>1, SetupFacts
  <2> QED BY <2>1, Zenon DEF SetsUp, Cleared, Sound
<1>5. Sound(own_try(s))
  <2>1. CASE own_try(s) = s
    BY <2>1
  <2>2. CASE Asks(s, own_try(s)) /\ s.decoder /\ online
    BY <2>2, Zenon DEF Asks, Sound
  <2> QED BY <1>1, <2>1, <2>2, OwnTryFacts
<1>6. Sound(own_end(s))
  <2>1. EndsOwn(s, own_end(s))
    BY <1>1, OwnEndFacts
  <2> QED BY <2>1, Zenon DEF EndsOwn, SamePend, Sound
<1>7. ASSUME NEW expired \in BOOLEAN
      PROVE  Sound(turn_check(s, expired))
  <2>1. CASE turn_check(s, expired) = s
    BY <2>1
  <2>2. CASE MovesTurn(s, turn_check(s, expired))
    <3>1. PICK u \in Work, fd \in Fd \cup {None} :
            /\ GivesTurn(u, turn_check(s, expired), fd, fd # None)
            /\ u = s \/ Discards(s, u)
      BY <2>2, Zenon DEF MovesTurn
    <3>2. Sound(u)
      BY <3>1, SoundSame, Zenon DEF Discards, SameOwn
    <3> QED BY <3>1, <3>2, SoundSame, Zenon DEF GivesTurn, SameOwn, SamePend
  <2> QED BY <1>1, <2>1, <2>2, TurnCheckFacts
<1> QED BY <1>2, <1>3, <1>4, <1>5, <1>6, <1>7

LEMMA SoundHost ==
  ASSUME NEW s, Sound(s)
  PROVE  /\ \A fd \in Fd, fresh \in BOOLEAN : Sound(turn_give(s, fd, fresh))
         /\ \A fd \in Fd : Sound(Numbered(s, fd))
         /\ \A p \in Pending : Sound(pend_add(s, p))
         /\ Sound([s EXCEPT !.fresh = FALSE])
<1>1. s \in Work
  BY DEF Sound
<1>2. ASSUME NEW fd \in Fd, NEW fresh \in BOOLEAN
      PROVE  Sound(turn_give(s, fd, fresh))
  <2>1. GivesTurn(s, turn_give(s, fd, fresh), fd, fresh)
    BY <1>1, TurnGiveFacts
  <2> QED BY <2>1, SoundSame, Zenon DEF GivesTurn, SameOwn, SamePend
<1>3. ASSUME NEW fd \in Fd
      PROVE  Sound(Numbered(s, fd))
  <2>1. Numbers(s, Numbered(s, fd), fd)
    BY <1>1, NumberFacts
  <2> QED BY <2>1, SoundSame, Zenon DEF Numbers, SameOwn, SamePend
<1>4. ASSUME NEW p \in Pending
      PROVE  Sound(pend_add(s, p))
  <2>1. AddsEntry(s, pend_add(s, p), p)
    BY <1>1, PendAddFacts
  <2> QED BY <2>1, SoundSame, Zenon DEF AddsEntry, SameOwn
<1>5. Sound([s EXCEPT !.fresh = FALSE])
  BY DEF Sound, Work
<1> QED BY <1>2, <1>3, <1>4, <1>5

LEMMA SoundRadio ==
  ASSUME NEW s, Sound(s), prods \in Seq(App)
  PROVE  /\ \A dest : Sound(route_flush(s, dest))
         /\ \A dest : \A parts \in Seq(Source \cup {Radio}) : Sound(pass_out(s, parts, dest))
         /\ \A p \in Source \cup {Radio} : Sound([s EXCEPT !.buf = Append(@, p)])
         /\ \A h \in BOOLEAN : Sound([s EXCEPT !.half = h])
         /\ Sound([s EXCEPT !.flush = TRUE])
         /\ \A t : Processes(s, t) => Sound(t)
<1>1. s \in Work
  BY DEF Sound
<1>2. ASSUME NEW dest
      PROVE  Sound(route_flush(s, dest))
  <2>1. Flushes(s, route_flush(s, dest), dest)
    BY <1>1, FlushFacts
  <2> QED BY <2>1, SoundSame, Zenon DEF Flushes, SameButRoute, SameOwn, SamePend
<1>3. ASSUME NEW parts \in Seq(Source \cup {Radio}), NEW dest
      PROVE  Sound(pass_out(s, parts, dest))
  <2>1. PassesOut(s, pass_out(s, parts, dest), parts, Receivers(dest))
    BY <1>1, PassOutFacts
  <2> QED BY <2>1, SoundSame, Zenon DEF PassesOut, SameButRoute, SameOwn, SamePend
<1>4. ASSUME NEW p \in Source \cup {Radio}
      PROVE  Sound([s EXCEPT !.buf = Append(@, p)])
  <2>1. PICK q \in Seq(Source \cup {Radio}) : q = Append(s.buf, p)
    <3>1. s.buf \in Seq(Source \cup {Radio})
      BY <1>1 DEF Work
    <3>2. Append(s.buf, p) \in Seq(Source \cup {Radio})
      BY <3>1, AppendProperties
    <3> QED BY <3>2, Zenon
  <2>2. [s EXCEPT !.buf = q] \in Work
    BY <1>1 DEF Work
  <2>3. Sound([s EXCEPT !.buf = q])
    BY <1>1, <2>2 DEF Sound, Work
  <2> QED BY <2>1, <2>3
<1>5. /\ \A h \in BOOLEAN : Sound([s EXCEPT !.half = h])
      /\ Sound([s EXCEPT !.flush = TRUE])
  BY DEF Sound, Work
<1>6. ASSUME NEW t, Processes(s, t)
      PROVE  Sound(t)
  BY <1>6, Zenon DEF Processes, Sound
<1> QED BY <1>2, <1>3, <1>4, <1>5, <1>6
-----------------------------------------------------------------------------
(* From a handler's work record to the state and back. *)

LEMMA BeginGood ==
  ASSUME Always, Core(cn, line, fromR), Routes(cn, fromR, begun, count["trx"])
  PROVE  Good(Begin(cn), line, fromR, begun, count["trx"])
<1>1. CatnOf(cn, Begin(cn)) /\ Begin(cn).out = <<>>
  BY BeginFacts DEF Always, Types
<1> DEFINE s == Begin(cn)
<1>2. /\ s.turn = cn.turn /\ s.client = cn.client /\ s.fresh = cn.fresh /\ s.slots = cn.slots
      /\ s.pend = cn.pend /\ s.decoder = cn.decoder /\ s.half = cn.half /\ s.own = cn.own
      /\ s.multi = cn.multi /\ s.routing = cn.routing /\ s.buf = cn.buf
  BY <1>1, Zenon DEF CatnOf, SameTurns, SamePend
<1>3. Clean(s)
  <2>1. Emitted(s) = {}
    <3>1. s.out = <<>> => Len(s.out) = 0
      OBVIOUS
    <3> QED BY <1>1, <3>1 DEF Emitted, Elements
  <2> QED BY <2>1, Zenon DEF Clean
<1> HIDE DEF s
<1>4. Slots(s) /\ Idle(s) /\ Entries(s) /\ Turns(s) /\ OwnOnly(s) /\ Bound(s)
  <2>1. Slots(cn) /\ Idle(cn) /\ Entries(cn) /\ Turns(cn) /\ OwnOnly(cn) /\ Bound(cn)
    BY DEF Core, Waiting
  <2>2. Slots(s) /\ Idle(s)
    BY <1>2, <2>1 DEF Slots, Idle
  <2>3. \A k : EntryOk(cn, k) <=> EntryOk(s, k)
    BY <1>2 DEF EntryOk
  <2>4. Entries(s)
    BY <1>2, <2>1, <2>3, Zenon DEF Entries
  <2>5. Turns(s)
    BY <1>2, <2>1 DEF Turns
  <2>6. OwnOnly(s) /\ Bound(s)
    BY <1>2, <2>1, Zenon DEF OwnOnly, Bound
  <2> QED BY <2>2, <2>4, <2>5, <2>6
<1>6. Tracked(s, line, fromR)
  <2>1. PICK er, el : Tracks(cn, line, fromR, er, el)
    BY Zenon DEF Core, Waiting, Tracked
  <2>2. \A x, e : Awaited(cn, x, e) <=> Awaited(s, x, e)
    BY <1>2 DEF Awaited
  <2>3. AnswersMatch(s, fromR, er) /\ SentMatch(s, line, el)
    BY <1>2, <2>1, <2>2, Zenon DEF Tracks, AnswersMatch, SentMatch
  <2>4. Tracks(s, line, fromR, er, el)
    BY <1>2, <2>1, <2>3, Zenon DEF Tracks
  <2> QED BY <2>4, Zenon DEF Tracked
<1>7. Routes(s, fromR, begun, count["trx"])
  BY <1>2, Zenon DEF Routes, Lonely, Parts, Buffered, Counts
<1> QED BY <1>3, <1>4, <1>6, <1>7, Zenon DEF Good, Core, Waiting, s

LEMMA BeginSound ==
  ASSUME Always
  PROVE  /\ Sound(Begin(cn)) /\ Begin(cn).tx = <<>> /\ Begin(cn).dest = NoDest
         /\ Begin(cn).answered = FALSE
         /\ Joined /\ Steady(Begin(cn), fromR) /\ Connectors /\ prods \in Seq(App)
<1>1. Begin(cn) \in Work /\ CatnOf(cn, Begin(cn)) /\ Begin(cn).tx = <<>>
      /\ Begin(cn).dest = NoDest /\ Begin(cn).answered = FALSE
  BY BeginFacts DEF Always, Types
<1>2. Joined
  <2>1. prods \in Seq(App)
    BY DEF Always, Types
  <2>2. Connected \subseteq App
    BY <2>1, ReceiversFacts
  <2>3. \A x \in Connected : fdOf[x] \in Fd
    BY <2>2 DEF Always, Connectors
  <2> QED BY <2>1, <2>3 DEF Joined
<1>3. Sound(Begin(cn)) /\ Steady(Begin(cn), fromR)
  BY <1>1, <1>2, Zenon DEF Sound, Steady, CatnOf, SamePend, Always, Modes
<1> QED BY <1>1, <1>2, <1>3, Zenon DEF Always, Joined

LEMMA EndWaiting ==
  ASSUME NEW v, CatnOf(cn', v), prods' = prods, fdOf' = fdOf, online' = online,
         Waiting(v, line', fromR')
  PROVE  Waiting(cn, line, fromR)'
<1>2. /\ cn'.turn = v.turn /\ cn'.client = v.client /\ cn'.fresh = v.fresh
      /\ cn'.slots = v.slots /\ cn'.pend = v.pend /\ cn'.decoder = v.decoder /\ cn'.own = v.own
  BY Zenon DEF CatnOf, SameTurns, SamePend
<1>3. Connected' = Connected
  BY DEF Connected
<1>1. Slots(v) /\ Idle(v) /\ Entries(v) /\ Turns(v) /\ OwnOnly(v)
  BY DEF Waiting
<1>4. Slots(cn)' /\ Idle(cn)'
  BY <1>1, <1>2 DEF Slots, Idle
<1>5. Entries(cn)'
  <2>1. \A k : EntryOk(v, k) <=> EntryOk(cn, k)'
    BY <1>2, <1>3 DEF EntryOk
  <2>2. \A k : k \in 1..Len(v.pend) => EntryOk(cn, k)'
    BY <1>1, <2>1, Zenon DEF Entries
  <2>3. \A k, j \in 1..Len(v.pend) : SameSender(v.pend[k], v.pend[j])
    BY <1>1, Zenon DEF Entries
  <2> QED BY <1>2, <2>2, <2>3 DEF Entries, SameSender
<1>6. Turns(cn)' /\ OwnOnly(cn)'
  BY <1>1, <1>2, <1>3 DEF Turns, OwnOnly
<1>7. Tracked(cn, line, fromR)'
  <2>1. PICK er, el : Tracks(v, line', fromR', er, el)
    BY Zenon DEF Waiting, Tracked
  <2>2. \A x, e : Awaited(v, x, e) <=> Awaited(cn, x, e)'
    BY <1>2 DEF Awaited
  <2>3. Sent(line)' = Sent(line') /\ Answers(fromR)' = Answers(fromR')
    BY DEF Sent, Answers
  <2>4. AnswersMatch(cn, fromR, er)' /\ SentMatch(cn, line, el)'
    BY <1>2, <2>1, <2>2, <2>3, Zenon DEF Tracks, AnswersMatch, SentMatch
  <2>5. Tracks(cn, line, fromR, er, el)'
    BY <1>2, <2>1, <2>3, <2>4, Zenon DEF Tracks, Increasing, Before
  <2> QED BY <2>5, Zenon DEF Tracked
<1> QED BY <1>4, <1>5, <1>6, <1>7, Zenon DEF Waiting

LEMMA EndRoutes ==
  ASSUME NEW v, CatnOf(cn', v), prods' = prods, fdOf' = fdOf, online' = online,
         Routes(v, fromR', begun', count'["trx"])
  PROVE  Routes(cn, fromR, begun, count["trx"])'
<1>2. /\ cn'.pend = v.pend /\ cn'.half = v.half /\ cn'.own = v.own
      /\ cn'.multi = v.multi /\ cn'.routing = v.routing /\ cn'.buf = v.buf
  BY Zenon DEF CatnOf, SameTurns, SamePend
<1>3. Connected' = Connected
  BY DEF Connected
<1> QED BY <1>2, <1>3, Zenon DEF Routes, Lonely, Parts, Buffered, Counts, Noise, Owner

LEMMA EndBound ==
  ASSUME NEW v, CatnOf(cn', v), sock' = sock, Bound(v)
  PROVE  Bound(cn)'
<1>1. cn'.pend = v.pend
  BY Zenon DEF CatnOf, SamePend
<1> QED BY <1>1, Zenon DEF Bound, PendOf

LEMMA EndCatn ==
  ASSUME NEW v \in Work, End(v), Types
  PROVE  cn' \in CatnType /\ CatnOf(cn', v)
BY EndFacts DEF End, Types

LEMMA EndClean ==
  ASSUME NEW v \in Work, End(v), Clean(v), stray = {}, ~leaked
  PROVE  stray' = {} /\ ~leaked'
<1>1. \A k \in 1..Len(v.out) : v.out[k] \in Emitted(v)
  BY DEF Emitted, Elements
<1>2. StrayOf(v) = {}
  BY <1>1 DEF StrayOf, Clean
<1>3. \A k \in 1..Len(v.out) : ~(v.out[k].src = Own /\ v.out[k].to # {})
  BY <1>1, Zenon DEF Clean
<1> QED BY <1>2, <1>3, Zenon DEF End

\* A handler leaves the channel as v says.
Ends(v) ==
  /\ cn' \in CatnType /\ CatnOf(cn', v)
  /\ Clean(v) /\ stray = {} /\ ~leaked => stray' = {} /\ ~leaked'

LEMMA EndEnds ==
  ASSUME NEW v \in Work, End(v), Types
  PROVE  Ends(v)
<1>1. cn' \in CatnType /\ CatnOf(cn', v)
  BY EndCatn
<1>2. Clean(v) /\ stray = {} /\ ~leaked => stray' = {} /\ ~leaked'
  BY EndClean
<1> QED BY <1>1, <1>2, Zenon DEF Ends

\* A handler that leaves the connectors alone.
LEMMA EndInTime ==
  ASSUME Always, InvInTime, NEW v \in Work, Ends(v), Good(v, line', fromR', begun', count'["trx"]),
         UNCHANGED <<prods, fdOf, sock, online>>, ~missed',
         count' = count \/ count' = [count EXCEPT !["late"] = @ + 1]
  PROVE  InvInTime'
<1>1. CatnOf(cn', v)
  BY Zenon DEF Ends
<1>2. Waiting(v, line', fromR') /\ Bound(v) /\ Routes(v, fromR', begun', count'["trx"]) /\ Clean(v)
  BY Zenon DEF Good, Core
<1>3. Waiting(cn, line, fromR)'
  BY <1>1, <1>2, EndWaiting, Zenon
<1>4. Bound(cn)'
  BY <1>1, <1>2, EndBound, Zenon
<1>5. Routes(cn, fromR, begun, count["trx"])'
  BY <1>1, <1>2, EndRoutes, Zenon
<1>6. stray' = {} /\ ~leaked'
  BY <1>2, Zenon DEF InvInTime, Ends
<1>7. count'["trx"] = count["trx"] /\ count["trx"] <= MaxTrx
  BY DEF InvInTime, Always, Types
<1> QED BY <1>3, <1>4, <1>5, <1>6, <1>7 DEF InvInTime, Core

\* What a handler leaves always holds again.
LEMMA EndAnyAlways ==
  ASSUME Always, NEW v, Sound(v), Ends(v), line' \in Seq(Command), fromR' \in Seq(Frame),
         begun' \in BOOLEAN, Frames(fromR'), online \/ fromR' = <<>>,
         sock' \in [App -> Seq(Kind)],
         \A x \in App : Len(sock'[x]) <= 1 /\ (sock'[x] # <<>> => x \in Connected),
         UNCHANGED <<prods, fdOf, online>>,
         count' = count \/ count' = [count EXCEPT !["late"] = @ + 1]
  PROVE  Always'
<1>1. v \in Work
  BY DEF Sound
<1>2. cn' \in CatnType /\ CatnOf(cn', v)
  BY Zenon DEF Ends
<1>3. count' \in [{"lost", "late", "trx", "off"} -> Nat]
  BY DEF Always, Types
<1>4. Types'
  BY <1>2, <1>3, Zenon DEF Always, Types
<1>5. Connectors'
  <2>1. Connected' = Connected
    BY DEF Connected
  <2> QED BY <2>1, Zenon DEF Always, Connectors
<1>6. Modes'
  BY <1>2, Zenon DEF Modes, Sound, CatnOf, SamePend
<1>7. Frames(fromR)'
  BY Zenon DEF Frames
<1> QED BY <1>4, <1>5, <1>6, <1>7, Zenon DEF Always

\* A handler that leaves the connectors and the radio alone.
LEMMA EndAlways ==
  ASSUME Always, NEW v, Sound(v), Ends(v), line' \in Seq(Command),
         UNCHANGED <<prods, fdOf, sock, online, fromR, begun>>,
         count' = count \/ count' = [count EXCEPT !["late"] = @ + 1]
  PROVE  Always'
<1>1. /\ fromR' \in Seq(Frame) /\ begun' \in BOOLEAN /\ sock' \in [App -> Seq(Kind)]
      /\ Frames(fromR') /\ (online \/ fromR' = <<>>)
      /\ \A x \in App : Len(sock'[x]) <= 1 /\ (sock'[x] # <<>> => x \in Connected)
  <2>1. fromR \in Seq(Frame) /\ begun \in BOOLEAN /\ sock \in [App -> Seq(Kind)]
        /\ Frames(fromR) /\ (online \/ fromR = <<>>)
    BY Zenon DEF Always, Types, Modes
  <2>2. \A x \in App : Len(sock[x]) <= 1 /\ (sock[x] # <<>> => x \in Connected)
    BY Zenon DEF Always, Connectors
  <2>3. fromR' = fromR /\ begun' = begun /\ sock' = sock /\ online' = online
    OBVIOUS
  <2>4. Frames(fromR')
    BY <2>1, <2>3, Zenon
  <2>5. \A x \in App : Len(sock'[x]) <= 1 /\ (sock'[x] # <<>> => x \in Connected)
    <3> SUFFICES ASSUME NEW x \in App
                 PROVE  Len(sock'[x]) <= 1 /\ (sock'[x] # <<>> => x \in Connected)
      OBVIOUS
    <3>1. sock'[x] = sock[x]
      BY <2>3, Zenon
    <3> QED BY <2>2, <3>1, Zenon
  <2>6. fromR' \in Seq(Frame) /\ begun' \in BOOLEAN /\ sock' \in [App -> Seq(Kind)]
        /\ (online \/ fromR' = <<>>)
    BY <2>1, <2>3
  <2> QED BY <2>4, <2>5, <2>6
<1> QED BY <1>1, EndAnyAlways

LEMMA LateFacts ==
  ASSUME Types, count' = count \/ count' = [count EXCEPT !["late"] = @ + 1], InTime'
  PROVE  InTime /\ count' = count
BY DEF Types, InTime

\* Such a handler keeps the invariant.
LEMMA EndInv ==
  ASSUME Inv, NEW v, Sound(v), Ends(v), line' \in Seq(Command),
         UNCHANGED <<prods, fdOf, sock, online, fromR, begun, missed>>,
         count' = count \/ count' = [count EXCEPT !["late"] = @ + 1],
         InTime' /\ InvInTime => Good(v, line', fromR, begun, count["trx"])
  PROVE  Inv'
<1>1. Always
  BY DEF Inv
<1>2. Always'
  BY <1>1, EndAlways
<1>3. ASSUME InTime'
      PROVE  InvInTime'
  <2>1. InTime /\ count' = count
    BY <1>1, <1>3, LateFacts DEF Always
  <2>2. InvInTime
    BY <2>1 DEF Inv
  <2>3. Good(v, line', fromR, begun, count["trx"])
    BY <1>3, <2>2
  <2>4. Good(v, line', fromR', begun', count'["trx"])
    BY <2>1, <2>3, Zenon
  <2>5. v \in Work /\ ~missed'
    BY <2>2 DEF Sound, InvInTime
  <2> QED BY <1>1, <2>1, <2>2, <2>4, <2>5, EndInTime
<1> QED BY <1>2, <1>3, Zenon DEF Inv
-----------------------------------------------------------------------------
(* An application's command is read. *)

LEMMA FeedHostSound ==
  ASSUME NEW u, Sound(u), Joined, NEW a \in App, fdOf[a] \in Fd, NEW k \in Kind,
         NEW check \in BOOLEAN
  PROVE  Sound(feed_host(u, a, k, check))
<1> DEFINE c == client_of(u, fdOf[a])
           n == Numbered(u, fdOf[a])
           t == IF check THEN setup(n) ELSE n
<1>1. c \in Client \cup {0}
  BY ClientType DEF Sound
<1>2. Sound(n)
  BY SoundHost
<1>3. Sound(t)
  BY <1>2, SoundSteps
<1>4. c # 0 => HostEntry(a, k, c) \in Pending
  BY <1>1 DEF HostEntry, Pending, Source
<1>5. c # 0 => Sound(pend_add(t, HostEntry(a, k, c)))
  BY <1>3, <1>4, SoundHost
<1> HIDE DEF c, n, t
<1>6. feed_host(u, a, k, check) = IF ~t.decoder \/ c = 0 THEN t ELSE pend_add(t, HostEntry(a, k, c))
  BY DEF feed_host, HostEntry, c, n, t
<1> QED BY <1>3, <1>5, <1>6

\* Without a decoder nobody answers the command.
LEMMA SilentTracked ==
  ASSUME NEW s, NEW ln \in Seq(Command), NEW fr, NEW x \in Command, ~online, ~x.turn,
         Tracked(s, ln, fr)
  PROVE  Tracked(s, Append(ln, x), fr)
<1>1. /\ Len(Append(ln, x)) = Len(ln) + 1 /\ Append(ln, x)[Len(ln) + 1] = x
      /\ \A j \in 1..Len(ln) : Append(ln, x)[j] = ln[j]
  BY AppendProperties
<1>2. PICK q : q = Append(ln, x)
  OBVIOUS
<1>3. Sent(q) = Sent(ln) /\ \A j \in Sent(ln) : q[j] = ln[j]
  BY <1>1, <1>2 DEF Sent
<1>4. PICK er, el : Tracks(s, ln, fr, er, el)
  BY Zenon DEF Tracked
<1>5. SentMatch(s, q, el)
  BY <1>3, <1>4, Zenon DEF Tracks, SentMatch
<1>6. Tracks(s, q, fr, er, el)
  BY <1>3, <1>4, <1>5, Zenon DEF Tracks
<1> QED BY <1>2, <1>6, Zenon DEF Tracked

\* Applications that have sent a command have not sent too many.
BoundBut(s, a) ==
  \A y \in App \ {a} : sock[y] # <<>> => Cardinality(PendOf(s.pend, y)) < MaxPipe

HostGood(s, a, ln, fr, bg, m) ==
  Waiting(s, ln, fr) /\ Routes(s, fr, bg, m) /\ Clean(s) /\ BoundBut(s, a)

LEMMA SendsGood ==
  ASSUME Room, NEW a \in App, NEW c, NEW s, CanSend(s, a, c), NEW k \in Kind, NEW t,
         AddsEntry(s, t, HostEntry(a, k, c)), NEW x \in Command, x.src = a, x.kind = k,
         x.turn => s.turn # None, s.decoder,
         NEW ln \in Seq(Command), NEW fr \in Seq(Frame), NEW bg, NEW m,
         Good(s, ln, fr, bg, m), Connectors, prods \in Seq(App)
  PROVE  HostGood(t, a, Append(ln, x), fr, bg, m)
<1>1. Core(s, ln, fr) /\ Lonely(s) /\ Parts(s, fr, bg) /\ Buffered(s, fr, bg, m) /\ Clean(s) /\ Bound(s)
  BY Zenon DEF Good, Routes, Core
<1>2. /\ Waiting(t, Append(ln, x), fr)
      /\ \A y \in App \ {a} : PendOf(t.pend, y) = PendOf(s.pend, y)
      /\ \A n \in 1..Len(t.pend) :
           \/ n \in 1..Len(s.pend) /\ t.pend[n] = s.pend[n]
           \/ t.pend[n].src = a /\ ~t.pend[n].own
  BY <1>1, SendsWaiting
<1>3. BoundBut(t, a)
  BY <1>1, <1>2, Zenon DEF Bound, BoundBut
<1>4. t.multi = s.multi /\ t.routing = s.routing /\ t.buf = s.buf /\ t.half = s.half /\ t.out = s.out
  BY Zenon DEF AddsEntry, SameRoute
<1>5. Parts(t, fr, bg) /\ Buffered(t, fr, bg, m) /\ Clean(t)
  BY <1>1, <1>4, Zenon DEF Parts, Buffered, Counts, Clean, Emitted
<1>6. Lonely(t)
  <2> SUFFICES ASSUME NEW n \in 1..Len(t.pend)
               PROVE  /\ t.pend[n].src \in App /\ online =>
                           /\ ~t.multi => Len(prods) <= 1
                           /\ ~t.routing => Connected \subseteq {t.pend[n].src}
                      /\ t.pend[n].own => t.routing
    BY Zenon DEF Lonely
  <2>1. CASE n \in 1..Len(s.pend) /\ t.pend[n] = s.pend[n]
    BY <1>1, <1>4, <2>1, Zenon DEF Lonely
  <2>2. CASE t.pend[n].src = a /\ ~t.pend[n].own
    <3>1. Len(prods) <= 1 => Connected \subseteq {a}
      BY DEF Connected, CanSend
    <3> QED BY <1>4, <2>2, <3>1, Zenon DEF CanSend
  <2> QED BY <1>2, <2>1, <2>2
<1> QED BY <1>2, <1>3, <1>5, <1>6, Zenon DEF HostGood, Routes

\* a has the line, or is alone, when its command is handed to the decoder.
HasLine(u, a) ==
  /\ a \in Connected /\ sock[a] # <<>> /\ ~u.own
  /\ u.turn # None => u.turn = fdOf[a] /\ ~u.fresh
  /\ u.decoder => Len(prods) <= 1 \/ (u.multi /\ u.routing /\ u.turn # None)

LEMMA FeedHostGood ==
  ASSUME Room, NEW a \in App, NEW u, Sound(u), HasLine(u, a), NEW k \in Kind,
         NEW check \in BOOLEAN, NEW x \in Command, x.src = a, x.kind = k,
         x.turn <=> u.turn # None,
         NEW ln \in Seq(Command), NEW fr \in Seq(Frame), NEW bg, NEW m,
         Good(u, ln, fr, bg, m), Steady(u, fr)
  PROVE  HostGood(feed_host(u, a, k, check), a, Append(ln, x), fr, bg, m)
<1>1. u \in Work /\ Connectors /\ prods \in Seq(App) /\ fdOf[a] \in Fd /\ (online => u.decoder)
  BY DEF Sound, Steady, Joined, HasLine, Connectors
<1>2. PICK c : c = client_of(u, fdOf[a])
  OBVIOUS
<1>3. PICK n : n = Numbered(u, fdOf[a])
  OBVIOUS
<1>4. PICK w : w = IF check THEN setup(n) ELSE n
  OBVIOUS
<1>5. Numbers(u, n, fdOf[a])
  BY <1>1, <1>3, NumberFacts
<1>6. /\ Good(n, ln, fr, bg, m) /\ c \in Client /\ n.slots[c] = fdOf[a]
      /\ \A i \in Client : u.slots[i] = fdOf[a] => c = i
  <2>1. /\ Good(n, ln, fr, bg, m)
        /\ client_of(u, fdOf[a]) \in Client /\ n.slots[client_of(u, fdOf[a])] = fdOf[a]
        /\ \A i \in Client : u.slots[i] = fdOf[a] => client_of(u, fdOf[a]) = i
    BY <1>1, <1>5, NumberedGood
  <2> QED BY <1>2, <2>1
<1>7. /\ n \in Work /\ n.turn = u.turn /\ n.client = u.client /\ n.fresh = u.fresh
      /\ n.decoder = u.decoder /\ n.multi = u.multi /\ n.routing = u.routing /\ n.own = u.own
  BY <1>5, Zenon DEF Numbers, SamePend, SameOwn, SameRoute
<1>8. Slots(u) /\ Idle(u)
  BY Zenon DEF Good, Core, Waiting
<1>9. u.turn # None => u.client = c
  BY <1>6, <1>8, Zenon DEF Slots, HasLine
<1>10. Steady(n, fr)
  BY <1>7, Zenon DEF Steady
<1>11. Good(w, ln, fr, bg, m) /\ (w = n \/ (~n.decoder /\ Cleared(n, w) /\ w.decoder = TRUE))
  <2>1. Good(setup(n), ln, fr, bg, m) /\ SetsUp(n, setup(n))
    BY <1>6, <1>7, <1>10, SetupGood, Zenon
  <2> QED BY <1>4, <1>6, <2>1, Zenon DEF SetsUp
<1>12. c # 0 /\ None \notin Fd
  BY <1>6, CatAssumption DEF Client, None
<1>13. feed_host(u, a, k, check) = IF ~w.decoder THEN w ELSE pend_add(w, HostEntry(a, k, c))
  BY <1>2, <1>3, <1>4, <1>12 DEF feed_host, HostEntry
<1>14. CASE ~w.decoder
  <2>1. w = n /\ ~u.decoder
    BY <1>7, <1>11, <1>14
  <2>2. ~online /\ ~x.turn
    BY <1>1, <1>8, <2>1, Zenon DEF Idle
  <2>3. Core(w, ln, fr) /\ Routes(w, fr, bg, m) /\ Clean(w)
    BY <1>11, Zenon DEF Good
  <2>4. Tracked(w, Append(ln, x), fr)
    BY <2>2, <2>3, SilentTracked, Zenon DEF Core, Waiting
  <2>5. Waiting(w, Append(ln, x), fr)
    BY <2>3, <2>4, Zenon DEF Core, Waiting
  <2>6. BoundBut(w, a)
    BY <2>3, Zenon DEF Core, Bound, BoundBut
  <2> QED BY <1>13, <1>14, <2>3, <2>5, <2>6, Zenon DEF HostGood
<1>15. CASE w.decoder
  <2>1. CanSend(w, a, c) /\ (x.turn => w.turn # None)
    <3>1. CASE w = n
      BY <1>6, <1>7, <1>9, <1>15, <3>1, Zenon DEF CanSend, HasLine
    <3>2. CASE ~n.decoder /\ Cleared(n, w)
      <4>1. w \in Work /\ w.turn = None /\ w.pend = <<>> /\ w.own = FALSE /\ w.slots = n.slots
        BY <3>2, Zenon DEF Cleared, TurnGone
      <4>2. ~online /\ ~x.turn
        BY <1>1, <1>7, <1>8, <3>2, Zenon DEF Idle
      <4> QED BY <1>6, <4>1, <4>2, Zenon DEF CanSend, HasLine
    <3> QED BY <1>11, <3>1, <3>2
  <2>2. PICK e \in Pending : e = HostEntry(a, k, c)
    BY <1>6 DEF HostEntry, Pending, Source
  <2>3. AddsEntry(w, pend_add(w, HostEntry(a, k, c)), HostEntry(a, k, c))
    <3>1. w \in Work
      BY <2>1, Zenon DEF CanSend
    <3> QED BY <2>2, <3>1, PendAddFacts, Zenon
  <2>4. HostGood(pend_add(w, HostEntry(a, k, c)), a, Append(ln, x), fr, bg, m)
    BY <1>1, <1>11, <1>15, <2>1, <2>3, SendsGood, Zenon
  <2> QED BY <1>13, <1>15, <2>4
<1> QED BY <1>14, <1>15

LEMMA HostCbStep ==
  ASSUME Room, Inv, NEW a \in App, NEW check \in BOOLEAN, HostCb(a, check)
  PROVE  Inv'
<1>1. /\ a \in Connected /\ sock[a] # <<>>
      /\ ~cn.hold /\ cn.turn \in {None, fdOf[a]}
      /\ sock' = [sock EXCEPT ![a] = Tail(@)]
      /\ UNCHANGED <<prods, fdOf, fromR, begun, online, count, missed>>
  BY Zenon DEF HostCb
<1>2. PICK s : s = multi_update(Begin(cn))
  OBVIOUS
<1>3. PICK t : t = IF s.multi /\ s.turn = None THEN turn_give(s, fdOf[a], FALSE) ELSE s
  OBVIOUS
<1>4. PICK u : u = IF t.turn = fdOf[a] THEN [t EXCEPT !.fresh = FALSE] ELSE t
  OBVIOUS
<1>5. PICK k : k = Head(sock[a])
  OBVIOUS
<1>6. PICK v : v = feed_host(u, a, k, check)
  OBVIOUS
<1>7. PICK x : x = [src |-> a, kind |-> k, turn |-> u.turn # None]
  OBVIOUS
<1>8. End(v) /\ line' = Append(line, x)
  BY <1>2, <1>3, <1>4, <1>5, <1>6, <1>7, Zenon DEF HostCb
<1>9. Always
  BY DEF Inv
<1>10. /\ sock[a] \in Seq(Kind) /\ Len(sock[a]) <= 1 /\ fdOf[a] \in Fd
  BY <1>1, <1>9 DEF Always, Types, Connectors
<1>11. k \in Kind /\ Tail(sock[a]) = <<>> /\ Tail(sock[a]) \in Seq(Kind)
  <2>1. /\ Tail(sock[a]) \in Seq(Kind) /\ Len(Tail(sock[a])) = Len(sock[a]) - 1
        /\ Len(sock[a]) \in Nat \ {0}
    BY <1>1, <1>10, TailMoves
  <2>5. Len(sock[a]) <= 1
    BY <1>10
  <2>7. PICK L : L = Len(sock[a])
    OBVIOUS
  <2>8. L \in Nat \ {0} /\ L <= 1
    BY <2>1, <2>5, <2>7, Zenon
  <2>6. Len(sock[a]) = 1
    <3>1. L = 1
      BY <2>8
    <3> QED BY <2>7, <3>1
  <2>2. Tail(sock[a]) \in Seq(Kind) /\ Len(Tail(sock[a])) = 0
    <3>1. Len(sock[a]) - 1 = 0
      BY <2>6
    <3> QED BY <2>1, <3>1, Zenon
  <2>3. Head(sock[a]) \in Kind
    BY <1>1, <1>10, HeadTailProperties
  <2>4. Tail(sock[a]) = <<>>
    BY <2>2, EmptySeq
  <2> QED BY <1>5, <2>2, <2>3, <2>4
<1>12. /\ sock' \in [App -> Seq(Kind)] /\ sock'[a] = <<>>
       /\ \A y \in App \ {a} : sock'[y] = sock[y]
  <2>1. sock \in [App -> Seq(Kind)]
    BY <1>9 DEF Always, Types
  <2>2. PICK q \in Seq(Kind) : q = Tail(sock[a])
    BY <1>11
  <2>3. sock' = [sock EXCEPT ![a] = q]
    BY <1>1, <2>2
  <2> QED BY <1>11, <2>1, <2>2, <2>3
<1>13. /\ Sound(Begin(cn)) /\ Joined /\ Steady(Begin(cn), fromR) /\ Connectors /\ prods \in Seq(App)
  BY <1>9, BeginSound
<1>14. Sound(s)
  BY <1>2, <1>13, SoundSteps
<1>15. Sound(t)
  BY <1>3, <1>10, <1>14, SoundHost
<1>16. Sound(u)
  BY <1>4, <1>15, SoundHost
<1>17. Sound(v)
  BY <1>6, <1>10, <1>11, <1>13, <1>16, FeedHostSound
<1>18. x \in Command /\ x.src = a /\ x.kind = k /\ (x.turn <=> u.turn # None)
  BY <1>7, <1>11 DEF Command, Source
<1>19. line \in Seq(Command) /\ fromR \in Seq(Frame) /\ begun \in BOOLEAN
       /\ Frames(fromR) /\ (online \/ fromR = <<>>)
       /\ \A y \in App : Len(sock[y]) <= 1 /\ (sock[y] # <<>> => y \in Connected)
  BY <1>9 DEF Always, Types, Modes, Connectors
<1>20. Always'
  <2>1. line' \in Seq(Command)
    <3>1. Append(line, x) \in Seq(Command)
      BY <1>18, <1>19, AppendProperties
    <3> QED BY <1>8, <3>1
  <2>2. \A y \in App : Len(sock'[y]) <= 1 /\ (sock'[y] # <<>> => y \in Connected)
    <3>1. Len(sock'[a]) = 0
      BY <1>12
    <3> SUFFICES ASSUME NEW y \in App
                 PROVE  Len(sock'[y]) <= 1 /\ (sock'[y] # <<>> => y \in Connected)
      OBVIOUS
    <3>2. CASE y = a
      BY <1>12, <3>1, <3>2
    <3>3. CASE y # a
      <4>1. sock'[y] = sock[y]
        BY <1>12, <3>3
      <4> QED BY <1>19, <4>1, Zenon
    <3> QED BY <3>2, <3>3
  <2>3. fromR' \in Seq(Frame) /\ begun' \in BOOLEAN /\ (online \/ fromR' = <<>>)
    BY <1>1, <1>19
  <2>4. Frames(fromR')
    BY <1>1, <1>19, Zenon
  <2>5. UNCHANGED <<prods, fdOf, online>> /\ count' = count
    BY <1>1
  <2>6. Ends(v)
    BY <1>8, <1>9, <1>17, EndEnds DEF Sound, Always
  <2> QED BY <1>9, <1>12, <1>17, <2>1, <2>2, <2>3, <2>4, <2>5, <2>6, EndAnyAlways
<1>21. ASSUME InTime'
       PROVE  InvInTime'
  <2>1. InTime
    BY <1>1, <1>21 DEF InTime
  <2>2. InvInTime
    BY <2>1 DEF Inv
  <2>3. PICK m : m = count["trx"]
    OBVIOUS
  <2>4. PICK b : b = Begin(cn)
    OBVIOUS
  <2>5. Good(b, line, fromR, begun, m) /\ b \in Work /\ CatnOf(cn, b)
    <3>1. Good(Begin(cn), line, fromR, begun, count["trx"])
      BY <1>9, <2>2, BeginGood, Zenon DEF InvInTime
    <3>2. Begin(cn) \in Work /\ CatnOf(cn, Begin(cn))
      BY <1>9, BeginFacts DEF Always, Types
    <3> QED BY <2>3, <2>4, <3>1, <3>2
  <2>6. Steady(b, fromR) /\ s = multi_update(b)
    BY <1>2, <1>13, <2>4
  <2>7. Good(s, line, fromR, begun, m)
    BY <1>19, <2>5, <2>6, MultiUpdateGood
  <2>8. MultiUpdates(b, s)
    BY <1>13, <2>5, <2>6, MultiUpdateFacts
  <2>9. /\ s.decoder = b.decoder /\ ~s.own
        /\ s.turn \in {None, fdOf[a]}
        /\ s.multi <=> s.decoder /\ Len(prods) > 1
        /\ s.multi => s.routing
    <3>1. s.decoder = b.decoder /\ s.own = b.own /\ b.own = cn.own /\ b.turn = cn.turn /\ b.hold = cn.hold
      BY <2>5, <2>8, Zenon DEF MultiUpdates, SamePend, SameOwn, CatnOf, SameTurns
    <3>2. ~cn.own
      BY <1>1, <1>9, Zenon DEF Always, Modes
    <3>3. s.turn = b.turn \/ s.turn = None
      BY <2>8, Zenon DEF MultiUpdates, SameTurns, TurnGone
    <3>4. s.multi = (b.decoder /\ Len(prods) > 1) /\ (s.multi => s.routing)
      BY <2>8, Zenon DEF MultiUpdates, route_always
    <3> QED BY <1>1, <3>1, <3>2, <3>3, <3>4, Zenon
  <2>10. Good(t, line, fromR, begun, m) /\ t.decoder = s.decoder /\ t.own = s.own
         /\ t.multi = s.multi /\ t.routing = s.routing
         /\ t.turn \in {None, fdOf[a]} /\ (s.multi => t.turn = fdOf[a])
    <3>1. CASE s.multi /\ s.turn = None
      <4>1. s \in Work
        BY <1>14 DEF Sound
      <4>2. GivesTurn(s, t, fdOf[a], FALSE)
        BY <1>3, <1>10, <3>1, <4>1, TurnGiveFacts
      <4>3. Good(t, line, fromR, begun, m)
        BY <1>10, <1>13, <1>19, <2>7, <2>9, <3>1, <4>1, <4>2, GrantGood
      <4> QED BY <4>2, <4>3, Zenon DEF GivesTurn, SamePend, SameOwn, SameRoute
    <3>2. CASE ~(s.multi /\ s.turn = None)
      <4>1. t = s
        BY <1>3, <3>2
      <4> QED BY <2>7, <2>9, <3>2, <4>1, Zenon
    <3> QED BY <3>1, <3>2
  <2>11. t \in Work /\ u \in Work
    BY <1>15, <1>16 DEF Sound
  <2>12. Good(u, line, fromR, begun, m) /\ u.decoder = t.decoder /\ u.own = t.own
         /\ u.multi = t.multi /\ u.routing = t.routing /\ u.turn = t.turn
         /\ (u.turn = fdOf[a] => ~u.fresh)
    <3>1. CASE t.turn = fdOf[a]
      <4>1. u = [t EXCEPT !.fresh = FALSE]
        BY <1>4, <3>1
      <4>2. Good(u, line, fromR, begun, m)
        BY <1>13, <1>19, <2>10, <2>11, <4>1, FreshGood
      <4> QED BY <2>11, <4>1, <4>2 DEF Work
    <3>2. CASE t.turn # fdOf[a]
      <4>1. u = t
        BY <1>4, <3>2
      <4> QED BY <2>10, <3>2, <4>1, Zenon
    <3> QED BY <3>1, <3>2
  <2>13. HasLine(u, a)
    <3>1. fdOf[a] # None
      BY <1>10, CatAssumption DEF None
    <3>2. Len(prods) > 1 \/ Len(prods) <= 1
      BY <1>13
    <3> QED BY <1>1, <2>9, <2>10, <2>12, <3>1, <3>2, Zenon DEF HasLine
  <2>14. Steady(u, fromR)
    BY <1>13, <1>16, <1>19, Zenon DEF Steady, Sound
  <2>15. HostGood(v, a, Append(line, x), fromR, begun, m)
    <3>1. HostGood(feed_host(u, a, k, check), a, Append(line, x), fromR, begun, m)
      BY <1>11, <1>16, <1>18, <1>19, <2>12, <2>13, <2>14, FeedHostGood
    <3> QED BY <1>6, <3>1
  <2>16. Waiting(v, line', fromR') /\ Routes(v, fromR', begun', count'["trx"]) /\ Clean(v) /\ BoundBut(v, a)
    BY <1>1, <1>8, <2>3, <2>15, Zenon DEF HostGood
  <2>17. v \in Work /\ CatnOf(cn', v)
    BY <1>8, <1>9, <1>17, EndCatn DEF Sound, Always
  <2>18. Waiting(cn, line, fromR)' /\ Routes(cn, fromR, begun, count["trx"])'
    BY <1>1, <2>16, <2>17, EndWaiting, EndRoutes, Zenon
  <2>19. Bound(cn)'
    <3>1. cn'.pend = v.pend
      BY <2>17, Zenon DEF CatnOf, SamePend
    <3> QED BY <1>12, <2>16, <3>1 DEF Bound, BoundBut, PendOf
  <2>20. stray' = {} /\ ~leaked' /\ ~missed' /\ count'["trx"] <= MaxTrx
    BY <1>1, <1>8, <2>2, <2>16, <2>17, EndClean DEF InvInTime
  <2> QED BY <2>18, <2>19, <2>20, Zenon DEF InvInTime, Core
<1> QED BY <1>20, <1>21, Zenon DEF Inv
-----------------------------------------------------------------------------
(* The timers. *)

\* A handler's record, when nobody has been late.
LEMMA StartGood ==
  ASSUME Inv, InvInTime
  PROVE  /\ Good(Begin(cn), line, fromR, begun, count["trx"])
         /\ line \in Seq(Command) /\ fromR \in Seq(Frame)
BY BeginGood, Zenon DEF Inv, InvInTime, Always, Types

LEMMA EmptyTx ==
  ASSUME NEW s \in Work
  PROVE  s.tx \in Seq(Command) /\ (line \in Seq(Command) => line \o s.tx \in Seq(Command))
BY ConcatProperties DEF Work

LEMMA TickStep ==
  ASSUME Room, Inv, NEW check \in BOOLEAN, NEW due \in BOOLEAN, Tick(check, due)
  PROVE  Inv'
<1>1. PICK b : b = Begin(cn)
  OBVIOUS
<1>2. PICK r : r = multi_update(b)
  OBVIOUS
<1>3. PICK s : s = route_check(r)
  OBVIOUS
<1>4. PICK t : t = IF check /\ ~cn.own THEN setup(s) ELSE s
  OBVIOUS
<1>5. PICK u : u = IF due /\ ~cn.own THEN own_try(t) ELSE t
  OBVIOUS
<1>6. End(u) /\ line' = line \o u.tx
  BY <1>1, <1>2, <1>3, <1>4, <1>5, Zenon DEF Tick
<1>7. UNCHANGED <<prods, fdOf, sock, fromR, begun, online, count, missed>>
  BY DEF Tick
<1>8. Always /\ Types
  BY DEF Inv, Always
<1>9. /\ Sound(b) /\ b.tx = <<>> /\ Joined /\ Steady(b, fromR) /\ Connectors /\ prods \in Seq(App)
  BY <1>1, <1>8, BeginSound
<1>10. Sound(r)
  BY <1>2, <1>9, SoundSteps
<1>11. Sound(s)
  BY <1>3, <1>9, <1>10, SoundSteps
<1>12. Sound(t)
  BY <1>4, <1>9, <1>11, SoundSteps
<1>13. Sound(u)
  BY <1>5, <1>9, <1>12, SoundSteps
<1>14. Ends(u)
  BY <1>6, <1>8, <1>13, EndEnds DEF Sound
<1>15. line' \in Seq(Command)
  <2>1. u \in Work /\ line \in Seq(Command)
    BY <1>8, <1>13 DEF Sound, Types
  <2> QED BY <1>6, <2>1, EmptyTx
<1>16. t.tx = <<>>
  <2>1. b \in Work /\ r \in Work /\ s \in Work
    BY <1>9, <1>10, <1>11 DEF Sound
  <2>2. MultiUpdates(b, r) /\ ChecksRoute(r, s) /\ SetsUp(s, setup(s))
    BY <1>2, <1>3, <1>9, <2>1, MultiUpdateFacts, RouteCheckFacts, SetupFacts
  <2>3. s.tx = <<>>
    BY <1>9, <2>2, Zenon DEF MultiUpdates, ChecksRoute, SameButRoute, SameOwn
  <2>4. setup(s).tx = s.tx
    BY <2>2, Zenon DEF SetsUp, Cleared
  <2> QED BY <1>4, <2>3, <2>4
<1>17. ASSUME InvInTime
       PROVE  Good(u, line', fromR, begun, count["trx"])
  <2>1. PICK m : m = count["trx"]
    OBVIOUS
  <2>2. Good(b, line, fromR, begun, m) /\ line \in Seq(Command) /\ fromR \in Seq(Frame)
    BY <1>1, <1>17, <2>1, StartGood
  <2>3. b \in Work /\ r \in Work /\ s \in Work /\ t \in Work
    BY <1>9, <1>10, <1>11, <1>12 DEF Sound
  <2>4. Steady(r, fromR) /\ Steady(s, fromR)
    BY <1>9, <1>10, <1>11, Zenon DEF Steady, Sound
  <2>5. Good(r, line, fromR, begun, m)
    BY <1>2, <1>9, <2>2, <2>3, MultiUpdateGood
  <2>6. Good(s, line, fromR, begun, m)
    BY <1>3, <2>2, <2>3, <2>4, <2>5, RouteCheckGood
  <2>7. Good(t, line, fromR, begun, m)
    <3>1. Good(setup(s), line, fromR, begun, m)
      BY <2>2, <2>3, <2>4, <2>6, SetupGood
    <3> QED BY <1>4, <2>6, <3>1
  <2>8. Good(own_try(t), line \o own_try(t).tx, fromR, begun, m)
    BY <1>16, <2>2, <2>3, <2>7, OwnTryGood
  <2>9. line \o t.tx = line
    BY <1>16, <2>2
  <2>10. Good(u, line \o u.tx, fromR, begun, m)
    <3>1. CASE due /\ ~cn.own
      BY <1>5, <2>8, <3>1
    <3>2. CASE ~(due /\ ~cn.own)
      <4>1. u = t
        BY <1>5, <3>2
      <4> QED BY <2>7, <2>9, <4>1, Zenon
    <3> QED BY <3>1, <3>2
  <2> QED BY <1>6, <2>1, <2>10, Zenon
<1> QED BY <1>7, <1>13, <1>14, <1>15, <1>17, EndInv

LEMMA OwnTimeoutStep ==
  ASSUME Inv, OwnTimeout
  PROVE  Inv'
<1>1. PICK b : b = Begin(cn)
  OBVIOUS
<1>2. PICK v : v = own_end(b)
  OBVIOUS
<1>3. End(v) /\ UNCHANGED <<prods, fdOf, sock, line, fromR, begun, online, count, missed>>
  BY <1>1, <1>2, Zenon DEF OwnTimeout
<1>4. Always /\ Types
  BY DEF Inv, Always
<1>5. Sound(b) /\ Joined /\ Connectors /\ prods \in Seq(App) /\ b \in Work
  BY <1>1, <1>4, BeginSound DEF Sound
<1>6. Sound(v)
  BY <1>2, <1>5, SoundSteps
<1>7. Ends(v) /\ line' \in Seq(Command)
  BY <1>3, <1>4, <1>6, EndEnds DEF Sound, Types
<1>8. ASSUME InvInTime
      PROVE  Good(v, line', fromR, begun, count["trx"])
  <2>1. Good(b, line, fromR, begun, count["trx"]) /\ line \in Seq(Command) /\ fromR \in Seq(Frame)
    BY <1>1, <1>8, StartGood
  <2>2. EndsOwn(b, v)
    BY <1>2, <1>5, OwnEndFacts
  <2> QED BY <1>3, <1>5, <2>1, <2>2, EndsOwnGood
<1> QED BY <1>3, <1>6, <1>7, <1>8, EndInv

LEMMA TurnTimerStep ==
  ASSUME Room, Inv, NEW expired \in BOOLEAN, TurnTimer(expired)
  PROVE  Inv'
<1>1. PICK b : b = Begin(cn)
  OBVIOUS
<1>2. PICK v : v = turn_check(b, expired)
  OBVIOUS
<1>3. End(v) /\ UNCHANGED <<prods, fdOf, sock, line, fromR, begun, online, missed>>
  BY <1>1, <1>2, Zenon DEF TurnTimer
<1>4. Always /\ Types
  BY DEF Inv, Always
<1>5. Sound(b) /\ Joined /\ Connectors /\ prods \in Seq(App) /\ b \in Work
  BY <1>1, <1>4, BeginSound DEF Sound
<1>6. Sound(v)
  BY <1>2, <1>5, SoundSteps
<1>7. Ends(v) /\ line' \in Seq(Command)
  BY <1>3, <1>4, <1>6, EndEnds DEF Sound, Types
<1>8. count' = count \/ count' = [count EXCEPT !["late"] = @ + 1]
  BY DEF TurnTimer, Late
<1>9. ASSUME InTime', InvInTime
      PROVE  Good(v, line', fromR, begun, count["trx"])
  <2>1. Good(b, line, fromR, begun, count["trx"]) /\ line \in Seq(Command) /\ fromR \in Seq(Frame)
    BY <1>1, <1>9, StartGood
  <2>2. count' = count /\ count \in [{"lost", "late", "trx", "off"} -> Nat]
    BY <1>4, <1>8, <1>9, LateFacts DEF Types
  <2>3. expired => \A k \in 1..Len(cn.pend) : cn.pend[k].client = cn.client => ~Coming(cn.pend[k].src)
    BY <2>2 DEF TurnTimer, Late
  <2>4. b.pend = cn.pend /\ b.client = cn.client
    BY <1>1, <1>4, BeginFacts, Zenon DEF Types, CatnOf, SameTurns, SamePend
  <2>5. expired => Settled(b, line, fromR)
    <3> SUFFICES ASSUME expired, NEW k \in 1..Len(b.pend), b.pend[k].client = b.client
                 PROVE  /\ \A j \in Answers(fromR) : fromR[j].src # b.pend[k].src
                        /\ \A j \in Sent(line) : line[j].src # b.pend[k].src
      BY Zenon DEF Settled
    <3>1. ~Coming(b.pend[k].src)
      BY <2>3, <2>4, Zenon
    <3>2. \A j \in Answers(fromR) : j \in 1..Len(fromR) /\ fromR[j].what = "answer"
      BY DEF Answers
    <3>3. \A j \in Sent(line) : j \in 1..Len(line)
      BY DEF Sent
    <3> QED BY <3>1, <3>2, <3>3, Zenon DEF Coming
  <2> QED BY <1>2, <1>3, <1>5, <2>1, <2>5, TurnCheckGood
<1> QED BY <1>3, <1>6, <1>7, <1>8, <1>9, EndInv

\* The buffer may go where nobody sees what is not his.
LEMMA FlushCore ==
  ASSUME NEW s \in Work, NEW t, NEW dest, Flushes(s, t, dest), Connectors, prods \in Seq(App),
         NEW ln \in Seq(Command), NEW fr \in Seq(Frame), Core(s, ln, fr)
  PROVE  Core(t, ln, fr)
<1>1. t \in Work /\ t.turn = s.turn /\ t.client = s.client /\ t.fresh = s.fresh /\ t.slots = s.slots
      /\ t.pend = s.pend /\ t.decoder = s.decoder /\ t.own = s.own
  BY Zenon DEF Flushes, SameButRoute, SameTurns, SamePend, SameOwn
<1>2. Slots(t) /\ Idle(t)
  BY <1>1 DEF Core, Waiting, Slots, Idle
<1> QED BY <1>1, <1>2, KeptCore

LEMMA FlushGood ==
  ASSUME NEW s \in Work, NEW t, NEW dest, Flushes(s, t, dest), Connectors, prods \in Seq(App),
         NEW ln \in Seq(Command), NEW fr \in Seq(Frame), NEW bg, NEW m, Good(s, ln, fr, bg, m),
         dest = Drop \/ Harmless(s.buf, Receivers(dest))
  PROVE  Good(t, ln, fr, bg, m)
<1>1. Core(t, ln, fr)
  BY FlushCore DEF Good
<1>2. t.pend = s.pend /\ t.multi = s.multi /\ t.routing = s.routing /\ t.half = s.half
      /\ t.buf = <<>>
  BY Zenon DEF Flushes, SameButRoute, SamePend
<1>3. Lonely(t)
  BY <1>2, Zenon DEF Good, Routes, Lonely
<1>4. Parts(t, fr, bg)
  <2>1. \A k \in 1..Len(t.buf) : FALSE
    BY <1>2
  <2>2. Parts(s, fr, bg)
    BY Zenon DEF Good, Routes
  <2> QED BY <1>2, <2>1, <2>2, Zenon DEF Parts
<1>5. Buffered(t, fr, bg, m)
  BY <1>2, EmptyCounts, Zenon DEF Good, Routes
<1>6. Clean(t)
  <2>1. Clean(s)
    BY DEF Good
  <2>2. CASE dest = Drop
    BY <2>1, <2>2, Zenon DEF Flushes, Clean
  <2>3. CASE dest # Drop /\ Harmless(s.buf, Receivers(dest))
    BY <2>1, <2>3, HarmlessClean, Zenon DEF Flushes
  <2> QED BY <2>2, <2>3
<1> QED BY <1>1, <1>3, <1>4, <1>5, <1>6, Zenon DEF Good, Routes

LEMMA RouteTimerStep ==
  ASSUME Room, Inv, RouteTimer
  PROVE  Inv'
<1>1. PICK b : b = Begin(cn)
  OBVIOUS
<1>2. PICK v : v = route_flush(b, route_default(cn))
  OBVIOUS
<1>3. End(v) /\ UNCHANGED <<prods, fdOf, sock, line, fromR, begun, online, missed>>
  BY <1>1, <1>2, Zenon DEF RouteTimer
<1>4. Always /\ Types
  BY DEF Inv, Always
<1>5. Sound(b) /\ Joined /\ Connectors /\ prods \in Seq(App) /\ b \in Work
  BY <1>1, <1>4, BeginSound DEF Sound
<1>6. Sound(v)
  BY <1>2, <1>5, SoundRadio
<1>7. Ends(v) /\ line' \in Seq(Command)
  BY <1>3, <1>4, <1>6, EndEnds DEF Sound, Types
<1>8. count' = count \/ count' = [count EXCEPT !["late"] = @ + 1]
  BY DEF RouteTimer
<1>9. ASSUME InTime', InvInTime
      PROVE  Good(v, line', fromR, begun, count["trx"])
  <2>1. Good(b, line, fromR, begun, count["trx"]) /\ line \in Seq(Command) /\ fromR \in Seq(Frame)
    BY <1>1, <1>9, StartGood
  <2>2. count' = count /\ count \in [{"lost", "late", "trx", "off"} -> Nat]
    BY <1>4, <1>8, <1>9, LateFacts DEF Types
  <2>3. ~begun
    BY <2>2 DEF RouteTimer
  <2>4. Harmless(b.buf, Receivers(route_default(cn)))
    <3>1. Parts(b, fromR, begun)
      BY <2>1, Zenon DEF Good, Routes
    <3>2. PICK A : A = Receivers(route_default(cn))
      OBVIOUS
    <3>3. begun => Harmless(<<Owner(fromR[1])>>, A)
      BY <2>3
    <3>4. Harmless(b.buf, A)
      BY <3>1, <3>3, PartsHarmless, Zenon
    <3> QED BY <3>2, <3>4
  <2>5. Flushes(b, v, route_default(cn))
    BY <1>2, <1>5, FlushFacts
  <2> QED BY <1>3, <1>5, <2>1, <2>4, <2>5, FlushGood
<1> QED BY <1>3, <1>6, <1>7, <1>8, <1>9, EndInv

LEMMA PendExpireStep ==
  ASSUME Room, Inv, PendExpire
  PROVE  Inv'
<1>1. PICK b : b = Begin(cn)
  OBVIOUS
<1>3. /\ cn.pend # <<>> /\ ~(cn.own /\ cn.pend[1].own)
      /\ cn' = [cn EXCEPT !.pend = Tail(@)] /\ Late({1})
      /\ UNCHANGED <<prods, fdOf, sock, line, fromR, begun, online, stray, leaked, missed>>
  BY DEF PendExpire
<1>4. Always /\ Types
  BY DEF Inv, Always
<1>5. Sound(b) /\ Joined /\ Connectors /\ prods \in Seq(App) /\ b \in Work /\ CatnOf(cn, b)
      /\ cn \in CatnType
  BY <1>1, <1>4, BeginSound, BeginFacts DEF Sound, Types
<1>6. PICK q \in Seq(Pending) : q = Tail(cn.pend)
  <2>1. cn.pend \in Seq(Pending)
    BY <1>5 DEF CatnType
  <2>2. Tail(cn.pend) \in Seq(Pending)
    BY <1>3, <2>1, TailMoves
  <2> QED BY <2>2, Zenon
<1>7. PICK v : v = [b EXCEPT !.pend = q]
  OBVIOUS
<1>8. v \in Work /\ v.pend = q /\ SameTurns(b, v) /\ SameOwn(b, v) /\ SameRoute(b, v)
      /\ v.decoder = b.decoder /\ v.half = b.half
  BY <1>5, <1>7 DEF Work, SameTurns, SameOwn, SameRoute
<1>9. Sound(v)
  BY <1>5, <1>8, SoundSame, Zenon DEF SameOwn
<1>10. cn' \in CatnType /\ CatnOf(cn', v)
  <2>1. cn' = [cn EXCEPT !.pend = q]
    BY <1>3, <1>6
  <2>2. cn' \in CatnType /\ cn'.pend = q
        /\ cn'.turn = cn.turn /\ cn'.client = cn.client /\ cn'.fresh = cn.fresh
        /\ cn'.slots = cn.slots /\ cn'.decoder = cn.decoder /\ cn'.half = cn.half
        /\ cn'.own = cn.own /\ cn'.hold = cn.hold /\ cn'.multi = cn.multi
        /\ cn'.filter = cn.filter /\ cn'.routing = cn.routing /\ cn'.buf = cn.buf
        /\ cn'.flush = cn.flush
    BY <1>5, <2>1 DEF CatnType
  <2> QED BY <1>5, <1>8, <2>2, Zenon DEF CatnOf, SameTurns, SamePend, SameOwn, SameRoute
<1>11. Ends(v) /\ line' \in Seq(Command)
  BY <1>3, <1>4, <1>10 DEF Ends, Types
<1>12. count' = count \/ count' = [count EXCEPT !["late"] = @ + 1]
  BY <1>3 DEF Late
<1>13. ASSUME InTime', InvInTime
       PROVE  Good(v, line', fromR, begun, count["trx"])
  <2>1. Good(b, line, fromR, begun, count["trx"]) /\ line \in Seq(Command) /\ fromR \in Seq(Frame)
    BY <1>1, <1>13, StartGood
  <2>2. count' = count /\ count \in [{"lost", "late", "trx", "off"} -> Nat]
    BY <1>4, <1>12, <1>13, LateFacts DEF Types
  <2>3. ~Coming(cn.pend[1].src)
    BY <1>3, <2>2 DEF Late
  <2>4. b.pend = cn.pend /\ b.pend \in Seq(Pending) /\ b.pend # <<>> /\ v.pend = Tail(b.pend)
    <3>1. b.pend = cn.pend
      BY <1>5, Zenon DEF CatnOf, SamePend
    <3>2. b.pend \in Seq(Pending)
      BY <1>5 DEF Work
    <3> QED BY <1>3, <1>6, <1>8, <3>1, <3>2
  <2>5. PICK pos, K : Moves(pos, K, b.pend, v.pend) /\ K = 2..Len(b.pend)
    BY <2>4, TailMoves
  <2>6. Evolves(b, v, pos, K)
    BY <1>5, <1>8, <2>5, Zenon DEF Evolves, SameTurns, SameOwn
  <2>7. Core(b, line, fromR) /\ Slots(b) /\ Idle(b)
    BY <2>1 DEF Good, Core, Waiting
  <2>8. Slots(v)
    BY <1>8, <2>7 DEF Slots, SameTurns
  <2>9. Idle(v)
    <3>1. b.decoder \/ b.pend = <<>>
      BY <2>7 DEF Idle
    <3> QED BY <1>8, <2>4, <3>1 DEF Idle
  <2>10. ASSUME NEW er, NEW el, Tracks(b, line, fromR, er, el)
         PROVE  /\ \A j \in Answers(fromR) : er[j] \in K
                /\ \A j \in Sent(line) : el[j] \in K
    <3>1. /\ \A j \in Answers(fromR) : er[j] \in 1..Len(b.pend) /\ b.pend[er[j]].src = fromR[j].src
          /\ \A j \in Sent(line) : el[j] \in 1..Len(b.pend) /\ b.pend[el[j]].src = line[j].src
      BY <2>10 DEF Tracks, AnswersMatch, SentMatch, Awaited
    <3>2. \A j \in Answers(fromR) : j \in 1..Len(fromR) /\ fromR[j].what = "answer"
      BY DEF Answers
    <3>3. \A j \in Sent(line) : j \in 1..Len(line)
      BY DEF Sent
    <3>4. /\ \A j \in Answers(fromR) : er[j] # 1
          /\ \A j \in Sent(line) : el[j] # 1
      BY <2>3, <2>4, <3>1, <3>2, <3>3, ZenonT(40) DEF Coming
    <3> QED BY <2>5, <3>1, <3>4
  <2>11. Core(v, line, fromR)
    BY <1>5, <2>1, <2>6, <2>7, <2>8, <2>9, <2>10, MovedCore, Zenon
  <2>12. CameFrom(b, v, pos, K)
    BY <2>6, MovedFrom
  <2>13. begun => v.half
    BY <1>8, <2>1, Zenon DEF Good, Routes, Parts
  <2>14. Routes(v, fromR, begun, count["trx"]) /\ Clean(v)
    BY <1>8, <2>1, <2>12, <2>13, KeptRoutes, Zenon DEF Good
  <2>15. Good(v, line, fromR, begun, count["trx"])
    BY <2>11, <2>14, Zenon DEF Good
  <2> QED BY <1>3, <2>15, Zenon
<1> QED BY <1>3, <1>9, <1>11, <1>12, <1>13, EndInv
-----------------------------------------------------------------------------
(* The radio. *)

\* Frames behind those that are coming.
LEMMA FramesConcat ==
  ASSUME NEW fr \in Seq(Frame), NEW g \in Seq(Frame), Frames(fr), Frames(g)
  PROVE  fr \o g \in Seq(Frame) /\ Frames(fr \o g)
<1> DEFINE h == fr \o g
           L == Len(fr)
           M == Len(g)
<1>1. /\ h \in Seq(Frame) /\ L \in Nat /\ M \in Nat /\ Len(h) = L + M
      /\ \A j \in 1..L : h[j] = fr[j]
      /\ \A j \in (L + 1)..(L + M) : h[j] = g[j - L]
  <2>1. /\ h \in Seq(Frame) /\ Len(h) = L + M
        /\ \A j \in 1..(L + M) : h[j] = IF j <= L THEN fr[j] ELSE g[j - L]
    BY ConcatProperties
  <2>2. L \in Nat /\ M \in Nat
    OBVIOUS
  <2> QED BY <2>1, <2>2
<1> HIDE DEF h
<1>2. ASSUME NEW j \in 1..Len(h)
      PROVE  /\ h[j].what \in {"trx", "noise"} <=> h[j].src = Radio
             /\ h[j].what = "echo" =>
                  /\ j + 1 \in 1..Len(h) /\ h[j + 1].what = "answer"
                  /\ h[j + 1].src = h[j].src /\ h[j + 1].kind = h[j].kind
                  /\ h[j + 1].turn = h[j].turn
  <2>1. CASE j <= L
    <3>1. j \in 1..L /\ h[j] = fr[j]
      BY <1>1, <2>1
    <3>2. /\ fr[j].what \in {"trx", "noise"} <=> fr[j].src = Radio
          /\ fr[j].what = "echo" =>
               /\ j + 1 \in 1..L /\ fr[j + 1].what = "answer"
               /\ fr[j + 1].src = fr[j].src /\ fr[j + 1].kind = fr[j].kind
               /\ fr[j + 1].turn = fr[j].turn
      BY <3>1 DEF Frames
    <3>3. j + 1 \in 1..L => j + 1 \in 1..Len(h) /\ h[j + 1] = fr[j + 1]
      BY <1>1
    <3> QED BY <3>1, <3>2, <3>3, Zenon
  <2>2. CASE j > L
    <3>1. j - L \in 1..M /\ h[j] = g[j - L]
      BY <1>1, <2>2
    <3>2. PICK i : i = j - L
      OBVIOUS
    <3>3. i \in 1..M /\ h[j] = g[i]
      BY <3>1, <3>2
    <3>4. /\ g[i].what \in {"trx", "noise"} <=> g[i].src = Radio
          /\ g[i].what = "echo" =>
               /\ i + 1 \in 1..M /\ g[i + 1].what = "answer"
               /\ g[i + 1].src = g[i].src /\ g[i + 1].kind = g[i].kind
               /\ g[i + 1].turn = g[i].turn
      BY <3>3 DEF Frames
    <3>5. i + 1 \in 1..M => j + 1 \in 1..Len(h) /\ h[j + 1] = g[i + 1]
      <4>1. ASSUME i + 1 \in 1..M
            PROVE  j + 1 \in (L + 1)..(L + M) /\ (j + 1) - L = i + 1
        BY <1>1, <3>2, <4>1
      <4> QED BY <1>1, <4>1
    <3> QED BY <3>3, <3>4, <3>5, Zenon
  <2> QED BY <1>1, <2>1, <2>2
<1>3. Frames(h)
  BY <1>2, Zenon DEF Frames
<1> QED BY <1>1, <1>3 DEF h

\* A command's echo and answer.
FrameFor(c, what) == [what |-> what, src |-> c.src, kind |-> c.kind, turn |-> c.turn]

RadioFrames(c) ==
  (IF Echo THEN <<FrameFor(c, "echo")>> ELSE <<>>) \o <<FrameFor(c, "answer")>>

LEMMA RadioFramesFacts ==
  ASSUME NEW c \in Command
  PROVE  /\ RadioFrames(c) \in Seq(Frame) /\ Frames(RadioFrames(c))
         /\ Len(RadioFrames(c)) \in 1..2
         /\ \A j \in 1..Len(RadioFrames(c)) :
              /\ RadioFrames(c)[j].src = c.src /\ RadioFrames(c)[j].kind = c.kind
              /\ RadioFrames(c)[j].turn = c.turn
              /\ RadioFrames(c)[j].what = (IF j = Len(RadioFrames(c)) THEN "answer" ELSE "echo")
<1>1. PICK e \in Frame : e = FrameFor(c, "echo")
  BY DEF FrameFor, Frame, Command
<1>2. PICK w \in Frame : w = FrameFor(c, "answer")
  BY DEF FrameFor, Frame, Command
<1>3. /\ e.what = "echo" /\ e.src = c.src /\ e.kind = c.kind /\ e.turn = c.turn
      /\ w.what = "answer" /\ w.src = c.src /\ w.kind = c.kind /\ w.turn = c.turn
      /\ c.src # Radio
  <2>1. c.src \in Source
    BY DEF Command
  <2>2. c.src # Radio
    BY <2>1, SourceFacts DEF Source
  <2>3. e.what = "echo" /\ e.src = c.src /\ e.kind = c.kind /\ e.turn = c.turn
    BY <1>1 DEF FrameFor
  <2>4. w.what = "answer" /\ w.src = c.src /\ w.kind = c.kind /\ w.turn = c.turn
    BY <1>2 DEF FrameFor
  <2> QED BY <2>2, <2>3, <2>4
<1>4. CASE Echo
  <2>1. RadioFrames(c) = <<e>> \o <<w>>
    <3>1. RadioFrames(c) = (IF Echo THEN <<e>> ELSE <<>>) \o <<w>>
      BY <1>1, <1>2, Zenon DEF RadioFrames
    <3>2. (IF Echo THEN <<e>> ELSE <<>>) = <<e>>
      BY <1>4, Zenon
    <3> QED BY <3>1, <3>2, Zenon
  <2>2. /\ <<e>> \in Seq(Frame) /\ Len(<<e>>) = 1 /\ <<e>>[1] = e
        /\ <<w>> \in Seq(Frame) /\ Len(<<w>>) = 1 /\ <<w>>[1] = w
    OBVIOUS
  <2>3. PICK p, q : p = <<e>> /\ q = <<w>>
    OBVIOUS
  <2>4. PICK h : h = p \o q
    OBVIOUS
  <2>5. /\ p \in Seq(Frame) /\ Len(p) = 1 /\ p[1] = e
        /\ q \in Seq(Frame) /\ Len(q) = 1 /\ q[1] = w
    BY <2>2, <2>3, Zenon
  <2>6. h \in Seq(Frame) /\ Len(h) = 2 /\ h[1] = e /\ h[2] = w
    <3>1. /\ h \in Seq(Frame) /\ Len(h) = Len(p) + Len(q)
          /\ \A i \in 1..(Len(p) + Len(q)) : h[i] = IF i <= Len(p) THEN p[i] ELSE q[i - Len(p)]
      BY <2>4, <2>5, ConcatProperties
    <3> QED BY <2>5, <3>1
  <2>7. Frames(h)
    BY <1>3, <2>6 DEF Frames
  <2>8. RadioFrames(c) = h
    BY <2>1, <2>3, <2>4
  <2>9. Len(h) \in 1..2 /\ \A j \in 1..Len(h) : j = 1 \/ j = 2
    BY <2>6
  <2> QED BY <1>3, <2>6, <2>7, <2>8, <2>9
<1>5. CASE ~Echo
  <2>1. RadioFrames(c) = <<w>>
    BY <1>2, <1>5 DEF RadioFrames
  <2>2. <<w>> \in Seq(Frame) /\ Len(<<w>>) = 1
    OBVIOUS
  <2>3. Frames(<<w>>)
    BY <1>3 DEF Frames
  <2> QED BY <1>3, <2>1, <2>2, <2>3
<1> QED BY <1>4, <1>5

\* The radio or the line changes, the channel does not.
LEMMA StillInv ==
  ASSUME Inv, UNCHANGED <<prods, fdOf, sock, begun, cn, online, stray, leaked, missed>>,
         line' \in Seq(Command), fromR' \in Seq(Frame), Frames(fromR'), online \/ fromR' = <<>>,
         count' \in [{"lost", "late", "trx", "off"} -> Nat], count'["late"] = count["late"],
         NEW v, v = cn,
         InTime /\ InvInTime =>
           /\ Tracked(v, line', fromR') /\ Parts(v, fromR', begun)
           /\ Buffered(v, fromR', begun, count'["trx"]) /\ count'["trx"] <= MaxTrx
  PROVE  Inv'
<1>1. Always
  BY DEF Inv
<1>2. Types'
  BY <1>1, Zenon DEF Always, Types
<1>3. Connected' = Connected
  BY DEF Connected
<1>4. Connectors'
  BY <1>1, <1>3, Zenon DEF Always, Connectors
<1>5. Modes'
  BY <1>1, Zenon DEF Always, Modes
<1>6. Always'
  BY <1>2, <1>4, <1>5, Zenon DEF Always, Frames
<1>7. ASSUME InTime'
      PROVE  InvInTime'
  <2>1. InTime /\ InvInTime
    BY <1>7 DEF InTime, Inv
  <2>2. Core(v, line, fromR) /\ Routes(v, fromR, begun, count["trx"])
    BY <2>1 DEF InvInTime
  <2>3. Waiting(v, line', fromR') /\ Bound(v)
    BY <2>1, <2>2, Zenon DEF Core, Waiting
  <2>4. Routes(v, fromR', begun', count'["trx"])
    <3>1. begun' = begun
      OBVIOUS
    <3>2. Routes(v, fromR', begun, count'["trx"])
      BY <2>1, <2>2, Zenon DEF Routes
    <3> QED BY <3>1, <3>2, Zenon
  <2>5. CatnOf(cn', v)
    BY Zenon DEF CatnOf, SameTurns, SamePend
  <2>6. prods' = prods /\ fdOf' = fdOf /\ online' = online /\ sock' = sock
    OBVIOUS
  <2>7. Waiting(cn, line, fromR)' /\ Routes(cn, fromR, begun, count["trx"])' /\ Bound(cn)'
    BY <2>3, <2>4, <2>5, <2>6, EndWaiting, EndRoutes, EndBound, Zenon
  <2>8. stray' = {} /\ ~leaked' /\ ~missed'
    BY <2>1, Zenon DEF InvInTime
  <2> QED BY <2>1, <2>7, <2>8, Zenon DEF InvInTime, Core
<1> QED BY <1>6, <1>7, Zenon DEF Inv

\* The first command leaves the line.
LEMMA SentTail ==
  ASSUME NEW ln \in Seq(Command), ln # <<>>
  PROVE  /\ Tail(ln) \in Seq(Command)
         /\ \A j \in Sent(Tail(ln)) : j \in Nat /\ j + 1 \in Sent(ln) /\ Tail(ln)[j] = ln[j + 1]
<1>1. /\ Tail(ln) \in Seq(Command) /\ Len(Tail(ln)) = Len(ln) - 1 /\ Len(ln) \in Nat \ {0}
      /\ \A k \in 1..Len(Tail(ln)) : Tail(ln)[k] = ln[k + 1]
  BY TailMoves
<1>2. PICK q : q = Tail(ln)
  OBVIOUS
<1>3. ASSUME NEW j \in Sent(q)
      PROVE  j \in Nat /\ j + 1 \in Sent(ln) /\ q[j] = ln[j + 1]
  <2>1. j \in 1..Len(q) /\ (online \/ q[j].turn)
    BY DEF Sent
  <2>2. j + 1 \in 1..Len(ln) /\ j \in Nat
    BY <1>1, <1>2, <2>1
  <2>3. q[j] = ln[j + 1]
    BY <1>1, <1>2, <2>1
  <2> QED BY <2>1, <2>2, <2>3 DEF Sent
<1> QED BY <1>1, <1>2, <1>3, Zenon

LEMMA LostTracked ==
  ASSUME NEW s, NEW ln \in Seq(Command), NEW fr, ln # <<>>, Tracked(s, ln, fr)
  PROVE  Tracked(s, Tail(ln), fr)
<1>1. PICK q : q = Tail(ln)
  OBVIOUS
<1>2. PICK er, el : Tracks(s, ln, fr, er, el)
  BY Zenon DEF Tracked
<1>3. \A j \in Sent(q) : j \in Nat /\ j + 1 \in Sent(ln) /\ q[j] = ln[j + 1]
  BY <1>1, SentTail, Zenon
<1> DEFINE fl == [j \in Sent(q) |-> el[j + 1]]
<1>4. \A j \in Sent(q) : fl[j] = el[j + 1]
  OBVIOUS
<1>5. fl \in [Sent(q) -> 1..Len(s.pend)]
  BY <1>2, <1>3 DEF Tracks
<1> HIDE DEF fl
<1>6. Increasing(Sent(q), fl)
  <2> SUFFICES ASSUME NEW i \in Sent(q), NEW j \in Sent(q), i < j
               PROVE  fl[i] < fl[j]
    BY DEF Increasing
  <2>1. i + 1 < j + 1
    BY <1>3
  <2> QED BY <1>2, <1>3, <1>4, <2>1, Zenon DEF Tracks, Increasing
<1>7. Before(Answers(fr), er, Sent(q), fl)
  BY <1>2, <1>3, <1>4, Zenon DEF Tracks, Before
<1>8. SentMatch(s, q, fl)
  BY <1>2, <1>3, <1>4, Zenon DEF Tracks, SentMatch
<1>9. Tracks(s, q, fr, er, fl)
  BY <1>2, <1>5, <1>6, <1>7, <1>8, Zenon DEF Tracks
<1> QED BY <1>1, <1>9, Zenon DEF Tracked

LEMMA RadioLoseStep ==
  ASSUME Inv, RadioLose
  PROVE  Inv'
<1>1. /\ line # <<>> /\ line' = Tail(line)
      /\ count' = [count EXCEPT !["lost"] = @ + 1]
      /\ UNCHANGED <<prods, fdOf, sock, fromR, begun, cn, online, stray, leaked, missed>>
  BY DEF RadioLose
<1>2. Always /\ Types
  BY DEF Inv, Always
<1>3. line \in Seq(Command) /\ fromR \in Seq(Frame) /\ Frames(fromR) /\ (online \/ fromR = <<>>)
      /\ count \in [{"lost", "late", "trx", "off"} -> Nat]
  BY <1>2 DEF Always, Types, Modes
<1>4. line' \in Seq(Command)
  BY <1>1, <1>3, SentTail
<1>5. /\ fromR' \in Seq(Frame) /\ (online \/ fromR' = <<>>)
      /\ count' \in [{"lost", "late", "trx", "off"} -> Nat]
      /\ count'["late"] = count["late"] /\ count'["trx"] = count["trx"]
  BY <1>1, <1>3
<1>6. PICK v : v = cn
  OBVIOUS
<1>7. fromR' = fromR /\ Frames(fromR')
  BY <1>1, <1>3, Zenon
<1>8. ASSUME InTime, InvInTime
      PROVE  /\ Tracked(v, line', fromR') /\ Parts(v, fromR', begun)
             /\ Buffered(v, fromR', begun, count'["trx"]) /\ count'["trx"] <= MaxTrx
  <2>1. Tracked(v, line, fromR) /\ Parts(v, fromR, begun)
        /\ Buffered(v, fromR, begun, count["trx"]) /\ count["trx"] <= MaxTrx
    BY <1>6, <1>8, Zenon DEF InvInTime, Core, Waiting, Routes
  <2>2. Tracked(v, Tail(line), fromR)
    BY <1>1, <1>3, <2>1, LostTracked
  <2> QED BY <1>1, <1>5, <1>7, <2>1, <2>2, Zenon
<1> QED BY <1>1, <1>4, <1>5, <1>6, <1>7, <1>8, StillInv

\* The first command of the line is answered.
LEMMA AnsweredTracked ==
  ASSUME NEW s, NEW ln \in Seq(Command), NEW fr \in Seq(Frame), ln # <<>>, online,
         NEW c, c = ln[1], Tracked(s, ln, fr)
  PROVE  Tracked(s, Tail(ln), fr \o RadioFrames(c))
<1>1. PICK q : q = Tail(ln)
  OBVIOUS
<1>2. PICK er, el : Tracks(s, ln, fr, er, el)
  BY Zenon DEF Tracked
<1>3. /\ \A j \in Sent(q) : j \in Nat /\ j + 1 \in Sent(ln) /\ q[j] = ln[j + 1]
      /\ \A j \in Sent(q) : 1 < j + 1
  <2>1. \A j \in Sent(q) : j \in Nat /\ j + 1 \in Sent(ln) /\ q[j] = ln[j + 1]
    BY <1>1, SentTail, Zenon
  <2>2. \A j \in Sent(q) : j \in 1..Len(q)
    BY DEF Sent
  <2> QED BY <2>1, <2>2
<1>4. 1 \in Sent(ln) /\ c \in Command
  <2>1. Len(ln) \in Nat \ {0}
    BY TailMoves
  <2> QED BY <2>1 DEF Sent
<1>5. PICK g : g = RadioFrames(c)
  OBVIOUS
<1>6. /\ g \in Seq(Frame) /\ Len(g) \in 1..2
      /\ \A j \in 1..Len(g) :
           /\ g[j].src = c.src /\ g[j].kind = c.kind /\ g[j].turn = c.turn
           /\ g[j].what = (IF j = Len(g) THEN "answer" ELSE "echo")
  BY <1>4, <1>5, RadioFramesFacts, ZenonT(40)
<1>7. PICK h : h = fr \o g
  OBVIOUS
<1>8. PICK L, M : L = Len(fr) /\ M = Len(g)
  OBVIOUS
<1>9. /\ L \in Nat /\ M \in 1..2 /\ Len(h) = L + M
      /\ \A j \in 1..L : h[j] = fr[j]
      /\ \A j \in (L + 1)..(L + M) : h[j] = g[j - L]
  <2>1. /\ Len(h) = L + M
        /\ \A j \in 1..(L + M) : h[j] = IF j <= L THEN fr[j] ELSE g[j - L]
    BY <1>6, <1>7, <1>8, ConcatProperties
  <2>2. L \in Nat /\ M \in 1..2
    BY <1>6, <1>8
  <2> QED BY <2>1, <2>2
<1>10. PICK N : N = L + M
  OBVIOUS
<1>11. /\ N \in Nat /\ N > L /\ N \in 1..Len(h)
       /\ h[N].what = "answer" /\ h[N].src = c.src /\ h[N].kind = c.kind /\ h[N].turn = c.turn
       /\ \A j \in 1..Len(h) : j \in 1..L \/ j = N \/ h[j].what = "echo"
  <2>1. N \in Nat /\ N > L /\ N \in (L + 1)..(L + M) /\ N - L = M /\ N \in 1..Len(h) /\ M \in 1..M
    BY <1>9, <1>10
  <2>2. h[N] = g[M]
    BY <1>9, <2>1
  <2>3. ASSUME NEW j \in 1..Len(h)
        PROVE  j \in 1..L \/ j = N \/ h[j].what = "echo"
    <3>1. CASE j > L /\ j # N
      <4>1. j \in (L + 1)..(L + M) /\ j - L \in 1..M /\ j - L # M
        BY <1>9, <1>10, <3>1
      <4>2. h[j] = g[j - L]
        BY <1>9, <4>1, Zenon
      <4>3. PICK i : i = j - L
        OBVIOUS
      <4>4. i \in 1..Len(g) /\ i # Len(g)
        BY <1>8, <4>1, <4>3
      <4>5. g[i].what = "echo"
        BY <1>6, <4>4, Zenon
      <4> QED BY <4>2, <4>3, <4>5, Zenon
    <3> QED BY <1>9, <1>10, <3>1
  <2>4. g[M].what = "answer" /\ g[M].src = c.src /\ g[M].kind = c.kind /\ g[M].turn = c.turn
    BY <1>6, <1>8, <2>1
  <2> QED BY <2>1, <2>2, <2>3, <2>4, Zenon
<1>12. \A j \in Answers(h) : j = N \/ (j \in Answers(fr) /\ j \in 1..L /\ j < N /\ h[j] = fr[j])
  BY <1>8, <1>9, <1>11 DEF Answers
<1>13. \A j \in Answers(fr) : j \in 1..L
  BY <1>8 DEF Answers
<1> DEFINE ar == [j \in Answers(h) |-> IF j = N THEN el[1] ELSE er[j]]
           fl == [j \in Sent(q) |-> el[j + 1]]
<1>14. /\ \A j \in Answers(h) : ar[j] = IF j = N THEN el[1] ELSE er[j]
       /\ \A j \in Sent(q) : fl[j] = el[j + 1]
  OBVIOUS
<1>15. /\ ar \in [Answers(h) -> 1..Len(s.pend)]
       /\ fl \in [Sent(q) -> 1..Len(s.pend)]
  BY <1>2, <1>3, <1>4, <1>12 DEF Tracks
<1> HIDE DEF ar, fl
<1>16. Increasing(Answers(h), ar)
  <2> SUFFICES ASSUME NEW i \in Answers(h), NEW j \in Answers(h), i < j
               PROVE  ar[i] < ar[j]
    BY DEF Increasing
  <2>1. i # N
    BY <1>9, <1>11, <1>12
  <2>2. i \in Answers(fr) /\ ar[i] = er[i]
    BY <1>12, <1>14, <2>1
  <2>3. CASE j = N
    BY <1>2, <1>4, <1>14, <2>2, <2>3, Zenon DEF Tracks, Before
  <2>4. CASE j # N
    BY <1>2, <1>12, <1>14, <2>2, <2>4, Zenon DEF Tracks, Increasing
  <2> QED BY <2>3, <2>4
<1>17. Increasing(Sent(q), fl)
  <2> SUFFICES ASSUME NEW i \in Sent(q), NEW j \in Sent(q), i < j
               PROVE  fl[i] < fl[j]
    BY DEF Increasing
  <2>1. i + 1 < j + 1
    BY <1>3
  <2> QED BY <1>2, <1>3, <1>14, <2>1, Zenon DEF Tracks, Increasing
<1>18. Before(Answers(h), ar, Sent(q), fl)
  <2> SUFFICES ASSUME NEW i \in Answers(h), NEW j \in Sent(q)
               PROVE  ar[i] < fl[j]
    BY DEF Before
  <2>1. CASE i = N
    BY <1>2, <1>3, <1>4, <1>14, <2>1, Zenon DEF Tracks, Increasing
  <2>2. CASE i # N
    BY <1>2, <1>3, <1>12, <1>14, <2>2, Zenon DEF Tracks, Before
  <2> QED BY <2>1, <2>2
<1>19. AnswersMatch(s, h, ar)
  <2> SUFFICES ASSUME NEW j \in Answers(h)
               PROVE  /\ Awaited(s, h[j], ar[j])
                      /\ j > 1 /\ h[j - 1].what = "echo" => ~s.pend[ar[j]].echoed
    BY Zenon DEF AnswersMatch
  <2>1. CASE j = N
    <3>1. Awaited(s, c, el[1]) /\ ~s.pend[el[1]].echoed
      BY <1>2, <1>4, Zenon DEF Tracks, SentMatch
    <3>2. Awaited(s, h[N], el[1])
      BY <1>11, <3>1, Zenon DEF Awaited
    <3> QED BY <1>14, <2>1, <3>1, <3>2, Zenon
  <2>2. CASE j # N
    <3>1. j \in Answers(fr) /\ j \in 1..L /\ h[j] = fr[j] /\ ar[j] = er[j]
      BY <1>12, <1>14, <2>2
    <3>2. j > 1 => h[j - 1] = fr[j - 1]
      BY <1>9, <3>1
    <3>3. Awaited(s, fr[j], er[j]) /\ (j > 1 /\ fr[j - 1].what = "echo" => ~s.pend[er[j]].echoed)
      BY <1>2, <3>1, Zenon DEF Tracks, AnswersMatch
    <3> QED BY <3>1, <3>2, <3>3, Zenon
  <2> QED BY <2>1, <2>2
<1>20. SentMatch(s, q, fl)
  BY <1>2, <1>3, <1>14, Zenon DEF Tracks, SentMatch
<1>21. Tracks(s, q, h, ar, fl)
  BY <1>15, <1>16, <1>17, <1>18, <1>19, <1>20, Zenon DEF Tracks
<1> QED BY <1>1, <1>5, <1>7, <1>21, Zenon DEF Tracked

\* Frames that come do not concern the parts of the one before.
LEMMA ConcatParts ==
  ASSUME NEW s, NEW fr \in Seq(Frame), NEW g \in Seq(Frame), NEW bg, Parts(s, fr, bg)
  PROVE  Parts(s, fr \o g, bg)
<1>1. bg => fr # <<>> /\ fr[1].what # "noise" /\ s.half
  BY DEF Parts
<1>2. PICK h : h = fr \o g
  OBVIOUS
<1>3. fr # <<>> => h[1] = fr[1] /\ h # <<>>
  <2> HAVE fr # <<>>
  <2>1. Len(fr) \in Nat \ {0} /\ Len(g) \in Nat
    BY TailMoves
  <2>2. /\ Len(h) = Len(fr) + Len(g)
        /\ \A i \in 1..(Len(fr) + Len(g)) : h[i] = IF i <= Len(fr) THEN fr[i] ELSE g[i - Len(fr)]
    BY <1>2, ConcatProperties
  <2> QED BY <2>1, <2>2
<1> QED BY <1>1, <1>2, <1>3, Zenon DEF Parts

LEMMA RadioAnswerStep ==
  ASSUME Inv, RadioAnswer
  PROVE  Inv'
<1>1. PICK c : c = line[1]
  OBVIOUS
<1>2. PICK g : g = RadioFrames(c)
  OBVIOUS
<1>3. /\ online /\ line # <<>> /\ line' = Tail(line)
      /\ UNCHANGED <<prods, fdOf, sock, begun, cn, online, count, stray, leaked, missed>>
  BY DEF RadioAnswer
<1>4. Always /\ Types
  BY DEF Inv, Always
<1>5. line \in Seq(Command) /\ fromR \in Seq(Frame) /\ Frames(fromR)
      /\ count \in [{"lost", "late", "trx", "off"} -> Nat]
  BY <1>4 DEF Always, Types
<1>6. c \in Command
  <2>1. Len(line) \in Nat \ {0}
    BY <1>3, <1>5, TailMoves
  <2> QED BY <1>1, <1>5, <2>1
<1>7. g \in Seq(Frame) /\ Frames(g) /\ Len(g) \in 1..2
      /\ \A j \in 1..Len(g) : g[j].what \in {"echo", "answer"}
  BY <1>2, <1>6, RadioFramesFacts
<1>8. fromR' = fromR \o g
  <2>1. Head(line) = c
    BY <1>1
  <2>2. PICK e, w : e = (IF Echo THEN <<FrameFor(c, "echo")>> ELSE <<>>) /\ w = <<FrameFor(c, "answer")>>
    OBVIOUS
  <2>3. fromR' = (fromR \o e) \o w
    BY <2>1, <2>2 DEF RadioAnswer, FrameFor
  <2>4. g = e \o w
    BY <1>2, <2>2, Zenon DEF RadioFrames
  <2>5. FrameFor(c, "echo") \in Frame /\ FrameFor(c, "answer") \in Frame
    BY <1>6 DEF FrameFor, Frame, Command
  <2>6. e \in Seq(Frame) /\ w \in Seq(Frame)
    <3>1. \A y \in Frame : <<y>> \in Seq(Frame)
      OBVIOUS
    <3>2. <<>> \in Seq(Frame)
      OBVIOUS
    <3>3. w \in Seq(Frame)
      BY <2>2, <2>5, <3>1, Zenon
    <3>4. CASE Echo
      <4>1. e = <<FrameFor(c, "echo")>>
        BY <2>2, <3>4
      <4> QED BY <2>5, <3>1, <3>3, <4>1, Zenon
    <3>5. CASE ~Echo
      <4>1. e = <<>>
        BY <2>2, <3>5
      <4> QED BY <3>2, <3>3, <4>1, Zenon
    <3> QED BY <3>3, <3>4, <3>5, Zenon
  <2>7. (fromR \o e) \o w = fromR \o (e \o w)
    <3>1. \A p, q, r \in Seq(Frame) : (p \o q) \o r = p \o (q \o r)
      BY ConcatAssociative
    <3>2. fromR \in Seq(Frame)
      BY <1>5
    <3> QED BY <2>6, <3>1, <3>2, Zenon
  <2> QED BY <2>3, <2>4, <2>7, Zenon
<1>9. line' \in Seq(Command)
  BY <1>3, <1>5, SentTail
<1>10. fromR' \in Seq(Frame) /\ Frames(fromR')
  <2>1. fromR \o g \in Seq(Frame) /\ Frames(fromR \o g)
    BY <1>5, <1>7, FramesConcat
  <2> QED BY <1>8, <2>1, Zenon
<1>11. PICK v : v = cn
  OBVIOUS
<1>12. ASSUME InTime, InvInTime
       PROVE  /\ Tracked(v, line', fromR') /\ Parts(v, fromR', begun)
              /\ Buffered(v, fromR', begun, count'["trx"]) /\ count'["trx"] <= MaxTrx
  <2>1. Tracked(v, line, fromR) /\ Parts(v, fromR, begun)
        /\ Buffered(v, fromR, begun, count["trx"]) /\ count["trx"] <= MaxTrx
    BY <1>11, <1>12, Zenon DEF InvInTime, Core, Waiting, Routes
  <2>2. Tracked(v, Tail(line), fromR \o g)
    BY <1>1, <1>2, <1>3, <1>5, <2>1, AnsweredTracked
  <2>3. Parts(v, fromR \o g, begun)
    BY <1>5, <1>7, <2>1, ConcatParts
  <2>4. Noise(fromR \o g) = Noise(fromR)
    <3>1. PICK h : h = fromR \o g
      OBVIOUS
    <3>2. /\ Len(h) = Len(fromR) + Len(g) /\ Len(fromR) \in Nat /\ Len(g) \in Nat
          /\ \A i \in 1..(Len(fromR) + Len(g)) :
               h[i] = IF i <= Len(fromR) THEN fromR[i] ELSE g[i - Len(fromR)]
      BY <1>5, <1>7, <3>1, ConcatProperties
    <3>3. ASSUME NEW i \in 1..Len(h), i > Len(fromR)
          PROVE  h[i].what # "noise"
      <4>1. i - Len(fromR) \in 1..Len(g) /\ h[i] = g[i - Len(fromR)]
        BY <3>2, <3>3
      <4> QED BY <1>7, <4>1
    <3>4. \A i \in 1..Len(fromR) : i \in 1..Len(h) /\ h[i] = fromR[i]
      BY <3>2
    <3>5. \A i \in 1..Len(h) : i > Len(fromR) \/ i \in 1..Len(fromR)
      BY <3>2
    <3> QED BY <3>1, <3>3, <3>4, <3>5 DEF Noise
  <2>5. Buffered(v, fromR \o g, begun, count["trx"])
    BY <2>1, <2>4, Zenon DEF Buffered, Counts
  <2>6. count' = count /\ line' = Tail(line)
    BY <1>3
  <2> QED BY <1>8, <2>1, <2>2, <2>3, <2>5, <2>6, Zenon
<1>13. /\ count' \in [{"lost", "late", "trx", "off"} -> Nat] /\ count'["late"] = count["late"]
       /\ online
  BY <1>3, <1>5
<1> QED BY <1>3, <1>9, <1>10, <1>11, <1>12, <1>13, StillInv

\* Something of the radio's own comes.
LEMMA SendsTracked ==
  ASSUME NEW s, NEW ln, NEW fr \in Seq(Frame), NEW x \in Frame, x.what \in {"trx", "noise"},
         NEW bg, NEW m \in Nat, Tracked(s, ln, fr), Parts(s, fr, bg), Buffered(s, fr, bg, m)
  PROVE  /\ Tracked(s, ln, Append(fr, x)) /\ Parts(s, Append(fr, x), bg)
         /\ Buffered(s, Append(fr, x), bg, m + 1)
<1>1. PICK h : h = Append(fr, x)
  OBVIOUS
<1>2. PICK L : L = Len(fr)
  OBVIOUS
<1>3. /\ h \in Seq(Frame) /\ L \in Nat /\ Len(h) = L + 1 /\ h[L + 1] = x
      /\ \A j \in 1..L : h[j] = fr[j]
  BY <1>1, <1>2, AppendProperties
<1>4. /\ \A j \in 1..Len(h) : (j = L + 1 /\ h[j] = x) \/ (j \in 1..L /\ h[j] = fr[j])
      /\ \A j \in 1..L : j \in 1..Len(h) /\ h[j] = fr[j] /\ j < L + 1 /\ j # L + 1
  BY <1>3
<1>5. Tracked(s, ln, h)
  <2>1. PICK er, el : Tracks(s, ln, fr, er, el)
    BY Zenon DEF Tracked
  <2>2. Answers(h) = Answers(fr) /\ \A j \in Answers(fr) : h[j] = fr[j] /\ j \in 1..L
    BY <1>2, <1>4 DEF Answers
  <2>3. \A j \in Answers(fr) : j > 1 => h[j - 1] = fr[j - 1]
    BY <1>3, <2>2
  <2>4. AnswersMatch(s, h, er)
    BY <2>1, <2>2, <2>3, Zenon DEF Tracks, AnswersMatch
  <2>5. Tracks(s, ln, h, er, el)
    BY <2>1, <2>2, <2>4, Zenon DEF Tracks
  <2> QED BY <2>5, Zenon DEF Tracked
<1>6. Parts(s, h, bg)
  <2>1. fr # <<>> => h[1] = fr[1] /\ h # <<>>
    <3> HAVE fr # <<>>
    <3>1. Len(fr) \in Nat \ {0}
      BY TailMoves
    <3> QED BY <1>2, <1>3, <3>1
  <2>2. bg => fr # <<>> /\ fr[1].what # "noise" /\ s.half
    BY DEF Parts
  <2> QED BY <2>1, <2>2, Zenon DEF Parts
<1>7. Buffered(s, h, bg, m + 1)
  <2>1. PICK n, nr : Counts(s, fr, bg, m, n, nr)
    BY Zenon DEF Buffered
  <2>2. n \in Nat /\ n <= m /\ Len(s.buf) <= n + (IF bg THEN 1 ELSE 0)
        /\ nr \in [Noise(fr) -> (n + 1)..m]
        /\ \A i, j \in Noise(fr) : i < j => nr[i] < nr[j]
    BY <2>1 DEF Counts
  <2>3. \A j \in Noise(h) : j = L + 1 \/ (j \in Noise(fr) /\ j < L + 1)
    BY <1>2, <1>4 DEF Noise
  <2>4. \A j \in Noise(fr) : j < L + 1 /\ j # L + 1
    BY <1>2, <1>4 DEF Noise
  <2> DEFINE mr == [j \in Noise(h) |-> IF j = L + 1 THEN m + 1 ELSE nr[j]]
  <2>5. \A j \in Noise(h) : mr[j] = IF j = L + 1 THEN m + 1 ELSE nr[j]
    OBVIOUS
  <2>6. mr \in [Noise(h) -> (n + 1)..(m + 1)]
    <3>1. \A j \in Noise(h) : (IF j = L + 1 THEN m + 1 ELSE nr[j]) \in (n + 1)..(m + 1)
      BY <2>2, <2>3
    <3> QED BY <3>1
  <2> HIDE DEF mr
  <2>7. \A i, j \in Noise(h) : i < j => mr[i] < mr[j]
    <3> SUFFICES ASSUME NEW i \in Noise(h), NEW j \in Noise(h), i < j
                 PROVE  mr[i] < mr[j]
      OBVIOUS
    <3>1. j \in Nat /\ i \in Nat /\ (j = L + 1 \/ j < L + 1)
      BY <1>3, <2>3 DEF Noise
    <3>2. i # L + 1 /\ i \in Noise(fr)
      BY <1>3, <2>3, <3>1
    <3>3. CASE j = L + 1
      <4>1. nr[i] \in (n + 1)..m
        BY <2>2, <3>2
      <4> QED BY <2>2, <2>5, <3>2, <3>3, <4>1
    <3>4. CASE j # L + 1
      BY <2>2, <2>3, <2>5, <3>2, <3>4
    <3> QED BY <3>3, <3>4
  <2>8. n <= m + 1
    BY <2>2
  <2>9. Counts(s, h, bg, m + 1, n, mr)
    BY <2>2, <2>6, <2>7, <2>8, Zenon DEF Counts
  <2> QED BY <2>9, Zenon DEF Buffered
<1> QED BY <1>1, <1>5, <1>6, <1>7, Zenon

LEMMA RadioSendsStep ==
  ASSUME Inv, NEW what \in {"trx", "noise"}, RadioSends(what)
  PROVE  Inv'
<1>1. PICK x : x = [what |-> what, src |-> Radio, kind |-> OwnKind, turn |-> FALSE]
  OBVIOUS
<1>2. /\ online /\ count["trx"] < MaxTrx /\ count' = [count EXCEPT !["trx"] = @ + 1]
      /\ fromR' = Append(fromR, x)
      /\ UNCHANGED <<prods, fdOf, sock, line, begun, cn, online, stray, leaked, missed>>
  BY <1>1 DEF RadioSends
<1>3. Always /\ Types
  BY DEF Inv, Always
<1>4. line \in Seq(Command) /\ fromR \in Seq(Frame) /\ Frames(fromR)
      /\ count \in [{"lost", "late", "trx", "off"} -> Nat]
  BY <1>3 DEF Always, Types
<1>5. x \in Frame /\ x.what = what /\ x.src = Radio
  BY <1>1 DEF Frame
<1>6. fromR' \in Seq(Frame) /\ Frames(fromR')
  <2>1. Append(fromR, x) = fromR \o <<x>>
    BY <1>4, <1>5, AppendIsConcat
  <2>2. <<x>> \in Seq(Frame)
    BY <1>5
  <2>3. Frames(<<x>>)
    BY <1>5 DEF Frames
  <2>4. fromR \o <<x>> \in Seq(Frame) /\ Frames(fromR \o <<x>>)
    BY <1>4, <2>2, <2>3, FramesConcat
  <2> QED BY <1>2, <2>1, <2>4, Zenon
<1>7. /\ count' \in [{"lost", "late", "trx", "off"} -> Nat] /\ count'["late"] = count["late"]
      /\ count'["trx"] = count["trx"] + 1 /\ count'["trx"] <= MaxTrx /\ count["trx"] \in Nat
  <2>1. count["trx"] \in Nat /\ MaxTrx \in Nat
    BY <1>4, CatAssumption
  <2> QED BY <1>2, <1>4, <2>1
<1>8. PICK v : v = cn
  OBVIOUS
<1>9. ASSUME InTime, InvInTime
      PROVE  /\ Tracked(v, line', fromR') /\ Parts(v, fromR', begun)
             /\ Buffered(v, fromR', begun, count'["trx"]) /\ count'["trx"] <= MaxTrx
  <2>1. Tracked(v, line, fromR) /\ Parts(v, fromR, begun)
        /\ Buffered(v, fromR, begun, count["trx"])
    BY <1>8, <1>9, Zenon DEF InvInTime, Core, Waiting, Routes
  <2>2. PICK m \in Nat : m = count["trx"]
    BY <1>7
  <2>3. /\ Tracked(v, line, Append(fromR, x)) /\ Parts(v, Append(fromR, x), begun)
        /\ Buffered(v, Append(fromR, x), begun, m + 1)
    BY <1>4, <1>5, <2>1, <2>2, SendsTracked
  <2> QED BY <1>2, <1>7, <2>2, <2>3, Zenon
<1>10. line' \in Seq(Command) /\ online
  BY <1>2, <1>4
<1> QED BY <1>2, <1>6, <1>7, <1>8, <1>9, <1>10, StillInv
-----------------------------------------------------------------------------
(* Connectors come and go. *)

LEMMA AppSendStep ==
  ASSUME Inv, NEW a \in App, NEW k \in Kind, AppSend(a, k)
  PROVE  Inv'
<1>1. /\ a \in Connected /\ sock[a] = <<>>
      /\ Cardinality({j \in 1..Len(cn.pend) : cn.pend[j].src = a}) < MaxPipe
      /\ sock' = [sock EXCEPT ![a] = <<k>>]
      /\ UNCHANGED <<prods, fdOf, line, fromR, begun, cn, online, count, stray, leaked, missed>>
  BY DEF AppSend
<1>2. Always /\ Types
  BY DEF Inv, Always
<1>3. PICK q \in Seq(Kind) : q = <<k>> /\ Len(q) = 1
  <2>1. <<k>> \in Seq(Kind) /\ Len(<<k>>) = 1
    OBVIOUS
  <2> QED BY <2>1, Zenon
<1>4. sock' \in [App -> Seq(Kind)] /\ sock'[a] = q /\ \A x \in App : x # a => sock'[x] = sock[x]
  <2>1. sock' = [sock EXCEPT ![a] = q]
    BY <1>1, <1>3
  <2>2. sock \in [App -> Seq(Kind)]
    BY <1>2 DEF Types
  <2> QED BY <2>1, <2>2
<1>5. Types'
  BY <1>1, <1>2, <1>4, Zenon DEF Types
<1>6. Connected' = Connected
  BY <1>1 DEF Connected
<1>7. Connectors'
  <2>1. Connectors
    BY <1>2 DEF Always
  <2>2. ASSUME NEW x \in App
        PROVE  Len(sock'[x]) <= 1 /\ (sock'[x] # <<>> => x \in Connected)
    <3>1. CASE x = a
      BY <1>1, <1>3, <1>4, <3>1
    <3>2. CASE x # a
      <4>1. sock'[x] = sock[x]
        BY <1>4, <3>2
      <4> QED BY <2>1, <4>1, Zenon DEF Connectors
    <3> QED BY <3>1, <3>2
  <2> QED BY <1>1, <1>6, <2>1, <2>2, Zenon DEF Connectors
<1>8. Always'
  BY <1>1, <1>2, <1>5, <1>7, Zenon DEF Always, Modes, Frames
<1>9. ASSUME InTime'
      PROVE  InvInTime'
  <2>1. InvInTime
    BY <1>1, <1>9 DEF InTime, Inv
  <2>2. PICK v : v = cn
    OBVIOUS
  <2>3. Waiting(v, line, fromR) /\ Routes(v, fromR, begun, count["trx"])
    BY <2>1, <2>2, Zenon DEF InvInTime, Core
  <2>4. Waiting(v, line', fromR') /\ Routes(v, fromR', begun', count'["trx"])
    BY <1>1, <2>3, Zenon
  <2>5. CatnOf(cn', v)
    BY <1>1, <2>2, Zenon DEF CatnOf, SameTurns, SamePend
  <2>6. Waiting(cn, line, fromR)' /\ Routes(cn, fromR, begun, count["trx"])'
    BY <1>1, <2>4, <2>5, EndWaiting, EndRoutes, Zenon
  <2>7. Bound(cn)'
    <3>1. Bound(cn)
      BY <2>1 DEF InvInTime, Core
    <3>2. cn' = cn
      BY <1>1
    <3>3. Cardinality(PendOf(cn.pend, a)) < MaxPipe
      BY <1>1 DEF PendOf
    <3> QED BY <1>4, <3>1, <3>2, <3>3, Zenon DEF Bound, PendOf
  <2> QED BY <1>1, <2>1, <2>6, <2>7, Zenon DEF InvInTime, Core
<1> QED BY <1>8, <1>9, Zenon DEF Inv

\* What does not depend on the connectors.
LEMMA ApartFacts ==
  ASSUME InvInTime, UNCHANGED <<line, fromR, begun, cn, online, count, stray, leaked, missed>>
  PROVE  /\ Slots(cn)' /\ Idle(cn)' /\ OwnOnly(cn)' /\ Tracked(cn, line, fromR)'
         /\ Parts(cn, fromR, begun)' /\ Buffered(cn, fromR, begun, count["trx"])'
         /\ (count["trx"] <= MaxTrx /\ stray = {} /\ ~leaked /\ ~missed)'
<1>1. Slots(cn)' /\ Idle(cn)' /\ OwnOnly(cn)'
  BY Zenon DEF InvInTime, Core, Waiting, Slots, Idle, OwnOnly
<1>2. Tracked(cn, line, fromR)'
  <2>1. PICK er, el : Tracks(cn, line, fromR, er, el)
    BY Zenon DEF InvInTime, Core, Waiting, Tracked
  <2>2. \A x, e : Awaited(cn, x, e) <=> Awaited(cn, x, e)'
    BY DEF Awaited
  <2>3. Sent(line)' = Sent(line) /\ Answers(fromR)' = Answers(fromR)
    BY DEF Sent, Answers
  <2>4. AnswersMatch(cn, fromR, er)' /\ SentMatch(cn, line, el)'
    BY <2>1, <2>2, <2>3, Zenon DEF Tracks, AnswersMatch, SentMatch
  <2>5. Tracks(cn, line, fromR, er, el)'
    BY <2>1, <2>3, <2>4, Zenon DEF Tracks, Increasing, Before
  <2> QED BY <2>5, Zenon DEF Tracked
<1>3. Parts(cn, fromR, begun)' /\ Buffered(cn, fromR, begun, count["trx"])'
  BY Zenon DEF InvInTime, Routes, Parts, Owner, Buffered, Counts, Noise
<1>4. (count["trx"] <= MaxTrx /\ stray = {} /\ ~leaked /\ ~missed)'
  BY Zenon DEF InvInTime
<1> QED BY <1>1, <1>2, <1>3, <1>4

LEMMA DisconnectStep ==
  ASSUME Inv, NEW a \in App, Disconnect(a)
  PROVE  Inv'
<1> DEFINE K == {k \in 1..Len(prods) : prods[k] # a}
<1>1. /\ a \in Connected /\ prods' = Keep(prods, K)
      /\ sock' = [sock EXCEPT ![a] = <<>>] /\ fdOf' = [fdOf EXCEPT ![a] = Gone]
      /\ UNCHANGED <<line, fromR, begun, cn, online, count, stray, leaked, missed>>
  BY DEF Disconnect
<1>2. Always /\ Types /\ Connectors /\ prods \in Seq(App)
  BY DEF Inv, Always, Types
<1>3. /\ prods' \in Seq(App) /\ Len(prods') <= Len(prods)
      /\ \E pos : Moves(pos, K, prods, prods')
  BY <1>1, <1>2, KeepFacts
<1>4. PICK pos : Moves(pos, K, prods, prods')
  BY <1>3
<1>5. /\ \A n \in 1..Len(prods') : \E k \in K : pos[k] = n /\ prods'[n] = prods[k]
      /\ \A k \in K : pos[k] \in 1..Len(prods') /\ prods'[pos[k]] = prods[k]
  <2>1. DOMAIN prods' = 1..Len(prods')
    BY <1>3
  <2>2. /\ pos \in [K -> DOMAIN prods'] /\ \A n \in DOMAIN prods' : \E k \in K : pos[k] = n
        /\ \A k \in K : prods'[pos[k]] = prods[k]
    BY <1>4, Zenon DEF Moves
  <2>3. \A k \in K : pos[k] \in DOMAIN prods'
    BY <2>2
  <2> QED BY <2>1, <2>2, <2>3, ZenonT(40)
<1>6. \A k \in 1..Len(prods) : k \in K <=> prods[k] # a
  OBVIOUS
<1>7. K \subseteq 1..Len(prods)
  OBVIOUS
<1> HIDE DEF K
<1>8. Connected' = Connected \ {a}
  BY <1>5, <1>6, <1>7 DEF Connected
<1>9. None \notin Fd /\ Gone \notin Fd /\ Gone # None /\ Gone \in Fd \cup {None, Gone}
  BY CatAssumption DEF None, Gone
<1>10. /\ fdOf' \in [App -> Fd \cup {None, Gone}] /\ fdOf'[a] = Gone
       /\ \A x \in App : x # a => fdOf'[x] = fdOf[x]
  <2>1. fdOf \in [App -> Fd \cup {None, Gone}]
    BY <1>2 DEF Types
  <2> QED BY <1>1, <2>1
<1>11. /\ sock' \in [App -> Seq(Kind)] /\ sock'[a] = <<>>
       /\ \A x \in App : x # a => sock'[x] = sock[x]
  <2>1. sock \in [App -> Seq(Kind)]
    BY <1>2 DEF Types
  <2>2. PICK q \in Seq(Kind) : q = <<>>
    <3>1. <<>> \in Seq(Kind)
      OBVIOUS
    <3> QED BY <3>1, Zenon
  <2>3. sock' = [sock EXCEPT ![a] = q]
    BY <1>1, <2>2
  <2> QED BY <2>1, <2>2, <2>3
<1>12. Types'
  BY <1>1, <1>2, <1>3, <1>10, <1>11, Zenon DEF Types
<1>13. Connectors'
  <2>1. \A k, j \in 1..Len(prods') : prods'[k] = prods'[j] => k = j
    <3> SUFFICES ASSUME NEW k \in 1..Len(prods'), NEW j \in 1..Len(prods'), prods'[k] = prods'[j]
                 PROVE  k = j
      OBVIOUS
    <3>1. PICK x, y \in K : pos[x] = k /\ prods'[k] = prods[x] /\ pos[y] = j /\ prods'[j] = prods[y]
      BY <1>5, Zenon
    <3>2. x \in 1..Len(prods) /\ y \in 1..Len(prods)
      BY <1>7
    <3>3. prods[x] = prods[y]
      BY <3>1, Zenon
    <3>4. \A p, q \in 1..Len(prods) : prods[p] = prods[q] => p = q
      BY <1>2, Zenon DEF Connectors
    <3>5. x = y
      BY <3>2, <3>3, <3>4, Zenon
    <3> QED BY <3>1, <3>5, Zenon
  <2>2. \A x \in App : x \in Connected' <=> fdOf'[x] \in Fd
    BY <1>2, <1>8, <1>9, <1>10 DEF Connectors
  <2>3. Connected \subseteq App
    BY <1>2, ReceiversFacts
  <2>4. \A x, y \in Connected' : fdOf'[x] = fdOf'[y] => x = y
    BY <1>2, <1>8, <1>10, <2>3 DEF Connectors
  <2>5. \A x \in App : Len(sock'[x]) <= 1 /\ (sock'[x] # <<>> => x \in Connected')
    <3> SUFFICES ASSUME NEW x \in App
                 PROVE  Len(sock'[x]) <= 1 /\ (sock'[x] # <<>> => x \in Connected')
      OBVIOUS
    <3>1. CASE x = a
      BY <1>11, <3>1
    <3>2. CASE x # a
      <4>1. Len(sock[x]) <= 1 /\ (sock[x] # <<>> => x \in Connected)
        BY <1>2 DEF Connectors
      <4>2. sock'[x] = sock[x] /\ (x \in Connected => x \in Connected')
        BY <1>8, <1>11, <3>2
      <4> QED BY <4>1, <4>2, Zenon
    <3> QED BY <3>1, <3>2
  <2> QED BY <2>1, <2>2, <2>4, <2>5, Zenon DEF Connectors
<1>14. Always'
  BY <1>1, <1>2, <1>12, <1>13, Zenon DEF Always, Modes, Frames
<1>15. ASSUME InTime'
       PROVE  InvInTime'
  <2>1. InvInTime
    BY <1>1, <1>15 DEF InTime, Inv
  <2>2. Entries(cn) /\ Turns(cn) /\ Bound(cn) /\ Lonely(cn)
    BY <2>1 DEF InvInTime, Core, Waiting, Routes
  <2>3. cn' = cn /\ online' = online
    BY <1>1
  <2>4. Entries(cn)'
    <3>1. ASSUME NEW k \in 1..Len(cn.pend)
          PROVE  EntryOk(cn, k)'
      <4>1. EntryOk(cn, k)
        BY <2>2 DEF Entries
      <4>2. cn.pend[k].src \in App =>
              /\ fdOf'[cn.pend[k].src] # None
              /\ \A x \in Connected' : fdOf'[x] = cn.slots[cn.pend[k].client] <=> x = cn.pend[k].src
        <5> HAVE cn.pend[k].src \in App
        <5>1. fdOf[cn.pend[k].src] # None
          BY <4>1 DEF EntryOk
        <5>2. fdOf'[cn.pend[k].src] # None
          BY <1>9, <1>10, <5>1
        <5>3. \A x \in Connected : fdOf[x] = cn.slots[cn.pend[k].client] <=> x = cn.pend[k].src
          BY <4>1, Zenon DEF EntryOk
        <5>4. \A x \in Connected' : x \in Connected /\ fdOf'[x] = fdOf[x]
          <6>1. Connected \subseteq App
            BY <1>2, ReceiversFacts
          <6> QED BY <1>8, <1>10, <6>1
        <5> QED BY <5>2, <5>3, <5>4, Zenon
      <4> QED BY <2>3, <4>1, <4>2, Zenon DEF EntryOk
    <3> QED BY <2>2, <2>3, <3>1, ZenonT(40) DEF Entries, SameSender
  <2>5. Turns(cn)'
    <3>1. \A x : Connected \subseteq {x} => Connected' \subseteq {x}
      BY <1>8
    <3> QED BY <2>2, <2>3, <3>1, Zenon DEF Turns
  <2>6. Lonely(cn)'
    <3>1. \A x : Connected \subseteq {x} => Connected' \subseteq {x}
      BY <1>8
    <3>2. Len(prods) <= 1 => Len(prods') <= 1
      BY <1>2, <1>3
    <3> QED BY <2>2, <2>3, <3>1, <3>2, Zenon DEF Lonely
  <2>7. Bound(cn)'
    <3>1. \A x \in App : sock'[x] # <<>> => sock[x] # <<>>
      BY <1>11
    <3> QED BY <2>2, <2>3, <3>1, Zenon DEF Bound, PendOf
  <2>8. /\ Slots(cn)' /\ Idle(cn)' /\ OwnOnly(cn)' /\ Tracked(cn, line, fromR)'
        /\ Parts(cn, fromR, begun)' /\ Buffered(cn, fromR, begun, count["trx"])'
        /\ (count["trx"] <= MaxTrx /\ stray = {} /\ ~leaked /\ ~missed)'
    BY <1>1, <2>1, ApartFacts
  <2> QED BY <2>4, <2>5, <2>6, <2>7, <2>8, Zenon DEF InvInTime, Core, Waiting, Routes
<1> QED BY <1>14, <1>15, Zenon DEF Inv

\* There is a free descriptor for every application.
LEMMA FreeFdFacts ==
  ASSUME Connectors, prods \in Seq(App), NEW a \in App, a \notin Connected
  PROVE  FreeFd \in Fd /\ \A b \in Connected : fdOf[b] # FreeFd
<1> DEFINE F == Fd \ {fdOf[b] : b \in Connected}
           g == [x \in Fd |-> CHOOSE b \in Connected : fdOf[b] = x]
<1>1. /\ IsFiniteSet(App) /\ IsFiniteSet(Fd) /\ Cardinality(Fd) >= Cardinality(App)
      /\ F \in SUBSET Nat
  BY CatAssumption
<1>2. Connected \subseteq App
  BY ReceiversFacts
<1>3. F # {}
  <2> SUFFICES ASSUME F = {}
               PROVE  FALSE
    OBVIOUS
  <2>1. \A x \in Fd : \E b \in Connected : fdOf[b] = x
    OBVIOUS
  <2>2. \A x \in Fd : g[x] \in Connected /\ fdOf[g[x]] = x
    BY <2>1
  <2> DEFINE A == App \ {a}
  <2>3. g \in [Fd -> A]
    BY <1>2, <2>2
  <2> HIDE DEF g
  <2>4. /\ IsFiniteSet(A) /\ IsFiniteSet(Fd) /\ Cardinality(A) = Cardinality(App) - 1
        /\ Cardinality(App) \in Nat /\ Cardinality(Fd) \in Nat
    BY <1>1, FS_RemoveElement, FS_CardinalityType
  <2>5. Cardinality(A) < Cardinality(Fd)
    BY <1>1, <2>4
  <2> HIDE DEF A
  <2>6. \E x, y \in Fd : x # y /\ g[x] = g[y]
    BY <2>3, <2>4, <2>5, FS_PigeonHole
  <2> QED BY <2>2, <2>6, Zenon
<1>4. FreeFd = Least(F)
  BY DEF FreeFd
<1>5. Least(F) \in F
  BY <1>1, <1>3, LeastFacts, Zenon
<1> QED BY <1>4, <1>5

LEMMA ConnectStep ==
  ASSUME Room, Inv, NEW a \in App, Connect(a)
  PROVE  Inv'
<1>1. /\ fdOf[a] = None /\ JoinsQuietly
      /\ prods' = Append(prods, a) /\ fdOf' = [fdOf EXCEPT ![a] = FreeFd]
      /\ UNCHANGED <<sock, line, fromR, begun, cn, online, count, stray, leaked, missed>>
  BY DEF Connect, Room
<1>2. Always /\ Types /\ Connectors /\ prods \in Seq(App)
  BY DEF Inv, Always, Types
<1>3. None \notin Fd
  BY CatAssumption DEF None
<1>4. a \notin Connected /\ Connected \subseteq App
  BY <1>1, <1>2, <1>3, ReceiversFacts DEF Connectors
<1>5. FreeFd \in Fd /\ \A b \in Connected : fdOf[b] # FreeFd
  BY <1>2, <1>4, FreeFdFacts
<1>6. /\ prods' \in Seq(App) /\ Len(prods') = Len(prods) + 1 /\ prods'[Len(prods) + 1] = a
      /\ \A k \in 1..Len(prods) : prods'[k] = prods[k]
      /\ Len(prods) \in Nat
  BY <1>1, <1>2, AppendProperties
<1>7. /\ \A k \in 1..Len(prods') : k = Len(prods) + 1 \/ k \in 1..Len(prods)
      /\ \A k \in 1..Len(prods) : k \in 1..Len(prods')
      /\ Len(prods) + 1 \in 1..Len(prods')
  BY <1>6
<1>8. Connected' = Connected \cup {a}
  <2>1. \A k \in 1..Len(prods') : prods'[k] \in Connected \cup {a}
    BY <1>6, <1>7 DEF Connected
  <2>2. \A x \in Connected \cup {a} : \E k \in 1..Len(prods') : x = prods'[k]
    BY <1>6, <1>7 DEF Connected
  <2> QED BY <2>1, <2>2 DEF Connected
<1>9. /\ fdOf' \in [App -> Fd \cup {None, Gone}] /\ fdOf'[a] = FreeFd
      /\ \A x \in App : x # a => fdOf'[x] = fdOf[x]
  <2>1. fdOf \in [App -> Fd \cup {None, Gone}]
    BY <1>2 DEF Types
  <2>2. PICK f : f = FreeFd
    OBVIOUS
  <2>3. fdOf' = [fdOf EXCEPT ![a] = f] /\ f \in Fd
    BY <1>1, <1>5, <2>2
  <2> QED BY <2>1, <2>2, <2>3
<1>10. Types'
  BY <1>1, <1>2, <1>6, <1>9, Zenon DEF Types
<1>11. Connectors'
  <2>1. \A k, j \in 1..Len(prods') : prods'[k] = prods'[j] => k = j
    <3> SUFFICES ASSUME NEW k \in 1..Len(prods'), NEW j \in 1..Len(prods'), prods'[k] = prods'[j]
                 PROVE  k = j
      OBVIOUS
    <3>1. \A n \in 1..Len(prods) : prods'[n] # a
      BY <1>4, <1>6 DEF Connected
    <3>2. CASE k \in 1..Len(prods) /\ j \in 1..Len(prods)
      BY <1>2, <1>6, <3>2 DEF Connectors
    <3> QED BY <1>6, <1>7, <3>1, <3>2, Zenon
  <2>2. \A x \in App : x \in Connected' <=> fdOf'[x] \in Fd
    BY <1>2, <1>5, <1>8, <1>9 DEF Connectors
  <2>3. \A x, y \in Connected' : fdOf'[x] = fdOf'[y] => x = y
    <3>1. \A x \in Connected : x # a /\ fdOf'[x] = fdOf[x]
      BY <1>4, <1>9
    <3>2. \A x, y \in Connected : fdOf[x] = fdOf[y] => x = y
      BY <1>2 DEF Connectors
    <3> QED BY <1>5, <1>8, <1>9, <3>1, <3>2
  <2>4. \A x \in App : Len(sock'[x]) <= 1 /\ (sock'[x] # <<>> => x \in Connected')
    <3> SUFFICES ASSUME NEW x \in App
                 PROVE  Len(sock'[x]) <= 1 /\ (sock'[x] # <<>> => x \in Connected')
      OBVIOUS
    <3>1. sock' = sock
      BY <1>1
    <3>2. Len(sock[x]) <= 1 /\ (sock[x] # <<>> => x \in Connected)
      BY <1>2, Zenon DEF Connectors
    <3>3. x \in Connected => x \in Connected'
      BY <1>8
    <3> QED BY <3>1, <3>2, <3>3, Zenon
  <2> QED BY <2>1, <2>2, <2>3, <2>4, Zenon DEF Connectors
<1>12. Always'
  BY <1>1, <1>2, <1>10, <1>11, Zenon DEF Always, Modes, Frames
<1>13. ASSUME InTime'
       PROVE  InvInTime'
  <2>1. InvInTime
    BY <1>1, <1>13 DEF InTime, Inv
  <2>2. Entries(cn) /\ Turns(cn) /\ Bound(cn) /\ Lonely(cn)
    BY <2>1 DEF InvInTime, Core, Waiting, Routes
  <2>3. cn' = cn /\ online' = online /\ sock' = sock
    BY <1>1
  <2>4. Bound(cn)'
    BY <2>2, <2>3, Zenon DEF Bound, PendOf
  <2>5. Entries(cn)' /\ Turns(cn)' /\ Lonely(cn)'
    <3>1. CASE cn.pend = <<>>
      <4>1. \A k \in 1..Len(cn.pend) : FALSE
        BY <3>1
      <4> QED BY <2>3, <4>1, Zenon DEF Entries, Turns, Lonely
    <3>2. CASE Len(prods) > 1 /\ \A i \in Client : cn.slots[i] = FreeFd => ~client_busy(cn, i)
      <4>1. \A x : ~(Connected \subseteq {x})
        <5>1. 1 \in 1..Len(prods) /\ 2 \in 1..Len(prods)
          BY <1>6, <3>2
        <5>2. prods[1] # prods[2]
          BY <1>2, <5>1 DEF Connectors
        <5> QED BY <5>1, <5>2 DEF Connected
      <4>2. ~(Len(prods) <= 1)
        BY <1>6, <3>2
      <4>3. ASSUME NEW k \in 1..Len(cn.pend), cn.pend[k].src \in App
            PROVE  /\ fdOf'[cn.pend[k].src] # None
                   /\ \A x \in Connected' : fdOf'[x] = cn.slots[cn.pend[k].client] <=> x = cn.pend[k].src
        <5>1. EntryOk(cn, k)
          BY <2>2 DEF Entries
        <5>2. PICK e : e = cn.pend[k]
          OBVIOUS
        <5>3. /\ e.client # 0 /\ fdOf[e.src] # None
              /\ \A x \in Connected : fdOf[x] = cn.slots[e.client] <=> x = e.src
          BY <4>3, <5>1, <5>2, Zenon DEF EntryOk
        <5>4. e.client \in Client
          <6>1. cn.pend \in Seq(Pending)
            BY <1>2 DEF Types, CatnType
          <6>2. e \in Pending
            BY <5>2, <6>1
          <6> QED BY <5>3, <6>2 DEF Pending
        <5>5. client_busy(cn, e.client)
          BY <5>2, <5>3, Zenon DEF client_busy
        <5>6. cn.slots[e.client] # FreeFd
          BY <3>2, <5>4, <5>5, Zenon
        <5>7. e.src # a /\ e.src \in App
          BY <1>1, <4>3, <5>2, <5>3
        <5>8. fdOf'[e.src] = fdOf[e.src]
          BY <1>9, <5>7
        <5>9. \A x \in Connected' : fdOf'[x] = cn.slots[e.client] <=> x = e.src
          <6> SUFFICES ASSUME NEW x \in Connected'
                       PROVE  fdOf'[x] = cn.slots[e.client] <=> x = e.src
            OBVIOUS
          <6>1. CASE x = a
            BY <1>9, <5>6, <5>7, <6>1
          <6>2. CASE x # a
            <7>1. x \in Connected /\ fdOf'[x] = fdOf[x]
              BY <1>4, <1>8, <1>9, <6>2
            <7> QED BY <5>3, <7>1, Zenon
          <6> QED BY <6>1, <6>2
        <5> QED BY <5>2, <5>3, <5>8, <5>9, Zenon
      <4>4. Entries(cn)'
        <5>1. ASSUME NEW k \in 1..Len(cn.pend)
              PROVE  EntryOk(cn, k)'
          <6>1. EntryOk(cn, k)
            BY <2>2 DEF Entries
          <6> QED BY <2>3, <4>3, <6>1, Zenon DEF EntryOk
        <5> QED BY <2>2, <2>3, <5>1, ZenonT(60) DEF Entries, SameSender
      <4>5. Turns(cn)'
        <5>1. \A k \in 1..Len(cn.pend) :
                cn.pend[k].src \in App /\ (online \/ k >= 2) =>
                  cn.turn # None /\ cn.pend[k].client = cn.client /\ ~cn.fresh
          BY <2>2, <4>1, Zenon DEF Turns
        <5> QED BY <2>3, <5>1, ZenonT(40) DEF Turns
      <4>6. Lonely(cn)'
        BY <2>2, <2>3, <4>1, <4>2, Zenon DEF Lonely
      <4> QED BY <4>4, <4>5, <4>6
    <3> QED BY <1>1, <3>1, <3>2 DEF JoinsQuietly
  <2>6. /\ Slots(cn)' /\ Idle(cn)' /\ OwnOnly(cn)' /\ Tracked(cn, line, fromR)'
        /\ Parts(cn, fromR, begun)' /\ Buffered(cn, fromR, begun, count["trx"])'
        /\ (count["trx"] <= MaxTrx /\ stray = {} /\ ~leaked /\ ~missed)'
    BY <1>1, <2>1, ApartFacts
  <2> QED BY <2>4, <2>5, <2>6, Zenon DEF InvInTime, Core, Waiting, Routes
<1> QED BY <1>12, <1>13, Zenon DEF Inv
-----------------------------------------------------------------------------
(* The keyer. *)

\* Nothing is pending, nothing comes and nothing waits to be passed on.
Blank ==
  /\ cn.pend = <<>> /\ cn.buf = <<>> /\ line = <<>> /\ fromR = <<>> /\ ~begun
  /\ cn.turn = None /\ cn.client = 0 /\ ~cn.own
  /\ \A i, j \in Client : cn.slots[i] = cn.slots[j] /\ cn.slots[i] # None => i = j
  /\ count["trx"] \in Nat

LEMMA BlankGood ==
  Blank => Core(cn, line, fromR) /\ Routes(cn, fromR, begun, count["trx"])
<1> SUFFICES ASSUME Blank PROVE Core(cn, line, fromR) /\ Routes(cn, fromR, begun, count["trx"])
  OBVIOUS
<1>1. /\ cn.pend = <<>> /\ cn.buf = <<>> /\ line = <<>> /\ fromR = <<>> /\ ~begun
      /\ cn.turn = None /\ cn.client = 0 /\ ~cn.own /\ count["trx"] \in Nat
      /\ \A i, j \in Client : cn.slots[i] = cn.slots[j] /\ cn.slots[i] # None => i = j
  BY DEF Blank
<1>2. 1..Len(cn.pend) = {} /\ 1..Len(line) = {} /\ 1..Len(fromR) = {} /\ Len(cn.buf) = 0
  BY <1>1
<1>3. Answers(fromR) = {} /\ Sent(line) = {} /\ Noise(fromR) = {}
  BY <1>2 DEF Answers, Sent, Noise
<1>4. Slots(cn) /\ Idle(cn) /\ Entries(cn) /\ Turns(cn) /\ OwnOnly(cn) /\ Lonely(cn)
  BY <1>1, <1>2 DEF Slots, Idle, Entries, Turns, OwnOnly, Lonely
<1>5. Tracked(cn, line, fromR)
  <2> DEFINE e == [x \in {} |-> 0]
  <2>1. e \in [Answers(fromR) -> 1..Len(cn.pend)] /\ e \in [Sent(line) -> 1..Len(cn.pend)]
    BY <1>3
  <2>2. Increasing(Answers(fromR), e) /\ Increasing(Sent(line), e)
        /\ Before(Answers(fromR), e, Sent(line), e)
        /\ AnswersMatch(cn, fromR, e) /\ SentMatch(cn, line, e)
    BY <1>3 DEF Increasing, Before, AnswersMatch, SentMatch
  <2> QED BY <2>1, <2>2 DEF Tracked, Tracks
<1>6. Bound(cn)
  <2>1. \A x : PendOf(cn.pend, x) = {}
    BY <1>2 DEF PendOf
  <2>2. 0 < MaxPipe
    BY CatAssumption
  <2> QED BY <2>1, <2>2, FS_EmptySet DEF Bound
<1>7. Parts(cn, fromR, begun)
  BY <1>1, <1>2 DEF Parts
<1>8. Buffered(cn, fromR, begun, count["trx"])
  <2> DEFINE e == [x \in {} |-> 0]
  <2>1. e \in [Noise(fromR) -> (0 + 1)..count["trx"]]
    BY <1>3
  <2>2. Counts(cn, fromR, begun, count["trx"], 0, e)
    BY <1>1, <1>2, <1>3, <2>1 DEF Counts
  <2> QED BY <2>2 DEF Buffered
<1> QED BY <1>4, <1>5, <1>6, <1>7, <1>8 DEF Core, Waiting, Routes

LEMMA InitInv == Init => Inv
<1> SUFFICES ASSUME Init PROVE Inv
  OBVIOUS
<1>1. cn \in CatnType
  BY EmptyBuf DEF Init, CatnType, None
<1>2. Types
  <2>1. <<>> \in Seq(App) /\ <<>> \in Seq(Kind) /\ <<>> \in Seq(Command) /\ <<>> \in Seq(Frame)
    OBVIOUS
  <2> QED BY <1>1, <2>1 DEF Init, Types
<1>3. Connectors /\ Connected = {}
  BY CatAssumption DEF Init, Connectors, Connected, None
<1>4. Modes /\ Frames(fromR)
  BY DEF Init, Modes, Frames
<1>5. Blank
  BY DEF Init, Blank, None
<1>6. stray = {} /\ ~leaked /\ ~missed /\ count["trx"] <= MaxTrx
  BY CatAssumption DEF Init
<1> QED BY <1>2, <1>3, <1>4, <1>5, <1>6, BlankGood DEF Inv, Always, InvInTime

\* What the keyer's change leaves of the decoder.
Restarts(s, t) ==
  /\ t \in Work /\ t.turn = None /\ t.client = 0 /\ t.slots = s.slots
  /\ t.pend = <<>> /\ t.own = FALSE /\ t.hold = FALSE
  /\ (~s.routing => s.buf = <<>>) => t.buf = <<>>

LEMMA RestartFacts ==
  ASSUME NEW s \in Work, prods \in Seq(App)
  PROVE  LET t == multi_update(reset(s)) IN Restarts(s, t) /\ t.decoder = FALSE
<1> DEFINE r == reset(s)
<1> DEFINE t == multi_update(r)
<1>1. Cleared(s, r) /\ r.decoder = FALSE
  BY ResetFacts, Zenon
<1> HIDE DEF r
<1>2. r \in Work /\ TurnGone(s, r) /\ r.pend = <<>> /\ r.own = FALSE /\ r.hold = FALSE
      /\ RouteAny(s, r)
  BY <1>1 DEF Cleared
<1>3. MultiUpdates(r, t)
  BY <1>2, MultiUpdateFacts, Zenon
<1> HIDE DEF t
<1>4. /\ t \in Work /\ SamePend(r, t) /\ SameOwn(r, t)
      /\ SameTurns(r, t) \/ TurnGone(r, t)
      /\ RouteStep(r, t)
      /\ ~route_always(t) /\ ~r.own /\ ~PendingOwn(r) /\ ~removed_busy(r) => ~t.routing
      /\ ~route_always(t)
  BY <1>1, <1>3 DEF MultiUpdates, route_always
<1>5. 1..Len(r.pend) = {}
  BY <1>2
<1>6. ~PendingOwn(r) /\ ~removed_busy(r)
  BY <1>5 DEF PendingOwn, removed_busy, client_busy
<1>7. ~t.routing
  BY <1>2, <1>4, <1>6
<1>8. RouteAny(s, t)
  BY <1>2, <1>4, RouteStepAny, RouteAnyTwice
<1>9. (~s.routing => s.buf = <<>>) => t.buf = <<>>
  BY <1>7, <1>8 DEF RouteAny
<1>10. t.turn = None /\ t.client = 0 /\ t.slots = s.slots
  BY <1>2, <1>4 DEF TurnGone, SameTurns
<1>11. t.pend = <<>> /\ t.own = FALSE /\ t.hold = FALSE /\ t.decoder = FALSE
  BY <1>1, <1>2, <1>4 DEF SamePend, SameOwn
<1> QED BY <1>4, <1>9, <1>10, <1>11 DEF Restarts, t, r

LEMMA RestartSetup ==
  ASSUME NEW s \in Work, prods \in Seq(App), NEW t, Restarts(s, t), t.decoder = FALSE
  PROVE  Restarts(s, setup(t)) /\ setup(t).decoder = TRUE
<1> DEFINE u == setup(t)
<1>1. t \in Work
  BY DEF Restarts
<1>2. Cleared(t, u) /\ u.decoder = TRUE
  BY <1>1, SetupFacts DEF SetsUp
<1> HIDE DEF u
<1>3. u \in Work /\ TurnGone(t, u) /\ u.pend = <<>> /\ u.own = FALSE /\ u.hold = FALSE
      /\ RouteAny(t, u)
  BY <1>2 DEF Cleared
<1>4. t.buf = <<>> => u.buf = <<>>
  BY <1>3 DEF RouteAny
<1> QED BY <1>2, <1>3, <1>4 DEF Restarts, TurnGone, u

LEMMA KeyerStateStep ==
  ASSUME Inv, KeyerState
  PROVE  Inv'
<1>1. Always
  BY DEF Inv
<1>2. Types /\ Connectors /\ Modes /\ Begin(cn) \in Work /\ CatnOf(cn, Begin(cn))
  BY <1>1, BeginFacts DEF Always, Types
<1>3. prods \in Seq(App)
  BY <1>2 DEF Types
<1> DEFINE s == multi_update(reset(Begin(cn)))
<1> DEFINE t == IF online THEN s ELSE setup(s)
<1>4. Restarts(Begin(cn), s) /\ s.decoder = FALSE
  BY <1>2, <1>3, RestartFacts
<1>5. cn' = [x \in DOMAIN cn |-> t[x]]
  BY DEF KeyerState
<1> HIDE DEF s
<1>6. Restarts(Begin(cn), t) /\ (~online => t.decoder = TRUE)
  BY <1>2, <1>3, <1>4, RestartSetup
<1> HIDE DEF t
<1>7. t \in Work
  BY <1>6 DEF Restarts
<1>8. cn' \in CatnType /\ CatnOf(cn', t)
  BY <1>2, <1>5, <1>7, EndFacts DEF Types
<1>9. /\ count' = [count EXCEPT !["off"] = @ + 1] /\ online' = ~online
      /\ line' = <<>> /\ fromR' = <<>> /\ begun' = FALSE
      /\ UNCHANGED <<prods, fdOf, sock, stray, leaked, missed>>
  BY DEF KeyerState
<1>10. /\ count' \in [{"lost", "late", "trx", "off"} -> Nat]
       /\ count'["late"] = count["late"] /\ count'["trx"] = count["trx"]
  BY <1>2, <1>9 DEF Types
<1>11. Types'
  <2>1. line' \in Seq(Command) /\ fromR' \in Seq(Frame) /\ begun' \in BOOLEAN
    <3>1. <<>> \in Seq(Command) /\ <<>> \in Seq(Frame)
      OBVIOUS
    <3>2. line' = <<>> /\ fromR' = <<>> /\ begun' = FALSE
      BY <1>9
    <3> QED BY <3>1, <3>2, Zenon
  <2>2. /\ prods' \in Seq(App) /\ fdOf' \in [App -> Fd \cup {None, Gone}]
        /\ sock' \in [App -> Seq(Kind)]
    BY <1>2, <1>9, Zenon DEF Types
  <2>3. online' \in BOOLEAN
    BY <1>2, <1>9 DEF Types
  <2> QED BY <1>8, <1>10, <2>1, <2>2, <2>3, Zenon DEF Types
<1>12. Connectors'
  BY <1>2, <1>9 DEF Connectors, Connected
<1>13. Modes'
  BY <1>6, <1>8, <1>9 DEF Modes, CatnOf, SamePend, Restarts
<1>14. Frames(fromR)'
  BY <1>9 DEF Frames
<1>15. ASSUME InTime'  PROVE InvInTime'
  <2>1. InvInTime
    BY <1>10, <1>15 DEF Inv, InTime
  <2>2. Slots(cn) /\ Parts(cn, fromR, begun) /\ count["trx"] <= MaxTrx
        /\ stray = {} /\ ~leaked /\ ~missed
    BY <2>1 DEF InvInTime, Core, Waiting, Routes
  <2>3. \A i, j \in Client : cn.slots[i] = cn.slots[j] /\ cn.slots[i] # None => i = j
    BY <2>2 DEF Slots
  <2>4. t.slots = cn.slots /\ t.buf = <<>>
    BY <1>2, <1>6, <2>2 DEF Restarts, CatnOf, SameTurns, Parts
  <2>5. Blank'
    BY <1>6, <1>8, <1>9, <1>10, <1>11, <2>3, <2>4
       DEF Blank, CatnOf, SamePend, SameTurns, Restarts, Types
  <2>6. Core(cn, line, fromR)' /\ Routes(cn, fromR, begun, count["trx"])'
    BY <2>5, BlankGood, PTL
  <2> QED BY <1>9, <1>10, <2>2, <2>6 DEF InvInTime
<1> QED BY <1>11, <1>12, <1>13, <1>14, <1>15 DEF Inv, Always
-----------------------------------------------------------------------------
(* A part of the radio's data is read. *)

LEMMA FrameHead ==
  ASSUME NEW fr \in Seq(Frame), fr # <<>>
  PROVE  /\ Head(fr) = fr[1] /\ fr[1] \in Frame /\ Owner(fr[1]) \in Source \cup {Radio}
         /\ Tail(fr) \in Seq(Frame) /\ Len(fr) \in Nat \ {0} /\ Len(Tail(fr)) = Len(fr) - 1
         /\ \A j \in 1..Len(Tail(fr)) : Tail(fr)[j] = fr[j + 1]
<1>1. fr[1] \in Frame /\ Head(fr) = fr[1] /\ Len(fr) \in Nat \ {0}
  OBVIOUS
<1>2. Owner(fr[1]) \in Source \cup {Radio}
  BY <1>1 DEF Owner, Frame
<1> QED BY <1>1, <1>2, TailMoves

LEMMA TailFrames ==
  ASSUME NEW fr \in Seq(Frame), fr # <<>>, Frames(fr)
  PROVE  Frames(Tail(fr))
<1>1. PICK n \in Nat \ {0} : n = Len(fr)
  BY FrameHead, Zenon
<1>2. PICK q \in Seq(Frame) : q = Tail(fr)
  BY FrameHead, Zenon
<1>3. Len(q) = n - 1 /\ \A j \in 1..(n-1) : q[j] = fr[j + 1]
  BY <1>1, <1>2, FrameHead
<1>4. ASSUME NEW j \in 1..Len(q)
      PROVE  /\ q[j].what \in {"trx", "noise"} <=> q[j].src = Radio
             /\ q[j].what = "echo" =>
                  /\ j + 1 \in 1..Len(q) /\ q[j + 1].what = "answer"
                  /\ q[j + 1].src = q[j].src /\ q[j + 1].kind = q[j].kind
                  /\ q[j + 1].turn = q[j].turn
  <2>1. j + 1 \in 1..n /\ j \in 1..(n-1) /\ q[j] = fr[j + 1]
    BY <1>3, <1>4
  <2>2. /\ fr[j + 1].what \in {"trx", "noise"} <=> fr[j + 1].src = Radio
        /\ fr[j + 1].what = "echo" =>
             /\ (j + 1) + 1 \in 1..n /\ fr[(j + 1) + 1].what = "answer"
             /\ fr[(j + 1) + 1].src = fr[j + 1].src /\ fr[(j + 1) + 1].kind = fr[j + 1].kind
             /\ fr[(j + 1) + 1].turn = fr[j + 1].turn
    BY <1>1, <2>1 DEF Frames
  <2>3. fr[j + 1].what = "echo" => j + 1 \in 1..(n-1) /\ q[j + 1] = fr[(j + 1) + 1]
    BY <1>3, <2>1, <2>2
  <2> QED BY <1>3, <2>1, <2>2, <2>3
<1> QED BY <1>2, <1>4 DEF Frames

\* y is x, inside a frame (h) or not.
HalfIs(x, y, h) ==
  /\ y \in Work /\ SameTurns(x, y) /\ SameOwn(x, y) /\ SameRoute(x, y) /\ SameByte(x, y)
  /\ y.pend = x.pend /\ y.decoder = x.decoder /\ y.half = h

LEMMA HalfFacts ==
  ASSUME NEW x \in Work, NEW h \in BOOLEAN
  PROVE  HalfIs(x, [x EXCEPT !.half = h], h)
BY DEF HalfIs, Work, SameTurns, SameOwn, SameRoute, SameByte

\* The decoder gets the part.
Feeds(x, t, f, bg) ==
  /\ f.what = "noise" => t = x
  /\ f.what # "noise" /\ ~bg => HalfIs(x, t, TRUE)
  /\ f.what # "noise" /\ bg /\ x.half =>
       \E y \in Work : HalfIs(x, y, FALSE) /\ t = process_radio_frame(y, f)
  /\ f.what # "noise" /\ bg /\ ~x.half => t = x

LEMMA FeedFacts ==
  ASSUME NEW x \in Work, x.decoder, NEW check
  PROVE  Feeds(x, feed_radio(x, check), Head(fromR), begun)
<1>1. (IF check THEN setup(x) ELSE x) = x
  BY DEF setup
<1>2. PICK f : f = Head(fromR)
  OBVIOUS
<1>3. feed_radio(x, check) =
        IF f.what = "noise" THEN x
        ELSE IF ~begun THEN [x EXCEPT !.half = TRUE]
        ELSE IF x.half THEN process_radio_frame([x EXCEPT !.half = FALSE], f)
        ELSE x
  BY <1>1, <1>2 DEF feed_radio
<1>4. HalfIs(x, [x EXCEPT !.half = TRUE], TRUE) /\ HalfIs(x, [x EXCEPT !.half = FALSE], FALSE)
  BY HalfFacts
<1>5. [x EXCEPT !.half = FALSE] \in Work
  BY <1>4 DEF HalfIs
<1> QED BY <1>2, <1>3, <1>4, <1>5 DEF Feeds

\* A part is added to the buffer.
AddsPart(x, t, p) ==
  /\ t \in Work /\ SameButRoute(x, t)
  /\ t.multi = x.multi /\ t.filter = x.filter /\ t.routing = x.routing
  /\ t.out = x.out /\ t.buf = Append(x.buf, p)

LEMMA AddPartFacts ==
  ASSUME NEW x \in Work, NEW p \in Source \cup {Radio}
  PROVE  AddsPart(x, [x EXCEPT !.buf = Append(@, p)], p)
<1>1. x.buf \in Seq(Source \cup {Radio})
  BY DEF Work
<1>2. PICK q \in Seq(Source \cup {Radio}) : q = Append(x.buf, p)
  <2>1. Append(x.buf, p) \in Seq(Source \cup {Radio})
    BY <1>1, AppendProperties
  <2> QED BY <2>1, Zenon
<1>3. PICK t : t = [x EXCEPT !.buf = q]
  OBVIOUS
<1>4. t \in Work /\ SameButRoute(x, t) /\ t.multi = x.multi /\ t.filter = x.filter
      /\ t.routing = x.routing /\ t.out = x.out /\ t.buf = q
  BY <1>3 DEF Work, SameButRoute, SameTurns, SamePend, SameOwn, SameByte
<1>5. t = [x EXCEPT !.buf = Append(@, p)]
  BY <1>2, <1>3
<1> QED BY <1>2, <1>4, <1>5, Zenon DEF AddsPart

FlushesLater(x, t) ==
  /\ t \in Work /\ SameButRoute(x, t)
  /\ t.multi = x.multi /\ t.filter = x.filter /\ t.routing = x.routing
  /\ t.out = x.out /\ t.buf = x.buf

LEMMA FlushLaterFacts ==
  ASSUME NEW x \in Work
  PROVE  FlushesLater(x, [x EXCEPT !.flush = TRUE])
BY DEF FlushesLater, Work, SameButRoute, SameTurns, SamePend, SameOwn, SameByte

\* The record after a part has been read.
Reads(check) == IF cn.routing THEN RadioRouted(check) ELSE RadioPassed(check)

LEMMA FeedSound ==
  ASSUME NEW x, Sound(x), online, fromR \in Seq(Frame), fromR # <<>>, Frames(fromR),
         prods \in Seq(App), begun \in BOOLEAN, NEW check
  PROVE  Sound(feed_radio(x, check))
<1>1. x \in Work /\ x.decoder
  BY DEF Sound
<1>2. PICK f : f = Head(fromR)
  OBVIOUS
<1>3. PICK t : t = feed_radio(x, check)
  OBVIOUS
<1>4. Feeds(x, t, f, begun)
  BY <1>1, <1>2, <1>3, FeedFacts
<1>5. f \in Frame /\ (f.what = "echo" => f.src \in Source)
  <2>1. f = fromR[1] /\ f \in Frame /\ 1 \in 1..Len(fromR)
    BY <1>2, FrameHead
  <2>2. f.what = "echo" => f.src # Radio
    BY <2>1 DEF Frames
  <2> QED BY <2>1, <2>2 DEF Frame
<1>6. ASSUME NEW y \in Work, NEW h, HalfIs(x, y, h)
      PROVE  Sound(y)
  BY <1>6, SoundSame, Zenon DEF HalfIs, SameOwn
<1>7. ASSUME NEW y \in Work, HalfIs(x, y, FALSE), f.what # "noise", t = process_radio_frame(y, f)
      PROVE  Sound(t)
  <2>1. Processes(y, t)
    BY <1>5, <1>7, ProcessFacts
  <2> QED BY <1>6, <1>7, <2>1, SoundRadio
<1>8. CASE f.what = "noise" \/ (begun /\ ~x.half)
  BY <1>3, <1>4, <1>8 DEF Feeds
<1>9. CASE f.what # "noise" /\ ~begun
  BY <1>3, <1>4, <1>6, <1>9 DEF Feeds, HalfIs
<1>10. CASE f.what # "noise" /\ begun /\ x.half
  BY <1>3, <1>4, <1>7, <1>10 DEF Feeds
<1> QED BY <1>8, <1>9, <1>10
LEMMA ReadSound ==
  ASSUME Always, fromR # <<>>, NEW check
  PROVE  Sound(Reads(check)) /\ online
<1>1. Types /\ Modes /\ Frames(fromR)
  BY DEF Always
<1>2. online /\ fromR \in Seq(Frame) /\ prods \in Seq(App) /\ begun \in BOOLEAN
  BY <1>1 DEF Modes, Types
<1>3. PICK b : b = Begin(cn)
  OBVIOUS
<1>4. Sound(b)
  BY <1>3, BeginSound
<1>5. PICK p \in Source \cup {Radio} : p = Owner(Head(fromR))
  BY <1>2, FrameHead
<1>6. Sound(RadioPassed(check))
  <2>1. <<p>> \in Seq(Source \cup {Radio})
    OBVIOUS
  <2>2. PICK x : x = pass_out(b, <<p>>, All)
    OBVIOUS
  <2>3. Sound(x)
    BY <1>2, <1>4, <2>1, <2>2, SoundRadio
  <2>4. Sound(feed_radio(x, check))
    BY <1>1, <1>2, <2>3, FeedSound
  <2> QED BY <1>3, <1>5, <2>2, <2>4 DEF RadioPassed
<1>7. Sound(RadioRouted(check))
  <2>1. PICK s : s = IF Len(cn.buf) = RouteMax THEN route_flush(b, route_default(cn)) ELSE b
    OBVIOUS
  <2>2. Sound(s)
    BY <1>2, <1>4, <2>1, SoundRadio
  <2>3. PICK x : x = [s EXCEPT !.buf = Append(@, p)]
    OBVIOUS
  <2>4. Sound(x)
    BY <1>2, <2>2, <2>3, SoundRadio
  <2>5. PICK t : t = feed_radio(x, check)
    OBVIOUS
  <2>6. Sound(t)
    BY <1>1, <1>2, <2>4, <2>5, FeedSound
  <2>7. Sound([t EXCEPT !.flush = TRUE]) /\ Sound(route_flush(t, t.dest))
    BY <1>2, <2>6, SoundRadio
  <2>8. RadioRouted(check) = IF t.dest = NoDest THEN [t EXCEPT !.flush = TRUE]
                             ELSE route_flush(t, t.dest)
    BY <1>3, <1>5, <2>1, <2>3, <2>5, Zenon DEF RadioRouted
  <2> QED BY <2>7, <2>8
<1> QED BY <1>2, <1>6, <1>7, Zenon DEF Reads

\* The handler's steps on the way to the record it leaves.
ReadSteps(check, due, s, t, u, v) ==
  /\ s = Reads(check) /\ t = turn_check(s, FALSE)
  /\ u = (IF t.answered /\ due THEN own_try(t) ELSE t)
  /\ v = (IF cn.routing THEN route_check(u) ELSE u)

Reached(v, f) == \E k \in 1..Len(v.out) : v.out[k].src = Owner(f) /\ f.src \in v.out[k].to

Last == begun \/ Head(fromR).what = "noise"

\* The frames still to come.
ReadsOn ==
  /\ fromR' = (IF Last THEN Tail(fromR) ELSE fromR) /\ begun' = ~Last
  /\ UNCHANGED <<prods, fdOf, sock, online, count>>

Misses(v) ==
  missed \/ (begun /\ Head(fromR).what = "answer" /\ Head(fromR).src \in Connected
             /\ v.buf = <<>> /\ ~Reached(v, Head(fromR)))

LEMMA ReadStepsFacts ==
  ASSUME NEW check, NEW due, RadioByte(check, due)
  PROVE  \E s, t, u, v :
           /\ fromR # <<>> /\ ReadSteps(check, due, s, t, u, v)
           /\ End(v) /\ line' = line \o v.tx /\ ReadsOn /\ (missed' <=> Misses(v))
<1> DEFINE Ending(v) ==
             /\ End(v) /\ line' = line \o v.tx
             /\ fromR' = (IF Last THEN Tail(fromR) ELSE fromR) /\ begun' = ~Last
             /\ missed' = Misses(v)
<1>1. /\ fromR # <<>> /\ UNCHANGED <<prods, fdOf, sock, online, count>>
      /\ \E s \in {Reads(check)} : \E t \in {turn_check(s, FALSE)} :
         \E u \in {IF t.answered /\ due THEN own_try(t) ELSE t} :
         \E v \in {IF cn.routing THEN route_check(u) ELSE u} : Ending(v)
  <2>1. fromR # <<>> /\ UNCHANGED <<prods, fdOf, sock, online, count>>
    BY Zenon DEF RadioByte
  <2>2. \E s \in {Reads(check)} : \E t \in {turn_check(s, FALSE)} :
        \E u \in {IF t.answered /\ due THEN own_try(t) ELSE t} :
        \E v \in {IF cn.routing THEN route_check(u) ELSE u} : Ending(v)
    BY ZenonT(60) DEF RadioByte, Reads, Reached, Last, Misses
  <2> QED BY <2>1, <2>2, Zenon
<1> HIDE DEF Ending
<1>2. PICK s, t, u, v : ReadSteps(check, due, s, t, u, v) /\ Ending(v)
  BY <1>1 DEF ReadSteps
<1>3. End(v) /\ line' = line \o v.tx /\ ReadsOn /\ (missed' <=> Misses(v))
  BY <1>1, <1>2, Zenon DEF Ending, ReadsOn
<1> QED BY <1>1, <1>2, <1>3
-----------------------------------------------------------------------------
(* The first frame has been read. *)

LEMMA TailTracks ==
  ASSUME NEW s, NEW ln, NEW fr \in Seq(Frame), fr # <<>>, NEW er, NEW el,
         Tracks(s, ln, fr, er, el)
  PROVE  \E e2 : /\ Tracks(s, ln, Tail(fr), e2, el)
                 /\ \A j \in Answers(Tail(fr)) : j + 1 \in Answers(fr) /\ e2[j] = er[j + 1]
<1>1. PICK n \in Nat \ {0} : n = Len(fr)
  BY FrameHead, Zenon
<1>2. PICK q \in Seq(Frame) : q = Tail(fr)
  BY FrameHead, Zenon
<1>3. Len(q) = n - 1 /\ \A j \in 1..(n-1) : q[j] = fr[j + 1]
  BY <1>1, <1>2, FrameHead
<1>4. \A j \in Answers(q) : j \in 1..(n-1) /\ j + 1 \in Answers(fr) /\ q[j] = fr[j + 1]
  BY <1>1, <1>3 DEF Answers
<1> DEFINE e2 == [j \in Answers(q) |-> er[j + 1]]
<1>5. /\ er \in [Answers(fr) -> 1..Len(s.pend)] /\ Increasing(Answers(fr), er)
      /\ el \in [Sent(ln) -> 1..Len(s.pend)] /\ Increasing(Sent(ln), el)
      /\ Before(Answers(fr), er, Sent(ln), el)
      /\ AnswersMatch(s, fr, er) /\ SentMatch(s, ln, el)
  BY DEF Tracks
<1>6. e2 \in [Answers(q) -> 1..Len(s.pend)]
  BY <1>4, <1>5
<1>7. \A j \in Answers(q) : e2[j] = er[j + 1]
  OBVIOUS
<1> HIDE DEF e2
<1>8. Increasing(Answers(q), e2)
  BY <1>4, <1>5, <1>7 DEF Increasing
<1>9. Before(Answers(q), e2, Sent(ln), el)
  BY <1>4, <1>5, <1>7 DEF Before
<1>10. AnswersMatch(s, q, e2)
  <2> SUFFICES ASSUME NEW j \in Answers(q)
               PROVE  /\ Awaited(s, q[j], e2[j])
                      /\ j > 1 /\ q[j - 1].what = "echo" => ~s.pend[e2[j]].echoed
    BY DEF AnswersMatch
  <2>1. j + 1 \in Answers(fr) /\ q[j] = fr[j + 1] /\ e2[j] = er[j + 1] /\ j \in 1..(n-1)
    BY <1>4, <1>7
  <2>2. Awaited(s, q[j], e2[j])
    BY <1>5, <2>1 DEF AnswersMatch
  <2>3. (j + 1) > 1 /\ fr[(j + 1) - 1].what = "echo" => ~s.pend[e2[j]].echoed
    BY <1>5, <2>1 DEF AnswersMatch
  <2>4. j > 1 => q[j - 1] = fr[(j + 1) - 1]
    BY <1>3, <2>1
  <2>5. (j + 1) > 1
    BY <2>1
  <2> QED BY <2>2, <2>3, <2>4, <2>5
<1> QED BY <1>2, <1>4, <1>5, <1>6, <1>7, <1>8, <1>9, <1>10 DEF Tracks

LEMMA TailTracked ==
  ASSUME NEW s, NEW ln, NEW fr \in Seq(Frame), fr # <<>>, Tracked(s, ln, fr)
  PROVE  Tracked(s, ln, Tail(fr))
<1>1. PICK er, el : Tracks(s, ln, fr, er, el)
  BY DEF Tracked
<1> QED BY <1>1, TailTracks DEF Tracked

\* The noise still to come when the first frame is gone.
LEMMA TailNoise ==
  ASSUME NEW fr \in Seq(Frame), fr # <<>>
  PROVE  \A j \in Noise(Tail(fr)) : j \in Nat \ {0} /\ j + 1 \in Noise(fr)
<1>1. PICK n \in Nat \ {0} : n = Len(fr)
  BY FrameHead, Zenon
<1>2. PICK q \in Seq(Frame) : q = Tail(fr)
  BY FrameHead, Zenon
<1>3. Len(q) = n - 1 /\ \A j \in 1..(n-1) : q[j] = fr[j + 1]
  BY <1>1, <1>2, FrameHead
<1> QED BY <1>1, <1>2, <1>3 DEF Noise

LEMMA TailBuffered ==
  ASSUME NEW s, NEW t, NEW fr \in Seq(Frame), fr # <<>>, NEW bg, NEW m \in Nat,
         Buffered(s, fr, bg, m), t.buf = <<>>
  PROVE  Buffered(t, Tail(fr), FALSE, m)
<1>1. PICK n, nr : Counts(s, fr, bg, m, n, nr)
  BY DEF Buffered
<1> DEFINE n2 == [j \in Noise(Tail(fr)) |-> nr[j + 1]]
<1>2. n \in Nat /\ n <= m /\ nr \in [Noise(fr) -> (n + 1)..m]
      /\ \A i, j \in Noise(fr) : i < j => nr[i] < nr[j]
  BY <1>1 DEF Counts
<1>3. \A j \in Noise(Tail(fr)) : j \in Nat \ {0} /\ j + 1 \in Noise(fr) /\ n2[j] = nr[j + 1]
  BY TailNoise
<1>4. n2 \in [Noise(Tail(fr)) -> (n + 1)..m]
  BY <1>2, <1>3
<1> HIDE DEF n2
<1>5. \A i, j \in Noise(Tail(fr)) : i < j => n2[i] < n2[j]
  BY <1>2, <1>3
<1>6. Len(t.buf) = 0
  OBVIOUS
<1>7. Counts(t, Tail(fr), FALSE, m, n, n2)
  BY <1>2, <1>4, <1>5, <1>6 DEF Counts
<1> QED BY <1>7 DEF Buffered

LEMMA NoiseBuffered ==
  ASSUME NEW s, NEW t, NEW fr \in Seq(Frame), fr # <<>>, NEW m \in Nat,
         fr[1].what = "noise", Buffered(s, fr, FALSE, m),
         Len(s.buf) \in Nat, Len(t.buf) \in Nat, Len(t.buf) <= Len(s.buf) + 1
  PROVE  Buffered(t, Tail(fr), FALSE, m)
<1>1. PICK n, nr : Counts(s, fr, FALSE, m, n, nr)
  BY DEF Buffered
<1> DEFINE n2 == [j \in Noise(Tail(fr)) |-> nr[j + 1]]
<1>2. n \in Nat /\ n <= m /\ nr \in [Noise(fr) -> (n + 1)..m] /\ Len(s.buf) <= n
      /\ \A i, j \in Noise(fr) : i < j => nr[i] < nr[j]
  <2>1. n + 0 = n \/ n \notin Nat
    OBVIOUS
  <2> QED BY <1>1, <2>1 DEF Counts
<1>3. \A j \in Noise(Tail(fr)) : j \in Nat \ {0} /\ j + 1 \in Noise(fr) /\ n2[j] = nr[j + 1]
  BY TailNoise
<1>4. 1 \in Noise(fr)
  BY FrameHead DEF Noise
<1>5. nr[1] \in (n + 1)..m /\ n + 1 <= m
  BY <1>2, <1>4
<1>6. \A j \in Noise(Tail(fr)) : nr[j + 1] \in ((n + 1) + 1)..m
  <2> SUFFICES ASSUME NEW j \in Noise(Tail(fr)) PROVE nr[j + 1] \in ((n + 1) + 1)..m
    OBVIOUS
  <2>1. nr[j + 1] \in (n + 1)..m
    BY <1>2, <1>3
  <2>2. nr[1] < nr[j + 1]
    BY <1>2, <1>3, <1>4
  <2> QED BY <1>2, <1>5, <2>1, <2>2
<1>7. n2 \in [Noise(Tail(fr)) -> ((n + 1) + 1)..m]
  BY <1>3, <1>6
<1> HIDE DEF n2
<1>8. \A i, j \in Noise(Tail(fr)) : i < j => n2[i] < n2[j]
  BY <1>2, <1>3
<1>9. Len(t.buf) <= (n + 1) + 0 /\ n + 1 \in Nat
  BY <1>2
<1>10. Counts(t, Tail(fr), FALSE, m, n + 1, n2)
  BY <1>5, <1>7, <1>8, <1>9 DEF Counts
<1> QED BY <1>10 DEF Buffered
\* From b to s the commands, the turn and the routing are the same.
Alike(b, s) ==
  /\ s \in Work /\ SameTurns(b, s) /\ s.own = b.own /\ s.decoder = b.decoder
  /\ s.multi = b.multi /\ s.routing = b.routing /\ s.tx = b.tx

LEMMA AlikeCore ==
  ASSUME NEW b \in Work, NEW s, Alike(b, s), s.pend = b.pend, Connectors, prods \in Seq(App),
         NEW ln \in Seq(Command), NEW fr \in Seq(Frame), Core(b, ln, fr), Lonely(b)
  PROVE  Core(s, ln, fr) /\ Lonely(s)
<1>1. s \in Work /\ SameTurns(b, s) /\ s.own = b.own /\ s.decoder = b.decoder
      /\ s.multi = b.multi /\ s.routing = b.routing
  BY DEF Alike
<1>2. Slots(s) /\ Idle(s)
  <2>1. Slots(b) /\ Idle(b) /\ s.pend = b.pend
    BY DEF Core, Waiting
  <2>2. Slots(s)
    BY <1>1, <2>1, TurnSlots
  <2>3. Idle(s)
    BY <1>1, <2>1, SameIdle DEF SameTurns
  <2> QED BY <2>2, <2>3
<1>3. /\ \A i \in Client : b.slots[i] # None => s.slots[i] = b.slots[i]
      /\ s.own => b.own
      /\ b.turn # None /\ ~b.fresh => s.turn # None /\ s.client = b.client /\ ~s.fresh
      /\ b.turn = None => s.turn = None \/ Len(prods) > 1
  BY <1>1, Zenon DEF SameTurns
<1>4. Core(s, ln, fr)
  BY <1>1, <1>2, <1>3, KeptCore, Zenon
<1>5. Lonely(s)
  BY <1>1, Zenon DEF Lonely
<1> QED BY <1>4, <1>5

LEMMA TailCore ==
  ASSUME NEW s, NEW ln, NEW fr \in Seq(Frame), fr # <<>>, Core(s, ln, fr)
  PROVE  Core(s, ln, Tail(fr))
BY TailTracked, Zenon DEF Core, Waiting

\* A part of the frame f is read: it goes to the buffer or to all.
Handed(b, x, f) ==
  /\ Alike(b, x) /\ x.pend = b.pend /\ x.half = b.half /\ SameByte(b, x)
  /\ b.routing => x.buf = Append(b.buf, Owner(f)) /\ Emitted(x) = Emitted(b)
  /\ ~b.routing => x.buf = b.buf
                   /\ Emitted(x) = Emitted(b) \cup To(<<Owner(f)>>, Connected)

\* What is passed to all without routing belongs to nobody else.
LEMMA HeadHarmless ==
  ASSUME NEW s, NEW ln, NEW fr \in Seq(Frame), fr # <<>>, Core(s, ln, fr), Frames(fr),
         online, Lonely(s), ~s.routing
  PROVE  Harmless(<<Owner(fr[1])>>, Connected)
<1>1. CASE fr[1].src = Radio
  BY <1>1, SourceFacts DEF Owner, Harmless
<1>2. CASE fr[1].src # Radio
  <2>1. PICK k \in 1..Len(s.pend) : s.pend[k].src = fr[1].src
    BY <1>2, HeadEntry
  <2>2. fr[1].src # Own
    BY <2>1, Zenon DEF Core, Waiting, Entries, EntryOk, Lonely
  <2>3. fr[1].src \in App => Connected \subseteq {fr[1].src}
    BY <2>1, Zenon DEF Lonely
  <2> QED BY <2>2, <2>3, SourceFacts DEF Owner, Harmless
<1> QED BY <1>1, <1>2

LEMMA HandedClean ==
  ASSUME NEW b, NEW x, NEW ln, NEW fr \in Seq(Frame), fr # <<>>, Core(b, ln, fr),
         Frames(fr), online, Lonely(b), Clean(b), Handed(b, x, fr[1])
  PROVE  Clean(x)
<1>1. CASE b.routing
  BY <1>1, Zenon DEF Handed, Clean
<1>2. CASE ~b.routing
  <2>1. Harmless(<<Owner(fr[1])>>, Connected)
    BY <1>2, HeadHarmless
  <2>2. Emitted(x) = Emitted(b) \cup To(<<Owner(fr[1])>>, Connected)
    BY <1>2, Zenon DEF Handed
  <2> QED BY <2>1, <2>2, HarmlessClean, Zenon
<1> QED BY <1>1, <1>2

\* s is x but for its half and its flush timer.
Holds(x, s, h) ==
  /\ Alike(x, s) /\ s.pend = x.pend /\ s.buf = x.buf /\ Emitted(s) = Emitted(x) /\ s.half = h

LEMMA BufType ==
  ASSUME NEW s \in Work
  PROVE  s.buf \in Seq(Source \cup {Radio}) /\ Len(s.buf) \in Nat
BY DEF Work

\* The buffer with one more part.
LEMMA LongerBuf ==
  ASSUME NEW s \in Work, NEW p
  PROVE  /\ Len(Append(s.buf, p)) = Len(s.buf) + 1
         /\ \A k \in 1..Len(Append(s.buf, p)) :
              (k \in 1..Len(s.buf) /\ Append(s.buf, p)[k] = s.buf[k]) \/ Append(s.buf, p)[k] = p
<1>1. PICK q \in Seq(Source \cup {Radio}) : q = s.buf
  BY BufType, Zenon
<1> QED BY <1>1

LEMMA NoiseRead ==
  ASSUME NEW b \in Work, NEW x, NEW s, NEW h,
         NEW ln \in Seq(Command), NEW fr \in Seq(Frame), NEW bg, NEW m \in Nat,
         Good(b, ln, fr, bg, m), Steady(b, fr), fr # <<>>, online, prods \in Seq(App),
         fr[1].what = "noise", Handed(b, x, fr[1]), Holds(x, s, h)
  PROVE  Good(s, ln, Tail(fr), FALSE, m) /\ ~bg
<1>1. Core(b, ln, fr) /\ Lonely(b) /\ Parts(b, fr, bg) /\ Buffered(b, fr, bg, m) /\ Clean(b)
      /\ Frames(fr) /\ Connectors
  BY DEF Good, Routes, Steady
<1>2. Clean(x) /\ x \in Work
  BY <1>1, HandedClean DEF Handed, Alike
<1>3. Clean(s)
  BY <1>2, Zenon DEF Holds, Clean
<1>4. Alike(b, s) /\ s.pend = b.pend
  BY Zenon DEF Handed, Holds, Alike, SameTurns
<1>5. Core(s, ln, Tail(fr)) /\ Lonely(s)
  BY <1>1, <1>4, AlikeCore, TailCore, Zenon
<1>6. ~bg
  BY <1>1 DEF Parts
<1>7. Owner(fr[1]) = Radio
  <2>1. fr[1].src = Radio
    <3>1. 1 \in 1..Len(fr)
      BY FrameHead
    <3> QED BY <1>1, <3>1 DEF Frames
  <2> QED BY <2>1 DEF Owner
<1>8. s.buf = b.buf \/ s.buf = Append(b.buf, Radio)
  BY <1>7, Zenon DEF Handed, Holds
<1>9. Len(b.buf) \in Nat /\ (Len(s.buf) = Len(b.buf) \/ Len(s.buf) = Len(b.buf) + 1)
  BY <1>8, BufType, LongerBuf
<1>10. \A k \in 1..Len(b.buf) : b.buf[k] = Radio
  BY <1>1, <1>6, Zenon DEF Parts
<1>11. \A k \in 1..Len(s.buf) : s.buf[k] = Radio
  <2>1. CASE s.buf = b.buf
    BY <1>10, <2>1, Zenon
  <2>2. CASE s.buf = Append(b.buf, Radio)
    <3>1. \A k \in 1..Len(s.buf) : (k \in 1..Len(b.buf) /\ s.buf[k] = b.buf[k]) \/ s.buf[k] = Radio
      BY <2>2, LongerBuf
    <3> QED BY <1>10, <3>1, Zenon
  <2> QED BY <1>8, <2>1, <2>2
<1>12. ~s.routing => s.buf = <<>>
  BY <1>1, Zenon DEF Parts, Handed, Holds, Alike
<1>13. Parts(s, Tail(fr), FALSE)
  BY <1>11, <1>12, Zenon DEF Parts
<1>14. Buffered(s, Tail(fr), FALSE, m)
  <2>1. Buffered(b, fr, FALSE, m)
    <3>1. (IF bg THEN 1 ELSE 0) = (IF FALSE THEN 1 ELSE 0)
      BY <1>6
    <3> QED BY <1>1, <3>1, Zenon DEF Buffered, Counts
  <2>2. Len(s.buf) \in Nat /\ Len(s.buf) <= Len(b.buf) + 1
    BY <1>9
  <2> QED BY <1>9, <2>1, <2>2, NoiseBuffered
<1> QED BY <1>3, <1>5, <1>6, <1>13, <1>14 DEF Good, Routes

LEMMA FirstPartRead ==
  ASSUME NEW b \in Work, NEW x, NEW s,
         NEW ln \in Seq(Command), NEW fr \in Seq(Frame), NEW bg, NEW m \in Nat,
         Good(b, ln, fr, bg, m), Steady(b, fr), fr # <<>>, online, prods \in Seq(App), ~bg,
         fr[1].what # "noise", Handed(b, x, fr[1]), Holds(x, s, TRUE)
  PROVE  Good(s, ln, fr, TRUE, m)
<1>1. Core(b, ln, fr) /\ Lonely(b) /\ Parts(b, fr, bg) /\ Buffered(b, fr, bg, m) /\ Clean(b)
      /\ Frames(fr) /\ Connectors
  BY DEF Good, Routes, Steady
<1>2. Clean(x) /\ x \in Work
  BY <1>1, HandedClean DEF Handed, Alike
<1>3. Clean(s)
  BY <1>2, Zenon DEF Holds, Clean
<1>4. Alike(b, s) /\ s.pend = b.pend
  BY Zenon DEF Handed, Holds, Alike, SameTurns
<1>5. Core(s, ln, fr) /\ Lonely(s)
  BY <1>1, <1>4, AlikeCore, Zenon
<1>6. PICK p : p = Owner(fr[1])
  OBVIOUS
<1>8. s.buf = b.buf \/ s.buf = Append(b.buf, p)
  BY <1>6, Zenon DEF Handed, Holds
<1>9. Len(b.buf) \in Nat /\ (Len(s.buf) = Len(b.buf) \/ Len(s.buf) = Len(b.buf) + 1)
  BY <1>8, BufType, LongerBuf
<1>10. \A k \in 1..Len(b.buf) : b.buf[k] = Radio
  BY <1>1, Zenon DEF Parts
<1>11. \A k \in 1..Len(s.buf) : s.buf[k] = Radio \/ s.buf[k] = p
  <2>1. CASE s.buf = b.buf
    BY <1>10, <2>1, Zenon
  <2>2. CASE s.buf = Append(b.buf, p)
    <3>1. \A k \in 1..Len(s.buf) : (k \in 1..Len(b.buf) /\ s.buf[k] = b.buf[k]) \/ s.buf[k] = p
      BY <2>2, LongerBuf
    <3> QED BY <1>10, <3>1, Zenon
  <2> QED BY <1>8, <2>1, <2>2
<1>12. (~s.routing => s.buf = <<>>) /\ s.half
  BY <1>1, Zenon DEF Parts, Handed, Holds, Alike
<1>13. Parts(s, fr, TRUE)
  BY <1>6, <1>11, <1>12, Zenon DEF Parts
<1>14. Buffered(s, fr, TRUE, m)
  <2>1. PICK n, nr : Counts(b, fr, bg, m, n, nr)
    BY <1>1 DEF Buffered
  <2>2. Len(b.buf) <= n + 0 /\ n \in Nat
    BY <2>1 DEF Counts
  <2>3. Len(s.buf) <= n + (IF TRUE THEN 1 ELSE 0)
    BY <1>9, <2>2
  <2>4. Counts(s, fr, TRUE, m, n, nr)
    BY <2>1, <2>3, Zenon DEF Counts
  <2> QED BY <2>4 DEF Buffered
<1> QED BY <1>3, <1>5, <1>13, <1>14 DEF Good, Routes
-----------------------------------------------------------------------------
(* A frame is complete. *)

\* The command e the frame belongs to is pending; what comes later belongs to commands
\* behind it.
HeadOf(s, fr, ln, er, el, e) ==
  /\ e \in Candidates(s, fr[1]) /\ e \in 1..Len(s.pend) /\ s.pend[e].src = fr[1].src
  /\ \A j \in Answers(Tail(fr)) : fr[1].what = "answer" \/ j > 1 => e < er[j + 1]
  /\ \A j \in Sent(ln) : e < el[j]

LEMMA HeadCandidate ==
  ASSUME NEW s, NEW ln, NEW fr \in Seq(Frame), fr # <<>>, NEW er, NEW el,
         s.pend \in Seq(Pending), Tracks(s, ln, fr, er, el), Entries(s), Frames(fr),
         fr[1].what \in {"echo", "answer"}
  PROVE  \E e : HeadOf(s, fr, ln, er, el, e)
<1>1. PICK n \in Nat \ {0} : n = Len(fr)
  BY FrameHead, Zenon
<1>2. PICK f \in Frame : f = fr[1]
  BY FrameHead, Zenon
<1> DEFINE h == IF f.what = "answer" THEN 1 ELSE 2
<1>3. h \in 1..n /\ fr[h].what = "answer" /\ fr[h].src = f.src /\ fr[h].kind = f.kind
  <2>1. 1 \in 1..n /\ (1 + 1) = 2
    OBVIOUS
  <2>2. f.what = "echo" => /\ 2 \in 1..n /\ fr[2].what = "answer"
                           /\ fr[2].src = f.src /\ fr[2].kind = f.kind
    BY <1>1, <1>2, <2>1 DEF Frames
  <2> QED BY <1>1, <1>2, <2>1, <2>2
<1>4. h \in Answers(fr)
  BY <1>1, <1>3 DEF Answers
<1>5. PICK e \in 1..Len(s.pend) : e = er[h]
  BY <1>4 DEF Tracks
<1>6. Awaited(s, fr[h], e) /\ (h > 1 /\ fr[h - 1].what = "echo" => ~s.pend[e].echoed)
  BY <1>4, <1>5 DEF Tracks, AnswersMatch
<1>7. s.pend[e].src = f.src /\ s.pend[e].kind = f.kind
  BY <1>3, <1>6 DEF Awaited
<1>8. s.pend[e].host
  BY DEF Entries, EntryOk
<1>9. f.what = "echo" => ~s.pend[e].echoed
  BY <1>2, <1>6
<1>10. e \in Candidates(s, f)
  BY <1>2, <1>7, <1>8, <1>9 DEF Candidates
<1>11. \A j \in Answers(Tail(fr)) : j \in Nat \ {0} /\ j + 1 \in Answers(fr)
  BY <1>1, FrameHead DEF Answers
<1>12. \A j \in Answers(Tail(fr)) : f.what = "answer" \/ j > 1 => e < er[j + 1]
  <2> SUFFICES ASSUME NEW j \in Answers(Tail(fr)), f.what = "answer" \/ j > 1
               PROVE  e < er[j + 1]
    OBVIOUS
  <2>1. h < j + 1
    BY <1>11
  <2> QED BY <1>4, <1>5, <1>11, <2>1 DEF Tracks, Increasing
<1>13. \A j \in Sent(ln) : e < el[j]
  BY <1>4, <1>5 DEF Tracks, Before
<1> QED BY <1>2, <1>7, <1>10, <1>12, <1>13 DEF HeadOf

\* Candidates before e are of the same sender, or of one nobody can tell from it.
LEMMA SameCandidate ==
  ASSUME NEW s, s.pend \in Seq(Pending), NEW f \in Frame, f.src \in Source, Entries(s),
         NEW i \in Candidates(s, f), NEW e \in 1..Len(s.pend), s.pend[e].src = f.src
  PROVE  /\ i \in 1..Len(s.pend) /\ s.pend[i] \in Pending
         /\ s.pend[i].own <=> f.src = Own
         /\ f.src \in App => s.pend[i].src \in App
<1>1. /\ i \in 1..Len(s.pend) /\ (s.pend[i].src = Own) = (f.src = Own)
  BY DEF Candidates
<1>2. s.pend[i] \in Pending
  BY <1>1
<1>3. s.pend[i].own <=> s.pend[i].src = Own
  BY <1>1 DEF Entries, EntryOk
<1>4. f.src \in App => f.src # Own
  BY SourceFacts
<1>5. s.pend[i].src \in Source
  BY <1>2 DEF Pending
<1> QED BY <1>1, <1>2, <1>3, <1>4, <1>5 DEF Source

\* The frame goes where its command, found among the candidates, says.
DestFor(s, f, d) ==
  \E i \in Candidates(s, f), e \in 1..Len(s.pend) : \E kind :
    s.pend[e].src = f.src /\ d = FrameDest(s, s.pend[i].client, kind)

\* Only the application that asked gets the frame.
LEMMA DestFacts ==
  ASSUME NEW s \in Work, NEW f \in Frame, f.src \in App, Entries(s), Turns(s), online,
         Connectors, NEW d, DestFor(s, f, d)
  PROVE  /\ Receivers(d) \subseteq {f.src} /\ d # Drop
         /\ f.src \in Connected => f.src \in Receivers(d)
<1> PICK i \in Candidates(s, f), e \in 1..Len(s.pend) : \E kind :
      s.pend[e].src = f.src /\ d = FrameDest(s, s.pend[i].client, kind)
  BY DEF DestFor
<1> PICK kind : s.pend[e].src = f.src /\ d = FrameDest(s, s.pend[i].client, kind)
  OBVIOUS
<1>1. s.pend \in Seq(Pending)
  BY DEF Work
<1>2. i \in 1..Len(s.pend) /\ s.pend[i].src \in App
  BY <1>1, SameCandidate DEF Source
<1>3. PICK p : p = s.pend[i]
  OBVIOUS
<1>4. d = FrameDest(s, p.client, kind)
  BY <1>3
<1>5. /\ p.client # 0 /\ s.slots[p.client] # None
      /\ \A x \in Connected : fdOf[x] = s.slots[p.client] <=> x = p.src
  BY <1>2, <1>3, ZenonT(40) DEF Entries, EntryOk
<1>6. d = s.slots[p.client]
  BY <1>4, <1>5 DEF FrameDest
<1>7. d \in Nat \ {0}
  <2>1. p.client \in Client
    <3>1. p \in Pending
      BY <1>1, <1>2, <1>3
    <3>2. p.client \in Client \cup {0}
      BY <3>1 DEF Pending
    <3> QED BY <1>5, <3>2
  <2>2. d \in Fd
    BY <1>5, <1>6, <2>1 DEF Work
  <2> QED BY <2>2, CatAssumption
<1>8. d # All /\ d # Unsolicited /\ d # Drop
  BY <1>7 DEF All, Unsolicited, Drop
<1>9. Receivers(d) = {x \in Connected : fdOf[x] = d}
  BY <1>8 DEF Receivers
<1>10. Receivers(d) = {x \in Connected : x = p.src}
  BY <1>5, <1>6, <1>9
<1>11. p.src = f.src \/ (Connected \subseteq {p.src} /\ Connected \subseteq {f.src})
  <2>1. s.pend[e].src \in App
    OBVIOUS
  <2>2. CASE s.turn # None
    <3>1. p.client = s.client /\ s.pend[e].client = s.client
      BY <1>2, <1>3, <2>1, <2>2, Zenon DEF Turns
    <3>2. SameSender(p, s.pend[e])
      BY <1>2, <1>3, Zenon DEF Entries
    <3> QED BY <1>2, <1>3, <2>1, <3>1, <3>2 DEF SameSender
  <2>3. CASE s.turn = None
    BY <1>2, <1>3, <2>1, <2>3, Zenon DEF Turns
  <2> QED BY <2>2, <2>3
<1>12. Receivers(d) \subseteq {f.src} /\ (f.src \in Connected => f.src \in Receivers(d))
  BY <1>10, <1>11
<1> QED BY <1>8, <1>12
LEMMA EchoCore ==
  ASSUME NEW s \in Work, NEW t \in Work, SameTurns(s, t), t.decoder = s.decoder, t.own = s.own,
         t.multi = s.multi, t.routing = s.routing,
         NEW i \in 1..Len(s.pend), Echoes(s.pend, t.pend, i),
         NEW ln \in Seq(Command), NEW fr \in Seq(Frame), fr # <<>>, Core(s, ln, fr),
         NEW er, NEW el, NEW e, Tracks(s, ln, fr, er, el), HeadOf(s, fr, ln, er, el, e), i <= e
  PROVE  Core(t, ln, Tail(fr)) /\ (Lonely(s) => Lonely(t))
<1>1. /\ Slots(s) /\ Idle(s) /\ Entries(s) /\ Turns(s) /\ OwnOnly(s) /\ Bound(s)
  BY DEF Core, Waiting
<1>2. PICK N \in Nat : Len(s.pend) = N /\ Len(t.pend) = N
  BY DEF Work, Echoes
<1>3. \A k \in 1..N :
        /\ t.pend[k].own = s.pend[k].own /\ t.pend[k].kind = s.pend[k].kind
        /\ t.pend[k].client = s.pend[k].client
        /\ t.pend[k].host = s.pend[k].host /\ t.pend[k].src = s.pend[k].src
        /\ k # i => t.pend[k].echoed = s.pend[k].echoed
  BY <1>2 DEF Echoes
<1>4. t.turn = s.turn /\ t.client = s.client /\ t.fresh = s.fresh /\ t.slots = s.slots
  BY DEF SameTurns
<1>5. Slots(t)
  BY <1>1, TurnSlots
<1>6. Idle(t)
  <2>1. s.pend = <<>> => N = 0
    BY <1>2
  <2>2. N # 0
    BY <1>2
  <2> QED BY <1>1, <1>4, <2>1, <2>2, Zenon DEF Idle
<1>7. Entries(t)
  <2>1. ASSUME NEW k \in 1..N
        PROVE  EntryOk(t, k)
    <3>1. EntryOk(s, k)
      BY <1>1, <1>2 DEF Entries
    <3>2. /\ t.pend[k].own = s.pend[k].own
          /\ t.pend[k].client = s.pend[k].client
          /\ t.pend[k].host = s.pend[k].host /\ t.pend[k].src = s.pend[k].src
      BY <1>3
    <3> QED BY <1>4, <3>1, <3>2, Zenon DEF EntryOk
  <2>2. ASSUME NEW k \in 1..N, NEW j \in 1..N
        PROVE  SameSender(t.pend[k], t.pend[j])
    <3>1. SameSender(s.pend[k], s.pend[j])
      BY <1>1, <1>2 DEF Entries
    <3>2. /\ t.pend[k].client = s.pend[k].client /\ t.pend[k].src = s.pend[k].src
          /\ t.pend[j].client = s.pend[j].client /\ t.pend[j].src = s.pend[j].src
      BY <1>3
    <3> QED BY <3>1, <3>2, Zenon DEF SameSender
  <2> QED BY <1>2, <2>1, <2>2 DEF Entries
<1>8. Turns(t)
  BY <1>1, <1>2, <1>3, <1>4 DEF Turns
<1>9. OwnOnly(t)
  BY <1>1, <1>2, <1>3, Zenon DEF OwnOnly
<1>10. Bound(t)
  <2>1. \A x : PendOf(t.pend, x) = PendOf(s.pend, x)
    BY <1>2, <1>3 DEF PendOf
  <2> QED BY <1>1, <2>1, Zenon DEF Bound
<1>11. Lonely(s) => Lonely(t)
  <2>1. ASSUME Lonely(s), NEW k \in 1..Len(t.pend)
        PROVE  /\ t.pend[k].src \in App /\ online =>
                    /\ ~t.multi => Len(prods) <= 1
                    /\ ~t.routing => Connected \subseteq {t.pend[k].src}
               /\ t.pend[k].own => t.routing
    <3>1. t.pend[k].own = s.pend[k].own /\ t.pend[k].src = s.pend[k].src /\ k \in 1..Len(s.pend)
      BY <1>2, <1>3, <2>1
    <3> QED BY <2>1, <3>1, Zenon DEF Lonely
  <2> QED BY <2>1, Zenon DEF Lonely
<1>12. Tracked(t, ln, Tail(fr))
  <2>1. PICK e2 : /\ Tracks(s, ln, Tail(fr), e2, el)
                  /\ \A j \in Answers(Tail(fr)) : j + 1 \in Answers(fr) /\ e2[j] = er[j + 1]
    BY TailTracks
  <2>2. /\ e \in 1..N
        /\ \A j \in Answers(Tail(fr)) : j > 1 => e < e2[j]
        /\ \A j \in Sent(ln) : e < el[j]
    BY <1>2, <2>1 DEF HeadOf
  <2>3. /\ e2 \in [Answers(Tail(fr)) -> 1..N] /\ el \in [Sent(ln) -> 1..N]
        /\ Increasing(Answers(Tail(fr)), e2) /\ Increasing(Sent(ln), el)
        /\ Before(Answers(Tail(fr)), e2, Sent(ln), el)
        /\ AnswersMatch(s, Tail(fr), e2) /\ SentMatch(s, ln, el)
    BY <1>2, <2>1 DEF Tracks
  <2>4. ASSUME NEW x, NEW k \in 1..N, Awaited(s, x, k)
        PROVE  Awaited(t, x, k)
    <3>1. t.pend[k].kind = s.pend[k].kind /\ t.pend[k].client = s.pend[k].client
          /\ t.pend[k].src = s.pend[k].src
      BY <1>3
    <3> QED BY <1>4, <2>4, <3>1, Zenon DEF Awaited
  <2>5. AnswersMatch(t, Tail(fr), e2)
    <3> SUFFICES ASSUME NEW j \in Answers(Tail(fr))
                 PROVE  /\ Awaited(t, Tail(fr)[j], e2[j])
                        /\ j > 1 /\ Tail(fr)[j - 1].what = "echo" => ~t.pend[e2[j]].echoed
      BY DEF AnswersMatch
    <3>1. e2[j] \in 1..N
      BY <2>3
    <3>2. Awaited(t, Tail(fr)[j], e2[j])
      BY <2>3, <2>4, <3>1 DEF AnswersMatch
    <3>3. j > 1 => e2[j] # i
      BY <1>2, <2>2, <3>1
    <3>4. j > 1 => t.pend[e2[j]].echoed = s.pend[e2[j]].echoed
      BY <1>3, <3>1, <3>3
    <3>5. j > 1 /\ Tail(fr)[j - 1].what = "echo" => ~s.pend[e2[j]].echoed
      BY <2>3 DEF AnswersMatch
    <3> QED BY <3>2, <3>4, <3>5
  <2>6. SentMatch(t, ln, el)
    <3> SUFFICES ASSUME NEW j \in Sent(ln)
                 PROVE  Awaited(t, ln[j], el[j]) /\ ~t.pend[el[j]].echoed
      BY DEF SentMatch
    <3>1. el[j] \in 1..N
      BY <2>3
    <3>2. Awaited(t, ln[j], el[j]) /\ ~s.pend[el[j]].echoed
      BY <2>3, <2>4, <3>1 DEF SentMatch
    <3>3. el[j] # i
      BY <1>2, <2>2, <3>1
    <3>4. t.pend[el[j]].echoed = s.pend[el[j]].echoed
      BY <1>3, <3>1, <3>3
    <3> QED BY <3>2, <3>4
  <2> QED BY <1>2, <2>3, <2>5, <2>6, Zenon DEF Tracked, Tracks
<1> QED BY <1>5, <1>6, <1>7, <1>8, <1>9, <1>10, <1>11, <1>12 DEF Core, Waiting

LEMMA AnswerCore ==
  ASSUME NEW s \in Work, NEW t \in Work, SameTurns(s, t), t.decoder = s.decoder, t.own => s.own,
         t.multi = s.multi, t.routing = s.routing,
         NEW i \in 1..Len(s.pend), Thins(s.pend, t.pend, After(s.pend, i)),
         Connectors, prods \in Seq(App),
         NEW ln \in Seq(Command), NEW fr \in Seq(Frame), fr # <<>>, Core(s, ln, fr),
         fr[1].what = "answer",
         NEW er, NEW el, NEW e, Tracks(s, ln, fr, er, el), HeadOf(s, fr, ln, er, el, e), i <= e
  PROVE  Core(t, ln, Tail(fr)) /\ (Lonely(s) => Lonely(t))
<1>1. PICK K : K = After(s.pend, i)
  OBVIOUS
<1>2. PICK pos : Moves(pos, K, s.pend, t.pend)
  BY <1>1 DEF Thins
<1>3. t.turn = s.turn /\ t.client = s.client /\ t.fresh = s.fresh /\ t.slots = s.slots
  BY DEF SameTurns
<1>4. Evolves(s, t, pos, K)
  BY <1>2, <1>3, Zenon DEF Evolves
<1>5. /\ Slots(s) /\ Idle(s) /\ Entries(s) /\ Turns(s) /\ OwnOnly(s) /\ Bound(s)
  BY DEF Core, Waiting
<1>6. Entries(t) /\ Turns(t) /\ OwnOnly(t) /\ Bound(t)
  <2>1. Entries(t) /\ OwnOnly(t)
    BY <1>4, <1>5, MovedEntries, MovedOwnOnly, Zenon
  <2>2. Turns(t)
    BY <1>4, <1>5, MovedTurns, Zenon
  <2>3. Bound(t)
    BY <1>4, <1>5, MovedBound, Zenon
  <2> QED BY <2>1, <2>2, <2>3
<1>7. Slots(t)
  BY <1>5, TurnSlots
<1>8. Idle(t)
  <2>1. s.pend # <<>>
    BY DEF Work
  <2> QED BY <1>3, <1>5, <2>1, Zenon DEF Idle
<1>9. Tracked(t, ln, Tail(fr))
  <2>1. PICK e2 : /\ Tracks(s, ln, Tail(fr), e2, el)
                  /\ \A j \in Answers(Tail(fr)) : j + 1 \in Answers(fr) /\ e2[j] = er[j + 1]
    BY TailTracks, SMTT(40)
  <2>2. /\ e \in 1..Len(s.pend) /\ Len(s.pend) \in Nat
        /\ \A j \in Answers(Tail(fr)) : e < e2[j]
        /\ \A j \in Sent(ln) : e < el[j]
    <3>1. Len(s.pend) \in Nat
      BY DEF Work
    <3>2. \A j \in Answers(Tail(fr)) : e < er[j + 1]
      BY DEF HeadOf
    <3> QED BY <2>1, <3>1, <3>2 DEF HeadOf
  <2>3. /\ e2 \in [Answers(Tail(fr)) -> 1..Len(s.pend)] /\ el \in [Sent(ln) -> 1..Len(s.pend)]
    BY <2>1 DEF Tracks
  <2>4. \A k \in 1..Len(s.pend) : e < k => k \in K
    BY <1>1, <2>2 DEF After
  <2>5. (\A j \in Answers(Tail(fr)) : e2[j] \in K) /\ (\A j \in Sent(ln) : el[j] \in K)
    BY <2>2, <2>3, <2>4
  <2>6. Tail(fr) \in Seq(Frame)
    BY FrameHead
  <2> QED BY <1>4, <2>1, <2>5, <2>6, MovedTracks
<1>10. Lonely(s) => Lonely(t)
  <2>1. CameFrom(s, t, pos, K)
    BY <1>4, MovedFrom
  <2>2. ASSUME Lonely(s), NEW n \in 1..Len(t.pend)
        PROVE  /\ t.pend[n].src \in App /\ online =>
                    /\ ~t.multi => Len(prods) <= 1
                    /\ ~t.routing => Connected \subseteq {t.pend[n].src}
               /\ t.pend[n].own => t.routing
    <3>1. PICK k \in 1..Len(s.pend) : t.pend[n] = s.pend[k]
      BY <2>1, <2>2 DEF CameFrom
    <3> QED BY <2>2, <3>1, Zenon DEF Lonely
  <2> QED BY <2>2, Zenon DEF Lonely
<1> QED BY <1>6, <1>7, <1>8, <1>9, <1>10 DEF Core, Waiting
\* The one the frame is for, and what becomes of the commands.
Delivers(s, t, f) ==
  /\ Processes(s, t)
  /\ f.src = Own => t.dest = Drop
  /\ f.src \in App => /\ Receivers(t.dest) \subseteq {f.src} /\ t.dest # Drop
                      /\ f.src \in Connected => f.src \in Receivers(t.dest)

LEMMA ProcessedCore ==
  ASSUME NEW s \in Work, NEW ln \in Seq(Command), NEW fr \in Seq(Frame), fr # <<>>,
         Core(s, ln, fr), Lonely(s), Frames(fr), online, s.decoder, Connectors, prods \in Seq(App),
         fdOf \in [App -> Fd \cup {None, Gone}],
         NEW f \in Frame, f = fr[1], f.what # "noise", NEW t, t = process_radio_frame(s, f)
  PROVE  Delivers(s, t, f) /\ Core(t, ln, Tail(fr)) /\ Lonely(t)
<1>1. /\ Entries(s) /\ Turns(s) /\ Slots(s)
  BY DEF Core, Waiting
<1>2. s.pend \in Seq(Pending)
  BY DEF Work
<1>3. 1 \in 1..Len(fr) /\ f.what \in {"echo", "answer", "trx", "noise"}
      /\ f.src \in Source \cup {Radio}
  <2>1. 1 \in 1..Len(fr)
    BY FrameHead
  <2> QED BY <2>1 DEF Frame
<1>4. f.what \in {"trx", "noise"} <=> f.src = Radio
  BY <1>3 DEF Frames
<1>5. f.what # "trx" => f.src \in Source
  BY <1>3, <1>4
<1> DEFINE i == Least(Candidates(s, f))
<1>6. /\ Processes(s, t)
      /\ f.what = "trx" => /\ t.pend = s.pend /\ t.own = s.own /\ t.dest = Unsolicited
                           /\ t.answered = FALSE
      /\ Candidates(s, f) # {} =>
           /\ i \in Candidates(s, f) /\ \A k \in Candidates(s, f) : i <= k
           /\ f.what = "echo" => TakesEcho(s, t, i)
           /\ f.what = "answer" => TakesAnswer(s, t, i)
  BY <1>5, ProcessFacts
<1> HIDE DEF i
<1>7. /\ t \in Work /\ SameTurns(s, t) /\ SameRoute(s, t)
      /\ t.decoder = s.decoder /\ t.half = s.half /\ t.tx = s.tx
      /\ t.multi = s.multi /\ t.routing = s.routing
  BY <1>6 DEF Processes, SameRoute
<1>8. CASE f.what = "trx"
  <2>1. Alike(s, t) /\ t.pend = s.pend
    BY <1>6, <1>7, <1>8 DEF Alike
  <2>2. Core(t, ln, Tail(fr)) /\ Lonely(t)
    BY <2>1, AlikeCore, TailCore
  <2>3. f.src # Own /\ f.src \notin App
    BY <1>4, <1>8, SourceFacts
  <2> QED BY <1>6, <2>2, <2>3 DEF Delivers
<1>9. CASE f.what # "trx"
  <2>1. f.what \in {"echo", "answer"} /\ f.src \in Source
    BY <1>3, <1>5, <1>9
  <2>2. PICK er, el : Tracks(s, ln, fr, er, el)
    BY Zenon DEF Core, Waiting, Tracked
  <2>3. PICK e : HeadOf(s, fr, ln, er, el, e)
    BY <1>1, <1>2, <2>1, <2>2, HeadCandidate
  <2>4. e \in Candidates(s, f) /\ e \in 1..Len(s.pend) /\ s.pend[e].src = f.src
    BY <2>3 DEF HeadOf
  <2>5. /\ i \in Candidates(s, f) /\ i <= e
        /\ f.what = "echo" => TakesEcho(s, t, i)
        /\ f.what = "answer" => TakesAnswer(s, t, i)
    BY <1>6, <2>4
  <2>6. /\ i \in 1..Len(s.pend)
        /\ s.pend[i].own <=> f.src = Own
        /\ f.src \in App => s.pend[i].src \in App
    BY <1>1, <1>2, <2>1, <2>4, <2>5, SameCandidate
  <2>7. t.own => s.own
    BY <1>6, Zenon DEF Processes
  <2>8. Core(t, ln, Tail(fr)) /\ Lonely(t)
    <3>1. CASE f.what = "echo"
      <4>1. Echoes(s.pend, t.pend, i) /\ t.own = s.own
        BY <2>5, <3>1 DEF TakesEcho
      <4> QED BY <1>7, <2>2, <2>3, <2>5, <2>6, <4>1, EchoCore
    <3>2. CASE f.what = "answer"
      <4>1. Thins(s.pend, t.pend, After(s.pend, i))
        BY <2>5, <3>2 DEF TakesAnswer
      <4> QED BY <1>7, <2>2, <2>3, <2>5, <2>6, <2>7, <3>2, <4>1, AnswerCore
    <3> QED BY <2>1, <3>1, <3>2
  <2>9. f.src = Own => t.dest = Drop
    BY <2>1, <2>5, <2>6 DEF TakesEcho, TakesAnswer
  <2>10. ASSUME f.src \in App
         PROVE  /\ Receivers(t.dest) \subseteq {f.src} /\ t.dest # Drop
                /\ f.src \in Connected => f.src \in Receivers(t.dest)
    <3>1. ~s.pend[i].own
      BY <2>6, <2>10, SourceFacts
    <3>2. PICK kind : t.dest = FrameDest(s, s.pend[i].client, kind)
      BY <2>1, <2>5, <3>1 DEF TakesEcho, TakesAnswer
    <3>3. DestFor(s, f, t.dest)
      BY <2>4, <2>5, <3>2 DEF DestFor
    <3> QED BY <1>1, <2>10, <3>3, DestFacts, Zenon
  <2> QED BY <1>6, <2>8, <2>9, <2>10 DEF Delivers
<1> QED BY <1>8, <1>9

\* The answer of frame f has reached its sender.
Arrives(s, f) == \E p \in Emitted(s) : p.src = Owner(f) /\ f.src \in p.to

LEMMA ToElement ==
  ASSUME NEW parts, NEW A, NEW k \in 1..Len(parts)
  PROVE  [src |-> parts[k], to |-> A] \in To(parts, A)
BY DEF To

LEMMA CompleteRead ==
  ASSUME NEW b \in Work, NEW x, NEW y, NEW t, NEW s, NEW f \in Frame,
         NEW ln \in Seq(Command), NEW fr \in Seq(Frame), NEW bg, NEW m \in Nat,
         Good(b, ln, fr, bg, m), Steady(b, fr), fr # <<>>, online, prods \in Seq(App),
         fdOf \in [App -> Fd \cup {None, Gone}], bg,
         f = fr[1], f.what # "noise", Handed(b, x, f), HalfIs(x, y, FALSE),
         t = process_radio_frame(y, f),
         b.routing => Flushes(t, s, t.dest), ~b.routing => s = t
  PROVE  /\ Good(s, ln, Tail(fr), FALSE, m) /\ s.buf = <<>>
         /\ f.what = "answer" /\ f.src \in Connected => Arrives(s, f)
<1>1. Core(b, ln, fr) /\ Lonely(b) /\ Parts(b, fr, bg) /\ Buffered(b, fr, bg, m) /\ Clean(b)
      /\ Frames(fr) /\ Connectors /\ b.decoder
  BY DEF Good, Routes, Steady
<1>2. Alike(b, y) /\ y.pend = b.pend /\ y.buf = x.buf /\ y.out = x.out
  BY Zenon DEF Handed, HalfIs, Alike, SameTurns, SameOwn, SameRoute
<1>3. y \in Work /\ y.decoder = b.decoder /\ y.routing = b.routing
  BY <1>2 DEF Alike
<1>4. Core(y, ln, fr) /\ Lonely(y)
  BY <1>1, <1>2, AlikeCore, Zenon
<1>5. Delivers(y, t, f) /\ Core(t, ln, Tail(fr)) /\ Lonely(t)
  BY <1>1, <1>3, <1>4, ProcessedCore
<1>6. /\ t \in Work /\ t.buf = x.buf /\ t.out = x.out /\ t.routing = b.routing
      /\ t.multi = y.multi
  BY <1>2, <1>3, <1>5 DEF Delivers, Processes, SameRoute
<1>7. Emitted(t) = Emitted(x)
  BY <1>6 DEF Emitted
<1>8. Clean(t)
  <2>1. Clean(x)
    BY <1>1, HandedClean
  <2> QED BY <1>7, <2>1, Zenon DEF Clean
<1>9. f.src \in App => Owner(f) \in {Radio, f.src}
  BY DEF Owner
<1>10. Tail(fr) \in Seq(Frame)
  BY FrameHead
<1>11. CASE b.routing
  <2>1. Flushes(t, s, t.dest)
    BY <1>11
  <2>2. PICK p : p = Owner(f)
    OBVIOUS
  <2>3. t.buf = Append(b.buf, p)
    BY <1>6, <1>11, <2>2 DEF Handed
  <2>4. /\ Len(t.buf) = Len(b.buf) + 1 /\ Len(b.buf) \in Nat
        /\ \A k \in 1..Len(t.buf) : t.buf[k] = Radio \/ t.buf[k] = p
    <3>1. \A k \in 1..Len(b.buf) : b.buf[k] = Radio \/ b.buf[k] = p
      BY <1>1, <2>2, Zenon DEF Parts
    <3>2. \A k \in 1..Len(t.buf) : (k \in 1..Len(b.buf) /\ t.buf[k] = b.buf[k]) \/ t.buf[k] = p
      BY <2>3, LongerBuf
    <3>3. Len(t.buf) = Len(b.buf) + 1 /\ Len(b.buf) \in Nat
      BY <2>3, LongerBuf, BufType
    <3> QED BY <3>1, <3>2, <3>3, Zenon
  <2>5. p = Own => t.dest = Drop
    BY <1>5, <2>2, SourceFacts DEF Delivers, Owner
  <2>6. p \in App => Receivers(t.dest) \subseteq {p}
    BY <1>5, <2>2, SourceFacts DEF Delivers, Owner
  <2>7. t.dest = Drop \/ Harmless(t.buf, Receivers(t.dest))
    BY <2>4, <2>5, <2>6, SourceFacts DEF Harmless
  <2>8. /\ s \in Work /\ SameButRoute(t, s) /\ s.buf = <<>> /\ s.multi = t.multi
        /\ s.routing = t.routing
        /\ t.dest = Drop => Emitted(s) = Emitted(t)
        /\ t.dest # Drop => Emitted(s) = Emitted(t) \cup To(t.buf, Receivers(t.dest))
    BY <2>1 DEF Flushes
  <2>9. Clean(s)
    <3>1. CASE t.dest = Drop
      BY <1>8, <2>8, <3>1, Zenon DEF Clean
    <3>2. CASE t.dest # Drop
      <4>1. Harmless(t.buf, Receivers(t.dest))
        BY <2>7, <3>2
      <4> QED BY <1>8, <2>8, <3>2, <4>1, HarmlessClean, Zenon
    <3> QED BY <3>1, <3>2
  <2>10. Alike(t, s) /\ s.pend = t.pend
    BY <2>8, Zenon DEF Alike, SameButRoute, SamePend, SameOwn
  <2>11. Core(s, ln, Tail(fr)) /\ Lonely(s)
    BY <1>1, <1>5, <1>6, <1>10, <2>10, AlikeCore, Zenon
  <2>12. Len(s.buf) = 0
    BY <2>8
  <2>13. Parts(s, Tail(fr), FALSE)
    BY <2>8, <2>12 DEF Parts
  <2>14. Buffered(s, Tail(fr), FALSE, m)
    BY <1>1, <2>8, TailBuffered
  <2>15. ASSUME f.what = "answer", f.src \in Connected
         PROVE  Arrives(s, f)
    <3>1. f.src \in App
      BY <2>15, ReceiversFacts
    <3>2. t.dest # Drop /\ f.src \in Receivers(t.dest)
      BY <1>5, <2>15, <3>1 DEF Delivers
    <3>3. Len(t.buf) \in 1..Len(t.buf) /\ t.buf[Len(t.buf)] = p
      <4>1. Len(t.buf) \in 1..Len(t.buf)
        BY <2>4
      <4>2. PICK q \in Seq(Source \cup {Radio}) : q = b.buf
        BY BufType, Zenon
      <4>3. Append(q, p)[Len(q) + 1] = p
        OBVIOUS
      <4> QED BY <2>3, <2>4, <4>1, <4>2, <4>3
    <3>4. PICK z : z \in To(t.buf, Receivers(t.dest)) /\ z.src = p /\ z.to = Receivers(t.dest)
      <4> DEFINE z == [src |-> t.buf[Len(t.buf)], to |-> Receivers(t.dest)]
      <4>1. z \in To(t.buf, Receivers(t.dest))
        BY <3>3, ToElement, Zenon
      <4>2. z.src = p /\ z.to = Receivers(t.dest)
        BY <3>3
      <4> QED BY <4>1, <4>2, Zenon
    <3>5. z \in Emitted(s)
      BY <2>8, <3>2, <3>4
    <3> QED BY <2>2, <3>2, <3>4, <3>5 DEF Arrives
  <2> QED BY <2>8, <2>9, <2>11, <2>13, <2>14, <2>15 DEF Good, Routes
<1>12. CASE ~b.routing
  <2>1. s = t /\ s.buf = <<>>
    BY <1>1, <1>6, <1>12 DEF Handed, Parts
  <2>2. Len(s.buf) = 0
    BY <2>1
  <2>3. Parts(s, Tail(fr), FALSE)
    BY <2>1, <2>2 DEF Parts
  <2>4. Buffered(s, Tail(fr), FALSE, m)
    BY <1>1, <2>1, TailBuffered
  <2>5. ASSUME f.what = "answer", f.src \in Connected
        PROVE  Arrives(s, f)
    <3>1. Emitted(s) = Emitted(b) \cup To(<<Owner(f)>>, Connected)
      BY <1>7, <1>12, <2>1 DEF Handed
    <3>2. PICK q : q = <<Owner(f)>>
      OBVIOUS
    <3>3. 1 \in 1..Len(q) /\ q[1] = Owner(f)
      BY <3>2
    <3>4. [src |-> q[1], to |-> Connected] \in To(q, Connected)
      BY <3>3, ToElement, Zenon
    <3>5. PICK z : z \in To(<<Owner(f)>>, Connected) /\ z.src = Owner(f) /\ z.to = Connected
      BY <3>2, <3>3, <3>4
    <3> QED BY <2>5, <3>1, <3>5 DEF Arrives
  <2> QED BY <1>5, <1>8, <2>1, <2>3, <2>4, <2>5 DEF Good, Routes
<1> QED BY <1>11, <1>12
LEMMA PassedHanded ==
  ASSUME NEW b \in Work, ~b.routing, prods \in Seq(App), NEW f, Owner(f) \in Source \cup {Radio}
  PROVE  Handed(b, pass_out(b, <<Owner(f)>>, All), f)
<1>1. PICK q \in Seq(Source \cup {Radio}) : q = <<Owner(f)>>
  <2>1. <<Owner(f)>> \in Seq(Source \cup {Radio})
    OBVIOUS
  <2> QED BY <2>1, Zenon
<1>2. PICK x : x = pass_out(b, q, All)
  OBVIOUS
<1>3. PassesOut(b, x, q, Receivers(All))
  BY <1>2, PassOutFacts
<1>4. Receivers(All) = Connected
  <2>1. All # Unsolicited
    BY DEF All, Unsolicited
  <2> QED BY <2>1 DEF Receivers
<1>5. x \in Work /\ SameButRoute(b, x) /\ x.multi = b.multi /\ x.routing = b.routing
      /\ x.buf = b.buf /\ Emitted(x) = Emitted(b) \cup To(q, Connected)
  BY <1>3, <1>4, Zenon DEF PassesOut
<1>6. Alike(b, x) /\ x.pend = b.pend /\ x.half = b.half /\ SameByte(b, x)
  BY <1>5, Zenon DEF Alike, SameButRoute, SamePend, SameOwn
<1>7. Handed(b, x, f)
  BY <1>1, <1>5, <1>6, Zenon DEF Handed
<1> QED BY <1>1, <1>2, <1>7

LEMMA BufferHanded ==
  ASSUME NEW b \in Work, b.routing, NEW f, Owner(f) \in Source \cup {Radio}
  PROVE  Handed(b, [b EXCEPT !.buf = Append(@, Owner(f))], f)
<1>1. PICK p \in Source \cup {Radio} : p = Owner(f)
  OBVIOUS
<1>2. PICK x : x = [b EXCEPT !.buf = Append(@, p)]
  OBVIOUS
<1>3. AddsPart(b, x, p)
  BY <1>2, AddPartFacts
<1>4. x \in Work /\ SameButRoute(b, x) /\ x.multi = b.multi /\ x.routing = b.routing
      /\ x.buf = Append(b.buf, p) /\ x.out = b.out
  BY <1>3, Zenon DEF AddsPart
<1>5. Alike(b, x) /\ x.pend = b.pend /\ x.half = b.half /\ SameByte(b, x)
  BY <1>4, Zenon DEF Alike, SameButRoute, SamePend, SameOwn
<1>6. Emitted(x) = Emitted(b)
  BY <1>4 DEF Emitted
<1>7. Handed(b, x, f)
  BY <1>1, <1>4, <1>5, <1>6, Zenon DEF Handed
<1> QED BY <1>1, <1>2, <1>7

\* From the part handed on, x, by the decoder, t, to the record s.
ReadsPart(b, x, t, s, check) ==
  /\ x \in Work /\ t \in Work /\ Handed(b, x, Head(fromR)) /\ t = feed_radio(x, check)
  /\ b.routing => s = (IF t.dest = NoDest THEN [t EXCEPT !.flush = TRUE]
                       ELSE route_flush(t, t.dest))
  /\ ~b.routing => s = t

LEMMA ReadsPartFacts ==
  ASSUME Room, Always, InvInTime, fromR # <<>>, NEW check, NEW b, b = Begin(cn)
  PROVE  \E x, t : ReadsPart(b, x, t, Reads(check), check)
<1>1. Types /\ Modes /\ Frames(fromR)
  BY DEF Always
<1>2. online /\ fromR \in Seq(Frame) /\ prods \in Seq(App) /\ begun \in BOOLEAN
  BY <1>1 DEF Modes, Types
<1>3. Sound(b) /\ b \in Work
  BY BeginSound DEF Sound
<1>4. b.routing = cn.routing /\ b.buf = cn.buf
  BY <1>1, BeginFacts DEF Types, CatnOf
<1>5. PICK f : f = Head(fromR)
  OBVIOUS
<1>6. Owner(f) \in Source \cup {Radio}
  BY <1>2, <1>5, FrameHead
<1>7. ASSUME NEW x, Handed(b, x, f)
      PROVE  x \in Work /\ feed_radio(x, check) \in Work
  <2>1. x \in Work /\ x.own = b.own /\ x.decoder = b.decoder
    BY <1>7 DEF Handed, Alike
  <2>2. b.own => online
    BY <1>3 DEF Sound
  <2>3. x.decoder
    BY <1>2, <1>3, <2>1, Zenon DEF Sound
  <2>4. PICK t : t = feed_radio(x, check)
    OBVIOUS
  <2>5. Feeds(x, t, f, begun)
    BY <1>5, <2>1, <2>3, <2>4, FeedFacts
  <2>6. f \in Frame /\ (f.what = "echo" => f.src \in Source)
    <3>1. f = fromR[1] /\ f \in Frame /\ 1 \in 1..Len(fromR)
      BY <1>2, <1>5, FrameHead
    <3>2. f.what = "echo" => f.src # Radio
      BY <1>1, <3>1 DEF Frames
    <3> QED BY <3>1, <3>2 DEF Frame
  <2>7. ASSUME NEW y \in Work, f.what # "noise", t = process_radio_frame(y, f)
        PROVE  t \in Work
    BY <2>6, <2>7, ProcessFacts DEF Processes
  <2>8. t \in Work
    <3>1. CASE f.what = "noise" \/ (begun /\ ~x.half)
      BY <2>1, <2>5, <3>1 DEF Feeds
    <3>2. CASE f.what # "noise" /\ ~begun
      BY <2>5, <3>2 DEF Feeds, HalfIs
    <3>3. CASE f.what # "noise" /\ begun /\ x.half
      BY <2>5, <2>7, <3>3 DEF Feeds
    <3> QED BY <3>1, <3>2, <3>3
  <2> QED BY <2>1, <2>4, <2>8
<1>8. CASE cn.routing
  <2>1. Len(cn.buf) # RouteMax
    <3>1. PICK n, nr : Counts(cn, fromR, begun, count["trx"], n, nr)
      BY DEF InvInTime, Routes, Buffered
    <3>2. /\ n \in Nat /\ n <= count["trx"]
          /\ Len(cn.buf) <= n + (IF begun THEN 1 ELSE 0)
      BY <3>1 DEF Counts
    <3>3. count["trx"] <= MaxTrx /\ count["trx"] \in Nat
      BY <1>1 DEF InvInTime, Types
    <3>4. Len(cn.buf) \in Nat
      BY <1>3, <1>4, BufType
    <3>5. MaxTrx + 1 < RouteMax /\ MaxTrx \in Nat /\ RouteMax \in Nat
      BY CatAssumption DEF Room
    <3> QED BY <3>2, <3>3, <3>4, <3>5
  <2>2. PICK x : x = [b EXCEPT !.buf = Append(@, Owner(f))]
    OBVIOUS
  <2>3. Handed(b, x, f)
    BY <1>3, <1>4, <1>6, <1>8, <2>2, BufferHanded
  <2>4. PICK t : t = feed_radio(x, check)
    OBVIOUS
  <2>5. RadioRouted(check) = (IF t.dest = NoDest THEN [t EXCEPT !.flush = TRUE]
                              ELSE route_flush(t, t.dest))
    BY <1>5, <2>1, <2>2, <2>4, Zenon DEF RadioRouted
  <2>6. Reads(check) = RadioRouted(check)
    BY <1>8 DEF Reads
  <2> QED BY <1>4, <1>5, <1>7, <1>8, <2>3, <2>4, <2>5, <2>6 DEF ReadsPart
<1>9. CASE ~cn.routing
  <2>1. PICK x : x = pass_out(b, <<Owner(f)>>, All)
    OBVIOUS
  <2>2. Handed(b, x, f)
    BY <1>2, <1>3, <1>4, <1>6, <1>9, <2>1, PassedHanded
  <2>3. Reads(check) = feed_radio(x, check)
    BY <1>5, <1>9, <2>1 DEF Reads, RadioPassed
  <2> QED BY <1>4, <1>5, <1>7, <1>9, <2>2, <2>3 DEF ReadsPart
<1> QED BY <1>8, <1>9
LEMMA ReadGood ==
  ASSUME Room, Inv, InvInTime, fromR # <<>>, NEW check, NEW s, s = Reads(check),
         NEW m, m = count["trx"], NEW f, f = Head(fromR)
  PROVE  /\ s.tx = <<>>
         /\ f.what = "noise" => Good(s, line, Tail(fromR), FALSE, m) /\ ~begun
         /\ f.what # "noise" /\ ~begun => Good(s, line, fromR, TRUE, m)
         /\ f.what # "noise" /\ begun =>
              /\ Good(s, line, Tail(fromR), FALSE, m)
              /\ f.what = "answer" /\ f.src \in Connected => Arrives(s, f)
<1>1. Always /\ Types /\ Modes /\ Frames(fromR)
  BY DEF Inv, Always
<1>2. online /\ fromR \in Seq(Frame) /\ prods \in Seq(App) /\ begun \in BOOLEAN
      /\ line \in Seq(Command) /\ fdOf \in [App -> Fd \cup {None, Gone}] /\ m \in Nat
  BY <1>1 DEF Modes, Types
<1>3. PICK b : b = Begin(cn)
  OBVIOUS
<1>4. b \in Work /\ b.tx = <<>> /\ b.dest = NoDest /\ Steady(b, fromR) /\ b.decoder
  BY <1>1, <1>2, <1>3, BeginSound DEF Sound, Steady
<1>5. Good(b, line, fromR, begun, m)
  BY <1>3, StartGood
<1>6. PICK x, t : ReadsPart(b, x, t, s, check)
  BY <1>1, <1>3, ReadsPartFacts
<1>7. f = fromR[1] /\ f \in Frame /\ 1 \in 1..Len(fromR)
  BY <1>2, FrameHead
<1>8. Handed(b, x, f) /\ x \in Work /\ t \in Work
  BY <1>6 DEF ReadsPart
<1>9. x.tx = <<>> /\ x.dest = NoDest /\ x.half = b.half /\ x.decoder
  BY <1>4, <1>8, Zenon DEF Handed, Alike, SameByte
<1>10. Feeds(x, t, f, begun)
  BY <1>6, <1>8, <1>9, FeedFacts DEF ReadsPart
<1>11. f.what = "echo" => f.src \in Source
  <2>1. f.what = "echo" => f.src # Radio
    BY <1>1, <1>7 DEF Frames
  <2> QED BY <1>7, <2>1 DEF Frame
<1>12. PICK fl : fl = [t EXCEPT !.flush = TRUE]
  OBVIOUS
<1>13. ASSUME NEW h, HalfIs(x, t, h) \/ (t = x /\ h = x.half)
       PROVE  Holds(x, s, h) /\ s.tx = <<>>
  <2>1. t.dest = NoDest /\ t.tx = <<>> /\ Alike(x, t) /\ t.pend = x.pend /\ t.buf = x.buf
        /\ t.out = x.out /\ t.half = h
    BY <1>8, <1>9, <1>13, Zenon DEF HalfIs, Alike, SameTurns, SameOwn, SameRoute, SameByte
  <2>2. FlushesLater(t, fl)
    BY <1>8, <1>12, FlushLaterFacts
  <2>3. s = fl \/ s = t
    BY <1>6, <1>12, <2>1, Zenon DEF ReadsPart
  <2>4. CASE s = t
    <3>1. Emitted(s) = Emitted(x)
      BY <2>1, <2>4 DEF Emitted
    <3> QED BY <2>1, <2>4, <3>1, Zenon DEF Holds
  <2>5. CASE s = fl
    <3>1. /\ s \in Work /\ SameButRoute(t, s)
          /\ s.multi = t.multi /\ s.filter = t.filter /\ s.routing = t.routing
          /\ s.out = t.out /\ s.buf = t.buf
      BY <2>2, <2>5, Zenon DEF FlushesLater
    <3>2. Emitted(s) = Emitted(x)
      BY <2>1, <3>1 DEF Emitted
    <3>3. s.pend = x.pend /\ s.half = h /\ s.tx = <<>> /\ s.own = t.own /\ s.decoder = t.decoder
          /\ SameTurns(t, s) /\ s.tx = t.tx
      BY <2>1, <3>1, Zenon DEF SameButRoute, SamePend, SameOwn
    <3>4. Alike(x, s)
      BY <2>1, <3>1, <3>3, Zenon DEF Alike, SameTurns
    <3> QED BY <2>1, <3>1, <3>2, <3>3, <3>4, Zenon DEF Holds
  <2> QED BY <2>3, <2>4, <2>5
<1>14. CASE f.what = "noise"
  <2>1. PICK h : h = x.half
    OBVIOUS
  <2>2. t = x
    BY <1>10, <1>14 DEF Feeds
  <2>3. Holds(x, s, h) /\ s.tx = <<>>
    BY <1>13, <2>1, <2>2
  <2>4. Good(s, line, Tail(fromR), FALSE, m) /\ ~begun
    BY <1>2, <1>4, <1>5, <1>7, <1>8, <1>14, <2>3, NoiseRead
  <2> QED BY <1>14, <2>3, <2>4
<1>15. CASE f.what # "noise" /\ ~begun
  <2>1. HalfIs(x, t, TRUE)
    BY <1>10, <1>15 DEF Feeds
  <2>2. Holds(x, s, TRUE) /\ s.tx = <<>>
    BY <1>13, <2>1
  <2>3. Good(s, line, fromR, TRUE, m)
    BY <1>2, <1>4, <1>5, <1>7, <1>8, <1>15, <2>2, FirstPartRead
  <2> QED BY <1>15, <2>2, <2>3
<1>16. CASE f.what # "noise" /\ begun
  <2>1. x.half
    BY <1>5, <1>9, <1>16, Zenon DEF Good, Routes, Parts
  <2>2. PICK y \in Work : HalfIs(x, y, FALSE) /\ t = process_radio_frame(y, f)
    BY <1>10, <1>16, <2>1 DEF Feeds
  <2>3. Processes(y, t)
    BY <1>7, <1>11, <1>16, <2>2, ProcessFacts
  <2>4. t.dest # NoDest /\ t.tx = <<>> /\ t.routing = b.routing
    <3>1. y.tx = <<>> /\ y.routing = b.routing
      BY <1>8, <1>9, <2>2, Zenon DEF HalfIs, SameOwn, SameRoute, Handed, Alike
    <3> QED BY <2>3, <3>1, Zenon DEF Processes, SameRoute
  <2>5. b.routing => Flushes(t, s, t.dest)
    <3>1. Flushes(t, route_flush(t, t.dest), t.dest)
      BY <1>2, <1>8, FlushFacts
    <3> QED BY <1>6, <2>4, <3>1, Zenon DEF ReadsPart
  <2>6. ~b.routing => s = t
    BY <1>6, Zenon DEF ReadsPart
  <2>7. s.tx = <<>>
    BY <2>4, <2>5, <2>6, Zenon DEF Flushes, SameButRoute, SameOwn
  <2>8. /\ Good(s, line, Tail(fromR), FALSE, m)
        /\ f.what = "answer" /\ f.src \in Connected => Arrives(s, f)
    <3>1. /\ b \in Work /\ f \in Frame /\ line \in Seq(Command) /\ fromR \in Seq(Frame) /\ m \in Nat
          /\ Good(b, line, fromR, begun, m) /\ Steady(b, fromR) /\ fromR # <<>> /\ online
          /\ prods \in Seq(App) /\ fdOf \in [App -> Fd \cup {None, Gone}] /\ begun
          /\ f = fromR[1] /\ f.what # "noise" /\ Handed(b, x, f) /\ HalfIs(x, y, FALSE)
          /\ t = process_radio_frame(y, f)
      BY <1>2, <1>4, <1>5, <1>7, <1>8, <1>16, <2>2, Zenon DEF Inv, Always, Types
    <3> QED BY <2>5, <2>6, <3>1, CompleteRead, ZenonT(60)
  <2> QED BY <1>16, <2>7, <2>8
<1> QED BY <1>14, <1>15, <1>16
\* What has been passed on stays passed on.
LEMMA TurnCheckKeeps ==
  ASSUME NEW s \in Work, Joined, NEW t, t = turn_check(s, FALSE)
  PROVE  t \in Work /\ t.tx = s.tx /\ Emitted(t) = Emitted(s)
<1>1. t = s \/ MovesTurn(s, t)
  BY TurnCheckFacts
<1>2. CASE MovesTurn(s, t)
  <2>1. PICK u \in Work, fd \in Fd \cup {None} :
          GivesTurn(u, t, fd, fd # None) /\ (u = s \/ Discards(s, u))
    BY <1>2, Zenon DEF MovesTurn
  <2>2. t \in Work /\ t.tx = u.tx /\ t.out = u.out
    BY <2>1, Zenon DEF GivesTurn, SameOwn, SameRoute
  <2>3. u.tx = s.tx /\ u.out = s.out
    BY <2>1, Zenon DEF Discards, SameOwn, SameRoute
  <2> QED BY <2>2, <2>3 DEF Emitted
<1> QED BY <1>1, <1>2

LEMMA OwnTryKeeps ==
  ASSUME NEW s \in Work, NEW t, t = own_try(s)
  PROVE  t \in Work /\ Emitted(t) = Emitted(s)
<1>1. t = s \/ Asks(s, t)
  BY OwnTryFacts
<1> QED BY <1>1 DEF Asks, Emitted

LEMMA RouteCheckKeeps ==
  ASSUME NEW s \in Work, prods \in Seq(App), NEW t, t = route_check(s)
  PROVE  t \in Work /\ t.tx = s.tx /\ Emitted(s) \subseteq Emitted(t)
<1>1. ChecksRoute(s, t)
  BY RouteCheckFacts
<1>2. t \in Work /\ t.tx = s.tx /\ RouteStep(s, t)
  BY <1>1, Zenon DEF ChecksRoute, SameButRoute, SameOwn
<1> QED BY <1>2 DEF RouteStep, Emitted

LEMMA RadioByteStep ==
  ASSUME Room, Inv, NEW check \in BOOLEAN, NEW due \in BOOLEAN, RadioByte(check, due)
  PROVE  Inv'
<1>1. PICK s, t, u, v :
        /\ fromR # <<>> /\ ReadSteps(check, due, s, t, u, v)
        /\ End(v) /\ line' = line \o v.tx /\ ReadsOn /\ (missed' <=> Misses(v))
  BY ReadStepsFacts, Zenon
<1>2. /\ s = Reads(check) /\ t = turn_check(s, FALSE)
      /\ u = (IF t.answered /\ due THEN own_try(t) ELSE t)
      /\ v = (IF cn.routing THEN route_check(u) ELSE u)
  BY <1>1, Zenon DEF ReadSteps
<1>3. PICK fr : fr = (IF Last THEN Tail(fromR) ELSE fromR)
  OBVIOUS
<1>4. PICK bg : bg = ~Last
  OBVIOUS
<1>5. fromR' = fr /\ begun' = bg /\ UNCHANGED <<prods, fdOf, sock, online, count>>
  BY <1>1, <1>3, <1>4 DEF ReadsOn
<1>6. Always /\ Types /\ Modes /\ Frames(fromR) /\ Connectors
  BY DEF Inv, Always
<1>7. Sound(s) /\ online
  BY <1>1, <1>2, <1>6, ReadSound
<1>8. Joined /\ prods \in Seq(App) /\ fromR \in Seq(Frame) /\ line \in Seq(Command)
  BY <1>6, BeginSound DEF Types
<1>9. Sound(t)
  BY <1>2, <1>7, <1>8, SoundSteps
<1>10. Sound(u)
  BY <1>2, <1>8, <1>9, SoundSteps
<1>11. Sound(v)
  BY <1>2, <1>8, <1>10, SoundSteps
<1>12. s \in Work /\ t \in Work /\ u \in Work /\ v \in Work
  BY <1>7, <1>9, <1>10, <1>11 DEF Sound
<1>13. Ends(v)
  BY <1>1, <1>6, <1>12, EndEnds
<1>14. line' \in Seq(Command)
  BY <1>1, <1>8, <1>12, EmptyTx
<1>15. fr \in Seq(Frame) /\ Frames(fr) /\ bg \in BOOLEAN
  <2>1. Tail(fromR) \in Seq(Frame) /\ Frames(Tail(fromR))
    BY <1>1, <1>6, <1>8, TailFrames, FrameHead
  <2> QED BY <1>3, <1>4, <1>6, <1>8, <2>1
<1>16. Always'
  <2>1. /\ sock' \in [App -> Seq(Kind)]
        /\ \A x \in App : Len(sock'[x]) <= 1 /\ (sock'[x] # <<>> => x \in Connected)
    BY <1>5, <1>6, Zenon DEF Types, Connectors
  <2>2. fromR' \in Seq(Frame) /\ begun' \in BOOLEAN /\ Frames(fromR')
    BY <1>5, <1>15
  <2> QED BY <1>5, <1>6, <1>7, <1>11, <1>13, <1>14, <2>1, <2>2, EndAnyAlways
<1>17. ASSUME InTime'
       PROVE  InvInTime'
  <2>1. InvInTime
    BY <1>5, <1>17 DEF Inv, InTime
  <2>2. PICK m : m = count["trx"]
    OBVIOUS
  <2>3. PICK f : f = Head(fromR)
    OBVIOUS
  <2>4. /\ s.tx = <<>>
        /\ f.what = "noise" => Good(s, line, Tail(fromR), FALSE, m) /\ ~begun
        /\ f.what # "noise" /\ ~begun => Good(s, line, fromR, TRUE, m)
        /\ f.what # "noise" /\ begun =>
             /\ Good(s, line, Tail(fromR), FALSE, m)
             /\ f.what = "answer" /\ f.src \in Connected => Arrives(s, f)
    BY <1>1, <1>2, <2>1, <2>2, <2>3, ReadGood
  <2>5. Good(s, line, fr, bg, m)
    <3>1. CASE Last
      <4>1. fr = Tail(fromR) /\ bg = FALSE
        BY <1>3, <1>4, <3>1
      <4> QED BY <2>3, <2>4, <3>1, <4>1 DEF Last
    <3>2. CASE ~Last
      <4>1. fr = fromR /\ bg = TRUE
        BY <1>3, <1>4, <3>2
      <4> QED BY <2>3, <2>4, <3>2, <4>1 DEF Last
    <3> QED BY <3>1, <3>2
  <2>6. Good(t, line, fr, bg, m)
    <3>1. \A expired \in BOOLEAN : expired = FALSE => Good(turn_check(s, expired), line, fr, bg, m)
      BY <1>6, <1>8, <1>12, <1>15, <2>5, TurnCheckGood
    <3> QED BY <1>2, <3>1
  <2>7. t.tx = <<>> /\ Emitted(t) = Emitted(s)
    BY <1>2, <1>8, <1>12, <2>4, TurnCheckKeeps
  <2>8. Good(u, line \o u.tx, fr, bg, m) /\ Emitted(u) = Emitted(t)
    <3>1. CASE t.answered /\ due
      <4>1. u = own_try(t)
        BY <1>2, <3>1
      <4>2. Good(u, line \o u.tx, fr, bg, m)
        BY <1>8, <1>12, <1>15, <2>6, <2>7, <4>1, OwnTryGood
      <4> QED BY <1>12, <4>1, <4>2, OwnTryKeeps
    <3>2. CASE ~(t.answered /\ due)
      <4>1. u = t
        BY <1>2, <3>2
      <4>2. line \o t.tx = line
        BY <1>8, <2>7
      <4> QED BY <2>6, <4>1, <4>2, Zenon
    <3> QED BY <3>1, <3>2
  <2>9. line \o u.tx \in Seq(Command)
    BY <1>8, <1>12, EmptyTx
  <2>10. Steady(u, fr)
    BY <1>6, <1>7, <1>8, <1>10, <1>15, Zenon DEF Steady, Sound
  <2>11. Good(v, line \o v.tx, fr, bg, m) /\ Emitted(u) \subseteq Emitted(v)
    <3>1. CASE cn.routing
      <4>1. v = route_check(u)
        BY <1>2, <3>1
      <4>2. v.tx = u.tx /\ Emitted(u) \subseteq Emitted(v)
        BY <1>8, <1>12, <4>1, RouteCheckKeeps
      <4>3. Good(v, line \o u.tx, fr, bg, m)
        BY <1>12, <1>15, <2>8, <2>9, <2>10, <4>1, RouteCheckGood
      <4> QED BY <4>2, <4>3, Zenon
    <3>2. CASE ~cn.routing
      <4>1. v = u
        BY <1>2, <3>2
      <4> QED BY <2>8, <4>1
    <3> QED BY <3>1, <3>2
  <2>12. ~Misses(v)
    <3>1. ~missed
      BY <2>1 DEF InvInTime
    <3>2. ASSUME begun, f.what = "answer", f.src \in Connected
          PROVE  Reached(v, f)
      <4>1. Arrives(s, f)
        BY <2>4, <3>2
      <4>2. PICK p \in Emitted(v) : p.src = Owner(f) /\ f.src \in p.to
        BY <2>7, <2>8, <2>11, <4>1 DEF Arrives
      <4> QED BY <4>2 DEF Emitted, Elements, Reached
    <3> QED BY <2>3, <3>1, <3>2 DEF Misses
  <2>13. ~missed'
    BY <1>1, <2>12, Zenon
  <2>14. Good(v, line', fromR', begun', count'["trx"])
    BY <1>1, <1>5, <2>2, <2>11, Zenon
  <2>15. UNCHANGED <<prods, fdOf, sock, online>> /\ count' = count
    BY <1>5
  <2> QED BY <1>6, <1>12, <1>13, <2>1, <2>13, <2>14, <2>15, EndInTime, Zenon
<1> QED BY <1>16, <1>17 DEF Inv
-----------------------------------------------------------------------------
(* Every step. *)

LEMMA StutterInv ==
  ASSUME Inv, UNCHANGED vars
  PROVE  Inv'
<1>1. UNCHANGED <<prods, fdOf, sock, line, fromR, begun, cn, online, count, stray, leaked, missed>>
  BY DEF vars
<1>2. Types /\ Modes /\ Frames(fromR)
  BY DEF Inv, Always
<1>3. /\ line' \in Seq(Command) /\ fromR' \in Seq(Frame) /\ Frames(fromR')
      /\ online \/ fromR' = <<>>
      /\ count' \in [{"lost", "late", "trx", "off"} -> Nat] /\ count'["late"] = count["late"]
  BY <1>1, <1>2, Zenon DEF Types, Modes
<1>4. PICK v : v = cn
  OBVIOUS
<1>5. ASSUME InTime, InvInTime
      PROVE  /\ Tracked(v, line', fromR') /\ Parts(v, fromR', begun)
             /\ Buffered(v, fromR', begun, count'["trx"]) /\ count'["trx"] <= MaxTrx
  BY <1>1, <1>4, <1>5, Zenon DEF InvInTime, Core, Waiting, Routes
<1>6. UNCHANGED <<prods, fdOf, sock, begun, cn, online, stray, leaked, missed>>
  BY <1>1, Zenon
<1> QED BY <1>3, <1>4, <1>5, <1>6, StillInv

LEMMA NextInv ==
  ASSUME Room, Inv, [Next]_vars
  PROVE  Inv'
<1>1. CASE TimerNext
  <2>1. ASSUME NEW check \in BOOLEAN, NEW due \in BOOLEAN, Tick(check, due)  PROVE Inv'
    BY <2>1, TickStep
  <2>2. ASSUME NEW expired \in BOOLEAN, TurnTimer(expired)  PROVE Inv'
    BY <2>2, TurnTimerStep
  <2>3. CASE OwnTimeout
    BY <2>3, OwnTimeoutStep
  <2>4. CASE RouteTimer
    BY <2>4, RouteTimerStep
  <2>5. CASE PendExpire
    BY <2>5, PendExpireStep
  <2> QED BY <1>1, <2>1, <2>2, <2>3, <2>4, <2>5 DEF TimerNext
<1>2. CASE RadioNext
  <2>1. ASSUME NEW check \in BOOLEAN, NEW due \in BOOLEAN, RadioByte(check, due)  PROVE Inv'
    BY <2>1, RadioByteStep
  <2>2. CASE KeyerState
    BY <2>2, KeyerStateStep
  <2>3. CASE RadioAnswer
    BY <2>3, RadioAnswerStep
  <2>4. CASE RadioLose
    BY <2>4, RadioLoseStep
  <2>5. ASSUME NEW what \in {"trx", "noise"}, RadioSends(what)  PROVE Inv'
    BY <2>5, RadioSendsStep
  <2> QED BY <1>2, <2>1, <2>2, <2>3, <2>4, <2>5 DEF RadioNext
<1>3. ASSUME NEW a \in App, AppNext(a)
      PROVE  Inv'
  <2>1. CASE Connect(a)
    BY <2>1, ConnectStep
  <2>2. CASE Disconnect(a)
    BY <2>2, DisconnectStep
  <2>3. ASSUME NEW k \in Kind, AppSend(a, k)  PROVE Inv'
    BY <2>3, AppSendStep
  <2>4. ASSUME NEW check \in BOOLEAN, HostCb(a, check)  PROVE Inv'
    BY <2>4, HostCbStep
  <2> QED BY <1>3, <2>1, <2>2, <2>3, <2>4 DEF AppNext
<1>4. CASE UNCHANGED vars
  BY <1>4, StutterInv
<1> QED BY <1>1, <1>2, <1>3, <1>4 DEF Next

\* Whatever is on the line or answered is a pending command of its sender, in the order
\* it was sent in; what belongs to nobody may be seen by all (cat_native.c, cat_civ.c).
THEOREM CatInductive == ASSUME Room PROVE Spec => []Inv
<1>1. Init => Inv
  BY InitInv
<1>2. Inv /\ [Next]_vars => Inv'
  BY NextInv
<1> QED BY <1>1, <1>2, PTL DEF Spec

\* A command under way is pending, and its sender still has the turn it was sent in.
LEMMA OutstandingEntry ==
  ASSUME Inv, InTime, NEW x \in Outstanding, online \/ x.turn
  PROVE  \E e \in 1..Len(cn.pend) :
           /\ cn.pend[e].src = x.src
           /\ x.turn /\ x.src \in App => cn.turn # None /\ cn.pend[e].client = cn.client
<1>1. Core(cn, line, fromR)
  BY DEF Inv, InvInTime
<1>2. PICK er, el : Tracks(cn, line, fromR, er, el)
  BY <1>1, Zenon DEF Core, Waiting, Tracked
<1>3. CASE \E k \in 1..Len(line) : x = [src |-> line[k].src, turn |-> line[k].turn]
  <2>1. PICK k \in 1..Len(line) : x.src = line[k].src /\ x.turn = line[k].turn
    BY <1>3
  <2>2. k \in Sent(line)
    BY <2>1 DEF Sent
  <2>3. el[k] \in 1..Len(cn.pend) /\ Awaited(cn, line[k], el[k])
    BY <1>2, <2>2 DEF Tracks, SentMatch
  <2> QED BY <2>1, <2>3, Zenon DEF Awaited
<1>4. CASE \E k \in {j \in 1..Len(fromR) : fromR[j].what = "answer"} :
             x = [src |-> fromR[k].src, turn |-> fromR[k].turn]
  <2>1. PICK k \in Answers(fromR) : x.src = fromR[k].src /\ x.turn = fromR[k].turn
    BY <1>4 DEF Answers
  <2>2. er[k] \in 1..Len(cn.pend) /\ Awaited(cn, fromR[k], er[k])
    BY <1>2, <2>1 DEF Tracks, AnswersMatch
  <2> QED BY <2>1, <2>2, Zenon DEF Awaited
<1> QED BY <1>3, <1>4 DEF Outstanding

\* While mhuxd waits for the answer to its query the line belongs to it: applications
\* are held, and none of their commands is unanswered (catn_own_try, catn_own_end).
THEOREM OwnQueriesAlone == ASSUME Room PROVE Spec => []OwnAlone
<1>1. Inv => OwnAlone
  <2> SUFFICES ASSUME Inv PROVE OwnAlone
    OBVIOUS
  <2>1. cn.hold = cn.own /\ (cn.own => online)
    BY DEF Inv, Always, Modes
  <2>2. ASSUME InTime, cn.own, NEW x \in Outstanding
        PROVE  x.src = Own
    <3>1. PICK e \in 1..Len(cn.pend) : cn.pend[e].src = x.src
      BY <2>1, <2>2, OutstandingEntry
    <3>2. Entries(cn) /\ OwnOnly(cn)
      BY <2>2 DEF Inv, InvInTime, Core, Waiting
    <3>3. cn.pend[e].own
      BY <2>2, <3>2, Zenon DEF OwnOnly
    <3> QED BY <3>1, <3>2, <3>3, Zenon DEF Entries, EntryOk
  <2> QED BY <2>1, <2>2 DEF OwnAlone
<1> QED BY <1>1, CatInductive, PTL

\* Two applications never wait for answers to commands they sent in their turns, not even
\* when a connector goes away or its descriptor is used again (catn_turn_check).
THEOREM TurnsAreExclusive == ASSUME Room PROVE Spec => []TurnsExclusive
<1>1. Inv => TurnsExclusive
  <2> SUFFICES ASSUME Inv, InTime, NEW x \in Outstanding, NEW y \in Outstanding,
                      x.turn, y.turn, {x.src, y.src} \subseteq App
               PROVE  x.src = y.src
    BY DEF TurnsExclusive
  <2>1. PICK e \in 1..Len(cn.pend) :
          cn.pend[e].src = x.src /\ cn.turn # None /\ cn.pend[e].client = cn.client
    BY OutstandingEntry
  <2>2. PICK d \in 1..Len(cn.pend) :
          cn.pend[d].src = y.src /\ cn.turn # None /\ cn.pend[d].client = cn.client
    BY OutstandingEntry
  <2>3. Entries(cn)
    BY DEF Inv, InvInTime, Core, Waiting
  <2>4. SameSender(cn.pend[e], cn.pend[d])
    BY <2>3 DEF Entries
  <2> QED BY <2>1, <2>2, <2>4 DEF SameSender
<1> QED BY <1>1, CatInductive, PTL

\* No application sees a part of an answer to a query of mhuxd, also when the query has
\* timed out and the line has been given away (catn_own_timeout_cb, catn_frame_cb).
THEOREM OwnIsHidden == ASSUME Room PROVE Spec => []OwnHidden
<1>1. Inv => OwnHidden
  BY DEF Inv, InvInTime, OwnHidden
<1> QED BY <1>1, CatInductive, PTL

\* No part of an answer goes to an application that did not ask and has asked something
\* itself (catn_frame_cb, pend_find_query, mhr_pass_out).
THEOREM AnswersGoToAsker == ASSUME Room PROVE Spec => []AnswerToAsker
<1>1. Inv => AnswerToAsker
  BY DEF Inv, InvInTime, AnswerToAsker
<1> QED BY <1>1, CatInductive, PTL

\* What the radio answers in time reaches the application that asked as long as its
\* connector exists, whoever else asks in between (catn_radio_cb, catn_route_flush).
THEOREM AnswersReachAsker == ASSUME Room PROVE Spec => []AnswerReaches
<1>1. Inv => AnswerReaches
  BY DEF Inv, InvInTime, AnswerReaches
<1> QED BY <1>1, CatInductive, PTL
=============================================================================
