---------------------------- MODULE ConfigProofs ----------------------------
(* Proofs about Config for any number of keyers, connectors, clients and     *)
(* updates, of any depth of nested requests and any number of restarts.      *)
EXTENDS Config, FiniteSetTheorems, SequenceTheorems, WellFoundedInduction, TLAPS

-----------------------------------------------------------------------------
(* Numbers and sequences. *)

LEMMA LessThan ==
  ASSUME NEW a \in Nat, NEW b \in Nat, a < b
  PROVE  <<a, b>> \in OpToRel(<, Nat)
BY Zenon DEF OpToRel

LEMMA MinExists ==
  ASSUME NEW T, T \subseteq Nat, T # {}
  PROVE  \E t \in T : \A y \in T : t <= y
<1> DEFINE R == OpToRel(<, Nat)
<1>1. \A a, b \in Nat : a < b => <<a, b>> \in R
  BY LessThan
<1>2. IsWellFoundedOn(R, Nat)
  BY NatLessThanWellFounded
<1> HIDE DEF R
<1>3. PICK t \in T : \A y \in T : ~(<<y, t>> \in R)
  BY <1>2, WFMin
<1>4. \A y \in T : ~(y < t)
  BY <1>1, <1>3
<1> QED BY <1>4

LEMMA MaxFacts ==
  ASSUME NEW n \in Nat, NEW S, S \subseteq 0..n, S # {}
  PROVE  Max(S) \in S /\ \A y \in S : y <= Max(S)
<1> DEFINE T == {n - x : x \in S}
<1>1. \A x \in S : x \in Nat /\ n - x \in Nat
  OBVIOUS
<1>2. PICK t \in T : \A y \in T : t <= y
  <2>1. T \subseteq Nat /\ T # {}
    BY <1>1
  <2> HIDE DEF T
  <2> QED BY <2>1, MinExists
<1>4. PICK x \in S : t = n - x
  BY <1>2
<1>5. \A y \in S : n - x <= n - y
  BY <1>2, <1>4
<1>6. \A y \in S : x >= y
  BY <1>1, <1>5
<1> HIDE DEF T
<1> QED BY <1>1, <1>4, <1>6 DEF Max

LEMMA SetToSeqFacts ==
  ASSUME NEW S, IsFiniteSet(S), S # {}
  PROVE  SetToSeq(S) \in Seq(S) \ {<<>>}
<1>1. Cardinality(S) \in Nat \ {0}
  BY FS_CardinalityType, FS_EmptySet
<1>2. PICK b : b \in [1..Cardinality(S) -> S] /\ IsInjective(b)
  BY FS_CardinalityType DEF ExistsBijection, Bijection, Injection, IsInjective
<1>3. SetToSeq(S) \in [1..Cardinality(S) -> S]
  BY <1>2 DEF SetToSeq
<1> QED BY <1>1, <1>3
-----------------------------------------------------------------------------
(* Functions on part of a set. *)

LEMMA PartialFacts ==
  ASSUME NEW S, NEW T, NEW f \in Partial(S, T)
  PROVE  /\ f \in [DOMAIN f -> T]
         /\ DOMAIN f \subseteq S
         /\ \A x \in DOMAIN f : f[x] \in T
BY DEF Partial

LEMMA PartialIntro ==
  ASSUME NEW S, NEW T, NEW D, D \subseteq S, NEW f \in [D -> T]
  PROVE  f \in Partial(S, T) /\ DOMAIN f = D
BY DEF Partial

LEMMA PutFacts ==
  ASSUME NEW S, NEW T, NEW f \in Partial(S, T), NEW x \in S, NEW v \in T
  PROVE  /\ Put(f, x, v) \in Partial(S, T)
         /\ DOMAIN Put(f, x, v) = DOMAIN f \cup {x}
         /\ Put(f, x, v)[x] = v
         /\ \A y \in DOMAIN f : y # x => Put(f, x, v)[y] = f[y]
<1>1. f \in [DOMAIN f -> T] /\ DOMAIN f \subseteq S
  BY PartialFacts
<1>2. Put(f, x, v) \in [DOMAIN f \cup {x} -> T] /\ DOMAIN f \cup {x} \subseteq S
  BY <1>1 DEF Put
<1>3. Put(f, x, v) \in Partial(S, T)
  BY <1>2, PartialIntro
<1> QED BY <1>3 DEF Put

LEMMA OverFacts ==
  ASSUME NEW S, NEW T, NEW f \in Partial(S, T), NEW g \in Partial(S, T)
  PROVE  /\ Over(f, g) \in Partial(S, T)
         /\ DOMAIN Over(f, g) = DOMAIN f \cup DOMAIN g
         /\ \A x \in DOMAIN f : Over(f, g)[x] = f[x]
         /\ \A x \in DOMAIN g : x \notin DOMAIN f => Over(f, g)[x] = g[x]
<1>1. f \in [DOMAIN f -> T] /\ DOMAIN f \subseteq S /\ g \in [DOMAIN g -> T] /\ DOMAIN g \subseteq S
  BY PartialFacts
<1>2. Over(f, g) \in [DOMAIN f \cup DOMAIN g -> T] /\ DOMAIN f \cup DOMAIN g \subseteq S
  BY <1>1 DEF Over
<1>3. Over(f, g) \in Partial(S, T)
  BY <1>2, PartialIntro
<1> QED BY <1>3 DEF Over

LEMMA RestrictFacts ==
  ASSUME NEW S, NEW T, NEW f \in Partial(S, T), NEW D, D \subseteq DOMAIN f
  PROVE  /\ Restrict(f, D) \in Partial(S, T)
         /\ DOMAIN Restrict(f, D) = D
         /\ \A x \in D : Restrict(f, D)[x] = f[x]
<1>1. f \in [DOMAIN f -> T] /\ DOMAIN f \subseteq S
  BY PartialFacts
<1>2. Restrict(f, D) \in [D -> T] /\ D \subseteq S
  BY <1>1 DEF Restrict
<1>3. Restrict(f, D) \in Partial(S, T)
  BY <1>2, PartialIntro
<1> QED BY <1>3 DEF Restrict

LEMMA WithoutFacts ==
  ASSUME NEW S, NEW T, NEW f \in Partial(S, T), NEW D
  PROVE  /\ Without(f, D) \in Partial(S, T)
         /\ DOMAIN Without(f, D) = DOMAIN f \ D
         /\ \A x \in DOMAIN f \ D : Without(f, D)[x] = f[x]
BY RestrictFacts, DOMAIN f \ D \subseteq DOMAIN f DEF Without

LEMMA EmptyFacts ==
  ASSUME NEW S, NEW T
  PROVE  Empty \in Partial(S, T) /\ DOMAIN Empty = {}
<1>1. Empty \in [{} -> T] /\ {} \subseteq S
  BY DEF Empty
<1> QED BY <1>1, PartialIntro

-----------------------------------------------------------------------------
(* Keyers and their names. *)

Names == Name \cup {NoName}

Unique(known) ==
  \A d, e \in DOMAIN known : known[d] = known[e] /\ d # e => known[d] = NoName

LEMMA AddDeviceFacts ==
  ASSUME NEW known \in Partial(Dev, Names), NEW d \in Dev
  PROVE  /\ AddDevice(known, d) \in Partial(Dev, Names)
         /\ DOMAIN AddDevice(known, d) = DOMAIN known \cup {d}
         /\ Unique(known) => Unique(AddDevice(known, d))
<1>1. CASE d \in DOMAIN known
  BY <1>1, DOMAIN known = DOMAIN known \cup {d} DEF AddDevice
<1>2. CASE d \notin DOMAIN known
  <2> DEFINE p == Put(known, d, NoName)
  <2>1. /\ p \in Partial(Dev, Names)
        /\ DOMAIN p = DOMAIN known \cup {d}
        /\ p[d] = NoName
        /\ \A y \in DOMAIN known : y # d => p[y] = known[y]
    <3>1. NoName \in Names
      BY DEF Names
    <3>2. \A v \in Names :
            /\ Put(known, d, v) \in Partial(Dev, Names)
            /\ DOMAIN Put(known, d, v) = DOMAIN known \cup {d}
            /\ Put(known, d, v)[d] = v
            /\ \A y \in DOMAIN known : y # d => Put(known, d, v)[y] = known[y]
      BY PutFacts
    <3> QED BY <3>1, <3>2
  <2>2. AddDevice(known, d) = p
    BY <1>2 DEF AddDevice
  <2> HIDE DEF p
  <2>3. Unique(known) => Unique(p)
    BY <2>1 DEF Unique
  <2> QED BY <2>1, <2>2, <2>3
<1> QED BY <1>1, <1>2

\* A keyer is renamed only to a name no other keyer has.
LEMMA ApplyDeviceFacts ==
  ASSUME NEW known \in Partial(Dev, Names), NEW u \in KeyerUpdate
  PROVE  /\ ApplyDevice(known, u) \in Partial(Dev, Names)
         /\ DOMAIN ApplyDevice(known, u) = DOMAIN known \cup {u.dev}
         /\ Unique(known) => Unique(ApplyDevice(known, u))
<1>0. u.dev \in Dev /\ u.name \in Names \cup {"keep"}
  BY DEF KeyerUpdate, Names
<1>1. CASE u.name = "keep" \/ NameTaken(known, u)
  BY <1>0, <1>1, AddDeviceFacts DEF ApplyDevice
<1>2. CASE ~(u.name = "keep" \/ NameTaken(known, u))
  <2> DEFINE p == Put(known, u.dev, u.name)
  <2>1. /\ p \in Partial(Dev, Names)
        /\ DOMAIN p = DOMAIN known \cup {u.dev}
        /\ p[u.dev] = u.name
        /\ \A y \in DOMAIN known : y # u.dev => p[y] = known[y]
    BY <1>0, <1>2, u.name \in Names, PutFacts
  <2>2. u.name = NoName \/ \A e \in DOMAIN known \ {u.dev} : known[e] # u.name
    BY <1>2 DEF NameTaken, NameFree
  <2>3. Unique(known) => Unique(p)
    <3> HIDE DEF p
    <3> QED BY <2>1, <2>2 DEF Unique
  <2>4. ApplyDevice(known, u) = p
    BY <1>2 DEF ApplyDevice
  <2> HIDE DEF p
  <2> QED BY <2>1, <2>3, <2>4
<1> QED BY <1>1, <1>2
-----------------------------------------------------------------------------
(* The inductive invariant. *)

\* An id that is in use was reserved.
IdsReserved == \A i \in DOMAIN reg \cup DOMAIN run : i <= idCnt

\* Under the condition that no request is served before the file is loaded: the
\* loading request is alone, and there are no connectors before it has finished.
LoadsAlone ==
  /\ phase = "down" => stack = <<>>
  /\ phase = "loading" => Len(stack) = 1 /\ stack[1].kind = "load"
  /\ phase = "up" => \A k \in DOMAIN stack : stack[k].kind # "load"
  /\ phase # "up" => reg = Empty /\ run = Empty

\* What clients were told is in the registry, from which the file is written.
Promised == phase = "up" => \A i \in DOMAIN told : i \in DOMAIN reg /\ reg[i] = told[i]

\* What needs no condition.
ConfigInv == TypeOK /\ IdsReserved /\ Held /\ NamesUnique

\* What needs it.
QuietInv == LoadsAlone /\ RunsAsRegistered /\ Durable /\ Promised

QuietLoad == EarlyRequests = FALSE

-----------------------------------------------------------------------------
(* Connectors. *)

LEMMA MaxIdNat == MaxId \in Nat /\ MaxFail \in Nat /\ MaxStop \in Nat
BY ConstAssumption

LEMMA RegTypes ==
  ASSUME ConfigInv
  PROVE  /\ reg \in Partial(ConId, Setting) /\ run \in Partial(ConId, Setting)
         /\ told \in Partial(ConId, Setting) /\ dev \in Partial(Dev, Names)
         /\ idCnt \in 0..MaxId /\ file \in File
         /\ DOMAIN reg \subseteq 1..MaxId /\ DOMAIN run \subseteq 1..MaxId
         /\ \A i \in DOMAIN reg \cup DOMAIN run : i <= idCnt
<1>1. /\ reg \in Partial(ConId, Setting) /\ run \in Partial(ConId, Setting)
      /\ told \in Partial(ConId, Setting) /\ dev \in Partial(Dev, Names)
      /\ idCnt \in 0..MaxId /\ file \in File
  BY DEF ConfigInv, TypeOK, Names
<1>2. DOMAIN reg \subseteq 1..MaxId /\ DOMAIN run \subseteq 1..MaxId
  BY <1>1, PartialFacts DEF ConId
<1> QED BY <1>1, <1>2 DEF ConfigInv, IdsReserved

LEMMA Registered ==
  ASSUME NEW A, NEW B, NEW C, NEW D, NEW s, NEW i, NEW r,
         r = [reg |-> A, run |-> B, idCnt |-> C, id |-> D]
  PROVE  LET q == registry_set_connector(r, s, i)
         IN  /\ q.reg = Put(A, i, s) /\ q.run = B /\ q.idCnt = C /\ q.id = i
             /\ \A v : LET t == [q EXCEPT !.run = v]
                     IN  t.reg = Put(A, i, s) /\ t.run = v /\ t.idCnt = C /\ t.id = i
<1> DEFINE p == Put(A, i, s)
<1>1. registry_set_connector(r, s, i) = [r EXCEPT !.reg = p, !.id = i]
  BY DEF registry_set_connector
<1> HIDE DEF p
<1>2. LET q == [r EXCEPT !.reg = p, !.id = i]
      IN  /\ q.reg = p /\ q.run = B /\ q.idCnt = C /\ q.id = i
          /\ \A v : LET t == [q EXCEPT !.run = v]
                  IN  t.reg = p /\ t.run = v /\ t.idCnt = C /\ t.id = i
  OBVIOUS
<1> QED BY <1>1, <1>2 DEF p

\* A new connector gets an id nobody uses, at most one above the highest used.
LEMMA AddFacts ==
  ASSUME ConfigInv, NEW s \in Setting, s.valid,
         Max({idCnt} \cup DOMAIN reg) < MaxId
  PROVE  LET a == apply_connector_from_json(Connectors, s, 0, DOMAIN dev, FALSE)
         IN  /\ a.id \in ConId /\ a.id \notin DOMAIN reg
             /\ a.reg = Put(reg, a.id, s)
             /\ a.idCnt \in 0..MaxId /\ a.idCnt >= idCnt /\ a.idCnt >= a.id
             /\ \/ a.run = run
                \/ a.run = Put(run, a.id, s) /\ s.dev \in DOMAIN dev
<1> DEFINE next == Max({0} \cup DOMAIN reg) + 1
           starts == Starts(Connectors, s, 0, DOMAIN dev)
           new == IF starts THEN idCnt + 1 ELSE next
           top == Max({idCnt, new})
           a == apply_connector_from_json(Connectors, s, 0, DOMAIN dev, FALSE)
<1>0. /\ MaxId \in Nat /\ idCnt \in 0..MaxId /\ DOMAIN reg \subseteq 1..MaxId
      /\ \A i \in DOMAIN reg : i <= idCnt
  BY MaxIdNat, RegTypes
<1>1. idCnt < MaxId
  <2> DEFINE S == {idCnt} \cup DOMAIN reg
  <2>1. S \subseteq 0..MaxId /\ S # {} /\ idCnt \in S
    BY <1>0
  <2> HIDE DEF S
  <2>2. Max(S) \in S /\ \A y \in S : y <= Max(S)
    BY <1>0, <2>1, MaxFacts
  <2>3. Max(S) < MaxId
    BY DEF S
  <2>4. idCnt <= Max(S) /\ Max(S) \in 0..MaxId
    BY <2>1, <2>2
  <2> QED BY <1>0, <2>3, <2>4
<1>2. next \in 1..(idCnt + 1) /\ \A i \in DOMAIN reg : i < next
  <2> DEFINE S == {0} \cup DOMAIN reg
  <2>1. S \subseteq 0..MaxId /\ S # {} /\ \A i \in S : i <= idCnt
    BY <1>0
  <2> HIDE DEF S
  <2>2. Max(S) \in S /\ \A y \in S : y <= Max(S)
    BY <1>0, <2>1, MaxFacts
  <2>3. Max(S) \in 0..idCnt
    <3>1. Max(S) \in 0..MaxId /\ Max(S) <= idCnt
      BY <2>1, <2>2
    <3> QED BY <1>0, <3>1
  <2>4. \A i \in DOMAIN reg : i \in S /\ i \in Nat
    BY <1>0 DEF S
  <2>5. next = Max(S) + 1
    BY DEF S
  <2> HIDE DEF next
  <2> QED BY <1>0, <2>2, <2>3, <2>4, <2>5
<1> HIDE DEF next
<1>3. new \in 1..(idCnt + 1) /\ \A i \in DOMAIN reg : i < new
  BY <1>0, <1>2
<1> HIDE DEF new
<1>4. top \in 0..MaxId /\ top >= idCnt /\ top >= new
  <2>0. {idCnt, new} \subseteq 0..MaxId
    BY <1>0, <1>1, <1>3
  <2>1. top \in {idCnt, new} /\ \A y \in {idCnt, new} : y <= top
    BY <1>0, <2>0, MaxFacts
  <2> HIDE DEF top
  <2> QED BY <1>0, <2>0, <2>1
<1>5. new \in ConId /\ new \notin DOMAIN reg
  BY <1>0, <1>1, <1>3 DEF ConId
<1>6. /\ a.id = new /\ a.reg = Put(reg, new, s) /\ a.idCnt = top
      /\ a.run = IF starts THEN Put(run, new, s) ELSE run
  <2> DEFINE r == conmgr_reserve_id(Connectors, new)
             q == registry_set_connector(r, s, new)
  <2>1. r = [reg |-> reg, run |-> run, idCnt |-> top, id |-> 0]
    BY DEF conmgr_reserve_id, Connectors
  <2>2. /\ q.reg = Put(reg, new, s) /\ q.run = run /\ q.idCnt = top /\ q.id = new
        /\ \A v : LET t == [q EXCEPT !.run = v]
                IN  t.reg = Put(reg, new, s) /\ t.run = v /\ t.idCnt = top /\ t.id = new
    <3> HIDE DEF r, top
    <3> QED BY <2>1, Registered
  <2>3. a = IF starts
            THEN [q EXCEPT !.run = Put(q.run, new, s)]
            ELSE q
    BY DEF apply_connector_from_json, Connectors, next, new
  <2> HIDE DEF a, q, r, new, top, starts
  <2> QED BY <2>2, <2>3
<1>7. starts => s.dev \in DOMAIN dev
  BY DEF Starts
<1> HIDE DEF a, new, top, starts
<1>8. a.run = run \/ (a.run = Put(run, a.id, s) /\ s.dev \in DOMAIN dev)
  BY <1>6, <1>7
<1> QED BY <1>4, <1>5, <1>6, <1>8 DEF a

\* Loading registers what the file has and starts only what it registers.
LEMMA LoadFacts ==
  ASSUME ConfigInv, NEW known
  PROVE  LET c == LoadConnectors(Connectors, file.con, known)
         IN  /\ c.reg = Over(file.con, reg)
             /\ c.idCnt \in 0..MaxId /\ c.idCnt >= idCnt
             /\ \A i \in DOMAIN file.con : i <= c.idCnt
             /\ \E D \in SUBSET DOMAIN file.con :
                  /\ c.run = Over(Restrict(file.con, D), run)
                  /\ \A i \in D : file.con[i].dev \in known
<1> DEFINE con == file.con
           able == {i \in DOMAIN con : con[i].valid /\ Starts(Connectors, con[i], i, known)}
           first == {i \in able : \A j \in able : con[j].port = con[i].port => i <= j}
           S == {idCnt} \cup DOMAIN con
           c == LoadConnectors(Connectors, con, known)
<1>1. /\ MaxId \in Nat /\ idCnt \in 0..MaxId /\ con \in Partial(ConId, Setting)
  BY MaxIdNat, RegTypes DEF File
<1>2. DOMAIN con \subseteq 1..MaxId
  BY <1>1, PartialFacts DEF ConId
<1>3. /\ c.reg = Over(con, reg) /\ c.run = Over(Restrict(con, first), run)
      /\ c.idCnt = Max(S)
  <2> HIDE DEF con
  <2> QED BY DEF LoadConnectors, Connectors
<1>4. first \subseteq DOMAIN con /\ \A i \in first : con[i].dev \in known
  BY DEF Starts
<1>5. Max(S) \in S /\ \A y \in S : y <= Max(S)
  <2>1. S \subseteq 0..MaxId /\ S # {}
    BY <1>1, <1>2
  <2> HIDE DEF S
  <2> QED BY <1>1, <2>1, MaxFacts
<1>6. c.idCnt \in 0..MaxId /\ c.idCnt >= idCnt /\ \A i \in DOMAIN con : i <= c.idCnt
  <2> HIDE DEF c
  <2> QED BY <1>1, <1>2, <1>3, <1>5
<1> HIDE DEF c, first
<1> QED BY <1>3, <1>4, <1>6 DEF c
-----------------------------------------------------------------------------
(* The invariant in three parts: what is in memory, who waits, and the rest. *)

MemoryOK ==
  /\ dev \in Partial(Dev, Names) /\ Unique(dev)
  /\ linked \subseteq DOMAIN dev
  /\ reg \in Partial(ConId, Setting) /\ run \in Partial(ConId, Setting)
  /\ idCnt \in 0..MaxId
  /\ \A i \in DOMAIN reg \cup DOMAIN run : i <= idCnt
  /\ \A i \in DOMAIN run : run[i].dev \in DOMAIN dev

WaitersOK ==
  /\ busy = Len(stack) /\ stack \in Seq(Frame)
  /\ \A k \in DOMAIN stack : Head(stack[k].todo).dev \in DOMAIN dev

RestOK ==
  /\ phase \in {"down", "loading", "up"} /\ file \in File /\ open \subseteq Client
  /\ told \in Partial(ConId, Setting)
  /\ fails \in 0..MaxFail /\ stops \in 0..MaxStop

LEMMA Parts == ConfigInv <=> MemoryOK /\ WaitersOK /\ RestOK
BY DEF ConfigInv, TypeOK, IdsReserved, Held, NamesUnique, Unique, Names, MemoryOK, WaitersOK, RestOK

LEMMA PartsNext == ConfigInv' <=> MemoryOK' /\ WaitersOK' /\ RestOK'
BY DEF ConfigInv, TypeOK, IdsReserved, Held, NamesUnique, Unique, Names, MemoryOK, WaitersOK, RestOK

LEMMA MemorySame ==
  ASSUME MemoryOK, UNCHANGED memVars
  PROVE  MemoryOK'
BY DEF MemoryOK, memVars, Unique

LEMMA WaitersSame ==
  ASSUME WaitersOK, UNCHANGED <<busy, stack>>, DOMAIN dev \subseteq DOMAIN dev'
  PROVE  WaitersOK'
BY DEF WaitersOK

LEMMA RestSame ==
  ASSUME RestOK, UNCHANGED <<phase, file, open, told, fails, stops>>
  PROVE  RestOK'
BY DEF RestOK

LEMMA SaveFacts ==
  ASSUME RestOK, NEW ok \in BOOLEAN, NEW d \in Partial(Dev, Names),
         NEW c \in Partial(ConId, Setting), cfgmgrj_save_cfg(ok, d, c)
  PROVE  /\ file' \in File /\ fails' \in 0..MaxFail
         /\ file' = file \/ file'.con = c
         /\ ok => file'.con = c
<1>1. [dev |-> d, con |-> c] \in File
  BY DEF File, Names
<1> QED BY <1>1, MaxIdNat DEF RestOK, cfgmgrj_save_cfg

LEMMA FrameFacts ==
  ASSUME NEW f \in Frame
  PROVE  /\ f.todo \in Seq(KeyerUpdate) /\ f.todo # <<>>
         /\ Head(f.todo) \in KeyerUpdate /\ Head(f.todo).dev \in Dev
         /\ f.kind \in {"load", "apply", "sm"} /\ f.client \in Client \cup {NoClient}
         /\ f.got \in BOOLEAN /\ f.bad \in BOOLEAN
<1>1. f.todo \in Seq(KeyerUpdate) /\ f.todo # <<>>
  BY DEF Frame
<1>2. Head(f.todo) \in KeyerUpdate
  BY <1>1, HeadTailProperties
<1> QED BY <1>1, <1>2 DEF Frame, KeyerUpdate

LEMMA AddInv ==
  ASSUME ConfigInv, NEW c \in Client, NEW s \in Setting, AddConnector(c, s)
  PROVE  ConfigInv'
<1> DEFINE a == apply_connector_from_json(Connectors, s, 0, DOMAIN dev, FALSE)
<1>0. MemoryOK /\ WaitersOK /\ RestOK
  BY Parts
<1>1. /\ a.id \in ConId /\ a.id \notin DOMAIN reg
      /\ a.reg = Put(reg, a.id, s)
      /\ a.idCnt \in 0..MaxId /\ a.idCnt >= idCnt /\ a.idCnt >= a.id
      /\ \/ a.run = run
         \/ a.run = Put(run, a.id, s) /\ s.dev \in DOMAIN dev
  <2>1. s.valid /\ Max({idCnt} \cup DOMAIN reg) < MaxId
    BY DEF AddConnector
  <2> QED BY <2>1, AddFacts
<1>2. /\ reg' = a.reg /\ run' = a.run /\ idCnt' = a.idCnt
      /\ \E ok \in BOOLEAN :
           /\ cfgmgrj_save_cfg(ok, dev, a.reg)
           /\ told' = IF ok THEN Put(told, a.id, s) ELSE told
      /\ UNCHANGED <<phase, dev, linked, busy, stack, open, stops>>
  BY DEF AddConnector, SetCons
<1> HIDE DEF a
<1>3. /\ reg' \in Partial(ConId, Setting) /\ run' \in Partial(ConId, Setting)
      /\ DOMAIN reg' = DOMAIN reg \cup {a.id}
      /\ DOMAIN run' \subseteq DOMAIN run \cup {a.id}
      /\ \A i \in DOMAIN run' : run'[i].dev \in DOMAIN dev
  <2>1. reg \in Partial(ConId, Setting) /\ run \in Partial(ConId, Setting)
    BY <1>0 DEF MemoryOK
  <2>2. reg' \in Partial(ConId, Setting) /\ DOMAIN reg' = DOMAIN reg \cup {a.id}
    <3>1. a.id \in ConId
      BY <1>1
    <3>2. /\ Put(reg, a.id, s) \in Partial(ConId, Setting)
          /\ DOMAIN Put(reg, a.id, s) = DOMAIN reg \cup {a.id}
      <4>1. Put(reg, a.id, s) \in Partial(ConId, Setting)
        BY <2>1, <3>1, PutFacts
      <4> QED BY <4>1 DEF Put
    <3> QED BY <1>1, <1>2, <3>2
  <2>3. CASE run' = run
    BY <2>1, <2>2, <2>3, <1>0 DEF MemoryOK
  <2>4. CASE run' = Put(run, a.id, s) /\ s.dev \in DOMAIN dev
    <3>1. /\ run' \in Partial(ConId, Setting) /\ DOMAIN run' = DOMAIN run \cup {a.id}
          /\ run'[a.id] = s
          /\ \A y \in DOMAIN run : y # a.id => run'[y] = run[y]
      <4> DEFINE p == Put(run, a.id, s)
      <4>1. a.id \in ConId
        BY <1>1
      <4>2. /\ p \in Partial(ConId, Setting) /\ DOMAIN p = DOMAIN run \cup {a.id}
            /\ p[a.id] = s
            /\ \A y \in DOMAIN run : y # a.id => p[y] = run[y]
        <5>1. p \in Partial(ConId, Setting)
          BY <2>1, <4>1, PutFacts
        <5> QED BY <5>1 DEF Put
      <4> HIDE DEF p
      <4>3. run' = p
        BY <2>4 DEF p
      <4> QED BY <4>2, <4>3
    <3> QED BY <2>2, <2>4, <3>1, <1>0 DEF MemoryOK
  <2> QED BY <1>1, <1>2, <2>3, <2>4
<1>4. \A i \in DOMAIN reg' \cup DOMAIN run' : i <= idCnt'
  <2>1. /\ \A i \in DOMAIN reg \cup DOMAIN run : i \in Nat /\ i <= idCnt
        /\ idCnt \in Nat /\ a.id \in Nat /\ a.idCnt \in Nat
    BY <1>1, RegTypes DEF ConId
  <2> QED BY <1>1, <1>2, <1>3, <2>1
<1>5. MemoryOK'
  BY <1>0, <1>1, <1>2, <1>3, <1>4 DEF MemoryOK, Unique
<1>6. WaitersOK'
  BY <1>0, <1>2, WaitersSame
<1>7. RestOK'
  <2>1. PICK ok \in BOOLEAN : /\ cfgmgrj_save_cfg(ok, dev, a.reg)
                              /\ told' = IF ok THEN Put(told, a.id, s) ELSE told
    BY <1>2
  <2>2. file' \in File /\ fails' \in 0..MaxFail
    BY <1>0, <1>2, <1>3, <2>1, SaveFacts DEF MemoryOK
  <2>3. told' \in Partial(ConId, Setting)
    BY <1>0, <1>1, <2>1, PutFacts DEF RestOK
  <2> QED BY <1>0, <1>2, <2>2, <2>3 DEF RestOK
<1> QED BY <1>5, <1>6, <1>7, PartsNext

LEMMA RemoveConnectorInv ==
  ASSUME ConfigInv, NEW c \in Client, NEW id \in ConId, RemoveConnector(c, id)
  PROVE  ConfigInv'
<1>0. MemoryOK /\ WaitersOK /\ RestOK
  BY Parts
<1>1. /\ reg' = Without(reg, {id}) /\ run' = Without(run, {id})
      /\ told' = Without(told, {id})
      /\ \E ok \in BOOLEAN : cfgmgrj_save_cfg(ok, dev, reg')
      /\ UNCHANGED <<phase, dev, linked, idCnt, busy, stack, open, stops>>
  BY DEF RemoveConnector
<1>2. /\ reg' \in Partial(ConId, Setting) /\ DOMAIN reg' = DOMAIN reg \ {id}
      /\ \A i \in DOMAIN reg' : reg'[i] = reg[i]
  <2>1. reg' \in Partial(ConId, Setting)
    BY <1>0, <1>1, WithoutFacts DEF MemoryOK
  <2> QED BY <1>1, <2>1 DEF Without, Restrict
<1>3. /\ run' \in Partial(ConId, Setting) /\ DOMAIN run' = DOMAIN run \ {id}
      /\ \A i \in DOMAIN run' : run'[i] = run[i]
  <2>1. run' \in Partial(ConId, Setting)
    BY <1>0, <1>1, WithoutFacts DEF MemoryOK
  <2> QED BY <1>1, <2>1 DEF Without, Restrict
<1>4. told' \in Partial(ConId, Setting)
  BY <1>0, <1>1, WithoutFacts DEF RestOK
<1>5. MemoryOK'
  BY <1>0, <1>1, <1>2, <1>3 DEF MemoryOK, Unique
<1>6. WaitersOK'
  BY <1>0, <1>1, WaitersSame
<1>7. RestOK'
  <2>1. PICK ok \in BOOLEAN : cfgmgrj_save_cfg(ok, dev, reg')
    BY <1>1
  <2>2. file' \in File /\ fails' \in 0..MaxFail
    BY <1>0, <1>2, <2>1, SaveFacts DEF MemoryOK
  <2> QED BY <1>0, <1>1, <1>4, <2>2 DEF RestOK
<1> QED BY <1>5, <1>6, <1>7, PartsNext

\* A keyer is removed only while nobody waits, and its connectors stop with it.
LEMMA RemoveDeviceInv ==
  ASSUME ConfigInv, NEW c \in Client, NEW d \in Dev, RemoveDevice(c, d)
  PROVE  ConfigInv'
<1> DEFINE own == {i \in DOMAIN reg : reg[i].dev = d}
           ran == {i \in DOMAIN run : run[i].dev = d}
<1>0. MemoryOK /\ WaitersOK /\ RestOK
  BY Parts
<1>1. /\ reg' = Without(reg, own) /\ run' = Without(run, ran) /\ told' = Without(told, own)
      /\ dev' = Without(dev, {d}) /\ busy = 0 /\ d \notin linked
      /\ \E ok \in BOOLEAN : cfgmgrj_save_cfg(ok, dev', reg')
      /\ UNCHANGED <<phase, linked, idCnt, busy, stack, open, stops>>
  BY DEF RemoveDevice
<1> HIDE DEF own
<1>2. reg' \in Partial(ConId, Setting) /\ DOMAIN reg' = DOMAIN reg \ own
  <2>1. reg' \in Partial(ConId, Setting)
    BY <1>0, <1>1, WithoutFacts DEF MemoryOK
  <2> QED BY <1>1, <2>1 DEF Without, Restrict
<1>3. /\ run' \in Partial(ConId, Setting) /\ DOMAIN run' = DOMAIN run \ ran
      /\ \A i \in DOMAIN run' : run'[i] = run[i]
  <2> HIDE DEF ran
  <2>1. run' \in Partial(ConId, Setting)
    BY <1>0, <1>1, WithoutFacts DEF MemoryOK
  <2> QED BY <1>1, <2>1 DEF Without, Restrict
<1>4. told' \in Partial(ConId, Setting)
  BY <1>0, <1>1, WithoutFacts DEF RestOK
<1>5. /\ dev' \in Partial(Dev, Names) /\ DOMAIN dev' = DOMAIN dev \ {d}
      /\ \A e \in DOMAIN dev' : dev'[e] = dev[e]
  <2>1. dev' \in Partial(Dev, Names)
    BY <1>0, <1>1, WithoutFacts DEF MemoryOK
  <2> QED BY <1>1, <2>1 DEF Without, Restrict
<1>6. MemoryOK'
  <2>1. \A i \in DOMAIN run' : run'[i].dev \in DOMAIN dev'
    BY <1>0, <1>3, <1>5 DEF MemoryOK
  <2>2. Unique(dev')
    BY <1>0, <1>5 DEF MemoryOK, Unique
  <2>3. \A i \in DOMAIN reg' \cup DOMAIN run' : i <= idCnt'
    BY <1>0, <1>1, <1>2, <1>3 DEF MemoryOK
  <2> QED BY <1>0, <1>1, <1>2, <1>3, <1>5, <2>1, <2>2, <2>3 DEF MemoryOK
<1>7. WaitersOK'
  <2>1. stack = <<>> /\ stack' = <<>> /\ busy' = 0
    BY <1>0, <1>1, EmptySeq DEF WaitersOK
  <2> QED BY <2>1 DEF WaitersOK
<1>8. RestOK'
  <2>1. PICK ok \in BOOLEAN : cfgmgrj_save_cfg(ok, dev', reg')
    BY <1>1
  <2>2. file' \in File /\ fails' \in 0..MaxFail
    BY <1>0, <1>2, <1>5, <2>1, SaveFacts
  <2> QED BY <1>0, <1>1, <1>4, <2>2 DEF RestOK
<1> QED BY <1>6, <1>7, <1>8, PartsNext

LEMMA MemoryGrows ==
  ASSUME MemoryOK, UNCHANGED <<linked, reg, run, idCnt>>,
         dev' \in Partial(Dev, Names), Unique(dev'), DOMAIN dev \subseteq DOMAIN dev'
  PROVE  MemoryOK'
BY DEF MemoryOK

LEMMA WaitersPush ==
  ASSUME WaitersOK, NEW f \in Frame, stack' = Append(stack, f), busy' = busy + 1,
         DOMAIN dev \subseteq DOMAIN dev', Head(f.todo).dev \in DOMAIN dev'
  PROVE  WaitersOK'
<1>1. /\ stack' \in Seq(Frame) /\ Len(stack') = Len(stack) + 1
      /\ \A k \in 1..Len(stack) : stack'[k] = stack[k]
      /\ stack'[Len(stack) + 1] = f
  BY AppendProperties DEF WaitersOK
<1>2. \A k \in DOMAIN stack' : k \in 1..Len(stack) \/ k = Len(stack) + 1
  BY <1>1, LenProperties DEF WaitersOK
<1>3. \A k \in 1..Len(stack) : Head(stack[k].todo).dev \in DOMAIN dev
  BY LenProperties DEF WaitersOK
<1>4. \A k \in DOMAIN stack' : Head(stack'[k].todo).dev \in DOMAIN dev'
  BY <1>1, <1>2, <1>3
<1> QED BY <1>1, <1>4 DEF WaitersOK

LEMMA WaitersPop ==
  ASSUME WaitersOK, Len(stack) > 0, stack' = Front(stack), busy' = busy - 1,
         UNCHANGED dev
  PROVE  WaitersOK'
<1>0. stack \in Seq(Frame) /\ Len(stack) \in Nat /\ busy = Len(stack)
  BY LenProperties DEF WaitersOK
<1>1. \A k \in 1..(Len(stack) - 1) : stack[k] \in Frame
  BY <1>0, ElementOfSeq
<1>2. /\ stack' \in Seq(Frame) /\ Len(stack') = Len(stack) - 1
      /\ \A k \in 1..(Len(stack) - 1) : stack'[k] = stack[k]
  BY <1>0, <1>1, SubSeqProperties DEF Front
<1>3. DOMAIN stack' = 1..(Len(stack) - 1) /\ DOMAIN stack = 1..Len(stack)
  BY <1>0, <1>2, LenProperties
<1>4. \A k \in 1..(Len(stack) - 1) : Head(stack[k].todo).dev \in DOMAIN dev
  BY <1>0, <1>3 DEF WaitersOK
<1>5. \A k \in DOMAIN stack' : Head(stack'[k].todo).dev \in DOMAIN dev'
  BY <1>2, <1>3, <1>4
<1> QED BY <1>0, <1>2, <1>5 DEF WaitersOK

LEMMA WaitersSet ==
  ASSUME WaitersOK, NEW k \in DOMAIN stack, NEW f \in Frame, stack' = [stack EXCEPT ![k] = f],
         busy' = busy, DOMAIN dev \subseteq DOMAIN dev', Head(f.todo).dev \in DOMAIN dev'
  PROVE  WaitersOK'
<1>0. stack \in Seq(Frame) /\ busy = Len(stack)
  BY DEF WaitersOK
<1>1. /\ stack' \in Seq(Frame) /\ Len(stack') = Len(stack) /\ DOMAIN stack' = DOMAIN stack
      /\ stack'[k] = f
      /\ \A i \in DOMAIN stack \ {k} : stack'[i] = stack[i]
  BY <1>0, ExceptSeq
<1>2. \A i \in DOMAIN stack' : Head(stack'[i].todo).dev \in DOMAIN dev'
  BY <1>1 DEF WaitersOK
<1> QED BY <1>0, <1>1, <1>2 DEF WaitersOK

\* What the code does on the way into the loop that waits for f's first keyer.
LEMMA WaitingFacts ==
  ASSUME NEW f \in Frame
  PROVE  Waiting(f) \in Frame /\ Waiting(f).todo = f.todo /\ Waiting(f).kind = f.kind
<1>1. NameTaken(dev, Head(f.todo)) \in BOOLEAN
  BY DEF NameTaken, NameFree
<1>2. f.bad \in BOOLEAN
  BY FrameFacts
<1> DEFINE b == f.bad \/ NameTaken(dev, Head(f.todo))
<1>3. b \in BOOLEAN
  BY <1>1, <1>2
<1>4. Waiting(f) = [f EXCEPT !.got = FALSE, !.bad = b]
  BY DEF Waiting
<1> HIDE DEF b
<1> QED BY <1>3, <1>4 DEF Frame

LEMMA UpdateInv ==
  ASSUME ConfigInv, NEW c \in Client, NEW u \in Update, UpdateDevices(c, u)
  PROVE  ConfigInv'
<1> DEFINE f == [kind |-> "apply", client |-> c, todo |-> u, got |-> FALSE, bad |-> FALSE]
<1>0. MemoryOK /\ WaitersOK /\ RestOK
  BY Parts
<1>1. /\ stack' = Append(stack, Waiting(f)) /\ dev' = ApplyDevice(dev, Head(u))
      /\ busy' = busy + 1 /\ open' = open \cup {c}
      /\ UNCHANGED <<phase, linked, reg, run, idCnt, file, told, fails, stops>>
  BY DEF UpdateDevices
<1>2. u \in Seq(KeyerUpdate) /\ u # <<>>
  BY ConstAssumption
<1>3. f \in Frame /\ f.todo = u
  BY <1>2 DEF Frame
<1> HIDE DEF f
<1>4. Waiting(f) \in Frame /\ Waiting(f).todo = u
  BY <1>3, WaitingFacts
<1>5. Head(u) \in KeyerUpdate
  BY <1>2, HeadTailProperties
<1>6. /\ dev' \in Partial(Dev, Names) /\ Unique(dev')
      /\ DOMAIN dev' = DOMAIN dev \cup {Head(u).dev}
  BY <1>0, <1>1, <1>5, ApplyDeviceFacts DEF MemoryOK
<1>7. MemoryOK'
  BY <1>0, <1>1, <1>6, MemoryGrows
<1>8. WaitersOK'
  BY <1>0, <1>1, <1>4, <1>6, WaitersPush
<1>9. RestOK'
  BY <1>0, <1>1 DEF RestOK
<1> QED BY <1>7, <1>8, <1>9, PartsNext

LEMMA StationMasterInv ==
  ASSUME ConfigInv, NEW c \in Client, NEW d \in Dev, StationMaster(c, d)
  PROVE  ConfigInv'
<1> DEFINE e == [dev |-> d, name |-> "keep"]
           f == [kind |-> "sm", client |-> c, todo |-> <<e>>, got |-> FALSE, bad |-> FALSE]
<1>0. MemoryOK /\ WaitersOK /\ RestOK
  BY Parts
<1>1. /\ stack' = Append(stack, f) /\ d \in DOMAIN dev
      /\ busy' = busy + 1 /\ open' = open \cup {c}
      /\ UNCHANGED <<phase, memVars, file, told, fails, stops>>
  BY DEF StationMaster
<1>2. e \in KeyerUpdate /\ e.dev = d
  BY DEF KeyerUpdate
<1>3. <<e>> \in Seq(KeyerUpdate) /\ <<e>> # <<>> /\ Head(<<e>>) = e
  <2> HIDE DEF e
  <2> QED BY <1>2
<1>4. f \in Frame /\ f.todo = <<e>>
  <2> HIDE DEF e
  <2> QED BY <1>3 DEF Frame
<1> HIDE DEF e, f
<1>5. MemoryOK'
  BY <1>0, <1>1, MemorySame
<1>6. WaitersOK'
  <2>1. Head(f.todo).dev \in DOMAIN dev' /\ DOMAIN dev \subseteq DOMAIN dev'
    BY <1>1, <1>2, <1>3, <1>4 DEF memVars
  <2> QED BY <1>0, <1>1, <1>4, <2>1, WaitersPush
<1>7. RestOK'
  BY <1>0, <1>1 DEF RestOK
<1> QED BY <1>5, <1>6, <1>7, PartsNext

LEMMA CompleteInv ==
  ASSUME ConfigInv, NEW k \in Nat, NEW ok \in BOOLEAN, Complete(k, ok)
  PROVE  ConfigInv'
<1> DEFINE f == [stack[k] EXCEPT !.got = TRUE, !.bad = @ \/ ~ok]
<1>0. MemoryOK /\ WaitersOK /\ RestOK
  BY Parts
<1>1. /\ k \in DOMAIN stack
      /\ stack' = [stack EXCEPT ![k].got = TRUE, ![k].bad = @ \/ ~ok]
      /\ UNCHANGED <<phase, memVars, busy, file, open, told, fails, stops>>
  BY DEF Complete
<1>2. stack[k] \in Frame
  BY <1>0, <1>1, ElementOfSeq, LenProperties DEF WaitersOK
<1>3. f \in Frame /\ f.todo = stack[k].todo
  <2>1. stack[k].bad \in BOOLEAN
    BY <1>2, FrameFacts
  <2> DEFINE b == stack[k].bad \/ ~ok
  <2>2. b \in BOOLEAN
    BY <2>1
  <2>3. f = [stack[k] EXCEPT !.got = TRUE, !.bad = b]
    OBVIOUS
  <2> HIDE DEF b, f
  <2> QED BY <1>2, <2>2, <2>3 DEF Frame
<1>4. stack' = [stack EXCEPT ![k] = f]
  BY <1>1
<1> HIDE DEF f
<1>5. MemoryOK'
  BY <1>0, <1>1, MemorySame
<1>6. WaitersOK'
  <2>1. Head(f.todo).dev \in DOMAIN dev' /\ DOMAIN dev \subseteq DOMAIN dev' /\ busy' = busy
    BY <1>0, <1>1, <1>3 DEF memVars, WaitersOK
  <2> QED BY <1>0, <1>1, <1>3, <1>4, <2>1, WaitersSet
<1>7. RestOK'
  BY <1>0, <1>1, RestSame
<1> QED BY <1>5, <1>6, <1>7, PartsNext

LEMMA ReadyFacts ==
  ASSUME WaitersOK, NEW k, Ready(k)
  PROVE  k = Len(stack) /\ k \in DOMAIN stack /\ Len(stack) > 0 /\ stack[k] \in Frame
<1>1. stack \in Seq(Frame) /\ k = Len(stack) /\ k > 0
  BY DEF WaitersOK, Ready
<1>2. k \in 1..Len(stack) /\ DOMAIN stack = 1..Len(stack)
  BY <1>1, LenProperties
<1> QED BY <1>1, <1>2, ElementOfSeq

LEMMA NextDeviceInv ==
  ASSUME ConfigInv, NEW k \in Nat, NextDevice(k)
  PROVE  ConfigInv'
<1> DEFINE f == [stack[k] EXCEPT !.todo = Tail(@)]
<1>0. MemoryOK /\ WaitersOK /\ RestOK
  BY Parts
<1>1. /\ Ready(k) /\ Len(stack[k].todo) > 1
      /\ stack' = [stack EXCEPT ![k] = Waiting(f)] /\ dev' = ApplyDevice(dev, Head(f.todo))
      /\ UNCHANGED <<phase, linked, reg, run, idCnt, busy, file, open, told, fails, stops>>
  BY DEF NextDevice
<1>2. k \in DOMAIN stack /\ stack[k] \in Frame
  BY <1>0, <1>1, ReadyFacts
<1>3. f \in Frame
  <2> DEFINE t == Tail(stack[k].todo)
  <2>1. stack[k].todo \in Seq(KeyerUpdate) /\ stack[k].todo # <<>>
    BY <1>2, FrameFacts
  <2>2. t \in Seq(KeyerUpdate) /\ Len(t) > 0
    BY <1>1, <2>1, HeadTailProperties
  <2>3. t \in Seq(KeyerUpdate) \ {<<>>}
    <3> HIDE DEF t
    <3> QED BY <2>2, EmptySeq
  <2>4. f = [stack[k] EXCEPT !.todo = t]
    OBVIOUS
  <2> HIDE DEF t, f
  <2> QED BY <1>2, <2>3, <2>4 DEF Frame
<1> HIDE DEF f
<1>4. Waiting(f) \in Frame /\ Waiting(f).todo = f.todo
  BY <1>3, WaitingFacts
<1>5. Head(f.todo) \in KeyerUpdate
  BY <1>3, FrameFacts
<1>6. /\ dev' \in Partial(Dev, Names) /\ Unique(dev')
      /\ DOMAIN dev' = DOMAIN dev \cup {Head(f.todo).dev}
  BY <1>0, <1>1, <1>5, ApplyDeviceFacts DEF MemoryOK
<1>7. MemoryOK'
  BY <1>0, <1>1, <1>6, MemoryGrows
<1>8. WaitersOK'
  BY <1>0, <1>1, <1>2, <1>4, <1>6, WaitersSet
<1>9. RestOK'
  BY <1>0, <1>1, RestSame
<1> QED BY <1>7, <1>8, <1>9, PartsNext

LEMMA FinishInv ==
  ASSUME ConfigInv, NEW k \in Nat, Finish(k)
  PROVE  ConfigInv'
<1>0. MemoryOK /\ WaitersOK /\ RestOK
  BY Parts
<1>1. /\ Ready(k) /\ stack' = Front(stack) /\ busy' = busy - 1
      /\ open' \subseteq open
      /\ \/ UNCHANGED <<file, fails>>
         \/ \E ok \in BOOLEAN : cfgmgrj_save_cfg(ok, dev, reg)
      /\ UNCHANGED <<phase, memVars, told, stops>>
  BY DEF Finish
<1>2. MemoryOK'
  BY <1>0, <1>1, MemorySame
<1>3. WaitersOK'
  BY <1>0, <1>1, ReadyFacts, WaitersPop DEF memVars
<1>4. file' \in File /\ fails' \in 0..MaxFail
  <2>1. CASE UNCHANGED <<file, fails>>
    BY <1>0, <2>1 DEF RestOK
  <2>2. CASE \E ok \in BOOLEAN : cfgmgrj_save_cfg(ok, dev, reg)
    BY <1>0, <2>2, SaveFacts DEF MemoryOK
  <2> QED BY <1>1, <2>1, <2>2
<1>5. RestOK'
  BY <1>0, <1>1, <1>4 DEF RestOK
<1> QED BY <1>2, <1>3, <1>5, PartsNext

LEMMA LoadMemory ==
  ASSUME ConfigInv, NEW known, known \subseteq DOMAIN dev, UNCHANGED <<dev, linked>>,
         SetCons(LoadConnectors(Connectors, file.con, known))
  PROVE  MemoryOK'
<1> DEFINE c == LoadConnectors(Connectors, file.con, known)
<1>0. MemoryOK /\ RestOK
  BY Parts
<1>1. /\ c.reg = Over(file.con, reg)
      /\ c.idCnt \in 0..MaxId /\ c.idCnt >= idCnt
      /\ \A i \in DOMAIN file.con : i <= c.idCnt
      /\ \E D \in SUBSET DOMAIN file.con :
           /\ c.run = Over(Restrict(file.con, D), run)
           /\ \A i \in D : file.con[i].dev \in known
  BY LoadFacts
<1>2. reg' = c.reg /\ run' = c.run /\ idCnt' = c.idCnt
  BY DEF SetCons
<1> HIDE DEF c
<1>3. PICK D \in SUBSET DOMAIN file.con :
           /\ run' = Over(Restrict(file.con, D), run)
           /\ \A i \in D : file.con[i].dev \in known
  BY <1>1, <1>2
<1>4. file.con \in Partial(ConId, Setting)
  BY <1>0 DEF RestOK, File
<1>5. Restrict(file.con, D) \in Partial(ConId, Setting)
  BY <1>4, RestrictFacts
<1>6. reg' \in Partial(ConId, Setting) /\ run' \in Partial(ConId, Setting)
  <2>1. reg \in Partial(ConId, Setting) /\ run \in Partial(ConId, Setting)
    BY <1>0 DEF MemoryOK
  <2>2. Over(file.con, reg) \in Partial(ConId, Setting)
    BY <1>4, <2>1, OverFacts
  <2>3. Over(Restrict(file.con, D), run) \in Partial(ConId, Setting)
    BY <1>5, <2>1, OverFacts
  <2> QED BY <1>1, <1>2, <1>3, <2>2, <2>3
<1>7. DOMAIN reg' = DOMAIN file.con \cup DOMAIN reg /\ DOMAIN run' = D \cup DOMAIN run
  BY <1>1, <1>2, <1>3 DEF Over, Restrict
<1>8. \A i \in DOMAIN run' : run'[i].dev \in DOMAIN dev
  <2>1. \A i \in D : run'[i] = file.con[i]
    BY <1>3 DEF Over, Restrict
  <2>2. \A i \in DOMAIN run \ D : run'[i] = run[i]
    BY <1>3 DEF Over, Restrict
  <2>3. \A i \in DOMAIN run : run[i].dev \in DOMAIN dev
    BY <1>0 DEF MemoryOK
  <2> QED BY <1>3, <1>7, <2>1, <2>2, <2>3
<1>9. \A i \in DOMAIN reg' \cup DOMAIN run' : i <= idCnt'
  <2>1. /\ \A i \in DOMAIN reg \cup DOMAIN run : i \in Nat /\ i <= idCnt
        /\ idCnt \in Nat /\ idCnt' \in Nat /\ idCnt <= idCnt'
    BY <1>1, <1>2, RegTypes
  <2>2. \A i \in DOMAIN file.con : i <= idCnt'
    BY <1>1, <1>2
  <2>3. \A i \in DOMAIN reg \cup DOMAIN run : i <= idCnt'
    BY <2>1
  <2> QED BY <1>3, <1>7, <2>2, <2>3
<1> QED BY <1>0, <1>1, <1>2, <1>6, <1>8, <1>9 DEF MemoryOK

LEMMA LoadedInv ==
  ASSUME ConfigInv, NEW k \in Nat, Loaded(k)
  PROVE  ConfigInv'
<1>0. MemoryOK /\ WaitersOK /\ RestOK
  BY Parts
<1>1. /\ Ready(k) /\ stack' = Front(stack) /\ busy' = busy - 1 /\ phase' = "up"
      /\ SetCons(LoadConnectors(Connectors, file.con, DOMAIN dev))
      /\ UNCHANGED <<dev, linked, file, open, told, fails, stops>>
  BY DEF Loaded
<1>2. MemoryOK'
  BY <1>1, LoadMemory
<1>3. WaitersOK'
  BY <1>0, <1>1, ReadyFacts, WaitersPop
<1>4. RestOK'
  BY <1>0, <1>1 DEF RestOK
<1> QED BY <1>2, <1>3, <1>4, PartsNext

LEMMA PlugInv ==
  ASSUME ConfigInv, NEW d \in UsbDev, Plug(d) \/ Unplug(d)
  PROVE  ConfigInv'
<1>0. MemoryOK /\ WaitersOK /\ RestOK /\ d \in Dev
  BY Parts, ConstAssumption
<1>1. CASE Plug(d)
  <2>1. /\ dev' = AddDevice(dev, d) /\ linked' = linked \cup {d}
        /\ UNCHANGED <<phase, reg, run, idCnt, busy, stack, file, open, told, fails, stops>>
    BY <1>1 DEF Plug
  <2>2. /\ dev' \in Partial(Dev, Names) /\ Unique(dev')
        /\ DOMAIN dev' = DOMAIN dev \cup {d}
    BY <1>0, <2>1, AddDeviceFacts DEF MemoryOK
  <2>3. MemoryOK'
    BY <1>0, <2>1, <2>2 DEF MemoryOK
  <2>4. WaitersOK' /\ RestOK'
    BY <1>0, <2>1, <2>2, WaitersSame, RestSame
  <2> QED BY <2>3, <2>4, PartsNext
<1>2. CASE Unplug(d)
  <2>1. /\ linked' = linked \ {d}
        /\ UNCHANGED <<phase, dev, reg, run, idCnt, busy, stack, file, open, told, fails, stops>>
    BY <1>2 DEF Unplug
  <2>2. MemoryOK'
    BY <1>0, <2>1 DEF MemoryOK, Unique
  <2>3. WaitersOK' /\ RestOK'
    BY <1>0, <2>1, WaitersSame, RestSame
  <2> QED BY <2>2, <2>3, PartsNext
<1> QED BY <1>1, <1>2

\* What a process starts with is right.
LEMMA FreshFacts ==
  ASSUME dev' = Empty, linked' = {}, reg' = Empty, run' = Empty, idCnt' = 0,
         busy' = 0, stack' = <<>>
  PROVE  MemoryOK' /\ WaitersOK'
<1>1. /\ dev' \in Partial(Dev, Names) /\ reg' \in Partial(ConId, Setting)
      /\ run' \in Partial(ConId, Setting)
      /\ DOMAIN dev' = {} /\ DOMAIN reg' = {} /\ DOMAIN run' = {}
  BY EmptyFacts
<1>2. MemoryOK'
  BY <1>1, MaxIdNat DEF MemoryOK, Unique
<1>3. WaitersOK'
  BY DEF WaitersOK
<1> QED BY <1>2, <1>3

LEMMA StopInv ==
  ASSUME ConfigInv, Crash \/ Terminate
  PROVE  ConfigInv'
<1>0. MemoryOK /\ WaitersOK /\ RestOK
  BY Parts
<1>1. /\ Stopped
      /\ \/ UNCHANGED <<file, fails>>
         \/ \E ok \in BOOLEAN : cfgmgrj_save_cfg(ok, dev, reg)
  BY DEF Crash, Terminate
<1>2. /\ stops < MaxStop /\ stops' = stops + 1 /\ phase' = "down"
      /\ dev' = Empty /\ linked' = {} /\ reg' = Empty /\ run' = Empty /\ idCnt' = 0
      /\ busy' = 0 /\ stack' = <<>> /\ open' = {} /\ UNCHANGED told
  BY <1>1 DEF Stopped
<1>3. MemoryOK' /\ WaitersOK'
  BY <1>2, FreshFacts
<1>4. file' \in File /\ fails' \in 0..MaxFail
  <2>1. CASE UNCHANGED <<file, fails>>
    BY <1>0, <2>1 DEF RestOK
  <2>2. CASE \E ok \in BOOLEAN : cfgmgrj_save_cfg(ok, dev, reg)
    BY <1>0, <2>2, SaveFacts DEF MemoryOK
  <2> QED BY <1>1, <2>1, <2>2
<1>5. RestOK'
  BY <1>0, <1>2, <1>4, MaxIdNat DEF RestOK
<1> QED BY <1>3, <1>5, PartsNext

LEMMA StartInv ==
  ASSUME ConfigInv, Start
  PROVE  ConfigInv'
<1>0. MemoryOK /\ WaitersOK /\ RestOK
  BY Parts
<1>1. CASE DOMAIN file.dev = {}
  <2>1. /\ SetCons(LoadConnectors(Connectors, file.con, {})) /\ phase' = "up"
        /\ UNCHANGED <<dev, busy, stack, linked, file, open, told, fails, stops>>
    BY <1>1 DEF Start
  <2>2. MemoryOK'
    BY <2>1, LoadMemory
  <2>3. WaitersOK' /\ RestOK'
    BY <1>0, <2>1, WaitersSame DEF RestOK
  <2> QED BY <2>2, <2>3, PartsNext
<1>2. CASE DOMAIN file.dev # {}
  <2> DEFINE s == SetToSeq(DOMAIN file.dev)
             u == [k \in DOMAIN s |-> [dev |-> s[k], name |-> file.dev[s[k]]]]
             f == [kind |-> "load", client |-> NoClient, todo |-> u, got |-> FALSE, bad |-> FALSE]
  <2>1. /\ stack' = <<f>> /\ dev' = ApplyDevice(dev, Head(u)) /\ busy' = 1
        /\ phase' = "loading"
        /\ UNCHANGED <<reg, run, idCnt, linked, file, open, told, fails, stops>>
    BY <1>2 DEF Start
  <2>2. file.dev \in Partial(Dev, Names)
    BY <1>0 DEF RestOK, File, Names
  <2>3. /\ DOMAIN file.dev \subseteq Dev
        /\ \A d \in DOMAIN file.dev : file.dev[d] \in Names
    BY <2>2, PartialFacts
  <2>4. s \in Seq(DOMAIN file.dev) /\ s # <<>>
    <3>1. IsFiniteSet(DOMAIN file.dev)
      BY <2>3, ConstAssumption, FS_Subset
    <3> QED BY <1>2, <3>1, SetToSeqFacts
  <2> HIDE DEF s
  <2>5. /\ DOMAIN s = 1..Len(s) /\ Len(s) \in Nat \ {0}
        /\ \A k \in 1..Len(s) : s[k] \in DOMAIN file.dev
    BY <2>4, LenProperties, ElementOfSeq, EmptySeq
  <2>6. u \in [1..Len(s) -> KeyerUpdate]
    BY <2>3, <2>5 DEF KeyerUpdate, Names
  <2> HIDE DEF u
  <2>7. u \in Seq(KeyerUpdate) /\ u # <<>>
    BY <2>5, <2>6, EmptySeq
  <2>8. f \in Frame /\ f.todo = u /\ f.kind = "load"
    BY <2>7 DEF Frame
  <2> HIDE DEF f
  <2>9. Head(u) \in KeyerUpdate
    BY <2>7, HeadTailProperties
  <2>10. /\ dev' \in Partial(Dev, Names) /\ Unique(dev')
         /\ DOMAIN dev' = DOMAIN dev \cup {Head(u).dev}
    BY <1>0, <2>1, <2>9, ApplyDeviceFacts DEF MemoryOK
  <2>11. MemoryOK'
    BY <1>0, <2>1, <2>10, MemoryGrows
  <2>12. WaitersOK'
    <3>1. stack' \in Seq(Frame) /\ Len(stack') = 1 /\ DOMAIN stack' = {1} /\ stack'[1] = f
      BY <2>1, <2>8
    <3> QED BY <2>1, <2>8, <2>10, <3>1 DEF WaitersOK
  <2>13. RestOK'
    BY <1>0, <2>1 DEF RestOK
  <2> QED BY <2>11, <2>12, <2>13, PartsNext
<1> QED BY <1>1, <1>2

LEMMA InitInv ==
  ASSUME Init
  PROVE  ConfigInv
<1>1. /\ dev \in Partial(Dev, Names) /\ reg \in Partial(ConId, Setting)
      /\ run \in Partial(ConId, Setting) /\ told \in Partial(ConId, Setting)
      /\ DOMAIN dev = {} /\ DOMAIN reg = {} /\ DOMAIN run = {}
  BY EmptyFacts DEF Init
<1>2. MemoryOK
  BY <1>1, MaxIdNat DEF MemoryOK, Unique, Init
<1>3. WaitersOK
  BY DEF WaitersOK, Init
<1>4. RestOK
  BY <1>1, MaxIdNat, ConstAssumption DEF RestOK, Init
<1> QED BY <1>2, <1>3, <1>4, Parts

LEMMA StutterInv ==
  ASSUME ConfigInv, UNCHANGED vars
  PROVE  ConfigInv'
<1>0. MemoryOK /\ WaitersOK /\ RestOK
  BY Parts
<1>1. UNCHANGED memVars /\ UNCHANGED <<busy, stack>> /\ UNCHANGED <<phase, file, open, told, fails, stops>>
  BY DEF vars
<1>2. DOMAIN dev \subseteq DOMAIN dev'
  BY <1>1 DEF memVars
<1> QED BY <1>0, <1>1, <1>2, MemorySame, WaitersSame, RestSame, PartsNext

LEMMA RequestInv ==
  ASSUME ConfigInv, NEW c \in Client, RequestNext(c)
  PROVE  ConfigInv'
BY AddInv, RemoveConnectorInv, RemoveDeviceInv, StationMasterInv, UpdateInv DEF RequestNext

LEMMA LoopInv ==
  ASSUME ConfigInv, NEW k \in Depth, Resume(k) \/ \E ok \in BOOLEAN : Complete(k, ok)
  PROVE  ConfigInv'
<1>1. k \in Nat
  BY DEF Depth
<1> QED BY <1>1, NextDeviceInv, FinishInv, LoadedInv, CompleteInv DEF Resume

\* ConfigInv is inductive, whether requests are served during loading or not.
THEOREM ConfigInductive == Spec => []ConfigInv
<1>1. Init => ConfigInv
  BY InitInv
<1>2. ConfigInv /\ [Next]_vars => ConfigInv'
  <2> SUFFICES ASSUME ConfigInv, [Next]_vars PROVE ConfigInv'
    OBVIOUS
  <2>1. ASSUME NEW c \in Client, RequestNext(c) PROVE ConfigInv'
    BY <2>1, RequestInv
  <2>2. ASSUME NEW k \in Depth, Resume(k) \/ \E ok \in BOOLEAN : Complete(k, ok) PROVE ConfigInv'
    BY <2>2, LoopInv
  <2>3. ASSUME NEW d \in UsbDev, Plug(d) \/ Unplug(d) PROVE ConfigInv'
    BY <2>3, PlugInv
  <2>4. CASE Start
    BY <2>4, StartInv
  <2>5. CASE Crash \/ Terminate
    BY <2>5, StopInv
  <2>6. CASE UNCHANGED vars
    BY <2>6, StutterInv
  <2> QED BY <2>1, <2>2, <2>3, <2>4, <2>5, <2>6 DEF Next
<1> QED BY <1>1, <1>2, PTL DEF Spec

\* Memory, requests and file keep their types; busy counts the nested loops.
THEOREM ConfigTypes == Spec => []TypeOK
BY ConfigInductive, PTL DEF ConfigInv

\* A request that waits for a keyer, and a connector that runs, never lose the keyer
\* they refer to.
THEOREM KeyersAreHeld == Spec => []Held
BY ConfigInductive, PTL DEF ConfigInv

\* No interleaving of updates gives two keyers the same name.
THEOREM NamesStayUnique == Spec => []NamesUnique
BY ConfigInductive, PTL DEF ConfigInv

-----------------------------------------------------------------------------
(* What holds if no request is served while the file is loaded. *)

\* Everything f has, g has too.
Sub(f, g) == \A i \in DOMAIN f : i \in DOMAIN g /\ g[i] = f[i]

LEMMA SubPut ==
  ASSUME NEW f, NEW g, Sub(f, g), NEW i, NEW v
  PROVE  /\ Sub(Put(f, i, v), Put(g, i, v))
         /\ i \notin DOMAIN g => Sub(f, Put(g, i, v))
BY DEF Sub, Put

LEMMA SubWithout ==
  ASSUME NEW f, NEW g, Sub(f, g), NEW D
  PROVE  Sub(Without(f, D), Without(g, D)) /\ Sub(Without(f, D), g)
BY DEF Sub, Without, Restrict

LEMMA QuietParts ==
  QuietInv <=> LoadsAlone /\ Sub(run, reg) /\ Sub(told, file.con)
               /\ (phase = "up" => Sub(told, reg))
BY DEF QuietInv, RunsAsRegistered, Durable, Promised, Sub

LEMMA QuietPartsNext ==
  QuietInv' <=> LoadsAlone' /\ Sub(run', reg') /\ Sub(told', file'.con)
                /\ (phase' = "up" => Sub(told', reg'))
BY DEF QuietInv, RunsAsRegistered, Durable, Promised, Sub

LEMMA Up ==
  ASSUME QuietLoad, NEW c, Serving(c)
  PROVE  phase = "up"
BY DEF QuietLoad, Serving

\* A step that saves the registry, or does not.
LEMMA SavedPromise ==
  ASSUME NEW ok \in BOOLEAN, NEW d, cfgmgrj_save_cfg(ok, d, reg'),
         Sub(told', reg'), Sub(told', file.con)
  PROVE  Sub(told', file'.con)
<1>1. CASE ok
  BY <1>1 DEF cfgmgrj_save_cfg
<1>2. CASE ~ok
  BY <1>2 DEF cfgmgrj_save_cfg
<1> QED BY <1>1, <1>2

\* The requests that end at once leave the loops as they are.
LEMMA UpAlone ==
  ASSUME LoadsAlone, phase = "up", UNCHANGED <<phase, stack>>
  PROVE  LoadsAlone'
BY DEF LoadsAlone

LEMMA AddQuiet ==
  ASSUME ConfigInv, QuietInv, QuietLoad, NEW c \in Client, NEW s \in Setting, AddConnector(c, s)
  PROVE  QuietInv'
<1> DEFINE a == apply_connector_from_json(Connectors, s, 0, DOMAIN dev, FALSE)
<1>0. LoadsAlone /\ Sub(run, reg) /\ Sub(told, file.con) /\ Sub(told, reg) /\ phase = "up"
  BY QuietParts, Up DEF AddConnector
<1>1. /\ a.id \notin DOMAIN reg /\ a.reg = Put(reg, a.id, s)
      /\ a.run = run \/ a.run = Put(run, a.id, s)
  <2>1. s.valid /\ Max({idCnt} \cup DOMAIN reg) < MaxId
    BY DEF AddConnector
  <2> QED BY <2>1, AddFacts
<1>2. /\ reg' = a.reg /\ run' = a.run
      /\ \E ok \in BOOLEAN :
           /\ cfgmgrj_save_cfg(ok, dev, a.reg)
           /\ told' = IF ok THEN Put(told, a.id, s) ELSE told
      /\ UNCHANGED <<phase, stack>>
  BY DEF AddConnector, SetCons
<1> HIDE DEF a
<1>3. Sub(run', reg')
  BY <1>0, <1>1, <1>2, SubPut
<1>4. PICK ok \in BOOLEAN : /\ cfgmgrj_save_cfg(ok, dev, reg')
                            /\ told' = IF ok THEN Put(told, a.id, s) ELSE told
  BY <1>2
<1>5. Sub(told', reg')
  BY <1>0, <1>1, <1>2, <1>4, SubPut
<1>6. Sub(told', file'.con)
  <2>1. CASE ok
    BY <1>4, <1>5, <2>1 DEF cfgmgrj_save_cfg
  <2>2. CASE ~ok
    BY <1>0, <1>4, <2>2 DEF cfgmgrj_save_cfg
  <2> QED BY <2>1, <2>2
<1>7. LoadsAlone'
  BY <1>0, <1>2, UpAlone
<1> QED BY <1>3, <1>5, <1>6, <1>7, QuietPartsNext

LEMMA RemoveConnectorQuiet ==
  ASSUME ConfigInv, QuietInv, QuietLoad, NEW c \in Client, NEW id \in ConId, RemoveConnector(c, id)
  PROVE  QuietInv'
<1>0. LoadsAlone /\ Sub(run, reg) /\ Sub(told, file.con) /\ Sub(told, reg) /\ phase = "up"
  BY QuietParts, Up DEF RemoveConnector
<1>1. /\ reg' = Without(reg, {id}) /\ run' = Without(run, {id})
      /\ told' = Without(told, {id})
      /\ \E ok \in BOOLEAN : cfgmgrj_save_cfg(ok, dev, reg')
      /\ UNCHANGED <<phase, stack>>
  BY DEF RemoveConnector
<1>2. Sub(run', reg') /\ Sub(told', reg') /\ Sub(told', file.con)
  BY <1>0, <1>1, SubWithout
<1>3. Sub(told', file'.con)
  BY <1>1, <1>2, SavedPromise
<1>4. LoadsAlone'
  BY <1>0, <1>1, UpAlone
<1> QED BY <1>2, <1>3, <1>4, QuietPartsNext

LEMMA RemoveDeviceQuiet ==
  ASSUME ConfigInv, QuietInv, QuietLoad, NEW c \in Client, NEW d \in Dev, RemoveDevice(c, d)
  PROVE  QuietInv'
<1> DEFINE own == {i \in DOMAIN reg : reg[i].dev = d}
           ran == {i \in DOMAIN run : run[i].dev = d}
<1>0. LoadsAlone /\ Sub(run, reg) /\ Sub(told, file.con) /\ Sub(told, reg) /\ phase = "up"
  BY QuietParts, Up DEF RemoveDevice
<1>1. /\ reg' = Without(reg, own) /\ run' = Without(run, ran) /\ told' = Without(told, own)
      /\ \E ok \in BOOLEAN : cfgmgrj_save_cfg(ok, dev', reg')
      /\ UNCHANGED <<phase, stack>>
  BY DEF RemoveDevice
<1>2. Sub(told', reg') /\ Sub(told', file.con)
  <2> HIDE DEF own
  <2> QED BY <1>0, <1>1, SubWithout
<1>3. Sub(run', reg')
  <2>1. \A i \in DOMAIN run \ ran : i \in DOMAIN reg \ own /\ reg[i] = run[i]
    BY <1>0 DEF Sub
  <2> HIDE DEF own, ran
  <2> QED BY <1>1, <2>1 DEF Sub, Without, Restrict
<1>4. Sub(told', file'.con)
  BY <1>1, <1>2, SavedPromise
<1>5. LoadsAlone'
  BY <1>0, <1>1, UpAlone
<1> QED BY <1>2, <1>3, <1>4, <1>5, QuietPartsNext

\* Requests that wait are not the loading one.
LEMMA PushQuiet ==
  ASSUME ConfigInv, QuietInv, phase = "up", NEW f \in Frame, f.kind # "load",
         stack' = Append(stack, f), UNCHANGED <<phase, reg, run, file, told>>
  PROVE  QuietInv'
<1>0. LoadsAlone /\ Sub(run, reg) /\ Sub(told, file.con) /\ Sub(told, reg)
  BY QuietParts
<1>1. stack \in Seq(Frame)
  BY Parts DEF WaitersOK
<1>2. /\ DOMAIN stack' = 1..(Len(stack) + 1) /\ Len(stack) \in Nat /\ DOMAIN stack = 1..Len(stack)
      /\ \A k \in 1..Len(stack) : stack'[k] = stack[k]
      /\ stack'[Len(stack) + 1] = f
  BY <1>1, AppendProperties, LenProperties
<1>3. \A k \in DOMAIN stack' : stack'[k].kind # "load"
  BY <1>0, <1>2 DEF LoadsAlone
<1>4. LoadsAlone'
  BY <1>3 DEF LoadsAlone
<1>5. Sub(run', reg') /\ Sub(told', file'.con) /\ Sub(told', reg')
  BY <1>0
<1> QED BY <1>4, <1>5, QuietPartsNext

LEMMA UpdateQuiet ==
  ASSUME ConfigInv, QuietInv, QuietLoad, NEW c \in Client, NEW u \in Update, UpdateDevices(c, u)
  PROVE  QuietInv'
<1> DEFINE f == [kind |-> "apply", client |-> c, todo |-> u, got |-> FALSE, bad |-> FALSE]
<1>1. /\ stack' = Append(stack, Waiting(f)) /\ Serving(c)
      /\ UNCHANGED <<phase, reg, run, file, told>>
  BY DEF UpdateDevices
<1>2. u \in Seq(KeyerUpdate) /\ u # <<>>
  BY ConstAssumption
<1>3. f \in Frame /\ f.kind = "apply"
  BY <1>2 DEF Frame
<1> HIDE DEF f
<1>4. Waiting(f) \in Frame /\ Waiting(f).kind # "load"
  BY <1>3, WaitingFacts
<1>5. phase = "up"
  BY <1>1, Up
<1> QED BY <1>1, <1>4, <1>5, PushQuiet

LEMMA StationMasterQuiet ==
  ASSUME ConfigInv, QuietInv, QuietLoad, NEW c \in Client, NEW d \in Dev, StationMaster(c, d)
  PROVE  QuietInv'
<1> DEFINE e == [dev |-> d, name |-> "keep"]
           f == [kind |-> "sm", client |-> c, todo |-> <<e>>, got |-> FALSE, bad |-> FALSE]
<1>1. /\ stack' = Append(stack, f) /\ Serving(c)
      /\ UNCHANGED <<phase, reg, run, file, told>>
  BY DEF StationMaster, memVars
<1>2. e \in KeyerUpdate
  BY DEF KeyerUpdate
<1>3. <<e>> \in Seq(KeyerUpdate) /\ <<e>> # <<>>
  <2> HIDE DEF e
  <2> QED BY <1>2
<1>4. f \in Frame /\ f.kind # "load"
  <2> HIDE DEF e
  <2> QED BY <1>3 DEF Frame
<1> HIDE DEF f
<1>5. phase = "up"
  BY <1>1, Up
<1> QED BY <1>1, <1>4, <1>5, PushQuiet

LEMMA SetQuiet ==
  ASSUME ConfigInv, QuietInv, NEW k \in DOMAIN stack, NEW f \in Frame, f.kind = stack[k].kind,
         stack' = [stack EXCEPT ![k] = f], UNCHANGED <<phase, reg, run, file, told>>
  PROVE  QuietInv'
<1>0. LoadsAlone /\ Sub(run, reg) /\ Sub(told, file.con) /\ (phase = "up" => Sub(told, reg))
  BY QuietParts
<1>1. stack \in Seq(Frame)
  BY Parts DEF WaitersOK
<1>2. /\ DOMAIN stack' = DOMAIN stack /\ Len(stack') = Len(stack) /\ DOMAIN stack = 1..Len(stack)
      /\ \A i \in DOMAIN stack : stack'[i].kind = stack[i].kind
  BY <1>1, ExceptSeq, LenProperties
<1>3. stack # <<>>
  BY <1>1, <1>2, EmptySeq
<1>4. LoadsAlone'
  BY <1>0, <1>2, <1>3 DEF LoadsAlone
<1>5. Sub(run', reg') /\ Sub(told', file'.con) /\ (phase' = "up" => Sub(told', reg'))
  BY <1>0
<1> QED BY <1>4, <1>5, QuietPartsNext

LEMMA CompleteQuiet ==
  ASSUME ConfigInv, QuietInv, NEW k \in Nat, NEW ok \in BOOLEAN, Complete(k, ok)
  PROVE  QuietInv'
<1> DEFINE f == [stack[k] EXCEPT !.got = TRUE, !.bad = @ \/ ~ok]
<1>0. WaitersOK
  BY Parts
<1>1. /\ k \in DOMAIN stack
      /\ stack' = [stack EXCEPT ![k].got = TRUE, ![k].bad = @ \/ ~ok]
      /\ UNCHANGED <<phase, reg, run, file, told>>
  BY DEF Complete, memVars
<1>2. stack[k] \in Frame
  BY <1>0, <1>1, ElementOfSeq, LenProperties DEF WaitersOK
<1>3. f \in Frame /\ f.kind = stack[k].kind
  <2>1. stack[k].bad \in BOOLEAN
    BY <1>2, FrameFacts
  <2> DEFINE b == stack[k].bad \/ ~ok
  <2>2. b \in BOOLEAN
    BY <2>1
  <2>3. f = [stack[k] EXCEPT !.got = TRUE, !.bad = b]
    OBVIOUS
  <2> HIDE DEF b, f
  <2> QED BY <1>2, <2>2, <2>3 DEF Frame
<1>4. stack' = [stack EXCEPT ![k] = f]
  BY <1>1
<1> HIDE DEF f
<1> QED BY <1>1, <1>3, <1>4, SetQuiet

LEMMA NextDeviceQuiet ==
  ASSUME ConfigInv, QuietInv, NEW k \in Nat, NextDevice(k)
  PROVE  QuietInv'
<1> DEFINE f == [stack[k] EXCEPT !.todo = Tail(@)]
<1>0. WaitersOK
  BY Parts
<1>1. /\ Ready(k) /\ Len(stack[k].todo) > 1 /\ stack' = [stack EXCEPT ![k] = Waiting(f)]
      /\ UNCHANGED <<phase, reg, run, file, told>>
  BY DEF NextDevice
<1>2. k \in DOMAIN stack /\ stack[k] \in Frame
  BY <1>0, <1>1, ReadyFacts
<1>3. f \in Frame /\ f.kind = stack[k].kind
  <2> DEFINE t == Tail(stack[k].todo)
  <2>1. stack[k].todo \in Seq(KeyerUpdate) /\ stack[k].todo # <<>>
    BY <1>2, FrameFacts
  <2>2. t \in Seq(KeyerUpdate) /\ Len(t) > 0
    BY <1>1, <2>1, HeadTailProperties
  <2>3. t \in Seq(KeyerUpdate) \ {<<>>}
    <3> HIDE DEF t
    <3> QED BY <2>2, EmptySeq
  <2>4. f = [stack[k] EXCEPT !.todo = t]
    OBVIOUS
  <2> HIDE DEF t, f
  <2> QED BY <1>2, <2>3, <2>4 DEF Frame
<1> HIDE DEF f
<1>4. Waiting(f) \in Frame /\ Waiting(f).kind = stack[k].kind
  BY <1>3, WaitingFacts
<1> QED BY <1>1, <1>2, <1>4, SetQuiet

LEMMA FinishQuiet ==
  ASSUME ConfigInv, QuietInv, NEW k \in Nat, Finish(k)
  PROVE  QuietInv'
<1>0. LoadsAlone /\ Sub(run, reg) /\ Sub(told, file.con) /\ (phase = "up" => Sub(told, reg))
  BY QuietParts
<1>1. /\ Ready(k) /\ stack[k].kind # "load" /\ stack' = Front(stack)
      /\ \/ UNCHANGED <<file, fails>>
         \/ \E ok \in BOOLEAN : cfgmgrj_save_cfg(ok, dev, reg)
      /\ UNCHANGED <<phase, reg, run, told>>
  BY DEF Finish, memVars
<1>2. /\ WaitersOK /\ stack \in Seq(Frame) /\ phase \in {"down", "loading", "up"}
  BY Parts DEF WaitersOK, RestOK
<1>3. k = Len(stack) /\ Len(stack) \in Nat /\ Len(stack) > 0 /\ DOMAIN stack = 1..Len(stack)
  BY <1>1, <1>2, ReadyFacts, LenProperties
<1>4. phase = "up"
  <2>1. Len(stack) = 1 => k = 1
    BY <1>3
  <2>2. stack # <<>>
    BY <1>3
  <2> QED BY <1>0, <1>1, <1>2, <2>1, <2>2 DEF LoadsAlone
<1>5. /\ DOMAIN stack' = 1..(Len(stack) - 1)
      /\ \A j \in 1..(Len(stack) - 1) : stack'[j] = stack[j]
  <2>1. \A j \in 1..(Len(stack) - 1) : stack[j] \in Frame
    BY <1>2, <1>3, ElementOfSeq
  <2>2. /\ stack' \in Seq(Frame) /\ Len(stack') = Len(stack) - 1
        /\ \A j \in 1..(Len(stack) - 1) : stack'[j] = stack[j]
    BY <1>1, <1>2, <1>3, <2>1, SubSeqProperties DEF Front
  <2> QED BY <2>2, LenProperties
<1>6. LoadsAlone'
  <2>1. \A j \in DOMAIN stack' : stack'[j].kind # "load"
    BY <1>0, <1>3, <1>4, <1>5 DEF LoadsAlone
  <2> QED BY <1>1, <1>4, <2>1 DEF LoadsAlone
<1>7. Sub(run', reg') /\ Sub(told', reg') /\ Sub(told', file.con)
  BY <1>0, <1>1, <1>4
<1>8. Sub(told', file'.con)
  <2>1. CASE UNCHANGED <<file, fails>>
    BY <1>7, <2>1
  <2>2. CASE \E ok \in BOOLEAN : cfgmgrj_save_cfg(ok, dev, reg)
    BY <1>1, <1>7, <2>2, SavedPromise
  <2> QED BY <1>1, <2>1, <2>2
<1> QED BY <1>6, <1>7, <1>8, QuietPartsNext

\* From nothing, loading registers exactly the connectors of the file.
LEMMA LoadQuiet ==
  ASSUME ConfigInv, NEW known, reg = Empty, run = Empty, Sub(told, file.con),
         SetCons(LoadConnectors(Connectors, file.con, known)), UNCHANGED <<file, told>>
  PROVE  Sub(run', reg') /\ Sub(told', reg') /\ Sub(told', file'.con)
<1> DEFINE c == LoadConnectors(Connectors, file.con, known)
<1>1. /\ c.reg = Over(file.con, reg)
      /\ \E D \in SUBSET DOMAIN file.con : c.run = Over(Restrict(file.con, D), run)
  BY LoadFacts
<1>2. reg' = c.reg /\ run' = c.run
  BY DEF SetCons
<1> HIDE DEF c
<1>3. PICK D \in SUBSET DOMAIN file.con : run' = Over(Restrict(file.con, D), Empty)
  BY <1>1, <1>2
<1>4. reg' = Over(file.con, Empty)
  BY <1>1, <1>2
<1>5. DOMAIN Empty = {}
  BY DEF Empty
<1>6. DOMAIN reg' = DOMAIN file.con /\ \A i \in DOMAIN file.con : reg'[i] = file.con[i]
  BY <1>4, <1>5 DEF Over
<1>7. DOMAIN run' = D /\ \A i \in D : run'[i] = file.con[i]
  BY <1>3, <1>5 DEF Over, Restrict
<1> QED BY <1>3, <1>6, <1>7 DEF Sub

LEMMA LoadedQuiet ==
  ASSUME ConfigInv, QuietInv, NEW k \in Nat, Loaded(k)
  PROVE  QuietInv'
<1>0. LoadsAlone /\ Sub(told, file.con)
  BY QuietParts
<1>1. /\ Ready(k) /\ stack[k].kind = "load" /\ stack' = Front(stack) /\ phase' = "up"
      /\ SetCons(LoadConnectors(Connectors, file.con, DOMAIN dev)) /\ UNCHANGED <<file, told>>
  BY DEF Loaded
<1>2. WaitersOK /\ stack \in Seq(Frame) /\ phase \in {"down", "loading", "up"}
  BY Parts DEF WaitersOK, RestOK
<1>3. k \in DOMAIN stack /\ Len(stack) > 0
  BY <1>1, <1>2, ReadyFacts
<1>4. Len(stack) = 1 /\ reg = Empty /\ run = Empty
  <2>1. stack # <<>>
    BY <1>3
  <2> QED BY <1>0, <1>1, <1>2, <1>3, <2>1 DEF LoadsAlone
<1>5. DOMAIN stack' = {}
  <2>1. stack' \in Seq(Frame) /\ Len(stack') = 0
    BY <1>1, <1>2, <1>4, SubSeqProperties DEF Front
  <2> QED BY <2>1, LenProperties
<1>6. LoadsAlone'
  BY <1>1, <1>5 DEF LoadsAlone
<1>7. Sub(run', reg') /\ Sub(told', reg') /\ Sub(told', file'.con)
  BY <1>0, <1>1, <1>4, LoadQuiet
<1> QED BY <1>6, <1>7, QuietPartsNext

LEMMA StartQuiet ==
  ASSUME ConfigInv, QuietInv, Start
  PROVE  QuietInv'
<1>0. LoadsAlone /\ Sub(run, reg) /\ Sub(told, file.con) /\ phase = "down"
  BY QuietParts DEF Start
<1>1. stack = <<>> /\ reg = Empty /\ run = Empty
  BY <1>0 DEF LoadsAlone
<1>2. CASE DOMAIN file.dev = {}
  <2>1. /\ SetCons(LoadConnectors(Connectors, file.con, {})) /\ phase' = "up"
        /\ UNCHANGED <<stack, file, told>>
    BY <1>2 DEF Start
  <2>2. LoadsAlone'
    BY <1>1, <2>1 DEF LoadsAlone
  <2>3. Sub(run', reg') /\ Sub(told', reg') /\ Sub(told', file'.con)
    BY <1>0, <1>1, <2>1, LoadQuiet
  <2> QED BY <2>2, <2>3, QuietPartsNext
<1>3. CASE DOMAIN file.dev # {}
  <2> DEFINE s == SetToSeq(DOMAIN file.dev)
             u == [k \in DOMAIN s |-> [dev |-> s[k], name |-> file.dev[s[k]]]]
             f == [kind |-> "load", client |-> NoClient, todo |-> u, got |-> FALSE, bad |-> FALSE]
  <2>1. /\ stack' = <<f>> /\ phase' = "loading" /\ UNCHANGED <<reg, run, file, told>>
    BY <1>3 DEF Start
  <2>2. f.kind = "load"
    OBVIOUS
  <2> HIDE DEF f
  <2>3. LoadsAlone'
    BY <1>1, <2>1, <2>2 DEF LoadsAlone
  <2>4. Sub(run', reg') /\ Sub(told', file'.con) /\ phase' # "up"
    BY <1>0, <2>1
  <2> QED BY <2>3, <2>4, QuietPartsNext
<1> QED BY <1>2, <1>3

LEMMA StopQuiet ==
  ASSUME ConfigInv, QuietInv, Crash \/ Terminate
  PROVE  QuietInv'
<1>0. LoadsAlone /\ Sub(run, reg) /\ Sub(told, file.con) /\ (phase = "up" => Sub(told, reg))
  BY QuietParts
<1>1. Stopped
  BY DEF Crash, Terminate
<1>2. phase' = "down" /\ reg' = Empty /\ run' = Empty /\ stack' = <<>> /\ told' = told
  BY <1>1 DEF Stopped
<1>3. LoadsAlone'
  BY <1>2 DEF LoadsAlone
<1>4. Sub(run', reg')
  BY <1>2 DEF Sub
<1>5. Sub(told', file'.con)
  <2>1. CASE Crash
    BY <1>0, <1>2, <2>1 DEF Crash
  <2>2. CASE Terminate
    <3>1. PICK ok \in BOOLEAN : cfgmgrj_save_cfg(ok, dev, reg)
      BY <2>2 DEF Terminate
    <3>2. Sub(told, reg)
      BY <1>0, <2>2 DEF Terminate
    <3>3. CASE ok
      BY <1>2, <3>1, <3>2, <3>3 DEF cfgmgrj_save_cfg
    <3>4. CASE ~ok
      BY <1>0, <1>2, <3>1, <3>4 DEF cfgmgrj_save_cfg
    <3> QED BY <3>3, <3>4
  <2> QED BY <2>1, <2>2
<1> QED BY <1>2, <1>3, <1>4, <1>5, QuietPartsNext

\* Steps that touch neither the connectors nor the loops.
LEMMA ElsewhereQuiet ==
  ASSUME QuietInv, UNCHANGED <<phase, reg, run, stack, file, told>>
  PROVE  QuietInv'
BY DEF QuietInv, LoadsAlone, RunsAsRegistered, Durable, Promised

LEMMA InitQuiet ==
  ASSUME Init
  PROVE  QuietInv
BY DEF Init, QuietInv, LoadsAlone, RunsAsRegistered, Durable, Promised, Empty

LEMMA RequestQuiet ==
  ASSUME ConfigInv, QuietInv, QuietLoad, NEW c \in Client, RequestNext(c)
  PROVE  QuietInv'
BY AddQuiet, RemoveConnectorQuiet, RemoveDeviceQuiet, StationMasterQuiet, UpdateQuiet
   DEF RequestNext

LEMMA LoopQuiet ==
  ASSUME ConfigInv, QuietInv, NEW k \in Depth, Resume(k) \/ \E ok \in BOOLEAN : Complete(k, ok)
  PROVE  QuietInv'
<1>1. k \in Nat
  BY DEF Depth
<1> QED BY <1>1, NextDeviceQuiet, FinishQuiet, LoadedQuiet, CompleteQuiet DEF Resume

\* Together with ConfigInv, QuietInv is inductive if requests wait until the file is
\* loaded.
THEOREM QuietInductive == ASSUME QuietLoad PROVE Spec => []QuietInv
<1>1. Init => QuietInv
  BY InitQuiet
<1>2. ConfigInv /\ QuietInv /\ [Next]_vars => QuietInv'
  <2> SUFFICES ASSUME ConfigInv, QuietInv, [Next]_vars PROVE QuietInv'
    OBVIOUS
  <2>1. ASSUME NEW c \in Client, RequestNext(c) PROVE QuietInv'
    BY <2>1, RequestQuiet
  <2>2. ASSUME NEW k \in Depth, Resume(k) \/ \E ok \in BOOLEAN : Complete(k, ok) PROVE QuietInv'
    BY <2>2, LoopQuiet
  <2>3. ASSUME NEW d \in UsbDev, Plug(d) \/ Unplug(d) PROVE QuietInv'
    BY <2>3, ElsewhereQuiet DEF Plug, Unplug
  <2>4. CASE Start
    BY <2>4, StartQuiet
  <2>5. CASE Crash \/ Terminate
    BY <2>5, StopQuiet
  <2>6. CASE UNCHANGED vars
    BY <2>6, ElsewhereQuiet DEF vars, memVars
  <2> QED BY <2>1, <2>2, <2>3, <2>4, <2>5, <2>6 DEF Next
<1> QED BY <1>1, <1>2, ConfigInductive, PTL DEF Spec

\* Unless a request comes in during loading, what runs under an id is what is
\* registered under it.
THEOREM RunningIsRegistered == ASSUME QuietLoad PROVE Spec => []RunsAsRegistered
BY QuietInductive, PTL DEF QuietInv

\* Unless a request comes in during loading, a connector whose creation was confirmed
\* stays in the file until it or its keyer is removed.
THEOREM ConfirmedIsDurable == ASSUME QuietLoad PROVE Spec => []Durable
BY QuietInductive, PTL DEF QuietInv
=============================================================================
