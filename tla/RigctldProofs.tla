---------------------------- MODULE RigctldProofs ----------------------------
(* Proofs about Rigctld for any processes, modes, number of commands in a    *)
(* request, delays and faults.                                               *)
EXTENDS Rigctld, SequenceTheorems, FiniteSetTheorems, TLAPS

-----------------------------------------------------------------------------
(* Counting the RPRT lines of a sequence of pieces. *)

LEMMA RprtType ==
  ASSUME NEW s \in Seq(Piece)
  PROVE  /\ IsFiniteSet({i \in DOMAIN s : s[i].part = "RPRT"})
         /\ count_rprt_lines(s) \in Nat
         /\ count_rprt_lines(s) = 0 <=> \A i \in DOMAIN s : s[i].part # "RPRT"
<1> DEFINE P == {i \in DOMAIN s : s[i].part = "RPRT"}
<1>1. Len(s) \in Nat /\ DOMAIN s = 1..Len(s)
  BY LenProperties
<1>2. IsFiniteSet(1..Len(s))
  BY <1>1, FS_Interval
<1>3. IsFiniteSet(P)
  BY <1>1, <1>2, FS_Subset
<1> QED BY <1>3, FS_CardinalityType, FS_EmptySet DEF count_rprt_lines

LEMMA RprtEmpty == count_rprt_lines(<<>>) = 0
<1>1. {i \in DOMAIN <<>> : <<>>[i].part = "RPRT"} = {}
  OBVIOUS
<1> QED BY <1>1, FS_EmptySet DEF count_rprt_lines

\* Moving positions by a constant does not change how many there are.
LEMMA ShiftKeeps ==
  ASSUME NEW P \in SUBSET Nat, IsFiniteSet(P), NEW n \in Nat
  PROVE  /\ IsFiniteSet({k + n : k \in P})
         /\ Cardinality({k + n : k \in P}) = Cardinality(P)
<1> DEFINE T == {k + n : k \in P}
           f == [k \in P |-> k + n]
<1>1. f \in Injection(P, T)
  BY DEF Injection, IsInjective
<1>2. f \in Surjection(P, T)
  BY DEF Surjection
<1>3. ExistsBijection(P, T)
  BY <1>1, <1>2 DEF ExistsBijection, Bijection
<1> QED BY <1>3, FS_Bijection

LEMMA RprtConcat ==
  ASSUME NEW s \in Seq(Piece), NEW t \in Seq(Piece)
  PROVE  /\ s \o t \in Seq(Piece)
         /\ count_rprt_lines(s \o t) = count_rprt_lines(s) + count_rprt_lines(t)
<1> DEFINE n == Len(s)
           P == {k \in DOMAIN s : s[k].part = "RPRT"}
           Q == {k \in DOMAIN t : t[k].part = "RPRT"}
           R == {k \in DOMAIN (s \o t) : (s \o t)[k].part = "RPRT"}
           T == {k + n : k \in Q}
<1>1. /\ s \o t \in Seq(Piece) /\ Len(s \o t) = n + Len(t)
      /\ \A i \in 1..(n + Len(t)) : (s \o t)[i] = IF i <= n THEN s[i] ELSE t[i - n]
      /\ DOMAIN (s \o t) = 1..(n + Len(t))
  BY ConcatProperties, LenProperties
<1>2. n \in Nat /\ Len(t) \in Nat /\ DOMAIN s = 1..n /\ DOMAIN t = 1..Len(t)
  BY LenProperties
<1>3. P \cup T = R
  <2> HIDE DEF n
  <2>1. \A k \in P \cup T : k \in R
    BY <1>1, <1>2
  <2>2. \A k \in R : k \notin P => k \in T
    <3> SUFFICES ASSUME NEW k \in R, k \notin P PROVE k \in T
      OBVIOUS
    <3>1. k \in 1..(n + Len(t)) /\ ~(k <= n)
      BY <1>1, <1>2
    <3>2. k - n \in Q /\ (k - n) + n = k
      BY <1>1, <1>2, <3>1
    <3> QED BY <3>2
  <2> QED BY <2>1, <2>2
<1>4. P \cap T = {}
  BY <1>2
<1>5. IsFiniteSet(P) /\ IsFiniteSet(Q) /\ Cardinality(P) \in Nat /\ Cardinality(Q) \in Nat
  BY RprtType, FS_CardinalityType
<1>6. IsFiniteSet(T) /\ Cardinality(T) = Cardinality(Q)
  BY <1>2, <1>5, ShiftKeeps, Q \subseteq Nat
<1> HIDE DEF P, T, R
<1>7. Cardinality(R) = Cardinality(P) + Cardinality(T) - Cardinality(P \cap T)
  BY <1>3, <1>5, <1>6, FS_Union
<1>8. Cardinality(P \cap T) = 0
  BY <1>4, FS_EmptySet
<1>9. Cardinality(R) = Cardinality(P) + Cardinality(Q)
  BY <1>5, <1>6, <1>7, <1>8
<1> QED BY <1>1, <1>9 DEF count_rprt_lines, P, Q, R

-----------------------------------------------------------------------------
(* The order of the pieces. *)

\* Only the code of an earlier request's last answer is left of it, before all else;
\* the data of an answer is followed by its RPRT, and a code comes after one.
Ordered(s) ==
  /\ \A i \in DOMAIN s : s[i].old => i = 1 /\ s[i].part = "code" /\ s[i].cmd = NumCommands - 1
  /\ \A i \in DOMAIN s : s[i].part = "data" => i + 1 \in DOMAIN s /\ s[i + 1].part = "RPRT"
  /\ \A i \in DOMAIN s : s[i].part = "code" /\ i > 1 => s[i - 1].part = "RPRT"

\* The last piece belongs to command n.
Ends(s, n) == s # <<>> /\ ~s[Len(s)].old => s[Len(s)].cmd = n

\* What may be left when a request is over.
Rest(s) ==
  /\ Len(s) <= 1
  /\ \A i \in DOMAIN s : s[i].part = "code" /\ s[i].cmd = NumCommands - 1

\* An answer with or without data.
Group(g, n) ==
  /\ g \in Seq(Piece) /\ Len(g) \in {2, 3}
  /\ \A i \in DOMAIN g : ~g[i].old /\ g[i].cmd = n
  /\ g[Len(g)].part = "code" /\ g[Len(g) - 1].part = "RPRT"
  /\ Len(g) = 3 => g[1].part = "data"

LEMMA GroupCount ==
  ASSUME NEW g, NEW n, Group(g, n)
  PROVE  count_rprt_lines(g) = 1
<1>1. DOMAIN g = 1..Len(g)
  BY LenProperties DEF Group
<1>2. {i \in DOMAIN g : g[i].part = "RPRT"} = {Len(g) - 1}
  <2>1. CASE Len(g) = 2
    BY <1>1, <2>1 DEF Group
  <2>2. CASE Len(g) = 3
    BY <1>1, <2>2 DEF Group
  <2> QED BY <2>1, <2>2 DEF Group
<1> QED BY <1>2, FS_Singleton DEF count_rprt_lines

LEMMA OrderedGroup ==
  ASSUME NEW s \in Seq(Piece), Ordered(s), NEW g, NEW n, Group(g, n)
  PROVE  /\ s \o g \in Seq(Piece) /\ Ordered(s \o g) /\ Ends(s \o g, n)
         /\ count_rprt_lines(s \o g) = count_rprt_lines(s) + 1
<1> DEFINE a == s \o g
           l == Len(s)
           m == Len(g)
<1>1. /\ a \in Seq(Piece) /\ Len(a) = l + m /\ l \in Nat /\ m \in {2, 3}
      /\ \A i \in 1..l : a[i] = s[i]
      /\ \A i \in 1..m : a[l + i] = g[i]
      /\ DOMAIN a = 1..(l + m) /\ DOMAIN s = 1..l /\ DOMAIN g = 1..m
  <2>1. g \in Seq(Piece) /\ m \in {2, 3}
    BY DEF Group
  <2>2. /\ a \in Seq(Piece) /\ Len(a) = l + m
        /\ \A i \in 1..(l + m) : a[i] = IF i <= l THEN s[i] ELSE g[i - l]
    BY <2>1, ConcatProperties
  <2>3. l \in Nat /\ DOMAIN a = 1..(l + m) /\ DOMAIN s = 1..l /\ DOMAIN g = 1..m
    BY <2>1, <2>2, LenProperties
  <2> HIDE DEF a, l, m
  <2> QED BY <2>1, <2>2, <2>3
<1>2. count_rprt_lines(a) = count_rprt_lines(s) + 1
  <2>1. g \in Seq(Piece)
    BY DEF Group
  <2> QED BY <2>1, RprtConcat, GroupCount
<1>3. /\ \A i \in 1..m : ~g[i].old /\ g[i].cmd = n
      /\ g[m].part = "code" /\ g[m - 1].part = "RPRT" /\ (m = 3 => g[1].part = "data")
  BY <1>1 DEF Group
<1> HIDE DEF a, l, m
<1>4. \A i \in 1..(l + m) : i \in 1..l \/ (i - l \in 1..m /\ a[i] = g[i - l])
  BY <1>1
<1>5. ASSUME NEW i \in 1..(l + m), a[i].old
      PROVE  i = 1 /\ a[i].part = "code" /\ a[i].cmd = NumCommands - 1
  <2>1. i \in 1..l
    BY <1>3, <1>4, <1>5
  <2> QED BY <1>1, <1>5, <2>1 DEF Ordered
<1>6. ASSUME NEW i \in 1..(l + m), a[i].part = "data"
      PROVE  i + 1 \in 1..(l + m) /\ a[i + 1].part = "RPRT"
  <2>1. CASE i \in 1..l
    <3>1. i + 1 \in 1..l /\ s[i + 1].part = "RPRT"
      BY <1>1, <1>6, <2>1 DEF Ordered
    <3> QED BY <1>1, <3>1
  <2>2. CASE i - l \in 1..m /\ a[i] = g[i - l]
    <3>1. m = 3 /\ i = l + 1
      <4>1. i - l # m /\ i - l # m - 1
        BY <1>3, <1>6, <2>2
      <4> QED BY <1>1, <2>2, <4>1
    <3>2. i + 1 = l + 2 /\ a[l + 2] = g[2]
      BY <1>1, <3>1
    <3> QED BY <1>1, <1>3, <3>1, <3>2
  <2> QED BY <1>4, <2>1, <2>2
<1>7. ASSUME NEW i \in 1..(l + m), a[i].part = "code", i > 1
      PROVE  a[i - 1].part = "RPRT"
  <2>1. CASE i \in 1..l
    <3>1. s[i].part = "code" /\ i \in DOMAIN s /\ i - 1 \in 1..l
      BY <1>1, <1>7, <2>1
    <3>2. s[i - 1].part = "RPRT"
      BY <1>7, <3>1 DEF Ordered
    <3> QED BY <1>1, <3>1, <3>2
  <2>2. CASE i - l \in 1..m /\ a[i] = g[i - l]
    <3>1. i - l = m
      BY <1>1, <1>3, <1>7, <2>2
    <3>2. i - 1 = l + (m - 1) /\ m - 1 \in 1..m
      BY <1>1, <3>1
    <3>3. a[i - 1] = g[m - 1]
      BY <1>1, <3>2
    <3> QED BY <1>3, <3>3
  <2> QED BY <1>4, <2>1, <2>2
<1>8. Ordered(a)
  BY <1>1, <1>5, <1>6, <1>7 DEF Ordered
<1>9. a[Len(a)] = g[m] /\ m \in 1..m
  BY <1>1
<1>10. Ends(a, n)
  BY <1>3, <1>9 DEF Ends
<1> QED BY <1>1, <1>2, <1>8, <1>10 DEF a

\* What follows the last RPRT of a request is at most its code.
LEMMA OrderedRest ==
  ASSUME NEW b \in Seq(Piece), NEW t \in Seq(Piece), b # <<>>, Ordered(b \o t),
         Ends(b \o t, NumCommands - 1), count_rprt_lines(t) = 0
  PROVE  Rest(t)
<1> DEFINE a == b \o t
           l == Len(b)
           m == Len(t)
<1>1. /\ Len(a) = l + m /\ l \in Nat \ {0} /\ m \in Nat
      /\ \A i \in 1..m : a[l + i] = t[i]
      /\ DOMAIN a = 1..(l + m) /\ DOMAIN t = 1..m
  <2>1. /\ a \in Seq(Piece) /\ Len(a) = l + m
        /\ \A i \in 1..(l + m) : a[i] = IF i <= l THEN b[i] ELSE t[i - l]
    BY ConcatProperties
  <2>2. l \in Nat /\ m \in Nat /\ l # 0 /\ DOMAIN a = 1..(l + m) /\ DOMAIN t = 1..m
    BY <2>1, LenProperties, EmptySeq
  <2> HIDE DEF a, l, m
  <2> QED BY <2>1, <2>2
<1>2. \A i \in 1..m : t[i].part # "RPRT" /\ t[i].part \in {"data", "RPRT", "code"}
  <2>1. \A i \in 1..m : t[i] \in Piece
    BY ElementOfSeq
  <2>2. \A i \in DOMAIN t : t[i].part # "RPRT"
    BY RprtType
  <2> QED BY <1>1, <2>1, <2>2 DEF Piece
<1> HIDE DEF a, l, m
<1>3. /\ \A i \in DOMAIN a : a[i].part = "data" => i + 1 \in DOMAIN a /\ a[i + 1].part = "RPRT"
      /\ \A i \in DOMAIN a : a[i].part = "code" /\ i > 1 => a[i - 1].part = "RPRT"
      /\ \A i \in DOMAIN a : a[i].old => i = 1
  BY DEF Ordered, a
<1>4. ASSUME NEW i \in 1..m PROVE t[i].part = "code" /\ i = 1
  <2>1. l + i \in DOMAIN a /\ a[l + i] = t[i] /\ l + i > 1
    BY <1>1
  <2>2. t[i].part # "data"
    <3> SUFFICES ASSUME t[i].part = "data" PROVE FALSE
      OBVIOUS
    <3>1. (l + i) + 1 \in DOMAIN a /\ a[(l + i) + 1].part = "RPRT"
      BY <1>3, <2>1
    <3>2. i + 1 \in 1..m /\ (l + i) + 1 = l + (i + 1)
      BY <1>1, <3>1
    <3> QED BY <1>1, <1>2, <3>1, <3>2
  <2>3. t[i].part = "code"
    BY <1>2, <2>2
  <2>4. i = 1
    <3> SUFFICES ASSUME i # 1 PROVE FALSE
      OBVIOUS
    <3>1. a[(l + i) - 1].part = "RPRT"
      BY <1>3, <2>1, <2>3
    <3>2. i - 1 \in 1..m /\ (l + i) - 1 = l + (i - 1)
      BY <1>1
    <3> QED BY <1>1, <1>2, <3>1, <3>2
  <2> QED BY <2>3, <2>4
<1>5. m <= 1
  <2>1. m > 1 => m \in 1..m /\ m # 1
    BY <1>1
  <2> QED BY <1>1, <1>4, <2>1
<1>6. ASSUME NEW i \in 1..m PROVE t[i].cmd = NumCommands - 1
  <2>1. m = 1 /\ i = 1 /\ Len(a) = l + 1 /\ a[l + 1] = t[1] /\ l + 1 # 1
    BY <1>1, <1>5
  <2>2. ~a[l + 1].old /\ a # <<>>
    <3>1. l + 1 \in DOMAIN a
      BY <1>1, <2>1
    <3> QED BY <1>3, <2>1, <3>1
  <2> QED BY <2>1, <2>2 DEF Ends, a
<1> QED BY <1>1, <1>4, <1>5, <1>6 DEF Rest, m

-----------------------------------------------------------------------------
(* The supervisor. *)

States == {"free", "failed", "starting", "serving", "zombie"}

\* No process but the supervised child has not been told to end.
Watched(kernel, c, t) == \A p \in Pids : kernel[p] \in {"free", "zombie"} \/ p = c \/ p \in t

\* Without a keyer there is no child.
Supervised == NoOrphans /\ (~running => child = 0)

ProcTypes ==
  /\ {proc, running, timer, exec_errno} \subseteq BOOLEAN
  /\ ps \in [Pids -> States] /\ told \subseteq Pids /\ child \in Pids \cup {0}
  /\ delay \in RespawnInitial..RespawnMax

LEMMA DelayStays ==
  ASSUME NEW d \in RespawnInitial..RespawnMax, schedule_respawn(d)
  PROVE  timer' \in BOOLEAN /\ delay' \in RespawnInitial..RespawnMax
BY DelayAssumption DEF schedule_respawn

LEMMA SpawnKeeps ==
  ASSUME NEW c \in Pids \cup {0}, NEW d \in RespawnInitial..RespawnMax, NEW e \in BOOLEAN,
         NEW kernel \in [Pids -> States], NEW o, NEW t, Watched(kernel, c, t),
         spawn(c, d, e, kernel, o)
  PROVE  /\ child' \in Pids \cup {0} /\ ps' \in [Pids -> States] /\ Watched(ps', child', t)
         /\ {timer', exec_errno'} \subseteq BOOLEAN /\ delay' \in RespawnInitial..RespawnMax
<1>1. CASE /\ c # 0 /\ o = "ok"
           /\ child' = c /\ timer' = FALSE /\ delay' = d /\ exec_errno' = e /\ ps' = kernel
  BY <1>1
<1>2. CASE /\ c = 0 /\ o \in {"ok", "noexec"}
           /\ \E p \in {q \in Pids : kernel[q] = "free"} :
                 /\ child' = p
                 /\ ps' = [kernel EXCEPT ![p] = IF o = "ok" THEN "starting" ELSE "failed"]
           /\ timer' = FALSE /\ delay' = d /\ exec_errno' = (o = "noexec")
  <2>1. PICK p \in Pids : /\ child' = p
                          /\ ps' = [kernel EXCEPT ![p] = IF o = "ok" THEN "starting" ELSE "failed"]
    BY <1>2
  <2>2. ps' \in [Pids -> States]
    BY <2>1 DEF States
  <2>3. Watched(ps', child', t)
    BY <1>2, <2>1, PidsAssumption DEF Watched
  <2> QED BY <1>2, <2>1, <2>2, <2>3
<1>3. CASE /\ c = 0
           /\ schedule_respawn(d)
           /\ child' = c /\ exec_errno' = e /\ ps' = kernel
  BY <1>3, DelayStays
<1> QED BY <1>1, <1>2, <1>3 DEF spawn

LEMMA StartKeeps ==
  ASSUME NEW kernel \in [Pids -> States], NEW o, NEW t, Watched(kernel, 0, t), start(kernel, o)
  PROVE  /\ child' \in Pids \cup {0} /\ ps' \in [Pids -> States] /\ Watched(ps', child', t)
         /\ {timer', exec_errno'} \subseteq BOOLEAN /\ delay' \in RespawnInitial..RespawnMax
         /\ running' = TRUE
<1>1. RespawnInitial \in RespawnInitial..RespawnMax
  BY DelayAssumption
<1> QED BY <1>1, SpawnKeeps DEF start

LEMMA ProcKeyerKeeps ==
  ASSUME ProcTypes, Supervised, NEW up \in BOOLEAN, ProcKeyerState(up)
  PROVE  ProcTypes' /\ Supervised'
<1>1. CASE UNCHANGED <<procVars, kernelVars, faults>>
  BY <1>1 DEF procVars, kernelVars, ProcTypes, Supervised, NoOrphans
<1>2. CASE /\ proc /\ up /\ ~running
           /\ \E o \in Outcomes : start(ps, o) /\ Fault(Cost(o))
           /\ UNCHANGED <<proc, told>>
  <2>1. PICK o \in Outcomes : start(ps, o)
    BY <1>2
  <2>2. Watched(ps, 0, told) /\ ps \in [Pids -> States]
    BY <1>2 DEF Supervised, NoOrphans, Watched, ProcTypes
  <2>3. /\ child' \in Pids \cup {0} /\ ps' \in [Pids -> States] /\ Watched(ps', child', told)
        /\ {timer', exec_errno'} \subseteq BOOLEAN /\ delay' \in RespawnInitial..RespawnMax
        /\ running' = TRUE
    BY <2>1, <2>2, StartKeeps
  <2> QED BY <1>2, <2>3 DEF ProcTypes, Supervised, NoOrphans, Watched
<1>3. CASE /\ proc /\ ~up /\ running
           /\ stop /\ UNCHANGED <<proc, ps, faults>>
  BY <1>3 DEF stop, kill, ProcTypes, Supervised, NoOrphans
<1> QED BY <1>1, <1>2, <1>3 DEF ProcKeyerState

LEMMA ReapKeeps ==
  ASSUME ProcTypes, Supervised, NEW p \in Pids, Reap(p)
  PROVE  ProcTypes' /\ Supervised'
<1>1. /\ ps[p] = "zombie" /\ ps' = [ps EXCEPT ![p] = "free"] /\ told' = told
      /\ IF p = child THEN child_cb ELSE UNCHANGED procVars
  BY DEF Reap
<1>2. ps' \in [Pids -> States] /\ \A q \in Pids : ps'[q] = IF q = p THEN "free" ELSE ps[q]
  BY <1>1 DEF ProcTypes, States
<1>3. CASE p = child
  <2>1. /\ child' = 0 /\ UNCHANGED <<proc, running, exec_errno>>
        /\ \/ UNCHANGED <<timer, delay>>
           \/ \E d \in {RespawnInitial, delay} : schedule_respawn(d)
    BY <1>1, <1>3 DEF child_cb
  <2>2. timer' \in BOOLEAN /\ delay' \in RespawnInitial..RespawnMax
    <3>1. RespawnInitial \in RespawnInitial..RespawnMax
      BY DelayAssumption
    <3> QED BY <2>1, <3>1, DelayStays DEF ProcTypes
  <2> QED BY <1>1, <1>2, <1>3, <2>1, <2>2 DEF ProcTypes, Supervised, NoOrphans
<1>4. CASE p # child
  BY <1>1, <1>2, <1>4 DEF procVars, ProcTypes, Supervised, NoOrphans
<1> QED BY <1>3, <1>4

LEMMA RespawnKeeps ==
  ASSUME ProcTypes, Supervised, respawn_cb
  PROVE  ProcTypes' /\ Supervised'
<1>1. told' = told /\ proc' = proc /\ running' = running
  BY DEF respawn_cb
<1>2. CASE running
  <2>1. PICK o \in Outcomes : spawn(child, delay, exec_errno, ps, o)
    BY <1>2 DEF respawn_cb
  <2>2. /\ child \in Pids \cup {0} /\ delay \in RespawnInitial..RespawnMax
        /\ exec_errno \in BOOLEAN /\ ps \in [Pids -> States] /\ Watched(ps, child, told)
    BY DEF ProcTypes, Supervised, NoOrphans, Watched
  <2>3. /\ child' \in Pids \cup {0} /\ ps' \in [Pids -> States] /\ Watched(ps', child', told)
        /\ {timer', exec_errno'} \subseteq BOOLEAN /\ delay' \in RespawnInitial..RespawnMax
    BY <2>1, <2>2, SpawnKeeps
  <2> QED BY <1>1, <1>2, <2>3 DEF ProcTypes, Supervised, NoOrphans, Watched
<1>3. CASE ~running
  BY <1>1, <1>3 DEF respawn_cb, ProcTypes, Supervised, NoOrphans
<1> QED BY <1>2, <1>3

\* The old object's child is reaped or told to end before the new one starts.
LEMMA ReconfigureProcKeeps ==
  ASSUME ProcTypes, Supervised, NEW on \in BOOLEAN, ReconfigureProc(on)
  PROVE  ProcTypes' /\ Supervised'
<1>1. PICK reaped \in ensure_dead, o \in Outcomes :
          LET kernel == [p \in Pids |-> IF p \in reaped THEN "free" ELSE ps[p]] IN
          /\ destroy(reaped)
          /\ proc' = on
          /\ IF on /\ online THEN start(kernel, o)
             ELSE /\ o = "ok" /\ running' = FALSE /\ child' = 0 /\ timer' = FALSE
                  /\ delay' = RespawnInitial /\ exec_errno' = FALSE /\ ps' = kernel
  BY DEF ReconfigureProc
<1> DEFINE kernel == [p \in Pids |-> IF p \in reaped THEN "free" ELSE ps[p]]
<1>2. /\ told' = (told \cup {p \in Pids : p = child /\ ps[p] # "zombie"}) \ reaped
      /\ proc' = on
      /\ IF on /\ online THEN start(kernel, o)
         ELSE /\ running' = FALSE /\ child' = 0 /\ timer' = FALSE
              /\ delay' = RespawnInitial /\ exec_errno' = FALSE /\ ps' = kernel
  BY <1>1 DEF destroy
<1>3. kernel \in [Pids -> States] /\ told' \subseteq Pids
  BY <1>2 DEF ProcTypes, States
<1>4. Watched(kernel, 0, told')
  BY <1>2 DEF Watched, Supervised, NoOrphans
<1> HIDE DEF kernel
<1>5. CASE on /\ online
  <2>1. /\ child' \in Pids \cup {0} /\ ps' \in [Pids -> States] /\ Watched(ps', child', told')
        /\ {timer', exec_errno'} \subseteq BOOLEAN /\ delay' \in RespawnInitial..RespawnMax
        /\ running' = TRUE
    BY <1>2, <1>3, <1>4, <1>5, StartKeeps
  <2> QED BY <1>2, <1>3, <2>1 DEF ProcTypes, Supervised, NoOrphans, Watched
<1>6. CASE ~(on /\ online)
  <2>1. /\ running' = FALSE /\ child' = 0 /\ timer' = FALSE /\ delay' = RespawnInitial
        /\ exec_errno' = FALSE /\ ps' = kernel
    BY <1>2, <1>6
  <2>2. RespawnInitial \in RespawnInitial..RespawnMax
    BY DelayAssumption
  <2>3. ProcTypes'
    BY <1>2, <1>3, <2>1, <2>2 DEF ProcTypes
  <2>4. Supervised'
    BY <1>4, <2>1 DEF Supervised, NoOrphans, Watched
  <2> QED BY <2>3, <2>4
<1> QED BY <1>5, <1>6

\* Processes start to serve and end.
LEMMA ProcessKeeps ==
  ASSUME ProcTypes, Supervised, NEW p \in Pids, Bind(p) \/ Exit(p) \/ Crash(p)
  PROVE  ProcTypes' /\ Supervised'
<1>1. UNCHANGED procVars
  BY DEF Bind, Exit, Crash
<1>2. CASE Bind(p)
  <2>1. ps[p] = "starting" /\ ps' = [ps EXCEPT ![p] = "serving"] /\ told' = told
    BY <1>2 DEF Bind
  <2> QED BY <1>1, <2>1 DEF procVars, ProcTypes, States, Supervised, NoOrphans
<1>3. CASE Exit(p) \/ Crash(p)
  <2>1. ps' = [ps EXCEPT ![p] = "zombie"] /\ told' = told \ {p}
    BY <1>3 DEF Exit, Crash
  <2> QED BY <1>1, <2>1 DEF procVars, ProcTypes, States, Supervised, NoOrphans
<1> QED BY <1>2, <1>3

-----------------------------------------------------------------------------
(* The client. *)

ClientTypes ==
  /\ {client, polling, fd, op} \subseteq BOOLEAN
  /\ last \in Modes \cup {"none"} /\ age \in 0..InfoTimeout
  /\ peer \in Pids \cup {0} /\ phase \in Phases /\ cmd_idx \in 0..NumCommands - 1
  /\ rx \in Seq(Piece) /\ answers \in Seq(Piece)
  /\ sent \in Seq([old : BOOLEAN, cmd : 0..NumCommands - 1])

Counted == count_rprt_lines(rx \o answers)

\* One RPRT, read or to be read, for each command of the request that is not
\* still on its way.
RequestInv ==
  /\ Ordered(rx \o answers)
  /\ \A i \in DOMAIN sent : ~sent[i].old /\ sent[i].cmd = cmd_idx
  /\ phase = "IDLE" => rx = <<>> /\ sent = <<>> /\ Rest(answers)
  /\ phase # "IDLE" => Ends(rx \o answers, Counted - 1)
  /\ phase \in {"CONNECTING", "WRITING"} => sent = <<>> /\ Counted = cmd_idx
  /\ phase = "READING" =>
        /\ Len(sent) <= 1
        /\ Counted + Len(sent) = cmd_idx + 1 \/ (peer = 0 /\ sent = <<>> /\ Counted = cmd_idx)

\* The invariant of the next state, conjunct by conjunct.
LEMMA RequestNext ==
  ASSUME Ordered(rx' \o answers'),
         \A i \in DOMAIN sent' : ~sent'[i].old /\ sent'[i].cmd = cmd_idx',
         phase' = "IDLE" => rx' = <<>> /\ sent' = <<>> /\ Rest(answers'),
         phase' # "IDLE" => Ends(rx' \o answers', Counted' - 1),
         phase' \in {"CONNECTING", "WRITING"} => sent' = <<>> /\ Counted' = cmd_idx',
         phase' = "READING" =>
            /\ Len(sent') <= 1
            /\ Counted' + Len(sent') = cmd_idx' + 1 \/ (peer' = 0 /\ sent' = <<>> /\ Counted' = cmd_idx')
  PROVE  RequestInv'
<1>1. (Ordered(rx \o answers))'
  BY DEF Ordered
<1>2. (phase = "IDLE" => Rest(answers))'
  BY DEF Rest
<1>3. (phase # "IDLE" => Ends(rx \o answers, Counted - 1))'
  BY DEF Ends
<1> QED BY <1>1, <1>2, <1>3 DEF RequestInv

LEMMA EmptyOrdered == Ordered(<<>>) /\ Rest(<<>>)
<1>1. DOMAIN <<>> = {} /\ Len(<<>>) = 0
  OBVIOUS
<1> QED BY <1>1 DEF Ordered, Rest

LEMMA RestOrdered ==
  ASSUME NEW s \in Seq(Piece), Rest(s)
  PROVE  Ordered(s) /\ count_rprt_lines(s) = 0
<1>1. Len(s) \in Nat /\ DOMAIN s = 1..Len(s)
  BY LenProperties
<1>2. \A i \in DOMAIN s : i = 1 /\ s[i].part = "code" /\ s[i].cmd = NumCommands - 1
  BY <1>1 DEF Rest
<1>3. Ordered(s)
  BY <1>2 DEF Ordered
<1>4. \A i \in DOMAIN s : s[i].part # "RPRT"
  BY <1>2
<1> QED BY <1>3, <1>4, RprtType

LEMMA EmptyConcat ==
  ASSUME NEW S, NEW s \in Seq(S)
  PROVE  <<>> \o s = s /\ s \o <<>> = s
BY ConcatEmptySeq

\* A request is given up and the socket is closed.
LEMMA ResetKeeps ==
  ASSUME reset_io
  PROVE  /\ RequestInv'
         /\ {fd', op'} \subseteq BOOLEAN /\ peer' \in Pids \cup {0} /\ phase' \in Phases
         /\ cmd_idx' \in 0..NumCommands - 1
         /\ rx' \in Seq(Piece) /\ answers' \in Seq(Piece)
         /\ sent' \in Seq([old : BOOLEAN, cmd : 0..NumCommands - 1])
<1>1. /\ phase' = "IDLE" /\ cmd_idx' = 0 /\ op' = FALSE /\ rx' = <<>>
      /\ fd' = FALSE /\ peer' = 0 /\ sent' = <<>> /\ answers' = <<>>
  BY DEF reset_io, finish_request
<1>2. <<>> \in Seq(Piece) /\ <<>> \o <<>> = <<>> /\ DOMAIN <<>> = {}
  OBVIOUS
<1>3. RequestInv'
  <2>1. Ordered(rx' \o answers') /\ Rest(answers')
    BY <1>1, <1>2, EmptyOrdered
  <2>2. \A i \in DOMAIN sent' : ~sent'[i].old /\ sent'[i].cmd = cmd_idx'
    BY <1>1, <1>2
  <2> QED BY <1>1, <2>1, <2>2 DEF RequestInv, Ordered, Rest
<1>4. 0 \in 0..NumCommands - 1
  BY CommandsAssumption
<1>5. <<>> \in Seq([old : BOOLEAN, cmd : 0..NumCommands - 1])
  OBVIOUS
<1> QED BY <1>1, <1>2, <1>3, <1>4, <1>5 DEF Phases

LEMMA OpFailKeeps ==
  ASSUME ClientTypes, op_fail, UNCHANGED <<client, polling>>
  PROVE  ClientTypes' /\ RequestInv'
<1>1. reset_io /\ UNCHANGED <<last, age>>
  BY DEF op_fail
<1> QED BY <1>1, ResetKeeps DEF ClientTypes

LEMMA ClientStaysButAge ==
  ASSUME ClientTypes, RequestInv, UNCHANGED clientVars, age' \in 0..InfoTimeout
  PROVE  ClientTypes' /\ RequestInv'
<1>1. UNCHANGED <<client, polling, phase, cmd_idx, op, rx, last, fd, peer, sent, answers>>
  BY DEF clientVars, requestVars, connVars
<1>2. ClientTypes'
  BY <1>1 DEF ClientTypes
<1>3. Counted' = Counted
  BY <1>1 DEF Counted, count_rprt_lines
<1>4. rx' \o answers' = rx \o answers
  BY <1>1
<1>5. Ordered(rx' \o answers')
  BY <1>4 DEF RequestInv
<1>6. phase' # "IDLE" => Ends(rx' \o answers', Counted' - 1)
  BY <1>1, <1>3, <1>4 DEF RequestInv
<1>7. phase' = "IDLE" => Rest(answers')
  BY <1>1 DEF RequestInv
<1>8. RequestInv'
  BY <1>1, <1>3, <1>5, <1>6, <1>7, RequestNext DEF RequestInv
<1> QED BY <1>2, <1>8

LEMMA ClientStays ==
  ASSUME ClientTypes, RequestInv, UNCHANGED <<clientVars, age>>
  PROVE  ClientTypes' /\ RequestInv'
<1>1. age' \in 0..InfoTimeout
  BY DEF ClientTypes
<1> QED BY <1>1, ClientStaysButAge

\* What the process had not read is lost with it.
LEMMA HangupKeeps ==
  ASSUME ClientTypes, RequestInv, NEW gone, Hangup(gone),
         UNCHANGED <<client, polling, requestVars, last, age>>
  PROVE  ClientTypes' /\ RequestInv'
<1>1. UNCHANGED <<client, polling, phase, cmd_idx, op, rx, last, age, fd, answers>>
  BY DEF requestVars, Hangup, connVars
<1>2. Counted' = Counted
  BY <1>1 DEF Counted, count_rprt_lines
<1>3. CASE peer' = 0 /\ sent' = <<>>
  <2>1. ClientTypes'
    BY <1>1, <1>3 DEF ClientTypes
  <2>2. DOMAIN sent' = {} /\ Len(sent') = 0
    BY <1>3
  <2>3. Counted \in Nat
    BY RprtConcat, RprtType DEF ClientTypes, Counted
  <2>4. sent # <<>> => Len(sent) # 0
    BY EmptySeq DEF ClientTypes
  <2>5. Len(sent) \in Nat /\ cmd_idx \in Nat
    BY LenProperties, CommandsAssumption DEF ClientTypes
  <2>6. phase = "READING" => Counted = cmd_idx + 1 \/ Counted = cmd_idx
    BY <2>3, <2>5 DEF RequestInv
  <2>7. rx' \o answers' = rx \o answers
    BY <1>1
  <2>8. RequestInv'
    <3>1. Ordered(rx' \o answers')
      BY <2>7 DEF RequestInv
    <3>2. phase' # "IDLE" => Ends(rx' \o answers', Counted' - 1)
      BY <1>1, <1>2, <2>7 DEF RequestInv
    <3>3. phase' = "IDLE" => rx' = <<>> /\ Rest(answers')
      BY <1>1 DEF RequestInv
    <3>4. phase' \in {"CONNECTING", "WRITING"} => Counted' = cmd_idx'
      BY <1>1, <1>2 DEF RequestInv
    <3>5. phase' = "READING" => Counted' + Len(sent') = cmd_idx' + 1 \/ Counted' = cmd_idx'
      BY <1>1, <1>2, <2>2, <2>3, <2>6
    <3> QED BY <1>3, <2>2, <3>1, <3>2, <3>3, <3>4, <3>5, RequestNext
  <2> QED BY <2>1, <2>8
<1>4. CASE UNCHANGED connVars
  <2>1. UNCHANGED <<clientVars, age>>
    BY <1>4 DEF clientVars
  <2> QED BY <2>1, ClientStays
<1> QED BY <1>3, <1>4 DEF Hangup


LEMMA MarkedOld ==
  ASSUME NEW a \in Piece
  PROVE  LET b == [a EXCEPT !.old = TRUE]
         IN  b \in Piece /\ b.old /\ b.part = a.part /\ b.cmd = a.cmd
BY DEF Piece

\* What a request begins with is marked as left of an earlier one.
LEMMA PollKeeps ==
  ASSUME ClientTypes, RequestInv, poll_cb
  PROVE  ClientTypes' /\ RequestInv'
<1>1. /\ polling /\ phase = "IDLE" /\ phase' \in {"WRITING", "CONNECTING"}
      /\ fd' = TRUE /\ cmd_idx' = 0 /\ rx' = <<>> /\ op' = TRUE
      /\ answers' = [i \in DOMAIN answers |-> [answers[i] EXCEPT !.old = TRUE]]
      /\ sent' = [i \in DOMAIN sent |-> [sent[i] EXCEPT !.old = TRUE]]
      /\ UNCHANGED <<client, polling, last, peer, age>>
  BY DEF poll_cb
<1>2. sent = <<>> /\ Rest(answers)
  BY <1>1 DEF RequestInv
<1>3. sent' = <<>> /\ DOMAIN sent' = {}
  BY <1>1, <1>2
<1>4. answers \in Seq(Piece) /\ Len(answers) \in Nat /\ DOMAIN answers = 1..Len(answers)
  BY LenProperties DEF ClientTypes
<1>5. /\ \A i \in 1..Len(answers) : answers'[i] = [answers[i] EXCEPT !.old = TRUE]
      /\ DOMAIN answers' = 1..Len(answers)
  BY <1>1, <1>4
<1>6. \A i \in 1..Len(answers) : answers[i] \in Piece
  BY <1>4, ElementOfSeq
<1>7. \A i \in 1..Len(answers) :
          /\ answers'[i] \in Piece /\ answers'[i].old
          /\ answers'[i].part = answers[i].part /\ answers'[i].cmd = answers[i].cmd
  <2> SUFFICES ASSUME NEW i \in 1..Len(answers)
               PROVE  /\ answers'[i] \in Piece /\ answers'[i].old
                      /\ answers'[i].part = answers[i].part
                      /\ answers'[i].cmd = answers[i].cmd
    OBVIOUS
  <2>1. answers[i] \in Piece /\ answers'[i] = [answers[i] EXCEPT !.old = TRUE]
    BY <1>5, <1>6
  <2> QED BY <2>1, MarkedOld
<1>8. answers' \in [1..Len(answers) -> Piece]
  BY <1>1, <1>4, <1>5, <1>7
<1>9. answers' \in Seq(Piece) /\ Len(answers') = Len(answers)
  BY <1>4, <1>8, SeqDef, LenProperties
<1>10. Rest(answers')
  BY <1>2, <1>4, <1>5, <1>7, <1>9 DEF Rest
<1>11. ClientTypes'
  <2>1. 0 \in 0..NumCommands - 1
    BY CommandsAssumption
  <2>2. <<>> \in Seq(Piece) /\ <<>> \in Seq([old : BOOLEAN, cmd : 0..NumCommands - 1])
    OBVIOUS
  <2> QED BY <1>1, <1>3, <1>9, <2>1, <2>2 DEF ClientTypes, Phases
<1>12. Ordered(answers') /\ count_rprt_lines(answers') = 0
  BY <1>9, <1>10, RestOrdered
<1>13. rx' \o answers' = answers'
  BY <1>1, <1>9, EmptyConcat
<1>14. Counted' = 0
  <2>1. (count_rprt_lines(answers))' = 0
    BY <1>12 DEF count_rprt_lines
  <2> QED BY <1>13, <2>1 DEF Counted, count_rprt_lines
<1>15. Ends(answers', Counted' - 1)
  <2>1. answers' # <<>> => Len(answers') \in 1..Len(answers)
    BY <1>4, <1>9, EmptySeq
  <2> QED BY <1>7, <2>1 DEF Ends
<1>16. phase' # "IDLE" /\ phase' # "READING"
  BY <1>1
<1> QED BY <1>1, <1>3, <1>11, <1>12, <1>13, <1>14, <1>15, <1>16, RequestNext

LEMMA WriteKeeps ==
  ASSUME ClientTypes, RequestInv, phase \in {"CONNECTING", "WRITING"}, NEW p \in Pids \cup {0},
         write(p), UNCHANGED <<client, polling>>
  PROVE  ClientTypes' /\ RequestInv'
<1>1. CASE op_fail
  BY <1>1, OpFailKeeps
<1>2. CASE /\ phase' = "READING" /\ peer' = p
           /\ sent' = IF p = 0 THEN sent ELSE Append(sent, [old |-> FALSE, cmd |-> cmd_idx])
           /\ UNCHANGED <<fd, cmd_idx, op, rx, answers, last, age>>
  <2> DEFINE c == [old |-> FALSE, cmd |-> cmd_idx]
  <2>1. /\ sent = <<>> /\ Counted = cmd_idx /\ Ordered(rx \o answers)
        /\ Ends(rx \o answers, Counted - 1)
    BY DEF RequestInv
  <2>2. Counted' = Counted /\ rx' \o answers' = rx \o answers
    BY <1>2 DEF Counted, count_rprt_lines
  <2>3. c \in [old : BOOLEAN, cmd : 0..NumCommands - 1]
    BY DEF ClientTypes
  <2>4. cmd_idx \in Nat
    BY CommandsAssumption DEF ClientTypes
  <2>5. Ordered(rx' \o answers') /\ Ends(rx' \o answers', Counted' - 1)
    BY <2>1, <2>2
  <2>6. CASE p = 0
    <3>1. sent' = <<>> /\ DOMAIN sent' = {} /\ Len(sent') = 0
      BY <1>2, <2>1, <2>6
    <3>2. RequestInv'
      BY <1>2, <2>1, <2>2, <2>5, <2>6, <3>1, RequestNext
    <3> QED BY <1>2, <2>1, <3>1, <3>2 DEF ClientTypes, Phases
  <2>7. CASE p # 0
    <3>1. sent' = <<c>>
      <4>1. sent' = Append(<<>>, c)
        BY <1>2, <2>1, <2>7
      <4> HIDE DEF c
      <4> QED BY <4>1
    <3>2. /\ sent' \in Seq([old : BOOLEAN, cmd : 0..NumCommands - 1])
          /\ Len(sent') = 1 /\ DOMAIN sent' = {1} /\ sent'[1] = c
      BY <2>3, <3>1
    <3>3. RequestInv'
      <4>1. \A i \in DOMAIN sent' : ~sent'[i].old /\ sent'[i].cmd = cmd_idx'
        BY <1>2, <3>2
      <4>2. Counted' + Len(sent') = cmd_idx' + 1
        BY <1>2, <2>1, <2>2, <2>4, <3>2
      <4> QED BY <1>2, <2>5, <3>2, <4>1, <4>2, RequestNext
    <3> QED BY <1>2, <3>2, <3>3 DEF ClientTypes, Phases
  <2> QED BY <2>6, <2>7
<1> QED BY <1>1, <1>2 DEF write

\* The modes a sequence of pieces names.
LEMMA ParsedType ==
  ASSUME NEW buf \in Seq(Piece), last \in Modes \cup {"none"}, parse_response(buf)
  PROVE  last' \in Modes \cup {"none"} /\ age' = 0
<1> DEFINE reported == {x.mode : x \in {buf[i] : i \in DOMAIN buf}} \ {"none"}
<1>1. \A i \in DOMAIN buf : buf[i] \in Piece
  BY ElementOfSeq, LenProperties
<1>2. reported \subseteq Modes
  BY <1>1 DEF Piece
<1>3. /\ last' = IF reported = {} THEN last ELSE CHOOSE m \in reported : TRUE
      /\ age' = 0
  BY DEF parse_response
<1> HIDE DEF reported
<1> QED BY <1>2, <1>3

LEMMA SplitConcat ==
  ASSUME NEW s \in Seq(Piece), NEW t \in Seq(Piece), NEW n \in 1..Len(t)
  PROVE  /\ s \o SubSeq(t, 1, n) \in Seq(Piece)
         /\ SubSeq(t, n + 1, Len(t)) \in Seq(Piece)
         /\ s \o SubSeq(t, 1, n) # <<>>
         /\ (s \o SubSeq(t, 1, n)) \o SubSeq(t, n + 1, Len(t)) = s \o t
<1> DEFINE h == SubSeq(t, 1, n)
           r == SubSeq(t, n + 1, Len(t))
<1>1. Len(t) \in Nat /\ Len(s) \in Nat /\ n \in Nat
  BY LenProperties
<1>2. \A i \in 1..n : t[i] \in Piece
  BY <1>1, ElementOfSeq
<1>3. \A i \in (n + 1)..Len(t) : t[i] \in Piece
  BY <1>1, ElementOfSeq
<1>4. h \in Seq(Piece) /\ Len(h) = n /\ \A i \in 1..n : h[i] = t[i]
  BY <1>1, <1>2, SubSeqProperties
<1>5. r \in Seq(Piece) /\ Len(r) = Len(t) - n /\ \A i \in 1..(Len(t) - n) : r[i] = t[n + i]
  BY <1>1, <1>3, SubSeqProperties
<1> HIDE DEF h, r
<1>6. /\ s \o h \in Seq(Piece) /\ Len(s \o h) = Len(s) + n
      /\ \A i \in 1..Len(s) + n : (s \o h)[i] = IF i <= Len(s) THEN s[i] ELSE t[i - Len(s)]
  <2>1. /\ s \o h \in Seq(Piece) /\ Len(s \o h) = Len(s) + Len(h)
        /\ \A i \in 1..Len(s) + Len(h) : (s \o h)[i] = IF i <= Len(s) THEN s[i] ELSE h[i - Len(s)]
    BY <1>4, ConcatProperties
  <2> QED BY <1>1, <1>4, <2>1
<1> DEFINE b == s \o h
<1>7. /\ s \o t \in Seq(Piece) /\ Len(s \o t) = Len(s) + Len(t)
      /\ \A i \in 1..Len(s) + Len(t) : (s \o t)[i] = IF i <= Len(s) THEN s[i] ELSE t[i - Len(s)]
  BY ConcatProperties
<1>8. b \o r = s \o t
  <2>1. b \in Seq(Piece) /\ Len(b) = Len(s) + n
    BY <1>6
  <2> HIDE DEF b
  <2>2. /\ b \o r \in Seq(Piece) /\ Len(b \o r) = Len(b) + Len(r)
        /\ \A i \in 1..Len(b) + Len(r) : (b \o r)[i] = IF i <= Len(b) THEN b[i] ELSE r[i - Len(b)]
    BY <1>5, <2>1, ConcatProperties
  <2>3. Len(b \o r) = Len(s) + Len(t)
    BY <1>1, <1>5, <2>1, <2>2
  <2>4. ASSUME NEW i \in 1..Len(s) + Len(t) PROVE (b \o r)[i] = (s \o t)[i]
    <3>1. CASE i <= Len(b)
      <4>1. (b \o r)[i] = b[i]
        BY <1>1, <1>5, <2>1, <2>2, <3>1
      <4>2. b[i] = IF i <= Len(s) THEN s[i] ELSE t[i - Len(s)]
        BY <1>1, <1>6, <2>1, <3>1 DEF b
      <4> QED BY <1>7, <4>1, <4>2
    <3>2. CASE ~(i <= Len(b))
      <4>1. (b \o r)[i] = r[i - Len(b)] /\ i - Len(b) \in 1..Len(t) - n
        <5>1. i \in 1..Len(b) + Len(r)
          BY <1>1, <1>5, <2>1
        <5>2. (b \o r)[i] = r[i - Len(b)]
          BY <2>2, <3>2, <5>1
        <5> QED BY <1>1, <1>5, <2>1, <3>2, <5>1, <5>2
      <4>2. r[i - Len(b)] = t[n + (i - Len(b))]
        BY <1>5, <4>1
      <4>3. n + (i - Len(b)) = i - Len(s)
        BY <1>1, <2>1
      <4> QED BY <1>1, <1>7, <2>1, <3>2, <4>1, <4>2, <4>3
    <3> QED BY <3>1, <3>2
  <2> QED BY <1>7, <2>2, <2>3, <2>4, SeqEqual
<1>9. s \o h # <<>>
  BY <1>1, <1>6, EmptySeq
<1> QED BY <1>5, <1>6, <1>8, <1>9 DEF h, r

\* The client takes what has come: the RPRT it waits for is the last there is,
\* so that after the last command at most its code is left.
LEMMA ReadKeeps ==
  ASSUME ClientTypes, RequestInv, phase = "READING", read, UNCHANGED <<client, polling>>
  PROVE  ClientTypes' /\ RequestInv'
<1>1. PICK n \in 1..Len(answers) :
        LET buf == rx \o SubSeq(answers, 1, n) IN
        /\ answers' = SubSeq(answers, n + 1, Len(answers))
        /\ \/ /\ count_rprt_lines(buf) < cmd_idx + 1
              /\ rx' = buf /\ UNCHANGED <<phase, cmd_idx, op, last, age>>
           \/ /\ count_rprt_lines(buf) >= cmd_idx + 1 /\ cmd_idx + 1 < NumCommands
              /\ phase' = "WRITING" /\ cmd_idx' = cmd_idx + 1 /\ rx' = buf
              /\ UNCHANGED <<op, last, age>>
           \/ /\ count_rprt_lines(buf) >= cmd_idx + 1 /\ cmd_idx + 1 = NumCommands
              /\ parse_response(buf) /\ finish_request
        /\ UNCHANGED <<fd, peer, sent>>
  BY DEF read, Answered
<1> DEFINE buf == rx \o SubSeq(answers, 1, n)
           t == SubSeq(answers, n + 1, Len(answers))
<1>2. rx \in Seq(Piece) /\ answers \in Seq(Piece)
  BY DEF ClientTypes
<1>3. /\ buf \in Seq(Piece) /\ t \in Seq(Piece) /\ buf # <<>>
      /\ buf \o t = rx \o answers
  <2>1. rx \o SubSeq(answers, 1, n) \in Seq(Piece)
    BY <1>2, SplitConcat
  <2>2. SubSeq(answers, n + 1, Len(answers)) \in Seq(Piece)
    BY <1>2, SplitConcat
  <2>3. rx \o SubSeq(answers, 1, n) # <<>>
    BY <1>2, SplitConcat
  <2>4. (rx \o SubSeq(answers, 1, n)) \o SubSeq(answers, n + 1, Len(answers)) = rx \o answers
    BY <1>2, SplitConcat
  <2> QED BY <2>1, <2>2, <2>3, <2>4
<1>4. answers' = t /\ UNCHANGED <<client, polling, fd, peer, sent>>
  BY <1>1
<1>5. \/ /\ count_rprt_lines(buf) < cmd_idx + 1
         /\ rx' = buf /\ UNCHANGED <<phase, cmd_idx, op, last, age>>
      \/ /\ count_rprt_lines(buf) >= cmd_idx + 1 /\ cmd_idx + 1 < NumCommands
         /\ phase' = "WRITING" /\ cmd_idx' = cmd_idx + 1 /\ rx' = buf
         /\ UNCHANGED <<op, last, age>>
      \/ /\ count_rprt_lines(buf) >= cmd_idx + 1 /\ cmd_idx + 1 = NumCommands
         /\ parse_response(buf) /\ finish_request
  BY <1>1
<1> HIDE DEF buf, t
<1>6. /\ Ordered(rx \o answers) /\ Ends(rx \o answers, Counted - 1)
      /\ \A i \in DOMAIN sent : ~sent[i].old /\ sent[i].cmd = cmd_idx
      /\ Len(sent) <= 1
      /\ Counted + Len(sent) = cmd_idx + 1 \/ (peer = 0 /\ sent = <<>> /\ Counted = cmd_idx)
  BY DEF RequestInv
<1>7. /\ Counted = count_rprt_lines(buf) + count_rprt_lines(t)
      /\ count_rprt_lines(buf) \in Nat /\ count_rprt_lines(t) \in Nat
  BY <1>3, RprtConcat, RprtType DEF Counted
<1>8. cmd_idx \in Nat /\ Len(sent) \in Nat /\ (sent # <<>> => Len(sent) # 0)
  BY CommandsAssumption, LenProperties, EmptySeq DEF ClientTypes
\* While more is awaited, and when the next command is begun, nothing is lost.
<1>9. ASSUME rx' = buf PROVE rx' \o answers' = rx \o answers /\ Counted' = Counted
  BY <1>3, <1>4, <1>9 DEF Counted, count_rprt_lines
\* The awaited RPRT has come: there is no other.
<1>10. ASSUME count_rprt_lines(buf) >= cmd_idx + 1
       PROVE  Counted = cmd_idx + 1 /\ count_rprt_lines(t) = 0 /\ sent = <<>>
  <2>1. Counted >= cmd_idx + 1
    BY <1>7, <1>8, <1>10
  <2>2. Len(sent) = 0 /\ Counted = cmd_idx + 1
    BY <1>6, <1>7, <1>8, <2>1
  <2> QED BY <1>7, <1>8, <1>10, <2>2
<1>11. CASE rx' = buf /\ UNCHANGED <<phase, cmd_idx, op, last, age>>
  <2>1. ClientTypes'
    BY <1>3, <1>4, <1>11 DEF ClientTypes
  <2>2. Counted' = Counted
    BY <1>9, <1>11
  <2>3. Ordered(rx' \o answers') /\ Ends(rx' \o answers', Counted' - 1)
    BY <1>6, <1>9, <1>11
  <2>4. RequestInv'
    BY <1>4, <1>6, <1>11, <2>2, <2>3, RequestNext
  <2> QED BY <2>1, <2>4
<1>12. CASE /\ count_rprt_lines(buf) >= cmd_idx + 1 /\ cmd_idx + 1 < NumCommands
            /\ phase' = "WRITING" /\ cmd_idx' = cmd_idx + 1 /\ rx' = buf
            /\ UNCHANGED <<op, last, age>>
  <2>1. cmd_idx' \in 0..NumCommands - 1
    BY <1>8, <1>12, CommandsAssumption
  <2>2. ClientTypes'
    BY <1>3, <1>4, <1>12, <2>1 DEF ClientTypes, Phases
  <2>3. Ordered(rx' \o answers') /\ Ends(rx' \o answers', Counted' - 1) /\ Counted' = Counted
    BY <1>6, <1>9, <1>12
  <2>4. sent' = <<>> /\ DOMAIN sent' = {} /\ Counted' = cmd_idx'
    BY <1>4, <1>10, <1>12, <2>3
  <2>5. RequestInv'
    BY <1>12, <2>3, <2>4, RequestNext
  <2> QED BY <2>2, <2>5
<1>13. CASE /\ count_rprt_lines(buf) >= cmd_idx + 1 /\ cmd_idx + 1 = NumCommands
            /\ parse_response(buf) /\ finish_request
  <2>1. phase' = "IDLE" /\ cmd_idx' = 0 /\ op' = FALSE /\ rx' = <<>>
    BY <1>13 DEF finish_request
  <2>2. last' \in Modes \cup {"none"} /\ age' = 0
    BY <1>3, <1>13, ParsedType DEF ClientTypes
  <2>3. 0 \in 0..NumCommands - 1 /\ 0 \in 0..InfoTimeout /\ <<>> \in Seq(Piece)
    BY CommandsAssumption, TimeoutAssumption
  <2>4. ClientTypes'
    BY <1>3, <1>4, <2>1, <2>2, <2>3 DEF ClientTypes, Phases
  <2>5. Rest(t)
    <3>1. Counted - 1 = NumCommands - 1
      BY <1>10, <1>13
    <3>2. Ends(buf \o t, NumCommands - 1) /\ Ordered(buf \o t)
      BY <1>3, <1>6, <3>1
    <3>3. count_rprt_lines(t) = 0
      BY <1>10, <1>13
    <3> QED BY <1>3, <3>2, <3>3, OrderedRest
  <2>6. Ordered(t)
    BY <1>3, <2>5, RestOrdered
  <2>7. rx' \o answers' = t /\ answers' = t
    BY <1>3, <1>4, <2>1, EmptyConcat
  <2>8. Ordered(rx' \o answers') /\ Rest(answers')
    BY <2>5, <2>6, <2>7
  <2>9. sent' = <<>> /\ DOMAIN sent' = {}
    BY <1>4, <1>10, <1>13
  <2>10. RequestInv'
    BY <2>1, <2>8, <2>9, RequestNext
  <2> QED BY <2>4, <2>10
<1> QED BY <1>5, <1>11, <1>12, <1>13

LEMMA IoKeeps ==
  ASSUME ClientTypes, RequestInv, io_cb
  PROVE  ClientTypes' /\ RequestInv'
<1>1. UNCHANGED <<client, polling>>
  BY DEF io_cb
<1>2. CASE phase = "CONNECTING" /\ \E p \in PortHolder : write(p)
  <2>1. PICK p \in PortHolder : write(p)
    BY <1>2
  <2>2. p \in Pids \cup {0}
    BY DEF PortHolder
  <2> QED BY <1>1, <1>2, <2>1, <2>2, WriteKeeps
<1>3. CASE phase = "WRITING" /\ write(peer)
  <2>1. peer \in Pids \cup {0}
    BY DEF ClientTypes
  <2> QED BY <1>1, <1>3, <2>1, WriteKeeps
<1>4. CASE phase = "READING" /\ read
  BY <1>1, <1>4, ReadKeeps
<1>5. CASE op_fail
  BY <1>1, <1>5, OpFailKeeps
<1> QED BY <1>2, <1>3, <1>4, <1>5 DEF io_cb

\* Appending in two steps.
LEMMA ConcatTwice ==
  ASSUME NEW S, NEW s \in Seq(S), NEW t \in Seq(S), NEW u \in Seq(S)
  PROVE  t \o u \in Seq(S) /\ s \o (t \o u) = (s \o t) \o u
<1> DEFINE a == s \o t
           b == t \o u
<1>1. /\ a \in Seq(S) /\ Len(a) = Len(s) + Len(t)
      /\ \A i \in 1..Len(s) + Len(t) : a[i] = IF i <= Len(s) THEN s[i] ELSE t[i - Len(s)]
  BY ConcatProperties
<1>2. /\ b \in Seq(S) /\ Len(b) = Len(t) + Len(u)
      /\ \A i \in 1..Len(t) + Len(u) : b[i] = IF i <= Len(t) THEN t[i] ELSE u[i - Len(t)]
  BY ConcatProperties
<1>3. Len(s) \in Nat /\ Len(t) \in Nat /\ Len(u) \in Nat
  BY LenProperties
<1> HIDE DEF a, b
<1>4. /\ a \o u \in Seq(S) /\ Len(a \o u) = Len(a) + Len(u)
      /\ \A i \in 1..Len(a) + Len(u) : (a \o u)[i] = IF i <= Len(a) THEN a[i] ELSE u[i - Len(a)]
  <2>1. a \in Seq(S)
    BY <1>1
  <2> QED BY <2>1, ConcatProperties
<1>5. /\ s \o b \in Seq(S) /\ Len(s \o b) = Len(s) + Len(b)
      /\ \A i \in 1..Len(s) + Len(b) : (s \o b)[i] = IF i <= Len(s) THEN s[i] ELSE b[i - Len(s)]
  <2>1. b \in Seq(S)
    BY <1>2
  <2> QED BY <2>1, ConcatProperties
<1>6. Len(s \o b) = Len(a \o u)
  BY <1>1, <1>2, <1>3, <1>4, <1>5
<1>7. ASSUME NEW i \in 1..Len(s \o b) PROVE (s \o b)[i] = (a \o u)[i]
  <2>1. CASE i <= Len(s)
    BY <1>1, <1>2, <1>3, <1>4, <1>5, <2>1
  <2>2. CASE ~(i <= Len(s)) /\ i <= Len(s) + Len(t)
    <3>1. (s \o b)[i] = b[i - Len(s)] /\ i - Len(s) \in 1..Len(t)
      BY <1>2, <1>3, <1>5, <2>2
    <3>2. b[i - Len(s)] = t[i - Len(s)]
      <4> DEFINE k == i - Len(s)
      <4>1. k \in 1..Len(t) + Len(u) /\ k <= Len(t)
        BY <1>3, <3>1
      <4> HIDE DEF k
      <4>2. b[k] = t[k]
        BY <1>2, <4>1
      <4> QED BY <4>2 DEF k
    <3>3. (a \o u)[i] = a[i] /\ a[i] = t[i - Len(s)]
      BY <1>1, <1>2, <1>3, <1>4, <1>5, <2>2
    <3> QED BY <3>1, <3>2, <3>3
  <2>3. CASE ~(i <= Len(s) + Len(t))
    <3>1. (s \o b)[i] = b[i - Len(s)] /\ i - Len(s) \in Len(t) + 1..Len(t) + Len(u)
      BY <1>2, <1>3, <1>5, <2>3
    <3>2. b[i - Len(s)] = u[(i - Len(s)) - Len(t)]
      <4> DEFINE k == i - Len(s)
      <4>1. k \in 1..Len(t) + Len(u) /\ ~(k <= Len(t))
        BY <1>3, <3>1
      <4> HIDE DEF k
      <4>2. b[k] = u[k - Len(t)]
        BY <1>2, <4>1
      <4> QED BY <4>2 DEF k
    <3>3. (a \o u)[i] = u[i - Len(a)] /\ i - Len(a) = (i - Len(s)) - Len(t)
      BY <1>1, <1>2, <1>3, <1>4, <1>5, <2>3
    <3> QED BY <3>1, <3>2, <3>3
  <2> QED BY <1>3, <2>1, <2>2, <2>3
<1>8. s \o b = a \o u
  BY <1>4, <1>5, <1>6, <1>7, SeqEqual
<1> QED BY <1>2, <1>8 DEF a, b

LEMMA Triple ==
  ASSUME NEW x, NEW y, NEW z
  PROVE  /\ <<x>> \o <<y, z>> = <<x, y, z>>
         /\ Len(<<x, y, z>>) = 3 /\ DOMAIN <<x, y, z>> = {1, 2, 3}
         /\ <<x, y, z>>[1] = x /\ <<x, y, z>>[2] = y /\ <<x, y, z>>[3] = z
<1> DEFINE S == {x, y, z}
           a == <<x>>
           b == <<y, z>>
           c == <<x, y, z>>
<1>1. a \in Seq(S) /\ b \in Seq(S) /\ c \in Seq(S)
  OBVIOUS
<1>2. Len(a) = 1 /\ a[1] = x /\ Len(b) = 2 /\ b[1] = y /\ b[2] = z
  OBVIOUS
<1>3. Len(c) = 3 /\ c[1] = x /\ c[2] = y /\ c[3] = z
  OBVIOUS
<1>4. DOMAIN c = {1, 2, 3}
  OBVIOUS
<1> HIDE DEF S, a, b, c
<1>5. /\ a \o b \in Seq(S) /\ Len(a \o b) = Len(a) + Len(b)
      /\ \A i \in 1..Len(a) + Len(b) : (a \o b)[i] = IF i <= Len(a) THEN a[i] ELSE b[i - Len(a)]
  BY <1>1, ConcatProperties
<1>6. Len(a \o b) = Len(c)
  BY <1>2, <1>3, <1>5
<1>7. ASSUME NEW i \in 1..Len(a \o b) PROVE (a \o b)[i] = c[i]
  <2>1. i \in {1, 2, 3}
    BY <1>3, <1>6, <1>7
  <2>2. CASE i = 1
    BY <1>2, <1>3, <1>5, <2>2
  <2>3. CASE i = 2
    BY <1>2, <1>3, <1>5, <2>3
  <2>4. CASE i = 3
    BY <1>2, <1>3, <1>5, <2>4
  <2> QED BY <2>1, <2>2, <2>3, <2>4
<1>8. a \o b = c
  BY <1>1, <1>5, <1>6, <1>7, SeqEqual
<1> QED BY <1>3, <1>4, <1>8 DEF a, b, c

\* rigctld answers the command it has read: one more RPRT, one command less.
LEMMA AnswerKeeps ==
  ASSUME ClientTypes, RequestInv, radio \in Modes \cup {"off"}, Answer
  PROVE  ClientTypes' /\ RequestInv'
<1> DEFINE c == Head(sent)
           Part(x) == [old |-> c.old, cmd |-> c.cmd, part |-> x,
                       mode |-> IF x = "data" /\ c.cmd = NumCommands - 1 THEN radio ELSE "none"]
           d == IF radio = "off" THEN <<>> ELSE <<Part("data")>>
           e == <<Part("RPRT"), Part("code")>>
           g == d \o e
<1>1. /\ sent # <<>> /\ sent' = Tail(sent) /\ answers' = (answers \o d) \o e
      /\ UNCHANGED <<client, polling, phase, cmd_idx, op, rx, last, fd, peer, age>>
  BY DEF Answer, requestVars
<1>2. phase = "READING"
  BY <1>1 DEF RequestInv, ClientTypes, Phases
<1>3. /\ sent \in Seq([old : BOOLEAN, cmd : 0..NumCommands - 1])
      /\ Len(sent) \in Nat \ {0} /\ DOMAIN sent = 1..Len(sent)
  BY <1>1, EmptySeq, LenProperties DEF ClientTypes
<1>4. Len(sent) = 1 /\ Counted = cmd_idx
  <2>1. rx \o answers \in Seq(Piece) /\ cmd_idx \in Nat
    BY RprtConcat, CommandsAssumption DEF ClientTypes
  <2>2. Counted \in Nat
    BY <2>1, RprtType DEF Counted
  <2>3. /\ Len(sent) <= 1
        /\ Counted + Len(sent) = cmd_idx + 1 \/ sent = <<>>
    BY <1>2 DEF RequestInv
  <2>4. sent # <<>>
    BY <1>1
  <2> QED BY <1>3, <2>1, <2>2, <2>3, <2>4
<1>5. c = sent[1] /\ sent' = <<>>
  <2>1. c = sent[1]
    BY <1>1, <1>3
  <2>2. sent' \in Seq([old : BOOLEAN, cmd : 0..NumCommands - 1]) /\ Len(sent') = Len(sent) - 1
    BY <1>1, <1>3, HeadTailProperties
  <2>3. Len(sent') = 0
    BY <1>4, <2>2
  <2>4. sent' = <<>>
    BY <2>2, <2>3, EmptySeq
  <2> QED BY <2>1, <2>4
<1>6. c.old = FALSE /\ c.cmd = cmd_idx
  <2> DEFINE S == [old : BOOLEAN, cmd : 0..NumCommands - 1]
  <2>1. sent[1] \in S
    <3>1. sent \in Seq(S) /\ 1 \in 1..Len(sent)
      BY <1>3, <1>4
    <3> HIDE DEF S
    <3> QED BY <3>1, ElementOfSeq
  <2> QED BY <1>3, <1>4, <1>5, <2>1 DEF RequestInv
<1> HIDE DEF c
<1>7. /\ \A x \in {"RPRT", "code"} : Part(x) \in Piece
      /\ radio # "off" => Part("data") \in Piece
  <2>1. cmd_idx \in 0..NumCommands - 1
    BY DEF ClientTypes
  <2> QED BY <1>6, <2>1 DEF Piece
<1>8. \A x : ~Part(x).old /\ Part(x).cmd = cmd_idx /\ Part(x).part = x
  BY <1>6
<1> HIDE DEF Part
<1>9. d \in Seq(Piece) /\ e \in Seq(Piece)
  BY <1>7
<1>10. Group(g, cmd_idx)
  <2>1. CASE radio = "off"
    <3>1. g = <<Part("RPRT"), Part("code")>>
      <4>1. <<>> \o e = e
        BY <1>9, ConcatEmptySeq
      <4> QED BY <2>1, <4>1
    <3>2. Len(g) = 2 /\ DOMAIN g = {1, 2} /\ g[1] = Part("RPRT") /\ g[2] = Part("code")
      BY <3>1
    <3>3. g \in Seq(Piece)
      BY <1>7, <3>1
    <3> QED BY <1>8, <3>2, <3>3 DEF Group
  <2>2. CASE radio # "off"
    <3>1. d = <<Part("data")>>
      BY <2>2
    <3>2. g = <<Part("data"), Part("RPRT"), Part("code")>>
      BY <3>1, Triple
    <3>3. /\ Len(g) = 3 /\ DOMAIN g = {1, 2, 3}
          /\ g[1] = Part("data") /\ g[2] = Part("RPRT") /\ g[3] = Part("code")
      BY <3>2, Triple
    <3>4. g \in Seq(Piece)
      BY <1>7, <2>2, <3>2
    <3> QED BY <1>8, <3>3, <3>4 DEF Group
  <2> QED BY <2>1, <2>2
<1>11. rx \in Seq(Piece) /\ answers \in Seq(Piece) /\ rx \o answers \in Seq(Piece)
  BY RprtConcat DEF ClientTypes
<1> HIDE DEF d, e
<1>12. answers' = answers \o g /\ answers' \in Seq(Piece)
  <2>1. g \in Seq(Piece) /\ answers \o g = (answers \o d) \o e
    BY <1>9, <1>11, ConcatTwice, SMTT(30)
  <2>2. answers \o g \in Seq(Piece)
    BY <1>11, <2>1, ConcatProperties
  <2> QED BY <1>1, <2>1, <2>2
<1>13. rx' \o answers' = (rx \o answers) \o g
  <2>1. g \in Seq(Piece)
    BY <1>9, <1>11, ConcatTwice
  <2> HIDE DEF g
  <2>2. rx \o (answers \o g) = (rx \o answers) \o g
    BY <1>11, <2>1, ConcatTwice
  <2> QED BY <1>1, <1>12, <2>2
<1> HIDE DEF g
<1>14. /\ Ordered((rx \o answers) \o g) /\ Ends((rx \o answers) \o g, cmd_idx)
       /\ count_rprt_lines((rx \o answers) \o g) = Counted + 1
  BY <1>10, <1>11, OrderedGroup DEF RequestInv, Counted
<1>15. Counted' = cmd_idx + 1
  <2>1. Counted' = count_rprt_lines((rx \o answers) \o g)
    BY <1>13 DEF Counted, count_rprt_lines
  <2> QED BY <1>4, <1>14, <2>1
<1>16. ClientTypes'
  <2>1. <<>> \in Seq([old : BOOLEAN, cmd : 0..NumCommands - 1])
    OBVIOUS
  <2> QED BY <1>1, <1>5, <1>12, <2>1 DEF ClientTypes
<1>17. RequestInv'
  <2>1. cmd_idx \in Nat
    BY CommandsAssumption DEF ClientTypes
  <2>2. Counted' - 1 = cmd_idx
    BY <1>15, <2>1
  <2>3. Ordered(rx' \o answers') /\ Ends(rx' \o answers', Counted' - 1)
    BY <1>13, <1>14, <2>2
  <2>4. sent' = <<>> /\ DOMAIN sent' = {} /\ Len(sent') = 0
    BY <1>5
  <2>5. Counted' + Len(sent') = cmd_idx' + 1
    <3>1. cmd_idx' = cmd_idx
      BY <1>1
    <3> QED BY <1>15, <2>1, <2>4, <3>1
  <2> QED BY <1>1, <1>2, <2>3, <2>4, <2>5, RequestNext, SMTT(30)
<1> QED BY <1>16, <1>17

\* The keyer comes or goes, the configuration is applied.
LEMMA ClientKeyerKeeps ==
  ASSUME ClientTypes, RequestInv, NEW up \in BOOLEAN, ClientKeyerState(up),
         UNCHANGED <<client, last, age>>
  PROVE  ClientTypes' /\ RequestInv'
<1>1. CASE UNCHANGED <<polling, requestVars, connVars>>
  <2>1. UNCHANGED <<clientVars, age>>
    BY <1>1 DEF clientVars
  <2> QED BY <2>1, ClientStays
<1>2. CASE polling' = TRUE /\ UNCHANGED <<requestVars, connVars>>
  <2>1. UNCHANGED <<client, phase, cmd_idx, op, rx, last, fd, peer, sent, answers, age>>
    BY <1>2 DEF requestVars, connVars
  <2>2. ClientTypes'
    BY <1>2, <2>1 DEF ClientTypes
  <2>3. Counted' = Counted /\ rx' \o answers' = rx \o answers
    BY <2>1 DEF Counted, count_rprt_lines
  <2>4. Ordered(rx' \o answers')
    BY <2>3 DEF RequestInv
  <2>5. phase' # "IDLE" => Ends(rx' \o answers', Counted' - 1)
    BY <2>1, <2>3 DEF RequestInv
  <2>6. phase' = "IDLE" => Rest(answers')
    BY <2>1 DEF RequestInv
  <2>7. RequestInv'
    BY <2>1, <2>3, <2>4, <2>5, <2>6, RequestNext DEF RequestInv
  <2> QED BY <2>2, <2>7
<1>3. CASE rigcl_stop
  <2>1. polling' = FALSE /\ reset_io
    BY <1>3 DEF rigcl_stop
  <2> QED BY <2>1, ResetKeeps DEF ClientTypes
<1> QED BY <1>1, <1>2, <1>3 DEF ClientKeyerState

LEMMA ReconfigureClientKeeps ==
  ASSUME ClientTypes, online \in BOOLEAN, NEW on \in BOOLEAN, ReconfigureClient(on)
  PROVE  ClientTypes' /\ RequestInv'
<1>1. /\ client' = on /\ polling' = (on /\ online) /\ reset_io /\ last' = "none" /\ age' = age
  BY DEF ReconfigureClient
<1>2. polling' \in BOOLEAN
  BY <1>1
<1> QED BY <1>1, <1>2, ResetKeeps DEF ClientTypes

-----------------------------------------------------------------------------
(* The whole. *)

IInv ==
  /\ online \in BOOLEAN /\ radio \in Modes \cup {"off"}
  /\ ProcTypes /\ Supervised
  /\ ClientTypes /\ RequestInv

LEMMA RigctldInit == Init => IInv
<1> SUFFICES ASSUME Init PROVE IInv
  OBVIOUS
<1> USE DEF Init
<1>1. RespawnInitial \in RespawnInitial..RespawnMax
  BY DelayAssumption
<1>2. ProcTypes
  BY <1>1 DEF ProcTypes, States
<1>3. Supervised
  BY DEF Supervised, NoOrphans
<1>4. 0 \in 0..NumCommands - 1 /\ InfoTimeout \in 0..InfoTimeout
  BY CommandsAssumption, TimeoutAssumption
<1>5. <<>> \in Seq(Piece) /\ <<>> \in Seq([old : BOOLEAN, cmd : 0..NumCommands - 1])
  OBVIOUS
<1>6. ClientTypes
  BY <1>4, <1>5 DEF ClientTypes, Phases
<1>7. rx \o answers = <<>> /\ DOMAIN sent = {}
  OBVIOUS
<1>8. RequestInv
  BY <1>7, EmptyOrdered DEF RequestInv
<1> QED BY <1>2, <1>3, <1>6, <1>8 DEF IInv

\* Nothing about the supervisor and its processes changes.
LEMMA ProcStays ==
  ASSUME ProcTypes, Supervised, UNCHANGED <<kernelVars, procVars>>
  PROVE  ProcTypes' /\ Supervised'
BY DEF kernelVars, procVars, ProcTypes, Supervised, NoOrphans

LEMMA RigctldStep == IInv /\ [Next]_vars => IInv'
<1> SUFFICES ASSUME IInv, [Next]_vars PROVE IInv'
  OBVIOUS
<1>1. /\ online \in BOOLEAN /\ radio \in Modes \cup {"off"}
      /\ ProcTypes /\ Supervised /\ ClientTypes /\ RequestInv
  BY DEF IInv
<1>2. CASE KeyerState
  <2>1. /\ online' = ~online /\ radio' = radio
        /\ ProcKeyerState(~online) /\ ClientKeyerState(~online)
        /\ UNCHANGED <<client, last, age>>
    BY <1>2 DEF KeyerState
  <2>2. (~online) \in BOOLEAN
    BY <1>1
  <2>3. ProcTypes' /\ Supervised'
    BY <1>1, <2>1, <2>2, ProcKeyerKeeps
  <2>4. ClientTypes' /\ RequestInv'
    BY <1>1, <2>1, <2>2, ClientKeyerKeeps
  <2> QED BY <1>1, <2>1, <2>3, <2>4 DEF IInv
<1>3. CASE RadioChanges
  <2>1. UNCHANGED <<online, kernelVars, procVars, clientVars, age>> /\ radio' \in Modes \cup {"off"}
    BY <1>3 DEF RadioChanges
  <2>2. ProcTypes' /\ Supervised'
    BY <1>1, <2>1, ProcStays
  <2>3. ClientTypes' /\ RequestInv'
    BY <1>1, <2>1, ClientStays
  <2> QED BY <1>1, <2>1, <2>2, <2>3 DEF IInv
<1>4. CASE Tick
  <2>1. /\ UNCHANGED <<online, radio, kernelVars, procVars, clientVars>>
        /\ age < InfoTimeout /\ age' = age + 1
    BY <1>4 DEF Tick
  <2>2. ProcTypes' /\ Supervised'
    BY <1>1, <2>1, ProcStays
  <2>3. age' \in 0..InfoTimeout
    BY <1>1, <2>1, TimeoutAssumption DEF ClientTypes
  <2>4. ClientTypes' /\ RequestInv'
    BY <1>1, <2>1, <2>3, ClientStaysButAge
  <2> QED BY <1>1, <2>1, <2>2, <2>4 DEF IInv
<1>5. ASSUME NEW on \in BOOLEAN, ReconfigureProc(on) PROVE IInv'
  <2>1. ProcTypes' /\ Supervised'
    BY <1>1, <1>5, ReconfigureProcKeeps
  <2>2. /\ UNCHANGED <<online, radio, client, polling, requestVars, last, age>>
        /\ \E reaped \in ensure_dead : Hangup(reaped)
    BY <1>5 DEF ReconfigureProc, destroy
  <2>3. ClientTypes' /\ RequestInv'
    BY <1>1, <2>2, HangupKeeps
  <2> QED BY <1>1, <2>1, <2>2, <2>3 DEF IInv
<1>6. ASSUME NEW on \in BOOLEAN, ReconfigureClient(on) PROVE IInv'
  <2>1. UNCHANGED <<online, radio, kernelVars, procVars>>
    BY <1>6 DEF ReconfigureClient
  <2>2. ProcTypes' /\ Supervised'
    BY <1>1, <2>1, ProcStays
  <2>3. ClientTypes' /\ RequestInv'
    BY <1>1, <1>6, ReconfigureClientKeeps
  <2> QED BY <1>1, <2>1, <2>2, <2>3 DEF IInv
<1>7. CASE respawn_cb
  <2>1. ProcTypes' /\ Supervised'
    BY <1>1, <1>7, RespawnKeeps
  <2>2. UNCHANGED <<online, radio, clientVars, age>>
    BY <1>7 DEF respawn_cb
  <2>3. ClientTypes' /\ RequestInv'
    BY <1>1, <2>2, ClientStays
  <2> QED BY <1>1, <2>1, <2>2, <2>3 DEF IInv
<1>8. CASE poll_cb
  <2>1. UNCHANGED <<online, radio, kernelVars, procVars>>
    BY <1>8 DEF poll_cb
  <2>2. ProcTypes' /\ Supervised'
    BY <1>1, <2>1, ProcStays
  <2>3. ClientTypes' /\ RequestInv'
    BY <1>1, <1>8, PollKeeps
  <2> QED BY <1>1, <2>1, <2>2, <2>3 DEF IInv
<1>9. CASE io_cb
  <2>1. UNCHANGED <<online, radio, kernelVars, procVars>>
    BY <1>9 DEF io_cb
  <2>2. ProcTypes' /\ Supervised'
    BY <1>1, <2>1, ProcStays
  <2>3. ClientTypes' /\ RequestInv'
    BY <1>1, <1>9, IoKeeps
  <2> QED BY <1>1, <2>1, <2>2, <2>3 DEF IInv
<1>10. CASE op_timeout_cb
  <2>1. UNCHANGED <<online, radio, kernelVars, procVars>> /\ op_fail /\ UNCHANGED <<client, polling>>
    BY <1>10 DEF op_timeout_cb
  <2>2. ProcTypes' /\ Supervised'
    BY <1>1, <2>1, ProcStays
  <2>3. ClientTypes' /\ RequestInv'
    BY <1>1, <2>1, OpFailKeeps
  <2> QED BY <1>1, <2>1, <2>2, <2>3 DEF IInv
<1>11. CASE Answer
  <2>1. UNCHANGED <<online, radio, kernelVars, procVars>>
    BY <1>11 DEF Answer
  <2>2. ProcTypes' /\ Supervised'
    BY <1>1, <2>1, ProcStays
  <2>3. ClientTypes' /\ RequestInv'
    BY <1>1, <1>11, AnswerKeeps
  <2> QED BY <1>1, <2>1, <2>2, <2>3 DEF IInv
<1>12. ASSUME NEW p \in Pids, Reap(p) PROVE IInv'
  <2>1. ProcTypes' /\ Supervised'
    BY <1>1, <1>12, ReapKeeps
  <2>2. UNCHANGED <<online, radio, clientVars, age>>
    BY <1>12 DEF Reap
  <2>3. ClientTypes' /\ RequestInv'
    BY <1>1, <2>2, ClientStays
  <2> QED BY <1>1, <2>1, <2>2, <2>3 DEF IInv
<1>13. ASSUME NEW p \in Pids, Bind(p) PROVE IInv'
  <2>1. ProcTypes' /\ Supervised'
    BY <1>1, <1>13, ProcessKeeps
  <2>2. UNCHANGED <<online, radio, clientVars, age>>
    BY <1>13 DEF Bind
  <2>3. ClientTypes' /\ RequestInv'
    BY <1>1, <2>2, ClientStays
  <2> QED BY <1>1, <2>1, <2>2, <2>3 DEF IInv
<1>14. ASSUME NEW p \in Pids, Exit(p) \/ Crash(p) PROVE IInv'
  <2>1. ProcTypes' /\ Supervised'
    BY <1>1, <1>14, ProcessKeeps
  <2>2. UNCHANGED <<online, radio, client, polling, requestVars, last, age>> /\ Hangup({p})
    BY <1>14 DEF Exit, Crash
  <2>3. ClientTypes' /\ RequestInv'
    BY <1>1, <2>2, HangupKeeps
  <2> QED BY <1>1, <2>1, <2>2, <2>3 DEF IInv
<1>15. CASE UNCHANGED vars
  <2>1. UNCHANGED <<online, radio, kernelVars, procVars, clientVars, age>>
    BY <1>15 DEF vars
  <2>2. ProcTypes' /\ Supervised'
    BY <1>1, <2>1, ProcStays
  <2>3. ClientTypes' /\ RequestInv'
    BY <1>1, <2>1, ClientStays
  <2> QED BY <1>1, <2>1, <2>2, <2>3 DEF IInv
<1> QED BY <1>2, <1>3, <1>4, <1>5, <1>6, <1>7, <1>8, <1>9, <1>10, <1>11, <1>12, <1>13, <1>14, <1>15
        DEF Next

\* The inductive invariant: the supervisor knows every process that was not told
\* to end, and the client's request and what is on the connection agree.
THEOREM RigctldInductive == Spec => []IInv
BY RigctldInit, RigctldStep, PTL DEF Spec

\* Every variable keeps its type (the indices, delays and sequences included).
THEOREM RigctldTypes == Spec => []TypeOK
<1>1. IInv => TypeOK
  BY DEF IInv, ProcTypes, ClientTypes, TypeOK, States
<1> QED BY <1>1, RigctldInductive, PTL

\* rigctld_proc.c: whatever fails, crashes or is reconfigured, no rigctld is left
\* that is neither the supervised child nor told to end.
THEOREM NoneIsOrphaned == Spec => []NoOrphans
<1>1. IInv => NoOrphans
  BY DEF IInv, Supervised
<1> QED BY <1>1, RigctldInductive, PTL

\* rigctld_client.c: counting "RPRT " lines is enough to know which command an
\* answer belongs to, for any number of commands and however the answers are cut.
THEOREM AnswersStayInStep == Spec => []InStep
<1>1. IInv => InStep
  <2> SUFFICES ASSUME IInv PROVE InStep
    OBVIOUS
  <2> DEFINE all == rx \o answers
             mine == {i \in DOMAIN all : ~all[i].old /\ all[i].part = "RPRT"}
             out == Cardinality(mine) + Len(sent)
  <2>1. ClientTypes /\ RequestInv
    BY DEF IInv
  <2>2. \A i \in DOMAIN all : all[i].old => i = 1 /\ all[i].part = "code" /\ all[i].cmd = NumCommands - 1
    BY <2>1 DEF RequestInv, Ordered
  <2>3. mine = {i \in DOMAIN all : all[i].part = "RPRT"}
    BY <2>2
  <2>4. Cardinality(mine) = Counted
    BY <2>3 DEF Counted, count_rprt_lines
  <2> HIDE DEF mine
  <2>5. Counted \in Nat /\ Len(sent) \in Nat /\ (sent = <<>> => Len(sent) = 0)
    <3>1. rx \o answers \in Seq(Piece)
      BY <2>1, RprtConcat DEF ClientTypes
    <3>2. Counted \in Nat
      BY <3>1, RprtType DEF Counted
    <3>3. Len(sent) \in Nat
      BY <2>1, LenProperties DEF ClientTypes
    <3>4. sent = <<>> => Len(sent) = 0
      OBVIOUS
    <3> QED BY <3>2, <3>3, <3>4
  <2>6. phase \in {"CONNECTING", "WRITING"} => out = cmd_idx
    BY <2>1, <2>4, <2>5 DEF RequestInv
  <2>7. phase = "READING" => out = cmd_idx + 1 \/ (peer = 0 /\ out = cmd_idx)
    BY <2>1, <2>4, <2>5 DEF RequestInv
  <2>8. \A i \in DOMAIN sent : ~sent[i].old /\ sent[i].cmd = cmd_idx
    BY <2>1 DEF RequestInv
  <2> QED BY <2>2, <2>6, <2>7, <2>8 DEF InStep, mine
<1> QED BY <1>1, RigctldInductive, PTL
=============================================================================
