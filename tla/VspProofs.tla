----------------------------- MODULE VspProofs -----------------------------
(* Proofs about Vsp for every buffer capacity, every number of bytes and     *)
(* every set of PTT lines and bytes.                                         *)
EXTENDS Vsp, SequenceTheorems, TLAPS

-----------------------------------------------------------------------------
(* Sequences and buffers. *)

\* A buffer of bytes of S within its capacity.
Within(b, S) == b \in [rpos : Nat, data : Seq(S)] /\ buf_size_avail(b) >= 0

LEMMA FirstNFacts ==
  ASSUME NEW S, NEW s \in Seq(S), NEW n \in 0..Len(s)
  PROVE  /\ FirstN(s, n) \in Seq(S)
         /\ Len(FirstN(s, n)) = n
         /\ \A i \in 1..n : FirstN(s, n)[i] = s[i]
BY SubSeqProperties, LenProperties, ElementOfSeq DEF FirstN

LEMMA AfterNFacts ==
  ASSUME NEW S, NEW s \in Seq(S), NEW n \in 0..Len(s)
  PROVE  /\ AfterN(s, n) \in Seq(S)
         /\ Len(AfterN(s, n)) = Len(s) - n
         /\ \A i \in 1..(Len(s) - n) : AfterN(s, n)[i] = s[n + i]
<1>1. Len(s) \in Nat /\ \A i \in (n + 1)..Len(s) : s[i] \in S
  BY LenProperties, ElementOfSeq
<1>2. /\ AfterN(s, n) \in Seq(S)
      /\ Len(AfterN(s, n)) = IF n + 1 <= Len(s) THEN Len(s) - (n + 1) + 1 ELSE 0
      /\ \A i \in 1..(Len(s) - (n + 1) + 1) : AfterN(s, n)[i] = s[(n + 1) + i - 1]
  BY <1>1, SubSeqProperties, n + 1 \in Int DEF AfterN
<1> QED BY <1>1, <1>2

\* Taking the first bytes of a queue and then the others gives the queue.
LEMMA SplitJoin ==
  ASSUME NEW S, NEW s \in Seq(S), NEW n \in 0..Len(s)
  PROVE  FirstN(s, n) \o AfterN(s, n) = s
<1>1. Len(s) \in Nat
  BY LenProperties
<1>2. 1 \in 1..(Len(s) + 1) /\ n \in (1 - 1)..Len(s) /\ Len(s) \in n..Len(s)
  BY <1>1
<1>3. SubSeq(s, 1, n) \o SubSeq(s, n + 1, Len(s)) = SubSeq(s, 1, Len(s))
  BY <1>2, ConcatAdjacentSubSeq
<1>4. FirstN(s, n) \o AfterN(s, n) = SubSeq(s, 1, Len(s))
  BY <1>3 DEF FirstN, AfterN
<1> QED BY <1>4, SubSeqFull

\* Bytes that move from the front of one queue to the end of the one before it
\* stay in order.
LEMMA MoveOver ==
  ASSUME NEW S, NEW s \in Seq(S), NEW t \in Seq(S), NEW n \in 0..Len(t)
  PROVE  s \o t = (s \o FirstN(t, n)) \o AfterN(t, n)
<1> DEFINE x == FirstN(t, n)
           y == AfterN(t, n)
<1>1. x \in Seq(S) /\ y \in Seq(S)
  BY FirstNFacts, AfterNFacts
<1>2. x \o y = t
  BY SplitJoin
<1> HIDE DEF x, y
<1>3. (s \o x) \o y = s \o (x \o y)
  BY <1>1, ConcatAssociative, SMTT(60)
<1> QED BY <1>2, <1>3 DEF x, y

LEMMA TakeFront ==
  ASSUME NEW S, NEW s \in Seq(S), NEW t \in Seq(S), NEW n \in 0..Len(s)
  PROVE  s \o t = FirstN(s, n) \o (AfterN(s, n) \o t)
<1> DEFINE x == FirstN(s, n)
           y == AfterN(s, n)
<1>1. x \in Seq(S) /\ y \in Seq(S)
  BY FirstNFacts, AfterNFacts
<1>2. x \o y = s
  BY SplitJoin
<1> HIDE DEF x, y
<1>3. (x \o y) \o t = x \o (y \o t)
  BY <1>1, ConcatAssociative, SMTT(60)
<1> QED BY <1>2, <1>3 DEF x, y

\* What is left of a queue of two parts when bytes of the first part have gone.
LEMMA AfterConcat ==
  ASSUME NEW S, NEW s \in Seq(S), NEW t \in Seq(S), NEW n \in 0..Len(s)
  PROVE  AfterN(s \o t, n) = AfterN(s, n) \o t
<1> DEFINE m == Len(s)
           l == Len(t)
           u == s \o t
           r == AfterN(s, n)
           v == r \o t
           w == AfterN(u, n)
<1>1. /\ m \in Nat /\ l \in Nat /\ u \in Seq(S) /\ Len(u) = m + l
      /\ \A i \in 1..(m + l) : u[i] = IF i <= m THEN s[i] ELSE t[i - m]
  BY ConcatProperties, LenProperties
<1>2. r \in Seq(S) /\ Len(r) = m - n /\ \A i \in 1..(m - n) : r[i] = s[n + i]
  BY AfterNFacts
<1> HIDE DEF u, r
<1>3. w \in Seq(S) /\ Len(w) = (m + l) - n /\ \A i \in 1..((m + l) - n) : w[i] = u[n + i]
  <2>1. n \in 0..Len(u)
    BY <1>1
  <2>2. w \in Seq(S) /\ Len(w) = Len(u) - n /\ \A i \in 1..(Len(u) - n) : w[i] = u[n + i]
    BY <1>1, <2>1, AfterNFacts, ZenonT(60)
  <2> QED BY <1>1, <2>2
<1>4. /\ v \in Seq(S) /\ Len(v) = (m - n) + l
      /\ \A i \in 1..((m - n) + l) : v[i] = IF i <= m - n THEN r[i] ELSE t[i - (m - n)]
  <2>1. /\ v \in Seq(S) /\ Len(v) = Len(r) + Len(t)
        /\ \A i \in 1..(Len(r) + Len(t)) : v[i] = IF i <= Len(r) THEN r[i] ELSE t[i - Len(r)]
    BY <1>2, ConcatProperties
  <2> QED BY <1>2, <2>1
<1> HIDE DEF m, l, v, w
<1>5. ASSUME NEW i \in 1..((m + l) - n) PROVE w[i] = v[i]
  <2>1. w[i] = u[n + i] /\ n + i \in 1..(m + l) /\ i \in 1..((m - n) + l) /\ n \in 0..m
    BY <1>1, <1>3 DEF m
  <2>2. CASE i <= m - n
    <3>1. i \in 1..(m - n) /\ n + i <= m
      BY <1>1, <2>1, <2>2
    <3>2. u[n + i] = s[n + i]
      BY <1>1, <2>1, <3>1
    <3>3. r[i] = s[n + i]
      BY <1>2, <3>1
    <3>4. v[i] = r[i]
      BY <1>4, <2>1, <2>2
    <3> QED BY <2>1, <3>2, <3>3, <3>4
  <2>3. CASE i > m - n
    <3>1. u[n + i] = t[(n + i) - m]
      BY <1>1, <2>1, <2>3
    <3>2. v[i] = t[i - (m - n)]
      BY <1>1, <1>4, <2>1, <2>3
    <3>3. (n + i) - m = i - (m - n)
      BY <1>1
    <3> QED BY <2>1, <3>1, <3>2, <3>3
  <2> QED BY <1>1, <2>1, <2>2, <2>3
<1>6. Len(w) = Len(v) /\ \A i \in 1..Len(w) : w[i] = v[i]
  <2>1. (m + l) - n = (m - n) + l
    BY <1>1
  <2> QED BY <1>3, <1>4, <1>5, <2>1
<1>7. w = v
  BY <1>3, <1>4, <1>6, SeqEqual
<1> QED BY <1>7 DEF u, r, v, w

LEMMA RunFacts ==
  ASSUME NEW from \in Nat, NEW n \in Nat, NEW max \in Nat, from + n <= max
  PROVE  /\ Run(from, n) \in Seq(0..max)
         /\ Len(Run(from, n)) = n
         /\ \A i \in 1..n : Run(from, n)[i] = from + i
<1>1. \A i \in 1..n : from + i \in 0..max
  OBVIOUS
<1>2. Run(from, n) \in [1..n -> 0..max]
  BY <1>1 DEF Run
<1> QED BY <1>1, <1>2 DEF Run

\* The first bytes of a run are a shorter run.
LEMMA FirstOfRun ==
  ASSUME NEW from \in Nat, NEW n \in Nat, NEW k \in 0..n
  PROVE  FirstN(Run(from, n), k) = Run(from, k)
<1> DEFINE max == from + n
<1>0. max \in Nat /\ from + n <= max /\ from + k <= max /\ k \in Nat
  OBVIOUS
<1> HIDE DEF max
<1>1. /\ Run(from, n) \in Seq(0..max) /\ Len(Run(from, n)) = n
      /\ \A i \in 1..n : Run(from, n)[i] = from + i
  BY <1>0, RunFacts
<1>2. /\ Run(from, k) \in Seq(0..max) /\ Len(Run(from, k)) = k
      /\ \A i \in 1..k : Run(from, k)[i] = from + i
  BY <1>0, RunFacts
<1>3. /\ FirstN(Run(from, n), k) \in Seq(0..max)
      /\ Len(FirstN(Run(from, n), k)) = k
      /\ \A i \in 1..k : FirstN(Run(from, n), k)[i] = Run(from, n)[i]
  BY <1>1, FirstNFacts
<1> QED BY <1>1, <1>2, <1>3, SeqEqual

LEMMA LeastFacts ==
  ASSUME NEW m \in Nat, NEW n \in Nat
  PROVE  Least(m, n) \in Nat /\ Least(m, n) <= m /\ Least(m, n) <= n
         /\ Least(m, n) \in {m, n}
BY DEF Least

LEMMA EmptyBufWithin ==
  ASSUME VspAssumption, NEW S
  PROVE  Within(EmptyBuf, S) /\ buf_size_avail(EmptyBuf) = Cap
BY EmptySeq DEF Within, EmptyBuf, buf_size_avail, VspAssumption

LEMMA AvailType ==
  ASSUME VspAssumption, NEW S, NEW b, Within(b, S)
  PROVE  buf_size_avail(b) \in Nat
BY DEF Within, buf_size_avail, VspAssumption

\* buf_append takes the bytes that fit, in their order.
LEMMA AppendFacts ==
  ASSUME VspAssumption, NEW S, NEW b, Within(b, S), NEW s \in Seq(S)
  PROVE  LET k == Least(Len(s), buf_size_avail(b)) IN
         /\ k \in 0..Len(s) /\ k <= buf_size_avail(b)
         /\ buf_append(b, s).data = b.data \o FirstN(s, k)
         /\ Within(buf_append(b, s), S)
         /\ Len(buf_append(b, s).data) = Len(b.data) + k
         /\ buf_size_avail(buf_append(b, s)) = buf_size_avail(b) - k
<1> DEFINE k == Least(Len(s), buf_size_avail(b))
<1>1. /\ b.rpos \in Nat /\ b.data \in Seq(S) /\ Len(b.data) \in Nat /\ Cap \in Nat
      /\ buf_size_avail(b) \in Nat /\ Len(s) \in Nat
  BY DEF Within, buf_size_avail, VspAssumption
<1>2. k \in 0..Len(s) /\ k <= buf_size_avail(b)
  BY <1>1, LeastFacts
<1>3. buf_append(b, s) = [rpos |-> b.rpos, data |-> b.data \o FirstN(s, k)]
  <2>1. \A d : [b EXCEPT !.data = d] = [rpos |-> b.rpos, data |-> d]
    BY DEF Within
  <2> QED BY <2>1 DEF buf_append
<1> HIDE DEF k
<1>4. FirstN(s, k) \in Seq(S) /\ Len(FirstN(s, k)) = k
  BY <1>2, FirstNFacts
<1>5. b.data \o FirstN(s, k) \in Seq(S) /\ Len(b.data \o FirstN(s, k)) = Len(b.data) + k
  BY <1>1, <1>4, ConcatProperties
<1>6. buf_size_avail(buf_append(b, s)) = buf_size_avail(b) - k
  <2> DEFINE r == buf_append(b, s)
  <2>1. r.rpos = b.rpos /\ Len(r.data) = Len(b.data) + k
    BY <1>3, <1>5
  <2>2. Cap - b.rpos - (Len(b.data) + k) = Cap - b.rpos - Len(b.data) - k
    BY <1>1, <1>2
  <2> HIDE DEF r
  <2>3. buf_size_avail(r) = buf_size_avail(b) - k
    BY <2>1, <2>2 DEF buf_size_avail
  <2> QED BY <2>3 DEF r
<1>7. Within(buf_append(b, s), S)
  BY <1>1, <1>2, <1>3, <1>5, <1>6 DEF Within
<1> QED BY <1>2, <1>3, <1>5, <1>6, <1>7 DEF k

\* buf_consume takes bytes from the front.
LEMMA ConsumeFacts ==
  ASSUME VspAssumption, NEW S, NEW b, Within(b, S), NEW n \in 0..Len(b.data)
  PROVE  /\ Within(buf_consume(b, n), S)
         /\ buf_consume(b, n).data = AfterN(b.data, n)
         /\ n = Len(b.data) => buf_consume(b, n) = EmptyBuf
<1>1. /\ b.rpos \in Nat /\ b.data \in Seq(S) /\ Len(b.data) \in Nat /\ Cap \in Nat
      /\ Cap - b.rpos - Len(b.data) >= 0
  BY DEF Within, buf_size_avail, VspAssumption
<1>2. AfterN(b.data, n) \in Seq(S) /\ Len(AfterN(b.data, n)) = Len(b.data) - n
  BY <1>1, AfterNFacts
<1>3. CASE n = Len(b.data)
  <2>1. AfterN(b.data, n) = <<>>
    BY <1>1, <1>2, <1>3, EmptySeq
  <2> QED BY <1>3, <2>1, EmptyBufWithin DEF buf_consume, EmptyBuf
<1>4. CASE n # Len(b.data)
  BY <1>1, <1>2, <1>4 DEF buf_consume, Within, buf_size_avail
<1> QED BY <1>3, <1>4

LEMMA LastOfType ==
  ASSUME NEW S, NEW s \in Seq(S), NEW before \in S
  PROVE  LastOf(s, before) \in S
BY ElementOfSeq, EmptySeq, LenProperties DEF LastOf

-----------------------------------------------------------------------------
(* The inductive invariant. *)

\* The bytes on their way are ones that have been handed over.
Bytes ==
  /\ vs.rd.data \in Seq(0..MaxRx) /\ Within(vs.out, 0..MaxRx)
  /\ Within(vs.in, 0..MaxTx) /\ vs.wr.rest \in Seq(0..MaxTx)

\* A held read has taken over all there is and wants more; without one nothing
\* is left of it.
Collecting ==
  /\ Reading => vs.out = EmptyBuf /\ Len(vs.rd.data) < vs.rd.size
  /\ ~Reading => vs.rd = NoRead

\* Only a connector that works has a session, and nothing survives its end.
Closed ==
  /\ vs.open => state = "open"
  /\ ~vs.open => vs = NoSession /\ got = 0 /\ heard = 0 /\ nrx = 0 /\ ntx = 0

VspInv == TypeOK /\ Bytes /\ Collecting /\ Closed /\ NobodyForgotten

LEMMA WithinIsBuffer ==
  ASSUME VspAssumption, NEW max \in Nat, NEW b, Within(b, 0..max)
  PROVE  b \in Buffer
<1>1. /\ b \in [rpos : Nat, data : Seq(0..max)]
      /\ b.rpos \in Nat /\ b.data \in Seq(0..max) /\ Len(b.data) \in Nat /\ Cap \in Nat
      /\ Cap - b.rpos - Len(b.data) >= 0
  BY DEF Within, buf_size_avail, VspAssumption
<1>2. b.data \in Seq(Nat)
  BY <1>1, SeqMonotonic, 0..max \subseteq Nat
<1> QED BY <1>1, <1>2 DEF Buffer

LEMMA NoSessionType ==
  ASSUME VspAssumption, NEW r \in BOOLEAN
  PROVE  /\ NewSession(r) \in Session
         /\ NoSession \in Session
         /\ ~NoSession.open /\ NewSession(r).open
<1>1. EmptyBuf \in Buffer
  BY EmptyBufWithin, WithinIsBuffer, 0 \in Nat
<1>2. /\ NoRead \in [size : Nat, want : Nat, data : Seq(Nat), timed : BOOLEAN]
      /\ NoWrite \in [rest : Seq(Nat)]
      /\ NoPoll \in SUBSET {"none", "in", "out"}
  BY EmptySeq DEF NoRead, NoWrite, NoPoll
<1>3. \A x \in BOOLEAN : NewSession(x) \in Session
  BY <1>1, <1>2 DEF Session, NewSession
<1>4. NoSession \in Session
  BY <1>3 DEF NoSession, Session
<1> QED BY <1>3, <1>4 DEF NewSession, NoSession

LEMMA VspInit == VspAssumption /\ Init => VspInv
<1> SUFFICES ASSUME VspAssumption, Init PROVE VspInv
  OBVIOUS
<1>1. /\ vs = NoSession /\ vs.out = EmptyBuf /\ vs.in = EmptyBuf /\ vs.rd = NoRead
      /\ vs.rd.size = 0 /\ vs.rd.data = <<>> /\ vs.wr.rest = <<>> /\ ~vs.open
  BY DEF Init, NoSession, NewSession, NoRead, NoWrite
<1>2. TypeOK
  <2>1. vs \in Session /\ buf_size_avail(vs.out) >= 0 /\ buf_size_avail(vs.in) >= 0
    BY <1>1, EmptyBufWithin, NoSessionType DEF Within
  <2>2. {w_data_out, keyed, offLost} \subseteq BOOLEAN /\ vtime \in BOOLEAN
    BY DEF Init
  <2> QED BY <2>1, <2>2 DEF Init, TypeOK, VspAssumption
<1>3. Bytes
  BY <1>1, EmptyBufWithin, EmptySeq DEF Bytes
<1>4. Collecting /\ Closed /\ NobodyForgotten
  BY <1>1 DEF Init, Collecting, Closed, NobodyForgotten, Held, Reading, Writing
<1> QED BY <1>2, <1>3, <1>4 DEF VspInv

\* The state after the end of a session, whoever ended it.
LEMMA EndKeepsInv ==
  ASSUME VspAssumption, VspInv, NEW taken \in BOOLEAN, SessionEnd(taken),
         state' \in {"open", "failed", "none"}, w_data_out' \in BOOLEAN,
         UNCHANGED <<vmin, vtime>>
  PROVE  VspInv'
<1>1. /\ vs' = NoSession /\ vs'.out = EmptyBuf /\ vs'.in = EmptyBuf /\ vs'.rd = NoRead
      /\ vs'.rd.size = 0 /\ vs'.rd.data = <<>> /\ vs'.wr.rest = <<>> /\ ~vs'.open
  BY DEF SessionEnd, NoSession, NewSession, NoRead, NoWrite
<1>2. TypeOK'
  <2>1. keyed' \in BOOLEAN /\ offLost' \in BOOLEAN
    BY DEF SessionEnd, VspInv, TypeOK
  <2>2. {w_data_out', keyed', offLost'} \subseteq BOOLEAN
    BY <2>1
  <2>3. /\ vs' \in Session
        /\ (buf_size_avail(vs.out) >= 0)' /\ (buf_size_avail(vs.in) >= 0)'
    BY <1>1, EmptyBufWithin, NoSessionType DEF Within
  <2>4. vmin' \in Vmins \cup {1} /\ vtime' \in BOOLEAN /\ mbits' \subseteq Lines
    BY DEF SessionEnd, VspInv, TypeOK
  <2>5. waiting' \subseteq {"read", "write"}
    BY DEF SessionEnd, VspInv, TypeOK
  <2>6. /\ got' \in 0..MaxRx /\ heard' \in 0..MaxTx
        /\ nrx' \in 0..MaxRx /\ ntx' \in 0..MaxTx
    BY DEF SessionEnd, NoHistory, VspAssumption
  <2> QED BY <2>2, <2>3, <2>4, <2>5, <2>6 DEF TypeOK
<1>3. Bytes'
  BY <1>1, EmptyBufWithin, EmptySeq DEF Bytes
<1>4. waiting' = {}
  BY DEF SessionEnd, VspInv, NobodyForgotten
<1>5. Collecting' /\ Closed' /\ NobodyForgotten'
  BY <1>1, <1>4 DEF SessionEnd, NoHistory, Collecting, Closed, NobodyForgotten, Held,
    Reading, Writing
<1> QED BY <1>2, <1>3, <1>5 DEF VspInv

\* The record of a session, field by field.
Made(readable, ph, timer, out, in, rd, wr, ptt) ==
  [open |-> TRUE, readable |-> readable, ph |-> ph, timer |-> timer, out |-> out,
   in |-> in, rd |-> rd, wr |-> wr, ptt |-> ptt]

PollHandle == SUBSET {"none", "in", "out"}
HeldRead == [size : Nat, want : Nat, data : Seq(0..MaxRx), timed : BOOLEAN]
HeldWrite == [rest : Seq(0..MaxTx)]

\* What is known of the parts of an open session.
LEMMA SessionParts ==
  ASSUME VspAssumption, VspInv, vs.open
  PROVE  /\ vs = Made(vs.readable, vs.ph, vs.timer, vs.out, vs.in, vs.rd, vs.wr, vs.ptt)
         /\ vs.readable \in BOOLEAN /\ vs.ph \in PollHandle /\ vs.timer \in BOOLEAN
         /\ vs.rd \in HeldRead /\ vs.wr \in HeldWrite /\ vs.ptt \in BOOLEAN
         /\ Within(vs.out, 0..MaxRx) /\ Within(vs.in, 0..MaxTx)
<1>1. vs \in Session
  BY DEF VspInv, TypeOK
<1>2. vs = Made(vs.readable, vs.ph, vs.timer, vs.out, vs.in, vs.rd, vs.wr, vs.ptt)
  BY <1>1 DEF Session, Made
<1>3. /\ vs.readable \in BOOLEAN /\ vs.ph \in PollHandle /\ vs.timer \in BOOLEAN
      /\ vs.rd \in [size : Nat, want : Nat, data : Seq(Nat), timed : BOOLEAN]
      /\ vs.wr \in [rest : Seq(Nat)] /\ vs.ptt \in BOOLEAN
  BY <1>1 DEF Session, PollHandle
<1>4. vs.rd \in HeldRead /\ vs.wr \in HeldWrite
  BY <1>3 DEF VspInv, Bytes, HeldRead, HeldWrite
<1> QED BY <1>2, <1>3, <1>4 DEF VspInv, Bytes

\* What keeps the invariant in a step within a session.
LEMMA SessionStep ==
  ASSUME VspAssumption, state' = "open",
         NEW readable \in BOOLEAN, NEW ph \in PollHandle, NEW timer \in BOOLEAN,
         NEW out, Within(out, 0..MaxRx), NEW in, Within(in, 0..MaxTx),
         NEW rd \in HeldRead, NEW wr \in HeldWrite, NEW ptt \in BOOLEAN,
         vs' = Made(readable, ph, timer, out, in, rd, wr, ptt),
         rd.size > 0 => out = EmptyBuf /\ Len(rd.data) < rd.size,
         ~(rd.size > 0) => rd = NoRead,
         waiting' = (IF rd.size > 0 THEN {"read"} ELSE {})
                      \cup (IF wr.rest # <<>> THEN {"write"} ELSE {}),
         vmin' \in Vmins \cup {1}, vtime' \in BOOLEAN, mbits' \subseteq Lines,
         w_data_out' \in BOOLEAN, keyed' \in BOOLEAN, offLost' \in BOOLEAN,
         got' \in 0..MaxRx, heard' \in 0..MaxTx, nrx' \in 0..MaxRx, ntx' \in 0..MaxTx
  PROVE  VspInv'
<1>1. /\ vs'.open /\ vs'.out = out /\ vs'.in = in /\ vs'.rd = rd /\ vs'.wr = wr
  BY DEF Made
<1>2. out \in Buffer /\ in \in Buffer /\ MaxRx \in Nat /\ MaxTx \in Nat
  BY WithinIsBuffer DEF VspAssumption
<1>3. /\ rd \in [size : Nat, want : Nat, data : Seq(Nat), timed : BOOLEAN]
      /\ wr \in [rest : Seq(Nat)]
  <2>1. /\ \A s \in Seq(0..MaxRx) : s \in Seq(Nat)
        /\ \A s \in Seq(0..MaxTx) : s \in Seq(Nat)
    BY SeqMonotonic, 0..MaxRx \subseteq Nat, 0..MaxTx \subseteq Nat
  <2> QED BY <2>1 DEF HeldRead, HeldWrite
<1>4. vs' \in Session
  BY <1>2, <1>3 DEF Made, Session, PollHandle
<1>5. TypeOK'
  <2>1. buf_size_avail(vs'.out) >= 0 /\ buf_size_avail(vs'.in) >= 0
    BY <1>1 DEF Within
  <2>2. {w_data_out', keyed', offLost'} \subseteq BOOLEAN
    OBVIOUS
  <2>3. waiting' \subseteq {"read", "write"}
    OBVIOUS
  <2> QED BY <1>4, <2>1, <2>2, <2>3 DEF TypeOK
<1>6. Bytes'
  BY <1>1 DEF Bytes, HeldRead, HeldWrite
<1>7. Collecting' /\ NobodyForgotten'
  BY <1>1 DEF Collecting, NobodyForgotten, Held, Reading, Writing
<1>8. Closed'
  BY <1>1 DEF Closed
<1> QED BY <1>5, <1>6, <1>7, <1>8 DEF VspInv

\* What is known of everything but the session.
LEMMA OtherTypes ==
  ASSUME VspInv
  PROVE  /\ vmin \in Vmins \cup {1} /\ vtime \in BOOLEAN /\ mbits \subseteq Lines
         /\ w_data_out \in BOOLEAN /\ keyed \in BOOLEAN /\ offLost \in BOOLEAN
         /\ got \in 0..MaxRx /\ heard \in 0..MaxTx /\ nrx \in 0..MaxRx /\ ntx \in 0..MaxTx
         /\ waiting = (IF vs.rd.size > 0 THEN {"read"} ELSE {})
                        \cup (IF vs.wr.rest # <<>> THEN {"write"} ELSE {})
         /\ vs.rd.size > 0 => vs.out = EmptyBuf /\ Len(vs.rd.data) < vs.rd.size
         /\ ~(vs.rd.size > 0) => vs.rd = NoRead
<1>1. {w_data_out, keyed, offLost} \subseteq BOOLEAN
  BY DEF VspInv, TypeOK
<1>2. w_data_out \in BOOLEAN /\ keyed \in BOOLEAN /\ offLost \in BOOLEAN
  BY <1>1
<1> QED BY <1>2 DEF VspInv, TypeOK, NobodyForgotten, Held, Collecting, Reading, Writing

LEMMA NoCallHeld ==
  ASSUME VspAssumption
  PROVE  /\ NoRead \in HeldRead /\ NoWrite \in HeldWrite
         /\ NoRead.size = 0 /\ NoRead.data = <<>> /\ NoWrite.rest = <<>>
         /\ NoPoll \in PollHandle
BY EmptySeq DEF NoRead, NoWrite, HeldRead, HeldWrite, NoPoll, PollHandle

LEMMA OpenInv ==
  ASSUME VspAssumption, VspInv, NEW r \in BOOLEAN, dv_open(r)
  PROVE  VspInv'
<1>1. vs' = Made(r, NoPoll, FALSE, EmptyBuf, EmptyBuf, NoRead, NoWrite, FALSE)
  BY DEF dv_open, NewSession, Made
<1>2. vs = NoSession
  BY DEF dv_open, VspInv, Closed
<1>3. vs.rd = NoRead /\ vs.wr = NoWrite
  BY <1>2 DEF NoSession, NewSession
<1>4. waiting = {}
  BY <1>3, OtherTypes, NoCallHeld
<1>5. /\ state' = "open" /\ ~(NoRead.size > 0)
      /\ waiting' = (IF NoRead.size > 0 THEN {"read"} ELSE {})
                       \cup (IF NoWrite.rest # <<>> THEN {"write"} ELSE {})
  BY <1>4, NoCallHeld DEF dv_open
<1>6. /\ vmin' \in Vmins \cup {1} /\ vtime' \in BOOLEAN /\ mbits' \subseteq Lines
      /\ w_data_out' \in BOOLEAN /\ keyed' \in BOOLEAN /\ offLost' \in BOOLEAN
      /\ got' \in 0..MaxRx /\ heard' \in 0..MaxTx /\ nrx' \in 0..MaxRx /\ ntx' \in 0..MaxTx
  BY OtherTypes DEF dv_open, NoHistory, VspAssumption
<1> QED BY <1>1, <1>5, <1>6, NoCallHeld, EmptyBufWithin, SessionStep

LEMMA ReleaseInv ==
  ASSUME VspAssumption, VspInv, NEW taken \in BOOLEAN,
         dv_release(taken) \/ fail(taken) \/ vsp_destroy(taken)
  PROVE  VspInv'
<1>1. /\ SessionEnd(taken) /\ UNCHANGED <<vmin, vtime>>
      /\ state' \in {"open", "failed", "none"} /\ w_data_out' \in BOOLEAN
  BY OtherTypes DEF dv_release, fail, vsp_destroy
<1> QED BY <1>1, EndKeepsInv

LEMMA WantFacts ==
  ASSUME VspAssumption, VspInv, NEW size \in Nat, NEW nonblock \in BOOLEAN
  PROVE  Want(size, nonblock) \in Nat /\ Want(size, nonblock) <= size
<1>1. vmin \in Nat
  BY DEF VspInv, TypeOK, VspAssumption
<1> QED BY <1>1 DEF Want, Least

LEMMA ReadInv ==
  ASSUME VspAssumption, VspInv, NEW size \in 1..MaxRx, NEW nonblock \in BOOLEAN,
         dv_read(size, nonblock)
  PROVE  VspInv'
<1> DEFINE want == Want(size, nonblock)
           avail == Len(vs.out.data)
           n == Least(size, avail)
<1>1. vs.open /\ ~(vs.rd.size > 0) /\ state' = "open"
  BY DEF dv_read, Reading
<1>2. /\ vmin' \in Vmins \cup {1} /\ vtime' \in BOOLEAN /\ mbits' \subseteq Lines
      /\ w_data_out' \in BOOLEAN /\ keyed' \in BOOLEAN /\ offLost' \in BOOLEAN
      /\ heard' \in 0..MaxTx /\ nrx' \in 0..MaxRx /\ ntx' \in 0..MaxTx
  BY OtherTypes DEF dv_read
<1>3. /\ want \in Nat /\ want <= size /\ avail \in Nat /\ n \in 0..avail
      /\ size \in Nat /\ size > 0 /\ vs.out.data \in Seq(0..MaxRx)
  <2>1. size \in Nat /\ size > 0
    BY DEF VspAssumption
  <2>2. vs.out.data \in Seq(0..MaxRx) /\ avail \in Nat
    BY <1>1, SessionParts DEF Within
  <2>3. want \in Nat /\ want <= size
    BY <2>1, WantFacts
  <2>4. n \in 0..avail
    <3> HIDE DEF avail
    <3>1. n \in Nat /\ n <= avail
      BY <2>1, <2>2, LeastFacts
    <3> QED BY <2>2, <3>1
  <2> QED BY <2>1, <2>2, <2>3, <2>4
<1>4. CASE /\ vs' = [vs EXCEPT !.out = buf_consume(@, n)]
           /\ got' = LastOf(FirstN(vs.out.data, n), got) /\ UNCHANGED waiting
  <2>1. Within(buf_consume(vs.out, n), 0..MaxRx)
    BY <1>1, <1>3, SessionParts, ConsumeFacts
  <2>2. vs' = Made(vs.readable, vs.ph, vs.timer, buf_consume(vs.out, n), vs.in, vs.rd,
                   vs.wr, vs.ptt)
    BY <1>1, <1>4, SessionParts DEF Made
  <2>3. got' \in 0..MaxRx
    BY <1>3, <1>4, FirstNFacts, LastOfType, OtherTypes
  <2>4. waiting' = (IF vs.rd.size > 0 THEN {"read"} ELSE {})
                     \cup (IF vs.wr.rest # <<>> THEN {"write"} ELSE {})
    BY <1>4, OtherTypes
  <2> HIDE DEF want, avail, n
  <2> QED BY <1>1, <1>2, <2>1, <2>2, <2>3, <2>4, SessionParts, OtherTypes, SessionStep
<1>5. CASE avail < want /\ HoldRead(size, want)
  <2> DEFINE rd == [size |-> size, want |-> want, data |-> vs.out.data,
                    timed |-> vmin = 0 /\ vtime]
             timer == ArmsTimer(avail)
  <2>1. rd \in HeldRead /\ rd.size > 0 /\ Len(rd.data) < rd.size /\ timer \in BOOLEAN
    BY <1>3, <1>5 DEF HeldRead, ArmsTimer
  <2>2. vs' = Made(vs.readable, vs.ph, timer, EmptyBuf, vs.in, rd, vs.wr, vs.ptt)
    BY <1>1, <1>5, SessionParts DEF Made, HoldRead
  <2>3. waiting' = {"read"} \cup (IF vs.wr.rest # <<>> THEN {"write"} ELSE {})
    BY <1>1, <1>5, OtherTypes DEF HoldRead
  <2>4. got' \in 0..MaxRx
    BY <1>5, OtherTypes DEF HoldRead
  <2> HIDE DEF rd, timer, want, avail, n
  <2> QED BY <1>1, <1>2, <2>1, <2>2, <2>3, <2>4, SessionParts, EmptyBufWithin, SessionStep
<1> QED BY <1>4, <1>5 DEF dv_read

\* How a write is divided: what is buffered, what is held back.
LEMMA WriteParts ==
  ASSUME VspAssumption, VspInv, NEW size \in 1..MaxTx, NEW nonblock \in BOOLEAN,
         dv_write(size, nonblock)
  PROVE  LET avail == buf_size_avail(vs.in)
             held == ~nonblock /\ size > avail
             n == IF held THEN size ELSE Least(size, avail)
             bytes == Run(ntx, n)
         IN
         /\ avail \in Nat /\ n \in Nat /\ ntx \in Nat /\ ntx + n <= MaxTx
         /\ bytes \in Seq(0..MaxTx) /\ Len(bytes) = n
         /\ held => avail \in 0..n /\ avail < n
         /\ ~held => n <= avail
<1> DEFINE avail == buf_size_avail(vs.in)
           held == ~nonblock /\ size > avail
           n == IF held THEN size ELSE Least(size, avail)
           bytes == Run(ntx, n)
<1>1. /\ avail \in Nat /\ size \in Nat /\ ntx \in Nat /\ MaxTx \in Nat
      /\ ntx + size <= MaxTx
  <2>1. Within(vs.in, 0..MaxTx)
    BY DEF VspInv, Bytes
  <2>2. avail \in Nat
    BY <2>1 DEF Within, buf_size_avail, VspAssumption
  <2>3. ntx \in Nat /\ MaxTx \in Nat /\ size \in Nat
    BY OtherTypes DEF VspAssumption
  <2>4. ntx + size <= MaxTx
    BY DEF dv_write
  <2> QED BY <2>2, <2>3, <2>4
<1> HIDE DEF avail
<1>2. n \in Nat /\ n <= size /\ (held => n = size /\ avail < n) /\ (~held => n <= avail)
  <2>1. CASE held
    BY <1>1, <2>1
  <2>2. CASE ~held
    BY <1>1, <2>2, LeastFacts
  <2> QED BY <2>1, <2>2
<1> HIDE DEF held, n
<1>3. ntx + n <= MaxTx
  BY <1>1, <1>2
<1>4. bytes \in Seq(0..MaxTx) /\ Len(bytes) = n
  BY <1>1, <1>2, <1>3, RunFacts
<1>5. held => avail \in 0..n /\ avail < n
  BY <1>1, <1>2
<1> QED BY <1>1, <1>2, <1>3, <1>4, <1>5 DEF avail, held, n, bytes

LEMMA WriteInv ==
  ASSUME VspAssumption, VspInv, NEW size \in 1..MaxTx, NEW nonblock \in BOOLEAN,
         dv_write(size, nonblock)
  PROVE  VspInv'
<1> DEFINE avail == buf_size_avail(vs.in)
           held == ~nonblock /\ size > avail
           n == IF held THEN size ELSE Least(size, avail)
           bytes == Run(ntx, n)
           in == buf_append(vs.in, bytes)
           wr == IF held THEN [rest |-> AfterN(bytes, avail)] ELSE vs.wr
<1>1. vs.open /\ ~(vs.wr.rest # <<>>) /\ state' = "open"
  BY DEF dv_write, Writing
<1>2. /\ vs' = [vs EXCEPT !.in = in, !.wr = wr]
      /\ waiting' = IF held THEN waiting \cup {"write"} ELSE waiting
      /\ ntx' = ntx + n
  BY DEF dv_write
<1>3. /\ avail \in Nat /\ n \in Nat /\ ntx \in Nat /\ ntx + n <= MaxTx
      /\ bytes \in Seq(0..MaxTx) /\ Len(bytes) = n
      /\ held => avail \in 0..n /\ avail < n
  BY WriteParts
<1>4. /\ vmin' \in Vmins \cup {1} /\ vtime' \in BOOLEAN /\ mbits' \subseteq Lines
      /\ w_data_out' \in BOOLEAN /\ keyed' \in BOOLEAN /\ offLost' \in BOOLEAN
      /\ got' \in 0..MaxRx /\ heard' \in 0..MaxTx /\ nrx' \in 0..MaxRx
  BY OtherTypes DEF dv_write
<1>5. ntx' \in 0..MaxTx
  BY <1>2, <1>3 DEF VspAssumption
<1>6. Within(in, 0..MaxTx)
  BY <1>1, <1>3, SessionParts, AppendFacts
<1> HIDE DEF avail, held, n, bytes, in
<1>7. wr \in HeldWrite /\ (held <=> wr.rest # <<>>)
  <2>1. CASE held
    <3>1. AfterN(bytes, avail) \in Seq(0..MaxTx) /\ Len(AfterN(bytes, avail)) = n - avail
      BY <1>3, <2>1, AfterNFacts
    <3>2. AfterN(bytes, avail) # <<>>
      BY <1>3, <2>1, <3>1, EmptySeq
    <3> QED BY <2>1, <3>1, <3>2 DEF HeldWrite
  <2>2. CASE ~held
    BY <1>1, <2>2, SessionParts
  <2> QED BY <2>1, <2>2
<1> HIDE DEF wr
<1>8. vs' = Made(vs.readable, vs.ph, vs.timer, vs.out, in, vs.rd, wr, vs.ptt)
  BY <1>1, <1>2, SessionParts DEF Made
<1>9. waiting' = (IF vs.rd.size > 0 THEN {"read"} ELSE {})
                   \cup (IF wr.rest # <<>> THEN {"write"} ELSE {})
  BY <1>1, <1>2, <1>7, OtherTypes
<1> QED BY <1>1, <1>4, <1>5, <1>6, <1>7, <1>8, <1>9, SessionParts, OtherTypes, SessionStep

\* An interrupt finds a held call, and so a session.
LEMMA InterruptOpen ==
  ASSUME VspInv, waiting # {}
  PROVE  vs.open
<1> SUFFICES ASSUME ~vs.open PROVE FALSE
  OBVIOUS
<1>1. vs.rd = NoRead /\ vs.wr = NoWrite
  BY DEF VspInv, Closed, NoSession, NewSession
<1>2. ~(vs.rd.size > 0) /\ ~(vs.wr.rest # <<>>)
  BY <1>1 DEF NoRead, NoWrite
<1> QED BY <1>2, OtherTypes

LEMMA InterruptInv ==
  ASSUME VspAssumption, VspInv, Interrupt
  PROVE  VspInv'
<1>1. vs.open /\ state' = "open" /\ waiting' = {}
  BY InterruptOpen DEF Interrupt, VspInv, NobodyForgotten
<1> DEFINE timer == IF vs.rd.size > 0 THEN FALSE ELSE vs.timer
<1>2. vs' = Made(vs.readable, vs.ph, timer, vs.out, vs.in, NoRead, NoWrite, vs.ptt)
  BY <1>1, SessionParts DEF Interrupt, Made, Reading
<1>3. timer \in BOOLEAN
  BY <1>1, SessionParts
<1> HIDE DEF timer
<1>4. /\ vmin' \in Vmins \cup {1} /\ vtime' \in BOOLEAN /\ mbits' \subseteq Lines
      /\ w_data_out' \in BOOLEAN /\ keyed' \in BOOLEAN /\ offLost' \in BOOLEAN
      /\ got' \in 0..MaxRx /\ heard' \in 0..MaxTx /\ nrx' \in 0..MaxRx /\ ntx' \in 0..MaxTx
  BY OtherTypes DEF Interrupt
<1>5. /\ ~(NoRead.size > 0)
      /\ waiting' = (IF NoRead.size > 0 THEN {"read"} ELSE {})
                       \cup (IF NoWrite.rest # <<>> THEN {"write"} ELSE {})
  BY <1>1, NoCallHeld
<1> QED BY <1>1, <1>2, <1>3, <1>4, <1>5, NoCallHeld, SessionParts, SessionStep

\* Polling and the ioctls change neither the calls held nor the bytes read.
LEMMA IoctlInv ==
  ASSUME VspAssumption, VspInv, vs.open, state' = "open",
         NEW ph \in PollHandle, NEW ptt \in BOOLEAN, NEW out, NEW in,
         out \in {vs.out, EmptyBuf}, in \in {vs.in, EmptyBuf},
         vs' = Made(vs.readable, ph, vs.timer, out, in, vs.rd, vs.wr, ptt),
         vmin' \in Vmins \cup {1}, vtime' \in BOOLEAN, mbits' \subseteq Lines,
         keyed' \in BOOLEAN, offLost' \in BOOLEAN,
         UNCHANGED <<w_data_out, waiting, got, heard, nrx, ntx>>
  PROVE  VspInv'
<1>2. Within(out, 0..MaxRx) /\ Within(in, 0..MaxTx)
  BY SessionParts, EmptyBufWithin
<1>3. vs.rd.size > 0 => out = EmptyBuf /\ Len(vs.rd.data) < vs.rd.size
  BY OtherTypes
<1>4. /\ w_data_out' \in BOOLEAN
      /\ got' \in 0..MaxRx /\ heard' \in 0..MaxTx /\ nrx' \in 0..MaxRx /\ ntx' \in 0..MaxTx
      /\ waiting' = (IF vs.rd.size > 0 THEN {"read"} ELSE {})
                        \cup (IF vs.wr.rest # <<>> THEN {"write"} ELSE {})
  BY OtherTypes
<1> QED BY <1>2, <1>3, <1>4, SessionParts, OtherTypes, SessionStep

LEMMA PollInv ==
  ASSUME VspAssumption, VspInv, dv_poll
  PROVE  VspInv'
<1>1. vs.open /\ state' = "open" /\ PollEvents \in PollHandle
  BY DEF dv_poll, PollEvents, PollHandle
<1>2. vs' = Made(vs.readable, PollEvents, vs.timer, vs.out, vs.in, vs.rd, vs.wr, vs.ptt)
  BY <1>1, SessionParts DEF dv_poll, Made
<1>3. /\ vmin' \in Vmins \cup {1} /\ vtime' \in BOOLEAN /\ mbits' \subseteq Lines
      /\ keyed' \in BOOLEAN /\ offLost' \in BOOLEAN
      /\ UNCHANGED <<w_data_out, waiting, got, heard, nrx, ntx>>
  BY OtherTypes DEF dv_poll
<1> QED BY <1>1, <1>2, <1>3, SessionParts, IoctlInv

LEMMA TermiosInv ==
  ASSUME VspAssumption, VspInv, NEW flush \in BOOLEAN, NEW time \in BOOLEAN,
         NEW min \in Vmins, SetTermios(flush, min, time)
  PROVE  VspInv'
<1> DEFINE out == IF flush THEN EmptyBuf ELSE vs.out
<1>1. vs.open /\ state' = "open" /\ out \in {vs.out, EmptyBuf}
  BY DEF SetTermios
<1>2. vs' = Made(vs.readable, vs.ph, vs.timer, out, vs.in, vs.rd, vs.wr, vs.ptt)
  BY <1>1, SessionParts DEF SetTermios, Made
<1>3. /\ vmin' \in Vmins \cup {1} /\ vtime' \in BOOLEAN /\ mbits' \subseteq Lines
      /\ keyed' \in BOOLEAN /\ offLost' \in BOOLEAN
      /\ UNCHANGED <<w_data_out, waiting, got, heard, nrx, ntx>>
  BY OtherTypes DEF SetTermios
<1> HIDE DEF out
<1> QED BY <1>1, <1>2, <1>3, SessionParts, IoctlInv

LEMMA SetBitsInv ==
  ASSUME VspAssumption, VspInv, NEW bits \in SUBSET Lines, NEW taken \in BOOLEAN,
         set_bits(bits, taken)
  PROVE  VspInv'
<1> DEFINE on == bits \cap PttLines # {}
           ptt == IF PttLines # {} /\ taken THEN on ELSE vs.ptt
<1>1. vs.open /\ state' = "open"
  BY DEF set_bits
<1>2. vs.ptt \in BOOLEAN
  BY <1>1, SessionParts
<1>3. ptt \in BOOLEAN
  BY <1>2
<1>4. vs' = Made(vs.readable, vs.ph, vs.timer, vs.out, vs.in, vs.rd, vs.wr, ptt)
  <2>1. CASE PttLines = {}
    BY <1>1, <2>1, SessionParts DEF set_bits, Made
  <2>2. CASE PttLines # {}
    BY <1>1, <2>2, SessionParts DEF set_bits, Made
  <2> QED BY <2>1, <2>2
<1>5. keyed' \in BOOLEAN /\ offLost' \in BOOLEAN
  BY OtherTypes DEF set_bits, PttWrite
<1>6. /\ vmin' \in Vmins \cup {1} /\ vtime' \in BOOLEAN /\ mbits' \subseteq Lines
      /\ UNCHANGED <<w_data_out, waiting, got, heard, nrx, ntx>>
  BY OtherTypes DEF set_bits
<1> HIDE DEF ptt
<1> QED BY <1>1, <1>3, <1>4, <1>5, <1>6, SessionParts, IoctlInv

LEMMA FlushInv ==
  ASSUME VspAssumption, VspInv, NEW bufs, Flush(bufs)
  PROVE  VspInv'
<1> DEFINE in == IF "in" \in bufs THEN EmptyBuf ELSE vs.in
           out == IF "out" \in bufs THEN EmptyBuf ELSE vs.out
           ph == IF buf_size_avail(vs.in) = 0 /\ buf_size_avail(in) > 0
                 THEN NoPoll ELSE vs.ph
<1>1. /\ vs.open /\ state' = "open"
      /\ out \in {vs.out, EmptyBuf} /\ in \in {vs.in, EmptyBuf}
  BY DEF Flush
<1>2. vs' = [vs EXCEPT !.in = in, !.out = out, !.ph = ph]
  BY DEF Flush
<1>3. ph \in PollHandle
  BY <1>1, SessionParts, NoCallHeld
<1> HIDE DEF in, out, ph
<1>4. vs' = Made(vs.readable, ph, vs.timer, out, in, vs.rd, vs.wr, vs.ptt)
  BY <1>1, <1>2, SessionParts DEF Made
<1>5. /\ vmin' \in Vmins \cup {1} /\ vtime' \in BOOLEAN /\ mbits' \subseteq Lines
      /\ keyed' \in BOOLEAN /\ offLost' \in BOOLEAN
      /\ UNCHANGED <<w_data_out, waiting, got, heard, nrx, ntx>>
  BY OtherTypes DEF Flush
<1> QED BY <1>1, <1>3, <1>4, <1>5, SessionParts, IoctlInv

\* What arrives is buffered and given to a held read; one that stays held has
\* emptied the buffer.
LEMMA DataInParts ==
  ASSUME VspAssumption, VspInv, NEW size \in 1..MaxRx, data_in_cb(size)
  PROVE  LET b == buf_append(vs.out, Run(nrx, size))
             quanta == Least(Len(b.data), vs.rd.size - Len(vs.rd.data))
             data == vs.rd.data \o FirstN(b.data, quanta)
             done == Len(data) >= vs.rd.want \/ Len(data) = vs.rd.size
         IN
         /\ vs.open /\ nrx \in Nat /\ size \in Nat /\ nrx + size <= MaxRx
         /\ Run(nrx, size) \in Seq(0..MaxRx) /\ Len(Run(nrx, size)) = size
         /\ Within(b, 0..MaxRx)
         /\ Reading => /\ quanta \in 0..Len(b.data)
                       /\ FirstN(b.data, quanta) \in Seq(0..MaxRx)
                       /\ data \in Seq(0..MaxRx)
                       /\ Within(buf_consume(b, quanta), 0..MaxRx)
                       /\ ~done => /\ buf_consume(b, quanta) = EmptyBuf
                                   /\ Len(data) < vs.rd.size
<1> DEFINE b == buf_append(vs.out, Run(nrx, size))
           quanta == Least(Len(b.data), vs.rd.size - Len(vs.rd.data))
           data == vs.rd.data \o FirstN(b.data, quanta)
           done == Len(data) >= vs.rd.want \/ Len(data) = vs.rd.size
<1>1. /\ vs.open /\ nrx \in Nat /\ size \in Nat /\ MaxRx \in Nat
      /\ nrx + size <= MaxRx
  <2>1. vs.open /\ nrx + size <= MaxRx
    BY DEF data_in_cb
  <2> QED BY <2>1, OtherTypes DEF VspAssumption
<1>2. Run(nrx, size) \in Seq(0..MaxRx) /\ Len(Run(nrx, size)) = size
  BY <1>1, RunFacts
<1>3. Within(b, 0..MaxRx)
  BY <1>1, <1>2, SessionParts, AppendFacts
<1> HIDE DEF b
<1>4. b.data \in Seq(0..MaxRx) /\ Len(b.data) \in Nat
  BY <1>3 DEF Within
<1>5. ASSUME Reading
      PROVE  /\ quanta \in 0..Len(b.data)
             /\ FirstN(b.data, quanta) \in Seq(0..MaxRx)
             /\ data \in Seq(0..MaxRx)
             /\ Within(buf_consume(b, quanta), 0..MaxRx)
             /\ ~done => buf_consume(b, quanta) = EmptyBuf /\ Len(data) < vs.rd.size
  <2>1. /\ vs.rd.size \in Nat /\ vs.rd.data \in Seq(0..MaxRx) /\ Len(vs.rd.data) \in Nat
        /\ Len(vs.rd.data) < vs.rd.size
    <3>1. vs.rd \in HeldRead
      BY <1>1, SessionParts
    <3>2. vs.rd.size \in Nat /\ vs.rd.data \in Seq(0..MaxRx) /\ Len(vs.rd.data) \in Nat
      BY <3>1 DEF HeldRead
    <3> QED BY <1>5, <3>2, OtherTypes DEF Reading
  <2> DEFINE lack == vs.rd.size - Len(vs.rd.data)
  <2>2. lack \in Nat
    BY <2>1
  <2> HIDE DEF lack
  <2>3. quanta \in Nat /\ quanta <= Len(b.data) /\ quanta <= lack
        /\ (quanta = Len(b.data) \/ quanta = lack)
    BY <1>4, <2>2, LeastFacts DEF lack
  <2> HIDE DEF quanta
  <2>4. quanta \in 0..Len(b.data)
    BY <1>4, <2>3
  <2>5. FirstN(b.data, quanta) \in Seq(0..MaxRx) /\ Len(FirstN(b.data, quanta)) = quanta
    BY <1>4, <2>4, FirstNFacts
  <2>6. data \in Seq(0..MaxRx) /\ Len(data) = Len(vs.rd.data) + quanta
    BY <2>1, <2>5, ConcatProperties, ZenonT(60)
  <2> HIDE DEF data
  <2>7. /\ Within(buf_consume(b, quanta), 0..MaxRx)
        /\ quanta = Len(b.data) => buf_consume(b, quanta) = EmptyBuf
    BY <1>3, <2>4, ConsumeFacts
  <2>8. ASSUME ~done
        PROVE  buf_consume(b, quanta) = EmptyBuf /\ Len(data) < vs.rd.size
    <3>1. Len(data) # vs.rd.size
      BY <2>8
    <3>2. quanta # lack
      BY <2>1, <2>6, <3>1 DEF lack
    <3>3. quanta \in Nat /\ quanta < lack
      BY <2>2, <2>3, <3>2
    <3>4. Len(data) < vs.rd.size
      BY <2>1, <2>6, <3>3 DEF lack
    <3> QED BY <2>3, <2>7, <3>2, <3>4
  <2> QED BY <2>4, <2>5, <2>6, <2>7, <2>8
<1> QED BY <1>1, <1>2, <1>3, <1>5 DEF b

LEMMA DataInInv ==
  ASSUME VspAssumption, VspInv, NEW size \in 1..MaxRx, data_in_cb(size)
  PROVE  VspInv'
<1> DEFINE b == buf_append(vs.out, Run(nrx, size))
           quanta == Least(Len(b.data), vs.rd.size - Len(vs.rd.data))
           data == vs.rd.data \o FirstN(b.data, quanta)
           done == Len(data) >= vs.rd.want \/ Len(data) = vs.rd.size
           out == buf_consume(b, quanta)
<1>1. /\ vs.open /\ nrx \in Nat /\ size \in Nat /\ nrx + size <= MaxRx
      /\ Within(b, 0..MaxRx)
      /\ Reading => /\ data \in Seq(0..MaxRx)
                    /\ Within(out, 0..MaxRx)
                    /\ ~done => out = EmptyBuf /\ Len(data) < vs.rd.size
  BY DataInParts
<1>2. /\ state' = "open" /\ nrx' = nrx + size
      /\ IF ~Reading
         THEN vs' = [vs EXCEPT !.out = b, !.ph = NoPoll] /\ UNCHANGED <<got, waiting>>
         ELSE IF done
         THEN /\ vs' = [Collected(vs) EXCEPT !.out = out, !.ph = NoPoll]
              /\ got' = LastOf(data, got)
              /\ waiting' = waiting \ {"read"}
         ELSE /\ vs' = [vs EXCEPT !.out = out, !.rd.data = data,
                                  !.timer = IF quanta > 0 /\ vtime THEN TRUE ELSE @,
                                  !.ph = NoPoll]
              /\ UNCHANGED <<got, waiting>>
  BY DEF data_in_cb
<1>3. /\ vmin' \in Vmins \cup {1} /\ vtime' \in BOOLEAN /\ mbits' \subseteq Lines
      /\ w_data_out' \in BOOLEAN /\ keyed' \in BOOLEAN /\ offLost' \in BOOLEAN
      /\ heard' \in 0..MaxTx /\ ntx' \in 0..MaxTx
  BY OtherTypes DEF data_in_cb
<1>4. nrx' \in 0..MaxRx
  BY <1>1, <1>2 DEF VspAssumption
<1> HIDE DEF b, quanta, data, out, done
<1>5. CASE ~Reading
  <2>1. vs' = Made(vs.readable, NoPoll, vs.timer, b, vs.in, vs.rd, vs.wr, vs.ptt)
    BY <1>1, <1>2, <1>5, SessionParts DEF Made
  <2>2. got' \in 0..MaxRx /\ ~(vs.rd.size > 0)
        /\ waiting' = (IF vs.rd.size > 0 THEN {"read"} ELSE {})
                        \cup (IF vs.wr.rest # <<>> THEN {"write"} ELSE {})
    BY <1>2, <1>5, OtherTypes DEF Reading
  <2> QED BY <1>1, <1>2, <1>3, <1>4, <2>1, <2>2, SessionParts, OtherTypes, NoCallHeld,
    SessionStep
<1>6. CASE Reading /\ done
  <2>1. vs' = Made(vs.readable, NoPoll, FALSE, out, vs.in, NoRead, vs.wr, vs.ptt)
    BY <1>1, <1>2, <1>6, SessionParts DEF Made, Collected
  <2>2. got' \in 0..MaxRx
    BY <1>1, <1>2, <1>6, LastOfType, OtherTypes, SMTT(30)
  <2>3. /\ ~(NoRead.size > 0)
        /\ waiting' = (IF NoRead.size > 0 THEN {"read"} ELSE {})
                        \cup (IF vs.wr.rest # <<>> THEN {"write"} ELSE {})
    BY <1>2, <1>6, OtherTypes, NoCallHeld
  <2> QED BY <1>1, <1>2, <1>3, <1>4, <1>6, <2>1, <2>2, <2>3, SessionParts, NoCallHeld,
    SessionStep
<1>7. CASE Reading /\ ~done
  <2> DEFINE rd == [vs.rd EXCEPT !.data = data]
             timer == IF quanta > 0 /\ vtime THEN TRUE ELSE vs.timer
  <2>1. vs.rd \in HeldRead /\ data \in Seq(0..MaxRx) /\ vs.rd.size > 0
    BY <1>1, <1>7, SessionParts DEF Reading
  <2>2. rd \in HeldRead /\ rd.size = vs.rd.size /\ rd.data = data
    BY <2>1 DEF HeldRead
  <2>3. timer \in BOOLEAN
    BY <1>1, SessionParts
  <2>4. vs' = Made(vs.readable, NoPoll, timer, out, vs.in, rd, vs.wr, vs.ptt)
    BY <1>1, <1>2, <1>7, SessionParts DEF Made
  <2> HIDE DEF rd, timer
  <2>5. /\ got' \in 0..MaxRx
        /\ waiting' = (IF rd.size > 0 THEN {"read"} ELSE {})
                        \cup (IF vs.wr.rest # <<>> THEN {"write"} ELSE {})
    BY <1>2, <1>7, <2>2, OtherTypes
  <2>6. out = EmptyBuf /\ Len(rd.data) < rd.size /\ Within(out, 0..MaxRx) /\ rd.size > 0
    BY <1>1, <1>7, <2>1, <2>2
  <2> QED BY <1>1, <1>2, <1>3, <1>4, <2>2, <2>3, <2>4, <2>5, <2>6, SessionParts,
    NoCallHeld, SessionStep
<1> QED BY <1>5, <1>6, <1>7

LEMMA DataInShape ==
  ASSUME VspAssumption, VspInv, NEW size \in 1..MaxRx, data_in_cb(size)
  PROVE  /\ vs.open
         /\ \E timer, out, rd :
              vs' = Made(vs.readable, NoPoll, timer, out, vs.in, rd, vs.wr, vs.ptt)
<1> DEFINE b == buf_append(vs.out, Run(nrx, size))
           quanta == Least(Len(b.data), vs.rd.size - Len(vs.rd.data))
           data == vs.rd.data \o FirstN(b.data, quanta)
           done == Len(data) >= vs.rd.want \/ Len(data) = vs.rd.size
           out == buf_consume(b, quanta)
           timer == IF quanta > 0 /\ vtime THEN TRUE ELSE vs.timer
<1>1. /\ vs.open
      /\ \/ vs' = [vs EXCEPT !.out = b, !.ph = NoPoll]
         \/ vs' = [Collected(vs) EXCEPT !.out = out, !.ph = NoPoll]
         \/ vs' = [vs EXCEPT !.out = out, !.rd.data = data, !.timer = timer, !.ph = NoPoll]
  BY DEF data_in_cb
<1> HIDE DEF b, quanta, data, done, out, timer
<1>2. CASE vs' = [vs EXCEPT !.out = b, !.ph = NoPoll]
  <2>1. vs' = Made(vs.readable, NoPoll, vs.timer, b, vs.in, vs.rd, vs.wr, vs.ptt)
    BY <1>1, <1>2, SessionParts DEF Made
  <2> QED BY <1>1, <2>1
<1>3. CASE vs' = [Collected(vs) EXCEPT !.out = out, !.ph = NoPoll]
  <2>1. vs' = Made(vs.readable, NoPoll, FALSE, out, vs.in, NoRead, vs.wr, vs.ptt)
    BY <1>1, <1>3, SessionParts DEF Made, Collected
  <2> QED BY <1>1, <2>1
<1>4. CASE vs' = [vs EXCEPT !.out = out, !.rd.data = data, !.timer = timer, !.ph = NoPoll]
  <2> DEFINE rd == [vs.rd EXCEPT !.data = data]
  <2>1. vs' = Made(vs.readable, NoPoll, timer, out, vs.in, rd, vs.wr, vs.ptt)
    BY <1>1, <1>4, SessionParts DEF Made
  <2> QED BY <1>1, <2>1
<1> QED BY <1>1, <1>2, <1>3, <1>4

LEMMA TimerInv ==
  ASSUME VspAssumption, VspInv, read_timer_cb
  PROVE  VspInv'
<1>1. vs.open /\ state' = "open"
  BY DEF read_timer_cb
<1>2. /\ vmin' \in Vmins \cup {1} /\ vtime' \in BOOLEAN /\ mbits' \subseteq Lines
      /\ w_data_out' \in BOOLEAN /\ keyed' \in BOOLEAN /\ offLost' \in BOOLEAN
      /\ heard' \in 0..MaxTx /\ ntx' \in 0..MaxTx /\ nrx' \in 0..MaxRx
  BY OtherTypes DEF read_timer_cb
<1>3. CASE Reading
  <2>1. vs' = Made(vs.readable, vs.ph, FALSE, vs.out, vs.in, NoRead, vs.wr, vs.ptt)
    BY <1>1, <1>3, SessionParts DEF Made, Collected, read_timer_cb
  <2>2. got' \in 0..MaxRx
    <3>1. got' = LastOf(vs.rd.data, got)
      BY <1>3 DEF read_timer_cb
    <3>2. vs.rd.data \in Seq(0..MaxRx) /\ got \in 0..MaxRx
      BY OtherTypes DEF VspInv, Bytes
    <3> QED BY <3>1, <3>2, LastOfType
  <2>3. /\ ~(NoRead.size > 0)
        /\ waiting' = (IF NoRead.size > 0 THEN {"read"} ELSE {})
                        \cup (IF vs.wr.rest # <<>> THEN {"write"} ELSE {})
    BY <1>3, OtherTypes, NoCallHeld DEF read_timer_cb
  <2> QED BY <1>1, <1>2, <2>1, <2>2, <2>3, SessionParts, NoCallHeld, SessionStep
<1>4. CASE ~Reading
  <2>1. vs' = Made(vs.readable, vs.ph, FALSE, vs.out, vs.in, vs.rd, vs.wr, vs.ptt)
    BY <1>1, <1>4, SessionParts DEF Made, read_timer_cb
  <2>2. /\ got' \in 0..MaxRx /\ ~(vs.rd.size > 0)
        /\ waiting' = (IF vs.rd.size > 0 THEN {"read"} ELSE {})
                        \cup (IF vs.wr.rest # <<>> THEN {"write"} ELSE {})
    BY <1>4, OtherTypes DEF read_timer_cb, Reading
  <2> QED BY <1>1, <1>2, <2>1, <2>2, SessionParts, OtherTypes, SessionStep
<1> QED BY <1>3, <1>4

LEMMA PttAfterType ==
  ASSUME NEW bytes, NEW old \in BOOLEAN
  PROVE  PttAfter(bytes, old) \in BOOLEAN
<1> DEFINE ptt == {i \in DOMAIN bytes : bytes[i] \in OnBytes \cup OffBytes}
           x == bytes[CHOOSE i \in ptt : \A j \in ptt : j <= i]
<1>1. PttAfter(bytes, old) = IF ~DataIsPtt \/ ptt = {} THEN old ELSE x \in OnBytes
  BY DEF PttAfter
<1> HIDE DEF x, ptt
<1>2. CASE ~DataIsPtt \/ ptt = {}
  BY <1>1, <1>2
<1>3. CASE ~(~DataIsPtt \/ ptt = {})
  <2>1. PttAfter(bytes, old) = (x \in OnBytes)
    BY <1>1, <1>3
  <2> QED BY <2>1
<1> QED BY <1>2, <1>3

\* Sending makes room, which a held write fills.
LEMMA DataOutParts ==
  ASSUME VspAssumption, VspInv, NEW size \in 1..Cap, data_out_cb(size)
  PROVE  LET sent == FirstN(vs.in.data, size)
             b == buf_consume(vs.in, size)
             in == Refill(b)
             k == Len(in.data) - Len(b.data)
         IN
         /\ vs.open /\ size \in 0..Len(vs.in.data) /\ size > 0
         /\ sent \in Seq(0..MaxTx) /\ Len(sent) = size
         /\ Within(b, 0..MaxTx) /\ b.data = AfterN(vs.in.data, size)
         /\ Within(in, 0..MaxTx)
         /\ k \in 0..Len(vs.wr.rest)
         /\ in.data = b.data \o FirstN(vs.wr.rest, k)
         /\ AfterN(vs.wr.rest, k) \in Seq(0..MaxTx)
<1> DEFINE sent == FirstN(vs.in.data, size)
           b == buf_consume(vs.in, size)
           in == Refill(b)
           k == Len(in.data) - Len(b.data)
<1>1. /\ Within(vs.in, 0..MaxTx) /\ vs.in.data \in Seq(0..MaxTx) /\ Len(vs.in.data) \in Nat
      /\ vs.wr.rest \in Seq(0..MaxTx) /\ Len(vs.wr.rest) \in Nat
  BY DEF VspInv, Bytes, Within
<1>2. size \in 0..Len(vs.in.data) /\ size > 0
  <2>1. size <= Len(vs.in.data)
    BY DEF data_out_cb
  <2> QED BY <1>1, <2>1 DEF VspAssumption
<1>3. vs.open
  <2> SUFFICES ASSUME ~vs.open PROVE FALSE
    OBVIOUS
  <2>1. vs.in = EmptyBuf
    BY DEF VspInv, Closed, NoSession, NewSession
  <2>2. Len(vs.in.data) = 0
    BY <2>1, EmptySeq DEF EmptyBuf
  <2> QED BY <1>2, <2>2
<1>4. sent \in Seq(0..MaxTx) /\ Len(sent) = size
  BY <1>1, <1>2, FirstNFacts
<1>5. Within(b, 0..MaxTx) /\ b.data = AfterN(vs.in.data, size)
  BY <1>1, <1>2, ConsumeFacts
<1> HIDE DEF b, sent
<1>6. b.data \in Seq(0..MaxTx) /\ Len(b.data) \in Nat
  BY <1>5 DEF Within
<1>7. /\ Within(in, 0..MaxTx) /\ k \in 0..Len(vs.wr.rest)
      /\ in.data = b.data \o FirstN(vs.wr.rest, k)
  <2>1. CASE Writing
    <3> DEFINE l == Least(Len(vs.wr.rest), buf_size_avail(b))
    <3>1. in = buf_append(b, vs.wr.rest)
      BY <2>1 DEF Refill
    <3> HIDE DEF in
    <3>2. /\ l \in 0..Len(vs.wr.rest)
          /\ buf_append(b, vs.wr.rest).data = b.data \o FirstN(vs.wr.rest, l)
          /\ Within(buf_append(b, vs.wr.rest), 0..MaxTx)
          /\ Len(buf_append(b, vs.wr.rest).data) = Len(b.data) + l
      BY <1>1, <1>5, AppendFacts
    <3> HIDE DEF l
    <3>3. in.data = b.data \o FirstN(vs.wr.rest, l)
      BY <3>1, <3>2
    <3>4. Len(in.data) = Len(b.data) + l /\ l \in Nat
      BY <1>1, <3>1, <3>2
    <3>5. k = l
      BY <1>6, <3>4
    <3> QED BY <3>1, <3>2, <3>3, <3>5
  <2>2. CASE ~Writing
    <3>1. in = b /\ vs.wr.rest = <<>>
      BY <2>2 DEF Refill, Writing
    <3> HIDE DEF in
    <3>2. k = 0 /\ k \in 0..Len(vs.wr.rest)
      BY <1>1, <1>6, <3>1
    <3> HIDE DEF k
    <3>3. FirstN(vs.wr.rest, k) = <<>>
      <4>1. SubSeq(vs.wr.rest, 1, 0) = <<>>
        BY SubSeqEmpty, 0 \in Int, 1 \in Int, 0 < 1
      <4> QED BY <3>2, <4>1 DEF FirstN
    <3>4. b.data \o <<>> = b.data
      BY <1>6, ConcatEmptySeq
    <3> QED BY <1>5, <3>1, <3>2, <3>3, <3>4
  <2> QED BY <2>1, <2>2
<1> HIDE DEF in, k
<1>8. AfterN(vs.wr.rest, k) \in Seq(0..MaxTx)
  BY <1>1, <1>7, AfterNFacts
<1> QED BY <1>2, <1>3, <1>4, <1>5, <1>7, <1>8 DEF b, in, sent, k

LEMMA DataOutInv ==
  ASSUME VspAssumption, VspInv, NEW size \in 1..Cap, data_out_cb(size)
  PROVE  VspInv'
<1> DEFINE sent == FirstN(vs.in.data, size)
           b == buf_consume(vs.in, size)
           in == Refill(b)
           rest == AfterN(vs.wr.rest, Len(in.data) - Len(b.data))
           wr == IF ~Writing \/ rest = <<>> THEN NoWrite ELSE [vs.wr EXCEPT !.rest = rest]
           ph == IF buf_size_avail(in) > 0 THEN NoPoll ELSE vs.ph
           ptt == PttAfter(sent, vs.ptt)
<1>1. /\ vs.open /\ sent \in Seq(0..MaxTx) /\ Within(in, 0..MaxTx)
      /\ rest \in Seq(0..MaxTx)
  BY DataOutParts
<1>0. state' = "open"
  BY DEF data_out_cb
<1>2. /\ vs' = [vs EXCEPT !.in = in, !.wr = wr, !.ph = ph, !.ptt = ptt]
      /\ heard' = LastOf(sent, heard)
      /\ waiting' = IF Writing /\ rest = <<>> THEN waiting \ {"write"} ELSE waiting
      /\ keyed' = PttAfter(sent, keyed)
      /\ w_data_out' = NeedToWrite(in)
  BY DEF data_out_cb
<1>3. /\ vmin' \in Vmins \cup {1} /\ vtime' \in BOOLEAN /\ mbits' \subseteq Lines
      /\ got' \in 0..MaxRx /\ nrx' \in 0..MaxRx /\ ntx' \in 0..MaxTx
  BY OtherTypes DEF data_out_cb
<1>4. keyed' \in BOOLEAN /\ ptt \in BOOLEAN /\ w_data_out' \in BOOLEAN
  BY <1>1, <1>2, PttAfterType, OtherTypes, SessionParts DEF NeedToWrite
<1>5. offLost' \in BOOLEAN
  BY OtherTypes DEF data_out_cb
<1>6. ph \in PollHandle
  BY <1>1, SessionParts, NoCallHeld
<1>7. heard' \in 0..MaxTx
  BY <1>1, <1>2, LastOfType, OtherTypes
<1> HIDE DEF sent, b, in, rest, ph, ptt
<1>8. wr \in HeldWrite /\ (wr.rest # <<>> <=> Writing /\ rest # <<>>)
  <2>1. [vs.wr EXCEPT !.rest = rest] \in HeldWrite
        /\ [vs.wr EXCEPT !.rest = rest].rest = rest
    BY <1>1, SessionParts DEF HeldWrite
  <2> QED BY <2>1, NoCallHeld
<1> HIDE DEF wr
<1>9. waiting' = (IF vs.rd.size > 0 THEN {"read"} ELSE {})
                   \cup (IF wr.rest # <<>> THEN {"write"} ELSE {})
  BY <1>2, <1>8, OtherTypes DEF Writing
<1>10. vs' = Made(vs.readable, ph, vs.timer, vs.out, in, vs.rd, wr, ptt)
  BY <1>1, <1>2, SessionParts DEF Made
<1> QED BY <1>0, <1>1, <1>3, <1>4, <1>5, <1>6, <1>7, <1>8, <1>9, <1>10, SessionParts,
  OtherTypes, SessionStep

\* Steps that leave the session and the connector's calls alone.
LEMMA OutsideInv ==
  ASSUME VspAssumption, VspInv, data_out_idle \/ vsp_create \/ UNCHANGED vspVars
  PROVE  VspInv'
<1>1. UNCHANGED <<vs, waiting, got, heard, nrx, ntx>>
  BY DEF data_out_idle, vsp_create, vspVars
<1>2. vmin' \in Vmins \cup {1} /\ vtime' \in BOOLEAN /\ mbits' \subseteq Lines
  BY OtherTypes DEF data_out_idle, vsp_create, vspVars
<1>3. w_data_out' \in BOOLEAN /\ keyed' \in BOOLEAN /\ offLost' \in BOOLEAN
  BY OtherTypes DEF data_out_idle, vsp_create, vspVars
<1>4. state' \in {"open", "failed", "none"} /\ (vs.open => state' = "open")
  BY DEF data_out_idle, vsp_create, vspVars, VspInv, TypeOK, Closed
<1>5. TypeOK'
  <2>1. {w_data_out', keyed', offLost'} \subseteq BOOLEAN
    BY <1>3
  <2> QED BY <1>1, <1>2, <1>4, <2>1 DEF VspInv, TypeOK
<1>6. Bytes' /\ Collecting' /\ NobodyForgotten'
  BY <1>1 DEF VspInv, Bytes, Collecting, NobodyForgotten, Held, Reading, Writing
<1>7. Closed'
  BY <1>1, <1>4 DEF VspInv, Closed
<1> QED BY <1>5, <1>6, <1>7 DEF VspInv

LEMMA VspStep ==
  ASSUME VspAssumption, VspInv, [Next]_vspVars
  PROVE  VspInv'
<1>1. ASSUME NEW r \in BOOLEAN, dv_open(r) PROVE VspInv'
  BY <1>1, OpenInv
<1>2. ASSUME NEW taken \in BOOLEAN, dv_release(taken) PROVE VspInv'
  BY <1>2, ReleaseInv
<1>3. ASSUME NEW size \in 1..MaxRx, NEW nonblock \in BOOLEAN, dv_read(size, nonblock)
      PROVE  VspInv'
  BY <1>3, ReadInv
<1>4. ASSUME NEW size \in 1..MaxTx, NEW nonblock \in BOOLEAN, dv_write(size, nonblock)
      PROVE  VspInv'
  BY <1>4, WriteInv
<1>5. CASE Interrupt
  BY <1>5, InterruptInv
<1>6. CASE dv_poll
  BY <1>6, PollInv
<1>7. ASSUME NEW flush \in BOOLEAN, NEW time \in BOOLEAN, NEW min \in Vmins,
             SetTermios(flush, min, time)
      PROVE  VspInv'
  BY <1>7, TermiosInv
<1>8. ASSUME NEW bits \in SUBSET Lines, NEW taken \in BOOLEAN, set_bits(bits, taken)
      PROVE  VspInv'
  BY <1>8, SetBitsInv
<1>9. ASSUME NEW bufs \in (SUBSET {"in", "out"}) \ {{}}, Flush(bufs) PROVE VspInv'
  BY <1>9, FlushInv
<1>10. ASSUME NEW size \in 1..MaxRx, data_in_cb(size) PROVE VspInv'
  BY <1>10, DataInInv
<1>11. ASSUME NEW size \in 1..Cap, data_out_cb(size) PROVE VspInv'
  BY <1>11, DataOutInv
<1>12. CASE data_out_idle \/ vsp_create \/ UNCHANGED vspVars
  BY <1>12, OutsideInv
<1>13. CASE read_timer_cb
  BY <1>13, TimerInv
<1>14. ASSUME NEW taken \in BOOLEAN, ChannelFails(taken) \/ vsp_destroy(taken)
       PROVE  VspInv'
  BY <1>14, ReleaseInv DEF ChannelFails
<1> QED BY <1>1, <1>2, <1>3, <1>4, <1>5, <1>6, <1>7, <1>8, <1>9, <1>10, <1>11, <1>12,
  <1>13, <1>14 DEF Next

\* Which request of which client is held, what a client is promised and where PTT
\* is follow from VspInv, which every callback and every client's call preserves.
THEOREM VspInductive == Spec => []VspInv
<1>1. VspAssumption
  BY VspAssumption
<1>2. Init => VspInv
  BY <1>1, VspInit
<1>3. VspInv /\ [Next]_vspVars => VspInv'
  BY <1>1, VspStep
<1> QED BY <1>2, <1>3, PTL DEF Spec

\* The types, and that no buffer is ever filled beyond its capacity.
THEOREM VspTypes == Spec => []TypeOK
BY VspInductive, PTL DEF VspInv

\* Nobody waits for a reply that no held request owes: every path that drops a
\* held read or write (release, interrupt, timer, failure, destruction, and the
\* data that completes it) answers it.
THEOREM NobodyIsForgotten == Spec => []NobodyForgotten
BY VspInductive, PTL DEF VspInv

-----------------------------------------------------------------------------
(* Poll handles. *)

\* A step keeps NoLostPoll when it drops the poll handle, or when nothing became
\* readable or writable by it.
LEMMA PollStep ==
  ASSUME VspAssumption, VspInv, VspInv', NoLostPoll, [Next]_vspVars
  PROVE  NoLostPoll'
<1>1. ASSUME vs'.ph = NoPoll PROVE NoLostPoll'
  BY <1>1 DEF NoLostPoll
<1>2. ASSUME vs'.ph = vs.ph,
             vs'.out.data # <<>> => vs.out.data # <<>>,
             buf_size_avail(vs'.in) > 0 => buf_size_avail(vs.in) > 0
      PROVE  NoLostPoll'
  BY <1>2 DEF NoLostPoll
<1>3. NoSession.ph = NoPoll /\ \A r : NewSession(r).ph = NoPoll
  BY DEF NoSession, NewSession
<1>4. ASSUME NEW r \in BOOLEAN, dv_open(r) PROVE NoLostPoll'
  BY <1>1, <1>3, <1>4 DEF dv_open
<1>5. ASSUME NEW taken \in BOOLEAN,
             dv_release(taken) \/ ChannelFails(taken) \/ vsp_destroy(taken)
      PROVE  NoLostPoll'
  BY <1>1, <1>3, <1>5 DEF dv_release, ChannelFails, fail, vsp_destroy, SessionEnd
<1>6. vs \in Session
  BY DEF VspInv, TypeOK
<1>7. ASSUME NEW size \in 1..MaxRx, NEW nonblock \in BOOLEAN, dv_read(size, nonblock)
      PROVE  NoLostPoll'
  <2> DEFINE n == Least(size, Len(vs.out.data))
  <2>1. CASE vs' = [vs EXCEPT !.out = buf_consume(@, n)]
    <3>1. vs'.ph = vs.ph /\ vs'.in = vs.in /\ vs'.out = buf_consume(vs.out, n)
      BY <1>6, <2>1 DEF Session
    <3>2. Len(vs.out.data) \in Nat /\ n \in 0..Len(vs.out.data) /\ Within(vs.out, 0..MaxRx)
      <4>1. Len(vs.out.data) \in Nat /\ Within(vs.out, 0..MaxRx) /\ size \in Nat
        BY SMTT(30) DEF VspInv, Bytes, Within, VspAssumption
      <4>2. n \in Nat /\ n <= Len(vs.out.data)
        BY <4>1, LeastFacts
      <4> QED BY <4>1, <4>2
    <3>3. ASSUME vs.out.data = <<>> PROVE vs'.out.data = <<>>
      <4>1. Len(vs.out.data) = 0
        BY <3>3, EmptySeq
      <4>2. n = Len(vs.out.data)
        BY <3>2, <4>1
      <4>3. vs'.out = EmptyBuf
        BY <3>1, <3>2, <4>2, ConsumeFacts
      <4> QED BY <4>3 DEF EmptyBuf
    <3> QED BY <1>2, <3>1, <3>3
  <2>2. CASE HoldRead(size, Want(size, nonblock))
    <3>1. vs'.ph = vs.ph /\ vs'.in = vs.in /\ vs'.out = EmptyBuf
      BY <1>6, <2>2 DEF Session, HoldRead
    <3> QED BY <1>2, <3>1 DEF EmptyBuf
  <2> QED BY <1>7, <2>1, <2>2 DEF dv_read
<1>8. ASSUME NEW size \in 1..MaxTx, NEW nonblock \in BOOLEAN, dv_write(size, nonblock)
      PROVE  NoLostPoll'
  <2> DEFINE avail == buf_size_avail(vs.in)
             held == ~nonblock /\ size > avail
             n == IF held THEN size ELSE Least(size, avail)
             bytes == Run(ntx, n)
  <2>1. vs'.ph = vs.ph /\ vs'.out = vs.out /\ vs'.in = buf_append(vs.in, bytes)
    BY <1>6, <1>8 DEF Session, dv_write
  <2>2. avail \in Nat /\ bytes \in Seq(0..MaxTx) /\ Within(vs.in, 0..MaxTx)
    BY <1>8, WriteParts DEF VspInv, Bytes
  <2> HIDE DEF bytes
  <2> DEFINE k == Least(Len(bytes), avail)
  <2>3. k \in 0..Len(bytes) /\ buf_size_avail(vs'.in) = avail - k
    BY <2>1, <2>2, AppendFacts
  <2> HIDE DEF k, avail
  <2>4. buf_size_avail(vs'.in) > 0 => avail > 0
    BY <2>2, <2>3, LenProperties
  <2> QED BY <1>2, <2>1, <2>4 DEF avail
<1>9. CASE Interrupt \/ read_timer_cb \/ data_out_idle \/ vsp_create \/ UNCHANGED vspVars
  <2>1. vs'.ph = vs.ph /\ vs'.in = vs.in /\ vs'.out = vs.out
    BY <1>6, <1>9 DEF Session, Interrupt, read_timer_cb, Collected, data_out_idle,
      vsp_create, vspVars
  <2> QED BY <1>2, <2>1
<1>10. CASE dv_poll
  <2>1. vs'.ph = PollEvents /\ vs'.in = vs.in /\ vs'.out = vs.out
    BY <1>6, <1>10 DEF Session, dv_poll
  <2> QED BY <2>1 DEF NoLostPoll, PollEvents
<1>11. ASSUME NEW flush \in BOOLEAN, NEW time \in BOOLEAN, NEW min \in Vmins,
             SetTermios(flush, min, time)
      PROVE  NoLostPoll'
  <2>1. /\ vs'.ph = vs.ph /\ vs'.in = vs.in
        /\ vs'.out = IF flush THEN EmptyBuf ELSE vs.out
    BY <1>6, <1>11 DEF Session, SetTermios
  <2> QED BY <1>2, <2>1 DEF EmptyBuf
<1>12. ASSUME NEW bits \in SUBSET Lines, NEW taken \in BOOLEAN, set_bits(bits, taken)
      PROVE  NoLostPoll'
  <2>1. vs'.ph = vs.ph /\ vs'.in = vs.in /\ vs'.out = vs.out
    BY <1>6, <1>12 DEF Session, set_bits
  <2> QED BY <1>2, <2>1
<1>13. ASSUME NEW bufs \in (SUBSET {"in", "out"}) \ {{}}, Flush(bufs) PROVE NoLostPoll'
  <2> DEFINE in == IF "in" \in bufs THEN EmptyBuf ELSE vs.in
  <2>1. /\ vs'.in = in
        /\ vs'.out = IF "out" \in bufs THEN EmptyBuf ELSE vs.out
        /\ vs'.ph = IF buf_size_avail(vs.in) = 0 /\ buf_size_avail(in) > 0
                    THEN NoPoll ELSE vs.ph
    BY <1>6, <1>13 DEF Session, Flush
  <2> HIDE DEF in
  <2>2. buf_size_avail(vs.in) \in Nat
    BY AvailType DEF VspInv, Bytes
  <2>3. CASE vs'.ph = NoPoll
    BY <1>1, <2>3
  <2>4. CASE vs'.ph # NoPoll
    <3>1. vs'.ph = vs.ph /\ (buf_size_avail(in) > 0 => buf_size_avail(vs.in) > 0)
      BY <2>1, <2>2, <2>4
    <3>2. vs'.out.data # <<>> => vs.out.data # <<>>
      BY <2>1 DEF EmptyBuf
    <3> QED BY <1>2, <2>1, <3>1, <3>2
  <2> QED BY <2>3, <2>4
<1>14. ASSUME NEW size \in 1..MaxRx, data_in_cb(size) PROVE NoLostPoll'
  <2>1. vs'.ph = NoPoll
    BY <1>14, DataInShape DEF Made
  <2> QED BY <1>1, <2>1
<1>15. ASSUME NEW size \in 1..Cap, data_out_cb(size) PROVE NoLostPoll'
  <2> DEFINE b == buf_consume(vs.in, size)
             in == Refill(b)
  <2>1. /\ vs'.in = in /\ vs'.out = vs.out
        /\ vs'.ph = IF buf_size_avail(in) > 0 THEN NoPoll ELSE vs.ph
    BY <1>6, <1>15 DEF Session, data_out_cb
  <2> HIDE DEF in
  <2>2. CASE buf_size_avail(in) > 0
    BY <1>1, <2>1, <2>2
  <2>3. CASE ~(buf_size_avail(in) > 0)
    BY <1>2, <2>1, <2>3
  <2> QED BY <2>2, <2>3
<1> QED BY <1>4, <1>5, <1>7, <1>8, <1>9, <1>10, <1>11, <1>12, <1>13, <1>14, <1>15 DEF Next

\* A client that polled and was told "not readable" or "not writable" is woken up
\* when that changes, whichever callback or request changes it.
THEOREM NoPollIsLost == Spec => []NoLostPoll
<1>1. Init => NoLostPoll
  BY DEF Init, NoLostPoll, NoSession, NewSession
<1>2. VspInv /\ VspInv' /\ NoLostPoll /\ [Next]_vspVars => NoLostPoll'
  BY VspAssumption, PollStep
<1> QED BY <1>1, <1>2, VspInductive, PTL DEF Spec

-----------------------------------------------------------------------------
(* PTT. *)

\* PTT bytes among the data say the same whatever was before them, or nothing.
LEMMA PttAfterCases ==
  ASSUME NEW bytes
  PROVE  \/ \A old : PttAfter(bytes, old) = old
         \/ \A old, other : PttAfter(bytes, old) = PttAfter(bytes, other)
BY DEF PttAfter

LEMMA PttStep ==
  ASSUME VspAssumption, VspInv, PttReleased, [Next]_vspVars
  PROVE  PttReleased'
<1>1. /\ vs \in Session /\ keyed \in BOOLEAN /\ offLost \in BOOLEAN
      /\ vs.ptt \in BOOLEAN /\ vs.open \in BOOLEAN
  BY OtherTypes DEF VspInv, TypeOK, Session
<1>2. ASSUME UNCHANGED <<keyed, offLost>>, vs'.open = vs.open, vs'.ptt = vs.ptt
      PROVE  PttReleased'
  BY <1>2 DEF PttReleased
<1>3. ~NoSession.open /\ ~NoSession.ptt /\ \A r : ~NewSession(r).ptt
  BY DEF NoSession, NewSession
<1>4. ~vs.open => vs = NoSession
  BY DEF VspInv, Closed
<1>5. ASSUME NEW r \in BOOLEAN, dv_open(r) PROVE PttReleased'
  BY <1>3, <1>5 DEF dv_open, PttReleased
<1>6. ASSUME NEW taken \in BOOLEAN,
             dv_release(taken) \/ ChannelFails(taken) \/ vsp_destroy(taken)
      PROVE  PttReleased'
  <2>1. SessionEnd(taken)
    BY <1>6 DEF dv_release, ChannelFails, fail, vsp_destroy
  <2>2. ~vs'.open
    BY <1>3, <2>1 DEF SessionEnd
  <2>3. CASE vs.ptt
    BY <2>1, <2>2, <2>3 DEF SessionEnd, PttReleased
  <2>4. CASE ~vs.ptt
    BY <2>1, <2>2, <2>4 DEF SessionEnd, PttReleased
  <2> QED BY <2>3, <2>4
<1>7. ASSUME NEW size \in 1..MaxRx, NEW nonblock \in BOOLEAN, dv_read(size, nonblock)
      PROVE  PttReleased'
  <2>1. vs'.open = vs.open /\ vs'.ptt = vs.ptt /\ UNCHANGED <<keyed, offLost>>
    BY <1>1, <1>7 DEF Session, dv_read, HoldRead
  <2> QED BY <1>2, <2>1
<1>8. ASSUME NEW size \in 1..MaxTx, NEW nonblock \in BOOLEAN, dv_write(size, nonblock)
      PROVE  PttReleased'
  <2>1. vs'.open = vs.open /\ vs'.ptt = vs.ptt /\ UNCHANGED <<keyed, offLost>>
    BY <1>1, <1>8 DEF Session, dv_write
  <2> QED BY <1>2, <2>1
<1>9. CASE Interrupt \/ read_timer_cb \/ data_out_idle \/ dv_poll \/ UNCHANGED vspVars
  <2>1. vs'.open = vs.open /\ vs'.ptt = vs.ptt /\ UNCHANGED <<keyed, offLost>>
    BY <1>1, <1>9 DEF Session, Interrupt, read_timer_cb, Collected, data_out_idle,
      dv_poll, vspVars
  <2> QED BY <1>2, <2>1
<1>10. CASE vsp_create
  <2>1. vs' = vs /\ ~vs.open /\ keyed' = FALSE
    BY <1>10 DEF vsp_create, VspInv, Closed
  <2> QED BY <2>1 DEF PttReleased
<1>11. ASSUME NEW flush \in BOOLEAN, NEW time \in BOOLEAN, NEW min \in Vmins,
             SetTermios(flush, min, time)
      PROVE  PttReleased'
  <2>1. vs'.open = vs.open /\ vs'.ptt = vs.ptt /\ UNCHANGED <<keyed, offLost>>
    BY <1>1, <1>11 DEF Session, SetTermios
  <2> QED BY <1>2, <2>1
<1>12. ASSUME NEW bits \in SUBSET Lines, NEW taken \in BOOLEAN, set_bits(bits, taken)
      PROVE  PttReleased'
  <2>1. CASE PttLines # {} /\ taken
    <3> DEFINE on == bits \cap PttLines # {}
    <3>1. on \in BOOLEAN /\ keyed' = on /\ vs' = [vs EXCEPT !.ptt = on] /\ vs.open
      BY <1>12, <2>1 DEF set_bits, PttWrite
    <3> HIDE DEF on
    <3>2. vs'.ptt = on /\ vs'.open = vs.open
      BY <1>1, <3>1 DEF Session
    <3> QED BY <3>1, <3>2 DEF PttReleased
  <2>2. CASE ~(PttLines # {} /\ taken)
    <3>1. vs'.open = vs.open /\ vs'.ptt = vs.ptt /\ UNCHANGED <<keyed, offLost>>
      BY <1>1, <1>12, <2>2 DEF Session, set_bits, PttWrite
    <3> QED BY <1>2, <3>1
  <2> QED BY <2>1, <2>2
<1>13. ASSUME NEW bufs \in (SUBSET {"in", "out"}) \ {{}}, Flush(bufs) PROVE PttReleased'
  <2>1. vs'.open = vs.open /\ vs'.ptt = vs.ptt /\ UNCHANGED <<keyed, offLost>>
    BY <1>1, <1>13 DEF Session, Flush
  <2> QED BY <1>2, <2>1
<1>14. ASSUME NEW size \in 1..MaxRx, data_in_cb(size) PROVE PttReleased'
  <2>1. vs'.open = vs.open /\ vs'.ptt = vs.ptt /\ UNCHANGED <<keyed, offLost>>
    <3>1. vs.open /\ vs'.open = TRUE /\ vs'.ptt = vs.ptt
      BY <1>14, DataInShape DEF Made
    <3>2. UNCHANGED <<keyed, offLost>>
      BY <1>14 DEF data_in_cb
    <3> QED BY <1>1, <3>1, <3>2
  <2> QED BY <1>2, <2>1
<1>15. ASSUME NEW size \in 1..Cap, data_out_cb(size) PROVE PttReleased'
  <2> DEFINE sent == FirstN(vs.in.data, size)
  <2>1. vs.open /\ vs'.open = vs.open /\ vs'.ptt = PttAfter(sent, vs.ptt)
    BY <1>1, <1>15, DataOutParts DEF Session, data_out_cb
  <2>2. /\ keyed' = PttAfter(sent, keyed)
        /\ offLost' = (offLost /\ PttAfter(sent, TRUE) # PttAfter(sent, FALSE))
    BY <1>15 DEF data_out_cb
  <2> HIDE DEF sent
  <2>3. CASE \A old : PttAfter(sent, old) = old
    <3>1. keyed' = keyed /\ vs'.ptt = vs.ptt
      BY <2>1, <2>2, <2>3
    <3>2. PttAfter(sent, TRUE) = TRUE /\ PttAfter(sent, FALSE) = FALSE
      BY <2>3
    <3>3. PttAfter(sent, TRUE) # PttAfter(sent, FALSE)
      BY <3>2
    <3>4. offLost' = offLost
      BY <1>1, <2>2, <3>3
    <3> QED BY <1>2, <2>1, <3>1, <3>4
  <2>4. CASE \A old, other : PttAfter(sent, old) = PttAfter(sent, other)
    <3>1. keyed' = vs'.ptt /\ vs'.open
      BY <2>1, <2>2, <2>4
    <3>2. vs'.ptt \in BOOLEAN
      BY <1>1, <2>1, PttAfterType
    <3> QED BY <3>1, <3>2 DEF PttReleased
  <2> QED BY <2>3, <2>4, PttAfterCases
<1> QED BY <1>5, <1>6, <1>7, <1>8, <1>9, <1>10, <1>11, <1>12, <1>13, <1>14, <1>15 DEF Next

\* The router's last PTT byte is what the session keyed, by its lines or by the
\* bytes it wrote; whichever way a session ends, PTT is off after it unless the
\* router refused the byte.
THEOREM PttIsReleased == Spec => []PttReleased
<1>1. Init => PttReleased
  BY DEF Init, PttReleased, NoSession, NewSession
<1>2. VspInv /\ PttReleased /\ [Next]_vspVars => PttReleased'
  BY VspAssumption, PttStep
<1> QED BY <1>1, <1>2, VspInductive, PTL DEF Spec

-----------------------------------------------------------------------------
(* The port implements SerialPort. *)

\* The queues of the abstract port.
RxQueue == vs.rd.data \o vs.out.data
TxQueue == vs.in.data \o vs.wr.rest

LEMMA QueueTypes ==
  ASSUME VspInv
  PROVE  /\ vs.rd.data \in Seq(0..MaxRx) /\ vs.out.data \in Seq(0..MaxRx)
         /\ vs.in.data \in Seq(0..MaxTx) /\ vs.wr.rest \in Seq(0..MaxTx)
         /\ RxQueue \in Seq(0..MaxRx) /\ TxQueue \in Seq(0..MaxTx)
         /\ Reading => RxQueue = vs.rd.data /\ vs.out.data = <<>>
         /\ ~Reading => RxQueue = vs.out.data /\ vs.rd.data = <<>>
<1>1. /\ vs.rd.data \in Seq(0..MaxRx) /\ vs.out.data \in Seq(0..MaxRx)
      /\ vs.in.data \in Seq(0..MaxTx) /\ vs.wr.rest \in Seq(0..MaxTx)
  BY DEF VspInv, Bytes, Within
<1>2. RxQueue \in Seq(0..MaxRx) /\ TxQueue \in Seq(0..MaxTx)
  BY <1>1, ConcatProperties DEF RxQueue, TxQueue
<1>3. Reading => vs.out.data = <<>>
  BY DEF VspInv, Collecting, EmptyBuf
<1>4. ~Reading => vs.rd.data = <<>>
  BY DEF VspInv, Collecting, NoRead
<1> QED BY <1>1, <1>2, <1>3, <1>4, ConcatEmptySeq DEF RxQueue

\* When the front of a queue has been delivered, the back is what is left.
LEMMA DeliverFront ==
  ASSUME NEW S, NEW front \in Seq(S), NEW back \in Seq(S), NEW before
  PROVE  LET queue == front \o back
             k == Len(front)
         IN
         /\ k \in 0..Len(queue)
         /\ back = SubSeq(queue, k + 1, Len(queue))
         /\ LastOf(front, before) = IF k = 0 THEN before ELSE queue[k]
<1> DEFINE queue == front \o back
           k == Len(front)
<1>1. /\ k \in Nat /\ Len(back) \in Nat /\ queue \in Seq(S) /\ Len(queue) = k + Len(back)
      /\ \A i \in 1..(k + Len(back)) : queue[i] = IF i <= k THEN front[i] ELSE back[i - k]
  BY ConcatProperties, LenProperties
<1>2. AfterN(queue, k) = back
  <2>1. k \in 0..Len(front)
    BY <1>1
  <2>2. AfterN(queue, k) = AfterN(front, k) \o back
    BY <2>1, AfterConcat
  <2>3. AfterN(front, k) \in Seq(S) /\ Len(AfterN(front, k)) = 0
    BY <1>1, <2>1, AfterNFacts
  <2>4. AfterN(front, k) = <<>>
    BY <2>3, EmptySeq
  <2> QED BY <2>2, <2>4, ConcatEmptySeq
<1>3. CASE front = <<>>
  <2>1. k = 0
    BY <1>3, EmptySeq
  <2> QED BY <1>1, <1>2, <1>3, <2>1 DEF AfterN, LastOf
<1>4. CASE front # <<>>
  <2>1. k \in Nat \ {0}
    BY <1>4, EmptySeq
  <2>2. queue[k] = front[k]
    BY <1>1, <2>1
  <2> QED BY <1>1, <1>2, <1>4, <2>1, <2>2 DEF AfterN, LastOf
<1> QED BY <1>3, <1>4

\* A step that delivers the front of what waits and arrives is a Receive ...
LEMMA ReceiveStep ==
  ASSUME vs.open, vs'.open = vs.open, nrx \in Nat, nrx' \in Nat,
         NEW n \in Nat, n <= nrx' - nrx, RxQueue \in Seq(0..MaxRx),
         Run(nrx, n) \in Seq(0..MaxRx), Len(Run(nrx, n)) = n,
         NEW front \in Seq(0..MaxRx), RxQueue' \in Seq(0..MaxRx),
         RxQueue \o Run(nrx, n) = front \o RxQueue', got' = LastOf(front, got),
         UNCHANGED <<TxQueue, heard, ntx>>
  PROVE  Port!Receive
<1> DEFINE queue == RxQueue \o Run(nrx, n)
           k == Len(front)
<1>1. /\ k \in 0..Len(queue)
      /\ RxQueue' = SubSeq(queue, k + 1, Len(queue))
      /\ got' = IF k = 0 THEN got ELSE queue[k]
  BY DeliverFront
<1>2. /\ Len(queue) = Len(RxQueue) + Len(Run(nrx, n)) /\ Len(RxQueue) \in Nat
      /\ n \in 0..(nrx' - nrx) /\ nrx' >= nrx
  <2>1. Len(queue) = Len(RxQueue) + Len(Run(nrx, n)) /\ Len(RxQueue) \in Nat
    BY ConcatProperties, LenProperties
  <2>2. n \in 0..(nrx' - nrx) /\ nrx' >= nrx
    <3>1. \A i, from, to \in Nat : i <= to - from => i \in 0..(to - from) /\ to >= from
      OBVIOUS
    <3> QED BY <3>1
  <2> QED BY <2>1, <2>2
<1>3. queue = (vs.rd.data \o vs.out.data) \o Port!Run(nrx, n)
  BY DEF RxQueue, Run, Port!Run
<1> HIDE DEF queue, k
<1>4. Port!Deliver(queue, k, RxQueue', got', got)
  BY <1>1 DEF Port!Deliver
<1>5. k \in 0..(Len(RxQueue) + n)
  BY <1>1, <1>2
<1> QED BY <1>2, <1>3, <1>4, <1>5 DEF Port!Receive, RxQueue, TxQueue

\* ... and likewise a Transmit.
LEMMA TransmitStep ==
  ASSUME vs.open, vs'.open = vs.open, ntx \in Nat, ntx' \in Nat, ntx' >= ntx,
         TxQueue \in Seq(0..MaxTx), Run(ntx, ntx' - ntx) \in Seq(0..MaxTx),
         NEW front \in Seq(0..MaxTx), TxQueue' \in Seq(0..MaxTx),
         TxQueue \o Run(ntx, ntx' - ntx) = front \o TxQueue', heard' = LastOf(front, heard),
         UNCHANGED <<RxQueue, got, nrx>>
  PROVE  Port!Transmit
<1> DEFINE queue == TxQueue \o Run(ntx, ntx' - ntx)
           k == Len(front)
<1>1. /\ k \in 0..Len(queue)
      /\ TxQueue' = SubSeq(queue, k + 1, Len(queue))
      /\ heard' = IF k = 0 THEN heard ELSE queue[k]
  <2>1. queue = front \o TxQueue'
    OBVIOUS
  <2> HIDE DEF queue
  <2> QED BY <2>1, DeliverFront
<1>2. queue = (vs.in.data \o vs.wr.rest) \o Port!Run(ntx, ntx' - ntx)
  BY DEF TxQueue, Run, Port!Run
<1> HIDE DEF queue, k
<1>3. Port!Deliver(queue, k, TxQueue', heard', heard)
  BY <1>1 DEF Port!Deliver
<1> QED BY <1>1, <1>2, <1>3 DEF Port!Transmit, RxQueue, TxQueue

LEMMA PrefixOfConcat ==
  ASSUME NEW S, NEW s \in Seq(S), NEW t \in Seq(S)
  PROVE  IsPrefix(s, s \o t)
<1> DEFINE u == s \o t
<1>1. /\ Len(s) \in Nat /\ Len(t) \in Nat /\ u \in Seq(S) /\ Len(u) = Len(s) + Len(t)
      /\ \A i \in 1..(Len(s) + Len(t)) : u[i] = IF i <= Len(s) THEN s[i] ELSE t[i - Len(s)]
  BY ConcatProperties, LenProperties
<1> HIDE DEF u
<1>2. Len(s) \in 0..Len(s) /\ Len(s) \in 0..Len(u)
  BY <1>1
<1>3. /\ FirstN(s, Len(s)) \in Seq(S) /\ Len(FirstN(s, Len(s))) = Len(s)
      /\ \A i \in 1..Len(s) : FirstN(s, Len(s))[i] = s[i]
  BY <1>2, FirstNFacts
<1>4. /\ FirstN(u, Len(s)) \in Seq(S) /\ Len(FirstN(u, Len(s))) = Len(s)
      /\ \A i \in 1..Len(s) : FirstN(u, Len(s))[i] = u[i]
  BY <1>1, <1>2, FirstNFacts
<1>5. \A i \in 1..Len(s) : u[i] = s[i]
  BY <1>1
<1>6. FirstN(s, Len(s)) = FirstN(u, Len(s))
  BY <1>3, <1>4, <1>5, SeqEqual
<1>7. Len(s) <= Len(u)
  BY <1>1
<1> QED BY <1>6, <1>7 DEF IsPrefix, FirstN, u

LEMMA ReverseFacts ==
  ASSUME NEW S, NEW s \in Seq(S)
  PROVE  /\ Reverse(s) \in Seq(S) /\ Len(Reverse(s)) = Len(s)
         /\ \A i \in 1..Len(s) : Reverse(s)[i] = s[(Len(s) - i) + 1]
<1>1. Len(s) \in Nat /\ \A i \in 1..Len(s) : s[(Len(s) - i) + 1] \in S
  BY ElementOfSeq, LenProperties
<1> QED BY <1>1 DEF Reverse

LEMMA SuffixOfConcat ==
  ASSUME NEW S, NEW s \in Seq(S), NEW t \in Seq(S)
  PROVE  IsSuffix(t, s \o t)
<1> DEFINE u == s \o t
           m == Len(s)
           l == Len(t)
           r == Reverse(t)
           w == Reverse(u)
<1>1. /\ m \in Nat /\ l \in Nat /\ u \in Seq(S) /\ Len(u) = m + l
      /\ \A i \in 1..(m + l) : u[i] = IF i <= m THEN s[i] ELSE t[i - m]
  BY ConcatProperties, LenProperties
<1> HIDE DEF u
<1>2. r \in Seq(S) /\ Len(r) = l /\ \A i \in 1..l : r[i] = t[(l - i) + 1]
  BY ReverseFacts
<1>3. /\ w \in Seq(S) /\ Len(w) = m + l
      /\ \A i \in 1..(m + l) : w[i] = u[((m + l) - i) + 1]
  <2>1. /\ w \in Seq(S) /\ Len(w) = Len(u)
        /\ \A i \in 1..Len(u) : w[i] = u[(Len(u) - i) + 1]
    BY <1>1, ReverseFacts
  <2> QED BY <1>1, <2>1
<1> HIDE DEF m, l, r, w
<1>4. ASSUME NEW i \in 1..l PROVE w[i] = r[i]
  <2>1. /\ i \in 1..(m + l) /\ ((m + l) - i) + 1 \in 1..(m + l)
        /\ ~(((m + l) - i) + 1 <= m) /\ (((m + l) - i) + 1) - m = (l - i) + 1
    BY <1>1
  <2>2. w[i] = u[((m + l) - i) + 1]
    BY <1>3, <2>1
  <2>3. u[((m + l) - i) + 1] = t[(((m + l) - i) + 1) - m]
    BY <1>1, <2>1
  <2> QED BY <1>2, <2>1, <2>2, <2>3
<1>5. l \in 0..Len(r) /\ l \in 0..Len(w) /\ Len(r) <= Len(w)
  BY <1>1, <1>2, <1>3
<1>6. /\ FirstN(r, l) \in Seq(S) /\ Len(FirstN(r, l)) = l
      /\ \A i \in 1..l : FirstN(r, l)[i] = r[i]
  BY <1>2, <1>5, FirstNFacts
<1>7. /\ FirstN(w, l) \in Seq(S) /\ Len(FirstN(w, l)) = l
      /\ \A i \in 1..l : FirstN(w, l)[i] = w[i]
  BY <1>3, <1>5, FirstNFacts
<1>8. FirstN(r, l) = FirstN(w, l)
  BY <1>4, <1>6, <1>7, SeqEqual
<1>9. IsPrefix(r, w)
  BY <1>2, <1>5, <1>8 DEF IsPrefix, FirstN
<1> QED BY <1>9 DEF IsSuffix, r, w, u

\* Requests that move no bytes over the port's ends.
LEMMA DiscardStep ==
  ASSUME vs.open, vs'.open = vs.open, UNCHANGED <<got, heard, nrx, ntx>>,
         RxQueue' = RxQueue \/ RxQueue' = <<>>, IsSuffix(TxQueue', TxQueue)
  PROVE  Port!Discard
BY DEF Port!Discard, RxQueue, TxQueue, IsSuffix, Port!IsSuffix, IsPrefix, Port!IsPrefix,
  Reverse, Port!Reverse

LEMMA InterruptedStep ==
  ASSUME vs.open, vs'.open = vs.open, UNCHANGED <<got, heard, nrx, ntx>>,
         RxQueue' = RxQueue \/ RxQueue' = <<>>, IsPrefix(TxQueue', TxQueue)
  PROVE  Port!Interrupted
BY DEF Port!Interrupted, RxQueue, TxQueue, IsPrefix, Port!IsPrefix

\* Port's variables, unchanged.
LEMMA PortStutter ==
  ASSUME vs'.open = vs.open, UNCHANGED <<RxQueue, TxQueue, got, heard, nrx, ntx>>
  PROVE  UNCHANGED Port!portVars
BY DEF Port!portVars, RxQueue, TxQueue

LEMMA EmptyRun ==
  ASSUME NEW from \in Nat, NEW max \in Nat, from <= max
  PROVE  /\ Run(from, 0) = <<>> /\ Run(from, 0) \in Seq(0..max) /\ Len(Run(from, 0)) = 0
         /\ Run(from, from - from) = <<>>
<1>1. Run(from, 0) \in Seq(0..max) /\ Len(Run(from, 0)) = 0
  BY RunFacts, 0 \in Nat, from + 0 <= max
<1>2. Run(from, 0) = <<>>
  BY <1>1, EmptySeq
<1> QED BY <1>1, <1>2, from - from = 0

\* Delivering the front of what waits, with nothing arriving.
LEMMA ReadStep ==
  ASSUME VspAssumption, VspInv, VspInv', vs.open, vs'.open = vs.open,
         NEW front \in Seq(0..MaxRx), RxQueue = front \o RxQueue',
         got' = LastOf(front, got), UNCHANGED <<TxQueue, heard, nrx, ntx>>
  PROVE  Port!Receive
<1>1. nrx \in Nat /\ nrx' \in Nat /\ MaxRx \in Nat /\ nrx <= MaxRx /\ 0 <= nrx' - nrx
  BY OtherTypes DEF VspAssumption
<1>2. Run(nrx, 0) = <<>> /\ Run(nrx, 0) \in Seq(0..MaxRx) /\ Len(Run(nrx, 0)) = 0
  BY <1>1, EmptyRun
<1>3. RxQueue \in Seq(0..MaxRx)
  BY QueueTypes
<1>4. RxQueue' \in Seq(0..MaxRx)
  <2>1. vs'.rd.data \in Seq(0..MaxRx) /\ vs'.out.data \in Seq(0..MaxRx)
    BY DEF VspInv, Bytes, Within
  <2> QED BY <2>1, ConcatProperties DEF RxQueue
<1>5. RxQueue \o Run(nrx, 0) = front \o RxQueue'
  BY <1>2, <1>3, ConcatEmptySeq
<1> QED BY <1>1, <1>2, <1>3, <1>4, <1>5, ReceiveStep, 0 \in Nat

LEMMA ReadPort ==
  ASSUME VspAssumption, VspInv, VspInv', NEW size \in 1..MaxRx, NEW nonblock \in BOOLEAN,
         dv_read(size, nonblock)
  PROVE  Port!Receive \/ UNCHANGED Port!portVars
<1> DEFINE n == Least(size, Len(vs.out.data))
<1>1. vs \in Session /\ vs.open /\ ~Reading /\ UNCHANGED <<heard, nrx, ntx>>
  BY DEF dv_read, VspInv, TypeOK
<1>2. /\ vs.out.data \in Seq(0..MaxRx) /\ Len(vs.out.data) \in Nat
      /\ RxQueue = vs.out.data /\ vs.rd.data = <<>>
  BY <1>1, QueueTypes, LenProperties
<1>3. CASE /\ vs' = [vs EXCEPT !.out = buf_consume(@, n)]
           /\ got' = LastOf(FirstN(vs.out.data, n), got)
  <2>1. n \in 0..Len(vs.out.data)
    <3>1. size \in Nat
      BY DEF VspAssumption
    <3>2. n \in Nat /\ n <= Len(vs.out.data)
      BY <1>2, <3>1, LeastFacts
    <3> QED BY <1>2, <3>2
  <2>2. vs'.open = vs.open /\ vs'.rd = vs.rd /\ vs'.in = vs.in /\ vs'.wr = vs.wr
        /\ vs'.out = buf_consume(vs.out, n)
    BY <1>1, <1>3 DEF Session
  <2> HIDE DEF n
  <2>3. vs'.out.data = AfterN(vs.out.data, n)
    BY <2>1, <2>2, ConsumeFacts DEF VspInv, Bytes
  <2>4. AfterN(vs.out.data, n) \in Seq(0..MaxRx)
    BY <1>2, <2>1, AfterNFacts
  <2>5. RxQueue' = AfterN(vs.out.data, n)
    BY <1>2, <2>2, <2>3, <2>4, ConcatEmptySeq DEF RxQueue
  <2>6. RxQueue = FirstN(vs.out.data, n) \o RxQueue'
    BY <1>2, <2>1, <2>5, SplitJoin
  <2>7. FirstN(vs.out.data, n) \in Seq(0..MaxRx)
    BY <1>2, <2>1, FirstNFacts
  <2>8. UNCHANGED <<TxQueue, heard, nrx, ntx>>
    BY <1>1, <2>2 DEF TxQueue
  <2> QED BY <1>1, <1>3, <2>2, <2>6, <2>7, <2>8, ReadStep
<1>4. CASE HoldRead(size, Want(size, nonblock))
  <2>1. vs'.open = vs.open /\ vs'.rd.data = vs.out.data /\ vs'.in = vs.in
        /\ vs'.wr = vs.wr /\ vs'.out = EmptyBuf /\ UNCHANGED got
    BY <1>1, <1>4 DEF Session, HoldRead
  <2>2. RxQueue' = RxQueue
    BY <1>2, <2>1, ConcatEmptySeq DEF RxQueue, EmptyBuf
  <2>3. TxQueue' = TxQueue
    BY <2>1 DEF TxQueue
  <2> QED BY <1>1, <2>1, <2>2, <2>3, PortStutter
<1> QED BY <1>3, <1>4 DEF dv_read

LEMMA TimerPort ==
  ASSUME VspAssumption, VspInv, VspInv', read_timer_cb
  PROVE  Port!Receive \/ UNCHANGED Port!portVars
<1>1. vs \in Session /\ vs.open /\ UNCHANGED <<heard, nrx, ntx>>
  BY DEF read_timer_cb, VspInv, TypeOK
<1>2. CASE Reading
  <2>1. vs'.open = vs.open /\ vs'.rd = NoRead /\ vs'.in = vs.in
        /\ vs'.wr = vs.wr /\ vs'.out = vs.out /\ got' = LastOf(vs.rd.data, got)
    BY <1>1, <1>2 DEF Session, read_timer_cb, Collected
  <2>2. /\ vs.rd.data \in Seq(0..MaxRx) /\ RxQueue = vs.rd.data /\ vs.out.data = <<>>
    BY <1>2, QueueTypes
  <2>3. RxQueue' = <<>>
    BY <2>1, <2>2, ConcatEmptySeq, EmptySeq DEF RxQueue, NoRead
  <2>4. RxQueue = vs.rd.data \o RxQueue'
    BY <2>2, <2>3, ConcatEmptySeq
  <2>5. UNCHANGED <<TxQueue, heard, nrx, ntx>>
    BY <1>1, <2>1 DEF TxQueue
  <2> QED BY <1>1, <2>1, <2>2, <2>4, <2>5, ReadStep
<1>3. CASE ~Reading
  <2>1. vs'.open = vs.open /\ vs'.rd = vs.rd /\ vs'.in = vs.in
        /\ vs'.wr = vs.wr /\ vs'.out = vs.out /\ got' = got
    BY <1>1, <1>3 DEF Session, read_timer_cb
  <2>2. RxQueue' = RxQueue /\ TxQueue' = TxQueue
    BY <2>1 DEF RxQueue, TxQueue
  <2> QED BY <1>1, <2>1, <2>2, PortStutter
<1> QED BY <1>2, <1>3

LEMMA DataInPort ==
  ASSUME VspAssumption, VspInv, VspInv', NEW size \in 1..MaxRx, data_in_cb(size)
  PROVE  Port!Receive
<1> DEFINE run == Run(nrx, size)
           b == buf_append(vs.out, run)
           n == Least(Len(run), buf_size_avail(vs.out))
           quanta == Least(Len(b.data), vs.rd.size - Len(vs.rd.data))
           data == vs.rd.data \o FirstN(b.data, quanta)
           done == Len(data) >= vs.rd.want \/ Len(data) = vs.rd.size
<1>1. /\ vs.open /\ nrx \in Nat /\ size \in Nat /\ nrx + size <= MaxRx
      /\ run \in Seq(0..MaxRx) /\ Len(run) = size
      /\ Within(b, 0..MaxRx)
      /\ Reading => /\ quanta \in 0..Len(b.data)
                    /\ FirstN(b.data, quanta) \in Seq(0..MaxRx)
                    /\ data \in Seq(0..MaxRx)
                    /\ Within(buf_consume(b, quanta), 0..MaxRx)
                    /\ ~done => buf_consume(b, quanta) = EmptyBuf
  BY DataInParts
<1>2. /\ nrx' = nrx + size /\ UNCHANGED <<heard, ntx>>
      /\ IF ~Reading
         THEN vs' = [vs EXCEPT !.out = b, !.ph = NoPoll] /\ UNCHANGED got
         ELSE IF done
         THEN /\ vs' = [Collected(vs) EXCEPT !.out = buf_consume(b, quanta), !.ph = NoPoll]
              /\ got' = LastOf(data, got)
         ELSE /\ vs' = [vs EXCEPT !.out = buf_consume(b, quanta), !.rd.data = data,
                                  !.timer = IF quanta > 0 /\ vtime THEN TRUE ELSE @,
                                  !.ph = NoPoll]
              /\ UNCHANGED got
  BY DEF data_in_cb
<1>3. /\ n \in 0..Len(run) /\ b.data = vs.out.data \o FirstN(run, n)
  BY <1>1, AppendFacts DEF VspInv, Bytes
<1> HIDE DEF b, run, n
<1>4. n \in 0..size /\ FirstN(run, n) = Run(nrx, n)
  BY <1>1, <1>3, FirstOfRun DEF run
<1>5. /\ MaxRx \in Nat /\ n \in Nat /\ nrx' \in Nat /\ n <= nrx' - nrx
      /\ nrx + n <= MaxRx
  BY <1>1, <1>2, <1>4 DEF VspAssumption
<1>6. Run(nrx, n) \in Seq(0..MaxRx) /\ Len(Run(nrx, n)) = n
  BY <1>1, <1>5, RunFacts
<1>7. /\ vs.rd.data \in Seq(0..MaxRx) /\ vs.out.data \in Seq(0..MaxRx)
      /\ RxQueue \in Seq(0..MaxRx) /\ b.data \in Seq(0..MaxRx)
  BY <1>1, QueueTypes DEF Within
<1>8. RxQueue \o Run(nrx, n) = vs.rd.data \o b.data
  <2>1. (vs.rd.data \o vs.out.data) \o Run(nrx, n)
          = vs.rd.data \o (vs.out.data \o Run(nrx, n))
    <3> DEFINE x == vs.rd.data
               y == vs.out.data
               z == Run(nrx, n)
    <3>1. x \in Seq(0..MaxRx) /\ y \in Seq(0..MaxRx) /\ z \in Seq(0..MaxRx)
      BY <1>6, <1>7
    <3> HIDE DEF x, y, z
    <3>2. (x \o y) \o z = x \o (y \o z)
      BY <3>1, ConcatAssociative, SMTT(60)
    <3> QED BY <3>2 DEF x, y, z
  <2> QED BY <1>3, <1>4, <2>1 DEF RxQueue
<1>9. vs'.open = vs.open /\ UNCHANGED TxQueue
  <2>1. vs'.open = TRUE /\ vs'.in = vs.in /\ vs'.wr = vs.wr
    BY DataInShape DEF Made
  <2>2. vs.open \in BOOLEAN
    BY DEF VspInv, TypeOK, Session
  <2> QED BY <1>1, <2>1, <2>2 DEF TxQueue
<1> HIDE DEF quanta, data, done
<1>10. vs \in Session
  BY DEF VspInv, TypeOK
<1>11. \E front \in Seq(0..MaxRx) :
         /\ RxQueue' \in Seq(0..MaxRx) /\ got' = LastOf(front, got)
         /\ vs.rd.data \o b.data = front \o RxQueue'
  <2>1. CASE ~Reading
    <3>1. vs'.rd = vs.rd /\ vs'.out = b /\ got' = got
      BY <1>2, <1>10, <2>1 DEF Session
    <3>2. RxQueue' = vs.rd.data \o b.data
      BY <3>1 DEF RxQueue
    <3>3. RxQueue' \in Seq(0..MaxRx)
      BY <1>7, <3>2, ConcatProperties
    <3>4. got' = LastOf(<<>>, got)
      BY <3>1 DEF LastOf
    <3>5. <<>> \in Seq(0..MaxRx) /\ <<>> \o RxQueue' = RxQueue'
      BY <3>3, EmptySeq, ConcatEmptySeq
    <3> QED BY <3>2, <3>3, <3>4, <3>5
  <2>2. CASE Reading
    <3>1. buf_consume(b, quanta).data = AfterN(b.data, quanta)
      BY <1>1, <2>2, ConsumeFacts
    <3>2. AfterN(b.data, quanta) \in Seq(0..MaxRx)
      BY <1>1, <1>7, <2>2, AfterNFacts
    <3>3. vs.rd.data \o b.data = data \o AfterN(b.data, quanta)
      <4>1. vs.rd.data \o b.data = (vs.rd.data \o FirstN(b.data, quanta)) \o AfterN(b.data, quanta)
        BY <1>1, <1>7, <2>2, MoveOver, ZenonT(60)
      <4> QED BY <4>1 DEF data
    <3>4. CASE done
      <4>1. vs'.rd = NoRead /\ vs'.out = buf_consume(b, quanta) /\ got' = LastOf(data, got)
        BY <1>2, <1>10, <2>2, <3>4 DEF Session, Collected
      <4>2. RxQueue' = AfterN(b.data, quanta)
        BY <3>1, <3>2, <4>1, ConcatEmptySeq DEF RxQueue, NoRead
      <4> QED BY <1>1, <2>2, <3>2, <3>3, <4>1, <4>2
    <3>5. CASE ~done
      <4>1. vs'.rd.data = data /\ vs'.out = buf_consume(b, quanta) /\ got' = got
        <5>1. vs.rd \in HeldRead
          BY <1>1, SessionParts
        <5>2. \E x : vs' = [vs EXCEPT !.out = buf_consume(b, quanta), !.rd.data = data,
                                     !.timer = x, !.ph = NoPoll]
          BY <1>2, <2>2, <3>5
        <5>3. [vs.rd EXCEPT !.data = data].data = data
          BY <5>1 DEF HeldRead
        <5>4. vs'.rd = [vs.rd EXCEPT !.data = data] /\ vs'.out = buf_consume(b, quanta)
          BY <1>10, <5>2 DEF Session
        <5> QED BY <1>2, <2>2, <3>5, <5>3, <5>4
      <4>2. RxQueue' = data \o AfterN(b.data, quanta)
        BY <3>1, <4>1 DEF RxQueue
      <4>3. RxQueue' \in Seq(0..MaxRx)
        BY <1>1, <2>2, <3>2, <4>2, ConcatProperties
      <4>4. got' = LastOf(<<>>, got)
        BY <4>1 DEF LastOf
      <4>5. <<>> \in Seq(0..MaxRx) /\ <<>> \o RxQueue' = RxQueue'
        BY <4>3, EmptySeq, ConcatEmptySeq
      <4> QED BY <3>3, <4>2, <4>3, <4>4, <4>5
    <3> QED BY <3>4, <3>5
  <2> QED BY <2>1, <2>2
<1> QED BY <1>1, <1>2, <1>5, <1>6, <1>7, <1>8, <1>9, <1>11, ReceiveStep

LEMMA WritePort ==
  ASSUME VspAssumption, VspInv, VspInv', NEW size \in 1..MaxTx, NEW nonblock \in BOOLEAN,
         dv_write(size, nonblock)
  PROVE  Port!Transmit
<1> DEFINE avail == buf_size_avail(vs.in)
           held == ~nonblock /\ size > avail
           n == IF held THEN size ELSE Least(size, avail)
           bytes == Run(ntx, n)
           k == Least(Len(bytes), avail)
           in == buf_append(vs.in, bytes)
           wr == IF held THEN [rest |-> AfterN(bytes, avail)] ELSE vs.wr
<1>1. /\ vs \in Session /\ vs.open /\ ~Writing /\ ntx' = ntx + n
      /\ UNCHANGED <<got, heard, nrx>> /\ vs' = [vs EXCEPT !.in = in, !.wr = wr]
  BY DEF dv_write, VspInv, TypeOK
<1>2. /\ avail \in Nat /\ n \in Nat /\ ntx \in Nat /\ ntx + n <= MaxTx
      /\ bytes \in Seq(0..MaxTx) /\ Len(bytes) = n
      /\ held => avail \in 0..n /\ avail < n
      /\ ~held => n <= avail
  BY WriteParts
<1>3. k \in 0..Len(bytes) /\ in.data = vs.in.data \o FirstN(bytes, k)
  BY <1>2, AppendFacts DEF VspInv, Bytes
<1> HIDE DEF avail, held, n, bytes, in
<1>4. k = IF held THEN avail ELSE n
  BY <1>2 DEF Least
<1> HIDE DEF k
<1>5. /\ vs.in.data \in Seq(0..MaxTx) /\ vs.wr.rest = <<>>
      /\ TxQueue \in Seq(0..MaxTx) /\ TxQueue = vs.in.data
  BY <1>1, QueueTypes, ConcatEmptySeq DEF Writing, TxQueue
<1>6. wr.rest = AfterN(bytes, k)
  <2>1. CASE held
    BY <1>4, <2>1
  <2>2. CASE ~held
    <3>1. k = Len(bytes)
      BY <1>2, <1>4, <2>2
    <3>2. AfterN(bytes, k) \in Seq(0..MaxTx) /\ Len(AfterN(bytes, k)) = 0
      BY <1>2, <1>3, <3>1, AfterNFacts
    <3>3. AfterN(bytes, k) = <<>>
      BY <3>2, EmptySeq
    <3> QED BY <1>5, <2>2, <3>3
  <2> QED BY <2>1, <2>2
<1> HIDE DEF wr
<1>7. vs'.open = vs.open /\ vs'.in = in /\ vs'.wr = wr /\ vs'.out = vs.out /\ vs'.rd = vs.rd
  BY <1>1 DEF Session
<1>8. TxQueue' = vs.in.data \o bytes
  <2>1. TxQueue' = (vs.in.data \o FirstN(bytes, k)) \o AfterN(bytes, k)
    BY <1>3, <1>6, <1>7 DEF TxQueue
  <2>2. vs.in.data \o bytes = (vs.in.data \o FirstN(bytes, k)) \o AfterN(bytes, k)
    <3>1. vs.in.data \in Seq(0..MaxTx) /\ bytes \in Seq(0..MaxTx) /\ k \in 0..Len(bytes)
      BY <1>2, <1>3, <1>5
    <3> QED BY <3>1, MoveOver, ZenonT(60)
  <2> QED BY <2>1, <2>2
<1>9. TxQueue' \in Seq(0..MaxTx)
  BY <1>2, <1>5, <1>8, ConcatProperties
<1>10. ntx' \in Nat /\ ntx' >= ntx /\ ntx' - ntx = n
  BY <1>1, <1>2
<1>11. Run(ntx, ntx' - ntx) \in Seq(0..MaxTx)
       /\ TxQueue \o Run(ntx, ntx' - ntx) = <<>> \o TxQueue'
  <2>1. <<>> \o TxQueue' = TxQueue'
    BY <1>9, ConcatEmptySeq
  <2> QED BY <1>2, <1>5, <1>8, <1>10, <2>1 DEF bytes
<1>12. <<>> \in Seq(0..MaxTx) /\ heard' = LastOf(<<>>, heard)
  BY <1>1, EmptySeq DEF LastOf
<1>13. UNCHANGED <<RxQueue, got, nrx>>
  BY <1>1, <1>7 DEF RxQueue
<1> QED BY <1>1, <1>2, <1>5, <1>7, <1>9, <1>10, <1>11, <1>12, <1>13, TransmitStep

LEMMA DataOutPort ==
  ASSUME VspAssumption, VspInv, VspInv', NEW size \in 1..Cap, data_out_cb(size)
  PROVE  Port!Transmit
<1> DEFINE sent == FirstN(vs.in.data, size)
           b == buf_consume(vs.in, size)
           in == Refill(b)
           k == Len(in.data) - Len(b.data)
           rest == AfterN(vs.wr.rest, k)
           wr == IF ~Writing \/ rest = <<>> THEN NoWrite ELSE [vs.wr EXCEPT !.rest = rest]
           ph == IF buf_size_avail(in) > 0 THEN NoPoll ELSE vs.ph
           ptt == PttAfter(sent, vs.ptt)
<1>1. /\ vs \in Session /\ vs' = [vs EXCEPT !.in = in, !.wr = wr, !.ph = ph, !.ptt = ptt]
      /\ heard' = LastOf(sent, heard) /\ UNCHANGED <<got, nrx, ntx>>
  BY DEF data_out_cb, VspInv, TypeOK
<1>2. /\ vs.open /\ size \in 0..Len(vs.in.data)
      /\ sent \in Seq(0..MaxTx)
      /\ Within(b, 0..MaxTx) /\ b.data = AfterN(vs.in.data, size)
      /\ k \in 0..Len(vs.wr.rest)
      /\ in.data = b.data \o FirstN(vs.wr.rest, k)
      /\ rest \in Seq(0..MaxTx)
  BY DataOutParts
<1>3. vs.in.data \in Seq(0..MaxTx) /\ vs.wr.rest \in Seq(0..MaxTx) /\ b.data \in Seq(0..MaxTx)
  BY <1>2, QueueTypes DEF Within
<1> HIDE DEF sent, b, in, k, ph, ptt
<1>4. wr.rest = rest
  <2>1. CASE ~Writing
    <3>1. vs.wr.rest = <<>> /\ Len(vs.wr.rest) = 0
      BY <2>1, EmptySeq DEF Writing
    <3>2. k = 0
      BY <1>2, <3>1
    <3>3. Len(rest) = 0
      <4>1. vs.wr.rest \in Seq(0..MaxTx) /\ k \in 0..Len(vs.wr.rest)
        BY <1>2, <1>3
      <4>2. Len(rest) = Len(vs.wr.rest) - k
        BY <4>1, AfterNFacts
      <4> QED BY <3>1, <3>2, <4>2
    <3>4. rest = <<>>
      BY <1>2, <3>3, EmptySeq
    <3> QED BY <2>1, <3>4 DEF NoWrite
  <2>2. CASE Writing /\ rest = <<>>
    BY <2>2 DEF NoWrite
  <2>3. CASE Writing /\ rest # <<>>
    <3>1. vs.wr \in HeldWrite
      BY <1>2, SessionParts
    <3> HIDE DEF rest
    <3>2. wr = [vs.wr EXCEPT !.rest = rest]
      BY <2>3
    <3> QED BY <3>1, <3>2 DEF HeldWrite
  <2> QED BY <2>1, <2>2, <2>3
<1> HIDE DEF wr, rest
<1>5. vs'.open = vs.open /\ vs'.in = in /\ vs'.wr = wr /\ vs'.out = vs.out /\ vs'.rd = vs.rd
  BY <1>1 DEF Session
<1>6. TxQueue' = b.data \o vs.wr.rest
  <2>1. TxQueue' = (b.data \o FirstN(vs.wr.rest, k)) \o AfterN(vs.wr.rest, k)
    BY <1>2, <1>4, <1>5 DEF TxQueue, rest
  <2>2. b.data \o vs.wr.rest = (b.data \o FirstN(vs.wr.rest, k)) \o AfterN(vs.wr.rest, k)
    <3>1. b.data \in Seq(0..MaxTx) /\ vs.wr.rest \in Seq(0..MaxTx) /\ k \in 0..Len(vs.wr.rest)
      BY <1>2, <1>3
    <3> QED BY <3>1, MoveOver, ZenonT(60)
  <2> QED BY <2>1, <2>2
<1>7. TxQueue' \in Seq(0..MaxTx)
  BY <1>3, <1>6, ConcatProperties
<1>8. TxQueue = sent \o TxQueue'
  <2>1. /\ vs.in.data \in Seq(0..MaxTx) /\ vs.wr.rest \in Seq(0..MaxTx)
        /\ size \in 0..Len(vs.in.data)
    BY <1>2, <1>3
  <2>2. vs.in.data \o vs.wr.rest
          = FirstN(vs.in.data, size) \o (AfterN(vs.in.data, size) \o vs.wr.rest)
    <3> DEFINE x == vs.in.data
               y == vs.wr.rest
    <3>1. x \in Seq(0..MaxTx) /\ y \in Seq(0..MaxTx) /\ size \in 0..Len(x)
      BY <2>1
    <3> HIDE DEF x, y
    <3>2. x \o y = FirstN(x, size) \o (AfterN(x, size) \o y)
      BY <3>1, TakeFront, ZenonT(60)
    <3> QED BY <3>2 DEF x, y
  <2>3. TxQueue = vs.in.data \o vs.wr.rest
    BY DEF TxQueue
  <2> QED BY <1>2, <1>6, <2>2, <2>3 DEF sent
<1>9. /\ ntx \in Nat /\ MaxTx \in Nat /\ ntx <= MaxTx /\ ntx' = ntx
  BY <1>1, OtherTypes DEF VspAssumption
<1>10. Run(ntx, ntx' - ntx) = <<>>
  <2>1. Run(ntx, ntx - ntx) = <<>>
    BY <1>9, EmptyRun
  <2> QED BY <1>9, <2>1
<1>11. TxQueue \in Seq(0..MaxTx)
  BY QueueTypes
<1>12. Run(ntx, ntx' - ntx) \in Seq(0..MaxTx)
       /\ TxQueue \o Run(ntx, ntx' - ntx) = sent \o TxQueue'
  <2>1. TxQueue \o <<>> = TxQueue /\ <<>> \in Seq(0..MaxTx)
    BY <1>11, ConcatEmptySeq, EmptySeq
  <2> QED BY <1>8, <1>10, <2>1
<1>13. UNCHANGED <<RxQueue, got, nrx>>
  BY <1>1, <1>5 DEF RxQueue
<1>14. ntx' \in Nat /\ ntx' >= ntx
  BY <1>9
<1> QED BY <1>1, <1>2, <1>5, <1>7, <1>9, <1>11, <1>12, <1>13, <1>14, TransmitStep

\* What ends or empties a queue without delivering it.
LEMMA DropPort ==
  ASSUME VspAssumption, VspInv, vs.open, vs'.open = vs.open,
         UNCHANGED <<got, heard, nrx, ntx>>, vs'.rd = vs.rd, vs'.wr = vs.wr,
         vs'.in \in {vs.in, EmptyBuf}, vs'.out \in {vs.out, EmptyBuf}
  PROVE  Port!Discard
<1>1. RxQueue' = RxQueue \/ RxQueue' = <<>>
  <2>1. CASE vs'.out = vs.out
    BY <2>1 DEF RxQueue
  <2>2. CASE vs'.out = EmptyBuf
    <3>1. vs'.out.data = <<>>
      BY <2>2 DEF EmptyBuf
    <3>2. RxQueue' = vs.rd.data
      BY <3>1, QueueTypes, ConcatEmptySeq DEF RxQueue
    <3> QED BY <3>2, QueueTypes
  <2> QED BY <2>1, <2>2
<1>2. vs.in.data \in Seq(0..MaxTx) /\ vs.wr.rest \in Seq(0..MaxTx) /\ TxQueue \in Seq(0..MaxTx)
  BY QueueTypes
<1>3. IsSuffix(TxQueue', TxQueue)
  <2>1. CASE vs'.in = vs.in
    <3>1. TxQueue' = TxQueue /\ <<>> \o TxQueue = TxQueue /\ <<>> \in Seq(0..MaxTx)
      BY <1>2, <2>1, ConcatEmptySeq, EmptySeq DEF TxQueue
    <3>2. IsSuffix(TxQueue, <<>> \o TxQueue)
      BY <1>2, <3>1, SuffixOfConcat
    <3> QED BY <3>1, <3>2
  <2>2. CASE vs'.in = EmptyBuf
    <3>1. vs'.in.data = <<>>
      BY <2>2 DEF EmptyBuf
    <3>2. TxQueue' = vs.wr.rest
      BY <1>2, <3>1, ConcatEmptySeq DEF TxQueue
    <3>3. IsSuffix(vs.wr.rest, vs.in.data \o vs.wr.rest)
      BY <1>2, SuffixOfConcat
    <3> QED BY <3>2, <3>3 DEF TxQueue
  <2> QED BY <2>1, <2>2
<1> QED BY <1>1, <1>3, DiscardStep

LEMMA InterruptPort ==
  ASSUME VspAssumption, VspInv, Interrupt
  PROVE  Port!Interrupted
<1>1. vs \in Session /\ vs.open /\ UNCHANGED <<got, heard, nrx, ntx>>
  BY InterruptOpen DEF Interrupt, VspInv, TypeOK
<1>2. /\ vs'.open = vs.open /\ vs'.in = vs.in /\ vs'.out = vs.out
      /\ vs'.rd = NoRead /\ vs'.wr = NoWrite
  BY <1>1 DEF Interrupt, Session
<1>3. RxQueue' = vs.out.data /\ TxQueue' = vs.in.data
  BY <1>2, QueueTypes, ConcatEmptySeq DEF RxQueue, TxQueue, NoRead, NoWrite
<1>4. RxQueue' = RxQueue \/ RxQueue' = <<>>
  BY <1>3, QueueTypes
<1>5. IsPrefix(TxQueue', TxQueue)
  BY <1>3, QueueTypes, PrefixOfConcat DEF TxQueue
<1> QED BY <1>1, <1>2, <1>4, <1>5, InterruptedStep

\* Without a session both queues are empty.
LEMMA ClosedPort ==
  ASSUME VspAssumption, vs = NoSession
  PROVE  vs.open = FALSE /\ RxQueue = <<>> /\ TxQueue = <<>>
<1>1. /\ vs.open = FALSE /\ vs.rd.data = <<>> /\ vs.out.data = <<>>
      /\ vs.in.data = <<>> /\ vs.wr.rest = <<>>
  BY DEF NoSession, NewSession, NoRead, NoWrite, EmptyBuf
<1>2. <<>> \o <<>> = <<>>
  BY ConcatEmptySeq, EmptySeq
<1> QED BY <1>1, <1>2 DEF RxQueue, TxQueue

LEMMA OpenPort ==
  ASSUME VspAssumption, VspInv, NEW r \in BOOLEAN, dv_open(r)
  PROVE  Port!PortOpen
<1>1. /\ vs'.open = TRUE /\ vs'.rd.data = <<>> /\ vs'.out.data = <<>>
      /\ vs'.in.data = <<>> /\ vs'.wr.rest = <<>> /\ ~vs.open /\ NoHistory
  BY DEF dv_open, NewSession, NoRead, NoWrite, EmptyBuf
<1>2. <<>> \o <<>> = <<>>
  BY ConcatEmptySeq, EmptySeq
<1> QED BY <1>1, <1>2 DEF Port!PortOpen, Port!Empty, NoHistory

LEMMA ClosePort ==
  ASSUME VspAssumption, VspInv, NEW taken \in BOOLEAN, SessionEnd(taken)
  PROVE  Port!PortClose \/ UNCHANGED Port!portVars
<1>1. vs' = NoSession /\ got' = 0 /\ heard' = 0 /\ nrx' = 0 /\ ntx' = 0
  BY DEF SessionEnd, NoHistory
<1>2. vs'.open = FALSE /\ RxQueue' = <<>> /\ TxQueue' = <<>>
  <2>1. /\ vs'.open = FALSE /\ vs'.rd.data = <<>> /\ vs'.out.data = <<>>
        /\ vs'.in.data = <<>> /\ vs'.wr.rest = <<>>
    BY <1>1 DEF NoSession, NewSession, NoRead, NoWrite, EmptyBuf
  <2>2. <<>> \o <<>> = <<>>
    BY ConcatEmptySeq, EmptySeq
  <2> QED BY <2>1, <2>2 DEF RxQueue, TxQueue
<1>3. CASE vs.open
  BY <1>1, <1>2, <1>3 DEF Port!PortClose, Port!Empty, RxQueue, TxQueue
<1>4. CASE ~vs.open
  <2>1. vs = NoSession /\ got = 0 /\ heard = 0 /\ nrx = 0 /\ ntx = 0
    BY <1>4 DEF VspInv, Closed
  <2>2. vs.open = FALSE /\ RxQueue = <<>> /\ TxQueue = <<>>
    BY <2>1, ClosedPort
  <2> QED BY <1>1, <1>2, <2>1, <2>2, PortStutter
<1> QED BY <1>3, <1>4

LEMMA PortStep ==
  ASSUME VspAssumption, VspInv, VspInv', [Next]_vspVars
  PROVE  [Port!PortNext]_(Port!portVars)
<1> USE DEF Port!PortNext
<1>1. vs \in Session
  BY DEF VspInv, TypeOK
<1>2. ASSUME NEW r \in BOOLEAN, dv_open(r) PROVE Port!PortNext
  BY <1>2, OpenPort
<1>3. ASSUME NEW taken \in BOOLEAN,
             dv_release(taken) \/ ChannelFails(taken) \/ vsp_destroy(taken)
      PROVE  Port!PortNext \/ UNCHANGED Port!portVars
  <2>1. SessionEnd(taken)
    BY <1>3 DEF dv_release, ChannelFails, fail, vsp_destroy
  <2> QED BY <2>1, ClosePort
<1>4. ASSUME NEW size \in 1..MaxRx, NEW nonblock \in BOOLEAN, dv_read(size, nonblock)
      PROVE  Port!PortNext \/ UNCHANGED Port!portVars
  BY <1>4, ReadPort
<1>5. ASSUME NEW size \in 1..MaxTx, NEW nonblock \in BOOLEAN, dv_write(size, nonblock)
      PROVE  Port!PortNext
  BY <1>5, WritePort
<1>6. CASE Interrupt
  BY <1>6, InterruptPort
<1>7. CASE dv_poll \/ data_out_idle \/ vsp_create \/ UNCHANGED vspVars
  <2>1. /\ vs'.open = vs.open /\ vs'.rd = vs.rd /\ vs'.wr = vs.wr /\ vs'.in = vs.in
        /\ vs'.out = vs.out /\ UNCHANGED <<got, heard, nrx, ntx>>
    BY <1>1, <1>7 DEF Session, dv_poll, data_out_idle, vsp_create, vspVars
  <2>2. RxQueue' = RxQueue /\ TxQueue' = TxQueue
    BY <2>1 DEF RxQueue, TxQueue
  <2> QED BY <2>1, <2>2, PortStutter
<1>8. ASSUME NEW flush \in BOOLEAN, NEW time \in BOOLEAN, NEW min \in Vmins,
             SetTermios(flush, min, time)
      PROVE  Port!PortNext
  <2>1. /\ vs.open /\ vs'.open = vs.open /\ vs'.rd = vs.rd /\ vs'.wr = vs.wr
        /\ vs'.in = vs.in /\ vs'.out = (IF flush THEN EmptyBuf ELSE vs.out)
        /\ UNCHANGED <<got, heard, nrx, ntx>>
    BY <1>1, <1>8 DEF Session, SetTermios
  <2>2. vs'.in \in {vs.in, EmptyBuf} /\ vs'.out \in {vs.out, EmptyBuf}
    BY <2>1
  <2> QED BY <2>1, <2>2, DropPort
<1>9. ASSUME NEW bits \in SUBSET Lines, NEW taken \in BOOLEAN, set_bits(bits, taken)
      PROVE  UNCHANGED Port!portVars
  <2>1. /\ vs'.open = vs.open /\ vs'.rd = vs.rd /\ vs'.wr = vs.wr /\ vs'.in = vs.in
        /\ vs'.out = vs.out /\ UNCHANGED <<got, heard, nrx, ntx>>
    BY <1>1, <1>9 DEF Session, set_bits
  <2>2. RxQueue' = RxQueue /\ TxQueue' = TxQueue
    BY <2>1 DEF RxQueue, TxQueue
  <2> QED BY <2>1, <2>2, PortStutter
<1>10. ASSUME NEW bufs \in (SUBSET {"in", "out"}) \ {{}}, Flush(bufs) PROVE Port!PortNext
  <2>1. /\ vs.open /\ vs'.open = vs.open /\ vs'.rd = vs.rd /\ vs'.wr = vs.wr
        /\ vs'.in = (IF "in" \in bufs THEN EmptyBuf ELSE vs.in)
        /\ vs'.out = (IF "out" \in bufs THEN EmptyBuf ELSE vs.out)
        /\ UNCHANGED <<got, heard, nrx, ntx>>
    BY <1>1, <1>10 DEF Session, Flush
  <2>2. vs'.in \in {vs.in, EmptyBuf} /\ vs'.out \in {vs.out, EmptyBuf}
    BY <2>1
  <2> QED BY <2>1, <2>2, DropPort
<1>11. ASSUME NEW size \in 1..MaxRx, data_in_cb(size) PROVE Port!PortNext
  BY <1>11, DataInPort
<1>12. ASSUME NEW size \in 1..Cap, data_out_cb(size) PROVE Port!PortNext
  BY <1>12, DataOutPort
<1>13. CASE read_timer_cb
  BY <1>13, TimerPort
<1> QED BY <1>2, <1>3, <1>4, <1>5, <1>6, <1>7, <1>8, <1>9, <1>10, <1>11, <1>12, <1>13
  DEF Next

\* The port, with its buffers whose space comes back only when they are empty, its
\* held reads and writes and its poll handles, implements SerialPort: one queue for
\* each direction, in order, nothing twice, and nothing lost but by overrun, flush,
\* interrupt and close.
THEOREM VspImplementsPort == Spec => Implements
<1>1. Init => Port!PortInit
  <2> SUFFICES ASSUME Init PROVE Port!PortInit
    OBVIOUS
  <2>1. vs.open = FALSE /\ RxQueue = <<>> /\ TxQueue = <<>>
    BY VspAssumption, ClosedPort DEF Init
  <2> QED BY <2>1 DEF Init, Port!PortInit, RxQueue, TxQueue
<1>2. VspInv /\ VspInv' /\ [Next]_vspVars => [Port!PortNext]_(Port!portVars)
  BY VspAssumption, PortStep
<1> QED BY <1>1, <1>2, VspInductive, PTL DEF Spec, Implements, Port!PortSpec
=============================================================================
