---------------------------- MODULE RouterProofs ----------------------------
(* Proofs about Router for every set of producers and every capacity. *)
EXTENDS Router, SequenceTheorems, TLAPS

-----------------------------------------------------------------------------
(* Facts about the operators. *)

\* The bytes of the longest channel buffer: a natural number that no channel
\* buffer exceeds (mx_mux loops until all of them are empty).
LEMMA LongestType ==
  ASSUME TypeOK
  PROVE  Longest \in Nat /\ Len(flags.q) <= Longest
<1> DEFINE a == Len(flags.q)
           b == queue["R1"].n
           c == queue["R2"].n
           d == queue["CONTROL"].n
           S == {Len(flags.q)} \cup {queue[x].n : x \in QueueChannel}
<1>1. a \in Nat /\ b \in Nat /\ c \in Nat /\ d \in Nat
  BY DEF TypeOK, Fifo, Count, QueueChannel, DataChannel
<1>2. S = {a, b, c, d}
  BY DEF QueueChannel, DataChannel
<1> HIDE DEF a, b, c, d, S
<1>3. \E m \in S : \A x \in S : m >= x
  BY <1>1, <1>2
<1>4. Max(S) \in S /\ \A x \in S : Max(S) >= x
  BY <1>3 DEF Max
<1>5. a \in S /\ S \subseteq Nat
  BY <1>1, <1>2
<1>6. Longest = Max(S)
  BY DEF Longest, S
<1> QED BY <1>4, <1>5, <1>6 DEF a

\* The same for the channels whose bytes are only counted.
LEMMA LongestCounts ==
  ASSUME TypeOK
  PROVE  \A x \in QueueChannel : queue[x].n <= Longest
<1> DEFINE a == Len(flags.q)
           b == queue["R1"].n
           c == queue["R2"].n
           d == queue["CONTROL"].n
           S == {Len(flags.q)} \cup {queue[x].n : x \in QueueChannel}
<1>1. a \in Nat /\ b \in Nat /\ c \in Nat /\ d \in Nat
  BY DEF TypeOK, Fifo, Count, QueueChannel, DataChannel
<1>2. S = {a, b, c, d}
  BY DEF QueueChannel, DataChannel
<1>3. \A x \in QueueChannel : queue[x].n \in S
  OBVIOUS
<1> HIDE DEF a, b, c, d, S
<1>4. \E m \in S : \A x \in S : m >= x
  BY <1>1, <1>2
<1>5. \A x \in S : Max(S) >= x
  BY <1>4 DEF Max
<1>6. Longest = Max(S) /\ Max(S) \in Nat /\ S \subseteq Nat
  <2>1. Longest = Max(S)
    BY DEF Longest, S
  <2> QED BY <1>1, <1>2, <2>1, LongestType
<1> QED BY <1>3, <1>5, <1>6

\* mx_mux produces a number of frames, whatever is queued.
LEMMA MuxType ==
  ASSUME TypeOK, ConstAssumption
  PROVE  /\ MuxFrames \in Nat
         /\ Muxed \in Seq(Frame)
         /\ Len(Muxed) = MuxFrames
         /\ MuxedOut \in Seq(Frame)
<1>1. MuxFrames \in Nat
  BY LongestType, SMTT(30) DEF MuxFrames, TypeOK, Fifo, ConstAssumption
<1>2. \A i \in 1..MuxFrames : Muxed[i] \in Frame
  BY <1>1 DEF Muxed, Frame, TypeOK, Fifo
<1>3. Muxed \in Seq(Frame) /\ Len(Muxed) = MuxFrames
  BY <1>1, <1>2 DEF Muxed
<1> QED BY <1>1, <1>3 DEF MuxedOut, TypeOK, Fifo

LEMMA MuxOutType ==
  ASSUME TypeOK, ConstAssumption
  PROVE  [q |-> MuxedOut, size |-> out.size + MuxFrames] \in Fifo(Frame)
<1>1. MuxFrames \in Nat /\ MuxedOut \in Seq(Frame)
  BY MuxType
<1>2. out \in Fifo(Frame)
  BY DEF TypeOK
<1>3. out.size + MuxFrames \in Nat
  BY <1>1, <1>2 DEF Fifo
<1> QED BY <1>1, <1>3 DEF Fifo

\* push_ptt keeps the types of what it writes.
LEMMA PushType ==
  ASSUME TypeOK, NEW L \in SUBSET Producer,
         NEW m \in [Producer -> SUBSET Radio], push_ptt(L, m)
  PROVE  /\ wflag' \subseteq Radio
         /\ flags' \in Fifo(SUBSET Radio)
         /\ pushed' \in {"none", "taken", "refused"}
<1>1. wflag' \subseteq Radio
  BY DEF push_ptt
<1>2. UNION {m[p] : p \in L} \in SUBSET Radio
  BY <1>1 DEF push_ptt
<1>3. flags' \in Fifo(SUBSET Radio)
  <2> DEFINE held == UNION {m[p] : p \in L}
  <2>1. flags' = buf_append(flags, held) \/ flags' = flags
    BY DEF push_ptt
  <2>2. held \in SUBSET Radio /\ flags \in Fifo(SUBSET Radio)
    BY <1>2 DEF TypeOK
  <2> HIDE DEF held
  <2>3. flags.q \in Seq(SUBSET Radio) /\ flags.size \in Nat
    BY <2>2 DEF Fifo
  <2>4. Append(flags.q, held) \in Seq(SUBSET Radio)
    BY <2>2, <2>3
  <2>5. buf_append(flags, held) \in Fifo(SUBSET Radio)
    BY <2>3, <2>4 DEF buf_append, Fifo
  <2> QED BY <2>1, <2>2, <2>5
<1>4. pushed' \in {"none", "taken", "refused"}
  BY DEF push_ptt, TypeOK
<1> QED BY <1>1, <1>3, <1>4

\* The keyer's mapping of a PTT request is a radio.
LEMMA MaskAfterType ==
  ASSUME TypeOK, ConstAssumption, NEW p \in Producer, NEW s
  PROVE  MaskAfter(p, s) \in SUBSET Radio
BY DEF MaskAfter, Target, TypeOK, ConstAssumption, Radio

-----------------------------------------------------------------------------
(* Type correctness. *)

LEMMA RemovedType ==
  ASSUME TypeOK, ConstAssumption, NEW p \in Producer, Removed(p)
  PROVE  TypeOK'
<1>1. /\ wflag' \subseteq Radio
      /\ flags' \in Fifo(SUBSET Radio)
      /\ pushed' \in {"none", "taken", "refused"}
      /\ wout' \in BOOLEAN
  <2>1. CASE mask[p] # {}
    <3>1. push_ptt(list', mask) /\ list' \in SUBSET Producer
      BY <2>1 DEF Removed, TypeOK
    <3>2. mask \in [Producer -> SUBSET Radio]
      BY DEF TypeOK
    <3>3. wout' \in BOOLEAN
      BY <2>1 DEF Removed
    <3> QED BY <3>1, <3>2, <3>3, PushType
  <2>2. CASE mask[p] = {}
    BY <2>2 DEF Removed, TypeOK
  <2> QED BY <2>1, <2>2
<1>2. /\ list' \subseteq Producer /\ io' \subseteq list'
      /\ closed' \subseteq Producer
      /\ sock' \in [Producer -> Seq(Item)]
      /\ mask' \in [Producer -> SUBSET Radio]
  BY DEF Removed, TypeOK
<1>3. UNCHANGED <<queue, out, lbVars, connVars, ctlVars>>
  BY DEF Removed
<1> QED BY <1>1, <1>2, <1>3 DEF TypeOK, lbVars, connVars, ctlVars

\* Reading a producer keeps the types: the read takes no more than the bucket
\* has left.
LEMMA ProducerReadType ==
  ASSUME TypeOK, ConstAssumption, NEW p \in Producer, ProducerRead(p)
  PROVE  TypeOK'
<1> DEFINE c == ChanOf[p]
           r == IF Len(sock[p]) < Avail(c) THEN Len(sock[p]) ELSE Avail(c)
<1>1. c \in Channel /\ sock[p] \in Seq(Item) /\ Len(sock[p]) \in Nat
  BY DEF TypeOK, ConstAssumption
<1>2. Avail(c) \in Int /\ (c \in Limited => Avail(c) <= lbAvail[c])
  BY <1>1, SMTT(30) DEF Avail, TypeOK, ConstAssumption, buf_size_avail, Count, Full,
              QueueChannel, Channel
<1>3. r \in Nat /\ r > 0 /\ r <= Len(sock[p]) /\ r <= Avail(c)
  BY <1>1, <1>2 DEF ProducerRead
<1> HIDE DEF r
<1>a. /\ sock' = [sock EXCEPT ![p] = SubSeq(@, r + 1, Len(@))]
      /\ IF c \in PttChannel
         THEN process_ptt_producer(p, SubSeq(sock[p], 1, r)) /\ UNCHANGED queue
         ELSE /\ queue' = [queue EXCEPT ![c] = AddCount(@, r)]
              /\ UNCHANGED <<pttVars, flags>>
      /\ wout' = TRUE
      /\ LeakyBucket(c, r)
      /\ UNCHANGED <<connVars, list, io, closed, out, ctlVars>>
  BY DEF ProducerRead, r
<1>4. sock' \in [Producer -> Seq(Item)]
  <2>1. SubSeq(sock[p], r + 1, Len(sock[p])) \in Seq(Item)
    BY <1>1, <1>3
  <2> QED BY <1>a, <2>1 DEF TypeOK
<1>5. /\ lbAvail' \in [Channel -> 0..Full]
      /\ lbTimer' \in [Channel -> BOOLEAN]
  <2>1. CASE c \in Limited
    <3>1. lbAvail[c] - r \in 0..Full
      BY <2>1, <1>1, <1>2, <1>3 DEF TypeOK, Full, ConstAssumption
    <3>2. /\ lbAvail' = [lbAvail EXCEPT ![c] = lbAvail[c] - r]
          /\ lbTimer' = [lbTimer EXCEPT ![c] = TRUE]
      BY <1>a, <2>1 DEF LeakyBucket
    <3>3. lbAvail \in [Channel -> 0..Full] /\ lbTimer \in [Channel -> BOOLEAN]
      BY DEF TypeOK
    <3> HIDE DEF c
    <3>4. lbAvail' \in [Channel -> 0..Full]
      BY <3>1, <3>2, <3>3
    <3> QED BY <3>2, <3>3, <3>4
  <2>2. CASE c \notin Limited
    BY <1>a, <2>2 DEF LeakyBucket, lbVars, TypeOK
  <2> QED BY <2>1, <2>2
<1>6. /\ queue' \in [QueueChannel -> Count]
      /\ mask' \in [Producer -> SUBSET Radio]
      /\ wflag' \subseteq Radio
      /\ flags' \in Fifo(SUBSET Radio)
      /\ pushed' \in {"none", "taken", "refused"}
  <2>1. CASE c \in PttChannel
    <3> DEFINE s == SubSeq(sock[p], 1, r)
    <3>1. CASE ValidAt(s) = {}
      BY <1>a, <2>1, <3>1 DEF process_ptt_producer, pttVars, TypeOK
    <3>2. CASE ValidAt(s) # {}
      <4>1. /\ mask' = [mask EXCEPT ![p] = MaskAfter(p, s)]
            /\ push_ptt(list, mask') /\ UNCHANGED queue
        BY <1>a, <2>1, <3>2 DEF process_ptt_producer
      <4>2. mask' \in [Producer -> SUBSET Radio] /\ list \in SUBSET Producer
        BY <4>1, MaskAfterType DEF TypeOK
      <4> QED BY <4>1, <4>2, PushType DEF TypeOK
    <3> QED BY <3>1, <3>2
  <2>2. CASE c \notin PttChannel
    <3>1. c \in QueueChannel
      BY <1>1, <2>2 DEF Channel, QueueChannel
    <3>2. AddCount(queue[c], r) \in Count
      <4>1. queue[c] \in Count
        BY <3>1 DEF TypeOK
      <4> HIDE DEF c, r
      <4> QED BY <1>3, <4>1, SMTT(30) DEF AddCount, Count
    <3>3. queue' = [queue EXCEPT ![c] = AddCount(queue[c], r)]
      BY <1>a, <2>2
    <3>4. queue' \in [QueueChannel -> Count]
      BY <3>1, <3>2, <3>3 DEF TypeOK
    <3> QED BY <1>a, <2>2, <3>4 DEF pttVars, TypeOK
  <2> QED BY <2>1, <2>2
<1> QED BY <1>a, <1>4, <1>5, <1>6 DEF TypeOK, connVars, ctlVars

\* mx_mux keeps the types of the channel buffers.
LEMMA MuxStepType ==
  ASSUME TypeOK, ConstAssumption, mx_mux
  PROVE  /\ flags' \in Fifo(SUBSET Radio)
         /\ queue' \in [QueueChannel -> Count]
<1>1. MuxFrames \in Nat
  BY MuxType
<1>2. SubSeq(flags.q, MuxFrames + 1, Len(flags.q)) \in Seq(SUBSET Radio)
  BY <1>1 DEF TypeOK, Fifo
<1>3. flags' \in Fifo(SUBSET Radio)
  BY <1>2 DEF mx_mux, Rest, Fifo, TypeOK
<1>4. queue' \in [QueueChannel -> Count]
  BY <1>1 DEF mx_mux, RestCount, Count, TypeOK
<1> QED BY <1>3, <1>4

LEMMA KeyerWriteType ==
  ASSUME TypeOK, ConstAssumption, NEW n \in 0..WireCap, KeyerWrite(n)
  PROVE  TypeOK'
<1>1. /\ MuxFrames \in Nat /\ MuxedOut \in Seq(Frame) /\ n \in Nat
      /\ flags' \in Fifo(SUBSET Radio)
      /\ queue' \in [QueueChannel -> Count]
  BY MuxType, MuxStepType DEF KeyerWrite, ConstAssumption
<1>2. /\ SubSeq(MuxedOut, 1, n) \in Seq(Frame)
      /\ SubSeq(MuxedOut, n + 1, Len(MuxedOut)) \in Seq(Frame)
  BY <1>1 DEF KeyerWrite
<1>3. wire' \in Seq(Frame)
  BY <1>2 DEF KeyerWrite, TypeOK
<1>4. out' \in Fifo(Frame)
  <2> DEFINE q == SubSeq(MuxedOut, n + 1, Len(MuxedOut))
             k == out.size + MuxFrames
  <2>1. q \in Seq(Frame)
    BY <1>2
  <2>2. k \in Nat
    <3>1. out \in Fifo(Frame)
      BY DEF TypeOK
    <3> QED BY <1>1, <3>1 DEF Fifo
  <2>3. out' = Rest(q, k)
    BY DEF KeyerWrite
  <2> HIDE DEF q, k
  <2> QED BY <2>1, <2>2, <2>3 DEF Rest, Fifo
<1>5. io' \subseteq list
  BY DEF KeyerWrite, Switched, TypeOK
<1>6. wout' \in BOOLEAN
  BY DEF KeyerWrite, NeedToWrite
<1> QED BY <1>1, <1>3, <1>4, <1>5, <1>6
        DEF KeyerWrite, TypeOK, pttVars, lbVars, ctlVars

LEMMA DisconnectedType ==
  ASSUME TypeOK, ConstAssumption, Disconnected,
         flags' \in Fifo(SUBSET Radio), queue' \in [QueueChannel -> Count],
         out' \in Fifo(Frame)
  PROVE  TypeOK'
<1>1. mask' \in [Producer -> SUBSET Radio]
  BY DEF Disconnected, drop_ptt
<1>2. cmds' \in 0..CmdCap
  BY DEF Disconnected, ConstAssumption
<1>3. /\ keyerPtt' \subseteq Radio /\ io' \subseteq list' /\ wflag' \subseteq Radio
      /\ pushed' \in {"none", "taken", "refused"}
  BY DEF Disconnected, drop_ptt
<1>5. conn' \in BOOLEAN /\ wout' \in BOOLEAN
  BY DEF Disconnected
<1>6. wire' \in Seq(Frame)
  <2>1. <<>> \in Seq(Frame)
    OBVIOUS
  <2>2. wire' = <<>>
    BY DEF Disconnected
  <2> QED BY <2>1, <2>2
<1>4. UNCHANGED <<list, sock, closed, lbAvail, lbTimer, focus, hold, turn>>
  BY DEF Disconnected, lbVars
<1> QED BY <1>1, <1>2, <1>3, <1>4, <1>5, <1>6 DEF TypeOK

LEMMA KeyerNextType ==
  ASSUME TypeOK, ConstAssumption, KeyerNext
  PROVE  TypeOK'
<1>1. CASE KeyerConnect
  <2>1. queue' \in [QueueChannel -> Count]
    BY <1>1 DEF KeyerConnect, SendControl, AddCount, TypeOK, Count, QueueChannel
  <2>2. wout' \in BOOLEAN
    BY <1>1 DEF KeyerConnect, SendControl, TypeOK
  <2> QED BY <1>1, <2>1, <2>2
          DEF KeyerConnect, Switched, TypeOK, lbVars, ctlVars
<1>2. CASE KeyerDisconnect
  BY <1>2, DisconnectedType DEF KeyerDisconnect, TypeOK
<1>3. CASE \E n \in 0..WireCap : KeyerWrite(n)
  BY <1>3, KeyerWriteType
<1>4. CASE KeyerWouldBlock
  <2>1. out' \in Fifo(Frame)
    BY <1>4, MuxOutType DEF KeyerWouldBlock
  <2> QED BY <1>4, <2>1, MuxStepType
          DEF KeyerWouldBlock, TypeOK, connVars, prodVars, pttVars, lbVars, ctlVars
<1>5. CASE KeyerWriteError
  <2>1. out' \in Fifo(Frame)
    BY <1>5, MuxOutType DEF KeyerWriteError
  <2> QED BY <1>5, <2>1, MuxStepType, DisconnectedType DEF KeyerWriteError
<1>6. CASE KeyerReceive
  <2>1. wire' \in Seq(Frame) /\ Head(wire) \in Frame
    BY <1>6 DEF KeyerReceive, TypeOK
  <2>2. keyerPtt' \subseteq Radio
    BY <1>6, <2>1 DEF KeyerReceive, TypeOK, Frame
  <2> QED BY <1>6, <2>1, <2>2
          DEF KeyerReceive, TypeOK, prodVars, pttVars, bufVars, lbVars, ctlVars
<1>7. CASE PushCmd
  <2>1. queue' \in [QueueChannel -> Count]
    BY <1>7 DEF PushCmd, SendControl, AddCount, TypeOK, Count, QueueChannel
  <2>2. wout' \in BOOLEAN
    BY <1>7 DEF PushCmd, SendControl, TypeOK
  <2>3. cmds' \in 0..CmdCap
    BY <1>7 DEF PushCmd, TypeOK, ConstAssumption
  <2> QED BY <1>7, <2>1, <2>2, <2>3
          DEF PushCmd, TypeOK, connVars, prodVars, pttVars, lbVars
<1> QED BY <1>1, <1>2, <1>3, <1>4, <1>5, <1>6, <1>7 DEF KeyerNext

LEMMA ControlNextType ==
  ASSUME TypeOK, ConstAssumption, ControlNext
  PROVE  TypeOK'
<1>1. ASSUME NEW c \in Limited, lb_cb(c) PROVE TypeOK'
  <2>1. Refill(lbAvail[c]) \in 0..Full
    BY SMTT(30) DEF Refill, Full, TypeOK, ConstAssumption
  <2>2. lbAvail' \in [Channel -> 0..Full] /\ lbTimer' \in [Channel -> BOOLEAN]
    <3>1. c \in Channel /\ lbAvail \in [Channel -> 0..Full]
          /\ lbTimer \in [Channel -> BOOLEAN]
      BY DEF TypeOK, ConstAssumption
    <3>2. CASE lbAvail[c] = Full
      BY <1>1, <3>1, <3>2 DEF lb_cb
    <3>3. CASE lbAvail[c] # Full
      <4>1. lbAvail' = [lbAvail EXCEPT ![c] = Refill(lbAvail[c])]
            /\ lbTimer' = lbTimer
        BY <1>1, <3>3 DEF lb_cb
      <4> QED BY <2>1, <3>1, <4>1
    <3> QED BY <3>2, <3>3
  <2>3. io' \subseteq list
    BY <1>1 DEF lb_cb, TypeOK
  <2> QED BY <1>1, <2>2, <2>3
          DEF lb_cb, TypeOK, connVars, pttVars, bufVars, ctlVars
<1>2. ASSUME NEW c \in Limited, mhr_set_bps_limit(c) PROVE TypeOK'
  <2>1. Full \in 0..Full /\ cmds' \in 0..CmdCap
    BY <1>2 DEF Full, TypeOK, ConstAssumption, mhr_set_bps_limit
  <2> QED BY <1>2, <2>1
          DEF mhr_set_bps_limit, TypeOK, connVars, prodVars, pttVars, bufVars
<1>3. ASSUME NEW f \in Foci, SetFocus(f) PROVE TypeOK'
  BY <1>3 DEF SetFocus, TypeOK, connVars, prodVars, pttVars, bufVars, lbVars
<1>4. ASSUME NEW c \in CatChannel, NEW h \in BOOLEAN, mhr_hold_producers(c, h)
      PROVE  TypeOK'
  BY <1>4 DEF mhr_hold_producers, update_producers, TypeOK, connVars, pttVars,
              bufVars, lbVars
<1>5. ASSUME NEW c \in CatChannel, NEW p \in Producer \cup {NoProducer},
             mhr_set_producer_turn(c, p)
      PROVE  TypeOK'
  BY <1>5 DEF mhr_set_producer_turn, update_producers, TypeOK, connVars, pttVars,
              bufVars, lbVars
<1> QED BY <1>1, <1>2, <1>3, <1>4, <1>5 DEF ControlNext

LEMMA ProducerNextType ==
  ASSUME TypeOK, ConstAssumption, NEW p \in Producer, ProducerNext(p)
  PROVE  TypeOK'
<1>1. CASE AddProducer(p)
  BY <1>1 DEF AddProducer, TypeOK, connVars, bufVars, lbVars, ctlVars
<1>2. CASE RemProducer(p)
  BY <1>2, RemovedType DEF RemProducer
<1>3. ASSUME NEW x \in ItemOf(p), PeerWrite(p, x) PROVE TypeOK'
  <2>1. x \in Item
    BY DEF ItemOf, Item
  <2>2. Append(sock[p], x) \in Seq(Item)
    BY <2>1 DEF TypeOK
  <2> QED BY <1>3, <2>2
          DEF PeerWrite, TypeOK, connVars, pttVars, bufVars, lbVars, ctlVars
<1>4. CASE PeerClose(p)
  BY <1>4 DEF PeerClose, TypeOK, connVars, pttVars, bufVars, lbVars, ctlVars
<1>5. CASE ProducerStop(p)
  BY <1>5 DEF ProducerStop, TypeOK, connVars, pttVars, bufVars, lbVars, ctlVars
<1>6. CASE ProducerDiscard(p)
  BY <1>6 DEF ProducerDiscard, TypeOK, connVars, pttVars, bufVars, lbVars, ctlVars
<1>7. CASE ProducerRead(p)
  BY <1>7, ProducerReadType
<1>8. CASE ProducerEof(p)
  BY <1>8, RemovedType DEF ProducerEof
<1> QED BY <1>1, <1>2, <1>3, <1>4, <1>5, <1>6, <1>7, <1>8
        DEF ProducerNext, ProducerCb

LEMMA StutterType ==
  ASSUME TypeOK, UNCHANGED vars
  PROVE  TypeOK'
BY DEF TypeOK, vars, connVars, prodVars, pttVars, bufVars, lbVars, ctlVars

\* Every variable keeps its type: buffers hold frames and flags bytes, the
\* bucket never goes below zero or above its cap, only registered producers are
\* watched.
THEOREM TypeCorrect == Spec => []TypeOK
<1>1. ASSUME Init PROVE TypeOK
  <2>1. Full \in 0..Full
    BY ConstAssumption DEF ConstAssumption, Full
  <2>2. EmptyFifo \in Fifo(SUBSET Radio) /\ EmptyFifo \in Fifo(Frame)
    BY DEF EmptyFifo, Fifo
  <2>3. queue \in [QueueChannel -> Count]
    BY <1>1 DEF Init, Count, EmptyCount
  <2>4. lbAvail \in [Channel -> 0..Full] /\ lbTimer \in [Channel -> BOOLEAN]
    BY <1>1, <2>1 DEF Init
  <2>5. focus \in Foci /\ cmds \in 0..CmdCap
    BY <1>1, ConstAssumption DEF Init, ConstAssumption
  <2>6. sock \in [Producer -> Seq(Item)] /\ mask \in [Producer -> SUBSET Radio]
    BY <1>1 DEF Init
  <2>7. /\ hold \in [Channel -> BOOLEAN]
        /\ turn \in [Channel -> Producer \cup {NoProducer}]
    BY <1>1 DEF Init
  <2>8. wire \in Seq(Frame) /\ flags \in Fifo(SUBSET Radio) /\ out \in Fifo(Frame)
    <3>1. <<>> \in Seq(Frame)
      OBVIOUS
    <3> QED BY <1>1, <2>2, <3>1 DEF Init
  <2>9. conn \in BOOLEAN /\ wout \in BOOLEAN
    BY <1>1 DEF Init
  <2>10. /\ list \subseteq Producer /\ io \subseteq list /\ closed \subseteq Producer
         /\ wflag \subseteq Radio /\ keyerPtt \subseteq Radio
         /\ pushed \in {"none", "taken", "refused"}
    BY <1>1 DEF Init
  <2> QED BY <2>3, <2>4, <2>5, <2>6, <2>7, <2>8, <2>9, <2>10 DEF TypeOK
<1>2. TypeOK /\ [Next]_vars => TypeOK'
  BY ConstAssumption, KeyerNextType, ControlNextType, ProducerNextType, StutterType
     DEF Next
<1> QED BY <1>1, <1>2, PTL DEF Spec

-----------------------------------------------------------------------------
(* The flags bytes in a sequence of frames. *)

LEMMA LastIsConcatRight ==
  ASSUME NEW s \in Seq(Frame), NEW t \in Seq(Frame), NEW v, LastIs(t, v)
  PROVE  LastIs(s \o t, v)
<1>1. PICK i \in 1..Len(t) : /\ t[i].valid /\ t[i].flags = v
                             /\ \A j \in (i+1)..Len(t) : ~t[j].valid
  BY DEF LastIs
<1>2. /\ Len(s) \in Nat /\ Len(t) \in Nat /\ Len(s \o t) = Len(s) + Len(t)
      /\ \A j \in 1..(Len(s) + Len(t)) :
           (s \o t)[j] = IF j <= Len(s) THEN s[j] ELSE t[j - Len(s)]
  BY ConcatProperties, LenProperties
<1>3. (s \o t)[Len(s) + i] = t[i]
  BY <1>1, <1>2
<1>4. \A j \in (Len(s) + i + 1)..Len(s \o t) :
        (s \o t)[j] = t[j - Len(s)] /\ j - Len(s) \in (i+1)..Len(t)
  BY <1>1, <1>2
<1>5. Len(s) + i \in 1..Len(s \o t)
  BY <1>1, <1>2
<1> QED BY <1>1, <1>3, <1>4, <1>5 DEF LastIs

LEMMA LastIsConcatLeft ==
  ASSUME NEW s \in Seq(Frame), NEW t \in Seq(Frame), NEW v,
         LastIs(s, v), NoFlagsIn(t)
  PROVE  LastIs(s \o t, v)
<1>1. PICK i \in 1..Len(s) : /\ s[i].valid /\ s[i].flags = v
                             /\ \A j \in (i+1)..Len(s) : ~s[j].valid
  BY DEF LastIs
<1>2. /\ Len(s) \in Nat /\ Len(t) \in Nat /\ Len(s \o t) = Len(s) + Len(t)
      /\ \A j \in 1..(Len(s) + Len(t)) :
           (s \o t)[j] = IF j <= Len(s) THEN s[j] ELSE t[j - Len(s)]
  BY ConcatProperties, LenProperties
<1>3. (s \o t)[i] = s[i] /\ i \in 1..Len(s \o t)
  BY <1>1, <1>2
<1>4. ASSUME NEW j \in (i+1)..Len(s \o t) PROVE ~(s \o t)[j].valid
  <2>1. CASE j <= Len(s)
    BY <1>1, <1>2, <2>1
  <2>2. CASE j > Len(s)
    <3>1. (s \o t)[j] = t[j - Len(s)] /\ j - Len(s) \in 1..Len(t)
      BY <1>1, <1>2, <2>2
    <3> QED BY <3>1 DEF NoFlagsIn
  <2> QED BY <1>1, <1>2, <2>1, <2>2
<1> QED BY <1>1, <1>3, <1>4 DEF LastIs

LEMMA NoFlagsConcat ==
  ASSUME NEW s \in Seq(Frame), NEW t \in Seq(Frame), NoFlagsIn(s), NoFlagsIn(t)
  PROVE  NoFlagsIn(s \o t)
<1>1. /\ Len(s) \in Nat /\ Len(t) \in Nat /\ Len(s \o t) = Len(s) + Len(t)
      /\ \A j \in 1..(Len(s) + Len(t)) :
           (s \o t)[j] = IF j <= Len(s) THEN s[j] ELSE t[j - Len(s)]
  BY ConcatProperties, LenProperties
<1>2. ASSUME NEW j \in 1..Len(s \o t) PROVE ~(s \o t)[j].valid
  <2>1. CASE j <= Len(s)
    BY <1>1, <2>1 DEF NoFlagsIn
  <2>2. CASE j > Len(s)
    <3>1. (s \o t)[j] = t[j - Len(s)] /\ j - Len(s) \in 1..Len(t)
      BY <1>1, <2>2
    <3> QED BY <3>1 DEF NoFlagsIn
  <2> QED BY <1>1, <2>1, <2>2
<1> QED BY <1>2 DEF NoFlagsIn

LEMMA FrameAssoc ==
  \A s, t, u \in Seq(Frame) : (s \o t) \o u = s \o (t \o u)
<1> HIDE DEF Frame
<1> QED BY ConcatAssociative, SMTT(60)

\* write() splits buf_out in two.
LEMMA SplitSeq ==
  ASSUME NEW s \in Seq(Frame), NEW n \in 0..Len(s)
  PROVE  /\ SubSeq(s, 1, n) \in Seq(Frame)
         /\ SubSeq(s, n + 1, Len(s)) \in Seq(Frame)
         /\ SubSeq(s, 1, n) \o SubSeq(s, n + 1, Len(s)) = s
<1> DEFINE a == SubSeq(s, 1, n)
           b == SubSeq(s, n + 1, Len(s))
<1> HIDE DEF Frame
<1>1. Len(s) \in Nat /\ n \in Nat /\ n <= Len(s)
  BY LenProperties
<1>2. a \in Seq(Frame) /\ Len(a) = n /\ \A i \in 1..n : a[i] = s[i]
  BY <1>1
<1>3. b \in Seq(Frame) /\ Len(b) = Len(s) - n
      /\ \A i \in 1..(Len(s) - n) : b[i] = s[n + i]
  BY <1>1
<1> HIDE DEF a, b
<1>4. a \o b \in Seq(Frame) /\ Len(a \o b) = Len(s)
  <2>1. a \o b \in Seq(Frame) /\ Len(a \o b) = Len(a) + Len(b)
    BY <1>2, <1>3, ConcatProperties, Zenon
  <2> QED BY <1>1, <1>2, <1>3, <2>1
<1>5. ASSUME NEW i \in 1..Len(s) PROVE (a \o b)[i] = s[i]
  <2>1. (a \o b)[i] = IF i <= Len(a) THEN a[i] ELSE b[i - Len(a)]
    BY <1>1, <1>2, <1>3, ConcatProperties
  <2> QED BY <1>1, <1>2, <1>3, <2>1
<1>6. a \o b = s
  BY <1>4, <1>5, SeqEqual
<1> QED BY <1>2, <1>3, <1>6 DEF a, b

LEMMA TailConcat ==
  ASSUME NEW s \in Seq(Frame), NEW t \in Seq(Frame), s # <<>>
  PROVE  /\ s \o t \in Seq(Frame) /\ s \o t # <<>>
         /\ Head(s \o t) = Head(s) /\ Tail(s \o t) = Tail(s) \o t
<1> HIDE DEF Frame
<1>1. /\ Len(s) \in Nat \ {0} /\ Len(t) \in Nat /\ Tail(s) \in Seq(Frame)
      /\ Head(s) = s[1] /\ Len(Tail(s)) = Len(s) - 1
      /\ \A i \in 1..Len(Tail(s)) : Tail(s)[i] = s[i+1]
  BY HeadTailProperties, LenProperties, EmptySeq
<1> DEFINE st == s \o t
<1>2. /\ st \in Seq(Frame) /\ Len(st) = Len(s) + Len(t)
      /\ \A j \in 1..Len(st) : st[j] = IF j <= Len(s) THEN s[j] ELSE t[j - Len(s)]
  BY ConcatProperties
<1>3. st # <<>>
  BY <1>1, <1>2, EmptySeq
<1> DEFINE u == Tail(s) \o t
<1>4. /\ u \in Seq(Frame) /\ Len(u) = Len(s) - 1 + Len(t)
      /\ \A j \in 1..Len(u) :
           u[j] = IF j <= Len(s) - 1 THEN Tail(s)[j] ELSE t[j - (Len(s) - 1)]
  BY <1>1, ConcatProperties
<1> HIDE DEF st, u
<1>5. /\ Head(st) = st[1] /\ Tail(st) \in Seq(Frame) /\ Len(Tail(st)) = Len(st) - 1
      /\ \A i \in 1..Len(Tail(st)) : Tail(st)[i] = st[i+1]
  BY <1>2, <1>3, HeadTailProperties
<1>6. Head(st) = Head(s)
  BY <1>1, <1>2, <1>5
<1>7. Len(Tail(st)) = Len(u)
  BY <1>1, <1>2, <1>4, <1>5
<1>8. ASSUME NEW i \in 1..Len(u) PROVE Tail(st)[i] = u[i]
  <2>1. /\ Tail(st)[i] = st[i+1]
        /\ st[i+1] = IF i + 1 <= Len(s) THEN s[i+1] ELSE t[i + 1 - Len(s)]
    <3>1. i \in 1..Len(Tail(st)) /\ i + 1 \in 1..Len(st)
      BY <1>1, <1>2, <1>5, <1>7
    <3> QED BY <1>2, <1>5, <3>1
  <2>2. u[i] = IF i <= Len(s) - 1 THEN Tail(s)[i] ELSE t[i - (Len(s) - 1)]
    BY <1>4
  <2>3. CASE i + 1 <= Len(s)
    <3>1. i \in 1..Len(Tail(s)) /\ i <= Len(s) - 1
      BY <1>1, <1>4, <2>3
    <3> QED BY <1>1, <2>1, <2>2, <2>3, <3>1
  <2>4. CASE ~(i + 1 <= Len(s))
    <3>1. ~(i <= Len(s) - 1) /\ i + 1 - Len(s) = i - (Len(s) - 1)
      BY <1>1, <1>4, <2>4
    <3> QED BY <2>1, <2>2, <2>4, <3>1
  <2> QED BY <2>3, <2>4
<1>9. Tail(st) = u
  BY <1>4, <1>5, <1>7, <1>8, SeqEqual
<1> QED BY <1>2, <1>3, <1>6, <1>9 DEF st, u

\* Taking the first frame off the line leaves the last flags byte in place, or
\* hands it to the keyer.
LEMMA LineTail ==
  ASSUME NEW s \in Seq(Frame), s # <<>>, NEW v, NEW k,
         LastIs(s, v) \/ (NoFlagsIn(s) /\ k = v)
  PROVE  \/ LastIs(Tail(s), v)
         \/ NoFlagsIn(Tail(s)) /\ (IF Head(s).valid THEN Head(s).flags ELSE k) = v
<1>1. /\ Len(s) \in Nat \ {0} /\ Len(Tail(s)) = Len(s) - 1 /\ Head(s) = s[1]
      /\ \A i \in 1..Len(Tail(s)) : Tail(s)[i] = s[i+1]
  BY HeadTailProperties, LenProperties, EmptySeq
<1>2. CASE NoFlagsIn(s) /\ k = v
  BY <1>1, <1>2 DEF NoFlagsIn
<1>3. CASE LastIs(s, v)
  <2>1. PICK i \in 1..Len(s) : /\ s[i].valid /\ s[i].flags = v
                               /\ \A j \in (i+1)..Len(s) : ~s[j].valid
    BY <1>3 DEF LastIs
  <2>2. CASE i = 1
    <3>1. \A j \in 1..Len(Tail(s)) : j + 1 \in (i+1)..Len(s)
      BY <1>1, <2>2
    <3> QED BY <1>1, <2>1, <2>2, <3>1 DEF NoFlagsIn
  <2>3. CASE i # 1
    <3>1. i - 1 \in 1..Len(Tail(s)) /\ Tail(s)[i-1] = s[i]
      BY <1>1, <2>1, <2>3
    <3>2. \A j \in ((i-1)+1)..Len(Tail(s)) :
             Tail(s)[j] = s[j+1] /\ j + 1 \in (i+1)..Len(s)
      BY <1>1, <2>1, <2>3
    <3> QED BY <2>1, <3>1, <3>2 DEF LastIs
  <2> QED BY <2>2, <2>3
<1> QED BY <1>2, <1>3

-----------------------------------------------------------------------------
(* PTT. *)

\* Without a keyer no push counts as taken: a new connection starts from an
\* unknown PTT state.
OfflineUnpushed == ~conn => pushed = "none"

\* What follows for one state: the flags bytes queued in f, muxed and written in
\* l, and the keyer's state k agree with w.
Agrees(f, l, k, w) ==
  IF f # <<>> THEN f[Len(f)] = w
              ELSE LastIs(l, w) \/ (NoFlagsIn(l) /\ k = w)

LEMMA PttSyncAgrees ==
  PttSync <=> (conn /\ pushed = "taken" => Agrees(flags.q, Line, keyerPtt, wflag))
BY DEF PttSync, Agrees

PttInv == TypeOK /\ HeldTogether /\ OfflineUnpushed /\ PttSync

\* mx_mux moves flags bytes from the channel buffer to the end of buf_out and
\* keeps the newest one the newest.
LEMMA MuxAgrees ==
  ASSUME TypeOK, ConstAssumption, mx_mux, Agrees(flags.q, Line, keyerPtt, wflag)
  PROVE  Agrees(flags'.q, wire \o MuxedOut, keyerPtt, wflag)
<1> DEFINE f == flags.q
           k == MuxFrames
<1>1. /\ f \in Seq(SUBSET Radio) /\ Len(f) \in Nat /\ k \in Nat
      /\ Muxed \in Seq(Frame) /\ Len(Muxed) = k
      /\ wire \in Seq(Frame) /\ out.q \in Seq(Frame) /\ Line \in Seq(Frame)
  <2>1. k \in Nat /\ Muxed \in Seq(Frame) /\ Len(Muxed) = k
    BY MuxType
  <2>2. flags \in Fifo(SUBSET Radio) /\ out \in Fifo(Frame) /\ wire \in Seq(Frame)
    BY DEF TypeOK
  <2>3. f \in Seq(SUBSET Radio) /\ out.q \in Seq(Frame)
    BY <2>2 DEF Fifo
  <2>4. Len(f) \in Nat
    BY <2>3, LenProperties
  <2>5. Line \in Seq(Frame)
    BY <2>2, <2>3, ConcatProperties DEF Line
  <2> QED BY <2>1, <2>2, <2>3, <2>4, <2>5
<1>2. flags'.q = SubSeq(f, k + 1, Len(f))
  BY DEF mx_mux, Rest
<1>3. wire \o MuxedOut = Line \o Muxed
  <2>1. (wire \o out.q) \o Muxed = wire \o (out.q \o Muxed)
    <3> DEFINE o == out.q
               m == Muxed
    <3>1. wire \in Seq(Frame) /\ o \in Seq(Frame) /\ m \in Seq(Frame)
      BY <1>1
    <3> HIDE DEF o, m
    <3>2. (wire \o o) \o m = wire \o (o \o m)
      BY <3>1, FrameAssoc, SMTT(30)
    <3> QED BY <3>2 DEF o, m
  <2> QED BY <2>1, Zenon DEF Line, MuxedOut
<1>4. \A j \in 1..k : /\ j <= Len(f) => Muxed[j].valid /\ Muxed[j].flags = f[j]
                      /\ j > Len(f) => ~Muxed[j].valid
  <2> HIDE DEF k
  <2>1. \A j \in 1..k : Muxed[j] = [valid |-> j <= Len(f),
                                  flags |-> IF j <= Len(f) THEN f[j] ELSE {}]
    BY DEF Muxed, k
  <2> HIDE DEF f
  <2>2. ASSUME NEW j \in 1..k, j <= Len(f) PROVE Muxed[j].valid /\ Muxed[j].flags = f[j]
    <3>1. Muxed[j] = [valid |-> TRUE, flags |-> f[j]]
      BY <2>1, <2>2, Zenon
    <3> QED BY <3>1
  <2>3. ASSUME NEW j \in 1..k, j > Len(f) PROVE ~Muxed[j].valid
    <3>1. (j <= Len(f)) = FALSE
      BY <1>1, <2>3
    <3>2. Muxed[j] = [valid |-> FALSE, flags |-> IF FALSE THEN f[j] ELSE {}]
      BY <2>1, <3>1, Zenon
    <3> QED BY <3>2
  <2> QED BY <2>2, <2>3
<1>5. CASE Len(f) > k
  <2>1. /\ Len(flags'.q) = Len(f) - k
        /\ flags'.q[Len(f) - k] = f[Len(f)]
    BY <1>1, <1>2, <1>5
  <2>2. f # <<>> /\ flags'.q # <<>>
    BY <1>1, <1>5, <2>1
  <2> QED BY <2>1, <2>2 DEF Agrees
<1>6. CASE Len(f) <= k
  <2>1. flags'.q = <<>>
    BY <1>1, <1>2, <1>6, SubSeqEmpty
  <2>2. CASE f = <<>>
    <3>1. NoFlagsIn(Muxed)
      <4>1. Len(f) = 0
        BY <2>2
      <4> QED BY <1>1, <1>4, <4>1 DEF NoFlagsIn
    <3>2. LastIs(Line, wflag) \/ (NoFlagsIn(Line) /\ keyerPtt = wflag)
      BY <2>2 DEF Agrees
    <3> QED BY <1>1, <1>3, <2>1, <3>1, <3>2, LastIsConcatLeft, NoFlagsConcat
            DEF Agrees
  <2>3. CASE f # <<>>
    <3>1. Len(f) \in 1..k /\ f[Len(f)] = wflag
      BY <1>1, <1>6, <2>3, EmptySeq DEF Agrees
    <3>2. LastIs(Muxed, wflag)
      <4> HIDE DEF f, k
      <4>1. Muxed[Len(f)].valid /\ Muxed[Len(f)].flags = wflag
        BY <1>1, <1>4, <3>1
      <4>2. \A j \in (Len(f) + 1)..k : ~Muxed[j].valid
        BY <1>1, <1>4
      <4> QED BY <1>1, <3>1, <4>1, <4>2 DEF LastIs
    <3> QED BY <1>1, <1>3, <2>1, <3>2, LastIsConcatRight DEF Agrees
  <2> QED BY <2>2, <2>3
<1> QED BY <1>1, <1>5, <1>6

\* A push that was taken is the newest flags byte.
LEMMA PushAgrees ==
  ASSUME TypeOK, OfflineUnpushed, NEW L \in SUBSET Producer,
         NEW m \in [Producer -> SUBSET Radio], push_ptt(L, m),
         conn, pushed' = "taken"
  PROVE  flags'.q # <<>> /\ flags'.q[Len(flags'.q)] = wflag'
<1> DEFINE held == UNION {m[p] : p \in L}
<1>1. wflag' = held /\ flags'.q = Append(flags.q, held)
  BY DEF push_ptt, buf_append
<1>2. flags.q \in Seq(SUBSET Radio) /\ held \in SUBSET Radio
  BY <1>1, PushType DEF TypeOK, Fifo
<1> HIDE DEF held
<1> QED BY <1>1, <1>2, AppendProperties

LEMMA RemovedPtt ==
  ASSUME PttInv, ConstAssumption, NEW p \in Producer, Removed(p)
  PROVE  HeldTogether' /\ OfflineUnpushed' /\ PttSync'
<1> USE DEF PttInv
<1>1. UNCHANGED <<conn, wire, keyerPtt, out>> /\ list' = list \ {p}
      /\ mask' = [mask EXCEPT ![p] = {}] /\ mask \in [Producer -> SUBSET Radio]
      /\ list \subseteq Producer
  BY DEF Removed, connVars, TypeOK
<1>2. \A q \in list' : mask'[q] = mask[q]
  BY <1>1
<1>3. CASE mask[p] = {}
  <2>1. UNCHANGED <<wflag, pushed, flags>>
    BY <1>3 DEF Removed
  <2>2. UNION {mask[q] : q \in list} = UNION {mask'[q] : q \in list'}
    BY <1>1, <1>2, <1>3
  <2>3. HeldTogether'
    BY <2>1, <2>2 DEF HeldTogether
  <2> QED BY <1>1, <2>1, <2>3 DEF OfflineUnpushed, PttSync, Line
<1>4. CASE mask[p] # {}
  <2>1. push_ptt(list', mask) /\ list' \in SUBSET Producer
    BY <1>1, <1>4 DEF Removed
  <2>2. wflag' = UNION {mask[q] : q \in list'}
    BY <2>1 DEF push_ptt
  <2>3. HeldTogether'
    BY <1>2, <2>2 DEF HeldTogether
  <2>4. OfflineUnpushed'
    BY <1>1, <2>1 DEF OfflineUnpushed, push_ptt
  <2>5. PttSync'
    <3> SUFFICES ASSUME conn', pushed' = "taken"
                 PROVE  flags'.q # <<>> /\ flags'.q[Len(flags'.q)] = wflag'
      BY DEF PttSync
    <3> QED BY <1>1, <2>1, PushAgrees
  <2> QED BY <2>3, <2>4, <2>5
<1> QED BY <1>3, <1>4

LEMMA ProducerReadPtt ==
  ASSUME PttInv, ConstAssumption, NEW p \in Producer, ProducerRead(p)
  PROVE  HeldTogether' /\ OfflineUnpushed' /\ PttSync'
<1> USE DEF PttInv
<1>1. UNCHANGED <<conn, wire, keyerPtt, out, list>> /\ conn
  BY DEF ProducerRead, connVars
<1>2. CASE UNCHANGED <<pttVars, flags>>
  BY <1>1, <1>2 DEF pttVars, HeldTogether, OfflineUnpushed, PttSync, Line
<1>3. ASSUME NEW s, ValidAt(s) # {}, process_ptt_producer(p, s)
      PROVE  HeldTogether' /\ OfflineUnpushed' /\ PttSync'
  <2>1. /\ mask' = [mask EXCEPT ![p] = MaskAfter(p, s)]
        /\ push_ptt(list, mask')
    BY <1>3 DEF process_ptt_producer
  <2>2. mask' \in [Producer -> SUBSET Radio] /\ list \in SUBSET Producer
    BY <2>1, MaskAfterType DEF TypeOK
  <2>3. HeldTogether'
    BY <1>1, <2>1 DEF push_ptt, HeldTogether
  <2>4. OfflineUnpushed'
    BY <1>1 DEF OfflineUnpushed
  <2>5. PttSync'
    <3> SUFFICES ASSUME pushed' = "taken"
                 PROVE  flags'.q # <<>> /\ flags'.q[Len(flags'.q)] = wflag'
      BY DEF PttSync
    <3> QED BY <1>1, <2>1, <2>2, PushAgrees
  <2> QED BY <2>3, <2>4, <2>5
<1>4. \/ UNCHANGED <<pttVars, flags>>
      \/ \E s : ValidAt(s) # {} /\ process_ptt_producer(p, s)
  BY DEF ProducerRead, process_ptt_producer
<1> QED BY <1>2, <1>3, <1>4

LEMMA KeyerWritePtt ==
  ASSUME PttInv, ConstAssumption, NEW n \in 0..WireCap, KeyerWrite(n)
  PROVE  HeldTogether' /\ OfflineUnpushed' /\ PttSync'
<1> USE DEF PttInv
<1>1. UNCHANGED <<conn, keyerPtt, list, mask, wflag, pushed>>
  BY DEF KeyerWrite, pttVars
<1>2. HeldTogether' /\ OfflineUnpushed'
  BY <1>1 DEF HeldTogether, OfflineUnpushed
<1>3. /\ MuxedOut \in Seq(Frame) /\ wire \in Seq(Frame) /\ n \in Nat
      /\ n <= Len(MuxedOut) /\ Len(MuxedOut) \in Nat
  <2>1. MuxedOut \in Seq(Frame)
    BY MuxType
  <2>2. Len(MuxedOut) \in Nat
    BY <2>1, LenProperties
  <2> QED BY <2>1, <2>2 DEF KeyerWrite, TypeOK, ConstAssumption
<1>4. Line' = wire \o MuxedOut
  <2> DEFINE a == SubSeq(MuxedOut, 1, n)
             b == SubSeq(MuxedOut, n + 1, Len(MuxedOut))
  <2>1. Line' = (wire \o a) \o b
    BY DEF KeyerWrite, Line, Rest
  <2>2. a \in Seq(Frame) /\ b \in Seq(Frame)
    BY <1>3
  <2>3. a \o b = MuxedOut
    <3>1. n \in 0..Len(MuxedOut)
      BY <1>3
    <3> QED BY <1>3, <3>1, SplitSeq, Zenon
  <2> HIDE DEF a, b
  <2>4. (wire \o a) \o b = wire \o (a \o b)
    <3>1. wire \in Seq(Frame) /\ a \in Seq(Frame) /\ b \in Seq(Frame)
      BY <1>3, <2>2
    <3> QED BY <3>1, FrameAssoc, SMTT(60)
  <2> QED BY <2>1, <2>3, <2>4, Zenon
<1>5. ASSUME conn', pushed' = "taken"
      PROVE  Agrees(flags'.q, Line', keyerPtt', wflag')
  <2>1. Agrees(flags.q, Line, keyerPtt, wflag) /\ mx_mux
    BY <1>1, <1>5, PttSyncAgrees DEF KeyerWrite
  <2> QED BY <1>1, <1>4, <2>1, MuxAgrees
<1>6. PttSync'
  BY <1>5 DEF PttSync, Agrees
<1> QED BY <1>2, <1>6

LEMMA DisconnectedPtt ==
  ASSUME TypeOK, Disconnected
  PROVE  HeldTogether' /\ OfflineUnpushed' /\ PttSync'
<1>1. mask' = [p \in Producer |-> {}] /\ wflag' = {} /\ list' \subseteq Producer
  BY DEF Disconnected, drop_ptt, TypeOK
<1>2. HeldTogether'
  BY <1>1 DEF HeldTogether
<1> QED BY <1>2 DEF Disconnected, OfflineUnpushed, PttSync

LEMMA KeyerNextPtt ==
  ASSUME PttInv, ConstAssumption, KeyerNext
  PROVE  HeldTogether' /\ OfflineUnpushed' /\ PttSync'
<1> USE DEF PttInv
<1>1. CASE KeyerConnect
  <2>1. pushed' = "none" /\ UNCHANGED <<list, mask, wflag>>
    BY <1>1 DEF KeyerConnect, OfflineUnpushed
  <2> QED BY <2>1 DEF HeldTogether, OfflineUnpushed, PttSync
<1>2. CASE KeyerDisconnect
  BY <1>2, DisconnectedPtt DEF KeyerDisconnect
<1>3. CASE \E n \in 0..WireCap : KeyerWrite(n)
  BY <1>3, KeyerWritePtt
<1>4. CASE KeyerWouldBlock
  <2>1. UNCHANGED <<conn, wire, keyerPtt, list, mask, wflag, pushed>>
        /\ out'.q = MuxedOut /\ mx_mux
    BY <1>4 DEF KeyerWouldBlock, connVars, prodVars, pttVars
  <2>2. HeldTogether' /\ OfflineUnpushed'
    BY <2>1 DEF HeldTogether, OfflineUnpushed
  <2>3. ASSUME conn', pushed' = "taken"
        PROVE  Agrees(flags'.q, Line', keyerPtt', wflag')
    BY <2>1, <2>3, PttSyncAgrees, MuxAgrees DEF Line
  <2> QED BY <2>2, <2>3 DEF PttSync, Agrees
<1>5. CASE KeyerWriteError
  BY <1>5, DisconnectedPtt DEF KeyerWriteError
<1>6. CASE KeyerReceive
  <2>1. UNCHANGED <<conn, list, mask, wflag, pushed, flags, out>>
    BY <1>6 DEF KeyerReceive, prodVars, pttVars, bufVars
  <2>2. HeldTogether' /\ OfflineUnpushed'
    BY <2>1 DEF HeldTogether, OfflineUnpushed
  <2>3. /\ wire \in Seq(Frame) /\ out.q \in Seq(Frame) /\ wire # <<>>
        /\ wire' = Tail(wire)
    BY <1>6 DEF KeyerReceive, TypeOK, Fifo
  <2>4. Line \in Seq(Frame) /\ Line # <<>> /\ Head(Line) = Head(wire)
        /\ Line' = Tail(Line)
    BY <2>1, <2>3, TailConcat DEF Line
  <2>5. ASSUME conn', pushed' = "taken"
        PROVE  Agrees(flags'.q, Line', keyerPtt', wflag')
    <3>1. Agrees(flags.q, Line, keyerPtt, wflag)
      BY <2>1, <2>5, PttSyncAgrees
    <3>2. keyerPtt' = IF Head(Line).valid THEN Head(Line).flags ELSE keyerPtt
      BY <1>6, <2>4 DEF KeyerReceive
    <3> QED BY <2>1, <2>4, <3>1, <3>2, LineTail DEF Agrees
  <2> QED BY <2>2, <2>5 DEF PttSync, Agrees
<1>7. CASE PushCmd
  BY <1>7 DEF PushCmd, connVars, prodVars, pttVars, HeldTogether, OfflineUnpushed,
              PttSync, Line
<1> QED BY <1>1, <1>2, <1>3, <1>4, <1>5, <1>6, <1>7 DEF KeyerNext

LEMMA ControlNextPtt ==
  ASSUME PttInv, ControlNext
  PROVE  HeldTogether' /\ OfflineUnpushed' /\ PttSync'
<1>1. UNCHANGED <<conn, wire, keyerPtt, list, mask, wflag, pushed, flags, out>>
  BY DEF ControlNext, lb_cb, mhr_set_bps_limit, SetFocus, mhr_hold_producers,
         mhr_set_producer_turn, connVars, prodVars, pttVars, bufVars
<1> QED BY <1>1 DEF PttInv, HeldTogether, OfflineUnpushed, PttSync, Line

LEMMA ProducerNextPtt ==
  ASSUME PttInv, ConstAssumption, NEW p \in Producer, ProducerNext(p)
  PROVE  HeldTogether' /\ OfflineUnpushed' /\ PttSync'
<1> USE DEF PttInv
<1>1. CASE AddProducer(p)
  <2>1. UNCHANGED <<conn, wire, keyerPtt, wflag, pushed, flags, out>>
    BY <1>1 DEF AddProducer, connVars, bufVars
  <2>2. list' = list \cup {p} /\ p \notin list /\ list \subseteq Producer
        /\ mask' = [mask EXCEPT ![p] = {}] /\ mask \in [Producer -> SUBSET Radio]
    BY <1>1 DEF AddProducer, TypeOK
  <2>3. UNION {mask[q] : q \in list} = UNION {mask'[q] : q \in list'}
    BY <2>2
  <2> QED BY <2>1, <2>3 DEF HeldTogether, OfflineUnpushed, PttSync, Line
<1>2. CASE RemProducer(p)
  BY <1>2, RemovedPtt DEF RemProducer
<1>3. CASE \/ \E x \in ItemOf(p) : PeerWrite(p, x)
           \/ PeerClose(p) \/ ProducerStop(p) \/ ProducerDiscard(p)
  <2>1. UNCHANGED <<conn, wire, keyerPtt, list, mask, wflag, pushed, flags, out>>
    BY <1>3 DEF PeerWrite, PeerClose, ProducerStop, ProducerDiscard, connVars,
                pttVars, bufVars
  <2> QED BY <2>1 DEF HeldTogether, OfflineUnpushed, PttSync, Line
<1>4. CASE ProducerRead(p)
  BY <1>4, ProducerReadPtt
<1>5. CASE ProducerEof(p)
  BY <1>5, RemovedPtt DEF ProducerEof
<1> QED BY <1>1, <1>2, <1>3, <1>4, <1>5 DEF ProducerNext, ProducerCb

\* The inductive invariant: types, the union of what is held, and agreement of
\* everything on its way to the keyer with it.
THEOREM PttInductive == Spec => []PttInv
<1>1. ASSUME Init PROVE HeldTogether /\ OfflineUnpushed /\ PttSync
  <2>1. UNION {mask[p] : p \in list} = {}
    BY <1>1 DEF Init
  <2> QED BY <1>1, <2>1 DEF Init, HeldTogether, OfflineUnpushed, PttSync
<1>2. ASSUME PttInv, [Next]_vars PROVE HeldTogether' /\ OfflineUnpushed' /\ PttSync'
  <2>1. CASE UNCHANGED vars
    BY <1>2, <2>1 DEF PttInv, HeldTogether, OfflineUnpushed, PttSync, Line, vars,
       connVars, prodVars, pttVars, bufVars
  <2> QED BY <1>2, <2>1, ConstAssumption, KeyerNextPtt, ControlNextPtt, ProducerNextPtt
          DEF Next
<1>3. Spec => []TypeOK
  BY TypeCorrect
<1> QED BY <1>1, <1>2, <1>3, PTL DEF Spec, PttInv

\* push_ptt: the flags byte carries what the registered producers hold together,
\* never what a removed producer or an earlier connection held.
THEOREM HeldTogetherHolds == Spec => []HeldTogether
BY PttInductive, PTL DEF PttInv

\* The newest flags byte on its way to the keyer, or the keyer's own state if
\* there is none, is the router's PTT state.
THEOREM PttSyncHolds == Spec => []PttSync
BY PttInductive, PTL DEF PttInv

\* Once everything queued has reached the keyer, a radio is keyed only by a
\* producer that is still registered and holds it.
THEOREM KeyedByHolderHolds == Spec => []KeyedByHolder
<1>1. ASSUME PttInv PROVE KeyedByHolder
  <2> SUFFICES ASSUME conn, pushed = "taken", Drained
               PROVE  keyerPtt = wflag
    BY <1>1 DEF KeyedByHolder, PttInv, HeldTogether
  <2>1. Line = <<>> /\ flags.q = <<>>
    BY <1>1, ConcatEmptySeq DEF PttInv, TypeOK, Drained, Line
  <2> QED BY <1>1, <2>1 DEF PttInv, PttSync, LastIs
<1> QED BY <1>1, PttInductive, PTL

-----------------------------------------------------------------------------
(* Wakeups. *)

\* What is pending that will start the producers of channel c again.
Wakes(c) ==
  \/ wout /\ NeedToWrite(out.q, flags.q, queue)
  \/ lbTimer[c] /\ lbAvail[c] < Full
  \/ cmds > 0
  \/ ~ControlTaken

\* Every producer that could be read and is not watched will be started again.
StoppedWakes ==
  \A p \in list : conn /\ producer_may_read(p) /\ p \notin io => Wakes(ChanOf[p])

\* As long as there is something to write the write watcher is active, unless
\* the command that would have started it found the control buffer full.
WriterRuns == conn /\ NeedToWrite(out.q, flags.q, queue) => wout \/ ~ControlTaken

\* A bucket that is not full refills.
BucketRuns == \A c \in Limited : lbAvail[c] < Full => lbTimer[c]

\* An empty buffer has all its space.
Counts == \A c \in QueueChannel : queue[c].n = 0 => queue[c].size = 0
OutCounts == out.q = <<>> => out.size = 0

WakeFacts == StoppedWakes /\ WriterRuns /\ BucketRuns /\ Counts /\ OutCounts
WakeInv == TypeOK /\ WakeFacts

\* What a stopped producer waits for is kept by a step that stops none and
\* leaves every pending event pending.
LEMMA WakesKept ==
  ASSUME TypeOK, ConstAssumption, StoppedWakes, conn' => conn,
         UNCHANGED <<hold, turn>>,
         \A p \in list' : conn' /\ p \notin io' /\ producer_may_read(p)
                             => p \in list /\ p \notin io,
         \A c \in Channel : Wakes(c) => Wakes(c)'
  PROVE  StoppedWakes'
<1> SUFFICES ASSUME NEW p \in list', conn', producer_may_read(p)', p \notin io'
             PROVE  Wakes(ChanOf[p])'
  BY DEF StoppedWakes
<1>1. producer_may_read(p)
  BY DEF producer_may_read
<1>2. Wakes(ChanOf[p]) /\ ChanOf[p] \in Channel
  BY <1>1 DEF StoppedWakes, TypeOK, ConstAssumption
<1> QED BY <1>2

\* switch_producer_events leaves no producer stopped.
LEMMA SwitchedWakes ==
  ASSUME io' = Switched, UNCHANGED <<list, hold, turn>>
  PROVE  StoppedWakes'
BY DEF Switched, StoppedWakes, producer_may_read

\* When mx_mux finds nothing to mux and buf_out is empty, nothing is queued at
\* all: an empty buf_out has room for a frame.
LEMMA NothingMuxed ==
  ASSUME TypeOK, ConstAssumption, Counts, OutCounts, mx_mux, MuxedOut = <<>>
  PROVE  /\ ~NeedToWrite(out.q, flags.q, queue)
         /\ queue' = queue
<1>1. /\ MuxFrames \in Nat /\ Muxed \in Seq(Frame) /\ Len(Muxed) = MuxFrames
      /\ out.q \in Seq(Frame) /\ out.size \in Nat
  BY MuxType DEF TypeOK, Fifo
<1>2. out.q = <<>> /\ MuxFrames = 0
  <2>1. Len(out.q \o Muxed) = Len(out.q) + Len(Muxed)
    <3> DEFINE o == out.q
               m == Muxed
    <3>1. o \in Seq(Frame) /\ m \in Seq(Frame)
      BY <1>1
    <3> HIDE DEF o, m
    <3>2. Len(o \o m) = Len(o) + Len(m)
      BY <3>1, ConcatProperties, Zenon
    <3> QED BY <3>2 DEF o, m
  <2>2. Len(out.q \o Muxed) = 0
    BY DEF MuxedOut
  <2>3. Len(out.q) = 0 /\ Len(Muxed) = 0
    BY <1>1, <2>1, <2>2
  <2> QED BY <1>1, <2>3, EmptySeq
<1>3. OutCap - out.size > 0
  BY <1>2 DEF OutCounts, ConstAssumption
<1>4. Longest \in Nat /\ Len(flags.q) <= Longest
      /\ \A c \in QueueChannel : queue[c].n <= Longest
  BY LongestType, LongestCounts
<1>5. Longest = 0
  BY <1>1, <1>2, <1>3, <1>4 DEF MuxFrames, ConstAssumption
<1>6. flags.q = <<>>
  BY <1>4, <1>5 DEF TypeOK, Fifo
<1>7. \A c \in QueueChannel : queue[c].n = 0 /\ queue[c].size = 0
  BY <1>4, <1>5 DEF TypeOK, Count, Counts
<1>8. queue' = queue
  <2>1. \A c \in QueueChannel : queue[c] = [n |-> 0, size |-> 0]
    BY <1>7 DEF TypeOK, Count
  <2>2. \A c \in QueueChannel :
          RestCount(IF queue[c].n < MuxFrames THEN 0 ELSE queue[c].n - MuxFrames,
                    queue[c].size) = [n |-> 0, size |-> 0]
    BY <1>2, <1>7 DEF RestCount
  <2>3. queue' = [c \in QueueChannel |-> [n |-> 0, size |-> 0]]
    BY <2>2 DEF mx_mux
  <2> QED BY <2>1, <2>3 DEF TypeOK
<1> QED BY <1>2, <1>6, <1>7, <1>8 DEF NeedToWrite

\* mx_mux resets the channel buffers it empties.
LEMMA MuxCounts ==
  ASSUME mx_mux
  PROVE  Counts'
<1> DEFINE left(c) == IF queue[c].n < MuxFrames THEN 0 ELSE queue[c].n - MuxFrames
<1>1. \A c \in QueueChannel : queue'[c] = RestCount(left(c), queue[c].size)
  BY DEF mx_mux
<1>2. \A l, s : RestCount(l, s).n = 0 => RestCount(l, s).size = 0
  BY DEF RestCount
<1> HIDE DEF left
<1> SUFFICES ASSUME NEW c \in QueueChannel, queue'[c].n = 0
             PROVE  queue'[c].size = 0
  BY DEF Counts
<1>3. queue'[c] = RestCount(left(c), queue[c].size)
  BY <1>1
<1> QED BY <1>2, <1>3

LEMMA KeyerWriteWakes ==
  ASSUME WakeInv, ConstAssumption, NEW n \in 0..WireCap, KeyerWrite(n)
  PROVE  WakeFacts'
<1> USE DEF WakeInv, WakeFacts
<1>1. /\ conn /\ wout /\ mx_mux
      /\ UNCHANGED <<conn, list, hold, turn, cmds, lbAvail, lbTimer>>
      /\ wout' = NeedToWrite(out'.q, flags'.q, queue')
      /\ io' = IF MuxedOut # <<>> THEN Switched ELSE io
  BY DEF KeyerWrite, lbVars, ctlVars
<1>2. WriterRuns' /\ BucketRuns' /\ Counts'
  BY <1>1, MuxCounts DEF WriterRuns, BucketRuns
<1>3. OutCounts'
  BY DEF KeyerWrite, Rest, OutCounts
<1>4. CASE MuxedOut # <<>>
  BY <1>1, <1>2, <1>3, <1>4, SwitchedWakes
<1>5. CASE MuxedOut = <<>>
  <2>1. ~NeedToWrite(out.q, flags.q, queue) /\ queue' = queue
    BY <1>1, <1>5, NothingMuxed
  <2>2. \A c \in Channel : Wakes(c) => Wakes(c)'
    BY <1>1, <2>1 DEF Wakes, ControlTaken, buf_size_avail
  <2>3. \A p \in list' : p \notin io' => p \in list /\ p \notin io
    BY <1>1, <1>5
  <2>4. StoppedWakes'
    BY <1>1, <2>2, <2>3, WakesKept
  <2> QED BY <1>2, <1>3, <2>4
<1> QED BY <1>4, <1>5

\* A disconnect stops every producer on purpose; only the buffers' counters
\* have to survive it.
LEMMA DisconnectedWakes ==
  ASSUME WakeInv, Disconnected, Counts', OutCounts'
  PROVE  WakeFacts'
<1>1. ~conn' /\ UNCHANGED <<lbAvail, lbTimer>>
  BY DEF Disconnected, lbVars
<1> QED BY <1>1 DEF WakeInv, WakeFacts, StoppedWakes, WriterRuns, BucketRuns

\* A command handed to the router causes a write, or the control buffer is full.
LEMMA SendControlWakes ==
  ASSUME TypeOK, ConstAssumption, Counts, SendControl, UNCHANGED <<flags, out>>
  PROVE  /\ Counts'
         /\ \/ wout' /\ NeedToWrite(out'.q, flags'.q, queue')
            \/ ~ControlTaken'
<1>1. "CONTROL" \in QueueChannel /\ queue \in [QueueChannel -> Count]
  BY DEF QueueChannel, TypeOK
<1>2. CASE ControlTaken
  <2>1. wout' /\ queue' = [queue EXCEPT !["CONTROL"] = AddCount(queue["CONTROL"], 1)]
    BY <1>2 DEF SendControl
  <2>2. queue["CONTROL"].n \in Nat
    BY <1>1 DEF Count
  <2>3. queue'["CONTROL"].n > 0
    BY <1>1, <2>1, <2>2 DEF AddCount
  <2>4. \A c \in QueueChannel : c # "CONTROL" => queue'[c] = queue[c]
    BY <1>1, <2>1
  <2>5. Counts'
    BY <2>3, <2>4 DEF Counts
  <2> QED BY <1>1, <2>1, <2>3, <2>5 DEF NeedToWrite
<1>3. CASE ~ControlTaken
  BY <1>3 DEF SendControl, Counts, ControlTaken
<1> QED BY <1>2, <1>3

LEMMA KeyerNextWakes ==
  ASSUME WakeInv, ConstAssumption, KeyerNext
  PROVE  WakeFacts'
<1> USE DEF WakeInv, WakeFacts
<1>1. CASE KeyerConnect
  <2>1. /\ SendControl /\ io' = Switched
        /\ UNCHANGED <<list, hold, turn, flags, out, lbAvail, lbTimer>>
    BY <1>1 DEF KeyerConnect, lbVars, ctlVars
  <2>2. Counts' /\ WriterRuns'
    BY <2>1, SendControlWakes DEF WriterRuns
  <2> QED BY <2>1, <2>2, SwitchedWakes DEF BucketRuns, OutCounts
<1>2. CASE KeyerDisconnect
  BY <1>2, DisconnectedWakes DEF KeyerDisconnect, Counts, OutCounts
<1>3. CASE \E n \in 0..WireCap : KeyerWrite(n)
  BY <1>3, KeyerWriteWakes
<1>4. CASE KeyerWouldBlock
  <2>1. /\ wout' /\ mx_mux /\ out'.q # <<>>
        /\ UNCHANGED <<lbAvail, lbTimer>>
    BY <1>4 DEF KeyerWouldBlock, lbVars
  <2> QED BY <2>1, MuxCounts DEF StoppedWakes, Wakes, NeedToWrite, WriterRuns,
             BucketRuns, OutCounts
<1>5. CASE KeyerWriteError
  BY <1>5, MuxCounts, DisconnectedWakes DEF KeyerWriteError, OutCounts
<1>6. CASE KeyerReceive
  <2>1. UNCHANGED <<conn, list, io, hold, turn, wout, out, flags, queue, lbAvail,
                    lbTimer, cmds>>
    BY <1>6 DEF KeyerReceive, prodVars, bufVars, lbVars, ctlVars
  <2> QED BY <2>1 DEF StoppedWakes, Wakes, producer_may_read, ControlTaken,
             WriterRuns, BucketRuns, Counts, OutCounts
<1>7. CASE PushCmd
  <2>1. SendControl /\ UNCHANGED <<flags, out, lbAvail, lbTimer>>
    BY <1>7 DEF PushCmd, lbVars
  <2>2. Counts' /\ ((wout' /\ NeedToWrite(out'.q, flags'.q, queue')) \/ ~ControlTaken')
    BY <2>1, SendControlWakes
  <2> QED BY <2>1, <2>2 DEF StoppedWakes, Wakes, WriterRuns, BucketRuns, OutCounts
<1> QED BY <1>1, <1>2, <1>3, <1>4, <1>5, <1>6, <1>7 DEF KeyerNext

LEMMA ControlNextWakes ==
  ASSUME WakeInv, ConstAssumption, ControlNext
  PROVE  WakeFacts'
<1> USE DEF WakeInv, WakeFacts
<1>1. UNCHANGED <<conn, list, wout, out, flags, queue>>
  BY DEF ControlNext, lb_cb, mhr_set_bps_limit, SetFocus, mhr_hold_producers,
         mhr_set_producer_turn, connVars, prodVars, bufVars
<1>2. WriterRuns' /\ Counts' /\ OutCounts'
  BY <1>1 DEF WriterRuns, Counts, OutCounts, ControlTaken
<1>3. ASSUME NEW c \in Limited, lb_cb(c) PROVE StoppedWakes' /\ BucketRuns'
  <2>1. UNCHANGED <<hold, turn, cmds>> /\ lbTimer[c]
        /\ c \in Channel /\ lbAvail \in [Channel -> 0..Full]
        /\ lbTimer \in [Channel -> BOOLEAN]
    BY <1>3 DEF lb_cb, ctlVars, TypeOK, ConstAssumption
  <2>2. CASE lbAvail[c] = Full
    <3>1. lbTimer' = [lbTimer EXCEPT ![c] = FALSE] /\ UNCHANGED <<lbAvail, io>>
      BY <1>3, <2>2 DEF lb_cb
    <3>2. \A d \in Channel : lbAvail[d] < Full /\ lbTimer[d] => lbTimer'[d]
      BY <2>1, <2>2, <3>1 DEF Full, ConstAssumption
    <3>3. \A d \in Channel : Wakes(d) => Wakes(d)'
      BY <1>1, <2>1, <3>1, <3>2 DEF Wakes, ControlTaken
    <3>4. StoppedWakes'
      BY <1>1, <2>1, <3>1, <3>3, WakesKept
    <3> QED BY <3>1, <3>2, <3>4 DEF BucketRuns, ConstAssumption
  <2>3. CASE lbAvail[c] # Full
    <3>1. /\ lbAvail' = [lbAvail EXCEPT ![c] = Refill(lbAvail[c])]
          /\ lbTimer' = lbTimer
          /\ io' = io \cup {p \in list : ChanOf[p] = c /\ producer_may_read(p)}
      BY <1>3, <2>3 DEF lb_cb
    <3>2. \A d \in Channel : d # c => lbAvail'[d] = lbAvail[d]
      BY <2>1, <3>1
    <3>3. \A d \in Channel : d # c /\ Wakes(d) => Wakes(d)'
      BY <1>1, <2>1, <3>1, <3>2 DEF Wakes, ControlTaken
    <3>4. StoppedWakes'
      <4> SUFFICES ASSUME NEW p \in list, conn, producer_may_read(p)', p \notin io'
                   PROVE  Wakes(ChanOf[p])'
        BY <1>1 DEF StoppedWakes
      <4>1. producer_may_read(p)
        BY <2>1 DEF producer_may_read
      <4>2. p \notin io /\ ChanOf[p] # c /\ ChanOf[p] \in Channel
        BY <3>1, <4>1 DEF TypeOK, ConstAssumption
      <4> QED BY <3>3, <4>1, <4>2 DEF StoppedWakes
    <3>5. BucketRuns'
      BY <2>1, <3>1, <3>2 DEF BucketRuns, ConstAssumption
    <3> QED BY <3>4, <3>5
  <2> QED BY <2>2, <2>3
<1>4. ASSUME NEW c \in Limited, mhr_set_bps_limit(c) PROVE StoppedWakes' /\ BucketRuns'
  <2>1. cmds' > 0
    BY <1>4 DEF mhr_set_bps_limit, TypeOK
  <2>2. StoppedWakes'
    BY <2>1 DEF StoppedWakes, Wakes
  <2>3. /\ lbAvail' = [lbAvail EXCEPT ![c] = Full]
        /\ lbTimer' = [lbTimer EXCEPT ![c] = TRUE]
        /\ c \in Channel /\ Limited \subseteq Channel
        /\ lbAvail \in [Channel -> 0..Full] /\ lbTimer \in [Channel -> BOOLEAN]
    BY <1>4 DEF mhr_set_bps_limit, TypeOK, ConstAssumption
  <2>4. \A d \in Channel : /\ d # c => lbAvail'[d] = lbAvail[d] /\ lbTimer'[d] = lbTimer[d]
                           /\ lbTimer'[c]
    BY <2>3
  <2> QED BY <2>2, <2>3, <2>4 DEF BucketRuns
<1>5. ASSUME NEW f \in Foci, SetFocus(f) PROVE StoppedWakes' /\ BucketRuns'
  <2>1. UNCHANGED <<io, hold, turn, lbAvail, lbTimer, cmds>>
    BY <1>5 DEF SetFocus, prodVars, lbVars
  <2> QED BY <1>1, <2>1 DEF StoppedWakes, Wakes, producer_may_read, ControlTaken,
             BucketRuns
<1>6. ASSUME NEW c \in CatChannel, NEW h \in BOOLEAN, NEW t \in Producer \cup {NoProducer},
             \/ mhr_hold_producers(c, h) /\ t = turn[c]
             \/ mhr_set_producer_turn(c, t) /\ h = hold[c]
      PROVE  StoppedWakes' /\ BucketRuns'
  <2>1. /\ update_producers(c, h, t) /\ UNCHANGED <<lbAvail, lbTimer, cmds>>
        /\ c \in Channel /\ hold \in [Channel -> BOOLEAN]
        /\ turn \in [Channel -> Producer \cup {NoProducer}]
    BY <1>6 DEF mhr_hold_producers, mhr_set_producer_turn, lbVars, TypeOK,
                ConstAssumption, Channel
  <2>2. /\ hold'[c] = h /\ turn'[c] = t
        /\ \A d \in Channel : d # c => hold'[d] = hold[d] /\ turn'[d] = turn[d]
    BY <1>6, <2>1 DEF mhr_hold_producers, mhr_set_producer_turn
  <2>3. BucketRuns'
    BY <2>1 DEF BucketRuns
  <2>4. ASSUME NEW p \in list, conn, producer_may_read(p)', p \notin io'
        PROVE  Wakes(ChanOf[p])'
    <3>1. ChanOf[p] \in Channel
      BY DEF TypeOK, ConstAssumption
    <3>2. CASE ChanOf[p] = c
      BY <1>1, <2>1, <2>2, <2>4, <3>2 DEF update_producers, producer_may_read
    <3>3. CASE ChanOf[p] # c
      <4>1. p \notin io
        BY <2>1, <2>4, <3>3 DEF update_producers
      <4>2. producer_may_read(p)
        BY <2>2, <2>4, <3>1, <3>3 DEF producer_may_read
      <4>3. Wakes(ChanOf[p])
        BY <2>4, <4>1, <4>2 DEF StoppedWakes
      <4> QED BY <1>1, <2>1, <4>3 DEF Wakes, ControlTaken
    <3> QED BY <3>2, <3>3
  <2>5. StoppedWakes'
    BY <1>1, <2>4 DEF StoppedWakes
  <2> QED BY <2>3, <2>5
<1>7. ASSUME NEW c \in CatChannel, NEW h \in BOOLEAN, mhr_hold_producers(c, h)
      PROVE  StoppedWakes' /\ BucketRuns'
  <2>1. turn[c] \in Producer \cup {NoProducer}
    BY DEF TypeOK, ConstAssumption, Channel
  <2> QED BY <1>6, <1>7, <2>1
<1>8. ASSUME NEW c \in CatChannel, NEW t \in Producer \cup {NoProducer},
             mhr_set_producer_turn(c, t)
      PROVE  StoppedWakes' /\ BucketRuns'
  <2>1. hold[c] \in BOOLEAN
    BY DEF TypeOK, ConstAssumption, Channel
  <2> QED BY <1>6, <1>8, <2>1
<1>9. StoppedWakes' /\ BucketRuns'
  BY <1>3, <1>4, <1>5, <1>7, <1>8 DEF ControlNext
<1> QED BY <1>2, <1>9

\* Removing a producer disturbs nobody else; the flags byte it may leave behind
\* is written.
LEMMA RemovedWakes ==
  ASSUME WakeInv, ConstAssumption, NEW p \in Producer, Removed(p)
  PROVE  WakeFacts'
<1> USE DEF WakeInv, WakeFacts
<1>1. /\ list' = list \ {p} /\ io' = io \ {p}
      /\ UNCHANGED <<conn, hold, turn, cmds, queue, out, lbAvail, lbTimer>>
  BY DEF Removed, connVars, lbVars, ctlVars
<1>2. \/ flags' = flags /\ wout' = wout
      \/ conn /\ wout' /\ (flags.q # <<>> => flags'.q # <<>>)
  <2>1. CASE mask[p] = {}
    BY <2>1 DEF Removed
  <2>2. CASE mask[p] # {}
    <3>1. push_ptt(list', mask) /\ wout' = (wout \/ (conn /\ FlagsTaken))
      BY <2>2 DEF Removed
    <3>2. CASE conn /\ FlagsTaken
      <4>1. flags' = buf_append(flags, UNION {mask[q] : q \in list'})
        BY <3>1, <3>2 DEF push_ptt
      <4>2. flags'.q # <<>>
        <5> DEFINE held == UNION {mask[q] : q \in list'}
        <5>1. list' \in SUBSET Producer /\ mask \in [Producer -> SUBSET Radio]
          BY <1>1 DEF TypeOK
        <5>2. held \in SUBSET Radio /\ flags.q \in Seq(SUBSET Radio)
          BY <3>1, <5>1, PushType DEF push_ptt, TypeOK, Fifo
        <5>3. flags'.q = Append(flags.q, held)
          BY <4>1 DEF buf_append
        <5> HIDE DEF held
        <5> QED BY <5>2, <5>3, AppendProperties
      <4> QED BY <3>1, <3>2, <4>2
    <3>3. CASE ~(conn /\ FlagsTaken)
      BY <3>1, <3>3 DEF push_ptt, TypeOK
    <3> QED BY <3>2, <3>3
  <2> QED BY <2>1, <2>2
<1>3. WriterRuns' /\ BucketRuns' /\ Counts' /\ OutCounts'
  BY <1>1, <1>2 DEF WriterRuns, BucketRuns, Counts, OutCounts, ControlTaken
<1>4. \A c \in Channel : Wakes(c) => Wakes(c)'
  BY <1>1, <1>2 DEF Wakes, NeedToWrite, ControlTaken
<1>5. \A q \in list' : q \notin io' => q \in list /\ q \notin io
  BY <1>1
<1>6. StoppedWakes'
  BY <1>1, <1>4, <1>5, WakesKept
<1> QED BY <1>3, <1>6

\* producer_cb stops a watcher only when a full channel buffer is being drained
\* or an empty bucket is being refilled.
LEMMA StopWakes ==
  ASSUME WakeInv, ConstAssumption, NEW p \in Producer, conn, Avail(ChanOf[p]) = 0
  PROVE  Wakes(ChanOf[p])
<1> USE DEF WakeInv, WakeFacts
<1> DEFINE c == ChanOf[p]
<1>1. c \in Channel /\ BufCap \in Nat \ {0} /\ Full \in Nat \ {0}
      /\ lbAvail[c] \in 0..Full
  BY DEF ConstAssumption, TypeOK, Full
<1>2. CASE c \in Limited /\ lbAvail[c] = 0
  BY <1>1, <1>2 DEF BucketRuns, Wakes
<1>3. CASE c \in DataChannel /\ buf_size_avail(queue[c]) = 0
  <2>1. c \in QueueChannel /\ queue[c] \in Count
    BY <1>3 DEF QueueChannel, TypeOK
  <2>2. queue[c].size # 0 /\ queue[c].n \in Nat
    BY <1>1, <1>3, <2>1 DEF buf_size_avail, Count
  <2>3. queue[c].n > 0
    BY <2>1, <2>2 DEF Counts
  <2>4. NeedToWrite(out.q, flags.q, queue)
    BY <2>1, <2>3 DEF NeedToWrite
  <2> QED BY <2>4 DEF WriterRuns, Wakes
<1>4. \/ c \in Limited /\ lbAvail[c] = 0
      \/ c \in DataChannel /\ buf_size_avail(queue[c]) = 0
  BY <1>1 DEF Avail
<1> QED BY <1>2, <1>3, <1>4

LEMMA ProducerReadWakes ==
  ASSUME WakeInv, ConstAssumption, NEW p \in Producer, ProducerRead(p)
  PROVE  WakeFacts'
<1> USE DEF WakeInv, WakeFacts
<1> DEFINE c == ChanOf[p]
           r == IF Len(sock[p]) < Avail(c) THEN Len(sock[p]) ELSE Avail(c)
<1>1. c \in Channel /\ Len(sock[p]) \in Nat
  BY DEF TypeOK, ConstAssumption
<1>2. Avail(c) \in Int
  BY <1>1, SMTT(30) DEF Avail, TypeOK, ConstAssumption, buf_size_avail, Count, Full,
              QueueChannel, Channel
<1>3. r \in Nat /\ r > 0
  BY <1>1, <1>2 DEF ProducerRead
<1>4. /\ wout' /\ LeakyBucket(c, r)
      /\ UNCHANGED <<conn, list, io, out, hold, turn, cmds>>
      /\ \/ c \in PttChannel /\ queue' = queue
            /\ process_ptt_producer(p, SubSeq(sock[p], 1, r))
         \/ /\ c \notin PttChannel /\ flags' = flags
            /\ queue' = [queue EXCEPT ![c] = AddCount(queue[c], r)]
  BY DEF ProducerRead, connVars, ctlVars
<1> HIDE DEF r
<1>5. /\ Counts' /\ (ControlTaken' => ControlTaken)
      /\ \A d \in QueueChannel : queue[d].n > 0 => queue'[d].n > 0
  <2>1. CASE queue' = queue
    BY <2>1 DEF Counts, ControlTaken
  <2>2. CASE c \notin PttChannel /\ queue' = [queue EXCEPT ![c] = AddCount(queue[c], r)]
    <3>1. c \in QueueChannel /\ c # "CONTROL" /\ queue \in [QueueChannel -> Count]
          /\ "CONTROL" \in QueueChannel
      BY <1>1, <2>2 DEF Channel, QueueChannel, DataChannel, TypeOK
    <3>2. queue'[c].n = queue[c].n + r /\ queue[c].n \in Nat
      BY <2>2, <3>1 DEF AddCount, Count
    <3>3. \A d \in QueueChannel : d # c => queue'[d] = queue[d]
      BY <2>2, <3>1
    <3> QED BY <1>3, <3>1, <3>2, <3>3 DEF Counts, ControlTaken
  <2> QED BY <1>4, <2>1, <2>2
<1>6. flags.q # <<>> => flags'.q # <<>>
  <2>1. CASE flags' = flags
    BY <2>1
  <2>2. ASSUME NEW s, ValidAt(s) # {}, process_ptt_producer(p, s)
        PROVE  flags.q # <<>> => flags'.q # <<>>
    <3>1. /\ mask' = [mask EXCEPT ![p] = MaskAfter(p, s)]
          /\ push_ptt(list, mask')
      BY <2>2 DEF process_ptt_producer
    <3>2. mask' \in [Producer -> SUBSET Radio] /\ list \in SUBSET Producer
      BY <3>1, MaskAfterType DEF TypeOK
    <3> DEFINE held == UNION {mask'[q] : q \in list}
    <3>3. held \in SUBSET Radio /\ flags.q \in Seq(SUBSET Radio)
      BY <3>1, <3>2, PushType DEF push_ptt, TypeOK, Fifo
    <3>4. flags' = flags \/ flags'.q = Append(flags.q, held)
      BY <3>1 DEF push_ptt, buf_append
    <3> HIDE DEF held
    <3> QED BY <3>3, <3>4, AppendProperties
  <2> QED BY <1>4, <2>1, <2>2 DEF process_ptt_producer
<1>7. /\ \A d \in Limited : lbAvail'[d] < Full => lbTimer'[d]
      /\ \A d \in Channel : lbTimer[d] /\ lbAvail[d] < Full
                               => lbTimer'[d] /\ lbAvail'[d] < Full
  <2>1. /\ lbAvail \in [Channel -> 0..Full] /\ lbTimer \in [Channel -> BOOLEAN]
        /\ Full \in Nat /\ Limited \subseteq Channel
    BY DEF TypeOK, ConstAssumption, Full
  <2>2. CASE c \in Limited
    <3>1. /\ lbTimer' = [lbTimer EXCEPT ![c] = TRUE]
          /\ lbAvail' = [lbAvail EXCEPT ![c] = lbAvail[c] - r]
      BY <1>4, <2>2 DEF LeakyBucket
    <3>2. lbTimer'[c] /\ lbAvail'[c] = lbAvail[c] - r /\ lbAvail[c] \in 0..Full
      BY <1>1, <2>1, <3>1
    <3>3. \A d \in Channel : d # c => lbTimer'[d] = lbTimer[d] /\ lbAvail'[d] = lbAvail[d]
      BY <2>1, <3>1
    <3>4. lbAvail'[c] < Full
      BY <1>3, <2>1, <3>2
    <3> QED BY <2>1, <3>2, <3>3, <3>4 DEF BucketRuns
  <2>3. CASE c \notin Limited
    BY <1>4, <2>3 DEF LeakyBucket, lbVars, BucketRuns
  <2> QED BY <2>2, <2>3
<1>8. WriterRuns' /\ BucketRuns' /\ OutCounts'
  BY <1>4, <1>7 DEF WriterRuns, BucketRuns, OutCounts
<1>9. \A d \in Channel : Wakes(d) => Wakes(d)'
  <2>1. NeedToWrite(out.q, flags.q, queue) => NeedToWrite(out'.q, flags'.q, queue')
    BY <1>4, <1>5, <1>6 DEF NeedToWrite
  <2> QED BY <1>4, <1>5, <1>7, <2>1 DEF Wakes
<1>10. StoppedWakes'
  BY <1>4, <1>9, WakesKept
<1> QED BY <1>5, <1>8, <1>10

LEMMA ProducerNextWakes ==
  ASSUME WakeInv, ConstAssumption, NEW p \in Producer, ProducerNext(p)
  PROVE  WakeFacts'
<1> USE DEF WakeInv, WakeFacts
<1>1. CASE RemProducer(p) \/ ProducerEof(p)
  BY <1>1, RemovedWakes DEF RemProducer, ProducerEof
<1>2. CASE ProducerRead(p)
  BY <1>2, ProducerReadWakes
<1>3. CASE AddProducer(p) \/ ProducerStop(p) \/ ProducerDiscard(p) \/ PeerClose(p)
           \/ \E x \in ItemOf(p) : PeerWrite(p, x)
  <2>1. UNCHANGED <<conn, hold, turn, cmds, wout, flags, queue, out, lbAvail, lbTimer>>
    BY <1>3 DEF AddProducer, ProducerStop, ProducerDiscard, PeerClose, PeerWrite,
                connVars, bufVars, lbVars, ctlVars
  <2>2. WriterRuns' /\ BucketRuns' /\ Counts' /\ OutCounts'
    BY <2>1 DEF WriterRuns, BucketRuns, Counts, OutCounts, ControlTaken
  <2>3. \A q \in Producer : Wakes(ChanOf[q])' <=> Wakes(ChanOf[q])
    BY <2>1 DEF Wakes, ControlTaken
  <2>4. \A q \in Producer : producer_may_read(q)' <=> producer_may_read(q)
    BY <2>1 DEF producer_may_read
  <2>5. StoppedWakes'
    <3> SUFFICES ASSUME NEW q \in list', conn, producer_may_read(q), q \notin io',
                        q \in Producer
                 PROVE  Wakes(ChanOf[q])
      <4>1. list' \subseteq Producer
        BY <1>3 DEF TypeOK, AddProducer, ProducerStop, ProducerDiscard, PeerClose, PeerWrite
      <4> QED BY <2>1, <2>3, <2>4, <4>1 DEF StoppedWakes
    <3>1. CASE q \in list /\ q \notin io
      BY <3>1 DEF StoppedWakes
    <3>2. CASE AddProducer(p)
      <4>1. q # p => q \in list /\ q \notin io
        BY <3>2 DEF AddProducer
      <4> QED BY <3>1, <3>2, <4>1 DEF AddProducer
    <3>3. CASE ProducerStop(p)
      <4>1. list' = list /\ io' = io \ {p}
        BY <3>3 DEF ProducerStop
      <4>2. CASE q = p
        BY <3>3, <4>2, StopWakes DEF ProducerStop
      <4> QED BY <3>1, <4>1, <4>2
    <3>4. CASE ProducerDiscard(p) \/ PeerClose(p) \/ \E x \in ItemOf(p) : PeerWrite(p, x)
      <4>1. list' = list /\ io' = io
        BY <3>4 DEF ProducerDiscard, PeerClose, PeerWrite
      <4> QED BY <3>1, <4>1
    <3> QED BY <1>3, <3>2, <3>3, <3>4
  <2> QED BY <2>2, <2>5
<1> QED BY <1>1, <1>2, <1>3 DEF ProducerNext, ProducerCb

\* The inductive invariant: every producer that is stopped without being held
\* has an event pending, the writer and the buckets run as long as they are
\* needed, and an empty buffer is an empty buffer.
THEOREM WakeInductive == Spec => []WakeInv
<1>1. ASSUME Init PROVE WakeFacts
  <2>1. \A c \in Limited : lbTimer[c]
    BY <1>1, ConstAssumption DEF Init, ConstAssumption
  <2>2. StoppedWakes /\ WriterRuns
    BY <1>1 DEF Init, StoppedWakes, WriterRuns
  <2>3. Counts /\ OutCounts
    BY <1>1 DEF Init, Counts, OutCounts, EmptyCount, EmptyFifo
  <2> QED BY <2>1, <2>2, <2>3 DEF WakeFacts, BucketRuns
<1>2. ASSUME WakeInv, [Next]_vars PROVE WakeFacts'
  <2>1. CASE UNCHANGED vars
    <3>1. UNCHANGED <<conn, list, io, hold, turn, cmds, wout, flags, queue, out,
                      lbAvail, lbTimer>>
      BY <2>1 DEF vars, connVars, prodVars, bufVars, lbVars, ctlVars
    <3> QED BY <1>2, <3>1 DEF WakeInv, WakeFacts, StoppedWakes, Wakes,
               producer_may_read, ControlTaken, WriterRuns, BucketRuns, Counts, OutCounts
  <2> QED BY <1>2, <2>1, ConstAssumption, KeyerNextWakes, ControlNextWakes,
             ProducerNextWakes DEF Next
<1>3. Spec => []TypeOK
  BY TypeCorrect
<1> QED BY <1>1, <1>2, <1>3, PTL DEF Spec, WakeInv

\* A producer that stopped reading is never forgotten: a write to the keyer, the
\* refill of its bucket or a command is pending that starts it again, unless the
\* control buffer is exhausted.
THEOREM NoWakeupIsLost == Spec => []NoLostWakeup
<1>1. ASSUME WakeInv PROVE NoLostWakeup
  <2>1. StoppedWakes
    BY <1>1 DEF WakeInv, WakeFacts
  <2> QED BY <2>1 DEF NoLostWakeup, Stopped, StoppedWakes, Wakes
<1> QED BY <1>1, WakeInductive, PTL
=============================================================================
