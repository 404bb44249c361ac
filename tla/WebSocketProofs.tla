--------------------------- MODULE WebSocketProofs ---------------------------
(* Proofs about WebSocket for any number of connections and any limits.       *)
EXTENDS WebSocket, Integers, SequenceTheorems, WellFoundedInduction, TLAPS

-----------------------------------------------------------------------------
(* Frames in a sequence of items.                                            *)

\* After n (a payload is due) and the items s a payload is due.
Ends(n, s) == IF s = <<>> THEN n ELSE s[Len(s)].p = "hdr"

\* A payload comes when one is due after n, and only then. Left out: the close
\* frame of queue_response_data().
Framed(n, s) ==
  \A k \in 1..Len(s) :
     \/ s[k].f = "1013"
     \/ s[k].p = "pay" <=> (IF k = 1 THEN n ELSE s[k - 1].p = "hdr")

LEMMA FramedEmpty == ASSUME NEW n PROVE Framed(n, <<>>)
BY DEF Framed

LEMMA FramedAppend ==
  ASSUME NEW n \in BOOLEAN, NEW s \in Seq(Item), NEW i \in Item, Framed(n, s),
         i.f = "1013" \/ (i.p = "pay" <=> Ends(n, s))
  PROVE  /\ Append(s, i) \in Seq(Item)
         /\ Framed(n, Append(s, i))
         /\ Ends(n, Append(s, i)) <=> i.p = "hdr"
<1> HIDE DEF Item
<1>1. /\ Append(s, i) \in Seq(Item) /\ Append(s, i) # <<>>
      /\ Len(s) \in Nat /\ Len(Append(s, i)) = Len(s) + 1
      /\ \A k \in 1..Len(s) : Append(s, i)[k] = s[k]
      /\ Append(s, i)[Len(s) + 1] = i
  BY AppendProperties, LenProperties
<1> DEFINE t == Append(s, i)
<1>2. t # <<>> /\ Len(t) = Len(s) + 1 /\ t[Len(s) + 1] = i
      /\ \A k \in 1..Len(s) : t[k] = s[k]
  BY <1>1
<1> HIDE DEF t
<1>3. Ends(n, t) <=> i.p = "hdr"
  BY <1>2 DEF Ends
<1>4. Framed(n, t)
  <2> SUFFICES ASSUME NEW k \in 1..(Len(s) + 1)
               PROVE  \/ t[k].f = "1013"
                      \/ t[k].p = "pay" <=> (IF k = 1 THEN n ELSE t[k - 1].p = "hdr")
    BY <1>2 DEF Framed
  <2>1. CASE k # Len(s) + 1
    <3>1. k \in 1..Len(s) /\ t[k] = s[k] /\ (k # 1 => t[k - 1] = s[k - 1])
      BY <1>1, <1>2, <2>1
    <3> QED BY <3>1 DEF Framed
  <2>2. CASE k = Len(s) + 1
    <3>1. t[k] = i
      BY <1>2, <2>2
    <3>2. Ends(n, s) <=> (IF k = 1 THEN n ELSE t[k - 1].p = "hdr")
      <4>1. CASE s = <<>>
        BY <2>2, <4>1 DEF Ends
      <4>2. CASE s # <<>>
        <5>1. Len(s) \in 1..Len(s) /\ k # 1 /\ k - 1 = Len(s)
          BY <1>1, <2>2, <4>2, EmptySeq
        <5> QED BY <1>2, <4>2, <5>1 DEF Ends
      <4> QED BY <4>1, <4>2
    <3> QED BY <3>1, <3>2
  <2> QED BY <2>1, <2>2
<1> QED BY <1>1, <1>3, <1>4 DEF t

\* The client reads the first item.
LEMMA FramedTail ==
  ASSUME NEW n \in BOOLEAN, NEW s \in Seq(Item), s # <<>>, Framed(n, s)
  PROVE  /\ Head(s) \in Item /\ Tail(s) \in Seq(Item)
         /\ Framed(Head(s).p = "hdr", Tail(s))
         /\ Ends(Head(s).p = "hdr", Tail(s)) <=> Ends(n, s)
         /\ Head(s).f = "1013" \/ (Head(s).p = "pay" <=> n)
<1> HIDE DEF Item
<1>1. /\ Len(s) \in Nat \ {0} /\ Head(s) = s[1] /\ Head(s) \in Item
      /\ Tail(s) \in Seq(Item) /\ Len(Tail(s)) = Len(s) - 1
      /\ \A k \in 1..Len(Tail(s)) : Tail(s)[k] = s[k + 1]
  BY HeadTailProperties, EmptySeq
<1> DEFINE t == Tail(s)
<1>2. t \in Seq(Item) /\ Len(t) = Len(s) - 1 /\ \A k \in 1..Len(t) : t[k] = s[k + 1]
  BY <1>1
<1> HIDE DEF t
<1>3. Head(s).f = "1013" \/ (Head(s).p = "pay" <=> n)
  BY <1>1 DEF Framed
<1>4. Framed(Head(s).p = "hdr", t)
  <2> SUFFICES ASSUME NEW k \in 1..Len(t)
               PROVE  \/ t[k].f = "1013"
                      \/ t[k].p = "pay"
                           <=> (IF k = 1 THEN Head(s).p = "hdr" ELSE t[k - 1].p = "hdr")
    BY DEF Framed
  <2>1. k + 1 \in 1..Len(s) /\ t[k] = s[k + 1] /\ k + 1 # 1 /\ (k + 1) - 1 = k
    BY <1>1, <1>2
  <2>2. s[k + 1].f = "1013" \/ (s[k + 1].p = "pay" <=> s[k].p = "hdr")
    BY <2>1 DEF Framed
  <2>3. CASE k = 1
    BY <1>1, <2>1, <2>2, <2>3
  <2>4. CASE k # 1
    <3>1. t[k - 1] = s[k]
      BY <1>1, <1>2, <2>4
    <3> QED BY <2>1, <2>2, <2>4, <3>1
  <2> QED BY <2>3, <2>4
<1>5. Ends(Head(s).p = "hdr", t) <=> Ends(n, s)
  <2>1. CASE Len(s) = 1
    <3>1. t = <<>>
      BY <1>2, <2>1, EmptySeq
    <3> QED BY <1>1, <2>1, <3>1 DEF Ends
  <2>2. CASE Len(s) # 1
    <3>1. t # <<>> /\ t[Len(t)] = s[Len(s)]
      <4>1. Len(t) \in 1..Len(t)
        BY <1>1, <1>2, <2>2
      <4> QED BY <1>1, <1>2, <4>1
    <3> QED BY <3>1 DEF Ends
  <2> QED BY <2>1, <2>2
<1> QED BY <1>1, <1>3, <1>4, <1>5 DEF t

\* hcon_out_cb() moves k items of the list l behind the items s.
LEMMA FramedMove ==
  ASSUME NEW n \in BOOLEAN, NEW s \in Seq(Item), NEW l \in Seq(Item),
         NEW k \in 0..Len(l), Framed(n, s), Framed(Ends(n, s), l)
  PROVE  /\ s \o SubSeq(l, 1, k) \in Seq(Item)
         /\ SubSeq(l, k + 1, Len(l)) \in Seq(Item)
         /\ Framed(n, s \o SubSeq(l, 1, k))
         /\ Framed(Ends(n, s \o SubSeq(l, 1, k)), SubSeq(l, k + 1, Len(l)))
         /\ Ends(Ends(n, s \o SubSeq(l, 1, k)), SubSeq(l, k + 1, Len(l)))
              <=> Ends(Ends(n, s), l)
<1> HIDE DEF Item
<1> DEFINE a == SubSeq(l, 1, k)
           b == SubSeq(l, k + 1, Len(l))
           t == s \o a
<1>1. Len(l) \in Nat /\ Len(s) \in Nat /\ k \in Nat /\ k <= Len(l)
  BY LenProperties
<1>2. a \in Seq(Item) /\ Len(a) = k /\ \A j \in 1..k : a[j] = l[j]
  BY <1>1
<1>3. b \in Seq(Item) /\ Len(b) = Len(l) - k /\ \A j \in 1..(Len(l) - k) : b[j] = l[k + j]
  BY <1>1
<1> HIDE DEF a, b
<1>4. t \in Seq(Item) /\ Len(t) = Len(s) + k
      /\ \A j \in 1..(Len(s) + k) : t[j] = IF j <= Len(s) THEN s[j] ELSE l[j - Len(s)]
  <2>1. t \in Seq(Item) /\ Len(t) = Len(s) + Len(a)
    BY <1>2, ConcatProperties, Zenon
  <2>2. \A j \in 1..(Len(s) + Len(a)) : t[j] = IF j <= Len(s) THEN s[j] ELSE a[j - Len(s)]
    BY <1>2, ConcatProperties
  <2>3. ASSUME NEW j \in 1..(Len(s) + k), ~(j <= Len(s))
        PROVE  t[j] = l[j - Len(s)]
    <3>1. j - Len(s) \in 1..k
      BY <1>1, <2>3
    <3> QED BY <1>2, <2>2, <2>3, <3>1
  <2> QED BY <1>2, <2>1, <2>2, <2>3
<1> HIDE DEF t
<1>5. Framed(n, t)
  <2> SUFFICES ASSUME NEW j \in 1..(Len(s) + k)
               PROVE  \/ t[j].f = "1013"
                      \/ t[j].p = "pay" <=> (IF j = 1 THEN n ELSE t[j - 1].p = "hdr")
    BY <1>4 DEF Framed
  <2>1. CASE j <= Len(s)
    <3>1. j \in 1..Len(s) /\ t[j] = s[j] /\ (j # 1 => t[j - 1] = s[j - 1])
      BY <1>1, <1>4, <2>1
    <3> QED BY <3>1 DEF Framed
  <2>2. CASE j = Len(s) + 1
    <3>1. 1 \in 1..Len(l) /\ t[j] = l[1]
      BY <1>1, <1>4, <2>2
    <3>2. l[1].f = "1013" \/ (l[1].p = "pay" <=> Ends(n, s))
      BY <3>1 DEF Framed
    <3>3. Ends(n, s) <=> (IF j = 1 THEN n ELSE t[j - 1].p = "hdr")
      <4>1. CASE s = <<>>
        BY <2>2, <4>1 DEF Ends
      <4>2. CASE s # <<>>
        <5>1. j # 1 /\ j - 1 = Len(s) /\ Len(s) \in 1..(Len(s) + k)
          BY <1>1, <2>2, <4>2, EmptySeq
        <5> QED BY <1>4, <4>2, <5>1 DEF Ends
      <4> QED BY <4>1, <4>2
    <3> QED BY <3>1, <3>2, <3>3
  <2>3. CASE j > Len(s) + 1
    <3> DEFINE i == j - Len(s)
    <3>1. /\ i \in 1..Len(l) /\ i # 1 /\ j # 1 /\ ~(j <= Len(s))
          /\ j - 1 \in 1..(Len(s) + k) /\ ~(j - 1 <= Len(s)) /\ j - 1 - Len(s) = i - 1
      BY <1>1, <2>3
    <3>2. t[j] = l[i] /\ t[j - 1] = l[i - 1]
      BY <1>4, <3>1
    <3> HIDE DEF i
    <3> QED BY <3>1, <3>2 DEF Framed
  <2> QED BY <1>1, <2>1, <2>2, <2>3
<1>6. Ends(n, t) <=> (IF k = 0 THEN Ends(n, s) ELSE l[k].p = "hdr")
  <2>1. CASE k = 0
    <3>1. CASE s = <<>>
      <4>1. t = <<>>
        BY <1>4, <2>1, <3>1, EmptySeq
      <4> QED BY <2>1, <3>1, <4>1 DEF Ends
    <3>2. CASE s # <<>>
      <4>1. Len(t) = Len(s) /\ Len(s) \in 1..(Len(s) + k) /\ t # <<>>
        BY <1>1, <1>4, <2>1, <3>2, EmptySeq
      <4> QED BY <1>4, <2>1, <3>2, <4>1 DEF Ends
    <3> QED BY <3>1, <3>2
  <2>2. CASE k # 0
    <3>1. t # <<>> /\ t[Len(t)] = l[k]
      <4>1. Len(t) \in 1..(Len(s) + k) /\ ~(Len(t) <= Len(s)) /\ Len(t) - Len(s) = k
        BY <1>1, <1>4, <2>2
      <4> QED BY <1>1, <1>4, <4>1
    <3> QED BY <2>2, <3>1 DEF Ends
  <2> QED BY <2>1, <2>2
<1>7. Framed(Ends(n, t), b)
  <2> SUFFICES ASSUME NEW j \in 1..(Len(l) - k)
               PROVE  \/ b[j].f = "1013"
                      \/ b[j].p = "pay" <=> (IF j = 1 THEN Ends(n, t) ELSE b[j - 1].p = "hdr")
    BY <1>3 DEF Framed
  <2>1. k + j \in 1..Len(l) /\ b[j] = l[k + j]
    BY <1>1, <1>3
  <2>2. \/ l[k + j].f = "1013"
        \/ l[k + j].p = "pay"
             <=> (IF k + j = 1 THEN Ends(n, s) ELSE l[k + j - 1].p = "hdr")
    BY <2>1 DEF Framed
  <2>3. CASE j = 1
    <3>1. (k + j = 1 <=> k = 0) /\ k + j - 1 = k
      BY <1>1, <2>3
    <3> QED BY <1>6, <2>1, <2>2, <2>3, <3>1
  <2>4. CASE j # 1
    <3>1. k + j # 1 /\ j - 1 \in 1..(Len(l) - k) /\ k + (j - 1) = k + j - 1
      BY <1>1, <2>4
    <3>2. b[j - 1] = l[k + j - 1]
      BY <1>3, <3>1
    <3> QED BY <2>1, <2>2, <2>4, <3>1, <3>2
  <2> QED BY <2>3, <2>4
<1>8. Ends(Ends(n, t), b) <=> Ends(Ends(n, s), l)
  <2>1. CASE k = Len(l)
    <3>1. b = <<>>
      BY <1>1, <1>3, <2>1, EmptySeq
    <3>2. l = <<>> <=> k = 0
      BY <1>1, <2>1, EmptySeq
    <3> QED BY <1>6, <2>1, <3>1, <3>2 DEF Ends
  <2>2. CASE k # Len(l)
    <3>1. Len(b) \in 1..(Len(l) - k) /\ k + Len(b) = Len(l)
      BY <1>1, <1>3, <2>2
    <3>2. b # <<>> /\ l # <<>> /\ b[Len(b)] = l[Len(l)]
      BY <1>1, <1>3, <2>2, <3>1
    <3> QED BY <3>2 DEF Ends
  <2> QED BY <2>1, <2>2
<1> QED BY <1>3, <1>4, <1>5, <1>7, <1>8 DEF a, b, t

-----------------------------------------------------------------------------
(* The outbound queue. What the functions do to a connection h.              *)

\* The close frame of queue_response_data(), and a frame of kind f.
Farewell == <<[f |-> "1013", p |-> "hdr"], [f |-> "1013", p |-> "pay"]>>
Header(f) == [f |-> f, p |-> "hdr"]
Payload(f) == [f |-> f, p |-> "pay"]
Only(f) == [f |-> f, p |-> "only"]

Names == {"page", "text", "ping", "pong"} \cup Close

\* The function leaves h as g, with the items l in its queue.
Changed(h, g, l, t) ==
  /\ g \in Connection
  /\ g.list = l /\ g.term = t
  /\ g.st = h.st /\ g.frag = h.frag /\ g.buf = h.buf
  /\ g.rd => h.rd

\* The result of queueing k units, which would make the queue l: they are refused
\* if the connection ends or the queue is full, and then the close frame takes the
\* place of the queue.
Result == [h : Connection, ok : BOOLEAN]
Tried(h, r, k, l) ==
  /\ r \in Result
  /\ \/ h.term /\ r.ok = FALSE /\ r.h = h
     \/ /\ ~h.term /\ r.ok = TRUE /\ Len(h.list) + k <= HardLimit
        /\ Changed(h, r.h, l, FALSE)
     \/ /\ ~h.term /\ r.ok = FALSE /\ Len(h.list) + k > HardLimit
        /\ Changed(h, r.h, Farewell, TRUE)

LEMMA FarewellType == Farewell \in Seq(Item) /\ Len(Farewell) = 2
<1>1. Farewell[1] \in Item /\ Farewell[2] \in Item
  BY DEF Farewell, Item, Close
<1> QED BY <1>1 DEF Farewell

\* The close frame follows whatever has been written.
LEMMA FarewellFits ==
  ASSUME NEW n \in BOOLEAN
  PROVE  Framed(n, Farewell) /\ ~Ends(n, Farewell)
BY DEF Farewell, Framed, Ends

LEMMA QueueData ==
  ASSUME NEW h \in Connection, NEW i \in Item
  PROVE  Tried(h, queue_response_data(h, i), 1, Append(h.list, i))
<1> DEFINE r == queue_response_data(h, i)
<1>1. CASE h.term
  <2>1. r.ok = FALSE /\ r.h = h /\ r \in Result
    BY <1>1 DEF queue_response_data, Fail, Result
  <2> HIDE DEF r
  <2> QED BY <1>1, <2>1 DEF Tried, r
<1>2. Len(h.list) \in Nat /\ HardLimit \in Nat /\ h.list \in Seq(Item)
  BY WebSocketAssumption DEF WebSocketAssumption, Connection
<1>3. CASE ~h.term /\ Len(h.list) + 1 > HardLimit
  <2>1. r = Fail(CloseEmpty(clear_response_queue(h), "1013"))
    BY <1>3 DEF queue_response_data
  <2> DEFINE g == CloseEmpty(clear_response_queue(h), "1013")
  <2>2. g = [h EXCEPT !.list = Farewell, !.wr = TRUE, !.term = TRUE, !.rd = FALSE]
    BY DEF CloseEmpty, clear_response_queue, Farewell, Connection
  <2>3. Changed(h, g, Farewell, TRUE)
    <3> HIDE DEF g
    <3> QED BY <2>2, FarewellType DEF Changed, Connection
  <2>4. r.ok = FALSE /\ r.h = g /\ r \in Result
    <3>1. g \in Connection
      BY <2>3 DEF Changed
    <3> HIDE DEF g, r
    <3> QED BY <2>1, <3>1 DEF Fail, Result, g
  <2> HIDE DEF r, g
  <2>5. Tried(h, r, 1, Append(h.list, i))
    BY <1>3, <2>3, <2>4 DEF Tried
  <2> QED BY <2>5 DEF r
<1>4. CASE ~h.term /\ ~(Len(h.list) + 1 > HardLimit)
  <2>1. r = Done(Enqueue(h, i))
    BY <1>4 DEF queue_response_data
  <2>2. Append(h.list, i) \in Seq(Item)
    BY <1>2
  <2>3. Changed(h, Enqueue(h, i), Append(h.list, i), FALSE)
    BY <1>4, <2>2 DEF Changed, Enqueue, Connection
  <2>4. r.ok = TRUE /\ r.h = Enqueue(h, i) /\ r \in Result
    <3>1. Enqueue(h, i) \in Connection
      BY <2>3 DEF Changed
    <3> HIDE DEF r
    <3> QED BY <2>1, <3>1 DEF Done, Result
  <2> HIDE DEF r
  <2>5. Len(h.list) + 1 <= HardLimit
    BY <1>2, <1>4
  <2>6. Tried(h, r, 1, Append(h.list, i))
    BY <1>4, <2>3, <2>4, <2>5, Zenon DEF Tried
  <2> QED BY <2>6 DEF r
<1> QED BY <1>1, <1>3, <1>4

\* A frame of one or two units.
Size(payload) == IF payload THEN 2 ELSE 1
WithFrame(l, f, payload) ==
  IF payload THEN Append(Append(l, Header(f)), Payload(f)) ELSE Append(l, Only(f))

LEMMA SendFrame ==
  ASSUME NEW h \in Connection, NEW f \in Names, NEW payload \in BOOLEAN
  PROVE  Tried(h, ws_send_frame(h, f, payload), Size(payload),
               WithFrame(h.list, f, payload))
<1> DEFINE r == ws_send_frame(h, f, payload)
<1>1. Header(f) \in Item /\ Payload(f) \in Item /\ Only(f) \in Item
  BY DEF Header, Payload, Only, Item, Names
<1>2. Len(h.list) \in Nat /\ HardLimit \in Nat /\ h.list \in Seq(Item)
  BY WebSocketAssumption DEF WebSocketAssumption, Connection
<1>3. CASE ~payload
  <2>1. r = queue_response_data(h, Only(f))
    BY <1>3 DEF ws_send_frame, Only
  <2>2. Size(payload) = 1 /\ WithFrame(h.list, f, payload) = Append(h.list, Only(f))
    BY <1>3 DEF Size, WithFrame
  <2>3. Tried(h, queue_response_data(h, Only(f)), 1, Append(h.list, Only(f)))
    BY <1>1, QueueData
  <2> QED BY <2>1, <2>2, <2>3
<1>4. CASE payload
  <2> DEFINE a == queue_response_data(h, Header(f))
             b == queue_response_data(a.h, Payload(f))
  <2>1. r = IF a.ok THEN b ELSE a
    BY <1>4 DEF ws_send_frame, Header, Payload
  <2>2. Size(payload) = 2 /\ WithFrame(h.list, f, payload)
                                = Append(Append(h.list, Header(f)), Payload(f))
    BY <1>4 DEF Size, WithFrame
  <2>3. Tried(h, a, 1, Append(h.list, Header(f)))
    BY <1>1, QueueData
  <2> HIDE DEF a, r
  <2>4. CASE a.ok = TRUE
    <3>1. /\ ~h.term /\ a.h \in Connection
          /\ Changed(h, a.h, Append(h.list, Header(f)), FALSE)
      BY <2>3, <2>4 DEF Tried, Changed
    <3>2. Len(Append(h.list, Header(f))) = Len(h.list) + 1
      BY <1>1, <1>2, AppendProperties
    <3>3. Tried(a.h, b, 1, Append(a.h.list, Payload(f)))
      BY <1>1, <3>1, QueueData
    <3> HIDE DEF b
    <3>4. r = b
      BY <2>1, <2>4
    <3>5. a.h.term = FALSE /\ a.h.list = Append(h.list, Header(f))
      BY <3>1 DEF Changed
    <3>6. \A g, l, t : Changed(a.h, g, l, t) => Changed(h, g, l, t)
      BY <3>1 DEF Changed
    <3> DEFINE l == Append(Append(h.list, Header(f)), Payload(f))
    <3>10. b \in Result
      BY <3>3 DEF Tried
    <3>8. \/ /\ b.ok = TRUE /\ Len(a.h.list) + 1 <= HardLimit
             /\ Changed(a.h, b.h, l, FALSE)
          \/ /\ b.ok = FALSE /\ Len(a.h.list) + 1 > HardLimit
             /\ Changed(a.h, b.h, Farewell, TRUE)
      BY <3>3, <3>5, Zenon DEF Tried
    <3>9. Len(a.h.list) + 1 = Len(h.list) + 2
      BY <1>2, <3>2, <3>5
    <3> HIDE DEF l
    <3>7. Tried(h, b, 2, l)
      BY <3>1, <3>6, <3>8, <3>9, <3>10, Zenon DEF Tried
    <3> QED BY <2>2, <3>4, <3>7 DEF r, l
  <2>5. CASE a.ok = FALSE
    <3>1. r = a
      BY <2>1, <2>5
    <3>2. Tried(h, a, 2, Append(Append(h.list, Header(f)), Payload(f)))
      <4>1. Len(h.list) + 1 > HardLimit => Len(h.list) + 2 > HardLimit
        BY <1>2
      <4>2. a.ok # TRUE
        BY <2>5
      <4> QED BY <2>3, <4>1, <4>2, Zenon DEF Tried
    <3> QED BY <2>2, <3>1, <3>2 DEF r
  <2> QED BY <2>3, <2>4, <2>5 DEF Tried
<1> QED BY <1>3, <1>4

\* hs_ws_close() starts the end of a connection.
LEMMA CloseFrame ==
  ASSUME NEW h \in Connection, NEW code \in Names
  PROVE  LET r == hs_ws_close(h, code)
         IN  /\ r \in Result
             /\ \/ h.term /\ r.ok = TRUE /\ r.h = h
                \/ /\ ~h.term /\ r.ok = TRUE
                   /\ Changed(h, r.h, WithFrame(h.list, code, TRUE), TRUE)
                \/ /\ ~h.term /\ r.ok = FALSE /\ Len(h.list) + 2 > HardLimit
                   /\ Changed(h, r.h, Farewell, TRUE)
<1> DEFINE r == hs_ws_close(h, code)
           k == [h EXCEPT !.rd = FALSE]
           a == ws_send_frame(k, code, TRUE)
<1>1. CASE h.term
  <2>1. r.ok = TRUE /\ r.h = h /\ r \in Result
    BY <1>1 DEF hs_ws_close, Done, Result
  <2> HIDE DEF r
  <2> QED BY <1>1, <2>1 DEF r
<1>2. CASE ~h.term
  <2>1. /\ k \in Connection /\ k.list = h.list /\ k.term = FALSE
        /\ \A g, l, t : Changed(k, g, l, t) => Changed(h, g, l, t)
    BY <1>2 DEF Connection, Changed
  <2>2. r = [a EXCEPT !.h.term = TRUE]
    BY <1>2 DEF hs_ws_close
  <2> HIDE DEF k, r
  <2>3. Tried(k, a, 2, WithFrame(k.list, code, TRUE))
    BY <2>1, SendFrame DEF Size
  <2> HIDE DEF a
  <2>4. a \in Result /\ r \in Result /\ r.ok = a.ok /\ r.h = [a.h EXCEPT !.term = TRUE]
    <3>1. a \in Result
      BY <2>3 DEF Tried
    <3> QED BY <2>2, <3>1 DEF Result, Connection
  <2>5. \A l, t : Changed(h, a.h, l, t) => Changed(h, r.h, l, TRUE)
    BY <2>4 DEF Changed, Result, Connection
  <2>6. \/ a.ok = TRUE /\ Changed(k, a.h, WithFrame(h.list, code, TRUE), FALSE)
        \/ /\ a.ok = FALSE /\ Len(h.list) + 2 > HardLimit
           /\ Changed(k, a.h, Farewell, TRUE)
    BY <2>1, <2>3, Zenon DEF Tried
  <2>7. \/ r.ok = TRUE /\ Changed(h, r.h, WithFrame(h.list, code, TRUE), TRUE)
        \/ /\ r.ok = FALSE /\ Len(h.list) + 2 > HardLimit
           /\ Changed(h, r.h, Farewell, TRUE)
    BY <2>1, <2>4, <2>5, <2>6, Zenon
  <2> QED BY <1>2, <2>4, <2>7, Zenon DEF r
<1> QED BY <1>1, <1>2

-----------------------------------------------------------------------------
(* What a connection h has in its queue fits what has been written, after     *)
(* which a payload is due or not (n): nothing comes within a frame.           *)

Sound(h) ==
  /\ h \in Connection
  /\ h.st = "none" => h = Free
  /\ h.st = "http" => ~h.term /\ ~h.frag /\ h.buf = "empty"

\* on: the client has found no other fault in what came before.
Fits(on, n, h) ==
  Sound(h) /\ (on => Framed(n, h.list) /\ (h.st # "none" => ~Ends(n, h.list)))

\* What h sends as g.
Sends(h, g) ==
  /\ g \in Connection /\ g.st = h.st
  /\ \/ g.list = h.list
     \/ \E f \in Names, p \in BOOLEAN : g.list = WithFrame(h.list, f, p)
     \/ g.list = Farewell

LEMMA FreeFits == ASSUME NEW on \in BOOLEAN, NEW n \in BOOLEAN PROVE Fits(on, n, Free)
<1>1. Free \in Connection /\ Free.st = "none" /\ Free.list = <<>>
  <2>1. <<>> \in Seq(Item)
    OBVIOUS
  <2> QED BY <2>1 DEF Free, Connection
<1> QED BY <1>1, FramedEmpty DEF Fits, Sound

LEMMA WithFrameFits ==
  ASSUME NEW n \in BOOLEAN, NEW l \in Seq(Item), Framed(n, l), ~Ends(n, l),
         NEW f \in Names, NEW p \in BOOLEAN
  PROVE  /\ WithFrame(l, f, p) \in Seq(Item)
         /\ Framed(n, WithFrame(l, f, p)) /\ ~Ends(n, WithFrame(l, f, p))
<1>1. /\ Header(f) \in Item /\ Payload(f) \in Item /\ Only(f) \in Item
      /\ Header(f).p = "hdr" /\ Payload(f).p = "pay" /\ Only(f).p = "only"
  BY DEF Header, Payload, Only, Item, Names
<1>2. CASE ~p
  <2>1. WithFrame(l, f, p) = Append(l, Only(f))
    BY <1>2 DEF WithFrame
  <2> QED BY <1>1, <2>1, FramedAppend
<1>3. CASE p
  <2> DEFINE k == Append(l, Header(f))
  <2>1. WithFrame(l, f, p) = Append(k, Payload(f))
    BY <1>3 DEF WithFrame
  <2>2. k \in Seq(Item) /\ Framed(n, k) /\ Ends(n, k)
    BY <1>1, FramedAppend
  <2> HIDE DEF k
  <2> QED BY <1>1, <2>1, <2>2, FramedAppend
<1> QED BY <1>2, <1>3

LEMMA SendsFit ==
  ASSUME NEW on \in BOOLEAN, NEW n \in BOOLEAN, NEW h, NEW g,
         Fits(on, n, h), h.st = "ws", Sends(h, g)
  PROVE  Fits(on, n, g)
<1>1. /\ h.list \in Seq(Item) /\ (on => Framed(n, h.list) /\ ~Ends(n, h.list))
      /\ g.st = "ws" /\ g \in Connection
  BY DEF Fits, Sound, Sends, Connection
<1>2. ASSUME on PROVE Framed(n, g.list) /\ ~Ends(n, g.list)
  <2>1. CASE g.list = h.list
    BY <1>1, <1>2, <2>1
  <2>2. ASSUME NEW f \in Names, NEW p \in BOOLEAN, g.list = WithFrame(h.list, f, p)
        PROVE  Framed(n, g.list) /\ ~Ends(n, g.list)
    BY <1>1, <1>2, <2>2, WithFrameFits
  <2>3. CASE g.list = Farewell
    BY <2>3, FarewellFits
  <2> QED BY <2>1, <2>2, <2>3 DEF Sends
<1> QED BY <1>1, <1>2 DEF Fits, Sound

LEMMA TriedSends ==
  ASSUME NEW h \in Connection, NEW r, NEW k, NEW f \in Names, NEW p \in BOOLEAN,
         Tried(h, r, k, WithFrame(h.list, f, p))
  PROVE  r \in Result /\ Sends(h, r.h)
<1>1. r \in Result /\ r.h \in Connection
  BY DEF Tried, Result
<1>2. \/ r.h = h
      \/ Changed(h, r.h, WithFrame(h.list, f, p), FALSE)
      \/ Changed(h, r.h, Farewell, TRUE)
  BY DEF Tried
<1>3. CASE r.h = h
  BY <1>1, <1>3 DEF Sends
<1>4. CASE Changed(h, r.h, WithFrame(h.list, f, p), FALSE)
  BY <1>1, <1>4 DEF Sends, Changed
<1>5. CASE Changed(h, r.h, Farewell, TRUE)
  BY <1>1, <1>5 DEF Sends, Changed
<1> QED BY <1>1, <1>2, <1>3, <1>4, <1>5

LEMMA CloseSends ==
  ASSUME NEW h \in Connection, NEW code \in Names
  PROVE  hs_ws_close(h, code) \in Result /\ Sends(h, hs_ws_close(h, code).h)
<1> DEFINE r == hs_ws_close(h, code)
<1>1. /\ r \in Result
      /\ \/ r.h = h
         \/ Changed(h, r.h, WithFrame(h.list, code, TRUE), TRUE)
         \/ Changed(h, r.h, Farewell, TRUE)
  BY CloseFrame
<1> HIDE DEF r
<1>2. r.h \in Connection
  BY <1>1 DEF Result
<1>3. Sends(h, r.h)
  <2>1. CASE r.h = h
    BY <1>2, <2>1 DEF Sends
  <2>2. CASE Changed(h, r.h, WithFrame(h.list, code, TRUE), TRUE)
    BY <1>2, <2>2 DEF Sends, Changed
  <2>3. CASE Changed(h, r.h, Farewell, TRUE)
    BY <1>2, <2>3 DEF Sends, Changed
  <2> QED BY <1>1, <2>1, <2>2, <2>3
<1> QED BY <1>1, <1>3 DEF r

LEMMA SendSends ==
  ASSUME NEW h \in Connection, NEW f \in Names, NEW p \in BOOLEAN
  PROVE  ws_send_frame(h, f, p) \in Result /\ Sends(h, ws_send_frame(h, f, p).h)
BY SendFrame, TriedSends

-----------------------------------------------------------------------------
(* What is read.                                                             *)

\* Other fields do not matter.
LEMMA SendsTrans ==
  ASSUME NEW h \in Connection, NEW k \in Connection, NEW g, NEW e \in Connection,
         k.list = h.list, k.st = h.st, Sends(k, g), e.list = g.list, e.st = g.st
  PROVE  Sends(h, e)
BY DEF Sends

LEMMA SendsNothing == ASSUME NEW h \in Connection PROVE Sends(h, h)
BY DEF Sends

LEMMA Message ==
  ASSUME NEW h \in Connection, NEW f
  PROVE  on_ws_message(h, f) \in Connection /\ Sends(h, on_ws_message(h, f))
<1>1. "1007" \in Names /\ "text" \in Names
  BY DEF Names, Close
<1>2. CASE f = "badjson"
  <2>1. on_ws_message(h, f) = hs_ws_close(h, "1007").h
    BY <1>2 DEF on_ws_message
  <2>2. hs_ws_close(h, "1007").h \in Connection /\ Sends(h, hs_ws_close(h, "1007").h)
    BY <1>1, CloseSends DEF Result
  <2> QED BY <2>1, <2>2
<1>3. CASE f # "badjson"
  <2>1. on_ws_message(h, f) = ws_send_frame(h, "text", TRUE).h
    BY <1>3 DEF on_ws_message
  <2>2. ws_send_frame(h, "text", TRUE).h \in Connection
        /\ Sends(h, ws_send_frame(h, "text", TRUE).h)
    BY <1>1, SendSends DEF Result
  <2> QED BY <2>1, <2>2
<1> QED BY <1>2, <1>3

LEMMA DoneResult == ASSUME NEW h \in Connection
                    PROVE  /\ Done(h) \in Result /\ Done(h).h = h /\ Done(h).ok = TRUE
                           /\ Fail(h) \in Result /\ Fail(h).h = h /\ Fail(h).ok = FALSE
BY DEF Done, Fail, Result

LEMMA DoneSends ==
  ASSUME NEW h \in Connection, NEW g \in Connection, Sends(h, g)
  PROVE  Done(g) \in Result /\ Sends(h, Done(g).h)
BY DoneResult

LEMMA FailSends ==
  ASSUME NEW h \in Connection PROVE Fail(h) \in Result /\ Sends(h, Fail(h).h)
BY DoneResult, SendsNothing

LEMMA ContinuedSends ==
  ASSUME NEW h \in Connection
  PROVE  Continued(h) \in Result /\ Sends(h, Continued(h).h)
<1>1. CASE ~h.frag
  <2>1. Continued(h) = Fail(h)
    BY <1>1 DEF Continued
  <2> QED BY <2>1, FailSends, Zenon
<1>2. CASE h.frag
  <2> DEFINE g == on_ws_message(h, "cont")
             e == [g EXCEPT !.frag = FALSE]
  <2>1. Continued(h) = Done(e)
    BY <1>2 DEF Continued
  <2>2. g \in Connection /\ Sends(h, g)
    BY Message
  <2> HIDE DEF g
  <2>3. e \in Connection /\ e.list = g.list /\ e.st = g.st
    BY <2>2 DEF Connection
  <2> HIDE DEF e
  <2>4. Sends(h, e)
    BY <2>2, <2>3, SendsTrans
  <2> QED BY <2>1, <2>3, <2>4, DoneSends
<1> QED BY <1>1, <1>2

LEMMA TakeSends ==
  ASSUME NEW h \in Connection, NEW f \in Frame
  PROVE  TakeFrame(h, f) \in Result /\ Sends(h, TakeFrame(h, f).h)
<1> DEFINE r == TakeFrame(h, f)
<1>1. {"1007", "pong", "close"} \subseteq Names
  BY DEF Names, Close
<1>2. CASE f = "illegal" \/ (f \in {"text", "badjson", "badutf8", "frag"} /\ h.frag)
  <2>1. r = Fail(h)
    BY <1>2 DEF TakeFrame
  <2> QED BY <2>1, FailSends, Zenon
<1>3. CASE f = "badutf8" /\ ~h.frag
  <2> DEFINE g == hs_ws_close(h, "1007").h
             e == [g EXCEPT !.buf = "bad"]
  <2>1. r = Done(e)
    BY <1>3 DEF TakeFrame
  <2>2. g \in Connection /\ Sends(h, g)
    BY <1>1, CloseSends DEF Result
  <2> HIDE DEF g
  <2>3. e \in Connection /\ e.list = g.list /\ e.st = g.st
    BY <2>2 DEF Connection
  <2> HIDE DEF e
  <2>4. Sends(h, e)
    BY <2>2, <2>3, SendsTrans
  <2> QED BY <2>1, <2>3, <2>4, DoneSends
<1>4. CASE f \in {"text", "badjson"} /\ ~h.frag
  <2>1. r = Done(on_ws_message(h, f))
    BY <1>4 DEF TakeFrame
  <2> QED BY <2>1, Message, DoneSends
<1>5. CASE f = "frag" /\ ~h.frag
  <2> DEFINE e == [h EXCEPT !.frag = TRUE]
  <2>1. r = Done(e)
    BY <1>5 DEF TakeFrame
  <2>2. e \in Connection /\ e.list = h.list /\ e.st = h.st
    BY DEF Connection
  <2> HIDE DEF e
  <2>3. Sends(h, e)
    BY <2>2, SendsNothing, SendsTrans
  <2> QED BY <2>1, <2>2, <2>3, DoneSends
<1>6. CASE f = "cont"
  <2>1. r = Continued(h)
    BY <1>6 DEF TakeFrame
  <2> QED BY <2>1, ContinuedSends
<1>7. CASE f = "ping"
  <2>1. r = ws_send_frame(h, "pong", FALSE)
    BY <1>7 DEF TakeFrame
  <2> QED BY <1>1, <2>1, SendSends
<1>8. CASE f = "pong"
  <2> DEFINE e == [h EXCEPT !.wait = FALSE]
  <2>1. r = Done(e)
    BY <1>8 DEF TakeFrame
  <2>2. e \in Connection /\ e.list = h.list /\ e.st = h.st
    BY DEF Connection
  <2> HIDE DEF e
  <2>3. Sends(h, e)
    BY <2>2, SendsNothing, SendsTrans
  <2> QED BY <2>1, <2>2, <2>3, DoneSends
<1>9. CASE f = "close"
  <2> DEFINE a == ws_send_frame(h, "close", TRUE)
             e == [a.h EXCEPT !.term = TRUE, !.rd = FALSE]
  <2>1. r = IF a.ok THEN Done(e) ELSE a
    BY <1>9 DEF TakeFrame
  <2>2. a \in Result /\ Sends(h, a.h)
    BY <1>1, SendSends
  <2> HIDE DEF a
  <2>3. e \in Connection /\ e.list = a.h.list /\ e.st = a.h.st
    BY <2>2 DEF Connection, Result
  <2> HIDE DEF e
  <2>4. Sends(h, e)
    BY <2>2, <2>3, SendsTrans
  <2> HIDE DEF r
  <2>5. CASE a.ok
    BY <2>1, <2>3, <2>4, <2>5, DoneResult DEF r
  <2>6. CASE ~a.ok
    BY <2>1, <2>2, <2>6 DEF r
  <2> QED BY <2>5, <2>6
<1> QED BY <1>2, <1>3, <1>4, <1>5, <1>6, <1>7, <1>8, <1>9 DEF Frame, Data

LEMMA RawSends ==
  ASSUME NEW h \in Connection, NEW u \in Piece, u.f \notin Request
  PROVE  ws_raw_data_cb(h, u) \in Result /\ Sends(h, ws_raw_data_cb(h, u).h)
<1> DEFINE r == ws_raw_data_cb(h, u)
<1>1. /\ u.p \in {"all", "rest", "head"} /\ (u.p # "head" => u.f \in Frame)
      /\ h.buf \in {"empty", "head", "bad"}
  BY DEF Piece, Connection
<1>2. CASE h.buf = "bad"
  <2>1. r = Done(h)
    BY <1>2 DEF ws_raw_data_cb
  <2> QED BY <2>1, DoneSends, SendsNothing, Zenon
<1>3. CASE h.buf # "bad" /\ u.p = "head"
  <2> DEFINE e == [h EXCEPT !.buf = "head"]
  <2>1. r = Done(e)
    BY <1>3 DEF ws_raw_data_cb
  <2>2. e \in Connection /\ e.list = h.list /\ e.st = h.st
    BY DEF Connection
  <2> HIDE DEF e
  <2>3. Sends(h, e)
    BY <2>2, SendsNothing, SendsTrans
  <2> QED BY <2>1, <2>2, <2>3, DoneSends
<1>4. CASE h.buf = "head" /\ u.p = "rest"
  <2> DEFINE e == [h EXCEPT !.buf = "empty"]
             a == TakeFrame(e, u.f)
  <2>1. r = a
    BY <1>4 DEF ws_raw_data_cb
  <2>2. e \in Connection /\ e.list = h.list /\ e.st = h.st
    BY DEF Connection
  <2> HIDE DEF e
  <2>3. a \in Result /\ Sends(e, a.h)
    BY <1>1, <1>4, <2>2, TakeSends
  <2>4. a.h \in Connection
    BY <2>3 DEF Result
  <2> HIDE DEF a
  <2>5. Sends(h, a.h)
    BY <2>2, <2>3, <2>4, SendsTrans
  <2> QED BY <2>1, <2>3, <2>5
<1>5. CASE h.buf = "empty" /\ u.p = "rest"
  <2>1. r = Fail(h)
    BY <1>5 DEF ws_raw_data_cb
  <2> QED BY <2>1, FailSends, Zenon
<1>6. CASE h.buf # "bad" /\ u.p = "all"
  <2>1. r = TakeFrame(h, u.f)
    BY <1>6 DEF ws_raw_data_cb
  <2> QED BY <1>1, <1>6, <2>1, TakeSends
<1> QED BY <1>1, <1>2, <1>3, <1>4, <1>5, <1>6

LEMMA RemovedFits ==
  ASSUME NEW on \in BOOLEAN, NEW n \in BOOLEAN, NEW h, NEW r, Fits(on, n, h), h.st = "ws",
         r \in Result, Sends(h, r.h)
  PROVE  /\ Fits(on, n, OrRemoved(r))
         /\ OrRemoved(r).st \in {"ws", "none"}
<1>1. CASE r.ok
  <2>1. OrRemoved(r) = r.h
    BY <1>1 DEF OrRemoved
  <2>2. r.h.st = "ws"
    BY DEF Sends
  <2> QED BY <2>1, <2>2, SendsFit
<1>2. CASE ~r.ok
  <2>1. OrRemoved(r) = Free
    BY <1>2 DEF OrRemoved, rem_connection
  <2> QED BY <2>1, FreeFits DEF Free
<1> QED BY <1>1, <1>2

\* A response is a unit of its own.
LEMMA PageFits ==
  ASSUME NEW on \in BOOLEAN, NEW n \in BOOLEAN, NEW h, Fits(on, n, h), h.st = "http"
  PROVE  Fits(on, n, hs_send_response(h)) /\ hs_send_response(h).st = "http"
<1> DEFINE i == [f |-> "page", p |-> "only"]
           l == Append(h.list, i)
           g == hs_send_response(h)
<1>1. i \in Item /\ i.p = "only"
  BY DEF Item
<1>2. /\ h \in Connection /\ h.list \in Seq(Item)
      /\ on => Framed(n, h.list) /\ ~Ends(n, h.list)
      /\ ~h.term /\ ~h.frag /\ h.buf = "empty"
  BY DEF Fits, Sound, Connection
<1>3. g = [h EXCEPT !.list = l, !.wr = TRUE]
  BY DEF hs_send_response, Enqueue
<1> HIDE DEF i
<1>4. l \in Seq(Item) /\ (on => Framed(n, l) /\ ~Ends(n, l))
  <2>1. l \in Seq(Item)
    BY <1>1, <1>2
  <2>2. ASSUME on PROVE Framed(n, l) /\ ~Ends(n, l)
    BY <1>1, <1>2, <2>2, FramedAppend
  <2> QED BY <2>1, <2>2
<1> HIDE DEF l, g
<1>5. g \in Connection /\ g.st = "http" /\ g.list = l /\ g.term = h.term
      /\ g.frag = h.frag /\ g.buf = h.buf
  BY <1>2, <1>3, <1>4 DEF Connection
<1> QED BY <1>2, <1>4, <1>5 DEF Fits, Sound, g

LEMMA EventsFit ==
  ASSUME NEW on \in BOOLEAN, NEW n \in BOOLEAN, NEW h, Fits(on, n, h), h.st = "http"
  PROVE  Fits(on, n, cb_events_ws(h)) /\ cb_events_ws(h).st = "ws"
<1> DEFINE k == [h EXCEPT !.st = "ws", !.wait = FALSE, !.frag = FALSE]
           i == [f |-> "page", p |-> "only"]
           l == Append(h.list, i)
           g == hs_ws_upgrade(h)
<1>1. i \in Item /\ i.p = "only"
  BY DEF Item
<1>2. /\ h \in Connection /\ h.list \in Seq(Item)
      /\ on => Framed(n, h.list) /\ ~Ends(n, h.list)
      /\ ~h.term /\ ~h.frag /\ h.buf = "empty"
  BY DEF Fits, Sound, Connection
<1>3. k \in Connection /\ k.st = "ws" /\ k.list = h.list
  BY <1>2 DEF Connection
<1>4. g = [k EXCEPT !.list = Append(k.list, i), !.wr = TRUE]
  BY <1>3 DEF hs_ws_upgrade, hs_send_headers, Enqueue
<1> HIDE DEF i, k
<1>5. l \in Seq(Item) /\ (on => Framed(n, l) /\ ~Ends(n, l))
  <2>1. l \in Seq(Item)
    BY <1>1, <1>2
  <2>2. ASSUME on PROVE Framed(n, l) /\ ~Ends(n, l)
    BY <1>1, <1>2, <2>2, FramedAppend
  <2> QED BY <2>1, <2>2
<1>6. g = [k EXCEPT !.list = l, !.wr = TRUE]
  BY <1>3, <1>4
<1> HIDE DEF l, g
<1>7. g \in Connection /\ g.st = "ws" /\ g.list = l
  BY <1>3, <1>5, <1>6 DEF Connection
<1>8. Fits(on, n, g)
  BY <1>5, <1>7 DEF Fits, Sound
<1> DEFINE r == ws_send_frame(g, "text", TRUE)
<1>9. r \in Result /\ Sends(g, r.h)
  <2>1. "text" \in Names
    BY DEF Names
  <2> QED BY <1>7, <2>1, SendSends
<1>10. cb_events_ws(h) = r.h
  BY DEF cb_events_ws, g
<1> HIDE DEF r
<1>11. Fits(on, n, r.h) /\ r.h.st = "ws"
  BY <1>7, <1>8, <1>9, SendsFit DEF Sends
<1> QED BY <1>10, <1>11

LEMMA FedFits ==
  ASSUME NEW on \in BOOLEAN, NEW n \in BOOLEAN, NEW h, Fits(on, n, h), NEW u \in Piece,
         h.st # "none" => (u.f \notin Request <=> h.st = "ws")
  PROVE  /\ Fits(on, n, Fed(h, u))
         /\ Fed(h, u).st # "none" => (Fed(h, u).st = "ws" <=> h.st = "ws" \/ u.f = "upgrade")
<1>1. h \in Connection /\ h.st \in {"none", "http", "ws"}
  BY DEF Fits, Sound, Connection
<1>2. CASE h.st = "none"
  <2>1. Fed(h, u) = h
    BY <1>2 DEF Fed
  <2> QED BY <1>2, <2>1
<1>3. CASE h.st = "http"
  <2>1. Fed(h, u) = Asked(h, u.f) /\ u.f \in Request
    BY <1>3 DEF Fed
  <2>2. CASE u.f = "get"
    <3>1. Asked(h, u.f) = hs_send_response(h)
      BY <2>2 DEF Asked, serve_dmap
    <3> QED BY <1>3, <2>1, <2>2, <3>1, PageFits
  <2>3. CASE u.f = "upgrade"
    <3>1. Asked(h, u.f) = cb_events_ws(h)
      BY <2>3 DEF Asked
    <3> QED BY <1>3, <2>1, <2>3, <3>1, EventsFit
  <2>4. CASE u.f \in {"refused", "garbage"}
    <3>1. Asked(h, u.f) = Free
      BY <2>4 DEF Asked, rem_connection
    <3> QED BY <2>1, <3>1, FreeFits DEF Free
  <2> QED BY <2>1, <2>2, <2>3, <2>4 DEF Request
<1>4. CASE h.st = "ws"
  <2>1. Fed(h, u) = OrRemoved(ws_raw_data_cb(h, u)) /\ u.f \notin Request
    BY <1>4 DEF Fed
  <2>2. ws_raw_data_cb(h, u) \in Result /\ Sends(h, ws_raw_data_cb(h, u).h)
    BY <1>1, <2>1, RawSends
  <2>3. /\ Fits(on, n, OrRemoved(ws_raw_data_cb(h, u)))
        /\ OrRemoved(ws_raw_data_cb(h, u)).st \in {"ws", "none"}
    BY <1>4, <2>2, RemovedFits
  <2> QED BY <1>4, <2>1, <2>3
<1> QED BY <1>1, <1>2, <1>3, <1>4

-----------------------------------------------------------------------------
(* The loop of hcon_in_cb(). What holds after each piece is shown with the    *)
(* first piece after which it would not.                                      *)

\* A set of numbers that is not empty has a least element.
LEMMA LeastNumber ==
  ASSUME NEW B \in SUBSET Nat, B # {}
  PROVE  \E m \in B : \A k \in B : m <= k
<1>1. PICK m \in B : \A k \in B : <<k, m>> \notin OpToRel(<, Nat)
  BY NatLessThanWellFounded, WFMin, Zenon
<1>2. \A k \in B : ~(k < m)
  BY <1>1 DEF OpToRel
<1> QED BY <1>2

\* The states g of a connection h while it reads n of the pieces s.
ReadsTo(n, g, h, s) == g = [k \in 0..n |-> IF k = 0 THEN h ELSE Fed(g[k - 1], s[k])]
Reads(g, h, s) == ReadsTo(Len(s), g, h, s)

LEMMA ReadExists ==
  ASSUME NEW h, NEW s, NEW n \in Nat
  PROVE  \E g : ReadsTo(n, g, h, s)
<1> USE DEF ReadsTo
<1> DEFINE Is(g, m) == g = [k \in 0..m |-> IF k = 0 THEN h ELSE Fed(g[k - 1], s[k])]
           B == {m \in 0..n : ~\E g : Is(g, m)}
<1> SUFFICES ASSUME B # {} PROVE FALSE
  OBVIOUS
<1>1. PICK m \in B : \A k \in B : m <= k
  <2>1. B \in SUBSET Nat
    OBVIOUS
  <2> HIDE DEF B
  <2> QED BY <2>1, LeastNumber
<1>2. m \in 0..n /\ ~\E g : Is(g, m)
  OBVIOUS
<1>3. m # 0
  <2> SUFFICES ASSUME m = 0 PROVE \E g : Is(g, 0)
    BY <1>2
  <2> DEFINE g == [k \in 0..0 |-> h]
  <2>1. Is(g, 0)
    OBVIOUS
  <2> HIDE DEF Is, g
  <2> QED BY <2>1
<1>4. m - 1 \in 0..n /\ m - 1 \notin B
  BY <1>1, <1>2, <1>3
<1>5. PICK g : Is(g, m - 1)
  BY <1>4
<1> DEFINE f == [k \in 0..m |-> IF k = m THEN Fed(g[m - 1], s[m]) ELSE g[k]]
<1>6. Is(f, m)
  <2>1. \A k \in 0..(m - 1) : g[k] = IF k = 0 THEN h ELSE Fed(g[k - 1], s[k])
    BY <1>5
  <2>2. \A k \in 0..(m - 1) : f[k] = g[k]
    BY <1>2
  <2>3. f[m] = Fed(g[m - 1], s[m])
    BY <1>2
  <2>4. ASSUME NEW k \in 0..m PROVE f[k] = IF k = 0 THEN h ELSE Fed(f[k - 1], s[k])
    <3> HIDE DEF f
    <3>1. CASE k = m
      <4>1. f[m - 1] = g[m - 1]
        BY <1>2, <1>3, <2>2
      <4> QED BY <1>3, <2>3, <3>1, <4>1
    <3>2. CASE k # m
      <4>1. k \in 0..(m - 1)
        BY <1>2, <3>2
      <4>2. k # 0 => k - 1 \in 0..(m - 1)
        BY <1>2, <4>1
      <4> QED BY <2>1, <2>2, <4>1, <4>2
    <3> QED BY <3>1, <3>2
  <2> QED BY <2>4
<1> HIDE DEF f, Is
<1> QED BY <1>2, <1>6

LEMMA ReadIs ==
  ASSUME NEW c \in Con, sock[c] \in Seq(Piece), hcon_in_cb(c)
  PROVE  \E g : /\ Reads(g, hc[c], sock[c])
                /\ hc' = [hc EXCEPT ![c] = IF cl[c].st = "gone" THEN Free ELSE g[Len(sock[c])]]
<1> DEFINE n == Len(sock[c])
           R(g) == ReadsTo(n, g, hc[c], sock[c])
           read == CHOOSE g : R(g)
<1>1. \E g : R(g)
  <2>1. n \in Nat
    BY LenProperties
  <2> HIDE DEF n
  <2> QED BY <2>1, ReadExists
<1>2. R(read)
  <2> HIDE DEF R
  <2> QED BY <1>1, Zenon
<1>3. hc' = [hc EXCEPT ![c] = IF cl[c].st = "gone" THEN Free ELSE read[n]]
  BY DEF hcon_in_cb, rem_connection, ReadsTo
<1> HIDE DEF read
<1> QED BY <1>2, <1>3 DEF Reads

LEMMA ReadStep ==
  ASSUME NEW h, NEW s \in Seq(Piece), NEW g, Reads(g, h, s)
  PROVE  /\ Len(s) \in Nat
         /\ g[0] = h
         /\ \A k \in 1..Len(s) : k - 1 \in 0..Len(s) /\ s[k] \in Piece /\ g[k] = Fed(g[k - 1], s[k])
<1>1. Len(s) \in Nat /\ \A k \in 1..Len(s) : s[k] \in Piece
  BY LenProperties, ElementOfSeq
<1>2. \A k \in 0..Len(s) : g[k] = IF k = 0 THEN h ELSE Fed(g[k - 1], s[k])
  BY DEF Reads, ReadsTo
<1> QED BY <1>1, <1>2

\* When it has read k pieces a connection speaks WebSocket.
Spoken(h, s, k) == h.st = "ws" \/ \E j \in 1..k : s[j].f = "upgrade"

\* Requests come before the upgrade and frames after it.
InOrder(h, s) ==
  h.st # "none" => \A k \in 1..Len(s) : s[k].f \notin Request <=> Spoken(h, s, k - 1)

LEMMA ReadFits ==
  ASSUME NEW on \in BOOLEAN, NEW n \in BOOLEAN, NEW h, NEW s \in Seq(Piece), NEW g, Reads(g, h, s),
         Fits(on, n, h), InOrder(h, s)
  PROVE  \A k \in 0..Len(s) :
           /\ Fits(on, n, g[k])
           /\ g[k].st # "none" => /\ h.st # "none"
                                  /\ g[k].st = "ws" <=> Spoken(h, s, k)
<1> DEFINE P(k) == /\ Fits(on, n, g[k])
                   /\ g[k].st # "none" => /\ h.st # "none"
                                          /\ g[k].st = "ws" <=> Spoken(h, s, k)
           B == {k \in 0..Len(s) : ~P(k)}
<1>1. /\ Len(s) \in Nat /\ g[0] = h
      /\ \A k \in 1..Len(s) : k - 1 \in 0..Len(s) /\ s[k] \in Piece /\ g[k] = Fed(g[k - 1], s[k])
  BY ReadStep
<1>2. P(0)
  <2>1. Spoken(h, s, 0) <=> h.st = "ws"
    BY DEF Spoken
  <2> QED BY <1>1, <2>1
<1>3. ASSUME NEW k \in 1..Len(s), P(k - 1) PROVE P(k)
  <2> DEFINE a == g[k - 1]
  <2>1. g[k] = Fed(a, s[k]) /\ s[k] \in Piece
    BY <1>1
  <2>2. Fits(on, n, a)
        /\ (a.st # "none" => h.st # "none" /\ (a.st = "ws" <=> Spoken(h, s, k - 1)))
    BY <1>3
  <2> HIDE DEF a
  <2>3. a.st # "none" => (s[k].f \notin Request <=> a.st = "ws")
    BY <2>2 DEF InOrder
  <2>4. /\ Fits(on, n, g[k])
        /\ g[k].st # "none" => (g[k].st = "ws" <=> a.st = "ws" \/ s[k].f = "upgrade")
    BY <2>1, <2>2, <2>3, FedFits
  <2>5. g[k].st # "none" => a.st # "none"
    BY <2>1 DEF Fed
  <2>6. Spoken(h, s, k) <=> Spoken(h, s, k - 1) \/ s[k].f = "upgrade"
    <3>1. \A j \in 1..k : j = k \/ j \in 1..(k - 1)
      OBVIOUS
    <3>2. k \in 1..k /\ \A j \in 1..(k - 1) : j \in 1..k
      OBVIOUS
    <3> QED BY <3>1, <3>2, Zenon DEF Spoken
  <2> QED BY <2>2, <2>4, <2>5, <2>6
<1> HIDE DEF P
<1>4. B = {}
  <2> SUFFICES ASSUME B # {} PROVE FALSE
    OBVIOUS
  <2>1. B \in SUBSET Nat
    OBVIOUS
  <2>2. PICK k \in B : \A j \in B : k <= j
    <3> HIDE DEF B
    <3> QED BY <2>1, LeastNumber
  <2>3. k \in 1..Len(s) /\ k - 1 \in 0..Len(s) /\ k - 1 \notin B
    BY <1>1, <1>2, <2>2
  <2> QED BY <1>3, <2>2, <2>3
<1>5. \A k \in 0..Len(s) : P(k)
  BY <1>4
<1> QED BY <1>5 DEF P

-----------------------------------------------------------------------------
(* The invariant: of a connection h, its client k, the pieces s from the      *)
(* client and the items n to it.                                             *)

\* What the client has read is whole so far.
Counts(k) == k.st = "up" /\ k.torn = "no"

Good(h, k, s, n) ==
  /\ k.st = "none" => h.st = "none" /\ n = <<>> /\ s = <<>>
  /\ InOrder(h, s)
  /\ h.st # "none" /\ k.st = "up" => (k.ws <=> Spoken(h, s, Len(s)))
  /\ k.half # "no" => k.ws
  /\ Fits(Counts(k), Ends(k.need, n), h)
  /\ Counts(k) => Framed(k.need, n)
  /\ k.torn \in {"no", "1013"}

Typed(h, k, s, n) ==
  h \in Connection /\ k \in Client /\ s \in Seq(Piece) /\ n \in Seq(Item)

FramesInv == TypeOK /\ \A c \in Con : Good(hc[c], cl[c], sock[c], net[c])

LEMMA EndsType ==
  ASSUME NEW k \in Client, NEW n \in Seq(Item)
  PROVE  Ends(k.need, n) \in BOOLEAN /\ k.need \in BOOLEAN /\ Counts(k) \in BOOLEAN
BY DEF Ends, Client, Counts

LEMMA FreeGood ==
  ASSUME NEW h, NEW k, NEW s, NEW n, Typed(h, k, s, n), Good(h, k, s, n)
  PROVE  Typed(Free, k, s, n) /\ Good(Free, k, s, n)
<1>1. Fits(Counts(k), Ends(k.need, n), Free)
  BY EndsType, FreeFits DEF Typed
<1>2. Free \in Connection /\ Free.st = "none"
  BY <1>1 DEF Fits, Sound, Free
<1> QED BY <1>1, <1>2 DEF Typed, Good, InOrder

\* The server sends.
LEMMA SendsGood ==
  ASSUME NEW h, NEW k, NEW s, NEW n, Typed(h, k, s, n), Good(h, k, s, n),
         h.st = "ws", NEW g, Sends(h, g)
  PROVE  Typed(g, k, s, n) /\ Good(g, k, s, n)
<1>1. Fits(Counts(k), Ends(k.need, n), g)
  <2>1. Fits(Counts(k), Ends(k.need, n), h)
    BY DEF Good
  <2>2. Ends(k.need, n) \in BOOLEAN /\ Counts(k) \in BOOLEAN
    BY EndsType DEF Typed
  <2> QED BY <2>1, <2>2, SendsFit
<1>2. g \in Connection /\ g.st = "ws"
  BY DEF Sends
<1>3. /\ InOrder(g, s)
      /\ Spoken(g, s, Len(s)) <=> Spoken(h, s, Len(s))
  BY <1>2 DEF Good, InOrder, Spoken
<1> QED BY <1>1, <1>2, <1>3 DEF Typed, Good

LEMMA ResultGood ==
  ASSUME NEW h, NEW k, NEW s, NEW n, Typed(h, k, s, n), Good(h, k, s, n),
         h.st = "ws", NEW r \in Result, Sends(h, r.h)
  PROVE  Typed(OrRemoved(r), k, s, n) /\ Good(OrRemoved(r), k, s, n)
<1>1. OrRemoved(r) = r.h \/ OrRemoved(r) = Free
  BY DEF OrRemoved, rem_connection
<1> QED BY <1>1, SendsGood, FreeGood

\* The server has read all that has come.
LEMMA ReadGood ==
  ASSUME NEW h, NEW k, NEW s, NEW n, Typed(h, k, s, n), Good(h, k, s, n), h.rd,
         NEW g, Reads(g, h, s)
  PROVE  Typed(g[Len(s)], k, <<>>, n) /\ Good(g[Len(s)], k, <<>>, n)
<1> DEFINE e == g[Len(s)]
<1>1. Ends(k.need, n) \in BOOLEAN /\ Counts(k) \in BOOLEAN
  BY EndsType DEF Typed
<1>2. Fits(Counts(k), Ends(k.need, n), h) /\ InOrder(h, s) /\ s \in Seq(Piece)
  BY DEF Good, Typed
<1>3. /\ Fits(Counts(k), Ends(k.need, n), e)
      /\ e.st # "none" => h.st # "none" /\ (e.st = "ws" <=> Spoken(h, s, Len(s)))
  <2>1. Len(s) \in 0..Len(s)
    BY <1>2, LenProperties
  <2> QED BY <1>1, <1>2, <2>1, ReadFits
<1> HIDE DEF e
<1>4. k.st # "none"
  BY DEF Good, Fits, Sound, Free
<1>5. <<>> \in Seq(Piece) /\ Len(<<>>) = 0 /\ e \in Connection
  BY <1>3 DEF Fits, Sound
<1>6. InOrder(e, <<>>)
  BY <1>5 DEF InOrder
<1>7. Spoken(e, <<>>, 0) <=> e.st = "ws"
  BY DEF Spoken
<1> QED BY <1>3, <1>4, <1>5, <1>6, <1>7 DEF Typed, Good, e

\* One more piece comes from the client.
LEMMA PieceGood ==
  ASSUME NEW h, NEW k, NEW s, NEW n, Typed(h, k, s, n), Good(h, k, s, n),
         h.rd, k.st = "up", NEW u \in Piece, u.f \in Request <=> ~k.ws,
         NEW e \in Client, e.ws <=> k.ws \/ u.f = "upgrade", e.half # "no" => e.ws,
         e.st = "up", e.need = k.need, e.torn = k.torn
  PROVE  Typed(h, e, Append(s, u), n) /\ Good(h, e, Append(s, u), n)
<1> DEFINE t == Append(s, u)
<1>1. t \in Seq(Piece) /\ Len(t) = Len(s) + 1 /\ t[Len(s) + 1] = u
      /\ Len(s) \in Nat /\ \A j \in 1..Len(s) : t[j] = s[j]
  BY AppendProperties, LenProperties DEF Typed
<1> HIDE DEF t
<1>2. \A j \in 0..Len(s) : Spoken(h, t, j) <=> Spoken(h, s, j)
  BY <1>1 DEF Spoken
<1>3. Spoken(h, t, Len(s) + 1) <=> Spoken(h, s, Len(s)) \/ u.f = "upgrade"
  <2>1. \A j \in 1..(Len(s) + 1) : j = Len(s) + 1 \/ j \in 1..Len(s)
    BY <1>1
  <2>2. Len(s) + 1 \in 1..(Len(s) + 1) /\ \A j \in 1..Len(s) : j \in 1..(Len(s) + 1)
    BY <1>1
  <2> QED BY <1>1, <2>1, <2>2, Zenon DEF Spoken
<1>4. h.st # "none" /\ (k.ws <=> Spoken(h, s, Len(s)))
  BY DEF Good, Fits, Sound, Free
<1>5. InOrder(h, t)
  <2> SUFFICES ASSUME NEW j \in 1..Len(t)
               PROVE  t[j].f \notin Request <=> Spoken(h, t, j - 1)
    BY DEF InOrder
  <2>1. CASE j = Len(s) + 1
    <3>1. j - 1 = Len(s) /\ j - 1 \in 0..Len(s) /\ t[j] = u
      BY <1>1, <2>1
    <3> QED BY <1>2, <1>4, <3>1
  <2>2. CASE j # Len(s) + 1
    <3>1. j \in 1..Len(s) /\ j - 1 \in 0..Len(s) /\ t[j] = s[j]
      BY <1>1, <2>2
    <3> QED BY <1>2, <1>4, <3>1 DEF Good, InOrder
  <2> QED BY <2>1, <2>2
<1>6. Counts(e) <=> Counts(k)
  BY DEF Counts
<1>7. e.ws <=> Spoken(h, t, Len(t))
  BY <1>1, <1>3, <1>4
<1>8. Fits(Counts(e), Ends(e.need, n), h) /\ (Counts(e) => Framed(e.need, n))
  BY <1>6 DEF Good, Fits
<1> QED BY <1>1, <1>4, <1>5, <1>7, <1>8 DEF Typed, Good, t

\* The server writes j items.
LEMMA WriteGood ==
  ASSUME NEW h, NEW k, NEW s, NEW n, Typed(h, k, s, n), Good(h, k, s, n), h.wr,
         NEW j \in 0..Len(h.list), NEW g \in Connection, Sound(g),
         g.st = h.st, g.list = SubSeq(h.list, j + 1, Len(h.list))
  PROVE  LET m == n \o SubSeq(h.list, 1, j)
         IN  Typed(g, k, s, m) /\ Good(g, k, s, m)
<1> DEFINE m == n \o SubSeq(h.list, 1, j)
           b == SubSeq(h.list, j + 1, Len(h.list))
<1>1. h.list \in Seq(Item) /\ n \in Seq(Item) /\ h.st # "none" /\ k.need \in BOOLEAN
  BY DEF Typed, Connection, Client, Good, Fits, Sound, Free
<1>2. m \in Seq(Item)
  <2>1. Len(h.list) \in Nat
    BY <1>1, LenProperties
  <2>2. SubSeq(h.list, 1, j) \in Seq(Item)
    BY <1>1, <2>1
  <2> QED BY <1>1, <2>2, ConcatProperties, Zenon
<1>3. ASSUME Counts(k)
      PROVE  /\ Framed(k.need, m) /\ Framed(Ends(k.need, m), b)
             /\ ~Ends(Ends(k.need, m), b)
  <2>1. Framed(k.need, n) /\ Framed(Ends(k.need, n), h.list) /\ ~Ends(Ends(k.need, n), h.list)
    BY <1>1, <1>3 DEF Good, Fits
  <2>2. /\ Framed(k.need, m) /\ Framed(Ends(k.need, m), b)
        /\ Ends(Ends(k.need, m), b) <=> Ends(Ends(k.need, n), h.list)
    BY <1>1, <2>1, FramedMove
  <2> QED BY <2>1, <2>2
<1> HIDE DEF m, b
<1>4. Fits(Counts(k), Ends(k.need, m), g) /\ (Counts(k) => Framed(k.need, m))
  BY <1>3 DEF Fits, b
<1>5. InOrder(g, s) /\ (Spoken(g, s, Len(s)) <=> Spoken(h, s, Len(s)))
  BY DEF Good, InOrder, Spoken
<1> QED BY <1>1, <1>2, <1>4, <1>5 DEF Typed, Good, m

\* A client connects.
LEMMA AcceptGood ==
  ASSUME NEW h, NEW k, NEW s, NEW n, Typed(h, k, s, n), Good(h, k, s, n), k.st = "none"
  PROVE  LET g == [Free EXCEPT !.st = "http", !.rd = TRUE]
             e == [Nobody EXCEPT !.st = "up"]
         IN  Typed(g, e, s, n) /\ Good(g, e, s, n)
<1> DEFINE g == [Free EXCEPT !.st = "http", !.rd = TRUE]
           e == [Nobody EXCEPT !.st = "up"]
<1>1. s = <<>> /\ n = <<>> /\ s \in Seq(Piece) /\ n \in Seq(Item)
  BY DEF Good, Typed
<1>2. /\ g \in Connection /\ g.st = "http" /\ g.list = <<>> /\ g.term = FALSE
      /\ g.frag = FALSE /\ g.buf = "empty"
  <2>1. <<>> \in Seq(Item)
    OBVIOUS
  <2> QED BY <2>1 DEF Free, Connection
<1>3. /\ e \in Client /\ e.st = "up" /\ e.ws = FALSE /\ e.half = "no"
      /\ e.need = FALSE /\ e.torn = "no"
  BY DEF Nobody, Client
<1> HIDE DEF g, e
<1>4. Ends(e.need, n) = FALSE /\ Framed(FALSE, <<>>) /\ Ends(FALSE, <<>>) = FALSE
  BY <1>1, <1>3, FramedEmpty DEF Ends
<1>5. Fits(Counts(e), Ends(e.need, n), g)
  BY <1>2, <1>4 DEF Fits, Sound
<1>6. InOrder(g, s) /\ ~Spoken(g, s, Len(s))
  BY <1>1, <1>2 DEF InOrder, Spoken
<1> QED BY <1>1, <1>2, <1>3, <1>4, <1>5, <1>6 DEF Typed, Good, g, e

\* A client reads an item.
LEMMA ItemGood ==
  ASSUME NEW h, NEW k, NEW s, NEW n, Typed(h, k, s, n), Good(h, k, s, n),
         k.st = "up", n # <<>>
  PROVE  LET i == Head(n)
             e == [k EXCEPT !.need = (i.p = "hdr"),
                            !.torn = IF @ = "no" /\ k.need # (i.p = "pay") THEN i.f ELSE @]
         IN  Typed(h, e, s, Tail(n)) /\ Good(h, e, s, Tail(n))
<1> DEFINE i == Head(n)
           e == [k EXCEPT !.need = (i.p = "hdr"),
                          !.torn = IF @ = "no" /\ k.need # (i.p = "pay") THEN i.f ELSE @]
           t == Tail(n)
<1>1. k \in Client /\ k.need \in BOOLEAN /\ n \in Seq(Item)
  BY DEF Typed, Client
<1>2. i \in Item /\ t \in Seq(Item)
  BY <1>1, HeadTailProperties
<1>3. /\ e \in Client /\ e.st = k.st /\ e.ws = k.ws /\ e.half = k.half
      /\ e.need = (i.p = "hdr")
      /\ e.torn = IF k.torn = "no" /\ k.need # (i.p = "pay") THEN i.f ELSE k.torn
  <2> HIDE DEF i
  <2> QED BY <1>1, <1>2 DEF Client
<1> DEFINE d == (i.p = "hdr")
<1>4. ASSUME Counts(k)
      PROVE  /\ Framed(d, t) /\ (Ends(d, t) <=> Ends(k.need, n))
             /\ i.f = "1013" \/ (i.p = "pay" <=> k.need)
  BY <1>1, <1>4, FramedTail DEF Good
<1>5. i.f # "no"
  <2> HIDE DEF i
  <2> QED BY <1>2 DEF Item, Close
<1> HIDE DEF i, e, t
<1>6. Counts(e) => Counts(k)
  BY <1>3, <1>5 DEF Counts
<1>7. Fits(Counts(e), Ends(e.need, t), h) /\ (Counts(e) => Framed(e.need, t))
  <2>1. Sound(h)
    BY DEF Good, Fits
  <2>2. CASE ~Counts(e)
    BY <2>1, <2>2 DEF Fits
  <2>3. CASE Counts(e)
    <3>1. Framed(d, t) /\ (Ends(d, t) <=> Ends(k.need, n)) /\ e.need = d
      BY <1>3, <1>4, <1>6, <2>3
    <3>2. Framed(Ends(k.need, n), h.list) /\ (h.st # "none" => ~Ends(Ends(k.need, n), h.list))
      BY <1>6, <2>3 DEF Good, Fits
    <3>3. Ends(d, t) = Ends(k.need, n)
      <4>1. Ends(d, t) \in BOOLEAN /\ Ends(k.need, n) \in BOOLEAN
        BY <1>1 DEF Ends
      <4> QED BY <3>1, <4>1
    <3> QED BY <2>1, <3>1, <3>2, <3>3 DEF Fits
  <2> QED BY <2>2, <2>3
<1>8. e.torn \in {"no", "1013"}
  <2>1. CASE k.torn = "no"
    <3>1. Counts(k)
      BY <2>1 DEF Counts
    <3> QED BY <1>1, <1>3, <1>4, <2>1, <3>1
  <2>2. CASE k.torn # "no"
    BY <1>3, <2>2 DEF Good
  <2> QED BY <2>1, <2>2
<1>9. k.half # "no" => k.ws
  BY DEF Good
<1>10. /\ InOrder(h, s)
       /\ h.st # "none" => (k.ws <=> Spoken(h, s, Len(s)))
  BY DEF Good
<1>11. Typed(h, e, s, t)
  BY <1>2, <1>3 DEF Typed
<1>12. Good(h, e, s, t)
  BY <1>3, <1>7, <1>8, <1>9, <1>10 DEF Good
<1> QED BY <1>11, <1>12 DEF i, e, t

\* A client that reads nothing more.
LEMMA SilentGood ==
  ASSUME NEW h, NEW k, NEW s, NEW n, Typed(h, k, s, n), Good(h, k, s, n),
         NEW e \in Client, NEW m \in Seq(Item), e.st \in {"deaf", "gone"},
         e.half = "no", e.torn = "no"
  PROVE  Typed(h, e, s, m) /\ Good(h, e, s, m)
BY DEF Typed, Good, Counts, Fits

LEMMA EndGood ==
  ASSUME NEW h, NEW k, NEW s, NEW n, Typed(h, k, s, n), Good(h, k, s, n), h.st = "none"
  PROVE  Typed(h, Nobody, <<>>, <<>>) /\ Good(h, Nobody, <<>>, <<>>)
<1>1. Nobody \in Client /\ Nobody.st = "none" /\ Nobody.half = "no" /\ Nobody.torn = "no"
  BY DEF Nobody, Client
<1>2. <<>> \in Seq(Piece) /\ <<>> \in Seq(Item)
  OBVIOUS
<1> QED BY <1>1, <1>2 DEF Typed, Good, Counts, Fits, InOrder

-----------------------------------------------------------------------------
(* The steps.                                                                *)

\* A step of one connection.
LEMMA OneGood ==
  ASSUME FramesInv, NEW c \in Con, NEW h, NEW k, NEW s, NEW n,
         Typed(h, k, s, n), Good(h, k, s, n),
         hc' = [hc EXCEPT ![c] = h], cl' = [cl EXCEPT ![c] = k],
         sock' = [sock EXCEPT ![c] = s], net' = [net EXCEPT ![c] = n]
  PROVE  FramesInv'
<1>1. TypeOK'
  BY DEF FramesInv, TypeOK, Typed
<1>2. ASSUME NEW d \in Con PROVE Good(hc'[d], cl'[d], sock'[d], net'[d])
  <2>1. CASE d = c
    <3>1. hc'[d] = h /\ cl'[d] = k /\ sock'[d] = s /\ net'[d] = n
      BY <2>1 DEF FramesInv, TypeOK
    <3> QED BY <3>1
  <2>2. CASE d # c
    <3>1. hc'[d] = hc[d] /\ cl'[d] = cl[d] /\ sock'[d] = sock[d] /\ net'[d] = net[d]
      BY <2>2 DEF FramesInv, TypeOK
    <3> QED BY <3>1 DEF FramesInv
  <2> QED BY <2>1, <2>2
<1> QED BY <1>1, <1>2 DEF FramesInv

\* What stays as it is.
LEMMA Same ==
  ASSUME FramesInv, NEW c \in Con
  PROVE  /\ hc = [hc EXCEPT ![c] = hc[c]] /\ cl = [cl EXCEPT ![c] = cl[c]]
         /\ sock = [sock EXCEPT ![c] = sock[c]] /\ net = [net EXCEPT ![c] = net[c]]
BY DEF FramesInv, TypeOK

LEMMA GoodNow ==
  ASSUME FramesInv, NEW c \in Con
  PROVE  /\ Typed(hc[c], cl[c], sock[c], net[c])
         /\ Good(hc[c], cl[c], sock[c], net[c])
BY DEF FramesInv, TypeOK, Typed

LEMMA ServerSteps ==
  ASSUME FramesInv, NEW c \in Con,
         lsnr_cb(c) \/ hcon_in_cb(c) \/ WriteError(c) \/ IdlePing(c) \/ PongTimeout(c)
  PROVE  FramesInv'
<1> DEFINE h == hc[c]
           k == cl[c]
           s == sock[c]
           n == net[c]
<1>1. Typed(h, k, s, n) /\ Good(h, k, s, n)
  BY GoodNow
<1>2. h \in Connection /\ k \in Client /\ s \in Seq(Piece) /\ n \in Seq(Item)
  BY <1>1 DEF Typed
<1>3. CASE lsnr_cb(c)
  <2> DEFINE g == [Free EXCEPT !.st = "http", !.rd = TRUE]
             e == [Nobody EXCEPT !.st = "up"]
  <2>1. /\ k.st = "none" /\ hc' = [hc EXCEPT ![c] = g] /\ cl' = [cl EXCEPT ![c] = e]
        /\ sock' = sock /\ net' = net
    BY <1>3 DEF lsnr_cb
  <2> HIDE DEF h, k, s, n
  <2>2. Typed(g, e, s, n) /\ Good(g, e, s, n)
    BY <1>1, <2>1, AcceptGood
  <2> HIDE DEF g, e
  <2>3. /\ hc' = [hc EXCEPT ![c] = g] /\ cl' = [cl EXCEPT ![c] = e]
        /\ sock' = [sock EXCEPT ![c] = s] /\ net' = [net EXCEPT ![c] = n]
    BY <2>1, Same DEF s, n
  <2> QED BY <2>2, <2>3, OneGood
<1>4. CASE hcon_in_cb(c)
  <2>1. PICK g : /\ Reads(g, h, s)
                 /\ hc' = [hc EXCEPT ![c] = IF k.st = "gone" THEN Free ELSE g[Len(s)]]
    BY <1>2, <1>4, ReadIs
  <2>2. h.rd /\ sock' = [sock EXCEPT ![c] = <<>>] /\ cl' = cl /\ net' = net
    BY <1>4 DEF hcon_in_cb
  <2> DEFINE e == IF k.st = "gone" THEN Free ELSE g[Len(s)]
  <2>3. Typed(e, k, <<>>, n) /\ Good(e, k, <<>>, n)
    <3> HIDE DEF h, k, s, n
    <3>1. Typed(g[Len(s)], k, <<>>, n) /\ Good(g[Len(s)], k, <<>>, n)
      BY <1>1, <2>1, <2>2, ReadGood
    <3>2. Typed(Free, k, <<>>, n) /\ Good(Free, k, <<>>, n)
      BY <3>1, FreeGood
    <3> QED BY <3>1, <3>2
  <2>4. hc' = [hc EXCEPT ![c] = e]
    BY <2>1
  <2> HIDE DEF e, h, k, s, n
  <2>5. /\ hc' = [hc EXCEPT ![c] = e] /\ cl' = [cl EXCEPT ![c] = k]
        /\ sock' = [sock EXCEPT ![c] = <<>>] /\ net' = [net EXCEPT ![c] = n]
    BY <2>2, <2>4, Same DEF k, n
  <2> QED BY <2>3, <2>5, OneGood
<1>5. CASE WriteError(c)
  <2>1. hc' = [hc EXCEPT ![c] = Free] /\ cl' = cl /\ sock' = sock /\ net' = net
    BY <1>5 DEF WriteError, rem_connection
  <2>2. Typed(Free, k, s, n) /\ Good(Free, k, s, n)
    BY <1>1, FreeGood
  <2> HIDE DEF h, k, s, n
  <2>3. /\ hc' = [hc EXCEPT ![c] = Free] /\ cl' = [cl EXCEPT ![c] = k]
        /\ sock' = [sock EXCEPT ![c] = s] /\ net' = [net EXCEPT ![c] = n]
    BY <2>1, Same DEF k, s, n
  <2> QED BY <2>2, <2>3, OneGood
<1>6. CASE IdlePing(c)
  <2> DEFINE a == ws_send_frame(h, "ping", FALSE)
             r == [a EXCEPT !.h.wait = TRUE]
  <2>1. /\ h.st = "ws" /\ hc' = [hc EXCEPT ![c] = OrRemoved(r)]
        /\ cl' = cl /\ sock' = sock /\ net' = net
    BY <1>6 DEF IdlePing
  <2>2. a \in Result /\ Sends(h, a.h)
    <3>1. "ping" \in Names
      BY DEF Names
    <3> QED BY <1>2, <3>1, SendSends
  <2> HIDE DEF a
  <2>3. r \in Result /\ r.h.list = a.h.list /\ r.h.st = a.h.st /\ a.h \in Connection
        /\ r.h \in Connection
    BY <2>2 DEF Result, Connection
  <2> HIDE DEF r, h, k, s, n
  <2>4. Sends(h, r.h)
    BY <1>2, <2>2, <2>3, SendsTrans
  <2>5. Typed(OrRemoved(r), k, s, n) /\ Good(OrRemoved(r), k, s, n)
    BY <1>1, <2>1, <2>3, <2>4, ResultGood
  <2>6. /\ hc' = [hc EXCEPT ![c] = OrRemoved(r)] /\ cl' = [cl EXCEPT ![c] = k]
        /\ sock' = [sock EXCEPT ![c] = s] /\ net' = [net EXCEPT ![c] = n]
    BY <2>1, Same DEF k, s, n
  <2> QED BY <2>5, <2>6, OneGood
<1>7. CASE PongTimeout(c)
  <2> DEFINE r == hs_ws_close(h, "1001")
  <2>1. /\ h.st = "ws" /\ hc' = [hc EXCEPT ![c] = OrRemoved(r)]
        /\ cl' = cl /\ sock' = sock /\ net' = net
    BY <1>7 DEF PongTimeout
  <2>2. r \in Result /\ Sends(h, r.h)
    <3>1. "1001" \in Names
      BY DEF Names, Close
    <3> QED BY <1>2, <3>1, CloseSends
  <2> HIDE DEF r, h, k, s, n
  <2>3. Typed(OrRemoved(r), k, s, n) /\ Good(OrRemoved(r), k, s, n)
    BY <1>1, <2>1, <2>2, ResultGood
  <2>4. /\ hc' = [hc EXCEPT ![c] = OrRemoved(r)] /\ cl' = [cl EXCEPT ![c] = k]
        /\ sock' = [sock EXCEPT ![c] = s] /\ net' = [net EXCEPT ![c] = n]
    BY <2>1, Same DEF k, s, n
  <2> QED BY <2>3, <2>4, OneGood
<1> QED BY <1>3, <1>4, <1>5, <1>6, <1>7

LEMMA WriteStep ==
  ASSUME FramesInv, NEW c \in Con, hcon_out_cb(c)
  PROVE  FramesInv'
<1> DEFINE h == hc[c]
           k == cl[c]
           s == sock[c]
           n == net[c]
           room == NetCap - Len(n)
           j == IF Len(h.list) < room THEN Len(h.list) ELSE room
           left == SubSeq(h.list, j + 1, Len(h.list))
           m == n \o SubSeq(h.list, 1, j)
           g == [h EXCEPT !.list = left]
           e == [h EXCEPT !.list = <<>>, !.wr = FALSE]
<1>1. Typed(h, k, s, n) /\ Good(h, k, s, n)
  BY GoodNow
<1>2. h \in Connection /\ k \in Client /\ s \in Seq(Piece) /\ n \in Seq(Item)
      /\ h.list \in Seq(Item) /\ Sound(h)
  BY <1>1 DEF Typed, Connection, Good, Fits
<1>3. /\ h.wr /\ Len(n) < NetCap /\ cl' = cl /\ sock' = sock
      /\ net' = [net EXCEPT ![c] = m]
      /\ hc' = [hc EXCEPT ![c] = IF left # <<>> THEN g ELSE IF h.term THEN Free ELSE e]
  <2>1. net' = [net EXCEPT ![c] = m]
    <3>1. net' = [net EXCEPT ![c] = @ \o SubSeq(h.list, 1, j)]
      BY DEF hcon_out_cb
    <3> HIDE DEF h, j
    <3> QED BY <3>1 DEF FramesInv, TypeOK
  <2> QED BY <2>1 DEF hcon_out_cb, rem_connection
<1>4. j \in 0..Len(h.list)
  <2>1. Len(n) \in Nat /\ Len(h.list) \in Nat /\ NetCap \in Nat
    BY <1>2, LenProperties, WebSocketAssumption DEF WebSocketAssumption
  <2> HIDE DEF h, n
  <2> QED BY <1>3, <2>1
<1>5. left \in Seq(Item)
  <2>1. Len(h.list) \in Nat
    BY <1>2, LenProperties
  <2> HIDE DEF h, j
  <2> QED BY <1>2, <1>4, <2>1
<1> HIDE DEF h, k, s, n, j
<1>6. h.st # "none"
  BY <1>2, <1>3 DEF Sound, Free
<1>7. /\ g \in Connection /\ Sound(g) /\ g.st = h.st /\ g.list = left
      /\ left = <<>> => e \in Connection /\ Sound(e) /\ e.st = h.st /\ e.list = left
  <2> HIDE DEF left
  <2> QED BY <1>2, <1>5, <1>6 DEF Connection, Sound
<1> DEFINE x == IF left # <<>> THEN g ELSE IF h.term THEN Free ELSE e
<1>8. Typed(x, k, s, m) /\ Good(x, k, s, m)
  <2>1. Typed(g, k, s, m) /\ Good(g, k, s, m)
    <3> HIDE DEF g
    <3> QED BY <1>1, <1>3, <1>4, <1>7, WriteGood
  <2>2. Typed(Free, k, s, m) /\ Good(Free, k, s, m)
    BY <2>1, FreeGood
  <2>3. ASSUME left = <<>> PROVE Typed(e, k, s, m) /\ Good(e, k, s, m)
    <3>1. e \in Connection /\ Sound(e) /\ e.st = h.st /\ e.list = left
      BY <1>7, <2>3
    <3> HIDE DEF e
    <3> QED BY <1>1, <1>3, <1>4, <3>1, WriteGood
  <2> HIDE DEF g, e, left, m
  <2> QED BY <2>1, <2>2, <2>3
<1> HIDE DEF x, m
<1>9. /\ hc' = [hc EXCEPT ![c] = x] /\ cl' = [cl EXCEPT ![c] = k]
      /\ sock' = [sock EXCEPT ![c] = s] /\ net' = [net EXCEPT ![c] = m]
  BY <1>3, Same DEF k, s, x
<1> QED BY <1>8, <1>9, OneGood

LEMMA PublishStep ==
  ASSUME FramesInv, eventbus_publish
  PROVE  FramesInv'
<1>1. /\ hc' = [c \in Con |-> broadcast_event(hc[c])]
      /\ cl' = cl /\ sock' = sock /\ net' = net
  BY DEF eventbus_publish
<1>2. ASSUME NEW c \in Con
      PROVE  /\ broadcast_event(hc[c]) \in Connection
             /\ Good(broadcast_event(hc[c]), cl[c], sock[c], net[c])
  <2> DEFINE h == hc[c]
             k == cl[c]
             s == sock[c]
             n == net[c]
  <2>1. Typed(h, k, s, n) /\ Good(h, k, s, n)
    BY GoodNow
  <2>2. h \in Connection
    BY <2>1 DEF Typed
  <2> HIDE DEF h, k, s, n
  <2>3. CASE h.st = "ws"
    <3> DEFINE r == ws_send_frame(h, "text", TRUE)
    <3>1. broadcast_event(h) = r.h
      BY <2>3 DEF broadcast_event
    <3>2. r \in Result /\ Sends(h, r.h)
      <4>1. "text" \in Names
        BY DEF Names
      <4> QED BY <2>2, <4>1, SendSends
    <3> HIDE DEF r
    <3>3. Typed(r.h, k, s, n) /\ Good(r.h, k, s, n)
      BY <2>1, <2>3, <3>2, SendsGood
    <3> QED BY <3>1, <3>3 DEF Typed, h, k, s, n
  <2>4. CASE h.st # "ws"
    <3>1. broadcast_event(h) = h
      BY <2>4 DEF broadcast_event
    <3> QED BY <2>1, <2>2, <3>1 DEF h, k, s, n
  <2> QED BY <2>3, <2>4
<1>3. TypeOK'
  <2>1. hc' \in [Con -> Connection]
    BY <1>1, <1>2
  <2> QED BY <1>1, <2>1 DEF FramesInv, TypeOK
<1>4. ASSUME NEW c \in Con PROVE Good(hc'[c], cl'[c], sock'[c], net'[c])
  <2>1. hc'[c] = broadcast_event(hc[c])
    BY <1>1
  <2> QED BY <1>1, <1>2, <2>1
<1> QED BY <1>3, <1>4 DEF FramesInv

\* A client sends.
LEMMA SendSteps ==
  ASSUME FramesInv, NEW c \in Con,
         \/ \E r \in Request : ClientAsk(c, r)
         \/ \E f \in Frame, p \in {"all", "head"} : ClientSend(c, f, p)
         \/ ClientSendRest(c)
  PROVE  FramesInv'
<1> DEFINE h == hc[c]
           k == cl[c]
           s == sock[c]
           n == net[c]
<1>1. Typed(h, k, s, n) /\ Good(h, k, s, n)
  BY GoodNow
<1>2. k \in Client /\ (k.half # "no" => k.ws) /\ "no" \notin Frame
  BY <1>1 DEF Typed, Good, Frame, Data
<1>3. h.rd /\ k.st = "up" /\ hc' = hc /\ net' = net
  BY DEF ClientAsk, ClientSend, ClientSendRest, Talks
<1> DEFINE Sent(u, e) ==
             /\ u.f \in Request <=> ~k.ws
             /\ e.ws <=> k.ws \/ u.f = "upgrade"
             /\ e.half # "no" => e.ws
             /\ e.st = "up" /\ e.need = k.need /\ e.torn = k.torn
             /\ cl' = [cl EXCEPT ![c] = e]
             /\ sock' = [sock EXCEPT ![c] = Append(s, u)]
<1>4. ASSUME NEW u \in Piece, NEW e \in Client, Sent(u, e) PROVE FramesInv'
  <2> DEFINE t == Append(s, u)
  <2> HIDE DEF h, k, s, n
  <2>2. Typed(h, e, t, n) /\ Good(h, e, t, n)
    BY <1>1, <1>3, <1>4, PieceGood
  <2>3. /\ hc' = [hc EXCEPT ![c] = h] /\ cl' = [cl EXCEPT ![c] = e]
        /\ sock' = [sock EXCEPT ![c] = t] /\ net' = [net EXCEPT ![c] = n]
    BY <1>3, <1>4, Same DEF h, n
  <2> HIDE DEF t
  <2> QED BY <2>2, <2>3, OneGood
<1>5. ASSUME NEW r \in Request, ClientAsk(c, r) PROVE FramesInv'
  <2> DEFINE u == [f |-> r, p |-> "all"]
             e == [k EXCEPT !.ws = (r = "upgrade")]
  <2>1. cl' = [cl EXCEPT ![c] = e] /\ sock' = [sock EXCEPT ![c] = Append(s, u)] /\ ~k.ws
    <3>1. /\ cl' = [cl EXCEPT ![c].ws = (r = "upgrade")]
          /\ sock' = [sock EXCEPT ![c] = Append(@, u)] /\ ~k.ws
      BY <1>5 DEF ClientAsk
    <3> QED BY <3>1 DEF FramesInv, TypeOK
  <2>2. /\ e \in Client /\ (e.ws <=> r = "upgrade") /\ e.half = k.half
        /\ e.st = "up" /\ e.need = k.need /\ e.torn = k.torn
    <3> HIDE DEF k
    <3> QED BY <1>2, <1>3 DEF Client
  <2>3. u \in Piece /\ u.f = r
    BY DEF Piece
  <2> HIDE DEF u, e
  <2>4. Sent(u, e)
    BY <1>2, <2>1, <2>2, <2>3
  <2> QED BY <1>4, <2>2, <2>3, <2>4
<1>6. ASSUME NEW f \in Frame, NEW p \in {"all", "head"}, ClientSend(c, f, p)
      PROVE  FramesInv'
  <2> DEFINE u == [f |-> IF p = "head" THEN "part" ELSE f, p |-> p]
             e == [k EXCEPT !.half = IF p = "head" THEN f ELSE @,
                            !.frag = (f = "frag" \/ (@ /\ f # "cont")),
                            !.legal = @ /\ Legal(c, f),
                            !.done = (f = "close")]
  <2>1. cl' = [cl EXCEPT ![c] = e] /\ sock' = [sock EXCEPT ![c] = Append(s, u)] /\ k.ws
    <3>1. /\ cl' = [cl EXCEPT ![c].half = IF p = "head" THEN f ELSE @,
                      ![c].frag = (f = "frag" \/ (@ /\ f # "cont")),
                      ![c].legal = @ /\ Legal(c, f),
                      ![c].done = (f = "close")]
          /\ sock' = [sock EXCEPT ![c] = Append(@, u)] /\ k.ws
      BY <1>6 DEF ClientSend
    <3> QED BY <3>1 DEF FramesInv, TypeOK
  <2>2. Legal(c, f) \in BOOLEAN
    BY DEF Legal
  <2>3. /\ e \in Client /\ e.ws = k.ws
        /\ e.st = "up" /\ e.need = k.need /\ e.torn = k.torn
    <3> DEFINE a == IF p = "head" THEN f ELSE k.half
               b == f = "frag" \/ (k.frag /\ f # "cont")
               d == k.legal /\ Legal(c, f)
               x == f = "close"
    <3>1. a \in Frame \cup {"no"} /\ b \in BOOLEAN /\ d \in BOOLEAN /\ x \in BOOLEAN
      <4> HIDE DEF k
      <4> QED BY <1>2, <2>2 DEF Client
    <3>2. e = [k EXCEPT !.half = a, !.frag = b, !.legal = d, !.done = x]
      OBVIOUS
    <3> HIDE DEF a, b, d, x, e, k
    <3> QED BY <1>2, <1>3, <3>1, <3>2 DEF Client
  <2>4. u \in Piece /\ u.f \notin Request /\ u.f # "upgrade"
    <3>1. f \notin Request /\ "part" \notin Request /\ "upgrade" \in Request
      BY DEF Request, Frame, Data
    <3> QED BY <3>1 DEF Piece
  <2> HIDE DEF u, e
  <2>5. Sent(u, e)
    BY <2>1, <2>3, <2>4
  <2> QED BY <1>4, <2>3, <2>4, <2>5
<1>7. ASSUME ClientSendRest(c) PROVE FramesInv'
  <2> DEFINE u == [f |-> k.half, p |-> "rest"]
             e == [k EXCEPT !.half = "no"]
  <2>1. cl' = [cl EXCEPT ![c] = e] /\ sock' = [sock EXCEPT ![c] = Append(s, u)]
        /\ k.half # "no"
    <3>1. /\ cl' = [cl EXCEPT ![c].half = "no"]
          /\ sock' = [sock EXCEPT ![c] = Append(@, u)] /\ k.half # "no"
      BY <1>7 DEF ClientSendRest
    <3> QED BY <3>1 DEF FramesInv, TypeOK
  <2>2. /\ e \in Client /\ e.ws = k.ws /\ e.half = "no"
        /\ e.st = "up" /\ e.need = k.need /\ e.torn = k.torn
    <3> HIDE DEF k
    <3> QED BY <1>2, <1>3 DEF Client
  <2>3. u \in Piece /\ u.f \notin Request /\ u.f # "upgrade"
    <3>1. k.half \in Frame
      <4> HIDE DEF k
      <4> QED BY <1>2, <2>1 DEF Client
    <3>2. k.half \notin Request /\ k.half # "upgrade"
      <4> HIDE DEF k
      <4> QED BY <3>1 DEF Request, Frame, Data
    <3> HIDE DEF k
    <3> QED BY <3>1, <3>2 DEF Piece
  <2> HIDE DEF u, e
  <2>4. Sent(u, e)
    BY <1>2, <2>1, <2>2, <2>3
  <2> QED BY <1>4, <2>2, <2>3, <2>4
<1> QED BY <1>5, <1>6, <1>7

\* A client reads, or does nothing more.
LEMMA ClientSteps ==
  ASSUME FramesInv, NEW c \in Con,
         ClientRead(c) \/ ClientCloses(c) \/ ClientHangs(c) \/ ClientEnds(c)
  PROVE  FramesInv'
<1> DEFINE h == hc[c]
           k == cl[c]
           s == sock[c]
           n == net[c]
<1>1. Typed(h, k, s, n) /\ Good(h, k, s, n)
  BY GoodNow
<1>2. k \in Client /\ n \in Seq(Item) /\ <<>> \in Seq(Item)
  BY <1>1 DEF Typed
<1>3. CASE ClientRead(c)
  <2> DEFINE i == Head(n)
             e == [k EXCEPT !.need = (i.p = "hdr"),
                            !.torn = IF @ = "no" /\ k.need # (i.p = "pay") THEN i.f ELSE @]
  <2>1. /\ k.st = "up" /\ n # <<>> /\ hc' = hc /\ sock' = sock
        /\ cl' = [cl EXCEPT ![c] = e] /\ net' = [net EXCEPT ![c] = Tail(n)]
    <3>1. /\ k.st = "up" /\ n # <<>> /\ hc' = hc /\ sock' = sock
          /\ cl' = [cl EXCEPT
               ![c].need = (i.p = "hdr"),
               ![c].torn = IF @ = "no" /\ k.need # (i.p = "pay") THEN i.f ELSE @]
          /\ net' = [net EXCEPT ![c] = Tail(@)]
      BY <1>3 DEF ClientRead
    <3> QED BY <3>1 DEF FramesInv, TypeOK
  <2> HIDE DEF h, k, s, n
  <2>2. Typed(h, e, s, Tail(n)) /\ Good(h, e, s, Tail(n))
    BY <1>1, <2>1, ItemGood
  <2> HIDE DEF e
  <2>3. /\ hc' = [hc EXCEPT ![c] = h] /\ cl' = [cl EXCEPT ![c] = e]
        /\ sock' = [sock EXCEPT ![c] = s] /\ net' = [net EXCEPT ![c] = Tail(n)]
    BY <2>1, Same DEF h, s
  <2> QED BY <2>2, <2>3, OneGood
<1>4. CASE ClientCloses(c) \/ ClientHangs(c)
  <2> DEFINE e(st) == [Silent(c) EXCEPT !.st = st]
  <2>1. PICK st \in {"deaf", "gone"}, m \in Seq(Item) :
          /\ hc' = hc /\ sock' = sock
          /\ cl' = [cl EXCEPT ![c] = e(st)] /\ net' = [net EXCEPT ![c] = m]
    <3>1. CASE ClientCloses(c)
      <4>1. /\ hc' = hc /\ sock' = sock /\ cl' = [cl EXCEPT ![c] = e("gone")]
            /\ net' = [net EXCEPT ![c] = <<>>]
        BY <3>1 DEF ClientCloses
      <4> QED BY <1>2, <4>1
    <3>2. CASE ClientHangs(c)
      <4>1. /\ hc' = hc /\ sock' = sock /\ cl' = [cl EXCEPT ![c] = e("deaf")]
            /\ net' = [net EXCEPT ![c] = n]
        BY <3>2, Same DEF ClientHangs
      <4> HIDE DEF e, n
      <4> QED BY <1>2, <4>1
    <3> QED BY <1>4, <3>1, <3>2
  <2> DEFINE x == e(st)
  <2>2. /\ x \in Client /\ x.st \in {"deaf", "gone"} /\ x.half = "no" /\ x.torn = "no"
    <3> HIDE DEF k
    <3>1. k.legal \in BOOLEAN /\ k.done \in BOOLEAN
      BY <1>2 DEF Client
    <3>2. Silent(c) = [Nobody EXCEPT !.legal = k.legal, !.done = k.done]
      BY DEF Silent, k
    <3> QED BY <3>1, <3>2 DEF Nobody, Client
  <2> HIDE DEF x, h, k, s, n
  <2>3. Typed(h, x, s, m) /\ Good(h, x, s, m)
    BY <1>1, <2>2, SilentGood
  <2>4. /\ hc' = [hc EXCEPT ![c] = h] /\ cl' = [cl EXCEPT ![c] = x]
        /\ sock' = [sock EXCEPT ![c] = s] /\ net' = [net EXCEPT ![c] = m]
    BY <2>1, Same DEF h, s, x
  <2> QED BY <2>3, <2>4, OneGood
<1>5. CASE ClientEnds(c)
  <2>1. /\ h.st = "none" /\ hc' = hc /\ cl' = [cl EXCEPT ![c] = Nobody]
        /\ sock' = [sock EXCEPT ![c] = <<>>] /\ net' = [net EXCEPT ![c] = <<>>]
    BY <1>5 DEF ClientEnds
  <2> HIDE DEF h, k, s, n
  <2>2. Typed(h, Nobody, <<>>, <<>>) /\ Good(h, Nobody, <<>>, <<>>)
    BY <1>1, <2>1, EndGood
  <2>3. hc' = [hc EXCEPT ![c] = h]
    BY <2>1, Same DEF h
  <2> QED BY <2>1, <2>2, <2>3, OneGood
<1> QED BY <1>3, <1>4, <1>5

LEMMA FramesInit == Init => FramesInv
<1> SUFFICES ASSUME Init PROVE FramesInv
  OBVIOUS
<1>1. Free \in Connection /\ Free.st = "none"
  BY FreeFits DEF Fits, Sound, Free
<1>2. Nobody \in Client /\ Nobody.st = "none" /\ Nobody.half = "no" /\ Nobody.torn = "no"
  BY DEF Nobody, Client
<1>3. <<>> \in Seq(Piece) /\ <<>> \in Seq(Item)
  OBVIOUS
<1>4. TypeOK
  BY <1>1, <1>2, <1>3 DEF Init, TypeOK
<1>5. Good(Free, Nobody, <<>>, <<>>)
  BY <1>1, <1>2 DEF Good, InOrder, Counts, Fits, Sound
<1>6. \A c \in Con : hc[c] = Free /\ cl[c] = Nobody /\ sock[c] = <<>> /\ net[c] = <<>>
  BY DEF Init
<1> QED BY <1>4, <1>5, <1>6 DEF FramesInv

LEMMA FramesStep == FramesInv /\ [Next]_vars => FramesInv'
<1> SUFFICES ASSUME FramesInv, [Next]_vars PROVE FramesInv'
  OBVIOUS
<1>1. CASE UNCHANGED vars
  <2>1. hc' = hc /\ cl' = cl /\ sock' = sock /\ net' = net
    BY <1>1 DEF vars
  <2> QED BY <2>1 DEF FramesInv, TypeOK
<1>2. ASSUME NEW c \in Con,
             lsnr_cb(c) \/ hcon_in_cb(c) \/ WriteError(c) \/ IdlePing(c) \/ PongTimeout(c)
      PROVE  FramesInv'
  BY <1>2, ServerSteps
<1>3. ASSUME NEW c \in Con, hcon_out_cb(c) PROVE FramesInv'
  BY <1>3, WriteStep
<1>4. ASSUME NEW c \in Con,
             \/ \E r \in Request : ClientAsk(c, r)
             \/ \E f \in Frame, p \in {"all", "head"} : ClientSend(c, f, p)
             \/ ClientSendRest(c)
      PROVE  FramesInv'
  BY <1>4, SendSteps
<1>5. ASSUME NEW c \in Con,
             ClientRead(c) \/ ClientCloses(c) \/ ClientHangs(c) \/ ClientEnds(c)
      PROVE  FramesInv'
  BY <1>5, ClientSteps
<1>6. ASSUME eventbus_publish PROVE FramesInv'
  BY <1>6, PublishStep
<1> QED BY <1>1, <1>2, <1>3, <1>4, <1>5, <1>6 DEF Next

\* What has been written to a client and what is queued for it are frames in their
\* order, whatever ended in between; requests come before the upgrade and frames
\* after it (hcon_in_cb, queue_response_data, hcon_out_cb).
THEOREM FramesInductive == Spec => []FramesInv
<1>1. Init => FramesInv
  BY FramesInit
<1>2. FramesInv /\ [Next]_vars => FramesInv'
  BY FramesStep
<1> QED BY <1>1, <1>2, PTL DEF Spec

\* Every variable keeps its type.
THEOREM WebSocketTypes == Spec => []TypeOK
<1>1. FramesInv => TypeOK
  BY DEF FramesInv
<1> QED BY <1>1, FramesInductive, PTL

\* A client reads whole frames one after the other, except that the close frame
\* of queue_response_data() at the hard limit may come within one.
THEOREM FramesAreWhole == Spec => []WholeFrames
<1>1. FramesInv => WholeFrames
  BY DEF FramesInv, Good, WholeFrames
<1> QED BY <1>1, FramesInductive, PTL

-----------------------------------------------------------------------------
(* A client that sends what it may. Where its next piece stands in a message   *)
(* depends on what the server has read and on the pieces on their way.        *)

\* Before the k-th of the pieces s a fragment has been sent and the message has
\* not been ended (fr: before the first), or a frame has been begun (b: ws_inbuf).
FragAt(fr, s, k) ==
  \E j \in 0..(k - 1) : /\ IF j = 0 THEN fr ELSE s[j].f = "frag"
                        /\ \A i \in (j + 1)..(k - 1) : s[i].f # "cont"
HeadAt(b, s, k) == IF k = 1 THEN b = "head" ELSE s[k - 1].p = "head"

\* A frame of kind f may be sent: all or the rest of it, within a message or not.
Allowed(f, within) ==
  /\ f \notin {"badjson", "badutf8", "illegal", "close"}
  /\ f \in {"text", "frag"} => ~within
  /\ f = "cont" => within

Lawful(h, k, s) ==
  h.st # "none" /\ k.legal /\ ~k.done =>
    /\ h.buf # "bad"
    /\ \A j \in 1..Len(s) : /\ Allowed(s[j].f, FragAt(h.frag, s, j))
                            /\ s[j].p = "rest" <=> HeadAt(h.buf, s, j)
    /\ k.st = "up" =>
         LET within == FragAt(h.frag, s, Len(s) + 1)
         IN  /\ k.half # "no" <=> HeadAt(h.buf, s, Len(s) + 1)
             /\ Allowed(k.half, within)
             /\ k.frag <=> k.half = "frag" \/ (within /\ k.half # "cont")

LawfulInv == FramesInv /\ \A c \in Con : Lawful(hc[c], cl[c], sock[c])

LEMMA WithinFirst ==
  ASSUME NEW fr \in BOOLEAN, NEW s PROVE FragAt(fr, s, 1) <=> fr
<1>1. \A j \in 0..(1 - 1) : j = 0
  OBVIOUS
<1>2. 0 \in 0..(1 - 1) /\ (0 + 1)..(1 - 1) = {}
  OBVIOUS
<1> QED BY <1>1, <1>2 DEF FragAt

LEMMA WithinNext ==
  ASSUME NEW fr \in BOOLEAN, NEW s, NEW k \in Nat \ {0}
  PROVE  FragAt(fr, s, k + 1) <=> s[k].f = "frag" \/ (FragAt(fr, s, k) /\ s[k].f # "cont")
<1>1. ASSUME s[k].f = "frag" PROVE FragAt(fr, s, k + 1)
  <2>1. k \in 0..((k + 1) - 1) /\ (k + 1)..((k + 1) - 1) = {} /\ k # 0
    OBVIOUS
  <2> QED BY <1>1, <2>1 DEF FragAt
<1>2. ASSUME FragAt(fr, s, k), s[k].f # "cont" PROVE FragAt(fr, s, k + 1)
  <2>1. PICK j \in 0..(k - 1) : /\ IF j = 0 THEN fr ELSE s[j].f = "frag"
                                /\ \A i \in (j + 1)..(k - 1) : s[i].f # "cont"
    BY <1>2 DEF FragAt
  <2>2. j \in 0..((k + 1) - 1)
    OBVIOUS
  <2>3. ASSUME NEW i \in (j + 1)..((k + 1) - 1) PROVE s[i].f # "cont"
    <3>1. i = k \/ i \in (j + 1)..(k - 1)
      OBVIOUS
    <3> QED BY <1>2, <2>1, <3>1
  <2> QED BY <2>1, <2>2, <2>3 DEF FragAt
<1>3. ASSUME FragAt(fr, s, k + 1), s[k].f # "frag"
      PROVE  FragAt(fr, s, k) /\ s[k].f # "cont"
  <2>1. PICK j \in 0..((k + 1) - 1) : /\ IF j = 0 THEN fr ELSE s[j].f = "frag"
                                      /\ \A i \in (j + 1)..((k + 1) - 1) : s[i].f # "cont"
    BY <1>3 DEF FragAt
  <2>2. j \in 0..(k - 1)
    <3>1. j # k
      BY <1>3, <2>1
    <3> QED BY <3>1
  <2>3. k \in (j + 1)..((k + 1) - 1)
    BY <2>2
  <2>4. \A i \in (j + 1)..(k - 1) : i \in (j + 1)..((k + 1) - 1)
    OBVIOUS
  <2> QED BY <2>1, <2>2, <2>3, <2>4 DEF FragAt
<1> QED BY <1>1, <1>2, <1>3

\* A piece more changes nothing before it.
LEMMA WithinAppend ==
  ASSUME NEW fr \in BOOLEAN, NEW s \in Seq(Piece), NEW u \in Piece, NEW b,
         NEW k \in 1..(Len(s) + 1)
  PROVE  /\ FragAt(fr, Append(s, u), k) <=> FragAt(fr, s, k)
         /\ HeadAt(b, Append(s, u), k) <=> HeadAt(b, s, k)
<1> DEFINE t == Append(s, u)
<1>1. Len(s) \in Nat /\ \A j \in 1..Len(s) : t[j] = s[j]
  BY AppendProperties, LenProperties
<1> HIDE DEF t
<1>2. \A j \in 1..(k - 1) : t[j] = s[j]
  BY <1>1
<1>3. FragAt(fr, t, k) <=> FragAt(fr, s, k)
  <2>1. \A j \in 0..(k - 1) : j = 0 \/ j \in 1..(k - 1)
    BY <1>1
  <2>2. \A j \in 0..(k - 1) : \A i \in (j + 1)..(k - 1) : i \in 1..(k - 1)
    BY <1>1
  <2> QED BY <1>2, <2>1, <2>2 DEF FragAt
<1>4. HeadAt(b, t, k) <=> HeadAt(b, s, k)
  <2>1. k # 1 => k - 1 \in 1..(k - 1)
    BY <1>1
  <2> QED BY <1>2, <2>1 DEF HeadAt
<1> QED BY <1>3, <1>4 DEF t

LEMMA HeadNext ==
  ASSUME NEW b, NEW s, NEW k \in Nat \ {0}
  PROVE  HeadAt(b, s, k + 1) <=> s[k].p = "head"
<1>1. k + 1 # 1 /\ (k + 1) - 1 = k
  OBVIOUS
<1> QED BY <1>1 DEF HeadAt

-----------------------------------------------------------------------------
(* What the server does with such pieces.                                    *)

\* h, from which g is left after an answer of at most two units, ends only if the
\* queue is full.
Answered(h, g) ==
  \/ h.term /\ g.term /\ g.list = h.list
  \/ ~h.term /\ ~g.term /\ Len(g.list) <= Len(h.list) + 2
  \/ ~h.term /\ g.term /\ g.list = Farewell /\ Len(h.list) + 2 > HardLimit

Kept(h, g) == g.frag = h.frag /\ g.buf = h.buf

LEMMA WithFrameLen ==
  ASSUME NEW l \in Seq(Item), NEW f \in Names, NEW p \in BOOLEAN
  PROVE  Len(WithFrame(l, f, p)) = Len(l) + Size(p)
<1>1. Header(f) \in Item /\ Payload(f) \in Item /\ Only(f) \in Item
  BY DEF Header, Payload, Only, Item, Names
<1> HIDE DEF Item
<1>2. Len(l) \in Nat /\ Len(Append(l, Only(f))) = Len(l) + 1
      /\ Append(l, Header(f)) \in Seq(Item) /\ Len(Append(l, Header(f))) = Len(l) + 1
  BY <1>1, AppendProperties, LenProperties
<1>3. Len(Append(Append(l, Header(f)), Payload(f))) = Len(Append(l, Header(f))) + 1
  BY <1>1, <1>2, AppendProperties
<1> QED BY <1>2, <1>3 DEF WithFrame, Size

LEMMA SendAnswers ==
  ASSUME NEW h \in Connection, NEW f \in Names, NEW p \in BOOLEAN
  PROVE  LET r == ws_send_frame(h, f, p)
         IN  /\ Answered(h, r.h) /\ Kept(h, r.h)
             /\ ~r.ok => h.term \/ Len(h.list) + Size(p) > HardLimit
<1> DEFINE r == ws_send_frame(h, f, p)
           l == WithFrame(h.list, f, p)
<1>1. Tried(h, r, Size(p), l)
  BY SendFrame
<1>2. Len(l) = Len(h.list) + Size(p) /\ Len(h.list) \in Nat /\ Size(p) \in {1, 2}
      /\ HardLimit \in Nat
  BY WithFrameLen, WebSocketAssumption DEF Connection, Size, WebSocketAssumption
<1> HIDE DEF r, l
<1>3. CASE h.term /\ r.ok = FALSE /\ r.h = h
  BY <1>3 DEF Answered, Kept, r
<1>4. CASE ~h.term /\ r.ok = TRUE /\ Changed(h, r.h, l, FALSE)
  <2>1. Len(l) <= Len(h.list) + 2
    BY <1>2
  <2> QED BY <1>4, <2>1 DEF Answered, Kept, Changed, r
<1>5. CASE ~h.term /\ r.ok = FALSE /\ Len(h.list) + Size(p) > HardLimit
           /\ Changed(h, r.h, Farewell, TRUE)
  <2>1. Len(h.list) + 2 > HardLimit
    BY <1>2, <1>5
  <2> QED BY <1>5, <2>1 DEF Answered, Kept, Changed, r
<1> QED BY <1>1, <1>3, <1>4, <1>5 DEF Tried

\* A frame f of a message or between messages.
Taken(h, r, f) ==
  /\ r \in Result
  /\ r.ok => /\ Answered(h, r.h) /\ r.h.buf = h.buf
             /\ r.h.frag <=> f = "frag" \/ (h.frag /\ f # "cont")
  /\ ~r.ok => h.term \/ Len(h.list) + 1 > HardLimit

LEMMA AnsweredSelf ==
  ASSUME NEW h \in Connection, NEW g \in Connection, g.list = h.list, g.term = h.term
  PROVE  Answered(h, g)
<1>1. Len(h.list) \in Nat
  BY DEF Connection
<1> QED BY <1>1 DEF Answered, Connection

LEMMA MessageAnswers ==
  ASSUME NEW h \in Connection, NEW f, f # "badjson"
  PROVE  LET g == on_ws_message(h, f)
         IN  g \in Connection /\ Answered(h, g) /\ Kept(h, g)
<1>1. "text" \in Names
  BY DEF Names
<1>2. on_ws_message(h, f) = ws_send_frame(h, "text", TRUE).h
  BY DEF on_ws_message
<1> QED BY <1>1, <1>2, SendAnswers, Message

LEMMA TakeLegal ==
  ASSUME NEW h \in Connection, NEW f \in Frame, Allowed(f, h.frag)
  PROVE  Taken(h, TakeFrame(h, f), f)
<1> DEFINE r == TakeFrame(h, f)
<1>1. f \in {"text", "frag", "cont", "ping", "pong"}
  BY DEF Allowed, Frame, Data
<1>2. r \in Result
  BY TakeSends
<1>3. CASE f = "text"
  <2> DEFINE g == on_ws_message(h, f)
  <2>1. r = Done(g)
    BY <1>3 DEF TakeFrame, Allowed
  <2>2. g \in Connection /\ Answered(h, g) /\ Kept(h, g)
    BY <1>3, MessageAnswers
  <2> HIDE DEF g, r
  <2>3. r.h = g /\ r.ok = TRUE
    BY <2>1, <2>2, DoneResult
  <2> QED BY <1>2, <1>3, <2>2, <2>3 DEF Taken, Kept, r
<1>4. CASE f = "frag"
  <2> DEFINE g == [h EXCEPT !.frag = TRUE]
  <2>1. r = Done(g)
    BY <1>4 DEF TakeFrame, Allowed
  <2>2. g \in Connection /\ g.frag = TRUE /\ g.buf = h.buf /\ g.list = h.list
        /\ g.term = h.term
    BY DEF Connection
  <2> HIDE DEF g, r
  <2>3. r.h = g /\ r.ok = TRUE /\ Answered(h, g)
    BY <2>1, <2>2, DoneResult, AnsweredSelf
  <2> QED BY <1>2, <1>4, <2>2, <2>3 DEF Taken, r
<1>5. CASE f = "cont"
  <2> DEFINE m == on_ws_message(h, "cont")
             g == [m EXCEPT !.frag = FALSE]
  <2>1. r = Done(g)
    BY <1>5 DEF TakeFrame, Allowed, Continued
  <2>2. m \in Connection /\ Answered(h, m) /\ Kept(h, m)
    BY MessageAnswers
  <2> HIDE DEF m
  <2>3. g \in Connection /\ g.frag = FALSE /\ g.buf = h.buf /\ g.list = m.list
        /\ g.term = m.term
    BY <2>2 DEF Connection, Kept
  <2> HIDE DEF g, r
  <2>4. r.h = g /\ r.ok = TRUE
    BY <2>1, <2>3, DoneResult
  <2>5. Answered(h, g)
    BY <2>2, <2>3 DEF Answered
  <2> QED BY <1>2, <1>5, <2>3, <2>4, <2>5 DEF Taken, r
<1>6. CASE f = "ping"
  <2>1. r = ws_send_frame(h, "pong", FALSE)
    BY <1>6 DEF TakeFrame
  <2>2. /\ Answered(h, r.h) /\ Kept(h, r.h)
        /\ ~r.ok => h.term \/ Len(h.list) + 1 > HardLimit
    <3>1. "pong" \in Names /\ Size(FALSE) = 1
      BY DEF Names, Size
    <3> QED BY <2>1, <3>1, SendAnswers
  <2> HIDE DEF r
  <2> QED BY <1>2, <1>6, <2>2 DEF Taken, Kept, r
<1>7. CASE f = "pong"
  <2> DEFINE g == [h EXCEPT !.wait = FALSE]
  <2>1. r = Done(g)
    BY <1>7 DEF TakeFrame
  <2>2. g \in Connection /\ g.frag = h.frag /\ g.buf = h.buf /\ g.list = h.list
        /\ g.term = h.term
    BY DEF Connection
  <2> HIDE DEF g, r
  <2>3. r.h = g /\ r.ok = TRUE /\ Answered(h, g)
    BY <2>1, <2>2, DoneResult, AnsweredSelf
  <2> QED BY <1>2, <1>7, <2>2, <2>3 DEF Taken, r
<1> QED BY <1>1, <1>3, <1>4, <1>5, <1>6, <1>7

LEMMA RawLegal ==
  ASSUME NEW h \in Connection, NEW u \in Piece, u.f \notin Request, h.buf # "bad",
         Allowed(u.f, h.frag), u.p = "rest" <=> h.buf = "head"
  PROVE  LET r == ws_raw_data_cb(h, u)
         IN  /\ r.ok => /\ Answered(h, r.h) /\ r.h.buf # "bad"
                        /\ r.h.buf = "head" <=> u.p = "head"
                        /\ r.h.frag <=> u.f = "frag" \/ (h.frag /\ u.f # "cont")
             /\ ~r.ok => h.term \/ Len(h.list) + 1 > HardLimit
<1> DEFINE r == ws_raw_data_cb(h, u)
<1>1. /\ u.p \in {"all", "rest", "head"} /\ (u.p # "head" => u.f \in Frame)
      /\ (u.p = "head" => u.f = "part") /\ h.buf \in {"empty", "head"}
  BY DEF Piece, Connection
<1>2. CASE u.p = "head"
  <2> DEFINE e == [h EXCEPT !.buf = "head"]
  <2>1. r = Done(e)
    BY <1>2 DEF ws_raw_data_cb
  <2>2. e \in Connection /\ e.list = h.list /\ e.term = h.term /\ e.frag = h.frag
        /\ e.buf = "head"
    BY DEF Connection
  <2> HIDE DEF e, r
  <2>3. r.h = e /\ r.ok = TRUE /\ Answered(h, e)
    BY <2>1, <2>2, DoneResult, AnsweredSelf
  <2> QED BY <1>1, <1>2, <2>2, <2>3 DEF r
<1>3. CASE u.p = "rest"
  <2> DEFINE e == [h EXCEPT !.buf = "empty"]
  <2>1. r = TakeFrame(e, u.f)
    BY <1>3 DEF ws_raw_data_cb
  <2>2. e \in Connection /\ e.list = h.list /\ e.term = h.term /\ e.frag = h.frag
        /\ e.buf = "empty"
    BY DEF Connection
  <2> HIDE DEF e, r
  <2>3. Taken(e, r, u.f)
    BY <1>1, <1>3, <2>1, <2>2, TakeLegal
  <2>4. /\ r.ok => Answered(h, r.h) /\ r.h.buf = "empty"
                   /\ (r.h.frag <=> u.f = "frag" \/ (h.frag /\ u.f # "cont"))
        /\ ~r.ok => h.term \/ Len(h.list) + 1 > HardLimit
    BY <2>2, <2>3 DEF Taken, Answered
  <2> QED BY <1>3, <2>4 DEF r
<1>4. CASE u.p = "all"
  <2>1. r = TakeFrame(h, u.f) /\ h.buf = "empty"
    BY <1>1, <1>4 DEF ws_raw_data_cb
  <2> HIDE DEF r
  <2>2. Taken(h, r, u.f)
    BY <1>1, <1>4, <2>1, TakeLegal
  <2> QED BY <1>4, <2>1, <2>2 DEF Taken, r
<1> QED BY <1>1, <1>2, <1>3, <1>4

\* The server has followed the client over the piece u.
Followed(a, e, u) ==
  /\ e.st # "none" => /\ e.buf # "bad"
                      /\ e.buf = "head" <=> u.p = "head"
                      /\ e.frag <=> u.f = "frag" \/ (a.frag /\ u.f # "cont")
  /\ a.st = "ws" => IF e.st = "none" THEN a.term \/ Len(a.list) + 1 > HardLimit
                    ELSE Answered(a, e)

LEMMA FedLegal ==
  ASSUME NEW a, Sound(a), a.st # "none", a.buf # "bad", NEW u \in Piece,
         u.f \notin Request <=> a.st = "ws",
         Allowed(u.f, a.frag), u.p = "rest" <=> a.buf = "head"
  PROVE  Followed(a, Fed(a, u), u)
<1> DEFINE e == Fed(a, u)
<1>1. a \in Connection /\ a.st \in {"http", "ws"}
  BY DEF Sound, Connection
<1>2. CASE a.st = "ws"
  <2> DEFINE r == ws_raw_data_cb(a, u)
  <2>1. e = IF r.ok THEN r.h ELSE Free
    BY <1>2 DEF Fed, OrRemoved, rem_connection
  <2>2. r \in Result /\ r.h.st = "ws"
    BY <1>1, <1>2, RawSends DEF Sends
  <2>3. /\ r.ok => /\ Answered(a, r.h) /\ r.h.buf # "bad"
                   /\ r.h.buf = "head" <=> u.p = "head"
                   /\ r.h.frag <=> u.f = "frag" \/ (a.frag /\ u.f # "cont")
        /\ ~r.ok => a.term \/ Len(a.list) + 1 > HardLimit
    BY <1>1, <1>2, RawLegal
  <2> HIDE DEF r, e
  <2>4. CASE r.ok
    <3>1. e = r.h
      BY <2>1, <2>4
    <3> QED BY <1>2, <2>2, <2>3, <2>4, <3>1 DEF Followed, e
  <2>5. CASE ~r.ok
    <3>1. e.st = "none"
      BY <2>1, <2>5 DEF Free
    <3> QED BY <1>2, <2>3, <2>5, <3>1 DEF Followed, e
  <2> QED BY <2>4, <2>5
<1>3. CASE a.st = "http"
  <2>1. e = Asked(a, u.f) /\ u.f \in Request /\ ~a.frag /\ a.buf = "empty"
    BY <1>3 DEF Fed, Sound
  <2>2. u.p = "all" /\ u.f # "frag"
    BY <2>1 DEF Piece, Request
  <2> SUFFICES e.st # "none" => e.buf = "empty" /\ e.frag = FALSE
    BY <1>3, <2>1, <2>2 DEF Followed
  <2>3. CASE u.f = "get"
    <3>1. e = hs_send_response(a)
      BY <2>1, <2>3 DEF Asked, serve_dmap
    <3>2. e.buf = a.buf /\ e.frag = a.frag
      BY <1>1, <3>1 DEF hs_send_response, Enqueue, Connection
    <3> QED BY <1>1, <2>1, <3>2 DEF Connection
  <2>4. CASE u.f = "upgrade"
    <3> DEFINE k == [a EXCEPT !.st = "ws", !.wait = FALSE, !.frag = FALSE]
               i == [f |-> "page", p |-> "only"]
               b == hs_ws_upgrade(a)
               r == ws_send_frame(b, "text", TRUE)
    <3>1. e = r.h
      BY <2>1, <2>4 DEF Asked, cb_events_ws
    <3>2. k \in Connection /\ k.frag = FALSE /\ k.buf = "empty"
      BY <1>1, <2>1 DEF Connection
    <3>3. b = [k EXCEPT !.list = Append(@, i), !.wr = TRUE]
      BY DEF hs_ws_upgrade, hs_send_headers, Enqueue
    <3>4. i \in Item
      BY DEF Item
    <3> HIDE DEF k, i, b
    <3>5. k.list \in Seq(Item) /\ Append(k.list, i) \in Seq(Item)
      <4>1. k.list \in Seq(Item)
        BY <3>2 DEF Connection
      <4> HIDE DEF Item
      <4> QED BY <3>4, <4>1, AppendProperties
    <3>6. b \in Connection /\ b.frag = FALSE /\ b.buf = "empty"
      BY <3>2, <3>3, <3>5 DEF Connection
    <3>7. Kept(b, r.h)
      <4>1. "text" \in Names
        BY DEF Names
      <4> QED BY <3>6, <4>1, SendAnswers
    <3> HIDE DEF r, e
    <3> QED BY <3>1, <3>6, <3>7 DEF Kept, e
  <2>5. CASE u.f \in {"refused", "garbage"}
    <3>1. e = Free
      BY <2>1, <2>5 DEF Asked, rem_connection
    <3> QED BY <3>1 DEF Free
  <2> QED BY <2>1, <2>3, <2>4, <2>5 DEF Request
<1> QED BY <1>1, <1>2, <1>3

\* The server has followed the client over k pieces, each answered with at most two
\* units, and with one where it gives up.
FollowedTo(g, h, s, k) ==
  /\ g[k].st # "none" => /\ g[k].buf # "bad"
                         /\ g[k].buf = "head" <=> HeadAt(h.buf, s, k + 1)
                         /\ g[k].frag <=> FragAt(h.frag, s, k + 1)
  /\ h.st = "ws" /\ ~h.term =>
       /\ g[k].st = "none" => Len(h.list) + 2 * k - 1 > HardLimit
       /\ g[k].st # "none" /\ ~g[k].term => Len(g[k].list) <= Len(h.list) + 2 * k
       /\ g[k].st # "none" /\ g[k].term =>
            g[k].list = Farewell /\ Len(h.list) + 2 * k > HardLimit

LEMMA FollowStep ==
  ASSUME NEW on \in BOOLEAN, NEW n \in BOOLEAN, NEW h, NEW s \in Seq(Piece),
         NEW g, Reads(g, h, s), Fits(on, n, h), InOrder(h, s),
         \A j \in 1..Len(s) : /\ Allowed(s[j].f, FragAt(h.frag, s, j))
                              /\ s[j].p = "rest" <=> HeadAt(h.buf, s, j),
         NEW k \in 1..Len(s), FollowedTo(g, h, s, k - 1)
  PROVE  FollowedTo(g, h, s, k)
<1> DEFINE a == g[k - 1]
           e == g[k]
           u == s[k]
           L == Len(h.list)
<1>1. /\ Len(s) \in Nat /\ k \in Nat \ {0} /\ k - 1 \in 0..Len(s)
      /\ u \in Piece /\ e = Fed(a, u) /\ (k - 1) + 1 = k /\ k \in 0..Len(s)
  BY ReadStep
<1>2. /\ Sound(a) /\ Sound(e)
      /\ a.st # "none" => h.st # "none" /\ (a.st = "ws" <=> Spoken(h, s, k - 1))
  BY <1>1, ReadFits DEF Fits
<1>3. h \in Connection /\ h.frag \in BOOLEAN /\ L \in Nat
  BY DEF Fits, Sound, Connection
<1> HIDE DEF a, e, u, L
<1>4. /\ a.st # "none" => /\ a.buf # "bad"
                          /\ a.buf = "head" <=> HeadAt(h.buf, s, k)
                          /\ a.frag <=> FragAt(h.frag, s, k)
      /\ h.st = "ws" /\ ~h.term =>
           /\ a.st = "none" => L + 2 * (k - 1) - 1 > HardLimit
           /\ a.st # "none" /\ ~a.term => Len(a.list) <= L + 2 * (k - 1)
           /\ a.st # "none" /\ a.term =>
                a.list = Farewell /\ L + 2 * (k - 1) > HardLimit
  BY <1>1 DEF FollowedTo, a, L
<1>5. HardLimit \in Nat
  BY WebSocketAssumption DEF WebSocketAssumption
<1>6. CASE a.st = "none"
  <2>1. e = a
    BY <1>1, <1>6 DEF Fed
  <2>2. ASSUME h.st = "ws", ~h.term PROVE L + 2 * k - 1 > HardLimit
    <3>1. L + 2 * (k - 1) - 1 > HardLimit
      BY <1>4, <1>6, <2>2
    <3>2. k \in Nat /\ L \in Nat /\ HardLimit \in Nat
      BY <1>1, <1>3, <1>5
    <3> QED BY <3>1, <3>2
  <2> QED BY <1>6, <2>1, <2>2 DEF FollowedTo, e, L
<1>7. CASE a.st # "none"
  <2>1. Allowed(u.f, FragAt(h.frag, s, k)) /\ (u.p = "rest" <=> HeadAt(h.buf, s, k))
    BY DEF u
  <2>2. a.frag = FragAt(h.frag, s, k)
    <3>1. a.frag \in BOOLEAN
      BY <1>2 DEF Sound, Connection
    <3>2. FragAt(h.frag, s, k) \in BOOLEAN
      BY DEF FragAt
    <3> QED BY <1>4, <1>7, <3>1, <3>2
  <2>3. u.f \notin Request <=> a.st = "ws"
    BY <1>2, <1>7 DEF InOrder, u
  <2>4. Followed(a, e, u)
    BY <1>1, <1>2, <1>4, <1>7, <2>1, <2>2, <2>3, FedLegal
  <2>5. e.st # "none" => /\ e.buf # "bad"
                         /\ e.buf = "head" <=> HeadAt(h.buf, s, k + 1)
                         /\ e.frag <=> FragAt(h.frag, s, k + 1)
    <3>1. FragAt(h.frag, s, k + 1) <=> u.f = "frag" \/ (FragAt(h.frag, s, k) /\ u.f # "cont")
      BY <1>1, <1>3, WithinNext DEF u
    <3>2. HeadAt(h.buf, s, k + 1) <=> u.p = "head"
      BY <1>1, HeadNext DEF u
    <3> QED BY <2>2, <2>4, <3>1, <3>2 DEF Followed
  <2>6. ASSUME h.st = "ws", ~h.term
        PROVE  /\ e.st = "none" => L + 2 * k - 1 > HardLimit
               /\ e.st # "none" /\ ~e.term => Len(e.list) <= L + 2 * k
               /\ e.st # "none" /\ e.term => e.list = Farewell /\ L + 2 * k > HardLimit
    <3>1. a.st = "ws"
      BY <1>2, <1>7, <2>6 DEF Spoken
    <3>2. IF e.st = "none" THEN a.term \/ Len(a.list) + 1 > HardLimit ELSE Answered(a, e)
      BY <2>4, <3>1 DEF Followed
    <3>3. Len(a.list) \in Nat /\ Len(e.list) \in Nat
      BY <1>2 DEF Sound, Connection
    <3>4. /\ ~a.term => Len(a.list) <= L + 2 * (k - 1)
          /\ a.term => a.list = Farewell /\ L + 2 * (k - 1) > HardLimit
      BY <1>4, <1>7, <2>6
    <3>5. CASE e.st = "none"
      BY <1>1, <1>3, <1>5, <3>2, <3>3, <3>4, <3>5
    <3>6. CASE e.st # "none" /\ a.term
      <4>1. e.term /\ e.list = Farewell
        BY <3>2, <3>4, <3>6 DEF Answered
      <4>2. L + 2 * k > HardLimit
        BY <1>1, <1>3, <1>5, <3>4, <3>6
      <4> QED BY <3>6, <4>1, <4>2
    <3>7. CASE e.st # "none" /\ ~a.term
      <4>1. \/ ~e.term /\ Len(e.list) <= Len(a.list) + 2
            \/ e.term /\ e.list = Farewell /\ Len(a.list) + 2 > HardLimit
        BY <3>2, <3>7 DEF Answered
      <4>2. /\ Len(e.list) <= Len(a.list) + 2 => Len(e.list) <= L + 2 * k
            /\ Len(a.list) + 2 > HardLimit => L + 2 * k > HardLimit
        BY <1>1, <1>3, <1>5, <3>3, <3>4, <3>7
      <4> QED BY <3>7, <4>1, <4>2
    <3> QED BY <3>5, <3>6, <3>7
  <2> QED BY <2>5, <2>6 DEF FollowedTo, e, L
<1> QED BY <1>6, <1>7

LEMMA FollowsAll ==
  ASSUME NEW on \in BOOLEAN, NEW n \in BOOLEAN, NEW h, NEW s \in Seq(Piece),
         NEW g, Reads(g, h, s), Fits(on, n, h), InOrder(h, s), h.buf # "bad",
         \A j \in 1..Len(s) : /\ Allowed(s[j].f, FragAt(h.frag, s, j))
                              /\ s[j].p = "rest" <=> HeadAt(h.buf, s, j)
  PROVE  FollowedTo(g, h, s, Len(s))
<1> DEFINE B == {k \in 0..Len(s) : ~FollowedTo(g, h, s, k)}
<1>1. Len(s) \in Nat /\ g[0] = h
  BY ReadStep
<1>2. FollowedTo(g, h, s, 0)
  <2>1. h.frag \in BOOLEAN /\ Len(h.list) \in Nat
    BY DEF Fits, Sound, Connection
  <2>2. FragAt(h.frag, s, 0 + 1) <=> h.frag
    BY <2>1, WithinFirst
  <2>3. HeadAt(h.buf, s, 0 + 1) <=> h.buf = "head"
    BY DEF HeadAt
  <2>4. Len(h.list) <= Len(h.list) + 2 * 0
    BY <2>1
  <2> QED BY <1>1, <2>2, <2>3, <2>4 DEF FollowedTo
<1>3. B = {}
  <2> SUFFICES ASSUME B # {} PROVE FALSE
    OBVIOUS
  <2>1. B \in SUBSET Nat
    OBVIOUS
  <2>2. PICK k \in B : \A j \in B : k <= j
    <3> HIDE DEF B
    <3> QED BY <2>1, LeastNumber
  <2>3. k \in 1..Len(s) /\ k - 1 \in 0..Len(s) /\ k - 1 \notin B
    BY <1>1, <1>2, <2>2
  <2>4. FollowedTo(g, h, s, k)
    BY <2>3, FollowStep
  <2> QED BY <2>2, <2>4
<1> QED BY <1>1, <1>3

-----------------------------------------------------------------------------
(* The client stays lawful and the server with it.                           *)

\* The server sends or ends.
LEMMA LawfulKept ==
  ASSUME NEW h, NEW k, NEW s, Lawful(h, k, s), NEW g,
         g.st # "none" => h.st # "none" /\ Kept(h, g)
  PROVE  Lawful(g, k, s)
BY DEF Lawful, Kept

\* The server has read all that has come.
LEMMA LawfulRead ==
  ASSUME NEW h, NEW k, NEW s, NEW n, Typed(h, k, s, n), Good(h, k, s, n),
         Lawful(h, k, s), NEW g, Reads(g, h, s)
  PROVE  /\ Lawful(g[Len(s)], k, <<>>)
         /\ h.st # "none" /\ k.legal /\ ~k.done => FollowedTo(g, h, s, Len(s))
<1> DEFINE e == g[Len(s)]
<1>1. Ends(k.need, n) \in BOOLEAN /\ Counts(k) \in BOOLEAN
  BY EndsType DEF Typed
<1>2. Fits(Counts(k), Ends(k.need, n), h) /\ InOrder(h, s) /\ s \in Seq(Piece)
  BY DEF Good, Typed
<1>3. Len(s) \in 0..Len(s)
  BY <1>2, LenProperties
<1>4. Fits(Counts(k), Ends(k.need, n), e) /\ (e.st # "none" => h.st # "none")
  BY <1>1, <1>2, <1>3, ReadFits
<1>5. ASSUME h.st # "none", k.legal, ~k.done PROVE FollowedTo(g, h, s, Len(s))
  <2>1. /\ h.buf # "bad"
        /\ \A j \in 1..Len(s) : /\ Allowed(s[j].f, FragAt(h.frag, s, j))
                                /\ s[j].p = "rest" <=> HeadAt(h.buf, s, j)
    BY <1>5 DEF Lawful
  <2> QED BY <1>1, <1>2, <2>1, FollowsAll
<1>6. ASSUME e.st # "none", k.legal, ~k.done
      PROVE  /\ e.buf # "bad"
             /\ e.buf = "head" <=> HeadAt(h.buf, s, Len(s) + 1)
             /\ e.frag <=> FragAt(h.frag, s, Len(s) + 1)
  BY <1>4, <1>5, <1>6 DEF FollowedTo
<1> HIDE DEF e
<1>7. e.frag \in BOOLEAN
  BY <1>4 DEF Fits, Sound, Connection
<1>8. /\ Len(<<>>) = 0
      /\ FragAt(e.frag, <<>>, 0 + 1) <=> e.frag
      /\ HeadAt(e.buf, <<>>, 0 + 1) <=> e.buf = "head"
  BY <1>7, WithinFirst DEF HeadAt
<1>9. Lawful(e, k, <<>>)
  <2> SUFFICES ASSUME e.st # "none", k.legal, ~k.done
               PROVE  /\ e.buf # "bad"
                      /\ k.st = "up" =>
                           /\ k.half # "no" <=> HeadAt(e.buf, <<>>, 0 + 1)
                           /\ Allowed(k.half, FragAt(e.frag, <<>>, 0 + 1))
                           /\ k.frag <=> k.half = "frag"
                                \/ (FragAt(e.frag, <<>>, 0 + 1) /\ k.half # "cont")
    BY <1>8 DEF Lawful
  <2>1. k.st = "up" =>
          LET within == FragAt(h.frag, s, Len(s) + 1)
          IN  /\ k.half # "no" <=> HeadAt(h.buf, s, Len(s) + 1)
              /\ Allowed(k.half, within)
              /\ k.frag <=> k.half = "frag" \/ (within /\ k.half # "cont")
    BY <1>4 DEF Lawful
  <2> QED BY <1>6, <1>8, <2>1 DEF Allowed
<1> QED BY <1>5, <1>9 DEF e

\* The client sends the piece u, after which it is e.
LEMMA LawfulPiece ==
  ASSUME NEW h, NEW k, NEW s \in Seq(Piece), h.frag \in BOOLEAN, Lawful(h, k, s),
         k.st = "up", NEW e, NEW u \in Piece,
         h.st # "none" /\ e.legal /\ ~e.done =>
           /\ k.legal /\ ~k.done
           /\ LET within == FragAt(h.frag, s, Len(s) + 1)
                  after == u.f = "frag" \/ (within /\ u.f # "cont")
              IN  /\ Allowed(u.f, within)
                  /\ u.p = "rest" <=> k.half # "no"
                  /\ e.half # "no" <=> u.p = "head"
                  /\ Allowed(e.half, after)
                  /\ e.frag <=> e.half = "frag" \/ (after /\ e.half # "cont")
  PROVE  Lawful(h, e, Append(s, u))
<1> DEFINE t == Append(s, u)
           m == Len(s) + 1
           within == FragAt(h.frag, s, m)
           after == u.f = "frag" \/ (within /\ u.f # "cont")
<1>1. /\ Len(s) \in Nat /\ Len(t) = m /\ t[m] = u
      /\ \A j \in 1..Len(s) : t[j] = s[j]
  BY AppendProperties, LenProperties
<1>2. \A j \in 1..m : /\ FragAt(h.frag, t, j) <=> FragAt(h.frag, s, j)
                      /\ HeadAt(h.buf, t, j) <=> HeadAt(h.buf, s, j)
  BY WithinAppend
<1> SUFFICES ASSUME h.st # "none", e.legal, ~e.done PROVE Lawful(h, e, t)
  BY DEF Lawful
<1>3. /\ k.legal /\ ~k.done /\ Allowed(u.f, within) /\ (u.p = "rest" <=> k.half # "no")
      /\ e.half # "no" <=> u.p = "head"
      /\ Allowed(e.half, after)
      /\ e.frag <=> e.half = "frag" \/ (after /\ e.half # "cont")
  OBVIOUS
<1>4. /\ h.buf # "bad"
      /\ \A j \in 1..Len(s) : /\ Allowed(s[j].f, FragAt(h.frag, s, j))
                              /\ s[j].p = "rest" <=> HeadAt(h.buf, s, j)
      /\ k.half # "no" <=> HeadAt(h.buf, s, m)
  BY <1>3 DEF Lawful
<1> HIDE DEF t
<1>5. m \in Nat \ {0} /\ m \in 1..m /\ \A j \in 1..m : j = m \/ j \in 1..Len(s)
  BY <1>1
<1> HIDE DEF m
<1>6. /\ FragAt(h.frag, t, m + 1) <=> after
      /\ HeadAt(h.buf, t, m + 1) <=> u.p = "head"
  <2>1. FragAt(h.frag, t, m + 1) <=> t[m].f = "frag" \/ (FragAt(h.frag, t, m) /\ t[m].f # "cont")
    BY <1>5, WithinNext
  <2>2. HeadAt(h.buf, t, m + 1) <=> t[m].p = "head"
    BY <1>5, HeadNext
  <2> QED BY <1>1, <1>2, <1>5, <2>1, <2>2
<1>7. ASSUME NEW j \in 1..m
      PROVE  /\ Allowed(t[j].f, FragAt(h.frag, t, j))
             /\ t[j].p = "rest" <=> HeadAt(h.buf, t, j)
  <2>1. CASE j = m
    BY <1>1, <1>2, <1>3, <1>4, <1>5, <2>1 DEF Allowed
  <2>2. CASE j # m
    <3>1. j \in 1..Len(s) /\ t[j] = s[j]
      BY <1>1, <1>5, <2>2
    <3> QED BY <1>2, <1>4, <3>1 DEF Allowed
  <2> QED BY <2>1, <2>2
<1>8. /\ e.half # "no" <=> HeadAt(h.buf, t, m + 1)
      /\ Allowed(e.half, FragAt(h.frag, t, m + 1))
      /\ e.frag <=> e.half = "frag" \/ (FragAt(h.frag, t, m + 1) /\ e.half # "cont")
  <2> HIDE DEF after
  <2> QED BY <1>3, <1>6 DEF Allowed
<1> QED BY <1>1, <1>4, <1>7, <1>8 DEF Lawful

-----------------------------------------------------------------------------
LEMMA OneLawful ==
  ASSUME LawfulInv, NEW c \in Con,
         \A d \in Con \ {c} : hc'[d] = hc[d] /\ cl'[d] = cl[d] /\ sock'[d] = sock[d],
         Lawful(hc'[c], cl'[c], sock'[c])
  PROVE  \A d \in Con : Lawful(hc'[d], cl'[d], sock'[d])
<1> SUFFICES ASSUME NEW d \in Con PROVE Lawful(hc'[d], cl'[d], sock'[d])
  OBVIOUS
<1>1. CASE d = c
  BY <1>1
<1>2. CASE d # c
  <2>1. hc'[d] = hc[d] /\ cl'[d] = cl[d] /\ sock'[d] = sock[d]
    BY <1>2
  <2> QED BY <2>1 DEF LawfulInv
<1> QED BY <1>1, <1>2

\* What LegalIsServed says of the connection c.
ServedAt(c) ==
  hc[c].st = "ws" /\ ~hc[c].term /\ cl[c].legal /\ ~cl[c].done /\ cl[c].st # "gone" =>
    /\ hc'[c].st = "none" => Crowded(c)
    /\ hc'[c].term => \E i \in DOMAIN hc'[c].list : hc'[c].list[i].f \in {"1001", "1013"}

\* What a step does to the connection c and its client.
LawfulStep(c) == Lawful(hc'[c], cl'[c], sock'[c]) /\ ServedAt(c)

\* A step that leaves all other connections alone.
Alone(c) ==
  \A d \in Con \ {c} : hc'[d] = hc[d] /\ cl'[d] = cl[d] /\ sock'[d] = sock[d]

LEMMA FarewellSays ==
  ASSUME NEW l, l = Farewell PROVE \E i \in DOMAIN l : l[i].f \in {"1001", "1013"}
<1>1. 1 \in DOMAIN Farewell /\ Farewell[1].f = "1013"
  BY DEF Farewell
<1> QED BY <1>1

LEMMA AnsweredServed ==
  ASSUME NEW c \in Con, Answered(hc[c], hc'[c]), hc'[c].st # "none"
  PROVE  ServedAt(c)
<1>1. ~hc[c].term /\ hc'[c].term => hc'[c].list = Farewell
  BY DEF Answered
<1> QED BY <1>1, FarewellSays DEF ServedAt

LEMMA LawfulNow ==
  ASSUME LawfulInv, NEW c \in Con
  PROVE  /\ Typed(hc[c], cl[c], sock[c], net[c])
         /\ Good(hc[c], cl[c], sock[c], net[c])
         /\ Lawful(hc[c], cl[c], sock[c])
         /\ hc[c] \in Connection /\ cl[c] \in Client /\ sock[c] \in Seq(Piece)
BY GoodNow DEF LawfulInv, Typed

LEMMA FreeLawful == ASSUME NEW k, NEW s PROVE Lawful(Free, k, s)
BY DEF Free, Lawful

LEMMA SameServed == ASSUME NEW c \in Con, hc'[c] = hc[c], hc[c].st # "none" PROVE ServedAt(c)
BY DEF ServedAt

LEMMA AcceptLawful ==
  ASSUME LawfulInv, NEW c \in Con, lsnr_cb(c)
  PROVE  Alone(c) /\ LawfulStep(c)
<1> DEFINE g == [Free EXCEPT !.st = "http", !.rd = TRUE]
           e == [Nobody EXCEPT !.st = "up"]
<1>1. /\ hc' = [hc EXCEPT ![c] = g] /\ cl' = [cl EXCEPT ![c] = e] /\ sock' = sock
      /\ hc[c].st = "none" /\ sock[c] = <<>>
  BY LawfulNow DEF lsnr_cb, Good
<1>2. hc'[c] = g /\ cl'[c] = e /\ sock'[c] = <<>> /\ Alone(c)
  BY <1>1 DEF LawfulInv, FramesInv, TypeOK, Alone
<1>3. /\ g.frag = FALSE /\ g.buf = "empty" /\ e.half = "no" /\ e.frag = FALSE
  BY DEF Free, Nobody
<1> HIDE DEF g, e
<1> DEFINE t == <<>>
           m == Len(t) + 1
<1>4. m = 1 /\ Len(t) = 0 /\ 1..0 = {}
  OBVIOUS
<1>5. ~FragAt(g.frag, t, 1)
  <2>1. g.frag \in BOOLEAN /\ ~g.frag
    BY <1>3
  <2> HIDE DEF t
  <2> QED BY <2>1, WithinFirst
<1> HIDE DEF m
<1>6. ~FragAt(g.frag, t, m) /\ ~HeadAt(g.buf, t, m) /\ 1..Len(t) = {}
  <2> HIDE DEF t
  <2>1. ~HeadAt(g.buf, t, 1)
    BY <1>3 DEF HeadAt
  <2> QED BY <1>4, <1>5, <2>1
<1>7. Allowed(e.half, FragAt(g.frag, t, m))
  BY <1>3, <1>6 DEF Allowed
<1>8. Lawful(g, e, t)
  <2> HIDE DEF t
  <2> QED BY <1>3, <1>6, <1>7 DEF Lawful, m
<1> QED BY <1>1, <1>2, <1>8 DEF LawfulStep, ServedAt

LEMMA ReadLawful ==
  ASSUME LawfulInv, NEW c \in Con, hcon_in_cb(c)
  PROVE  Alone(c) /\ LawfulStep(c)
<1> DEFINE h == hc[c]
           k == cl[c]
           s == sock[c]
           n == net[c]
<1>1. Typed(h, k, s, n) /\ Good(h, k, s, n) /\ Lawful(h, k, s) /\ s \in Seq(Piece)
      /\ h \in Connection
  BY LawfulNow
<1>2. PICK g : /\ Reads(g, h, s)
               /\ hc' = [hc EXCEPT ![c] = IF k.st = "gone" THEN Free ELSE g[Len(s)]]
  BY <1>1, ReadIs
<1>3. /\ h.rd /\ (s # <<>> \/ k.st = "gone")
      /\ sock' = [sock EXCEPT ![c] = <<>>] /\ cl' = cl
  BY DEF hcon_in_cb
<1>4. /\ hc'[c] = IF k.st = "gone" THEN Free ELSE g[Len(s)]
      /\ cl'[c] = k /\ sock'[c] = <<>> /\ Alone(c)
  BY <1>2, <1>3 DEF LawfulInv, FramesInv, TypeOK, Alone
<1> DEFINE e == g[Len(s)]
<1> HIDE DEF h, k, s, n
<1>5. /\ Lawful(e, k, <<>>)
      /\ h.st # "none" /\ k.legal /\ ~k.done => FollowedTo(g, h, s, Len(s))
  BY <1>1, <1>2, LawfulRead
<1>6. Sound(e)
  <2>1. Typed(e, k, <<>>, n) /\ Good(e, k, <<>>, n)
    BY <1>1, <1>2, <1>3, ReadGood
  <2> QED BY <2>1 DEF Good, Fits
<1>7. Lawful(hc'[c], k, <<>>)
  BY <1>4, <1>5, FreeLawful
<1>8. ServedAt(c)
  <2> SUFFICES ASSUME h.st = "ws", ~h.term, k.legal, ~k.done, k.st # "gone"
               PROVE  /\ e.st = "none" => Crowded(c)
                      /\ e.term => \E i \in DOMAIN e.list : e.list[i].f \in {"1001", "1013"}
    BY <1>4 DEF ServedAt, h, k
  <2>1. FollowedTo(g, h, s, Len(s)) /\ s # <<>>
    BY <1>3, <1>5
  <2>2. ASSUME e.st = "none" PROVE Crowded(c)
    <3>1. Len(h.list) + 2 * Len(s) - 1 > HardLimit
      BY <2>1, <2>2 DEF FollowedTo
    <3>2. Len(h.list) \in Nat /\ Len(s) \in Nat \ {0} /\ HardLimit \in Nat
      BY <1>1, <2>1, LenProperties, EmptySeq, WebSocketAssumption
      DEF Connection, WebSocketAssumption
    <3>3. Len(h.list) + (2 * Len(s) - 1) > HardLimit
      BY <3>1, <3>2
    <3> QED BY <2>1, <3>3 DEF Crowded, h, s
  <2>3. ASSUME e.term PROVE e.list = Farewell
    <3>1. e.st # "none"
      BY <1>6, <2>3 DEF Sound, Free
    <3> QED BY <2>1, <2>3, <3>1 DEF FollowedTo
  <2> HIDE DEF e
  <2> QED BY <2>2, <2>3, FarewellSays
<1> QED BY <1>4, <1>7, <1>8 DEF LawfulStep

LEMMA WriteLawful ==
  ASSUME LawfulInv, NEW c \in Con, hcon_out_cb(c) \/ WriteError(c)
  PROVE  Alone(c) /\ LawfulStep(c)
<1>1. Lawful(hc[c], cl[c], sock[c]) /\ hc[c] \in Connection
  BY LawfulNow
<1>2. CASE WriteError(c)
  <2>1. /\ hc' = [hc EXCEPT ![c] = Free] /\ cl' = cl /\ sock' = sock /\ cl[c].st = "gone"
    BY <1>2 DEF WriteError, rem_connection
  <2>2. hc'[c] = Free /\ Alone(c)
    BY <2>1 DEF LawfulInv, FramesInv, TypeOK, Alone
  <2> QED BY <2>1, <2>2, FreeLawful DEF LawfulStep, ServedAt
<1>3. CASE hcon_out_cb(c)
  <2> DEFINE h == hc[c]
  <2>1. PICK l : /\ \/ hc' = [hc EXCEPT ![c] = [h EXCEPT !.list = l]]
                    \/ h.term /\ hc' = [hc EXCEPT ![c] = Free]
                    \/ hc' = [hc EXCEPT ![c] = [h EXCEPT !.list = <<>>, !.wr = FALSE]]
                 /\ cl' = cl /\ sock' = sock
    BY <1>3 DEF hcon_out_cb, rem_connection
  <2>2. /\ \/ hc'[c] = [h EXCEPT !.list = l]
           \/ h.term /\ hc'[c] = Free
           \/ hc'[c] = [h EXCEPT !.list = <<>>, !.wr = FALSE]
        /\ Alone(c)
    BY <2>1 DEF LawfulInv, FramesInv, TypeOK, Alone
  <2>3. CASE h.term /\ hc'[c] = Free
    BY <2>1, <2>3, FreeLawful DEF LawfulStep, ServedAt, Alone, LawfulInv, FramesInv, TypeOK
  <2>4. CASE hc'[c] # Free
    <3> DEFINE g == hc'[c]
    <3>1. g.st = h.st /\ g.term = h.term /\ g.frag = h.frag /\ g.buf = h.buf
      BY <1>1, <2>2, <2>4 DEF Connection
    <3>2. ServedAt(c)
      BY <3>1 DEF ServedAt
    <3>3. Kept(h, g)
      BY <3>1 DEF Kept
    <3> HIDE DEF g
    <3>4. Lawful(g, cl[c], sock[c])
      BY <1>1, <3>1, <3>3, LawfulKept
    <3> QED BY <2>1, <2>2, <3>2, <3>4 DEF LawfulStep, g
  <2>5. CASE hc'[c] = Free /\ ~h.term
    <3>1. h.st = "none"
      <4> DEFINE g == hc'[c]
      <4>1. h \in Connection /\ ~h.term /\ g.st = "none"
            /\ \/ g = [h EXCEPT !.list = l]
               \/ g = [h EXCEPT !.list = <<>>, !.wr = FALSE]
        BY <1>1, <2>2, <2>5 DEF Free
      <4> HIDE DEF g, h
      <4> QED BY <4>1 DEF Connection
    <3> QED BY <2>1, <2>2, <2>5, <3>1, FreeLawful DEF LawfulStep, ServedAt
  <2> QED BY <2>2, <2>3, <2>4, <2>5
<1> QED BY <1>2, <1>3

LEMMA TimerLawful ==
  ASSUME LawfulInv, NEW c \in Con, IdlePing(c) \/ PongTimeout(c)
  PROVE  Alone(c) /\ LawfulStep(c)
<1> DEFINE h == hc[c]
<1>1. Lawful(h, cl[c], sock[c]) /\ h \in Connection
  BY LawfulNow
<1>2. /\ h.st = "ws" /\ ~h.term /\ sock[c] = <<>> /\ cl' = cl /\ sock' = sock
      /\ Len(h.list) \in Nat /\ HardLimit \in Nat
  BY <1>1, WebSocketAssumption DEF IdlePing, PongTimeout, Connection, WebSocketAssumption
<1>3. Len(h.list) + 2 > HardLimit => Crowded(c)
  BY <1>2 DEF Crowded
<1>4. SUFFICES ASSUME NEW r \in Result, hc' = [hc EXCEPT ![c] = OrRemoved(r)],
                      Kept(h, r.h), ~r.ok => Len(h.list) + 2 > HardLimit,
                      r.h.st = "ws",
                      r.ok /\ r.h.term =>
                        \E i \in DOMAIN r.h.list : r.h.list[i].f \in {"1001", "1013"}
               PROVE  Alone(c) /\ LawfulStep(c)
  <2>1. CASE IdlePing(c)
    <3> DEFINE a == ws_send_frame(h, "ping", FALSE)
               r == [a EXCEPT !.h.wait = TRUE]
    <3>1. hc' = [hc EXCEPT ![c] = OrRemoved(r)]
      BY <2>1 DEF IdlePing
    <3>2. /\ a \in Result /\ Sends(h, a.h) /\ Answered(h, a.h) /\ Kept(h, a.h)
          /\ ~a.ok => h.term \/ Len(h.list) + 1 > HardLimit
      <4>1. "ping" \in Names /\ Size(FALSE) = 1
        BY DEF Names, Size
      <4> QED BY <1>1, <4>1, SendSends, SendAnswers
    <3> HIDE DEF a, h
    <3>3. /\ r \in Result /\ r.ok = a.ok /\ r.h.list = a.h.list /\ r.h.st = a.h.st
          /\ r.h.term = a.h.term /\ r.h.frag = a.h.frag /\ r.h.buf = a.h.buf
      BY <3>2 DEF Result, Connection
    <3> HIDE DEF r
    <3>4. Kept(h, r.h) /\ r.h.st = "ws"
      BY <1>2, <3>2, <3>3 DEF Kept, Sends
    <3>5. ~r.ok => Len(h.list) + 2 > HardLimit
      BY <1>2, <3>2, <3>3
    <3>6. r.h.term => r.h.list = Farewell
      BY <1>2, <3>2, <3>3 DEF Answered
    <3> QED BY <1>4, <3>1, <3>3, <3>4, <3>5, <3>6, FarewellSays DEF h
  <2>2. CASE PongTimeout(c)
    <3> DEFINE r == hs_ws_close(h, "1001")
               l == WithFrame(h.list, "1001", TRUE)
    <3>1. hc' = [hc EXCEPT ![c] = OrRemoved(r)]
      BY <2>2 DEF PongTimeout
    <3>2. "1001" \in Names
      BY DEF Names, Close
    <3>3. /\ r \in Result
          /\ \/ h.term /\ r.ok = TRUE /\ r.h = h
             \/ ~h.term /\ r.ok = TRUE /\ Changed(h, r.h, l, TRUE)
             \/ /\ ~h.term /\ r.ok = FALSE /\ Len(h.list) + 2 > HardLimit
                /\ Changed(h, r.h, Farewell, TRUE)
      BY <1>1, <3>2, CloseFrame
    <3> HIDE DEF r
    <3>4. \E i \in DOMAIN l : l[i].f \in {"1001", "1013"}
      <4> DEFINE b == Append(h.list, Header("1001"))
                 p == Payload("1001")
      <4>1. Header("1001") \in Item /\ p \in Item /\ Header("1001").f = "1001"
        BY <3>2 DEF Header, Payload, Item, Names
      <4>2. b \in Seq(Item) /\ Len(b) = Len(h.list) + 1 /\ b[Len(h.list) + 1].f = "1001"
        BY <1>1, <4>1, AppendProperties DEF Connection
      <4>3. l = Append(b, p)
        BY DEF WithFrame
      <4> HIDE DEF b, p, l
      <4>4. l \in Seq(Item) /\ Len(l) = Len(b) + 1 /\ \A j \in 1..Len(b) : l[j] = b[j]
        <5>1. /\ Append(b, p) \in Seq(Item) /\ Len(Append(b, p)) = Len(b) + 1
              /\ \A j \in 1..Len(b) : Append(b, p)[j] = b[j]
          BY <4>1, <4>2, AppendProperties
        <5> QED BY <4>3, <5>1
      <4>5. Len(h.list) + 1 \in DOMAIN l /\ Len(h.list) + 1 \in 1..Len(b)
        <5>1. Len(h.list) + 1 \in 1..Len(l) /\ Len(h.list) + 1 \in 1..Len(b)
          BY <1>2, <4>2, <4>4
        <5>2. DOMAIN l = 1..Len(l)
          BY <4>4, LenProperties, Zenon
        <5> QED BY <5>1, <5>2
      <4> QED BY <4>2, <4>4, <4>5
    <3> HIDE DEF l
    <3>5. Kept(h, r.h) /\ r.h.st = "ws" /\ (~r.ok => Len(h.list) + 2 > HardLimit)
      BY <1>2, <3>3 DEF Changed, Kept
    <3>6. r.ok => r.h.list = l
      BY <1>2, <3>3 DEF Changed
    <3> QED BY <1>4, <3>1, <3>3, <3>4, <3>5, <3>6
  <2> QED BY <2>1, <2>2
<1>5. hc'[c] = OrRemoved(r) /\ Alone(c)
  BY <1>2, <1>4 DEF LawfulInv, FramesInv, TypeOK, Alone
<1>6. OrRemoved(r) = IF r.ok THEN r.h ELSE Free
  BY DEF OrRemoved, rem_connection
<1>7. Lawful(hc'[c], cl'[c], sock'[c])
  <2>1. Lawful(r.h, cl[c], sock[c])
    <3> HIDE DEF h
    <3> QED BY <1>1, <1>2, <1>4, LawfulKept
  <2> QED BY <1>2, <1>5, <1>6, <2>1, FreeLawful
<1>8. ServedAt(c)
  <2>1. CASE r.ok
    BY <1>4, <1>5, <1>6, <2>1 DEF ServedAt
  <2>2. CASE ~r.ok
    BY <1>3, <1>4, <1>5, <1>6, <2>2 DEF ServedAt, Free
  <2> QED BY <2>1, <2>2
<1> QED BY <1>5, <1>7, <1>8 DEF LawfulStep

LEMMA PublishLawful ==
  ASSUME LawfulInv, eventbus_publish, NEW c \in Con
  PROVE  LawfulStep(c)
<1> DEFINE h == hc[c]
           g == hc'[c]
<1>1. Lawful(h, cl[c], sock[c]) /\ h \in Connection
  BY LawfulNow
<1>2. g = broadcast_event(h) /\ cl' = cl /\ sock' = sock
  BY DEF eventbus_publish
<1>3. CASE h.st = "ws"
  <2> DEFINE r == ws_send_frame(h, "text", TRUE)
  <2>1. g = r.h
    BY <1>2, <1>3 DEF broadcast_event
  <2>2. Sends(h, r.h) /\ Answered(h, r.h) /\ Kept(h, r.h)
    <3>1. "text" \in Names
      BY DEF Names
    <3> QED BY <1>1, <3>1, SendSends, SendAnswers
  <2> HIDE DEF r
  <2>3. Answered(hc[c], hc'[c]) /\ hc'[c].st # "none"
    BY <1>3, <2>1, <2>2 DEF Sends
  <2>4. ServedAt(c)
    BY <2>3, AnsweredServed
  <2> HIDE DEF h, g
  <2>5. Lawful(g, cl[c], sock[c])
    BY <1>1, <1>3, <2>1, <2>2, LawfulKept
  <2> QED BY <1>2, <2>4, <2>5 DEF LawfulStep, g
<1>4. CASE h.st # "ws"
  <2>1. g = h
    BY <1>2, <1>4 DEF broadcast_event
  <2> QED BY <1>1, <1>2, <1>4, <2>1 DEF LawfulStep, ServedAt
<1> QED BY <1>3, <1>4

\* A client sends, by its rules as long as it is legal.
LEMMA SendLawful ==
  ASSUME LawfulInv, NEW c \in Con,
         \/ \E r \in Request : ClientAsk(c, r)
         \/ \E f \in Frame, p \in {"all", "head"} : ClientSend(c, f, p)
         \/ ClientSendRest(c)
  PROVE  Alone(c) /\ LawfulStep(c)
<1> DEFINE h == hc[c]
           k == cl[c]
           s == sock[c]
           w == FragAt(h.frag, s, Len(s) + 1)
           after(u) == u.f = "frag" \/ (w /\ u.f # "cont")
           Rules(u, e) == /\ k.legal /\ ~k.done
                          /\ Allowed(u.f, w)
                          /\ u.p = "rest" <=> k.half # "no"
                          /\ e.half # "no" <=> u.p = "head"
                          /\ Allowed(e.half, after(u))
                          /\ e.frag <=> e.half = "frag" \/ (after(u) /\ e.half # "cont")
<1>1. Lawful(h, k, s) /\ h \in Connection /\ k \in Client /\ s \in Seq(Piece)
      /\ h.frag \in BOOLEAN /\ (k.half # "no" => k.ws)
  BY LawfulNow DEF Connection, Good
<1>2. k.st = "up" /\ hc' = hc /\ h.st # "none"
  <2>1. k.st = "up" /\ h.rd /\ hc' = hc
    BY DEF ClientAsk, ClientSend, ClientSendRest, Talks
  <2>2. Sound(h)
    BY LawfulNow DEF Good, Fits
  <2> QED BY <2>1, <2>2 DEF Sound, Free
<1>3. k.legal /\ ~k.done =>
        /\ Allowed(k.half, w)
        /\ k.frag <=> k.half = "frag" \/ (w /\ k.half # "cont")
  BY <1>1, <1>2 DEF Lawful
<1>4. ASSUME NEW u \in Piece, NEW e,
             cl' = [cl EXCEPT ![c] = e], sock' = [sock EXCEPT ![c] = Append(s, u)],
             e.legal /\ ~e.done => Rules(u, e)
      PROVE  Alone(c) /\ LawfulStep(c)
  <2>1. cl'[c] = e /\ sock'[c] = Append(s, u) /\ Alone(c)
    BY <1>2, <1>4 DEF LawfulInv, FramesInv, TypeOK, Alone
  <2>2. Lawful(h, e, Append(s, u))
    <3> HIDE DEF h, k, s
    <3> QED BY <1>1, <1>2, <1>4, LawfulPiece
  <2>3. ServedAt(c)
    BY <1>2, SameServed
  <2> QED BY <1>2, <2>1, <2>2, <2>3 DEF LawfulStep
<1>5. ASSUME NEW r \in Request, ClientAsk(c, r) PROVE Alone(c) /\ LawfulStep(c)
  <2> DEFINE u == [f |-> r, p |-> "all"]
             e == [k EXCEPT !.ws = (r = "upgrade")]
  <2>1. cl' = [cl EXCEPT ![c] = e] /\ sock' = [sock EXCEPT ![c] = Append(s, u)] /\ ~k.ws
    <3>1. /\ cl' = [cl EXCEPT ![c].ws = (r = "upgrade")]
          /\ sock' = [sock EXCEPT ![c] = Append(@, u)] /\ ~k.ws
      BY <1>5 DEF ClientAsk
    <3> QED BY <3>1 DEF LawfulInv, FramesInv, TypeOK
  <2>2. /\ e.half = "no" /\ k.half = "no" /\ e.frag = k.frag /\ e.legal = k.legal
        /\ e.done = k.done
    <3> HIDE DEF k
    <3> QED BY <1>1, <2>1 DEF Client
  <2>3. u \in Piece /\ u.f = r /\ u.p = "all"
    BY DEF Piece
  <2>4. e.legal /\ ~e.done => Rules(u, e)
    <3> HIDE DEF e, u, k, w
    <3> QED BY <1>3, <2>2, <2>3 DEF Allowed, Request
  <2> HIDE DEF u, e, Rules
  <2> QED BY <1>4, <2>1, <2>3, <2>4
<1>6. ASSUME NEW f \in Frame, NEW p \in {"all", "head"}, ClientSend(c, f, p)
      PROVE  Alone(c) /\ LawfulStep(c)
  <2> DEFINE u == [f |-> IF p = "head" THEN "part" ELSE f, p |-> p]
             a == IF p = "head" THEN f ELSE k.half
             b == f = "frag" \/ (k.frag /\ f # "cont")
             d == k.legal /\ Legal(c, f)
             x == f = "close"
             e == [k EXCEPT !.half = a, !.frag = b, !.legal = d, !.done = x]
  <2>1. /\ cl' = [cl EXCEPT ![c] = e] /\ sock' = [sock EXCEPT ![c] = Append(s, u)]
        /\ k.half = "no" /\ ~k.done
    <3>1. /\ cl' = [cl EXCEPT ![c].half = IF p = "head" THEN f ELSE @,
                      ![c].frag = (f = "frag" \/ (@ /\ f # "cont")),
                      ![c].legal = @ /\ Legal(c, f),
                      ![c].done = (f = "close")]
          /\ sock' = [sock EXCEPT ![c] = Append(@, u)] /\ k.half = "no" /\ ~k.done
      BY <1>6 DEF ClientSend
    <3> QED BY <3>1 DEF LawfulInv, FramesInv, TypeOK
  <2>2. e.half = a /\ e.frag = b /\ e.legal = d /\ e.done = x
    <3> HIDE DEF a, b, d, x, k
    <3> QED BY <1>1 DEF Client
  <2>3. u \in Piece /\ u.p = p /\ (p = "all" => u.f = f) /\ (p = "head" => u.f = "part")
    BY DEF Piece
  <2>4. d => k.legal /\ f \notin {"badjson", "badutf8", "illegal"}
             /\ (f \in {"text", "frag"} => ~k.frag) /\ (f = "cont" => k.frag)
    BY DEF Legal
  <2>5. f # "no" /\ "part" \notin Frame
    BY DEF Frame, Data
  <2> HIDE DEF u, e, d
  <2>6. e.legal /\ ~e.done => Rules(u, e)
    <3> SUFFICES ASSUME d, f # "close" PROVE Rules(u, e)
      BY <2>2
    <3>1. k.legal /\ ~k.done /\ (k.frag <=> w) /\ Allowed(f, w)
      <4> HIDE DEF k, w
      <4> QED BY <1>3, <2>1, <2>4 DEF Allowed
    <3> HIDE DEF k, w
    <3>2. CASE p = "all"
      <4>1. u.f = f /\ u.p = "all" /\ e.half = "no"
        BY <2>1, <2>2, <2>3, <3>2
      <4>2. e.frag <=> f = "frag" \/ (w /\ f # "cont")
        BY <2>2, <3>1
      <4> QED BY <2>1, <3>1, <4>1, <4>2 DEF Allowed
    <3>3. CASE p = "head"
      <4>1. u.f = "part" /\ u.p = "head" /\ e.half = f
        BY <2>2, <2>3, <3>3
      <4>2. e.frag <=> f = "frag" \/ (w /\ f # "cont")
        BY <2>2, <3>1
      <4> QED BY <2>1, <2>5, <3>1, <4>1, <4>2 DEF Allowed
    <3> QED BY <3>2, <3>3
  <2> HIDE DEF Rules
  <2> QED BY <1>4, <2>1, <2>3, <2>6
<1>7. ASSUME ClientSendRest(c) PROVE Alone(c) /\ LawfulStep(c)
  <2> DEFINE u == [f |-> k.half, p |-> "rest"]
             e == [k EXCEPT !.half = "no"]
  <2>1. cl' = [cl EXCEPT ![c] = e] /\ sock' = [sock EXCEPT ![c] = Append(s, u)]
        /\ k.half # "no"
    <3>1. /\ cl' = [cl EXCEPT ![c].half = "no"]
          /\ sock' = [sock EXCEPT ![c] = Append(@, u)] /\ k.half # "no"
      BY <1>7 DEF ClientSendRest
    <3> QED BY <3>1 DEF LawfulInv, FramesInv, TypeOK
  <2>2. e.half = "no" /\ e.frag = k.frag /\ e.legal = k.legal /\ e.done = k.done
    <3> HIDE DEF k
    <3> QED BY <1>1 DEF Client
  <2>3. u \in Piece /\ u.f = k.half /\ u.p = "rest"
    <3>1. k.half \in Frame
      <4> HIDE DEF k
      <4> QED BY <1>1, <2>1 DEF Client
    <3> HIDE DEF k
    <3> QED BY <3>1 DEF Piece
  <2>4. e.legal /\ ~e.done => Rules(u, e)
    <3> HIDE DEF e, u, k, w
    <3> QED BY <1>3, <2>1, <2>2, <2>3 DEF Allowed
  <2> HIDE DEF u, e, Rules
  <2> QED BY <1>4, <2>1, <2>3, <2>4
<1> QED BY <1>5, <1>6, <1>7

LEMMA ClientLawful ==
  ASSUME LawfulInv, NEW c \in Con,
         ClientRead(c) \/ ClientCloses(c) \/ ClientHangs(c) \/ ClientEnds(c)
  PROVE  Alone(c) /\ LawfulStep(c)
<1> DEFINE h == hc[c]
           k == cl[c]
           e == cl'[c]
<1>1. Lawful(h, k, sock[c]) /\ k \in Client
  BY LawfulNow
<1>2. hc' = hc
  BY DEF ClientRead, ClientCloses, ClientHangs, ClientEnds
<1>3. CASE ClientEnds(c)
  <2>1. h.st = "none" /\ Alone(c)
    BY <1>2, <1>3 DEF ClientEnds, Alone, LawfulInv, FramesInv, TypeOK
  <2> QED BY <1>2, <2>1 DEF LawfulStep, ServedAt, Lawful
<1>4. CASE ClientRead(c) \/ ClientCloses(c) \/ ClientHangs(c)
  <2>1. sock' = sock
    BY <1>4 DEF ClientRead, ClientCloses, ClientHangs
  <2>2. ServedAt(c)
    BY <1>2 DEF ServedAt
  <2>3. /\ Alone(c) /\ e.legal = k.legal /\ e.done = k.done
        /\ e.st = "up" => k.st = "up" /\ e.half = k.half /\ e.frag = k.frag
    <3>1. CASE ClientRead(c)
      <4> DEFINE i == Head(net[c])
                 a == [k EXCEPT !.need = (i.p = "hdr"),
                                !.torn = IF @ = "no" /\ k.need # (i.p = "pay")
                                         THEN i.f ELSE @]
      <4>1. cl' = [cl EXCEPT ![c] = a]
        <5>1. cl' = [cl EXCEPT
                 ![c].need = (i.p = "hdr"),
                 ![c].torn = IF @ = "no" /\ k.need # (i.p = "pay") THEN i.f ELSE @]
          BY <3>1 DEF ClientRead
        <5> QED BY <5>1 DEF LawfulInv, FramesInv, TypeOK
      <4>2. e = a /\ Alone(c)
        BY <1>2, <2>1, <4>1 DEF LawfulInv, FramesInv, TypeOK, Alone
      <4>3. /\ a.legal = k.legal /\ a.done = k.done /\ a.st = k.st /\ a.half = k.half
            /\ a.frag = k.frag
        <5> HIDE DEF k, i
        <5> QED BY <1>1 DEF Client
      <4> QED BY <4>2, <4>3
    <3>2. CASE ClientCloses(c) \/ ClientHangs(c)
      <4> DEFINE b(st) == [Silent(c) EXCEPT !.st = st]
      <4>1. PICK st \in {"deaf", "gone"} : cl' = [cl EXCEPT ![c] = b(st)]
        BY <3>2 DEF ClientCloses, ClientHangs
      <4>2. e = b(st) /\ Alone(c)
        BY <1>2, <2>1, <4>1 DEF LawfulInv, FramesInv, TypeOK, Alone
      <4>3. b(st).legal = k.legal /\ b(st).done = k.done /\ b(st).st # "up"
        BY DEF Silent, Nobody
      <4> QED BY <4>2, <4>3
    <3> QED BY <1>4, <3>1, <3>2
  <2>4. Lawful(h, e, sock[c])
    <3> HIDE DEF e, k, h
    <3> QED BY <1>1, <2>3 DEF Lawful
  <2> QED BY <1>2, <2>1, <2>2, <2>3, <2>4 DEF LawfulStep
<1> QED BY <1>3, <1>4

LEMMA LawfulSteps ==
  ASSUME LawfulInv, [Next]_vars
  PROVE  /\ LawfulInv'
         /\ \/ UNCHANGED vars
            \/ \A c \in Con : ServedAt(c)
<1>1. FramesInv'
  BY FramesStep DEF LawfulInv
<1>2. CASE UNCHANGED vars
  BY <1>1, <1>2 DEF LawfulInv, vars
<1>3. ASSUME NEW c \in Con, Alone(c), LawfulStep(c)
      PROVE  LawfulInv' /\ \A d \in Con : ServedAt(d)
  <2>1. \A d \in Con : Lawful(hc'[d], cl'[d], sock'[d])
    BY <1>3, OneLawful DEF Alone, LawfulStep
  <2>2. ASSUME NEW d \in Con, d # c PROVE ServedAt(d)
    BY <1>3, <2>2 DEF Alone, ServedAt
  <2> QED BY <1>1, <1>3, <2>1, <2>2 DEF LawfulInv, LawfulStep
<1>4. ASSUME NEW c \in Con, lsnr_cb(c) PROVE Alone(c) /\ LawfulStep(c)
  BY <1>4, AcceptLawful
<1>5. ASSUME NEW c \in Con, hcon_in_cb(c) PROVE Alone(c) /\ LawfulStep(c)
  BY <1>5, ReadLawful
<1>6. ASSUME NEW c \in Con, hcon_out_cb(c) \/ WriteError(c) PROVE Alone(c) /\ LawfulStep(c)
  BY <1>6, WriteLawful
<1>7. ASSUME NEW c \in Con, IdlePing(c) \/ PongTimeout(c) PROVE Alone(c) /\ LawfulStep(c)
  BY <1>7, TimerLawful
<1>8. ASSUME NEW c \in Con,
             \/ \E r \in Request : ClientAsk(c, r)
             \/ \E f \in Frame, p \in {"all", "head"} : ClientSend(c, f, p)
             \/ ClientSendRest(c)
      PROVE  Alone(c) /\ LawfulStep(c)
  BY <1>8, SendLawful
<1>9. ASSUME NEW c \in Con,
             ClientRead(c) \/ ClientCloses(c) \/ ClientHangs(c) \/ ClientEnds(c)
      PROVE  Alone(c) /\ LawfulStep(c)
  BY <1>9, ClientLawful
<1>10. ASSUME eventbus_publish PROVE LawfulInv' /\ \A c \in Con : ServedAt(c)
  <2>1. \A c \in Con : LawfulStep(c)
    BY <1>10, PublishLawful
  <2> QED BY <1>1, <2>1 DEF LawfulInv, LawfulStep
<1>11. CASE Next
  BY <1>3, <1>4, <1>5, <1>6, <1>7, <1>8, <1>9, <1>10, <1>11 DEF Next
<1> QED BY <1>2, <1>11

LEMMA LawfulInit == Init => LawfulInv
<1> SUFFICES ASSUME Init PROVE LawfulInv
  OBVIOUS
<1>1. \A c \in Con : hc[c] = Free
  BY DEF Init
<1> QED BY <1>1, FramesInit, FreeLawful DEF LawfulInv

\* Whatever pieces a client's messages come in, the server has read them as they
\* were sent: its ws_frag_active and ws_inbuf are where the client is, but for the
\* pieces on their way (ws_raw_data_cb).
THEOREM LawfulInductive == Spec => []LawfulInv
<1>1. Init => LawfulInv
  BY LawfulInit
<1>2. LawfulInv /\ [Next]_vars => LawfulInv'
  BY LawfulSteps
<1> QED BY <1>1, <1>2, PTL DEF Spec

\* A client that keeps to the protocol is not turned away unless the queue is full
\* or it has not answered a ping (ws_raw_data_cb, ws_timer_cb, queue_response_data).
THEOREM LawfulAreServed == Spec => LegalIsServed
<1>1. LawfulInv /\ [Next]_vars =>
        [\A c \in Con :
           hc[c].st = "ws" /\ ~hc[c].term /\ cl[c].legal /\ ~cl[c].done /\ cl[c].st # "gone" =>
             /\ hc'[c].st = "none" => Crowded(c)
             /\ hc'[c].term =>
                  \E i \in DOMAIN hc'[c].list : hc'[c].list[i].f \in {"1001", "1013"}]_vars
  BY LawfulSteps DEF ServedAt
<1> QED BY <1>1, LawfulInductive, PTL DEF Spec, LegalIsServed
=============================================================================
