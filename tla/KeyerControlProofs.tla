------------------------- MODULE KeyerControlProofs -------------------------
(* Proofs about KeyerControl for every number of clients and channels, every *)
(* size of the queue and the line, and any number of faults.                 *)
EXTENDS KeyerControl, SequenceTheorems, FiniteSetTheorems, TLAPS

-----------------------------------------------------------------------------
(* Counting the callbacks of a sequence of commands. *)

LEMMA CountType ==
  ASSUME NEW s \in Seq(Command), NEW cb
  PROVE  /\ IsFiniteSet({k \in DOMAIN s : s[k].cb = cb})
         /\ Count(s, cb) \in Nat
<1> DEFINE P == {k \in DOMAIN s : s[k].cb = cb}
<1>1. Len(s) \in Nat /\ DOMAIN s = 1..Len(s)
  BY LenProperties
<1>2. IsFiniteSet(1..Len(s))
  BY <1>1, FS_Interval
<1>3. IsFiniteSet(P)
  BY <1>1, <1>2, FS_Subset
<1> QED BY <1>3, FS_CardinalityType DEF Count

LEMMA CountEmpty == \A cb : Count(<<>>, cb) = 0
<1> SUFFICES ASSUME NEW cb PROVE Count(<<>>, cb) = 0
  OBVIOUS
<1>1. {k \in DOMAIN <<>> : <<>>[k].cb = cb} = {}
  OBVIOUS
<1> QED BY <1>1, FS_EmptySet DEF Count

LEMMA CountOne ==
  ASSUME NEW m, NEW cb
  PROVE  Count(<<m>>, cb) = IF m.cb = cb THEN 1 ELSE 0
<1>1. DOMAIN <<m>> = {1} /\ <<m>>[1] = m
  OBVIOUS
<1>2. CASE m.cb = cb
  <2>1. {k \in DOMAIN <<m>> : <<m>>[k].cb = cb} = {1}
    BY <1>1, <1>2
  <2> QED BY <1>2, <2>1, FS_Singleton DEF Count
<1>3. CASE m.cb # cb
  <2>1. {k \in DOMAIN <<m>> : <<m>>[k].cb = cb} = {}
    BY <1>1, <1>3
  <2> QED BY <1>3, <2>1, FS_EmptySet DEF Count
<1> QED BY <1>2, <1>3

\* Moving positions by a constant does not change how many there are.
LEMMA ShiftKeeps ==
  ASSUME NEW P \in SUBSET Nat, IsFiniteSet(P), NEW n \in Nat
  PROVE  /\ IsFiniteSet({k + n : k \in P})
         /\ Cardinality({k + n : k \in P}) = Cardinality(P)
<1> DEFINE T == {k + n : k \in P}
           f == [k \in P |-> k + n]
<1>1. f \in Injection(P, T)
  BY DEF Injection, IsInjective
<1>2. f \in Surjection(P, T)
  BY DEF Surjection
<1>3. ExistsBijection(P, T)
  BY <1>1, <1>2 DEF ExistsBijection, Bijection
<1> QED BY <1>3, FS_Bijection

LEMMA CountConcat ==
  ASSUME NEW s \in Seq(Command), NEW t \in Seq(Command), NEW cb
  PROVE  /\ s \o t \in Seq(Command)
         /\ Count(s \o t, cb) = Count(s, cb) + Count(t, cb)
<1> DEFINE n == Len(s)
           P == {k \in DOMAIN s : s[k].cb = cb}
           Q == {k \in DOMAIN t : t[k].cb = cb}
           R == {k \in DOMAIN (s \o t) : (s \o t)[k].cb = cb}
           T == {k + n : k \in Q}
<1>1. /\ s \o t \in Seq(Command) /\ Len(s \o t) = n + Len(t)
      /\ \A i \in 1..(n + Len(t)) : (s \o t)[i] = IF i <= n THEN s[i] ELSE t[i - n]
      /\ DOMAIN (s \o t) = 1..(n + Len(t))
  BY ConcatProperties, LenProperties
<1>2. n \in Nat /\ Len(t) \in Nat /\ DOMAIN s = 1..n /\ DOMAIN t = 1..Len(t)
  BY LenProperties
<1>3. P \cup T = R
  <2> HIDE DEF n
  <2>1. \A k \in P \cup T : k \in R
    BY <1>1, <1>2
  <2>2. \A k \in R : k \notin P => k \in T
    <3> SUFFICES ASSUME NEW k \in R, k \notin P PROVE k \in T
      OBVIOUS
    <3>1. k \in 1..(n + Len(t)) /\ ~(k <= n)
      BY <1>1, <1>2
    <3>2. k - n \in Q /\ (k - n) + n = k
      BY <1>1, <1>2, <3>1
    <3> QED BY <3>2
  <2> QED BY <2>1, <2>2
<1>4. P \cap T = {}
  BY <1>2
<1>5. IsFiniteSet(P) /\ IsFiniteSet(Q) /\ Cardinality(P) \in Nat /\ Cardinality(Q) \in Nat
  BY CountType, FS_CardinalityType
<1>6. IsFiniteSet(T) /\ Cardinality(T) = Cardinality(Q)
  BY <1>2, <1>5, ShiftKeeps, Q \subseteq Nat
<1> HIDE DEF P, T, R
<1>7. Cardinality(R) = Cardinality(P) + Cardinality(T) - Cardinality(P \cap T)
  BY <1>3, <1>5, <1>6, FS_Union
<1>8. Cardinality(P \cap T) = 0
  BY <1>4, FS_EmptySet
<1>9. Cardinality(R) = Cardinality(P) + Cardinality(Q)
  BY <1>5, <1>6, <1>7, <1>8
<1> QED BY <1>1, <1>9 DEF Count, P, Q, R

LEMMA CountHead ==
  ASSUME NEW s \in Seq(Command), s # <<>>, NEW cb
  PROVE  /\ s[1] \in Command /\ Tail(s) \in Seq(Command) /\ Len(Tail(s)) = Len(s) - 1
         /\ Count(s, cb) = Count(Tail(s), cb) + IF s[1].cb = cb THEN 1 ELSE 0
<1>1. /\ Head(s) \in Command /\ Tail(s) \in Seq(Command) /\ Len(Tail(s)) = Len(s) - 1
      /\ Head(s) = s[1]
  BY HeadTailProperties
<1>2. s = <<Head(s)>> \o Tail(s)
  BY <1>1
<1>3. <<Head(s)>> \in Seq(Command)
  BY <1>1
<1> DEFINE h == <<Head(s)>>
           t == Tail(s)
<1>4. Count(h, cb) = IF s[1].cb = cb THEN 1 ELSE 0
  BY <1>1, CountOne
<1>5. Count(t, cb) \in Nat
  BY <1>1, CountType
<1> HIDE DEF h, t
<1>6. Count(h \o t, cb) = Count(h, cb) + Count(t, cb)
  BY <1>1, <1>3, CountConcat DEF h, t
<1>7. Count(s, cb) = Count(h, cb) + Count(t, cb)
  BY <1>2, <1>6 DEF h, t
<1> QED BY <1>1, <1>4, <1>5, <1>7 DEF t

\* The commands that fit and those that do not.
LEMMA CountSplit ==
  ASSUME NEW s \in Seq(Command), NEW n \in 0..Len(s), NEW cb
  PROVE  /\ SubSeq(s, 1, n) \in Seq(Command) /\ Len(SubSeq(s, 1, n)) = n
         /\ SubSeq(s, n + 1, Len(s)) \in Seq(Command)
         /\ Count(SubSeq(s, 1, n), cb) + Count(SubSeq(s, n + 1, Len(s)), cb) = Count(s, cb)
<1>1. Len(s) \in Nat /\ \A i \in 1..Len(s) : s[i] \in Command
  BY LenProperties, ElementOfSeq
<1>2. /\ SubSeq(s, 1, n) \in Seq(Command) /\ Len(SubSeq(s, 1, n)) = n
      /\ SubSeq(s, n + 1, Len(s)) \in Seq(Command)
  BY <1>1, SubSeqProperties
<1>3. 1 \in 1..(Len(s) + 1) /\ n \in (1 - 1)..Len(s) /\ Len(s) \in n..Len(s)
  BY <1>1
<1>4. SubSeq(s, 1, n) \o SubSeq(s, n + 1, Len(s)) = SubSeq(s, 1, Len(s))
  BY <1>3, ConcatAdjacentSubSeq
<1> DEFINE x == SubSeq(s, 1, n)
           y == SubSeq(s, n + 1, Len(s))
<1>5. x \o y = s /\ x \in Seq(Command) /\ y \in Seq(Command)
  BY <1>2, <1>4, SubSeqFull
<1> HIDE DEF x, y
<1>6. Count(x, cb) + Count(y, cb) = Count(s, cb)
  <2>1. Count(x \o y, cb) = Count(x, cb) + Count(y, cb)
    <3>1. x \in Seq(Command) /\ y \in Seq(Command)
      BY <1>5
    <3> QED BY <3>1, CountConcat
  <2>2. x \o y = s
    BY <1>5
  <2> QED BY <2>1, <2>2
<1> QED BY <1>2, <1>6 DEF x, y

\* Sending a command does not change whose it is.
LEMMA CountSent ==
  ASSUME NEW s \in Seq(Command), s # <<>>, NEW cb
  PROVE  /\ [s EXCEPT ![1].sent = TRUE] \in Seq(Command)
         /\ Len([s EXCEPT ![1].sent = TRUE]) = Len(s)
         /\ Count([s EXCEPT ![1].sent = TRUE], cb) = Count(s, cb)
<1>1. Len(s) \in Nat \ {0} /\ 1 \in 1..Len(s) /\ DOMAIN s = 1..Len(s)
  BY EmptySeq, LenProperties
<1>2. s[1] \in Command
  BY <1>1, ElementOfSeq
<1> DEFINE m == [s[1] EXCEPT !.sent = TRUE]
           t == [s EXCEPT ![1] = m]
<1>3. [s EXCEPT ![1].sent = TRUE] = t
  OBVIOUS
<1>4. m \in Command /\ m.cb = s[1].cb
  BY <1>2 DEF Command
<1> HIDE DEF m
<1>5. /\ t \in Seq(Command) /\ Len(t) = Len(s)
      /\ \A j \in 1..Len(s) : t[j] = IF j = 1 THEN m ELSE s[j]
  BY <1>1, <1>4, ExceptSeq
<1>6. DOMAIN t = DOMAIN s
  OBVIOUS
<1> HIDE DEF t
<1>7. {k \in DOMAIN t : t[k].cb = cb} = {k \in DOMAIN s : s[k].cb = cb}
  BY <1>1, <1>4, <1>5, <1>6
<1> QED BY <1>3, <1>5, <1>7 DEF Count

LEMMA CountPositive ==
  ASSUME NEW s \in Seq(Command), NEW cb
  PROVE  Count(s, cb) = 0 <=> \A k \in DOMAIN s : s[k].cb # cb
BY CountType, FS_EmptySet, SMTT(30) DEF Count

-----------------------------------------------------------------------------
(* The work a callback leaves to do. *)

Work == [st : CtlState, idx : 0..NumChan, cmds : Seq(Command), err : BOOLEAN]

\* Commands and deferred errors that continue the initializer.
Added(r) == Count(r.cmds, "init") + IF r.err THEN 1 ELSE 0

\* How many commands or deferred errors of the initializer there should be.
Links(st) == IF st \in Initializing THEN 1 ELSE 0

\* No command is a client's.
Own(r) == \A c \in Client : Count(r.cmds, c) = 0

LEMMA NewCommand ==
  ASSUME NEW op \in Op, NEW cb \in Callback
  PROVE  /\ New(op, cb) \in Command /\ New(op, cb).cb = cb /\ New(op, cb).op = op
         /\ <<New(op, cb)>> \in Seq(Command) /\ Len(<<New(op, cb)>>) = 1
BY DEF New, Command

LEMMA Names ==
  /\ "init" \in Callback /\ "beat" \in Callback /\ "none" \in Callback
  /\ Client \subseteq Callback
  /\ \A c \in Client : c # "init" /\ c # "beat" /\ c # "none"
  /\ "init" \in Deferrable /\ Client \subseteq Deferrable
BY ControlAssumption DEF Callback, Deferrable

LEMMA WorkOf ==
  ASSUME NEW st \in CtlState, NEW i \in 0..NumChan, NEW cmds \in Seq(Command), NEW err \in BOOLEAN
  PROVE  /\ Does(st, i, cmds, err) \in Work
         /\ Does(st, i, cmds, err).st = st /\ Does(st, i, cmds, err).idx = i
         /\ Does(st, i, cmds, err).cmds = cmds /\ Does(st, i, cmds, err).err = err
BY DEF Does, Work

LEMMA AddedIs ==
  ASSUME NEW s \in Seq(Command), NEW r, r.cmds = s, r.err = FALSE
  PROVE  Added(r) = Count(s, "init") /\ (Own(r) <=> \A c \in Client : Count(s, c) = 0)
<1>1. Count(s, "init") \in Nat
  BY CountType
<1> QED BY <1>1 DEF Added, Own

LEMMA NothingWork ==
  ASSUME TypeOK
  PROVE  /\ Nothing \in Work /\ Nothing.st = state /\ Nothing.idx = idx
         /\ Nothing.cmds = <<>> /\ Nothing.err = FALSE
         /\ Own(Nothing) /\ Added(Nothing) = 0
<1>1. <<>> \in Seq(Command)
  BY EmptySeq
<1>2. state \in CtlState /\ idx \in 0..NumChan
  BY DEF TypeOK
<1>3. /\ Nothing \in Work /\ Nothing.st = state /\ Nothing.idx = idx
      /\ Nothing.cmds = <<>> /\ Nothing.err = FALSE
  BY <1>1, <1>2 DEF Nothing, Does, Work
<1> QED BY <1>3, CountEmpty DEF Own, Added

\* A single command of the initializer.
LEMMA OneInit ==
  ASSUME NEW op \in Op
  PROVE  /\ Count(<<New(op, "init")>>, "init") = 1
         /\ \A c \in Client : Count(<<New(op, "init")>>, c) = 0
<1>1. New(op, "init").cb = "init"
  BY NewCommand, Names
<1> QED BY <1>1, CountOne, Names

LEMMA LoadCfgWork ==
  ASSUME NEW cmds \in Seq(Command), NEW err \in BOOLEAN, \A c \in Client : Count(cmds, c) = 0
  PROVE  /\ LoadCfg(cmds, err) \in Work /\ Own(LoadCfg(cmds, err))
         /\ LoadCfg(cmds, err).st \in {"LOAD_CFG", "DISABLED"}
         /\ cmds = <<>> /\ ~err => Added(LoadCfg(cmds, err)) = Links(LoadCfg(cmds, err).st)
<1>0. 0 \in 0..NumChan /\ "LOAD_CFG" \in CtlState /\ "DISABLED" \in CtlState
  BY ControlAssumption DEF CtlState, Initializing
<1>1. CASE HasKcfg
  <2> DEFINE m == New("OPTS", "init")
  <2>1. m \in Command /\ <<m>> \in Seq(Command)
    BY NewCommand, Names DEF Op, ClientCmd
  <2>2. Count(<<m>>, "init") = 1 /\ \A c \in Client : Count(<<m>>, c) = 0
    BY OneInit DEF Op, ClientCmd
  <2> HIDE DEF m
  <2>3. /\ Append(cmds, m) = cmds \o <<m>> /\ Append(cmds, m) \in Seq(Command)
    BY <2>1, AppendIsConcat, AppendProperties
  <2>4. \A cb : Count(Append(cmds, m), cb) = Count(cmds, cb) + Count(<<m>>, cb)
    <3> SUFFICES ASSUME NEW cb PROVE Count(Append(cmds, m), cb) = Count(cmds, cb) + Count(<<m>>, cb)
      OBVIOUS
    <3>1. Count(cmds \o <<m>>, cb) = Count(cmds, cb) + Count(<<m>>, cb)
      BY <2>1, CountConcat
    <3> QED BY <2>3, <3>1
  <2>5. LoadCfg(cmds, err) = Does("LOAD_CFG", 0, Append(cmds, m), err)
    BY <1>1 DEF LoadCfg, m
  <2>6. \A c \in Client : Count(Append(cmds, m), c) = 0
    BY <2>2, <2>4
  <2>7. cmds = <<>> => Count(Append(cmds, m), "init") = 1
    BY <2>2, <2>4, CountEmpty
  <2>8. /\ LoadCfg(cmds, err) \in Work /\ LoadCfg(cmds, err).st = "LOAD_CFG"
        /\ LoadCfg(cmds, err).cmds = Append(cmds, m) /\ LoadCfg(cmds, err).err = err
    BY <1>0, <2>3, <2>5 DEF Does, Work
  <2>9. Links("LOAD_CFG") = 1
    BY DEF Links, Initializing
  <2> QED BY <2>6, <2>7, <2>8, <2>9 DEF Own, Added
<1>2. CASE ~HasKcfg
  <2>1. LoadCfg(cmds, err) = Does("DISABLED", 0, cmds, err)
    BY <1>2 DEF LoadCfg
  <2>2. /\ LoadCfg(cmds, err) \in Work /\ LoadCfg(cmds, err).st = "DISABLED"
        /\ LoadCfg(cmds, err).cmds = cmds /\ LoadCfg(cmds, err).err = err
    BY <1>0, <2>1, WorkOf
  <2>3. Links("DISABLED") = 0
    BY DEF Links, Initializing
  <2> QED BY <2>2, <2>3, CountEmpty DEF Own, Added
<1> QED BY <1>1, <1>2

\* The loop over the channels goes on with the first one left.
LEMMA NextChannel ==
  ASSUME NEW i \in 0..NumChan, {c \in Configured : c > i} # {}
  PROVE  LET c == CHOOSE a \in {b \in Configured : b > i} : \A d \in {b \in Configured : b > i} : a <= d
         IN  /\ c \in Configured /\ c \in 1..NumChan /\ c > i
             /\ \A d \in Configured : d > i => c <= d
<1> DEFINE left == {c \in Configured : c > i}
<1>1. left \subseteq 1..NumChan /\ NumChan \in 1..3
  BY ControlAssumption DEF Chan
<1>2. \E c \in left : \A d \in left : c <= d
  <2>1. left \subseteq {1, 2, 3}
    BY <1>1
  <2>2. CASE 1 \in left
    BY <2>1, <2>2
  <2>3. CASE 1 \notin left /\ 2 \in left
    BY <2>1, <2>3
  <2>4. CASE 1 \notin left /\ 2 \notin left
    BY <2>1, <2>4
  <2> QED BY <2>2, <2>3, <2>4
<1> DEFINE c == CHOOSE a \in left : \A d \in left : a <= d
<1>3. c \in left /\ \A d \in left : c <= d
  BY <1>2
<1> HIDE DEF c
<1>4. c \in Configured /\ c \in 1..NumChan /\ c > i /\ \A d \in Configured : d > i => c <= d
  BY <1>1, <1>3
<1> QED BY <1>4 DEF c

LEMMA ChannelOp == \A c \in Chan : ChanOp[c] \in ClientCmd /\ ChanOp[c] \in Op
BY DEF ChanOp, ClientCmd, Op

LEMMA SetChannelsWork ==
  ASSUME NEW i \in 0..NumChan
  PROVE  /\ SetChannels(i) \in Work /\ Own(SetChannels(i))
         /\ SetChannels(i).st \in {"SET_CHANNELS", "LOAD_CFG", "DISABLED"}
         /\ NumChan \notin Configured => Added(SetChannels(i)) = Links(SetChannels(i).st)
<1> DEFINE left == {c \in Configured : c > i}
           c == CHOOSE c \in left : \A d \in left : c <= d
           bad == c \in BadChannel
           cmds == IF bad THEN <<>> ELSE <<New(ChanOp[c], "init")>>
<1>1. SetChannels(i) = IF left = {} THEN LoadCfg(<<>>, FALSE)
                       ELSE IF c < NumChan THEN Does("SET_CHANNELS", c, cmds, bad)
                       ELSE LoadCfg(cmds, bad)
  BY DEF SetChannels
<1>2. CASE left = {}
  <2>1. <<>> \in Seq(Command)
    BY EmptySeq
  <2> QED BY <1>1, <1>2, <2>1, LoadCfgWork, CountEmpty
<1>3. CASE left # {}
  <2>1. c \in Configured /\ c \in 1..NumChan
    BY <1>3, NextChannel
  <2>2. ChanOp[c] \in Op
    BY <2>1, ChannelOp DEF Chan
  <2> HIDE DEF left, c
  <2>3. /\ cmds \in Seq(Command) /\ \A cl \in Client : Count(cmds, cl) = 0
        /\ Count(cmds, "init") = IF bad THEN 0 ELSE 1
    <3>1. CASE bad
      BY <3>1, CountEmpty, EmptySeq
    <3>2. CASE ~bad
      BY <2>2, <3>2, OneInit, NewCommand, Names
    <3> QED BY <3>1, <3>2
  <2>4. bad \in BOOLEAN /\ c \in 0..NumChan /\ NumChan \in Nat
    BY <2>1, ControlAssumption
  <2> HIDE DEF cmds, bad
  <2>5. CASE c < NumChan
    <3> DEFINE r == Does("SET_CHANNELS", c, cmds, bad)
    <3>1. SetChannels(i) = r
      BY <1>1, <1>3, <2>5
    <3>2. r \in Work /\ r.st = "SET_CHANNELS" /\ r.cmds = cmds /\ r.err = bad
      BY <2>3, <2>4, WorkOf DEF CtlState, Initializing
    <3> HIDE DEF r
    <3>3. Added(r) = 1
      BY <2>3, <2>4, <3>2 DEF Added
    <3>4. Links("SET_CHANNELS") = 1
      BY DEF Links, Initializing
    <3>5. Own(r)
      BY <2>3, <3>2 DEF Own
    <3> QED BY <3>1, <3>2, <3>3, <3>4, <3>5
  <2>6. CASE ~(c < NumChan)
    <3>1. SetChannels(i) = LoadCfg(cmds, bad)
      BY <1>1, <1>3, <2>6
    <3>2. c = NumChan
      BY <2>1, <2>4, <2>6
    <3> QED BY <2>1, <2>3, <2>4, <3>1, <3>2, LoadCfgWork
  <2> QED BY <2>5, <2>6
<1> QED BY <1>2, <1>3

LEMMA GreetingWork ==
  /\ Greeting \in Seq(Command)
  /\ \A cb : cb # "none" => Count(Greeting, cb) = 0
<1> DEFINE d == New("DISPLAY", "none")
<1>1. d \in Command /\ d.cb = "none" /\ <<d>> \in Seq(Command)
  BY NewCommand, Names DEF Op
<1>2. Greeting = IF HasDisplay THEN <<d, d>> ELSE <<>>
  BY DEF Greeting
<1> HIDE DEF d
<1>3. \A cb : cb # "none" => Count(<<d>>, cb) = 0
  BY <1>1, CountOne
<1>4. <<d, d>> = <<d>> \o <<d>>
  BY <1>1
<1>5. <<d, d>> \in Seq(Command)
  BY <1>1
<1>6. ASSUME NEW cb, cb # "none" PROVE Count(<<d, d>>, cb) = 0
  <2>1. Count(<<d>> \o <<d>>, cb) = Count(<<d>>, cb) + Count(<<d>>, cb)
    BY <1>1, CountConcat
  <2>2. Count(<<d>>, cb) = 0
    BY <1>3, <1>6
  <2>3. Count(<<d, d>>, cb) = Count(<<d>> \o <<d>>, cb)
    BY <1>4, Zenon
  <2> QED BY <2>1, <2>2, <2>3
<1> QED BY <1>2, <1>5, <1>6, CountEmpty, EmptySeq

LEMMA StepWork ==
  ASSUME NEW s \in CtlState, NEW i \in 0..NumChan
  PROVE  LET r == initializer_step(s, i)
         IN  /\ r \in Work /\ Own(r)
             /\ r.st = "DISC" <=> s = "DISC"
             /\ r.st # "OFF"
             /\ s \in {"OFF"} \cup Initializing /\ NumChan \notin Configured =>
                  Added(r) = Links(r.st)
             /\ s \notin {"OFF"} \cup Initializing => r.st = s /\ r.cmds = <<>> /\ ~r.err
<1> DEFINE r == initializer_step(s, i)
<1>0. {"PING", "VERSION", "ON_CONNECT"} \subseteq Op
  BY DEF Op
<1>1. CASE s = "OFF"
  <2> DEFINE m == <<New("PING", "init")>>
  <2>1. m \in Seq(Command) /\ Count(m, "init") = 1 /\ \A c \in Client : Count(m, c) = 0
    BY <1>0, NewCommand, OneInit, Names
  <2>2. r = Does("INIT", 0, m, FALSE)
    BY <1>1 DEF initializer_step
  <2> HIDE DEF m
  <2>3. r \in Work /\ r.st = "INIT" /\ r.cmds = m /\ r.err = FALSE
    BY <2>1, <2>2, ControlAssumption DEF Does, Work, CtlState, Initializing
  <2>4. Links("INIT") = 1
    BY DEF Links, Initializing
  <2> HIDE DEF r
  <2>5. Added(r) = 1 /\ Own(r)
    BY <2>1, <2>3, AddedIs
  <2> QED BY <1>1, <2>3, <2>4, <2>5 DEF r, Initializing
<1>2. CASE s = "INIT"
  <2> DEFINE m == New("VERSION", "init")
             g == Append(Greeting, m)
  <2>1. /\ m \in Command /\ <<m>> \in Seq(Command) /\ Count(<<m>>, "init") = 1
        /\ \A c \in Client : Count(<<m>>, c) = 0
    BY <1>0, NewCommand, OneInit, Names
  <2>2. r = Does("GET_VERSION", i, g, FALSE)
    BY <1>2 DEF initializer_step
  <2> HIDE DEF m
  <2>3. g = Greeting \o <<m>> /\ g \in Seq(Command)
    BY <2>1, GreetingWork, AppendIsConcat, AppendProperties
  <2>4. \A cb : Count(Greeting \o <<m>>, cb) = Count(Greeting, cb) + Count(<<m>>, cb)
    BY <2>1, GreetingWork, CountConcat
  <2> HIDE DEF g
  <2>5. Count(g, "init") = 1 /\ \A c \in Client : Count(g, c) = 0
    BY <2>1, <2>3, <2>4, GreetingWork, Names
  <2>6. r \in Work /\ r.st = "GET_VERSION" /\ r.cmds = g /\ r.err = FALSE
    BY <2>2, <2>3 DEF Does, Work, CtlState, Initializing
  <2>7. Links("GET_VERSION") = 1
    BY DEF Links, Initializing
  <2> HIDE DEF r
  <2>8. Added(r) = 1 /\ Own(r)
    BY <2>3, <2>5, <2>6, AddedIs
  <2> QED BY <1>2, <2>6, <2>7, <2>8 DEF r, Initializing
<1>3. CASE s \in {"GET_VERSION", "SET_CHANNELS"}
  <2>1. r = SetChannels(i)
    BY <1>3 DEF initializer_step
  <2> QED BY <1>3, <2>1, SetChannelsWork DEF Initializing
<1>4. CASE s = "LOAD_CFG"
  <2> DEFINE m == <<New("ON_CONNECT", "init")>>
  <2>1. m \in Seq(Command) /\ Count(m, "init") = 1 /\ \A c \in Client : Count(m, c) = 0
    BY <1>0, NewCommand, OneInit, Names
  <2>2. r = Does("ON_CONNECT", i, m, FALSE)
    BY <1>4 DEF initializer_step
  <2> HIDE DEF m
  <2>3. r \in Work /\ r.st = "ON_CONNECT" /\ r.cmds = m /\ r.err = FALSE
    BY <2>1, <2>2 DEF Does, Work, CtlState, Initializing
  <2>4. Links("ON_CONNECT") = 1
    BY DEF Links, Initializing
  <2> HIDE DEF r
  <2>5. Added(r) = 1 /\ Own(r)
    BY <2>1, <2>3, AddedIs
  <2> QED BY <1>4, <2>3, <2>4, <2>5 DEF r, Initializing
<1>5. CASE s = "ON_CONNECT"
  <2>1. r = Does("OK", i, <<>>, FALSE)
    BY <1>5 DEF initializer_step
  <2>2. r \in Work /\ r.st = "OK" /\ r.cmds = <<>> /\ r.err = FALSE
    BY <2>1, EmptySeq DEF Does, Work, CtlState, Initializing
  <2>3. Links("OK") = 0
    BY DEF Links, Initializing
  <2> HIDE DEF r
  <2>4. Added(r) = 0 /\ Own(r)
    BY <2>2, AddedIs, CountEmpty, EmptySeq
  <2> QED BY <1>5, <2>2, <2>3, <2>4 DEF r, Initializing
<1>6. CASE s \notin {"OFF"} \cup Initializing
  <2>1. r = Does(s, i, <<>>, FALSE)
    BY <1>6 DEF initializer_step, Initializing
  <2>2. r \in Work /\ r.st = s /\ r.cmds = <<>> /\ r.err = FALSE
    BY <2>1, EmptySeq DEF Does, Work
  <2> QED BY <1>6, <2>2, CountEmpty DEF Own
<1> HIDE DEF r
<1> QED BY <1>1, <1>2, <1>3, <1>4, <1>5, <1>6 DEF r, Initializing

LEMMA OffWork ==
  ASSUME TypeOK
  PROVE  LET r == Does("OFF", idx, <<>>, FALSE)
         IN  /\ r \in Work /\ Own(r) /\ r.st = "OFF" /\ r.cmds = <<>> /\ ~r.err
             /\ Added(r) = 0 /\ Links(r.st) = 0
<1> DEFINE r == Does("OFF", idx, <<>>, FALSE)
<1>1. r \in Work /\ r.st = "OFF" /\ r.cmds = <<>> /\ r.err = FALSE
  BY EmptySeq DEF TypeOK, Does, Work, CtlState
<1>2. Links("OFF") = 0
  BY DEF Links, Initializing
<1> HIDE DEF r
<1>3. Added(r) = 0 /\ Own(r)
  BY <1>1, AddedIs, CountEmpty, EmptySeq
<1> QED BY <1>1, <1>2, <1>3 DEF r

\* What the completion of a command of any callback leaves to do.
LEMMA CompletionWork ==
  ASSUME TypeOK, NEW cb \in Callback, NEW result
  PROVE  LET r == Completion(cb, result)
         IN  /\ r \in Work /\ Own(r)
             /\ r.st = "DISC" <=> state = "DISC"
             /\ r.st = "OFF" \/ state = "DISC" => r.cmds = <<>> /\ ~r.err
             /\ NumChan \notin Configured =>
                  /\ cb = "init" /\ state \in Initializing => Added(r) = Links(r.st)
                  /\ cb # "init" => Added(r) + Links(state) = Links(r.st)
<1> DEFINE r == Completion(cb, result)
           s == initializer_step(state, idx)
           o == Does("OFF", idx, <<>>, FALSE)
<1>1. state \in CtlState /\ idx \in 0..NumChan
  BY DEF TypeOK
<1>2. /\ s \in Work /\ Own(s) /\ (s.st = "DISC" <=> state = "DISC") /\ s.st # "OFF"
      /\ state \in {"OFF"} \cup Initializing /\ NumChan \notin Configured => Added(s) = Links(s.st)
  BY <1>1, StepWork
<1>3. /\ o \in Work /\ Own(o) /\ o.st = "OFF" /\ o.cmds = <<>> /\ ~o.err
      /\ Added(o) = 0 /\ Links(o.st) = 0
  BY OffWork
<1>4. /\ Nothing \in Work /\ Own(Nothing) /\ Nothing.st = state
      /\ Nothing.cmds = <<>> /\ ~Nothing.err /\ Added(Nothing) = 0
  BY NothingWork
<1>5. Links(state) \in Nat
  BY DEF Links
<1>6. CASE cb = "init"
  <2>1. r = IF state = "DISC" THEN Nothing
            ELSE IF result = "OK" \/ (result = "ERROR" /\ state = "SET_CHANNELS") THEN s ELSE o
    BY <1>6 DEF Completion, initializer_cb
  <2> HIDE DEF r, s, o
  <2>2. CASE r = Nothing /\ state = "DISC"
    <3>1. state \notin Initializing
      BY <2>2 DEF Initializing
    <3> QED BY <1>4, <1>6, <2>2, <3>1 DEF r
  <2>3. CASE r = s /\ state # "DISC"
    BY <1>2, <1>6, <2>3 DEF r
  <2>4. CASE r = o /\ state # "DISC"
    BY <1>3, <1>6, <2>4 DEF r
  <2> QED BY <2>1, <2>2, <2>3, <2>4
<1>7. CASE cb = "beat"
  <2>1. \/ r = s /\ state = "OFF"
        \/ r = o /\ state = "OK"
        \/ r = Nothing
    BY <1>7 DEF Completion, heartbeat_completed_cb
  <2>2. Links("OFF") = 0 /\ Links("OK") = 0
    BY DEF Links, Initializing
  <2>3. Added(s) \in Nat
    <3>1. s.cmds \in Seq(Command)
      BY <1>2 DEF Work
    <3>2. Count(s.cmds, "init") \in Nat
      BY <3>1, CountType
    <3> QED BY <3>2 DEF Added
  <2> HIDE DEF r, s, o
  <2>4. CASE r = s /\ state = "OFF"
    BY <1>2, <1>7, <2>2, <2>3, <2>4 DEF r
  <2>5. CASE r = o /\ state = "OK"
    BY <1>3, <1>7, <2>2, <2>5 DEF r
  <2>6. CASE r = Nothing
    <3>1. state = "OFF" \/ state = "DISC" => r.cmds = <<>> /\ ~r.err
      BY <1>4, <2>6
    <3> QED BY <1>4, <1>5, <1>7, <2>6, <3>1 DEF r
  <2> QED BY <2>1, <2>4, <2>5, <2>6
<1>8. CASE cb \notin {"init", "beat"}
  <2>1. r = Nothing
    BY <1>8 DEF Completion
  <2> HIDE DEF r
  <2> QED BY <1>4, <1>5, <1>8, <2>1 DEF r
<1> QED BY <1>6, <1>7, <1>8

\* A sign of life starts the initializer of a keyer that is OFF.
LEMMA AliveWork ==
  ASSUME NEW r \in Work, Own(r), r.st = "OFF" => r.cmds = <<>> /\ ~r.err
  PROVE  LET a == Alive(r)
         IN  /\ a \in Work /\ Own(a) /\ (a.st = "DISC" <=> r.st = "DISC")
             /\ NumChan \notin Configured => Added(a) + Links(r.st) = Added(r) + Links(a.st)
<1> DEFINE a == Alive(r)
           s == initializer_step("OFF", r.idx)
<1>1. r.idx \in 0..NumChan /\ r.cmds \in Seq(Command) /\ r.st \in CtlState
  BY DEF Work
<1>2. CASE r.st # "OFF"
  <2>1. a = r
    BY <1>2 DEF Alive
  <2> HIDE DEF a
  <2> QED BY <2>1 DEF a
<1>3. CASE r.st = "OFF"
  <2>1. /\ s \in Work /\ Own(s) /\ s.st # "DISC" /\ s.st # "OFF"
        /\ NumChan \notin Configured => Added(s) = Links(s.st)
    BY <1>1, StepWork DEF CtlState
  <2>2. s = Does("INIT", 0, <<New("PING", "init")>>, FALSE)
    BY DEF initializer_step
  <2>3. s.err = FALSE
    BY <2>2 DEF Does
  <2> HIDE DEF s
  <2>4. s.cmds \in Seq(Command) /\ s.idx \in 0..NumChan /\ s.st \in CtlState
    BY <2>1 DEF Work
  <2>5. a = Does(s.st, s.idx, r.cmds \o s.cmds, FALSE)
    BY <1>3 DEF Alive, s
  <2>6. r.cmds \o s.cmds = s.cmds
    BY <1>3, <2>4, ConcatEmptySeq
  <2>7. a \in Work /\ a.st = s.st /\ a.cmds = s.cmds /\ a.err = FALSE
    BY <2>4, <2>5, <2>6 DEF Does, Work
  <2>8. Added(r) = 0
    BY <1>3, CountEmpty DEF Added
  <2>9. Links(r.st) = 0 /\ Links(s.st) \in Nat
    BY <1>3 DEF Links, Initializing
  <2>10. Added(a) = Added(s) /\ Own(a)
    BY <2>1, <2>3, <2>7 DEF Added, Own
  <2> HIDE DEF a
  <2> QED BY <1>3, <2>1, <2>7, <2>8, <2>9, <2>10 DEF a
<1> QED BY <1>2, <1>3

-----------------------------------------------------------------------------
(* The queue. *)

\* Commands that fail are deferred, one by one.
LEMMA FailedKeeps ==
  ASSUME NEW d \in [Deferrable -> Nat], NEW s \in Seq(Command)
  PROVE  /\ Failed(d, s) \in [Deferrable -> Nat]
         /\ \A cb \in Deferrable : Failed(d, s)[cb] = d[cb] + Count(s, cb)
<1>1. \A cb \in Deferrable : d[cb] \in Nat /\ Count(s, cb) \in Nat
  BY CountType
<1> QED BY <1>1 DEF Failed

\* Sending or failing what is queued loses no callback.
LEMMA PushEffect ==
  ASSUME toK \in Seq(Op), NEW q \in Seq(Command), Len(q) <= QMax + 1,
         NEW d \in [Deferrable -> Nat], NEW t \in BOOLEAN, push_cmds(q, d, t)
  PROVE  /\ queue' \in Seq(Command) /\ Len(queue') <= QMax + 1
         /\ deferred' \in [Deferrable -> Nat] /\ timer' \in BOOLEAN /\ toK' \in Seq(Op)
         /\ \A cb \in Deferrable : Count(queue', cb) + deferred'[cb] = Count(q, cb) + d[cb]
         /\ q = <<>> => queue' = <<>>
         /\ \A k \in DOMAIN queue' :
              k \in DOMAIN q /\ queue'[k].op = q[k].op /\ queue'[k].cb = q[k].cb
         /\ toK' = toK \/ (q # <<>> /\ toK' = Append(toK, q[1].op))
<1> DEFINE idle == q # <<>> /\ ~q[1].sent
           room == Len(toK) < LineCap
<1>1. /\ queue' = CASE idle /\ room -> [q EXCEPT ![1].sent = TRUE]
                    [] idle /\ ~room -> <<>>
                    [] OTHER -> q
      /\ deferred' = IF idle /\ ~room THEN Failed(d, q) ELSE d
      /\ timer' = (t \/ (idle /\ room))
      /\ toK' = IF idle /\ room /\ on THEN Append(toK, q[1].op) ELSE toK
  BY DEF push_cmds
<1>2. q # <<>> => q[1] \in Command /\ q[1].op \in Op
  BY CountHead DEF Command
<1>3. Len(q) \in Nat /\ QMax \in Nat /\ \A cb \in Deferrable : Count(q, cb) \in Nat /\ d[cb] \in Nat
  BY CountType, LenProperties, ControlAssumption
<1>4. toK' \in Seq(Op) /\ (toK' = toK \/ (q # <<>> /\ toK' = Append(toK, q[1].op)))
  BY <1>1, <1>2, AppendProperties
<1>5. timer' \in BOOLEAN
  BY <1>1
<1>6. CASE idle /\ room
  <2>1. queue' = [q EXCEPT ![1].sent = TRUE] /\ deferred' = d
    BY <1>1, <1>6
  <2>2. /\ queue' \in Seq(Command) /\ Len(queue') = Len(q)
        /\ \A cb : Count(queue', cb) = Count(q, cb)
    BY <1>6, <2>1, CountSent
  <2>3. \A k \in DOMAIN queue' : k \in DOMAIN q /\ queue'[k].op = q[k].op /\ queue'[k].cb = q[k].cb
    <3> SUFFICES ASSUME NEW k \in DOMAIN queue'
                 PROVE  k \in DOMAIN q /\ queue'[k].op = q[k].op /\ queue'[k].cb = q[k].cb
      OBVIOUS
    <3>1. k \in DOMAIN q /\ queue'[k] = IF k = 1 THEN [q[1] EXCEPT !.sent = TRUE] ELSE q[k]
      BY <2>1
    <3>2. q[1] \in [op : Op, cb : Callback, sent : BOOLEAN]
      BY <1>2, <1>6 DEF Command
    <3> QED BY <3>1, <3>2
  <2>4. q # <<>>
    BY <1>6
  <2> QED BY <1>3, <1>4, <1>5, <2>1, <2>2, <2>3, <2>4
<1>7. CASE idle /\ ~room
  <2>1. queue' = <<>> /\ deferred' = Failed(d, q)
    BY <1>1, <1>7
  <2>2. queue' \in Seq(Command) /\ Len(queue') = 0 /\ \A cb : Count(queue', cb) = 0
    BY <2>1, EmptySeq, CountEmpty
  <2>3. /\ deferred' \in [Deferrable -> Nat]
        /\ \A cb \in Deferrable : deferred'[cb] = d[cb] + Count(q, cb)
    BY <2>1, FailedKeeps
  <2>4. DOMAIN queue' = {}
    BY <2>1
  <2> QED BY <1>3, <1>4, <1>5, <2>1, <2>2, <2>3, <2>4
<1>8. CASE ~idle
  <2>1. queue' = q /\ deferred' = d
    BY <1>1, <1>8
  <2> QED BY <1>3, <1>4, <1>5, <2>1
<1> QED BY <1>6, <1>7, <1>8

\* What is submitted is queued, deferred or refused and deferred; what was waiting
\* keeps waiting.
LEMMA SubmitEffect ==
  ASSUME toK \in Seq(Op), NEW r \in Work, NEW q \in Seq(Command), Len(q) <= QMax + 1,
         NEW d \in [Deferrable -> Nat], NEW t \in BOOLEAN, Submit(r, q, d, t)
  PROVE  /\ state' = r.st /\ idx' = r.idx
         /\ queue' \in Seq(Command) /\ Len(queue') <= QMax + 1
         /\ deferred' \in [Deferrable -> Nat] /\ timer' \in BOOLEAN /\ toK' \in Seq(Op)
         /\ \A cb \in Deferrable : cb # "init" =>
              Count(queue', cb) + deferred'[cb] = Count(q, cb) + d[cb] + Count(r.cmds, cb)
         /\ Count(queue', "init") + deferred'["init"] = Count(q, "init") + d["init"] + Added(r)
         /\ q = <<>> /\ r.cmds = <<>> => queue' = <<>>
         /\ \A k \in DOMAIN queue' :
              \/ \E j \in DOMAIN q : queue'[k].op = q[j].op /\ queue'[k].cb = q[j].cb
              \/ \E j \in DOMAIN r.cmds : queue'[k].op = r.cmds[j].op /\ queue'[k].cb = r.cmds[j].cb
         /\ \/ toK' = toK
            \/ \E op \in Op : toK' = Append(toK, op)
<1> DEFINE fit == Fits(q, r.cmds)
           now == SubSeq(r.cmds, 1, fit)
           over == SubSeq(r.cmds, fit + 1, Len(r.cmds))
           late == Failed(d, over)
           e == IF r.err THEN [late EXCEPT !["init"] = late["init"] + 1] ELSE late
           p == q \o now
<1>1. state' = r.st /\ idx' = r.idx /\ push_cmds(p, e, t)
  BY DEF Submit
<1>2. r.cmds \in Seq(Command) /\ r.err \in BOOLEAN
  BY DEF Work
<1>3. Len(q) \in Nat /\ Len(r.cmds) \in Nat /\ QMax \in Nat
  BY <1>2, LenProperties, ControlAssumption
<1>4. fit \in 0..Len(r.cmds) /\ Len(q) + fit <= QMax + 1
  BY <1>3 DEF Fits
<1> HIDE DEF fit
<1>5. /\ now \in Seq(Command) /\ Len(now) = fit /\ over \in Seq(Command)
      /\ \A cb : Count(now, cb) + Count(over, cb) = Count(r.cmds, cb)
  BY <1>2, <1>4, CountSplit
<1>6. \A j \in DOMAIN now : j \in DOMAIN r.cmds /\ now[j] = r.cmds[j]
  <2>1. \A j \in 1..fit : now[j] = r.cmds[j]
    BY <1>2, <1>3, <1>4, ElementOfSeq, SubSeqProperties
  <2>2. DOMAIN now = 1..fit /\ DOMAIN r.cmds = 1..Len(r.cmds)
    BY <1>2, <1>5, LenProperties
  <2> QED BY <1>3, <1>4, <2>1, <2>2
<1> HIDE DEF now, over
<1>7. late \in [Deferrable -> Nat] /\ \A cb \in Deferrable : late[cb] = d[cb] + Count(over, cb)
  BY <1>5, FailedKeeps
<1> HIDE DEF late
<1>8. /\ e \in [Deferrable -> Nat]
      /\ \A cb \in Deferrable : cb # "init" => e[cb] = late[cb]
      /\ e["init"] = late["init"] + IF r.err THEN 1 ELSE 0
  BY <1>2, <1>7, Names
<1> HIDE DEF e
<1>9. /\ p \in Seq(Command) /\ Len(p) <= QMax + 1
      /\ \A i \in DOMAIN p : \/ i \in DOMAIN q /\ p[i] = q[i]
                             \/ \E j \in DOMAIN now : p[i] = now[j]
  <2>1. /\ p \in Seq(Command) /\ Len(p) = Len(q) + Len(now)
        /\ \A i \in 1..(Len(q) + Len(now)) : p[i] = IF i <= Len(q) THEN q[i] ELSE now[i - Len(q)]
    BY <1>5, ConcatProperties
  <2>2. DOMAIN p = 1..(Len(q) + fit) /\ DOMAIN q = 1..Len(q) /\ DOMAIN now = 1..fit
    BY <1>5, <2>1, LenProperties
  <2> HIDE DEF p
  <2>3. ASSUME NEW i \in DOMAIN p, i \notin DOMAIN q
        PROVE  i - Len(q) \in DOMAIN now /\ p[i] = now[i - Len(q)]
    BY <1>3, <1>4, <1>5, <2>1, <2>2, <2>3
  <2>4. ASSUME NEW i \in DOMAIN p, i \in DOMAIN q PROVE p[i] = q[i]
    BY <1>3, <1>4, <1>5, <2>1, <2>2, <2>4
  <2> QED BY <1>4, <1>5, <2>1, <2>3, <2>4
<1>10. \A cb : Count(p, cb) = Count(q, cb) + Count(now, cb)
  BY <1>5, CountConcat
<1> HIDE DEF p
<1>11. /\ queue' \in Seq(Command) /\ Len(queue') <= QMax + 1
       /\ deferred' \in [Deferrable -> Nat] /\ timer' \in BOOLEAN /\ toK' \in Seq(Op)
       /\ \A cb \in Deferrable : Count(queue', cb) + deferred'[cb] = Count(p, cb) + e[cb]
       /\ p = <<>> => queue' = <<>>
       /\ \A k \in DOMAIN queue' :
            k \in DOMAIN p /\ queue'[k].op = p[k].op /\ queue'[k].cb = p[k].cb
       /\ toK' = toK \/ (p # <<>> /\ toK' = Append(toK, p[1].op))
  BY <1>1, <1>8, <1>9, PushEffect
<1>12. /\ \A cb : Count(q, cb) \in Nat /\ Count(now, cb) \in Nat /\ Count(over, cb) \in Nat
                  /\ Count(r.cmds, cb) \in Nat
       /\ \A cb \in Deferrable : d[cb] \in Nat
  BY <1>2, <1>5, CountType
<1>13. \A cb \in Deferrable : cb # "init" =>
         Count(queue', cb) + deferred'[cb] = Count(q, cb) + d[cb] + Count(r.cmds, cb)
  <2> SUFFICES ASSUME NEW cb \in Deferrable, cb # "init"
               PROVE  Count(queue', cb) + deferred'[cb] = Count(q, cb) + d[cb] + Count(r.cmds, cb)
    OBVIOUS
  <2>1. Count(queue', cb) + deferred'[cb] = Count(p, cb) + e[cb]
    BY <1>11
  <2>2. e[cb] = d[cb] + Count(over, cb)
    BY <1>7, <1>8
  <2> QED BY <1>5, <1>10, <1>12, <2>1, <2>2
<1>14. Count(queue', "init") + deferred'["init"] = Count(q, "init") + d["init"] + Added(r)
  <2> DEFINE b == IF r.err THEN 1 ELSE 0
  <2>1. b \in Nat /\ Added(r) = Count(r.cmds, "init") + b
    BY DEF Added
  <2>2. e["init"] = d["init"] + Count(over, "init") + b
    BY <1>7, <1>8, Names
  <2>3. Count(queue', "init") + deferred'["init"] = Count(p, "init") + e["init"]
    BY <1>11, Names
  <2> HIDE DEF b
  <2> QED BY <1>5, <1>10, <1>12, <2>1, <2>2, <2>3, Names, SMTT(30)
<1>15. q = <<>> /\ r.cmds = <<>> => queue' = <<>>
  <2> SUFFICES ASSUME q = <<>>, r.cmds = <<>> PROVE queue' = <<>>
    OBVIOUS
  <2>1. Len(r.cmds) = 0 /\ now = <<>>
    BY <1>3, <1>4, <1>5, EmptySeq
  <2>2. p = <<>>
    BY <2>1 DEF p
  <2> QED BY <1>11, <2>2
<1>16. \A k \in DOMAIN queue' :
         \/ \E j \in DOMAIN q : queue'[k].op = q[j].op /\ queue'[k].cb = q[j].cb
         \/ \E j \in DOMAIN r.cmds : queue'[k].op = r.cmds[j].op /\ queue'[k].cb = r.cmds[j].cb
  <2> SUFFICES ASSUME NEW k \in DOMAIN queue'
               PROVE  \/ \E j \in DOMAIN q : queue'[k].op = q[j].op /\ queue'[k].cb = q[j].cb
                      \/ \E j \in DOMAIN r.cmds :
                           queue'[k].op = r.cmds[j].op /\ queue'[k].cb = r.cmds[j].cb
    OBVIOUS
  <2>1. k \in DOMAIN p /\ queue'[k].op = p[k].op /\ queue'[k].cb = p[k].cb
    BY <1>11
  <2>2. CASE k \in DOMAIN q /\ p[k] = q[k]
    BY <2>1, <2>2
  <2>3. CASE \E j \in DOMAIN now : p[k] = now[j]
    <3>1. PICK j \in DOMAIN now : p[k] = now[j]
      BY <2>3
    <3>2. j \in DOMAIN r.cmds /\ now[j] = r.cmds[j]
      BY <1>6
    <3> QED BY <2>1, <3>1, <3>2
  <2> QED BY <1>9, <2>1, <2>2, <2>3
<1>17. toK' = toK \/ \E op \in Op : toK' = Append(toK, op)
  <2>1. p # <<>> => p[1].op \in Op
    BY <1>9, CountHead DEF Command
  <2> QED BY <1>11, <2>1
<1> QED BY <1>1, <1>11, <1>13, <1>14, <1>15, <1>16, <1>17

-----------------------------------------------------------------------------
(* The inductive invariant: what is under way for each callback. *)

\* Without a keyer nothing is queued.
Unplugged == (conn <=> state # "DISC") /\ (~conn => queue = <<>>)

ControlInv == TypeOK /\ CompletedOnce /\ Unplugged

\* The conditions of SingleChain: idle callbacks run before the keyer can be
\* reported again, and the last channel has no settings.
OneChain == IdleCap = 0 /\ NumChan \notin Configured

LEMMA PendingType ==
  ASSUME TypeOK, NEW cb \in Deferrable
  PROVE  Count(queue, cb) \in Nat /\ deferred[cb] \in Nat /\ Pending(cb) \in Nat
<1>1. Count(queue, cb) \in Nat /\ deferred[cb] \in Nat
  BY CountType DEF TypeOK
<1> QED BY <1>1 DEF Pending

\* A command of the callback done has left the queue or the deferred ones, leaving q
\* and d; r is what its completion, or the handler itself, leaves to do.
Completes(done, r, q, d, t) ==
  /\ r \in Work /\ Own(r) /\ (r.st = "DISC" <=> state = "DISC")
  /\ state = "DISC" => q = <<>> /\ r.cmds = <<>>
  /\ q \in Seq(Command) /\ Len(q) <= QMax + 1 /\ d \in [Deferrable -> Nat] /\ t \in BOOLEAN
  /\ \A cb \in Deferrable :
       Count(q, cb) + d[cb] = Pending(cb) - IF cb = done THEN 1 ELSE 0
  /\ Submit(r, q, d, t)
  /\ open' = open \ {done} /\ conn' = conn

\* What it leaves to do continues the initializer's chain.
Continues(done, r) ==
  /\ done = "init" /\ state \in Initializing => Added(r) = Links(r.st)
  /\ done # "init" => Added(r) + Links(state) = Links(r.st)

LEMMA CompletesInv ==
  ASSUME ControlInv, NEW done, NEW r, NEW q, NEW d, NEW t, Completes(done, r, q, d, t)
  PROVE  /\ state' \in CtlState /\ idx' \in 0..NumChan
         /\ queue' \in Seq(Command) /\ Len(queue') <= QMax + 1 /\ timer' \in BOOLEAN
         /\ deferred' \in [Deferrable -> Nat] /\ open' \subseteq Client /\ toK' \in Seq(Op)
         /\ CompletedOnce' /\ Unplugged'
<1>1. /\ TypeOK /\ CompletedOnce /\ Unplugged /\ toK \in Seq(Op)
  BY DEF ControlInv, TypeOK
<1>2. /\ r \in Work /\ Own(r) /\ (r.st = "DISC" <=> state = "DISC")
      /\ state = "DISC" => q = <<>> /\ r.cmds = <<>>
      /\ q \in Seq(Command) /\ Len(q) <= QMax + 1 /\ d \in [Deferrable -> Nat] /\ t \in BOOLEAN
      /\ \A cb \in Deferrable :
           Count(q, cb) + d[cb] = Pending(cb) - IF cb = done THEN 1 ELSE 0
      /\ Submit(r, q, d, t)
      /\ open' = open \ {done} /\ conn' = conn
  BY DEF Completes
<1>3. /\ state' = r.st /\ idx' = r.idx
      /\ queue' \in Seq(Command) /\ Len(queue') <= QMax + 1
      /\ deferred' \in [Deferrable -> Nat] /\ timer' \in BOOLEAN /\ toK' \in Seq(Op)
      /\ \A cb \in Deferrable : cb # "init" =>
           Count(queue', cb) + deferred'[cb] = Count(q, cb) + d[cb] + Count(r.cmds, cb)
      /\ q = <<>> /\ r.cmds = <<>> => queue' = <<>>
  BY <1>1, <1>2, SubmitEffect
<1>4. state' \in CtlState /\ idx' \in 0..NumChan /\ open' \subseteq Client
  BY <1>1, <1>2, <1>3 DEF Work, TypeOK
<1>5. Unplugged'
  BY <1>1, <1>2, <1>3 DEF Unplugged
<1>6. CompletedOnce'
  <2> SUFFICES ASSUME NEW c \in Client
               PROVE  Count(queue', c) + deferred'[c] = IF c \in open' THEN 1 ELSE 0
    BY DEF CompletedOnce, Pending
  <2>1. c \in Deferrable /\ c # "init"
    BY Names
  <2>2. Count(r.cmds, c) = 0
    BY <1>2 DEF Own
  <2>3. Pending(c) \in Nat /\ Pending(c) = IF c \in open THEN 1 ELSE 0
    BY <1>1, <2>1, PendingType DEF CompletedOnce
  <2>4. Count(q, c) + d[c] = Pending(c) - IF c = done THEN 1 ELSE 0
    BY <1>2, <2>1
  <2>5. Count(q, c) \in Nat /\ d[c] \in Nat
    BY <1>2, <2>1, CountType
  <2>6. Count(queue', c) + deferred'[c] = Count(q, c) + d[c]
    BY <1>3, <2>1, <2>2, <2>5
  <2>7. c \in open' <=> c \in open /\ c # done
    BY <1>2
  <2> QED BY <2>3, <2>4, <2>5, <2>6, <2>7
<1> QED BY <1>3, <1>4, <1>5, <1>6

LEMMA CompletesChain ==
  ASSUME ControlInv, SingleChain, NEW done, NEW r, NEW q, NEW d, NEW t,
         Completes(done, r, q, d, t), Continues(done, r)
  PROVE  SingleChain'
<1>1. /\ TypeOK /\ toK \in Seq(Op)
  BY DEF ControlInv, TypeOK
<1>2. /\ r \in Work /\ (r.st = "DISC" <=> state = "DISC")
      /\ q \in Seq(Command) /\ Len(q) <= QMax + 1 /\ d \in [Deferrable -> Nat] /\ t \in BOOLEAN
      /\ Count(q, "init") + d["init"] = Pending("init") - IF "init" = done THEN 1 ELSE 0
      /\ Submit(r, q, d, t)
  BY Names DEF Completes
<1>3. /\ state' = r.st
      /\ Count(queue', "init") + deferred'["init"] = Count(q, "init") + d["init"] + Added(r)
  BY <1>1, <1>2, SubmitEffect
<1> SUFFICES ASSUME state' # "DISC"
             PROVE  Count(queue', "init") + deferred'["init"] = Links(state')
  BY DEF SingleChain, Pending, Links
<1>4. Pending("init") = Links(state)
  BY <1>2, <1>3 DEF SingleChain, Links
<1>5. Count(q, "init") \in Nat /\ d["init"] \in Nat /\ Links(state) \in {0, 1}
      /\ (state \in Initializing <=> Links(state) = 1)
  <2>1. Count(q, "init") \in Nat /\ d["init"] \in Nat
    BY <1>2, Names, CountType
  <2> QED BY <2>1 DEF Links
<1>6. Added(r) \in Nat
  <2>1. Count(r.cmds, "init") \in Nat
    BY <1>2, CountType DEF Work
  <2> QED BY <2>1 DEF Added
<1>7. CASE done = "init"
  <2>1. Count(q, "init") + d["init"] = Links(state) - 1
    BY <1>2, <1>4, <1>7
  <2>2. state \in Initializing /\ Count(q, "init") + d["init"] = 0
    BY <1>5, <2>1
  <2>3. Added(r) = Links(r.st)
    BY <1>7, <2>2 DEF Continues
  <2> QED BY <1>3, <1>6, <2>2, <2>3
<1>8. CASE done # "init"
  <2>1. Count(q, "init") + d["init"] = Links(state)
    BY <1>2, <1>4, <1>5, <1>8
  <2>2. Added(r) + Links(state) = Links(r.st)
    BY <1>8 DEF Continues
  <2> QED BY <1>3, <1>5, <1>6, <2>1, <2>2
<1> QED BY <1>7, <1>8

-----------------------------------------------------------------------------
(* The handlers. *)

LEMMA StateParts ==
  ASSUME ControlInv
  PROVE  /\ TypeOK /\ CompletedOnce /\ Unplugged
         /\ queue \in Seq(Command) /\ Len(queue) <= QMax + 1
         /\ deferred \in [Deferrable -> Nat] /\ timer \in BOOLEAN /\ state \in CtlState
         /\ fromK \in Seq(Op \cup {"NOT_SUPPORTED", "RESTARTED"}) /\ toK \in Seq(Op)
BY DEF ControlInv, TypeOK

\* The command at the head completes.
LEMMA HeadCompletes ==
  ASSUME ControlInv, queue # <<>>, NEW r, NEW t \in BOOLEAN,
         r \in Work, Own(r), r.st = "DISC" <=> state = "DISC",
         Submit(r, Tail(queue), deferred, t),
         open' = open \ {queue[1].cb}, conn' = conn
  PROVE  Completes(queue[1].cb, r, Tail(queue), deferred, t)
<1>1. state # "DISC"
  BY StateParts DEF Unplugged
<1>2. Tail(queue) \in Seq(Command) /\ Len(Tail(queue)) = Len(queue) - 1
  BY CountHead, StateParts
<1>3. Len(queue) \in Nat /\ QMax \in Nat
  BY StateParts, LenProperties, ControlAssumption
<1>4. ASSUME NEW cb \in Deferrable
      PROVE  Count(Tail(queue), cb) + deferred[cb] = Pending(cb) - IF cb = queue[1].cb THEN 1 ELSE 0
  <2>1. Count(queue, cb) = Count(Tail(queue), cb) + IF queue[1].cb = cb THEN 1 ELSE 0
    BY CountHead, StateParts
  <2>2. Count(Tail(queue), cb) \in Nat /\ deferred[cb] \in Nat
    BY <1>2, CountType, StateParts
  <2> QED BY <2>1, <2>2 DEF Pending
<1> QED BY <1>1, <1>2, <1>3, <1>4, StateParts DEF Completes

\* Nothing completes.
LEMMA NoneCompletes ==
  ASSUME ControlInv, NEW r,
         r \in Work, Own(r), r.st = "DISC" <=> state = "DISC",
         state = "DISC" => r.cmds = <<>>,
         Submit(r, queue, deferred, timer), open' = open, conn' = conn
  PROVE  Completes("none", r, queue, deferred, timer)
<1>1. state = "DISC" => queue = <<>>
  BY StateParts DEF Unplugged
<1>2. ASSUME NEW cb \in Deferrable
      PROVE  Count(queue, cb) + deferred[cb] = Pending(cb) - IF cb = "none" THEN 1 ELSE 0
  <2>1. cb # "none"
    BY Names DEF Deferrable
  <2>2. Pending(cb) = Count(queue, cb) + deferred[cb] /\ Pending(cb) \in Nat
    BY StateParts, PendingType DEF Pending
  <2> QED BY <2>1, <2>2
<1>3. "none" \notin Client /\ open \subseteq Client
  BY Names, StateParts DEF TypeOK
<1>4. open' = open \ {"none"}
  BY <1>3
<1> QED BY <1>1, <1>2, <1>4, StateParts DEF Completes

LEMMA HeartbeatCompletes ==
  ASSUME ControlInv, Heartbeat
  PROVE  \E r : /\ Completes("none", r, queue, deferred, timer)
                /\ OneChain => Continues("none", r)
                /\ r = [Nothing EXCEPT !.cmds = <<New("PING", "beat")>>]
<1> DEFINE m == <<New("PING", "beat")>>
           r == [Nothing EXCEPT !.cmds = m]
<1>1. state # "DISC" /\ Submit(r, queue, deferred, timer) /\ open' = open /\ conn' = conn
  BY DEF Heartbeat
<1>2. /\ Nothing \in Work /\ Nothing.st = state /\ Nothing.idx = idx
      /\ Nothing.cmds = <<>> /\ Nothing.err = FALSE
  BY NothingWork, StateParts
<1>3. m \in Seq(Command) /\ New("PING", "beat").cb = "beat"
  BY NewCommand, Names DEF Op
<1>4. \A cb : cb # "beat" => Count(m, cb) = 0
  BY <1>3, CountOne
<1> HIDE DEF m
<1>5. r \in Work /\ r.st = state /\ r.cmds = m /\ r.err = FALSE
  BY <1>2, <1>3 DEF Work
<1> HIDE DEF r
<1>6. Added(r) = 0 /\ Own(r)
  BY <1>3, <1>4, <1>5, AddedIs, Names
<1>7. Completes("none", r, queue, deferred, timer)
  BY <1>1, <1>5, <1>6, NoneCompletes
<1>8. Links(state) \in Nat
  BY DEF Links
<1>9. Continues("none", r)
  BY <1>5, <1>6, <1>8 DEF Continues
<1> QED BY <1>7, <1>9 DEF r, m

LEMMA DeferredCompletes ==
  ASSUME ControlInv, NEW cb \in Deferrable, RunDeferred(cb)
  PROVE  \E r, d : /\ Completes(cb, r, queue, d, timer)
                   /\ OneChain => Continues(cb, r)
                   /\ r = Completion(cb, "ERROR")
<1> DEFINE r == Completion(cb, "ERROR")
           d == [deferred EXCEPT ![cb] = deferred[cb] - 1]
<1>1. /\ deferred[cb] > 0 /\ Submit(r, queue, d, timer)
      /\ open' = open \ {cb} /\ conn' = conn
  BY DEF RunDeferred
<1>2. cb \in Callback
  BY DEF Deferrable, Callback
<1>3. /\ r \in Work /\ Own(r) /\ (r.st = "DISC" <=> state = "DISC")
      /\ state = "DISC" => r.cmds = <<>>
      /\ NumChan \notin Configured =>
           /\ cb = "init" /\ state \in Initializing => Added(r) = Links(r.st)
           /\ cb # "init" => Added(r) + Links(state) = Links(r.st)
  BY <1>2, StateParts, CompletionWork
<1> HIDE DEF r
<1>4. /\ d \in [Deferrable -> Nat]
      /\ \A x \in Deferrable : d[x] = deferred[x] - IF x = cb THEN 1 ELSE 0
  BY <1>1, StateParts
<1> HIDE DEF d
<1>5. ASSUME NEW x \in Deferrable
      PROVE  Count(queue, x) + d[x] = Pending(x) - IF x = cb THEN 1 ELSE 0
  <2>1. Count(queue, x) \in Nat /\ deferred[x] \in Nat
    BY PendingType, StateParts
  <2>2. d[x] = deferred[x] - IF x = cb THEN 1 ELSE 0
    BY <1>4
  <2> QED BY <2>1, <2>2 DEF Pending
<1>6. state = "DISC" => queue = <<>>
  BY StateParts DEF Unplugged
<1>7. Completes(cb, r, queue, d, timer)
  BY <1>1, <1>3, <1>4, <1>5, <1>6, StateParts DEF Completes
<1>8. OneChain => Continues(cb, r)
  BY <1>3 DEF Continues, OneChain
<1> QED BY <1>7, <1>8 DEF r

LEMMA TimeoutCompletes ==
  ASSUME ControlInv, Timeout
  PROVE  \E done, r : /\ Completes(done, r, Tail(queue), deferred, FALSE)
                      /\ OneChain => Continues(done, r)
                      /\ done = queue[1].cb /\ r = Completion(done, "TIMEOUT")
<1> DEFINE cb == queue[1].cb
           r == Completion(cb, "TIMEOUT")
<1>1. /\ queue # <<>> /\ Submit(r, Tail(queue), deferred, FALSE)
      /\ open' = open \ {queue[1].cb} /\ conn' = conn
  BY DEF Timeout
<1>2. cb \in Callback
  BY <1>1, StateParts, CountHead DEF Command
<1>3. /\ r \in Work /\ Own(r) /\ (r.st = "DISC" <=> state = "DISC")
      /\ NumChan \notin Configured =>
           /\ cb = "init" /\ state \in Initializing => Added(r) = Links(r.st)
           /\ cb # "init" => Added(r) + Links(state) = Links(r.st)
  BY <1>2, StateParts, CompletionWork
<1> HIDE DEF r
<1>4. Completes(cb, r, Tail(queue), deferred, FALSE)
  BY <1>1, <1>3, HeadCompletes
<1>5. OneChain => Continues(cb, r)
  BY <1>3 DEF Continues, OneChain
<1> QED BY <1>4, <1>5 DEF r

LEMMA AnswerCompletes ==
  ASSUME ControlInv, Answer
  PROVE  \E done, r : /\ Completes(done, r, Tail(queue), deferred, FALSE)
                      /\ OneChain => Continues(done, r)
                      /\ done = queue[1].cb
                      /\ r = Alive(Completion(done, IF Head(fromK) = queue[1].op THEN "OK"
                                                    ELSE "NOT_SUPPORTED"))
<1> DEFINE cb == queue[1].cb
           result == IF Head(fromK) = queue[1].op THEN "OK" ELSE "NOT_SUPPORTED"
           r == Completion(cb, result)
           a == Alive(r)
<1>1. /\ queue # <<>> /\ Submit(a, Tail(queue), deferred, FALSE)
      /\ open' = open \ {queue[1].cb} /\ conn' = conn
  BY DEF Answer, Answers
<1>2. cb \in Callback
  BY <1>1, StateParts, CountHead DEF Command
<1>3. /\ r \in Work /\ Own(r) /\ (r.st = "DISC" <=> state = "DISC")
      /\ r.st = "OFF" => r.cmds = <<>> /\ ~r.err
      /\ NumChan \notin Configured =>
           /\ cb = "init" /\ state \in Initializing => Added(r) = Links(r.st)
           /\ cb # "init" => Added(r) + Links(state) = Links(r.st)
  BY <1>2, StateParts, CompletionWork
<1> HIDE DEF r
<1>4. /\ a \in Work /\ Own(a) /\ (a.st = "DISC" <=> r.st = "DISC")
      /\ NumChan \notin Configured => Added(a) + Links(r.st) = Added(r) + Links(a.st)
  BY <1>3, AliveWork
<1>5. Added(r) \in Nat /\ Added(a) \in Nat
  <2>1. r.cmds \in Seq(Command) /\ a.cmds \in Seq(Command)
    BY <1>3, <1>4 DEF Work
  <2>2. Count(r.cmds, "init") \in Nat /\ Count(a.cmds, "init") \in Nat
    BY <2>1, CountType
  <2> QED BY <2>2 DEF Added
<1>6. Links(r.st) \in Nat /\ Links(a.st) \in Nat /\ Links(state) \in Nat
  BY DEF Links
<1> HIDE DEF a
<1>7. Completes(cb, a, Tail(queue), deferred, FALSE)
  BY <1>1, <1>3, <1>4, HeadCompletes
<1>8. OneChain => Continues(cb, a)
  BY <1>3, <1>4, <1>5, <1>6 DEF Continues, OneChain
<1> QED BY <1>7, <1>8 DEF a, r

LEMMA ReportCompletes ==
  ASSUME ControlInv, Report
  PROVE  \E r : /\ Completes("none", r, queue, deferred, timer)
                /\ OneChain => Continues("none", r)
                /\ r = Alive(IF Head(fromK) = "RESTARTED" THEN Restarted ELSE Nothing)
<1> DEFINE s == initializer_step("SET_CHANNELS", idx)
           r == IF Head(fromK) = "RESTARTED" THEN Restarted ELSE Nothing
           a == Alive(r)
<1>1. conn /\ Submit(a, queue, deferred, timer) /\ open' = open /\ conn' = conn
  BY DEF Report
<1>2. /\ Nothing \in Work /\ Own(Nothing) /\ Nothing.st = state
      /\ Nothing.cmds = <<>> /\ ~Nothing.err /\ Added(Nothing) = 0
  BY NothingWork, StateParts
<1>3. /\ s \in Work /\ Own(s) /\ s.st # "DISC" /\ s.st # "OFF"
      /\ NumChan \notin Configured => Added(s) = Links(s.st)
  <2>1. "SET_CHANNELS" \in CtlState /\ "SET_CHANNELS" \in Initializing /\ idx \in 0..NumChan
    BY StateParts DEF CtlState, Initializing, TypeOK
  <2> QED BY <2>1, StepWork
<1>4. state # "DISC"
  BY <1>1, StateParts DEF Unplugged
<1>5. r = Nothing \/ (r = s /\ state = "OK")
  BY DEF Restarted
<1>6. Links("OK") = 0 /\ Links(state) \in Nat /\ Links(s.st) \in Nat
  BY DEF Links, Initializing
<1> HIDE DEF s, r
<1>7. /\ r \in Work /\ Own(r) /\ r.st # "DISC"
      /\ r.st = "OFF" => r.cmds = <<>> /\ ~r.err
      /\ NumChan \notin Configured => Added(r) + Links(state) = Links(r.st)
  <2>1. CASE r = Nothing
    BY <1>2, <1>4, <1>6, <2>1
  <2>2. CASE r = s /\ state = "OK"
    BY <1>3, <1>6, <2>2
  <2> QED BY <1>5, <2>1, <2>2
<1>8. /\ a \in Work /\ Own(a) /\ (a.st = "DISC" <=> r.st = "DISC")
      /\ NumChan \notin Configured => Added(a) + Links(r.st) = Added(r) + Links(a.st)
  BY <1>7, AliveWork
<1>9. Added(r) \in Nat /\ Added(a) \in Nat
  <2>1. r.cmds \in Seq(Command) /\ a.cmds \in Seq(Command)
    BY <1>7, <1>8 DEF Work
  <2>2. Count(r.cmds, "init") \in Nat /\ Count(a.cmds, "init") \in Nat
    BY <2>1, CountType
  <2> QED BY <2>2 DEF Added
<1>10. Links(r.st) \in Nat /\ Links(a.st) \in Nat
  BY DEF Links
<1> HIDE DEF a
<1>11. Completes("none", a, queue, deferred, timer)
  BY <1>1, <1>4, <1>7, <1>8, NoneCompletes
<1>12. OneChain => Continues("none", a)
  BY <1>6, <1>7, <1>8, <1>9, <1>10 DEF Continues, OneChain
<1> QED BY <1>11, <1>12 DEF a, r

\* A client submits a command, or is told at once that it cannot.
LEMMA ClientKeeps ==
  ASSUME ControlInv, NEW c \in Client, ClientSubmit(c) \/ ClientSetSpeed(c)
  PROVE  /\ state' = state /\ idx' = idx /\ conn' = conn /\ open' = open \cup {c}
         /\ queue' \in Seq(Command) /\ Len(queue') <= QMax + 1 /\ timer' \in BOOLEAN
         /\ deferred' \in [Deferrable -> Nat] /\ toK' \in Seq(Op)
         /\ state = "DISC" => queue' = queue
         /\ \A cb \in Deferrable : Count(queue', cb) + deferred'[cb] = Pending(cb) + IF cb = c THEN 1 ELSE 0
<1> DEFINE m == <<New(ClientOp[c], c)>>
           r == [Nothing EXCEPT !.cmds = m]
<1>0. /\ c \in Deferrable /\ c \in Callback /\ c # "init"
      /\ \A cb \in Deferrable : Count(queue, cb) \in Nat /\ deferred[cb] \in Nat
      /\ \A cb \in Deferrable : Pending(cb) = Count(queue, cb) + deferred[cb]
  BY Names, PendingType, StateParts DEF Pending
<1>1. /\ open' = open \cup {c} /\ conn' = conn
      /\ \/ state # "DISC" /\ Submit(r, queue, deferred, timer)
         \/ /\ deferred' = [deferred EXCEPT ![c] = deferred[c] + 1]
            /\ state' = state /\ idx' = idx /\ queue' = queue /\ timer' = timer /\ toK' = toK
  BY DEF ClientSubmit, ClientSetSpeed
<1>2. CASE deferred' = [deferred EXCEPT ![c] = deferred[c] + 1]
           /\ state' = state /\ idx' = idx /\ queue' = queue /\ timer' = timer /\ toK' = toK
  <2>1. /\ deferred' \in [Deferrable -> Nat]
        /\ \A cb \in Deferrable : deferred'[cb] = deferred[cb] + IF cb = c THEN 1 ELSE 0
    BY <1>0, <1>2, StateParts
  <2>2. ASSUME NEW cb \in Deferrable
        PROVE  Count(queue', cb) + deferred'[cb] = Pending(cb) + IF cb = c THEN 1 ELSE 0
    <3>1. Count(queue', cb) = Count(queue, cb)
      BY <1>2
    <3>2. deferred'[cb] = deferred[cb] + IF cb = c THEN 1 ELSE 0
      BY <2>1
    <3> QED BY <1>0, <3>1, <3>2
  <2> QED BY <1>1, <1>2, <2>1, <2>2, StateParts
<1>3. CASE state # "DISC" /\ Submit(r, queue, deferred, timer)
  <2>1. /\ Nothing \in Work /\ Nothing.st = state /\ Nothing.idx = idx
        /\ Nothing.cmds = <<>> /\ Nothing.err = FALSE
    BY NothingWork, StateParts
  <2>2. ClientOp[c] \in Op
    BY ControlAssumption DEF Op
  <2>3. m \in Seq(Command) /\ New(ClientOp[c], c).cb = c
    BY <1>0, <2>2, NewCommand
  <2>4. \A cb : Count(m, cb) = IF cb = c THEN 1 ELSE 0
    BY <2>3, CountOne
  <2> HIDE DEF m
  <2>5. r \in Work /\ r.st = state /\ r.idx = idx /\ r.cmds = m /\ r.err = FALSE
    BY <2>1, <2>3 DEF Work
  <2> HIDE DEF r
  <2>6. Added(r) = 0
    BY <1>0, <2>3, <2>4, <2>5, AddedIs
  <2>7. /\ state' = state /\ idx' = idx
        /\ queue' \in Seq(Command) /\ Len(queue') <= QMax + 1
        /\ deferred' \in [Deferrable -> Nat] /\ timer' \in BOOLEAN /\ toK' \in Seq(Op)
        /\ \A cb \in Deferrable : cb # "init" =>
             Count(queue', cb) + deferred'[cb] = Count(queue, cb) + deferred[cb] + Count(r.cmds, cb)
        /\ Count(queue', "init") + deferred'["init"] = Count(queue, "init") + deferred["init"] + Added(r)
    BY <1>3, <2>5, SubmitEffect, StateParts
  <2>8. ASSUME NEW cb \in Deferrable
        PROVE  Count(queue', cb) + deferred'[cb] = Pending(cb) + IF cb = c THEN 1 ELSE 0
    <3>1. Count(queue, cb) \in Nat /\ deferred[cb] \in Nat /\ Pending(cb) = Count(queue, cb) + deferred[cb]
      BY <1>0
    <3>2. CASE cb = "init"
      BY <1>0, <2>6, <2>7, <3>1, <3>2
    <3>3. CASE cb # "init"
      BY <2>4, <2>5, <2>7, <3>1, <3>3
    <3> QED BY <3>2, <3>3
  <2> QED BY <1>1, <1>3, <2>7, <2>8
<1> QED BY <1>1, <1>2, <1>3

LEMMA ClientInv ==
  ASSUME ControlInv, NEW c \in Client, ClientSubmit(c) \/ ClientSetSpeed(c)
  PROVE  ControlInv' /\ (SingleChain => SingleChain')
<1>1. /\ state' = state /\ idx' = idx /\ conn' = conn /\ open' = open \cup {c}
      /\ queue' \in Seq(Command) /\ Len(queue') <= QMax + 1 /\ timer' \in BOOLEAN
      /\ deferred' \in [Deferrable -> Nat] /\ toK' \in Seq(Op)
      /\ state = "DISC" => queue' = queue
      /\ \A cb \in Deferrable : Count(queue', cb) + deferred'[cb] = Pending(cb) + IF cb = c THEN 1 ELSE 0
  BY ClientKeeps
<1>2. c \notin open
  BY DEF ClientSubmit, ClientSetSpeed
<1>3. /\ fromK' = fromK /\ on' = on /\ loaded' = loaded /\ outs' = outs /\ faults' = faults
      /\ ignored' = ignored
  BY DEF ClientSubmit, ClientSetSpeed, keyerVars
<1>4. TypeOK'
  BY <1>1, <1>3, StateParts DEF TypeOK
<1>5. CompletedOnce'
  <2> SUFFICES ASSUME NEW d \in Client
               PROVE  Count(queue', d) + deferred'[d] = IF d \in open' THEN 1 ELSE 0
    BY DEF CompletedOnce, Pending
  <2>1. d \in Deferrable /\ Pending(d) = IF d \in open THEN 1 ELSE 0
    BY Names, StateParts DEF CompletedOnce
  <2>2. Count(queue', d) + deferred'[d] = Pending(d) + IF d = c THEN 1 ELSE 0
    BY <1>1, <2>1
  <2> QED BY <1>1, <1>2, <2>1, <2>2
<1>6. Unplugged'
  BY <1>1, StateParts DEF Unplugged
<1>7. SingleChain => SingleChain'
  <2>1. "init" \in Deferrable /\ "init" # c /\ Pending("init") \in Nat
    BY Names, PendingType, StateParts
  <2>2. Count(queue', "init") + deferred'["init"] = Pending("init")
    BY <1>1, <2>1
  <2>3. Pending("init")' = Pending("init")
    BY <2>2 DEF Pending
  <2> QED BY <1>1, <2>3 DEF SingleChain
<1> QED BY <1>4, <1>5, <1>6, <1>7 DEF ControlInv

\* A keyer that is connected finds an empty queue, and its initializer starts.
LEMMA ConnectInv ==
  ASSUME ControlInv, Connect
  PROVE  ControlInv' /\ (OneChain => SingleChain')
<1> DEFINE r == initializer_step("OFF", idx)
<1>1. /\ ~conn /\ conn' = TRUE /\ Submit(r, queue, deferred, timer) /\ open' = open
      /\ fromK' = fromK /\ on' = on /\ loaded' = loaded /\ outs' = outs /\ faults' = faults
      /\ ignored' = FALSE /\ \A cb \in Deferrable : deferred[cb] <= IdleCap
  BY DEF Connect, keyerVars
<1>2. /\ r \in Work /\ Own(r) /\ r.st # "DISC"
      /\ NumChan \notin Configured => Added(r) = Links(r.st)
  <2>1. "OFF" \in CtlState /\ idx \in 0..NumChan
    BY StateParts DEF CtlState, TypeOK
  <2> QED BY <2>1, StepWork
<1> HIDE DEF r
<1>3. /\ state' = r.st /\ idx' = r.idx
      /\ queue' \in Seq(Command) /\ Len(queue') <= QMax + 1
      /\ deferred' \in [Deferrable -> Nat] /\ timer' \in BOOLEAN /\ toK' \in Seq(Op)
      /\ \A cb \in Deferrable : cb # "init" =>
           Count(queue', cb) + deferred'[cb] = Count(queue, cb) + deferred[cb] + Count(r.cmds, cb)
      /\ Count(queue', "init") + deferred'["init"] = Count(queue, "init") + deferred["init"] + Added(r)
  BY <1>1, <1>2, SubmitEffect, StateParts
<1>4. queue = <<>>
  BY <1>1, StateParts DEF Unplugged
<1>5. TypeOK'
  <2>1. state' \in CtlState /\ idx' \in 0..NumChan
    BY <1>2, <1>3 DEF Work
  <2> QED BY <1>1, <1>3, <2>1, StateParts DEF TypeOK
<1>6. CompletedOnce'
  <2> SUFFICES ASSUME NEW c \in Client
               PROVE  Count(queue', c) + deferred'[c] = IF c \in open THEN 1 ELSE 0
    BY <1>1 DEF CompletedOnce, Pending
  <2>1. c \in Deferrable /\ c # "init" /\ Count(r.cmds, c) = 0
    BY <1>2, Names DEF Own
  <2>2. Count(queue, c) + deferred[c] = IF c \in open THEN 1 ELSE 0
    BY StateParts DEF CompletedOnce, Pending
  <2>3. Count(queue, c) \in Nat /\ deferred[c] \in Nat
    BY <2>1, PendingType, StateParts
  <2> QED BY <1>3, <2>1, <2>2, <2>3
<1>7. Unplugged'
  BY <1>1, <1>2, <1>3 DEF Unplugged
<1>8. OneChain => SingleChain'
  <2> SUFFICES ASSUME OneChain
               PROVE  Count(queue', "init") + deferred'["init"] = Links(state')
    BY DEF SingleChain, Pending, Links
  <2>1. Count(queue, "init") = 0
    BY <1>4, CountEmpty
  <2>2. deferred["init"] = 0
    BY <1>1, Names, StateParts DEF OneChain
  <2>3. Added(r) = Links(state') /\ Links(state') \in Nat
    BY <1>2, <1>3 DEF OneChain, Links
  <2> QED BY <1>3, <2>1, <2>2, <2>3
<1> QED BY <1>5, <1>6, <1>7, <1>8 DEF ControlInv

\* Everyone who waits for a command in the queue is told.
LEMMA DisconnectInv ==
  ASSUME ControlInv, Disconnect
  PROVE  ControlInv' /\ SingleChain'
<1>1. /\ conn' = FALSE /\ state' = "DISC" /\ queue' = <<>> /\ timer' = FALSE /\ fromK' = <<>>
      /\ open' = open \ {queue[k].cb : k \in 1..Len(queue)}
      /\ idx' = idx /\ deferred' = deferred /\ on' = on /\ loaded' = loaded /\ faults' = faults
      /\ ignored' = ignored /\ outs < MaxOut /\ outs' = outs + 1
  BY DEF Disconnect
<1>2. toK' \in Seq(Op)
  <2>1. PICK k \in 0..Len(toK) : toK' = SubSeq(toK, k + 1, Len(toK))
    BY DEF Disconnect
  <2>2. Len(toK) \in Nat /\ \A i \in 1..Len(toK) : toK[i] \in Op
    BY StateParts, LenProperties, ElementOfSeq
  <2> QED BY <2>1, <2>2, SubSeqProperties
<1>3. TypeOK'
  <2>1. <<>> \in Seq(Command) /\ <<>> \in Seq(Op \cup {"NOT_SUPPORTED", "RESTARTED"}) /\ Len(<<>>) = 0
    BY EmptySeq
  <2>2. outs' \in 0..MaxOut /\ QMax \in Nat
    BY <1>1, StateParts, ControlAssumption DEF TypeOK
  <2>3. state' \in CtlState
    BY <1>1 DEF CtlState
  <2>4. conn' \in BOOLEAN /\ timer' \in BOOLEAN /\ open' \subseteq Client
    BY <1>1, StateParts DEF TypeOK
  <2>5. idx' \in 0..NumChan /\ deferred' \in [Deferrable -> Nat] /\ on' \in BOOLEAN
        /\ loaded' \subseteq ClientCmd /\ faults' \in 0..MaxFaults /\ ignored' \in BOOLEAN
    BY <1>1, StateParts DEF TypeOK
  <2>6. queue' \in Seq(Command) /\ Len(queue') <= QMax + 1
        /\ fromK' \in Seq(Op \cup {"NOT_SUPPORTED", "RESTARTED"})
    BY <1>1, <2>1, <2>2
  <2> QED BY <1>2, <2>2, <2>3, <2>4, <2>5, <2>6 DEF TypeOK
<1>4. CompletedOnce'
  <2> SUFFICES ASSUME NEW c \in Client
               PROVE  Count(queue', c) + deferred'[c] = IF c \in open' THEN 1 ELSE 0
    BY DEF CompletedOnce, Pending
  <2>1. Count(queue, c) + deferred[c] = IF c \in open THEN 1 ELSE 0
    BY StateParts DEF CompletedOnce, Pending
  <2>2. Count(queue, c) \in Nat /\ deferred[c] \in Nat /\ c \in Deferrable
    BY Names, PendingType, StateParts
  <2>3. Count(queue', c) = 0 /\ deferred'[c] = deferred[c]
    BY <1>1, CountEmpty
  <2>4. DOMAIN queue = 1..Len(queue)
    BY StateParts, LenProperties
  <2>5. CASE Count(queue, c) = 0
    <3>1. \A k \in DOMAIN queue : queue[k].cb # c
      BY <2>5, CountPositive, StateParts
    <3>2. c \in open' <=> c \in open
      BY <1>1, <2>4, <3>1
    <3> QED BY <2>1, <2>2, <2>3, <2>5, <3>2
  <2>6. CASE Count(queue, c) # 0
    <3>1. \E k \in DOMAIN queue : queue[k].cb = c
      BY <2>6, CountPositive, StateParts
    <3>2. c \notin open'
      BY <1>1, <2>4, <3>1
    <3> QED BY <2>1, <2>2, <2>3, <2>6, <3>2
  <2> QED BY <2>5, <2>6
<1>5. Unplugged' /\ SingleChain'
  BY <1>1 DEF Unplugged, SingleChain
<1> QED BY <1>3, <1>4, <1>5 DEF ControlInv

LEMMA KeyerInv ==
  ASSUME ControlInv, KeyerNext
  PROVE  ControlInv' /\ (SingleChain => SingleChain')
<1>1. UNCHANGED <<ctlVars, conn>>
  BY DEF KeyerNext, KeyerAnswer, KeyerLose, KeyerOff, KeyerOn
<1>2. TypeOK'
  <2>1. \A s \in Seq(Op) : s # <<>> => Head(s) \in Op /\ Tail(s) \in Seq(Op)
    BY HeadTailProperties
  <2>2. \A s \in Seq(Op \cup {"NOT_SUPPORTED", "RESTARTED"}), x \in Op \cup {"NOT_SUPPORTED", "RESTARTED"} :
          Append(s, x) \in Seq(Op \cup {"NOT_SUPPORTED", "RESTARTED"})
    BY AppendProperties
  <2>3. CASE KeyerAnswer
    BY <1>1, <2>1, <2>2, <2>3, StateParts DEF KeyerAnswer, TypeOK, ctlVars
  <2>4. CASE KeyerLose
    <3>1. faults' \in 0..MaxFaults
      BY <2>4, StateParts, ControlAssumption, SMTT(30) DEF KeyerLose, TypeOK
    <3>2. toK' \in Seq(Op)
      BY <2>1, <2>4, StateParts DEF KeyerLose
    <3>3. UNCHANGED <<ctlVars, conn, fromK, keyerVars, ignored>>
      BY <2>4 DEF KeyerLose
    <3> QED BY <3>1, <3>2, <3>3, StateParts DEF TypeOK, ctlVars, keyerVars
  <2>5. CASE KeyerOff
    <3>1. outs' \in 0..MaxOut
      BY <2>5, StateParts, ControlAssumption, SMTT(30) DEF KeyerOff, TypeOK
    <3>2. toK' \in Seq(Op) /\ on' \in BOOLEAN
      BY <2>5, EmptySeq DEF KeyerOff
    <3>3. UNCHANGED <<ctlVars, conn, fromK, loaded, faults, ignored>>
      BY <2>5 DEF KeyerOff
    <3> QED BY <3>1, <3>2, <3>3, StateParts DEF TypeOK, ctlVars
  <2>6. CASE KeyerOn
    BY <1>1, <2>2, <2>6, StateParts DEF KeyerOn, TypeOK, ctlVars
  <2> QED BY <2>3, <2>4, <2>5, <2>6 DEF KeyerNext
<1>3. Unplugged' /\ CompletedOnce' /\ (SingleChain => SingleChain')
  BY <1>1, StateParts DEF Unplugged, CompletedOnce, SingleChain, Pending, ctlVars
<1> QED BY <1>2, <1>3 DEF ControlInv

\* Every handler that completes a command, or none.
LEMMA HandlerInv ==
  ASSUME ControlInv, NEW done, NEW r, NEW q, NEW d, NEW t, Completes(done, r, q, d, t),
         fromK' \in Seq(Op \cup {"NOT_SUPPORTED", "RESTARTED"}), ignored' \in BOOLEAN,
         faults' \in 0..MaxFaults, UNCHANGED keyerVars
  PROVE  ControlInv'
<1>1. /\ state' \in CtlState /\ idx' \in 0..NumChan
      /\ queue' \in Seq(Command) /\ Len(queue') <= QMax + 1 /\ timer' \in BOOLEAN
      /\ deferred' \in [Deferrable -> Nat] /\ open' \subseteq Client /\ toK' \in Seq(Op)
      /\ CompletedOnce' /\ Unplugged'
  BY CompletesInv
<1>2. conn' = conn
  BY DEF Completes
<1>3. TypeOK'
  BY <1>1, <1>2, StateParts DEF TypeOK, keyerVars
<1> QED BY <1>1, <1>3 DEF ControlInv

-----------------------------------------------------------------------------
(* The specification. *)

LEMMA ControlStarts == Init => ControlInv /\ SingleChain
<1> SUFFICES ASSUME Init PROVE ControlInv /\ SingleChain
  OBVIOUS
<1>1. /\ conn = FALSE /\ state = "DISC" /\ idx = 0 /\ queue = <<>> /\ timer = FALSE
      /\ deferred = [cb \in Deferrable |-> 0] /\ open = {} /\ toK = <<>> /\ fromK = <<>>
      /\ on = TRUE /\ loaded = {} /\ faults = 0 /\ outs = 0 /\ ignored = FALSE
  BY DEF Init
<1>2. TypeOK
  <2>1. <<>> \in Seq(Command) /\ <<>> \in Seq(Op) /\ Len(<<>>) = 0
        /\ <<>> \in Seq(Op \cup {"NOT_SUPPORTED", "RESTARTED"})
    BY EmptySeq
  <2>2. state \in CtlState /\ idx \in 0..NumChan /\ 0 <= QMax + 1
        /\ 0 \in 0..MaxFaults /\ 0 \in 0..MaxOut
    BY <1>1, ControlAssumption DEF CtlState
  <2> QED BY <1>1, <2>1, <2>2 DEF TypeOK
<1>3. CompletedOnce
  <2> SUFFICES ASSUME NEW c \in Client PROVE Pending(c) = IF c \in open THEN 1 ELSE 0
    BY DEF CompletedOnce
  <2>1. Count(queue, c) = 0 /\ deferred[c] = 0
    BY <1>1, CountEmpty, Names
  <2> QED BY <1>1, <2>1 DEF Pending
<1>4. Unplugged /\ SingleChain
  BY <1>1 DEF Unplugged, SingleChain
<1> QED BY <1>2, <1>3, <1>4 DEF ControlInv

LEMMA ControlStep ==
  ASSUME ControlInv, Next
  PROVE  ControlInv' /\ (OneChain /\ SingleChain => SingleChain')
<1>2. fromK # <<>> => Tail(fromK) \in Seq(Op \cup {"NOT_SUPPORTED", "RESTARTED"})
  BY StateParts, HeadTailProperties
<1>3. ASSUME NEW c \in Client, ClientSubmit(c) \/ ClientSetSpeed(c)
      PROVE  ControlInv' /\ (SingleChain => SingleChain')
  BY <1>3, ClientInv
<1>4. CASE Heartbeat
  <2>1. PICK r : /\ Completes("none", r, queue, deferred, timer)
                 /\ OneChain => Continues("none", r)
    BY <1>4, HeartbeatCompletes
  <2>2. fromK' = fromK /\ ignored' = ignored /\ faults' = faults /\ UNCHANGED keyerVars
    BY <1>4 DEF Heartbeat
  <2>3. fromK' \in Seq(Op \cup {"NOT_SUPPORTED", "RESTARTED"}) /\ ignored' \in BOOLEAN
        /\ faults' \in 0..MaxFaults
    BY <2>2, StateParts DEF TypeOK
  <2> QED BY <2>1, <2>2, <2>3, HandlerInv, CompletesChain
<1>5. ASSUME NEW cb \in Deferrable, RunDeferred(cb)
      PROVE  ControlInv' /\ (OneChain /\ SingleChain => SingleChain')
  <2>1. PICK r, d : /\ Completes(cb, r, queue, d, timer)
                    /\ OneChain => Continues(cb, r)
    BY <1>5, DeferredCompletes
  <2>2. fromK' = fromK /\ ignored' \in BOOLEAN /\ faults' = faults /\ UNCHANGED keyerVars
    BY <1>5 DEF RunDeferred
  <2>3. fromK' \in Seq(Op \cup {"NOT_SUPPORTED", "RESTARTED"}) /\ faults' \in 0..MaxFaults
    BY <2>2, StateParts DEF TypeOK
  <2> QED BY <2>1, <2>2, <2>3, HandlerInv, CompletesChain
<1>6. CASE Timeout
  <2>1. PICK done, r : /\ Completes(done, r, Tail(queue), deferred, FALSE)
                       /\ OneChain => Continues(done, r)
    BY <1>6, TimeoutCompletes
  <2>2. fromK' = fromK /\ ignored' = ignored /\ UNCHANGED keyerVars
    BY <1>6 DEF Timeout
  <2>3. fromK' \in Seq(Op \cup {"NOT_SUPPORTED", "RESTARTED"}) /\ ignored' \in BOOLEAN
    BY <2>2, StateParts DEF TypeOK
  <2>4. faults' \in 0..MaxFaults
    <3>1. faults \in 0..MaxFaults /\ MaxFaults \in Nat
      BY StateParts, ControlAssumption DEF TypeOK
    <3>2. (faults' = faults \/ faults' = faults + 1) /\ faults' <= MaxFaults
      BY <1>6 DEF Timeout
    <3> QED BY <3>1, <3>2
  <2> QED BY <2>1, <2>2, <2>3, <2>4, HandlerInv, CompletesChain
<1>7. CASE Answer
  <2>1. PICK done, r : /\ Completes(done, r, Tail(queue), deferred, FALSE)
                       /\ OneChain => Continues(done, r)
    BY <1>7, AnswerCompletes
  <2>2. fromK # <<>> /\ fromK' = Tail(fromK) /\ ignored' \in BOOLEAN /\ faults' = faults
        /\ UNCHANGED keyerVars
    BY <1>7 DEF Answer
  <2>3. fromK' \in Seq(Op \cup {"NOT_SUPPORTED", "RESTARTED"}) /\ faults' \in 0..MaxFaults
    BY <1>2, <2>2, StateParts DEF TypeOK
  <2> QED BY <2>1, <2>2, <2>3, HandlerInv, CompletesChain
<1>8. CASE Report
  <2>1. PICK r : /\ Completes("none", r, queue, deferred, timer)
                 /\ OneChain => Continues("none", r)
    BY <1>8, ReportCompletes
  <2>2. fromK # <<>> /\ fromK' = Tail(fromK) /\ faults' = faults /\ UNCHANGED keyerVars
    BY <1>8 DEF Report
  <2>3. ignored' \in BOOLEAN
    BY <1>8, StateParts DEF Report, TypeOK
  <2>4. fromK' \in Seq(Op \cup {"NOT_SUPPORTED", "RESTARTED"}) /\ faults' \in 0..MaxFaults
    BY <1>2, <2>2, StateParts DEF TypeOK
  <2> QED BY <2>1, <2>2, <2>3, <2>4, HandlerInv, CompletesChain
<1>9. CASE Connect
  BY <1>9, ConnectInv
<1>10. CASE Disconnect
  BY <1>10, DisconnectInv
<1>11. CASE KeyerNext
  BY <1>11, KeyerInv
<1> QED BY <1>3, <1>4, <1>5, <1>6, <1>7, <1>8, <1>9, <1>10, <1>11 DEF Next, ControlNext

LEMMA ControlStutters ==
  ASSUME UNCHANGED vars
  PROVE  (ControlInv => ControlInv') /\ (SingleChain => SingleChain')
BY DEF vars, ctlVars, lineVars, keyerVars, ControlInv, TypeOK, CompletedOnce, Unplugged,
       SingleChain, Pending

\* What the queue, the deferred callbacks and the line hold, who waits for what, and
\* that nothing is queued for a keyer that is unplugged, in every reachable state.
THEOREM ControlInductive == Spec => []ControlInv
<1>1. Init => ControlInv
  BY ControlStarts
<1>2. ControlInv /\ [Next]_vars => ControlInv'
  BY ControlStep, ControlStutters
<1> QED BY <1>1, <1>2, PTL DEF Spec

\* The queue never holds more than one command above MAX_CMD_QUEUE_SIZE
\* (submit_cmd), and speed_idx never leaves the channels.
THEOREM ControlTypes == Spec => []TypeOK
<1>1. ControlInv => TypeOK
  BY DEF ControlInv
<1> QED BY <1>1, ControlInductive, PTL

\* Every command a client submitted is completed exactly once: answered, timed
\* out, refused, failed for want of room in the router (push_cmds) or flushed when
\* the keyer goes.
THEOREM EachCompletesOnce == Spec => []CompletedOnce
<1>1. ControlInv => CompletedOnce
  BY DEF ControlInv
<1> QED BY <1>1, ControlInductive, PTL

\* initializer_step and initializer_cb keep one chain, unless the last channel has
\* settings (then the step goes on to the options while the settings are
\* under way) or a keyer comes back before the idle callbacks have run.
THEOREM InitializerIsOneChain ==
  ASSUME OneChain
  PROVE  Spec => []SingleChain
<1>1. Init => ControlInv /\ SingleChain
  BY ControlStarts
<1>2. ControlInv /\ SingleChain /\ [Next]_vars => ControlInv' /\ SingleChain'
  BY OneChain, ControlStep, ControlStutters
<1> QED BY <1>1, <1>2, PTL DEF Spec

-----------------------------------------------------------------------------
(* A keyer that is online has its settings. *)

Good == Configured \ BadChannel

\* The settings the keyer has confirmed when the initializer is at channel i in st.
Needed(st, i) ==
  CASE st = "SET_CHANNELS" -> {ChanOp[c] : c \in {g \in Good : g < i}}
    [] st = "LOAD_CFG" -> {ChanOp[c] : c \in Good}
    [] st \in {"ON_CONNECT", "OK"} -> Wanted
    [] OTHER -> {}

\* The settings confirmed by the answer that moves it on.
Settled(st, i) ==
  CASE st = "SET_CHANNELS" -> {ChanOp[c] : c \in Good \cap {i}}
    [] st = "LOAD_CFG" -> {"OPTS"}
    [] OTHER -> {}

\* The initializer's command that is under way.
Expected(st, i) ==
  CASE st = "INIT" -> "PING"
    [] st = "GET_VERSION" -> "VERSION"
    [] st = "SET_CHANNELS" -> ChanOp[i]
    [] st = "LOAD_CFG" -> "OPTS"
    [] OTHER -> "ON_CONNECT"

Due(s, st, i) == \A k \in DOMAIN s : s[k].cb = "init" => s[k].op = Expected(st, i)

\* speed_idx counts channels only while they are set.
AtStart(st, i) == st \in {"INIT", "GET_VERSION", "LOAD_CFG", "ON_CONNECT", "OK"} => i = 0

\* What has been confirmed has been taken, unless a restart is to be reported after it.
Heard ==
  /\ ~conn => fromK = <<>>
  /\ \A k \in DOMAIN fromK : fromK[k] \in ClientCmd =>
       fromK[k] \in loaded \/ \E j \in DOMAIN fromK : j > k /\ fromK[j] = "RESTARTED"

Progress == ~RestartReported /\ ~ignored => Needed(state, idx) \subseteq loaded

OnlineInv ==
  ControlInv /\ SingleChain /\ Heard /\ Due(queue, state, idx) /\ AtStart(state, idx) /\ Progress

\* Whether r goes on as expected.
Orderly(r) == Due(r.cmds, r.st, r.idx) /\ AtStart(r.st, r.idx)

LEMMA DueEmpty == \A st, i : Due(<<>>, st, i)
BY DEF Due

LEMMA DueOne ==
  ASSUME NEW m, NEW st, NEW i, m.cb = "init" => m.op = Expected(st, i)
  PROVE  Due(<<m>>, st, i)
<1>1. DOMAIN <<m>> = {1} /\ <<m>>[1] = m
  OBVIOUS
<1> QED BY <1>1 DEF Due

LEMMA DueNone ==
  ASSUME NEW s \in Seq(Command), Count(s, "init") = 0, NEW st, NEW i
  PROVE  Due(s, st, i)
BY CountPositive DEF Due

\* The initializer's step from s at channel i, which lies beyond i.
LEMMA StepOrder ==
  ASSUME NumChan \notin Configured, NEW s \in CtlState, NEW i \in 0..NumChan, AtStart(s, i)
  PROVE  LET r == initializer_step(s, i)
         IN  /\ Orderly(r)
             /\ Needed(r.st, r.idx) \subseteq Needed(s, i) \cup Settled(s, i)
<1> DEFINE r == initializer_step(s, i)
<1>1. CASE s = "OFF"
  <2>1. r = Does("INIT", 0, <<New("PING", "init")>>, FALSE)
    BY <1>1 DEF initializer_step
  <2>2. Due(<<New("PING", "init")>>, "INIT", 0)
    BY DueOne DEF New, Expected
  <2>3. Needed("INIT", 0) = {}
    BY DEF Needed
  <2> QED BY <2>1, <2>2, <2>3 DEF Does, Orderly, AtStart
<1>2. CASE s = "INIT"
  <2> DEFINE m == New("VERSION", "init")
             g == Append(Greeting, m)
  <2>1. r = Does("GET_VERSION", i, g, FALSE)
    BY <1>2 DEF initializer_step
  <2>2. Due(g, "GET_VERSION", i)
    <3>1. Greeting \in Seq(Command) /\ m.cb = "init" /\ m.op = "VERSION"
      BY GreetingWork DEF New
    <3>2. Due(Greeting, "GET_VERSION", i)
      BY <3>1, GreetingWork, DueNone
    <3>3. Expected("GET_VERSION", i) = "VERSION"
      BY DEF Expected
    <3> HIDE DEF m
    <3>4. \A k \in DOMAIN g : (k \in DOMAIN Greeting /\ g[k] = Greeting[k]) \/ g[k] = m
      BY <3>1
    <3> HIDE DEF g
    <3> QED BY <3>1, <3>2, <3>3, <3>4 DEF Due
  <2>3. Needed("GET_VERSION", i) = {} /\ i = 0
    BY <1>2 DEF Needed, AtStart
  <2> HIDE DEF g
  <2> QED BY <2>1, <2>2, <2>3 DEF Does, Orderly, AtStart
<1>3. CASE s \in {"GET_VERSION", "SET_CHANNELS"}
  <2> DEFINE left == {c \in Configured : c > i}
             c == CHOOSE c \in left : \A d \in left : c <= d
             bad == c \in BadChannel
             cmds == IF bad THEN <<>> ELSE <<New(ChanOp[c], "init")>>
  <2>1. r = IF left = {} THEN LoadCfg(<<>>, FALSE)
            ELSE IF c < NumChan THEN Does("SET_CHANNELS", c, cmds, bad)
            ELSE LoadCfg(cmds, bad)
    BY <1>3 DEF initializer_step, SetChannels
  <2>2. Configured \subseteq 1..NumChan /\ NumChan \in Nat
    BY ControlAssumption DEF Chan
  <2>3. \A g \in Good : g <= i => ChanOp[g] \in Needed(s, i) \cup Settled(s, i)
    <3>1. CASE s = "GET_VERSION"
      BY <1>3, <2>2, <3>1 DEF AtStart, Good
    <3>2. CASE s = "SET_CHANNELS"
      <4> SUFFICES ASSUME NEW g \in Good, g <= i
                   PROVE  ChanOp[g] \in Needed(s, i) \cup Settled(s, i)
        OBVIOUS
      <4>1. g < i \/ g = i
        BY <2>2 DEF Good
      <4>2. g < i => ChanOp[g] \in Needed(s, i)
        BY <3>2 DEF Needed
      <4>3. g = i => ChanOp[g] \in Settled(s, i)
        BY <3>2 DEF Settled
      <4> QED BY <4>1, <4>2, <4>3
    <3> QED BY <1>3, <3>1, <3>2
  <2>4. CASE left = {}
    <3>1. r = LoadCfg(<<>>, FALSE)
      BY <2>1, <2>4
    <3>2. CASE HasKcfg
      <4>1. r = Does("LOAD_CFG", 0, Append(<<>>, New("OPTS", "init")), FALSE)
        BY <3>1, <3>2 DEF LoadCfg
      <4>2. Append(<<>>, New("OPTS", "init")) = <<New("OPTS", "init")>>
        OBVIOUS
      <4>3. Due(<<New("OPTS", "init")>>, "LOAD_CFG", 0)
        BY DueOne DEF New, Expected
      <4>4. Orderly(r) /\ r.st = "LOAD_CFG" /\ r.idx = 0
        BY <4>1, <4>2, <4>3 DEF Does, Orderly, AtStart
      <4>5. Needed("LOAD_CFG", 0) \subseteq Needed(s, i) \cup Settled(s, i)
        <5>1. \A g \in Good : g <= i
          BY <2>2, <2>4 DEF Good
        <5>2. Needed("LOAD_CFG", 0) = {ChanOp[g] : g \in Good}
          BY DEF Needed
        <5> QED BY <2>3, <5>1, <5>2
      <4> QED BY <4>4, <4>5
    <3>3. CASE ~HasKcfg
      <4>1. r = Does("DISABLED", 0, <<>>, FALSE)
        BY <3>1, <3>3 DEF LoadCfg
      <4>2. Needed("DISABLED", 0) = {}
        BY DEF Needed
      <4> QED BY <4>1, <4>2, DueEmpty DEF Does, Orderly, AtStart
    <3> QED BY <3>2, <3>3
  <2>5. CASE left # {}
    <3>1. c \in Configured /\ c \in 1..NumChan /\ c > i /\ \A d \in Configured : d > i => c <= d
      BY <2>5, NextChannel
    <3> HIDE DEF left, c
    <3>2. c < NumChan
      BY <2>2, <3>1
    <3>3. r = Does("SET_CHANNELS", c, cmds, bad)
      BY <2>1, <2>5, <3>2
    <3>4. Due(cmds, "SET_CHANNELS", c)
      <4>1. Due(<<New(ChanOp[c], "init")>>, "SET_CHANNELS", c)
        BY DueOne DEF New, Expected
      <4> QED BY <4>1, DueEmpty
    <3> HIDE DEF cmds, bad
    <3>5. Orderly(r) /\ r.st = "SET_CHANNELS" /\ r.idx = c
      BY <3>3, <3>4 DEF Does, Orderly, AtStart
    <3>6. Needed("SET_CHANNELS", c) \subseteq Needed(s, i) \cup Settled(s, i)
      <4>1. \A g \in Good : g < c => g <= i
        BY <2>2, <3>1 DEF Good
      <4>2. Needed("SET_CHANNELS", c) = {ChanOp[g] : g \in {x \in Good : x < c}}
        BY DEF Needed
      <4> QED BY <2>3, <4>1, <4>2
    <3> QED BY <3>5, <3>6
  <2> QED BY <2>4, <2>5
<1>4. CASE s = "LOAD_CFG"
  <2>1. r = Does("ON_CONNECT", i, <<New("ON_CONNECT", "init")>>, FALSE)
    BY <1>4 DEF initializer_step
  <2>2. Due(<<New("ON_CONNECT", "init")>>, "ON_CONNECT", i)
    BY DueOne DEF New, Expected
  <2>3. Needed("ON_CONNECT", i) = {ChanOp[c] : c \in Good} \cup {"OPTS"}
    BY DEF Needed, Wanted, Good
  <2>4. Needed(s, i) = {ChanOp[c] : c \in Good} /\ Settled(s, i) = {"OPTS"} /\ i = 0
    BY <1>4 DEF Needed, Settled, AtStart
  <2> QED BY <2>1, <2>2, <2>3, <2>4 DEF Does, Orderly, AtStart
<1>5. CASE s = "ON_CONNECT"
  <2>1. r = Does("OK", i, <<>>, FALSE)
    BY <1>5 DEF initializer_step
  <2>2. Needed("OK", i) = Wanted /\ Needed(s, i) = Wanted /\ i = 0
    BY <1>5 DEF Needed, AtStart
  <2> QED BY <2>1, <2>2, DueEmpty DEF Does, Orderly, AtStart
<1>6. CASE s \notin {"OFF"} \cup Initializing
  <2>1. r = Does(s, i, <<>>, FALSE)
    BY <1>6 DEF initializer_step, Initializing
  <2> QED BY <2>1, DueEmpty DEF Does, Orderly
<1> QED BY <1>1, <1>2, <1>3, <1>4, <1>5, <1>6 DEF Initializing

\* The completion of a command of any callback.
LEMMA CompletionOrder ==
  ASSUME TypeOK, NumChan \notin Configured, AtStart(state, idx), NEW cb, NEW result
  PROVE  LET r == Completion(cb, result)
         IN  /\ Orderly(r)
             /\ cb # "init" => (r.st = state /\ r.idx = idx) \/ state \notin Initializing
             /\ Needed(r.st, r.idx) \subseteq Needed(state, idx) \cup
                  IF cb = "init" /\ (result = "OK" \/ (result = "ERROR" /\ state = "SET_CHANNELS"))
                  THEN Settled(state, idx) ELSE {}
<1> DEFINE r == Completion(cb, result)
           s == initializer_step(state, idx)
           o == Does("OFF", idx, <<>>, FALSE)
           moves == result = "OK" \/ (result = "ERROR" /\ state = "SET_CHANNELS")
<1>1. Orderly(s) /\ Needed(s.st, s.idx) \subseteq Needed(state, idx) \cup Settled(state, idx)
  BY StepOrder DEF TypeOK
<1>2. Orderly(o) /\ Needed(o.st, o.idx) = {}
  BY DueEmpty DEF Does, Orderly, AtStart, Needed
<1>3. Orderly(Nothing) /\ Nothing.st = state /\ Nothing.idx = idx
  BY DueEmpty DEF Nothing, Does, Orderly
<1>4. Settled("OFF", idx) = {}
  BY DEF Settled
<1> HIDE DEF s, o
<1>5. CASE cb = "init"
  <2>1. \/ r = Nothing
        \/ r = s /\ moves
        \/ r = o
    BY <1>5 DEF Completion, initializer_cb, s, o
  <2> HIDE DEF r
  <2>2. CASE r = Nothing
    BY <1>3, <1>5, <2>2 DEF r
  <2>3. CASE r = s /\ moves
    BY <1>1, <1>5, <2>3 DEF r
  <2>4. CASE r = o
    BY <1>2, <1>5, <2>4 DEF r
  <2> QED BY <2>1, <2>2, <2>3, <2>4
<1>6. CASE cb = "beat"
  <2>1. \/ r = Nothing
        \/ r = s /\ state = "OFF"
        \/ r = o /\ state = "OK"
    BY <1>6 DEF Completion, heartbeat_completed_cb, s, o
  <2> HIDE DEF r
  <2>2. CASE r = Nothing
    BY <1>3, <1>6, <2>2 DEF r
  <2>3. CASE r = s /\ state = "OFF"
    BY <1>1, <1>4, <1>6, <2>3 DEF r, Initializing
  <2>4. CASE r = o /\ state = "OK"
    BY <1>2, <1>6, <2>4 DEF r, Initializing
  <2> QED BY <2>1, <2>2, <2>3, <2>4
<1>7. CASE cb \notin {"init", "beat"}
  <2>1. r = Nothing
    BY <1>7 DEF Completion
  <2> HIDE DEF r
  <2> QED BY <1>3, <1>7, <2>1 DEF r
<1> QED BY <1>5, <1>6, <1>7

LEMMA AliveOrder ==
  ASSUME NumChan \notin Configured, NEW r \in Work, Orderly(r),
         r.st = "OFF" => r.cmds = <<>>
  PROVE  LET a == Alive(r)
         IN  /\ Orderly(a) /\ Needed(a.st, a.idx) \subseteq Needed(r.st, r.idx)
             /\ (a.st = r.st /\ a.idx = r.idx) \/ r.st = "OFF"
<1> DEFINE a == Alive(r)
           s == initializer_step("OFF", r.idx)
<1>1. CASE r.st # "OFF"
  BY <1>1 DEF Alive
<1>2. CASE r.st = "OFF"
  <2> DEFINE m == <<New("PING", "init")>>
  <2>1. s = Does("INIT", 0, m, FALSE)
    BY DEF initializer_step
  <2>2. Due(m, "INIT", 0)
    BY DueOne DEF New, Expected
  <2>3. m \in Seq(Command)
    BY NewCommand, Names DEF Op
  <2> HIDE DEF m
  <2>7. a = Does(s.st, s.idx, r.cmds \o s.cmds, FALSE)
    BY <1>2 DEF Alive
  <2>8. s.st = "INIT" /\ s.idx = 0 /\ s.cmds = m
    BY <2>1 DEF Does
  <2> HIDE DEF s
  <2>4. a = Does("INIT", 0, r.cmds \o m, FALSE)
    BY <2>7, <2>8
  <2>5. r.cmds \o m = m
    BY <1>2, <2>3, ConcatEmptySeq
  <2>6. Needed("INIT", 0) = {}
    BY DEF Needed
  <2> QED BY <1>2, <2>2, <2>4, <2>5, <2>6 DEF Does, Orderly, AtStart
<1> QED BY <1>1, <1>2

\* After every handler the initializer's command in the queue is the one expected.
LEMMA CompletesOrder ==
  ASSUME OnlineInv, NEW done, NEW r, NEW q, NEW d, NEW t,
         Completes(done, r, q, d, t), Orderly(r), q = queue \/ q = Tail(queue),
         done # "init" => (r.st = state /\ r.idx = idx) \/ state \notin Initializing
  PROVE  Due(queue', state', idx') /\ AtStart(state', idx') /\ state' = r.st /\ idx' = r.idx
<1>1. /\ TypeOK /\ toK \in Seq(Op) /\ queue \in Seq(Command) /\ SingleChain
      /\ Due(queue, state, idx)
  BY StateParts DEF OnlineInv
<1>2. /\ r \in Work /\ (r.st = "DISC" <=> state = "DISC") /\ (state = "DISC" => q = <<>>)
      /\ q \in Seq(Command) /\ Len(q) <= QMax + 1 /\ d \in [Deferrable -> Nat] /\ t \in BOOLEAN
      /\ Count(q, "init") + d["init"] = Pending("init") - IF "init" = done THEN 1 ELSE 0
      /\ Submit(r, q, d, t)
  BY Names DEF Completes
<1>3. /\ state' = r.st /\ idx' = r.idx
      /\ \A k \in DOMAIN queue' :
           \/ \E j \in DOMAIN q : queue'[k].op = q[j].op /\ queue'[k].cb = q[j].cb
           \/ \E j \in DOMAIN r.cmds : queue'[k].op = r.cmds[j].op /\ queue'[k].cb = r.cmds[j].cb
  BY <1>1, <1>2, SubmitEffect, SMTT(30)
<1>4. \A k \in DOMAIN q : \E j \in DOMAIN queue : q[k] = queue[j]
  <2>1. CASE q = queue
    BY <2>1
  <2>2. CASE q = Tail(queue) /\ queue # <<>>
    <3>1. \A k \in 1..Len(q) : k + 1 \in 1..Len(queue) /\ q[k] = queue[k + 1]
      BY <1>1, <2>2, HeadTailProperties
    <3>2. DOMAIN q = 1..Len(q) /\ DOMAIN queue = 1..Len(queue)
      BY <1>1, <1>2, LenProperties
    <3> QED BY <3>1, <3>2
  <2>3. CASE queue = <<>>
    BY <2>3
  <2> QED BY <2>1, <2>2, <2>3
<1>5. Due(q, r.st, r.idx)
  <2>1. CASE state = "DISC"
    BY <1>2, <2>1, DueEmpty
  <2>2. CASE state # "DISC" /\ (done = "init" \/ state \notin Initializing)
    <3>1. Pending("init") \in {0, 1} /\ (state \notin Initializing => Pending("init") = 0)
      BY <1>1, <2>2 DEF SingleChain
    <3>2. Count(q, "init") \in Nat /\ d["init"] \in Nat
      BY <1>2, Names, CountType
    <3>3. Count(q, "init") = 0
      BY <1>2, <2>2, <3>1, <3>2
    <3> QED BY <1>2, <3>3, DueNone
  <2>3. CASE r.st = state /\ r.idx = idx
    BY <1>1, <1>4, <2>3 DEF Due
  <2> QED BY <2>1, <2>2, <2>3
<1>6. Due(r.cmds, r.st, r.idx) /\ AtStart(r.st, r.idx)
  BY DEF Orderly
<1>7. Due(queue', r.st, r.idx)
  BY <1>3, <1>5, <1>6 DEF Due
<1> QED BY <1>3, <1>6, <1>7

\* Taking an answer leaves what follows it.
LEMMA HeardKeeps ==
  ASSUME OnlineInv, conn' = conn, loaded' = loaded,
         fromK' = fromK \/ (fromK # <<>> /\ fromK' = Tail(fromK))
  PROVE  /\ Heard'
         /\ fromK' = fromK => (RestartReported' <=> RestartReported)
         /\ fromK # <<>> /\ fromK' = Tail(fromK) /\ Head(fromK) # "RESTARTED" =>
              (RestartReported' <=> RestartReported)
<1> DEFINE M == Op \cup {"NOT_SUPPORTED", "RESTARTED"}
<1>1. fromK \in Seq(M) /\ Heard
  BY StateParts DEF OnlineInv
<1>2. CASE fromK' = fromK
  <2>1. fromK # <<>> => fromK # Tail(fromK)
    <3>1. fromK # <<>> => Len(Tail(fromK)) = Len(fromK) - 1 /\ Len(fromK) \in Nat
      BY <1>1, HeadTailProperties, LenProperties
    <3> QED BY <3>1
  <2> QED BY <1>1, <1>2, <2>1 DEF Heard, RestartReported
<1>3. CASE fromK # <<>> /\ fromK' = Tail(fromK)
  <2>1. /\ Len(fromK') = Len(fromK) - 1 /\ Len(fromK) \in Nat /\ Head(fromK) = fromK[1]
        /\ \A k \in 1..Len(fromK') : fromK'[k] = fromK[k + 1]
        /\ fromK' \in Seq(M)
    BY <1>1, <1>3, HeadTailProperties, LenProperties
  <2>2. Len(fromK) > 0
    BY <1>1, <1>3, EmptySeq
  <2>3. DOMAIN fromK = 1..Len(fromK) /\ DOMAIN fromK' = 1..Len(fromK')
    BY <1>1, <2>1, LenProperties
  <2>4. conn
    BY <1>1, <1>3 DEF Heard
  <2>5. ASSUME NEW k \in DOMAIN fromK', fromK'[k] \in ClientCmd, fromK'[k] \notin loaded
        PROVE  \E j \in DOMAIN fromK' : j > k /\ fromK'[j] = "RESTARTED"
    <3>1. k + 1 \in DOMAIN fromK /\ fromK[k + 1] = fromK'[k]
      BY <2>1, <2>2, <2>3
    <3>2. PICK j \in DOMAIN fromK : j > k + 1 /\ fromK[j] = "RESTARTED"
      BY <1>1, <2>5, <3>1 DEF Heard
    <3>3. j - 1 \in DOMAIN fromK' /\ j - 1 > k /\ (j - 1) + 1 = j
      BY <2>1, <2>3, <3>2
    <3>4. fromK'[j - 1] = fromK[j]
      BY <2>1, <2>3, <3>3
    <3> QED BY <3>2, <3>3, <3>4
  <2>6. Heard'
    BY <2>4, <2>5 DEF Heard
  <2>7. ASSUME Head(fromK) # "RESTARTED"
        PROVE  RestartReported' <=> RestartReported
    <3>1. ASSUME RestartReported' PROVE RestartReported
      <4>1. PICK k \in 1..Len(fromK') : fromK'[k] = "RESTARTED"
        BY <3>1 DEF RestartReported
      <4>2. k + 1 \in 1..Len(fromK) /\ fromK[k + 1] = "RESTARTED"
        BY <2>1, <4>1
      <4> QED BY <4>2 DEF RestartReported
    <3>2. ASSUME RestartReported PROVE RestartReported'
      <4>1. PICK k \in 1..Len(fromK) : fromK[k] = "RESTARTED"
        BY <3>2 DEF RestartReported
      <4>2. k # 1
        BY <2>1, <2>7, <4>1
      <4>3. k - 1 \in 1..Len(fromK') /\ (k - 1) + 1 = k
        BY <2>1, <4>1, <4>2
      <4>4. fromK'[k - 1] = "RESTARTED"
        BY <2>1, <4>1, <4>3
      <4> QED BY <4>3, <4>4 DEF RestartReported
    <3> QED BY <3>1, <3>2
  <2>8. fromK' # fromK
    BY <2>1
  <2> QED BY <1>3, <2>6, <2>7, <2>8
<1> QED BY <1>2, <1>3

\* What the keyer says is no command's name.
LEMMA OpNames == {"RESTARTED", "NOT_SUPPORTED"} \cap Op = {}
<1>1. \A c \in Chan : c \in {1, 2, 3}
  BY ControlAssumption DEF Chan
<1>2. \A c \in Chan : ChanOp[c] \in {"CH1", "CH2", "CH3"}
  BY <1>1 DEF ChanOp
<1>3. ClientCmd \subseteq {"EXTRA", "OPTS", "CH1", "CH2", "CH3"}
  BY <1>2 DEF ClientCmd
<1> QED BY <1>3 DEF Op

\* The handlers that complete a command, or none, one by one.
LEMMA OnlineHandlers ==
  ASSUME OneChain, OnlineInv,
         Heartbeat \/ (\E cb \in Deferrable : RunDeferred(cb)) \/ Timeout \/ Answer \/ Report
  PROVE  Heard' /\ Due(queue', state', idx') /\ AtStart(state', idx') /\ Progress'
<1>1. /\ ControlInv /\ TypeOK /\ NumChan \notin Configured /\ AtStart(state, idx)
      /\ fromK \in Seq(Op \cup {"NOT_SUPPORTED", "RESTARTED"}) /\ queue \in Seq(Command)
      /\ Heard /\ Due(queue, state, idx) /\ Progress
  BY StateParts DEF OnlineInv, OneChain
<1>2. CASE Heartbeat
  <2>1. PICK r : /\ Completes("none", r, queue, deferred, timer)
                 /\ r = [Nothing EXCEPT !.cmds = <<New("PING", "beat")>>]
    BY <1>1, <1>2, HeartbeatCompletes
  <2>2. r.st = state /\ r.idx = idx /\ r.cmds = <<New("PING", "beat")>>
    BY <2>1 DEF Nothing, Does
  <2>3. Orderly(r)
    <3>1. Due(<<New("PING", "beat")>>, state, idx)
      BY DueOne DEF New
    <3> QED BY <1>1, <2>2, <3>1 DEF Orderly
  <2>4. Due(queue', state', idx') /\ AtStart(state', idx') /\ state' = state /\ idx' = idx
    BY <2>1, <2>2, <2>3, CompletesOrder
  <2>5. conn' = conn /\ loaded' = loaded /\ fromK' = fromK /\ ignored' = ignored
    BY <1>2 DEF Heartbeat, keyerVars
  <2>6. Heard' /\ (RestartReported' <=> RestartReported)
    BY <2>5, HeardKeeps
  <2> QED BY <1>1, <2>4, <2>5, <2>6 DEF Progress
<1>3. ASSUME NEW cb \in Deferrable, RunDeferred(cb)
      PROVE  Heard' /\ Due(queue', state', idx') /\ AtStart(state', idx') /\ Progress'
  <2>1. PICK r, d : Completes(cb, r, queue, d, timer) /\ r = Completion(cb, "ERROR")
    BY <1>1, <1>3, DeferredCompletes
  <2>2. /\ Orderly(r)
        /\ cb # "init" => (r.st = state /\ r.idx = idx) \/ state \notin Initializing
        /\ Needed(r.st, r.idx) \subseteq Needed(state, idx) \cup
             IF cb = "init" /\ state = "SET_CHANNELS" THEN Settled(state, idx) ELSE {}
    BY <1>1, <2>1, CompletionOrder
  <2>3. /\ Due(queue', state', idx') /\ AtStart(state', idx')
        /\ state' = r.st /\ idx' = r.idx
    BY <2>1, <2>2, CompletesOrder
  <2>4. conn' = conn /\ loaded' = loaded /\ fromK' = fromK
    BY <1>3 DEF RunDeferred, keyerVars
  <2>5. Heard' /\ (RestartReported' <=> RestartReported)
    BY <2>4, HeardKeeps
  <2>6. ASSUME ~ignored'
        PROVE  ~ignored /\ (cb = "init" /\ state = "SET_CHANNELS" => Settled(state, idx) = {})
    <3>1. ~ignored /\ ~(cb = "init" /\ state = "SET_CHANNELS" /\ idx \notin BadChannel)
      BY <1>3, <2>6 DEF RunDeferred
    <3>2. idx \in BadChannel => Good \cap {idx} = {}
      BY DEF Good
    <3> QED BY <3>1, <3>2 DEF Settled
  <2> QED BY <1>1, <2>2, <2>3, <2>4, <2>5, <2>6 DEF Progress
<1>4. CASE Timeout
  <2>1. PICK done, r : /\ Completes(done, r, Tail(queue), deferred, FALSE)
                       /\ r = Completion(done, "TIMEOUT")
    BY <1>1, <1>4, TimeoutCompletes
  <2>2. /\ Orderly(r)
        /\ done # "init" => (r.st = state /\ r.idx = idx) \/ state \notin Initializing
        /\ Needed(r.st, r.idx) \subseteq Needed(state, idx)
    BY <1>1, <2>1, CompletionOrder
  <2>3. /\ Due(queue', state', idx') /\ AtStart(state', idx')
        /\ state' = r.st /\ idx' = r.idx
    BY <2>1, <2>2, CompletesOrder
  <2>4. conn' = conn /\ loaded' = loaded /\ fromK' = fromK /\ ignored' = ignored
    BY <1>4 DEF Timeout, keyerVars
  <2>5. Heard' /\ (RestartReported' <=> RestartReported)
    BY <2>4, HeardKeeps
  <2> QED BY <1>1, <2>2, <2>3, <2>4, <2>5 DEF Progress
<1>5. CASE Answer
  <2> DEFINE result == IF Head(fromK) = queue[1].op THEN "OK" ELSE "NOT_SUPPORTED"
  <2>1. PICK done, a : /\ Completes(done, a, Tail(queue), deferred, FALSE)
                       /\ done = queue[1].cb /\ a = Alive(Completion(done, result))
    BY <1>1, <1>5, AnswerCompletes
  <2>2. /\ fromK # <<>> /\ queue # <<>> /\ Head(fromK) \in {queue[1].op, "NOT_SUPPORTED"}
        /\ fromK' = Tail(fromK) /\ conn' = conn /\ loaded' = loaded
        /\ ignored' = (ignored /\ state # "OFF")
    BY <1>5 DEF Answer, Answers, keyerVars
  <2>3. /\ queue[1] \in Command /\ queue[1].op \in Op /\ queue[1].cb \in Callback
        /\ 1 \in DOMAIN queue
    <3>1. queue[1] \in Command
      BY <1>1, <2>2, CountHead
    <3>2. Len(queue) \in Nat /\ Len(queue) # 0 /\ DOMAIN queue = 1..Len(queue)
      BY <1>1, <2>2, EmptySeq, LenProperties
    <3> QED BY <3>1, <3>2 DEF Command
  <2>4. Head(fromK) # "RESTARTED"
    BY <2>2, <2>3, OpNames
  <2> DEFINE r == Completion(done, result)
  <2> HIDE DEF result
  <2>5. /\ Orderly(r)
        /\ done # "init" => (r.st = state /\ r.idx = idx) \/ state \notin Initializing
        /\ Needed(r.st, r.idx) \subseteq Needed(state, idx) \cup
             IF done = "init" /\ (result = "OK" \/ (result = "ERROR" /\ state = "SET_CHANNELS"))
             THEN Settled(state, idx) ELSE {}
    BY <1>1, CompletionOrder
  <2>6. r \in Work /\ (r.st = "OFF" => r.cmds = <<>>)
    BY <1>1, <2>1, <2>3, CompletionWork
  <2>7. a = Alive(r)
    BY <2>1
  <2> HIDE DEF r
  <2>8. /\ Orderly(a) /\ Needed(a.st, a.idx) \subseteq Needed(r.st, r.idx)
        /\ (a.st = r.st /\ a.idx = r.idx) \/ r.st = "OFF"
    BY <1>1, <2>5, <2>6, <2>7, AliveOrder
  <2>9. done # "init" => (a.st = state /\ a.idx = idx) \/ state \notin Initializing
    BY <2>5, <2>8 DEF Initializing
  <2>10. /\ Due(queue', state', idx') /\ AtStart(state', idx')
         /\ state' = a.st /\ idx' = a.idx
    BY <2>1, <2>8, <2>9, CompletesOrder
  <2>11. Heard' /\ (RestartReported' <=> RestartReported)
    BY <2>2, <2>4, HeardKeeps
  <2>12. ASSUME ~RestartReported, done = "init", result = "OK"
         PROVE  Settled(state, idx) \subseteq loaded
    <3>1. queue[1].op = Expected(state, idx) /\ fromK[1] = queue[1].op
      <4>1. Head(fromK) = queue[1].op
        BY <2>12 DEF result
      <4>2. Head(fromK) = fromK[1]
        BY <1>1, <2>2, HeadTailProperties
      <4> QED BY <1>1, <2>1, <2>3, <2>12, <4>1, <4>2 DEF Due
    <3>2. 1 \in DOMAIN fromK /\ DOMAIN fromK = 1..Len(fromK)
      <4>1. Len(fromK) \in Nat /\ Len(fromK) # 0 /\ DOMAIN fromK = 1..Len(fromK)
        BY <1>1, <2>2, EmptySeq, LenProperties
      <4> QED BY <4>1
    <3>3. fromK[1] \in ClientCmd => fromK[1] \in loaded
      BY <1>1, <2>12, <3>2 DEF Heard, RestartReported
    <3>4. Settled(state, idx) \subseteq {Expected(state, idx)} \cap ClientCmd
      <4>1. \A c \in Good : ChanOp[c] \in ClientCmd
        BY ChannelOp, ControlAssumption DEF Good
      <4>2. "OPTS" \in ClientCmd
        BY DEF ClientCmd
      <4> QED BY <4>1, <4>2 DEF Settled, Expected
    <3> QED BY <3>1, <3>3, <3>4
  <2>13. result \in {"OK", "NOT_SUPPORTED"}
    BY DEF result
  <2>14. state = "OFF" => Needed(state, idx) = {} /\ Settled(state, idx) = {}
    BY DEF Needed, Settled
  <2>15. ASSUME ~RestartReported', ~ignored' PROVE Needed(a.st, a.idx) \subseteq loaded
    <3>1. ~RestartReported
      BY <2>11, <2>15
    <3>2. CASE state = "OFF"
      BY <2>5, <2>8, <2>14, <3>2
    <3>3. CASE ~ignored
      BY <1>1, <2>5, <2>8, <2>12, <2>13, <3>1, <3>3 DEF Progress
    <3> QED BY <2>2, <2>15, <3>2, <3>3
  <2> QED BY <2>2, <2>10, <2>11, <2>15 DEF Progress
<1>6. CASE Report
  <2> DEFINE r == IF Head(fromK) = "RESTARTED" THEN Restarted ELSE Nothing
             s == initializer_step("SET_CHANNELS", idx)
  <2>1. PICK a : Completes("none", a, queue, deferred, timer) /\ a = Alive(r)
    BY <1>1, <1>6, ReportCompletes
  <2>2. /\ fromK # <<>> /\ fromK' = Tail(fromK) /\ conn' = conn /\ loaded' = loaded
        /\ ignored' = CASE state = "OFF" -> FALSE
                        [] Head(fromK) = "RESTARTED" -> state # "OK"
                        [] OTHER -> ignored
    BY <1>6 DEF Report, keyerVars
  <2>3. /\ Nothing \in Work /\ Nothing.st = state /\ Nothing.idx = idx /\ Nothing.cmds = <<>>
        /\ Orderly(Nothing)
    BY <1>1, NothingWork, DueEmpty DEF Orderly
  <2>4. /\ s \in Work /\ s.st # "OFF"
        /\ state = "OK" => Orderly(s) /\ Needed(s.st, s.idx) = {}
    <3>1. "SET_CHANNELS" \in CtlState /\ AtStart("SET_CHANNELS", idx) /\ idx \in 0..NumChan
      BY <1>1 DEF CtlState, Initializing, AtStart, TypeOK
    <3>2. s \in Work /\ s.st # "OFF"
      BY <3>1, StepWork
    <3>3. /\ Orderly(s)
          /\ Needed(s.st, s.idx) \subseteq Needed("SET_CHANNELS", idx) \cup Settled("SET_CHANNELS", idx)
      BY <1>1, <3>1, StepOrder
    <3>4. ASSUME state = "OK"
          PROVE  Needed("SET_CHANNELS", idx) = {} /\ Settled("SET_CHANNELS", idx) = {}
      <4>1. idx = 0
        BY <1>1, <3>4 DEF AtStart
      <4>2. \A g \in Good : g \in 1..NumChan
        BY ControlAssumption DEF Good, Chan
      <4>3. {g \in Good : g < 0} = {} /\ Good \cap {0} = {}
        BY <4>2, ControlAssumption
      <4> QED BY <4>1, <4>3 DEF Needed, Settled
    <3> QED BY <3>2, <3>3, <3>4
  <2>5. \/ r = Nothing
        \/ r = s /\ state = "OK" /\ Head(fromK) = "RESTARTED"
    BY DEF Restarted
  <2>6. Head(fromK) # "RESTARTED" => r = Nothing
    OBVIOUS
  <2> HIDE DEF r, s
  <2>7. /\ r \in Work /\ Orderly(r) /\ (r.st = "OFF" => r.cmds = <<>> /\ state = "OFF")
        /\ (r.st = state /\ r.idx = idx) \/ state \notin Initializing
    BY <2>3, <2>4, <2>5 DEF Initializing
  <2>8. /\ Orderly(a) /\ Needed(a.st, a.idx) \subseteq Needed(r.st, r.idx)
        /\ (a.st = r.st /\ a.idx = r.idx) \/ r.st = "OFF"
    BY <1>1, <2>1, <2>7, AliveOrder
  <2>9. (a.st = state /\ a.idx = idx) \/ state \notin Initializing
    BY <2>7, <2>8 DEF Initializing
  <2>10. /\ Due(queue', state', idx') /\ AtStart(state', idx')
         /\ state' = a.st /\ idx' = a.idx
    BY <2>1, <2>8, <2>9, CompletesOrder
  <2>11. /\ Heard'
         /\ Head(fromK) # "RESTARTED" => (RestartReported' <=> RestartReported)
    BY <2>2, HeardKeeps
  <2>12. state = "OFF" => Needed(state, idx) = {}
    BY DEF Needed
  <2>13. ASSUME ~RestartReported', ~ignored' PROVE Needed(a.st, a.idx) \subseteq loaded
    <3>1. CASE state = "OFF"
      BY <2>3, <2>5, <2>8, <2>12, <3>1
    <3>2. CASE state # "OFF" /\ Head(fromK) = "RESTARTED"
      <4>1. state = "OK"
        BY <2>2, <2>13, <3>2
      <4>2. r = s
        BY <3>2, <4>1 DEF r, Restarted, s
      <4> QED BY <2>4, <2>8, <4>1, <4>2
    <3>3. CASE state # "OFF" /\ Head(fromK) # "RESTARTED"
      <4>1. ~ignored /\ ~RestartReported /\ r = Nothing
        BY <2>2, <2>6, <2>11, <2>13, <3>3
      <4> QED BY <1>1, <2>3, <2>8, <4>1 DEF Progress
    <3> QED BY <3>1, <3>2, <3>3
  <2> QED BY <2>2, <2>10, <2>11, <2>13 DEF Progress
<1> QED BY <1>2, <1>3, <1>4, <1>5, <1>6

\* Clients, connection and the keyer's own steps.
LEMMA OnlineOthers ==
  ASSUME OneChain, OnlineInv,
         \/ \E c \in Client : ClientSubmit(c) \/ ClientSetSpeed(c)
         \/ Connect \/ Disconnect \/ KeyerNext
  PROVE  Heard' /\ Due(queue', state', idx') /\ AtStart(state', idx') /\ Progress'
<1>1. /\ ControlInv /\ TypeOK /\ Unplugged /\ NumChan \notin Configured /\ AtStart(state, idx)
      /\ fromK \in Seq(Op \cup {"NOT_SUPPORTED", "RESTARTED"}) /\ queue \in Seq(Command)
      /\ toK \in Seq(Op) /\ Heard /\ Due(queue, state, idx) /\ Progress
  BY StateParts DEF OnlineInv, OneChain
<1>2. ASSUME NEW c \in Client, ClientSubmit(c) \/ ClientSetSpeed(c)
      PROVE  Heard' /\ Due(queue', state', idx') /\ AtStart(state', idx') /\ Progress'
  <2> DEFINE m == <<New(ClientOp[c], c)>>
             r == [Nothing EXCEPT !.cmds = m]
  <2>1. state' = state /\ idx' = idx
    BY <1>1, <1>2, ClientKeeps
  <2>2. conn' = conn /\ loaded' = loaded /\ fromK' = fromK /\ ignored' = ignored
    BY <1>2 DEF ClientSubmit, ClientSetSpeed, keyerVars
  <2>3. Heard' /\ (RestartReported' <=> RestartReported)
    BY <2>2, HeardKeeps
  <2>4. queue' = queue \/ Submit(r, queue, deferred, timer)
    BY <1>2 DEF ClientSubmit, ClientSetSpeed
  <2>5. Due(m, state, idx)
    BY DueOne, Names DEF New
  <2>6. m \in Seq(Command)
    <3>1. ClientOp[c] \in Op /\ c \in Callback
      BY ControlAssumption, Names DEF Op
    <3> QED BY <3>1, NewCommand
  <2> HIDE DEF m
  <2>7. r \in Work /\ r.cmds = m
    <3>1. Nothing \in Work
      BY <1>1, NothingWork
    <3> QED BY <2>6, <3>1 DEF Work
  <2> HIDE DEF r
  <2>8. CASE Submit(r, queue, deferred, timer)
    <3>1. \A k \in DOMAIN queue' :
            \/ \E j \in DOMAIN queue : queue'[k].op = queue[j].op /\ queue'[k].cb = queue[j].cb
            \/ \E j \in DOMAIN r.cmds : queue'[k].op = r.cmds[j].op /\ queue'[k].cb = r.cmds[j].cb
      BY <1>1, <2>7, <2>8, SubmitEffect, StateParts
    <3>2. Due(queue', state, idx)
      BY <1>1, <2>5, <2>7, <3>1 DEF Due
    <3> QED BY <1>1, <2>1, <2>2, <2>3, <3>2 DEF Progress
  <2>9. CASE queue' = queue
    BY <1>1, <2>1, <2>2, <2>3, <2>9 DEF Progress
  <2> QED BY <2>4, <2>8, <2>9
<1>3. CASE Connect
  <2> DEFINE r == initializer_step("OFF", idx)
  <2>1. /\ ~conn /\ conn' = TRUE /\ Submit(r, queue, deferred, timer)
        /\ fromK' = fromK /\ loaded' = loaded
    BY <1>3 DEF Connect, keyerVars
  <2>2. r = Does("INIT", 0, <<New("PING", "init")>>, FALSE)
    BY DEF initializer_step
  <2>3. r \in Work
    <3>1. "OFF" \in CtlState /\ idx \in 0..NumChan
      BY <1>1 DEF CtlState, TypeOK
    <3> QED BY <3>1, StepWork
  <2>4. r.st = "INIT" /\ r.idx = 0 /\ r.cmds = <<New("PING", "init")>>
    BY <2>2 DEF Does
  <2> HIDE DEF r
  <2>5. /\ state' = "INIT" /\ idx' = 0
        /\ \A k \in DOMAIN queue' :
            \/ \E j \in DOMAIN queue : queue'[k].op = queue[j].op /\ queue'[k].cb = queue[j].cb
            \/ \E j \in DOMAIN r.cmds : queue'[k].op = r.cmds[j].op /\ queue'[k].cb = r.cmds[j].cb
    BY <1>1, <2>1, <2>3, <2>4, SubmitEffect, StateParts
  <2>6. Due(<<New("PING", "init")>>, "INIT", 0)
    BY DueOne DEF New, Expected
  <2>7. Due(queue, "INIT", 0)
    BY <1>1, <2>1, DueEmpty DEF Unplugged
  <2>8. Due(queue', "INIT", 0)
    BY <2>4, <2>5, <2>6, <2>7 DEF Due
  <2>9. Needed("INIT", 0) = {}
    BY DEF Needed
  <2>10. Heard'
    BY <1>1, <2>1 DEF Heard
  <2> QED BY <2>5, <2>8, <2>9, <2>10 DEF Progress, AtStart
<1>4. CASE Disconnect
  <2>1. conn' = FALSE /\ state' = "DISC" /\ queue' = <<>> /\ fromK' = <<>>
    BY <1>4 DEF Disconnect
  <2>2. Needed("DISC", idx') = {}
    BY DEF Needed
  <2> QED BY <2>1, <2>2, DueEmpty DEF Heard, AtStart, Progress
<1>5. CASE KeyerNext
  <2>1. queue' = queue /\ state' = state /\ idx' = idx /\ conn' = conn /\ ignored' = ignored
    BY <1>5 DEF KeyerNext, KeyerAnswer, KeyerLose, KeyerOff, KeyerOn, ctlVars
  <2>2. CASE KeyerLose \/ KeyerOff
    <3>1. loaded' = loaded /\ fromK' = fromK
      BY <2>2 DEF KeyerLose, KeyerOff, keyerVars
    <3>2. Heard' /\ (RestartReported' <=> RestartReported)
      BY <2>1, <3>1, HeardKeeps
    <3> QED BY <1>1, <2>1, <3>1, <3>2 DEF Progress
  <2>3. CASE KeyerAnswer
    <3>1. PICK x : /\ x \in Op \cup {"NOT_SUPPORTED"} /\ fromK' = Append(fromK, x) /\ conn
                   /\ loaded \subseteq loaded' /\ (x \in ClientCmd => x \in loaded')
      <4>1. conn /\ toK # <<>> /\ Head(toK) \in Op
        BY <1>1, <2>3, HeadTailProperties DEF KeyerAnswer
      <4>2. CASE Head(toK) \in Unsupported
        <5>1. fromK' = Append(fromK, "NOT_SUPPORTED") /\ loaded' = loaded
          BY <2>3, <4>2 DEF KeyerAnswer
        <5>2. "NOT_SUPPORTED" \notin ClientCmd
          BY OpNames DEF Op
        <5> QED BY <4>1, <5>1, <5>2
      <4>3. CASE Head(toK) \notin Unsupported
        <5>1. fromK' = Append(fromK, Head(toK)) /\ loaded' = loaded \cup ({Head(toK)} \cap ClientCmd)
          BY <2>3, <4>3 DEF KeyerAnswer
        <5> QED BY <4>1, <5>1
      <4> QED BY <4>2, <4>3
    <3>2. /\ Len(fromK') = Len(fromK) + 1 /\ Len(fromK) \in Nat
          /\ \A k \in 1..Len(fromK) : fromK'[k] = fromK[k]
          /\ fromK'[Len(fromK) + 1] = x
          /\ DOMAIN fromK = 1..Len(fromK) /\ DOMAIN fromK' = 1..(Len(fromK) + 1)
      BY <1>1, <3>1, AppendProperties, LenProperties
    <3>3. ASSUME NEW k \in DOMAIN fromK', fromK'[k] \in ClientCmd, fromK'[k] \notin loaded'
          PROVE  \E j \in DOMAIN fromK' : j > k /\ fromK'[j] = "RESTARTED"
      <4>1. k \in DOMAIN fromK /\ fromK[k] = fromK'[k]
        BY <3>1, <3>2, <3>3
      <4>2. PICK j \in DOMAIN fromK : j > k /\ fromK[j] = "RESTARTED"
        BY <1>1, <3>1, <3>3, <4>1 DEF Heard
      <4> QED BY <3>2, <4>2
    <3>4. Heard'
      BY <2>1, <3>1, <3>3 DEF Heard
    <3>5. RestartReported => RestartReported'
      BY <3>2 DEF RestartReported
    <3> QED BY <1>1, <2>1, <3>1, <3>4, <3>5 DEF Progress
  <2>4. CASE KeyerOn /\ conn
    <3>1. fromK' = Append(fromK, "RESTARTED")
      BY <2>4 DEF KeyerOn
    <3> DEFINE n == Len(fromK) + 1
    <3>2. /\ Len(fromK) \in Nat /\ Len(fromK') = n /\ fromK'[n] = "RESTARTED" /\ n \in 1..n
          /\ DOMAIN fromK' = 1..n
      BY <1>1, <3>1, AppendProperties, LenProperties
    <3>3. RestartReported'
      BY <3>2 DEF RestartReported
    <3>4. ASSUME NEW k \in DOMAIN fromK', fromK'[k] \in ClientCmd
          PROVE  \E j \in DOMAIN fromK' : j > k /\ fromK'[j] = "RESTARTED"
      <4>1. k # n
        BY <3>2, <3>4, OpNames DEF Op
      <4> QED BY <3>2, <4>1
    <3>5. Heard'
      BY <2>1, <2>4, <3>4 DEF Heard
    <3> QED BY <1>1, <2>1, <3>3, <3>5 DEF Progress
  <2>5. CASE KeyerOn /\ ~conn
    <3>1. fromK' = fromK /\ fromK = <<>> /\ state = "DISC"
      BY <1>1, <2>5 DEF KeyerOn, Heard, Unplugged
    <3>2. Heard'
      BY <3>1 DEF Heard
    <3>3. Needed("DISC", idx) = {}
      BY DEF Needed
    <3> QED BY <1>1, <2>1, <3>1, <3>2, <3>3 DEF Progress
  <2> QED BY <1>5, <2>2, <2>3, <2>4, <2>5 DEF KeyerNext
<1> QED BY <1>2, <1>3, <1>4, <1>5

LEMMA OnlineStarts == Init => OnlineInv
<1> SUFFICES ASSUME Init PROVE OnlineInv
  OBVIOUS
<1>1. conn = FALSE /\ state = "DISC" /\ queue = <<>> /\ fromK = <<>>
  BY DEF Init
<1>2. Needed("DISC", idx) = {}
  BY DEF Needed
<1>3. Heard /\ Due(queue, state, idx) /\ AtStart(state, idx) /\ Progress
  BY <1>1, <1>2, DueEmpty DEF Heard, AtStart, Progress
<1> QED BY <1>3, ControlStarts DEF OnlineInv

LEMMA OnlineStep ==
  ASSUME OneChain, OnlineInv, [Next]_vars
  PROVE  OnlineInv'
<1>1. ControlInv /\ SingleChain
  BY DEF OnlineInv
<1>2. CASE Next
  <2>1. Heard' /\ Due(queue', state', idx') /\ AtStart(state', idx') /\ Progress'
    BY <1>2, OnlineHandlers, OnlineOthers DEF Next, ControlNext
  <2>2. ControlInv' /\ SingleChain'
    BY <1>1, <1>2, ControlStep
  <2> QED BY <2>1, <2>2 DEF OnlineInv
<1>3. CASE UNCHANGED vars
  <2>1. ControlInv' /\ SingleChain'
    BY <1>1, <1>3, ControlStutters
  <2>2. /\ conn' = conn /\ loaded' = loaded /\ fromK' = fromK /\ ignored' = ignored
        /\ queue' = queue /\ state' = state /\ idx' = idx
    BY <1>3 DEF vars, ctlVars, lineVars, keyerVars
  <2>3. Heard' /\ (RestartReported' <=> RestartReported)
    BY <2>2, HeardKeeps
  <2> QED BY <2>1, <2>2, <2>3 DEF OnlineInv, Progress
<1> QED BY <1>2, <1>3

\* The initializer's command under way is the one its state stands for, and the keyer
\* has taken every setting that has been confirmed since it started.
THEOREM OnlineInductive ==
  ASSUME OneChain
  PROVE  Spec => []OnlineInv
<1>1. OnlineInv /\ [Next]_vars => OnlineInv'
  BY OneChain, OnlineStep
<1> QED BY <1>1, OnlineStarts, PTL DEF Spec

\* A keyer that is online has the settings of all channels and its options
\* (initializer_step), however late answers, restarts and reconnects interleave.
THEOREM OnlineIsHeard ==
  ASSUME OneChain
  PROVE  Spec => []OnlineHeard
<1>1. OnlineInv => OnlineHeard
  <2>1. Needed("OK", idx) = Wanted
    BY DEF Needed
  <2> QED BY <2>1 DEF OnlineInv, Progress, OnlineHeard
<1> QED BY <1>1, OnlineInductive, OneChain, PTL
=============================================================================
