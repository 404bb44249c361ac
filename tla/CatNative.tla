----------------------------- MODULE CatNative -----------------------------
(***************************************************************************)
(* Native CAT on one radio channel (src/src/cat_native.c) with the command *)
(* tracking of its CI-V decoder (src/src/cat_civ.c): several applications, *)
(* each on a connector of its own, take turns on the CAT line; mhuxd asks  *)
(* queries of its own in between, holding the applications' data; what the *)
(* radio sends is routed to the application it answers.                    *)
(*                                                                         *)
(* A command is one frame and is read at once.  A frame of the radio comes *)
(* in two parts, of which only the second completes it, and any callback   *)
(* may run in between.  Collision resend is switched off, and radios do    *)
(* not reject commands.                                                    *)
(***************************************************************************)
EXTENDS Integers, Sequences, FiniteSets

CONSTANTS
  App,         \* applications, each connects at most once
  Fd,          \* file descriptors of their connectors
  JoinBusy,    \* applications also connect while a command is unanswered that was sent
               \* by one that had the line for itself, or on the descriptor they get
  Kind,        \* commands an application may send
  Set,         \* those of them the radio acknowledges instead of answering
  OwnKind,     \* what mhuxd asks
  OwnQueries,  \* own_queries
  NoUnsol,     \* applications with forward_unsolicited false
  Echo,        \* the bus echoes commands
  MaxClients,  \* CAT_MAX_CLIENTS
  PendMax,     \* PEND_MAX
  RouteMax,    \* CATN_ROUTE_MAX
  MaxPipe,     \* bound on the commands an application sends before it has an answer
  LineCap,     \* commands the router's channel buffer takes
  MaxLost,     \* bound on commands the radio does not answer
  MaxLate,     \* bound on answers after their timeout
  MaxTrx,      \* bound on transceive frames and noise
  MaxOff       \* bound on changes of the keyer's state

None == 0
Own == "own"
Radio == "radio"

\* Destinations of radio data besides the descriptor of a connector.
All == -1
Unsolicited == -2
Drop == -3
NoDest == -4

\* The descriptor of a connector that has been removed.
Gone == -5

ASSUME CatAssumption ==
  /\ IsFiniteSet(App) /\ App \cap {Own, Radio} = {}
  /\ Fd \subseteq Nat \ {0} /\ IsFiniteSet(Fd) /\ Cardinality(Fd) >= Cardinality(App)
  /\ {JoinBusy, OwnQueries, Echo} \subseteq BOOLEAN
  /\ Set \subseteq Kind /\ OwnKind \notin Set
  /\ NoUnsol \subseteq App
  /\ {MaxClients, PendMax, RouteMax, MaxPipe, LineCap} \subseteq Nat \ {0}
  /\ {MaxLost, MaxLate, MaxTrx, MaxOff} \subseteq Nat

Client == 1..MaxClients
Source == App \cup {Own}

\* A command on the line; turn: its sender had the line when it was read (ghost).
Command == [src : Source, kind : Kind \cup {OwnKind}, turn : BOOLEAN]
\* A frame of the radio, with the sender of the command it belongs to.
Frame == [what : {"echo", "answer", "trx", "noise"},
          src : Source \cup {Radio}, kind : Kind \cup {OwnKind}, turn : BOOLEAN]

\* struct civ_pending: client is 0 for own queries and for commands only seen on
\* the bus.
Pending == [own : BOOLEAN, kind : Kind \cup {OwnKind}, client : Client \cup {0},
            host : BOOLEAN, echoed : BOOLEAN, src : Source]

VARIABLES
  prods,   \* producer_list and consumer_list of the channel
  fdOf,    \* descriptor of each application's connector, None before it connects, Gone after
  sock,    \* commands waiting in the connector's socket
  line,    \* commands on their way to the radio
  fromR,   \* frames on their way back
  begun,   \* the first part of the next of them has been read
  cn,      \* struct cat_native and its decoder
  online,  \* the keyer is ONLINE
  count,   \* lost and late answers, transceive frames, keyer state changes
  stray,   \* ghost: applications that got part of an answer to somebody else
  leaked,  \* ghost: an application got part of an answer to an own query
  missed   \* ghost: an application did not get an answer the radio sent it

vars == <<prods, fdOf, sock, line, fromR, begun, cn, online, count, stray, leaked, missed>>

Connected == {prods[k] : k \in 1..Len(prods)}

\* cn.half: the radio's framer is inside a frame.
CatnType ==
  [decoder : BOOLEAN, multi : BOOLEAN, filter : BOOLEAN, routing : BOOLEAN,
   turn : Fd \cup {None}, client : Client \cup {0}, fresh : BOOLEAN,
   own : BOOLEAN, hold : BOOLEAN, slots : [Client -> Fd \cup {None}],
   pend : Seq(Pending), half : BOOLEAN, buf : Seq(Source \cup {Radio}),
   flush : BOOLEAN]

TypeOK ==
  /\ prods \in Seq(App)
  /\ fdOf \in [App -> Fd \cup {None, Gone}]
  /\ sock \in [App -> Seq(Kind)]
  /\ line \in Seq(Command) /\ Len(line) <= LineCap
  /\ fromR \in Seq(Frame)
  /\ begun \in BOOLEAN
  /\ cn \in CatnType /\ Len(cn.pend) <= PendMax /\ Len(cn.buf) <= RouteMax
  /\ online \in BOOLEAN
  /\ count \in [{"lost", "late", "trx", "off"} -> Nat]
  /\ stray \subseteq App
  /\ {leaked, missed} \subseteq BOOLEAN

\* cat_native_create for a keyer that is online.
Init ==
  /\ prods = <<>>
  /\ fdOf = [a \in App |-> None]
  /\ sock = [a \in App |-> <<>>]
  /\ line = <<>>
  /\ fromR = <<>>
  /\ begun = FALSE
  /\ cn = [decoder |-> TRUE, multi |-> FALSE, filter |-> FALSE, routing |-> FALSE,
           turn |-> None, client |-> 0, fresh |-> FALSE, own |-> FALSE,
           hold |-> FALSE, slots |-> [i \in Client |-> None], pend |-> <<>>,
           half |-> FALSE, buf |-> <<>>, flush |-> FALSE]
  /\ online = TRUE
  /\ count = [x \in {"lost", "late", "trx", "off"} |-> 0]
  /\ stray = {}
  /\ leaked = FALSE
  /\ missed = FALSE

-----------------------------------------------------------------------------
Least(S) == CHOOSE i \in S : \A j \in S : i <= j

\* The entries K of the array p move up to its start.
Keep(p, K) ==
  [n \in 1..Cardinality(K) |->
     p[CHOOSE k \in K : Cardinality({j \in K : j <= k}) = n]]

-----------------------------------------------------------------------------
(* A handler works on s: cn with, added, the commands tx it hands to the     *)
(* router, the parts out it passes to applications, the destination dest of  *)
(* the frames completed by the current byte and answered.  The steps of a    *)
(* handler are bound one after the other by \E x \in {...}.                   *)

Begin(c) ==
  [decoder |-> c.decoder, multi |-> c.multi, filter |-> c.filter, routing |-> c.routing,
   turn |-> c.turn, client |-> c.client, fresh |-> c.fresh, own |-> c.own,
   hold |-> c.hold, slots |-> c.slots, pend |-> c.pend, half |-> c.half,
   buf |-> c.buf, flush |-> c.flush,
   tx |-> <<>>, out |-> <<>>, dest |-> NoDest, answered |-> FALSE]

\* mhr_get_producer_tag
Registered(fd) == \E a \in Connected : fdOf[a] = fd

\* mhr_pass_out: the connectors dest stands for.
Receivers(dest) ==
  CASE dest = All -> Connected
    [] dest = Unsolicited -> Connected \ NoUnsol
    [] OTHER -> {a \in Connected : fdOf[a] = dest}
pass_out(s, parts, dest) ==
  [s EXCEPT !.out = @ \o [k \in 1..Len(parts) |-> [src |-> parts[k], to |-> Receivers(dest)]]]

\* catn_route_default
route_default(s) == IF s.turn # None THEN s.turn ELSE All

route_flush(s, dest) ==
  LET t == IF s.buf # <<>> /\ dest # Drop THEN pass_out(s, s.buf, dest) ELSE s
  IN  [t EXCEPT !.buf = <<>>, !.flush = FALSE]

route_start(s) == IF s.routing THEN s ELSE [s EXCEPT !.routing = TRUE, !.buf = <<>>]

route_stop(s) == IF s.routing THEN [route_flush(s, All) EXCEPT !.routing = FALSE] ELSE s

\* cat_civ_client_busy and cat_civ_pending
client_busy(s, c) == c # 0 /\ \E k \in 1..Len(s.pend) : s.pend[k].client = c
PendingOwn(s) == \E k \in 1..Len(s.pend) : s.pend[k].own

removed_busy(s) ==
  \E i \in Client : s.slots[i] # None /\ ~Registered(s.slots[i]) /\ client_busy(s, i)

route_always(s) == s.multi \/ s.filter

route_check(s) ==
  IF s.routing /\ ~route_always(s) /\ ~s.own /\ ~PendingOwn(s) /\ ~removed_busy(s)
  THEN route_stop(s) ELSE s

-----------------------------------------------------------------------------
(* Turns. *)

\* catn_client_of; the slot of a removed connector only if no other is left.
client_of(s, fd) ==
  LET mine == {i \in Client : s.slots[i] = fd}
      free == {i \in Client : s.slots[i] = None}
      gone == {i \in Client : s.slots[i] # None /\ ~Registered(s.slots[i])}
  IN  CASE mine # {} -> Least(mine)
        [] mine = {} /\ free # {} -> Least(free)
        [] mine = {} /\ free = {} /\ gone # {} -> Least(gone)
        [] OTHER -> 0

Numbered(s, fd) ==
  LET c == client_of(s, fd) IN IF c = 0 THEN s ELSE [s EXCEPT !.slots[c] = fd]

turn_give(s, fd, fresh) ==
  IF fd = None THEN [s EXCEPT !.turn = None, !.client = 0, !.fresh = fresh]
  ELSE [Numbered(s, fd) EXCEPT !.turn = fd, !.client = client_of(s, fd), !.fresh = fresh]

\* mhr_next_waiting_producer: round robin behind fd.
next_waiting(fd) ==
  LET w == {k \in 1..Len(prods) : fdOf[prods[k]] # fd /\ sock[prods[k]] # <<>>}
      after == {k \in w : \E j \in 1..(k-1) : fdOf[prods[j]] = fd}
  IN  CASE after # {} -> fdOf[prods[Least(after)]]
        [] after = {} /\ w # {} -> fdOf[prods[Least(w)]]
        [] OTHER -> None

\* A variant that keeps the commands given up.
client_discard_none(s, c) == s

client_discard(s, c) ==
  [s EXCEPT !.pend = Keep(@, {k \in 1..Len(@) : c = 0 \/ @[k].client # c})]

Fresh(s) == s.fresh /\ Registered(s.turn)

\* A variant that ends the turn of a removed connector at once.
turn_check_removed(s, expired) ==
  IF s.turn = None \/ (~expired /\ (Fresh(s) \/ (Registered(s.turn) /\ client_busy(s, s.client))))
  THEN s
  ELSE LET t == IF ~Fresh(s) /\ Registered(s.turn) THEN client_discard(s, s.client) ELSE s
           next == IF s.multi THEN next_waiting(s.turn) ELSE None
       IN  turn_give(t, next, next # None)

\* expired: no data and no answer for CATN_TURN_TIMEOUT.
turn_check(s, expired) ==
  IF s.turn = None \/ (~expired /\ (Fresh(s) \/ client_busy(s, s.client))) THEN s
  ELSE LET t == IF ~Fresh(s) THEN client_discard(s, s.client) ELSE s
           next == IF s.multi THEN next_waiting(s.turn) ELSE None
       IN  turn_give(t, next, next # None)

multi_update(s) ==
  LET t == [s EXCEPT !.filter = s.decoder /\ Connected \cap NoUnsol # {},
                     !.multi = s.decoder /\ Len(prods) > 1]
      u == IF s.multi /\ ~t.multi /\ ~s.decoder THEN turn_give(t, None, FALSE) ELSE t
  IN  IF route_always(u) THEN route_start(u) ELSE route_check(u)

-----------------------------------------------------------------------------
(* Own queries and the decoder's life. *)

\* A variant that forgets the applications whose data waits.
own_end_held(s) == [s EXCEPT !.own = FALSE]

own_end(s) == [s EXCEPT !.own = FALSE, !.hold = FALSE]

\* catn_destroy_decoder and catn_reset
reset(s) ==
  LET t == own_end([s EXCEPT !.decoder = FALSE, !.pend = <<>>, !.half = FALSE])
  IN  turn_give(IF route_always(t) THEN t ELSE route_stop(t), None, FALSE)

\* catn_setup when the rig type or the address differ from the decoder's.
setup(s) ==
  IF s.decoder THEN s ELSE multi_update([reset(s) EXCEPT !.decoder = TRUE])

\* pend_add; the oldest command makes room.
pend_add(s, p) ==
  [s EXCEPT !.pend = Append(IF Len(@) = PendMax THEN Tail(@) ELSE @, p)]

own_send(s) ==
  IF Len(line) + Len(s.tx) >= LineCap THEN s
  ELSE LET q == [src |-> Own, kind |-> OwnKind, turn |-> TRUE]
           t == route_start([s EXCEPT !.tx = Append(@, q), !.hold = TRUE, !.own = TRUE])
       IN  pend_add(t, [own |-> TRUE, kind |-> OwnKind, client |-> 0, host |-> TRUE,
                        echoed |-> FALSE, src |-> Own])

\* A variant that asks during an application's turn.
own_try_always(s) ==
  IF s.own \/ ~OwnQueries \/ ~s.decoder \/ ~online THEN s ELSE own_send(s)

\* catn_own_try when a value is stale.
own_try(s) ==
  IF s.own \/ ~OwnQueries \/ ~s.decoder \/ ~online \/ s.pend # <<>>
     \/ (s.turn # None /\ ~s.fresh)
  THEN s ELSE own_send(s)

-----------------------------------------------------------------------------
(* The CI-V decoder on a complete frame. *)

\* Remove the commands of the controller and client of p[i], up to i.
pend_consume(p, i) ==
  Keep(p, {j \in 1..Len(p) :
             j > i \/ (p[j].src = Own) # (p[i].src = Own) \/ p[j].client # p[i].client})

\* pend_find_echo, pend_find_query or pend_find_ack: the commands frame f may
\* belong to.  mhuxd's controller address differs from the applications'.
Candidates(s, f) ==
  {k \in 1..Len(s.pend) :
     /\ (s.pend[k].src = Own) = (f.src = Own)
     /\ IF f.what = "echo"
        THEN s.pend[k].host /\ ~s.pend[k].echoed /\ s.pend[k].kind = f.kind
        ELSE IF f.kind \in Set THEN s.pend[k].kind \in Set
        ELSE s.pend[k].kind = f.kind}

FrameDest(s, client, kind) ==
  CASE client # 0 /\ s.slots[client] # None -> s.slots[client]
    [] client = 0 /\ kind = "unsolicited" -> Unsolicited
    [] OTHER -> route_default(s)

\* A variant that takes out the answer only while it is waited for.
frame_cb_active(s, own, client, kind) ==
  IF own /\ s.own
  THEN [(IF kind # "echo" THEN own_end(s) ELSE s) EXCEPT !.dest = Drop]
  ELSE [s EXCEPT !.dest = FrameDest(s, client, kind), !.answered = client # 0 /\ kind = "reply"]

\* A variant that takes out whatever comes while an own query is pending.
frame_cb_pending(s, own, client, kind) ==
  IF own \/ PendingOwn(s)
  THEN [(IF s.own /\ kind # "echo" THEN own_end(s) ELSE s) EXCEPT !.dest = Drop]
  ELSE [s EXCEPT !.dest = FrameDest(s, client, kind), !.answered = client # 0 /\ kind = "reply"]

\* catn_frame_cb for a frame of the radio.
frame_cb(s, own, client, kind) ==
  IF own THEN [(IF s.own /\ kind # "echo" THEN own_end(s) ELSE s) EXCEPT !.dest = Drop]
  ELSE [s EXCEPT !.dest = FrameDest(s, client, kind), !.answered = client # 0 /\ kind = "reply"]

process_radio_frame(s, f) ==
  IF f.what = "trx" THEN frame_cb(s, FALSE, 0, "unsolicited")
  ELSE LET found == Candidates(s, f)
           i == Least(found)
           p == s.pend[i]
       IN  CASE f.what = "echo" /\ found # {} ->
                  frame_cb([s EXCEPT !.pend[i].echoed = TRUE], p.own, p.client, "echo")
             [] f.what = "echo" /\ found = {} ->
                  frame_cb(pend_add(s, [own |-> FALSE, kind |-> f.kind, client |-> 0,
                                        host |-> FALSE, echoed |-> TRUE, src |-> f.src]),
                           FALSE, 0, "command")
             [] f.what = "answer" /\ found # {} ->
                  frame_cb([s EXCEPT !.pend = pend_consume(@, i)], p.own, p.client,
                           IF f.kind \in Set THEN "ack" ELSE "reply")
             [] OTHER -> frame_cb(s, FALSE, 0, "unmatched")

\* catn_feed with the next part of the radio's data.
feed_radio(s, check) ==
  LET t == IF check THEN setup(s) ELSE s
      f == Head(fromR)
  IN  IF ~t.decoder \/ f.what = "noise" THEN t
      ELSE IF ~begun THEN [t EXCEPT !.half = TRUE]
      ELSE IF t.half THEN process_radio_frame([t EXCEPT !.half = FALSE], f)
      ELSE t

\* catn_feed with a command of the application on fd.
feed_host(s, a, k, check) ==
  LET c == client_of(s, fdOf[a])
      n == Numbered(s, fdOf[a])
      t == IF check THEN setup(n) ELSE n
  IN  IF ~t.decoder \/ c = 0 THEN t
      ELSE pend_add(t, [own |-> FALSE, kind |-> k, client |-> c, host |-> TRUE,
                        echoed |-> FALSE, src |-> a])

-----------------------------------------------------------------------------
(* The end of a handler. *)

\* The application has sent data, so it has a client number.
Asked(s, b) == \E i \in Client : s.slots[i] = fdOf[b]

\* The parts src of an answer that reached an application they do not belong to.
StrayOf(s) ==
  {b \in App : \E k \in 1..Len(s.out) :
     /\ s.out[k].src \in App \ {b}
     /\ b \in s.out[k].to /\ Asked(s, b)}

End(s) ==
  /\ cn' = [x \in DOMAIN cn |-> s[x]]
  /\ stray' = stray \cup StrayOf(s)
  /\ leaked' = (leaked \/ \E k \in 1..Len(s.out) : s.out[k].src = Own /\ s.out[k].to # {})

\* An answer of the radio to a command of src is under way.
Coming(src) ==
  \/ \E k \in 1..Len(line) : line[k].src = src
  \/ \E k \in 1..Len(fromR) : fromR[k].src = src /\ fromR[k].what = "answer"

\* Giving the commands K up while their answers are under way is counted as late.
Late(K) ==
  /\ count' = IF \E k \in K : Coming(cn.pend[k].src)
              THEN [count EXCEPT !["late"] = @ + 1] ELSE count
  /\ count'["late"] <= MaxLate

-----------------------------------------------------------------------------
(* Connectors. *)

\* The lowest descriptor that is free: it may have been that of a removed connector.
FreeFd == Least(Fd \ {fdOf[b] : b \in Connected})

\* Nothing is unanswered, or the line is taken by turns and nothing is unanswered
\* on the descriptor.
JoinsQuietly ==
  \/ cn.pend = <<>> /\ line = <<>> /\ fromR = <<>>
  \/ Len(prods) > 1 /\ \A i \in Client : cn.slots[i] = FreeFd => ~client_busy(cn, i)

\* mhr_add_producer for a connector of the channel
Connect(a) ==
  /\ fdOf[a] = None
  /\ JoinBusy \/ JoinsQuietly
  /\ prods' = Append(prods, a)
  /\ fdOf' = [fdOf EXCEPT ![a] = FreeFd]
  /\ UNCHANGED <<sock, line, fromR, begun, cn, online, count, stray, leaked, missed>>

Disconnect(a) ==
  /\ a \in Connected
  /\ prods' = Keep(prods, {k \in 1..Len(prods) : prods[k] # a})
  /\ sock' = [sock EXCEPT ![a] = <<>>]
  /\ fdOf' = [fdOf EXCEPT ![a] = Gone]
  /\ UNCHANGED <<line, fromR, begun, cn, online, count, stray, leaked, missed>>

\* Commands of a the radio or the decoder has not done with.
Unanswered(a) ==
  Cardinality({k \in 1..Len(line) : line[k].src = a})
  + Cardinality({k \in 1..Len(fromR) : fromR[k].src = a /\ fromR[k].what = "answer"})

\* The application writes a command.
AppSend(a, k) ==
  /\ a \in Connected /\ sock[a] = <<>>
  /\ Unanswered(a) < MaxPipe
  /\ Cardinality({j \in 1..Len(cn.pend) : cn.pend[j].src = a}) < MaxPipe
  /\ sock' = [sock EXCEPT ![a] = <<k>>]
  /\ UNCHANGED <<prods, fdOf, line, fromR, begun, cn, online, count, stray, leaked, missed>>

\* producer_cb and catn_host_cb, step by step
HostCb(a, check) ==
  /\ a \in Connected /\ sock[a] # <<>>
  /\ ~cn.hold /\ cn.turn \in {None, fdOf[a]}
  /\ Len(line) < LineCap
  /\ \E s \in {multi_update(Begin(cn))} :
     \E t \in {IF s.multi /\ s.turn = None THEN turn_give(s, fdOf[a], FALSE) ELSE s} :
     \E u \in {IF t.turn = fdOf[a] THEN [t EXCEPT !.fresh = FALSE] ELSE t} :
     \E v \in {feed_host(u, a, Head(sock[a]), check)} :
       /\ End(v)
       /\ line' = Append(line, [src |-> a, kind |-> Head(sock[a]), turn |-> u.turn # None])
  /\ sock' = [sock EXCEPT ![a] = Tail(@)]
  /\ UNCHANGED <<prods, fdOf, fromR, begun, online, count, missed>>

-----------------------------------------------------------------------------
(* Timers. *)

\* catn_tick_cb; due: the line has been quiet and a value is stale.
Tick(check, due) ==
  /\ \E s \in {route_check(multi_update(Begin(cn)))} :
     \E t \in {IF check /\ ~cn.own THEN setup(s) ELSE s} :
     \E u \in {IF due /\ ~cn.own THEN own_try(t) ELSE t} :
       /\ End(u)
       /\ line' = line \o u.tx
  /\ UNCHANGED <<prods, fdOf, sock, fromR, begun, online, count, missed>>

\* catn_turn_timer_cb.  An application just granted the line has data to read; only
\* a full channel buffer keeps it waiting for so long, an own query is shorter and
\* starts its time again.
TurnTimer(expired) ==
  /\ cn.turn # None
  /\ expired /\ Fresh(cn) => ~cn.hold /\ Len(line) = LineCap
  /\ End(turn_check(Begin(cn), expired))
  /\ IF expired THEN Late({k \in 1..Len(cn.pend) : cn.pend[k].client = cn.client})
                ELSE UNCHANGED count
  /\ UNCHANGED <<prods, fdOf, sock, line, fromR, begun, online, missed>>

\* catn_own_timeout_cb; the decoder still expects the answer.
OwnTimeout ==
  /\ cn.own
  /\ End(own_end(Begin(cn)))
  /\ UNCHANGED <<prods, fdOf, sock, line, fromR, begun, online, count, missed>>

\* catn_route_timer_cb.  A frame that takes so long is late as well.
RouteTimer ==
  /\ cn.flush
  /\ End(route_flush(Begin(cn), route_default(cn)))
  /\ count' = IF begun THEN [count EXCEPT !["late"] = @ + 1] ELSE count
  /\ count'["late"] <= MaxLate
  /\ UNCHANGED <<prods, fdOf, sock, line, fromR, begun, online, missed>>

\* pend_expire: the oldest command is older than PEND_TIMEOUT_MS.
PendExpire ==
  /\ cn.pend # <<>> /\ ~(cn.own /\ cn.pend[1].own)
  /\ cn' = [cn EXCEPT !.pend = Tail(@)]
  /\ Late({1})
  /\ UNCHANGED <<prods, fdOf, sock, line, fromR, begun, online, stray, leaked, missed>>

-----------------------------------------------------------------------------
(* catn_radio_cb: one part of the radio's data. *)

\* Whose part it is (ghost); answers to commands sent outside a turn are anybody's.
Owner(f) == IF f.turn THEN f.src ELSE Radio

\* Without routing the router has passed the part on to all already.
RadioPassed(check) ==
  feed_radio(pass_out(Begin(cn), <<Owner(Head(fromR))>>, All), check)

RadioRouted(check) ==
  LET s == IF Len(cn.buf) = RouteMax
           THEN route_flush(Begin(cn), route_default(cn)) ELSE Begin(cn)
      t == feed_radio([s EXCEPT !.buf = Append(@, Owner(Head(fromR)))], check)
  IN  IF t.dest = NoDest THEN [t EXCEPT !.flush = TRUE] ELSE route_flush(t, t.dest)

RadioByte(check, due) ==
  /\ fromR # <<>>
  /\ \E s \in {IF cn.routing THEN RadioRouted(check) ELSE RadioPassed(check)} :
     \E t \in {turn_check(s, FALSE)} :
     \E u \in {IF t.answered /\ due THEN own_try(t) ELSE t} :
     \E v \in {IF cn.routing THEN route_check(u) ELSE u} :
       LET f == Head(fromR)
           last == begun \/ f.what = "noise"
           reached == \E k \in 1..Len(v.out) :
                        v.out[k].src = Owner(f) /\ f.src \in v.out[k].to
       IN  /\ End(v)
           /\ line' = line \o v.tx
           /\ fromR' = IF last THEN Tail(fromR) ELSE fromR
           /\ begun' = ~last
           /\ missed' = (missed \/ (begun /\ f.what = "answer" /\ f.src \in Connected
                                     /\ v.buf = <<>> /\ ~reached))
  /\ UNCHANGED <<prods, fdOf, sock, online, count>>

-----------------------------------------------------------------------------
(* The keyer and the radio. *)

\* catn_keyer_state_cb.  What was on the line is lost; the start of a frame cut off
\* by that may go to all and counts for nobody.
KeyerState ==
  LET s == multi_update(reset(Begin(cn)))
  IN  /\ count["off"] < MaxOff
      /\ count' = [count EXCEPT !["off"] = @ + 1]
      /\ online' = ~online
      /\ cn' = LET t == IF online THEN s ELSE setup(s) IN [x \in DOMAIN cn |-> t[x]]
      /\ line' = <<>> /\ fromR' = <<>> /\ begun' = FALSE
      /\ UNCHANGED <<prods, fdOf, sock, stray, leaked, missed>>

RadioAnswer ==
  /\ online /\ line # <<>>
  /\ line' = Tail(line)
  /\ LET c == Head(line)
         f(what) == [what |-> what, src |-> c.src, kind |-> c.kind, turn |-> c.turn]
     IN  fromR' = fromR \o (IF Echo THEN <<f("echo")>> ELSE <<>>) \o <<f("answer")>>
  /\ UNCHANGED <<prods, fdOf, sock, begun, cn, online, count, stray, leaked, missed>>

RadioLose ==
  /\ line # <<>>
  /\ count["lost"] < MaxLost
  /\ count' = [count EXCEPT !["lost"] = @ + 1]
  /\ line' = Tail(line)
  /\ UNCHANGED <<prods, fdOf, sock, fromR, begun, cn, online, stray, leaked, missed>>

\* The knob is turned, or there is noise on the line.
RadioSends(what) ==
  /\ online
  /\ count["trx"] < MaxTrx
  /\ count' = [count EXCEPT !["trx"] = @ + 1]
  /\ fromR' = Append(fromR, [what |-> what, src |-> Radio, kind |-> OwnKind, turn |-> FALSE])
  /\ UNCHANGED <<prods, fdOf, sock, line, begun, cn, online, stray, leaked, missed>>

-----------------------------------------------------------------------------
AppNext(a) ==
  \/ Connect(a)
  \/ Disconnect(a)
  \/ \E k \in Kind : AppSend(a, k)
  \/ \E check \in BOOLEAN : HostCb(a, check)

TimerNext ==
  \/ \E check, due \in BOOLEAN : Tick(check, due)
  \/ \E expired \in BOOLEAN : TurnTimer(expired)
  \/ OwnTimeout
  \/ RouteTimer
  \/ PendExpire

RadioNext ==
  \/ \E check, due \in BOOLEAN : RadioByte(check, due)
  \/ KeyerState
  \/ RadioAnswer
  \/ RadioLose
  \/ \E what \in {"trx", "noise"} : RadioSends(what)

Next == TimerNext \/ RadioNext \/ \E a \in App : AppNext(a)

Spec == Init /\ [][Next]_vars

\* Timers expire and the radio handles what it gets.  A connector that is readable
\* again and again is read: own queries, which hold it, are 1.5 s apart.
Fairness ==
  /\ \A a \in App : SF_vars(\E check \in BOOLEAN : HostCb(a, check))
  /\ \A expired \in BOOLEAN : WF_vars(TurnTimer(expired))
  /\ WF_vars(OwnTimeout)
  /\ WF_vars(\E check, due \in BOOLEAN : RadioByte(check, due))
  /\ WF_vars(RadioAnswer)

FairSpec == Spec /\ Fairness

-----------------------------------------------------------------------------
(* Properties. *)

\* Commands that are on the line or whose answer is under way.
Outstanding ==
  {[src |-> line[k].src, turn |-> line[k].turn] : k \in 1..Len(line)}
  \cup {[src |-> fromR[k].src, turn |-> fromR[k].turn] :
          k \in {j \in 1..Len(fromR) : fromR[j].what = "answer"}}

InTime == count["late"] = 0

\* While mhuxd waits for the answer to its own query no command of an
\* application is on the line, and the applications' data is held exactly then.
OwnAlone ==
  /\ cn.hold = cn.own
  /\ InTime /\ cn.own => \A x \in Outstanding : x.src = Own

\* One application at a time: commands sent by turn that wait for their answer
\* are all of one application, also when its connector has been removed.
TurnsExclusive ==
  InTime => \A x, y \in Outstanding :
              x.turn /\ y.turn /\ {x.src, y.src} \subseteq App => x.src = y.src

\* An application never sees a part of the answer to an own query, also when the
\* query timed out and the applications are on the line again.
OwnHidden == InTime => ~leaked

\* Answers go to the application that asked: no other one that asks something gets
\* a part of them (catn_frame_cb and the matching of pending commands).
AnswerToAsker == InTime => stray = {}

\* Every answer the radio gives in time reaches the application that asked, as long
\* as its connector exists; none is taken for the answer to an own query.
AnswerReaches == InTime => ~missed

\* The command of an application that waits for its answers is read in the end,
\* whatever the other application, the own queries and lost answers do meanwhile.
WaitingIsRead == \A a \in App : sock[a] # <<>> ~> sock[a] = <<>>

=============================================================================
