------------------------------- MODULE Router -------------------------------
(***************************************************************************)
(* The routing core of mhuxd (src/src/mhrouter.c with buffer.c and the     *)
(* scheduling part of mux.c) in the direction from the connectors to the   *)
(* keyer.                                                                  *)
(*                                                                         *)
(* A producer is a socket on which a connector delivers bytes for one      *)
(* channel.  A byte on a PTT channel is a request to key or unkey a radio: *)
(* the router remembers what every producer holds and sends the union as   *)
(* one flags byte.  Bytes of the other channels are queued for the keyer   *)
(* as they are.  All queues are drained into frames by keyer_out_cb.       *)
(*                                                                         *)
(* Every action is one libev callback or one call of the router's          *)
(* interface; the process is single threaded, so callbacks are atomic.     *)
(***************************************************************************)
EXTENDS Integers, Sequences, FiniteSets, FiniteSetsExt

CONSTANTS
  Producer,       \* the endpoints connectors may register
  NoProducer,     \* fd -1
  ChanOf,         \* the channel of each of them
  Limited,        \* channels with a leaky bucket (bps # 0)
  CatChannel,     \* channels native CAT controls with hold and turn
  Foci,           \* radios the keyer may report the focus on
  HasFlags,       \* the device has a flags channel
  LbBytes,        \* LB_BYTES_PER_IVAL
  LbCarry,        \* LB_CARRY_OVER
  SockCap,        \* bytes a connector's socket takes
  BufCap,         \* BUFFER_CAPACITY of a channel buffer
  OutCap,         \* frames that fit into buf_out
  WireCap,        \* frames the tty takes before write() would block
  CmdCap          \* commands mhcontrol keeps queued

PttChannel == {"PTT1", "PTT2", "FOCUS"}
DataChannel == {"R1", "R2"}
Channel == PttChannel \cup DataChannel

\* Keyer channels whose bytes are only counted.
QueueChannel == DataChannel \cup {"CONTROL"}

ASSUME ConstAssumption ==
  /\ NoProducer \notin Producer
  /\ ChanOf \in [Producer -> Channel]
  /\ Limited \subseteq Channel
  /\ CatChannel \subseteq DataChannel
  /\ 1 \in Foci /\ Foci \subseteq {1, 2}
  /\ HasFlags \in BOOLEAN
  /\ LbBytes \in Nat \ {0}
  /\ LbCarry \in Nat
  /\ {SockCap, BufCap, OutCap, WireCap, CmdCap} \subseteq Nat \ {0}

Radio == {1, 2}

\* What a connector may put into its socket: PTT_ON_BYTE, PTT_OFF_BYTE, a byte
\* that is neither, or, on another channel, a data byte.
Item == {"on", "off", "other"}
ItemOf(p) == IF ChanOf[p] \in PttChannel THEN Item ELSE {"other"}

\* A frame of buf_out, reduced to its flags byte and the validity bit of it.
Frame == [valid : BOOLEAN, flags : SUBSET Radio]

VARIABLES
  conn,      \* router->fd # -1
  list,      \* producers in the producer lists
  io,        \* producers whose read watcher is active
  sock,      \* unread bytes of each producer's socket
  closed,    \* producers whose peer has closed
  mask,      \* ptt_mask
  wflag,     \* PTT bits of wflag
  flags,     \* channel_buf_out[MH_CHANNEL_FLAGS]
  queue,     \* the other channel buffers
  out,       \* buf_out
  wout,      \* the write watcher of the keyer is active
  wire,      \* frames written and not yet seen by the keyer
  keyerPtt,  \* radios the keyer keys because of the flags byte
  lbAvail,   \* avail_this_ival
  lbTimer,   \* the bucket's timer is active
  focus,     \* wk_tx_focus
  hold,      \* hold[]
  turn,      \* turn[]
  cmds,      \* commands queued in mhcontrol, not yet handed to the router
  pushed     \* ghost: did the flags channel take this connection's last push_ptt?

connVars == <<conn, wire, keyerPtt>>
prodVars == <<list, io, sock, closed>>
pttVars  == <<mask, wflag, pushed>>
bufVars  == <<flags, queue, out, wout>>
lbVars   == <<lbAvail, lbTimer>>
ctlVars  == <<focus, hold, turn, cmds>>
vars == <<connVars, prodVars, pttVars, bufVars, lbVars, ctlVars>>

-----------------------------------------------------------------------------
(* buffer.c.  size counts what was appended since the buffer was last      *)
(* empty, so space comes back only when everything has been read; q or n   *)
(* is what lies between rpos and size.                                     *)

buf_size_avail(b) == BufCap - b.size

EmptyFifo == [q |-> <<>>, size |-> 0]
Fifo(S) == [q : Seq(S), size : Nat]
buf_append(b, x) == [q |-> Append(b.q, x), size |-> b.size + 1]

\* The buffer with pending content q: reset once all is read.
Rest(q, size) == [q |-> q, size |-> IF q = <<>> THEN 0 ELSE size]

EmptyCount == [n |-> 0, size |-> 0]
Count == [n : Nat, size : Nat]
AddCount(b, r) == [n |-> b.n + r, size |-> b.size + r]
RestCount(n, size) == [n |-> n, size |-> IF n = 0 THEN 0 ELSE size]

-----------------------------------------------------------------------------
Full == LbBytes + LbCarry

TypeOK ==
  /\ conn \in BOOLEAN
  /\ list \subseteq Producer
  /\ io \subseteq list
  /\ sock \in [Producer -> Seq(Item)]
  /\ closed \subseteq Producer
  /\ mask \in [Producer -> SUBSET Radio]
  /\ wflag \subseteq Radio
  /\ flags \in Fifo(SUBSET Radio)
  /\ queue \in [QueueChannel -> Count]
  /\ out \in Fifo(Frame)
  /\ wout \in BOOLEAN
  /\ wire \in Seq(Frame)
  /\ keyerPtt \subseteq Radio
  /\ lbAvail \in [Channel -> 0..Full]
  /\ lbTimer \in [Channel -> BOOLEAN]
  /\ focus \in Foci
  /\ hold \in [Channel -> BOOLEAN]
  /\ turn \in [Channel -> Producer \cup {NoProducer}]
  /\ cmds \in 0..CmdCap
  /\ pushed \in {"none", "taken", "refused"}

\* mhr_create and the limits mhc_create sets.
Init ==
  /\ conn = FALSE
  /\ list = {}
  /\ io = {}
  /\ sock = [p \in Producer |-> <<>>]
  /\ closed = {}
  /\ mask = [p \in Producer |-> {}]
  /\ wflag = {}
  /\ flags = EmptyFifo
  /\ queue = [c \in QueueChannel |-> EmptyCount]
  /\ out = EmptyFifo
  /\ wout = FALSE
  /\ wire = <<>>
  /\ keyerPtt = {}
  /\ lbAvail = [c \in Channel |-> Full]
  /\ lbTimer = [c \in Channel |-> c \in Limited]
  /\ focus = 1
  /\ hold = [c \in Channel |-> FALSE]
  /\ turn = [c \in Channel |-> NoProducer]
  /\ cmds = 0
  /\ pushed = "none"

-----------------------------------------------------------------------------
(* Helpers of the handlers. *)

producer_may_read(p) ==
  /\ ~hold[ChanOf[p]]
  /\ turn[ChanOf[p]] \in {NoProducer, p}

\* libev reports a socket readable on data and on end of file.
Readable(p) == sock[p] # <<>> \/ p \in closed

\* update_producers with the new values of hold and turn.
update_producers(c, h, t) ==
  LET mine == {p \in list : ChanOf[p] = c}
      may  == {p \in mine : conn /\ ~h /\ t \in {NoProducer, p}}
  IN  io' = (io \ mine) \cup may

\* switch_producer_events(router, 1)
Switched == io \cup {p \in list : producer_may_read(p)}

\* mhr_send_in on the flags channel takes the byte.
FlagsTaken == HasFlags /\ buf_size_avail(flags) > 0

\* A variant that sends the flags as they were.
push_ptt_late(L, m) ==
  /\ wflag' = UNION {m[p] : p \in L}
  /\ IF conn
     THEN /\ flags' = IF FlagsTaken THEN buf_append(flags, wflag) ELSE flags
          /\ pushed' = IF FlagsTaken THEN "taken" ELSE "refused"
     ELSE UNCHANGED <<flags, pushed>>

\* push_ptt, for the producer list L holding the masks m.
push_ptt(L, m) ==
  LET held == UNION {m[p] : p \in L}
  IN  /\ wflag' = held
      /\ IF conn
         THEN /\ flags' = IF FlagsTaken THEN buf_append(flags, held) ELSE flags
              /\ pushed' = IF FlagsTaken THEN "taken" ELSE "refused"
         ELSE UNCHANGED <<flags, pushed>>

\* The radio a PTT-on of the producer keys.
Target(p) ==
  CASE ChanOf[p] = "PTT1" -> 1
    [] ChanOf[p] = "PTT2" -> 2
    [] OTHER -> focus

ValidAt(s) == {i \in 1..Len(s) : s[i] \in {"on", "off"}}

\* process_ptt_producer on the bytes s: the last valid one decides.
MaskAfter(p, s) ==
  IF \E i \in ValidAt(s) : s[i] = "on" /\ \A j \in ValidAt(s) : j <= i
  THEN {Target(p)} ELSE {}

process_ptt_producer(p, s) ==
  IF ValidAt(s) = {}
  THEN UNCHANGED <<pttVars, flags>>
  ELSE /\ mask' = [mask EXCEPT ![p] = MaskAfter(p, s)]
       /\ push_ptt(list, mask')

\* Bytes producer_cb may read: what the channel buffer and the bucket allow.
Avail(c) ==
  LET room == IF c \in DataChannel THEN buf_size_avail(queue[c]) ELSE BufCap
  IN  IF c \in Limited /\ room > lbAvail[c] THEN lbAvail[c] ELSE room

\* A variant that leaves a stopped timer stopped.
LeakyBucketIdle(c, r) ==
  IF c \in Limited
  THEN lbAvail' = [lbAvail EXCEPT ![c] = @ - r] /\ UNCHANGED lbTimer
  ELSE UNCHANGED lbVars

\* r bytes leave the bucket.  Its timer is started again: it stops after an idle
\* interval.
LeakyBucket(c, r) ==
  IF c \in Limited
  THEN /\ lbTimer' = [lbTimer EXCEPT ![c] = TRUE]
       /\ lbAvail' = [lbAvail EXCEPT ![c] = @ - r]
  ELSE UNCHANGED lbVars

-----------------------------------------------------------------------------
(* Connectors and their peers. *)

\* mhr_add_producer
AddProducer(p) ==
  /\ p \notin list
  /\ list' = list \cup {p}
  /\ io' = IF conn /\ producer_may_read(p) THEN io \cup {p} ELSE io
  /\ sock' = [sock EXCEPT ![p] = <<>>]
  /\ closed' = closed \ {p}
  /\ mask' = [mask EXCEPT ![p] = {}]
  /\ UNCHANGED <<connVars, wflag, pushed, bufVars, lbVars, ctlVars>>

\* A variant that does not tell the keyer.
RemovedSilently(p) ==
  /\ list' = list \ {p}
  /\ io' = io \ {p}
  /\ sock' = [sock EXCEPT ![p] = <<>>]
  /\ closed' = closed \ {p}
  /\ mask' = [mask EXCEPT ![p] = {}]
  /\ UNCHANGED <<wflag, pushed, bufVars, lbVars, connVars, ctlVars>>

\* The body of mhr_rem_producer: PTT the producer holds is released.
Removed(p) ==
  /\ list' = list \ {p}
  /\ io' = io \ {p}
  /\ sock' = [sock EXCEPT ![p] = <<>>]
  /\ closed' = closed \ {p}
  /\ mask' = [mask EXCEPT ![p] = {}]
  /\ IF mask[p] # {}
     THEN /\ push_ptt(list', mask)
          /\ wout' = (wout \/ (conn /\ FlagsTaken))
     ELSE UNCHANGED <<wflag, pushed, flags, wout>>
  /\ UNCHANGED <<queue, out, lbVars, connVars, ctlVars>>

\* The connector is deleted or failed (conmgr.c).
RemProducer(p) == p \in list /\ Removed(p)

\* The connector writes a byte into its end of the socket.
PeerWrite(p, x) ==
  /\ p \in list \ closed
  /\ Len(sock[p]) < SockCap
  /\ sock' = [sock EXCEPT ![p] = Append(@, x)]
  /\ UNCHANGED <<connVars, list, io, closed, pttVars, bufVars, lbVars, ctlVars>>

PeerClose(p) ==
  /\ p \in list \ closed
  /\ closed' = closed \cup {p}
  /\ UNCHANGED <<connVars, list, io, sock, pttVars, bufVars, lbVars, ctlVars>>

-----------------------------------------------------------------------------
(* producer_cb *)

ProducerReady(p) == p \in io /\ Readable(p)

\* Neither read nor wanted now: the watcher is stopped.
ProducerStop(p) ==
  /\ ProducerReady(p)
  /\ \/ ~producer_may_read(p)
     \/ conn /\ Avail(ChanOf[p]) = 0
  /\ io' = io \ {p}
  /\ UNCHANGED <<connVars, list, sock, closed, pttVars, bufVars, lbVars, ctlVars>>

\* No keyer: everything readable is discarded, end of file is not acted on.
ProducerDiscard(p) ==
  /\ ProducerReady(p)
  /\ producer_may_read(p)
  /\ ~conn
  /\ sock' = [sock EXCEPT ![p] = <<>>]
  /\ UNCHANGED <<connVars, list, io, closed, pttVars, bufVars, lbVars, ctlVars>>

ProducerRead(p) ==
  LET c == ChanOf[p]
      r == IF Len(sock[p]) < Avail(c) THEN Len(sock[p]) ELSE Avail(c)
  IN  /\ ProducerReady(p)
      /\ producer_may_read(p)
      /\ conn
      /\ r > 0
      /\ sock' = [sock EXCEPT ![p] = SubSeq(@, r + 1, Len(@))]
      /\ IF c \in PttChannel
         THEN /\ process_ptt_producer(p, SubSeq(sock[p], 1, r))
              /\ UNCHANGED queue
         ELSE /\ queue' = [queue EXCEPT ![c] = AddCount(@, r)]
              /\ UNCHANGED <<pttVars, flags>>
      /\ wout' = TRUE
      /\ LeakyBucket(c, r)
      /\ UNCHANGED <<connVars, list, io, closed, out, ctlVars>>

\* End of file or a read error.
ProducerEof(p) ==
  /\ ProducerReady(p)
  /\ producer_may_read(p)
  /\ conn
  /\ Avail(ChanOf[p]) > 0
  /\ sock[p] = <<>>
  /\ Removed(p)

ProducerCb(p) ==
  ProducerStop(p) \/ ProducerDiscard(p) \/ ProducerRead(p) \/ ProducerEof(p)

-----------------------------------------------------------------------------
(* The leaky bucket. *)

\* A variant without the cap.
RefillUncapped(a) == LbBytes + a

\* What an interval starts with: LB_BYTES_PER_IVAL and what was left, capped.
Refill(a) == LbBytes + IF a > LbCarry THEN LbCarry ELSE a

\* A variant that does not start the producers.
lb_cb_asleep(c) ==
  /\ lbTimer[c]
  /\ IF lbAvail[c] = Full
     THEN lbTimer' = [lbTimer EXCEPT ![c] = FALSE] /\ UNCHANGED lbAvail
     ELSE lbAvail' = [lbAvail EXCEPT ![c] = Refill(@)] /\ UNCHANGED lbTimer
  /\ UNCHANGED <<connVars, prodVars, pttVars, bufVars, ctlVars>>

lb_cb(c) ==
  /\ lbTimer[c]
  /\ IF lbAvail[c] = Full
     THEN /\ lbTimer' = [lbTimer EXCEPT ![c] = FALSE]
          /\ UNCHANGED <<lbAvail, io>>
     ELSE /\ lbAvail' = [lbAvail EXCEPT ![c] = Refill(@)]
          /\ io' = io \cup {p \in list : ChanOf[p] = c /\ producer_may_read(p)}
          /\ UNCHANGED lbTimer
  /\ UNCHANGED <<connVars, list, sock, closed, pttVars, bufVars, ctlVars>>

\* mhr_set_bps_limit with a new limit, called by mhcontrol right before it
\* submits the command that sets the channel's speed in the keyer.
mhr_set_bps_limit(c) ==
  /\ c \in Limited \cap DataChannel
  /\ conn
  /\ cmds < CmdCap
  /\ lbAvail' = [lbAvail EXCEPT ![c] = Full]
  /\ lbTimer' = [lbTimer EXCEPT ![c] = TRUE]
  /\ cmds' = cmds + 1
  /\ UNCHANGED <<connVars, prodVars, pttVars, bufVars, focus, hold, turn>>

-----------------------------------------------------------------------------
(* The keyer's side. *)

\* mhr_send_in on the control channel; a command that does not fit is dropped.
ControlTaken == buf_size_avail(queue["CONTROL"]) > 0
SendControl ==
  IF ControlTaken
  THEN queue' = [queue EXCEPT !["CONTROL"] = AddCount(@, 1)] /\ wout' = TRUE
  ELSE UNCHANGED <<queue, wout>>

\* mhcontrol hands its next command to the router (push_cmds).
PushCmd ==
  /\ conn
  /\ cmds > 0
  /\ cmds' = cmds - 1
  /\ SendControl
  /\ UNCHANGED <<connVars, prodVars, pttVars, flags, out, lbVars, focus, hold, turn>>

\* mhr_set_keyer_fd(fd): mhcontrol's status callback sends a first ping.
KeyerConnect ==
  /\ ~conn
  /\ conn' = TRUE
  /\ io' = Switched
  /\ SendControl
  /\ UNCHANGED <<wire, keyerPtt, list, sock, closed, mask, wflag, pushed,
                 flags, out, lbVars, ctlVars>>

\* A variant that forgets the flags only.
drop_ptt_flags == wflag' = {} /\ UNCHANGED mask

drop_ptt ==
  /\ mask' = [p \in Producer |-> {}]
  /\ wflag' = {}

\* mhr_set_keyer_fd(-1), drop_ptt included; mhcontrol flushes its queue.  The
\* keyer drops PTT by itself.
Disconnected ==
  /\ conn' = FALSE
  /\ wire' = <<>>
  /\ keyerPtt' = {}
  /\ io' = {}
  /\ drop_ptt
  /\ pushed' = "none"
  /\ wout' = FALSE
  /\ cmds' = 0
  /\ UNCHANGED <<list, sock, closed, lbVars, focus, hold, turn>>

\* End of file or an error in keyer_in_cb, or devmgr takes the device away.
KeyerDisconnect ==
  /\ conn
  /\ Disconnected
  /\ UNCHANGED <<flags, queue, out>>

\* mx_mux: every frame takes one byte of each channel, until all channel
\* buffers are empty or buf_out has no room for another sequence.
Longest == Max({Len(flags.q)} \cup {queue[c].n : c \in QueueChannel})
MuxFrames ==
  LET room == OutCap - out.size
  IN  IF room < Longest THEN (IF room < 0 THEN 0 ELSE room) ELSE Longest
Muxed ==
  [i \in 1..MuxFrames |->
     [valid |-> i <= Len(flags.q),
      flags |-> IF i <= Len(flags.q) THEN flags.q[i] ELSE {}]]
MuxedOut == out.q \o Muxed

\* What mx_mux leaves in the channel buffers.
mx_mux ==
  /\ flags' = Rest(SubSeq(flags.q, MuxFrames + 1, Len(flags.q)), flags.size)
  /\ queue' = [c \in QueueChannel |->
                 RestCount(IF queue[c].n < MuxFrames THEN 0
                                                     ELSE queue[c].n - MuxFrames,
                           queue[c].size)]

\* A variant that forgets what is not muxed yet.
NeedToWriteOut(o, f, q) == o # <<>>

NeedToWrite(o, f, q) ==
  o # <<>> \/ f # <<>> \/ \E c \in QueueChannel : q[c].n > 0

\* keyer_out_cb: write() takes n whole frames and possibly a part of the next.
KeyerWrite(n) ==
  /\ conn /\ wout
  /\ n <= Len(MuxedOut)
  /\ Len(wire) + n <= WireCap
  /\ mx_mux
  /\ wire' = wire \o SubSeq(MuxedOut, 1, n)
  /\ out' = Rest(SubSeq(MuxedOut, n + 1, Len(MuxedOut)), out.size + MuxFrames)
  /\ io' = IF MuxedOut # <<>> THEN Switched ELSE io
  /\ wout' = NeedToWrite(out'.q, flags'.q, queue')
  /\ UNCHANGED <<conn, keyerPtt, list, sock, closed, pttVars, lbVars, ctlVars>>

\* keyer_out_cb: write() would block.
KeyerWouldBlock ==
  /\ conn /\ wout
  /\ MuxedOut # <<>>
  /\ mx_mux
  /\ out' = [q |-> MuxedOut, size |-> out.size + MuxFrames]
  /\ UNCHANGED <<connVars, prodVars, pttVars, wout, lbVars, ctlVars>>

\* keyer_out_cb: write() fails, the keyer is given up.
KeyerWriteError ==
  /\ conn /\ wout
  /\ MuxedOut # <<>>
  /\ mx_mux
  /\ out' = [q |-> MuxedOut, size |-> out.size + MuxFrames]
  /\ Disconnected

\* The keyer receives a frame: the flags byte is the PTT state it is to take.
KeyerReceive ==
  /\ wire # <<>>
  /\ wire' = Tail(wire)
  /\ keyerPtt' = IF Head(wire).valid THEN Head(wire).flags ELSE keyerPtt
  /\ UNCHANGED <<conn, prodVars, pttVars, bufVars, lbVars, ctlVars>>

-----------------------------------------------------------------------------
(* Calls of other modules. *)

\* mhr_set_wk_tx_focus: the keyer reports that the focus moved (MK2R).
SetFocus(f) ==
  /\ conn /\ focus # f
  /\ focus' = f
  /\ UNCHANGED <<connVars, prodVars, pttVars, bufVars, lbVars, hold, turn, cmds>>

\* mhr_hold_producers, used by native CAT on a radio channel.
mhr_hold_producers(c, h) ==
  /\ hold[c] # h
  /\ hold' = [hold EXCEPT ![c] = h]
  /\ update_producers(c, h, turn[c])
  /\ UNCHANGED <<connVars, list, sock, closed, pttVars, bufVars, lbVars,
                 focus, turn, cmds>>

\* mhr_set_producer_turn; the turn may stay with a producer that is gone.
mhr_set_producer_turn(c, p) ==
  /\ turn[c] # p
  /\ turn' = [turn EXCEPT ![c] = p]
  /\ update_producers(c, hold[c], p)
  /\ UNCHANGED <<connVars, list, sock, closed, pttVars, bufVars, lbVars,
                 focus, hold, cmds>>

-----------------------------------------------------------------------------
KeyerNext ==
  \/ KeyerConnect
  \/ KeyerDisconnect
  \/ \E n \in 0..WireCap : KeyerWrite(n)
  \/ KeyerWouldBlock
  \/ KeyerWriteError
  \/ KeyerReceive
  \/ PushCmd

ProducerNext(p) ==
  \/ AddProducer(p)
  \/ RemProducer(p)
  \/ \E x \in ItemOf(p) : PeerWrite(p, x)
  \/ PeerClose(p)
  \/ ProducerCb(p)

ControlNext ==
  \/ \E c \in Limited : lb_cb(c) \/ mhr_set_bps_limit(c)
  \/ \E f \in Foci : SetFocus(f)
  \/ \E c \in CatChannel, h \in BOOLEAN : mhr_hold_producers(c, h)
  \/ \E c \in CatChannel :
       \E p \in {q \in Producer : ChanOf[q] = c} \cup {NoProducer} :
          mhr_set_producer_turn(c, p)

Next == KeyerNext \/ ControlNext \/ \E p \in Producer : ProducerNext(p)

Spec == Init /\ [][Next]_vars

(***************************************************************************)
(* Fairness.  libev dispatches every ready watcher and every expired timer *)
(* of the loop, so a readable producer and a running bucket timer are      *)
(* served; the keyer reads its serial line and answers commands.           *)
(***************************************************************************)
Fairness ==
  /\ \A p \in Producer : WF_vars(ProducerCb(p))
  /\ \A c \in Limited : WF_vars(lb_cb(c))
  /\ WF_vars(\E n \in 1..WireCap : KeyerWrite(n))
  /\ WF_vars(KeyerReceive)
  /\ WF_vars(PushCmd)

FairSpec == Spec /\ Fairness

-----------------------------------------------------------------------------
(* Properties. *)

Drained == wire = <<>> /\ out.q = <<>> /\ flags.q = <<>>

\* The last flags byte in the frame sequence s is v.
LastIs(s, v) ==
  \E i \in 1..Len(s) : /\ s[i].valid /\ s[i].flags = v
                       /\ \A j \in (i+1)..Len(s) : ~s[j].valid
NoFlagsIn(s) == \A i \in 1..Len(s) : ~s[i].valid

\* The frames on their way to the keyer.
Line == wire \o out.q

\* The PTT bits of the flags byte are what the registered producers hold
\* together (push_ptt): nothing is kept for a producer that was removed or for
\* an earlier connection.
HeldTogether == wflag = UNION {mask[p] : p \in list}

\* The PTT state the router believes the keyer has is the one it will end up
\* with: the newest flags byte still queued, muxed or on the wire carries
\* wflag, and without one the keyer has it already.  Holds as long as the flags
\* channel took the last byte of push_ptt on this connection.
PttSync ==
  conn /\ pushed = "taken" =>
    IF flags.q # <<>>
    THEN flags.q[Len(flags.q)] = wflag
    ELSE LastIs(Line, wflag) \/ (NoFlagsIn(Line) /\ keyerPtt = wflag)

\* Once everything queued has reached the keyer, a radio is keyed only if a
\* registered producer keys it.
KeyedByHolder ==
  conn /\ pushed = "taken" /\ Drained =>
    \A r \in keyerPtt : \E p \in list : r \in mask[p]

\* A producer that has bytes, may be read and is not being watched.
Stopped(p) ==
  conn /\ p \in list /\ Readable(p) /\ producer_may_read(p) /\ p \notin io

\* No lost wakeup: whatever stopped a producer has an event pending that starts
\* it again: a write to the keyer, a bucket that refills, or a command of
\* mhcontrol that will cause a write.  Only a control buffer filled up with
\* commands no keyer took breaks that chain.
NoLostWakeup ==
  \A p \in Producer : Stopped(p) =>
     \/ wout /\ NeedToWrite(out.q, flags.q, queue)
     \/ lbTimer[ChanOf[p]] /\ lbAvail[ChanOf[p]] < Full
     \/ cmds > 0
     \/ ~ControlTaken

\* A stopped producer is watched again, or it may no longer be read, again
\* except behind an exhausted control buffer.
StoppedResumes ==
  \A p \in Producer : Stopped(p) ~> ~Stopped(p) \/ ~ControlTaken

\* PTT the keyer should release or assert reaches it, unless the state changes
\* again, the byte was refused or the keyer is lost.
PttReachesKeyer ==
  \A v \in SUBSET Radio :
    (conn /\ pushed = "taken" /\ wflag = v) ~> (~conn \/ pushed # "taken" \/ wflag # v \/ keyerPtt = v)

=============================================================================
