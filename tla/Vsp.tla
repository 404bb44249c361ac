-------------------------------- MODULE Vsp --------------------------------
(***************************************************************************)
(* A virtual serial port (src/src/con_vsp.c): a CUSE device served by      *)
(* mhuxd. One application holds it at a time. Its requests come in through *)
(* the CUSE channel, data and PTT bytes go to the router and come from it  *)
(* through socket pairs.                                                   *)
(*                                                                         *)
(* Every action is one CUSE request, one libev callback, or a call of the  *)
(* connector manager. Requests that change nothing (EBUSY, EINVAL, EAGAIN, *)
(* ioctls that only read) are no steps.                                    *)
(***************************************************************************)
EXTENDS Integers, Sequences, FiniteSets, SequencesExt

CONSTANTS
  Cap,         \* BUFFER_CAPACITY
  MaxRx,       \* bound on the bytes the router sends to a session
  MaxTx,       \* bound on the bytes the application writes in a session
  Vmins,       \* values of VMIN that applications set
  Lines,       \* modem output lines the application sets, RTS and DTR
  PttLines,    \* those of them that key PTT: rts_is_ptt, dtr_is_ptt
  DataIsPtt,   \* fd_data = fd_ptt, the connector of a PTT channel
  OnBytes,     \* which of the bytes written are PTT_ON_BYTE
  OffBytes     \* and which are PTT_OFF_BYTE

ASSUME VspAssumption ==
  /\ {Cap, MaxRx, MaxTx} \subseteq Nat \ {0} /\ Vmins \subseteq Nat
  /\ PttLines \subseteq Lines
  /\ DataIsPtt \in BOOLEAN
  /\ OnBytes \subseteq Nat /\ OffBytes \subseteq Nat
  /\ OnBytes \cap OffBytes = {}

VARIABLES
  state,       \* io state of the connector, "none" when there is none
  vs,          \* the session, or NoSession
  vmin, vtime, \* of the termios; VTIME only as set or not
  mbits,       \* modem output lines that are asserted
  w_data_out,  \* the watcher for writing to the router runs
  keyed,       \* external: the last PTT byte the router was given is "on"
  offLost,     \* history: the PTT off of the last session's end was not taken
  waiting,     \* external: blocking calls, "read" or "write", of threads of the
               \* application that wait for the reply
  got, heard,  \* history: last byte read by the application, given to the router
  nrx, ntx     \* bytes handed over so far by the router, by the application

vspVars == <<state, vs, vmin, vtime, mbits, w_data_out, keyed, offLost,
             waiting, got, heard, nrx, ntx>>

----------------------------------------------------------------------------
(* Buffers: space comes back only when everything has been consumed.       *)

EmptyBuf == [rpos |-> 0, data |-> <<>>]

buf_size_avail(b) == Cap - b.rpos - Len(b.data)

Least(m, n) == IF m <= n THEN m ELSE n

FirstN(s, n) == SubSeq(s, 1, n)
AfterN(s, n) == SubSeq(s, n + 1, Len(s))

buf_append(b, s) ==
  [b EXCEPT !.data = @ \o FirstN(s, Least(Len(s), buf_size_avail(b)))]

buf_consume(b, n) ==
  IF n = Len(b.data) THEN EmptyBuf
  ELSE [rpos |-> b.rpos + n, data |-> AfterN(b.data, n)]

\* The last byte of s, or before when there is none.
LastOf(s, before) == IF s = <<>> THEN before ELSE s[Len(s)]

Run(from, n) == [i \in 1..n |-> from + i]

----------------------------------------------------------------------------
(* The session. ph is NoPoll or, for a poll handle the kernel holds, the   *)
(* set of events the poll that brought it was told. A held read collects   *)
(* into data until there are want bytes; rest is what a held write still   *)
(* has to put into the buffer.                                             *)

NoPoll == {"none"}
NoRead == [size |-> 0, want |-> 0, data |-> <<>>, timed |-> FALSE]
NoWrite == [rest |-> <<>>]

NewSession(readable) ==
  [open |-> TRUE, readable |-> readable, ph |-> NoPoll, timer |-> FALSE,
   out |-> EmptyBuf, in |-> EmptyBuf, rd |-> NoRead, wr |-> NoWrite,
   ptt |-> FALSE]

NoSession == [NewSession(FALSE) EXCEPT !.open = FALSE]

Reading == vs.rd.size > 0
Writing == vs.wr.rest # <<>>

\* The calls whose requests are held.
Held == (IF Reading THEN {"read"} ELSE {}) \cup (IF Writing THEN {"write"} ELSE {})

\* reply_pending_read: the session after it.
Collected(s) == [s EXCEPT !.rd = NoRead, !.timer = FALSE]

Init ==
  /\ state = "open" /\ vs = NoSession
  /\ vmin = 1 /\ vtime = FALSE
  /\ mbits = {} /\ w_data_out = FALSE
  /\ keyed = FALSE /\ offLost = FALSE
  /\ waiting = {} /\ got = 0 /\ heard = 0 /\ nrx = 0 /\ ntx = 0

NoHistory == got' = 0 /\ heard' = 0 /\ nrx' = 0 /\ ntx' = 0

\* A PTT byte is offered to the router, which takes it or not.
PttWrite(on, taken) ==
  /\ keyed' = IF taken THEN on ELSE keyed
  /\ offLost' = IF taken THEN FALSE ELSE offLost

----------------------------------------------------------------------------
(* Requests of the application.                                            *)

dv_open(readable) ==
  /\ state = "open" /\ ~vs.open
  /\ vs' = NewSession(readable)
  /\ NoHistory
  /\ UNCHANGED <<state, vmin, vtime, mbits, w_data_out, keyed, offLost, waiting>>

SessionEnd_keyed(taken) ==
  /\ UNCHANGED <<keyed, offLost>>
  /\ waiting' = waiting \ Held
  /\ vs' = NoSession
  /\ mbits' = {}
  /\ NoHistory

SessionEnd_silent(taken) ==
  /\ IF vs.ptt
     THEN keyed' = (keyed /\ ~taken) /\ offLost' = ~taken
     ELSE UNCHANGED <<keyed, offLost>>
  /\ UNCHANGED waiting
  /\ vs' = NoSession
  /\ mbits' = {}
  /\ NoHistory

\* The end of a session: PTT off if it has been keyed, held requests answered.
SessionEnd(taken) ==
  /\ IF vs.ptt
     THEN /\ keyed' = (keyed /\ ~taken)
          /\ offLost' = ~taken
     ELSE UNCHANGED <<keyed, offLost>>
  /\ waiting' = waiting \ Held
  /\ vs' = NoSession
  /\ mbits' = {}
  /\ NoHistory

\* The kernel releases the file when no request is under way on it.
dv_release(taken) ==
  /\ state = "open" /\ vs.open /\ waiting = {}
  /\ SessionEnd(taken)
  /\ UNCHANGED <<state, vmin, vtime, w_data_out>>

\* How many bytes have to be there before a read is answered.
Want(size, nonblock) ==
  Least(size, IF nonblock THEN 1
              ELSE IF vmin = 0 THEN (IF vtime THEN 1 ELSE 0) ELSE vmin)

\* The timer of a read that is held: with VMIN it starts with the first byte.
ArmsTimer(avail) == (vmin = 0 \/ avail > 0) /\ vtime

HoldRead_kept(size, want) ==
  /\ vs' = [vs EXCEPT
       !.rd = [size |-> size, want |-> want, data |-> vs.out.data,
               timed |-> vmin = 0 /\ vtime],
       !.timer = ArmsTimer(Len(vs.out.data))]
  /\ waiting' = waiting \cup {"read"}
  /\ UNCHANGED got

HoldRead(size, want) ==
  /\ vs' = [vs EXCEPT
       !.rd = [size |-> size, want |-> want, data |-> vs.out.data,
               timed |-> vmin = 0 /\ vtime],
       !.out = EmptyBuf,
       !.timer = ArmsTimer(Len(vs.out.data))]
  /\ waiting' = waiting \cup {"read"}
  /\ UNCHANGED got

dv_read(size, nonblock) ==
  LET want == Want(size, nonblock)
      avail == Len(vs.out.data)
      n == Least(size, avail)
  IN
  /\ state = "open" /\ vs.open /\ vs.readable
  /\ ~Reading
  /\ \/ /\ avail >= want
        /\ vs' = [vs EXCEPT !.out = buf_consume(@, n)]
        /\ got' = LastOf(FirstN(vs.out.data, n), got)
        /\ UNCHANGED waiting
     \/ /\ avail < want /\ ~nonblock
        /\ HoldRead(size, want)
  /\ UNCHANGED <<state, vmin, vtime, mbits, w_data_out, keyed, offLost, heard,
                 nrx, ntx>>

\* A write that does not fit is held, the part that fits is buffered at once.
dv_write(size, nonblock) ==
  LET avail == buf_size_avail(vs.in)
      held == ~nonblock /\ size > avail
      n == IF held THEN size ELSE Least(size, avail)
      bytes == Run(ntx, n)
  IN
  /\ state = "open" /\ vs.open
  /\ ~Writing
  /\ nonblock => avail > 0
  /\ ntx + size <= MaxTx
  /\ vs' = [vs EXCEPT
       !.in = buf_append(@, bytes),
       !.wr = IF held THEN [rest |-> AfterN(bytes, avail)] ELSE @]
  /\ waiting' = IF held THEN waiting \cup {"write"} ELSE waiting
  /\ w_data_out' = TRUE
  /\ ntx' = ntx + n
  /\ UNCHANGED <<state, vmin, vtime, mbits, keyed, offLost, got, heard, nrx>>

\* interrupt_func answers the held read and the held write, whichever of them
\* the signal was for.
Interrupt ==
  /\ state = "open" /\ waiting # {}
  /\ waiting' = waiting \ Held
  /\ vs' = [vs EXCEPT !.rd = NoRead, !.wr = NoWrite,
                      !.timer = IF Reading THEN FALSE ELSE @]
  /\ UNCHANGED <<state, vmin, vtime, mbits, w_data_out, keyed, offLost, got,
                 heard, nrx, ntx>>

PollEvents ==
  (IF vs.out.data # <<>> THEN {"in"} ELSE {})
    \cup (IF buf_size_avail(vs.in) > 0 THEN {"out"} ELSE {})

dv_poll ==
  /\ state = "open" /\ vs.open
  /\ vs' = [vs EXCEPT !.ph = PollEvents]
  /\ UNCHANGED <<state, vmin, vtime, mbits, w_data_out, keyed, offLost, waiting,
                 got, heard, nrx, ntx>>

\* TCSETS, TCSETSW and TCSETSF. The first round of the ioctl, which only tells
\* the kernel what to copy, flushes already: a step that sets what is set.
SetTermios(flush, min, time) ==
  /\ state = "open" /\ vs.open
  /\ vs' = [vs EXCEPT !.out = IF flush THEN EmptyBuf ELSE @]
  /\ vmin' = min /\ vtime' = time
  /\ UNCHANGED <<state, mbits, w_data_out, keyed, offLost, waiting, got, heard,
                 nrx, ntx>>

\* TIOCMSET, TIOCMBIS and TIOCMBIC: bits are the lines asserted afterwards.
set_bits(bits, taken) ==
  /\ state = "open" /\ vs.open
  /\ mbits' = bits
  /\ IF PttLines = {}
     THEN UNCHANGED <<vs, keyed, offLost>>
     ELSE LET on == bits \cap PttLines # {} IN
          /\ PttWrite(on, taken)
          /\ vs' = [vs EXCEPT !.ptt = IF taken THEN on ELSE @]
  /\ UNCHANGED <<state, vmin, vtime, w_data_out, waiting, got, heard, nrx, ntx>>

Flush_asleep(bufs) ==
  /\ state = "open" /\ vs.open
  /\ vs' = [vs EXCEPT !.in = IF "in" \in bufs THEN EmptyBuf ELSE @,
                      !.out = IF "out" \in bufs THEN EmptyBuf ELSE @]
  /\ UNCHANGED <<state, vmin, vtime, mbits, w_data_out, keyed, offLost, waiting,
                 got, heard, nrx, ntx>>

\* TCFLSH of the buffers named; a client that polls for space is woken up.
Flush(bufs) ==
  LET in == IF "in" \in bufs THEN EmptyBuf ELSE vs.in IN
  /\ state = "open" /\ vs.open
  /\ vs' = [vs EXCEPT
       !.in = in,
       !.out = IF "out" \in bufs THEN EmptyBuf ELSE @,
       !.ph = IF buf_size_avail(vs.in) = 0 /\ buf_size_avail(in) > 0
              THEN NoPoll ELSE @]
  /\ UNCHANGED <<state, vmin, vtime, mbits, w_data_out, keyed, offLost, waiting,
                 got, heard, nrx, ntx>>

----------------------------------------------------------------------------
(* Event loop callbacks.                                                   *)

\* size bytes come from the router: into the buffer as far as there is room,
\* from there into a held read.
data_in_cb(size) ==
  LET b == buf_append(vs.out, Run(nrx, size))
      quanta == Least(Len(b.data), vs.rd.size - Len(vs.rd.data))
      data == vs.rd.data \o FirstN(b.data, quanta)
      done == Len(data) >= vs.rd.want \/ Len(data) = vs.rd.size
  IN
  /\ state = "open" /\ vs.open /\ vs.readable
  /\ nrx + size <= MaxRx
  /\ nrx' = nrx + size
  /\ IF ~Reading
     THEN vs' = [vs EXCEPT !.out = b, !.ph = NoPoll] /\ UNCHANGED <<got, waiting>>
     ELSE IF done
     THEN /\ vs' = [Collected(vs) EXCEPT !.out = buf_consume(b, quanta), !.ph = NoPoll]
          /\ got' = LastOf(data, got)
          /\ waiting' = waiting \ {"read"}
     ELSE /\ vs' = [vs EXCEPT !.out = buf_consume(b, quanta), !.rd.data = data,
                              !.timer = IF quanta > 0 /\ vtime THEN TRUE ELSE @,
                              !.ph = NoPoll]
          /\ UNCHANGED <<got, waiting>>
  /\ UNCHANGED <<state, vmin, vtime, mbits, w_data_out, keyed, offLost, heard, ntx>>

\* What the PTT bytes among those written say, last one first.
PttAfter(bytes, old) ==
  LET ptt == {i \in DOMAIN bytes : bytes[i] \in OnBytes \cup OffBytes} IN
  IF ~DataIsPtt \/ ptt = {} THEN old
  ELSE bytes[CHOOSE i \in ptt : \A j \in ptt : j <= i] \in OnBytes

\* A held write goes on when there is room.
Refill(b) == IF Writing THEN buf_append(b, vs.wr.rest) ELSE b

NeedToWrite_once(in) == FALSE

\* Whether the watcher for writing goes on.
NeedToWrite(in) == in.data # <<>>

\* The router takes size bytes of the buffer. When that empties it, a held write
\* continues; a client that polls for space is woken up.
data_out_cb(size) ==
  LET sent == FirstN(vs.in.data, size)
      b == buf_consume(vs.in, size)
      in == Refill(b)
      rest == AfterN(vs.wr.rest, Len(in.data) - Len(b.data))
  IN
  /\ state = "open" /\ w_data_out
  /\ size <= Len(vs.in.data)
  /\ heard' = LastOf(sent, heard)
  /\ vs' = [vs EXCEPT
       !.in = in,
       !.wr = IF ~Writing \/ rest = <<>> THEN NoWrite ELSE [@ EXCEPT !.rest = rest],
       !.ph = IF buf_size_avail(in) > 0 THEN NoPoll ELSE @,
       !.ptt = PttAfter(sent, @)]
  /\ waiting' = IF Writing /\ rest = <<>> THEN waiting \ {"write"} ELSE waiting
  /\ keyed' = PttAfter(sent, keyed)
  /\ offLost' = (offLost /\ PttAfter(sent, TRUE) # PttAfter(sent, FALSE))
  /\ w_data_out' = NeedToWrite(in)
  /\ UNCHANGED <<state, vmin, vtime, mbits, got, nrx, ntx>>

\* Nothing to write, the watcher stops.
data_out_idle ==
  /\ state = "open" /\ w_data_out
  /\ vs.in.data = <<>>
  /\ w_data_out' = FALSE
  /\ UNCHANGED <<state, vs, vmin, vtime, mbits, keyed, offLost, waiting, got,
                 heard, nrx, ntx>>

\* VTIME has passed: a held read is answered with what it has.
read_timer_cb ==
  /\ state = "open" /\ vs.open /\ vs.timer
  /\ IF Reading
     THEN /\ vs' = Collected(vs)
          /\ got' = LastOf(vs.rd.data, got)
          /\ waiting' = waiting \ {"read"}
     ELSE vs' = [vs EXCEPT !.timer = FALSE] /\ UNCHANGED <<got, waiting>>
  /\ UNCHANGED <<state, vmin, vtime, mbits, w_data_out, keyed, offLost, heard,
                 nrx, ntx>>

\* A connector that cannot go on ends its session and waits to be destroyed.
fail(taken) ==
  /\ state = "open"
  /\ state' = "failed"
  /\ w_data_out' = FALSE
  /\ SessionEnd(taken)
  /\ UNCHANGED <<vmin, vtime>>

\* The kernel ends the CUSE session, reading from it fails, or a router socket
\* fails or is closed.
ChannelFails(taken) == fail(taken)

vsp_destroy(taken) ==
  /\ state \in {"open", "failed"}
  /\ state' = "none"
  /\ w_data_out' = FALSE
  /\ SessionEnd(taken)
  /\ UNCHANGED <<vmin, vtime>>

\* The connector is configured again, with new sockets to the router.
vsp_create ==
  /\ state = "none"
  /\ state' = "open"
  /\ vmin' = 1 /\ vtime' = FALSE
  /\ mbits' = {} /\ keyed' = FALSE /\ offLost' = FALSE
  /\ UNCHANGED <<vs, w_data_out, waiting, got, heard, nrx, ntx>>

----------------------------------------------------------------------------
Next ==
  \/ \E readable \in BOOLEAN : dv_open(readable)
  \/ \E taken \in BOOLEAN : dv_release(taken)
  \/ \E size \in 1..MaxRx, nonblock \in BOOLEAN : dv_read(size, nonblock)
  \/ \E size \in 1..MaxTx, nonblock \in BOOLEAN : dv_write(size, nonblock)
  \/ Interrupt
  \/ dv_poll
  \/ \E flush, time \in BOOLEAN, min \in Vmins :
       SetTermios(flush, min, time)
  \/ \E bits \in SUBSET Lines, taken \in BOOLEAN : set_bits(bits, taken)
  \/ \E bufs \in (SUBSET {"in", "out"}) \ {{}} : Flush(bufs)
  \/ \E size \in 1..MaxRx : data_in_cb(size)
  \/ \E size \in 1..Cap : data_out_cb(size)
  \/ data_out_idle
  \/ read_timer_cb
  \/ \E taken \in BOOLEAN : ChannelFails(taken)
  \/ \E taken \in BOOLEAN : vsp_destroy(taken)
  \/ vsp_create

Spec == Init /\ [][Next]_vspVars

\* libev runs timers, and calls data_out_cb as long as the socket takes data,
\* which it does in the end because the router keeps reading.
FairSpec ==
  /\ Spec
  /\ WF_vspVars(read_timer_cb)
  /\ WF_vspVars(\E size \in 1..Cap : data_out_cb(size))

----------------------------------------------------------------------------
(* Properties.                                                             *)

Buffer == [rpos : 0..Cap, data : Seq(Nat)]

Session ==
  [open : BOOLEAN, readable : BOOLEAN, ph : SUBSET {"none", "in", "out"},
   timer : BOOLEAN, out : Buffer, in : Buffer,
   rd : [size : Nat, want : Nat, data : Seq(Nat),
         timed : BOOLEAN],
   wr : [rest : Seq(Nat)], ptt : BOOLEAN]

\* Types, and no buffer ever holds more than its capacity.
TypeOK ==
  /\ state \in {"open", "failed", "none"}
  /\ vs \in Session
  /\ buf_size_avail(vs.out) >= 0 /\ buf_size_avail(vs.in) >= 0
  /\ vmin \in Vmins \cup {1} /\ vtime \in BOOLEAN
  /\ mbits \subseteq Lines
  /\ {w_data_out, keyed, offLost} \subseteq BOOLEAN
  /\ waiting \subseteq {"read", "write"}
  /\ got \in 0..MaxRx /\ heard \in 0..MaxTx /\ nrx \in 0..MaxRx /\ ntx \in 0..MaxTx

\* A thread waits only for a reply that a held request still owes it: closing,
\* failing, interrupting and destroying leave nobody behind.
NobodyForgotten == waiting = Held

\* A poll handle the kernel holds stands for events that have not come yet: a
\* client told "not readable" or "not writable" is woken up when that changes.
NoLostPoll ==
  vs.ph # NoPoll =>
    /\ vs.out.data # <<>> => "in" \in vs.ph
    /\ buf_size_avail(vs.in) > 0 => "out" \in vs.ph

\* What the router was last told about PTT is what the session keyed; without a
\* session PTT is off, unless the router did not take the byte that says so.
PttReleased == ~offLost => keyed = (vs.open /\ vs.ptt)

\* A held write whose buffer has been emptied: data_out_cb passes over it.
Stranded == Writing /\ vs.in.data = <<>>

\* A held write is answered in the end, unless it has been stranded.
BlockedWriteAnswered == Writing ~> (~Writing \/ Stranded)

\* The port is one queue per direction.
Port == INSTANCE SerialPort WITH
  open <- vs.open,
  rx <- vs.rd.data \o vs.out.data,
  tx <- vs.in.data \o vs.wr.rest

\* The port with its buffers, held requests and poll handles implements
\* SerialPort: in order, nothing twice, and nothing lost but by overrun, flush,
\* interrupt and close.
Implements == Port!PortSpec
=============================================================================
