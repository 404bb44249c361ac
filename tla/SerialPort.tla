----------------------------- MODULE SerialPort -----------------------------
(***************************************************************************)
(* What a virtual serial port promises to the application that holds it,   *)
(* whatever its buffers and held requests look like: one queue for each    *)
(* direction, in order and without duplicates. Bytes get lost at the end   *)
(* of what arrives (overrun), when the application asks for it (flush),    *)
(* when a signal interrupts a blocked call, and when the port is closed;   *)
(* nowhere else.                                                           *)
(*                                                                         *)
(* Bytes are numbered in the order in which the router, or the             *)
(* application, hands them over.                                           *)
(***************************************************************************)
EXTENDS Integers, Sequences, SequencesExt

VARIABLES
  open,        \* an application holds the port
  rx, tx,      \* bytes on their way to the application, to the router
  got, heard,  \* last byte the application has read, the router has been given
  nrx, ntx     \* bytes the router, the application has handed over

portVars == <<open, rx, tx, got, heard, nrx, ntx>>

\* The n bytes that follow byte number from.
Run(from, n) == [i \in 1..n |-> from + i]

\* The first k bytes of queue leave it; last is then the last of them.
Deliver(queue, k, rest, last, before) ==
  /\ rest = SubSeq(queue, k + 1, Len(queue))
  /\ last = IF k = 0 THEN before ELSE queue[k]

PortInit ==
  /\ open = FALSE
  /\ rx = <<>> /\ tx = <<>> /\ got = 0 /\ heard = 0
  /\ nrx = 0 /\ ntx = 0

Empty ==
  /\ rx' = <<>> /\ tx' = <<>> /\ got' = 0 /\ heard' = 0
  /\ nrx' = 0 /\ ntx' = 0

PortOpen == ~open /\ open' = TRUE /\ Empty

PortClose == open /\ open' = FALSE /\ Empty

\* Bytes arrive, are read, or both; what does not fit is cut off at the end.
Receive ==
  /\ open
  /\ nrx' >= nrx
  /\ \E n \in 0..(nrx' - nrx) : \E k \in 0..(Len(rx) + n) :
       Deliver(rx \o Run(nrx, n), k, rx', got', got)
  /\ UNCHANGED <<open, tx, heard, ntx>>

\* Bytes are written, passed on to the router, or both.
Transmit ==
  /\ open
  /\ ntx' >= ntx
  /\ LET queue == tx \o Run(ntx, ntx' - ntx) IN
     \E k \in 0..Len(queue) : Deliver(queue, k, tx', heard', heard)
  /\ UNCHANGED <<open, rx, got, nrx>>

\* The application discards what waits in a buffer. The part of a blocked write
\* that is in no buffer yet stays.
Discard ==
  /\ open
  /\ rx' \in {rx, <<>>}
  /\ IsSuffix(tx', tx)
  /\ UNCHANGED <<open, got, heard, nrx, ntx>>

\* A signal ends the blocked calls: a read loses what it had collected, a write
\* what had not been buffered.
Interrupted ==
  /\ open
  /\ rx' \in {rx, <<>>}
  /\ IsPrefix(tx', tx)
  /\ UNCHANGED <<open, got, heard, nrx, ntx>>

PortNext ==
  PortOpen \/ PortClose \/ Receive \/ Transmit \/ Discard \/ Interrupted

PortSpec == PortInit /\ [][PortNext]_portVars
=============================================================================
