----------------------------- MODULE Connector -----------------------------
(* The connector manager (conmgr.c), the TCP connector (con_tcp.c) and the    *)
(* router's list of endpoints: who owns which descriptor while connectors are *)
(* created, fail and are deleted, and how the bytes of a TCP client get to    *)
(* the router. All of them serve one PTT channel. Of a virtual serial port     *)
(* there is what the router and the manager see of it, the rest is in Vsp.    *)
EXTENDS Naturals, Sequences, FiniteSets

CONSTANTS
  Con,       \* connectors, the ids they are configured with
  Vsps,      \* those that are virtual serial ports, the others are TCP
  Client,    \* TCP connections, numbered
  None,      \* no file, no tag
  MaxFd,     \* descriptors are 1 .. MaxFd
  BufCap,    \* BUFFER_CAPACITY
  SockCap,   \* bytes a socket pair holds
  NetCap,    \* bytes the network holds for a client
  MaxOff     \* how often the keyer goes away

Tcps == Con \ Vsps
Fd == 1 .. MaxFd
Byte == {"on", "off"}

FileRec == [of : Con, peer : 0..MaxFd, in : Seq(Byte), hup : BOOLEAN]

ASSUME ConstAssumption ==
  /\ Vsps \subseteq Con /\ Client \subseteq Nat
  /\ None \notin Con /\ None \notin FileRec
  /\ {MaxFd, BufCap, SockCap, NetCap, MaxOff} \subseteq Nat

VARIABLES
  sys,       \* [file, prod, cons]: open files, the router's producers, consumers
  ctr,       \* connector structures
  sess,      \* sessions of TCP clients
  keyer,     \* the router has a keyer and reads its producers
  offs,      \* how often the keyer went away
  offLost    \* connectors whose PTT off was not taken by the full socket

vars == <<sys, ctr, sess, keyer, offs, offLost>>

----------------------------------------------------------------------------
(* Descriptors. A file knows the descriptor of the other end of its pair and  *)
(* what has arrived and is not read.                                          *)

FreeFds(file) == {f \in Fd : file[f] = None}

\* The kernel hands out the lowest number that is free: the k-th of them.
NthFree(file, k) ==
  CHOOSE f \in FreeFds(file) : Cardinality({g \in FreeFds(file) : g < f}) = k - 1

File(owner, peer) == [of |-> owner, peer |-> peer, in |-> <<>>, hup |-> FALSE]

socketpair(file, owner, f, g) ==
  [file EXCEPT ![f] = File(owner, g), ![g] = File(owner, f)]

fd_close(file, f) ==
  IF f = 0 \/ file[f] = None THEN file
  ELSE LET p == file[f].peer IN
       [h \in Fd |-> IF h = f THEN None
                     ELSE IF h = p THEN [file[h] EXCEPT !.hup = TRUE, !.peer = 0]
                     ELSE file[h]]

Room(file, f) == SockCap - Len(file[file[f].peer].in)

\* io_write_nonblock of bytes to descriptor f, as many as the socket takes.
Put(file, f, bytes) ==
  [file EXCEPT ![file[f].peer].in = @ \o bytes]

----------------------------------------------------------------------------
(* The router's endpoints.                                                    *)

mhr_add_endpoint_fd(s, f, tag) ==
  [s EXCEPT !.cons = @ \cup {[fd |-> f, tag |-> tag]},
            !.prod = @ \cup {[fd |-> f, tag |-> tag, held |-> FALSE]}]

At(list, f) == {e \in list : e.fd = f}

\* Each closes the descriptor if the other list does not have it. What the
\* producer held is released with it.
mhr_rem_producer(s, f) ==
  IF At(s.prod, f) = {} THEN s
  ELSE [s EXCEPT !.prod = @ \ At(@, f),
                 !.file = IF At(s.cons, f) = {} THEN fd_close(@, f) ELSE @]

mhr_rem_consumer_open(s, f) == [s EXCEPT !.cons = @ \ At(@, f)]

mhr_rem_consumer(s, f) ==
  IF At(s.cons, f) = {} THEN s
  ELSE [s EXCEPT !.cons = @ \ At(@, f),
                 !.file = IF At(s.prod, f) = {} THEN fd_close(@, f) ELSE @]

mhr_rem_endpoint_fd(s, f) == mhr_rem_consumer(mhr_rem_producer(s, f), f)

\* mhr_get_producer_tag
TagAt(s, f) ==
  IF At(s.prod, f) = {} THEN None
  ELSE (CHOOSE p \in At(s.prod, f) : TRUE).tag

rem_router_endpoint_any(s, c, f) == mhr_rem_endpoint_fd(s, f)

rem_router_endpoint(s, c, f) ==
  IF TagAt(s, f) # c THEN s ELSE mhr_rem_endpoint_fd(s, f)

----------------------------------------------------------------------------
(* Connectors.                                                                *)

NoCtr == [live |-> FALSE, failed |-> FALSE, data |-> 0, cdata |-> 0,
          keyed |-> FALSE, wout |-> FALSE]

Sessions(c) == {cl \in DOMAIN sess : sess[cl].con = c}

\* A client of the connector has PTT on, as far as the connector knows.
Keyed(c) == ctr[c].keyed \/ \E cl \in Sessions(c) : sess[cl].ptt

Init ==
  /\ sys = [file |-> [f \in Fd |-> None], prod |-> {}, cons |-> {}]
  /\ ctr = [c \in Con |-> NoCtr]
  /\ sess = <<>>
  /\ keyer = TRUE
  /\ offs = 0
  /\ offLost = {}

\* Creating the instance can fail, and everything is taken back at once. The
\* second pair of sockets, for a port of another channel whose lines switch PTT,
\* is treated as the first one everywhere and left out.
conmgr_create_con_cfg(c) ==
  LET f == NthFree(sys.file, 1)
      g == NthFree(sys.file, 2)
  IN
  /\ ~ctr[c].live
  /\ Cardinality(FreeFds(sys.file)) >= 2
  /\ sys' = mhr_add_endpoint_fd(
              [sys EXCEPT !.file = socketpair(@, c, f, g)], f, c)
  /\ ctr' = [ctr EXCEPT ![c] = [NoCtr EXCEPT !.live = TRUE, !.data = f, !.cdata = g]]
  /\ UNCHANGED <<sess, keyer, offs, offLost>>

SendOff_never(file, c) == file

\* PTT off for clients that keyed, before the sockets close.
SendOff(file, c) ==
  IF ~Keyed(c) \/ Room(file, ctr[c].cdata) = 0 THEN file
  ELSE Put(file, ctr[c].cdata, <<"off">>)

OffRefused(file, c) == Keyed(c) /\ Room(file, ctr[c].cdata) = 0

\* rem_session for every session of the connector.
CloseSessions(file, c) ==
  LET fds == {sess[cl].fd : cl \in Sessions(c)} IN
  [f \in Fd |-> IF f \in fds THEN None ELSE file[f]]

\* ctcp_destroy and vsp_destroy. A port that failed has closed its ends.
DestroyInstance(c) ==
  IF ctr[c].failed THEN sys
  ELSE [sys EXCEPT !.file = fd_close(CloseSessions(SendOff(@, c), c), ctr[c].cdata)]

conmgr_destroy_con(c) ==
  /\ ctr[c].live
  /\ sys' = rem_router_endpoint(DestroyInstance(c), c, ctr[c].data)
  /\ ctr' = [ctr EXCEPT ![c] = NoCtr]
  /\ sess' = [cl \in DOMAIN sess \ Sessions(c) |-> sess[cl]]
  /\ offLost' = offLost \ {c}
  /\ UNCHANGED <<keyer, offs>>

\* A virtual serial port fails: fail() of con_vsp.c, then con_failed().
con_failed(c) ==
  /\ ctr[c].live /\ ~ctr[c].failed
  /\ sys' = [sys EXCEPT !.file = fd_close(SendOff(@, c), ctr[c].cdata)]
  /\ offLost' = IF OffRefused(sys.file, c) THEN offLost \cup {c} ELSE offLost
  /\ ctr' = [ctr EXCEPT ![c].failed = TRUE, ![c].keyed = FALSE, ![c].cdata = 0]
  /\ UNCHANGED <<sess, keyer, offs>>

\* An application of the port switches PTT, the socket has taken the byte.
VspPtt(c, on) ==
  /\ ctr[c].live /\ ~ctr[c].failed
  /\ Room(sys.file, ctr[c].cdata) > 0
  /\ sys' = [sys EXCEPT !.file =
               Put(@, ctr[c].cdata, <<IF on THEN "on" ELSE "off">>)]
  /\ ctr' = [ctr EXCEPT ![c].keyed = on]
  /\ offLost' = offLost \ {c}
  /\ UNCHANGED <<sess, keyer, offs>>

\* The application closes the port.
dv_release(c) ==
  /\ ctr[c].keyed
  /\ sys' = [sys EXCEPT !.file = SendOff(@, c)]
  /\ offLost' = IF OffRefused(sys.file, c) THEN offLost \cup {c} ELSE offLost
  /\ ctr' = [ctr EXCEPT ![c].keyed = FALSE]
  /\ UNCHANGED <<sess, keyer, offs>>

----------------------------------------------------------------------------
(* The router reads its producers.                                           *)

Offline(p) == [p EXCEPT !.held = FALSE]

KeyerOff ==
  /\ keyer /\ offs < MaxOff
  /\ keyer' = FALSE
  /\ offs' = offs + 1
  /\ sys' = [sys EXCEPT !.prod = {Offline(p) : p \in @}]
  /\ UNCHANGED <<ctr, sess, offLost>>

KeyerOn ==
  /\ ~keyer
  /\ keyer' = TRUE
  /\ UNCHANGED <<sys, ctr, sess, offs, offLost>>

LastOf(bytes, held) == IF bytes = <<>> THEN held ELSE bytes[Len(bytes)] = "on"

\* Data, or the end of it: the connector has closed its end.
producer_cb(p) ==
  LET in == sys.file[p.fd].in IN
  /\ keyer
  /\ \/ /\ in # <<>>
        /\ sys' = [sys EXCEPT
             !.file[p.fd].in = <<>>,
             !.prod = (@ \ {p}) \cup {[p EXCEPT !.held = LastOf(in, @)]}]
     \/ /\ in = <<>> /\ sys.file[p.fd].hup
        /\ sys' = mhr_rem_producer(mhr_rem_consumer(sys, p.fd), p.fd)
  /\ UNCHANGED <<ctr, sess, keyer, offs, offLost>>

\* Data for a connector that has closed its end: the write fails.
consumer_cb(e) ==
  /\ sys.file[e.fd].hup
  /\ sys' = mhr_rem_consumer(mhr_rem_producer(sys, e.fd), e.fd)
  /\ UNCHANGED <<ctr, sess, keyer, offs, offLost>>

----------------------------------------------------------------------------
(* TCP clients and their sessions.                                           *)

Say(cl, b) ==
  LET f == sess[cl].fd IN
  /\ ~sys.file[f].hup /\ Len(sys.file[f].in) < NetCap
  /\ sys' = [sys EXCEPT !.file[f].in = Append(@, b)]
  /\ UNCHANGED <<ctr, sess, keyer, offs, offLost>>

\* The client closes the connection, or it breaks and what is unread is lost.
Leave(cl, broken) ==
  LET f == sess[cl].fd IN
  /\ ~sys.file[f].hup
  /\ sys' = [sys EXCEPT !.file[f] =
               [@ EXCEPT !.hup = TRUE, !.in = IF broken THEN <<>> ELSE sys.file[f].in]]
  /\ UNCHANGED <<ctr, sess, keyer, offs, offLost>>

NewSession(c, f) ==
  [con |-> c, fd |-> f, ptt |-> FALSE, data |-> <<>>, size |-> 0]

\* One application per port: while it is in use a connection is closed again.
lsnr_cb(c) ==
  LET f == NthFree(sys.file, 1)
      new == Client \ DOMAIN sess
      cl == CHOOSE k \in new : \A j \in new : k <= j
  IN
  /\ ctr[c].live /\ FreeFds(sys.file) # {} /\ new # {}
  /\ Sessions(c) = {}
  /\ sys' = [sys EXCEPT !.file[f] = File(c, 0)]
  /\ sess' = [k \in DOMAIN sess \cup {cl} |->
                IF k = cl THEN NewSession(c, f) ELSE sess[k]]
  /\ UNCHANGED <<ctr, keyer, offs, offLost>>

rem_session(cl) ==
  LET s == sess[cl]
      c == s.con
  IN
  /\ sys' = [sys EXCEPT !.file = fd_close(
               IF s.ptt THEN SendOff(@, c) ELSE @, s.fd)]
  /\ offLost' = IF ~s.ptt THEN offLost
                ELSE IF OffRefused(sys.file, c) THEN offLost \cup {c}
                ELSE offLost \ {c}
  /\ sess' = [k \in DOMAIN sess \ {cl} |-> sess[k]]
  /\ UNCHANGED <<ctr, keyer, offs>>

\* buf_in is not a ring: its space comes back when everything has been written.
\* A read into a full buffer reads nothing and is taken for the end.
client_in_cb(cl) ==
  LET s == sess[cl]
      f == sys.file[s.fd]
      n == IF Len(f.in) < BufCap - s.size THEN Len(f.in) ELSE BufCap - s.size
  IN
  /\ f.in # <<>> \/ f.hup
  /\ IF n = 0 THEN rem_session(cl)
     ELSE /\ sys' = [sys EXCEPT !.file[s.fd].in = SubSeq(@, n + 1, Len(@))]
          /\ sess' = [sess EXCEPT ![cl].data = @ \o SubSeq(f.in, 1, n),
                                  ![cl].size = @ + n]
          /\ ctr' = [ctr EXCEPT ![s.con].wout = TRUE]
          /\ UNCHANGED <<keyer, offs, offLost>>

\* What is left of a session's buffer after n bytes of it have been written.
buf_consume(s, n) ==
  IF n = Len(s.data) THEN [s EXCEPT !.data = <<>>, !.size = 0]
  ELSE [s EXCEPT !.data = SubSeq(@, n + 1, Len(@))]

\* Every session's buffer is written as far as the socket takes it.
data_out_cb(c) ==
  LET ss == {cl \in Sessions(c) : sess[cl].data # <<>>}
      room == Room(sys.file, ctr[c].cdata)
  IN
  /\ ctr[c].live /\ ctr[c].wout
  /\ \/ /\ ss = {}
        /\ ctr' = [ctr EXCEPT ![c].wout = FALSE]
        /\ UNCHANGED <<sys, sess, offLost>>
     \/ \E cl \in ss :
        LET s == sess[cl]
            n == IF Len(s.data) < room THEN Len(s.data) ELSE room
            out == SubSeq(s.data, 1, n)
        IN
        /\ n > 0
        /\ sys' = [sys EXCEPT !.file = Put(@, ctr[c].cdata, out)]
        /\ sess' = [sess EXCEPT ![cl] =
                      [buf_consume(s, n) EXCEPT !.ptt = LastOf(out, s.ptt)]]
        /\ ctr' = [ctr EXCEPT ![c].wout = n < Len(s.data) \/ ss # {cl}]
        /\ offLost' = offLost \ {c}
  /\ UNCHANGED <<keyer, offs>>

----------------------------------------------------------------------------
Router == (\E p \in sys.prod : producer_cb(p)) \/ (\E e \in sys.cons : consumer_cb(e))

Manager ==
  \E c \in Con : conmgr_create_con_cfg(c) \/ conmgr_destroy_con(c)

Ports ==
  \E c \in Vsps :
    con_failed(c) \/ dv_release(c) \/ \E on \in BOOLEAN : VspPtt(c, on)

Clients ==
  \/ \E cl \in DOMAIN sess, b \in Byte : Say(cl, b)
  \/ \E cl \in DOMAIN sess, broken \in BOOLEAN : Leave(cl, broken)

Tcp ==
  \/ \E c \in Tcps : lsnr_cb(c)
  \/ \E cl \in DOMAIN sess : client_in_cb(cl)
  \/ \E c \in Tcps : data_out_cb(c)

Next == Manager \/ Ports \/ Router \/ KeyerOff \/ KeyerOn \/ Clients \/ Tcp

Spec == Init /\ [][Next]_vars

----------------------------------------------------------------------------
(* Properties.                                                               *)

TypeOK ==
  /\ sys \in [file : [Fd -> FileRec \cup {None}],
              prod : SUBSET [fd : Fd, tag : Con, held : BOOLEAN],
              cons : SUBSET [fd : Fd, tag : Con]]
  /\ ctr \in [Con -> [live : BOOLEAN, failed : BOOLEAN, data : 0..MaxFd, cdata : 0..MaxFd,
                      keyed : BOOLEAN, wout : BOOLEAN]]
  /\ DOMAIN sess \subseteq Client
  /\ sess \in [DOMAIN sess -> [con : Con, fd : Fd, ptt : BOOLEAN, data : Seq(Byte), size : 0..BufCap]]
  /\ keyer \in BOOLEAN /\ offs \in 0..MaxOff /\ offLost \subseteq Con

\* Deleting a connector takes only its own endpoints from the router, also when
\* the router has closed them before and their numbers are in use again: a
\* connector that works is registered as producer and consumer, on a socket
\* that is its own (rem_router_endpoint, mhr_rem_producer).
Served ==
  \A c \in Con : ctr[c].live /\ ~ctr[c].failed =>
    LET f == ctr[c].data IN
    /\ \E p \in sys.prod : p.fd = f /\ p.tag = c
    /\ \E e \in sys.cons : e.fd = f /\ e.tag = c
    /\ sys.file[f] # None
    /\ sys.file[f].of = c /\ ~sys.file[f].hup

\* No descriptor is forgotten and none is closed under its user: every open file
\* is an endpoint of the router, the end of a connector that exists or the
\* socket of a session, and each of these is open. The router's endpoints are
\* those of connectors that exist, whose tag it keeps a pointer to.
NoLeak ==
  LET used == {e.fd : e \in sys.prod} \cup {e.fd : e \in sys.cons}
                \cup {ctr[c].cdata : c \in Con}
                \cup {sess[cl].fd : cl \in DOMAIN sess}
  IN
  /\ used \ {0} = Fd \ FreeFds(sys.file)
  /\ \A e \in sys.prod \cup sys.cons : ctr[e.tag].live

\* The router holds PTT for a connector, or is about to, only while a client of
\* it has keyed. Left out: a PTT off that found the socket to the router full
\* when the client went away, which rem_session and end_sessions only log.
PttReleased ==
  \A p \in sys.prod :
    LastOf(sys.file[p.fd].in, p.held)
      => Keyed(p.tag) \/ p.tag \in offLost

=============================================================================
