-------------------------- MODULE ConnectorProofs --------------------------
(* Proofs about Connector for any number of connectors, descriptors and TCP  *)
(* clients and any sizes of buffers.                                         *)
EXTENDS Connector, SequenceTheorems, FiniteSetTheorems, WellFoundedInduction, TLAPS

----------------------------------------------------------------------------
(* Who owns which descriptor, for files F, producers P, consumers Q,          *)
(* connectors R and sessions S.                                               *)

On(P, f, c) == \E p \in P : p.fd = f /\ p.tag = c

\* A connector that has both its ends.
Works(R, c) == R[c].live /\ ~R[c].failed

\* An endpoint is the open end of a connector that exists.
EndpointsOK(F, P, R) ==
  \A f \in Fd, c \in Con : On(P, f, c) =>
    /\ R[c].live /\ f = R[c].data
    /\ F[f] # None /\ F[f].of = c /\ F[f].peer = R[c].cdata

\* The router's lists go together.
ListsOK(P, Q) == \A f \in Fd, c \in Con : On(P, f, c) <=> On(Q, f, c)

\* A connector that works is an endpoint of the router, connected to its own end.
EndsOK(F, P, R) ==
  \A c \in Con :
    /\ Works(R, c) =>
         /\ R[c].data \in Fd /\ On(P, R[c].data, c) /\ ~F[R[c].data].hup
         /\ R[c].cdata \in Fd /\ R[c].cdata # R[c].data
         /\ F[R[c].cdata] # None /\ F[R[c].cdata].of = c /\ F[R[c].cdata].peer = R[c].data
    /\ ~Works(R, c) => R[c].cdata = 0 /\ ~R[c].keyed
    /\ c \in Tcps => ~R[c].failed /\ ~R[c].keyed

\* A session has a socket of its own, and a TCP connector at most one session.
SessionsOK(F, R, S) ==
  /\ \A k \in DOMAIN S :
       /\ S[k].con \in Tcps /\ R[S[k].con].live
       /\ F[S[k].fd] # None /\ F[S[k].fd].of = S[k].con /\ F[S[k].fd].peer = 0
       /\ S[k].fd # R[S[k].con].data /\ S[k].fd # R[S[k].con].cdata
  /\ \A k, l \in DOMAIN S : S[k].con = S[l].con => k = l

\* An open file is one of these.
RolesOK(F, P, R, S) ==
  \A f \in Fd : F[f] # None =>
    \/ \E c \in Con : On(P, f, c)
    \/ \E c \in Con : R[c].cdata = f
    \/ \E k \in DOMAIN S : S[k].fd = f

Owned(F, P, Q, R, S) ==
  /\ EndpointsOK(F, P, R) /\ ListsOK(P, Q) /\ EndsOK(F, P, R)
  /\ SessionsOK(F, R, S) /\ RolesOK(F, P, R, S)

Files == [Fd -> FileRec \cup {None}]
Producers == SUBSET [fd : Fd, tag : Con, held : BOOLEAN]
Consumers == SUBSET [fd : Fd, tag : Con]
Ctrs == [Con -> [live : BOOLEAN, failed : BOOLEAN, data : 0..MaxFd, cdata : 0..MaxFd,
                 keyed : BOOLEAN, wout : BOOLEAN]]
SessRec == [con : Con, fd : Fd, ptt : BOOLEAN, data : Seq(Byte), size : 0..BufCap]
SessionsOf(S) == DOMAIN S \subseteq Client /\ S \in [DOMAIN S -> SessRec]

SameFile(F, G, f) ==
  /\ F[f] = None <=> G[f] = None
  /\ F[f] # None => G[f].of = F[f].of /\ G[f].peer = F[f].peer

SameCtr(R, T, c) ==
  T[c].live = R[c].live /\ T[c].failed = R[c].failed /\ T[c].data = R[c].data /\ T[c].cdata = R[c].cdata

\* Steps that only move bytes, switch PTT or hang up a session's socket.
LEMMA Unaltered ==
  ASSUME NEW F, NEW P, NEW Q, NEW R, NEW S, Owned(F, P, Q, R, S), SessionsOf(S), R \in Ctrs,
         NEW G, NEW P2, NEW T, NEW S2,
         \A f \in Fd : SameFile(F, G, f),
         \A f \in Fd : F[f] # None => G[f].hup = F[f].hup \/ \E k \in DOMAIN S : S[k].fd = f,
         \A f \in Fd, c \in Con : On(P2, f, c) <=> On(P, f, c),
         \A c \in Con : SameCtr(R, T, c) /\ (T[c].keyed => Works(R, c) /\ c \notin Tcps),
         \A c \in Con : T[c].keyed \in BOOLEAN,
         DOMAIN S2 = DOMAIN S,
         \A k \in DOMAIN S : S2[k].con = S[k].con /\ S2[k].fd = S[k].fd
  PROVE  Owned(G, P2, Q, T, S2)
<1>0. /\ EndpointsOK(F, P, R) /\ ListsOK(P, Q) /\ EndsOK(F, P, R)
      /\ SessionsOK(F, R, S) /\ RolesOK(F, P, R, S)
  BY DEF Owned
<1>t. \A k \in DOMAIN S : S[k].con \in Con /\ S[k].fd \in Fd
  BY DEF SessionsOf, SessRec
<1>1. EndpointsOK(G, P2, T)
  BY <1>0 DEF EndpointsOK, SameFile, SameCtr
<1>2. ListsOK(P2, Q)
  BY <1>0 DEF ListsOK
<1>3. EndsOK(G, P2, T)
  <2> SUFFICES ASSUME NEW c \in Con
               PROVE  /\ Works(T, c) =>
                           /\ T[c].data \in Fd /\ On(P2, T[c].data, c) /\ ~G[T[c].data].hup
                           /\ T[c].cdata \in Fd /\ T[c].cdata # T[c].data
                           /\ G[T[c].cdata] # None /\ G[T[c].cdata].of = c
                           /\ G[T[c].cdata].peer = T[c].data
                      /\ ~Works(T, c) => T[c].cdata = 0 /\ ~T[c].keyed
                      /\ c \in Tcps => ~T[c].failed /\ ~T[c].keyed
    BY DEF EndsOK
  <2>1. SameCtr(R, T, c) /\ (Works(T, c) <=> Works(R, c))
    BY DEF SameCtr, Works
  <2>2. CASE Works(R, c)
    <3> DEFINE d == R[c].data
               e == R[c].cdata
    <3>1. /\ d \in Fd /\ On(P, d, c) /\ ~F[d].hup /\ e \in Fd /\ e # d
          /\ F[e] # None /\ F[e].of = c /\ F[e].peer = d
          /\ c \in Tcps => ~R[c].failed
      BY <1>0, <2>2 DEF EndsOK
    <3>2. F[d] # None /\ F[d].of = c
      BY <1>0, <3>1 DEF EndpointsOK
    <3>3. T[c].data = d /\ T[c].cdata = e /\ T[c].failed = R[c].failed
      BY <2>1 DEF SameCtr
    <3> HIDE DEF d, e
    <3>4. \A k \in DOMAIN S : S[k].fd # d
      <4> SUFFICES ASSUME NEW k \in DOMAIN S, S[k].fd = d PROVE FALSE
        OBVIOUS
      <4>1. F[d].of = S[k].con /\ S[k].fd # R[S[k].con].data
        BY <1>0 DEF SessionsOK
      <4> QED BY <3>2, <4>1 DEF d
    <3>5. G[d].hup = F[d].hup
      BY <3>1, <3>2, <3>4
    <3>6. SameFile(F, G, e)
      BY <3>1
    <3> QED BY <2>1, <2>2, <3>1, <3>3, <3>5, <3>6 DEF SameFile
  <2>3. CASE ~Works(R, c)
    BY <1>0, <2>1, <2>3 DEF EndsOK, SameCtr
  <2> QED BY <2>2, <2>3
<1>4. SessionsOK(G, T, S2)
  <2>1. ASSUME NEW k \in DOMAIN S2
        PROVE  /\ S2[k].con \in Tcps /\ T[S2[k].con].live
               /\ G[S2[k].fd] # None /\ G[S2[k].fd].of = S2[k].con /\ G[S2[k].fd].peer = 0
               /\ S2[k].fd # T[S2[k].con].data /\ S2[k].fd # T[S2[k].con].cdata
    <3>1. /\ S[k].con \in Tcps /\ R[S[k].con].live
          /\ F[S[k].fd] # None /\ F[S[k].fd].of = S[k].con /\ F[S[k].fd].peer = 0
          /\ S[k].fd # R[S[k].con].data /\ S[k].fd # R[S[k].con].cdata
      BY <1>0 DEF SessionsOK
    <3>2. SameFile(F, G, S[k].fd) /\ SameCtr(R, T, S[k].con)
      BY <1>t
    <3> DEFINE x == S[k].fd
               c == S[k].con
    <3>3. S2[k].con = c /\ S2[k].fd = x
      OBVIOUS
    <3>4. SameFile(F, G, x) /\ SameCtr(R, T, c) /\ c \in Tcps /\ R[c].live
          /\ F[x] # None /\ F[x].of = c /\ F[x].peer = 0 /\ x # R[c].data /\ x # R[c].cdata
      BY <3>1, <3>2
    <3> HIDE DEF x, c
    <3>5. /\ T[c].live /\ G[x] # None /\ G[x].of = c /\ G[x].peer = 0
          /\ x # T[c].data /\ x # T[c].cdata
      BY <3>4 DEF SameFile, SameCtr
    <3> QED BY <3>3, <3>4, <3>5
  <2>2. \A k, l \in DOMAIN S2 : S2[k].con = S2[l].con => k = l
    BY <1>0 DEF SessionsOK
  <2> QED BY <2>1, <2>2 DEF SessionsOK
<1>5. RolesOK(G, P2, T, S2)
  <2> SUFFICES ASSUME NEW f \in Fd, G[f] # None
               PROVE  \/ \E c \in Con : On(P2, f, c)
                      \/ \E c \in Con : T[c].cdata = f
                      \/ \E k \in DOMAIN S2 : S2[k].fd = f
    BY DEF RolesOK
  <2>1. F[f] # None
    BY DEF SameFile
  <2>2. \/ \E c \in Con : On(P, f, c)
        \/ \E c \in Con : R[c].cdata = f
        \/ \E k \in DOMAIN S : S[k].fd = f
    BY <1>0, <2>1 DEF RolesOK
  <2> QED BY <2>2 DEF SameCtr
<1> QED BY <1>1, <1>2, <1>3, <1>4, <1>5 DEF Owned

\* A connector is created on two descriptors that were free.
LEMMA Created ==
  ASSUME NEW F, NEW P, NEW Q, NEW R, NEW S, Owned(F, P, Q, R, S), SessionsOf(S), R \in Ctrs,
         NEW c \in Con, ~R[c].live, NEW f \in Fd, NEW g \in Fd, f # g, F[f] = None, F[g] = None,
         NEW G, NEW P2, NEW Q2, NEW T,
         G[f] # None, G[f].of = c, G[f].peer = g, ~G[f].hup,
         G[g] # None, G[g].of = c, G[g].peer = f,
         \A h \in Fd \ {f, g} : G[h] = F[h],
         \A h \in Fd, d \in Con : On(P2, h, d) <=> On(P, h, d) \/ (h = f /\ d = c),
         \A h \in Fd, d \in Con : On(Q2, h, d) <=> On(Q, h, d) \/ (h = f /\ d = c),
         T[c].live, ~T[c].failed, T[c].data = f, T[c].cdata = g, ~T[c].keyed,
         \A d \in Con \ {c} : T[d] = R[d]
  PROVE  Owned(G, P2, Q2, T, S)
<1>0. /\ EndpointsOK(F, P, R) /\ ListsOK(P, Q) /\ EndsOK(F, P, R)
      /\ SessionsOK(F, R, S) /\ RolesOK(F, P, R, S)
  BY DEF Owned
<1>1. \A h \in Fd, d \in Con : On(P, h, d) => h # f /\ h # g /\ d # c
  BY <1>0 DEF EndpointsOK
<1>2. \A k \in DOMAIN S : /\ S[k].con \in Con \ {c} /\ S[k].fd \in Fd \ {f, g}
                         /\ S[k].con \in Tcps
  BY <1>0 DEF SessionsOK, SessionsOf, SessRec
<1>3. EndpointsOK(G, P2, T)
  <2> SUFFICES ASSUME NEW h \in Fd, NEW d \in Con, On(P2, h, d)
               PROVE  /\ T[d].live /\ h = T[d].data
                      /\ G[h] # None /\ G[h].of = d /\ G[h].peer = T[d].cdata
    BY DEF EndpointsOK
  <2>1. CASE On(P, h, d)
    <3>1. d # c /\ h \in Fd \ {f, g}
      BY <1>1, <2>1
    <3>2. T[d] = R[d] /\ G[h] = F[h]
      BY <3>1
    <3> QED BY <1>0, <2>1, <3>2 DEF EndpointsOK
  <2>2. CASE h = f /\ d = c
    BY <2>2
  <2> QED BY <2>1, <2>2
<1>4. ListsOK(P2, Q2)
  BY <1>0 DEF ListsOK
<1>5. EndsOK(G, P2, T)
  <2> SUFFICES ASSUME NEW d \in Con
               PROVE  /\ Works(T, d) =>
                           /\ T[d].data \in Fd /\ On(P2, T[d].data, d) /\ ~G[T[d].data].hup
                           /\ T[d].cdata \in Fd /\ T[d].cdata # T[d].data
                           /\ G[T[d].cdata] # None /\ G[T[d].cdata].of = d
                           /\ G[T[d].cdata].peer = T[d].data
                      /\ ~Works(T, d) => T[d].cdata = 0 /\ ~T[d].keyed
                      /\ d \in Tcps => ~T[d].failed /\ ~T[d].keyed
    BY DEF EndsOK
  <2>1. CASE d = c
    BY <2>1 DEF Works
  <2>2. CASE d # c
    <3>1. T[d] = R[d] /\ (Works(T, d) <=> Works(R, d))
      BY <2>2 DEF Works
    <3>2. CASE Works(R, d)
      <4> DEFINE x == R[d].data
                 y == R[d].cdata
      <4>1. /\ x \in Fd /\ On(P, x, d) /\ ~F[x].hup /\ y \in Fd /\ y # x
            /\ F[y] # None /\ F[y].of = d /\ F[y].peer = x
            /\ d \in Tcps => ~R[d].failed /\ ~R[d].keyed
        BY <1>0, <3>2 DEF EndsOK
      <4> HIDE DEF x, y
      <4>2. x \in Fd \ {f, g} /\ y \in Fd \ {f, g}
        BY <1>1, <4>1
      <4>3. G[x] = F[x] /\ G[y] = F[y]
        BY <4>2
      <4>4. On(P2, x, d)
        BY <4>1
      <4> QED BY <3>1, <3>2, <4>1, <4>3, <4>4 DEF x, y
    <3>3. CASE ~Works(R, d)
      BY <1>0, <3>1, <3>3 DEF EndsOK
    <3> QED BY <3>2, <3>3
  <2> QED BY <2>1, <2>2
<1>6. SessionsOK(G, T, S)
  <2>1. ASSUME NEW k \in DOMAIN S
        PROVE  /\ S[k].con \in Tcps /\ T[S[k].con].live
               /\ G[S[k].fd] # None /\ G[S[k].fd].of = S[k].con /\ G[S[k].fd].peer = 0
               /\ S[k].fd # T[S[k].con].data /\ S[k].fd # T[S[k].con].cdata
    <3>1. T[S[k].con] = R[S[k].con] /\ G[S[k].fd] = F[S[k].fd]
      BY <1>2
    <3> QED BY <1>0, <3>1 DEF SessionsOK
  <2> QED BY <1>0, <2>1 DEF SessionsOK
<1>7. RolesOK(G, P2, T, S)
  <2> SUFFICES ASSUME NEW h \in Fd, G[h] # None
               PROVE  \/ \E d \in Con : On(P2, h, d)
                      \/ \E d \in Con : T[d].cdata = h
                      \/ \E k \in DOMAIN S : S[k].fd = h
    BY DEF RolesOK
  <2>1. CASE h = f \/ h = g
    BY <2>1
  <2>2. CASE h # f /\ h # g
    <3>1. F[h] # None
      BY <2>2
    <3>2. \/ \E d \in Con : On(P, h, d)
          \/ \E d \in Con : R[d].cdata = h
          \/ \E k \in DOMAIN S : S[k].fd = h
      BY <1>0, <3>1 DEF RolesOK
    <3>3. ASSUME NEW d \in Con, R[d].cdata = h PROVE T[d].cdata = h
      <4>1. R[c].cdata = 0
        BY <1>0 DEF EndsOK, Works
      <4>2. d # c
        BY <3>3, <4>1 DEF Fd
      <4> QED BY <3>3, <4>2
    <3> QED BY <3>2, <3>3
  <2> QED BY <2>1, <2>2
<1> QED BY <1>3, <1>4, <1>5, <1>6, <1>7 DEF Owned

\* A port fails and closes its end: the router's end hangs up.
LEMMA EndClosed ==
  ASSUME NEW F, NEW P, NEW Q, NEW R, NEW S, Owned(F, P, Q, R, S), SessionsOf(S), R \in Ctrs,
         NEW c \in Con \ Tcps, Works(R, c), NEW G, NEW T,
         G[R[c].cdata] = None,
         G[R[c].data] # None, G[R[c].data].of = c, G[R[c].data].peer = 0,
         \A h \in Fd \ {R[c].data, R[c].cdata} : G[h] = F[h],
         T[c].live, T[c].failed, T[c].data = R[c].data, T[c].cdata = 0, ~T[c].keyed,
         \A d \in Con \ {c} : T[d] = R[d]
  PROVE  Owned(G, P, Q, T, S)
<1> DEFINE f == R[c].data
           g == R[c].cdata
<1>0. /\ EndpointsOK(F, P, R) /\ ListsOK(P, Q) /\ EndsOK(F, P, R)
      /\ SessionsOK(F, R, S) /\ RolesOK(F, P, R, S)
  BY DEF Owned
<1>1. /\ f \in Fd /\ g \in Fd /\ f # g /\ F[f].of = c /\ F[g].of = c /\ F[f] # None /\ F[g] # None
      /\ On(P, f, c)
  BY <1>0 DEF EndsOK, EndpointsOK
<1>2. /\ G[g] = None /\ G[f] # None /\ G[f].of = c /\ G[f].peer = 0
      /\ \A h \in Fd \ {f, g} : G[h] = F[h]
      /\ T[c].data = f
  OBVIOUS
<1>3. \A h \in Fd, d \in Con : On(P, h, d) => IF d = c THEN h = f ELSE h \in Fd \ {f, g}
  BY <1>0, <1>1 DEF EndpointsOK
<1>4. \A k \in DOMAIN S : S[k].con \in Con \ {c} /\ S[k].fd \in Fd \ {f, g}
  BY <1>0, <1>1 DEF SessionsOK, SessionsOf, SessRec
<1>g. g = R[c].cdata
  OBVIOUS
<1> HIDE DEF f, g
<1>5. EndpointsOK(G, P, T)
  <2> SUFFICES ASSUME NEW h \in Fd, NEW d \in Con, On(P, h, d)
               PROVE  /\ T[d].live /\ h = T[d].data
                      /\ G[h] # None /\ G[h].of = d /\ G[h].peer = T[d].cdata
    BY DEF EndpointsOK
  <2>1. CASE d = c
    BY <1>2, <1>3, <2>1
  <2>2. CASE d # c
    <3>1. T[d] = R[d] /\ G[h] = F[h]
      BY <1>2, <1>3, <2>2
    <3> QED BY <1>0, <3>1 DEF EndpointsOK
  <2> QED BY <2>1, <2>2
<1>6. EndsOK(G, P, T)
  <2> SUFFICES ASSUME NEW d \in Con
               PROVE  /\ Works(T, d) =>
                           /\ T[d].data \in Fd /\ On(P, T[d].data, d) /\ ~G[T[d].data].hup
                           /\ T[d].cdata \in Fd /\ T[d].cdata # T[d].data
                           /\ G[T[d].cdata] # None /\ G[T[d].cdata].of = d
                           /\ G[T[d].cdata].peer = T[d].data
                      /\ ~Works(T, d) => T[d].cdata = 0 /\ ~T[d].keyed
                      /\ d \in Tcps => ~T[d].failed /\ ~T[d].keyed
    BY DEF EndsOK
  <2>1. CASE d = c
    BY <2>1 DEF Works
  <2>2. CASE d # c
    <3>1. T[d] = R[d] /\ (Works(T, d) <=> Works(R, d))
      BY <2>2 DEF Works
    <3>2. CASE Works(R, d)
      <4> DEFINE x == R[d].data
                 y == R[d].cdata
      <4>1. /\ x \in Fd /\ On(P, x, d) /\ ~F[x].hup /\ y \in Fd /\ y # x
            /\ F[y] # None /\ F[y].of = d /\ F[y].peer = x
            /\ d \in Tcps => ~R[d].failed /\ ~R[d].keyed
        BY <1>0, <3>2 DEF EndsOK
      <4> HIDE DEF x, y
      <4>2. x \in Fd \ {f, g} /\ y \in Fd \ {f, g}
        BY <1>1, <1>3, <2>2, <4>1
      <4>3. G[x] = F[x] /\ G[y] = F[y]
        BY <1>2, <4>2
      <4> QED BY <3>1, <3>2, <4>1, <4>3 DEF x, y
    <3>3. CASE ~Works(R, d)
      BY <1>0, <3>1, <3>3 DEF EndsOK
    <3> QED BY <3>2, <3>3
  <2> QED BY <2>1, <2>2
<1>7. SessionsOK(G, T, S)
  <2>1. ASSUME NEW k \in DOMAIN S
        PROVE  /\ S[k].con \in Tcps /\ T[S[k].con].live
               /\ G[S[k].fd] # None /\ G[S[k].fd].of = S[k].con /\ G[S[k].fd].peer = 0
               /\ S[k].fd # T[S[k].con].data /\ S[k].fd # T[S[k].con].cdata
    <3>1. T[S[k].con] = R[S[k].con] /\ G[S[k].fd] = F[S[k].fd]
      BY <1>2, <1>4
    <3> QED BY <1>0, <3>1 DEF SessionsOK
  <2> QED BY <1>0, <2>1 DEF SessionsOK
<1>8. RolesOK(G, P, T, S)
  <2> SUFFICES ASSUME NEW h \in Fd, G[h] # None
               PROVE  \/ \E d \in Con : On(P, h, d)
                      \/ \E d \in Con : T[d].cdata = h
                      \/ \E k \in DOMAIN S : S[k].fd = h
    BY DEF RolesOK
  <2>1. CASE h = f
    BY <1>1, <2>1
  <2>2. CASE h # f
    <3>1. h # g
      BY <1>2
    <3>2. F[h] # None
      BY <1>2, <2>2, <3>1
    <3>3. \/ \E d \in Con : On(P, h, d)
          \/ \E d \in Con : R[d].cdata = h
          \/ \E k \in DOMAIN S : S[k].fd = h
      BY <1>0, <3>2 DEF RolesOK
    <3>4. ASSUME NEW d \in Con, R[d].cdata = h PROVE T[d].cdata = h
      <4>1. d # c
        BY <1>g, <3>1, <3>4
      <4> QED BY <3>4, <4>1
    <3> QED BY <3>3, <3>4
  <2> QED BY <2>1, <2>2
<1> QED BY <1>0, <1>5, <1>6, <1>7, <1>8 DEF Owned

\* The router drops an endpoint whose other end is closed, and closes it.
LEMMA EndpointDropped ==
  ASSUME NEW F, NEW P, NEW Q, NEW R, NEW S, Owned(F, P, Q, R, S), SessionsOf(S), R \in Ctrs,
         NEW c \in Con, NEW f \in Fd, On(P, f, c), ~Works(R, c), NEW G, NEW P2, NEW Q2,
         G[f] = None, \A h \in Fd \ {f} : G[h] = F[h],
         \A h \in Fd, d \in Con : On(P2, h, d) <=> On(P, h, d) /\ h # f,
         \A h \in Fd, d \in Con : On(Q2, h, d) <=> On(Q, h, d) /\ h # f
  PROVE  Owned(G, P2, Q2, R, S)
<1>0. /\ EndpointsOK(F, P, R) /\ ListsOK(P, Q) /\ EndsOK(F, P, R)
      /\ SessionsOK(F, R, S) /\ RolesOK(F, P, R, S)
  BY DEF Owned
<1>1. F[f] # None /\ F[f].of = c /\ R[c].data = f
  BY <1>0 DEF EndpointsOK
<1>2. \A k \in DOMAIN S : S[k].fd \in Fd \ {f}
  BY <1>0, <1>1 DEF SessionsOK, SessionsOf, SessRec
<1>3. EndpointsOK(G, P2, R)
  <2> SUFFICES ASSUME NEW h \in Fd, NEW d \in Con, On(P2, h, d)
               PROVE  /\ R[d].live /\ h = R[d].data
                      /\ G[h] # None /\ G[h].of = d /\ G[h].peer = R[d].cdata
    BY DEF EndpointsOK
  <2>1. On(P, h, d) /\ h \in Fd \ {f}
    OBVIOUS
  <2>2. G[h] = F[h]
    BY <2>1
  <2> QED BY <1>0, <2>1, <2>2 DEF EndpointsOK
<1>4. ListsOK(P2, Q2)
  BY <1>0 DEF ListsOK
<1>5. EndsOK(G, P2, R)
  <2> SUFFICES ASSUME NEW d \in Con
               PROVE  /\ Works(R, d) =>
                           /\ R[d].data \in Fd /\ On(P2, R[d].data, d) /\ ~G[R[d].data].hup
                           /\ R[d].cdata \in Fd /\ R[d].cdata # R[d].data
                           /\ G[R[d].cdata] # None /\ G[R[d].cdata].of = d
                           /\ G[R[d].cdata].peer = R[d].data
                      /\ ~Works(R, d) => R[d].cdata = 0 /\ ~R[d].keyed
                      /\ d \in Tcps => ~R[d].failed /\ ~R[d].keyed
    BY DEF EndsOK
  <2>1. CASE Works(R, d)
    <3> DEFINE x == R[d].data
               y == R[d].cdata
    <3>1. /\ x \in Fd /\ On(P, x, d) /\ ~F[x].hup /\ y \in Fd /\ y # x
          /\ F[y] # None /\ F[y].of = d /\ F[y].peer = x
          /\ d \in Tcps => ~R[d].failed /\ ~R[d].keyed
      BY <1>0, <2>1 DEF EndsOK
    <3>2. F[x].of = d /\ d # c
      BY <1>0, <2>1, <3>1 DEF EndpointsOK
    <3> HIDE DEF x, y
    <3>3. x \in Fd \ {f} /\ y \in Fd \ {f}
      BY <1>1, <3>1, <3>2
    <3>4. G[x] = F[x] /\ G[y] = F[y]
      BY <3>3
    <3>5. On(P2, x, d)
      BY <3>1, <3>3
    <3> QED BY <2>1, <3>1, <3>4, <3>5 DEF x, y
  <2>2. CASE ~Works(R, d)
    BY <1>0, <2>2 DEF EndsOK
  <2> QED BY <2>1, <2>2
<1>6. SessionsOK(G, R, S)
  <2>1. \A k \in DOMAIN S : G[S[k].fd] = F[S[k].fd]
    BY <1>2
  <2> QED BY <1>0, <2>1 DEF SessionsOK
<1>7. RolesOK(G, P2, R, S)
  <2> SUFFICES ASSUME NEW h \in Fd, G[h] # None
               PROVE  \/ \E d \in Con : On(P2, h, d)
                      \/ \E d \in Con : R[d].cdata = h
                      \/ \E k \in DOMAIN S : S[k].fd = h
    BY DEF RolesOK
  <2>1. h # f /\ F[h] # None
    OBVIOUS
  <2> QED BY <1>0, <2>1 DEF RolesOK
<1> QED BY <1>3, <1>4, <1>5, <1>6, <1>7 DEF Owned

\* A connector is deleted: every file of it is closed, no other one is touched.
LEMMA Destroyed ==
  ASSUME NEW F, NEW P, NEW Q, NEW R, NEW S, Owned(F, P, Q, R, S), SessionsOf(S), R \in Ctrs,
         NEW c \in Con, NEW G, NEW P2, NEW Q2, NEW T, NEW S2,
         \A h \in Fd : G[h] = IF F[h] # None /\ F[h].of = c THEN None ELSE F[h],
         \A h \in Fd, d \in Con : On(P2, h, d) <=> On(P, h, d) /\ d # c,
         \A h \in Fd, d \in Con : On(Q2, h, d) <=> On(Q, h, d) /\ d # c,
         ~T[c].live, ~T[c].failed, ~T[c].keyed, T[c].cdata = 0,
         \A d \in Con \ {c} : T[d] = R[d],
         DOMAIN S2 = {k \in DOMAIN S : S[k].con # c},
         \A k \in DOMAIN S2 : S2[k] = S[k]
  PROVE  Owned(G, P2, Q2, T, S2)
<1>0. /\ EndpointsOK(F, P, R) /\ ListsOK(P, Q) /\ EndsOK(F, P, R)
      /\ SessionsOK(F, R, S) /\ RolesOK(F, P, R, S)
  BY DEF Owned
<1>1. EndpointsOK(G, P2, T)
  <2> SUFFICES ASSUME NEW h \in Fd, NEW d \in Con, On(P2, h, d)
               PROVE  /\ T[d].live /\ h = T[d].data
                      /\ G[h] # None /\ G[h].of = d /\ G[h].peer = T[d].cdata
    BY DEF EndpointsOK
  <2>1. On(P, h, d) /\ d # c
    OBVIOUS
  <2>2. /\ R[d].live /\ h = R[d].data
        /\ F[h] # None /\ F[h].of = d /\ F[h].peer = R[d].cdata
    BY <1>0, <2>1 DEF EndpointsOK
  <2>3. T[d] = R[d] /\ G[h] = F[h]
    BY <2>1, <2>2
  <2> QED BY <2>2, <2>3
<1>2. ListsOK(P2, Q2)
  BY <1>0 DEF ListsOK
<1>3. EndsOK(G, P2, T)
  <2> SUFFICES ASSUME NEW d \in Con
               PROVE  /\ Works(T, d) =>
                           /\ T[d].data \in Fd /\ On(P2, T[d].data, d) /\ ~G[T[d].data].hup
                           /\ T[d].cdata \in Fd /\ T[d].cdata # T[d].data
                           /\ G[T[d].cdata] # None /\ G[T[d].cdata].of = d
                           /\ G[T[d].cdata].peer = T[d].data
                      /\ ~Works(T, d) => T[d].cdata = 0 /\ ~T[d].keyed
                      /\ d \in Tcps => ~T[d].failed /\ ~T[d].keyed
    BY DEF EndsOK
  <2>1. CASE d = c
    BY <2>1 DEF Works
  <2>2. CASE d # c
    <3>1. T[d] = R[d] /\ (Works(T, d) <=> Works(R, d))
      BY <2>2 DEF Works
    <3>2. CASE Works(R, d)
      <4> DEFINE x == R[d].data
                 y == R[d].cdata
      <4>1. /\ x \in Fd /\ On(P, x, d) /\ ~F[x].hup /\ y \in Fd /\ y # x
            /\ F[y] # None /\ F[y].of = d /\ F[y].peer = x
            /\ d \in Tcps => ~R[d].failed /\ ~R[d].keyed
        BY <1>0, <3>2 DEF EndsOK
      <4>2. F[x] # None /\ F[x].of = d
        BY <1>0, <4>1 DEF EndpointsOK
      <4> HIDE DEF x, y
      <4>3. G[x] = F[x] /\ G[y] = F[y]
        BY <2>2, <4>1, <4>2
      <4>4. On(P2, x, d)
        BY <2>2, <4>1
      <4> QED BY <3>1, <3>2, <4>1, <4>3, <4>4 DEF x, y
    <3>3. CASE ~Works(R, d)
      BY <1>0, <3>1, <3>3 DEF EndsOK
    <3> QED BY <3>2, <3>3
  <2> QED BY <2>1, <2>2
<1>4. SessionsOK(G, T, S2)
  <2>1. ASSUME NEW k \in DOMAIN S2
        PROVE  /\ S2[k].con \in Tcps /\ T[S2[k].con].live
               /\ G[S2[k].fd] # None /\ G[S2[k].fd].of = S2[k].con /\ G[S2[k].fd].peer = 0
               /\ S2[k].fd # T[S2[k].con].data /\ S2[k].fd # T[S2[k].con].cdata
    <3> DEFINE x == S[k].fd
               d == S[k].con
    <3>1. /\ d \in Tcps /\ R[d].live /\ F[x] # None /\ F[x].of = d /\ F[x].peer = 0
          /\ x # R[d].data /\ x # R[d].cdata
      BY <1>0 DEF SessionsOK
    <3>2. d # c /\ d \in Con /\ x \in Fd /\ S2[k].fd = x /\ S2[k].con = d
      BY DEF SessionsOf, SessRec
    <3> HIDE DEF x, d
    <3>3. T[d] = R[d] /\ G[x] = F[x]
      BY <3>1, <3>2
    <3> QED BY <3>1, <3>2, <3>3
  <2>2. \A k, l \in DOMAIN S2 : S2[k].con = S2[l].con => k = l
    BY <1>0 DEF SessionsOK
  <2> QED BY <2>1, <2>2 DEF SessionsOK
<1>5. RolesOK(G, P2, T, S2)
  <2> SUFFICES ASSUME NEW h \in Fd, G[h] # None
               PROVE  \/ \E d \in Con : On(P2, h, d)
                      \/ \E d \in Con : T[d].cdata = h
                      \/ \E k \in DOMAIN S2 : S2[k].fd = h
    BY DEF RolesOK
  <2>1. F[h] # None /\ F[h].of # c
    OBVIOUS
  <2>2. \/ \E d \in Con : On(P, h, d)
        \/ \E d \in Con : R[d].cdata = h
        \/ \E k \in DOMAIN S : S[k].fd = h
    BY <1>0, <2>1 DEF RolesOK
  <2>3. ASSUME NEW d \in Con, On(P, h, d) PROVE On(P2, h, d)
    BY <1>0, <2>1, <2>3 DEF EndpointsOK
  <2>4. ASSUME NEW d \in Con, R[d].cdata = h PROVE T[d].cdata = h
    <3>1. F[h].of = d
      BY <1>0, <2>4 DEF EndsOK, Fd
    <3> QED BY <2>1, <2>4, <3>1
  <2>5. ASSUME NEW k \in DOMAIN S, S[k].fd = h PROVE k \in DOMAIN S2 /\ S2[k].fd = h
    BY <1>0, <2>1, <2>5 DEF SessionsOK
  <2> QED BY <2>2, <2>3, <2>4, <2>5
<1> QED BY <1>1, <1>2, <1>3, <1>4, <1>5 DEF Owned

\* A TCP connector without a session takes a connection on a free descriptor.
LEMMA SessionAdded ==
  ASSUME NEW F, NEW P, NEW Q, NEW R, NEW S, Owned(F, P, Q, R, S), SessionsOf(S), R \in Ctrs,
         NEW c \in Tcps, R[c].live, \A k \in DOMAIN S : S[k].con # c,
         NEW f \in Fd, F[f] = None, NEW G, NEW S2, NEW new, new \notin DOMAIN S,
         G[f] # None, G[f].of = c, G[f].peer = 0, \A h \in Fd \ {f} : G[h] = F[h],
         DOMAIN S2 = DOMAIN S \cup {new}, S2[new].con = c, S2[new].fd = f,
         \A k \in DOMAIN S : S2[k] = S[k]
  PROVE  Owned(G, P, Q, R, S2)
<1>0. /\ EndpointsOK(F, P, R) /\ ListsOK(P, Q) /\ EndsOK(F, P, R)
      /\ SessionsOK(F, R, S) /\ RolesOK(F, P, R, S)
  BY DEF Owned
<1>1. \A h \in Fd : F[h] # None => G[h] = F[h]
  OBVIOUS
<1>2. EndpointsOK(G, P, R)
  BY <1>0, <1>1 DEF EndpointsOK
<1>3. EndsOK(G, P, R)
  <2> SUFFICES ASSUME NEW d \in Con
               PROVE  /\ Works(R, d) =>
                           /\ R[d].data \in Fd /\ On(P, R[d].data, d) /\ ~G[R[d].data].hup
                           /\ R[d].cdata \in Fd /\ R[d].cdata # R[d].data
                           /\ G[R[d].cdata] # None /\ G[R[d].cdata].of = d
                           /\ G[R[d].cdata].peer = R[d].data
                      /\ ~Works(R, d) => R[d].cdata = 0 /\ ~R[d].keyed
                      /\ d \in Tcps => ~R[d].failed /\ ~R[d].keyed
    BY DEF EndsOK
  <2>1. CASE Works(R, d)
    <3> DEFINE x == R[d].data
               y == R[d].cdata
    <3>1. /\ x \in Fd /\ On(P, x, d) /\ ~F[x].hup /\ y \in Fd /\ y # x
          /\ F[y] # None /\ F[y].of = d /\ F[y].peer = x
          /\ d \in Tcps => ~R[d].failed /\ ~R[d].keyed
      BY <1>0, <2>1 DEF EndsOK
    <3>2. F[x] # None
      BY <1>0, <3>1 DEF EndpointsOK
    <3> HIDE DEF x, y
    <3>3. G[x] = F[x] /\ G[y] = F[y]
      BY <1>1, <3>1, <3>2
    <3> QED BY <2>1, <3>1, <3>3 DEF x, y
  <2>2. CASE ~Works(R, d)
    BY <1>0, <2>2 DEF EndsOK
  <2> QED BY <2>1, <2>2
<1>w. Works(R, c) /\ c \in Con
  BY <1>0 DEF EndsOK, Works, Tcps
<1>d. f # R[c].data /\ f # R[c].cdata
  BY <1>0, <1>w DEF EndsOK, EndpointsOK
<1>4. SessionsOK(G, R, S2)
  <2>1. ASSUME NEW k \in DOMAIN S2
        PROVE  /\ S2[k].con \in Tcps /\ R[S2[k].con].live
               /\ G[S2[k].fd] # None /\ G[S2[k].fd].of = S2[k].con /\ G[S2[k].fd].peer = 0
               /\ S2[k].fd # R[S2[k].con].data /\ S2[k].fd # R[S2[k].con].cdata
    <3>1. CASE k = new
      BY <1>d, <3>1
    <3>2. CASE k \in DOMAIN S
      <4> DEFINE x == S[k].fd
                 d == S[k].con
      <4>1. /\ d \in Tcps /\ R[d].live /\ F[x] # None /\ F[x].of = d /\ F[x].peer = 0
            /\ x # R[d].data /\ x # R[d].cdata
        BY <1>0, <3>2 DEF SessionsOK
      <4>2. x \in Fd /\ S2[k].fd = x /\ S2[k].con = d
        BY <3>2 DEF SessionsOf, SessRec
      <4> HIDE DEF x, d
      <4>3. G[x] = F[x]
        BY <1>1, <4>1, <4>2
      <4> QED BY <4>1, <4>2, <4>3
    <3> QED BY <3>1, <3>2
  <2>2. \A k, l \in DOMAIN S2 : S2[k].con = S2[l].con => k = l
    BY <1>0 DEF SessionsOK
  <2> QED BY <2>1, <2>2 DEF SessionsOK
<1>5. RolesOK(G, P, R, S2)
  <2> SUFFICES ASSUME NEW h \in Fd, G[h] # None
               PROVE  \/ \E d \in Con : On(P, h, d)
                      \/ \E d \in Con : R[d].cdata = h
                      \/ \E k \in DOMAIN S2 : S2[k].fd = h
    BY DEF RolesOK
  <2>1. CASE h = f
    BY <2>1
  <2>2. CASE h # f
    <3>1. F[h] # None
      BY <2>2
    <3> QED BY <1>0, <3>1 DEF RolesOK
  <2> QED BY <2>1, <2>2
<1> QED BY <1>0, <1>2, <1>3, <1>4, <1>5 DEF Owned

\* A session ends and closes its socket.
LEMMA SessionEnded ==
  ASSUME NEW F, NEW P, NEW Q, NEW R, NEW S, Owned(F, P, Q, R, S), SessionsOf(S), R \in Ctrs,
         NEW old \in DOMAIN S, NEW G, NEW S2,
         G[S[old].fd] = None, \A h \in Fd \ {S[old].fd} : G[h] = F[h],
         DOMAIN S2 = DOMAIN S \ {old}, \A k \in DOMAIN S2 : S2[k] = S[k]
  PROVE  Owned(G, P, Q, R, S2)
<1>0. /\ EndpointsOK(F, P, R) /\ ListsOK(P, Q) /\ EndsOK(F, P, R)
      /\ SessionsOK(F, R, S) /\ RolesOK(F, P, R, S)
  BY DEF Owned
<1> DEFINE f == S[old].fd
           c == S[old].con
<1>1. /\ f \in Fd /\ c \in Tcps /\ R[c].live /\ F[f].of = c
      /\ f # R[c].data /\ f # R[c].cdata
  BY <1>0 DEF SessionsOK, SessionsOf, SessRec
<1>2. G[f] = None /\ \A h \in Fd \ {f} : G[h] = F[h]
  OBVIOUS
<1>k. \A k \in DOMAIN S2 : S[k].fd # f /\ S[k].fd \in Fd /\ S2[k] = S[k] /\ k \in DOMAIN S
  BY <1>0, <1>1 DEF SessionsOK, SessionsOf, SessRec
<1>f. \A k \in DOMAIN S : k \in DOMAIN S2 \/ S[k].fd = f
  OBVIOUS
<1> HIDE DEF f, c
<1>3. EndpointsOK(G, P, R)
  <2> SUFFICES ASSUME NEW h \in Fd, NEW d \in Con, On(P, h, d)
               PROVE  /\ R[d].live /\ h = R[d].data
                      /\ G[h] # None /\ G[h].of = d /\ G[h].peer = R[d].cdata
    BY DEF EndpointsOK
  <2>1. /\ R[d].live /\ h = R[d].data
        /\ F[h] # None /\ F[h].of = d /\ F[h].peer = R[d].cdata
    BY <1>0 DEF EndpointsOK
  <2>2. h # f
    BY <1>1, <2>1
  <2>3. G[h] = F[h]
    BY <1>2, <2>2
  <2> QED BY <2>1, <2>3
<1>4. EndsOK(G, P, R)
  <2> SUFFICES ASSUME NEW d \in Con
               PROVE  /\ Works(R, d) =>
                           /\ R[d].data \in Fd /\ On(P, R[d].data, d) /\ ~G[R[d].data].hup
                           /\ R[d].cdata \in Fd /\ R[d].cdata # R[d].data
                           /\ G[R[d].cdata] # None /\ G[R[d].cdata].of = d
                           /\ G[R[d].cdata].peer = R[d].data
                      /\ ~Works(R, d) => R[d].cdata = 0 /\ ~R[d].keyed
                      /\ d \in Tcps => ~R[d].failed /\ ~R[d].keyed
    BY DEF EndsOK
  <2>1. CASE Works(R, d)
    <3> DEFINE x == R[d].data
               y == R[d].cdata
    <3>1. /\ x \in Fd /\ On(P, x, d) /\ ~F[x].hup /\ y \in Fd /\ y # x
          /\ F[y] # None /\ F[y].of = d /\ F[y].peer = x
          /\ d \in Tcps => ~R[d].failed /\ ~R[d].keyed
      BY <1>0, <2>1 DEF EndsOK
    <3>2. F[x] # None /\ F[x].of = d
      BY <1>0, <3>1 DEF EndpointsOK
    <3>3. x # f /\ y # f
      BY <1>1, <3>1, <3>2
    <3> HIDE DEF x, y
    <3>4. G[x] = F[x] /\ G[y] = F[y]
      BY <1>2, <3>1, <3>3
    <3> QED BY <2>1, <3>1, <3>4 DEF x, y
  <2>2. CASE ~Works(R, d)
    BY <1>0, <2>2 DEF EndsOK
  <2> QED BY <2>1, <2>2
<1>5. SessionsOK(G, R, S2)
  <2>1. \A k \in DOMAIN S2 : G[S[k].fd] = F[S[k].fd]
    BY <1>2, <1>k
  <2>2. ASSUME NEW k \in DOMAIN S2
        PROVE  /\ S2[k].con \in Tcps /\ R[S2[k].con].live
               /\ G[S2[k].fd] # None /\ G[S2[k].fd].of = S2[k].con /\ G[S2[k].fd].peer = 0
               /\ S2[k].fd # R[S2[k].con].data /\ S2[k].fd # R[S2[k].con].cdata
    <3>1. S2[k] = S[k] /\ k \in DOMAIN S
      BY <1>k
    <3> QED BY <1>0, <2>1, <3>1 DEF SessionsOK
  <2>3. \A k, l \in DOMAIN S2 : S2[k].con = S2[l].con => k = l
    BY <1>0 DEF SessionsOK
  <2> QED BY <2>2, <2>3 DEF SessionsOK
<1>6. RolesOK(G, P, R, S2)
  <2> SUFFICES ASSUME NEW h \in Fd, G[h] # None
               PROVE  \/ \E d \in Con : On(P, h, d)
                      \/ \E d \in Con : R[d].cdata = h
                      \/ \E k \in DOMAIN S2 : S2[k].fd = h
    BY DEF RolesOK
  <2>1. h # f
    BY <1>2
  <2>2. F[h] # None
    BY <1>2, <2>1
  <2>3. \/ \E d \in Con : On(P, h, d)
        \/ \E d \in Con : R[d].cdata = h
        \/ \E k \in DOMAIN S : S[k].fd = h
    BY <1>0, <2>2 DEF RolesOK
  <2>4. ASSUME NEW k \in DOMAIN S, S[k].fd = h PROVE k \in DOMAIN S2 /\ S2[k].fd = h
    BY <1>f, <1>k, <2>1, <2>4
  <2> QED BY <2>3, <2>4
<1> QED BY <1>0, <1>3, <1>4, <1>5, <1>6 DEF Owned

----------------------------------------------------------------------------
(* What the operators on descriptors and on the router's lists do.            *)

LEMMA LessThan ==
  \A a, b \in Nat : a < b => <<a, b>> \in OpToRel(<, Nat)
BY Zenon DEF OpToRel

LEMMA MinExists ==
  ASSUME NEW T, T \subseteq Nat, T # {}
  PROVE  \E t \in T : \A y \in T : t <= y
<1> DEFINE R == OpToRel(<, Nat)
<1>1. \A a, b \in Nat : a < b => <<a, b>> \in R
  BY LessThan
<1>2. IsWellFoundedOn(R, Nat)
  BY NatLessThanWellFounded
<1> HIDE DEF R
<1>3. PICK t \in T : \A y \in T : ~(<<y, t>> \in R)
  BY <1>2, WFMin
<1>4. \A y \in T : ~(y < t)
  BY <1>1, <1>3
<1> QED BY <1>4

LEMMA FdType == ConstAssumption => Fd \subseteq Nat \ {0} /\ IsFiniteSet(Fd) /\ 0..MaxFd = {0} \cup Fd
<1> SUFFICES ASSUME ConstAssumption PROVE Fd \subseteq Nat \ {0} /\ IsFiniteSet(Fd) /\ 0..MaxFd = {0} \cup Fd
  OBVIOUS
<1>1. MaxFd \in Nat
  BY DEF ConstAssumption
<1>2. Fd \subseteq Nat \ {0} /\ 0..MaxFd = {0} \cup Fd
  BY <1>1 DEF Fd
<1>3. IsFiniteSet(1..MaxFd)
  BY <1>1, FS_Interval, 1 \in Int, MaxFd \in Int
<1> QED BY <1>2, <1>3 DEF Fd

\* The lowest descriptor that is free.
LEMMA FirstFree ==
  ASSUME ConstAssumption, NEW F, FreeFds(F) # {}
  PROVE  /\ NthFree(F, 1) \in FreeFds(F)
         /\ Cardinality({g \in FreeFds(F) : g < NthFree(F, 1)}) = 0
<1>1. FreeFds(F) \subseteq Nat
  BY FdType DEF FreeFds
<1>2. PICK t \in FreeFds(F) : \A y \in FreeFds(F) : t <= y
  BY <1>1, MinExists
<1>3. {g \in FreeFds(F) : g < t} = {}
  BY <1>1, <1>2
<1>4. Cardinality({g \in FreeFds(F) : g < t}) = 1 - 1
  BY <1>3, FS_EmptySet
<1>5. /\ NthFree(F, 1) \in FreeFds(F)
      /\ Cardinality({g \in FreeFds(F) : g < NthFree(F, 1)}) = 1 - 1
  BY <1>4 DEF NthFree
<1> QED BY <1>5

\* The second one is another one.
LEMMA SecondFree ==
  ASSUME ConstAssumption, NEW F, Cardinality(FreeFds(F)) >= 2
  PROVE  /\ NthFree(F, 1) \in FreeFds(F) /\ NthFree(F, 2) \in FreeFds(F)
         /\ NthFree(F, 1) # NthFree(F, 2)
<1> DEFINE U == FreeFds(F)
<1>1. U \subseteq Nat /\ U \subseteq Fd /\ IsFiniteSet(Fd)
  BY FdType DEF FreeFds
<1>2. IsFiniteSet(U) /\ Cardinality(U) \in Nat
  BY <1>1, FS_Subset, FS_CardinalityType
<1>3. U # {} /\ \A x : U # {x}
  BY <1>2, FS_EmptySet, FS_Singleton
<1>4. NthFree(F, 1) \in U /\ Cardinality({g \in U : g < NthFree(F, 1)}) = 0
  BY <1>3, FirstFree
<1>5. PICK t \in U : \A y \in U : t <= y
  BY <1>1, <1>3, MinExists
<1>6. PICK u \in U \ {t} : \A y \in U \ {t} : u <= y
  <2>1. U \ {t} # {} /\ U \ {t} \subseteq Nat
    BY <1>1, <1>3
  <2> QED BY <2>1, MinExists
<1>7. {g \in U : g < u} = {t}
  BY <1>1, <1>5, <1>6
<1>8. Cardinality({g \in U : g < u}) = 2 - 1
  BY <1>7, FS_Singleton
<1>9. NthFree(F, 2) \in U /\ Cardinality({g \in U : g < NthFree(F, 2)}) = 2 - 1
  BY <1>6, <1>8 DEF NthFree
<1> QED BY <1>4, <1>9

LEMMA NoneIsNoFile ==
  ConstAssumption => None \notin FileRec
BY DEF ConstAssumption

\* A descriptor is closed: the other end hangs up.
LEMMA FdClose ==
  ASSUME ConstAssumption, NEW F \in Files, NEW f \in Fd, F[f] # None,
         F[f].peer \in Fd => F[f].peer # f /\ F[F[f].peer] # None
  PROVE  /\ fd_close(F, f) \in Files
         /\ fd_close(F, f)[f] = None
         /\ \A h \in Fd \ {f} : h # F[f].peer => fd_close(F, f)[h] = F[h]
         /\ \A h \in Fd : h = F[f].peer =>
              /\ fd_close(F, f)[h] # None /\ fd_close(F, f)[h].of = F[h].of
              /\ fd_close(F, f)[h].peer = 0 /\ fd_close(F, f)[h].in = F[h].in
<1> DEFINE p == F[f].peer
           G == [h \in Fd |-> IF h = f THEN None
                              ELSE IF h = p THEN [F[h] EXCEPT !.hup = TRUE, !.peer = 0]
                              ELSE F[h]]
<1>1. fd_close(F, f) = G
  <2>1. f # 0
    BY FdType
  <2> QED BY <2>1 DEF fd_close
<1>2. \A h \in Fd : h = p => /\ h # f /\ F[h] \in FileRec
                            /\ [F[h] EXCEPT !.hup = TRUE, !.peer = 0] \in FileRec
                            /\ [F[h] EXCEPT !.hup = TRUE, !.peer = 0].of = F[h].of
                            /\ [F[h] EXCEPT !.hup = TRUE, !.peer = 0].peer = 0
                            /\ [F[h] EXCEPT !.hup = TRUE, !.peer = 0].in = F[h].in
  <2> SUFFICES ASSUME NEW h \in Fd, h = p
               PROVE  /\ h # f /\ F[h] \in FileRec
                      /\ [F[h] EXCEPT !.hup = TRUE, !.peer = 0] \in FileRec
                      /\ [F[h] EXCEPT !.hup = TRUE, !.peer = 0].of = F[h].of
                      /\ [F[h] EXCEPT !.hup = TRUE, !.peer = 0].peer = 0
                      /\ [F[h] EXCEPT !.hup = TRUE, !.peer = 0].in = F[h].in
    OBVIOUS
  <2>1. h # f /\ F[h] \in FileRec
    BY DEF Files
  <2>2. 0 \in 0..MaxFd
    BY FdType
  <2> DEFINE x == F[h]
  <2> HIDE DEF x
  <2>3. ASSUME x \in FileRec
        PROVE  /\ [x EXCEPT !.hup = TRUE, !.peer = 0] \in FileRec
               /\ [x EXCEPT !.hup = TRUE, !.peer = 0].of = x.of
               /\ [x EXCEPT !.hup = TRUE, !.peer = 0].peer = 0
               /\ [x EXCEPT !.hup = TRUE, !.peer = 0].in = x.in
    BY <2>2, <2>3 DEF FileRec
  <2> QED BY <2>1, <2>3 DEF x
<1>3. \A h \in Fd : F[h] \in FileRec \cup {None}
  BY DEF Files
<1>4. DOMAIN G = Fd /\ \A h \in Fd : G[h] = IF h = f THEN None
                              ELSE IF h = p THEN [F[h] EXCEPT !.hup = TRUE, !.peer = 0]
                              ELSE F[h]
  OBVIOUS
<1>5. G \in Files
  BY <1>2, <1>3 DEF Files
<1> HIDE DEF G, p
<1>6. G[f] = None /\ \A h \in Fd \ {f} : h # p => G[h] = F[h]
  BY <1>4
<1>7. ASSUME NEW h \in Fd, h = p
      PROVE  G[h] # None /\ G[h].of = F[h].of /\ G[h].peer = 0 /\ G[h].in = F[h].in
  <2>1. h # f
    BY <1>2, <1>7
  <2>2. G[h] = [F[h] EXCEPT !.hup = TRUE, !.peer = 0]
    BY <1>4, <1>7, <2>1
  <2> QED BY <1>2, <1>7, <2>2, NoneIsNoFile
<1> QED BY <1>1, <1>5, <1>6, <1>7 DEF p

\* Bytes are written to the other end of a pair.
LEMMA PutBytes ==
  ASSUME ConstAssumption, NEW F \in Files, NEW g \in Fd, NEW f \in Fd,
         F[g].peer = f, F[f] # None, NEW bytes \in Seq(Byte)
  PROVE  /\ Put(F, g, bytes) \in Files
         /\ \A h \in Fd \ {f} : Put(F, g, bytes)[h] = F[h]
         /\ Put(F, g, bytes)[f] # None
         /\ Put(F, g, bytes)[f].of = F[f].of /\ Put(F, g, bytes)[f].peer = F[f].peer
         /\ Put(F, g, bytes)[f].hup = F[f].hup
         /\ Put(F, g, bytes)[f].in = F[f].in \o bytes
<1> DEFINE x == F[f]
           y == [x EXCEPT !.in = @ \o bytes]
<1>1. Put(F, g, bytes) = [F EXCEPT ![f] = y]
  BY DEF Put
<1>2. x \in FileRec
  BY DEF Files
<1>3. x.in \o bytes \in Seq(Byte)
  BY <1>2, ConcatProperties DEF FileRec
<1> HIDE DEF x
<1>4. /\ y \in FileRec /\ y.of = x.of /\ y.peer = x.peer /\ y.hup = x.hup /\ y.in = x.in \o bytes
  BY <1>2, <1>3 DEF FileRec
<1> HIDE DEF y
<1>5. /\ [F EXCEPT ![f] = y] \in Files /\ [F EXCEPT ![f] = y][f] = y
      /\ \A h \in Fd \ {f} : [F EXCEPT ![f] = y][h] = F[h]
  BY <1>4 DEF Files
<1> QED BY <1>1, <1>4, <1>5, NoneIsNoFile DEF x

\* The last of more bytes decides.
LEMMA LastOfMore ==
  ASSUME NEW a \in Seq(Byte), NEW b \in Seq(Byte), b # <<>>, NEW h, NEW i
  PROVE  LastOf(a \o b, h) = LastOf(b, i)
<1>1. Len(a) \in Nat /\ Len(b) \in Nat \ {0}
  BY EmptySeq, LenProperties
<1>2. /\ Len(a \o b) = Len(a) + Len(b)
      /\ \A k \in 1 .. Len(a) + Len(b) : (a \o b)[k] = IF k <= Len(a) THEN a[k] ELSE b[k - Len(a)]
      /\ a \o b # <<>>
  BY <1>1, ConcatProperties, EmptySeq
<1>3. (a \o b)[Len(a) + Len(b)] = b[Len(b)]
  BY <1>1, <1>2
<1> QED BY <1>2, <1>3 DEF LastOf

SysRec == [file : Files, prod : Producers, cons : Consumers]

\* An endpoint that is in both lists leaves both and is closed.
LEMMA BothRemoved ==
  ASSUME NEW s \in SysRec, NEW f \in Fd, At(s.prod, f) # {}, At(s.cons, f) # {},
         NEW t, t = mhr_rem_consumer(mhr_rem_producer(s, f), f)
                \/ t = mhr_rem_producer(mhr_rem_consumer(s, f), f)
  PROVE  t = [file |-> fd_close(s.file, f), prod |-> s.prod \ At(s.prod, f),
              cons |-> s.cons \ At(s.cons, f)]
<1>1. s = [file |-> s.file, prod |-> s.prod, cons |-> s.cons]
  BY DEF SysRec
<1> DEFINE P == s.prod
           Q == s.cons
           F == s.file
<1>2. s = [file |-> F, prod |-> P, cons |-> Q] /\ At(P, f) # {} /\ At(Q, f) # {}
  BY <1>1
<1>3. At(P \ At(P, f), f) = {} /\ At(Q \ At(Q, f), f) = {}
  BY DEF At
<1> HIDE DEF P, Q, F
<1>4. mhr_rem_producer(s, f) = [file |-> F, prod |-> P \ At(P, f), cons |-> Q]
  BY <1>2 DEF mhr_rem_producer
<1>5. mhr_rem_consumer(s, f) = [file |-> F, prod |-> P, cons |-> Q \ At(Q, f)]
  BY <1>2 DEF mhr_rem_consumer
<1> DEFINE s1 == [file |-> F, prod |-> P \ At(P, f), cons |-> Q]
           s2 == [file |-> F, prod |-> P, cons |-> Q \ At(Q, f)]
           r == [file |-> fd_close(F, f), prod |-> P \ At(P, f), cons |-> Q \ At(Q, f)]
<1>6. mhr_rem_consumer(s1, f) = r
  BY <1>2, <1>3 DEF mhr_rem_consumer
<1>7. mhr_rem_producer(s2, f) = r
  BY <1>2, <1>3 DEF mhr_rem_producer
<1> QED BY <1>4, <1>5, <1>6, <1>7 DEF P, Q, F

\* The others stay.
LEMMA OthersStay ==
  ASSUME NEW P, NEW f
  PROVE  \A h \in Fd, d \in Con : On(P \ At(P, f), h, d) <=> On(P, h, d) /\ h # f
BY DEF On, At

----------------------------------------------------------------------------
(* The inductive invariant.                                                  *)

\* The router has a descriptor once in its list of producers.
Once(P) == \A p, q \in P : p.fd = q.fd => p = q

\* Keyed and PttReleased, for any files, producers, connectors and sessions.
KeyedIn(R, S, c) == R[c].keyed \/ \E k \in DOMAIN S : S[k].con = c /\ S[k].ptt

PttOK(F, P, R, S, L) ==
  \A p \in P : LastOf(F[p.fd].in, p.held) => KeyedIn(R, S, p.tag) \/ p.tag \in L

ConInv ==
  /\ TypeOK
  /\ Owned(sys.file, sys.prod, sys.cons, ctr, sess)
  /\ Once(sys.prod)
  /\ PttOK(sys.file, sys.prod, ctr, sess, offLost)

LEMMA KeyedIs == \A c : Keyed(c) <=> KeyedIn(ctr, sess, c)
BY DEF Keyed, KeyedIn, Sessions

LEMMA Parts ==
  ASSUME TypeOK
  PROVE  /\ sys \in SysRec /\ sys.file \in Files /\ sys.prod \in Producers /\ sys.cons \in Consumers
         /\ ctr \in Ctrs /\ SessionsOf(sess)
         /\ \A p \in sys.prod : p.fd \in Fd /\ p.tag \in Con /\ p.held \in BOOLEAN
         /\ \A e \in sys.cons : e.fd \in Fd /\ e.tag \in Con
         /\ \A k \in DOMAIN sess : sess[k] \in SessRec
BY DEF TypeOK, SysRec, Files, Producers, Consumers, Ctrs, SessionsOf, SessRec

\* The ends of a connector that works.
LEMMA EndsOf ==
  ASSUME ConInv, NEW c \in Con, Works(ctr, c)
  PROVE  LET f == ctr[c].data
             g == ctr[c].cdata
         IN  /\ f \in Fd /\ g \in Fd /\ f # g /\ On(sys.prod, f, c) /\ On(sys.cons, f, c)
             /\ sys.file[f] # None /\ sys.file[f].of = c /\ sys.file[f].peer = g /\ ~sys.file[f].hup
             /\ sys.file[g] # None /\ sys.file[g].of = c /\ sys.file[g].peer = f
<1> DEFINE f == ctr[c].data
           g == ctr[c].cdata
<1>0. /\ EndpointsOK(sys.file, sys.prod, ctr) /\ ListsOK(sys.prod, sys.cons) /\ EndsOK(sys.file, sys.prod, ctr)
  BY DEF ConInv, Owned
<1>1. /\ f \in Fd /\ On(sys.prod, f, c) /\ ~sys.file[f].hup
      /\ g \in Fd /\ f # g
      /\ sys.file[g] # None /\ sys.file[g].of = c /\ sys.file[g].peer = f
  BY <1>0 DEF EndsOK
<1>2. sys.file[f] # None /\ sys.file[f].of = c /\ sys.file[f].peer = g
  BY <1>0, <1>1 DEF EndpointsOK
<1>3. On(sys.cons, f, c)
  BY <1>0, <1>1 DEF ListsOK
<1> QED BY <1>1, <1>2, <1>3

\* A producer is the end of its connector, and no socket of a session.
LEMMA ProducerIs ==
  ASSUME ConInv, NEW p \in sys.prod
  PROVE  /\ p.fd \in Fd /\ p.tag \in Con /\ p.held \in BOOLEAN /\ On(sys.prod, p.fd, p.tag)
         /\ On(sys.cons, p.fd, p.tag)
         /\ ctr[p.tag].live /\ p.fd = ctr[p.tag].data
         /\ sys.file[p.fd] # None /\ sys.file[p.fd] \in FileRec
         /\ sys.file[p.fd].of = p.tag /\ sys.file[p.fd].peer = ctr[p.tag].cdata
         /\ \A k \in DOMAIN sess : sess[k].fd # p.fd
         /\ \A c \in Con : ctr[c].cdata # p.fd
<1>0. /\ EndpointsOK(sys.file, sys.prod, ctr) /\ ListsOK(sys.prod, sys.cons) /\ EndsOK(sys.file, sys.prod, ctr)
      /\ SessionsOK(sys.file, ctr, sess) /\ TypeOK
  BY DEF ConInv, Owned
<1>1. p.fd \in Fd /\ p.tag \in Con /\ p.held \in BOOLEAN /\ sys.file \in Files
  BY <1>0, Parts
<1>2. On(sys.prod, p.fd, p.tag)
  BY DEF On
<1>3. /\ ctr[p.tag].live /\ p.fd = ctr[p.tag].data
      /\ sys.file[p.fd] # None
      /\ sys.file[p.fd].of = p.tag /\ sys.file[p.fd].peer = ctr[p.tag].cdata
  BY <1>0, <1>1, <1>2 DEF EndpointsOK
<1>4. sys.file[p.fd] \in FileRec
  BY <1>1, <1>3 DEF Files
<1>5. On(sys.cons, p.fd, p.tag)
  BY <1>0, <1>1, <1>2 DEF ListsOK
<1>6. \A k \in DOMAIN sess : sess[k].fd # p.fd
  BY <1>0, <1>3 DEF SessionsOK
<1>7. ASSUME NEW c \in Con, ctr[c].cdata = p.fd PROVE FALSE
  <2>1. Works(ctr, c)
    BY <1>0, <1>1, <1>7, FdType, ConstAssumption DEF EndsOK
  <2>2. sys.file[p.fd].of = c /\ p.fd # ctr[c].data
    BY <1>0, <1>7, <2>1 DEF EndsOK
  <2> QED BY <1>3, <2>2
<1> QED BY <1>1, <1>2, <1>3, <1>4, <1>5, <1>6, <1>7

LEMMA SessionIs ==
  ASSUME ConInv, NEW k \in DOMAIN sess
  PROVE  /\ sess[k] \in SessRec /\ sess[k].fd \in Fd /\ sess[k].con \in Tcps /\ sess[k].con \in Con
         /\ Works(ctr, sess[k].con) /\ ~ctr[sess[k].con].keyed
         /\ sys.file[sess[k].fd] # None /\ sys.file[sess[k].fd] \in FileRec
         /\ sys.file[sess[k].fd].of = sess[k].con /\ sys.file[sess[k].fd].peer = 0
         /\ sess[k].fd # ctr[sess[k].con].data /\ sess[k].fd # ctr[sess[k].con].cdata
         /\ \A l \in DOMAIN sess : sess[k].con = sess[l].con => k = l
<1>0. SessionsOK(sys.file, ctr, sess) /\ TypeOK /\ EndsOK(sys.file, sys.prod, ctr)
  BY DEF ConInv, Owned
<1>1. sess[k] \in SessRec /\ sys.file \in Files
  BY <1>0, Parts
<1>2. sess[k].fd \in Fd /\ sess[k].con \in Con
  BY <1>1 DEF SessRec
<1>3. /\ sess[k].con \in Tcps /\ ctr[sess[k].con].live
      /\ sys.file[sess[k].fd] # None
      /\ sys.file[sess[k].fd].of = sess[k].con /\ sys.file[sess[k].fd].peer = 0
      /\ sess[k].fd # ctr[sess[k].con].data /\ sess[k].fd # ctr[sess[k].con].cdata
      /\ \A l \in DOMAIN sess : sess[k].con = sess[l].con => k = l
  BY <1>0 DEF SessionsOK
<1>4. sys.file[sess[k].fd] \in FileRec
  BY <1>1, <1>2, <1>3 DEF Files
<1>5. Works(ctr, sess[k].con) /\ ~ctr[sess[k].con].keyed
  BY <1>0, <1>2, <1>3 DEF EndsOK, Works
<1> QED BY <1>1, <1>2, <1>3, <1>4, <1>5

\* PTT off on the way to the router.
LEMMA OffSent ==
  ASSUME ConInv, NEW c \in Con, Works(ctr, c)
  PROVE  LET f == ctr[c].data
             F == sys.file
             G == SendOff(sys.file, c)
         IN  /\ G \in Files
             /\ \A h \in Fd \ {f} : G[h] = F[h]
             /\ G[f] # None /\ G[f].of = F[f].of /\ G[f].peer = F[f].peer /\ G[f].hup = F[f].hup
             /\ ~Keyed(c) => G = F
             /\ OffRefused(F, c) => G = F /\ Keyed(c)
             /\ Keyed(c) /\ ~OffRefused(F, c) => \A h : ~LastOf(G[f].in, h)
             /\ Owned(G, sys.prod, sys.cons, ctr, sess)
<1> DEFINE f == ctr[c].data
           g == ctr[c].cdata
           F == sys.file
           G == SendOff(sys.file, c)
<1>1. /\ f \in Fd /\ g \in Fd /\ F[f] # None /\ F[g].peer = f
  BY EndsOf
<1>t. TypeOK /\ F \in Files /\ ctr \in Ctrs /\ SessionsOf(sess) /\ Owned(F, sys.prod, sys.cons, ctr, sess)
  BY Parts DEF ConInv
<1>f. F[f] \in FileRec
  BY <1>1, <1>t DEF Files
<1> DEFINE o == <<"off">>
<1>2. o \in Seq(Byte) /\ o # <<>>
  BY DEF Byte
<1>o. \A h : ~LastOf(o, h)
  BY DEF LastOf
<1>3. /\ ~Keyed(c) => G = F
      /\ OffRefused(F, c) => G = F /\ Keyed(c)
      /\ Keyed(c) /\ ~OffRefused(F, c) => G = Put(F, g, o)
  BY DEF SendOff, OffRefused
<1>4. CASE ~Keyed(c) \/ OffRefused(F, c)
  BY <1>1, <1>t, <1>3, <1>4
<1>5. CASE Keyed(c) /\ ~OffRefused(F, c)
  <2> DEFINE H == Put(F, g, o)
  <2>0. G = H
    BY <1>3, <1>5
  <2> HIDE DEF f, g, F, o
  <2>1. /\ H \in Files
        /\ \A h \in Fd \ {f} : H[h] = F[h]
        /\ H[f] # None /\ H[f].of = F[f].of /\ H[f].peer = F[f].peer /\ H[f].hup = F[f].hup
        /\ H[f].in = F[f].in \o o
    <3>1. F \in Files /\ g \in Fd /\ f \in Fd /\ o \in Seq(Byte)
      BY <1>1, <1>t, <1>2
    <3>2. F[g].peer = f /\ F[f] # None
      BY <1>1
    <3> HIDE DEF H
    <3>3. \A x \in Seq(Byte) :
           /\ Put(F, g, x) \in Files
           /\ \A h \in Fd \ {f} : Put(F, g, x)[h] = F[h]
           /\ Put(F, g, x)[f] # None
           /\ Put(F, g, x)[f].of = F[f].of /\ Put(F, g, x)[f].peer = F[f].peer
           /\ Put(F, g, x)[f].hup = F[f].hup
           /\ Put(F, g, x)[f].in = F[f].in \o x
      BY <3>1, <3>2, PutBytes, ConstAssumption, ZenonT(60)
    <3> QED BY <3>1, <3>3 DEF H
  <2>2. \A h : ~LastOf(H[f].in, h)
    <3> SUFFICES ASSUME NEW h PROVE ~LastOf(F[f].in \o o, h)
      BY <2>1
    <3>1. F[f].in \in Seq(Byte)
      BY <1>f DEF FileRec
    <3>2. LastOf(F[f].in \o o, h) = LastOf(o, h)
      BY <1>2, <3>1, LastOfMore
    <3> QED BY <1>o, <3>2
  <2>3. Owned(H, sys.prod, sys.cons, ctr, sess)
    <3>1. \A h \in Fd : SameFile(F, H, h) /\ (F[h] # None => H[h].hup = F[h].hup)
      BY <1>1, <2>1 DEF SameFile
    <3>2. \A d \in Con : SameCtr(ctr, ctr, d) /\ ctr[d].keyed \in BOOLEAN
      BY <1>t DEF SameCtr, Ctrs
    <3>3. \A d \in Con : ctr[d].keyed => Works(ctr, d) /\ d \notin Tcps
      BY <1>t DEF Owned, EndsOK
    <3> HIDE DEF H
    <3> QED BY <1>t, <3>1, <3>2, <3>3, Unaltered
  <2> HIDE DEF H
  <2> QED BY <1>3, <1>5, <2>0, <2>1, <2>2, <2>3 DEF F, f
<1> QED BY <1>3, <1>4, <1>5

LEMMA SocketPair ==
  ASSUME ConstAssumption, NEW F \in Files, NEW c \in Con, NEW f \in Fd, NEW g \in Fd, f # g
  PROVE  LET G == socketpair(F, c, f, g)
         IN  /\ G \in Files /\ G[f] = File(c, g) /\ G[g] = File(c, f)
             /\ \A h \in Fd \ {f, g} : G[h] = F[h]
             /\ G[f] # None /\ G[g] # None
<1>1. \A x \in Fd : File(c, x) \in FileRec
  <2>1. <<>> \in Seq(Byte) /\ \A x \in Fd : x \in 0..MaxFd
    BY FdType, EmptySeq
  <2> QED BY <2>1 DEF File, FileRec
<1> DEFINE x == File(c, g)
           y == File(c, f)
<1>2. x \in FileRec /\ y \in FileRec
  BY <1>1
<1>3. socketpair(F, c, f, g) = [F EXCEPT ![f] = x, ![g] = y]
  BY DEF socketpair
<1> HIDE DEF x, y
<1> DEFINE G == [F EXCEPT ![f] = x, ![g] = y]
<1>4. G \in Files /\ G[f] = x /\ G[g] = y /\ \A h \in Fd \ {f, g} : G[h] = F[h]
  BY <1>2 DEF Files
<1>5. x # None /\ y # None
  BY <1>2, NoneIsNoFile
<1> HIDE DEF G
<1> QED BY <1>3, <1>4, <1>5 DEF x, y, G

LEMMA OneMore ==
  ASSUME NEW P, NEW x
  PROVE  /\ \A h \in Fd, d \in Con :
              On(P \cup {x}, h, d) <=> On(P, h, d) \/ (h = x.fd /\ d = x.tag)
         /\ Once(P) /\ (\A p \in P : p.fd # x.fd) => Once(P \cup {x})
BY DEF On, Once

LEMMA CreateStep ==
  ASSUME ConInv, NEW c \in Con, conmgr_create_con_cfg(c)
  PROVE  ConInv'
<1> DEFINE F == sys.file
           f == NthFree(sys.file, 1)
           g == NthFree(sys.file, 2)
           G == socketpair(F, c, f, g)
           p0 == [fd |-> f, tag |-> c, held |-> FALSE]
           e0 == [fd |-> f, tag |-> c]
           new == [NoCtr EXCEPT !.live = TRUE, !.data = f, !.cdata = g]
<1>0. /\ ~ctr[c].live /\ Cardinality(FreeFds(F)) >= 2
      /\ sys' = mhr_add_endpoint_fd([sys EXCEPT !.file = G], f, c)
      /\ ctr' = [ctr EXCEPT ![c] = new]
      /\ sess' = sess /\ keyer' = keyer /\ offs' = offs /\ offLost' = offLost
  BY DEF conmgr_create_con_cfg
<1>t. TypeOK /\ sys \in SysRec /\ F \in Files /\ sys.prod \in Producers /\ sys.cons \in Consumers
      /\ ctr \in Ctrs /\ SessionsOf(sess)
  BY Parts DEF ConInv
<1>1. f \in Fd /\ g \in Fd /\ f # g /\ F[f] = None /\ F[g] = None
  BY <1>0, SecondFree, ConstAssumption DEF FreeFds
<1>2. /\ new.live /\ ~new.failed /\ new.data = f /\ new.cdata = g /\ ~new.keyed
      /\ new \in [live : BOOLEAN, failed : BOOLEAN, data : 0..MaxFd, cdata : 0..MaxFd,
                   keyed : BOOLEAN, wout : BOOLEAN]
  <2>1. f \in 0..MaxFd /\ g \in 0..MaxFd
    BY <1>1, FdType, ConstAssumption
  <2> HIDE DEF f, g
  <2> QED BY <2>1 DEF NoCtr
<1> HIDE DEF f, g
<1>3. /\ G \in Files /\ G[f] = File(c, g) /\ G[g] = File(c, f)
      /\ \A h \in Fd \ {f, g} : G[h] = F[h]
      /\ G[f] # None /\ G[g] # None
  BY <1>1, <1>t, SocketPair, ConstAssumption
<1>4. /\ G[f].of = c /\ G[f].peer = g /\ ~G[f].hup /\ G[f].in = <<>>
      /\ G[g].of = c /\ G[g].peer = f
  BY <1>3 DEF File
<1> HIDE DEF G, new, F
<1>5. /\ sys'.file = G /\ sys'.prod = sys.prod \cup {p0} /\ sys'.cons = sys.cons \cup {e0}
      /\ sys' = [file |-> G, prod |-> sys.prod \cup {p0}, cons |-> sys.cons \cup {e0}]
  BY <1>0, <1>t DEF mhr_add_endpoint_fd, SysRec
<1>6. p0 \in [fd : Fd, tag : Con, held : BOOLEAN] /\ e0 \in [fd : Fd, tag : Con]
      /\ p0.fd = f /\ p0.tag = c /\ ~p0.held /\ e0.fd = f /\ e0.tag = c
  BY <1>1
<1> HIDE DEF p0, e0
<1>7. /\ ctr' \in Ctrs /\ ctr'[c] = new /\ \A d \in Con \ {c} : ctr'[d] = ctr[d]
  BY <1>0, <1>2, <1>t DEF Ctrs
<1>8. TypeOK'
  <2>1. sys' \in SysRec
    BY <1>3, <1>5, <1>6, <1>t DEF SysRec, Producers, Consumers
  <2> QED BY <1>0, <1>7, <1>t, <2>1 DEF TypeOK, SysRec, Files, Producers, Consumers, Ctrs
<1>9. Owned(sys'.file, sys'.prod, sys'.cons, ctr', sess')
  <2>1. \A h \in Fd, d \in Con : On(sys'.prod, h, d) <=> On(sys.prod, h, d) \/ (h = f /\ d = c)
    <3>1. \A h \in Fd, d \in Con :
            On(sys.prod \cup {p0}, h, d) <=> On(sys.prod, h, d) \/ (h = p0.fd /\ d = p0.tag)
      BY OneMore
    <3>2. sys'.prod = sys.prod \cup {p0} /\ p0.fd = f /\ p0.tag = c
      BY <1>5, <1>6
    <3> QED BY <3>1, <3>2
  <2>2. \A h \in Fd, d \in Con : On(sys'.cons, h, d) <=> On(sys.cons, h, d) \/ (h = f /\ d = c)
    <3>1. \A h \in Fd, d \in Con :
            On(sys.cons \cup {e0}, h, d) <=> On(sys.cons, h, d) \/ (h = e0.fd /\ d = e0.tag)
      BY OneMore
    <3>2. sys'.cons = sys.cons \cup {e0} /\ e0.fd = f /\ e0.tag = c
      BY <1>5, <1>6
    <3> QED BY <3>1, <3>2
  <2>3. Owned(F, sys.prod, sys.cons, ctr, sess)
    BY DEF ConInv, F
  <2>4. /\ ctr'[c].live /\ ~ctr'[c].failed /\ ctr'[c].data = f /\ ctr'[c].cdata = g /\ ~ctr'[c].keyed
    BY <1>2, <1>7
  <2> DEFINE P2 == sys'.prod
             Q2 == sys'.cons
             T == ctr'
  <2>5. Owned(G, P2, Q2, T, sess)
    <3> HIDE DEF P2, Q2, T
    <3>1. \A h \in Fd, d \in Con : On(P2, h, d) <=> On(sys.prod, h, d) \/ (h = f /\ d = c)
      BY <2>1 DEF P2
    <3>2. \A h \in Fd, d \in Con : On(Q2, h, d) <=> On(sys.cons, h, d) \/ (h = f /\ d = c)
      BY <2>2 DEF Q2
    <3>3. /\ T[c].live /\ ~T[c].failed /\ T[c].data = f /\ T[c].cdata = g /\ ~T[c].keyed
          /\ \A d \in Con \ {c} : T[d] = ctr[d]
      BY <1>7, <2>4 DEF T
    <3> QED BY <1>0, <1>1, <1>3, <1>4, <1>t, <2>3, <3>1, <3>2, <3>3, Created
  <2> QED BY <1>0, <1>5, <2>5
<1>p. \A p \in sys.prod : p.fd \in Fd \ {f, g} /\ p.tag \in Con \ {c}
  BY <1>0, <1>1, ProducerIs DEF F
<1>10. Once(sys'.prod)
  BY <1>5, <1>6, <1>p, OneMore DEF ConInv
<1>11. PttOK(sys'.file, sys'.prod, ctr', sess', offLost')
  <2> SUFFICES ASSUME NEW p \in sys.prod \cup {p0}, LastOf(G[p.fd].in, p.held)
               PROVE  KeyedIn(ctr', sess, p.tag) \/ p.tag \in offLost
    BY <1>0, <1>5 DEF PttOK
  <2>1. CASE p = p0
    BY <1>4, <1>6, <2>1 DEF LastOf
  <2>2. CASE p \in sys.prod
    <3>1. G[p.fd] = F[p.fd] /\ ctr'[p.tag] = ctr[p.tag]
      BY <1>3, <1>7, <1>p, <2>2
    <3>2. KeyedIn(ctr, sess, p.tag) \/ p.tag \in offLost
      BY <2>2, <3>1 DEF PttOK, ConInv, F
    <3> QED BY <3>1, <3>2 DEF KeyedIn
  <2> QED BY <2>1, <2>2
<1> QED BY <1>8, <1>9, <1>10, <1>11 DEF ConInv

\* The files of a connector.
LEMMA FilesOf ==
  ASSUME ConInv, NEW c \in Con, NEW h \in Fd
  PROVE  sys.file[h] # None /\ sys.file[h].of = c <=>
           \/ h = ctr[c].data /\ On(sys.prod, h, c)
           \/ h = ctr[c].cdata
           \/ \E k \in DOMAIN sess : sess[k].con = c /\ sess[k].fd = h
<1>0. /\ EndpointsOK(sys.file, sys.prod, ctr) /\ EndsOK(sys.file, sys.prod, ctr)
      /\ SessionsOK(sys.file, ctr, sess) /\ RolesOK(sys.file, sys.prod, ctr, sess)
  BY DEF ConInv, Owned
<1>1. ASSUME sys.file[h] # None, sys.file[h].of = c
      PROVE  \/ h = ctr[c].data /\ On(sys.prod, h, c)
             \/ h = ctr[c].cdata
             \/ \E k \in DOMAIN sess : sess[k].con = c /\ sess[k].fd = h
  <2>1. \/ \E d \in Con : On(sys.prod, h, d)
        \/ \E d \in Con : ctr[d].cdata = h
        \/ \E k \in DOMAIN sess : sess[k].fd = h
    BY <1>0, <1>1 DEF RolesOK
  <2>2. ASSUME NEW d \in Con, On(sys.prod, h, d) PROVE d = c /\ h = ctr[c].data
    BY <1>0, <1>1, <2>2 DEF EndpointsOK
  <2>3. ASSUME NEW d \in Con, ctr[d].cdata = h PROVE d = c
    BY <1>0, <1>1, <2>3, FdType, ConstAssumption DEF EndsOK
  <2>4. ASSUME NEW k \in DOMAIN sess, sess[k].fd = h PROVE sess[k].con = c
    BY <1>0, <1>1, <2>4 DEF SessionsOK
  <2> QED BY <2>1, <2>2, <2>3, <2>4
<1>2. ASSUME On(sys.prod, h, c) PROVE sys.file[h] # None /\ sys.file[h].of = c
  BY <1>0, <1>2 DEF EndpointsOK
<1>3. ASSUME h = ctr[c].cdata PROVE sys.file[h] # None /\ sys.file[h].of = c
  BY <1>0, <1>3, FdType, ConstAssumption DEF EndsOK
<1>4. ASSUME NEW k \in DOMAIN sess, sess[k].con = c, sess[k].fd = h
      PROVE  sys.file[h] # None /\ sys.file[h].of = c
  BY <1>0, <1>4 DEF SessionsOK
<1> QED BY <1>1, <1>2, <1>3, <1>4

\* rem_router_endpoint removes the endpoint of the connector and no other.
LEMMA RouterEndpoint ==
  ASSUME ConInv, NEW c \in Con, NEW s \in SysRec, s.prod = sys.prod, s.cons = sys.cons,
         NEW f \in 0..MaxFd
  PROVE  /\ On(sys.prod, f, c) =>
              /\ f \in Fd
              /\ rem_router_endpoint(s, c, f) =
                   [file |-> fd_close(s.file, f), prod |-> sys.prod \ At(sys.prod, f),
                    cons |-> sys.cons \ At(sys.cons, f)]
         /\ ~On(sys.prod, f, c) => rem_router_endpoint(s, c, f) = s
<1>1. ASSUME On(sys.prod, f, c)
      PROVE  /\ f \in Fd
             /\ rem_router_endpoint(s, c, f) =
                   [file |-> fd_close(s.file, f), prod |-> sys.prod \ At(sys.prod, f),
                    cons |-> sys.cons \ At(sys.cons, f)]
  <2>1. PICK q \in sys.prod : q.fd = f /\ q.tag = c
    BY <1>1 DEF On
  <2>2. f \in Fd /\ On(sys.cons, f, c) /\ sys.file[f].of = c
    BY <2>1, ProducerIs
  <2>3. At(s.prod, f) # {} /\ At(s.cons, f) # {}
    BY <2>1, <2>2 DEF At, On
  <2>4. \A p \in At(s.prod, f) : p.tag = c
    <3> SUFFICES ASSUME NEW p \in At(s.prod, f) PROVE p.tag = c
      OBVIOUS
    <3>1. p \in sys.prod /\ p.fd = f
      BY DEF At
    <3> QED BY <2>2, <3>1, ProducerIs
  <2>5. TagAt(s, f) = c
    BY <2>3, <2>4 DEF TagAt
  <2>6. rem_router_endpoint(s, c, f) = mhr_rem_consumer(mhr_rem_producer(s, f), f)
    BY <2>5 DEF rem_router_endpoint, mhr_rem_endpoint_fd
  <2> QED BY <2>2, <2>3, <2>6, BothRemoved
<1>2. ASSUME ~On(sys.prod, f, c) PROVE rem_router_endpoint(s, c, f) = s
  <2>1. TagAt(s, f) # c
    <3>1. CASE At(s.prod, f) = {}
      BY <3>1, ConstAssumption DEF TagAt, ConstAssumption
    <3>2. CASE At(s.prod, f) # {}
      <4>1. PICK p \in At(s.prod, f) : p = CHOOSE q \in At(s.prod, f) : TRUE
        BY <3>2
      <4>2. TagAt(s, f) = p.tag /\ p \in sys.prod /\ p.fd = f
        BY <3>2, <4>1 DEF TagAt, At
      <4> QED BY <1>2, <4>2 DEF On
    <3> QED BY <3>1, <3>2
  <2> QED BY <2>1 DEF rem_router_endpoint
<1> QED BY <1>1, <1>2

\* What deleting a connector does to the files and to the router's lists.
LEMMA DestroyFacts ==
  ASSUME ConInv, NEW c \in Con, conmgr_destroy_con(c)
  PROVE  /\ sys' \in SysRec
         /\ sys'.prod \subseteq sys.prod
         /\ \A h \in Fd, d \in Con : On(sys'.prod, h, d) <=> On(sys.prod, h, d) /\ d # c
         /\ \A h \in Fd, d \in Con : On(sys'.cons, h, d) <=> On(sys.cons, h, d) /\ d # c
         /\ \A h \in Fd : sys'.file[h] =
              IF sys.file[h] # None /\ sys.file[h].of = c THEN None ELSE sys.file[h]
<1> DEFINE F == sys.file
           f == ctr[c].data
           g == ctr[c].cdata
<1>0. ctr[c].live /\ sys' = rem_router_endpoint(DestroyInstance(c), c, f)
  BY DEF conmgr_destroy_con
<1>t. TypeOK /\ sys \in SysRec /\ F \in Files /\ sys.prod \in Producers /\ sys.cons \in Consumers
      /\ ctr \in Ctrs /\ SessionsOf(sess)
  BY Parts DEF ConInv
<1>u. f \in 0..MaxFd
  BY <1>t DEF Ctrs
<1>c. EndpointsOK(F, sys.prod, ctr) /\ ListsOK(sys.prod, sys.cons) /\ EndsOK(F, sys.prod, ctr)
  BY DEF ConInv, Owned
<1>o. \A h \in Fd, d \in Con : On(sys.prod, h, d) <=> On(sys.cons, h, d)
  BY <1>c DEF ListsOK
<1>1. \A h \in Fd : On(sys.prod, h, c) => h = f
  BY <1>c DEF EndpointsOK
<1>2. ASSUME f \in Fd, On(sys.prod, f, c)
      PROVE  /\ \A h \in Fd, d \in Con :
                  On(sys.prod \ At(sys.prod, f), h, d) <=> On(sys.prod, h, d) /\ d # c
             /\ \A h \in Fd, d \in Con :
                  On(sys.cons \ At(sys.cons, f), h, d) <=> On(sys.cons, h, d) /\ d # c
  <2>1. \A h \in Fd, d \in Con : On(sys.prod, h, d) => (h = f <=> d = c)
    BY <1>c, <1>1, <1>2 DEF EndpointsOK
  <2>2. \A h \in Fd, d \in Con :
          On(sys.prod \ At(sys.prod, f), h, d) <=> On(sys.prod, h, d) /\ h # f
    BY OthersStay
  <2>3. \A h \in Fd, d \in Con :
          On(sys.cons \ At(sys.cons, f), h, d) <=> On(sys.cons, h, d) /\ h # f
    BY OthersStay
  <2> QED BY <1>o, <2>1, <2>2, <2>3
<1>3. CASE ctr[c].failed
  <2>1. sys' = rem_router_endpoint(sys, c, f)
    BY <1>0, <1>3 DEF DestroyInstance
  <2>2. g = 0 /\ g \notin Fd /\ c \notin Tcps
    BY <1>3, <1>c, FdType, ConstAssumption DEF EndsOK, Works
  <2>3. \A k \in DOMAIN sess : sess[k].con # c
    BY <2>2, SessionIs
  <2>4. \A h \in Fd : F[h] # None /\ F[h].of = c <=> h = f /\ On(sys.prod, h, c)
    BY <2>2, <2>3, FilesOf
  <2>5. CASE On(sys.prod, f, c)
    <3>1. /\ f \in Fd
          /\ sys' = [file |-> fd_close(F, f), prod |-> sys.prod \ At(sys.prod, f),
                     cons |-> sys.cons \ At(sys.cons, f)]
      BY <1>t, <1>u, <2>1, <2>5, RouterEndpoint
    <3>2. F[f] # None /\ F[f].peer = 0 /\ F[f].peer \notin Fd
      BY <1>c, <2>2, <2>5, <3>1 DEF EndpointsOK
    <3>3. /\ fd_close(F, f) \in Files /\ fd_close(F, f)[f] = None
          /\ \A h \in Fd \ {f} : fd_close(F, f)[h] = F[h]
      BY <1>t, <3>1, <3>2, FdClose, ConstAssumption
    <3> DEFINE H == fd_close(F, f)
    <3> HIDE DEF H
    <3>4. sys'.file = H /\ sys'.prod = sys.prod \ At(sys.prod, f)
          /\ sys'.cons = sys.cons \ At(sys.cons, f)
      BY <3>1 DEF H
    <3>5. sys' \in SysRec
      BY <1>t, <3>1, <3>3 DEF SysRec, Producers, Consumers
    <3>6. \A h \in Fd : H[h] = IF h = f THEN None ELSE F[h]
      BY <3>3 DEF H
    <3>7. \A h \in Fd : H[h] = IF F[h] # None /\ F[h].of = c THEN None ELSE F[h]
      BY <2>4, <2>5, <3>6
    <3> QED BY <1>2, <2>5, <3>1, <3>4, <3>5, <3>7
  <2>6. CASE ~On(sys.prod, f, c)
    <3>1. sys' = sys
      BY <1>t, <1>u, <2>1, <2>6, RouterEndpoint
    <3>2. \A h \in Fd : ~On(sys.prod, h, c)
      BY <1>1, <2>6
    <3>3. \A h \in Fd, d \in Con : On(sys.prod, h, d) <=> On(sys.prod, h, d) /\ d # c
      BY <3>2
    <3>4. \A h \in Fd, d \in Con : On(sys.cons, h, d) <=> On(sys.cons, h, d) /\ d # c
      BY <1>o, <3>2
    <3>5. \A h \in Fd : F[h] = IF F[h] # None /\ F[h].of = c THEN None ELSE F[h]
      BY <2>4, <3>2
    <3> QED BY <1>t, <3>1, <3>3, <3>4, <3>5
  <2> QED BY <2>5, <2>6
<1>4. CASE ~ctr[c].failed
  <2>w. Works(ctr, c)
    BY <1>0, <1>4 DEF Works
  <2>1. /\ f \in Fd /\ g \in Fd /\ f # g /\ On(sys.prod, f, c)
        /\ F[f] # None /\ F[f].peer = g /\ F[g] # None /\ F[g].peer = f
    BY <2>w, EndsOf
  <2> DEFINE fds == {sess[k].fd : k \in Sessions(c)}
             H1 == SendOff(F, c)
             H2 == CloseSessions(H1, c)
             H3 == fd_close(H2, g)
             H4 == fd_close(H3, f)
             s == [sys EXCEPT !.file = H3]
  <2>2. /\ H1 \in Files /\ \A h \in Fd \ {f} : H1[h] = F[h]
        /\ H1[f] # None /\ H1[f].peer = g
    BY <2>1, <2>w, OffSent
  <2>3. \A h \in Fd : H2[h] = IF h \in fds THEN None ELSE H1[h]
    BY DEF CloseSessions
  <2>4. H2 \in Files
    BY <2>2 DEF CloseSessions, Files
  <2>5. f \notin fds /\ g \notin fds
    BY SessionIs DEF Sessions
  <2>6. \A h \in Fd : F[h] # None /\ F[h].of = c <=> h = f \/ h = g \/ h \in fds
    <3>1. \A h \in Fd : h \in fds <=> \E k \in DOMAIN sess : sess[k].con = c /\ sess[k].fd = h
      BY DEF Sessions
    <3> HIDE DEF fds
    <3> QED BY <2>1, <3>1, FilesOf
  <2>7. DestroyInstance(c) = s
    BY <1>4 DEF DestroyInstance
  <2> HIDE DEF fds, H1, H2
  <2>8. /\ H2[g] # None /\ H2[g].peer = f /\ H2[f] # None /\ H2[f].peer = g
    BY <2>1, <2>2, <2>3, <2>5
  <2>9. /\ H3 \in Files /\ H3[g] = None /\ \A h \in Fd \ {g} : h # f => H3[h] = H2[h]
        /\ H3[f] # None /\ H3[f].peer = 0
    BY <2>1, <2>4, <2>8, FdClose, ConstAssumption
  <2> HIDE DEF H3
  <2>10. H3[f].peer \notin Fd
    BY <2>9, FdType, ConstAssumption
  <2>11. /\ H4 \in Files /\ H4[f] = None /\ \A h \in Fd \ {f} : H4[h] = H3[h]
    BY <2>1, <2>9, <2>10, FdClose, ConstAssumption
  <2>12. s \in SysRec /\ s.prod = sys.prod /\ s.cons = sys.cons /\ s.file = H3
    BY <1>t, <2>9 DEF SysRec
  <2> HIDE DEF s
  <2>13. rem_router_endpoint(s, c, f) =
                [file |-> fd_close(s.file, f), prod |-> sys.prod \ At(sys.prod, f),
                 cons |-> sys.cons \ At(sys.cons, f)]
    BY <1>u, <2>1, <2>12, RouterEndpoint
  <2>14. sys' = [file |-> H4, prod |-> sys.prod \ At(sys.prod, f),
                 cons |-> sys.cons \ At(sys.cons, f)]
    BY <1>0, <2>7, <2>12, <2>13
  <2> HIDE DEF H4
  <2>15. sys'.file = H4 /\ sys'.prod = sys.prod \ At(sys.prod, f)
         /\ sys'.cons = sys.cons \ At(sys.cons, f)
    BY <2>14
  <2>16. sys' \in SysRec
    BY <1>t, <2>11, <2>14 DEF SysRec, Producers, Consumers
  <2>17. ASSUME NEW h \in Fd
         PROVE  H4[h] = IF F[h] # None /\ F[h].of = c THEN None ELSE F[h]
    <3>1. CASE h = f \/ h = g
      BY <2>1, <2>6, <2>9, <2>11, <3>1
    <3>2. CASE h # f /\ h # g
      <4>1. H4[h] = H2[h] /\ H1[h] = F[h]
        BY <2>2, <2>9, <2>11, <3>2
      <4> QED BY <2>3, <2>6, <3>2, <4>1
    <3> QED BY <3>1, <3>2
  <2>18. /\ \A h \in Fd, d \in Con : On(sys'.prod, h, d) <=> On(sys.prod, h, d) /\ d # c
         /\ \A h \in Fd, d \in Con : On(sys'.cons, h, d) <=> On(sys.cons, h, d) /\ d # c
    BY <1>2, <2>1, <2>15
  <2>19. sys'.prod \subseteq sys.prod
    BY <2>15
  <2>20. \A h \in Fd : sys'.file[h] = IF F[h] # None /\ F[h].of = c THEN None ELSE F[h]
    BY <2>15, <2>17
  <2> QED BY <2>16, <2>18, <2>19, <2>20
<1> QED BY <1>3, <1>4

LEMMA DestroyStep ==
  ASSUME ConInv, NEW c \in Con, conmgr_destroy_con(c)
  PROVE  ConInv'
<1> DEFINE F == sys.file
           G == sys'.file
           P2 == sys'.prod
           Q2 == sys'.cons
           T == ctr'
           S2 == sess'
<1>0. /\ ctr' = [ctr EXCEPT ![c] = NoCtr]
      /\ sess' = [k \in DOMAIN sess \ Sessions(c) |-> sess[k]]
      /\ offLost' = offLost \ {c} /\ keyer' = keyer /\ offs' = offs
  BY DEF conmgr_destroy_con
<1>t. TypeOK /\ ctr \in Ctrs /\ SessionsOf(sess) /\ Owned(F, sys.prod, sys.cons, ctr, sess)
  BY Parts DEF ConInv
<1>1. /\ sys' \in SysRec /\ P2 \subseteq sys.prod
      /\ \A h \in Fd, d \in Con : On(P2, h, d) <=> On(sys.prod, h, d) /\ d # c
      /\ \A h \in Fd, d \in Con : On(Q2, h, d) <=> On(sys.cons, h, d) /\ d # c
      /\ \A h \in Fd : G[h] = IF F[h] # None /\ F[h].of = c THEN None ELSE F[h]
  BY DestroyFacts
<1>2. /\ T \in Ctrs /\ T[c] = NoCtr /\ \A d \in Con \ {c} : T[d] = ctr[d]
  <2>1. 0 \in 0..MaxFd
    BY FdType, ConstAssumption
  <2> QED BY <1>0, <1>t, <2>1 DEF Ctrs, NoCtr
<1>3. ~T[c].live /\ ~T[c].failed /\ ~T[c].keyed /\ T[c].cdata = 0
  BY <1>2 DEF NoCtr
<1>4. /\ DOMAIN S2 = {k \in DOMAIN sess : sess[k].con # c}
      /\ \A k \in DOMAIN S2 : S2[k] = sess[k]
  BY <1>0 DEF Sessions
<1>5. SessionsOf(S2)
  <2>1. S2 = [k \in DOMAIN S2 |-> S2[k]]
    BY <1>0
  <2>2. \A k \in DOMAIN S2 : S2[k] \in SessRec
    BY <1>4, <1>t, Parts
  <2>3. S2 \in [DOMAIN S2 -> SessRec]
    BY <2>1, <2>2
  <2>4. DOMAIN S2 \subseteq Client
    BY <1>4, <1>t DEF SessionsOf
  <2> QED BY <2>3, <2>4 DEF SessionsOf
<1>6. TypeOK'
  BY <1>0, <1>1, <1>2, <1>5, <1>t
     DEF TypeOK, SysRec, Files, Producers, Consumers, Ctrs, SessionsOf, SessRec
<1>p. \A p \in P2 : p \in sys.prod /\ p.tag \in Con \ {c} /\ G[p.fd] = F[p.fd]
  <2> SUFFICES ASSUME NEW p \in P2 PROVE p \in sys.prod /\ p.tag \in Con \ {c} /\ G[p.fd] = F[p.fd]
    OBVIOUS
  <2>1. p \in sys.prod /\ On(P2, p.fd, p.tag)
    BY <1>1 DEF On
  <2>2. p.fd \in Fd /\ p.tag \in Con /\ F[p.fd].of = p.tag
    BY <2>1, ProducerIs
  <2> QED BY <1>1, <2>1, <2>2
<1>7. Once(sys'.prod)
  BY <1>1 DEF Once, ConInv
<1>8. PttOK(sys'.file, sys'.prod, ctr', sess', offLost')
  <2> SUFFICES ASSUME NEW p \in P2, LastOf(G[p.fd].in, p.held)
               PROVE  KeyedIn(T, S2, p.tag) \/ p.tag \in offLost \ {c}
    BY <1>0 DEF PttOK
  <2>1. KeyedIn(ctr, sess, p.tag) \/ p.tag \in offLost
    BY <1>p DEF ConInv, PttOK
  <2>2. T[p.tag] = ctr[p.tag] /\ p.tag # c
    BY <1>2, <1>p
  <2> QED BY <1>4, <2>1, <2>2 DEF KeyedIn
<1> HIDE DEF F, G, P2, Q2, T, S2
<1>9. Owned(G, P2, Q2, T, S2)
  BY <1>1, <1>2, <1>3, <1>4, <1>t, Destroyed
<1> QED BY <1>6, <1>7, <1>8, <1>9 DEF ConInv, G, P2, Q2, T, S2

LEMMA FileSet ==
  ASSUME NEW s \in SysRec, NEW G \in Files, NEW t, t = [s EXCEPT !.file = G]
  PROVE  t \in SysRec /\ t.file = G /\ t.prod = s.prod /\ t.cons = s.cons
BY DEF SysRec

LEMMA FailStep ==
  ASSUME ConInv, NEW c \in Vsps, con_failed(c)
  PROVE  ConInv'
<1> DEFINE F == sys.file
           f == ctr[c].data
           g == ctr[c].cdata
           H == SendOff(F, c)
           G == fd_close(H, g)
           T == ctr'
<1>0. /\ Works(ctr, c)
      /\ sys' = [sys EXCEPT !.file = G]
      /\ offLost' = IF OffRefused(F, c) THEN offLost \cup {c} ELSE offLost
      /\ ctr' = [ctr EXCEPT ![c].failed = TRUE, ![c].keyed = FALSE, ![c].cdata = 0]
      /\ sess' = sess /\ keyer' = keyer /\ offs' = offs
  BY DEF con_failed, Works
<1>c. c \in Con \ Tcps
  BY ConstAssumption DEF ConstAssumption, Tcps
<1>t. TypeOK /\ sys \in SysRec /\ F \in Files /\ ctr \in Ctrs /\ SessionsOf(sess)
  BY Parts DEF ConInv
<1>1. /\ f \in Fd /\ g \in Fd /\ f # g
      /\ F[f] # None /\ F[f].of = c /\ F[f].peer = g /\ F[g] # None /\ F[g].peer = f
  BY <1>0, <1>c, EndsOf
<1>2. /\ H \in Files /\ \A h \in Fd \ {f} : H[h] = F[h]
      /\ H[f] # None /\ H[f].of = F[f].of /\ H[f].peer = F[f].peer
      /\ ~Keyed(c) => H = F
      /\ OffRefused(F, c) => H = F /\ Keyed(c)
      /\ Keyed(c) /\ ~OffRefused(F, c) => \A h : ~LastOf(H[f].in, h)
      /\ Owned(H, sys.prod, sys.cons, ctr, sess)
  BY <1>0, <1>c, OffSent
<1> HIDE DEF F, H
<1>3. H[g] # None /\ H[g].peer = f
  BY <1>1, <1>2
<1>4. /\ G \in Files /\ G[g] = None /\ \A h \in Fd \ {g} : h # f => G[h] = H[h]
      /\ G[f] # None /\ G[f].of = H[f].of /\ G[f].peer = 0 /\ G[f].in = H[f].in
  BY <1>1, <1>2, <1>3, FdClose, ConstAssumption
<1> HIDE DEF G
<1>5. sys' \in SysRec /\ sys'.file = G /\ sys'.prod = sys.prod /\ sys'.cons = sys.cons
  BY <1>0, <1>4, <1>t, FileSet
<1>6. /\ T \in Ctrs /\ T[c].live = ctr[c].live /\ T[c].failed /\ T[c].data = f /\ T[c].cdata = 0
      /\ ~T[c].keyed /\ \A d \in Con \ {c} : T[d] = ctr[d]
  <2>1. 0 \in 0..MaxFd
    BY FdType, ConstAssumption
  <2> QED BY <1>0, <1>c, <1>t, <2>1, ZenonT(60) DEF Ctrs
<1>7. TypeOK'
  BY <1>0, <1>5, <1>6, <1>c, <1>t DEF TypeOK, SysRec, Files, Producers, Consumers, Ctrs
<1>8. Owned(sys'.file, sys'.prod, sys'.cons, ctr', sess')
  <2> HIDE DEF T
  <2>1. /\ T[c].live /\ G[ctr[c].cdata] = None
        /\ G[ctr[c].data] # None /\ G[ctr[c].data].of = c /\ G[ctr[c].data].peer = 0
        /\ \A h \in Fd \ {ctr[c].data, ctr[c].cdata} : G[h] = H[h]
        /\ T[c].failed /\ T[c].data = ctr[c].data /\ T[c].cdata = 0 /\ ~T[c].keyed
        /\ \A d \in Con \ {c} : T[d] = ctr[d]
    BY <1>0, <1>1, <1>2, <1>4, <1>6 DEF Works
  <2>2. Owned(G, sys.prod, sys.cons, T, sess)
    BY <1>0, <1>2, <1>c, <1>t, <2>1, EndClosed
  <2> QED BY <1>0, <1>5, <2>2 DEF T
<1>9. PttOK(sys'.file, sys'.prod, ctr', sess', offLost')
  <2> SUFFICES ASSUME NEW p \in sys.prod, LastOf(G[p.fd].in, p.held)
               PROVE  KeyedIn(T, sess, p.tag) \/ p.tag \in offLost'
    BY <1>0, <1>5 DEF PttOK
  <2>1. /\ p.fd \in Fd /\ p.tag \in Con /\ p.fd = ctr[p.tag].data /\ p.fd # g /\ F[p.fd].of = p.tag
    BY <1>c, ProducerIs DEF F
  <2>2. LastOf(F[p.fd].in, p.held) => KeyedIn(ctr, sess, p.tag) \/ p.tag \in offLost
    BY DEF ConInv, PttOK, F
  <2>3. CASE p.tag = c
    <3>1. p.fd = f /\ LastOf(H[f].in, p.held)
      BY <1>4, <2>1, <2>3
    <3>2. CASE Keyed(c)
      BY <1>0, <1>2, <2>3, <3>1, <3>2
    <3>3. CASE ~Keyed(c)
      BY <1>0, <1>2, <2>2, <2>3, <3>1, <3>3, KeyedIs
    <3> QED BY <3>2, <3>3
  <2>4. CASE p.tag # c
    <3>1. p.fd # f
      BY <1>1, <2>1, <2>4
    <3>2. G[p.fd] = F[p.fd] /\ T[p.tag] = ctr[p.tag]
      BY <1>2, <1>4, <1>6, <2>1, <2>4, <3>1
    <3> QED BY <1>0, <2>2, <3>2 DEF KeyedIn
  <2> QED BY <2>3, <2>4
<1> QED BY <1>5, <1>7, <1>8, <1>9 DEF ConInv

\* A connector that works writes to the router.
LEMMA Written ==
  ASSUME ConInv, NEW c \in Con, Works(ctr, c), NEW bytes \in Seq(Byte), NEW G,
         G = Put(sys.file, ctr[c].cdata, bytes)
  PROVE  LET f == ctr[c].data
         IN  /\ G \in Files /\ \A h \in Fd \ {f} : G[h] = sys.file[h]
             /\ G[f].in = sys.file[f].in \o bytes
             /\ \A h \in Fd : SameFile(sys.file, G, h)
             /\ \A h \in Fd : sys.file[h] # None => G[h].hup = sys.file[h].hup
<1> DEFINE F == sys.file
           f == ctr[c].data
           g == ctr[c].cdata
<1>1. /\ f \in Fd /\ g \in Fd /\ F[f] # None /\ F[g].peer = f
  BY EndsOf
<1>2. F \in Files
  BY Parts DEF ConInv
<1>3. G = Put(F, g, bytes)
  OBVIOUS
<1> HIDE DEF F, f, g
<1>4. /\ G \in Files /\ \A h \in Fd \ {f} : G[h] = F[h]
      /\ G[f] # None /\ G[f].of = F[f].of /\ G[f].peer = F[f].peer /\ G[f].hup = F[f].hup
      /\ G[f].in = F[f].in \o bytes
  <2>1. F[g].peer = f /\ F[f] # None
    BY <1>1
  <2>2. \A x \in Seq(Byte) :
           /\ Put(F, g, x) \in Files
           /\ \A h \in Fd \ {f} : Put(F, g, x)[h] = F[h]
           /\ Put(F, g, x)[f] # None
           /\ Put(F, g, x)[f].of = F[f].of /\ Put(F, g, x)[f].peer = F[f].peer
           /\ Put(F, g, x)[f].hup = F[f].hup
           /\ Put(F, g, x)[f].in = F[f].in \o x
    BY <1>1, <1>2, <2>1, PutBytes, ConstAssumption
  <2> QED BY <1>3, <2>2
<1>5. \A h \in Fd : SameFile(F, G, h) /\ (F[h] # None => G[h].hup = F[h].hup)
  BY <1>1, <1>4 DEF SameFile
<1> QED BY <1>4, <1>5 DEF F, f

LEMMA VspPttStep ==
  ASSUME ConInv, NEW c \in Vsps, NEW on \in BOOLEAN, VspPtt(c, on)
  PROVE  ConInv'
<1> DEFINE F == sys.file
           f == ctr[c].data
           b == <<IF on THEN "on" ELSE "off">>
           G == Put(F, ctr[c].cdata, b)
           T == ctr'
<1>0. /\ Works(ctr, c)
      /\ sys' = [sys EXCEPT !.file = G]
      /\ offLost' = offLost \ {c}
      /\ ctr' = [ctr EXCEPT ![c].keyed = on]
      /\ sess' = sess /\ keyer' = keyer /\ offs' = offs
  BY DEF VspPtt, Works
<1>c. c \in Con \ Tcps
  BY ConstAssumption DEF ConstAssumption, Tcps
<1>t. TypeOK /\ sys \in SysRec /\ F \in Files /\ ctr \in Ctrs /\ SessionsOf(sess)
      /\ Owned(F, sys.prod, sys.cons, ctr, sess)
  BY Parts DEF ConInv
<1>b. b \in Seq(Byte) /\ b # <<>> /\ \A h : LastOf(b, h) <=> on
  <2>1. b \in Seq(Byte)
    BY DEF Byte
  <2>2. b # <<>> /\ Len(b) = 1 /\ b[1] = IF on THEN "on" ELSE "off"
    OBVIOUS
  <2>3. \A h : LastOf(b, h) <=> on
    BY <2>2 DEF LastOf
  <2> QED BY <2>1, <2>2, <2>3
<1> HIDE DEF b, F
<1>1. /\ G \in Files /\ \A h \in Fd \ {f} : G[h] = F[h]
      /\ G[f].in = F[f].in \o b
      /\ \A h \in Fd : SameFile(F, G, h)
      /\ \A h \in Fd : F[h] # None => G[h].hup = F[h].hup
  BY <1>0, <1>b, <1>c, Written DEF F
<1>2. f \in Fd /\ F[f] # None /\ F[f].of = c /\ F[f].in \in Seq(Byte)
  <2>1. f \in Fd /\ F[f] # None /\ F[f].of = c
    BY <1>0, <1>c, EndsOf DEF F
  <2>2. F[f] \in FileRec
    BY <1>t, <2>1 DEF Files
  <2> QED BY <2>1, <2>2 DEF FileRec
<1> HIDE DEF G
<1>3. sys' \in SysRec /\ sys'.file = G /\ sys'.prod = sys.prod /\ sys'.cons = sys.cons
  BY <1>0, <1>1, <1>t, FileSet
<1>4. T \in Ctrs /\ T[c].keyed = on /\ SameCtr(ctr, T, c) /\ \A d \in Con \ {c} : T[d] = ctr[d]
  BY <1>0, <1>c, <1>t DEF Ctrs, SameCtr
<1>5. TypeOK'
  BY <1>0, <1>3, <1>4, <1>t DEF TypeOK, SysRec, Files, Producers, Consumers, Ctrs
<1>6. Owned(sys'.file, sys'.prod, sys'.cons, ctr', sess')
  <2> HIDE DEF T
  <2>1. \A d \in Con : SameCtr(ctr, T, d) /\ T[d].keyed \in BOOLEAN
    BY <1>4 DEF SameCtr, Ctrs
  <2>2. \A d \in Con : T[d].keyed => Works(ctr, d) /\ d \notin Tcps
    BY <1>0, <1>4, <1>c, <1>t DEF Owned, EndsOK
  <2>3. Owned(G, sys.prod, sys.cons, T, sess)
    BY <1>1, <1>t, <2>1, <2>2, Unaltered
  <2> QED BY <1>0, <1>3, <2>3 DEF T
<1>7. PttOK(sys'.file, sys'.prod, ctr', sess', offLost')
  <2> SUFFICES ASSUME NEW p \in sys.prod, LastOf(G[p.fd].in, p.held)
               PROVE  KeyedIn(T, sess, p.tag) \/ p.tag \in offLost \ {c}
    BY <1>0, <1>3 DEF PttOK
  <2>1. /\ p.fd \in Fd /\ p.tag \in Con /\ p.fd = ctr[p.tag].data /\ F[p.fd].of = p.tag
    BY ProducerIs DEF F
  <2>2. LastOf(F[p.fd].in, p.held) => KeyedIn(ctr, sess, p.tag) \/ p.tag \in offLost
    BY DEF ConInv, PttOK, F
  <2>3. CASE p.tag = c
    <3>1. LastOf(F[f].in \o b, p.held)
      BY <1>1, <2>1, <2>3
    <3>2. LastOf(F[f].in \o b, p.held) = LastOf(b, p.held)
      BY <1>2, <1>b, LastOfMore
    <3>3. on
      BY <1>b, <3>1, <3>2
    <3> QED BY <1>4, <2>3, <3>3 DEF KeyedIn
  <2>4. CASE p.tag # c
    <3>1. p.fd # f
      BY <1>2, <2>1, <2>4
    <3>2. G[p.fd] = F[p.fd] /\ T[p.tag] = ctr[p.tag]
      BY <1>1, <1>4, <2>1, <2>4, <3>1
    <3> QED BY <2>2, <2>4, <3>2 DEF KeyedIn
  <2> QED BY <2>3, <2>4
<1> QED BY <1>3, <1>5, <1>6, <1>7 DEF ConInv

LEMMA ReleaseStep ==
  ASSUME ConInv, NEW c \in Vsps, dv_release(c)
  PROVE  ConInv'
<1> DEFINE F == sys.file
           f == ctr[c].data
           G == SendOff(F, c)
           T == ctr'
<1>0. /\ ctr[c].keyed
      /\ sys' = [sys EXCEPT !.file = G]
      /\ offLost' = IF OffRefused(F, c) THEN offLost \cup {c} ELSE offLost
      /\ ctr' = [ctr EXCEPT ![c].keyed = FALSE]
      /\ sess' = sess /\ keyer' = keyer /\ offs' = offs
  BY DEF dv_release
<1>c. c \in Con \ Tcps
  BY ConstAssumption DEF ConstAssumption, Tcps
<1>t. TypeOK /\ sys \in SysRec /\ F \in Files /\ ctr \in Ctrs /\ SessionsOf(sess)
      /\ Owned(F, sys.prod, sys.cons, ctr, sess)
  BY Parts DEF ConInv
<1>w. Works(ctr, c) /\ Keyed(c)
  BY <1>0, <1>c, <1>t DEF Owned, EndsOK, Keyed
<1>1. f \in Fd /\ F[f] # None /\ F[f].of = c
  BY <1>w, <1>c, EndsOf
<1>2. /\ G \in Files /\ \A h \in Fd \ {f} : G[h] = F[h]
      /\ Keyed(c) /\ ~OffRefused(F, c) => \A h : ~LastOf(G[f].in, h)
      /\ Owned(G, sys.prod, sys.cons, ctr, sess)
  BY <1>w, <1>c, OffSent
<1> HIDE DEF G, F
<1>3. sys' \in SysRec /\ sys'.file = G /\ sys'.prod = sys.prod /\ sys'.cons = sys.cons
  BY <1>0, <1>2, <1>t, FileSet
<1>4. T \in Ctrs /\ ~T[c].keyed /\ SameCtr(ctr, T, c) /\ \A d \in Con \ {c} : T[d] = ctr[d]
  BY <1>0, <1>c, <1>t DEF Ctrs, SameCtr
<1>5. TypeOK'
  BY <1>0, <1>3, <1>4, <1>c, <1>t DEF TypeOK, SysRec, Files, Producers, Consumers, Ctrs
<1>6. Owned(sys'.file, sys'.prod, sys'.cons, ctr', sess')
  <2> HIDE DEF T
  <2>1. \A d \in Con : SameCtr(ctr, T, d) /\ T[d].keyed \in BOOLEAN
    BY <1>4 DEF SameCtr, Ctrs
  <2>2. \A d \in Con : T[d].keyed => Works(ctr, d) /\ d \notin Tcps
    BY <1>4, <1>c, <1>t DEF Owned, EndsOK
  <2>3. \A h \in Fd : SameFile(G, G, h)
    BY DEF SameFile
  <2>4. Owned(G, sys.prod, sys.cons, T, sess)
    BY <1>2, <1>t, <2>1, <2>2, <2>3, Unaltered
  <2> QED BY <1>0, <1>3, <2>4 DEF T
<1>7. PttOK(sys'.file, sys'.prod, ctr', sess', offLost')
  <2> SUFFICES ASSUME NEW p \in sys.prod, LastOf(G[p.fd].in, p.held)
               PROVE  KeyedIn(T, sess, p.tag) \/ p.tag \in offLost'
    BY <1>0, <1>3 DEF PttOK
  <2>1. /\ p.fd \in Fd /\ p.tag \in Con /\ p.fd = ctr[p.tag].data /\ F[p.fd].of = p.tag
    BY ProducerIs DEF F
  <2>2. LastOf(F[p.fd].in, p.held) => KeyedIn(ctr, sess, p.tag) \/ p.tag \in offLost
    BY DEF ConInv, PttOK, F
  <2>3. CASE p.tag = c
    BY <1>0, <1>2, <1>w, <2>1, <2>3
  <2>4. CASE p.tag # c
    <3>1. p.fd # f
      BY <1>1, <2>1, <2>4
    <3>2. G[p.fd] = F[p.fd] /\ T[p.tag] = ctr[p.tag]
      BY <1>2, <1>4, <2>1, <2>4, <3>1
    <3> QED BY <1>0, <2>2, <3>2 DEF KeyedIn
  <2> QED BY <2>3, <2>4
<1> QED BY <1>3, <1>5, <1>6, <1>7 DEF ConInv

LEMMA KeyerStep ==
  ASSUME ConInv, KeyerOff \/ KeyerOn
  PROVE  ConInv'
<1>t. TypeOK /\ sys \in SysRec /\ ctr \in Ctrs /\ SessionsOf(sess)
      /\ sys.file \in Files /\ sys.cons \in Consumers
      /\ Owned(sys.file, sys.prod, sys.cons, ctr, sess) /\ Once(sys.prod)
      /\ PttOK(sys.file, sys.prod, ctr, sess, offLost)
  BY Parts DEF ConInv
<1>1. CASE KeyerOff
  <2> DEFINE P2 == {Offline(p) : p \in sys.prod}
  <2>0. /\ sys' = [sys EXCEPT !.prod = P2] /\ offs < MaxOff /\ offs' = offs + 1 /\ keyer' = FALSE
        /\ ctr' = ctr /\ sess' = sess /\ offLost' = offLost
    BY <1>1 DEF KeyerOff
  <2>1. \A p \in sys.prod : /\ Offline(p) \in [fd : Fd, tag : Con, held : BOOLEAN]
                           /\ Offline(p).fd = p.fd /\ Offline(p).tag = p.tag /\ ~Offline(p).held
    <3> SUFFICES ASSUME NEW p \in sys.prod
                 PROVE  /\ Offline(p) \in [fd : Fd, tag : Con, held : BOOLEAN]
                        /\ Offline(p).fd = p.fd /\ Offline(p).tag = p.tag /\ ~Offline(p).held
      OBVIOUS
    <3>1. p \in [fd : Fd, tag : Con, held : BOOLEAN]
      BY <1>t DEF SysRec, Producers
    <3> QED BY <3>1 DEF Offline
  <2>2. P2 \in Producers
    BY <2>1 DEF Producers
  <2>3. \A h \in Fd, d \in Con : On(P2, h, d) <=> On(sys.prod, h, d)
    <3> SUFFICES ASSUME NEW h \in Fd, NEW d \in Con
                 PROVE  On(P2, h, d) <=> On(sys.prod, h, d)
      OBVIOUS
    <3>1. ASSUME On(P2, h, d) PROVE On(sys.prod, h, d)
      BY <2>1, <3>1 DEF On
    <3>2. ASSUME On(sys.prod, h, d) PROVE On(P2, h, d)
      <4>1. PICK p \in sys.prod : p.fd = h /\ p.tag = d
        BY <3>2 DEF On
      <4>2. Offline(p) \in P2 /\ Offline(p).fd = h /\ Offline(p).tag = d
        BY <2>1, <4>1
      <4> QED BY <4>2 DEF On
    <3> QED BY <3>1, <3>2
  <2>4. Once(P2)
    <3> SUFFICES ASSUME NEW p \in sys.prod, NEW q \in sys.prod, Offline(p).fd = Offline(q).fd
                 PROVE  Offline(p) = Offline(q)
      BY DEF Once
    <3>1. p = q
      BY <1>t, <2>1 DEF Once
    <3> QED BY <3>1
  <2>5. PttOK(sys.file, P2, ctr, sess, offLost)
    <3> SUFFICES ASSUME NEW p \in sys.prod, LastOf(sys.file[Offline(p).fd].in, Offline(p).held)
                 PROVE  KeyedIn(ctr, sess, Offline(p).tag) \/ Offline(p).tag \in offLost
      BY DEF PttOK
    <3>1. LastOf(sys.file[p.fd].in, p.held)
      BY <2>1 DEF LastOf
    <3> QED BY <1>t, <2>1, <3>1 DEF PttOK
  <2> HIDE DEF P2
  <2>6. sys' \in SysRec /\ sys'.file = sys.file /\ sys'.prod = P2 /\ sys'.cons = sys.cons
    BY <1>t, <2>0, <2>2 DEF SysRec
  <2>7. offs' \in 0..MaxOff
    BY <1>t, <2>0, ConstAssumption DEF TypeOK, ConstAssumption
  <2>8. TypeOK'
    BY <1>t, <2>0, <2>6, <2>7 DEF TypeOK, SysRec, Files, Producers, Consumers
  <2>9. Owned(sys.file, P2, sys.cons, ctr, sess)
    <3>1. /\ \A h \in Fd : SameFile(sys.file, sys.file, h)
          /\ \A d \in Con : SameCtr(ctr, ctr, d) /\ ctr[d].keyed \in BOOLEAN
      BY <1>t DEF SameFile, SameCtr, Ctrs
    <3>2. \A d \in Con : ctr[d].keyed => Works(ctr, d) /\ d \notin Tcps
      BY <1>t DEF Owned, EndsOK
    <3> QED BY <1>t, <2>3, <3>1, <3>2, Unaltered
  <2> QED BY <2>0, <2>4, <2>5, <2>6, <2>8, <2>9 DEF ConInv
<1>2. CASE KeyerOn
  <2>1. /\ sys' = sys /\ ctr' = ctr /\ sess' = sess /\ offs' = offs /\ offLost' = offLost /\ keyer' = TRUE
    BY <1>2 DEF KeyerOn
  <2>2. TypeOK'
    BY <1>t, <2>1 DEF TypeOK
  <2> QED BY <1>t, <2>1, <2>2 DEF ConInv
<1> QED BY <1>1, <1>2

\* The producer has taken what was there, the last of it counts.
LEMMA ProducerReads ==
  ASSUME ConInv, NEW p \in sys.prod, producer_cb(p), sys.file[p.fd].in # <<>>
  PROVE  ConInv'
<1> DEFINE F == sys.file
           f == p.fd
           G == [F EXCEPT ![f].in = <<>>]
           q == [p EXCEPT !.held = LastOf(F[f].in, @)]
           P2 == (sys.prod \ {p}) \cup {q}
<1>0. /\ sys' = [sys EXCEPT !.file[f].in = <<>>, !.prod = P2]
      /\ ctr' = ctr /\ sess' = sess /\ offs' = offs /\ offLost' = offLost /\ keyer' = keyer
  BY DEF producer_cb
<1>t. TypeOK /\ sys \in SysRec /\ ctr \in Ctrs /\ SessionsOf(sess)
      /\ F \in Files /\ sys.prod \in Producers /\ sys.cons \in Consumers
      /\ Owned(F, sys.prod, sys.cons, ctr, sess) /\ Once(sys.prod)
      /\ PttOK(F, sys.prod, ctr, sess, offLost)
  BY Parts DEF ConInv
<1>1. f \in Fd /\ F[f] # None /\ F[f] \in FileRec
  BY ProducerIs
<1>2. /\ G \in Files /\ \A h \in Fd \ {f} : G[h] = F[h]
      /\ G[f].in = <<>> /\ G[f].of = F[f].of /\ G[f].peer = F[f].peer /\ G[f].hup = F[f].hup
      /\ G[f] # None
  <2> DEFINE x == F[f]
             y == [x EXCEPT !.in = <<>>]
  <2>1. <<>> \in Seq(Byte) /\ x \in FileRec
    BY <1>1, EmptySeq
  <2>2. G = [F EXCEPT ![f] = y]
    OBVIOUS
  <2> HIDE DEF x, G
  <2>3. y \in FileRec /\ y.in = <<>> /\ y.of = x.of /\ y.peer = x.peer /\ y.hup = x.hup
    BY <2>1 DEF FileRec
  <2> HIDE DEF y, F, f
  <2>4. G \in Files /\ G[f] = y /\ \A h \in Fd \ {f} : G[h] = F[h]
    BY <1>1, <1>t, <2>2, <2>3 DEF Files
  <2>5. y # None
    BY <2>3, NoneIsNoFile, ConstAssumption
  <2>6. x = F[f]
    BY DEF x
  <2> HIDE DEF x
  <2> QED BY <2>3, <2>4, <2>5, <2>6
<1>3. /\ q \in [fd : Fd, tag : Con, held : BOOLEAN] /\ q.fd = f /\ q.tag = p.tag
      /\ q.held = LastOf(F[f].in, p.held)
  <2>1. p \in [fd : Fd, tag : Con, held : BOOLEAN]
    BY <1>t DEF Producers
  <2>2. LastOf(F[f].in, p.held) \in BOOLEAN
    BY DEF LastOf
  <2> QED BY <2>1, <2>2
<1>4. P2 \in Producers
  BY <1>3, <1>t DEF Producers
<1>5. /\ sys' \in SysRec /\ sys'.file = G /\ sys'.prod = P2 /\ sys'.cons = sys.cons
  <2>1. sys' = [sys EXCEPT !.file = G, !.prod = P2]
    BY <1>0
  <2> HIDE DEF G, P2
  <2> QED BY <1>2, <1>4, <1>t, <2>1 DEF SysRec
<1>6. \A h \in Fd, d \in Con : On(P2, h, d) <=> On(sys.prod, h, d)
  <2> HIDE DEF q, f
  <2> SUFFICES ASSUME NEW h \in Fd, NEW d \in Con
               PROVE  On(P2, h, d) <=> On(sys.prod, h, d)
    OBVIOUS
  <2>1. q.fd = p.fd /\ q.tag = p.tag
    BY <1>3 DEF f
  <2> QED BY <2>1 DEF On
<1>7. Once(P2)
  <2>1. q.fd = p.fd
    BY <1>3
  <2> HIDE DEF q
  <2> QED BY <1>t, <2>1 DEF Once
<1>8. PttOK(G, P2, ctr, sess, offLost)
  <2> HIDE DEF q, G
  <2> SUFFICES ASSUME NEW r \in P2, LastOf(G[r.fd].in, r.held)
               PROVE  KeyedIn(ctr, sess, r.tag) \/ r.tag \in offLost
    BY DEF PttOK
  <2>1. CASE r = q
    <3>1. q.held
      BY <1>2, <1>3, <2>1 DEF LastOf
    <3> QED BY <1>3, <1>t, <2>1, <3>1 DEF PttOK
  <2>2. CASE r \in sys.prod \ {p}
    <3>1. r.fd # f /\ r.fd \in Fd
      BY <1>t, <2>2, ProducerIs DEF Once
    <3>2. G[r.fd] = F[r.fd]
      BY <1>2, <3>1
    <3> QED BY <1>t, <2>2, <3>2 DEF PttOK
  <2> QED BY <2>1, <2>2
<1> HIDE DEF G, P2, F, f
<1>9. TypeOK'
  BY <1>0, <1>5, <1>t DEF TypeOK, SysRec, Files, Producers, Consumers
<1>10. Owned(G, P2, sys.cons, ctr, sess)
  <2>1. \A h \in Fd : SameFile(F, G, h) /\ (F[h] # None => G[h].hup = F[h].hup)
    BY <1>1, <1>2 DEF SameFile
  <2>2. \A d \in Con : SameCtr(ctr, ctr, d) /\ ctr[d].keyed \in BOOLEAN
    BY <1>t DEF SameCtr, Ctrs
  <2>3. \A d \in Con : ctr[d].keyed => Works(ctr, d) /\ d \notin Tcps
    BY <1>t DEF Owned, EndsOK
  <2> QED BY <1>6, <1>t, <2>1, <2>2, <2>3, Unaltered
<1> QED BY <1>0, <1>5, <1>7, <1>8, <1>9, <1>10 DEF ConInv

\* The other end is closed, and the router closes its own.
LEMMA RouterCloses ==
  ASSUME ConInv, NEW p \in sys.prod, sys.file[p.fd].hup,
         \/ sys' = mhr_rem_producer(mhr_rem_consumer(sys, p.fd), p.fd)
         \/ sys' = mhr_rem_consumer(mhr_rem_producer(sys, p.fd), p.fd),
         UNCHANGED <<ctr, sess, keyer, offs, offLost>>
  PROVE  ConInv'
<1> DEFINE F == sys.file
           f == p.fd
           c == p.tag
           G == fd_close(F, f)
           P2 == sys.prod \ At(sys.prod, f)
           Q2 == sys.cons \ At(sys.cons, f)
<1>t. TypeOK /\ sys \in SysRec /\ ctr \in Ctrs /\ SessionsOf(sess)
      /\ F \in Files /\ sys.prod \in Producers /\ sys.cons \in Consumers
      /\ Owned(F, sys.prod, sys.cons, ctr, sess) /\ Once(sys.prod)
      /\ PttOK(F, sys.prod, ctr, sess, offLost)
  BY Parts DEF ConInv
<1>1. /\ f \in Fd /\ c \in Con /\ F[f] # None /\ On(sys.prod, f, c) /\ On(sys.cons, f, c)
      /\ f = ctr[c].data /\ F[f].peer = ctr[c].cdata
  BY ProducerIs
<1>2. ~Works(ctr, c)
  BY <1>1, EndsOf
<1>3. ctr[c].cdata = 0 /\ 0 \notin Fd
  BY <1>1, <1>2, <1>t, FdType, ConstAssumption DEF Owned, EndsOK
<1>4. At(sys.prod, f) # {} /\ At(sys.cons, f) # {}
  BY <1>1 DEF At, On
<1>5. sys' = [file |-> G, prod |-> P2, cons |-> Q2]
  BY <1>1, <1>4, <1>t, BothRemoved
<1>6. G \in Files /\ G[f] = None /\ \A h \in Fd \ {f} : G[h] = F[h]
  <2>1. F[f].peer \notin Fd /\ \A h \in Fd \ {f} : h # F[f].peer
    BY <1>1, <1>3
  <2> HIDE DEF F, f
  <2> QED BY <1>1, <1>t, <2>1, FdClose, ConstAssumption
<1> HIDE DEF G
<1>7. /\ \A h \in Fd, d \in Con : On(P2, h, d) <=> On(sys.prod, h, d) /\ h # f
      /\ \A h \in Fd, d \in Con : On(Q2, h, d) <=> On(sys.cons, h, d) /\ h # f
  BY OthersStay
<1>8. P2 \subseteq sys.prod /\ \A q \in P2 : q.fd \in Fd \ {f}
  BY ProducerIs DEF At
<1>9. Q2 \subseteq sys.cons
  OBVIOUS
<1> HIDE DEF P2, Q2, F
<1>10. sys' \in SysRec /\ sys'.file = G /\ sys'.prod = P2 /\ sys'.cons = Q2
  BY <1>5, <1>6, <1>8, <1>9, <1>t DEF SysRec, Producers, Consumers
<1>11. TypeOK'
  BY <1>10, <1>t DEF TypeOK, SysRec, Files, Producers, Consumers
<1>12. Once(P2) /\ PttOK(G, P2, ctr, sess, offLost)
  <2>1. Once(P2)
    BY <1>8, <1>t DEF Once
  <2>2. \A q \in P2 : q \in sys.prod /\ G[q.fd] = F[q.fd]
    BY <1>6, <1>8
  <2>3. PttOK(G, P2, ctr, sess, offLost)
    BY <1>t, <2>2 DEF PttOK
  <2> QED BY <2>1, <2>3
<1>13. Owned(G, P2, Q2, ctr, sess)
  <2> HIDE DEF f, c
  <2> QED BY <1>1, <1>2, <1>6, <1>7, <1>t, EndpointDropped
<1> QED BY <1>10, <1>11, <1>12, <1>13 DEF ConInv

LEMMA ProducerStep ==
  ASSUME ConInv, NEW p \in sys.prod, producer_cb(p)
  PROVE  ConInv'
<1>1. CASE sys.file[p.fd].in # <<>>
  BY <1>1, ProducerReads
<1>2. CASE sys.file[p.fd].in = <<>>
  <2>1. /\ sys.file[p.fd].hup
        /\ sys' = mhr_rem_producer(mhr_rem_consumer(sys, p.fd), p.fd)
        /\ UNCHANGED <<ctr, sess, keyer, offs, offLost>>
    BY <1>2 DEF producer_cb
  <2> QED BY <2>1, RouterCloses
<1> QED BY <1>1, <1>2

LEMMA ConsumerStep ==
  ASSUME ConInv, NEW e \in sys.cons, consumer_cb(e)
  PROVE  ConInv'
<1>1. /\ sys.file[e.fd].hup
      /\ sys' = mhr_rem_consumer(mhr_rem_producer(sys, e.fd), e.fd)
      /\ UNCHANGED <<ctr, sess, keyer, offs, offLost>>
  BY DEF consumer_cb
<1>2. e.fd \in Fd /\ e.tag \in Con /\ On(sys.cons, e.fd, e.tag)
  BY Parts DEF ConInv, On
<1>3. On(sys.prod, e.fd, e.tag)
  BY <1>2 DEF ConInv, Owned, ListsOK
<1>4. PICK p \in sys.prod : p.fd = e.fd
  BY <1>3 DEF On
<1> QED BY <1>1, <1>4, RouterCloses

LEMMA FileChanged ==
  ASSUME ConstAssumption, NEW F \in Files, NEW f \in Fd, NEW y \in FileRec
  PROVE  LET G == [F EXCEPT ![f] = y]
         IN  G \in Files /\ G[f] = y /\ y # None /\ \A h \in Fd \ {f} : G[h] = F[h]
BY NoneIsNoFile DEF Files

\* A step that touches the socket of a session and no other file.
LEMMA SocketTouched ==
  ASSUME ConInv, NEW k \in DOMAIN sess, NEW G, NEW T, NEW S2,
         G[sess[k].fd] # None, G[sess[k].fd].of = sys.file[sess[k].fd].of,
         G[sess[k].fd].peer = sys.file[sess[k].fd].peer,
         \A h \in Fd \ {sess[k].fd} : G[h] = sys.file[h],
         \A d \in Con : SameCtr(ctr, T, d) /\ T[d].keyed = ctr[d].keyed,
         DOMAIN S2 = DOMAIN sess,
         \A l \in DOMAIN sess : /\ S2[l].con = sess[l].con /\ S2[l].fd = sess[l].fd
                                /\ S2[l].ptt = sess[l].ptt
  PROVE  Owned(G, sys.prod, sys.cons, T, S2) /\ PttOK(G, sys.prod, T, S2, offLost)
<1> DEFINE F == sys.file
           f == sess[k].fd
<1>t. /\ ctr \in Ctrs /\ SessionsOf(sess) /\ TypeOK
      /\ Owned(F, sys.prod, sys.cons, ctr, sess) /\ PttOK(F, sys.prod, ctr, sess, offLost)
  BY Parts DEF ConInv
<1>1. f \in Fd /\ F[f] # None
  BY SessionIs
<1>2. \A h \in Fd : SameFile(F, G, h)
  BY <1>1 DEF SameFile
<1>3. \A h \in Fd : F[h] # None => G[h].hup = F[h].hup \/ \E l \in DOMAIN sess : sess[l].fd = h
  BY <1>1
<1>4. \A d \in Con : T[d].keyed \in BOOLEAN /\ (T[d].keyed => Works(ctr, d) /\ d \notin Tcps)
  BY <1>t DEF Owned, EndsOK, Ctrs
<1>5. Owned(G, sys.prod, sys.cons, T, S2)
  <2> HIDE DEF F, f
  <2>1. \A d \in Con : SameCtr(ctr, T, d)
    OBVIOUS
  <2>2. \A l \in DOMAIN sess : S2[l].con = sess[l].con /\ S2[l].fd = sess[l].fd
    OBVIOUS
  <2> QED BY <1>2, <1>3, <1>4, <1>t, <2>1, <2>2, Unaltered
<1>6. PttOK(G, sys.prod, T, S2, offLost)
  <2> SUFFICES ASSUME NEW p \in sys.prod, LastOf(G[p.fd].in, p.held)
               PROVE  KeyedIn(T, S2, p.tag) \/ p.tag \in offLost
    BY DEF PttOK
  <2>1. p.fd \in Fd \ {f} /\ p.tag \in Con
    BY ProducerIs
  <2>2. G[p.fd] = F[p.fd] /\ T[p.tag].keyed = ctr[p.tag].keyed
    BY <2>1
  <2>3. KeyedIn(ctr, sess, p.tag) \/ p.tag \in offLost
    BY <1>t, <2>2 DEF PttOK
  <2> QED BY <2>2, <2>3 DEF KeyedIn
<1> QED BY <1>5, <1>6

LEMMA ClientStep ==
  ASSUME ConInv, NEW k \in DOMAIN sess,
         (\E b \in Byte : Say(k, b)) \/ (\E broken \in BOOLEAN : Leave(k, broken))
  PROVE  ConInv'
<1> DEFINE F == sys.file
           f == sess[k].fd
<1>t. /\ TypeOK /\ sys \in SysRec /\ F \in Files /\ ctr \in Ctrs
  BY Parts DEF ConInv
<1>1. f \in Fd /\ F[f] # None /\ F[f] \in FileRec
  BY SessionIs
<1>u. UNCHANGED <<ctr, sess, keyer, offs, offLost>>
  BY DEF Say, Leave
<1>2. \E x \in Seq(Byte), hup \in BOOLEAN :
        sys' = [sys EXCEPT !.file = [F EXCEPT ![f] = [F[f] EXCEPT !.in = x, !.hup = hup]]]
  <2>0. F[f].in \in Seq(Byte) /\ F[f].hup \in BOOLEAN /\ <<>> \in Seq(Byte)
    BY <1>1, EmptySeq DEF FileRec
  <2>1. ASSUME NEW b \in Byte, Say(k, b)
        PROVE  \E x \in Seq(Byte), hup \in BOOLEAN :
                 sys' = [sys EXCEPT !.file = [F EXCEPT ![f] = [F[f] EXCEPT !.in = x, !.hup = hup]]]
    <3> DEFINE x == Append(F[f].in, b)
               z == F[f]
    <3>1. x \in Seq(Byte)
      BY <2>0
    <3>2. sys' = [sys EXCEPT !.file = [F EXCEPT ![f] = [z EXCEPT !.in = x]]]
      BY <2>1 DEF Say
    <3>3. z \in FileRec /\ z.hup \in BOOLEAN
      BY <1>1, <2>0
    <3> HIDE DEF x, z
    <3>4. [z EXCEPT !.in = x] = [z EXCEPT !.in = x, !.hup = z.hup]
      BY <3>3 DEF FileRec
    <3>5. sys' = [sys EXCEPT !.file = [F EXCEPT ![f] = [z EXCEPT !.in = x, !.hup = z.hup]]]
      BY <3>2, <3>4
    <3> QED BY <3>1, <3>3, <3>5 DEF z
  <2>2. ASSUME NEW broken \in BOOLEAN, Leave(k, broken)
        PROVE  \E x \in Seq(Byte), hup \in BOOLEAN :
                 sys' = [sys EXCEPT !.file = [F EXCEPT ![f] = [F[f] EXCEPT !.in = x, !.hup = hup]]]
    <3> DEFINE x == IF broken THEN <<>> ELSE F[f].in
               z == F[f]
    <3>1. x \in Seq(Byte)
      BY <2>0
    <3>2. sys' = [sys EXCEPT !.file = [F EXCEPT ![f] = [z EXCEPT !.hup = TRUE, !.in = x]]]
      BY <2>2 DEF Leave
    <3>3. z \in FileRec
      BY <1>1
    <3> HIDE DEF x, z
    <3>4. [z EXCEPT !.hup = TRUE, !.in = x] = [z EXCEPT !.in = x, !.hup = TRUE]
      BY <3>3 DEF FileRec
    <3>5. sys' = [sys EXCEPT !.file = [F EXCEPT ![f] = [z EXCEPT !.in = x, !.hup = TRUE]]]
      BY <3>2, <3>4
    <3> QED BY <3>1, <3>5 DEF z
  <2> QED BY <2>1, <2>2
<1>3. PICK x \in Seq(Byte), hup \in BOOLEAN :
        sys' = [sys EXCEPT !.file = [F EXCEPT ![f] = [F[f] EXCEPT !.in = x, !.hup = hup]]]
  BY <1>2
<1> DEFINE y == [F[f] EXCEPT !.in = x, !.hup = hup]
           G == [F EXCEPT ![f] = y]
<1>4. /\ G \in Files /\ G[f] # None /\ G[f].of = F[f].of /\ G[f].peer = F[f].peer
      /\ \A h \in Fd \ {f} : G[h] = F[h]
  <2> DEFINE z == F[f]
  <2>1. z \in FileRec /\ z = F[f] /\ y = [z EXCEPT !.in = x, !.hup = hup]
    BY <1>1
  <2> HIDE DEF F, f, z, y
  <2>2. y \in FileRec /\ y.of = z.of /\ y.peer = z.peer
    BY <2>1 DEF FileRec
  <2>3. G \in Files /\ G[f] = y /\ y # None /\ \A h \in Fd \ {f} : G[h] = F[h]
    BY <1>1, <1>t, <2>2, FileChanged, ConstAssumption
  <2> HIDE DEF G
  <2> QED BY <2>1, <2>2, <2>3
<1>5. sys' = [sys EXCEPT !.file = G]
  BY <1>3
<1> HIDE DEF G
<1>6. sys' \in SysRec /\ sys'.file = G /\ sys'.prod = sys.prod /\ sys'.cons = sys.cons
  BY <1>4, <1>5, <1>t, FileSet
<1>7. TypeOK'
  BY <1>6, <1>t, <1>u DEF TypeOK, SysRec, Files, Producers, Consumers
<1>8. Owned(G, sys.prod, sys.cons, ctr, sess) /\ PttOK(G, sys.prod, ctr, sess, offLost)
  <2>1. \A d \in Con : SameCtr(ctr, ctr, d)
    BY DEF SameCtr
  <2> QED BY <1>4, <2>1, SocketTouched
<1> QED BY <1>6, <1>7, <1>8, <1>u DEF ConInv

LEMMA ListenerStep ==
  ASSUME ConInv, NEW c \in Tcps, lsnr_cb(c)
  PROVE  ConInv'
<1> DEFINE F == sys.file
           f == NthFree(F, 1)
           new == Client \ DOMAIN sess
           cl == CHOOSE k \in new : \A j \in new : k <= j
           y == File(c, 0)
           G == [F EXCEPT ![f] = y]
           S2 == sess'
<1>0. /\ ctr[c].live /\ FreeFds(F) # {} /\ new # {} /\ Sessions(c) = {}
      /\ sys' = [sys EXCEPT !.file = G]
      /\ sess' = [k \in DOMAIN sess \cup {cl} |-> IF k = cl THEN NewSession(c, f) ELSE sess[k]]
      /\ ctr' = ctr /\ keyer' = keyer /\ offs' = offs /\ offLost' = offLost
  BY DEF lsnr_cb
<1>c. c \in Con
  BY DEF Tcps
<1>t. /\ TypeOK /\ sys \in SysRec /\ F \in Files /\ ctr \in Ctrs /\ SessionsOf(sess)
      /\ Owned(F, sys.prod, sys.cons, ctr, sess) /\ Once(sys.prod)
      /\ PttOK(F, sys.prod, ctr, sess, offLost)
  BY Parts DEF ConInv
<1>1. f \in Fd /\ F[f] = None
  BY <1>0, FirstFree, ConstAssumption DEF FreeFds
<1>2. cl \in Client /\ cl \notin DOMAIN sess
  <2>1. new \subseteq Nat
    BY ConstAssumption DEF ConstAssumption
  <2>2. \E k \in new : \A j \in new : k <= j
    BY <1>0, <2>1, MinExists
  <2>3. cl \in new
    BY <2>2
  <2> QED BY <2>3
<1> HIDE DEF f, cl
<1>3. y \in FileRec /\ y.of = c /\ y.peer = 0
  <2>1. 0 \in 0..MaxFd /\ <<>> \in Seq(Byte)
    BY FdType, ConstAssumption, EmptySeq
  <2> QED BY <1>c, <2>1 DEF File, FileRec
<1> HIDE DEF y
<1>4. G \in Files /\ G[f] = y /\ y # None /\ \A h \in Fd \ {f} : G[h] = F[h]
  BY <1>1, <1>3, <1>t, FileChanged, ConstAssumption
<1> HIDE DEF G
<1>5. sys' \in SysRec /\ sys'.file = G /\ sys'.prod = sys.prod /\ sys'.cons = sys.cons
  BY <1>0, <1>4, <1>t, FileSet
<1>6. /\ DOMAIN S2 = DOMAIN sess \cup {cl}
      /\ S2[cl] = NewSession(c, f) /\ \A k \in DOMAIN sess : S2[k] = sess[k]
  BY <1>0, <1>2
<1>7. NewSession(c, f) \in SessRec /\ NewSession(c, f).con = c /\ NewSession(c, f).fd = f
  <2>1. 0 \in 0..BufCap /\ <<>> \in Seq(Byte)
    BY ConstAssumption, EmptySeq DEF ConstAssumption
  <2> QED BY <1>1, <1>c, <2>1 DEF NewSession, SessRec
<1>8. SessionsOf(S2)
  <2>1. \A k \in DOMAIN S2 : S2[k] \in SessRec
    BY <1>6, <1>7, <1>t, Parts
  <2>2. S2 = [k \in DOMAIN S2 |-> S2[k]]
    BY <1>0
  <2>3. S2 \in [DOMAIN S2 -> SessRec]
    BY <2>1, <2>2
  <2>4. DOMAIN S2 \subseteq Client
    BY <1>2, <1>6, <1>t DEF SessionsOf
  <2> QED BY <2>3, <2>4 DEF SessionsOf
<1>9. TypeOK'
  BY <1>0, <1>5, <1>8, <1>t DEF TypeOK, SysRec, Files, Producers, Consumers, SessionsOf, SessRec
<1>10. PttOK(G, sys.prod, ctr, S2, offLost)
  <2> SUFFICES ASSUME NEW p \in sys.prod, LastOf(G[p.fd].in, p.held)
               PROVE  KeyedIn(ctr, S2, p.tag) \/ p.tag \in offLost
    BY DEF PttOK
  <2>1. p.fd \in Fd \ {f}
    BY <1>1, ProducerIs
  <2>2. KeyedIn(ctr, sess, p.tag) \/ p.tag \in offLost
    BY <1>4, <1>t, <2>1 DEF PttOK
  <2> QED BY <1>6, <2>2 DEF KeyedIn
<1>11. Owned(G, sys.prod, sys.cons, ctr, S2)
  <2>1. \A k \in DOMAIN sess : sess[k].con # c
    BY <1>0 DEF Sessions
  <2>2. S2[cl].con = c /\ S2[cl].fd = f
    BY <1>6, <1>7
  <2>3. G[f] # None /\ G[f].of = c /\ G[f].peer = 0
    BY <1>3, <1>4
  <2> HIDE DEF F, S2
  <2> QED BY <1>0, <1>1, <1>2, <1>4, <1>6, <1>t, <2>1, <2>2, <2>3, SessionAdded DEF S2
<1> QED BY <1>0, <1>5, <1>9, <1>10, <1>11, <1>t DEF ConInv

LEMMA EndSessionStep ==
  ASSUME ConInv, NEW k \in DOMAIN sess, rem_session(k)
  PROVE  ConInv'
<1> DEFINE F == sys.file
           x == sess[k].fd
           c == sess[k].con
           f == ctr[c].data
           H == IF sess[k].ptt THEN SendOff(F, c) ELSE F
           G == fd_close(H, x)
           S2 == sess'
<1>0. /\ sys' = [sys EXCEPT !.file = G]
      /\ offLost' = IF ~sess[k].ptt THEN offLost
                    ELSE IF OffRefused(F, c) THEN offLost \cup {c} ELSE offLost \ {c}
      /\ sess' = [l \in DOMAIN sess \ {k} |-> sess[l]]
      /\ ctr' = ctr /\ keyer' = keyer /\ offs' = offs
  BY DEF rem_session
<1>t. /\ TypeOK /\ sys \in SysRec /\ F \in Files /\ ctr \in Ctrs /\ SessionsOf(sess)
      /\ Owned(F, sys.prod, sys.cons, ctr, sess) /\ Once(sys.prod)
      /\ PttOK(F, sys.prod, ctr, sess, offLost)
  BY Parts DEF ConInv
<1>1. /\ x \in Fd /\ c \in Con /\ Works(ctr, c) /\ ~ctr[c].keyed
      /\ F[x] # None /\ F[x].peer = 0 /\ x # f
      /\ \A l \in DOMAIN sess : sess[l].con = c => l = k
  BY SessionIs
<1>2. /\ H \in Files /\ \A h \in Fd \ {f} : H[h] = F[h]
      /\ Owned(H, sys.prod, sys.cons, ctr, sess)
      /\ sess[k].ptt /\ ~OffRefused(F, c) => \A h : ~LastOf(H[f].in, h)
  <2>1. CASE sess[k].ptt
    <3>1. Keyed(c)
      BY <2>1 DEF Keyed, Sessions
    <3> QED BY <1>1, <2>1, <3>1, OffSent
  <2>2. CASE ~sess[k].ptt
    BY <1>t, <2>2
  <2> QED BY <2>1, <2>2
<1>h. ~sess[k].ptt => H = F
  OBVIOUS
<1> HIDE DEF H, F
<1>3. /\ G \in Files /\ G[x] = None /\ \A h \in Fd \ {x} : G[h] = H[h]
  <2>1. H[x] # None /\ H[x].peer = 0
    BY <1>1, <1>2
  <2>2. H[x].peer \notin Fd /\ \A h \in Fd \ {x} : h # H[x].peer
    BY <2>1, FdType, ConstAssumption
  <2> HIDE DEF x
  <2> QED BY <1>1, <1>2, <2>1, <2>2, FdClose, ConstAssumption
<1> HIDE DEF G
<1>4. sys' \in SysRec /\ sys'.file = G /\ sys'.prod = sys.prod /\ sys'.cons = sys.cons
  BY <1>0, <1>3, <1>t, FileSet
<1>5. DOMAIN S2 = DOMAIN sess \ {k} /\ \A l \in DOMAIN S2 : S2[l] = sess[l]
  BY <1>0
<1>6. SessionsOf(S2)
  <2>1. \A l \in DOMAIN S2 : S2[l] \in SessRec
    BY <1>5, <1>t, Parts
  <2>2. S2 = [l \in DOMAIN S2 |-> S2[l]]
    BY <1>0
  <2>3. S2 \in [DOMAIN S2 -> SessRec]
    BY <2>1, <2>2
  <2>4. DOMAIN S2 \subseteq Client
    BY <1>5, <1>t DEF SessionsOf
  <2> QED BY <2>3, <2>4 DEF SessionsOf
<1>7. TypeOK'
  BY <1>0, <1>1, <1>4, <1>6, <1>t DEF TypeOK, SysRec, Files, Producers, Consumers, SessionsOf, SessRec
<1>8. PttOK(G, sys.prod, ctr, S2, offLost')
  <2> SUFFICES ASSUME NEW p \in sys.prod, LastOf(G[p.fd].in, p.held)
               PROVE  KeyedIn(ctr, S2, p.tag) \/ p.tag \in offLost'
    BY DEF PttOK
  <2>1. /\ p.fd \in Fd \ {x} /\ p.tag \in Con /\ p.fd = ctr[p.tag].data /\ F[p.fd].of = p.tag
    BY ProducerIs DEF F
  <2>2. LastOf(H[p.fd].in, p.held)
    BY <1>3, <2>1
  <2>3. LastOf(F[p.fd].in, p.held) => KeyedIn(ctr, sess, p.tag) \/ p.tag \in offLost
    BY <1>t DEF PttOK
  <2>4. CASE p.tag = c /\ sess[k].ptt
    BY <1>0, <1>2, <2>1, <2>2, <2>4
  <2>5. CASE p.tag = c /\ ~sess[k].ptt
    <3>1. ~KeyedIn(ctr, sess, c)
      BY <1>1, <2>5 DEF KeyedIn
    <3> QED BY <1>0, <1>h, <2>2, <2>3, <2>5, <3>1
  <2>6. CASE p.tag # c
    <3>1. p.fd # f
      <4>1. F[f].of = c
        BY <1>1, EndsOf DEF F
      <4> QED BY <2>1, <2>6, <4>1
    <3>2. H[p.fd] = F[p.fd]
      BY <1>2, <2>1, <3>1
    <3>3. KeyedIn(ctr, sess, p.tag) \/ p.tag \in offLost
      BY <2>2, <2>3, <3>2
    <3> QED BY <1>0, <1>5, <2>6, <3>3 DEF KeyedIn
  <2> QED BY <2>4, <2>5, <2>6
<1>9. Owned(G, sys.prod, sys.cons, ctr, S2)
  <2> HIDE DEF S2
  <2> QED BY <1>2, <1>3, <1>5, <1>t, SessionEnded DEF x
<1> QED BY <1>0, <1>4, <1>7, <1>8, <1>9, <1>t DEF ConInv

\* The two parts of a queue cut after its first n bytes.
LEMMA Cut ==
  ASSUME NEW s \in Seq(Byte), NEW n \in Nat, n <= Len(s)
  PROVE  /\ SubSeq(s, 1, n) \in Seq(Byte) /\ SubSeq(s, n + 1, Len(s)) \in Seq(Byte)
         /\ n > 0 => SubSeq(s, 1, n) # <<>>
<1>1. Len(s) \in Nat /\ \A i \in 1..Len(s) : s[i] \in Byte
  BY LenProperties, ElementOfSeq
<1>2. (\A i \in 1..n : s[i] \in Byte) /\ \A i \in (n + 1)..Len(s) : s[i] \in Byte
  BY <1>1
<1>3. /\ SubSeq(s, 1, n) \in Seq(Byte)
      /\ Len(SubSeq(s, 1, n)) = IF 1 <= n THEN n - 1 + 1 ELSE 0
  BY <1>2, SubSeqProperties, 1 \in Int, n \in Int
<1>4. SubSeq(s, n + 1, Len(s)) \in Seq(Byte)
  BY <1>1, <1>2, SubSeqProperties, n + 1 \in Int
<1> QED BY <1>3, <1>4, EmptySeq

LEMMA ClientInStep ==
  ASSUME ConInv, NEW k \in DOMAIN sess, client_in_cb(k)
  PROVE  ConInv'
<1> DEFINE F == sys.file
           s == sess[k]
           x == s.fd
           z == F[x]
           n == IF Len(z.in) < BufCap - s.size THEN Len(z.in) ELSE BufCap - s.size
<1>1. CASE n = 0
  BY <1>1, EndSessionStep DEF client_in_cb
<1>2. CASE n # 0
  <2> DEFINE rest == SubSeq(z.in, n + 1, Len(z.in))
             read == SubSeq(z.in, 1, n)
             y == [z EXCEPT !.in = rest]
             G == [F EXCEPT ![x] = y]
             T == ctr'
             S2 == sess'
  <2>0. /\ sys' = [sys EXCEPT !.file = G]
        /\ sess' = [sess EXCEPT ![k].data = s.data \o read, ![k].size = s.size + n]
        /\ ctr' = [ctr EXCEPT ![s.con].wout = TRUE]
        /\ keyer' = keyer /\ offs' = offs /\ offLost' = offLost
    BY <1>2 DEF client_in_cb
  <2>t. /\ TypeOK /\ sys \in SysRec /\ F \in Files /\ ctr \in Ctrs /\ SessionsOf(sess)
        /\ Once(sys.prod)
    BY Parts DEF ConInv
  <2>1. /\ s \in SessRec /\ x \in Fd /\ s.con \in Con /\ z \in FileRec /\ z # None
    BY SessionIs
  <2>2. z.in \in Seq(Byte) /\ s.data \in Seq(Byte) /\ s.size \in 0..BufCap
    BY <2>1 DEF FileRec, SessRec
  <2>3. Len(z.in) \in Nat /\ BufCap \in Nat
    BY <2>2, LenProperties, ConstAssumption DEF ConstAssumption
  <2> HIDE DEF s, z
  <2>4. n \in Nat /\ n <= Len(z.in) /\ s.size + n \in 0..BufCap
    BY <2>2, <2>3
  <2> HIDE DEF n
  <2>5. rest \in Seq(Byte) /\ read \in Seq(Byte)
    BY <2>2, <2>4, Cut
  <2>6. s.data \o read \in Seq(Byte)
    BY <2>2, <2>5, ConcatProperties
  <2> HIDE DEF rest, read
  <2>7. y \in FileRec /\ y.of = z.of /\ y.peer = z.peer
    BY <2>1, <2>5 DEF FileRec
  <2> HIDE DEF y, x, F
  <2>8. G \in Files /\ G[x] = y /\ y # None /\ \A h \in Fd \ {x} : G[h] = F[h]
    BY <2>1, <2>7, <2>t, FileChanged, ConstAssumption
  <2> HIDE DEF G
  <2>9. sys' \in SysRec /\ sys'.file = G /\ sys'.prod = sys.prod /\ sys'.cons = sys.cons
    BY <2>0, <2>8, <2>t, FileSet
  <2>10. /\ T \in Ctrs
         /\ \A d \in Con : SameCtr(ctr, T, d) /\ T[d].keyed = ctr[d].keyed
    BY <2>0, <2>1, <2>t DEF Ctrs, SameCtr
  <2>11. /\ DOMAIN S2 = DOMAIN sess /\ S2 = [l \in DOMAIN sess |-> S2[l]]
         /\ \A l \in DOMAIN sess \ {k} : S2[l] = sess[l]
    BY <2>0
  <2>12. /\ S2[k] \in SessRec /\ S2[k].con = s.con /\ S2[k].fd = s.fd /\ S2[k].ptt = s.ptt
    <3> DEFINE d == s.data \o read
               m == s.size + n
    <3>1. s = sess[k] /\ d \in Seq(Byte) /\ m \in 0..BufCap
      BY <2>4, <2>6 DEF s
    <3> HIDE DEF d, m
    <3>2. S2[k] = [s EXCEPT !.data = d, !.size = m]
      BY <2>0, <3>1 DEF d, m
    <3> HIDE DEF S2
    <3> QED BY <2>1, <3>1, <3>2 DEF SessRec
  <2>13. SessionsOf(S2)
    <3>1. \A l \in DOMAIN S2 : S2[l] \in SessRec
      BY <2>11, <2>12, <2>t, Parts
    <3>2. S2 \in [DOMAIN S2 -> SessRec]
      BY <2>11, <3>1
    <3> QED BY <2>11, <2>t, <3>2 DEF SessionsOf
  <2>14. TypeOK'
    BY <2>0, <2>9, <2>10, <2>13, <2>t
       DEF TypeOK, SysRec, Files, Producers, Consumers, SessionsOf, SessRec, Ctrs
  <2>15. Owned(G, sys.prod, sys.cons, T, S2) /\ PttOK(G, sys.prod, T, S2, offLost)
    <3>1. /\ G[sess[k].fd] # None /\ G[sess[k].fd].of = sys.file[sess[k].fd].of
          /\ G[sess[k].fd].peer = sys.file[sess[k].fd].peer
          /\ \A h \in Fd \ {sess[k].fd} : G[h] = sys.file[h]
      BY <2>7, <2>8 DEF F, x, s, z
    <3>2. \A l \in DOMAIN sess : /\ S2[l].con = sess[l].con /\ S2[l].fd = sess[l].fd
                                 /\ S2[l].ptt = sess[l].ptt
      BY <2>11, <2>12 DEF s
    <3> HIDE DEF T, S2
    <3> QED BY <2>10, <2>11, <3>1, <3>2, SocketTouched
  <2> QED BY <2>0, <2>9, <2>14, <2>15, <2>t DEF ConInv
<1> QED BY <1>1, <1>2

LEMMA DataOutStep ==
  ASSUME ConInv, NEW c \in Tcps, data_out_cb(c)
  PROVE  ConInv'
<1> DEFINE F == sys.file
           f == ctr[c].data
           g == ctr[c].cdata
           ss == {k \in Sessions(c) : sess[k].data # <<>>}
           room == Room(F, g)
           T == ctr'
           S2 == sess'
<1>c. c \in Con
  BY DEF Tcps
<1>t. /\ TypeOK /\ sys \in SysRec /\ F \in Files /\ ctr \in Ctrs /\ SessionsOf(sess)
      /\ Owned(F, sys.prod, sys.cons, ctr, sess) /\ Once(sys.prod)
      /\ PttOK(F, sys.prod, ctr, sess, offLost)
  BY Parts DEF ConInv
<1>u. keyer' = keyer /\ offs' = offs
  BY DEF data_out_cb
<1>k. /\ \A d \in Con : ctr[d].keyed => Works(ctr, d) /\ d \notin Tcps
      /\ \A d \in Con : ctr[d].keyed \in BOOLEAN
  BY <1>t DEF Owned, EndsOK, Ctrs
<1>1. ASSUME ss = {}, ctr' = [ctr EXCEPT ![c].wout = FALSE], UNCHANGED <<sys, sess, offLost>>
      PROVE  ConInv'
  <2>1. /\ T \in Ctrs
        /\ \A d \in Con : SameCtr(ctr, T, d) /\ T[d].keyed = ctr[d].keyed
    BY <1>1, <1>c, <1>t DEF Ctrs, SameCtr
  <2>2. TypeOK'
    BY <1>1, <1>t, <1>u, <2>1 DEF TypeOK, Ctrs
  <2>3. PttOK(F, sys.prod, T, sess, offLost)
    <3>1. \A p \in sys.prod : T[p.tag].keyed = ctr[p.tag].keyed
      BY <2>1, ProducerIs
    <3> QED BY <1>t, <3>1 DEF PttOK, KeyedIn
  <2>4. Owned(F, sys.prod, sys.cons, T, sess)
    <3> HIDE DEF T, F
    <3>1. \A h \in Fd : SameFile(F, F, h)
      BY DEF SameFile
    <3> QED BY <1>k, <1>t, <2>1, <3>1, Unaltered
  <2> QED BY <1>1, <1>t, <2>2, <2>3, <2>4 DEF ConInv
<1>2. ASSUME NEW k \in ss
      PROVE  LET s == sess[k]
                 n == IF Len(s.data) < room THEN Len(s.data) ELSE room
                 out == SubSeq(s.data, 1, n)
             IN  /\ n > 0
                 /\ sys' = [sys EXCEPT !.file = Put(F, g, out)]
                 /\ sess' = [sess EXCEPT ![k] = [buf_consume(s, n) EXCEPT !.ptt = LastOf(out, s.ptt)]]
                 /\ ctr' = [ctr EXCEPT ![c].wout = n < Len(s.data) \/ ss # {k}]
                 /\ offLost' = offLost \ {c}
                 => ConInv'
  <2> DEFINE s == sess[k]
             n == IF Len(s.data) < room THEN Len(s.data) ELSE room
             out == SubSeq(s.data, 1, n)
             G == Put(F, g, out)
             r == buf_consume(s, n)
             ptt == LastOf(out, s.ptt)
             wout == n < Len(s.data) \/ ss # {k}
  <2> SUFFICES ASSUME n > 0,
                      sys' = [sys EXCEPT !.file = G],
                      sess' = [sess EXCEPT ![k] = [r EXCEPT !.ptt = ptt]],
                      ctr' = [ctr EXCEPT ![c].wout = wout],
                      offLost' = offLost \ {c}
               PROVE  ConInv'
    OBVIOUS
  <2>k. k \in DOMAIN sess /\ s.con = c
    BY DEF Sessions
  <2>1. s \in SessRec /\ Works(ctr, c)
    BY <2>k, SessionIs
  <2>2. s.data \in Seq(Byte) /\ Len(s.data) \in Nat
    BY <2>1, LenProperties DEF SessRec
  <2>3. /\ f \in Fd /\ g \in Fd /\ F[f] # None /\ F[f].of = c /\ F[g].peer = f
    BY <1>c, <2>1, EndsOf
  <2>4. F[f].in \in Seq(Byte) /\ Len(F[f].in) \in Nat
    <3>1. F[f] \in FileRec
      BY <1>t, <2>3 DEF Files
    <3>2. F[f].in \in Seq(Byte)
      BY <3>1 DEF FileRec
    <3> QED BY <3>2, LenProperties
  <2>5. n \in Nat /\ n <= Len(s.data)
    <3>0. room = SockCap - Len(F[f].in)
      BY <2>3 DEF Room
    <3>9. SockCap \in Nat
      BY ConstAssumption DEF ConstAssumption
    <3>1. room \in Int
      <4> HIDE DEF room, F, f
      <4> QED BY <2>4, <3>0, <3>9
    <3> HIDE DEF room
    <3> QED BY <2>2, <3>1
  <2>6. n > 0 /\ wout \in BOOLEAN
    OBVIOUS
  <2>s. s = sess[k]
    OBVIOUS
  <2> HIDE DEF n, s, wout
  <2>7. out \in Seq(Byte) /\ out # <<>>
    BY <2>2, <2>5, <2>6, Cut
  <2>8. ptt \in BOOLEAN
    BY <2>7 DEF LastOf
  <2>9. r \in SessRec /\ r.con = s.con /\ r.fd = s.fd
    <3> DEFINE rest == SubSeq(s.data, n + 1, Len(s.data))
    <3>1. rest \in Seq(Byte) /\ <<>> \in Seq(Byte) /\ 0 \in 0..BufCap
      BY <2>2, <2>5, Cut, EmptySeq, ConstAssumption DEF ConstAssumption
    <3>2. r = IF n = Len(s.data) THEN [s EXCEPT !.data = <<>>, !.size = 0] ELSE [s EXCEPT !.data = rest]
      BY DEF buf_consume
    <3> HIDE DEF rest, r
    <3> QED BY <2>1, <3>1, <3>2 DEF SessRec
  <2> HIDE DEF out, r, F, f
  <2>10. /\ G \in Files /\ \A h \in Fd \ {f} : G[h] = F[h]
         /\ G[f].in = F[f].in \o out
         /\ \A h \in Fd : SameFile(F, G, h)
         /\ \A h \in Fd : F[h] # None => G[h].hup = F[h].hup
    BY <1>c, <2>1, <2>7, Written DEF F, f
  <2> HIDE DEF ptt, G
  <2>11. sys' \in SysRec /\ sys'.file = G /\ sys'.prod = sys.prod /\ sys'.cons = sys.cons
    BY <2>10, <1>t, FileSet
  <2>12. /\ T \in Ctrs
         /\ \A d \in Con : SameCtr(ctr, T, d) /\ T[d].keyed = ctr[d].keyed
    BY <2>6, <1>c, <1>t DEF Ctrs, SameCtr
  <2>13. /\ DOMAIN S2 = DOMAIN sess /\ S2 = [l \in DOMAIN sess |-> S2[l]]
         /\ \A l \in DOMAIN sess \ {k} : S2[l] = sess[l]
         /\ S2[k] = [r EXCEPT !.ptt = ptt]
    BY <2>k
  <2>14. S2[k] \in SessRec /\ S2[k].con = c /\ S2[k].fd = s.fd /\ S2[k].ptt = ptt
    <3> HIDE DEF S2
    <3> QED BY <2>8, <2>9, <2>13, <2>k DEF SessRec
  <2>15. SessionsOf(S2)
    <3>1. \A l \in DOMAIN S2 : S2[l] \in SessRec
      BY <2>13, <2>14, <1>t, Parts
    <3>2. S2 \in [DOMAIN S2 -> SessRec]
      BY <2>13, <3>1
    <3> QED BY <2>13, <1>t, <3>2 DEF SessionsOf
  <2>16. TypeOK'
    BY <1>t, <1>u, <2>11, <2>12, <2>15
       DEF TypeOK, SysRec, Files, Producers, Consumers, SessionsOf, SessRec, Ctrs
  <2>17. PttOK(G, sys.prod, T, S2, offLost')
    <3> SUFFICES ASSUME NEW p \in sys.prod, LastOf(G[p.fd].in, p.held)
                 PROVE  KeyedIn(T, S2, p.tag) \/ p.tag \in offLost'
      BY DEF PttOK
    <3>1. /\ p.fd \in Fd /\ p.tag \in Con /\ p.fd = ctr[p.tag].data /\ F[p.fd].of = p.tag
      BY ProducerIs DEF F
    <3>2. CASE p.tag = c
      <4>1. LastOf(F[f].in \o out, p.held)
        BY <2>10, <3>1, <3>2 DEF f
      <4>2. LastOf(F[f].in \o out, p.held) = LastOf(out, s.ptt)
        BY <2>4, <2>7, LastOfMore
      <4>3. ptt
        BY <4>1, <4>2 DEF ptt
      <4> QED BY <2>13, <2>14, <2>k, <3>2, <4>3 DEF KeyedIn
    <3>3. CASE p.tag # c
      <4>1. p.fd # f
        BY <2>3, <3>1, <3>3
      <4>2. KeyedIn(ctr, sess, p.tag) \/ p.tag \in offLost
        BY <1>t, <2>10, <3>1, <4>1 DEF PttOK
      <4>3. CASE p.tag \in offLost
        BY <3>3, <4>3
      <4>4. CASE KeyedIn(ctr, sess, p.tag)
        <5>1. T[p.tag].keyed = ctr[p.tag].keyed
          BY <2>12, <3>1
        <5>2. \A l \in DOMAIN sess : sess[l].con = p.tag => l # k /\ S2[l] = sess[l] /\ l \in DOMAIN S2
          BY <2>13, <2>k, <2>s, <3>3
        <5> QED BY <4>4, <5>1, <5>2 DEF KeyedIn
      <4> QED BY <4>2, <4>3, <4>4
    <3> QED BY <3>2, <3>3
  <2>18. Owned(G, sys.prod, sys.cons, T, S2)
    <3>1. \A l \in DOMAIN sess : S2[l].con = sess[l].con /\ S2[l].fd = sess[l].fd
      BY <2>13, <2>14, <2>k, <2>s
    <3>2. DOMAIN S2 = DOMAIN sess
      BY <2>13
    <3>3. \A d \in Con : SameCtr(ctr, T, d) /\ T[d].keyed \in BOOLEAN
                         /\ (T[d].keyed => Works(ctr, d) /\ d \notin Tcps)
      BY <1>k, <2>12
    <3> HIDE DEF S2, T
    <3> QED BY <1>t, <2>10, <3>1, <3>2, <3>3, Unaltered
  <2> QED BY <1>t, <1>u, <2>11, <2>16, <2>17, <2>18 DEF ConInv
<1> QED BY <1>1, <1>2 DEF data_out_cb

----------------------------------------------------------------------------
(* The theorems.                                                             *)

LEMMA ConInit == Init => ConInv
<1> SUFFICES ASSUME Init PROVE ConInv
  OBVIOUS
<1>0. /\ sys.file = [f \in Fd |-> None] /\ sys.prod = {} /\ sys.cons = {}
      /\ sys = [file |-> [f \in Fd |-> None], prod |-> {}, cons |-> {}]
      /\ ctr = [c \in Con |-> NoCtr] /\ sess = <<>> /\ keyer = TRUE /\ offs = 0 /\ offLost = {}
  BY DEF Init
<1>1. 0 \in 0..MaxFd /\ 0 \in 0..MaxOff /\ DOMAIN sess = {}
  BY <1>0, ConstAssumption DEF ConstAssumption
<1>s. sess \in [DOMAIN sess -> [con : Con, fd : Fd, ptt : BOOLEAN, data : Seq(Byte), size : 0..BufCap]]
  <2>1. sess = [k \in {} |-> sess[k]]
    BY <1>0
  <2> QED BY <1>1, <2>1
<1>c. ctr \in [Con -> [live : BOOLEAN, failed : BOOLEAN, data : 0..MaxFd, cdata : 0..MaxFd,
                      keyed : BOOLEAN, wout : BOOLEAN]]
  <2>1. NoCtr \in [live : BOOLEAN, failed : BOOLEAN, data : 0..MaxFd, cdata : 0..MaxFd,
                   keyed : BOOLEAN, wout : BOOLEAN]
    BY <1>1 DEF NoCtr
  <2> HIDE DEF NoCtr
  <2> QED BY <1>0, <2>1
<1>2. TypeOK
  BY <1>0, <1>1, <1>s, <1>c DEF TypeOK
<1>3. Owned(sys.file, sys.prod, sys.cons, ctr, sess)
  <2>1. EndpointsOK(sys.file, sys.prod, ctr) /\ ListsOK(sys.prod, sys.cons)
    BY <1>0 DEF EndpointsOK, ListsOK, On
  <2>2. EndsOK(sys.file, sys.prod, ctr)
    BY <1>0 DEF EndsOK, Works, NoCtr
  <2>3. SessionsOK(sys.file, ctr, sess) /\ RolesOK(sys.file, sys.prod, ctr, sess)
    BY <1>0, <1>1 DEF SessionsOK, RolesOK
  <2> QED BY <2>1, <2>2, <2>3 DEF Owned
<1>4. Once(sys.prod) /\ PttOK(sys.file, sys.prod, ctr, sess, offLost)
  BY <1>0 DEF Once, PttOK
<1> QED BY <1>2, <1>3, <1>4 DEF ConInv

LEMMA ConNext == ConInv /\ [Next]_vars => ConInv'
<1> SUFFICES ASSUME ConInv, [Next]_vars PROVE ConInv'
  OBVIOUS
<1>1. ASSUME NEW c \in Con, conmgr_create_con_cfg(c) PROVE ConInv'
  BY <1>1, CreateStep
<1>2. ASSUME NEW c \in Con, conmgr_destroy_con(c) PROVE ConInv'
  BY <1>2, DestroyStep
<1>3. ASSUME NEW c \in Vsps, con_failed(c) PROVE ConInv'
  BY <1>3, FailStep
<1>4. ASSUME NEW c \in Vsps, dv_release(c) PROVE ConInv'
  BY <1>4, ReleaseStep
<1>5. ASSUME NEW c \in Vsps, NEW on \in BOOLEAN, VspPtt(c, on) PROVE ConInv'
  BY <1>5, VspPttStep
<1>6. ASSUME NEW p \in sys.prod, producer_cb(p) PROVE ConInv'
  BY <1>6, ProducerStep
<1>7. ASSUME NEW e \in sys.cons, consumer_cb(e) PROVE ConInv'
  BY <1>7, ConsumerStep
<1>8. ASSUME KeyerOff \/ KeyerOn PROVE ConInv'
  BY <1>8, KeyerStep
<1>9. ASSUME NEW k \in DOMAIN sess, NEW b \in Byte, Say(k, b) PROVE ConInv'
  BY <1>9, ClientStep
<1>10. ASSUME NEW k \in DOMAIN sess, NEW broken \in BOOLEAN, Leave(k, broken) PROVE ConInv'
  BY <1>10, ClientStep
<1>11. ASSUME NEW c \in Tcps, lsnr_cb(c) PROVE ConInv'
  BY <1>11, ListenerStep
<1>12. ASSUME NEW k \in DOMAIN sess, client_in_cb(k) PROVE ConInv'
  BY <1>12, ClientInStep
<1>13. ASSUME NEW c \in Tcps, data_out_cb(c) PROVE ConInv'
  BY <1>13, DataOutStep
<1>14. ASSUME UNCHANGED vars PROVE ConInv'
  <2>1. sys' = sys /\ ctr' = ctr /\ sess' = sess /\ keyer' = keyer /\ offs' = offs /\ offLost' = offLost
    BY <1>14 DEF vars
  <2>2. TypeOK'
    BY <2>1 DEF ConInv, TypeOK
  <2> QED BY <2>1, <2>2 DEF ConInv
<1>15. CASE Manager
  BY <1>1, <1>2, <1>15 DEF Manager
<1>16. CASE Ports
  BY <1>3, <1>4, <1>5, <1>16 DEF Ports
<1>17. CASE Router
  BY <1>6, <1>7, <1>17 DEF Router
<1>18. CASE Clients
  BY <1>9, <1>10, <1>18 DEF Clients
<1>19. CASE Tcp
  BY <1>11, <1>12, <1>13, <1>19 DEF Tcp
<1> QED BY <1>8, <1>14, <1>15, <1>16, <1>17, <1>18, <1>19 DEF Next

\* The connectors' ends, the router's lists and the sessions' sockets share the
\* descriptors without overlap and without rest, whatever is created, fails, is
\* dropped by the router and is deleted, in any order (conmgr.c, con_tcp.c).
THEOREM ConInductive == Spec => []ConInv
BY ConInit, ConNext, PTL DEF Spec

\* The variables have their types: descriptors in range, buffers within their
\* capacity.
THEOREM ConTypes == Spec => []TypeOK
<1>1. ConInv => TypeOK
  BY DEF ConInv
<1> QED BY <1>1, ConInductive, PTL

\* A connector that works is registered with the router on a socket of its own,
\* however often descriptor numbers are used again (rem_router_endpoint).
THEOREM WorkingIsServed == Spec => []Served
<1>1. ConInv => Served
  <2> SUFFICES ASSUME ConInv, NEW c \in Con, ctr[c].live, ~ctr[c].failed
               PROVE  /\ \E p \in sys.prod : p.fd = ctr[c].data /\ p.tag = c
                      /\ \E e \in sys.cons : e.fd = ctr[c].data /\ e.tag = c
                      /\ sys.file[ctr[c].data] # None
                      /\ sys.file[ctr[c].data].of = c /\ ~sys.file[ctr[c].data].hup
    BY DEF Served
  <2>1. Works(ctr, c)
    BY DEF Works
  <2> QED BY <2>1, EndsOf DEF On
<1> QED BY <1>1, ConInductive, PTL

\* No descriptor is forgotten, closed under its user or kept by the router for
\* a connector that is gone.
THEOREM NothingLeaks == Spec => []NoLeak
<1>1. ConInv => NoLeak
  <2> SUFFICES ASSUME ConInv PROVE NoLeak
    OBVIOUS
  <2> DEFINE used == {e.fd : e \in sys.prod} \cup {e.fd : e \in sys.cons}
                       \cup {ctr[c].cdata : c \in Con}
                       \cup {sess[cl].fd : cl \in DOMAIN sess}
  <2>0. /\ EndsOK(sys.file, sys.prod, ctr) /\ RolesOK(sys.file, sys.prod, ctr, sess)
        /\ EndpointsOK(sys.file, sys.prod, ctr) /\ ListsOK(sys.prod, sys.cons)
        /\ TypeOK
    BY DEF ConInv, Owned
  <2>1. ASSUME NEW h \in used \ {0} PROVE h \in Fd \ FreeFds(sys.file)
    <3>1. ASSUME NEW p \in sys.prod, h = p.fd PROVE h \in Fd /\ sys.file[h] # None
      BY <3>1, ProducerIs
    <3>2. ASSUME NEW e \in sys.cons, h = e.fd PROVE h \in Fd /\ sys.file[h] # None
      <4>1. h \in Fd /\ e.tag \in Con /\ On(sys.cons, h, e.tag)
        BY <2>0, <3>2, Parts DEF On
      <4> QED BY <2>0, <4>1 DEF ListsOK, EndpointsOK
    <3>3. ASSUME NEW c \in Con, h = ctr[c].cdata PROVE h \in Fd /\ sys.file[h] # None
      BY <2>0, <3>3 DEF EndsOK
    <3>4. ASSUME NEW k \in DOMAIN sess, h = sess[k].fd PROVE h \in Fd /\ sys.file[h] # None
      BY <3>4, SessionIs
    <3>5. h \in Fd /\ sys.file[h] # None
      BY <3>1, <3>2, <3>3, <3>4
    <3> QED BY <3>5 DEF FreeFds
  <2>2. ASSUME NEW h \in Fd \ FreeFds(sys.file) PROVE h \in used \ {0}
    <3>1. sys.file[h] # None /\ h # 0
      BY FdType, ConstAssumption DEF FreeFds
    <3>2. \/ \E c \in Con : On(sys.prod, h, c)
          \/ \E c \in Con : ctr[c].cdata = h
          \/ \E k \in DOMAIN sess : sess[k].fd = h
      BY <2>0, <3>1 DEF RolesOK
    <3> QED BY <3>1, <3>2 DEF On
  <2>3. ASSUME NEW e \in sys.prod \cup sys.cons PROVE ctr[e.tag].live
    <3>1. CASE e \in sys.prod
      BY <3>1, ProducerIs
    <3>2. CASE e \in sys.cons
      <4>1. e.fd \in Fd /\ e.tag \in Con /\ On(sys.cons, e.fd, e.tag)
        BY <2>0, <3>2, Parts DEF On
      <4> QED BY <2>0, <4>1 DEF ListsOK, EndpointsOK
    <3> QED BY <3>1, <3>2
  <2>4. used \ {0} = Fd \ FreeFds(sys.file)
    <3> HIDE DEF used
    <3> QED BY <2>1, <2>2
  <2> QED BY <2>3, <2>4 DEF NoLeak
<1> QED BY <1>1, ConInductive, PTL

\* The router keys for a connector only while a client of it has keyed, unless
\* the PTT off of a client that went away was refused by the full socket.
THEOREM PttGoesOff == Spec => []PttReleased
<1>1. ConInv => PttReleased
  BY KeyedIs DEF ConInv, PttOK, PttReleased
<1> QED BY <1>1, ConInductive, PTL
=============================================================================
