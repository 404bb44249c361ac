----------------------------- MODULE WebSocket -----------------------------
(***************************************************************************)
(* The connections of mhuxd's web server (src/src/http_server.c, ws.c and   *)
(* the event channel of restapi.c): requests and their responses, the       *)
(* upgrade to a WebSocket, frames and fragmented messages, ping and pong,   *)
(* events sent to all subscribers, the limit of the outbound queue, and the *)
(* several ways a connection ends.                                          *)
(*                                                                          *)
(* Bytes are counted in units: a response, a frame's header and its payload *)
(* are one unit each, since queue_response_data() queues header and payload *)
(* as items of their own. A connection is a subscriber while it is a        *)
(* WebSocket: both begin in cb_events_ws() and end in rem_connection().     *)
(***************************************************************************)
EXTENDS Naturals, Sequences

CONSTANTS
  Con,        \* connections
  HardLimit,  \* OUTQ_HARD_LIMIT in units
  NetCap,     \* units the socket takes before the client reads
  SockCap,    \* pieces a client has under way to the server
  Split,      \* frames a client may send in two parts
  PageCap     \* bound on unsent responses of a client that asks again

\* "refused" asks for an upgrade hs_ws_upgrade() does not accept, "garbage" does
\* not parse.
Request == {"get", "upgrade", "refused", "garbage"}

\* What a client sends on a WebSocket: "frag" and "cont" are the first and the
\* last fragment of a message, "illegal" has no mask, wrong bits or is too long.
Data == {"text", "frag", "cont", "badjson", "badutf8", "illegal"}
Frame == Data \cup {"ping", "pong", "close"}

ASSUME WebSocketAssumption ==
  /\ HardLimit \in Nat /\ HardLimit >= 2    \* a close frame fits (queue_response_data)
  /\ {NetCap, SockCap, PageCap} \subseteq Nat \ {0}
  /\ Split \subseteq Frame

\* A frame comes as a whole or in two parts.
Piece == [f : Request \cup Frame, p : {"all", "rest"}] \cup [f : {"part"}, p : {"head"}]

\* What the server sends. Header and payload are items of the queue.
Close == {"close", "1001", "1007", "1013"}
Item == [f : {"page", "text", "ping", "pong"} \cup Close, p : {"hdr", "pay", "only"}]

VARIABLES
  hc,     \* struct http_connection
  cl,     \* the client
  sock,   \* pieces from the client that have not been read
  net     \* items on their way to the client

vars == <<hc, cl, sock, net>>

\* st: "none" if there is no connection, "ws" if upgraded and ws_enabled;
\* term, wait, frag: terminate, ws_waiting_pong, ws_frag_active; rd, wr: w_in and
\* w_out are active; list: response_list; buf: what ws_inbuf holds, nothing, the
\* head of a frame, or a frame that is never taken out.
Free == [st |-> "none", term |-> FALSE, rd |-> FALSE, wr |-> FALSE, list |-> <<>>,
         wait |-> FALSE, frag |-> FALSE, buf |-> "empty"]

\* st: "deaf" if it neither reads nor sends any more; half: the frame it has sent
\* the head of; legal: what it has sent is a WebSocket's; done: it has sent a
\* close frame; need: it has read a header and expects the payload; torn: the
\* frame whose header it has read instead.
Nobody == [st |-> "none", ws |-> FALSE, half |-> "no", frag |-> FALSE, legal |-> TRUE,
           done |-> FALSE, need |-> FALSE, torn |-> "no"]

Init ==
  /\ hc = [c \in Con |-> Free]
  /\ cl = [c \in Con |-> Nobody]
  /\ sock = [c \in Con |-> <<>>]
  /\ net = [c \in Con |-> <<>>]

----------------------------------------------------------------------------
(* The outbound queue. Operators take the connection h and return it as the  *)
(* function leaves it, with its result where a caller looks at it.           *)

Done(h) == [h |-> h, ok |-> TRUE]
Fail(h) == [h |-> h, ok |-> FALSE]

rem_connection(h) == Free

\* The connection r.h, removed if the function failed.
OrRemoved(r) == IF r.ok THEN r.h ELSE rem_connection(r.h)

Enqueue(h, i) == [h EXCEPT !.list = Append(@, i), !.wr = TRUE]

clear_response_queue(h) == [h EXCEPT !.list = <<>>]

\* hs_ws_close() with an empty queue, where its frame always fits.
CloseEmpty(h, code) ==
  [h EXCEPT !.list = <<[f |-> code, p |-> "hdr"], [f |-> code, p |-> "pay"]>>,
            !.wr = TRUE, !.term = TRUE, !.rd = FALSE]

queue_response_data(h, i) ==
  IF h.term THEN Fail(h)
  ELSE IF Len(h.list) + 1 > HardLimit
  THEN Fail(CloseEmpty(clear_response_queue(h), "1013"))
  ELSE Done(Enqueue(h, i))

ws_send_frame(h, f, payload) ==
  IF ~payload THEN queue_response_data(h, [f |-> f, p |-> "only"])
  ELSE LET r == queue_response_data(h, [f |-> f, p |-> "hdr"])
       IN  IF r.ok THEN queue_response_data(r.h, [f |-> f, p |-> "pay"]) ELSE r

hs_ws_close(h, code) ==
  IF h.term THEN Done(h)
  ELSE LET r == ws_send_frame([h EXCEPT !.rd = FALSE], code, TRUE)
       IN  [r EXCEPT !.h.term = TRUE]

\* The limit is not for responses.
hs_send_response(h) == Enqueue(h, [f |-> "page", p |-> "only"])
hs_send_headers(h) == Enqueue(h, [f |-> "page", p |-> "only"])
hs_send_error_page(h) == hs_send_response(h)

\* A file or, if it cannot be read, an error page.
serve_dmap(h) == hs_send_response(h)

----------------------------------------------------------------------------
(* What is read.                                                             *)

\* The result of sending an acknowledgement is ignored (ws_send_json).
on_ws_message(h, f) ==
  IF f = "badjson" THEN hs_ws_close(h, "1007").h ELSE ws_send_frame(h, "text", TRUE).h

\* A variant that does not forget the fragments of a message it has passed on.
Continued_kept(h) ==
  IF h.frag THEN Done(on_ws_message(h, "cont")) ELSE Fail(h)

\* A continuation frame that is the last one. (The server would take more in
\* between, which changes nothing but the length of the message.)
Continued(h) ==
  IF h.frag THEN Done([on_ws_message(h, "cont") EXCEPT !.frag = FALSE]) ELSE Fail(h)

\* A complete frame f. hs_ws_close() in on_ws_message() does not end the loop
\* over the frames; invalid UTF-8 does, and leaves the frame in ws_inbuf.
TakeFrame(h, f) ==
  CASE f = "illegal" -> Fail(h)
    [] f \in {"text", "badjson", "badutf8", "frag"} /\ h.frag -> Fail(h)
    [] f = "badutf8" /\ ~h.frag -> Done([hs_ws_close(h, "1007").h EXCEPT !.buf = "bad"])
    [] f \in {"text", "badjson"} /\ ~h.frag -> Done(on_ws_message(h, f))
    [] f = "frag" /\ ~h.frag -> Done([h EXCEPT !.frag = TRUE])
    [] f = "cont" -> Continued(h)
    [] f = "ping" -> ws_send_frame(h, "pong", FALSE)
    [] f = "pong" -> Done([h EXCEPT !.wait = FALSE])
    [] f = "close" ->
         LET r == ws_send_frame(h, "close", TRUE)
         IN  IF r.ok THEN Done([r.h EXCEPT !.term = TRUE, !.rd = FALSE]) ELSE r

\* The part of ws_raw_data_cb() that finds frames in ws_inbuf. A rest without
\* its head is read as the header of a frame.
ws_raw_data_cb(h, u) ==
  CASE h.buf = "bad" -> Done(h)
    [] h.buf # "bad" /\ u.p = "head" -> Done([h EXCEPT !.buf = "head"])
    [] h.buf = "head" /\ u.p = "rest" -> TakeFrame([h EXCEPT !.buf = "empty"], u.f)
    [] h.buf = "empty" /\ u.p = "rest" -> Fail(h)
    [] h.buf # "bad" /\ u.p = "all" -> TakeFrame(h, u.f)

hs_ws_upgrade(h) ==
  hs_send_headers([h EXCEPT !.st = "ws", !.wait = FALSE, !.frag = FALSE])

\* The client subscribes to events and gets a hello.
cb_events_ws(h) == ws_send_frame(hs_ws_upgrade(h), "text", TRUE).h

\* http_parser_execute() with on_message_complete_cb(). The error page for a
\* refused upgrade is queued, but the connection is removed: the parser says
\* "upgrade" and there is no handler for it.
Asked(h, r) ==
  CASE r = "get" -> serve_dmap(h)
    [] r = "upgrade" -> cb_events_ws(h)
    [] r = "refused" -> rem_connection(hs_send_error_page(h))
    [] r = "garbage" -> rem_connection(h)

Fed(h, u) ==
  CASE h.st = "none" -> h
    [] h.st = "http" -> Asked(h, u.f)
    [] h.st = "ws" -> OrRemoved(ws_raw_data_cb(h, u))

----------------------------------------------------------------------------
(* The callbacks of the event loop.                                          *)

lsnr_cb(c) ==
  /\ hc[c].st = "none" /\ cl[c].st = "none"
  /\ hc' = [hc EXCEPT ![c] = [Free EXCEPT !.st = "http", !.rd = TRUE]]
  /\ cl' = [cl EXCEPT ![c] = [Nobody EXCEPT !.st = "up"]]
  /\ UNCHANGED <<sock, net>>

\* Reads until there is nothing more, also when the watcher is stopped meanwhile.
hcon_in_cb(c) ==
  /\ hc[c].rd /\ (sock[c] # <<>> \/ cl[c].st = "gone")
  /\ LET n == Len(sock[c])
         read[k \in 0..n] == IF k = 0 THEN hc[c] ELSE Fed(read[k - 1], sock[c][k])
     IN  hc' = [hc EXCEPT ![c] =
                  IF cl[c].st = "gone" THEN rem_connection(read[n]) ELSE read[n]]
  /\ sock' = [sock EXCEPT ![c] = <<>>]
  /\ UNCHANGED <<cl, net>>

\* A variant that takes the item the socket had no room for out of the list.
hcon_out_cb_skip(c) ==
  /\ hc[c].wr /\ cl[c].st # "gone" /\ Len(net[c]) < NetCap
  /\ LET h == hc[c]
         room == NetCap - Len(net[c])
         n == IF Len(h.list) < room THEN Len(h.list) ELSE room
         left == SubSeq(h.list, n + 1, Len(h.list))
     IN  /\ net' = [net EXCEPT ![c] = @ \o SubSeq(h.list, 1, n)]
         /\ hc' = [hc EXCEPT ![c] =
              IF left # <<>> THEN [h EXCEPT !.list = Tail(left)]
              ELSE IF h.term THEN rem_connection(h)
              ELSE [h EXCEPT !.list = <<>>, !.wr = FALSE]]
  /\ UNCHANGED <<cl, sock>>

\* Writes as much as the socket takes; the end of a terminated connection.
hcon_out_cb(c) ==
  /\ hc[c].wr /\ cl[c].st # "gone" /\ Len(net[c]) < NetCap
  /\ LET h == hc[c]
         room == NetCap - Len(net[c])
         n == IF Len(h.list) < room THEN Len(h.list) ELSE room
         left == SubSeq(h.list, n + 1, Len(h.list))
     IN  /\ net' = [net EXCEPT ![c] = @ \o SubSeq(h.list, 1, n)]
         /\ hc' = [hc EXCEPT ![c] =
              IF left # <<>> THEN [h EXCEPT !.list = left]
              ELSE IF h.term THEN rem_connection(h)
              ELSE [h EXCEPT !.list = <<>>, !.wr = FALSE]]
  /\ UNCHANGED <<cl, sock>>

\* hcon_out_cb() when the client has closed the connection.
WriteError(c) ==
  /\ hc[c].wr /\ cl[c].st = "gone"
  /\ hc' = [hc EXCEPT ![c] = rem_connection(hc[c])]
  /\ UNCHANGED <<cl, sock, net>>

\* ws_timer_cb() of a client that has sent nothing for WS_IDLE_PING_INTERVAL.
IdlePing(c) ==
  /\ hc[c].st = "ws" /\ ~hc[c].term /\ ~hc[c].wait
  /\ sock[c] = <<>> /\ cl[c].st # "gone"
  /\ LET r == ws_send_frame(hc[c], "ping", FALSE)
     IN  hc' = [hc EXCEPT ![c] = OrRemoved([r EXCEPT !.h.wait = TRUE])]
  /\ UNCHANGED <<cl, sock, net>>

\* A variant that gives the client time until the ping has been written.
PongTimeout_written(c) ==
  /\ hc[c].st = "ws" /\ ~hc[c].term /\ hc[c].wait /\ hc[c].list = <<>>
  /\ sock[c] = <<>> /\ cl[c].st # "gone"
  /\ hc' = [hc EXCEPT ![c] = OrRemoved(hs_ws_close(hc[c], "1001"))]
  /\ UNCHANGED <<cl, sock, net>>

\* ws_timer_cb() WS_PONG_TIMEOUT after the ping.
PongTimeout(c) ==
  /\ hc[c].st = "ws" /\ ~hc[c].term /\ hc[c].wait
  /\ sock[c] = <<>> /\ cl[c].st # "gone"
  /\ hc' = [hc EXCEPT ![c] = OrRemoved(hs_ws_close(hc[c], "1001"))]
  /\ UNCHANGED <<cl, sock, net>>

\* What an event does to a connection; the result of sending is ignored.
broadcast_event(h) == IF h.st = "ws" THEN ws_send_frame(h, "text", TRUE).h ELSE h

\* An event on the bus goes to all subscribers in the publisher's callback.
eventbus_publish ==
  /\ \E c \in Con : hc[c].st = "ws"
  /\ hc' = [c \in Con |-> broadcast_event(hc[c])]
  /\ UNCHANGED <<cl, sock, net>>

----------------------------------------------------------------------------
(* Clients.                                                                  *)

\* What a client sends after the server has stopped reading makes no difference.
Talks(c) == cl[c].st = "up" /\ hc[c].rd /\ Len(sock[c]) < SockCap

ClientAsk(c, r) ==
  /\ Talks(c) /\ ~cl[c].ws
  /\ r = "get" => Len(hc[c].list) + Len(sock[c]) < PageCap
  /\ sock' = [sock EXCEPT ![c] = Append(@, [f |-> r, p |-> "all"])]
  /\ cl' = [cl EXCEPT ![c].ws = (r = "upgrade")]
  /\ UNCHANGED <<hc, net>>

\* Legal is what a WebSocket client may send. The data is JSON.
Legal(c, f) ==
  /\ f \notin {"badjson", "badutf8", "illegal"}
  /\ f \in {"text", "frag"} => ~cl[c].frag
  /\ f = "cont" => cl[c].frag

\* The client sends a frame or its head. A client errs once.
ClientSend(c, f, p) ==
  /\ Talks(c) /\ cl[c].ws /\ cl[c].half = "no" /\ ~cl[c].done
  /\ cl[c].legal \/ Legal(c, f)
  /\ p = "head" => f \in Split
  /\ sock' = [sock EXCEPT ![c] =
       Append(@, [f |-> IF p = "head" THEN "part" ELSE f, p |-> p])]
  /\ cl' = [cl EXCEPT ![c].half = IF p = "head" THEN f ELSE @,
                      ![c].frag = (f = "frag" \/ (@ /\ f # "cont")),
                      ![c].legal = @ /\ Legal(c, f),
                      ![c].done = (f = "close")]
  /\ UNCHANGED <<hc, net>>

ClientSendRest(c) ==
  /\ Talks(c) /\ cl[c].half # "no"
  /\ sock' = [sock EXCEPT ![c] = Append(@, [f |-> cl[c].half, p |-> "rest"])]
  /\ cl' = [cl EXCEPT ![c].half = "no"]
  /\ UNCHANGED <<hc, net>>

\* The client reads an item and notices when a frame begins within another one.
ClientRead(c) ==
  /\ cl[c].st = "up" /\ net[c] # <<>>
  /\ net' = [net EXCEPT ![c] = Tail(@)]
  /\ LET i == Head(net[c])
     IN  cl' = [cl EXCEPT
           ![c].need = (i.p = "hdr"),
           ![c].torn = IF @ = "no" /\ cl[c].need # (i.p = "pay") THEN i.f ELSE @]
  /\ UNCHANGED <<hc, sock>>

\* What counts of a client that sends and reads nothing more.
Silent(c) == [Nobody EXCEPT !.legal = cl[c].legal, !.done = cl[c].done]

ClientCloses(c) ==
  /\ cl[c].st \in {"up", "deaf"} /\ hc[c].st # "none"
  /\ cl' = [cl EXCEPT ![c] = [Silent(c) EXCEPT !.st = "gone"]]
  /\ net' = [net EXCEPT ![c] = <<>>]
  /\ UNCHANGED <<hc, sock>>

\* The client hangs, or its computer is gone.
ClientHangs(c) ==
  /\ cl[c].st = "up" /\ hc[c].st # "none"
  /\ cl' = [cl EXCEPT ![c] = [Silent(c) EXCEPT !.st = "deaf"]]
  /\ UNCHANGED <<hc, sock, net>>

\* After the server has closed the connection; an open client reads the rest first.
ClientEnds(c) ==
  /\ hc[c].st = "none" /\ cl[c].st # "none" /\ (cl[c].st = "up" => net[c] = <<>>)
  /\ cl' = [cl EXCEPT ![c] = Nobody]
  /\ sock' = [sock EXCEPT ![c] = <<>>]
  /\ net' = [net EXCEPT ![c] = <<>>]
  /\ UNCHANGED hc

----------------------------------------------------------------------------
Next ==
  \/ \E c \in Con :
       \/ lsnr_cb(c) \/ hcon_in_cb(c) \/ hcon_out_cb(c) \/ WriteError(c)
       \/ IdlePing(c) \/ PongTimeout(c)
       \/ \E r \in Request : ClientAsk(c, r)
       \/ \E f \in Frame, p \in {"all", "head"} : ClientSend(c, f, p)
       \/ ClientSendRest(c) \/ ClientRead(c) \/ ClientCloses(c) \/ ClientHangs(c)
       \/ ClientEnds(c)
  \/ eventbus_publish

\* The event loop runs its callbacks and timers, and a client that does not hang
\* reads what comes.
Fairness ==
  \A c \in Con :
    /\ WF_vars(hcon_in_cb(c)) /\ WF_vars(hcon_out_cb(c)) /\ WF_vars(WriteError(c))
    /\ WF_vars(IdlePing(c)) /\ WF_vars(PongTimeout(c)) /\ WF_vars(ClientRead(c))

Spec == Init /\ [][Next]_vars /\ Fairness

----------------------------------------------------------------------------
(* Properties.                                                               *)

Connection ==
  [st : {"none", "http", "ws"}, term : BOOLEAN, rd : BOOLEAN, wr : BOOLEAN,
   list : Seq(Item), wait : BOOLEAN, frag : BOOLEAN, buf : {"empty", "head", "bad"}]

Client ==
  [st : {"none", "up", "deaf", "gone"}, ws : BOOLEAN, half : Frame \cup {"no"},
   frag : BOOLEAN, legal : BOOLEAN, done : BOOLEAN, need : BOOLEAN,
   torn : {i.f : i \in Item} \cup {"no"}]

TypeOK ==
  /\ hc \in [Con -> Connection]
  /\ cl \in [Con -> Client]
  /\ sock \in [Con -> Seq(Piece)]
  /\ net \in [Con -> Seq(Item)]

\* Frames arrive whole and one after the other. Left out: the close frame of
\* queue_response_data() at the hard limit, which follows whatever part of a
\* frame had been written when the queue was emptied for it.
WholeFrames == \A c \in Con : cl[c].torn \in {"no", "1013"}

\* The queue is so full that a frame of ws_timer_cb() exceeds the limit, or the
\* answer to the last piece under way after the answers to the others.
Crowded(c) ==
  Len(hc[c].list) + (IF sock[c] = <<>> THEN 2 ELSE 2 * Len(sock[c]) - 1) > HardLimit

\* A client that sends what a WebSocket client may send, in whatever pieces and
\* fragments, with pings in between, is not turned away: it is told 1013 or 1001
\* (limit of the queue, no pong), or loses the connection when the queue is full.
LegalIsServed ==
  [][\A c \in Con :
       hc[c].st = "ws" /\ ~hc[c].term /\ cl[c].legal /\ ~cl[c].done /\ cl[c].st # "gone" =>
         /\ hc'[c].st = "none" => Crowded(c)
         /\ hc'[c].term => \E i \in DOMAIN hc'[c].list : hc'[c].list[i].f \in {"1001", "1013"}]_vars

\* A WebSocket that mhuxd closes, or whose client closes it, hangs or has gone,
\* is removed in the end and with it its subscription to events. Left out: a
\* client that hangs with a full socket, where nothing but the kernel's own
\* timeout ends the wait for the close frame to be written.
GivenUp ==
  \A c \in Con :
    (hc[c].st = "ws" /\ (hc[c].term \/ cl[c].st # "up"))
      ~> (hc[c].st = "none" \/ (hc[c].term /\ cl[c].st = "deaf" /\ Len(net[c]) = NetCap))
=============================================================================
