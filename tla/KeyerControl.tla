---------------------------- MODULE KeyerControl ----------------------------
(***************************************************************************)
(* The keyer control of mhuxd (src/src/mhcontrol.c): the command queue with *)
(* one command in flight, its timeout, the heartbeat, deferred completion  *)
(* callbacks and the initializer, a chain of commands that brings a keyer  *)
(* from OFF to OK, each sent by the completion of the one before.          *)
(*                                                                         *)
(* Every action is one libev callback, one call of another module, or a    *)
(* step of the keyer at the other end of the line.                         *)
(***************************************************************************)
EXTENDS Integers, Sequences, FiniteSets

CONSTANTS
  Client,        \* callers that submit commands and wait for the completion
  ClientOp,      \* the command each of them submits
  NumChan,       \* MH_NUM_CHANNELS; channel c is here number c + 1
  Configured,    \* channels with speed parameters
  BadChannel,    \* those of them whose parameters no command can be built from
  HasKcfg,       \* kcfg_create knows the device
  HasDisplay,    \* MHF_HAS_DISPLAY
  Unsupported,   \* commands the keyer does not know
  QMax,          \* MAX_CMD_QUEUE_SIZE
  BeatCap,       \* heartbeat commands that may be queued at a time
  LineCap,       \* commands the router's control buffer takes
  MaxFaults,     \* bound on lost or late answers
  MaxOut,        \* bound on the keyer being disconnected or switched off
  IdleCap        \* idle callbacks of a command a reconnect may outrun

Chan == 1..NumChan
ChanOp == [c \in Chan |-> <<"CH1", "CH2", "CH3">>[c]]
ClientCmd == {"EXTRA", "OPTS"} \cup {ChanOp[c] : c \in Chan}
Op == {"PING", "DISPLAY", "VERSION", "ON_CONNECT"} \cup ClientCmd

ASSUME ControlAssumption ==
  /\ IsFiniteSet(Client)
  /\ Client \cap {"init", "beat", "none"} = {}
  /\ ClientOp \in [Client -> ClientCmd]
  /\ NumChan \in 1..3
  /\ Configured \subseteq Chan
  /\ BadChannel \subseteq Configured
  /\ {HasKcfg, HasDisplay} \subseteq BOOLEAN
  /\ Unsupported \subseteq Op
  /\ {QMax, BeatCap, LineCap} \subseteq Nat \ {0}
  /\ {MaxFaults, MaxOut, IdleCap} \subseteq Nat

\* Completion callbacks: initializer_cb, heartbeat_completed_cb, generic_cb and
\* the clients'.
Callback == {"init", "beat", "none"} \cup Client
Command == [op : Op, cb : Callback, sent : BOOLEAN]

\* Callbacks a command that could not be sent matters to: the heartbeat's ignores
\* it, and a client only takes note.
Deferrable == {"init"} \cup Client

Initializing == {"INIT", "GET_VERSION", "SET_CHANNELS", "LOAD_CFG", "ON_CONNECT"}
CtlState == {"DISABLED", "OFF", "DISC", "OK"} \cup Initializing

VARIABLES
  conn,      \* router->fd # -1
  state,     \* ctl->state
  idx,       \* speed_idx: channels handled so far
  queue,     \* cmd_list
  timer,     \* cmd_timeout_timer is active
  deferred,  \* how many idle watchers of defer_callback there are for each callback
  open,      \* ghost: clients whose command is not completed
  toK,       \* commands on their way to the keyer
  fromK,     \* answers and reports on their way back
  on,        \* the keyer is switched on
  loaded,    \* channel settings and options the keyer has taken since it started
  faults,    \* lost or late answers so far
  outs,      \* times the keyer was disconnected or switched off
  ignored    \* ghost: a restart was reported while initializing,
             \* or the settings of a channel found no room in the queue

ctlVars == <<state, idx, queue, timer, deferred, open>>
lineVars == <<conn, toK, fromK>>
keyerVars == <<on, loaded, outs>>
vars == <<ctlVars, lineVars, keyerVars, faults, ignored>>

-----------------------------------------------------------------------------
TypeOK ==
  /\ conn \in BOOLEAN
  /\ state \in CtlState
  /\ idx \in 0..NumChan
  /\ queue \in Seq(Command) /\ Len(queue) <= QMax + 1
  /\ timer \in BOOLEAN
  /\ deferred \in [Deferrable -> Nat]
  /\ open \subseteq Client
  /\ toK \in Seq(Op)
  /\ fromK \in Seq(Op \cup {"NOT_SUPPORTED", "RESTARTED"})
  /\ on \in BOOLEAN
  /\ loaded \subseteq ClientCmd
  /\ faults \in 0..MaxFaults
  /\ outs \in 0..MaxOut
  /\ ignored \in BOOLEAN

\* mhc_create, with no keyer connected.
Init ==
  /\ conn = FALSE
  /\ state = "DISC"
  /\ idx = 0
  /\ queue = <<>>
  /\ timer = FALSE
  /\ deferred = [cb \in Deferrable |-> 0]
  /\ open = {}
  /\ toK = <<>>
  /\ fromK = <<>>
  /\ on = TRUE
  /\ loaded = {}
  /\ faults = 0
  /\ outs = 0
  /\ ignored = FALSE

-----------------------------------------------------------------------------
(* What a callback does: the state and speed_idx it leaves, the commands it  *)
(* submits and whether it defers an error to the initializer.                *)

New(op, cb) == [op |-> op, cb |-> cb, sent |-> FALSE]
Does(st, i, cmds, err) == [st |-> st, idx |-> i, cmds |-> cmds, err |-> err]
Nothing == Does(state, idx, <<>>, FALSE)

\* initializer_step in SET_CHANNELS.  Leaving the loop over the channels with the
\* last one does not end the step: the options are submitted as well.
LoadCfg(cmds, err) ==
  IF HasKcfg THEN Does("LOAD_CFG", 0, Append(cmds, New("OPTS", "init")), err)
             ELSE Does("DISABLED", 0, cmds, err)
SetChannels(i) ==
  LET left == {c \in Configured : c > i}
      c == CHOOSE c \in left : \A d \in left : c <= d
      bad == c \in BadChannel
      cmds == IF bad THEN <<>> ELSE <<New(ChanOp[c], "init")>>
  IN  IF left = {} THEN LoadCfg(<<>>, FALSE)
      ELSE IF c < NumChan THEN Does("SET_CHANNELS", c, cmds, bad)
      ELSE LoadCfg(cmds, bad)

\* The keyer's display, if it has one, shows two lines when it answers.
Greeting ==
  IF HasDisplay THEN <<New("DISPLAY", "none"), New("DISPLAY", "none")>> ELSE <<>>

\* A variant that does not start over with the first channel.
initializer_step_resume(s, i) ==
  CASE s = "OFF" -> Does("INIT", i, <<New("PING", "init")>>, FALSE)
    [] s = "INIT" -> Does("GET_VERSION", i, Append(Greeting, New("VERSION", "init")), FALSE)
    [] s \in {"GET_VERSION", "SET_CHANNELS"} -> SetChannels(i)
    [] s = "LOAD_CFG" -> Does("ON_CONNECT", i, <<New("ON_CONNECT", "init")>>, FALSE)
    [] s = "ON_CONNECT" -> Does("OK", i, <<>>, FALSE)
    [] OTHER -> Does(s, i, <<>>, FALSE)

initializer_step(s, i) ==
  CASE s = "OFF" -> Does("INIT", 0, <<New("PING", "init")>>, FALSE)
    [] s = "INIT" -> Does("GET_VERSION", i, Append(Greeting, New("VERSION", "init")), FALSE)
    [] s \in {"GET_VERSION", "SET_CHANNELS"} -> SetChannels(i)
    [] s = "LOAD_CFG" -> Does("ON_CONNECT", i, <<New("ON_CONNECT", "init")>>, FALSE)
    [] s = "ON_CONNECT" -> Does("OK", i, <<>>, FALSE)
    [] OTHER -> Does(s, i, <<>>, FALSE)

initializer_cb(result) ==
  IF state = "DISC" THEN Nothing
  ELSE IF result = "OK" \/ (result = "ERROR" /\ state = "SET_CHANNELS")
  THEN initializer_step(state, idx)
  ELSE Does("OFF", idx, <<>>, FALSE)

\* A variant that gives the keyer up in every state.
heartbeat_completed_any(result) ==
  IF result = "OK" /\ state = "OFF" THEN initializer_step(state, idx)
  ELSE IF result = "TIMEOUT" THEN Does("OFF", idx, <<>>, FALSE)
  ELSE Nothing

heartbeat_completed_cb(result) ==
  IF result = "OK" /\ state = "OFF" THEN initializer_step(state, idx)
  ELSE IF result = "TIMEOUT" /\ state = "OK" THEN Does("OFF", idx, <<>>, FALSE)
  ELSE Nothing

\* A client takes note of the completion and does nothing else.
Completion(cb, result) ==
  CASE cb = "init" -> initializer_cb(result)
    [] cb = "beat" -> heartbeat_completed_cb(result)
    [] OTHER -> Nothing

-----------------------------------------------------------------------------
(* The command queue. *)

\* How often the callback cb is in the queue s.
Count(s, cb) == Cardinality({k \in DOMAIN s : s[k].cb = cb})

\* A variant that frees the commands without completing them.
Failed_freed(d, s) == d

\* defer_callback for the commands s.
Failed(d, s) == [cb \in Deferrable |-> d[cb] + Count(s, cb)]

\* submit_cmd refuses when more than QMax commands are queued.
Fits(q, cmds) ==
  LET room == IF Len(q) > QMax THEN 0 ELSE QMax + 1 - Len(q)
  IN  IF Len(cmds) < room THEN Len(cmds) ELSE room

\* push_cmds on the queue q: unless a command is in flight the next one is sent,
\* or, without room in the router's buffer, all of them fail.  t says whether the
\* timer runs.
push_cmds(q, d, t) ==
  LET idle == q # <<>> /\ ~q[1].sent
      room == Len(toK) < LineCap
  IN  /\ queue' = CASE idle /\ room -> [q EXCEPT ![1].sent = TRUE]
                    [] idle /\ ~room -> <<>>
                    [] OTHER -> q
      /\ deferred' = IF idle /\ ~room THEN Failed(d, q) ELSE d
      /\ timer' = (t \/ (idle /\ room))
      /\ toK' = IF idle /\ room /\ on THEN Append(toK, q[1].op) ELSE toK

\* The rest of a handler: r's commands are appended to q and pushed.
Submit(r, q, d, t) ==
  LET fit == Fits(q, r.cmds)
      late == Failed(d, SubSeq(r.cmds, fit + 1, Len(r.cmds)))
  IN  /\ state' = r.st
      /\ idx' = r.idx
      /\ push_cmds(q \o SubSeq(r.cmds, 1, fit),
                   IF r.err THEN [late EXCEPT !["init"] = @ + 1] ELSE late, t)

\* The end of control_channel_cb: any sign of life of a keyer that is OFF starts
\* the initializer.
Alive(r) ==
  IF r.st = "OFF"
  THEN LET s == initializer_step("OFF", r.idx)
       IN  Does(s.st, s.idx, r.cmds \o s.cmds, FALSE)
  ELSE r

-----------------------------------------------------------------------------
(* Calls and timers. *)

\* A client calls one of the mhc_ functions that end in submit_cmd.
ClientSubmit(c) ==
  /\ c \notin open /\ ClientOp[c] \in {"EXTRA", "OPTS"}
  /\ open' = open \cup {c}
  /\ IF state \in {"DISC", "OFF"}
     THEN /\ deferred' = [deferred EXCEPT ![c] = @ + 1]
          /\ UNCHANGED <<state, idx, queue, timer, toK>>
     ELSE Submit([Nothing EXCEPT !.cmds = <<New(ClientOp[c], c)>>],
                 queue, deferred, timer)
  /\ UNCHANGED <<conn, fromK, keyerVars, faults, ignored>>

\* mhc_set_speed_params: the parameters are kept, and sent if the keyer is online.
ClientSetSpeed(c) ==
  /\ c \notin open /\ ClientOp[c] \notin {"EXTRA", "OPTS"}
  /\ open' = open \cup {c}
  /\ IF state = "OK"
     THEN Submit([Nothing EXCEPT !.cmds = <<New(ClientOp[c], c)>>],
                 queue, deferred, timer)
     ELSE /\ deferred' = [deferred EXCEPT ![c] = @ + 1]
          /\ UNCHANGED <<state, idx, queue, timer, toK>>
  /\ UNCHANGED <<conn, fromK, keyerVars, faults, ignored>>

\* A variant whose ping is refused like other commands when the keyer is OFF.
HeartbeatConnected ==
  /\ state \notin {"DISC", "OFF"}
  /\ Count(queue, "beat") < BeatCap
  /\ Submit([Nothing EXCEPT !.cmds = <<New("PING", "beat")>>],
            queue, deferred, timer)
  /\ UNCHANGED <<open, conn, fromK, keyerVars, faults, ignored>>

\* heartbeat_cb; the timer runs unless the keyer is disconnected.
Heartbeat ==
  /\ state # "DISC"
  /\ Count(queue, "beat") < BeatCap
  /\ Submit([Nothing EXCEPT !.cmds = <<New("PING", "beat")>>],
            queue, deferred, timer)
  /\ UNCHANGED <<open, conn, fromK, keyerVars, faults, ignored>>

\* handle_deferred
RunDeferred(cb) ==
  /\ deferred[cb] > 0
  /\ Submit(Completion(cb, "ERROR"), queue, [deferred EXCEPT ![cb] = @ - 1], timer)
  /\ open' = open \ {cb}
  /\ ignored' = (\/ ignored
                 \/ cb = "init" /\ state = "SET_CHANNELS" /\ idx \notin BadChannel)
  /\ UNCHANGED <<conn, fromK, keyerVars, faults>>

\* An answer to the command in flight is under way.
AnswerComing ==
  \/ \E k \in 1..Len(toK) : toK[k] = queue[1].op
  \/ \E k \in 1..Len(fromK) : fromK[k] \in {queue[1].op, "NOT_SUPPORTED"}

\* cmd_timeout_cb.  An answer that comes later than the timeout is a fault.
Timeout ==
  /\ timer /\ queue # <<>>
  /\ Submit(Completion(queue[1].cb, "TIMEOUT"), Tail(queue), deferred, FALSE)
  /\ open' = open \ {queue[1].cb}
  /\ faults' = IF AnswerComing THEN faults + 1 ELSE faults
  /\ faults' <= MaxFaults
  /\ UNCHANGED <<conn, fromK, keyerVars, ignored>>

-----------------------------------------------------------------------------
(* control_channel_cb *)

\* m answers the command in flight.
Answers(m) ==
  queue # <<>> /\ queue[1].sent /\ m \in {queue[1].op, "NOT_SUPPORTED"}

Answer ==
  /\ conn /\ fromK # <<>> /\ Answers(Head(fromK))
  /\ LET result == IF Head(fromK) = queue[1].op THEN "OK" ELSE "NOT_SUPPORTED"
     IN  Submit(Alive(Completion(queue[1].cb, result)), Tail(queue), deferred, FALSE)
  /\ open' = open \ {queue[1].cb}
  /\ fromK' = Tail(fromK)
  /\ ignored' = (ignored /\ state # "OFF")
  /\ UNCHANGED <<conn, keyerVars, faults>>

\* MHCMD_JUST_RESTARTED, or an answer that comes too late.
Restarted == IF state = "OK" THEN initializer_step("SET_CHANNELS", idx) ELSE Nothing
Report ==
  /\ conn /\ fromK # <<>> /\ ~Answers(Head(fromK))
  /\ Submit(Alive(IF Head(fromK) = "RESTARTED" THEN Restarted ELSE Nothing),
            queue, deferred, timer)
  /\ fromK' = Tail(fromK)
  /\ ignored' = CASE state = "OFF" -> FALSE
                  [] Head(fromK) = "RESTARTED" -> state # "OK"
                  [] OTHER -> ignored
  /\ UNCHANGED <<open, conn, keyerVars, faults>>

-----------------------------------------------------------------------------
(* router_status_cb *)

Connect ==
  /\ ~conn
  /\ \A cb \in Deferrable : deferred[cb] <= IdleCap
  /\ conn' = TRUE
  /\ Submit(initializer_step("OFF", idx), queue, deferred, timer)
  /\ ignored' = FALSE
  /\ UNCHANGED <<open, fromK, keyerVars, faults>>

\* A variant that drops the commands without completing them.
DisconnectSilent ==
  /\ conn /\ outs < MaxOut
  /\ outs' = outs + 1
  /\ conn' = FALSE
  /\ state' = "DISC"
  /\ queue' = <<>>
  /\ timer' = FALSE
  /\ \E k \in 0..Len(toK) : toK' = SubSeq(toK, k + 1, Len(toK))
  /\ fromK' = <<>>
  /\ UNCHANGED <<idx, deferred, open, on, loaded, faults, ignored>>

\* flush_cmds in state DISC: the callbacks find the keyer gone.  Commands the
\* router has not written yet stay in its buffer and reach the next connection.
Disconnect ==
  /\ conn /\ outs < MaxOut
  /\ outs' = outs + 1
  /\ conn' = FALSE
  /\ state' = "DISC"
  /\ queue' = <<>>
  /\ timer' = FALSE
  /\ open' = open \ {queue[k].cb : k \in 1..Len(queue)}
  /\ \E k \in 0..Len(toK) : toK' = SubSeq(toK, k + 1, Len(toK))
  /\ fromK' = <<>>
  /\ UNCHANGED <<idx, deferred, on, loaded, faults, ignored>>

-----------------------------------------------------------------------------
(* The keyer. *)

\* A command is carried out and answered.
KeyerAnswer ==
  /\ conn /\ on /\ toK # <<>>
  /\ toK' = Tail(toK)
  /\ LET op == Head(toK)
     IN  IF op \in Unsupported
         THEN /\ fromK' = Append(fromK, "NOT_SUPPORTED")
              /\ UNCHANGED loaded
         ELSE /\ fromK' = Append(fromK, op)
              /\ loaded' = loaded \cup ({op} \cap ClientCmd)
  /\ UNCHANGED <<ctlVars, conn, on, outs, faults, ignored>>

\* A command or its answer is lost.
KeyerLose ==
  /\ conn /\ on /\ toK # <<>>
  /\ faults < MaxFaults
  /\ faults' = faults + 1
  /\ toK' = Tail(toK)
  /\ UNCHANGED <<ctlVars, conn, fromK, keyerVars, ignored>>

KeyerOff ==
  /\ on /\ outs < MaxOut
  /\ on' = FALSE
  /\ outs' = outs + 1
  /\ toK' = <<>>
  /\ UNCHANGED <<ctlVars, conn, fromK, loaded, faults, ignored>>

\* It starts without settings and reports that.
KeyerOn ==
  /\ ~on
  /\ on' = TRUE
  /\ loaded' = {}
  /\ fromK' = IF conn THEN Append(fromK, "RESTARTED") ELSE fromK
  /\ UNCHANGED <<ctlVars, conn, toK, outs, faults, ignored>>

-----------------------------------------------------------------------------
ControlNext ==
  \/ \E c \in Client : ClientSubmit(c) \/ ClientSetSpeed(c)
  \/ Heartbeat
  \/ \E cb \in Deferrable : RunDeferred(cb)
  \/ Timeout
  \/ Answer
  \/ Report
  \/ Connect
  \/ Disconnect

KeyerNext == KeyerAnswer \/ KeyerLose \/ KeyerOff \/ KeyerOn

Next == ControlNext \/ KeyerNext

Spec == Init /\ [][Next]_vars

(***************************************************************************)
(* Fairness.  libev runs expired timers, readable sockets and idle         *)
(* watchers; a keyer that is on answers what it gets.                      *)
(***************************************************************************)
Fairness ==
  /\ WF_vars(Heartbeat)
  /\ \A cb \in Deferrable : WF_vars(RunDeferred(cb))
  /\ WF_vars(Timeout)
  /\ WF_vars(Answer)
  /\ WF_vars(Report)
  /\ WF_vars(KeyerAnswer)

FairSpec == Spec /\ Fairness

-----------------------------------------------------------------------------
(* Properties. *)

\* How often the callback cb is going to be called.
Pending(cb) == Count(queue, cb) + deferred[cb]

\* Every command a client submitted is completed exactly once, also when it is
\* refused, times out, cannot be sent or is flushed.
CompletedOnce == \A c \in Client : Pending(c) = IF c \in open THEN 1 ELSE 0

\* The initializer is one chain: while it runs, exactly one of its commands or
\* deferred errors is to come, otherwise none.
SingleChain ==
  state # "DISC" => Pending("init") = IF state \in Initializing THEN 1 ELSE 0

\* What the keyer needs before it can be called online.
Wanted == {ChanOp[c] : c \in Configured \ BadChannel} \cup {"OPTS"}

RestartReported == \E k \in 1..Len(fromK) : fromK[k] = "RESTARTED"

\* A keyer that is online has all settings (mhcontrol.c:259), unless it restarted
\* and mhuxd has yet to hear of it. Left out: a restart during the
\* initialization, which is only logged, and a channel whose settings found the
\* queue full, which is skipped as if they were invalid.
OnlineHeard ==
  state = "OK" /\ on /\ ~RestartReported /\ ~ignored => Wanted \subseteq loaded

\* A keyer that stays connected and switched on gets and stays online.
GetsOnline == <>[](conn /\ on) => <>[](state = "OK")

\* Every command of a client completes.
CommandsComplete == \A c \in Client : c \in open ~> c \notin open
=============================================================================
