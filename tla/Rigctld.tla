------------------------------ MODULE Rigctld ------------------------------
(***************************************************************************)
(* rigctld support of one radio: the supervisor that keeps a rigctld       *)
(* process running while the keyer is online (rigctld_proc.c), the client  *)
(* that polls it over TCP (rigctld_client.c), and what they meet: the      *)
(* kernel's processes and port, the TCP connection, the radio, and the     *)
(* keyer going online and offline (external).                              *)
(*                                                                         *)
(* Time is abstract.  A timer that is armed may fire; the ten seconds of   *)
(* the radio info are counted in ticks.  Of the radio's state only the     *)
(* mode is kept: frequencies and the split are left out.                   *)
(***************************************************************************)
EXTENDS Integers, Sequences, FiniteSets

CONSTANTS
    Pids,            \* process numbers the kernel may hand out
    Modes,           \* the modes the radio may report
    NumCommands,     \* RIGCL_NUM_COMMANDS
    RespawnInitial,  \* RIGPR_RESPAWN_INITIAL_MS
    RespawnMax,      \* RIGPR_RESPAWN_MAX_MS
    InfoTimeout,     \* RADIO_INFO_TIMEOUT in ticks
    MaxFaults        \* bound: failures, delays and reconfigurations in a behaviour

ASSUME PidsAssumption == Pids \subseteq Nat \ {0}
ASSUME ModesAssumption == Modes # {} /\ "off" \notin Modes /\ "none" \notin Modes
ASSUME CommandsAssumption == NumCommands \in Nat \ {0}
ASSUME DelayAssumption ==
    RespawnInitial \in Nat \ {0} /\ RespawnMax \in Nat /\ RespawnInitial <= RespawnMax
ASSUME TimeoutAssumption == InfoTimeout \in Nat \ {0}
ASSUME FaultsAssumption == MaxFaults \in Nat

VARIABLES
    \* the environment
    online,      \* the keyer's state is ONLINE
    radio,       \* the radio's mode, or "off"
    faults,      \* how many failures, delays and reconfigurations are still to come
    ps,          \* the state of each process
    told,        \* processes that have been sent SIGTERM or SIGKILL
    \* struct rigctld_proc
    proc,        \* exists (auto_start is configured)
    running,
    child,       \* child_pid, 0 for none; its ev_child watcher is active with it
    timer,       \* respawn_timer is active
    delay,       \* respawn_delay_ms
    exec_errno,  \* the last exec failed
    \* struct rigctld_client
    client,      \* exists (rig mode sync with the rigctld backend)
    polling,     \* running: the poll timer is active
    fd,          \* a socket is open
    phase,
    cmd_idx,
    op,          \* op_timeout_timer is active
    rx,          \* rx_buf: the pieces read since the request began
    last,        \* last_info.mode
    \* the TCP connection
    peer,        \* process at the other end, 0 for none
    sent,        \* commands on their way to it
    answers,     \* pieces of answers on their way back
    \* what mhcontrol makes of it
    age          \* of the radio info, in ticks; at InfoTimeout it is not valid

procVars == <<proc, running, child, timer, delay, exec_errno>>
requestVars == <<phase, cmd_idx, op, rx>>
connVars == <<fd, peer, sent, answers>>
clientVars == <<client, polling, requestVars, last, connVars>>
kernelVars == <<ps, told>>
vars == <<online, radio, faults, kernelVars, procVars, clientVars, age>>

-----------------------------------------------------------------------------
Phases == {"IDLE", "CONNECTING", "WRITING", "READING"}

\* What the client tells apart of an answer: the VFO's data (the mode only in
\* that of currVFO, the last command), "RPRT " and the code that ends the line;
\* and, for the property, whether it answers an earlier request.
Piece == [old : BOOLEAN, cmd : 0..NumCommands - 1, part : {"data", "RPRT", "code"},
          mode : Modes \cup {"none"}]

PortHolder == {p \in Pids : ps[p] = "serving"}

Init ==
    /\ online = FALSE /\ radio \in Modes /\ faults = MaxFaults
    /\ ps = [p \in Pids |-> "free"] /\ told = {}
    /\ proc = TRUE /\ running = FALSE /\ child = 0 /\ timer = FALSE
    /\ delay = RespawnInitial /\ exec_errno = FALSE
    /\ client = TRUE /\ polling = FALSE /\ fd = FALSE /\ phase = "IDLE"
    /\ cmd_idx = 0 /\ op = FALSE /\ rx = <<>> /\ last = "none"
    /\ peer = 0 /\ sent = <<>> /\ answers = <<>>
    /\ age = InfoTimeout

-----------------------------------------------------------------------------
(* The supervisor.                                                         *)

\* rigpr_schedule_respawn(): arm the timer with the delay, then double it.
schedule_respawn(d) ==
    /\ timer' = TRUE
    /\ delay' = IF 2 * d > RespawnMax THEN RespawnMax ELSE 2 * d

\* A failure costs one of the bounded number.
Cost(outcome) == IF outcome = "ok" THEN 0 ELSE 1
Fault(n) == n <= faults /\ faults' = faults - n

\* rigpr_spawn() with child c, and what both its callers do when it fails.
\* Creating pipes or fork() may fail, which is tried again; a failed exec()
\* leaves a child that exits by itself.
spawn(c, d, errno, kernel, outcome) ==
    \/ /\ c # 0 /\ outcome = "ok"
       /\ child' = c /\ timer' = FALSE /\ delay' = d /\ exec_errno' = errno /\ ps' = kernel
    \/ /\ c = 0 /\ outcome \in {"ok", "noexec"}
       /\ \E p \in {q \in Pids : kernel[q] = "free"} :
             /\ child' = p
             /\ ps' = [kernel EXCEPT ![p] = IF outcome = "ok" THEN "starting" ELSE "failed"]
       /\ timer' = FALSE /\ delay' = d /\ exec_errno' = (outcome = "noexec")
    \/ /\ c = 0
       /\ outcome = "nofork" \/ (outcome = "ok" /\ \A q \in Pids : kernel[q] # "free")
       /\ schedule_respawn(d)
       /\ child' = c /\ exec_errno' = errno /\ ps' = kernel

Outcomes == {"ok", "noexec", "nofork"}

\* rigpr_start() on an object that is not running.
start(kernel, outcome) ==
    /\ running' = TRUE
    /\ spawn(0, RespawnInitial, FALSE, kernel, outcome)

kill_forgotten == child' = 0 /\ UNCHANGED told

\* rigpr_kill(): the watcher is stopped, libev reaps the process silently.
kill ==
    /\ child' = 0
    /\ told' = told \cup {p \in Pids : p = child /\ ps[p] # "zombie"}

\* rigpr_stop().
stop ==
    /\ running' = FALSE /\ timer' = FALSE
    /\ kill
    /\ UNCHANGED <<delay, exec_errno>>

\* rigpr_keyer_state_changed_cb().
ProcKeyerState(up) ==
    \/ /\ ~proc \/ up = running
       /\ UNCHANGED <<procVars, kernelVars, faults>>
    \/ /\ proc /\ up /\ ~running
       /\ \E o \in Outcomes : start(ps, o) /\ Fault(Cost(o))
       /\ UNCHANGED <<proc, told>>
    \/ /\ proc /\ ~up /\ running
       /\ stop /\ UNCHANGED <<proc, ps, faults>>

\* rigpr_child_cb(): a child that ran for RIGPR_STABLE_S starts the backoff
\* afresh.
child_cb ==
    /\ child' = 0
    /\ IF ~running THEN UNCHANGED <<timer, delay>>
       ELSE \E stable \in BOOLEAN :
               /\ stable => ~exec_errno
               /\ schedule_respawn(IF stable THEN RespawnInitial ELSE delay)
    /\ UNCHANGED <<proc, running, exec_errno>>

\* libev has reaped a process; the child's watcher is called.
Reap(p) ==
    /\ ps[p] = "zombie"
    /\ ps' = [ps EXCEPT ![p] = "free"]
    /\ IF p = child THEN child_cb ELSE UNCHANGED procVars
    /\ UNCHANGED <<online, radio, faults, told, clientVars, age>>

respawn_cb_once ==
    /\ timer
    /\ IF running
         THEN \E o \in Outcomes :
                 /\ Fault(Cost(o))
                 /\ IF o = "nofork"
                      THEN timer' = FALSE /\ UNCHANGED <<child, delay, exec_errno, ps>>
                      ELSE spawn(child, delay, exec_errno, ps, o)
         ELSE timer' = FALSE /\ UNCHANGED <<child, delay, exec_errno, ps, faults>>
    /\ UNCHANGED <<online, radio, told, proc, running, clientVars, age>>

\* rigpr_respawn_cb().
respawn_cb ==
    /\ timer
    /\ IF running THEN \E o \in Outcomes : spawn(child, delay, exec_errno, ps, o) /\ Fault(Cost(o))
       ELSE timer' = FALSE /\ UNCHANGED <<child, delay, exec_errno, ps, faults>>
    /\ UNCHANGED <<online, radio, told, proc, running, clientVars, age>>

\* Processes are gone: their sockets are closed, what they had not read is lost.
Hangup(gone) ==
    IF peer \in gone THEN peer' = 0 /\ sent' = <<>> /\ UNCHANGED <<fd, answers>>
                     ELSE UNCHANGED connVars

\* rigpr_ensure_dead(): the child may exit and be reaped within half a second;
\* else it is sent SIGKILL and not waited for.
ensure_dead == {{}, {child} \cap Pids}

\* rigctld_proc_destroy(), with the child reaped or not.
destroy(reaped) ==
    /\ told' = (told \cup {p \in Pids : p = child /\ ps[p] # "zombie"}) \ reaped
    /\ Hangup(reaped)

\* start_rigctld_procs() of the configuration: the old object is destroyed, a
\* new one is created if auto_start is set.
ReconfigureProc(auto_start) ==
    /\ \E reaped \in ensure_dead, o \in Outcomes :
          LET kernel == [p \in Pids |-> IF p \in reaped THEN "free" ELSE ps[p]] IN
          /\ destroy(reaped)
          /\ proc' = auto_start
          /\ IF auto_start /\ online THEN start(kernel, o)
             ELSE /\ o = "ok" /\ running' = FALSE /\ child' = 0 /\ timer' = FALSE
                  /\ delay' = RespawnInitial /\ exec_errno' = FALSE /\ ps' = kernel
          /\ Fault(1 + Cost(o))
    /\ UNCHANGED <<online, radio, client, polling, requestVars, last, age>>

-----------------------------------------------------------------------------
(* The client.                                                             *)

\* rigcl_finish_request().
finish_request ==
    /\ phase' = "IDLE" /\ cmd_idx' = 0 /\ op' = FALSE /\ rx' = <<>>

\* rigcl_reset_io(): the socket is closed, what was under way is dropped.
reset_io ==
    /\ finish_request
    /\ fd' = FALSE /\ peer' = 0 /\ sent' = <<>> /\ answers' = <<>>

op_fail_keeps_socket == finish_request /\ UNCHANGED <<connVars, last, age>>

\* rigcl_op_fail().
op_fail == reset_io /\ UNCHANGED <<last, age>>

\* rigcl_stop() of a client that runs.
rigcl_stop == polling' = FALSE /\ reset_io

\* rigcl_keyer_state_changed_cb(): rigcl_start() or rigcl_stop(), each doing
\* nothing when there is nothing to do.
ClientKeyerState(up) ==
    \/ (~client \/ up = polling) /\ UNCHANGED <<polling, requestVars, connVars>>
    \/ client /\ up /\ ~polling /\ polling' = TRUE /\ UNCHANGED <<requestVars, connVars>>
    \/ client /\ ~up /\ polling /\ rigcl_stop


\* set_state() publishes the keyer's state: both objects hear of it.
KeyerState ==
    /\ online' = ~online
    /\ ProcKeyerState(~online)
    /\ ClientKeyerState(~online)
    /\ UNCHANGED <<radio, client, last, age>>

\* The client is destroyed and, if rig mode sync uses it, created again.
ReconfigureClient(enabled) ==
    /\ Fault(1)
    /\ client' = enabled /\ polling' = (enabled /\ online)
    /\ reset_io /\ last' = "none"
    /\ UNCHANGED <<online, radio, kernelVars, procVars, age>>

\* rigcl_poll_cb(), rigcl_start_request(): a request begins unless one is under
\* way; opening the socket takes time (or fails at once, with no effect).  The
\* timer armed here covers the whole request: rigcl_arm_op_timeout() of later
\* steps meets an active timer, which ev_timer_start() leaves alone.
poll_cb ==
    /\ polling /\ phase = "IDLE"
    /\ phase' = IF fd THEN "WRITING" ELSE "CONNECTING"
    /\ fd' = TRUE /\ cmd_idx' = 0 /\ rx' = <<>> /\ op' = TRUE
    /\ answers' = [i \in DOMAIN answers |-> [answers[i] EXCEPT !.old = TRUE]]
    /\ sent' = [i \in DOMAIN sent |-> [sent[i] EXCEPT !.old = TRUE]]
    /\ UNCHANGED <<online, radio, faults, kernelVars, procVars, client, polling, last, peer, age>>

\* io_write_nonblock() of the command to process p (in one piece).  With nobody
\* at the other end it fails or goes nowhere.
write(p) ==
    \/ /\ phase' = "READING" /\ peer' = p
       /\ sent' = IF p = 0 THEN sent ELSE Append(sent, [old |-> FALSE, cmd |-> cmd_idx])
       /\ UNCHANGED <<fd, cmd_idx, op, rx, answers, last, age>>
    \/ p = 0 /\ op_fail

\* count_rprt_lines(): "RPRT " is enough, the code may still be missing.
count_rprt_lines(buf) == Cardinality({i \in DOMAIN buf : buf[i].part = "RPRT"})

\* rigcl_parse_response(), mhc_update_radio_info(): the mode is what the answer
\* for currVFO says, else what was known before; either way it is published.
parse_response(buf) ==
    LET reported == {x.mode : x \in {buf[i] : i \in DOMAIN buf}} \ {"none"} IN
    /\ last' = IF reported = {} THEN last ELSE CHOOSE m \in reported : TRUE
    /\ age' = 0

\* The next command after the one just answered, or the end of the request.
Answered(enough) ==
    \E n \in 1..Len(answers) :
        LET buf == rx \o SubSeq(answers, 1, n) IN
        /\ answers' = SubSeq(answers, n + 1, Len(answers))
        /\ \/ /\ count_rprt_lines(buf) < enough
              /\ rx' = buf /\ UNCHANGED <<phase, cmd_idx, op, last, age>>
           \/ /\ count_rprt_lines(buf) >= enough /\ cmd_idx + 1 < NumCommands
              /\ phase' = "WRITING" /\ cmd_idx' = cmd_idx + 1 /\ rx' = buf
              /\ UNCHANGED <<op, last, age>>
           \/ /\ count_rprt_lines(buf) >= enough /\ cmd_idx + 1 = NumCommands
              /\ parse_response(buf) /\ finish_request
        /\ UNCHANGED <<fd, peer, sent>>

read_any_rprt == Answered(1)

\* The RPRT of this command has come when there is one for each so far.
read == Answered(cmd_idx + 1)

\* rigcl_io_cb(): the socket is writable (the connection is there, or refused)
\* or readable (data, or the end of it).
io_cb ==
    /\ fd
    /\ \/ /\ phase = "CONNECTING"
          /\ IF PortHolder = {} THEN op_fail ELSE \E p \in PortHolder : write(p)
       \/ phase = "WRITING" /\ write(peer)
       \/ phase = "READING" /\ read
       \/ phase = "READING" /\ peer = 0 /\ op_fail
    /\ UNCHANGED <<online, radio, faults, kernelVars, procVars, client, polling>>

\* rigcl_op_timeout_cb().
op_timeout_cb ==
    /\ op /\ Fault(1)
    /\ op_fail
    /\ UNCHANGED <<online, radio, kernelVars, procVars, client, polling>>

-----------------------------------------------------------------------------
(* rigctld and the radio (external).                                       *)

\* Whether a process can get the port, must give up, or is asked to end.
Bind(p) ==
    /\ ps[p] = "starting" /\ PortHolder = {}
    /\ ps' = [ps EXCEPT ![p] = "serving"]
    /\ UNCHANGED <<online, radio, faults, told, procVars, clientVars, age>>

Exit(p) ==
    /\ ps[p] \in {"failed", "starting", "serving"}
    /\ ps[p] = "starting" => PortHolder # {} \/ p \in told
    /\ ps[p] = "serving" => p \in told
    /\ ps' = [ps EXCEPT ![p] = "zombie"] /\ told' = told \ {p} /\ Hangup({p})
    /\ UNCHANGED <<online, radio, faults, procVars, client, polling, requestVars,
                   last, age>>

Crash(p) ==
    /\ ps[p] \in {"starting", "serving"} /\ Fault(1)
    /\ ps' = [ps EXCEPT ![p] = "zombie"] /\ told' = told \ {p} /\ Hangup({p})
    /\ UNCHANGED <<online, radio, procVars, client, polling, requestVars,
                   last, age>>

\* rigctld answers a command; without the radio only with an error code.
Answer ==
    /\ sent # <<>>
    /\ LET c == Head(sent)
           Part(x) == [old |-> c.old, cmd |-> c.cmd, part |-> x,
                       mode |-> IF x = "data" /\ c.cmd = NumCommands - 1 THEN radio ELSE "none"]
       IN answers' = answers \o (IF radio = "off" THEN <<>> ELSE <<Part("data")>>)
                             \o <<Part("RPRT"), Part("code")>>
    /\ sent' = Tail(sent)
    /\ UNCHANGED <<online, radio, faults, kernelVars, procVars, client, polling, requestVars,
                   last, fd, peer, age>>

RadioChanges ==
    /\ \E m \in Modes \cup {"off"} : m # radio /\ radio' = m
    /\ UNCHANGED <<online, faults, kernelVars, procVars, clientVars, age>>

-----------------------------------------------------------------------------
(* The age of the radio info in mhcontrol.c.                               *)

\* mhcontrol.c's radio info timer: radio_info_timeout_cb() is the last tick.
Tick ==
    /\ age < InfoTimeout /\ age' = age + 1
    /\ UNCHANGED <<online, radio, faults, kernelVars, procVars, clientVars>>

valid == age < InfoTimeout

-----------------------------------------------------------------------------
Next ==
    \/ KeyerState \/ RadioChanges \/ Tick
    \/ \E on \in BOOLEAN : ReconfigureProc(on) \/ ReconfigureClient(on)
    \/ respawn_cb \/ poll_cb \/ io_cb \/ op_timeout_cb \/ Answer
    \/ \E p \in Pids : Reap(p) \/ Bind(p) \/ Exit(p) \/ Crash(p)

\* The event loop runs what is due; processes told to end do so, rigctld
\* answers.  Nothing makes a process crash, the radio change or the user act.
Fairness ==
    /\ WF_vars(Tick) /\ WF_vars(respawn_cb) /\ WF_vars(poll_cb) /\ WF_vars(io_cb) /\ WF_vars(op_timeout_cb)
    /\ WF_vars(Answer)
    /\ \A p \in Pids : WF_vars(Reap(p)) /\ WF_vars(Bind(p)) /\ WF_vars(Exit(p))

Spec == Init /\ [][Next]_vars /\ Fairness

-----------------------------------------------------------------------------
TypeOK ==
    /\ {online, proc, running, timer, exec_errno, client, polling, fd, op}
          \subseteq BOOLEAN
    /\ radio \in Modes \cup {"off"} /\ last \in Modes \cup {"none"}
    /\ ps \in [Pids -> {"free", "failed", "starting", "serving", "zombie"}]
    /\ told \subseteq Pids /\ {child, peer} \subseteq Pids \cup {0}
    /\ delay \in RespawnInitial..RespawnMax /\ age \in 0..InfoTimeout
    /\ phase \in Phases /\ cmd_idx \in 0..NumCommands - 1 
    /\ rx \in Seq(Piece) /\ answers \in Seq(Piece)
    /\ sent \in Seq([old : BOOLEAN, cmd : 0..NumCommands - 1])

\* rigpr_kill(), rigctld_proc_destroy(): a rigctld that is not the supervised
\* child has been told to end, so none is left to hold the port for good.
NoOrphans == \A p \in Pids : ps[p] \in {"free", "zombie"} \/ p = child \/ p \in told

\* rigctld_client.c:37: commands are sent one at a time, each after the RPRT
\* before.  What has been read, what is to be read and what is on its way
\* belong to the current request, one RPRT for each command sent so far; of
\* an earlier request at most the code of its last RPRT can be left.
InStep ==
    LET all == rx \o answers
        mine == {i \in DOMAIN all : ~all[i].old /\ all[i].part = "RPRT"}
        out == Cardinality(mine) + Len(sent)
    IN  /\ \A i \in DOMAIN all : all[i].old =>
              i = 1 /\ all[i].part = "code" /\ all[i].cmd = NumCommands - 1
        /\ \A i \in DOMAIN sent : ~sent[i].old /\ sent[i].cmd = cmd_idx
        /\ phase \in {"CONNECTING", "WRITING"} => out = cmd_idx
        /\ phase = "READING" => out = cmd_idx + 1 \/ (peer = 0 /\ out = cmd_idx)

\* rigctld_proc.c: once things settle with the keyer online, rigctld comes up
\* and stays up, also when the one before still held the port.
Restored == <>[](online /\ proc) => <>[](child # 0 /\ child \in PortHolder)

\* rigctld_client.c: when rigctld runs and the radio stays in a mode, the
\* radio info comes to show that mode and is renewed for ever.
RadioFollowed ==
    \A m \in Modes :
        <>[](online /\ proc /\ client /\ radio = m) => <>[](last = m) /\ []<>valid

=============================================================================
