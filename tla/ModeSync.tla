------------------------------ MODULE ModeSync ------------------------------
(***************************************************************************)
(* How the keyer is made to follow the radio (mhcontrol.c): radio info     *)
(* comes from rigctld or native CAT, lifts the keyer's forced mode, sets   *)
(* the keyer's mode and tells it the frequencies; it expires after ten     *)
(* seconds of silence; the keyer reports its mode, which may be the answer *)
(* to a request or a change of its own.                                    *)
(*                                                                         *)
(* One radio of one keyer.  The command queue of mhcontrol.c is kept as a  *)
(* sequence whose head is with the keyer (module KeyerControl has it in    *)
(* full).  The keyer, the radio and the losses between them are external.  *)
(***************************************************************************)
EXTENDS Integers, Sequences, FiniteSets

CONSTANTS
    Modes,       \* keyer modes
    Configured,  \* r1KeyerMode: the mode the keyer is in while it is forced
    FreqPairs,   \* <<rx, tx>> pairs the radio may report
    MaxFaults,   \* bound: lost commands, changes at the keyer, keyer outages
    QueueCap,    \* bound: commands queued when radio info comes or expires
    ReportCap    \* bound: mode reports on their way

ASSUME ModesAssumption == Modes \subseteq Nat /\ Configured \in Modes
ASSUME FreqAssumption == FreqPairs # {} /\ FreqPairs \subseteq (Nat \ {0}) \X (Nat \ {0})
ASSUME BoundAssumption == {MaxFaults, QueueCap, ReportCap} \subseteq Nat

None == -1

VARIABLES
    \* struct mh_control
    st,         \* "off": commands are refused, "init": initializing, "on": ONLINE
    info,       \* radio_info: mode and frequencies
    valid,      \* radio_info_valid; the timer runs with it
    force,      \* r1ForceKeyerMode of kcfg
    mode_req,   \* radio_info_mode_req
    recent,     \* radio_info_mode_req_time is within KEYER_MODE_ANSWER_TIME
    changed,    \* keyer_mode_changed
    tracked,    \* tracked_keyer_mode
    freq_sent,  \* radio_info_freq_sent_success
    queue,      \* cmd_list
    deferred,   \* a refused SET KEYER MODE's callback is due
    \* the event bus
    shown,      \* the last EV_RADIO_INFO
    \* the keyer
    kmode, kforce, kfreq,
    reports,    \* KEYER_MODE on its way from the keyer
    \* the radio
    radio,      \* what it reports: mode and frequencies, or Silent
    \* ghosts
    missed,     \* the keyer's last report was taken for an answer and was none
    faults

ctlVars == <<st, info, valid, force, mode_req, recent, changed, tracked, freq_sent,
             queue, deferred, shown>>
keyerVars == <<kmode, kforce, kfreq, reports>>
vars == <<ctlVars, keyerVars, radio, missed, faults>>

Silent == [mode |-> None, freq |-> <<0, 0>>]
RadioState == [mode : Modes, freq : FreqPairs]
NoFreq == [rx |-> 0, tx |-> 0]

Init ==
    /\ st = "off" /\ info = Silent /\ valid = FALSE /\ force = 1
    /\ mode_req = None /\ recent = FALSE /\ changed = FALSE /\ tracked = None
    /\ freq_sent = FALSE /\ queue = <<>> /\ deferred = FALSE
    /\ shown = [valid |-> FALSE, info |-> Silent]
    /\ kmode = Configured /\ kforce = 1 /\ kfreq = NoFreq /\ reports = <<>>
    /\ radio = Silent /\ missed = FALSE /\ faults = MaxFaults

Fault == faults > 0 /\ faults' = faults - 1

-----------------------------------------------------------------------------
(* Commands.                                                               *)

SetMode(m) == [t |-> "set", m |-> m]
\* mhc_load_kopts() sends the settings as they are when it is called.
load_kopts(f) == [t |-> "kopts", f |-> f]
\* The last step of the initialization that uploads the settings.
InitStep(f) == [t |-> "init", f |-> f]

\* send_cat_freq_info(): one command for each distinct frequency.
send_cat_freq_info(pair) ==
    IF pair[1] = pair[2] THEN <<[t |-> "freq", f |-> pair[1], of |-> {"rx", "tx"}]>>
    ELSE <<[t |-> "freq", f |-> pair[1], of |-> {"rx"}], [t |-> "freq", f |-> pair[2], of |-> {"tx"}]>>

\* set_force_keyer_mode(): whether there is a change, and its command.
ForceChange(f) == IF force = f THEN <<>> ELSE <<load_kopts(f)>>

\* submit_cmd(): refused while the keyer is not connected.
Submitted(cmds) == IF st = "off" THEN queue ELSE queue \o cmds

Shown(v, i) == [valid |-> v, info |-> i]

-----------------------------------------------------------------------------
(* Radio info.                                                             *)

WantsMode_differs(m, lifted) == lifted \/ m # mode_req \/ m # tracked

\* The three reasons to set the keyer's mode.
WantsMode(m, lifted) == lifted \/ m # mode_req \/ (changed /\ m # tracked)

Notify(i) == ~valid \/ i # info

\* mhc_update_radio_info().
update_radio_info ==
    LET lift == ForceChange(0)
        set == IF WantsMode(radio.mode, lift # <<>>) THEN <<SetMode(radio.mode)>> ELSE <<>>
        stale == ~freq_sent \/ radio.freq # info.freq
        freq == IF stale /\ st = "on" THEN send_cat_freq_info(radio.freq) ELSE <<>>
    IN  /\ radio # Silent /\ Len(queue) <= QueueCap
        /\ force' = 0
        /\ queue' = Submitted(lift \o set \o freq)
        /\ deferred' = (deferred \/ (set # <<>> /\ st = "off"))
        /\ IF set # <<>>
             THEN mode_req' = radio.mode /\ recent' = TRUE /\ changed' = FALSE
             ELSE UNCHANGED <<mode_req, recent, changed>>
        /\ freq_sent' = (freq_sent /\ ~(stale /\ st # "on"))
        /\ info' = radio /\ valid' = TRUE
        /\ shown' = IF Notify(radio) THEN Shown(TRUE, radio) ELSE shown
        /\ UNCHANGED <<st, tracked, keyerVars, radio, missed, faults>>

radio_info_timeout_cb_tells ==
    /\ valid /\ radio = Silent /\ Len(queue) <= QueueCap
    /\ valid' = FALSE /\ shown' = Shown(FALSE, info)
    /\ UNCHANGED <<st, info, force, mode_req, recent, changed, tracked, freq_sent, queue, deferred,
                   keyerVars, radio, missed, faults>>

\* radio_info_timeout_cb(): ten seconds without an update.
radio_info_timeout_cb ==
    /\ valid /\ radio = Silent /\ Len(queue) <= QueueCap
    /\ valid' = FALSE /\ force' = 1
    /\ queue' = Submitted(ForceChange(1))
    /\ shown' = Shown(FALSE, info)
    /\ UNCHANGED <<st, info, mode_req, recent, changed, tracked, freq_sent, deferred,
                   keyerVars, radio, missed, faults>>

-----------------------------------------------------------------------------
(* What the keyer answers.                                                 *)

mode_cb_ignored == UNCHANGED mode_req

\* radio_info_mode_cb() of a command that failed.
mode_cb_failed == mode_req' = None

\* The completion of a command: initializer_cb(), radio_info_mode_cb(),
\* send_cat_freq_info_cb(), nothing for settings.
Complete(c, ok) ==
    /\ CASE c.t = "init" -> /\ st' = IF ok THEN "on" ELSE "off"
                            /\ mode_req' = IF ok THEN None ELSE mode_req
                            /\ UNCHANGED freq_sent
         [] c.t = "set" -> /\ IF ok THEN UNCHANGED mode_req ELSE mode_cb_failed
                           /\ UNCHANGED <<st, freq_sent>>
         [] c.t = "freq" -> freq_sent' = ok /\ UNCHANGED <<st, mode_req>>
         [] c.t = "kopts" -> UNCHANGED <<st, mode_req, freq_sent>>
    /\ queue' = Tail(queue)
    /\ UNCHANGED <<info, valid, force, recent, changed, tracked, deferred, shown, radio>>

\* What a command does to the keyer (external): a forced keyer is in its
\* configured mode and takes no other; a mode change is reported, and so is the
\* mode at the end of the initialization.
Execute(c) ==
    LET f == IF c.t \in {"kopts", "init"} THEN c.f ELSE kforce
        k == IF f = 1 THEN Configured ELSE IF c.t = "set" THEN c.m ELSE kmode
    IN  /\ kforce' = f /\ kmode' = k
        /\ reports' = IF k # kmode \/ c.t = "init" THEN Append(reports, k) ELSE reports
        /\ kfreq' = IF c.t = "freq" THEN [w \in {"rx", "tx"} |-> IF w \in c.of THEN c.f ELSE kfreq[w]]
                    ELSE kfreq

Answer ==
    /\ queue # <<>> /\ Len(reports) < ReportCap
    /\ Execute(Head(queue)) /\ Complete(Head(queue), TRUE)
    /\ UNCHANGED <<missed, faults>>

\* cmd_timeout_cb(): the command or its answer was lost.
cmd_timeout_cb ==
    /\ queue # <<>> /\ Len(reports) < ReportCap /\ Fault
    /\ Execute(Head(queue)) \/ UNCHANGED keyerVars
    /\ Complete(Head(queue), FALSE)
    /\ UNCHANGED missed

\* handle_deferred() of a refused SET KEYER MODE.
handle_deferred ==
    /\ deferred /\ deferred' = FALSE
    /\ mode_cb_failed
    /\ UNCHANGED <<st, info, valid, force, recent, changed, tracked, freq_sent, queue, shown,
                   keyerVars, radio, missed, faults>>

\* MHCMD_KEYER_MODE: within the answer time it is taken for the answer.
keyer_mode_report ==
    /\ reports # <<>>
    /\ tracked' = Head(reports)
    /\ changed' = (changed \/ ~recent)
    /\ missed' = (recent /\ Head(reports) # mode_req)
    /\ reports' = Tail(reports)
    /\ UNCHANGED <<st, info, valid, force, mode_req, recent, freq_sent, queue, deferred, shown,
                   kmode, kforce, kfreq, radio, faults>>

AnswerTimeOver ==
    /\ recent /\ recent' = FALSE
    /\ UNCHANGED <<st, info, valid, force, mode_req, changed, tracked, freq_sent, queue, deferred,
                   shown, keyerVars, radio, missed, faults>>

-----------------------------------------------------------------------------
(* The keyer goes and comes.                                               *)

\* router_status_cb(): disconnected.  flush_cmds() completes what is queued.
Disconnected ==
    /\ st # "off" /\ Fault
    /\ st' = "off"
    /\ mode_req' = IF \E i \in DOMAIN queue : queue[i].t = "set" THEN None ELSE mode_req
    /\ freq_sent' = (freq_sent /\ \A i \in DOMAIN queue : queue[i].t # "freq")
    /\ queue' = <<>> /\ reports' = <<>>
    /\ UNCHANGED <<info, valid, force, recent, changed, tracked, deferred, shown,
                   kmode, kforce, kfreq, radio, missed>>

\* heartbeat_completed_cb(): the keyer is silent; its commands stay queued.
HeartbeatTimeout ==
    /\ st = "on" /\ Fault
    /\ st' = "off"
    /\ UNCHANGED <<info, valid, force, mode_req, recent, changed, tracked, freq_sent, queue,
                   deferred, shown, keyerVars, radio, missed>>

\* initializer_step() from CTL_STATE_DEVICE_OFF: the keyer answers again.  It
\* may have been switched off meanwhile.
InitStart ==
    /\ st = "off" /\ st' = "init"
    /\ freq_sent' = FALSE
    /\ queue' = Append(queue, InitStep(force))
    /\ kfreq' = NoFreq /\ kforce' \in {0, 1} /\ kmode' = Configured
    /\ UNCHANGED <<info, valid, force, mode_req, recent, changed, tracked, deferred, shown,
                   reports, radio, missed, faults>>

\* MHCMD_JUST_RESTARTED: initializer_step() from CTL_STATE_SET_CHANNELS.
JustRestarted ==
    /\ st = "on" /\ Fault
    /\ st' = "init"
    /\ queue' = Append(queue, InitStep(force))
    /\ kfreq' = NoFreq /\ kforce' \in {0, 1} /\ kmode' = Configured
    /\ UNCHANGED <<info, valid, force, mode_req, recent, changed, tracked, freq_sent, deferred,
                   shown, reports, radio, missed>>

-----------------------------------------------------------------------------
(* The operator (external).                                                *)

TurnsKnob ==
    /\ \E r \in RadioState \cup {Silent} : r # radio /\ radio' = r
    /\ UNCHANGED <<ctlVars, keyerVars, missed, faults>>

SwitchesKeyer ==
    /\ kforce = 0 /\ st = "on" /\ Len(reports) < ReportCap /\ Fault
    /\ \E m \in Modes : m # kmode /\ kmode' = m /\ reports' = Append(reports, m)
    /\ UNCHANGED <<ctlVars, kforce, kfreq, radio, missed>>

-----------------------------------------------------------------------------
Next ==
    \/ update_radio_info \/ radio_info_timeout_cb
    \/ Answer \/ cmd_timeout_cb \/ handle_deferred \/ keyer_mode_report \/ AnswerTimeOver
    \/ Disconnected \/ HeartbeatTimeout \/ InitStart \/ JustRestarted
    \/ TurnsKnob \/ SwitchesKeyer

\* The radio is polled, the keyer answers and reports, timers fire.
Fairness ==
    /\ WF_vars(update_radio_info) /\ WF_vars(radio_info_timeout_cb)
    /\ WF_vars(Answer) /\ WF_vars(handle_deferred) /\ WF_vars(keyer_mode_report)
    /\ WF_vars(AnswerTimeOver) /\ WF_vars(InitStart)

Spec == Init /\ [][Next]_vars /\ Fairness

-----------------------------------------------------------------------------
Command == [t : {"set"}, m : Modes] \cup [t : {"kopts", "init"}, f : {0, 1}]
           \cup [t : {"freq"}, f : UNION {{p[1], p[2]} : p \in FreqPairs}, of : SUBSET {"rx", "tx"}]

TypeOK ==
    /\ st \in {"off", "init", "on"}
    /\ info \in RadioState \cup {Silent} /\ radio \in RadioState \cup {Silent}
    /\ {valid, recent, changed, freq_sent, deferred, missed} \subseteq BOOLEAN
    /\ {force, kforce} \subseteq {0, 1}
    /\ {mode_req, tracked} \subseteq Modes \cup {None} /\ kmode \in Modes
    /\ queue \in Seq(Command) /\ reports \in Seq(Modes)
    /\ faults \in 0..MaxFaults

Sync == st = "on" /\ kforce = force

\* mhcontrol.c:2037: the radio staying in a mode, the keyer comes to be in it,
\* whatever was lost, switched or restarted before.  Two cases are excepted:
\* the settings that lift the forced mode were lost, which nothing notices; and
\* the keyer's own change was reported within the answer time.
ModeFollows ==
    \A m \in Modes : <>[](radio.mode = m /\ Sync /\ ~missed) => <>[](kmode = m)

\* README.md:317: the radio staying silent, its state expires and the keyer goes
\* back to its configured mode (unless the settings were lost).
BackToConfigured ==
    <>[](radio = Silent /\ Sync) => <>[](~valid /\ kmode = Configured)

\* mhcontrol.c:2040: requests end, also when the keyer does not take the mode.
NoRequestStorm ==
    \A m \in Modes :
        <>[](radio.mode = m /\ st = "on") => <>[](\A i \in DOMAIN queue : queue[i].t # "set")

=============================================================================
