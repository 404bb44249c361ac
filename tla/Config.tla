------------------------------- MODULE Config -------------------------------
(***************************************************************************)
(* The configuration of mhuxd: the keyers it knows (devmgr.c), the         *)
(* connectors it should have and the ones that run (cfgmgrj.c, conmgr.c),  *)
(* the file both are kept in, and the REST requests that change them       *)
(* (restapi.c).                                                            *)
(*                                                                         *)
(* Settings of a keyer are sent to it, and the code waits for the keyer's  *)
(* answer in an event loop of its own (ev_run in apply_device_from_json    *)
(* and sm_get_antsw).  That loop serves other requests, which may wait in  *)
(* turn: the requests being served form a stack, and the one below goes on *)
(* only after the one above has finished.                                  *)
(***************************************************************************)
EXTENDS Integers, Sequences, FiniteSets, FiniteSetsExt, SequencesExt, Functions, TLC

CONSTANTS
  Dev,            \* serial numbers
  SmDev,          \* Station Masters
  UsbDev,         \* keyers that are plugged in at times
  Name,           \* names users give to keyers
  NoName,         \* a keyer without one
  Setting,        \* settings of connectors: [dev, port, valid]
  Update,         \* updates of keyers: sequences of [dev, name]
  Client,         \* connections of web clients, each with one request at a time
  NoClient,
  InitFile,       \* the configuration file at first
  EarlyRequests,  \* requests are served while the file is loaded
  MaxId,          \* connectors are added while ids stay below
  MaxFail,        \* times the file cannot be opened for writing
  MaxStop         \* times the daemon crashes or is terminated

ConId == 1..MaxId

Partial(S, T) == UNION {[D -> T] : D \in SUBSET S}

KeyerUpdate == [dev : Dev, name : Name \cup {NoName, "keep"}]

File == [dev : Partial(Dev, Name \cup {NoName}), con : Partial(ConId, Setting)]

ASSUME ConstAssumption ==
  /\ IsFiniteSet(Dev) /\ SmDev \cup UsbDev \subseteq Dev
  /\ NoName \notin Name /\ NoClient \notin Client
  /\ Setting \subseteq [dev : Dev, port : STRING, valid : BOOLEAN]
  /\ Update \subseteq Seq(KeyerUpdate) \ {<<>>}
  /\ InitFile \in File
  /\ EarlyRequests \in BOOLEAN
  /\ {MaxId, MaxFail, MaxStop} \subseteq Nat

VARIABLES
  phase,   \* "down", "loading", "up"
  dev,     \* device_list: the name of each keyer known
  linked,  \* keyers whose tty is open
  reg,     \* cfgmgrj->connectors by id, the registry of intent
  run,     \* connector_list by id
  idCnt,   \* conmgr->id_cnt
  busy,    \* cfgmgrj->busy
  stack,   \* requests waiting in nested event loops, the innermost last
  file,    \* the configuration file: keyers and connectors
  open,    \* clients whose request is not answered
  told,    \* ghost: connectors a client was told are created, by id
  fails,   \* failed saves so far
  stops    \* crashes and terminations so far

memVars == <<dev, linked, reg, run, idCnt>>
vars == <<phase, memVars, busy, stack, file, open, told, fails, stops>>

\* A request in a nested loop: the updates it has not applied, the first of which
\* it is applying or, for the Station Master, the keyer it reads; whether the
\* answer it waits for is here, whether anything went wrong.
Frame == [kind : {"load", "apply", "sm"}, client : Client \cup {NoClient},
          todo : Seq(KeyerUpdate) \ {<<>>},
          got : BOOLEAN, bad : BOOLEAN]

TypeOK ==
  /\ phase \in {"down", "loading", "up"}
  /\ dev \in Partial(Dev, Name \cup {NoName})
  /\ linked \subseteq DOMAIN dev
  /\ reg \in Partial(ConId, Setting)
  /\ run \in Partial(ConId, Setting)
  /\ idCnt \in 0..MaxId
  /\ busy = Len(stack)
  /\ stack \in Seq(Frame)
  /\ file \in File
  /\ open \subseteq Client
  /\ told \in Partial(ConId, Setting)
  /\ fails \in 0..MaxFail /\ stops \in 0..MaxStop

Empty == [x \in {} |-> NoName]

Init ==
  /\ phase = "down"
  /\ dev = Empty /\ linked = {}
  /\ reg = Empty /\ run = Empty /\ idCnt = 0
  /\ busy = 0 /\ stack = <<>>
  /\ file = InitFile
  /\ open = {} /\ told = Empty
  /\ fails = 0 /\ stops = 0

Put(f, x, v) == [y \in DOMAIN f \cup {x} |-> IF y = x THEN v ELSE f[y]]

Over(f, g) == [x \in DOMAIN f \cup DOMAIN g |-> IF x \in DOMAIN f THEN f[x] ELSE g[x]]

Without(f, S) == Restrict(f, DOMAIN f \ S)

-----------------------------------------------------------------------------
(* Connectors.  c holds the registry, the running connectors and id_cnt, and *)
(* the id registered last.                                                   *)

Connectors == [reg |-> reg, run |-> run, idCnt |-> idCnt, id |-> 0]

\* conmgr_create_con_cfg starts a connector if its keyer is known and its port is
\* free, unless one with the same id runs.
Starts(c, s, id, known) ==
  /\ id \notin DOMAIN c.run
  /\ s.dev \in known
  /\ \A i \in DOMAIN c.run : c.run[i].port # s.port

conmgr_reserve_id(c, id) == [c EXCEPT !.idCnt = Max({@, id})]

registry_set_connector(c, s, id) == [c EXCEPT !.reg = Put(@, id, s), !.id = id]

\* A variant in which a new connector that failed gets an id nobody reserves.
apply_connector_unreserved(c, s, id, known, keep) ==
  LET next == Max({0} \cup DOMAIN c.reg) + 1
      new == IF id > 0 THEN id ELSE IF Starts(c, s, id, known) THEN c.idCnt + 1 ELSE next
      r == conmgr_reserve_id(c, new)
  IN  CASE ~s.valid -> IF keep /\ id > 0 THEN registry_set_connector(r, s, id) ELSE c
        [] s.valid /\ Starts(c, s, id, known) ->
             [registry_set_connector(r, s, new) EXCEPT !.run = Put(@, new, s)]
        [] OTHER -> registry_set_connector(IF id > 0 THEN r ELSE c, s, new)

\* A connector is registered whether it starts or not; id is 0 for a new one.  A
\* new one that fails gets the id after the highest registered.
apply_connector_from_json(c, s, id, known, keep) ==
  LET next == Max({0} \cup DOMAIN c.reg) + 1
      new == IF id > 0 THEN id ELSE IF Starts(c, s, id, known) THEN c.idCnt + 1 ELSE next
      r == conmgr_reserve_id(c, new)
  IN  CASE ~s.valid -> IF keep /\ id > 0 THEN registry_set_connector(r, s, id) ELSE c
        [] s.valid /\ Starts(c, s, id, known) ->
             [registry_set_connector(r, s, new) EXCEPT !.run = Put(@, new, s)]
        [] OTHER -> registry_set_connector(r, s, new)

\* The connectors con of the file, each applied to c under its id: all are
\* registered, and of those that want the same port the one with the lowest id
\* gets it, as it comes first in the file.
LoadConnectors(c, con, known) ==
  LET able == {i \in DOMAIN con : con[i].valid /\ Starts(c, con[i], i, known)}
      first == {i \in able : \A j \in able : con[j].port = con[i].port => i <= j}
  IN  [c EXCEPT !.reg = Over(con, @), !.run = Over(Restrict(con, first), @),
                !.idCnt = Max({@} \cup DOMAIN con)]

SetCons(c) == reg' = c.reg /\ run' = c.run /\ idCnt' = c.idCnt

-----------------------------------------------------------------------------
(* The file. *)

\* cfgmgrj_save_cfg writes keyers and connectors, or cannot open the file.
cfgmgrj_save_cfg(ok, d, c) ==
  IF ok THEN file' = [dev |-> d, con |-> c] /\ UNCHANGED fails
        ELSE fails < MaxFail /\ fails' = fails + 1 /\ UNCHANGED file

-----------------------------------------------------------------------------
(* Keyers. *)

\* create_dev, unless the keyer is known.
AddDevice(known, d) == IF d \in DOMAIN known THEN known ELSE Put(known, d, NoName)

\* dmgr_check_device_name
NameFree(known, d, n) ==
  n \in {NoName, "keep"} \/ \A e \in DOMAIN known \ {d} : known[e] # n

\* A variant that relies on the check of the request (check_device_names).
NameTaken_unchecked(known, u) == FALSE

NameTaken(known, u) == ~NameFree(known, u.dev, u.name)

\* The part of apply_device_from_json before the keyer is sent anything: a keyer
\* nobody knows is added, and named unless another has the name by now.
ApplyDevice(known, u) ==
  IF u.name = "keep" \/ NameTaken(known, u)
  THEN AddDevice(known, u.dev)
  ELSE Put(known, u.dev, u.name)

\* The request f goes on with its next keyer, whose settings are sent, and waits.
Waiting(f) ==
  [f EXCEPT !.got = FALSE, !.bad = @ \/ NameTaken(dev, Head(f.todo))]

-----------------------------------------------------------------------------
(* Requests.  They arrive in whatever event loop runs. *)

Serving(c) ==
  /\ phase = "up" \/ (phase = "loading" /\ EarlyRequests)
  /\ c \notin open

\* cb_config_connectors: POST without an id.
AddConnector(c, s) ==
  /\ Serving(c)
  /\ s.valid
  /\ Max({idCnt} \cup DOMAIN reg) < MaxId
  /\ LET a == apply_connector_from_json(Connectors, s, 0, DOMAIN dev, FALSE)
     IN  /\ SetCons(a)
         /\ \E ok \in BOOLEAN :
              /\ cfgmgrj_save_cfg(ok, dev, a.reg)
              /\ told' = IF ok THEN Put(told, a.id, s) ELSE told
  /\ UNCHANGED <<phase, dev, linked, busy, stack, open, stops>>

\* A variant that leaves a connector running when the file cannot be written.
RemoveConnector_running(c, id) ==
  /\ Serving(c)
  /\ id \in DOMAIN reg
  /\ reg' = Without(reg, {id})
  /\ told' = Without(told, {id})
  /\ \E ok \in BOOLEAN :
       /\ cfgmgrj_save_cfg(ok, dev, reg')
       /\ run' = IF ok THEN Without(run, {id}) ELSE run
  /\ UNCHANGED <<phase, dev, linked, idCnt, busy, stack, open, stops>>

\* cfgmgrj_remove_conn
RemoveConnector(c, id) ==
  /\ Serving(c)
  /\ id \in DOMAIN reg
  /\ reg' = Without(reg, {id})
  /\ run' = Without(run, {id})
  /\ told' = Without(told, {id})
  /\ \E ok \in BOOLEAN : cfgmgrj_save_cfg(ok, dev, reg')
  /\ UNCHANGED <<phase, dev, linked, idCnt, busy, stack, open, stops>>

\* A variant that does not look whether somebody waits for the keyer.
RemoveDevice_waiting(c, d) ==
  /\ Serving(c)
  /\ d \in DOMAIN dev /\ d \notin linked
  /\ LET own == {i \in DOMAIN reg : reg[i].dev = d}
     IN  /\ reg' = Without(reg, own)
         /\ run' = Without(run, {i \in DOMAIN run : run[i].dev = d})
         /\ told' = Without(told, own)
  /\ dev' = Without(dev, {d})
  /\ \E ok \in BOOLEAN : cfgmgrj_save_cfg(ok, dev', reg')
  /\ UNCHANGED <<phase, linked, idCnt, busy, stack, open, stops>>

\* cfgmgrj_remove_device: refused while a request waits for any keyer (EAGAIN) and
\* while this one is connected (EBUSY).
RemoveDevice(c, d) ==
  /\ Serving(c)
  /\ busy = 0
  /\ d \in DOMAIN dev /\ d \notin linked
  /\ LET own == {i \in DOMAIN reg : reg[i].dev = d}
     IN  /\ reg' = Without(reg, own)
         /\ run' = Without(run, {i \in DOMAIN run : run[i].dev = d})
         /\ told' = Without(told, own)
  /\ dev' = Without(dev, {d})
  /\ \E ok \in BOOLEAN : cfgmgrj_save_cfg(ok, dev', reg')
  /\ UNCHANGED <<phase, linked, idCnt, busy, stack, open, stops>>

\* cb_config_devices, cb_config_device: the names are checked, then the first
\* keyer's settings are applied.
UpdateDevices(c, u) ==
  /\ Serving(c)
  /\ \A k \in DOMAIN u : NameFree(dev, u[k].dev, u[k].name)
  /\ stack' = Append(stack, Waiting([kind |-> "apply", client |-> c, todo |-> u,
                                     got |-> FALSE, bad |-> FALSE]))
  /\ dev' = ApplyDevice(dev, Head(u))
  /\ busy' = busy + 1
  /\ open' = open \cup {c}
  /\ UNCHANGED <<phase, linked, reg, run, idCnt, file, told, fails, stops>>

\* cb_device_actions: sm_load, refused while the same keyer is being read.
StationMaster(c, d) ==
  /\ Serving(c)
  /\ d \in DOMAIN dev \cap SmDev
  /\ \A k \in DOMAIN stack : stack[k].kind = "sm" => Head(stack[k].todo).dev # d
  /\ stack' = Append(stack, [kind |-> "sm", client |-> c, todo |-> <<[dev |-> d, name |-> "keep"]>>,
                             got |-> FALSE, bad |-> FALSE])
  /\ busy' = busy + 1
  /\ open' = open \cup {c}
  /\ UNCHANGED <<phase, memVars, file, told, fails, stops>>

-----------------------------------------------------------------------------
(* The nested loops. *)

\* completion_cb: what the k-th request waits for is answered, or failed, which
\* only makes a difference to an update.
Complete(k, ok) ==
  /\ k \in DOMAIN stack /\ ~stack[k].got
  /\ ok \/ stack[k].kind = "apply"
  /\ stack' = [stack EXCEPT ![k].got = TRUE, ![k].bad = @ \/ ~ok]
  /\ UNCHANGED <<phase, memVars, busy, file, open, told, fails, stops>>

\* The innermost loop ends and its request goes on.
Ready(k) == k = Len(stack) /\ k > 0 /\ stack[k].got

NextDevice(k) ==
  /\ Ready(k) /\ Len(stack[k].todo) > 1
  /\ LET f == [stack[k] EXCEPT !.todo = Tail(@)]
     IN  /\ stack' = [stack EXCEPT ![k] = Waiting(f)]
         /\ dev' = ApplyDevice(dev, Head(f.todo))
  /\ UNCHANGED <<phase, linked, reg, run, idCnt, busy, file, open, told, fails, stops>>

\* The request is answered.  What an update applied is saved if all of it could be
\* applied.
Finish(k) ==
  /\ Ready(k) /\ Len(stack[k].todo) = 1 /\ stack[k].kind # "load"
  /\ stack' = Front(stack)
  /\ busy' = busy - 1
  /\ open' = open \ {stack[k].client}
  /\ IF stack[k].kind = "sm" \/ stack[k].bad
     THEN UNCHANGED <<file, fails>>
     ELSE \E ok \in BOOLEAN : cfgmgrj_save_cfg(ok, dev, reg)
  /\ UNCHANGED <<phase, memVars, told, stops>>

\* cfgmgrj_load_cfg goes on with the connectors; the device monitor is enabled.
Loaded(k) ==
  /\ Ready(k) /\ Len(stack[k].todo) = 1 /\ stack[k].kind = "load"
  /\ stack' = Front(stack)
  /\ busy' = busy - 1
  /\ SetCons(LoadConnectors(Connectors, file.con, DOMAIN dev))
  /\ phase' = "up"
  /\ UNCHANGED <<dev, linked, file, open, told, fails, stops>>

-----------------------------------------------------------------------------
(* Keyers come and go, and so does the daemon. *)

\* devmon_callback
Plug(d) ==
  /\ phase = "up" /\ d \notin linked
  /\ dev' = AddDevice(dev, d)
  /\ linked' = linked \cup {d}
  /\ UNCHANGED <<phase, reg, run, idCnt, busy, stack, file, open, told, fails, stops>>

Unplug(d) ==
  /\ d \in linked
  /\ linked' = linked \ {d}
  /\ UNCHANGED <<phase, dev, reg, run, idCnt, busy, stack, file, open, told, fails, stops>>

\* app_ctx_init up to the first keyer the file has.
Start ==
  /\ phase = "down"
  /\ IF DOMAIN file.dev = {}
     THEN /\ SetCons(LoadConnectors(Connectors, file.con, {}))
          /\ phase' = "up"
          /\ UNCHANGED <<dev, busy, stack>>
     ELSE LET s == SetToSeq(DOMAIN file.dev)
              u == [k \in DOMAIN s |-> [dev |-> s[k], name |-> file.dev[s[k]]]]
          IN  /\ stack' = <<[kind |-> "load", client |-> NoClient, todo |-> u,
                             got |-> FALSE, bad |-> FALSE]>>
              /\ dev' = ApplyDevice(dev, Head(u))
              /\ busy' = 1
              /\ phase' = "loading"
              /\ UNCHANGED <<reg, run, idCnt>>
  /\ UNCHANGED <<linked, file, open, told, fails, stops>>

\* What a new process starts with.
Stopped ==
  /\ stops < MaxStop /\ stops' = stops + 1
  /\ phase' = "down"
  /\ dev' = Empty /\ linked' = {}
  /\ reg' = Empty /\ run' = Empty /\ idCnt' = 0
  /\ busy' = 0 /\ stack' = <<>>
  /\ open' = {}
  /\ UNCHANGED told

Crash == phase # "down" /\ Stopped /\ UNCHANGED <<file, fails>>

\* app_ctx_destroy saves once more.
Terminate ==
  /\ phase = "up" /\ stack = <<>>
  /\ Stopped
  /\ \E ok \in BOOLEAN : cfgmgrj_save_cfg(ok, dev, reg)

-----------------------------------------------------------------------------
RequestNext(c) ==
  \/ \E s \in Setting : AddConnector(c, s)
  \/ \E id \in ConId : RemoveConnector(c, id)
  \/ \E d \in Dev : RemoveDevice(c, d) \/ StationMaster(c, d)
  \/ \E u \in Update : UpdateDevices(c, u)

Resume(k) == NextDevice(k) \/ Finish(k) \/ Loaded(k)

Depth == 1..(Cardinality(Client) + 1)

Next ==
  \/ \E c \in Client : RequestNext(c)
  \/ \E k \in Depth : Resume(k) \/ \E ok \in BOOLEAN : Complete(k, ok)
  \/ \E d \in UsbDev : Plug(d) \/ Unplug(d)
  \/ Start \/ Crash \/ Terminate

Spec == Init /\ [][Next]_vars

-----------------------------------------------------------------------------
(* Properties. *)

\* What refers to a keyer refers to one that is there: the code that waits for it
\* (cfgmgrj.c:1818-1820 "The waiting code still holds the device"), and the
\* connectors.
Held ==
  /\ \A k \in DOMAIN stack : Head(stack[k].todo).dev \in DOMAIN dev
  /\ \A i \in DOMAIN run : run[i].dev \in DOMAIN dev

\* A connector that runs is the one registered under its id.
RunsAsRegistered ==
  \A i \in DOMAIN run : i \in DOMAIN reg /\ reg[i] = run[i]

\* No two keyers have the same name, though an update checks its names before it
\* waits and sets them afterwards.
NamesUnique ==
  \A d, e \in DOMAIN dev : dev[d] = dev[e] /\ d # e => dev[d] = NoName

\* A connector whose creation was confirmed stays in the file, under its id and
\* with its settings, until it or its keyer is removed: whether it runs or not,
\* whatever is saved meanwhile and however often the daemon starts.
Durable ==
  \A i \in DOMAIN told : i \in DOMAIN file.con /\ file.con[i] = told[i]
=============================================================================
