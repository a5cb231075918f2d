--------------------------- MODULE EntryLifecycle ---------------------------
(***************************************************************************)
(* One PLC's config entry: the flows that create it after probing the PLC, *)
(* and async_setup_entry, async_unload_entry and the update listener, with *)
(* Home Assistant's setup lock, its retries and what happens to the        *)
(* connection on every way out of a setup.                                 *)
(*                                                                         *)
(* A step is what a coroutine does between two awaits, or the outcome of   *)
(* an executor job.  What subscriptions and the first refresh do with the  *)
(* connection is in AdsCoordinator, what the exports write is in           *)
(* SettingsFiles; here they are awaits that succeed or fail.               *)
(***************************************************************************)
EXTENDS ReadPoints, FiniteSets

CONSTANTS
    Configs,                \* what the effective options may be
    Flows,                  \* dialogs that add this PLC by hand
    Connections, None,      \* pyads.Connection objects; no object
    MaxUpdates, MaxFaults, MaxOutages, MaxMishaps   \* bounds on the environment

NewConfig == [variables |-> <<>>, device_profiles |-> <<>>]

ASSUME LifecycleAssumption ==
    /\ NewConfig \in Configs /\ Configs \subseteq Config
    /\ None \notin Connections
    /\ MaxUpdates \in Nat /\ MaxFaults \in Nat /\ MaxOutages \in Nat /\ MaxMishaps \in Nat

VARIABLES
    flow, probes, added,    \* each dialog; open probe connections; entries created
    state, options,         \* of the entry: its state and its effective options
    listeners,              \* update listeners registered
    exporting, waiting,     \* tasks: listeners that export, reloads that want the lock
    job, read, held,        \* what is done under the lock: its step and its locals
    stored, open,           \* hass.data[DOMAIN][entry_id]; open connections
    up, updates, faults, outages, mishaps

flowVars == <<flow, probes, added>>
taskVars == <<exporting, waiting>>
jobVars == <<job, read, held>>
plcVars == <<up, outages>>
vars == <<flowVars, state, options, listeners, taskVars, jobVars, stored, open,
          plcVars, updates, faults, mishaps>>

(* The lists of a coordinator made of a configuration, a table for TLC. *)
ListsOf == [c \in Configs |-> ReadLists(c)]

InSetup == {"connecting", "starting", "closing", "exporting", "forwarding"}
InUnload == {"unloading", "dropping"}
Stored == [plc : Connections, config : Configs, lists : {ListsOf[c] : c \in Configs}]

ASSUME StoredAssumption == None \notin Stored

(* Every variable has its type. *)
TypeOK ==
    /\ flow \in [Flows -> {"idle", "probing", "probed", "refused", "ended"}]
    /\ probes \subseteq Flows /\ added \in Nat
    /\ state \in {"absent", "setup_in_progress", "loaded", "setup_retry", "setup_error",
                  "unload_in_progress", "failed_unload"}
    /\ options \in Configs /\ listeners \in Nat
    /\ exporting \in Nat /\ waiting \in Nat
    /\ job \in InSetup \union InUnload \union {"free"}
    /\ read \in Configs /\ held \in Connections \union {None}
    /\ stored \in Stored \union {None}
    /\ open \subseteq Connections /\ up \in BOOLEAN
    /\ updates \in 0 .. MaxUpdates /\ faults \in 0 .. MaxFaults
    /\ outages \in 0 .. MaxOutages /\ mishaps \in 0 .. MaxMishaps

Init ==
    /\ flow = [f \in Flows |-> "idle"] /\ probes = {} /\ added = 0
    /\ state = "absent" /\ options = NewConfig /\ listeners = 0
    /\ exporting = 0 /\ waiting = 0
    /\ job = "free" /\ read = NewConfig /\ held = None
    /\ stored = None /\ open = {} /\ up = TRUE
    /\ updates = 0 /\ faults = 0 /\ outages = 0 /\ mishaps = 0

-----------------------------------------------------------------------------
(* A pyads call raises while the PLC is away, now and then otherwise. *)
AdsError ==
    /\ ~up \/ faults < MaxFaults
    /\ faults' = IF up THEN faults + 1 ELSE faults

(* What cannot be foreseen: a cancellation, an error that is no ADSError,  *)
(* a close that fails, a platform that does not load or unload.            *)
Mishap == mishaps < MaxMishaps /\ mishaps' = mishaps + 1

(* The setup as far as its first await: the listener is registered, then   *)
(* the options are read.  The entry keeps the lock.                        *)
StartSetup(registered) ==
    /\ state' = "setup_in_progress"
    /\ listeners' = registered + 1
    /\ read' = options'
    /\ job' = "connecting"
    /\ held' = None

-----------------------------------------------------------------------------
(* async_step_user: the input is in order, the probe is queued. *)
SubmitUser(f) ==
    /\ flow[f] = "idle"
    /\ flow' = [flow EXCEPT ![f] = "probing"]
    /\ UNCHANGED <<probes, added, state, options, listeners, taskVars, jobVars, stored, open,
                   plcVars, updates, faults, mishaps>>

(* test_connection: a failed route ends it, else a connection is opened. *)
ProbeOpen(f) ==
    /\ flow[f] = "probing" /\ f \notin probes
    /\ \/ AdsError /\ flow' = [flow EXCEPT ![f] = "refused"] /\ UNCHANGED probes
       \/ up /\ probes' = probes \union {f} /\ UNCHANGED <<flow, faults>>
    /\ UNCHANGED <<added, state, options, listeners, taskVars, jobVars, stored, open,
                   plcVars, updates, mishaps>>

(* Mutant: the connection is closed when the probe succeeds. *)
ProbeReadUncleaned(f) ==
    /\ flow[f] = "probing" /\ f \in probes
    /\ \/ AdsError /\ flow' = [flow EXCEPT ![f] = "refused"] /\ UNCHANGED probes
       \/ up /\ flow' = [flow EXCEPT ![f] = "probed"] /\ probes' = probes \ {f} /\ UNCHANGED faults
    /\ UNCHANGED <<added, state, options, listeners, taskVars, jobVars, stored, open,
                   plcVars, updates, mishaps>>

(* read_state succeeds or fails; the finally clause closes the connection. *)
ProbeRead(f) ==
    /\ flow[f] = "probing" /\ f \in probes
    /\ \/ AdsError /\ flow' = [flow EXCEPT ![f] = "refused"]
       \/ up /\ flow' = [flow EXCEPT ![f] = "probed"] /\ UNCHANGED faults
    /\ probes' = probes \ {f}
    /\ UNCHANGED <<added, state, options, listeners, taskVars, jobVars, stored, open,
                   plcVars, updates, mishaps>>

(* The form is shown again. *)
CannotConnect(f) ==
    /\ flow[f] = "refused"
    /\ flow' = [flow EXCEPT ![f] = "idle"]
    /\ UNCHANGED <<probes, added, state, options, listeners, taskVars, jobVars, stored, open,
                   plcVars, updates, faults, mishaps>>

(* The entry is created and Home Assistant sets it up. *)
Create(config) ==
    /\ added' = added + 1
    /\ options' = config
    /\ StartSetup(0)

(* Mutant: the unique id is not checked when the probe is back. *)
FinishUserUnchecked(f) ==
    /\ flow[f] = "probed" /\ job = "free"
    /\ flow' = [flow EXCEPT ![f] = "ended"]
    /\ Create(NewConfig)
    /\ UNCHANGED <<probes, taskVars, stored, open, plcVars, updates, faults, mishaps>>

(* Back on the loop: unless the PLC has been added meanwhile, the entry is *)
(* created, without variables and profiles.                                *)
FinishUser(f) ==
    /\ flow[f] = "probed"
    /\ flow' = [flow EXCEPT ![f] = "ended"]
    /\ \/ /\ state # "absent"
          /\ UNCHANGED <<added, state, options, listeners, jobVars>>
       \/ state = "absent" /\ Create(NewConfig)
    /\ UNCHANGED <<probes, taskVars, stored, open, plcVars, updates, faults, mishaps>>

(* async_step_import of a PLC that is not configured. *)
ImportNew(config) ==
    /\ state = "absent"
    /\ Create(config)
    /\ UNCHANGED <<flow, probes, taskVars, stored, open, plcVars, updates, faults, mishaps>>

-----------------------------------------------------------------------------
(* A setup ends and leaves the lock.  After ConfigEntryNotReady the entry  *)
(* is retried and its listener removed; after any other exception Home     *)
(* Assistant may leave the listener in place.                              *)
Leave(outcome) == state' = outcome /\ job' = "free" /\ held' = None /\ UNCHANGED read
NotReady == Leave("setup_retry") /\ listeners' = 0
Failed == Leave("setup_error") /\ listeners' \in {0, listeners}

ConnectOk(plc) ==
    /\ job = "connecting" /\ up /\ plc \notin open
    /\ open' = open \union {plc}
    /\ held' = plc
    /\ job' = "starting"
    /\ UNCHANGED <<flowVars, state, options, listeners, taskVars, read, stored,
                   plcVars, updates, faults, mishaps>>

(* Mutant: the ADSError is not turned into ConfigEntryNotReady. *)
ConnectErrorRaised ==
    /\ job = "connecting"
    /\ AdsError
    /\ Failed
    /\ UNCHANGED <<flowVars, options, taskVars, stored, open, plcVars, updates, mishaps>>

ConnectAdsError ==
    /\ job = "connecting"
    /\ AdsError
    /\ NotReady
    /\ UNCHANGED <<flowVars, options, taskVars, stored, open, plcVars, updates, mishaps>>

ConnectOtherError ==
    /\ job = "connecting"
    /\ Mishap
    /\ Failed
    /\ UNCHANGED <<flowVars, options, taskVars, stored, open, plcVars, updates, faults>>

(* Mutant: the entry's data have the polled points only. *)
StartOkPolledOnly ==
    /\ job = "starting" /\ up
    /\ stored' = [plc |-> held, config |-> read, lists |-> ListsOf[read].poll]
    /\ held' = None
    /\ job' = "exporting"
    /\ UNCHANGED <<flowVars, state, options, listeners, taskVars, read, open,
                   plcVars, updates, faults, mishaps>>

(* Subscriptions and first refresh done: the entry's data are stored, over *)
(* those a failed setup may have left.                                     *)
StartOk ==
    /\ job = "starting" /\ up
    /\ stored' = [plc |-> held, config |-> read, lists |-> ListsOf[read]]
    /\ held' = None
    /\ job' = "exporting"
    /\ UNCHANGED <<flowVars, state, options, listeners, taskVars, read, open,
                   plcVars, updates, faults, mishaps>>

(* Mutant: the setup gives up without closing. *)
StartErrorUnclosed ==
    /\ job = "starting"
    /\ AdsError
    /\ NotReady
    /\ UNCHANGED <<flowVars, options, taskVars, stored, open, plcVars, updates, mishaps>>

(* The except clause: close_connection is queued. *)
StartError ==
    /\ job = "starting"
    /\ AdsError
    /\ job' = "closing"
    /\ UNCHANGED <<flowVars, state, options, listeners, taskVars, read, held, stored, open,
                   plcVars, updates, mishaps>>

(* Mutant: the exception ends in the except clause. *)
CloseAndGoOn ==
    /\ job = "closing"
    /\ open' = open \ {held}
    /\ job' = "exporting" /\ held' = None
    /\ UNCHANGED <<flowVars, state, options, listeners, taskVars, read, stored, plcVars,
                   updates, faults, mishaps>>

(* The exception goes on: first refreshes fail with ConfigEntryNotReady. *)
CloseAndRaise ==
    /\ job = "closing"
    /\ open' = open \ {held}
    /\ NotReady
    /\ UNCHANGED <<flowVars, options, taskVars, stored, plcVars, updates, faults, mishaps>>

(* close_connection raises in its place. *)
CloseError ==
    /\ job = "closing"
    /\ Mishap
    /\ Failed
    /\ UNCHANGED <<flowVars, options, taskVars, stored, open, plcVars, updates, faults>>

(* The export is over or has failed, the platforms are next. *)
ExportOver ==
    /\ job = "exporting"
    /\ job' = "forwarding"
    /\ UNCHANGED <<flowVars, state, options, listeners, taskVars, read, held, stored, open,
                   plcVars, updates, faults, mishaps>>

Forwarded ==
    /\ job = "forwarding"
    /\ Leave("loaded")
    /\ UNCHANGED <<flowVars, options, listeners, taskVars, stored, open,
                   plcVars, updates, faults, mishaps>>

(* What is in hass.data stays there. *)
ForwardError ==
    /\ job = "forwarding"
    /\ Mishap
    /\ Failed
    /\ UNCHANGED <<flowVars, options, taskVars, stored, open, plcVars, updates, faults>>

(* CancelledError is no Exception: the except clause does not run, and a   *)
(* connection that is being opened is opened all the same.                 *)
Cancel ==
    /\ job \in {"connecting", "starting", "exporting", "forwarding"}
    /\ Mishap
    /\ Failed
    /\ \/ UNCHANGED open
       \/ job = "connecting" /\ up /\ \E plc \in Connections \ open : open' = open \union {plc}
    /\ UNCHANGED <<flowVars, options, taskVars, stored, plcVars, updates, faults>>

(* Home Assistant's timer of a setup that was not ready. *)
Retry ==
    /\ job = "free" /\ state = "setup_retry"
    /\ UNCHANGED options
    /\ StartSetup(listeners)
    /\ UNCHANGED <<flowVars, taskVars, stored, open, plcVars, updates, faults, mishaps>>

-----------------------------------------------------------------------------
(* Mutant: the listener is registered when the setup is through. *)
CalledWhenLoaded == IF state = "loaded" THEN listeners ELSE 0

(* async_update_entry makes a task of every listener. *)
Called == listeners

(* A dialog of the entry is saved; an import reloads the entry itself.     *)
UpdateOptions(config) ==
    /\ state # "absent" /\ updates < MaxUpdates /\ config # options
    /\ updates' = updates + 1
    /\ options' = config
    /\ exporting' = exporting + Called
    /\ waiting' \in {waiting, waiting + 1}
    /\ UNCHANGED <<flowVars, state, listeners, jobVars, stored, open, plcVars, faults, mishaps>>

(* The user asks for a reload. *)
AskReload ==
    /\ state # "absent" /\ updates < MaxUpdates
    /\ updates' = updates + 1
    /\ waiting' = waiting + 1
    /\ UNCHANGED <<flowVars, state, options, listeners, exporting, jobVars, stored, open,
                   plcVars, faults, mishaps>>

(* async_reload_entry: the export, done, failed or skipped, then reload. *)
ListenerExported ==
    /\ exporting > 0
    /\ exporting' = exporting - 1
    /\ waiting' = waiting + 1
    /\ UNCHANGED <<flowVars, state, options, listeners, jobVars, stored, open, plcVars,
                   updates, faults, mishaps>>

(* async_reload has the lock.  An entry that is not loaded is just set up, *)
(* one that failed to unload cannot be reloaded.                           *)
Reload ==
    /\ job = "free" /\ waiting > 0
    /\ waiting' = waiting - 1
    /\ UNCHANGED options
    /\ \/ /\ state = "loaded"
          /\ state' = "unload_in_progress" /\ job' = "unloading"
          /\ UNCHANGED <<listeners, read, held>>
       \/ state \in {"setup_retry", "setup_error"} /\ StartSetup(listeners)
       \/ state = "failed_unload" /\ UNCHANGED <<state, listeners, jobVars>>
    /\ UNCHANGED <<flowVars, exporting, stored, open, plcVars, updates, faults, mishaps>>

UnloadPlatforms ==
    /\ job = "unloading"
    /\ held' = stored.plc
    /\ stored' = None
    /\ job' = "dropping"
    /\ UNCHANGED <<flowVars, state, options, listeners, taskVars, read, open,
                   plcVars, updates, faults, mishaps>>

(* unload_ok is False: nothing is popped and nothing closed. *)
UnloadRefused ==
    /\ job = "unloading"
    /\ Mishap
    /\ Leave("failed_unload")
    /\ UNCHANGED <<flowVars, options, listeners, taskVars, stored, open, plcVars, updates,
                   faults>>

(* Mutant: the entry is unloaded without closing its connection. *)
DropWithoutClose ==
    /\ job = "dropping"
    /\ UNCHANGED <<options, open>>
    /\ StartSetup(0)
    /\ UNCHANGED <<flowVars, taskVars, stored, plcVars, updates, faults, mishaps>>

(* close_connection is done, the listener removed; the reload goes on.     *)
DropConnection ==
    /\ job = "dropping"
    /\ open' = open \ {held}
    /\ UNCHANGED options
    /\ StartSetup(0)
    /\ UNCHANGED <<flowVars, taskVars, stored, plcVars, updates, faults, mishaps>>

DropError ==
    /\ job = "dropping"
    /\ Mishap
    /\ Leave("failed_unload")
    /\ UNCHANGED <<flowVars, options, listeners, taskVars, stored, open, plcVars, updates,
                   faults>>

PlcDown ==
    /\ up /\ outages < MaxOutages
    /\ up' = FALSE
    /\ outages' = outages + 1
    /\ UNCHANGED <<flowVars, state, options, listeners, taskVars, jobVars, stored, open,
                   updates, faults, mishaps>>

PlcUp ==
    /\ ~up
    /\ up' = TRUE
    /\ UNCHANGED <<flowVars, state, options, listeners, taskVars, jobVars, stored, open,
                   outages, updates, faults, mishaps>>

(* Nothing is under way: stuttering, no deadlock. *)
Settled ==
    /\ job = "free" /\ exporting = 0 /\ waiting = 0
    /\ UNCHANGED vars

-----------------------------------------------------------------------------
Setup == (\E plc \in Connections : ConnectOk(plc)) \/ ConnectAdsError \/ StartOk \/ StartError
         \/ CloseAndRaise \/ ExportOver \/ Forwarded
Unload == UnloadPlatforms \/ DropConnection
Trouble == ConnectOtherError \/ CloseError \/ ForwardError \/ Cancel \/ UnloadRefused
           \/ DropError
UserStep(f) == SubmitUser(f) \/ ProbeOpen(f) \/ ProbeRead(f) \/ CannotConnect(f)
               \/ FinishUser(f)

Next == \/ Setup \/ Retry \/ Reload \/ ListenerExported \/ Unload \/ Trouble
        \/ \E f \in Flows : UserStep(f)
        \/ \E c \in Configs : ImportNew(c) \/ UpdateOptions(c)
        \/ AskReload \/ PlcDown \/ PlcUp \/ Settled

Spec == Init /\ [][Next]_vars

(* Executor jobs end, tasks run, the retry timer fires; nobody has to add, *)
(* to edit or to reload anything, and an outage may last.                  *)
Fairness == WF_vars(Setup) /\ WF_vars(Retry \/ Reload) /\ WF_vars(ListenerExported)
            /\ WF_vars(Unload)
FairSpec == Spec /\ Fairness

-----------------------------------------------------------------------------
Owned == {held} \union (IF stored = None THEN {} ELSE {stored.plc})

(* Whatever setups, retries and reloads go through, an open connection is  *)
(* the one in hass.data or in the hands of the job under way; each mishap  *)
(* leaves at most one more behind.                                         *)
LeaksBounded == Cardinality(open \ Owned) <= mishaps

(* A loaded entry has a connection that is open, and nothing else uses it. *)
LoadedConnected == state = "loaded" => stored # None /\ stored.plc \in open /\ held = None

(* config_flow.py:155: the same PLC is not added twice, also when several  *)
(* dialogs and an import have it in hand at the same time.                 *)
AddedOnce == added <= 1

(* A dialog leaves no connection behind, whatever its probe runs into. *)
ProbesClosed == \A f \in probes : flow[f] = "probing"

(* What a configuration asks to be read, and what of it asynchronously. *)
Sections(config) == UNION {Range(p.sections) : p \in Range(config.device_profiles)}
LightSections(config) ==
    UNION {Range(p.sections) : p \in {q \in Range(config.device_profiles) : q.light}}
Keys(items) == {Key(i) : i \in {j \in items : Complete(j)}}
WantedPoints(config) == Keys(Range(config.variables) \union Sections(config))
WantedAsync(config) ==
    Keys({v \in Range(config.variables) : v.async_read} \union LightSections(config))

(* A loaded entry reads every point of its variables and profiles, each    *)
(* once, in the read mode README.md:292-306 gives it: asynchronously if a  *)
(* variable or a light asks for it, else by polling.                       *)
PointsServed ==
    stored # None =>
        LET poll == stored.lists.poll
            async == stored.lists.async
        IN  /\ IsInjective(poll \o async)
            /\ Range(async) = WantedAsync(stored.config)
            /\ Range(poll) = WantedPoints(stored.config) \ WantedAsync(stored.config)

(* Every entity of a loaded entry finds its point among those read, and    *)
(* every variable of a type the README names has an entity.                *)
EntitiesServed ==
    stored # None =>
        LET points == Range(stored.lists.poll \o stored.lists.async)
            entities == Entities(stored.config)
        IN  /\ \A e \in entities : Complete(e.point) => e.point \in points
            /\ \A v \in Range(stored.config.variables) :
                   Complete(v) /\ Upper[v.type] \in SENSOR_TYPES \union {"BOOL"}
                       => \E e \in entities : e.platform # "light" /\ e.point = Key(v)

(* A saved change is applied: an entry that stays loaded ends up running   *)
(* the options it has, also if they changed while it was being set up,     *)
(* retried or reloaded.                                                    *)
OptionsApplied ==
    <>[](state = "loaded") => <>[](stored # None /\ stored.config = options)

(* A PLC that is away only delays its entry: once it answers, and if there *)
(* was no mishap, the entry loads and stays loaded.                        *)
ComesUp ==
    <>[](up /\ mishaps = 0 /\ added > 0) => <>[](state = "loaded")

-----------------------------------------------------------------------------
(* README.md:310-317: each kind of variable has one Home Assistant entity, *)
(* a writable numeric one a number.                                        *)
OneEntityEach ==
    stored # None => \A v \in Range(stored.config.variables) : Cardinality(Platforms(v)) <= 1
=============================================================================
