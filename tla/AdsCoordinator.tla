--------------------------- MODULE AdsCoordinator ---------------------------
(***************************************************************************)
(* AdsPlcCoordinator: one PLC connection shared by the executor jobs of    *)
(* setup, polling, entity writes and shutdown, and by the notifications    *)
(* that the PLC pushes to the event loop.                                  *)
(*                                                                         *)
(* A step is either one callback of the event loop (a coroutine up to its  *)
(* next await, a scheduled notification), or a piece of an executor job    *)
(* between two points where another thread may run: taking the lock, the   *)
(* start and the end of a pyads call, storing its result.                  *)
(***************************************************************************)
EXTENDS Naturals, Sequences, FiniteSets, Functions

CONSTANTS
    Names, Types, Values,       \* PLC symbols, ADS types, what a symbol can hold
    PollPoints, AsyncPoints,    \* the two lists _split_read_points returns
    WritableNames,              \* symbols some switch, number or light writes
    Pollers, Writers,           \* refreshes and entity writes that may overlap
    Setup, Close,               \* the setup job and the shutdown job
    Nobody, NoHandle,           \* the owner of a free lock, an absent handle
    NoValue, NoRequest,         \* None or an absent key, no write under way
    MaxChanges, MaxFaults, MaxOutages, MaxWrites   \* bounds on the environment

Point == [name : Names, type : Types]
Request == [name : Names, value : Values]      \* a write, or a notification
Threads == Pollers \union Writers \union {Setup, Close}

ASSUME PointsAssumption ==
    /\ PollPoints \in Seq(Point)
    /\ AsyncPoints \in Seq(Point)
    /\ Range(PollPoints) \intersect Range(AsyncPoints) = {}
    /\ WritableNames \subseteq Names

ASSUME ThreadsAssumption ==
    /\ Pollers \intersect Writers = {}
    /\ Setup # Close
    /\ {Setup, Close} \intersect (Pollers \union Writers) = {}
    /\ Nobody \notin Threads

ASSUME MarkersAssumption == NoValue \notin Values /\ NoHandle \notin Point
                            /\ NoRequest \notin Request

ASSUME BoundsAssumption ==
    /\ MaxChanges \in Nat
    /\ MaxFaults \in Nat
    /\ MaxOutages \in Nat
    /\ MaxWrites \in Nat

VARIABLES
    phase,                          \* where the config entry is in its life
    pc, todo,                       \* each job: where it is, the points it has left
    plc_lock,                       \* the RLock: owner and depth
    got, result, request,           \* initial value read; dict being polled; value written
    poll_read_points, failed_async_subscriptions,
    notification_handles, async_values, data, last_update_success,
    loop_queue,                     \* notifications passed to call_soon_threadsafe
    open, up,                       \* the pyads port; the PLC answers
    plc, subs, sent,                \* PLC memory; its subscriptions; last value pushed
    changes, faults, outages, writes

coordinatorVars == <<poll_read_points, failed_async_subscriptions,
                     notification_handles, async_values, data, last_update_success>>
jobVars == <<todo, got, result, request>>
plcVars == <<open, up, plc, subs, sent>>
budgets == <<changes, faults, outages, writes>>
vars == <<phase, pc, plc_lock, jobVars, coordinatorVars, loop_queue, plcVars, budgets>>

InCall == {"subscribing", "reading", "writing", "unsubscribing", "closing"}
Holding == InCall \union {"held", "fallback", "subscribed", "sampled", "releasing"}
Labels == Holding \union {"idle", "queued", "done", "failed", "ended"}
Phases == {"new", "subscribing", "refresh", "running", "closing", "closed"}
MaybeValue == Values \union {NoValue}
Nothing == [n \in Names |-> NoValue]           \* an empty dictionary

JobTypes ==
    /\ phase \in Phases
    /\ pc \in [Threads -> Labels]
    /\ todo \in [Pollers \union {Setup} -> Seq(Point)]
    /\ plc_lock \in [owner : Threads \union {Nobody}, depth : 0 .. 2]
    /\ got \in MaybeValue
    /\ result \in [Pollers -> [Names -> MaybeValue]]
    /\ request \in [Writers -> Request \union {NoRequest}]

CoordinatorTypes ==
    /\ poll_read_points \in Seq(Point)
    /\ failed_async_subscriptions \subseteq Names
    /\ notification_handles \in [Names -> Point \union {NoHandle}]
    /\ async_values \in [Names -> MaybeValue]
    /\ data \in [Names -> MaybeValue]
    /\ last_update_success \in BOOLEAN

PlcTypes ==
    /\ loop_queue \in Seq(Request)
    /\ open \in BOOLEAN /\ up \in BOOLEAN
    /\ plc \in [Names -> Values]
    /\ subs \subseteq Point
    /\ sent \in [Point -> MaybeValue]

BudgetTypes ==
    /\ changes \in 0 .. MaxChanges
    /\ faults \in 0 .. MaxFaults
    /\ outages \in 0 .. MaxOutages
    /\ writes \in 0 .. MaxWrites

(* Every variable has its type. *)
TypeOK == JobTypes /\ CoordinatorTypes /\ PlcTypes /\ BudgetTypes

Init ==
    /\ phase = "new"
    /\ pc = [t \in Threads |-> "idle"]
    /\ todo = [t \in Pollers \union {Setup} |-> <<>>]
    /\ plc_lock = [owner |-> Nobody, depth |-> 0]
    /\ got = NoValue
    /\ result = [p \in Pollers |-> Nothing]
    /\ request = [w \in Writers |-> NoRequest]
    /\ poll_read_points = PollPoints
    /\ failed_async_subscriptions = {}
    /\ notification_handles = [n \in Names |-> NoHandle]
    /\ async_values = Nothing
    /\ data = Nothing
    /\ last_update_success = TRUE
    /\ loop_queue = <<>>
    /\ open = TRUE /\ up = TRUE
    /\ plc \in [Names -> Values]
    /\ subs = {}
    /\ sent = [p \in Point |-> NoValue]
    /\ changes = 0 /\ faults = 0 /\ outages = 0 /\ writes = 0

-----------------------------------------------------------------------------
Goto(t, label) == pc' = [pc EXCEPT ![t] = label]

(* Mutant: the job does not wait for the lock. *)
AcquireUnchecked(t) == plc_lock' = [owner |-> t, depth |-> 1]

(* threading.RLock: its owner may take it again. *)
Acquire(t) ==
    /\ plc_lock.owner \in {Nobody, t}
    /\ plc_lock' = [owner |-> t, depth |-> plc_lock.depth + 1]

Release(t) ==
    plc_lock' = [owner |-> IF plc_lock.depth = 1 THEN Nobody ELSE t,
                 depth |-> plc_lock.depth - 1]

(* A pyads call raises while the PLC is away, and now and then although it *)
(* is there: a bounded number of such faults.                              *)
AdsError ==
    /\ ~up \/ faults < MaxFaults
    /\ faults' = IF up THEN faults + 1 ELSE faults
    /\ UNCHANGED <<changes, outages, writes>>

-----------------------------------------------------------------------------
(* async_setup_entry awaits async_setup_notifications, which runs no job   *)
(* when no point is configured for async reading.                          *)
AsyncSetupNotifications ==
    /\ phase = "new"
    /\ \/ AsyncPoints = <<>> /\ phase' = "refresh" /\ UNCHANGED pc
       \/ AsyncPoints # <<>> /\ phase' = "subscribing" /\ Goto(Setup, "queued")
    /\ UNCHANGED <<plc_lock, jobVars, coordinatorVars, loop_queue, plcVars, budgets>>

(* _setup_notifications takes the lock and looks whether pyads offers the  *)
(* notification API: without it every async point falls back to polling.   *)
SetupAcquire ==
    /\ pc[Setup] = "queued"
    /\ Acquire(Setup)
    /\ todo' = [todo EXCEPT ![Setup] = AsyncPoints]
    /\ \E label \in {"held", "fallback"} : Goto(Setup, label)
    /\ UNCHANGED <<phase, got, result, request, coordinatorVars, loop_queue,
                   plcVars, budgets>>

(* Mutant: the failure is counted but the point is not polled. *)
CountFailureOnly(point) ==
    /\ failed_async_subscriptions' = failed_async_subscriptions \union {point.name}
    /\ UNCHANGED poll_read_points

(* _register_poll_fallback and the entry in the failed set. *)
FallBackToPolling(point) ==
    /\ poll_read_points' = IF point \in Range(poll_read_points)
                           THEN poll_read_points
                           ELSE Append(poll_read_points, point)
    /\ failed_async_subscriptions' = failed_async_subscriptions \union {point.name}

(* Setup is through with the point at the head of its list. *)
NextPoint(t) == todo' = [todo EXCEPT ![t] = Tail(@)]

SetupFallback ==
    /\ pc[Setup] = "fallback" /\ todo[Setup] # <<>>
    /\ FallBackToPolling(Head(todo[Setup]))
    /\ NextPoint(Setup)
    /\ UNCHANGED <<phase, pc, plc_lock, got, result, request, notification_handles,
                   async_values, data, last_update_success, loop_queue, plcVars, budgets>>

(* add_device_notification is called. *)
Subscribe ==
    /\ pc[Setup] = "held" /\ todo[Setup] # <<>>
    /\ Goto(Setup, "subscribing")
    /\ UNCHANGED <<phase, plc_lock, jobVars, coordinatorVars, loop_queue, plcVars, budgets>>

(* The PLC accepts it: from now on it pushes, starting with the current    *)
(* value, while the handle is not yet in notification_handles.             *)
SubscribeOk ==
    /\ pc[Setup] = "subscribing" /\ up
    /\ LET point == Head(todo[Setup])
       IN  /\ subs' = subs \union {point}
           /\ sent' = [sent EXCEPT ![point] = NoValue]
    /\ Goto(Setup, "subscribed")
    /\ UNCHANGED <<phase, plc_lock, jobVars, coordinatorVars, loop_queue, open, up, plc,
                   budgets>>

SubscribeError ==
    /\ pc[Setup] = "subscribing"
    /\ AdsError
    /\ FallBackToPolling(Head(todo[Setup]))
    /\ NextPoint(Setup)
    /\ Goto(Setup, "held")
    /\ UNCHANGED <<phase, plc_lock, got, result, request, notification_handles,
                   async_values, data, last_update_success, loop_queue, plcVars>>

(* The handle is stored and the initial read_by_name starts. *)
RegisterHandle ==
    /\ pc[Setup] = "subscribed"
    /\ LET point == Head(todo[Setup])
       IN  notification_handles' = [notification_handles EXCEPT ![point.name] = point]
    /\ Goto(Setup, "reading")
    /\ UNCHANGED <<phase, plc_lock, jobVars, poll_read_points, failed_async_subscriptions,
                   async_values, data, last_update_success, loop_queue, plcVars, budgets>>

InitialRead ==
    /\ pc[Setup] = "reading" /\ up
    /\ got' = plc[Head(todo[Setup]).name]
    /\ Goto(Setup, "sampled")
    /\ UNCHANGED <<phase, plc_lock, todo, result, request, coordinatorVars, loop_queue,
                   plcVars, budgets>>

(* Mutant: it counts as a failed subscription, which is not taken back. *)
InitialReadGivesUp ==
    /\ pc[Setup] = "reading"
    /\ AdsError
    /\ FallBackToPolling(Head(todo[Setup]))
    /\ notification_handles' = [notification_handles EXCEPT ![Head(todo[Setup]).name] = NoHandle]
    /\ NextPoint(Setup)
    /\ Goto(Setup, "held")
    /\ UNCHANGED <<phase, plc_lock, got, result, request, async_values, data,
                   last_update_success, loop_queue, plcVars>>

(* A failing initial read is only logged. *)
InitialReadError ==
    /\ pc[Setup] = "reading"
    /\ AdsError
    /\ NextPoint(Setup)
    /\ Goto(Setup, "held")
    /\ UNCHANGED <<phase, plc_lock, got, result, request, coordinatorVars, loop_queue,
                   plcVars>>

StoreInitialValue ==
    /\ pc[Setup] = "sampled"
    /\ async_values' = [async_values EXCEPT ![Head(todo[Setup]).name] = got]
    /\ got' = NoValue
    /\ NextPoint(Setup)
    /\ Goto(Setup, "held")
    /\ UNCHANGED <<phase, plc_lock, result, request, poll_read_points,
                   failed_async_subscriptions, notification_handles, data,
                   last_update_success, loop_queue, plcVars, budgets>>

(* Mutant: the lock is not left. *)
SetupKeepsLock ==
    /\ pc[Setup] \in {"held", "fallback"} /\ todo[Setup] = <<>>
    /\ Goto(Setup, "done")
    /\ UNCHANGED <<phase, plc_lock, jobVars, coordinatorVars, loop_queue, plcVars, budgets>>

SetupRelease ==
    /\ pc[Setup] \in {"held", "fallback"} /\ todo[Setup] = <<>>
    /\ Release(Setup)
    /\ Goto(Setup, "done")
    /\ UNCHANGED <<phase, jobVars, coordinatorVars, loop_queue, plcVars, budgets>>

(* Back on the loop: async_config_entry_first_refresh is next. *)
SetupResume ==
    /\ pc[Setup] = "done"
    /\ Goto(Setup, "ended")
    /\ phase' = "refresh"
    /\ UNCHANGED <<plc_lock, jobVars, coordinatorVars, loop_queue, plcVars, budgets>>

-----------------------------------------------------------------------------
(* A refresh: the first one of setup is alone, later ones are timed and    *)
(* may overlap when a poll outlasts the interval (a notification re-arms   *)
(* the timer while a poll is under way).                                   *)
StartPoll(p) ==
    /\ pc[p] = "idle"
    /\ \/ phase = "refresh" /\ \A q \in Pollers : pc[q] = "idle"
       \/ phase = "running"
    /\ Goto(p, "queued")
    /\ UNCHANGED <<phase, plc_lock, jobVars, coordinatorVars, loop_queue, plcVars, budgets>>

(* _read_polled_variables takes the lock and copies self.data. *)
PollAcquire(p) ==
    /\ pc[p] = "queued"
    /\ Acquire(p)
    /\ result' = [result EXCEPT ![p] = data]
    /\ todo' = [todo EXCEPT ![p] = poll_read_points]
    /\ Goto(p, "held")
    /\ UNCHANGED <<phase, got, request, coordinatorVars, loop_queue, plcVars, budgets>>

PollRead(p) ==
    /\ pc[p] = "held" /\ todo[p] # <<>>
    /\ Goto(p, "reading")
    /\ UNCHANGED <<phase, plc_lock, jobVars, coordinatorVars, loop_queue, plcVars, budgets>>

(* Mutant: a variable that has a value is not read again. *)
PollReadOnce(p) ==
    /\ pc[p] = "reading"
    /\ LET name == Head(todo[p]).name
       IN  result' = [result EXCEPT ![p][name] = IF @ = NoValue THEN plc[name] ELSE @]
    /\ NextPoint(p)
    /\ Goto(p, "held")
    /\ UNCHANGED <<phase, plc_lock, got, request, coordinatorVars, loop_queue, plcVars,
                   budgets>>

(* pyads returns None, without an error, once the port is closed. *)
PollReadOk(p) ==
    /\ pc[p] = "reading"
    /\ LET name == Head(todo[p]).name
       IN  \/ open /\ up /\ result' = [result EXCEPT ![p][name] = plc[name]]
           \/ ~open /\ result' = [result EXCEPT ![p][name] = NoValue]
    /\ NextPoint(p)
    /\ Goto(p, "held")
    /\ UNCHANGED <<phase, plc_lock, got, request, coordinatorVars, loop_queue, plcVars,
                   budgets>>

(* ADSError: this variable keeps the value self.data holds now, None       *)
(* included, and the poll goes on.                                         *)
PollReadAdsError(p) ==
    /\ pc[p] = "reading" /\ open
    /\ AdsError
    /\ LET name == Head(todo[p]).name
       IN  result' = [result EXCEPT ![p][name] = data[name]]
    /\ NextPoint(p)
    /\ Goto(p, "held")
    /\ UNCHANGED <<phase, plc_lock, got, request, coordinatorVars, loop_queue, plcVars>>

(* Any other exception leaves the with block and fails the job. *)
PollReadOtherError(p) ==
    /\ pc[p] = "reading" /\ open /\ faults < MaxFaults
    /\ faults' = faults + 1
    /\ result' = [result EXCEPT ![p] = Nothing]
    /\ todo' = [todo EXCEPT ![p] = <<>>]
    /\ Release(p)
    /\ Goto(p, "failed")
    /\ UNCHANGED <<phase, got, request, coordinatorVars, loop_queue, plcVars, changes, outages,
                   writes>>

(* Mutant: without data.update(self._async_values). *)
PollWithoutMerge(p) ==
    /\ pc[p] = "held" /\ todo[p] = <<>>
    /\ Release(p)
    /\ Goto(p, "done")
    /\ UNCHANGED <<phase, jobVars, coordinatorVars, loop_queue, plcVars, budgets>>

(* data.update(self._async_values), then the lock is left. *)
PollMerge(p) ==
    /\ pc[p] = "held" /\ todo[p] = <<>>
    /\ result' = [result EXCEPT ![p] = [n \in Names |->
                     IF async_values[n] # NoValue THEN async_values[n] ELSE @[n]]]
    /\ Release(p)
    /\ Goto(p, "done")
    /\ UNCHANGED <<phase, todo, got, request, coordinatorVars, loop_queue, plcVars, budgets>>

(* The refresh resumes on the loop and publishes the result; the first     *)
(* success completes the setup of the entry.                               *)
PublishPoll(p) ==
    /\ pc[p] = "done"
    /\ data' = result[p]
    /\ result' = [result EXCEPT ![p] = Nothing]
    /\ last_update_success' = TRUE
    /\ phase' = IF phase = "refresh" THEN "running" ELSE phase
    /\ Goto(p, "idle")
    /\ UNCHANGED <<plc_lock, todo, got, request, poll_read_points, failed_async_subscriptions,
                   notification_handles, async_values, loop_queue, plcVars, budgets>>

(* A failed refresh is recorded; the first one makes async_setup_entry     *)
(* close the connection and give up.                                       *)
PollFailed(p) ==
    /\ pc[p] = "failed"
    /\ last_update_success' = FALSE
    /\ \/ /\ phase = "refresh"
          /\ phase' = "closing"
          /\ pc' = [pc EXCEPT ![p] = "idle", ![Close] = "queued"]
       \/ phase # "refresh" /\ Goto(p, "idle") /\ UNCHANGED phase
    /\ UNCHANGED <<plc_lock, jobVars, poll_read_points, failed_async_subscriptions,
                   notification_handles, async_values, data, loop_queue, plcVars, budgets>>

-----------------------------------------------------------------------------
(* An entity of the running entry awaits write_variable in the executor. *)
CallWrite(w) ==
    /\ phase = "running" /\ pc[w] = "idle" /\ writes < MaxWrites
    /\ \E n \in WritableNames, v \in Values :
          request' = [request EXCEPT ![w] = [name |-> n, value |-> v]]
    /\ writes' = writes + 1
    /\ Goto(w, "queued")
    /\ UNCHANGED <<phase, plc_lock, todo, got, result, coordinatorVars, loop_queue, plcVars,
                   changes, faults, outages>>

WriteAcquire(w) ==
    /\ pc[w] = "queued"
    /\ Acquire(w)
    /\ Goto(w, "writing")
    /\ UNCHANGED <<phase, jobVars, coordinatorVars, loop_queue, plcVars, budgets>>

Written(w) == [plc EXCEPT ![request[w].name] = request[w].value]

(* Mutants: a closed port makes the job write again, or is opened again. *)
WriteInsists(w) ==
    /\ pc[w] = "writing"
    /\ \/ open /\ up /\ plc' = Written(w) /\ Goto(w, "done")
       \/ ~open /\ UNCHANGED plc /\ Goto(w, "queued")
    /\ Release(w)
    /\ UNCHANGED <<phase, jobVars, coordinatorVars, loop_queue, open, up, subs, sent, budgets>>
WriteReopens(w) ==
    /\ pc[w] = "writing" /\ up
    /\ open' = TRUE
    /\ plc' = Written(w)
    /\ Release(w)
    /\ Goto(w, "done")
    /\ UNCHANGED <<phase, jobVars, coordinatorVars, loop_queue, up, subs, sent, budgets>>

(* write_by_name returns: silently and without effect on a closed port. *)
WriteOk(w) ==
    /\ pc[w] = "writing"
    /\ \/ open /\ up /\ plc' = Written(w)
       \/ ~open /\ UNCHANGED plc
    /\ Release(w)
    /\ Goto(w, "done")
    /\ UNCHANGED <<phase, jobVars, coordinatorVars, loop_queue, open, up, subs, sent, budgets>>

(* It raises; the PLC may have executed a request whose answer was lost. *)
WriteError(w) ==
    /\ pc[w] = "writing" /\ open
    /\ AdsError
    /\ plc' \in {plc, Written(w)}
    /\ Release(w)
    /\ Goto(w, "failed")
    /\ UNCHANGED <<phase, jobVars, coordinatorVars, loop_queue, open, up, subs, sent>>

(* The entity puts the written value into coordinator.data at once. *)
WriteReturns(w) ==
    /\ pc[w] = "done"
    /\ data' = [data EXCEPT ![request[w].name] = request[w].value]
    /\ request' = [request EXCEPT ![w] = NoRequest]
    /\ Goto(w, "idle")
    /\ UNCHANGED <<phase, plc_lock, todo, got, result, poll_read_points, failed_async_subscriptions,
                   notification_handles, async_values, last_update_success, loop_queue,
                   plcVars, budgets>>

(* The exception reaches the service call; data stays as it is. *)
WriteFailed(w) ==
    /\ pc[w] = "failed"
    /\ request' = [request EXCEPT ![w] = NoRequest]
    /\ Goto(w, "idle")
    /\ UNCHANGED <<phase, plc_lock, todo, got, result, coordinatorVars, loop_queue, plcVars, budgets>>

-----------------------------------------------------------------------------
(* async_unload_entry: the platforms are gone, close_connection is queued. *)
UnloadEntry ==
    /\ phase = "running"
    /\ phase' = "closing"
    /\ Goto(Close, "queued")
    /\ UNCHANGED <<plc_lock, jobVars, coordinatorVars, loop_queue, plcVars, budgets>>

CloseAcquire ==
    /\ pc[Close] = "queued"
    /\ Acquire(Close)
    /\ Goto(Close, "held")
    /\ UNCHANGED <<phase, jobVars, coordinatorVars, loop_queue, plcVars, budgets>>

(* _release_notifications takes the lock again. *)
ReleaseAcquire ==
    /\ pc[Close] = "held"
    /\ Acquire(Close)
    /\ Goto(Close, "releasing")
    /\ UNCHANGED <<phase, jobVars, coordinatorVars, loop_queue, plcVars, budgets>>

Subscribed == {n \in Names : notification_handles[n] # NoHandle}

Unsubscribe ==
    /\ pc[Close] = "releasing" /\ Subscribed # {}
    /\ Goto(Close, "unsubscribing")
    /\ UNCHANGED <<phase, plc_lock, jobVars, coordinatorVars, loop_queue, plcVars, budgets>>

(* Mutant: without the finally clause that drops the handle. *)
UnsubscribeKeepsHandle(n) ==
    /\ pc[Close] = "unsubscribing" /\ n \in Subscribed
    /\ subs' = subs \ {notification_handles[n]}
    /\ Goto(Close, "releasing")
    /\ UNCHANGED <<phase, plc_lock, jobVars, coordinatorVars, loop_queue, open, up, plc, sent,
                   budgets>>

(* The handle is dropped whether del_device_notification succeeds or not. *)
UnsubscribeEnd(n) ==
    /\ pc[Close] = "unsubscribing" /\ n \in Subscribed
    /\ \/ up /\ subs' = subs \ {notification_handles[n]} /\ UNCHANGED budgets
       \/ AdsError /\ UNCHANGED subs
    /\ notification_handles' = [notification_handles EXCEPT ![n] = NoHandle]
    /\ Goto(Close, "releasing")
    /\ UNCHANGED <<phase, plc_lock, jobVars, poll_read_points, failed_async_subscriptions,
                   async_values, data, last_update_success, loop_queue, open, up, plc, sent>>

(* Mutant: close() is called while subscriptions are left. *)
CloseEarly ==
    /\ pc[Close] = "releasing"
    /\ Release(Close)
    /\ Goto(Close, "closing")
    /\ UNCHANGED <<phase, jobVars, coordinatorVars, loop_queue, plcVars, budgets>>

(* The inner with block is left and plc.close() called. *)
CloseConnection ==
    /\ pc[Close] = "releasing" /\ Subscribed = {}
    /\ Release(Close)
    /\ Goto(Close, "closing")
    /\ UNCHANGED <<phase, jobVars, coordinatorVars, loop_queue, plcVars, budgets>>

(* Closing the port ends what subscriptions it still has. *)
CloseOk ==
    /\ pc[Close] = "closing"
    /\ open' = FALSE
    /\ subs' = {}
    /\ Release(Close)
    /\ Goto(Close, "done")
    /\ UNCHANGED <<phase, jobVars, coordinatorVars, loop_queue, up, plc, sent, budgets>>

CloseError ==
    /\ pc[Close] = "closing" /\ faults < MaxFaults
    /\ faults' = faults + 1
    /\ Release(Close)
    /\ Goto(Close, "failed")
    /\ UNCHANGED <<phase, jobVars, coordinatorVars, loop_queue, plcVars, changes, outages,
                   writes>>

CloseReturns ==
    /\ pc[Close] \in {"done", "failed"}
    /\ Goto(Close, "ended")
    /\ phase' = "closed"
    /\ UNCHANGED <<plc_lock, jobVars, coordinatorVars, loop_queue, plcVars, budgets>>

-----------------------------------------------------------------------------
(* The PLC pushes a subscribed symbol that differs from what it pushed     *)
(* last; the callback thread only schedules the update on the loop.        *)
Notify(point) ==
    /\ up /\ point \in subs /\ sent[point] # plc[point.name]
    /\ sent' = [sent EXCEPT ![point] = plc[point.name]]
    /\ loop_queue' = Append(loop_queue, [name |-> point.name, value |-> plc[point.name]])
    /\ UNCHANGED <<phase, pc, plc_lock, jobVars, coordinatorVars, open, up, plc, subs, budgets>>

(* Mutant: the notification itself is stored, not its value. *)
StoreNotification ==
    /\ loop_queue # <<>>
    /\ loop_queue' = Tail(loop_queue)
    /\ async_values' = [async_values EXCEPT ![Head(loop_queue).name] = Head(loop_queue)]
    /\ UNCHANGED <<phase, pc, plc_lock, jobVars, poll_read_points,
                   failed_async_subscriptions, notification_handles, data,
                   last_update_success, plcVars, budgets>>

(* _handle_notification_update: no lock, dropped without a handle, else    *)
(* the value is cached and published by async_set_updated_data.            *)
HandleNotificationUpdate ==
    /\ loop_queue # <<>>
    /\ loop_queue' = Tail(loop_queue)
    /\ LET note == Head(loop_queue)
       IN  \/ /\ notification_handles[note.name] = NoHandle
              /\ UNCHANGED <<async_values, data, last_update_success>>
           \/ /\ notification_handles[note.name] # NoHandle
              /\ async_values' = [async_values EXCEPT ![note.name] = note.value]
              /\ data' = [data EXCEPT ![note.name] = note.value]
              /\ last_update_success' = TRUE
    /\ UNCHANGED <<phase, pc, plc_lock, jobVars, poll_read_points,
                   failed_async_subscriptions, notification_handles, plcVars, budgets>>

(* The PLC program or another client changes a symbol. *)
PlcChange(n) ==
    /\ changes < MaxChanges
    /\ changes' = changes + 1
    /\ \E v \in Values \ {plc[n]} : plc' = [plc EXCEPT ![n] = v]
    /\ UNCHANGED <<phase, pc, plc_lock, jobVars, coordinatorVars, loop_queue, open, up, subs,
                   sent, faults, outages, writes>>

(* A broken link, or a restart of the PLC that forgets its subscriptions. *)
PlcDown ==
    /\ up /\ outages < MaxOutages
    /\ up' = FALSE
    /\ outages' = outages + 1
    /\ subs' \in {subs, {}}
    /\ UNCHANGED <<phase, pc, plc_lock, jobVars, coordinatorVars, loop_queue, open, plc, sent,
                   changes, faults, writes>>

PlcUp ==
    /\ ~up
    /\ up' = TRUE
    /\ UNCHANGED <<phase, pc, plc_lock, jobVars, coordinatorVars, loop_queue, open, plc, subs,
                   sent, budgets>>

(* The entry is unloaded and nothing is under way: stuttering, no deadlock. *)
Unloaded ==
    /\ phase = "closed"
    /\ \A t \in Threads : pc[t] \in {"idle", "ended"}
    /\ UNCHANGED vars

-----------------------------------------------------------------------------
SetupJob == AsyncSetupNotifications \/ SetupAcquire \/ SetupFallback \/ Subscribe
            \/ SubscribeOk \/ SubscribeError \/ RegisterHandle \/ InitialRead
            \/ InitialReadError \/ StoreInitialValue \/ SetupRelease \/ SetupResume

PollJob(p) == PollRead(p) \/ PollReadOk(p) \/ PollReadAdsError(p) \/ PollReadOtherError(p)
              \/ PollMerge(p) \/ PublishPoll(p) \/ PollFailed(p)

WriteJob(w) == WriteOk(w) \/ WriteError(w) \/ WriteReturns(w) \/ WriteFailed(w)

CloseJob == ReleaseAcquire \/ Unsubscribe \/ (\E n \in Names : UnsubscribeEnd(n))
            \/ CloseConnection \/ CloseOk \/ CloseError \/ CloseReturns

Environment == \/ \E point \in Point : Notify(point)
               \/ \E n \in Names : PlcChange(n)
               \/ PlcDown \/ PlcUp

Next == \/ SetupJob
        \/ \E p \in Pollers : StartPoll(p) \/ PollAcquire(p) \/ PollJob(p)
        \/ \E w \in Writers : CallWrite(w) \/ WriteAcquire(w) \/ WriteJob(w)
        \/ UnloadEntry \/ CloseAcquire \/ CloseJob
        \/ HandleNotificationUpdate \/ Environment \/ Unloaded

Spec == Init /\ [][Next]_vars

(* Executor jobs and loop callbacks run, the refresh timer fires and the   *)
(* PLC pushes what it was asked to push.  A waiter gets the lock when it   *)
(* is free again and again: polls are 30 seconds apart.  Nobody has to     *)
(* write, to unload, to change the PLC or to break it.                     *)
Fairness ==
    /\ WF_vars(SetupJob)
    /\ \A p \in Pollers : WF_vars(StartPoll(p)) /\ SF_vars(PollAcquire(p)) /\ WF_vars(PollJob(p))
    /\ \A w \in Writers : SF_vars(WriteAcquire(w)) /\ WF_vars(WriteJob(w))
    /\ SF_vars(CloseAcquire) /\ WF_vars(CloseJob)
    /\ WF_vars(HandleNotificationUpdate)
    /\ \A point \in Point : WF_vars(Notify(point))

(* An outage may last, or it ends. *)
LastingOutageSpec == Spec /\ Fairness
FairSpec == LastingOutageSpec /\ WF_vars(PlcUp)

-----------------------------------------------------------------------------
(* README.md:9: the calls on the connection are serialized.  The lock of   *)
(* the coordinator keeps every executor job out while one is in a call.    *)
CallsSerialized ==
    \A t, u \in Threads : pc[t] \in InCall /\ pc[u] \in InCall => t = u

(* The connection as its callers may see it. *)
InsideCall == {t \in Threads : pc[t] \in InCall}
Connection == INSTANCE SerializedConnection WITH active <- InsideCall

(* Reads, writes, subscriptions and the shutdown of this coordinator, in   *)
(* any interleaving, are serialized calls on a connection closed once.     *)
ImplementsConnection == Connection!Spec

(* After _setup_notifications no configured async point is forgotten: it   *)
(* has a handle, or it is polled and counted as failed, and never both,    *)
(* whichever of the calls for it and for the others went wrong.            *)
AsyncPointsServed ==
    phase \in {"refresh", "running"} =>
        \A point \in Range(AsyncPoints) :
            /\ (notification_handles[point.name] = NoHandle)
                   <=> (point.name \in failed_async_subscriptions)
            /\ (point.name \in failed_async_subscriptions)
                   <=> (point \in Range(poll_read_points))

(* As long as the PLC has not been away, the handles the coordinator keeps *)
(* are exactly the subscriptions the PLC serves: none leaks, none is dead. *)
HandlesMatchPlc ==
    phase \in {"refresh", "running"} /\ outages = 0 =>
        subs = {notification_handles[n] : n \in Subscribed}

(* close_connection: plc.close() is called when every handle is gone, and, *)
(* if no call failed, when the PLC has dropped every subscription.         *)
ReleasedBeforeClose ==
    pc[Close] = "closing" => /\ Subscribed = {}
                             /\ outages = 0 /\ faults = 0 => subs = {}

(* A symbol that is only polled, or whose subscription failed, is shown as *)
(* the PLC has it once the entry keeps running and the PLC keeps answering:*)
(* stale polls, optimistic writes and failed reads heal.                   *)
PolledNames == {point.name : point \in Range(poll_read_points)} \ Subscribed
PolledConverges ==
    \A n \in Names :
        <>[](phase = "running" /\ up /\ n \in PolledNames) => <>[](data[n] = plc[n])

(* From the first notification that reaches the loop while the entry runs, *)
(* data ends up following the PLC for as long as the entry runs and the    *)
(* PLC keeps the subscription: no stale poll result, no optimistic write   *)
(* and no failed call hides a pushed symbol for good.                      *)
Served(n) == \E point \in subs : point.name = n
Pushed(n) == phase = "running" /\ n \in Subscribed
             /\ \E i \in DOMAIN loop_queue : loop_queue[i].name = n
PushedShown ==
    \A n \in Names :
        [](Pushed(n) => <>[](phase # "running" \/ ~Served(n) \/ data[n] = plc[n]))

(* Unloading and a failed setup end with the connection's close job done,  *)
(* whatever else holds or wants the lock: the RLock is re-entered by       *)
(* _release_notifications without waiting for itself.                      *)
CloseCompletes == phase = "closing" ~> phase = "closed"

(* Every awaited write_variable comes back, also across an unload. *)
WritesReturn == \A w \in Writers : pc[w] = "queued" ~> pc[w] = "idle"

(* Setting up an entry comes to an end: it runs, or its connection closes. *)
SetupCompletes == phase = "new" ~> phase \in {"running", "closed"}

-----------------------------------------------------------------------------
(* What the repository says and the code does not keep. *)

(* README.md:295: changes of async-read points "are pushed to Home         *)
(* Assistant immediately (when notifications are available)".              *)
AsyncConverges ==
    \A n \in Names :
        <>[](phase = "running" /\ up /\ n \in Subscribed /\ Served(n))
            => <>[](data[n] = plc[n])

(* The same line: once the pushed value is shown, a poll does not take it  *)
(* back.                                                                   *)
PushNotUndone ==
    [][\A p \in Pollers, n \in Subscribed :
           PublishPoll(p) /\ data[n] = async_values[n] => data'[n] = data[n]]_vars

(* coordinator.py:76: active_async_subscription_count counts the "active"  *)
(* ADS notification subscriptions.                                         *)
ActiveCountIsReal ==
    phase = "running" /\ up => Cardinality(Subscribed) = Cardinality(subs)

(* sensor.py:168-170: connection_status is "disconnected" when the last    *)
(* update failed, "also during a connection outage" (sensor.py:150).       *)
OutageReported == (phase = "running" /\ ~up) 
                      ~> (up \/ phase # "running" \/ ~last_update_success)

(* coordinator.py:381: "close after pending ADS work finishes". *)
CloseWaitsForPendingWork ==
    ~open => \A t \in Pollers \union Writers : pc[t] # "queued"
=============================================================================
