------------------------ MODULE AdsCoordinatorProofs ------------------------
(***************************************************************************)
(* Proofs about AdsCoordinator, for every choice of symbols, points,       *)
(* pollers, writers and bounds: its types, that the calls on the           *)
(* connection never overlap, and that it implements SerializedConnection.  *)
(***************************************************************************)
EXTENDS AdsCoordinator, TLAPS

(* An argument a job relies on is there: the point it works on, the write  *)
(* it carries out.                                                         *)
ArgumentsInv ==
    /\ \A t \in Pollers \union {Setup} :
          pc[t] \in {"subscribing", "subscribed", "reading", "sampled"} => todo[t] # <<>>
    /\ \A w \in Writers :
          pc[w] \in {"queued", "writing", "done", "failed"} => request[w] \in Request

(* The owner of the lock is the one job that is past taking it, and the    *)
(* depth says how often it has: twice while subscriptions are released.    *)
LockInv ==
    /\ \A t \in Threads : plc_lock.owner = t <=> pc[t] \in Holding
    /\ plc_lock.depth = IF plc_lock.owner = Nobody THEN 0
                        ELSE IF pc[Close] \in {"releasing", "unsubscribing"} THEN 2 ELSE 1

(* Setup runs once, in its phase, and the close job starts once, after it. *)
PhaseInv ==
    /\ phase = "new" => pc[Setup] = "idle"
    /\ pc[Setup] \notin {"idle", "ended"} => phase = "subscribing"
    /\ phase \in {"new", "subscribing", "refresh", "running"} => pc[Close] = "idle"

IInv == TypeOK /\ ArgumentsInv /\ LockInv /\ PhaseInv

-----------------------------------------------------------------------------
(* A coordinator that is not set up yet satisfies the invariant.           *)
LEMMA InitIInv == Init => IInv
  <1> SUFFICES ASSUME Init PROVE IInv
    OBVIOUS
  <1> USE PointsAssumption, ThreadsAssumption, BoundsAssumption DEF Init
  <1>1. TypeOK
    BY DEF TypeOK, JobTypes, CoordinatorTypes, PlcTypes, BudgetTypes, Phases, Labels,
           Threads, MaybeValue, Nothing
  <1>2. ArgumentsInv
    BY DEF ArgumentsInv, Threads
  <1>3. LockInv
    BY DEF LockInv, Holding, InCall, Threads
  <1>4. PhaseInv
    BY DEF PhaseInv, Threads
  <1> QED
    BY <1>1, <1>2, <1>3, <1>4 DEF IInv

(* What Head yields for the lists the jobs work through. *)
LEMMA HeadOfPoints ==
  ASSUME NEW s \in Seq(Point), s # <<>>
  PROVE  Head(s) \in Point /\ Head(s).name \in Names
  <1>1. Head(s) \in Point
    OBVIOUS
  <1> QED
    BY <1>1 DEF Point

(* Likewise for the notifications that wait for the event loop.            *)
LEMMA HeadOfRequests ==
  ASSUME NEW s \in Seq(Request), s # <<>>
  PROVE  Head(s) \in Request /\ Head(s).name \in Names /\ Head(s).value \in Values
  <1>1. Head(s) \in Request
    OBVIOUS
  <1> QED
    BY <1>1 DEF Request

(* The job of _setup_notifications preserves the invariant.                *)
LEMMA SetupIInv ==
  ASSUME IInv, SetupJob
  PROVE  IInv'
  <1> USE ThreadsAssumption DEF IInv, Threads, Holding, InCall
  <1>1. CASE AsyncSetupNotifications
    <2> USE <1>1 DEF AsyncSetupNotifications, Goto, jobVars, coordinatorVars, plcVars, budgets
    <2>1. JobTypes'
      BY DEF TypeOK, JobTypes, PhaseInv, Labels, Phases
    <2>2. CoordinatorTypes'
      BY DEF TypeOK, CoordinatorTypes
    <2>3. PlcTypes'
      BY DEF TypeOK, PlcTypes
    <2>4. BudgetTypes'
      BY DEF TypeOK, BudgetTypes
    <2>5. ArgumentsInv'
      BY DEF ArgumentsInv, TypeOK, JobTypes
    <2>6. LockInv'
      BY DEF LockInv, TypeOK, JobTypes, PhaseInv
    <2>7. PhaseInv'
      BY DEF PhaseInv, TypeOK, JobTypes
    <2> QED
      BY <2>1, <2>2, <2>3, <2>4, <2>5, <2>6, <2>7 DEF TypeOK
  <1>2. CASE SetupAcquire
    <2> USE <1>2 DEF SetupAcquire, Goto, Acquire, coordinatorVars, plcVars, budgets
    <2>1. JobTypes'
      BY PointsAssumption DEF TypeOK, JobTypes, LockInv, Labels
    <2>2. CoordinatorTypes'
      BY DEF TypeOK, CoordinatorTypes, JobTypes
    <2>3. PlcTypes'
      BY DEF TypeOK, PlcTypes
    <2>4. BudgetTypes'
      BY DEF TypeOK, BudgetTypes
    <2>5. ArgumentsInv'
      BY DEF ArgumentsInv, TypeOK, JobTypes
    <2>6. LockInv'
      BY DEF LockInv, TypeOK, JobTypes
    <2>7. PhaseInv'
      BY DEF PhaseInv, TypeOK, JobTypes
    <2> QED
      BY <2>1, <2>2, <2>3, <2>4, <2>5, <2>6, <2>7 DEF TypeOK
  <1>3. CASE SetupFallback
    <2> USE <1>3 DEF SetupFallback, NextPoint, FallBackToPolling, plcVars, budgets
    <2> DEFINE point == Head(todo[Setup])
    <2>0. point \in Point /\ point.name \in Names
      BY HeadOfPoints DEF TypeOK, JobTypes, ArgumentsInv
    <2>1. JobTypes'
      BY <2>0 DEF TypeOK, JobTypes, ArgumentsInv
    <2>2. CoordinatorTypes'
      BY <2>0 DEF TypeOK, CoordinatorTypes, JobTypes, ArgumentsInv
    <2>3. PlcTypes'
      BY <2>0 DEF TypeOK, PlcTypes, JobTypes, ArgumentsInv
    <2>4. BudgetTypes'
      BY DEF TypeOK, BudgetTypes
    <2>5. ArgumentsInv'
      BY DEF ArgumentsInv, TypeOK, JobTypes
    <2>6. LockInv'
      BY DEF LockInv, TypeOK, JobTypes
    <2>7. PhaseInv'
      BY DEF PhaseInv, TypeOK, JobTypes
    <2> QED
      BY <2>1, <2>2, <2>3, <2>4, <2>5, <2>6, <2>7 DEF TypeOK
  <1>4. CASE Subscribe
    <2> USE <1>4 DEF Subscribe, Goto, jobVars, coordinatorVars, plcVars, budgets
    <2>1. JobTypes'
      BY DEF TypeOK, JobTypes, Labels
    <2>2. CoordinatorTypes'
      BY DEF TypeOK, CoordinatorTypes
    <2>3. PlcTypes'
      BY DEF TypeOK, PlcTypes
    <2>4. BudgetTypes'
      BY DEF TypeOK, BudgetTypes
    <2>5. ArgumentsInv'
      BY DEF ArgumentsInv, TypeOK, JobTypes
    <2>6. LockInv'
      BY DEF LockInv, TypeOK, JobTypes
    <2>7. PhaseInv'
      BY DEF PhaseInv, TypeOK, JobTypes
    <2> QED
      BY <2>1, <2>2, <2>3, <2>4, <2>5, <2>6, <2>7 DEF TypeOK
  <1>5. CASE SubscribeOk
    <2> USE <1>5 DEF SubscribeOk, Goto, jobVars, coordinatorVars, budgets
    <2> DEFINE point == Head(todo[Setup])
    <2>0. point \in Point /\ point.name \in Names
      BY HeadOfPoints DEF TypeOK, JobTypes, ArgumentsInv
    <2>1. JobTypes'
      BY <2>0 DEF TypeOK, JobTypes, ArgumentsInv, Labels
    <2>2. CoordinatorTypes'
      BY <2>0 DEF TypeOK, CoordinatorTypes, JobTypes, ArgumentsInv
    <2>3. PlcTypes'
      BY <2>0 DEF TypeOK, PlcTypes, JobTypes, ArgumentsInv, MaybeValue
    <2>4. BudgetTypes'
      BY DEF TypeOK, BudgetTypes
    <2>5. ArgumentsInv'
      BY DEF ArgumentsInv, TypeOK, JobTypes
    <2>6. LockInv'
      BY DEF LockInv, TypeOK, JobTypes
    <2>7. PhaseInv'
      BY DEF PhaseInv, TypeOK, JobTypes
    <2> QED
      BY <2>1, <2>2, <2>3, <2>4, <2>5, <2>6, <2>7 DEF TypeOK
  <1>6. CASE SubscribeError
    <2> USE <1>6 DEF SubscribeError, Goto, AdsError, NextPoint, FallBackToPolling, plcVars
    <2> DEFINE point == Head(todo[Setup])
    <2>0. point \in Point /\ point.name \in Names
      BY HeadOfPoints DEF TypeOK, JobTypes, ArgumentsInv
    <2>1. JobTypes'
      BY <2>0 DEF TypeOK, JobTypes, ArgumentsInv, Labels
    <2>2. CoordinatorTypes'
      BY <2>0 DEF TypeOK, CoordinatorTypes, JobTypes, ArgumentsInv
    <2>3. PlcTypes'
      BY <2>0 DEF TypeOK, PlcTypes, JobTypes, ArgumentsInv
    <2>4. BudgetTypes'
      BY BoundsAssumption DEF TypeOK, BudgetTypes
    <2>5. ArgumentsInv'
      BY DEF ArgumentsInv, TypeOK, JobTypes
    <2>6. LockInv'
      BY DEF LockInv, TypeOK, JobTypes
    <2>7. PhaseInv'
      BY DEF PhaseInv, TypeOK, JobTypes
    <2> QED
      BY <2>1, <2>2, <2>3, <2>4, <2>5, <2>6, <2>7 DEF TypeOK
  <1>7. CASE RegisterHandle
    <2> USE <1>7 DEF RegisterHandle, Goto, jobVars, plcVars, budgets
    <2> DEFINE point == Head(todo[Setup])
    <2>0. point \in Point /\ point.name \in Names
      BY HeadOfPoints DEF TypeOK, JobTypes, ArgumentsInv
    <2>1. JobTypes'
      BY <2>0 DEF TypeOK, JobTypes, ArgumentsInv, Labels
    <2>2. CoordinatorTypes'
      BY <2>0 DEF TypeOK, CoordinatorTypes, JobTypes, ArgumentsInv
    <2>3. PlcTypes'
      BY <2>0 DEF TypeOK, PlcTypes, JobTypes, ArgumentsInv
    <2>4. BudgetTypes'
      BY DEF TypeOK, BudgetTypes
    <2>5. ArgumentsInv'
      BY DEF ArgumentsInv, TypeOK, JobTypes
    <2>6. LockInv'
      BY DEF LockInv, TypeOK, JobTypes
    <2>7. PhaseInv'
      BY DEF PhaseInv, TypeOK, JobTypes
    <2> QED
      BY <2>1, <2>2, <2>3, <2>4, <2>5, <2>6, <2>7 DEF TypeOK
  <1>8. CASE InitialRead
    <2> USE <1>8 DEF InitialRead, Goto, coordinatorVars, plcVars, budgets
    <2> DEFINE point == Head(todo[Setup])
    <2>0. point \in Point /\ point.name \in Names
      BY HeadOfPoints DEF TypeOK, JobTypes, ArgumentsInv
    <2>1. JobTypes'
      BY <2>0 DEF TypeOK, JobTypes, PlcTypes, ArgumentsInv, Labels, MaybeValue
    <2>2. CoordinatorTypes'
      BY <2>0 DEF TypeOK, CoordinatorTypes, JobTypes, ArgumentsInv
    <2>3. PlcTypes'
      BY <2>0 DEF TypeOK, PlcTypes, JobTypes, ArgumentsInv
    <2>4. BudgetTypes'
      BY DEF TypeOK, BudgetTypes
    <2>5. ArgumentsInv'
      BY DEF ArgumentsInv, TypeOK, JobTypes
    <2>6. LockInv'
      BY DEF LockInv, TypeOK, JobTypes
    <2>7. PhaseInv'
      BY DEF PhaseInv, TypeOK, JobTypes
    <2> QED
      BY <2>1, <2>2, <2>3, <2>4, <2>5, <2>6, <2>7 DEF TypeOK
  <1>9. CASE InitialReadError
    <2> USE <1>9 DEF InitialReadError, Goto, AdsError, NextPoint, coordinatorVars, plcVars
    <2>1. JobTypes'
      BY DEF TypeOK, JobTypes, ArgumentsInv, Labels
    <2>2. CoordinatorTypes'
      BY DEF TypeOK, CoordinatorTypes, JobTypes, ArgumentsInv
    <2>3. PlcTypes'
      BY DEF TypeOK, PlcTypes
    <2>4. BudgetTypes'
      BY BoundsAssumption DEF TypeOK, BudgetTypes
    <2>5. ArgumentsInv'
      BY DEF ArgumentsInv, TypeOK, JobTypes
    <2>6. LockInv'
      BY DEF LockInv, TypeOK, JobTypes
    <2>7. PhaseInv'
      BY DEF PhaseInv, TypeOK, JobTypes
    <2> QED
      BY <2>1, <2>2, <2>3, <2>4, <2>5, <2>6, <2>7 DEF TypeOK
  <1>10. CASE StoreInitialValue
    <2> USE <1>10 DEF StoreInitialValue, Goto, NextPoint, plcVars, budgets
    <2> DEFINE point == Head(todo[Setup])
    <2>0. point \in Point /\ point.name \in Names
      BY HeadOfPoints DEF TypeOK, JobTypes, ArgumentsInv
    <2>1. JobTypes'
      BY <2>0 DEF TypeOK, JobTypes, ArgumentsInv, Labels, MaybeValue
    <2>2. CoordinatorTypes'
      BY <2>0 DEF TypeOK, CoordinatorTypes, JobTypes, ArgumentsInv, MaybeValue
    <2>3. PlcTypes'
      BY <2>0 DEF TypeOK, PlcTypes, JobTypes, ArgumentsInv
    <2>4. BudgetTypes'
      BY DEF TypeOK, BudgetTypes
    <2>5. ArgumentsInv'
      BY DEF ArgumentsInv, TypeOK, JobTypes
    <2>6. LockInv'
      BY DEF LockInv, TypeOK, JobTypes
    <2>7. PhaseInv'
      BY DEF PhaseInv, TypeOK, JobTypes
    <2> QED
      BY <2>1, <2>2, <2>3, <2>4, <2>5, <2>6, <2>7 DEF TypeOK
  <1>11. CASE SetupRelease
    <2> USE <1>11 DEF SetupRelease, Goto, Release, jobVars, coordinatorVars, plcVars, budgets
    <2>1. JobTypes'
      BY DEF TypeOK, JobTypes, LockInv, Labels
    <2>2. CoordinatorTypes'
      BY DEF TypeOK, CoordinatorTypes
    <2>3. PlcTypes'
      BY DEF TypeOK, PlcTypes
    <2>4. BudgetTypes'
      BY DEF TypeOK, BudgetTypes
    <2>5. ArgumentsInv'
      BY DEF ArgumentsInv, TypeOK, JobTypes
    <2>6. LockInv'
      BY DEF LockInv, TypeOK, JobTypes
    <2>7. PhaseInv'
      BY DEF PhaseInv, TypeOK, JobTypes
    <2> QED
      BY <2>1, <2>2, <2>3, <2>4, <2>5, <2>6, <2>7 DEF TypeOK
  <1>12. CASE SetupResume
    <2> USE <1>12 DEF SetupResume, Goto, jobVars, coordinatorVars, plcVars, budgets
    <2>1. JobTypes'
      BY DEF TypeOK, JobTypes, PhaseInv, Labels, Phases
    <2>2. CoordinatorTypes'
      BY DEF TypeOK, CoordinatorTypes
    <2>3. PlcTypes'
      BY DEF TypeOK, PlcTypes
    <2>4. BudgetTypes'
      BY DEF TypeOK, BudgetTypes
    <2>5. ArgumentsInv'
      BY DEF ArgumentsInv, TypeOK, JobTypes
    <2>6. LockInv'
      BY DEF LockInv, TypeOK, JobTypes
    <2>7. PhaseInv'
      BY DEF PhaseInv, TypeOK, JobTypes
    <2> QED
      BY <2>1, <2>2, <2>3, <2>4, <2>5, <2>6, <2>7 DEF TypeOK
  <1> QED
    BY <1>1, <1>2, <1>3, <1>4, <1>5, <1>6, <1>7, <1>8, <1>9, <1>10, <1>11, <1>12
       DEF SetupJob

(* A refresh, _read_polled_variables and its two ends, preserves it.       *)
LEMMA PollIInv ==
  ASSUME IInv, NEW p \in Pollers, StartPoll(p) \/ PollAcquire(p) \/ PollJob(p)
  PROVE  IInv'
  <1> USE ThreadsAssumption DEF IInv, Threads, Holding, InCall
  <1>1. CASE StartPoll(p)
    <2> USE <1>1 DEF StartPoll, Goto, jobVars, coordinatorVars, plcVars, budgets
    <2>1. JobTypes'
      BY DEF TypeOK, JobTypes, Labels
    <2>2. CoordinatorTypes'
      BY DEF TypeOK, CoordinatorTypes
    <2>3. PlcTypes'
      BY DEF TypeOK, PlcTypes
    <2>4. BudgetTypes'
      BY DEF TypeOK, BudgetTypes
    <2>5. ArgumentsInv'
      BY DEF ArgumentsInv, TypeOK, JobTypes
    <2>6. LockInv'
      BY DEF LockInv, TypeOK, JobTypes
    <2>7. PhaseInv'
      BY DEF PhaseInv, TypeOK, JobTypes
    <2> QED
      BY <2>1, <2>2, <2>3, <2>4, <2>5, <2>6, <2>7 DEF TypeOK
  <1>2. CASE PollAcquire(p)
    <2> USE <1>2 DEF PollAcquire, Goto, Acquire, coordinatorVars, plcVars, budgets
    <2>1. JobTypes'
      BY DEF TypeOK, JobTypes, CoordinatorTypes, LockInv, Labels, MaybeValue
    <2>2. CoordinatorTypes'
      BY DEF TypeOK, CoordinatorTypes, JobTypes
    <2>3. PlcTypes'
      BY DEF TypeOK, PlcTypes
    <2>4. BudgetTypes'
      BY DEF TypeOK, BudgetTypes
    <2>5. ArgumentsInv'
      BY DEF ArgumentsInv, TypeOK, JobTypes
    <2>6. LockInv'
      BY DEF LockInv, TypeOK, JobTypes
    <2>7. PhaseInv'
      BY DEF PhaseInv, TypeOK, JobTypes
    <2> QED
      BY <2>1, <2>2, <2>3, <2>4, <2>5, <2>6, <2>7 DEF TypeOK
  <1>3. CASE PollRead(p)
    <2> USE <1>3 DEF PollRead, Goto, jobVars, coordinatorVars, plcVars, budgets
    <2>1. JobTypes'
      BY DEF TypeOK, JobTypes, Labels
    <2>2. CoordinatorTypes'
      BY DEF TypeOK, CoordinatorTypes
    <2>3. PlcTypes'
      BY DEF TypeOK, PlcTypes
    <2>4. BudgetTypes'
      BY DEF TypeOK, BudgetTypes
    <2>5. ArgumentsInv'
      BY DEF ArgumentsInv, TypeOK, JobTypes
    <2>6. LockInv'
      BY DEF LockInv, TypeOK, JobTypes
    <2>7. PhaseInv'
      BY DEF PhaseInv, TypeOK, JobTypes
    <2> QED
      BY <2>1, <2>2, <2>3, <2>4, <2>5, <2>6, <2>7 DEF TypeOK
  <1>4. CASE PollReadOk(p)
    <2> USE <1>4 DEF PollReadOk, Goto, NextPoint, coordinatorVars, plcVars, budgets
    <2>0. Head(todo[p]) \in Point /\ Head(todo[p]).name \in Names
      BY HeadOfPoints DEF TypeOK, JobTypes, ArgumentsInv
    <2>1. JobTypes'
      <3> DEFINE name == Head(todo[p]).name
      <3>1. PICK value \in MaybeValue : result' = [result EXCEPT ![p][name] = value]
        BY <2>0 DEF TypeOK, PlcTypes, MaybeValue
      <3>2. result' \in [Pollers -> [Names -> MaybeValue]]
        BY <2>0, <3>1 DEF TypeOK, JobTypes
      <3> QED
        BY <3>2 DEF TypeOK, JobTypes, ArgumentsInv, Labels
    <2>2. CoordinatorTypes'
      BY <2>0 DEF TypeOK, CoordinatorTypes, JobTypes, ArgumentsInv
    <2>3. PlcTypes'
      BY <2>0 DEF TypeOK, PlcTypes, JobTypes, ArgumentsInv
    <2>4. BudgetTypes'
      BY DEF TypeOK, BudgetTypes
    <2>5. ArgumentsInv'
      BY DEF ArgumentsInv, TypeOK, JobTypes
    <2>6. LockInv'
      BY DEF LockInv, TypeOK, JobTypes
    <2>7. PhaseInv'
      BY DEF PhaseInv, TypeOK, JobTypes
    <2> QED
      BY <2>1, <2>2, <2>3, <2>4, <2>5, <2>6, <2>7 DEF TypeOK
  <1>5. CASE PollReadAdsError(p)
    <2> USE <1>5 DEF PollReadAdsError, Goto, AdsError, NextPoint, coordinatorVars, plcVars
    <2>0. Head(todo[p]) \in Point /\ Head(todo[p]).name \in Names
      BY HeadOfPoints DEF TypeOK, JobTypes, ArgumentsInv
    <2>1. JobTypes'
      BY <2>0 DEF TypeOK, JobTypes, CoordinatorTypes, ArgumentsInv, Labels, MaybeValue
    <2>2. CoordinatorTypes'
      BY <2>0 DEF TypeOK, CoordinatorTypes, JobTypes, ArgumentsInv
    <2>3. PlcTypes'
      BY <2>0 DEF TypeOK, PlcTypes, JobTypes, ArgumentsInv
    <2>4. BudgetTypes'
      BY BoundsAssumption DEF TypeOK, BudgetTypes
    <2>5. ArgumentsInv'
      BY DEF ArgumentsInv, TypeOK, JobTypes
    <2>6. LockInv'
      BY DEF LockInv, TypeOK, JobTypes
    <2>7. PhaseInv'
      BY DEF PhaseInv, TypeOK, JobTypes
    <2> QED
      BY <2>1, <2>2, <2>3, <2>4, <2>5, <2>6, <2>7 DEF TypeOK
  <1>6. CASE PollReadOtherError(p)
    <2> USE <1>6 DEF PollReadOtherError, Goto, Release, Nothing, coordinatorVars, plcVars
    <2>1. JobTypes'
      BY DEF TypeOK, JobTypes, LockInv, Labels, MaybeValue
    <2>2. CoordinatorTypes'
      BY DEF TypeOK, CoordinatorTypes, JobTypes
    <2>3. PlcTypes'
      BY DEF TypeOK, PlcTypes
    <2>4. BudgetTypes'
      BY BoundsAssumption DEF TypeOK, BudgetTypes
    <2>5. ArgumentsInv'
      BY DEF ArgumentsInv, TypeOK, JobTypes
    <2>6. LockInv'
      BY DEF LockInv, TypeOK, JobTypes
    <2>7. PhaseInv'
      BY DEF PhaseInv, TypeOK, JobTypes
    <2> QED
      BY <2>1, <2>2, <2>3, <2>4, <2>5, <2>6, <2>7 DEF TypeOK
  <1>7. CASE PollMerge(p)
    <2> USE <1>7 DEF PollMerge, Goto, Release, coordinatorVars, plcVars, budgets
    <2>1. JobTypes'
      BY DEF TypeOK, JobTypes, CoordinatorTypes, LockInv, Labels, MaybeValue
    <2>2. CoordinatorTypes'
      BY DEF TypeOK, CoordinatorTypes, JobTypes
    <2>3. PlcTypes'
      BY DEF TypeOK, PlcTypes
    <2>4. BudgetTypes'
      BY DEF TypeOK, BudgetTypes
    <2>5. ArgumentsInv'
      BY DEF ArgumentsInv, TypeOK, JobTypes
    <2>6. LockInv'
      BY DEF LockInv, TypeOK, JobTypes
    <2>7. PhaseInv'
      BY DEF PhaseInv, TypeOK, JobTypes
    <2> QED
      BY <2>1, <2>2, <2>3, <2>4, <2>5, <2>6, <2>7 DEF TypeOK
  <1>8. CASE PublishPoll(p)
    <2> USE <1>8 DEF PublishPoll, Goto, Nothing, plcVars, budgets
    <2>1. JobTypes'
      BY DEF TypeOK, JobTypes, Labels, Phases, MaybeValue
    <2>2. CoordinatorTypes'
      BY DEF TypeOK, CoordinatorTypes, JobTypes, MaybeValue
    <2>3. PlcTypes'
      BY DEF TypeOK, PlcTypes
    <2>4. BudgetTypes'
      BY DEF TypeOK, BudgetTypes
    <2>5. ArgumentsInv'
      BY DEF ArgumentsInv, TypeOK, JobTypes
    <2>6. LockInv'
      BY DEF LockInv, TypeOK, JobTypes
    <2>7. PhaseInv'
      BY DEF PhaseInv, TypeOK, JobTypes
    <2> QED
      BY <2>1, <2>2, <2>3, <2>4, <2>5, <2>6, <2>7 DEF TypeOK
  <1>9. CASE PollFailed(p)
    <2> USE <1>9 DEF PollFailed, Goto, jobVars, plcVars, budgets
    <2>1. JobTypes'
      BY DEF TypeOK, JobTypes, PhaseInv, Labels, Phases
    <2>2. CoordinatorTypes'
      BY DEF TypeOK, CoordinatorTypes
    <2>3. PlcTypes'
      BY DEF TypeOK, PlcTypes
    <2>4. BudgetTypes'
      BY DEF TypeOK, BudgetTypes
    <2>5. ArgumentsInv'
      BY DEF ArgumentsInv, TypeOK, JobTypes
    <2>6. LockInv'
      BY DEF LockInv, TypeOK, JobTypes, PhaseInv
    <2>7. PhaseInv'
      BY DEF PhaseInv, TypeOK, JobTypes
    <2> QED
      BY <2>1, <2>2, <2>3, <2>4, <2>5, <2>6, <2>7 DEF TypeOK
  <1> QED
    BY <1>1, <1>2, <1>3, <1>4, <1>5, <1>6, <1>7, <1>8, <1>9
       DEF PollJob

(* So does write_variable with the handlers of the entities.               *)
LEMMA WriteIInv ==
  ASSUME IInv, NEW w \in Writers, CallWrite(w) \/ WriteAcquire(w) \/ WriteJob(w)
  PROVE  IInv'
  <1> USE ThreadsAssumption DEF IInv, Threads, Holding, InCall
  <1>1. CASE CallWrite(w)
    <2> USE <1>1 DEF CallWrite, Goto, coordinatorVars, plcVars
    <2>0. PICK r \in Request : request' = [request EXCEPT ![w] = r]
      BY PointsAssumption DEF Request
    <2>1. JobTypes'
      BY <2>0 DEF TypeOK, JobTypes, Labels
    <2>2. CoordinatorTypes'
      BY DEF TypeOK, CoordinatorTypes, JobTypes
    <2>3. PlcTypes'
      BY DEF TypeOK, PlcTypes
    <2>4. BudgetTypes'
      BY BoundsAssumption DEF TypeOK, BudgetTypes
    <2>5. ArgumentsInv'
      BY <2>0 DEF ArgumentsInv, TypeOK, JobTypes
    <2>6. LockInv'
      BY DEF LockInv, TypeOK, JobTypes
    <2>7. PhaseInv'
      BY DEF PhaseInv, TypeOK, JobTypes
    <2> QED
      BY <2>1, <2>2, <2>3, <2>4, <2>5, <2>6, <2>7 DEF TypeOK
  <1>2. CASE WriteAcquire(w)
    <2> USE <1>2 DEF WriteAcquire, Goto, Acquire, jobVars, coordinatorVars, plcVars, budgets
    <2>1. JobTypes'
      BY DEF TypeOK, JobTypes, LockInv, Labels
    <2>2. CoordinatorTypes'
      BY DEF TypeOK, CoordinatorTypes
    <2>3. PlcTypes'
      BY DEF TypeOK, PlcTypes
    <2>4. BudgetTypes'
      BY DEF TypeOK, BudgetTypes
    <2>5. ArgumentsInv'
      BY DEF ArgumentsInv, TypeOK, JobTypes
    <2>6. LockInv'
      BY DEF LockInv, TypeOK, JobTypes
    <2>7. PhaseInv'
      BY DEF PhaseInv, TypeOK, JobTypes
    <2> QED
      BY <2>1, <2>2, <2>3, <2>4, <2>5, <2>6, <2>7 DEF TypeOK
  <1>3. CASE WriteOk(w)
    <2> USE <1>3 DEF WriteOk, Goto, Release, Written, jobVars, coordinatorVars, budgets
    <2>1. JobTypes'
      BY DEF TypeOK, JobTypes, LockInv, ArgumentsInv, Labels
    <2>2. CoordinatorTypes'
      BY DEF TypeOK, CoordinatorTypes
    <2>3. PlcTypes'
      BY DEF TypeOK, PlcTypes, JobTypes, ArgumentsInv, Request
    <2>4. BudgetTypes'
      BY DEF TypeOK, BudgetTypes
    <2>5. ArgumentsInv'
      BY DEF ArgumentsInv, TypeOK, JobTypes
    <2>6. LockInv'
      BY DEF LockInv, TypeOK, JobTypes
    <2>7. PhaseInv'
      BY DEF PhaseInv, TypeOK, JobTypes
    <2> QED
      BY <2>1, <2>2, <2>3, <2>4, <2>5, <2>6, <2>7 DEF TypeOK
  <1>4. CASE WriteError(w)
    <2> USE <1>4 DEF WriteError, Goto, Release, AdsError, Written, jobVars, coordinatorVars
    <2>1. JobTypes'
      BY DEF TypeOK, JobTypes, LockInv, ArgumentsInv, Labels
    <2>2. CoordinatorTypes'
      BY DEF TypeOK, CoordinatorTypes
    <2>3. PlcTypes'
      BY DEF TypeOK, PlcTypes, JobTypes, ArgumentsInv, Request
    <2>4. BudgetTypes'
      BY BoundsAssumption DEF TypeOK, BudgetTypes
    <2>5. ArgumentsInv'
      BY DEF ArgumentsInv, TypeOK, JobTypes
    <2>6. LockInv'
      BY DEF LockInv, TypeOK, JobTypes
    <2>7. PhaseInv'
      BY DEF PhaseInv, TypeOK, JobTypes
    <2> QED
      BY <2>1, <2>2, <2>3, <2>4, <2>5, <2>6, <2>7 DEF TypeOK
  <1>5. CASE WriteReturns(w)
    <2> USE <1>5 DEF WriteReturns, Goto, plcVars, budgets
    <2>1. JobTypes'
      BY DEF TypeOK, JobTypes, Labels
    <2>2. CoordinatorTypes'
      BY DEF TypeOK, CoordinatorTypes, JobTypes, MaybeValue, ArgumentsInv, Request
    <2>3. PlcTypes'
      BY DEF TypeOK, PlcTypes
    <2>4. BudgetTypes'
      BY DEF TypeOK, BudgetTypes
    <2>5. ArgumentsInv'
      BY DEF ArgumentsInv, TypeOK, JobTypes
    <2>6. LockInv'
      BY DEF LockInv, TypeOK, JobTypes
    <2>7. PhaseInv'
      BY DEF PhaseInv, TypeOK, JobTypes
    <2> QED
      BY <2>1, <2>2, <2>3, <2>4, <2>5, <2>6, <2>7 DEF TypeOK
  <1>6. CASE WriteFailed(w)
    <2> USE <1>6 DEF WriteFailed, Goto, coordinatorVars, plcVars, budgets
    <2>1. JobTypes'
      BY DEF TypeOK, JobTypes, Labels
    <2>2. CoordinatorTypes'
      BY DEF TypeOK, CoordinatorTypes, JobTypes
    <2>3. PlcTypes'
      BY DEF TypeOK, PlcTypes
    <2>4. BudgetTypes'
      BY DEF TypeOK, BudgetTypes
    <2>5. ArgumentsInv'
      BY DEF ArgumentsInv, TypeOK, JobTypes
    <2>6. LockInv'
      BY DEF LockInv, TypeOK, JobTypes
    <2>7. PhaseInv'
      BY DEF PhaseInv, TypeOK, JobTypes
    <2> QED
      BY <2>1, <2>2, <2>3, <2>4, <2>5, <2>6, <2>7 DEF TypeOK
  <1> QED
    BY <1>1, <1>2, <1>3, <1>4, <1>5, <1>6
       DEF WriteJob

(* So does the close job: lock, release, lock given back twice.            *)
LEMMA CloseIInv ==
  ASSUME IInv, UnloadEntry \/ CloseAcquire \/ CloseJob
  PROVE  IInv'
  <1> USE ThreadsAssumption DEF IInv, Threads, Holding, InCall
  <1>1. CASE UnloadEntry
    <2> USE <1>1 DEF UnloadEntry, Goto, jobVars, coordinatorVars, plcVars, budgets
    <2>1. JobTypes'
      BY DEF TypeOK, JobTypes, PhaseInv, Labels, Phases
    <2>2. CoordinatorTypes'
      BY DEF TypeOK, CoordinatorTypes
    <2>3. PlcTypes'
      BY DEF TypeOK, PlcTypes
    <2>4. BudgetTypes'
      BY DEF TypeOK, BudgetTypes
    <2>5. ArgumentsInv'
      BY DEF ArgumentsInv, TypeOK, JobTypes
    <2>6. LockInv'
      BY DEF LockInv, TypeOK, JobTypes, PhaseInv
    <2>7. PhaseInv'
      BY DEF PhaseInv, TypeOK, JobTypes
    <2> QED
      BY <2>1, <2>2, <2>3, <2>4, <2>5, <2>6, <2>7 DEF TypeOK
  <1>2. CASE CloseAcquire
    <2> USE <1>2 DEF CloseAcquire, Goto, Acquire, jobVars, coordinatorVars, plcVars, budgets
    <2>1. JobTypes'
      BY DEF TypeOK, JobTypes, LockInv, Labels
    <2>2. CoordinatorTypes'
      BY DEF TypeOK, CoordinatorTypes
    <2>3. PlcTypes'
      BY DEF TypeOK, PlcTypes
    <2>4. BudgetTypes'
      BY DEF TypeOK, BudgetTypes
    <2>5. ArgumentsInv'
      BY DEF ArgumentsInv, TypeOK, JobTypes
    <2>6. LockInv'
      BY DEF LockInv, TypeOK, JobTypes
    <2>7. PhaseInv'
      BY DEF PhaseInv, TypeOK, JobTypes
    <2> QED
      BY <2>1, <2>2, <2>3, <2>4, <2>5, <2>6, <2>7 DEF TypeOK
  <1>3. CASE ReleaseAcquire
    <2> USE <1>3 DEF ReleaseAcquire, Goto, Acquire, jobVars, coordinatorVars, plcVars, budgets
    <2>1. JobTypes'
      BY DEF TypeOK, JobTypes, LockInv, Labels
    <2>2. CoordinatorTypes'
      BY DEF TypeOK, CoordinatorTypes
    <2>3. PlcTypes'
      BY DEF TypeOK, PlcTypes
    <2>4. BudgetTypes'
      BY DEF TypeOK, BudgetTypes
    <2>5. ArgumentsInv'
      BY DEF ArgumentsInv, TypeOK, JobTypes
    <2>6. LockInv'
      BY DEF LockInv, TypeOK, JobTypes
    <2>7. PhaseInv'
      BY DEF PhaseInv, TypeOK, JobTypes
    <2> QED
      BY <2>1, <2>2, <2>3, <2>4, <2>5, <2>6, <2>7 DEF TypeOK
  <1>4. CASE Unsubscribe
    <2> USE <1>4 DEF Unsubscribe, Goto, Subscribed, jobVars, coordinatorVars, plcVars, budgets
    <2>1. JobTypes'
      BY DEF TypeOK, JobTypes, Labels
    <2>2. CoordinatorTypes'
      BY DEF TypeOK, CoordinatorTypes
    <2>3. PlcTypes'
      BY DEF TypeOK, PlcTypes
    <2>4. BudgetTypes'
      BY DEF TypeOK, BudgetTypes
    <2>5. ArgumentsInv'
      BY DEF ArgumentsInv, TypeOK, JobTypes
    <2>6. LockInv'
      BY DEF LockInv, TypeOK, JobTypes
    <2>7. PhaseInv'
      BY DEF PhaseInv, TypeOK, JobTypes
    <2> QED
      BY <2>1, <2>2, <2>3, <2>4, <2>5, <2>6, <2>7 DEF TypeOK
  <1>5. ASSUME NEW n \in Names, UnsubscribeEnd(n) PROVE IInv'
    <2> USE <1>5 DEF UnsubscribeEnd, Goto, AdsError, Subscribed, jobVars, budgets
    <2>1. JobTypes'
      BY DEF TypeOK, JobTypes, Labels
    <2>2. CoordinatorTypes'
      BY DEF TypeOK, CoordinatorTypes
    <2>3. PlcTypes'
      BY DEF TypeOK, PlcTypes
    <2>4. BudgetTypes'
      BY BoundsAssumption DEF TypeOK, BudgetTypes
    <2>5. ArgumentsInv'
      BY DEF ArgumentsInv, TypeOK, JobTypes
    <2>6. LockInv'
      BY DEF LockInv, TypeOK, JobTypes
    <2>7. PhaseInv'
      BY DEF PhaseInv, TypeOK, JobTypes
    <2> QED
      BY <2>1, <2>2, <2>3, <2>4, <2>5, <2>6, <2>7 DEF TypeOK
  <1>6. CASE CloseConnection
    <2> USE <1>6 DEF CloseConnection, Goto, Release, Subscribed, jobVars, coordinatorVars, plcVars, budgets
    <2>1. JobTypes'
      BY DEF TypeOK, JobTypes, LockInv, Labels
    <2>2. CoordinatorTypes'
      BY DEF TypeOK, CoordinatorTypes
    <2>3. PlcTypes'
      BY DEF TypeOK, PlcTypes
    <2>4. BudgetTypes'
      BY DEF TypeOK, BudgetTypes
    <2>5. ArgumentsInv'
      BY DEF ArgumentsInv, TypeOK, JobTypes
    <2>6. LockInv'
      BY DEF LockInv, TypeOK, JobTypes
    <2>7. PhaseInv'
      BY DEF PhaseInv, TypeOK, JobTypes
    <2> QED
      BY <2>1, <2>2, <2>3, <2>4, <2>5, <2>6, <2>7 DEF TypeOK
  <1>7. CASE CloseOk
    <2> USE <1>7 DEF CloseOk, Goto, Release, jobVars, coordinatorVars, budgets
    <2>1. JobTypes'
      BY DEF TypeOK, JobTypes, LockInv, Labels
    <2>2. CoordinatorTypes'
      BY DEF TypeOK, CoordinatorTypes
    <2>3. PlcTypes'
      BY DEF TypeOK, PlcTypes
    <2>4. BudgetTypes'
      BY DEF TypeOK, BudgetTypes
    <2>5. ArgumentsInv'
      BY DEF ArgumentsInv, TypeOK, JobTypes
    <2>6. LockInv'
      BY DEF LockInv, TypeOK, JobTypes
    <2>7. PhaseInv'
      BY DEF PhaseInv, TypeOK, JobTypes
    <2> QED
      BY <2>1, <2>2, <2>3, <2>4, <2>5, <2>6, <2>7 DEF TypeOK
  <1>8. CASE CloseError
    <2> USE <1>8 DEF CloseError, Goto, Release, jobVars, coordinatorVars, plcVars
    <2>1. JobTypes'
      BY DEF TypeOK, JobTypes, LockInv, Labels
    <2>2. CoordinatorTypes'
      BY DEF TypeOK, CoordinatorTypes
    <2>3. PlcTypes'
      BY DEF TypeOK, PlcTypes
    <2>4. BudgetTypes'
      BY BoundsAssumption DEF TypeOK, BudgetTypes
    <2>5. ArgumentsInv'
      BY DEF ArgumentsInv, TypeOK, JobTypes
    <2>6. LockInv'
      BY DEF LockInv, TypeOK, JobTypes
    <2>7. PhaseInv'
      BY DEF PhaseInv, TypeOK, JobTypes
    <2> QED
      BY <2>1, <2>2, <2>3, <2>4, <2>5, <2>6, <2>7 DEF TypeOK
  <1>9. CASE CloseReturns
    <2> USE <1>9 DEF CloseReturns, Goto, jobVars, coordinatorVars, plcVars, budgets
    <2>1. JobTypes'
      BY DEF TypeOK, JobTypes, Labels, Phases
    <2>2. CoordinatorTypes'
      BY DEF TypeOK, CoordinatorTypes
    <2>3. PlcTypes'
      BY DEF TypeOK, PlcTypes
    <2>4. BudgetTypes'
      BY DEF TypeOK, BudgetTypes
    <2>5. ArgumentsInv'
      BY DEF ArgumentsInv, TypeOK, JobTypes
    <2>6. LockInv'
      BY DEF LockInv, TypeOK, JobTypes
    <2>7. PhaseInv'
      BY DEF PhaseInv, TypeOK, JobTypes
    <2> QED
      BY <2>1, <2>2, <2>3, <2>4, <2>5, <2>6, <2>7 DEF TypeOK
  <1> QED
    BY <1>1, <1>2, <1>3, <1>4, <1>5, <1>6, <1>7, <1>8, <1>9
       DEF CloseJob

(* Callbacks of the loop and the PLC touch no job past the lock.           *)
LEMMA LoopIInv ==
  ASSUME IInv, HandleNotificationUpdate \/ Environment
  PROVE  IInv'
  <1> USE ThreadsAssumption DEF IInv, Threads, Holding, InCall
  <1>1. CASE HandleNotificationUpdate
    <2> USE <1>1 DEF HandleNotificationUpdate, jobVars, plcVars, budgets
    <2>0. Head(loop_queue).name \in Names /\ Head(loop_queue).value \in Values
      BY HeadOfRequests DEF TypeOK, PlcTypes
    <2>1. JobTypes'
      BY <2>0 DEF TypeOK, JobTypes
    <2>2. CoordinatorTypes'
      BY <2>0 DEF TypeOK, CoordinatorTypes, MaybeValue, PlcTypes, Request
    <2>3. PlcTypes'
      BY <2>0 DEF TypeOK, PlcTypes, Request
    <2>4. BudgetTypes'
      BY DEF TypeOK, BudgetTypes
    <2>5. ArgumentsInv'
      BY DEF ArgumentsInv, TypeOK, JobTypes
    <2>6. LockInv'
      BY DEF LockInv, TypeOK, JobTypes
    <2>7. PhaseInv'
      BY DEF PhaseInv, TypeOK, JobTypes
    <2> QED
      BY <2>1, <2>2, <2>3, <2>4, <2>5, <2>6, <2>7 DEF TypeOK
  <1>2. ASSUME NEW point \in Point, Notify(point) PROVE IInv'
    <2> USE <1>2 DEF Notify, jobVars, coordinatorVars, budgets
    <2>1. JobTypes'
      BY DEF TypeOK, JobTypes
    <2>2. CoordinatorTypes'
      BY DEF TypeOK, CoordinatorTypes
    <2>3. PlcTypes'
      BY DEF TypeOK, PlcTypes, MaybeValue, Request, Point
    <2>4. BudgetTypes'
      BY DEF TypeOK, BudgetTypes
    <2>5. ArgumentsInv'
      BY DEF ArgumentsInv, TypeOK, JobTypes
    <2>6. LockInv'
      BY DEF LockInv, TypeOK, JobTypes
    <2>7. PhaseInv'
      BY DEF PhaseInv, TypeOK, JobTypes
    <2> QED
      BY <2>1, <2>2, <2>3, <2>4, <2>5, <2>6, <2>7 DEF TypeOK
  <1>3. ASSUME NEW n \in Names, PlcChange(n) PROVE IInv'
    <2> USE <1>3 DEF PlcChange, jobVars, coordinatorVars
    <2>1. JobTypes'
      BY DEF TypeOK, JobTypes
    <2>2. CoordinatorTypes'
      BY DEF TypeOK, CoordinatorTypes
    <2>3. PlcTypes'
      BY DEF TypeOK, PlcTypes
    <2>4. BudgetTypes'
      BY BoundsAssumption DEF TypeOK, BudgetTypes
    <2>5. ArgumentsInv'
      BY DEF ArgumentsInv, TypeOK, JobTypes
    <2>6. LockInv'
      BY DEF LockInv, TypeOK, JobTypes
    <2>7. PhaseInv'
      BY DEF PhaseInv, TypeOK, JobTypes
    <2> QED
      BY <2>1, <2>2, <2>3, <2>4, <2>5, <2>6, <2>7 DEF TypeOK
  <1>4. CASE PlcDown
    <2> USE <1>4 DEF PlcDown, jobVars, coordinatorVars
    <2>1. JobTypes'
      BY DEF TypeOK, JobTypes
    <2>2. CoordinatorTypes'
      BY DEF TypeOK, CoordinatorTypes
    <2>3. PlcTypes'
      BY DEF TypeOK, PlcTypes
    <2>4. BudgetTypes'
      BY BoundsAssumption DEF TypeOK, BudgetTypes
    <2>5. ArgumentsInv'
      BY DEF ArgumentsInv, TypeOK, JobTypes
    <2>6. LockInv'
      BY DEF LockInv, TypeOK, JobTypes
    <2>7. PhaseInv'
      BY DEF PhaseInv, TypeOK, JobTypes
    <2> QED
      BY <2>1, <2>2, <2>3, <2>4, <2>5, <2>6, <2>7 DEF TypeOK
  <1>5. CASE PlcUp
    <2> USE <1>5 DEF PlcUp, jobVars, coordinatorVars, budgets
    <2>1. JobTypes'
      BY DEF TypeOK, JobTypes
    <2>2. CoordinatorTypes'
      BY DEF TypeOK, CoordinatorTypes
    <2>3. PlcTypes'
      BY DEF TypeOK, PlcTypes
    <2>4. BudgetTypes'
      BY DEF TypeOK, BudgetTypes
    <2>5. ArgumentsInv'
      BY DEF ArgumentsInv, TypeOK, JobTypes
    <2>6. LockInv'
      BY DEF LockInv, TypeOK, JobTypes
    <2>7. PhaseInv'
      BY DEF PhaseInv, TypeOK, JobTypes
    <2> QED
      BY <2>1, <2>2, <2>3, <2>4, <2>5, <2>6, <2>7 DEF TypeOK
  <1> QED
    BY <1>1, <1>2, <1>3, <1>4, <1>5
       DEF Environment

-----------------------------------------------------------------------------
(* The invariant speaks of the variables only.                             *)
LEMMA StutterIInv ==
  ASSUME IInv, UNCHANGED vars
  PROVE  IInv'
  BY DEF vars, jobVars, coordinatorVars, plcVars, budgets, IInv, TypeOK, JobTypes,
         CoordinatorTypes, PlcTypes, BudgetTypes, ArgumentsInv, LockInv, PhaseInv

(* Every step preserves the invariant.                                     *)
LEMMA NextIInv ==
  ASSUME IInv, [Next]_vars
  PROVE  IInv'
  <1>1. CASE SetupJob
    BY <1>1, SetupIInv
  <1>2. ASSUME NEW p \in Pollers, StartPoll(p) \/ PollAcquire(p) \/ PollJob(p)
        PROVE  IInv'
    BY <1>2, PollIInv
  <1>3. ASSUME NEW w \in Writers, CallWrite(w) \/ WriteAcquire(w) \/ WriteJob(w)
        PROVE  IInv'
    BY <1>3, WriteIInv
  <1>4. CASE UnloadEntry \/ CloseAcquire \/ CloseJob
    BY <1>4, CloseIInv
  <1>5. CASE HandleNotificationUpdate \/ Environment
    BY <1>5, LoopIInv
  <1>6. CASE Unloaded \/ UNCHANGED vars
    BY <1>6, StutterIInv DEF Unloaded
  <1> QED
    BY <1>1, <1>2, <1>3, <1>4, <1>5, <1>6 DEF Next

(* The strengthened invariant holds in every behaviour.                    *)
THEOREM InductiveInvariant == Spec => []IInv
  BY InitIInv, NextIInv, PTL DEF Spec

(* Every variable keeps its type, in every behaviour of the coordinator.   *)
THEOREM TypeCorrect == Spec => []TypeOK
  <1>1. IInv => TypeOK
    BY DEF IInv
  <1> QED
    BY <1>1, InductiveInvariant, PTL

-----------------------------------------------------------------------------
(* Two jobs past taking the lock are one: the RLock has one owner.         *)
LEMMA OneHolder ==
  ASSUME IInv, NEW t \in Threads, NEW u \in Threads,
         pc[t] \in Holding, pc[u] \in Holding
  PROVE  t = u
  BY DEF IInv, LockInv

(* However many refreshes, writes, setups and shutdowns are interleaved,   *)
(* and whatever calls fail, no two of them are inside a pyads call: every  *)
(* call is made by a job that holds the coordinator's lock.                *)
THEOREM Serialized == Spec => []CallsSerialized
  <1>1. IInv => CallsSerialized
    BY OneHolder DEF CallsSerialized, Holding
  <1> QED
    BY <1>1, InductiveInvariant, PTL
-----------------------------------------------------------------------------
(* A job that owns or takes the lock enters a call: nobody else is in one. *)
LEMMA EntersCall ==
  ASSUME IInv, NEW t \in Threads, NEW label \in InCall, Goto(t, label),
         \/ pc[t] \in Holding \ InCall
         \/ pc[t] \notin Holding /\ plc_lock.owner \in {Nobody, t},
         UNCHANGED open
  PROVE  Connection!Begin(t)
  <1>1. \A u \in Threads : pc[u] \notin InCall
    BY ThreadsAssumption DEF IInv, LockInv, Holding
  <1>2. InsideCall = {}
    BY <1>1 DEF InsideCall
  <1>3. InsideCall' = {t}
    BY <1>1 DEF InsideCall, Goto, IInv, TypeOK, JobTypes
  <1> QED
    BY <1>2, <1>3 DEF Connection!Begin

(* A job that was in a call and is not any more ends the call.             *)
LEMMA LeavesCall ==
  ASSUME IInv, NEW t \in Threads, NEW label, label \notin InCall, Goto(t, label),
         pc[t] \in InCall, open' \in {open, FALSE}
  PROVE  Connection!End(t)
  <1>1. \A u \in Threads : pc[u] \in InCall => u = t
    BY OneHolder DEF Holding
  <1>2. InsideCall = {t}
    BY <1>1 DEF InsideCall
  <1>3. InsideCall' = {}
    BY <1>1 DEF InsideCall, Goto, IInv, TypeOK, JobTypes
  <1> QED
    BY <1>2, <1>3 DEF Connection!End

(* A job outside before and after is invisible to the connection.          *)
LEMMA StaysOutside ==
  ASSUME IInv, NEW t \in Threads, NEW label, label \notin InCall, Goto(t, label),
         pc[t] \notin InCall, UNCHANGED open
  PROVE  UNCHANGED <<InsideCall, open>>
  BY DEF InsideCall, Goto, IInv, TypeOK, JobTypes

(* Every step of the setup job is one of the connection, or none.          *)
LEMMA SetupImplements ==
  ASSUME IInv, SetupJob
  PROVE  [Connection!Next]_<<InsideCall, open>>
  <1> USE DEF plcVars, InCall, Holding
  <1> Setup \in Threads
    BY DEF Threads
  <1>1. CASE AsyncSetupNotifications
    <2>1. CASE UNCHANGED pc
      BY <1>1, <2>1 DEF AsyncSetupNotifications, InsideCall
    <2>2. CASE Goto(Setup, "queued")
      BY <1>1, <2>2, StaysOutside DEF AsyncSetupNotifications, IInv, PhaseInv
    <2> QED
      BY <1>1, <2>1, <2>2 DEF AsyncSetupNotifications
  <1>2. CASE SetupAcquire \/ StoreInitialValue \/ SetupRelease \/ SetupResume
    BY <1>2, StaysOutside DEF SetupAcquire, StoreInitialValue, SetupRelease, SetupResume
  <1>3. CASE SetupFallback
    BY <1>3 DEF SetupFallback, InsideCall
  <1>4. CASE Subscribe \/ RegisterHandle
    <2>1. Connection!Begin(Setup)
      BY <1>4, EntersCall DEF Subscribe, RegisterHandle
    <2> QED
      BY <2>1 DEF Connection!Next
  <1>5. CASE SubscribeOk \/ SubscribeError \/ InitialRead \/ InitialReadError
    <2>1. Connection!End(Setup)
      BY <1>5, LeavesCall DEF SubscribeOk, SubscribeError, InitialRead, InitialReadError
    <2> QED
      BY <2>1 DEF Connection!Next
  <1> QED
    BY <1>1, <1>2, <1>3, <1>4, <1>5 DEF SetupJob

(* Every step of a refresh is one of the connection, or none.              *)
LEMMA PollImplements ==
  ASSUME IInv, NEW p \in Pollers, StartPoll(p) \/ PollAcquire(p) \/ PollJob(p)
  PROVE  [Connection!Next]_<<InsideCall, open>>
  <1> USE DEF plcVars, InCall, Holding
  <1> p \in Threads
    BY DEF Threads
  <1>1. CASE StartPoll(p) \/ PollAcquire(p) \/ PollMerge(p) \/ PublishPoll(p)
    BY <1>1, StaysOutside DEF StartPoll, PollAcquire, PollMerge, PublishPoll
  <1>2. CASE PollRead(p)
    <2>1. Connection!Begin(p)
      BY <1>2, EntersCall DEF PollRead
    <2> QED
      BY <2>1 DEF Connection!Next
  <1>3. CASE PollReadOk(p) \/ PollReadAdsError(p) \/ PollReadOtherError(p)
    <2>1. Connection!End(p)
      BY <1>3, LeavesCall DEF PollReadOk, PollReadAdsError, PollReadOtherError
    <2> QED
      BY <2>1 DEF Connection!Next
  <1>4. CASE PollFailed(p)
    <2>1. \A t \in Threads : pc[t] \in InCall <=> pc'[t] \in InCall
      BY <1>4, ThreadsAssumption
         DEF PollFailed, Goto, Threads, IInv, TypeOK, JobTypes, PhaseInv
    <2> QED
      BY <1>4, <2>1 DEF PollFailed, InsideCall
  <1> QED
    BY <1>1, <1>2, <1>3, <1>4 DEF PollJob

(* Every step of a write is one of the connection, or none.                *)
LEMMA WriteImplements ==
  ASSUME IInv, NEW w \in Writers, CallWrite(w) \/ WriteAcquire(w) \/ WriteJob(w)
  PROVE  [Connection!Next]_<<InsideCall, open>>
  <1> USE DEF plcVars, InCall, Holding
  <1> w \in Threads
    BY DEF Threads
  <1>1. CASE CallWrite(w) \/ WriteReturns(w) \/ WriteFailed(w)
    BY <1>1, StaysOutside DEF CallWrite, WriteReturns, WriteFailed
  <1>2. CASE WriteAcquire(w)
    <2>1. Connection!Begin(w)
      BY <1>2, EntersCall DEF WriteAcquire, Acquire
    <2> QED
      BY <2>1 DEF Connection!Next
  <1>3. CASE WriteOk(w) \/ WriteError(w)
    <2>1. Connection!End(w)
      BY <1>3, LeavesCall DEF WriteOk, WriteError
    <2> QED
      BY <2>1 DEF Connection!Next
  <1> QED
    BY <1>1, <1>2, <1>3 DEF WriteJob

(* Every step of the close job is one of the connection, or none.          *)
LEMMA CloseImplements ==
  ASSUME IInv, UnloadEntry \/ CloseAcquire \/ CloseJob
  PROVE  [Connection!Next]_<<InsideCall, open>>
  <1> USE DEF plcVars, InCall, Holding
  <1> Close \in Threads
    BY DEF Threads
  <1>1. CASE UnloadEntry \/ CloseAcquire \/ ReleaseAcquire \/ CloseReturns
    BY <1>1, StaysOutside
       DEF UnloadEntry, CloseAcquire, ReleaseAcquire, CloseReturns, IInv, PhaseInv
  <1>2. CASE Unsubscribe \/ CloseConnection
    <2>1. Connection!Begin(Close)
      BY <1>2, EntersCall DEF Unsubscribe, CloseConnection
    <2> QED
      BY <2>1 DEF Connection!Next
  <1>3. CASE (\E n \in Names : UnsubscribeEnd(n)) \/ CloseOk \/ CloseError
    <2>1. Connection!End(Close)
      BY <1>3, LeavesCall DEF UnsubscribeEnd, CloseOk, CloseError
    <2> QED
      BY <2>1 DEF Connection!Next
  <1> QED
    BY <1>1, <1>2, <1>3 DEF CloseJob

(* The coordinator implements the serialized connection: each of its steps *)
(* starts a call on an idle connection, ends the call under way, or is     *)
(* invisible to the connection, which no step reopens.                     *)
THEOREM Refinement == Spec => ImplementsConnection
  <1>1. Init => Connection!Init
    BY DEF Init, Connection!Init, InsideCall, InCall
  <1>2. IInv /\ [Next]_vars => [Connection!Next]_<<InsideCall, open>>
    <2> SUFFICES ASSUME IInv, [Next]_vars
                 PROVE  [Connection!Next]_<<InsideCall, open>>
      OBVIOUS
    <2>1. CASE HandleNotificationUpdate \/ Environment
      BY <2>1 DEF HandleNotificationUpdate, Environment, Notify, PlcChange, PlcDown, PlcUp,
                  plcVars, InsideCall
    <2>2. CASE Unloaded \/ UNCHANGED vars
      BY <2>2 DEF Unloaded, vars, plcVars, InsideCall
    <2> QED
      BY <2>1, <2>2, SetupImplements, PollImplements, WriteImplements, CloseImplements
         DEF Next
  <1> QED
    BY <1>1, <1>2, InductiveInvariant, PTL DEF Spec, ImplementsConnection, Connection!Spec
=============================================================================
