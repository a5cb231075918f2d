--------------------- MODULE AdsCoordinatorPointsProofs ---------------------
(***************************************************************************)
(* Proofs about the points and subscriptions of AdsCoordinator, for every  *)
(* list of points in which no symbol is subscribed to twice: none is       *)
(* forgotten by _setup_notifications, the handles are the subscriptions    *)
(* the PLC serves, and close_connection leaves none behind.                *)
(***************************************************************************)
EXTENDS AdsCoordinatorProofs

(* No symbol is listed twice.  The handles are kept by symbol: of two      *)
(* points of one symbol only the handle of the second would be.            *)
Distinct(points) == \A i, j \in DOMAIN points : points[i].name = points[j].name => i = j

-----------------------------------------------------------------------------
BeforeClose == phase \in {"new", "subscribing", "refresh", "running"}

(* The async points that setup has not dealt with yet. *)
Pending ==
    IF pc[Setup] \in {"idle", "queued"} THEN Range(AsyncPoints)
    ELSE IF pc[Setup] \in {"held", "fallback", "subscribing", "subscribed"}
         THEN Range(todo[Setup])
    ELSE IF pc[Setup] \in {"reading", "sampled"}
         THEN Range(todo[Setup]) \ {Head(todo[Setup])}
    ELSE {}

Fresh(point) == /\ notification_handles[point.name] = NoHandle
                /\ point.name \notin failed_async_subscriptions
                /\ point \notin Range(poll_read_points)

DealtWith(point) ==
    /\ (notification_handles[point.name] = NoHandle)
           <=> (point.name \in failed_async_subscriptions)
    /\ (point.name \in failed_async_subscriptions)
           <=> (point \in Range(poll_read_points))

(* Setup works through a list without repetitions: what is still on it is  *)
(* untouched, what is off it is subscribed or polled.                      *)
PointsInv ==
    /\ pc[Setup] \notin {"idle", "queued"} =>
           Distinct(todo[Setup]) /\ Range(todo[Setup]) \subseteq Range(AsyncPoints)
    /\ pc[Setup] = "done" => todo[Setup] = <<>>
    /\ phase \in {"refresh", "running"} => pc[Setup] = "ended" \/ AsyncPoints = <<>>
    /\ BeforeClose =>
           \A point \in Range(AsyncPoints) :
               /\ point \in Pending => Fresh(point)
               /\ point \notin Pending => DealtWith(point)

Handles == {notification_handles[n] : n \in Subscribed}

(* The subscription the PLC has accepted and the job has no handle for yet.*)
Accepted == IF pc[Setup] = "subscribed" THEN {Head(todo[Setup])} ELSE {}

(* A handle is kept under the symbol it is for, and, unless the PLC was    *)
(* away or a call failed during shutdown, the PLC serves just the handles. *)
HandlesInv ==
    /\ \A n \in Subscribed : notification_handles[n].name = n
    /\ ~up => outages # 0
    /\ outages = 0 /\ (BeforeClose \/ faults = 0) => subs = Handles \union Accepted
    /\ pc[Close] = "closing" => Subscribed = {}

PInv == IInv /\ PointsInv /\ HandlesInv

-----------------------------------------------------------------------------
(* Taking the head off a list without repetitions. *)
LEMMA TailOfDistinct ==
  ASSUME NEW s \in Seq(Point), s # <<>>, Distinct(s)
  PROVE  /\ Distinct(Tail(s))
         /\ Range(Tail(s)) = Range(s) \ {Head(s)}
         /\ Head(s) \in Range(s)
  <1>1. /\ Len(s) \in Nat /\ Len(s) > 0 /\ DOMAIN s = 1 .. Len(s)
        /\ Tail(s) \in Seq(Point) /\ Len(Tail(s)) = Len(s) - 1
        /\ DOMAIN Tail(s) = 1 .. Len(s) - 1
        /\ \A i \in 1 .. Len(s) - 1 : Tail(s)[i] = s[i + 1]
        /\ Head(s) = s[1]
    OBVIOUS
  <1>2. Distinct(Tail(s))
    BY <1>1 DEF Distinct
  <1>3. Range(Tail(s)) \subseteq Range(s) \ {Head(s)}
    <2> SUFFICES ASSUME NEW i \in 1 .. Len(s) - 1
                 PROVE  s[i + 1] \in Range(s) /\ s[i + 1] # s[1]
      BY <1>1 DEF Range
    <2> QED
      BY <1>1 DEF Range, Distinct
  <1>4. Range(s) \ {Head(s)} \subseteq Range(Tail(s))
    <2> SUFFICES ASSUME NEW x \in Range(s), x # Head(s)
                 PROVE  x \in Range(Tail(s))
      OBVIOUS
    <2>1. PICK i \in 1 .. Len(s) : s[i] = x
      BY <1>1 DEF Range
    <2>2. i - 1 \in 1 .. Len(s) - 1 /\ Tail(s)[i - 1] = x
      BY <1>1, <2>1
    <2> QED
      BY <1>1, <2>2 DEF Range
  <1>5. Head(s) \in Range(s)
    BY <1>1 DEF Range
  <1> QED
    BY <1>2, <1>3, <1>4, <1>5

(* Two points of a list without repetitions differ in their symbols.       *)
LEMMA NamesTellApart ==
  ASSUME NEW s, Distinct(s), NEW p \in Range(s), NEW q \in Range(s), p.name = q.name
  PROVE  p = q
  BY DEF Distinct, Range

(* What Append does to the set of the points of a list.                    *)
LEMMA RangeOfAppend ==
  ASSUME NEW s \in Seq(Point), NEW point \in Point
  PROVE  Range(Append(s, point)) = Range(s) \union {point}
  <1>1. /\ Len(s) \in Nat /\ DOMAIN s = 1 .. Len(s)
        /\ DOMAIN Append(s, point) = 1 .. Len(s) + 1
        /\ \A i \in 1 .. Len(s) : Append(s, point)[i] = s[i]
        /\ Append(s, point)[Len(s) + 1] = point
    OBVIOUS
  <1>2. Len(s) + 1 \in DOMAIN Append(s, point)
    BY <1>1
  <1>3. \A i \in DOMAIN Append(s, point) : i \in DOMAIN s \/ i = Len(s) + 1
    BY <1>1
  <1>4. \A i \in DOMAIN s : i \in DOMAIN Append(s, point)
    BY <1>1
  <1> QED
    BY <1>1, <1>2, <1>3, <1>4 DEF Range

-----------------------------------------------------------------------------
(* Before setup every async point is fresh: no point is in both lists.     *)
LEMMA InitPoints ==
  ASSUME Init, Distinct(AsyncPoints)
  PROVE  PInv
  <1> USE DEF Init
  <1> Setup \in Threads /\ Close \in Threads
    BY DEF Threads
  <1>1. IInv
    BY InitIInv
  <1>2. \A point \in Range(AsyncPoints) : point \in Pending /\ Fresh(point)
    <2>1. Range(AsyncPoints) \subseteq Point
      BY PointsAssumption DEF Range
    <2> QED
      BY <2>1, PointsAssumption DEF Pending, Fresh, Point
  <1>3. PointsInv
    BY <1>2 DEF PointsInv
  <1>4. Subscribed = {}
    BY DEF Subscribed
  <1>5. HandlesInv
    BY <1>4 DEF HandlesInv, Handles, Accepted
  <1> QED
    BY <1>1, <1>3, <1>5 DEF PInv

(* What the setup of async points works on, and who else touches it.       *)
subscriptionVars == <<poll_read_points, failed_async_subscriptions, notification_handles, subs>>

(* A step of another job leaves all of it alone, and never goes back to a  *)
(* phase before the shutdown.                                              *)
Elsewhere ==
    /\ UNCHANGED subscriptionVars
    /\ pc'[Setup] = pc[Setup] /\ todo'[Setup] = todo[Setup]
    /\ pc'[Close] = "closing" => pc[Close] = "closing"
    /\ \/ phase' = phase
       \/ phase = "refresh" /\ phase' = "running"
       \/ phase' \in {"closing", "closed"}
    /\ outages' = outages /\ (up' = up \/ up')
    /\ faults # 0 => faults' # 0

LEMMA KeptElsewhere ==
  ASSUME PInv, IInv', Elsewhere
  PROVE  PInv'
  <1> USE DEF Elsewhere, subscriptionVars
  <1>1. Pending' = Pending /\ Accepted' = Accepted /\ Subscribed' = Subscribed
        /\ Handles' = Handles
    BY DEF Pending, Accepted, Subscribed, Handles
  <1>2. BeforeClose' => BeforeClose
    BY DEF BeforeClose
  <1>3. \A point : Fresh(point)' = Fresh(point) /\ DealtWith(point)' = DealtWith(point)
    BY DEF Fresh, DealtWith
  <1>4. PointsInv'
    BY <1>1, <1>2, <1>3 DEF PInv, PointsInv
  <1>5. HandlesInv'
    BY <1>1, <1>2 DEF PInv, HandlesInv
  <1> QED
    BY <1>4, <1>5 DEF PInv

-----------------------------------------------------------------------------
(* The point at the head of the list and those behind it.                  *)
LEMMA HeadOfPending ==
  ASSUME PInv, Distinct(AsyncPoints), todo[Setup] # <<>>,
         pc[Setup] \notin {"idle", "queued", "done", "ended"}
  PROVE  LET point == Head(todo[Setup])
         IN  /\ point \in Point /\ point \in Range(AsyncPoints)
             /\ phase = "subscribing" /\ BeforeClose
             /\ Distinct(Tail(todo[Setup]))
             /\ Range(Tail(todo[Setup])) = Range(todo[Setup]) \ {point}
             /\ point \in Range(todo[Setup])
             /\ \A q \in Range(AsyncPoints) \ {point} : q.name # point.name
  <1>1. todo[Setup] \in Seq(Point)
    BY DEF PInv, IInv, TypeOK, JobTypes
  <1>2. Distinct(todo[Setup]) /\ Range(todo[Setup]) \subseteq Range(AsyncPoints)
    BY DEF PInv, PointsInv
  <1>3. phase = "subscribing" /\ BeforeClose
    BY DEF PInv, IInv, PhaseInv, BeforeClose
  <1>4. Head(todo[Setup]) \in Point
    BY <1>1, HeadOfPoints
  <1> QED
    BY <1>1, <1>2, <1>3, <1>4, TailOfDistinct, NamesTellApart

(* A point that falls back to polling is dealt with, the others stay as    *)
(* they are (_register_poll_fallback).                                     *)
LEMMA FallBackDealsWith ==
  ASSUME PInv, Distinct(AsyncPoints), todo[Setup] # <<>>,
         pc[Setup] \in {"fallback", "subscribing"}, pc'[Setup] \in {"fallback", "held"},
         FallBackToPolling(Head(todo[Setup])), NextPoint(Setup),
         UNCHANGED <<phase, notification_handles>>
  PROVE  PointsInv'
  <1>0. PICK point : point = Head(todo[Setup])
    OBVIOUS
  <1>1. /\ point \in Point /\ point \in Range(AsyncPoints) /\ point \in Range(todo[Setup])
        /\ phase = "subscribing" /\ BeforeClose
        /\ Distinct(Tail(todo[Setup]))
        /\ Range(Tail(todo[Setup])) = Range(todo[Setup]) \ {point}
        /\ \A q \in Range(AsyncPoints) \ {point} : q.name # point.name
    BY <1>0, HeadOfPending
  <1>2. todo'[Setup] = Tail(todo[Setup])
    BY DEF NextPoint, PInv, IInv, TypeOK, JobTypes
  <1>3. Pending = Range(todo[Setup]) /\ Pending' = Pending \ {point}
    BY <1>1, <1>2 DEF Pending
  <1>4. Range(poll_read_points') = Range(poll_read_points) \union {point}
    BY <1>0, <1>1, RangeOfAppend DEF FallBackToPolling, PInv, IInv, TypeOK, CoordinatorTypes
  <1>5. Fresh(point)
    BY <1>1, <1>3 DEF PInv, PointsInv
  <1>6. DealtWith(point)'
    <2>1. notification_handles'[point.name] = NoHandle
      BY <1>5 DEF Fresh
    <2>2. point.name \in failed_async_subscriptions'
      BY <1>0 DEF FallBackToPolling
    <2>3. point \in Range(poll_read_points')
      BY <1>4
    <2> QED
      BY <2>1, <2>2, <2>3 DEF DealtWith
  <1>7. ASSUME NEW q \in Range(AsyncPoints), q # point
        PROVE  (Fresh(q) => Fresh(q)') /\ (DealtWith(q) => DealtWith(q)')
    BY <1>0, <1>1, <1>4, <1>7 DEF Fresh, DealtWith, FallBackToPolling
  <1>8. ASSUME NEW q \in Range(AsyncPoints)
        PROVE  (q \in Pending' => Fresh(q)') /\ (q \notin Pending' => DealtWith(q)')
    <2>1. CASE q = point
      BY <1>3, <1>6, <2>1
    <2>2. CASE q # point
      <3>1. (q \in Pending => Fresh(q)) /\ (q \notin Pending => DealtWith(q))
        BY <1>1 DEF PInv, PointsInv
      <3> QED
        BY <1>3, <1>7, <2>2, <3>1
    <2> QED
      BY <2>1, <2>2
  <1>9. Range(todo'[Setup]) \subseteq Range(AsyncPoints)
    BY <1>1, <1>2 DEF PInv, PointsInv
  <1> QED
    BY <1>1, <1>2, <1>8, <1>9 DEF PointsInv

(* A step of setup that changes neither handles nor subscriptions and      *)
(* keeps the points it has still to deal with.                             *)
LEMMA SetupKeepsPoints ==
  ASSUME PInv, UNCHANGED <<poll_read_points, failed_async_subscriptions, notification_handles>>,
         BeforeClose, Pending' = Pending,
         pc'[Setup] \notin {"idle", "queued"} =>
             Distinct(todo'[Setup]) /\ Range(todo'[Setup]) \subseteq Range(AsyncPoints),
         pc'[Setup] = "done" => todo'[Setup] = <<>>,
         phase' \in {"refresh", "running"} => pc'[Setup] = "ended" \/ AsyncPoints = <<>>
  PROVE  PointsInv'
  <1>1. ASSUME NEW q \in Range(AsyncPoints)
        PROVE  /\ q \in Pending' => Fresh(q)'
               /\ q \notin Pending' => DealtWith(q)'
    <2>1. (q \in Pending => Fresh(q)) /\ (q \notin Pending => DealtWith(q))
      BY DEF PInv, PointsInv
    <2>2. Fresh(q)' = Fresh(q) /\ DealtWith(q)' = DealtWith(q)
      BY DEF Fresh, DealtWith
    <2> QED
      BY <2>1, <2>2
  <1> QED
    BY <1>1 DEF PointsInv

(* Likewise for what the PLC serves.                                       *)
LEMMA SetupKeepsHandles ==
  ASSUME PInv, UNCHANGED <<notification_handles, subs, up, outages>>, BeforeClose,
         Accepted' = Accepted, pc'[Close] = pc[Close]
  PROVE  HandlesInv'
  <1>1. Subscribed' = Subscribed /\ Handles' = Handles
    BY DEF Subscribed, Handles
  <1> QED
    BY <1>1 DEF PInv, HandlesInv

(* The job of _setup_notifications deals with one async point after the    *)
(* other, whichever of its calls fail.                                     *)
LEMMA SetupPoints ==
  ASSUME PInv, Distinct(AsyncPoints), SetupJob
  PROVE  PInv'
  <1>0. IInv /\ IInv'
    BY SetupIInv DEF PInv
  <1> SUFFICES PointsInv' /\ HandlesInv'
    BY <1>0 DEF PInv
  <1> Setup \in Threads /\ Close \in Threads /\ Setup # Close
    BY ThreadsAssumption DEF Threads
  <1>a. PointsInv /\ HandlesInv /\ PhaseInv /\ ArgumentsInv
        /\ pc \in [Threads -> Labels] /\ todo \in [Pollers \union {Setup} -> Seq(Point)]
    BY <1>0 DEF PInv, IInv, TypeOK, JobTypes
  <1>b. pc[Setup] \notin {"idle", "ended"} => phase = "subscribing" /\ BeforeClose
    BY <1>a DEF PhaseInv, BeforeClose
  <1>1. CASE AsyncSetupNotifications
    <2> USE <1>1 DEF AsyncSetupNotifications, Goto, jobVars, coordinatorVars, plcVars, budgets
    <2>1. pc[Setup] = "idle" /\ pc'[Setup] \in {"idle", "queued"} /\ BeforeClose
          /\ pc'[Close] = pc[Close] /\ phase' # "running"
          /\ (phase' = "refresh" => AsyncPoints = <<>>)
      BY <1>a DEF PhaseInv, BeforeClose
    <2>2. Pending' = Pending /\ Accepted' = Accepted
      BY <2>1 DEF Pending, Accepted
    <2> QED
      BY <2>1, <2>2, SetupKeepsPoints, SetupKeepsHandles
  <1>2. CASE SetupAcquire
    <2> USE <1>2 DEF SetupAcquire, Goto, coordinatorVars, plcVars, budgets
    <2>1. pc[Setup] = "queued" /\ pc'[Setup] \in {"held", "fallback"} /\ BeforeClose
          /\ todo'[Setup] = AsyncPoints /\ pc'[Close] = pc[Close] /\ phase' = "subscribing"
      BY <1>a, <1>b
    <2>2. Pending' = Pending /\ Accepted' = Accepted
      BY <2>1 DEF Pending, Accepted
    <2> QED
      BY <2>1, <2>2, SetupKeepsPoints, SetupKeepsHandles
  <1>3. CASE SetupFallback
    <2> USE <1>3 DEF SetupFallback, NextPoint, plcVars, budgets
    <2>1. PointsInv'
      BY FallBackDealsWith
    <2>2. HandlesInv'
      BY <1>b, SetupKeepsHandles DEF Accepted
    <2> QED
      BY <2>1, <2>2
  <1>4. CASE Subscribe
    <2> USE <1>4 DEF Subscribe, Goto, jobVars, coordinatorVars, plcVars, budgets
    <2>1. pc[Setup] = "held" /\ pc'[Setup] = "subscribing" /\ BeforeClose
          /\ pc'[Close] = pc[Close] /\ phase' = "subscribing"
      BY <1>a, <1>b
    <2>2. Pending' = Pending /\ Accepted' = Accepted
      BY <2>1 DEF Pending, Accepted
    <2>3. Distinct(todo'[Setup]) /\ Range(todo'[Setup]) \subseteq Range(AsyncPoints)
      BY <1>a, <2>1 DEF PointsInv
    <2> QED
      BY <2>1, <2>2, <2>3, SetupKeepsPoints, SetupKeepsHandles
  <1>5. CASE SubscribeOk
    <2> USE <1>5 DEF SubscribeOk, Goto, jobVars, coordinatorVars, budgets
    <2>1. pc[Setup] = "subscribing" /\ pc'[Setup] = "subscribed" /\ BeforeClose
          /\ pc'[Close] = pc[Close] /\ phase' = "subscribing"
      BY <1>a, <1>b
    <2>2. Pending' = Pending
      BY <2>1 DEF Pending
    <2>3. Distinct(todo'[Setup]) /\ Range(todo'[Setup]) \subseteq Range(AsyncPoints)
      BY <1>a, <2>1 DEF PointsInv
    <2>4. Subscribed' = Subscribed /\ Handles' = Handles
      BY DEF Subscribed, Handles
    <2>5. Accepted = {} /\ Accepted' = {Head(todo[Setup])}
      BY <2>1 DEF Accepted
    <2>6. HandlesInv'
      BY <1>a, <2>1, <2>4, <2>5 DEF HandlesInv
    <2> QED
      BY <2>1, <2>2, <2>3, <2>6, SetupKeepsPoints
  <1>6. CASE SubscribeError
    <2> USE <1>6 DEF SubscribeError, Goto, NextPoint, AdsError, plcVars
    <2>1. pc[Setup] = "subscribing" /\ pc'[Setup] = "held" /\ BeforeClose
          /\ pc'[Close] = pc[Close] /\ todo[Setup] # <<>>
      BY <1>a, <1>b DEF ArgumentsInv
    <2>2. PointsInv'
      BY <2>1, FallBackDealsWith
    <2>3. HandlesInv'
      BY <2>1, SetupKeepsHandles DEF Accepted
    <2> QED
      BY <2>2, <2>3
  <1>7. CASE RegisterHandle
    <2> USE <1>7 DEF RegisterHandle, Goto, jobVars, plcVars, budgets
    <2>1. pc[Setup] = "subscribed" /\ pc'[Setup] = "reading" /\ BeforeClose
          /\ pc'[Close] = pc[Close] /\ phase' = "subscribing" /\ todo[Setup] # <<>>
          /\ pc[Close] = "idle"
      BY <1>a, <1>b DEF ArgumentsInv, PhaseInv
    <2>2. PICK point : point = Head(todo[Setup])
      OBVIOUS
    <2>3. /\ point \in Point /\ point \in Range(AsyncPoints) /\ point \in Range(todo[Setup])
          /\ \A q \in Range(AsyncPoints) \ {point} : q.name # point.name
      BY <2>1, <2>2, HeadOfPending
    <2>4. /\ notification_handles \in [Names -> Point \union {NoHandle}] /\ point.name \in Names
          /\ notification_handles' = [notification_handles EXCEPT ![point.name] = point]
          /\ point # NoHandle
      BY <1>0, <2>2, <2>3, MarkersAssumption DEF IInv, TypeOK, CoordinatorTypes, Point
    <2>5. Pending = Range(todo[Setup]) /\ Pending' = Pending \ {point}
      BY <2>1, <2>2 DEF Pending
    <2>6. Fresh(point)
      BY <1>a, <2>1, <2>3, <2>5 DEF PointsInv
    <2>7. DealtWith(point)'
      BY <2>4, <2>6 DEF Fresh, DealtWith
    <2>8. ASSUME NEW q \in Range(AsyncPoints)
          PROVE  (q \in Pending' => Fresh(q)') /\ (q \notin Pending' => DealtWith(q)')
      <3>1. CASE q = point
        BY <2>5, <2>7, <3>1
      <3>2. CASE q # point
        <4>1. (q \in Pending => Fresh(q)) /\ (q \notin Pending => DealtWith(q))
          BY <1>a, <2>1 DEF PointsInv
        <4>2. (Fresh(q) => Fresh(q)') /\ (DealtWith(q) => DealtWith(q)')
          BY <2>3, <2>4, <3>2 DEF Fresh, DealtWith
        <4> QED
          BY <2>5, <3>2, <4>1, <4>2
      <3> QED
        BY <3>1, <3>2
    <2>9. PointsInv'
      BY <1>a, <2>1, <2>8 DEF PointsInv
    <2>10. Subscribed' = Subscribed \union {point.name}
      BY <2>4 DEF Subscribed
    <2>11. Handles' = Handles \union {point}
      <3>1. point.name \notin Subscribed
        BY <2>6 DEF Fresh, Subscribed
      <3>2. \A n \in Subscribed : notification_handles'[n] = notification_handles[n]
        BY <2>4, <3>1 DEF Subscribed
      <3>3. notification_handles'[point.name] = point
        BY <2>4
      <3> QED
        BY <2>10, <3>2, <3>3 DEF Handles
    <2>12. Accepted = {point} /\ Accepted' = {}
      BY <2>1, <2>2 DEF Accepted
    <2>13. \A n \in Subscribed' : notification_handles'[n].name = n
      BY <1>a, <2>4, <2>10 DEF HandlesInv, Subscribed
    <2>14. HandlesInv'
      BY <1>a, <2>1, <2>11, <2>12, <2>13 DEF HandlesInv
    <2> QED
      BY <2>9, <2>14
  <1>8. CASE InitialRead
    <2> USE <1>8 DEF InitialRead, Goto, coordinatorVars, plcVars, budgets
    <2>1. pc[Setup] = "reading" /\ pc'[Setup] = "sampled" /\ BeforeClose
          /\ pc'[Close] = pc[Close] /\ phase' = "subscribing"
      BY <1>a, <1>b
    <2>2. Pending' = Pending /\ Accepted' = Accepted
      BY <2>1 DEF Pending, Accepted
    <2>3. Distinct(todo'[Setup]) /\ Range(todo'[Setup]) \subseteq Range(AsyncPoints)
      BY <1>a, <2>1 DEF PointsInv
    <2> QED
      BY <2>1, <2>2, <2>3, SetupKeepsPoints, SetupKeepsHandles
  <1>9. CASE InitialReadError \/ StoreInitialValue
    <2> USE <1>9 DEF InitialReadError, StoreInitialValue, AdsError, Goto, NextPoint,
                     coordinatorVars, plcVars, budgets
    <2>1. pc[Setup] \in {"reading", "sampled"} /\ pc'[Setup] = "held" /\ BeforeClose
          /\ pc'[Close] = pc[Close] /\ phase' = "subscribing" /\ todo[Setup] # <<>>
          /\ todo'[Setup] = Tail(todo[Setup])
      BY <1>a, <1>b DEF ArgumentsInv
    <2>2. /\ Distinct(Tail(todo[Setup]))
          /\ Range(Tail(todo[Setup])) = Range(todo[Setup]) \ {Head(todo[Setup])}
      BY <2>1, HeadOfPending
    <2>3. Pending' = Pending /\ Accepted' = Accepted
      BY <2>1, <2>2 DEF Pending, Accepted
    <2>4. Range(todo'[Setup]) \subseteq Range(AsyncPoints)
      BY <1>a, <2>1, <2>2 DEF PointsInv
    <2>5. PointsInv'
      BY <2>1, <2>2, <2>3, <2>4, SetupKeepsPoints
    <2>6. HandlesInv'
      BY <2>1, <2>3, SetupKeepsHandles
    <2> QED
      BY <2>5, <2>6
  <1>10. CASE SetupRelease
    <2> USE <1>10 DEF SetupRelease, Goto, jobVars, coordinatorVars, plcVars, budgets
    <2>1. pc[Setup] \in {"held", "fallback"} /\ pc'[Setup] = "done" /\ BeforeClose
          /\ pc'[Close] = pc[Close] /\ phase' = "subscribing" /\ todo[Setup] = <<>>
      BY <1>a, <1>b
    <2>2. Range(<<>>) = {}
      BY DEF Range
    <2>3. Pending' = Pending /\ Accepted' = Accepted
      BY <2>1, <2>2 DEF Pending, Accepted
    <2>4. Distinct(todo'[Setup]) /\ Range(todo'[Setup]) \subseteq Range(AsyncPoints)
      BY <1>a, <2>1 DEF PointsInv
    <2> QED
      BY <2>1, <2>3, <2>4, SetupKeepsPoints, SetupKeepsHandles
  <1>11. CASE SetupResume
    <2> USE <1>11 DEF SetupResume, Goto, jobVars, coordinatorVars, plcVars, budgets
    <2>1. pc[Setup] = "done" /\ pc'[Setup] = "ended" /\ BeforeClose
          /\ pc'[Close] = pc[Close] /\ phase' = "refresh"
      BY <1>a, <1>b
    <2>2. Pending' = Pending /\ Accepted' = Accepted
      BY <2>1 DEF Pending, Accepted
    <2>3. Distinct(todo'[Setup]) /\ Range(todo'[Setup]) \subseteq Range(AsyncPoints)
      BY <1>a, <2>1 DEF PointsInv
    <2> QED
      BY <2>1, <2>2, <2>3, SetupKeepsPoints, SetupKeepsHandles
  <1> QED
    BY <1>1, <1>2, <1>3, <1>4, <1>5, <1>6, <1>7, <1>8, <1>9, <1>10, <1>11 DEF SetupJob

-----------------------------------------------------------------------------
(* Refreshes and entity writes leave handles, subscriptions and the lists  *)
(* of points alone.                                                        *)
LEMMA PollsAndWritesElsewhere ==
  ASSUME IInv, NEW t \in Pollers \union Writers,
         \/ t \in Pollers /\ (StartPoll(t) \/ PollAcquire(t) \/ PollJob(t))
         \/ t \in Writers /\ (CallWrite(t) \/ WriteAcquire(t) \/ WriteJob(t))
  PROVE  Elsewhere
  <1> USE ThreadsAssumption
      DEF Threads, Elsewhere, subscriptionVars, Goto, NextPoint, AdsError, coordinatorVars,
          jobVars, plcVars, budgets
  <1>1. /\ t # Setup /\ t # Close /\ t \in Threads /\ Setup \in Threads /\ Close \in Threads
        /\ pc \in [Threads -> Labels] /\ todo \in [Pollers \union {Setup} -> Seq(Point)]
        /\ faults \in Nat
    BY BoundsAssumption DEF IInv, TypeOK, JobTypes, BudgetTypes
  <1>2. CASE t \in Pollers /\ (StartPoll(t) \/ PollAcquire(t) \/ PollRead(t))
    BY <1>1, <1>2 DEF StartPoll, PollAcquire, PollRead
  <1>3. CASE t \in Pollers /\ (PollReadOk(t) \/ PollReadAdsError(t) \/ PollReadOtherError(t))
    BY <1>1, <1>3 DEF PollReadOk, PollReadAdsError, PollReadOtherError
  <1>4. CASE t \in Pollers /\ (PollMerge(t) \/ PublishPoll(t) \/ PollFailed(t))
    BY <1>1, <1>4 DEF PollMerge, PublishPoll, PollFailed
  <1>5. CASE t \in Writers /\ (CallWrite(t) \/ WriteAcquire(t) \/ WriteOk(t))
    BY <1>1, <1>5 DEF CallWrite, WriteAcquire, WriteOk
  <1>6. CASE t \in Writers /\ (WriteError(t) \/ WriteReturns(t) \/ WriteFailed(t))
    BY <1>1, <1>6 DEF WriteError, WriteReturns, WriteFailed
  <1> QED
    BY <1>2, <1>3, <1>4, <1>5, <1>6 DEF PollJob, WriteJob

(* close_connection drops handle and subscription together, unless the     *)
(* call that would fails, and closes the port when no handle is left.      *)
LEMMA ClosePoints ==
  ASSUME PInv, UnloadEntry \/ CloseAcquire \/ CloseJob
  PROVE  PInv'
  <1>0. IInv /\ IInv'
    BY CloseIInv DEF PInv
  <1> SUFFICES PointsInv' /\ HandlesInv'
    BY <1>0 DEF PInv
  <1> Setup \in Threads /\ Close \in Threads /\ Setup # Close
    BY ThreadsAssumption DEF Threads
  <1>a. PointsInv /\ HandlesInv /\ PhaseInv
        /\ pc \in [Threads -> Labels] /\ faults \in Nat
        /\ notification_handles \in [Names -> Point \union {NoHandle}]
    BY <1>0, BoundsAssumption
       DEF PInv, IInv, TypeOK, JobTypes, CoordinatorTypes, BudgetTypes
  <1> USE DEF Goto, coordinatorVars, jobVars, plcVars, budgets
  <1>1. CASE UnloadEntry \/ CloseAcquire \/ ReleaseAcquire \/ Unsubscribe \/ CloseError
             \/ CloseReturns
    <2>1. Elsewhere
      BY <1>1, <1>a DEF UnloadEntry, CloseAcquire, ReleaseAcquire, Unsubscribe, CloseError,
                        CloseReturns, Elsewhere, subscriptionVars
    <2> QED
      BY <2>1, <1>0, KeptElsewhere DEF PInv
  <1>2. CASE CloseConnection
    <2> USE <1>2 DEF CloseConnection
    <2>1. Pending' = Pending /\ Accepted' = Accepted /\ Subscribed' = Subscribed
          /\ Handles' = Handles /\ ~BeforeClose /\ ~BeforeClose'
      BY <1>a DEF Pending, Accepted, Subscribed, Handles, PhaseInv, BeforeClose
    <2>2. PointsInv'
      BY <1>a, <2>1 DEF PointsInv, BeforeClose
    <2>3. HandlesInv'
      BY <1>a, <2>1 DEF HandlesInv
    <2> QED
      BY <2>2, <2>3
  <1>3. ASSUME NEW n \in Names, UnsubscribeEnd(n) PROVE PointsInv' /\ HandlesInv'
    <2> USE <1>3 DEF UnsubscribeEnd
    <2>1. /\ n \in Subscribed /\ ~BeforeClose /\ ~BeforeClose' /\ Accepted = {}
          /\ pc'[Setup] = pc[Setup] /\ pc'[Close] = "releasing"
      BY <1>a DEF PhaseInv, BeforeClose, Accepted
    <2>2. Accepted' = {}
      BY <2>1 DEF Accepted
    <2>3. PointsInv'
      BY <1>a, <2>1 DEF PointsInv, BeforeClose
    <2>4. Subscribed' = Subscribed \ {n}
          /\ \A m \in Subscribed' : notification_handles'[m] = notification_handles[m]
      BY <1>a DEF Subscribed
    <2>5. Handles' = Handles \ {notification_handles[n]}
      <3>1. \A m \in Subscribed : notification_handles[m] = notification_handles[n] => m = n
        BY <1>a, <2>1 DEF HandlesInv
      <3> QED
        BY <2>1, <2>4, <3>1 DEF Handles
    <2>6. outages' = 0 /\ faults' = 0 => outages = 0 /\ faults = 0
                                          /\ subs' = subs \ {notification_handles[n]}
      BY <1>a DEF AdsError, HandlesInv
    <2>7. outages' = 0 /\ faults' = 0 => subs' = Handles' \union Accepted'
      BY <1>a, <2>1, <2>2, <2>5, <2>6 DEF HandlesInv
    <2>8. ~up' => outages' # 0
      BY <1>a DEF AdsError, HandlesInv
    <2>9. \A m \in Subscribed' : notification_handles'[m].name = m
      BY <1>a, <2>4 DEF HandlesInv
    <2>10. HandlesInv'
      BY <2>1, <2>7, <2>8, <2>9 DEF HandlesInv
    <2> QED
      BY <2>3, <2>10
  <1>4. CASE CloseOk
    <2> USE <1>4 DEF CloseOk
    <2>1. Subscribed' = {} /\ Handles' = {} /\ Accepted' = {} /\ ~BeforeClose'
          /\ pc'[Setup] = pc[Setup] /\ pc'[Close] = "done"
      BY <1>a DEF HandlesInv, Subscribed, Handles, Accepted, PhaseInv, BeforeClose
    <2>2. PointsInv'
      BY <1>a, <2>1 DEF PointsInv, BeforeClose
    <2>3. HandlesInv'
      BY <1>a, <2>1 DEF HandlesInv
    <2> QED
      BY <2>2, <2>3
  <1> QED
    BY <1>1, <1>2, <1>3, <1>4 DEF CloseJob

(* Notifications are handled without touching the handles, and a restart   *)
(* of the PLC, which may lose every subscription, counts as an outage.     *)
LEMMA EnvironmentPoints ==
  ASSUME PInv, HandleNotificationUpdate \/ Environment \/ Unloaded \/ UNCHANGED vars
  PROVE  PInv'
  <1>0. IInv /\ IInv'
    BY LoopIInv, StutterIInv DEF PInv, Unloaded
  <1> USE DEF coordinatorVars, jobVars, plcVars, budgets
  <1>1. CASE PlcDown
    <2> USE <1>1 DEF PlcDown
    <2>1. outages' # 0
      BY <1>0, BoundsAssumption DEF IInv, TypeOK, BudgetTypes
    <2>2. Pending' = Pending /\ Subscribed' = Subscribed
      BY DEF Pending, Subscribed
    <2>3. \A point : Fresh(point)' = Fresh(point) /\ DealtWith(point)' = DealtWith(point)
      BY DEF Fresh, DealtWith
    <2>4. PointsInv'
      BY <2>2, <2>3 DEF PInv, PointsInv, BeforeClose
    <2>5. HandlesInv'
      BY <2>1, <2>2 DEF PInv, HandlesInv
    <2> QED
      BY <1>0, <2>4, <2>5 DEF PInv
  <1>2. CASE HandleNotificationUpdate \/ PlcUp
             \/ (\E point \in Point : Notify(point)) \/ (\E n \in Names : PlcChange(n))
    <2>1. Elsewhere
      BY <1>2 DEF HandleNotificationUpdate, PlcUp, Notify, PlcChange, Elsewhere,
                  subscriptionVars
    <2> QED
      BY <1>0, <2>1, KeptElsewhere
  <1>3. CASE Unloaded \/ UNCHANGED vars
    <2>1. Elsewhere
      BY <1>3 DEF Unloaded, vars, Elsewhere, subscriptionVars
    <2> QED
      BY <1>0, <2>1, KeptElsewhere
  <1> QED
    BY <1>1, <1>2, <1>3 DEF Environment

LEMMA PointsStep == Distinct(AsyncPoints) /\ PInv /\ [Next]_vars => PInv'
  <1> SUFFICES ASSUME Distinct(AsyncPoints), PInv, [Next]_vars PROVE PInv'
    OBVIOUS
  <1>0. IInv
    BY DEF PInv
  <1>1. CASE SetupJob
    BY <1>1, SetupPoints
  <1>2. ASSUME NEW p \in Pollers, StartPoll(p) \/ PollAcquire(p) \/ PollJob(p) PROVE PInv'
    BY <1>0, <1>2, PollIInv, PollsAndWritesElsewhere, KeptElsewhere
  <1>3. ASSUME NEW w \in Writers, CallWrite(w) \/ WriteAcquire(w) \/ WriteJob(w) PROVE PInv'
    BY <1>0, <1>3, WriteIInv, PollsAndWritesElsewhere, KeptElsewhere
  <1>4. CASE UnloadEntry \/ CloseAcquire \/ CloseJob
    BY <1>4, ClosePoints
  <1>5. CASE HandleNotificationUpdate \/ Environment \/ Unloaded \/ UNCHANGED vars
    BY <1>5, EnvironmentPoints
  <1> QED
    BY <1>1, <1>2, <1>3, <1>4, <1>5 DEF Next

(* What _setup_notifications, the refreshes, the writes and the shutdown   *)
(* keep true of handles, subscriptions and lists, in any interleaving.     *)
THEOREM PointsInvariance ==
  ASSUME Distinct(AsyncPoints)
  PROVE  Spec => []PInv
  <1>1. Init => PInv
    BY InitPoints
  <1>2. PInv /\ [Next]_vars => PInv'
    BY PointsStep
  <1> QED
    BY <1>1, <1>2, PTL DEF Spec

-----------------------------------------------------------------------------
(* coordinator.py:147-211: whichever of the subscriptions fail, and with   *)
(* or without the notification API, an async point of a running entry has  *)
(* a handle or is polled and counted as failed, and never both.            *)
THEOREM AsyncServed ==
  ASSUME Distinct(AsyncPoints)
  PROVE  Spec => []AsyncPointsServed
  <1>1. PInv => AsyncPointsServed
    <2> SUFFICES ASSUME PInv, phase \in {"refresh", "running"},
                        NEW point \in Range(AsyncPoints)
                 PROVE  DealtWith(point)
      BY DEF AsyncPointsServed, DealtWith
    <2>1. AsyncPoints # <<>>
      BY DEF Range
    <2>2. point \notin Pending
      BY <2>1 DEF PInv, PointsInv, Pending
    <2> QED
      BY <2>2 DEF PInv, PointsInv, BeforeClose
  <1> QED
    BY <1>1, PointsInvariance, PTL

(* As long as the PLC is not away, notification_handles of a running entry *)
(* holds just the subscriptions the PLC serves.                            *)
THEOREM HandlesMatch ==
  ASSUME Distinct(AsyncPoints)
  PROVE  Spec => []HandlesMatchPlc
  <1>1. PInv => HandlesMatchPlc
    BY ThreadsAssumption
       DEF PInv, IInv, PhaseInv, HandlesInv, HandlesMatchPlc, BeforeClose, Accepted, Handles
  <1> QED
    BY <1>1, PointsInvariance, PTL

(* coordinator.py:345-384: plc.close() is called when every handle has     *)
(* been released; the PLC then serves no subscription, unless it was away  *)
(* or a call failed.                                                       *)
THEOREM Released ==
  ASSUME Distinct(AsyncPoints)
  PROVE  Spec => []ReleasedBeforeClose
  <1>1. PInv => ReleasedBeforeClose
    <2> SUFFICES ASSUME PInv, pc[Close] = "closing"
                 PROVE  Subscribed = {} /\ (outages = 0 /\ faults = 0 => subs = {})
      BY DEF ReleasedBeforeClose
    <2>1. Subscribed = {} /\ Handles = {}
      BY DEF PInv, HandlesInv, Handles
    <2>2. Accepted = {}
      BY DEF PInv, IInv, PhaseInv, Accepted
    <2> QED
      BY <2>1, <2>2 DEF PInv, HandlesInv
  <1> QED
    BY <1>1, PointsInvariance, PTL
=============================================================================
