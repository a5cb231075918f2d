-------------------------- MODULE PlcMonitorProofs --------------------------
(***************************************************************************)
(* Theorems about PlcMonitor, for every group of variables, every set of   *)
(* values and states and all bounds.                                       *)
(***************************************************************************)
EXTENDS PlcMonitor, SequenceTheorems, TLAPS

(* The lock is owned by the thread that is in a call, and by no other.     *)
LockInv == \A t \in Threads : lock = t <=> pc[t] = "reading"

(* In a call, and before it, there is a variable to read; after the last   *)
(* one there is none.                                                      *)
RoundInv ==
    /\ pc[Publisher] \in {"queued", "reading"} => todo # <<>>
    /\ pc[Publisher] = "sampled" => todo = <<>>

(* The connection is open until main closes it.                            *)
OpenInv == main = "running" => open

(* What a strict round has read so far is there.                           *)
ReadInv ==
    open /\ ~allow_partial /\ pc[Publisher] \in {"queued", "reading", "sampled"}
        => \A n \in Names : n \notin Range(todo) => values[n] # None

IInv == TypeOK /\ LockInv /\ RoundInv /\ OpenInv /\ ReadInv /\ StrictWhole

-----------------------------------------------------------------------------
(* What is left of a list after its head.                                  *)
LEMMA Rest ==
  ASSUME NEW S, NEW s \in Seq(S), s # <<>>
  PROVE  /\ Head(s) \in S /\ Tail(s) \in Seq(S)
         /\ Range(s) \subseteq Range(Tail(s)) \union {Head(s)}
         /\ Len(s) = 1 <=> Tail(s) = <<>>
  <1>1. Head(s) \in S /\ Tail(s) \in Seq(S)
    OBVIOUS
  <1>2. Len(s) = 1 <=> Tail(s) = <<>>
    <2>1. Len(Tail(s)) = Len(s) - 1 /\ Len(s) \in Nat
      OBVIOUS
    <2>2. Tail(s) # <<>> => Len(Tail(s)) \in Nat \ {0}
      BY <1>1, EmptySeq, Zenon
    <2>3. Tail(s) = <<>> => Len(Tail(s)) = 0
      BY EmptySeq, Zenon
    <2> QED
      BY <2>1, <2>2, <2>3
  <1>3. ASSUME NEW x \in Range(s)
        PROVE  x \in Range(Tail(s)) \union {Head(s)}
    <2>1. PICK i \in 1 .. Len(s) : x = s[i]
      BY <1>3 DEF Range
    <2>2. CASE i = 1
      BY <2>1, <2>2
    <2>3. CASE i # 1
      <3>1. i - 1 \in 1 .. Len(Tail(s)) /\ Tail(s)[i - 1] = x
        BY <2>1, <2>3
      <3>2. DOMAIN Tail(s) = 1 .. Len(Tail(s))
        BY <1>1, LenProperties, Zenon
      <3> QED
        BY <3>1, <3>2 DEF Range
    <2> QED
      BY <2>2, <2>3
  <1> QED
    BY <1>1, <1>2, <1>3

(* Before the first read of a round there is a value for every name: None. *)
LEMMA UnreadPayload == Unread \in Payload
  BY DEF Unread, Payload

-----------------------------------------------------------------------------
(* The threads have just been started.                                     *)
LEMMA InitIInv == Init => IInv
  <1> SUFFICES ASSUME Init PROVE IInv
    OBVIOUS
  <1> USE MonitorAssumption DEF Init, Threads
  <1>0. <<>> \in Seq(Names)
    BY EmptySeq, Zenon
  <1>1. TypeOK
    <2>1. Unread \in Payload
      BY UnreadPayload
    <2>2. main \in {"running"} /\ pc \in [Threads -> Steps] /\ lock \in Threads \union {Nobody}
      BY DEF Steps
    <2>3. /\ values \in Payload /\ todo \in Seq(Names)
          /\ last_values \in Payload \union {None} /\ topic \in Payload \union {None}
      BY <1>0, <2>1
    <2>4. changes \in 0 .. MaxChanges /\ faults \in 0 .. MaxFaults
          /\ refused \in 0 .. MaxRefused /\ lost \in 0 .. MaxLost
      OBVIOUS
    <2> QED
      BY <2>2, <2>3, <2>4 DEF TypeOK
  <1>2. LockInv /\ RoundInv /\ OpenInv /\ ReadInv /\ StrictWhole
    BY DEF LockInv, RoundInv, OpenInv, ReadInv, StrictWhole
  <1> QED
    BY <1>1, <1>2 DEF IInv

(* Taking the lock.                                                        *)
LEMMA AcquireIInv ==
  ASSUME IInv, NEW t \in Threads, Acquire(t)
  PROVE  IInv'
  <1> USE MonitorAssumption DEF IInv, Acquire, Goto, Threads, mainVars, stateVars, groupVars,
          givenVars, budgets
  <1>1. TypeOK'
    BY DEF TypeOK, Steps
  <1>2. LockInv'
    BY DEF LockInv, TypeOK
  <1>3. RoundInv'
    BY DEF RoundInv, TypeOK
  <1>4. OpenInv' /\ StrictWhole'
    BY DEF OpenInv, StrictWhole
  <1>5. ReadInv'
    BY DEF ReadInv, TypeOK
  <1> QED
    BY <1>1, <1>2, <1>3, <1>4, <1>5

(* The polling thread: its calls and its callback.                         *)
LEMMA PollIInv ==
  ASSUME IInv, PollLoop
  PROVE  IInv'
  <1> USE MonitorAssumption DEF IInv, Threads
  <1>1. CASE PollState
    <2> USE <1>1 DEF PollState, Goto, mainVars, stateVars, groupVars, givenVars, budgets
    <2>1. TypeOK'
      BY DEF TypeOK, Steps
    <2>2. LockInv'
      BY DEF LockInv, TypeOK
    <2>3. RoundInv'
      BY DEF RoundInv, TypeOK
    <2>4. OpenInv' /\ StrictWhole'
      BY DEF OpenInv, StrictWhole
    <2>5. ReadInv'
      BY DEF ReadInv, TypeOK
    <2> QED
      BY <2>1, <2>2, <2>3, <2>4, <2>5
  <1>2. CASE StateRead
    <2> USE <1>2 DEF StateRead, Goto, mainVars, stateVars, groupVars, givenVars, budgets,
          Answer, Release
    <2>1. TypeOK'
      BY DEF TypeOK, Steps
    <2>2. LockInv'
      BY DEF LockInv, TypeOK
    <2>3. RoundInv'
      BY DEF RoundInv, TypeOK
    <2>4. OpenInv' /\ StrictWhole'
      BY DEF OpenInv, StrictWhole
    <2>5. ReadInv'
      BY DEF ReadInv, TypeOK
    <2> QED
      BY <2>1, <2>2, <2>3, <2>4, <2>5
  <1>3. CASE StateError
    <2> USE <1>3 DEF StateError, Goto, mainVars, stateVars, groupVars, givenVars, budgets,
          AdsError, Release
    <2>1. TypeOK'
      BY DEF TypeOK, Steps
    <2>2. LockInv'
      BY DEF LockInv, TypeOK
    <2>3. RoundInv'
      BY DEF RoundInv, TypeOK
    <2>4. OpenInv' /\ StrictWhole'
      BY DEF OpenInv, StrictWhole
    <2>5. ReadInv'
      BY DEF ReadInv, TypeOK
    <2> QED
      BY <2>1, <2>2, <2>3, <2>4, <2>5
  <1>4. CASE StateChange
    <2> USE <1>4 DEF StateChange, Goto, mainVars, stateVars, groupVars, givenVars, budgets
    <2>1. TypeOK'
      BY DEF TypeOK, Steps
    <2>2. LockInv'
      BY DEF LockInv, TypeOK
    <2>3. RoundInv'
      BY DEF RoundInv, TypeOK
    <2>4. OpenInv' /\ StrictWhole'
      BY DEF OpenInv, StrictWhole
    <2>5. ReadInv'
      BY DEF ReadInv, TypeOK
    <2> QED
      BY <2>1, <2>2, <2>3, <2>4, <2>5
  <1> QED
    BY <1>1, <1>2, <1>3, <1>4 DEF PollLoop

(* The publisher: its reads and its publications.                          *)
LEMMA PublishIInv ==
  ASSUME IInv, PublishLoop \/ PublishRefused \/ PublishLost
  PROVE  IInv'
  <1> USE MonitorAssumption DEF IInv, Threads
  <1>1. CASE StartRound
    <2> USE <1>1 DEF StartRound, Goto, mainVars, stateVars, groupVars, givenVars, budgets
    <2>0. <<>> \in Seq(Names)
      BY EmptySeq, Zenon
    <2>1. TypeOK'
      <3>1. values' \in Payload /\ todo' \in Seq(Names) /\ pc' \in [Threads -> Steps]
        BY <2>0, UnreadPayload DEF TypeOK, Steps
      <3> QED
        BY <3>1 DEF TypeOK
    <2>2. LockInv'
      BY DEF LockInv, TypeOK
    <2>3. RoundInv'
      BY DEF RoundInv, TypeOK
    <2>4. OpenInv' /\ StrictWhole'
      BY DEF OpenInv, StrictWhole
    <2>5. ReadInv'
      <3>1. CASE stop_event
        BY <3>1 DEF ReadInv, TypeOK
      <3>2. CASE ~stop_event
        BY <3>2 DEF ReadInv, Names
      <3> QED
        BY <3>1, <3>2
    <2> QED
      BY <2>1, <2>2, <2>3, <2>4, <2>5
  <1>2. CASE VariableRead
    <2> USE <1>2 DEF VariableRead, Goto, mainVars, stateVars, groupVars, givenVars, budgets,
          Answer, Release, NextVariable
    <2>0. /\ Head(todo) \in Names /\ Tail(todo) \in Seq(Names)
          /\ Range(todo) \subseteq Range(Tail(todo)) \union {Head(todo)}
          /\ Len(todo) = 1 <=> Tail(todo) = <<>>
      BY Rest DEF TypeOK, RoundInv
    <2>1. TypeOK'
      BY <2>0 DEF TypeOK, Steps, Payload
    <2>2. LockInv'
      BY DEF LockInv, TypeOK
    <2>3. RoundInv'
      BY <2>0 DEF RoundInv, TypeOK
    <2>4. OpenInv' /\ StrictWhole'
      BY DEF OpenInv, StrictWhole
    <2>5. ReadInv'
      BY <2>0 DEF ReadInv, TypeOK, Payload
    <2> QED
      BY <2>1, <2>2, <2>3, <2>4, <2>5
  <1>3. CASE VariableError
    <2> USE <1>3 DEF VariableError, Goto, mainVars, stateVars, groupVars, givenVars, budgets,
          AdsError, Release, NextVariable
    <2>0. /\ Head(todo) \in Names /\ Tail(todo) \in Seq(Names)
          /\ Range(todo) \subseteq Range(Tail(todo)) \union {Head(todo)}
          /\ Len(todo) = 1 <=> Tail(todo) = <<>>
      BY Rest DEF TypeOK, RoundInv
    <2>1. TypeOK'
      <3>1. <<>> \in Seq(Names)
        BY EmptySeq, Zenon
      <3>2. values' \in Payload /\ todo' \in Seq(Names) /\ pc' \in [Threads -> Steps]
        BY <2>0, <3>1, UnreadPayload DEF TypeOK, Steps
      <3>3. faults' \in 0 .. MaxFaults
        BY DEF TypeOK
      <3> QED
        BY <3>2, <3>3 DEF TypeOK
    <2>2. LockInv'
      BY DEF LockInv, TypeOK
    <2>3. RoundInv'
      BY <2>0 DEF RoundInv, TypeOK
    <2>4. OpenInv' /\ StrictWhole'
      BY DEF OpenInv, StrictWhole
    <2>5. ReadInv'
      BY <2>0 DEF ReadInv, TypeOK
    <2> QED
      BY <2>1, <2>2, <2>3, <2>4, <2>5
  <1>4. CASE SkipPublication
    <2> USE <1>4 DEF SkipPublication, Goto, mainVars, stateVars, groupVars, givenVars, budgets,
          Unchanged
    <2>1. TypeOK'
      BY DEF TypeOK, Steps
    <2>2. LockInv'
      BY DEF LockInv, TypeOK
    <2>3. RoundInv'
      BY DEF RoundInv, TypeOK
    <2>4. OpenInv' /\ StrictWhole'
      BY DEF OpenInv, StrictWhole
    <2>5. ReadInv'
      BY DEF ReadInv, TypeOK
    <2> QED
      BY <2>1, <2>2, <2>3, <2>4, <2>5
  <1>5. CASE Publish
    <2> USE <1>5 DEF Publish, Goto, mainVars, stateVars, groupVars, givenVars, budgets,
          Unchanged
    <2>1. TypeOK'
      BY DEF TypeOK, Steps
    <2>2. LockInv'
      BY DEF LockInv, TypeOK
    <2>3. RoundInv'
      BY DEF RoundInv, TypeOK
    <2>4. OpenInv' /\ StrictWhole'
      BY DEF OpenInv, StrictWhole, ReadInv, RoundInv, Range
    <2>5. ReadInv'
      BY DEF ReadInv, TypeOK
    <2> QED
      BY <2>1, <2>2, <2>3, <2>4, <2>5
  <1>6. CASE PublishRefused
    <2> USE <1>6 DEF PublishRefused, Goto, mainVars, stateVars, groupVars, givenVars, budgets,
          Unchanged
    <2>1. TypeOK'
      BY DEF TypeOK, Steps
    <2>2. LockInv'
      BY DEF LockInv, TypeOK
    <2>3. RoundInv'
      BY DEF RoundInv, TypeOK
    <2>4. OpenInv' /\ StrictWhole'
      BY DEF OpenInv, StrictWhole
    <2>5. ReadInv'
      BY DEF ReadInv, TypeOK
    <2> QED
      BY <2>1, <2>2, <2>3, <2>4, <2>5
  <1>7. CASE PublishLost
    <2> USE <1>7 DEF PublishLost, Goto, mainVars, stateVars, groupVars, givenVars, budgets,
          Unchanged
    <2>1. TypeOK'
      BY DEF TypeOK, Steps
    <2>2. LockInv'
      BY DEF LockInv, TypeOK
    <2>3. RoundInv'
      BY DEF RoundInv, TypeOK
    <2>4. OpenInv' /\ StrictWhole'
      BY DEF OpenInv, StrictWhole
    <2>5. ReadInv'
      BY DEF ReadInv, TypeOK
    <2> QED
      BY <2>1, <2>2, <2>3, <2>4, <2>5
  <1> QED
    BY <1>1, <1>2, <1>3, <1>4, <1>5, <1>6, <1>7 DEF PublishLoop

(* The main thread: from quitting to the end.                              *)
LEMMA MainIInv ==
  ASSUME IInv, Quit \/ Shutdown \/ Ended
  PROVE  IInv'
  <1> USE MonitorAssumption DEF IInv, Threads
  <1>1. CASE Quit
    <2> USE <1>1 DEF Quit, Goto, mainVars, stateVars, groupVars, givenVars, budgets
    <2>1. TypeOK'
      BY DEF TypeOK, Steps
    <2>2. LockInv'
      BY DEF LockInv, TypeOK
    <2>3. RoundInv'
      BY DEF RoundInv, TypeOK
    <2>4. OpenInv' /\ StrictWhole'
      BY DEF OpenInv, StrictWhole
    <2>5. ReadInv'
      BY DEF ReadInv, TypeOK
    <2> QED
      BY <2>1, <2>2, <2>3, <2>4, <2>5
  <1>2. CASE StopPolling
    <2> USE <1>2 DEF StopPolling, Goto, mainVars, stateVars, groupVars, givenVars, budgets
    <2>1. TypeOK'
      BY DEF TypeOK, Steps
    <2>2. LockInv'
      BY DEF LockInv, TypeOK
    <2>3. RoundInv'
      BY DEF RoundInv, TypeOK
    <2>4. OpenInv' /\ StrictWhole'
      BY DEF OpenInv, StrictWhole
    <2>5. ReadInv'
      BY DEF ReadInv, TypeOK
    <2> QED
      BY <2>1, <2>2, <2>3, <2>4, <2>5
  <1>3. CASE CloseConnection
    <2> USE <1>3 DEF CloseConnection, Goto, mainVars, stateVars, groupVars, givenVars, budgets
    <2>1. TypeOK'
      BY DEF TypeOK, Steps
    <2>2. LockInv'
      BY DEF LockInv, TypeOK
    <2>3. RoundInv'
      BY DEF RoundInv, TypeOK
    <2>4. OpenInv' /\ StrictWhole'
      BY DEF OpenInv, StrictWhole
    <2>5. ReadInv'
      BY DEF ReadInv, TypeOK
    <2> QED
      BY <2>1, <2>2, <2>3, <2>4, <2>5
  <1>4. CASE Disconnect
    <2> USE <1>4 DEF Disconnect, Goto, mainVars, stateVars, groupVars, givenVars, budgets
    <2>1. TypeOK'
      BY DEF TypeOK, Steps
    <2>2. LockInv'
      BY DEF LockInv, TypeOK
    <2>3. RoundInv'
      BY DEF RoundInv, TypeOK
    <2>4. OpenInv' /\ StrictWhole'
      BY DEF OpenInv, StrictWhole
    <2>5. ReadInv'
      BY DEF ReadInv, TypeOK
    <2> QED
      BY <2>1, <2>2, <2>3, <2>4, <2>5
  <1>5. CASE Ended
    <2> USE <1>5 DEF Ended, Goto, mainVars, stateVars, groupVars, givenVars, budgets, vars
    <2>1. TypeOK'
      BY DEF TypeOK, Steps
    <2>2. LockInv'
      BY DEF LockInv, TypeOK
    <2>3. RoundInv'
      BY DEF RoundInv, TypeOK
    <2>4. OpenInv' /\ StrictWhole'
      BY DEF OpenInv, StrictWhole
    <2>5. ReadInv'
      BY DEF ReadInv, TypeOK
    <2> QED
      BY <2>1, <2>2, <2>3, <2>4, <2>5
  <1> QED
    BY <1>1, <1>2, <1>3, <1>4, <1>5 DEF Shutdown

(* The PLC and the link to it.                                             *)
LEMMA PlcIInv ==
  ASSUME IInv, PlcChange \/ PlcLink
  PROVE  IInv'
  <1> USE MonitorAssumption DEF IInv, Threads
  <1>1. CASE PlcChange
    <2> USE <1>1 DEF PlcChange, Goto, mainVars, stateVars, groupVars, givenVars, budgets
    <2>1. TypeOK'
      BY DEF TypeOK, Steps
    <2>2. LockInv'
      BY DEF LockInv, TypeOK
    <2>3. RoundInv'
      BY DEF RoundInv, TypeOK
    <2>4. OpenInv' /\ StrictWhole'
      BY DEF OpenInv, StrictWhole
    <2>5. ReadInv'
      BY DEF ReadInv, TypeOK
    <2> QED
      BY <2>1, <2>2, <2>3, <2>4, <2>5
  <1>2. CASE PlcLink
    <2> USE <1>2 DEF PlcLink, Goto, mainVars, stateVars, groupVars, givenVars, budgets
    <2>1. TypeOK'
      BY DEF TypeOK, Steps
    <2>2. LockInv'
      BY DEF LockInv, TypeOK
    <2>3. RoundInv'
      BY DEF RoundInv, TypeOK
    <2>4. OpenInv' /\ StrictWhole'
      BY DEF OpenInv, StrictWhole
    <2>5. ReadInv'
      BY DEF ReadInv, TypeOK
    <2> QED
      BY <2>1, <2>2, <2>3, <2>4, <2>5
  <1> QED
    BY <1>1, <1>2

(* Every step preserves the invariant.                                     *)
LEMMA NextIInv == IInv /\ [Next]_vars => IInv'
  <1> SUFFICES ASSUME IInv, [Next]_vars PROVE IInv'
    OBVIOUS
  <1>1. CASE UNCHANGED vars
    BY <1>1, MainIInv DEF Ended, vars, IInv, TypeOK, LockInv, RoundInv, OpenInv, ReadInv,
       StrictWhole, mainVars, stateVars, groupVars, givenVars, budgets
  <1>2. CASE Next
    BY <1>2, AcquireIInv, PollIInv, PublishIInv, MainIInv, PlcIInv DEF Next
  <1> QED
    BY <1>1, <1>2

(* The strengthened invariant holds in every behaviour.                    *)
THEOREM InductiveInvariant == Spec => []IInv
  BY InitIInv, NextIInv, PTL DEF Spec

-----------------------------------------------------------------------------
(* Every variable of the monitor keeps its type.                           *)
THEOREM TypeCorrect == Spec => []TypeOK
  <1>1. IInv => TypeOK
    BY DEF IInv
  <1> QED
    BY <1>1, InductiveInvariant, PTL

(* Whatever calls fail and however the shutdown goes, poller and publisher *)
(* are never both in a call of the connection.                             *)
THEOREM Locked == Spec => []CallsLocked
  <1>1. IInv => CallsLocked
    BY DEF IInv, LockInv, CallsLocked
  <1> QED
    BY <1>1, InductiveInvariant, PTL

(* A strict group of any variables is published whole until the user       *)
(* quits, whichever of its reads fail.                                     *)
THEOREM Whole == Spec => []StrictWhole
  <1>1. IInv => StrictWhole
    BY DEF IInv
  <1> QED
    BY <1>1, InductiveInvariant, PTL
=============================================================================
