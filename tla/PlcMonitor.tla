----------------------------- MODULE PlcMonitor -----------------------------
(***************************************************************************)
(* pyAdsTest: one PLCConnection, its thread that polls the PLC's state,    *)
(* a VariableGroupPublisher that reads a group of variables and publishes  *)
(* the changed ones over MQTT, and the main thread that shuts both down.   *)
(*                                                                         *)
(* A step is a piece of a thread between two points where another may run: *)
(* waiting for the interval, for the lock, the end of a pyads call, a      *)
(* publication.                                                            *)
(***************************************************************************)
EXTENDS Naturals, Sequences, Functions

CONSTANTS
    Variables,              \* the variables of the group, in order
    Values, States,         \* what a variable holds, what state a PLC is in
    Poller, Publisher,      \* the two threads
    Nobody, None,           \* the owner of a free lock; Python's None
    MaxChanges, MaxFaults, MaxRefused, MaxLost     \* bounds on the environment

Threads == {Poller, Publisher}
Names == Range(Variables)

ASSUME MonitorAssumption ==
    /\ Poller # Publisher /\ Nobody \notin Threads
    /\ None \notin Values \union States
    /\ Variables \in Seq(Names) /\ Variables # <<>>
    /\ MaxChanges \in Nat /\ MaxFaults \in Nat /\ MaxRefused \in Nat /\ MaxLost \in Nat

VARIABLES
    main,                   \* what the main thread does
    pc,                     \* what the two threads do
    stop_event,             \* of app.py, for everything but state polling
    polling_stopped,        \* _stop_event of the connection
    lock, open,             \* the connection
    current_state, last_state,  \* of the polling loop
    allow_partial, values, todo, last_values,   \* of the publisher
    reported, topic,        \* what the callback was told; the retained payload
    plc, plc_state, up,     \* the PLC
    changes, faults, refused, lost

mainVars == <<main, stop_event, polling_stopped, open>>
stateVars == <<current_state, last_state, reported>>
groupVars == <<values, todo, last_values, topic>>
givenVars == <<allow_partial, plc, plc_state, up>>      \* the threads only read them
budgets == <<changes, faults, refused, lost>>
vars == <<mainVars, pc, lock, stateVars, groupVars, givenVars, budgets>>

Payload == [Names -> Values \union {None}]
Steps == {"waiting", "queued", "reading", "sampled", "ended"}

(* Every variable has its type. *)
TypeOK ==
    /\ main \in {"running", "joining", "stopping", "disconnecting", "ended"}
    /\ pc \in [Threads -> Steps]
    /\ stop_event \in BOOLEAN /\ polling_stopped \in BOOLEAN
    /\ lock \in Threads \union {Nobody} /\ open \in BOOLEAN
    /\ current_state \in States \union {None} /\ last_state \in States \union {None}
    /\ allow_partial \in BOOLEAN
    /\ values \in Payload /\ todo \in Seq(Names)
    /\ last_values \in Payload \union {None}
    /\ reported \in States \union {None} /\ topic \in Payload \union {None}
    /\ plc \in [Names -> Values] /\ plc_state \in States /\ up \in BOOLEAN
    /\ changes \in 0 .. MaxChanges /\ faults \in 0 .. MaxFaults
    /\ refused \in 0 .. MaxRefused /\ lost \in 0 .. MaxLost

Unread == [n \in Names |-> None]

(* main has opened the connection and started both threads. *)
Init ==
    /\ main = "running"
    /\ pc = [t \in Threads |-> "waiting"]
    /\ stop_event = FALSE /\ polling_stopped = FALSE
    /\ lock = Nobody /\ open = TRUE
    /\ current_state = None /\ last_state = None /\ reported = None
    /\ allow_partial \in BOOLEAN
    /\ values = Unread /\ todo = <<>> /\ last_values = None /\ topic = None
    /\ plc \in [Names -> Values] /\ plc_state \in States /\ up = TRUE
    /\ changes = 0 /\ faults = 0 /\ refused = 0 /\ lost = 0

-----------------------------------------------------------------------------
Goto(t, label) == pc' = [pc EXCEPT ![t] = label]

(* Threads are daemons: they run until the process ends. *)
Alive == main # "ended"

(* Mutant: the call does not wait for the lock. *)
AcquireUnchecked(t) ==
    /\ Alive /\ pc[t] = "queued"
    /\ lock' = t
    /\ Goto(t, "reading")
    /\ UNCHANGED <<mainVars, stateVars, groupVars, givenVars, budgets>>

(* poll_state, poll_variable: "with self._lock", then the pyads call. *)
Acquire(t) ==
    /\ Alive /\ pc[t] = "queued" /\ lock = Nobody
    /\ lock' = t
    /\ Goto(t, "reading")
    /\ UNCHANGED <<mainVars, stateVars, groupVars, givenVars, budgets>>

Release(t) == lock' = IF lock = t THEN Nobody ELSE lock

(* A call fails while the PLC is away, now and then although it is there,  *)
(* and when the port is closed under it.                                   *)
AdsError ==
    /\ ~up \/ ~open \/ faults < MaxFaults
    /\ faults' = IF up /\ open THEN faults + 1 ELSE faults
    /\ UNCHANGED <<changes, refused, lost>>

(* pyads reads None, without an error, once the port is closed. *)
Answer(value) == IF open THEN value ELSE None
Answers == up \/ ~open

-----------------------------------------------------------------------------
(* _poll_loop: the interval is over or the event is set. *)
PollState ==
    /\ Alive /\ pc[Poller] = "waiting"
    /\ Goto(Poller, IF polling_stopped THEN "ended" ELSE "queued")
    /\ UNCHANGED <<mainVars, lock, stateVars, groupVars, givenVars, budgets>>

StateRead ==
    /\ Alive /\ pc[Poller] = "reading" /\ Answers
    /\ current_state' = Answer(plc_state)
    /\ Release(Poller)
    /\ Goto(Poller, "sampled")
    /\ UNCHANGED <<mainVars, last_state, reported, groupVars, givenVars, budgets>>

StateError ==
    /\ Alive /\ pc[Poller] = "reading"
    /\ AdsError
    /\ Release(Poller)
    /\ Goto(Poller, "waiting")
    /\ UNCHANGED <<mainVars, stateVars, groupVars, givenVars>>

(* Mutant: the first state is only remembered. *)
StateChangeAfterFirst ==
    /\ Alive /\ pc[Poller] = "sampled"
    /\ reported' = IF last_state # None /\ current_state # last_state
                   THEN current_state ELSE reported
    /\ last_state' = current_state
    /\ Goto(Poller, "waiting")
    /\ UNCHANGED <<mainVars, lock, current_state, groupVars, givenVars, budgets>>

(* The callback is called for the first state and for every other one, it  *)
(* prints the change.                                                      *)
StateChange ==
    /\ Alive /\ pc[Poller] = "sampled"
    /\ reported' = IF last_state = None \/ current_state # last_state
                   THEN current_state ELSE reported
    /\ last_state' = current_state
    /\ Goto(Poller, "waiting")
    /\ UNCHANGED <<mainVars, lock, current_state, groupVars, givenVars, budgets>>

-----------------------------------------------------------------------------
(* VariableGroupPublisher._run: a new round, or the end. *)
StartRound ==
    /\ Alive /\ pc[Publisher] = "waiting"
    /\ values' = Unread
    /\ IF stop_event THEN todo' = <<>> /\ Goto(Publisher, "ended")
       ELSE todo' = Variables /\ Goto(Publisher, "queued")
    /\ UNCHANGED <<mainVars, lock, stateVars, last_values, topic, givenVars, budgets>>

(* After a variable: the next one, or all are read. *)
NextVariable ==
    /\ todo' = Tail(todo)
    /\ Goto(Publisher, IF Len(todo) = 1 THEN "sampled" ELSE "queued")

VariableRead ==
    /\ Alive /\ pc[Publisher] = "reading" /\ Answers
    /\ values' = [values EXCEPT ![Head(todo)] = Answer(plc[Head(todo)])]
    /\ NextVariable
    /\ Release(Publisher)
    /\ UNCHANGED <<mainVars, stateVars, last_values, topic, givenVars, budgets>>

(* Mutant: the values of a given-up round are no dictionary. *)
VariableErrorClears ==
    /\ Alive /\ pc[Publisher] = "reading"
    /\ AdsError
    /\ \/ allow_partial /\ NextVariable /\ UNCHANGED values
       \/ ~allow_partial /\ values' = None /\ todo' = <<>> /\ Goto(Publisher, "waiting")
    /\ Release(Publisher)
    /\ UNCHANGED <<mainVars, stateVars, last_values, topic, givenVars>>

(* Mutant: the group is published as if it were partial. *)
VariableErrorIgnored ==
    /\ Alive /\ pc[Publisher] = "reading"
    /\ AdsError
    /\ NextVariable
    /\ Release(Publisher)
    /\ UNCHANGED <<mainVars, stateVars, values, last_values, topic, givenVars>>

(* A failed read leaves None in a partial group and gives up the round of  *)
(* a strict one.                                                           *)
VariableError ==
    /\ Alive /\ pc[Publisher] = "reading"
    /\ AdsError
    /\ \/ allow_partial /\ NextVariable /\ UNCHANGED values
       \/ ~allow_partial /\ values' = Unread /\ todo' = <<>> /\ Goto(Publisher, "waiting")
    /\ Release(Publisher)
    /\ UNCHANGED <<mainVars, stateVars, last_values, topic, givenVars>>

Unchanged == last_values # None /\ last_values = values

SkipPublication ==
    /\ Alive /\ pc[Publisher] = "sampled" /\ Unchanged
    /\ Goto(Publisher, "waiting")
    /\ UNCHANGED <<mainVars, lock, stateVars, groupVars, givenVars, budgets>>

Publish ==
    /\ Alive /\ pc[Publisher] = "sampled" /\ ~Unchanged
    /\ topic' = values
    /\ last_values' = values
    /\ Goto(Publisher, "waiting")
    /\ UNCHANGED <<mainVars, lock, stateVars, values, todo, givenVars, budgets>>

(* Mutant: the values count as published before they are. *)
RememberUnpublished ==
    /\ Alive /\ pc[Publisher] = "sampled" /\ ~Unchanged /\ refused < MaxRefused
    /\ refused' = refused + 1
    /\ last_values' = values
    /\ Goto(Publisher, "waiting")
    /\ UNCHANGED <<mainVars, lock, stateVars, values, todo, topic, givenVars, changes, faults,
                   lost>>

(* publish raises: the values are new again in the next round. *)
PublishRefused ==
    /\ Alive /\ pc[Publisher] = "sampled" /\ ~Unchanged /\ refused < MaxRefused
    /\ refused' = refused + 1
    /\ Goto(Publisher, "waiting")
    /\ UNCHANGED <<mainVars, lock, stateVars, groupVars, givenVars, changes, faults, lost>>

(* Without a connection to the broker a message of QoS 0 is dropped: paho  *)
(* returns a code, which nobody looks at.                                  *)
PublishLost ==
    /\ Alive /\ pc[Publisher] = "sampled" /\ ~Unchanged /\ lost < MaxLost
    /\ lost' = lost + 1
    /\ last_values' = values
    /\ Goto(Publisher, "waiting")
    /\ UNCHANGED <<mainVars, lock, stateVars, values, todo, topic, givenVars, changes, faults,
                   refused>>

-----------------------------------------------------------------------------
(* The user quits. *)
Quit ==
    /\ main = "running"
    /\ stop_event' = TRUE
    /\ main' = "joining"
    /\ UNCHANGED <<polling_stopped, open, pc, lock, stateVars, groupVars, givenVars, budgets>>

(* join(timeout=1.0) returns whether the publisher has ended or not; then  *)
(* close() stops the polling thread first.                                 *)
StopPolling ==
    /\ main = "joining"
    /\ polling_stopped' = TRUE
    /\ main' = "stopping"
    /\ UNCHANGED <<stop_event, open, pc, lock, stateVars, groupVars, givenVars, budgets>>

(* So does join(timeout=2.0) of the polling thread; close does not take    *)
(* the lock.                                                               *)
CloseConnection ==
    /\ main = "stopping"
    /\ open' = FALSE
    /\ main' = "disconnecting"
    /\ UNCHANGED <<stop_event, polling_stopped, pc, lock, stateVars, groupVars, givenVars,
                   budgets>>

(* MQTT is disconnected and the process ends. *)
Disconnect ==
    /\ main = "disconnecting"
    /\ main' = "ended"
    /\ UNCHANGED <<stop_event, polling_stopped, open, pc, lock, stateVars, groupVars, givenVars,
                   budgets>>

Ended == main = "ended" /\ UNCHANGED vars

-----------------------------------------------------------------------------
PlcChange ==
    /\ changes < MaxChanges
    /\ changes' = changes + 1
    /\ \/ \E n \in Names, v \in Values : plc' = [plc EXCEPT ![n] = v] /\ UNCHANGED plc_state
       \/ plc_state' \in States /\ UNCHANGED plc
    /\ UNCHANGED <<mainVars, pc, lock, stateVars, groupVars, allow_partial, up, faults,
                   refused, lost>>

(* The link breaks or is back, at the cost of a change. *)
PlcLink ==
    /\ changes < MaxChanges \/ ~up
    /\ up' = ~up
    /\ changes' = IF up THEN changes + 1 ELSE changes
    /\ UNCHANGED <<mainVars, pc, lock, stateVars, groupVars, allow_partial, plc, plc_state,
                   faults, refused, lost>>

PollLoop == PollState \/ StateRead \/ StateError \/ StateChange
PublishLoop == StartRound \/ VariableRead \/ VariableError \/ SkipPublication \/ Publish
Shutdown == StopPolling \/ CloseConnection \/ Disconnect

Next == \/ PollLoop \/ PublishLoop \/ PublishRefused \/ PublishLost
        \/ Quit \/ Shutdown \/ Ended \/ PlcChange \/ PlcLink
        \/ \E t \in Threads : Acquire(t)

Spec == Init /\ [][Next]_vars

(* The threads run; the lock is free again and again, since the intervals  *)
(* are longer than the calls.                                              *)
Fairness == /\ WF_vars(PollLoop) /\ WF_vars(PublishLoop) /\ WF_vars(Shutdown)
            /\ \A t \in Threads : SF_vars(Acquire(t))

FairSpec == Spec /\ Fairness

-----------------------------------------------------------------------------
(* The polling thread and the publisher never call the connection at the   *)
(* same time, with or without a failing call and a closing connection.     *)
CallsLocked == \A t \in Threads : pc[t] = "reading" => lock = t

(* While the program runs, a strict group is published whole or not at     *)
(* all, whichever of its reads fails in whichever round.                   *)
StrictWhole == main = "running" /\ ~allow_partial /\ topic # None
                   => \A n \in Names : topic[n] # None

(* Once the PLC answers and rests, its topic shows all its values: failed  *)
(* reads, partial payloads and refused publications are made up for.  Not  *)
(* so a lost one: without an exception it counts as published.             *)
TopicFollows ==
    <>[](main = "running" /\ up /\ lost = 0) => <>[](topic = plc)

(* Likewise the callback has been told of the state the PLC is in.         *)
StateReported ==
    <>[](main = "running" /\ up) => <>[](reported = plc_state)

-----------------------------------------------------------------------------
(* What the repository says and the code does not keep. *)

(* group_publisher.py:57: "Strict mode: avoid partial payloads".           *)
StrictNeverPartial == ~allow_partial /\ topic # None => \A n \in Names : topic[n] # None
=============================================================================
