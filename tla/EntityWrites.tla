---------------------------- MODULE EntityWrites ----------------------------
(***************************************************************************)
(* Service calls on the light, number and switch entities of one PLC: the  *)
(* values a call asks for, scaled and cast, are written one after the      *)
(* other, each in an executor job of its own, and each is put into         *)
(* coordinator.data when its job has returned.  Calls overlap.             *)
(*                                                                         *)
(* One step is one job, or what a coroutine does between two jobs.  How    *)
(* jobs, polls and notifications share the connection is in                *)
(* AdsCoordinator; here a refresh brings one point's value.                *)
(***************************************************************************)
EXTENDS Integers, Sequences, SequencesExt

CONSTANTS
    Calls,                              \* service calls that may overlap
    Features,                           \* the optional points of the light
    Brightness, Kelvins, Levels,        \* what calls ask for; levels in tenths
    BrightnessMin, BrightnessMax, KelvinMin, KelvinMax, \* the light's ranges
    LevelType,                          \* the type of the number's symbol
    Unset, None,                        \* not asked for; no call acknowledged
    MaxCalls, MaxFaults, MaxChanges     \* bounds on the environment

Points == {"on_off", "brightness", "color_temp", "level", "relay"}
IntegerTypes == {"BYTE", "WORD", "DWORD", "INT", "DINT"}

(* The light's points are of type INT and its ranges fit it. *)
Narrow == {n \in Int : -32768 <= n /\ n <= 32767}

ASSUME WritesAssumption ==
    /\ Features \subseteq {"brightness", "color_temp"}
    /\ Brightness \subseteq 1 .. 255 /\ Kelvins \subseteq Nat /\ Levels \subseteq Int
    /\ Unset \notin Int
    /\ BrightnessMin \in Narrow /\ BrightnessMax \in Narrow /\ BrightnessMin < BrightnessMax
    /\ KelvinMin \in Narrow /\ KelvinMax \in Narrow /\ KelvinMin <= KelvinMax
    /\ LevelType \in IntegerTypes
    /\ MaxCalls \in Nat /\ MaxFaults \in Nat /\ MaxChanges \in Nat

-----------------------------------------------------------------------------
Span == BrightnessMax - BrightnessMin
Distance(a, b) == IF a < b THEN b - a ELSE a - b

(* Mutant: the fraction is cut off. *)
ScaleCut(b) == BrightnessMin + (b * Span) \div 255

(* Home Assistant's 1..255 to the nearest value of the PLC's range; 255 is *)
(* odd, no value lies half-way between two.                                *)
_scale_from_ha(b) ==
    CHOOSE v \in BrightnessMin .. BrightnessMax :
        2 * Distance((v - BrightnessMin) * 255, b * Span) <= 255

_clamp(v, low, high) == IF v < low THEN low ELSE IF v > high THEN high ELSE v

(* And back.  Half-way between two, rounding in floating point may yield   *)
(* either.                                                                 *)
_scale_to_ha(v) ==
    LET above == _clamp(v, BrightnessMin, BrightnessMax) - BrightnessMin
    IN  {h \in 0 .. 255 : 2 * Distance(h * Span, above * 255) <= Span}

(* int() of a level in tenths cuts towards zero. *)
Truncated(tenths) == IF tenths < 0 THEN -((-tenths) \div 10) ELSE tenths \div 10

(* What a symbol of this type holds after a write: ctypes keeps the low    *)
(* bits.  32 bits hold all the limits below let through.                   *)
Held(type, v) ==
    IF type = "BYTE" THEN v % 256
    ELSE IF type = "WORD" THEN v % 65536
    ELSE IF type = "INT" THEN ((v + 32768) % 65536) - 32768 ELSE v

(* The number's default limits; Home Assistant refuses values beyond.      *)
native_min_value(type) == IF type \in {"INT", "DINT"} THEN -32768 ELSE 0

(* Mutant: signed numbers have the upper limit of unsigned ones. *)
LimitUnsigned(type) == 65535

native_max_value(type) == IF type \in {"INT", "DINT"} THEN 32767 ELSE 65535

InLimits(tenths) ==
    10 * native_min_value(LevelType) <= tenths /\ tenths <= 10 * native_max_value(LevelType)

TypeOf(point) ==
    IF point = "level" THEN LevelType
    ELSE IF point \in {"on_off", "relay"} THEN "BOOL" ELSE "INT"

-----------------------------------------------------------------------------
(* What the methods of the entities write, in this order. *)
Write(point, value) == [point |-> point, value |-> value]
If(condition, write) == IF condition THEN <<write>> ELSE <<>>

(* Mutant: the light is switched on before it is set. *)
SwitchedOnFirst(b, k) ==
    <<Write("on_off", 1)>>
    \o If("brightness" \in Features /\ b # Unset, Write("brightness", _scale_from_ha(b)))
    \o If("color_temp" \in Features /\ k # Unset,
          Write("color_temp", _clamp(k, KelvinMin, KelvinMax)))

async_turn_on(b, k) ==
    If("brightness" \in Features /\ b # Unset, Write("brightness", _scale_from_ha(b)))
    \o If("color_temp" \in Features /\ k # Unset,
          Write("color_temp", _clamp(k, KelvinMin, KelvinMax)))
    \o <<Write("on_off", 1)>>

async_turn_off == <<Write("on_off", 0)>>

(* Mutant: the value goes to the entity's name instead of the symbol. *)
SetUnderEntityName(tenths) == <<Write("number", Truncated(tenths))>>

async_set_native_value(tenths) == <<Write("level", Truncated(tenths))>>
_write(on) == <<Write("relay", on)>>

Request(entity, asked, writes) == [entity |-> entity, asked |-> asked, writes |-> writes]
Requests ==
    {Request("light", b, async_turn_on(b, k)) :
        b \in Brightness \union {Unset}, k \in Kelvins \union {Unset}}
    \union {Request("light", Unset, async_turn_off)}
    \union {Request("number", t, async_set_native_value(t)) :
               t \in {l \in Levels : InLimits(l)}}
    \union {Request("switch", Unset, _write(on)) : on \in {0, 1}}

RequestType == [entity : {"light", "number", "switch"}, asked : Int \union {Unset},
                writes : Seq([point : Points, value : Int])]

(* The points an entity shows. *)
Shows(entity) ==
    IF entity = "light" THEN {"on_off", "brightness", "color_temp"}
    ELSE IF entity = "number" THEN {"level"} ELSE {"relay"}

VARIABLES
    step, request, next,    \* of each call: its state, what it asks for, the write it is at
    number,                 \* history: the calls in the order they were made
    plc, data, shown,       \* the values of the PLC, of coordinator.data, of the states
    disturbed, answered,    \* history: calls not alone; the call answered last
    calls, faults, changes

vars == <<step, request, next, number, plc, data, shown, disturbed, answered, calls, faults,
          changes>>

(* Every variable has its type. *)
TypeOK ==
    /\ step \in [Calls -> {"idle", "queued", "written", "failed"}]
    /\ request \in [Calls -> RequestType \union {None}] /\ next \in [Calls -> Nat \ {0}]
    /\ number \in [Calls -> 0 .. MaxCalls]
    /\ plc \in [Points -> Int] /\ data \in [Points -> Int] /\ shown \in [Points -> Int]
    /\ disturbed \subseteq Calls /\ answered \in RequestType \union {None}
    /\ calls \in 0 .. MaxCalls /\ faults \in 0 .. MaxFaults /\ changes \in 0 .. MaxChanges

Initial == [p \in Points |-> IF p = "brightness" THEN BrightnessMin
                            ELSE IF p = "color_temp" THEN KelvinMin ELSE 0]

Init ==
    /\ step = [c \in Calls |-> "idle"]
    /\ request = [c \in Calls |-> None]
    /\ next = [c \in Calls |-> 1] /\ number = [c \in Calls |-> 0]
    /\ plc = Initial /\ data = Initial /\ shown = Initial
    /\ disturbed = {} /\ answered = None
    /\ calls = 0 /\ faults = 0 /\ changes = 0

Active == {c \in Calls : step[c] # "idle"}

-----------------------------------------------------------------------------
(* A service call reaches its entity; the first job is queued. *)
Call(c) ==
    /\ step[c] = "idle" /\ calls < MaxCalls
    /\ \E r \in Requests : request' = [request EXCEPT ![c] = r]
    /\ next' = [next EXCEPT ![c] = 1]
    /\ step' = [step EXCEPT ![c] = "queued"]
    /\ disturbed' = IF Active = {} THEN {} ELSE Active \union {c}
    /\ answered' = None
    /\ calls' = calls + 1
    /\ number' = [number EXCEPT ![c] = calls + 1]
    /\ UNCHANGED <<plc, data, shown, faults, changes>>

Current(c) == request[c].writes[next[c]]
AtLast(c) == next[c] = Len(request[c].writes)

(* write_variable, in the executor. *)
Written(w) == [plc EXCEPT ![w.point] = Held(TypeOf(w.point), w.value)]

WriteOk(c) ==
    /\ step[c] = "queued"
    /\ plc' = Written(Current(c))
    /\ step' = [step EXCEPT ![c] = "written"]
    /\ UNCHANGED <<request, next, number, data, shown, disturbed, answered, calls, faults, changes>>

(* The write has been lost, or its answer. *)
WriteError(c) ==
    /\ step[c] = "queued" /\ faults < MaxFaults
    /\ plc' \in {plc, Written(Current(c))}
    /\ step' = [step EXCEPT ![c] = "failed"]
    /\ faults' = faults + 1
    /\ UNCHANGED <<request, next, number, data, shown, disturbed, answered, calls, changes>>

(* Back on the loop the value goes into coordinator.data; after the last   *)
(* one the entity writes its state and the call is answered.               *)
Stored(w) == [data EXCEPT ![w.point] = w.value]

NextWrite(c) ==
    /\ step[c] = "written" /\ ~AtLast(c)
    /\ data' = Stored(Current(c))
    /\ next' = [next EXCEPT ![c] = @ + 1]
    /\ step' = [step EXCEPT ![c] = "queued"]
    /\ UNCHANGED <<request, number, plc, shown, disturbed, answered, calls, faults, changes>>

Shown(entity) == [p \in Points |-> IF p \in Shows(entity) THEN data'[p] ELSE shown[p]]

(* Mutant: the state is written before the value is stored. *)
AnswerBeforeStore(c) ==
    /\ step[c] = "written" /\ AtLast(c)
    /\ data' = Stored(Current(c))
    /\ shown' = [p \in Points |-> IF p \in Shows(request[c].entity) THEN data[p] ELSE shown[p]]
    /\ step' = [step EXCEPT ![c] = "idle"]
    /\ answered' = IF c \in disturbed THEN None ELSE request[c]
    /\ request' = [request EXCEPT ![c] = None] /\ number' = [number EXCEPT ![c] = 0]
    /\ next' = [next EXCEPT ![c] = 1] /\ disturbed' = disturbed \ {c}
    /\ UNCHANGED <<plc, calls, faults, changes>>

Answer(c) ==
    /\ step[c] = "written" /\ AtLast(c)
    /\ data' = Stored(Current(c))
    /\ shown' = Shown(request[c].entity)
    /\ step' = [step EXCEPT ![c] = "idle"]
    /\ answered' = IF c \in disturbed THEN None ELSE request[c]
    /\ request' = [request EXCEPT ![c] = None] /\ number' = [number EXCEPT ![c] = 0]
    /\ next' = [next EXCEPT ![c] = 1] /\ disturbed' = disturbed \ {c}
    /\ UNCHANGED <<plc, calls, faults, changes>>

(* The ADSError ends the call: what it has written stays. *)
Raise(c) ==
    /\ step[c] = "failed"
    /\ step' = [step EXCEPT ![c] = "idle"]
    /\ request' = [request EXCEPT ![c] = None] /\ number' = [number EXCEPT ![c] = 0]
    /\ next' = [next EXCEPT ![c] = 1] /\ disturbed' = disturbed \ {c}
    /\ UNCHANGED <<plc, data, shown, answered, calls, faults, changes>>

(* A poll or a notification: every entity writes its state. *)
Refresh(p) ==
    /\ data' = [data EXCEPT ![p] = plc[p]]
    /\ shown' = data'
    /\ UNCHANGED <<step, request, next, number, plc, disturbed, answered, calls, faults, changes>>

(* The PLC's program or a wall switch. *)
PlcChange(p) ==
    /\ changes < MaxChanges
    /\ \E v \in {Initial[p]} \union (IF p \in {"on_off", "relay"} THEN {1} ELSE {BrightnessMax}) :
          plc' = [plc EXCEPT ![p] = v]
    /\ disturbed' = disturbed \union Active
    /\ answered' = None
    /\ changes' = changes + 1
    /\ UNCHANGED <<step, request, next, number, data, shown, calls, faults>>

Job(c) == WriteOk(c) \/ WriteError(c) \/ NextWrite(c) \/ Answer(c) \/ Raise(c)
Next == \/ \E c \in Calls : Call(c) \/ Job(c)
        \/ \E p \in Points : Refresh(p) \/ PlcChange(p)
Spec == Init /\ [][Next]_vars

-----------------------------------------------------------------------------
(* What an undisturbed call has written is what the PLC holds and what the *)
(* entity shows, cast, narrowed and stored on different sides of an await. *)
AnsweredHeld ==
    answered # None => \A w \in Range(answered.writes) : shown[w.point] = plc[w.point]

(* And it is what was asked for, as far as the ranges allow: a brightness  *)
(* comes back unchanged if the PLC's range is as fine as 0..255, else off  *)
(* by half a step of each scale at most, a level by less than 1.           *)
AnsweredAsAsked ==
    answered # None /\ answered.asked # Unset =>
        \/ /\ answered.entity = "light"
           /\ "brightness" \in Features =>
                  \A h \in _scale_to_ha(shown["brightness"]) :
                      /\ 2 * Span * Distance(h, answered.asked) <= 255 + Span
                      /\ Span >= 255 => h = answered.asked
        \/ /\ answered.entity = "number"
           /\ Distance(10 * plc["level"], answered.asked) < 10

(* A light that a call switches on has the brightness and the colour       *)
(* temperature of that call by then: it never comes on as it was.          *)
Done(c) == step[c] = "queued" /\ step'[c] # "queued"
ComesOnAsAsked ==
    [][\A c \in Calls \ disturbed :
           Done(c) /\ plc["on_off"] = 0 /\ plc'["on_off"] = 1
               => \A w \in Range(request[c].writes) : plc'[w.point] = w.value]_vars

(* Setting the brightness that is shown does not move the PLC's value, if  *)
(* its range is no finer than 0..255.                                      *)
ShownIsStable ==
    Span <= 255 /\ plc["brightness"] \in BrightnessMin .. BrightnessMax =>
        \A h \in _scale_to_ha(plc["brightness"]) : _scale_from_ha(h) = plc["brightness"]

-----------------------------------------------------------------------------
(* A light that has been switched off is not switched on by a call made    *)
(* before: what it is left in is what the user asked for last.             *)
OffStaysOff ==
    [][\A c, d \in Calls :
           Done(c) /\ plc["on_off"] = 0 /\ plc'["on_off"] = 1 /\ number[c] < number[d]
               => request[d].writes # async_turn_off \/ step[d] = "queued"]_vars
=============================================================================
