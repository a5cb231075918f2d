------------------------- MODULE EntityWritesProofs -------------------------
(***************************************************************************)
(* What holds of service calls for every range of a light, every set of    *)
(* calls and every bound.                                                  *)
(***************************************************************************)
EXTENDS EntityWrites, SequenceTheorems, TLAPS

-----------------------------------------------------------------------------
(* Rounding.  Nearest(v, x): v is one of the integers nearest to x / 255.  *)
Nearest(v, x) == 2 * Distance(v * 255, x) <= 255

(* There is a nearest value in the PLC's range. *)
LEMMA NearestExists ==
    ASSUME NEW S \in Nat, NEW x \in Nat, x <= 255 * S
    PROVE  \E v \in 0 .. S : Nearest(v, x)
<1> DEFINE w == (x + 127) \div 255
<1>1. w \in Int /\ 255 * w <= x + 127 /\ x + 127 < 255 * w + 255
    OBVIOUS
<1> HIDE DEF w
<1>2. w \in 0 .. S
    BY <1>1
<1>3. Nearest(w, x)
    BY <1>1 DEF Nearest, Distance
<1> QED BY <1>2, <1>3

LEMMA ProductBound ==
    ASSUME NEW S \in Nat, NEW b \in 0 .. 255
    PROVE  b * S \in Nat /\ b * S <= 255 * S
<1>1. (255 - b) * S = 255 * S - b * S
    OBVIOUS
<1>2. (255 - b) * S >= 0 /\ b * S >= 0
    OBVIOUS
<1> QED BY <1>1, <1>2

LEMMA SpanNat == Span \in Nat /\ Span > 0 /\ BrightnessMax = BrightnessMin + Span
                 /\ BrightnessMin \in Int
<1>1. BrightnessMin \in Narrow /\ BrightnessMax \in Narrow /\ BrightnessMin < BrightnessMax
    BY WritesAssumption
<1>2. BrightnessMin \in Int /\ BrightnessMax \in Int
    BY <1>1 DEF Narrow
<1>3. BrightnessMax - BrightnessMin \in Nat /\ BrightnessMax - BrightnessMin > 0
      /\ BrightnessMax = BrightnessMin + (BrightnessMax - BrightnessMin)
    BY <1>1, <1>2
<1> QED BY <1>2, <1>3 DEF Span

(* What a brightness is scaled to lies in the range and is nearest. *)
LEMMA ScaledNearest ==
    ASSUME NEW b \in 0 .. 255
    PROVE  /\ _scale_from_ha(b) \in BrightnessMin .. BrightnessMax
           /\ Nearest(_scale_from_ha(b) - BrightnessMin, b * Span)
<1>1. PICK w \in 0 .. Span : Nearest(w, b * Span)
    BY SpanNat, ProductBound, NearestExists
<1>2. BrightnessMin + w \in BrightnessMin .. BrightnessMax
      /\ (BrightnessMin + w) - BrightnessMin = w
    BY SpanNat
<1>3. \E v \in BrightnessMin .. BrightnessMax : Nearest(v - BrightnessMin, b * Span)
    BY <1>1, <1>2
<1> QED BY <1>3 DEF _scale_from_ha, Nearest

LEMMA ScaledBack ==
    ASSUME NEW v \in BrightnessMin .. BrightnessMax, NEW h \in _scale_to_ha(v)
    PROVE  h \in 0 .. 255 /\ 2 * Distance(h * Span, (v - BrightnessMin) * 255) <= Span
<1>1. BrightnessMin \in Int /\ BrightnessMax \in Int
    BY SpanNat
<1>2. _clamp(v, BrightnessMin, BrightnessMax) = v
    BY <1>1 DEF _clamp
<1> QED BY <1>2 DEF _scale_to_ha

(* Two multiples of the span differ by as many spans. *)
LEMMA SpanDistance ==
    ASSUME NEW S \in Nat, NEW h \in Nat, NEW b \in Nat
    PROVE  /\ h * S \in Nat /\ b * S \in Nat
           /\ Distance(h * S, b * S) = S * Distance(h, b)
           /\ Distance(h, b) \in Nat
           /\ h # b => S * Distance(h, b) >= S
<1>1. h * S \in Nat /\ b * S \in Nat /\ Distance(h, b) \in Nat
    BY DEF Distance
<1>2. Distance(h * S, b * S) = S * Distance(h, b)
    <2>1. CASE h < b
        <3>1. S * (b - h) = b * S - h * S /\ S * (b - h) >= 0
            BY <2>1
        <3> QED BY <2>1, <3>1, <1>1 DEF Distance
    <2>2. CASE ~(h < b)
        <3>1. S * (h - b) = h * S - b * S /\ S * (h - b) >= 0
            BY <2>2
        <3> QED BY <2>2, <3>1, <1>1 DEF Distance
    <2> QED BY <2>1, <2>2
<1>3. ASSUME h # b PROVE S * Distance(h, b) >= S
    <2>1. Distance(h, b) >= 1
        BY <1>3 DEF Distance
    <2> DEFINE d == Distance(h, b)
    <2>2. d \in Nat /\ d >= 1
        BY <1>1, <2>1
    <2> HIDE DEF d
    <2>3. S * d = S * (d - 1) + S /\ S * (d - 1) \in Nat
        BY <2>2
    <2>4. \A y \in Nat : y + S >= S
        OBVIOUS
    <2>5. S * d >= S
        BY <2>3, <2>4
    <2> QED BY <2>5 DEF d
<1> QED BY <1>1, <1>2, <1>3

(* For a range as fine as 0..255 the brightness asked for comes back; for  *)
(* any range it is off by half a step of each scale at most.               *)
THEOREM BrightnessComesBack ==
    ASSUME NEW b \in 0 .. 255, NEW h \in _scale_to_ha(_scale_from_ha(b))
    PROVE  /\ 2 * Span * Distance(h, b) <= 255 + Span
           /\ Span >= 255 => h = b
<1> DEFINE w == _scale_from_ha(b) - BrightnessMin
<1>1. _scale_from_ha(b) \in BrightnessMin .. BrightnessMax /\ Nearest(w, b * Span)
    BY ScaledNearest
<1>2. h \in 0 .. 255 /\ 2 * Distance(h * Span, w * 255) <= Span
    BY <1>1, ScaledBack
<1>3. w \in Int
    BY <1>1, SpanNat
<1> HIDE DEF w
<1> h \in Nat /\ b \in Nat
    BY <1>2
<1>4. /\ h * Span \in Nat /\ b * Span \in Nat
      /\ Distance(h * Span, b * Span) = Span * Distance(h, b)
      /\ Distance(h, b) \in Nat /\ (h # b => Span * Distance(h, b) >= Span)
    BY SpanNat, SpanDistance
<1>5. 2 * Distance(h * Span, b * Span) <= 254 + Span
    BY <1>1, <1>2, <1>3, <1>4, SpanNat DEF Nearest, Distance
<1>6. Span * Distance(h, b) \in Nat /\ 2 * Span * Distance(h, b) = 2 * (Span * Distance(h, b))
    BY <1>4, SpanNat
<1> QED BY <1>4, <1>5, <1>6, SpanNat

(* For a range no finer than 0..255 the brightness shown, when it is set,  *)
(* leaves the PLC's value where it is.                                     *)
THEOREM ShownBrightnessStable ==
    ASSUME NEW v \in BrightnessMin .. BrightnessMax, NEW h \in _scale_to_ha(v), Span <= 255
    PROVE  _scale_from_ha(h) = v
<1> DEFINE w == v - BrightnessMin
           u == _scale_from_ha(h) - BrightnessMin
<1>1. h \in 0 .. 255 /\ 2 * Distance(h * Span, w * 255) <= Span
    BY ScaledBack
<1>2. _scale_from_ha(h) \in BrightnessMin .. BrightnessMax /\ Nearest(u, h * Span)
    BY <1>1, ScaledNearest
<1>3. w \in Int /\ u \in Int
    BY <1>2, SpanNat
<1> HIDE DEF w, u
<1>4. h * Span \in Int
    BY <1>1, SpanNat
<1>5. u = w
    BY <1>1, <1>2, <1>3, <1>4, SpanNat DEF Nearest, Distance
<1> QED BY <1>2, <1>5, SpanNat DEF w, u

-----------------------------------------------------------------------------
(* What a call writes. *)
PointWrite == [point : Points, value : Int]

(* A write leaves its value in a symbol that is wide enough for it. *)
Fits(w) == w \in PointWrite /\ Held(TypeOf(w.point), w.value) = w.value

(* Every write is for a point of the call's entity, no two for the same,   *)
(* and a light is switched last.                                           *)
WellFormed(r) ==
    /\ r \in RequestType
    /\ Len(r.writes) >= 1
    /\ \A i \in 1 .. Len(r.writes) : Fits(r.writes[i]) /\ r.writes[i].point \in Shows(r.entity)
    /\ \A i, j \in 1 .. Len(r.writes) : r.writes[i].point = r.writes[j].point => i = j
    /\ \A i \in 1 .. Len(r.writes) : r.writes[i].point = "on_off" => i = Len(r.writes)

LEMMA SeqPair ==
    ASSUME NEW S, NEW x \in S, NEW y \in S
    PROVE  <<x>> \o <<y>> = <<x, y>>
<1>1. <<x>> \in Seq(S) /\ <<y>> \in Seq(S) /\ <<x, y>> \in Seq(S)
    OBVIOUS
<1> DEFINE s == <<x>> \o <<y>>
<1>2. s \in Seq(S) /\ Len(s) = 2 /\ s[1] = x /\ s[2] = y
    BY <1>1, ConcatProperties
<1> HIDE DEF s
<1>3. s = <<x, y>>
    BY <1>1, <1>2, SeqEqual
<1> QED BY <1>3 DEF s

LEMMA SeqTriple ==
    ASSUME NEW S, NEW x \in S, NEW y \in S, NEW z \in S
    PROVE  <<x, y>> \o <<z>> = <<x, y, z>>
<1>1. <<x, y>> \in Seq(S) /\ <<z>> \in Seq(S) /\ <<x, y, z>> \in Seq(S)
    OBVIOUS
<1> DEFINE s == <<x, y>> \o <<z>>
<1>2. s \in Seq(S) /\ Len(s) = 3 /\ s[1] = x /\ s[2] = y /\ s[3] = z
    BY <1>1, ConcatProperties
<1> HIDE DEF s
<1>3. s = <<x, y, z>>
    BY <1>1, <1>2, SeqEqual
<1> QED BY <1>3 DEF s

(* The shapes a turn_on may have. *)
LEMMA SeqShapes ==
    ASSUME NEW S, NEW x \in S, NEW y \in S, NEW z \in S
    PROVE  /\ <<>> \o <<>> \o <<z>> = <<z>> /\ <<x>> \o <<>> \o <<z>> = <<x, z>>
           /\ <<>> \o <<y>> \o <<z>> = <<y, z>> /\ <<x>> \o <<y>> \o <<z>> = <<x, y, z>>
<1>1. /\ <<>> \in Seq(S) /\ <<x>> \in Seq(S) /\ <<y>> \in Seq(S) /\ <<z>> \in Seq(S)
    OBVIOUS
<1>2. /\ <<>> \o <<>> = <<>> /\ <<>> \o <<z>> = <<z>>
      /\ <<x>> \o <<>> = <<x>> /\ <<>> \o <<y>> = <<y>>
    BY <1>1, ConcatEmptySeq
<1> QED BY <1>2, SeqPair, SeqTriple

LEMMA LightWrites ==
    ASSUME NEW b \in Brightness
    PROVE  Fits(Write("brightness", _scale_from_ha(b)))
<1>1. b \in 0 .. 255
    BY WritesAssumption
<1>2. _scale_from_ha(b) \in BrightnessMin .. BrightnessMax
    BY <1>1, ScaledNearest
<1>3. _scale_from_ha(b) \in Narrow
    BY SMT, <1>2, WritesAssumption DEF Narrow
<1>4. TypeOf("brightness") = "INT"
    BY DEF TypeOf
<1> QED BY SMT, <1>3, <1>4 DEF Fits, Write, PointWrite, Points, Held, Narrow

LEMMA KelvinWrites ==
    ASSUME NEW k \in Kelvins
    PROVE  Fits(Write("color_temp", _clamp(k, KelvinMin, KelvinMax)))
<1>1. k \in Int /\ KelvinMin \in Narrow /\ KelvinMax \in Narrow
    BY WritesAssumption
<1>2. _clamp(k, KelvinMin, KelvinMax) \in Narrow
    BY SMT, <1>1, WritesAssumption DEF _clamp, Narrow
<1>3. TypeOf("color_temp") = "INT"
    BY DEF TypeOf
<1> QED BY SMT, <1>2, <1>3 DEF Fits, Write, PointWrite, Points, Held, Narrow

LEMMA SwitchWrites ==
    ASSUME NEW on \in {0, 1}, NEW p \in {"on_off", "relay"}
    PROVE  Fits(Write(p, on))
BY SMT DEF Fits, Write, PointWrite, Points, Held, TypeOf

(* All number types but BYTE hold what their default limits let through. *)
LEMMA LevelWrites ==
    ASSUME NEW t \in Levels, InLimits(t), LevelType # "BYTE"
    PROVE  Fits(Write("level", Truncated(t)))
<1>1. t \in Int /\ LevelType \in IntegerTypes
    BY WritesAssumption
<1>2. TypeOf("level") = LevelType
    BY DEF TypeOf
<1>3. CASE LevelType \in {"INT", "DINT"}
    <2>1. -327680 <= t /\ t <= 327670
        BY SMT, <1>1, <1>3 DEF InLimits, native_min_value, native_max_value
    <2>2. Truncated(t) \in Int /\ -32768 <= Truncated(t) /\ Truncated(t) <= 32767
        BY SMT, <1>1, <2>1 DEF Truncated
    <2> QED BY SMT, <1>2, <1>3, <2>2 DEF Fits, Write, PointWrite, Points, Held
<1>4. CASE LevelType \in {"WORD", "DWORD"}
    <2>1. 0 <= t /\ t <= 655350
        BY SMT, <1>1, <1>4 DEF InLimits, native_min_value, native_max_value
    <2>2. Truncated(t) = t \div 10
        BY SMT, <1>1, <2>1 DEF Truncated
    <2>3. Truncated(t) \in Int /\ 0 <= Truncated(t) /\ Truncated(t) <= 65535
        BY SMT, <1>1, <2>1, <2>2
    <2>4. Held(LevelType, Truncated(t)) = Truncated(t)
        BY SMT, <1>4, <2>3 DEF Held
    <2> QED BY SMT, <1>2, <2>3, <2>4 DEF Fits, Write, PointWrite, Points
<1> QED BY <1>1, <1>3, <1>4 DEF IntegerTypes

LEMMA SinglesWellFormed ==
    ASSUME NEW e \in {"light", "number", "switch"}, NEW a \in Int \union {Unset},
           NEW w, Fits(w), w.point \in Shows(e)
    PROVE  WellFormed(Request(e, a, <<w>>))
<1>1. w \in PointWrite /\ <<w>> \in Seq(PointWrite)
    BY DEF Fits
<1>2. Request(e, a, <<w>>) \in RequestType
    BY <1>1 DEF Request, RequestType, PointWrite
<1> QED BY <1>2 DEF WellFormed, Request

LEMMA LightWellFormed ==
    ASSUME NEW a \in Int \union {Unset},
           NEW x, Fits(x), x.point = "brightness",
           NEW y, Fits(y), y.point = "color_temp",
           NEW z, Fits(z), z.point = "on_off",
           NEW s \in {<<z>>, <<x, z>>, <<y, z>>, <<x, y, z>>}
    PROVE  WellFormed(Request("light", a, s))
<1>1. x \in PointWrite /\ y \in PointWrite /\ z \in PointWrite
    BY DEF Fits
<1>2. s \in Seq(PointWrite)
    <2>1. <<z>> \in Seq(PointWrite) /\ <<x, z>> \in Seq(PointWrite)
        BY <1>1
    <2>2. <<y, z>> \in Seq(PointWrite) /\ <<x, y, z>> \in Seq(PointWrite)
        BY <1>1
    <2> QED BY <2>1, <2>2
<1>3. Request("light", a, s) \in RequestType
    BY <1>2 DEF Request, RequestType, PointWrite
<1>4. /\ Len(s) >= 1
      /\ \A i \in 1 .. Len(s) : Fits(s[i]) /\ s[i].point \in Shows("light")
      /\ \A i, j \in 1 .. Len(s) : s[i].point = s[j].point => i = j
      /\ \A i \in 1 .. Len(s) : s[i].point = "on_off" => i = Len(s)
    <2>1. CASE s = <<z>>
        BY <2>1 DEF Shows
    <2>2. CASE s = <<x, z>>
        BY <2>2 DEF Shows
    <2>3. CASE s = <<y, z>>
        BY <2>3 DEF Shows
    <2>4. CASE s = <<x, y, z>>
        BY <2>4 DEF Shows
    <2> QED BY <2>1, <2>2, <2>3, <2>4
<1> QED BY <1>3, <1>4 DEF WellFormed, Request

(* A brightness that is asked for is written first. *)
LEMMA BrightnessFirst ==
    ASSUME "brightness" \in Features, NEW b \in Brightness, NEW k \in Kelvins \union {Unset}
    PROVE  /\ 1 \in 1 .. Len(async_turn_on(b, k))
           /\ async_turn_on(b, k)[1] = Write("brightness", _scale_from_ha(b))
<1> DEFINE x == Write("brightness", _scale_from_ha(b))
           y == Write("color_temp", _clamp(k, KelvinMin, KelvinMax))
           z == Write("on_off", 1)
<1>1. b # Unset
    BY WritesAssumption
<1>2. async_turn_on(b, k) =
          <<x>> \o (IF "color_temp" \in Features /\ k # Unset THEN <<y>> ELSE <<>>) \o <<z>>
    BY <1>1 DEF async_turn_on, If
<1> HIDE DEF x, y, z
<1> DEFINE S == {x, y, z}
<1>3. x \in S /\ y \in S /\ z \in S
    OBVIOUS
<1> HIDE DEF S
<1>4. <<x>> \o <<>> \o <<z>> = <<x, z>> /\ <<x>> \o <<y>> \o <<z>> = <<x, y, z>>
    BY <1>3, SeqShapes
<1>5. async_turn_on(b, k) = <<x, z>> \/ async_turn_on(b, k) = <<x, y, z>>
    BY <1>2, <1>4
<1>6. 1 \in 1 .. Len(async_turn_on(b, k)) /\ async_turn_on(b, k)[1] = x
    BY <1>5
<1> QED BY <1>6 DEF x

LEMMA RequestsWellFormed ==
    ASSUME LevelType # "BYTE", NEW r \in Requests
    PROVE  WellFormed(r)
<1>1. ASSUME NEW b \in Brightness \union {Unset}, NEW k \in Kelvins \union {Unset}
      PROVE  WellFormed(Request("light", b, async_turn_on(b, k)))
    <2> DEFINE z == Write("on_off", 1)
    <2>1. b \in Int \union {Unset}
        BY WritesAssumption
    <2>2. PICK x : Fits(x) /\ x.point = "brightness"
                   /\ (b # Unset => x = Write("brightness", _scale_from_ha(b)))
        <3>1. CASE b = Unset
            <4>1. Fits([point |-> "brightness", value |-> 0])
                BY SMT DEF Fits, PointWrite, Points, Held, TypeOf
            <4> QED BY <3>1, <4>1
        <3>2. CASE b # Unset
            BY <3>2, LightWrites DEF Write
        <3> QED BY <3>1, <3>2
    <2>3. PICK y : Fits(y) /\ y.point = "color_temp"
                   /\ (k # Unset => y = Write("color_temp", _clamp(k, KelvinMin, KelvinMax)))
        <3>1. CASE k = Unset
            <4>1. Fits([point |-> "color_temp", value |-> 0])
                BY SMT DEF Fits, PointWrite, Points, Held, TypeOf
            <4> QED BY <3>1, <4>1
        <3>2. CASE k # Unset
            BY <3>2, KelvinWrites DEF Write
        <3> QED BY <3>1, <3>2
    <2>4. Fits(z) /\ z.point = "on_off"
        BY SwitchWrites DEF Write
    <2> HIDE DEF z
    <2>5. x \in PointWrite /\ y \in PointWrite /\ z \in PointWrite
        BY <2>2, <2>3, <2>4 DEF Fits
    <2>6. async_turn_on(b, k) =
              (IF "brightness" \in Features /\ b # Unset THEN <<x>> ELSE <<>>)
              \o (IF "color_temp" \in Features /\ k # Unset THEN <<y>> ELSE <<>>) \o <<z>>
        BY <2>2, <2>3 DEF async_turn_on, If, z
    <2>7. async_turn_on(b, k) \in {<<z>>, <<x, z>>, <<y, z>>, <<x, y, z>>}
        <3>1. /\ <<>> \o <<>> \o <<z>> = <<z>> /\ <<x>> \o <<>> \o <<z>> = <<x, z>>
              /\ <<>> \o <<y>> \o <<z>> = <<y, z>> /\ <<x>> \o <<y>> \o <<z>> = <<x, y, z>>
            BY <2>5, SeqShapes
        <3>2. CASE "brightness" \in Features /\ b # Unset
            <4>1. CASE "color_temp" \in Features /\ k # Unset
                BY <2>6, <3>1, <3>2, <4>1
            <4>2. CASE ~("color_temp" \in Features /\ k # Unset)
                BY <2>6, <3>1, <3>2, <4>2
            <4> QED BY <4>1, <4>2
        <3>3. CASE ~("brightness" \in Features /\ b # Unset)
            <4>1. CASE "color_temp" \in Features /\ k # Unset
                BY <2>6, <3>1, <3>3, <4>1
            <4>2. CASE ~("color_temp" \in Features /\ k # Unset)
                BY <2>6, <3>1, <3>3, <4>2
            <4> QED BY <4>1, <4>2
        <3> QED BY <3>2, <3>3
    <2> QED BY <2>1, <2>2, <2>3, <2>4, <2>7, LightWellFormed
<1>2. WellFormed(Request("light", Unset, async_turn_off))
    <2>1. Fits(Write("on_off", 0)) /\ Write("on_off", 0).point \in Shows("light")
        BY SwitchWrites DEF Write, Shows
    <2> QED BY <2>1, SinglesWellFormed DEF async_turn_off
<1>3. ASSUME NEW t \in Levels, InLimits(t)
      PROVE  WellFormed(Request("number", t, async_set_native_value(t)))
    <2>1. /\ Fits(Write("level", Truncated(t)))
          /\ Write("level", Truncated(t)).point \in Shows("number")
        BY <1>3, LevelWrites DEF Write, Shows
    <2>2. t \in Int
        BY WritesAssumption
    <2> QED BY <2>1, <2>2, SinglesWellFormed DEF async_set_native_value
<1>4. ASSUME NEW on \in {0, 1} PROVE WellFormed(Request("switch", Unset, _write(on)))
    <2>1. Fits(Write("relay", on)) /\ Write("relay", on).point \in Shows("switch")
        BY SwitchWrites DEF Write, Shows
    <2> QED BY <2>1, SinglesWellFormed DEF _write
<1> QED BY <1>1, <1>2, <1>3, <1>4 DEF Requests

-----------------------------------------------------------------------------
(* The inductive invariant: a call under way has a well-formed request and *)
(* is at one of its writes; as long as it is undisturbed it is alone, and  *)
(* what it has written and stored is in the PLC and in coordinator.data.   *)
Requested ==
    \A c \in Active :
        /\ request[c] \in Requests /\ WellFormed(request[c])
        /\ next[c] \in 1 .. Len(request[c].writes)

IsIn(values, w) == values[w.point] = w.value

Progress(c) ==
    /\ \A i \in 1 .. Len(request[c].writes) : i < next[c] =>
           IsIn(plc, request[c].writes[i]) /\ IsIn(data, request[c].writes[i])
    /\ step[c] = "written" => IsIn(plc, Current(c))

Undisturbed == \A c \in Active \ disturbed : Active = {c} /\ Progress(c)

AnsweredKept ==
    answered # None =>
        /\ Active = {} /\ answered \in Requests /\ WellFormed(answered)
        /\ \A i \in 1 .. Len(answered.writes) :
               /\ IsIn(plc, answered.writes[i]) /\ IsIn(data, answered.writes[i])
               /\ IsIn(shown, answered.writes[i])

IInv == TypeOK /\ Requested /\ Undisturbed /\ AnsweredKept

LEMMA InitIInv == Init => IInv
<1> SUFFICES ASSUME Init PROVE IInv
    OBVIOUS
<1>1. Initial \in [Points -> Int]
    <2>1. BrightnessMin \in Int /\ KelvinMin \in Int
        BY WritesAssumption, SMT DEF Narrow
    <2> QED BY <2>1 DEF Initial
<1>2. Active = {}
    BY DEF Init, Active
<1>3. TypeOK
    BY <1>1, WritesAssumption DEF Init, TypeOK
<1>4. Requested /\ Undisturbed /\ AnsweredKept
    BY <1>2 DEF Init, Requested, Undisturbed, AnsweredKept
<1> QED BY <1>3, <1>4 DEF IInv

LEMMA AtCurrent ==
    ASSUME IInv, NEW c \in Calls, step[c] # "idle"
    PROVE  /\ request[c] \in Requests /\ WellFormed(request[c]) /\ next[c] \in 1 .. Len(request[c].writes)
           /\ Len(request[c].writes) \in Nat
           /\ Current(c).point \in Points /\ Current(c).value \in Int
           /\ Written(Current(c)) = [plc EXCEPT ![Current(c).point] = Current(c).value]
           /\ answered = None
           /\ \A d \in Active \ disturbed : d = c
<1>1. c \in Active
    BY DEF Active
<1>2. request[c] \in Requests /\ WellFormed(request[c]) /\ next[c] \in 1 .. Len(request[c].writes)
    BY <1>1 DEF IInv, Requested
<1>3. Fits(Current(c))
    BY <1>2 DEF WellFormed, Current
<1>4. Len(request[c].writes) \in Nat
    BY <1>2 DEF WellFormed, RequestType
<1>5. answered = None /\ \A d \in Active \ disturbed : d = c
    BY <1>1 DEF IInv, AnsweredKept, Undisturbed
<1> QED BY <1>2, <1>3, <1>4, <1>5 DEF Fits, PointWrite, Written

(* A step of c that leaves its request alone and puts the write it is at   *)
(* into the PLC or into coordinator.data does not touch its other writes.  *)
LEMMA OtherWritesKept ==
    ASSUME IInv, NEW c \in Calls, step[c] # "idle", NEW f \in [Points -> Int],
           NEW i \in 1 .. Len(request[c].writes), i # next[c]
    PROVE  [f EXCEPT ![Current(c).point] = Current(c).value][request[c].writes[i].point]
               = f[request[c].writes[i].point]
<1>1. WellFormed(request[c]) /\ next[c] \in 1 .. Len(request[c].writes)
    BY AtCurrent
<1>2. request[c].writes[i].point # Current(c).point
    BY <1>1 DEF WellFormed, Current
<1>3. request[c].writes[i].point \in Points
    BY <1>1 DEF WellFormed, Fits, PointWrite
<1> QED BY <1>2, <1>3

LEMMA CallIInv ==
    ASSUME LevelType # "BYTE", IInv, NEW c \in Calls, Call(c)
    PROVE  IInv'
<1>1. PICK r \in Requests : request' = [request EXCEPT ![c] = r]
    BY DEF Call
<1>2. WellFormed(r) /\ r \in RequestType
    BY RequestsWellFormed DEF WellFormed
<1>3. 1 \in 1 .. Len(r.writes)
    BY <1>2 DEF WellFormed, RequestType
<1>4. Active' = Active \union {c} /\ c \notin Active
    BY DEF Call, Active, IInv, TypeOK
<1>5. TypeOK'
    <2>1. calls + 1 \in 0 .. MaxCalls
        BY WritesAssumption DEF IInv, TypeOK, Call
    <2>2. disturbed' \subseteq Calls
        BY DEF IInv, TypeOK, Call, Active
    <2> QED BY <1>1, <1>2, <2>1, <2>2 DEF IInv, TypeOK, Call
<1>6. Requested'
    BY <1>1, <1>2, <1>3, <1>4 DEF IInv, TypeOK, Requested, Active, Call
<1>7. Undisturbed'
    <2>1. CASE Active = {}
        <3>1. Active' = {c}
            BY <1>4, <2>1
        <3>2. Progress(c)'
            BY <1>1, <1>3 DEF Call, Progress, IInv, TypeOK
        <3> QED BY <3>1, <3>2 DEF Undisturbed
    <2>2. CASE Active # {}
        BY <1>4, <2>2 DEF Call, Undisturbed
    <2> QED BY <2>1, <2>2
<1>8. AnsweredKept'
    BY DEF Call, AnsweredKept
<1> QED BY <1>5, <1>6, <1>7, <1>8 DEF IInv

LEMMA WriteIInv ==
    ASSUME IInv, NEW c \in Calls, WriteOk(c) \/ WriteError(c)
    PROVE  IInv'
<1>1. /\ step[c] = "queued" /\ step' = [step EXCEPT ![c] = IF WriteOk(c) THEN "written" ELSE "failed"]
      /\ plc' \in {plc, Written(Current(c))} /\ (WriteOk(c) => plc' = Written(Current(c)))
      /\ faults' \in 0 .. MaxFaults
      /\ UNCHANGED <<request, next, number, data, shown, disturbed, answered, calls, changes>>
    <2>1. CASE WriteOk(c)
        BY <2>1 DEF WriteOk, IInv, TypeOK
    <2>2. CASE WriteError(c) /\ ~WriteOk(c)
        BY <2>2, WritesAssumption DEF WriteError, IInv, TypeOK
    <2> QED BY <2>1, <2>2
<1>2. /\ WellFormed(request[c]) /\ next[c] \in 1 .. Len(request[c].writes)
      /\ Current(c).point \in Points /\ Current(c).value \in Int
      /\ Written(Current(c)) = [plc EXCEPT ![Current(c).point] = Current(c).value]
      /\ answered = None /\ \A d \in Active \ disturbed : d = c
    BY <1>1, AtCurrent
<1>3. Active' = Active
    BY <1>1 DEF Active, IInv, TypeOK
<1>4. TypeOK'
    BY <1>1, <1>2 DEF IInv, TypeOK
<1>5. Requested'
    BY <1>1, <1>3 DEF IInv, Requested
<1>6. ASSUME c \in Active \ disturbed PROVE Progress(c)'
    <2>1. Progress(c)
        BY <1>6 DEF IInv, Undisturbed
    <2>2. ASSUME NEW i \in 1 .. Len(request[c].writes), i < next[c]
          PROVE  IsIn(plc, request[c].writes[i])'
        <3>1. i # next[c]
            BY <1>2, <2>2
        <3>2. IsIn(plc, request[c].writes[i])
            BY <2>1, <2>2 DEF Progress
        <3>3. plc \in [Points -> Int]
            BY DEF IInv, TypeOK
        <3>4. step[c] # "idle"
            BY <1>1
        <3>5. [plc EXCEPT ![Current(c).point] = Current(c).value][request[c].writes[i].point]
                  = plc[request[c].writes[i].point]
            BY <3>1, <3>3, <3>4, OtherWritesKept
        <3>6. plc'[request[c].writes[i].point] = plc[request[c].writes[i].point]
            BY <1>1, <1>2, <3>5
        <3> QED BY <1>1, <3>2, <3>6 DEF IsIn
    <2>3. step'[c] = "written" => IsIn(plc, Current(c))'
        BY <1>1, <1>2 DEF IInv, TypeOK, IsIn, Current
    <2> QED BY <1>1, <2>1, <2>2, <2>3 DEF Progress, IsIn
<1>7. Undisturbed'
    BY <1>1, <1>2, <1>3, <1>6 DEF IInv, Undisturbed
<1>8. AnsweredKept'
    BY <1>1, <1>2 DEF AnsweredKept
<1> QED BY <1>4, <1>5, <1>7, <1>8 DEF IInv

LEMMA NextWriteIInv ==
    ASSUME IInv, NEW c \in Calls, NextWrite(c)
    PROVE  IInv'
<1>1. /\ WellFormed(request[c]) /\ next[c] \in 1 .. Len(request[c].writes)
      /\ Len(request[c].writes) \in Nat
      /\ Current(c).point \in Points /\ Current(c).value \in Int
      /\ answered = None /\ \A d \in Active \ disturbed : d = c
    BY AtCurrent DEF NextWrite
<1>2. next[c] + 1 \in 1 .. Len(request[c].writes)
    BY <1>1 DEF NextWrite, AtLast
<1>3. Active' = Active
    BY DEF Active, NextWrite, IInv, TypeOK
<1>4. TypeOK'
    BY <1>1, <1>2 DEF NextWrite, Stored, IInv, TypeOK
<1>5. Requested'
    BY <1>2, <1>3 DEF NextWrite, IInv, TypeOK, Requested, Active
<1>6. ASSUME c \in Active \ disturbed PROVE Progress(c)'
    <2>1. Progress(c) /\ IsIn(plc, Current(c))
        BY <1>6 DEF IInv, Undisturbed, Progress, NextWrite
    <2>2. ASSUME NEW i \in 1 .. Len(request[c].writes), i < next[c] + 1
          PROVE  IsIn(plc, request[c].writes[i]) /\ IsIn(data', request[c].writes[i])
        <3>1. CASE i = next[c]
            BY <1>1, <2>1, <3>1 DEF NextWrite, Stored, IsIn, Current, IInv, TypeOK
        <3>2. CASE i # next[c]
            <4>1. i < next[c]
                BY <1>1, <2>2, <3>2
            <4>2. IsIn(plc, request[c].writes[i]) /\ IsIn(data, request[c].writes[i])
                BY <2>1, <4>1 DEF Progress
            <4>3. data \in [Points -> Int] /\ step[c] # "idle"
                BY DEF IInv, TypeOK, NextWrite
            <4>4. Stored(Current(c))[request[c].writes[i].point] = data[request[c].writes[i].point]
                BY <4>3, <3>2, OtherWritesKept DEF Stored
            <4> QED BY <4>2, <4>4 DEF NextWrite, IsIn
        <3> QED BY <3>1, <3>2
    <2> QED BY <2>2 DEF Progress, IsIn, NextWrite, IInv, TypeOK
<1>7. Undisturbed'
    BY <1>1, <1>3, <1>6 DEF IInv, Undisturbed, NextWrite
<1>8. AnsweredKept'
    BY <1>1 DEF AnsweredKept, NextWrite
<1> QED BY <1>4, <1>5, <1>7, <1>8 DEF IInv

LEMMA AnswerIInv ==
    ASSUME IInv, NEW c \in Calls, Answer(c)
    PROVE  IInv'
<1> DEFINE r == request[c]
<1>1. /\ r \in Requests /\ WellFormed(r) /\ next[c] \in 1 .. Len(r.writes)
      /\ Len(r.writes) \in Nat
      /\ Current(c).point \in Points /\ Current(c).value \in Int
      /\ answered = None /\ \A d \in Active \ disturbed : d = c
    BY AtCurrent DEF Answer
<1>2. Active' = Active \ {c} /\ c \in Active
    BY DEF Active, Answer, IInv, TypeOK
<1>3. data' \in [Points -> Int] /\ data \in [Points -> Int] /\ step[c] # "idle"
    BY <1>1 DEF Answer, Stored, IInv, TypeOK
<1>4. shown' \in [Points -> Int]
    BY <1>3 DEF Answer, Shown, IInv, TypeOK
<1>5. TypeOK'
    BY <1>1, <1>3, <1>4, WritesAssumption DEF Answer, IInv, TypeOK, WellFormed
<1>6. Requested'
    BY <1>2 DEF Answer, IInv, TypeOK, Requested
<1>7. Undisturbed'
    BY <1>1, <1>2 DEF Answer, Undisturbed
<1>8. AnsweredKept'
    <2>1. CASE c \in disturbed
        BY <2>1 DEF Answer, AnsweredKept
    <2>2. CASE c \notin disturbed
        <3>1. Active = {c} /\ Progress(c)
            BY <1>2, <2>2 DEF IInv, Undisturbed
        <3>2. answered' = r /\ Active' = {}
            BY <1>2, <2>2, <3>1 DEF Answer
        <3>3. ASSUME NEW i \in 1 .. Len(r.writes)
              PROVE  IsIn(plc, r.writes[i]) /\ IsIn(data', r.writes[i])
            <4>1. CASE i = next[c]
                BY <1>1, <1>3, <3>1, <4>1 DEF Answer, Stored, Progress, IsIn, Current
            <4>2. CASE i # next[c]
                <5>1. i < next[c]
                    BY <1>1, <4>2 DEF Answer, AtLast
                <5>2. IsIn(plc, r.writes[i]) /\ IsIn(data, r.writes[i])
                    BY <3>1, <5>1 DEF Progress
                <5>3. Stored(Current(c))[r.writes[i].point] = data[r.writes[i].point]
                    BY <1>3, <4>2, OtherWritesKept DEF Stored
                <5> QED BY <5>2, <5>3 DEF Answer, IsIn
            <4> QED BY <4>1, <4>2
        <3>4. ASSUME NEW i \in 1 .. Len(r.writes)
              PROVE  IsIn(shown', r.writes[i])
            <4>1. r.writes[i].point \in Points \intersect Shows(r.entity)
                BY <1>1 DEF WellFormed, Fits, PointWrite
            <4>2. shown'[r.writes[i].point] = data'[r.writes[i].point]
                BY <4>1 DEF Answer, Shown
            <4> QED BY <3>3, <4>2 DEF IsIn
        <3>5. plc' = plc
            BY DEF Answer
        <3> HIDE DEF r
        <3> QED BY <1>1, <3>2, <3>3, <3>4, <3>5 DEF AnsweredKept, IsIn
    <2> QED BY <2>1, <2>2
<1> QED BY <1>5, <1>6, <1>7, <1>8 DEF IInv

LEMMA RaiseIInv ==
    ASSUME IInv, NEW c \in Calls, Raise(c)
    PROVE  IInv'
<1>1. answered = None /\ \A d \in Active \ disturbed : d = c
    BY AtCurrent DEF Raise
<1>2. Active' = Active \ {c} /\ c \in Active
    BY DEF Active, Raise, IInv, TypeOK
<1>3. TypeOK'
    BY WritesAssumption DEF Raise, IInv, TypeOK
<1>4. Requested'
    BY <1>2 DEF Raise, IInv, TypeOK, Requested
<1>5. Undisturbed'
    BY <1>1, <1>2 DEF Raise, Undisturbed
<1>6. AnsweredKept'
    BY <1>1 DEF Raise, AnsweredKept
<1> QED BY <1>3, <1>4, <1>5, <1>6 DEF IInv

LEMMA RefreshIInv ==
    ASSUME IInv, NEW p \in Points, Refresh(p)
    PROVE  IInv'
<1>1. TypeOK'
    BY DEF Refresh, IInv, TypeOK
<1>2. Active' = Active /\ UNCHANGED <<step, request, next, plc, disturbed, answered>>
    BY DEF Active, Refresh
<1>3. \A w : IsIn(plc, w) /\ IsIn(data, w) => IsIn(data', w) /\ IsIn(shown', w)
    <2>1. data \in [Points -> Int]
        BY DEF IInv, TypeOK
    <2> QED BY <2>1 DEF Refresh, IsIn
<1>4. Requested'
    BY <1>2 DEF IInv, Requested
<1>5. Undisturbed'
    <2>1. ASSUME NEW c \in Active \ disturbed PROVE Active = {c} /\ Progress(c)'
        BY <1>2, <1>3 DEF IInv, Undisturbed, Progress, IsIn, Current
    <2> QED BY <1>2, <2>1 DEF Undisturbed
<1>6. AnsweredKept'
    BY <1>2, <1>3 DEF IInv, AnsweredKept, IsIn
<1> QED BY <1>1, <1>4, <1>5, <1>6 DEF IInv

LEMMA PlcChangeIInv ==
    ASSUME IInv, NEW p \in Points, PlcChange(p)
    PROVE  IInv'
<1>1. Initial[p] \in Int /\ BrightnessMax \in Int
    <2>1. BrightnessMin \in Int /\ BrightnessMax \in Int /\ KelvinMin \in Int
        BY WritesAssumption, SMT DEF Narrow
    <2> QED BY <2>1 DEF Initial
<1>2. Active' = Active /\ Active \subseteq Calls
    BY DEF Active, PlcChange
<1>3. plc' \in [Points -> Int]
    BY <1>1 DEF PlcChange, IInv, TypeOK
<1>4. changes' \in 0 .. MaxChanges
    BY WritesAssumption DEF PlcChange, IInv, TypeOK
<1>5. TypeOK'
    BY <1>2, <1>3, <1>4 DEF PlcChange, IInv, TypeOK
<1>6. Requested'
    BY <1>2 DEF PlcChange, IInv, Requested
<1>7. Undisturbed' /\ AnsweredKept'
    BY <1>2 DEF PlcChange, Undisturbed, AnsweredKept
<1> QED BY <1>5, <1>6, <1>7 DEF IInv

LEMMA NextIInv ==
    ASSUME LevelType # "BYTE", IInv, [Next]_vars
    PROVE  IInv'
<1>1. CASE \E c \in Calls : Call(c) \/ Job(c)
    BY <1>1, CallIInv, WriteIInv, NextWriteIInv, AnswerIInv, RaiseIInv DEF Job
<1>2. CASE \E p \in Points : Refresh(p) \/ PlcChange(p)
    BY <1>2, RefreshIInv, PlcChangeIInv
<1>3. CASE UNCHANGED vars
    <2>1. Active' = Active
        BY <1>3 DEF vars, Active
    <2>2. TypeOK'
        BY <1>3 DEF vars, IInv, TypeOK
    <2>3. Requested'
        BY <1>3, <2>1 DEF vars, IInv, Requested
    <2>4. Undisturbed'
        BY <1>3, <2>1 DEF vars, IInv, Undisturbed, Progress, IsIn, Current
    <2>5. AnsweredKept'
        BY <1>3, <2>1 DEF vars, IInv, AnsweredKept, IsIn
    <2> QED BY <2>2, <2>3, <2>4, <2>5 DEF IInv
<1> QED BY <1>1, <1>2, <1>3 DEF Next

THEOREM Invariance ==
    ASSUME LevelType # "BYTE"
    PROVE  Spec => []IInv
<1>1. IInv /\ [Next]_vars => IInv'
    BY NextIInv
<1> QED BY <1>1, InitIInv, PTL DEF Spec

(* Every variable keeps its type. *)
THEOREM Typed ==
    ASSUME LevelType # "BYTE"
    PROVE  Spec => []TypeOK
BY Invariance, PTL DEF IInv

(* What an undisturbed call has written is what the PLC holds and what the *)
(* entity shows, whatever came before it.                                  *)
THEOREM AnswersHeld ==
    ASSUME LevelType # "BYTE"
    PROVE  Spec => []AnsweredHeld
<1>1. IInv => AnsweredHeld
    <2> SUFFICES ASSUME IInv, answered # None, NEW w \in Range(answered.writes)
                 PROVE  shown[w.point] = plc[w.point]
        BY DEF AnsweredHeld
    <2>1. PICK i \in 1 .. Len(answered.writes) : w = answered.writes[i]
        <3>1. answered.writes \in Seq([point : Points, value : Int])
            BY DEF IInv, AnsweredKept, WellFormed, RequestType
        <3>2. DOMAIN answered.writes = 1 .. Len(answered.writes)
            BY <3>1
        <3> QED BY <3>2 DEF Range
    <2> QED BY <2>1 DEF IInv, AnsweredKept, IsIn
<1> QED BY <1>1, Invariance, PTL

(* And it is what was asked for, as close as the ranges allow. *)
THEOREM AnswersAsAsked ==
    ASSUME LevelType # "BYTE"
    PROVE  Spec => []AnsweredAsAsked
<1>1. ASSUME IInv, answered # None, answered.asked # Unset,
             NEW b \in Brightness \union {Unset}, NEW k \in Kelvins \union {Unset},
             answered = Request("light", b, async_turn_on(b, k)), "brightness" \in Features
      PROVE  \A h \in _scale_to_ha(shown["brightness"]) :
                 2 * Span * Distance(h, answered.asked) <= 255 + Span
                 /\ (Span >= 255 => h = answered.asked)
    <2>1. b \in Brightness /\ answered.asked = b /\ answered.writes = async_turn_on(b, k)
        BY <1>1 DEF Request
    <2>2. b \in 0 .. 255
        BY <2>1, WritesAssumption
    <2>3. \E i \in 1 .. Len(answered.writes) :
              answered.writes[i] = Write("brightness", _scale_from_ha(b))
        BY <1>1, <2>1, BrightnessFirst
    <2>4. shown["brightness"] = _scale_from_ha(b)
        BY <1>1, <2>3 DEF IInv, AnsweredKept, IsIn, Write
    <2> QED BY <2>1, <2>2, <2>4, BrightnessComesBack
<1>2. ASSUME IInv, answered # None, NEW t \in Levels,
             answered = Request("number", t, async_set_native_value(t))
      PROVE  Distance(10 * plc["level"], answered.asked) < 10
    <2>1. answered.asked = t /\ t \in Int /\ answered.writes = <<Write("level", Truncated(t))>>
        BY <1>2, WritesAssumption DEF Request, async_set_native_value
    <2>2. plc["level"] = Truncated(t)
        <3>1. 1 \in 1 .. Len(answered.writes) /\ answered.writes[1] = Write("level", Truncated(t))
            BY <2>1
        <3> QED BY <1>2, <3>1 DEF IInv, AnsweredKept, IsIn, Write
    <2>3. Truncated(t) \in Int /\ Distance(10 * Truncated(t), t) < 10
        BY <2>1 DEF Truncated, Distance
    <2> QED BY <2>1, <2>2, <2>3
<1>3. IInv => AnsweredAsAsked
    <2> SUFFICES ASSUME IInv, answered # None, answered.asked # Unset
                 PROVE  AnsweredAsAsked
        BY DEF AnsweredAsAsked
    <2>1. answered \in Requests
        BY DEF IInv, AnsweredKept
    <2>2. CASE answered.entity = "light"
        BY <1>1, <2>1, <2>2 DEF Requests, Request, AnsweredAsAsked
    <2>3. CASE answered.entity # "light"
        BY <1>2, <2>1, <2>3 DEF Requests, Request, AnsweredAsAsked
    <2> QED BY <2>2, <2>3
<1> QED BY <1>3, Invariance, PTL

(* Setting the brightness that is shown does not move the PLC's value. *)
THEOREM ShownStable == Spec => []ShownIsStable
<1>1. ShownIsStable
    BY ShownBrightnessStable DEF ShownIsStable
<1> QED BY <1>1, PTL

(* A light that an undisturbed call switches on has by then what the call  *)
(* asked for.                                                              *)
THEOREM LightComesOnAsAsked ==
    ASSUME LevelType # "BYTE"
    PROVE  Spec => ComesOnAsAsked
<1>1. ASSUME IInv, [Next]_vars, NEW c \in Calls \ disturbed, Done(c),
             plc["on_off"] = 0, plc'["on_off"] = 1, NEW w \in Range(request[c].writes)
      PROVE  plc'[w.point] = w.value
    <2>1. WriteOk(c) \/ WriteError(c)
        <3>1. step \in [Calls -> {"idle", "queued", "written", "failed"}]
              /\ step[c] = "queued" /\ step'[c] # "queued"
            BY <1>1 DEF IInv, TypeOK, Done
        <3>2. ASSUME NEW d \in Calls, Call(d) \/ Job(d) PROVE WriteOk(c) \/ WriteError(c)
            BY <3>1, <3>2 DEF Call, Job, WriteOk, WriteError, NextWrite, Answer, Raise
        <3> QED BY <1>1, <3>1, <3>2 DEF Next, Refresh, PlcChange, vars
    <2>2. step[c] = "queued" /\ plc' \in {plc, Written(Current(c))}
        BY <2>1 DEF WriteOk, WriteError
    <2>3. /\ WellFormed(request[c]) /\ next[c] \in 1 .. Len(request[c].writes)
          /\ Len(request[c].writes) \in Nat
          /\ Written(Current(c)) = [plc EXCEPT ![Current(c).point] = Current(c).value]
        BY <1>1, <2>2, AtCurrent
    <2>4. plc \in [Points -> Int]
        BY <1>1 DEF IInv, TypeOK
    <2>5. plc' = [plc EXCEPT ![Current(c).point] = Current(c).value] /\ Current(c).point = "on_off"
        BY <1>1, <2>2, <2>3, <2>4 DEF Points
    <2>6. next[c] = Len(request[c].writes)
        BY <2>3, <2>5 DEF WellFormed, Current
    <2>7. PICK i \in 1 .. Len(request[c].writes) : w = request[c].writes[i]
        <3>1. request[c].writes \in Seq([point : Points, value : Int])
            BY <2>3 DEF WellFormed, RequestType
        <3>2. DOMAIN request[c].writes = 1 .. Len(request[c].writes)
            BY <3>1
        <3> QED BY <1>1, <3>2 DEF Range
    <2>8. CASE i = next[c]
        BY <2>4, <2>5, <2>7, <2>8 DEF Current, Points
    <2>9. CASE i # next[c]
        <3>1. i < next[c] /\ step[c] # "idle"
            BY <2>2, <2>3, <2>6, <2>7, <2>9
        <3>2. Progress(c)
            BY <1>1, <3>1 DEF IInv, Undisturbed, Active
        <3>3. plc[w.point] = w.value
            BY <2>7, <3>1, <3>2 DEF Progress, IsIn
        <3>4. plc'[w.point] = plc[w.point]
            BY <1>1, <2>4, <2>5, <2>7, <2>9, <3>1, OtherWritesKept
        <3> QED BY <3>3, <3>4
    <2> QED BY <2>8, <2>9
<1>2. IInv /\ [Next]_vars =>
          [\A c \in Calls \ disturbed :
               Done(c) /\ plc["on_off"] = 0 /\ plc'["on_off"] = 1
                   => \A w \in Range(request[c].writes) : plc'[w.point] = w.value]_vars
    BY <1>1
<1> QED BY <1>2, Invariance, PTL DEF Spec, ComesOnAsAsked

=============================================================================
