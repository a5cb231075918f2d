----------------------------- MODULE ReadPoints -----------------------------
(***************************************************************************)
(* Which ADS points an entry reads and which entities show or write them:  *)
(* the coordinator merges variables and profiles into one list of points   *)
(* and splits it by read mode, the platforms choose their own variables.   *)
(*                                                                         *)
(* A configuration is what effective_option returns: a list of variables   *)
(* and a list of profiles, whose sections are the points they refer to.    *)
(***************************************************************************)
EXTENDS Naturals, Sequences, SequencesExt, Sublists

CONSTANTS
    Names, TypeNames,       \* symbols; how a type may be spelled
    Upper,                  \* str.upper of a type name
    Blank                   \* an empty name or type

ASSUME SpellingAssumption ==
    /\ Upper \in [TypeNames \union {Blank} -> TypeNames \union {Blank}]
    /\ \A t \in TypeNames : Upper[t] # Blank /\ Upper[Upper[t]] = Upper[t]
    /\ Upper[Blank] = Blank /\ Blank \notin Names

Variable == [name : Names \union {Blank}, type : TypeNames \union {Blank},
             async_read : BOOLEAN, writable : BOOLEAN]
Section == [name : Names \union {Blank}, type : TypeNames \union {Blank}]
Profile == [light : BOOLEAN, sections : Seq(Section)]
Config == [variables : Seq(Variable), device_profiles : Seq(Profile)]
Point == [name : Names, type : TypeNames]

NUMERIC_TYPES == {"BYTE", "WORD", "DWORD", "INT", "DINT", "REAL", "LREAL"}
SENSOR_TYPES == NUMERIC_TYPES \union {"STRING", "TIME"}

-----------------------------------------------------------------------------
(* What both lists keep of an item: its symbol and its type in capitals;   *)
(* an item that lacks one of them is passed over.                          *)
Complete(item) == item.name # Blank /\ item.type # Blank
Key(item) == [name |-> item.name, type |-> Upper[item.type]]

get_profiles_by_type(profiles) == Sublist(profiles, {i \in DOMAIN profiles : profiles[i].light})

SectionsOf(profiles) == FlattenSeq([i \in DOMAIN profiles |-> profiles[i].sections])

(* The sections of all profiles in order; one whose key has been seen is   *)
(* passed over.                                                            *)
collect_profile_points(profiles) ==
    LET sections == SectionsOf(profiles)
        named == {i \in DOMAIN sections : Complete(sections[i])}
        kept == Sublist(sections, {i \in named :
                    \A j \in named : Key(sections[j]) = Key(sections[i]) => i <= j})
    IN  [n \in DOMAIN kept |-> Key(kept[n])]

(* points_by_key as a list in the order of insertion. *)
Asked(key, async) == [name |-> key.name, type |-> key.type, async_read |-> async]

(* Mutant: the last one to ask decides the read mode. *)
MergeLastWins(points, asked) ==
    IF \E i \in DOMAIN points : Key(points[i]) = Key(asked)
    THEN [i \in DOMAIN points |-> IF Key(points[i]) = Key(asked) THEN asked ELSE points[i]]
    ELSE Append(points, asked)

(* A point asked for twice is kept once and is async if either asks so. *)
Merge(points, asked) ==
    IF \E i \in DOMAIN points : Key(points[i]) = Key(asked)
    THEN [i \in DOMAIN points |->
             IF Key(points[i]) = Key(asked)
             THEN Asked(Key(asked), points[i].async_read \/ asked.async_read) ELSE points[i]]
    ELSE Append(points, asked)

(* points_by_key after the first n requests. *)
PointsByKey(asked) ==
    LET points_by_key[n \in 0 .. Len(asked)] ==
            IF n = 0 THEN <<>> ELSE Merge(points_by_key[n - 1], asked[n])
    IN  points_by_key

(* First the variables, then the points of the profiles: those of a light  *)
(* are always async, those of any other profile never by themselves.       *)
Requests(variables, profiles) ==
    LET named == Sublist(variables, {i \in DOMAIN variables : Complete(variables[i])})
        light_points == collect_profile_points(get_profiles_by_type(profiles))
        profile_points == collect_profile_points(profiles)
    IN  [i \in DOMAIN named |-> Asked(Key(named[i]), named[i].async_read)] \o
        [i \in DOMAIN profile_points |->
            Asked(profile_points[i], Contains(light_points, profile_points[i]))]

_build_read_points(variables, profiles) ==
    LET asked == Requests(variables, profiles)
    IN  PointsByKey(asked)[Len(asked)]

_split_read_points(points) ==
    LET those(async) == Sublist(points, {i \in DOMAIN points : points[i].async_read = async})
        bare(list) == [i \in DOMAIN list |-> Key(list[i])]
    IN  [poll |-> bare(those(FALSE)), async |-> bare(those(TRUE))]

(* The two lists of a coordinator made of this configuration. *)
ReadLists(config) ==
    _split_read_points(_build_read_points(config.variables, config.device_profiles))

-----------------------------------------------------------------------------
(* The async_setup_entry of each platform. *)
Entity(platform, variable) == [platform |-> platform, point |-> Key(variable)]

(* Mutant: the sensor and number platforms compare the type as it is spelled. *)
PlatformsAsSpelled(variable) ==
    {p \in {"sensor", "binary_sensor", "switch", "number"} :
        CASE p = "sensor" -> variable.type \in SENSOR_TYPES
          [] p = "binary_sensor" -> Upper[variable.type] = "BOOL" /\ ~variable.writable
          [] p = "switch" -> Upper[variable.type] = "BOOL" /\ variable.writable
          [] p = "number" -> variable.type \in NUMERIC_TYPES /\ variable.writable}

Platforms(variable) ==
    {p \in {"sensor", "binary_sensor", "switch", "number"} :
        CASE p = "sensor" -> Upper[variable.type] \in SENSOR_TYPES
          [] p = "binary_sensor" -> Upper[variable.type] = "BOOL" /\ ~variable.writable
          [] p = "switch" -> Upper[variable.type] = "BOOL" /\ variable.writable
          [] p = "number" -> Upper[variable.type] \in NUMERIC_TYPES /\ variable.writable}

VariableEntities(variables) ==
    UNION {{Entity(p, v) : p \in Platforms(v)} : v \in Range(variables)}

(* A light stands for all the points of its profile. *)
LightEntities(profiles) ==
    LET lights == get_profiles_by_type(profiles)
    IN  {[platform |-> "light", point |-> p] : p \in Range(collect_profile_points(lights))}

Entities(config) ==
    VariableEntities(config.variables) \union LightEntities(config.device_profiles)
=============================================================================
