----------------------------- MODULE EntryConfig -----------------------------
(***************************************************************************)
(* The settings of one PLC as the integration keeps them: two dictionaries *)
(* of a config entry (data, overridden key by key by options), an entry of *)
(* the exported YAML document, and its route password in secrets.yaml.     *)
(*                                                                         *)
(* Of a variable only its symbol is kept, of a light its name and id.  The *)
(* route name, the switch that enables the route and the sender address go *)
(* the way of the route user and are left out.                             *)
(***************************************************************************)
EXTENDS Sequences

CONSTANTS
    Variables,              \* symbols a variable may be configured for
    LightNames, Ids,        \* names and ids of light profiles
    Users, Passwords,       \* route credentials
    SecretKey,              \* the key _secret_key_for_ams makes for this PLC
    Empty, Absent           \* the empty text; a key the dictionary lacks

ASSUME TextAssumption == Empty \notin Users \union Passwords /\ SecretKey # Empty

Light == [name : LightNames, id : Ids]
Config == [variables : SUBSET Variables, lights : Seq(Light),
           user : Users \union {Empty}, password : Passwords \union {Empty},
           secret : {SecretKey, Empty}]
Document == [variables : SUBSET Variables, lights : Seq(Light),
             user : Users \union {Empty}, secret : {SecretKey, Empty}]

Keys == {"variables", "lights", "user", "password", "secret"}
NoOptions == [k \in Keys |-> Absent]

(* effective_option of every key: a key of options hides that of data. *)
Effective(data, options) ==
    [k \in Keys |-> IF options[k] = Absent THEN data[k] ELSE options[k]]

-----------------------------------------------------------------------------
(* Mutant: a password without a key yet is exported without one. *)
ExportedWithoutKey(config) ==
    [variables |-> config.variables, lights |-> config.lights, user |-> config.user,
     secret |-> config.secret]

(* What an export writes for the entry: a reference instead of the         *)
(* password, made when there is a password and no reference yet.           *)
Exported(config) ==
    [variables |-> config.variables, lights |-> config.lights, user |-> config.user,
     secret |-> IF config.secret = Empty /\ config.password # Empty
                THEN SecretKey ELSE config.secret]

(* The password in secrets.yaml, which an empty one does not replace. *)
ExportedSecret(config, stored) ==
    IF config.password = Empty THEN stored ELSE config.password

(* Mutant: the reference is taken for the password. *)
ReferenceAsPassword(document, stored, current) ==
    IF document.secret # Empty THEN document.secret ELSE current

(* The password an import gives an entry: the one of secrets.yaml, or, if  *)
(* that is missing or empty, the current one (Empty for a new entry).      *)
ImportedPassword(document, stored, current) ==
    IF document.secret # Empty /\ stored # Empty THEN stored ELSE current

(* _build_entry_data_from_payload and _build_entry_options_from_payload:   *)
(* an import writes everything into both; only options get the reference.  *)
ImportedData(document, password) ==
    [variables |-> document.variables, lights |-> document.lights,
     user |-> document.user, password |-> password, secret |-> Empty]

ImportedOptions(document, password) ==
    [ImportedData(document, password) EXCEPT
        !.secret = IF document.secret = Empty THEN Absent ELSE document.secret]

(* async_step_import: an entry that did not exist gets data only. *)
CreatedData(document, password) ==
    [ImportedData(document, password) EXCEPT !.secret = document.secret]
=============================================================================
