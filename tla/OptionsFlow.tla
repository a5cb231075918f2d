----------------------------- MODULE OptionsFlow -----------------------------
(***************************************************************************)
(* AdsMultiOptionsFlow: the dialogs in which the user edits the variables, *)
(* the lights and the route of one entry, and exports and imports it.  A   *)
(* dialog copies the two lists when it is opened, every edit saves the     *)
(* whole options dictionary and closes the dialog.                         *)
(*                                                                         *)
(* A step is one submitted form, or the update listener that Home          *)
(* Assistant schedules when a save changed the entry.  A form that is      *)
(* refused changes nothing and is no step.  Export and import are one step *)
(* here.                                                                   *)
(***************************************************************************)
EXTENDS EntryConfig, Naturals, Functions, Sublists

CONSTANTS
    Folded, Slug,           \* a light name stripped and lowered; slugified
    Flows,                  \* dialogs that may be open at the same time
    NoSession, NoFile,      \* a closed dialog, a file that does not exist
    Patient,                \* users wait until a save has been exported
    MaxLights, MaxSaves     \* bounds on the length of the list, on the edits

ASSUME NamesAssumption ==
    /\ DOMAIN Folded = LightNames
    /\ Slug \in [LightNames -> Ids]
    /\ \A m, n \in LightNames : Folded[m] = Folded[n] => Slug[m] = Slug[n]
    /\ Patient \in BOOLEAN
    /\ MaxLights \in Nat /\ MaxSaves \in Nat

ASSUME AbsentAssumption == Absent \notin LightNames /\ Absent \notin Seq(Light)

Session == [variables : SUBSET Variables, lights : Seq(Light)]
Paths == {"snapshot", "backup"}     \* the default file, one the user named

VARIABLES
    data, options,          \* the two dictionaries of the entry
    session,                \* _variables and _device_profiles of each dialog
    files, secret_value,    \* the exported documents; the stored password
    listener,               \* an update listener is scheduled
    saves

vars == <<data, options, session, files, secret_value, listener, saves>>

Now == Effective(data, options)     \* the settings the integration runs with

(* Every variable has its type. *)
TypeOK ==
    /\ data \in Config
    /\ \A k \in Keys : options[k] = Absent \/ [data EXCEPT ![k] = options[k]] \in Config
    /\ session \in [Flows -> Session \union {NoSession}]
    /\ files \in [Paths -> Document \union {NoFile}]
    /\ secret_value \in Passwords \union {Empty}
    /\ listener \in BOOLEAN
    /\ saves \in 0 .. MaxSaves

(* An entry the user added has empty lists and no reference; one that an   *)
(* import created has what the file held.  Its setup has exported it.      *)
Init ==
    /\ \E user \in Users \union {Empty}, password \in Passwords \union {Empty} :
          /\ password # Empty => user # Empty
          /\ \/ data = [variables |-> {}, lights |-> <<>>, user |-> user,
                        password |-> password, secret |-> Empty]
             \/ \E variables \in SUBSET Variables :
                    data = CreatedData([variables |-> variables, lights |-> <<>>,
                                        user |-> user, secret |-> SecretKey], password)
    /\ options = NoOptions
    /\ session = [f \in Flows |-> NoSession]
    /\ files = [p \in Paths |-> IF p = "snapshot" THEN Exported(data) ELSE NoFile]
    /\ secret_value = ExportedSecret(data, Empty)
    /\ listener = FALSE
    /\ saves = 0

-----------------------------------------------------------------------------
(* async_step_init: the lists of options, or, if absent or empty, of data. *)
OpenDialog(f) ==
    /\ session[f] = NoSession /\ saves < MaxSaves
    /\ Patient => ~listener
    /\ session' = [session EXCEPT ![f] =
          [variables |-> IF options.variables \in {Absent, {}}
                         THEN data.variables ELSE options.variables,
           lights |-> IF options.lights \in {Absent, <<>>}
                      THEN data.lights ELSE options.lights]]
    /\ UNCHANGED <<data, options, files, secret_value, listener, saves>>

(* The user closes the dialog without saving. *)
AbortDialog(f) ==
    /\ session[f] # NoSession
    /\ session' = [session EXCEPT ![f] = NoSession]
    /\ UNCHANGED <<data, options, files, secret_value, listener, saves>>

(* async_create_entry: Home Assistant stores the new options, ends the     *)
(* dialog and schedules the update listener if they differ.                *)
CreateEntry(f, new) ==
    /\ saves < MaxSaves
    /\ saves' = saves + 1
    /\ options' = new
    /\ listener' = (listener \/ new # options)
    /\ session' = [session EXCEPT ![f] = NoSession]
    /\ UNCHANGED <<data, files, secret_value>>

(* Mutant: the route is taken from data, not from options first. *)
SaveRouteOfData(f, variables, lights) ==
    CreateEntry(f, [data EXCEPT !.variables = variables, !.lights = lights])

(* _save_and_finish: the lists of the dialog, the route of the entry. *)
SaveAndFinish(f, variables, lights) ==
    CreateEntry(f, [Now EXCEPT !.variables = variables, !.lights = lights])

Finish(f) ==
    /\ session[f] # NoSession
    /\ SaveAndFinish(f, session[f].variables, session[f].lights)

AddVariable(f, v) ==
    /\ session[f] # NoSession
    /\ v \notin session[f].variables
    /\ SaveAndFinish(f, session[f].variables \union {v}, session[f].lights)

(* Choosing this step without any variable saves at once. *)
RemoveVariable(f, v) ==
    /\ session[f] # NoSession
    /\ v \in session[f].variables \/ session[f].variables = {}
    /\ SaveAndFinish(f, session[f].variables \ {v}, session[f].lights)

-----------------------------------------------------------------------------
(* Mutant: names are compared as they are written. *)
TakenAsWritten(lights, name, current) ==
    name \in {light.name : light \in Range(lights)} \ {current}

(* The name of a light other than the edited one, case set aside. *)
Taken(lights, name, current) ==
    Folded[name] \in {Folded[light.name] : light \in Range(lights)}
                         \ {Folded[n] : n \in LightNames \intersect {current}}

AddLight(f, name) ==
    /\ session[f] # NoSession
    /\ LET lights == session[f].lights
       IN  /\ Len(lights) < MaxLights
           /\ ~Taken(lights, name, Absent)
           /\ SaveAndFinish(f, session[f].variables,
                            Append(lights, [name |-> name, id |-> Slug[name]]))

(* Mutant: the id follows the name. *)
IdOfName(light, name) == Slug[name]

(* _validate_and_build_light_profile: an edited light keeps its id. *)
EditedId(light, name) == light.id

(* A light is selected and its form submitted: the first one of its name.  *)
(* Between the two forms nothing else touches the lists of this dialog.    *)
EditLight(f, i, name) ==
    /\ session[f] # NoSession
    /\ LET lights == session[f].lights
       IN  /\ i \in DOMAIN lights
           /\ \A j \in 1 .. i - 1 : lights[j].name # lights[i].name
           /\ ~Taken(lights, name, lights[i].name)
           /\ SaveAndFinish(f, session[f].variables,
                            [lights EXCEPT ![i] = [name |-> name,
                                                   id |-> EditedId(lights[i], name)]])

RemoveLight(f, name) ==
    /\ session[f] # NoSession
    /\ LET lights == session[f].lights
           others == {i \in DOMAIN lights : lights[i].name # name}
       IN  /\ lights = <<>> \/ \E light \in Range(lights) : light.name = name
           /\ SaveAndFinish(f, session[f].variables, Sublist(lights, others))

(* async_step_manage_route: a password needs a user; the lists of the      *)
(* dialog are saved with it.                                               *)
ManageRoute(f, user, password) ==
    /\ session[f] # NoSession
    /\ password # Empty => user # Empty
    /\ CreateEntry(f, [variables |-> session[f].variables, lights |-> session[f].lights,
                       user |-> user, password |-> password, secret |-> Now.secret])

-----------------------------------------------------------------------------
(* async_export_settings_to_yaml, here of the one entry, to a path. *)
Export(path, config) ==
    /\ files' = [files EXCEPT ![path] = Exported(config)]
    /\ secret_value' = ExportedSecret(config, secret_value)

(* The menu comes back with the lists the dialog was opened with. *)
ExportSettings(f, path) ==
    /\ session[f] # NoSession
    /\ Export(path, Now)
    /\ UNCHANGED <<data, options, session, listener, saves>>

(* async_import_settings_from_yaml overwrites both dictionaries, with the  *)
(* automatic export held back, and exports to the default file at the end; *)
(* without overwrite_existing it only exports.  The dialog goes on with    *)
(* the lists it was opened with.                                           *)
ImportSettings(f, path, overwrite) ==
    /\ session[f] # NoSession /\ files[path] # NoFile /\ saves < MaxSaves
    /\ saves' = saves + 1
    /\ IF overwrite
       THEN LET password == ImportedPassword(files[path], secret_value, Now.password)
            IN  /\ data' = ImportedData(files[path], password)
                /\ options' = ImportedOptions(files[path], password)
       ELSE UNCHANGED <<data, options>>
    /\ Export("snapshot", Effective(data', options'))
    /\ UNCHANGED <<session, listener>>

(* async_reload_entry: the export to the default file before the reload. *)
AsyncReloadEntry ==
    /\ listener
    /\ listener' = FALSE
    /\ Export("snapshot", Now)
    /\ UNCHANGED <<data, options, session, saves>>

-----------------------------------------------------------------------------
Variable(f) == \E v \in Variables : AddVariable(f, v) \/ RemoveVariable(f, v)
LightProfile(f) == \E name \in LightNames :
                       \/ AddLight(f, name) \/ RemoveLight(f, name)
                       \/ \E i \in 1 .. MaxLights : EditLight(f, i, name)
Route(f) == \E user \in Users \union {Empty}, password \in Passwords \union {Empty} :
                ManageRoute(f, user, password)
Backup(f) == \E path \in Paths :
                 \/ ExportSettings(f, path)
                 \/ \E overwrite \in BOOLEAN : ImportSettings(f, path, overwrite)

(* Every bound on the edits is reached and every dialog is closed. *)
NoMoreEdits ==
    /\ saves = MaxSaves /\ ~listener
    /\ \A f \in Flows : session[f] = NoSession
    /\ UNCHANGED vars

Next == \/ \E f \in Flows : \/ OpenDialog(f) \/ AbortDialog(f) \/ Finish(f)
                            \/ Variable(f) \/ LightProfile(f) \/ Route(f) \/ Backup(f)
        \/ AsyncReloadEntry \/ NoMoreEdits

Spec == Init /\ [][Next]_vars

-----------------------------------------------------------------------------
(* Two lights whose names differ only in case are never both configured,   *)
(* whichever dialogs, renames, exports and imports led there.              *)
LightNamesDistinct ==
    \A i, j \in DOMAIN Now.lights :
        Folded[Now.lights[i].name] = Folded[Now.lights[j].name] => i = j

(* Editing variables or lights never touches the route: neither the one    *)
(* the entry was created with, nor one that another dialog or an import    *)
(* stored while this dialog was open.                                      *)
RouteOf(config) == <<config.user, config.password, config.secret>>
RouteKept ==
    [][\A f \in Flows : Finish(f) \/ Variable(f) \/ LightProfile(f)
           => RouteOf(Now') = RouteOf(Now)]_vars

(* README.md:255: "keep light profile id stable".  Renaming a light keeps  *)
(* the ids of the list, in their order.                                    *)
LightsKeepIds ==
    [][\A f \in Flows, i \in 1 .. MaxLights, name \in LightNames :
           EditLight(f, i, name) =>
               [j \in DOMAIN Now'.lights |-> Now'.lights[j].id]
                   = [j \in DOMAIN session[f].lights |-> session[f].lights[j].id]]_vars

(* README.md:185, 205: the snapshot is updated automatically, and with the *)
(* stored secret it migrates the entry: imported elsewhere, it makes an    *)
(* entry that runs with the same lists, user and password.                 *)
SnapshotMigrates ==
    ~listener =>
        LET document == files["snapshot"]
            copy == CreatedData(document, ImportedPassword(document, secret_value, Empty))
        IN  /\ copy.variables = Now.variables /\ copy.lights = Now.lights
            /\ copy.user = Now.user
            /\ Now.password # Empty => copy.password = Now.password

-----------------------------------------------------------------------------
(* What the repository says and the code does not keep. *)

(* The id of a light makes the unique id of its entity (light.py:79-81),   *)
(* and entity_profiles.py:31 ensures "a permanent ID" for light profiles:  *)
(* no two lights share one.                                                *)
LightIdsDistinct ==
    \A i, j \in DOMAIN Now.lights : Now.lights[i].id = Now.lights[j].id => i = j

(* README.md:175: "Add/remove variables".  A variable that is not there    *)
(* comes (back) only by adding or importing it.                            *)
RemovedStaysRemoved ==
    [][\A v \in Now'.variables \ Now.variables :
           \E f \in Flows : AddVariable(f, v) \/ Backup(f)]_vars

(* strings.json:35: the menu shows the variables of the entry ("Muuttujat: *)
(* {variables}").  If it was right before an import, it is right when it   *)
(* comes back after it.                                                    *)
MenuShowsImport ==
    [][\A f \in Flows :
           Backup(f) /\ session[f].variables = Now.variables
               => session'[f].variables = Now'.variables]_vars

(* strings.json:141: "Salasana vaatii käyttäjänimen", a password requires  *)
(* a user name.                                                            *)
PasswordNeedsUser == Now.password # Empty => Now.user # Empty
=============================================================================
