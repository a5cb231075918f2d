-------------------------- MODULE OptionsFlowProofs --------------------------
(***************************************************************************)
(* Proofs about OptionsFlow, for any names, credentials and numbers of     *)
(* lights, edits and open dialogs: what the entry runs with is always well *)
(* formed, no two of its lights have the same name, edits leave the route  *)
(* alone, renaming keeps ids, and the snapshot migrates the entry.         *)
(***************************************************************************)
EXTENDS OptionsFlow, SublistsProofs

(* What each key of the options may hold. *)
OptionsOK(o) ==
    /\ o["variables"] \in (SUBSET Variables) \union {Absent}
    /\ o["lights"] \in Seq(Light) \union {Absent}
    /\ o["user"] \in Users \union {Empty, Absent}
    /\ o["password"] \in Passwords \union {Empty, Absent}
    /\ o["secret"] \in {SecretKey, Empty, Absent}

(* The type invariant, with the types of the keys instead of overrides.    *)
TypeInv ==
    /\ data \in Config /\ OptionsOK(options)
    /\ session \in [Flows -> Session \union {NoSession}]
    /\ files \in [Paths -> Document \union {NoFile}]
    /\ secret_value \in Passwords \union {Empty}
    /\ listener \in BOOLEAN /\ saves \in 0 .. MaxSaves

DistinctNames(lights) ==
    \A i, j \in DOMAIN lights : Folded[lights[i].name] = Folded[lights[j].name] => i = j

(* Every list of lights there is, configured, shown by a dialog or         *)
(* exported, has distinct names: each of them may become the configured    *)
(* one.                                                                    *)
NamesInv ==
    /\ DistinctNames(data.lights)
    /\ options.lights # Absent => DistinctNames(options.lights)
    /\ \A f \in Flows : session[f] # NoSession => DistinctNames(session[f].lights)
    /\ \A p \in Paths : files[p] # NoFile => DistinctNames(files[p].lights)

(* Unless the listener still has to export it, the snapshot is what an     *)
(* export would write now, and the password it refers to is stored.        *)
SnapshotInv ==
    ~listener =>
        /\ files["snapshot"] = Exported(Now)
        /\ Now.password # Empty => secret_value = Now.password

-----------------------------------------------------------------------------
(* Records and functions of the keys                                       *)

LEMMA ConfigFields ==
  ASSUME NEW c, c = [k \in Keys |-> c[k]]
  PROVE  c \in Config <=>
            /\ c["variables"] \in SUBSET Variables /\ c["lights"] \in Seq(Light)
            /\ c["user"] \in Users \union {Empty}
            /\ c["password"] \in Passwords \union {Empty}
            /\ c["secret"] \in {SecretKey, Empty}
  BY DEF Keys, Config

(* An override of one key of a well-formed dictionary is well formed if and *)
(* only if the key's value is.                                             *)
LEMMA OptionsTyped ==
  ASSUME NEW d \in Config, NEW o
  PROVE  (\A k \in Keys : o[k] = Absent \/ [d EXCEPT ![k] = o[k]] \in Config)
            <=> OptionsOK(o)
  <1>1. /\ d["variables"] \in SUBSET Variables /\ d["lights"] \in Seq(Light)
        /\ d["user"] \in Users \union {Empty} /\ d["password"] \in Passwords \union {Empty}
        /\ d["secret"] \in {SecretKey, Empty}
        /\ d = [k \in Keys |-> d[k]]
    BY DEF Config, Keys
  <1>2. [d EXCEPT !["variables"] = o["variables"]] \in Config
           <=> o["variables"] \in SUBSET Variables
    BY <1>1 DEF Config
  <1>3. [d EXCEPT !["lights"] = o["lights"]] \in Config <=> o["lights"] \in Seq(Light)
    BY <1>1 DEF Config
  <1>4. [d EXCEPT !["user"] = o["user"]] \in Config <=> o["user"] \in Users \union {Empty}
    BY <1>1 DEF Config
  <1>5. [d EXCEPT !["password"] = o["password"]] \in Config
           <=> o["password"] \in Passwords \union {Empty}
    BY <1>1 DEF Config
  <1>6. [d EXCEPT !["secret"] = o["secret"]] \in Config <=> o["secret"] \in {SecretKey, Empty}
    BY <1>1 DEF Config
  <1> DEFINE Fits(k) == o[k] = Absent \/ [d EXCEPT ![k] = o[k]] \in Config
  <1>7. (\A k \in Keys : Fits(k))
           <=> /\ Fits("variables") /\ Fits("lights") /\ Fits("user")
               /\ Fits("password") /\ Fits("secret")
    <2> HIDE DEF Fits
    <2> QED
      BY DEF Keys
  <1>8. /\ Fits("variables") <=> o["variables"] \in (SUBSET Variables) \union {Absent}
        /\ Fits("lights") <=> o["lights"] \in Seq(Light) \union {Absent}
    BY <1>2, <1>3
  <1>9. /\ Fits("user") <=> o["user"] \in Users \union {Empty, Absent}
        /\ Fits("password") <=> o["password"] \in Passwords \union {Empty, Absent}
        /\ Fits("secret") <=> o["secret"] \in {SecretKey, Empty, Absent}
    BY <1>4, <1>5, <1>6
  <1> HIDE DEF Fits
  <1>10. (\A k \in Keys : Fits(k)) <=> OptionsOK(o)
    BY <1>7, <1>8, <1>9 DEF OptionsOK
  <1> QED
    BY <1>10 DEF Fits

(* The settings the integration runs with are well formed.                 *)
LEMMA EffectiveTyped ==
  ASSUME NEW d \in Config, NEW o, OptionsOK(o)
  PROVE  Effective(d, o) \in Config
  <1>1. /\ d["variables"] \in SUBSET Variables /\ d["lights"] \in Seq(Light)
        /\ d["user"] \in Users \union {Empty} /\ d["password"] \in Passwords \union {Empty}
        /\ d["secret"] \in {SecretKey, Empty}
    BY DEF Config
  <1>2. \A k \in Keys : Effective(d, o)[k] = IF o[k] = Absent THEN d[k] ELSE o[k]
    BY DEF Effective
  <1> DEFINE e == Effective(d, o)
  <1>3. e["variables"] \in SUBSET Variables /\ e["lights"] \in Seq(Light)
    <2>1. "variables" \in Keys /\ "lights" \in Keys
      BY DEF Keys
    <2> QED
      BY <1>1, <1>2, <2>1 DEF OptionsOK
  <1>4. /\ e["user"] \in Users \union {Empty} /\ e["password"] \in Passwords \union {Empty}
        /\ e["secret"] \in {SecretKey, Empty}
    <2>1. "user" \in Keys /\ "password" \in Keys /\ "secret" \in Keys
      BY DEF Keys
    <2> QED
      BY <1>1, <1>2, <2>1 DEF OptionsOK
  <1>5. e = [k \in Keys |-> e[k]]
    BY DEF Effective
  <1> HIDE DEF e
  <1> QED
    BY <1>3, <1>4, <1>5, ConfigFields DEF e

LEMMA ExportTyped ==
  ASSUME NEW c \in Config, NEW stored \in Passwords \union {Empty}
  PROVE  Exported(c) \in Document /\ ExportedSecret(c, stored) \in Passwords \union {Empty}
  BY DEF Config, Document, Exported, ExportedSecret

LEMMA ImportTyped ==
  ASSUME NEW document \in Document,
         NEW stored \in Passwords \union {Empty}, NEW current \in Passwords \union {Empty}
  PROVE  LET password == ImportedPassword(document, stored, current)
         IN  /\ password \in Passwords \union {Empty}
             /\ ImportedData(document, password) \in Config
             /\ OptionsOK(ImportedOptions(document, password))
             /\ CreatedData(document, password) \in Config
  <1>1. ImportedPassword(document, stored, current) \in Passwords \union {Empty}
    BY DEF ImportedPassword
  <1>2. ASSUME NEW password \in Passwords \union {Empty}
        PROVE  /\ ImportedData(document, password) \in Config
               /\ OptionsOK(ImportedOptions(document, password))
               /\ CreatedData(document, password) \in Config
    BY DEF Document, Config, ImportedData, ImportedOptions, CreatedData, OptionsOK
  <1> QED
    BY <1>1, <1>2

-----------------------------------------------------------------------------
(* Types                                                                   *)

LEMMA TypeInvImplies ==
  ASSUME TypeInv
  PROVE  TypeOK /\ Now \in Config
  <1>1. data \in Config /\ OptionsOK(options)
    BY DEF TypeInv
  <1>2. \A k \in Keys : options[k] = Absent \/ [data EXCEPT ![k] = options[k]] \in Config
    BY <1>1, OptionsTyped
  <1>3. Now \in Config
    BY <1>1, EffectiveTyped DEF Now
  <1> QED
    BY <1>2, <1>3 DEF TypeInv, TypeOK

LEMMA InitTypeInv == Init => TypeInv
  <1> SUFFICES ASSUME Init PROVE TypeInv
    OBVIOUS
  <1>1. data \in Config
    <2>1. PICK user \in Users \union {Empty}, password \in Passwords \union {Empty} :
             \/ data = [variables |-> {}, lights |-> <<>>, user |-> user,
                        password |-> password, secret |-> Empty]
             \/ \E variables \in SUBSET Variables :
                    data = CreatedData([variables |-> variables, lights |-> <<>>,
                                        user |-> user, secret |-> SecretKey], password)
      BY DEF Init
    <2>2. <<>> \in Seq(Light)
      OBVIOUS
    <2>3. ASSUME NEW variables \in SUBSET Variables
          PROVE  CreatedData([variables |-> variables, lights |-> <<>>,
                              user |-> user, secret |-> SecretKey], password) \in Config
      BY <2>2 DEF CreatedData, ImportedData, Config
    <2>4. [variables |-> {}, lights |-> <<>>, user |-> user, password |-> password,
           secret |-> Empty] \in Config
      BY <2>2 DEF Config
    <2> QED
      BY <2>1, <2>3, <2>4
  <1>2. OptionsOK(options)
    BY DEF Init, NoOptions, OptionsOK, Keys
  <1>3. Exported(data) \in Document /\ secret_value \in Passwords \union {Empty}
    <2>1. secret_value = ExportedSecret(data, Empty)
      BY DEF Init
    <2> QED
      BY <1>1, <2>1, ExportTyped
  <1>4. files \in [Paths -> Document \union {NoFile}]
    BY <1>3 DEF Init, Paths
  <1>5. session \in [Flows -> Session \union {NoSession}] /\ listener \in BOOLEAN
    BY DEF Init
  <1>6. saves \in 0 .. MaxSaves
    BY NamesAssumption DEF Init
  <1> QED
    BY <1>1, <1>2, <1>3, <1>4, <1>5, <1>6 DEF TypeInv

(* A dialog that is open shows well-formed lists.                          *)
LEMMA SessionTyped ==
  ASSUME TypeInv, NEW f \in Flows, session[f] # NoSession
  PROVE  session[f].variables \in SUBSET Variables /\ session[f].lights \in Seq(Light)
  BY DEF TypeInv, Session

LEMMA CreateEntryTyped ==
  ASSUME TypeInv, NEW f \in Flows, NEW new \in Config, CreateEntry(f, new)
  PROVE  TypeInv'
  <1>1. OptionsOK(options')
    BY DEF CreateEntry, Config, OptionsOK
  <1>2. listener \in BOOLEAN /\ saves \in 0 .. MaxSaves /\ MaxSaves \in Nat
    BY NamesAssumption DEF TypeInv
  <1>3. listener' \in BOOLEAN /\ saves' \in 0 .. MaxSaves
    BY <1>2 DEF CreateEntry
  <1>4. session' \in [Flows -> Session \union {NoSession}]
    BY DEF CreateEntry, TypeInv
  <1> QED
    BY <1>1, <1>3, <1>4 DEF CreateEntry, TypeInv

(* Saving well-formed lists leaves everything well formed.                 *)
LEMMA SaveTyped ==
  ASSUME TypeInv, NEW f \in Flows, NEW variables \in SUBSET Variables,
         NEW lights \in Seq(Light), SaveAndFinish(f, variables, lights)
  PROVE  TypeInv'
  <1>1. Now \in Config
    BY TypeInvImplies
  <1>2. [Now EXCEPT !.variables = variables, !.lights = lights] \in Config
    BY <1>1 DEF Config
  <1> QED
    BY <1>2, CreateEntryTyped DEF SaveAndFinish

(* The exports: of what the integration runs with, to one of the paths.    *)
LEMMA ExportedFilesTyped ==
  ASSUME TypeInv, NEW path \in Paths, NEW c \in Config, Export(path, c)
  PROVE  /\ files' \in [Paths -> Document \union {NoFile}]
         /\ secret_value' \in Passwords \union {Empty}
  <1>1. Exported(c) \in Document /\ ExportedSecret(c, secret_value) \in Passwords \union {Empty}
    BY ExportTyped DEF TypeInv
  <1> QED
    BY <1>1 DEF Export, TypeInv

LEMMA ImportTypeInv ==
  ASSUME TypeInv, NEW f \in Flows, NEW path \in Paths, NEW overwrite \in BOOLEAN,
         ImportSettings(f, path, overwrite)
  PROVE  TypeInv'
  <1>1. files[path] \in Document /\ secret_value \in Passwords \union {Empty}
    BY DEF TypeInv, ImportSettings
  <1>2. Now \in Config /\ Now.password \in Passwords \union {Empty}
    BY TypeInvImplies DEF Config
  <1>3. data' \in Config /\ OptionsOK(options')
    <2>1. CASE overwrite
      BY <1>1, <1>2, <2>1, ImportTyped DEF ImportSettings
    <2>2. CASE ~overwrite
      BY <2>2 DEF ImportSettings, TypeInv
    <2> QED
      BY <2>1, <2>2
  <1>4. Effective(data', options') \in Config
    BY <1>3, EffectiveTyped
  <1>5. /\ files' \in [Paths -> Document \union {NoFile}]
        /\ secret_value' \in Passwords \union {Empty}
    BY <1>4, ExportedFilesTyped DEF ImportSettings, Paths
  <1>6. saves' \in 0 .. MaxSaves
    BY NamesAssumption DEF ImportSettings, TypeInv
  <1> QED
    BY <1>3, <1>5, <1>6 DEF TypeInv, ImportSettings

(* The lists that the light forms save are lists of lights.                *)
LEMMA EditedListsTyped ==
  ASSUME NEW lights \in Seq(Light), NEW name \in LightNames
  PROVE  /\ Append(lights, [name |-> name, id |-> Slug[name]]) \in Seq(Light)
         /\ \A i \in DOMAIN lights :
               [lights EXCEPT ![i] = [name |-> name, id |-> EditedId(lights[i], name)]]
                   \in Seq(Light)
         /\ Sublist(lights, {i \in DOMAIN lights : lights[i].name # name}) \in Seq(Light)
  <1>1. [name |-> name, id |-> Slug[name]] \in Light
    BY NamesAssumption DEF Light
  <1>2. Append(lights, [name |-> name, id |-> Slug[name]]) \in Seq(Light)
    BY <1>1
  <1>3. ASSUME NEW i \in DOMAIN lights
        PROVE  [lights EXCEPT ![i] = [name |-> name, id |-> EditedId(lights[i], name)]]
                   \in Seq(Light)
    <2>1. lights[i] \in Light
      OBVIOUS
    <2>2. [name |-> name, id |-> EditedId(lights[i], name)] \in Light
      BY <2>1 DEF Light, EditedId
    <2> QED
      BY <2>2
  <1> DEFINE others == {i \in DOMAIN lights : lights[i].name # name}
  <1>4. Sublist(lights, others) \in Seq(Light)
    <2>1. others \subseteq DOMAIN lights
      OBVIOUS
    <2> HIDE DEF others
    <2> QED
      BY <2>1, SublistTakes
  <1> QED
    BY <1>2, <1>3, <1>4

LEMMA NextTypeInv == TypeInv /\ [Next]_vars => TypeInv'
  <1> SUFFICES ASSUME TypeInv, [Next]_vars PROVE TypeInv'
    OBVIOUS
  <1> USE DEF vars
  <1>1. ASSUME NEW f \in Flows, OpenDialog(f) PROVE TypeInv'
    <2>1. /\ data.variables \in SUBSET Variables /\ data.lights \in Seq(Light)
          /\ options.variables \in (SUBSET Variables) \union {Absent}
          /\ options.lights \in Seq(Light) \union {Absent}
      BY DEF TypeInv, Config, OptionsOK
    <2>2. session' \in [Flows -> Session \union {NoSession}]
      BY <1>1, <2>1 DEF OpenDialog, Session, TypeInv
    <2> QED
      BY <1>1, <2>2 DEF OpenDialog, TypeInv
  <1>2. ASSUME NEW f \in Flows, AbortDialog(f) PROVE TypeInv'
    BY <1>2 DEF AbortDialog, TypeInv
  <1>3. ASSUME NEW f \in Flows, Finish(f) PROVE TypeInv'
    BY <1>3, SessionTyped, SaveTyped DEF Finish
  <1>4. ASSUME NEW f \in Flows, NEW v \in Variables, AddVariable(f, v) PROVE TypeInv'
    <2>1. /\ session[f].variables \union {v} \in SUBSET Variables
          /\ session[f].lights \in Seq(Light)
      BY <1>4, SessionTyped DEF AddVariable
    <2> QED
      BY <1>4, <2>1, SaveTyped DEF AddVariable
  <1>5. ASSUME NEW f \in Flows, NEW v \in Variables, RemoveVariable(f, v) PROVE TypeInv'
    <2>1. session[f].variables \ {v} \in SUBSET Variables /\ session[f].lights \in Seq(Light)
      BY <1>5, SessionTyped DEF RemoveVariable
    <2> QED
      BY <1>5, <2>1, SaveTyped DEF RemoveVariable
  <1>6. ASSUME NEW f \in Flows, NEW name \in LightNames, AddLight(f, name) PROVE TypeInv'
    BY <1>6, SessionTyped, EditedListsTyped, SaveTyped DEF AddLight
  <1>7. ASSUME NEW f \in Flows, NEW name \in LightNames, RemoveLight(f, name) PROVE TypeInv'
    <2> DEFINE lights == session[f].lights
               others == {i \in DOMAIN lights : lights[i].name # name}
    <2>1. session[f].variables \in SUBSET Variables /\ lights \in Seq(Light)
      BY <1>7, SessionTyped DEF RemoveLight
    <2>2. Sublist(lights, others) \in Seq(Light)
      BY <2>1, EditedListsTyped
    <2>3. SaveAndFinish(f, session[f].variables, Sublist(lights, others))
      BY <1>7 DEF RemoveLight
    <2> HIDE DEF lights, others
    <2> QED
      BY <2>1, <2>2, <2>3, SaveTyped
  <1>8. ASSUME NEW f \in Flows, NEW i, NEW name \in LightNames, EditLight(f, i, name)
        PROVE  TypeInv'
    BY <1>8, SessionTyped, EditedListsTyped, SaveTyped DEF EditLight
  <1>9. ASSUME NEW f \in Flows, Route(f) PROVE TypeInv'
    <2>1. PICK user \in Users \union {Empty}, password \in Passwords \union {Empty} :
             ManageRoute(f, user, password)
      BY <1>9 DEF Route
    <2>2. Now.secret \in {SecretKey, Empty}
      BY TypeInvImplies DEF Config
    <2>3. session[f].variables \in SUBSET Variables /\ session[f].lights \in Seq(Light)
      BY <2>1, SessionTyped DEF ManageRoute
    <2>4. [variables |-> session[f].variables, lights |-> session[f].lights,
           user |-> user, password |-> password, secret |-> Now.secret] \in Config
      BY <2>2, <2>3 DEF Config
    <2> QED
      BY <2>1, <2>4, CreateEntryTyped DEF ManageRoute
  <1>10. ASSUME NEW f \in Flows, NEW path \in Paths, ExportSettings(f, path) PROVE TypeInv'
    <2>1. /\ files' \in [Paths -> Document \union {NoFile}]
          /\ secret_value' \in Passwords \union {Empty}
      BY <1>10, TypeInvImplies, ExportedFilesTyped DEF ExportSettings
    <2> QED
      BY <1>10, <2>1 DEF ExportSettings, TypeInv
  <1>11. ASSUME AsyncReloadEntry PROVE TypeInv'
    <2>1. /\ files' \in [Paths -> Document \union {NoFile}]
          /\ secret_value' \in Passwords \union {Empty}
      BY <1>11, TypeInvImplies, ExportedFilesTyped DEF AsyncReloadEntry, Paths
    <2> QED
      BY <1>11, <2>1 DEF AsyncReloadEntry, TypeInv
  <1>12. CASE UNCHANGED vars
    BY <1>12 DEF TypeInv
  <1> QED
    BY <1>1, <1>2, <1>3, <1>4, <1>5, <1>6, <1>7, <1>8, <1>9, <1>10, <1>11, <1>12, ImportTypeInv
       DEF Next, Variable, LightProfile, Backup, NoMoreEdits

(* What the integration runs with, what the dialogs show and what the files *)
(* hold is well formed, whatever is edited, exported and imported in       *)
(* whatever order.                                                         *)
THEOREM TypeCorrect == Spec => [](TypeInv /\ TypeOK)
  <1>1. TypeInv => TypeInv /\ TypeOK
    BY TypeInvImplies
  <1> QED
    BY <1>1, InitTypeInv, NextTypeInv, PTL DEF Spec

-----------------------------------------------------------------------------
(* Names of lights                                                         *)

LEMMA AppendKeepsDistinct ==
  ASSUME NEW lights \in Seq(Light), DistinctNames(lights), NEW name \in LightNames, NEW id,
         ~Taken(lights, name, Absent)
  PROVE  DistinctNames(Append(lights, [name |-> name, id |-> id]))
  <1> DEFINE longer == Append(lights, [name |-> name, id |-> id])
  <1>1. \A i \in DOMAIN lights : Folded[lights[i].name] # Folded[name]
    <2>1. {Folded[n] : n \in LightNames \intersect {Absent}} = {}
      BY AbsentAssumption
    <2>2. Folded[name] \notin {Folded[light.name] : light \in Range(lights)}
      BY <2>1 DEF Taken
    <2> QED
      BY <2>2 DEF Range
  <1>2. /\ DOMAIN lights = 1 .. Len(lights) /\ DOMAIN longer = 1 .. Len(lights) + 1
        /\ Len(lights) \in Nat
        /\ \A i \in DOMAIN lights : longer[i] = lights[i]
        /\ longer[Len(lights) + 1].name = name
    OBVIOUS
  <1> HIDE DEF longer
  <1>3. \A i \in DOMAIN longer : i \in DOMAIN lights \/ i = Len(lights) + 1
    BY <1>2
  <1>4. DistinctNames(longer)
    BY <1>1, <1>2, <1>3 DEF DistinctNames
  <1> QED
    BY <1>4 DEF longer

LEMMA EditKeepsDistinct ==
  ASSUME NEW lights \in Seq(Light), DistinctNames(lights), NEW name \in LightNames, NEW id,
         NEW i \in DOMAIN lights, ~Taken(lights, name, lights[i].name)
  PROVE  DistinctNames([lights EXCEPT ![i] = [name |-> name, id |-> id]])
  <1> DEFINE edited == [lights EXCEPT ![i] = [name |-> name, id |-> id]]
  <1>1. lights[i].name \in LightNames
    <2>1. lights[i] \in Light
      OBVIOUS
    <2> QED
      BY <2>1 DEF Light
  <1>2. {Folded[n] : n \in LightNames \intersect {lights[i].name}} = {Folded[lights[i].name]}
    BY <1>1
  <1>3. \A j \in DOMAIN lights :
           Folded[lights[j].name] = Folded[name]
               => Folded[lights[j].name] = Folded[lights[i].name]
    <2>1. ASSUME NEW j \in DOMAIN lights, Folded[lights[j].name] = Folded[name]
          PROVE  Folded[lights[j].name] = Folded[lights[i].name]
      <3>1. Folded[name] \in {Folded[light.name] : light \in Range(lights)}
        BY <2>1 DEF Range
      <3> QED
        BY <1>2, <2>1, <3>1 DEF Taken
    <2> QED
      BY <2>1
  <1>4. \A j \in DOMAIN lights : j # i => Folded[lights[j].name] # Folded[name]
    BY <1>3 DEF DistinctNames
  <1>5. /\ DOMAIN edited = DOMAIN lights
        /\ edited[i].name = name
        /\ \A j \in DOMAIN lights : j # i => edited[j] = lights[j]
    OBVIOUS
  <1> HIDE DEF edited
  <1>6. DistinctNames(edited)
    BY <1>4, <1>5 DEF DistinctNames
  <1> QED
    BY <1>6 DEF edited

LEMMA SublistKeepsDistinct ==
  ASSUME NEW lights \in Seq(Light), DistinctNames(lights),
         NEW kept, kept \subseteq DOMAIN lights
  PROVE  DistinctNames(Sublist(lights, kept))
  <1> DEFINE shorter == Sublist(lights, kept)
  <1>1. \A m, n \in DOMAIN shorter : m # n =>
           \E i, j \in kept : i # j /\ shorter[m] = lights[i] /\ shorter[n] = lights[j]
    BY SublistTakes
  <1> HIDE DEF shorter
  <1>2. ASSUME NEW m \in DOMAIN shorter, NEW n \in DOMAIN shorter, m # n,
               Folded[shorter[m].name] = Folded[shorter[n].name]
        PROVE  FALSE
    <2>1. PICK i \in kept, j \in kept :
             i # j /\ shorter[m] = lights[i] /\ shorter[n] = lights[j]
      BY <1>1, <1>2
    <2> QED
      BY <1>2, <2>1 DEF DistinctNames
  <1> QED
    BY <1>2 DEF DistinctNames, shorter

LEMMA CreateEntryNames ==
  ASSUME NamesInv, NEW f \in Flows, NEW new, DistinctNames(new.lights), CreateEntry(f, new),
         session \in [Flows -> Session \union {NoSession}]
  PROVE  NamesInv'
  <1>1. \A g \in Flows : session'[g] = session[g] \/ session'[g] = NoSession
    BY DEF CreateEntry
  <1> QED
    BY <1>1 DEF NamesInv, CreateEntry, DistinctNames

LEMMA SaveNames ==
  ASSUME NamesInv, TypeInv, NEW f \in Flows, NEW variables, NEW lights, DistinctNames(lights),
         SaveAndFinish(f, variables, lights)
  PROVE  NamesInv'
  <1> DEFINE new == [Now EXCEPT !.variables = variables, !.lights = lights]
  <1>1. new.lights = lights
    BY DEF Now, Effective, Keys
  <1>2. CreateEntry(f, new)
    BY DEF SaveAndFinish
  <1> HIDE DEF new
  <1> QED
    BY <1>1, <1>2, CreateEntryNames DEF TypeInv

LEMMA NowNames == NamesInv => DistinctNames(Now.lights)
  BY DEF NamesInv, Now, Effective, Keys

LEMMA InitNamesInv == Init => NamesInv
  <1> SUFFICES ASSUME Init PROVE NamesInv
    OBVIOUS
  <1>1. data.lights = <<>>
    <2>1. \A document, password : CreatedData(document, password).lights = document.lights
      BY DEF CreatedData, ImportedData
    <2> QED
      BY <2>1 DEF Init
  <1>2. Exported(data).lights = <<>>
    BY <1>1 DEF Exported
  <1>3. DistinctNames(<<>>)
    BY DEF DistinctNames
  <1>4. \A p \in Paths : files[p] # NoFile => files[p].lights = <<>>
    BY <1>2 DEF Init, Paths
  <1>5. options.lights = Absent /\ \A f \in Flows : session[f] = NoSession
    BY DEF Init, NoOptions, Keys
  <1> QED
    BY <1>1, <1>3, <1>4, <1>5 DEF NamesInv

LEMMA ExportNames ==
  ASSUME TypeInv, NamesInv, NEW path \in Paths, NEW c, DistinctNames(c.lights),
         Export(path, c), NEW p \in Paths, files'[p] # NoFile
  PROVE  DistinctNames(files'[p].lights)
  BY DEF TypeInv, NamesInv, Export, Exported

LEMMA NextNamesInv == TypeInv /\ NamesInv /\ [Next]_vars => NamesInv'
  <1> SUFFICES ASSUME TypeInv, NamesInv, [Next]_vars PROVE NamesInv'
    OBVIOUS
  <1> USE DEF vars
  <1>1. ASSUME NEW f \in Flows, OpenDialog(f) PROVE NamesInv'
    <2>1. DistinctNames(session'[f].lights)
      BY <1>1 DEF OpenDialog, NamesInv, TypeInv
    <2>2. \A g \in Flows : g # f => session'[g] = session[g]
      BY <1>1 DEF OpenDialog
    <2>3. \A g \in Flows : session'[g] # NoSession => DistinctNames(session'[g].lights)
      BY <2>1, <2>2 DEF NamesInv
    <2> QED
      BY <1>1, <2>3 DEF NamesInv, OpenDialog, DistinctNames
  <1>2. ASSUME NEW f \in Flows, AbortDialog(f) PROVE NamesInv'
    <2>1. \A g \in Flows : session'[g] = session[g] \/ session'[g] = NoSession
      BY <1>2 DEF AbortDialog, TypeInv
    <2> QED
      BY <1>2, <2>1 DEF NamesInv, AbortDialog, DistinctNames
  <1>3. ASSUME NEW f \in Flows, session[f] # NoSession, NEW variables,
               SaveAndFinish(f, variables, session[f].lights)
        PROVE  NamesInv'
    BY <1>3, SaveNames DEF NamesInv
  <1>4. ASSUME NEW f \in Flows, NEW name \in LightNames, AddLight(f, name) PROVE NamesInv'
    <2>1. session[f].lights \in Seq(Light) /\ DistinctNames(session[f].lights)
      BY <1>4, SessionTyped DEF AddLight, NamesInv
    <2> QED
      BY <1>4, <2>1, AppendKeepsDistinct, SaveNames DEF AddLight
  <1>5. ASSUME NEW f \in Flows, NEW name \in LightNames, RemoveLight(f, name) PROVE NamesInv'
    <2> DEFINE lights == session[f].lights
               others == {i \in DOMAIN lights : lights[i].name # name}
    <2>1. lights \in Seq(Light) /\ DistinctNames(lights) /\ others \subseteq DOMAIN lights
      BY <1>5, SessionTyped DEF RemoveLight, NamesInv
    <2>2. SaveAndFinish(f, session[f].variables, Sublist(lights, others))
      BY <1>5 DEF RemoveLight
    <2> HIDE DEF lights, others
    <2> QED
      BY <2>1, <2>2, SublistKeepsDistinct, SaveNames
  <1>6. ASSUME NEW f \in Flows, NEW i, NEW name \in LightNames, EditLight(f, i, name)
        PROVE  NamesInv'
    <2>1. session[f].lights \in Seq(Light) /\ DistinctNames(session[f].lights)
      BY <1>6, SessionTyped DEF EditLight, NamesInv
    <2> QED
      BY <1>6, <2>1, EditKeepsDistinct, SaveNames DEF EditLight
  <1>7. ASSUME NEW f \in Flows, NEW user, NEW password, ManageRoute(f, user, password)
        PROVE  NamesInv'
    <2>1. DistinctNames(session[f].lights)
      BY <1>7 DEF ManageRoute, NamesInv
    <2> QED
      BY <1>7, <2>1, CreateEntryNames DEF ManageRoute, TypeInv
  <1>8. ASSUME NEW f \in Flows, NEW path \in Paths, ExportSettings(f, path) PROVE NamesInv'
    <2>1. \A p \in Paths : files'[p] # NoFile => DistinctNames(files'[p].lights)
      BY <1>8, NowNames, ExportNames DEF ExportSettings
    <2> QED
      BY <1>8, <2>1 DEF NamesInv, ExportSettings, DistinctNames
  <1>9. ASSUME NEW f \in Flows, NEW path \in Paths, NEW overwrite \in BOOLEAN,
               ImportSettings(f, path, overwrite)
        PROVE  NamesInv'
    <2>1. \/ data'.lights = files[path].lights /\ options'.lights = files[path].lights
          \/ data' = data /\ options' = options
      BY <1>9 DEF ImportSettings, ImportedData, ImportedOptions
    <2>2. /\ DistinctNames(data'.lights)
          /\ options'.lights # Absent => DistinctNames(options'.lights)
      BY <1>9, <2>1 DEF NamesInv, ImportSettings
    <2>3. DistinctNames(Effective(data', options').lights)
      BY <2>2 DEF Effective, Keys
    <2>4. \A p \in Paths : files'[p] # NoFile => DistinctNames(files'[p].lights)
      BY <1>9, <2>3, ExportNames DEF ImportSettings, Paths
    <2>5. session' = session
      BY <1>9 DEF ImportSettings
    <2> QED
      BY <2>2, <2>4, <2>5 DEF NamesInv, DistinctNames
  <1>10. ASSUME AsyncReloadEntry PROVE NamesInv'
    <2>1. \A p \in Paths : files'[p] # NoFile => DistinctNames(files'[p].lights)
      BY <1>10, NowNames, ExportNames DEF AsyncReloadEntry, Paths
    <2> QED
      BY <1>10, <2>1 DEF NamesInv, AsyncReloadEntry, DistinctNames
  <1>11. CASE UNCHANGED vars
    BY <1>11 DEF NamesInv, DistinctNames
  <1>12. ASSUME NEW f \in Flows, Finish(f) \/ Variable(f) PROVE NamesInv'
    BY <1>3, <1>12 DEF Finish, Variable, AddVariable, RemoveVariable
  <1>13. ASSUME NEW f \in Flows, LightProfile(f) \/ Route(f) PROVE NamesInv'
    BY <1>4, <1>5, <1>6, <1>7, <1>13 DEF LightProfile, Route
  <1>14. ASSUME NEW f \in Flows, Backup(f) PROVE NamesInv'
    BY <1>8, <1>9, <1>14 DEF Backup
  <1> QED
    BY <1>1, <1>2, <1>10, <1>11, <1>12, <1>13, <1>14 DEF Next, NoMoreEdits

(* Two lights of one name, case set aside, are never configured together.  *)
THEOREM NamesDistinct == Spec => []LightNamesDistinct
  <1>1. Init => TypeInv /\ NamesInv
    BY InitTypeInv, InitNamesInv
  <1>2. (TypeInv /\ NamesInv) /\ [Next]_vars => (TypeInv /\ NamesInv)'
    BY NextTypeInv, NextNamesInv
  <1>3. TypeInv /\ NamesInv => LightNamesDistinct
    BY NowNames DEF DistinctNames, LightNamesDistinct
  <1> QED
    BY <1>1, <1>2, <1>3, PTL DEF Spec

-----------------------------------------------------------------------------
(* The snapshot                                                            *)

LEMMA InitSnapshotInv == Init => SnapshotInv
  <1> SUFFICES ASSUME Init PROVE SnapshotInv
    OBVIOUS
  <1>1. \A k \in Keys : Now[k] = data[k]
    BY DEF Init, Now, Effective, NoOptions
  <1>2. /\ Now.variables = data.variables /\ Now.lights = data.lights
        /\ Now.user = data.user /\ Now.password = data.password /\ Now.secret = data.secret
    BY <1>1 DEF Keys
  <1>3. files["snapshot"] = Exported(data) /\ secret_value = ExportedSecret(data, Empty)
    BY DEF Init, Paths
  <1> QED
    BY <1>2, <1>3 DEF SnapshotInv, Exported, ExportedSecret

(* An export of what the integration runs with stores its password.        *)
LEMMA ExportStores ==
  ASSUME NEW path \in Paths, NEW c, Export(path, c)
  PROVE  c.password # Empty => secret_value' = c.password
  BY DEF Export, ExportedSecret

LEMMA NextSnapshotInv == TypeInv /\ SnapshotInv /\ [Next]_vars => SnapshotInv'
  <1> SUFFICES ASSUME TypeInv, SnapshotInv, [Next]_vars PROVE SnapshotInv'
    OBVIOUS
  <1> USE DEF vars
  <1>1. ASSUME UNCHANGED <<data, options, files, secret_value, listener>> PROVE SnapshotInv'
    BY <1>1 DEF SnapshotInv, Now
  <1>2. ASSUME NEW f \in Flows, NEW new, CreateEntry(f, new) PROVE SnapshotInv'
    <2>1. CASE new = options
      <3>1. listener' = listener
        BY <1>2, <2>1 DEF CreateEntry, TypeInv
      <3> QED
        BY <1>1, <1>2, <2>1, <3>1 DEF CreateEntry
    <2>2. CASE new # options
      BY <1>2, <2>2 DEF CreateEntry, SnapshotInv
    <2> QED
      BY <2>1, <2>2
  <1>3. ASSUME NEW f \in Flows, NEW path \in Paths, ExportSettings(f, path)
        PROVE  SnapshotInv'
    <2>1. Now' = Now /\ listener' = listener
      BY <1>3 DEF ExportSettings, Now
    <2>2. /\ Now.password # Empty => secret_value' = Now.password
          /\ files'["snapshot"] = Exported(Now) \/ files'["snapshot"] = files["snapshot"]
      BY <1>3, ExportStores DEF ExportSettings, Export, TypeInv, Paths
    <2> QED
      BY <2>1, <2>2 DEF SnapshotInv
  <1>4. ASSUME Export("snapshot", Now') PROVE SnapshotInv'
    <2>1. files'["snapshot"] = Exported(Now')
      BY <1>4 DEF Export, TypeInv, Paths
    <2>2. Now'.password # Empty => secret_value' = Now'.password
      BY <1>4, ExportStores DEF Paths
    <2> QED
      BY <2>1, <2>2 DEF SnapshotInv
  <1>5. ASSUME NEW f \in Flows, NEW path \in Paths, NEW overwrite \in BOOLEAN,
               ImportSettings(f, path, overwrite)
        PROVE  SnapshotInv'
    BY <1>4, <1>5 DEF ImportSettings, Now
  <1>6. ASSUME AsyncReloadEntry PROVE SnapshotInv'
    <2>1. Now' = Now
      BY <1>6 DEF AsyncReloadEntry, Now
    <2> QED
      BY <1>4, <1>6, <2>1 DEF AsyncReloadEntry
  <1>7. ASSUME NEW f \in Flows, OpenDialog(f) \/ AbortDialog(f) PROVE SnapshotInv'
    BY <1>1, <1>7 DEF OpenDialog, AbortDialog
  <1>8. ASSUME NEW f \in Flows, Finish(f) \/ Variable(f) \/ LightProfile(f) \/ Route(f)
        PROVE  SnapshotInv'
    BY <1>2, <1>8 DEF Finish, Variable, AddVariable, RemoveVariable, LightProfile, AddLight,
                      RemoveLight, EditLight, Route, ManageRoute, SaveAndFinish
  <1>9. ASSUME NEW f \in Flows, Backup(f) PROVE SnapshotInv'
    BY <1>3, <1>5, <1>9 DEF Backup
  <1>10. CASE UNCHANGED vars
    BY <1>1, <1>10
  <1> QED
    BY <1>6, <1>7, <1>8, <1>9, <1>10 DEF Next, NoMoreEdits

(* An entry made of an exported document runs with what was exported, its  *)
(* password included if the stored one is that of the exporting entry.     *)
LEMMA CopyOfExport ==
  ASSUME NEW c \in Config, NEW stored, c.password # Empty => stored = c.password
  PROVE  LET document == Exported(c)
             copy == CreatedData(document, ImportedPassword(document, stored, Empty))
         IN  /\ copy.variables = c.variables /\ copy.lights = c.lights
             /\ copy.user = c.user
             /\ c.password # Empty => copy.password = c.password
  <1> DEFINE document == Exported(c)
  <1>1. /\ document.variables = c.variables /\ document.lights = c.lights
        /\ document.user = c.user
        /\ c.password # Empty => document.secret # Empty
    BY TextAssumption DEF Exported
  <1>2. \A password : /\ CreatedData(document, password).variables = document.variables
                      /\ CreatedData(document, password).lights = document.lights
                      /\ CreatedData(document, password).user = document.user
                      /\ CreatedData(document, password).password = password
    BY DEF CreatedData, ImportedData
  <1>3. c.password # Empty => ImportedPassword(document, stored, Empty) = c.password
    BY <1>1 DEF ImportedPassword
  <1> QED
    BY <1>1, <1>2, <1>3

(* When no listener is due, the snapshot and the stored password migrate   *)
(* the entry as it is.                                                     *)
THEOREM SnapshotComplete == Spec => []SnapshotMigrates
  <1>1. Init => TypeInv /\ SnapshotInv
    BY InitTypeInv, InitSnapshotInv
  <1>2. (TypeInv /\ SnapshotInv) /\ [Next]_vars => (TypeInv /\ SnapshotInv)'
    BY NextTypeInv, NextSnapshotInv
  <1>3. TypeInv /\ SnapshotInv => SnapshotMigrates
    <2> SUFFICES ASSUME TypeInv, SnapshotInv, ~listener PROVE SnapshotMigrates
      BY DEF SnapshotMigrates
    <2>1. Now \in Config
      BY TypeInvImplies
    <2>2. /\ files["snapshot"] = Exported(Now)
          /\ Now.password # Empty => secret_value = Now.password
      BY DEF SnapshotInv
    <2> QED
      BY <2>1, <2>2, CopyOfExport DEF SnapshotMigrates
  <1> QED
    BY <1>1, <1>2, <1>3, PTL DEF Spec

-----------------------------------------------------------------------------
(* What a step may not do                                                  *)

LEMMA SaveKeepsRoute ==
  ASSUME NEW f, NEW variables, NEW lights, SaveAndFinish(f, variables, lights)
  PROVE  RouteOf(Now') = RouteOf(Now)
  <1>1. /\ options' = [Now EXCEPT !.variables = variables, !.lights = lights]
        /\ data' = data
    BY DEF SaveAndFinish, CreateEntry
  <1>2. ASSUME NEW k \in {"user", "password", "secret"} PROVE Now'[k] = Now[k]
    <2>1. k \in Keys /\ options'[k] = Now[k]
      BY <1>1, <1>2 DEF Now, Effective, Keys
    <2>2. Now'[k] = IF options'[k] = Absent THEN data'[k] ELSE options'[k]
      BY <2>1 DEF Now, Effective
    <2>3. Now[k] = IF options[k] = Absent THEN data[k] ELSE options[k]
      BY <2>1 DEF Now, Effective
    <2> QED
      BY <1>1, <2>1, <2>2, <2>3
  <1> QED
    BY <1>2 DEF RouteOf

(* An edit of variables or lights never touches the route.                 *)
THEOREM RouteUntouched == Spec => RouteKept
  <1>1. ASSUME NEW f \in Flows, Finish(f) \/ Variable(f) \/ LightProfile(f)
        PROVE  RouteOf(Now') = RouteOf(Now)
    BY <1>1, SaveKeepsRoute DEF Finish, Variable, AddVariable, RemoveVariable, LightProfile,
                                AddLight, RemoveLight, EditLight
  <1>2. [Next]_vars => [\A f \in Flows : Finish(f) \/ Variable(f) \/ LightProfile(f)
                            => RouteOf(Now') = RouteOf(Now)]_vars
    BY <1>1
  <1> QED
    BY <1>2, PTL DEF Spec, RouteKept

(* Renaming a light keeps the ids of the list, in their order.             *)
THEOREM IdsKept == Spec => LightsKeepIds
  <1>1. ASSUME TypeInv, NEW f \in Flows, NEW i, NEW name \in LightNames, EditLight(f, i, name)
        PROVE  [j \in DOMAIN Now'.lights |-> Now'.lights[j].id]
                   = [j \in DOMAIN session[f].lights |-> session[f].lights[j].id]
    <2>1. PICK lights : lights = session[f].lights
      OBVIOUS
    <2>2. lights \in Seq(Light) /\ i \in DOMAIN lights
      BY <1>1, <2>1, SessionTyped DEF EditLight
    <2>3. PICK edited :
             edited = [lights EXCEPT ![i] = [name |-> name, id |-> EditedId(lights[i], name)]]
      OBVIOUS
    <2>4. edited \in Seq(Light)
      BY <2>2, <2>3, EditedListsTyped
    <2>5. options'.lights = edited /\ options'.lights # Absent
      BY <1>1, <2>1, <2>3, <2>4, AbsentAssumption
         DEF EditLight, SaveAndFinish, CreateEntry, Now, Effective, Keys
    <2>6. Now'.lights = edited
      BY <2>5 DEF Now, Effective, Keys
    <2>7. DOMAIN edited = DOMAIN lights /\ \A j \in DOMAIN lights : edited[j].id = lights[j].id
      BY <2>2, <2>3 DEF EditedId
    <2> QED
      BY <2>1, <2>6, <2>7
  <1>2. TypeInv /\ [Next]_vars =>
           [\A f \in Flows, i \in 1 .. MaxLights, name \in LightNames :
                EditLight(f, i, name) =>
                    [j \in DOMAIN Now'.lights |-> Now'.lights[j].id]
                        = [j \in DOMAIN session[f].lights |-> session[f].lights[j].id]]_vars
    BY <1>1
  <1> QED
    BY <1>2, InitTypeInv, NextTypeInv, PTL DEF Spec, LightsKeepIds
=============================================================================
