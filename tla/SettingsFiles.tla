---------------------------- MODULE SettingsFiles ----------------------------
(***************************************************************************)
(* The exports and imports of all entries: the automatic export of an      *)
(* entry's setup and of its update listener, the two service actions, and  *)
(* the two files they write, the settings and Home Assistant's own         *)
(* secrets.yaml, through a temporary file each.                            *)
(*                                                                         *)
(* A step is what a job does between two awaits, or one system call of an  *)
(* executor job on a file.  The settings of an entry are one version; of   *)
(* secrets.yaml only the keys are kept: one per entry and the user's own.  *)
(* A reload is the setup that ends it; what it does with the PLC is in     *)
(* AdsCoordinator.                                                         *)
(***************************************************************************)
EXTENDS Naturals, FiniteSets, Functions

CONSTANTS
    Entries, Versions,      \* config entries, and what their settings may be
    Service, Own,           \* the job of a service call; the user's own secret
    Blank, Torn, Nil,       \* an empty file, a mixed-up one; no file, no handle
    MaxOverlap,             \* exports that may be under way at the same time
    MaxUpdates, MaxCalls, MaxCrashes, MaxDiskErrors, MaxInvalid     \* bounds

Jobs == Entries \union {Service}
Files == {"settings", "secrets"}
Temporary == [settings |-> "settings.tmp", secrets |-> "secrets.tmp"]
FileNames == Files \union Range(Temporary)
Inodes == 1 .. Cardinality(FileNames) + Cardinality(Jobs)

Document == [Entries -> Versions]
Settings == [document : Document]
Secrets == [keys : SUBSET (Entries \union {Own})]

ASSUME MarkersAssumption ==
    /\ Service \notin Entries /\ Own \notin Entries /\ Nil \notin Inodes
    /\ \A marker \in {Blank, Torn} : marker \notin Settings /\ marker \notin Secrets

ASSUME BoundsAssumption ==
    /\ IsFiniteSet(Entries) /\ MaxOverlap \in Nat \ {0}
    /\ MaxUpdates \in Nat /\ MaxCalls \in Nat /\ MaxCrashes \in Nat
    /\ MaxDiskErrors \in Nat /\ MaxInvalid \in Nat

VARIABLES
    current,                \* the effective settings of each entry
    guard,                  \* AUTO_EXPORT_GUARD_KEY of the domain state
    step, after,            \* each job: what it does, and what when exported
    again,                  \* entries updated while their job is under way
    exported, secrets,      \* each job: the document and the keys to write
    file, handle,           \* each job: the file it writes, the one it has open
    source, left,           \* the document being imported, entries still left
    names, content,         \* file names to inodes, and what those hold
    updates, calls, crashes, disk_errors, invalid

entryVars == <<current, guard>>
exportVars == <<exported, secrets, file, handle>>
importVars == <<source, left>>
diskVars == <<names, content>>
budgets == <<updates, calls, crashes, disk_errors, invalid>>
vars == <<entryVars, step, after, again, exportVars, importVars, diskVars, budgets>>

Writing == {"open", "dump", "replace"}
Active == Writing \union {"reading", "building"}
Steps == Active \union {"idle", "listener", "setup", "service", "importing"}

(* Every variable has its type. *)
TypeOK ==
    /\ current \in Document /\ guard \in BOOLEAN
    /\ step \in [Jobs -> Steps] /\ after \in [Jobs -> {"idle", "setup"}]
    /\ again \subseteq Entries
    /\ exported \in [Jobs -> Document \union {Nil}]
    /\ secrets \in [Jobs -> SUBSET (Entries \union {Own})]
    /\ file \in [Jobs -> Files] /\ handle \in [Jobs -> Inodes \union {Nil}]
    /\ source \in Document \union {Nil} /\ left \subseteq Entries
    /\ names \in [FileNames -> Inodes \union {Nil}]
    /\ content \in [Inodes -> {Blank, Torn} \union Settings \union Secrets]
    /\ updates \in 0 .. MaxUpdates /\ calls \in 0 .. MaxCalls
    /\ crashes \in 0 .. MaxCrashes /\ disk_errors \in 0 .. MaxDiskErrors
    /\ invalid \in 0 .. MaxInvalid

(* Home Assistant has started: every entry is being set up, the files are  *)
(* those of an earlier run.                                                *)
Init ==
    /\ current \in Document
    /\ guard = FALSE
    /\ step = [j \in Jobs |-> IF j = Service THEN "idle" ELSE "setup"]
    /\ after = [j \in Jobs |-> "idle"]
    /\ again = {}
    /\ exported = [j \in Jobs |-> Nil]
    /\ secrets = [j \in Jobs |-> {}]
    /\ file = [j \in Jobs |-> "settings"]
    /\ handle = [j \in Jobs |-> Nil]
    /\ source = Nil /\ left = {}
    /\ names = [n \in FileNames |-> IF n = "settings" THEN 1
                                    ELSE IF n = "secrets" THEN 2 ELSE Nil]
    /\ content = [i \in Inodes |-> IF i = 1 THEN [document |-> current]
                                   ELSE IF i = 2 THEN [keys |-> {Own}] ELSE Blank]
    /\ updates = 0 /\ calls = 0 /\ crashes = 0 /\ disk_errors = 0 /\ invalid = 0

-----------------------------------------------------------------------------
Goto(j, label) == step' = [step EXCEPT ![j] = label]

(* The export of a job is over, done or failed: a failure is only logged   *)
(* by the automatic exports.  Its local variables are gone.  A listener    *)
(* goes on to reload the entry, a setup is finished, unless the entry was  *)
(* updated meanwhile.                                                      *)
ExportOver(j) ==
    /\ IF j \in again /\ after[j] = "idle"
       THEN Goto(j, "listener") /\ again' = again \ {j}
       ELSE Goto(j, after[j]) /\ UNCHANGED again
    /\ after' = [after EXCEPT ![j] = "idle"]
    /\ exported' = [exported EXCEPT ![j] = Nil]
    /\ secrets' = [secrets EXCEPT ![j] = {}]
    /\ file' = [file EXCEPT ![j] = "settings"]
    /\ handle' = [handle EXCEPT ![j] = Nil]

Running == {j \in Jobs : step[j] \in Active}

(* async_reload_entry and async_setup_entry: no export under the guard.    *)
(* The listener reloads the entry, which sets it up, in both cases.        *)
SkipExport(e) ==
    /\ guard
    /\ \/ step[e] = "listener" /\ Goto(e, "setup") /\ UNCHANGED again
       \/ /\ step[e] = "setup"
          /\ Goto(e, IF e \in again THEN "listener" ELSE "idle")
          /\ again' = again \ {e}
    /\ UNCHANGED <<entryVars, after, exportVars, importVars, diskVars, budgets>>

(* Mutant: the listener starts over instead of reloading the entry. *)
StartExportAgain(j) ==
    /\ Cardinality(Running) < MaxOverlap
    /\ \/ step[j] \in {"listener", "setup"} /\ ~guard
       \/ step[j] = "service"
    /\ after' = [after EXCEPT ![j] = IF step[j] = "listener" THEN "listener" ELSE "idle"]
    /\ Goto(j, "reading")
    /\ UNCHANGED <<entryVars, again, exportVars, importVars, diskVars, budgets>>

(* async_export_settings_to_yaml is called; the service does not look at   *)
(* the guard.                                                              *)
StartExport(j) ==
    /\ Cardinality(Running) < MaxOverlap
    /\ \/ step[j] \in {"listener", "setup"} /\ ~guard
       \/ step[j] = "service"
    /\ after' = [after EXCEPT ![j] = IF step[j] = "listener" THEN "setup" ELSE "idle"]
    /\ Goto(j, "reading")
    /\ UNCHANGED <<entryVars, again, exportVars, importVars, diskVars, budgets>>

(* _safe_read_yaml of secrets.yaml: an empty file is an empty map, one     *)
(* that is no YAML map raises.                                             *)
ReadSecrets(j) ==
    /\ step[j] = "reading"
    /\ LET found == content[names["secrets"]]
       IN  \/ found = Torn /\ ExportOver(j)
           \/ /\ found # Torn
              /\ secrets' = [secrets EXCEPT ![j] = IF found = Blank THEN {} ELSE found.keys]
              /\ Goto(j, "building")
              /\ UNCHANGED <<after, again, exported, file, handle>>
    /\ UNCHANGED <<entryVars, importVars, diskVars, budgets>>

(* Mutant: secrets.yaml is written anew. *)
BuildAnew(j) ==
    /\ step[j] = "building"
    /\ exported' = [exported EXCEPT ![j] = current]
    /\ secrets' = [secrets EXCEPT ![j] = Entries]
    /\ file' = [file EXCEPT ![j] = "settings"]
    /\ Goto(j, "open")
    /\ UNCHANGED <<entryVars, after, again, handle, importVars, diskVars, budgets>>

(* Back on the loop: the document is made of the entries as they are now,  *)
(* their passwords are added to what was read.                             *)
Build(j) ==
    /\ step[j] = "building"
    /\ exported' = [exported EXCEPT ![j] = current]
    /\ secrets' = [secrets EXCEPT ![j] = @ \union Entries]
    /\ file' = [file EXCEPT ![j] = "settings"]
    /\ Goto(j, "open")
    /\ UNCHANGED <<entryVars, after, again, handle, importVars, diskVars, budgets>>

(* An inode without a name and without a handle is gone. *)
Kept(i, ns, hs) == i \in Range(ns) \union Range(hs)
Swept(ns, hs, contents) == [i \in Inodes |-> IF Kept(i, ns, hs) THEN contents[i] ELSE Blank]

(* Mutant: the target itself is opened. *)
OpenTarget(j) ==
    /\ step[j] = "open"
    /\ handle' = [handle EXCEPT ![j] = names[file[j]]]
    /\ names' = [names EXCEPT ![Temporary[file[j]]] = names[file[j]]]
    /\ content' = [content EXCEPT ![names[file[j]]] = Blank]
    /\ Goto(j, "dump")
    /\ UNCHANGED <<entryVars, after, again, exported, secrets, file, importVars, budgets>>

(* temp_path.open("w"): a new file, or the existing one made empty, even   *)
(* if another job has it open.                                             *)
OpenTemporary(j) ==
    /\ step[j] = "open"
    /\ LET name == Temporary[file[j]]
           inode == IF names[name] # Nil THEN names[name]
                    ELSE CHOOSE i \in Inodes : ~Kept(i, names, handle)
       IN  /\ names' = [names EXCEPT ![name] = inode]
           /\ handle' = [handle EXCEPT ![j] = inode]
           /\ content' = [content EXCEPT ![inode] = Blank]
    /\ Goto(j, "dump")
    /\ UNCHANGED <<entryVars, after, again, exported, secrets, file, importVars, budgets>>

Payload(j) == IF file[j] = "settings" THEN [document |-> exported[j]] ELSE [keys |-> secrets[j]]

(* yaml.safe_dump and the end of the with block.  What another job wrote   *)
(* into the same file is overwritten from its beginning: a longer text     *)
(* leaves its end behind.                                                  *)
Dump(j) ==
    /\ step[j] = "dump"
    /\ LET old == content[handle[j]]
       IN  \E new \in {Payload(j)} \union (IF old = Blank THEN {} ELSE {Torn}) :
               content' = Swept(names, [handle EXCEPT ![j] = Nil],
                                [content EXCEPT ![handle[j]] = new])
    /\ handle' = [handle EXCEPT ![j] = Nil]
    /\ Goto(j, "replace")
    /\ UNCHANGED <<entryVars, after, again, exported, secrets, file, importVars, names,
                   budgets>>

(* Mutant: the failure of the export ends the listener. *)
DumpErrorUncaught(j) ==
    /\ step[j] = "dump" /\ disk_errors < MaxDiskErrors
    /\ disk_errors' = disk_errors + 1
    /\ content' = Swept(names, [handle EXCEPT ![j] = Nil],
                        [content EXCEPT ![handle[j]] = Torn])
    /\ Goto(j, "idle")
    /\ after' = [after EXCEPT ![j] = "idle"]
    /\ exported' = [exported EXCEPT ![j] = Nil]
    /\ secrets' = [secrets EXCEPT ![j] = {}]
    /\ file' = [file EXCEPT ![j] = "settings"]
    /\ handle' = [handle EXCEPT ![j] = Nil]
    /\ UNCHANGED <<entryVars, again, importVars, names, updates, calls, crashes, invalid>>

(* The disk is full: an incomplete temporary file stays behind. *)
DumpError(j) ==
    /\ step[j] = "dump" /\ disk_errors < MaxDiskErrors
    /\ disk_errors' = disk_errors + 1
    /\ content' = Swept(names, [handle EXCEPT ![j] = Nil],
                        [content EXCEPT ![handle[j]] = Torn])
    /\ ExportOver(j)
    /\ UNCHANGED <<entryVars, importVars, names, updates, calls, crashes, invalid>>

(* temp_path.replace(path): whatever the temporary name refers to now      *)
(* becomes the file; it raises if another job has moved it away.           *)
Replace(j) ==
    /\ step[j] = "replace"
    /\ LET temporary == Temporary[file[j]]
           moved == [names EXCEPT ![file[j]] = names[temporary], ![temporary] = Nil]
       IN  \/ /\ names[temporary] = Nil
              /\ ExportOver(j)
              /\ UNCHANGED <<names, content>>
           \/ /\ names[temporary] # Nil
              /\ names' = moved
              /\ content' = Swept(moved, handle, content)
              /\ IF file[j] = "settings"
                 THEN /\ file' = [file EXCEPT ![j] = "secrets"]
                      /\ Goto(j, "open")
                      /\ UNCHANGED <<after, again, exported, secrets, handle>>
                 ELSE ExportOver(j)
    /\ UNCHANGED <<entryVars, importVars, budgets>>

-----------------------------------------------------------------------------
(* An entry has changed: its update listener is scheduled. *)
Changed(e) ==
    IF step[e] = "idle"
    THEN Goto(e, "listener") /\ UNCHANGED again
    ELSE again' = again \union {e} /\ UNCHANGED step

(* The user saves a dialog of the entry. *)
UpdateEntry(e, version) ==
    /\ updates < MaxUpdates /\ version # current[e]
    /\ updates' = updates + 1
    /\ current' = [current EXCEPT ![e] = version]
    /\ Changed(e)
    /\ UNCHANGED <<guard, after, exportVars, importVars, diskVars, calls, crashes,
                   disk_errors, invalid>>

(* The service export_settings to the default file. *)
CallExport ==
    /\ step[Service] = "idle" /\ calls < MaxCalls
    /\ calls' = calls + 1
    /\ Goto(Service, "service")
    /\ UNCHANGED <<entryVars, after, again, exportVars, importVars, diskVars, updates, crashes,
                   disk_errors, invalid>>

(* The service import_settings of a file the user names: both files are    *)
(* read, then the guard is set.                                            *)
CallImport(document) ==
    /\ step[Service] = "idle" /\ calls < MaxCalls
    /\ calls' = calls + 1
    /\ source' = document
    /\ left' = Entries
    /\ guard' = TRUE
    /\ Goto(Service, "importing")
    /\ UNCHANGED <<current, after, again, exportVars, diskVars, updates, crashes,
                   disk_errors, invalid>>

(* One entry of the document: it is updated and reloaded, during which     *)
(* other jobs run.  Equal settings may still differ in the key they are    *)
(* kept under, so that the listener may be called for them too.            *)
ImportEntry(e) ==
    /\ step[Service] = "importing" /\ e \in left
    /\ left' = left \ {e}
    /\ current' = [current EXCEPT ![e] = source[e]]
    /\ Changed(e) \/ (source[e] = current[e] /\ UNCHANGED <<step, again>>)
    /\ UNCHANGED <<guard, after, exportVars, source, diskVars, budgets>>

(* Mutant: the guard is not reset. *)
ImportEndGuarded ==
    /\ step[Service] = "importing" /\ left = {}
    /\ Goto(Service, "service")
    /\ UNCHANGED <<entryVars, after, again, exportVars, importVars, diskVars, budgets>>

(* The finally clause, then the export that ends every import. *)
ImportEnd ==
    /\ step[Service] = "importing" /\ left = {}
    /\ guard' = FALSE
    /\ source' = Nil
    /\ Goto(Service, "service")
    /\ UNCHANGED <<current, after, again, exportVars, left, diskVars, budgets>>

(* An entry of the document fails validation: the finally clause runs, the *)
(* export does not.                                                        *)
ImportInvalid ==
    /\ step[Service] = "importing" /\ left # {} /\ invalid < MaxInvalid
    /\ invalid' = invalid + 1
    /\ guard' = FALSE
    /\ source' = Nil /\ left' = {}
    /\ Goto(Service, "idle")
    /\ UNCHANGED <<current, after, again, exportVars, diskVars, updates, calls, crashes,
                   disk_errors>>

(* Home Assistant is killed and started again: what is on disk stays. *)
Crash ==
    /\ crashes < MaxCrashes
    /\ crashes' = crashes + 1
    /\ guard' = FALSE
    /\ step' = [j \in Jobs |-> IF j = Service THEN "idle" ELSE "setup"]
    /\ after' = [j \in Jobs |-> "idle"]
    /\ again' = {} /\ source' = Nil /\ left' = {}
    /\ exported' = [j \in Jobs |-> Nil]
    /\ secrets' = [j \in Jobs |-> {}]
    /\ file' = [j \in Jobs |-> "settings"]
    /\ handle' = [j \in Jobs |-> Nil]
    /\ content' = Swept(names, handle', content)
    /\ UNCHANGED <<current, names, updates, calls, disk_errors, invalid>>

(* Nothing is left to do: stuttering, no deadlock. *)
Quiet == \A j \in Jobs : step[j] = "idle"
Stop == Quiet /\ updates = MaxUpdates /\ calls = MaxCalls /\ UNCHANGED vars

-----------------------------------------------------------------------------
Write(j) == ReadSecrets(j) \/ Build(j) \/ OpenTemporary(j) \/ Dump(j) \/ Replace(j)
Automatic(e) == SkipExport(e) \/ StartExport(e) \/ Write(e)
ServiceJob == StartExport(Service) \/ Write(Service) \/ ImportEnd
              \/ \E e \in Entries : ImportEntry(e)

Next == \/ \E e \in Entries : Automatic(e) \/ \E version \in Versions : UpdateEntry(e, version)
        \/ ServiceJob \/ CallExport \/ (\E document \in Document : CallImport(document))
        \/ ImportInvalid \/ (\E j \in Jobs : DumpError(j)) \/ Crash \/ Stop

Spec == Init /\ [][Next]_vars

(* Every job that was started goes on; nobody has to call or to edit. *)
FairSpec == Spec /\ WF_vars(ServiceJob) /\ \A e \in Entries : SF_vars(Automatic(e))

-----------------------------------------------------------------------------
(* settings.py:85: YAML files are written atomically.  Whenever either is  *)
(* looked at, also after a crash or on a full disk, it is complete.        *)
FilesComplete == \A f \in Files : content[names[f]] \notin {Blank, Torn}

(* secrets.yaml is the user's file: what else is in it is still there,     *)
(* whatever this integration does with it and wherever that is cut short.  *)
OwnSecretKept ==
    LET found == content[names["secrets"]] IN found \notin {Blank, Torn} => Own \in found.keys

(* Whatever becomes of the exports, an entry that was updated is set up    *)
(* once more, with its new settings.                                       *)
UpdateReloads == \A e \in Entries : (e \in again \/ step[e] = "listener") ~> (step[e] = "setup")

(* README.md:185: the snapshot is updated automatically when entries are   *)
(* set up or updated.  Once updates, imports and restarts have ended it is *)
(* the current settings for good, if the disk had room and no imported     *)
(* document was refused.                                                   *)
SnapshotConverges ==
    [](disk_errors = 0 /\ invalid = 0) => <>[](content[names["settings"]] = [document |-> current])
=============================================================================
