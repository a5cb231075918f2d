------------------------- MODULE SettingsFilesProofs -------------------------
(***************************************************************************)
(* Proofs about SettingsFiles, for any entries, settings and numbers of    *)
(* edits, calls, crashes and full disks: the types, whatever exports run   *)
(* at the same time; and that the two files are complete and keep the      *)
(* user's own secret, as long as no two exports are under way at once.     *)
(***************************************************************************)
EXTENDS SettingsFiles, FiniteSetTheorems, TLAPS

(* A job has a file open exactly while it is about to write into it, and   *)
(* has something to write from the time the document is made.              *)
JobsInv ==
    /\ \A j \in Jobs : /\ handle[j] # Nil <=> step[j] = "dump"
                       /\ step[j] \in Writing => exported[j] \in Document
    /\ step[Service] = "importing" => source \in Document
    /\ names["settings"] # Nil /\ names["secrets"] # Nil

(* The inodes that are, or are to become, one of the two files.            *)
UsedFor(f) == {i \in Inodes : \/ i \in {names[f], names[Temporary[f]]}
                              \/ \E j \in Jobs : handle[j] = i /\ file[j] = f}

(* The two files never share an inode, nor does one get the other's text.  *)
KindsInv ==
    /\ UsedFor("settings") \intersect UsedFor("secrets") = {}
    /\ \A i \in UsedFor("settings") : content[i] \in {Blank, Torn} \union Settings
    /\ \A i \in UsedFor("secrets") : content[i] \in {Blank, Torn} \union Secrets

TypeInv == TypeOK /\ JobsInv /\ KindsInv

-----------------------------------------------------------------------------
(* At most one export is under way. *)
NoOverlap == \A j, k \in Running : j = k

(* The files are whole and no two names share an inode; the temporary file *)
(* of the job that writes is its own: empty while it has it open, then     *)
(* what it is to contain; and the user's own secret is among what the job  *)
(* writes.                                                                 *)
FilesInv ==
    /\ content[names["settings"]] \in Settings
    /\ content[names["secrets"]] \in Secrets /\ Own \in content[names["secrets"]].keys
    /\ \A m, n \in FileNames : names[m] # Nil /\ names[m] = names[n] => m = n

WriterInv ==
    \A j \in Jobs :
        /\ step[j] = "dump" => /\ handle[j] = names[Temporary[file[j]]]
                               /\ content[handle[j]] = Blank
        /\ step[j] = "replace" => /\ names[Temporary[file[j]]] # Nil
                                  /\ content[names[Temporary[file[j]]]] = Payload(j)
        /\ step[j] \in Writing \union {"building"} => Own \in secrets[j]

-----------------------------------------------------------------------------
(* Names and inodes                                                        *)

LEMMA NamesOfFiles ==
  /\ FileNames = {"settings", "secrets", "settings.tmp", "secrets.tmp"}
  /\ \A f \in Files : /\ f \in FileNames /\ Temporary[f] \in FileNames
                      /\ Temporary[f] \notin Files
                      /\ \A g \in Files : Temporary[f] = Temporary[g] => f = g
  <1>1. Range(Temporary) = {"settings.tmp", "secrets.tmp"}
    BY DEF Range, Temporary
  <1> QED
    BY <1>1 DEF FileNames, Files, Temporary

LEMMA EnoughInodes ==
  /\ IsFiniteSet(FileNames) /\ IsFiniteSet(Jobs)
  /\ Cardinality(FileNames) \in Nat /\ Cardinality(Jobs) \in Nat
  /\ Inodes \subseteq Nat /\ IsFiniteSet(Inodes)
  /\ Cardinality(Inodes) = Cardinality(FileNames) + Cardinality(Jobs)
  /\ 1 \in Inodes /\ 2 \in Inodes
  <1>1. IsFiniteSet(Files) /\ Cardinality(Files) = 2
    <2>1. IsFiniteSet({"settings"}) /\ Cardinality({"settings"}) = 1
      BY FS_Singleton
    <2>2. Files = {"settings"} \union {"secrets"} /\ "secrets" \notin {"settings"}
      BY DEF Files
    <2> QED
      BY <2>1, <2>2, FS_AddElement
  <1>2. IsFiniteSet(Range(Temporary))
    <2>1. Range(Temporary) = {"settings.tmp"} \union {"secrets.tmp"}
      BY DEF Range, Temporary
    <2>2. IsFiniteSet({"settings.tmp"})
      BY FS_Singleton
    <2>3. IsFiniteSet({"settings.tmp"} \union {"secrets.tmp"})
      BY <2>2, FS_AddElement
    <2> QED
      BY <2>1, <2>3
  <1>3. IsFiniteSet(FileNames)
    BY <1>1, <1>2, FS_Union DEF FileNames
  <1>4. Cardinality(FileNames) \in Nat /\ Cardinality(FileNames) >= 2
    <2>1. Files \in SUBSET FileNames
      BY DEF FileNames
    <2> QED
      BY <1>1, <1>3, <2>1, FS_Subset, FS_CardinalityType
  <1>5. IsFiniteSet(Jobs) /\ Cardinality(Jobs) \in Nat
    BY BoundsAssumption, FS_AddElement, FS_CardinalityType DEF Jobs
  <1> DEFINE n == Cardinality(FileNames) + Cardinality(Jobs)
  <1>6. Inodes = 1 .. n /\ n \in Nat /\ n >= 2
    BY <1>4, <1>5 DEF Inodes
  <1> HIDE DEF n
  <1>7. IsFiniteSet(Inodes) /\ Cardinality(Inodes) = n
    BY <1>6, FS_Interval
  <1>8. Inodes \subseteq Nat /\ 1 \in Inodes /\ 2 \in Inodes
    BY <1>6
  <1> QED
    BY <1>3, <1>4, <1>5, <1>7, <1>8 DEF n

LEMMA RangeBound ==
  ASSUME NEW S, IsFiniteSet(S), NEW T, NEW g \in [S -> T]
  PROVE  IsFiniteSet(Range(g)) /\ Cardinality(Range(g)) <= Cardinality(S)
  <1>1. g \in Surjection(S, Range(g))
    BY DEF Surjection, Range
  <1> QED
    BY <1>1, FS_Surjection

(* While a name is unused there is an inode without a name and a handle.   *)
LEMMA FreeInode ==
  ASSUME TypeOK, NEW m \in FileNames, names[m] = Nil
  PROVE  \E i \in Inodes : ~Kept(i, names, handle)
  <1>1. PICK held : held = Range(names) \union Range(handle)
    OBVIOUS
  <1>2. /\ IsFiniteSet(Range(names)) /\ Cardinality(Range(names)) <= Cardinality(FileNames)
        /\ IsFiniteSet(Range(handle)) /\ Cardinality(Range(handle)) <= Cardinality(Jobs)
    BY EnoughInodes, RangeBound DEF TypeOK
  <1>3. /\ IsFiniteSet(held) /\ Cardinality(held) \in Nat
        /\ Cardinality(held) <= Cardinality(Inodes)
    <2>1. /\ Cardinality(Range(names)) \in Nat /\ Cardinality(Range(handle)) \in Nat
          /\ IsFiniteSet(Range(names) \intersect Range(handle))
      BY <1>2, FS_CardinalityType, FS_Intersection
    <2>2. Cardinality(Range(names) \intersect Range(handle)) \in Nat
      BY <2>1, FS_CardinalityType
    <2>3. /\ IsFiniteSet(held)
          /\ Cardinality(held) = Cardinality(Range(names)) + Cardinality(Range(handle))
                                 - Cardinality(Range(names) \intersect Range(handle))
      BY <1>1, <1>2, FS_Union
    <2> QED
      BY <1>2, <2>1, <2>2, <2>3, EnoughInodes, FS_CardinalityType
  <1>4. Nil \in held
    BY <1>1 DEF TypeOK, Range
  <1>5. IsFiniteSet(held \ {Nil}) /\ Cardinality(held \ {Nil}) = Cardinality(held) - 1
    BY <1>3, <1>4, FS_RemoveElement
  <1>6. ASSUME Inodes \subseteq held PROVE FALSE
    <2>1. Inodes \in SUBSET (held \ {Nil})
      BY <1>6, MarkersAssumption
    <2>2. Cardinality(Inodes) <= Cardinality(held) - 1
      BY <1>5, <2>1, FS_Subset
    <2>3. Cardinality(Inodes) \in Nat
      BY EnoughInodes
    <2> QED
      BY <1>3, <2>2, <2>3
  <1> QED
    BY <1>1, <1>6 DEF Kept

-----------------------------------------------------------------------------
(* Types                                                                   *)

(* What a job does outside an export: no file, nor what is to be written   *)
(* into one, changes.                                                      *)
Calm ==
    /\ UNCHANGED <<exportVars, diskVars>>
    /\ \A j \in Jobs : \/ step'[j] = step[j]
                       \/ /\ step[j] \notin Writing \union {"building"}
                          /\ step'[j] \notin Writing \union {"building"}

LEMMA InitTypeOK == Init => TypeOK
  <1> SUFFICES ASSUME Init PROVE TypeOK
    OBVIOUS
  <1>1. /\ step \in [Jobs -> Steps] /\ after \in [Jobs -> {"idle", "setup"}]
        /\ exported \in [Jobs -> Document \union {Nil}]
        /\ secrets \in [Jobs -> SUBSET (Entries \union {Own})]
        /\ file \in [Jobs -> Files] /\ handle \in [Jobs -> Inodes \union {Nil}]
    BY DEF Init, Steps, Files
  <1>2. names \in [FileNames -> Inodes \union {Nil}]
    BY EnoughInodes DEF Init
  <1>3. content \in [Inodes -> {Blank, Torn} \union Settings \union Secrets]
    BY DEF Init, Settings, Secrets
  <1>4. /\ updates \in 0 .. MaxUpdates /\ calls \in 0 .. MaxCalls
        /\ crashes \in 0 .. MaxCrashes /\ disk_errors \in 0 .. MaxDiskErrors
        /\ invalid \in 0 .. MaxInvalid
    BY BoundsAssumption DEF Init
  <1> QED
    BY <1>1, <1>2, <1>3, <1>4 DEF Init, TypeOK

LEMMA GotoTyped ==
  ASSUME TypeOK, NEW j \in Jobs, NEW label \in Steps, Goto(j, label)
  PROVE  step' \in [Jobs -> Steps] /\ step'[j] = label
         /\ \A k \in Jobs : k # j => step'[k] = step[k]
  BY DEF TypeOK, Goto

(* The end of an export, with the job's local variables.                   *)
LEMMA ExportOverTyped ==
  ASSUME TypeOK, NEW j \in Jobs, ExportOver(j)
  PROVE  /\ step' \in [Jobs -> Steps] /\ after' \in [Jobs -> {"idle", "setup"}]
         /\ again' \subseteq Entries
         /\ exported' \in [Jobs -> Document \union {Nil}]
         /\ secrets' \in [Jobs -> SUBSET (Entries \union {Own})]
         /\ file' \in [Jobs -> Files] /\ handle' \in [Jobs -> Inodes \union {Nil}]
         /\ step'[j] \in {"idle", "setup", "listener"} /\ handle'[j] = Nil
         /\ \A k \in Jobs \ {j} : /\ step'[k] = step[k] /\ handle'[k] = handle[k]
                                  /\ exported'[k] = exported[k] /\ file'[k] = file[k]
                                  /\ secrets'[k] = secrets[k]
  <1>1. PICK label \in {"idle", "setup", "listener"} : Goto(j, label)
    BY DEF ExportOver, TypeOK
  <1>2. label \in Steps
    BY DEF Steps
  <1>3. again' \subseteq Entries
    BY DEF ExportOver, TypeOK
  <1>4. after' \in [Jobs -> {"idle", "setup"}]
    BY DEF ExportOver, TypeOK
  <1>5. /\ exported' \in [Jobs -> Document \union {Nil}]
        /\ secrets' \in [Jobs -> SUBSET (Entries \union {Own})]
        /\ file' \in [Jobs -> Files] /\ handle' \in [Jobs -> Inodes \union {Nil}]
    BY DEF ExportOver, TypeOK, Files
  <1>6. /\ handle'[j] = Nil
        /\ \A k \in Jobs \ {j} : /\ handle'[k] = handle[k] /\ file'[k] = file[k]
                                 /\ exported'[k] = exported[k] /\ secrets'[k] = secrets[k]
    BY DEF ExportOver, TypeOK
  <1> QED
    BY <1>1, <1>2, <1>3, <1>4, <1>5, <1>6, GotoTyped

LEMMA SkipExportTyped ==
  ASSUME TypeOK, NEW e \in Entries, SkipExport(e)
  PROVE  TypeOK' /\ Calm
  <1>1. e \in Jobs
    BY DEF Jobs
  <1>2. PICK label \in {"setup", "listener", "idle"} : Goto(e, label)
    BY DEF SkipExport
  <1>3. label \in Steps /\ label \notin Writing \union {"building"}
    BY DEF Steps, Writing
  <1>4. step[e] \notin Writing \union {"building"}
    BY DEF SkipExport, Writing
  <1>5. again' \subseteq Entries
    BY DEF SkipExport, TypeOK
  <1>6. /\ step' \in [Jobs -> Steps] /\ step'[e] = label
        /\ \A k \in Jobs : k # e => step'[k] = step[k]
    BY <1>1, <1>2, <1>3, GotoTyped
  <1>7. UNCHANGED <<entryVars, after, exportVars, importVars, diskVars, budgets>>
    BY DEF SkipExport
  <1> QED
    BY <1>3, <1>4, <1>5, <1>6, <1>7
       DEF TypeOK, Calm, entryVars, exportVars, importVars, diskVars, budgets

LEMMA StartExportTyped ==
  ASSUME TypeOK, NEW j \in Jobs, StartExport(j)
  PROVE  TypeOK' /\ Calm
  <1>1. Goto(j, "reading") /\ "reading" \in Steps /\ "reading" \notin Writing \union {"building"}
    BY DEF StartExport, Steps, Active, Writing
  <1>2. step[j] \notin Writing \union {"building"}
    BY DEF StartExport, Writing
  <1>3. /\ step' \in [Jobs -> Steps] /\ step'[j] = "reading"
        /\ \A k \in Jobs : k # j => step'[k] = step[k]
    BY <1>1, GotoTyped
  <1>4. after' \in [Jobs -> {"idle", "setup"}]
    BY DEF StartExport, TypeOK
  <1>5. UNCHANGED <<entryVars, again, exportVars, importVars, diskVars, budgets>>
    BY DEF StartExport
  <1> QED
    BY <1>1, <1>2, <1>3, <1>4, <1>5
       DEF TypeOK, Calm, entryVars, exportVars, importVars, diskVars, budgets

LEMMA ChangedTyped ==
  ASSUME TypeOK, NEW e \in Entries, Changed(e)
  PROVE  /\ step' \in [Jobs -> Steps] /\ again' \subseteq Entries
         /\ \A j \in Jobs : \/ step'[j] = step[j]
                            \/ step[j] = "idle" /\ step'[j] = "listener"
         /\ step'[Service] = step[Service]
  <1>1. e \in Jobs /\ e # Service /\ Service \in Jobs /\ "listener" \in Steps
    BY MarkersAssumption DEF Jobs, Steps
  <1>2. CASE step[e] = "idle"
    BY <1>1, <1>2, GotoTyped DEF Changed, TypeOK
  <1>3. CASE step[e] # "idle"
    BY <1>1, <1>3 DEF Changed, TypeOK
  <1> QED
    BY <1>2, <1>3

LEMMA UpdateEntryTyped ==
  ASSUME TypeOK, NEW e \in Entries, NEW version \in Versions, UpdateEntry(e, version)
  PROVE  TypeOK' /\ Calm /\ step'[Service] = step[Service] /\ source' = source
  <1>1. /\ step' \in [Jobs -> Steps] /\ again' \subseteq Entries
        /\ \A j \in Jobs : step'[j] = step[j] \/ (step[j] = "idle" /\ step'[j] = "listener")
        /\ step'[Service] = step[Service]
    BY ChangedTyped DEF UpdateEntry
  <1>2. current' \in Document
    BY DEF UpdateEntry, TypeOK, Document
  <1>3. updates' \in 0 .. MaxUpdates
    BY BoundsAssumption DEF UpdateEntry, TypeOK
  <1>4. UNCHANGED <<guard, after, exportVars, importVars, diskVars, calls, crashes,
                    disk_errors, invalid>>
    BY DEF UpdateEntry
  <1> QED
    BY <1>1, <1>2, <1>3, <1>4 DEF TypeOK, Calm, Writing, exportVars, importVars, diskVars

LEMMA ImportEntryTyped ==
  ASSUME TypeOK, JobsInv, NEW e \in Entries, ImportEntry(e)
  PROVE  TypeOK' /\ Calm /\ step'[Service] = step[Service] /\ source' = source
  <1>1. /\ step' \in [Jobs -> Steps] /\ again' \subseteq Entries
        /\ \A j \in Jobs : step'[j] = step[j] \/ (step[j] = "idle" /\ step'[j] = "listener")
        /\ step'[Service] = step[Service]
    <2>1. CASE Changed(e)
      BY <2>1, ChangedTyped
    <2>2. CASE UNCHANGED <<step, again>>
      BY <2>2 DEF TypeOK
    <2> QED
      BY <2>1, <2>2 DEF ImportEntry
  <1>2. current' \in Document
    BY DEF ImportEntry, JobsInv, TypeOK, Document
  <1>3. left' \subseteq Entries
    BY DEF ImportEntry, TypeOK
  <1>4. UNCHANGED <<guard, after, exportVars, source, diskVars, budgets>>
    BY DEF ImportEntry
  <1> QED
    BY <1>1, <1>2, <1>3, <1>4 DEF TypeOK, Calm, Writing, exportVars, diskVars, budgets

(* The service: an export, and an import up to the export that ends it.    *)
LEMMA ServiceTyped ==
  ASSUME TypeOK,
         CallExport \/ (\E document \in Document : CallImport(document))
             \/ ImportEnd \/ ImportInvalid
  PROVE  /\ TypeOK' /\ Calm
         /\ step'[Service] = "importing" => source' \in Document
  <1> USE DEF exportVars, importVars, diskVars, budgets, entryVars
  <1>1. Service \in Jobs
    BY DEF Jobs
  <1>2. PICK label \in {"service", "importing", "idle"} : Goto(Service, label)
    BY DEF CallExport, CallImport, ImportEnd, ImportInvalid
  <1>3. label \in Steps /\ label \notin Writing \union {"building"}
    BY DEF Steps, Writing
  <1>4. step[Service] \notin Writing \union {"building"}
    BY DEF CallExport, CallImport, ImportEnd, ImportInvalid, Writing
  <1>5. /\ step' \in [Jobs -> Steps] /\ step'[Service] = label
        /\ \A k \in Jobs : k # Service => step'[k] = step[k]
    BY <1>1, <1>2, <1>3, GotoTyped
  <1>6. UNCHANGED <<exportVars, diskVars>>
    BY DEF CallExport, CallImport, ImportEnd, ImportInvalid
  <1>7. Calm
    BY <1>3, <1>4, <1>5, <1>6 DEF Calm
  <1>8. /\ guard' \in BOOLEAN /\ source' \in Document \union {Nil} /\ left' \subseteq Entries
        /\ current' = current /\ after' = after /\ again' = again
    BY DEF CallExport, CallImport, ImportEnd, ImportInvalid, TypeOK
  <1>9. /\ updates' \in 0 .. MaxUpdates /\ calls' \in 0 .. MaxCalls
        /\ crashes' \in 0 .. MaxCrashes /\ disk_errors' \in 0 .. MaxDiskErrors
        /\ invalid' \in 0 .. MaxInvalid
    BY BoundsAssumption DEF CallExport, CallImport, ImportEnd, ImportInvalid, TypeOK
  <1>10. step'[Service] = "importing" => source' \in Document
    BY <1>1, <1>5 DEF CallExport, CallImport, ImportEnd, ImportInvalid, Goto
  <1> QED
    BY <1>5, <1>6, <1>7, <1>8, <1>9, <1>10 DEF TypeOK

(* A calm step keeps what is known of files and of what is written.        *)
LEMMA CalmKeeps ==
  ASSUME TypeOK, JobsInv, KindsInv, Calm,
         step'[Service] = "importing" => source' \in Document
  PROVE  JobsInv' /\ KindsInv'
  <1> USE DEF exportVars, diskVars
  <1>1. \A j \in Jobs : /\ step'[j] = "dump" <=> step[j] = "dump"
                        /\ step'[j] \in Writing => step[j] \in Writing
    BY DEF Calm, Writing
  <1>2. JobsInv'
    BY <1>1 DEF JobsInv, Calm
  <1>3. KindsInv'
    BY DEF KindsInv, UsedFor, Calm
  <1> QED
    BY <1>2, <1>3

-----------------------------------------------------------------------------
(* The inodes of the two files                                             *)

(* What an inode may hold.                                                 *)
Texts == {Blank, Torn} \union Settings \union Secrets

LEMMA SweptContents ==
  ASSUME NEW ns, NEW hs, NEW contents \in [Inodes -> Texts]
  PROVE  /\ Swept(ns, hs, contents) \in [Inodes -> Texts]
         /\ \A i \in Inodes : /\ Swept(ns, hs, contents)[i] \in {Blank, contents[i]}
                              /\ Kept(i, ns, hs) => Swept(ns, hs, contents)[i] = contents[i]
  <1>1. Blank \in Texts
    BY DEF Texts
  <1> QED
    BY <1>1 DEF Swept

(* A step that opens no file, moves a file only to the name it is meant    *)
(* for, and writes into a file only what it is meant for.                  *)
LEMMA KindsStep ==
  ASSUME KindsInv,
         \A k \in Jobs : \/ handle'[k] = Nil
                         \/ handle'[k] = handle[k] /\ file'[k] = file[k],
         \A f \in Files : /\ names'[f] \in {names[f], names[Temporary[f]], Nil}
                          /\ names'[Temporary[f]] \in {names[f], names[Temporary[f]], Nil},
         \A i \in Inodes : \/ content'[i] \in {Blank, Torn, content[i]}
                           \/ i \in UsedFor("settings") /\ content'[i] \in Settings
                           \/ i \in UsedFor("secrets") /\ content'[i] \in Secrets
  PROVE  KindsInv'
  <1>1. \A f \in Files : UsedFor(f)' \subseteq UsedFor(f)
    <2> SUFFICES ASSUME NEW f \in Files, NEW i \in UsedFor(f)' PROVE i \in UsedFor(f)
      OBVIOUS
    <2>1. i \in Inodes /\ i # Nil
      BY MarkersAssumption DEF UsedFor
    <2>2. CASE i \in {names'[f], names'[Temporary[f]]}
      BY <2>1, <2>2 DEF UsedFor
    <2>3. CASE \E k \in Jobs : handle'[k] = i /\ file'[k] = f
      <3>1. PICK k \in Jobs : handle'[k] = i /\ file'[k] = f
        BY <2>3
      <3>2. handle[k] = i /\ file[k] = f
        BY <2>1, <3>1
      <3> QED
        BY <2>1, <3>2 DEF UsedFor
    <2> QED
      BY <2>2, <2>3 DEF UsedFor
  <1>2. \A f \in Files : UsedFor(f) \subseteq Inodes
    BY DEF UsedFor
  <1>3. "settings" \in Files /\ "secrets" \in Files
    BY DEF Files
  <1> HIDE DEF UsedFor
  <1>4. UsedFor("settings")' \subseteq UsedFor("settings")
        /\ UsedFor("secrets")' \subseteq UsedFor("secrets")
    BY <1>1, <1>3
  <1>5. ASSUME NEW i \in UsedFor("settings")'
        PROVE  content'[i] \in {Blank, Torn} \union Settings
    <2>1. i \in UsedFor("settings") /\ i \in Inodes /\ i \notin UsedFor("secrets")
      BY <1>2, <1>3, <1>4, <1>5 DEF KindsInv
    <2> QED
      BY <2>1 DEF KindsInv
  <1>6. ASSUME NEW i \in UsedFor("secrets")'
        PROVE  content'[i] \in {Blank, Torn} \union Secrets
    <2>1. i \in UsedFor("secrets") /\ i \in Inodes /\ i \notin UsedFor("settings")
      BY <1>2, <1>3, <1>4, <1>6 DEF KindsInv
    <2> QED
      BY <2>1 DEF KindsInv
  <1>7. UsedFor("settings")' \intersect UsedFor("secrets")' = {}
    BY <1>4 DEF KindsInv
  <1> QED
    BY <1>5, <1>6, <1>7 DEF KindsInv

(* A step of one job that is not the loop of an import.                    *)
LEMMA JobStep ==
  ASSUME JobsInv, NEW j \in Jobs,
         \A k \in Jobs \ {j} : step'[k] = step[k] /\ handle'[k] = handle[k]
                               /\ exported'[k] = exported[k],
         handle'[j] # Nil <=> step'[j] = "dump",
         step'[j] \in Writing => exported'[j] \in Document,
         step'[j] # "importing", source' = source,
         names'["settings"] # Nil, names'["secrets"] # Nil
  PROVE  JobsInv'
  <1>1. ASSUME NEW k \in Jobs
        PROVE  /\ handle'[k] # Nil <=> step'[k] = "dump"
               /\ step'[k] \in Writing => exported'[k] \in Document
    <2>1. CASE k = j
      BY <2>1
    <2>2. CASE k # j
      BY <2>2 DEF JobsInv
    <2> QED
      BY <2>1, <2>2
  <1>2. step'[Service] = "importing" => source' \in Document
    <2>1. Service \in Jobs
      BY DEF Jobs
    <2>2. CASE Service = j
      BY <2>2
    <2>3. CASE Service # j
      BY <2>1, <2>3 DEF JobsInv
    <2> QED
      BY <2>2, <2>3
  <1> QED
    BY <1>1, <1>2 DEF JobsInv

LEMMA InitTypeInv == Init => TypeInv
  <1> SUFFICES ASSUME Init PROVE TypeInv
    OBVIOUS
  <1>1. TypeOK
    BY InitTypeOK
  <1>2. /\ names["settings"] = 1 /\ names["secrets"] = 2
        /\ names[Temporary["settings"]] = Nil /\ names[Temporary["secrets"]] = Nil
        /\ content[1] \in Settings /\ content[2] \in Secrets
    BY NamesOfFiles, EnoughInodes DEF Init, Temporary, Settings, Secrets
  <1>3. 1 # Nil /\ 2 # Nil
    BY EnoughInodes, MarkersAssumption
  <1>4. JobsInv
    <2>1. \A j \in Jobs : handle[j] = Nil /\ step[j] \in {"idle", "setup"}
      BY DEF Init
    <2>2. Service \in Jobs
      BY DEF Jobs
    <2> QED
      BY <1>2, <1>3, <2>1, <2>2 DEF JobsInv, Writing
  <1>5. UsedFor("settings") = {1} /\ UsedFor("secrets") = {2}
    BY <1>2, EnoughInodes, MarkersAssumption DEF UsedFor, Init
  <1>6. KindsInv
    BY <1>2, <1>5 DEF KindsInv
  <1> QED
    BY <1>1, <1>4, <1>6 DEF TypeInv

(* The counters of the model are within their bounds.                      *)
BudgetsOK ==
    /\ updates \in 0 .. MaxUpdates /\ calls \in 0 .. MaxCalls
    /\ crashes \in 0 .. MaxCrashes /\ disk_errors \in 0 .. MaxDiskErrors
    /\ invalid \in 0 .. MaxInvalid

(* The end of an export, whatever became of the files.                     *)
LEMMA ExportOverTypeInv ==
  ASSUME TypeInv, NEW j \in Jobs, ExportOver(j), UNCHANGED <<entryVars, importVars>>,
         BudgetsOK', names' \in [FileNames -> Inodes \union {Nil}],
         content' \in [Inodes -> {Blank, Torn} \union Settings \union Secrets],
         names'["settings"] # Nil, names'["secrets"] # Nil,
         \A f \in Files : /\ names'[f] \in {names[f], names[Temporary[f]], Nil}
                          /\ names'[Temporary[f]] \in {names[f], names[Temporary[f]], Nil},
         \A i \in Inodes : content'[i] \in {Blank, Torn, content[i]}
  PROVE  TypeInv'
  <1>1. /\ step' \in [Jobs -> Steps] /\ after' \in [Jobs -> {"idle", "setup"}]
        /\ again' \subseteq Entries
        /\ exported' \in [Jobs -> Document \union {Nil}]
        /\ secrets' \in [Jobs -> SUBSET (Entries \union {Own})]
        /\ file' \in [Jobs -> Files] /\ handle' \in [Jobs -> Inodes \union {Nil}]
    BY ExportOverTyped DEF TypeInv
  <1>2. /\ step'[j] \in {"idle", "setup", "listener"} /\ handle'[j] = Nil
        /\ \A k \in Jobs \ {j} : /\ step'[k] = step[k] /\ handle'[k] = handle[k]
                                 /\ exported'[k] = exported[k] /\ file'[k] = file[k]
    BY ExportOverTyped DEF TypeInv
  <1>3. TypeOK'
    BY <1>1 DEF TypeInv, TypeOK, BudgetsOK, entryVars, importVars
  <1>4. JobsInv'
    <2>1. step'[j] \notin Writing \union {"importing", "dump"}
      BY <1>2 DEF Writing
    <2>2. JobsInv /\ source' = source
      BY DEF TypeInv, importVars
    <2> QED
      BY <1>2, <2>1, <2>2, JobStep
  <1>5. KindsInv'
    <2>1. KindsInv /\ \A k \in Jobs : \/ handle'[k] = Nil
                                      \/ handle'[k] = handle[k] /\ file'[k] = file[k]
      BY <1>2 DEF TypeInv
    <2> QED
      BY <2>1, KindsStep
  <1> QED
    BY <1>3, <1>4, <1>5 DEF TypeInv

LEMMA ReadSecretsTypeInv ==
  ASSUME TypeInv, NEW j \in Jobs, ReadSecrets(j)
  PROVE  TypeInv'
  <1> USE DEF entryVars, importVars, diskVars, budgets
  <1>1. step[j] = "reading" /\ handle[j] = Nil
    BY DEF ReadSecrets, TypeInv, JobsInv
  <1>2. names["settings"] # Nil /\ names["secrets"] # Nil
    BY DEF TypeInv, JobsInv
  <1>3. CASE content[names["secrets"]] # Torn
    <2>1. names["secrets"] \in UsedFor("secrets")
      BY <1>2, NamesOfFiles DEF TypeInv, TypeOK, UsedFor, Files
    <2>2. content[names["secrets"]] \in {Blank} \union Secrets
      BY <1>3, <2>1 DEF TypeInv, KindsInv
    <2>3. secrets' \in [Jobs -> SUBSET (Entries \union {Own})]
      BY <1>3, <2>2 DEF ReadSecrets, TypeInv, TypeOK, Secrets
    <2>4. /\ step' \in [Jobs -> Steps] /\ step'[j] = "building"
          /\ \A k \in Jobs : k # j => step'[k] = step[k]
      BY <1>3, GotoTyped DEF ReadSecrets, TypeInv, Steps, Active
    <2>5. UNCHANGED <<after, again, exported, file, handle, current, guard, source, left,
                      names, content, updates, calls, crashes, disk_errors, invalid>>
      BY <1>3 DEF ReadSecrets
    <2>6. TypeOK'
      BY <2>3, <2>4, <2>5 DEF TypeInv, TypeOK
    <2>7. JobsInv'
      <3>1. step'[j] \notin Writing \union {"importing"}
        BY <2>4 DEF Writing
      <3> QED
        BY <1>1, <1>2, <2>4, <2>5, <3>1, JobStep DEF TypeInv
    <2>8. KindsInv'
      BY <2>5 DEF TypeInv, KindsInv, UsedFor
    <2> QED
      BY <2>6, <2>7, <2>8 DEF TypeInv
  <1>4. CASE content[names["secrets"]] = Torn
    <2>1. ExportOver(j) /\ UNCHANGED <<current, guard, source, left, names, content>>
      BY <1>4 DEF ReadSecrets
    <2>2. BudgetsOK'
      BY DEF ReadSecrets, BudgetsOK, TypeInv, TypeOK
    <2>3. /\ names' \in [FileNames -> Inodes \union {Nil}]
          /\ content' \in [Inodes -> {Blank, Torn} \union Settings \union Secrets]
      BY <2>1 DEF TypeInv, TypeOK
    <2> QED
      BY <1>2, <2>1, <2>2, <2>3, ExportOverTypeInv
  <1> QED
    BY <1>3, <1>4

LEMMA BuildTypeInv ==
  ASSUME TypeInv, NEW j \in Jobs, Build(j)
  PROVE  TypeInv'
  <1> USE DEF entryVars, importVars, diskVars, budgets
  <1>1. step[j] = "building" /\ handle[j] = Nil
    BY DEF Build, TypeInv, JobsInv
  <1>2. UNCHANGED <<current, guard, after, again, handle, source, left, names, content,
                    updates, calls, crashes, disk_errors, invalid>>
    BY DEF Build
  <1>3. /\ step' \in [Jobs -> Steps] /\ step'[j] = "open"
        /\ \A k \in Jobs : k # j => step'[k] = step[k]
    BY GotoTyped DEF Build, TypeInv, Steps, Active, Writing
  <1>4. /\ exported' \in [Jobs -> Document \union {Nil}]
        /\ secrets' \in [Jobs -> SUBSET (Entries \union {Own})]
        /\ file' \in [Jobs -> Files] /\ exported'[j] \in Document
        /\ \A k \in Jobs \ {j} : exported'[k] = exported[k] /\ file'[k] = file[k]
    BY DEF Build, TypeInv, TypeOK, Files
  <1>5. TypeOK'
    BY <1>2, <1>3, <1>4 DEF TypeInv, TypeOK
  <1>6. JobsInv'
    <2>1. step'[j] # "importing" /\ step'[j] # "dump"
      BY <1>3
    <2>2. JobsInv /\ names["settings"] # Nil /\ names["secrets"] # Nil
      BY DEF TypeInv, JobsInv
    <2> QED
      BY <1>1, <1>2, <1>3, <1>4, <2>1, <2>2, JobStep
  <1>7. KindsInv'
    BY <1>1, <1>2, <1>4, KindsStep DEF TypeInv
  <1> QED
    BY <1>5, <1>6, <1>7 DEF TypeInv

(* The inode a temporary file gets: its own one, or a free one.            *)
LEMMA OpenedInode ==
  ASSUME TypeInv, NEW j \in Jobs, OpenTemporary(j)
  PROVE  \E inode \in Inodes :
            /\ names' = [names EXCEPT ![Temporary[file[j]]] = inode]
            /\ handle' = [handle EXCEPT ![j] = inode]
            /\ content' = [content EXCEPT ![inode] = Blank]
            /\ names[Temporary[file[j]]] = inode \/ ~Kept(inode, names, handle)
  <1> DEFINE name == Temporary[file[j]]
             inode == IF names[name] # Nil THEN names[name]
                      ELSE CHOOSE i \in Inodes : ~Kept(i, names, handle)
  <1>1. name \in FileNames
    BY NamesOfFiles DEF TypeInv, TypeOK
  <1>2. /\ inode \in Inodes
        /\ names[name] = inode \/ ~Kept(inode, names, handle)
    <2>1. CASE names[name] # Nil
      BY <1>1, <2>1 DEF TypeInv, TypeOK
    <2>2. CASE names[name] = Nil
      <3>1. \E i \in Inodes : ~Kept(i, names, handle)
        BY <1>1, <2>2, FreeInode DEF TypeInv
      <3> QED
        BY <2>2, <3>1
    <2> QED
      BY <2>1, <2>2
  <1> QED
    BY <1>2 DEF OpenTemporary

LEMMA OpenTemporaryTypeInv ==
  ASSUME TypeInv, NEW j \in Jobs, OpenTemporary(j)
  PROVE  TypeInv'
  <1> USE DEF entryVars, importVars, diskVars, budgets
  <1>1. PICK inode \in Inodes :
            /\ names' = [names EXCEPT ![Temporary[file[j]]] = inode]
            /\ handle' = [handle EXCEPT ![j] = inode]
            /\ content' = [content EXCEPT ![inode] = Blank]
            /\ names[Temporary[file[j]]] = inode \/ ~Kept(inode, names, handle)
    BY OpenedInode
  <1>2. PICK f : f = file[j]
    OBVIOUS
  <1>3. /\ f \in Files /\ Temporary[f] \in FileNames /\ Temporary[f] \notin Files
        /\ f \in FileNames /\ inode # Nil
    BY <1>2, NamesOfFiles, EnoughInodes, MarkersAssumption DEF TypeInv, TypeOK
  <1>4. step[j] = "open"
    BY DEF OpenTemporary
  <1>5. /\ step' \in [Jobs -> Steps] /\ step'[j] = "dump"
        /\ \A k \in Jobs : k # j => step'[k] = step[k]
    BY GotoTyped DEF OpenTemporary, TypeInv, Steps, Active, Writing
  <1>6. UNCHANGED <<current, guard, after, again, exported, secrets, file, source, left,
                    updates, calls, crashes, disk_errors, invalid>>
    BY DEF OpenTemporary
  <1>7. /\ names' \in [FileNames -> Inodes \union {Nil}]
        /\ handle' \in [Jobs -> Inodes \union {Nil}]
        /\ content' \in [Inodes -> {Blank, Torn} \union Settings \union Secrets]
    BY <1>1 DEF TypeInv, TypeOK
  <1>8. TypeOK'
    BY <1>5, <1>6, <1>7 DEF TypeInv, TypeOK
  <1>9. \A n \in FileNames : names'[n] = IF n = Temporary[f] THEN inode ELSE names[n]
    BY <1>1, <1>2 DEF TypeInv, TypeOK
  <1>10. \A k \in Jobs : handle'[k] = IF k = j THEN inode ELSE handle[k]
    BY <1>1 DEF TypeInv, TypeOK
  <1>11. JobsInv'
    <2>1. "settings" \in Files /\ "secrets" \in Files
      BY DEF Files
    <2>2. names'["settings"] # Nil /\ names'["secrets"] # Nil
      BY <1>3, <1>9, <2>1, NamesOfFiles DEF TypeInv, JobsInv
    <2>3. exported[j] \in Document
      BY <1>4 DEF TypeInv, JobsInv, Writing
    <2> QED
      BY <1>3, <1>5, <1>6, <1>10, <2>2, <2>3, JobStep DEF TypeInv
  <1>12. \A g \in Files : UsedFor(g)' \subseteq UsedFor(g) \union {inode}
    <2> SUFFICES ASSUME NEW g \in Files, NEW i \in UsedFor(g)', i # inode
                 PROVE  i \in UsedFor(g)
      OBVIOUS
    <2>1. i \in Inodes /\ g \in FileNames /\ Temporary[g] \in FileNames
      BY NamesOfFiles DEF UsedFor
    <2>2. CASE i \in {names'[g], names'[Temporary[g]]}
      BY <1>9, <2>1, <2>2 DEF UsedFor
    <2>3. CASE \E k \in Jobs : handle'[k] = i /\ file'[k] = g
      BY <1>6, <1>10, <2>1, <2>3 DEF UsedFor
    <2> QED
      BY <2>2, <2>3 DEF UsedFor
  <1>13. \A g \in Files : g # f => inode \notin UsedFor(g)'
    <2> SUFFICES ASSUME NEW g \in Files, g # f, inode \in UsedFor(g)' PROVE FALSE
      OBVIOUS
    <2>1. /\ g \in FileNames /\ Temporary[g] \in FileNames
          /\ g # Temporary[f] /\ Temporary[g] # Temporary[f]
      BY <1>3, NamesOfFiles
    <2>2. inode \in UsedFor(g)
      <3>1. CASE inode \in {names'[g], names'[Temporary[g]]}
        BY <1>9, <2>1, <3>1 DEF UsedFor
      <3>2. CASE \E k \in Jobs : handle'[k] = inode /\ file'[k] = g
        <4>1. PICK k \in Jobs : handle'[k] = inode /\ file[k] = g
          BY <1>6, <3>2
        <4>2. k # j /\ handle[k] = inode
          BY <1>2, <1>10, <4>1
        <4> QED
          BY <4>1, <4>2 DEF UsedFor
      <3> QED
        BY <3>1, <3>2 DEF UsedFor
    <2>3. CASE names[Temporary[f]] = inode
      <3>1. inode \in UsedFor(f)
        BY <2>3 DEF UsedFor
      <3> QED
        BY <1>3, <2>2, <3>1 DEF TypeInv, KindsInv, Files
    <2>4. CASE ~Kept(inode, names, handle)
      <3>1. inode \in Range(names) \union Range(handle)
        BY <2>1, <2>2 DEF UsedFor, TypeInv, TypeOK, Range
      <3> QED
        BY <2>4, <3>1 DEF Kept
    <2> QED
      BY <1>1, <1>2, <2>3, <2>4
  <1>14. KindsInv'
    <2> DEFINE S == UsedFor("settings")
               P == UsedFor("secrets")
    <2>1. "settings" \in Files /\ "secrets" \in Files /\ f \in {"settings", "secrets"}
      BY <1>3 DEF Files
    <2>2. /\ S' \subseteq S \union {inode} /\ P' \subseteq P \union {inode}
          /\ ~(inode \in S' /\ inode \in P')
          /\ S' \subseteq Inodes /\ P' \subseteq Inodes
      BY <1>12, <1>13, <2>1 DEF UsedFor
    <2>3. \A i \in Inodes : content'[i] = IF i = inode THEN Blank ELSE content[i]
      BY <1>1 DEF TypeInv, TypeOK
    <2>4. /\ S \intersect P = {}
          /\ \A i \in S : content[i] \in {Blank, Torn} \union Settings
          /\ \A i \in P : content[i] \in {Blank, Torn} \union Secrets
      BY DEF TypeInv, KindsInv
    <2> HIDE DEF S, P
    <2>5. /\ S' \intersect P' = {}
          /\ \A i \in S' : content'[i] \in {Blank, Torn} \union Settings
          /\ \A i \in P' : content'[i] \in {Blank, Torn} \union Secrets
      BY <2>2, <2>3, <2>4
    <2> QED
      BY <2>5 DEF KindsInv, S, P
  <1> QED
    BY <1>8, <1>11, <1>14 DEF TypeInv

LEMMA DumpTypeInv ==
  ASSUME TypeInv, NEW j \in Jobs, Dump(j)
  PROVE  TypeInv'
  <1> USE DEF entryVars, importVars, diskVars, budgets
  <1>1. /\ step[j] = "dump" /\ handle[j] \in Inodes /\ exported[j] \in Document
        /\ file[j] \in Files /\ secrets[j] \subseteq Entries \union {Own}
    BY DEF Dump, TypeInv, TypeOK, JobsInv, Writing
  <1>2. PICK new \in {Payload(j), Torn} :
           content' = Swept(names, [handle EXCEPT ![j] = Nil],
                            [content EXCEPT ![handle[j]] = new])
    BY DEF Dump
  <1>3. /\ file[j] = "settings" => new \in {Torn} \union Settings
        /\ file[j] = "secrets" => new \in {Torn} \union Secrets
    BY <1>1, <1>2 DEF Payload, Settings, Secrets
  <1>4. PICK written \in [Inodes -> Texts] : written = [content EXCEPT ![handle[j]] = new]
    BY <1>1, <1>3 DEF TypeInv, TypeOK, Files, Texts
  <1>5. content' \in [Inodes -> Texts] /\ \A i \in Inodes : content'[i] \in {Blank, written[i]}
    BY <1>2, <1>4, SweptContents
  <1>6. /\ step' \in [Jobs -> Steps] /\ step'[j] = "replace"
        /\ \A k \in Jobs : k # j => step'[k] = step[k]
    BY GotoTyped DEF Dump, TypeInv, Steps, Active, Writing
  <1>7. UNCHANGED <<current, guard, after, again, exported, secrets, file, source, left, names,
                    updates, calls, crashes, disk_errors, invalid>>
    BY DEF Dump
  <1>8. /\ handle' \in [Jobs -> Inodes \union {Nil}] /\ handle'[j] = Nil
        /\ \A k \in Jobs \ {j} : handle'[k] = handle[k]
    BY DEF Dump, TypeInv, TypeOK
  <1>9. TypeOK'
    BY <1>5, <1>6, <1>7, <1>8 DEF TypeInv, TypeOK, Texts
  <1>10. JobsInv'
    <2>1. JobsInv /\ names["settings"] # Nil /\ names["secrets"] # Nil
      BY DEF TypeInv, JobsInv
    <2> QED
      BY <1>1, <1>6, <1>7, <1>8, <2>1, JobStep
  <1>11. KindsInv'
    <2>1. handle[j] \in UsedFor(file[j])
      BY <1>1 DEF UsedFor
    <2>2. \A i \in Inodes : i # handle[j] => content'[i] \in {Blank, content[i]}
      BY <1>4, <1>5 DEF TypeInv, TypeOK
    <2>3. content'[handle[j]] \in {Blank, new}
      BY <1>1, <1>4, <1>5 DEF TypeInv, TypeOK
    <2>4. \A i \in Inodes : \/ content'[i] \in {Blank, Torn, content[i]}
                            \/ i \in UsedFor("settings") /\ content'[i] \in Settings
                            \/ i \in UsedFor("secrets") /\ content'[i] \in Secrets
      <3>1. CASE file[j] = "settings"
        BY <1>3, <2>1, <2>2, <2>3, <3>1
      <3>2. CASE file[j] = "secrets"
        BY <1>3, <2>1, <2>2, <2>3, <3>2
      <3> QED
        BY <1>1, <3>1, <3>2 DEF Files
    <2>5. \A k \in Jobs : handle'[k] = Nil \/ (handle'[k] = handle[k] /\ file'[k] = file[k])
      BY <1>7, <1>8
    <2> QED
      BY <1>7, <2>4, <2>5, KindsStep DEF TypeInv
  <1> QED
    BY <1>9, <1>10, <1>11 DEF TypeInv

LEMMA DumpErrorTypeInv ==
  ASSUME TypeInv, NEW j \in Jobs, DumpError(j)
  PROVE  TypeInv'
  <1> USE DEF entryVars, importVars, diskVars, budgets
  <1>1. handle[j] \in Inodes
    BY DEF DumpError, TypeInv, TypeOK, JobsInv
  <1>2. PICK written \in [Inodes -> Texts] : written = [content EXCEPT ![handle[j]] = Torn]
    BY <1>1 DEF TypeInv, TypeOK, Texts
  <1>3. content' \in [Inodes -> Texts] /\ \A i \in Inodes : content'[i] \in {Blank, written[i]}
    BY <1>2, SweptContents DEF DumpError
  <1>4. \A i \in Inodes : content'[i] \in {Blank, Torn, content[i]}
    BY <1>2, <1>3 DEF TypeInv, TypeOK
  <1>5. ExportOver(j) /\ UNCHANGED <<current, guard, source, left, names>>
    BY DEF DumpError
  <1>6. BudgetsOK'
    BY BoundsAssumption DEF DumpError, BudgetsOK, TypeInv, TypeOK
  <1>7. /\ names' \in [FileNames -> Inodes \union {Nil}]
        /\ names'["settings"] # Nil /\ names'["secrets"] # Nil
    BY <1>5 DEF TypeInv, TypeOK, JobsInv
  <1>8. content' \in [Inodes -> {Blank, Torn} \union Settings \union Secrets]
    BY <1>3 DEF Texts
  <1> QED
    BY <1>4, <1>5, <1>6, <1>7, <1>8, ExportOverTypeInv

LEMMA ReplaceTypeInv ==
  ASSUME TypeInv, NEW j \in Jobs, Replace(j)
  PROVE  TypeInv'
  <1> USE DEF entryVars, importVars, diskVars, budgets
  <1>1. PICK f, temporary : f = file[j] /\ temporary = Temporary[f]
    OBVIOUS
  <1>2. /\ f \in Files /\ f \in FileNames /\ temporary \in FileNames /\ temporary \notin Files
        /\ step[j] = "replace" /\ handle[j] = Nil /\ exported[j] \in Document
    BY <1>1, NamesOfFiles DEF Replace, TypeInv, TypeOK, JobsInv, Writing
  <1>3. UNCHANGED <<current, guard, source, left, updates, calls, crashes, disk_errors, invalid>>
    BY DEF Replace
  <1>4. BudgetsOK'
    BY <1>3 DEF BudgetsOK, TypeInv, TypeOK
  <1>5. CASE names[temporary] = Nil
    <2>1. ExportOver(j) /\ UNCHANGED <<names, content>>
      BY <1>1, <1>5 DEF Replace
    <2>2. /\ names' \in [FileNames -> Inodes \union {Nil}]
          /\ content' \in [Inodes -> {Blank, Torn} \union Settings \union Secrets]
          /\ names'["settings"] # Nil /\ names'["secrets"] # Nil
      BY <2>1 DEF TypeInv, TypeOK, JobsInv
    <2> QED
      BY <1>3, <1>4, <2>1, <2>2, ExportOverTypeInv
  <1>6. CASE names[temporary] # Nil
    <2>1. /\ names' = [names EXCEPT ![f] = names[temporary], ![temporary] = Nil]
          /\ content' = Swept(names', handle, content)
      BY <1>1, <1>6 DEF Replace
    <2>2. /\ content' \in [Inodes -> {Blank, Torn} \union Settings \union Secrets]
          /\ \A i \in Inodes : content'[i] \in {Blank, Torn, content[i]}
      <3>1. content \in [Inodes -> Texts]
        BY DEF TypeInv, TypeOK, Texts
      <3>2. /\ content' \in [Inodes -> Texts]
            /\ \A i \in Inodes : content'[i] \in {Blank, content[i]}
        BY <2>1, <3>1, SweptContents
      <3> QED
        BY <3>2 DEF Texts
    <2>3. /\ names' \in [FileNames -> Inodes \union {Nil}]
          /\ \A n \in FileNames : names'[n] = IF n = f THEN names[temporary]
                                              ELSE IF n = temporary THEN Nil ELSE names[n]
      BY <1>2, <2>1 DEF TypeInv, TypeOK
    <2>4. names'["settings"] # Nil /\ names'["secrets"] # Nil
      <3>1. {"settings", "secrets"} \subseteq Files
        BY DEF Files
      <3> QED
        BY <1>2, <1>6, <2>3, <3>1, NamesOfFiles DEF TypeInv, JobsInv
    <2>5. \A g \in Files : /\ names'[g] \in {names[g], names[Temporary[g]], Nil}
                           /\ names'[Temporary[g]] \in {names[g], names[Temporary[g]], Nil}
      BY <1>1, <1>2, <2>3, NamesOfFiles
    <2>6. CASE f # "settings"
      <3>1. ExportOver(j)
        BY <1>1, <1>6, <2>6 DEF Replace
      <3> QED
        BY <1>3, <1>4, <2>2, <2>3, <2>4, <2>5, <3>1, ExportOverTypeInv
    <2>7. CASE f = "settings"
      <3>1. /\ file' = [file EXCEPT ![j] = "secrets"] /\ Goto(j, "open")
            /\ UNCHANGED <<after, again, exported, secrets, handle>>
        BY <1>1, <1>6, <2>7 DEF Replace
      <3>2. /\ step' \in [Jobs -> Steps] /\ step'[j] = "open"
            /\ \A k \in Jobs : k # j => step'[k] = step[k]
        BY <3>1, GotoTyped DEF TypeInv, Steps, Active, Writing
      <3>3. file' \in [Jobs -> Files] /\ \A k \in Jobs \ {j} : file'[k] = file[k]
        BY <3>1 DEF TypeInv, TypeOK, Files
      <3>4. TypeOK'
        BY <1>3, <2>2, <2>3, <3>1, <3>2, <3>3 DEF TypeInv, TypeOK
      <3>5. JobsInv'
        BY <1>2, <1>3, <2>4, <3>1, <3>2, JobStep DEF TypeInv
      <3>6. KindsInv'
        BY <1>2, <2>2, <2>5, <3>1, <3>3, KindsStep DEF TypeInv
      <3> QED
        BY <3>4, <3>5, <3>6 DEF TypeInv
    <2> QED
      BY <2>6, <2>7
  <1> QED
    BY <1>5, <1>6

LEMMA CrashTypeInv ==
  ASSUME TypeInv, Crash
  PROVE  TypeInv'
  <1>1. /\ step' \in [Jobs -> Steps] /\ after' \in [Jobs -> {"idle", "setup"}]
        /\ exported' \in [Jobs -> Document \union {Nil}]
        /\ secrets' \in [Jobs -> SUBSET (Entries \union {Own})]
        /\ file' \in [Jobs -> Files] /\ handle' \in [Jobs -> Inodes \union {Nil}]
        /\ \A j \in Jobs : step'[j] \in {"idle", "setup"} /\ handle'[j] = Nil
    BY DEF Crash, Steps, Files
  <1>2. /\ guard' \in BOOLEAN /\ again' = {} /\ source' = Nil /\ left' = {}
        /\ UNCHANGED <<current, names, updates, calls, disk_errors, invalid>>
        /\ crashes' \in 0 .. MaxCrashes
    <2>1. crashes' \in 0 .. MaxCrashes
      BY BoundsAssumption DEF Crash, TypeInv, TypeOK
    <2> QED
      BY <2>1 DEF Crash
  <1>3. /\ content' \in [Inodes -> {Blank, Torn} \union Settings \union Secrets]
        /\ \A i \in Inodes : content'[i] \in {Blank, Torn, content[i]}
    <2>1. content \in [Inodes -> Texts]
      BY DEF TypeInv, TypeOK, Texts
    <2>2. /\ content' \in [Inodes -> Texts]
          /\ \A i \in Inodes : content'[i] \in {Blank, content[i]}
      BY <2>1, SweptContents DEF Crash
    <2> QED
      BY <2>2 DEF Texts
  <1>4. TypeOK'
    BY <1>1, <1>2, <1>3 DEF TypeInv, TypeOK
  <1>5. JobsInv'
    <2>1. Service \in Jobs
      BY DEF Jobs
    <2> QED
      BY <1>1, <1>2, <2>1 DEF TypeInv, JobsInv, Writing
  <1>6. KindsInv'
    BY <1>1, <1>2, <1>3, KindsStep DEF TypeInv
  <1> QED
    BY <1>4, <1>5, <1>6 DEF TypeInv

LEMMA NextTypeInv == TypeInv /\ [Next]_vars => TypeInv'
  <1> SUFFICES ASSUME TypeInv, [Next]_vars PROVE TypeInv'
    OBVIOUS
  <1>1. ASSUME TypeOK', Calm, step'[Service] = "importing" => source' \in Document
        PROVE  TypeInv'
    BY <1>1, CalmKeeps DEF TypeInv
  <1>2. ASSUME NEW j \in Jobs, Write(j) PROVE TypeInv'
    BY <1>2, ReadSecretsTypeInv, BuildTypeInv, OpenTemporaryTypeInv, DumpTypeInv, ReplaceTypeInv
       DEF Write
  <1>3. ASSUME NEW e \in Entries, SkipExport(e) PROVE TypeInv'
    <2>1. TypeOK' /\ Calm
      BY <1>3, SkipExportTyped DEF TypeInv
    <2>2. step'[Service] = "importing" => step[Service] = "importing"
      BY <1>3 DEF SkipExport, Goto, TypeInv, TypeOK, Jobs
    <2>3. source' = source
      BY <1>3 DEF SkipExport, importVars
    <2> QED
      BY <1>1, <2>1, <2>2, <2>3 DEF TypeInv, JobsInv
  <1>4. ASSUME NEW j \in Jobs, StartExport(j) PROVE TypeInv'
    <2>1. TypeOK' /\ Calm
      BY <1>4, StartExportTyped DEF TypeInv
    <2>2. step'[Service] = "importing" => step[Service] = "importing"
      BY <1>4 DEF StartExport, Goto, TypeInv, TypeOK, Jobs
    <2>3. source' = source
      BY <1>4 DEF StartExport, importVars
    <2> QED
      BY <1>1, <2>1, <2>2, <2>3 DEF TypeInv, JobsInv
  <1>5. ASSUME NEW e \in Entries,
               ImportEntry(e) \/ \E version \in Versions : UpdateEntry(e, version)
        PROVE  TypeInv'
    <2>1. TypeOK' /\ Calm /\ step'[Service] = step[Service] /\ source' = source
      BY <1>5, ImportEntryTyped, UpdateEntryTyped DEF TypeInv
    <2> QED
      BY <1>1, <2>1 DEF TypeInv, JobsInv
  <1>6. ASSUME CallExport \/ (\E document \in Document : CallImport(document))
                   \/ ImportEnd \/ ImportInvalid
        PROVE  TypeInv'
    BY <1>1, <1>6, ServiceTyped DEF TypeInv
  <1>7. CASE UNCHANGED vars
    <2> USE DEF vars, entryVars, exportVars, importVars, diskVars, budgets
    <2>1. TypeOK' /\ Calm
      BY <1>7 DEF TypeInv, TypeOK, Calm
    <2> QED
      BY <1>1, <1>7, <2>1 DEF TypeInv, JobsInv
  <1>8. Service \in Jobs /\ \A e \in Entries : e \in Jobs
    BY DEF Jobs
  <1> QED
    BY <1>2, <1>3, <1>4, <1>5, <1>6, <1>7, <1>8, DumpErrorTypeInv, CrashTypeInv
       DEF Next, Automatic, ServiceJob, Stop

(* Every variable has its type, and neither file gets the other's text,    *)
(* however many exports, imports and crashes overlap.                      *)
THEOREM TypeCorrect == Spec => [](TypeOK /\ TypeInv)
  <1>1. TypeInv => TypeOK /\ TypeInv
    BY DEF TypeInv
  <1> QED
    BY <1>1, InitTypeInv, NextTypeInv, PTL DEF Spec

-----------------------------------------------------------------------------
(* Complete files                                                          *)

LEMMA InitFiles == Init => FilesInv /\ WriterInv
  <1> SUFFICES ASSUME Init PROVE FilesInv /\ WriterInv
    OBVIOUS
  <1>1. /\ names["settings"] = 1 /\ names["secrets"] = 2
        /\ \A n \in FileNames : n \notin {"settings", "secrets"} => names[n] = Nil
        /\ content[1] \in Settings /\ content[2] \in Secrets /\ Own \in content[2].keys
    BY NamesOfFiles, EnoughInodes DEF Init, Settings, Secrets
  <1>2. FilesInv
    BY <1>1 DEF FilesInv
  <1>3. \A j \in Jobs : step[j] \in {"idle", "setup"}
    BY DEF Init
  <1>4. WriterInv
    BY <1>3 DEF WriterInv, Writing
  <1> QED
    BY <1>2, <1>4

LEMMA CalmFiles ==
  ASSUME FilesInv, WriterInv, Calm
  PROVE  FilesInv' /\ WriterInv'
  <1> USE DEF exportVars, diskVars
  <1>1. FilesInv'
    BY DEF FilesInv, Calm
  <1>2. ASSUME NEW j \in Jobs, step'[j] \in Writing \union {"building"}
        PROVE  step'[j] = step[j]
    BY <1>2 DEF Calm
  <1>3. \A j \in Jobs : Payload(j)' = Payload(j)
    BY DEF Calm, Payload
  <1>4. ASSUME NEW j \in Jobs
        PROVE  /\ step'[j] = "dump" => /\ handle'[j] = names'[Temporary[file'[j]]]
                                       /\ content'[handle'[j]] = Blank
               /\ step'[j] = "replace" =>
                      /\ names'[Temporary[file'[j]]] # Nil
                      /\ content'[names'[Temporary[file'[j]]]] = Payload(j)'
               /\ step'[j] \in Writing \union {"building"} => Own \in secrets'[j]
    <2>1. UNCHANGED <<handle, names, file, content, secrets>>
      BY DEF Calm
    <2> QED
      BY <1>2, <1>3, <1>4, <2>1 DEF WriterInv, Writing
  <1> QED
    BY <1>1, <1>4 DEF WriterInv

(* While one job exports, no other does, and what is to be known of its    *)
(* temporary file concerns this job alone.                                 *)
LEMMA OthersRest ==
  ASSUME NoOverlap, NEW j \in Jobs, step[j] \in Active, NEW k \in Jobs \ {j}
  PROVE  step[k] \notin Active
  BY DEF NoOverlap, Running

LEMMA WriterStep ==
  ASSUME NEW j \in Jobs, \A k \in Jobs \ {j} : step'[k] \notin Active,
         step'[j] = "dump" => /\ handle'[j] = names'[Temporary[file'[j]]]
                              /\ content'[handle'[j]] = Blank,
         step'[j] = "replace" => /\ names'[Temporary[file'[j]]] # Nil
                                 /\ content'[names'[Temporary[file'[j]]]] = Payload(j)',
         step'[j] \in Writing \union {"building"} => Own \in secrets'[j]
  PROVE  WriterInv'
  <1>1. \A k \in Jobs \ {j} : step'[k] \notin {"dump", "replace"}
                              /\ step'[k] \notin Writing \union {"building"}
    BY DEF Active, Writing
  <1> QED
    BY <1>1 DEF WriterInv

(* The end of an export leaves no job that writes.                         *)
LEMMA ExportOverWriter ==
  ASSUME TypeInv, NoOverlap, NEW j \in Jobs, step[j] \in Active, ExportOver(j)
  PROVE  WriterInv'
  <1>1. /\ step'[j] \in {"idle", "setup", "listener"}
        /\ \A k \in Jobs \ {j} : step'[k] = step[k]
    BY ExportOverTyped DEF TypeInv
  <1>2. \A k \in Jobs \ {j} : step'[k] \notin Active
    BY <1>1, OthersRest
  <1>3. step'[j] \notin {"dump", "replace"} /\ step'[j] \notin Writing \union {"building"}
    BY <1>1 DEF Writing
  <1> QED
    BY <1>2, <1>3, WriterStep

LEMMA ReadSecretsFiles ==
  ASSUME TypeInv, NoOverlap, FilesInv, WriterInv, NEW j \in Jobs, ReadSecrets(j)
  PROVE  FilesInv' /\ WriterInv'
  <1>1. content[names["secrets"]] \notin {Blank, Torn} /\ Own \in content[names["secrets"]].keys
    BY MarkersAssumption DEF FilesInv
  <1>2. /\ secrets' = [secrets EXCEPT ![j] = content[names["secrets"]].keys]
        /\ Goto(j, "building") /\ UNCHANGED <<names, content>>
    BY <1>1 DEF ReadSecrets, diskVars
  <1>3. FilesInv'
    BY <1>2 DEF FilesInv
  <1>4. Own \in secrets'[j]
    BY <1>1, <1>2 DEF TypeInv, TypeOK
  <1>5. step'[j] = "building" /\ \A k \in Jobs \ {j} : step'[k] = step[k]
    BY <1>2, GotoTyped DEF TypeInv, Steps, Active
  <1>6. \A k \in Jobs \ {j} : step'[k] \notin Active
    BY <1>5, OthersRest DEF ReadSecrets, Active
  <1>7. WriterInv'
    BY <1>4, <1>5, <1>6, WriterStep
  <1> QED
    BY <1>3, <1>7

LEMMA BuildFiles ==
  ASSUME TypeInv, NoOverlap, FilesInv, WriterInv, NEW j \in Jobs, Build(j)
  PROVE  FilesInv' /\ WriterInv'
  <1>1. FilesInv'
    BY DEF Build, FilesInv, diskVars
  <1>2. Own \in secrets'[j]
    BY DEF Build, WriterInv, TypeInv, TypeOK
  <1>3. step'[j] = "open" /\ \A k \in Jobs \ {j} : step'[k] = step[k]
    BY GotoTyped DEF Build, TypeInv, Steps, Active, Writing
  <1>4. \A k \in Jobs \ {j} : step'[k] \notin Active
    BY <1>3, OthersRest DEF Build, Active
  <1>5. WriterInv'
    BY <1>2, <1>3, <1>4, WriterStep
  <1> QED
    BY <1>1, <1>5

LEMMA OpenTemporaryFiles ==
  ASSUME TypeInv, NoOverlap, FilesInv, WriterInv, NEW j \in Jobs, OpenTemporary(j)
  PROVE  FilesInv' /\ WriterInv'
  <1>1. PICK inode \in Inodes :
            /\ names' = [names EXCEPT ![Temporary[file[j]]] = inode]
            /\ handle' = [handle EXCEPT ![j] = inode]
            /\ content' = [content EXCEPT ![inode] = Blank]
            /\ names[Temporary[file[j]]] = inode \/ ~Kept(inode, names, handle)
    BY OpenedInode
  <1>2. PICK temporary : temporary = Temporary[file[j]]
    OBVIOUS
  <1>3. /\ temporary \in FileNames /\ temporary \notin Files /\ inode # Nil
        /\ "settings" \in Files /\ "secrets" \in Files
        /\ "settings" \in FileNames /\ "secrets" \in FileNames
    BY <1>2, NamesOfFiles, EnoughInodes, MarkersAssumption DEF TypeInv, TypeOK, Files
  <1>4. \A n \in FileNames : n # temporary => names[n] # inode
    <2> SUFFICES ASSUME NEW n \in FileNames, n # temporary, names[n] = inode PROVE FALSE
      OBVIOUS
    <2>1. inode \in Range(names)
      BY DEF TypeInv, TypeOK, Range
    <2>2. names[temporary] = inode
      BY <1>1, <1>2, <2>1 DEF Kept
    <2> QED
      BY <1>3, <2>2 DEF FilesInv
  <1>5. \A n \in FileNames : names'[n] = IF n = temporary THEN inode ELSE names[n]
    BY <1>1, <1>2 DEF TypeInv, TypeOK
  <1>6. \A n \in FileNames : n # temporary => content'[names'[n]] = content[names[n]]
                                              \/ names[n] = Nil
    BY <1>1, <1>4, <1>5 DEF TypeInv, TypeOK
  <1>7. FilesInv'
    <2>1. names["settings"] # Nil /\ names["secrets"] # Nil
      BY DEF TypeInv, JobsInv
    <2>2. /\ content'[names'["settings"]] = content[names["settings"]]
          /\ content'[names'["secrets"]] = content[names["secrets"]]
      BY <1>3, <1>6, <2>1
    <2>3. \A m, n \in FileNames : names'[m] # Nil /\ names'[m] = names'[n] => m = n
      BY <1>4, <1>5 DEF FilesInv
    <2> QED
      BY <2>2, <2>3 DEF FilesInv
  <1>8. /\ handle'[j] = inode /\ names'[temporary] = inode /\ content'[inode] = Blank
        /\ file' = file /\ secrets' = secrets
    BY <1>1, <1>3, <1>5 DEF OpenTemporary, TypeInv, TypeOK
  <1>9. step'[j] = "dump" /\ \A k \in Jobs \ {j} : step'[k] = step[k]
    BY GotoTyped DEF OpenTemporary, TypeInv, Steps, Active, Writing
  <1>10. step[j] = "open" /\ Own \in secrets[j]
    BY DEF OpenTemporary, WriterInv, Writing
  <1>11. \A k \in Jobs \ {j} : step'[k] \notin Active
    BY <1>9, <1>10, OthersRest DEF Active, Writing
  <1>12. WriterInv'
    BY <1>2, <1>8, <1>9, <1>10, <1>11, WriterStep
  <1> QED
    BY <1>7, <1>12

(* Writing into the temporary file of the job touches nothing that has     *)
(* another name.                                                           *)
LEMMA WrittenFiles ==
  ASSUME TypeInv, FilesInv, NEW temporary \in FileNames \ Files, NEW hs,
         names[temporary] # Nil, NEW new \in Texts, names' = names,
         content' = Swept(names, hs, [content EXCEPT ![names[temporary]] = new])
  PROVE  FilesInv' /\ content'[names[temporary]] = new
  <1>1. PICK written : written = [content EXCEPT ![names[temporary]] = new]
    OBVIOUS
  <1>2. content \in [Inodes -> Texts] /\ names[temporary] \in Inodes
    BY DEF TypeInv, TypeOK, Texts
  <1>3. written \in [Inodes -> Texts]
    BY <1>1, <1>2
  <1>4. \A n \in FileNames : names[n] # Nil => content'[names[n]] = written[names[n]]
    <2> SUFFICES ASSUME NEW n \in FileNames, names[n] # Nil
                 PROVE  content'[names[n]] = written[names[n]]
      OBVIOUS
    <2>1. names[n] \in Inodes /\ Kept(names[n], names, hs)
      BY DEF TypeInv, TypeOK, Kept, Range
    <2>2. content' = Swept(names, hs, written)
      BY <1>1
    <2> QED
      BY <1>3, <2>1, <2>2, SweptContents
  <1>5. \A n \in FileNames : names[n] # Nil /\ n # temporary => names[n] # names[temporary]
    BY DEF FilesInv
  <1>6. /\ "settings" \in FileNames /\ "secrets" \in FileNames
        /\ temporary # "settings" /\ temporary # "secrets"
        /\ names["settings"] \in Inodes /\ names["secrets"] \in Inodes
        /\ names["settings"] # Nil /\ names["secrets"] # Nil
    BY NamesOfFiles DEF Files, TypeInv, TypeOK, JobsInv
  <1>7. /\ content'[names["settings"]] = content[names["settings"]]
        /\ content'[names["secrets"]] = content[names["secrets"]]
        /\ content'[names[temporary]] = new
    BY <1>1, <1>2, <1>4, <1>5, <1>6
  <1> QED
    BY <1>7 DEF FilesInv

LEMMA DumpFiles ==
  ASSUME TypeInv, NoOverlap, FilesInv, WriterInv, NEW j \in Jobs, Dump(j)
  PROVE  FilesInv' /\ WriterInv'
  <1>1. PICK temporary : temporary = Temporary[file[j]]
    OBVIOUS
  <1>2. /\ temporary \in FileNames \ Files /\ step[j] = "dump" /\ handle[j] # Nil
        /\ exported[j] \in Document
    BY <1>1, NamesOfFiles DEF Dump, TypeInv, TypeOK, JobsInv, Writing
  <1>3. handle[j] = names[temporary] /\ content[handle[j]] = Blank /\ Own \in secrets[j]
    BY <1>1, <1>2 DEF WriterInv, Writing
  <1>4. Payload(j) \in Texts
    BY <1>2 DEF Payload, Texts, Settings, Secrets, TypeInv, TypeOK, Files
  <1>5. /\ content' = Swept(names, [handle EXCEPT ![j] = Nil],
                            [content EXCEPT ![names[temporary]] = Payload(j)])
        /\ UNCHANGED <<names, exported, secrets, file>>
    BY <1>3 DEF Dump
  <1>6. FilesInv' /\ content'[names[temporary]] = Payload(j)
    BY <1>2, <1>3, <1>4, <1>5, WrittenFiles
  <1>7. step'[j] = "replace" /\ \A k \in Jobs \ {j} : step'[k] = step[k]
    BY GotoTyped DEF Dump, TypeInv, Steps, Active, Writing
  <1>8. \A k \in Jobs \ {j} : step'[k] \notin Active
    BY <1>2, <1>7, OthersRest DEF Active, Writing
  <1>9. Payload(j)' = Payload(j)
    BY <1>5 DEF Payload
  <1>10. WriterInv'
    BY <1>1, <1>2, <1>3, <1>5, <1>6, <1>7, <1>8, <1>9, WriterStep
  <1> QED
    BY <1>6, <1>10

LEMMA DumpErrorFiles ==
  ASSUME TypeInv, NoOverlap, FilesInv, WriterInv, NEW j \in Jobs, DumpError(j)
  PROVE  FilesInv' /\ WriterInv'
  <1>1. PICK temporary : temporary = Temporary[file[j]]
    OBVIOUS
  <1>2. /\ temporary \in FileNames \ Files /\ step[j] = "dump" /\ handle[j] # Nil
    BY <1>1, NamesOfFiles DEF DumpError, TypeInv, TypeOK, JobsInv
  <1>3. handle[j] = names[temporary] /\ Torn \in Texts
    BY <1>1, <1>2 DEF WriterInv, Texts
  <1>4. /\ content' = Swept(names, [handle EXCEPT ![j] = Nil],
                            [content EXCEPT ![names[temporary]] = Torn])
        /\ names' = names
    BY <1>3 DEF DumpError
  <1>5. FilesInv'
    BY <1>2, <1>3, <1>4, WrittenFiles
  <1>6. WriterInv'
    BY <1>2, ExportOverWriter DEF DumpError, Active, Writing
  <1> QED
    BY <1>5, <1>6

LEMMA ReplaceFiles ==
  ASSUME TypeInv, NoOverlap, FilesInv, WriterInv, NEW j \in Jobs, Replace(j)
  PROVE  FilesInv' /\ WriterInv'
  <1>1. PICK f, temporary : f = file[j] /\ temporary = Temporary[f]
    OBVIOUS
  <1>2. /\ f \in Files /\ f \in FileNames /\ temporary \in FileNames /\ temporary \notin Files
        /\ step[j] = "replace" /\ step[j] \in Active /\ exported[j] \in Document
        /\ secrets[j] \in SUBSET (Entries \union {Own})
    BY <1>1, NamesOfFiles DEF Replace, TypeInv, TypeOK, JobsInv, Writing, Active
  <1>3. /\ names[temporary] # Nil /\ content[names[temporary]] = Payload(j)
        /\ Own \in secrets[j]
    BY <1>1, <1>2 DEF WriterInv, Writing
  <1>4. /\ names' = [names EXCEPT ![f] = names[temporary], ![temporary] = Nil]
        /\ content' = Swept(names', handle, content)
    BY <1>1, <1>3 DEF Replace
  <1>5. \A n \in FileNames : names'[n] = IF n = f THEN names[temporary]
                                         ELSE IF n = temporary THEN Nil ELSE names[n]
    BY <1>2, <1>4 DEF TypeInv, TypeOK
  <1>6. \A n \in FileNames : names'[n] # Nil => content'[names'[n]] = content[names'[n]]
    <2> SUFFICES ASSUME NEW n \in FileNames, names'[n] # Nil
                 PROVE  content'[names'[n]] = content[names'[n]]
      OBVIOUS
    <2>1. names'[n] \in Inodes /\ Kept(names'[n], names', handle)
      BY <1>2, <1>4, <1>5 DEF TypeInv, TypeOK, Kept, Range
    <2>2. content \in [Inodes -> Texts]
      BY DEF TypeInv, TypeOK, Texts
    <2> QED
      BY <1>4, <2>1, <2>2, SweptContents
  <1>7. FilesInv'
    <2>1. \A m, n \in FileNames : names'[m] # Nil /\ names'[m] = names'[n] => m = n
      BY <1>2, <1>5 DEF FilesInv
    <2>2. names["settings"] # Nil /\ names["secrets"] # Nil
      BY DEF TypeInv, JobsInv
    <2>3. content'[names'[f]] = Payload(j)
      BY <1>2, <1>3, <1>5, <1>6
    <2>4. \A g \in Files : g # f => content'[names'[g]] = content[names[g]]
      <3> SUFFICES ASSUME NEW g \in Files, g # f
                   PROVE  content'[names'[g]] = content[names[g]]
        OBVIOUS
      <3>1. g \in FileNames /\ names'[g] = names[g] /\ names[g] # Nil
        BY <1>2, <1>5, <2>2, NamesOfFiles DEF Files
      <3> QED
        BY <1>6, <3>1
    <2>5. CASE f = "settings"
      <3>1. Payload(j) \in Settings
        BY <1>1, <1>2, <2>5 DEF Payload, Settings
      <3>2. content'[names'["secrets"]] = content[names["secrets"]]
        BY <2>4, <2>5 DEF Files
      <3> QED
        BY <2>1, <2>3, <2>5, <3>1, <3>2 DEF FilesInv
    <2>6. CASE f = "secrets"
      <3>1. Payload(j) \in Secrets /\ Own \in Payload(j).keys
        BY <1>1, <1>2, <1>3, <2>6 DEF Payload, Secrets
      <3>2. content'[names'["settings"]] = content[names["settings"]]
        BY <2>4, <2>6 DEF Files
      <3> QED
        BY <2>1, <2>3, <2>6, <3>1, <3>2 DEF FilesInv
    <2> QED
      BY <1>2, <2>5, <2>6 DEF Files
  <1>8. WriterInv'
    <2>1. CASE f # "settings"
      <3>1. ExportOver(j)
        BY <1>1, <1>3, <2>1 DEF Replace
      <3> QED
        BY <1>2, <3>1, ExportOverWriter
    <2>2. CASE f = "settings"
      <3>1. Goto(j, "open") /\ secrets' = secrets
        BY <1>1, <1>3, <2>2 DEF Replace
      <3>2. step'[j] = "open" /\ \A k \in Jobs \ {j} : step'[k] = step[k]
        BY <3>1, GotoTyped DEF TypeInv, Steps, Active, Writing
      <3>3. \A k \in Jobs \ {j} : step'[k] \notin Active
        BY <1>2, <3>2, OthersRest
      <3> QED
        BY <1>3, <3>1, <3>2, <3>3, WriterStep
    <2> QED
      BY <2>1, <2>2
  <1> QED
    BY <1>7, <1>8

LEMMA CrashFiles ==
  ASSUME TypeInv, FilesInv, Crash
  PROVE  FilesInv' /\ WriterInv'
  <1>1. names' = names /\ content' = Swept(names, handle', content)
    BY DEF Crash
  <1>2. \A n \in FileNames : names[n] # Nil => content'[names[n]] = content[names[n]]
    <2> SUFFICES ASSUME NEW n \in FileNames, names[n] # Nil
                 PROVE  content'[names[n]] = content[names[n]]
      OBVIOUS
    <2>1. names[n] \in Inodes /\ Kept(names[n], names, handle')
      BY DEF TypeInv, TypeOK, Kept, Range
    <2>2. content \in [Inodes -> Texts]
      BY DEF TypeInv, TypeOK, Texts
    <2> QED
      BY <1>1, <2>1, <2>2, SweptContents
  <1>3. /\ "settings" \in FileNames /\ "secrets" \in FileNames
        /\ names["settings"] # Nil /\ names["secrets"] # Nil
    BY NamesOfFiles DEF TypeInv, JobsInv
  <1>4. FilesInv'
    BY <1>1, <1>2, <1>3 DEF FilesInv
  <1>5. \A j \in Jobs : step'[j] \in {"idle", "setup"}
    BY DEF Crash
  <1>6. WriterInv'
    BY <1>5 DEF WriterInv, Writing
  <1> QED
    BY <1>4, <1>6

LEMMA NextFiles ==
  TypeInv /\ NoOverlap /\ FilesInv /\ WriterInv /\ [Next]_vars => FilesInv' /\ WriterInv'
  <1> SUFFICES ASSUME TypeInv, NoOverlap, FilesInv, WriterInv, [Next]_vars
               PROVE  FilesInv' /\ WriterInv'
    OBVIOUS
  <1>1. ASSUME Calm PROVE FilesInv' /\ WriterInv'
    BY <1>1, CalmFiles
  <1>2. ASSUME NEW j \in Jobs, Write(j) \/ DumpError(j) PROVE FilesInv' /\ WriterInv'
    BY <1>2, ReadSecretsFiles, BuildFiles, OpenTemporaryFiles, DumpFiles, DumpErrorFiles,
       ReplaceFiles DEF Write
  <1>3. ASSUME NEW e \in Entries,
               \/ SkipExport(e) \/ ImportEntry(e)
               \/ \E version \in Versions : UpdateEntry(e, version)
        PROVE  FilesInv' /\ WriterInv'
    BY <1>1, <1>3, SkipExportTyped, ImportEntryTyped, UpdateEntryTyped DEF TypeInv
  <1>4. ASSUME NEW j \in Jobs, StartExport(j) PROVE FilesInv' /\ WriterInv'
    BY <1>1, <1>4, StartExportTyped DEF TypeInv
  <1>5. ASSUME CallExport \/ (\E document \in Document : CallImport(document))
                   \/ ImportEnd \/ ImportInvalid
        PROVE  FilesInv' /\ WriterInv'
    BY <1>1, <1>5, ServiceTyped DEF TypeInv
  <1>6. CASE UNCHANGED vars
    BY <1>1, <1>6 DEF Calm, vars, exportVars, diskVars
  <1>7. Service \in Jobs /\ \A e \in Entries : e \in Jobs
    BY DEF Jobs
  <1> QED
    BY <1>2, <1>3, <1>4, <1>5, <1>6, <1>7, CrashFiles
       DEF Next, Automatic, ServiceJob, Stop

LEMMA FilesOK == TypeInv /\ FilesInv => FilesComplete /\ OwnSecretKept
  BY MarkersAssumption DEF FilesInv, FilesComplete, OwnSecretKept, Files

(* As long as no two exports are under way at once, the two files are      *)
(* complete and the user's own secret is in its file, at every step of     *)
(* every export, after every crash and whenever the disk was full.         *)
THEOREM FilesKept == Spec /\ []NoOverlap => [](FilesComplete /\ OwnSecretKept)
  <1>1. Init => TypeInv /\ FilesInv /\ WriterInv
    BY InitTypeInv, InitFiles
  <1>2. (TypeInv /\ FilesInv /\ WriterInv) /\ NoOverlap /\ [Next]_vars
            => (TypeInv /\ FilesInv /\ WriterInv)'
    BY NextTypeInv, NextFiles
  <1> QED
    BY <1>1, <1>2, FilesOK, PTL DEF Spec

-----------------------------------------------------------------------------
(* One export at a time                                                    *)

LEMMA NoNewExport ==
  ASSUME NoOverlap, \A k \in Jobs : step'[k] \in Active => step[k] \in Active
  PROVE  NoOverlap'
  BY DEF NoOverlap, Running

(* A job goes on to a step that is no export, or goes on with its export.  *)
LEMMA GotoNoNewExport ==
  ASSUME TypeInv, NoOverlap, NEW j \in Jobs, NEW label \in Steps, Goto(j, label),
         label \in Active => step[j] \in Active
  PROVE  NoOverlap'
  BY GotoTyped, NoNewExport DEF TypeInv

LEMMA ExportOverNoNewExport ==
  ASSUME TypeInv, NoOverlap, NEW j \in Jobs, ExportOver(j)
  PROVE  NoOverlap'
  <1>1. step'[j] \notin Active
    BY ExportOverTyped DEF TypeInv, Active, Writing
  <1>2. \A k \in Jobs \ {j} : step'[k] = step[k]
    BY ExportOverTyped DEF TypeInv
  <1> QED
    BY <1>1, <1>2, NoNewExport

LEMMA NextNoOverlap ==
  ASSUME MaxOverlap = 1
  PROVE  TypeInv /\ NoOverlap /\ [Next]_vars => NoOverlap'
  <1> SUFFICES ASSUME TypeInv, NoOverlap, [Next]_vars PROVE NoOverlap'
    OBVIOUS
  <1>0. "setup" \in Steps \ Active /\ "listener" \in Steps \ Active /\ "idle" \in Steps \ Active
        /\ "service" \in Steps \ Active /\ "importing" \in Steps \ Active
        /\ {"reading", "building", "open", "dump", "replace"} \subseteq Steps \intersect Active
    BY DEF Steps, Active, Writing
  <1>1. ASSUME NEW e \in Jobs, SkipExport(e) PROVE NoOverlap'
    BY <1>0, <1>1, GotoNoNewExport DEF SkipExport
  <1>2. ASSUME NEW j \in Jobs, StartExport(j) PROVE NoOverlap'
    <2>1. Running = {}
      <3>1. Running \in SUBSET Jobs
        BY DEF Running
      <3>2. IsFiniteSet(Running) /\ Cardinality(Running) \in Nat
        BY <3>1, EnoughInodes, FS_Subset, FS_CardinalityType
      <3>3. Cardinality(Running) = 0
        BY <1>2, <3>2 DEF StartExport
      <3> QED
        BY <3>2, <3>3, FS_EmptySet
    <2>2. \A k \in Jobs : k # j => step'[k] = step[k]
      BY <1>2 DEF StartExport, Goto, TypeInv, TypeOK
    <2> QED
      BY <2>1, <2>2 DEF NoOverlap, Running
  <1>3. ASSUME NEW j \in Jobs, Write(j) PROVE NoOverlap'
    <2>1. CASE ReadSecrets(j)
      BY <1>0, <2>1, GotoNoNewExport, ExportOverNoNewExport DEF ReadSecrets
    <2>2. CASE Build(j)
      BY <1>0, <2>2, GotoNoNewExport DEF Build
    <2>3. CASE OpenTemporary(j)
      BY <1>0, <2>3, GotoNoNewExport DEF OpenTemporary
    <2>4. CASE Dump(j)
      BY <1>0, <2>4, GotoNoNewExport DEF Dump
    <2>5. CASE Replace(j)
      BY <1>0, <2>5, GotoNoNewExport, ExportOverNoNewExport DEF Replace
    <2> QED
      BY <1>3, <2>1, <2>2, <2>3, <2>4, <2>5 DEF Write
  <1>4. ASSUME NEW e \in Entries, Changed(e) \/ UNCHANGED step PROVE NoOverlap'
    <2>1. \A j \in Jobs : \/ step'[j] = step[j]
                          \/ step[j] = "idle" /\ step'[j] = "listener"
      BY <1>4, ChangedTyped DEF TypeInv
    <2> QED
      BY <1>0, <2>1, NoNewExport
  <1>5. ASSUME NEW e \in Entries,
               ImportEntry(e) \/ \E version \in Versions : UpdateEntry(e, version)
        PROVE  NoOverlap'
    BY <1>4, <1>5 DEF ImportEntry, UpdateEntry
  <1>6. ASSUME CallExport \/ (\E document \in Document : CallImport(document))
                   \/ ImportEnd \/ ImportInvalid
        PROVE  NoOverlap'
    <2>1. Service \in Jobs
      BY DEF Jobs
    <2> QED
      BY <1>0, <1>6, <2>1, GotoNoNewExport DEF CallExport, CallImport, ImportEnd, ImportInvalid
  <1>7. ASSUME NEW j \in Jobs, DumpError(j) PROVE NoOverlap'
    BY <1>7, ExportOverNoNewExport DEF DumpError
  <1>8. CASE Crash
    <2>1. \A j \in Jobs : step'[j] \in {"idle", "setup"}
      BY <1>8 DEF Crash
    <2> QED
      BY <1>0, <2>1, NoNewExport
  <1>9. CASE UNCHANGED vars
    BY <1>9, NoNewExport DEF vars
  <1>10. Service \in Jobs /\ \A e \in Entries : e \in Jobs
    BY DEF Jobs
  <1> QED
    BY <1>1, <1>2, <1>3, <1>5, <1>6, <1>7, <1>8, <1>9, <1>10
       DEF Next, Automatic, ServiceJob, Stop

LEMMA OneAtATime ==
  ASSUME MaxOverlap = 1
  PROVE  Spec => []NoOverlap
  <1>1. Init => NoOverlap
    BY DEF Init, NoOverlap, Running, Active, Writing
  <1>2. (TypeInv /\ NoOverlap) /\ [Next]_vars => (TypeInv /\ NoOverlap)'
    BY NextTypeInv, NextNoOverlap
  <1> QED
    BY <1>1, <1>2, InitTypeInv, PTL DEF Spec

(* With one export at a time, as in the run, both files are always whole   *)
(* and the user's own secret stays.                                        *)
THEOREM OneExportFilesKept ==
  ASSUME MaxOverlap = 1
  PROVE  Spec => [](FilesComplete /\ OwnSecretKept)
  BY OneAtATime, FilesKept, PTL
=============================================================================
