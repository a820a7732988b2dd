--------------------------- MODULE PipelineIndex ---------------------------
(***************************************************************************)
(* data/pipeline.sqlite beside what it indexes: the entry files and the     *)
(* fat-image ledger.  The driver indexes the entries it writes, regenerate  *)
(* and the operator change files behind the index, rebuild_index.py fills   *)
(* it from the files and verify_index.py compares the two.  Each statement  *)
(* commits on its own (isolation_level=None) and each program reads a file  *)
(* more than once, so that all of them interleave.                          *)
(***************************************************************************)
EXTENDS Naturals, FiniteSets

CONSTANTS
  Ids,          \* entry ids; the file of one is named by it
  Texts,        \* bound: the texts a file may have, each with a hash of its own
  Invalid,      \* texts that validate_entry refuses
  Failing,      \* texts with a failure block
  Absent,       \* no file, no row, no fingerprint
  Torn,         \* a file that is being written, or was when its writer died
  Tags,         \* fat images
  Platforms,    \* platforms they have fingerprints for
  Digests,      \* the fingerprints
  None,         \* no id, no tag
  MaxWrites,    \* bound: changes of files and of the ledger behind the index
  MaxRuns       \* bound: starts of a program

ASSUME IndexAssumption ==
  /\ Invalid \subseteq Texts /\ Failing \subseteq Texts
  /\ Absent \notin Texts /\ Torn \notin Texts /\ Absent # Torn /\ Absent \notin Digests
  /\ None \notin Ids /\ None \notin Tags
  /\ MaxWrites \in Nat /\ MaxRuns \in Nat

VARIABLES
  files,      \* the entry files
  ledger,     \* the fingerprints of each registered image
  entries,    \* rows: the text a row's columns tell, its file_hash, post_commit_date
  sources,    \* rows of ingestion_sources: none, rebuild's stub, the driver's
  classes,    \* current rows of classifications: the text each was seeded from
  images,     \* rows of fat_images
  prints,     \* rows of fat_image_fingerprints
  drv,        \* the driver between the assembly of an entry and the next one
  rgn,        \* regenerate(), writing an entry back
  rbd,        \* rebuild_index.py
  vfy,        \* verify_index.py
  writes, runs,   \* counters for the bounds
  settled,    \* history: entries that nobody else touched since rebuild began
  kept,       \* history: images whose record did not change since rebuild began
  overtaken,  \* history: entries the driver told the source of after rebuild had looked
  drifted,    \* history: entries in drift at every moment since verify began
  agreed      \* history: entries in agreement at every moment since verify began

tables == <<entries, sources, classes, images, prints>>
history == <<settled, kept, overtaken, drifted, agreed>>
vars == <<files, ledger, tables, drv, rgn, rbd, vfy, writes, runs, history>>

Contents == Texts \cup {Absent, Torn}
NoPrints == [p \in Platforms |-> Absent]
NoRow == [text |-> Absent, hash |-> Absent, date |-> FALSE]

DriverIdle == [pc |-> "idle", id |-> None, text |-> Absent, read |-> Absent]
RegenIdle == [id |-> None, text |-> Absent]
RebuildIdle == [pc |-> "idle", ledger |-> [t \in Tags |-> NoPrints], tag |-> None,
                todo |-> {}, id |-> None, entry |-> Absent, read |-> Absent]
VerifyIdle == [pc |-> "idle", disk |-> {}, rows |-> [e \in Ids |-> Absent],
               left |-> {}, drift |-> FALSE]

\* Drift as verify_index.py means it, of one entry.
InSync(fs, rows, e) == rows[e].hash = fs[e]

\* What every change of a file or of a row does to the history.
Observe(changed) ==
  /\ settled' = settled \ changed
  /\ drifted' = {e \in drifted : ~InSync(files', entries', e)}
  /\ agreed' = {e \in agreed : InSync(files', entries', e)}

-----------------------------------------------------------------------------
Init ==
  /\ files = [e \in Ids |-> Absent]
  /\ ledger = [t \in Tags |-> NoPrints]
  /\ entries = [e \in Ids |-> NoRow]
  /\ sources = [e \in Ids |-> "none"]
  /\ classes = [e \in Ids |-> Absent]
  /\ images = {}
  /\ prints = [t \in Tags |-> NoPrints]
  /\ drv = DriverIdle /\ rgn = RegenIdle /\ rbd = RebuildIdle /\ vfy = VerifyIdle
  /\ writes = 0 /\ runs = 0
  /\ settled = {} /\ kept = {} /\ overtaken = {} /\ drifted = {} /\ agreed = {}

\* A program starts: bounded.
Starts == runs < MaxRuns /\ runs' = runs + 1
Changes == writes < MaxWrites /\ writes' = writes + 1

WriteFile(e, content) ==
  /\ files' = [files EXCEPT ![e] = content]
  /\ UNCHANGED <<ledger, tables, kept, overtaken>>
  /\ Observe({e})

(* The tables *)

\* Mutant of UpsertEntry: a row that is there already is left alone.
UpsertEntryIgnore(e, read) ==
  entries' = [entries EXCEPT ![e] =
                IF @.hash # Absent THEN @ ELSE [text |-> read, hash |-> files[e], date |-> FALSE]]

\* Mutant of UpsertEntry: the row is replaced as a whole.
UpsertEntryReplace(e, read) ==
  entries' = [entries EXCEPT ![e] = [text |-> read, hash |-> files[e], date |-> FALSE]]

\* upsert_entry_from_json from its INSERT on: the columns are of the text read
\* before, the hash is of the file as it is now, and COALESCE keeps the date.
UpsertEntry(e, read) ==
  entries' = [entries EXCEPT ![e] = [text |-> read, hash |-> files[e], date |-> @.date]]

(* The driver: EntryWriter, then the block under db_lock *)

DriveOpen(e, t) ==
  /\ drv.pc = "idle" /\ t \in Texts \ Invalid
  /\ Starts
  /\ WriteFile(e, Torn)
  /\ drv' = [pc |-> "fill", id |-> e, text |-> t, read |-> Absent]
  /\ UNCHANGED <<rgn, rbd, vfy, writes>>

DriveFill ==
  /\ drv.pc = "fill"
  /\ WriteFile(drv.id, drv.text)
  /\ drv' = [drv EXCEPT !.pc = "parse"]
  /\ UNCHANGED <<rgn, rbd, vfy, writes, runs>>

\* Mutant of DriveParse: a file that does not parse is indexed all the same.
DriveParseTorn ==
  /\ drv.pc = "parse"
  /\ drv' = [drv EXCEPT !.pc = "insert", !.read = files[drv.id]]
  /\ UNCHANGED <<files, ledger, tables, rgn, rbd, vfy, writes, runs, history>>

\* json.load; a file that is gone or torn raises, and that ends the candidate.
DriveParse ==
  /\ drv.pc = "parse"
  /\ drv' = IF files[drv.id] \in Texts
            THEN [drv EXCEPT !.pc = "insert", !.read = files[drv.id]]
            ELSE DriverIdle
  /\ UNCHANGED <<files, ledger, tables, rgn, rbd, vfy, writes, runs, history>>

\* _sha256_file raises without a file only.
DriveInsert ==
  /\ drv.pc = "insert"
  /\ UNCHANGED <<files, ledger, sources, classes, images, prints, rgn, rbd, vfy,
                 writes, runs, kept, overtaken>>
  /\ \/ /\ files[drv.id] = Absent
        /\ drv' = DriverIdle
        /\ UNCHANGED <<entries, settled, drifted, agreed>>
     \/ /\ files[drv.id] # Absent
        /\ UpsertEntry(drv.id, drv.read)
        /\ drv' = [drv EXCEPT !.pc = "date"]
        /\ Observe({drv.id})

\* patch_entry_metadata.
DriveDate ==
  /\ drv.pc = "date"
  /\ entries' = [entries EXCEPT ![drv.id].date = TRUE]
  /\ drv' = [drv EXCEPT !.pc = "source"]
  /\ UNCHANGED <<files, ledger, sources, classes, images, prints, rgn, rbd, vfy,
                 writes, runs, history>>

\* upsert_ingestion_source.
DriveSource ==
  /\ drv.pc = "source"
  /\ sources' = [sources EXCEPT ![drv.id] = "driver"]
  /\ drv' = [drv EXCEPT !.pc = "look"]
  /\ overtaken' = IF rbd.pc = "stub" /\ rbd.id = drv.id
                  THEN overtaken \cup {drv.id} ELSE overtaken
  /\ UNCHANGED <<files, ledger, entries, classes, images, prints, rgn, rbd, vfy,
                 writes, runs, settled, kept, drifted, agreed>>

\* seed_classification_if_absent: a look and an INSERT of their own, the
\* latter refused by idx_cls_current if a row came between.
DriveLook ==
  /\ drv.pc = "look"
  /\ drv' = IF drv.text \in Failing /\ classes[drv.id] = Absent
            THEN [drv EXCEPT !.pc = "seed"] ELSE DriverIdle
  /\ UNCHANGED <<files, ledger, tables, rgn, rbd, vfy, writes, runs, history>>

SeedClass(e, t) ==
  classes' = IF classes[e] = Absent THEN [classes EXCEPT ![e] = t] ELSE classes

DriveSeed ==
  /\ drv.pc = "seed"
  /\ SeedClass(drv.id, drv.text)
  /\ drv' = DriverIdle
  /\ UNCHANGED <<files, ledger, entries, sources, images, prints, rgn, rbd, vfy,
                 writes, runs, history>>

\* A kill, anywhere between two of its steps.
DriveCrash ==
  /\ drv.pc # "idle"
  /\ drv' = DriverIdle
  /\ UNCHANGED <<files, ledger, tables, rgn, rbd, vfy, writes, runs, history>>

(* Changes behind the index *)

\* regenerate() at its end: the entry is written back with one more record; what
\* it records has no part in whether it tells of a failure.
RegenerateOpen(e, t) ==
  /\ rgn.id = None /\ files[e] \in Texts /\ t \in Texts /\ t # files[e]
  /\ t \in Failing <=> files[e] \in Failing
  /\ Changes
  /\ WriteFile(e, Torn)
  /\ rgn' = [id |-> e, text |-> t]
  /\ UNCHANGED <<drv, rbd, vfy, runs>>

RegenerateFill ==
  /\ rgn.id # None
  /\ WriteFile(rgn.id, rgn.text)
  /\ rgn' = RegenIdle
  /\ UNCHANGED <<drv, rbd, vfy, writes, runs>>

RegenerateCrash ==
  /\ rgn.id # None
  /\ rgn' = RegenIdle
  /\ UNCHANGED <<files, ledger, tables, drv, rbd, vfy, writes, runs, history>>

\* A checkout or an edit of the data directory.
Edit(e, content) ==
  /\ content \in Texts \cup {Absent} /\ content # files[e]
  /\ Changes
  /\ WriteFile(e, content)
  /\ UNCHANGED <<drv, rgn, rbd, vfy, runs>>

\* register(update=True) with the one fingerprint of the host, or unregister().
ChangeLedger(t, record) ==
  /\ record # ledger[t]
  /\ Changes
  /\ ledger' = [ledger EXCEPT ![t] = record]
  /\ kept' = kept \ {t}
  /\ UNCHANGED <<files, tables, drv, rgn, rbd, vfy, runs, settled, overtaken, drifted, agreed>>

Records == {NoPrints} \cup
  {[p \in Platforms |-> IF p = host THEN d ELSE Absent] : host \in Platforms, d \in Digests}

(* rebuild_index.py *)

\* The ledger is read whole.
RebuildStart ==
  /\ rbd.pc \in {"idle", "done"}
  /\ Starts
  /\ rbd' = [RebuildIdle EXCEPT !.pc = "images", !.ledger = ledger]
  /\ settled' = Ids /\ kept' = Tags
  /\ UNCHANGED <<files, ledger, tables, drv, rgn, vfy, writes, overtaken, drifted, agreed>>

Registered(l) == {t \in Tags : l[t] # NoPrints}

\* upsert_fat_image of an image of the ledger read.
RebuildImage(t) ==
  /\ rbd.pc = "images" /\ rbd.tag = None /\ t \in Registered(rbd.ledger)
  /\ images' = images \cup {t}
  /\ rbd' = [rbd EXCEPT !.tag = t]
  /\ UNCHANGED <<files, ledger, entries, sources, classes, prints, drv, rgn, vfy,
                 writes, runs, history>>

\* upsert_fat_image_fingerprint, once for each of its platforms.
RebuildPrint(p) ==
  /\ rbd.pc = "images" /\ rbd.tag # None /\ rbd.ledger[rbd.tag][p] # Absent
  /\ prints' = [prints EXCEPT ![rbd.tag][p] = rbd.ledger[rbd.tag][p]]
  /\ rbd' = LET rest == [rbd.ledger EXCEPT ![rbd.tag][p] = Absent] IN
            [rbd EXCEPT !.ledger = rest, !.tag = IF rest[@] = NoPrints THEN None ELSE @]
  /\ UNCHANGED <<files, ledger, entries, sources, classes, images, drv, rgn, vfy,
                 writes, runs, history>>

\* sorted(entries_dir.glob("*.json")).
RebuildGlob ==
  /\ rbd.pc = "images" /\ rbd.tag = None /\ Registered(rbd.ledger) = {}
  /\ rbd' = [rbd EXCEPT !.pc = "load", !.todo = {e \in Ids : files[e] # Absent}]
  /\ UNCHANGED <<files, ledger, tables, drv, rgn, vfy, writes, runs, history>>

\* The first reading: a file that is gone or torn ends the rebuild, one that does
\* not validate is skipped.
RebuildLoad(e) ==
  /\ rbd.pc = "load" /\ e \in rbd.todo
  /\ rbd' = IF files[e] \notin Texts THEN RebuildIdle
            ELSE [rbd EXCEPT !.todo = @ \ {e},
                             !.pc = IF files[e] \in Invalid THEN "load" ELSE "parse",
                             !.id = IF files[e] \in Invalid THEN None ELSE e,
                             !.entry = IF files[e] \in Invalid THEN Absent ELSE files[e]]
  /\ UNCHANGED <<files, ledger, tables, drv, rgn, vfy, writes, runs, history>>

\* The second, in upsert_entry_from_json.
RebuildParse ==
  /\ rbd.pc = "parse"
  /\ rbd' = IF files[rbd.id] \notin Texts THEN RebuildIdle
            ELSE [rbd EXCEPT !.pc = "insert", !.read = files[rbd.id]]
  /\ UNCHANGED <<files, ledger, tables, drv, rgn, vfy, writes, runs, history>>

\* The third, for the hash.
RebuildInsert ==
  /\ rbd.pc = "insert"
  /\ UNCHANGED <<files, ledger, sources, classes, images, prints, drv, rgn, vfy,
                 writes, runs, kept, overtaken>>
  /\ \/ /\ files[rbd.id] = Absent
        /\ rbd' = RebuildIdle
        /\ UNCHANGED <<entries, settled, drifted, agreed>>
     \/ /\ files[rbd.id] # Absent
        /\ UpsertEntry(rbd.id, rbd.read)
        /\ rbd' = [rbd EXCEPT !.pc = "source"]
        /\ Observe({})

\* Mutant of RebuildLook: the stub is written whatever is there.
RebuildLookAlways ==
  /\ rbd.pc = "source"
  /\ rbd' = [rbd EXCEPT !.pc = "stub"]
  /\ UNCHANGED <<files, ledger, tables, drv, rgn, vfy, writes, runs, history>>

\* Is there a source?  If not a stub will be written.
RebuildLook ==
  /\ rbd.pc = "source"
  /\ rbd' = [rbd EXCEPT !.pc = IF sources[rbd.id] = "none" THEN "stub" ELSE "class"]
  /\ UNCHANGED <<files, ledger, tables, drv, rgn, vfy, writes, runs, history>>

RebuildStub ==
  /\ rbd.pc = "stub"
  /\ sources' = [sources EXCEPT ![rbd.id] = "unknown"]
  /\ rbd' = [rbd EXCEPT !.pc = "class"]
  /\ overtaken' = overtaken \ {rbd.id}
  /\ UNCHANGED <<files, ledger, entries, classes, images, prints, drv, rgn, vfy,
                 writes, runs, settled, kept, drifted, agreed>>

NextEntry == [rbd EXCEPT !.pc = "load", !.id = None, !.entry = Absent, !.read = Absent]

\* The failure block is that of the first reading.
RebuildClass ==
  /\ rbd.pc = "class"
  /\ rbd' = IF rbd.entry \in Failing /\ classes[rbd.id] = Absent
            THEN [rbd EXCEPT !.pc = "seed"] ELSE NextEntry
  /\ UNCHANGED <<files, ledger, tables, drv, rgn, vfy, writes, runs, history>>

RebuildSeed ==
  /\ rbd.pc = "seed"
  /\ SeedClass(rbd.id, rbd.entry)
  /\ rbd' = IF classes[rbd.id] = Absent THEN NextEntry ELSE RebuildIdle
  /\ UNCHANGED <<files, ledger, entries, sources, images, prints, drv, rgn, vfy,
                 writes, runs, history>>

RebuildDone ==
  /\ rbd.pc = "load" /\ rbd.todo = {}
  /\ rbd' = [RebuildIdle EXCEPT !.pc = "done"]
  /\ UNCHANGED <<files, ledger, tables, drv, rgn, vfy, writes, runs, history>>

RebuildCrash ==
  /\ rbd.pc \notin {"idle", "done"}
  /\ rbd' = RebuildIdle
  /\ UNCHANGED <<files, ledger, tables, drv, rgn, vfy, writes, runs, history>>

(* verify_index.py *)

VerifyStart ==
  /\ vfy.pc \in {"idle", "ok", "drift"}
  /\ Starts
  /\ vfy' = [VerifyIdle EXCEPT !.pc = "rows", !.disk = {e \in Ids : files[e] # Absent}]
  /\ drifted' = {e \in Ids : ~InSync(files, entries, e)}
  /\ agreed' = Ids \ drifted'
  /\ UNCHANGED <<files, ledger, tables, drv, rgn, rbd, writes, settled, kept, overtaken>>

\* Mutant of VerifyRows: rows without a file are not looked for.
VerifyRowsDiskOnly ==
  /\ vfy.pc = "rows"
  /\ LET indexed == {e \in Ids : entries[e].hash # Absent} IN
     vfy' = [vfy EXCEPT !.pc = "hash", !.rows = [e \in Ids |-> entries[e].hash],
                        !.left = vfy.disk \cap indexed,
                        !.drift = ~(vfy.disk \subseteq indexed)]
  /\ UNCHANGED <<files, ledger, tables, drv, rgn, rbd, writes, runs, history>>

\* iter_entries, and the two comparisons of ids that need no file.
VerifyRows ==
  /\ vfy.pc = "rows"
  /\ LET indexed == {e \in Ids : entries[e].hash # Absent} IN
     vfy' = [vfy EXCEPT !.pc = "hash", !.rows = [e \in Ids |-> entries[e].hash],
                        !.left = vfy.disk \cap indexed, !.drift = vfy.disk # indexed]
  /\ UNCHANGED <<files, ledger, tables, drv, rgn, rbd, writes, runs, history>>

\* A file that has gone since the glob raises.
VerifyHash(e) ==
  /\ vfy.pc = "hash" /\ e \in vfy.left
  /\ vfy' = IF files[e] = Absent THEN VerifyIdle
            ELSE [vfy EXCEPT !.left = @ \ {e}, !.drift = @ \/ files[e] # vfy.rows[e]]
  /\ UNCHANGED <<files, ledger, tables, drv, rgn, rbd, writes, runs, history>>

\* Its exit code.
VerifyExit ==
  /\ vfy.pc = "hash" /\ vfy.left = {}
  /\ vfy' = [VerifyIdle EXCEPT !.pc = IF vfy.drift THEN "drift" ELSE "ok"]
  /\ UNCHANGED <<files, ledger, tables, drv, rgn, rbd, writes, runs, history>>

-----------------------------------------------------------------------------
Drives ==
  \/ \E e \in Ids, t \in Texts : DriveOpen(e, t)
  \/ DriveFill \/ DriveParse \/ DriveInsert \/ DriveDate \/ DriveSource
  \/ DriveLook \/ DriveSeed \/ DriveCrash

Behind ==
  \/ \E e \in Ids, t \in Texts : RegenerateOpen(e, t)
  \/ RegenerateFill \/ RegenerateCrash
  \/ \E e \in Ids, c \in Texts \cup {Absent} : Edit(e, c)
  \/ \E t \in Tags, r \in Records : ChangeLedger(t, r)

Rebuilds ==
  \/ RebuildStart \/ RebuildGlob \/ RebuildDone \/ RebuildCrash
  \/ \E t \in Tags : RebuildImage(t)
  \/ \E p \in Platforms : RebuildPrint(p)
  \/ \E e \in Ids : RebuildLoad(e)
  \/ RebuildParse \/ RebuildInsert \/ RebuildLook \/ RebuildStub
  \/ RebuildClass \/ RebuildSeed

Verifies ==
  \/ VerifyStart \/ VerifyRows \/ VerifyExit
  \/ \E e \in Ids : VerifyHash(e)

Next == Drives \/ Behind \/ Rebuilds \/ Verifies

Spec == Init /\ [][Next]_vars

-----------------------------------------------------------------------------
(* Properties *)

Row == [text : Texts \cup {Absent}, hash : Contents, date : BOOLEAN]
Ledgers == [Tags -> [Platforms -> Digests \cup {Absent}]]
IdOrNone == Ids \cup {None}
TextOrNone == Texts \cup {Absent}

DriverStates ==
  [pc : {"idle", "fill", "parse", "insert", "date", "source", "look", "seed"},
   id : IdOrNone, text : TextOrNone, read : TextOrNone]
RegenStates == [id : IdOrNone, text : TextOrNone]
RebuildStates ==
  [pc : {"idle", "images", "load", "parse", "insert", "source", "stub", "class", "seed", "done"},
   ledger : Ledgers, tag : Tags \cup {None}, todo : SUBSET Ids,
   id : IdOrNone, entry : TextOrNone, read : TextOrNone]
VerifyStates ==
  [pc : {"idle", "rows", "hash", "ok", "drift"}, disk : SUBSET Ids,
   rows : [Ids -> Contents], left : SUBSET Ids, drift : BOOLEAN]

\* Types; a seeded classification is that of a text with a failure block.
TypeOK ==
  /\ files \in [Ids -> Contents] /\ ledger \in Ledgers
  /\ entries \in [Ids -> Row]
  /\ sources \in [Ids -> {"none", "unknown", "driver"}]
  /\ classes \in [Ids -> Failing \cup {Absent}]
  /\ images \subseteq Tags /\ prints \in Ledgers
  /\ drv \in DriverStates /\ rgn \in RegenStates
  /\ rbd \in RebuildStates /\ vfy \in VerifyStates
  /\ writes \in 0 .. MaxWrites /\ runs \in 0 .. MaxRuns
  /\ settled \subseteq Ids /\ kept \subseteq Tags /\ overtaken \subseteq Ids
  /\ drifted \subseteq Ids /\ agreed \subseteq Ids

\* A row tells its file: columns, hash, source and classification.
RowFresh(e) ==
  /\ entries[e].text = files[e] /\ entries[e].hash = files[e]
  /\ sources[e] # "none"
  /\ files[e] \in Failing => classes[e] # Absent

\* "The index is a pure function of" the ledger and the entry files: when a
\* rebuild has finished, the row of every valid file that nobody else touched
\* meanwhile is fresh, whatever the table held before and wherever earlier drives
\* and rebuilds were killed, and every image of the ledger is there with the
\* fingerprints the ledger has of it.
RebuildRefreshes ==
  rbd.pc = "done" =>
    /\ \A e \in settled : files[e] \in Texts \ Invalid => RowFresh(e)
    /\ \A t \in kept \cap Registered(ledger) :
         /\ t \in images
         /\ \A p \in Platforms : ledger[t][p] # Absent => prints[t][p] = ledger[t][p]

\* verify_index.py beside writers: an entry in drift at every moment of a
\* verification that ends is reported, and if all were in agreement at every
\* moment nothing is.  An entry that regenerate has written back since it was
\* indexed is in drift.
VerifyTells ==
  /\ vfy.pc = "ok" => drifted = {}
  /\ vfy.pc = "drift" => agreed # Ids

\* What only the driver knows is not lost to a rebuild: the commit date of a row
\* stays, and its ingestion source, unless rebuild_index.py had looked for a
\* source before there was one.
DriverFactsKept ==
  [][\A e \in Ids :
       /\ entries[e].date => entries'[e].date
       /\ sources[e] = "driver" /\ sources'[e] # "driver" => e \in overtaken]_vars
=============================================================================
