------------------------ MODULE PipelineIndexProofs ------------------------
(***************************************************************************)
(* The properties of PipelineIndex for any entries, images and numbers of   *)
(* changes and runs.  A step that is not verify's keeps what verify has     *)
(* seen true of the entries still in drift or in agreement (WriterStep); a  *)
(* step that is not rebuild's keeps what rebuild has done for the entries   *)
(* that are settled (OutsideStep).                                          *)
(***************************************************************************)
EXTENDS PipelineIndex, TLAPS

Working == {"parse", "insert", "source", "stub", "class", "seed"}

\* Who is at work on an entry knows which; who is about to seed, knows why.
Control ==
  /\ drv.pc # "idle" => drv.id \in Ids
  /\ rbd.pc \in Working => rbd.id \in Ids
  /\ drv.pc = "seed" => drv.text \in Failing
  /\ rbd.pc = "seed" => rbd.entry \in Failing
  /\ rgn.id = None => rgn.text = Absent

TypeInv == TypeOK /\ Control

-----------------------------------------------------------------------------
(* Types *)

LEMMA IdlesTyped ==
  /\ DriverIdle \in DriverStates /\ RegenIdle \in RegenStates
  /\ RebuildIdle \in RebuildStates /\ VerifyIdle \in VerifyStates
  /\ NoPrints \in [Platforms -> Digests \cup {Absent}]
BY DEF DriverIdle, DriverStates, RegenIdle, RegenStates, RebuildIdle, RebuildStates, VerifyIdle,
       VerifyStates, IdOrNone, TextOrNone, Ledgers, NoPrints, Contents

LEMMA TypeInit ==
  ASSUME Init
  PROVE  TypeInv
<1>1. DriverIdle.pc = "idle" /\ RebuildIdle.pc = "idle" /\ RegenIdle.text = Absent
  BY DEF DriverIdle, RebuildIdle, RegenIdle
<1>2. Control
  BY <1>1 DEF Init, Control, Working
<1>3. [e \in Ids |-> NoRow] \in [Ids -> Row]
  BY DEF NoRow, Row, Contents
<1>4. [t \in Tags |-> NoPrints] \in Ledgers
  BY IdlesTyped DEF Ledgers
<1>5. TypeOK
  BY <1>3, <1>4, IdlesTyped, IndexAssumption DEF Init, TypeOK, Contents, IndexAssumption
<1> QED
  BY <1>2, <1>5 DEF TypeInv

LEMMA HistoryTyped ==
  ASSUME TypeOK, NEW changed, Observe(changed)
  PROVE  settled' \subseteq Ids /\ drifted' \subseteq Ids /\ agreed' \subseteq Ids
BY DEF TypeOK, Observe

\* The tables and counters of TypeOK, one lemma for each kind of change.
LEMMA WriteTyped ==
  ASSUME TypeOK, NEW e, NEW c \in Contents, WriteFile(e, c)
  PROVE  /\ files' \in [Ids -> Contents] /\ UNCHANGED <<ledger, tables, kept, overtaken>>
         /\ settled' \subseteq Ids /\ drifted' \subseteq Ids /\ agreed' \subseteq Ids
BY HistoryTyped DEF TypeOK, WriteFile

LEMMA UpsertTyped ==
  ASSUME TypeOK, NEW e \in Ids, NEW t \in TextOrNone, UpsertEntry(e, t)
  PROVE  /\ entries' \in [Ids -> Row]
         /\ entries'[e] = [text |-> t, hash |-> files[e], date |-> entries[e].date]
         /\ \A j \in Ids \ {e} : entries'[j] = entries[j]
BY DEF TypeOK, UpsertEntry, Row, TextOrNone

LEMMA SeedTyped ==
  ASSUME TypeOK, NEW e \in Ids, NEW t \in Failing, SeedClass(e, t)
  PROVE  /\ classes' \in [Ids -> Failing \cup {Absent}]
         /\ \A j \in Ids : classes[j] # Absent => classes'[j] # Absent
BY IndexAssumption DEF TypeOK, SeedClass, IndexAssumption

\* Updates of a program's own state.
LEMMA DriverGoto ==
  ASSUME NEW d \in DriverStates,
         NEW pc \in {"fill", "parse", "insert", "date", "source", "look", "seed"}
  PROVE  /\ [d EXCEPT !.pc = pc] \in DriverStates
         /\ [d EXCEPT !.pc = pc].pc = pc /\ [d EXCEPT !.pc = pc].id = d.id
         /\ [d EXCEPT !.pc = pc].text = d.text
BY DEF DriverStates

LEMMA DriverFields ==
  ASSUME TypeOK
  PROVE  /\ drv.id \in IdOrNone /\ drv.text \in TextOrNone /\ drv.read \in TextOrNone
         /\ rgn.id \in IdOrNone /\ rgn.text \in TextOrNone
         /\ TextOrNone \subseteq Contents /\ Texts \subseteq TextOrNone
BY DEF TypeOK, DriverStates, RegenStates, TextOrNone, Contents

-----------------------------------------------------------------------------
(* What a step keeps for verify and for rebuild *)

SameRow(e) == entries'[e].text = entries[e].text /\ entries'[e].hash = entries[e].hash

WriterStep ==
  /\ vfy' = vfy /\ drifted' \subseteq drifted /\ agreed' \subseteq agreed
  /\ \A e \in drifted' : InSync(files', entries', e) => InSync(files, entries, e)
  /\ \A e \in agreed' : InSync(files, entries, e) => InSync(files', entries', e)
  /\ \A e \in Ids : /\ entries'[e].hash = entries[e].hash \/ InSync(files', entries', e)
                    /\ entries'[e].hash = entries[e].hash \/ entries'[e].hash # Absent
                    /\ entries'[e].hash = entries[e].hash \/ files'[e] = files[e]

OutsideStep ==
  /\ rbd' = rbd /\ images' = images /\ prints' = prints
  /\ settled' \subseteq settled /\ kept' \subseteq kept /\ overtaken \subseteq overtaken'
  /\ \A e \in settled' : /\ files'[e] = files[e] /\ SameRow(e)
                         /\ sources[e] # "none" => sources'[e] # "none"
                         /\ classes[e] # Absent => classes'[e] # Absent
  /\ \A t \in kept' : ledger'[t] = ledger[t]
  /\ rbd.pc = "stub" => sources'[rbd.id] = sources[rbd.id] \/ rbd.id \in overtaken'

Facts ==
  \A e \in Ids :
    /\ entries[e].date => entries'[e].date
    /\ sources[e] = "driver" /\ sources'[e] # "driver" => e \in overtaken

LEMMA QuietForVerify ==
  ASSUME UNCHANGED <<files, entries, vfy, drifted, agreed>>
  PROVE  WriterStep
BY DEF WriterStep, InSync

LEMMA QuietForRebuild ==
  ASSUME UNCHANGED <<files, ledger, tables, rbd, settled, kept, overtaken>>
  PROVE  OutsideStep
BY DEF OutsideStep, SameRow, tables

LEMMA QuietFacts ==
  ASSUME UNCHANGED <<entries, sources>>
  PROVE  Facts
BY DEF Facts

LEMMA WriteStep ==
  ASSUME TypeOK, NEW e, NEW c \in Contents, WriteFile(e, c), vfy' = vfy, rbd' = rbd
  PROVE  WriterStep /\ OutsideStep /\ Facts
<1>1. /\ files' = [files EXCEPT ![e] = c] /\ UNCHANGED <<ledger, tables, kept, overtaken>>
      /\ settled' = settled \ {e}
      /\ drifted' = {j \in drifted : ~InSync(files', entries', j)}
      /\ agreed' = {j \in agreed : InSync(files', entries', j)}
  BY DEF WriteFile, Observe
<1>2. WriterStep
  BY <1>1 DEF WriterStep, tables
<1>3. OutsideStep
  <2>1. \A j \in settled' : files'[j] = files[j]
    BY <1>1 DEF TypeOK
  <2> QED
    BY <1>1, <2>1 DEF OutsideStep, SameRow, tables
<1>4. Facts
  BY <1>1 DEF Facts, tables
<1> QED
  BY <1>2, <1>3, <1>4

\* A row written from a file that is there.
LEMMA UpsertStep ==
  ASSUME TypeOK, NEW e \in Ids, NEW t \in TextOrNone, NEW changed, UpsertEntry(e, t),
         files[e] # Absent, Observe(changed), vfy' = vfy,
         UNCHANGED <<files, sources>>
  PROVE  WriterStep /\ Facts
<1>1. /\ entries'[e] = [text |-> t, hash |-> files[e], date |-> entries[e].date]
      /\ \A j \in Ids \ {e} : entries'[j] = entries[j]
      /\ files' = files
  BY UpsertTyped
<1>2. /\ drifted' = {j \in drifted : ~InSync(files', entries', j)}
      /\ agreed' = {j \in agreed : InSync(files', entries', j)}
  BY DEF Observe
<1>3. \A j \in Ids : /\ entries'[j].hash = entries[j].hash \/ InSync(files', entries', j)
                     /\ entries'[j].hash = entries[j].hash \/ entries'[j].hash # Absent
                     /\ entries'[j].hash = entries[j].hash \/ files'[j] = files[j]
  BY <1>1 DEF InSync
<1>4. WriterStep
  <2>1. \A j \in drifted' : ~InSync(files', entries', j)
    BY <1>2
  <2>2. \A j \in agreed' : InSync(files', entries', j)
    BY <1>2
  <2>3. drifted' \subseteq drifted /\ agreed' \subseteq agreed
    BY <1>2
  <2> QED
    BY <1>3, <2>1, <2>2, <2>3 DEF WriterStep
<1>5. Facts
  BY <1>1 DEF Facts
<1> QED
  BY <1>4, <1>5

-----------------------------------------------------------------------------
(* The driver, and changes behind the index *)

Aside == TypeInv' /\ WriterStep /\ OutsideStep /\ Facts

LEMMA StepDriveOpen ==
  ASSUME TypeInv, NEW e \in Ids, NEW t \in Texts, DriveOpen(e, t)
  PROVE  Aside
<1>1. /\ Torn \in Contents /\ WriteFile(e, Torn) /\ vfy' = vfy /\ rbd' = rbd /\ rgn' = rgn
      /\ writes' = writes /\ runs < MaxRuns /\ runs' = runs + 1
      /\ drv' = [pc |-> "fill", id |-> e, text |-> t, read |-> Absent]
  BY DEF DriveOpen, Starts, Contents
<1>2. TypeOK'
  <2>1. drv' \in DriverStates
    BY <1>1 DEF DriverStates, IdOrNone, TextOrNone
  <2> QED
    BY <1>1, <2>1, WriteTyped, IndexAssumption DEF TypeInv, TypeOK, tables, IndexAssumption
<1>3. Control'
  BY <1>1 DEF TypeInv, Control
<1> QED
  BY <1>1, <1>2, <1>3, WriteStep DEF TypeInv, Aside

LEMMA StepDriveFill ==
  ASSUME TypeInv, DriveFill
  PROVE  Aside
<1>1. /\ drv.text \in Contents /\ WriteFile(drv.id, drv.text) /\ vfy' = vfy /\ rbd' = rbd
      /\ UNCHANGED <<rgn, writes, runs>>
      /\ drv' = [drv EXCEPT !.pc = "parse"] /\ drv.pc = "fill"
  BY DriverFields DEF TypeInv, DriveFill
<1>2. drv' \in DriverStates /\ drv'.pc = "parse" /\ drv'.id = drv.id
  BY <1>1, DriverGoto DEF TypeInv, TypeOK, TextOrNone
<1>3. TypeOK'
  BY <1>1, <1>2, WriteTyped DEF TypeInv, TypeOK, tables
<1>4. Control'
  BY <1>1, <1>2 DEF TypeInv, Control
<1> QED
  BY <1>1, <1>3, <1>4, WriteStep DEF TypeInv, Aside

\* A step that moves nothing but the driver.
LEMMA DriverMoves ==
  ASSUME TypeInv, drv' \in DriverStates,
         drv'.pc # "idle" => drv.pc # "idle" /\ drv'.id = drv.id,
         drv'.pc = "seed" => drv'.text \in Failing,
         UNCHANGED <<files, ledger, tables, rgn, rbd, vfy, writes, runs, history>>
  PROVE  Aside
<1>1. TypeOK'
  BY DEF TypeInv, TypeOK, tables, history
<1>2. Control'
  BY DEF TypeInv, Control
<1> QED
  BY <1>1, <1>2, QuietForVerify, QuietForRebuild, QuietFacts DEF TypeInv, Aside, tables, history

LEMMA IdleFields ==
  /\ DriverIdle.pc = "idle" /\ RegenIdle.id = None /\ RegenIdle.text = Absent
  /\ RebuildIdle.pc = "idle" /\ RebuildIdle.tag = None /\ RebuildIdle.id = None
  /\ RebuildIdle.todo = {} /\ VerifyIdle.pc = "idle"
  /\ RebuildIdle.ledger = [t \in Tags |-> NoPrints]
BY DEF DriverIdle, RegenIdle, RebuildIdle, VerifyIdle

LEMMA StepDriveParse ==
  ASSUME TypeInv, DriveParse
  PROVE  Aside
<1>1. /\ drv.pc = "parse"
      /\ drv' = IF files[drv.id] \in Texts
                THEN [drv EXCEPT !.pc = "insert", !.read = files[drv.id]] ELSE DriverIdle
      /\ UNCHANGED <<files, ledger, tables, rgn, rbd, vfy, writes, runs, history>>
  BY DEF DriveParse
<1>2. drv \in DriverStates /\ Texts \subseteq TextOrNone
  BY DEF TypeInv, TypeOK, TextOrNone
<1>3. /\ drv' \in DriverStates /\ drv'.pc \in {"insert", "idle"}
      /\ drv'.pc = "insert" => drv'.id = drv.id
  <2>1. CASE files[drv.id] \in Texts
    <3>1. files[drv.id] \in TextOrNone
      BY <1>2, <2>1
    <3>2. drv' = [drv EXCEPT !.pc = "insert", !.read = files[drv.id]]
      BY <1>1, <2>1
    <3>3. drv' \in DriverStates /\ drv'.pc = "insert" /\ drv'.id = drv.id
      BY <1>2, <3>1, <3>2 DEF DriverStates
    <3> QED
      BY <3>3
  <2>2. CASE files[drv.id] \notin Texts
    BY <1>1, <2>2, IdlesTyped, IdleFields
  <2> QED
    BY <2>1, <2>2
<1>4. /\ drv'.pc # "idle" => drv.pc # "idle" /\ drv'.id = drv.id
      /\ drv'.pc # "seed"
  BY <1>1, <1>3
<1> QED
  BY <1>1, <1>3, <1>4, DriverMoves

LEMMA StepDriveInsert ==
  ASSUME TypeInv, DriveInsert
  PROVE  Aside
<1>1. /\ drv.pc = "insert" /\ drv.id \in Ids
      /\ UNCHANGED <<files, ledger, sources, classes, images, prints, rgn, rbd, vfy,
                     writes, runs, kept, overtaken>>
  BY DEF DriveInsert, TypeInv, Control
<1>2. CASE drv' = DriverIdle /\ UNCHANGED <<entries, settled, drifted, agreed>>
  <2>1. UNCHANGED <<files, ledger, tables, rgn, rbd, vfy, writes, runs, history>>
    BY <1>1, <1>2 DEF tables, history
  <2>2. drv' \in DriverStates /\ drv'.pc = "idle"
    BY <1>2, IdlesTyped, IdleFields
  <2> QED
    BY <2>1, <2>2, DriverMoves
<1>3. CASE /\ files[drv.id] # Absent /\ UpsertEntry(drv.id, drv.read)
           /\ drv' = [drv EXCEPT !.pc = "date"] /\ Observe({drv.id})
  <2>1. drv' \in DriverStates /\ drv'.pc = "date" /\ drv'.id = drv.id
    BY <1>3, DriverGoto DEF TypeInv, TypeOK, TextOrNone
  <2>2. /\ TypeOK /\ drv.read \in TextOrNone
        /\ entries' \in [Ids -> Row] /\ \A j \in Ids \ {drv.id} : entries'[j] = entries[j]
    BY <1>1, <1>3, UpsertTyped, DriverFields DEF TypeInv
  <2>3. settled' \subseteq Ids /\ drifted' \subseteq Ids /\ agreed' \subseteq Ids
    BY <1>3, <2>2, HistoryTyped
  <2>4. TypeOK'
    BY <1>1, <2>1, <2>2, <2>3 DEF TypeOK
  <2>5. Control'
    BY <1>1, <2>1 DEF TypeInv, Control
  <2>6. WriterStep /\ Facts
    BY <1>1, <1>3, <2>2, UpsertStep
  <2>7. OutsideStep
    <3>1. settled' = settled \ {drv.id} /\ settled \subseteq Ids
      BY <1>3, <2>2 DEF Observe, TypeOK
    <3> QED
      BY <1>1, <2>2, <3>1 DEF OutsideStep, SameRow
  <2> QED
    BY <2>4, <2>5, <2>6, <2>7 DEF TypeInv, Aside
<1> QED
  BY <1>2, <1>3 DEF DriveInsert

LEMMA StepDriveDate ==
  ASSUME TypeInv, DriveDate
  PROVE  Aside
<1>1. /\ drv.pc = "date" /\ drv.id \in Ids
      /\ entries' = [entries EXCEPT ![drv.id].date = TRUE]
      /\ drv' = [drv EXCEPT !.pc = "source"]
      /\ UNCHANGED <<files, ledger, sources, classes, images, prints, rgn, rbd, vfy,
                     writes, runs, history>>
  BY DEF DriveDate, TypeInv, Control
<1>2. drv' \in DriverStates /\ drv'.pc = "source" /\ drv'.id = drv.id
  BY <1>1, DriverGoto DEF TypeInv, TypeOK
<1>3. /\ entries' \in [Ids -> Row]
      /\ \A e \in Ids : SameRow(e) /\ (entries[e].date => entries'[e].date)
  BY <1>1 DEF TypeInv, TypeOK, Row, SameRow
<1>4. TypeOK'
  BY <1>1, <1>2, <1>3 DEF TypeInv, TypeOK, history
<1>5. Control'
  BY <1>1, <1>2 DEF TypeInv, Control
<1>6. WriterStep
  BY <1>1, <1>3 DEF WriterStep, SameRow, InSync, history, TypeInv, TypeOK
<1>7. OutsideStep
  BY <1>1, <1>3 DEF OutsideStep, history, TypeInv, TypeOK
<1>8. Facts
  BY <1>1, <1>3 DEF Facts
<1> QED
  BY <1>4, <1>5, <1>6, <1>7, <1>8 DEF TypeInv, Aside

LEMMA StepDriveSource ==
  ASSUME TypeInv, DriveSource
  PROVE  Aside
<1>1. /\ drv.pc = "source" /\ drv.id \in Ids
      /\ sources' = [sources EXCEPT ![drv.id] = "driver"]
      /\ drv' = [drv EXCEPT !.pc = "look"]
      /\ overtaken' = IF rbd.pc = "stub" /\ rbd.id = drv.id
                      THEN overtaken \cup {drv.id} ELSE overtaken
      /\ UNCHANGED <<files, ledger, entries, classes, images, prints, rgn, rbd, vfy,
                     writes, runs, settled, kept, drifted, agreed>>
  BY DEF DriveSource, TypeInv, Control
<1>2. drv' \in DriverStates /\ drv'.pc = "look" /\ drv'.id = drv.id
  BY <1>1, DriverGoto DEF TypeInv, TypeOK
<1>3. sources' \in [Ids -> {"none", "unknown", "driver"}]
      /\ \A e \in Ids : sources'[e] = IF e = drv.id THEN "driver" ELSE sources[e]
  BY <1>1 DEF TypeInv, TypeOK
<1>4. TypeOK'
  BY <1>1, <1>2, <1>3 DEF TypeInv, TypeOK
<1>5. Control'
  BY <1>1, <1>2 DEF TypeInv, Control
<1>6. OutsideStep
  BY <1>1, <1>3 DEF OutsideStep, SameRow, TypeInv, TypeOK, Control, Working
<1>7. Facts
  BY <1>1, <1>3 DEF Facts
<1> QED
  BY <1>1, <1>4, <1>5, <1>6, <1>7, QuietForVerify DEF TypeInv, Aside

LEMMA StepDriveLook ==
  ASSUME TypeInv, DriveLook
  PROVE  Aside
<1>1. /\ drv.pc = "look"
      /\ drv' = IF drv.text \in Failing /\ classes[drv.id] = Absent
                THEN [drv EXCEPT !.pc = "seed"] ELSE DriverIdle
      /\ UNCHANGED <<files, ledger, tables, rgn, rbd, vfy, writes, runs, history>>
  BY DEF DriveLook
<1>2. CASE drv' = DriverIdle
  BY <1>1, <1>2, DriverMoves, IdlesTyped, IdleFields
<1>3. CASE drv.text \in Failing /\ drv' = [drv EXCEPT !.pc = "seed"]
  <2>1. /\ drv' \in DriverStates /\ drv'.pc = "seed" /\ drv'.id = drv.id
        /\ drv'.text = drv.text
    BY <1>3, DriverGoto DEF TypeInv, TypeOK
  <2> QED
    BY <1>1, <1>3, <2>1, DriverMoves
<1> QED
  BY <1>1, <1>2, <1>3

LEMMA StepDriveSeed ==
  ASSUME TypeInv, DriveSeed
  PROVE  Aside
<1>1. /\ drv.id \in Ids /\ drv.text \in Failing /\ SeedClass(drv.id, drv.text)
      /\ drv' = DriverIdle
      /\ UNCHANGED <<files, ledger, entries, sources, images, prints, rgn, rbd, vfy,
                     writes, runs, history>>
  BY DEF DriveSeed, TypeInv, Control
<1>2. /\ classes' \in [Ids -> Failing \cup {Absent}]
      /\ \A j \in Ids : classes[j] # Absent => classes'[j] # Absent
  BY <1>1, SeedTyped DEF TypeInv
<1>3. TypeOK'
  BY <1>1, <1>2, IdlesTyped DEF TypeInv, TypeOK, history
<1>4. Control'
  BY <1>1, IdleFields DEF TypeInv, Control
<1>5. OutsideStep
  BY <1>1, <1>2 DEF OutsideStep, SameRow, TypeInv, TypeOK, history
<1> QED
  BY <1>1, <1>3, <1>4, <1>5, QuietForVerify, QuietFacts DEF TypeInv, Aside, history

LEMMA StepDriveCrash ==
  ASSUME TypeInv, DriveCrash
  PROVE  Aside
BY DriverMoves, IdlesTyped, IdleFields DEF DriveCrash

LEMMA StepRegenerateOpen ==
  ASSUME TypeInv, NEW e \in Ids, NEW t \in Texts, RegenerateOpen(e, t)
  PROVE  Aside
<1>1. /\ Torn \in Contents /\ WriteFile(e, Torn) /\ rgn' = [id |-> e, text |-> t]
      /\ vfy' = vfy /\ rbd' = rbd /\ drv' = drv /\ runs' = runs
      /\ writes < MaxWrites /\ writes' = writes + 1
  BY DEF RegenerateOpen, Changes, Contents
<1>2. rgn' \in RegenStates /\ rgn'.id # None
  BY <1>1, IndexAssumption DEF RegenStates, IdOrNone, TextOrNone, IndexAssumption
<1>3. TypeOK'
  BY <1>1, <1>2, WriteTyped, IndexAssumption DEF TypeInv, TypeOK, tables, IndexAssumption
<1>4. Control'
  BY <1>1, <1>2 DEF TypeInv, Control
<1> QED
  BY <1>1, <1>3, <1>4, WriteStep DEF TypeInv, Aside

LEMMA StepRegenerateFill ==
  ASSUME TypeInv, RegenerateFill
  PROVE  Aside
<1>1. /\ rgn.text \in Contents /\ WriteFile(rgn.id, rgn.text) /\ rgn' = RegenIdle
      /\ vfy' = vfy /\ rbd' = rbd /\ drv' = drv /\ runs' = runs /\ writes' = writes
  BY DriverFields DEF RegenerateFill, TypeInv
<1>2. TypeOK'
  BY <1>1, WriteTyped, IdlesTyped DEF TypeInv, TypeOK, tables
<1>3. Control'
  BY <1>1, IdleFields DEF TypeInv, Control
<1> QED
  BY <1>1, <1>2, <1>3, WriteStep DEF TypeInv, Aside

LEMMA StepRegenerateCrash ==
  ASSUME TypeInv, RegenerateCrash
  PROVE  Aside
<1>1. /\ rgn' = RegenIdle
      /\ UNCHANGED <<files, ledger, tables, drv, rbd, vfy, writes, runs, history>>
  BY DEF RegenerateCrash
<1>2. TypeOK'
  BY <1>1, IdlesTyped DEF TypeInv, TypeOK, tables, history
<1>3. Control'
  BY <1>1, IdleFields DEF TypeInv, Control
<1> QED
  BY <1>1, <1>2, <1>3, QuietForVerify, QuietForRebuild, QuietFacts
     DEF TypeInv, Aside, tables, history

LEMMA StepEdit ==
  ASSUME TypeInv, NEW e \in Ids, NEW c \in Texts \cup {Absent}, Edit(e, c)
  PROVE  Aside
<1>1. /\ c \in Contents /\ WriteFile(e, c) /\ UNCHANGED <<drv, rgn, rbd, vfy, runs>>
      /\ writes < MaxWrites /\ writes' = writes + 1
  BY DEF Edit, Changes, Contents
<1>2. TypeOK'
  BY <1>1, WriteTyped, IndexAssumption DEF TypeInv, TypeOK, tables, IndexAssumption
<1>3. Control'
  BY <1>1 DEF TypeInv, Control
<1> QED
  BY <1>1, <1>2, <1>3, WriteStep DEF TypeInv, Aside

LEMMA StepChangeLedger ==
  ASSUME TypeInv, NEW t \in Tags, NEW r \in Records, ChangeLedger(t, r)
  PROVE  Aside
<1>1. /\ ledger' = [ledger EXCEPT ![t] = r] /\ kept' = kept \ {t}
      /\ writes < MaxWrites /\ writes' = writes + 1
      /\ UNCHANGED <<files, tables, drv, rgn, rbd, vfy, runs, settled, overtaken,
                     drifted, agreed>>
  BY DEF ChangeLedger, Changes
<1>2. r \in [Platforms -> Digests \cup {Absent}]
  BY IdlesTyped DEF Records
<1>3. ledger' \in Ledgers /\ \A u \in Tags \ {t} : ledger'[u] = ledger[u]
  BY <1>1, <1>2 DEF Ledgers, TypeInv, TypeOK
<1>4. TypeOK'
  BY <1>1, <1>3, IndexAssumption DEF TypeInv, TypeOK, tables, IndexAssumption
<1>5. Control'
  BY <1>1 DEF TypeInv, Control
<1>6. OutsideStep
  BY <1>1, <1>3 DEF OutsideStep, SameRow, TypeInv, TypeOK, tables
<1> QED
  BY <1>1, <1>4, <1>5, <1>6, QuietForVerify, QuietFacts DEF TypeInv, Aside, tables

LEMMA AsideSteps ==
  ASSUME TypeInv, Drives \/ Behind
  PROVE  Aside
BY StepDriveOpen, StepDriveFill, StepDriveParse, StepDriveInsert, StepDriveDate,
   StepDriveSource, StepDriveLook, StepDriveSeed, StepDriveCrash, StepRegenerateOpen,
   StepRegenerateFill, StepRegenerateCrash, StepEdit, StepChangeLedger
   DEF Drives, Behind

-----------------------------------------------------------------------------
(* verify_index.py *)

\* What a verification knows of the entries that never left drift, and of those
\* that never left agreement.
Watching ==
  /\ \A e \in drifted : ~InSync(files, entries, e)
  /\ \A e \in agreed : InSync(files, entries, e)
  /\ vfy.pc = "rows" =>
       /\ \A e \in drifted : e \notin vfy.disk => entries[e].hash # Absent
       /\ \A e \in agreed : e \in vfy.disk <=> files[e] # Absent
  /\ vfy.pc = "hash" =>
       /\ \A e \in drifted : vfy.drift \/ (e \in vfy.left /\ vfy.rows[e] = entries[e].hash)
       /\ \A e \in agreed : vfy.rows[e] = files[e]
       /\ agreed = Ids => ~vfy.drift
  /\ VerifyTells

LEMMA WriterKeepsWatching ==
  ASSUME TypeOK, Watching, WriterStep
  PROVE  Watching'
<1>1. /\ vfy' = vfy /\ drifted' \subseteq drifted /\ agreed' \subseteq agreed
      /\ drifted \subseteq Ids /\ agreed \subseteq Ids
  BY DEF TypeOK, WriterStep
<1>2. ASSUME NEW e \in drifted'
      PROVE  ~InSync(files', entries', e) /\ entries'[e].hash = entries[e].hash
  BY <1>1, <1>2 DEF Watching, WriterStep
<1>3. ASSUME NEW e \in agreed'
      PROVE  InSync(files', entries', e) /\ files'[e] = files[e]
  <2>1. InSync(files, entries, e) /\ InSync(files', entries', e) /\ e \in Ids
    BY <1>1, <1>3 DEF Watching, WriterStep
  <2> QED
    BY <2>1 DEF InSync, WriterStep
<1>4. vfy'.pc = "rows" =>
        /\ \A e \in drifted' : e \notin vfy'.disk => entries'[e].hash # Absent
        /\ \A e \in agreed' : e \in vfy'.disk <=> files'[e] # Absent
  BY <1>1, <1>2, <1>3 DEF Watching
<1>5. vfy'.pc = "hash" =>
        /\ \A e \in drifted' : vfy'.drift \/ (e \in vfy'.left /\ vfy'.rows[e] = entries'[e].hash)
        /\ \A e \in agreed' : vfy'.rows[e] = files'[e]
        /\ agreed' = Ids => ~vfy'.drift
  BY <1>1, <1>2, <1>3 DEF Watching
<1>6. VerifyTells'
  BY <1>1 DEF Watching, VerifyTells
<1> QED
  BY <1>2, <1>3, <1>4, <1>5, <1>6 DEF Watching

\* What every step of verify leaves alone.
VerifyAside == TypeInv' /\ OutsideStep /\ Facts /\ Watching'

LEMMA VerifyMoves ==
  ASSUME TypeInv, vfy' \in VerifyStates, runs' \in 0 .. MaxRuns,
         drifted' \subseteq Ids, agreed' \subseteq Ids,
         UNCHANGED <<files, ledger, tables, drv, rgn, rbd, writes, settled, kept, overtaken>>
  PROVE  TypeInv' /\ OutsideStep /\ Facts
<1>1. TypeOK'
  BY DEF TypeInv, TypeOK, tables
<1>2. Control'
  BY DEF TypeInv, Control
<1> QED
  BY <1>1, <1>2, QuietForRebuild, QuietFacts DEF TypeInv, tables

LEMMA StepVerifyStart ==
  ASSUME TypeInv, Watching, VerifyStart
  PROVE  VerifyAside
<1>1. /\ runs < MaxRuns /\ runs' = runs + 1
      /\ vfy' = [VerifyIdle EXCEPT !.pc = "rows", !.disk = {e \in Ids : files[e] # Absent}]
      /\ drifted' = {e \in Ids : ~InSync(files, entries, e)}
      /\ agreed' = Ids \ drifted'
      /\ UNCHANGED <<files, ledger, tables, drv, rgn, rbd, writes, settled, kept, overtaken>>
  BY DEF VerifyStart, Starts
<1>2. /\ vfy' \in VerifyStates /\ vfy'.pc = "rows"
      /\ vfy'.disk = {e \in Ids : files[e] # Absent}
  BY <1>1, IdlesTyped DEF VerifyStates
<1>3. TypeInv' /\ OutsideStep /\ Facts
  <2>1. runs' \in 0 .. MaxRuns
    BY <1>1, IndexAssumption DEF TypeInv, TypeOK, IndexAssumption
  <2> QED
    BY <1>1, <1>2, <2>1, VerifyMoves
<1>4. files' = files /\ entries' = entries
  BY <1>1 DEF tables
<1>5. /\ \A e \in drifted' : ~InSync(files', entries', e)
      /\ \A e \in agreed' : InSync(files', entries', e)
  BY <1>1, <1>4
<1>6. /\ \A e \in drifted' : e \notin vfy'.disk => entries'[e].hash # Absent
      /\ \A e \in agreed' : e \in vfy'.disk <=> files'[e] # Absent
  BY <1>1, <1>2, <1>4 DEF InSync
<1>7. Watching'
  BY <1>2, <1>5, <1>6 DEF Watching, VerifyTells
<1> QED
  BY <1>3, <1>7 DEF VerifyAside

LEMMA StepVerifyRows ==
  ASSUME TypeInv, Watching, VerifyRows
  PROVE  VerifyAside
<1> DEFINE indexed == {e \in Ids : entries[e].hash # Absent}
<1>1. /\ vfy.pc = "rows"
      /\ vfy' = [vfy EXCEPT !.pc = "hash", !.rows = [e \in Ids |-> entries[e].hash],
                            !.left = vfy.disk \cap indexed, !.drift = vfy.disk # indexed]
      /\ UNCHANGED <<files, ledger, tables, drv, rgn, rbd, writes, runs, history>>
  BY DEF VerifyRows
<1>2. vfy \in VerifyStates /\ vfy.disk \subseteq Ids
  BY DEF TypeInv, TypeOK, VerifyStates
<1>3. [e \in Ids |-> entries[e].hash] \in [Ids -> Contents]
  BY DEF TypeInv, TypeOK, Row
<1>4. /\ vfy' \in VerifyStates /\ vfy'.pc = "hash"
      /\ vfy'.rows = [e \in Ids |-> entries[e].hash]
      /\ vfy'.left = vfy.disk \cap indexed /\ vfy'.drift = (vfy.disk # indexed)
  BY <1>1, <1>2, <1>3 DEF VerifyStates
<1>5. TypeInv' /\ OutsideStep /\ Facts
  <2>1. runs' \in 0 .. MaxRuns /\ drifted' \subseteq Ids /\ agreed' \subseteq Ids
    BY <1>1 DEF TypeInv, TypeOK, history
  <2>2. UNCHANGED <<files, ledger, tables, drv, rgn, rbd, writes, settled, kept, overtaken>>
    BY <1>1 DEF history
  <2> QED
    BY <1>4, <2>1, <2>2, VerifyMoves
<1>6. /\ files' = files /\ entries' = entries /\ drifted' = drifted /\ agreed' = agreed
      /\ drifted \subseteq Ids /\ agreed \subseteq Ids
  BY <1>1 DEF tables, history, TypeInv, TypeOK
<1>7. \A e \in drifted : \/ vfy.disk # indexed
                         \/ e \in vfy.disk \cap indexed
  BY <1>1, <1>2, <1>6 DEF Watching
<1>8. agreed = Ids => vfy.disk = indexed
  BY <1>1, <1>2 DEF Watching, InSync
<1>9. \A e \in agreed : entries[e].hash = files[e]
  BY DEF Watching, InSync
<1>10. Watching'
  <2>1. /\ \A e \in drifted' : vfy'.drift \/ (e \in vfy'.left /\ vfy'.rows[e] = entries'[e].hash)
        /\ \A e \in agreed' : vfy'.rows[e] = files'[e]
        /\ agreed' = Ids => ~vfy'.drift
    BY <1>4, <1>6, <1>7, <1>8, <1>9
  <2> QED
    BY <1>4, <1>6, <2>1 DEF Watching, VerifyTells
<1> QED
  BY <1>5, <1>10 DEF VerifyAside

LEMMA StepVerifyHash ==
  ASSUME TypeInv, Watching, NEW e \in Ids, VerifyHash(e)
  PROVE  VerifyAside
<1>1. /\ vfy.pc = "hash" /\ e \in vfy.left
      /\ UNCHANGED <<files, ledger, tables, drv, rgn, rbd, writes, runs, history>>
  BY DEF VerifyHash
<1>2. /\ vfy \in VerifyStates
      /\ files' = files /\ entries' = entries /\ drifted' = drifted /\ agreed' = agreed
      /\ drifted \subseteq Ids /\ agreed \subseteq Ids
  BY <1>1 DEF TypeInv, TypeOK, tables, history
<1>3. ASSUME vfy' \in VerifyStates PROVE TypeInv' /\ OutsideStep /\ Facts
  <2>1. runs' \in 0 .. MaxRuns /\ drifted' \subseteq Ids /\ agreed' \subseteq Ids
    BY <1>1 DEF TypeInv, TypeOK, history
  <2>2. UNCHANGED <<files, ledger, tables, drv, rgn, rbd, writes, settled, kept, overtaken>>
    BY <1>1 DEF history
  <2> QED
    BY <1>3, <2>1, <2>2, VerifyMoves
<1>4. CASE vfy' = VerifyIdle
  <2>1. vfy'.pc = "idle" /\ vfy' \in VerifyStates
    BY <1>4, IdlesTyped, IdleFields
  <2>2. Watching'
    BY <1>2, <2>1 DEF Watching, VerifyTells
  <2> QED
    BY <1>3, <2>1, <2>2 DEF VerifyAside
<1>5. CASE vfy' = [vfy EXCEPT !.left = @ \ {e}, !.drift = @ \/ files[e] # vfy.rows[e]]
  <2>1. /\ vfy' \in VerifyStates /\ vfy'.pc = "hash" /\ vfy'.rows = vfy.rows
        /\ vfy'.left = vfy.left \ {e}
        /\ vfy'.drift = (vfy.drift \/ files[e] # vfy.rows[e])
    BY <1>1, <1>2, <1>5 DEF VerifyStates
  <2>2. \A j \in drifted : vfy'.drift \/ (j \in vfy'.left /\ vfy'.rows[j] = entries[j].hash)
    BY <1>1, <2>1 DEF Watching, InSync
  <2>3. agreed = Ids => ~vfy'.drift
    BY <1>1, <2>1 DEF Watching
  <2>4. Watching'
    BY <1>1, <1>2, <2>1, <2>2, <2>3 DEF Watching, VerifyTells
  <2> QED
    BY <1>3, <2>1, <2>4 DEF VerifyAside
<1> QED
  BY <1>4, <1>5 DEF VerifyHash

LEMMA StepVerifyExit ==
  ASSUME TypeInv, Watching, VerifyExit
  PROVE  VerifyAside
<1>1. /\ vfy.pc = "hash" /\ vfy.left = {}
      /\ vfy' = [VerifyIdle EXCEPT !.pc = IF vfy.drift THEN "drift" ELSE "ok"]
      /\ UNCHANGED <<files, ledger, tables, drv, rgn, rbd, writes, runs, history>>
  BY DEF VerifyExit
<1>2. vfy' \in VerifyStates /\ vfy'.pc = IF vfy.drift THEN "drift" ELSE "ok"
  BY <1>1, IdlesTyped DEF VerifyStates
<1>3. /\ files' = files /\ entries' = entries /\ drifted' = drifted /\ agreed' = agreed
      /\ drifted \subseteq Ids /\ agreed \subseteq Ids /\ runs' \in 0 .. MaxRuns
      /\ UNCHANGED <<files, ledger, tables, drv, rgn, rbd, writes, settled, kept, overtaken>>
  BY <1>1 DEF TypeInv, TypeOK, tables, history
<1>4. TypeInv' /\ OutsideStep /\ Facts
  BY <1>2, <1>3, VerifyMoves
<1>5. (~vfy.drift => drifted = {}) /\ (vfy.drift => agreed # Ids)
  BY <1>1 DEF Watching
<1>6. Watching'
  BY <1>2, <1>3, <1>5 DEF Watching, VerifyTells
<1> QED
  BY <1>4, <1>6 DEF VerifyAside

LEMMA VerifySteps ==
  ASSUME TypeInv, Watching, Verifies
  PROVE  VerifyAside
BY StepVerifyStart, StepVerifyRows, StepVerifyHash, StepVerifyExit DEF Verifies

-----------------------------------------------------------------------------
(* rebuild_index.py *)

Past == Working \cup {"load"}

\* The entry at hand, as far as rebuild has come with it.
AtHand(e) ==
  /\ rbd.entry = files[e]
  /\ rbd.pc # "parse" => rbd.read = files[e]
  /\ rbd.pc \in {"source", "stub", "class", "seed"} =>
       entries[e].text = files[e] /\ entries[e].hash = files[e]
  /\ rbd.pc \in {"class", "seed"} => sources[e] # "none"

\* Every settled entry is ahead, at hand or fresh.
Handled(e) ==
  /\ rbd.pc \in Working /\ e = rbd.id => AtHand(e)
  /\ rbd.pc \in Past \cup {"done"} /\ e \notin rbd.todo /\ e # rbd.id
       /\ files[e] \in Texts \ Invalid => RowFresh(e)

\* Every fingerprint of a kept image is ahead or copied.
IsCopied(t, p) == t \in images /\ prints[t][p] = ledger[t][p]
Copied(t) ==
  \A p \in Platforms :
    /\ rbd.pc = "images" => rbd.ledger[t][p] \in {Absent, ledger[t][p]}
    /\ ledger[t][p] # Absent =>
         /\ rbd.pc = "images" => rbd.ledger[t][p] = ledger[t][p] \/ IsCopied(t, p)
         /\ rbd.pc \in Past \cup {"done"} => IsCopied(t, p)

Rebuilding ==
  /\ \A e \in settled : Handled(e)
  /\ \A t \in kept : Copied(t)
  /\ rbd.pc = "stub" => sources[rbd.id] = "none" \/ rbd.id \in overtaken
  /\ rbd.pc = "images" /\ rbd.tag # None => rbd.tag \in images
  /\ rbd.pc \in Past => \A t \in Tags : rbd.ledger[t] = NoPrints
  /\ rbd.pc \in {"images", "load", "done"} => rbd.id = None
  /\ rbd.pc = "done" => rbd.todo = {}

LEMMA OutsideKeepsRebuilding ==
  ASSUME TypeInv, Rebuilding, OutsideStep
  PROVE  Rebuilding'
<1>1. /\ rbd' = rbd /\ images' = images /\ prints' = prints
      /\ settled' \subseteq settled /\ kept' \subseteq kept /\ overtaken \subseteq overtaken'
  BY DEF OutsideStep
<1>2. ASSUME NEW e \in settled' PROVE Handled(e)'
  <2>1. /\ Handled(e) /\ files'[e] = files[e] /\ SameRow(e)
        /\ sources[e] # "none" => sources'[e] # "none"
        /\ classes[e] # Absent => classes'[e] # Absent
    BY <1>1, <1>2 DEF OutsideStep, Rebuilding
  <2> QED
    BY <1>1, <2>1 DEF Handled, AtHand, RowFresh, SameRow
<1>3. ASSUME NEW t \in kept' PROVE Copied(t)'
  <2>1. Copied(t) /\ ledger'[t] = ledger[t]
    BY <1>1, <1>3 DEF OutsideStep, Rebuilding
  <2> QED
    BY <1>1, <2>1 DEF Copied, IsCopied
<1>4. rbd'.pc = "stub" => sources'[rbd'.id] = "none" \/ rbd'.id \in overtaken'
  BY <1>1 DEF Rebuilding, OutsideStep
<1> QED
  BY <1>1, <1>2, <1>3, <1>4 DEF Rebuilding

RebuildAside == TypeInv' /\ WriterStep /\ Facts /\ Rebuilding'

\* A step that moves nothing but rebuild_index.py.
LEMMA RebuildMoves ==
  ASSUME TypeInv, rbd' \in RebuildStates,
         rbd'.pc \in Working => rbd'.id \in Ids,
         rbd'.pc = "seed" => rbd'.entry \in Failing,
         UNCHANGED <<files, ledger, tables, drv, rgn, vfy, writes, runs, history>>
  PROVE  TypeInv' /\ WriterStep /\ Facts
<1>1. TypeOK'
  BY DEF TypeInv, TypeOK, tables, history
<1>2. Control'
  BY DEF TypeInv, Control
<1> QED
  BY <1>1, <1>2, QuietForVerify, QuietFacts DEF TypeInv, tables, history

\* Giving up leaves nothing to say.
LEMMA IdleRebuilding ==
  ASSUME rbd'.pc = "idle"
  PROVE  Rebuilding'
BY DEF Rebuilding, Handled, Copied, Past, Working

LEMMA RebuildGivesUp ==
  ASSUME TypeInv, rbd' = RebuildIdle,
         UNCHANGED <<files, ledger, tables, drv, rgn, vfy, writes, runs, history>>
  PROVE  RebuildAside
<1>1. rbd' \in RebuildStates /\ rbd'.pc = "idle"
  BY IdlesTyped, IdleFields
<1>2. rbd'.pc \notin Working /\ rbd'.pc # "seed"
  BY <1>1 DEF Working
<1> QED
  BY <1>1, <1>2, RebuildMoves, IdleRebuilding DEF RebuildAside

LEMMA StepRebuildCrash ==
  ASSUME TypeInv, RebuildCrash
  PROVE  RebuildAside
BY RebuildGivesUp DEF RebuildCrash

LEMMA StepRebuildStart ==
  ASSUME TypeInv, RebuildStart
  PROVE  RebuildAside
<1>1. /\ rbd' = [RebuildIdle EXCEPT !.pc = "images", !.ledger = ledger]
      /\ settled' = Ids /\ kept' = Tags /\ runs < MaxRuns /\ runs' = runs + 1
      /\ UNCHANGED <<files, ledger, tables, drv, rgn, vfy, writes, overtaken, drifted, agreed>>
  BY DEF RebuildStart, Starts
<1>2. /\ rbd' \in RebuildStates /\ rbd'.pc = "images" /\ rbd'.ledger = ledger
      /\ rbd'.tag = None /\ rbd'.id = None
  BY <1>1, IdlesTyped, IdleFields DEF RebuildStates, TypeInv, TypeOK
<1>3. TypeOK'
  BY <1>1, <1>2, IndexAssumption DEF TypeInv, TypeOK, tables, IndexAssumption
<1>4. Control'
  BY <1>1, <1>2 DEF TypeInv, Control, Working
<1>5. Rebuilding'
  <2>1. \A e \in settled' : Handled(e)'
    BY <1>2 DEF Handled, Working, Past
  <2>2. rbd'.pc \notin Past \cup {"done", "load", "stub"}
    BY <1>2 DEF Past, Working
  <2>3. \A t \in kept' : Copied(t)'
    BY <1>1, <1>2, <2>2 DEF Copied
  <2> QED
    BY <1>2, <2>1, <2>2, <2>3 DEF Rebuilding
<1> QED
  BY <1>1, <1>3, <1>4, <1>5, QuietForVerify, QuietFacts DEF TypeInv, RebuildAside, tables

\* While images are copied there is nothing to say of entries.
LEMMA NoEntryYet ==
  ASSUME rbd'.pc = "images"
  PROVE  \A e : Handled(e)'
BY DEF Handled, Working, Past

LEMMA StepRebuildImage ==
  ASSUME TypeInv, Rebuilding, NEW t \in Tags, RebuildImage(t)
  PROVE  RebuildAside
<1>1. /\ rbd.pc = "images" /\ images' = images \cup {t} /\ rbd' = [rbd EXCEPT !.tag = t]
      /\ UNCHANGED <<files, ledger, entries, sources, classes, prints, drv, rgn, vfy,
                     writes, runs, history>>
  BY DEF RebuildImage
<1>2. /\ rbd' \in RebuildStates /\ rbd'.pc = "images" /\ rbd'.ledger = rbd.ledger
      /\ rbd'.tag = t /\ rbd'.id = rbd.id
  BY <1>1 DEF TypeInv, TypeOK, RebuildStates
<1>3. TypeOK'
  BY <1>1, <1>2 DEF TypeInv, TypeOK, history
<1>4. Control'
  BY <1>1, <1>2 DEF TypeInv, Control, Working
<1>5. \A u \in kept' : Copied(u)'
  BY <1>1, <1>2 DEF Rebuilding, Copied, IsCopied, history
<1>6. Rebuilding'
  BY <1>1, <1>2, <1>5, NoEntryYet DEF Rebuilding, Past, Working
<1> QED
  BY <1>1, <1>3, <1>4, <1>6, QuietForVerify, QuietFacts DEF TypeInv, RebuildAside, history

LEMMA StepRebuildPrint ==
  ASSUME TypeInv, Rebuilding, NEW p \in Platforms, RebuildPrint(p)
  PROVE  RebuildAside
<1> DEFINE rest == [rbd.ledger EXCEPT ![rbd.tag][p] = Absent]
<1>1. /\ rbd.pc = "images" /\ rbd.tag # None /\ rbd.ledger[rbd.tag][p] # Absent
      /\ prints' = [prints EXCEPT ![rbd.tag][p] = rbd.ledger[rbd.tag][p]]
      /\ rbd' = [rbd EXCEPT !.ledger = rest,
                            !.tag = IF rest[rbd.tag] = NoPrints THEN None ELSE rbd.tag]
      /\ UNCHANGED <<files, ledger, entries, sources, classes, images, drv, rgn, vfy,
                     writes, runs, history>>
  BY DEF RebuildPrint
<1>2. /\ rbd \in RebuildStates /\ rbd.tag \in Tags /\ rbd.ledger \in Ledgers
      /\ prints \in Ledgers /\ ledger \in Ledgers
  BY <1>1 DEF TypeInv, TypeOK, RebuildStates
<1>3. /\ rest \in Ledgers /\ prints' \in Ledgers
      /\ \A u \in Tags, q \in Platforms :
           u # rbd.tag \/ q # p => rest[u][q] = rbd.ledger[u][q] /\ prints'[u][q] = prints[u][q]
      /\ prints'[rbd.tag][p] = rbd.ledger[rbd.tag][p]
  BY <1>1, <1>2 DEF Ledgers
<1> HIDE DEF rest
<1>4. /\ rbd' \in RebuildStates /\ rbd'.pc = "images" /\ rbd'.ledger = rest
      /\ rbd'.tag \in {None, rbd.tag} /\ rbd'.id = rbd.id
  BY <1>1, <1>2, <1>3 DEF RebuildStates
<1>5. TypeOK'
  BY <1>1, <1>3, <1>4 DEF TypeInv, TypeOK, history
<1>6. Control'
  BY <1>1, <1>4 DEF TypeInv, Control, Working
<1>7. ASSUME NEW u \in kept' PROVE Copied(u)'
  <2>1. u \in kept /\ u \in Tags /\ Copied(u) /\ rbd.tag \in images
    BY <1>1, <1>7 DEF history, TypeInv, TypeOK, Rebuilding
  <2>2. ASSUME NEW q \in Platforms
        PROVE  /\ rest[u][q] \in {Absent, ledger[u][q]}
               /\ ledger[u][q] # Absent =>
                    rest[u][q] = ledger[u][q] \/ (u \in images /\ prints'[u][q] = ledger[u][q])
    <3>1. /\ rbd.ledger[u][q] \in {Absent, ledger[u][q]}
          /\ ledger[u][q] # Absent => rbd.ledger[u][q] = ledger[u][q] \/ IsCopied(u, q)
      BY <1>1, <2>1 DEF Copied
    <3>2. CASE u # rbd.tag \/ q # p
      BY <1>3, <2>1, <3>1, <3>2 DEF IsCopied
    <3>3. CASE u = rbd.tag /\ q = p
      BY <1>1, <1>2, <1>3, <2>1, <3>1, <3>3 DEF rest, Ledgers
    <3> QED
      BY <3>2, <3>3
  <2>3. rbd'.pc \notin Past \cup {"done"} /\ ledger' = ledger /\ images' = images
    BY <1>1, <1>4 DEF Past, Working
  <2> QED
    BY <1>4, <2>2, <2>3 DEF Copied, IsCopied
<1>8. Rebuilding'
  BY <1>1, <1>4, <1>7, NoEntryYet DEF Rebuilding, Past, Working
<1> QED
  BY <1>1, <1>5, <1>6, <1>8, QuietForVerify, QuietFacts DEF TypeInv, RebuildAside, history

LEMMA StepRebuildGlob ==
  ASSUME TypeInv, Rebuilding, RebuildGlob
  PROVE  RebuildAside
<1>1. /\ rbd.pc = "images" /\ rbd.tag = None /\ Registered(rbd.ledger) = {}
      /\ rbd' = [rbd EXCEPT !.pc = "load", !.todo = {e \in Ids : files[e] # Absent}]
      /\ UNCHANGED <<files, ledger, tables, drv, rgn, vfy, writes, runs, history>>
  BY DEF RebuildGlob
<1>2. /\ rbd' \in RebuildStates /\ rbd'.pc = "load" /\ rbd'.ledger = rbd.ledger
      /\ rbd'.id = rbd.id
      /\ rbd'.todo = {e \in Ids : files[e] # Absent}
  BY <1>1 DEF TypeInv, TypeOK, RebuildStates
<1>3. TypeInv' /\ WriterStep /\ Facts
  BY <1>1, <1>2, RebuildMoves DEF Working
<1>4. \A e \in settled' : Handled(e)'
  <2>1. files' = files /\ settled' \subseteq Ids
    BY <1>1 DEF TypeInv, TypeOK, history
  <2> QED
    BY <1>2, <2>1, IndexAssumption DEF Handled, Working, IndexAssumption
<1>5. \A t \in Tags : rbd.ledger[t] = NoPrints
  BY <1>1 DEF Registered
<1>6. \A t \in kept' : Copied(t)'
  <2>1. /\ kept' = kept /\ kept \subseteq Tags
        /\ ledger' = ledger /\ images' = images /\ prints' = prints
    BY <1>1 DEF TypeInv, TypeOK, history, tables
  <2>2. \A t \in Tags, p \in Platforms : rbd.ledger[t][p] = Absent
    BY <1>5 DEF NoPrints
  <2> QED
    BY <1>1, <1>2, <2>1, <2>2 DEF Rebuilding, Copied, IsCopied
<1>7. Rebuilding'
  BY <1>1, <1>2, <1>4, <1>5, <1>6 DEF Rebuilding
<1> QED
  BY <1>3, <1>7 DEF RebuildAside

\* From here on rebuild keeps the ledger it has worked off.
LEMMA ImagesDone ==
  ASSUME TypeInv, Rebuilding, rbd.pc \in Past,
         rbd'.pc \in Past, rbd'.ledger = rbd.ledger,
         UNCHANGED <<ledger, images, prints, kept>>
  PROVE  /\ \A t \in kept' : Copied(t)'
         /\ \A t \in Tags : rbd'.ledger[t] = NoPrints
BY DEF Rebuilding, Copied, IsCopied, Past, Working

LEMMA StepRebuildLoad ==
  ASSUME TypeInv, Rebuilding, NEW e \in Ids, RebuildLoad(e)
  PROVE  RebuildAside
<1>1. /\ rbd.pc = "load" /\ e \in rbd.todo /\ rbd \in RebuildStates
      /\ UNCHANGED <<files, ledger, tables, drv, rgn, vfy, writes, runs, history>>
  BY DEF RebuildLoad, TypeInv, TypeOK
<1>2. CASE files[e] \notin Texts
  BY <1>1, <1>2, RebuildGivesUp DEF RebuildLoad
<1>3. CASE files[e] \in Texts
  <2>1. rbd' = [rbd EXCEPT !.todo = @ \ {e},
                           !.pc = IF files[e] \in Invalid THEN "load" ELSE "parse",
                           !.id = IF files[e] \in Invalid THEN None ELSE e,
                           !.entry = IF files[e] \in Invalid THEN Absent ELSE files[e]]
    BY <1>3 DEF RebuildLoad
  <2>2. /\ rbd' \in RebuildStates /\ rbd'.todo = rbd.todo \ {e} /\ rbd'.ledger = rbd.ledger
        /\ files[e] \in Invalid => rbd'.pc = "load" /\ rbd'.id = None
        /\ files[e] \notin Invalid => rbd'.pc = "parse" /\ rbd'.id = e /\ rbd'.entry = files[e]
    BY <1>1, <1>3, <2>1 DEF RebuildStates, IdOrNone, TextOrNone
  <2>3. TypeInv' /\ WriterStep /\ Facts
    <3>1. rbd'.pc \in Working => rbd'.id \in Ids
      BY <2>2 DEF Working
    <3>2. rbd'.pc # "seed"
      BY <2>2
    <3> QED
      BY <1>1, <2>2, <3>1, <3>2, RebuildMoves
  <2>4. /\ files' = files /\ settled' = settled /\ entries' = entries /\ sources' = sources
        /\ classes' = classes
        /\ UNCHANGED <<ledger, images, prints, kept, overtaken>>
    BY <1>1 DEF tables, history
  <2>5. rbd.pc \in Past /\ rbd'.pc \in Past /\ rbd'.pc \notin {"stub", "images", "done"}
    BY <1>1, <2>2 DEF Past, Working
  <2>6. ASSUME NEW j \in settled' PROVE Handled(j)'
    <3>1. Handled(j) /\ j \in Ids
      BY <2>4, <2>6 DEF Rebuilding, TypeInv, TypeOK
    <3>2. rbd'.pc \in Working /\ j = rbd'.id => AtHand(j)'
      BY <2>2, <2>4 DEF AtHand, Working
    <3>3. ASSUME j \notin rbd'.todo, j # rbd'.id, files[j] \in Texts \ Invalid
          PROVE  RowFresh(j)
      <4>1. j # e
        BY <2>2, <3>3
      <4>2. j \notin rbd.todo
        BY <2>2, <3>3, <4>1
      <4>3. j # rbd.id
        BY <1>1, <3>1, IndexAssumption DEF Rebuilding, IndexAssumption
      <4> QED
        BY <1>1, <2>5, <3>1, <3>3, <4>2, <4>3 DEF Handled, Past
    <3>4. RowFresh(j) => RowFresh(j)'
      BY <2>4 DEF RowFresh
    <3> QED
      BY <2>4, <3>2, <3>3, <3>4 DEF Handled
  <2>7. rbd'.pc = "load" => rbd'.id = None
    BY <2>2
  <2>8. Rebuilding'
    BY <2>2, <2>4, <2>5, <2>6, <2>7, ImagesDone DEF Rebuilding
  <2> QED
    BY <2>3, <2>8 DEF RebuildAside
<1> QED
  BY <1>2, <1>3

\* A step to the next statement for the entry at hand.
LEMMA WorkOn ==
  ASSUME TypeInv, Rebuilding, rbd.pc \in Working, rbd'.pc \in Working,
         rbd'.todo = rbd.todo, rbd'.id = rbd.id, rbd'.ledger = rbd.ledger,
         UNCHANGED <<files, ledger, images, prints, kept>>, settled' \subseteq settled,
         \A e \in Ids \ {rbd.id} : RowFresh(e) => RowFresh(e)',
         rbd.id \in settled' => AtHand(rbd.id)',
         rbd'.pc = "stub" => sources'[rbd.id] = "none" \/ rbd.id \in overtaken'
  PROVE  Rebuilding'
<1>1. rbd.pc \in Past /\ rbd'.pc \in Past /\ rbd'.pc \notin {"images", "load", "done"}
  BY DEF Past, Working
<1>2. ASSUME NEW e \in settled' PROVE Handled(e)'
  <2>1. e \in Ids /\ Handled(e)
    BY <1>2 DEF Rebuilding, TypeInv, TypeOK
  <2>2. rbd'.pc \in Working /\ e = rbd'.id => AtHand(e)'
    BY <1>2 DEF AtHand
  <2>3. ASSUME e \notin rbd'.todo, e # rbd'.id, files'[e] \in Texts \ Invalid
        PROVE  RowFresh(e)'
    BY <1>1, <2>1, <2>3 DEF Handled
  <2> QED
    BY <2>2, <2>3 DEF Handled
<1> QED
  BY <1>1, <1>2, ImagesDone DEF Rebuilding

\* A step away from an entry that is fresh now.
LEMMA LeaveEntry ==
  ASSUME TypeInv, Rebuilding, rbd.pc \in Working, rbd' = NextEntry,
         UNCHANGED <<files, ledger, entries, sources, images, prints, settled, kept>>,
         \A e \in Ids : classes[e] # Absent => classes'[e] # Absent,
         \A e \in settled : e = rbd.id => RowFresh(e)'
  PROVE  Rebuilding' /\ rbd' \in RebuildStates /\ rbd'.pc = "load"
<1>1. /\ rbd' \in RebuildStates /\ rbd'.pc = "load" /\ rbd'.id = None
      /\ rbd'.todo = rbd.todo /\ rbd'.ledger = rbd.ledger
  BY DEF NextEntry, TypeInv, TypeOK, RebuildStates, IdOrNone, TextOrNone
<1>2. rbd.pc \in Past /\ rbd'.pc \in Past /\ rbd'.pc \notin Working \cup {"stub", "images"}
  BY <1>1 DEF Past, Working
<1>3. ASSUME NEW e \in settled' PROVE Handled(e)'
  <2>1. e \in Ids /\ e \in settled /\ Handled(e)
    BY <1>3 DEF Rebuilding, TypeInv, TypeOK
  <2>2. ASSUME e \notin rbd'.todo, files'[e] \in Texts \ Invalid
        PROVE  RowFresh(e)'
    <3>1. CASE e = rbd.id
      BY <2>1, <3>1
    <3>2. CASE e # rbd.id
      <4>1. RowFresh(e)
        BY <1>1, <1>2, <2>1, <2>2, <3>2 DEF Handled
      <4> QED
        BY <2>1, <4>1 DEF RowFresh
    <3> QED
      BY <3>1, <3>2
  <2> QED
    BY <1>2, <2>2 DEF Handled
<1> QED
  BY <1>1, <1>2, <1>3, ImagesDone DEF Rebuilding

\* Moving on to another statement for the same entry.
LEMMA RebuildGoto ==
  ASSUME TypeOK, NEW pc \in Working, rbd' = [rbd EXCEPT !.pc = pc]
  PROVE  /\ rbd' \in RebuildStates /\ rbd'.pc = pc /\ rbd'.id = rbd.id
         /\ rbd'.todo = rbd.todo /\ rbd'.ledger = rbd.ledger
         /\ rbd'.entry = rbd.entry /\ rbd'.read = rbd.read
BY DEF TypeOK, RebuildStates, Working

LEMMA StepRebuildParse ==
  ASSUME TypeInv, Rebuilding, RebuildParse
  PROVE  RebuildAside
<1>1. /\ rbd.pc = "parse" /\ rbd \in RebuildStates /\ rbd.id \in Ids
      /\ UNCHANGED <<files, ledger, tables, drv, rgn, vfy, writes, runs, history>>
  BY DEF RebuildParse, TypeInv, TypeOK, Control, Working
<1>2. CASE files[rbd.id] \notin Texts
  BY <1>1, <1>2, RebuildGivesUp DEF RebuildParse
<1>3. CASE files[rbd.id] \in Texts
  <2>1. rbd' = [rbd EXCEPT !.pc = "insert", !.read = files[rbd.id]]
    BY <1>3 DEF RebuildParse
  <2>2. /\ rbd' \in RebuildStates /\ rbd'.pc = "insert" /\ rbd'.id = rbd.id
        /\ rbd'.todo = rbd.todo /\ rbd'.ledger = rbd.ledger
        /\ rbd'.entry = rbd.entry /\ rbd'.read = files[rbd.id]
    BY <1>1, <1>3, <2>1 DEF RebuildStates, TextOrNone
  <2>3. rbd.pc \in Working /\ rbd'.pc \in Working
    BY <1>1, <2>2 DEF Working
  <2>4. TypeInv' /\ WriterStep /\ Facts
    BY <1>1, <2>2, RebuildMoves
  <2>5. /\ files' = files /\ settled' = settled /\ entries' = entries /\ sources' = sources
        /\ classes' = classes
        /\ UNCHANGED <<ledger, images, prints, kept>>
    BY <1>1 DEF tables, history
  <2>6. rbd.id \in settled' => AtHand(rbd.id)'
    BY <1>1, <2>2, <2>3, <2>5 DEF Rebuilding, Handled, AtHand
  <2>7. \A e \in Ids : RowFresh(e) => RowFresh(e)'
    BY <2>5 DEF RowFresh
  <2>8. Rebuilding'
    BY <2>2, <2>3, <2>5, <2>6, <2>7, WorkOn
  <2> QED
    BY <2>4, <2>8 DEF RebuildAside
<1> QED
  BY <1>2, <1>3

LEMMA StepRebuildInsert ==
  ASSUME TypeInv, Rebuilding, RebuildInsert
  PROVE  RebuildAside
<1>1. /\ rbd.pc = "insert" /\ rbd \in RebuildStates /\ rbd.id \in Ids /\ rbd.read \in TextOrNone
      /\ UNCHANGED <<files, ledger, sources, classes, images, prints, drv, rgn, vfy,
                     writes, runs, kept, overtaken>>
  BY DEF RebuildInsert, TypeInv, TypeOK, Control, Working, RebuildStates
<1>2. CASE rbd' = RebuildIdle /\ UNCHANGED <<entries, settled, drifted, agreed>>
  <2>1. UNCHANGED <<files, ledger, tables, drv, rgn, vfy, writes, runs, history>>
    BY <1>1, <1>2 DEF tables, history
  <2> QED
    BY <1>2, <2>1, RebuildGivesUp
<1>3. CASE /\ files[rbd.id] # Absent /\ UpsertEntry(rbd.id, rbd.read)
           /\ rbd' = [rbd EXCEPT !.pc = "source"] /\ Observe({})
  <2>1. TypeOK /\ rbd.pc \in Working /\ "source" \in Working
    BY <1>1 DEF TypeInv, Working
  <2>2. /\ rbd' \in RebuildStates /\ rbd'.pc = "source" /\ rbd'.id = rbd.id
        /\ rbd'.todo = rbd.todo /\ rbd'.ledger = rbd.ledger
        /\ rbd'.entry = rbd.entry /\ rbd'.read = rbd.read
    BY <1>3, <2>1, RebuildGoto
  <2>3. /\ entries' \in [Ids -> Row]
        /\ entries'[rbd.id].text = rbd.read /\ entries'[rbd.id].hash = files[rbd.id]
        /\ \A j \in Ids \ {rbd.id} : entries'[j] = entries[j]
    <3>1. /\ entries' \in [Ids -> Row]
          /\ entries'[rbd.id] = [text |-> rbd.read, hash |-> files[rbd.id],
                                 date |-> entries[rbd.id].date]
          /\ \A j \in Ids \ {rbd.id} : entries'[j] = entries[j]
      BY <1>1, <1>3, <2>1, UpsertTyped
    <3> QED
      BY <3>1
  <2>4. settled' \subseteq Ids /\ drifted' \subseteq Ids /\ agreed' \subseteq Ids
    BY <1>3, <2>1, HistoryTyped
  <2>5. TypeOK'
    BY <1>1, <2>1, <2>2, <2>3, <2>4 DEF TypeOK
  <2>6. Control'
    BY <1>1, <2>2 DEF TypeInv, Control
  <2>7. WriterStep /\ Facts
    BY <1>1, <1>3, <2>1, UpsertStep
  <2>8. settled' \subseteq settled
    BY <1>3 DEF Observe
  <2>9. rbd.id \in settled' => AtHand(rbd.id)'
    BY <1>1, <2>1, <2>2, <2>3, <2>8 DEF Rebuilding, Handled, AtHand
  <2>10. \A e \in Ids \ {rbd.id} : RowFresh(e) => RowFresh(e)'
    BY <1>1, <2>3 DEF RowFresh
  <2>11. Rebuilding'
    BY <1>1, <2>1, <2>2, <2>8, <2>9, <2>10, WorkOn
  <2> QED
    BY <2>5, <2>6, <2>7, <2>11 DEF RebuildAside, TypeInv
<1> QED
  BY <1>2, <1>3 DEF RebuildInsert

LEMMA StepRebuildLook ==
  ASSUME TypeInv, Rebuilding, RebuildLook
  PROVE  RebuildAside
<1>1. /\ rbd.pc = "source" /\ rbd.id \in Ids /\ TypeOK
      /\ UNCHANGED <<files, ledger, tables, drv, rgn, vfy, writes, runs, history>>
  BY DEF RebuildLook, TypeInv, Control, Working
<1>2. PICK pc \in {"stub", "class"} :
        /\ rbd' = [rbd EXCEPT !.pc = pc]
        /\ pc = "stub" <=> sources[rbd.id] = "none"
  BY DEF RebuildLook
<1>3. rbd.pc \in Working /\ pc \in Working
  BY <1>1 DEF Working
<1>4. /\ rbd' \in RebuildStates /\ rbd'.pc = pc /\ rbd'.id = rbd.id
      /\ rbd'.todo = rbd.todo /\ rbd'.ledger = rbd.ledger
      /\ rbd'.entry = rbd.entry /\ rbd'.read = rbd.read
  BY <1>1, <1>2, <1>3, RebuildGoto
<1>5. TypeInv' /\ WriterStep /\ Facts
  BY <1>1, <1>4, RebuildMoves
<1>6. /\ files' = files /\ settled' = settled /\ entries' = entries /\ sources' = sources
      /\ classes' = classes
      /\ UNCHANGED <<ledger, images, prints, kept>>
  BY <1>1 DEF tables, history
<1>7. rbd.id \in settled' => AtHand(rbd.id)'
  BY <1>1, <1>2, <1>3, <1>4, <1>6 DEF Rebuilding, Handled, AtHand
<1>8. \A e \in Ids : RowFresh(e) => RowFresh(e)'
  BY <1>6 DEF RowFresh
<1>9. Rebuilding'
  BY <1>2, <1>3, <1>4, <1>6, <1>7, <1>8, WorkOn
<1> QED
  BY <1>5, <1>9 DEF RebuildAside

LEMMA StepRebuildStub ==
  ASSUME TypeInv, Rebuilding, RebuildStub
  PROVE  RebuildAside
<1>1. /\ rbd.pc = "stub" /\ rbd.id \in Ids /\ TypeOK
      /\ sources' = [sources EXCEPT ![rbd.id] = "unknown"]
      /\ rbd' = [rbd EXCEPT !.pc = "class"]
      /\ overtaken' = overtaken \ {rbd.id}
      /\ UNCHANGED <<files, ledger, entries, classes, images, prints, drv, rgn, vfy,
                     writes, runs, settled, kept, drifted, agreed>>
  BY DEF RebuildStub, TypeInv, Control, Working
<1>2. rbd.pc \in Working /\ "class" \in Working
  BY <1>1 DEF Working
<1>3. /\ rbd' \in RebuildStates /\ rbd'.pc = "class" /\ rbd'.id = rbd.id
      /\ rbd'.todo = rbd.todo /\ rbd'.ledger = rbd.ledger
      /\ rbd'.entry = rbd.entry /\ rbd'.read = rbd.read
  BY <1>1, <1>2, RebuildGoto
<1>4. /\ sources' \in [Ids -> {"none", "unknown", "driver"}]
      /\ sources'[rbd.id] = "unknown" /\ \A e \in Ids \ {rbd.id} : sources'[e] = sources[e]
  BY <1>1 DEF TypeOK
<1>5. TypeOK'
  BY <1>1, <1>3, <1>4 DEF TypeOK
<1>6. Control'
  BY <1>1, <1>3 DEF TypeInv, Control
<1>7. Facts
  BY <1>1, <1>4 DEF Facts, Rebuilding
<1>8. rbd.id \in settled' => AtHand(rbd.id)'
  BY <1>1, <1>2, <1>3, <1>4 DEF Rebuilding, Handled, AtHand
<1>9. \A e \in Ids \ {rbd.id} : RowFresh(e) => RowFresh(e)'
  BY <1>1, <1>4 DEF RowFresh
<1>10. Rebuilding'
  BY <1>1, <1>2, <1>3, <1>8, <1>9, WorkOn
<1> QED
  BY <1>1, <1>5, <1>6, <1>7, <1>10, QuietForVerify DEF RebuildAside, TypeInv

LEMMA StepRebuildClass ==
  ASSUME TypeInv, Rebuilding, RebuildClass
  PROVE  RebuildAside
<1>1. /\ rbd.pc = "class" /\ rbd.id \in Ids /\ TypeOK
      /\ UNCHANGED <<files, ledger, tables, drv, rgn, vfy, writes, runs, history>>
  BY DEF RebuildClass, TypeInv, Control, Working
<1>2. rbd.pc \in Working /\ "seed" \in Working
  BY <1>1 DEF Working
<1>3. /\ files' = files /\ settled' = settled /\ entries' = entries /\ sources' = sources
      /\ classes' = classes
      /\ UNCHANGED <<ledger, images, prints, kept>>
  BY <1>1 DEF tables, history
<1>4. \A e \in Ids : RowFresh(e) => RowFresh(e)'
  BY <1>3 DEF RowFresh
<1>5. CASE rbd.entry \in Failing /\ classes[rbd.id] = Absent
  <2>1. rbd' = [rbd EXCEPT !.pc = "seed"]
    BY <1>5 DEF RebuildClass
  <2>2. /\ rbd' \in RebuildStates /\ rbd'.pc = "seed" /\ rbd'.id = rbd.id
        /\ rbd'.todo = rbd.todo /\ rbd'.ledger = rbd.ledger
        /\ rbd'.entry = rbd.entry /\ rbd'.read = rbd.read
    BY <1>1, <1>2, <2>1, RebuildGoto
  <2>3. TypeInv' /\ WriterStep /\ Facts
    BY <1>1, <1>5, <2>2, RebuildMoves
  <2>4. rbd.id \in settled' => AtHand(rbd.id)'
    BY <1>1, <1>2, <1>3, <2>2 DEF Rebuilding, Handled, AtHand
  <2>5. Rebuilding'
    BY <1>2, <1>3, <1>4, <2>2, <2>4, WorkOn
  <2> QED
    BY <2>3, <2>5 DEF RebuildAside
<1>6. CASE ~(rbd.entry \in Failing /\ classes[rbd.id] = Absent)
  <2>1. rbd' = NextEntry
    BY <1>6 DEF RebuildClass
  <2>2. ASSUME NEW e \in settled, e = rbd.id PROVE RowFresh(e)'
    <3>1. /\ rbd.entry = files[e] /\ entries[e].text = files[e] /\ entries[e].hash = files[e]
          /\ sources[e] # "none"
      BY <1>1, <1>2, <2>2 DEF Rebuilding, Handled, AtHand
    <3> QED
      BY <1>3, <1>6, <2>2, <3>1 DEF RowFresh
  <2>3. Rebuilding' /\ rbd' \in RebuildStates /\ rbd'.pc = "load"
    BY <1>2, <1>3, <2>1, <2>2, LeaveEntry
  <2>4. rbd'.pc \notin Working /\ rbd'.pc # "seed"
    BY <2>3 DEF Working
  <2>5. TypeInv' /\ WriterStep /\ Facts
    BY <1>1, <2>3, <2>4, RebuildMoves
  <2> QED
    BY <2>3, <2>5 DEF RebuildAside
<1> QED
  BY <1>5, <1>6

LEMMA StepRebuildSeed ==
  ASSUME TypeInv, Rebuilding, RebuildSeed
  PROVE  RebuildAside
<1>1. /\ rbd.pc = "seed" /\ rbd.id \in Ids /\ TypeOK /\ rbd.entry \in Failing
      /\ SeedClass(rbd.id, rbd.entry)
      /\ UNCHANGED <<files, ledger, entries, sources, images, prints, drv, rgn, vfy,
                     writes, runs, history>>
  BY DEF RebuildSeed, TypeInv, Control, Working
<1>2. rbd.pc \in Working
  BY <1>1 DEF Working
<1>3. /\ classes' \in [Ids -> Failing \cup {Absent}]
      /\ \A j \in Ids : classes[j] # Absent => classes'[j] # Absent
  BY <1>1, SeedTyped
<1>4. CASE classes[rbd.id] # Absent
  <2>1. rbd' = RebuildIdle /\ classes' = classes
    BY <1>1, <1>4 DEF RebuildSeed, SeedClass
  <2>2. UNCHANGED <<files, ledger, tables, drv, rgn, vfy, writes, runs, history>>
    BY <1>1, <2>1 DEF tables
  <2> QED
    BY <2>1, <2>2, RebuildGivesUp
<1>5. CASE classes[rbd.id] = Absent
  <2>1. rbd' = NextEntry /\ classes' = [classes EXCEPT ![rbd.id] = rbd.entry]
    BY <1>1, <1>5 DEF RebuildSeed, SeedClass
  <2>2. classes'[rbd.id] # Absent
    BY <1>1, <2>1, IndexAssumption DEF TypeOK, IndexAssumption
  <2>3. UNCHANGED <<files, ledger, entries, sources, images, prints, settled, kept>>
    BY <1>1 DEF history
  <2>4. ASSUME NEW e \in settled, e = rbd.id PROVE RowFresh(e)'
    <3>1. /\ rbd.entry = files[e] /\ entries[e].text = files[e] /\ entries[e].hash = files[e]
          /\ sources[e] # "none"
      BY <1>1, <1>2, <2>4 DEF Rebuilding, Handled, AtHand
    <3> QED
      BY <2>2, <2>3, <2>4, <3>1 DEF RowFresh
  <2>5. Rebuilding' /\ rbd' \in RebuildStates /\ rbd'.pc = "load"
    BY <1>2, <1>3, <2>1, <2>3, <2>4, LeaveEntry
  <2>6. TypeOK'
    BY <1>1, <1>3, <2>5 DEF TypeOK, history
  <2>7. Control'
    BY <1>1, <2>5 DEF TypeInv, Control, Working
  <2>8. WriterStep /\ Facts
    BY <1>1, QuietForVerify, QuietFacts DEF history
  <2> QED
    BY <2>5, <2>6, <2>7, <2>8 DEF RebuildAside, TypeInv
<1> QED
  BY <1>4, <1>5

LEMMA StepRebuildDone ==
  ASSUME TypeInv, Rebuilding, RebuildDone
  PROVE  RebuildAside
<1>1. /\ rbd.pc = "load" /\ rbd.todo = {} /\ rbd.id = None
      /\ rbd' = [RebuildIdle EXCEPT !.pc = "done"]
      /\ UNCHANGED <<files, ledger, tables, drv, rgn, vfy, writes, runs, history>>
  BY DEF RebuildDone, Rebuilding
<1>2. rbd' \in RebuildStates /\ rbd'.pc = "done" /\ rbd'.id = None /\ rbd'.todo = {}
  BY <1>1, IdlesTyped, IdleFields DEF RebuildStates
<1>3. rbd'.pc \notin Working /\ rbd'.pc \notin Past /\ rbd.pc \in Past
  BY <1>1, <1>2 DEF Past, Working
<1>4. TypeInv' /\ WriterStep /\ Facts
  BY <1>1, <1>2, <1>3, RebuildMoves
<1>5. /\ files' = files /\ settled' = settled /\ entries' = entries /\ sources' = sources
      /\ classes' = classes /\ settled \subseteq Ids
      /\ UNCHANGED <<ledger, images, prints, kept>>
  BY <1>1 DEF tables, history, TypeInv, TypeOK
<1>6. ASSUME NEW e \in settled' PROVE Handled(e)'
  <2>1. e # rbd.id /\ Handled(e)
    BY <1>1, <1>5, <1>6, IndexAssumption DEF Rebuilding, IndexAssumption
  <2>2. files[e] \in Texts \ Invalid => RowFresh(e)
    BY <1>1, <1>3, <2>1 DEF Handled
  <2> QED
    BY <1>3, <1>5, <2>2 DEF Handled, RowFresh
<1>7. ASSUME NEW t \in kept' PROVE Copied(t)'
  BY <1>1, <1>2, <1>3, <1>5, <1>7 DEF Rebuilding, Copied, IsCopied
<1> QED
  BY <1>2, <1>3, <1>4, <1>6, <1>7 DEF RebuildAside, Rebuilding

LEMMA RebuildSteps ==
  ASSUME TypeInv, Rebuilding, Rebuilds
  PROVE  RebuildAside
BY StepRebuildStart, StepRebuildGlob, StepRebuildDone, StepRebuildCrash, StepRebuildImage,
   StepRebuildPrint, StepRebuildLoad, StepRebuildParse, StepRebuildInsert, StepRebuildLook,
   StepRebuildStub, StepRebuildClass, StepRebuildSeed
   DEF Rebuilds

-----------------------------------------------------------------------------
(* The whole *)

Inv == TypeInv /\ Watching /\ Rebuilding

LEMMA InvInit ==
  ASSUME Init
  PROVE  Inv
<1>1. rbd.pc = "idle" /\ vfy.pc = "idle"
  BY IdleFields DEF Init
<1>2. Watching
  BY <1>1 DEF Init, Watching, VerifyTells
<1>3. Rebuilding
  BY <1>1 DEF Rebuilding, Handled, Copied, Past, Working
<1> QED
  BY <1>2, <1>3, TypeInit DEF Inv

LEMMA InvNext ==
  ASSUME Inv, [Next]_vars
  PROVE  Inv' /\ (Facts \/ UNCHANGED vars)
<1>1. CASE Drives \/ Behind
  <2>1. Aside
    BY <1>1, AsideSteps DEF Inv
  <2> QED
    BY <2>1, WriterKeepsWatching, OutsideKeepsRebuilding DEF Inv, Aside, TypeInv
<1>2. CASE Verifies
  <2>1. VerifyAside
    BY <1>2, VerifySteps DEF Inv
  <2> QED
    BY <2>1, OutsideKeepsRebuilding DEF Inv, VerifyAside
<1>3. CASE Rebuilds
  <2>1. RebuildAside
    BY <1>3, RebuildSteps DEF Inv
  <2> QED
    BY <2>1, WriterKeepsWatching DEF Inv, RebuildAside, TypeInv
<1>4. CASE UNCHANGED vars
  <2>1. TypeInv'
    BY <1>4 DEF vars, tables, history, Inv, TypeInv, TypeOK, Control
  <2>2. WriterStep /\ OutsideStep
    BY <1>4, QuietForVerify, QuietForRebuild DEF vars, history, tables
  <2> QED
    BY <1>4, <2>1, <2>2, WriterKeepsWatching, OutsideKeepsRebuilding DEF Inv, TypeInv
<1> QED
  BY <1>1, <1>2, <1>3, <1>4 DEF Next

-----------------------------------------------------------------------------
\* Every variable keeps its type, and a classification is only ever seeded from a
\* text with a failure block.
THEOREM TypeCorrect == Spec => []TypeOK
<1>1. Inv => TypeOK
  BY DEF Inv, TypeInv
<1> QED
  BY <1>1, InvInit, InvNext, PTL DEF Spec

\* rebuild_index.py, when it ends, has refreshed every valid entry and every image
\* of the ledger that nobody else touched meanwhile, whoever wrote, crashed or
\* verified beside it and whatever the tables held.
THEOREM RebuildRefreshesHolds == Spec => []RebuildRefreshes
<1>1. Inv => RebuildRefreshes
  <2> SUFFICES ASSUME Inv, rbd.pc = "done" PROVE
        /\ \A e \in settled : files[e] \in Texts \ Invalid => RowFresh(e)
        /\ \A t \in kept \cap Registered(ledger) :
             /\ t \in images
             /\ \A p \in Platforms : ledger[t][p] # Absent => prints[t][p] = ledger[t][p]
    BY DEF RebuildRefreshes
  <2>1. rbd.id = None /\ settled \subseteq Ids /\ kept \subseteq Tags /\ ledger \in Ledgers
    BY DEF Inv, TypeInv, TypeOK, Rebuilding
  <2>2. rbd.todo = {}
    BY DEF Inv, Rebuilding
  <2>3. ASSUME NEW e \in settled, files[e] \in Texts \ Invalid PROVE RowFresh(e)
    BY <2>1, <2>2, <2>3, IndexAssumption DEF Inv, Rebuilding, Handled, IndexAssumption
  <2>4. ASSUME NEW t \in kept, NEW p \in Platforms, ledger[t][p] # Absent PROVE IsCopied(t, p)
    BY <2>4 DEF Inv, Rebuilding, Copied
  <2>5. ASSUME NEW t \in kept, t \in Registered(ledger) PROVE t \in images
    <3>1. PICK p \in Platforms : ledger[t][p] # Absent
      BY <2>1, <2>5 DEF Registered, Ledgers, NoPrints
    <3> QED
      BY <2>4, <3>1 DEF IsCopied
  <2> QED
    BY <2>3, <2>4, <2>5 DEF IsCopied
<1> QED
  BY <1>1, InvInit, InvNext, PTL DEF Spec

\* verify_index.py reports what is in drift all along and nothing if all agrees all
\* along, beside any number of writers.
THEOREM VerifyTellsHolds == Spec => []VerifyTells
<1>1. Inv => VerifyTells
  BY DEF Inv, Watching
<1> QED
  BY <1>1, InvInit, InvNext, PTL DEF Spec

\* No step takes away a commit date, and only a rebuild that was overtaken between
\* its look and its stub takes away the driver's ingestion source.
THEOREM DriverFactsKeptHolds == Spec => DriverFactsKept
<1>1. Inv /\ [Next]_vars => [Facts]_vars
  BY InvNext
<1> QED
  BY <1>1, InvInit, InvNext, PTL DEF Spec, DriverFactsKept, Facts
=============================================================================
