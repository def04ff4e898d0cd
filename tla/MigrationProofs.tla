--------------------------- MODULE MigrationProofs ---------------------------
(***************************************************************************)
(* Proofs about the import of the old platform's dumps, LegacyMigration,   *)
(* and about the topic packages with their importers, TopicPackages: for   *)
(* any schemas, codes, packages and rows, any number of runs, crashes and  *)
(* rollbacks.                                                              *)
(***************************************************************************)
EXTENDS LegacyMigration, TopicPackages, FiniteSetTheorems, TLAPS

-----------------------------------------------------------------------------
(* The accounts of an import: the inductive invariant                      *)

\* The object of a schema has its mapping and its canonical row.
Stored(s) == mapping[s][dump[s].row] # "none" /\ canonical[dump[s].row] = 1

\* The upserts leave one row per code at most.
OneRowEach == canonical \in [Refs -> {0, 1}]

\* A settled mapping is the only one of its object.
MappedIsAlone ==
    \A s \in Schemas : \A r, q \in Refs :
        mapping[s][r] = "mapped" /\ q # r => mapping[s][q] = "none"

\* The record that is due has its rows already.
DueIsStored ==
    run # None => /\ run.todo \subseteq Present
                  /\ run.due # None => /\ ~DryMode(run.mode) /\ run.due \in Present
                                       /\ dump[run.due].row = Bad \/ Stored(run.due)

\* A run without an error so far has what it went through: the rows, and the
\* records but for the one that is due.
DoneIsStored ==
    run # None /\ ~DryMode(run.mode) /\ ~run.errors =>
        \A s \in Present \ run.todo :
            /\ dump[s].row \in Refs /\ Stored(s)
            /\ s # run.due => record[s][dump[s].file] # "none"

ReceiptsAreWhole ==
    run # None /\ ~DryMode(run.mode) => \A s \in Present \ run.receipts : receipt[s] = "both"

\* The repeated import finds what the first one wrote.
RepeatFinds ==
    run # None /\ run.mode = "repeat_apply" =>
        \A s \in Present : /\ dump[s].row \in Refs /\ canonical[dump[s].row] = 1
                           /\ record[s][dump[s].file] # "none"

IInv ==
    /\ TypeOK /\ OneRowEach /\ MappedIsAlone /\ RecordFollowsRows
    /\ DueIsStored /\ DoneIsStored /\ ReceiptsAreWhole /\ RepeatFinds

-----------------------------------------------------------------------------
(* Types                                                                   *)

LEMMA DumpType ==
    ASSUME TypeOK, NEW s \in Schemas
    PROVE  /\ dump[s].row \in Refs \union {Bad} /\ dump[s].file \in 1 .. MaxFiles
           /\ dump[s].found \in Nat /\ dump[s].unknown \in BOOLEAN
  BY SMTT(30) DEF TypeOK, Dumps

LEMMA RunType ==
    ASSUME TypeOK, run # None
    PROVE  /\ run \in Runs /\ run.mode \in Modes /\ run.options \in Options
           /\ run.todo \in SUBSET Schemas /\ run.due \in Schemas \union {None}
           /\ run.receipts \in SUBSET Schemas /\ run.errors \in BOOLEAN
  BY DEF TypeOK, Runs

LEMMA RecordsCounted == Cardinality(Records) \in Nat
<1>1. IsFiniteSet(Schemas \X (1 .. MaxFiles))
  <2>1. IsFiniteSet(1 .. MaxFiles)
    BY FS_Interval, BoundsAssumption
  <2>. QED  BY <2>1, SchemasAssumption, FS_Product
<1>2. IsFiniteSet(Records)
  BY <1>1, FS_Subset DEF Records
<1>. QED  BY <1>2, FS_CardinalityType

\* A run that begins has everything before it.
LEMMA NewRunType ==
    ASSUME NEW mode \in Modes, NEW options \in Options
    PROVE  /\ NewRun(mode, options) \in Runs
           /\ NewRun(mode, options).mode = mode
           /\ NewRun(mode, options).todo = Present
           /\ NewRun(mode, options).due = None
           /\ ~DryMode(mode) => NewRun(mode, options).receipts = Present
  BY DEF NewRun, Runs, Present

-----------------------------------------------------------------------------
(* The steps                                                               *)

\* Two codes for one object conflict, both of them.
LEMMA UpsertedOK ==
    ASSUME IInv, NEW s \in Schemas, NEW r \in Refs
    PROVE  /\ Upserted(s, r) \in [Refs -> {"none", "mapped", "conflicted", "rolled_back"}]
           /\ Upserted(s, r)[r] # "none"
           /\ \A q \in Refs : mapping[s][q] # "none" => Upserted(s, r)[q] # "none"
           /\ \A p, q \in Refs : Upserted(s, r)[p] = "mapped" /\ q # p
                                 => Upserted(s, r)[q] = "none"
<1> DEFINE old == mapping[s]
           others == {q \in Refs \ {r} : old[q] # "none"}
<1>1. old \in [Refs -> {"none", "mapped", "conflicted", "rolled_back"}]
  BY DEF IInv, TypeOK
<1>2. \A p, q \in Refs : old[p] = "mapped" /\ q # p => old[q] = "none"
  BY DEF IInv, MappedIsAlone
<1>3. CASE others = {}
  <2>1. Upserted(s, r) = [old EXCEPT ![r] = "mapped"]
    BY <1>3 DEF Upserted
  <2>. QED  BY <1>1, <1>3, <2>1
<1>4. CASE others # {} /\ old[r] # "none"
  <2>1. Upserted(s, r) = [old EXCEPT ![r] = "conflicted"]
    BY <1>4 DEF Upserted
  <2>. QED  BY <1>1, <1>2, <1>4, <2>1
<1>5. CASE others # {} /\ old[r] = "none"
  <2>1. Upserted(s, r) = [q \in Refs |-> IF q \in others \union {r} THEN "conflicted" ELSE old[q]]
    BY <1>5 DEF Upserted
  <2>. QED  BY <1>1, <1>2, <1>5, <2>1
<1>. QED  BY <1>3, <1>4, <1>5

\* The rows of a dump are written.
LEMMA ImportRowsStep ==
    ASSUME IInv, NEW s \in Schemas, ImportRows(s)
    PROVE  IInv'
<1>1. /\ run # None /\ run.due = None /\ s \in run.todo /\ s \in Present
      /\ dump' = dump /\ schema' = schema /\ suspended' = suspended /\ receipt' = receipt
      /\ record' = record /\ verdict' = verdict /\ runs' = runs /\ faults' = faults
      /\ rollbacks' = rollbacks
  BY DEF ImportRows, IInv, DueIsStored
<1>2. run \in Runs
  BY <1>1, RunType DEF IInv
<1> DEFINE next == [run EXCEPT !.todo = @ \ {s},
                               !.due = IF DryMode(run.mode) THEN None ELSE s,
                               !.errors = @ \/ (dump[s].row = Bad /\ ~DryMode(run.mode))]
<1>3. run' = next
  BY DEF ImportRows
<1>4. /\ next.mode = run.mode /\ next.options = run.options /\ next.todo = run.todo \ {s}
      /\ next.due = IF DryMode(run.mode) THEN None ELSE s
      /\ next.receipts = run.receipts /\ next.counts = run.counts /\ next.records = run.records
  BY <1>2 DEF Runs
<1>5. next.errors = (run.errors \/ (dump[s].row = Bad /\ ~DryMode(run.mode)))
  BY <1>2 DEF Runs
<1>6. next \in Runs
  BY <1>2 DEF Runs
<1> HIDE DEF next
<1>7. /\ Present' = Present
      /\ DryMode(run.mode)' = DryMode(run.mode)
  BY <1>1, <1>3, <1>4 DEF Present, DryMode
<1>8. CASE DryMode(run.mode) \/ dump[s].row = Bad
  <2>1. canonical' = canonical /\ mapping' = mapping
    BY <1>8 DEF ImportRows
  <2>2. TypeOK' /\ OneRowEach' /\ MappedIsAlone' /\ RecordFollowsRows'
    BY <1>1, <1>3, <1>6, <2>1 DEF IInv, TypeOK, OneRowEach, MappedIsAlone, RecordFollowsRows
  <2>3. DueIsStored'
    BY <1>1, <1>3, <1>4, <1>7, <1>8 DEF IInv, DueIsStored
  <2>4. DoneIsStored'
    BY <1>1, <1>3, <1>4, <1>5, <1>7, <1>8 DEF DoneIsStored
  <2>5. ReceiptsAreWhole' /\ RepeatFinds'
    BY <1>1, <1>3, <1>4, <1>7, <2>1 DEF IInv, ReceiptsAreWhole, RepeatFinds
  <2>. QED  BY <2>2, <2>3, <2>4, <2>5 DEF IInv
<1>9. CASE ~DryMode(run.mode) /\ dump[s].row # Bad
  <2> DEFINE r == dump[s].row
  <2>1. r \in Refs
    BY <1>9, DumpType DEF IInv
  <2>2. /\ canonical' = [canonical EXCEPT ![r] = 1]
        /\ mapping' = [mapping EXCEPT ![s] = Upserted(s, r)]
    BY <1>9 DEF ImportRows, RowsOf
  <2>3. /\ canonical \in [Refs -> {0, 1}]
        /\ mapping \in [Schemas -> [Refs -> {"none", "mapped", "conflicted", "rolled_back"}]]
    BY DEF IInv, OneRowEach, TypeOK
  <2>4. /\ canonical' \in [Refs -> {0, 1}]
        /\ mapping' \in [Schemas -> [Refs -> {"none", "mapped", "conflicted", "rolled_back"}]]
    BY <2>1, <2>2, <2>3, UpsertedOK
  <2>5. /\ \A q \in Refs : canonical[q] = 1 => canonical'[q] = 1
        /\ \A t \in Schemas, q \in Refs : mapping[t][q] # "none" => mapping'[t][q] # "none"
        /\ canonical'[r] = 1 /\ mapping'[s][r] # "none"
    BY <2>1, <2>2, <2>3, UpsertedOK
  <2>6. TypeOK' /\ OneRowEach'
    <3>1. canonical' \in [Refs -> Nat]
      BY <2>4
    <3>. QED  BY <1>1, <1>3, <1>6, <2>4, <3>1 DEF IInv, TypeOK, OneRowEach
  <2>7. MappedIsAlone'
    BY <2>1, <2>2, <2>3, UpsertedOK DEF IInv, MappedIsAlone
  <2>8. RecordFollowsRows'
    BY <1>1, <2>3, <2>4, <2>5 DEF IInv, RecordFollowsRows
  <2>9. Stored(s)'
    BY <1>1, <2>5 DEF Stored
  <2>10. DueIsStored'
    BY <1>1, <1>3, <1>4, <1>7, <1>9, <2>9 DEF IInv, DueIsStored
  <2>11. DoneIsStored'
    <3> SUFFICES ASSUME ~run'.errors, NEW t \in Present, t \notin run'.todo
                 PROVE  /\ dump'[t].row \in Refs /\ Stored(t)'
                        /\ t # run'.due => record'[t][dump'[t].file] # "none"
      BY <1>7 DEF DoneIsStored
    <3>1. CASE t = s
      BY <1>1, <1>3, <1>4, <1>9, <2>1, <2>9, <3>1
    <3>2. CASE t # s
      <4>1. t \notin run.todo /\ ~run.errors /\ t # run.due /\ t \in Schemas
        BY <1>1, <1>3, <1>4, <1>5, <3>2, NamesAssumption DEF Present
      <4>2. dump[t].row \in Refs /\ Stored(t) /\ record[t][dump[t].file] # "none"
        BY <1>1, <1>9, <4>1 DEF IInv, DoneIsStored
      <4>. QED  BY <1>1, <2>5, <4>1, <4>2 DEF Stored
    <3>. QED  BY <3>1, <3>2
  <2>12. ReceiptsAreWhole' /\ RepeatFinds'
    BY <1>1, <1>3, <1>4, <1>7, <2>5 DEF IInv, ReceiptsAreWhole, RepeatFinds
  <2>. QED  BY <2>6, <2>7, <2>8, <2>10, <2>11, <2>12 DEF IInv
<1>. QED  BY <1>8, <1>9

\* A run that met an error and writes no row.
LEMMA RunStep ==
    ASSUME IInv, run # None, run' \in Runs, run'.mode = run.mode,
           run'.receipts = run.receipts, run'.todo \subseteq run.todo, run'.due = run.due,
           run'.errors,
           dump' = dump, schema' = schema, UNCHANGED tables,
           verdict' = verdict, runs' = runs, faults' \in 0 .. MaxFaults, rollbacks' = rollbacks
    PROVE  IInv'
<1>1. /\ canonical' = canonical /\ suspended' = suspended /\ mapping' = mapping
      /\ receipt' = receipt /\ record' = record
  BY DEF tables
<1>2. /\ Present' = Present
      /\ DryMode(run.mode)' = DryMode(run.mode)
  BY DEF Present, DryMode
<1>3. TypeOK' /\ OneRowEach' /\ MappedIsAlone' /\ RecordFollowsRows'
  BY <1>1 DEF IInv, TypeOK, OneRowEach, MappedIsAlone, RecordFollowsRows
<1>4. DueIsStored'
  BY <1>1, <1>2 DEF IInv, DueIsStored, Stored
<1>5. DoneIsStored'
  BY <1>1, <1>2 DEF IInv, DoneIsStored, Stored
<1>6. ReceiptsAreWhole' /\ RepeatFinds'
  BY <1>1, <1>2 DEF IInv, ReceiptsAreWhole, RepeatFinds
<1>. QED  BY <1>3, <1>4, <1>5, <1>6 DEF IInv

\* The import of a schema raises.
LEMMA ImportRaisesStep ==
    ASSUME IInv, NEW s \in Schemas, ImportRaises(s)
    PROVE  IInv'
<1>1. run \in Runs /\ run # None /\ faults \in 0 .. MaxFaults
  BY RunType DEF ImportRaises, IInv, TypeOK
<1>2. /\ run' \in Runs /\ run'.errors /\ run'.mode = run.mode /\ run'.receipts = run.receipts
      /\ run'.todo \subseteq run.todo /\ run'.due = run.due
  BY <1>1 DEF Runs, ImportRaises
<1>3. faults' \in 0 .. MaxFaults
  BY <1>1, BoundsAssumption DEF ImportRaises
<1>4. /\ dump' = dump /\ schema' = schema /\ UNCHANGED tables
      /\ verdict' = verdict /\ runs' = runs /\ rollbacks' = rollbacks
  BY DEF ImportRaises
<1>. QED  BY <1>1, <1>2, <1>3, <1>4, RunStep

\* The record of a schema is written when its rows are there.
LEMMA FinishRunStep ==
    ASSUME IInv, NEW s \in Schemas, finish_run(s)
    PROVE  IInv'
<1>1. /\ run # None /\ run.due = s /\ run.due # None /\ run \in Runs /\ s \in Present
      /\ ~DryMode(run.mode)
      /\ dump[s].row = Bad \/ Stored(s)
  BY RunType, NamesAssumption DEF finish_run, IInv, DueIsStored
<1> DEFINE f == dump[s].file
<1>2. f \in 1 .. MaxFiles /\ dump[s].row \in Refs \union {Bad}
  BY DumpType DEF IInv
<1>3. /\ record' = [record EXCEPT ![s][f] = RecordStatus(s)]
      /\ run' = [run EXCEPT !.due = None]
      /\ dump' = dump /\ schema' = schema /\ canonical' = canonical /\ suspended' = suspended
      /\ mapping' = mapping /\ receipt' = receipt /\ verdict' = verdict /\ runs' = runs
      /\ faults' = faults /\ rollbacks' = rollbacks
  BY DEF finish_run
<1>4. /\ run' \in Runs /\ run'.mode = run.mode /\ run'.todo = run.todo /\ run'.due = None
      /\ run'.receipts = run.receipts /\ run'.errors = run.errors
  BY <1>1, <1>3 DEF Runs
<1>5. record \in [Schemas -> [1 .. MaxFiles -> {"none", "succeeded", "partial_failure"}]]
  BY DEF IInv, TypeOK
<1>6. /\ RecordStatus(s) \in {"succeeded", "partial_failure"}
      /\ RecordStatus(s) = "succeeded" => dump[s].row # Bad
  BY DEF RecordStatus
<1>7. /\ record' \in [Schemas -> [1 .. MaxFiles -> {"none", "succeeded", "partial_failure"}]]
      /\ record'[s][f] = RecordStatus(s)
      /\ \A t \in Schemas, g \in 1 .. MaxFiles :
            <<t, g>> # <<s, f>> => record'[t][g] = record[t][g]
  BY <1>2, <1>3, <1>5, <1>6
<1> HIDE DEF f
<1>8. /\ Present' = Present
      /\ DryMode(run.mode)' = DryMode(run.mode)
  BY <1>3, <1>4 DEF Present, DryMode
<1>9. \A t \in Schemas, g \in 1 .. MaxFiles :
         record[t][g] # "none" => record'[t][g] # "none"
  BY <1>6, <1>7
<1>10. record'[s][dump[s].file] # "none"
  BY <1>6, <1>7 DEF f
<1>11. TypeOK' /\ OneRowEach' /\ MappedIsAlone'
  BY <1>3, <1>4, <1>7 DEF IInv, TypeOK, OneRowEach, MappedIsAlone
<1>12. RecordFollowsRows'
  <2> SUFFICES ASSUME NEW t \in Schemas, NEW g \in 1 .. MaxFiles, record'[t][g] = "succeeded"
               PROVE  \E r \in Refs : mapping[t][r] # "none" /\ canonical[r] > 0
    BY <1>3 DEF RecordFollowsRows
  <2>1. CASE <<t, g>> = <<s, f>>
    BY <1>1, <1>2, <1>6, <1>7, <2>1 DEF Stored
  <2>2. CASE <<t, g>> # <<s, f>>
    BY <1>7, <2>2 DEF IInv, RecordFollowsRows
  <2>. QED  BY <2>1, <2>2
<1>13. DueIsStored'
  BY <1>1, <1>3, <1>4, <1>8 DEF IInv, DueIsStored
<1>14. DoneIsStored'
  <2> SUFFICES ASSUME ~run.errors, NEW t \in Present, t \notin run.todo
               PROVE  dump[t].row \in Refs /\ Stored(t) /\ record'[t][dump[t].file] # "none"
    BY <1>3, <1>4, <1>8 DEF DoneIsStored, Stored
  <2>1. /\ dump[t].row \in Refs /\ Stored(t)
        /\ t # s => record[t][dump[t].file] # "none"
    BY <1>1 DEF IInv, DoneIsStored
  <2>2. t \in Schemas /\ dump[t].file \in 1 .. MaxFiles
    BY DumpType DEF IInv, Present
  <2>. QED  BY <1>9, <1>10, <2>1, <2>2
<1>15. ReceiptsAreWhole'
  BY <1>1, <1>3, <1>4, <1>8 DEF IInv, ReceiptsAreWhole
<1>16. RepeatFinds'
  <2>1. \A t \in Present : t \in Schemas /\ dump[t].file \in 1 .. MaxFiles
    BY DumpType DEF IInv, Present
  <2>. QED  BY <1>1, <1>3, <1>4, <1>8, <1>9, <2>1 DEF IInv, RepeatFinds
<1>. QED  BY <1>11, <1>12, <1>13, <1>14, <1>15, <1>16 DEF IInv

\* A receipt is a mapping first and an audit event then.
LEMMA WriteReceiptStep ==
    ASSUME IInv, NEW s \in Schemas, WriteReceipt(s)
    PROVE  IInv'
<1>1. /\ run # None /\ run \in Runs /\ s \in run.receipts
      /\ dump' = dump /\ schema' = schema /\ canonical' = canonical /\ suspended' = suspended
      /\ mapping' = mapping /\ record' = record /\ verdict' = verdict /\ runs' = runs
      /\ faults' = faults /\ rollbacks' = rollbacks
  BY RunType DEF WriteReceipt, IInv
<1>2. receipt \in [Schemas -> {"none", "mapping", "both"}]
  BY DEF IInv, TypeOK
<1> DEFINE Left == /\ run'.receipts = run.receipts \ {s} /\ receipt'[s] = "both"
                   /\ run' \in Runs /\ run'.mode = run.mode /\ run'.todo = run.todo
                   /\ run'.due = run.due /\ run'.errors = run.errors
<1>3. /\ receipt' \in [Schemas -> {"none", "mapping", "both"}]
      /\ \A t \in Schemas : t # s => receipt'[t] = receipt[t]
      /\ run' = run \/ Left
  <2>1. CASE receipt[s] = "none"
    <3>1. receipt' = [receipt EXCEPT ![s] = "mapping"] /\ run' = run
      BY <2>1 DEF WriteReceipt
    <3> HIDE DEF Left
    <3>. QED  BY <1>2, <3>1
  <2>2. CASE receipt[s] # "none"
    <3>1. receipt' = [receipt EXCEPT ![s] = "both"]
      BY <2>2 DEF WriteReceipt
    <3>2. run' = [run EXCEPT !.receipts = @ \ {s}]
      BY <2>2 DEF WriteReceipt
    <3>3. Left
      BY <1>1, <1>2, <3>1, <3>2 DEF Runs
    <3> HIDE DEF Left
    <3>. QED  BY <1>2, <3>1, <3>3
  <2>. QED  BY <2>1, <2>2
<1>4. /\ run' \in Runs /\ run'.mode = run.mode /\ run'.todo = run.todo /\ run'.due = run.due
      /\ run'.errors = run.errors
  BY <1>1, <1>3, Zenon
<1>10. \/ run'.receipts = run.receipts
       \/ receipt'[s] = "both" /\ run'.receipts = run.receipts \ {s}
  BY <1>3, Zenon
<1> HIDE DEF Left
<1>5. /\ Present' = Present
      /\ DryMode(run.mode)' = DryMode(run.mode)
  BY <1>1, <1>4 DEF Present, DryMode
<1>6. TypeOK'
  BY <1>1, <1>3, <1>4 DEF IInv, TypeOK
<1>9. OneRowEach' /\ MappedIsAlone' /\ RecordFollowsRows'
  BY <1>1 DEF IInv, OneRowEach, MappedIsAlone, RecordFollowsRows
<1>7. DueIsStored' /\ DoneIsStored' /\ RepeatFinds'
  BY <1>1, <1>4, <1>5 DEF IInv, DueIsStored, DoneIsStored, RepeatFinds, Stored
<1>8. ReceiptsAreWhole'
  BY <1>1, <1>3, <1>4, <1>5, <1>10 DEF IInv, ReceiptsAreWhole, Present
<1>. QED  BY <1>6, <1>7, <1>8, <1>9 DEF IInv

\* What opening the database leaves of the tables: what is there, or nothing.
LEMMA OpenedTables ==
    ASSUME IInv, NEW mode, NEW options, Opens(mode, options)
    PROVE  /\ schema' \in {"empty", "versioned", "legacy", "drifted"}
           /\ (UNCHANGED tables) \/ (~DryMode(mode) /\ options.reset /\ Fresh)
<1>1. CASE DryMode(mode)
  <2>1. schema' = schema /\ UNCHANGED tables
    BY <1>1 DEF Opens
  <2>2. schema' \in {"empty", "versioned", "legacy", "drifted"}
    BY <2>1 DEF IInv, TypeOK
  <2>. QED  BY <2>1, <2>2, Zenon
<1>2. CASE ~DryMode(mode) /\ options.reset
  BY <1>2 DEF Opens, reset_and_upgrade
<1>3. CASE ~DryMode(mode) /\ ~options.reset
  <2>1. ensure_runtime_schema
    BY <1>3 DEF Opens
  <2>2. schema' \in {"empty", "versioned", "legacy", "drifted"} /\ UNCHANGED tables
    BY <2>1 DEF ensure_runtime_schema
  <2>. QED  BY <2>2, Zenon
<1>. QED  BY <1>1, <1>2, <1>3

LEMMA KeptTables ==
    ASSUME IInv, UNCHANGED tables, dump' = dump
    PROVE  /\ canonical' \in [Refs -> Nat] /\ suspended' \subseteq Refs
           /\ mapping' \in [Schemas -> [Refs -> {"none", "mapped", "conflicted", "rolled_back"}]]
           /\ receipt' \in [Schemas -> {"none", "mapping", "both"}]
           /\ record' \in [Schemas -> [1 .. MaxFiles -> {"none", "succeeded", "partial_failure"}]]
           /\ OneRowEach' /\ MappedIsAlone' /\ RecordFollowsRows'
  BY DEF tables, IInv, TypeOK, OneRowEach, MappedIsAlone, RecordFollowsRows

LEMMA FreshTables ==
    ASSUME Fresh
    PROVE  /\ canonical' \in [Refs -> Nat] /\ suspended' \subseteq Refs
           /\ mapping' \in [Schemas -> [Refs -> {"none", "mapped", "conflicted", "rolled_back"}]]
           /\ receipt' \in [Schemas -> {"none", "mapping", "both"}]
           /\ record' \in [Schemas -> [1 .. MaxFiles -> {"none", "succeeded", "partial_failure"}]]
           /\ OneRowEach' /\ MappedIsAlone' /\ RecordFollowsRows'
<1>1. /\ \A r \in Refs : canonical'[r] = 0
      /\ canonical' \in [Refs -> {0, 1}] /\ canonical' \in [Refs -> Nat] /\ suspended' \subseteq Refs
  BY DEF Fresh
<1>2. /\ \A s \in Schemas, r \in Refs : mapping'[s][r] = "none"
      /\ mapping' \in [Schemas -> [Refs -> {"none", "mapped", "conflicted", "rolled_back"}]]
  BY DEF Fresh
<1>3. /\ \A s \in Schemas, f \in 1 .. MaxFiles : record'[s][f] = "none"
      /\ record' \in [Schemas -> [1 .. MaxFiles -> {"none", "succeeded", "partial_failure"}]]
  BY DEF Fresh
<1>4. receipt' \in [Schemas -> {"none", "mapping", "both"}]
  BY DEF Fresh
<1>5. OneRowEach' /\ MappedIsAlone' /\ RecordFollowsRows'
  BY <1>1, <1>2, <1>3 DEF OneRowEach, MappedIsAlone, RecordFollowsRows
<1>. QED  BY <1>1, <1>2, <1>3, <1>4, <1>5

\* A stage begins.
LEMMA StageBegins ==
    ASSUME IInv, NEW mode \in Modes, NEW options \in Options, Opens(mode, options),
           run' \in Runs, run'.mode = mode, run'.todo = Present, run'.due = None,
           ~DryMode(mode) => run'.receipts = Present,
           mode = "repeat_apply" =>
              /\ ~options.reset
              /\ \A s \in Present : /\ dump[s].row \in Refs /\ canonical[dump[s].row] = 1
                                    /\ record[s][dump[s].file] # "none",
           dump' = dump, verdict' \in Verdicts, runs' \in 0 .. MaxRuns,
           faults' = faults, rollbacks' = rollbacks
    PROVE  IInv'
<1>1. Present' = Present
  BY DEF Present
<1>2. /\ schema' \in {"empty", "versioned", "legacy", "drifted"}
      /\ (UNCHANGED tables) \/ (options.reset /\ Fresh)
  BY OpenedTables
<1>3. /\ canonical' \in [Refs -> Nat] /\ suspended' \subseteq Refs
      /\ mapping' \in [Schemas -> [Refs -> {"none", "mapped", "conflicted", "rolled_back"}]]
      /\ receipt' \in [Schemas -> {"none", "mapping", "both"}]
      /\ record' \in [Schemas -> [1 .. MaxFiles -> {"none", "succeeded", "partial_failure"}]]
      /\ OneRowEach' /\ MappedIsAlone' /\ RecordFollowsRows'
  BY <1>2, KeptTables, FreshTables
<1>4. TypeOK'
  BY <1>2, <1>3 DEF TypeOK, IInv
<1>5. DueIsStored' /\ DoneIsStored'
  BY <1>1 DEF DueIsStored, DoneIsStored
<1>6. ReceiptsAreWhole'
  BY <1>1 DEF ReceiptsAreWhole
<1>7. RepeatFinds'
  BY <1>1, <1>2 DEF RepeatFinds, tables
<1>. QED  BY <1>3, <1>4, <1>5, <1>6, <1>7 DEF IInv

\* Between two runs there is nothing to say of a run.
LEMMA NoRun ==
    ASSUME IInv, run' = None, dump' \in [Schemas -> Dumps], UNCHANGED tables, schema' = schema,
           verdict' \in Verdicts, runs' \in 0 .. MaxRuns, faults' \in 0 .. MaxFaults,
           rollbacks' = rollbacks
    PROVE  IInv'
<1>1. TypeOK' /\ OneRowEach' /\ MappedIsAlone' /\ RecordFollowsRows'
  BY DEF tables, IInv, TypeOK, OneRowEach, MappedIsAlone, RecordFollowsRows
<1>2. DueIsStored' /\ DoneIsStored' /\ ReceiptsAreWhole' /\ RepeatFinds'
  BY DEF DueIsStored, DoneIsStored, ReceiptsAreWhole, RepeatFinds
<1>. QED  BY <1>1, <1>2 DEF IInv

LEMMA StartStep ==
    ASSUME IInv, NEW mode \in {"single", "dry", "dry_run"}, NEW options \in Options,
           Start(mode, options)
    PROVE  IInv'
<1>1. /\ run = None /\ runs' \in 0 .. MaxRuns /\ dump' = dump
      /\ faults' = faults /\ rollbacks' = rollbacks
  BY BoundsAssumption DEF Start, IInv, TypeOK
<1>2. CASE Refuses(options)
  <2>1. dump' \in [Schemas -> Dumps] /\ faults' \in 0 .. MaxFaults
    BY <1>1 DEF IInv, TypeOK
  <2>. QED  BY <1>1, <1>2, <2>1, NoRun DEF Start, Verdicts
<1>3. CASE ~Refuses(options)
  <2>1. /\ Opens(mode, options) /\ run' = NewRun(mode, options) /\ verdict' \in Verdicts
    BY <1>3 DEF Start, Verdicts
  <2>2. mode \in Modes /\ mode # "repeat_apply"
    BY DEF Modes
  <2>. QED  BY <1>1, <2>1, <2>2, NewRunType, StageBegins
<1>. QED  BY <1>2, <1>3

\* A stage without an error is complete.
LEMMA StageComplete ==
    ASSUME IInv, run # None, run.todo = {}, run.due = None, run.receipts = {}, ~HasErrors,
           ~DryMode(run.mode)
    PROVE  \A s \in Present :
              /\ s \in Schemas /\ dump[s].row \in Refs /\ Stored(s) /\ ~dump[s].unknown
              /\ receipt[s] = "both" /\ record[s][dump[s].file] # "none"
<1>1. ~run.errors /\ \A s \in Present : ~dump[s].unknown
  BY DEF HasErrors
<1>2. \A s \in Present : s \in Schemas /\ s # None
  BY NamesAssumption DEF Present
<1>. QED  BY <1>1, <1>2 DEF IInv, DoneIsStored, ReceiptsAreWhole

LEMMA EndStageStep ==
    ASSUME IInv, EndStage
    PROVE  IInv'
<1> DEFINE next == CASE run.mode = "dry_run" -> "apply"
                     [] run.mode = "apply" -> "repeat_apply"
                     [] OTHER -> "none"
           options == [run.options EXCEPT !.reset = @ /\ next = "apply"]
<1>1. /\ run # None /\ run.todo = {} /\ run.due = None /\ run.receipts = {} /\ dump' = dump
      /\ runs' = runs /\ faults' = faults /\ rollbacks' = rollbacks
  BY DEF EndStage
<1>2. /\ run.options \in Options /\ run.mode \in Modes
      /\ runs' \in 0 .. MaxRuns /\ faults' \in 0 .. MaxFaults /\ verdict \in Verdicts
      /\ dump' \in [Schemas -> Dumps]
  BY <1>1, RunType DEF IInv, TypeOK
<1>3. CASE HasErrors \/ next = "none"
  <2>1. run' = None /\ UNCHANGED tables /\ schema' = schema /\ verdict' \in Verdicts
    BY <1>3 DEF EndStage, Verdicts
  <2>. QED  BY <1>1, <1>2, <2>1, NoRun
<1>4. CASE ~HasErrors /\ next # "none"
  <2> DEFINE begun == NewRun(next, options)
  <2>1. /\ next \in {"apply", "repeat_apply"}
        /\ next = "apply" => run.mode = "dry_run"
        /\ next = "repeat_apply" => run.mode = "apply"
    BY <1>4
  <2>2. options \in Options /\ options.reset = (run.options.reset /\ next = "apply")
    BY <1>2 DEF Options
  <2>3. /\ Opens(next, options) /\ verdict' = verdict
        /\ run' = [begun EXCEPT !.counts = canonical, !.records = Cardinality(Records)]
    BY <1>4 DEF EndStage
  <2> HIDE DEF next, options
  <2>4. next \in Modes /\ ~DryMode(next)
    BY <2>1 DEF Modes, DryMode
  <2>5. /\ begun \in Runs /\ begun.mode = next /\ begun.todo = Present
        /\ begun.due = None /\ begun.receipts = Present
    BY <2>2, <2>4, NewRunType
  <2> HIDE DEF begun
  <2>6. canonical \in [Refs -> Nat] /\ Cardinality(Records) \in Nat
    BY RecordsCounted DEF IInv, TypeOK
  <2>7. /\ run' \in Runs /\ run'.mode = next /\ run'.todo = Present
        /\ run'.due = None /\ run'.receipts = Present
    BY <2>3, <2>5, <2>6 DEF Runs
  <2>8. next = "repeat_apply" =>
           /\ ~options.reset
           /\ \A s \in Present : /\ dump[s].row \in Refs /\ canonical[dump[s].row] = 1
                                 /\ record[s][dump[s].file] # "none"
    <3> SUFFICES ASSUME next = "repeat_apply"
                 PROVE  /\ ~options.reset
                        /\ \A s \in Present : /\ dump[s].row \in Refs /\ canonical[dump[s].row] = 1
                                              /\ record[s][dump[s].file] # "none"
      OBVIOUS
    <3>1. ~options.reset /\ ~DryMode(run.mode)
      BY <2>1, <2>2 DEF DryMode
    <3>. QED  BY <1>1, <1>4, <3>1, StageComplete DEF Stored
  <2>. QED  BY <1>1, <1>2, <2>2, <2>3, <2>4, <2>7, <2>8, StageBegins
<1>. QED  BY <1>3, <1>4

\* A rollback marks the mappings there are and makes none.
LEMMA RollbackStep ==
    ASSUME IInv, NEW s \in Schemas, NEW also \in BOOLEAN, rollback(s, also)
    PROVE  IInv'
<1> DEFINE marked == [r \in Refs |-> IF mapping[s][r] # "none" THEN "rolled_back" ELSE "none"]
<1>1. /\ dump' = dump /\ schema' = schema /\ canonical' = canonical /\ receipt' = receipt
      /\ record' = record /\ run' = run /\ verdict' = verdict /\ runs' = runs /\ faults' = faults
  BY DEF rollback
<1>2. rollbacks' \in 0 .. MaxRollbacks /\ suspended' \subseteq Refs
  BY BoundsAssumption DEF rollback, IInv, TypeOK
<1>3. mapping' = [mapping EXCEPT ![s] = marked]
  BY DEF rollback
<1>4. mapping \in [Schemas -> [Refs -> {"none", "mapped", "conflicted", "rolled_back"}]]
  BY DEF IInv, TypeOK
<1>5. /\ mapping' \in [Schemas -> [Refs -> {"none", "mapped", "conflicted", "rolled_back"}]]
      /\ \A t \in Schemas, r \in Refs : /\ mapping'[t][r] = "none" <=> mapping[t][r] = "none"
                                        /\ mapping'[t][r] = "mapped" => mapping[t][r] = "mapped"
  BY <1>3, <1>4
<1>6. TypeOK' /\ OneRowEach'
  BY <1>1, <1>2, <1>5 DEF IInv, TypeOK, OneRowEach
<1>7. MappedIsAlone'
  BY <1>5 DEF IInv, MappedIsAlone
<1>8. RecordFollowsRows'
  BY <1>1, <1>5 DEF IInv, RecordFollowsRows
<1>9. Present' = Present /\ \A t \in Schemas : dump[t].row \in Refs => (Stored(t)' <=> Stored(t))
  BY <1>1, <1>5 DEF Present, Stored
<1>10. DueIsStored'
  <2>1. run # None => run.due \in Schemas \union {None}
    BY RunType DEF IInv
  <2>2. \A t \in Schemas : dump[t].row \in Refs \union {Bad}
    BY DumpType DEF IInv
  <2>. QED  BY <1>1, <1>9, <2>1, <2>2 DEF IInv, DueIsStored
<1>11. DoneIsStored'
  BY <1>1, <1>9 DEF IInv, DoneIsStored, Present
<1>12. ReceiptsAreWhole' /\ RepeatFinds'
  BY <1>1, <1>9 DEF IInv, ReceiptsAreWhole, RepeatFinds
<1>. QED  BY <1>6, <1>7, <1>8, <1>10, <1>11, <1>12 DEF IInv

-----------------------------------------------------------------------------
(* The theorems about the import                                           *)

\* The invariant holds through runs, crashes, new dumps and rollbacks.
THEOREM MigrationInvariance == Spec => []IInv
<1>1. Init => IInv
  <2>1. ASSUME Init PROVE IInv
    <3>1. TypeOK
      BY <2>1, BoundsAssumption DEF Init, TypeOK, Verdicts
    <3>2. OneRowEach /\ MappedIsAlone /\ RecordFollowsRows
      BY <2>1 DEF Init, OneRowEach, MappedIsAlone, RecordFollowsRows
    <3>3. DueIsStored /\ DoneIsStored /\ ReceiptsAreWhole /\ RepeatFinds
      BY <2>1 DEF Init, DueIsStored, DoneIsStored, ReceiptsAreWhole, RepeatFinds
    <3>. QED  BY <3>1, <3>2, <3>3 DEF IInv
  <2>. QED  BY <2>1
<1>2. IInv /\ [Next]_vars => IInv'
  <2> SUFFICES ASSUME IInv, [Next]_vars PROVE IInv'
    OBVIOUS
  <2>1. ASSUME NEW s \in Schemas, NEW d \in Dumps, Deliver(s, d) PROVE IInv'
    <3>1. dump' \in [Schemas -> Dumps] /\ run' = None
      BY <2>1 DEF Deliver, IInv, TypeOK
    <3>. QED  BY <2>1, <3>1, NoRun DEF Deliver, IInv, TypeOK
  <2>2. ASSUME NEW mode \in {"single", "dry", "dry_run"}, NEW o \in Options, Start(mode, o)
        PROVE  IInv'
    BY <2>2, StartStep
  <2>3. ASSUME NEW s \in Schemas,
               ImportRows(s) \/ ImportRaises(s) \/ finish_run(s) \/ WriteReceipt(s)
        PROVE  IInv'
    BY <2>3, ImportRowsStep, ImportRaisesStep, FinishRunStep, WriteReceiptStep
  <2>4. CASE EndStage
    BY <2>4, EndStageStep
  <2>5. CASE Crash
    <3>1. faults' \in 0 .. MaxFaults /\ dump' \in [Schemas -> Dumps]
      BY <2>5, BoundsAssumption DEF Crash, IInv, TypeOK
    <3>. QED  BY <2>5, <3>1, NoRun DEF Crash, IInv, TypeOK
  <2>6. ASSUME NEW s \in Schemas, NEW also \in BOOLEAN, rollback(s, also) PROVE IInv'
    BY <2>6, RollbackStep
  <2>7. CASE UNCHANGED vars
    <3>1. /\ dump' = dump /\ schema' = schema /\ UNCHANGED tables /\ run' = run
          /\ verdict' = verdict /\ runs' = runs /\ faults' = faults /\ rollbacks' = rollbacks
      BY <2>7 DEF vars
    <3>2. Present' = Present
      BY <3>1 DEF Present
    <3>3. TypeOK' /\ OneRowEach' /\ MappedIsAlone' /\ RecordFollowsRows'
      BY <3>1 DEF tables, IInv, TypeOK, OneRowEach, MappedIsAlone, RecordFollowsRows
    <3>4. DueIsStored' /\ DoneIsStored' /\ ReceiptsAreWhole' /\ RepeatFinds'
      BY <3>1, <3>2 DEF tables, IInv, DueIsStored, DoneIsStored, ReceiptsAreWhole, RepeatFinds,
                        Stored
    <3>. QED  BY <3>3, <3>4 DEF IInv
  <2>8. AcceptanceOptions \subseteq Options
    BY DEF AcceptanceOptions
  <2>. QED  BY <2>1, <2>2, <2>3, <2>4, <2>5, <2>6, <2>7, <2>8 DEF Next
<1>. QED  BY <1>1, <1>2, PTL DEF Spec

\* The tables, the run under way and the counters keep their types.
THEOREM MigrationTypeCorrect == Spec => []TypeOK
<1>1. IInv => TypeOK
  BY DEF IInv
<1>. QED  BY <1>1, MigrationInvariance, PTL

\* An object that was mapped to two codes is mapped to neither, whatever dumps and
\* rollbacks follow (upsert_legacy_mapping_in_session).
THEOREM ConflictsStay == Spec => []AmbiguousNeverMapped
<1>1. ASSUME IInv, NEW s \in Schemas, NEW r \in Refs, mapping[s][r] = "mapped"
      PROVE  ~(Cardinality({q \in Refs : mapping[s][q] # "none"}) > 1)
  <2>1. {q \in Refs : mapping[s][q] # "none"} = {r}
    BY <1>1 DEF IInv, MappedIsAlone
  <2>2. Cardinality({r}) = 1
    BY FS_Singleton
  <2>. QED  BY <2>1, <2>2
<1>2. IInv => AmbiguousNeverMapped
  BY <1>1 DEF AmbiguousNeverMapped
<1>. QED  BY <1>2, MigrationInvariance, PTL

\* A step that ends a run with success has all the run should have written.
LEMMA SuccessStep ==
    ASSUME IInv, [Next]_vars, verdict # "succeeded", verdict' = "succeeded", ~DryMode(run.mode)
    PROVE  \A s \in Present :
              /\ dump[s].row \in Refs
              /\ mapping'[s][dump[s].row] # "none"
              /\ canonical'[dump[s].row] > 0
              /\ receipt'[s] = "both"
              /\ ~dump[s].unknown
<1>1. EndStage
  BY DEF Next, vars, Deliver, Start, ImportRows, ImportRaises, finish_run, WriteReceipt, Crash,
         rollback
<1>2. ~HasErrors /\ UNCHANGED tables
  BY <1>1 DEF EndStage
<1>3. run # None /\ run.todo = {} /\ run.due = None /\ run.receipts = {}
  BY <1>1 DEF EndStage
<1>. QED  BY <1>2, <1>3, StageComplete DEF tables, Stored

\* A step of the repeated import writes what is there.
LEMMA RepeatStep ==
    ASSUME IInv, [Next]_vars, run # None, run.mode = "repeat_apply"
    PROVE  canonical' = canonical /\ Records' = Records
<1>1. CASE canonical' = canonical /\ record' = record
  BY <1>1 DEF Records
<1>2. ASSUME NEW s \in Schemas, ImportRows(s) PROVE canonical' = canonical /\ record' = record
  <2>1. s \in Present /\ canonical \in [Refs -> {0, 1}]
    BY <1>2 DEF ImportRows, IInv, DueIsStored, OneRowEach
  <2>2. dump[s].row \in Refs /\ canonical[dump[s].row] = 1
    BY <2>1 DEF IInv, RepeatFinds
  <2>. QED  BY <1>2, <2>1, <2>2 DEF ImportRows, RowsOf
<1>3. ASSUME NEW s \in Schemas, finish_run(s) PROVE canonical' = canonical /\ Records' = Records
  <2> DEFINE f == dump[s].file
  <2>1. s \in Present /\ f \in 1 .. MaxFiles
    BY <1>3, DumpType, NamesAssumption DEF finish_run, IInv, DueIsStored
  <2>2. record[s][f] # "none"
    BY <2>1 DEF IInv, RepeatFinds
  <2>3. /\ record' = [record EXCEPT ![s][f] = RecordStatus(s)] /\ RecordStatus(s) # "none"
        /\ canonical' = canonical
    BY <1>3 DEF finish_run, RecordStatus
  <2>4. record \in [Schemas -> [1 .. MaxFiles -> {"none", "succeeded", "partial_failure"}]]
    BY DEF IInv, TypeOK
  <2>5. \A t \in Schemas, g \in 1 .. MaxFiles : record'[t][g] # "none" <=> record[t][g] # "none"
    BY <2>1, <2>2, <2>3, <2>4
  <2>. QED  BY <2>3, <2>5 DEF Records
<1>4. CASE EndStage
  <2>1. UNCHANGED tables
    BY <1>4 DEF EndStage
  <2>. QED  BY <1>1, <2>1 DEF tables
<1>5. ASSUME NEW s \in Schemas, ImportRaises(s) \/ WriteReceipt(s)
      PROVE  canonical' = canonical /\ record' = record
  BY <1>5 DEF ImportRaises, WriteReceipt, tables
<1>6. ASSUME NEW s \in Schemas, NEW also \in BOOLEAN, rollback(s, also)
      PROVE  canonical' = canonical /\ record' = record
  BY <1>6 DEF rollback
<1>7. CASE Crash \/ UNCHANGED vars
  <2>1. UNCHANGED tables
    BY <1>7 DEF Crash, vars
  <2>. QED  BY <1>1, <2>1 DEF tables
<1>. QED
  BY <1>1, <1>2, <1>3, <1>4, <1>5, <1>6, <1>7 DEF Next, Deliver, Start

\* The account of an import is true: a succeeded record has its rows, a succeeded
\* run has all of them, and a repeated one adds nothing, for any schemas, codes,
\* runs, faults and rollbacks (migration_batch.py, verification.py).
THEOREM AccountsHold == Spec => AccountsAreTrue
<1>1. IInv => RecordFollowsRows
  BY DEF IInv
<1>2. ASSUME IInv, [Next]_vars
      PROVE  /\ verdict # "succeeded" /\ verdict' = "succeeded" /\ ~DryMode(run.mode) =>
                  \A s \in Present :
                      /\ dump[s].row \in Refs
                      /\ mapping'[s][dump[s].row] # "none"
                      /\ canonical'[dump[s].row] > 0
                      /\ receipt'[s] = "both"
                      /\ ~dump[s].unknown
             /\ run # None /\ run.mode = "repeat_apply" =>
                  canonical' = canonical /\ Records' = Records
  BY <1>2, SuccessStep, RepeatStep
<1>. QED
  BY <1>1, <1>2, MigrationInvariance, PTL
     DEF Spec, AccountsAreTrue, SucceededIsComplete, RepeatAddsNothing

-----------------------------------------------------------------------------
(* Topic packages: the inductive invariant                                 *)

\* The statuses a package may have, and those it may be moved to.
LifeStatuses == DOMAIN TRANSITIONS
MovedTo == {"submitted", "published", "rejected"}
PolicyStatuses == {"approved", "pending_review"}
ReviewActions == {"create", "configure", "submit", "review", "publish", "legacy_import"}
Reviews == [action : ReviewActions, from : LifeStatuses \union {NoPackage}, to : LifeStatuses]
ImportSteps == {"create", "configure", "wipe", "file", "feedback", "walk", "done"}

TopicTypeOK ==
    /\ pstatus \in [Packages -> LifeStatuses \union {NoPackage}]
    /\ pitems \in [Packages -> SUBSET Catalogs]
    /\ pvisible \in [Packages -> [VisibilityCodes -> PolicyStatuses \union {NoPackage}]]
    /\ ptrail \in [Packages -> Seq(Reviews)]
    /\ pevidence \in [Packages -> [EvidenceKinds -> Nat]]
    /\ alone \in BOOLEAN
    /\ importing = NoImport \/ importing \in [row : PackageRows, step : ImportSteps, left : Nat]

\* What leads to a publication.
PublishedFrom(moves, i) ==
    \/ moves[i].from = "submitted"
    \/ moves[i].from = "offline_pending" /\ MadeAs(moves, i - 1, "offline_pending")

\* Each review row begins where the one before it ended, and a package waits to
\* go offline since its creation or not at all.
Linked(moves) ==
    /\ \A i \in 2 .. Len(moves) :
          \/ moves[i].action = "create"
          \/ moves[i].from = moves[i - 1].to
          \/ moves[i].action = "configure" /\ moves[i - 1].to = "draft"
    /\ \A i \in 1 .. Len(moves) :
          moves[i].to = "published" /\ moves[i].action \notin {"create", "configure"}
              => PublishedFrom(moves, i)
    /\ \A i \in 1 .. Len(moves) :
          moves[i].to = "offline_pending" => MadeAs(moves, i, "offline_pending")

TrailsLinked ==
    \A p \in Packages :
        /\ Linked(ptrail[p])
        /\ PackageExists(p) => /\ Len(ptrail[p]) > 0
                               /\ ptrail[p][Len(ptrail[p])].to = pstatus[p]

\* Only examples get past their configuration, and a walk has its path.
StepsOfKind ==
    /\ importing.step \in {"wipe", "file", "feedback", "walk"}
          => importing.row.kind = "data_example"
    /\ importing.step = "walk"
          => importing.left <= Len(path_for_target(importing.row.status))

\* How far an import that nobody disturbed has come with its package.
Progress(p, r, step, left) ==
    LET path == path_for_target(r.status) IN
    /\ step = "configure" => pstatus[p] = "draft"
    /\ step \in {"wipe", "file", "feedback"} => pstatus[p] = "configuring"
    /\ step \in {"wipe", "file", "feedback", "walk"} =>
          r.items \subseteq pitems[p] /\ pvisible[p]["default"] = "approved"
    /\ step = "file" => pevidence[p]["file"] + left = r.files /\ pevidence[p]["feedback"] = 0
    /\ step = "feedback" => /\ pevidence[p]["file"] = r.files
                            /\ pevidence[p]["feedback"] + left = r.feedbacks
    /\ step = "walk" =>
          /\ pevidence[p]["file"] = r.files /\ pevidence[p]["feedback"] = r.feedbacks
          /\ r.items # {} /\ left <= Len(path)
          /\ pstatus[p] = IF left = Len(path) THEN "configuring" ELSE path[Len(path) - left]
    /\ step = "done" =>
          LET walked == r.kind = "data_example" /\ r.items # {} /\ path # << >>
          IN /\ r.items \subseteq pitems[p]
             /\ pstatus[p] = IF walked THEN path[Len(path)] ELSE "configuring"
             /\ r.kind = "data_example" =>
                   /\ pevidence[p]["file"] = r.files
                   /\ pevidence[p]["feedback"] = r.feedbacks

ImportProgress ==
    importing # NoImport /\ alone =>
        Progress(importing.row.package, importing.row, importing.step, importing.left)

TopicInv == TopicTypeOK /\ TrailsLinked /\ StepsOfKind /\ ImportProgress

-----------------------------------------------------------------------------
(* The repository of packages                                              *)

\* A longer trail says the same of the rows it had.
LEMMA MadeAsKept ==
    ASSUME NEW moves \in Seq(Reviews), NEW m \in Reviews, NEW i \in 1 .. Len(moves), NEW status
    PROVE  MadeAs(Append(moves, m), i, status) <=> MadeAs(moves, i, status)
<1> DEFINE longer == Append(moves, m)
<1>1. \A k \in 1 .. Len(moves) : longer[k] = moves[k]
  OBVIOUS
<1>2. Len(moves) \in Nat
  OBVIOUS
<1> HIDE DEF longer
<1>3. \A j \in 1 .. i : longer[j] = moves[j] /\ \A k \in (j + 1) .. i : longer[k] = moves[k]
  BY <1>1, <1>2
<1>4. MadeAs(longer, i, status) <=> MadeAs(moves, i, status)
  BY <1>3 DEF MadeAs
<1>. QED  BY <1>4 DEF longer

\* A review row that begins where the last one ended.
LEMMA TrailGrows ==
    ASSUME NEW moves \in Seq(Reviews), NEW m \in Reviews, Linked(moves),
           \/ m.action = "create"
           \/ /\ Len(moves) > 0
              /\ \/ m.from = moves[Len(moves)].to
                 \/ m.action = "configure" /\ moves[Len(moves)].to = "draft",
           m.to = "published" /\ m.action \notin {"create", "configure"}
              => m.from \in {"submitted", "offline_pending"},
           m.to = "offline_pending" =>
              \/ m.action = "create"
              \/ /\ m.action = "configure" /\ Len(moves) > 0
                 /\ moves[Len(moves)].to = "offline_pending"
    PROVE  /\ Append(moves, m) \in Seq(Reviews) /\ Linked(Append(moves, m))
           /\ Len(Append(moves, m)) = Len(moves) + 1
           /\ Append(moves, m)[Len(moves) + 1] = m
<1> DEFINE longer == Append(moves, m)
<1>1. /\ longer \in Seq(Reviews) /\ Len(longer) = Len(moves) + 1 /\ Len(moves) \in Nat
      /\ longer[Len(moves) + 1] = m
      /\ \A i \in 1 .. Len(moves) : longer[i] = moves[i]
  OBVIOUS
<1> HIDE DEF longer
<1>2. \A i \in 1 .. Len(longer) : i \in 1 .. Len(moves) \/ i = Len(moves) + 1
  BY <1>1
<1>a. \A i \in 1 .. Len(moves) : \A status :
         MadeAs(longer, i, status) <=> MadeAs(moves, i, status)
  BY MadeAsKept DEF longer
<1>3. ASSUME NEW i \in 1 .. Len(longer),
             longer[i].to = "published", longer[i].action \notin {"create", "configure"}
      PROVE  PublishedFrom(longer, i)
  <2>1. CASE i \in 1 .. Len(moves)
    <3>1. longer[i] = moves[i] /\ PublishedFrom(moves, i)
      BY <1>1, <1>3, <2>1 DEF Linked
    <3>2. CASE moves[i].from = "submitted"
      BY <3>1, <3>2 DEF PublishedFrom
    <3>3. CASE moves[i].from = "offline_pending" /\ MadeAs(moves, i - 1, "offline_pending")
      <4>1. i - 1 \in 1 .. Len(moves)
        BY <1>1, <2>1, <3>3 DEF MadeAs
      <4>. QED  BY <1>a, <3>1, <3>3, <4>1 DEF PublishedFrom
    <3>. QED  BY <3>1, <3>2, <3>3 DEF PublishedFrom
  <2>2. CASE i = Len(moves) + 1
    <3>1. longer[i] = m /\ m.from \in {"submitted", "offline_pending"} /\ i - 1 = Len(moves)
          /\ m.action # "create" /\ m.action # "configure"
      BY <1>1, <1>3, <2>2
    <3>2. ASSUME m.from = "offline_pending"
          PROVE  MadeAs(longer, i - 1, "offline_pending")
      <4>1. Len(moves) \in 1 .. Len(moves) /\ moves[Len(moves)].to = "offline_pending"
        BY <1>1, <3>1, <3>2
      <4>2. MadeAs(moves, Len(moves), "offline_pending")
        BY <4>1 DEF Linked
      <4>. QED  BY <1>a, <3>1, <4>1, <4>2
    <3>. QED  BY <3>1, <3>2 DEF PublishedFrom
  <2>. QED  BY <1>2, <2>1, <2>2
<1>b. ASSUME NEW i \in 1 .. Len(longer), longer[i].to = "offline_pending"
      PROVE  MadeAs(longer, i, "offline_pending")
  <2>1. CASE i \in 1 .. Len(moves)
    BY <1>1, <1>a, <1>b, <2>1 DEF Linked
  <2>2. CASE i = Len(moves) + 1 /\ m.action = "create"
    BY <1>1, <1>b, <2>2 DEF MadeAs
  <2>3. CASE i = Len(moves) + 1 /\ m.action # "create"
    <3>1. longer[i] = m /\ m.action = "configure"
      BY <1>1, <1>b, <2>3
    <3>2. Len(moves) \in 1 .. Len(moves) /\ moves[Len(moves)].to = "offline_pending"
      BY <1>1, <1>b, <2>3, <3>1
    <3>3. PICK j \in 1 .. Len(moves) :
              /\ longer[j].action = "create" /\ longer[j].to = "offline_pending"
              /\ \A k \in (j + 1) .. Len(moves) : longer[k].action = "configure"
      <4>1. MadeAs(moves, Len(moves), "offline_pending")
        BY <3>2 DEF Linked
      <4>2. MadeAs(longer, Len(moves), "offline_pending")
        BY <1>a, <3>2, <4>1
      <4>. QED  BY <4>2 DEF MadeAs
    <3>4. j \in 1 .. i /\ \A k \in (j + 1) .. i : k \in (j + 1) .. Len(moves) \/ k = i
      BY <1>1, <2>3
    <3>5. \A k \in (j + 1) .. i : longer[k].action = "configure"
      BY <3>1, <3>3, <3>4
    <3>. QED  BY <3>3, <3>4, <3>5 DEF MadeAs
  <2>. QED  BY <1>2, <2>1, <2>2, <2>3
<1>4. ASSUME NEW i \in 2 .. Len(longer)
      PROVE  \/ longer[i].action = "create"
             \/ longer[i].from = longer[i - 1].to
             \/ longer[i].action = "configure" /\ longer[i - 1].to = "draft"
  <2>1. CASE i = Len(moves) + 1
    <3>1. longer[i] = m /\ longer[i - 1] = moves[Len(moves)]
      BY <1>1, <2>1
    <3>. QED  BY <3>1, <2>1, <1>1
  <2>2. CASE i \in 2 .. Len(moves)
    <3>1. longer[i] = moves[i] /\ longer[i - 1] = moves[i - 1]
      BY <1>1, <2>2
    <3>. QED  BY <2>2, <3>1 DEF Linked
  <2>. QED  BY <1>1, <2>1, <2>2
<1>5. Linked(longer)
  BY <1>3, <1>4, <1>b DEF Linked
<1>. QED  BY <1>1, <1>5 DEF longer

\* A status is written together with its review row.
LEMMA StatusStep ==
    ASSUME TopicInv, NEW p \in Packages, NEW action \in ReviewActions,
           NEW from \in LifeStatuses \union {NoPackage}, NEW to \in LifeStatuses,
           AddReview(p, action, from, to), pstatus' = [pstatus EXCEPT ![p] = to],
           \/ action = "create"
           \/ /\ PackageExists(p)
              /\ from = pstatus[p] \/ (action = "configure" /\ pstatus[p] = "draft"),
           to = "published" /\ action \notin {"create", "configure"}
              => from \in {"submitted", "offline_pending"},
           to = "offline_pending" => \/ action = "create"
                                     \/ action = "configure" /\ pstatus[p] = "offline_pending"
    PROVE  /\ pstatus' \in [Packages -> LifeStatuses \union {NoPackage}]
           /\ ptrail' \in [Packages -> Seq(Reviews)]
           /\ TrailsLinked'
           /\ pstatus'[p] = to /\ \A q \in Packages : q # p => pstatus'[q] = pstatus[q]
<1> DEFINE moves == ptrail[p]
           m == [action |-> action, from |-> from, to |-> to]
<1>1. /\ pstatus \in [Packages -> LifeStatuses \union {NoPackage}]
      /\ ptrail \in [Packages -> Seq(Reviews)]
      /\ moves \in Seq(Reviews) /\ Linked(moves)
      /\ PackageExists(p) => Len(moves) > 0 /\ moves[Len(moves)].to = pstatus[p]
  BY DEF TopicInv, TopicTypeOK, TrailsLinked
<1>2. m \in Reviews /\ m.action = action /\ m.from = from /\ m.to = to
  BY DEF Reviews
<1>3. ptrail' = [ptrail EXCEPT ![p] = Append(moves, m)]
  BY DEF AddReview
<1> HIDE DEF m, moves
<1>4. /\ Append(moves, m) \in Seq(Reviews) /\ Linked(Append(moves, m))
      /\ Len(Append(moves, m)) = Len(moves) + 1
      /\ Append(moves, m)[Len(moves) + 1] = m
  BY <1>1, <1>2, TrailGrows
<1>5. Len(moves) \in Nat
  BY <1>1
<1> DEFINE longer == Append(moves, m)
<1>6. /\ longer \in Seq(Reviews) /\ Linked(longer) /\ Len(longer) > 0
      /\ longer[Len(longer)].to = to
  BY <1>2, <1>4, <1>5
<1> HIDE DEF longer
<1>7. /\ ptrail' \in [Packages -> Seq(Reviews)] /\ ptrail'[p] = longer
      /\ \A q \in Packages : q # p => ptrail'[q] = ptrail[q]
  BY <1>1, <1>3, <1>6 DEF longer
<1>8. /\ pstatus' \in [Packages -> LifeStatuses \union {NoPackage}]
      /\ pstatus'[p] = to /\ \A q \in Packages : q # p => pstatus'[q] = pstatus[q]
  BY <1>1
<1>9. ASSUME NEW q \in Packages
      PROVE  /\ Linked(ptrail'[q])
             /\ pstatus'[q] # NoPackage =>
                   Len(ptrail'[q]) > 0 /\ ptrail'[q][Len(ptrail'[q])].to = pstatus'[q]
  <2>1. CASE q = p
    BY <1>6, <1>7, <1>8, <2>1
  <2>2. CASE q # p
    BY <1>7, <1>8, <2>2 DEF TopicInv, TrailsLinked, PackageExists
  <2>. QED  BY <2>1, <2>2
<1>10. TrailsLinked'
  BY <1>9 DEF TrailsLinked, PackageExists, Linked
<1>. QED  BY <1>7, <1>8, <1>10

\* The transitions that the skills and the importer make.
LEMMA MovesKnown ==
    ASSUME TopicInv, NEW p \in Packages, NEW next \in LifeStatuses, MayMove(p, next)
    PROVE  next = "published" => pstatus[p] \in {"submitted", "offline_pending"}
<1>1. pstatus[p] \in LifeStatuses
  BY DEF MayMove, PackageExists, TopicInv, TopicTypeOK
<1>. QED  BY <1>1 DEF MayMove, TRANSITIONS, LifeStatuses

\* The statuses of an example's walk.
LEMMA PathOK ==
    ASSUME NEW s, NEW path, path = path_for_target(s)
    PROVE  \/ path = << >>
           \/ path = <<"submitted">>
           \/ path = <<"submitted", "rejected">>
           \/ path = <<"submitted", "published">>
  BY DEF path_for_target

-----------------------------------------------------------------------------
(* The skills on packages                                                  *)

\* A package that a step leaves alone.
SamePackage(q) ==
    /\ pstatus'[q] = pstatus[q] /\ pitems'[q] = pitems[q]
    /\ pvisible'[q] = pvisible[q] /\ pevidence'[q] = pevidence[q]

\* An import comes no further and falls no further behind while nobody
\* touches its package.
LEMMA ImportUntouched ==
    ASSUME TopicInv, importing' = importing,
           alone' /\ importing # NoImport => alone /\ SamePackage(importing.row.package)
    PROVE  StepsOfKind' /\ ImportProgress'
<1>1. StepsOfKind'
  BY DEF StepsOfKind, TopicInv
<1>2. ImportProgress'
  <2>1. SUFFICES ASSUME importing # NoImport, alone'
                 PROVE  Progress(importing.row.package, importing.row, importing.step,
                                 importing.left)'
    BY DEF ImportProgress
  <2>2. Progress(importing.row.package, importing.row, importing.step, importing.left)
    BY <2>1 DEF TopicInv, ImportProgress
  <2>3. SamePackage(importing.row.package)
    BY <2>1
  <2>. QED  BY <2>2, <2>3 DEF Progress, SamePackage
<1>. QED  BY <1>1, <1>2

LEMMA SkillStep ==
    ASSUME TopicInv, NEW p \in Packages, Touch(p),
           \A q \in Packages : q # p => SamePackage(q),
           pstatus' \in [Packages -> LifeStatuses \union {NoPackage}],
           pitems' \in [Packages -> SUBSET Catalogs],
           pvisible' \in [Packages -> [VisibilityCodes -> PolicyStatuses \union {NoPackage}]],
           ptrail' \in [Packages -> Seq(Reviews)],
           pevidence' \in [Packages -> [EvidenceKinds -> Nat]],
           TrailsLinked'
    PROVE  TopicInv'
<1>1. importing' = importing
  BY DEF Touch
<1>2. alone' \in BOOLEAN /\ (alone' => alone)
      /\ (alone' => importing = NoImport \/ importing.row.package # p)
  BY Zenon DEF Touch
<1>3. importing # NoImport => importing.row.package \in Packages
  BY PackageRowsAssumption DEF TopicInv, TopicTypeOK
<1>4. StepsOfKind' /\ ImportProgress'
  BY <1>1, <1>2, <1>3, ImportUntouched
<1>5. TopicTypeOK'
  BY <1>1, <1>2 DEF TopicInv, TopicTypeOK
<1>. QED  BY <1>4, <1>5 DEF TopicInv

\* configure_package keeps every status but a draft's.
LEMMA ConfigureStep ==
    ASSUME TopicInv, NEW p \in Packages, NEW items \in SUBSET Catalogs,
           NEW v \in VisibilityCodes, NEW policy \in PolicyStatuses,
           configure_package(p, items, v, policy)
    PROVE  /\ pstatus' \in [Packages -> LifeStatuses \union {NoPackage}]
           /\ ptrail' \in [Packages -> Seq(Reviews)]
           /\ pitems' \in [Packages -> SUBSET Catalogs]
           /\ pvisible' \in [Packages -> [VisibilityCodes -> PolicyStatuses \union {NoPackage}]]
           /\ TrailsLinked'
           /\ pstatus'[p] = Configured(pstatus[p])
           /\ pitems'[p] = pitems[p] \union items
           /\ pvisible'[p][v] = policy
           /\ \A q \in Packages : q # p =>
                 pstatus'[q] = pstatus[q] /\ pitems'[q] = pitems[q] /\ pvisible'[q] = pvisible[q]
<1> DEFINE to == Configured(pstatus[p])
<1>1. /\ pstatus \in [Packages -> LifeStatuses \union {NoPackage}]
      /\ pitems \in [Packages -> SUBSET Catalogs]
      /\ pvisible \in [Packages -> [VisibilityCodes -> PolicyStatuses \union {NoPackage}]]
      /\ pstatus[p] \in LifeStatuses
  BY DEF TopicInv, TopicTypeOK, configure_package, PackageExists
<1>2. to \in LifeStatuses /\ (to = pstatus[p] \/ pstatus[p] = "draft")
  BY <1>1 DEF Configured, LifeStatuses, TRANSITIONS
<1>3. /\ AddReview(p, "configure", to, to) /\ PackageExists(p)
      /\ pstatus' = [pstatus EXCEPT ![p] = to]
  BY DEF configure_package
<1> HIDE DEF to
<1>4. /\ pstatus' \in [Packages -> LifeStatuses \union {NoPackage}]
      /\ ptrail' \in [Packages -> Seq(Reviews)] /\ TrailsLinked'
      /\ pstatus'[p] = to /\ \A q \in Packages : q # p => pstatus'[q] = pstatus[q]
  <2>1. "configure" \in ReviewActions
    BY DEF ReviewActions
  <2>2. to \in LifeStatuses \union {NoPackage}
    BY <1>2
  <2>3. \/ "configure" = "create"
        \/ /\ PackageExists(p)
           /\ to = pstatus[p] \/ ("configure" = "configure" /\ pstatus[p] = "draft")
    BY <1>2, <1>3
  <2>4. to = "published" /\ "configure" \notin {"create", "configure"}
           => to \in {"submitted", "offline_pending"}
    OBVIOUS
  <2>5. to = "offline_pending" =>
           "configure" = "create" \/ ("configure" = "configure" /\ pstatus[p] = "offline_pending")
    BY DEF to, Configured
  <2>. QED  BY <1>2, <1>3, <2>1, <2>2, <2>3, <2>4, <2>5, StatusStep
<1>5. /\ pitems' = [pitems EXCEPT ![p] = @ \union items]
      /\ pvisible' = [pvisible EXCEPT ![p][v] = policy]
  BY DEF configure_package, WithVisibility
<1>6. /\ pitems' \in [Packages -> SUBSET Catalogs]
      /\ pitems'[p] = pitems[p] \union items
      /\ \A q \in Packages : q # p => pitems'[q] = pitems[q]
  BY <1>1, <1>5
<1>7. /\ pvisible' \in [Packages -> [VisibilityCodes -> PolicyStatuses \union {NoPackage}]]
      /\ pvisible'[p][v] = policy
      /\ \A q \in Packages : q # p => pvisible'[q] = pvisible[q]
  BY <1>1, <1>5
<1>. QED  BY <1>4, <1>6, <1>7 DEF to

LEMMA CreateSkill ==
    ASSUME TopicInv, NEW p \in Packages, NEW status \in PackageStarts,
           topic_package_create(p, status)
    PROVE  TopicInv'
<1>1. "create" \in ReviewActions /\ status \in LifeStatuses
  BY PackageStartsAssumption DEF ReviewActions, LifeStatuses
<1>2. /\ AddReview(p, "create", NoPackage, status)
      /\ pstatus' = [pstatus EXCEPT ![p] = status]
  BY DEF topic_package_create, create_package
<1>3. /\ pstatus' \in [Packages -> LifeStatuses \union {NoPackage}]
      /\ ptrail' \in [Packages -> Seq(Reviews)]
      /\ TrailsLinked'
      /\ \A q \in Packages : q # p => pstatus'[q] = pstatus[q]
  BY <1>1, <1>2, StatusStep
<1>4. Touch(p) /\ UNCHANGED <<pitems, pvisible, pevidence>>
  BY DEF topic_package_create
<1>. QED  BY <1>3, <1>4, SkillStep DEF SamePackage, TopicInv, TopicTypeOK

LEMMA ConfigureSkill ==
    ASSUME TopicInv, NEW p \in Packages, NEW items \in SUBSET Catalogs,
           NEW policy \in PolicyStatuses, topic_package_configure(p, items, policy)
    PROVE  TopicInv'
<1>1. /\ configure_package(p, items, "default", policy) /\ "default" \in VisibilityCodes
      /\ Touch(p) /\ UNCHANGED pevidence
  BY DEF topic_package_configure, VisibilityCodes
<1>. QED  BY <1>1, ConfigureStep, SkillStep DEF SamePackage, TopicInv, TopicTypeOK

LEMMA TransitionStep ==
    ASSUME TopicInv, NEW p \in Packages, NEW next \in MovedTo,
           NEW action \in ReviewActions, transition_package(p, next, action)
    PROVE  /\ pstatus' \in [Packages -> LifeStatuses \union {NoPackage}]
           /\ ptrail' \in [Packages -> Seq(Reviews)]
           /\ TrailsLinked'
           /\ pstatus'[p] = next /\ \A q \in Packages : q # p => pstatus'[q] = pstatus[q]
<1>1. /\ MayMove(p, next) /\ PackageExists(p)
      /\ pstatus' = [pstatus EXCEPT ![p] = next]
      /\ AddReview(p, action, pstatus[p], next)
  BY DEF transition_package, MayMove
<1>2. pstatus[p] \in LifeStatuses /\ next \in LifeStatuses /\ next # "offline_pending"
  BY <1>1 DEF PackageExists, TopicInv, TopicTypeOK, MovedTo, LifeStatuses, TRANSITIONS
<1>3. next = "published" => pstatus[p] \in {"submitted", "offline_pending"}
  BY <1>1, <1>2, MovesKnown
<1> DEFINE from == pstatus[p]
<1>4. /\ from \in LifeStatuses \union {NoPackage}
      /\ AddReview(p, action, from, next)
      /\ \/ action = "create"
         \/ /\ PackageExists(p)
            /\ from = pstatus[p] \/ (action = "configure" /\ pstatus[p] = "draft")
      /\ next = "published" /\ action \notin {"create", "configure"}
            => from \in {"submitted", "offline_pending"}
      /\ next = "offline_pending" => \/ action = "create"
                                     \/ action = "configure" /\ pstatus[p] = "offline_pending"
  BY <1>1, <1>2, <1>3
<1> HIDE DEF from
<1>. QED  BY <1>1, <1>2, <1>4, StatusStep

LEMMA TransitionSkill ==
    ASSUME TopicInv, NEW p \in Packages, NEW next \in MovedTo,
           NEW action \in ReviewActions, TransitionTopicPackage(p, next, action)
    PROVE  TopicInv'
<1>1. /\ transition_package(p, next, action) /\ Touch(p)
      /\ UNCHANGED <<pitems, pvisible, pevidence>>
  BY DEF TransitionTopicPackage
<1>. QED
  BY <1>1, TransitionStep, SkillStep DEF SamePackage, TopicInv, TopicTypeOK

LEMMA PolicySkill ==
    ASSUME TopicInv, NEW p \in Packages, NEW v \in VisibilityCodes,
           NEW policy \in PolicyStatuses, update_policy(p, v, policy), Touch(p),
           UNCHANGED <<pstatus, pitems, ptrail, pevidence>>
    PROVE  TopicInv'
<1>1. /\ pvisible \in [Packages -> [VisibilityCodes -> PolicyStatuses \union {NoPackage}]]
      /\ pvisible' = [pvisible EXCEPT ![p][v] = policy]
  BY DEF update_policy, WithVisibility, TopicInv, TopicTypeOK
<1>2. /\ pvisible' \in [Packages -> [VisibilityCodes -> PolicyStatuses \union {NoPackage}]]
      /\ \A q \in Packages : q # p => pvisible'[q] = pvisible[q]
  BY <1>1
<1>3. TrailsLinked'
  BY DEF TopicInv, TrailsLinked, PackageExists, Linked
<1>. QED  BY <1>2, <1>3, SkillStep DEF SamePackage, TopicInv, TopicTypeOK

LEMMA EvidenceStep ==
    ASSUME TopicInv, NEW p \in Packages, NEW kind \in EvidenceKinds, attach_evidence(p, kind)
    PROVE  /\ pevidence' \in [Packages -> [EvidenceKinds -> Nat]]
           /\ pevidence'[p] = [pevidence[p] EXCEPT ![kind] = pevidence[p][kind] + 1]
           /\ \A q \in Packages : q # p => pevidence'[q] = pevidence[q]
<1>1. /\ pevidence \in [Packages -> [EvidenceKinds -> Nat]]
      /\ pevidence' = [pevidence EXCEPT ![p] = [pevidence[p] EXCEPT ![kind] = pevidence[p][kind] + 1]]
  BY DEF attach_evidence, TopicInv, TopicTypeOK
<1>2. [pevidence[p] EXCEPT ![kind] = pevidence[p][kind] + 1] \in [EvidenceKinds -> Nat]
  BY <1>1
<1>. QED  BY <1>1, <1>2

LEMMA EvidenceSkill ==
    ASSUME TopicInv, NEW p \in Packages, topic_package_evidence_attach(p)
    PROVE  TopicInv'
<1>1. /\ attach_evidence(p, "case_evidence") /\ "case_evidence" \in EvidenceKinds
      /\ Touch(p) /\ UNCHANGED <<pstatus, pitems, pvisible, ptrail>>
  BY DEF topic_package_evidence_attach, EvidenceKinds
<1>2. TrailsLinked'
  BY <1>1 DEF TopicInv, TrailsLinked, PackageExists, Linked
<1>. QED  BY <1>1, <1>2, EvidenceStep, SkillStep DEF SamePackage, TopicInv, TopicTypeOK

\* The old zones leave one row or two.
LEMMA SharezoneSkill ==
    ASSUME TopicInv, NEW p \in Packages, NEW status \in ZoneStatuses, NEW items \in SUBSET Catalogs,
           NEW policy \in PolicyStatuses \union {NoPackage},
           legacy_sharezone_import(p, status, items, policy)
    PROVE  TopicInv'
<1> DEFINE moves == ptrail[p]
           configured == items # {} \/ policy # NoPackage
           made == [action |-> "create", from |-> NoPackage, to |-> status]
           after == IF configured THEN Configured(status) ELSE status
           conf == [action |-> "configure", from |-> after, to |-> after]
           longer == IF configured THEN Append(Append(moves, made), conf)
                     ELSE Append(moves, made)
           to == after
<1>1. /\ ptrail \in [Packages -> Seq(Reviews)] /\ moves \in Seq(Reviews) /\ Linked(moves)
      /\ pstatus \in [Packages -> LifeStatuses \union {NoPackage}]
      /\ pitems \in [Packages -> SUBSET Catalogs]
      /\ pvisible \in [Packages -> [VisibilityCodes -> PolicyStatuses \union {NoPackage}]]
      /\ pevidence \in [Packages -> [EvidenceKinds -> Nat]]
  BY DEF TopicInv, TopicTypeOK, TrailsLinked
<1>2. /\ status \in LifeStatuses /\ after \in LifeStatuses
      /\ after = status \/ (status = "draft" /\ after = "configuring")
      /\ status # "offline_pending" /\ (~configured => after = status)
  BY ZoneStatusesAssumption DEF LifeStatuses, Configured, TRANSITIONS
<1>3. made \in Reviews /\ conf \in Reviews
  BY <1>2 DEF Reviews, ReviewActions
<1>4. /\ Append(moves, made) \in Seq(Reviews) /\ Linked(Append(moves, made))
      /\ Len(Append(moves, made)) = Len(moves) + 1
      /\ Append(moves, made)[Len(moves) + 1] = made
  <2>1. made.action = "create" /\ made.to # "offline_pending"
    BY <1>2
  <2> HIDE DEF moves, made
  <2>. QED  BY <1>1, <1>3, <2>1, TrailGrows
<1>5. /\ Append(Append(moves, made), conf) \in Seq(Reviews)
      /\ Linked(Append(Append(moves, made), conf))
      /\ Len(Append(Append(moves, made), conf)) = Len(moves) + 2
      /\ Append(Append(moves, made), conf)[Len(moves) + 2] = conf
  <2> DEFINE one == Append(moves, made)
  <2>1. /\ one \in Seq(Reviews) /\ Linked(one) /\ Len(one) = Len(moves) + 1
        /\ one[Len(one)].to = status /\ Len(moves) \in Nat /\ Len(one) > 0
    BY <1>1, <1>4
  <2>2. /\ conf.action = "configure" /\ conf.from = after /\ conf.to = after
        /\ after # "offline_pending"
    BY <1>2
  <2> HIDE DEF one, conf, after
  <2>3. /\ conf.from = one[Len(one)].to
           \/ (conf.action = "configure" /\ one[Len(one)].to = "draft")
        /\ conf.action \in {"create", "configure"} /\ conf.to # "offline_pending"
    BY <1>2, <2>1, <2>2
  <2>4. /\ Append(one, conf) \in Seq(Reviews) /\ Linked(Append(one, conf))
        /\ Len(Append(one, conf)) = Len(one) + 1
        /\ Append(one, conf)[Len(one) + 1] = conf
    BY <1>3, <2>1, <2>2, <2>3, TrailGrows
  <2>. QED  BY <2>1, <2>4 DEF one
<1>6. /\ longer \in Seq(Reviews) /\ Linked(longer) /\ Len(longer) > 0
      /\ longer[Len(longer)].to = to
  <2>1. Len(moves) \in Nat
    BY <1>1
  <2>2. CASE ~configured
    <3>1. longer = Append(moves, made) /\ to = status /\ made.to = status
      BY <2>2
    <3> HIDE DEF longer, to, made, moves, configured
    <3>. QED  BY <1>4, <2>1, <3>1
  <2>3. CASE configured
    <3>1. longer = Append(Append(moves, made), conf) /\ to = after /\ conf.to = after
      BY <2>3
    <3> HIDE DEF longer, to, made, moves, conf, after, configured
    <3>. QED  BY <1>5, <2>1, <3>1
  <2>. QED  BY <2>2, <2>3
<1>7. /\ ptrail' = [ptrail EXCEPT ![p] = longer]
      /\ pstatus' = [pstatus EXCEPT ![p] = to]
      /\ pitems' = [pitems EXCEPT ![p] = @ \union items]
      /\ pvisible' = IF policy = NoPackage THEN pvisible
                     ELSE [pvisible EXCEPT ![p]["default"] = policy]
      /\ UNCHANGED pevidence /\ Touch(p)
  <2>1. ptrail' = [ptrail EXCEPT ![p] = moves \o <<made>> \o
                      IF configured THEN <<conf>> ELSE << >>]
    BY DEF legacy_sharezone_import
  <2> HIDE DEF made, conf, moves
  <2>2. moves \o <<made>> = Append(moves, made)
    BY <1>1, <1>3
  <2>3. moves \o <<made>> \o << >> = Append(moves, made)
    BY <1>4, <2>2
  <2>4. moves \o <<made>> \o <<conf>> = Append(Append(moves, made), conf)
    BY <1>3, <1>4, <2>2
  <2>5. (moves \o <<made>> \o IF configured THEN <<conf>> ELSE << >>) = longer
    BY <2>3, <2>4
  <2>. QED  BY <2>1, <2>5 DEF legacy_sharezone_import, WithVisibility
<1>8. to \in LifeStatuses
  BY <1>2
<1> HIDE DEF longer, to, moves, made, conf, after, configured
<1>9. /\ ptrail' \in [Packages -> Seq(Reviews)] /\ ptrail'[p] = longer
      /\ \A q \in Packages : q # p => ptrail'[q] = ptrail[q]
  BY <1>1, <1>6, <1>7
<1>10. /\ pstatus' \in [Packages -> LifeStatuses \union {NoPackage}] /\ pstatus'[p] = to
       /\ \A q \in Packages : q # p => pstatus'[q] = pstatus[q]
  BY <1>1, <1>7, <1>8
<1>11. /\ pitems' \in [Packages -> SUBSET Catalogs]
       /\ \A q \in Packages : q # p => pitems'[q] = pitems[q]
  BY <1>1, <1>7
<1>a. /\ pvisible' \in [Packages -> [VisibilityCodes -> PolicyStatuses \union {NoPackage}]]
      /\ \A q \in Packages : q # p => pvisible'[q] = pvisible[q]
  BY <1>1, <1>7 DEF VisibilityCodes
<1>12. ASSUME NEW q \in Packages
       PROVE  /\ Linked(ptrail'[q])
              /\ pstatus'[q] # NoPackage =>
                    Len(ptrail'[q]) > 0 /\ ptrail'[q][Len(ptrail'[q])].to = pstatus'[q]
  <2>1. CASE q = p
    BY <1>6, <1>9, <1>10, <2>1
  <2>2. CASE q # p
    BY <1>9, <1>10, <2>2 DEF TopicInv, TrailsLinked, PackageExists
  <2>. QED  BY <2>1, <2>2
<1>13. TrailsLinked'
  BY <1>12 DEF TrailsLinked, PackageExists, Linked
<1>. QED  BY <1>1, <1>7, <1>9, <1>10, <1>11, <1>a, <1>13, SkillStep DEF SamePackage

LEMMA SkillsKeep ==
    ASSUME TopicInv, NEW p \in Packages, TopicSkill(p)
    PROVE  TopicInv'
<1>1. CASE \E status \in PackageStarts : topic_package_create(p, status)
  BY <1>1, CreateSkill
<1>2. CASE \E items \in SUBSET Catalogs, policy \in {"approved", "pending_review"} :
              topic_package_configure(p, items, policy)
  BY <1>2, ConfigureSkill DEF PolicyStatuses
<1>3. CASE \/ topic_package_submit(p)
           \/ \E decision \in {"approve", "reject"} : topic_package_review(p, decision)
           \/ topic_package_publish(p)
  <2>1. PICK next \in MovedTo, action \in ReviewActions :
            TransitionTopicPackage(p, next, action)
    BY <1>3 DEF MovedTo, ReviewActions, topic_package_submit, topic_package_review,
                topic_package_publish
  <2>. QED  BY <2>1, TransitionSkill
<1>4. CASE \E policy \in {"approved", "pending_review"} :
              topic_package_policy_update(p, policy) \/ topic_package_subscribe(p, policy)
  <2>1. PICK policy \in PolicyStatuses, v \in VisibilityCodes :
            /\ update_policy(p, v, policy) /\ Touch(p)
            /\ UNCHANGED <<pstatus, pitems, ptrail, pevidence>>
    BY <1>4, Zenon
       DEF PolicyStatuses, VisibilityCodes, topic_package_policy_update, topic_package_subscribe
  <2>. QED  BY <2>1, PolicySkill
<1>5. CASE topic_package_evidence_attach(p)
  BY <1>5, EvidenceSkill
<1>6. CASE \E status \in ZoneStatuses, items \in SUBSET Catalogs,
                policy \in {"approved", "pending_review", NoPackage} :
              legacy_sharezone_import(p, status, items, policy)
  BY <1>6, SharezoneSkill DEF PolicyStatuses
<1>. QED  BY <1>1, <1>2, <1>3, <1>4, <1>5, <1>6 DEF TopicSkill

-----------------------------------------------------------------------------
(* The importers                                                           *)

\* The importer is at a row, or at none.
LEMMA ImporterAt ==
    ASSUME TopicInv, importing.step # "none"
    PROVE  /\ importing # NoImport
           /\ importing \in [row : PackageRows, step : ImportSteps, left : Nat]
           /\ importing.row.package \in Packages /\ importing.row.items \in SUBSET Catalogs
           /\ importing.row.kind \in {"data_example", "basesubject_info"}
           /\ importing.row.files \in Nat /\ importing.row.feedbacks \in Nat
  BY PackageRowsAssumption DEF TopicInv, TopicTypeOK, NoImport

\* The trails of a step that writes neither status nor trail.
LEMMA TrailsKept ==
    ASSUME TopicInv, UNCHANGED <<pstatus, ptrail>>
    PROVE  TrailsLinked'
  BY DEF TopicInv, TrailsLinked, PackageExists, Linked

\* What is left to show of a step of the importer.
LEMMA ImporterStep ==
    ASSUME TopicInv, importing.step # "none",
           NEW step \in ImportSteps, NEW left \in Nat, ImportAt(step, left), alone' = alone,
           step \in {"wipe", "file", "feedback", "walk"} => importing.row.kind = "data_example",
           step = "walk" => left <= Len(path_for_target(importing.row.status)),
           pstatus' \in [Packages -> LifeStatuses \union {NoPackage}],
           pitems' \in [Packages -> SUBSET Catalogs],
           pvisible' \in [Packages -> [VisibilityCodes -> PolicyStatuses \union {NoPackage}]],
           ptrail' \in [Packages -> Seq(Reviews)],
           pevidence' \in [Packages -> [EvidenceKinds -> Nat]],
           TrailsLinked',
           alone => Progress(importing.row.package, importing.row, step, left)'
    PROVE  TopicInv'
<1>1. importing \in [row : PackageRows, step : ImportSteps, left : Nat]
  BY ImporterAt
<1>2. /\ importing' \in [row : PackageRows, step : ImportSteps, left : Nat]
      /\ importing'.row = importing.row /\ importing'.step = step /\ importing'.left = left
  BY <1>1 DEF ImportAt
<1>3. alone' \in BOOLEAN
  BY Zenon DEF TopicInv, TopicTypeOK
<1>4. TopicTypeOK'
  BY <1>2, <1>3 DEF TopicTypeOK
<1>5. StepsOfKind'
  BY <1>2 DEF StepsOfKind
<1>6. ImportProgress'
  BY <1>2 DEF ImportProgress
<1>. QED  BY <1>4, <1>5, <1>6 DEF TopicInv

LEMMA StartKeeps ==
    ASSUME TopicInv, NEW r \in PackageRows, StartRow(r)
    PROVE  TopicInv'
<1>1. /\ importing' = [row |-> r, step |-> "create", left |-> 0] /\ alone' = TRUE
      /\ UNCHANGED <<pstatus, pitems, pvisible, ptrail, pevidence>>
  BY DEF StartRow
<1>2. TopicTypeOK'
  BY <1>1 DEF TopicInv, TopicTypeOK, ImportSteps
<1>3. TrailsLinked'
  BY <1>1, TrailsKept
<1>4. StepsOfKind' /\ ImportProgress'
  BY <1>1 DEF StepsOfKind, ImportProgress, Progress
<1>. QED  BY <1>2, <1>3, <1>4 DEF TopicInv

LEMMA CreateKeeps ==
    ASSUME TopicInv, NEW kind, CreateFrom(kind)
    PROVE  TopicInv'
<1> DEFINE p == importing.row.package
<1>1. /\ importing.step = "create" /\ ImportAt("configure", 0)
      /\ AddReview(p, "create", NoPackage, "draft")
      /\ pstatus' = [pstatus EXCEPT ![p] = "draft"]
      /\ UNCHANGED <<pitems, pvisible, pevidence, alone>>
  BY DEF CreateFrom, create_package, ImportedRow
<1>2. p \in Packages
  BY <1>1, ImporterAt
<1>3. "create" \in ReviewActions /\ "draft" \in LifeStatuses /\ "configure" \in ImportSteps
  BY DEF ReviewActions, LifeStatuses, TRANSITIONS, ImportSteps
<1> HIDE DEF p
<1>4. /\ pstatus' \in [Packages -> LifeStatuses \union {NoPackage}]
      /\ ptrail' \in [Packages -> Seq(Reviews)]
      /\ TrailsLinked' /\ pstatus'[p] = "draft"
  BY <1>1, <1>2, <1>3, StatusStep
<1>5. Progress(importing.row.package, importing.row, "configure", 0)'
  <2>1. importing'.row = importing.row
    BY <1>1, ImporterAt DEF ImportAt
  <2>. QED  BY <1>4, <2>1 DEF Progress, p
<1>. QED  BY <1>1, <1>3, <1>4, <1>5, ImporterStep DEF TopicInv, TopicTypeOK

LEMMA ConfigureKeeps ==
    ASSUME TopicInv, NEW kind, NEW policy \in PolicyStatuses, NEW next,
           ConfigureFrom(kind, policy, next),
           \/ kind = "data_example" /\ policy = "approved" /\ next = "wipe"
           \/ kind = "basesubject_info" /\ policy = "pending_review" /\ next = "done"
    PROVE  TopicInv'
<1> DEFINE p == importing.row.package
           items == importing.row.items
<1>1. /\ importing.step = "configure" /\ importing.row.kind = kind /\ ImportAt(next, 0)
      /\ configure_package(p, items, "default", policy)
      /\ UNCHANGED <<pevidence, alone>>
  BY DEF ConfigureFrom, ImportedRow
<1>2. /\ p \in Packages /\ items \in SUBSET Catalogs
      /\ "default" \in VisibilityCodes /\ next \in ImportSteps
      /\ importing.row.kind \in {"data_example", "basesubject_info"}
      /\ importing # NoImport
  BY <1>1, ImporterAt DEF VisibilityCodes, ImportSteps
<1> HIDE DEF p, items
<1>3. /\ pstatus' \in [Packages -> LifeStatuses \union {NoPackage}]
      /\ ptrail' \in [Packages -> Seq(Reviews)]
      /\ pitems' \in [Packages -> SUBSET Catalogs]
      /\ pvisible' \in [Packages -> [VisibilityCodes -> PolicyStatuses \union {NoPackage}]]
      /\ TrailsLinked'
      /\ pstatus'[p] = Configured(pstatus[p])
      /\ pitems'[p] = pitems[p] \union items
      /\ pvisible'[p]["default"] = policy
  <2>1. p \in Packages /\ items \in SUBSET Catalogs /\ "default" \in VisibilityCodes
    BY <1>2
  <2>2. configure_package(p, items, "default", policy)
    BY <1>1
  <2>. QED  BY <2>1, <2>2, ConfigureStep
<1>4. ASSUME alone
      PROVE  Progress(importing.row.package, importing.row, next, 0)'
  <2>1. importing'.row = importing.row
    BY <1>1, ImporterAt DEF ImportAt
  <2>2. pstatus[p] = "draft"
    BY <1>1, <1>2, <1>4 DEF TopicInv, ImportProgress, Progress, p
  <2>3. pstatus'[p] = "configuring"
    BY <1>3, <2>2 DEF Configured
  <2>. QED  BY <1>1, <1>3, <2>1, <2>3 DEF Progress, p, items
<1>. QED  BY <1>1, <1>2, <1>3, <1>4, ImporterStep DEF TopicInv, TopicTypeOK

LEMMA WipeKeeps ==
    ASSUME TopicInv, ImportWipe
    PROVE  TopicInv'
<1> DEFINE p == importing.row.package
<1>1. /\ importing.step = "wipe" /\ ImportAt("file", importing.row.files)
      /\ pevidence' = [pevidence EXCEPT ![p] = [k \in EvidenceKinds |-> 0]]
      /\ UNCHANGED <<pstatus, pitems, pvisible, ptrail, alone>>
  BY DEF ImportWipe, Wiped, ImportedRow
<1>2. /\ p \in Packages /\ importing.row.files \in Nat /\ "file" \in ImportSteps
      /\ importing # NoImport
  BY <1>1, ImporterAt DEF ImportSteps
<1>3. importing.row.kind = "data_example"
  BY <1>1 DEF TopicInv, StepsOfKind
<1> HIDE DEF p
<1>4. /\ pevidence' \in [Packages -> [EvidenceKinds -> Nat]]
      /\ pevidence'[p]["file"] = 0 /\ pevidence'[p]["feedback"] = 0
  BY <1>1, <1>2 DEF TopicInv, TopicTypeOK, EvidenceKinds
<1>5. PICK n \in Nat : n = importing.row.files
  BY <1>2
<1>6. ASSUME alone
      PROVE  Progress(importing.row.package, importing.row, "file", n)'
  <2>1. importing'.row = importing.row
    BY <1>1, ImporterAt DEF ImportAt
  <2>2. /\ pstatus[p] = "configuring" /\ importing.row.items \subseteq pitems[p]
        /\ pvisible[p]["default"] = "approved"
    BY <1>1, <1>2, <1>6 DEF TopicInv, ImportProgress, Progress, p
  <2>. QED  BY <1>1, <1>4, <1>5, <2>1, <2>2 DEF Progress, p
<1>7. TrailsLinked'
  BY <1>1, TrailsKept
<1>. QED
  BY <1>1, <1>2, <1>3, <1>4, <1>5, <1>6, <1>7, ImporterStep DEF TopicInv, TopicTypeOK

LEMMA EvidenceKeeps ==
    ASSUME TopicInv, NEW kind \in {"file", "feedback"}, ImportEvidence(kind)
    PROVE  TopicInv'
<1> DEFINE p == importing.row.package
<1>1. /\ importing.step = kind /\ importing.left > 0
      /\ ImportAt(kind, importing.left - 1) /\ attach_evidence(p, kind)
      /\ UNCHANGED <<pstatus, pitems, pvisible, ptrail, alone>>
  BY DEF ImportEvidence, ImportedRow
<1>2. /\ p \in Packages /\ importing.left \in Nat /\ kind \in ImportSteps
      /\ importing # NoImport /\ kind \in EvidenceKinds /\ importing.step # "none"
  BY <1>1, ImporterAt DEF ImportSteps, EvidenceKinds
<1>3. importing.row.kind = "data_example"
  BY <1>1 DEF TopicInv, StepsOfKind
<1> HIDE DEF p
<1>4. /\ pevidence' \in [Packages -> [EvidenceKinds -> Nat]]
      /\ pevidence'[p] = [pevidence[p] EXCEPT ![kind] = pevidence[p][kind] + 1]
  BY <1>1, <1>2, EvidenceStep
<1>5. PICK n \in Nat : n = importing.left - 1
  BY <1>1, <1>2
<1>6. ASSUME alone
      PROVE  Progress(importing.row.package, importing.row, kind, n)'
  <2>1. importing'.row = importing.row
    BY <1>1, <1>2, ImporterAt DEF ImportAt
  <2>2. Progress(p, importing.row, kind, importing.left)
    BY <1>1, <1>2, <1>6 DEF TopicInv, ImportProgress, p
  <2>3. /\ pevidence[p] \in [EvidenceKinds -> Nat]
        /\ "file" \in EvidenceKinds /\ "feedback" \in EvidenceKinds
    BY <1>2 DEF TopicInv, TopicTypeOK, EvidenceKinds
  <2>4. CASE kind = "file"
    <3>1. /\ pevidence'[p]["file"] = pevidence[p]["file"] + 1
          /\ pevidence'[p]["feedback"] = pevidence[p]["feedback"]
      BY <1>4, <2>3, <2>4
    <3>. QED  BY <1>1, <1>2, <1>5, <2>1, <2>2, <2>3, <2>4, <3>1 DEF Progress, p
  <2>5. CASE kind = "feedback"
    <3>1. /\ pevidence'[p]["feedback"] = pevidence[p]["feedback"] + 1
          /\ pevidence'[p]["file"] = pevidence[p]["file"]
      BY <1>4, <2>3, <2>5
    <3>. QED  BY <1>1, <1>2, <1>5, <2>1, <2>2, <2>3, <2>5, <3>1 DEF Progress, p
  <2>. QED  BY <2>4, <2>5
<1>7. TrailsLinked'
  BY <1>1, TrailsKept
<1>. QED
  BY <1>1, <1>2, <1>3, <1>4, <1>5, <1>6, <1>7, ImporterStep DEF TopicInv, TopicTypeOK

LEMMA EvidenceDoneKeeps ==
    ASSUME TopicInv, NEW kind \in {"file", "feedback"}, EvidenceDone(kind)
    PROVE  TopicInv'
<1> DEFINE p == importing.row.package
           path == path_for_target(importing.row.status)
<1>1. /\ importing.step = kind /\ importing.left = 0
      /\ UNCHANGED <<pstatus, pitems, pvisible, ptrail, pevidence, alone>>
  BY DEF EvidenceDone
<1>2. /\ p \in Packages /\ importing # NoImport /\ importing.step # "none"
      /\ importing.row.feedbacks \in Nat /\ importing.row.files \in Nat
  BY <1>1, ImporterAt
<1>3. importing.row.kind = "data_example"
  BY <1>1 DEF TopicInv, StepsOfKind
<1>4. Len(path) \in Nat /\ (Len(path) = 0 <=> path = << >>)
  BY PathOK
<1>5. PICK step \in ImportSteps, n \in Nat :
         /\ ImportAt(step, n)
         /\ \/ kind = "file" /\ step = "feedback" /\ n = importing.row.feedbacks
            \/ kind = "feedback" /\ importing.row.items = {} /\ step = "done"
            \/ kind = "feedback" /\ importing.row.items # {} /\ step = "walk" /\ n = Len(path)
  <2>1. CASE kind = "file"
    BY <1>2, <2>1 DEF EvidenceDone, ImportedRow, ImportSteps
  <2>2. CASE kind = "feedback" /\ importing.row.items = {}
    BY <1>2, <2>2 DEF EvidenceDone, ImportedRow, ImportSteps
  <2>3. CASE kind = "feedback" /\ importing.row.items # {}
    BY <1>2, <1>4, <2>3 DEF EvidenceDone, ImportedRow, ImportSteps
  <2>. QED  BY <2>1, <2>2, <2>3
<1>6. /\ importing'.row = importing.row /\ importing'.row.status = importing.row.status
  BY <1>2, <1>5, ImporterAt DEF ImportAt
<1> HIDE DEF p, path
<1>7. ASSUME alone
      PROVE  Progress(importing.row.package, importing.row, step, n)'
  <2>1. Progress(p, importing.row, kind, 0)
    BY <1>1, <1>2, <1>7 DEF TopicInv, ImportProgress, p
  <2>2. pevidence[p]["file"] \in Nat /\ pevidence[p]["feedback"] \in Nat
    BY <1>2 DEF TopicInv, TopicTypeOK, EvidenceKinds
  <2>3. /\ pstatus'[p] = "configuring" /\ importing.row.items \subseteq pitems'[p]
        /\ pvisible'[p]["default"] = "approved"
    BY <1>1, <2>1 DEF Progress
  <2>4. CASE kind = "file"
    BY <1>1, <1>2, <1>5, <1>6, <2>1, <2>2, <2>3, <2>4 DEF Progress, p
  <2>5. CASE kind = "feedback"
    <3>1. /\ pevidence'[p]["file"] = importing.row.files
          /\ pevidence'[p]["feedback"] = importing.row.feedbacks
      BY <1>1, <2>1, <2>2, <2>5 DEF Progress
    <3>2. CASE importing.row.items = {}
      <4>1. step = "done"
        BY <1>5, <2>5, <3>2
      <4>. QED  BY <1>6, <2>3, <3>1, <3>2, <4>1 DEF Progress, p
    <3>3. CASE importing.row.items # {}
      <4>1. step = "walk" /\ n = Len(path) /\ n <= Len(path)
        BY <1>4, <1>5, <2>5, <3>3
      <4>. QED  BY <1>6, <2>3, <3>1, <3>3, <4>1 DEF Progress, p, path
    <3>. QED  BY <3>2, <3>3
  <2>. QED  BY <2>4, <2>5
<1>8. TrailsLinked'
  BY <1>1, TrailsKept
<1>9. step = "walk" => n <= Len(path_for_target(importing.row.status))
  BY <1>4, <1>5 DEF path
<1>. QED
  BY <1>1, <1>2, <1>3, <1>5, <1>7, <1>8, <1>9, ImporterStep DEF TopicInv, TopicTypeOK

\* Nobody but a user stops the walk of an example: each status of its path is
\* one that the package may move to.
LEMMA WalkGoesOn ==
    ASSUME TopicInv, alone, importing.step = "walk", importing.left > 0,
           NEW path, path = path_for_target(importing.row.status),
           NEW next, next = path[Len(path) - importing.left + 1]
    PROVE  MayMove(importing.row.package, next)
<1> DEFINE p == importing.row.package
           left == importing.left
<1>1. /\ importing # NoImport /\ p \in Packages /\ left \in Nat
      /\ importing.row.items \in SUBSET Catalogs
  BY ImporterAt
<1>2. Progress(p, importing.row, "walk", left)
  BY <1>1 DEF TopicInv, ImportProgress
<1> HIDE DEF p, left
<1>3. /\ importing.row.items \subseteq pitems[p] /\ importing.row.items # {}
      /\ pvisible[p]["default"] = "approved" /\ left <= Len(path)
      /\ pstatus[p] = IF left = Len(path) THEN "configuring" ELSE path[Len(path) - left]
  BY <1>2 DEF Progress
<1>4. Publishable(p)
  BY <1>3 DEF Publishable, VisibilityCodes
<1>5. left > 0
  BY DEF left
<1>6. \/ pstatus[p] = "configuring" /\ next = "submitted"
      \/ pstatus[p] = "submitted" /\ next \in {"rejected", "published"}
  <2>1. CASE path = << >>
    BY <1>1, <1>3, <1>5, <2>1
  <2>2. CASE path = <<"submitted">>
    <3>1. left = 1 /\ Len(path) = 1
      BY <1>1, <1>3, <1>5, <2>2
    <3>. QED  BY <1>3, <2>2, <3>1 DEF left
  <2>3. CASE \E s \in {"rejected", "published"} : path = <<"submitted", s>>
    <3>1. PICK s \in {"rejected", "published"} : path = <<"submitted", s>>
      BY <2>3
    <3>2. Len(path) = 2 /\ path[1] = "submitted" /\ path[2] = s
      BY <3>1
    <3>3. CASE left = 2
      BY <1>3, <3>2, <3>3 DEF left
    <3>4. CASE left = 1
      BY <1>3, <3>2, <3>4 DEF left
    <3>. QED  BY <1>1, <1>3, <1>5, <3>2, <3>3, <3>4
  <2>. QED  BY <2>1, <2>2, <2>3, PathOK
<1>7. PackageExists(p)
  BY <1>6, NoPackageAssumption DEF PackageExists, TRANSITIONS
<1>8. next \in TRANSITIONS[pstatus[p]]
  BY <1>6 DEF TRANSITIONS
<1>. QED  BY <1>4, <1>7, <1>8 DEF MayMove, p

LEMMA WalkKeeps ==
    ASSUME TopicInv, ImportWalk
    PROVE  TopicInv'
<1> DEFINE p == importing.row.package
<1>1. /\ importing.step = "walk" /\ UNCHANGED <<pitems, pvisible, pevidence, alone>>
  BY DEF ImportWalk
<1>2. /\ p \in Packages /\ importing # NoImport /\ importing.step # "none"
      /\ importing.left \in Nat
      /\ importing \in [row : PackageRows, step : ImportSteps, left : Nat]
  BY <1>1, ImporterAt
<1>3. PICK path : path = path_for_target(importing.row.status)
  OBVIOUS
<1>4. /\ importing.row.kind = "data_example" /\ importing.left <= Len(path)
  BY <1>1, <1>3 DEF TopicInv, StepsOfKind
<1>5. PICK next : next = path[Len(path) - importing.left + 1]
  OBVIOUS
<1>6. /\ pitems' \in [Packages -> SUBSET Catalogs]
      /\ pvisible' \in [Packages -> [VisibilityCodes -> PolicyStatuses \union {NoPackage}]]
      /\ pevidence' \in [Packages -> [EvidenceKinds -> Nat]]
  BY <1>1 DEF TopicInv, TopicTypeOK
<1>7. "walk" \in ImportSteps /\ "done" \in ImportSteps
  BY DEF ImportSteps
<1>8. alone => Progress(p, importing.row, "walk", importing.left)
  BY <1>1, <1>2 DEF TopicInv, ImportProgress
<1>9. Len(path) \in Nat /\ (Len(path) = 0 <=> path = << >>)
  BY <1>3, PathOK
<1> HIDE DEF p
<1>10. CASE importing.left > 0 /\ MayMove(p, next)
  <2>1. /\ transition_package(p, next, "legacy_import")
        /\ ImportAt("walk", importing.left - 1)
    BY <1>3, <1>5, <1>10 DEF ImportWalk, ImportedRow, p
  <2>2. next \in MovedTo /\ "legacy_import" \in ReviewActions
    <3>1. next \in {"submitted", "rejected", "published"}
      BY <1>2, <1>3, <1>4, <1>5, <1>10, PathOK
    <3>. QED  BY <3>1 DEF MovedTo, ReviewActions
  <2>3. /\ pstatus' \in [Packages -> LifeStatuses \union {NoPackage}]
        /\ ptrail' \in [Packages -> Seq(Reviews)]
        /\ TrailsLinked' /\ pstatus'[p] = next
    BY <1>2, <2>1, <2>2, TransitionStep
  <2>4. PICK n \in Nat : n = importing.left - 1
    BY <1>2, <1>10
  <2>5. importing'.row = importing.row
    BY <1>2, <2>1 DEF ImportAt
  <2>6. n < Len(path) /\ next = path[Len(path) - n]
    <3>1. Len(path) - importing.left + 1 = Len(path) - n
      BY <1>2, <1>9, <2>4
    <3>. QED  BY <1>2, <1>4, <1>5, <1>9, <2>4, <3>1
  <2>7. ASSUME alone
        PROVE  Progress(importing.row.package, importing.row, "walk", n)'
    <3>1. /\ pevidence'[p]["file"] = importing.row.files
          /\ pevidence'[p]["feedback"] = importing.row.feedbacks
          /\ importing.row.items # {} /\ importing.row.items \subseteq pitems'[p]
          /\ pvisible'[p]["default"] = "approved"
      BY <1>1, <1>8, <2>7 DEF Progress
    <3>2. n # Len(path) /\ n <= Len(path)
      BY <1>9, <2>6
    <3>. QED  BY <1>3, <2>3, <2>5, <2>6, <3>1, <3>2 DEF Progress, p
  <2>8. n <= Len(path_for_target(importing.row.status))
    BY <1>3, <1>9, <2>6
  <2>. QED
    BY <1>1, <1>2, <1>4, <1>6, <1>7, <2>1, <2>3, <2>4, <2>7, <2>8, ImporterStep
<1>11. CASE ~(importing.left > 0 /\ MayMove(p, next))
  <2>1. ImportAt("done", 0) /\ UNCHANGED <<pstatus, ptrail>>
    BY <1>3, <1>5, <1>11 DEF ImportWalk, ImportedRow, p
  <2>2. importing'.row = importing.row
    BY <1>2, <2>1 DEF ImportAt
  <2>3. ASSUME alone
        PROVE  Progress(importing.row.package, importing.row, "done", 0)'
    <3>1. importing.left = 0
      <4>1. importing.left > 0 => MayMove(p, next)
        BY <1>1, <1>3, <1>5, <2>3, WalkGoesOn DEF p
      <4>. QED  BY <1>2, <1>11, <4>1
    <3>2. /\ pevidence'[p]["file"] = importing.row.files
          /\ pevidence'[p]["feedback"] = importing.row.feedbacks
          /\ importing.row.items # {} /\ importing.row.items \subseteq pitems'[p]
      BY <1>1, <1>8, <2>3 DEF Progress
    <3>3. pstatus'[p] = IF Len(path) = 0 THEN "configuring" ELSE path[Len(path) - 0]
      BY <1>3, <1>8, <2>1, <2>3, <3>1 DEF Progress
    <3>4. pstatus'[p] = IF path # << >> THEN path[Len(path)] ELSE "configuring"
      BY <1>9, <3>3
    <3>. QED  BY <1>3, <1>4, <2>2, <3>2, <3>4 DEF Progress, p
  <2>4. TrailsLinked'
    BY <2>1, TrailsKept
  <2>. QED
    BY <1>1, <1>2, <1>6, <1>7, <2>1, <2>3, <2>4, ImporterStep DEF TopicInv, TopicTypeOK
<1>. QED  BY <1>10, <1>11

LEMMA EndKeeps ==
    ASSUME TopicInv, RowDone \/ ImporterDies
    PROVE  TopicInv'
<1>1. /\ importing' = NoImport
      /\ UNCHANGED <<pstatus, pitems, pvisible, ptrail, pevidence, alone>>
  BY DEF RowDone, ImporterDies
<1>2. TopicTypeOK'
  BY <1>1 DEF TopicInv, TopicTypeOK
<1>3. TrailsLinked'
  BY <1>1, TrailsKept
<1>4. StepsOfKind' /\ ImportProgress'
  BY <1>1 DEF StepsOfKind, ImportProgress, NoImport
<1>. QED  BY <1>2, <1>3, <1>4 DEF TopicInv

LEMMA ImportsKeep ==
    ASSUME TopicInv, ImportStep
    PROVE  TopicInv'
<1>1. CASE \E r \in PackageRows : StartRow(r)
  BY <1>1, StartKeeps
<1>2. CASE ExampleCreate \/ SubjectCreate
  BY <1>2, CreateKeeps DEF ExampleCreate, SubjectCreate
<1>3. CASE ExampleConfigure \/ SubjectConfigure
  <2>1. "approved" \in PolicyStatuses /\ "pending_review" \in PolicyStatuses
    BY DEF PolicyStatuses
  <2>. QED  BY <1>3, <2>1, ConfigureKeeps DEF ExampleConfigure, SubjectConfigure
<1>4. CASE ImportWipe
  BY <1>4, WipeKeeps
<1>5. CASE \E kind \in {"file", "feedback"} : ImportEvidence(kind) \/ EvidenceDone(kind)
  BY <1>5, EvidenceKeeps, EvidenceDoneKeeps
<1>6. CASE ImportWalk
  BY <1>6, WalkKeeps
<1>7. CASE RowDone \/ ImporterDies
  BY <1>7, EndKeeps
<1>. QED  BY <1>1, <1>2, <1>3, <1>4, <1>5, <1>6, <1>7 DEF ImportStep

-----------------------------------------------------------------------------
(* The theorem about packages                                              *)

\* What the invariant says of one package and of the row at its end.
LEMMA InvTells ==
    ASSUME TopicInv
    PROVE  PackagesAccounted
<1>1. TrailTellsStatus
  BY DEF TopicInv, TrailsLinked, Linked, PublishedFrom, TrailTellsStatus
<1>2. ImportLeavesRow
  <2>1. SUFFICES ASSUME importing.step = "done", alone
                 PROVE  LET p == importing.row.package
                            path == path_for_target(importing.row.status)
                            walked == importing.row.kind = "data_example"
                                      /\ importing.row.items # {} /\ path # << >>
                        IN /\ importing.row.items \subseteq pitems[p]
                           /\ pstatus[p] = IF walked THEN path[Len(path)] ELSE "configuring"
                           /\ importing.row.kind = "data_example" =>
                                /\ pevidence[p]["file"] = importing.row.files
                                /\ pevidence[p]["feedback"] = importing.row.feedbacks
    BY DEF ImportLeavesRow, ImportedRow
  <2>2. Progress(importing.row.package, importing.row, "done", importing.left)
    BY <2>1, ImporterAt DEF TopicInv, ImportProgress
  <2>. QED  BY <2>2 DEF Progress
<1>3. FoundThroughPublished
  <2>1. SUFFICES ASSUME NEW c \in Catalogs, Discoverable(c), Cards(c) # {}
                 PROVE  \E p \in Cards(c) :
                            /\ ptrail[p][Len(ptrail[p])].to = "published"
                            /\ ApprovedVisibility(p) # {}
                            /\ FailureReasons(p) \subseteq {"inactive_catalog_item_hidden"}
    BY DEF FoundThroughPublished
  <2>2. PICK p \in Cards(c) : Projected(p)
    BY <2>1 DEF Discoverable
  <2>3. p \in Packages /\ PackageExists(p)
    BY <2>2 DEF Cards
  <2>4. pstatus[p] = "published" /\ VisibleItems(p) # {} /\ ApprovedVisibility(p) # {}
    BY <2>2 DEF Projected
  <2>5. ptrail[p][Len(ptrail[p])].to = "published"
    BY <2>3, <2>4 DEF TopicInv, TrailsLinked
  <2>6. FailureReasons(p) \subseteq {"inactive_catalog_item_hidden"}
    BY <2>4 DEF FailureReasons
  <2>. QED  BY <2>2, <2>4, <2>5, <2>6
<1>. QED  BY <1>1, <1>2, <1>3 DEF PackagesAccounted

\* Skills and importers keep the invariant in whatever order they come, also
\* when an importer dies between two of its commits.
THEOREM PackageInvariance == TopicSpec => []TopicInv
<1>1. ASSUME TopicInit
      PROVE  TopicInv
  <2>1. /\ pstatus = [p \in Packages |-> NoPackage] /\ pitems = [p \in Packages |-> {}]
        /\ pvisible = [p \in Packages |-> [v \in VisibilityCodes |-> NoPackage]]
        /\ ptrail = [p \in Packages |-> << >>]
        /\ pevidence = [p \in Packages |-> [k \in EvidenceKinds |-> 0]]
        /\ importing = NoImport
    BY <1>1 DEF TopicInit
  <2>2. alone \in BOOLEAN
    BY <1>1, Zenon DEF TopicInit
  <2>3. TopicTypeOK
    BY <2>1, <2>2 DEF TopicTypeOK
  <2>4. TrailsLinked
    BY <2>1 DEF TrailsLinked, Linked, PackageExists
  <2>5. StepsOfKind /\ ImportProgress
    BY <2>1 DEF StepsOfKind, ImportProgress, NoImport
  <2>. QED  BY <2>3, <2>4, <2>5 DEF TopicInv
<1>2. ASSUME TopicInv, [TopicNext]_topicVars
      PROVE  TopicInv'
  <2>1. CASE \E p \in Packages : TopicSkill(p)
    BY <1>2, <2>1, SkillsKeep
  <2>2. CASE ImportStep
    BY <1>2, <2>2, ImportsKeep
  <2>3. CASE (\E c \in Catalogs : EntryChanges(c)) \/ (UNCHANGED topicVars)
    <3>1. UNCHANGED <<pstatus, pitems, pvisible, ptrail, pevidence, importing, alone>>
      BY <2>3 DEF EntryChanges, topicVars
    <3>2. TopicTypeOK'
      BY <1>2, <3>1 DEF TopicInv, TopicTypeOK
    <3>3. TrailsLinked'
      BY <1>2, <3>1, TrailsKept
    <3>4. StepsOfKind' /\ ImportProgress'
      BY <1>2, <3>1, ImportUntouched DEF SamePackage
    <3>. QED  BY <3>2, <3>3, <3>4 DEF TopicInv
  <2>. QED  BY <1>2, <2>1, <2>2, <2>3 DEF TopicNext
<1>. QED  BY <1>1, <1>2, PTL DEF TopicSpec

\* Every package's trail accounts for its status, a completed import leaves what
\* its row says, and a catalog is found through published packages only (the
\* whole of TopicPackageRepository and the two mappers), for any packages,
\* catalogs, legacy rows and bounds.
THEOREM PackagesHold == TopicSpec => []PackagesAccounted
  BY PackageInvariance, InvTells, PTL
=============================================================================
