--------------------------- MODULE LegacyMigration ---------------------------
(***************************************************************************)
(* The one-shot import of the old platform's dumps (zw_brain/adapters/     *)
(* legacy: migration_batch.py, runner.py, _common.py, verification.py),    *)
(* the mapping rows it writes (domain/repositories/legacy_mapping.py), the *)
(* schema check it starts with (shared/migrate.py) and the rollback an     *)
(* operator may run (entry/legacy_migration/rollback.py).                  *)
(*                                                                         *)
(* Every schema of the profile has one legacy object, in a table some      *)
(* mapper handles, one table that is only receipted, and possibly one no   *)
(* mapper knows.  The object's row carries the canonical code it becomes,  *)
(* or lacks a field.  A mapper commits row by row and its run record last, *)
(* and the process can die between any two commits.  What the mappers do   *)
(* to the fields of a row is left out, and so is the report's wording.     *)
(***************************************************************************)
EXTENDS Integers, FiniteSets

CONSTANTS
    Schemas,         \* CUSTOMER_CORE_V1_SCHEMAS
    Refs,            \* canonical codes
    Bad,             \* a row that lacks a field its mapper needs
    None,
    MaxFiles,        \* bound on dumps delivered per schema
    MaxRuns,         \* bound on imports
    MaxFaults,       \* bound on imports that raise and on crashes
    MaxRollbacks

ASSUME BoundsAssumption == {MaxFiles, MaxRuns, MaxFaults, MaxRollbacks} \subseteq Nat \ {0}
ASSUME SchemasAssumption == IsFiniteSet(Schemas)
ASSUME NamesAssumption == Bad \notin Refs /\ None \notin Refs \union Schemas \union {Bad}

\* found is the number of dump files, row the row of the legacy object, unknown
\* whether some table belongs to no mapper and not to the skip manifest.
Dumps == [found : 0 .. 2, row : Refs \union {Bad}, unknown : BOOLEAN, file : 1 .. MaxFiles]

Modes == {"single", "dry", "dry_run", "apply", "repeat_apply"}

Options == [strict : BOOLEAN, zero : BOOLEAN, reset : BOOLEAN]

\* A run under way: its mode and options, the schemas still to import, the one
\* whose run record is due, the receipts still to write, whether it has an
\* error, and the counts the apply stage ended with.
Runs == [mode : Modes, options : Options, todo : SUBSET Schemas,
         due : Schemas \union {None}, receipts : SUBSET Schemas, errors : BOOLEAN,
         counts : [Refs -> Nat] \union {None}, records : Nat]

VARIABLES
    dump,            \* what the dumps directory holds
    schema,          \* the target database: empty, versioned, legacy, drifted
    canonical,       \* rows per canonical code
    suspended,       \* canonical codes whose status column is suspended
    mapping,         \* legacy_object_mapping: status per object and code
    receipt,         \* what is receipted of a skipped table: nothing, mapping, both
    record,          \* adapter_run_record per schema and dump file
    run,
    verdict,         \* status of the last report, and what the run was
    runs, faults, rollbacks

tables == <<canonical, suspended, mapping, receipt, record>>

vars == <<dump, schema, tables, run, verdict, runs, faults, rollbacks>>

Verdicts == {"none", "failed", "succeeded"}

TypeOK ==
    /\ dump \in [Schemas -> Dumps]
    /\ schema \in {"empty", "versioned", "legacy", "drifted"}
    /\ canonical \in [Refs -> Nat]
    /\ suspended \subseteq Refs
    /\ mapping \in [Schemas -> [Refs -> {"none", "mapped", "conflicted", "rolled_back"}]]
    /\ receipt \in [Schemas -> {"none", "mapping", "both"}]
    /\ record \in [Schemas -> [1 .. MaxFiles -> {"none", "succeeded", "partial_failure"}]]
    /\ run \in Runs \union {None}
    /\ verdict \in Verdicts
    /\ runs \in 0 .. MaxRuns
    /\ faults \in 0 .. MaxFaults
    /\ rollbacks \in 0 .. MaxRollbacks

\* The tables of a database just created.
Fresh ==
    /\ canonical' = [r \in Refs |-> 0]
    /\ suspended' = {}
    /\ mapping' = [s \in Schemas |-> [r \in Refs |-> "none"]]
    /\ receipt' = [s \in Schemas |-> "none"]
    /\ record' = [s \in Schemas |-> [f \in 1 .. MaxFiles |-> "none"]]

Init ==
    /\ dump \in [Schemas -> {d \in Dumps : d.file = 1}]
    /\ schema \in {"empty", "legacy", "drifted"}
    /\ canonical = [r \in Refs |-> 0]
    /\ suspended = {}
    /\ mapping = [s \in Schemas |-> [r \in Refs |-> "none"]]
    /\ receipt = [s \in Schemas |-> "none"]
    /\ record = [s \in Schemas |-> [f \in 1 .. MaxFiles |-> "none"]]
    /\ run = None
    /\ verdict = "none"
    /\ runs = 0
    /\ faults = 0
    /\ rollbacks = 0

\* The operator delivers another dump, under another file name.
Deliver(s, d) ==
    /\ run = None
    /\ d.file = dump[s].file + 1
    /\ dump' = [dump EXCEPT ![s] = d]
    /\ UNCHANGED <<schema, tables, run, verdict, runs, faults, rollbacks>>

-----------------------------------------------------------------------------
(* One run of run_migration.                                               *)

DryMode(mode) == mode \in {"dry", "dry_run"}

\* A strict run refuses a schema without a dump or with two.
Refuses(options) == options.strict /\ \E s \in Schemas : dump[s].found # 1

Present == {s \in Schemas : dump[s].found > 0}

\* ensure_runtime_schema: create, stamp or carry on; a drifted database stops
\* the run and is never dropped.
ensure_runtime_schema ==
    /\ schema # "drifted"
    /\ schema' = "versioned"
    /\ UNCHANGED tables

\* reset_and_upgrade, which --reset-db acknowledges explicitly.
reset_and_upgrade == schema' = "versioned" /\ Fresh

NewRun(mode, options) ==
    [mode |-> mode, options |-> options, todo |-> Present, due |-> None,
     receipts |-> IF DryMode(mode) THEN {} ELSE Present, errors |-> FALSE,
     counts |-> None, records |-> 0]

\* How a run opens the database.
Opens(mode, options) ==
    IF DryMode(mode) THEN UNCHANGED <<schema, tables>>
    ELSE IF options.reset THEN reset_and_upgrade ELSE ensure_runtime_schema

\* The command line: one run, dry or not, or the acceptance flow, which makes
\* every stage strict and starts with a dry one.
Start(mode, options) ==
    /\ run = None /\ runs < MaxRuns
    /\ runs' = runs + 1
    /\ IF Refuses(options)
       THEN /\ verdict' = "failed"
            /\ UNCHANGED <<schema, tables, run>>
       ELSE /\ Opens(mode, options)
            /\ run' = NewRun(mode, options)
            /\ verdict' = "none"
    /\ UNCHANGED <<dump, faults, rollbacks>>

\* Always inserting a mapping of its own, and leaving the others alone.
MappedAlone(s, r) == [mapping[s] EXCEPT ![r] = "mapped"]

\* upsert_legacy_mapping_in_session: the mappings of one legacy object after it
\* is mapped to code r.  Two codes for one object conflict, both of them.
Upserted(s, r) ==
    LET others == {q \in Refs \ {r} : mapping[s][q] # "none"} IN
    IF others = {} THEN [mapping[s] EXCEPT ![r] = "mapped"]
    ELSE IF mapping[s][r] # "none" THEN [mapping[s] EXCEPT ![r] = "conflicted"]
    ELSE [q \in Refs |-> IF q \in others \union {r} THEN "conflicted" ELSE mapping[s][q]]

\* The repositories' upserts: one row per code.
RowsOf(r) == 1

\* The mapper's pass over the rows of a dump: the canonical row and its mapping
\* in one commit, or an error counted.  A dry run only counts.
ImportRows(s) ==
    /\ run # None /\ run.due = None /\ s \in run.todo
    /\ IF DryMode(run.mode) \/ dump[s].row = Bad
       THEN UNCHANGED <<canonical, mapping>>
       ELSE /\ canonical' = [canonical EXCEPT ![dump[s].row] = RowsOf(dump[s].row)]
            /\ mapping' = [mapping EXCEPT ![s] = Upserted(s, dump[s].row)]
    /\ run' = [run EXCEPT !.todo = @ \ {s},
                          !.due = IF DryMode(run.mode) THEN None ELSE s,
                          !.errors = @ \/ (dump[s].row = Bad /\ ~DryMode(run.mode))]
    /\ UNCHANGED <<dump, schema, suspended, receipt, record, verdict, runs, faults, rollbacks>>

\* The import of one schema raises: a strict run stops importing, another one
\* goes on with the next schema.
ImportRaises(s) ==
    /\ run # None /\ run.due = None /\ s \in run.todo
    /\ faults < MaxFaults
    /\ faults' = faults + 1
    /\ run' = [run EXCEPT !.errors = TRUE,
                          !.todo = IF run.options.strict THEN {} ELSE @ \ {s}]
    /\ UNCHANGED <<dump, schema, tables, verdict, runs, rollbacks>>

\* The status finish_run derives from the errors of the pass.
RecordStatus(s) == IF dump[s].row = Bad THEN "partial_failure" ELSE "succeeded"

\* finish_run: the record of this dump file is inserted or overwritten.
finish_run(s) ==
    /\ run # None /\ run.due = s
    /\ record' = [record EXCEPT ![s][dump[s].file] = RecordStatus(s)]
    /\ run' = [run EXCEPT !.due = None]
    /\ UNCHANGED <<dump, schema, canonical, suspended, mapping, receipt, verdict, runs,
                   faults, rollbacks>>

\* _write_audit_only_skip_evidence, for one table: the mapping first, the audit
\* event, if there is none yet, in a second commit.
WriteReceipt(s) ==
    /\ run # None /\ run.todo = {} /\ run.due = None
    /\ s \in run.receipts
    /\ IF receipt[s] = "none"
       THEN /\ receipt' = [receipt EXCEPT ![s] = "mapping"]
            /\ UNCHANGED run
       ELSE /\ receipt' = [receipt EXCEPT ![s] = "both"]
            /\ run' = [run EXCEPT !.receipts = @ \ {s}]
    /\ UNCHANGED <<dump, schema, canonical, suspended, mapping, record, verdict, runs,
                   faults, rollbacks>>

FailedRecords == {sf \in Schemas \X (1 .. MaxFiles) : record[sf[1]][sf[2]] = "partial_failure"}

Records == {sf \in Schemas \X (1 .. MaxFiles) : record[sf[1]][sf[2]] # "none"}

Conflicted == {s \in Schemas : \E r \in Refs : mapping[s][r] = "conflicted"}

\* verify_legacy_migration: every mapping resolves to a canonical row, whatever
\* its status; conflicts count only when asked for.
VerificationFails(options) ==
    \/ \E s \in Schemas, r \in Refs : mapping[s][r] # "none" /\ canonical[r] = 0
    \/ options.zero /\ Conflicted # {}

\* Skipping the look at tables nobody maps.
IgnoresUnknown == run.errors \/ (~DryMode(run.mode) /\
    (FailedRecords # {} \/ VerificationFails(run.options)))

\* The errors of a run: raised imports and row errors, unknown tables with
\* rows, failed run records of any dump, and the verification.
HasErrors ==
    \/ run.errors
    \/ \E s \in Present : dump[s].unknown
    \/ ~DryMode(run.mode) /\ (FailedRecords # {} \/ VerificationFails(run.options))

\* What follows a stage: the acceptance flow goes on to the next one, which
\* opens the database again; a failed stage and the last one end the run.  The
\* flow succeeds when the repeated import changed no count and no record.
EndStage ==
    /\ run # None /\ run.todo = {} /\ run.due = None /\ run.receipts = {}
    /\ LET next == CASE run.mode = "dry_run" -> "apply"
                     [] run.mode = "apply" -> "repeat_apply"
                     [] OTHER -> "none"
           options == [run.options EXCEPT !.reset = @ /\ next = "apply"]
           stable == run.mode = "repeat_apply" =>
                        run.counts = canonical /\ run.records = Cardinality(Records)
       IN
       IF HasErrors \/ next = "none"
       THEN /\ verdict' = IF HasErrors \/ ~stable THEN "failed" ELSE "succeeded"
            /\ run' = None
            /\ UNCHANGED <<schema, tables>>
       ELSE /\ Opens(next, options)
            /\ run' = [NewRun(next, options) EXCEPT !.counts = canonical,
                                                    !.records = Cardinality(Records)]
            /\ UNCHANGED verdict
    /\ UNCHANGED <<dump, runs, faults, rollbacks>>

\* The process dies.
Crash ==
    /\ run # None /\ faults < MaxFaults
    /\ faults' = faults + 1
    /\ run' = None
    /\ UNCHANGED <<dump, schema, tables, verdict, runs, rollbacks>>

-----------------------------------------------------------------------------
(* The rollback.                                                           *)

\* The primary key of a canonical row is a generated id, never its code.
RowId(r) == <<"id", r>>

\* rollback --commit for one legacy system: its mappings are marked, and with
\* also_suspend_canonical the rows whose id is a mapping's canonical_ref are
\* suspended.
rollback(s, also_suspend_canonical) ==
    LET scope == {r \in Refs : mapping[s][r] # "none"} IN
    /\ rollbacks < MaxRollbacks
    /\ schema # "drifted" /\ scope # {}
    /\ rollbacks' = rollbacks + 1
    /\ mapping' = [mapping EXCEPT ![s] =
                      [r \in Refs |-> IF r \in scope THEN "rolled_back" ELSE "none"]]
    /\ suspended' = suspended \union
           {r \in Refs : also_suspend_canonical /\ canonical[r] > 0 /\ RowId(r) \in scope}
    /\ UNCHANGED <<dump, schema, canonical, receipt, record, run, verdict, runs, faults>>

-----------------------------------------------------------------------------
AcceptanceOptions == {o \in Options : o.strict}

Next ==
    \/ \E s \in Schemas, d \in Dumps : Deliver(s, d)
    \/ \E mode \in {"single", "dry"}, o \in Options : Start(mode, o)
    \/ \E o \in AcceptanceOptions : Start("dry_run", o)
    \/ \E s \in Schemas : \/ ImportRows(s) \/ ImportRaises(s) \/ finish_run(s)
                          \/ WriteReceipt(s)
    \/ EndStage
    \/ Crash
    \/ \E s \in Schemas, also \in BOOLEAN : rollback(s, also)

Spec == Init /\ [][Next]_vars

-----------------------------------------------------------------------------
(* A legacy object that ever was mapped to two codes is mapped to neither:  *)
(* no rollback, new dump or repeated import makes one of them look settled. *)
AmbiguousNeverMapped ==
    \A s \in Schemas :
        Cardinality({r \in Refs : mapping[s][r] # "none"}) > 1 =>
            \A r \in Refs : mapping[s][r] # "mapped"

(* A run that reports success left every delivered object with its own      *)
(* mapping and canonical row, every skipped table receipted twice over, and *)
(* no table unaccounted, whatever crashed or was rolled back before.        *)
SucceededIsComplete ==
    [][verdict # "succeeded" /\ verdict' = "succeeded" /\ ~DryMode(run.mode) =>
        \A s \in Present :
            /\ dump[s].row \in Refs
            /\ mapping'[s][dump[s].row] # "none"
            /\ canonical'[dump[s].row] > 0
            /\ receipt'[s] = "both"
            /\ ~dump[s].unknown]_vars

(* The acceptance flow's repeated import adds no canonical row and no run   *)
(* record: the same dumps find what the first import wrote.                 *)
RepeatAddsNothing ==
    [][run # None /\ run.mode = "repeat_apply" =>
        canonical' = canonical /\ Records' = Records]_vars

(* A succeeded run record is never ahead of the rows it stands for, also    *)
(* when the import died on the way.                                         *)
RecordFollowsRows ==
    \A s \in Schemas : (\E f \in 1 .. MaxFiles : record[s][f] = "succeeded") =>
        \E r \in Refs : mapping[s][r] # "none" /\ canonical[r] > 0

\* The account of an import is true: a succeeded record has its rows, a succeeded
\* run has all of them, and a repeated one adds nothing (write_migration_run,
\* verification.py, the repeat_apply mode of migration_batch.py).
AccountsAreTrue == []RecordFollowsRows /\ SucceededIsComplete /\ RepeatAddsNothing
=============================================================================
