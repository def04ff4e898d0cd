----------------------------- MODULE AuditTrail -----------------------------
(***************************************************************************)
(* The audit trail: the bus (shared/audit), whose sink writes every event  *)
(* to the audit store and then to the main database (command/runtime.py),  *)
(* the emitters, and the skills that read the trail (handlers/b1/audit.py, *)
(* investigation.py, intake.py).                                           *)
(*                                                                         *)
(* An event is stamped before the store's lock is taken, so the store's    *)
(* rows need not be in the order of their times.  Whoever reads the store  *)
(* writes an event about it before the answer is given.  Payloads are cut  *)
(* down to what the verdicts look at.                                      *)
(***************************************************************************)
EXTENDS FiniteSets, Integers, Sequences, TLC

CONSTANTS
    AuditThreads,      \* requests under way at once
    Actors, Auditor,   \* who calls skills, and who reads the trail
    AGENT,             \* actor of the trust cuts' reject events
    Tenant,            \* the runtime's tenant
    Calls,             \* audit class and decision of the skill calls
    Residue,           \* rows of earlier deployments, in the store from the start
    NoWork,
    QUERY_LIMIT,       \* limit of a read of the store
    LIST_LIMIT,        \* limit of audit.list
    MIN_FAILURES, TOP_N, \* min_failure_count and top_n of audit.event.anomaly
    MaxOps,            \* bound on skill calls
    MaxClock,          \* bound on the clock
    MaxSinkFaults      \* bound on failing writes

ASSUME TrailAssumption ==
    /\ {QUERY_LIMIT, LIST_LIMIT, MIN_FAILURES, TOP_N} \subseteq Nat \ {0}
    /\ {MaxOps, MaxClock, MaxSinkFaults} \subseteq Nat

\* A row of an earlier deployment has its stamp, and the id of no call of this one.
ASSUME ResidueAssumption ==
    /\ Residue \in Seq({Residue[k] : k \in DOMAIN Residue})
    /\ \A k \in DOMAIN Residue : Residue[k].time \in Int /\ Residue[k].request \notin Nat \ {0}

VARIABLES
    store,             \* audit_event of the audit schema
    main,              \* audit_event of the main database
    work,              \* what each thread is doing
    ops,               \* skill calls so far: ids.new_audit_id
    clock, sinkFaults

trailVars == <<store, main, work, ops, clock, sinkFaults>>

TrailInit ==
    /\ store = Residue /\ main = <<>>
    /\ work = [t \in AuditThreads |-> NoWork]
    /\ ops = 0 /\ clock = 0 /\ sinkFaults = 0

\* normalize_audit_class; what it does not know is read-sensitive.
normalize_audit_class(raw) ==
    CASE raw \in {"write-critical", "adapter-write", "external-execution"} -> "write-critical"
      [] raw \in {"write-normal", "write-default"} -> "write-normal"
      [] OTHER -> "read-sensitive"

Event(request, actor, phase, raw, outcome, error, decision) ==
    [request |-> request, actor |-> actor, tenant |-> Tenant, phase |-> phase,
     audit_class |-> normalize_audit_class(raw), outcome |-> outcome, error |-> error,
     decision |-> decision, count |-> 0, time |-> 0]

Untimed(e) == [e EXCEPT !.time = 0]

-----------------------------------------------------------------------------
(* Reading.                                                                *)

\* Mutant: rows of one time in the wrong order.
TiesBackwards(rows, i, j) ==
    rows[i].time < rows[j].time \/ (rows[i].time = rows[j].time /\ i > j)

\* ORDER BY occurred_at ASC, id ASC.
Earlier(rows, i, j) ==
    rows[i].time < rows[j].time \/ (rows[i].time = rows[j].time /\ i < j)

\* AuditStore.query for the rows with the wanted ids: the limit takes the oldest,
\* and the answer has them in the order of Earlier.
Query(rows, wanted) ==
    {i \in wanted : Cardinality({j \in wanted : Earlier(rows, j, i)}) < QUERY_LIMIT}

InTenant(rows) == Query(rows, {i \in DOMAIN rows : rows[i].tenant = Tenant})

\* list_by_request_id, and then only the tenant's events.
Replay(rows, request) ==
    {i \in Query(rows, {i \in DOMAIN rows : rows[i].request = request}) :
        rows[i].tenant = Tenant}

\* handler_audit_event_accountability: the chains of an actor's refusals.
DeniedChains(rows, actor) ==
    LET own == Query(rows, {i \in DOMAIN rows : rows[i].tenant = Tenant /\ rows[i].actor = actor})
    IN {rows[i].request : i \in {i \in own : rows[i].outcome = "denied"}}

\* The failures _detect_high_failure_rate counts.
FailedRow(e) == e.phase = "error" \/ e.outcome = "denied" \/ e.error

FailuresOf(rows, scope, actor) == {i \in scope : rows[i].actor = actor /\ FailedRow(rows[i])}
ActorsOf(rows, scope) == {rows[i].actor : i \in scope}

Anomaly(rule, about, severity, n) ==
    [rule |-> rule, about |-> about, severity |-> severity, occurrences |-> n]

\* _detect_cross_tenant_read looks at the read-sensitive rows of all tenants.
CrossTenantRead(rows) ==
    LET reads == Query(rows, {i \in DOMAIN rows : rows[i].audit_class = "read-sensitive"})
        ReadsOf(a) == {i \in reads : rows[i].actor = a}
    IN {Anomaly("cross-tenant-read", a, 0, Cardinality(ReadsOf(a))) :
            a \in {a \in ActorsOf(rows, reads) :
                      Cardinality({rows[i].tenant : i \in ReadsOf(a)}) > 1}}

HighFailureRate(rows, scope) ==
    LET N(a) == Cardinality(FailuresOf(rows, scope, a))
    IN {Anomaly("high-failure-rate", a, IF N(a) < 2 * MIN_FAILURES THEN 1 ELSE 0, N(a)) :
            a \in {a \in ActorsOf(rows, scope) : N(a) >= MIN_FAILURES}}

RepeatedDenied(rows, scope) ==
    LET N(r) == Cardinality({i \in scope : rows[i].request = r /\ rows[i].outcome = "denied"})
    IN {Anomaly("repeated-denied", r, 0, N(r)) :
            r \in {r \in {rows[i].request : i \in scope} : N(r) >= 2}}

Detected(rows) ==
    CrossTenantRead(rows) \union HighFailureRate(rows, InTenant(rows))
        \union RepeatedDenied(rows, InTenant(rows))

\* The report's order, severe ones first, then the frequent ones (a tie is
\* left to the order of detection).
Before(a, b) == \/ a.severity < b.severity
                \/ a.severity = b.severity /\ a.occurrences > b.occurrences

\* audit.event.anomaly: the first TOP_N.
Reported(rows) ==
    LET found == Detected(rows)
        report == CHOOSE s \in SUBSET found :
            /\ Cardinality(s) = IF Cardinality(found) < TOP_N THEN Cardinality(found) ELSE TOP_N
            /\ \A a \in s, b \in found \ s : ~Before(b, a)
    IN report

\* derive_audit_result: the verdict of the time line of audit.list.
derive_audit_result(e) ==
    IF FailedRow(e) \/ e.decision \in {"reject", "rejected", "deny", "denied"}
    THEN "failed" ELSE "ok"

\* _list_audit_events: the latest rows of the main database, in their order.
Timeline(rows) ==
    LET skipped == IF Len(rows) > LIST_LIMIT THEN Len(rows) - LIST_LIMIT ELSE 0
    IN [k \in 1 .. Len(rows) - skipped |->
           [event |-> rows[skipped + k], result |-> derive_audit_result(rows[skipped + k])]]

-----------------------------------------------------------------------------
(* Emitting.                                                               *)

Pending(t, op, event) ==
    work' = [work EXCEPT ![t] = [op |-> op, step |-> "emit", event |-> event, shown |-> 0]]
Become(t, step) == work' = [work EXCEPT ![t].step = step]
At(t, step) == work[t] # NoWork /\ work[t].step = step

\* AuditEmitMiddleware: the event before the call.
StartWrite(t, actor, raw, decision) ==
    /\ work[t] = NoWork /\ ops < MaxOps
    /\ ops' = ops + 1
    /\ Pending(t, "write", Event(ops', actor, "before", raw, "none", FALSE, decision))
    /\ UNCHANGED <<store, main, clock, sinkFaults>>

\* ... and the one after it; the result of the skill is the payload.
FinishWrite(t, error) ==
    /\ At(t, "done") /\ work[t].op = "write" /\ work[t].event.phase = "before"
    /\ Pending(t, "write", [work[t].event EXCEPT !.phase = IF error THEN "error" ELSE "after",
                                !.error = error, !.decision = "none"])
    /\ UNCHANGED <<store, main, ops, clock, sinkFaults>>

\* _emit_deny_audit: a new id for every refusal.
Refuse(t, actor) ==
    /\ work[t] = NoWork /\ ops < MaxOps
    /\ ops' = ops + 1
    /\ Pending(t, "deny", Event(ops', actor, "error", "write-default", "denied", FALSE, "deny"))
    /\ UNCHANGED <<store, main, clock, sinkFaults>>

\* _emit_mcp_reject_audit and the one of A2A: one id for all refusals of a tool.
RejectUntrusted(t) ==
    /\ work[t] = NoWork /\ ops < MaxOps
    /\ ops' = ops + 1
    /\ Pending(t, "deny", Event(0, AGENT, "reject", "read-sensitive", "none", FALSE, "reject"))
    /\ UNCHANGED <<store, main, clock, sinkFaults>>

\* _emit_meta_audit: the rows have been read, the reader's own event is next.
ReadTrail(t, n) ==
    /\ work[t] = NoWork /\ ops < MaxOps
    /\ ops' = ops + 1
    /\ work' = [work EXCEPT ![t] =
           [op |-> "read", step |-> "emit", shown |-> n,
            event |-> [Event(ops', Auditor, "commit", "read-sensitive", "none", FALSE, "none")
                          EXCEPT !.count = n]]]
    /\ UNCHANGED <<store, main, clock, sinkFaults>>

audit_event_query(t) == ReadTrail(t, Cardinality(InTenant(store)))
audit_event_replay(t, request) == ReadTrail(t, Cardinality(Replay(store, request)))
\* Every event read falls into one bucket.
audit_event_statistics(t) == ReadTrail(t, Cardinality(InTenant(store)))
audit_event_anomaly(t) == ReadTrail(t, Cardinality(Reported(store)))
audit_event_accountability(t, who) == ReadTrail(t, Cardinality(DeniedChains(store, who)))
\* The panel is the caller's; the store is not read.
assistant_investigation_summary(t) == ReadTrail(t, 0)
package_exposure_matrix_query(t) == ReadTrail(t, 0)

\* The sink stamps the event ...
Stamp(t) ==
    /\ At(t, "emit")
    /\ work' = [work EXCEPT ![t].event.time = clock, ![t].step = "store"]
    /\ UNCHANGED <<store, main, ops, clock, sinkFaults>>

\* The main database first.
MainFirst(t) ==
    /\ main' = Append(main, Untimed(work[t].event))
    /\ UNCHANGED store

\* ... appends it to the store ...
FirstSink(t) ==
    /\ store' = Append(store, work[t].event)
    /\ UNCHANGED main

AppendToStore(t) ==
    /\ At(t, "store")
    /\ FirstSink(t)
    /\ Become(t, "main")
    /\ UNCHANGED <<ops, clock, sinkFaults>>

\* ... and then to the main database, whose rows are stamped as they are added.
AppendToMain(t) ==
    /\ At(t, "main")
    /\ main' = Append(main, Untimed(work[t].event))
    /\ Become(t, "done")
    /\ UNCHANGED <<store, ops, clock, sinkFaults>>

\* A sink that fails is an AuditWriteError to the caller.
AfterSinkFault(t) == Become(t, "failed")

SinkFails(t) ==
    /\ At(t, "store") \/ At(t, "main")
    /\ sinkFaults < MaxSinkFaults
    /\ sinkFaults' = sinkFaults + 1
    /\ AfterSinkFault(t)
    /\ UNCHANGED <<store, main, ops, clock>>

\* The caller has its answer, or its error.
EndWork(t) ==
    /\ \/ At(t, "failed")
       \/ At(t, "done") /\ ~(work[t].op = "write" /\ work[t].event.phase = "before")
    /\ work' = [work EXCEPT ![t] = NoWork]
    /\ UNCHANGED <<store, main, ops, clock, sinkFaults>>

ClockTick ==
    /\ clock < MaxClock
    /\ clock' = clock + 1
    /\ UNCHANGED <<store, main, work, ops, sinkFaults>>

TrailNext ==
    \/ \E t \in AuditThreads :
          \/ \E a \in Actors, c \in Calls : StartWrite(t, a, c[1], c[2])
          \/ \E error \in BOOLEAN : FinishWrite(t, error)
          \/ \E a \in Actors : Refuse(t, a)
          \/ RejectUntrusted(t)
          \/ audit_event_query(t) \/ audit_event_statistics(t) \/ audit_event_anomaly(t)
          \/ \E request \in 0 .. ops : audit_event_replay(t, request)
          \/ \E who \in Actors : audit_event_accountability(t, who)
          \/ assistant_investigation_summary(t) \/ package_exposure_matrix_query(t)
          \/ Stamp(t) \/ AppendToStore(t) \/ AppendToMain(t) \/ SinkFails(t) \/ EndWork(t)
    \/ ClockTick

TrailSpec == TrailInit /\ [][TrailNext]_trailVars

-----------------------------------------------------------------------------

OnRecord(rows, e) == \E k \in 1 .. Len(rows) : Untimed(rows[k]) = Untimed(e)

\* The audit store leads: whatever the main database shows is in the store,
\* whichever sink failed and however the threads interleave, and an emit that
\* returned is in both.
StoreLeads ==
    /\ \A k \in 1 .. Len(main) : OnRecord(store, main[k])
    /\ \A t \in AuditThreads : At(t, "done") /\ work[t].op # "read" =>
           OnRecord(store, work[t].event) /\ OnRecord(main, work[t].event)

\* Nobody reads the trail unseen: an answer was given only with its event in
\* both databases, stating how much was shown.
ReadersOnRecord ==
    \A t \in AuditThreads : At(t, "done") /\ work[t].op = "read" =>
        /\ work[t].event.count = work[t].shown
        /\ OnRecord(store, work[t].event) /\ OnRecord(main, work[t].event)

\* A replay shows the events of a call in the order in which they happened,
\* although other threads' rows lie between them and their times may tie.
ReplayInOrder ==
    \A r \in 1 .. ops : \A i, j \in Replay(store, r) :
        Earlier(store, i, j) => store[j].phase # "before"

\* The scan of the trail misses no actor with MIN_FAILURES failures on
\* record: it is reported, unless the scan ran into its limit or TOP_N
\* findings, none of them milder, took the places.  Each of those failures
\* is a failure on the time line of audit.list as well, if still shown.
ScanMissesNoFailures ==
    /\ \A a \in Actors \union {AGENT} :
          LET failures == {k \in 1 .. Len(store) :
                  /\ store[k].actor = a /\ store[k].tenant = Tenant
                  /\ store[k].phase = "error" \/ store[k].error \/ store[k].outcome = "denied"}
              report == Reported(store)
          IN Cardinality(failures) >= MIN_FAILURES =>
                \/ \E f \in report : f.rule = "high-failure-rate" /\ f.about = a
                \/ Cardinality(InTenant(store)) = QUERY_LIMIT
                \/ /\ Cardinality(report) = TOP_N
                   /\ Cardinality(failures) >= 2 * MIN_FAILURES
                          => \A f \in report : f.severity = 0
    /\ \A k \in 1 .. Len(Timeline(main)) :
          FailedRow(Timeline(main)[k].event) => Timeline(main)[k].result = "failed"

\* The two together: the audit store holds all the main database shows, and those
\* who read the trail are on it, whichever sink fails (runtime.py, b1/audit.py).
TrailComplete == StoreLeads /\ ReadersOnRecord

\* The two together: a replay is in the order of events and the scan leaves out no
\* failure it has room for (Replay, the scan of audit.event.anomaly).
TrailReadWhole == ReplayInOrder /\ ScanMissesNoFailures
=============================================================================
