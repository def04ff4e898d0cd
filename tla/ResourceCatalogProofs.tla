------------------------ MODULE ResourceCatalogProofs ------------------------
(***************************************************************************)
(* Proofs about ResourceCatalog: what is cleared for publication shows no  *)
(* reason to fix it, entries are cleared by a review and assets stay with  *)
(* their owner, for any catalogs, assets, orgs and requests in flight;     *)
(* about ApprovalFlows: templates and the cases they start agree, for any  *)
(* flows, levels, scopes and applications; about FormTemplates: versions   *)
(* stay apart, pages check what forms say and sentences make valid forms;  *)
(* and about Recommendations: versions stay apart and no closed resource   *)
(* is suggested, for any forms, rules, items and past requirements.        *)
(***************************************************************************)
EXTENDS ResourceCatalog, ApprovalFlows, FormTemplates, Recommendations, FiniteSetTheorems, WellFoundedInduction, TLAPS

-----------------------------------------------------------------------------
(* The inductive invariant                                                 *)

\* A reviewer's check found an entry he may approve.
ReviewChecked(j) == j.op = "review" => MayApprove(j.seen, j.role)

\* A mount writes no reason, and its check found no asset or one of the same owner.
MountChecked(j) ==
    j.op = "mount" => /\ ~j.asset.reason
                      /\ j.seen \in {Nothing, j.asset.owner}

JobsChecked == \A t \in Threads : job[t] # Idle => ReviewChecked(job[t]) /\ MountChecked(job[t])

IInv == TypeOK /\ NoStaleReason /\ JobsChecked

\* What one step may make of the rows of an entry and of an asset.
EntryStepOK(c) ==
    entry'[c] # entry[c] =>
       /\ entry'[c] \in Entries
       /\ entry'[c].status = "approved_pending_publish" => ~entry'[c].reason
       /\ entry'[c].status = "approved_pending_publish" =>
             \/ EntryExists(c) /\ entry[c].status = "approved_pending_publish"
             \/ c \in Seeded /\ UNCHANGED job
             \/ \E t \in Threads :
                   /\ job[t] # Idle /\ job[t].op = "review" /\ job[t].on = c
                   /\ job'[t] = Idle

AssetStepOK(a) ==
    asset'[a] # asset[a] =>
       /\ asset'[a] \in AssetRecords
       /\ asset'[a].status = "approved_pending_publish" => ~asset'[a].reason
       /\ AssetExists(a) /\ asset'[a].owner # asset[a].owner /\ asset'[a].kind # "api" =>
             \E t \in Threads : /\ job[t] # Idle /\ job[t].op = "mount" /\ job[t].on = a
                                /\ job'[t] = Idle /\ job[t].asset.owner = asset'[a].owner

\* The rows keep their domains, and a thread's new job was checked.
StepOK ==
    /\ entry' \in [Catalogs -> Entries \union {Nothing}]
    /\ asset' \in [Assets -> AssetRecords \union {Nothing}]
    /\ job' \in [Threads -> Jobs \union {Idle}]
    /\ \A c \in Catalogs : EntryStepOK(c)
    /\ \A a \in Assets : AssetStepOK(a)
    /\ \A t \in Threads : \/ job'[t] = job[t]
                          \/ job'[t] = Idle
                          \/ ReviewChecked(job'[t]) /\ MountChecked(job'[t])

-----------------------------------------------------------------------------
(* Jobs                                                                    *)

\* What a job holds, by its operation.
LEMMA JobFields ==
    ASSUME NEW j \in Jobs
    PROVE  /\ j.op = "review" => j.on \in Catalogs /\ j.role \in Roles
                                 /\ j.seen \in EntryStatuses
           /\ j.op = "submit_entry" => j.on \in Catalogs
           /\ j.op = "submit_asset" => j.on \in Assets
           /\ j.op = "mount" => j.on \in Assets /\ j.asset \in AssetRecords
                                /\ j.seen \in Orgs \union {Nothing}
  BY DEF Jobs

\* A job that takes no row along.
LEMMA PlainJobs ==
    /\ \A c \in Catalogs, role \in Roles, seen \in EntryStatuses :
          [op |-> "review", on |-> c, role |-> role, seen |-> seen] \in Jobs
    /\ \A c \in Catalogs : [op |-> "submit_entry", on |-> c] \in Jobs
    /\ \A a \in Assets : [op |-> "submit_asset", on |-> a] \in Jobs
    /\ \A a \in Assets, r \in AssetRecords, seen \in Orgs \union {Nothing} :
          [op |-> "mount", on |-> a, asset |-> r, seen |-> seen] \in Jobs
  BY DEF Jobs

-----------------------------------------------------------------------------
(* The steps                                                               *)

\* A new record in the row of an entry, and nothing else that matters.
LEMMA WriteEntry ==
    ASSUME IInv, NEW c \in Catalogs, NEW r \in Entries, upsert_from_resource(c, r),
           r.status = "approved_pending_publish" => ~r.reason,
           r.status = "approved_pending_publish" =>
             \/ EntryExists(c) /\ entry[c].status = "approved_pending_publish"
             \/ c \in Seeded /\ UNCHANGED job
             \/ \E t \in Threads : /\ job[t] # Idle /\ job[t].op = "review" /\ job[t].on = c
                                   /\ job'[t] = Idle
    PROVE  /\ entry' \in [Catalogs -> Entries \union {Nothing}]
           /\ \A d \in Catalogs : EntryStepOK(d)
<1>1. entry \in [Catalogs -> Entries \union {Nothing}]
  BY DEF IInv, TypeOK
<1>2. entry' = [entry EXCEPT ![c] = r]
  BY DEF upsert_from_resource
<1>3. entry' \in [Catalogs -> Entries \union {Nothing}]
  BY <1>1, <1>2
<1>4. entry'[c] = r /\ \A d \in Catalogs : d # c => entry'[d] = entry[d]
  BY <1>1, <1>2
<1>5. EntryStepOK(c)
  BY <1>4 DEF EntryStepOK
<1>6. \A d \in Catalogs : d # c => EntryStepOK(d)
  BY <1>4 DEF EntryStepOK
<1>. QED  BY <1>3, <1>5, <1>6

\* A row moved to another status, which is cleared only by a review.
LEMMA MoveEntry ==
    ASSUME IInv, NEW c \in Catalogs, NEW s \in EntryStatuses, NEW note,
           transition_catalog_entry(c, s, note),
           s = "approved_pending_publish" =>
             /\ note = "empty"
             /\ \E t \in Threads : /\ job[t] # Idle /\ job[t].op = "review" /\ job[t].on = c
                                   /\ job'[t] = Idle
    PROVE  /\ entry' \in [Catalogs -> Entries \union {Nothing}]
           /\ \A d \in Catalogs : EntryStepOK(d)
<1> DEFINE shown == CASE note = "reason" -> TRUE
                      [] note = "empty" -> FALSE
                      [] OTHER -> entry[c].reason
           new == [entry[c] EXCEPT !.status = s, !.reason = shown]
<1>1. entry[c] \in Entries
  BY DEF transition_catalog_entry, EntryExists, IInv, TypeOK
<1>2. shown \in BOOLEAN
  BY <1>1 DEF Entries
<1>3. new \in Entries /\ new.status = s /\ new.reason = shown
  BY <1>1, <1>2 DEF Entries
<1>4. upsert_from_resource(c, new)
  BY <1>1 DEF transition_catalog_entry, Entries
<1>5. s = "approved_pending_publish" => ~shown
  OBVIOUS
<1> HIDE DEF shown, new
<1>. QED  BY <1>3, <1>4, <1>5, WriteEntry

\* A new record in the row of an asset.
LEMMA WriteAsset ==
    ASSUME IInv, NEW a \in Assets, NEW r \in AssetRecords, upsert_asset(a, r),
           r.status = "approved_pending_publish" => ~r.reason,
           AssetExists(a) /\ r.owner # asset[a].owner /\ r.kind # "api" =>
             \E t \in Threads : /\ job[t] # Idle /\ job[t].op = "mount" /\ job[t].on = a
                                /\ job'[t] = Idle /\ job[t].asset.owner = r.owner
    PROVE  /\ asset' \in [Assets -> AssetRecords \union {Nothing}]
           /\ \A b \in Assets : AssetStepOK(b)
<1>1. asset \in [Assets -> AssetRecords \union {Nothing}]
  BY DEF IInv, TypeOK
<1>2. asset' = [asset EXCEPT ![a] = r]
  BY DEF upsert_asset
<1>3. asset' \in [Assets -> AssetRecords \union {Nothing}]
  BY <1>1, <1>2
<1>4. asset'[a] = r /\ \A b \in Assets : b # a => asset'[b] = asset[b]
  BY <1>1, <1>2
<1>5. AssetStepOK(a)
  BY <1>4 DEF AssetStepOK
<1>6. \A b \in Assets : b # a => AssetStepOK(b)
  BY <1>4 DEF AssetStepOK
<1>. QED  BY <1>3, <1>5, <1>6

\* transition_asset clears the note of what it clears for publication.
LEMMA MoveAsset ==
    ASSUME IInv, NEW a \in Assets, NEW s \in AssetStatuses, NEW note,
           transition_asset(a, s, note), s = "approved_pending_publish" => note = "empty"
    PROVE  /\ asset' \in [Assets -> AssetRecords \union {Nothing}]
           /\ \A b \in Assets : AssetStepOK(b)
<1> DEFINE shown == CASE note = "reason" -> TRUE
                      [] note = "empty" -> FALSE
                      [] OTHER -> asset[a].reason
           new == [asset[a] EXCEPT !.status = s, !.reason = shown]
<1>1. asset[a] \in AssetRecords /\ asset \in [Assets -> AssetRecords \union {Nothing}]
  BY DEF transition_asset, AssetExists, IInv, TypeOK
<1>2. shown \in BOOLEAN
  BY <1>1 DEF AssetRecords
<1>3. new \in AssetRecords /\ new.status = s /\ new.reason = shown /\ new.owner = asset[a].owner
  BY <1>1, <1>2 DEF AssetRecords
<1>4. upsert_asset(a, new)
  BY <1>1 DEF transition_asset, upsert_asset, AssetRecords
<1>5. s = "approved_pending_publish" => ~shown
  OBVIOUS
<1> HIDE DEF shown, new
<1>. QED  BY <1>3, <1>4, <1>5, WriteAsset

\* Steps on an entry.
LEMMA EntrySteps ==
    ASSUME IInv, NEW c \in Catalogs, EntryStep(c)
    PROVE  StepOK
<1>1. asset' = asset /\ job' = job
  BY DEF EntryStep, create_catalog_entry_draft, update_catalog_entry, manage_catalog_entry,
         create_catalog_entry_reverse_draft, confirm_catalog_entry_reverse_draft,
         reject_catalog_entry_reverse_draft, review_catalog_entry, publish_catalog_entry,
         withdraw_catalog_entry
<1> DEFINE Goal == /\ entry' \in [Catalogs -> Entries \union {Nothing}]
                   /\ \A d \in Catalogs : EntryStepOK(d)
<1>2. ASSUME NEW org \in Orgs, NEW complete \in BOOLEAN,
             create_catalog_entry_draft(c, org, complete)
      PROVE  Goal
  <2> DEFINE r == [status |-> "draft", owner |-> org, source |-> "inline",
                   complete |-> complete, reason |-> FALSE]
  <2>1. r \in Entries /\ r.status = "draft"
    BY DEF Entries, EntryStatuses
  <2>. QED  BY <1>2, <2>1, WriteEntry DEF create_catalog_entry_draft
<1>3. ASSUME NEW org \in Orgs, NEW complete \in BOOLEAN,
             update_catalog_entry(c, org, complete)
      PROVE  Goal
  <2> DEFINE r == [entry[c] EXCEPT !.owner = org, !.complete = complete]
  <2>1. entry[c] \in Entries /\ EntryExists(c) /\ upsert_from_resource(c, r)
    BY <1>3 DEF update_catalog_entry, EntryExists, IInv, TypeOK
  <2>2. r \in Entries /\ r.status = entry[c].status /\ r.reason = entry[c].reason
    BY <2>1 DEF Entries
  <2>3. entry[c].status = "approved_pending_publish" => ~entry[c].reason
    BY <2>1 DEF IInv, NoStaleReason
  <2> HIDE DEF r
  <2>. QED  BY <2>1, <2>2, <2>3, WriteEntry
<1>4. ASSUME NEW org \in Orgs, create_catalog_entry_reverse_draft(c, org)
      PROVE  Goal
  <2> DEFINE r == [status |-> "draft", owner |-> org, source |-> "reverse",
                   complete |-> TRUE, reason |-> FALSE]
  <2>1. r \in Entries /\ r.status = "draft"
    BY DEF Entries, EntryStatuses
  <2>. QED  BY <1>4, <2>1, WriteEntry DEF create_catalog_entry_reverse_draft
<1>5. ASSUME NEW org \in Orgs, manage_catalog_entry(c, org)
      PROVE  Goal
  <2> DEFINE r == [status |-> "approved_pending_publish", owner |-> org,
                   source |-> "plain", complete |-> TRUE, reason |-> FALSE]
  <2>1. r \in Entries /\ ~r.reason
    BY DEF Entries, EntryStatuses
  <2>. QED  BY <1>1, <1>5, <2>1, WriteEntry DEF manage_catalog_entry
<1>6. ASSUME NEW s \in EntryStatuses \ {"approved_pending_publish"}, EntryExists(c),
             upsert_from_resource(c, [entry[c] EXCEPT !.status = s])
      PROVE  Goal
  <2> DEFINE r == [entry[c] EXCEPT !.status = s]
  <2>1. entry[c] \in Entries
    BY <1>6 DEF EntryExists, IInv, TypeOK
  <2>2. r \in Entries /\ r.status = s
    BY <2>1 DEF Entries
  <2> HIDE DEF r
  <2>. QED  BY <1>6, <2>2, WriteEntry DEF r
<1>7. ASSUME confirm_catalog_entry_reverse_draft(c) PROVE Goal
  BY <1>6, <1>7 DEF confirm_catalog_entry_reverse_draft, EntryStatuses
<1>8. ASSUME reject_catalog_entry_reverse_draft(c) PROVE Goal
  BY <1>6, <1>8 DEF reject_catalog_entry_reverse_draft, EntryStatuses
<1>9. ASSUME NEW decision \in {"return_for_fix", "reject"}, review_catalog_entry(c, decision)
      PROVE  Goal
  BY <1>9, MoveEntry DEF review_catalog_entry, EntryStatuses
<1>10. ASSUME publish_catalog_entry(c) PROVE Goal
  BY <1>10, MoveEntry DEF publish_catalog_entry, EntryStatuses
<1>11. ASSUME withdraw_catalog_entry(c) PROVE Goal
  BY <1>11, MoveEntry DEF withdraw_catalog_entry, EntryStatuses
<1>12. Goal
  BY <1>2, <1>3, <1>4, <1>5, <1>7, <1>8, <1>9, <1>10, <1>11 DEF EntryStep
<1>. QED  BY <1>1, <1>12 DEF StepOK, AssetStepOK, IInv, TypeOK

\* Steps on an asset; publishing it writes its entry as well.
LEMMA AssetSteps ==
    ASSUME IInv, NEW a \in Assets, AssetStep(a)
    PROVE  StepOK
<1>1. job' = job
  BY DEF AssetStep, register_api_resource, change_api_resource, review_api_resource,
         publish_api_resource, transition_api_resource, test_api_resource, manage_resource_asset
<1> DEFINE Goal == /\ asset' \in [Assets -> AssetRecords \union {Nothing}]
                   /\ \A b \in Assets : AssetStepOK(b)
           EntryGoal == /\ entry' \in [Catalogs -> Entries \union {Nothing}]
                        /\ \A d \in Catalogs : EntryStepOK(d)
<1>2. entry' = entry => EntryGoal
  BY DEF EntryStepOK, IInv, TypeOK
<1>3. ASSUME NEW status \in AssetStarts, NEW org \in Orgs, NEW c \in Targets,
             register_api_resource(a, status, org, c) \/ change_api_resource(a, status, org, c)
      PROVE  Goal /\ entry' = entry
  <2> DEFINE r == asset_payload("api", status, org, c, FALSE)
  <2>1. r \in AssetRecords /\ ~r.reason /\ r.kind = "api"
    BY AssetStartsAssumption DEF asset_payload, AssetRecords
  <2>2. upsert_asset(a, r) /\ entry' = entry
    BY <1>3 DEF register_api_resource, change_api_resource
  <2> HIDE DEF r
  <2>. QED  BY <2>1, <2>2, WriteAsset
<1>4. ASSUME NEW decision \in {"approve", "return_for_fix"}, review_api_resource(a, decision)
      PROVE  Goal /\ entry' = entry
  BY <1>4, MoveAsset DEF review_api_resource, AssetStatuses
<1>5. ASSUME publish_api_resource(a)
      PROVE  Goal /\ EntryGoal
  <2>1. Goal
    BY <1>5, MoveAsset DEF publish_api_resource, AssetStatuses
  <2>2. asset[a] \in AssetRecords
    BY <1>5 DEF publish_api_resource, transition_asset, AssetExists, IInv, TypeOK
  <2>3. CASE asset[a].catalog = Nothing
    BY <1>2, <1>5, <2>1, <2>3 DEF publish_api_resource
  <2>4. CASE asset[a].catalog # Nothing
    <3> DEFINE c == asset[a].catalog
               r == [status |-> "active", owner |-> asset[a].owner,
                     source |-> "plain", complete |-> TRUE, reason |-> FALSE]
    <3>1. c \in Catalogs /\ r \in Entries /\ r.status = "active"
      BY <2>2, <2>4, TargetsAssumption DEF AssetRecords, Entries, EntryStatuses
    <3>2. upsert_from_resource(c, r)
      BY <1>5, <2>4 DEF publish_api_resource
    <3> HIDE DEF c, r
    <3>. QED  BY <2>1, <3>1, <3>2, WriteEntry
  <2>. QED  BY <2>3, <2>4
<1>6. ASSUME NEW status \in {"retired", "revoked"}, transition_api_resource(a, status)
      PROVE  Goal /\ entry' = entry
  BY <1>6, MoveAsset DEF transition_api_resource, AssetStatuses
<1>7. ASSUME NEW result \in {"passed", "failed"}, test_api_resource(a, result)
      PROVE  Goal /\ entry' = entry
  BY <1>7, MoveAsset DEF test_api_resource, AssetStatuses
<1>8. ASSUME NEW action \in {"publish", "suspend", "submit_review"},
             manage_resource_asset(a, action)
      PROVE  Goal /\ entry' = entry
  BY <1>8, MoveAsset DEF manage_resource_asset, AssetStatuses
<1>9. Goal /\ EntryGoal
  BY <1>2, <1>3, <1>4, <1>5, <1>6, <1>7, <1>8 DEF AssetStep
<1>. QED  BY <1>1, <1>9 DEF StepOK, IInv, TypeOK

\* Checks change a job only, and leave what the invariant says of it.
LEMMA CheckSteps ==
    ASSUME IInv, NEW t \in Threads, entry' = entry, asset' = asset,
           NEW j \in Jobs \union {Idle}, job' = [job EXCEPT ![t] = j],
           j # Idle => ReviewChecked(j) /\ MountChecked(j)
    PROVE  StepOK
<1>1. job \in [Threads -> Jobs \union {Idle}]
  BY DEF IInv, TypeOK
<1>2. job' \in [Threads -> Jobs \union {Idle}]
  BY <1>1
<1>3. \A u \in Threads : job'[u] = IF u = t THEN j ELSE job[u]
  BY <1>1
<1>4. \A u \in Threads : \/ job'[u] = job[u]
                         \/ job'[u] = Idle
                         \/ ReviewChecked(job'[u]) /\ MountChecked(job'[u])
  BY <1>3
<1>. QED  BY <1>2, <1>4 DEF StepOK, EntryStepOK, AssetStepOK, IInv, TypeOK

\* A mount is checked against the row it finds.
LEMMA MountCheckStep ==
    ASSUME IInv, NEW t \in Threads, NEW a \in Assets, NEW r \in AssetRecords,
           ~r.reason, CheckMount(t, a, r)
    PROVE  StepOK
<1> DEFINE seen == IF AssetExists(a) THEN asset[a].owner ELSE Nothing
           j == [op |-> "mount", on |-> a, asset |-> r, seen |-> seen]
<1>1. seen \in {Nothing, r.owner}
  BY DEF CheckMount, guard_owner_immutable
<1>2. r.owner \in Orgs
  BY DEF AssetRecords
<1>3. seen \in Orgs \union {Nothing}
  BY <1>1, <1>2
<1>4. j \in Jobs
  BY <1>3, PlainJobs
<1>5. ReviewChecked(j) /\ MountChecked(j)
  BY <1>1 DEF ReviewChecked, MountChecked
<1>6. job' = [job EXCEPT ![t] = j] /\ entry' = entry /\ asset' = asset
  BY DEF CheckMount
<1> HIDE DEF j, seen
<1>. QED  BY <1>4, <1>5, <1>6, CheckSteps

\* The checks and the commits of a thread.
LEMMA ThreadSteps ==
    ASSUME IInv, NEW t \in Threads, ThreadStep(t)
    PROVE  StepOK
<1>0. /\ job \in [Threads -> Jobs \union {Idle}]
      /\ entry \in [Catalogs -> Entries \union {Nothing}]
      /\ asset \in [Assets -> AssetRecords \union {Nothing}]
  BY DEF IInv, TypeOK
<1>1. ASSUME NEW c \in Catalogs, CheckSubmitEntry(t, c) PROVE StepOK
  <2> DEFINE j == [op |-> "submit_entry", on |-> c]
  <2>1. j \in Jobs /\ ReviewChecked(j) /\ MountChecked(j)
    BY PlainJobs DEF ReviewChecked, MountChecked
  <2>. QED  BY <1>1, <2>1, CheckSteps DEF CheckSubmitEntry
<1>2. ASSUME NEW c \in Catalogs, NEW role \in Roles, CheckApprove(t, c, role) PROVE StepOK
  <2> DEFINE j == [op |-> "review", on |-> c, role |-> role, seen |-> entry[c].status]
  <2>1. entry[c].status \in EntryStatuses
    BY <1>0, <1>2 DEF CheckApprove, EntryExists, Entries
  <2>2. j \in Jobs
    BY <2>1, PlainJobs
  <2>3. ReviewChecked(j) /\ MountChecked(j)
    BY <1>2 DEF CheckApprove, ReviewChecked, MountChecked
  <2>4. job' = [job EXCEPT ![t] = j] /\ entry' = entry /\ asset' = asset
    BY <1>2 DEF CheckApprove
  <2> HIDE DEF j
  <2>. QED  BY <2>2, <2>3, <2>4, CheckSteps
<1>3. ASSUME NEW a \in Assets, CheckSubmitAsset(t, a) PROVE StepOK
  <2> DEFINE j == [op |-> "submit_asset", on |-> a]
  <2>1. j \in Jobs /\ ReviewChecked(j) /\ MountChecked(j)
    BY PlainJobs DEF ReviewChecked, MountChecked
  <2>. QED  BY <1>3, <2>1, CheckSteps DEF CheckSubmitAsset
<1>4. ASSUME NEW a \in Assets, NEW status \in AssetStarts, NEW org \in Orgs,
             NEW c \in Targets, NEW ready \in BOOLEAN,
             prepare_file(t, a, status, org, c) \/ prepare_table(t, a, status, org, c, ready)
      PROVE  StepOK
  <2>1. /\ asset_payload("table", status, org, c, ready) \in AssetRecords
        /\ asset_payload("file", status, org, c, FALSE) \in AssetRecords
        /\ ~asset_payload("table", status, org, c, ready).reason
        /\ ~asset_payload("file", status, org, c, FALSE).reason
    BY AssetStartsAssumption DEF asset_payload, AssetRecords
  <2>. QED  BY <1>4, <2>1, MountCheckStep DEF prepare_file, prepare_table
<1>5. CASE Abandon(t)
  BY <1>5, CheckSteps DEF Abandon
<1>6. ASSUME job[t] # Idle, job' = [job EXCEPT ![t] = Idle]
      PROVE  /\ job[t] \in Jobs
             /\ job'[t] = Idle /\ \A u \in Threads : job'[u] = job[u] \/ job'[u] = Idle
             /\ job' \in [Threads -> Jobs \union {Idle}]
  BY <1>0, <1>6
<1>7. CASE submit_catalog_entry_review(t)
  <2>1. job[t] \in Jobs /\ job[t].op = "submit_entry"
    BY <1>6, <1>7 DEF submit_catalog_entry_review
  <2>2. job[t].on \in Catalogs
    BY <2>1, JobFields
  <2>3. /\ entry' \in [Catalogs -> Entries \union {Nothing}]
        /\ \A d \in Catalogs : EntryStepOK(d)
    BY <1>7, <2>2, MoveEntry DEF submit_catalog_entry_review, EntryStatuses
  <2>. QED  BY <1>0, <1>6, <1>7, <2>3 DEF submit_catalog_entry_review, StepOK, AssetStepOK
<1>8. CASE ApproveEntry(t)
  <2>1. job[t] \in Jobs /\ job[t].op = "review" /\ job[t] # Idle /\ job'[t] = Idle
    BY <1>6, <1>8 DEF ApproveEntry
  <2>2. job[t].on \in Catalogs
    BY <2>1, JobFields
  <2>3. ApprovalTarget(job[t].role) \in EntryStatuses
    BY DEF ApprovalTarget, EntryStatuses
  <2>4. transition_catalog_entry(job[t].on, ApprovalTarget(job[t].role), "empty")
    BY <1>8 DEF ApproveEntry
  <2>5. /\ entry' \in [Catalogs -> Entries \union {Nothing}]
        /\ \A d \in Catalogs : EntryStepOK(d)
    BY <2>1, <2>2, <2>3, <2>4, MoveEntry
  <2>. QED  BY <1>0, <1>6, <1>8, <2>5 DEF ApproveEntry, StepOK, AssetStepOK
<1>9. CASE submit_api_resource_review(t)
  <2>1. job[t] \in Jobs /\ job[t].op = "submit_asset"
    BY <1>6, <1>9 DEF submit_api_resource_review
  <2>2. job[t].on \in Assets
    BY <2>1, JobFields
  <2>3. /\ asset' \in [Assets -> AssetRecords \union {Nothing}]
        /\ \A b \in Assets : AssetStepOK(b)
    BY <1>9, <2>2, MoveAsset DEF submit_api_resource_review, AssetStatuses
  <2>. QED  BY <1>0, <1>6, <1>9, <2>3 DEF submit_api_resource_review, StepOK, EntryStepOK
<1>10. CASE Mount(t)
  <2>1. job[t] \in Jobs /\ job[t].op = "mount" /\ job[t] # Idle /\ job'[t] = Idle
    BY <1>6, <1>10 DEF Mount
  <2>2. job[t].on \in Assets /\ job[t].asset \in AssetRecords
    BY <2>1, JobFields
  <2>3. ~job[t].asset.reason
    BY <2>1 DEF IInv, JobsChecked, MountChecked
  <2>4. /\ asset' \in [Assets -> AssetRecords \union {Nothing}]
        /\ \A b \in Assets : AssetStepOK(b)
    BY <1>10, <2>1, <2>2, <2>3, WriteAsset DEF Mount
  <2>. QED  BY <1>0, <1>6, <1>10, <2>4 DEF Mount, StepOK, EntryStepOK
<1>. QED
  BY <1>1, <1>2, <1>3, <1>4, <1>5, <1>7, <1>8, <1>9, <1>10 DEF ThreadStep

\* Every step does what StepOK says.
LEMMA Steps ==
    ASSUME IInv, [Next]_vars
    PROVE  StepOK
<1>1. CASE UNCHANGED vars
  BY <1>1 DEF vars, StepOK, EntryStepOK, AssetStepOK, IInv, TypeOK
<1>. QED  BY <1>1, EntrySteps, AssetSteps, ThreadSteps DEF Next

-----------------------------------------------------------------------------
(* The theorems                                                            *)

\* The inductive invariant holds in every state.
THEOREM Invariance == Spec => []IInv
<1>1. Init => IInv
  <2>1. ASSUME Init PROVE IInv
    <3>1. \A c \in Catalogs : entry[c] # Nothing => ~entry[c].reason
      BY <2>1 DEF Init
    <3>2. \A a \in Assets : asset[a] = Nothing
      BY <2>1 DEF Init
    <3>3. \A t \in Threads : job[t] = Idle
      BY <2>1 DEF Init
    <3>4. TypeOK
      BY <2>1 DEF Init, TypeOK
    <3>. QED  BY <3>1, <3>2, <3>3, <3>4
              DEF IInv, NoStaleReason, JobsChecked, EntryExists, AssetExists
  <2>. QED  BY <2>1
<1>2. IInv /\ [Next]_vars => IInv'
  <2> SUFFICES ASSUME IInv, [Next]_vars PROVE IInv'
    OBVIOUS
  <2>1. StepOK
    BY Steps
  <2>2. TypeOK'
    BY <2>1 DEF StepOK, TypeOK
  <2>3. NoStaleReason'
    BY <2>1 DEF StepOK, EntryStepOK, AssetStepOK, IInv, NoStaleReason, EntryExists, AssetExists
  <2>4. JobsChecked'
    BY <2>1 DEF StepOK, IInv, JobsChecked, ReviewChecked, MountChecked
  <2>. QED  BY <2>2, <2>3, <2>4 DEF IInv
<1>. QED  BY <1>1, <1>2, PTL DEF Spec

\* Rows and jobs keep their types, for any catalogs, assets, orgs and requests.
THEOREM TypeCorrect == Spec => []TypeOK
<1>1. IInv => TypeOK
  BY DEF IInv
<1>. QED  BY <1>1, Invariance, PTL

\* What waits for publication shows no reason to fix it, whatever is written
\* between the check of an approval and its commit (_review_catalog_entry,
\* transition_asset).
THEOREM ApprovalClearsReason == Spec => []NoStaleReason
<1>1. IInv => NoStaleReason
  BY DEF IInv
<1>. QED  BY <1>1, Invariance, PTL

\* An entry is cleared by the review it is pending in and a mounted asset stays
\* with its owner, unless another request wrote between check and commit
\* (_review_catalog_entry, guard_owner_immutable).
THEOREM ClearedByReview == Spec => ReviewsAndOwnersKept
<1>1. ASSUME IInv, [Next]_vars, NEW c \in Catalogs, EntryExists(c),
             entry[c].status # "approved_pending_publish",
             entry'[c].status = "approved_pending_publish"
      PROVE  \/ entry[c].status \in {"pending_review", "pending_platform_review"}
             \/ c \in Seeded /\ UNCHANGED job
             \/ \E t \in Threads :
                   job[t] # Idle /\ job[t].op = "review" /\ job[t].on = c
                   /\ job'[t] = Idle /\ job[t].seen # entry[c].status
  <2>1. EntryStepOK(c) /\ entry'[c] # entry[c]
    BY <1>1, Steps DEF StepOK
  <2>2. CASE c \in Seeded /\ UNCHANGED job
    BY <2>2
  <2>3. ASSUME NEW t \in Threads, job[t] # Idle, job[t].op = "review", job[t].on = c,
               job'[t] = Idle
        PROVE  \/ entry[c].status \in {"pending_review", "pending_platform_review"}
               \/ job[t].seen # entry[c].status
    BY <1>1, <2>3 DEF IInv, JobsChecked, ReviewChecked, MayApprove
  <2>. QED  BY <1>1, <2>1, <2>2, <2>3 DEF EntryStepOK
<1>2. ASSUME IInv, [Next]_vars, NEW a \in Assets, AssetExists(a),
             asset'[a].owner # asset[a].owner, asset'[a].kind # "api"
      PROVE  \E t \in Threads :
                job[t] # Idle /\ job[t].op = "mount" /\ job[t].on = a
                /\ job'[t] = Idle /\ job[t].seen # asset[a].owner
  <2>1. AssetStepOK(a) /\ asset'[a] # asset[a]
    BY <1>2, Steps DEF StepOK
  <2>2. PICK t \in Threads : /\ job[t] # Idle /\ job[t].op = "mount" /\ job[t].on = a
                             /\ job'[t] = Idle /\ job[t].asset.owner = asset'[a].owner
    BY <1>2, <2>1 DEF AssetStepOK
  <2>3. asset[a].owner \in Orgs
    BY <1>2 DEF IInv, TypeOK, AssetExists, AssetRecords
  <2>4. job[t].seen \in {Nothing, asset'[a].owner}
    BY <1>2, <2>2 DEF IInv, JobsChecked, MountChecked
  <2>5. job[t].seen # asset[a].owner
    BY <1>2, <2>3, <2>4, NothingAssumption
  <2>. QED  BY <2>2, <2>5
<1>3. ASSUME IInv, [Next]_vars
      PROVE  /\ \A c \in Catalogs :
                  EntryExists(c) /\ entry[c].status # "approved_pending_publish"
                  /\ entry'[c].status = "approved_pending_publish"
                  => \/ entry[c].status \in {"pending_review", "pending_platform_review"}
                     \/ c \in Seeded /\ UNCHANGED job
                     \/ \E t \in Threads :
                           job[t] # Idle /\ job[t].op = "review" /\ job[t].on = c
                           /\ job'[t] = Idle /\ job[t].seen # entry[c].status
             /\ \A a \in Assets :
                  AssetExists(a) /\ asset'[a].owner # asset[a].owner /\ asset'[a].kind # "api"
                  => \E t \in Threads :
                        job[t] # Idle /\ job[t].op = "mount" /\ job[t].on = a
                        /\ job'[t] = Idle /\ job[t].seen # asset[a].owner
  BY <1>1, <1>2, <1>3
<1>. QED
  BY <1>3, Invariance, PTL DEF Spec, ReviewsAndOwnersKept, ApprovedInOrder, MountKeepsOwner
-----------------------------------------------------------------------------
(* Approval flows: a least element of a set of numbers                     *)

NatLess == {p \in Nat \X Nat : p[1] < p[2]}

\* A set of numbers that is not empty has a least element.
LEMMA LeastNatural ==
    ASSUME NEW T \in SUBSET Nat, T # {}
    PROVE  \E x \in T : \A y \in T : x <= y
<1>1. NatLess = OpToRel(<, Nat)
  BY Zenon DEF NatLess, OpToRel
<1>2. IsWellFoundedOn(NatLess, Nat)
  BY <1>1, NatLessThanWellFounded, Zenon
<1>3. PICK x \in T : \A y \in T : ~(<<y, x>> \in NatLess)
  BY <1>2, WFMin
<1>4. ASSUME NEW y \in T PROVE x <= y
  <2>1. x \in Nat /\ y \in Nat /\ <<y, x>> \in Nat \X Nat
    OBVIOUS
  <2>2. ~(y < x)
    BY <1>3, <2>1 DEF NatLess
  <2> QED BY <2>1, <2>2
<1> QED BY <1>4

-----------------------------------------------------------------------------
(* Approval flows: the walk of a flow                                      *)

\* A line has finitely many nodes.
LEMMA NodesAreFinite == IsFiniteSet(Nodes)
<1> DEFINE f == [k \in 1 .. Len(Line) |-> Line[k]]
<1>1. Len(Line) \in Nat
  BY LineAssumption
<1>2. f \in Surjection(1 .. Len(Line), Inner)
  BY DEF Surjection, Inner
<1>3. IsFiniteSet(1 .. Len(Line))
  BY <1>1, FS_Interval
<1>4. IsFiniteSet(Inner)
  <2> HIDE DEF f
  <2> QED BY <1>2, <1>3, FS_Surjection
<1>5. Nodes = (Inner \union {"start"}) \union {"end"}
  BY DEF Nodes
<1> QED BY <1>4, <1>5, FS_AddElement

\* Among sets of nodes there is one that no other contains.
LEMMA LargestSet ==
    ASSUME NEW B \in SUBSET (SUBSET Nodes), B # {}
    PROVE  \E T \in B : \A S \in B : T \subseteq S => S = T
<1> DEFINE K == {k \in Nat : \E T \in B : k = Cardinality(Nodes \ T)}
<1>1. ASSUME NEW T \in SUBSET Nodes
      PROVE  IsFiniteSet(Nodes \ T) /\ Cardinality(Nodes \ T) \in Nat
  BY NodesAreFinite, FS_Difference, FS_CardinalityType
<1>2. K # {}
  BY <1>1
<1>3. PICK least \in K : \A k \in K : least <= k
  <2> HIDE DEF K
  <2>1. K \in SUBSET Nat
    BY DEF K
  <2> QED BY <1>2, <2>1, LeastNatural
<1>4. PICK T \in B : least = Cardinality(Nodes \ T)
  BY <1>3
<1>5. ASSUME NEW S \in B, T \subseteq S PROVE S = T
  <2>1. Nodes \ S \in SUBSET (Nodes \ T)
    BY <1>5
  <2>2. Cardinality(Nodes \ S) \in Nat /\ Cardinality(Nodes \ T) \in Nat /\ IsFiniteSet(Nodes \ T)
    BY <1>1, <1>4
  <2>3. least <= Cardinality(Nodes \ S)
    BY <1>3, <2>2
  <2>4. Cardinality(Nodes \ S) <= Cardinality(Nodes \ T)
    BY <2>1, <2>2, FS_Subset
  <2>5. Cardinality(Nodes \ S) = Cardinality(Nodes \ T)
    BY <1>4, <2>2, <2>3, <2>4
  <2>6. Nodes \ S = Nodes \ T
    BY <2>1, <2>2, <2>5, FS_Subset
  <2> QED BY <1>5, <2>6
<1> QED BY <1>5

\* The default branch of a node leads to a node, if there is one.
LEMMA BranchIsPicked ==
    ASSUME NEW flow \in ValidFlows, NEW n \in Nodes
    PROVE  PickNextEdge(flow, n) \in Nodes \union {None}
<1>1. PICK out : out = flow.out[n]
  OBVIOUS
<1>2. out \in Seq([to : Nodes, kind : DOMAIN EdgePriority])
  BY <1>1 DEF ValidFlows
<1>3. CASE out = <<>>
  BY <1>1, <1>3 DEF PickNextEdge
<1>4. CASE out # <<>>
  <2> DEFINE prio(k) == EdgePriority[out[k].kind]
             best == {k \in 1 .. Len(out) : \A j \in 1 .. Len(out) : prio(k) <= prio(j)}
             all == {p \in Nat : \E k \in 1 .. Len(out) : p = prio(k)}
  <2>1. Len(out) \in Nat /\ 1 \in 1 .. Len(out)
    BY <1>2, <1>4
  <2>2. ASSUME NEW k \in 1 .. Len(out) PROVE out[k].to \in Nodes /\ prio(k) \in Nat
    <3>1. out[k] \in [to : Nodes, kind : DOMAIN EdgePriority]
      <4>1. PICK E : E = [to : Nodes, kind : DOMAIN EdgePriority]
        OBVIOUS
      <4>2. out \in Seq(E)
        BY <1>2, <4>1
      <4>3. out[k] \in E
        BY <4>2
      <4> QED BY <4>1, <4>3
    <3>2. \A kind \in DOMAIN EdgePriority : EdgePriority[kind] \in Nat
      BY DEF EdgePriority
    <3> QED BY <3>1, <3>2
  <2>3. all # {} /\ all \in SUBSET Nat
    BY <2>1, <2>2
  <2>4. PICK least \in all : \A p \in all : least <= p
    <3> HIDE DEF all
    <3> QED BY <2>3, LeastNatural
  <2>5. best # {} /\ best \in SUBSET Nat
    <3>1. PICK k \in 1 .. Len(out) : least = prio(k)
      BY <2>4
    <3>2. \A j \in 1 .. Len(out) : prio(j) \in all
      BY <2>2
    <3>3. k \in best
      BY <2>4, <3>1, <3>2
    <3> QED BY <2>1, <3>3
  <2>6. \E k \in best : \A j \in best : k <= j
    <3> HIDE DEF best
    <3> QED BY <2>5, LeastNatural
  <2>7. PickNextEdge(flow, n) = out[CHOOSE k \in best : \A j \in best : k <= j].to
    BY <1>1, <1>4 DEF PickNextEdge
  <2>8. (CHOOSE k \in best : \A j \in best : k <= j) \in best
    <3> HIDE DEF best
    <3> QED BY <2>6
  <2>9. \A k \in best : out[k].to \in Nodes
    BY <2>2
  <2> HIDE DEF best
  <2> QED BY <2>7, <2>8, <2>9
<1> QED BY <1>3, <1>4

\* How a walk goes on depends on the larger sets of seen nodes only.
LEMMA WalkLooksAhead ==
    ASSUME NEW flow \in ValidFlows, NEW f, NEW g, NEW T \in SUBSET Nodes,
           \A n \in Nodes \ T : f[T \union {n}] = g[T \union {n}]
    PROVE  WalkOn(flow, f, T) = WalkOn(flow, g, T)
  BY DEF WalkOn

Above(S) == {T \in SUBSET Nodes : S \subseteq T}

\* f is the walk from a set of seen nodes on.
IsWalkAbove(flow, f, S) == \A T \in Above(S) : f[T] = WalkOn(flow, f, T)

\* Two walks above the same set of seen nodes are the same there.
LEMMA WalkIsUnique ==
    ASSUME NEW flow \in ValidFlows, NEW S \in SUBSET Nodes, NEW f, NEW g,
           IsWalkAbove(flow, f, S), IsWalkAbove(flow, g, S)
    PROVE  \A T \in Above(S) : f[T] = g[T]
<1> DEFINE B == {T \in Above(S) : f[T] # g[T]}
<1>1. CASE B # {}
  <2>1. B \in SUBSET (SUBSET Nodes)
    BY DEF Above
  <2>2. PICK T \in B : \A U \in B : T \subseteq U => U = T
    <3> HIDE DEF B
    <3> QED BY <1>1, <2>1, LargestSet
  <2>3. ASSUME NEW n \in Nodes \ T PROVE f[T \union {n}] = g[T \union {n}]
    <3>1. T \union {n} \in Above(S) /\ T \subseteq T \union {n} /\ T \union {n} # T
      BY <2>2 DEF Above
    <3> QED BY <2>2, <3>1
  <2>4. WalkOn(flow, f, T) = WalkOn(flow, g, T)
    BY <2>2, <2>3, WalkLooksAhead DEF Above
  <2> QED BY <2>2, <2>4 DEF IsWalkAbove
<1> QED BY <1>1

\* There is a walk above every set of seen nodes.
LEMMA WalkExistsAbove ==
    ASSUME NEW flow \in ValidFlows, NEW S0 \in SUBSET Nodes
    PROVE  \E f : IsWalkAbove(flow, f, S0)
<1> DEFINE B == {S \in SUBSET Nodes : ~\E f : IsWalkAbove(flow, f, S)}
<1>1. CASE B # {}
  <2>1. PICK S \in B : \A U \in B : S \subseteq U => U = S
    <3>1. B \in SUBSET (SUBSET Nodes)
      OBVIOUS
    <3> HIDE DEF B
    <3> QED BY <1>1, <3>1, LargestSet
  <2> DEFINE W(T) == CHOOSE f : IsWalkAbove(flow, f, T)
             h == [T \in SUBSET Nodes |-> W(T)[T]]
             g == [T \in SUBSET Nodes |-> IF T = S THEN WalkOn(flow, h, S) ELSE h[T]]
  <2>2. ASSUME NEW T \in Above(S), T # S PROVE IsWalkAbove(flow, W(T), T)
    <3>1. T \notin B
      BY <2>1, <2>2 DEF Above
    <3>2. \E f : IsWalkAbove(flow, f, T)
      BY <3>1 DEF Above
    <3> QED BY <3>2
  <2>3. ASSUME NEW T \in Above(S), NEW n \in Nodes \ T
        PROVE  T \union {n} \in Above(S) /\ T \union {n} # S /\ g[T \union {n}] = h[T \union {n}]
    BY DEF Above
  <2>4. g[S] = WalkOn(flow, g, S)
    <3>1. S \in Above(S) /\ S \in SUBSET Nodes
      BY DEF Above
    <3>2. \A n \in Nodes \ S : h[S \union {n}] = g[S \union {n}]
      BY <2>3, <3>1
    <3>3. g[S] = WalkOn(flow, h, S)
      BY <3>1
    <3> HIDE DEF g, h
    <3> QED BY <3>1, <3>2, <3>3, WalkLooksAhead
  <2>5. ASSUME NEW T \in Above(S), T # S PROVE g[T] = WalkOn(flow, g, T)
    <3>1. T \in SUBSET Nodes
      BY DEF Above
    <3>2. g[T] = W(T)[T]
      BY <2>5, <3>1
    <3>3. ASSUME NEW n \in Nodes \ T PROVE W(T)[T \union {n}] = g[T \union {n}]
      <4> DEFINE U == T \union {n}
      <4>1. U \in Above(S) /\ U # S /\ g[U] = h[U]
        BY <2>3
      <4>2. U \in Above(T) /\ Above(U) \subseteq Above(T) /\ U \in Above(U) /\ U \in SUBSET Nodes
        BY <3>1 DEF Above
      <4>3. h[U] = W(U)[U]
        BY <4>2
      <4>4. IsWalkAbove(flow, W(U), U) /\ IsWalkAbove(flow, W(T), T)
        BY <2>2, <2>5, <4>1
      <4>5. IsWalkAbove(flow, W(T), U)
        BY <4>2, <4>4 DEF IsWalkAbove
      <4> HIDE DEF U, W, h, g
      <4>6. W(T)[U] = W(U)[U]
        BY <4>2, <4>4, <4>5, WalkIsUnique
      <4> QED BY <4>1, <4>3, <4>6 DEF U
    <3>4. W(T)[T] = WalkOn(flow, W(T), T)
      <4>1. T \in Above(T)
        BY <3>1 DEF Above
      <4> HIDE DEF W
      <4> QED BY <2>2, <2>5, <4>1 DEF IsWalkAbove
    <3> HIDE DEF W, g, h
    <3> QED BY <3>1, <3>2, <3>3, <3>4, WalkLooksAhead
  <2>6. IsWalkAbove(flow, g, S)
    <3> HIDE DEF g
    <3> QED BY <2>4, <2>5 DEF IsWalkAbove
  <2>7. S \in B
    BY <2>1
  <2> HIDE DEF g
  <2> QED BY <2>6, <2>7
<1> QED BY <1>1

IsWalk(flow, walk) == walk = [seen \in SUBSET Nodes |-> WalkOn(flow, walk, seen)]

\* What WalkFrom computes.
LEMMA WalkFromIsWalk ==
    ASSUME NEW flow \in ValidFlows
    PROVE  \E walk : IsWalk(flow, walk) /\ WalkFrom(flow) = walk[{}]["start"]
<1>1. PICK f : IsWalkAbove(flow, f, {})
  BY WalkExistsAbove
<1> DEFINE w == [seen \in SUBSET Nodes |-> f[seen]]
<1>2. ASSUME NEW T \in SUBSET Nodes PROVE f[T] = WalkOn(flow, w, T)
  <2>1. f[T] = WalkOn(flow, f, T)
    BY <1>1 DEF IsWalkAbove, Above
  <2>2. \A n \in Nodes \ T : f[T \union {n}] = w[T \union {n}]
    OBVIOUS
  <2> HIDE DEF w
  <2> QED BY <2>1, <2>2, WalkLooksAhead
<1>3. IsWalk(flow, w)
  BY <1>2 DEF IsWalk
<1>4. PICK walk : walk = CHOOSE f0 : f0 = [seen \in SUBSET Nodes |-> WalkOn(flow, f0, seen)]
  OBVIOUS
<1>5. IsWalk(flow, walk)
  <2> HIDE DEF w
  <2> QED BY <1>3, <1>4 DEF IsWalk
<1>6. WalkFrom(flow) = walk[{}]["start"]
  BY <1>4 DEF WalkFrom
<1> QED BY <1>5, <1>6

\* The nodes on the default way from n.
Ahead(flow, n) == ReachableFrom(n, Default(flow))

Closed(flow, S) == \A x \in S : Default(flow)[x] \subseteq S

\* The nodes ahead are the least set that contains n and follows the branches.
LEMMA AheadIsClosed ==
    ASSUME NEW flow, NEW n \in Nodes
    PROVE  /\ n \in Ahead(flow, n) /\ Ahead(flow, n) \in SUBSET Nodes
           /\ \A m \in Ahead(flow, n) : Ahead(flow, m) \subseteq Ahead(flow, n)
           /\ \A S \in SUBSET Nodes : n \in S /\ Closed(flow, S) => Ahead(flow, n) \subseteq S
  BY DEF Ahead, ReachableFrom, Closed

\* Before the end, the default way goes by the branch that is picked.
LEMMA DefaultIsPicked ==
    ASSUME NEW flow \in ValidFlows, NEW n \in Nodes, n # "end"
    PROVE  Default(flow)[n] = {PickNextEdge(flow, n)} \ {None} /\ Default(flow)[n] \subseteq Nodes
<1>1. PickNextEdge(flow, n) \in Nodes \union {None}
  BY BranchIsPicked
<1> QED BY <1>1 DEF Default

\* The way stops at the end.
LEMMA EndIsAlone ==
    ASSUME NEW flow
    PROVE  Ahead(flow, "end") = {"end"} /\ Default(flow)["end"] = {} /\ "end" \in Nodes
<1>1. "end" \in Nodes
  BY DEF Nodes
<1>2. Default(flow)["end"] = {}
  BY <1>1 DEF Default
<1>3. Closed(flow, {"end"}) /\ {"end"} \in SUBSET Nodes
  BY <1>1, <1>2 DEF Closed
<1> QED BY <1>1, <1>2, <1>3, AheadIsClosed

\* From a node the way goes by its default branch.
LEMMA AheadByBranch ==
    ASSUME NEW flow \in ValidFlows, NEW n \in Nodes, n # "end", PickNextEdge(flow, n) \in Nodes
    PROVE  Ahead(flow, n) = {n} \union Ahead(flow, PickNextEdge(flow, n))
<1>1. PICK m : m = PickNextEdge(flow, n)
  OBVIOUS
<1>2. m \in Nodes /\ m # None
  BY <1>1, NoneAssumption DEF Nodes
<1>3. Default(flow)[n] = {m}
  BY <1>1, <1>2, DefaultIsPicked
<1>4. {n} \union Ahead(flow, m) \subseteq Ahead(flow, n)
  <2>1. ASSUME NEW S \in SUBSET Nodes, n \in S, \A x \in S : Default(flow)[x] \subseteq S
        PROVE  m \in S
    BY <1>3, <2>1
  <2>2. m \in Ahead(flow, n)
    BY <1>2, <2>1 DEF Ahead, ReachableFrom
  <2> QED BY <2>2, AheadIsClosed
<1>5. Ahead(flow, n) \subseteq {n} \union Ahead(flow, m)
  <2> DEFINE S == {n} \union Ahead(flow, m)
  <2>1. S \in SUBSET Nodes /\ n \in S
    BY <1>2, AheadIsClosed
  <2>2. ASSUME NEW x \in Ahead(flow, m) PROVE Default(flow)[x] \subseteq Ahead(flow, m)
    <3>1. x \in Nodes
      BY <1>2, AheadIsClosed
    <3>2. Default(flow)[x] \subseteq Nodes
      BY <3>1, DefaultIsPicked, EndIsAlone
    <3> QED BY <3>2 DEF Ahead, ReachableFrom
  <2>3. m \in Ahead(flow, m)
    BY <1>2, AheadIsClosed
  <2>4. Closed(flow, S)
    BY <1>3, <2>2, <2>3 DEF Closed
  <2> HIDE DEF S
  <2>5. Ahead(flow, n) \subseteq S
    BY <2>1, <2>4, AheadIsClosed
  <2> QED BY <2>5 DEF S
<1> QED BY <1>1, <1>4, <1>5

ApprovalsAhead(flow, n) == {m \in Ahead(flow, n) : Types(flow, m) = "approval"}

\* Steps that are the approvals on the way from n, which reaches the end.
Passes(flow, n, steps) ==
    /\ \A m \in Ahead(flow, n) : "end" \in Ahead(flow, m)
    /\ steps \in Seq(Ahead(flow, n))
    /\ {steps[k] : k \in 1 .. Len(steps)} = ApprovalsAhead(flow, n)
    /\ IsFiniteSet(ApprovalsAhead(flow, n)) /\ Len(steps) = Cardinality(ApprovalsAhead(flow, n))
    /\ \A k \in 1 .. Len(steps) - 1 : steps[k + 1] \in Ahead(flow, steps[k])

\* One element in front of a sequence.
LEMMA Prepended ==
    ASSUME NEW S, NEW x \in S, NEW rest \in Seq(S)
    PROVE  /\ <<x>> \o rest \in Seq(S) /\ Len(<<x>> \o rest) = Len(rest) + 1
           /\ (<<x>> \o rest)[1] = x
           /\ \A k \in 1 .. Len(rest) : (<<x>> \o rest)[k + 1] = rest[k]
  OBVIOUS

\* One node more in front.
LEMMA PassesOneMore ==
    ASSUME NEW flow \in ValidFlows, NEW n \in Nodes, n # "end", NEW m \in Nodes,
           m = PickNextEdge(flow, n), n \notin Ahead(flow, m), NEW rest, Passes(flow, m, rest),
           NEW steps, steps = (IF Types(flow, n) = "approval" THEN <<n>> ELSE <<>>) \o rest
    PROVE  Passes(flow, n, steps)
<1>1. Ahead(flow, n) = {n} \union Ahead(flow, m) /\ m \in Ahead(flow, m)
  BY AheadByBranch, AheadIsClosed
<1>2. \A x \in Ahead(flow, n) : "end" \in Ahead(flow, x)
  BY <1>1 DEF Passes
<1>3. rest \in Seq(Ahead(flow, n)) /\ Len(rest) \in Nat
  BY <1>1 DEF Passes
<1>4. CASE Types(flow, n) # "approval"
  <2>1. steps = rest
    BY <1>3, <1>4
  <2>2. ApprovalsAhead(flow, n) = ApprovalsAhead(flow, m)
    BY <1>1, <1>4 DEF ApprovalsAhead
  <2> QED BY <1>2, <1>3, <2>1, <2>2 DEF Passes
<1>5. CASE Types(flow, n) = "approval"
  <2>1. steps = <<n>> \o rest
    BY <1>5
  <2>2. /\ steps \in Seq(Ahead(flow, n)) /\ Len(steps) = Len(rest) + 1 /\ steps[1] = n
        /\ \A k \in 1 .. Len(rest) : steps[k + 1] = rest[k]
    <3>1. n \in Ahead(flow, n)
      BY <1>1
    <3> QED BY <1>3, <2>1, <3>1, Prepended
  <2>3. /\ ApprovalsAhead(flow, n) = ApprovalsAhead(flow, m) \union {n}
        /\ n \notin ApprovalsAhead(flow, m)
    BY <1>1, <1>5 DEF ApprovalsAhead
  <2>4. /\ IsFiniteSet(ApprovalsAhead(flow, n))
        /\ Len(steps) = Cardinality(ApprovalsAhead(flow, n))
    <3>1. PICK A : A = ApprovalsAhead(flow, m)
      OBVIOUS
    <3>2. IsFiniteSet(A) /\ Len(rest) = Cardinality(A) /\ n \notin A
      BY <2>3, <3>1 DEF Passes
    <3>3. IsFiniteSet(A \union {n}) /\ Cardinality(A \union {n}) = Cardinality(A) + 1
      BY <3>2, FS_AddElement
    <3> QED BY <2>2, <2>3, <3>1, <3>2, <3>3
  <2>5. {steps[k] : k \in 1 .. Len(steps)} = {n} \union {rest[k] : k \in 1 .. Len(rest)}
    <3>1. \A k \in 1 .. Len(steps) : k = 1 \/ (k - 1 \in 1 .. Len(rest) /\ steps[k] = rest[k - 1])
      BY <1>3, <2>2
    <3>2. \A k \in 1 .. Len(rest) : k + 1 \in 1 .. Len(steps)
      BY <1>3, <2>2
    <3>3. 1 \in 1 .. Len(steps)
      BY <1>3, <2>2
    <3>4. ASSUME NEW k \in 1 .. Len(steps)
          PROVE  steps[k] \in {n} \union {rest[j] : j \in 1 .. Len(rest)}
      BY <2>2, <3>1
    <3>5. ASSUME NEW j \in 1 .. Len(rest) PROVE \E k \in 1 .. Len(steps) : steps[k] = rest[j]
      BY <2>2, <3>2
    <3>6. \E k \in 1 .. Len(steps) : steps[k] = n
      BY <2>2, <3>3
    <3>7. {steps[k] : k \in 1 .. Len(steps)} \subseteq {n} \union {rest[k] : k \in 1 .. Len(rest)}
      BY <3>4
    <3>8. {n} \union {rest[k] : k \in 1 .. Len(rest)} \subseteq {steps[k] : k \in 1 .. Len(steps)}
      BY SMTT(30), <3>5, <3>6
    <3> QED BY <3>7, <3>8
  <2>6. ASSUME NEW k \in 1 .. Len(steps) - 1
        PROVE  steps[k + 1] \in Ahead(flow, steps[k])
    <3>1. k \in 1 .. Len(rest) /\ steps[k + 1] = rest[k] /\ rest[k] \in Ahead(flow, m)
      BY <1>3, <2>2 DEF Passes
    <3>2. CASE k = 1
      BY <1>1, <2>2, <3>1, <3>2
    <3>3. CASE k # 1
      <4>1. k - 1 \in 1 .. Len(rest) - 1 /\ (k - 1) + 1 = k
        BY <1>3, <3>1, <3>3
      <4>2. steps[k] = rest[k - 1]
        BY <2>2, <4>1
      <4>3. rest[(k - 1) + 1] \in Ahead(flow, rest[k - 1])
        BY <4>1 DEF Passes
      <4> QED BY <3>1, <4>1, <4>2, <4>3
    <3> QED BY <3>2, <3>3
  <2>7. {steps[k] : k \in 1 .. Len(steps)} = ApprovalsAhead(flow, n)
    BY <2>3, <2>5 DEF Passes
  <2> QED BY <1>2, <2>2, <2>4, <2>6, <2>7 DEF Passes
<1> QED BY <1>4, <1>5

\* What the walk is at a node.
Unfolds(flow, walk, T, n) ==
    walk[T][n] = IF n = None \/ n \in T THEN <<None>>
                 ELSE IF n = "end" THEN <<>>
                 ELSE (IF Types(flow, n) = "approval" THEN <<n>> ELSE <<>>)
                      \o walk[T \union {n}][PickNextEdge(flow, n)]

\* One step of the walk.
LEMMA WalkUnfolds ==
    ASSUME NEW flow, NEW walk, IsWalk(flow, walk), NEW T \in SUBSET Nodes,
           NEW n \in Nodes \union {None}
    PROVE  Unfolds(flow, walk, T, n)
<1>1. walk[T] = WalkOn(flow, walk, T)
  BY DEF IsWalk
<1> QED BY <1>1 DEF WalkOn, Unfolds

\* A walk gives nodes, and None where it fails.
LEMMA WalkIsSequence ==
    ASSUME NEW flow \in ValidFlows, NEW walk, IsWalk(flow, walk)
    PROVE  \A T \in SUBSET Nodes, n \in Nodes \union {None} :
              walk[T][n] \in Seq(Nodes \union {None})
<1> DEFINE B == {T \in SUBSET Nodes : \E n \in Nodes \union {None} :
                   walk[T][n] \notin Seq(Nodes \union {None})}
<1>1. CASE B # {}
  <2>1. PICK T \in B : \A U \in B : T \subseteq U => U = T
    <3>1. B \in SUBSET (SUBSET Nodes)
      OBVIOUS
    <3> HIDE DEF B
    <3> QED BY <1>1, <3>1, LargestSet
  <2>2. PICK n \in Nodes \union {None} : walk[T][n] \notin Seq(Nodes \union {None})
    BY <2>1
  <2>5. T \in SUBSET Nodes /\ \A U \in SUBSET Nodes : T \subseteq U /\ U # T => U \notin B
    BY <2>1
  <2>6. Unfolds(flow, walk, T, n)
    <3> HIDE DEF B
    <3> QED BY <2>5, WalkUnfolds
  <2>3. CASE n = None \/ n \in T \/ n = "end"
    <3>1. walk[T][n] = <<None>> \/ walk[T][n] = <<>>
      BY <2>3, <2>6 DEF Unfolds
    <3>2. <<None>> \in Seq(Nodes \union {None}) /\ <<>> \in Seq(Nodes \union {None})
      OBVIOUS
    <3> QED BY <2>2, <3>1, <3>2
  <2>4. CASE n # None /\ n \notin T /\ n # "end"
    <3>1. PICK m : m = PickNextEdge(flow, n)
      OBVIOUS
    <3>2. PICK rest : rest = walk[T \union {n}][m]
      OBVIOUS
    <3>3. m \in Nodes \union {None}
      BY <2>4, <3>1, BranchIsPicked
    <3>4. rest \in Seq(Nodes \union {None})
      <4>1. T \union {n} \in SUBSET Nodes /\ T \union {n} \notin B
        BY <2>4, <2>5
      <4> QED BY <3>2, <3>3, <4>1
    <3>5. walk[T][n] = (IF Types(flow, n) = "approval" THEN <<n>> ELSE <<>>) \o rest
      BY <2>4, <2>6, <3>1, <3>2 DEF Unfolds
    <3>6. <<n>> \in Seq(Nodes \union {None}) /\ <<>> \in Seq(Nodes \union {None})
      OBVIOUS
    <3>7. (IF Types(flow, n) = "approval" THEN <<n>> ELSE <<>>) \in Seq(Nodes \union {None})
      BY <3>6
    <3>8. \A one \in Seq(Nodes \union {None}) : one \o rest \in Seq(Nodes \union {None})
      BY <3>4
    <3> QED BY <2>2, <3>5, <3>7, <3>8
  <2> QED BY <2>3, <2>4
<1> QED BY <1>1

\* A walk fails when it fails further on.
LEMMA FailureStays ==
    ASSUME NEW n \in Nodes, NEW rest \in Seq(Nodes \union {None}), NEW approval \in BOOLEAN,
           NEW steps, steps = (IF approval THEN <<n>> ELSE <<>>) \o rest
    PROVE  Failed(steps) <=> Failed(rest)
<1>1. Len(rest) \in Nat /\ n # None
  BY NoneAssumption DEF Nodes
<1>2. CASE ~approval
  <2>1. steps = rest
    BY <1>1, <1>2
  <2> QED BY <2>1
<1>3. CASE approval
  <2>1. steps = <<n>> \o rest
    BY <1>3
  <2>2. /\ Len(steps) = Len(rest) + 1 /\ steps[1] = n
        /\ \A k \in 1 .. Len(rest) : steps[k + 1] = rest[k]
    BY <1>1, <2>1, Prepended
  <2>3. ASSUME Failed(rest) PROVE Failed(steps)
    <3>1. PICK k \in 1 .. Len(rest) : rest[k] = None
      BY <2>3 DEF Failed
    <3>2. k + 1 \in 1 .. Len(steps)
      BY <1>1, <2>2
    <3> QED BY <2>2, <3>1, <3>2 DEF Failed
  <2>4. ASSUME Failed(steps) PROVE Failed(rest)
    <3>1. PICK k \in 1 .. Len(steps) : steps[k] = None
      BY <2>4 DEF Failed
    <3>2. k # 1
      BY <1>1, <2>2, <3>1
    <3>3. k - 1 \in 1 .. Len(rest) /\ (k - 1) + 1 = k
      BY <1>1, <2>2, <3>2
    <3>4. rest[k - 1] = None
      BY <2>2, <3>1, <3>3
    <3> QED BY <3>3, <3>4 DEF Failed
  <2> QED BY <2>3, <2>4
<1> QED BY <1>2, <1>3

\* A walk that does not fail passes the approvals ahead, none of the nodes seen.
LEMMA WalkPasses ==
    ASSUME NEW flow \in ValidFlows, NEW walk, IsWalk(flow, walk)
    PROVE  \A T \in SUBSET Nodes, n \in Nodes \union {None} :
              ~Failed(walk[T][n]) =>
                 /\ n \in Nodes /\ Ahead(flow, n) \cap T = {}
                 /\ Passes(flow, n, walk[T][n])
<1> DEFINE Good(T, n) == /\ n \in Nodes /\ Ahead(flow, n) \cap T = {}
                         /\ Passes(flow, n, walk[T][n])
           B == {T \in SUBSET Nodes : \E n \in Nodes \union {None} :
                   ~Failed(walk[T][n]) /\ ~Good(T, n)}
<1>1. CASE B # {}
  <2>1. PICK T \in B : \A U \in B : T \subseteq U => U = T
    <3>1. B \in SUBSET (SUBSET Nodes)
      OBVIOUS
    <3> HIDE DEF B
    <3> QED BY <1>1, <3>1, LargestSet
  <2>2. PICK n \in Nodes \union {None} : ~Failed(walk[T][n]) /\ ~Good(T, n)
    BY <2>1
  <2> HIDE DEF Good
  <2>3. walk[T][n] = IF n = None \/ n \in T THEN <<None>>
                     ELSE IF n = "end" THEN <<>>
                     ELSE (IF Types(flow, n) = "approval" THEN <<n>> ELSE <<>>)
                          \o walk[T \union {n}][PickNextEdge(flow, n)]
    <3>1. T \in SUBSET Nodes
      BY <2>1
    <3> HIDE DEF B
    <3>2. Unfolds(flow, walk, T, n)
      BY <3>1, WalkUnfolds
    <3> QED BY <3>2 DEF Unfolds
  <2>4. n # None /\ n \notin T
    <3>1. Failed(<<None>>)
      BY DEF Failed
    <3> QED BY <2>2, <2>3, <3>1
  <2>5. n \in Nodes /\ n # None
    BY <2>4
  <2>6. CASE n = "end"
    <3>1. walk[T][n] = <<>>
      BY <2>3, <2>4, <2>6
    <3>2. Ahead(flow, n) = {"end"} /\ Ahead(flow, n) \cap T = {}
      BY <2>4, <2>6, EndIsAlone
    <3>3. ApprovalsAhead(flow, n) = {}
      BY <2>6, <3>2, LineAssumption DEF ApprovalsAhead, Types
    <3>4. Passes(flow, n, <<>>)
      <4>1. /\ <<>> \in Seq(Ahead(flow, n)) /\ Len(<<>>) = 0
            /\ \A k \in Int : k \notin 1 .. 0 /\ k \notin 1 .. 0 - 1
        OBVIOUS
      <4>2. IsFiniteSet(ApprovalsAhead(flow, n)) /\ Cardinality(ApprovalsAhead(flow, n)) = 0
        BY <3>3, FS_EmptySet
      <4>3. \A m \in Ahead(flow, n) : "end" \in Ahead(flow, m)
        BY <2>6, <3>2
      <4> QED BY <3>3, <4>1, <4>2, <4>3 DEF Passes
    <3> QED BY <2>2, <2>5, <3>1, <3>2, <3>4 DEF Good
  <2>7. CASE n # "end"
    <3>1. PICK m : m = PickNextEdge(flow, n)
      OBVIOUS
    <3>2. PICK U : U = T \union {n}
      OBVIOUS
    <3>3. PICK rest : rest = walk[U][m]
      OBVIOUS
    <3>4. m \in Nodes \union {None} /\ U \in SUBSET Nodes /\ U # T /\ T \subseteq U
      BY <2>1, <2>4, <2>5, <3>1, <3>2, BranchIsPicked
    <3>5. walk[T][n] = (IF Types(flow, n) = "approval" THEN <<n>> ELSE <<>>) \o rest
      BY <2>3, <2>4, <2>7, <3>1, <3>2, <3>3
    <3>6. Failed(rest) => Failed(walk[T][n])
      BY <3>3, <3>4, <3>5, <2>5, WalkIsSequence, FailureStays
    <3>7. U \notin B
      BY <2>1, <3>4
    <3>8. Good(U, m)
      BY <2>2, <3>3, <3>4, <3>6, <3>7
    <3>9. m \in Nodes /\ Ahead(flow, m) \cap U = {} /\ Passes(flow, m, rest)
      BY <3>3, <3>8 DEF Good
    <3>10. n \notin Ahead(flow, m)
      BY <3>2, <3>9
    <3>11. Passes(flow, n, walk[T][n])
      BY <2>5, <2>7, <3>1, <3>5, <3>9, <3>10, PassesOneMore
    <3>12. Ahead(flow, n) \cap T = {}
      BY <2>4, <2>5, <2>7, <3>1, <3>2, <3>9, AheadByBranch
    <3> QED BY <2>2, <2>5, <3>11, <3>12 DEF Good
  <2> QED BY <2>6, <2>7
<1> QED BY <1>1

\* Where a walk fails, the way ends in a set of nodes it does not leave.
LEMMA FailedWalkStays ==
    ASSUME NEW flow \in ValidFlows, NEW walk, IsWalk(flow, walk)
    PROVE  \A T \in SUBSET Nodes, n \in Nodes \union {None} :
              /\ "end" \notin T /\ Failed(walk[T][n])
              /\ \A x \in T : Default(flow)[x] \subseteq T \union {n}
              => \E S \in SUBSET Nodes : /\ T \subseteq S /\ "end" \notin S
                                         /\ n \in S \/ n = None
                                         /\ Closed(flow, S)
<1> DEFINE Pre(T, n) == /\ "end" \notin T /\ Failed(walk[T][n])
                        /\ \A x \in T : Default(flow)[x] \subseteq T \union {n}
           Post(T, n) == \E S \in SUBSET Nodes : /\ T \subseteq S /\ "end" \notin S
                                                 /\ n \in S \/ n = None
                                                 /\ Closed(flow, S)
           B == {T \in SUBSET Nodes : \E n \in Nodes \union {None} : Pre(T, n) /\ ~Post(T, n)}
<1>1. CASE B # {}
  <2>1. PICK T \in B : \A U \in B : T \subseteq U => U = T
    <3>1. B \in SUBSET (SUBSET Nodes)
      OBVIOUS
    <3> HIDE DEF B
    <3> QED BY <1>1, <3>1, LargestSet
  <2>2. PICK n \in Nodes \union {None} : Pre(T, n) /\ ~Post(T, n)
    BY <2>1
  <2>3. T \in SUBSET Nodes /\ \A U \in SUBSET Nodes : T \subseteq U /\ U # T => U \notin B
    BY <2>1
  <2>4. Unfolds(flow, walk, T, n)
    <3> HIDE DEF B
    <3> QED BY <2>3, WalkUnfolds
  <2>5. \A x \in T : Default(flow)[x] \subseteq Nodes /\ None \notin Default(flow)[x]
    <3>1. ASSUME NEW x \in T PROVE Default(flow)[x] \subseteq Nodes
      <4>1. x \in Nodes
        BY <2>3
      <4> HIDE DEF B, Pre, Post
      <4> QED BY <4>1, DefaultIsPicked, EndIsAlone
    <3>2. None \notin Nodes
      BY NoneAssumption DEF Nodes
    <3> QED BY <3>1, <3>2
  <2>6. CASE n = None \/ n \in T
    <3>1. Closed(flow, T)
      BY <2>2, <2>5, <2>6 DEF Closed
    <3> QED BY <2>2, <2>3, <2>6, <3>1
  <2>7. CASE n = "end" /\ n # None /\ n \notin T
    <3>1. walk[T][n] = <<>>
      BY <2>4, <2>7 DEF Unfolds
    <3>2. ~Failed(<<>>)
      BY DEF Failed
    <3> QED BY <2>2, <3>1, <3>2
  <2>8. CASE n # "end" /\ n # None /\ n \notin T
    <3>1. PICK m : m = PickNextEdge(flow, n)
      OBVIOUS
    <3>2. PICK U : U = T \union {n}
      OBVIOUS
    <3>3. PICK rest : rest = walk[U][m]
      OBVIOUS
    <3>4. n \in Nodes /\ m \in Nodes \union {None} /\ U \in SUBSET Nodes /\ U # T /\ T \subseteq U
      BY <2>3, <2>8, <3>1, <3>2, BranchIsPicked
    <3>5. walk[T][n] = (IF Types(flow, n) = "approval" THEN <<n>> ELSE <<>>) \o rest
      BY <2>4, <2>8, <3>1, <3>2, <3>3 DEF Unfolds
    <3>6. Failed(rest)
      <4> HIDE DEF B, Post
      <4>1. Failed(walk[T][n])
        BY <2>2
      <4> HIDE DEF Pre
      <4>2. rest \in Seq(Nodes \union {None})
        BY <3>3, <3>4, WalkIsSequence
      <4>3. PICK approval \in BOOLEAN : approval = (Types(flow, n) = "approval")
        OBVIOUS
      <4>4. PICK one : one = IF Types(flow, n) = "approval" THEN <<n>> ELSE <<>>
        OBVIOUS
      <4>5. one = IF approval THEN <<n>> ELSE <<>>
        BY <4>3, <4>4
      <4> QED BY <3>4, <3>5, <4>1, <4>2, <4>4, <4>5, FailureStays
    <3>7. \A x \in U : Default(flow)[x] \subseteq U \union {m}
      <4>1. Default(flow)[n] \subseteq {m}
        BY <2>8, <3>1, <3>4, DefaultIsPicked
      <4> QED BY <2>2, <3>2, <4>1
    <3>8. Pre(U, m)
      BY <2>2, <2>8, <3>2, <3>3, <3>6, <3>7
    <3>9. U \notin B
      BY <2>3, <3>4
    <3>10. Post(U, m)
      <4> HIDE DEF Pre, Post
      <4> QED BY <3>4, <3>8, <3>9
    <3>11. Post(T, n)
      BY <3>2, <3>10
    <3> QED BY <2>2, <3>11
  <2> QED BY <2>6, <2>7, <2>8
<1> QED BY <1>1

\* The steps of a case follow the default way of its flow.
Follows(flow, steps) ==
    LET approvals == {n \in OnRoute(flow) : Types(flow, n) = "approval"}
    IN  /\ approvals # {}
        /\ {steps[s] : s \in 1 .. Len(steps)} = approvals
        /\ Len(steps) = Cardinality(approvals)
        /\ \A s \in 1 .. Len(steps) - 1 :
              steps[s + 1] \in ReachableFrom(steps[s], Default(flow))

NoApproval(flow) == \A n \in OnRoute(flow) : Types(flow, n) # "approval"

\* Steps that are the approvals ahead of the start are those of the route.
LEMMA PassesFollow ==
    ASSUME NEW flow \in ValidFlows, NEW steps, Passes(flow, "start", steps)
    PROVE  /\ steps # <<>> => Follows(flow, steps)
           /\ steps = <<>> => NoApproval(flow)
<1>1. OnRoute(flow) = Ahead(flow, "start")
  BY DEF OnRoute, Passes, Ahead
<1>2. {n \in OnRoute(flow) : Types(flow, n) = "approval"} = ApprovalsAhead(flow, "start")
  BY <1>1 DEF ApprovalsAhead
<1>3. CASE steps = <<>>
  <2>1. {steps[k] : k \in 1 .. Len(steps)} = {}
    BY <1>3
  <2>2. ApprovalsAhead(flow, "start") = {}
    BY <2>1 DEF Passes
  <2> QED BY <1>2, <1>3, <2>2 DEF NoApproval
<1>4. CASE steps # <<>>
  <2>1. 1 \in 1 .. Len(steps)
    BY <1>4 DEF Passes
  <2>2. ApprovalsAhead(flow, "start") # {}
    BY <2>1 DEF Passes
  <2>3. /\ {steps[k] : k \in 1 .. Len(steps)} = ApprovalsAhead(flow, "start")
        /\ Len(steps) = Cardinality(ApprovalsAhead(flow, "start"))
        /\ \A k \in 1 .. Len(steps) - 1 : steps[k + 1] \in Ahead(flow, steps[k])
    BY DEF Passes
  <2> QED BY <1>2, <1>4, <2>2, <2>3 DEF Follows, Ahead
<1> QED BY <1>3, <1>4

\* The walker finds the approvals of the default way, or there are none.
LEMMA WalkerFollows ==
    ASSUME NEW flow \in ValidFlows
    PROVE  /\ Walks(flow) => Follows(flow, WalkFrom(flow))
           /\ ~Walks(flow) => NoApproval(flow)
<1>1. PICK walk : IsWalk(flow, walk) /\ WalkFrom(flow) = walk[{}]["start"]
  BY WalkFromIsWalk
<1>2. "start" \in Nodes /\ {} \in SUBSET Nodes
  BY DEF Nodes
<1>3. PICK steps : steps = WalkFrom(flow)
  OBVIOUS
<1>4. CASE ~Failed(steps)
  <2>1. Passes(flow, "start", steps)
    BY <1>1, <1>2, <1>3, <1>4, WalkPasses
  <2> QED BY <1>3, <1>4, <2>1, PassesFollow DEF Walks
<1>5. CASE Failed(steps)
  <2>1. \E S \in SUBSET Nodes : /\ {} \subseteq S /\ "end" \notin S
                                /\ "start" \in S \/ "start" = None
                                /\ Closed(flow, S)
    <3>1. Failed(walk[{}]["start"])
      BY <1>1, <1>3, <1>5
    <3> QED BY <1>1, <1>2, <3>1, FailedWalkStays
  <2>2. PICK S \in SUBSET Nodes : "end" \notin S /\ "start" \in S /\ Closed(flow, S)
    BY <2>1, <1>2, NoneAssumption
  <2>3. "end" \notin Ahead(flow, "start")
    BY <1>2, <2>2, AheadIsClosed
  <2>4. OnRoute(flow) = {}
    <3>1. ASSUME NEW n \in Ahead(flow, "start") PROVE "end" \notin Ahead(flow, n)
      BY <1>2, <2>3, AheadIsClosed
    <3> QED BY <3>1 DEF OnRoute, Ahead
  <2>5. NoApproval(flow)
    BY <2>4 DEF NoApproval
  <2> QED BY <1>3, <1>5, <2>5 DEF Walks
<1> QED BY <1>4, <1>5

-----------------------------------------------------------------------------
(* Approval flows: the flows that are a line of approvals                  *)

\* The nodes of such a flow after the start, and those from the k-th on.
OnLine(l, k) == IF k = l + 1 THEN "end" ELSE Line[k]

LineFrom(l, k) == [p \in 1 .. l + 1 - k |-> Line[k + p - 1]]

\* The only branch of a node is picked.
LEMMA OneBranch ==
    ASSUME NEW flow, NEW n, NEW to, NEW kind \in DOMAIN EdgePriority,
           flow.out[n] = <<[to |-> to, kind |-> kind]>>
    PROVE  PickNextEdge(flow, n) = to
<1>1. PICK out : out = flow.out[n]
  OBVIOUS
<1>2. out = <<[to |-> to, kind |-> kind]>> /\ Len(out) = 1 /\ out # <<>> /\ out[1].to = to
  BY <1>1
<1> DEFINE best == {k \in 1 .. Len(out) : \A j \in 1 .. Len(out) :
                      EdgePriority[out[k].kind] <= EdgePriority[out[j].kind]}
<1>3. out[1].kind = kind /\ EdgePriority[kind] \in Nat
  BY <1>2 DEF EdgePriority
<1>4. best = {1}
  <2>1. 1 .. Len(out) = {1}
    BY <1>2
  <2>2. EdgePriority[out[1].kind] <= EdgePriority[out[1].kind]
    BY <1>3
  <2> QED BY <2>1, <2>2
<1>5. PickNextEdge(flow, n) = out[CHOOSE k \in best : \A j \in best : k <= j].to
  BY <1>1, <1>2 DEF PickNextEdge
<1>6. (CHOOSE k \in best : \A j \in best : k <= j) = 1
  BY <1>4
<1> QED BY <1>2, <1>5, <1>6

\* What the line assumption says of its nodes.
LEMMA LineNodes ==
    /\ Len(Line) \in Nat /\ Len(Line) >= 1
    /\ \A k \in 1 .. Len(Line) :
          /\ Line[k] \in Inner /\ Line[k] \in Nodes
          /\ Line[k] # "start" /\ Line[k] # "end" /\ Line[k] # None
    /\ "start" \in Nodes /\ "end" \in Nodes
<1>1. Len(Line) \in Nat
  BY LineAssumption
<1>2. Len(Line) >= 1
  <2>1. PICK line : line = Line
    OBVIOUS
  <2>2. line \in Seq(Inner) /\ line # <<>>
    BY <2>1, LineAssumption
  <2> QED BY <2>1, <2>2
<1>3. ASSUME NEW k \in 1 .. Len(Line) PROVE Line[k] \in Inner
  BY DEF Inner
<1>4. None \notin Inner /\ "start" \notin Inner /\ "end" \notin Inner
  BY LineAssumption, NoneAssumption
<1>5. Inner \subseteq Nodes /\ "start" \in Nodes /\ "end" \in Nodes
  BY DEF Nodes
<1> QED BY <1>1, <1>2, <1>3, <1>4, <1>5

\* What LinearFlow says of its nodes.
LinearShape(flow, l) ==
    /\ flow.type = [n \in Inner |-> "approval"] /\ flow.nodes = SubSeq(Line, 1, l)
    /\ flow.out["start"] = <<[to |-> Line[1], kind |-> "always"]>>
    /\ \A k \in 1 .. l : flow.out[Line[k]] = <<[to |-> OnLine(l, k + 1), kind |-> "on_decision"]>>

\* A linear flow has that shape and is valid.
LEMMA LinearHasShape ==
    ASSUME NEW l \in 1 .. Len(Line)
    PROVE  LinearShape(LinearFlow(l), l) /\ LinearFlow(l) \in ValidFlows
<1> DEFINE after(k) == IF k = l THEN "end" ELSE Line[k + 1]
           level(n) == CHOOSE k \in 1 .. Len(Line) : Line[k] = n
           Edges == [to : Nodes, kind : DOMAIN EdgePriority]
           branch(n) == CASE n = "start" -> <<[to |-> Line[1], kind |-> "always"]>>
                          [] n \in Inner /\ level(n) <= l ->
                               <<[to |-> after(level(n)), kind |-> "on_decision"]>>
                          [] OTHER -> <<>>
           out == [n \in Nodes |-> branch(n)]
<1>1. LinearFlow(l) = [type |-> [n \in Inner |-> "approval"], nodes |-> SubSeq(Line, 1, l),
                       out |-> out]
  BY DEF LinearFlow
<1>2. ASSUME NEW k \in 1 .. Len(Line) PROVE level(Line[k]) = k
  BY LineAssumption
<1>3. l \in Nat /\ Len(Line) \in Nat
  BY LineNodes
<1>4. branch("start") = <<[to |-> Line[1], kind |-> "always"]>>
  <2>1. "start" \notin Inner
    BY LineAssumption
  <2> QED BY <2>1
<1>5. ASSUME NEW k \in 1 .. l
      PROVE  branch(Line[k]) = <<[to |-> OnLine(l, k + 1), kind |-> "on_decision"]>>
  <2>1. k \in 1 .. Len(Line)
    BY <1>3
  <2>2. level(Line[k]) = k
    BY <1>2, <2>1
  <2> HIDE DEF level
  <2>3. Line[k] # "start" /\ Line[k] \in Inner
    BY <2>1, LineNodes
  <2>4. after(k) = OnLine(l, k + 1)
    BY <1>3 DEF OnLine
  <2>5. level(Line[k]) <= l
    BY <2>2
  <2>6. branch(Line[k]) = <<[to |-> after(level(Line[k])), kind |-> "on_decision"]>>
    <3> HIDE DEF after
    <3> QED BY <2>3, <2>5
  <2> QED BY <2>2, <2>4, <2>6
<1>6. \A k \in 1 .. l + 1 : OnLine(l, k) \in Nodes
  BY <1>3, LineNodes DEF OnLine
<1>7. ASSUME NEW n \in Nodes PROVE branch(n) \in Seq(Edges)
  <2> DEFINE edge(to, kind) == [to |-> to, kind |-> kind]
  <2>1. ASSUME NEW to \in Nodes, NEW kind \in DOMAIN EdgePriority
        PROVE  <<edge(to, kind)>> \in Seq(Edges)
    <3>1. edge(to, kind) \in Edges
      OBVIOUS
    <3> HIDE DEF edge, Edges
    <3> QED BY <3>1
  <2>2. "always" \in DOMAIN EdgePriority /\ "on_decision" \in DOMAIN EdgePriority
    BY DEF EdgePriority
  <2>3. CASE n = "start"
    <3>1. Line[1] \in Nodes
      BY LineNodes
    <3>2. <<edge(Line[1], "always")>> \in Seq(Edges)
      BY <2>1, <2>2, <3>1
    <3>3. branch(n) = <<edge(Line[1], "always")>>
      BY <1>4, <2>3
    <3> HIDE DEF edge, Edges, branch
    <3> QED BY <3>2, <3>3
  <2>4. CASE \E k \in 1 .. l : n = Line[k]
    <3>1. PICK k \in 1 .. l : n = Line[k]
      BY <2>4
    <3>2. OnLine(l, k + 1) \in Nodes
      BY <1>3, <1>6
    <3>3. <<edge(OnLine(l, k + 1), "on_decision")>> \in Seq(Edges)
      BY <2>1, <2>2, <3>2
    <3>4. branch(n) = <<edge(OnLine(l, k + 1), "on_decision")>>
      <4> HIDE DEF branch
      <4> QED BY <1>5, <3>1
    <3> HIDE DEF edge, Edges, branch
    <3> QED BY <3>3, <3>4
  <2>5. CASE n # "start" /\ ~\E k \in 1 .. l : n = Line[k]
    <3>1. ~(n \in Inner /\ level(n) <= l)
      <4>1. ASSUME n \in Inner PROVE level(n) \in 1 .. Len(Line) /\ Line[level(n)] = n
        BY <4>1 DEF Inner
      <4> HIDE DEF level
      <4> QED BY <1>3, <2>5, <4>1
    <3>2. branch(n) = <<>>
      <4> HIDE DEF level
      <4> QED BY <2>5, <3>1
    <3>3. <<>> \in Seq(Edges)
      OBVIOUS
    <3> HIDE DEF branch, Edges
    <3> QED BY <3>2, <3>3
  <2> QED BY <2>3, <2>4, <2>5
<1>8. /\ out \in [Nodes -> Seq(Edges)] /\ out["start"] = branch("start")
      /\ \A k \in 1 .. l : out[Line[k]] = branch(Line[k])
  <2>1. "start" \in Nodes /\ \A k \in 1 .. l : Line[k] \in Nodes
    BY <1>3, LineNodes
  <2> HIDE DEF branch, Edges
  <2> QED BY <1>7, <2>1
<1> HIDE DEF out, branch
<1>9. LinearShape(LinearFlow(l), l)
  BY <1>1, <1>4, <1>5, <1>8 DEF LinearShape
<1>10. SubSeq(Line, 1, l) \in Seq(Inner)
  BY <1>3, LineAssumption
<1>11. [n \in Inner |-> "approval"] \in [Inner -> {"approval", "notify"}]
  OBVIOUS
<1>12. LinearFlow(l) \in ValidFlows
  <2> HIDE DEF Edges
  <2>1. LinearFlow(l) \in [type : [Inner -> {"approval", "notify"}], nodes : Seq(Inner),
                           out : [Nodes -> Seq(Edges)]]
    BY <1>1, <1>8, <1>10, <1>11
  <2> QED BY <2>1 DEF ValidFlows, Edges
<1> QED BY <1>9, <1>12

\* From every node of the line the way goes along the line to the end.
LEMMA LinePasses ==
    ASSUME NEW flow \in ValidFlows, NEW l \in 1 .. Len(Line), LinearShape(flow, l)
    PROVE  \A k \in 1 .. l + 1 :
              /\ Passes(flow, OnLine(l, k), LineFrom(l, k))
              /\ Ahead(flow, OnLine(l, k)) \subseteq {OnLine(l, j) : j \in k .. l + 1}
<1> DEFINE Good(k) == /\ Passes(flow, OnLine(l, k), LineFrom(l, k))
                      /\ Ahead(flow, OnLine(l, k)) \subseteq {OnLine(l, j) : j \in k .. l + 1}
           D == {d \in Nat : d <= l /\ ~Good(l + 1 - d)}
<1>1. l \in Nat /\ l >= 1 /\ Len(Line) \in Nat
  BY LineNodes
<1>2. Good(l + 1)
  <2>1. OnLine(l, l + 1) = "end" /\ Ahead(flow, "end") = {"end"}
    BY EndIsAlone DEF OnLine
  <2>2. PICK steps : steps = LineFrom(l, l + 1)
    OBVIOUS
  <2>3. steps = <<>>
    BY <1>1, <2>2 DEF LineFrom
  <2>4. ApprovalsAhead(flow, "end") = {}
    BY <2>1, LineAssumption DEF ApprovalsAhead, Types
  <2>5. IsFiniteSet({}) /\ Cardinality({}) = 0
    BY FS_EmptySet
  <2>6. Passes(flow, "end", steps)
    <3>1. steps \in Seq(Ahead(flow, "end")) /\ Len(steps) = 0
      BY <2>3
    <3>2. {steps[k] : k \in 1 .. Len(steps)} = {}
      BY <3>1
    <3>3. \A k \in Int : k \notin 1 .. 0 - 1
      OBVIOUS
    <3>4. \A k \in 1 .. Len(steps) - 1 : steps[k + 1] \in Ahead(flow, steps[k])
      BY <3>1, <3>3
    <3>5. \A x \in Ahead(flow, "end") : "end" \in Ahead(flow, x)
      BY <2>1
    <3> QED BY <2>4, <2>5, <3>1, <3>2, <3>4, <3>5 DEF Passes
  <2>7. l + 1 \in l + 1 .. l + 1
    BY <1>1
  <2> QED BY <2>1, <2>2, <2>6, <2>7
<1>3. ASSUME NEW k \in 1 .. l, Good(k + 1) PROVE Good(k)
  <2>1. PICK n : n = Line[k]
    OBVIOUS
  <2>2. PICK m : m = OnLine(l, k + 1)
    OBVIOUS
  <2>3. k \in 1 .. Len(Line) /\ OnLine(l, k) = n
    BY <1>1, <2>1 DEF OnLine
  <2>4. n \in Nodes /\ n # "end" /\ n \in Inner
    BY <2>1, <2>3, LineNodes
  <2>5. m \in Nodes
    BY <1>1, <2>2, LineNodes DEF OnLine
  <2>6. m = PickNextEdge(flow, n)
    <3>1. "on_decision" \in DOMAIN EdgePriority
      BY DEF EdgePriority
    <3>2. flow.out[n] = <<[to |-> m, kind |-> "on_decision"]>>
      BY <2>1, <2>2 DEF LinearShape
    <3> QED BY <3>1, <3>2, OneBranch
  <2>7. PICK rest : rest = LineFrom(l, k + 1)
    OBVIOUS
  <2>8. Passes(flow, m, rest) /\ Ahead(flow, m) \subseteq {OnLine(l, j) : j \in k + 1 .. l + 1}
    BY <1>3, <2>2, <2>7
  <2>9. n \notin Ahead(flow, m)
    <3>1. ASSUME NEW j \in k + 1 .. l + 1 PROVE OnLine(l, j) # n
      <4>1. CASE j = l + 1
        BY <2>4, <4>1 DEF OnLine
      <4>2. CASE j # l + 1
        <5>1. j \in 1 .. Len(Line) /\ j # k
          BY <1>1, <4>2
        <5>2. OnLine(l, j) = Line[j]
          BY <4>2 DEF OnLine
        <5> QED BY <2>1, <2>3, <5>1, <5>2, LineAssumption
      <4> QED BY <4>1, <4>2
    <3> QED BY <2>8, <3>1
  <2>10. Types(flow, n) = "approval"
    BY <2>4 DEF LinearShape, Types
  <2>11. PICK steps : steps = LineFrom(l, k)
    OBVIOUS
  <2>12. steps = <<n>> \o rest
    <3>1. steps \in Seq(Nodes) /\ Len(steps) = l + 1 - k /\ rest \in Seq(Nodes) /\ Len(rest) = l - k
      BY <1>1, <2>7, <2>11, LineNodes DEF LineFrom
    <3>2. PICK s : s = <<n>> \o rest
      OBVIOUS
    <3>4. /\ s \in Seq(Nodes) /\ Len(s) = Len(rest) + 1 /\ s[1] = n
          /\ \A p \in 1 .. Len(rest) : s[p + 1] = rest[p]
      <4>1. n \in Nodes /\ rest \in Seq(Nodes)
        BY <2>4, <3>1
      <4> QED BY <3>2, <4>1, Prepended
    <3>5. ASSUME NEW p \in 1 .. Len(steps) PROVE steps[p] = s[p]
      <4>1. CASE p = 1
        <5>1. steps[1] = Line[k + 1 - 1]
          BY <1>1, <2>11, <3>5, <4>1 DEF LineFrom
        <5> QED BY <1>1, <2>1, <3>4, <4>1, <5>1
      <4>2. CASE p # 1
        <5>1. p - 1 \in 1 .. Len(rest) /\ p - 1 \in 1 .. l + 1 - (k + 1) /\ p \in 1 .. l + 1 - k
          BY <1>1, <3>1, <4>2
        <5>2. s[p] = rest[p - 1]
          <6>1. s[(p - 1) + 1] = rest[p - 1]
            BY <3>4, <5>1
          <6>2. (p - 1) + 1 = p
            BY <3>1
          <6> QED BY <6>1, <6>2
        <5>3. rest[p - 1] = Line[(k + 1) + (p - 1) - 1] /\ steps[p] = Line[k + p - 1]
          BY <2>7, <2>11, <5>1 DEF LineFrom
        <5>4. (k + 1) + (p - 1) - 1 = k + p - 1
          BY <1>1, <3>1
        <5> QED BY <5>2, <5>3, <5>4
      <4> QED BY <4>1, <4>2
    <3>6. Len(steps) = Len(s)
      BY <1>1, <3>1, <3>4
    <3>7. steps = s
      BY <3>1, <3>4, <3>5, <3>6
    <3> QED BY <3>2, <3>7
  <2>13. Passes(flow, n, steps)
    <3>1. steps = (IF Types(flow, n) = "approval" THEN <<n>> ELSE <<>>) \o rest
      BY <2>10, <2>12
    <3> QED BY <2>4, <2>5, <2>6, <2>8, <2>9, <3>1, PassesOneMore
  <2>14. Ahead(flow, n) \subseteq {OnLine(l, j) : j \in k .. l + 1}
    <3>1. Ahead(flow, n) = {n} \union Ahead(flow, m)
      BY <2>4, <2>5, <2>6, AheadByBranch
    <3>2. k \in k .. l + 1 /\ k + 1 .. l + 1 \subseteq k .. l + 1
      BY <1>1
    <3> QED BY <2>3, <2>8, <3>1, <3>2
  <2> QED BY <2>3, <2>11, <2>13, <2>14
<1>4. D = {}
  <2>1. SUFFICES ASSUME D # {} PROVE FALSE
    OBVIOUS
  <2>2. PICK d \in D : \A e \in D : d <= e
    <3>1. D \in SUBSET Nat
      OBVIOUS
    <3> HIDE DEF D
    <3> QED BY <2>1, <3>1, LeastNatural
  <2> HIDE DEF Good
  <2>3. d \in Nat /\ d <= l /\ ~Good(l + 1 - d)
    OBVIOUS
  <2>4. d # 0
    <3>1. ASSUME d = 0 PROVE l + 1 - d = l + 1
      BY <1>1, <3>1
    <3> QED BY <1>2, <2>3, <3>1
  <2>5. d - 1 \in Nat /\ d - 1 <= l /\ ~(d <= d - 1) /\ d - 1 \notin D
    BY <1>1, <2>2, <2>3, <2>4
  <2>6. Good(l + 1 - (d - 1))
    BY <2>5
  <2>7. PICK k \in 1 .. l : k = l + 1 - d
    BY <1>1, <2>3, <2>4
  <2>8. l + 1 - (d - 1) = k + 1
    BY <1>1, <2>3, <2>7
  <2> QED BY <1>3, <2>3, <2>6, <2>7, <2>8
<1>5. ASSUME NEW k \in 1 .. l + 1 PROVE Good(k)
  <2> HIDE DEF Good
  <2>1. l + 1 - k \in Nat /\ l + 1 - k <= l /\ l + 1 - (l + 1 - k) = k
    BY <1>1
  <2>2. l + 1 - k \notin D
    BY <1>4
  <2> QED BY <2>1, <2>2
<1> QED BY <1>5

\* The listed approvals of a line are its nodes in their order.
LEMMA LineIsListed ==
    ASSUME NEW flow \in ValidFlows, NEW l \in 1 .. Len(Line), LinearShape(flow, l)
    PROVE  ListedApprovals(flow) = LineFrom(l, 1)
<1>1. l \in Nat /\ l >= 1 /\ l <= Len(Line) /\ Len(Line) \in Nat
  BY LineNodes
<1> DEFINE at == {k \in 1 .. Len(flow.nodes) : Types(flow, flow.nodes[k]) = "approval"}
           rank(k) == Cardinality({j \in at : j <= k})
<1>2. Len(flow.nodes) = l /\ \A k \in 1 .. l : flow.nodes[k] = Line[k]
  <2>1. flow.nodes = SubSeq(Line, 1, l) /\ Line \in Seq(Inner)
    BY LineAssumption DEF LinearShape
  <2> QED BY <1>1, <2>1
<1>3. \A k \in 1 .. l : Types(flow, Line[k]) = "approval"
  BY <1>1, LineNodes DEF LinearShape, Types
<1>4. at = 1 .. l
  BY <1>2, <1>3
<1>5. Cardinality(at) = l
  <2> HIDE DEF at
  <2> QED BY <1>1, <1>4, FS_Interval
<1>6. ASSUME NEW k \in 1 .. l PROVE rank(k) = k
  <2> HIDE DEF at
  <2>1. {j \in at : j <= k} = 1 .. k
    BY <1>1, <1>4
  <2>2. Cardinality(1 .. k) = k
    BY <1>1, FS_Interval
  <2> QED BY <2>1, <2>2
<1>7. ASSUME NEW p \in 1 .. l PROVE (CHOOSE k \in at : rank(k) = p) = p
  <2> HIDE DEF rank, at
  <2> QED BY <1>4, <1>6
<1>8. ListedApprovals(flow) = [p \in 1 .. Cardinality(at) |-> flow.nodes[CHOOSE k \in at : rank(k) = p]]
  BY DEF ListedApprovals
<1> HIDE DEF at, rank
<1>9. ListedApprovals(flow) = [p \in 1 .. l |-> flow.nodes[CHOOSE k \in at : rank(k) = p]]
  BY <1>5, <1>8
<1>10. \A p \in 1 .. l : flow.nodes[CHOOSE k \in at : rank(k) = p] = Line[p]
  BY <1>2, <1>7
<1>11. ListedApprovals(flow) = [p \in 1 .. l |-> Line[p]]
  BY <1>9, <1>10
<1>12. LineFrom(l, 1) = [p \in 1 .. l |-> Line[p]]
  <2>1. l + 1 - 1 = l /\ \A p \in 1 .. l : 1 + p - 1 = p
    BY <1>1
  <2>2. LineFrom(l, 1) = [p \in 1 .. l |-> Line[1 + p - 1]]
    BY <2>1 DEF LineFrom
  <2> QED BY <2>1, <2>2
<1> QED BY <1>11, <1>12

\* The listed approvals of a linear flow follow its default way.
LEMMA LinearFollows ==
    ASSUME NEW l \in 1 .. Len(Line)
    PROVE  Follows(LinearFlow(l), ListedApprovals(LinearFlow(l)))
<1>1. PICK flow : flow = LinearFlow(l)
  OBVIOUS
<1>2. flow \in ValidFlows /\ LinearShape(flow, l)
  BY <1>1, LinearHasShape
<1>3. l \in Nat /\ l >= 1 /\ 1 \in 1 .. l + 1 /\ l # 0
  BY LineNodes
<1>4. PICK m : m = OnLine(l, 1)
  OBVIOUS
<1>5. PICK steps : steps = LineFrom(l, 1)
  OBVIOUS
<1>6. Passes(flow, m, steps) /\ Ahead(flow, m) \subseteq {OnLine(l, j) : j \in 1 .. l + 1}
  BY <1>2, <1>3, <1>4, <1>5, LinePasses
<1>7. \A j \in 1 .. l + 1 : OnLine(l, j) # "start" /\ OnLine(l, j) \in Nodes
  BY LineNodes DEF OnLine
<1>8. m = Line[1] /\ m \in Nodes
  BY <1>3, <1>4, <1>7 DEF OnLine
<1>9. m = PickNextEdge(flow, "start")
  <2>1. "always" \in DOMAIN EdgePriority
    BY DEF EdgePriority
  <2> QED BY <1>2, <1>8, <2>1, OneBranch DEF LinearShape
<1>10. "start" \notin Ahead(flow, m)
  BY <1>6, <1>7
<1>11. steps = (IF Types(flow, "start") = "approval" THEN <<"start">> ELSE <<>>) \o steps
  <2>1. Types(flow, "start") # "approval"
    BY LineAssumption DEF Types
  <2>2. steps \in Seq(Ahead(flow, m))
    BY <1>6 DEF Passes
  <2> QED BY <2>1, <2>2
<1>12. Passes(flow, "start", steps)
  BY <1>2, <1>6, <1>8, <1>9, <1>10, <1>11, LineNodes, PassesOneMore
<1>13. steps # <<>>
  <2>1. Len(steps) = l
    BY <1>3, <1>5 DEF LineFrom
  <2> QED BY <1>3, <2>1
<1> QED BY <1>1, <1>2, <1>5, <1>12, <1>13, LineIsListed, PassesFollow

-----------------------------------------------------------------------------
(* Approval flows: templates                                               *)

FlowRow == [code : AllCodes, flow : ValidFlows, source : {"manual", "nl_draft", "seed"},
            scope : [type : SharedTypes \union {0}, project : Projects \union {None}],
            status : {"draft", "preview", "live"}, version : Nat]

\* Only lines of approvals have the code of a baseline.
BaselineIsLinear(code, flow) ==
    \A t \in SharedTypes : code = BaselineCode[t] => \E l \in 1 .. Len(Line) : flow = LinearFlow(l)

\* Rows and their versions; a row is live once it is committed, and of the rows
\* of a code the later committed has the higher version.
FlowRowsInv ==
    /\ rows \in Seq(FlowRow) /\ commits \in Seq(1 .. Len(rows))
    /\ VersionsUnique
    /\ \A i \in 1 .. Len(rows) :
          /\ rows[i].version <= Len(rows) + Len(commits)
          /\ BaselineIsLinear(rows[i].code, rows[i].flow)
          /\ rows[i].status = "live" <=> \E k \in 1 .. Len(commits) : commits[k] = i
    /\ \A j, k \in 1 .. Len(commits) :
          /\ commits[j] = commits[k] => j = k
          /\ j < k /\ rows[commits[j]].code = rows[commits[k]].code
             => rows[commits[j]].version < rows[commits[k]].version

\* The fields of a template row.
LEMMA RowFields ==
    ASSUME FlowRowsInv
    PROVE  \A i \in 1 .. Len(rows) : /\ rows[i] \in FlowRow /\ rows[i].version \in Nat
                                     /\ rows[i].flow \in ValidFlows
<1>1. \A i \in 1 .. Len(rows) : rows[i] \in FlowRow
  BY DEF FlowRowsInv
<1>2. \A row \in FlowRow : row.version \in Nat /\ row.flow \in ValidFlows
  BY DEF FlowRow
<1> QED BY <1>1, <1>2

\* The highest version of a code is at least each of them, and bounded.
LEMMA MaxVersionIsMax ==
    ASSUME FlowRowsInv, NEW code
    PROVE  /\ MaxVersion(code) \in Nat /\ MaxVersion(code) <= Len(rows) + Len(commits)
           /\ \A i \in 1 .. Len(rows) : rows[i].code = code => rows[i].version <= MaxVersion(code)
<1> DEFINE versions == {rows[i].version : i \in RowsOf(code)} \union {0}
           U == {u \in Nat : \A w \in versions : w <= u}
<1>1. PICK bound : bound = Len(rows) + Len(commits)
  OBVIOUS
<1>2. bound \in Nat
  BY <1>1 DEF FlowRowsInv
<1>3. \A i \in 1 .. Len(rows) : rows[i].version \in Nat /\ rows[i].version <= bound
  BY <1>1, RowFields DEF FlowRowsInv
<1>4. \A w \in versions : w \in Nat /\ w <= bound
  BY <1>2, <1>3 DEF RowsOf
<1>5. 0 \in versions /\ \A i \in 1 .. Len(rows) : rows[i].code = code => rows[i].version \in versions
  BY DEF RowsOf
<1>6. MaxVersion(code) = CHOOSE v \in versions : \A w \in versions : w <= v
  BY DEF MaxVersion
<1> HIDE DEF versions
<1>7. bound \in U /\ U \in SUBSET Nat
  BY <1>2, <1>4
<1>8. PICK u \in U : \A x \in U : u <= x
  <2> HIDE DEF U
  <2> QED BY <1>7, LeastNatural
<1>9. u \in versions
  <2>1. SUFFICES ASSUME u \notin versions PROVE FALSE
    OBVIOUS
  <2>2. u \in Nat /\ u # 0 /\ \A w \in versions : w \in Nat /\ w <= u /\ w # u
    BY <1>4, <1>5, <1>8, <2>1
  <2>3. u - 1 \in U
    BY <2>2
  <2> QED BY <1>8, <2>2, <2>3
<1>10. u \in Nat /\ \A w \in versions : w <= u
  BY <1>8
<1>11. MaxVersion(code) \in versions /\ \A w \in versions : w <= MaxVersion(code)
  BY <1>6, <1>9, <1>10
<1> QED BY <1>1, <1>4, <1>5, <1>11

\* One row is new or changed: what it is for stays, and a new version is above
\* those of its code.
Touches(n) ==
    /\ rows' \in Seq(FlowRow) /\ n \in 1 .. Len(rows')
    /\ Len(rows') = Len(rows) \/ (Len(rows') = Len(rows) + 1 /\ n = Len(rows'))
    /\ \A i \in 1 .. Len(rows') : i # n => i \in 1 .. Len(rows) /\ rows'[i] = rows[i]
    /\ n <= Len(rows) => /\ rows'[n].code = rows[n].code /\ rows'[n].flow = rows[n].flow
                         /\ rows'[n].scope = rows[n].scope /\ rows[n].status # "live"
    /\ BaselineIsLinear(rows'[n].code, rows'[n].flow)
    /\ rows'[n].version <= Len(rows') + Len(commits')

Fresh(n) == \A i \in 1 .. Len(rows) : rows[i].code = rows'[n].code => rows[i].version < rows'[n].version

\* The row stays a draft or a preview, or goes live.
Drafts(n) ==
    /\ Touches(n) /\ rows'[n].status # "live" /\ UNCHANGED <<cases, commits>>
    /\ Fresh(n) \/ (n <= Len(rows) /\ rows'[n].version = rows[n].version)

Lives(n) ==
    /\ Touches(n) /\ Fresh(n) /\ rows'[n].status = "live"
    /\ commits' = Append(commits, n) /\ UNCHANGED cases

\* A linear flow may have the code of a baseline.
LEMMA LinearIsBaseline ==
    ASSUME NEW l \in 1 .. Len(Line), NEW code
    PROVE  LinearFlow(l) \in ValidFlows /\ BaselineIsLinear(code, LinearFlow(l))
  BY LinearHasShape DEF BaselineIsLinear

\* A row appended with a version above those of its code.
LEMMA NewRowTouches ==
    ASSUME FlowRowsInv, NEW row \in FlowRow, rows' = Append(rows, row),
           BaselineIsLinear(row.code, row.flow), row.version > MaxVersion(row.code),
           row.version <= Len(rows) + 1 + Len(commits')
    PROVE  /\ Touches(Len(rows) + 1) /\ Fresh(Len(rows) + 1) /\ rows'[Len(rows) + 1] = row
<1>1. rows \in Seq(FlowRow) /\ Len(rows) \in Nat
  BY DEF FlowRowsInv
<1>2. /\ rows' \in Seq(FlowRow) /\ Len(rows') = Len(rows) + 1 /\ rows'[Len(rows) + 1] = row
      /\ \A i \in 1 .. Len(rows) : rows'[i] = rows[i]
  BY <1>1
<1>3. PICK n : n = Len(rows) + 1
  OBVIOUS
<1>4. /\ n \in 1 .. Len(rows') /\ ~(n <= Len(rows)) /\ n = Len(rows')
      /\ \A i \in 1 .. Len(rows') : i # n => i \in 1 .. Len(rows)
  BY <1>1, <1>2, <1>3
<1>5. Touches(n)
  BY <1>2, <1>3, <1>4 DEF Touches
<1>6. Fresh(n)
  <2>1. PICK top : top = MaxVersion(row.code)
    OBVIOUS
  <2>2. /\ top \in Nat
        /\ \A i \in 1 .. Len(rows) : rows[i].code = row.code => rows[i].version <= top
    BY <2>1, MaxVersionIsMax
  <2>3. \A i \in 1 .. Len(rows) : rows[i].version \in Nat
    BY RowFields
  <2>4. row.version \in Nat /\ row.version > top
    BY <2>1 DEF FlowRow
  <2> QED BY <1>2, <1>3, <2>2, <2>3, <2>4 DEF Fresh
<1> QED BY <1>2, <1>3, <1>5, <1>6

\* create_draft, nl_draft and a seeding that stops half way add a row not live.
LEMMA DraftIsTouch ==
    ASSUME FlowRowsInv, NEW code \in AllCodes, NEW flow \in ValidFlows,
           NEW scope \in [type : SharedTypes \union {0}, project : Projects \union {None}],
           NEW source \in {"manual", "nl_draft", "seed"}, NEW status \in {"draft", "preview"},
           NewRow(code, flow, scope, source, status, MaxVersion(code) + 1),
           BaselineIsLinear(code, flow), UNCHANGED <<cases, commits>>
    PROVE  Drafts(Len(rows) + 1)
<1>1. MaxVersion(code) \in Nat /\ MaxVersion(code) <= Len(rows) + Len(commits)
  BY MaxVersionIsMax
<1>2. PICK top \in Nat : top = MaxVersion(code)
  BY <1>1
<1>3. PICK row : row = [code |-> code, flow |-> flow, scope |-> scope, source |-> source,
                        status |-> status, version |-> top + 1]
  OBVIOUS
<1>4. row \in FlowRow
  BY <1>3 DEF FlowRow
<1>5. row.code = code /\ row.flow = flow /\ row.version = top + 1 /\ row.status = status
  BY <1>3
<1>6. rows' = Append(rows, row) /\ commits' = commits
  BY <1>2, <1>3 DEF NewRow
<1>7. Len(rows) \in Nat /\ Len(commits) \in Nat
  BY DEF FlowRowsInv
<1>8. row.version > MaxVersion(row.code) /\ row.version <= Len(rows) + 1 + Len(commits')
  BY <1>1, <1>2, <1>5, <1>6, <1>7
<1>9. Touches(Len(rows) + 1) /\ Fresh(Len(rows) + 1) /\ rows'[Len(rows) + 1] = row
  BY <1>4, <1>5, <1>6, <1>8, NewRowTouches
<1> QED BY <1>5, <1>9 DEF Drafts

\* A seeding that ends adds a live row.
LEMMA SeedLives ==
    ASSUME FlowRowsInv, NEW t \in SharedTypes, NEW version, NEW levels \in 1 .. Len(Line),
           version = MaxVersion(BaselineCode[t]) + 2,
           NewRow(BaselineCode[t], LinearFlow(levels), NoScope, "seed", "live", version),
           commits' = Append(commits, Len(rows) + 1), UNCHANGED cases
    PROVE  Lives(Len(rows) + 1)
<1>1. PICK code : code = BaselineCode[t]
  OBVIOUS
<1>2. MaxVersion(code) \in Nat /\ MaxVersion(code) <= Len(rows) + Len(commits)
  BY MaxVersionIsMax
<1>3. PICK top \in Nat : top = MaxVersion(code)
  BY <1>2
<1>4. PICK flow : flow = LinearFlow(levels)
  OBVIOUS
<1>5. PICK row : row = [code |-> code, flow |-> flow, scope |-> NoScope, source |-> "seed",
                        status |-> "live", version |-> top + 2]
  OBVIOUS
<1>6. row.code = code /\ row.flow = flow /\ row.version = top + 2 /\ row.status = "live"
  BY <1>5
<1>7. row \in FlowRow
  <2>1. code \in AllCodes /\ flow \in ValidFlows
    BY <1>1, <1>4, LinearHasShape DEF AllCodes
  <2>2. NoScope \in [type : SharedTypes \union {0}, project : Projects \union {None}]
    BY DEF NoScope
  <2> QED BY <1>5, <2>1, <2>2 DEF FlowRow
<1>8. Len(rows) \in Nat /\ Len(commits) \in Nat /\ Len(commits') = Len(commits) + 1
  BY DEF FlowRowsInv
<1>9. rows' = Append(rows, row)
  BY <1>1, <1>3, <1>4, <1>5 DEF NewRow
<1>10. row.version > MaxVersion(row.code) /\ row.version <= Len(rows) + 1 + Len(commits')
  BY <1>2, <1>3, <1>6, <1>8
<1>11. BaselineIsLinear(row.code, row.flow)
  BY <1>4, <1>6, LinearIsBaseline
<1>12. Touches(Len(rows) + 1) /\ Fresh(Len(rows) + 1) /\ rows'[Len(rows) + 1] = row
  BY <1>7, <1>9, <1>10, <1>11, NewRowTouches
<1> QED BY <1>6, <1>12 DEF Lives

\* A row whose status, and maybe version, changes.
LEMMA ChangeTouches ==
    ASSUME FlowRowsInv, NEW i \in 1 .. Len(rows), rows[i].status # "live",
           NEW status \in {"draft", "preview", "live"}, NEW version \in Nat,
           rows' = [rows EXCEPT ![i] = [rows[i] EXCEPT !.status = status, !.version = version]],
           version <= Len(rows) + Len(commits')
    PROVE  Touches(i) /\ rows'[i].status = status /\ rows'[i].version = version
<1>1. rows \in Seq(FlowRow) /\ Len(rows) \in Nat
  BY DEF FlowRowsInv
<1>2. PICK row : row = [rows[i] EXCEPT !.status = status, !.version = version]
  OBVIOUS
<1>3. rows[i] \in FlowRow
  BY <1>1
<1>4. /\ row.code = rows[i].code /\ row.flow = rows[i].flow /\ row.scope = rows[i].scope
      /\ row.status = status /\ row.version = version
  BY <1>2, <1>3 DEF FlowRow
<1>5. row \in FlowRow
  BY <1>2, <1>3 DEF FlowRow
<1>6. rows' = [rows EXCEPT ![i] = row]
  BY <1>2
<1>7. /\ rows' \in Seq(FlowRow) /\ Len(rows') = Len(rows) /\ rows'[i] = row
      /\ \A j \in 1 .. Len(rows) : j # i => rows'[j] = rows[j]
  <2>1. i \in 1 .. Len(rows) /\ i \in DOMAIN rows
    BY <1>1
  <2>2. Len(rows') = Len(rows)
    BY <1>1, <1>6
  <2>3. rows' \in Seq(FlowRow)
    BY <1>1, <1>5, <1>6
  <2>4. rows'[i] = row
    BY <1>6, <2>1
  <2>5. \A j \in 1 .. Len(rows) : j # i => rows'[j] = rows[j]
    BY <1>1, <1>6
  <2> QED BY <2>2, <2>3, <2>4, <2>5
<1>8. BaselineIsLinear(row.code, row.flow)
  BY <1>4 DEF FlowRowsInv
<1>9. i \in 1 .. Len(rows') /\ i <= Len(rows)
  BY <1>7
<1> QED BY <1>4, <1>7, <1>8, <1>9 DEF Touches

\* Rows keep their code, flow and scope; committed rows stay committed.
FlowsGrow ==
    /\ Len(rows') \in Nat /\ Len(rows) <= Len(rows')
    /\ Len(commits') \in Nat /\ Len(commits) <= Len(commits')
    /\ \A i \in 1 .. Len(rows) : /\ rows'[i].code = rows[i].code /\ rows'[i].flow = rows[i].flow
                                 /\ rows'[i].scope = rows[i].scope
    /\ \A k \in 1 .. Len(commits) : commits'[k] = commits[k]

\* A step on one row lets templates and commits grow.
LEMMA TouchGrows ==
    ASSUME FlowRowsInv, NEW n, Drafts(n) \/ Lives(n)
    PROVE  FlowsGrow
<1>1. Len(rows) \in Nat /\ Len(commits) \in Nat /\ Touches(n)
  BY DEF FlowRowsInv, Drafts, Lives
<1>2. Len(rows') \in Nat /\ Len(rows) <= Len(rows') /\ n \in Nat
  BY <1>1 DEF Touches
<1>3. /\ Len(commits') \in Nat /\ Len(commits) <= Len(commits')
      /\ \A k \in 1 .. Len(commits) : commits'[k] = commits[k]
  <2>1. CASE commits' = commits
    BY <1>1, <2>1
  <2>2. CASE commits' = Append(commits, n)
    BY <1>1, <2>2 DEF FlowRowsInv
  <2> QED BY <2>1, <2>2 DEF Drafts, Lives
<1>4. ASSUME NEW i \in 1 .. Len(rows)
      PROVE  /\ rows'[i].code = rows[i].code /\ rows'[i].flow = rows[i].flow
             /\ rows'[i].scope = rows[i].scope
  <2>1. i \in 1 .. Len(rows') /\ (i = n => n <= Len(rows))
    BY <1>1, <1>2
  <2> QED BY <1>1, <2>1 DEF Touches
<1> QED BY <1>2, <1>3, <1>4 DEF FlowsGrow

\* A step on one row keeps the versions of a code apart.
LEMMA TouchKeepsVersions ==
    ASSUME FlowRowsInv, NEW n, Drafts(n) \/ Lives(n)
    PROVE  VersionsUnique'
<1>1. Touches(n) /\ (Fresh(n) \/ (n <= Len(rows) /\ rows'[n].version = rows[n].version))
  BY DEF Drafts, Lives
<1>2. n \in 1 .. Len(rows') /\ Len(rows) \in Nat
  BY <1>1 DEF FlowRowsInv, Touches
<1>3. ASSUME NEW i \in 1 .. Len(rows'), i # n
      PROVE  ~(rows'[i].code = rows'[n].code /\ rows'[i].version = rows'[n].version)
  <2>1. i \in 1 .. Len(rows) /\ rows'[i] = rows[i]
    BY <1>1, <1>3 DEF Touches
  <2>2. rows[i].version \in Nat
    BY <2>1, RowFields
  <2>3. CASE Fresh(n)
    <3>1. rows[i].code = rows'[n].code => rows[i].version < rows'[n].version
      BY <2>1, <2>3 DEF Fresh
    <3> QED BY <2>1, <2>2, <3>1
  <2>4. CASE n <= Len(rows) /\ rows'[n].version = rows[n].version
    <3>1. n \in 1 .. Len(rows) /\ rows'[n].code = rows[n].code
      BY <1>1, <1>2, <2>4 DEF Touches
    <3>2. ~(rows[i].code = rows[n].code /\ rows[i].version = rows[n].version)
      BY <1>3, <2>1, <3>1 DEF FlowRowsInv, VersionsUnique
    <3> QED BY <2>1, <2>4, <3>1, <3>2
  <2> QED BY <1>1, <2>3, <2>4
<1>4. ASSUME NEW i \in 1 .. Len(rows'), NEW j \in 1 .. Len(rows'), i # n, j # n,
             rows'[i].code = rows'[j].code, rows'[i].version = rows'[j].version
      PROVE  i = j
  <2>1. i \in 1 .. Len(rows) /\ j \in 1 .. Len(rows) /\ rows'[i] = rows[i] /\ rows'[j] = rows[j]
    BY <1>1, <1>4 DEF Touches
  <2> QED BY <1>4, <2>1 DEF FlowRowsInv, VersionsUnique
<1> QED BY <1>2, <1>3, <1>4 DEF VersionsUnique

\* What each row owes to the history of commits.
RowOwes(i) ==
    /\ rows[i].version <= Len(rows) + Len(commits)
    /\ BaselineIsLinear(rows[i].code, rows[i].flow)
    /\ rows[i].status = "live" <=> \E k \in 1 .. Len(commits) : commits[k] = i

CommitsOwe(j, k) ==
    /\ commits[j] = commits[k] => j = k
    /\ j < k /\ rows[commits[j]].code = rows[commits[k]].code
       => rows[commits[j]].version < rows[commits[k]].version

\* The invariant, row by row and commit by commit.
LEMMA RowsInvParts ==
    FlowRowsInv <=> /\ rows \in Seq(FlowRow) /\ commits \in Seq(1 .. Len(rows))
                    /\ VersionsUnique
                    /\ \A i \in 1 .. Len(rows) : RowOwes(i)
                    /\ \A j, k \in 1 .. Len(commits) : CommitsOwe(j, k)
  BY DEF FlowRowsInv, RowOwes, CommitsOwe

\* A row that does not go live keeps the invariant of the rows.
LEMMA DraftKeepsRows ==
    ASSUME FlowRowsInv, NEW n, Drafts(n)
    PROVE  FlowRowsInv'
<1>1. /\ rows \in Seq(FlowRow) /\ commits \in Seq(1 .. Len(rows))
      /\ \A i \in 1 .. Len(rows) : RowOwes(i)
      /\ \A j, k \in 1 .. Len(commits) : CommitsOwe(j, k)
  BY RowsInvParts
<1>2. Touches(n) /\ commits' = commits /\ rows'[n].status # "live"
  BY DEF Drafts
<1>3. Len(rows) \in Nat /\ Len(commits) \in Nat /\ Len(rows') \in Nat /\ Len(rows) <= Len(rows')
  BY <1>1, <1>2 DEF Touches
<1>4. n \notin 1 .. Len(rows) \/ rows[n].status # "live"
  BY <1>3, <1>2 DEF Touches
<1>5. \A k \in 1 .. Len(commits) : commits[k] \in 1 .. Len(rows) /\ commits[k] # n
  BY <1>1, <1>4 DEF RowOwes
<1>6. \A k \in 1 .. Len(commits) : commits[k] \in 1 .. Len(rows') /\ rows'[commits[k]] = rows[commits[k]]
  BY <1>2, <1>3, <1>5 DEF Touches
<1>7. commits' \in Seq(1 .. Len(rows'))
  <2>1. commits \in Seq(1 .. Len(rows'))
    BY <1>1, <1>6
  <2> QED BY <1>2, <2>1
<1>8. ASSUME NEW j \in 1 .. Len(commits'), NEW k \in 1 .. Len(commits') PROVE CommitsOwe(j, k)'
  <2>1. j \in 1 .. Len(commits) /\ k \in 1 .. Len(commits) /\ CommitsOwe(j, k)
    BY <1>1, <1>2
  <2> QED BY <1>2, <1>6, <2>1 DEF CommitsOwe
<1>9. ASSUME NEW i \in 1 .. Len(rows') PROVE RowOwes(i)'
  <2>1. CASE i # n
    <3>1. i \in 1 .. Len(rows) /\ rows'[i] = rows[i] /\ RowOwes(i)
      BY <1>1, <1>2, <2>1 DEF Touches
    <3>2. rows[i].version \in Nat
      BY <3>1, RowFields
    <3> QED BY <1>2, <1>3, <3>1, <3>2 DEF RowOwes
  <2>2. CASE i = n
    <3>1. \A k \in 1 .. Len(commits') : commits'[k] # i
      BY <1>2, <1>5, <2>2
    <3> QED BY <1>2, <2>2, <3>1 DEF RowOwes, Touches
  <2> QED BY <2>1, <2>2
<1>10. VersionsUnique'
  BY TouchKeepsVersions
<1>11. rows' \in Seq(FlowRow)
  BY <1>2 DEF Touches
<1> QED BY <1>7, <1>8, <1>9, <1>10, <1>11, RowsInvParts DEF FlowRowsInv, RowOwes, CommitsOwe

\* A row that goes live keeps it: its version is above all of its code.
LEMMA LiveKeepsRows ==
    ASSUME FlowRowsInv, NEW n, Lives(n)
    PROVE  FlowRowsInv'
<1>1. /\ rows \in Seq(FlowRow) /\ commits \in Seq(1 .. Len(rows))
      /\ \A i \in 1 .. Len(rows) : RowOwes(i)
      /\ \A j, k \in 1 .. Len(commits) : CommitsOwe(j, k)
  BY RowsInvParts
<1>2. Touches(n) /\ Fresh(n) /\ commits' = Append(commits, n) /\ rows'[n].status = "live"
  BY DEF Lives
<1>3. Len(rows) \in Nat /\ Len(commits) \in Nat /\ Len(rows') \in Nat /\ Len(rows) <= Len(rows')
      /\ n \in 1 .. Len(rows')
  BY <1>1, <1>2 DEF Touches
<1>4. n \notin 1 .. Len(rows) \/ rows[n].status # "live"
  BY <1>3, <1>2 DEF Touches
<1>5. \A k \in 1 .. Len(commits) : commits[k] \in 1 .. Len(rows) /\ commits[k] # n
  BY <1>1, <1>4 DEF RowOwes
<1>6. \A k \in 1 .. Len(commits) : commits[k] \in 1 .. Len(rows') /\ rows'[commits[k]] = rows[commits[k]]
  BY <1>2, <1>3, <1>5 DEF Touches
<1>7. /\ Len(commits') = Len(commits) + 1 /\ commits'[Len(commits) + 1] = n
      /\ \A k \in 1 .. Len(commits) : commits'[k] = commits[k]
  BY <1>1, <1>2
<1>8. commits' \in Seq(1 .. Len(rows'))
  <2>1. commits \in Seq(1 .. Len(rows'))
    BY <1>1, <1>6
  <2> QED BY <1>2, <1>3, <2>1
<1>9. ASSUME NEW j \in 1 .. Len(commits'), NEW k \in 1 .. Len(commits') PROVE CommitsOwe(j, k)'
  <2>1. CASE j \in 1 .. Len(commits) /\ k \in 1 .. Len(commits)
    <3>1. CommitsOwe(j, k)
      BY <1>1, <2>1
    <3> QED BY <1>6, <1>7, <2>1, <3>1 DEF CommitsOwe
  <2>2. CASE j \in 1 .. Len(commits) /\ k = Len(commits) + 1
    <3>1. commits'[j] # n /\ commits'[k] = n /\ rows'[commits'[j]] = rows[commits[j]]
      BY <1>5, <1>6, <1>7, <2>2
    <3>2. rows[commits[j]].code = rows'[n].code => rows[commits[j]].version < rows'[n].version
      BY <1>2, <1>5, <2>2 DEF Fresh
    <3> QED BY <3>1, <3>2 DEF CommitsOwe
  <2>3. CASE j = Len(commits) + 1
    <3>1. CASE k = Len(commits) + 1
      BY <1>3, <2>3, <3>1 DEF CommitsOwe
    <3>2. CASE k # Len(commits) + 1
      <4>1. k \in 1 .. Len(commits) /\ ~(j < k)
        BY <1>3, <1>7, <2>3, <3>2
      <4>2. commits'[k] # n /\ commits'[j] = n
        BY <1>5, <1>7, <2>3, <4>1
      <4> QED BY <4>1, <4>2 DEF CommitsOwe
    <3> QED BY <3>1, <3>2
  <2> QED BY <1>3, <1>7, <2>1, <2>2, <2>3
<1>10. ASSUME NEW i \in 1 .. Len(rows') PROVE RowOwes(i)'
  <2>1. CASE i # n
    <3>1. i \in 1 .. Len(rows) /\ rows'[i] = rows[i] /\ RowOwes(i)
      BY <1>1, <1>2, <2>1 DEF Touches
    <3>2. rows[i].version \in Nat
      BY <3>1, RowFields
    <3>3. (\E k \in 1 .. Len(commits') : commits'[k] = i) <=> \E k \in 1 .. Len(commits) : commits[k] = i
      BY <1>3, <1>7, <2>1
    <3>4. rows'[i].version <= Len(rows') + Len(commits')
      BY <1>3, <1>7, <3>1, <3>2 DEF RowOwes
    <3>5. BaselineIsLinear(rows'[i].code, rows'[i].flow)
      BY <3>1 DEF RowOwes
    <3>6. rows'[i].status = "live" <=> \E k \in 1 .. Len(commits') : commits'[k] = i
      BY <3>1, <3>3 DEF RowOwes
    <3> QED BY <3>4, <3>5, <3>6 DEF RowOwes
  <2>2. CASE i = n
    <3>1. Len(commits) + 1 \in 1 .. Len(commits')
      BY <1>3, <1>7
    <3>2. \E k \in 1 .. Len(commits') : commits'[k] = i
      BY <1>7, <2>2, <3>1
    <3> QED BY <1>2, <2>2, <3>2 DEF RowOwes, Touches
  <2> QED BY <2>1, <2>2
<1>11. VersionsUnique'
  BY TouchKeepsVersions
<1>12. rows' \in Seq(FlowRow)
  BY <1>2 DEF Touches
<1> QED BY <1>8, <1>9, <1>10, <1>11, <1>12 DEF FlowRowsInv, RowOwes, CommitsOwe

-----------------------------------------------------------------------------
(* Approval flows: cases                                                   *)

FlowCase == [app : Apps, shared : SharedTypes, project : Projects \union {None}, row : Nat,
             matched : Nat \union {None}, steps : Seq(Nodes \union {None}), asOf : Nat]

\* A case has the steps of its flow, and no flow of its scope has others.
CaseHasSteps(c) ==
    /\ c.row \in 1 .. Len(rows) /\ c.asOf \in Nat /\ c.asOf <= Len(commits)
    /\ Follows(rows[c.row].flow, c.steps)
    /\ c.matched # None => c.matched \in 1 .. Len(rows)
    /\ c.matched \notin {None, c.row} => NoApproval(rows[c.matched].flow)

\* Its flow was the last to go live, for its code and scope.
CaseHasLatest(c) ==
    \E p \in 1 .. c.asOf :
        /\ commits[p] = c.row
        /\ \A j \in 1 .. c.asOf : (/\ rows[commits[j]].code = rows[c.row].code
                                   /\ rows[commits[j]].scope = rows[c.row].scope) => j <= p

CaseHasScope(c) ==
    \A j \in 1 .. c.asOf :
        /\ c.matched # None /\ c.project # None
        /\ rows[commits[j]].scope = [type |-> c.shared, project |-> c.project]
        => rows[c.matched].scope = rows[commits[j]].scope

CaseInv(c) == CaseHasSteps(c) /\ CaseHasLatest(c) /\ CaseHasScope(c)

FlowsInv ==
    /\ FlowRowsInv
    /\ cases \in Seq(FlowCase) /\ \A k \in 1 .. Len(cases) : CaseInv(cases[k])

\* A case stays right while templates and commits grow.
LEMMA CaseStays ==
    ASSUME FlowRowsInv, FlowsGrow, NEW c, CaseInv(c)
    PROVE  CaseInv(c)'
<1>1. /\ c.row \in 1 .. Len(rows) /\ c.asOf \in Nat /\ c.asOf <= Len(commits)
      /\ c.matched # None => c.matched \in 1 .. Len(rows)
  BY DEF CaseInv, CaseHasSteps
<1>2. /\ Len(rows) \in Nat /\ Len(rows') \in Nat /\ Len(commits) \in Nat /\ Len(commits') \in Nat
      /\ \A k \in 1 .. Len(commits) : commits[k] \in 1 .. Len(rows)
  BY DEF FlowRowsInv, FlowsGrow
<1>3. ASSUME NEW i \in 1 .. Len(rows)
      PROVE  /\ i \in 1 .. Len(rows') /\ rows'[i].code = rows[i].code
             /\ rows'[i].flow = rows[i].flow /\ rows'[i].scope = rows[i].scope
  BY <1>2 DEF FlowsGrow
<1>4. ASSUME NEW j \in 1 .. c.asOf
      PROVE  /\ commits'[j] = commits[j] /\ commits[j] \in 1 .. Len(rows)
             /\ rows'[commits'[j]].code = rows[commits[j]].code
             /\ rows'[commits'[j]].scope = rows[commits[j]].scope
  <2>1. j \in 1 .. Len(commits)
    BY <1>1, <1>2
  <2>2. commits'[j] = commits[j] /\ commits[j] \in 1 .. Len(rows)
    BY <1>2, <2>1 DEF FlowsGrow
  <2> QED BY <1>3, <2>2
<1>5. CaseHasSteps(c)'
  <2>1. c.asOf <= Len(commits')
    BY <1>1, <1>2 DEF FlowsGrow
  <2>2. c.row \in 1 .. Len(rows') /\ rows'[c.row].flow = rows[c.row].flow
    BY <1>1, <1>3
  <2>3. c.matched # None => c.matched \in 1 .. Len(rows') /\ rows'[c.matched].flow = rows[c.matched].flow
    BY <1>1, <1>3
  <2> QED BY <1>1, <2>1, <2>2, <2>3 DEF CaseInv, CaseHasSteps
<1>6. CaseHasLatest(c)'
  <2>1. PICK p \in 1 .. c.asOf :
           /\ commits[p] = c.row
           /\ \A j \in 1 .. c.asOf : (/\ rows[commits[j]].code = rows[c.row].code
                                      /\ rows[commits[j]].scope = rows[c.row].scope) => j <= p
    BY DEF CaseInv, CaseHasLatest
  <2>2. commits'[p] = c.row
    BY <1>4, <2>1
  <2>3. rows'[c.row].code = rows[c.row].code /\ rows'[c.row].scope = rows[c.row].scope
    BY <1>1, <1>3
  <2>4. ASSUME NEW j \in 1 .. c.asOf, rows'[commits'[j]].code = rows'[c.row].code,
               rows'[commits'[j]].scope = rows'[c.row].scope
        PROVE  j <= p
    BY <1>4, <2>1, <2>3, <2>4
  <2> QED BY <2>2, <2>4 DEF CaseHasLatest
<1>7. CaseHasScope(c)'
  <2>1. ASSUME NEW j \in 1 .. c.asOf, c.matched # None, c.project # None,
               rows'[commits'[j]].scope = [type |-> c.shared, project |-> c.project]
        PROVE  rows'[c.matched].scope = rows'[commits'[j]].scope
    <3>1. rows'[c.matched].scope = rows[c.matched].scope
      BY <1>1, <1>3, <2>1
    <3>2. rows'[commits'[j]].scope = rows[commits[j]].scope
      BY <1>4
    <3>3. rows[commits[j]].scope = [type |-> c.shared, project |-> c.project]
      BY <2>1, <3>2
    <3>4. rows[c.matched].scope = rows[commits[j]].scope
      BY <2>1, <3>3 DEF CaseInv, CaseHasScope
    <3> QED BY <3>1, <3>2, <3>4
  <2> QED BY <2>1 DEF CaseHasScope
<1> QED BY <1>5, <1>6, <1>7 DEF CaseInv

\* The live row with the highest version is the one committed last.
LEMMA HighestIsLatest ==
    ASSUME FlowRowsInv, NEW i \in 1 .. Len(rows), rows[i].status = "live",
           \A j \in 1 .. Len(rows) :
              (/\ rows[j].status = "live" /\ rows[j].code = rows[i].code
               /\ rows[j].scope = rows[i].scope) => rows[j].version <= rows[i].version
    PROVE  \E p \in 1 .. Len(commits) :
              /\ commits[p] = i
              /\ \A j \in 1 .. Len(commits) : (/\ rows[commits[j]].code = rows[i].code
                                               /\ rows[commits[j]].scope = rows[i].scope) => j <= p
<1>1. PICK p \in 1 .. Len(commits) : commits[p] = i
  BY DEF FlowRowsInv
<1>2. ASSUME NEW j \in 1 .. Len(commits), rows[commits[j]].code = rows[i].code,
             rows[commits[j]].scope = rows[i].scope
      PROVE  j <= p
  <2>1. commits[j] \in 1 .. Len(rows)
    BY DEF FlowRowsInv
  <2>2. rows[commits[j]].status = "live"
    BY <2>1 DEF FlowRowsInv
  <2>3. rows[commits[j]].version <= rows[i].version
    BY <1>2, <2>1, <2>2
  <2>4. p < j => rows[commits[p]].version < rows[commits[j]].version
    BY <1>1, <1>2 DEF FlowRowsInv
  <2>5. rows[i].version \in Nat /\ rows[commits[j]].version \in Nat
    BY <2>1, RowFields
  <2>6. Len(commits) \in Nat
    BY DEF FlowRowsInv
  <2> QED BY <1>1, <2>3, <2>4, <2>5, <2>6
<1> QED BY <1>1, <1>2

\* Scopes are the same when both of their fields are.
LEMMA RowScopes ==
    ASSUME FlowRowsInv, NEW i \in 1 .. Len(rows), NEW j \in 1 .. Len(rows)
    PROVE  rows[i].scope = rows[j].scope <=> InScope(i, rows[j].scope.type, rows[j].scope.project)
<1>1. rows[i] \in FlowRow /\ rows[j] \in FlowRow
  BY RowFields
<1>2. \A row \in FlowRow : row.scope \in [type : SharedTypes \union {0}, project : Projects \union {None}]
  BY DEF FlowRow
<1>3. PICK a, b : a = rows[i].scope /\ b = rows[j].scope
  OBVIOUS
<1>4. /\ a \in [type : SharedTypes \union {0}, project : Projects \union {None}]
      /\ b \in [type : SharedTypes \union {0}, project : Projects \union {None}]
  BY <1>1, <1>2, <1>3
<1>5. a = b <=> a.type = b.type /\ a.project = b.project
  BY <1>4
<1> QED BY <1>3, <1>5 DEF InScope

\* What find_live_for_scope finds.
ScopeFound(i, shared, project) ==
    /\ i \in 1 .. Len(rows) /\ rows[i].status = "live"
    /\ \A j \in 1 .. Len(rows) :
          /\ rows[j].status = "live" /\ rows[j].scope = rows[i].scope
             => rows[j].version <= rows[i].version
          /\ rows[j].status = "live" /\ project # None /\ InScope(j, shared, project)
             => rows[i].scope = rows[j].scope

\* find_live_for_scope finds the highest live row, the project's before that of all.
LEMMA FoundInScope ==
    ASSUME FlowRowsInv, NEW shared, NEW project, NEW i \in find_live_for_scope(shared, project)
    PROVE  ScopeFound(i, shared, project)
<1> DEFINE exact == {j \in LiveFlows : project # None /\ InScope(j, shared, project)}
           wildcard == {j \in LiveFlows : InScope(j, shared, None)}
<1>1. find_live_for_scope(shared, project) = IF exact # {} THEN Highest(exact) ELSE Highest(wildcard)
  BY DEF find_live_for_scope
<1>2. ASSUME NEW S \in {exact, wildcard}, i \in Highest(S), S = exact \/ exact = {}
      PROVE  ScopeFound(i, shared, project)
  <2>1. i \in S /\ \A j \in S : rows[j].version <= rows[i].version
    BY <1>2 DEF Highest
  <2>2. i \in 1 .. Len(rows) /\ rows[i].status = "live"
    BY <2>1 DEF LiveFlows
  <2>3. ASSUME NEW j \in 1 .. Len(rows), rows[j].status = "live", rows[j].scope = rows[i].scope
        PROVE  j \in S
    BY <2>1, <2>3 DEF LiveFlows, InScope
  <2>4. ASSUME NEW j \in 1 .. Len(rows), rows[j].status = "live", project # None,
               InScope(j, shared, project)
        PROVE  rows[i].scope = rows[j].scope
    <3>1. j \in exact
      BY <2>4 DEF LiveFlows
    <3>2. i \in exact
      BY <1>2, <2>1, <3>1
    <3>3. InScope(i, rows[j].scope.type, rows[j].scope.project)
      BY <2>4, <3>2 DEF InScope
    <3> QED BY <2>2, <3>3, RowScopes
  <2> HIDE DEF exact, wildcard
  <2> QED BY <2>1, <2>2, <2>3, <2>4 DEF ScopeFound
<1> HIDE DEF exact, wildcard
<1> QED BY <1>1, <1>2

\* A case that starts from row i, or for row m in its scope.
LEMMA NewCaseIsRight ==
    ASSUME FlowRowsInv, NEW app \in Apps, NEW shared \in SharedTypes,
           NEW project \in Projects \union {None}, NEW i \in 1 .. Len(rows),
           NEW m, NEW steps \in Seq(Nodes \union {None}),
           rows[i].status = "live",
           \A j \in 1 .. Len(rows) :
              (/\ rows[j].status = "live" /\ rows[j].code = rows[i].code
               /\ rows[j].scope = rows[i].scope) => rows[j].version <= rows[i].version,
           Follows(rows[i].flow, steps),
           m # None => ScopeFound(m, shared, project),
           m \notin {None, i} => NoApproval(rows[m].flow),
           NEW c, c = Case(app, shared, project, i, m, steps)
    PROVE  c \in FlowCase /\ CaseInv(c)
<1>1. Len(rows) \in Nat /\ Len(commits) \in Nat /\ i \in Nat
  BY DEF FlowRowsInv
<1>2. /\ c.app = app /\ c.shared = shared /\ c.project = project /\ c.row = i
      /\ c.matched = m /\ c.steps = steps /\ c.asOf = Len(commits)
  BY DEF Case
<1>3. m \in Nat \union {None}
  BY <1>1 DEF ScopeFound
<1>4. c \in FlowCase
  BY <1>1, <1>3 DEF Case, FlowCase
<1>5. CaseHasSteps(c)
  BY <1>1, <1>2 DEF CaseHasSteps, ScopeFound
<1>6. CaseHasLatest(c)
  <2>1. PICK p \in 1 .. Len(commits) :
              /\ commits[p] = i
              /\ \A j \in 1 .. Len(commits) : (/\ rows[commits[j]].code = rows[i].code
                                               /\ rows[commits[j]].scope = rows[i].scope) => j <= p
    BY HighestIsLatest
  <2> QED BY <1>2, <2>1 DEF CaseHasLatest
<1>7. CaseHasScope(c)
  <2>1. ASSUME NEW j \in 1 .. c.asOf, c.matched # None, c.project # None,
               rows[commits[j]].scope = [type |-> c.shared, project |-> c.project]
        PROVE  rows[c.matched].scope = rows[commits[j]].scope
    <3>1. commits[j] \in 1 .. Len(rows) /\ rows[commits[j]].status = "live"
      <4>1. j \in 1 .. Len(commits)
        BY <1>2
      <4>2. commits[j] \in 1 .. Len(rows)
        BY <4>1 DEF FlowRowsInv
      <4> QED BY <4>1, <4>2 DEF FlowRowsInv
    <3>2. InScope(commits[j], shared, project)
      <4>1. PICK s : s = rows[commits[j]].scope
        OBVIOUS
      <4>2. s = [type |-> shared, project |-> project]
        BY <1>2, <2>1, <4>1
      <4>3. s.type = shared /\ s.project = project
        BY <4>2
      <4> QED BY <4>1, <4>3 DEF InScope
    <3> QED BY <1>2, <2>1, <3>1, <3>2 DEF ScopeFound
  <2> QED BY <2>1 DEF CaseHasScope
<1> QED BY <1>4, <1>5, <1>6, <1>7 DEF CaseInv

\* start_approval_workflow_from_schema adds a case that is right.
LEMMA SchemaCase ==
    ASSUME FlowsInv, NEW app \in Apps, NEW shared \in SharedTypes,
           NEW project \in Projects \union {None}, CaseFromSchema(app, shared, project)
    PROVE  \E c \in FlowCase : CaseInv(c) /\ cases' = Append(cases, c)
<1>1. FlowRowsInv
  BY DEF FlowsInv
<1>2. PICK i \in find_live_for_scope(shared, project) :
        /\ Walks(rows[i].flow)
        /\ cases' = Append(cases, Case(app, shared, project, i, i, WalkFrom(rows[i].flow)))
  BY DEF CaseFromSchema
<1>3. ScopeFound(i, shared, project)
  BY <1>1, FoundInScope
<1>4. i \in 1 .. Len(rows) /\ rows[i].status = "live"
  BY <1>3 DEF ScopeFound
<1>5. PICK flow : flow = rows[i].flow
  OBVIOUS
<1>6. flow \in ValidFlows
  BY <1>1, <1>4, <1>5, RowFields
<1>7. PICK steps : steps = WalkFrom(flow)
  OBVIOUS
<1>8. steps \in Seq(Nodes \union {None})
  <2>1. PICK walk : IsWalk(flow, walk) /\ WalkFrom(flow) = walk[{}]["start"]
    BY <1>6, WalkFromIsWalk
  <2>2. "start" \in Nodes /\ {} \in SUBSET Nodes
    BY DEF Nodes
  <2> QED BY <1>6, <1>7, <2>1, <2>2, WalkIsSequence
<1>9. Follows(flow, steps)
  BY <1>2, <1>5, <1>6, <1>7, WalkerFollows
<1>10. PICK c : c = Case(app, shared, project, i, i, steps)
  OBVIOUS
<1>11. \A j \in 1 .. Len(rows) :
          rows[j].status = "live" /\ rows[j].scope = rows[i].scope
          => rows[j].version <= rows[i].version
  BY <1>3 DEF ScopeFound
<1>12. c \in FlowCase /\ CaseInv(c)
  BY <1>1, <1>3, <1>4, <1>5, <1>8, <1>9, <1>10, <1>11, NewCaseIsRight
<1> QED BY <1>2, <1>5, <1>7, <1>10, <1>12

\* So does start_approval_workflow_from_baseline.
LEMMA BaselineCase ==
    ASSUME FlowsInv, NEW app \in Apps, NEW shared \in SharedTypes,
           NEW project \in Projects \union {None}, CaseFromBaseline(app, shared, project)
    PROVE  \E c \in FlowCase : CaseInv(c) /\ cases' = Append(cases, c)
<1>1. FlowRowsInv
  BY DEF FlowsInv
<1>2. PICK found : found = find_live_for_scope(shared, project)
  OBVIOUS
<1>3. PICK i \in FindLiveBaseline(shared),
           m \in (IF found = {} THEN {None} ELSE {j \in found : ~Walks(rows[j].flow)}) :
        cases' = Append(cases, Case(app, shared, project, i, m, ListedApprovals(rows[i].flow)))
  BY <1>2 DEF CaseFromBaseline
<1>4. /\ i \in 1 .. Len(rows) /\ rows[i].status = "live" /\ rows[i].code = BaselineCode[shared]
      /\ \A j \in 1 .. Len(rows) :
            rows[j].status = "live" /\ rows[j].code = rows[i].code
            => rows[j].version <= rows[i].version
  BY DEF FindLiveBaseline, Highest, LiveFlows
<1>5. PICK l \in 1 .. Len(Line) : rows[i].flow = LinearFlow(l)
  BY <1>1, <1>4 DEF FlowRowsInv, BaselineIsLinear
<1>6. PICK flow : flow = rows[i].flow
  OBVIOUS
<1>7. PICK steps : steps = ListedApprovals(flow)
  OBVIOUS
<1>8. Follows(flow, steps)
  BY <1>5, <1>6, <1>7, LinearFollows
<1>9. steps \in Seq(Nodes \union {None})
  <2>1. LinearFlow(l) \in ValidFlows /\ LinearShape(LinearFlow(l), l)
    BY LinearHasShape
  <2>2. steps = LineFrom(l, 1)
    BY <1>5, <1>6, <1>7, <2>1, LineIsListed
  <2>3. l \in Nat /\ l <= Len(Line) /\ Len(Line) \in Nat
    BY LineNodes
  <2>4. \A p \in 1 .. l + 1 - 1 : 1 + p - 1 \in 1 .. Len(Line)
    BY <2>3
  <2>5. \A p \in 1 .. l + 1 - 1 : Line[1 + p - 1] \in Nodes \union {None}
    BY <2>4, LineNodes
  <2>6. l + 1 - 1 \in Nat
    BY <2>3
  <2> QED BY <2>2, <2>5, <2>6 DEF LineFrom
<1>10. m # None => /\ ScopeFound(m, shared, project) /\ ~Walks(rows[m].flow)
  BY <1>1, <1>2, <1>3, FoundInScope
<1>11. m \notin {None, i} => NoApproval(rows[m].flow)
  <2>1. SUFFICES ASSUME m # None PROVE NoApproval(rows[m].flow)
    OBVIOUS
  <2>2. m \in 1 .. Len(rows) /\ ~Walks(rows[m].flow)
    BY <1>10, <2>1 DEF ScopeFound
  <2>3. rows[m].flow \in ValidFlows
    BY <1>1, <2>2, RowFields
  <2> QED BY <2>2, <2>3, WalkerFollows
<1>12. PICK c : c = Case(app, shared, project, i, m, steps)
  OBVIOUS
<1>13. c \in FlowCase /\ CaseInv(c)
  BY <1>1, <1>4, <1>6, <1>8, <1>9, <1>10, <1>11, <1>12, NewCaseIsRight
<1> QED BY <1>3, <1>6, <1>7, <1>12, <1>13

\* A step that changes templates keeps the cases right.
LEMMA TouchKeepsInv ==
    ASSUME FlowsInv, NEW n, Drafts(n) \/ Lives(n)
    PROVE  FlowsInv'
<1>1. FlowRowsInv /\ cases \in Seq(FlowCase) /\ \A k \in 1 .. Len(cases) : CaseInv(cases[k])
  BY DEF FlowsInv
<1>2. FlowRowsInv'
  BY <1>1, DraftKeepsRows, LiveKeepsRows
<1>3. FlowsGrow
  BY <1>1, TouchGrows
<1>4. cases' = cases
  BY DEF Drafts, Lives
<1>5. ASSUME NEW k \in 1 .. Len(cases') PROVE CaseInv(cases[k])'
  <2>1. PICK c : c = cases[k]
    OBVIOUS
  <2>2. CaseInv(c)
    BY <1>1, <1>4, <2>1
  <2>3. CaseInv(c)'
    BY <1>1, <1>3, <2>2, CaseStays
  <2> QED BY <1>4, <2>1, <2>3 DEF CaseInv, CaseHasSteps, CaseHasLatest, CaseHasScope
<1> QED BY <1>1, <1>2, <1>4, <1>5 DEF FlowsInv

\* A case that is right keeps the invariant.
LEMMA CaseKeepsInv ==
    ASSUME FlowsInv, UNCHANGED <<rows, commits>>, NEW c \in FlowCase, CaseInv(c),
           cases' = Append(cases, c)
    PROVE  FlowsInv'
<1>1. FlowRowsInv /\ cases \in Seq(FlowCase) /\ \A k \in 1 .. Len(cases) : CaseInv(cases[k])
  BY DEF FlowsInv
<1>2. FlowRowsInv'
  <2>1. rows' = rows /\ commits' = commits
    OBVIOUS
  <2>2. VersionsUnique'
    BY <1>1, <2>1 DEF FlowRowsInv, VersionsUnique
  <2> QED BY <1>1, <2>1, <2>2 DEF FlowRowsInv
<1>3. cases' \in Seq(FlowCase)
  BY <1>1
<1>4. ASSUME NEW k \in 1 .. Len(cases') PROVE CaseInv(cases'[k])
  <2>1. cases'[k] = IF k = Len(cases) + 1 THEN c ELSE cases[k]
    BY <1>1, <1>4
  <2>2. k # Len(cases) + 1 => k \in 1 .. Len(cases)
    BY <1>1
  <2> QED BY <1>1, <2>1, <2>2
<1>5. ASSUME NEW k \in 1 .. Len(cases') PROVE CaseInv(cases[k])'
  <2>1. PICK d : d = cases'[k]
    OBVIOUS
  <2>2. CaseInv(d)
    BY <1>4, <2>1
  <2>3. CaseInv(d)'
    BY <2>2 DEF CaseInv, CaseHasSteps, CaseHasLatest, CaseHasScope
  <2> QED BY <2>1, <2>3 DEF CaseInv, CaseHasSteps, CaseHasLatest, CaseHasScope
<1> QED BY <1>2, <1>3, <1>5 DEF FlowsInv

\* Empty tables satisfy the invariant.
LEMMA FlowsStartRight == FlowsInit => FlowsInv
<1> SUFFICES ASSUME FlowsInit PROVE FlowsInv
  OBVIOUS
<1>1. rows = <<>> /\ cases = <<>> /\ commits = <<>>
  BY DEF FlowsInit
<1>2. Len(rows) = 0 /\ Len(cases) = 0 /\ Len(commits) = 0
  BY <1>1
<1>3. rows \in Seq(FlowRow) /\ cases \in Seq(FlowCase) /\ commits \in Seq(1 .. Len(rows))
  BY <1>1
<1> QED BY <1>2, <1>3 DEF FlowsInv, FlowRowsInv, VersionsUnique

\* create_draft of a flow written by hand keeps it.
LEMMA ManualKeepsInv ==
    ASSUME FlowsInv, NEW code \in Codes, NEW flow \in Flows, NEW t \in SharedTypes,
           NEW p \in Projects \union {None}, ManualFlow(code, flow, [type |-> t, project |-> p])
    PROVE  FlowsInv'
<1>1. PICK scope : scope = [type |-> t, project |-> p]
  OBVIOUS
<1>2. scope \in [type : SharedTypes \union {0}, project : Projects \union {None}]
  BY <1>1
<1>3. /\ NewRow(code, flow, scope, "manual", "draft", MaxVersion(code) + 1)
      /\ UNCHANGED <<cases, commits>>
  BY <1>1 DEF ManualFlow, create_draft
<1>4. code \in AllCodes /\ flow \in ValidFlows /\ BaselineIsLinear(code, flow)
  BY FlowsAssumption, CodesAssumption DEF AllCodes, BaselineIsLinear
<1>5. Drafts(Len(rows) + 1)
  BY <1>2, <1>3, <1>4, DraftIsTouch DEF FlowsInv
<1> QED BY <1>5, TouchKeepsInv

\* approval_flow.nl_draft keeps it.
LEMMA SentenceKeepsInv ==
    ASSUME FlowsInv, NEW code \in AllCodes, NEW levels \in 1 .. Len(Line),
           nl_draft_flow(code, levels)
    PROVE  FlowsInv'
<1>1. PICK flow : flow = LinearFlow(levels)
  OBVIOUS
<1>2. NoScope \in [type : SharedTypes \union {0}, project : Projects \union {None}]
  BY DEF NoScope
<1>3. /\ NewRow(code, flow, NoScope, "nl_draft", "draft", MaxVersion(code) + 1)
      /\ UNCHANGED <<cases, commits>>
  BY <1>1 DEF nl_draft_flow, create_draft
<1>4. flow \in ValidFlows /\ BaselineIsLinear(code, flow)
  BY <1>1, LinearIsBaseline
<1>5. Drafts(Len(rows) + 1)
  BY <1>2, <1>3, <1>4, DraftIsTouch DEF FlowsInv
<1> QED BY <1>5, TouchKeepsInv

\* promote_to_preview and revert_to_draft keep it.
LEMMA StatusKeepsInv ==
    ASSUME FlowsInv, NEW i \in 1 .. Len(rows), promote_to_preview(i) \/ revert_to_draft(i)
    PROVE  FlowsInv'
<1>1. PICK status \in {"draft", "preview"} : rows' = [rows EXCEPT ![i].status = status]
  BY DEF promote_to_preview, revert_to_draft
<1>2. rows[i].status # "live" /\ UNCHANGED <<cases, commits>>
  BY DEF promote_to_preview, revert_to_draft
<1>3. FlowRowsInv
  BY DEF FlowsInv
<1>4. rows[i] \in FlowRow /\ rows[i].version \in Nat
  BY <1>3, RowFields
<1>5. [rows[i] EXCEPT !.status = status]
        = [rows[i] EXCEPT !.status = status, !.version = rows[i].version]
  BY <1>4 DEF FlowRow
<1>6. rows' = [rows EXCEPT ![i] = [rows[i] EXCEPT !.status = status, !.version = rows[i].version]]
  BY <1>1, <1>5
<1>7. rows[i].version <= Len(rows) + Len(commits')
  BY <1>2, <1>3 DEF FlowRowsInv
<1>8. Touches(i) /\ rows'[i].status = status /\ rows'[i].version = rows[i].version
  BY <1>2, <1>3, <1>4, <1>6, <1>7, ChangeTouches
<1>9. i <= Len(rows)
  BY <1>3 DEF FlowRowsInv
<1>10. Drafts(i)
  BY <1>1, <1>2, <1>8, <1>9 DEF Drafts
<1> QED BY <1>10, TouchKeepsInv

\* commit_to_live keeps it: the version is above every other of the code.
LEMMA CommitKeepsInv ==
    ASSUME FlowsInv, NEW i \in 1 .. Len(rows), commit_flow(i)
    PROVE  FlowsInv'
<1>1. /\ rows[i].status = "preview" /\ commits' = Append(commits, i) /\ cases' = cases
      /\ rows' = [rows EXCEPT ![i].status = "live", ![i].version = CommittedVersion(i)]
  BY DEF commit_flow, GoLive
<1>2. FlowRowsInv
  BY DEF FlowsInv
<1>3. PICK code : code = rows[i].code
  OBVIOUS
<1>4. /\ MaxVersion(code) \in Nat /\ MaxVersion(code) <= Len(rows) + Len(commits)
      /\ \A j \in 1 .. Len(rows) : rows[j].code = code => rows[j].version <= MaxVersion(code)
  BY <1>2, MaxVersionIsMax
<1>5. PICK version \in Nat : version = MaxVersion(code) + 1
  BY <1>4
<1>6. CommittedVersion(i) = version
  BY <1>3, <1>5 DEF CommittedVersion
<1>7. rows[i] \in FlowRow
  BY <1>2, RowFields
<1>8. rows' = [rows EXCEPT ![i] = [rows[i] EXCEPT !.status = "live", !.version = version]]
  <2>1. rows' = [rows EXCEPT ![i].status = "live", ![i].version = version]
    BY <1>1, <1>6
  <2> QED BY <1>2, <1>7, <2>1 DEF FlowRowsInv
<1>9. Len(commits') = Len(commits) + 1 /\ Len(commits) \in Nat /\ Len(rows) \in Nat
  BY <1>1, <1>2 DEF FlowRowsInv
<1>10. version <= Len(rows) + Len(commits') /\ rows[i].status # "live"
  BY <1>1, <1>4, <1>5, <1>9
<1>11. Touches(i) /\ rows'[i].status = "live" /\ rows'[i].version = version
  BY <1>2, <1>8, <1>10, ChangeTouches
<1>12. rows'[i].code = code
  BY <1>3, <1>9, <1>11 DEF Touches
<1>13. Fresh(i)
  BY <1>2, <1>4, <1>5, <1>11, <1>12, RowFields DEF Fresh
<1>14. Lives(i)
  BY <1>1, <1>11, <1>13 DEF Lives
<1> QED BY <1>14, TouchKeepsInv

\* ApprovalFlowBaselineSeeder keeps it, wherever it stops.
LEMMA SeedKeepsInv ==
    ASSUME FlowsInv, NEW t \in SharedTypes, seed_baseline(t)
    PROVE  FlowsInv'
<1>1. FlowRowsInv
  BY DEF FlowsInv
<1>2. PICK levels \in 1 .. Len(Line) : BaselinePayload(t) = LinearFlow(levels)
  BY LineNodes DEF BaselinePayload
<1>3. PICK code : code = BaselineCode[t]
  OBVIOUS
<1>4. PICK flow : flow = LinearFlow(levels)
  OBVIOUS
<1>5. code \in AllCodes /\ flow \in ValidFlows /\ BaselineIsLinear(code, flow)
  BY <1>3, <1>4, LinearIsBaseline DEF AllCodes
<1>6. NoScope \in [type : SharedTypes \union {0}, project : Projects \union {None}]
  BY DEF NoScope
<1>7. MaxVersion(code) \in Nat
  BY <1>1, MaxVersionIsMax
<1>8. cases' = cases
  BY DEF seed_baseline
<1>9. \/ /\ NewRow(code, flow, NoScope, "seed", "live", MaxVersion(code) + 1 + 1)
         /\ commits' = Append(commits, Len(rows) + 1)
      \/ \E status \in {"draft", "preview"} :
            /\ NewRow(code, flow, NoScope, "seed", status, MaxVersion(code) + 1)
            /\ UNCHANGED commits
  BY <1>2, <1>3, <1>4 DEF seed_baseline
<1>10. CASE /\ NewRow(code, flow, NoScope, "seed", "live", MaxVersion(code) + 1 + 1)
            /\ commits' = Append(commits, Len(rows) + 1)
  <2>1. PICK version : version = MaxVersion(code) + 1 + 1
    OBVIOUS
  <2>2. version = MaxVersion(BaselineCode[t]) + 2
    BY <1>3, <1>7, <2>1
  <2>3. NewRow(BaselineCode[t], LinearFlow(levels), NoScope, "seed", "live", version)
    BY <1>3, <1>4, <1>10, <2>1
  <2>4. Lives(Len(rows) + 1)
    BY <1>1, <1>8, <1>10, <2>2, <2>3, SeedLives
  <2> QED BY <2>4, TouchKeepsInv
<1>11. CASE \E status \in {"draft", "preview"} :
              /\ NewRow(code, flow, NoScope, "seed", status, MaxVersion(code) + 1)
              /\ UNCHANGED commits
  <2>1. PICK status \in {"draft", "preview"} :
              /\ NewRow(code, flow, NoScope, "seed", status, MaxVersion(code) + 1)
              /\ UNCHANGED commits
    BY <1>11
  <2>2. Drafts(Len(rows) + 1)
    BY <1>1, <1>5, <1>6, <1>8, <2>1, DraftIsTouch
  <2> QED BY <2>2, TouchKeepsInv
<1> QED BY <1>9, <1>10, <1>11

\* An application that starts its case keeps it.
LEMMA StartKeepsInv ==
    ASSUME FlowsInv, NEW app \in Apps, NEW t \in SharedTypes, NEW p \in Projects \union {None},
           StartWorkflow(app, t, p)
    PROVE  FlowsInv'
<1>1. UNCHANGED <<rows, commits>> /\ (CaseFromSchema(app, t, p) \/ CaseFromBaseline(app, t, p))
  BY DEF StartWorkflow
<1>2. PICK c \in FlowCase : CaseInv(c) /\ cases' = Append(cases, c)
  BY <1>1, SchemaCase, BaselineCase
<1> QED BY <1>1, <1>2, CaseKeepsInv

\* Every step keeps the invariant.
LEMMA FlowsInvKept == FlowsInv /\ [FlowsNext]_flowVars => FlowsInv'
<1> SUFFICES ASSUME FlowsInv, [FlowsNext]_flowVars PROVE FlowsInv'
  OBVIOUS
<1>1. CASE FlowsNext
  BY <1>1, ManualKeepsInv, SentenceKeepsInv, StatusKeepsInv, CommitKeepsInv, SeedKeepsInv,
     StartKeepsInv DEF FlowsNext
<1>2. CASE UNCHANGED flowVars
  BY <1>2 DEF flowVars, FlowsInv, FlowRowsInv, VersionsUnique, CaseInv, CaseHasSteps,
              CaseHasLatest, CaseHasScope
<1> QED BY <1>1, <1>2

\* The invariant gives what the users of templates and cases rely on.
LEMMA FlowsInvAgrees == FlowsInv => FlowsAgree
<1> SUFFICES ASSUME FlowsInv PROVE FlowsAgree
  OBVIOUS
<1>1. FlowRowsInv /\ \A k \in 1 .. Len(cases) : CaseInv(cases[k])
  BY DEF FlowsInv
<1>2. VersionsUnique
  BY <1>1 DEF FlowRowsInv
<1>3. CaseFollowsFlow
  <2>1. ASSUME NEW k \in 1 .. Len(cases)
        PROVE  /\ Follows(rows[cases[k].row].flow, cases[k].steps)
               /\ cases[k].matched \notin {None, cases[k].row} => NoApproval(rows[cases[k].matched].flow)
    BY <1>1 DEF CaseInv, CaseHasSteps
  <2> QED BY <2>1 DEF CaseFollowsFlow, Follows, NoApproval
<1>4. LatestCommitWins
  <2>1. ASSUME NEW k \in 1 .. Len(cases), NEW j \in 1 .. Len(commits)
        PROVE  LET c == cases[k]
                   other == rows[commits[j]]
               IN  /\ (j <= c.asOf /\ other.code = rows[c.row].code
                       /\ other.scope = rows[c.row].scope) => j <= Position(c.row)
                   /\ (j <= c.asOf /\ c.matched # None /\ c.project # None
                       /\ other.scope = [type |-> c.shared, project |-> c.project])
                      => rows[c.matched].scope = other.scope
    <3>1. PICK c : c = cases[k]
      OBVIOUS
    <3>2. CaseInv(c) /\ c.asOf \in Nat /\ c.asOf <= Len(commits) /\ Len(commits) \in Nat
      BY <1>1, <3>1 DEF CaseInv, CaseHasSteps, FlowRowsInv
    <3>3. PICK p \in 1 .. c.asOf :
            /\ commits[p] = c.row
            /\ \A q \in 1 .. c.asOf : (/\ rows[commits[q]].code = rows[c.row].code
                                       /\ rows[commits[q]].scope = rows[c.row].scope) => q <= p
      BY <3>2 DEF CaseInv, CaseHasLatest
    <3>4. p \in 1 .. Len(commits)
      BY <3>2
    <3>5. Position(c.row) = p
      <4>1. \A q \in 1 .. Len(commits) : commits[q] = c.row => q = p
        BY <1>1, <3>3, <3>4 DEF FlowRowsInv
      <4> QED BY <3>3, <3>4, <4>1 DEF Position
    <3>6. j <= c.asOf => j \in 1 .. c.asOf
      BY <3>2
    <3>7. (j <= c.asOf /\ rows[commits[j]].code = rows[c.row].code
           /\ rows[commits[j]].scope = rows[c.row].scope) => j <= Position(c.row)
      BY <3>3, <3>5, <3>6
    <3>8. (j <= c.asOf /\ c.matched # None /\ c.project # None
           /\ rows[commits[j]].scope = [type |-> c.shared, project |-> c.project])
          => rows[c.matched].scope = rows[commits[j]].scope
      BY <3>2, <3>6 DEF CaseInv, CaseHasScope
    <3> QED BY <3>1, <3>7, <3>8
  <2> QED BY <2>1 DEF LatestCommitWins
<1> QED BY <1>2, <1>3, <1>4 DEF FlowsAgree

\* For any number of codes, flows, projects, applications and levels, templates
\* and cases agree: versions of a code are unique, a case takes the flow of its
\* scope that went live last (commit_to_live, find_live_for_scope), and has as
\* its steps the approvals on the flow's default way, in their order, whatever
\* graph of branches the flow is (instantiate_steps_from_schema).
THEOREM TemplatesAndCasesAgree == FlowsSpec => []FlowsAgree
<1>1. FlowsInit => FlowsInv
  BY FlowsStartRight
<1>2. FlowsInv /\ [FlowsNext]_flowVars => FlowsInv'
  BY FlowsInvKept
<1>3. FlowsInv => FlowsAgree
  BY FlowsInvAgrees
<1> QED BY <1>1, <1>2, <1>3, PTL DEF FlowsSpec

-----------------------------------------------------------------------------
(* Versions of forms and rules, and what is suggested                     *)

\* So has one that is bounded a greatest.
LEMMA BoundedHasGreatest ==
    ASSUME NEW S \in SUBSET Nat, S # {}, NEW bound \in Nat, \A w \in S : w <= bound
    PROVE  \E v \in S : \A w \in S : w <= v
<1> DEFINE U == {u \in Nat : \A w \in S : w <= u}
<1>1. bound \in U /\ U \in SUBSET Nat
  OBVIOUS
<1>2. PICK u \in U : \A x \in U : u <= x
  <2> HIDE DEF U
  <2> QED BY <1>1, LeastNatural
<1>3. u \in Nat /\ \A w \in S : w <= u
  OBVIOUS
<1>4. u \in S
  <2>1. SUFFICES ASSUME u \notin S PROVE FALSE
    OBVIOUS
  <2>2. PICK x \in S : x <= u /\ x # u
    BY <1>3, <2>1
  <2>3. u - 1 \in Nat /\ ~(u <= u - 1)
    BY <1>3, <2>2
  <2>4. \A w \in S : w <= u - 1
    BY <1>3, <2>1
  <2> QED BY <1>2, <2>3, <2>4
<1> QED BY <1>3, <1>4

-----------------------------------------------------------------------------
(* Forms: lists and what is made of them                                   *)

\* InOrder lists the numbers of a finite set, each once, and no other.
LEMMA ListsInOrder ==
    ASSUME NEW S \in SUBSET Nat, IsFiniteSet(S)
    PROVE  /\ InOrder(S) \in Seq(S) /\ Cardinality(S) \in Nat
           /\ DOMAIN InOrder(S) = 1 .. Cardinality(S) /\ Len(InOrder(S)) = Cardinality(S)
           /\ \A k \in DOMAIN InOrder(S) : InOrder(S)[k] \in S
           /\ \A j, k \in DOMAIN InOrder(S) : InOrder(S)[j] = InOrder(S)[k] => j = k
           /\ \A n \in S : \E k \in DOMAIN InOrder(S) : InOrder(S)[k] = n
<1> DEFINE Below(n) == {m \in S : m < n}
           size == Cardinality(S)
           T == 0 .. (size - 1)
           place == [n \in S |-> Cardinality(Below(n))]
<1>1. size \in Nat
  BY FS_CardinalityType
<1>2. \A n \in S : IsFiniteSet(Below(n)) /\ Cardinality(Below(n)) \in Nat
  <2>1. \A n \in S : Below(n) \in SUBSET S
    OBVIOUS
  <2> HIDE DEF Below
  <2> QED BY <2>1, FS_Subset, FS_CardinalityType
<1>3. \A n \in S : Cardinality(Below(n)) \in T
  <2>1. ASSUME NEW n \in S PROVE Cardinality(Below(n)) < size
    <3>1. Below(n) \in SUBSET S /\ n \in S /\ n \notin Below(n)
      OBVIOUS
    <3>2. Below(n) # S
      BY <3>1
    <3> HIDE DEF Below
    <3>3. Cardinality(Below(n)) <= Cardinality(S) /\ Cardinality(Below(n)) # Cardinality(S)
      BY <3>1, <3>2, FS_Subset
    <3> QED BY <1>1, <1>2, <3>3
  <2> HIDE DEF Below, size
  <2> QED BY <1>1, <1>2, <2>1
<1>4. ASSUME NEW m \in S, NEW n \in S, m < n
      PROVE  Cardinality(Below(m)) # Cardinality(Below(n))
  <2> m \in Nat /\ n \in Nat /\ \A l \in S : l \in Nat
    OBVIOUS
  <2>0. \A l \in S : l < m => l < n
    BY <1>4
  <2>3. ~(m < m)
    OBVIOUS
  <2>1. Below(m) \in SUBSET Below(n) /\ m \in Below(n) /\ m \notin Below(m)
    BY <1>4, <2>0, <2>3
  <2>2. Below(m) # Below(n)
    BY <2>1
  <2> HIDE DEF Below
  <2> QED BY <1>2, <2>1, <2>2, FS_Subset
<1>5. \A m, n \in S : place[m] = place[n] => m = n
  <2>1. \A m, n \in S : m < n \/ n < m \/ m = n
    OBVIOUS
  <2> HIDE DEF Below
  <2> QED BY <1>4, <2>1
<1>6. place \in [S -> T]
  BY <1>3
<1>7. \A n \in S : place[n] = Cardinality(Below(n))
  OBVIOUS
<1> HIDE DEF place, T
<1>8. place \in Injection(S, T)
  BY <1>5, <1>6 DEF Injection, IsInjective
<1>9. IsFiniteSet(T) /\ Cardinality(T) = size
  <2> HIDE DEF size
  <2>1. /\ size - 1 \in Int /\ 0 \in Int
        /\ (IF 0 > size - 1 THEN 0 ELSE (size - 1) - 0 + 1) = size
    BY <1>1
  <2> QED BY <2>1, FS_Interval DEF T
<1>10. place \in Surjection(S, T)
  BY <1>8, <1>9, FS_Injection
<1>11. \A k \in 1 .. size : k - 1 \in T
  <2> HIDE DEF size
  <2> QED BY <1>1 DEF T
<1>12. \A k \in 1 .. size : \E n \in S : Cardinality(Below(n)) = k - 1
  BY <1>7, <1>10, <1>11 DEF Surjection
<1> DEFINE list == [k \in 1 .. size |-> CHOOSE n \in S : Cardinality(Below(n)) = k - 1]
<1>13. InOrder(S) = list
  BY DEF InOrder
<1>14. \A k \in 1 .. size : list[k] \in S /\ place[list[k]] = k - 1
  <2> HIDE DEF Below
  <2> QED BY <1>7, <1>12
<1>15. DOMAIN list = 1 .. size
  OBVIOUS
<1> HIDE DEF list, size
<1>16. \A j, k \in 1 .. size : list[j] = list[k] => j = k
  <2>1. \A j, k \in 1 .. size : j - 1 = k - 1 => j = k
    BY <1>1
  <2> QED BY <1>14, <2>1
<1>17. ASSUME NEW n \in S PROVE \E k \in 1 .. size : list[k] = n
  <2>1. PICK k : k = place[n] + 1
    OBVIOUS
  <2>2. place[n] \in T
    BY <1>6
  <2>3. k \in 1 .. size /\ k - 1 = place[n]
    BY <1>1, <2>1, <2>2 DEF T
  <2>4. list[k] \in S /\ place[list[k]] = place[n]
    BY <1>14, <2>3
  <2> QED BY <1>5, <2>3, <2>4
<1>18. list \in Seq(S) /\ Len(list) = size
  <2>1. list \in [1 .. size -> S]
    BY <1>14, <1>15, <1>13 DEF InOrder, size
  <2> QED BY <1>1, <2>1
<1>19. \A k \in 1 .. size : list[k] \in S
  BY <1>14
<1> QED BY <1>1, <1>13, <1>15, <1>16, <1>17, <1>18, <1>19 DEF size

\* What the first k validators leave of a field.
LEMMA PropertyRuns ==
    ASSUME NEW payload, NEW field, NEW n, n = Len(payload.validators), n \in Nat,
           NEW prop, prop = PropertyAfter(payload, field)
    PROVE  /\ DOMAIN prop = 0 .. n
           /\ prop[0] = [type |-> JsonType(field.type), format |-> JsonFormat(field.type),
                         keywords |-> <<>>]
           /\ \A k \in 1 .. n :
                 prop[k] = IF payload.validators[k].field = field.code
                           THEN _apply_validator_to_prop(prop[k - 1], payload.validators[k])
                           ELSE prop[k - 1]
<1> DEFINE plain == [type |-> JsonType(field.type), format |-> JsonFormat(field.type),
                     keywords |-> <<>>]
           Step(p, k) == IF payload.validators[k].field = field.code
                         THEN _apply_validator_to_prop(p, payload.validators[k])
                         ELSE p
           Runs(f, m) == f = [k \in 0 .. m |-> IF k = 0 THEN plain ELSE Step(f[k - 1], k)]
<1>1. ASSUME NEW m \in Nat PROVE \E f : Runs(f, m)
  <2> DEFINE Stuck == {k \in Nat : ~\E f : Runs(f, k)}
  <2>1. SUFFICES ASSUME Stuck # {} PROVE FALSE
    OBVIOUS
  <2>2. PICK k \in Stuck : \A j \in Stuck : k <= j
    <3> HIDE DEF Runs
    <3>1. Stuck \in SUBSET Nat
      OBVIOUS
    <3> HIDE DEF Stuck
    <3> QED BY <2>1, <3>1, LeastNatural
  <2>3. k \in Nat /\ ~\E f : Runs(f, k)
    OBVIOUS
  <2> HIDE DEF Step
  <2>4. CASE k = 0
    <3> DEFINE f == [j \in 0 .. 0 |-> plain]
    <3>1. f = [j \in 0 .. 0 |-> IF j = 0 THEN plain ELSE Step(f[j - 1], j)]
      OBVIOUS
    <3> QED BY <2>3, <2>4, <3>1
  <2>5. CASE k # 0
    <3>1. k - 1 \in Nat /\ k \in Nat \ {0}
      BY <2>3, <2>5
    <3>2. k - 1 \notin Stuck
      <4>1. ~(k <= k - 1)
        BY <3>1
      <4> HIDE DEF Stuck
      <4> QED BY <2>2, <4>1
    <3>3. PICK f : Runs(f, k - 1)
      BY <3>1, <3>2
    <3> DEFINE g == [j \in 0 .. k |-> IF j = k THEN Step(f[k - 1], k) ELSE f[j]]
    <3>4. \A j \in 0 .. k : j # k => j \in 0 .. k - 1
      BY <3>1
    <3>5. \A j \in 0 .. k - 1 : f[j] = IF j = 0 THEN plain ELSE Step(f[j - 1], j)
      BY <3>3
    <3>6. \A j \in 0 .. k - 1 : g[j] = f[j]
      BY <3>1
    <3>7. ASSUME NEW j \in 0 .. k
          PROVE  g[j] = IF j = 0 THEN plain ELSE Step(g[j - 1], j)
      <4>1. CASE j = k
        <5>1. g[j] = Step(f[k - 1], k) /\ j # 0 /\ k - 1 \in 0 .. k - 1
          BY <3>1, <4>1
        <5>2. g[j - 1] = f[k - 1]
          BY <3>6, <4>1, <5>1
        <5> HIDE DEF g
        <5> QED BY <4>1, <5>1, <5>2
      <4>2. CASE j # k
        <5>1. j \in 0 .. k - 1 /\ (j # 0 => j - 1 \in 0 .. k - 1)
          BY <3>1, <3>4, <4>2
        <5>2. g[j] = f[j] /\ (j # 0 => g[j - 1] = f[j - 1])
          BY <3>6, <5>1
        <5> HIDE DEF g
        <5> QED BY <3>5, <5>1, <5>2
      <4> QED BY <4>1, <4>2
    <3>8. Runs(g, k)
      <4>1. g = [j \in 0 .. k |-> g[j]]
        OBVIOUS
      <4> HIDE DEF g
      <4>2. [j \in 0 .. k |-> g[j]]
              = [j \in 0 .. k |-> IF j = 0 THEN plain ELSE Step(g[j - 1], j)]
        BY <3>7
      <4> QED BY <4>1, <4>2
    <3> QED BY <2>3, <3>8
  <2> QED BY <2>4, <2>5
<1>2. prop = CHOOSE f : Runs(f, n)
  BY DEF PropertyAfter
<1>3. Runs(prop, n)
  <2> HIDE DEF Runs
  <2> QED BY <1>1, <1>2
<1> HIDE DEF Step
<1>4. DOMAIN prop = 0 .. n /\ \A k \in 0 .. n : prop[k] = IF k = 0 THEN plain ELSE Step(prop[k - 1], k)
  BY <1>3
<1>5. 0 \in 0 .. n /\ \A k \in 1 .. n : k \in 0 .. n /\ k # 0
  OBVIOUS
<1> QED BY <1>4, <1>5 DEF Step

\* Lists that hold what they say.
ListsOK(payload) ==
    /\ payload.sections \in Seq(ToSet(payload.sections))
    /\ payload.fields \in Seq(ToSet(payload.fields))
    /\ payload.validators \in Seq(ToSet(payload.validators))

LEMMA ListsAreLong ==
    ASSUME NEW list, NEW S, list \in Seq(S)
    PROVE  /\ Len(list) \in Nat /\ DOMAIN list = 1 .. Len(list)
           /\ ToSet(list) = {list[k] : k \in 1 .. Len(list)}
BY DEF ToSet

\* A validator adds its keywords to those of a property, and gives its values.
LEMMA ValidatorsApply ==
    ASSUME NEW p, "keywords" \in DOMAIN p, NEW v, NEW q, q = _apply_validator_to_prop(p, v),
           NEW new, new = [w \in DOMAIN p.keywords \union DOMAIN v.given |->
                             IF w \in DOMAIN v.given THEN v.given[w] ELSE p.keywords[w]]
    PROVE  "keywords" \in DOMAIN q /\ q.keywords = new
<1>1. q = [p EXCEPT !.keywords = new]
  BY DEF _apply_validator_to_prop
<1> QED BY <1>1

\* The keywords of a field after any number of validators are those its
\* validators gave.
LEMMA KeywordsGiven ==
    ASSUME NEW payload, NEW field, NEW n, n = Len(payload.validators), n \in Nat,
           NEW prop, prop = PropertyAfter(payload, field), NEW m \in 0 .. n
    PROVE  /\ "keywords" \in DOMAIN prop[m]
           /\ \A x : x \in DOMAIN prop[m].keywords
                 <=> \E j \in 1 .. m : Gives(payload.validators[j], field.code, x)
<1> DEFINE v(k) == payload.validators[k]
           Right(l) == /\ "keywords" \in DOMAIN prop[l]
                       /\ \A w : w \in DOMAIN prop[l].keywords <=> \E j \in 1 .. l : Gives(v(j), field.code, w)
           Wrong == {l \in 0 .. n : ~Right(l)}
<1>1. SUFFICES Wrong = {}
  BY DEF Wrong
<1>2. SUFFICES ASSUME Wrong # {} PROVE FALSE
  OBVIOUS
<1>3. Wrong \in SUBSET Nat
  OBVIOUS
<1>4. PICK l \in Wrong : \A j \in Wrong : l <= j
  <2> HIDE DEF Wrong
  <2> QED BY <1>2, <1>3, LeastNatural
<1>5. l \in 0 .. n /\ l \in Nat /\ n \in Nat /\ ~Right(l)
  OBVIOUS
<1>6. /\ "keywords" \in DOMAIN prop[0] /\ prop[0].keywords = <<>>
      /\ \A k \in 1 .. n :
            prop[k] = IF v(k).field = field.code
                      THEN _apply_validator_to_prop(prop[k - 1], v(k)) ELSE prop[k - 1]
  <2> HIDE DEF v
  <2>1. /\ prop[0] = [type |-> JsonType(field.type), format |-> JsonFormat(field.type),
                      keywords |-> <<>>]
        /\ \A k \in 1 .. n :
              prop[k] = IF payload.validators[k].field = field.code
                        THEN _apply_validator_to_prop(prop[k - 1], payload.validators[k])
                        ELSE prop[k - 1]
    BY PropertyRuns
  <2> QED BY <2>1 DEF v
<1>7. CASE l = 0
  <2>1. DOMAIN prop[0].keywords = {} /\ \A k \in 1 .. 0 : FALSE
    BY <1>6
  <2>2. Right(0)
    BY <1>6, <2>1
  <2> QED BY <1>5, <1>7, <2>2
<1>8. CASE l # 0
  <2>1. l - 1 \in 0 .. n /\ l - 1 \in Nat /\ l \in 1 .. n /\ ~(l <= l - 1)
    BY <1>5, <1>8
  <2>2. Right(l - 1)
    <3>1. l - 1 \notin Wrong
      BY <1>4, <2>1
    <3> HIDE DEF Right
    <3> QED BY <2>1, <3>1
  <2>3. 1 .. l = (1 .. (l - 1)) \union {l}
    BY <2>1
  <2>4. PICK before : before = prop[l - 1]
    OBVIOUS
  <2>5. PICK after : after = prop[l]
    OBVIOUS
  <2>6. /\ "keywords" \in DOMAIN before
        /\ \A w : w \in DOMAIN before.keywords <=> \E j \in 1 .. l - 1 : Gives(v(j), field.code, w)
    BY <2>2, <2>4
  <2>7. after = IF v(l).field = field.code THEN _apply_validator_to_prop(before, v(l)) ELSE before
    BY <1>6, <2>1, <2>4, <2>5
  <2> HIDE DEF Right
  <2>8. "keywords" \in DOMAIN after
        /\ \A w : w \in DOMAIN after.keywords <=> (w \in DOMAIN before.keywords \/ Gives(v(l), field.code, w))
    <3>1. CASE v(l).field = field.code
      <4>1. PICK u : u = v(l)
        OBVIOUS
      <4>2. PICK f : f = [w \in DOMAIN before.keywords \union DOMAIN u.given |->
                            IF w \in DOMAIN u.given THEN u.given[w] ELSE before.keywords[w]]
        OBVIOUS
      <4>3. after = _apply_validator_to_prop(before, u)
        BY <2>7, <3>1, <4>1
      <4>4. "keywords" \in DOMAIN after /\ after.keywords = f
        BY ONLY <2>6, <4>2, <4>3, ValidatorsApply
      <4>5. DOMAIN f = DOMAIN before.keywords \union DOMAIN u.given
        BY <4>2
      <4> QED BY <3>1, <4>1, <4>4, <4>5 DEF Gives
    <3>2. CASE v(l).field # field.code
      BY <2>6, <2>7, <3>2 DEF Gives
    <3> QED BY <3>1, <3>2
  <2>9. Right(l)
    <3>1. \A w : w \in DOMAIN after.keywords <=> \E j \in 1 .. l : Gives(v(j), field.code, w)
      BY <2>3, <2>6, <2>8
    <3> QED BY <2>5, <2>8, <3>1 DEF Right
  <2> QED BY <1>5, <2>9
<1> QED BY <1>7, <1>8

\* A keyword has the value that the last validator to give it gave.
LEMMA LastValidatorWins ==
    ASSUME NEW payload, NEW field, NEW n, n = Len(payload.validators), n \in Nat,
           NEW prop, prop = PropertyAfter(payload, field),
           NEW i \in 1 .. n, payload.validators[i].field = field.code,
           NEW given, given = payload.validators[i].given, NEW w, w \in DOMAIN given,
           \A j \in i + 1 .. n : ~Gives(payload.validators[j], field.code, w)
    PROVE  prop[n].keywords[w] = given[w]
<1> DEFINE v(j) == payload.validators[j]
           Wrong == {l \in i .. n : prop[l].keywords[w] # given[w]}
<1>0. n = Len(payload.validators) /\ n \in Nat /\ prop = PropertyAfter(payload, field)
  OBVIOUS
<1>1. SUFFICES ASSUME Wrong # {} PROVE FALSE
  <2>1. n \in i .. n
    OBVIOUS
  <2> QED BY <2>1
<1>2. Wrong \in SUBSET Nat
  OBVIOUS
<1>3. PICK l \in Wrong : \A j \in Wrong : l <= j
  <2> HIDE DEF Wrong
  <2> QED BY <1>1, <1>2, LeastNatural
<1>4. l \in i .. n /\ prop[l].keywords[w] # given[w]
  OBVIOUS
<1>5. l \in 1 .. n /\ l - 1 \in 0 .. n
  BY <1>4
<1>6. prop[l] = IF v(l).field = field.code
                THEN _apply_validator_to_prop(prop[l - 1], v(l)) ELSE prop[l - 1]
  <2> HIDE DEF v
  <2>1. /\ prop[0] = [type |-> JsonType(field.type), format |-> JsonFormat(field.type),
                      keywords |-> <<>>]
        /\ \A k \in 1 .. n :
              prop[k] = IF payload.validators[k].field = field.code
                        THEN _apply_validator_to_prop(prop[k - 1], payload.validators[k])
                        ELSE prop[k - 1]
    BY ONLY <1>0, PropertyRuns
  <2> QED BY <1>5, <2>1 DEF v
<1>7. PICK before : before = prop[l - 1]
  OBVIOUS
<1>8. PICK after : after = prop[l]
  OBVIOUS
<1>9. /\ "keywords" \in DOMAIN before
      /\ l # i => w \in DOMAIN before.keywords
  <2>1. l # i => i \in 1 .. (l - 1)
    BY <1>4
  <2>2. /\ "keywords" \in DOMAIN prop[l - 1]
        /\ \A x : x \in DOMAIN prop[l - 1].keywords
             <=> \E j \in 1 .. (l - 1) : Gives(payload.validators[j], field.code, x)
    <3>1. PICK m : m = l - 1
      OBVIOUS
    <3>2. m \in 0 .. n
      BY <1>5, <3>1
    <3> HIDE DEF Wrong, v
    <3>3. /\ "keywords" \in DOMAIN prop[m]
          /\ \A x : x \in DOMAIN prop[m].keywords
               <=> \E j \in 1 .. m : Gives(payload.validators[j], field.code, x)
      BY ONLY <1>0, <3>2, KeywordsGiven
    <3> QED BY <3>1, <3>3
  <2> QED BY <1>7, <2>1, <2>2 DEF Gives
<1>10. CASE v(l).field = field.code
  <2>1. PICK u : u = v(l)
    OBVIOUS
  <2>2. PICK f : f = [x \in DOMAIN before.keywords \union DOMAIN u.given |->
                        IF x \in DOMAIN u.given THEN u.given[x] ELSE before.keywords[x]]
    OBVIOUS
  <2>3. after = _apply_validator_to_prop(before, u)
    BY <1>6, <1>7, <1>8, <1>10, <2>1
  <2>4. after.keywords = f
    BY ONLY <1>9, <2>2, <2>3, ValidatorsApply
  <2>5. CASE l = i
    <3>1. u.given = given
      BY <2>1, <2>5
    <3>2. f[w] = given[w]
      BY <2>2, <3>1
    <3> QED BY <1>4, <1>8, <2>4, <3>2
  <2>6. CASE l # i
    <3>1. l \in i + 1 .. n /\ l - 1 \in i .. n /\ ~(l <= l - 1)
      BY <1>4, <2>6
    <3>2. w \notin DOMAIN u.given
      BY <1>10, <2>1, <3>1 DEF Gives
    <3>3. f[w] = before.keywords[w]
      BY <1>9, <2>2, <2>6, <3>2
    <3>4. before.keywords[w] = given[w]
      BY <1>3, <1>7, <3>1
    <3> QED BY <1>4, <1>8, <2>4, <3>3, <3>4
  <2> QED BY <2>5, <2>6
<1>11. CASE v(l).field # field.code
  <2>1. l # i
    BY <1>11
  <2>2. l - 1 \in i .. n /\ ~(l <= l - 1)
    BY <1>4, <2>1
  <2>3. prop[l - 1].keywords[w] = given[w]
    BY <1>3, <2>2
  <2> QED BY <1>4, <1>6, <1>11, <2>3
<1> QED BY <1>10, <1>11

\* The page of a payload that is valid keeps it.
LEMMA PagesKeep ==
    ASSUME NEW payload, ListsOK(payload), _validate_payload(payload)
    PROVE  PageKeeps(payload)
<1> DEFINE OfCode(c) == CHOOSE field \in ToSet(payload.fields) : field.code = c
           n == Len(payload.validators)
           codes == CodesOf(payload.fields)
           page == to_json_schema(payload)
<1>1. /\ codes = {f.code : f \in ToSet(payload.fields)}
      /\ n \in Nat /\ \A k \in 1 .. n : payload.validators[k].field \in codes
  <2>1. ToSet(payload.fields) = {payload.fields[k] : k \in 1 .. Len(payload.fields)}
    BY ListsAreLong DEF ListsOK
  <2>2. n \in Nat
    BY ListsAreLong DEF ListsOK
  <2>3. \A k \in 1 .. n : payload.validators[k].field \in codes
    BY DEF _validate_payload
  <2> QED BY <2>1, <2>2, <2>3 DEF CodesOf
<1>2. \A c \in codes : OfCode(c) \in ToSet(payload.fields) /\ OfCode(c).code = c
  BY <1>1
<1>3. /\ DOMAIN page.properties = codes
      /\ \A c \in codes : page.properties[c] = PropertyAfter(payload, OfCode(c))[n]
      /\ page.required = {f.code : f \in {g \in ToSet(payload.fields) : g.required}}
  BY DEF to_json_schema
<1> HIDE DEF codes, page, OfCode, n
<1>4. page.required \subseteq codes
  BY <1>1, <1>3
<1>5. ASSUME NEW k \in 1 .. n, NEW w \in DOMAIN payload.validators[k].given,
             \A j \in k + 1 .. n :
                ~Gives(payload.validators[j], payload.validators[k].field, w)
      PROVE  page.properties[payload.validators[k].field].keywords[w]
                = payload.validators[k].given[w]
  <2>1. PICK field : field = OfCode(payload.validators[k].field)
    OBVIOUS
  <2>2. PICK prop : prop = PropertyAfter(payload, field)
    OBVIOUS
  <2>3. field.code = payload.validators[k].field
    BY <1>1, <1>2, <2>1
  <2>4. page.properties[payload.validators[k].field] = prop[n]
    BY <1>1, <1>3, <2>1, <2>2
  <2>5. n \in 0 .. n /\ n \in Nat /\ n = Len(payload.validators)
    BY <1>1 DEF n
  <2>6. PICK given : given = payload.validators[k].given
    OBVIOUS
  <2>7. w \in DOMAIN given
    BY <2>6
  <2>8. prop[n].keywords[w] = given[w]
    BY ONLY <1>5, <2>2, <2>3, <2>5, <2>6, <2>7, LastValidatorWins
  <2> QED BY <2>4, <2>6, <2>8
<1> QED BY <1>3, <1>4, <1>5 DEF PageKeeps, page, codes, n

-----------------------------------------------------------------------------
(* Forms: what a sentence makes                                            *)

\* The fields a sentence mentions, each once.
OnceEach(codes, said, K) ==
    /\ codes \in Seq(K) /\ Len(codes) \in Nat
    /\ \A j, k \in 1 .. Len(codes) : codes[j] = codes[k] => j = k
    /\ \A c \in ToSet(said) : \E k \in 1 .. Len(codes) : codes[k] = c

\* The matched fields are those the sentence mentions, each once.
LEMMA MentionsOnce ==
    ASSUME NEW sentence, NEW said, said = sentence.mentions, NEW K, said \in Seq(K),
           NEW codes, codes = _match_field_templates(sentence)
    PROVE  OnceEach(codes, said, K)
<1>1. said = sentence.mentions
  OBVIOUS
<1>2. PICK n : n = Len(said)
  OBVIOUS
<1>3. said \in Seq(K) /\ n \in Nat /\ DOMAIN said = 1 .. n /\ \A k \in 1 .. n : said[k] \in K
  BY <1>1, <1>2
<1>4. PICK S : S = {k \in 1 .. n : \A j \in 1 .. k - 1 : said[j] # said[k]}
  OBVIOUS
<1>5. S \in SUBSET (1 .. n) /\ S \in SUBSET Nat /\ IsFiniteSet(S)
  <2>1. 1 \in Int /\ n \in Int /\ 1 .. n \in SUBSET Nat
    BY <1>3
  <2>2. IsFiniteSet(1 .. n)
    BY ONLY <2>1, FS_Interval
  <2>3. S \in SUBSET (1 .. n)
    BY <1>4
  <2> QED BY <2>1, <2>2, <2>3, FS_Subset
<1>6. PICK first : first = InOrder(S)
  OBVIOUS
<1>7. PICK size : size = Cardinality(S)
  OBVIOUS
<1>8. /\ size \in Nat /\ DOMAIN first = 1 .. size
      /\ \A k \in 1 .. size : first[k] \in S
      /\ \A j, k \in 1 .. size : first[j] = first[k] => j = k
      /\ \A m \in S : \E k \in 1 .. size : first[k] = m
  BY <1>5, <1>6, <1>7, ListsInOrder
<1>9. codes = [k \in 1 .. size |-> said[first[k]]]
  <2>1. S = {k \in DOMAIN sentence.mentions :
                \A j \in 1 .. k - 1 : sentence.mentions[j] # sentence.mentions[k]}
    BY <1>1, <1>3, <1>4
  <2>2. codes = [k \in DOMAIN first |-> sentence.mentions[first[k]]]
    BY <1>6, <2>1 DEF _match_field_templates
  <2> QED BY <1>1, <1>8, <2>2
<1>10. codes \in Seq(K) /\ Len(codes) = size
  <2>1. \A k \in 1 .. size : said[first[k]] \in K
    BY <1>3, <1>5, <1>8
  <2> QED BY <1>8, <1>9, <2>1
<1>11. ASSUME NEW j \in S, NEW k \in S, said[j] = said[k] PROVE j = k
  <2>1. j \in 1 .. n /\ k \in 1 .. n /\ (j < k => j \in 1 .. k - 1) /\ (k < j => k \in 1 .. j - 1)
    BY <1>3, <1>5
  <2>2. ~(j < k) /\ ~(k < j)
    BY <1>4, <1>11, <2>1
  <2> QED BY <1>3, <2>1, <2>2
<1>12. \A j, k \in 1 .. size : codes[j] = codes[k] => j = k
  BY <1>8, <1>9, <1>11
<1>13. ASSUME NEW c \in ToSet(said) PROVE \E k \in 1 .. size : codes[k] = c
  <2> DEFINE T == {k \in 1 .. n : said[k] = c}
  <2>1. T # {} /\ T \in SUBSET Nat
    BY <1>1, <1>3 DEF ToSet
  <2>2. PICK m \in T : \A k \in T : m <= k
    <3> HIDE DEF T
    <3> QED BY <2>1, LeastNatural
  <2>3. m \in 1 .. n /\ said[m] = c
    OBVIOUS
  <2>4. \A j \in 1 .. m - 1 : j \in 1 .. n /\ ~(m <= j)
    BY <1>3, <2>3
  <2>5. \A j \in 1 .. m - 1 : said[j] # said[m]
    BY <2>2, <2>3, <2>4
  <2>6. m \in S
    BY <1>4, <2>3, <2>5
  <2> QED BY <1>8, <1>9, <2>3, <2>6
<1> QED BY <1>8, <1>10, <1>12, <1>13 DEF OnceEach

\* A list whose codes differ repeats none.
LEMMA CodesDiffer ==
    ASSUME NEW list, NEW n \in Nat, Len(list) = n,
           \A j, k \in 1 .. n : list[j].code = list[k].code => j = k
    PROVE  Unrepeated(list)
<1>1. PICK f : f = [k \in 1 .. n |-> list[k].code]
  OBVIOUS
<1>2. PICK T : T = CodesOf(list)
  OBVIOUS
<1>3. /\ DOMAIN f = 1 .. n /\ \A k \in 1 .. n : f[k] = list[k].code
      /\ T = {list[k].code : k \in 1 .. n}
  BY <1>1, <1>2 DEF CodesOf
<1>4. f \in [1 .. n -> T]
  <2>1. \A k \in 1 .. n : list[k].code \in T
    BY <1>3
  <2> QED BY <1>1, <2>1
<1>5. f \in Surjection(1 .. n, T)
  BY <1>3, <1>4 DEF Surjection
<1>6. f \in Injection(1 .. n, T)
  BY <1>3, <1>4 DEF Injection, IsInjective
<1>7. IsFiniteSet(1 .. n) /\ Cardinality(1 .. n) = n
  <2>1. 1 \in Int /\ n \in Int /\ (IF 1 > n THEN 0 ELSE n - 1 + 1) = n
    OBVIOUS
  <2> QED BY <2>1, FS_Interval
<1>8. Cardinality(T) = n
  BY <1>5, <1>6, <1>7, FS_Surjection
<1> QED BY <1>2, <1>8 DEF Unrepeated

\* Fields of one section, and validators that check them.
PlainFields(fields) ==
    /\ fields \in Seq(ToSet(fields)) /\ Len(fields) \in Nat /\ fields # <<>>
    /\ \A k \in 1 .. Len(fields) : /\ fields[k].section = "basic"
                                   /\ fields[k].type \in ValidFieldTypes
    /\ \A j, k \in 1 .. Len(fields) : fields[j].code = fields[k].code => j = k

ChecksOf(validators, fields) ==
    /\ validators \in Seq(ToSet(validators)) /\ Len(validators) \in Nat
    /\ \A k \in 1 .. Len(validators) : /\ validators[k].field \in CodesOf(fields)
                                       /\ validators[k].kind \in DOMAIN KeywordsOf
    /\ \A j, k \in 1 .. Len(validators) : validators[j].code = validators[k].code => j = k

\* A form with one section is valid when its fields and validators are.
LEMMA FormsOfOneSection ==
    ASSUME NEW fields, PlainFields(fields), NEW validators, ChecksOf(validators, fields),
           NEW payload,
           payload = [sections |-> <<"basic">>, fields |-> fields, validators |-> validators]
    PROVE  _validate_payload(payload) /\ ListsOK(payload)
<1>1. payload.sections = <<"basic">> /\ payload.fields = fields /\ payload.validators = validators
  OBVIOUS
<1>2. /\ ToSet(<<"basic">>) = {"basic"} /\ Len(<<"basic">>) = 1 /\ <<"basic">> # <<>>
      /\ <<"basic">> \in Seq({"basic"})
  BY DEF ToSet
<1>3. Cardinality(ToSet(<<"basic">>)) = Len(<<"basic">>)
  <2>1. Cardinality({"basic"}) = 1
    BY FS_Singleton, Zenon
  <2> QED BY <1>2, <2>1
<1>4. Unrepeated(fields) /\ Unrepeated(validators)
  BY CodesDiffer DEF PlainFields, ChecksOf
<1> QED BY <1>1, <1>2, <1>3, <1>4 DEF _validate_payload, ListsOK, PlainFields, ChecksOf

\* The known fields have valid types and validators.
LEMMA KnownFields ==
    ASSUME NEW c \in DOMAIN FieldTemplates
    PROVE  /\ FieldTemplates[c].type \in ValidFieldTypes
           /\ FieldTemplates[c].kind # "none" => FieldTemplates[c].kind \in DOMAIN KeywordsOf
BY DEF FieldTemplates, ValidFieldTypes, KeywordsOf

\* The form made of known fields is valid, and its page checks all they check.
LEMMA KnownFieldsMakeForms ==
    ASSUME NEW codes, codes \in Seq(DOMAIN FieldTemplates), codes # <<>>,
           \A j, k \in 1 .. Len(codes) : codes[j] = codes[k] => j = k,
           NEW payload, payload = _build_payload_from_templates(codes)
    PROVE  /\ _validate_payload(payload) /\ ListsOK(payload)
           /\ \A k \in 1 .. Len(codes) :
                 FieldTemplates[codes[k]].kind # "none"
                 => KeywordsOf[FieldTemplates[codes[k]].kind]
                       = DOMAIN to_json_schema(payload).properties[codes[k]].keywords
<1>1. PICK n : n = Len(codes)
  OBVIOUS
<1> DEFINE template(k) == FieldTemplates[codes[k]]
           kind(k) == FieldTemplates[codes[k]].kind
<1>2. n \in Nat \ {0} /\ DOMAIN codes = 1 .. n /\ \A k \in 1 .. n : codes[k] \in DOMAIN FieldTemplates
  BY <1>1
<1>3. \A k \in 1 .. n : template(k).type \in ValidFieldTypes
                        /\ (kind(k) # "none" => kind(k) \in DOMAIN KeywordsOf)
  BY <1>2, KnownFields
<1>4. PICK S : S = {k \in 1 .. n : kind(k) # "none"}
  OBVIOUS
<1>5. S \in SUBSET (1 .. n) /\ S \in SUBSET Nat /\ IsFiniteSet(S)
  <2>1. 1 \in Int /\ n \in Int /\ 1 .. n \in SUBSET Nat
    BY <1>2
  <2>2. IsFiniteSet(1 .. n)
    BY ONLY <2>1, FS_Interval
  <2>3. S \in SUBSET (1 .. n)
    BY <1>4
  <2> QED BY <2>1, <2>2, <2>3, FS_Subset
<1>6. PICK checked : checked = InOrder(S)
  OBVIOUS
<1>7. PICK m : m = Cardinality(S)
  OBVIOUS
<1>8. /\ m \in Nat /\ DOMAIN checked = 1 .. m
      /\ \A k \in 1 .. m : checked[k] \in S
      /\ \A j, k \in 1 .. m : checked[j] = checked[k] => j = k
      /\ \A s \in S : \E k \in 1 .. m : checked[k] = s
  BY <1>5, <1>6, <1>7, ListsInOrder
<1> DEFINE Of(k) == [code |-> <<codes[k], kind(k)>>, field |-> codes[k], kind |-> kind(k),
                     given |-> [w \in KeywordsOf[kind(k)] |-> codes[k]]]
<1>9. PICK fields : fields = [k \in 1 .. n |-> Field(codes[k], template(k).type, template(k).required)]
  OBVIOUS
<1>10. PICK validators : validators = [k \in 1 .. m |-> Of(checked[k])]
  OBVIOUS
<1>11. payload = [sections |-> <<"basic">>, fields |-> fields, validators |-> validators]
  <2>1. S = {k \in DOMAIN codes : FieldTemplates[codes[k]].kind # "none"}
    BY <1>2, <1>4
  <2>2. payload = [sections |-> <<"basic">>,
          fields |-> [k \in 1 .. n |-> Field(codes[k], template(k).type, template(k).required)],
          validators |-> [k \in 1 .. m |-> Of(checked[k])]]
    BY ZenonT(60), <1>1, <1>6, <1>8, <2>1 DEF _build_payload_from_templates
  <2> QED BY <1>9, <1>10, <2>2
<1>12. /\ DOMAIN fields = 1 .. n /\ Len(fields) = n /\ fields # <<>>
       /\ fields \in Seq(ToSet(fields))
       /\ \A k \in 1 .. n : /\ fields[k].code = codes[k] /\ fields[k].section = "basic"
                            /\ fields[k].type = template(k).type
  <2>1. DOMAIN fields = 1 .. n /\ Len(fields) = n
    BY <1>2, <1>9
  <2>2. fields # <<>>
    BY <1>2, <2>1
  <2>3. \A k \in 1 .. n : fields[k] \in ToSet(fields)
    BY <2>1 DEF ToSet
  <2>4. fields \in Seq(ToSet(fields))
    <3>1. PICK R : R = ToSet(fields)
      OBVIOUS
    <3>2. fields = [k \in 1 .. n |-> fields[k]]
      BY <1>9
    <3>3. fields \in [1 .. n -> R]
      BY <2>3, <3>1, <3>2
    <3> QED BY <1>2, <3>1, <3>3
  <2>5. \A k \in 1 .. n : fields[k] = Field(codes[k], template(k).type, template(k).required)
    BY <1>9
  <2> QED BY <2>1, <2>2, <2>4, <2>5 DEF Field
<1>13. /\ DOMAIN validators = 1 .. m /\ Len(validators) = m
       /\ validators \in Seq(ToSet(validators))
       /\ \A k \in 1 .. m : /\ validators[k].code = <<codes[checked[k]], kind(checked[k])>>
                            /\ validators[k].field = codes[checked[k]]
                            /\ validators[k].kind = kind(checked[k])
                            /\ DOMAIN validators[k].given = KeywordsOf[kind(checked[k])]
  <2>1. DOMAIN validators = 1 .. m /\ Len(validators) = m
    BY <1>8, <1>10
  <2>3. \A k \in 1 .. m : validators[k] \in ToSet(validators)
    BY <2>1 DEF ToSet
  <2>4. validators \in Seq(ToSet(validators))
    <3>1. PICK R : R = ToSet(validators)
      OBVIOUS
    <3>2. validators = [k \in 1 .. m |-> validators[k]]
      BY <1>10
    <3>3. validators \in [1 .. m -> R]
      BY <2>3, <3>1, <3>2
    <3> QED BY <1>8, <3>1, <3>3
  <2>5. \A k \in 1 .. m : validators[k] = Of(checked[k])
    BY <1>10
  <2> QED BY <2>1, <2>4, <2>5
<1> HIDE DEF template, kind, Of
<1>14. _validate_payload(payload) /\ ListsOK(payload)
  <2>1. \A j, k \in 1 .. n : fields[j].code = fields[k].code => j = k
    BY <1>1, <1>12
  <2>2. \A j, k \in 1 .. m : validators[j].code = validators[k].code => j = k
    <3>1. ASSUME NEW j \in 1 .. m, NEW k \in 1 .. m, validators[j].code = validators[k].code
          PROVE  j = k
      <4>1. codes[checked[j]] = codes[checked[k]]
        BY <1>13, <3>1
      <4>2. checked[j] \in 1 .. n /\ checked[k] \in 1 .. n
        BY <1>5, <1>8
      <4> QED BY <1>1, <1>8, <4>1, <4>2
    <3> QED BY <3>1
  <2>3. \A k \in 1 .. m : /\ validators[k].field \in CodesOf(fields)
                          /\ validators[k].kind \in DOMAIN KeywordsOf
    <3>1. CodesOf(fields) = {fields[k].code : k \in 1 .. n}
      BY <1>12 DEF CodesOf
    <3>2. ASSUME NEW k \in 1 .. m
          PROVE  checked[k] \in 1 .. n /\ kind(checked[k]) # "none"
      BY <1>4, <1>8
    <3>3. \A k \in 1 .. n : codes[k] \in CodesOf(fields)
      BY <1>12, <3>1
    <3> QED BY <1>3, <1>13, <3>2, <3>3
  <2>4. \A k \in 1 .. n : fields[k].section = "basic" /\ fields[k].type \in ValidFieldTypes
    BY <1>3, <1>12
  <2>5. PlainFields(fields)
    BY <1>2, <1>12, <2>1, <2>4 DEF PlainFields
  <2>6. ChecksOf(validators, fields)
    BY <1>8, <1>13, <2>2, <2>3 DEF ChecksOf
  <2> QED BY ONLY <1>11, <2>5, <2>6, FormsOfOneSection
<1>15. ASSUME NEW k \in 1 .. n, kind(k) # "none"
       PROVE  KeywordsOf[kind(k)] = DOMAIN to_json_schema(payload).properties[codes[k]].keywords
  <2>1. PICK c : c = codes[k]
    OBVIOUS
  <2>2. PICK field : field = CHOOSE f \in ToSet(payload.fields) : f.code = c
    OBVIOUS
  <2>3. payload.fields = fields /\ payload.validators = validators
    BY <1>11
  <2>4. fields[k] \in ToSet(fields) /\ fields[k].code = c
    BY <1>12, <2>1 DEF ToSet
  <2>5. field.code = c
    BY <2>2, <2>3, <2>4
  <2>6. PICK prop : prop = PropertyAfter(payload, field)
    OBVIOUS
  <2>7. c \in CodesOf(payload.fields)
    BY <1>12, <2>1, <2>3 DEF CodesOf
  <2>8. to_json_schema(payload).properties[c] = prop[m]
    <3>1. Len(payload.validators) = m
      BY <1>13, <2>3
    <3> QED BY <2>2, <2>6, <2>7, <3>1 DEF to_json_schema
  <2>9. m \in 0 .. m /\ m \in Nat /\ m = Len(payload.validators)
    BY <1>8, <1>13, <2>3
  <2>10. \A x : x \in DOMAIN prop[m].keywords
            <=> \E j \in 1 .. m : Gives(payload.validators[j], field.code, x)
    BY ONLY <2>6, <2>9, KeywordsGiven
  <2>11. PICK at \in 1 .. m : checked[at] = k
    BY <1>4, <1>8, <1>15
  <2>12. \A j \in 1 .. m : codes[checked[j]] = c => j = at
    <3>1. ASSUME NEW j \in 1 .. m, codes[checked[j]] = c PROVE j = at
      <4>1. checked[j] \in 1 .. n /\ checked[at] \in 1 .. n
        BY <1>5, <1>8
      <4>2. checked[j] = checked[at]
        BY <1>1, <2>1, <2>11, <3>1, <4>1
      <4> QED BY <1>8, <4>2
    <3> QED BY <3>1
  <2>13. ASSUME NEW x
         PROVE  x \in DOMAIN prop[m].keywords <=> x \in KeywordsOf[kind(k)]
    <3>1. \A j \in 1 .. m : Gives(validators[j], c, x) <=> (codes[checked[j]] = c
                                /\ x \in KeywordsOf[kind(checked[j])])
      BY <1>13 DEF Gives
    <3>2. codes[checked[at]] = c
      BY <2>1, <2>11
    <3> QED BY <2>3, <2>5, <2>10, <2>11, <2>12, <3>1, <3>2
  <2>14. PICK words : words = prop[m].keywords
    OBVIOUS
  <2>15. DOMAIN words = KeywordsOf[kind(k)]
    BY <2>13, <2>14
  <2> QED BY <2>1, <2>8, <2>14, <2>15
<1> QED BY <1>1, <1>14, <1>15 DEF kind

\* Any sentence makes a form that is valid, and whose page checks all that the
\* fields it mentions check.
LEMMA SentencesMake ==
    ASSUME NEW sentence \in Sentences, NEW payload, payload = _deterministic_payload(sentence)
    PROVE  /\ _validate_payload(payload) /\ ListsOK(payload)
           /\ \A code \in ToSet(sentence.mentions) :
                 FieldTemplates[code].kind # "none"
                 => KeywordsOf[FieldTemplates[code].kind]
                       = DOMAIN to_json_schema(payload).properties[code].keywords
<1>1. PICK codes : codes = _match_field_templates(sentence)
  OBVIOUS
<1>2. PICK K : K = DOMAIN FieldTemplates
  OBVIOUS
<1> PICK said : said = sentence.mentions
  OBVIOUS
<1>3. said = sentence.mentions /\ said \in Seq(K)
  BY <1>2, FormsAssumption
<1>4. /\ codes \in Seq(K) /\ Len(codes) \in Nat
      /\ \A j, k \in 1 .. Len(codes) : codes[j] = codes[k] => j = k
      /\ \A c \in ToSet(said) : \E k \in 1 .. Len(codes) : codes[k] = c
  <2>1. OnceEach(codes, said, K)
    BY ONLY <1>1, <1>3, MentionsOnce
  <2> QED BY <2>1 DEF OnceEach
<1>5. CASE codes # <<>>
  <2>1. payload = _build_payload_from_templates(codes)
    BY <1>1, <1>5 DEF _deterministic_payload
  <2>2. codes \in Seq(DOMAIN FieldTemplates)
    BY <1>2, <1>4
  <2>3. /\ _validate_payload(payload) /\ ListsOK(payload)
        /\ \A k \in 1 .. Len(codes) :
              FieldTemplates[codes[k]].kind # "none"
              => KeywordsOf[FieldTemplates[codes[k]].kind]
                    = DOMAIN to_json_schema(payload).properties[codes[k]].keywords
    BY ONLY <1>4, <1>5, <2>1, <2>2, KnownFieldsMakeForms
  <2> QED BY <1>3, <1>4, <2>3
<1>6. CASE codes = <<>>
  <2>1. ToSet(sentence.mentions) = {}
    BY <1>3, <1>4, <1>6
  <2>2. PICK n, fields : /\ n \in Nat \ {0} /\ DOMAIN fields = 1 .. n /\ Len(fields) = n
                         /\ \A k \in 1 .. n : /\ fields[k].section = "basic"
                                              /\ fields[k].type \in ValidFieldTypes
                         /\ \A j, k \in 1 .. n : fields[j].code = fields[k].code => j = k
                         /\ fields = [k \in 1 .. n |-> fields[k]]
                         /\ payload = [sections |-> <<"basic">>, fields |-> fields,
                                       validators |-> <<>>]
    <3>1. CASE sentence.count \in 1 .. _DEFAULT_MAX_FIELDS
      <4>1. PICK n : n = sentence.count
        OBVIOUS
      <4>2. PICK fields : fields = [k \in 1 .. n |-> Field(<<"field", k>>, "text", FALSE)]
        OBVIOUS
      <4>3. payload = [sections |-> <<"basic">>, fields |-> fields, validators |-> <<>>]
        BY <1>1, <1>6, <3>1, <4>1, <4>2 DEF _deterministic_payload
      <4>4. n \in Nat \ {0}
        BY <3>1, <4>1
      <4>5. DOMAIN fields = 1 .. n /\ Len(fields) = n /\ fields = [k \in 1 .. n |-> fields[k]]
        BY <4>2, <4>4
      <4>6. \A k \in 1 .. n : /\ fields[k].code = <<"field", k>> /\ fields[k].section = "basic"
                              /\ fields[k].type = "text"
        BY <4>2 DEF Field
      <4>7. \A j, k \in 1 .. n : fields[j].code = fields[k].code => j = k
        BY <4>6
      <4>8. \A k \in 1 .. n : fields[k].section = "basic" /\ fields[k].type \in ValidFieldTypes
        BY <4>6 DEF ValidFieldTypes
      <4> QED BY ZenonT(60), <4>3, <4>4, <4>5, <4>7, <4>8
    <3>2. CASE sentence.count \notin 1 .. _DEFAULT_MAX_FIELDS
      <4>1. PICK n : n = 1
        OBVIOUS
      <4>2. PICK fields : fields = <<Field("applicant_name", "text", TRUE)>>
        OBVIOUS
      <4>3. payload = [sections |-> <<"basic">>, fields |-> fields, validators |-> <<>>]
        BY <1>1, <1>6, <3>2, <4>2 DEF _deterministic_payload
      <4>4. n \in Nat \ {0} /\ \A j, k \in 1 .. n : j = k /\ k = 1
        BY <4>1
      <4>5. DOMAIN fields = 1 .. n /\ Len(fields) = n /\ fields = [k \in 1 .. n |-> fields[k]]
        BY <4>1, <4>2
      <4>6. \A k \in 1 .. n : fields[k].section = "basic" /\ fields[k].type \in ValidFieldTypes
        BY <4>2, <4>4 DEF Field, ValidFieldTypes
      <4> QED BY <4>3, <4>4, <4>5, <4>6
    <3> QED BY <3>1, <3>2
  <2>3. PlainFields(fields)
    <3>1. PICK R : R = ToSet(fields)
      OBVIOUS
    <3>2. \A k \in 1 .. n : fields[k] \in R
      BY <2>2, <3>1 DEF ToSet
    <3>3. fields \in [1 .. n -> R]
      BY <2>2, <3>2
    <3>4. fields # <<>>
      BY <2>2
    <3>5. fields \in Seq(ToSet(fields))
      BY <2>2, <3>1, <3>3
    <3> QED BY <2>2, <3>4, <3>5 DEF PlainFields
  <2>4. PICK none : none = <<>>
    OBVIOUS
  <2>5. /\ Len(none) = 0 /\ none \in Seq(ToSet(none)) /\ \A k \in 1 .. 0 : FALSE
    BY <2>4
  <2>6. ChecksOf(none, fields)
    BY <2>5 DEF ChecksOf
  <2>7. payload = [sections |-> <<"basic">>, fields |-> fields, validators |-> none]
    BY <2>2, <2>4
  <2>8. _validate_payload(payload) /\ ListsOK(payload)
    BY ONLY <2>3, <2>6, <2>7, FormsOfOneSection
  <2> QED BY <2>1, <2>8
<1> QED BY <1>5, <1>6

-----------------------------------------------------------------------------
(* Forms and rules: versions                                               *)

\* The payloads that a row of form_schema has.
FormPayloads == {p \in Payloads \union {_deterministic_payload(s) : s \in Sentences} :
                    _validate_payload(p)}

FormRow == [tenant : FormTenants, code : FormCodes, status : {"draft", "preview", "live"},
            version : Nat, source : {"manual", "nl_draft"},
            payload : FormPayloads]

FormsInv ==
    /\ forms \in Seq(FormRow)
    /\ FormVersionsUnique
    /\ \E bound \in Nat : \A i \in 1 .. Len(forms) : forms[i].version <= bound

\* A new version is above every one of its code in the tenant.
LEMMA NextVersionIsNew ==
    ASSUME FormsInv, NEW tenant, NEW code
    PROVE  /\ NextVersion(tenant, code) \in Nat
           /\ \A i \in 1 .. Len(forms) :
                 forms[i].tenant = tenant /\ forms[i].code = code
                 => forms[i].version < NextVersion(tenant, code)
<1>1. PICK S : S = FormVersions(tenant, code)
  OBVIOUS
<1>2. PICK bound \in Nat : \A i \in 1 .. Len(forms) : forms[i].version <= bound
  BY DEF FormsInv
<1>3. \A i \in 1 .. Len(forms) : forms[i].version \in Nat
  <2>1. \A i \in 1 .. Len(forms) : forms[i] \in FormRow
    BY DEF FormsInv
  <2>2. \A f \in FormRow : f.version \in Nat
    BY DEF FormRow
  <2> QED BY <2>1, <2>2
<1>4. /\ S \in SUBSET Nat /\ S # {} /\ \A w \in S : w <= bound
      /\ \A i \in 1 .. Len(forms) :
            forms[i].tenant = tenant /\ forms[i].code = code => forms[i].version \in S
  BY <1>1, <1>2, <1>3 DEF FormVersions
<1>5. \E v \in S : \A w \in S : w <= v
  BY <1>4, BoundedHasGreatest
<1>6. PICK top : top = CHOOSE v \in S : \A w \in S : w <= v
  OBVIOUS
<1>7. top \in S /\ \A w \in S : w <= top
  BY <1>5, <1>6
<1>8. NextVersion(tenant, code) = 1 + top
  BY <1>1, <1>6 DEF NextVersion
<1>9. top \in Nat /\ 1 + top \in Nat
  BY <1>4, <1>7
<1>10. ASSUME NEW i \in 1 .. Len(forms), forms[i].tenant = tenant, forms[i].code = code
       PROVE  forms[i].version < 1 + top
  <2>1. forms[i].version \in Nat /\ forms[i].version <= top
    BY <1>3, <1>4, <1>7, <1>10
  <2> QED BY <1>9, <2>1
<1> QED BY <1>8, <1>9, <1>10

LEMMA FormDraftKeeps ==
    ASSUME FormsInv, NEW tenant \in FormTenants, NEW code \in FormCodes,
           NEW payload \in Payloads \union {_deterministic_payload(s) : s \in Sentences},
           NEW source \in {"manual", "nl_draft"},
           create_form_draft(tenant, code, payload, source)
    PROVE  FormsInv'
<1>1. PICK version : version = NextVersion(tenant, code)
  OBVIOUS
<1>2. /\ version \in Nat
      /\ \A i \in 1 .. Len(forms) :
            forms[i].tenant = tenant /\ forms[i].code = code => forms[i].version < version
  BY <1>1, NextVersionIsNew
<1>3. PICK new : new = [tenant |-> tenant, code |-> code, status |-> "draft",
                        version |-> version, source |-> source, payload |-> payload]
  OBVIOUS
<1>4. /\ new \in FormRow /\ new.tenant = tenant /\ new.code = code /\ new.version = version
      /\ forms' = Append(forms, new)
  <2>1. payload \in FormPayloads /\ forms' = Append(forms, new)
    BY <1>1, <1>3 DEF FormPayloads, create_form_draft
  <2> QED BY <1>2, <1>3, <2>1 DEF FormRow
<1>5. forms \in Seq(FormRow) /\ Len(forms) \in Nat
  BY DEF FormsInv
<1>6. /\ forms' \in Seq(FormRow) /\ Len(forms') = Len(forms) + 1 /\ forms'[Len(forms) + 1] = new
      /\ \A i \in 1 .. Len(forms) : forms'[i] = forms[i]
  BY <1>4, <1>5
<1>7. ASSUME NEW i \in 1 .. Len(forms'), NEW j \in 1 .. Len(forms'), i < j,
             forms'[i].tenant = forms'[j].tenant, forms'[i].code = forms'[j].code
      PROVE  forms'[i].version # forms'[j].version
  <2>1. i \in 1 .. Len(forms) /\ forms'[i] = forms[i]
    BY <1>5, <1>6, <1>7
  <2>2. forms[i].version \in Nat
    <3>1. forms[i] \in FormRow
      BY <1>5, <2>1
    <3> QED BY <3>1 DEF FormRow
  <2>3. CASE j = Len(forms) + 1
    BY <1>2, <1>4, <1>6, <1>7, <2>1, <2>2, <2>3
  <2>4. CASE j # Len(forms) + 1
    <3>1. j \in 1 .. Len(forms) /\ forms'[j] = forms[j] /\ i # j
      BY <1>5, <1>6, <1>7, <2>4
    <3> QED BY <1>7, <2>1, <3>1 DEF FormsInv, FormVersionsUnique
  <2> QED BY <2>3, <2>4
<1>8. FormVersionsUnique'
  <2>1. \A i, j \in 1 .. Len(forms') : i # j => i < j \/ j < i
    BY <1>5, <1>6
  <2> QED BY <1>7, <2>1 DEF FormVersionsUnique
<1>9. \E bound \in Nat : \A i \in 1 .. Len(forms') : forms'[i].version <= bound
  <2>1. PICK bound \in Nat : \A i \in 1 .. Len(forms) : forms[i].version <= bound
    BY DEF FormsInv
  <2>2. \A i \in 1 .. Len(forms) : forms[i].version \in Nat
    <3>1. \A i \in 1 .. Len(forms) : forms[i] \in FormRow
      BY <1>5
    <3>2. \A f \in FormRow : f.version \in Nat
      BY DEF FormRow
    <3> QED BY <3>1, <3>2
  <2>3. \A i \in 1 .. Len(forms') : i \in 1 .. Len(forms) \/ i = Len(forms) + 1
    BY <1>5, <1>6
  <2>4. \A i \in 1 .. Len(forms') : forms'[i].version <= bound + version
    <3>1. ASSUME NEW i \in 1 .. Len(forms) PROVE forms'[i].version <= bound + version
      <4>1. forms'[i].version \in Nat /\ forms'[i].version <= bound
        BY <1>6, <2>1, <2>2
      <4> QED BY <1>2, <4>1
    <3>2. forms'[Len(forms) + 1].version <= bound + version
      BY <1>2, <1>4, <1>6
    <3> QED BY <2>3, <3>1, <3>2
  <2>5. PICK top : top = bound + version
    OBVIOUS
  <2>6. top \in Nat /\ \A i \in 1 .. Len(forms') : forms'[i].version <= top
    BY <1>2, <2>4, <2>5
  <2> QED BY <2>6
<1> QED BY <1>6, <1>8, <1>9 DEF FormsInv

\* The status of a form changes, and its version, if at all, to a new one.
LEMMA FormMoveKeeps ==
    ASSUME FormsInv, NEW i \in 1 .. Len(forms), NEW status \in {"draft", "preview", "live"},
           NEW version \in Nat,
           forms' = [forms EXCEPT ![i] = [forms[i] EXCEPT !.status = status, !.version = version]],
           version = forms[i].version
           \/ \A j \in 1 .. Len(forms) : forms[j].tenant = forms[i].tenant /\ forms[j].code = forms[i].code
                                         => forms[j].version < version
    PROVE  FormsInv'
<1>1. forms \in Seq(FormRow) /\ Len(forms) \in Nat
  BY DEF FormsInv
<1>2. PICK new : new = [forms[i] EXCEPT !.status = status, !.version = version]
  OBVIOUS
<1>3. forms[i] \in FormRow
  BY <1>1
<1>4. /\ new \in FormRow /\ new.tenant = forms[i].tenant /\ new.code = forms[i].code
      /\ new.version = version
  BY <1>2, <1>3 DEF FormRow
<1>5. forms' = [forms EXCEPT ![i] = new]
  BY <1>2
<1>6. forms' \in Seq(FormRow) /\ Len(forms') = Len(forms)
  BY <1>1, <1>4, <1>5
<1>7. forms'[i] = new /\ \A j \in 1 .. Len(forms) : j # i => forms'[j] = forms[j]
  <2>1. DOMAIN forms = 1 .. Len(forms)
    BY <1>1
  <2> QED BY <1>5, <2>1
<1>8. \A j \in 1 .. Len(forms) : forms[j].version \in Nat
  <2>1. \A j \in 1 .. Len(forms) : forms[j] \in FormRow
    BY <1>1
  <2>2. \A f \in FormRow : f.version \in Nat
    BY DEF FormRow
  <2> QED BY <2>1, <2>2
<1>9. ASSUME NEW j \in 1 .. Len(forms), j # i, forms[j].tenant = new.tenant, forms[j].code = new.code
      PROVE  forms[j].version # version
  BY <1>4, <1>8, <1>9 DEF FormsInv, FormVersionsUnique
<1>10. FormVersionsUnique'
  <2>1. ASSUME NEW j \in 1 .. Len(forms), NEW k \in 1 .. Len(forms), j # k,
               forms'[j].tenant = forms'[k].tenant, forms'[j].code = forms'[k].code
        PROVE  forms'[j].version # forms'[k].version
    <3>1. CASE j = i
      BY <1>4, <1>7, <1>9, <2>1, <3>1
    <3>2. CASE k = i
      BY <1>4, <1>7, <1>9, <2>1, <3>2
    <3>3. CASE j # i /\ k # i
      BY <1>7, <2>1, <3>3 DEF FormsInv, FormVersionsUnique
    <3> QED BY <3>1, <3>2, <3>3
  <2> QED BY <1>6, <2>1 DEF FormVersionsUnique
<1>11. \E bound \in Nat : \A j \in 1 .. Len(forms') : forms'[j].version <= bound
  <2>1. PICK bound \in Nat : \A j \in 1 .. Len(forms) : forms[j].version <= bound
    BY DEF FormsInv
  <2>2. \A j \in 1 .. Len(forms) : forms'[j].version <= bound + version
    BY <1>4, <1>7, <1>8, <2>1
  <2> QED BY <1>6, <2>2
<1> QED BY <1>6, <1>10, <1>11 DEF FormsInv

\* What holds of the rows of form_schema, whatever order they are drafted,
\* reverted and committed in.
LEMMA FormsStay == FormSpec => []FormsInv
<1>1. FormInit => FormsInv
  <2> SUFFICES ASSUME FormInit PROVE FormsInv
    OBVIOUS
  <2>1. forms = <<>> /\ Len(forms) = 0 /\ forms \in Seq(FormRow)
    BY DEF FormInit
  <2>2. \A i \in 1 .. Len(forms) : forms[i].version <= 0
    BY <2>1
  <2> QED BY <2>1, <2>2 DEF FormsInv, FormVersionsUnique
<1>2. FormsInv /\ [FormNext]_forms => FormsInv'
  <2> SUFFICES ASSUME FormsInv, [FormNext]_forms PROVE FormsInv'
    OBVIOUS
  <2>1. CASE forms' = forms
    BY SMTT(30), <2>1 DEF FormsInv, FormVersionsUnique
  <2>2. ASSUME NEW tenant \in FormTenants, NEW code \in FormCodes, NEW payload \in Payloads,
               create_form_draft(tenant, code, payload, "manual")
        PROVE  FormsInv'
    BY <2>2, FormDraftKeeps
  <2>3. ASSUME NEW tenant \in FormTenants, NEW code \in FormCodes, NEW s \in Sentences,
               nl_draft_form(tenant, code, s)
        PROVE  FormsInv'
    BY <2>3, FormDraftKeeps DEF nl_draft_form
  <2>4. ASSUME NEW tenant \in FormTenants, NEW i \in 1 .. Len(forms),
               promote_form(tenant, i) \/ revert_form(tenant, i) \/ commit_form(tenant, i)
        PROVE  FormsInv'
    <3>1. forms \in Seq(FormRow) /\ forms[i] \in FormRow
      BY DEF FormsInv
    <3>2. forms[i].version \in Nat /\ forms[i].version = forms[i].version
      BY <3>1 DEF FormRow
    <3>3. CASE promote_form(tenant, i) \/ revert_form(tenant, i)
      <4>1. PICK status \in {"draft", "preview"} : forms' = [forms EXCEPT ![i].status = status]
        BY <3>3 DEF promote_form, revert_form
      <4>2. [forms[i] EXCEPT !.status = status]
              = [forms[i] EXCEPT !.status = status, !.version = forms[i].version]
        BY <3>1 DEF FormRow
      <4>3. forms' = [forms EXCEPT ![i] = [forms[i] EXCEPT !.status = status,
                                                            !.version = forms[i].version]]
        BY <4>1, <4>2
      <4> QED BY <3>2, <4>3, FormMoveKeeps
    <3>4. CASE commit_form(tenant, i)
      <4>1. PICK version : version = NextVersion(forms[i].tenant, forms[i].code)
        OBVIOUS
      <4>2. /\ version \in Nat
            /\ \A j \in 1 .. Len(forms) :
                  forms[j].tenant = forms[i].tenant /\ forms[j].code = forms[i].code
                  => forms[j].version < version
        BY <4>1, NextVersionIsNew
      <4>3. forms' = [forms EXCEPT ![i].status = "live", ![i].version = version]
        BY <3>4, <4>1 DEF commit_form
      <4>4. forms' = [forms EXCEPT ![i] = [forms[i] EXCEPT !.status = "live", !.version = version]]
        BY <3>1, <4>3
      <4> QED BY <4>2, <4>4, FormMoveKeeps
    <3> QED BY <2>4, <3>3, <3>4
  <2> QED BY <2>1, <2>2, <2>3, <2>4 DEF FormNext
<1> QED BY <1>1, <1>2, PTL DEF FormSpec

\* For any tenants, codes, payloads and sentences: versions of a form code are
\* unique in its tenant; the page of every template asks for its fields and
\* checks each keyword as the last validator that gives it says; and a sentence
\* makes a valid form whose page checks all that its known fields check
\* (FormSchemaRepo.create_draft, commit_to_live, to_json_schema,
\* deterministic_payload).
THEOREM FormsKeepWord == FormSpec => []FormsAgree
<1>1. FormsInv => FormVersionsUnique
  BY DEF FormsInv
<1>2. FormsInv => PageKeepsForm
  <2> SUFFICES ASSUME FormsInv, NEW i \in 1 .. Len(forms) PROVE PageKeeps(forms[i].payload)
    BY DEF PageKeepsForm
  <2>1. PICK payload : payload = forms[i].payload
    OBVIOUS
  <2>2. payload \in FormPayloads
    <3>1. forms \in Seq(FormRow) /\ forms[i] \in FormRow
      BY DEF FormsInv
    <3> QED BY <2>1, <3>1 DEF FormRow
  <2>3. _validate_payload(payload)
    BY <2>2 DEF FormPayloads
  <2>4. CASE payload \in Payloads
    <3>1. ListsOK(payload)
      BY <2>4, FormsAssumption DEF ListsOK
    <3> QED BY <2>1, <2>3, <3>1, PagesKeep
  <2>5. CASE payload \notin Payloads
    <3>1. PICK s \in Sentences : payload = _deterministic_payload(s)
      BY <2>2, <2>5 DEF FormPayloads
    <3>2. ListsOK(payload)
      BY <3>1, SentencesMake
    <3> QED BY <2>1, <2>3, <3>2, PagesKeep
  <2> QED BY <2>4, <2>5
<1>3. SentencesMakeForms
  <2> SUFFICES ASSUME NEW sentence \in Sentences,
                      NEW payload, payload = _deterministic_payload(sentence)
               PROVE  /\ _validate_payload(payload)
                      /\ \A code \in ToSet(sentence.mentions) :
                            FieldTemplates[code].kind # "none"
                            => KeywordsOf[FieldTemplates[code].kind]
                                  = DOMAIN to_json_schema(payload).properties[code].keywords
    BY DEF SentencesMakeForms
  <2> QED BY SentencesMake
<1>4. FormsInv => FormsAgree
  BY <1>1, <1>2, <1>3 DEF FormsAgree
<1> QED BY <1>4, FormsStay, PTL

RuleRow == [code : RuleCodes, status : {"draft", "preview", "live"}, version : Nat,
            clauses : RulePayloads]

RulesInv ==
    /\ rules \in Seq(RuleRow)
    /\ RuleVersionsUnique
    /\ \E bound \in Nat : \A i \in 1 .. Len(rules) : rules[i].version <= bound
    /\ listed \in Seq(Items) /\ past \in Seq(Past)

LEMMA RuleFields ==
    ASSUME RulesInv
    PROVE  /\ Len(rules) \in Nat
           /\ \A i \in 1 .. Len(rules) : /\ rules[i] \in RuleRow /\ rules[i].version \in Nat
                                         /\ rules[i].clauses \in RulePayloads
<1>1. Len(rules) \in Nat /\ \A i \in 1 .. Len(rules) : rules[i] \in RuleRow
  BY DEF RulesInv
<1>2. \A r \in RuleRow : r.version \in Nat /\ r.clauses \in RulePayloads
  BY DEF RuleRow
<1> QED BY <1>1, <1>2

\* A new version is above every one of its code.
LEMMA NextRuleVersionIsNew ==
    ASSUME RulesInv, NEW code
    PROVE  /\ NextRuleVersion(code) \in Nat
           /\ \A i \in 1 .. Len(rules) :
                 rules[i].code = code => rules[i].version < NextRuleVersion(code)
<1>1. PICK S : S = {rules[i].version : i \in RowsOfRule(code)} \union {0}
  OBVIOUS
<1>2. PICK bound \in Nat : \A i \in 1 .. Len(rules) : rules[i].version <= bound
  BY DEF RulesInv
<1>3. /\ S \in SUBSET Nat /\ S # {} /\ \A w \in S : w <= bound
      /\ \A i \in 1 .. Len(rules) : rules[i].code = code => rules[i].version \in S
  BY <1>1, <1>2, RuleFields DEF RowsOfRule
<1>4. \E v \in S : \A w \in S : w <= v
  BY <1>3, BoundedHasGreatest
<1>5. PICK greatest : greatest = CHOOSE v \in S : \A w \in S : v >= w
  OBVIOUS
<1>6. \E v \in S : \A w \in S : v >= w
  BY <1>3, <1>4
<1>7. greatest \in S /\ \A w \in S : greatest >= w
  BY <1>5, <1>6
<1>8. NextRuleVersion(code) = greatest + 1
  BY <1>1, <1>5 DEF NextRuleVersion, Max
<1> QED BY <1>3, <1>7, <1>8, RuleFields

\* The latest row of a code that has one is a row of it.
LEMMA LatestIsRow ==
    ASSUME RulesInv, NEW code, RowsOfRule(code) # {}
    PROVE  Latest(code) \in 1 .. Len(rules)
<1>1. PICK S : S = {rules[i].version : i \in RowsOfRule(code)}
  OBVIOUS
<1>2. PICK bound \in Nat : \A i \in 1 .. Len(rules) : rules[i].version <= bound
  BY DEF RulesInv
<1>3. S \in SUBSET Nat /\ S # {} /\ \A w \in S : w <= bound
  BY <1>1, <1>2, RuleFields DEF RowsOfRule
<1>4. PICK v \in S : \A w \in S : w <= v
  BY <1>3, BoundedHasGreatest
<1>5. \E i \in RowsOfRule(code) : \A j \in RowsOfRule(code) : rules[j].version <= rules[i].version
  BY <1>1, <1>4
<1>6. Latest(code) \in RowsOfRule(code)
  BY <1>5 DEF Latest
<1> QED BY <1>6 DEF RowsOfRule

\* A row added with a version above those of its code.
LEMMA RuleAddedKeeps ==
    ASSUME RulesInv, NEW code \in RuleCodes, NEW clauses \in RulePayloads,
           NEW status \in {"draft", "preview", "live"}, NEW version \in Nat,
           AppendRule(code, clauses, status, version),
           \A i \in 1 .. Len(rules) : rules[i].code = code => rules[i].version < version
    PROVE  RulesInv'
<1>1. PICK new : new = [code |-> code, status |-> status, version |-> version,
                        clauses |-> clauses]
  OBVIOUS
<1>2. /\ new \in RuleRow /\ new.code = code /\ new.version = version
      /\ rules' = Append(rules, new) /\ listed' = listed /\ past' = past
  BY <1>1 DEF RuleRow, AppendRule
<1>3. rules \in Seq(RuleRow) /\ Len(rules) \in Nat
  BY DEF RulesInv
<1>4. /\ rules' \in Seq(RuleRow) /\ Len(rules') = Len(rules) + 1 /\ rules'[Len(rules) + 1] = new
      /\ \A i \in 1 .. Len(rules) : rules'[i] = rules[i]
  BY <1>2, <1>3
<1>5. ASSUME NEW i \in 1 .. Len(rules'), NEW j \in 1 .. Len(rules'), i < j,
             rules'[i].code = rules'[j].code
      PROVE  rules'[i].version # rules'[j].version
  <2>1. i \in 1 .. Len(rules) /\ rules'[i] = rules[i]
    BY <1>3, <1>4, <1>5
  <2>2. rules[i].version \in Nat
    BY <2>1, RuleFields
  <2>3. CASE j = Len(rules) + 1
    BY <1>2, <1>4, <1>5, <2>1, <2>2, <2>3
  <2>4. CASE j # Len(rules) + 1
    <3>1. j \in 1 .. Len(rules) /\ rules'[j] = rules[j] /\ i # j
      BY <1>3, <1>4, <1>5, <2>4
    <3> QED BY <1>5, <2>1, <3>1 DEF RulesInv, RuleVersionsUnique
  <2> QED BY <2>3, <2>4
<1>6. RuleVersionsUnique'
  <2>1. \A i, j \in 1 .. Len(rules') : i # j => i < j \/ j < i
    BY <1>3, <1>4
  <2> QED BY <1>5, <2>1 DEF RuleVersionsUnique
<1>7. \E bound \in Nat : \A i \in 1 .. Len(rules') : rules'[i].version <= bound
  <2>1. PICK bound \in Nat : \A i \in 1 .. Len(rules) : rules[i].version <= bound
    BY DEF RulesInv
  <2>2. PICK higher : higher = bound + version
    OBVIOUS
  <2>3. \A i \in 1 .. Len(rules') : i \in 1 .. Len(rules) \/ i = Len(rules) + 1
    BY <1>3, <1>4
  <2>4. ASSUME NEW i \in 1 .. Len(rules) PROVE rules'[i].version <= higher
    <3>1. rules'[i].version \in Nat /\ rules'[i].version <= bound
      BY <1>4, <2>1, RuleFields
    <3> QED BY <2>2, <3>1
  <2>5. rules'[Len(rules) + 1].version <= higher /\ higher \in Nat
    BY <1>2, <1>4, <2>2
  <2> QED BY <2>3, <2>4, <2>5
<1> QED BY <1>2, <1>4, <1>6, <1>7 DEF RulesInv

\* The status of a row changes, and its version, if at all, to a new one.
LEMMA RuleMoveKeeps ==
    ASSUME RulesInv, NEW i \in 1 .. Len(rules), NEW from, NEW to \in {"draft", "preview", "live"},
           NEW version \in Nat, MoveRule(i, from, to, version),
           version = rules[i].version
           \/ \A j \in 1 .. Len(rules) : rules[j].code = rules[i].code => rules[j].version < version
    PROVE  RulesInv'
<1>1. rules \in Seq(RuleRow) /\ Len(rules) \in Nat /\ rules[i] \in RuleRow
  BY RuleFields DEF RulesInv
<1>2. PICK new : new = [rules[i] EXCEPT !.status = to, !.version = version]
  OBVIOUS
<1>3. new \in RuleRow /\ new.code = rules[i].code /\ new.version = version
  BY <1>1, <1>2 DEF RuleRow
<1>4. rules' = [rules EXCEPT ![i] = new] /\ listed' = listed /\ past' = past
  BY <1>1, <1>2 DEF MoveRule
<1>5. rules' \in Seq(RuleRow) /\ Len(rules') = Len(rules)
  BY <1>1, <1>3, <1>4
<1>6. rules'[i] = new /\ \A j \in 1 .. Len(rules) : j # i => rules'[j] = rules[j]
  <2>1. DOMAIN rules = 1 .. Len(rules)
    BY <1>1
  <2> QED BY <1>4, <2>1
<1>7. ASSUME NEW j \in 1 .. Len(rules), j # i, rules[j].code = new.code
      PROVE  rules[j].version # version
  BY <1>3, <1>7, RuleFields DEF RulesInv, RuleVersionsUnique
<1>8. RuleVersionsUnique'
  <2>1. ASSUME NEW j \in 1 .. Len(rules), NEW k \in 1 .. Len(rules), j # k,
               rules'[j].code = rules'[k].code
        PROVE  rules'[j].version # rules'[k].version
    <3>1. CASE j = i
      BY <1>3, <1>6, <1>7, <2>1, <3>1
    <3>2. CASE k = i
      BY <1>3, <1>6, <1>7, <2>1, <3>2
    <3>3. CASE j # i /\ k # i
      BY <1>6, <2>1, <3>3 DEF RulesInv, RuleVersionsUnique
    <3> QED BY <3>1, <3>2, <3>3
  <2> QED BY <1>5, <2>1 DEF RuleVersionsUnique
<1>9. \E bound \in Nat : \A j \in 1 .. Len(rules') : rules'[j].version <= bound
  <2>1. PICK bound \in Nat : \A j \in 1 .. Len(rules) : rules[j].version <= bound
    BY DEF RulesInv
  <2>2. PICK higher : higher = bound + version
    OBVIOUS
  <2>3. higher \in Nat /\ \A j \in 1 .. Len(rules) : rules'[j].version <= higher
    BY <1>3, <1>6, <2>1, <2>2, RuleFields
  <2> QED BY <1>5, <2>3
<1> QED BY <1>4, <1>5, <1>8, <1>9 DEF RulesInv

\* Drafting, applying again, promoting, reverting and committing rules.
LEMMA RuleSkillsKeep ==
    ASSUME RulesInv,
           \/ \E code \in RuleCodes :
                 (\E clauses \in RulePayloads : create_rule_draft(code, clauses)) \/ reapply_rule(code)
           \/ \E i \in 1 .. Len(rules) : promote_rule(i) \/ revert_rule(i) \/ commit_rule(i)
    PROVE  RulesInv'
<1>1. ASSUME NEW code \in RuleCodes, NEW clauses \in RulePayloads, create_rule_draft(code, clauses)
      PROVE  RulesInv'
  BY <1>1, NextRuleVersionIsNew, RuleAddedKeeps DEF create_rule_draft
<1>2. ASSUME NEW code \in RuleCodes, reapply_rule(code) PROVE RulesInv'
  <2>1. PICK version : version = NextRuleVersion(code)
    OBVIOUS
  <2>2. /\ version \in Nat
        /\ \A i \in 1 .. Len(rules) : rules[i].code = code => rules[i].version < version
    BY <2>1, NextRuleVersionIsNew
  <2>3. PICK clauses : clauses = rules[Latest(code)].clauses
    OBVIOUS
  <2>4. clauses \in RulePayloads
    BY <1>2, <2>3, LatestIsRow, RuleFields DEF reapply_rule
  <2>5. AppendRule(code, clauses, "live", version + 1)
        \/ \E status \in {"draft", "preview"} : AppendRule(code, clauses, status, version)
    BY <1>2, <2>1, <2>3 DEF reapply_rule
  <2>6. /\ version + 1 \in Nat
        /\ \A i \in 1 .. Len(rules) : rules[i].code = code => rules[i].version < version + 1
    BY <2>2, RuleFields
  <2> QED BY <2>2, <2>4, <2>5, <2>6, RuleAddedKeeps
<1>3. ASSUME NEW i \in 1 .. Len(rules), promote_rule(i) \/ revert_rule(i) \/ commit_rule(i)
      PROVE  RulesInv'
  <2>1. rules[i].version \in Nat
    BY RuleFields
  <2>2. CASE promote_rule(i) \/ revert_rule(i)
    BY <2>1, <2>2, RuleMoveKeeps DEF promote_rule, revert_rule
  <2>3. CASE commit_rule(i)
    <3>1. PICK version : version = NextRuleVersion(rules[i].code)
      OBVIOUS
    <3>2. /\ version \in Nat
          /\ \A j \in 1 .. Len(rules) : rules[j].code = rules[i].code => rules[j].version < version
      BY <3>1, NextRuleVersionIsNew
    <3>3. MoveRule(i, "preview", "live", version)
      BY <2>3, <3>1 DEF commit_rule
    <3> QED BY <3>2, <3>3, RuleMoveKeeps
  <2> QED BY <1>3, <2>2, <2>3
<1> QED BY <1>1, <1>2, <1>3

\* Suggestions and changes of the catalog.
LEMMA AskingKeeps ==
    ASSUME RulesInv, rules' = rules,
           listed' = listed \/ (\E i \in Items : listed' = Append(listed, i)),
           past' = past \/ (\E h \in Past : past' = Append(past, h))
    PROVE  RulesInv'
<1>1. listed \in Seq(Items) /\ past \in Seq(Past)
  BY DEF RulesInv
<1>2. listed' \in Seq(Items)
  <2>1. ASSUME NEW i \in Items, listed' = Append(listed, i) PROVE listed' \in Seq(Items)
    BY <1>1, <2>1
  <2> QED BY <1>1, <2>1
<1>3. past' \in Seq(Past)
  <2>1. ASSUME NEW h \in Past, past' = Append(past, h) PROVE past' \in Seq(Past)
    BY <1>1, <2>1
  <2> QED BY <1>1, <2>1
<1> QED BY <1>2, <1>3 DEF RulesInv, RuleVersionsUnique

\* What may be suggested is tied to no closed resource.
LEMMA PoolIsOpen ==
    ASSUME RulesInv, NEW catalog \in Pool
    PROVE  /\ \A i \in ToSet(listed) :
                 i.code = catalog /\ i.resource # NoResource => share[i.resource] # SHARE_TYPE_CLOSED
           /\ \A h \in ToSet(past) :
                 h.catalog = catalog /\ h.resource # NoResource => share[h.resource] # SHARE_TYPE_CLOSED
<1>1. catalog \notin excluded_catalog_ids(_no_share_resource_codes)
  BY DEF Pool
<1>2. ASSUME NEW i \in ToSet(listed), i.code = catalog, i.resource # NoResource
      PROVE  share[i.resource] # SHARE_TYPE_CLOSED
  <2>1. i \in Items
    BY DEF RulesInv, ToSet
  <2>2. i.resource \in Resources
    BY <1>2, <2>1, ResourcesAssumption
  <2>3. i.resource \notin _no_share_resource_codes
    BY <1>1, <1>2 DEF excluded_catalog_ids
  <2> QED BY <2>2, <2>3 DEF _no_share_resource_codes
<1>3. ASSUME NEW h \in ToSet(past), h.catalog = catalog, h.resource # NoResource
      PROVE  share[h.resource] # SHARE_TYPE_CLOSED
  <2>1. h \in Past
    BY DEF RulesInv, ToSet
  <2>2. h.resource \in Resources
    BY <1>3, <2>1, ResourcesAssumption
  <2>3. h.resource \notin _no_share_resource_codes
    BY <1>1, <1>3 DEF excluded_catalog_ids
  <2> QED BY <2>2, <2>3 DEF _no_share_resource_codes
<1> QED BY <1>2, <1>3

\* For any rules, clauses, catalogs and share types, versions of a rule code are
\* unique, wherever a rule that is applied again breaks off
\* (recommendation.rule.commit), and no suggested catalog is tied to a closed
\* resource by an item or a past requirement (suggest, excluded_catalog_ids).
THEOREM RulesStayApartAndOpen == RuleSpec => []RulesAgree
<1>1. RuleInit => RulesInv
  <2> SUFFICES ASSUME RuleInit PROVE RulesInv
    OBVIOUS
  <2>1. /\ rules = <<>> /\ Len(rules) = 0 /\ rules \in Seq(RuleRow)
        /\ listed \in Seq(Items) /\ past \in Seq(Past)
    BY DEF RuleInit
  <2>2. \A i \in 1 .. Len(rules) : rules[i].version <= 0
    BY <2>1
  <2> QED BY <2>1, <2>2 DEF RulesInv, RuleVersionsUnique
<1>2. RulesInv /\ [RuleNext]_ruleVars => RulesInv'
  <2> SUFFICES ASSUME RulesInv, [RuleNext]_ruleVars PROVE RulesInv'
    OBVIOUS
  <2>1. CASE UNCHANGED ruleVars
    BY <2>1, AskingKeeps DEF ruleVars
  <2>2. ASSUME NEW intent, NEW top, NEW register, Suggest(intent, top, register) PROVE RulesInv'
    BY <2>2, AskingKeeps DEF Suggest
  <2>3. ASSUME NEW i \in Items, ListItem(i) PROVE RulesInv'
    BY <2>3, AskingKeeps DEF ListItem
  <2>4. ASSUME NEW h \in Past, AddPast(h) PROVE RulesInv'
    BY <2>4, AskingKeeps DEF AddPast
  <2>5. ASSUME NEW r, NEW type, SetShareType(r, type) PROVE RulesInv'
    BY <2>5, AskingKeeps DEF SetShareType
  <2> QED BY <2>1, <2>2, <2>3, <2>4, <2>5, RuleSkillsKeep DEF RuleNext
<1>3. RulesInv => RulesAgree
  <2> SUFFICES ASSUME RulesInv PROVE ClosedNeverSuggested
    BY DEF RulesInv, RulesAgree
  <2>1. ASSUME NEW intent, NEW top, NEW found \in suggest(intent, top), NEW c \in found
        PROVE  c.catalog \in Pool
    <3>1. c \in Candidates(intent)
      BY <2>1 DEF suggest
    <3> QED BY <3>1 DEF Candidates
  <2> QED BY <2>1, PoolIsOpen DEF ClosedNeverSuggested
<1> QED BY <1>1, <1>2, <1>3, PTL DEF RuleSpec
=============================================================================
