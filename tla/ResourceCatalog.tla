--------------------------- MODULE ResourceCatalog ---------------------------
(***************************************************************************)
(* Catalog entries and the resource assets mounted on them: the skills     *)
(* catalog.entry.* (zw_brain/command/handlers/j1/catalog_entry.py),        *)
(* catalog.manage_entry (catalog_meta.py), resource.api.*, resource.asset.**)
(* and resource.manage_asset (resource_api.py) and resource.mount.*        *)
(* (resource_mount.py), over the tables catalog_entry and resource_asset.  *)
(*                                                                         *)
(* Approving an entry, submitting an entry or an asset and mounting an     *)
(* asset read the tables before the write bracket and write inside it:     *)
(* a check and a commit here.  The others read and write under the lock    *)
(* and are one action.  Callers are taken to have an org (caller_org_code).*)
(***************************************************************************)
CONSTANTS
    Catalogs,        \* catalog codes
    Seeded,          \* those in the provider snapshot the service starts with
    Assets,          \* resource codes
    Targets,         \* the catalogs assets name, or Nothing
    AssetStarts,     \* the lifecycle_status a caller may name for an asset
    Orgs,
    Threads,         \* requests in flight at once
    Idle,
    Nothing          \* no record, no org, no catalog

ASSUME SeededAssumption == Seeded \subseteq Catalogs
ASSUME TargetsAssumption == Targets \subseteq Catalogs \union {Nothing}
ASSUME NothingAssumption == Nothing \notin Orgs \union Catalogs
ASSUME OrgAssumption == Orgs # {}

EntryStatuses == {"draft", "pending_review", "pending_platform_review",
                  "approved_pending_publish", "rejected", "active", "retired"}

AssetStatuses == {"draft", "pending_review", "approved_pending_publish", "approved",
                  "test_failed", "active", "suspended", "retired", "revoked"}

Roles == {"ROLE_ORGAN_MANAGER", "ROLE_BUSIAUDIT"}

\* summary_json: inline entries carry a data_catalog_code, reverse ones
\* source = "reverse"; complete is that no required basic field is missing
\* (only inline entries have them), reason that a review_return_reason is shown.
Entries == [status : EntryStatuses, owner : Orgs, source : {"inline", "reverse", "plain"},
            complete : BOOLEAN, reason : BOOLEAN]

AssetRecords == [status : AssetStatuses, kind : {"api", "table", "file"}, owner : Orgs,
                 catalog : Targets, ready : BOOLEAN, reason : BOOLEAN]

\* What a check read and a commit goes by; seen is the status, the owner or
\* the readiness it found.
Jobs ==
    [op : {"review"}, on : Catalogs, role : Roles, seen : EntryStatuses]
    \union [op : {"submit_entry"}, on : Catalogs]
    \union [op : {"submit_asset"}, on : Assets]
    \union [op : {"mount"}, on : Assets, asset : AssetRecords, seen : Orgs \union {Nothing}]

ASSUME IdleAssumption == Idle \notin Jobs
ASSUME AssetStartsAssumption == AssetStarts \subseteq AssetStatuses

VARIABLES
    entry,           \* catalog_entry rows
    asset,           \* resource_asset rows
    job              \* what each thread has checked and not yet written

vars == <<entry, asset, job>>

EntryExists(c) == entry[c] # Nothing

AssetExists(a) == asset[a] # Nothing

\* sync_aggregate_tables seeds the entries of the snapshot into empty tables.
Init ==
    /\ entry \in [Catalogs -> Entries \union {Nothing}]
    /\ \A c \in Catalogs :
          IF c \in Seeded
          THEN /\ entry[c] # Nothing
               /\ entry[c].status \in {"approved_pending_publish", "active"}
               /\ entry[c].source = "plain" /\ entry[c].complete /\ ~entry[c].reason
          ELSE entry[c] = Nothing
    /\ asset = [a \in Assets |-> Nothing]
    /\ job = [t \in Threads |-> Idle]

-----------------------------------------------------------------------------
(* The repositories                                                        *)

\* CatalogRepository.upsert_from_resource: the row becomes what is passed.
upsert_from_resource(c, record) == entry' = [entry EXCEPT ![c] = record]

\* ResourceApiRepository.upsert_asset: every column and the summary are given.
upsert_asset(a, record) == asset' = [asset EXCEPT ![a] = record]

\* Mutant: the note of a returned asset stays when it is approved.
transition_asset_keeps_note(a, status, note) ==
    /\ AssetExists(a)
    /\ asset' = [asset EXCEPT ![a].status = status, ![a].reason = @ \/ note = "reason"]

\* ResourceApiRepository.transition_asset.  No status is asked for; a note
\* is written, an empty one clears what is there, none leaves it.
transition_asset(a, status, note) ==
    /\ AssetExists(a)
    /\ asset' = [asset EXCEPT ![a].status = status,
                              ![a].reason = CASE note = "reason" -> TRUE
                                              [] note = "empty" -> FALSE
                                              [] OTHER -> @]

-----------------------------------------------------------------------------
(* Catalog entries                                                         *)

create_catalog_entry_draft(c, org, complete) ==
    /\ upsert_from_resource(c, [status |-> "draft", owner |-> org, source |-> "inline",
                                complete |-> complete, reason |-> FALSE])
    /\ UNCHANGED <<asset, job>>

create_catalog_entry_reverse_draft(c, org) ==
    /\ upsert_from_resource(c, [status |-> "draft", owner |-> org, source |-> "reverse",
                                complete |-> TRUE, reason |-> FALSE])
    /\ UNCHANGED <<asset, job>>

\* The department's review of a reverse draft.
confirm_catalog_entry_reverse_draft(c) ==
    /\ EntryExists(c)
    /\ entry[c].source = "reverse"
    /\ entry[c].status = "draft"
    /\ upsert_from_resource(c, [entry[c] EXCEPT !.status = "pending_platform_review"])
    /\ UNCHANGED <<asset, job>>

reject_catalog_entry_reverse_draft(c) ==
    /\ EntryExists(c)
    /\ entry[c].source = "reverse"
    /\ upsert_from_resource(c, [entry[c] EXCEPT !.status = "rejected"])
    /\ UNCHANGED <<asset, job>>

\* Metadata only: the status of the row is passed on.
update_catalog_entry(c, org, complete) ==
    /\ EntryExists(c)
    /\ entry[c].source # "inline" => complete
    /\ upsert_from_resource(c, [entry[c] EXCEPT !.owner = org, !.complete = complete])
    /\ UNCHANGED <<asset, job>>

\* The row as it is under the lock, with another status; from any status.
transition_catalog_entry(c, status, note) ==
    /\ EntryExists(c)
    /\ upsert_from_resource(c, [entry[c] EXCEPT !.status = status,
                                                !.reason = CASE note = "reason" -> TRUE
                                                             [] note = "empty" -> FALSE
                                                             [] OTHER -> @])

\* The required fields of an inline entry; other entries have none.
missing_inline_required_basic_fields(c) ==
    entry[c].source = "inline" /\ ~entry[c].complete

CheckSubmitEntry(t, c) ==
    /\ job[t] = Idle
    /\ EntryExists(c)
    /\ ~missing_inline_required_basic_fields(c)
    /\ job' = [job EXCEPT ![t] = [op |-> "submit_entry", on |-> c]]
    /\ UNCHANGED <<entry, asset>>

submit_catalog_entry_review(t) ==
    /\ job[t] # Idle
    /\ job[t].op = "submit_entry"
    /\ transition_catalog_entry(job[t].on, "pending_review", "none")
    /\ job' = [job EXCEPT ![t] = Idle]
    /\ UNCHANGED asset

\* Mutant: an approval by the platform needs no pending entry.
MayApproveAny(status, role) ==
    \/ status = "pending_review"
    \/ role = "ROLE_BUSIAUDIT"

\* Who may approve from where.
MayApprove(status, role) ==
    \/ status = "pending_review"
    \/ status = "pending_platform_review" /\ role = "ROLE_BUSIAUDIT"

ApprovalTarget(role) ==
    IF role = "ROLE_BUSIAUDIT" THEN "approved_pending_publish" ELSE "pending_platform_review"

CheckApprove(t, c, role) ==
    /\ job[t] = Idle
    /\ EntryExists(c)
    /\ MayApprove(entry[c].status, role)
    /\ job' = [job EXCEPT ![t] = [op |-> "review", on |-> c, role |-> role,
                                  seen |-> entry[c].status]]
    /\ UNCHANGED <<entry, asset>>

ApproveEntry(t) ==
    /\ job[t] # Idle
    /\ job[t].op = "review"
    /\ transition_catalog_entry(job[t].on, ApprovalTarget(job[t].role), "empty")
    /\ job' = [job EXCEPT ![t] = Idle]
    /\ UNCHANGED asset

\* Returning and rejecting need a reason and no particular status.
review_catalog_entry(c, decision) ==
    /\ transition_catalog_entry(c, IF decision = "return_for_fix" THEN "draft" ELSE "rejected",
                                "reason")
    /\ UNCHANGED <<asset, job>>

\* The duplicate check warns and never blocks.
publish_catalog_entry(c) ==
    /\ transition_catalog_entry(c, "active", "none")
    /\ UNCHANGED <<asset, job>>

withdraw_catalog_entry(c) ==
    /\ transition_catalog_entry(c, "retired", "none")
    /\ UNCHANGED <<asset, job>>

\* "publish" of an entry of the provider snapshot; "revise" changes no row.
manage_catalog_entry(c, org) ==
    /\ c \in Seeded
    /\ upsert_from_resource(c, [status |-> "approved_pending_publish", owner |-> org,
                                source |-> "plain", complete |-> TRUE, reason |-> FALSE])
    /\ UNCHANGED <<asset, job>>

-----------------------------------------------------------------------------
(* Resource assets                                                         *)

\* asset_payload: a record of the kind the skill makes, in the status the caller
\* names (a draft when he names none), whatever the row was in.
asset_payload(kind, status, org, c, ready) ==
    [status |-> status, kind |-> kind, owner |-> org, catalog |-> c, ready |-> ready,
     reason |-> FALSE]

register_api_resource(a, status, org, c) ==
    /\ upsert_asset(a, asset_payload("api", status, org, c, FALSE))
    /\ UNCHANGED <<entry, job>>

\* The new payload over the row, which must be there.
change_api_resource(a, status, org, c) ==
    /\ AssetExists(a)
    /\ upsert_asset(a, asset_payload("api", status, org, c, FALSE))
    /\ UNCHANGED <<entry, job>>

\* A mounted asset keeps its owner.
guard_owner_immutable(a, org) ==
    AssetExists(a) => asset[a].owner = org

\* A catalog of a known owner takes the assets of that owner only.
guard_catalog_same_org(c, org) ==
    c # Nothing /\ EntryExists(c) => entry[c].owner = org

\* _prepare_table and _prepare_file up to the bracket.
CheckMount(t, a, record) ==
    /\ job[t] = Idle
    /\ guard_owner_immutable(a, record.owner)
    /\ guard_catalog_same_org(record.catalog, record.owner)
    /\ job' = [job EXCEPT ![t] = [op |-> "mount", on |-> a, asset |-> record,
                                  seen |-> IF AssetExists(a) THEN asset[a].owner
                                           ELSE Nothing]]
    /\ UNCHANGED <<entry, asset>>

\* Field mappings that are complete make a table ready; a file needs none.
prepare_table(t, a, status, org, c, ready) ==
    CheckMount(t, a, asset_payload("table", status, org, c, ready))

prepare_file(t, a, status, org, c) ==
    CheckMount(t, a, asset_payload("file", status, org, c, FALSE))

Mount(t) ==
    /\ job[t] # Idle
    /\ job[t].op = "mount"
    /\ upsert_asset(job[t].on, job[t].asset)
    /\ job' = [job EXCEPT ![t] = Idle]
    /\ UNCHANGED entry

\* The gate of _submit_api_resource_review.
Submittable(a) == asset[a].kind = "table" => asset[a].ready

CheckSubmitAsset(t, a) ==
    /\ job[t] = Idle
    /\ AssetExists(a)
    /\ Submittable(a)
    /\ job' = [job EXCEPT ![t] = [op |-> "submit_asset", on |-> a]]
    /\ UNCHANGED <<entry, asset>>

submit_api_resource_review(t) ==
    /\ job[t] # Idle
    /\ job[t].op = "submit_asset"
    /\ transition_asset(job[t].on, "pending_review", "none")
    /\ job' = [job EXCEPT ![t] = Idle]
    /\ UNCHANGED entry

review_api_resource(a, decision) ==
    /\ IF decision = "approve"
       THEN transition_asset(a, "approved_pending_publish", "empty")
       ELSE transition_asset(a, "draft", "reason")
    /\ UNCHANGED <<entry, job>>

\* Publishing an asset writes its catalog entry too, as active and as the
\* asset describes it.
publish_api_resource(a) ==
    /\ transition_asset(a, "active", "none")
    /\ IF asset[a].catalog = Nothing
       THEN UNCHANGED entry
       ELSE upsert_from_resource(asset[a].catalog,
                                 [status |-> "active", owner |-> asset[a].owner,
                                  source |-> "plain", complete |-> TRUE, reason |-> FALSE])
    /\ UNCHANGED job

\* resource.api.withdraw and resource.api.revoke.
transition_api_resource(a, status) ==
    /\ transition_asset(a, status, "none")
    /\ UNCHANGED <<entry, job>>

test_api_resource(a, result) ==
    /\ transition_asset(a, IF result = "passed" THEN "approved" ELSE "test_failed", "none")
    /\ UNCHANGED <<entry, job>>

\* resource.manage_asset: publish, suspend and submit_review move the asset
\* only; the other actions collect evidence and leave its status alone.
manage_resource_asset(a, action) ==
    /\ transition_asset(a, CASE action = "publish" -> "active"
                             [] action = "suspend" -> "suspended"
                             [] OTHER -> "pending_review", "none")
    /\ UNCHANGED <<entry, job>>

-----------------------------------------------------------------------------
\* The bracket ends without a write: refused confirmation, failed audit.
Abandon(t) ==
    /\ job[t] # Idle
    /\ job' = [job EXCEPT ![t] = Idle]
    /\ UNCHANGED <<entry, asset>>

EntryStep(c) ==
    \/ \E org \in Orgs, complete \in BOOLEAN :
          \/ create_catalog_entry_draft(c, org, complete)
          \/ update_catalog_entry(c, org, complete)
    \/ \E org \in Orgs :
          \/ create_catalog_entry_reverse_draft(c, org)
          \/ manage_catalog_entry(c, org)
    \/ confirm_catalog_entry_reverse_draft(c)
    \/ reject_catalog_entry_reverse_draft(c)
    \/ \E decision \in {"return_for_fix", "reject"} : review_catalog_entry(c, decision)
    \/ publish_catalog_entry(c)
    \/ withdraw_catalog_entry(c)

AssetStep(a) ==
    \/ \E status \in AssetStarts, org \in Orgs, c \in Targets :
          register_api_resource(a, status, org, c) \/ change_api_resource(a, status, org, c)
    \/ \E decision \in {"approve", "return_for_fix"} : review_api_resource(a, decision)
    \/ publish_api_resource(a)
    \/ \E status \in {"retired", "revoked"} : transition_api_resource(a, status)
    \/ \E result \in {"passed", "failed"} : test_api_resource(a, result)
    \/ \E action \in {"publish", "suspend", "submit_review"} : manage_resource_asset(a, action)

ThreadStep(t) ==
    \/ \E c \in Catalogs :
          CheckSubmitEntry(t, c) \/ \E role \in Roles : CheckApprove(t, c, role)
    \/ \E a \in Assets :
          \/ CheckSubmitAsset(t, a)
          \/ \E status \in AssetStarts, org \in Orgs, c \in Targets :
                \/ prepare_file(t, a, status, org, c)
                \/ \E ready \in BOOLEAN : prepare_table(t, a, status, org, c, ready)
    \/ submit_catalog_entry_review(t)
    \/ ApproveEntry(t)
    \/ submit_api_resource_review(t)
    \/ Mount(t)
    \/ Abandon(t)

Next ==
    \/ \E c \in Catalogs : EntryStep(c)
    \/ \E a \in Assets : AssetStep(a)
    \/ \E t \in Threads : ThreadStep(t)

Spec == Init /\ [][Next]_vars

-----------------------------------------------------------------------------
(* Properties                                                              *)

TypeOK ==
    /\ entry \in [Catalogs -> Entries \union {Nothing}]
    /\ asset \in [Assets -> AssetRecords \union {Nothing}]
    /\ job \in [Threads -> Jobs \union {Idle}]

\* What waits for publication shows no reason to fix it: an approval clears
\* the note of an earlier return ("通过时清掉历史驳回理由"), whatever was
\* written between its check and its commit.
NoStaleReason ==
    /\ \A c \in Catalogs :
          EntryExists(c) /\ entry[c].status = "approved_pending_publish" => ~entry[c].reason
    /\ \A a \in Assets :
          AssetExists(a) /\ asset[a].status = "approved_pending_publish" => ~asset[a].reason

\* An entry is cleared for publication from a review it is pending in, unless
\* it moved after the reviewer's check (or catalog.manage_entry, which ends no
\* review, clears a seeded entry as it is).
ApprovedInOrder ==
    [][\A c \in Catalogs :
          EntryExists(c) /\ entry[c].status # "approved_pending_publish"
          /\ entry'[c].status = "approved_pending_publish"
          => \/ entry[c].status \in {"pending_review", "pending_platform_review"}
             \/ c \in Seeded /\ UNCHANGED job
             \/ \E t \in Threads :
                   job[t] # Idle /\ job[t].op = "review" /\ job[t].on = c
                   /\ job'[t] = Idle /\ job[t].seen # entry[c].status]_vars

\* Mounting an asset again never moves it to another org, unless another
\* mount or registration came between the check and the commit.
MountKeepsOwner ==
    [][\A a \in Assets :
          AssetExists(a) /\ asset'[a].owner # asset[a].owner /\ asset'[a].kind # "api"
          => \E t \in Threads :
                job[t] # Idle /\ job[t].op = "mount" /\ job[t].on = a
                /\ job'[t] = Idle /\ job[t].seen # asset[a].owner]_vars

\* Entries are cleared for publication by a review and assets stay with their owner,
\* but for what another request wrote between a check and its commit
\* (_review_catalog_entry, guard_owner_immutable).
ReviewsAndOwnersKept == ApprovedInOrder /\ MountKeepsOwner
=============================================================================
