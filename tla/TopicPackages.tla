---------------------------- MODULE TopicPackages ----------------------------
(***************************************************************************)
(* Topic packages (domain/repositories/topic_package.py): created,         *)
(* configured, submitted, reviewed and published by skills, and written by *)
(* three imports.  A skill is one transaction under the write lock.  The   *)
(* importers of examples and of base subjects run in a process of their    *)
(* own, commit after every step and may die between two of them.           *)
(*                                                                         *)
(* A package's items are the catalogs it shows.  Its visibilities are one  *)
(* policy for viewing and one subscription.  Every change of status leaves *)
(* a review row: the trail.                                                *)
(***************************************************************************)
EXTENDS Integers, Sequences

CONSTANTS
    Packages,
    Catalogs,
    PackageRows,       \* legacy rows: [kind, package, status, items, files, feedbacks]
    PackageStarts,     \* statuses under which a caller creates packages
    ZoneStatuses,      \* statuses of the old zones (status_map)
    NoPackage,
    MaxTrail,          \* bound on the review rows of a package
    MaxEvidence,       \* bound on the evidence rows users attach
    MaxImportCrashes   \* bound on crashes of the importers

ASSUME PackageRowsAssumption ==
    \A r \in PackageRows :
        /\ r.package \in Packages /\ r.items \subseteq Catalogs
        /\ r.kind \in {"data_example", "basesubject_info"}
        /\ r.files \in Nat /\ r.feedbacks \in Nat

VARIABLES
    pstatus,           \* status of the package, or NoPackage
    pitems,            \* catalogs the package shows
    pvisible,          \* policy status of its two visibilities, or NoPackage
    ptrail,            \* its review rows that name a status
    pevidence,         \* how many evidence rows of each kind
    active,            \* catalogs whose entry is active and has fields
    importing,         \* the row the importer is at and its next step
    alone,             \* no skill touched that package since the importer began with it
    importCrashes

topicVars == <<pstatus, pitems, pvisible, ptrail, pevidence, active, importing, alone,
               importCrashes>>

EvidenceKinds == {"file", "feedback", "case_evidence"}
VisibilityCodes == {"default", "subscription"}

NoImport == [row |-> NoPackage, step |-> "none", left |-> 0]

TopicInit ==
    /\ pstatus = [p \in Packages |-> NoPackage]
    /\ pitems = [p \in Packages |-> {}]
    /\ pvisible = [p \in Packages |-> [v \in VisibilityCodes |-> NoPackage]]
    /\ ptrail = [p \in Packages |-> << >>]
    /\ pevidence = [p \in Packages |-> [k \in EvidenceKinds |-> 0]]
    /\ active \in SUBSET Catalogs
    /\ importing = NoImport
    /\ alone = TRUE
    /\ importCrashes = 0

PackageExists(p) == pstatus[p] # NoPackage

-----------------------------------------------------------------------------
(* TopicPackageRepository: one transaction each.                           *)

TRANSITIONS ==
    [draft |-> {"configuring", "submitted", "offline"},
     configuring |-> {"configured", "submitted", "offline"},
     configured |-> {"submitted", "offline"},
     submitted |-> {"published", "rejected"},
     published |-> {"offline_pending", "offline"},
     rejected |-> {"configuring", "submitted"},
     offline_pending |-> {"offline", "published"},
     offline |-> {"configuring"}]

\* A package that is not there has no status.
ASSUME NoPackageAssumption == NoPackage \notin DOMAIN TRANSITIONS

\* A caller may name any status; one that no transition knows leads nowhere.
ASSUME PackageStartsAssumption == PackageStarts \subseteq DOMAIN TRANSITIONS

\* What status_map translates the old zones' numbers to.
ASSUME ZoneStatusesAssumption ==
    ZoneStatuses \subseteq DOMAIN TRANSITIONS \ {"offline_pending"}

AddReview(p, action, from, to) ==
    /\ Len(ptrail[p]) < MaxTrail
    /\ ptrail' = [ptrail EXCEPT ![p] = Append(@, [action |-> action, from |-> from, to |-> to])]

\* A package of that code is written over, its status with it.
create_package(p, status) ==
    /\ pstatus' = [pstatus EXCEPT ![p] = status]
    /\ AddReview(p, "create", NoPackage, status)

\* Mutant: configuring takes a package back whatever its status.
AlwaysConfiguring(status) == "configuring"

Configured(status) == IF status = "draft" THEN "configuring" ELSE status

WithVisibility(p, v, policy) == [pvisible EXCEPT ![p][v] = policy]

configure_package(p, items, v, policy) ==
    /\ PackageExists(p)
    /\ pstatus' = [pstatus EXCEPT ![p] = Configured(@)]
    /\ pitems' = [pitems EXCEPT ![p] = @ \union items]
    /\ pvisible' = WithVisibility(p, v, policy)
    /\ AddReview(p, "configure", Configured(pstatus[p]), Configured(pstatus[p]))

Publishable(p) == pitems[p] # {} /\ \E v \in VisibilityCodes : pvisible[p][v] = "approved"

MayMove(p, next) ==
    /\ PackageExists(p)
    /\ next \in TRANSITIONS[pstatus[p]]
    /\ next = "published" => Publishable(p)

transition_package(p, next, action) ==
    /\ MayMove(p, next)
    /\ pstatus' = [pstatus EXCEPT ![p] = next]
    /\ AddReview(p, action, pstatus[p], next)

\* Its review row says nothing about the status and is left out.
update_policy(p, v, policy) ==
    /\ PackageExists(p)
    /\ pvisible' = WithVisibility(p, v, policy)

attach_evidence(p, kind) ==
    /\ PackageExists(p)
    /\ pevidence' = [pevidence EXCEPT ![p][kind] = @ + 1]

-----------------------------------------------------------------------------
(* The skills.                                                             *)

\* A skill on the package the importer is working on.
Touch(p) ==
    /\ alone' = (alone /\ (importing = NoImport \/ importing.row.package # p))
    /\ UNCHANGED <<active, importing, importCrashes>>

\* The status is the payload's, a draft unless it names one.
topic_package_create(p, status) ==
    /\ create_package(p, status)
    /\ Touch(p)
    /\ UNCHANGED <<pitems, pvisible, pevidence>>

topic_package_configure(p, items, policy) ==
    /\ configure_package(p, items, "default", policy)
    /\ Touch(p)
    /\ UNCHANGED pevidence

TransitionTopicPackage(p, next, action) ==
    /\ transition_package(p, next, action)
    /\ Touch(p)
    /\ UNCHANGED <<pitems, pvisible, pevidence>>

topic_package_submit(p) == TransitionTopicPackage(p, "submitted", "submit")

topic_package_review(p, decision) ==
    TransitionTopicPackage(p, IF decision = "approve" THEN "published" ELSE "rejected", "review")

topic_package_publish(p) == TransitionTopicPackage(p, "published", "publish")

topic_package_policy_update(p, policy) ==
    /\ update_policy(p, "default", policy)
    /\ Touch(p)
    /\ UNCHANGED <<pstatus, pitems, ptrail, pevidence>>

topic_package_subscribe(p, policy) ==
    /\ update_policy(p, "subscription", policy)
    /\ Touch(p)
    /\ UNCHANGED <<pstatus, pitems, ptrail, pevidence>>

topic_package_evidence_attach(p) ==
    /\ pevidence[p]["case_evidence"] < MaxEvidence
    /\ attach_evidence(p, "case_evidence")
    /\ Touch(p)
    /\ UNCHANGED <<pstatus, pitems, pvisible, ptrail>>

\* import_legacy_sharezone: the status of the old zone as it stands; with items
\* or a visibility the package is configured right after, which leaves a
\* second row.
legacy_sharezone_import(p, status, items, policy) ==
    LET configured == items # {} \/ policy # NoPackage
        end == IF configured THEN Configured(status) ELSE status
    IN /\ pstatus' = [pstatus EXCEPT ![p] = end]
       /\ pitems' = [pitems EXCEPT ![p] = @ \union items]
       /\ pvisible' = IF policy = NoPackage THEN pvisible ELSE WithVisibility(p, "default", policy)
       /\ Len(ptrail[p]) + 1 < MaxTrail
       /\ ptrail' = [ptrail EXCEPT ![p] =
               @ \o <<[action |-> "create", from |-> NoPackage, to |-> status]>>
                 \o IF configured THEN <<[action |-> "configure", from |-> end, to |-> end]>>
                    ELSE << >>]
       /\ Touch(p)
       /\ UNCHANGED pevidence

\* Entries go active and inactive (ResourceCatalog has their life).
EntryChanges(c) ==
    /\ active' = IF c \in active THEN active \ {c} ELSE active \union {c}
    /\ UNCHANGED <<pstatus, pitems, pvisible, ptrail, pevidence, importing, alone,
                   importCrashes>>

-----------------------------------------------------------------------------
(* The importers: TopicPackageMapper and BasesubjectMapper, row by row.    *)

\* Where the importer is after a step.
ImportAt(step, left) == importing' = [importing EXCEPT !.step = step, !.left = left]

ImportedRow == importing.row

\* The statuses an example is walked through; drafts are never forced.
path_for_target(status) ==
    CASE status \in {"1", "2"} -> <<"submitted">>
      [] status \in {"3", "5"} -> <<"submitted", "rejected">>
      [] status = "4" -> <<"submitted", "published">>
      [] OTHER -> << >>

\* _group_by and the loop over the examples or subjects of the dump.
StartRow(r) ==
    /\ importing = NoImport
    /\ importing' = [row |-> r, step |-> "create", left |-> 0]
    /\ alone' = TRUE
    /\ UNCHANGED <<pstatus, pitems, pvisible, ptrail, pevidence, active, importCrashes>>

CreateFrom(kind) ==
    /\ importing.step = "create" /\ ImportedRow.kind = kind
    /\ create_package(ImportedRow.package, "draft")
    /\ ImportAt("configure", 0)
    /\ UNCHANGED <<pitems, pvisible, pevidence, active, alone, importCrashes>>

ConfigureFrom(kind, policy, next) ==
    /\ importing.step = "configure" /\ ImportedRow.kind = kind
    /\ configure_package(ImportedRow.package, ImportedRow.items, "default", policy)
    /\ ImportAt(next, 0)
    /\ UNCHANGED <<pevidence, active, alone, importCrashes>>

ExampleCreate == CreateFrom("data_example")

\* An example comes with an approved visibility.
ExampleConfigure == ConfigureFrom("data_example", "approved", "wipe")

\* A base subject, with the objects, schemas, services and resources of it
\* joined in; a row without an id is refused.
SubjectCreate == CreateFrom("basesubject_info")

\* A base subject waits for a review and is not walked any further.
SubjectConfigure == ConfigureFrom("basesubject_info", "pending_review", "done")

Wiped(p) == [pevidence EXCEPT ![p] = [k \in EvidenceKinds |-> 0]]

ImportWipe ==
    /\ importing.step = "wipe"
    /\ pevidence' = Wiped(ImportedRow.package)
    /\ ImportAt("file", ImportedRow.files)
    /\ UNCHANGED <<pstatus, pitems, pvisible, ptrail, active, alone, importCrashes>>

\* Files, then feedbacks, each by a commit of its own.
ImportEvidence(kind) ==
    /\ importing.step = kind /\ importing.left > 0
    /\ attach_evidence(ImportedRow.package, kind)
    /\ ImportAt(kind, importing.left - 1)
    /\ UNCHANGED <<pstatus, pitems, pvisible, ptrail, active, alone, importCrashes>>

\* The walk is for examples with items.
EvidenceDone(kind) ==
    /\ importing.step = kind /\ importing.left = 0
    /\ IF kind = "file" THEN ImportAt("feedback", ImportedRow.feedbacks)
       ELSE IF ImportedRow.items = {} THEN ImportAt("done", 0)
       ELSE ImportAt("walk", Len(path_for_target(ImportedRow.status)))
    /\ UNCHANGED <<pstatus, pitems, pvisible, ptrail, pevidence, active, alone, importCrashes>>

\* A step that is refused ends the walk.
ImportWalk ==
    /\ importing.step = "walk"
    /\ UNCHANGED <<pitems, pvisible, pevidence, active, alone, importCrashes>>
    /\ LET path == path_for_target(ImportedRow.status)
           next == path[Len(path) - importing.left + 1]
       IN IF importing.left > 0 /\ MayMove(ImportedRow.package, next)
          THEN /\ transition_package(ImportedRow.package, next, "legacy_import")
               /\ ImportAt("walk", importing.left - 1)
          ELSE ImportAt("done", 0) /\ UNCHANGED <<pstatus, ptrail>>

RowDone ==
    /\ importing.step = "done"
    /\ importing' = NoImport
    /\ UNCHANGED <<pstatus, pitems, pvisible, ptrail, pevidence, active, alone, importCrashes>>

ImporterDies ==
    /\ importing # NoImport /\ importCrashes < MaxImportCrashes
    /\ importing' = NoImport
    /\ importCrashes' = importCrashes + 1
    /\ UNCHANGED <<pstatus, pitems, pvisible, ptrail, pevidence, active, alone>>

-----------------------------------------------------------------------------
(* What readers see (TopicPackageService, CatalogService).                 *)

\* catalog_projection_items: items whose entry is active and has fields.
VisibleItems(p) == pitems[p] \intersect active

ApprovedVisibility(p) == {v \in VisibilityCodes : pvisible[p][v] = "approved"}

\* projectionStatus of the list contract: projected, or blocked.
Projected(p) ==
    pstatus[p] = "published" /\ VisibleItems(p) # {} /\ ApprovedVisibility(p) # {}

\* _projection_failure_reasons, as far as packages and entries go.
FailureReasons(p) ==
    (IF pstatus[p] # "published" THEN {"topic_status"} ELSE {})
    \union (IF pitems[p] # {} /\ VisibleItems(p) = {} THEN {"no_active_catalog_item"} ELSE {})
    \union (IF VisibleItems(p) # pitems[p] THEN {"inactive_catalog_item_hidden"} ELSE {})
    \union (IF ApprovedVisibility(p) = {} THEN {"no_approved_visibility"} ELSE {})

\* topic_projection_cards: the packages that show a catalog.
Cards(c) == {p \in Packages : PackageExists(p) /\ c \in pitems[p]}

\* _discoverable_from_cards.
Discoverable(c) == c \in active /\ (Cards(c) = {} \/ \E p \in Cards(c) : Projected(p))

-----------------------------------------------------------------------------
TopicSkill(p) ==
    \/ \E status \in PackageStarts : topic_package_create(p, status)
    \/ \E items \in SUBSET Catalogs, policy \in {"approved", "pending_review"} :
        topic_package_configure(p, items, policy)
    \/ topic_package_submit(p)
    \/ \E decision \in {"approve", "reject"} : topic_package_review(p, decision)
    \/ topic_package_publish(p)
    \/ \E policy \in {"approved", "pending_review"} :
        topic_package_policy_update(p, policy) \/ topic_package_subscribe(p, policy)
    \/ topic_package_evidence_attach(p)
    \/ \E status \in ZoneStatuses, items \in SUBSET Catalogs,
          policy \in {"approved", "pending_review", NoPackage} :
        legacy_sharezone_import(p, status, items, policy)

ImportStep ==
    \/ \E r \in PackageRows : StartRow(r)
    \/ ExampleCreate \/ ExampleConfigure \/ ImportWipe
    \/ SubjectCreate \/ SubjectConfigure
    \/ \E kind \in {"file", "feedback"} : ImportEvidence(kind) \/ EvidenceDone(kind)
    \/ ImportWalk \/ RowDone \/ ImporterDies

TopicNext ==
    (\E p \in Packages : TopicSkill(p)) \/ ImportStep \/ (\E c \in Catalogs : EntryChanges(c))

TopicSpec == TopicInit /\ [][TopicNext]_topicVars

-----------------------------------------------------------------------------
(* Properties.                                                             *)

\* Up to its i-th row a trail has a creation under that status and, since then,
\* nothing but configurations.
MadeAs(moves, i, status) ==
    \E j \in 1 .. i :
        /\ moves[j].action = "create" /\ moves[j].to = status
        /\ \A k \in (j + 1) .. i : moves[k].action = "configure"

\* The review rows of a package tell its life: each begins where the one
\* before it ended, and the last one says what the package is, also when
\* importers and users change the package in turns and an importer dies
\* (_add_review_in_session in every operation of the repository).  A review, a
\* publish or an import publishes a package that was submitted, or else one
\* whose caller created it as waiting to go offline (topic_package.py:54, the
\* status is the payload's); a creation may say "published" outright.
TrailTellsStatus ==
    \A p \in Packages : PackageExists(p) =>
        LET moves == ptrail[p]
        IN /\ moves[Len(moves)].to = pstatus[p]
           /\ \A i \in 2 .. Len(moves) :
                \/ moves[i].action = "create"
                \/ moves[i].from = moves[i - 1].to
                \/ moves[i].action = "configure" /\ moves[i - 1].to = "draft"
           /\ \A i \in 1 .. Len(moves) :
                moves[i].to = "published" /\ moves[i].action \notin {"create", "configure"} =>
                    \/ moves[i].from = "submitted"
                    \/ /\ moves[i].from = "offline_pending"
                       /\ MadeAs(moves, i - 1, "offline_pending")

\* An import of a row that comes to its end undisturbed leaves the package as
\* the row says, with its evidence once, whatever an import that died or users
\* left behind (topic_package.py wipes before it attaches; a draft is never
\* forced further).
ImportLeavesRow ==
    importing.step = "done" /\ alone =>
        LET p == ImportedRow.package
            path == path_for_target(ImportedRow.status)
            walked == ImportedRow.kind = "data_example" /\ ImportedRow.items # {} /\ path # << >>
        IN /\ ImportedRow.items \subseteq pitems[p]
           /\ pstatus[p] = IF walked THEN path[Len(path)] ELSE "configuring"
           /\ ImportedRow.kind = "data_example" =>
                /\ pevidence[p]["file"] = ImportedRow.files
                /\ pevidence[p]["feedback"] = ImportedRow.feedbacks

\* A catalog that is in a package is found only while some package that shows
\* it is published, by a decision, a creation or an import that said so, and lets
\* somebody see it (_discoverable_from_cards over the projections of all packages).
FoundThroughPublished ==
    \A c \in Catalogs : Discoverable(c) /\ Cards(c) # {} =>
        \E p \in Cards(c) :
            /\ ptrail[p][Len(ptrail[p])].to = "published"
            /\ ApprovedVisibility(p) # {}
            /\ FailureReasons(p) \subseteq {"inactive_catalog_item_hidden"}

\* The three together: a package's trail accounts for its status, a completed import
\* leaves what its row says, and a catalog is found through published packages only.
PackagesAccounted == TrailTellsStatus /\ ImportLeavesRow /\ FoundThroughPublished
=============================================================================
