---------------------------- MODULE ActorIdentity ----------------------------
(***************************************************************************)
(* Who somebody is and what that person may act as: the actor_projection   *)
(* and actor_org_role_binding rows (domain/repositories/                   *)
(* governance_projection.py).  An actor row is keyed by the identity       *)
(* provider's sub, or by the user id of the legacy platform as long as no  *)
(* sub is known.  Four parties write the rows:                             *)
(*   - a login claims the row of its sub, or takes over a legacy row;      *)
(*   - administrators assign and revoke roles and disable actors;          *)
(*   - the governance importer (adapters/legacy/mappers/governance.py), a  *)
(*     process of its own that commits several times per user;             *)
(*   - the repair script for duplicate identities, another process.        *)
(* Skills hold the write lock; the two processes interleave with them.     *)
(***************************************************************************)
EXTENDS FiniteSets, Naturals

CONSTANTS
    Users,             \* user ids of the legacy platform
    Subs,              \* subs of the identity provider
    OrgUnits,
    Roles,             \* product roles
    Aux,               \* Aux[s]: users whose account, phone or mail is a claim of s
    ActorRows,         \* legacy rows: [table, user, sub, enabled, posts]
    NoUser,
    NoSub,
    Idle,
    MaxEdits,          \* bound on what administrators do
    MaxImports,        \* bound on rows imported, repetitions included
    MaxIdentityCrashes \* bound on deaths of the importer and of the repair script

ASSUME KeysAssumption == Users \intersect Subs = {} /\ NoUser \notin Users /\ NoSub \notin Subs
ASSUME AuxAssumption == Aux \in [Subs -> SUBSET Users]
ASSUME ActorRowsAssumption ==
    \A r \in ActorRows :
        /\ r.table \in {"pub_user", "sys_user", "pub_user_plain"}
        /\ r.user \in Users /\ r.sub \in Subs \union {NoSub}
        /\ r.enabled \in BOOLEAN /\ r.posts \subseteq OrgUnits \X Roles

ActorKeys == Users \union Subs
Posts == OrgUnits \X Roles

CLAIMABLE_STATUSES == {"iam_account_missing", "unmatched"}
ActorStatuses == CLAIMABLE_STATUSES \union {"none", "active", "inactive", "disabled"}

NoActor == [status |-> "none", roles |-> {}, legacy |-> NoUser, thin |-> FALSE]

VARIABLES
    actors,            \* the actor row of each key, or NoActor
    grants,            \* status of the binding of each key and post
    userMaps,          \* keys the legacy user is mapped to (legacy_object_mapping)
    assigning,         \* the checked assignment about to be written, or Idle
    importer,          \* the row being imported and the next step, or Idle
    repairing,         \* the merge planned and the next step, or Idle
    revoked,           \* history: roles revoked of an actor, the last binding included, and
                       \* not granted or imported again
    identitySpent      \* edits, imports and crashes so far

rowVars == <<actors, grants, userMaps, revoked>>
identityVars == <<actors, grants, userMaps, assigning, importer, repairing, revoked,
                  identitySpent>>

IdentityInit ==
    /\ actors = [k \in ActorKeys |-> NoActor]
    /\ grants = [k \in ActorKeys |-> [p \in Posts |-> "none"]]
    /\ userMaps = [u \in Users |-> {}]
    /\ assigning = Idle
    /\ importer = Idle
    /\ repairing = Idle
    /\ revoked = [k \in ActorKeys |-> {}]
    /\ identitySpent = [edits |-> 0, imports |-> 0, crashes |-> 0]

Exists(k) == actors[k].status # "none"
\* The posts a key holds by some bindings, and by those in the table.
Held(bindings, k) == {p \in Posts : bindings[k][p] = "active"}
ActivePosts(k) == Held(grants, k)

\* The roles of a set of posts.
RolesIn(posts) == {p[2] : p \in posts}

\* The write lock: no skill begins while an assignment is between its checks
\* and its write.
Unlocked == assigning = Idle

EditSpent ==
    /\ identitySpent.edits < MaxEdits
    /\ identitySpent' = [identitySpent EXCEPT !.edits = @ + 1]

-----------------------------------------------------------------------------
(* Claiming a row for a sub: login, importer and repair script share it.   *)

\* _apply_claim_to_actor: bindings and role codes stay.
Applied(row) == [row EXCEPT !.status = "active"]

\* The legacy id of the profile, if it has one.
Linked(row, legacy) == [row EXCEPT !.legacy = IF legacy = NoUser THEN @ ELSE legacy]

\* _rekey_bindings_in_session: a binding the new key has too is disabled where
\* it is, whatever the status of the new key's own.
RekeyedGrants(old, new) ==
    [grants EXCEPT
        ![old] = [p \in Posts |->
            IF @[p] # "none" /\ grants[new][p] # "none" THEN "disabled" ELSE "none"],
        ![new] = [p \in Posts |-> IF @[p] = "none" THEN grants[old][p] ELSE @[p]]]

\* _rekey_actor_object_mapping_in_session.
RekeyedMaps(old, new) ==
    [u \in Users |-> IF old \in userMaps[u] THEN (userMaps[u] \ {old}) \union {new}
                                           ELSE userMaps[u]]

\* The mapping rows of one user are unique per key.
Collides(old, new) == \E u \in Users : {old, new} \subseteq userMaps[u]

\* Row, bindings and mappings move in one transaction, or none of them does.
Rekey(old, new) ==
    /\ ~Collides(old, new)
    /\ actors' = [actors EXCEPT ![new] = Applied(actors[old]), ![old] = NoActor]
    /\ grants' = RekeyedGrants(old, new)
    /\ userMaps' = RekeyedMaps(old, new)
    /\ revoked' = [revoked EXCEPT ![old] = {},
                                  ![new] = (@ \union revoked[old]) \ RolesIn(Held(grants', new))]

\* _insert_fresh_iaf_actor: the only place where token roles become role codes.
Fresh(roles, legacy, thin) ==
    [status |-> "active", roles |-> roles, legacy |-> legacy, thin |-> thin]

AlwaysInsert(known) == TRUE

\* A disabled row found for the sub is no reason to make another row.
MayInsert(known) == \A k \in known : actors[k].status # "disabled"

\* claim_legacy_actor_by_iaf, with known the legacy row found for the sub (or
\* none), legacy what the profile says of it.
Claim(s, known, roles, legacy, thin) ==
    \/ /\ Exists(s)
       /\ actors[s].status # "disabled"
       /\ actors' = [actors EXCEPT ![s] = Linked(Applied(@), legacy)]
       /\ UNCHANGED <<grants, userMaps, revoked>>
    \/ /\ ~Exists(s)
       /\ \E k \in known : actors[k].status \in CLAIMABLE_STATUSES /\ Rekey(k, s)
    \/ /\ ~Exists(s)
       /\ \A k \in known : actors[k].status \notin CLAIMABLE_STATUSES
       /\ MayInsert(known)
       /\ actors' = [actors EXCEPT ![s] = Fresh(roles, legacy, thin)]
       /\ UNCHANGED <<grants, userMaps, revoked>>

\* What the claim meets and cannot take: it raises and nothing is written.
ClaimRaises(s, known) ==
    \/ Exists(s) /\ actors[s].status = "disabled"
    \/ ~Exists(s) /\ \E k \in known : actors[k].status = "disabled"
    \/ ~Exists(s) /\ \E k \in known :
            actors[k].status \in CLAIMABLE_STATUSES /\ Collides(k, s)

-----------------------------------------------------------------------------
(* Login: actor.projection.sync with the claims of a token.                *)

AuxMatches(s) == {k \in ActorKeys : Exists(k) /\ actors[k].legacy \in Aux[s]}
ClaimableMatches(s) == {k \in AuxMatches(s) : actors[k].status \in CLAIMABLE_STATUSES}

\* _match_legacy_actor_in_session: the one claimable row; else the one row; two
\* rows none of which is claimable are no match.
MatchLegacy(s) ==
    IF ClaimableMatches(s) # {} THEN ClaimableMatches(s)
    ELSE IF Cardinality(AuxMatches(s)) = 1 THEN AuxMatches(s) ELSE {}

\* Two claimable rows raise ActorMatchError.
sync_actor_projection(s, roles) ==
    /\ Unlocked
    /\ Exists(s) \/ Cardinality(ClaimableMatches(s)) <= 1
    /\ Claim(s, MatchLegacy(s), roles, NoUser, TRUE)
    /\ UNCHANGED <<assigning, importer, repairing, identitySpent>>

SignIn(s) == \E roles \in SUBSET Roles : sync_actor_projection(s, roles)

-----------------------------------------------------------------------------
(* Role governance by administrators.                                      *)

\* The mirror read before the change reaches the database (autoflush is off).
MirrorBefore(k, after) ==
    IF Exists(k) THEN [actors EXCEPT ![k].roles = RolesIn(ActivePosts(k))] ELSE actors

\* _refresh_actor_role_codes_in_session, after the flush of the change.
Mirrored(k, after) ==
    IF Exists(k)
    THEN [actors EXCEPT ![k].roles = RolesIn(Held(after, k))]
    ELSE actors

\* _assign_actor_role up to the repository call ...
CheckAssign(k, p) ==
    /\ Unlocked
    /\ Exists(k)
    /\ actors[k].status # "disabled"
    /\ assigning' = [key |-> k, post |-> p]
    /\ EditSpent
    /\ UNCHANGED <<rowVars, importer, repairing>>

\* ... and assign_actor_role, one transaction: the row may have been taken over
\* by another process meanwhile.
assign_actor_role ==
    /\ assigning # Idle
    /\ grants' = [grants EXCEPT ![assigning.key][assigning.post] = "active"]
    /\ actors' = Mirrored(assigning.key, grants')
    /\ revoked' = [revoked EXCEPT ![assigning.key] = @ \ {assigning.post[2]}]
    /\ assigning' = Idle
    /\ UNCHANGED <<userMaps, importer, repairing, identitySpent>>

\* A binding that is not active stays as it is.
revoke_actor_role(k, p) ==
    /\ grants[k][p] = "active"
    /\ grants' = [grants EXCEPT ![k][p] = "disabled"]
    /\ actors' = Mirrored(k, grants')
    /\ revoked' = IF Exists(k) THEN [revoked EXCEPT ![k] =
                                        (@ \union {p[2]}) \ RolesIn(Held(grants', k))]
                                ELSE revoked
    /\ UNCHANGED userMaps

\* governance.actor.role.revoke looks for no row: it may be gone, or disabled.
_revoke_actor_role(k, p) ==
    /\ Unlocked
    /\ revoke_actor_role(k, p)
    /\ EditSpent
    /\ UNCHANGED <<assigning, importer, repairing>>

\* Bindings stay as they are.
set_actor_status(k, status) ==
    /\ Exists(k)
    /\ actors' = [actors EXCEPT ![k].status = status]
    /\ UNCHANGED <<grants, userMaps, revoked>>

\* governance.actor.status.set: a person may be switched on and off only.
_set_actor_status(k, status) ==
    /\ Unlocked
    /\ status \in {"active", "disabled"}
    /\ set_actor_status(k, status)
    /\ EditSpent
    /\ UNCHANGED <<assigning, importer, repairing>>

-----------------------------------------------------------------------------
(* The governance importer.                                                *)

KeyOf(row) == IF row.sub = NoSub THEN row.user ELSE row.sub

\* With the manifests: no sub, disabled, no post left, or a user to bind.
PubStatus(row) ==
    CASE row.sub = NoSub -> "iam_account_missing"
      [] row.sub # NoSub /\ ~row.enabled -> "disabled"
      [] row.sub # NoSub /\ row.enabled /\ row.posts = {} -> "unmatched"
      [] OTHER -> "active"

\* sys_user rows keep the status of the legacy table, disabled users included.
SysStatus(row) ==
    CASE row.sub = NoSub -> "iam_account_missing"
      [] row.sub # NoSub /\ row.posts = {} -> "unmatched"
      [] OTHER -> IF row.enabled THEN "active" ELSE "inactive"

\* Without a manifest pub_user is imported row by row, keyed by user id.
PlainStatus(row) == IF row.enabled THEN "active" ELSE "inactive"

RowStatus(row) ==
    CASE row.table = "pub_user" -> PubStatus(row)
      [] row.table = "sys_user" -> SysStatus(row)
      [] row.table = "pub_user_plain" -> PlainStatus(row)

RowKey(row) == IF row.table = "pub_user_plain" THEN row.user ELSE KeyOf(row)

RowRoles(row) ==
    IF row.table = "pub_user" \/ RowStatus(row) \in CLAIMABLE_STATUSES
    THEN {} ELSE RolesIn(row.posts)

Claims(row) == row.table = "pub_user" /\ RowStatus(row) = "active"

StartImport(row) ==
    /\ importer = Idle
    /\ identitySpent.imports < MaxImports
    /\ importer' = [row |-> row, step |-> "actor"]
    /\ identitySpent' = [identitySpent EXCEPT !.imports = @ + 1]
    /\ UNCHANGED <<rowVars, assigning, repairing>>

\* upsert_actor: overwrites the row, the status an administrator set included.
upsert_actor(row) ==
    /\ actors' = [actors EXCEPT ![RowKey(row)] =
            [status |-> RowStatus(row), roles |-> RowRoles(row), legacy |-> row.user,
             thin |-> FALSE]]
    /\ revoked' = [revoked EXCEPT ![RowKey(row)] = @ \ RowRoles(row)]
    /\ UNCHANGED <<grants, userMaps>>

ImportActor ==
    /\ importer # Idle /\ importer.step = "actor"
    /\ LET row == importer.row
           known == {k \in {row.user} : Exists(k)}
       IN \/ /\ ~Claims(row)
             /\ upsert_actor(row)
             /\ importer' = [importer EXCEPT !.step = "bindings"]
          \/ /\ Claims(row)
             /\ Claim(row.sub, known, RolesIn(row.posts), row.user, FALSE)
             /\ importer' = [importer EXCEPT !.step = "bindings"]
          \/ /\ Claims(row)
             /\ ClaimRaises(row.sub, known)
             /\ importer' = Idle
             /\ UNCHANGED rowVars
    /\ UNCHANGED <<assigning, repairing, identitySpent>>

\* sync_actor_bindings with the posts of the row; every other binding of the
\* key is disabled, those assigned in the product included.
ImportBindings ==
    /\ importer # Idle /\ importer.step = "bindings"
    /\ LET row == importer.row
           k == RowKey(row)
           wanted == IF RowStatus(row) = "active" THEN row.posts ELSE {}
       IN /\ grants' = [grants EXCEPT ![k] = [p \in Posts |->
                 IF p \in wanted THEN "active" ELSE IF @[p] = "none" THEN "none" ELSE "disabled"]]
          /\ revoked' = [revoked EXCEPT ![k] = @ \ RolesIn(wanted)]
    /\ importer' = [importer EXCEPT !.step = "mapping"]
    /\ UNCHANGED <<actors, userMaps, assigning, repairing, identitySpent>>

ImportMapping ==
    /\ importer # Idle /\ importer.step = "mapping"
    /\ userMaps' = [userMaps EXCEPT ![importer.row.user] = @ \union {RowKey(importer.row)}]
    /\ importer' = Idle
    /\ UNCHANGED <<actors, grants, revoked, assigning, repairing, identitySpent>>

-----------------------------------------------------------------------------
(* scripts/repair_actor_identity_duplicates.py: a thin row, made by a login *)
(* before the legacy row could be matched, gives way to that row.          *)

PlanRepair(s, k) ==
    /\ repairing = Idle
    /\ Exists(s) /\ actors[s].thin
    /\ k # s
    /\ {j \in AuxMatches(s) \ {s} : ~actors[j].thin
            /\ actors[j].status \in CLAIMABLE_STATUSES} = {k}
    /\ repairing' = [sub |-> s, ref |-> k, roles |-> actors[s].roles, step |-> "delete"]
    /\ UNCHANGED <<rowVars, assigning, importer, identitySpent>>

\* delete_actor_row refuses a row that is not thin; a row that is gone is no
\* error.
delete_actor_row ==
    /\ repairing # Idle /\ repairing.step = "delete"
    /\ LET s == repairing.sub
       IN \/ /\ Exists(s) /\ ~actors[s].thin
             /\ repairing' = Idle
             /\ UNCHANGED rowVars
          \/ /\ Exists(s) => actors[s].thin
             /\ actors' = [actors EXCEPT ![s] = NoActor]
             /\ revoked' = [revoked EXCEPT ![s] = {}]
             /\ repairing' = [repairing EXCEPT !.step = "claim"]
             /\ UNCHANGED <<grants, userMaps>>
    /\ UNCHANGED <<assigning, importer, identitySpent>>

RepairClaim ==
    /\ repairing # Idle /\ repairing.step = "claim"
    /\ LET s == repairing.sub
           known == {k \in {repairing.ref} : Exists(k)}
       IN \/ Claim(s, known, repairing.roles, NoUser, TRUE)
          \/ ClaimRaises(s, known) /\ UNCHANGED rowVars
    /\ repairing' = Idle
    /\ UNCHANGED <<assigning, importer, identitySpent>>

\* The importer or the script ends where it is; what it committed stays.
IdentityProcessDies ==
    /\ identitySpent.crashes < MaxIdentityCrashes
    /\ \/ importer # Idle /\ importer' = Idle /\ UNCHANGED repairing
       \/ repairing # Idle /\ repairing' = Idle /\ UNCHANGED importer
    /\ identitySpent' = [identitySpent EXCEPT !.crashes = @ + 1]
    /\ UNCHANGED <<rowVars, assigning>>

IdentityNext ==
    \/ \E s \in Subs : SignIn(s)
    \/ \E k \in ActorKeys, p \in Posts : CheckAssign(k, p) \/ _revoke_actor_role(k, p)
    \/ assign_actor_role
    \/ \E k \in ActorKeys, status \in {"active", "disabled"} : _set_actor_status(k, status)
    \/ \E row \in ActorRows : StartImport(row)
    \/ ImportActor \/ ImportBindings \/ ImportMapping
    \/ \E s \in Subs, k \in ActorKeys : PlanRepair(s, k)
    \/ delete_actor_row \/ RepairClaim
    \/ IdentityProcessDies

IdentitySpec == IdentityInit /\ [][IdentityNext]_identityVars

-----------------------------------------------------------------------------
(* What a session is built from: _actor_snapshot_from_projection and       *)
(* contexts_from_bindings; without an active binding the role codes count. *)

ServedRoles(k) ==
    IF ActivePosts(k) # {} THEN RolesIn(ActivePosts(k)) ELSE actors[k].roles

-----------------------------------------------------------------------------

\* "A disabled identity must never be re-activated by re-login": a login
\* touches no disabled row, and when the only row known of the person is a
\* disabled one it does not make a second, active row either.
LoginSparesDisabled ==
    [][actors' # actors => \A s \in Subs : SignIn(s) =>
        /\ \A k \in ActorKeys : actors[k].status = "disabled" => actors'[k] = actors[k]
        /\ (\E k \in ActorKeys : AuxMatches(s) = {k} /\ actors[k].status = "disabled")
            => Exists(s) /\ actors[s].status # "disabled"]_identityVars

\* A role somebody revoked, in the last organisation it was held for, is not
\* served again until it is assigned or imported again: neither a later login, a
\* take-over of the row nor the role codes a session falls back to bring it back.
RevokedNotServed ==
    \A k \in ActorKeys : Exists(k) => revoked[k] \intersect ServedRoles(k) = {}

\* Whoever takes a row over takes all of it: a legacy key that ends leaves no
\* active binding and no mapping of its user behind.
NothingLeftBehind ==
    [][\A k \in ActorKeys \ Subs :
        Exists(k) /\ ~Exists(k)' =>
            /\ ActivePosts(k)' = {}
            /\ \A u \in Users : k \notin userMaps'[u]]_identityVars

\* No step of a login, an import or a repair brings a disabled row back or leaves
\* what belonged to a row that is gone (claim, rekey, delete).
RowsTakenOverWhole == LoginSparesDisabled /\ NothingLeftBehind
=============================================================================
