------------------------------ MODULE Sessions ------------------------------
(***************************************************************************)
(* Browser sessions of the REST entry (zw_brain/entry/rest/server.py), the *)
(* stores that keep them (zw_brain/shared/auth_session.py) and the live    *)
(* roles a request acts under (session_context.py, brain.py,               *)
(* governance_projection.py).                                              *)
(*                                                                         *)
(* A request is a thread: it copies the session out of the store, may      *)
(* refresh its tokens at the identity provider, asks the provider whether  *)
(* the access token is healthy, re-derives the actor snapshot, writes it   *)
(* back and runs the skill.  Every call out and every store access is a    *)
(* step of its own.  The in-process store updates under a lock; the Redis  *)
(* store reads, replaces and saves, so another request can come between.   *)
(*                                                                         *)
(* One actor, whose status and bindings an administrator changes meanwhile.*)
(* The provider is external: it accepts one authorization code once, and a *)
(* refresh token until it hands out the next.  Left out: the development   *)
(* bypass, bearer requests, CSRF refusals, JWKS rotation, wording.         *)
(***************************************************************************)
EXTENDS Integers

CONSTANTS
    Sids,            \* session ids the token generator may draw
    Logins,          \* OAuth states
    Roles,           \* product roles the actor may be bound to
    Threads,         \* requests in flight at once
    None,            \* no session, no job
    AccessLife,      \* expires_in
    RefreshLife,     \* refresh_expires_in
    Threshold,       \* SESSION_REFRESH_THRESHOLD_SECONDS
    StateLife,       \* ttl_seconds of the state store
    MaxNow,          \* bound on the clock
    MaxTokens,       \* bound on refresh tokens of a session
    MaxFaults,       \* bound on calls to the provider that fail
    MaxChanges       \* bound on administrators' changes

ASSUME LifetimesAssumption ==
    /\ {AccessLife, RefreshLife, StateLife, MaxTokens} \subseteq Nat \ {0}
    /\ {Threshold, MaxNow, MaxFaults, MaxChanges} \subseteq Nat

Times == 0 .. MaxNow + AccessLife + RefreshLife

\* AuthSession: the refresh token (its number), the two expiries and the role
\* codes of the login snapshot.
Records == [token : 1 .. MaxTokens, expires_at : Times, refresh_expires_at : Times,
            role_codes : SUBSET Roles]

Steps == {"exchange", "create", "refresh", "drop", "tokens", "save_tokens", "health",
          "enrich", "snapshot", "save_snapshot", "served"}

\* held is the request's copy of the session, grant the token a refresh
\* returned, write what the Redis store is about to save; forced marks the
\* refresh after a 401.  The last three are history: the roles bound and
\* whether the actor was enabled at some moment of the request, and whether
\* another request stored new tokens meanwhile.
Jobs == [step : Steps, op : {"call", "refresh", "login"}, sid : Sids \union {None},
         login : Logins \union {None}, held : Records \union {None},
         grant : 0 .. MaxTokens, write : Records \union {None}, forced : BOOLEAN,
         role : Roles \union {None}, fallback : BOOLEAN,
         bound : SUBSET Roles, enabled : BOOLEAN, overtaken : BOOLEAN]

ASSUME NoneAssumption ==
    None \notin Sids \union Logins \union Roles \union Jobs \union Records

VARIABLES
    backend,         \* which store create_auth_session_store chose
    rotates,         \* whether the provider rotates refresh tokens
    sessions,        \* the store
    drawn,           \* session ids drawn so far
    states,          \* issued_at of the OAuth states in the state store
    burned,          \* codes the provider has accepted
    token,           \* the refresh token the provider honours, per session
    actorStatus,     \* actor_projection.status
    bindings,        \* active actor_org_role_binding rows
    job,             \* the request of each thread
    now, faults, changes

sessionVars == <<backend, rotates, sessions, drawn, states, burned, token, actorStatus, bindings,
                 job, now, faults, changes>>

deployment == <<backend, rotates>>
store == <<sessions, drawn>>
login == <<states, burned>>
actor == <<actorStatus, bindings, changes>>

SessionsTypeOK ==
    /\ backend \in {"memory", "redis"}
    /\ rotates \in BOOLEAN
    /\ sessions \in [Sids -> Records \union {None}]
    /\ drawn \subseteq Sids
    /\ states \in [Logins -> 0 .. MaxNow \union {None}]
    /\ burned \subseteq Logins
    /\ token \in [Sids -> 0 .. MaxTokens]
    /\ actorStatus \in {"active", "disabled"}
    /\ bindings \subseteq Roles
    /\ job \in [Threads -> Jobs \union {None}]
    /\ now \in 0 .. MaxNow
    /\ faults \in 0 .. MaxFaults
    /\ changes \in 0 .. MaxChanges

SessionsInit ==
    /\ backend \in {"memory", "redis"}
    /\ rotates \in BOOLEAN
    /\ sessions = [s \in Sids |-> None]
    /\ drawn = {}
    /\ states = [l \in Logins |-> None]
    /\ burned = {}
    /\ token = [s \in Sids |-> 0]
    /\ actorStatus = "active"
    /\ bindings = Roles
    /\ job = [t \in Threads |-> None]
    /\ now = 0
    /\ faults = 0
    /\ changes = 0

\* IafOidcStateStore.get: an expired state is dropped and refused.
Unexpired(l) == states[l] # None /\ now - states[l] <= StateLife

\* get: a session past its refresh expiry is dropped and not returned.
Live(s) == sessions[s] # None /\ sessions[s].refresh_expires_at > now

should_refresh(session) == session.expires_at - now < Threshold

NewJob(op) ==
    [step |-> "health", op |-> op, sid |-> None, login |-> None, held |-> None,
     grant |-> 0, write |-> None, forced |-> FALSE, role |-> None, fallback |-> FALSE,
     bound |-> IF op = "call" THEN bindings ELSE {},
     enabled |-> op = "call" /\ actorStatus = "active", overtaken |-> FALSE]

Answer(t) == job' = [job EXCEPT ![t] = None]

Goto(t, step) == job' = [job EXCEPT ![t].step = step]

-----------------------------------------------------------------------------
(* The identity provider (external).                                       *)

\* A call that times out or answers neither 2xx nor 401.
Fault == faults < MaxFaults /\ faults' = faults + 1

\* The provider honours the newest refresh token it gave out; it either hands
\* out a new one at every use or keeps the first.
Honours(s, n) == token[s] = n

Rotated(s) == IF rotates THEN token[s] + 1 ELSE token[s]

-----------------------------------------------------------------------------
(* Logging in.                                                             *)

\* _handle_iaf_login.
Issue(l) ==
    /\ states[l] = None /\ l \notin burned
    /\ states' = [states EXCEPT ![l] = now]
    /\ UNCHANGED <<deployment, store, burned, token, actor, job, now, faults>>

\* _handle_iaf_token looks the state up and leaves it: a transient failure must
\* not burn it.
PeekState(l, t) ==
    /\ job' = [job EXCEPT ![t] = [NewJob("login") EXCEPT !.step = "exchange", !.login = l]]
    /\ UNCHANGED states

BeginLogin(t, l) ==
    /\ job[t] = None
    /\ IF Unexpired(l) THEN PeekState(l, t)
       ELSE /\ states[l] # None
            /\ states' = [states EXCEPT ![l] = None]
            /\ UNCHANGED job
    /\ UNCHANGED <<deployment, store, burned, token, actor, now, faults>>

\* exchange_authorization_code.  Once the provider accepted the code the state
\* is discarded; refused or failed, the request ends and the state stays.
Exchange(t) ==
    /\ job[t] # None /\ job[t].step = "exchange"
    /\ LET l == job[t].login IN
       \/ /\ l \notin burned
          /\ burned' = burned \union {l}
          /\ states' = [states EXCEPT ![l] = None]
          /\ Goto(t, "create")
          /\ UNCHANGED faults
       \/ /\ l \in burned
          /\ Answer(t)
          /\ UNCHANGED <<login, faults>>
       \/ /\ Fault
          /\ Answer(t)
          /\ UNCHANGED login
    /\ UNCHANGED <<deployment, store, token, actor, now>>

\* _sync_actor_from_claims refuses a disabled actor; otherwise create stores a
\* session under a fresh id, with the role codes of the moment.
create(t) ==
    /\ job[t] # None /\ job[t].step = "create"
    /\ Answer(t)
    /\ \/ /\ actorStatus = "active"
          /\ \E s \in Sids \ drawn :
                /\ drawn' = drawn \union {s}
                /\ token' = [token EXCEPT ![s] = 1]
                /\ sessions' = [sessions EXCEPT ![s] =
                       [token |-> 1, expires_at |-> now + AccessLife,
                        refresh_expires_at |-> now + RefreshLife,
                        role_codes |-> bindings]]
       \/ /\ actorStatus = "disabled" \/ Sids = drawn
          /\ UNCHANGED <<store, token>>
    /\ UNCHANGED <<deployment, login, actor, now, faults>>

-----------------------------------------------------------------------------
(* Requests with the session cookie.                                       *)

\* _with_authenticated_request and _handle_iaf_refresh start with get, which
\* also drops an expired session; without one the answer is 401.
BeginRequest(t, op, s) ==
    /\ job[t] = None /\ sessions[s] # None
    /\ IF Live(s)
       THEN /\ job' = [job EXCEPT ![t] = [NewJob(op) EXCEPT
                  !.sid = s, !.held = sessions[s],
                  !.step = IF op = "refresh" \/ should_refresh(sessions[s])
                           THEN "refresh" ELSE "health"]]
            /\ UNCHANGED store
       ELSE /\ sessions' = [sessions EXCEPT ![s] = None]
            /\ UNCHANGED <<drawn, job>>
    /\ UNCHANGED <<deployment, login, token, actor, now, faults>>

\* What follows a refresh that brought nothing: the first one of a skill call
\* is forgiven and the old access token tried; otherwise the request fails.
AfterFailedRefresh(j) ==
    IF j.op = "call" /\ ~j.forced THEN [j EXCEPT !.step = "health"] ELSE None

\* The provider's answer to refresh_access_token: new tokens; HTTP 401 when it
\* no longer honours ours; or some other failure, after which it may or may
\* not have rotated the token.
Refresh(t) ==
    /\ job[t] # None /\ job[t].step = "refresh"
    /\ LET j == job[t]
           s == j.sid
       IN
       \/ /\ Honours(s, j.held.token)
          /\ Rotated(s) <= MaxTokens
          /\ token' = [token EXCEPT ![s] = Rotated(s)]
          /\ \/ /\ job' = [job EXCEPT ![t].step = "tokens", ![t].grant = Rotated(s)]
                /\ UNCHANGED faults
             \/ /\ Fault
                /\ job' = [job EXCEPT ![t] = AfterFailedRefresh(j)]
       \/ /\ ~Honours(s, j.held.token)
          /\ Goto(t, "drop")
          /\ UNCHANGED <<token, faults>>
       \/ /\ Fault
          /\ job' = [job EXCEPT ![t] = AfterFailedRefresh(j)]
          /\ UNCHANGED token
    /\ UNCHANGED <<deployment, store, login, actor, now>>

\* HTTP 401 from the refresh: the session is deleted.
Drop(t) ==
    /\ job[t] # None /\ job[t].step = "drop"
    /\ sessions' = [sessions EXCEPT ![job[t].sid] = None]
    /\ job' = [job EXCEPT ![t] = AfterFailedRefresh(job[t])]
    /\ UNCHANGED <<deployment, drawn, login, token, actor, now, faults>>

\* The session update_tokens makes of the stored one and the new tokens.
Renewed(session, n) ==
    [session EXCEPT !.token = n, !.expires_at = now + AccessLife,
                    !.refresh_expires_at = now + RefreshLife]

\* The session a request with new tokens goes on with, and the note every
\* other request on the session gets that its copy was overtaken.
Continue(t, session) ==
    job' = [u \in Threads |->
        IF u = t
        THEN IF job[t].op = "refresh" THEN None
             ELSE [job[t] EXCEPT !.step = "health", !.held = session, !.write = None,
                                   !.grant = 0, !.overtaken = FALSE]
        ELSE IF job[u] # None /\ job[u].sid = job[t].sid
        THEN [job[u] EXCEPT !.overtaken = TRUE] ELSE job[u]]

\* update_tokens: in process, one step under the lock; with Redis, the read.
update_tokens(t) ==
    /\ job[t] # None /\ job[t].step = "tokens"
    /\ LET s == job[t].sid IN
       \/ /\ ~Live(s)
          /\ sessions' = [sessions EXCEPT ![s] = None]
          /\ job' = [job EXCEPT ![t] = AfterFailedRefresh(job[t])]
       \/ /\ Live(s) /\ backend = "memory"
          /\ sessions' = [sessions EXCEPT ![s] = Renewed(sessions[s], job[t].grant)]
          /\ Continue(t, sessions'[s])
       \/ /\ Live(s) /\ backend = "redis"
          /\ job' = [job EXCEPT ![t].step = "save_tokens",
                                ![t].write = Renewed(sessions[s], job[t].grant)]
          /\ UNCHANGED sessions
    /\ UNCHANGED <<deployment, drawn, login, token, actor, now, faults>>

\* validate_access_token_health, then the signature: healthy until it expires.
\* A 401 is answered by one forced refresh; any other failure ends the request.
Health(t) ==
    /\ job[t] # None /\ job[t].step = "health"
    /\ LET j == job[t] IN
       \/ /\ now < j.held.expires_at
          /\ Goto(t, "enrich")
          /\ UNCHANGED faults
       \/ /\ now >= j.held.expires_at
          /\ job' = [job EXCEPT ![t] =
                 IF j.forced THEN None ELSE [j EXCEPT !.step = "refresh", !.forced = TRUE]]
          /\ UNCHANGED faults
       \/ /\ Fault
          /\ Answer(t)
    /\ UNCHANGED <<deployment, store, login, token, actor, now>>

\* The login snapshot, never enriched again.
LoginRoles(session) == session.role_codes

\* enrich_actor_snapshot_for_session and apply_runtime_context: the actor's
\* status and active bindings now; without a binding the session's own role
\* codes.  resolve_trusted_role then picks one of them, or refuses.
AvailableRoles(session) == IF bindings # {} THEN bindings ELSE session.role_codes

Enrich(t) ==
    /\ job[t] # None /\ job[t].step = "enrich"
    /\ LET roles == IF actorStatus = "disabled" THEN {} ELSE AvailableRoles(job[t].held) IN
       \E r \in IF roles = {} THEN {None} ELSE roles :
          job' = [job EXCEPT ![t].step = "snapshot", ![t].role = r,
                             ![t].fallback = (bindings = {})]
    /\ UNCHANGED <<deployment, store, login, token, actor, now, faults>>

\* The snapshot replaces that of the session as stored now.
SnapshotOf(t) == sessions[job[t].sid]

Resolve(t) ==
    IF job[t].role = None THEN Answer(t)
    ELSE job' = [job EXCEPT ![t].step = "served", ![t].write = None]

\* Writing the copy back without looking the session up.
WriteBackCopy(t) ==
    /\ job[t] # None /\ job[t].step = "snapshot"
    /\ sessions' = [sessions EXCEPT ![job[t].sid] = job[t].held]
    /\ Resolve(t)
    /\ UNCHANGED <<deployment, drawn, login, token, actor, now, faults>>

\* update_actor_snapshot with the snapshot re-derived; the request goes on
\* whether or not the session is still there.
update_actor_snapshot(t) ==
    /\ job[t] # None /\ job[t].step = "snapshot"
    /\ LET s == job[t].sid IN
       \/ /\ ~Live(s)
          /\ sessions' = [sessions EXCEPT ![s] = None]
          /\ Resolve(t)
       \/ /\ Live(s) /\ backend = "memory"
          /\ sessions' = [sessions EXCEPT ![s] = SnapshotOf(t)]
          /\ Resolve(t)
       \/ /\ Live(s) /\ backend = "redis"
          /\ job' = [job EXCEPT ![t].step = "save_snapshot", ![t].write = SnapshotOf(t)]
          /\ UNCHANGED sessions
    /\ UNCHANGED <<deployment, drawn, login, token, actor, now, faults>>

\* RedisAuthSessionStore._save, the second half of either update.
Save(t) ==
    /\ job[t] # None /\ job[t].step \in {"save_tokens", "save_snapshot"}
    /\ sessions' = [sessions EXCEPT ![job[t].sid] = job[t].write]
    /\ IF job[t].step = "save_tokens" THEN Continue(t, job[t].write) ELSE Resolve(t)
    /\ UNCHANGED <<deployment, drawn, login, token, actor, now, faults>>

\* The skill ran; the answer goes out.
Served(t) ==
    /\ job[t] # None /\ job[t].step = "served"
    /\ Answer(t)
    /\ UNCHANGED <<deployment, store, login, token, actor, now, faults>>

\* _handle_iaf_logout.
Logout(s) ==
    /\ sessions[s] # None
    /\ sessions' = [sessions EXCEPT ![s] = None]
    /\ UNCHANGED <<deployment, drawn, login, token, actor, job, now, faults>>

-----------------------------------------------------------------------------
(* The administrator and the clock.                                        *)

\* The history of the requests under way takes in what just became true.
Witness(roles, enabled) ==
    job' = [t \in Threads |-> IF job[t] = None \/ job[t].op # "call" THEN job[t] ELSE
        [job[t] EXCEPT !.bound = @ \union roles, !.enabled = @ \/ enabled]]

Change == changes < MaxChanges /\ changes' = changes + 1

set_actor_status(value) ==
    /\ Change
    /\ actorStatus # value
    /\ actorStatus' = value
    /\ Witness({}, value = "active")
    /\ UNCHANGED <<deployment, store, login, token, bindings, now, faults>>

assign_actor_role(r) ==
    /\ Change
    /\ r \notin bindings
    /\ bindings' = bindings \union {r}
    /\ Witness({r}, FALSE)
    /\ UNCHANGED <<deployment, store, login, token, actorStatus, now, faults>>

revoke_actor_role(r) ==
    /\ Change
    /\ r \in bindings
    /\ bindings' = bindings \ {r}
    /\ UNCHANGED <<deployment, store, login, token, actorStatus, job, now, faults>>

Tick ==
    /\ now < MaxNow
    /\ now' = now + 1
    /\ UNCHANGED <<deployment, store, login, token, actor, job, faults>>

Request(t) ==
    \/ Exchange(t) \/ create(t) \/ Refresh(t) \/ Drop(t) \/ update_tokens(t)
    \/ Health(t) \/ Enrich(t) \/ update_actor_snapshot(t) \/ Save(t) \/ Served(t)

SessionsNext ==
    \/ \E l \in Logins : Issue(l)
    \/ \E t \in Threads, l \in Logins : BeginLogin(t, l)
    \/ \E t \in Threads, op \in {"call", "refresh"}, s \in Sids : BeginRequest(t, op, s)
    \/ \E t \in Threads : Request(t)
    \/ \E s \in Sids : Logout(s)
    \/ \E value \in {"active", "disabled"} : set_actor_status(value)
    \/ \E r \in Roles : assign_actor_role(r) \/ revoke_actor_role(r)
    \/ Tick

SessionsSpec == SessionsInit /\ [][SessionsNext]_sessionVars

-----------------------------------------------------------------------------
(* A skill runs under a role only while the actor was enabled at some       *)
(* moment of the request, and, as long as the actor had a binding when the  *)
(* snapshot was derived, under a role bound at some moment of the request:  *)
(* _trusted_skill_payload re-derives it per call, however old the session.  *)
ServedAsHeld ==
    \A t \in Threads :
        job[t] # None /\ job[t].step = "served" =>
            job[t].enabled /\ (job[t].fallback \/ job[t].role \in job[t].bound)

(* With the in-process store a session that was logged out, dropped or      *)
(* expired never comes back, whatever requests still hold a copy of it:     *)
(* both updates look the stored session up again, under the lock.           *)
EndedStaysEnded ==
    [][backend = "memory" =>
       \A s \in Sids : s \in drawn /\ sessions[s] = None => sessions'[s] = None]_sessionVars

(* With the in-process store the refresh token of a session never goes back *)
(* to an earlier one, although requests that hold older copies of the       *)
(* session keep writing to it.                                              *)
TokensGoForward ==
    [][backend = "memory" =>
       \A s \in Sids : sessions[s] # None /\ sessions'[s] # None =>
            sessions[s].token <= sessions'[s].token]_sessionVars

\* Another request refreshed the session after t took its copy: its new tokens
\* are stored, or it is about to store them.
LostRace(t) ==
    \/ job[t].overtaken
    \/ \E u \in Threads \ {t} :
          /\ job[u] # None /\ job[u].sid = job[t].sid
          /\ job[u].step = "tokens" /\ job[u].grant > job[t].held.token

(* A request whose refresh token is refused deletes the session, also when   *)
(* another request has just renewed it: the loser of a race for the refresh  *)
(* token logs both out.  With the in-process store that is the one way       *)
(* besides expiry to lose a live session without a logout, unless the        *)
(* provider's answer with a new token was lost; a failed call alone costs    *)
(* nobody the session.                                                       *)
RefusedForCause ==
    [][backend = "memory" => \A t \in Threads : Drop(t) /\ Live(job[t].sid) =>
         \/ LostRace(t)
         \/ faults > 0 /\ ~Honours(job[t].sid, sessions[job[t].sid].token)]_sessionVars

(* A state whose code the provider has not accepted stays usable until it   *)
(* expires, however many exchanges failed: the browser can retry.           *)
StateOutlivesFailures ==
    [][\A l \in Logins : states[l] # None /\ states'[l] = None /\ l \notin burned' =>
         ~Unexpired(l)]_sessionVars

\* What the store keeps of a session only goes forward: an ended session is not
\* written back, tokens are not put back, a live one is deleted for a refused token
\* only after a lost race or a lost answer, and a login state outlives a failed
\* exchange (the stores of auth_session.py, the callback of the REST entry).
SessionsGoForward ==
    EndedStaysEnded /\ TokensGoForward /\ RefusedForCause /\ StateOutlivesFailures
=============================================================================
