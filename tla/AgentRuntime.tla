---------------------------- MODULE AgentRuntime ----------------------------
(***************************************************************************)
(* Agent tasks: the platform operator switches agents on and off and says  *)
(* which roles may use them, a caller starts a task in the AgentRuntime    *)
(* service, waits for it or polls it, and answers its questions            *)
(* (command/agent_runtime_bridge.py, shared/agent_runtime/http_client.py,  *)
(* the /api/agent-runtime handlers of entry/rest/server.py).               *)
(*                                                                         *)
(* Which roles the policy lets use an agent follows from the permissions   *)
(* of SkillAccess.  The service is external: it answers within the HTTP    *)
(* timeout or not at all, and tasks go on whoever waits.  Time passes only *)
(* in HTTP calls and in the pauses between two polls.                      *)
(***************************************************************************)
EXTENDS SkillAccess

CONSTANTS
    Agents,
    AgentSkills,       \* skills an agent's capability_tools bind
    AuthorizationMode, \* per agent: "all_tools" or "any_read_tool"
    RoleSystem,        \* ROLE_SYSTEM
    Jobs,              \* requests under way at once
    TaskIds,           \* task ids the service may hand out
    NoState, NoTask, NoJob,
    HTTP_TIMEOUT,      \* _HTTP_TIMEOUT_SECONDS
    BLOCK_TIMEOUT,     \* _TASK_BLOCK_TIMEOUT_SECONDS
    POLL_INTERVAL,     \* _POLL_INTERVAL_SECONDS
    MaxElapsed         \* bound on the age of a request

TERMINAL == {"completed", "failed", "cancelled", "waiting_input"}
Final == TERMINAL \ {"waiting_input"}
HttpSteps == {"session", "start", "get", "resume"}

TaskRows == [agent : Agents, role : ActorRoles,
             status : TERMINAL \union {"pending", "running", "forgotten"}, startable : BOOLEAN]

ASSUME RuntimeAssumption ==
    /\ AgentSkills \in [Agents -> SUBSET Skills]
    /\ AuthorizationMode \in [Agents -> {"all_tools", "any_read_tool"}]
    /\ {HTTP_TIMEOUT, BLOCK_TIMEOUT, POLL_INTERVAL} \subseteq Nat \ {0}
    /\ NoState \notin [enabled : BOOLEAN, roles : SUBSET ActorRoles]
    /\ NoTask \notin TaskRows

VARIABLES
    agentState,        \* agent_runtime_agent_state rows
    task,              \* the service's tasks
    job                \* requests to /api/agent-runtime/tasks

agentVars == <<agentState, task, job>>

AgentInit ==
    /\ agentState = [a \in Agents |-> NoState]
    /\ task = [t \in TaskIds |-> NoTask]
    /\ job = [j \in Jobs |-> NoJob]

ASSIGNABLE == ActorRoles \ {RoleSystem}

\* _roles_that_can_use.
PolicyRoles(a) ==
    {r \in ActorRoles :
        LET usable == {s \in AgentSkills[a] : PolicyAllows(s, r)}
        IN /\ usable # {}
           /\ AuthorizationMode[a] = "all_tools" => usable = AgentSkills[a]}

\* list_builtin_agents: without a row the agent is on for every role its
\* policy allows; ROLE_SYSTEM is never assigned.
Enabled(a) == agentState[a] = NoState \/ agentState[a].enabled
AllowedRoles(a) ==
    IF agentState[a] = NoState THEN PolicyRoles(a) \cap ASSIGNABLE ELSE agentState[a].roles

\* Leaving the operator's switch to the gallery.
IgnoreSwitch(a, r) == AgentSkills[a] # {} /\ (r = RoleSystem \/ r \in AllowedRoles(a))

\* _verify_agent_and_policy: the platform operator may use any agent that is on.
MayStart(a, r) ==
    /\ AgentSkills[a] # {}
    /\ Enabled(a)
    /\ r = RoleSystem \/ r \in AllowedRoles(a)

\* The same, to keep the history of a request.
WasStartable(a, r) ==
    /\ AgentSkills[a] # {} /\ Enabled(a)
    /\ r \in AllowedRoles(a) \union {RoleSystem}

\* The row of an agent, made when it is switched for the first time.
set_state(a, enabled, roles) ==
    agentState' = [agentState EXCEPT ![a] = [enabled |-> enabled, roles |-> roles]]

\* Only assignable roles, in the order of the list; requests take note.
update_agent_state(a, enabled, roles) ==
    /\ roles \subseteq ASSIGNABLE
    /\ set_state(a, enabled, roles)
    /\ job' = [j \in Jobs |->
           IF job[j] = NoJob \/ job[j].agent # a THEN job[j]
           ELSE [job[j] EXCEPT !.startable =
                    @ \/ (enabled /\ job[j].role \in roles \union {RoleSystem})]]
    /\ UNCHANGED task

\* POST /api/agent-runtime/agents/{id}/state, by the platform operator: the
\* roles given or, if there are none, those of the policy.
SwitchAgent(a, r) ==
    /\ r = RoleSystem
    /\ \E enabled \in BOOLEAN :
          \/ \E roles \in SUBSET ASSIGNABLE : update_agent_state(a, enabled, roles)
          \/ update_agent_state(a, enabled, PolicyRoles(a) \cap ASSIGNABLE)

-----------------------------------------------------------------------------
(* Requests.                                                               *)

\* waited counts from the start of a call or pause, elapsed from that of the
\* request, left down to the deadline of a blocking one.
NewAgentJob(op, a, r, t) ==
    [op |-> op, agent |-> a, role |-> r, task |-> t, step |-> "verify", status |-> "pending",
     answer |-> "none", waited |-> 0, elapsed |-> 0, left |-> 0,
     startable |-> WasStartable(a, r)]

\* POST /api/agent-runtime/tasks, blocking or not.
StartTask(j, op, a, r) ==
    /\ job[j] = NoJob
    /\ op \in {"block", "background"}
    /\ job' = [job EXCEPT ![j] = NewAgentJob(op, a, r, NoTask)]
    /\ UNCHANGED <<agentState, task>>

\* GET .../tasks/{id} and POST .../tasks/{id}/resume: neither looks at the
\* agent's state again.
AskForTask(j, op, t) ==
    /\ job[j] = NoJob
    /\ task[t] # NoTask
    /\ op \in {"poll", "resume"}
    /\ job' = [job EXCEPT ![j] =
           [NewAgentJob(op, task[t].agent, task[t].role, t) EXCEPT
               !.step = IF op = "poll" THEN "get" ELSE "resume"]]
    /\ UNCHANGED <<agentState, task>>

Reply(j, answer) ==
    job' = [job EXCEPT ![j].step = "answered", ![j].answer = answer, ![j].waited = 0,
                       ![j].elapsed = 0, ![j].left = 0]
Call(j, step) == job' = [job EXCEPT ![j].step = step, ![j].waited = 0]

VerifyAgent(j) ==
    /\ job[j] # NoJob /\ job[j].step = "verify"
    /\ IF MayStart(job[j].agent, job[j].role) THEN Call(j, "session") ELSE Reply(j, "refused")
    /\ UNCHANGED <<agentState, task>>

\* create_session.
CreateSession(j) ==
    /\ job[j] # NoJob /\ job[j].step = "session"
    /\ Call(j, "start")
    /\ UNCHANGED <<agentState, task>>

\* start_task: a request in background answers at once, a blocking one sets
\* its deadline and waits.  The service may also start the task and the
\* answer be lost.
StartInService(j) ==
    /\ job[j] # NoJob /\ job[j].step = "start"
    /\ \E t \in TaskIds :
          /\ task[t] = NoTask
          /\ task' = [task EXCEPT ![t] = [agent |-> job[j].agent, role |-> job[j].role,
                                          status |-> "pending", startable |-> job[j].startable]]
          /\ \/ job' = [job EXCEPT ![j].task = t,
                     ![j].left = IF job[j].op = "block" THEN BLOCK_TIMEOUT ELSE 0,
                     ![j].waited = 0,
                     ![j].step = IF job[j].op = "block" THEN "check" ELSE "answered",
                     ![j].answer = IF job[j].op = "block" THEN "none" ELSE "pending"]
             \/ /\ job[j].waited = HTTP_TIMEOUT
                /\ Reply(j, "error")
    /\ UNCHANGED agentState

\* _map_status, and the timeout of the blocking wait beside it.
MapStatus(status) == IF status = "waiting_input" THEN "waiting" ELSE status

\* The loop of run_agent_task_http: done, out of time, or another pause.
CheckDeadline(j) ==
    /\ job[j] # NoJob /\ job[j].step = "check"
    /\ \/ /\ job[j].status \in TERMINAL
          /\ Reply(j, MapStatus(job[j].status))
       \/ /\ job[j].status \notin TERMINAL /\ job[j].left = 0
          /\ Reply(j, MapStatus("timeout"))
       \/ /\ job[j].status \notin TERMINAL /\ job[j].left > 0
          /\ Call(j, "sleep")
    /\ UNCHANGED <<agentState, task>>

AfterPause(j) == Call(j, "get")

PauseEnds(j) ==
    /\ job[j] # NoJob /\ job[j].step = "sleep"
    /\ job[j].waited = POLL_INTERVAL
    /\ AfterPause(j)
    /\ UNCHANGED <<agentState, task>>

\* get_task: the status of the moment; a task the service forgot is a 404.
GetTask(j) ==
    /\ job[j] # NoJob /\ job[j].step = "get"
    /\ LET status == task[job[j].task].status IN
       \/ /\ status # "forgotten" /\ job[j].op = "block"
          /\ job' = [job EXCEPT ![j].step = "check", ![j].status = status]
       \/ /\ status # "forgotten" /\ job[j].op = "poll"
          /\ Reply(j, MapStatus(status))
       \/ /\ status = "forgotten"
          /\ Reply(j, "not_found")
    /\ UNCHANGED <<agentState, task>>

\* resume_task; the service continues a waiting task and refuses the others.
ResumeTask(j) ==
    /\ job[j] # NoJob /\ job[j].step = "resume"
    /\ LET t == job[j].task IN
       IF task[t].status = "waiting_input"
       THEN /\ task' = [task EXCEPT ![t].status = "running"]
            /\ Reply(j, "resumed")
       ELSE /\ Reply(j, IF task[t].status = "forgotten" THEN "not_found" ELSE "error")
            /\ UNCHANGED task
    /\ UNCHANGED agentState

\* An HTTP call that was not answered in time, or refused at once.
HttpFails(j) ==
    /\ job[j] # NoJob /\ job[j].step \in HttpSteps
    /\ Reply(j, "error")
    /\ UNCHANGED <<agentState, task>>

EndJob(j) ==
    /\ job[j] # NoJob /\ job[j].step = "answered"
    /\ job' = [job EXCEPT ![j] = NoJob]
    /\ UNCHANGED <<agentState, task>>

-----------------------------------------------------------------------------
(* The service (external) and the clock.                                   *)

AdvanceTask(t) ==
    /\ task[t] # NoTask
    /\ \/ /\ task[t].status = "pending"
          /\ task' = [task EXCEPT ![t].status = "running"]
       \/ /\ task[t].status = "running"
          /\ \E status \in TERMINAL : task' = [task EXCEPT ![t].status = status]
       \/ /\ task[t].status # "forgotten"
          /\ task' = [task EXCEPT ![t].status = "forgotten"]
    /\ UNCHANGED <<agentState, job>>

\* Time passes only while every request waits for something.
AgentTick ==
    /\ \A j \in Jobs : job[j] # NoJob =>
          \/ job[j].step \in HttpSteps /\ job[j].waited < HTTP_TIMEOUT
          \/ job[j].step = "sleep" /\ job[j].waited < POLL_INTERVAL
    /\ job' = [j \in Jobs |-> IF job[j] = NoJob THEN NoJob ELSE
           [job[j] EXCEPT !.waited = @ + 1, !.left = IF @ = 0 THEN 0 ELSE @ - 1,
                          !.elapsed = IF @ = MaxElapsed THEN @ ELSE @ + 1]]
    /\ UNCHANGED <<agentState, task>>

AgentNext ==
    \/ \E a \in Agents, r \in ActorRoles : SwitchAgent(a, r)
    \/ \E j \in Jobs, a \in Agents, r \in ActorRoles, op \in {"block", "background"} :
          StartTask(j, op, a, r)
    \/ \E j \in Jobs, t \in TaskIds, op \in {"poll", "resume"} : AskForTask(j, op, t)
    \/ \E j \in Jobs :
          \/ VerifyAgent(j) \/ CreateSession(j) \/ StartInService(j) \/ CheckDeadline(j)
          \/ PauseEnds(j) \/ GetTask(j) \/ ResumeTask(j) \/ HttpFails(j) \/ EndJob(j)
    \/ \E t \in TaskIds : AdvanceTask(t)
    \/ AgentTick

AgentSpec == AgentInit /\ [][AgentNext]_agentVars

-----------------------------------------------------------------------------

\* Every task of the service was started for a role that could use the agent
\* at some moment of its request: switching an agent off, or taking a role
\* away, stops every request that comes after, however the two interleave.
TasksWereAllowed == \A t \in TaskIds : task[t] # NoTask => task[t].startable

\* A request told that a task completed, failed or was cancelled was told the
\* truth: the service says so still, or forgot the task.  A wait that ran out
\* says nothing of the task, which may yet complete.
AnswersTellService ==
    \A j \in Jobs : job[j] # NoJob /\ job[j].answer \in Final =>
        task[job[j].task].status \in {job[j].answer, "forgotten"}

\* A blocking request is answered within two HTTP calls, the block timeout,
\* one pause and one more HTTP call, whatever the service does: the deadline
\* is only looked at between polls.
AnsweredInTime ==
    \A j \in Jobs : job[j] # NoJob /\ job[j].op = "block" /\ job[j].step # "answered" =>
        job[j].elapsed <= 3 * HTTP_TIMEOUT + BLOCK_TIMEOUT + POLL_INTERVAL

\* The three together: a task was allowed when it started, what a request is told
\* of it is what the runtime knows, and a blocking request ends in its time, with
\* answers lost, late or refused (bridge.py, http_client.py).
TasksInOrder == TasksWereAllowed /\ AnswersTellService /\ AnsweredInTime
=============================================================================
