------------------------------- MODULE Agents -------------------------------
(***************************************************************************)
(* The agents of protected machines and the task queue of the server.  An  *)
(* agent registers by its heartbeat, polls its pending tasks, runs them    *)
(* one after the other and reports each once.  The server changes a task   *)
(* only when a report arrives: a task whose report is lost stays pending   *)
(* and is handed out again.                                                *)
(*                                                                         *)
(* An agent takes a new id at every start, so an id lives once.            *)
(***************************************************************************)
EXTENDS Naturals, Sequences, SequencesExt, FiniteSets

CONSTANTS
    Agent,        \* ids of agents, one for each start of an agent process
    Adopting,     \* agents that use the token a heartbeat returns: the shipped one is not
    Task,         \* tasks
    NoTask,
    PollLimit,    \* tasks a poll returns at most (100)
    Losses        \* bound on the reports that are lost or late

ASSUME AgentAssumption ==
    /\ Adopting \subseteq Agent /\ NoTask \notin Task
    /\ PollLimit \in Nat \ {0} /\ Losses \in Nat

VARIABLES
    life,         \* each agent process: "new", "up" or "gone"
    registered,   \* ids in the table agents
    enrolled,     \* agents that hold a token of their own
    born,         \* tasks in the order of their creation
    owner,        \* agent_tasks.agent_id
    work,         \* agent_tasks.task_type with its payload
    verdict,      \* agent_tasks.status, "none" before and "gone" after the row
    polled,       \* the tasks of the answer an agent works through
    awaiting,     \* the task whose report an agent waits to be answered
    flight        \* [task, by, result, run]: reports on their way

(* History: no action reads these. *)
VARIABLES
    runs,         \* how often a task was run
    unheard,      \* tasks a report of which was lost or came late
    lost          \* how many did so: the bound of the model

agentVars == <<life, registered, enrolled, born, owner, work, verdict, polled,
               awaiting, flight, runs, unheard, lost>>

(* "file": a file_backup queued over REST; "paths": one queued over gRPC, whose payload lacks the
   source_path the agent asks for; "restore": file_restore, which no agent knows. *)
Work == {"file", "paths", "restore"}
Results(t) == IF work[t] = "file" THEN {"completed", "failed"} ELSE {"failed"}
Reports == [task : Task, by : Agent, result : {"completed", "failed"}, run : Nat]

AgentTypeOK ==
    /\ life \in [Agent -> {"new", "up", "gone"}]
    /\ registered \subseteq Agent /\ enrolled \subseteq Adopting
    /\ IsInjective(born) /\ ToSet(born) = {t \in Task : verdict[t] # "none"}
    /\ owner \in [Task -> Agent] /\ work \in [Task -> Work]
    /\ verdict \in [Task -> {"none", "pending", "completed", "failed", "gone"}]
    /\ \A a \in Agent : polled[a] \subseteq {t \in ToSet(born) : owner[t] = a}
    /\ awaiting \in [Agent -> Task \cup {NoTask}]
    /\ flight \subseteq Reports /\ unheard \subseteq Task

AgentInit ==
    /\ life = [a \in Agent |-> "new"] /\ registered = {} /\ enrolled = {}
    /\ born = <<>> /\ owner \in [Task -> Agent] /\ work \in [Task -> Work]
    /\ verdict = [t \in Task |-> "none"]
    /\ polled = [a \in Agent |-> {}] /\ awaiting = [a \in Agent |-> NoTask]
    /\ flight = {} /\ runs = [t \in Task |-> 0] /\ unheard = {} /\ lost = 0

AgentStarts(a) ==
    /\ life[a] = "new" /\ life' = [life EXCEPT ![a] = "up"]
    /\ UNCHANGED <<registered, enrolled, born, owner, work, verdict, polled, awaiting,
                   flight, runs, unheard, lost>>

(* The process ends; nothing of what it was doing is kept. *)
AgentStops(a) ==
    /\ life[a] = "up" /\ life' = [life EXCEPT ![a] = "gone"]
    /\ polled' = [polled EXCEPT ![a] = {}] /\ awaiting' = [awaiting EXCEPT ![a] = NoTask]
    /\ UNCHANGED <<registered, enrolled, born, owner, work, verdict, flight, runs, unheard,
                   lost>>

(***************************************************************************)
(* POST /agents/heartbeat with the pre-shared token: the row is inserted   *)
(* or refreshed, also one an operator has just deleted, and the answer     *)
(* carries a token for the id.  The shipped agent does not read it.        *)
(***************************************************************************)
Heartbeat(a) ==
    /\ life[a] = "up"
    /\ registered' = registered \cup {a}
    /\ enrolled' = enrolled \cup ({a} \cap Adopting)
    /\ UNCHANGED <<life, born, owner, work, verdict, polled, awaiting, flight, runs,
                   unheard, lost>>

(* Agent.Heartbeat of the gRPC service: the same row, no token. *)
GrpcHeartbeat(a) ==
    /\ life[a] = "up" /\ registered' = registered \cup {a}
    /\ UNCHANGED <<life, enrolled, born, owner, work, verdict, polled, awaiting, flight,
                   runs, unheard, lost>>

(* The rows of its tasks go with an agent's row (ON DELETE CASCADE). *)
DeleteAgent(a) ==
    /\ a \in registered /\ registered' = registered \ {a}
    /\ verdict' = [t \in Task |-> IF t \in ToSet(born) /\ owner[t] = a THEN "gone"
                                  ELSE verdict[t]]
    /\ UNCHANGED <<life, enrolled, born, owner, work, polled, awaiting, flight, runs,
                   unheard, lost>>

(* A task is inserted for a registered agent; the foreign key refuses any other. *)
InsertTask(t) ==
    /\ verdict[t] = "none" /\ owner[t] \in registered
    /\ verdict' = [verdict EXCEPT ![t] = "pending"] /\ born' = Append(born, t)
    /\ UNCHANGED <<life, registered, enrolled, owner, work, polled, awaiting, flight, runs,
                   unheard, lost>>

CreateAgentTask(t) == work[t] = "file" /\ InsertTask(t)
StartAgentBackup(t) == work[t] = "paths" /\ InsertTask(t)
(* The caller is told at once that the restore is completed. *)
StartAgentRestore(t) == work[t] = "restore" /\ InsertTask(t)

\* Mutant: the poll does not ask for the status.
MutantAllTasks(a) == {t \in ToSet(born) : owner[t] = a /\ verdict[t] # "gone"}

PendingTasks(a) == {t \in ToSet(born) : owner[t] = a /\ verdict[t] = "pending"}

Older(t, u) == \E i, j \in DOMAIN born : i < j /\ born[i] = t /\ born[j] = u

(* ORDER BY created_at LIMIT: the tasks that have fewer than the limit before them. *)
FirstPending(a) ==
    {t \in PendingTasks(a) : Cardinality({u \in PendingTasks(a) : Older(u, t)}) < PollLimit}

(* The shared token is refused outside of heartbeats. *)
MayPoll(a) == a \in enrolled

PollPendingTasks(a) ==
    /\ life[a] = "up" /\ MayPoll(a) /\ polled[a] = {} /\ awaiting[a] = NoTask
    /\ FirstPending(a) # {} /\ polled' = [polled EXCEPT ![a] = FirstPending(a)]
    /\ UNCHANGED <<life, registered, enrolled, born, owner, work, verdict, awaiting,
                   flight, runs, unheard, lost>>

(* The agent runs the oldest task that is left of the answer and sends its report. *)
RunTask(a) ==
    /\ life[a] = "up" /\ awaiting[a] = NoTask
    /\ \E t \in polled[a] :
        /\ \A u \in polled[a] \ {t} : Older(t, u)
        /\ awaiting' = [awaiting EXCEPT ![a] = t]
        /\ polled' = [polled EXCEPT ![a] = @ \ {t}]
        /\ runs' = [runs EXCEPT ![t] = @ + 1]
        /\ \E r \in Results(t) :
            flight' = flight \cup {[task |-> t, by |-> a, result |-> r, run |-> runs[t] + 1]}
    /\ UNCHANGED <<life, registered, enrolled, born, owner, work, verdict, unheard, lost>>

Waits(m) == awaiting[m.by] = m.task /\ runs[m.task] = m.run

(***************************************************************************)
(* The server takes a report: the UPDATE looks at the ids and not at the   *)
(* status it replaces.  The agent hears the answer if it still waits.      *)
(***************************************************************************)
ReportTaskStatus(m) ==
    /\ m \in flight /\ flight' = flight \ {m}
    /\ verdict' = [verdict EXCEPT ![m.task] = IF @ = "gone" THEN @ ELSE m.result]
    /\ awaiting' = [awaiting EXCEPT ![m.by] = IF Waits(m) THEN NoTask ELSE @]
    /\ UNCHANGED <<life, registered, enrolled, born, owner, work, polled, runs, unheard,
                   lost>>

(* A report is lost, or not answered within ten seconds: the agent goes on without it. *)
ReportFails(m) ==
    /\ m \in flight /\ Waits(m) /\ lost < Losses
    /\ lost' = lost + 1 /\ unheard' = unheard \cup {m.task}
    /\ awaiting' = [awaiting EXCEPT ![m.by] = NoTask]
    /\ \E late \in BOOLEAN : flight' = IF late THEN flight ELSE flight \ {m}
    /\ UNCHANGED <<life, registered, enrolled, born, owner, work, verdict, polled, runs>>

AgentNext ==
    \/ \E a \in Agent :
        \/ AgentStarts(a) \/ AgentStops(a) \/ Heartbeat(a) \/ GrpcHeartbeat(a)
        \/ DeleteAgent(a) \/ PollPendingTasks(a) \/ RunTask(a)
    \/ \E t \in Task : CreateAgentTask(t) \/ StartAgentBackup(t) \/ StartAgentRestore(t)
    \/ \E m \in flight : ReportTaskStatus(m) \/ ReportFails(m)

AgentSpec == AgentInit /\ [][AgentNext]_agentVars

-----------------------------------------------------------------------------
(* A task runs a second time only if a report of it was lost or came late: the poll hands out what
   is pending, and a report that arrives takes the task out of it. *)
RepeatExplained == \A t \in Task : runs[t] > 1 => t \in unheard
=============================================================================
