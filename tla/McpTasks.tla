------------------------------ MODULE McpTasks ------------------------------
(***************************************************************************)
(* The task machinery of the MCP server (mcp.rs): one server thread that   *)
(* reads requests and answers them in order, a worker thread for each task *)
(* that runs its tool, a monitor thread for each task that ends it at its  *)
(* TTL, and the locked records and the slot counter that they share.       *)
(*                                                                         *)
(* A section under the lock of a record is one step.  A request that       *)
(* changes nothing (ping, tools/list, a refused one) has no action, unless *)
(* it is about tasks and so removes expired ones first.  A tool's run ends *)
(* by itself or soon after its cancellation flag is set; that it always    *)
(* does is BoundedProcess!RunEnds.                                         *)
(***************************************************************************)
EXTENDS Integers, FiniteSets

CONSTANTS
    Task,           \* the task ids; an id is never used twice
    TTL,            \* the TTLs asked for
    MAX_TASKS,
    MAX_CONCURRENT_TASKS,
    Grace,          \* how long a closing server waits for its workers
    MaxTime,        \* bound on the clock
    NoTask

ASSUME TaskAssumption ==
    /\ NoTask \notin Task /\ IsFiniteSet(Task)
    /\ {MAX_TASKS, MAX_CONCURRENT_TASKS} \subseteq Nat \ {0}
    /\ TTL \subseteq Nat \ {0} /\ {Grace, MaxTime} \subseteq Nat

Status == {"Working", "Completed", "Failed", "Cancelled"}
\* What call_tool can return: a result, or a failure (a result with isError or
\* an invalid request, which end the task alike).
Outcome == {"Result", "Failure"}
\* What a record can hold as its result.
Result == Outcome \cup {"cancelled by client", "TTL expired", "none"}

VARIABLES
    lifecycle,      \* of the session
    latest,         \* whether the negotiated version is the one with tasks
    pc,             \* what the server thread is doing
    cur,            \* the task of the request it is serving
    notified,       \* the condition variable it waits on was notified
    tasks,          \* the ids of the retained tasks
    record,         \* the records: status, result, cancellation, expiry
    worker,         \* the worker threads
    monitor,        \* the TTL monitor threads
    active,         \* active_tasks
    told,           \* history: the statuses clients were given
    answered,       \* history: the results clients were given
    closeBy,        \* the deadline of Drop
    clock

server == <<lifecycle, latest, pc, cur>>
history == <<told, answered>>
vars == <<server, notified, tasks, record, worker, monitor, active, history, closeBy, clock>>

NewRecord == [status |-> "Working", result |-> "none", cancellation |-> FALSE, expires |-> 0]

TypeOK ==
    /\ lifecycle \in {"Uninitialized", "Initializing", "Ready"} /\ latest \in BOOLEAN
    /\ pc \in {"Read", "Arm", "Spawn", "Call", "Lock", "Wait", "Closing", "Exit"}
    /\ cur \in Task \cup {NoTask} /\ notified \in BOOLEAN
    /\ tasks \in SUBSET Task /\ Cardinality(tasks) <= MAX_TASKS
    /\ record \in [Task -> [status: Status, result: Result, cancellation: BOOLEAN,
                            expires: 0..MaxTime]]
    /\ worker \in [Task -> {"none", "tool", "release", "done"} \cup Outcome]
    /\ monitor \in [Task -> {"none", "sleeping", "done"}]
    /\ active \in 0..MAX_CONCURRENT_TASKS
    /\ told \in [Task -> SUBSET Status] /\ answered \in [Task -> SUBSET Result]
    /\ closeBy \in Nat /\ clock \in 0..MaxTime

Init ==
    /\ lifecycle = "Uninitialized" /\ latest = FALSE
    /\ pc = "Read" /\ cur = NoTask /\ notified = FALSE
    /\ tasks = {} /\ record = [t \in Task |-> NewRecord]
    /\ worker = [t \in Task |-> "none"] /\ monitor = [t \in Task |-> "none"]
    /\ active = 0
    /\ told = [t \in Task |-> {}] /\ answered = [t \in Task |-> {}]
    /\ closeBy = 0 /\ clock = 0

-----------------------------------------------------------------------------
(* The records.                                                            *)

Terminal(r) == r.status # "Working"

\* A record ended by a client or by its TTL.
Cancel(r, why) == [r EXCEPT !.status = "Cancelled", !.result = why, !.cancellation = TRUE]

\* Mutant: the tool of an expired task is not told to stop.
ExpireKeepsRunning(r) ==
    IF Terminal(r) THEN r ELSE [r EXCEPT !.status = "Cancelled", !.result = "TTL expired"]

\* expire_working_task
Expire(r) == IF Terminal(r) THEN r ELSE Cancel(r, "TTL expired")

\* notify_all on the record of a task: the server may be waiting on it.
NotifyAll(S) == notified' = (notified \/ (pc = "Wait" /\ cur \in S))

Retained == {t \in tasks : clock < record[t].expires}

\* Mutant: an expired task is dropped from the table and nothing else.
RemoveExpiredOnly ==
    /\ tasks' = Retained
    /\ UNCHANGED record

\* remove_expired_tasks: the server is not waiting, so nobody is notified.
RemoveExpired ==
    /\ tasks' = Retained
    /\ record' = [t \in Task |-> IF t \in tasks \ Retained THEN Expire(record[t]) ELSE record[t]]

-----------------------------------------------------------------------------
(* The session.                                                            *)

Initialize(v) ==
    /\ pc = "Read" /\ lifecycle = "Uninitialized"
    /\ lifecycle' = "Initializing" /\ latest' = v
    /\ UNCHANGED <<pc, cur, notified, tasks, record, worker, monitor, active, history,
                   closeBy, clock>>

Initialized ==
    /\ pc = "Read" /\ lifecycle = "Initializing"
    /\ lifecycle' = "Ready"
    /\ UNCHANGED <<latest, pc, cur, notified, tasks, record, worker, monitor, active, history,
                   closeBy, clock>>

\* A tool that runs in the server thread: nothing else is read meanwhile.
CallTool ==
    /\ pc = "Read" /\ lifecycle = "Ready"
    /\ pc' = "Call"
    /\ UNCHANGED <<lifecycle, latest, cur, notified, tasks, record, worker, monitor, active,
                   history, closeBy, clock>>

CallReturns ==
    /\ pc = "Call"
    /\ pc' = "Read"
    /\ UNCHANGED <<lifecycle, latest, cur, notified, tasks, record, worker, monitor, active,
                   history, closeBy, clock>>

\* A request about tasks, in a session that has them.
TaskRequest == pc = "Read" /\ lifecycle = "Ready" /\ latest

-----------------------------------------------------------------------------
(* tools/call with a task: create_task.                                    *)

\* The request is invalid, or a limit is reached: only expired tasks go.
CreateRefused ==
    /\ TaskRequest
    /\ RemoveExpired
    /\ UNCHANGED <<server, notified, worker, monitor, active, history, closeBy, clock>>

\* try_reserve_task_slot; workers only ever lower the counter meanwhile.
SlotFree == active < MAX_CONCURRENT_TASKS

\* The next id of the sequence, while there is one.
NextTask(t) == told[t] = {} /\ t = CHOOSE u \in Task : told[u] = {}

\* A slot is reserved and the record inserted.
CreateTask(t, ttl) ==
    /\ TaskRequest /\ clock + ttl <= MaxTime
    /\ NextTask(t)
    /\ Cardinality(Retained) < MAX_TASKS /\ SlotFree
    /\ active' = active + 1
    /\ tasks' = Retained \cup {t}
    /\ record' = [u \in Task |->
                    IF u = t THEN [NewRecord EXCEPT !.expires = clock + ttl]
                    ELSE IF u \in tasks \ Retained THEN Expire(record[u]) ELSE record[u]]
    /\ told' = [told EXCEPT ![t] = {"Working"}]
    /\ pc' = "Arm" /\ cur' = t
    /\ UNCHANGED <<lifecycle, latest, notified, worker, monitor, answered, closeBy, clock>>

\* Mutant: no monitor; expiry is left to the next request about tasks.
ArmSkipped ==
    /\ pc = "Arm"
    /\ pc' = "Spawn"
    /\ UNCHANGED <<lifecycle, latest, cur, notified, tasks, record, worker, monitor, active,
                   history, closeBy, clock>>

\* arm_task_expiration starts the monitor thread.
Arm ==
    /\ pc = "Arm"
    /\ monitor' = [monitor EXCEPT ![cur] = "sleeping"]
    /\ pc' = "Spawn"
    /\ UNCHANGED <<lifecycle, latest, cur, notified, tasks, record, worker, active, history,
                   closeBy, clock>>

\* Mutant: the slot of a task that was not started stays reserved.
ArmFailsKeepsSlot ==
    /\ pc = "Arm"
    /\ tasks' = tasks \ {cur}
    /\ pc' = "Read" /\ cur' = NoTask
    /\ UNCHANGED <<lifecycle, latest, notified, record, worker, monitor, active, history,
                   closeBy, clock>>

\* The monitor thread cannot be started: the task is taken back.
ArmFails ==
    /\ pc = "Arm"
    /\ tasks' = tasks \ {cur}
    /\ active' = active - 1
    /\ pc' = "Read" /\ cur' = NoTask
    /\ UNCHANGED <<lifecycle, latest, notified, record, worker, monitor, history, closeBy, clock>>

Spawn ==
    /\ pc = "Spawn"
    /\ worker' = [worker EXCEPT ![cur] = "tool"]
    /\ pc' = "Read" /\ cur' = NoTask
    /\ UNCHANGED <<lifecycle, latest, notified, tasks, record, monitor, active, history,
                   closeBy, clock>>

-----------------------------------------------------------------------------
(* tasks/get, tasks/list, tasks/cancel and tasks/result.                   *)

\* The status of each task of S is given to the client.
Tell(S) == told' = [t \in Task |-> IF t \in S THEN told[t] \cup {record'[t].status} ELSE told[t]]

GetTask(t) ==
    /\ TaskRequest
    /\ RemoveExpired
    /\ Tell({t} \cap tasks')
    /\ UNCHANGED <<server, notified, worker, monitor, active, answered, closeBy, clock>>

ListTasks ==
    /\ TaskRequest
    /\ RemoveExpired
    /\ Tell(tasks')
    /\ UNCHANGED <<server, notified, worker, monitor, active, answered, closeBy, clock>>

\* cancel_task on a working task; another one is refused like tasks/get.
CancelTask(t) ==
    /\ TaskRequest
    /\ t \in Retained /\ ~Terminal(record[t])
    /\ tasks' = Retained
    /\ record' = [u \in Task |->
                    IF u = t THEN Cancel(record[t], "cancelled by client")
                    ELSE IF u \in tasks \ Retained THEN Expire(record[u]) ELSE record[u]]
    /\ Tell({t})
    /\ UNCHANGED <<server, notified, worker, monitor, active, answered, closeBy, clock>>

\* get_task_result holds the record from here on, even if it expires.
GetTaskResult(t) ==
    /\ TaskRequest
    /\ t \in Retained
    /\ RemoveExpired
    /\ pc' = "Lock" /\ cur' = t
    /\ UNCHANGED <<lifecycle, latest, notified, worker, monitor, active, history, closeBy, clock>>

\* With the lock: the stored result of a task that has ended, else wait.
AnswerOrWait ==
    /\ notified' = FALSE
    /\ IF Terminal(record[cur])
       THEN /\ pc' = "Read" /\ cur' = NoTask
            /\ told' = [told EXCEPT ![cur] = @ \cup {record[cur].status}]
            /\ answered' = [answered EXCEPT ![cur] = @ \cup {record[cur].result}]
       ELSE pc' = "Wait" /\ UNCHANGED <<cur, history>>
    /\ UNCHANGED <<lifecycle, latest, tasks, record, worker, monitor, active, closeBy, clock>>

LockResult == pc = "Lock" /\ AnswerOrWait

\* The wait ends with a notification; the status is looked at again.
Wakeup == pc = "Wait" /\ notified /\ AnswerOrWait

\* A condition variable may also wake up for no reason.
SpuriousWakeup ==
    /\ pc = "Wait" /\ ~notified
    /\ notified' = TRUE
    /\ UNCHANGED <<server, tasks, record, worker, monitor, active, history, closeBy, clock>>

-----------------------------------------------------------------------------
(* The other threads; none outlives the process.                           *)

\* call_tool of a worker returns.
ToolReturns(t, o) ==
    /\ pc # "Exit" /\ worker[t] = "tool"
    /\ worker' = [worker EXCEPT ![t] = o]
    /\ UNCHANGED <<server, notified, tasks, record, monitor, active, history, closeBy, clock>>

\* Mutant: the outcome of the tool overwrites that of a cancellation.
FinishTaskAlways(t) ==
    /\ pc # "Exit" /\ worker[t] \in Outcome
    /\ record' = [record EXCEPT
          ![t].status = IF worker[t] = "Result" THEN "Completed" ELSE "Failed",
          ![t].result = worker[t]]
    /\ NotifyAll({t})
    /\ worker' = [worker EXCEPT ![t] = "release"]
    /\ UNCHANGED <<server, tasks, monitor, active, history, closeBy, clock>>

\* The outcome is stored unless the task has ended without it.
FinishTask(t) ==
    /\ pc # "Exit" /\ worker[t] \in Outcome
    /\ record' = IF Terminal(record[t]) THEN record
                 ELSE [record EXCEPT
                        ![t].status = IF worker[t] = "Result" THEN "Completed" ELSE "Failed",
                        ![t].result = worker[t]]
    /\ NotifyAll({t})
    /\ worker' = [worker EXCEPT ![t] = "release"]
    /\ UNCHANGED <<server, tasks, monitor, active, history, closeBy, clock>>

ReleaseSlot(t) ==
    /\ pc # "Exit" /\ worker[t] = "release"
    /\ active' = active - 1
    /\ worker' = [worker EXCEPT ![t] = "done"]
    /\ UNCHANGED <<server, notified, tasks, record, monitor, history, closeBy, clock>>

\* The TTL monitor wakes up.  A record nobody holds any more has ended.
MonitorExpires(t) ==
    /\ pc # "Exit" /\ monitor[t] = "sleeping" /\ clock >= record[t].expires
    /\ monitor' = [monitor EXCEPT ![t] = "done"]
    /\ record' = [record EXCEPT ![t] = Expire(@)]
    /\ IF Terminal(record[t]) THEN UNCHANGED notified ELSE NotifyAll({t})
    /\ UNCHANGED <<server, tasks, worker, active, history, closeBy, clock>>

Tick ==
    /\ clock < MaxTime /\ clock' = clock + 1
    /\ UNCHANGED <<server, notified, tasks, record, worker, monitor, active, history, closeBy>>

-----------------------------------------------------------------------------
(* The end of the input: Drop.                                             *)

\* The flags of the retained tasks are set, the records are left as they are.
Close ==
    /\ pc = "Read" /\ clock + Grace <= MaxTime
    /\ record' = [t \in Task |-> IF t \in tasks THEN [record[t] EXCEPT !.cancellation = TRUE]
                                 ELSE record[t]]
    /\ pc' = "Closing" /\ closeBy' = clock + Grace
    /\ UNCHANGED <<lifecycle, latest, cur, notified, tasks, worker, monitor, active, history,
                   clock>>

Exit ==
    /\ pc = "Closing" /\ (active = 0 \/ clock >= closeBy)
    /\ pc' = "Exit"
    /\ UNCHANGED <<lifecycle, latest, cur, notified, tasks, record, worker, monitor, active,
                   history, closeBy, clock>>

-----------------------------------------------------------------------------
Requests ==
    \/ \E v \in BOOLEAN : Initialize(v)
    \/ Initialized \/ CallTool \/ CreateRefused \/ ListTasks \/ Close
    \/ \E t \in Task : GetTask(t) \/ CancelTask(t) \/ GetTaskResult(t)
    \/ \E t \in Task, ttl \in TTL : CreateTask(t, ttl)

\* The server thread in the middle of a request.
Serve == Arm \/ ArmFails \/ Spawn \/ LockResult \/ Wakeup \/ CallReturns \/ Exit

\* A worker whose tool was told to stop, or has ended.
EndWorker(t) ==
    \/ record[t].cancellation /\ \E o \in Outcome : ToolReturns(t, o)
    \/ FinishTask(t) \/ ReleaseSlot(t)

Next ==
    \/ Requests \/ Serve \/ SpuriousWakeup
    \/ \E t \in Task : \/ EndWorker(t) \/ MonitorExpires(t)
                       \/ \E o \in Outcome : ToolReturns(t, o)
    \/ Tick

Spec == Init /\ [][Next]_vars

\* Threads are scheduled, time passes, and a tool that was cancelled ends.  A
\* tool of a task that nobody cancels may run for ever, and so may clients
\* stay silent.
FairSpec ==
    /\ Spec
    /\ WF_vars(Serve) /\ WF_vars(Tick)
    /\ \A t \in Task : WF_vars(EndWorker(t)) /\ WF_vars(MonitorExpires(t))

-----------------------------------------------------------------------------
(* Properties.                                                             *)

Running(t) == worker[t] \in {"tool", "release"} \cup Outcome

\* The slot counter is the number of workers that have not given their slot
\* back, plus the one of a task being created: refusals, failed starts,
\* expiry and cancellation neither leak a slot nor give one back twice, and
\* no more tools run than there are slots.
SlotsAreExact ==
    /\ active <= MAX_CONCURRENT_TASKS
    /\ active = Cardinality({t \in Task : Running(t)}) + (IF pc \in {"Arm", "Spawn"} THEN 1 ELSE 0)

\* A tool that no client can reach any more, because its task was removed from
\* the table or the server is closing, has been told to stop: nothing runs on
\* behind the client's back.
AbandonedIsCancelled ==
    \A t \in Task : (worker[t] = "tool" /\ (t \notin tasks \/ pc \in {"Closing", "Exit"}))
                        => record[t].cancellation

\* What clients were told stays true: once a client was told that a task
\* ended, no later answer gives another status, and all answers to
\* tasks/result carry the one result, whatever the worker, the monitor and a
\* cancellation do afterwards.  A cancelled task never hands out the result of
\* its tool, and a task that was not cancelled never hands out anything else.
AnswersAreFinal ==
    \A t \in Task :
        /\ \A s \in told[t] : s # "Working" => record[t].status = s
        /\ answered[t] \subseteq {record[t].result}
        /\ \A r \in answered[t] : record[t].status = "Cancelled" <=> r \notin Outcome

\* Every request is answered, also tasks/result for a tool that never ends:
\* the TTL monitor ends the task and wakes the server.
RequestsAnswered == pc \in {"Arm", "Spawn", "Call", "Lock", "Wait"} ~> pc = "Read"

\* Every slot comes back although its tool would run for ever.
SlotsReturn == \A t \in Task : worker[t] = "tool" ~> (worker[t] = "done" \/ pc = "Exit")
=============================================================================
