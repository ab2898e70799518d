--------------------------- MODULE McpTasksProofs ---------------------------
(***************************************************************************)
(* Proofs about McpTasks for every finite set of tasks and all limits.     *)
(*                                                                         *)
(* A record ends once (Ended): what a worker stores, what a client's       *)
(* cancellation stores and what the TTL stores never replace each other,   *)
(* and a tool whose record ended without it has been told to stop.  An id  *)
(* is new to everybody when it is given to a task (Known), so that         *)
(* inserting a record never overwrites one that somebody was told about.   *)
(***************************************************************************)
EXTENDS McpTasks, FiniteSetTheorems, TLAPS

(* The task whose request the server thread is serving.                    *)
Serving ==
  /\ pc \in {"Arm", "Spawn", "Lock", "Wait"} => cur \in Task /\ told[cur] # {}
  /\ pc \in {"Arm", "Spawn"} => cur \in tasks /\ worker[cur] = "none"

(* Nobody has a task whose id was never given to a client.                 *)
Known ==
  \A t \in Task : t \in tasks \/ worker[t] # "none" \/ answered[t] # {} => told[t] # {}

(* How a record ends, and which worker it may still have.                  *)
Ended ==
  \A t \in Task :
    /\ record[t].status = "Cancelled" => record[t].cancellation /\ record[t].result \notin Outcome
    /\ record[t].status \in {"Completed", "Failed"} =>
         worker[t] \in {"release", "done"} /\ record[t].result \in Outcome
    /\ answered[t] # {} => Terminal(record[t])

MInv ==
  /\ TypeOK
  /\ Serving /\ Known /\ Ended
  /\ SlotsAreExact /\ AbandonedIsCancelled /\ AnswersAreFinal

Record == [status: Status, result: Result, cancellation: BOOLEAN, expires: 0..MaxTime]

USE TaskAssumption
-----------------------------------------------------------------------------
(* The records.                                                            *)

(* An ended record is final for expiry; a working one is told to stop.     *)
LEMMA ExpireEffect ==
  ASSUME NEW r \in Record
  PROVE  /\ Expire(r) \in Record
         /\ Expire(r).status # "Working"
         /\ r.status # "Working" => Expire(r) = r
         /\ r.status = "Working" => /\ Expire(r).status = "Cancelled" /\ Expire(r).cancellation
                                    /\ Expire(r).result = "TTL expired"
<1>1. CASE Terminal(r)
  BY <1>1 DEF Expire, Terminal
<1>2. CASE ~Terminal(r)
  BY <1>2 DEF Expire, Cancel, Record, Status, Result, Terminal
<1> QED
  BY <1>1, <1>2

(* What a step may do to a record: nothing, or end it if it has not ended, *)
(* in one of two ways; a flag that is set stays set.                       *)
Kept(r, s) == s.status = r.status /\ s.result = r.result /\ (r.cancellation => s.cancellation)
Cancelled(r, s) ==
  ~Terminal(r) /\ s.status = "Cancelled" /\ s.cancellation /\ s.result \notin Outcome

(* An expired task is settled as cancelled, and stays so.                  *)
LEMMA ExpireSettles ==
  ASSUME NEW r \in Record
  PROVE  (Kept(r, Expire(r)) \/ Cancelled(r, Expire(r))) /\ Terminal(Expire(r)) /\ Kept(r, r)
<1>1. CASE r.status = "Working"
  BY <1>1, ExpireEffect DEF Kept, Cancelled, Outcome, Terminal
<1>2. CASE r.status # "Working"
  BY <1>2, ExpireEffect DEF Kept, Terminal
<1> QED
  BY <1>1, <1>2

(* remove_expired takes only settled tasks from the table.                 *)
LEMMA RemoveExpiredEffect ==
  ASSUME TypeOK, RemoveExpired
  PROVE  /\ tasks' \subseteq tasks
         /\ record' \in [Task -> Record]
         /\ \A t \in Task : Kept(record[t], record'[t]) \/ Cancelled(record[t], record'[t])
         /\ \A t \in tasks \ tasks' : Terminal(record'[t])
<1>1. \A t \in Task : record[t] \in Record
  BY DEF TypeOK, Record
<1>2. \A t \in Task : record'[t] = record[t] \/ record'[t] = Expire(record[t])
  BY DEF RemoveExpired
<1>3. \A t \in tasks \ tasks' : record'[t] = Expire(record[t])
  BY DEF RemoveExpired, TypeOK
<1>4. \A t \in Task : record'[t] \in Record
  BY <1>1, <1>2, ExpireEffect
<1>5. record' \in [Task -> Record]
  BY <1>4 DEF RemoveExpired
<1>6. tasks' \subseteq tasks
  BY DEF RemoveExpired, Retained
<1>7. \A t \in Task : Kept(record[t], record'[t]) \/ Cancelled(record[t], record'[t])
  <2> SUFFICES ASSUME NEW t \in Task
               PROVE  Kept(record[t], record'[t]) \/ Cancelled(record[t], record'[t])
    OBVIOUS
  <2>1. record[t] \in Record
    BY <1>1
  <2>2. CASE record'[t] = record[t]
    BY <2>1, <2>2, ExpireSettles
  <2>3. CASE record'[t] = Expire(record[t])
    BY <2>1, <2>3, ExpireSettles
  <2> QED
    BY <1>2, <2>2, <2>3
<1>8. ASSUME NEW t \in tasks \ tasks' PROVE Terminal(record'[t])
  <2>1. record[t] \in Record /\ record'[t] = Expire(record[t])
    BY <1>1, <1>3 DEF TypeOK
  <2> QED
    BY <2>1, ExpireSettles
<1> QED
  BY <1>5, <1>6, <1>7, <1>8
-----------------------------------------------------------------------------
(* The slots.                                                              *)

Slots == {t \in Task : Running(t)}

(* The workers that hold a slot can be counted.                            *)
LEMMA SlotsFinite == IsFiniteSet(Slots) /\ Cardinality(Slots) \in Nat
BY FS_Subset, FS_CardinalityType DEF Slots

(* A step that changes neither the counter nor who holds a slot.           *)
LEMMA SlotsKept ==
  ASSUME SlotsAreExact, UNCHANGED active, pc' \in {"Arm", "Spawn"} <=> pc \in {"Arm", "Spawn"},
         \A t \in Task : Running(t)' <=> Running(t)
  PROVE  SlotsAreExact'
<1>1. Slots' = Slots
  BY DEF Slots
<1> QED
  BY <1>1 DEF SlotsAreExact, Slots
-----------------------------------------------------------------------------
(* Every step keeps the invariant.                                         *)

(* Everything holds when the server starts.                                *)
LEMMA MInvInit == Init => MInv
<1> SUFFICES ASSUME Init PROVE MInv
  OBVIOUS
<1>1. record \in [Task -> Record]
  BY DEF Init, NewRecord, Record, Status, Result, Outcome
<1>2. TypeOK
  <2>1. MAX_TASKS \in Nat /\ MAX_CONCURRENT_TASKS \in Nat /\ MaxTime \in Nat
    OBVIOUS
  <2>2. tasks \in SUBSET Task /\ Cardinality(tasks) <= MAX_TASKS
    BY <2>1, FS_EmptySet DEF Init
  <2>3. active \in 0..MAX_CONCURRENT_TASKS /\ closeBy \in Nat /\ clock \in 0..MaxTime
    BY <2>1 DEF Init
  <2> QED
    BY <1>1, <2>2, <2>3 DEF Init, TypeOK, Record, Status
<1>3. Slots = {}
  BY DEF Init, Slots, Running, Outcome
<1>4. SlotsAreExact
  BY <1>3, FS_EmptySet DEF Init, SlotsAreExact, Slots
<1>5. Serving /\ Known
  BY DEF Init, Serving, Known
<1>6. Ended /\ AbandonedIsCancelled /\ AnswersAreFinal
  BY DEF Init, Ended, AbandonedIsCancelled, AnswersAreFinal, NewRecord
<1> QED
  BY <1>2, <1>4, <1>5, <1>6 DEF MInv

(* A step of the server thread that may end records, drop tasks from the   *)
(* table and tell clients of the others.                                   *)
LEMMA RecordsStep ==
  ASSUME MInv, tasks' \subseteq tasks, record' \in [Task -> Record],
         \A t \in Task : Kept(record[t], record'[t]) \/ Cancelled(record[t], record'[t]),
         \A t \in tasks \ tasks' : Terminal(record'[t]),
         told' \in [Task -> SUBSET Status],
         \A t \in Task : told'[t] = told[t] \/ told'[t] = told[t] \cup {record'[t].status},
         UNCHANGED <<answered, worker, active>>,
         pc = "Read", pc' \in {"Read", "Lock"}, pc' = "Lock" => cur' \in tasks,
         cur' \in Task \cup {NoTask},
         UNCHANGED <<lifecycle, latest, notified, monitor, closeBy, clock>>
  PROVE  MInv'
<1>1. TypeOK'
  <2>1. Cardinality(tasks') <= MAX_TASKS
    <3>1. IsFiniteSet(tasks) /\ Cardinality(tasks) \in Nat
      BY FS_Subset, FS_CardinalityType DEF MInv, TypeOK
    <3>2. IsFiniteSet(tasks') /\ Cardinality(tasks') <= Cardinality(tasks) /\ Cardinality(tasks') \in Nat
      BY <3>1, FS_Subset, FS_CardinalityType
    <3> QED
      BY <3>1, <3>2 DEF MInv, TypeOK
  <2> QED
    BY <2>1 DEF MInv, TypeOK, Record
<1>2. \A t \in Task : told[t] # {} => told'[t] # {}
  OBVIOUS
<1>3. Serving' /\ Known'
  BY <1>2 DEF MInv, Serving, Known, TypeOK
<1>4. Ended'
  BY DEF MInv, Ended, Kept, Cancelled, Terminal, TypeOK, Record, Status
<1>5. SlotsAreExact'
  BY SlotsKept DEF MInv, Running
<1>6. AbandonedIsCancelled'
  <2> SUFFICES ASSUME NEW t \in Task, worker[t] = "tool", t \notin tasks'
               PROVE  record'[t].cancellation
    BY DEF AbandonedIsCancelled
  <2>1. CASE t \notin tasks
    BY <2>1 DEF MInv, AbandonedIsCancelled, Kept, Cancelled
  <2>2. CASE t \in tasks
    BY <1>4, <2>2 DEF Ended, Terminal, Record, Status
  <2> QED
    BY <2>1, <2>2
<1>7. AnswersAreFinal'
  <2> SUFFICES ASSUME NEW t \in Task
               PROVE  /\ \A x \in told'[t] : x # "Working" => record'[t].status = x
                      /\ answered[t] \subseteq {record'[t].result}
                      /\ \A r \in answered[t] : record'[t].status = "Cancelled" <=> r \notin Outcome
    BY DEF AnswersAreFinal
  <2>1. \A x \in told[t] : x # "Working" => Kept(record[t], record'[t]) /\ record[t].status = x
    BY DEF MInv, AnswersAreFinal, Cancelled, Terminal
  <2>2. answered[t] # {} => Kept(record[t], record'[t])
    BY DEF MInv, Ended, Cancelled
  <2>3. \A x \in told'[t] : x # "Working" => record'[t].status = x
    BY <2>1 DEF Kept
  <2> QED
    BY <2>2, <2>3 DEF MInv, AnswersAreFinal, Kept
<1> QED
  BY <1>1, <1>3, <1>4, <1>5, <1>6, <1>7 DEF MInv

(* A step that leaves tasks, records and histories alone and only moves    *)
(* the server thread between places where it serves no task.               *)
LEMMA SessionStep ==
  ASSUME MInv, TypeOK', pc \notin {"Arm", "Spawn"}, pc' \in {"Read", "Call", "Wait", "Exit"} \cup {pc},
         pc' \in {"Lock", "Wait"} => cur' = cur /\ pc \in {"Lock", "Wait"},
         pc' = "Exit" => pc \in {"Closing", "Exit"},
         UNCHANGED <<tasks, record, worker, active, told, answered>>
  PROVE  MInv'
<1>1. SlotsAreExact'
  BY SlotsKept DEF MInv, Running
<1>2. Serving' /\ Known' /\ Ended' /\ AnswersAreFinal'
  BY DEF MInv, Serving, Known, Ended, AnswersAreFinal
<1>3. AbandonedIsCancelled'
  BY DEF MInv, AbandonedIsCancelled
<1> QED
  BY <1>1, <1>2, <1>3 DEF MInv

(* Steps of the session that leave the table alone.                        *)
LEMMA SessionMInv ==
  ASSUME MInv, \/ \E v \in BOOLEAN : Initialize(v)
               \/ Initialized \/ CallTool \/ CallReturns \/ SpuriousWakeup \/ Exit
  PROVE  MInv'
<1>1. TypeOK'
  BY DEF MInv, TypeOK, Initialize, Initialized, CallTool, CallReturns, SpuriousWakeup, Exit,
         server, history
<1> QED
  BY <1>1, SessionStep DEF Initialize, Initialized, CallTool, CallReturns, SpuriousWakeup, Exit,
                           server, history

(* A task that is refused takes no slot.                                   *)
LEMMA CreateRefusedMInv == MInv /\ CreateRefused => MInv'
<1> SUFFICES ASSUME MInv, CreateRefused PROVE MInv'
  OBVIOUS
<1>1. TypeOK /\ RemoveExpired /\ pc = "Read"
  BY DEF MInv, CreateRefused, TaskRequest
<1> QED
  BY <1>1, RemoveExpiredEffect, RecordsStep DEF CreateRefused, TypeOK, server, history

(* tasks/get and tasks/list tell the statuses after the expiry.            *)
LEMMA TellMInv ==
  ASSUME MInv, TaskRequest, RemoveExpired, NEW S, Tell(S),
         UNCHANGED <<server, notified, worker, monitor, active, answered, closeBy, clock>>
  PROVE  MInv'
<1>1. TypeOK /\ pc = "Read"
  BY DEF MInv, TaskRequest
<1>2. /\ tasks' \subseteq tasks
      /\ record' \in [Task -> Record]
      /\ \A t \in Task : Kept(record[t], record'[t]) \/ Cancelled(record[t], record'[t])
      /\ \A t \in tasks \ tasks' : Terminal(record'[t])
  BY <1>1, RemoveExpiredEffect
<1>3. \A t \in Task : told'[t] = told[t] \/ told'[t] = told[t] \cup {record'[t].status}
  BY DEF Tell
<1>4. told' \in [Task -> SUBSET Status]
  BY <1>1, <1>2, <1>3 DEF Tell, TypeOK, Record
<1> QED
  BY <1>1, <1>2, <1>3, <1>4, RecordsStep DEF server, TypeOK

(* tasks/cancel settles a working task and tells its tool.                 *)
LEMMA CancelTaskMInv == ASSUME MInv, NEW t \in Task, CancelTask(t) PROVE MInv'
<1>1. TypeOK /\ pc = "Read" /\ t \in tasks /\ tasks' = Retained /\ tasks' \subseteq tasks /\ t \in tasks'
  BY DEF MInv, CancelTask, TaskRequest, Retained
<1>2. \A u \in Task : record[u] \in Record
  BY <1>1 DEF TypeOK, Record
<1>3. Cancel(record[t], "cancelled by client") \in Record
  BY <1>2 DEF Cancel, Record, Status, Result
<1>4. /\ record'[t] = Cancel(record[t], "cancelled by client") /\ ~Terminal(record[t])
      /\ \A u \in Task \ {t} : record'[u] = IF u \in tasks \ Retained THEN Expire(record[u]) ELSE record[u]
  BY DEF CancelTask
<1>5. record' \in [Task -> Record]
  <2>1. \A u \in Task : record'[u] \in Record
    BY <1>2, <1>3, <1>4, ExpireEffect
  <2> QED
    BY <2>1 DEF CancelTask
<1>6. \A u \in Task : Kept(record[u], record'[u]) \/ Cancelled(record[u], record'[u])
  <2>1. Cancelled(record[t], record'[t])
    BY <1>2, <1>4 DEF Cancelled, Cancel, Record, Outcome
  <2>2. ASSUME NEW u \in Task \ {t}
        PROVE  Kept(record[u], record'[u]) \/ Cancelled(record[u], record'[u])
    <3>1. record[u] \in Record
      BY <1>2
    <3>2. record'[u] = record[u] \/ record'[u] = Expire(record[u])
      BY <1>4
    <3> QED
      BY <3>1, <3>2, ExpireSettles
  <2> QED
    BY <2>1, <2>2
<1>7. ASSUME NEW u \in tasks \ tasks' PROVE Terminal(record'[u])
  <2>1. record[u] \in Record /\ record'[u] = Expire(record[u])
    BY <1>1, <1>2, <1>4 DEF TypeOK
  <2> QED
    BY <2>1, ExpireSettles
<1>8. \A u \in Task : told'[u] = told[u] \/ told'[u] = told[u] \cup {record'[u].status}
  BY DEF CancelTask, Tell
<1>9. told' \in [Task -> SUBSET Status]
  <2>1. \A u \in Task : record'[u].status \in Status /\ told[u] \in SUBSET Status
    BY <1>1, <1>5 DEF TypeOK, Record
  <2>2. \A u \in Task : told'[u] \in SUBSET Status
    BY <1>8, <2>1
  <2>3. told' = [u \in Task |-> told'[u]]
    BY DEF CancelTask, Tell
  <2> QED
    BY <2>2, <2>3
<1>10. /\ UNCHANGED <<answered, worker, active, lifecycle, latest, notified, monitor, closeBy, clock>>
       /\ UNCHANGED <<pc, cur>> /\ cur \in Task \cup {NoTask}
  BY <1>1 DEF CancelTask, server, TypeOK
<1> QED
  BY <1>1, <1>5, <1>6, <1>7, <1>8, <1>9, <1>10, RecordsStep

(* tasks/result answers only what is settled.                              *)
LEMMA GetTaskResultMInv == ASSUME MInv, NEW t \in Task, GetTaskResult(t) PROVE MInv'
<1>1. TypeOK /\ RemoveExpired /\ pc = "Read" /\ t \in tasks
  BY DEF MInv, GetTaskResult, TaskRequest, Retained
<1>2. /\ tasks' \subseteq tasks
      /\ record' \in [Task -> Record]
      /\ \A u \in Task : Kept(record[u], record'[u]) \/ Cancelled(record[u], record'[u])
      /\ \A u \in tasks \ tasks' : Terminal(record'[u])
  BY <1>1, RemoveExpiredEffect
<1> QED
  BY <1>1, <1>2, RecordsStep DEF GetTaskResult, TypeOK, history

(* A new task: its id was told to nobody, so that its record was nobody's. *)
LEMMA CreateTaskMInv ==
  ASSUME MInv, NEW t \in Task, NEW ttl \in TTL, CreateTask(t, ttl)
  PROVE  MInv'
<1>1. TypeOK /\ pc = "Read" /\ told[t] = {} /\ t \notin tasks /\ worker[t] = "none" /\ answered[t] = {}
  BY DEF MInv, Known, CreateTask, TaskRequest, NextTask
<1>2. \A u \in Task : record[u] \in Record
  BY <1>1 DEF TypeOK, Record
<1>3. clock + ttl \in 0..MaxTime
  BY <1>1 DEF CreateTask, TypeOK
<1>4. [NewRecord EXCEPT !.expires = clock + ttl] \in Record
  BY <1>3 DEF NewRecord, Record, Status, Result
<1>5. /\ record'[t] = [NewRecord EXCEPT !.expires = clock + ttl]
      /\ \A u \in Task \ {t} : record'[u] = IF u \in tasks \ Retained THEN Expire(record[u]) ELSE record[u]
  BY DEF CreateTask
<1>6. record' \in [Task -> Record]
  <2>1. ASSUME NEW u \in Task PROVE record'[u] \in Record
    <3>1. record[u] \in Record /\ Expire(record[u]) \in Record
      BY <1>2, ExpireEffect
    <3>2. record'[u] \in {[NewRecord EXCEPT !.expires = clock + ttl], Expire(record[u]), record[u]}
      BY <1>5
    <3> QED
      BY <1>4, <3>1, <3>2
  <2> QED
    BY <2>1 DEF CreateTask
<1>7. /\ told'[t] = {"Working"} /\ \A u \in Task \ {t} : told'[u] = told[u]
      /\ told' \in [Task -> SUBSET Status]
  BY <1>1 DEF CreateTask, TypeOK, Status
<1>8. Retained \subseteq tasks /\ tasks' = Retained \cup {t} /\ pc' = "Arm" /\ cur' = t /\ active' = active + 1
  BY DEF CreateTask, Retained
<1>9. TypeOK'
  <2>1. IsFiniteSet(Retained) /\ Cardinality(Retained) \in Nat
    BY <1>1, <1>8, FS_Subset, FS_CardinalityType DEF TypeOK
  <2>2. Cardinality(tasks') <= Cardinality(Retained) + 1 /\ Cardinality(tasks') \in Nat
    <3>1. /\ IsFiniteSet(Retained \cup {t})
          /\ Cardinality(Retained \cup {t}) \in {Cardinality(Retained), Cardinality(Retained) + 1}
      BY <2>1, FS_AddElement
    <3> QED
      BY <1>8, <2>1, <3>1
  <2>3. Cardinality(tasks') <= MAX_TASKS
    <3>1. Cardinality(Retained) < MAX_TASKS /\ MAX_TASKS \in Nat
      BY DEF CreateTask
    <3> QED
      BY <2>1, <2>2, <3>1
  <2>4. active' \in 0..MAX_CONCURRENT_TASKS
    BY <1>1 DEF CreateTask, SlotFree, TypeOK
  <2> QED
    BY <1>1, <1>6, <1>7, <1>8, <2>3, <2>4 DEF CreateTask, TypeOK, Record
<1>10. Serving' /\ Known'
  BY <1>1, <1>7, <1>8 DEF MInv, CreateTask, Serving, Known, TypeOK
<1>11. \A u \in Task \ {t} : Kept(record[u], record'[u]) \/ Cancelled(record[u], record'[u])
  <2> SUFFICES ASSUME NEW u \in Task \ {t}
               PROVE  Kept(record[u], record'[u]) \/ Cancelled(record[u], record'[u])
    OBVIOUS
  <2>1. record[u] \in Record
    BY <1>2
  <2>2. record'[u] = record[u] \/ record'[u] = Expire(record[u])
    BY <1>5
  <2> QED
    BY <2>1, <2>2, ExpireSettles
<1>12. Ended'
  <2>1. record'[t].status = "Working"
    BY <1>5 DEF NewRecord
  <2>2. ASSUME NEW u \in Task
        PROVE  /\ record'[u].status = "Cancelled" => record'[u].cancellation /\ record'[u].result \notin Outcome
               /\ record'[u].status \in {"Completed", "Failed"} =>
                    worker[u] \in {"release", "done"} /\ record'[u].result \in Outcome
               /\ answered[u] # {} => Terminal(record'[u])
    <3>1. CASE u = t
      BY <1>1, <2>1, <3>1
    <3>2. CASE u # t
      BY <1>11, <3>2 DEF MInv, Ended, Kept, Cancelled, Terminal
    <3> QED
      BY <3>1, <3>2
  <2> QED
    BY <2>2 DEF Ended, CreateTask
<1>13. SlotsAreExact'
  <2>1. Slots' = Slots
    BY DEF Slots, Running, CreateTask
  <2>2. active' <= MAX_CONCURRENT_TASKS /\ active' = Cardinality(Slots) + 1
    BY <1>1, <1>8, SlotsFinite DEF MInv, SlotsAreExact, CreateTask, SlotFree, TypeOK, Slots
  <2> QED
    BY <1>8, <2>1, <2>2 DEF SlotsAreExact, Slots
<1>14. AbandonedIsCancelled'
  <2> SUFFICES ASSUME NEW u \in Task, worker[u] = "tool", u \notin tasks'
               PROVE  record'[u].cancellation
    BY <1>8 DEF AbandonedIsCancelled, CreateTask
  <2>1. u # t
    BY <1>8
  <2>2. CASE u \in tasks
    <3>1. Terminal(record'[u])
      BY <1>2, <1>5, <1>8, <2>1, <2>2, ExpireSettles
    <3> QED
      BY <1>6, <1>12, <3>1 DEF Ended, Terminal, Record, Status, CreateTask
  <2>3. CASE u \notin tasks
    BY <1>11, <2>1, <2>3 DEF MInv, AbandonedIsCancelled, Kept, Cancelled
  <2> QED
    BY <2>2, <2>3
<1>15. AnswersAreFinal'
  <2> SUFFICES ASSUME NEW u \in Task
               PROVE  /\ \A x \in told'[u] : x # "Working" => record'[u].status = x
                      /\ answered[u] \subseteq {record'[u].result}
                      /\ \A r \in answered[u] : record'[u].status = "Cancelled" <=> r \notin Outcome
    BY DEF AnswersAreFinal, CreateTask
  <2>1. CASE u = t
    BY <1>1, <1>7, <2>1
  <2>2. CASE u # t
    <3>1. \A x \in told[u] : x # "Working" => Kept(record[u], record'[u]) /\ record[u].status = x
      BY <1>11, <2>2 DEF MInv, AnswersAreFinal, Cancelled, Terminal
    <3>2. answered[u] # {} => Kept(record[u], record'[u])
      BY <1>11, <2>2 DEF MInv, Ended, Cancelled
    <3> QED
      BY <1>7, <2>2, <3>1, <3>2 DEF MInv, AnswersAreFinal, Kept
  <2> QED
    BY <2>1, <2>2
<1> QED
  BY <1>9, <1>10, <1>12, <1>13, <1>14, <1>15 DEF MInv

(* The TTL monitor is armed before the worker is started.                  *)
LEMMA ArmMInv == MInv /\ Arm => MInv'
<1> SUFFICES ASSUME MInv, Arm PROVE MInv'
  OBVIOUS
<1>1. TypeOK' /\ Serving' /\ Known'
  BY DEF MInv, Arm, TypeOK, Serving, Known, history
<1>2. SlotsAreExact'
  BY SlotsKept DEF MInv, Arm, Running
<1>3. Ended' /\ AbandonedIsCancelled' /\ AnswersAreFinal'
  BY DEF MInv, Arm, Ended, AbandonedIsCancelled, AnswersAreFinal, history
<1> QED
  BY <1>1, <1>2, <1>3 DEF MInv

(* A monitor that cannot be started gives the slot back.                   *)
LEMMA ArmFailsMInv == MInv /\ ArmFails => MInv'
<1> SUFFICES ASSUME MInv, ArmFails PROVE MInv'
  OBVIOUS
<1>1. pc = "Arm" /\ pc' = "Read" /\ cur \in tasks /\ worker[cur] = "none" /\ tasks' = tasks \ {cur}
  BY DEF MInv, ArmFails, Serving
<1>2. SlotsAreExact' /\ active' \in 0..MAX_CONCURRENT_TASKS
  <2>1. Slots' = Slots
    BY DEF Slots, Running, ArmFails
  <2>2. active' = Cardinality(Slots) /\ active = Cardinality(Slots) + 1
    BY <1>1, SlotsFinite DEF MInv, SlotsAreExact, ArmFails, Slots
  <2>3. active' \in 0..MAX_CONCURRENT_TASKS
    <3>1. active \in 0..MAX_CONCURRENT_TASKS /\ MAX_CONCURRENT_TASKS \in Nat
      BY DEF MInv, TypeOK
    <3>2. Cardinality(Slots) \in Nat
      BY SlotsFinite
    <3> QED
      BY <2>2, <3>1, <3>2
  <2> QED
    <3>1. active' = Cardinality(Slots') /\ active' <= MAX_CONCURRENT_TASKS /\ Cardinality(Slots) \in Nat
      BY <2>1, <2>2, <2>3, SlotsFinite
    <3> QED
      BY <1>1, <2>1, <2>3, <3>1 DEF SlotsAreExact, Slots
<1>3. TypeOK'
  <2>1. IsFiniteSet(tasks) /\ Cardinality(tasks) \in Nat
    BY FS_Subset, FS_CardinalityType DEF MInv, TypeOK
  <2>2. Cardinality(tasks') <= Cardinality(tasks) /\ Cardinality(tasks') \in Nat
    BY <1>1, <2>1, FS_Subset, FS_CardinalityType
  <2>3. Cardinality(tasks') <= MAX_TASKS
    BY <2>1, <2>2 DEF MInv, TypeOK
  <2> QED
    BY <1>2, <2>3 DEF MInv, ArmFails, TypeOK, history
<1>4. Serving' /\ Known'
  BY <1>1 DEF MInv, ArmFails, Serving, Known, history
<1>5. Ended' /\ AbandonedIsCancelled' /\ AnswersAreFinal'
  BY <1>1 DEF MInv, ArmFails, Ended, AbandonedIsCancelled, AnswersAreFinal, history
<1> QED
  BY <1>2, <1>3, <1>4, <1>5 DEF MInv

(* The worker takes over the slot of the task that was being created.      *)
LEMMA SpawnMInv == MInv /\ Spawn => MInv'
<1> SUFFICES ASSUME MInv, Spawn PROVE MInv'
  OBVIOUS
<1>1. /\ pc = "Spawn" /\ pc' = "Read" /\ cur \in tasks /\ cur \in Task /\ worker[cur] = "none"
      /\ worker \in [Task -> {"none", "tool", "release", "done"} \cup Outcome]
      /\ worker' = [worker EXCEPT ![cur] = "tool"] /\ told[cur] # {}
  BY DEF MInv, Spawn, Serving, TypeOK
<1>2. SlotsAreExact'
  <2>1. Slots' = Slots \cup {cur} /\ cur \notin Slots
    BY <1>1 DEF Slots, Running, Outcome
  <2>2. Cardinality(Slots') = Cardinality(Slots) + 1
    BY <2>1, SlotsFinite, FS_AddElement
  <2> QED
    BY <1>1, <2>2, SlotsFinite DEF MInv, SlotsAreExact, Spawn, Slots
<1>3. TypeOK' /\ Serving' /\ Known'
  BY <1>1 DEF MInv, Spawn, TypeOK, Serving, Known, history
<1>4. Ended' /\ AnswersAreFinal'
  BY <1>1 DEF MInv, Spawn, Ended, AnswersAreFinal, history
<1>5. AbandonedIsCancelled'
  BY <1>1 DEF MInv, Spawn, AbandonedIsCancelled
<1> QED
  BY <1>2, <1>3, <1>4, <1>5 DEF MInv

(* The answer to tasks/result is what the record holds for good.           *)
LEMMA AnswerMInv == MInv /\ (LockResult \/ Wakeup) => MInv'
<1> SUFFICES ASSUME MInv, LockResult \/ Wakeup PROVE MInv'
  OBVIOUS
<1>1. AnswerOrWait /\ pc \in {"Lock", "Wait"} /\ cur \in Task /\ TypeOK
  BY DEF MInv, LockResult, Wakeup, Serving
<1>2. CASE ~Terminal(record[cur])
  <2>1. TypeOK'
    BY <1>1, <1>2 DEF AnswerOrWait, TypeOK, history
  <2> QED
    BY <1>1, <1>2, <2>1, SessionStep DEF AnswerOrWait, history
<1>3. CASE Terminal(record[cur])
  <2>1. /\ pc' = "Read" /\ cur' = NoTask
        /\ told' = [told EXCEPT ![cur] = @ \cup {record[cur].status}]
        /\ answered' = [answered EXCEPT ![cur] = @ \cup {record[cur].result}]
        /\ UNCHANGED <<lifecycle, latest, tasks, record, worker, monitor, active, closeBy, clock>>
        /\ notified' = FALSE
    BY <1>1, <1>3 DEF AnswerOrWait
  <2>2. record[cur].status \in Status /\ record[cur].result \in Result
    BY <1>1 DEF TypeOK
  <2>3. TypeOK'
    BY <1>1, <2>1, <2>2 DEF TypeOK
  <2>4. Serving' /\ Known'
    BY <1>1, <2>1 DEF MInv, Serving, Known, TypeOK
  <2>5. SlotsAreExact'
    BY <1>1, <2>1, SlotsKept DEF MInv, Running
  <2>6. AbandonedIsCancelled'
    BY <1>1, <2>1 DEF MInv, AbandonedIsCancelled
  <2>7. Ended'
    BY <1>1, <1>3, <2>1 DEF MInv, Ended, TypeOK
  <2>8. AnswersAreFinal'
    <3> SUFFICES ASSUME NEW t \in Task
                 PROVE  /\ \A x \in told'[t] : x # "Working" => record[t].status = x
                        /\ answered'[t] \subseteq {record[t].result}
                        /\ \A r \in answered'[t] : record[t].status = "Cancelled" <=> r \notin Outcome
      BY <2>1 DEF AnswersAreFinal
    <3>1. CASE t # cur
      BY <1>1, <2>1, <3>1 DEF MInv, AnswersAreFinal, TypeOK
    <3>2. CASE t = cur
      <4>1. told'[t] = told[t] \cup {record[t].status} /\ answered'[t] = answered[t] \cup {record[t].result}
        BY <1>1, <2>1, <3>2 DEF TypeOK
      <4>2. record[t].status = "Cancelled" <=> record[t].result \notin Outcome
        BY <1>1, <1>3, <2>2, <3>2 DEF MInv, Ended, Terminal, Status
      <4> QED
        BY <4>1, <4>2 DEF MInv, AnswersAreFinal
    <3> QED
      BY <3>1, <3>2
  <2> QED
    BY <2>3, <2>4, <2>5, <2>6, <2>7, <2>8 DEF MInv
<1> QED
  BY <1>2, <1>3

(* The worker threads.                                                     *)
LEMMA ToolReturnsMInv ==
  ASSUME MInv, NEW t \in Task, NEW o \in Outcome, ToolReturns(t, o)
  PROVE  MInv'
<1>1. TypeOK' /\ Serving' /\ Known'
  BY DEF MInv, ToolReturns, TypeOK, Serving, Known, Outcome, server, history
<1>2. SlotsAreExact'
  <2>1. \A u \in Task : Running(u)' <=> Running(u)
    BY DEF MInv, TypeOK, ToolReturns, Running, Outcome
  <2> QED
    BY <2>1, SlotsKept DEF MInv, ToolReturns, server
<1>3. Ended' /\ AbandonedIsCancelled' /\ AnswersAreFinal'
  BY DEF MInv, TypeOK, ToolReturns, Ended, AbandonedIsCancelled, AnswersAreFinal, Outcome, server,
         history
<1> QED
  BY <1>1, <1>2, <1>3 DEF MInv

(* A worker settles its task unless it was settled before.                 *)
LEMMA FinishTaskMInv == ASSUME MInv, NEW t \in Task, FinishTask(t) PROVE MInv'
<1>1. /\ TypeOK /\ worker[t] \in Outcome /\ worker' = [worker EXCEPT ![t] = "release"]
      /\ UNCHANGED <<lifecycle, latest, pc, cur, tasks, monitor, active, told, answered, closeBy, clock>>
      /\ notified' \in BOOLEAN
  BY DEF MInv, FinishTask, NotifyAll, server, history
<1>2. record \in [Task -> Record]
  BY <1>1 DEF TypeOK, Record
<1>3. /\ record' \in [Task -> Record]
      /\ \A u \in Task \ {t} : record'[u] = record[u]
      /\ record'[t].cancellation = record[t].cancellation
      /\ Terminal(record[t]) => record' = record
      /\ ~Terminal(record[t]) =>
           record'[t].status \in {"Completed", "Failed"} /\ record'[t].result \in Outcome
  <2>1. CASE Terminal(record[t])
    BY <1>2, <2>1 DEF FinishTask
  <2>2. CASE ~Terminal(record[t])
    <3>1. PICK st \in {"Completed", "Failed"} :
            record' = [record EXCEPT ![t].status = st, ![t].result = worker[t]]
      BY <2>2 DEF FinishTask
    <3>2. record \in [Task -> Record] /\ worker[t] \in Outcome
      BY <1>1, <1>2 DEF TypeOK
    <3>3. [record[t] EXCEPT !.status = st, !.result = worker[t]] \in Record
      BY <3>2 DEF Record, Status, Result
    <3>4. record' \in [Task -> Record]
      BY <3>1, <3>2, <3>3
    <3>5. /\ \A u \in Task \ {t} : record'[u] = record[u]
          /\ record'[t].cancellation = record[t].cancellation
          /\ record'[t].status = st /\ record'[t].result = worker[t]
      BY <3>1, <3>2 DEF Record
    <3> QED
      BY <2>2, <3>2, <3>4, <3>5
  <2> QED
    BY <2>1, <2>2
<1>4. TypeOK'
  <2>1. worker' \in [Task -> {"none", "tool", "release", "done"} \cup Outcome]
    BY <1>1 DEF TypeOK
  <2>2. record' \in [Task -> [status: Status, result: Result, cancellation: BOOLEAN,
                              expires: 0..MaxTime]]
    BY <1>3 DEF Record
  <2> QED
    BY <1>1, <2>1, <2>2 DEF TypeOK
<1>5. Serving' /\ Known'
  BY <1>1 DEF MInv, Serving, Known, TypeOK, Outcome
<1>6. Ended'
  <2>1. ASSUME NEW u \in Task, u # t
        PROVE  record'[u] = record[u] /\ worker'[u] = worker[u]
    BY <1>1, <1>3, <2>1 DEF TypeOK
  <2>2. worker'[t] = "release" /\ record[t].status \in Status
    BY <1>1, <1>2 DEF TypeOK, Record
  <2>3. CASE Terminal(record[t])
    <3>1. record' = record
      BY <1>3, <2>3
    <3> QED
      BY <1>1, <2>1, <2>2, <3>1 DEF MInv, Ended
  <2>4. CASE ~Terminal(record[t])
    <3>1. record'[t].status \in {"Completed", "Failed"} /\ record'[t].result \in Outcome
      BY <1>3, <2>4
    <3>2. Terminal(record'[t])
      BY <3>1 DEF Terminal
    <3> QED
      BY <1>1, <2>1, <2>2, <3>1, <3>2 DEF MInv, Ended
  <2> QED
    BY <2>3, <2>4
<1>7. SlotsAreExact'
  <2>1. \A u \in Task : Running(u)' <=> Running(u)
    BY <1>1 DEF TypeOK, Running, Outcome
  <2> QED
    BY <1>1, <2>1, SlotsKept DEF MInv
<1>8. AbandonedIsCancelled'
  BY <1>1, <1>3 DEF MInv, AbandonedIsCancelled, TypeOK
<1>9. AnswersAreFinal'
  BY <1>1, <1>3 DEF MInv, AnswersAreFinal, Ended, Terminal
<1> QED
  BY <1>4, <1>5, <1>6, <1>7, <1>8, <1>9 DEF MInv

(* A worker gives its slot back once.                                      *)
LEMMA ReleaseSlotMInv == ASSUME MInv, NEW t \in Task, ReleaseSlot(t) PROVE MInv'
<1>1. /\ TypeOK /\ worker[t] = "release" /\ worker' = [worker EXCEPT ![t] = "done"]
      /\ active' = active - 1
      /\ UNCHANGED <<server, notified, tasks, record, monitor, history, closeBy, clock>>
  BY DEF MInv, ReleaseSlot
<1>2. Slots' = Slots \ {t} /\ t \in Slots
  BY <1>1 DEF Slots, Running, TypeOK, Outcome
<1>3. Cardinality(Slots') = Cardinality(Slots) - 1 /\ Cardinality(Slots') \in Nat
  <2>1. IsFiniteSet(Slots \ {t}) /\ Cardinality(Slots \ {t}) = Cardinality(Slots) - 1
    BY <1>2, SlotsFinite, FS_RemoveElement
  <2> QED
    BY <1>2, <2>1, FS_CardinalityType
<1>4. SlotsAreExact' /\ active' \in 0..MAX_CONCURRENT_TASKS
  <2>1. /\ active \in 0..MAX_CONCURRENT_TASKS /\ MAX_CONCURRENT_TASKS \in Nat
        /\ active = Cardinality(Slots) + (IF pc \in {"Arm", "Spawn"} THEN 1 ELSE 0)
    BY <1>1 DEF MInv, TypeOK, SlotsAreExact, Slots
  <2>2. /\ active' = Cardinality(Slots') + (IF pc \in {"Arm", "Spawn"} THEN 1 ELSE 0)
        /\ active' \in 0..MAX_CONCURRENT_TASKS /\ active' <= MAX_CONCURRENT_TASKS
    BY <1>1, <1>3, <2>1, SlotsFinite
  <2> QED
    BY <1>1, <2>2 DEF SlotsAreExact, Slots, server
<1>5. TypeOK' /\ Serving' /\ Known'
  BY <1>1, <1>4 DEF MInv, TypeOK, Serving, Known, server, history
<1>6. Ended' /\ AbandonedIsCancelled' /\ AnswersAreFinal'
  BY <1>1 DEF MInv, TypeOK, Ended, AbandonedIsCancelled, AnswersAreFinal, server, history
<1> QED
  BY <1>4, <1>5, <1>6 DEF MInv

(* The monitor ends a task whose time is over.                             *)
LEMMA MonitorExpiresMInv == ASSUME MInv, NEW t \in Task, MonitorExpires(t) PROVE MInv'
<1>1. /\ TypeOK /\ record' = [record EXCEPT ![t] = Expire(record[t])]
      /\ monitor' = [monitor EXCEPT ![t] = "done"]
      /\ UNCHANGED <<lifecycle, latest, pc, cur, tasks, worker, active, told, answered, closeBy, clock>>
      /\ notified' \in BOOLEAN
  BY DEF MInv, MonitorExpires, NotifyAll, server, history, TypeOK
<1>2. record \in [Task -> Record] /\ record[t] \in Record
  BY <1>1 DEF TypeOK, Record
<1>3. record' \in [Task -> Record]
  BY <1>1, <1>2, ExpireEffect
<1>4. \A u \in Task : Kept(record[u], record'[u]) \/ Cancelled(record[u], record'[u])
  BY <1>1, <1>2, ExpireSettles
<1>5. TypeOK' /\ Serving' /\ Known'
  BY <1>1, <1>3 DEF MInv, TypeOK, Record, Serving, Known
<1>6. Ended'
  BY <1>1, <1>4 DEF MInv, Ended, Kept, Cancelled, Terminal
<1>7. SlotsAreExact'
  BY <1>1, SlotsKept DEF MInv, Running
<1>8. AbandonedIsCancelled'
  BY <1>1, <1>4 DEF MInv, AbandonedIsCancelled, Kept, Cancelled
<1>9. AnswersAreFinal'
  BY <1>1, <1>4 DEF MInv, AnswersAreFinal, Ended, Kept, Cancelled, Terminal
<1> QED
  BY <1>5, <1>6, <1>7, <1>8, <1>9 DEF MInv

(* The server tells every tool to stop when it closes.                     *)
LEMMA CloseMInv == MInv /\ Close => MInv'
<1> SUFFICES ASSUME MInv, Close PROVE MInv'
  OBVIOUS
<1>1. /\ TypeOK /\ pc = "Read" /\ pc' = "Closing" /\ closeBy' \in Nat
      /\ UNCHANGED <<lifecycle, latest, cur, notified, tasks, worker, monitor, active, told, answered,
                     clock>>
  BY DEF MInv, Close, history, TypeOK
<1>2. \A t \in Task : record[t] \in Record
  BY <1>1 DEF TypeOK, Record
<1>3. \A t \in Task : record'[t] = IF t \in tasks THEN [record[t] EXCEPT !.cancellation = TRUE] ELSE record[t]
  BY DEF Close
<1>4. \A t \in Task : /\ record'[t] \in Record
                      /\ record'[t].status = record[t].status /\ record'[t].result = record[t].result
                      /\ record[t].cancellation \/ t \in tasks => record'[t].cancellation
  BY <1>2, <1>3 DEF Record
<1>5. TypeOK'
  <2>1. record' \in [Task -> Record]
    BY <1>4 DEF Close
  <2> QED
    BY <1>1, <2>1 DEF TypeOK, Record
<1>6. Serving' /\ Known' /\ Ended' /\ AnswersAreFinal'
  BY <1>1, <1>4 DEF MInv, Serving, Known, Ended, AnswersAreFinal, Terminal
<1>7. SlotsAreExact'
  BY <1>1, SlotsKept DEF MInv, Running
<1>8. AbandonedIsCancelled'
  BY <1>1, <1>4 DEF MInv, AbandonedIsCancelled
<1> QED
  BY <1>5, <1>6, <1>7, <1>8 DEF MInv

(* Time passes.                                                            *)
LEMMA TickMInv == MInv /\ Tick => MInv'
<1> SUFFICES ASSUME MInv, Tick PROVE MInv'
  OBVIOUS
<1>1. TypeOK'
  BY DEF MInv, Tick, TypeOK, server, history
<1>2. SlotsAreExact'
  BY SlotsKept DEF MInv, Tick, Running, server
<1> QED
  BY <1>1, <1>2 DEF MInv, Tick, Serving, Known, Ended, AbandonedIsCancelled, AnswersAreFinal, server,
                    history

(* MInv is inductive.                                                      *)
LEMMA MInvNext == MInv /\ [Next]_vars => MInv'
<1> SUFFICES ASSUME MInv, [Next]_vars PROVE MInv'
  OBVIOUS
<1>1. CASE Requests
  <2>1. ASSUME NEW t \in Task, GetTask(t) PROVE MInv'
    BY <2>1, TellMInv DEF GetTask
  <2>2. CASE ListTasks
    BY <2>2, TellMInv DEF ListTasks
  <2> QED
    BY <1>1, <2>1, <2>2, SessionMInv, CreateRefusedMInv, CloseMInv, CancelTaskMInv,
       GetTaskResultMInv, CreateTaskMInv DEF Requests
<1>2. CASE Serve
  BY <1>2, ArmMInv, ArmFailsMInv, SpawnMInv, AnswerMInv, SessionMInv DEF Serve
<1>3. CASE SpuriousWakeup
  BY <1>3, SessionMInv
<1>4. ASSUME NEW t \in Task, EndWorker(t) \/ MonitorExpires(t) \/ \E o \in Outcome : ToolReturns(t, o)
      PROVE  MInv'
  BY <1>4, ToolReturnsMInv, FinishTaskMInv, ReleaseSlotMInv, MonitorExpiresMInv DEF EndWorker
<1>5. CASE Tick
  BY <1>5, TickMInv
<1>6. CASE UNCHANGED vars
  <2>1. SlotsAreExact'
    BY <1>6, SlotsKept DEF MInv, Running, vars, server
  <2> QED
    BY <1>6, <2>1 DEF MInv, TypeOK, Serving, Known, Ended, AbandonedIsCancelled, AnswersAreFinal, vars,
                      server, history
<1> QED
  BY <1>1, <1>2, <1>3, <1>4, <1>5, <1>6 DEF Next
-----------------------------------------------------------------------------
(* MInv holds in every state of the server.                                *)
THEOREM MInvariance == Spec => []MInv
BY MInvInit, MInvNext, PTL DEF Spec

(* The state has its type; at most MAX_TASKS tasks are retained and the    *)
(* counter stays between 0 and MAX_CONCURRENT_TASKS.                       *)
THEOREM TypeCorrect == Spec => []TypeOK
<1>1. MInv => TypeOK
  BY DEF MInv
<1> QED
  BY <1>1, MInvariance, PTL

(* active_tasks counts the workers that hold a slot, exactly: every path   *)
(* of create_task and of the worker gives back the one slot it reserved.   *)
THEOREM SlotCounterIsExact == Spec => []SlotsAreExact
<1>1. MInv => SlotsAreExact
  BY DEF MInv
<1> QED
  BY <1>1, MInvariance, PTL

(* A tool whose task left the table, or that runs while the server closes, *)
(* has its cancellation flag set: remove_expired_tasks and Drop set it.    *)
THEOREM AbandonedToolsAreCancelled == Spec => []AbandonedIsCancelled
<1>1. MInv => AbandonedIsCancelled
  BY DEF MInv
<1> QED
  BY <1>1, MInvariance, PTL

(* What tasks/get, tasks/list, tasks/cancel and tasks/result have said of  *)
(* a task that ended stays true, whichever of worker, monitor and client   *)
(* comes late.                                                             *)
THEOREM AnswersStayFinal == Spec => []AnswersAreFinal
<1>1. MInv => AnswersAreFinal
  BY DEF MInv
<1> QED
  BY <1>1, MInvariance, PTL
=============================================================================
