--------------------------- MODULE BoundedProcess ---------------------------
(***************************************************************************)
(* The bounded subprocess runner (bounded_process.rs): one supervisor      *)
(* thread, a reader thread for each output stream, the bounded event       *)
(* channel between them, and the supervised child with one descendant.     *)
(*                                                                         *)
(* Bytes are counted, not kept.  Time is a clock of ticks.  The Unix       *)
(* build is modelled: the child leads a process group of its own unless    *)
(* an outer supervisor owns the tree (ProcessTreeMode).                    *)
(***************************************************************************)
EXTENDS Integers, Sequences, FiniteSets, FiniteSetsExt

CONSTANTS
    Request,    \* the deadlines asked for: [kind, at, timeout]
    Limit,      \* stdout_bytes and stderr_bytes of ProcessLimits
    MaxWrite,   \* bound on the bytes written to each stream
    PipeSize,   \* capacity of a pipe
    Chunk,      \* READ_CHUNK_BYTES
    Capacity,   \* EVENT_CHANNEL_CAPACITY
    MaxTime,    \* bound on the clock
    Isolation   \* the tree modes to consider

Stream == {"stdout", "stderr"}
Proc == {"child", "descendant"}
TreeMode == {"Isolated", "InheritSupervisor"}

ASSUME ProcessAssumption ==
    /\ {Limit, MaxWrite} \subseteq [Stream -> Nat]
    /\ MaxTime \in Nat
    /\ {PipeSize, Chunk, Capacity} \subseteq Nat \ {0}
    /\ Request \subseteq [kind: {"After", "At"}, at: Nat, timeout: Nat]
    /\ Isolation \subseteq TreeMode

Failure == {"Cancelled", "Timeout", "Wait", "Read", "Limit"}
Unstarted == {"InvalidTimeout", "Spawn"}   \* failures that precede the spawn
None == "none"

VARIABLES
    pc,         \* where run_bounded_inner is
    mode,       \* ProcessTreeMode
    deadline,   \* the effective deadline
    failure,    \* the local variable of that name
    status,     \* whether the exit status was observed
    treeKilled, \* tree_termination_attempted
    eof,        \* the streams whose Eof was handled
    got,        \* bytes captured per stream
    result,     \* what the runner returned
    reader,     \* the reader threads: state, total, and the event to send
    chan,       \* the events in the channel
    open,       \* whether the receiver exists
    proc,       \* the processes of the tree
    holds,      \* the write ends each process has open
    pipe,       \* bytes in each pipe
    wrote,      \* bytes ever written to each stream
    reused,     \* when, if ever, a foreign process group took over the number
    strayKill,  \* a foreign process group was killed
    cancelled,  \* the cancellation flag
    clock

supervisor == <<pc, mode, deadline, failure, status, treeKilled, eof, got, result, open>>
tree == <<proc, holds, wrote, reused, strayKill>>
environment == <<cancelled, clock>>
vars == <<supervisor, tree, environment, reader, chan, pipe>>

Event == [kind: {"Data", "Eof", "Error", "Limit"}, stream: Stream, bytes: 0..Chunk]
Ev(k, s, n) == [kind |-> k, stream |-> s, bytes |-> n]
ReaderState == {"none", "reading", "sending", "done", "panicked"}
NoEvent == Ev("Eof", "stdout", 0)
Reuse == {"no", "beforeKill", "later"}   \* before the kill that follows the reap, or later

TypeOK ==
    /\ pc \in {"Start", "Spawn", "SpawnReaders", "Top", "TryWait", "KillTree",
               "Drain", "Recv", "Terminate", "Reap", "Join", "Done"}
    /\ mode \in TreeMode /\ deadline \in Nat
    /\ failure \in Failure \cup {None}
    /\ status \in BOOLEAN /\ treeKilled \in BOOLEAN
    /\ eof \subseteq Stream
    /\ \A s \in Stream : got[s] \in 0..MaxWrite[s]
    /\ result \in Failure \cup Unstarted \cup {None, "Ok"}
    /\ reader \in [Stream -> [st: ReaderState, total: Nat, ev: Event]]
    /\ chan \in Seq(Event) /\ Len(chan) <= Capacity
    /\ open \in BOOLEAN
    /\ proc \in [Proc -> {"none", "running", "escaped", "zombie", "reaped", "gone"}]
    /\ holds \in [Proc -> SUBSET Stream]
    /\ pipe \in [Stream -> 0..PipeSize]
    /\ \A s \in Stream : wrote[s] \in 0..MaxWrite[s]
    /\ reused \in Reuse /\ {strayKill, cancelled} \subseteq BOOLEAN
    /\ clock \in 0..MaxTime

Init ==
    /\ pc = "Start" /\ mode \in Isolation /\ deadline = 0
    /\ failure = None /\ status = FALSE /\ treeKilled = FALSE
    /\ eof = {} /\ got = [s \in Stream |-> 0] /\ result = None
    /\ reader = [s \in Stream |-> [st |-> "none", total |-> 0, ev |-> NoEvent]]
    /\ chan = <<>> /\ open = TRUE
    /\ proc = [x \in Proc |-> "none"] /\ holds = [x \in Proc |-> {}]
    /\ pipe = [s \in Stream |-> 0] /\ wrote = [s \in Stream |-> 0]
    /\ reused = "no" /\ strayKill = FALSE
    /\ cancelled = FALSE /\ clock = 0

-----------------------------------------------------------------------------
(* Before the spawn.                                                       *)

\* The earlier of the absolute deadline and now plus the relative cap.
EffectiveDeadline(r) ==
    IF r.kind = "After" THEN clock + r.timeout ELSE Min({r.at, clock + r.timeout})

\* Which error, if any, rejects the request before anything is started.
Rejection(r) ==
    CASE cancelled -> "Cancelled"
      [] r.kind = "At" /\ r.at <= clock -> "Timeout"
      [] r.timeout = 0 -> "InvalidTimeout"
      [] OTHER -> None

Start(r) ==
    /\ pc = "Start" /\ EffectiveDeadline(r) <= MaxTime
    /\ IF Rejection(r) = None
       THEN pc' = "Spawn" /\ deadline' = EffectiveDeadline(r) /\ UNCHANGED result
       ELSE pc' = "Done" /\ result' = Rejection(r) /\ UNCHANGED deadline
    /\ UNCHANGED <<mode, failure, status, treeKilled, eof, got, open, tree, environment,
                   reader, chan, pipe>>

Spawn ==
    /\ pc = "Spawn"
    /\ pc' = "SpawnReaders"
    /\ proc' = [proc EXCEPT !["child"] = "running"]
    /\ holds' = [holds EXCEPT !["child"] = Stream]
    /\ UNCHANGED <<mode, deadline, failure, status, treeKilled, eof, got, result, open, wrote,
                   reused, strayKill, environment, reader, chan, pipe>>

SpawnFails ==
    /\ pc = "Spawn"
    /\ pc' = "Done" /\ result' = "Spawn"
    /\ UNCHANGED <<mode, deadline, failure, status, treeKilled, eof, got, open, tree,
                   environment, reader, chan, pipe>>

\* The streams whose reader thread was started before an error: stdout comes
\* first.
StartedBefore == {{}, {"stdout"}, Stream}

\* Both readers start, or one cannot be started and the child is cleaned up.
SpawnReaders(started) ==
    /\ pc = "SpawnReaders"
    /\ reader' = [s \in Stream |-> IF s \in started
                                   THEN [reader[s] EXCEPT !.st = "reading"] ELSE reader[s]]
    /\ IF started = Stream
       THEN pc' = "Top" /\ UNCHANGED failure
       ELSE pc' = "Terminate" /\ failure' = "Read"
    /\ UNCHANGED <<mode, deadline, status, treeKilled, eof, got, result, open, tree,
                   environment, chan, pipe>>

-----------------------------------------------------------------------------
(* The supervision loop.                                                   *)

\* The cancellation flag and the deadline are looked at first in every round,
\* and overrule a failure of the round before.
Top ==
    /\ pc = "Top"
    /\ failure' = IF cancelled THEN "Cancelled"
                  ELSE IF clock >= deadline THEN "Timeout" ELSE failure
    /\ pc' = IF failure' # None THEN "Terminate"
             ELSE IF status THEN "Drain" ELSE "TryWait"
    /\ UNCHANGED <<mode, deadline, status, treeKilled, eof, got, result, open, tree,
                   environment, reader, chan, pipe>>

TryWait ==
    /\ pc = "TryWait"
    /\ IF proc["child"] = "zombie"
       THEN /\ status' = TRUE /\ treeKilled' = TRUE
            /\ proc' = [proc EXCEPT !["child"] = "reaped"]
            /\ pc' = "KillTree"
       ELSE pc' = "Drain" /\ UNCHANGED <<status, treeKilled, proc>>
    /\ UNCHANGED <<mode, deadline, failure, eof, got, result, open, holds, wrote, reused,
                   strayKill, environment, reader, chan, pipe>>

TryWaitFails ==
    /\ pc = "TryWait"
    /\ failure' = "Wait" /\ pc' = "Terminate"
    /\ UNCHANGED <<mode, deadline, status, treeKilled, eof, got, result, open, tree,
                   environment, reader, chan, pipe>>

\* The members of the process group: the child until it is reaped, and the
\* descendant unless it left for another session.
Group == {x \in Proc : proc[x] \in {"running", "zombie"}}

\* SIGKILL of a set of processes; the dead child waits for its reap.
Killed(S) ==
    /\ proc' = [x \in Proc |-> IF x \in S /\ proc[x] \in {"running", "escaped"}
                               THEN (IF x = "child" THEN "zombie" ELSE "gone") ELSE proc[x]]
    /\ holds' = [x \in Proc |-> IF x \in S THEN {} ELSE holds[x]]

\* kill(-pgid): if the group is empty and its number was taken by another
\* group, that group is hit.
KillGroup ==
    /\ Killed(Group)
    /\ strayKill' = (strayKill \/ (Group = {} /\ reused # "no"))

\* Mutant: descendants of an exited child are left alone.
KillTreeSkipped ==
    /\ pc = "KillTree"
    /\ pc' = "Drain"
    /\ UNCHANGED <<mode, deadline, failure, status, treeKilled, eof, got, result, open, tree,
                   environment, reader, chan, pipe>>

\* terminate_remaining_descendants
KillTree ==
    /\ pc = "KillTree"
    /\ pc' = "Drain"
    /\ IF mode = "Isolated" THEN KillGroup ELSE UNCHANGED <<proc, holds, strayKill>>
    /\ UNCHANGED <<mode, deadline, failure, status, treeKilled, eof, got, result, open, wrote,
                   reused, environment, reader, chan, pipe>>

\* handle_event on the first event of the channel.
HandleEvent ==
    LET e == Head(chan) IN
    /\ chan' = Tail(chan)
    /\ got' = IF e.kind = "Data" THEN [got EXCEPT ![e.stream] = @ + e.bytes] ELSE got
    /\ eof' = IF e.kind = "Eof" THEN eof \cup {e.stream} ELSE eof
    /\ failure' = CASE e.kind = "Error" -> "Read"
                    [] e.kind = "Limit" -> "Limit"
                    [] OTHER -> failure

\* No event will ever come: the channel is empty and both senders are dropped.
Disconnected == \A s \in Stream : reader[s].st \in {"done", "panicked"}

\* Mutant: an observed exit ends the loop although a stream is not at its end.
DrainUntilExit ==
    /\ pc = "Drain"
    /\ IF chan # <<>>
       THEN /\ HandleEvent
            /\ pc' = IF failure' # None THEN "Terminate"
                     ELSE IF status THEN "Join" ELSE "Drain"
       ELSE /\ failure' = IF Disconnected /\ eof # Stream THEN "Read" ELSE failure
            /\ pc' = IF failure' # None THEN "Terminate"
                     ELSE IF status /\ eof = Stream THEN "Join" ELSE "Recv"
            /\ UNCHANGED <<chan, got, eof>>
    /\ UNCHANGED <<mode, deadline, status, treeKilled, result, open, tree, environment,
                   reader, pipe>>

\* try_recv until the channel is empty or an event is a failure.
Drain ==
    /\ pc = "Drain"
    /\ IF chan # <<>>
       THEN /\ HandleEvent
            /\ pc' = IF failure' = None THEN "Drain" ELSE "Terminate"
       ELSE /\ failure' = IF Disconnected /\ eof # Stream THEN "Read" ELSE failure
            /\ pc' = IF failure' # None THEN "Terminate"
                     ELSE IF status /\ eof = Stream THEN "Join" ELSE "Recv"
            /\ UNCHANGED <<chan, got, eof>>
    /\ UNCHANGED <<mode, deadline, status, treeKilled, result, open, tree, environment,
                   reader, pipe>>

\* recv_timeout: an event, a timeout of the poll interval, or a disconnection.
Recv ==
    /\ pc = "Recv"
    /\ pc' = "Top"
    /\ \/ chan # <<>> /\ HandleEvent
       \/ /\ chan = <<>>
          /\ failure' = IF Disconnected /\ eof # Stream THEN "Read" ELSE failure
          /\ UNCHANGED <<chan, got, eof>>
    /\ UNCHANGED <<mode, deadline, status, treeKilled, result, open, tree, environment,
                   reader, pipe>>

\* Mutant: the process group is signalled again after the exit was observed.
TerminateAgain ==
    /\ pc = "Terminate"
    /\ pc' = "Reap"
    /\ IF mode = "Isolated" THEN KillGroup ELSE Killed({"child"}) /\ UNCHANGED strayKill
    /\ UNCHANGED <<mode, deadline, failure, status, treeKilled, eof, got, result, open, wrote,
                   reused, environment, reader, chan, pipe>>

\* terminate_and_reap, unless the tree was already terminated: then the
\* process group must not be signalled again.
Terminate ==
    /\ pc = "Terminate"
    /\ pc' = "Reap"
    /\ CASE treeKilled -> UNCHANGED <<proc, holds, strayKill>>
         [] ~treeKilled /\ mode = "Isolated" -> KillGroup
         [] OTHER -> Killed({"child"}) /\ UNCHANGED strayKill
    /\ UNCHANGED <<mode, deadline, failure, status, treeKilled, eof, got, result, open, wrote,
                   reused, environment, reader, chan, pipe>>

\* Mutant: a failed run waits for its readers.
ReapJoins ==
    /\ pc = "Reap"
    /\ proc["child"] \in {"zombie", "reaped"}
    /\ \A s \in Stream : reader[s].st \in {"none", "done", "panicked"}
    /\ proc' = [proc EXCEPT !["child"] = "reaped"]
    /\ open' = FALSE /\ chan' = <<>>
    /\ pc' = "Done" /\ result' = failure
    /\ UNCHANGED <<mode, deadline, failure, status, treeKilled, eof, got, holds, wrote, reused,
                   strayKill, environment, reader, pipe>>

\* Mutant: a failed run keeps the receiver of the channel.
ReapKeepsReceiver ==
    /\ pc = "Reap"
    /\ proc["child"] \in {"zombie", "reaped"}
    /\ proc' = [proc EXCEPT !["child"] = "reaped"]
    /\ pc' = "Done" /\ result' = failure
    /\ UNCHANGED <<mode, deadline, failure, status, treeKilled, eof, got, holds, wrote, reused,
                   strayKill, environment, reader, pipe, open, chan>>

\* child.wait, then the receiver is dropped and the readers are detached.
Reap ==
    /\ pc = "Reap"
    /\ proc["child"] \in {"zombie", "reaped"}
    /\ proc' = [proc EXCEPT !["child"] = "reaped"]
    /\ open' = FALSE /\ chan' = <<>>
    /\ pc' = "Done" /\ result' = failure
    /\ UNCHANGED <<mode, deadline, failure, status, treeKilled, eof, got, holds, wrote, reused,
                   strayKill, environment, reader, pipe>>

\* Normal completion joins both readers.
Join ==
    /\ pc = "Join"
    /\ Disconnected
    /\ pc' = "Done" /\ open' = FALSE
    /\ result' = IF \E s \in Stream : reader[s].st = "panicked" THEN "Read" ELSE "Ok"
    /\ UNCHANGED <<mode, deadline, failure, status, treeKilled, eof, got, tree, environment,
                   reader, chan, pipe>>

Supervise ==
    \/ Spawn \/ SpawnFails \/ \E started \in StartedBefore : SpawnReaders(started)
    \/ Top \/ TryWait \/ TryWaitFails \/ KillTree \/ Drain \/ Recv
    \/ Terminate \/ Reap \/ Join

-----------------------------------------------------------------------------
(* A reader thread.                                                        *)

Held(s) == \E x \in Proc : s \in holds[x]

Remaining(s) == IF Limit[s] > reader[s].total THEN Limit[s] - reader[s].total ELSE 0

\* One byte more than the limit is asked for, to see an overflow.
ReadSize(s) == Max({Min({Chunk, Remaining(s) + 1}), 1})

Sending(s, e, total) ==
    reader' = [reader EXCEPT ![s] = [st |-> "sending", total |-> total, ev |-> e]]

ReadData(s) ==
    LET n == Min({ReadSize(s), pipe[s]}) IN
    /\ reader[s].st = "reading" /\ pipe[s] > 0
    /\ pipe' = [pipe EXCEPT ![s] = @ - n]
    /\ IF n > Remaining(s)
       THEN Sending(s, Ev("Limit", s, 0), reader[s].total)
       ELSE Sending(s, Ev("Data", s, n), reader[s].total + n)
    /\ UNCHANGED <<supervisor, tree, environment, chan>>

ReadEof(s) ==
    /\ reader[s].st = "reading" /\ pipe[s] = 0 /\ ~Held(s)
    /\ Sending(s, Ev("Eof", s, 0), reader[s].total)
    /\ UNCHANGED <<supervisor, tree, environment, chan, pipe>>

ReadError(s) ==
    /\ reader[s].st = "reading"
    /\ Sending(s, Ev("Error", s, 0), reader[s].total)
    /\ UNCHANGED <<supervisor, tree, environment, chan, pipe>>

\* send blocks while the channel is full, and fails once the receiver is gone.
Send(s) ==
    /\ reader[s].st = "sending"
    /\ IF open
       THEN /\ Len(chan) < Capacity
            /\ chan' = Append(chan, reader[s].ev)
            /\ reader' = [reader EXCEPT ![s].st = IF reader[s].ev.kind = "Data"
                                                  THEN "reading" ELSE "done",
                                        ![s].ev = NoEvent]
       ELSE /\ reader' = [reader EXCEPT ![s].st = "done", ![s].ev = NoEvent]
            /\ UNCHANGED chan
    /\ UNCHANGED <<supervisor, tree, environment, pipe>>

\* The thread dies without a word; the supervisor sees the disconnection.
ReaderPanics(s) ==
    /\ reader[s].st = "reading"
    /\ reader' = [reader EXCEPT ![s].st = "panicked"]
    /\ UNCHANGED <<supervisor, tree, environment, chan, pipe>>

Read(s) == ReadData(s) \/ ReadEof(s) \/ Send(s)

-----------------------------------------------------------------------------
(* The supervised processes, the caller and the clock.                     *)

Alive(x) == proc[x] \in {"running", "escaped"}

Write(x, s) ==
    /\ Alive(x) /\ s \in holds[x] /\ pipe[s] < PipeSize /\ wrote[s] < MaxWrite[s]
    /\ pipe' = [pipe EXCEPT ![s] = @ + 1]
    /\ wrote' = [wrote EXCEPT ![s] = @ + 1]
    /\ UNCHANGED <<supervisor, proc, holds, reused, strayKill, environment, reader, chan>>

CloseStream(s) ==
    /\ proc["child"] = "running" /\ s \in holds["child"]
    /\ holds' = [holds EXCEPT !["child"] = @ \ {s}]
    /\ UNCHANGED <<supervisor, proc, wrote, reused, strayKill, environment, reader, chan, pipe>>

Fork ==
    /\ proc["child"] = "running" /\ proc["descendant"] = "none"
    /\ proc' = [proc EXCEPT !["descendant"] = "running"]
    /\ holds' = [holds EXCEPT !["descendant"] = holds["child"]]
    /\ UNCHANGED <<supervisor, wrote, reused, strayKill, environment, reader, chan, pipe>>

\* A descendant that makes a session of its own leaves the process group.
Escape ==
    /\ proc["descendant"] = "running"
    /\ proc' = [proc EXCEPT !["descendant"] = "escaped"]
    /\ UNCHANGED <<supervisor, holds, wrote, reused, strayKill, environment, reader, chan, pipe>>

Exit(x) ==
    /\ Alive(x)
    /\ Killed({x})
    /\ UNCHANGED <<supervisor, wrote, reused, strayKill, environment, reader, chan, pipe>>

\* The operating system gives the number of an empty group to a stranger, at
\* any time after the reap: also before the kill that follows it.
ReusePid ==
    /\ proc["child"] = "reaped" /\ Group = {} /\ reused = "no"
    /\ reused' = IF pc = "KillTree" THEN "beforeKill" ELSE "later"
    /\ UNCHANGED <<supervisor, proc, holds, wrote, strayKill, environment, reader, chan, pipe>>

Cancel ==
    /\ ~cancelled /\ cancelled' = TRUE
    /\ UNCHANGED <<supervisor, tree, clock, reader, chan, pipe>>

Tick ==
    /\ clock < MaxTime /\ clock' = clock + 1
    /\ UNCHANGED <<supervisor, tree, cancelled, reader, chan, pipe>>

Environment ==
    \/ \E x \in Proc : Exit(x) \/ \E s \in Stream : Write(x, s)
    \/ \E s \in Stream : CloseStream(s) \/ ReadError(s) \/ ReaderPanics(s)
    \/ Fork \/ Escape \/ ReusePid \/ Cancel

Next ==
    \/ \E r \in Request : Start(r)
    \/ Supervise
    \/ \E s \in Stream : Read(s)
    \/ Environment
    \/ Tick

Spec == Init /\ [][Next]_vars

\* The scheduler runs the supervisor and the readers, and time passes.  Nothing
\* is assumed of the child, its descendant or the caller.
FairSpec ==
    /\ Spec
    /\ WF_vars(Supervise) /\ WF_vars(Tick)
    /\ \A s \in Stream : WF_vars(Read(s))

-----------------------------------------------------------------------------
(* Properties.                                                             *)

\* A run that reports success has observed the exit of the child and captured
\* every byte that the tree ever wrote to each stream, all within the limit:
\* no data is lost between the pipe, the reader's event and the capture, in
\* whatever order exit, data and end of file were seen.  A run fails with an
\* output limit only if a stream really exceeded it: the final allowed byte is
\* valid.
OutputIsExact ==
    /\ result = "Ok" =>
          /\ status
          /\ \A s \in Stream : got[s] = wrote[s] /\ pipe[s] = 0 /\ got[s] <= Limit[s]
    /\ result = "Limit" => \E s \in Stream : wrote[s] > Limit[s]

\* However a run in a group of its own ends, the child is reaped and no
\* descendant that stayed in the group is left running, not even one forked
\* just before the exit, the timeout or the cancellation.
NothingLeftRunning ==
    (pc = "Done" /\ mode = "Isolated" /\ proc["child"] # "none") =>
        proc["child"] = "reaped" /\ proc["descendant"] # "running"

\* A process group that took over the number of the child's is signalled only
\* if it did so between the try_wait that reaped the child and the kill that
\* directly follows, which nothing in the code excludes.  One that took it over
\* later, in the long drain of the pipes or in the clean-up of a cancellation,
\* a timeout, a limit or a read error, never is.
NoLateKill == strayKill => reused = "beforeKill"

\* Every run ends, although the child never exits, a descendant in a session
\* of its own keeps the pipes open for good, and readers are blocked on a full
\* channel.
RunEnds == pc = "Spawn" ~> pc = "Done"

\* Detached readers do not leak: after the run has ended every reader ends as
\* well, unless some process still holds the write end of its pipe.
ReadersEnd ==
    \A s \in Stream :
        pc = "Done" ~> (reader[s].st \notin {"reading", "sending"} \/ Held(s))
=============================================================================
