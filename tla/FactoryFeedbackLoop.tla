------------------------ MODULE FactoryFeedbackLoop ------------------------
(***************************************************************************)
(* The factory feedback loop (factory.rs run_factory_feedback_loop, and    *)
(* its command in main.rs): submit a package, repair it with an external   *)
(* command when the factory's DFM check fails, submit the repaired one,    *)
(* within one time budget, and publish what came of it.                    *)
(*                                                                         *)
(* The repair command may do anything to the files it is given and may     *)
(* leave a process behind that goes on doing so.  Time is counted in       *)
(* fractions of a second, because timeouts of calls are whole seconds.  It *)
(* passes between a reading of the clock and the start of the call that is *)
(* bounded by it, too.                                                     *)
(***************************************************************************)
EXTENDS Integers, FiniteSets, FiniteSetsExt

CONSTANTS
    Package,        \* the contents a package file can have
    Valid,          \* those that validate_manufacturing_package accepts
    Profile,        \* the physical and DFM profile bindings of each package
    MaxAttempts,    \* the values of max_attempts
    Second,         \* ticks of the clock in a second
    Timeout,        \* timeout_seconds
    RepairTime,     \* REPAIR_TIMEOUT_SECONDS, in ticks
    Budget,         \* FACTORY_LOOP_TIMEOUT_SECONDS, in ticks
    MaxTime,        \* bound on the clock
    None

Output == {"report", "receipt", "package"}

Receipt == [package: Package, passed: BOOLEAN]

ASSUME FeedbackAssumption ==
    /\ Valid \subseteq Package /\ None \notin Package \cup Receipt
    /\ DOMAIN Profile = Package
    /\ MaxAttempts \subseteq Nat \ {0}
    /\ {Second, Timeout, RepairTime, Budget} \subseteq Nat \ {0}
    /\ MaxTime \in Nat /\ Budget < MaxTime

VARIABLES
    pc,         \* the step of the command
    args,       \* max_attempts, whether there is a repair command, the outputs
    initial,    \* initial_package
    bytes,      \* current.bytes
    file,       \* what the file of the current snapshot contains
    attempt,    \* attempt_number
    receipt,    \* the receipt of this attempt
    candidate,  \* what the file for the repaired package contains
    next,       \* the repaired package that was read and validated
    repairOk,   \* whether the repair command exited with success
    stray,      \* a process of a repair command is left behind
    left,       \* the time for the next call, relative to when it will start
    callBy,     \* when the bounded call under way is cut off
    late,       \* history: time passed between the readings and the starts of this call
    posted,     \* history: the packages sent to the factory
    posts,      \* history: how many were sent
    report,     \* the loop's outcome
    disk,       \* the requested outputs on disk, and whose they are
    pubError,   \* artifact_publication_error
    exit,       \* how the command ended
    clock

loop == <<args, initial, bytes, file, attempt, receipt, candidate, next, repairOk>>
publication == <<disk, pubError, exit>>
timing == <<left, callBy, late>>
history == <<posted, posts>>
vars == <<pc, loop, stray, timing, history, report, publication, clock>>

NoReport == [passed |-> FALSE, final |-> None, receipt |-> None]

TypeOK ==
    /\ pc \in {"Start", "Top", "Send", "Post", "Decide", "StartRepair", "Prepare", "Files",
               "Spawn", "Repair", "Verify", "ReadCandidate", "Promote", "Package", "Receipt",
               "Report", "Done"}
    /\ args \in [max: MaxAttempts, repair: BOOLEAN, wanted: SUBSET Output]
    /\ {initial, bytes, file, candidate, next} \subseteq Package \cup {None}
    /\ attempt \in 0..args.max /\ posts \in 0..attempt
    /\ receipt \in Receipt \cup {None}
    /\ {repairOk, stray, pubError} \subseteq BOOLEAN
    /\ left \in Nat /\ callBy \in Nat /\ late \in Nat /\ clock \in 0..MaxTime
    /\ posted \subseteq Package
    /\ report \in [passed: BOOLEAN, final: Package \cup {None}, receipt: Receipt \cup {None}]
    /\ disk \in [Output -> {"free", "foreign", "ours"}]
    /\ exit \in {"none", "refused", "killed", "failure", "success"}

Init ==
    /\ pc = "Start"
    /\ args \in [max: MaxAttempts, repair: BOOLEAN,
                 wanted: {S \in SUBSET Output : "report" \in S}]
    /\ initial \in Package /\ bytes = None /\ file = None
    /\ attempt = 0 /\ receipt = None /\ candidate = None /\ next = None
    /\ repairOk = FALSE /\ stray = FALSE /\ left = 0 /\ callBy = 0 /\ late = 0
    /\ posted = {} /\ posts = 0 /\ report = NoReport
    /\ disk \in [Output -> {"free", "foreign"}]
    /\ pubError = FALSE /\ exit = "none" /\ clock = 0

deadline == Budget

\* A package that may be sent or kept: it validates and its profile bindings
\* are those of the initial package.
Accepted(p) == p \in Valid /\ Profile[p] = Profile[initial]

-----------------------------------------------------------------------------
(* The loop.                                                               *)

\* The loop ends; the receipt of the last attempt and the current package are
\* what it reports.
Finish(passed) ==
    /\ report' = [passed |-> passed, final |-> bytes, receipt |-> receipt]
    /\ pc' = "Package"

\* Outputs are prepared and the initial package is read once; without a valid
\* one there is no report.
Start ==
    /\ pc = "Start"
    /\ IF initial \in Valid /\ \A o \in args.wanted : disk[o] = "free"
       THEN /\ pc' = "Top" /\ attempt' = 1
            /\ bytes' = initial /\ file' = initial /\ UNCHANGED exit
       ELSE pc' = "Done" /\ exit' = "refused" /\ UNCHANGED <<attempt, bytes, file>>
    /\ UNCHANGED <<args, initial, receipt, candidate, next, repairOk, stray, timing, history,
                   report, disk, pubError, clock>>

\* Mutant: a started second counts as a whole one.
NetworkTimeoutRounded ==
    IF clock >= deadline THEN 0 ELSE Min({Timeout, (deadline - clock) \div Second + 1})

\* bounded_network_timeout: whole seconds that are left, 0 for none.
NetworkTimeout ==
    IF clock >= deadline THEN 0 ELSE Min({Timeout, (deadline - clock) \div Second})

\* The current package is validated again, and goes out if there is time.
Submit ==
    /\ pc = "Top"
    /\ IF Accepted(bytes) /\ NetworkTimeout > 0
       THEN /\ pc' = "Send" /\ left' = NetworkTimeout * Second /\ late' = 0
            /\ UNCHANGED <<callBy, report>>
       ELSE Finish(FALSE) /\ UNCHANGED timing
    /\ UNCHANGED <<loop, stray, history, publication, clock>>

\* submit_validated_factory_package_bytes: the timeout counts from the send.
Send ==
    /\ pc = "Send" /\ pc' = "Post"
    /\ callBy' = clock + left
    /\ posted' = posted \cup {bytes} /\ posts' = posts + 1
    /\ UNCHANGED <<loop, stray, left, late, report, publication, clock>>

\* The factory answers with a receipt that passes, or not.
Answer(passed) ==
    /\ pc = "Post"
    /\ receipt' = [package |-> bytes, passed |-> passed]
    /\ pc' = "Decide"
    /\ UNCHANGED <<args, initial, bytes, file, attempt, candidate, next, repairOk, stray, timing,
                   history, report, publication, clock>>

\* No usable answer: a transport error, the timeout, a response that is refused;
\* or nothing was sent, for want of the bearer token.
SubmitFails ==
    /\ pc \in {"Send", "Post"}
    /\ Finish(FALSE)
    /\ UNCHANGED <<loop, stray, timing, history, publication, clock>>

\* The deadline comes first, then the verdict, the attempt limit and the lack
\* of a repair command.
Decide ==
    /\ pc = "Decide"
    /\ CASE clock >= deadline -> Finish(FALSE)
         [] clock < deadline /\ receipt.passed -> Finish(TRUE)
         [] clock < deadline /\ ~receipt.passed /\ (attempt = args.max \/ ~args.repair) ->
                Finish(FALSE)
         [] OTHER -> pc' = "StartRepair" /\ UNCHANGED report
    /\ UNCHANGED <<loop, stray, timing, history, publication, clock>>

\* A repair gets its own limit or what is left to the loop.
StartRepair ==
    /\ pc = "StartRepair"
    /\ IF clock < deadline
       THEN /\ pc' = "Prepare" /\ left' = Min({RepairTime, deadline - clock}) /\ late' = 0
            /\ UNCHANGED <<callBy, report>>
       ELSE Finish(FALSE) /\ UNCHANGED timing
    /\ UNCHANGED <<loop, stray, history, publication, clock>>

\* run_repair_command counts that time from its own start.
Prepare ==
    /\ pc = "Prepare" /\ pc' = "Files"
    /\ callBy' = clock + left
    /\ UNCHANGED <<loop, stray, left, late, history, report, publication, clock>>

\* The receipt is written and a fresh output file made, which is charged to
\* the repair's time.
MakeFiles ==
    /\ pc = "Files"
    /\ IF clock < callBy
       THEN /\ pc' = "Spawn" /\ left' = callBy - clock /\ candidate' = None
            /\ UNCHANGED report
       ELSE Finish(FALSE) /\ UNCHANGED <<left, candidate>>
    /\ UNCHANGED <<args, initial, bytes, file, attempt, receipt, next, repairOk, stray, callBy,
                   late, history, publication, clock>>

\* The bounded process counts what is left of it from its own start again.
Spawn ==
    /\ pc = "Spawn" /\ pc' = "Repair"
    /\ callBy' = clock + left
    /\ UNCHANGED <<loop, stray, left, late, history, report, publication, clock>>

\* Nothing was started: a file could not be made, or the spawn failed.
RepairNotStarted ==
    /\ pc \in {"Files", "Spawn"}
    /\ Finish(FALSE)
    /\ UNCHANGED <<loop, stray, timing, history, publication, clock>>

\* The bounded process ends, by itself or because it was cut off.
RepairEnds(ok) ==
    /\ pc = "Repair"
    /\ repairOk' = ok /\ pc' = "Verify"
    /\ UNCHANGED <<args, initial, bytes, file, attempt, receipt, candidate, next, stray, timing,
                   history, report, publication, clock>>

\* verify_repair_input_unchanged and the scan of the workspace, which may fail.
Verify(scanned) ==
    /\ pc = "Verify"
    /\ IF file = bytes /\ repairOk /\ scanned
       THEN pc' = "ReadCandidate" /\ UNCHANGED report
       ELSE Finish(FALSE)
    /\ UNCHANGED <<loop, stray, timing, history, publication, clock>>

\* read_validated_repair_output decides on the bytes it has read.
CandidateAccepted == candidate # None /\ Accepted(candidate)

ReadCandidate ==
    /\ pc = "ReadCandidate"
    /\ IF CandidateAccepted
       THEN pc' = "Promote" /\ next' = candidate /\ UNCHANGED report
       ELSE Finish(FALSE) /\ UNCHANGED next
    /\ UNCHANGED <<args, initial, bytes, file, attempt, receipt, candidate, repairOk, stray,
                   timing, history, publication, clock>>

\* Mutant: the repaired package is current before the deadline is looked at.
PromoteFirst ==
    /\ pc = "Promote"
    /\ bytes' = next /\ file' = next
    /\ IF clock < deadline
       THEN /\ attempt' = attempt + 1 /\ receipt' = None /\ pc' = "Top" /\ UNCHANGED report
       ELSE /\ report' = [passed |-> FALSE, final |-> next, receipt |-> receipt]
            /\ pc' = "Package" /\ UNCHANGED <<attempt, receipt>>
    /\ UNCHANGED <<args, initial, candidate, next, repairOk, stray, timing, history, publication,
                   clock>>

\* Mutant: the snapshot is taken of the file, not of the bytes that were read.
PromoteFile ==
    /\ pc = "Promote"
    /\ IF clock < deadline
       THEN /\ bytes' = candidate /\ file' = candidate
            /\ attempt' = attempt + 1 /\ receipt' = None
            /\ pc' = "Top" /\ UNCHANGED report
       ELSE Finish(FALSE) /\ UNCHANGED <<bytes, file, attempt, receipt>>
    /\ UNCHANGED <<args, initial, candidate, next, repairOk, stray, timing, history, publication,
                   clock>>

\* The repaired package becomes current if there is time for it.
Promote ==
    /\ pc = "Promote"
    /\ IF clock < deadline
       THEN /\ bytes' = next /\ file' = next
            /\ attempt' = attempt + 1 /\ receipt' = None
            /\ pc' = "Top" /\ UNCHANGED report
       ELSE Finish(FALSE) /\ UNCHANGED <<bytes, file, attempt, receipt>>
    /\ UNCHANGED <<args, initial, candidate, next, repairOk, stray, timing, history, publication,
                   clock>>

\* The snapshot of the repaired package cannot be written.
SnapshotFails ==
    /\ pc = "Promote"
    /\ Finish(FALSE)
    /\ UNCHANGED <<loop, stray, timing, history, publication, clock>>

-----------------------------------------------------------------------------
(* The outputs: no existing file is ever replaced.                         *)

\* persist_noclobber of one output; an error comes before it or, from the sync
\* of the directory, after it.
Publish(o) ==
    \/ /\ disk[o] = "free" /\ disk' = [disk EXCEPT ![o] = "ours"]
       /\ pubError' \in {pubError, TRUE}
    \/ pubError' = TRUE /\ UNCHANGED disk

PublishPackage ==
    /\ pc = "Package" /\ pc' = "Receipt"
    /\ IF "package" \in args.wanted THEN Publish("package") ELSE UNCHANGED <<disk, pubError>>
    /\ UNCHANGED <<loop, stray, timing, history, report, exit, clock>>

PublishReceipt ==
    /\ pc = "Receipt" /\ pc' = "Report"
    /\ IF "receipt" \in args.wanted /\ report.receipt # None
       THEN Publish("receipt") ELSE UNCHANGED <<disk, pubError>>
    /\ UNCHANGED <<loop, stray, timing, history, report, exit, clock>>

\* Mutant: only an error of the report's own publication is fatal.
ExitCodeIgnoresArtifacts(failed) == IF report.passed /\ ~failed THEN "success" ELSE "failure"

\* The exit status, given whether any publication failed.
ExitCode(failed) ==
    IF /\ ~failed /\ ~pubError /\ report.passed
       /\ ("receipt" \in args.wanted => report.receipt # None)
    THEN "success" ELSE "failure"

\* The report comes last, even if an artifact could not be published.
PublishReport ==
    /\ pc = "Report" /\ pc' = "Done"
    /\ \/ /\ disk["report"] = "free" /\ disk' = [disk EXCEPT !["report"] = "ours"]
          /\ \E failed \in BOOLEAN : exit' = ExitCode(failed)
       \/ exit' = ExitCode(TRUE) /\ UNCHANGED disk
    /\ UNCHANGED <<loop, stray, timing, history, report, pubError, clock>>

-----------------------------------------------------------------------------
(* The environment.                                                        *)

\* A repair command, or what is left of one, can write both files.
Meddling == pc = "Repair" \/ stray

WriteCandidate(p) ==
    /\ Meddling /\ pc \in {"Repair", "Verify", "ReadCandidate", "Promote"}
    /\ candidate' = p
    /\ UNCHANGED <<pc, args, initial, bytes, file, attempt, receipt, next, repairOk, stray,
                   timing, history, report, publication, clock>>

TamperInput(p) ==
    /\ Meddling /\ pc \notin {"Start", "Done"}
    /\ file' = p
    /\ UNCHANGED <<pc, args, initial, bytes, attempt, receipt, candidate, next, repairOk, stray,
                   timing, history, report, publication, clock>>

LeaveProcess ==
    /\ pc = "Repair" /\ ~stray
    /\ stray' = TRUE
    /\ UNCHANGED <<pc, loop, timing, history, report, publication, clock>>

\* Somebody else makes a file where an output is to go.
Collide(o) ==
    /\ disk[o] = "free" /\ pc # "Done"
    /\ disk' = [disk EXCEPT ![o] = "foreign"]
    /\ UNCHANGED <<pc, loop, stray, timing, history, report, pubError, exit, clock>>

Kill ==
    /\ pc # "Done"
    /\ pc' = "Done" /\ exit' = "killed"
    /\ UNCHANGED <<loop, stray, timing, history, report, disk, pubError, clock>>

\* The clock has been read, and the call that the reading bounds not started.
Between == pc \in {"Send", "Prepare", "Spawn"}

\* Time passes; a bounded call does not outlive its limit.
Tick ==
    /\ clock < MaxTime
    /\ pc \in {"Post", "Repair"} => clock < callBy
    /\ clock' = clock + 1
    /\ late' = IF Between THEN late + 1 ELSE late
    /\ UNCHANGED <<pc, loop, stray, left, callBy, history, report, publication>>

Environment ==
    \/ \E p \in Package : WriteCandidate(p) \/ TamperInput(p)
    \/ LeaveProcess \/ Kill
    \/ \E o \in Output : Collide(o)

\* The command itself; a call that is over time is cut off.
Command ==
    \/ Start \/ Submit \/ Send \/ SubmitFails \/ Decide
    \/ StartRepair \/ Prepare \/ MakeFiles \/ Spawn \/ RepairNotStarted
    \/ \E b \in BOOLEAN : Answer(b) \/ RepairEnds(b) \/ Verify(b)
    \/ ReadCandidate \/ Promote \/ SnapshotFails
    \/ PublishPackage \/ PublishReceipt \/ PublishReport

Next == Command \/ Environment \/ Tick

Spec == Init /\ [][Next]_vars

-----------------------------------------------------------------------------
(* Properties.                                                             *)

\* Whatever repair commands and processes left behind do to the files, and
\* whenever they do it, only packages that validate and carry the profile
\* bindings of the initial one are sent to the factory or handed to the user.
OnlyAcceptedLeaves ==
    /\ \A p \in posted : Accepted(p)
    /\ report.final # None => Accepted(report.final)

\* A report's receipt, which is also the published one, is for the package
\* that is reported and published with it, also when the loop ends between a
\* repair and the next submission.
ReceiptMatchesPackage ==
    report.receipt # None => report.receipt.package = report.final /\ report.final \in posted

\* The command succeeds only if the factory passed the very package that was
\* published, and every requested output on disk is this command's.
SuccessIsComplete ==
    exit = "success" =>
        /\ report.passed /\ report.receipt.passed /\ report.receipt.package = report.final
        /\ \A o \in args.wanted : disk[o] = "ours"

\* A call to the factory or a repair command runs on after the loop's deadline
\* by no more than the time that passed between a reading of the clock and the
\* start of what it bounds: before the send, before run_repair_command and
\* before the bounded process.  All else, the preparation of the repair's files
\* too, is charged to the budget, and nothing is lost by rounding.
OverrunIsBounded ==
    pc \in {"Post", "Repair"} => clock <= callBy /\ callBy <= deadline + late
=============================================================================
