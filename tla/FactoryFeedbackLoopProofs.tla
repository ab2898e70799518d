--------------------- MODULE FactoryFeedbackLoopProofs ---------------------
(***************************************************************************)
(* Proofs about FactoryFeedbackLoop for every set of packages, every       *)
(* profile, every attempt limit and every timeout.                         *)
(*                                                                         *)
(* What leaves the loop is decided by bytes that were read once: the       *)
(* current package is accepted while the loop runs (Current), so is the    *)
(* one read from the repair command's output (Repaired), and no action of  *)
(* the environment writes either.  A receipt is dropped in the step that   *)
(* replaces the package it is for (ReceiptIsCurrent).                      *)
(***************************************************************************)
EXTENDS FactoryFeedbackLoop, TLAPS

Running == pc \notin {"Start", "Done"}

(* Nothing has happened before the first package is read.                  *)
Unstarted ==
  pc = "Start" => attempt = 0 /\ posts = 0 /\ receipt = None

(* The package the loop works on, and the repaired one it has read.        *)
Current == Running => Accepted(bytes)
Repaired == pc = "Promote" => Accepted(next)

(* An attempt is counted before its package is sent, and a repair starts   *)
(* only if another attempt is left.                                        *)
Attempts ==
  /\ pc \in {"Top", "Send"} => posts < attempt
  /\ pc \in {"StartRepair", "Prepare", "Files", "Spawn", "Repair", "Verify", "ReadCandidate",
             "Promote"} => attempt < args.max

(* The receipt at hand is for the current package, which has been sent.    *)
ReceiptIsCurrent ==
  /\ pc = "Post" => bytes \in posted
  /\ pc = "Decide" => receipt # None
  /\ receipt # None => receipt.package = bytes /\ bytes \in posted

PassedHasReceipt == report.passed => report.receipt # None /\ report.receipt.passed

(* Without a publication error, what was to be published so far is ours.   *)
Published ==
  /\ "report" \in args.wanted
  /\ pc \in {"Receipt", "Report"} /\ ~pubError /\ "package" \in args.wanted =>
       disk["package"] = "ours"
  /\ pc = "Report" /\ ~pubError /\ "receipt" \in args.wanted /\ report.receipt # None =>
       disk["receipt"] = "ours"

SuccessIsDone == exit = "success" => pc = "Done" /\ SuccessIsComplete

(* A bounded call has not been outlived; it ends in the budget but for the *)
(* time that passed between the readings of the clock and the starts.      *)
CallInBudget ==
  /\ Between => clock + left <= deadline + late
  /\ pc \in {"Files", "Post", "Repair"} => callBy <= deadline + late
  /\ pc \in {"Post", "Repair"} => clock <= callBy

FInv ==
  /\ TypeOK
  /\ Unstarted
  /\ Current /\ Repaired
  /\ Attempts
  /\ ReceiptIsCurrent /\ PassedHasReceipt
  /\ OnlyAcceptedLeaves /\ ReceiptMatchesPackage
  /\ Published /\ SuccessIsDone
  /\ CallInBudget

USE FeedbackAssumption DEF Output
-----------------------------------------------------------------------------
(* The limit of a bounded call.                                            *)

(* The smaller of two numbers.                                             *)
LEMMA MinOfTwo ==
  ASSUME NEW a \in Int, NEW b \in Int
  PROVE  Min({a, b}) \in Int /\ Min({a, b}) \in {a, b} /\ Min({a, b}) <= a /\ Min({a, b}) <= b
<1>1. \E x \in {a, b} : \A y \in {a, b} : x =< y
  OBVIOUS
<1> QED
  BY <1>1 DEF Min

(* What the assumptions say of the constants.                              *)
LEMMA Constants ==
  /\ Second \in Nat /\ Second > 0
  /\ Timeout \in Nat /\ Timeout > 0
  /\ RepairTime \in Nat /\ RepairTime > 0
  /\ deadline \in Nat /\ MaxTime \in Nat /\ deadline < MaxTime
BY DEF deadline

(* Whole seconds that are left end no later than the deadline.             *)
LEMMA NetworkTimeoutInBudget ==
  ASSUME clock \in Nat, NetworkTimeout > 0
  PROVE  NetworkTimeout * Second \in Nat /\ clock + NetworkTimeout * Second <= deadline
<1> DEFINE rest == deadline - clock
           whole == rest \div Second
<1>1. clock < deadline /\ rest \in Nat
  BY Constants DEF NetworkTimeout
<1>2. whole \in Int /\ whole * Second <= rest
  BY <1>1, Constants
<1>3. NetworkTimeout = Min({Timeout, whole})
  BY <1>1, Constants DEF NetworkTimeout
<1> HIDE DEF whole
<1>4. Timeout \in Int
  BY Constants
<1>5. NetworkTimeout \in Int /\ NetworkTimeout <= whole
  BY <1>2, <1>3, <1>4, MinOfTwo
<1>6. NetworkTimeout * Second <= whole * Second /\ NetworkTimeout * Second \in Nat
  BY <1>2, <1>5, Constants
<1> QED
  BY <1>1, <1>2, <1>6, Constants

(* A repair command is given no more than the loop has left.               *)
LEMMA RepairTimeInBudget ==
  ASSUME clock \in Nat, clock < deadline, NEW t, t = Min({RepairTime, deadline - clock})
  PROVE  t \in Nat /\ clock + t <= deadline
<1> DEFINE rest == deadline - clock
<1>1. RepairTime \in Nat /\ rest \in Nat /\ RepairTime \in Int /\ rest \in Int
  BY Constants
<1> HIDE DEF rest
<1>2. Min({RepairTime, rest}) \in {RepairTime, rest} /\ Min({RepairTime, rest}) <= rest
  BY <1>1, MinOfTwo
<1>3. t \in Nat /\ t <= rest
  BY <1>1, <1>2 DEF rest
<1> QED
  BY <1>3, Constants DEF rest
-----------------------------------------------------------------------------
(* Every step keeps the invariant.                                         *)

(* Everything holds before the loop starts.                                *)
LEMMA FInvInit == Init => FInv
<1> SUFFICES ASSUME Init PROVE FInv
  OBVIOUS
<1>1. report = NoReport /\ NoReport \in [passed: BOOLEAN, final: Package \cup {None},
                                       receipt: Receipt \cup {None}]
  BY DEF Init, NoReport
<1>2. args.max \in Nat /\ args.wanted \in SUBSET Output /\ MaxTime \in Nat
  BY DEF Init
<1>3. disk \in [Output -> {"free", "foreign", "ours"}]
  BY DEF Init
<1>4. args \in [max: MaxAttempts, repair: BOOLEAN, wanted: SUBSET Output] /\ "report" \in args.wanted
  BY DEF Init
<1>5. TypeOK
  <2>1. attempt \in 0..args.max /\ posts \in 0..attempt /\ clock \in 0..MaxTime
    BY <1>2 DEF Init
  <2> QED
    BY <1>1, <1>3, <1>4, <2>1 DEF Init, TypeOK
<1> QED
  BY <1>1, <1>4, <1>5 DEF Init, FInv, Unstarted, Running, Current, Repaired, Attempts, ReceiptIsCurrent,
     PassedHasReceipt, OnlyAcceptedLeaves, ReceiptMatchesPackage, Published, SuccessIsDone,
     CallInBudget, Between, NoReport

USE DEF FInv, TypeOK, Unstarted, Running, Current, Repaired, Attempts, ReceiptIsCurrent,
        PassedHasReceipt, OnlyAcceptedLeaves, ReceiptMatchesPackage, Published, SuccessIsDone,
        SuccessIsComplete, CallInBudget, Between, Accepted, loop, timing, history, publication

(* The types the arithmetic of a step needs.                               *)
LEMMA FInvTypes ==
  ASSUME FInv
  PROVE  /\ clock \in Nat /\ left \in Nat /\ callBy \in Nat /\ late \in Nat
         /\ args.max \in Nat /\ attempt \in Nat /\ posts \in Nat
         /\ bytes \in Package \cup {None} /\ file \in Package \cup {None}
         /\ next \in Package \cup {None} /\ candidate \in Package \cup {None}
         /\ "report" \in args.wanted /\ args.max # 0
<1>1. args.max \in Nat /\ args.max # 0
  <2>1. args.max \in MaxAttempts
    OBVIOUS
  <2> QED
    BY <2>1
<1>2. attempt \in Nat /\ attempt <= args.max
  BY <1>1
<1>3. clock \in Nat /\ left \in Nat /\ callBy \in Nat /\ late \in Nat
  BY Constants
<1> QED
  BY <1>1, <1>2, <1>3

(* A step that ends the loop, for whatever reason.                         *)
LEMMA FinishFInv ==
  ASSUME FInv, Running, NEW b \in BOOLEAN, Finish(b),
         b => receipt # None /\ receipt.passed,
         UNCHANGED <<loop, stray, timing, history, publication, clock>>
  PROVE  FInv'
<1>1. report' \in [passed: BOOLEAN, final: Package \cup {None}, receipt: Receipt \cup {None}]
  BY FInvTypes DEF Finish
<1>2. TypeOK'
  BY <1>1 DEF Finish
<1>3. (Unstarted /\ Current /\ Repaired /\ Attempts /\ CallInBudget)'
  BY DEF Finish
<1>4. (ReceiptIsCurrent /\ PassedHasReceipt /\ OnlyAcceptedLeaves /\ ReceiptMatchesPackage)'
  BY DEF Finish
<1>5. (Published /\ SuccessIsDone)'
  BY DEF Finish
<1> QED
  BY <1>2, <1>3, <1>4, <1>5

(* The initial package is read once.                                       *)
LEMMA StartFInv == FInv /\ Start => FInv'
<1> SUFFICES ASSUME FInv, Start PROVE FInv'
  OBVIOUS
<1>1. TypeOK'
  BY FInvTypes DEF Start
<1> QED
  BY <1>1, FInvTypes DEF Start

(* A submission is allowed the time that is left.                          *)
LEMMA SubmitFInv == FInv /\ Submit => FInv'
<1> SUFFICES ASSUME FInv, Submit PROVE FInv'
  OBVIOUS
<1>1. CASE Accepted(bytes) /\ NetworkTimeout > 0
  <2>1. left' \in Nat /\ late' \in Nat /\ clock + left' <= deadline + late'
    <3>1. clock \in Nat /\ deadline \in Nat
      BY FInvTypes, Constants
    <3>2. PICK t \in Nat : t = NetworkTimeout * Second /\ clock + t <= deadline
      BY <1>1, <3>1, NetworkTimeoutInBudget
    <3>3. left' = t /\ late' = 0
      BY <1>1, <3>2 DEF Submit
    <3> HIDE DEF FInv
    <3> QED
      BY <3>1, <3>2, <3>3
  <2>2. pc' = "Send" /\ UNCHANGED <<callBy, report, loop, stray, history, publication, clock>>
    BY <1>1 DEF Submit
  <2>3. TypeOK'
    BY <2>1, <2>2, FInvTypes
  <2>7. CallInBudget'
    <3> HIDE DEF FInv
    <3> QED
      BY <2>1, <2>2 DEF deadline
  <2>4. (Unstarted /\ Current /\ Repaired /\ Attempts)'
    BY <1>1, <2>2 DEF Submit
  <2>5. (ReceiptIsCurrent /\ PassedHasReceipt /\ OnlyAcceptedLeaves /\ ReceiptMatchesPackage)'
    BY <1>1, <2>2 DEF Submit
  <2>6. (Published /\ SuccessIsDone)'
    BY <2>2 DEF Submit
  <2> QED
    BY <2>3, <2>4, <2>5, <2>6, <2>7
<1>2. CASE ~(Accepted(bytes) /\ NetworkTimeout > 0)
  BY <1>2, FinishFInv DEF Submit
<1> QED
  BY <1>1, <1>2

(* The accepted bytes are sent.                                            *)
LEMMA SendFInv == FInv /\ Send => FInv'
<1> SUFFICES ASSUME FInv, Send PROVE FInv'
  OBVIOUS
<1>1. callBy' \in Nat /\ clock <= callBy' /\ callBy' <= deadline + late
  BY FInvTypes, Constants DEF Send
<1>2. pc' = "Post" /\ posted' = posted \cup {bytes} /\ posts' = posts + 1
      /\ UNCHANGED <<left, late, report, loop, stray, publication, clock>>
  BY DEF Send
<1>3. TypeOK' /\ CallInBudget'
  BY <1>1, <1>2, FInvTypes, Constants DEF Send
<1>4. (Unstarted /\ Current /\ Repaired /\ Attempts)'
  BY <1>2 DEF Send
<1>5. (ReceiptIsCurrent /\ PassedHasReceipt /\ OnlyAcceptedLeaves /\ ReceiptMatchesPackage)'
  BY <1>2 DEF Send
<1>6. (Published /\ SuccessIsDone)'
  BY <1>2 DEF Send
<1> QED
  BY <1>3, <1>4, <1>5, <1>6

(* The answer of the factory is the receipt of what was sent.              *)
LEMMA AnswerFInv == ASSUME FInv, NEW b \in BOOLEAN, Answer(b) PROVE FInv'
<1>1. receipt' \in Receipt
  BY FInvTypes DEF Answer, Receipt
<1>2. TypeOK'
  BY <1>1 DEF Answer
<1>3. (Unstarted /\ Current /\ Repaired /\ Attempts /\ CallInBudget)'
  BY DEF Answer
<1>4. ReceiptIsCurrent'
  BY <1>1 DEF Answer
<1>5. (PassedHasReceipt /\ OnlyAcceptedLeaves /\ ReceiptMatchesPackage /\ Published /\ SuccessIsDone)'
  BY DEF Answer
<1> QED
  BY <1>2, <1>3, <1>4, <1>5

(* A failed submission leaves no receipt behind.                           *)
LEMMA SubmitFailsFInv == FInv /\ SubmitFails => FInv'
BY FinishFInv DEF SubmitFails

(* The decision ends the loop or goes on to a repair.                      *)
LEMMA DecideFInv == FInv /\ Decide => FInv'
<1> SUFFICES ASSUME FInv, Decide PROVE FInv'
  OBVIOUS
<1>1. CASE Finish(TRUE) /\ receipt.passed
  BY <1>1, FinishFInv DEF Decide
<1>2. CASE Finish(FALSE)
  BY <1>2, FinishFInv DEF Decide
<1>3. CASE pc' = "StartRepair" /\ UNCHANGED report /\ attempt # args.max
  BY <1>3, FInvTypes DEF Decide
<1>4. \/ Finish(TRUE) /\ receipt.passed
      \/ Finish(FALSE)
      \/ pc' = "StartRepair" /\ UNCHANGED report /\ attempt # args.max
  <2> HIDE DEF FInv
  <2>1. clock >= deadline \/ clock < deadline
    BY FInvTypes, Constants
  <2> QED
    BY <2>1 DEF Decide
<1> QED
  BY <1>1, <1>2, <1>3, <1>4

(* A repair is decided on within the deadline.                             *)
LEMMA StartRepairFInv == FInv /\ StartRepair => FInv'
<1> SUFFICES ASSUME FInv, StartRepair PROVE FInv'
  OBVIOUS
<1>1. CASE clock < deadline
  <2>1. left' \in Nat /\ clock + left' <= deadline /\ late' = 0
    BY <1>1, FInvTypes, RepairTimeInBudget DEF StartRepair
  <2> QED
    BY <1>1, <2>1, FInvTypes, Constants DEF StartRepair
<1>2. CASE ~(clock < deadline)
  BY <1>2, FinishFInv DEF StartRepair
<1> QED
  BY <1>1, <1>2

(* Its time counts from the start of run_repair_command.                   *)
LEMMA PrepareFInv == FInv /\ Prepare => FInv'
BY FInvTypes, Constants DEF Prepare

(* The preparation is charged to it.                                       *)
LEMMA MakeFilesFInv == FInv /\ MakeFiles => FInv'
<1> SUFFICES ASSUME FInv, MakeFiles PROVE FInv'
  OBVIOUS
<1>1. CASE clock < callBy
  <2>1. left' \in Nat /\ clock + left' = callBy
    BY <1>1, FInvTypes DEF MakeFiles
  <2> QED
    BY <1>1, <2>1, FInvTypes, Constants DEF MakeFiles
<1>2. CASE ~(clock < callBy)
  BY <1>2, FinishFInv DEF MakeFiles
<1> QED
  BY <1>1, <1>2

(* The repair command starts.                                              *)
LEMMA SpawnFInv == FInv /\ Spawn => FInv'
BY FInvTypes, Constants DEF Spawn

(* A repair command that cannot be started ends the loop.                  *)
LEMMA RepairNotStartedFInv == FInv /\ RepairNotStarted => FInv'
BY FinishFInv DEF RepairNotStarted

(* A repair command ends, well or not.                                     *)
LEMMA RepairEndsFInv == ASSUME FInv, NEW b \in BOOLEAN, RepairEnds(b) PROVE FInv'
BY FInvTypes DEF RepairEnds

(* The repair must have left its input as it was.                          *)
LEMMA VerifyFInv == ASSUME FInv, NEW b \in BOOLEAN, Verify(b) PROVE FInv'
<1>1. CASE file = bytes /\ repairOk /\ b
  BY <1>1, FInvTypes DEF Verify
<1>2. CASE ~(file = bytes /\ repairOk /\ b)
  BY <1>2, FinishFInv DEF Verify
<1> QED
  BY <1>1, <1>2

(* The candidate is read once, and judged as it was read.                  *)
LEMMA ReadCandidateFInv == FInv /\ ReadCandidate => FInv'
<1> SUFFICES ASSUME FInv, ReadCandidate PROVE FInv'
  OBVIOUS
<1>1. CASE CandidateAccepted
  BY <1>1, FInvTypes DEF ReadCandidate, CandidateAccepted
<1>2. CASE ~CandidateAccepted
  BY <1>2, FinishFInv DEF ReadCandidate
<1> QED
  BY <1>1, <1>2

(* The accepted candidate replaces the package.                            *)
LEMMA PromoteFInv == FInv /\ Promote => FInv'
<1> SUFFICES ASSUME FInv, Promote PROVE FInv'
  OBVIOUS
<1>1. CASE clock < deadline
  BY <1>1, FInvTypes DEF Promote
<1>2. CASE ~(clock < deadline)
  BY <1>2, FinishFInv DEF Promote
<1> QED
  BY <1>1, <1>2

(* A snapshot that cannot be written ends the loop.                        *)
LEMMA SnapshotFailsFInv == FInv /\ SnapshotFails => FInv'
BY FinishFInv DEF SnapshotFails

(* An output without an error is ours, and no output of ours is lost.      *)
LEMMA PublishEffect ==
  ASSUME FInv, NEW o \in Output, Publish(o)
  PROVE  /\ pubError' \in BOOLEAN /\ (pubError' = FALSE => pubError = FALSE /\ disk'[o] = "ours")
         /\ disk' \in [Output -> {"free", "foreign", "ours"}]
         /\ \A q \in Output : disk[q] = "ours" => disk'[q] = "ours"
<1>1. pubError \in BOOLEAN /\ disk \in [Output -> {"free", "foreign", "ours"}]
  OBVIOUS
<1> HIDE DEF FInv
<1>2. CASE disk[o] = "free" /\ disk' = [disk EXCEPT ![o] = "ours"] /\ pubError' \in {pubError, TRUE}
  <2>1. pubError' \in BOOLEAN /\ (pubError' = FALSE => pubError = FALSE)
    BY <1>1, <1>2
  <2>2. /\ disk' \in [Output -> {"free", "foreign", "ours"}] /\ disk'[o] = "ours"
        /\ \A q \in Output : disk[q] = "ours" => disk'[q] = "ours"
    BY <1>1, <1>2
  <2> QED
    BY <2>1, <2>2
<1>3. CASE pubError' = TRUE /\ UNCHANGED disk
  BY <1>1, <1>3
<1> QED
  BY <1>2, <1>3 DEF Publish

(* The package is published.                                               *)
LEMMA PublishPackageFInv == FInv /\ PublishPackage => FInv'
<1> SUFFICES ASSUME FInv, PublishPackage PROVE FInv'
  OBVIOUS
<1>1. /\ pubError' \in BOOLEAN /\ (pubError' = FALSE => pubError = FALSE)
      /\ disk' \in [Output -> {"free", "foreign", "ours"}]
      /\ \A q \in Output : disk[q] = "ours" => disk'[q] = "ours"
      /\ "package" \in args.wanted => (pubError' = FALSE => disk'["package"] = "ours")
  <2>1. CASE "package" \in args.wanted
    <3>1. Publish("package") /\ "package" \in Output
      BY <2>1 DEF PublishPackage
    <3> QED
      BY <3>1, PublishEffect
  <2>2. CASE ~"package" \in args.wanted
    BY <2>2 DEF PublishPackage
  <2> QED
    BY <2>1, <2>2
<1>2. TypeOK'
  BY <1>1 DEF PublishPackage
<1>3. (Unstarted /\ Current /\ Repaired /\ Attempts /\ CallInBudget)'
  BY DEF PublishPackage
<1>4. (ReceiptIsCurrent /\ PassedHasReceipt /\ OnlyAcceptedLeaves /\ ReceiptMatchesPackage)'
  BY DEF PublishPackage
<1>5. Published'
  BY <1>1 DEF PublishPackage
<1>6. SuccessIsDone'
  BY DEF PublishPackage
<1> QED
  BY <1>2, <1>3, <1>4, <1>5, <1>6

(* The receipt is published.                                               *)
LEMMA PublishReceiptFInv == FInv /\ PublishReceipt => FInv'
<1> SUFFICES ASSUME FInv, PublishReceipt PROVE FInv'
  OBVIOUS
<1>1. /\ pubError' \in BOOLEAN /\ (pubError' = FALSE => pubError = FALSE)
      /\ disk' \in [Output -> {"free", "foreign", "ours"}]
      /\ \A q \in Output : disk[q] = "ours" => disk'[q] = "ours"
      /\ ("receipt" \in args.wanted /\ report.receipt # None) => (pubError' = FALSE => disk'["receipt"] = "ours")
  <2>1. CASE ("receipt" \in args.wanted /\ report.receipt # None)
    <3>1. Publish("receipt") /\ "receipt" \in Output
      BY <2>1 DEF PublishReceipt
    <3> QED
      BY <3>1, PublishEffect
  <2>2. CASE ~("receipt" \in args.wanted /\ report.receipt # None)
    BY <2>2 DEF PublishReceipt
  <2> QED
    BY <2>1, <2>2
<1>2. TypeOK'
  BY <1>1 DEF PublishReceipt
<1>3. (Unstarted /\ Current /\ Repaired /\ Attempts /\ CallInBudget)'
  BY DEF PublishReceipt
<1>4. (ReceiptIsCurrent /\ PassedHasReceipt /\ OnlyAcceptedLeaves /\ ReceiptMatchesPackage)'
  BY DEF PublishReceipt
<1>5. Published'
  BY <1>1 DEF PublishReceipt
<1>6. SuccessIsDone'
  BY DEF PublishReceipt
<1> QED
  BY <1>2, <1>3, <1>4, <1>5, <1>6

(* The report is published last.                                           *)
LEMMA PublishReportFInv == FInv /\ PublishReport => FInv'
BY FInvTypes DEF PublishReport, ExitCode

(* What repair commands do to the files.                                   *)
LEMMA EnvironmentFInv == FInv /\ Environment => FInv'
<1> SUFFICES ASSUME FInv, Environment PROVE FInv'
  OBVIOUS
<1>1. ASSUME NEW p \in Package, WriteCandidate(p) PROVE FInv'
  BY <1>1, FInvTypes DEF WriteCandidate
<1>2. ASSUME NEW p \in Package, TamperInput(p) PROVE FInv'
  BY <1>2, FInvTypes DEF TamperInput
<1>3. CASE LeaveProcess
  BY <1>3, FInvTypes DEF LeaveProcess
<1>4. ASSUME NEW o \in Output, Collide(o) PROVE FInv'
  BY <1>4, FInvTypes DEF Collide
<1>5. CASE Kill
  BY <1>5, FInvTypes DEF Kill
<1> QED
  BY <1>1, <1>2, <1>3, <1>4, <1>5 DEF Environment

(* Time passes.                                                            *)
LEMMA TickFInv == FInv /\ Tick => FInv'
BY FInvTypes, Constants DEF Tick

(* FInv is inductive.                                                      *)
LEMMA FInvNext == FInv /\ [Next]_vars => FInv'
<1> SUFFICES ASSUME FInv, [Next]_vars PROVE FInv'
  OBVIOUS
<1>1. CASE Command
  <2> HIDE DEF FInv
  <2> QED
    BY <1>1, StartFInv, SubmitFInv, SendFInv, SubmitFailsFInv, DecideFInv,
       StartRepairFInv, PrepareFInv, MakeFilesFInv, SpawnFInv,
       RepairNotStartedFInv, AnswerFInv, RepairEndsFInv, VerifyFInv, ReadCandidateFInv, PromoteFInv,
       SnapshotFailsFInv, PublishPackageFInv, PublishReceiptFInv, PublishReportFInv DEF Command
<1>2. CASE Environment
  BY <1>2, EnvironmentFInv
<1>3. CASE Tick
  BY <1>3, TickFInv
<1>4. CASE UNCHANGED vars
  BY <1>4, FInvTypes DEF vars
<1> QED
  BY <1>1, <1>2, <1>3, <1>4 DEF Next
-----------------------------------------------------------------------------
(* The loop's states all satisfy FInv, whatever the repair command does.   *)
THEOREM FInvariance == Spec => []FInv
<1> HIDE DEF FInv
<1> QED
  BY FInvInit, FInvNext, PTL DEF Spec

(* The state of the loop has its type: no more attempts than max_attempts  *)
(* are made, and no package is sent twice in one of them.                  *)
THEOREM TypeCorrect == Spec => []TypeOK
<1>1. FInv => TypeOK
  OBVIOUS
<1> HIDE DEF FInv, TypeOK
<1> QED
  BY <1>1, FInvariance, PTL

(* Only packages that validate and carry the initial profile bindings are  *)
(* sent or handed out, although the repair command and what it leaves      *)
(* behind may write the files it knows at any time: run_factory_feedback_  *)
(* loop goes by the bytes it has read.                                     *)
THEOREM OnlyAcceptedPackagesLeave == Spec => []OnlyAcceptedLeaves
<1>1. FInv => OnlyAcceptedLeaves
  OBVIOUS
<1> HIDE DEF FInv, OnlyAcceptedLeaves
<1> QED
  BY <1>1, FInvariance, PTL

(* The receipt that is reported is for the package that is reported, and   *)
(* that package was sent: the loop clears the receipt as it replaces the   *)
(* package.                                                                *)
THEOREM ReceiptsMatchPackages == Spec => []ReceiptMatchesPackage
<1>1. FInv => ReceiptMatchesPackage
  OBVIOUS
<1> HIDE DEF FInv, ReceiptMatchesPackage
<1> QED
  BY <1>1, FInvariance, PTL

(* An exit with success means that the factory passed the package on disk  *)
(* and that every requested output is this command's, also when others     *)
(* create files of these names meanwhile.                                  *)
THEOREM SuccessMeansComplete == Spec => []SuccessIsComplete
<1>1. FInv => SuccessIsComplete
  BY DEF SuccessIsComplete
<1> HIDE DEF FInv, SuccessIsComplete
<1> QED
  BY <1>1, FInvariance, PTL

(* For every timeout_seconds and however the steps are delayed, what the   *)
(* loop runs ends within FACTORY_LOOP_TIMEOUT_SECONDS but for the time     *)
(* between the readings of the clock and the starts they bound:            *)
(* bounded_network_timeout rounds down, and run_repair_command charges the *)
(* making of its files to the repair.                                      *)
THEOREM OverrunsAreBounded == Spec => []OverrunIsBounded
<1>1. FInv => OverrunIsBounded
  BY FInvTypes, Constants DEF OverrunIsBounded
<1> HIDE DEF FInv, OverrunIsBounded
<1> QED
  BY <1>1, FInvariance, PTL
=============================================================================
