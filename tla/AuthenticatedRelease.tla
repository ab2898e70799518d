------------------------ MODULE AuthenticatedRelease ------------------------
(***************************************************************************)
(* Authenticated adapter responses (docs/AUTHENTICATED_FACTORY_RELEASE_    *)
(* ADAPTER_RESPONSES.md): the commands of crates/pcbex-cli/src/main.rs     *)
(*                                                                         *)
(*   submit     submit_authenticated_signed_factory_receipt_release_local  *)
(*   reconcile  reconcile_authenticated_..._release_local                  *)
(*                                                                         *)
(* beside the older commands of ReleaseLedger, in the same ledger.  They   *)
(* share the marker, the intent and the compatible receipts with them, and *)
(* keep an authentication report before each receipt.  A process runs one  *)
(* command, of either kind, at a time.                                     *)
(*                                                                         *)
(* The outcome of the signature, digest and time checks on a response is   *)
(* one bit; the adapter is not trusted, so it goes with any receipt.       *)
(***************************************************************************)
EXTENDS ReleaseLedger

CONSTANTS Policy,      \* pinned policy packs
          LegacyId,    \* reconciliation ids used with the older reconcile
          AuthId       \* reconciliation ids used with the authenticated one

ASSUME IdAssumption == LegacyId \subseteq ReconId /\ AuthId \subseteq ReconId

(* The submission's own report has no reconciliation id.                   *)
ReportName(k, r) == [kind |-> "report", key |-> k, id |-> r]

(* The receipt name that goes with a report.                               *)
CompatibleName(k, r) == IF r = Absent THEN ResultName(k) ELSE ReconciliationName(k, r)

Report == [receipt : Receipt, policy : Policy, authenticated : BOOLEAN]

AuthName ==
  LedgerName \cup {ReportName(k, r) : k \in Marker, r \in AuthId \cup {Absent}}
AuthBytes == LedgerBytes \cup Report

ASSUME AuthAssumption ==
  /\ AuthName \subseteq Name
  /\ AuthBytes \subseteq Bytes
  /\ Absent \notin Policy

VARIABLES auth,      \* the authenticated command of each process, and its locals
          shown      \* reports published outside the ledger

authVars == <<auth, shown>>
allVars == <<vars, authVars>>

IdleAuth == [pc |-> "idle", marker |-> Absent, intent |-> Absent, id |-> Absent,
             policy |-> Absent, report |-> Absent]

AuthPublishingPc == {"intent", "report", "compatible"}
AuthPc == AuthPublishingPc \cup
  {"idle", "readIntent", "checkOrphan", "recheck", "post", "readReport", "readCompatible",
   "readObservation", "readLegacy", "await", "publish"}

AuthInit ==
  /\ Init
  /\ auth = [p \in Proc |-> IdleAuth]
  /\ shown = {}
-----------------------------------------------------------------------------
AuthGoto(p, pc) == auth' = [auth EXCEPT ![p].pc = pc]
AuthExit(p) == auth' = [auth EXCEPT ![p] = IdleAuth]

Key(p) == auth[p].intent.key

(* The names a report is kept under, and its receipt.                      *)
OwnReportName(p) == ReportName(Key(p), auth[p].report.receipt.id)
OwnCompatibleName(p) == CompatibleName(Key(p), auth[p].report.receipt.id)

(* intent_guard, result_guard and guard; the policy and the package files  *)
(* are outside.                                                            *)
AuthGuard(p) ==
  /\ auth[p].marker # Absent => entry[MarkerName] = auth[p].marker
  /\ IF auth[p].pc \in {"intent", "recheck"} THEN Active(auth[p].marker)
     ELSE entry[IntentName(Key(p))] = auth[p].intent

AuthPublishing(p) ==
  /\ auth[p].pc \in AuthPublishingPc
  /\ \E env \in BOOLEAN :
       Install(p, env /\ AuthGuard(p)) \/ Complete(p, env /\ AuthGuard(p))
  /\ linkedAt' = [n \in Name |-> IF entry[n] = Absent /\ entry'[n] # Absent
                                   THEN now ELSE linkedAt[n]]
  /\ UNCHANGED <<now, inv, posts, admitted, outputs, authVars>>

(* parse_factory_release_adapter_response_authentication_report: a stored  *)
(* report must be for this intent and this policy.                         *)
ReportParses(p, report) ==
  /\ report.receipt.intent = auth[p].intent
  /\ report.policy = auth[p].policy

(* Only auth and pub change.                                               *)
LedgerKept == UNCHANGED <<entry, durable, ledgerVars, shown>>
-----------------------------------------------------------------------------
(* submit: as the older one up to the intent, except that an existing      *)
(* intent is answered from its report only.                                *)
AuthSubmitStart(p, x, policy) ==
  /\ inv[p].pc = "idle" /\ auth[p].pc = "idle"
  /\ entry[MarkerName] # Absent
  /\ LET m == entry[MarkerName] IN
       auth' = [auth EXCEPT ![p] = [IdleAuth EXCEPT !.pc = "readIntent", !.marker = m,
                  !.intent = [key |-> m, nonce |-> x], !.policy = policy]]
  /\ LedgerKept /\ UNCHANGED pub

AuthSubmitReadIntent(p) ==
  /\ auth[p].pc = "readIntent"
  /\ LET found == entry[IntentName(Key(p))] IN
       CASE found = Absent -> AuthGoto(p, "checkOrphan")
         [] found = auth[p].intent -> AuthGoto(p, "readReport")
         [] OTHER -> AuthExit(p)
  /\ LedgerKept /\ UNCHANGED pub

AuthSubmitStageIntent(p) ==
  /\ auth[p].pc = "checkOrphan"
  /\ IF /\ entry[ReportName(Key(p), Absent)] = Absent
        /\ entry[ResultName(Key(p))] = Absent
        /\ Active(auth[p].marker)
       THEN AuthGoto(p, "intent") /\ StageAs(p, IntentName(Key(p)), auth[p].intent)
       ELSE AuthExit(p) /\ UNCHANGED pub
  /\ LedgerKept

(* Mutant: a concurrent intent is taken for one's own.                     *)
AuthSubmitIntentOutcomeShared(p) ==
  /\ auth[p].pc = "intent"
  /\ pub[p].step \in Outcome
  /\ IF pub[p].step \in {"CommittedDurable", "AlreadyExists"}
       THEN AuthGoto(p, "recheck") ELSE AuthExit(p)
  /\ Take(p)
  /\ LedgerKept

(* Mutant: an intent whose completion failed is taken for a durable one.   *)
AuthSubmitIntentOutcomeUncertain(p) ==
  /\ auth[p].pc = "intent"
  /\ pub[p].step \in Outcome
  /\ IF pub[p].step \in {"CommittedDurable", "CommittedButCompletionFailed"}
       THEN AuthGoto(p, "recheck") ELSE AuthExit(p)
  /\ Take(p)
  /\ LedgerKept

(* Only CommittedDurable goes on.                                          *)
AuthSubmitIntentOutcome(p) ==
  /\ auth[p].pc = "intent"
  /\ pub[p].step \in Outcome
  /\ IF pub[p].step = "CommittedDurable" THEN AuthGoto(p, "recheck") ELSE AuthExit(p)
  /\ Take(p)
  /\ LedgerKept

(* intent_guard once more; that it fails is like a kill.                   *)
AuthSubmitRecheck(p) ==
  /\ auth[p].pc = "recheck"
  /\ AuthGuard(p)
  /\ AuthGoto(p, "post")
  /\ LedgerKept /\ UNCHANGED pub

(* The receipt of a request before its answer.                             *)
PendingReport(p) ==
  [receipt |-> [intent |-> auth[p].intent, id |-> auth[p].id, status |-> "unknown", at |-> now],
   policy |-> auth[p].policy, authenticated |-> FALSE]

(* "No POST retry is permitted after the durable intent barrier commits."  *)
AuthSubmitPost(p) ==
  /\ auth[p].pc = "post"
  /\ posts' = [posts EXCEPT ![Key(p)] = @ + 1]
  /\ auth' = [auth EXCEPT ![p].pc = "await", ![p].report = PendingReport(p)]
  /\ UNCHANGED <<pubVars, now, inv, admitted, outputs, linkedAt, shown>>

(* Mutant: the compatible receipt is staged first.                         *)
AuthResponseReceiptFirst(p, s, authenticated) ==
  /\ auth[p].pc = "await"
  /\ LET report == [auth[p].report EXCEPT !.receipt.status = s,
                                          !.authenticated = authenticated] IN
       /\ auth' = [auth EXCEPT ![p].pc = "compatible", ![p].report = report]
       /\ StageAs(p, OwnCompatibleName(p), report.receipt)
  /\ LedgerKept

(* authenticate_network_response: any receipt, authenticated or not; the   *)
(* report is recorded in either case.                                      *)
AuthResponse(p, s, authenticated) ==
  /\ auth[p].pc = "await"
  /\ LET report == [auth[p].report EXCEPT !.receipt.status = s,
                                          !.authenticated = authenticated] IN
       /\ auth' = [auth EXCEPT ![p].pc = "report", ![p].report = report]
       /\ StageAs(p, OwnReportName(p), report)
  /\ LedgerKept

(* Mutant: whatever became of the report, its receipt is written.          *)
AuthReportOutcomeIgnored(p) ==
  /\ auth[p].pc = "report"
  /\ pub[p].step \in Outcome
  /\ AuthGoto(p, "compatible")
  /\ StageAs(p, OwnCompatibleName(p), auth[p].report.receipt)
  /\ LedgerKept

(* The compatible receipt follows the report.                              *)
AuthReportOutcome(p) ==
  /\ auth[p].pc = "report"
  /\ pub[p].step \in Outcome
  /\ IF Recorded(p)
       THEN /\ AuthGoto(p, "compatible")
            /\ StageAs(p, OwnCompatibleName(p), auth[p].report.receipt)
       ELSE AuthExit(p) /\ Take(p)
  /\ LedgerKept
-----------------------------------------------------------------------------
(* A report found in the ledger: submit and reconcile look at the          *)
(* submission's report, reconcile then at the one of its id.               *)
ReadReport(p, n, missing) ==
  CASE entry[n] = Absent ->
         IF missing = "idle" THEN AuthExit(p) ELSE AuthGoto(p, missing)
    [] entry[n] # Absent /\ ReportParses(p, entry[n]) ->
         auth' = [auth EXCEPT ![p].pc = "readCompatible", ![p].report = entry[n]]
    [] OTHER -> AuthExit(p)

(* Without a report submit refuses, whether or not a result of the older   *)
(* submit exists; reconcile goes on.                                       *)
ReadSubmissionReport(p) ==
  /\ auth[p].pc = "readReport"
  /\ ReadReport(p, ReportName(Key(p), Absent),
                IF auth[p].id = Absent THEN "idle" ELSE "readObservation")
  /\ LedgerKept /\ UNCHANGED pub

ReadObservationReport(p) ==
  /\ auth[p].pc = "readObservation"
  /\ ReadReport(p, ReportName(Key(p), auth[p].id), "readLegacy")
  /\ LedgerKept /\ UNCHANGED pub

(* What follows once the receipt of a report is in place: reconcile does   *)
(* not stop at a submission that is open or not authenticated.             *)
AfterCompatible(p) ==
  LET report == auth[p].report IN
  IF /\ auth[p].id # Absent /\ report.receipt.id = Absent
     /\ ~(report.authenticated /\ report.receipt.status \in Terminal)
    THEN "readObservation" ELSE "publish"

(* The receipt of a report found is checked, or written from it.           *)
ReadCompatible(p) ==
  /\ auth[p].pc = "readCompatible"
  /\ LET n == OwnCompatibleName(p)
         receipt == auth[p].report.receipt IN
       CASE entry[n] = Absent -> AuthGoto(p, "compatible") /\ StageAs(p, n, receipt)
         [] entry[n] = receipt -> AuthGoto(p, AfterCompatible(p)) /\ UNCHANGED pub
         [] OTHER -> AuthExit(p) /\ UNCHANGED pub
  /\ LedgerKept

CompatibleOutcome(p) ==
  /\ auth[p].pc = "compatible"
  /\ pub[p].step \in Outcome
  /\ IF Recorded(p) THEN AuthGoto(p, AfterCompatible(p)) ELSE AuthExit(p)
  /\ Take(p)
  /\ LedgerKept

(* The report is written to the caller's output; that it fails is a kill.  *)
AuthPublish(p) ==
  /\ auth[p].pc = "publish"
  /\ shown' = shown \cup {auth[p].report}
  /\ AuthExit(p)
  /\ UNCHANGED <<pubVars, ledgerVars>>
-----------------------------------------------------------------------------
(* reconcile: the intent of the key must exist; the marker is not read.    *)
AuthReconcileStart(p, k, r, policy) ==
  /\ inv[p].pc = "idle" /\ auth[p].pc = "idle"
  /\ entry[IntentName(k)] # Absent
  /\ auth' = [auth EXCEPT ![p] = [IdleAuth EXCEPT !.pc = "readReport", !.id = r,
                !.intent = entry[IntentName(k)], !.policy = policy]]
  /\ LedgerKept /\ UNCHANGED pub

(* An id that an older observation has is refused; otherwise the guard     *)
(* runs and the GET is sent.                                               *)
AuthReconcileGet(p) ==
  /\ auth[p].pc = "readLegacy"
  /\ auth' = IF entry[ReconciliationName(Key(p), auth[p].id)] = Absent /\ AuthGuard(p)
               THEN [auth EXCEPT ![p].pc = "await", ![p].report = PendingReport(p)]
               ELSE [auth EXCEPT ![p] = IdleAuth]
  /\ LedgerKept /\ UNCHANGED pub
-----------------------------------------------------------------------------
(* Any other failed check ends a command like a kill.                      *)
AuthKilled(p) ==
  /\ auth[p].pc # "idle"
  /\ AuthExit(p)
  /\ Take(p)
  /\ LedgerKept

AuthStart(p) ==
  \E policy \in Policy :
    \/ \E x \in Nonce : AuthSubmitStart(p, x, policy)
    \/ \E k \in Marker, r \in AuthId : AuthReconcileStart(p, k, r, policy)

AuthContinue(p) ==
  \/ AuthPublishing(p)
  \/ AuthSubmitReadIntent(p) \/ AuthSubmitStageIntent(p) \/ AuthSubmitIntentOutcome(p)
  \/ AuthSubmitRecheck(p) \/ AuthSubmitPost(p)
  \/ ReadSubmissionReport(p) \/ ReadObservationReport(p) \/ AuthReconcileGet(p)
  \/ \E s \in Status, b \in BOOLEAN : AuthResponse(p, s, b)
  \/ AuthReportOutcome(p) \/ ReadCompatible(p) \/ CompatibleOutcome(p) \/ AuthPublish(p)

(* The older commands, with the ids that are theirs.                       *)
OlderStart(p) ==
  /\ auth[p].pc = "idle"
  /\ \/ \E m \in Marker : ReserveStart(p, m)
     \/ \E x \in Nonce : SubmitStart(p, x)
     \/ \E k \in Marker, r \in LegacyId : ReconcileStart(p, k, r)

OlderNext ==
  /\ \/ Tick
     \/ \E p \in Proc : OlderStart(p) \/ Continue(p) \/ ProcessKilled(p)
  /\ UNCHANGED authVars

AuthPoweredNext ==
  \/ OlderNext
  \/ \E p \in Proc : AuthStart(p) \/ AuthContinue(p) \/ AuthKilled(p)

AuthPowerFails ==
  /\ PowerFails
  /\ auth' = [p \in Proc |-> IdleAuth]
  /\ UNCHANGED shown

AuthNext == AuthPoweredNext \/ AuthPowerFails

AuthSpec == AuthInit /\ [][AuthNext]_allVars

(* The same system while the power stays on.                               *)
AuthPoweredSpec == AuthInit /\ [][AuthPoweredNext]_allVars
-----------------------------------------------------------------------------
(* Type invariant.                                                         *)
AuthTypeOK ==
  /\ TypeOK
  /\ auth \in [Proc -> [pc     : AuthPc,
                        marker : Marker \cup {Absent},
                        intent : Intent \cup {Absent},
                        id     : AuthId \cup {Absent},
                        policy : Policy \cup {Absent},
                        report : Report \cup {Absent}]]
  /\ shown \subseteq Report

(* While the power stays on, a report handed to a caller is in the ledger   *)
(* together with the compatible receipt it retains, and an older command    *)
(* that answers from this receipt says the same ("records the               *)
(* authentication report before its compatible v1.482 receipt").            *)
ShownIsRetained ==
  \A s \in shown :
    LET k == s.receipt.intent.key
        n == CompatibleName(k, s.receipt.id) IN
    /\ entry[ReportName(k, s.receipt.id)] = s
    /\ entry[n] = s.receipt
    /\ \A o \in outputs : o.name = n => o.receipt = s.receipt

(* "The next invocation reconstructs that exact receipt from the            *)
(* authenticated report": no other receipt ever stands in a report's place, *)
(* or every replay of it fails for good.                                    *)
ReportIsReplayable ==
  \A k \in Marker, r \in AuthId \cup {Absent} :
    LET report == entry[ReportName(k, r)] IN
    report # Absent => entry[CompatibleName(k, r)] \in {Absent, report.receipt}
=============================================================================
