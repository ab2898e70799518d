--------------------------- MODULE PolicyLifecycle ---------------------------
(***************************************************************************)
(* What follows repeated incidents: the suspension of a failed revision    *)
(* (policy_suspension.rs), its remediation by a successor                  *)
(* (policy_remediation.rs), the append-only lifecycle ledger of both       *)
(* (policy_lifecycle.rs) and the enforcement when a deployment advances    *)
(* (AdvancePolicyDeployment in main.rs).                                   *)
(*                                                                         *)
(* Incidents are taken from PolicyDeployment by contract: a promotion over *)
(* a baseline may be rolled back, closed and retained any number of times. *)
(* The operator extends the latest ledgers and gives the retained          *)
(* lifecycle ledger and every remediation file to each advance.            *)
(***************************************************************************)
EXTENDS PolicyCanary, SequencesExt

CONSTANTS Threshold,       \* suspension_threshold of the incident ledger
          MaxIncidents,    \* bounds on the documents of each kind
          MaxSuspensions,
          MaxRemediations

ASSUME LifecycleAssumption == Threshold \in 2..100

NoSuccessor == 0  \* a remediation revision that is absent

VARIABLES considered,   \* candidates of the deployment chain, with the length the
                        \* lifecycle ledger had
          retained,     \* entries of the PolicyIncidentLedger
          suspensions,  \* PolicySuspensionState documents
          remediations, \* PolicyRemediationState documents
          events        \* entries of the PolicyLifecycleLedger

lifecycleVars == <<considered, retained, suspensions, remediations, events>>
policyVars == <<now, canaries, monitors, lifecycleVars>>

Advance == [cand : Candidate, promoted : BOOLEAN, seen : Nat]
Incident == [failed : Candidate, closed : Time]
Suspension == [failed : Candidate, ledger : Nat, signers : Quorum, at : Time,
               decision : {"suspend", "continue"}]
Remediation == [suspension : Suspension, cand : Candidate, monitor : Monitor,
                signers : Quorum, at : Time]

\* Types of the documents and of the ledgers.
LifecycleTypeOK ==
  /\ CanaryTypeOK
  /\ considered \in Seq(Advance)
  /\ retained \in Seq(Incident)
  /\ suspensions \subseteq Suspension
  /\ remediations \subseteq Remediation
  /\ events \in Seq(suspensions \cup remediations)

LifecycleInit ==
  /\ CanaryInit
  /\ considered = <<>> /\ retained = <<>> /\ events = <<>>
  /\ suspensions = {} /\ remediations = {}

-----------------------------------------------------------------------------
(* Suspension *)

\* An incident that PolicyDeployment retains.
RetainIncident(i) ==
  /\ i > 1
  /\ considered[i].promoted
  /\ Len(retained) < MaxIncidents
  /\ retained' = Append(retained, [failed |-> considered[i].cand, closed |-> now])
  /\ UNCHANGED <<canaryVars, considered, suspensions, remediations, events>>

\* suspension_candidate.
SuspensionCandidate(revision) ==
  Cardinality({i \in 1..Len(retained) : retained[i].failed = revision}) >= Threshold

\* apply_policy_suspension_decision, of a unanimous quorum.  Incidents are
\* appended as they close, so the last one closed last.
ApplySuspension(revision, decision, signers) ==
  LET state == [failed |-> revision, ledger |-> Len(retained), signers |-> signers,
                at |-> now, decision |-> decision]
  IN  /\ SuspensionCandidate(revision)
      /\ Within(now, retained[Len(retained)].closed, ReviewWindow)
      /\ Cardinality(suspensions \cup {state}) <= MaxSuspensions
      /\ suspensions' = suspensions \cup {state}
      /\ UNCHANGED <<canaryVars, considered, retained, remediations, events>>

-----------------------------------------------------------------------------
(* Remediation *)

\* remediation_binding: an accepted successor and clean monitoring of every
\* project of the rollout.
RemediationBinding(s, cand, m) ==
  /\ s.decision = "suspend"
  /\ cand > s.failed
  /\ Carries(cand, m)
  /\ m.canary.scope = Project
  /\ m.clean

IndependentQuorum(s, signers) == signers # s.signers

\* No signer of the suspension signs its remediation.
Independent(s, signers) == signers \cap s.signers = {}

\* apply_policy_remediation.
ApplyRemediation(s, cand, m, signers) ==
  LET state == [suspension |-> s, cand |-> cand, monitor |-> m, signers |-> signers,
                at |-> now]
  IN  /\ RemediationBinding(s, cand, m)
      /\ Within(now, m.at, ReviewWindow)
      /\ Independent(s, signers)
      /\ Cardinality(remediations \cup {state}) <= MaxRemediations
      /\ remediations' = remediations \cup {state}
      /\ UNCHANGED <<canaryVars, considered, retained, suspensions, events>>

-----------------------------------------------------------------------------
(* The lifecycle ledger *)

\* The kind of an entry.
IsSuspension(e) == e \in Suspension

SupersedeOlder(records, revision) ==
  [s \in DOMAIN records |->
    IF records[s].status = "released" /\ records[s].successor < revision
    THEN [records[s] EXCEPT !.status = "superseded"]
    ELSE records[s]]

\* A later suspension supersedes the release of every revision up to its own.
Supersede(records, revision) ==
  [s \in DOMAIN records |->
    IF records[s].status = "released" /\ records[s].successor <= revision
    THEN [records[s] EXCEPT !.status = "superseded"]
    ELSE records[s]]

\* What a retained suspension adds.
Suspended(records, s) ==
  LET previous == IF s.decision = "suspend" THEN Supersede(records, s.failed) ELSE records
      status == IF s.decision = "suspend" THEN "awaiting_remediation"
                ELSE "continued_under_review"
  IN  [t \in DOMAIN records \cup {s} |->
        IF t = s THEN [status |-> status, successor |-> NoSuccessor] ELSE previous[t]]

\* What a retained entry of either kind adds.
Derived(records, e) ==
  IF IsSuspension(e) THEN Suspended(records, e)
  ELSE [records EXCEPT ![e.suspension] = [status |-> "released", successor |-> e.cand]]

\* derive_records: the status of each retained suspension, entry by entry.
DeriveRecords(entries) ==
  LET derived[n \in 0..Len(entries)] ==
        IF n = 0 THEN <<>> ELSE Derived(derived[n - 1], entries[n])
  IN  derived[Len(entries)]

\* derive_records refuses a remediation of anything but an active suspension.
Resolves(r) ==
  LET records == DeriveRecords(events)
  IN  /\ r.suspension \in DOMAIN records
      /\ records[r.suspension].status = "awaiting_remediation"

\* append_policy_lifecycle_event, of either kind: no document twice, and
\* timestamps in order.
AppendEvent(e) ==
  /\ e \notin ToSet(events)
  /\ events # <<>> => events[Len(events)].at <= e.at
  /\ ~IsSuspension(e) => Resolves(e)
  /\ events' = Append(events, e)
  /\ UNCHANGED <<canaryVars, considered, retained, suspensions, remediations>>

-----------------------------------------------------------------------------
(* Enforcement *)

\* enforce_policy_suspensions: the candidate is not suspended, and has a
\* remediation of every suspension of an older revision.
Enforce(cand, given) ==
  \A s \in suspensions \cap ToSet(events) :
    s.decision = "suspend" =>
      /\ s.failed # cand
      /\ cand > s.failed => \E r \in given : r.suspension = s /\ r.cand = cand

\* AdvancePolicyDeployment in main.rs, over the latest deployment state.
AdvanceEnforced(m, cand, decision) ==
  /\ Enforce(cand, remediations)
  /\ Finalized(m, decision)
  /\ Carries(cand, m)
  /\ considered # <<>> => cand > considered[Len(considered)].cand
  /\ decision = "rollback" => considered # <<>>
  /\ considered' = Append(considered,
       [cand |-> cand, promoted |-> decision = "promote", seen |-> Len(events)])
  /\ UNCHANGED <<canaryVars, retained, suspensions, remediations, events>>

-----------------------------------------------------------------------------
LifecycleNext ==
  \/ CanaryStep /\ UNCHANGED lifecycleVars
  \/ \E i \in 1..Len(considered) : RetainIncident(i)
  \/ \E revision \in Candidate, d \in {"suspend", "continue"}, A \in Quorum :
       ApplySuspension(revision, d, A)
  \/ \E s \in suspensions, cand \in Candidate, m \in monitors, A \in Quorum :
       ApplyRemediation(s, cand, m, A)
  \/ \E e \in suspensions \cup remediations : AppendEvent(e)
  \/ \E m \in monitors, cand \in Candidate, d \in {"promote", "rollback"} :
       AdvanceEnforced(m, cand, d)

LifecycleSpec == LifecycleInit /\ [][LifecycleNext]_policyVars

-----------------------------------------------------------------------------
(* Properties *)

\* The remediations of s among the first n entries of the ledger.
ResolutionsOf(s, n) == {i \in 1..n : events[i] \in remediations /\ events[i].suspension = s}

\* What the records say is what happened: a suspension awaits remediation until
\* exactly one remediation follows it in the ledger, and its release is
\* superseded exactly when a later entry suspends the successor it released or a
\* newer revision.
RecordsMatchHistory ==
  LET records == DeriveRecords(events)
  IN  /\ DOMAIN records = suspensions \cap ToSet(events)
      /\ \A k \in 1..Len(events) : IsSuspension(events[k]) =>
           LET s == events[k]
               fixes == ResolutionsOf(s, Len(events))
               later(i) == \E j \in i + 1..Len(events) :
                             /\ IsSuspension(events[j]) /\ events[j].decision = "suspend"
                             /\ events[j].failed >= events[i].cand
           IN  /\ Cardinality(fixes) <= 1
               /\ s.decision = "continue" => fixes = {}
               /\ records[s].status =
                    CASE s.decision = "continue" -> "continued_under_review"
                      [] s.decision = "suspend" /\ fixes = {} -> "awaiting_remediation"
                      [] \E i \in fixes : i > k /\ later(i) -> "superseded"
                      [] \E i \in fixes : i > k /\ ~later(i) -> "released"

\* A revision that was advanced while the ledger held the suspension of an older
\* one was cleared for exactly this: a canary of its profile was monitored clean on
\* the whole fleet, and two or more humans released it, none of whom had signed the
\* suspension.
PromotionIsCleared ==
  \A i \in 1..Len(considered) : \A k \in 1..considered[i].seen :
    LET s == events[k]
    IN  (IsSuspension(s) /\ s.decision = "suspend") =>
          /\ considered[i].cand # s.failed
          /\ considered[i].cand > s.failed =>
               \E r \in remediations :
                 /\ r.suspension = s /\ r.cand = considered[i].cand
                 /\ r.monitor.clean /\ Carries(r.cand, r.monitor)
                 /\ r.monitor.canary.scope = Project
                 /\ Cardinality(r.signers) >= 2 /\ r.signers \cap s.signers = {}

\* What the documents promise of a canary: clean monitoring of a successor, as
\* record_canary_monitoring writes it, is the evidence a remediation asks for.
CleanCanaryRemediates ==
  \A s \in suspensions, m \in monitors, cand \in Candidate :
    (s.decision = "suspend" /\ cand > s.failed /\ Carries(cand, m) /\ m.clean) =>
      RemediationBinding(s, cand, m)

\* What the documents promise of the ledger: when every record but one is
\* superseded or under review, and that one is released, its evidence is enough to
\* advance the successor it releases.
LedgerSuffices ==
  LET records == DeriveRecords(events)
  IN  \A s \in DOMAIN records :
        (/\ records[s].status = "released"
         /\ \A t \in DOMAIN records \ {s} :
              records[t].status \in {"superseded", "continued_under_review"}) =>
          Enforce(records[s].successor, remediations \cap ToSet(events))
=============================================================================
