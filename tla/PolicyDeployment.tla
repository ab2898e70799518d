-------------------------- MODULE PolicyDeployment --------------------------
(***************************************************************************)
(* From a finalized canary to a retained incident: the hash chain of       *)
(* deployment states (policy_deployment.rs), the verification of the fleet *)
(* (policy_deployment_verification.rs), the rollback                       *)
(* (policy_deployment_rollback.rs), its recovery and closure               *)
(* (policy_rollback_recovery.rs) and the incident ledger                   *)
(* (policy_incident_ledger.rs).                                            *)
(*                                                                         *)
(* The operator keeps one chain and one ledger and always extends the      *)
(* latest; any other document may be used late.  A state is identified     *)
(* with its place in the chain, other documents with their content.        *)
(***************************************************************************)
EXTENDS PolicyCanary, Sequences

CONSTANTS MaxVerifications,  \* bounds on the documents of each kind
          MaxRollbacks,
          MaxRecoveries,
          MaxClosures

NoRevision == 0  \* a rollback revision that is absent

VARIABLES chain,         \* PolicyDeploymentState documents, oldest first
          verifications, \* PolicyDeploymentVerificationReport documents
          rollbacks,     \* PolicyDeploymentRollbackState documents
          recoveries,    \* PolicyRollbackRecoveryReport documents
          closures,      \* RollbackIncidentClosureState documents
          incidents,     \* the entries of the PolicyIncidentLedger
          inForce,       \* the revision the fleet runs
          replaced       \* replaced[i]: the revision chain[i] found in force

fleetVars == <<chain, verifications, rollbacks, recoveries, closures, incidents,
               inForce, replaced>>
vars == <<now, canaries, monitors, fleetVars>>

Revision == 0..MaxRevision
State == [status : {"promotion_applied", "rollback_confirmed"}, active : Candidate,
          rollback : Revision, high : Candidate, at : Time]
Verification == [dep : 1..MaxRevision, ok : BOOLEAN, at : Time]
Rollback == [ver : Verification, signers : Quorum, at : Time]
Recovery == [rollback : Rollback, base : Verification, ok : BOOLEAN, at : Time]
Closure == [recovery : Recovery, operator : Signer, at : Time]

\* Types of the documents and of the ledger.
TypeOK ==
  /\ CanaryTypeOK
  /\ chain \in Seq(State)
  /\ verifications \subseteq Verification
  /\ rollbacks \subseteq Rollback
  /\ recoveries \subseteq Recovery
  /\ closures \subseteq Closure
  /\ incidents \in Seq(Closure)
  /\ inForce \in Revision
  /\ replaced \in Seq(Revision)

Init ==
  /\ CanaryInit
  /\ chain = <<>> /\ incidents = <<>> /\ replaced = <<>>
  /\ verifications = {} /\ rollbacks = {} /\ recoveries = {} /\ closures = {}
  /\ inForce = NoRevision

-----------------------------------------------------------------------------
(* The deployment chain *)

AdvancesActive(cand) == chain # <<>> => cand > chain[Len(chain)].active

\* The candidate must be newer than every revision the chain has considered,
\* deployed or not.
Advances(cand) == chain # <<>> => cand > chain[Len(chain)].high

AdvancedFromHigh(cand, decision) ==
  LET previous == IF chain = <<>> THEN NoRevision ELSE chain[Len(chain)].high
  IN  IF decision = "promote"
      THEN [status |-> "promotion_applied", active |-> cand, rollback |-> previous,
            high |-> cand, at |-> now]
      ELSE [status |-> "rollback_confirmed", active |-> previous, rollback |-> previous,
            high |-> cand, at |-> now]

\* The state that a finalized canary adds.
Advanced(cand, decision) ==
  LET previous == IF chain = <<>> THEN NoRevision ELSE chain[Len(chain)].active
  IN  IF decision = "promote"
      THEN [status |-> "promotion_applied", active |-> cand, rollback |-> previous,
            high |-> cand, at |-> now]
      ELSE [status |-> "rollback_confirmed", active |-> previous, rollback |-> previous,
            high |-> cand, at |-> now]

\* A canary rollback is confirmed only over a baseline.
HasActive(decision) == decision = "rollback" => chain # <<>>

\* advance_policy_deployment.
AdvancePolicyDeployment(m, cand, decision) ==
  LET state == Advanced(cand, decision)
  IN  /\ Finalized(m, decision)
      /\ Carries(cand, m)
      /\ Advances(cand)
      /\ HasActive(decision)
      /\ chain' = Append(chain, state)
      /\ replaced' = Append(replaced, inForce)
      /\ inForce' = IF decision = "promote" THEN state.active ELSE inForce
      /\ UNCHANGED <<canaryVars, verifications, rollbacks, recoveries, closures, incidents>>

\* verify_policy_deployment: complete coverage without regression, or failure.
VerifyPolicyDeployment(i, ok) ==
  LET report == [dep |-> i, ok |-> ok, at |-> now]
  IN  /\ chain[i].status = "promotion_applied"
      /\ chain[i].at <= now
      /\ Cardinality(verifications \cup {report}) <= MaxVerifications
      /\ verifications' = verifications \cup {report}
      /\ UNCHANGED <<canaryVars, chain, rollbacks, recoveries, closures, incidents,
                     inForce, replaced>>

-----------------------------------------------------------------------------
(* Rollback, recovery and closure *)

Restored(b) == chain[b.ver.dep].rollback

\* apply_policy_deployment_rollback for a failed verification.
ApplyRollback(v, signers) ==
  LET state == [ver |-> v, signers |-> signers, at |-> now]
  IN  /\ ~v.ok
      /\ Restored(state) # NoRevision
      /\ Restored(state) < chain[v.dep].active
      /\ Within(now, v.at, ReviewWindow)
      /\ Cardinality(rollbacks \cup {state}) <= MaxRollbacks
      /\ rollbacks' = rollbacks \cup {state}
      /\ inForce' = Restored(state)
      /\ UNCHANGED <<canaryVars, chain, verifications, recoveries, closures, incidents, replaced>>

BaselineAnyClean(b, v) == v.ok

\* The evidence verify_policy_rollback_recovery asks for: a clean verification
\* of the state before the failed one, of the restored revision.
Baseline(b, v) ==
  /\ v.dep = b.ver.dep - 1
  /\ v.ok
  /\ chain[v.dep].active = Restored(b)

VerifyRecovery(b, v, ok) ==
  LET report == [rollback |-> b, base |-> v, ok |-> ok, at |-> now]
  IN  /\ Baseline(b, v)
      /\ b.at <= now
      /\ Cardinality(recoveries \cup {report}) <= MaxRecoveries
      /\ recoveries' = recoveries \cup {report}
      /\ UNCHANGED <<canaryVars, chain, verifications, rollbacks, closures, incidents,
                     inForce, replaced>>

\* close_rollback_incident with the acknowledgment of a trusted operator who
\* did not approve the rollback.
CloseIncident(r, operator) ==
  LET state == [recovery |-> r, operator |-> operator, at |-> now]
  IN  /\ r.ok
      /\ Within(now, r.at, ReviewWindow)
      /\ operator \notin r.rollback.signers
      /\ Cardinality(closures \cup {state}) <= MaxClosures
      /\ closures' = closures \cup {state}
      /\ UNCHANGED <<canaryVars, chain, verifications, rollbacks, recoveries, incidents,
                     inForce, replaced>>

\* Whether the ledger has this incident already.
Retained(c) ==
  \E i \in 1..Len(incidents) : incidents[i] = c \/ incidents[i].recovery = c.recovery

\* append_policy_incident.
AppendIncident(c) ==
  /\ ~Retained(c)
  /\ incidents' = Append(incidents, c)
  /\ UNCHANGED <<canaryVars, chain, verifications, rollbacks, recoveries, closures,
                 inForce, replaced>>

-----------------------------------------------------------------------------
Next ==
  \/ CanaryStep /\ UNCHANGED fleetVars
  \/ \E m \in monitors, cand \in Candidate, d \in {"promote", "rollback"} :
       AdvancePolicyDeployment(m, cand, d)
  \/ \E i \in 1..Len(chain), ok \in BOOLEAN : VerifyPolicyDeployment(i, ok)
  \/ \E v \in verifications, A \in Quorum : ApplyRollback(v, A)
  \/ \E b \in rollbacks, v \in verifications, ok \in BOOLEAN : VerifyRecovery(b, v, ok)
  \/ \E r \in recoveries, s \in Signer : CloseIncident(r, s)
  \/ \E c \in closures : AppendIncident(c)

Spec == Init /\ [][Next]_vars

-----------------------------------------------------------------------------
(* Properties *)

\* A revision is considered once: whether it was promoted, rolled back by its
\* canary or rolled back in production, no later state of the chain has it as
\* its candidate again, and what is active was considered before
\* ("reject revision replay").
ConsideredOnce ==
  /\ \A i, j \in 1..Len(chain) : i < j => chain[i].high < chain[j].high
  /\ \A i \in 1..Len(chain) : \E j \in 1..i :
        chain[j].high = chain[i].active /\ chain[j].status = "promotion_applied"

\* A retained incident is one closed rollback: a failed verification of a
\* promotion, restored to the revision that was active in the state before and
\* had verified clean there, approved by two humans and closed by a third, in
\* this order in time.
IncidentIsWhole ==
  \A n \in 1..Len(incidents) :
    LET c == incidents[n]
        r == c.recovery
        b == r.rollback
    IN  /\ b.ver \in verifications /\ ~b.ver.ok
        /\ chain[b.ver.dep].status = "promotion_applied"
        /\ r.base \in verifications /\ r.base.ok /\ r.base.dep = b.ver.dep - 1
        /\ chain[r.base.dep].active = Restored(b)
        /\ Restored(b) < chain[b.ver.dep].active
        /\ Cardinality(b.signers \cup {c.operator}) >= 3
        /\ b.ver.at <= b.at /\ b.at <= r.at /\ r.at <= c.at

\* A production rollback restores what the fleet ran before the failed
\* promotion, whatever canaries were rolled back in between, as long as no
\* earlier promotion was itself rolled back in production: the chain does not
\* hear of that ("exact pre-promotion production evidence").
RestoresReplaced ==
  \A b \in rollbacks :
    (\A o \in rollbacks : o.ver.dep >= b.ver.dep) => Restored(b) = replaced[b.ver.dep]

\* What the documents promise of an incident: the ledger counts closed
\* rollbacks, so a rollback is counted once.
RollbackCountedOnce ==
  \A i, j \in 1..Len(incidents) :
    incidents[i].recovery.rollback = incidents[j].recovery.rollback => i = j

\* What the documents promise of a restored fleet: it runs what production ran
\* before the failed promotion.
RestoresPrePromotion ==
  \A b \in rollbacks : Restored(b) = replaced[b.ver.dep]

\* What the documents promise of a rollback: its recovery can be verified, that
\* is, the state before the failed one is one that can be verified.
RollbackIsRecoverable ==
  \A b \in rollbacks : chain[b.ver.dep - 1].status = "promotion_applied"
=============================================================================
