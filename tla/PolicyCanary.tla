---------------------------- MODULE PolicyCanary ----------------------------
(***************************************************************************)
(* The canary of a policy candidate (policy_rollout_approval.rs,           *)
(* policy_rollout.rs, canary_completion.rs): an authorization for a small  *)
(* part of the fleet, the monitoring of exactly that part, and the human   *)
(* decision that finalizes it.  Every document is a new file, so the state *)
(* only grows; a digest in a document is the document itself.              *)
(*                                                                         *)
(* A policy pack is identified with its revision: the trust state accepts  *)
(* one digest per revision.  A canary binds the DFM profile it simulates   *)
(* and not the revision that will carry it, so one canary may serve two    *)
(* revisions.  Signatures are ideal, and the time arguments of the         *)
(* commands are the current time.                                          *)
(***************************************************************************)
EXTENDS Integers, FiniteSets

CONSTANTS Project,       \* the fleet of a rollout
          Signer,        \* trusted_human_escalation_keys, the same in all packs
          MaxRevision,   \* bound on candidate revisions
          ProfileOf,     \* the DFM profile of a candidate revision
          CanaryWindow,  \* length of an authorization, in ticks
          ReviewWindow,  \* the day that bounds every review, in ticks
          MaxCanaries,   \* bounds on the authorizations and on the reports
          MaxMonitors,
          MaxTime        \* bound on the clock

ASSUME CanaryAssumption ==
  /\ IsFiniteSet(Project) /\ Project # {}
  /\ IsFiniteSet(Signer)
  /\ MaxRevision \in Nat /\ MaxTime \in Nat
  /\ CanaryWindow \in Nat \ {0} /\ ReviewWindow \in Nat
  /\ DOMAIN ProfileOf = 2..MaxRevision

VARIABLES now,      \* the clock
          canaries, \* CanaryRolloutAuthorization documents that authorize
          monitors  \* CanaryMonitoringReport documents

canaryVars == <<now, canaries, monitors>>

Time == 0..MaxTime
Candidate == 2..MaxRevision
Profile == {ProfileOf[r] : r \in Candidate}

\* Dual control: two or more distinct trusted humans.
Quorum == {A \in SUBSET Signer : Cardinality(A) >= 2}

Canary == [profile : Profile, scope : SUBSET Project, from : Time, expires : Nat]
Monitor == [canary : Canary, at : Time, clean : BOOLEAN]

CanaryTypeOK ==
  /\ now \in Time
  /\ canaries \subseteq Canary
  /\ monitors \subseteq Monitor

CanaryInit == now = 0 /\ canaries = {} /\ monitors = {}

\* A tenth of the fleet, rounded up.
CanaryLimit == (Cardinality(Project) + 9) \div 10

Within(t, first, window) == first <= t /\ t <= first + window

Tick ==
  /\ now < MaxTime
  /\ now' = now + 1
  /\ UNCHANGED <<canaries, monitors>>

\* The authorization that a quorum grants now.
Authorization(profile, scope) ==
  [profile |-> profile, scope |-> scope, from |-> now, expires |-> now + CanaryWindow]

\* verify_rollout_approvals, for a simulation without impact and a quorum that
\* approves unanimously; any other authorization is refused further on.
Authorize(profile, scope) ==
  /\ scope # {}
  /\ Cardinality(scope) <= CanaryLimit
  /\ Quorum # {}
  /\ Cardinality(canaries \cup {Authorization(profile, scope)}) <= MaxCanaries
  /\ canaries' = canaries \cup {Authorization(profile, scope)}
  /\ UNCHANGED <<now, monitors>>

\* record_canary_monitoring covers exactly the authorized projects.
RecordMonitoring(c, clean) ==
  LET report == [canary |-> c, at |-> now, clean |-> clean]
  IN  /\ c.from <= now /\ now <= c.expires
      /\ Cardinality(monitors \cup {report}) <= MaxMonitors
      /\ monitors' = monitors \cup {report}
      /\ UNCHANGED <<now, canaries>>

\* The candidate pack has exactly the profile of the rollout.
Carries(cand, m) == ProfileOf[cand] = m.canary.profile

\* verify_canary_completion: a unanimous quorum decides inside the window, and
\* a failed canary can only be rolled back.
Finalized(m, decision) ==
  /\ Quorum # {}
  /\ m.at <= now /\ now <= m.canary.expires
  /\ decision = "promote" => m.clean

CanaryStep ==
  \/ Tick
  \/ \E profile \in Profile, scope \in SUBSET Project : Authorize(profile, scope)
  \/ \E c \in canaries, clean \in BOOLEAN : RecordMonitoring(c, clean)
=============================================================================
