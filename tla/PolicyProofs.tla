---------------------------- MODULE PolicyProofs ----------------------------
(***************************************************************************)
(* Proofs about PolicyDeployment and PolicyLifecycle for every fleet,      *)
(* every set of signers, any number of revisions and documents, any        *)
(* threshold and all windows.                                              *)
(*                                                                         *)
(* Deployment: the documents refer to each other backwards, and each one's *)
(* checks saw only the one before it; Evidence carries what was checked    *)
(* along the references, from the ledger back to the chain.  The chain     *)
(* itself only grows at its end (ChainInv), so what a document saw of it   *)
(* stays true.  Restoration needs what the chain does not record: as long  *)
(* as nothing was rolled back in production, the fleet runs the latest     *)
(* active revision (InForce).                                              *)
(*                                                                         *)
(* Lifecycle: enforce_policy_suspensions sees the lifecycle ledger as it   *)
(* is at the advance; the ledger only grows, and an entry never changes    *)
(* its kind, so the clearance of an advance stays what it was.  The        *)
(* remediation it has seen carries its own evidence (Binding).             *)
(*                                                                         *)
(* Records: derive_records is a recursion over the ledger.  It is shown to *)
(* define a function (DerivationExists) that an appended entry extends by  *)
(* one step (DeriveAppend); HInv says what the records are after any       *)
(* number of entries, and each kind of entry keeps it.                     *)
(***************************************************************************)
EXTENDS PolicyDeployment, PolicyLifecycle, FiniteSetTheorems, SequenceTheorems, TLAPS

-----------------------------------------------------------------------------
(* Deployment, rollback and incidents *)

Previous(i) == IF i = 1 THEN NoRevision ELSE chain[i - 1].active

(* Revisions rise along the chain, which bounds its length.                *)
ChainInv ==
  /\ \A i \in 1..Len(chain) : chain[i].high >= i + 1 /\ chain[i].rollback = Previous(i)
  /\ ConsideredOnce

(* What each document's checks saw of the document before it.              *)
Verified == \A v \in verifications :
  v.dep \in 1..Len(chain) /\ chain[v.dep].status = "promotion_applied" /\ v.at <= now
RolledBack == \A b \in rollbacks :
  /\ b.ver \in verifications /\ ~b.ver.ok
  /\ Restored(b) < chain[b.ver.dep].active
  /\ b.ver.at <= b.at /\ b.at <= now
Recovered == \A r \in recoveries :
  /\ r.rollback \in rollbacks /\ r.base \in verifications /\ r.base.ok
  /\ r.base.dep = r.rollback.ver.dep - 1
  /\ chain[r.base.dep].active = Restored(r.rollback)
  /\ r.rollback.at <= r.at /\ r.at <= now
Closed == \A c \in closures :
  /\ c.recovery \in recoveries
  /\ c.operator \notin c.recovery.rollback.signers
  /\ c.recovery.at <= c.at
Logged == \A n \in 1..Len(incidents) : incidents[n] \in closures
Evidence == Verified /\ RolledBack /\ Recovered /\ Closed /\ Logged

(* What the fleet runs and ran, while nothing older was rolled back.       *)
InForce ==
  /\ rollbacks = {} => inForce = Previous(Len(chain) + 1)
  /\ Len(replaced) = Len(chain)
  /\ \A i \in 1..Len(chain) :
       (\A o \in rollbacks : o.ver.dep >= i) => replaced[i] = chain[i].rollback

DInv == TypeOK /\ ChainInv /\ Evidence /\ InForce

USE CanaryAssumption
-----------------------------------------------------------------------------
(* Everything holds at the first deployment.                               *)
LEMMA DInvInit == Init => DInv
<1> SUFFICES ASSUME Init PROVE DInv
  OBVIOUS
<1>1. TypeOK
  BY DEF Init, CanaryInit, TypeOK, CanaryTypeOK, Time, Revision, NoRevision
<1>2. ChainInv /\ Evidence /\ InForce
  BY DEF Init, ChainInv, ConsideredOnce, Evidence, Verified, RolledBack, Recovered, Closed, Logged,
         InForce, Previous
<1> QED
  BY <1>1, <1>2 DEF DInv

(* The entries of the chain.                                               *)
LEMMA ChainTypes ==
  ASSUME TypeOK
  PROVE  /\ Len(chain) \in Nat /\ Len(incidents) \in Nat /\ now \in Nat
         /\ \A i \in 1..Len(chain) : chain[i] \in State
         /\ \A i \in 1..Len(chain) : chain[i].active \in Nat /\ chain[i].high \in Nat
                                    /\ chain[i].active \in Candidate /\ chain[i].high \in Candidate
         /\ chain = <<>> <=> Len(chain) = 0
<1>1. /\ chain \in Seq(State) /\ incidents \in Seq(Closure) /\ now \in Nat
  BY DEF TypeOK, CanaryTypeOK, Time
<1>2. \A i \in 1..Len(chain) : chain[i] \in State
  BY <1>1
<1> QED
  BY <1>1, <1>2 DEF State, Candidate

(* A step that leaves the chain alone keeps what is said of it.            *)
LEMMA ChainKept == ASSUME ChainInv, UNCHANGED chain PROVE ChainInv'
BY DEF ChainInv, ConsideredOnce, Previous

(* Steps of the canary keep its types.                                     *)
LEMMA CanaryTypes == ASSUME CanaryTypeOK, CanaryStep PROVE CanaryTypeOK' /\ now <= now'
<1>1. now \in Nat
  BY DEF CanaryTypeOK, Time
<1>2. CASE Tick
  BY <1>1, <1>2 DEF Tick, CanaryTypeOK, Time
<1>3. ASSUME NEW profile \in Profile, NEW scope \in SUBSET Project, Authorize(profile, scope)
      PROVE  CanaryTypeOK' /\ now <= now'
  <2>1. Authorization(profile, scope) \in Canary
    BY <1>1 DEF Authorization, Canary, CanaryTypeOK
  <2> QED
    BY <1>1, <1>3, <2>1 DEF Authorize, CanaryTypeOK
<1>4. ASSUME NEW c \in canaries, NEW clean \in BOOLEAN, RecordMonitoring(c, clean)
      PROVE  CanaryTypeOK' /\ now <= now'
  <2>1. [canary |-> c, at |-> now, clean |-> clean] \in Monitor
    BY DEF Monitor, CanaryTypeOK
  <2> QED
    BY <1>1, <1>4, <2>1 DEF RecordMonitoring, CanaryTypeOK
<1> QED
  BY <1>2, <1>3, <1>4 DEF CanaryStep

(* Steps of the canary do not touch the fleet.                             *)
LEMMA CanaryDInv == DInv /\ CanaryStep /\ UNCHANGED fleetVars => DInv'
<1> SUFFICES ASSUME DInv, CanaryStep, UNCHANGED fleetVars PROVE DInv'
  OBVIOUS
<1>1. TypeOK /\ now \in Nat
  BY DEF DInv, TypeOK, CanaryTypeOK, Time
<1>2. CanaryTypeOK' /\ now <= now'
  BY <1>1, CanaryTypes DEF TypeOK
<1>3. now' \in Nat
  BY <1>2 DEF CanaryTypeOK, Time
<1>4. TypeOK'
  BY <1>1, <1>2 DEF TypeOK, fleetVars
<1>5. ChainInv'
  BY ChainKept DEF DInv, fleetVars
<1>6. Evidence'
  <2>1. Verified'
    BY <1>1, <1>2, <1>3 DEF DInv, Evidence, Verified, TypeOK, Verification, Time, fleetVars
  <2>2. RolledBack'
    BY <1>1, <1>2, <1>3 DEF DInv, Evidence, RolledBack, Restored, TypeOK, Rollback, Time, fleetVars
  <2>3. Recovered'
    BY <1>1, <1>2, <1>3 DEF DInv, Evidence, Recovered, Restored, TypeOK, Recovery, Time, fleetVars
  <2>4. Closed' /\ Logged'
    BY DEF DInv, Evidence, Closed, Logged, fleetVars
  <2> QED
    BY <2>1, <2>2, <2>3, <2>4 DEF Evidence
<1>7. InForce'
  BY DEF DInv, InForce, Previous, fleetVars
<1> QED
  BY <1>4, <1>5, <1>6, <1>7 DEF DInv
-----------------------------------------------------------------------------
(* The chain grows at its end.                                             *)
LEMMA AdvanceDInv ==
  ASSUME DInv, NEW m \in monitors, NEW cand \in Candidate, NEW d \in {"promote", "rollback"},
         AdvancePolicyDeployment(m, cand, d)
  PROVE  DInv'
<1>0. PICK n \in Nat : n = Len(chain)
  BY ChainTypes DEF DInv
<1> DEFINE state == Advanced(cand, d)
           previous == IF chain = <<>> THEN NoRevision ELSE chain[Len(chain)].active
<1>1. /\ TypeOK /\ n \in Nat /\ n = Len(chain) /\ now \in Time /\ inForce \in Revision
      /\ chain \in Seq(State) /\ replaced \in Seq(Revision)
  BY <1>0, ChainTypes DEF DInv, TypeOK, CanaryTypeOK
<1>2. previous = Previous(n + 1) /\ previous \in Revision /\ (d = "rollback" => previous \in Candidate)
  <2>1. CASE n = 0
    BY <1>1, <2>1, ChainTypes DEF Previous, Revision, NoRevision, AdvancePolicyDeployment, HasActive
  <2>2. CASE n # 0
    <3>1. chain # <<>> /\ chain[n].active \in Candidate /\ (n + 1) - 1 = n /\ n + 1 # 1
      BY <1>1, <2>2, ChainTypes
    <3> QED
      BY <1>1, <3>1 DEF Previous, Revision, Candidate
  <2> QED
    BY <2>1, <2>2
<1>3. /\ state.high = cand /\ state.rollback = previous
      /\ d = "promote" => state.status = "promotion_applied" /\ state.active = cand
      /\ d = "rollback" => state.active = previous
      /\ state \in State
  BY <1>1, <1>2 DEF Advanced, State
<1> HIDE DEF state
<1>4. /\ chain' = Append(chain, state) /\ replaced' = Append(replaced, inForce)
      /\ inForce' = IF d = "promote" THEN state.active ELSE inForce
      /\ UNCHANGED <<now, canaries, monitors, verifications, rollbacks, recoveries, closures, incidents>>
  BY DEF AdvancePolicyDeployment, canaryVars, state
<1>5. /\ Len(chain') = n + 1 /\ chain' \in Seq(State) /\ chain'[n + 1] = state
      /\ \A i \in 1..n : chain'[i] = chain[i]
  BY <1>1, <1>3, <1>4
<1>6. /\ Len(replaced) = n /\ Len(replaced') = n + 1 /\ replaced' \in Seq(Revision)
      /\ replaced'[n + 1] = inForce /\ \A i \in 1..n : replaced'[i] = replaced[i]
  <2>1. Len(replaced) = n
    BY <1>1 DEF DInv, InForce
  <2> QED
    BY <1>1, <1>4, <2>1
<1>7. TypeOK'
  <2>1. inForce' \in Revision
    BY <1>1, <1>3, <1>4 DEF Revision, Candidate
  <2> QED
    BY <1>1, <1>4, <1>5, <1>6, <2>1 DEF TypeOK, CanaryTypeOK
<1>8. \A i \in 1..n : chain[i].high < cand
  <2>1. CASE n = 0
    BY <2>1
  <2>2. CASE n # 0
    <3>1. cand > chain[n].high
      BY <1>1, <2>2, ChainTypes DEF AdvancePolicyDeployment, Advances
    <3>2. \A i \in 1..n : chain[i].high \in Nat /\ (i < n => chain[i].high < chain[n].high)
      BY <1>1, <2>2, ChainTypes DEF DInv, ChainInv, ConsideredOnce
    <3> QED
      BY <1>1, <2>2, <3>1, <3>2 DEF Candidate
  <2> QED
    BY <2>1, <2>2
<1>9. ChainInv'
  <2>1. ASSUME NEW i \in 1..n + 1
        PROVE  chain'[i].high >= i + 1 /\ chain'[i].rollback = Previous(i)'
    <3>1. CASE i \in 1..n
      BY <1>1, <1>5, <3>1 DEF DInv, ChainInv, Previous
    <3>2. CASE i = n + 1
      <4>1. cand >= n + 2
        <5>1. CASE n = 0
          BY <5>1 DEF Candidate
        <5>2. CASE n # 0
          BY <1>1, <1>8, <5>2, ChainTypes DEF DInv, ChainInv, Candidate
        <5> QED
          BY <5>1, <5>2
      <4>2. Previous(n + 1)' = Previous(n + 1)
        BY <1>1, <1>5 DEF Previous
      <4> QED
        BY <1>2, <1>3, <1>5, <3>2, <4>1, <4>2
    <3> QED
      BY <1>1, <3>1, <3>2
  <2>2. \A i, j \in 1..n + 1 : i < j => chain'[i].high < chain'[j].high
    <3> SUFFICES ASSUME NEW i \in 1..n + 1, NEW j \in 1..n + 1, i < j
                 PROVE  chain'[i].high < chain'[j].high
      OBVIOUS
    <3>1. CASE j \in 1..n
      <4>1. i \in 1..n /\ chain[i].high < chain[j].high
        BY <1>1, <3>1 DEF DInv, ChainInv, ConsideredOnce
      <4> QED
        BY <1>5, <3>1, <4>1
    <3>2. CASE j = n + 1
      <4>1. i \in 1..n
        BY <1>1, <3>2
      <4> QED
        BY <1>3, <1>5, <1>8, <3>2, <4>1
    <3> QED
      BY <1>1, <3>1, <3>2
  <2>3. ASSUME NEW i \in 1..n + 1
        PROVE  \E j \in 1..i : chain'[j].high = chain'[i].active /\ chain'[j].status = "promotion_applied"
    <3>1. CASE i \in 1..n
      <4>1. PICK j \in 1..i : chain[j].high = chain[i].active /\ chain[j].status = "promotion_applied"
        BY <1>1, <3>1 DEF DInv, ChainInv, ConsideredOnce
      <4> QED
        BY <1>1, <1>5, <3>1, <4>1
    <3>2. CASE i = n + 1 /\ d = "promote"
      <4>1. n + 1 \in 1..i
        BY <1>1, <3>2
      <4>2. chain'[n + 1].high = chain'[i].active /\ chain'[n + 1].status = "promotion_applied"
        BY <1>3, <1>5, <3>2
      <4> QED
        BY <4>1, <4>2
    <3>3. CASE i = n + 1 /\ d = "rollback"
      <4>1. n # 0 /\ state.active = chain[n].active
        BY <1>1, <1>3, <3>3, ChainTypes DEF AdvancePolicyDeployment, HasActive
      <4>2. PICK j \in 1..n : chain[j].high = chain[n].active /\ chain[j].status = "promotion_applied"
        <5>1. ConsideredOnce /\ n \in 1..Len(chain)
          BY <1>1, <4>1 DEF DInv, ChainInv
        <5> QED
          BY <5>1 DEF ConsideredOnce
      <4>3. j \in 1..i /\ chain'[j] = chain[j]
        BY <1>1, <1>5, <3>3, <4>2
      <4>4. chain'[i].active = chain[n].active
        BY <1>5, <3>3, <4>1
      <4> QED
        BY <4>2, <4>3, <4>4
    <3> QED
      BY <1>1, <3>1, <3>2, <3>3
  <2> QED
    BY <1>1, <1>5, <2>1, <2>2, <2>3 DEF ChainInv, ConsideredOnce
<1>10. Evidence'
  <2>1. Verified'
    BY <1>1, <1>4, <1>5 DEF DInv, Evidence, Verified
  <2>2. \A v \in verifications : v.dep \in 1..n /\ chain'[v.dep] = chain[v.dep]
    BY <1>1, <1>5 DEF DInv, Evidence, Verified
  <2>3. RolledBack'
    BY <1>4, <2>2 DEF DInv, Evidence, RolledBack, Restored
  <2>4. Recovered'
    <3>1. \A r \in recoveries : r.rollback.ver \in verifications /\ r.base \in verifications
      BY DEF DInv, Evidence, Recovered, RolledBack
    <3> QED
      BY <1>4, <2>2, <3>1 DEF DInv, Evidence, Recovered, Restored
  <2>5. Closed' /\ Logged'
    BY <1>4 DEF DInv, Evidence, Closed, Logged
  <2> QED
    BY <2>1, <2>3, <2>4, <2>5 DEF Evidence
<1>11. InForce'
  <2>1. rollbacks = {} => inForce' = Previous(n + 2)'
    <3>1. rollbacks = {} => inForce = previous
      BY <1>1, <1>2 DEF DInv, InForce
    <3>2. Previous(n + 2)' = state.active
      BY <1>1, <1>5 DEF Previous
    <3> QED
      BY <1>3, <1>4, <3>1, <3>2
  <2>2. ASSUME NEW i \in 1..n + 1, \A o \in rollbacks : o.ver.dep >= i
        PROVE  replaced'[i] = chain'[i].rollback
    <3>1. CASE i \in 1..n
      BY <1>1, <1>5, <1>6, <2>2, <3>1 DEF DInv, InForce
    <3>2. CASE i = n + 1
      <4>1. rollbacks = {}
        <5> SUFFICES ASSUME NEW o \in rollbacks PROVE FALSE
          OBVIOUS
        <5>1. o.ver.dep \in 1..n
          BY <1>1 DEF DInv, Evidence, Verified, RolledBack
        <5> QED
          BY <1>1, <2>2, <3>2, <5>1
      <4> QED
        BY <1>1, <1>2, <1>3, <1>5, <1>6, <3>2, <4>1 DEF DInv, InForce
    <3> QED
      BY <1>1, <3>1, <3>2
  <2> QED
    <3>1. (n + 1) + 1 = n + 2
      BY <1>1
    <3>2. rollbacks' = rollbacks /\ Len(chain') = n + 1 /\ Len(replaced') = n + 1
      BY <1>4, <1>5, <1>6
    <3> QED
      BY <2>1, <2>2, <3>1, <3>2 DEF InForce
<1> QED
  BY <1>7, <1>9, <1>10, <1>11 DEF DInv
-----------------------------------------------------------------------------
(* Each document checks the one it refers to.                              *)
LEMMA VerifyDInv ==
  ASSUME DInv, NEW i \in 1..Len(chain), NEW ok \in BOOLEAN, VerifyPolicyDeployment(i, ok)
  PROVE  DInv'
<1> DEFINE report == [dep |-> i, ok |-> ok, at |-> now]
<1>1. /\ TypeOK /\ now \in Time /\ chain[i].status = "promotion_applied"
      /\ verifications' = verifications \cup {report}
      /\ UNCHANGED <<now, canaries, monitors, chain, rollbacks, recoveries, closures, incidents,
                     inForce, replaced>>
  BY DEF DInv, TypeOK, CanaryTypeOK, VerifyPolicyDeployment, canaryVars
<1>2. report \in Verification
  <2>1. i \in 1..MaxRevision
    BY <1>1, ChainTypes DEF DInv, ChainInv, Candidate
  <2> QED
    BY <1>1, <2>1 DEF Verification
<1>3. TypeOK'
  BY <1>1, <1>2 DEF TypeOK, CanaryTypeOK
<1>4. ChainInv' /\ InForce'
  BY <1>1, ChainKept DEF DInv, InForce, Previous
<1>5. Verified'
  BY <1>1, ChainTypes DEF DInv, Evidence, Verified
<1>6. RolledBack' /\ Recovered' /\ Closed' /\ Logged'
  BY <1>1 DEF DInv, Evidence, RolledBack, Recovered, Closed, Logged, Restored
<1> QED
  BY <1>3, <1>4, <1>5, <1>6 DEF DInv, Evidence

(* A production rollback names the evidence it restores.                   *)
LEMMA RollbackDInv ==
  ASSUME DInv, NEW v \in verifications, NEW A \in Quorum, ApplyRollback(v, A)
  PROVE  DInv'
<1> DEFINE state == [ver |-> v, signers |-> A, at |-> now]
<1>1. /\ TypeOK /\ now \in Time /\ ~v.ok /\ v.at <= now
      /\ Restored(state) < chain[v.dep].active
      /\ rollbacks' = rollbacks \cup {state} /\ inForce' = Restored(state)
      /\ UNCHANGED <<now, canaries, monitors, chain, verifications, recoveries, closures, incidents,
                     replaced>>
  BY DEF DInv, TypeOK, CanaryTypeOK, ApplyRollback, canaryVars, Within
<1>2. state \in Rollback
  BY <1>1 DEF Rollback, TypeOK
<1>3. TypeOK'
  <2>1. chain[v.dep] \in State
    BY <1>1, ChainTypes DEF DInv, Evidence, Verified
  <2>2. Restored(state) \in Revision
    BY <2>1 DEF Restored, State
  <2> QED
    BY <1>1, <1>2, <2>2 DEF TypeOK, CanaryTypeOK
<1>4. ChainInv'
  BY <1>1, ChainKept DEF DInv
<1>5. RolledBack'
  BY <1>1, ChainTypes DEF DInv, Evidence, RolledBack, Restored
<1>6. Verified' /\ Recovered' /\ Closed' /\ Logged'
  BY <1>1 DEF DInv, Evidence, Verified, Recovered, Closed, Logged, Restored
<1>7. InForce'
  BY <1>1 DEF DInv, InForce
<1> QED
  BY <1>3, <1>4, <1>5, <1>6, <1>7 DEF DInv, Evidence

(* A recovery verifies what a rollback restored.                           *)
LEMMA RecoveryDInv ==
  ASSUME DInv, NEW b \in rollbacks, NEW v \in verifications, NEW ok \in BOOLEAN,
         VerifyRecovery(b, v, ok)
  PROVE  DInv'
<1> DEFINE report == [rollback |-> b, base |-> v, ok |-> ok, at |-> now]
<1>1. /\ TypeOK /\ now \in Time /\ v.ok /\ chain[v.dep].active = Restored(b) /\ b.at <= now
      /\ v.dep = b.ver.dep - 1
      /\ recoveries' = recoveries \cup {report}
      /\ UNCHANGED <<now, canaries, monitors, chain, verifications, rollbacks, closures, incidents,
                     inForce, replaced>>
  BY DEF DInv, TypeOK, CanaryTypeOK, VerifyRecovery, canaryVars, Baseline
<1>2. report \in Recovery
  BY <1>1 DEF Recovery, TypeOK
<1>3. TypeOK'
  BY <1>1, <1>2 DEF TypeOK, CanaryTypeOK
<1>4. ChainInv' /\ InForce'
  BY <1>1, ChainKept DEF DInv, InForce, Previous
<1>5. Recovered'
  BY <1>1, ChainTypes DEF DInv, Evidence, Recovered, Restored
<1>6. Verified' /\ RolledBack' /\ Closed' /\ Logged'
  BY <1>1 DEF DInv, Evidence, Verified, RolledBack, Closed, Logged, Restored
<1> QED
  BY <1>3, <1>4, <1>5, <1>6 DEF DInv, Evidence

(* A closure is signed by a third human.                                   *)
LEMMA ClosureDInv ==
  ASSUME DInv, NEW r \in recoveries, NEW operator \in Signer, CloseIncident(r, operator)
  PROVE  DInv'
<1> DEFINE state == [recovery |-> r, operator |-> operator, at |-> now]
<1>1. /\ TypeOK /\ now \in Time /\ r.at <= now /\ operator \notin r.rollback.signers
      /\ closures' = closures \cup {state}
      /\ UNCHANGED <<now, canaries, monitors, chain, verifications, rollbacks, recoveries, incidents,
                     inForce, replaced>>
  BY DEF DInv, TypeOK, CanaryTypeOK, CloseIncident, canaryVars, Within
<1>2. state \in Closure
  BY <1>1 DEF Closure, TypeOK
<1>3. TypeOK'
  BY <1>1, <1>2 DEF TypeOK, CanaryTypeOK
<1>4. ChainInv' /\ InForce'
  BY <1>1, ChainKept DEF DInv, InForce, Previous
<1>5. Closed'
  BY <1>1 DEF DInv, Evidence, Closed
<1>6. Verified' /\ RolledBack' /\ Recovered' /\ Logged'
  BY <1>1 DEF DInv, Evidence, Verified, RolledBack, Recovered, Logged, Restored
<1> QED
  BY <1>3, <1>4, <1>5, <1>6 DEF DInv, Evidence

(* The ledger retains a closure.                                           *)
LEMMA IncidentDInv == ASSUME DInv, NEW c \in closures, AppendIncident(c) PROVE DInv'
<1>1. /\ TypeOK /\ incidents \in Seq(Closure) /\ c \in Closure
      /\ incidents' = Append(incidents, c)
      /\ UNCHANGED <<now, canaries, monitors, chain, verifications, rollbacks, recoveries, closures,
                     inForce, replaced>>
  BY DEF DInv, TypeOK, AppendIncident, canaryVars
<1>2. TypeOK'
  BY <1>1 DEF TypeOK, CanaryTypeOK
<1>3. ChainInv' /\ InForce'
  BY <1>1, ChainKept DEF DInv, InForce, Previous
<1>4. Logged'
  BY <1>1 DEF DInv, Evidence, Logged
<1>5. Verified' /\ RolledBack' /\ Recovered' /\ Closed'
  BY <1>1 DEF DInv, Evidence, Verified, RolledBack, Recovered, Closed, Restored
<1> QED
  BY <1>2, <1>3, <1>4, <1>5 DEF DInv, Evidence

(* DInv is inductive.                                                      *)
LEMMA DInvNext == DInv /\ [Next]_vars => DInv'
<1> SUFFICES ASSUME DInv, [Next]_vars PROVE DInv'
  OBVIOUS
<1>1. CASE CanaryStep /\ UNCHANGED fleetVars
  BY <1>1, CanaryDInv
<1>2. CASE UNCHANGED vars
  <2>1. ChainInv'
    BY <1>2, ChainKept DEF DInv, vars, fleetVars
  <2>2. TypeOK' /\ Evidence' /\ InForce'
    BY <1>2 DEF DInv, TypeOK, CanaryTypeOK, Evidence, Verified, RolledBack, Recovered, Closed, Logged,
                Restored, InForce, Previous, vars, fleetVars
  <2> QED
    BY <2>1, <2>2 DEF DInv
<1> QED
  BY <1>1, <1>2, AdvanceDInv, VerifyDInv, RollbackDInv, RecoveryDInv, ClosureDInv, IncidentDInv DEF Next
-----------------------------------------------------------------------------
(* All states of the chain, the documents and the fleet satisfy DInv.      *)
THEOREM DInvariance == Spec => []DInv
BY DInvInit, DInvNext, PTL DEF Spec

(* The documents have their types, and the chain is no longer than there   *)
(* are revisions.                                                          *)
THEOREM TypeCorrect == Spec => []TypeOK
<1>1. DInv => TypeOK
  BY DEF DInv
<1> QED
  BY <1>1, DInvariance, PTL

(* advance_policy_deployment considers a revision once and only makes      *)
(* active what it had promoted.                                            *)
THEOREM RevisionsConsideredOnce == Spec => []ConsideredOnce
<1>1. DInv => ConsideredOnce
  BY DEF DInv, ChainInv
<1> QED
  BY <1>1, DInvariance, PTL

(* A retained incident is a closed rollback with all its evidence, in      *)
(* order, and three different humans: append_policy_incident relies on     *)
(* the checks of every document before it.                                 *)
THEOREM IncidentsAreWhole == Spec => []IncidentIsWhole
<1>1. DInv => IncidentIsWhole
  <2> SUFFICES ASSUME DInv, NEW n \in 1..Len(incidents)
               PROVE  LET c == incidents[n]
                          r == c.recovery
                          b == r.rollback
                      IN  /\ b.ver \in verifications /\ ~b.ver.ok
                          /\ chain[b.ver.dep].status = "promotion_applied"
                          /\ r.base \in verifications /\ r.base.ok /\ r.base.dep = b.ver.dep - 1
                          /\ chain[r.base.dep].active = Restored(b)
                          /\ Restored(b) < chain[b.ver.dep].active
                          /\ Cardinality(b.signers \cup {c.operator}) >= 3
                          /\ b.ver.at <= b.at /\ b.at <= r.at /\ r.at <= c.at
    BY DEF IncidentIsWhole
  <2> DEFINE c == incidents[n]
             r == c.recovery
             b == r.rollback
  <2>1. c \in closures /\ r \in recoveries /\ b \in rollbacks /\ b.ver \in verifications
    BY DEF DInv, Evidence, Logged, Closed, Recovered, RolledBack
  <2>2. Cardinality(b.signers \cup {c.operator}) >= 3
    <3>1. b.signers \in Quorum /\ c.operator \notin b.signers
      BY <2>1 DEF DInv, TypeOK, Rollback, Evidence, Closed
    <3>2. IsFiniteSet(b.signers) /\ Cardinality(b.signers) \in Nat /\ Cardinality(b.signers) >= 2
      BY <3>1, FS_Subset, FS_CardinalityType DEF Quorum
    <3>3. Cardinality(b.signers \cup {c.operator}) = Cardinality(b.signers) + 1
      BY <3>1, <3>2, FS_AddElement
    <3> QED
      BY <3>2, <3>3
  <2> QED
    BY <2>1, <2>2 DEF DInv, Evidence, Verified, RolledBack, Recovered, Closed
<1> QED
  BY <1>1, DInvariance, PTL

(* apply_policy_deployment_rollback restores what the fleet ran before the *)
(* failed promotion, unless something older was rolled back before.        *)
THEOREM RollbackRestoresReplaced == Spec => []RestoresReplaced
<1>1. DInv => RestoresReplaced
  BY DEF DInv, InForce, Evidence, Verified, RolledBack, RestoresReplaced, Restored
<1> QED
  BY <1>1, DInvariance, PTL

-----------------------------------------------------------------------------
(* Suspension, remediation and the lifecycle ledger *)

(* What apply_policy_remediation checked of a remediation.                 *)
Binding ==
  \A r \in remediations :
    RemediationBinding(r.suspension, r.cand, r.monitor) /\ Independent(r.suspension, r.signers)

(* An advance saw a prefix of the ledger.                                  *)
SeenPrefix == \A i \in 1..Len(considered) : considered[i].seen \in 0..Len(events)

CInv == LifecycleTypeOK /\ Binding /\ SeenPrefix /\ PromotionIsCleared

(* The clearance of an advance of cand over the suspension s, among R.     *)
Clearance(R, cand, s) ==
  /\ cand # s.failed
  /\ cand > s.failed =>
       \E r \in R :
         /\ r.suspension = s /\ r.cand = cand
         /\ r.monitor.clean /\ Carries(r.cand, r.monitor)
         /\ r.monitor.canary.scope = Project
         /\ Cardinality(r.signers) >= 2 /\ r.signers \cap s.signers = {}

-----------------------------------------------------------------------------
(* Everything holds before the first event.                                *)
LEMMA CInvInit == LifecycleInit => CInv
<1> SUFFICES ASSUME LifecycleInit PROVE CInv
  OBVIOUS
<1>1. LifecycleTypeOK
  BY DEF LifecycleInit, CanaryInit, LifecycleTypeOK, CanaryTypeOK, Time
<1> QED
  BY <1>1 DEF LifecycleInit, CInv, Binding, SeenPrefix, PromotionIsCleared

(* A document is not both a suspension and a remediation.                  *)
LEMMA KindsAreDisjoint == ASSUME NEW e \in Suspension, e \in Remediation PROVE FALSE
<1>1. DOMAIN e = {"failed", "ledger", "signers", "at", "decision"}
  BY DEF Suspension
<1>2. DOMAIN e = {"suspension", "cand", "monitor", "signers", "at"}
  BY DEF Remediation
<1> QED
  BY <1>1, <1>2

(* A remediation in hand is a clearance.                                   *)
LEMMA RemediationClears ==
  ASSUME CInv, NEW r \in remediations
  PROVE  /\ r.monitor.clean /\ Carries(r.cand, r.monitor)
         /\ r.monitor.canary.scope = Project
         /\ Cardinality(r.signers) >= 2 /\ r.signers \cap r.suspension.signers = {}
<1>1. r.signers \in Quorum
  BY DEF CInv, LifecycleTypeOK, Remediation
<1>2. Cardinality(r.signers) >= 2
  BY <1>1 DEF Quorum
<1>3. RemediationBinding(r.suspension, r.cand, r.monitor) /\ r.signers \cap r.suspension.signers = {}
  BY DEF CInv, Binding, Independent
<1> QED
  BY <1>2, <1>3 DEF RemediationBinding

(* The property in terms of clearances, now and after a step.              *)
LEMMA ClearedMeans ==
  /\ PromotionIsCleared <=>
       \A i \in 1..Len(considered) : \A k \in 1..considered[i].seen :
         (IsSuspension(events[k]) /\ events[k].decision = "suspend") =>
           Clearance(remediations, considered[i].cand, events[k])
  /\ PromotionIsCleared' <=>
       \A i \in 1..Len(considered') : \A k \in 1..considered'[i].seen :
         (IsSuspension(events'[k]) /\ events'[k].decision = "suspend") =>
           Clearance(remediations', considered'[i].cand, events'[k])
<1>1. PromotionIsCleared <=>
       \A i \in 1..Len(considered) : \A k \in 1..considered[i].seen :
         (IsSuspension(events[k]) /\ events[k].decision = "suspend") =>
           Clearance(remediations, considered[i].cand, events[k])
  BY Zenon DEF PromotionIsCleared, IsSuspension, Clearance, Carries
<1>2. PromotionIsCleared' <=>
       \A i \in 1..Len(considered') : \A k \in 1..considered'[i].seen :
         (IsSuspension(events'[k]) /\ events'[k].decision = "suspend") =>
           Clearance(remediations', considered'[i].cand, events'[k])
  BY Zenon DEF PromotionIsCleared, IsSuspension, Clearance, Carries
<1> QED
  BY <1>1, <1>2

(* Clearances survive when documents are added and the ledger grows.       *)
LEMMA ClearedKept ==
  ASSUME CInv, UNCHANGED considered, remediations \subseteq remediations',
         Len(events) <= Len(events'), Len(events') \in Nat,
         \A k \in 1..Len(events) : events'[k] = events[k]
  PROVE  SeenPrefix' /\ PromotionIsCleared'
<1>1. Len(events) \in Nat
  BY DEF CInv, LifecycleTypeOK
<1>2. SeenPrefix'
  BY <1>1 DEF CInv, SeenPrefix
<1>3. ASSUME NEW i \in 1..Len(considered), NEW k \in 1..considered[i].seen,
             IsSuspension(events'[k]), events'[k].decision = "suspend"
      PROVE  events'[k] = events[k] /\ Clearance(remediations', considered[i].cand, events[k])
  <2>1. k \in 1..Len(events)
    BY <1>1 DEF CInv, SeenPrefix
  <2>2. events'[k] = events[k] /\ IsSuspension(events[k])
    BY <1>3, <2>1
  <2>3. Clearance(remediations, considered[i].cand, events[k])
    BY <1>3, <2>2, ClearedMeans DEF CInv
  <2> QED
    BY <2>2, <2>3 DEF Clearance
<1> QED
  BY <1>2, <1>3, ClearedMeans

(* The types, step by step.                                                *)
LEMMA EventsType ==
  ASSUME LifecycleTypeOK, UNCHANGED events, suspensions \subseteq suspensions', remediations \subseteq remediations'
  PROVE  events' \in Seq(suspensions' \cup remediations')
BY SeqMonotonic DEF LifecycleTypeOK

(* Steps of the canary do not touch the ledger.                            *)
LEMMA CanaryCInv == CInv /\ CanaryStep /\ UNCHANGED lifecycleVars => CInv'
<1> SUFFICES ASSUME CInv, CanaryStep, UNCHANGED lifecycleVars PROVE CInv'
  OBVIOUS
<1>1. LifecycleTypeOK'
  BY CanaryTypes DEF CInv, LifecycleTypeOK, lifecycleVars
<1>2. Binding'
  BY DEF CInv, Binding, lifecycleVars
<1>3. SeenPrefix' /\ PromotionIsCleared'
  BY DEF CInv, SeenPrefix, PromotionIsCleared, IsSuspension, lifecycleVars
<1> QED
  BY <1>1, <1>2, <1>3 DEF CInv

(* An incident of an advanced candidate is retained.                       *)
LEMMA RetainCInv ==
  ASSUME CInv, NEW i \in 1..Len(considered), RetainIncident(i)
  PROVE  CInv'
<1>1. considered[i].cand \in Candidate /\ now \in Time
  <2>1. considered \in Seq(Advance) /\ now \in Time
    BY DEF CInv, LifecycleTypeOK, CanaryTypeOK
  <2>2. considered[i] \in Advance
    BY <2>1
  <2> QED
    BY <2>1, <2>2 DEF Advance
<1>2. [failed |-> considered[i].cand, closed |-> now] \in Incident
  BY <1>1 DEF Incident
<1>3. LifecycleTypeOK'
  BY <1>2 DEF CInv, LifecycleTypeOK, CanaryTypeOK, RetainIncident, canaryVars
<1>4. Binding' /\ SeenPrefix' /\ PromotionIsCleared'
  BY DEF CInv, Binding, SeenPrefix, PromotionIsCleared, IsSuspension, RetainIncident
<1> QED
  BY <1>3, <1>4 DEF CInv

(* A suspension is signed by two humans.                                   *)
LEMMA SuspensionCInv ==
  ASSUME CInv, NEW revision \in Candidate, NEW d \in {"suspend", "continue"}, NEW A \in Quorum,
         ApplySuspension(revision, d, A)
  PROVE  CInv'
<1> DEFINE state == [failed |-> revision, ledger |-> Len(retained), signers |-> A, at |-> now,
                     decision |-> d]
<1>1. /\ LifecycleTypeOK /\ suspensions' = suspensions \cup {state}
      /\ UNCHANGED <<now, canaries, monitors, considered, retained, remediations, events>>
  BY DEF CInv, ApplySuspension, canaryVars
<1>2. state \in Suspension
  <2>1. Len(retained) \in Nat /\ now \in Time
    BY <1>1 DEF LifecycleTypeOK, CanaryTypeOK
  <2> QED
    BY <2>1 DEF Suspension
<1> HIDE DEF state
<1>3. LifecycleTypeOK'
  BY <1>1, <1>2, EventsType DEF LifecycleTypeOK, CanaryTypeOK
<1>4. Binding'
  BY <1>1 DEF CInv, Binding
<1>5. SeenPrefix' /\ PromotionIsCleared'
  <2>1. Len(events) \in Nat
    BY <1>1 DEF LifecycleTypeOK
  <2> QED
    BY <1>1, <2>1, ClearedKept
<1> QED
  BY <1>3, <1>4, <1>5 DEF CInv

(* A remediation is signed by two others, for one candidate.               *)
LEMMA RemediationCInv ==
  ASSUME CInv, NEW s \in suspensions, NEW cand \in Candidate, NEW m \in monitors, NEW A \in Quorum,
         ApplyRemediation(s, cand, m, A)
  PROVE  CInv'
<1> DEFINE state == [suspension |-> s, cand |-> cand, monitor |-> m, signers |-> A, at |-> now]
<1>1. /\ LifecycleTypeOK /\ remediations' = remediations \cup {state}
      /\ RemediationBinding(s, cand, m) /\ Independent(s, A)
      /\ UNCHANGED <<now, canaries, monitors, considered, retained, suspensions, events>>
  BY DEF CInv, ApplyRemediation, canaryVars
<1>2. state \in Remediation
  BY <1>1 DEF Remediation, LifecycleTypeOK, CanaryTypeOK
<1>3. LifecycleTypeOK'
  BY <1>1, <1>2, EventsType DEF LifecycleTypeOK, CanaryTypeOK
<1>4. Binding'
  <2>1. RemediationBinding(state.suspension, state.cand, state.monitor)
        /\ Independent(state.suspension, state.signers)
    BY <1>1
  <2>2. ASSUME NEW r \in remediations'
        PROVE  RemediationBinding(r.suspension, r.cand, r.monitor) /\ Independent(r.suspension, r.signers)
    BY <1>1, <2>1 DEF CInv, Binding
  <2> QED
    BY <2>2 DEF Binding, RemediationBinding, Carries, Independent
<1>5. SeenPrefix' /\ PromotionIsCleared'
  <2>1. Len(events) \in Nat
    BY <1>1 DEF LifecycleTypeOK
  <2> QED
    BY <1>1, <2>1, ClearedKept
<1> QED
  BY <1>3, <1>4, <1>5 DEF CInv

(* An event is appended to the ledger.                                     *)
LEMMA EventCInv ==
  ASSUME CInv, NEW e \in suspensions \cup remediations, AppendEvent(e)
  PROVE  CInv'
<1>1. /\ LifecycleTypeOK /\ events \in Seq(suspensions \cup remediations) /\ events' = Append(events, e)
      /\ UNCHANGED <<now, canaries, monitors, considered, retained, suspensions, remediations>>
  BY DEF CInv, LifecycleTypeOK, AppendEvent, canaryVars
<1>2. LifecycleTypeOK'
  BY <1>1 DEF LifecycleTypeOK, CanaryTypeOK
<1>3. Binding'
  BY <1>1 DEF CInv, Binding
<1>4. /\ Len(events) \in Nat /\ Len(events') = Len(events) + 1
      /\ \A k \in 1..Len(events) : events'[k] = events[k]
  BY <1>1
<1>5. SeenPrefix' /\ PromotionIsCleared'
  BY <1>1, <1>4, ClearedKept
<1> QED
  BY <1>2, <1>3, <1>5 DEF CInv

(* An advance is cleared of every suspension the ledger holds.             *)
LEMMA AdvanceCInv ==
  ASSUME CInv, NEW m \in monitors, NEW cand \in Candidate, NEW d \in {"promote", "rollback"},
         AdvanceEnforced(m, cand, d)
  PROVE  CInv'
<1> DEFINE new == [cand |-> cand, promoted |-> d = "promote", seen |-> Len(events)]
<1>1. /\ LifecycleTypeOK /\ considered \in Seq(Advance) /\ considered' = Append(considered, new)
      /\ Enforce(cand, remediations)
      /\ UNCHANGED <<now, canaries, monitors, retained, suspensions, remediations, events>>
  BY DEF CInv, LifecycleTypeOK, AdvanceEnforced, canaryVars
<1>2. Len(events) \in Nat /\ events \in Seq(suspensions \cup remediations)
  BY <1>1 DEF LifecycleTypeOK
<1>3. new \in Advance
  BY <1>2 DEF Advance
<1>4. /\ Len(considered') = Len(considered) + 1 /\ Len(considered) \in Nat
      /\ considered'[Len(considered) + 1] = new
      /\ \A i \in 1..Len(considered) : considered'[i] = considered[i]
  BY <1>1, <1>3
<1>5. LifecycleTypeOK'
  BY <1>1, <1>3 DEF LifecycleTypeOK, CanaryTypeOK
<1>6. Binding'
  BY <1>1 DEF CInv, Binding
<1>7. SeenPrefix'
  BY <1>1, <1>2, <1>4 DEF CInv, SeenPrefix
<1>8. ASSUME NEW i \in 1..Len(considered'), NEW k \in 1..considered'[i].seen,
             IsSuspension(events[k]), events[k].decision = "suspend"
      PROVE  Clearance(remediations, considered'[i].cand, events[k])
  <2>1. CASE i \in 1..Len(considered)
    BY <1>4, <1>8, <2>1, ClearedMeans DEF CInv
  <2>2. CASE i = Len(considered) + 1
    <3>1. considered'[i].cand = cand /\ k \in 1..Len(events)
      BY <1>4, <2>2
    <3>2. events[k] \in suspensions \cap ToSet(events)
      <4>1. events[k] \in suspensions \cup remediations /\ events[k] \in ToSet(events)
        BY <1>2, <3>1 DEF ToSet
      <4> QED
        BY <1>1, <1>8, <4>1, KindsAreDisjoint DEF LifecycleTypeOK, IsSuspension
    <3>3. /\ events[k].failed # cand
          /\ cand > events[k].failed => \E r \in remediations : r.suspension = events[k] /\ r.cand = cand
      BY <1>1, <1>8, <3>2 DEF Enforce
    <3> QED
      BY <3>1, <3>3, RemediationClears DEF Clearance
  <2> QED
    BY <1>4, <2>1, <2>2
<1>9. PromotionIsCleared'
  BY <1>1, <1>8, ClearedMeans
<1> QED
  BY <1>5, <1>6, <1>7, <1>9 DEF CInv

(* CInv is inductive.                                                      *)
LEMMA CInvNext == CInv /\ [LifecycleNext]_policyVars => CInv'
<1> SUFFICES ASSUME CInv, [LifecycleNext]_policyVars PROVE CInv'
  OBVIOUS
<1>1. CASE CanaryStep /\ UNCHANGED lifecycleVars
  BY <1>1, CanaryCInv
<1>2. CASE UNCHANGED policyVars
  <2>1. LifecycleTypeOK'
    BY <1>2 DEF CInv, LifecycleTypeOK, CanaryTypeOK, policyVars, canaryVars, lifecycleVars
  <2>2. UNCHANGED <<now, canaries, monitors, considered, retained, suspensions, remediations, events>>
    BY <1>2 DEF policyVars, lifecycleVars
  <2>3. Binding' /\ SeenPrefix'
    BY <2>2 DEF CInv, Binding, SeenPrefix
  <2>4. PromotionIsCleared'
    BY <2>2 DEF CInv, PromotionIsCleared, IsSuspension
  <2> QED
    BY <2>1, <2>3, <2>4 DEF CInv
<1> QED
  BY <1>1, <1>2, RetainCInv, SuspensionCInv, RemediationCInv, EventCInv, AdvanceCInv DEF LifecycleNext
-----------------------------------------------------------------------------
(* All states of the ledgers and documents satisfy CInv.                   *)
THEOREM CInvariance == LifecycleSpec => []CInv
BY CInvInit, CInvNext, PTL DEF LifecycleSpec

(* The documents and both ledgers have their types.                        *)
THEOREM LifecycleTypeCorrect == LifecycleSpec => []LifecycleTypeOK
<1>1. CInv => LifecycleTypeOK
  BY DEF CInv
<1> QED
  BY <1>1, CInvariance, PTL

(* AdvanceEnforced lets no revision past a suspension that the ledger      *)
(* held, unless it was remediated for exactly this revision, with clean    *)
(* monitoring of its profile on the whole fleet and by two humans who had  *)
(* not signed the suspension.                                              *)
THEOREM PromotionsAreCleared == LifecycleSpec => []PromotionIsCleared
<1>1. CInv => PromotionIsCleared
  BY DEF CInv
<1> QED
  BY <1>1, CInvariance, PTL

-----------------------------------------------------------------------------
(* The records that the lifecycle ledger derives *)

(* f[n] is what derive_records has after the first n entries.              *)
IsDerivation(f, es, N) ==
  f = [n \in 0..N |-> IF n = 0 THEN <<>> ELSE Derived(f[n - 1], es[n])]

(* A set of numbers that is not empty has a least one.                     *)
LEMMA Least ==
  ASSUME NEW S \in SUBSET Nat, S # {}
  PROVE  \E n \in S : \A k \in S : n <= k
<1>1. PICK x \in S : \A y \in S : ~(<<y, x>> \in OpToRel(<, Nat))
  BY WFMin, NatLessThanWellFounded
<1>2. \A y \in S : ~(y < x)
  BY <1>1 DEF OpToRel
<1>3. \A y \in S : x <= y
  <2> TAKE y \in S
  <2>1. x \in Nat /\ y \in Nat /\ ~(y < x)
    BY <1>2
  <2> QED
    BY <2>1
<1> QED
  BY <1>3

(* The recursion of derive_records defines a function, for every ledger.   *)
LEMMA DerivationExists ==
  ASSUME NEW es, NEW N \in Nat
  PROVE  \E f : IsDerivation(f, es, N)
<1> DEFINE Bad == {n \in Nat : ~\E f : IsDerivation(f, es, n)}
<1>1. SUFFICES ASSUME Bad # {} PROVE FALSE
  OBVIOUS
<1>2. PICK n \in Bad : \A k \in Bad : n <= k
  <2> HIDE DEF Bad
  <2>1. Bad \in SUBSET Nat
    BY DEF Bad
  <2> QED
    BY <1>1, <2>1, Least
<1>3. n # 0
  <2> DEFINE f == [k \in 0..0 |-> <<>>]
  <2>1. IsDerivation(f, es, 0)
    BY DEF IsDerivation
  <2> QED
    BY <1>2, <2>1
<1>4. n - 1 \in Nat /\ n - 1 \notin Bad
  BY <1>2, <1>3
<1>5. PICK f : IsDerivation(f, es, n - 1)
  BY <1>4
<1> DEFINE g == [k \in 0..n |-> IF k = n THEN Derived(f[n - 1], es[n]) ELSE f[k]]
<1>6. ASSUME NEW k \in 0..n
      PROVE  g[k] = IF k = 0 THEN <<>> ELSE Derived(g[k - 1], es[k])
  <2>1. CASE k = n
    <3>1. g[k - 1] = f[n - 1] /\ k # 0
      BY <1>2, <1>3, <2>1
    <3> QED
      BY <2>1, <3>1
  <2>2. CASE k = 0
    BY <1>3, <1>4, <1>5, <2>2 DEF IsDerivation
  <2>3. CASE k # n /\ k # 0
    <3>1. k \in 0..n - 1 /\ k - 1 \in 0..n /\ k - 1 # n
      BY <1>2, <2>3
    <3>2. f[k] = Derived(f[k - 1], es[k])
      BY <1>5, <2>3, <3>1 DEF IsDerivation
    <3> QED
      BY <2>3, <3>1, <3>2
  <2> QED
    BY <2>1, <2>2, <2>3
<1>7. IsDerivation(g, es, n)
  <2>1. g = [k \in 0..n |-> g[k]]
    OBVIOUS
  <2>2. [k \in 0..n |-> g[k]] = [k \in 0..n |-> IF k = 0 THEN <<>> ELSE Derived(g[k - 1], es[k])]
    <3> HIDE DEF g
    <3> QED
      BY <1>6
  <2> HIDE DEF g
  <2> QED
    BY <2>1, <2>2 DEF IsDerivation
<1> QED
  BY <1>2, <1>7

(* Derivations of two ledgers that agree up to N agree up to N.            *)
LEMMA DerivationsAgree ==
  ASSUME NEW N \in Nat, NEW f, NEW g, f[0] = g[0],
         \A n \in 1..N : f[n - 1] = g[n - 1] => f[n] = g[n]
  PROVE  f[N] = g[N]
<1> DEFINE Bad == {n \in 0..N : f[n] # g[n]}
<1>1. SUFFICES ASSUME Bad # {} PROVE FALSE
  OBVIOUS
<1>2. PICK n \in Bad : \A k \in Bad : n <= k
  <2> HIDE DEF Bad
  <2>1. Bad \in SUBSET Nat
    BY DEF Bad
  <2> QED
    BY <1>1, <2>1, Least
<1>3. n \in 1..N /\ n - 1 \in 0..N
  BY <1>2
<1>4. f[n - 1] = g[n - 1]
  BY <1>2, <1>3
<1> QED
  BY <1>2, <1>3, <1>4

(* derive_records as a derivation.                                         *)
LEMMA DeriveRecordsIs ==
  ASSUME NEW es, Len(es) \in Nat
  PROVE  \E f : IsDerivation(f, es, Len(es)) /\ DeriveRecords(es) = f[Len(es)]
<1> DEFINE h == CHOOSE f : IsDerivation(f, es, Len(es))
<1>1. IsDerivation(h, es, Len(es))
  BY DerivationExists
<1>2. DeriveRecords(es) = h[Len(es)]
  BY Zenon DEF DeriveRecords, IsDerivation
<1> QED
  BY <1>1, <1>2

(* One step of a derivation.                                               *)
LEMMA DerivationStep ==
  ASSUME NEW N \in Nat, NEW f, NEW es, IsDerivation(f, es, N)
  PROVE  /\ f[0] = <<>>
         /\ \A n \in 1..N : f[n] = Derived(f[n - 1], es[n])
BY DEF IsDerivation

(* The ledger without an entry derives nothing.                            *)
LEMMA DeriveNone == DeriveRecords(<<>>) = <<>>
<1>1. Len(<<>>) = 0
  OBVIOUS
<1>2. PICK f : IsDerivation(f, <<>>, 0) /\ DeriveRecords(<<>>) = f[0]
  BY <1>1, DeriveRecordsIs
<1> QED
  BY <1>2, DerivationStep

(* An entry appended is one more step of derive_records.                   *)
LEMMA DeriveAppend ==
  ASSUME NEW S, NEW es \in Seq(S), NEW e \in S
  PROVE  DeriveRecords(Append(es, e)) = Derived(DeriveRecords(es), e)
<1> DEFINE N == Len(es)  ext == Append(es, e)
<1>1. N \in Nat /\ Len(ext) = N + 1 /\ ext[N + 1] = e /\ \A n \in 1..N : ext[n] = es[n]
  OBVIOUS
<1>2. PICK f : IsDerivation(f, es, N) /\ DeriveRecords(es) = f[N]
  BY <1>1, DeriveRecordsIs
<1> HIDE DEF N, ext
<1>3. PICK g : IsDerivation(g, ext, N + 1) /\ DeriveRecords(ext) = g[N + 1]
  <2>1. Len(ext) \in Nat
    BY <1>1
  <2> QED
    BY <1>1, <2>1, DeriveRecordsIs
<1>4. g[0] = <<>> /\ \A n \in 1..N + 1 : g[n] = Derived(g[n - 1], ext[n])
  <2>1. N + 1 \in Nat /\ IsDerivation(g, ext, N + 1)
    BY <1>1, <1>3
  <2> QED
    BY <2>1, DerivationStep
<1>5. f[0] = <<>> /\ \A n \in 1..N : f[n] = Derived(f[n - 1], es[n])
  BY <1>1, <1>2, DerivationStep
<1>6. \A n \in 1..N : f[n - 1] = g[n - 1] => f[n] = g[n]
  <2> TAKE n \in 1..N
  <2>1. n \in 1..N + 1
    BY <1>1
  <2> QED
    BY <1>1, <1>4, <1>5, <2>1
<1>7. f[N] = g[N]
  BY <1>1, <1>4, <1>5, <1>6, DerivationsAgree
<1>8. g[N + 1] = Derived(g[N], ext[N + 1])
  <2>1. N + 1 \in 1..N + 1 /\ (N + 1) - 1 = N
    BY <1>1
  <2> QED
    BY <1>4, <2>1
<1> QED
  BY <1>1, <1>2, <1>3, <1>7, <1>8 DEF ext


(* No document is entered twice, and a remediation follows its suspension. *)
History(es) ==
  /\ \A i, j \in 1..Len(es) : es[i] = es[j] => i = j
  /\ \A i \in 1..Len(es) : ~IsSuspension(es[i]) =>
       \E k \in 1..i - 1 : es[k] = es[i].suspension

(* Entry i remediates the suspension s.                                    *)
Remediates(es, i, s) == ~IsSuspension(es[i]) /\ es[i].suspension = s

(* A later entry suspends the candidate of entry i, or a newer revision.   *)
Outdated(es, i) ==
  \E j \in i + 1..Len(es) :
    IsSuspension(es[j]) /\ es[j].decision = "suspend" /\ es[j].failed >= es[i].cand

(* The record of the suspension s: new, or released by one remediation.    *)
NewRecord(s) ==
  [status |-> IF s.decision = "suspend" THEN "awaiting_remediation" ELSE "continued_under_review",
   successor |-> NoSuccessor]
ReleasedRecord(es, i) ==
  [status |-> IF Outdated(es, i) THEN "superseded" ELSE "released", successor |-> es[i].cand]

RecordOf(es, record, s) ==
  /\ (\A i \in 1..Len(es) : ~Remediates(es, i, s)) => record = NewRecord(s)
  /\ \A i \in 1..Len(es) : Remediates(es, i, s) =>
       /\ s.decision = "suspend"
       /\ \A j \in 1..Len(es) : Remediates(es, j, s) => i = j
       /\ record = ReleasedRecord(es, i)

Records(es) ==
  /\ DOMAIN DeriveRecords(es) = {s \in ToSet(es) : IsSuspension(s)}
  /\ \A s \in DOMAIN DeriveRecords(es) : RecordOf(es, DeriveRecords(es)[s], s)

HInv == CInv /\ History(events) /\ Records(events)

(* The entries after an append.                                            *)
LEMMA Appended ==
  ASSUME NEW es \in Seq(Suspension \cup Remediation), NEW e \in Suspension \cup Remediation
  PROVE  /\ Append(es, e) \in Seq(Suspension \cup Remediation)
         /\ Len(es) \in Nat /\ Len(Append(es, e)) = Len(es) + 1
         /\ Append(es, e)[Len(es) + 1] = e
         /\ \A i \in 1..Len(es) : Append(es, e)[i] = es[i] /\ es[i] \in Suspension \cup Remediation
         /\ ToSet(Append(es, e)) = ToSet(es) \cup {e}
         /\ \A i \in 1..Len(es) : es[i] \in ToSet(es)
<1> DEFINE ext == Append(es, e)
<1>1. /\ ext \in Seq(Suspension \cup Remediation) /\ Len(es) \in Nat /\ Len(ext) = Len(es) + 1
      /\ ext[Len(es) + 1] = e
      /\ \A i \in 1..Len(es) : ext[i] = es[i] /\ es[i] \in Suspension \cup Remediation
  OBVIOUS
<1> HIDE DEF ext
<1>2. ToSet(ext) = {ext[i] : i \in 1..Len(ext)} /\ ToSet(es) = {es[i] : i \in 1..Len(es)}
  BY DEF ToSet
<1>3. ToSet(ext) = ToSet(es) \cup {e} /\ \A i \in 1..Len(es) : es[i] \in ToSet(es)
  <2>1. \A i \in 1..Len(ext) : i = Len(es) + 1 \/ i \in 1..Len(es)
    BY <1>1
  <2>2. Len(es) + 1 \in 1..Len(ext) /\ \A i \in 1..Len(es) : i \in 1..Len(ext)
    BY <1>1
  <2> QED
    BY <1>1, <1>2, <2>1, <2>2
<1> QED
  BY <1>1, <1>3 DEF ext

(* A document that is new to the ledger leaves its order intact.           *)
LEMMA HistoryAppend ==
  ASSUME NEW es \in Seq(Suspension \cup Remediation), NEW e \in Suspension \cup Remediation,
         e \notin ToSet(es), History(es), IsSuspension(e) \/ e.suspension \in ToSet(es)
  PROVE  History(Append(es, e))
<1> DEFINE ext == Append(es, e)  N == Len(es)
<1>1. /\ N \in Nat /\ Len(ext) = N + 1 /\ ext[N + 1] = e
      /\ \A i \in 1..N : ext[i] = es[i] /\ es[i] \in ToSet(es)
  BY Appended
<1>2. ToSet(es) = {es[i] : i \in 1..N}
  BY DEF ToSet
<1> HIDE DEF ext, N
<1>3. \A i \in 1..N + 1 : i = N + 1 \/ i \in 1..N
  BY <1>1
<1>4. \A i, j \in 1..N + 1 : ext[i] = ext[j] => i = j
  <2>1. \A i, j \in 1..N : es[i] = es[j] => i = j
    BY DEF History, N
  <2>2. \A i \in 1..N : ext[i] # e
    BY <1>1
  <2> QED
    BY <1>1, <1>3, <2>1, <2>2
<1>5. ASSUME NEW i \in 1..N + 1, ~IsSuspension(ext[i])
      PROVE  \E k \in 1..i - 1 : ext[k] = ext[i].suspension
  <2>1. CASE i \in 1..N
    <3>1. PICK k \in 1..i - 1 : es[k] = es[i].suspension
      BY <1>1, <1>5, <2>1 DEF History, N
    <3>2. k \in 1..N
      BY <1>1, <2>1
    <3> QED
      BY <1>1, <2>1, <3>1, <3>2
  <2>2. CASE i = N + 1
    <3>1. PICK k \in 1..N : es[k] = e.suspension
      BY <1>1, <1>2, <1>5, <2>2
    <3>2. k \in 1..i - 1
      BY <1>1, <2>2
    <3> QED
      BY <1>1, <2>2, <3>1, <3>2
  <2> QED
    BY <1>3, <2>1, <2>2
<1> QED
  BY <1>1, <1>4, <1>5 DEF History, ext

(* A suspension adds its record, and supersedes the releases up to its     *)
(* revision.                                                               *)
LEMMA SuspensionRecords ==
  ASSUME NEW es \in Seq(Suspension \cup Remediation), NEW e \in Suspension,
         e \notin ToSet(es), History(es), Records(es)
  PROVE  Records(Append(es, e))
<1> DEFINE ext == Append(es, e)  N == Len(es)  R == DeriveRecords(es)  D == DeriveRecords(ext)
<1>1. /\ N \in Nat /\ Len(ext) = N + 1 /\ ext[N + 1] = e
      /\ \A i \in 1..N : ext[i] = es[i] /\ es[i] \in ToSet(es) /\ es[i] \in Suspension \cup Remediation
      /\ ToSet(ext) = ToSet(es) \cup {e}
  BY Appended
<1>2. D = Suspended(R, e)
  <2>1. IsSuspension(e) /\ e \in Suspension \cup Remediation
    BY DEF IsSuspension
  <2>2. D = Derived(R, e)
    BY <2>1, DeriveAppend
  <2> QED
    BY <2>1, <2>2 DEF Derived
<1>3. /\ DOMAIN R = {s \in ToSet(es) : IsSuspension(s)}
      /\ \A s \in DOMAIN R : RecordOf(es, R[s], s)
  BY DEF Records
<1> HIDE DEF ext, N, R, D
<1>4. IsSuspension(e) /\ e \notin DOMAIN R /\ e.failed \in Nat
  BY <1>3 DEF IsSuspension, Suspension, Candidate
<1>5. /\ DOMAIN D = DOMAIN R \cup {e}
      /\ D[e] = NewRecord(e)
      /\ \A t \in DOMAIN R : D[t] = IF e.decision = "suspend" THEN Supersede(R, e.failed)[t] ELSE R[t]
  BY <1>2, <1>4 DEF Suspended, NewRecord
<1>6. DOMAIN D = {s \in ToSet(ext) : IsSuspension(s)}
  BY <1>1, <1>3, <1>4, <1>5
<1>7. \A i \in 1..N + 1 : i = N + 1 \/ i \in 1..N
  BY <1>1
<1>8. ~\E i \in 1..N + 1 : Remediates(ext, i, e)
  <2> SUFFICES ASSUME NEW i \in 1..N + 1, Remediates(ext, i, e) PROVE FALSE
    OBVIOUS
  <2>1. i \in 1..N /\ ~IsSuspension(es[i]) /\ es[i].suspension = e
    BY <1>1, <1>4, <1>7 DEF Remediates
  <2>2. PICK k \in 1..i - 1 : es[k] = e
    BY <2>1 DEF History, N
  <2>3. k \in 1..N
    BY <1>1, <2>1
  <2> QED
    BY <1>1, <2>2, <2>3
<1>9. RecordOf(ext, D[e], e)
  BY <1>1, <1>5, <1>8 DEF RecordOf
<1>10. ASSUME NEW s \in DOMAIN R
       PROVE  RecordOf(ext, D[s], s)
  <2>1. \A i \in 1..N + 1 : Remediates(ext, i, s) <=> i \in 1..N /\ Remediates(es, i, s)
    BY <1>1, <1>4, <1>7 DEF Remediates
  <2>2. RecordOf(es, R[s], s)
    BY <1>3
  <2>3. CASE \A i \in 1..N : ~Remediates(es, i, s)
    <3>1. R[s] = NewRecord(s) /\ R[s].status # "released"
      BY <2>2, <2>3 DEF RecordOf, NewRecord, N
    <3>2. D[s] = R[s]
      BY <1>5, <3>1 DEF Supersede
    <3> QED
      BY <1>1, <2>1, <2>3, <3>1, <3>2 DEF RecordOf
  <2>4. ASSUME NEW i \in 1..N, Remediates(es, i, s)
        PROVE  RecordOf(ext, D[s], s)
    <3>1. /\ s.decision = "suspend" /\ R[s] = ReleasedRecord(es, i)
          /\ \A j \in 1..N : Remediates(es, j, s) => i = j
      BY <2>2, <2>4 DEF RecordOf, N
    <3>2. Outdated(ext, i) <=> Outdated(es, i) \/ (e.decision = "suspend" /\ e.failed >= es[i].cand)
      <4>1. ext[i] = es[i] /\ N + 1 \in i + 1..N + 1
        BY <1>1, <2>4
      <4>2. \A j \in i + 1..N + 1 : j = N + 1 \/ (j \in i + 1..N /\ ext[j] = es[j])
        BY <1>1, <2>4
      <4>3. \A j \in i + 1..N : j \in i + 1..N + 1 /\ ext[j] = es[j]
        BY <1>1, <2>4
      <4> QED
        BY <1>1, <1>4, <4>1, <4>2, <4>3 DEF Outdated, N
    <3>3. D[s] = ReleasedRecord(ext, i)
      <4>1. ext[i] = es[i] /\ es[i].cand \in Nat
        <5>1. es[i] \in Remediation
          BY <1>1, <2>4 DEF Remediates, IsSuspension
        <5> QED
          BY <1>1, <5>1 DEF Remediation, Candidate
      <4>2. R[s].successor = es[i].cand
        BY <3>1 DEF ReleasedRecord
      <4>3. CASE e.decision = "suspend" /\ ~Outdated(es, i) /\ e.failed >= es[i].cand
        <5>1. R[s].status = "released" /\ R[s].successor <= e.failed
          BY <1>4, <3>1, <4>1, <4>2, <4>3 DEF ReleasedRecord
        <5>2. D[s] = [R[s] EXCEPT !.status = "superseded"]
          BY <1>5, <4>3, <5>1 DEF Supersede
        <5>3. D[s] = [status |-> "superseded", successor |-> es[i].cand]
          BY <3>1, <5>2 DEF ReleasedRecord
        <5> QED
          BY <3>2, <4>1, <4>3, <5>3 DEF ReleasedRecord
      <4>4. CASE ~(e.decision = "suspend" /\ ~Outdated(es, i) /\ e.failed >= es[i].cand)
        <5>1. Outdated(ext, i) <=> Outdated(es, i)
          BY <3>2, <4>4
        <5>2. e.decision = "suspend" => ~(R[s].status = "released" /\ R[s].successor <= e.failed)
          BY <1>4, <3>1, <4>1, <4>2, <4>4 DEF ReleasedRecord
        <5>3. D[s] = R[s]
          BY <1>5, <5>2 DEF Supersede
        <5> QED
          BY <3>1, <4>1, <5>1, <5>3 DEF ReleasedRecord
      <4> QED
        BY <4>3, <4>4
    <3> QED
      BY <1>1, <2>1, <2>4, <3>1, <3>3 DEF RecordOf
  <2> QED
    BY <2>3, <2>4
<1> QED
  BY <1>5, <1>6, <1>9, <1>10 DEF Records, ext, D

(* A remediation releases the one active suspension it names.              *)
LEMMA RemediationRecords ==
  ASSUME NEW es \in Seq(Suspension \cup Remediation), NEW e \in Remediation,
         History(es), Records(es), e.suspension \in DOMAIN DeriveRecords(es),
         DeriveRecords(es)[e.suspension].status = "awaiting_remediation"
  PROVE  Records(Append(es, e))
<1> DEFINE ext == Append(es, e)  N == Len(es)  R == DeriveRecords(es)  D == DeriveRecords(ext)
           u == e.suspension
<1>1. /\ N \in Nat /\ Len(ext) = N + 1 /\ ext[N + 1] = e
      /\ \A i \in 1..N : ext[i] = es[i] /\ es[i] \in ToSet(es)
      /\ ToSet(ext) = ToSet(es) \cup {e}
  BY Appended
<1>2. ~IsSuspension(e)
  BY KindsAreDisjoint DEF IsSuspension
<1>3. D = [R EXCEPT ![u] = [status |-> "released", successor |-> e.cand]]
  BY <1>2, DeriveAppend DEF Derived
<1>4. /\ DOMAIN R = {s \in ToSet(es) : IsSuspension(s)}
      /\ \A s \in DOMAIN R : RecordOf(es, R[s], s)
      /\ u \in DOMAIN R /\ R[u].status = "awaiting_remediation"
  BY DEF Records
<1> HIDE DEF ext, N, R, D, u
<1>5. /\ DOMAIN D = DOMAIN R
      /\ D[u] = [status |-> "released", successor |-> e.cand]
      /\ \A t \in DOMAIN R : t # u => D[t] = R[t]
  BY <1>3, <1>4
<1>6. DOMAIN D = {s \in ToSet(ext) : IsSuspension(s)}
  BY <1>1, <1>2, <1>4, <1>5
<1>7. \A i \in 1..N + 1 : i = N + 1 \/ i \in 1..N
  BY <1>1
<1>8. ~Outdated(ext, N + 1)
  BY <1>1 DEF Outdated
<1>9. /\ u.decision = "suspend"
      /\ \A i \in 1..N : ~Remediates(es, i, u)
  <2>1. RecordOf(es, R[u], u)
    BY <1>4
  <2>2. ASSUME NEW i \in 1..N, Remediates(es, i, u) PROVE FALSE
    <3>1. R[u] = ReleasedRecord(es, i)
      BY <2>1, <2>2 DEF RecordOf, N
    <3> QED
      BY <1>4, <3>1 DEF ReleasedRecord
  <2>3. R[u] = NewRecord(u)
    BY <2>1, <2>2 DEF RecordOf, N
  <2> QED
    BY <1>4, <2>2, <2>3 DEF NewRecord
<1>10. RecordOf(ext, D[u], u)
  <2>1. \A i \in 1..N + 1 : Remediates(ext, i, u) <=> i = N + 1
    BY <1>1, <1>2, <1>7, <1>9 DEF Remediates, u
  <2>2. N + 1 \in 1..N + 1 /\ D[u] = ReleasedRecord(ext, N + 1)
    BY <1>1, <1>5, <1>8 DEF ReleasedRecord
  <2>3. Len(ext) = N + 1
    BY <1>1
  <2>4. Remediates(ext, N + 1, u)
    BY <2>1, <2>2
  <2> QED
    BY <1>9, <2>1, <2>2, <2>3, <2>4 DEF RecordOf
<1>11. ASSUME NEW s \in DOMAIN R, s # u
       PROVE  RecordOf(ext, D[s], s)
  <2>1. \A i \in 1..N + 1 : Remediates(ext, i, s) <=> i \in 1..N /\ Remediates(es, i, s)
    BY <1>1, <1>7, <1>11 DEF Remediates, u
  <2>2. RecordOf(es, D[s], s)
    BY <1>4, <1>5, <1>11
  <2>3. ASSUME NEW i \in 1..N PROVE ReleasedRecord(ext, i) = ReleasedRecord(es, i)
    <3>1. ext[i] = es[i]
      BY <1>1
    <3>2. \A j \in i + 1..N + 1 : j = N + 1 \/ (j \in i + 1..N /\ ext[j] = es[j])
      BY <1>1
    <3>3. \A j \in i + 1..N : j \in i + 1..N + 1 /\ ext[j] = es[j]
      BY <1>1
    <3>4. Outdated(ext, i) <=> Outdated(es, i)
      BY <1>1, <1>2, <3>1, <3>2, <3>3 DEF Outdated, N
    <3> QED
      BY <3>1, <3>4 DEF ReleasedRecord
  <2> QED
    BY <1>1, <2>1, <2>2, <2>3 DEF RecordOf, N
<1> QED
  BY <1>5, <1>6, <1>10, <1>11 DEF Records, ext, D

(* The ledger starts empty.                                                *)
LEMMA HInvInit == LifecycleInit => HInv
<1> SUFFICES ASSUME LifecycleInit PROVE HInv
  OBVIOUS
<1>1. events = <<>> /\ Len(events) = 0 /\ ToSet(events) = {}
  BY DEF LifecycleInit, ToSet
<1>2. DeriveRecords(events) = <<>> /\ DOMAIN <<>> = {}
  BY <1>1, DeriveNone
<1>3. History(events)
  BY <1>1 DEF History
<1>4. Records(events)
  <2>1. DOMAIN DeriveRecords(events) = {}
    BY <1>2
  <2> QED
    BY <1>1, <2>1 DEF Records
<1> QED
  BY <1>3, <1>4, CInvInit DEF HInv

(* Only append_policy_lifecycle_event changes the ledger.                  *)
LEMMA HInvNext == HInv /\ [LifecycleNext]_policyVars => HInv'
<1> SUFFICES ASSUME HInv, [LifecycleNext]_policyVars PROVE HInv'
  OBVIOUS
<1>1. CInv /\ CInv'
  BY CInvNext DEF HInv
<1>2. UNCHANGED events \/ \E e \in suspensions \cup remediations : AppendEvent(e)
  BY DEF LifecycleNext, policyVars, lifecycleVars, RetainIncident, ApplySuspension,
         ApplyRemediation, AdvanceEnforced
<1>3. CASE UNCHANGED events
  BY <1>1, <1>3 DEF HInv
<1>4. ASSUME NEW e \in suspensions \cup remediations, AppendEvent(e)
      PROVE  HInv'
  <2>1. /\ events' = Append(events, e) /\ e \notin ToSet(events)
        /\ ~IsSuspension(e) => Resolves(e)
    BY <1>4 DEF AppendEvent
  <2>2. events \in Seq(Suspension \cup Remediation) /\ e \in Suspension \cup Remediation
    BY <1>1, SeqMonotonic DEF CInv, LifecycleTypeOK
  <2>3. History(events) /\ Records(events)
    BY DEF HInv
  <2>4. CASE IsSuspension(e)
    BY <1>1, <2>1, <2>2, <2>3, <2>4, HistoryAppend, SuspensionRecords DEF HInv, IsSuspension
  <2>5. CASE ~IsSuspension(e)
    <3>1. e \in Remediation
      BY <2>2, <2>5 DEF IsSuspension
    <3>2. /\ e.suspension \in DOMAIN DeriveRecords(events)
          /\ DeriveRecords(events)[e.suspension].status = "awaiting_remediation"
      BY <2>1, <2>5 DEF Resolves
    <3>3. e.suspension \in ToSet(events)
      BY <2>3, <3>2 DEF Records
    <3>4. History(events') /\ Records(events')
      BY <2>1, <2>2, <2>3, <3>1, <3>2, <3>3, HistoryAppend, RemediationRecords
    <3> QED
      BY <1>1, <3>4 DEF HInv
  <2> QED
    BY <2>4, <2>5
<1> QED
  BY <1>2, <1>3, <1>4

(* The records as the property reads them.                                 *)
LEMMA HInvMatches == HInv => RecordsMatchHistory
<1> SUFFICES ASSUME HInv PROVE RecordsMatchHistory
  OBVIOUS
<1> DEFINE records == DeriveRecords(events)
<1>1. /\ events \in Seq(suspensions \cup remediations) /\ Len(events) \in Nat
      /\ suspensions \subseteq Suspension /\ remediations \subseteq Remediation
  BY DEF HInv, CInv, LifecycleTypeOK
<1>2. \A k \in 1..Len(events) :
        /\ events[k] \in ToSet(events) /\ events[k] \in suspensions \cup remediations
        /\ IsSuspension(events[k]) <=> events[k] \in suspensions
        /\ ~IsSuspension(events[k]) <=> events[k] \in remediations
  BY <1>1, KindsAreDisjoint DEF IsSuspension, ToSet
<1>3. DOMAIN records = suspensions \cap ToSet(events)
  <2>1. DOMAIN records = {s \in ToSet(events) : IsSuspension(s)}
    BY DEF HInv, Records
  <2>2. \A s \in ToSet(events) : IsSuspension(s) <=> s \in suspensions
    BY <1>2 DEF ToSet
  <2> QED
    BY <2>1, <2>2
<1>4. ASSUME NEW k \in 1..Len(events), IsSuspension(events[k])
      PROVE  LET s == events[k]
                 fixes == ResolutionsOf(s, Len(events))
                 later(i) == \E j \in i + 1..Len(events) :
                               /\ IsSuspension(events[j]) /\ events[j].decision = "suspend"
                               /\ events[j].failed >= events[i].cand
             IN  /\ Cardinality(fixes) <= 1
                 /\ s.decision = "continue" => fixes = {}
                 /\ records[s].status =
                      CASE s.decision = "continue" -> "continued_under_review"
                        [] s.decision = "suspend" /\ fixes = {} -> "awaiting_remediation"
                        [] \E i \in fixes : i > k /\ later(i) -> "superseded"
                        [] \E i \in fixes : i > k /\ ~later(i) -> "released"
  <2> DEFINE s == events[k]
             fixes == ResolutionsOf(s, Len(events))
  <2>1. fixes = {i \in 1..Len(events) : Remediates(events, i, s)}
    BY <1>2 DEF ResolutionsOf, Remediates
  <2>2. s \in DOMAIN records /\ RecordOf(events, records[s], s)
    BY <1>2, <1>3, <1>4 DEF HInv, Records
  <2>3. s.decision \in {"suspend", "continue"}
    BY <1>4 DEF IsSuspension, Suspension
  <2>4. CASE fixes = {}
    <3>1. records[s] = NewRecord(s)
      BY <2>1, <2>2, <2>4 DEF RecordOf
    <3>2. Cardinality(fixes) = 0
      BY <2>4, FS_EmptySet
    <3> QED
      BY <2>3, <2>4, <3>1, <3>2 DEF NewRecord
  <2>5. ASSUME NEW i \in fixes
        PROVE  /\ fixes = {i} /\ s.decision = "suspend" /\ i > k
               /\ records[s].status = IF Outdated(events, i) THEN "superseded" ELSE "released"
    <3>1. i \in 1..Len(events) /\ Remediates(events, i, s)
      BY <2>1
    <3>2. fixes = {i} /\ s.decision = "suspend" /\ records[s] = ReleasedRecord(events, i)
      BY <2>1, <2>2, <3>1 DEF RecordOf
    <3>3. i > k
      <4>1. PICK n \in 1..i - 1 : events[n] = s
        BY <3>1 DEF HInv, History, Remediates
      <4>2. n \in 1..Len(events) /\ n < i
        BY <1>1, <3>1
      <4>3. n = k
        BY <4>1, <4>2 DEF HInv, History
      <4> QED
        BY <4>2, <4>3
    <3> QED
      BY <3>2, <3>3 DEF ReleasedRecord
  <2>6. ASSUME NEW i \in fixes PROVE Cardinality(fixes) = 1
    BY <2>5, FS_Singleton
  <2> QED
    BY <2>3, <2>4, <2>5, <2>6 DEF Outdated
<1> QED
  BY <1>3, <1>4 DEF RecordsMatchHistory

-----------------------------------------------------------------------------
(* All states of the lifecycle ledger satisfy HInv.                        *)
THEOREM HInvariance == LifecycleSpec => []HInv
BY HInvInit, HInvNext, PTL DEF LifecycleSpec

(* derive_records tells what happened: a suspension awaits remediation     *)
(* until exactly one remediation follows it in the ledger, and a release   *)
(* is superseded exactly when a later entry suspends the revision it       *)
(* released, or a newer one.                                               *)
THEOREM LedgerRecordsMatchHistory == LifecycleSpec => []RecordsMatchHistory
BY HInvMatches, HInvariance, PTL
=============================================================================
