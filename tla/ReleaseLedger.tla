---------------------------- MODULE ReleaseLedger ----------------------------
(***************************************************************************)
(* The signed factory-release ledger: the three commands that share one    *)
(* pinned directory (crates/pcbex-cli/src/main.rs),                        *)
(*                                                                         *)
(*   reserve    reserve_signed_factory_receipt_release_local               *)
(*   submit     submit_signed_factory_receipt_release_local                *)
(*   reconcile  reconcile_signed_factory_receipt_release_local             *)
(*                                                                         *)
(* for one challenge.  Every process runs one command at a time, may be    *)
(* killed at any point and is killed by a loss of power.  The adapter at   *)
(* the other end of the network is not trusted: any answer, or none, may   *)
(* come back.                                                              *)
(*                                                                         *)
(* A marker stands for the exact bytes of a reservation marker, and so for *)
(* the package, factory and subject it binds: the idempotency key is a     *)
(* digest of these and is identified with the marker.  The request nonce   *)
(* (and the endpoint) are bound by the intent but not by the key.          *)
(***************************************************************************)
EXTENDS NoReplacePublication

CONSTANTS Marker,      \* reservation markers that can be offered for the challenge
          Nonce,       \* request nonces (with their endpoint)
          ReconId,     \* reconciliation ids
          Status,      \* statuses a receipt can carry
          Terminal,    \* AdapterAccepted and AdapterRejected
          ValidFrom,   \* first second at which a marker's windows are all active
          ExpiresAt,   \* last such second
          MaxTime      \* bound on the clock

ASSUME WindowAssumption ==
  /\ MaxTime \in Nat
  /\ ValidFrom \in [Marker -> Nat]
  /\ ExpiresAt \in [Marker -> Nat]
  /\ Terminal \subseteq Status /\ "unknown" \in Status \ Terminal

(* File names of the ledger; all are deterministic functions of the key.   *)
MarkerName == [kind |-> "marker", key |-> Absent, id |-> Absent]
IntentName(k) == [kind |-> "intent", key |-> k, id |-> Absent]
ResultName(k) == [kind |-> "result", key |-> k, id |-> Absent]
ReconciliationName(k, r) == [kind |-> "reconciliation", key |-> k, id |-> r]

LedgerName ==
  {MarkerName} \cup {IntentName(k) : k \in Marker} \cup {ResultName(k) : k \in Marker}
    \cup {ReconciliationName(k, r) : k \in Marker, r \in ReconId}

Intent == [key : Marker, nonce : Nonce]
Receipt == [intent : Intent, id : ReconId \cup {Absent}, status : Status, at : 0..MaxTime]
LedgerBytes == Marker \cup Intent \cup Receipt

ASSUME LedgerAssumption ==
  /\ LedgerName \subseteq Name
  /\ LedgerBytes \subseteq Bytes
  /\ Absent \notin Marker \cup ReconId \cup Nonce

VARIABLES now,        \* the local clock, which does not run backward
          inv,        \* the command each process is running, and its locals
          posts,      \* POSTs of each marker's package so far
          admitted,   \* how many reserve commands reported success
          outputs,    \* receipts published outside the ledger
          linkedAt    \* when each ledger name was last installed

ledgerVars == <<now, inv, posts, admitted, outputs, linkedAt>>
vars == <<pubVars, ledgerVars>>

IdleInv == [pc |-> "idle", marker |-> Absent, intent |-> Absent, id |-> Absent,
            receipt |-> Absent]

ReservePc == {"reserve"}
SubmitPc == {"readIntent", "replay", "checkOrphan", "intent", "recheck", "post", "await", "result"}
ReconcilePc == {"readResult", "readObservation", "get", "awaitGet", "observation"}
PublishingPc == {"reserve", "intent", "result", "observation"}

Init ==
  /\ PubInit
  /\ now = 0
  /\ inv = [p \in Proc |-> IdleInv]
  /\ posts = [k \in Marker |-> 0]
  /\ admitted = 0
  /\ outputs = {}
  /\ linkedAt = [n \in Name |-> 0]
-----------------------------------------------------------------------------
(* Mutant: the start of the windows is not checked.                        *)
ActiveUntil(m) == now <= ExpiresAt[m]

(* validate_signed_factory_receipt_release_reservation_time: both windows  *)
(* of the marker are closed intervals.                                     *)
Active(m) == ValidFrom[m] <= now /\ now <= ExpiresAt[m]

MarkerUnchanged(p) == entry[MarkerName] = inv[p].marker
IntentUnchanged(p) == entry[IntentName(inv[p].intent.key)] = inv[p].intent

(* The guard each publication runs before and after linkat.                *)
CommitGuard(p) ==
  CASE inv[p].pc = "reserve" -> Active(inv[p].marker)
    [] inv[p].pc = "intent" -> MarkerUnchanged(p) /\ Active(inv[p].marker)
    [] inv[p].pc = "result" -> MarkerUnchanged(p) /\ IntentUnchanged(p)
    [] inv[p].pc = "observation" -> IntentUnchanged(p)
    [] OTHER -> FALSE

Goto(p, pc) == inv' = [inv EXCEPT ![p].pc = pc]
Exit(p) == inv' = [inv EXCEPT ![p] = IdleInv]
Take(p) == pub' = [pub EXCEPT ![p] = IdlePub]

(* persist_atomic_new_file_bytes on the caller's output, the last thing a  *)
(* command does; it may fail.                                              *)
PublishAndExit(p, n, receipt) ==
  /\ outputs' \in {outputs, outputs \cup {[name |-> n, receipt |-> receipt]}}
  /\ Exit(p)

(* parse_signed_factory_release_adapter_receipt: a stored receipt must     *)
(* report on the intent at hand.                                           *)
ParsesFor(p, receipt) == receipt.intent = inv[p].intent

(* A command returns with an error and leaves everything else alone.       *)
Bail(p) ==
  /\ Exit(p)
  /\ UNCHANGED <<pubVars, now, posts, admitted, outputs, linkedAt>>

(* persist_no_replace_with_guards under way for the command of p: the      *)
(* guard is re-evaluated before and after linkat, and may also fail for a  *)
(* reason outside the model (ledger identity, source or package changed).  *)
LedgerPublicationStep(p) ==
  /\ inv[p].pc \in PublishingPc
  /\ \E env \in BOOLEAN : PublicationStep(p, env /\ CommitGuard(p))
  /\ linkedAt' = [n \in Name |-> IF entry[n] = Absent /\ entry'[n] # Absent
                                   THEN now ELSE linkedAt[n]]
  /\ UNCHANGED <<now, inv, posts, admitted, outputs>>
-----------------------------------------------------------------------------
(* reserve: parse the marker, check its windows, stage it.                 *)
ReserveStart(p, m) ==
  /\ inv[p].pc = "idle"
  /\ Active(m)
  /\ inv' = [inv EXCEPT ![p] = [IdleInv EXCEPT !.pc = "reserve", !.marker = m]]
  /\ StageAs(p, MarkerName, m)
  /\ UNCHANGED <<entry, durable, now, posts, admitted, outputs, linkedAt>>

(* Mutant: a committed marker counts as success although its completion    *)
(* failed.                                                                 *)
ReserveFinishUncertain(p) ==
  /\ inv[p].pc = "reserve"
  /\ pub[p].step \in Outcome
  /\ admitted' = IF pub[p].step \in {"CommittedDurable", "CommittedButCompletionFailed"}
                   THEN admitted + 1 ELSE admitted
  /\ Exit(p)
  /\ Take(p)
  /\ UNCHANGED <<entry, durable, now, posts, outputs, linkedAt>>

(* finish_signed_factory_receipt_release_reservation: success only if      *)
(* durable and still active at completion.                                 *)
ReserveFinish(p) ==
  /\ inv[p].pc = "reserve"
  /\ pub[p].step \in Outcome
  /\ admitted' = IF pub[p].step = "CommittedDurable" /\ Active(inv[p].marker)
                   THEN admitted + 1 ELSE admitted
  /\ Exit(p)
  /\ Take(p)
  /\ UNCHANGED <<entry, durable, now, posts, outputs, linkedAt>>
-----------------------------------------------------------------------------
(* Mutant: the intent binds its two digests the wrong way round.           *)
SubmitStartSwapped(p, x) ==
  /\ inv[p].pc = "idle"
  /\ entry[MarkerName] # Absent
  /\ LET m == entry[MarkerName] IN
       inv' = [inv EXCEPT ![p] = [IdleInv EXCEPT !.pc = "readIntent", !.marker = m,
                                                 !.intent = [key |-> x, nonce |-> m]]]
  /\ UNCHANGED <<pubVars, now, posts, admitted, outputs, linkedAt>>

(* submit: read the marker and the package it binds, build the intent.     *)
SubmitStart(p, x) ==
  /\ inv[p].pc = "idle"
  /\ entry[MarkerName] # Absent
  /\ LET m == entry[MarkerName] IN
       inv' = [inv EXCEPT ![p] = [IdleInv EXCEPT !.pc = "readIntent", !.marker = m,
                                                 !.intent = [key |-> m, nonce |-> x]]]
  /\ UNCHANGED <<pubVars, now, posts, admitted, outputs, linkedAt>>

(* An existing intent must be this very intent; then only its result may   *)
(* be replayed.                                                            *)
SubmitReadIntent(p) ==
  /\ inv[p].pc = "readIntent"
  /\ LET found == entry[IntentName(inv[p].marker)] IN
       CASE found = Absent -> Goto(p, "checkOrphan")
         [] found = inv[p].intent -> Goto(p, "replay")
         [] OTHER -> Exit(p)
  /\ UNCHANGED <<pubVars, now, posts, admitted, outputs, linkedAt>>

(* Mutant: wait for the result of another submit.                          *)
SubmitReplayWaits(p) ==
  /\ inv[p].pc = "replay"
  /\ entry[ResultName(inv[p].marker)] # Absent
  /\ PublishAndExit(p, ResultName(inv[p].marker), entry[ResultName(inv[p].marker)])
  /\ UNCHANGED <<pubVars, now, posts, admitted, linkedAt>>

(* Mutant: report an unknown outcome when there is no result yet.          *)
SubmitReplayUnknown(p) ==
  /\ inv[p].pc = "replay"
  /\ LET n == ResultName(inv[p].marker) IN
       PublishAndExit(p, n, IF entry[n] # Absent THEN entry[n]
                            ELSE [intent |-> inv[p].intent, id |-> Absent,
                                  status |-> "unknown", at |-> now])
  /\ UNCHANGED <<pubVars, now, posts, admitted, linkedAt>>

(* Replay the result of this intent, or refuse to send it again.           *)
SubmitReplay(p) ==
  /\ inv[p].pc = "replay"
  /\ LET n == ResultName(inv[p].marker) IN
       IF entry[n] # Absent /\ ParsesFor(p, entry[n])
         THEN PublishAndExit(p, n, entry[n])
         ELSE Exit(p) /\ UNCHANGED outputs
  /\ UNCHANGED <<pubVars, now, posts, admitted, linkedAt>>

(* No intent: a result without it is an error; otherwise check the window  *)
(* and stage the intent.                                                   *)
SubmitStageIntent(p) ==
  /\ inv[p].pc = "checkOrphan"
  /\ IF entry[ResultName(inv[p].marker)] # Absent \/ ~Active(inv[p].marker)
       THEN Exit(p) /\ UNCHANGED pub
       ELSE Goto(p, "intent") /\ StageAs(p, IntentName(inv[p].marker), inv[p].intent)
  /\ UNCHANGED <<entry, durable, now, posts, admitted, outputs, linkedAt>>

(* Mutants: a concurrent intent with the same name, or one whose           *)
(* completion failed, is taken for a durable one.                          *)
SubmitIntentOutcomeShared(p) ==
  /\ inv[p].pc = "intent"
  /\ pub[p].step \in Outcome
  /\ IF pub[p].step \in {"CommittedDurable", "AlreadyExists"} THEN Goto(p, "recheck") ELSE Exit(p)
  /\ Take(p)
  /\ UNCHANGED <<entry, durable, now, posts, admitted, outputs, linkedAt>>

SubmitIntentOutcomeUncertain(p) ==
  /\ inv[p].pc = "intent"
  /\ pub[p].step \in Outcome
  /\ IF pub[p].step \in {"CommittedDurable", "CommittedButCompletionFailed"}
       THEN Goto(p, "recheck") ELSE Exit(p)
  /\ Take(p)
  /\ UNCHANGED <<entry, durable, now, posts, admitted, outputs, linkedAt>>

(* Only CommittedDurable goes on; every other outcome must be reconciled.  *)
SubmitIntentOutcome(p) ==
  /\ inv[p].pc = "intent"
  /\ pub[p].step \in Outcome
  /\ IF pub[p].step = "CommittedDurable" THEN Goto(p, "recheck") ELSE Exit(p)
  /\ Take(p)
  /\ UNCHANGED <<entry, durable, now, posts, admitted, outputs, linkedAt>>

(* intent_guard once more, immediately before the network.                 *)
SubmitRecheck(p) ==
  /\ inv[p].pc = "recheck"
  /\ MarkerUnchanged(p) /\ Active(inv[p].marker)
  /\ Goto(p, "post")
  /\ UNCHANGED <<pubVars, now, posts, admitted, outputs, linkedAt>>

SubmitRecheckFails(p) == inv[p].pc = "recheck" /\ Bail(p)

(* The one POST of the package.                                            *)
SubmitPost(p) ==
  /\ inv[p].pc = "post"
  /\ posts' = [posts EXCEPT ![inv[p].marker] = @ + 1]
  /\ inv' = [inv EXCEPT ![p].pc = "await",
               ![p].receipt = [intent |-> inv[p].intent, id |-> Absent, status |-> "unknown",
                               at |-> now]]
  /\ UNCHANGED <<pubVars, now, admitted, outputs, linkedAt>>

(* receipt_from_response: an acknowledgement, or outcome_unknown for a     *)
(* timeout, a transport error or an answer that fails any check.           *)
SubmitResponse(p, s) ==
  /\ inv[p].pc = "await"
  /\ Goto(p, "result")
  /\ StageAs(p, ResultName(inv[p].marker), [inv[p].receipt EXCEPT !.status = s])
  /\ UNCHANGED <<entry, durable, now, posts, admitted, outputs, linkedAt>>

(* Mutant: any record of the same name counts as ours.                     *)
RecordedAnyBytes(p) == pub[p].step \in {"CommittedDurable", "AlreadyExists"}

(* A record of the same name counts as ours only if its bytes are ours.    *)
Recorded(p) ==
  \/ pub[p].step = "CommittedDurable"
  \/ pub[p].step = "AlreadyExists" /\ entry[pub[p].name] = pub[p].bytes

(* The receipt is published once it is recorded.                           *)
SubmitResultOutcome(p) ==
  /\ inv[p].pc = "result"
  /\ pub[p].step \in Outcome
  /\ IF Recorded(p) THEN PublishAndExit(p, pub[p].name, pub[p].bytes)
                    ELSE Exit(p) /\ UNCHANGED outputs
  /\ Take(p)
  /\ UNCHANGED <<entry, durable, now, posts, admitted, linkedAt>>
-----------------------------------------------------------------------------
(* reconcile: the intent of the key must exist.                            *)
ReconcileStart(p, k, r) ==
  /\ inv[p].pc = "idle"
  /\ entry[IntentName(k)] # Absent
  /\ inv' = [inv EXCEPT ![p] = [IdleInv EXCEPT !.pc = "readResult", !.id = r,
                                               !.intent = entry[IntentName(k)]]]
  /\ UNCHANGED <<pubVars, now, posts, admitted, outputs, linkedAt>>

(* A terminal submission result is replayed without the network.           *)
ReconcileReadResult(p) ==
  /\ inv[p].pc = "readResult"
  /\ LET n == ResultName(inv[p].intent.key) IN
       CASE entry[n] = Absent \/ (ParsesFor(p, entry[n]) /\ entry[n].status \notin Terminal) ->
              Goto(p, "readObservation") /\ UNCHANGED outputs
         [] entry[n] # Absent /\ ParsesFor(p, entry[n]) /\ entry[n].status \in Terminal ->
              PublishAndExit(p, n, entry[n])
         [] OTHER -> Exit(p) /\ UNCHANGED outputs
  /\ UNCHANGED <<pubVars, now, posts, admitted, linkedAt>>

(* So is an observation already recorded under this reconciliation id.     *)
ReconcileReadObservation(p) ==
  /\ inv[p].pc = "readObservation"
  /\ LET n == ReconciliationName(inv[p].intent.key, inv[p].id) IN
       CASE entry[n] = Absent -> Goto(p, "get") /\ UNCHANGED outputs
         [] entry[n] # Absent /\ ParsesFor(p, entry[n]) /\ entry[n].id = inv[p].id ->
              PublishAndExit(p, n, entry[n])
         [] OTHER -> Exit(p) /\ UNCHANGED outputs
  /\ UNCHANGED <<pubVars, now, posts, admitted, linkedAt>>

(* The guard and the GET, which carries no package.                        *)
ReconcileGet(p) ==
  /\ inv[p].pc = "get"
  /\ IntentUnchanged(p)
  /\ inv' = [inv EXCEPT ![p].pc = "awaitGet",
               ![p].receipt = [intent |-> inv[p].intent, id |-> inv[p].id,
                               status |-> "unknown", at |-> now]]
  /\ UNCHANGED <<pubVars, now, posts, admitted, outputs, linkedAt>>

ReconcileGuardFails(p) == inv[p].pc = "get" /\ Bail(p)

ReconcileResponse(p, s) ==
  /\ inv[p].pc = "awaitGet"
  /\ Goto(p, "observation")
  /\ StageAs(p, ReconciliationName(inv[p].intent.key, inv[p].id),
                [inv[p].receipt EXCEPT !.status = s])
  /\ UNCHANGED <<entry, durable, now, posts, admitted, outputs, linkedAt>>

ReconcileOutcome(p) ==
  /\ inv[p].pc = "observation"
  /\ pub[p].step \in Outcome
  /\ IF Recorded(p) THEN PublishAndExit(p, pub[p].name, pub[p].bytes)
                    ELSE Exit(p) /\ UNCHANGED outputs
  /\ Take(p)
  /\ UNCHANGED <<entry, durable, now, posts, admitted, linkedAt>>
-----------------------------------------------------------------------------
Tick ==
  /\ now < MaxTime
  /\ now' = now + 1
  /\ UNCHANGED <<pubVars, inv, posts, admitted, outputs, linkedAt>>

ProcessKilled(p) ==
  /\ inv[p].pc # "idle"
  /\ Exit(p)
  /\ Take(p)
  /\ UNCHANGED <<entry, durable, now, posts, admitted, outputs, linkedAt>>

PowerFails ==
  /\ PowerLoss
  /\ inv' = [p \in Proc |-> IdleInv]
  /\ UNCHANGED <<now, posts, admitted, outputs, linkedAt>>

Start(p) ==
  \/ \E m \in Marker : ReserveStart(p, m)
  \/ \E x \in Nonce : SubmitStart(p, x)
  \/ \E k \in Marker, r \in ReconId : ReconcileStart(p, k, r)

Continue(p) ==
  \/ LedgerPublicationStep(p)
  \/ ReserveFinish(p)
  \/ SubmitReadIntent(p) \/ SubmitReplay(p) \/ SubmitStageIntent(p)
  \/ SubmitIntentOutcome(p) \/ SubmitRecheck(p) \/ SubmitRecheckFails(p) \/ SubmitPost(p)
  \/ \E s \in Status : SubmitResponse(p, s)
  \/ SubmitResultOutcome(p)
  \/ ReconcileReadResult(p) \/ ReconcileReadObservation(p)
  \/ ReconcileGet(p) \/ ReconcileGuardFails(p)
  \/ \E s \in Status : ReconcileResponse(p, s)
  \/ ReconcileOutcome(p)

(* Everything but the loss of power.                                       *)
PoweredNext ==
  \/ Tick
  \/ \E p \in Proc : Start(p) \/ Continue(p) \/ ProcessKilled(p)

Next == PoweredNext \/ PowerFails

Spec == Init /\ [][Next]_vars

(* The same system while the power stays on.                               *)
PoweredSpec == Init /\ [][PoweredNext]_vars
(* A command consists of bounded local system calls and one network call   *)
(* under timeout_global, so a running process is always scheduled again.   *)
FairSpec == PoweredSpec /\ \A p \in Proc : WF_vars(Continue(p))
-----------------------------------------------------------------------------
(* Type invariant of the ledger and of the commands' locals.               *)
TypeOK ==
  /\ PubTypeOK
  /\ now \in 0..MaxTime
  /\ inv \in [Proc -> [pc      : {"idle"} \cup ReservePc \cup SubmitPc \cup ReconcilePc,
                       marker  : Marker \cup {Absent},
                       intent  : Intent \cup {Absent},
                       id      : ReconId \cup {Absent},
                       receipt : Receipt \cup {Absent}]]
  /\ posts \in [Marker -> Nat]
  /\ admitted \in Nat
  /\ outputs \subseteq [name : Name, receipt : Receipt]
  /\ linkedAt \in [Name -> 0..MaxTime]

(* At most one package is ever POSTed for the challenge, and only once,     *)
(* whatever concurrent submits, kills and power losses do: the no-replace   *)
(* intent is the barrier ("There is no retry after this point").            *)
AtMostOnePost ==
  \A k, l \in Marker : posts[k] > 0 /\ posts[l] > 0 => k = l /\ posts[k] = 1

(* When a package has left, the marker that authorized it and the intent    *)
(* that announces it are both on disk for good, although submit reads the   *)
(* marker without knowing whether its reserve ever synchronized it.         *)
PostedIsOnDisk ==
  \A k \in Marker :
    posts[k] > 0 => /\ {MarkerName, IntentName(k)} \subseteq durable
                    /\ entry[MarkerName] = k
                    /\ entry[IntentName(k)] \in Intent
                    /\ entry[IntentName(k)].key = k

(* A submission result is never found without the intent and the POST it    *)
(* reports ("durable submission result exists without its exact intent").   *)
ResultHasIntent ==
  \A k \in Marker : entry[ResultName(k)] # Absent =>
    /\ posts[k] = 1
    /\ entry[IntentName(k)] # Absent
    /\ entry[ResultName(k)].intent = entry[IntentName(k)]

(* At most one reserve command ever reports success, its marker is then on  *)
(* disk for good, and it was installed while its windows were active even   *)
(* though the clock was only sampled before and after the installation.     *)
AdmittedOnce ==
  admitted > 0 =>
    /\ admitted = 1
    /\ MarkerName \in durable
    /\ entry[MarkerName] \in Marker
    /\ ValidFrom[entry[MarkerName]] <= linkedAt[MarkerName]
    /\ linkedAt[MarkerName] <= ExpiresAt[entry[MarkerName]]

(* A package leaves only if its marker and, no earlier, its intent were     *)
(* installed inside the marker's windows; in particular a marker whose      *)
(* reserve failed after the installation cannot be used out of time.        *)
PostedInWindow ==
  \A k \in Marker :
    posts[k] > 0 => /\ ValidFrom[k] <= linkedAt[MarkerName]
                    /\ linkedAt[MarkerName] <= linkedAt[IntentName(k)]
                    /\ linkedAt[IntentName(k)] <= ExpiresAt[k]

(* Submit and reconcile never publish two different receipts for the same   *)
(* submission, across kills and power losses.                               *)
SubmissionOutputStable ==
  \A o1, o2 \in outputs :
    o1.name = o2.name /\ o1.name.kind = "result" => o1.receipt = o2.receipt

(* "Reusing it replays the exact stored observation without network         *)
(* access": two receipts published for one ledger name are the same.        *)
OutputStable ==
  \A o1, o2 \in outputs : o1.name = o2.name => o1.receipt = o2.receipt

(* While the power stays on, every receipt handed to a caller is the record *)
(* that the ledger holds under its name.                                    *)
OutputIsRecorded == \A o \in outputs : entry[o.name] = o.receipt

(* The ledger implements the at-most-once release of its challenge.         *)
Release == INSTANCE AtMostOnceRelease WITH holder <- entry[MarkerName], sent <- posts
ImplementsAtMostOnceRelease == Release!Spec

(* Every command ends: a submit that finds another's unfinished intent, or  *)
(* a reconcile that races a submit, never waits for it.                     *)
CommandEnds == \A p \in Proc : inv[p].pc # "idle" ~> inv[p].pc = "idle"
=============================================================================
