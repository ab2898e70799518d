# TLA+ verification of pcbex

pcbex checks and routes circuit boards and carries a board to a factory. Most
of its code is sequential and pure: parsers, geometric checks, offline
verification of signed evidence. The part that is hard to get right by testing
is the last step, where a package leaves the machine exactly once although
commands run concurrently, are killed, lose power, and talk to a factory
adapter that may not answer. This project models that part first, then the
concurrent machinery around it (supervised processes, the task server, the
factory feedback loop) and the long governance protocol of policy revisions.

All source paths below are relative to the repository root (`src/` in
`PROJECT.json`).

## 1. Inventory

| Part | State it keeps | Operations | Talks to | What is hard | What makes it correct |
|---|---|---|---|---|---|
| Anchored publication (`crates/pcbex-cli/src/anchored_io.rs`) | a pinned directory, private temporary files | `create_temp`, `persist_no_replace_with_guards`, `persist_replace`, `read_regular_file_with_limit` | every ledger, through callbacks (guards) | concurrent `linkat`, kill or power loss between any two system calls, errors after the install | a reported outcome is true; one winner per name; records are complete, immutable, and permanent once synchronized |
| Signed release ledger (`main.rs` 10579-11303, `signed_factory_receipt_release_reservation.rs`, `..._submission.rs`) | marker, intent, result and reconciliation records of a challenge | `reserve`, `submit`, `reconcile` | anchored publication; the adapter by one POST or GET; the clock | two submitters, lost answers, unsynchronized records, window ends | at most one POST per challenge, behind a durable marker and intent; one result |
| Monotonic adapter state (`main.rs` 11977-12874, `factory_release_adapter_monotonic_state.rs`) | observations, a chain of state entries, compatible receipts | monotonic `submit`, `reconcile`, repair | the same ledger; shares names with the older commands | an adapter that signs two histories, repairs in any order, a head that is stale when the answer arrives | the chain always loads, never forks, ends at a terminal state; only retained states are published |
| Authenticated adapter response (`main.rs` 11307-11974, `factory_release_adapter_response_authentication.rs`) | authentication report and compatible receipt | authenticated `submit`, `reconcile` | the same ledger | two records per outcome, repair of the second from the first | no receipt without its authentication |
| Fabrication and procurement reservations (`main.rs` 10211-10577) | one marker per challenge | `reserve` | anchored publication | as above | one holder per challenge |
| Transparency, witnesses, gossip, registries (`factory_release_state_transparency*.rs`, `remote_factory_release*.rs`) | logs, checkpoints, quorum reports | verify inclusion, consistency, quorum, gossip; acquire remotely | HTTP witnesses | split views, stale checkpoints, partial quorums | accepted views are consistent |
| Approval log and review (`crates/pcbex-kicad/src/approval*.rs`, `transparency.rs`, `anchor.rs`, `routed_quorum.rs`, `human_escalation.rs`, `waiver.rs`) | hash-chained log | append, verify, quorum, route, escalate, waive | remote witnesses | duplicate reviewers, expired waivers | an approval counts once, for the subject it signs |
| Policy governance (`policy_rollout*.rs`, `canary_completion.rs`, `policy_deployment*.rs`, `policy_rollback_recovery.rs`, `policy_incident_ledger.rs`, `policy_suspension.rs`, `policy_remediation.rs`, `policy_lifecycle.rs`) | a chain of deployment states, incident and lifecycle ledgers, all append-only documents | authorize, monitor, advance, verify, roll back, recover, close, suspend, remediate | files handed from command to command | long sequences of legal steps; documents used late | no revision is considered twice; a rollback restores what ran; no promotion past a suspension without independent clearance |
| Policy packs, checkpoints, witnesses, gossip (`policy_pack.rs`, `policy_lifecycle_*.rs`, `remote_policy*.rs`) | trust state, checkpoints | verify, witness, gossip | HTTP witnesses | split views | accepted views are consistent |
| Bounded processes (`bounded_process.rs`, `agent/.../bounded_process.py`) | child and its group, reader threads, a bounded channel, a deadline | spawn, read, drain, kill, reap | external tools | timeout against exit, full pipes, descendants that keep a pipe, reuse of process ids | always ends, loses no output, leaves no process of the group, signals no foreign one after the kill that follows the reap |
| Factory feedback loop (`factory.rs`, the command in `main.rs` from 45648) | current package, receipt, attempt, deadline | submit, repair, verify, publish | the factory, a repair command, files | files changed behind its back, deadlines between steps, several outputs | only accepted packages leave; success is complete; external work outlives the budget by no more than the delay between reading the clock and starting |
| Deterministic pipeline (`deterministic_pipeline_*.rs`, `pipeline.rs`) | captured artifacts | compile, run, gate, replay | bounded processes | stale inputs | replay is exact |
| MCP server and CLI (`mcp.rs`, `main.rs`) | a task table, task records, a slot counter | create, get, list, cancel, result; expiry; shutdown | tools, each in a bounded process | workers, monitors and requests racing on one record; limits | exact slots, final answers, no tool left running unasked, every request answered |
| Router and checker (`crates/pcbex-core`) | board, grid, budget | place, route, check | none | budgets and stalls | clearance, convergence |
| KiCad formats (`crates/pcbex-kicad`) | documents | parse, write, compare | none | numeric edges | round trips |
| Python agent (`agent/`) | plans, offers, handoffs | plan, execute, repair | the CLI, providers | retry budgets | bounded attempts |
| CI actions and scripts | none | glue | GitHub | none | none |

The hazards of the modelled parts are listed, at their lines, in
`PROJECT.json` under `hazards`.

## 2. Modules

```
  AtMostOnceRelease            abstract: one challenge, one package
        ^  refined by
  ReleaseLedger  <--- EXTENDED by AuthenticatedRelease
        |  EXTENDS        authenticated submit / reconcile beside the older ones
  NoReplacePublication         contract of persist_no_replace_with_guards
        ^  refined by     \
  AnchoredPublication      \__ EXTENDED by MonotonicRelease
  (system calls, inodes)       monotonic submit / reconcile, state chain

  BoundedProcess               one supervised run of an external tool
        :  its RunEnds justifies that cancelled tools end in
  McpTasks                     task table, workers, TTL monitors
  FactoryFeedbackLoop          submit, repair, resubmit, publish

  PolicyCanary  <--- EXTENDED by PolicyDeployment  (chain, rollback, incidents)
                <--- EXTENDED by PolicyLifecycle   (suspension, remediation,
                                                    ledger, enforcement)
```

The eight `*Proofs` modules hold the theorems about the modules they are named
after; `ReleaseLedgerProofs` is also about `AuthenticatedRelease`, and
`PolicyProofs` about `PolicyDeployment` and `PolicyLifecycle`. The `MC*` modules
instantiate the constants for TLC.

### NoReplacePublication

`entry[n]` is what a reader of the directory sees under the final name `n`,
`durable` the names that survive a loss of power, and `pub[p]` the publication
process `p` has under way, with the name and bytes of its staged record and
whether an error was collected after the install. The actions are the stages
of `persist_no_replace_with_guards` (`anchored_io.rs` 674-773):
`BeforeInstall`, `Linkat`, `LinkatError`, `AfterInstall`, `SyncDirectory`,
`SyncDirectoryError`, and the result read by the caller (`Return`). The io
error of a publication that installed nothing is the outcome `"Failed"`.
`Kill` stops a process anywhere; `PowerLoss` stops all of them and loses any
subset of the unsynchronized names. `SyncDirectory` makes every visible name
durable, whoever linked it, because it is an fsync of the directory.
`Install` and `Complete` are the same publication in two coarser steps, for a
caller whose guards only read records that cannot change; `MonotonicRelease`
uses them.

### AnchoredPublication

One level below: directory entries point to inodes, the temporary name and the
final name share an inode after `linkat`, file data and directory entries are
synchronized separately, `O_EXCL` creation, the `Drop` of `AnchoredTempFile`
(which a kill skips), and a power loss that keeps any mixture of seen and
synchronized entries and data. `Torn` is the content of a file whose data is
not all there. The refinement mapping (`entryBar`, `durableBar`, `pubBar`)
reads the contract's state off it. Inodes are reused once nothing points to
them (`Free`), so the bound `Inode` limits only how many files exist at once.

### ReleaseLedger

One challenge. `inv[p]` is the command process `p` is running with its locals
(`pc` names the next step), `posts[k]` counts the POSTs of marker `k`'s
package, `admitted` the reserve commands that reported success, `outputs` the
receipts handed to callers and `linkedAt` the second each name was installed.
Each stage between two accesses to the ledger, the clock or the network is an
action: `ReserveStart`, `ReserveFinish`; `SubmitStart`, `SubmitReadIntent`,
`SubmitReplay`, `SubmitStageIntent`, `SubmitIntentOutcome`, `SubmitRecheck`
(or `SubmitRecheckFails`), `SubmitPost`, `SubmitResponse`,
`SubmitResultOutcome`; `ReconcileStart`, `ReconcileReadResult`,
`ReconcileReadObservation`, `ReconcileGet` (or `ReconcileGuardFails`),
`ReconcileResponse`, `ReconcileOutcome`; and `LedgerPublicationStep`, the
publication under way with the guard the command passes to it.

Abstractions:

- A marker stands for its exact bytes, hence for the package, factory and
  subject in it. The idempotency key is a digest of these and is identified
  with the marker; the request nonce and endpoint are bound by the intent only.
- Digests and canonical JSON are equality of records.
- The adapter is not trusted: any status may come back, and a timeout, a
  transport error and an answer that fails a check are all `"unknown"`
  (`receipt_from_response`).
- The clock does not run backward, as the documentation of the reservation
  assumes.
- A guard may also fail for a reason outside the model (ledger identity,
  source or package changed): `env` in `LedgerPublicationStep`. Any other
  failed check (credential, argument, changed input) ends a command exactly as
  a kill does, and has no action of its own.

### MonotonicRelease

One idempotency key whose marker is on disk. Beside the ledger state it keeps
`shown`, the states of the verified reports handed to callers, and `journal`,
the names installed since the directory was last synchronized. The chain is not
a variable: `Chain`, `ChainLoads`, `ChainHead` are what
`load_monotonic_factory_release_state_chain` reads from the directory.
`RepairWith`, `EntryOutcome`, `StageReceipt` and `ReceiptOutcome` are
`repair_...` and `retain_...`, shared by fresh and replayed observations.
`LegacyReconcile` and the initial records stand for what the older commands
leave under the shared names. An older submit has ended, or died, when the
monotonic commands start; the race at the intent's `linkat` is that of two
monotonic submits, in which an older one would do the same calls (that an older
and a newer submit may race there is modelled in `AuthenticatedRelease`); the
check of an older authenticated report is folded into the check of the receipt
that accompanies it.

Abstractions beyond the ones above: the load of the chain is one step, which is
sound because entries are immutable and only added at the end; a report is
identified with its request and its observed state, so that two observations
of one state fetched at different seconds count as equal bytes (in the code
they differ and the loser ends with an error, which is a kill); power loss
takes the end of the journal, because with an arbitrary subset an entry may
survive its observation (a listed hazard).

### AuthenticatedRelease

The authenticated submit and reconcile (`main.rs` 11307-11974), as further
commands in the ledger of `ReleaseLedger`: a process runs an older or an
authenticated command, never both, and both kinds meet at the shared marker,
intent and receipt names. `auth[p]` is the authenticated command with its
locals, `shown` the reports handed to callers. An outcome is two records, the
authentication report first and the compatible receipt after it; a later
command that finds only the report rebuilds the receipt (`ReadCompatible`,
`CompatibleOutcome`). Whether a response authenticates is one bit that goes
with any receipt. The windows are the business of `ReleaseLedger`, so the clock
stands still in this module's run.

### BoundedProcess

`run_bounded_inner` and its threads on Unix (`bounded_process.rs` 34-733). The
supervisor's `pc` follows its loop: cancellation, deadline, `try_wait`, the
group kill after the leader's exit, draining the channel, waiting for an event,
termination, reaping, joining. Each reader reads a chunk no longer than the
limit plus one byte and blocks on a channel of `Capacity` events. The child and
one descendant write, close, fork, leave the group and exit at will
(`Environment`), and once the leader is reaped its number may be taken over by
a foreign group at any moment (`ReusePid`). The code looks at nothing between the
`try_wait` that reaps the leader (382) and the group kill that follows it (391),
so a number that is given away in between is signalled; `reused` tells this
window (`"beforeKill"`) from all that comes after it (`"later"`), and `NoLateKill`
says that the window is the only exposure. Bytes are counted. A failed run drops
the receiver and detaches its readers. Not modelled: the Windows job object and
the text of `cleanup_error`.

### McpTasks

The task machinery of `mcp.rs`: the server thread (`pc`, `cur`) that reads and
answers requests one after the other, a worker and a TTL monitor per task, and
what they share, the records, their condition variables and `active_tasks`. A
section under a record's lock is one step; `tasks/result` waits on the
condition variable, with spurious wakeups. `told` and `answered` are histories
of what clients were given. Not modelled: framing and oversized responses, a
panic in a worker (it would keep its slot) and a failing `thread::spawn` of the
worker (it panics).

### FactoryFeedbackLoop

`run_factory_feedback_loop` and its command: submit, decide, repair, verify the
repaired candidate, promote it, and publish package, receipt and report, with
the deadline falling between any two steps. The repair command and a process
it leaves behind may change the candidate and the input file at any time
(`Meddling`), other programs may take an output name first (`Collide`), and a
publication error may come after the file is there. Time is counted in
fractions of a second, because the timeouts of calls are whole seconds.

A bounded call takes more than one step. `Submit` reads the clock
(`bounded_network_timeout`), and `Send` starts the call with a timeout that counts
from there. A repair has four: `StartRepair` reads the clock, `Prepare` turns the
remainder into a deadline of its own (`factory.rs` 608), `MakeFiles` reads the
clock again after the files are made, and `Spawn` turns that remainder into the
deadline of the bounded process (`bounded_process.rs` 239). Time may pass before
each, and `late` counts what passes between a reading and the start of what it
bounds (`Between`). So the comment at `factory.rs` 351-354 ("no later phase starts
once this deadline has elapsed") is true only up to such a delay; `OverrunIsBounded`
is what the code does guarantee.

### PolicyCanary, PolicyDeployment, PolicyLifecycle

Every command of the policy governance reads documents and writes a new one,
so the state is the set of documents and only grows; a digest in a document is
the document itself. `PolicyCanary` has what the two others share: the clock,
authorizations of at most a tenth of the fleet, the monitoring of exactly that
part, and the decision that finalizes it. `PolicyDeployment` goes on to the
chain of deployment states, the verification of the fleet, the rollback signed
by two humans, its recovery, the closure by a third and the incident ledger.
`PolicyLifecycle` takes incidents by contract and models the suspension of a
revision, its remediation by a successor, the ledger of both with the records
derived from it (`DeriveRecords`), and the enforcement when a deployment
advances (`Enforce`). `inForce` and `replaced` are histories of what the fleet
runs.

Abstractions: a policy pack is identified with its revision, because the trust
state accepts one digest per revision; a canary binds the DFM profile it
simulates, not the revision, so one canary may serve two revisions
(`ProfileOf`), and a profile may have several canaries and a canary several
reports (`MaxCanaries` and `MaxMonitors` bound the files, not their use); time
arguments are the current time; the operator keeps one chain and one ledger of
each kind and extends the latest, and gives the lifecycle ledger and every
remediation file to each advance, while any other document may be used late; all
packs trust the same human keys. Stale or forked baselines, the simulation
behind an authorization, the contents of an analysis and snapshots of the
lifecycle ledger are not modelled.

## 3. Runs

All passing runs are exhaustive.

| Run | Bounds | Shows |
|---|---|---|
| `anchored` | 2 processes, 2 names, 3 temporary names, 3 inodes | no torn or aliased record; implements `NoReplacePublication` |
| `release` | 2 processes, 2 markers with different windows, 2 nonces, no reconcile, clock 0..2, power losses | one POST, durable marker and intent, windows, one admission, stable result, truthful outcomes, immutable records; implements `AtMostOnceRelease` |
| `reconcile` | 2 processes, 2 nonces, 1 reconciliation id, power on, fairness | published receipts are the recorded ones; every command ends |
| `monotonic` | 2 processes, states of two generations, older submissions and reconciles, power losses | one POST, chain loads, only retained states published |
| `monotonic_reconcile` | 2 processes, 2 ids, two rival genesis states and two rival successors, power on | no published equivocation, a terminal head stays replayable |
| `monotonic_legacy` | an older reconcile with the same id | **violation** of `TerminalIsReplayable` (the finding below) |
| `authenticated` | 2 processes, authenticated and older commands, 1 nonce, 1 id of the authenticated reconcile and none of the older one (`LegacyId = {}`), kills | a report handed out is retained with its receipt, no other receipt stands in a report's place; both kinds of command together implement `AtMostOnceRelease` |
| `bounded` | limit of 1 byte and up to 2 written, pipes and chunks of 2, a channel of 1 event, deadlines 0 and 1, both tree modes, fairness | exact output, nothing left running, no kill after the one that follows the reap; the run ends and readers end |
| `mcp_tasks` | 3 tasks, 2 retained, 1 slot, clock 0..2, fairness | exact slots, abandoned tools are cancelled, answers are final; requests are answered and slots come back |
| `feedback` | 4 packages (one invalid, one of another profile), 1 or 2 attempts, a budget of 4 half seconds, clock 0..5 | only accepted packages leave, the receipt is for the reported package, success is complete, external work overruns the budget only by the delay of its start |
| `policy_deployment` | 3 candidates, 2 profiles, 2 canaries and reports, 3 humans, 3 verifications, 2 rollbacks, clock 0..2 | no revision considered twice, incidents are whole, a rollback restores what the failed promotion replaced |
| `policy_lifecycle` | 3 candidates, the last with a profile of its own, 2 canaries, 3 reports, a fleet of one, 4 humans, 4 incidents, 2 suspensions, 2 remediations, the clock at 0 | derived records are the history; promotions past a suspension are cleared by monitoring of the whole fleet and by an independent quorum |

Each module also defines its type invariant; `TypeOK` of the ledger is checked
in `release`, the others can be added to any configuration.

Why the bounds are enough to be interesting. Two processes give every race of
the protocols, which are pairwise (winner and loser of one `linkat`). A process
runs any number of commands one after the other, so a third actor that acts
later, after a kill, is already there. Two markers let a second one take a
challenge whose first marker was lost with the power; their windows start and
end at different seconds so that both ends are crossed. Two nonces give two
intents that compete for one key. A byte over the limit, a full pipe and a full
channel all happen in `bounded`; both limits of the server are reached in
`mcp_tasks`, and a task is created, expires and is removed while its tool still
runs. Three candidates let a revision be promoted, rolled back and followed by
two others; two of them share a profile, so that a canary can be used twice.
Four humans are the fewest with which a suspension can be remediated, and a
fleet of one project is the only one that can be: a remediation asks for the whole
fleet and a canary is allowed a tenth of it, rounded up (`MCPolicyRemediates`
has the larger fleet). In `policy_lifecycle` the last revision has another profile
than the two before it, so a promotion past a suspension goes through a canary of
its own as well as through one it shares. In `feedback` the clock passes the
budget by a tick, so that every call can start late and overrun. One slot is
enough in `mcp_tasks` for a lost or doubled release to show; two overlapping
tools are in `MCMcpOverlap`. The reconcile half of `SubmissionOutputStable` is not
in `release` but in its theorem. The
clock of `policy_deployment` runs far enough for a window of one tick to end
while its document is still in use. In `policy_lifecycle` the clock stands still:
every document is in its window and no order of the ledger is refused for its
times, so more orders happen than with a clock that ticks
(`MCPolicyLifecycleClock`).
Symmetry is declared for processes, nonces, signers and projects in runs
without liveness.

Deadlock is checked in `anchored`, `release` and `monotonic`. Elsewhere the
system may have nothing left to do: the windows are over and nothing was
reserved, there is no intent to reconcile, the supervised run or the command
has ended, the server has exited, or the bounds on documents are used up.

Fairness. `ReleaseLedger!FairSpec`: weak fairness of `Continue(p)` for every
process while the power stays on; a running command consists of bounded local
system calls and one network call under a global timeout. Starting commands,
ticks and kills are not fair. `BoundedProcess!FairSpec`: the supervisor, the
readers and the clock; nothing is assumed of the child, its descendant or the
caller. `McpTasks!FairSpec`: the server thread while it serves a request, the
clock, the monitors, and `EndWorker`, which is a worker whose tool has ended or
was cancelled (`BoundedProcess!RunEnds` is why a cancelled tool ends). A tool
that nobody cancels may run for ever, and clients may stay silent.

### Finding

`monotonic_legacy`: the check for an older observation of the id is made before
the GET. An older reconcile that records its receipt during the GET leaves a
terminal head whose repair fails for good, although the documentation says that
every later reconciliation returns locally.

### Further instances

These configurations are not among the runs; each answers one question with the
same modules (`tlc -config X.cfg <module>`).

| Configuration | Module | Result |
|---|---|---|
| `MCPolicyLifecycleClock` | `MCPolicyLifecycle` | both properties of the `policy_lifecycle` run with two reports and a clock that ticks: pass (1.7 M states) |
| `MCMcpOverlap` | `MCMcpTasks` | the safety properties with two slots and overlapping tools: pass (2.4 M states) |
| `MCAuthenticatedPost` | `MCAuthenticatedRelease` | authenticated and older submits with two nonces, two policies and power losses: one POST, on disk, results have intents; pass |
| `MCReconcilePower` | `MCReleaseLedger` | violates `OutputStable`: a replay publishes a record it can see, not one it knows to be on disk (`main.rs` 11243); after a power loss the id is answered afresh, against `docs/SIGNED_FACTORY_RELEASE_SUBMISSION.md` 95 |
| `MCMonotonicPower` | `MCMonotonicRelease` | violates `NoPublishedEquivocation`: a state entry found in place is accepted without being synchronized (`main.rs` 12150) |
| `MCAuthenticatedLegacy` | `MCAuthenticatedRelease` | violates `ReportIsReplayable`: the race of the finding, for authenticated reports (`main.rs` 11889) |
| `MCPolicyRestore` | `MCPolicyDeployment` | violates `RestoresPrePromotion`: the chain does not hear of a production rollback (`policy_deployment.rs` 111), so a second one can put a failed revision in force again; `RestoresReplaced` is what does hold |
| `MCPolicyRecoverable` | `MCPolicyDeployment` | violates `RollbackIsRecoverable`: after a canary rollback there is no state that could be verified (`policy_deployment_verification.rs` 68), so the recovery of the next production rollback is never accepted |
| `MCPolicyCounted` | `MCPolicyDeployment` | violates `RollbackCountedOnce`: the ledger compares closures and recoveries, not rollbacks (`policy_incident_ledger.rs` 160) |
| `MCPolicyRemediates` | `MCPolicyLifecycle` | violates `CleanCanaryRemediates`: a remediation asks for monitoring of every project (`policy_remediation.rs` 533), a canary covers a tenth of them, so no fleet of two or more projects can be remediated |
| `MCPolicySuffices` | `MCPolicyLifecycle` | violates `LedgerSuffices`: enforcement asks for the remediation of a superseded suspension too (`policy_suspension.rs` 298), which the ledger refuses to record (`policy_lifecycle.rs` 460) |

The two power instances need a kill or failed sync followed by a loss of power,
the legacy ones two generations of commands on one id.

## 4. Proofs

Eight modules hold the theorems, one beside each component they are about.
TLAPS proves them for every value of the constants: every set of processes,
names, records, markers, nonces, ids, adapter states, tasks, packages, projects
and signers, every limit, window and capacity. The assumptions are the named
ASSUMEs of the modules and nothing else:

| Assumption | What it says |
|---|---|
| `AbsentAssumption`, `LedgerAssumption` | `Absent` is not a record, a name, a marker, an id or a nonce; the ledger's names and records are among `Name` and `Bytes` |
| `TornAssumption`, `DisjointNames` | a torn file is not a complete record; temporary and final names are different names |
| `IdAssumption`, `AuthAssumption` | the ids of both kinds of reconcile are reconciliation ids; reports and their names are among `Bytes` and `Name`; `Absent` is not a policy |
| `WindowAssumption` | windows and the clock bound are natural numbers; `unknown` is a status that is not terminal |
| `StateAssumption`, `MonotonicAssumption` | sequences are bounded and only sequence 0 has no predecessor; names and records as above |
| `ProcessAssumption` | limits and times are natural numbers; pipe, chunk and channel are not empty |
| `TaskAssumption` | finitely many tasks; the limits and TTLs are positive |
| `FeedbackAssumption` | `None` is not a package or a receipt; timeouts, budget and attempt limits are positive |
| `CanaryAssumption`, `LifecycleAssumption` | finite, non-empty fleet; finite set of signers; the authorization window is positive; the suspension threshold is in 2..100 |

Two theorems assume more, in their statements: `TerminalHeadsAreReplayable`
that no older reconcile shares an id (`LegacyId = {}`), and
`ReportsAreReplayable` that none shares one with an authenticated reconcile
(`LegacyId \cap AuthId = {}`). TLC refutes both without it (`monotonic_legacy`,
`MCAuthenticatedLegacy`).

Every inductive invariant below was checked by TLC before it was proved: `LInv`,
`WInv` and `RInv` on the `release` and `reconcile` instances; `QInv`, `KInv` and
`UInv` on `MCAuthenticated` (2.6 M states), on `MCAuthenticatedPost` (1.3 M) and,
with losses of power, on a variant of `MCAuthenticated` with the one status
`unknown` (2.7 M), `HandedOut` on the first of these; `HInv` of the
monotonic state to the end on `MCMonotonicLegacy` and `MCMonotonicPower` and for
part of the state space of the two larger monotonic instances; the others on the
instance of their run (for `BInv` with the witness functions of `Ledger` taken
from 0..6).

**`NoReplacePublicationProofs`**: `PubInv` is inductive. The properties alone
are not: that an outcome is truthful depends on what the publication installed
earlier, so `InstalledIsVisible` follows it from `linkat` on, `BusyHasRecord`
says what it carries and `DurableIsVisible` that only visible names are
durable. From it: `PubTypeCorrect`, `OutcomesAreTruthful`, `OneWinnerPerName`,
and the action property `RecordsStayImmutable`. The lemmas are per action, so
that the two ledgers' proofs cite them for their own steps.

**`AnchoredPublicationProofs`**: `AInv` is inductive. That no name leads to a torn
file is not, because a file is torn while it is written. `Private` says that no
final name leads to the file of a call before its `linkat`, `OwnFile` that two
calls never work on one file (so the reuse of inodes is harmless), `Filled` that
what `linkat` gives a name to is complete and synchronized, and `Complete` that
this stays so for every final name, visible or on disk. `PowerLoss` is the step
that needs all of it: it keeps any mixture of seen and synchronized entries and
data. From it: `TypeCorrect`, `NamesAreComplete` (`NoTornRecord`) and
`CallsImplementPublication` (`ImplementsPublication`), action by action:
`CreateTemp` is the contract's `Stage`, `WriteAll`, `SyncFile` and the caller's
`after_install` stutter, the unlinking of the temporary name ends the contract's
`AfterInstall`, the other calls map to their namesakes, and a power loss to the
loss of exactly the names that did not survive. So what is proved of the contract
holds of the system calls.

**`ReleaseLedgerProofs`** has three layers about the older commands, each
inductive relative to the one before, and three about both kinds together.

- `LInv`, the right to POST. `AtMostOnePost` speaks of POSTs already made, so
  the invariant follows the right to make one: a submit *holds* it from the
  `linkat` of its intent to its POST (`Holds`). `OneHolder`: two submits never
  hold it together, because `linkat` needs a free name and the holder's intent
  stays visible. `Ready`: from `CommittedDurable` on, the marker is durable too,
  because the directory sync that made the intent durable covers everything
  visible. `Spent`: after the POST both are durable for good and nobody holds
  the right. `Shape` ties each `pc` to the locals and the publication. From it:
  `TypeCorrect`, `AtMostOnePackage` (`AtMostOnePost`), `PostsAreOnDisk`
  (`PostedIsOnDisk`), and the refinement `LedgerImplementsRelease`: a `linkat`
  of the marker is `Reserve`, a power loss that takes it is `Forget` (possible
  only while nothing was sent, as a sent package has a durable marker), the POST
  is `Send`, and everything else stutters.
- `WInv`, the windows. The clock is sampled by a guard and the name installed
  some steps later, so the invariant carries the sample: `Dated` says that
  nothing was installed in the future, `NotEarly` that a marker is not installed
  before its window opens, `HolderInWindow` that the holder's intent is no older
  than the marker and, once the last guard has passed, not past the window, and
  `NoSecondAdmission` that after one success no reserve is past its `linkat`.
  From it: `AdmissionIsUnique` (`AdmittedOnce`) and `PostsAreInWindow` (`PostedInWindow`).
- `RInv`, the results. `OneOwes`: at most one submit owes the record of an answer;
  `OwedIsOpen`: until it installs that record none is in the ledger or handed
  out; `ResultsArePosted`: a result belongs to a POST, and what was handed out
  is what is there; `Announced`: a submit works for the intent on disk.
  From it: `SubmissionOutputsAgree` (`SubmissionOutputStable`),
  `ResultsHaveIntents`, and, under `PoweredSpec`, `OutputsAreRecorded`
  (`OutputIsRecorded`), which a loss of power would break.
- `QInv`, both kinds of command in one ledger. `LInv` is kept by the older steps
  alone; `QInv` adds `ReportKinds`, `AuthShape` and `Seen` (what an authenticated
  command has read and will find again), and `AuthOneHolder`, `AuthReady` and
  `AuthSpent`, which make the right to a POST one right for both kinds of submit:
  an older submit can become the holder only by the `linkat` of an intent that an
  authenticated holder would already have in place, and the reverse. Most steps of
  an authenticated command touch neither the ledger nor the right; `AuthMoves`
  states this once, and the steps are shown to be such moves. From it:
  `AuthTypeCorrect`, `AuthAtMostOnePackage` (`AtMostOnePost`, `PostedIsOnDisk`)
  and `AuthImplementsRelease`, the refinement of `AtMostOnceRelease` by the
  combined system. With `HandedOut`, under `AuthPoweredSpec`,
  `ShownReportsAreRetained` (`ShownIsRetained`): a loss of power may take a report
  that was already shown.
- `KInv`, the answers. One process at most owes the record of the answer to a
  POST, and its kind decides whether a report comes first (`Answers`); reports
  and results are about the intent on disk (`ReportHasIntent`, `Announced`).
  From it `AuthResultsHaveIntents` (`ResultHasIntent`), which `RInv` proves for
  the older commands alone.
- `UInv`, the receipts in the reports' places. `Unanswered`: as long as there is
  no report of what a command asks for, there is no receipt either, which is what
  the check before the GET, or the POST being the only one, establishes;
  `OlderId`: an older reconcile keeps to the ids it is used with. A loss of power
  may take a report and leave its receipt, but then nobody is asking any more, and
  the next reconcile of the id refuses. From it `ReportsAreReplayable`
  (`ReportIsReplayable`).

**`MonotonicReleaseProofs`**: `HInv` is inductive. `Backed(S)` says that every
record of a set of names has in that set the records it relies on: a report the
entry of the head it was requested with, a state entry its report and all
earlier entries, a receipt its report. `Journalled` asserts it not for the
visible names alone but for every set a loss of power can leave (`Survivors`),
which is what makes `PowerLoss` preserve it. `EntryKinds` says what each name can
hold, `Asks`, `Observes` and `Repairs` what a command knows at each `pc`,
`PostRight` follows the right to POST as in the ledger, and `OlderSubmit` covers
a package the older command has sent. That the loader finds a head needs a
greatest sequence, which `WFMin` of the library gives. From it: `TypeCorrect`,
`SubmissionIsPostedOnce` (`PostedOnce`), `TheChainLoads` (`ChainAlwaysLoads`)
and `PublishedStatesAreRetained` (`PublishedIsRetained`).
`EquivocationIsNotPublished` (`NoPublishedEquivocation`) adds `ShownInv` and
holds of `PoweredSpec`; `MCMonotonicPower` shows why. `TerminalHeadsAreReplayable`
(`TerminalIsReplayable`) assumes `LegacyId = {}`, as does the
`monotonic_reconcile` run: with an id shared with the older command TLC refutes it (the
finding).

**`BoundedProcessProofs`**: `BInv` is `TypeInv`, `TreeInv` and `ByteInv`.
`TreeInv` relates what the supervisor knows (`status`, `treeKilled`, where it
is) to the process group; from it `TreeIsTerminated` (`NothingLeftRunning`) and
`NoForeignKillLater` (`NoLateKill`). `ByteInv` accounts for every byte: it is in the
pipe, in the event a reader is sending, in the channel or in the capture. The
sum over the channel is not computed, which would need induction, but exhibited
as a function of the position in the channel (`Ledger`); receiving and sending
shift or extend that function. `Order` says that the end of a stream is its last
event. From it `CapturesAreExact` (`OutputIsExact`).

**`McpTasksProofs`**: `MInv`. `Serving` fixes the task of the request being
served, `Known` says that an id is new to everybody when it is given out, so that
inserting a record overwrites none, and `Ended` that a record ends once, with
which result and with which worker left. From it `SlotCounterIsExact`
(`SlotsAreExact`, by the cardinality of the set of running workers),
`AbandonedToolsAreCancelled` (`AbandonedIsCancelled`) and the action property
`AnswersStayFinal` (`AnswersAreFinal`).

**`FactoryFeedbackLoopProofs`**: `FInv`. `Current` and `Repaired`: the bytes the
loop holds were accepted, and nothing in the environment writes them;
`ReceiptIsCurrent`: a receipt is dropped in the step that replaces its package;
`Published`: what each written output contains; `CallInBudget`: at every step
between a reading of the clock and the end of the call, what is left is within the
deadline but for the delay counted so far. From it `OnlyAcceptedPackagesLeave`,
`ReceiptsMatchPackages`, `SuccessMeansComplete` and
`OverrunsAreBounded` (`OverrunIsBounded`).

**`PolicyProofs`**, deployment: `DInv` is `TypeOK`, `ChainInv`, `Evidence` and
`InForce`. Each document was checked only against the one it names, so `Evidence`
carries what was checked along the references, from the ledger back to the
chain; `ChainInv` says that revisions rise along the chain; `InForce` that the
fleet runs the latest active revision as long as nothing was rolled back in
production. From it `RevisionsConsideredOnce`, `IncidentsAreWhole` and
`RollbackRestoresReplaced`.

**`PolicyProofs`**, lifecycle: `CInv` is `LifecycleTypeOK`, `Binding` (what a
remediation's checks saw), `SeenPrefix` (an advance saw a prefix of the ledger)
and the property itself: `PromotionsAreCleared` (`PromotionIsCleared`).
`HInv` adds the records `derive_records` has for a ledger of any length:
`History` orders the entries, `Records` says which record every suspension has.
`DeriveRecords` is a recursive function; that it satisfies its own equation is
not taken for granted but follows from the least prefix that would have no
derivation (`DerivationExists`, with `WFMin` of the library), and `DeriveAppend`
shows that an appended entry is one more step of the recursion, so that one
step per kind of entry remains. From it
`LedgerRecordsMatchHistory` (`RecordsMatchHistory`).

Every invariant and action property of the runs is stated by a theorem, and so
are the three refinements. Only model-checked are the liveness properties
(`RunEnds`, `ReadersEnd`, `RequestsAnswered`, `SlotsReturn`, `CommandEnds`):
fairness and ENABLED are beyond the prover. The violations (`monotonic_legacy`
and the further instances) are TLC's by nature.

No module uses RECURSIVE.

## 5. Not modelled, and the plan

The repository has about 257,000 lines in 121 implementation files, and the
definitions here stand for a few percent of them. Most of the rest is not a
matter for a state machine: schemas, argument and report formats, and the
field-by-field verification of evidence make up most of `main.rs` (51,000
lines), `mcp.rs` (22,000) and the witness, gossip and registry files, which
come in three parallel families that differ in the documents they bind; the
core crate is geometry. What is modelled is chosen by what can go wrong between
steps and actors, not by lines.

In this order:

1. Lifecycle checkpoints, key rotation and witness quorums
   (`policy_lifecycle_checkpoint.rs`, `crates/pcbex-kicad/src/transparency.rs`),
   with stale and forked baselines of the policy chains.
2. Gossip and registries over abstract logs, once for the three families:
   accepted views never fork.
3. The budget and stall logic of `routing_convergence.rs`, the repair loop of
   the Python agent, and the replay of the deterministic pipeline.
4. The checks of a response (`receipt_from_response`,
   `authenticate_captured_response`) as operators: which failure is reported
   when several hold, against a reference definition.
5. `persist_replace` and `lock_regular_file_exclusive` in
   `AnchoredPublication`, with their callers in the manufacturing package; the
   fabrication and procurement reservations, which have the shape of `reserve`.
6. The approval log, its quorum and waivers.
7. Proofs: the same layers for what items 1 to 6 add; the monotonic commands
   together with the authenticated ones, whose records they may find under a
   shared id.

Left out for good: parsers and writers of KiCad documents, geometry, ZIP and
JSON encodings, cryptography (taken as ideal), argument parsing, the MCP
framing, shell scripts and workflows, and the non-Unix fallbacks of
`anchored_io.rs`, which refuse to publish.

## 6. Running

    tlc -workers 2 -config MCRelease.cfg MCReleaseLedger
    tlapm ReleaseLedgerProofs.tla

`PROJECT.json` lists every run with its module, configuration and expected
result, every property with a mutant of the model that breaks it, the source
lines each definition models, and the theorems.
