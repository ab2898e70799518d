------------------------- MODULE NoReplacePublication -------------------------
(***************************************************************************)
(* What one pinned ledger directory promises to the commands that publish  *)
(* immutable records in it (crates/pcbex-cli/src/anchored_io.rs).          *)
(*                                                                         *)
(* A publication is the call persist_no_replace_with_guards: a fully       *)
(* synchronized private temporary file is given its final name by linkat,  *)
(* between a before-install and an after-install guard supplied by the     *)
(* caller, and the directory is synchronized afterwards.  The temporary    *)
(* file and its inode are below this module (see AnchoredPublication).     *)
(*                                                                         *)
(* entry[n] is what a reader of name n sees; durable is the set of names   *)
(* that a loss of power cannot take away.  Any process may be killed at    *)
(* any point: what it installed stays visible, and nobody synchronizes the *)
(* directory on its behalf.                                                *)
(***************************************************************************)
EXTENDS Naturals

CONSTANTS Proc,      \* processes (pcbex invocations) sharing the directory
          Name,      \* final names
          Bytes,     \* complete record contents
          Absent     \* "no such entry"

ASSUME AbsentAssumption == Absent \notin Bytes /\ Absent \notin Name

VARIABLES entry,     \* visible content of each final name
          durable,   \* names that survive a loss of power
          pub        \* the publication each process has under way

pubVars == <<entry, durable, pub>>

(* NoReplacePublicationOutcome, and the io::Error of a publication that     *)
(* failed before linkat installed anything.                                *)
Outcome == {"CommittedDurable", "AlreadyExists",
            "CommittedButCompletionFailed", "Failed"}

PubStep == {"idle", "staged", "installing", "installed", "syncing"} \cup Outcome

Publication == [step  : PubStep,
                name  : Name \cup {Absent},
                bytes : Bytes \cup {Absent},
                clean : BOOLEAN]   \* no post-install error collected so far

IdlePub == [step |-> "idle", name |-> Absent, bytes |-> Absent, clean |-> TRUE]

Visible == {n \in Name : entry[n] # Absent}

PubInit ==
  /\ entry = [n \in Name |-> Absent]
  /\ durable = {}
  /\ pub = [p \in Proc |-> IdlePub]
-----------------------------------------------------------------------------
(* create_temp, write_all, flush, chmod and sync_all of the temporary.     *)
StageAs(p, n, b) ==
  pub' = [pub EXCEPT ![p] = [step |-> "staged", name |-> n, bytes |-> b, clean |-> TRUE]]

Stage(p, n, b) ==
  /\ pub[p].step = "idle"
  /\ StageAs(p, n, b)
  /\ UNCHANGED <<entry, durable>>

(* before_install()?: an error leaves no final entry.                      *)
BeforeInstall(p, ok) ==
  /\ pub[p].step = "staged"
  /\ pub' = [pub EXCEPT ![p].step = IF ok THEN "installing" ELSE "Failed"]
  /\ UNCHANGED <<entry, durable>>

(* linkat installs the final name, or reports that it is taken.            *)
Linkat(p) ==
  /\ pub[p].step = "installing"
  /\ IF entry[pub[p].name] = Absent
       THEN /\ entry' = [entry EXCEPT ![pub[p].name] = pub[p].bytes]
            /\ pub' = [pub EXCEPT ![p].step = "installed"]
       ELSE /\ pub' = [pub EXCEPT ![p].step = "AlreadyExists"]
            /\ UNCHANGED entry
  /\ UNCHANGED durable

(* linkat fails for another reason, and the statat that follows does not    *)
(* find the name or fails as well.                                         *)
LinkatError(p) ==
  /\ pub[p].step = "installing"
  /\ pub' = [pub EXCEPT ![p].step = "Failed"]
  /\ UNCHANGED <<entry, durable>>

(* Mutant: a failed guard takes the installed name away again.             *)
AfterInstallRollsBack(p, ok) ==
  /\ pub[p].step = "installed"
  /\ pub' = [pub EXCEPT ![p].step = "syncing", ![p].clean = ok]
  /\ entry' = [entry EXCEPT ![pub[p].name] = IF ok THEN @ ELSE Absent]
  /\ UNCHANGED durable

(* after_install, ensure_pinned and the unlink of the temporary name: best *)
(* effort, an error is only remembered.                                    *)
AfterInstall(p, ok) ==
  /\ pub[p].step = "installed"
  /\ pub' = [pub EXCEPT ![p].step = "syncing", ![p].clean = ok]
  /\ UNCHANGED <<entry, durable>>

(* directory.sync_all() makes every visible name durable, whoever linked   *)
(* it; the outcome is durable only if nothing failed since the install.    *)
SyncDirectory(p) ==
  /\ pub[p].step = "syncing"
  /\ durable' = Visible
  /\ pub' = [pub EXCEPT ![p].step = IF pub[p].clean THEN "CommittedDurable"
                                    ELSE "CommittedButCompletionFailed"]
  /\ UNCHANGED entry

(* Mutant: the error of the directory synchronization is dropped.          *)
SyncDirectoryErrorIgnored(p) ==
  /\ pub[p].step = "syncing"
  /\ pub' = [pub EXCEPT ![p].step = IF pub[p].clean THEN "CommittedDurable"
                                    ELSE "CommittedButCompletionFailed"]
  /\ UNCHANGED <<entry, durable>>

(* An error of the synchronization itself.                                 *)
SyncDirectoryError(p) ==
  /\ pub[p].step = "syncing"
  /\ pub' = [pub EXCEPT ![p].step = "CommittedButCompletionFailed"]
  /\ UNCHANGED <<entry, durable>>

(* The caller has read the outcome.                                        *)
Return(p) ==
  /\ pub[p].step \in Outcome
  /\ pub' = [pub EXCEPT ![p] = IdlePub]
  /\ UNCHANGED <<entry, durable>>

(* The process is killed; its temporary name may stay behind, its final    *)
(* name is never removed.                                                  *)
Kill(p) ==
  /\ pub[p].step # "idle"
  /\ pub' = [pub EXCEPT ![p] = IdlePub]
  /\ UNCHANGED <<entry, durable>>

(* Every process dies and any subset of the unsynchronized names is lost.  *)
PowerLossTo(kept) ==
  /\ entry' = [n \in Name |-> IF n \in kept THEN entry[n] ELSE Absent]
  /\ durable' = kept
  /\ pub' = [p \in Proc |-> IdlePub]

PowerLoss ==
  \E lost \in SUBSET (Visible \ durable) : PowerLossTo(Visible \ lost)

(* The same publication in two steps, for callers whose guards only read   *)
(* records that cannot change: the guard before with linkat, and the guard *)
(* after with the synchronization.                                         *)
Install(p, ok) ==
  /\ pub[p].step = "staged"
  /\ IF ok /\ entry[pub[p].name] = Absent
       THEN /\ entry' = [entry EXCEPT ![pub[p].name] = pub[p].bytes]
            /\ pub' = [pub EXCEPT ![p].step = "installed"]
       ELSE /\ pub' = [pub EXCEPT ![p].step = IF ok THEN "AlreadyExists" ELSE "Failed"]
            /\ UNCHANGED entry
  /\ UNCHANGED durable

Complete(p, ok) ==
  /\ pub[p].step = "installed"
  /\ \/ /\ durable' = Visible
        /\ pub' = [pub EXCEPT ![p].step = IF ok THEN "CommittedDurable"
                                          ELSE "CommittedButCompletionFailed"]
     \/ /\ pub' = [pub EXCEPT ![p].step = "CommittedButCompletionFailed"]
        /\ UNCHANGED durable
  /\ UNCHANGED entry

PublicationStep(p, ok) ==
  \/ BeforeInstall(p, ok)
  \/ Linkat(p)
  \/ LinkatError(p)
  \/ AfterInstall(p, ok)
  \/ SyncDirectory(p)
  \/ SyncDirectoryError(p)

PubNext ==
  \/ \E p \in Proc :
       \/ \E n \in Name, b \in Bytes : Stage(p, n, b)
       \/ \E ok \in BOOLEAN : PublicationStep(p, ok)
       \/ Return(p)
       \/ Kill(p)
  \/ PowerLoss

PubSpec == PubInit /\ [][PubNext]_pubVars
-----------------------------------------------------------------------------
(* Type invariant of the directory and of the publications under way.      *)
PubTypeOK ==
  /\ entry \in [Name -> Bytes \cup {Absent}]
  /\ durable \subseteq Name
  /\ pub \in [Proc -> Publication]

Installed == {"installed", "syncing", "CommittedDurable", "CommittedButCompletionFailed"}

(* What each outcome lets the caller conclude, at any later moment before   *)
(* it acts on it and whatever the other processes do meanwhile: after       *)
(* CommittedDurable the exact bytes are on disk, after AlreadyExists some   *)
(* record is there, and after CommittedButCompletionFailed the caller's own *)
(* record is present (anchored_io.rs, "Callers must treat the final marker  *)
(* as present").                                                            *)
OutcomeIsTruthful ==
  \A p \in Proc :
    LET q == pub[p] IN
    /\ q.step = "CommittedDurable" => q.name \in durable /\ entry[q.name] = q.bytes
    /\ q.step = "AlreadyExists" => entry[q.name] # Absent
    /\ q.step = "CommittedButCompletionFailed" => entry[q.name] = q.bytes

(* Two publications of one name never both pass linkat, so at most one      *)
(* caller is told that it committed (test                                   *)
(* no_replace_has_exactly_one_concurrent_winner).                           *)
OneWinner ==
  \A p, q \in Proc :
    p # q /\ pub[p].step \in Installed /\ pub[q].step \in Installed
      => pub[p].name # pub[q].name

(* What a step does to the records already there.                          *)
RecordsKept ==
  \A n \in Name :
    /\ n \in durable => n \in durable' /\ entry'[n] = entry[n]
    /\ entry[n] # Absent => entry'[n] \in {entry[n], Absent}
    /\ entry[n] # Absent /\ entry'[n] = Absent => pub' = [p \in Proc |-> IdlePub]

(* A record never changes: a name keeps its bytes until a loss of power,    *)
(* and a durable name keeps them for ever ("the final entry is never        *)
(* removed").                                                               *)
RecordsAreImmutable == [][RecordsKept]_pubVars
=============================================================================
