------------------------- MODULE AnchoredPublication -------------------------
(***************************************************************************)
(* persist_no_replace_with_guards at the grain of its system calls         *)
(* (crates/pcbex-cli/src/anchored_io.rs): the temporary file that          *)
(* create_temp opens with O_EXCL, its data and the inode both names share  *)
(* after linkat, the Drop of AnchoredTempFile, and the two things a loss   *)
(* of power can take: directory entries not yet synchronized and file data *)
(* not yet synchronized.  It is shown to implement NoReplacePublication.   *)
(***************************************************************************)
EXTENDS Naturals

CONSTANTS Proc, Name, Bytes, Absent,
          Temp,       \* private temporary names
          Inode,      \* files the directory can hold at once
          NoInode,
          Torn        \* content of a file whose data is not all on disk

ASSUME TornAssumption == Torn \notin Bytes /\ Absent \notin Bytes \cup {Torn}
ASSUME DisjointNames == Temp \cap Name = {} /\ NoInode \notin Inode

VARIABLES dir,      \* the directory as processes see it
          ddir,     \* the directory as last synchronized
          data,     \* file contents as processes see them
          ddata,    \* file contents known to be on disk
          job       \* each process's call and its AnchoredTempFile

vars == <<dir, ddir, data, ddata, job>>

Entry == Name \cup Temp
Content == Bytes \cup {Torn}

JobStep == {"idle", "writing", "written", "staged", "installing", "installed", "unlinking",
            "syncing", "CommittedDurable", "AlreadyExists",
            "CommittedButCompletionFailed", "Failed"}

IdleJob == [step |-> "idle", temp |-> Absent, inode |-> NoInode,
            name |-> Absent, bytes |-> Absent, clean |-> TRUE]

Init ==
  /\ dir = [e \in Entry |-> NoInode]
  /\ ddir = dir
  /\ data = [i \in Inode |-> Torn]
  /\ ddata = data
  /\ job = [p \in Proc |-> IdleJob]

Free == {i \in Inode : /\ \A e \in Entry : dir[e] # i /\ ddir[e] # i
                       /\ \A p \in Proc : job[p].inode # i}

Step(p, from, to) ==
  /\ job[p].step = from
  /\ job' = [job EXCEPT ![p].step = to]

UnlinkedTemp(p) == [dir EXCEPT ![job[p].temp] = NoInode]

(* Drop for AnchoredTempFile: unless it is committed, try to unlink the    *)
(* temporary name and ignore an error.                                     *)
DropTemp(p) == dir' \in {dir, UnlinkedTemp(p)}

(* create_temp: openat with O_CREAT | O_EXCL under a random name.          *)
CreateTemp(p, n, b) ==
  /\ job[p].step = "idle"
  /\ \E t \in Temp, i \in Free :
       /\ dir[t] = NoInode
       /\ dir' = [dir EXCEPT ![t] = i]
       /\ data' = [data EXCEPT ![i] = Torn]
       /\ ddata' = [ddata EXCEPT ![i] = Torn]
       /\ job' = [job EXCEPT ![p] = [step |-> "writing", temp |-> t, inode |-> i,
                                     name |-> n, bytes |-> b, clean |-> TRUE]]
  /\ UNCHANGED ddir

(* write_all and flush.                                                    *)
WriteAll(p) ==
  /\ Step(p, "writing", "written")
  /\ data' = [data EXCEPT ![job[p].inode] = job[p].bytes]
  /\ UNCHANGED <<dir, ddir, ddata>>

(* Mutant: the file is not synchronized before it is linked.               *)
SyncFileSkipped(p) ==
  /\ Step(p, "written", "staged")
  /\ UNCHANGED <<dir, ddir, data, ddata>>

(* temporary.as_file().sync_all().                                         *)
SyncFile(p) ==
  /\ Step(p, "written", "staged")
  /\ ddata' = [ddata EXCEPT ![job[p].inode] = data[job[p].inode]]
  /\ UNCHANGED <<dir, ddir, data>>

(* before_install()?, the last check before linkat.                        *)
BeforeInstall(p) ==
  /\ Step(p, "staged", "installing")
  /\ UNCHANGED <<dir, ddir, data, ddata>>

(* Any error before linkat installs the name: a failed write, flush, chmod,*)
(* sync, pinned-directory check or guard, or linkat and its statat.        *)
FailBeforeInstall(p) ==
  /\ job[p].step \in {"writing", "written", "staged", "installing"}
  /\ job' = [job EXCEPT ![p].step = "Failed"]
  /\ UNCHANGED <<dir, ddir, data, ddata>>

(* linkat(temporary, destination).                                         *)
Linkat(p) ==
  /\ Step(p, "installing", "installed")
  /\ dir[job[p].name] = NoInode
  /\ dir' = [dir EXCEPT ![job[p].name] = job[p].inode]
  /\ UNCHANGED <<ddir, data, ddata>>

LinkatExists(p) ==
  /\ Step(p, "installing", "AlreadyExists")
  /\ dir[job[p].name] # NoInode
  /\ UNCHANGED <<dir, ddir, data, ddata>>

(* Mutant: a failed guard takes the installed name away again.             *)
AfterInstallRollsBack(p, ok) ==
  /\ job[p].step = "installed"
  /\ job' = [job EXCEPT ![p].step = "unlinking", ![p].clean = ok]
  /\ dir' = [dir EXCEPT ![job[p].name] = IF ok THEN @ ELSE NoInode]
  /\ UNCHANGED <<ddir, data, ddata>>

(* after_install and ensure_pinned: an error is collected, not raised.     *)
AfterInstall(p, ok) ==
  /\ job[p].step = "installed"
  /\ job' = [job EXCEPT ![p].step = "unlinking", ![p].clean = ok]
  /\ UNCHANGED <<dir, ddir, data, ddata>>

(* unlinkat(temporary name): a failure leaves the private alias behind.    *)
UnlinkTemp(p) ==
  /\ job[p].step = "unlinking"
  /\ dir' = UnlinkedTemp(p)
  /\ job' = [job EXCEPT ![p].step = "syncing", ![p].temp = Absent]
  /\ UNCHANGED <<ddir, data, ddata>>

UnlinkTempError(p) ==
  /\ job[p].step = "unlinking"
  /\ job' = [job EXCEPT ![p].step = "syncing", ![p].clean = FALSE]
  /\ UNCHANGED <<dir, ddir, data, ddata>>

(* directory.sync_all() and the outcome.                                   *)
SyncDirectory(p) ==
  /\ job[p].step = "syncing"
  /\ ddir' = dir
  /\ job' = [job EXCEPT ![p].step = IF job[p].clean THEN "CommittedDurable"
                                    ELSE "CommittedButCompletionFailed"]
  /\ UNCHANGED <<dir, data, ddata>>

SyncDirectoryError(p) ==
  /\ Step(p, "syncing", "CommittedButCompletionFailed")
  /\ UNCHANGED <<dir, ddir, data, ddata>>

(* The caller gets the outcome and the AnchoredTempFile is dropped.        *)
Return(p) ==
  /\ job[p].step \in {"CommittedDurable", "AlreadyExists",
                      "CommittedButCompletionFailed", "Failed"}
  /\ IF job[p].temp = Absent THEN UNCHANGED dir ELSE DropTemp(p)
  /\ job' = [job EXCEPT ![p] = IdleJob]
  /\ UNCHANGED <<ddir, data, ddata>>

(* SIGKILL: no Drop runs, the temporary name stays.                        *)
Kill(p) ==
  /\ job[p].step # "idle"
  /\ job' = [job EXCEPT ![p] = IdleJob]
  /\ UNCHANGED <<dir, ddir, data, ddata>>

(* Each unsynchronized directory entry is either as it was last seen or as *)
(* it was last synchronized, and so is the data of each file.              *)
PowerLoss ==
  \E seen \in SUBSET {e \in Entry : dir[e] # ddir[e]},
     flushed \in SUBSET {i \in Inode : data[i] # ddata[i]} :
    /\ dir' = [e \in Entry |-> IF e \in seen THEN dir[e] ELSE ddir[e]]
    /\ ddir' = dir'
    /\ data' = [i \in Inode |-> IF i \in flushed THEN data[i] ELSE ddata[i]]
    /\ ddata' = data'
    /\ job' = [p \in Proc |-> IdleJob]

PersistNoReplace(p) ==
  \/ WriteAll(p) \/ SyncFile(p) \/ BeforeInstall(p) \/ FailBeforeInstall(p)
  \/ Linkat(p) \/ LinkatExists(p)
  \/ \E ok \in BOOLEAN : AfterInstall(p, ok)
  \/ UnlinkTemp(p) \/ UnlinkTempError(p)
  \/ SyncDirectory(p) \/ SyncDirectoryError(p)
  \/ Return(p)

Next ==
  \/ \E p \in Proc :
       \/ \E n \in Name, b \in Bytes : CreateTemp(p, n, b)
       \/ PersistNoReplace(p)
       \/ Kill(p)
  \/ PowerLoss

Spec == Init /\ [][Next]_vars
-----------------------------------------------------------------------------
(* Type invariant.                                                         *)
TypeOK ==
  /\ dir \in [Entry -> Inode \cup {NoInode}]
  /\ ddir \in [Entry -> Inode \cup {NoInode}]
  /\ data \in [Inode -> Content]
  /\ ddata \in [Inode -> Content]
  /\ job \in [Proc -> [step  : JobStep,
                       temp  : Temp \cup {Absent},
                       inode : Inode \cup {NoInode},
                       name  : Name \cup {Absent},
                       bytes : Bytes \cup {Absent},
                       clean : BOOLEAN]]

(* A final name never shows or keeps an incomplete record: whatever is      *)
(* reachable under it, now or after a loss of power, is a complete file     *)
(* (create_temp, sync_all, linkat in this order), and nobody is writing it  *)
(* through the private name it shares with it.  Two records never share a   *)
(* file.                                                                    *)
NoTornRecord ==
  \A n \in Name :
    /\ dir[n] # NoInode =>
         /\ data[dir[n]] \in Bytes /\ ddata[dir[n]] = data[dir[n]]
         /\ \A p \in Proc : job[p].step \in {"writing", "written"} => job[p].inode # dir[n]
         /\ \A m \in Name : m # n => dir[m] # dir[n]
    /\ ddir[n] # NoInode => dir[n] = ddir[n]
-----------------------------------------------------------------------------
(* Refinement mapping to NoReplacePublication.                             *)
entryBar == [n \in Name |-> IF dir[n] = NoInode THEN Absent ELSE data[dir[n]]]

durableBar == {n \in Name : ddir[n] # NoInode}

StepBar(s) == CASE s \in {"writing", "written"} -> "staged"
                [] s = "unlinking" -> "installed"
                [] OTHER -> s

pubBar == [p \in Proc |-> [step  |-> StepBar(job[p].step),
                           name  |-> job[p].name,
                           bytes |-> job[p].bytes,
                           clean |-> IF job[p].step = "unlinking" THEN TRUE
                                     ELSE job[p].clean]]

Abstract == INSTANCE NoReplacePublication
              WITH entry <- entryBar, durable <- durableBar, pub <- pubBar

(* The system calls implement the abstract publication: no record appears,  *)
(* disappears or becomes durable except as NoReplacePublication allows.     *)
ImplementsPublication == Abstract!PubSpec
=============================================================================
