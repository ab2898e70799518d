---------------------- MODULE AnchoredPublicationProofs ----------------------
(***************************************************************************)
(* Proofs about AnchoredPublication for every set of processes, names,     *)
(* temporary names, files and contents.                                    *)
(*                                                                         *)
(* A file is written only before it has a final name, and by the process   *)
(* that created it: until linkat no final name leads to the file of a call *)
(* (Private), two calls never work on one file (OwnFile), and what linkat  *)
(* gives a name to has reached the disk (Filled).  From there on the final *)
(* name alone keeps the file from being used again.                        *)
(***************************************************************************)
EXTENDS AnchoredPublication, TLAPS

BeforeLink == {"writing", "written", "staged", "installing"}
Finished == {"CommittedDurable", "AlreadyExists", "CommittedButCompletionFailed", "Failed"}

Job == [step  : JobStep,
        temp  : Temp \cup {Absent},
        inode : Inode \cup {NoInode},
        name  : Name \cup {Absent},
        bytes : Bytes \cup {Absent},
        clean : BOOLEAN]

(* The locals of a call at each of its steps: no error has been collected  *)
(* before after_install.                                                   *)
Shape(p) ==
  IF job[p].step = "idle" THEN job[p] = IdleJob
  ELSE /\ job[p].inode \in Inode /\ job[p].name \in Name /\ job[p].bytes \in Bytes
       /\ job[p].step \notin {"syncing"} \cup Finished => job[p].temp \in Temp
       /\ job[p].step \in BeforeLink \cup {"installed"} => job[p].clean

(* What the file of a call contains, as seen and on disk.                  *)
Filled(p) ==
  /\ job[p].step = "written" => data[job[p].inode] = job[p].bytes
  /\ job[p].step \in {"staged", "installing"} =>
       data[job[p].inode] = job[p].bytes /\ ddata[job[p].inode] = job[p].bytes

(* No final name leads to the file of a call before its linkat.            *)
Private(p) ==
  job[p].step \in BeforeLink =>
    \A n \in Name : dir[n] # job[p].inode /\ ddir[n] # job[p].inode

OwnFile ==
  \A p, q \in Proc : p # q /\ job[p].step # "idle" => job[p].inode # job[q].inode

(* A final name leads to a complete file of its own, which a loss of power *)
(* leaves as it is.                                                        *)
Complete ==
  \A n \in Name :
    /\ dir[n] # NoInode =>
         /\ data[dir[n]] \in Bytes /\ ddata[dir[n]] = data[dir[n]]
         /\ \A m \in Name : m # n => dir[m] # dir[n]
    /\ ddir[n] # NoInode => dir[n] = ddir[n]

AInv ==
  /\ TypeOK
  /\ \A p \in Proc : Shape(p) /\ Filled(p) /\ Private(p)
  /\ OwnFile
  /\ Complete

USE TornAssumption, DisjointNames
-----------------------------------------------------------------------------
LEMMA AInvInit == Init => AInv
<1> SUFFICES ASSUME Init PROVE AInv
  OBVIOUS
<1>1. TypeOK
  BY DEF Init, TypeOK, IdleJob, Entry, Content, JobStep
<1>2. \A p \in Proc : job[p] = IdleJob /\ job[p].step = "idle"
  BY DEF Init, IdleJob
<1>3. \A p \in Proc : Shape(p) /\ Filled(p) /\ Private(p)
  BY <1>2 DEF Shape, Filled, Private, BeforeLink
<1>4. OwnFile
  BY <1>2 DEF OwnFile, IdleJob
<1>5. Complete
  BY DEF Init, Complete, Entry
<1>6. QED
  BY <1>1, <1>3, <1>4, <1>5 DEF AInv

(* A call that goes on with its file, or ends, and touches neither the     *)
(* final names nor any data disturbs only what AInv says of itself.        *)
LEMMA LocalStep ==
  ASSUME AInv, NEW p \in Proc, job' \in [Proc -> Job],
         \A q \in Proc \ {p} : job'[q] = job[q],
         dir' \in [Entry -> Inode \cup {NoInode}], ddir' = ddir, data' = data, ddata' = ddata,
         \A n \in Name : dir'[n] = dir[n],
         job'[p] = IdleJob \/ (job[p].step # "idle" /\ job'[p].inode = job[p].inode),
         Shape(p)', Filled(p)', Private(p)'
  PROVE  AInv'
<1>1. TypeOK'
  BY DEF AInv, TypeOK, Job
<1>2. ASSUME NEW q \in Proc PROVE Shape(q)' /\ Filled(q)' /\ Private(q)'
  <2>1. CASE q = p
    BY <2>1
  <2>2. CASE q # p
    BY <2>2 DEF AInv, Shape, Filled, Private
  <2>3. QED
    BY <2>1, <2>2
<1>3. OwnFile'
  <2>1. \A q \in Proc : job[q].step # "idle" => job[q].inode # NoInode
    BY DEF AInv, Shape
  <2>2. QED
    BY <2>1 DEF AInv, OwnFile, IdleJob
<1>4. Complete'
  BY DEF AInv, Complete
<1>5. QED
  BY <1>1, <1>2, <1>3, <1>4 DEF AInv

(* The call of p goes on to step s and keeps its file.                     *)
Moves(p, s) ==
  /\ job' \in [Proc -> Job]
  /\ \A q \in Proc \ {p} : job'[q] = job[q]
  /\ job'[p].step = s
  /\ job'[p].inode = job[p].inode /\ job'[p].name = job[p].name
  /\ job'[p].bytes = job[p].bytes

(* Two fields of a call change at once.                                    *)
LEMMA StepAndClean ==
  ASSUME job \in [Proc -> Job], NEW p \in Proc, NEW s \in JobStep, NEW c \in BOOLEAN,
         job' = [job EXCEPT ![p].step = s, ![p].clean = c]
  PROVE  Moves(p, s) /\ job'[p].clean = c /\ job'[p].temp = job[p].temp
<1>1. \A q \in Proc \ {p} : job'[q] = job[q]
  OBVIOUS
<1>2. job'[p] = [job[p] EXCEPT !.step = s, !.clean = c] /\ job' = [q \in Proc |-> job'[q]]
  OBVIOUS
<1>3. /\ job'[p] \in Job /\ job'[p].step = s /\ job'[p].clean = c
      /\ job'[p].temp = job[p].temp /\ job'[p].inode = job[p].inode
      /\ job'[p].name = job[p].name /\ job'[p].bytes = job[p].bytes
  BY <1>2 DEF Job
<1>4. QED
  BY <1>1, <1>2, <1>3 DEF Moves

LEMMA StepAndTemp ==
  ASSUME job \in [Proc -> Job], NEW p \in Proc, NEW s \in JobStep,
         job' = [job EXCEPT ![p].step = s, ![p].temp = Absent]
  PROVE  Moves(p, s) /\ job'[p].clean = job[p].clean
<1>1. \A q \in Proc \ {p} : job'[q] = job[q]
  OBVIOUS
<1>2. /\ job'[p] = [job[p] EXCEPT !.step = s, !.temp = Absent]
      /\ job' = [q \in Proc |-> job'[q]]
  OBVIOUS
<1>3. /\ job'[p].step = s /\ job'[p].temp = Absent /\ job'[p].clean = job[p].clean
      /\ job'[p].inode = job[p].inode /\ job'[p].name = job[p].name
      /\ job'[p].bytes = job[p].bytes
  BY <1>2 DEF Job
<1>4. job'[p] \in Job
  <2> DEFINE x == [job[p] EXCEPT !.step = s]
  <2>1. x \in Job /\ job'[p] = [x EXCEPT !.temp = Absent]
    BY <1>2 DEF Job
  <2> HIDE DEF x
  <2>2. QED
    BY <2>1 DEF Job
<1>5. QED
  BY <1>1, <1>2, <1>3, <1>4 DEF Moves

(* The steps between the system calls that change a file or a name.        *)
LEMMA QuietSteps ==
  ASSUME AInv, NEW p \in Proc,
         \/ BeforeInstall(p) \/ FailBeforeInstall(p) \/ LinkatExists(p)
         \/ \E ok \in BOOLEAN : AfterInstall(p, ok)
         \/ UnlinkTempError(p) \/ SyncDirectoryError(p)
  PROVE  AInv'
<1>1. /\ job \in [Proc -> Job] /\ Shape(p) /\ Filled(p) /\ Private(p)
      /\ dir \in [Entry -> Inode \cup {NoInode}]
  BY DEF AInv, TypeOK, Job
<1>2. UNCHANGED <<dir, ddir, data, ddata>>
  BY DEF BeforeInstall, FailBeforeInstall, LinkatExists, AfterInstall, UnlinkTempError,
         SyncDirectoryError
<1>3. ASSUME NEW s \in Finished \cup {"installing", "unlinking", "syncing"}, Moves(p, s),
             job'[p].temp = job[p].temp, job[p].step # "idle",
             s = "installing" => job[p].step = "staged" /\ job'[p].clean = job[p].clean,
             s = "unlinking" => job[p].step = "installed"
      PROVE  AInv'
  <2>1. Shape(p)'
    BY <1>1, <1>3 DEF Shape, Finished, BeforeLink, Moves
  <2>2. Filled(p)' /\ Private(p)'
    BY <1>1, <1>2, <1>3 DEF Filled, Private, Finished, BeforeLink, Moves
  <2>3. QED
    BY <1>1, <1>2, <1>3, <2>1, <2>2, LocalStep DEF Moves
<1>4. CASE BeforeInstall(p)
  <2>1. Moves(p, "installing") /\ job[p].step = "staged" /\ job'[p].clean = job[p].clean
        /\ job'[p].temp = job[p].temp
    BY <1>1, <1>4 DEF BeforeInstall, Step, Moves, Job, JobStep
  <2>2. QED
    BY <1>3, <2>1
<1>5. CASE FailBeforeInstall(p)
  <2>1. Moves(p, "Failed") /\ job[p].step # "idle" /\ job'[p].temp = job[p].temp
    BY <1>1, <1>5 DEF FailBeforeInstall, Moves, Job, JobStep
  <2>2. QED
    BY <1>3, <2>1 DEF Finished
<1>6. CASE LinkatExists(p)
  <2>1. Moves(p, "AlreadyExists") /\ job[p].step # "idle" /\ job'[p].temp = job[p].temp
    BY <1>1, <1>6 DEF LinkatExists, Step, Moves, Job, JobStep
  <2>2. QED
    BY <1>3, <2>1 DEF Finished
<1>7. ASSUME NEW ok \in BOOLEAN, AfterInstall(p, ok) PROVE AInv'
  <2>1. Moves(p, "unlinking") /\ job[p].step = "installed" /\ job'[p].temp = job[p].temp
    BY <1>1, <1>7, StepAndClean DEF AfterInstall, JobStep
  <2>2. QED
    BY <1>3, <2>1
<1>8. CASE UnlinkTempError(p)
  <2>1. Moves(p, "syncing") /\ job[p].step # "idle" /\ job'[p].temp = job[p].temp
    BY <1>1, <1>8, StepAndClean DEF UnlinkTempError, JobStep
  <2>2. QED
    BY <1>3, <2>1
<1>9. CASE SyncDirectoryError(p)
  <2>1. Moves(p, "CommittedButCompletionFailed") /\ job[p].step # "idle"
        /\ job'[p].temp = job[p].temp
    BY <1>1, <1>9 DEF SyncDirectoryError, Step, Moves, Job, JobStep
  <2>2. QED
    BY <1>3, <2>1 DEF Finished
<1>10. QED
  BY <1>4, <1>5, <1>6, <1>7, <1>8, <1>9

(* The private name of a call is not a final name.                         *)
LEMMA UnlinkKeepsNames ==
  ASSUME AInv, NEW p \in Proc
  PROVE  /\ UnlinkedTemp(p) \in [Entry -> Inode \cup {NoInode}]
         /\ \A n \in Name : UnlinkedTemp(p)[n] = dir[n] \/ job[p].temp \notin Temp
         /\ job[p].temp = Absent \/ job[p].temp \in Temp
BY DEF AInv, TypeOK, UnlinkedTemp, Entry

LEMMA UnlinkTempInv == ASSUME AInv, NEW p \in Proc, UnlinkTemp(p) PROVE AInv'
<1>1. job \in [Proc -> Job] /\ Shape(p) /\ job[p].step = "unlinking"
  BY DEF AInv, TypeOK, Job, UnlinkTemp
<1>2. job[p].temp \in Temp
  BY <1>1 DEF Shape, Finished
<1>3. Moves(p, "syncing")
  BY <1>1, StepAndTemp DEF UnlinkTemp, JobStep
<1>4. Shape(p)' /\ Filled(p)' /\ Private(p)'
  BY <1>1, <1>3 DEF Shape, Filled, Private, BeforeLink, Moves
<1>5. QED
  BY <1>1, <1>2, <1>3, <1>4, UnlinkKeepsNames, LocalStep DEF UnlinkTemp, Moves

(* A call ends, by its return or with its process.                         *)
LEMMA EndInv == ASSUME AInv, NEW p \in Proc, Return(p) \/ Kill(p) PROVE AInv'
<1>1. job \in [Proc -> Job] /\ dir \in [Entry -> Inode \cup {NoInode}]
  BY DEF AInv, TypeOK, Job
<1>2. IdleJob \in Job /\ IdleJob.step = "idle"
  BY DEF IdleJob, Job, JobStep
<1>3. job' \in [Proc -> Job] /\ job'[p] = IdleJob /\ \A q \in Proc \ {p} : job'[q] = job[q]
  BY <1>1, <1>2 DEF Return, Kill
<1>4. Shape(p)' /\ Filled(p)' /\ Private(p)'
  BY <1>2, <1>3 DEF Shape, Filled, Private, BeforeLink
<1>5. dir' \in [Entry -> Inode \cup {NoInode}] /\ \A n \in Name : dir'[n] = dir[n]
  BY <1>1, UnlinkKeepsNames DEF Return, Kill, DropTemp
<1>6. QED
  BY <1>3, <1>4, <1>5, LocalStep DEF Return, Kill
-----------------------------------------------------------------------------
(* create_temp takes a file nobody works on and no name leads to.          *)
LEMMA CreateTempInv ==
  ASSUME AInv, NEW p \in Proc, NEW n \in Name, NEW b \in Bytes, CreateTemp(p, n, b)
  PROVE  AInv'
<1>1. /\ job \in [Proc -> Job] /\ dir \in [Entry -> Inode \cup {NoInode}]
      /\ ddir \in [Entry -> Inode \cup {NoInode}]
      /\ data \in [Inode -> Content] /\ ddata \in [Inode -> Content]
  BY DEF AInv, TypeOK, Job
<1>2. PICK t \in Temp, i \in Free :
        /\ dir[t] = NoInode
        /\ dir' = [dir EXCEPT ![t] = i]
        /\ data' = [data EXCEPT ![i] = Torn]
        /\ ddata' = [ddata EXCEPT ![i] = Torn]
        /\ job' = [job EXCEPT ![p] = [step |-> "writing", temp |-> t, inode |-> i,
                                      name |-> n, bytes |-> b, clean |-> TRUE]]
  BY DEF CreateTemp
<1>3. /\ i \in Inode
      /\ \A e \in Entry : dir[e] # i /\ ddir[e] # i
      /\ \A q \in Proc : job[q].inode # i
  BY DEF Free
<1>4. ddir' = ddir /\ \A m \in Name : dir'[m] = dir[m]
  BY <1>1, <1>2 DEF CreateTemp, Entry
<1>5. \A j \in Inode \ {i} : data'[j] = data[j] /\ ddata'[j] = ddata[j]
  BY <1>1, <1>2
<1>6. /\ job'[p].step = "writing" /\ job'[p].temp = t /\ job'[p].inode = i
      /\ job'[p].name = n /\ job'[p].bytes = b /\ job'[p].clean
      /\ \A q \in Proc \ {p} : job'[q] = job[q]
  BY <1>1, <1>2
<1>7. TypeOK'
  BY <1>1, <1>2, <1>3, <1>4 DEF TypeOK, Job, JobStep, Content, Entry
<1>8. ASSUME NEW q \in Proc PROVE Shape(q)' /\ Filled(q)' /\ Private(q)'
  <2>1. CASE q = p
    BY <2>1, <1>3, <1>4, <1>6 DEF Shape, Filled, Private, BeforeLink, Finished, Entry
  <2>2. CASE q # p
    <3>1. Shape(q) /\ Filled(q) /\ Private(q) /\ job'[q] = job[q] /\ job[q].inode # i
      BY <2>2, <1>3, <1>6 DEF AInv
    <3>2. Shape(q)' /\ Private(q)'
      BY <3>1, <1>4 DEF Shape, Private
    <3>3. Filled(q)'
      BY <3>1, <1>5 DEF Shape, Filled
    <3>4. QED
      BY <3>2, <3>3
  <2>3. QED
    BY <2>1, <2>2
<1>9. OwnFile'
  BY <1>3, <1>6 DEF AInv, OwnFile
<1>10. Complete'
  <2>1. Complete /\ \A m \in Name : dir[m] # i /\ dir[m] \in Inode \cup {NoInode}
    BY <1>1, <1>3 DEF AInv, Entry
  <2>2. QED
    BY <2>1, <1>4, <1>5 DEF Complete
<1>11. QED
  BY <1>7, <1>8, <1>9, <1>10 DEF AInv

(* write_all and sync_all change the file of the call, which has no final  *)
(* name yet.                                                               *)
LEMMA FileStepInv ==
  ASSUME AInv, NEW p \in Proc, WriteAll(p) \/ SyncFile(p) PROVE AInv'
<1>1. /\ job \in [Proc -> Job] /\ dir \in [Entry -> Inode \cup {NoInode}]
      /\ data \in [Inode -> Content] /\ ddata \in [Inode -> Content]
      /\ Shape(p) /\ Filled(p) /\ Private(p) /\ dir' = dir /\ ddir' = ddir
  BY DEF AInv, TypeOK, Job, WriteAll, SyncFile
<1> DEFINE i == job[p].inode
<1>2. /\ job[p].step \in {"writing", "written"} /\ i \in Inode
      /\ job[p].bytes \in Bytes /\ job[p].temp \in Temp /\ job[p].clean
  BY <1>1 DEF Shape, WriteAll, SyncFile, Step, BeforeLink, Finished
<1>3. /\ data' \in [Inode -> Content] /\ ddata' \in [Inode -> Content]
      /\ \A j \in Inode \ {i} : data'[j] = data[j] /\ ddata'[j] = ddata[j]
  BY <1>1, <1>2 DEF WriteAll, SyncFile, Content
<1>4. /\ Moves(p, IF job[p].step = "writing" THEN "written" ELSE "staged")
      /\ job'[p].temp = job[p].temp /\ job'[p].clean = job[p].clean
  <2>1. CASE WriteAll(p)
    BY <2>1, <1>1 DEF WriteAll, Step, Moves, Job, JobStep
  <2>2. CASE SyncFile(p)
    BY <2>2, <1>1 DEF SyncFile, Step, Moves, Job, JobStep
  <2>3. QED
    BY <2>1, <2>2
<1>5. /\ data'[i] = job[p].bytes
      /\ job'[p].step = "staged" => ddata'[i] = job[p].bytes
  <2>1. CASE WriteAll(p)
    BY <2>1, <1>1, <1>2, <1>4 DEF WriteAll, Step, Moves
  <2>2. CASE SyncFile(p)
    BY <2>2, <1>1, <1>2 DEF SyncFile, Step, Filled
  <2>3. QED
    BY <2>1, <2>2
<1> HIDE DEF i
<1>6. TypeOK'
  BY <1>1, <1>3, <1>4 DEF AInv, TypeOK, Job, Moves
<1>7. ASSUME NEW q \in Proc PROVE Shape(q)' /\ Filled(q)' /\ Private(q)'
  <2>1. CASE q = p
    <3>1. Shape(p)' /\ Private(p)'
      BY <1>1, <1>2, <1>4 DEF Shape, Private, Moves, BeforeLink, Finished
    <3>2. Filled(p)'
      BY <1>2, <1>4, <1>5 DEF Filled, Moves, i
    <3>3. QED
      BY <2>1, <3>1, <3>2
  <2>2. CASE q # p
    <3>1. Shape(q) /\ Filled(q) /\ Private(q) /\ job'[q] = job[q] /\ job[q].inode # i
      BY <2>2, <1>2, <1>4 DEF AInv, OwnFile, Moves, i
    <3>2. Shape(q)' /\ Private(q)'
      BY <3>1, <1>1 DEF Shape, Private
    <3>3. Filled(q)'
      BY <3>1, <1>3 DEF Shape, Filled
    <3>4. QED
      BY <3>2, <3>3
  <2>3. QED
    BY <2>1, <2>2
<1>8. OwnFile'
  BY <1>2, <1>4 DEF AInv, OwnFile, Moves
<1>9. Complete'
  <2>1. Complete /\ \A m \in Name : dir[m] # i /\ dir[m] \in Inode \cup {NoInode}
    BY <1>1, <1>2 DEF AInv, Entry, Private, BeforeLink, i
  <2>2. QED
    BY <2>1, <1>1, <1>3 DEF Complete
<1>10. QED
  BY <1>6, <1>7, <1>8, <1>9 DEF AInv

(* linkat gives the call's file, complete and on disk, its only final name. *)
LEMMA LinkatInv == ASSUME AInv, NEW p \in Proc, Linkat(p) PROVE AInv'
<1>1. /\ job \in [Proc -> Job] /\ dir \in [Entry -> Inode \cup {NoInode}]
      /\ Shape(p) /\ Filled(p) /\ Private(p) /\ job[p].step = "installing"
      /\ UNCHANGED <<ddir, data, ddata>> /\ dir[job[p].name] = NoInode
  BY DEF AInv, TypeOK, Job, Linkat, Step
<1>2. job[p].inode \in Inode /\ job[p].name \in Name /\ job[p].bytes \in Bytes
  BY <1>1 DEF Shape
<1>3. Moves(p, "installed") /\ job'[p].temp = job[p].temp /\ job'[p].clean = job[p].clean
  BY <1>1 DEF Linkat, Step, Moves, Job, JobStep
<1>4. /\ dir' \in [Entry -> Inode \cup {NoInode}]
      /\ \A n \in Name : dir'[n] = IF n = job[p].name THEN job[p].inode ELSE dir[n]
  BY <1>1, <1>2 DEF Linkat, Entry
<1>5. TypeOK'
  BY <1>1, <1>3, <1>4 DEF AInv, TypeOK, Job, Moves
<1>6. ASSUME NEW q \in Proc PROVE Shape(q)' /\ Filled(q)' /\ Private(q)'
  <2>1. CASE q = p
    BY <2>1, <1>1, <1>3 DEF Shape, Filled, Private, Moves, BeforeLink, Finished
  <2>2. CASE q # p
    <3>1. Shape(q) /\ Filled(q) /\ Private(q) /\ job'[q] = job[q] /\ job[q].inode # job[p].inode
      BY <2>2, <1>1, <1>3 DEF AInv, OwnFile, Moves
    <3>2. QED
      BY <3>1, <1>1, <1>4 DEF Shape, Filled, Private
  <2>3. QED
    BY <2>1, <2>2
<1>7. OwnFile'
  BY <1>1, <1>3 DEF AInv, OwnFile, Moves
<1>8. Complete'
  <2>1. Complete /\ \A n \in Name : dir[n] # job[p].inode /\ ddir[n] # job[p].inode
    BY <1>1 DEF AInv, Private, BeforeLink
  <2>2. /\ data[job[p].inode] = job[p].bytes /\ ddata[job[p].inode] = job[p].bytes
    BY <1>1 DEF Filled
  <2>3. QED
    BY <2>1, <2>2, <1>1, <1>2, <1>4 DEF Complete
<1>9. QED
  BY <1>5, <1>6, <1>7, <1>8 DEF AInv

(* The directory is synchronized, or the power fails.                      *)
LEMMA SyncDirectoryInv == ASSUME AInv, NEW p \in Proc, SyncDirectory(p) PROVE AInv'
<1>1. /\ job \in [Proc -> Job] /\ Shape(p) /\ job[p].step = "syncing"
      /\ ddir' = dir /\ UNCHANGED <<dir, data, ddata>>
  BY DEF AInv, TypeOK, Job, SyncDirectory
<1>2. Moves(p, IF job[p].clean THEN "CommittedDurable" ELSE "CommittedButCompletionFailed")
  BY <1>1 DEF SyncDirectory, Moves, Job, JobStep
<1>3. TypeOK'
  BY <1>1, <1>2 DEF AInv, TypeOK, Job, Moves
<1>4. ASSUME NEW q \in Proc PROVE Shape(q)' /\ Filled(q)' /\ Private(q)'
  <2>1. CASE q = p
    BY <2>1, <1>1, <1>2 DEF Shape, Filled, Private, Moves, BeforeLink, Finished
  <2>2. CASE q # p
    BY <2>2, <1>1, <1>2 DEF AInv, Shape, Filled, Private, Moves
  <2>3. QED
    BY <2>1, <2>2
<1>5. OwnFile'
  BY <1>1, <1>2 DEF AInv, OwnFile, Moves
<1>6. Complete'
  BY <1>1 DEF AInv, Complete
<1>7. QED
  BY <1>3, <1>4, <1>5, <1>6 DEF AInv

(* What a loss of power does to a final name and to the file it leads to.  *)
LEMMA PowerLossEffect ==
  ASSUME AInv, PowerLoss
  PROVE  /\ \A n \in Name : /\ dir'[n] \in {dir[n], NoInode} /\ ddir'[n] = dir'[n]
                            /\ ddir[n] # NoInode => dir'[n] = dir[n]
                            /\ dir[n] # NoInode => data'[dir[n]] = data[dir[n]]
         /\ ddata' = data' /\ ddir' = dir'
         /\ job' = [p \in Proc |-> IdleJob]
         /\ TypeOK'
<1>1. TypeOK /\ Complete
  BY DEF AInv
<1>2. PICK seen \in SUBSET {e \in Entry : dir[e] # ddir[e]},
           flushed \in SUBSET {i \in Inode : data[i] # ddata[i]} :
        /\ dir' = [e \in Entry |-> IF e \in seen THEN dir[e] ELSE ddir[e]]
        /\ ddir' = dir'
        /\ data' = [i \in Inode |-> IF i \in flushed THEN data[i] ELSE ddata[i]]
        /\ ddata' = data'
        /\ job' = [p \in Proc |-> IdleJob]
  BY DEF PowerLoss
<1>3. \A n \in Name : dir'[n] = IF n \in seen THEN dir[n] ELSE ddir[n]
  BY <1>2 DEF Entry
<1>4. \A i \in Inode : data'[i] = IF i \in flushed THEN data[i] ELSE ddata[i]
  BY <1>2
<1>5. TypeOK'
  BY <1>1, <1>2 DEF TypeOK, IdleJob, JobStep
<1>6. \A n \in Name : dir[n] \in Inode \cup {NoInode}
  BY <1>1 DEF TypeOK, Entry
<1>7. QED
  BY <1>1, <1>2, <1>3, <1>4, <1>5, <1>6 DEF Complete

LEMMA PowerLossInv == ASSUME AInv, PowerLoss PROVE AInv'
<1>1. /\ \A n \in Name : /\ dir'[n] \in {dir[n], NoInode} /\ ddir'[n] = dir'[n]
                         /\ dir[n] # NoInode => data'[dir[n]] = data[dir[n]]
      /\ ddata' = data' /\ TypeOK'
      /\ job' = [p \in Proc |-> IdleJob]
  BY PowerLossEffect
<1>2. \A p \in Proc : job'[p] = IdleJob /\ job'[p].step = "idle"
  BY <1>1 DEF IdleJob
<1>3. \A p \in Proc : Shape(p)' /\ Filled(p)' /\ Private(p)'
  BY <1>2 DEF Shape, Filled, Private, BeforeLink
<1>4. OwnFile'
  BY <1>2 DEF OwnFile
<1>5. Complete'
  BY <1>1 DEF AInv, Complete
<1>6. QED
  BY <1>1, <1>3, <1>4, <1>5 DEF AInv

LEMMA AInvStep == AInv /\ [Next]_vars => AInv'
<1> SUFFICES ASSUME AInv, [Next]_vars PROVE AInv'
  OBVIOUS
<1>1. CASE UNCHANGED vars
  BY <1>1 DEF vars, AInv, TypeOK, Shape, Filled, Private, OwnFile, Complete
<1>2. ASSUME NEW p \in Proc, NEW n \in Name, NEW b \in Bytes, CreateTemp(p, n, b) PROVE AInv'
  BY <1>2, CreateTempInv
<1>3. ASSUME NEW p \in Proc, PersistNoReplace(p) PROVE AInv'
  BY <1>3, QuietSteps, UnlinkTempInv, EndInv, FileStepInv, LinkatInv, SyncDirectoryInv
     DEF PersistNoReplace
<1>4. ASSUME NEW p \in Proc, Kill(p) PROVE AInv'
  BY <1>4, EndInv
<1>5. CASE PowerLoss
  BY <1>5, PowerLossInv
<1>6. QED
  BY <1>1, <1>2, <1>3, <1>4, <1>5 DEF Next

(* The inductive invariant of the calls of persist_no_replace_with_guards,  *)
(* their temporary files and the directory.                                *)
THEOREM AInvariance == Spec => []AInv
BY AInvInit, AInvStep, PTL DEF Spec

(* Type correctness of the directory, the files and the calls.             *)
THEOREM TypeCorrect == Spec => []TypeOK
BY AInvariance, PTL DEF AInv

(* A final name never shows or keeps an incomplete record, because the     *)
(* temporary file is synchronized before linkat and never written after.   *)
THEOREM NamesAreComplete == Spec => []NoTornRecord
<1>1. AInv => NoTornRecord
  BY DEF AInv, NoTornRecord, Complete, Private, BeforeLink
<1>2. QED
  BY <1>1, AInvariance, PTL
-----------------------------------------------------------------------------
(* The refinement.  A publication is staged from create_temp on, and its   *)
(* linkat, synchronization, outcome, kill and loss of power are the        *)
(* abstract ones; writing, synchronizing and unlinking the temporary file  *)
(* is invisible.                                                           *)

(* What a reader of the final names sees.                                  *)
LEMMA VisibleNames ==
  ASSUME AInv
  PROVE  /\ \A n \in Name : entryBar[n] = IF dir[n] = NoInode THEN Absent ELSE data[dir[n]]
         /\ \A n \in Name : entryBar[n] = Absent <=> dir[n] = NoInode
         /\ Abstract!Visible = {n \in Name : dir[n] # NoInode}
         /\ durableBar = {n \in Name : ddir[n] # NoInode}
BY DEF AInv, Complete, entryBar, durableBar, Abstract!Visible

(* Steps that leave the final names and the content of their files alone.  *)
LEMMA NamesKept ==
  ASSUME \A n \in Name : dir'[n] = dir[n],
         \A n \in Name : dir[n] # NoInode => data'[dir[n]] = data[dir[n]]
  PROVE  entryBar' = entryBar
BY DEF entryBar

(* The abstract publication of a call.                                     *)
LEMMA PubOfJob ==
  /\ \A p \in Proc :
       /\ pubBar[p].step = StepBar(job[p].step)
       /\ pubBar[p].name = job[p].name
       /\ pubBar[p].bytes = job[p].bytes
       /\ pubBar[p].clean = IF job[p].step = "unlinking" THEN TRUE ELSE job[p].clean
       /\ pubBar[p] = [step  |-> StepBar(job[p].step), name |-> job[p].name,
                       bytes |-> job[p].bytes,
                       clean |-> IF job[p].step = "unlinking" THEN TRUE ELSE job[p].clean]
BY DEF pubBar

(* An abstract publication changes with the call it stands for.            *)
LEMMA PubMoves ==
  ASSUME NEW p \in Proc, NEW r, \A q \in Proc \ {p} : job'[q] = job[q],
         r = [step  |-> StepBar(job'[p].step), name |-> job'[p].name,
              bytes |-> job'[p].bytes,
              clean |-> IF job'[p].step = "unlinking" THEN TRUE ELSE job'[p].clean]
  PROVE  pubBar' = [pubBar EXCEPT ![p] = r]
BY DEF pubBar

LEMMA PubStep ==
  ASSUME NEW p \in Proc, NEW s, Moves(p, s), s # "unlinking", job[p].step # "unlinking",
         job'[p].clean = job[p].clean
  PROVE  pubBar' = [pubBar EXCEPT ![p].step = StepBar(s)]
<1>1. pubBar' = [pubBar EXCEPT ![p] =
        [step |-> StepBar(s), name |-> job[p].name, bytes |-> job[p].bytes,
         clean |-> job[p].clean]]
  BY PubMoves DEF Moves
<1>2. pubBar[p] = [step |-> StepBar(job[p].step), name |-> job[p].name,
                   bytes |-> job[p].bytes, clean |-> job[p].clean]
  BY DEF pubBar
<1>3. [pubBar[p] EXCEPT !.step = StepBar(s)] =
        [step |-> StepBar(s), name |-> job[p].name, bytes |-> job[p].bytes,
         clean |-> job[p].clean]
  BY <1>2
<1>4. QED
  BY <1>1, <1>3

AbstractVars == <<entryBar, durableBar, pubBar>>

(* create_temp is the abstract Stage.                                      *)
LEMMA StageSimulation ==
  ASSUME AInv, NEW p \in Proc, NEW n \in Name, NEW b \in Bytes, CreateTemp(p, n, b)
  PROVE  Abstract!Stage(p, n, b)
<1>1. /\ job \in [Proc -> Job] /\ dir \in [Entry -> Inode \cup {NoInode}]
      /\ data \in [Inode -> Content] /\ job[p].step = "idle"
  BY DEF AInv, TypeOK, Job, CreateTemp
<1>2. PICK t \in Temp, i \in Free :
        /\ dir' = [dir EXCEPT ![t] = i]
        /\ data' = [data EXCEPT ![i] = Torn]
        /\ job' = [job EXCEPT ![p] = [step |-> "writing", temp |-> t, inode |-> i,
                                      name |-> n, bytes |-> b, clean |-> TRUE]]
  BY DEF CreateTemp
<1>3. \A e \in Name : dir'[e] = dir[e] /\ dir[e] # i /\ dir[e] \in Inode \cup {NoInode}
  BY <1>1, <1>2 DEF Free, Entry
<1>4. \A e \in Name : dir[e] # NoInode => data'[dir[e]] = data[dir[e]]
  BY <1>1, <1>2, <1>3
<1>5. entryBar' = entryBar /\ durableBar' = durableBar
  BY <1>3, <1>4, NamesKept DEF CreateTemp, durableBar
<1>6. /\ job'[p].step = "writing" /\ job'[p].name = n /\ job'[p].bytes = b
      /\ job'[p].clean = TRUE /\ \A q \in Proc \ {p} : job'[q] = job[q]
  BY <1>1, <1>2
<1>7. StepBar("writing") = "staged" /\ StepBar("idle") = "idle"
  BY DEF StepBar
<1>8. pubBar' = [pubBar EXCEPT ![p] = [step |-> "staged", name |-> n, bytes |-> b,
                                       clean |-> TRUE]]
  <2> DEFINE r == [step |-> "staged", name |-> n, bytes |-> b, clean |-> TRUE]
  <2>1. r = [step  |-> StepBar(job'[p].step), name |-> job'[p].name,
             bytes |-> job'[p].bytes,
             clean |-> IF job'[p].step = "unlinking" THEN TRUE ELSE job'[p].clean]
    BY <1>6, <1>7
  <2> HIDE DEF r
  <2>2. pubBar' = [pubBar EXCEPT ![p] = r]
    BY <2>1, <1>6, PubMoves
  <2>3. QED
    BY <2>2 DEF r
<1>9. pubBar[p].step = "idle"
  BY <1>1, <1>7, PubOfJob
<1>10. QED
  BY <1>5, <1>8, <1>9 DEF Abstract!Stage, Abstract!StageAs

(* Writing and synchronizing the temporary file, and the collection of an  *)
(* error before its unlink, are invisible.                                 *)
LEMMA HiddenSimulation ==
  ASSUME AInv, NEW p \in Proc,
         WriteAll(p) \/ SyncFile(p) \/ \E ok \in BOOLEAN : AfterInstall(p, ok)
  PROVE  UNCHANGED AbstractVars
<1>1. /\ job \in [Proc -> Job] /\ dir \in [Entry -> Inode \cup {NoInode}]
      /\ data \in [Inode -> Content] /\ Shape(p) /\ Private(p)
      /\ dir' = dir /\ ddir' = ddir
  BY DEF AInv, TypeOK, Job, WriteAll, SyncFile, AfterInstall
<1>2. \A n \in Name : dir[n] # NoInode => data'[dir[n]] = data[dir[n]]
  BY <1>1 DEF WriteAll, SyncFile, AfterInstall, Private, BeforeLink, Step, Entry
<1>3. entryBar' = entryBar /\ durableBar' = durableBar
  BY <1>1, <1>2, NamesKept DEF durableBar
<1>4. \A s \in {"writing", "written", "staged"} : StepBar(s) = "staged"
  BY DEF StepBar
<1>5. \A s \in {"installed", "unlinking"} : StepBar(s) = "installed"
  BY DEF StepBar
<1>6. /\ job'[p].name = job[p].name /\ job'[p].bytes = job[p].bytes
      /\ StepBar(job'[p].step) = StepBar(job[p].step)
      /\ job[p].step # "unlinking" /\ job[p].clean = TRUE
      /\ job'[p].step = "unlinking" \/ job'[p].clean = TRUE
      /\ \A q \in Proc \ {p} : job'[q] = job[q]
  <2>1. CASE WriteAll(p)
    BY <2>1, <1>1, <1>4 DEF WriteAll, Step, Shape, BeforeLink, Job
  <2>2. CASE SyncFile(p)
    BY <2>2, <1>1, <1>4 DEF SyncFile, Step, Shape, BeforeLink, Job
  <2>3. ASSUME NEW ok \in BOOLEAN, AfterInstall(p, ok)
        PROVE  /\ job'[p].name = job[p].name /\ job'[p].bytes = job[p].bytes
               /\ job'[p].step = "unlinking" /\ job[p].step = "installed"
               /\ job[p].clean = TRUE
               /\ \A q \in Proc \ {p} : job'[q] = job[q]
    <3>1. job[p].step = "installed" /\ job[p].clean = TRUE
      BY <2>3, <1>1 DEF AfterInstall, Shape, Job
    <3>2. QED
      BY <2>3, <3>1, <1>1, StepAndClean DEF AfterInstall, JobStep, Moves
  <2>4. QED
    BY <2>1, <2>2, <2>3, <1>5
<1>7. \A q \in Proc : /\ StepBar(job'[q].step) = StepBar(job[q].step)
                      /\ job'[q].name = job[q].name /\ job'[q].bytes = job[q].bytes
                      /\ (IF job'[q].step = "unlinking" THEN TRUE ELSE job'[q].clean) =
                         (IF job[q].step = "unlinking" THEN TRUE ELSE job[q].clean)
  BY <1>6
<1>8. pubBar' = pubBar
  BY <1>7 DEF pubBar
<1>9. QED
  BY <1>3, <1>8 DEF AbstractVars

(* The guard before linkat and the errors before it.                       *)
LEMMA GuardSimulation ==
  ASSUME AInv, NEW p \in Proc, BeforeInstall(p) \/ FailBeforeInstall(p)
  PROVE  Abstract!LinkatError(p) \/ \E ok \in BOOLEAN : Abstract!BeforeInstall(p, ok)
<1>1. job \in [Proc -> Job] /\ UNCHANGED <<dir, ddir, data>>
  BY DEF AInv, TypeOK, Job, BeforeInstall, FailBeforeInstall
<1>2. entryBar' = entryBar /\ durableBar' = durableBar
  BY <1>1, NamesKept DEF durableBar
<1>3. /\ \A s \in {"writing", "written", "staged"} : StepBar(s) = "staged"
      /\ StepBar("installing") = "installing" /\ StepBar("Failed") = "Failed"
  BY DEF StepBar
<1>4. CASE BeforeInstall(p)
  <2>1. Moves(p, "installing") /\ job'[p].clean = job[p].clean /\ job[p].step = "staged"
    BY <1>1, <1>4 DEF BeforeInstall, Step, Moves, Job, JobStep
  <2>2. pubBar' = [pubBar EXCEPT ![p].step = "installing"]
    BY <2>1, <1>3, PubStep
  <2>3. Abstract!BeforeInstall(p, TRUE)
    BY <1>2, <1>3, <2>1, <2>2, PubOfJob DEF Abstract!BeforeInstall
  <2>4. QED
    BY <2>3
<1>5. CASE FailBeforeInstall(p)
  <2>1. /\ Moves(p, "Failed") /\ job'[p].clean = job[p].clean
        /\ job[p].step \in {"writing", "written", "staged", "installing"}
    BY <1>1, <1>5 DEF FailBeforeInstall, Moves, Job, JobStep
  <2>2. pubBar' = [pubBar EXCEPT ![p].step = "Failed"]
    BY <2>1, <1>3, PubStep
  <2>3. CASE job[p].step = "installing"
    BY <1>2, <1>3, <2>2, <2>3, PubOfJob DEF Abstract!LinkatError
  <2>4. CASE job[p].step # "installing"
    <3>1. Abstract!BeforeInstall(p, FALSE)
      BY <1>2, <1>3, <2>1, <2>2, <2>4, PubOfJob DEF Abstract!BeforeInstall
    <3>2. QED
      BY <3>1
  <2>5. QED
    BY <2>3, <2>4
<1>6. QED
  BY <1>4, <1>5

LEMMA LinkatSimulation ==
  ASSUME AInv, NEW p \in Proc, Linkat(p) \/ LinkatExists(p)
  PROVE  Abstract!Linkat(p)
<1>1. /\ job \in [Proc -> Job] /\ dir \in [Entry -> Inode \cup {NoInode}]
      /\ Shape(p) /\ Filled(p) /\ job[p].step = "installing"
      /\ UNCHANGED <<ddir, data>>
  BY DEF AInv, TypeOK, Job, Linkat, LinkatExists, Step
<1>2. job[p].inode \in Inode /\ job[p].name \in Name /\ data[job[p].inode] = job[p].bytes
  BY <1>1 DEF Shape, Filled
<1>3. /\ StepBar("installing") = "installing" /\ StepBar("installed") = "installed"
      /\ StepBar("AlreadyExists") = "AlreadyExists"
  BY DEF StepBar
<1>4. /\ pubBar[p].step = "installing" /\ pubBar[p].name = job[p].name
      /\ pubBar[p].bytes = job[p].bytes /\ durableBar' = durableBar
  BY <1>1, <1>3, PubOfJob DEF durableBar
<1>5. CASE Linkat(p)
  <2>1. Moves(p, "installed") /\ job'[p].clean = job[p].clean /\ dir[job[p].name] = NoInode
    BY <1>1, <1>5 DEF Linkat, Step, Moves, Job, JobStep
  <2>2. pubBar' = [pubBar EXCEPT ![p].step = "installed"]
    BY <2>1, <1>1, <1>3, PubStep
  <2>3. \A n \in Name : dir'[n] = IF n = job[p].name THEN job[p].inode ELSE dir[n]
    BY <1>1, <1>2, <1>5 DEF Linkat, Entry
  <2>4. entryBar' = [entryBar EXCEPT ![job[p].name] = job[p].bytes]
    BY <2>3, <1>1, <1>2 DEF entryBar
  <2>5. entryBar[job[p].name] = Absent
    BY <2>1, <1>2, VisibleNames
  <2>6. QED
    BY <1>4, <2>2, <2>4, <2>5 DEF Abstract!Linkat
<1>6. CASE LinkatExists(p)
  <2>1. /\ Moves(p, "AlreadyExists") /\ job'[p].clean = job[p].clean
        /\ dir[job[p].name] # NoInode /\ dir' = dir
    BY <1>1, <1>6 DEF LinkatExists, Step, Moves, Job, JobStep
  <2>2. pubBar' = [pubBar EXCEPT ![p].step = "AlreadyExists"]
    BY <2>1, <1>1, <1>3, PubStep
  <2>3. entryBar' = entryBar
    BY <2>1, <1>1, NamesKept
  <2>4. entryBar[job[p].name] # Absent
    BY <2>1, <1>2, VisibleNames
  <2>5. QED
    BY <1>4, <2>2, <2>3, <2>4 DEF Abstract!Linkat
<1>7. QED
  BY <1>5, <1>6

(* The unlink of the temporary name ends the abstract after_install.       *)
LEMMA UnlinkSimulation ==
  ASSUME AInv, NEW p \in Proc, UnlinkTemp(p) \/ UnlinkTempError(p)
  PROVE  \E ok \in BOOLEAN : Abstract!AfterInstall(p, ok)
<1>1. /\ job \in [Proc -> Job] /\ Shape(p) /\ job[p].step = "unlinking"
      /\ UNCHANGED <<ddir, data>>
  BY DEF AInv, TypeOK, Job, UnlinkTemp, UnlinkTempError
<1>2. \A n \in Name : dir'[n] = dir[n]
  BY <1>1, UnlinkKeepsNames DEF UnlinkTemp, UnlinkTempError, Shape, Finished
<1>3. entryBar' = entryBar /\ durableBar' = durableBar
  BY <1>1, <1>2, NamesKept DEF durableBar
<1>4. Moves(p, "syncing") /\ job'[p].clean \in BOOLEAN
  <2>0. job[p].clean \in BOOLEAN
    BY <1>1 DEF Job
  <2>1. CASE UnlinkTemp(p)
    BY <2>0, <2>1, <1>1, StepAndTemp DEF UnlinkTemp, JobStep
  <2>2. CASE UnlinkTempError(p)
    BY <2>2, <1>1, StepAndClean DEF UnlinkTempError, JobStep
  <2>3. QED
    BY <2>1, <2>2
<1>5. StepBar("syncing") = "syncing" /\ StepBar("unlinking") = "installed"
  BY DEF StepBar
<1> DEFINE from == "installed"
           to == "syncing"
           old == TRUE
           new == job'[p].clean
           r == [step |-> to, name |-> job[p].name, bytes |-> job[p].bytes, clean |-> new]
<1>6. r = [step  |-> StepBar(job'[p].step), name |-> job'[p].name,
           bytes |-> job'[p].bytes,
           clean |-> IF job'[p].step = "unlinking" THEN TRUE ELSE job'[p].clean]
  BY <1>4, <1>5 DEF Moves
<1>7. pubBar[p] = [step |-> from, name |-> job[p].name, bytes |-> job[p].bytes, clean |-> old]
  BY <1>1, <1>5, PubOfJob
<1> HIDE DEF from, to, old, new
<1>8. [pubBar[p] EXCEPT !.step = to, !.clean = new] = r
  <2> DEFINE x == [pubBar[p] EXCEPT !.step = to]
  <2>1. x = [step |-> to, name |-> job[p].name, bytes |-> job[p].bytes, clean |-> old]
    BY <1>7
  <2>2. [pubBar[p] EXCEPT !.step = to, !.clean = new] = [x EXCEPT !.clean = new]
    OBVIOUS
  <2> HIDE DEF x
  <2>3. [x EXCEPT !.clean = new] = r
    BY <2>1
  <2>4. QED
    BY <2>2, <2>3
<1> HIDE DEF r
<1>9. pubBar' = [pubBar EXCEPT ![p].step = to, ![p].clean = new]
  <2>1. pubBar' = [pubBar EXCEPT ![p] = r]
    BY <1>4, <1>6, PubMoves DEF Moves
  <2>2. pubBar = [q \in Proc |-> pubBar[q]]
    BY DEF pubBar
  <2>3. QED
    BY <2>1, <2>2, <1>8
<1>10. Abstract!AfterInstall(p, job'[p].clean)
  BY <1>3, <1>7, <1>9 DEF Abstract!AfterInstall, from, to, new
<1>11. QED
  BY <1>4, <1>10

LEMMA SyncSimulation ==
  ASSUME AInv, NEW p \in Proc, SyncDirectory(p) \/ SyncDirectoryError(p)
  PROVE  Abstract!SyncDirectory(p) \/ Abstract!SyncDirectoryError(p)
<1>1. /\ job \in [Proc -> Job] /\ job[p].step = "syncing" /\ UNCHANGED <<dir, data>>
  BY DEF AInv, TypeOK, Job, SyncDirectory, SyncDirectoryError, Step
<1>2. entryBar' = entryBar
  BY <1>1, NamesKept
<1>3. /\ StepBar("syncing") = "syncing" /\ StepBar("CommittedDurable") = "CommittedDurable"
      /\ StepBar("CommittedButCompletionFailed") = "CommittedButCompletionFailed"
  BY DEF StepBar
<1>4. pubBar[p].step = "syncing" /\ pubBar[p].clean = job[p].clean
  BY <1>1, <1>3, PubOfJob
<1>5. CASE SyncDirectory(p)
  <2> DEFINE s == IF job[p].clean THEN "CommittedDurable" ELSE "CommittedButCompletionFailed"
  <2>1. Moves(p, s) /\ job'[p].clean = job[p].clean /\ ddir' = dir
    BY <1>1, <1>5 DEF SyncDirectory, Moves, Job, JobStep
  <2>2. StepBar(s) = s /\ s # "unlinking"
    BY <1>3
  <2> HIDE DEF s
  <2>3. pubBar' = [pubBar EXCEPT ![p].step = s]
    BY <2>1, <2>2, <1>1, PubStep
  <2>4. durableBar' = Abstract!Visible
    BY <2>1, <1>1, VisibleNames DEF durableBar
  <2>5. QED
    BY <1>2, <1>4, <2>3, <2>4 DEF Abstract!SyncDirectory, s
<1>6. CASE SyncDirectoryError(p)
  <2>1. /\ Moves(p, "CommittedButCompletionFailed") /\ job'[p].clean = job[p].clean
        /\ ddir' = ddir
    BY <1>1, <1>6 DEF SyncDirectoryError, Step, Moves, Job, JobStep
  <2>2. pubBar' = [pubBar EXCEPT ![p].step = "CommittedButCompletionFailed"]
    BY <2>1, <1>1, <1>3, PubStep
  <2>3. QED
    BY <1>2, <1>4, <2>1, <2>2 DEF Abstract!SyncDirectoryError, durableBar
<1>7. QED
  BY <1>5, <1>6

LEMMA EndSimulation ==
  ASSUME AInv, NEW p \in Proc, Return(p) \/ Kill(p)
  PROVE  Abstract!Kill(p)
<1>1. job \in [Proc -> Job] /\ UNCHANGED <<ddir, data>> /\ job[p].step # "idle"
      /\ job[p].step \in JobStep
  BY DEF AInv, TypeOK, Job, Return, Kill
<1>2. \A n \in Name : dir'[n] = dir[n]
  BY UnlinkKeepsNames DEF Return, Kill, DropTemp
<1>3. entryBar' = entryBar /\ durableBar' = durableBar
  BY <1>1, <1>2, NamesKept DEF durableBar
<1>4. /\ job'[p].step = "idle" /\ job'[p].name = Absent /\ job'[p].bytes = Absent
      /\ job'[p].clean = TRUE /\ \A q \in Proc \ {p} : job'[q] = job[q]
  BY <1>1 DEF Return, Kill, IdleJob
<1>5. StepBar("idle") = "idle" /\ \A s \in JobStep : s # "idle" => StepBar(s) # "idle"
  BY DEF StepBar
<1>6. pubBar' = [pubBar EXCEPT ![p] = Abstract!IdlePub]
  <2>1. Abstract!IdlePub =
          [step  |-> StepBar(job'[p].step), name |-> job'[p].name,
           bytes |-> job'[p].bytes,
           clean |-> IF job'[p].step = "unlinking" THEN TRUE ELSE job'[p].clean]
    BY <1>4, <1>5 DEF Abstract!IdlePub
  <2>2. \A q \in Proc \ {p} : job'[q] = job[q]
    BY <1>4
  <2>3. QED
    BY <2>1, <2>2, PubMoves
<1>7. pubBar[p].step # "idle"
  BY <1>1, <1>5, PubOfJob
<1>8. QED
  BY <1>3, <1>6, <1>7 DEF Abstract!Kill

(* A loss of power takes final names that were not synchronized.           *)
LEMMA PowerLossSimulation == ASSUME AInv, PowerLoss PROVE Abstract!PowerLoss
<1>1. /\ \A n \in Name : /\ dir'[n] \in {dir[n], NoInode} /\ ddir'[n] = dir'[n]
                         /\ ddir[n] # NoInode => dir'[n] = dir[n]
                         /\ dir[n] # NoInode => data'[dir[n]] = data[dir[n]]
      /\ job' = [p \in Proc |-> IdleJob]
  BY PowerLossEffect
<1>2. \A n \in Name : ddir[n] # NoInode => dir[n] = ddir[n]
  BY DEF AInv, Complete
<1> DEFINE lost == {n \in Name : dir[n] # NoInode /\ dir'[n] = NoInode}
           kept == Abstract!Visible \ lost
<1>3. lost \in SUBSET (Abstract!Visible \ durableBar)
  BY <1>1, <1>2, VisibleNames
<1>4. kept = {n \in Name : dir'[n] # NoInode}
  BY <1>1, VisibleNames
<1>5. entryBar' = [n \in Name |-> IF n \in kept THEN entryBar[n] ELSE Absent]
  <2>1. \A n \in Name : (IF dir'[n] = NoInode THEN Absent ELSE data'[dir'[n]]) =
                        (IF n \in kept THEN entryBar[n] ELSE Absent)
    BY <1>1, <1>4, VisibleNames
  <2> HIDE DEF kept
  <2>2. QED
    BY <2>1 DEF entryBar
<1>6. durableBar' = kept
  BY <1>1, <1>4 DEF durableBar
<1>7. pubBar' = [p \in Proc |-> Abstract!IdlePub]
  <2>1. \A p \in Proc : /\ job'[p].step = "idle" /\ job'[p].name = Absent
                        /\ job'[p].bytes = Absent /\ job'[p].clean = TRUE
    BY <1>1 DEF IdleJob
  <2>2. \A p \in Proc : [step  |-> StepBar(job'[p].step), name |-> job'[p].name,
           bytes |-> job'[p].bytes,
           clean |-> IF job'[p].step = "unlinking" THEN TRUE ELSE job'[p].clean] =
         Abstract!IdlePub
    BY <2>1 DEF StepBar, Abstract!IdlePub
  <2>3. QED
    BY <2>2 DEF pubBar
<1>8. Abstract!PowerLossTo(kept)
  BY <1>5, <1>6, <1>7 DEF Abstract!PowerLossTo
<1>9. QED
  BY <1>3, <1>8 DEF Abstract!PowerLoss

LEMMA NextSimulation == AInv /\ [Next]_vars => [Abstract!PubNext]_AbstractVars
<1> SUFFICES ASSUME AInv, [Next]_vars PROVE [Abstract!PubNext]_AbstractVars
  OBVIOUS
<1>1. CASE UNCHANGED vars
  BY <1>1 DEF vars, AbstractVars, entryBar, durableBar, pubBar
<1>2. ASSUME NEW p \in Proc, NEW n \in Name, NEW b \in Bytes, CreateTemp(p, n, b)
      PROVE  Abstract!PubNext
  BY <1>2, StageSimulation DEF Abstract!PubNext
<1>3. ASSUME NEW p \in Proc, PersistNoReplace(p) PROVE [Abstract!PubNext]_AbstractVars
  <2>1. ASSUME \E ok \in BOOLEAN : Abstract!PublicationStep(p, ok) PROVE Abstract!PubNext
    BY <2>1 DEF Abstract!PubNext
  <2>2. CASE WriteAll(p) \/ SyncFile(p) \/ \E ok \in BOOLEAN : AfterInstall(p, ok)
    BY <2>2, HiddenSimulation
  <2>3. CASE BeforeInstall(p) \/ FailBeforeInstall(p)
    BY <2>1, <2>3, GuardSimulation DEF Abstract!PublicationStep
  <2>4. CASE Linkat(p) \/ LinkatExists(p)
    BY <2>1, <2>4, LinkatSimulation DEF Abstract!PublicationStep
  <2>5. CASE UnlinkTemp(p) \/ UnlinkTempError(p)
    BY <2>1, <2>5, UnlinkSimulation DEF Abstract!PublicationStep
  <2>6. CASE SyncDirectory(p) \/ SyncDirectoryError(p)
    BY <2>1, <2>6, SyncSimulation DEF Abstract!PublicationStep
  <2>7. CASE Return(p)
    BY <2>7, EndSimulation DEF Abstract!PubNext
  <2>8. QED
    BY <1>3, <2>2, <2>3, <2>4, <2>5, <2>6, <2>7 DEF PersistNoReplace
<1>4. ASSUME NEW p \in Proc, Kill(p) PROVE Abstract!PubNext
  BY <1>4, EndSimulation DEF Abstract!PubNext
<1>5. CASE PowerLoss
  BY <1>5, PowerLossSimulation DEF Abstract!PubNext
<1>6. QED
  BY <1>1, <1>2, <1>3, <1>4, <1>5 DEF Next

(* The system calls of persist_no_replace_with_guards implement the        *)
(* abstract publication that the ledgers are built on.                     *)
THEOREM CallsImplementPublication == Spec => ImplementsPublication
<1>1. Init => Abstract!PubInit
  <2> SUFFICES ASSUME Init PROVE Abstract!PubInit
    OBVIOUS
  <2>1. entryBar = [n \in Name |-> Absent] /\ durableBar = {}
    BY DEF Init, entryBar, durableBar, Entry
  <2>2. pubBar = [p \in Proc |-> Abstract!IdlePub]
    BY DEF Init, pubBar, IdleJob, StepBar, Abstract!IdlePub
  <2>3. QED
    BY <2>1, <2>2 DEF Abstract!PubInit
<1>2. AInv /\ [Next]_vars => [Abstract!PubNext]_(Abstract!pubVars)
  BY NextSimulation DEF AbstractVars, Abstract!pubVars
<1>3. QED
  BY <1>1, <1>2, AInvariance, PTL DEF Spec, ImplementsPublication, Abstract!PubSpec
=============================================================================
