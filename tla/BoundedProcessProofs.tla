------------------------ MODULE BoundedProcessProofs ------------------------
(***************************************************************************)
(* Proofs about BoundedProcess for every limit, chunk and pipe size,       *)
(* channel capacity and deadline.                                          *)
(*                                                                         *)
(* The two properties about processes follow from TreeInv, which relates   *)
(* what the supervisor knows (status, tree_termination_attempted, where it *)
(* is) to the state of the process group.  OutputIsExact follows from      *)
(* ByteInv: a byte that was written is in the pipe, in an event or in the  *)
(* capture, and the end of file of a stream is its last event.  The sum    *)
(* over the events under way is not computed but exhibited, as a function  *)
(* of the position in the channel (Ledger).                                *)
(***************************************************************************)
EXTENDS BoundedProcess, TLAPS

(* The types, component by component.  That no capture exceeds what was    *)
(* written is part of Counted.                                             *)
SupervisorTypes ==
  /\ pc \in {"Start", "Spawn", "SpawnReaders", "Top", "TryWait", "KillTree",
             "Drain", "Recv", "Terminate", "Reap", "Join", "Done"}
  /\ mode \in TreeMode /\ deadline \in Nat
  /\ failure \in Failure \cup {None}
  /\ result \in Failure \cup Unstarted \cup {None, "Ok"}
  /\ eof \subseteq Stream /\ got \in [Stream -> Nat]

ReaderTypes ==
  /\ reader \in [Stream -> [st : ReaderState, total : Nat, ev : Event]]
  /\ chan \in Seq(Event) /\ Len(chan) <= Capacity

TreeTypes ==
  /\ proc \in [Proc -> {"none", "running", "escaped", "zombie", "reaped", "gone"}]
  /\ holds \in [Proc -> SUBSET Stream]
  /\ pipe \in [Stream -> 0..PipeSize]
  /\ wrote \in [Stream -> Nat] /\ \A s \in Stream : wrote[s] <= MaxWrite[s]

FlagTypes ==
  /\ status \in BOOLEAN /\ treeKilled \in BOOLEAN /\ open \in BOOLEAN
  /\ reused \in Reuse /\ strayKill \in BOOLEAN /\ cancelled \in BOOLEAN
  /\ clock \in 0..MaxTime

TypeInv == SupervisorTypes /\ ReaderTypes /\ TreeTypes /\ FlagTypes

(* Where the supervisor is, what it has seen of the child, and which       *)
(* processes of the group there are.                                       *)
TreeInv ==
  /\ treeKilled <=> status
  /\ proc["child"] \in {"none", "running", "zombie", "reaped"}
  /\ status => proc["child"] = "reaped"
  /\ proc["child"] = "reaped" => status \/ pc = "Done"
  /\ proc["child"] = "none" => proc["descendant"] = "none" /\ pc \in {"Start", "Spawn", "Done"}
  /\ pc \in {"Start", "Spawn"} => proc["child"] = "none"
  /\ pc \in {"KillTree", "Join"} => status
  /\ pc = "TryWait" => ~status
  /\ pc = "Reap" => proc["child"] \in {"zombie", "reaped"}
  /\ pc = "Done" => proc["child"] \in {"none", "reaped"}
  /\ reused # "no" => proc["child"] = "reaped"
  /\ reused = "later" => pc # "KillTree"
  /\ mode = "Isolated" /\ (pc \in {"Reap", "Done"} \/ (status /\ pc # "KillTree")) =>
       proc["descendant"] # "running"
  /\ strayKill => reused = "beforeKill"

(* What an event adds to the capture of a stream.                          *)
Gain(e, s) == IF e.kind = "Data" /\ e.stream = s THEN e.bytes ELSE 0

(* The event a reader is about to send.                                    *)
Ready(s, kinds) == reader[s].st = "sending" /\ reader[s].ev.kind \in kinds

(* Some event of the stream in the channel is of one of these kinds.       *)
Queued(s, kinds) ==
  \E i \in 1..Len(chan) : chan[i].stream = s /\ chan[i].kind \in kinds

(* f[i] bytes of the stream will have been captured after i more events;   *)
(* with the event the reader is about to send, these are all it has read.  *)
Sums(s, f) ==
  /\ f[0] = got[s]
  /\ \A i \in 1..Len(chan) : f[i] = f[i - 1] + Gain(chan[i], s)
  /\ \A i \in 0..Len(chan) : f[i] <= reader[s].total
  /\ \A i \in 1..Len(chan) :
       chan[i].stream = s /\ chan[i].kind = "Eof" => f[i] = reader[s].total
  /\ reader[s].total =
       f[Len(chan)] + (IF Ready(s, {"Data"}) THEN reader[s].ev.bytes ELSE 0)

Ledger(s) == open => \E f \in [0..Len(chan) -> Nat] : Sums(s, f)

Last == {"Eof", "Error", "Limit"}

(* An event that is not data is the last one of its stream.                *)
Order(s) ==
  /\ reader[s].st = "sending" => reader[s].ev.stream = s
  /\ s \in eof \/ Queued(s, Last) => reader[s].st = "done"
  /\ s \in eof => \A i \in 1..Len(chan) : chan[i].stream # s
  /\ \A i, j \in 1..Len(chan) :
       i < j /\ chan[i].stream = s /\ chan[i].kind \in Last => chan[j].stream # s

(* The end of the stream was seen by its reader.                           *)
AtEnd(s) == s \in eof \/ Ready(s, {"Eof"}) \/ Queued(s, {"Eof"})

Counted(s) ==
  /\ reader[s].total + pipe[s] <= wrote[s]
  /\ reader[s].total <= Limit[s]
  /\ got[s] <= reader[s].total
  /\ reader[s].st \in {"none", "reading"} \/ Ready(s, {"Data", "Eof", "Error"}) =>
       wrote[s] = reader[s].total + pipe[s]
  /\ AtEnd(s) => wrote[s] = reader[s].total /\ pipe[s] = 0 /\ ~Held(s)
  /\ s \in eof => got[s] = reader[s].total
  /\ Ready(s, {"Limit"}) \/ Queued(s, {"Limit"}) => wrote[s] > Limit[s]

(* What the supervisor has concluded from the events.                      *)
Verdict ==
  /\ failure = "Limit" \/ result = "Limit" => \E s \in Stream : wrote[s] > Limit[s]
  /\ pc = "Join" => eof = Stream
  /\ ~open => pc = "Done"
  /\ pc \in {"Start", "Spawn", "SpawnReaders"} => \A s \in Stream : reader[s].st = "none"
  /\ result # None => pc = "Done"
  /\ result = "Ok" => eof = Stream /\ status

ByteInv ==
  /\ \A s \in Stream : Ledger(s) /\ Order(s) /\ Counted(s)
  /\ Verdict

BInv == TypeInv /\ TreeInv /\ ByteInv

USE ProcessAssumption
-----------------------------------------------------------------------------
(* The smaller and the larger of two numbers.                              *)
LEMMA MinOfTwo ==
  ASSUME NEW a \in Nat, NEW b \in Nat
  PROVE  Min({a, b}) \in {a, b} /\ Min({a, b}) <= a /\ Min({a, b}) <= b
<1>1. \E x \in {a, b} : \A y \in {a, b} : x <= y
  <2>1. CASE a <= b
    BY <2>1
  <2>2. CASE b <= a
    BY <2>2
  <2>3. QED
    BY <2>1, <2>2
<1>2. Min({a, b}) \in {a, b} /\ \A y \in {a, b} : Min({a, b}) <= y
  BY <1>1 DEF Min
<1>3. QED
  BY <1>2

(* The larger of two numbers.                                              *)
LEMMA MaxOfTwo ==
  ASSUME NEW a \in Nat, NEW b \in Nat
  PROVE  Max({a, b}) \in {a, b} /\ Max({a, b}) >= a /\ Max({a, b}) >= b
<1>1. \E x \in {a, b} : \A y \in {a, b} : x >= y
  <2>1. CASE a <= b
    BY <2>1
  <2>2. CASE b <= a
    BY <2>2
  <2>3. QED
    BY <2>1, <2>2
<1>2. Max({a, b}) \in {a, b} /\ \A y \in {a, b} : Max({a, b}) >= y
  BY <1>1 DEF Max
<1>3. QED
  BY <1>2

(* What a read can return: at least a byte, at most a chunk, and no more    *)
(* than the pipe holds.                                                     *)
LEMMA ReadBounds ==
  ASSUME TypeInv, NEW s \in Stream, pipe[s] > 0,
         NEW n, n = Min({ReadSize(s), pipe[s]})
  PROVE  n \in Nat \ {0} /\ n <= Chunk /\ n <= pipe[s] /\ Remaining(s) \in Nat
<1>1. Limit[s] \in Nat /\ reader[s].total \in Nat /\ Chunk \in Nat /\ Chunk > 0 /\ pipe[s] \in Nat
  BY DEF TypeInv, ReaderTypes, TreeTypes
<1>2. Remaining(s) \in Nat
  BY <1>1 DEF Remaining
<1> DEFINE a == Min({Chunk, Remaining(s) + 1})
<1>3. a \in Nat /\ a <= Chunk
  <2>1. Remaining(s) + 1 \in Nat
    BY <1>2
  <2>2. a \in {Chunk, Remaining(s) + 1} /\ a <= Chunk
    BY <1>1, <2>1, MinOfTwo
  <2>3. QED
    BY <1>1, <2>1, <2>2
<1> HIDE DEF a
<1>4. Max({a, 1}) \in Nat \ {0} /\ Max({a, 1}) <= Chunk
  <2>1. Max({a, 1}) \in {a, 1} /\ Max({a, 1}) >= 1
    BY <1>3, MaxOfTwo
  <2>2. QED
    BY <1>1, <1>3, <2>1
<1>5. ReadSize(s) \in Nat \ {0} /\ ReadSize(s) <= Chunk
  BY <1>4 DEF ReadSize, a
<1>6. QED
  BY <1>1, <1>2, <1>5, MinOfTwo
-----------------------------------------------------------------------------
(* Everything holds before the run starts.                                 *)
LEMMA BInvInit == Init => BInv
<1> SUFFICES ASSUME Init PROVE BInv
  OBVIOUS
<1>1. TypeInv
  <2>1. NoEvent \in Event
    BY DEF NoEvent, Ev, Event, Stream
  <2>2. ReaderTypes
    BY <2>1 DEF Init, ReaderTypes, ReaderState
  <2>3. SupervisorTypes
    BY DEF Init, SupervisorTypes, TreeMode
  <2>4. TreeTypes
    BY DEF Init, TreeTypes
  <2>5. FlagTypes
    <3>1. clock \in 0..MaxTime
      BY DEF Init
    <3>2. QED
      BY <3>1, Zenon DEF Init, FlagTypes, Reuse
  <2>6. QED
    BY <2>2, <2>3, <2>4, <2>5 DEF TypeInv
<1>2. TreeInv
  BY DEF Init, TreeInv, Proc
<1>3. /\ Len(chan) = 0 /\ \A s \in Stream : got[s] = 0 /\ wrote[s] = 0 /\ pipe[s] = 0
      /\ \A s \in Stream : reader[s].st = "none" /\ reader[s].total = 0
  BY DEF Init
<1>4. ASSUME NEW s \in Stream PROVE Ledger(s) /\ Order(s) /\ Counted(s)
  <2>1. Ledger(s)
    <3>1. [i \in 0..0 |-> 0] \in [0..Len(chan) -> Nat]
      BY <1>3
    <3>2. Sums(s, [i \in 0..0 |-> 0])
      BY <1>3, <1>4 DEF Sums, Ready
    <3>3. QED
      BY <3>1, <3>2 DEF Ledger
  <2>2. Order(s) /\ Counted(s)
    BY <1>3, <1>4 DEF Init, Order, Counted, Queued, Ready, AtEnd
  <2>3. QED
    BY <2>1, <2>2
<1>5. Verdict
  BY <1>3 DEF Init, Verdict, None
<1>6. QED
  BY <1>1, <1>2, <1>4, <1>5 DEF BInv, ByteInv

(* A step that leaves the bytes, the events and the open ends alone.       *)
LEMMA BytesKept ==
  ASSUME ByteInv, UNCHANGED <<got, eof, open, reader, chan, pipe, wrote>>,
         \A s \in Stream : AtEnd(s) /\ ~Held(s) => ~Held(s)'
  PROVE  \A s \in Stream : Ledger(s)' /\ Order(s)' /\ Counted(s)'
<1> SUFFICES ASSUME NEW s \in Stream PROVE Ledger(s)' /\ Order(s)' /\ Counted(s)'
  OBVIOUS
<1>0. Ledger(s) /\ Order(s) /\ Counted(s)
  BY DEF ByteInv
<1>1. Ledger(s)'
  BY <1>0 DEF Ledger, Sums, Ready
<1>2. Order(s)'
  BY <1>0 DEF Order, Queued
<1>3. (\A kinds : Ready(s, kinds)' <=> Ready(s, kinds)) /\ (\A kinds : Queued(s, kinds)' <=> Queued(s, kinds))
  BY DEF Ready, Queued
<1>4. AtEnd(s)' <=> AtEnd(s)
  BY <1>3 DEF AtEnd
<1>5. Counted(s)'
  BY <1>0, <1>3, <1>4 DEF Counted
<1>6. QED
  BY <1>1, <1>2, <1>5
-----------------------------------------------------------------------------
(* The types are kept, component by component.                             *)
LEMMA FlagTypesKept == FlagTypes /\ [Next]_vars => FlagTypes'
<1> SUFFICES ASSUME FlagTypes, [Next]_vars PROVE FlagTypes'
  OBVIOUS
<1> USE DEF FlagTypes, supervisor, tree, environment
<1>1. ASSUME NEW r \in Request, Start(r) PROVE FlagTypes'
  BY <1>1 DEF Start
<1>2. CASE Spawn \/ SpawnFails \/ Top \/ TryWaitFails \/ Drain \/ Recv
  BY <1>2 DEF Spawn, SpawnFails, Top, TryWaitFails, Drain, Recv
<1>3. ASSUME NEW started \in StartedBefore, SpawnReaders(started) PROVE FlagTypes'
  BY <1>3 DEF SpawnReaders
<1>4. CASE TryWait
  BY <1>4 DEF TryWait
<1>5. CASE KillTree \/ Terminate
  <2>1. strayKill' \in BOOLEAN
    BY <1>5 DEF KillTree, Terminate, KillGroup
  <2>2. UNCHANGED <<status, treeKilled, open, reused, cancelled, clock>>
    BY <1>5 DEF KillTree, Terminate
  <2>3. QED
    BY <2>1, <2>2
<1>6. CASE Reap \/ Join
  BY <1>6 DEF Reap, Join
<1>7. ASSUME NEW s \in Stream, Read(s) \/ ReadError(s) \/ ReaderPanics(s) \/ CloseStream(s)
      PROVE  FlagTypes'
  BY <1>7 DEF Read, ReadData, ReadEof, Send, ReadError, ReaderPanics, CloseStream
<1>8. ASSUME NEW x \in Proc, Exit(x) \/ \E s \in Stream : Write(x, s) PROVE FlagTypes'
  BY <1>8 DEF Exit, Write
<1>9. CASE Fork \/ Escape
  BY <1>9 DEF Fork, Escape
<1>10. CASE ReusePid \/ Cancel
  BY <1>10 DEF ReusePid, Cancel, Reuse
<1>11. CASE Tick
  BY <1>11 DEF Tick
<1>12. CASE UNCHANGED vars
  BY <1>12 DEF vars
<1>13. QED
  BY <1>1, <1>2, <1>3, <1>4, <1>5, <1>6, <1>7, <1>8, <1>9, <1>10, <1>11, <1>12
     DEF Next, Supervise, Environment

(* The locals of run_bounded_inner.                                        *)
LEMMA SupervisorTypesKept == TypeInv /\ [Next]_vars => SupervisorTypes'
<1> SUFFICES ASSUME TypeInv, [Next]_vars PROVE SupervisorTypes'
  OBVIOUS
<1>0. SupervisorTypes /\ ReaderTypes /\ clock \in Nat
  BY DEF TypeInv, FlagTypes
<1> USE DEF SupervisorTypes
<1>1. ASSUME NEW r \in Request, Start(r) PROVE SupervisorTypes'
  <2>1. r.at \in Nat /\ r.timeout \in Nat /\ clock + r.timeout \in Nat
    BY <1>0
  <2>2. EffectiveDeadline(r) \in Nat
    BY <1>0, <2>1, MinOfTwo DEF EffectiveDeadline
  <2>3. Rejection(r) \in Failure \cup Unstarted \cup {None}
    BY DEF Rejection, Failure, Unstarted
  <2>4. QED
    BY <1>0, <1>1, <2>2, <2>3 DEF Start
<1>2. CASE Spawn \/ SpawnFails \/ TryWait \/ TryWaitFails \/ KillTree \/ Terminate
  BY <1>0, <1>2 DEF Spawn, SpawnFails, TryWait, TryWaitFails, KillTree, Terminate, Failure, Unstarted
<1>3. ASSUME NEW started \in StartedBefore, SpawnReaders(started) PROVE SupervisorTypes'
  BY <1>0, <1>3 DEF SpawnReaders, Failure
<1>4. CASE Top
  BY <1>0, <1>4 DEF Top, Failure
<1>5. ASSUME chan # <<>>, HandleEvent
      PROVE  failure' \in Failure \cup {None} /\ eof' \subseteq Stream /\ got' \in [Stream -> Nat]
  <2>1. Head(chan) \in Event
    BY <1>0, <1>5 DEF ReaderTypes
  <2>2. Head(chan).stream \in Stream /\ Head(chan).bytes \in Nat
    BY <2>1 DEF Event
  <2>3. got' \in [Stream -> Nat] /\ eof' \subseteq Stream
    <3>1. PICK s \in Stream : s = Head(chan).stream
      BY <2>2
    <3>2. PICK n \in Nat : n = Head(chan).bytes
      BY <2>2
    <3>3. got' \in {got, [got EXCEPT ![s] = @ + n]} /\ eof' \in {eof, eof \cup {s}}
      BY <1>5, <3>1, <3>2 DEF HandleEvent
    <3>4. got[s] + n \in Nat
      BY <1>0
    <3>5. [got EXCEPT ![s] = @ + n] \in [Stream -> Nat]
      BY <1>0, <3>4
    <3>6. QED
      BY <1>0, <3>3, <3>5
  <2>4. failure' \in {"Read", "Limit", failure}
    BY <1>5 DEF HandleEvent
  <2>5. QED
    BY <1>0, <2>3, <2>4 DEF Failure
<1>6. CASE Drain \/ Recv
  <2>1. failure' \in Failure \cup {None} /\ eof' \subseteq Stream /\ got' \in [Stream -> Nat]
    BY <1>0, <1>5, <1>6 DEF Drain, Recv, Failure
  <2>2. /\ UNCHANGED <<mode, deadline, result>>
        /\ pc' \in {"Drain", "Terminate", "Join", "Recv", "Top"}
    BY <1>6 DEF Drain, Recv
  <2>3. QED
    BY <1>0, <2>1, <2>2
<1>7. CASE Reap \/ Join
  BY <1>0, <1>7 DEF Reap, Join, Failure
<1>8. ASSUME UNCHANGED supervisor PROVE SupervisorTypes'
  BY <1>0, <1>8 DEF supervisor
<1>9. ASSUME NEW s \in Stream, Read(s) \/ ReadError(s) \/ ReaderPanics(s) \/ CloseStream(s)
      PROVE  UNCHANGED supervisor
  BY <1>9 DEF Read, ReadData, ReadEof, Send, ReadError, ReaderPanics, CloseStream
<1>10. ASSUME NEW x \in Proc, Exit(x) \/ \E s \in Stream : Write(x, s) PROVE UNCHANGED supervisor
  BY <1>10 DEF Exit, Write
<1>11. CASE Fork \/ Escape \/ ReusePid \/ Cancel \/ Tick \/ UNCHANGED vars
  BY <1>11, <1>8 DEF Fork, Escape, ReusePid, Cancel, Tick, vars
<1>12. QED
  BY <1>1, <1>2, <1>3, <1>4, <1>6, <1>7, <1>8, <1>9, <1>10, <1>11
     DEF Next, Supervise, Environment

(* The events and the readers.                                             *)
LEMMA ReaderTypesKept == TypeInv /\ [Next]_vars => ReaderTypes'
<1> SUFFICES ASSUME TypeInv, [Next]_vars PROVE ReaderTypes'
  OBVIOUS
<1>0. ReaderTypes
  BY DEF TypeInv
<1> USE DEF ReaderTypes
<1>1. ASSUME NEW s \in Stream, NEW k \in {"Data", "Eof", "Error", "Limit"}, NEW n \in 0..Chunk
      PROVE  Ev(k, s, n) \in Event
  BY DEF Ev, Event
<1>2. NoEvent \in Event
  BY DEF NoEvent, Ev, Event, Stream
<1>3. ASSUME NEW s \in Stream, NEW e \in Event, NEW t \in Nat, Sending(s, e, t), UNCHANGED chan
      PROVE  ReaderTypes'
  BY <1>0, <1>3 DEF Sending, ReaderState
<1>4. ASSUME NEW s \in Stream, ReadData(s) PROVE ReaderTypes'
  <2>1. PICK n : n = Min({ReadSize(s), pipe[s]})
    OBVIOUS
  <2>2. n \in Nat /\ n <= Chunk
    BY <1>4, <2>1, ReadBounds DEF ReadData
  <2>3. UNCHANGED chan /\ (Sending(s, Ev("Limit", s, 0), reader[s].total)
                             \/ Sending(s, Ev("Data", s, n), reader[s].total + n))
    BY <1>4, <2>1 DEF ReadData
  <2>4. /\ Ev("Limit", s, 0) \in Event /\ Ev("Data", s, n) \in Event
        /\ reader[s].total \in Nat /\ reader[s].total + n \in Nat
    BY <1>0, <1>1, <2>2
  <2>5. QED
    BY <1>3, <2>3, <2>4
<1>5. ASSUME NEW s \in Stream, ReadEof(s) \/ ReadError(s) PROVE ReaderTypes'
  <2>1. Ev("Eof", s, 0) \in Event /\ Ev("Error", s, 0) \in Event /\ reader[s].total \in Nat
    BY <1>0, <1>1
  <2>2. QED
    BY <1>3, <1>5, <2>1 DEF ReadEof, ReadError
<1>6. ASSUME NEW s \in Stream, Send(s) PROVE ReaderTypes'
  <2>1. PICK e \in Event : e = reader[s].ev
    BY <1>0
  <2>2. \/ UNCHANGED chan
        \/ Len(chan) < Capacity /\ chan' = Append(chan, e)
    BY <1>6, <2>1 DEF Send
  <2>3. chan' \in Seq(Event) /\ Len(chan') <= Capacity
    <3>1. Capacity \in Nat /\ Len(chan) \in Nat /\ Len(chan) <= Capacity
      BY <1>0
    <3>2. Append(chan, e) \in Seq(Event) /\ Len(Append(chan, e)) = Len(chan) + 1
      BY <1>0
    <3>3. CASE UNCHANGED chan
      BY <1>0, <3>3
    <3>4. CASE Len(chan) < Capacity /\ chan' = Append(chan, e)
      <4>1. chan' \in Seq(Event)
        BY <3>2, <3>4
      <4>2. Len(chan') = Len(chan) + 1
        BY <3>2, <3>4
      <4>3. QED
        BY <3>1, <3>4, <4>1, <4>2
    <3>5. QED
      BY <2>2, <3>3, <3>4
  <2>4. PICK st \in ReaderState : reader' = [reader EXCEPT ![s].st = st, ![s].ev = NoEvent]
    BY <1>6 DEF Send, ReaderState
  <2>5. reader' \in [Stream -> [st : ReaderState, total : Nat, ev : Event]]
    BY <1>0, <1>2, <2>4
  <2>6. QED
    BY <2>3, <2>5
<1>7. ASSUME NEW s \in Stream, ReaderPanics(s) PROVE ReaderTypes'
  BY <1>0, <1>7 DEF ReaderPanics, ReaderState
<1>8. CASE Drain \/ Recv
  <2>1. UNCHANGED reader /\ (UNCHANGED chan \/ (chan # <<>> /\ chan' = Tail(chan)))
    BY <1>8 DEF Drain, Recv, HandleEvent
  <2>2. chan # <<>> => Tail(chan) \in Seq(Event) /\ Len(Tail(chan)) = Len(chan) - 1
    BY <1>0
  <2>3. Capacity \in Nat /\ Len(chan) \in Nat /\ Len(chan) <= Capacity
    BY <1>0
  <2>4. CASE UNCHANGED chan
    BY <1>0, <2>1, <2>4
  <2>5. CASE chan # <<>> /\ chan' = Tail(chan)
    <3>1. chan' \in Seq(Event) /\ Len(chan') = Len(chan) - 1
      BY <2>2, <2>5
    <3>2. Len(chan') <= Capacity
      BY <2>3, <3>1
    <3>3. QED
      BY <1>0, <2>1, <3>1, <3>2
  <2>6. QED
    BY <2>1, <2>4, <2>5
<1>9. CASE Reap
  BY <1>0, <1>9 DEF Reap
<1>10. ASSUME NEW started \in StartedBefore, SpawnReaders(started) PROVE ReaderTypes'
  BY <1>0, <1>10 DEF SpawnReaders, ReaderState
<1>11. ASSUME UNCHANGED <<reader, chan>> PROVE ReaderTypes'
  BY <1>0, <1>11
<1>12. ASSUME NEW r \in Request, Start(r) PROVE UNCHANGED <<reader, chan>>
  BY <1>12 DEF Start
<1>13. CASE Spawn \/ SpawnFails \/ Top \/ TryWait \/ TryWaitFails \/ KillTree \/ Terminate \/ Join
  BY <1>11, <1>13 DEF Spawn, SpawnFails, Top, TryWait, TryWaitFails, KillTree, Terminate, Join
<1>14. ASSUME NEW x \in Proc, Exit(x) \/ \E s \in Stream : Write(x, s) PROVE UNCHANGED <<reader, chan>>
  BY <1>14 DEF Exit, Write
<1>15. ASSUME NEW s \in Stream, CloseStream(s) PROVE UNCHANGED <<reader, chan>>
  BY <1>15 DEF CloseStream
<1>16. CASE Fork \/ Escape \/ ReusePid \/ Cancel \/ Tick \/ UNCHANGED vars
  BY <1>11, <1>16 DEF Fork, Escape, ReusePid, Cancel, Tick, vars
<1>17. QED
  BY <1>4, <1>5, <1>6, <1>7, <1>8, <1>9, <1>10, <1>11, <1>12, <1>13, <1>14, <1>15, <1>16
     DEF Next, Supervise, Environment, Read

(* A kill changes nobody outside the set, and opens no write end.          *)
LEMMA KilledEffect ==
  ASSUME TreeTypes, NEW S \in SUBSET Proc, Killed(S)
  PROVE  /\ proc' \in [Proc -> {"none", "running", "escaped", "zombie", "reaped", "gone"}]
         /\ holds' \in [Proc -> SUBSET Stream]
         /\ \A x \in Proc : holds'[x] \subseteq holds[x]
         /\ \A x \in Proc \ S : proc'[x] = proc[x]
         /\ \A x \in S : proc'[x] \notin {"running", "escaped"}
         /\ proc["child"] \notin {"running", "escaped"} => proc'["child"] = proc["child"]
         /\ proc["descendant"] \notin {"running", "escaped"} => proc'["descendant"] = proc["descendant"]
         /\ proc["child"] \in {"running", "escaped"} => proc'["child"] \in {proc["child"], "zombie"}
         /\ proc["descendant"] \in {"running", "escaped"} => proc'["descendant"] \in {proc["descendant"], "gone"}
<1>1. "child" \in Proc /\ "descendant" \in Proc
  BY DEF Proc
<1>2. ASSUME NEW x \in Proc
      PROVE  proc'[x] = IF x \in S /\ proc[x] \in {"running", "escaped"}
                        THEN (IF x = "child" THEN "zombie" ELSE "gone") ELSE proc[x]
  BY DEF Killed
<1>3. proc' \in [Proc -> {"none", "running", "escaped", "zombie", "reaped", "gone"}]
  BY DEF Killed, TreeTypes
<1>4. holds' \in [Proc -> SUBSET Stream] /\ \A x \in Proc : holds'[x] \subseteq holds[x]
  BY DEF Killed, TreeTypes
<1>5. QED
  BY <1>1, <1>2, <1>3, <1>4

(* The processes and their pipes.                                          *)
LEMMA TreeTypesKept == TypeInv /\ [Next]_vars => TreeTypes'
<1> SUFFICES ASSUME TypeInv, [Next]_vars PROVE TreeTypes'
  OBVIOUS
<1>0. TreeTypes /\ "child" \in Proc /\ "descendant" \in Proc
  BY DEF TypeInv, Proc
<1>1. ASSUME NEW S \in SUBSET Proc, Killed(S), UNCHANGED <<pipe, wrote>> PROVE TreeTypes'
  BY <1>0, <1>1, KilledEffect DEF TreeTypes
<1>2. ASSUME UNCHANGED <<proc, holds, pipe, wrote>> PROVE TreeTypes'
  BY <1>0, <1>2 DEF TreeTypes
<1>3. Group \in SUBSET Proc /\ {"child"} \in SUBSET Proc
  BY DEF Group, Proc
<1>4. CASE KillTree \/ Terminate
  <2>1. UNCHANGED <<pipe, wrote>> /\ (UNCHANGED <<proc, holds>> \/ Killed(Group) \/ Killed({"child"}))
    BY <1>4 DEF KillTree, Terminate, KillGroup
  <2>2. QED
    BY <1>1, <1>2, <1>3, <2>1
<1>5. CASE Spawn \/ TryWait \/ Reap \/ Fork \/ Escape
  <2>1. UNCHANGED <<pipe, wrote>>
    BY <1>5 DEF Spawn, TryWait, Reap, Fork, Escape
  <2>2. proc' \in [Proc -> {"none", "running", "escaped", "zombie", "reaped", "gone"}]
    BY <1>0, <1>5 DEF Spawn, TryWait, Reap, Fork, Escape, TreeTypes
  <2>3. holds' \in [Proc -> SUBSET Stream]
    <3>1. \/ holds' = holds
          \/ holds' = [holds EXCEPT !["child"] = Stream]
          \/ holds' = [holds EXCEPT !["descendant"] = holds["child"]]
      BY <1>5 DEF Spawn, TryWait, Reap, Fork, Escape
    <3>2. QED
      BY <1>0, <3>1 DEF TreeTypes, Proc
  <2>4. QED
    BY <1>0, <2>1, <2>2, <2>3 DEF TreeTypes
<1>6. ASSUME NEW x \in Proc, Exit(x) PROVE TreeTypes'
  <2>1. {x} \in SUBSET Proc /\ Killed({x}) /\ UNCHANGED <<pipe, wrote>>
    BY <1>6 DEF Exit
  <2>2. QED
    BY <1>1, <2>1
<1>7. ASSUME NEW x \in Proc, NEW s \in Stream, Write(x, s) PROVE TreeTypes'
  <2>1. pipe[s] \in Nat /\ pipe[s] < PipeSize /\ wrote[s] \in Nat /\ wrote[s] < MaxWrite[s]
    BY <1>0, <1>7 DEF Write, TreeTypes
  <2>2. pipe' \in [Stream -> 0..PipeSize] /\ wrote' \in [Stream -> Nat]
    BY <1>0, <1>7, <2>1 DEF Write, TreeTypes
  <2>3. \A q \in Stream : wrote'[q] <= MaxWrite[q]
    BY <1>0, <1>7, <2>1 DEF Write, TreeTypes
  <2>4. QED
    BY <1>0, <1>7, <2>2, <2>3 DEF Write, TreeTypes
<1>8. ASSUME NEW s \in Stream, ReadData(s) PROVE TreeTypes'
  <2>1. PICK n : n = Min({ReadSize(s), pipe[s]})
    OBVIOUS
  <2>2. n \in Nat /\ n <= pipe[s]
    BY <1>8, <2>1, ReadBounds DEF ReadData
  <2>3. pipe' = [pipe EXCEPT ![s] = pipe[s] - n] /\ UNCHANGED <<proc, holds, wrote>>
    BY <1>8, <2>1 DEF ReadData, tree
  <2>4. QED
    BY <1>0, <2>2, <2>3 DEF TreeTypes
<1>9. ASSUME NEW s \in Stream, CloseStream(s) PROVE TreeTypes'
  BY <1>0, <1>9 DEF CloseStream, TreeTypes
<1>10. ASSUME NEW s \in Stream, ReadEof(s) \/ Send(s) \/ ReadError(s) \/ ReaderPanics(s)
       PROVE  UNCHANGED <<proc, holds, pipe, wrote>>
  BY <1>10 DEF ReadEof, Send, ReadError, ReaderPanics, tree
<1>11. ASSUME NEW r \in Request, Start(r) PROVE UNCHANGED <<proc, holds, pipe, wrote>>
  BY <1>11 DEF Start, tree
<1>12. ASSUME NEW started \in StartedBefore, SpawnReaders(started)
       PROVE  UNCHANGED <<proc, holds, pipe, wrote>>
  BY <1>12 DEF SpawnReaders, tree
<1>13. CASE SpawnFails \/ Top \/ TryWaitFails \/ Drain \/ Recv \/ Join
  BY <1>2, <1>13 DEF SpawnFails, Top, TryWaitFails, Drain, Recv, Join, tree
<1>14. CASE ReusePid \/ Cancel \/ Tick \/ UNCHANGED vars
  BY <1>2, <1>14 DEF ReusePid, Cancel, Tick, vars, tree
<1>15. QED
  BY <1>2, <1>4, <1>5, <1>6, <1>7, <1>8, <1>9, <1>10, <1>11, <1>12, <1>13, <1>14
     DEF Next, Supervise, Environment, Read
-----------------------------------------------------------------------------
(* What the supervisor knows of the tree stays true, whoever moves.        *)
LEMMA TreeInvNext == TypeInv /\ TreeInv /\ [Next]_vars => TreeInv'
<1> SUFFICES ASSUME TypeInv, TreeInv, [Next]_vars PROVE TreeInv'
  OBVIOUS
<1>0. TreeTypes /\ FlagTypes /\ "child" \in Proc /\ "descendant" \in Proc /\ "child" # "descendant"
  BY DEF TypeInv, Proc
<1>1. ASSUME UNCHANGED <<status, treeKilled, proc, reused, strayKill, mode, pc>> PROVE TreeInv'
  BY <1>1 DEF TreeInv
<1>2. ASSUME NEW r \in Request, Start(r) PROVE TreeInv'
  BY <1>2 DEF Start, TreeInv, tree
<1>3. CASE Spawn
  BY <1>0, <1>3 DEF Spawn, TreeInv, TreeTypes
<1>4. CASE SpawnFails
  BY <1>4 DEF SpawnFails, TreeInv, tree
<1>5. ASSUME NEW started \in StartedBefore, SpawnReaders(started) PROVE TreeInv'
  BY <1>5 DEF SpawnReaders, TreeInv, tree
<1>6. CASE Top \/ TryWaitFails \/ Drain \/ Recv
  <2>1. UNCHANGED <<status, treeKilled, proc, reused, strayKill, mode>>
    BY <1>6 DEF Top, TryWaitFails, Drain, Recv, tree
  <2>2. /\ pc \in {"Top", "TryWait", "Drain", "Recv"}
        /\ pc' \in {"Terminate", "Drain", "TryWait", "Join", "Recv", "Top"}
        /\ pc' = "TryWait" => ~status
        /\ pc' = "Join" => status
    BY <1>6 DEF Top, TryWaitFails, Drain, Recv
  <2>3. QED
    BY <2>1, <2>2 DEF TreeInv
<1>7. CASE TryWait
  <2>1. CASE proc["child"] = "zombie"
    <3>1. /\ status' /\ treeKilled' /\ pc' = "KillTree" /\ pc = "TryWait"
          /\ proc' = [proc EXCEPT !["child"] = "reaped"]
          /\ UNCHANGED <<mode, reused, strayKill>>
      BY <1>7, <2>1 DEF TryWait
    <3>2. proc'["child"] = "reaped" /\ proc'["descendant"] = proc["descendant"]
      BY <1>0, <3>1 DEF TreeTypes
    <3>3. QED
      BY <2>1, <3>1, <3>2 DEF TreeInv
  <2>2. CASE proc["child"] # "zombie"
    BY <1>7, <2>2 DEF TryWait, TreeInv
  <2>3. QED
    BY <2>1, <2>2
<1>8. Group \in SUBSET Proc /\ {"child"} \in SUBSET Proc
  BY DEF Group, Proc
<1>9. CASE KillTree
  <2>1. /\ pc = "KillTree" /\ pc' = "Drain" /\ status /\ proc["child"] = "reaped" /\ reused # "later"
        /\ UNCHANGED <<mode, status, treeKilled, reused>>
    BY <1>9 DEF KillTree, TreeInv
  <2>2. CASE mode = "Isolated"
    <3>0. reused \in {"no", "beforeKill"}
      BY <2>1 DEF TypeInv, FlagTypes, Reuse
    <3>1. Killed(Group) /\ (strayKill' => reused = "beforeKill")
      BY <1>9, <2>1, <2>2, <3>0 DEF KillTree, KillGroup, TreeInv
    <3>2. proc'["child"] = "reaped" /\ proc'["descendant"] # "running"
      BY <1>0, <1>8, <2>1, <3>1, KilledEffect DEF Group
    <3>3. QED
      BY <2>1, <3>1, <3>2 DEF TreeInv
  <2>3. CASE mode # "Isolated"
    BY <1>9, <2>1, <2>3 DEF KillTree, TreeInv
  <2>4. QED
    BY <2>2, <2>3
<1>10. CASE Terminate
  <2>1. pc = "Terminate" /\ pc' = "Reap" /\ UNCHANGED <<mode, status, treeKilled, reused>>
    BY <1>10 DEF Terminate
  <2>2. CASE treeKilled
    BY <1>10, <2>1, <2>2 DEF Terminate, TreeInv
  <2>3. CASE ~treeKilled
    <3>1. ~status /\ reused = "no" /\ proc["child"] \in {"running", "zombie"} /\ ~strayKill
      BY <2>1, <2>3 DEF TreeInv
    <3>2. CASE mode = "Isolated"
      <4>1. Killed(Group) /\ ~strayKill'
        BY <1>10, <2>3, <3>1, <3>2 DEF Terminate, KillGroup
      <4>2. "child" \in Group /\ (proc["descendant"] = "running" => "descendant" \in Group)
        BY <1>0, <3>1 DEF Group
      <4>3. proc'["child"] = "zombie" /\ proc'["descendant"] # "running"
        BY <1>0, <1>8, <3>1, <4>1, <4>2, KilledEffect
      <4>4. QED
        BY <2>1, <3>1, <4>1, <4>3 DEF TreeInv
    <3>3. CASE mode # "Isolated"
      <4>1. Killed({"child"}) /\ UNCHANGED strayKill
        BY <1>10, <2>3, <3>3 DEF Terminate
      <4>2. proc'["child"] = "zombie" /\ proc'["descendant"] = proc["descendant"]
        BY <1>0, <1>8, <3>1, <4>1, KilledEffect
      <4>3. QED
        BY <2>1, <3>1, <3>3, <4>1, <4>2 DEF TreeInv
    <3>4. QED
      BY <3>2, <3>3
  <2>4. QED
    BY <2>2, <2>3
<1>11. CASE Reap
  <2>1. /\ pc = "Reap" /\ pc' = "Done"
        /\ UNCHANGED <<mode, status, treeKilled, reused, strayKill>>
        /\ proc'["child"] = "reaped" /\ proc'["descendant"] = proc["descendant"]
    BY <1>0, <1>11 DEF Reap, TreeTypes
  <2>2. QED
    BY <2>1 DEF TreeInv
<1>12. CASE Join
  BY <1>12 DEF Join, TreeInv, tree
<1>13. ASSUME NEW x \in Proc, Exit(x) PROVE TreeInv'
  <2>1. /\ Killed({x}) /\ proc[x] \in {"running", "escaped"} /\ {x} \in SUBSET Proc
        /\ UNCHANGED <<pc, mode, status, treeKilled, reused, strayKill>>
    BY <1>13 DEF Exit, Alive, supervisor
  <2>2. CASE x = "child"
    <3>1. proc'["child"] = "zombie" /\ proc'["descendant"] = proc["descendant"]
      BY <1>0, <2>1, <2>2, KilledEffect
    <3>2. QED
      BY <2>1, <2>2, <3>1 DEF TreeInv
  <2>3. CASE x = "descendant"
    <3>1. proc'["descendant"] = "gone" /\ proc'["child"] = proc["child"]
      BY <1>0, <2>1, <2>3, KilledEffect
    <3>2. QED
      BY <2>1, <2>3, <3>1 DEF TreeInv
  <2>4. QED
    BY <2>2, <2>3 DEF Proc
<1>14. CASE Fork \/ Escape
  <2>1. /\ proc'["child"] = proc["child"] /\ proc["child"] # "none"
        /\ UNCHANGED <<pc, mode, status, treeKilled, reused, strayKill>>
        /\ proc'["descendant"] # "running" \/ proc["child"] = "running"
    BY <1>0, <1>14 DEF Fork, Escape, TreeTypes, supervisor, TreeInv
  <2>2. QED
    BY <2>1 DEF TreeInv
<1>15. CASE ReusePid
  BY <1>15 DEF ReusePid, TreeInv, supervisor
<1>16. ASSUME NEW s \in Stream, Read(s) \/ ReadError(s) \/ ReaderPanics(s) \/ CloseStream(s)
       PROVE  UNCHANGED <<status, treeKilled, proc, reused, strayKill, mode, pc>>
  BY <1>16 DEF Read, ReadData, ReadEof, Send, ReadError, ReaderPanics, CloseStream, supervisor, tree
<1>17. ASSUME NEW x \in Proc, NEW s \in Stream, Write(x, s)
       PROVE  UNCHANGED <<status, treeKilled, proc, reused, strayKill, mode, pc>>
  BY <1>17 DEF Write, supervisor
<1>18. CASE Cancel \/ Tick \/ UNCHANGED vars
  BY <1>1, <1>18 DEF Cancel, Tick, vars, supervisor, tree
<1>19. QED
  BY <1>1, <1>2, <1>3, <1>4, <1>5, <1>6, <1>7, <1>9, <1>10, <1>11, <1>12, <1>13, <1>14, <1>15,
     <1>16, <1>17, <1>18 DEF Next, Supervise, Environment
-----------------------------------------------------------------------------
(* The two operations of the channel, position by position.                *)
LEMMA TailOf ==
  ASSUME NEW q \in Seq(Event), q # <<>>
  PROVE  /\ Len(q) \in Nat /\ Len(q) > 0 /\ Len(Tail(q)) = Len(q) - 1 /\ Head(q) = q[1]
         /\ q[1] \in Event
         /\ \A i \in 1..Len(Tail(q)) : Tail(q)[i] = q[i + 1] /\ i + 1 \in 1..Len(q)
<1>1. Len(q) \in Nat /\ Len(q) > 0 /\ Head(q) = q[1] /\ q[1] \in Event
  OBVIOUS
<1>2. Tail(q) \in Seq(Event) /\ Len(Tail(q)) = Len(q) - 1
  OBVIOUS
<1>3. ASSUME NEW i \in 1..Len(Tail(q)) PROVE Tail(q)[i] = q[i + 1] /\ i + 1 \in 1..Len(q)
  BY <1>1, <1>2
<1>4. QED
  BY <1>1, <1>2, <1>3

(* An event at the end of the channel.                                     *)
LEMMA AppendTo ==
  ASSUME NEW q \in Seq(Event), NEW e \in Event
  PROVE  /\ Len(q) \in Nat /\ Len(Append(q, e)) = Len(q) + 1 /\ Append(q, e)[Len(q) + 1] = e
         /\ \A i \in 1..Len(q) : Append(q, e)[i] = q[i]
  OBVIOUS

(* A step of the reader of another stream, or of a process that writes to  *)
(* another stream.                                                         *)
LEMMA OtherStream ==
  ASSUME ByteInv, NEW s \in Stream, UNCHANGED <<got, eof, open, chan, holds>>,
         reader'[s] = reader[s], pipe'[s] = pipe[s], wrote'[s] = wrote[s]
  PROVE  Ledger(s)' /\ Order(s)' /\ Counted(s)'
<1>0. Ledger(s) /\ Order(s) /\ Counted(s)
  BY DEF ByteInv
<1>1. Ledger(s)'
  BY <1>0 DEF Ledger, Sums, Ready
<1>2. Order(s)'
  BY <1>0 DEF Order, Queued
<1>3. (\A kinds : Ready(s, kinds)' <=> Ready(s, kinds)) /\ (\A kinds : Queued(s, kinds)' <=> Queued(s, kinds))
  BY DEF Ready, Queued
<1>4. (AtEnd(s)' <=> AtEnd(s)) /\ (Held(s)' <=> Held(s))
  BY <1>3 DEF AtEnd, Held
<1>5. Counted(s)'
  BY <1>0, <1>3, <1>4 DEF Counted
<1>6. QED
  BY <1>1, <1>2, <1>5

(* The numbers of a stream.                                                *)
LEMMA Numbers ==
  ASSUME TypeInv, NEW s \in Stream
  PROVE  /\ reader[s].total \in Nat /\ pipe[s] \in Nat /\ wrote[s] \in Nat /\ got[s] \in Nat
         /\ Limit[s] \in Nat /\ reader[s].ev \in Event /\ reader[s].ev.bytes \in Nat
         /\ chan \in Seq(Event) /\ Len(chan) \in Nat
         /\ \A i \in 1..Len(chan) : chan[i] \in Event /\ chan[i].bytes \in Nat
         /\ reader \in [Stream -> [st : ReaderState, total : Nat, ev : Event]]
<1>1. chan \in Seq(Event) /\ reader \in [Stream -> [st : ReaderState, total : Nat, ev : Event]]
  BY DEF TypeInv, ReaderTypes
<1>2. pipe[s] \in Nat /\ wrote[s] \in Nat /\ got[s] \in Nat /\ Limit[s] \in Nat
  BY DEF TypeInv, TreeTypes, SupervisorTypes
<1>3. reader[s].total \in Nat /\ reader[s].ev \in Event /\ reader[s].ev.bytes \in Nat
  BY <1>1 DEF Event
<1>4. ASSUME NEW i \in 1..Len(chan) PROVE chan[i] \in Event /\ chan[i].bytes \in Nat
  <2>1. chan[i] \in Event
    BY <1>1
  <2>2. QED
    BY <2>1 DEF Event
<1>5. QED
  BY <1>1, <1>2, <1>3, <1>4

(* A read moves n bytes from the pipe, which keeps p, to the event e the   *)
(* reader is about to send.                                                *)
LEMMA EventMade ==
  ASSUME TypeInv, ByteInv, NEW s \in Stream, NEW e, NEW n \in Nat, NEW p \in Nat,
         reader[s].st = "reading", Sending(s, e, reader[s].total + n),
         pipe' = [pipe EXCEPT ![s] = p],
         UNCHANGED <<got, eof, open, chan, holds, wrote>>,
         e.stream = s, n = (IF e.kind = "Data" THEN e.bytes ELSE 0),
         p + n <= pipe[s], e.kind # "Limit" => p + n = pipe[s],
         e.kind = "Eof" => p = 0 /\ ~Held(s),
         e.kind = "Limit" => wrote[s] > Limit[s],
         reader[s].total + n <= Limit[s]
  PROVE  \A q \in Stream : Ledger(q)' /\ Order(q)' /\ Counted(q)'
<1>0. Ledger(s) /\ Order(s) /\ Counted(s)
  BY DEF ByteInv
<1>1. PICK t \in Nat : t = reader[s].total
  BY Numbers
<1>2. /\ Len(chan) \in Nat /\ pipe[s] \in Nat /\ wrote[s] \in Nat /\ got[s] \in Nat /\ Limit[s] \in Nat
  BY Numbers
<1>3. reader'[s].st = "sending" /\ reader'[s].total = t + n /\ reader'[s].ev = e
  BY <1>1, Numbers DEF Sending
<1>4. pipe'[s] = p
  BY DEF TypeInv, TreeTypes
<1>5. s \notin eof /\ ~Queued(s, Last)
  BY <1>0 DEF Order
<1>6. Ledger(s)'
  <2> SUFFICES ASSUME open PROVE \E f \in [0..Len(chan) -> Nat] : Sums(s, f)'
    BY DEF Ledger
  <2>1. PICK f \in [0..Len(chan) -> Nat] : Sums(s, f)
    BY <1>0 DEF Ledger
  <2>2. f[Len(chan)] = t
    <3>1. t = f[Len(chan)] + 0
      BY <1>1, <2>1 DEF Sums, Ready
    <3>2. f[Len(chan)] \in Nat
      <4>1. Len(chan) \in 0..Len(chan)
        BY <1>2
      <4>2. QED
        BY <2>1, <4>1
    <3>3. QED
      BY <3>1, <3>2
  <2>3. \A i \in 1..Len(chan) : ~(chan[i].stream = s /\ chan[i].kind = "Eof")
    BY <1>5 DEF Queued, Last
  <2>4. f[0] = got[s] /\ \A i \in 1..Len(chan) : f[i] = f[i - 1] + Gain(chan[i], s)
    BY <2>1 DEF Sums
  <2>5. ASSUME NEW i \in 0..Len(chan) PROVE f[i] <= t + n
    <3>1. f[i] \in Nat /\ f[i] <= t
      BY <1>1, <2>1 DEF Sums
    <3>2. QED
      BY <3>1
  <2>6. t + n = f[Len(chan)] + (IF Ready(s, {"Data"})' THEN reader'[s].ev.bytes ELSE 0)
    BY <1>3, <2>2 DEF Ready
  <2>7. Sums(s, f)'
    BY <1>3, <2>3, <2>4, <2>5, <2>6 DEF Sums, Gain
  <2>8. QED
    BY <2>1, <2>7
<1>7. Order(s)'
  BY <1>0, <1>3, <1>5 DEF Order, Queued
<1>8. Counted(s)'
  <2>1. ~Queued(s, Last)' /\ (Held(s)' <=> Held(s))
    BY <1>5 DEF Queued, Held
  <2>2. ~Queued(s, {"Eof"})' /\ ~Queued(s, {"Limit"})'
    BY <2>1 DEF Queued, Last
  <2>3. AtEnd(s)' => e.kind = "Eof"
    BY <1>3, <1>5, <2>2 DEF AtEnd, Ready
  <2>4. /\ Ready(s, {"Limit"})' => e.kind = "Limit"
        /\ Ready(s, {"Data", "Eof", "Error"})' => e.kind # "Limit"
    BY <1>3 DEF Ready
  <2>5. t + pipe[s] = wrote[s] /\ got[s] <= t
    BY <1>0, <1>1 DEF Counted
  <2>6. (t + n) + p <= wrote[s] /\ got[s] <= t + n
    <3>1. ASSUME NEW m \in Nat, NEW w \in Nat, NEW g \in Nat, t + m = w, p + n <= m, g <= t
          PROVE  (t + n) + p <= w /\ g <= t + n
      BY <3>1
    <3>2. QED
      BY <1>2, <2>5, <3>1
  <2>7. e.kind # "Limit" => wrote[s] = (t + n) + p
    <3>1. ASSUME NEW m \in Nat, NEW w \in Nat, t + m = w, p + n = m
          PROVE  w = (t + n) + p
      BY <3>1
    <3>2. QED
      BY <1>2, <2>5, <3>1
  <2>8. e.kind = "Eof" => wrote[s] = (t + n) /\ p = 0
    <3>1. ASSUME e.kind = "Eof" PROVE p = 0 /\ wrote[s] = (t + n) + p
      BY <2>7, <3>1
    <3>2. QED
      BY <3>1
  <2>9. QED
    BY <1>1, <1>3, <1>4, <1>5, <2>1, <2>2, <2>3, <2>4, <2>6, <2>7, <2>8 DEF Counted
<1>9. ASSUME NEW q \in Stream, q # s PROVE Ledger(q)' /\ Order(q)' /\ Counted(q)'
  <2>1. reader'[q] = reader[q] /\ pipe'[q] = pipe[q] /\ wrote'[q] = wrote[q]
    BY <1>9, Numbers DEF Sending, TypeInv, TreeTypes
  <2>2. QED
    BY <1>9, <2>1, OtherStream
<1>10. QED
  BY <1>6, <1>7, <1>8, <1>9

(* The reads: some bytes, the byte beyond the limit, the end, an error.    *)
LEMMA ReadKeepsBytes ==
  ASSUME TypeInv, ByteInv, NEW s \in Stream, ReadData(s) \/ ReadEof(s) \/ ReadError(s)
  PROVE  \A q \in Stream : Ledger(q)' /\ Order(q)' /\ Counted(q)'
<1>0. /\ reader[s].st = "reading" /\ UNCHANGED <<got, eof, open, chan, holds, wrote>>
      /\ Counted(s)
  BY DEF ReadData, ReadEof, ReadError, supervisor, tree, ByteInv
<1>1. PICK t \in Nat : t = reader[s].total
  BY Numbers
<1>2. PICK m \in Nat : m = pipe[s]
  BY Numbers
<1>3. /\ wrote[s] \in Nat /\ Limit[s] \in Nat /\ wrote[s] = t + m /\ t <= Limit[s]
  BY <1>0, <1>1, <1>2, Numbers DEF Counted
<1>4. CASE ReadData(s)
  <2>1. PICK n : n = Min({ReadSize(s), pipe[s]})
    OBVIOUS
  <2>2. n \in Nat \ {0} /\ n <= m /\ Remaining(s) \in Nat
    BY <1>2, <1>4, <2>1, ReadBounds DEF ReadData
  <2>3. Remaining(s) = Limit[s] - t
    BY <1>1, <1>3 DEF Remaining
  <2>4. m - n \in Nat /\ pipe' = [pipe EXCEPT ![s] = m - n]
    BY <1>2, <1>4, <2>1, <2>2 DEF ReadData
  <2>5. CASE n > Remaining(s)
    <3>1. Sending(s, Ev("Limit", s, 0), reader[s].total + 0)
      BY <1>1, <1>4, <2>1, <2>5 DEF ReadData
    <3>2. wrote[s] > Limit[s] /\ (m - n) + 0 <= pipe[s] /\ reader[s].total + 0 <= Limit[s]
      BY <1>1, <1>2, <1>3, <2>2, <2>3, <2>5
    <3>3. Ev("Limit", s, 0).kind = "Limit" /\ Ev("Limit", s, 0).stream = s
      BY DEF Ev
    <3>4. QED
      BY <1>0, <2>4, <3>1, <3>2, <3>3, EventMade
  <2>6. CASE ~(n > Remaining(s))
    <3>1. Sending(s, Ev("Data", s, n), reader[s].total + n)
      BY <1>4, <2>1, <2>6 DEF ReadData
    <3>2. (m - n) + n = pipe[s] /\ reader[s].total + n <= Limit[s] /\ (m - n) + n <= pipe[s]
      BY <1>1, <1>2, <1>3, <2>2, <2>3, <2>6
    <3>3. Ev("Data", s, n).kind = "Data" /\ Ev("Data", s, n).stream = s /\ Ev("Data", s, n).bytes = n
      BY DEF Ev
    <3>4. QED
      BY <1>0, <2>2, <2>4, <3>1, <3>2, <3>3, EventMade
  <2>7. QED
    BY <2>5, <2>6
<1>5. CASE ReadEof(s) \/ ReadError(s)
  <2>1. PICK k \in {"Eof", "Error"} : /\ Sending(s, Ev(k, s, 0), reader[s].total)
                                      /\ k = "Eof" => pipe[s] = 0 /\ ~Held(s)
    BY <1>5 DEF ReadEof, ReadError
  <2>2. pipe' = [pipe EXCEPT ![s] = m]
    BY <1>2, <1>5 DEF ReadEof, ReadError, TypeInv, TreeTypes
  <2>3. Sending(s, Ev(k, s, 0), reader[s].total + 0)
    BY <1>1, <2>1
  <2>4. Ev(k, s, 0).kind = k /\ Ev(k, s, 0).stream = s
    BY DEF Ev
  <2>5. m + 0 = pipe[s] /\ m + 0 <= pipe[s] /\ reader[s].total + 0 <= Limit[s]
    BY <1>1, <1>2, <1>3
  <2>6. k = "Eof" => m = 0 /\ ~Held(s)
    BY <1>2, <2>1
  <2>7. QED
    BY <1>0, <2>1, <2>2, <2>3, <2>4, <2>5, <2>6, EventMade
<1>6. QED
  BY <1>4, <1>5

(* A sent event is one more position of the channel, for every stream.     *)
LEMMA SendKeepsBytes ==
  ASSUME TypeInv, ByteInv, NEW s \in Stream, Send(s)
  PROVE  \A q \in Stream : Ledger(q)' /\ Order(q)' /\ Counted(q)'
<1> SUFFICES ASSUME NEW q \in Stream PROVE Ledger(q)' /\ Order(q)' /\ Counted(q)'
  OBVIOUS
<1>0. Ledger(q) /\ Order(q) /\ Counted(q) /\ Order(s)
  BY DEF ByteInv
<1>1. PICK e \in Event : e = reader[s].ev
  BY Numbers
<1>2. PICK L \in Nat : L = Len(chan)
  BY Numbers
<1>3. /\ reader[s].st = "sending" /\ e.stream = s
      /\ UNCHANGED <<got, eof, open, holds, wrote, pipe>>
  BY <1>0, <1>1 DEF Send, Order, supervisor, tree
<1>4. s \notin eof /\ ~Queued(s, Last)
  BY <1>0, <1>3 DEF Order
<1>5. /\ reader'[q].total = reader[q].total
      /\ q # s => reader'[q] = reader[q]
      /\ reader'[s].st \in {"reading", "done"}
      /\ open => reader'[s].st = (IF e.kind = "Data" THEN "reading" ELSE "done")
      /\ ~open => reader'[s].st = "done"
  <2>1. PICK k \in {"reading", "done"} :
          /\ k = (IF open /\ e.kind = "Data" THEN "reading" ELSE "done")
          /\ reader' = [reader EXCEPT ![s].st = k, ![s].ev = NoEvent]
    BY <1>1 DEF Send
  <2>2. reader'[s].st = k /\ reader'[q].total = reader[q].total /\ (q # s => reader'[q] = reader[q])
    BY <2>1, Numbers
  <2>3. QED
    BY <2>1, <2>2
<1>6. CASE ~open
  <2>1. UNCHANGED chan
    BY <1>6 DEF Send
  <2>2. Ledger(q)'
    BY <1>3, <1>6 DEF Ledger
  <2>3. CASE q # s
    BY <1>3, <1>5, <2>1, <2>3, OtherStream
  <2>4. CASE q = s
    <3>1. Order(s)'
      BY <1>0, <1>3, <1>4, <1>5, <1>6, <2>1 DEF Order, Queued
    <3>2. ~Queued(s, Last)' /\ (Held(s)' <=> Held(s))
      BY <1>3, <1>4, <2>1 DEF Queued, Held
    <3>3. ~Queued(s, {"Eof"})' /\ ~Queued(s, {"Limit"})'
      BY <3>2 DEF Queued, Last
    <3>4. ~AtEnd(s)' /\ \A kinds : ~Ready(s, kinds)'
      BY <1>3, <1>4, <1>5, <1>6, <3>3 DEF AtEnd, Ready
    <3>5. Counted(s)'
      BY <1>0, <1>3, <1>4, <1>5, <1>6, <2>4, <3>3, <3>4 DEF Counted
    <3>6. QED
      BY <2>2, <2>4, <3>1, <3>5
  <2>5. QED
    BY <2>3, <2>4
<1>7. CASE open
  <2>1. chan' = Append(chan, e)
    BY <1>1, <1>7 DEF Send
  <2>2. /\ Len(chan') = L + 1 /\ chan'[L + 1] = e
        /\ \A i \in 1..L : chan'[i] = chan[i]
    BY <1>2, <2>1, AppendTo, Numbers
  <2>3. ASSUME NEW kinds PROVE Queued(q, kinds)' <=> Queued(q, kinds) \/ (e.stream = q /\ e.kind \in kinds)
    <3>1. 1..(L + 1) = 1..L \cup {L + 1}
      BY <1>2
    <3>2. QED
      BY <1>2, <2>2, <3>1 DEF Queued
  <2>4. Ledger(q)'
    <3>1. PICK f \in [0..L -> Nat] : Sums(q, f)
      BY <1>0, <1>2, <1>7 DEF Ledger
    <3>2. PICK b \in Nat : b = Gain(e, q)
      BY DEF Gain, Event
    <3>3. PICK z \in Nat : z = f[L]
      <4>1. L \in 0..L
        OBVIOUS
      <4>2. QED
        BY <3>1, <4>1
    <3>4. PICK g \in [0..(L + 1) -> Nat] : /\ \A i \in 0..L : g[i] = f[i]
                                          /\ g[L + 1] = z + b
      <4> DEFINE h == [i \in 0..(L + 1) |-> IF i <= L THEN f[i] ELSE z + b]
      <4>1. h \in [0..(L + 1) -> Nat]
        BY <3>1
      <4>2. \A i \in 0..L : h[i] = f[i]
        OBVIOUS
      <4>3. h[L + 1] = z + b
        OBVIOUS
      <4> HIDE DEF h
      <4>4. QED
        BY <4>1, <4>2, <4>3
    <3>5. g[0] = got[q] /\ reader[q].total \in Nat
      BY <1>2, <3>1, <3>4, Numbers DEF Sums
    <3>6. ASSUME NEW i \in 1..(L + 1) PROVE g[i] = g[i - 1] + Gain(chan'[i], q)
      <4>1. CASE i \in 1..L
        <5>1. i \in 0..L /\ i - 1 \in 0..L
          BY <4>1
        <5>2. f[i] = f[i - 1] + Gain(chan[i], q)
          BY <1>2, <3>1, <4>1 DEF Sums
        <5>3. QED
          BY <2>2, <3>4, <4>1, <5>1, <5>2
      <4>2. CASE i = L + 1
        <5>1. i - 1 = L /\ L \in 0..L
          BY <4>2
        <5>2. QED
          BY <2>2, <3>2, <3>3, <3>4, <4>2, <5>1
      <4>3. QED
        BY <4>1, <4>2
    <3>7. /\ z + b <= reader[q].total
          /\ q = s => z + b = reader[q].total
          /\ q # s => b = 0
          /\ reader[q].total = z + (IF Ready(q, {"Data"}) THEN reader[q].ev.bytes ELSE 0)
      <4>1. reader[q].total = z + (IF Ready(q, {"Data"}) THEN reader[q].ev.bytes ELSE 0)
        BY <1>2, <3>1, <3>3 DEF Sums
      <4>2. q = s => reader[q].total = z + b
        BY <1>1, <1>3, <3>2, <4>1 DEF Ready, Gain
      <4>3. q # s => b = 0
        BY <1>3, <3>2 DEF Gain
      <4>4. z <= reader[q].total
        BY <1>2, <3>1, <3>3 DEF Sums
      <4>5. z + b <= reader[q].total
        <5>1. CASE q = s
          BY <3>5, <4>2, <5>1
        <5>2. CASE q # s
          BY <3>5, <4>3, <4>4, <5>2
        <5>3. QED
          BY <5>1, <5>2
      <4>6. QED
        BY <4>1, <4>2, <4>3, <4>5
    <3>8. ASSUME NEW i \in 0..(L + 1) PROVE g[i] <= reader[q].total
      <4>1. CASE i \in 0..L
        BY <1>2, <3>1, <3>4, <4>1 DEF Sums
      <4>2. CASE i = L + 1
        BY <3>4, <3>7, <4>2
      <4>3. QED
        BY <4>1, <4>2
    <3>9. ASSUME NEW i \in 1..(L + 1), chan'[i].stream = q, chan'[i].kind = "Eof"
          PROVE  g[i] = reader[q].total
      <4>1. CASE i \in 1..L
        <5>1. i \in 0..L
          BY <4>1
        <5>2. QED
          BY <1>2, <2>2, <3>1, <3>4, <3>9, <4>1, <5>1 DEF Sums
      <4>2. CASE i = L + 1
        BY <1>3, <2>2, <3>4, <3>7, <3>9, <4>2
      <4>3. QED
        BY <4>1, <4>2
    <3>10. reader[q].total = g[L + 1] + (IF Ready(q, {"Data"})' THEN reader'[q].ev.bytes ELSE 0)
      <4>1. CASE q = s
        <5>1. ~Ready(q, {"Data"})'
          BY <1>5, <4>1 DEF Ready
        <5>2. QED
          BY <3>4, <3>7, <4>1, <5>1
      <4>2. CASE q # s
        <5>1. (Ready(q, {"Data"})' <=> Ready(q, {"Data"})) /\ reader'[q].ev.bytes = reader[q].ev.bytes
          BY <1>5, <4>2 DEF Ready
        <5>2. g[L + 1] = z
          BY <3>4, <3>7, <4>2
        <5>3. QED
          BY <3>7, <5>1, <5>2
      <4>3. QED
        BY <4>1, <4>2
    <3>11. Sums(q, g)'
      BY <1>3, <1>5, <2>2, <3>5, <3>6, <3>8, <3>9, <3>10 DEF Sums
    <3>12. QED
      BY <2>2, <3>4, <3>11 DEF Ledger
  <2>5. Order(q)'
    <3>1. reader'[q].st = "sending" => reader'[q].ev.stream = q
      BY <1>0, <1>5 DEF Order
    <3>2. q \in eof' \/ Queued(q, Last)' => reader'[q].st = "done"
      <4>1. CASE q = s
        BY <1>3, <1>4, <1>5, <1>7, <2>3, <4>1 DEF Last, Event
      <4>2. CASE q # s
        BY <1>0, <1>3, <1>5, <2>3, <4>2 DEF Order
      <4>3. QED
        BY <4>1, <4>2
    <3>3. ASSUME q \in eof', NEW i \in 1..(L + 1) PROVE chan'[i].stream # q
      <4>1. q \in eof /\ q # s
        BY <1>3, <1>4, <3>3
      <4>2. CASE i \in 1..L
        BY <1>0, <1>2, <2>2, <4>1, <4>2 DEF Order
      <4>3. CASE i = L + 1
        BY <1>3, <2>2, <4>1, <4>3
      <4>4. QED
        BY <4>2, <4>3
    <3>4. ASSUME NEW i \in 1..(L + 1), NEW j \in 1..(L + 1), i < j,
                 chan'[i].stream = q, chan'[i].kind \in Last
          PROVE  chan'[j].stream # q
      <4>1. i \in 1..L /\ chan[i].stream = q /\ chan[i].kind \in Last
        BY <2>2, <3>4
      <4>2. CASE j \in 1..L
        BY <1>0, <1>2, <2>2, <3>4, <4>1, <4>2 DEF Order
      <4>3. CASE j = L + 1
        <5>1. Queued(q, Last)
          BY <1>2, <4>1 DEF Queued
        <5>2. q # s
          BY <1>4, <5>1
        <5>3. QED
          BY <1>3, <2>2, <4>3, <5>2
      <4>4. QED
        BY <4>2, <4>3
    <3>5. QED
      BY <2>2, <3>1, <3>2, <3>3, <3>4 DEF Order
  <2>6. Counted(q)'
    <3>1. Held(q)' <=> Held(q)
      BY <1>3 DEF Held
    <3>2. CASE q # s
      <4>1. \A kinds : Ready(q, kinds)' <=> Ready(q, kinds)
        BY <1>5, <3>2 DEF Ready
      <4>2. \A kinds : Queued(q, kinds)' <=> Queued(q, kinds)
        BY <1>3, <2>3, <3>2
      <4>3. AtEnd(q)' <=> AtEnd(q)
        BY <1>3, <4>1, <4>2 DEF AtEnd
      <4>4. QED
        BY <1>0, <1>3, <1>5, <3>1, <3>2, <4>1, <4>2, <4>3 DEF Counted
    <3>3. CASE q = s
      <4>1. /\ \A kinds : ~Ready(q, kinds)'
            /\ \A kinds : Ready(q, kinds) <=> e.kind \in kinds
        BY <1>1, <1>3, <1>5, <3>3 DEF Ready
      <4>2. ~Queued(q, {"Eof"}) /\ ~Queued(q, {"Limit"})
        BY <1>4, <3>3 DEF Queued, Last
      <4>3. (Queued(q, {"Eof"})' => Ready(q, {"Eof"})) /\ (Queued(q, {"Limit"})' => Ready(q, {"Limit"}))
        BY <2>3, <4>1, <4>2
      <4>4. AtEnd(q)' => AtEnd(q)
        BY <1>3, <4>1, <4>3 DEF AtEnd
      <4>5. reader'[q].st \in {"none", "reading"} => Ready(q, {"Data", "Eof", "Error"})
        BY <1>5, <1>7, <3>3, <4>1
      <4>6. QED
        BY <1>0, <1>3, <1>4, <1>5, <3>1, <3>3, <4>1, <4>3, <4>4, <4>5 DEF Counted
    <3>4. QED
      BY <3>2, <3>3
  <2>7. QED
    BY <2>4, <2>5, <2>6
<1>8. QED
  BY <1>6, <1>7

(* Handling the first event shifts every position by one: the capture of   *)
(* its stream grows by what it carries, and an end of file is the last.    *)
LEMMA HandleKeepsBytes ==
  ASSUME TypeInv, ByteInv, chan # <<>>, HandleEvent, open,
         UNCHANGED <<open, reader, pipe, wrote, holds>>
  PROVE  /\ \A s \in Stream : Ledger(s)' /\ Order(s)' /\ Counted(s)'
         /\ failure' = "Limit" => \E s \in Stream : wrote[s] > Limit[s]
         /\ eof \subseteq eof'
<1>1. PICK e \in Event : e = chan[1]
  BY TailOf DEF TypeInv, ReaderTypes
<1>2. PICK L \in Nat : L = Len(chan)
  BY DEF TypeInv, ReaderTypes
<1>3. /\ L > 0 /\ Len(chan') = L - 1
      /\ \A i \in 1..(L - 1) : chan'[i] = chan[i + 1] /\ i + 1 \in 1..L
      /\ Head(chan) = e
  BY <1>1, <1>2, TailOf DEF HandleEvent, TypeInv, ReaderTypes
<1>4. ASSUME NEW s \in Stream PROVE Ledger(s)' /\ Order(s)' /\ Counted(s)'
  <2>0. Ledger(s) /\ Order(s) /\ Counted(s) /\ got[s] \in Nat
    BY Numbers DEF ByteInv
  <2>1. PICK f \in [0..L -> Nat] : Sums(s, f)
    BY <1>2, <2>0 DEF Ledger
  <2>2. got'[s] = f[1]
    <3>1. 1 \in 1..L /\ 1 - 1 = 0
      BY <1>3
    <3>2. f[1] = got[s] + Gain(e, s)
      BY <1>1, <1>2, <2>1, <3>1 DEF Sums
    <3>3. got'[s] = got[s] + Gain(e, s)
      BY <1>3, <2>0 DEF HandleEvent, Gain, TypeInv, SupervisorTypes
    <3>4. QED
      BY <3>2, <3>3
  <2>3. /\ \A i \in 1..L : f[i] = f[i - 1] + Gain(chan[i], s)
        /\ \A i \in 0..L : f[i] <= reader[s].total
        /\ \A i \in 1..L : chan[i].stream = s /\ chan[i].kind = "Eof" => f[i] = reader[s].total
        /\ reader[s].total = f[L] + (IF Ready(s, {"Data"}) THEN reader[s].ev.bytes ELSE 0)
    BY <1>2, <2>1 DEF Sums
  <2>4. Ledger(s)'
    <3>1. PICK g \in [0..(L - 1) -> Nat] : \A i \in 0..(L - 1) : g[i] = f[i + 1]
      <4> DEFINE h == [i \in 0..(L - 1) |-> f[i + 1]]
      <4>1. h \in [0..(L - 1) -> Nat]
        BY <1>3
      <4>2. \A i \in 0..(L - 1) : h[i] = f[i + 1]
        OBVIOUS
      <4> HIDE DEF h
      <4>3. QED
        BY <4>1, <4>2
    <3>2. g[0] = got'[s] /\ g[L - 1] = f[L]
      <4>1. 0 \in 0..(L - 1) /\ L - 1 \in 0..(L - 1) /\ 0 + 1 = 1 /\ (L - 1) + 1 = L
        BY <1>3
      <4>2. QED
        BY <2>2, <3>1, <4>1
    <3>3. ASSUME NEW i \in 1..(L - 1)
          PROVE  /\ g[i] = g[i - 1] + Gain(chan'[i], s)
                 /\ chan'[i].stream = s /\ chan'[i].kind = "Eof" => g[i] = reader[s].total
      <4>1. i \in 0..(L - 1) /\ i - 1 \in 0..(L - 1) /\ (i - 1) + 1 = i /\ i + 1 \in 1..L /\ (i + 1) - 1 = i
        BY <1>3
      <4>2. g[i] = f[i + 1] /\ g[i - 1] = f[i] /\ chan'[i] = chan[i + 1]
        BY <1>3, <3>1, <4>1
      <4>3. f[i + 1] = f[i] + Gain(chan[i + 1], s)
        BY <2>3, <4>1
      <4>4. QED
        BY <2>3, <4>1, <4>2, <4>3
    <3>4. ASSUME NEW i \in 0..(L - 1) PROVE g[i] <= reader[s].total
      <4>1. i + 1 \in 0..L
        BY <1>3
      <4>2. QED
        BY <2>3, <3>1, <4>1
    <3>5. Ready(s, {"Data"})' <=> Ready(s, {"Data"})
      BY DEF Ready
    <3>6. Sums(s, g)'
      BY <1>3, <2>3, <3>2, <3>3, <3>4, <3>5 DEF Sums
    <3>7. QED
      BY <1>3, <3>1, <3>6 DEF Ledger
  <2>5. ASSUME NEW kinds PROVE Queued(s, kinds)' => Queued(s, kinds)
    BY <1>2, <1>3 DEF Queued
  <2>6. /\ e.stream = s /\ e.kind \in Last => Queued(s, Last)
        /\ e.stream = s /\ e.kind = "Eof" => Queued(s, {"Eof"})
    <3>1. 1 \in 1..Len(chan)
      BY <1>2, <1>3
    <3>2. QED
      BY <1>1, <3>1 DEF Queued
  <2>7. s \in eof' => s \in eof \/ (e.stream = s /\ e.kind = "Eof")
    BY <1>3 DEF HandleEvent
  <2>8. Order(s)'
    <3>1. (reader'[s].st = "sending" => reader'[s].ev.stream = s)
      BY <2>0 DEF Order
    <3>2. s \in eof' \/ Queued(s, Last)' => reader'[s].st = "done"
      BY <2>0, <2>5, <2>6, <2>7 DEF Order, Last
    <3>3. ASSUME s \in eof', NEW i \in 1..(L - 1) PROVE chan'[i].stream # s
      <4>1. chan'[i] = chan[i + 1] /\ i + 1 \in 1..L /\ 1 \in 1..L /\ 1 < i + 1
        BY <1>3
      <4>2. CASE s \in eof
        BY <1>2, <2>0, <4>1, <4>2 DEF Order
      <4>3. CASE e.stream = s /\ e.kind = "Eof"
        BY <1>1, <1>2, <2>0, <4>1, <4>3 DEF Order, Last
      <4>4. QED
        BY <2>7, <3>3, <4>2, <4>3
    <3>4. ASSUME NEW i \in 1..(L - 1), NEW j \in 1..(L - 1), i < j,
                 chan'[i].stream = s, chan'[i].kind \in Last
          PROVE  chan'[j].stream # s
      <4>1. /\ chan'[i] = chan[i + 1] /\ i + 1 \in 1..L /\ chan'[j] = chan[j + 1] /\ j + 1 \in 1..L
            /\ i + 1 < j + 1
        BY <1>3, <3>4
      <4>2. QED
        BY <1>2, <2>0, <3>4, <4>1 DEF Order
    <3>5. QED
      BY <1>3, <3>1, <3>2, <3>3, <3>4 DEF Order
  <2>9. Counted(s)'
    <3>1. \A kinds : Ready(s, kinds)' <=> Ready(s, kinds)
      BY DEF Ready
    <3>2. AtEnd(s)' => AtEnd(s)
      BY <2>5, <2>6, <2>7, <3>1 DEF AtEnd
    <3>3. Held(s)' <=> Held(s)
      BY DEF Held
    <3>4. 1 \in 0..L /\ 1 \in 1..L
      BY <1>3
    <3>5. got'[s] <= reader[s].total
      BY <2>2, <2>3, <3>4
    <3>6. s \in eof' => got'[s] = reader[s].total
      <4>1. CASE s \in eof
        <5>1. e.stream # s
          BY <1>1, <1>2, <2>0, <3>4, <4>1 DEF Order
        <5>2. got'[s] = got[s]
          BY <1>3, <5>1 DEF HandleEvent, TypeInv, SupervisorTypes
        <5>3. QED
          BY <2>0, <4>1, <5>2 DEF Counted
      <4>2. CASE e.stream = s /\ e.kind = "Eof"
        BY <1>1, <2>2, <2>3, <3>4, <4>2
      <4>3. QED
        BY <2>7, <4>1, <4>2
    <3>7. QED
      BY <2>0, <2>5, <3>1, <3>2, <3>3, <3>5, <3>6 DEF Counted
  <2>10. QED
    BY <2>4, <2>8, <2>9
<1>5. ASSUME failure' = "Limit" PROVE \E s \in Stream : wrote[s] > Limit[s]
  <2>1. CASE e.kind = "Limit"
    <3>1. e.stream \in Stream /\ 1 \in 1..Len(chan)
      BY <1>2, <1>3 DEF Event
    <3>2. Queued(e.stream, {"Limit"}) /\ Counted(e.stream)
      BY <1>1, <2>1, <3>1 DEF Queued, ByteInv
    <3>3. QED
      BY <3>1, <3>2 DEF Counted
  <2>2. CASE e.kind # "Limit"
    <3>1. failure = "Limit"
      BY <1>3, <1>5, <2>2 DEF HandleEvent
    <3>2. QED
      BY <3>1 DEF ByteInv, Verdict
  <2>3. QED
    BY <2>1, <2>2
<1>6. eof \subseteq eof'
  BY DEF HandleEvent
<1>7. QED
  BY <1>4, <1>5, <1>6

(* The two loops that handle events, and what they conclude.               *)
LEMMA ReceiveKeepsBytes ==
  ASSUME TypeInv, ByteInv, Drain \/ Recv
  PROVE  ByteInv'
<1>1. /\ pc \in {"Drain", "Recv"} /\ pc' \in {"Drain", "Terminate", "Join", "Recv", "Top"}
      /\ UNCHANGED <<open, reader, pipe, wrote, holds, result, status>>
      /\ \/ chan # <<>> /\ HandleEvent /\ pc' # "Join"
         \/ /\ failure' \in {failure, "Read"} /\ UNCHANGED <<chan, got, eof>>
            /\ pc' = "Join" => eof = Stream
  BY DEF Drain, Recv, tree
<1>2. open /\ result = None
  BY <1>1 DEF ByteInv, Verdict
<1>3. CASE chan # <<>> /\ HandleEvent /\ pc' # "Join"
  <2>1. \A s \in Stream : Ledger(s)' /\ Order(s)' /\ Counted(s)'
    BY <1>1, <1>2, <1>3, HandleKeepsBytes
  <2>2. failure' = "Limit" => \E s \in Stream : wrote[s] > Limit[s]
    BY <1>1, <1>2, <1>3, HandleKeepsBytes
  <2>3. Verdict'
    BY <1>1, <1>2, <1>3, <2>2 DEF Verdict, None
  <2>4. QED
    BY <2>1, <2>3 DEF ByteInv
<1>4. CASE /\ failure' \in {failure, "Read"} /\ UNCHANGED <<chan, got, eof>>
           /\ pc' = "Join" => eof = Stream
  <2>1. \A s \in Stream : Ledger(s)' /\ Order(s)' /\ Counted(s)'
    <3>1. \A s \in Stream : AtEnd(s) /\ ~Held(s) => ~Held(s)'
      BY <1>1 DEF Held
    <3>2. QED
      BY <1>1, <1>4, <3>1, BytesKept
  <2>2. Verdict'
    BY <1>1, <1>2, <1>4 DEF ByteInv, Verdict, None
  <2>3. QED
    BY <2>1, <2>2 DEF ByteInv
<1>5. QED
  BY <1>1, <1>3, <1>4

(* A byte that is written enters the pipe of a stream that is not at its   *)
(* end, as somebody holds it open.                                         *)
LEMMA WriteKeepsBytes ==
  ASSUME TypeInv, ByteInv, NEW x \in Proc, NEW s \in Stream, Write(x, s)
  PROVE  ByteInv'
<1>0. Ledger(s) /\ Order(s) /\ Counted(s)
  BY DEF ByteInv
<1>1. UNCHANGED <<supervisor, holds, reader, chan>>
  BY DEF Write
<1>2. PICK m \in Nat : m = pipe[s]
  BY Numbers
<1>3. PICK w \in Nat : w = wrote[s]
  BY Numbers
<1>4. /\ pipe'[s] = m + 1 /\ wrote'[s] = w + 1
      /\ \A q \in Stream : q # s => pipe'[q] = pipe[q] /\ wrote'[q] = wrote[q]
  BY <1>2, <1>3 DEF Write, TypeInv, TreeTypes
<1>5. reader[s].total \in Nat /\ Limit[s] \in Nat
  BY Numbers
<1>6. Held(s) /\ (Held(s)' <=> Held(s))
  BY <1>1 DEF Write, Held
<1>7. ~AtEnd(s)
  BY <1>0, <1>6 DEF Counted
<1>8. Ledger(s)' /\ Order(s)'
  BY <1>0, <1>1 DEF Ledger, Sums, Ready, Order, Queued, supervisor
<1>9. Counted(s)'
  <2>1. (\A kinds : Ready(s, kinds)' <=> Ready(s, kinds)) /\ (\A kinds : Queued(s, kinds)' <=> Queued(s, kinds))
    BY <1>1 DEF Ready, Queued
  <2>2. ~AtEnd(s)' /\ s \notin eof'
    BY <1>1, <1>7, <2>1 DEF AtEnd, supervisor
  <2>3. reader[s].total + (m + 1) <= w + 1
    BY <1>0, <1>2, <1>3, <1>5 DEF Counted
  <2>4. w = reader[s].total + m => w + 1 = reader[s].total + (m + 1)
    BY <1>5
  <2>5. w > Limit[s] => w + 1 > Limit[s]
    BY <1>5
  <2>6. QED
    BY <1>0, <1>1, <1>2, <1>3, <1>4, <2>1, <2>2, <2>3, <2>4, <2>5 DEF Counted, supervisor
<1>10. ASSUME NEW q \in Stream, q # s PROVE Ledger(q)' /\ Order(q)' /\ Counted(q)'
  <2>1. UNCHANGED <<got, eof, open, chan, holds>> /\ reader'[q] = reader[q]
    BY <1>1 DEF supervisor
  <2>2. QED
    BY <1>4, <1>10, <2>1, OtherStream
<1>11. Verdict'
  <2>1. ASSUME NEW q \in Stream, wrote[q] > Limit[q] PROVE wrote'[q] > Limit[q]
    BY <1>3, <1>4, <1>5, <2>1
  <2>2. QED
    BY <1>1, <2>1 DEF ByteInv, Verdict, supervisor
<1>12. QED
  BY <1>8, <1>9, <1>10, <1>11 DEF ByteInv

(* A reader that dies, or starts, moves no byte.                           *)
LEMMA ReaderStateKeepsBytes ==
  ASSUME TypeInv, ByteInv, UNCHANGED <<got, eof, open, chan, holds, pipe, wrote>>,
         \A s \in Stream : \/ reader'[s] = reader[s]
                           \/ /\ reader'[s].total = reader[s].total
                              /\ reader[s].st \in {"none", "reading"}
                              /\ reader'[s].st \in {"reading", "panicked"}
  PROVE  \A s \in Stream : Ledger(s)' /\ Order(s)' /\ Counted(s)'
<1> SUFFICES ASSUME NEW s \in Stream PROVE Ledger(s)' /\ Order(s)' /\ Counted(s)'
  OBVIOUS
<1>0. Ledger(s) /\ Order(s) /\ Counted(s)
  BY DEF ByteInv
<1>1. CASE reader'[s] = reader[s]
  BY <1>1, OtherStream
<1>2. CASE /\ reader'[s].total = reader[s].total
           /\ reader[s].st \in {"none", "reading"} /\ reader'[s].st \in {"reading", "panicked"}
  <2>1. \A kinds : ~Ready(s, kinds)' /\ ~Ready(s, kinds)
    BY <1>2 DEF Ready
  <2>2. s \notin eof /\ ~Queued(s, Last)
    BY <1>0, <1>2 DEF Order
  <2>3. \A kinds : Queued(s, kinds)' <=> Queued(s, kinds)
    BY DEF Queued
  <2>4. Ledger(s)'
    BY <1>0, <1>2, <2>1 DEF Ledger, Sums
  <2>5. Order(s)'
    BY <1>0, <1>2, <2>2, <2>3 DEF Order
  <2>6. ~Queued(s, {"Eof"}) /\ ~Queued(s, {"Limit"})
    BY <2>2 DEF Queued, Last
  <2>7. ~AtEnd(s)'
    BY <2>1, <2>2, <2>3, <2>6 DEF AtEnd
  <2>8. Counted(s)'
    BY <1>0, <1>2, <2>1, <2>2, <2>3, <2>6, <2>7 DEF Counted
  <2>9. QED
    BY <2>4, <2>5, <2>8
<1>3. QED
  BY <1>1, <1>2

(* The receiver is dropped, with or without the events it had not seen.    *)
LEMMA DropKeepsBytes ==
  ASSUME TypeInv, TreeInv, ByteInv, Reap \/ Join
  PROVE  ByteInv'
<1>1. /\ UNCHANGED <<got, eof, holds, pipe, wrote, reader, failure, status>> /\ ~open' /\ pc' = "Done"
      /\ UNCHANGED chan \/ chan' = <<>>
  BY DEF Reap, Join, tree
<1>2. Len(chan') = 0 \/ UNCHANGED chan
  BY <1>1
<1>3. ASSUME NEW s \in Stream PROVE Ledger(s)' /\ Order(s)' /\ Counted(s)'
  <2>0. Order(s) /\ Counted(s)
    BY DEF ByteInv
  <2>1. Ledger(s)'
    BY <1>1 DEF Ledger
  <2>2. \A kinds : Queued(s, kinds)' => Queued(s, kinds)
    BY <1>2 DEF Queued
  <2>3. Order(s)'
    BY <1>1, <1>2, <2>0, <2>2 DEF Order
  <2>4. (\A kinds : Ready(s, kinds)' <=> Ready(s, kinds)) /\ (Held(s)' <=> Held(s))
    BY <1>1 DEF Ready, Held
  <2>5. AtEnd(s)' => AtEnd(s)
    BY <1>1, <2>2, <2>4 DEF AtEnd
  <2>6. Counted(s)'
    BY <1>1, <2>0, <2>2, <2>4, <2>5 DEF Counted
  <2>7. QED
    BY <2>1, <2>3, <2>6
<1>4. result' = "Limit" => failure = "Limit"
  BY DEF Reap, Join
<1>5. result' = "Ok" => eof = Stream /\ status
  <2>1. CASE Reap
    BY <2>1 DEF Reap, TypeInv, SupervisorTypes, Failure, None
  <2>2. CASE Join
    BY <2>2 DEF Join, TreeInv, ByteInv, Verdict
  <2>3. QED
    BY <2>1, <2>2
<1>6. Verdict'
  BY <1>1, <1>4, <1>5 DEF ByteInv, Verdict
<1>7. QED
  BY <1>3, <1>6 DEF ByteInv

(* The bytes stay accounted for.                                           *)
LEMMA ByteInvNext == TypeInv /\ TreeInv /\ ByteInv /\ [Next]_vars => ByteInv'
<1> SUFFICES ASSUME TypeInv, TreeInv, ByteInv, [Next]_vars PROVE ByteInv'
  OBVIOUS
<1>0. TreeTypes /\ "child" \in Proc /\ "descendant" \in Proc
  BY DEF TypeInv, Proc
<1>1. ASSUME UNCHANGED <<got, eof, open, reader, chan, pipe, wrote>>,
             \A x \in Proc : holds'[x] \subseteq holds[x], Verdict'
      PROVE  ByteInv'
  <2>1. \A s \in Stream : AtEnd(s) /\ ~Held(s) => ~Held(s)'
    BY <1>1 DEF Held
  <2>2. QED
    BY <1>1, <2>1, BytesKept DEF ByteInv
<1>2. ASSUME UNCHANGED <<supervisor, reader, wrote>> PROVE Verdict'
  BY <1>2 DEF ByteInv, Verdict, supervisor
<1>3. ASSUME NEW r \in Request, Start(r) PROVE ByteInv'
  <2>1. Verdict'
    BY <1>3 DEF Start, Rejection, Verdict, ByteInv, tree, None
  <2>2. QED
    BY <1>1, <1>3, <2>1 DEF Start, tree
<1>4. CASE Spawn
  <2>1. \A s \in Stream : ~AtEnd(s)
    BY <1>4 DEF Spawn, AtEnd, ByteInv, Verdict, Order, Ready, Queued, Last
  <2>2. UNCHANGED <<got, eof, open, reader, chan, pipe, wrote>>
    BY <1>4 DEF Spawn
  <2>3. \A s \in Stream : Ledger(s)' /\ Order(s)' /\ Counted(s)'
    BY <2>1, <2>2, BytesKept
  <2>4. Verdict'
    BY <1>4 DEF Spawn, ByteInv, Verdict, None
  <2>5. QED
    BY <2>3, <2>4 DEF ByteInv
<1>5. CASE SpawnFails \/ Top \/ TryWait \/ TryWaitFails
  <2>1. UNCHANGED <<got, eof, open, reader, chan, pipe, wrote, holds>>
    BY <1>5 DEF SpawnFails, Top, TryWait, TryWaitFails, tree
  <2>2. Verdict'
    BY <1>5 DEF SpawnFails, Top, TryWait, TryWaitFails, tree, ByteInv, Verdict, None
  <2>3. QED
    BY <1>1, <2>1, <2>2
<1>6. CASE KillTree \/ Terminate
  <2>1. /\ UNCHANGED <<got, eof, open, reader, chan, pipe, wrote, failure, result, status>>
        /\ pc \in {"KillTree", "Terminate"} /\ pc' \in {"Drain", "Reap"}
        /\ UNCHANGED <<proc, holds>> \/ Killed(Group) \/ Killed({"child"})
    BY <1>6 DEF KillTree, Terminate, KillGroup
  <2>2. Group \in SUBSET Proc /\ {"child"} \in SUBSET Proc
    BY DEF Group, Proc
  <2>3. \A x \in Proc : holds'[x] \subseteq holds[x]
    BY <1>0, <2>1, <2>2, KilledEffect
  <2>4. Verdict'
    BY <2>1 DEF ByteInv, Verdict
  <2>5. QED
    BY <1>1, <2>1, <2>3, <2>4
<1>7. ASSUME NEW started \in StartedBefore, SpawnReaders(started) PROVE ByteInv'
  <2>1. /\ UNCHANGED <<got, eof, open, chan, holds, pipe, wrote, result, status>>
        /\ pc = "SpawnReaders" /\ pc' \in {"Top", "Terminate"} /\ failure' \in {failure, "Read"}
    BY <1>7 DEF SpawnReaders, tree
  <2>2. ASSUME NEW s \in Stream
        PROVE  \/ reader'[s] = reader[s]
               \/ /\ reader'[s].total = reader[s].total
                  /\ reader[s].st \in {"none", "reading"}
                  /\ reader'[s].st \in {"reading", "panicked"}
    <3>1. reader[s].st = "none"
      BY <2>1 DEF ByteInv, Verdict
    <3>2. reader[s] \in [st : ReaderState, total : Nat, ev : Event]
      BY Numbers
    <3>3. reader'[s] = reader[s] \/ reader'[s] = [reader[s] EXCEPT !.st = "reading"]
      BY <1>7 DEF SpawnReaders
    <3>4. QED
      BY <3>1, <3>2, <3>3
  <2>3. \A s \in Stream : Ledger(s)' /\ Order(s)' /\ Counted(s)'
    BY <2>1, <2>2, ReaderStateKeepsBytes
  <2>4. Verdict'
    BY <2>1 DEF ByteInv, Verdict
  <2>5. QED
    BY <2>3, <2>4 DEF ByteInv
<1>8. CASE Drain \/ Recv
  BY <1>8, ReceiveKeepsBytes
<1>9. CASE Reap \/ Join
  BY <1>9, DropKeepsBytes
<1>10. ASSUME NEW s \in Stream, ReadData(s) \/ ReadEof(s) \/ ReadError(s) \/ Send(s) \/ ReaderPanics(s)
       PROVE  ByteInv'
  <2>1. /\ UNCHANGED <<supervisor, wrote, holds>>
        /\ \A q \in Stream : reader[q].st = "none" => reader'[q].st = "none"
    <3>1. reader[s].st # "none" /\ UNCHANGED <<supervisor, wrote, holds>>
      BY <1>10 DEF ReadData, ReadEof, ReadError, Send, ReaderPanics, tree
    <3>2. \A q \in Stream : q # s => reader'[q] = reader[q]
      BY <1>10, Numbers DEF ReadData, ReadEof, ReadError, Send, ReaderPanics, Sending
    <3>3. QED
      BY <3>1, <3>2
  <2>2. Verdict'
    BY <2>1 DEF ByteInv, Verdict, supervisor
  <2>3. CASE ReaderPanics(s)
    <3>1. UNCHANGED <<got, eof, open, chan, holds, pipe, wrote>>
      BY <2>3 DEF ReaderPanics, supervisor, tree
    <3>2. \A q \in Stream : \/ reader'[q] = reader[q]
                            \/ /\ reader'[q].total = reader[q].total
                               /\ reader[q].st \in {"none", "reading"}
                               /\ reader'[q].st \in {"reading", "panicked"}
      BY <2>3, Numbers DEF ReaderPanics
    <3>3. QED
      BY <2>2, <3>1, <3>2, ReaderStateKeepsBytes DEF ByteInv
  <2>4. CASE ReadData(s) \/ ReadEof(s) \/ ReadError(s)
    BY <2>2, <2>4, ReadKeepsBytes DEF ByteInv
  <2>5. CASE Send(s)
    BY <2>2, <2>5, SendKeepsBytes DEF ByteInv
  <2>6. QED
    BY <1>10, <2>3, <2>4, <2>5
<1>11. ASSUME NEW x \in Proc, NEW s \in Stream, Write(x, s) PROVE ByteInv'
  BY <1>11, WriteKeepsBytes
<1>12. ASSUME NEW x \in Proc, Exit(x) PROVE ByteInv'
  <2>1. {x} \in SUBSET Proc /\ Killed({x}) /\ UNCHANGED <<supervisor, reader, chan, pipe, wrote>>
    BY <1>12 DEF Exit
  <2>2. \A y \in Proc : holds'[y] \subseteq holds[y]
    BY <1>0, <2>1, KilledEffect
  <2>3. Verdict' /\ UNCHANGED <<got, eof, open>>
    BY <1>2, <2>1 DEF supervisor
  <2>4. QED
    BY <1>1, <2>1, <2>2, <2>3
<1>13. ASSUME NEW s \in Stream, CloseStream(s) PROVE ByteInv'
  <2>1. UNCHANGED <<supervisor, reader, chan, pipe, wrote>>
    BY <1>13 DEF CloseStream
  <2>2. \A y \in Proc : holds'[y] \subseteq holds[y]
    BY <1>0, <1>13 DEF CloseStream, TreeTypes
  <2>3. Verdict' /\ UNCHANGED <<got, eof, open>>
    BY <1>2, <2>1 DEF supervisor
  <2>4. QED
    BY <1>1, <2>1, <2>2, <2>3
<1>14. CASE Fork
  <2>1. UNCHANGED <<supervisor, reader, chan, pipe, wrote>>
    BY <1>14 DEF Fork
  <2>2. \A y \in Proc : holds'[y] \in {holds[y], holds["child"]}
    BY <1>0, <1>14 DEF Fork, TreeTypes
  <2>3. \A s \in Stream : AtEnd(s) /\ ~Held(s) => ~Held(s)'
    BY <1>0, <2>2 DEF Held
  <2>4. Verdict' /\ UNCHANGED <<got, eof, open>>
    BY <1>2, <2>1 DEF supervisor
  <2>5. QED
    BY <2>1, <2>3, <2>4, BytesKept DEF ByteInv
<1>15. CASE Escape \/ ReusePid \/ Cancel \/ Tick \/ UNCHANGED vars
  <2>1. UNCHANGED <<supervisor, reader, chan, pipe, wrote, holds>>
    BY <1>15 DEF Escape, ReusePid, Cancel, Tick, vars, tree
  <2>2. Verdict' /\ UNCHANGED <<got, eof, open>>
    BY <1>2, <2>1 DEF supervisor
  <2>3. QED
    BY <1>1, <2>1, <2>2
<1>16. QED
  BY <1>3, <1>4, <1>5, <1>6, <1>7, <1>8, <1>9, <1>10, <1>11, <1>12, <1>13, <1>14, <1>15
     DEF Next, Supervise, Environment, Read
-----------------------------------------------------------------------------
(* BInv holds in every state of a run.                                     *)
THEOREM BInvariance == Spec => []BInv
<1>1. BInv /\ [Next]_vars => BInv'
  BY FlagTypesKept, SupervisorTypesKept, ReaderTypesKept, TreeTypesKept, TreeInvNext, ByteInvNext
     DEF BInv, TypeInv
<1>2. QED
  BY BInvInit, <1>1, PTL DEF Spec

(* Type correctness of the runner: no capture exceeds what was written, no *)
(* channel its capacity, no pipe its size.                                 *)
THEOREM TypeCorrect == Spec => []TypeOK
<1>1. BInv => TypeOK
  <2> SUFFICES ASSUME BInv PROVE TypeOK
    OBVIOUS
  <2>1. SupervisorTypes /\ ReaderTypes /\ TreeTypes /\ FlagTypes
    BY DEF BInv, TypeInv
  <2>2. ASSUME NEW s \in Stream PROVE got[s] \in 0..MaxWrite[s] /\ wrote[s] \in 0..MaxWrite[s]
    <3>1. Counted(s) /\ TypeInv /\ MaxWrite[s] \in Nat /\ wrote[s] <= MaxWrite[s]
      BY <2>1 DEF BInv, ByteInv, TreeTypes
    <3>2. /\ got[s] \in Nat /\ reader[s].total \in Nat /\ pipe[s] \in Nat /\ wrote[s] \in Nat
          /\ got[s] <= reader[s].total /\ reader[s].total + pipe[s] <= wrote[s]
      BY <3>1, Numbers DEF Counted
    <3>3. QED
      BY <3>1, <3>2
  <2>3. reused \in Reuse /\ {strayKill, cancelled} \subseteq BOOLEAN
    BY <2>1, Zenon DEF FlagTypes
  <2>4. status \in BOOLEAN /\ treeKilled \in BOOLEAN /\ open \in BOOLEAN /\ clock \in 0..MaxTime
    BY <2>1 DEF FlagTypes
  <2>5. QED
    BY <2>1, <2>2, <2>3, <2>4, Zenon DEF TypeOK, SupervisorTypes, ReaderTypes, TreeTypes
<1>2. QED
  BY BInvariance, <1>1, PTL

(* A run that reports success has seen the exit of the child and captured  *)
(* every byte the tree wrote to either stream, within the limits, for      *)
(* every chunk, pipe and channel size and in whatever order exit, data and *)
(* end of file were seen; one that reports a limit has met a stream beyond *)
(* its limit.                                                              *)
THEOREM CapturesAreExact == Spec => []OutputIsExact
<1>1. BInv => OutputIsExact
  <2> SUFFICES ASSUME BInv PROVE OutputIsExact
    OBVIOUS
  <2>1. Verdict /\ TypeInv /\ \A s \in Stream : Counted(s)
    BY DEF BInv, ByteInv
  <2>2. ASSUME result = "Ok", NEW s \in Stream
        PROVE  got[s] = wrote[s] /\ pipe[s] = 0 /\ got[s] <= Limit[s]
    <3>1. s \in eof
      BY <2>1, <2>2 DEF Verdict
    <3>2. AtEnd(s) /\ Counted(s)
      BY <2>1, <3>1 DEF AtEnd
    <3>3. QED
      BY <3>1, <3>2 DEF Counted
  <2>3. QED
    BY <2>1, <2>2 DEF OutputIsExact, Verdict
<1>2. QED
  BY BInvariance, <1>1, PTL

(* However a run in a group of its own ends, the child is reaped and no    *)
(* descendant that stayed in the group is running.                         *)
THEOREM TreeIsTerminated == Spec => []NothingLeftRunning
<1>1. BInv => NothingLeftRunning
  BY DEF BInv, TreeInv, NothingLeftRunning
<1>2. QED
  BY BInvariance, <1>1, PTL

(* A foreign process group that takes over the number of the child's is    *)
(* signalled only if it does so between the reap in try_wait and the kill  *)
(* that directly follows: from then on terminate_and_reap finds the tree   *)
(* already terminated, however long the pipes are drained.                 *)
THEOREM NoForeignKillLater == Spec => []NoLateKill
<1>1. BInv => NoLateKill
  BY DEF BInv, TreeInv, NoLateKill
<1>2. QED
  BY BInvariance, <1>1, PTL
=============================================================================
