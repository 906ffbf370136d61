-------------------------- MODULE MailboxFileProofs --------------------------
(***************************************************************************)
(* Proofs about MailboxFile for any processes, messages, marks, crashes    *)
(* and faults.                                                             *)
(*                                                                         *)
(* Until a lock file gets old, whoever is in its section is the creator of *)
(* the lock file that is there (Exclusive), which needs that nobody is     *)
(* about to remove a lock file (AgeIsSeen).  So the copy a process read is *)
(* still the file when it writes (CopyIsCurrent), and what it writes is a  *)
(* step of AtomicMailbox and keeps what other calls put there.             *)
(***************************************************************************)
EXTENDS MailboxFile, FiniteSetTheorems, TLAPS

\* A call is what the process is at, and nothing when it is idle.
CallShape == \A p \in Processes : pc[p] # "idle" => call[p] \in Calls

\* A lock file that is old, or was by the look of a process, was seen to get old.
AgeIsSeen == old \/ (\E p \in Processes : pc[p] = "remove") => aged

Exclusive == aged \/ \A p \in Processes : pc[p] \in Section => lock = p

\* What the section of p may rely on.
CopyIsCurrent ==
  aged \/ misread \/
    \A p \in Processes :
      /\ pc[p] = "writeFile" => copy[p] = file
      /\ pc[p] = "release" => file = Changed(call[p], copy[p])

NothingPromised == aged \/ misread => acked = Box!EmptyBox

IInv ==
  /\ TypeOK
  /\ CallShape
  /\ AgeIsSeen
  /\ Exclusive
  /\ CopyIsCurrent
  /\ NothingPromised
  /\ AckedIsKept

-----------------------------------------------------------------------------
(* What a call makes of a mailbox. *)

LEMMA ChangedGrows ==
  ASSUME NEW c \in Calls, NEW box \in Box!Boxes
  PROVE  /\ Changed(c, box) \in Box!Boxes
         /\ box.have \subseteq Changed(c, box).have
         /\ \A f \in Fields : box.marked[f] \subseteq Changed(c, box).marked[f]
         /\ c.kind = "push" => c.msg \in Changed(c, box).have
<1>1. /\ c.msg \in Messages /\ c.kind \in {"push"} \cup Fields
      /\ box.have \in SUBSET Messages /\ box.marked \in [Fields -> SUBSET Messages]
      /\ box = [have |-> box.have, marked |-> box.marked]
  BY DEF Calls, Box!Boxes
<1>2. CASE c.kind = "push"
  <2>1. Changed(c, box) = [have |-> box.have \cup {c.msg}, marked |-> box.marked]
    BY <1>1, <1>2 DEF Changed, Box!Pushed
  <2> QED BY <1>1, <1>2, <2>1 DEF Box!Boxes
<1>3. CASE c.kind # "push"
  <2> DEFINE added == [box.marked EXCEPT ![c.kind] = @ \cup ({c.msg} \cap box.have)]
  <2>1. Changed(c, box) = [have |-> box.have, marked |-> added]
    BY <1>1, <1>3 DEF Changed, Box!Marked
  <2>2. added \in [Fields -> SUBSET Messages]
    BY <1>1, <1>3
  <2>3. \A f \in Fields : box.marked[f] \subseteq added[f]
    BY <1>1, <1>3
  <2> QED BY <1>1, <1>3, <2>1, <2>2, <2>3 DEF Box!Boxes
<1> QED BY <1>2, <1>3

\* What a call does to the mailbox, if it changes it, is a step of AtomicMailbox.
LEMMA ChangeIsStep ==
  ASSUME NEW c \in Calls, file \in Box!Boxes, file' = Changed(c, file), file' # file
  PROVE  Box!Next
<1>1. c.msg \in Messages /\ c.kind \in {"push"} \cup Fields
  BY DEF Calls
<1>2. CASE c.kind = "push"
  <2>1. file' = Box!Pushed(file, c.msg)
    BY <1>2 DEF Changed
  <2>2. c.msg \notin file.have
    <3> SUFFICES ASSUME c.msg \in file.have PROVE FALSE
      OBVIOUS
    <3>1. file.have \cup {c.msg} = file.have
      OBVIOUS
    <3>2. file = [have |-> file.have, marked |-> file.marked]
      BY DEF Box!Boxes
    <3>3. Box!Pushed(file, c.msg) = [have |-> file.have \cup {c.msg}, marked |-> file.marked]
      BY <3>2 DEF Box!Pushed
    <3> QED BY <2>1, <3>1, <3>2, <3>3
  <2> QED BY <1>1, <2>1, <2>2 DEF Box!Next, Box!Push
<1>3. CASE c.kind # "push"
  <2>1. file' = Box!Marked(file, c.kind, {c.msg})
    BY <1>3 DEF Changed
  <2>2. Box!Mark(c.kind, {c.msg})
    BY <2>1 DEF Box!Mark
  <2>3. c.kind \in Fields /\ {c.msg} \in SUBSET Messages
    BY <1>1, <1>3
  <2> QED BY <2>2, <2>3 DEF Box!Next
<1> QED BY <1>2, <1>3

LEMMA EmptyIsBox == Box!EmptyBox \in Box!Boxes
BY DEF Box!EmptyBox, Box!Boxes

-----------------------------------------------------------------------------
(* Steps that leave the file, and what was promised of it, alone. *)

\* p moves, and only its own variables change.
OnlyMoves(p) ==
  /\ pc' \in [Processes -> {"idle"} \cup Waiting \cup Section]
  /\ call' \in [Processes -> Calls \cup {NoCall}]
  /\ copy' \in [Processes -> Box!Boxes]
  /\ pc'[p] # "idle" => call'[p] \in Calls
  /\ \A q \in Processes \ {p} : pc'[q] = pc[q] /\ call'[q] = call[q] /\ copy'[q] = copy[q]

LEMMA CallShapeKept ==
  ASSUME IInv, NEW p \in Processes, OnlyMoves(p)
  PROVE  CallShape'
BY DEF IInv, CallShape, OnlyMoves

\* p leaves its call, or is not in its section.
LEMMA OutsideKeeps ==
  ASSUME IInv, NEW p \in Processes, OnlyMoves(p),
         pc'[p] \notin Section, pc'[p] = "remove" => aged,
         UNCHANGED <<file, acked, aged, misread, faults>>,
         crashes' \in 0 .. MaxCrashes,
         \/ UNCHANGED <<lock, old>>
         \/ lock' = Nobody /\ old' = FALSE /\ (aged \/ pc[p] \in Section)
  PROVE  IInv'
<1>1. TypeOK'
  <2>0. lock \in Processes \cup {Nobody} /\ old \in BOOLEAN /\ (old => lock # Nobody)
    BY DEF IInv, TypeOK
  <2>1. lock' \in Processes \cup {Nobody} /\ old' \in BOOLEAN /\ (old' => lock' # Nobody)
    <3>1. CASE UNCHANGED <<lock, old>>
      <4>1. lock' = lock /\ old' = old
        BY <3>1
      <4> QED BY <2>0, <4>1
    <3>2. CASE lock' = Nobody /\ old' = FALSE
      BY <3>2
    <3> QED BY <3>1, <3>2
  <2> QED BY <2>1 DEF IInv, TypeOK, OnlyMoves
<1>2. CallShape'
  BY CallShapeKept
<1>3. AgeIsSeen'
  BY DEF IInv, AgeIsSeen, OnlyMoves
<1>4. Exclusive'
  <2> SUFFICES ASSUME ~aged, NEW q \in Processes, pc'[q] \in Section PROVE lock' = q
    BY DEF Exclusive
  <2>1. q # p /\ pc'[q] = pc[q]
    BY DEF OnlyMoves
  <2>2. lock = q
    BY <2>1 DEF IInv, Exclusive
  <2>3. pc[p] \notin Section
    BY <2>1, <2>2 DEF IInv, Exclusive
  <2> QED BY <2>2, <2>3
<1>5. CopyIsCurrent'
  BY DEF IInv, CopyIsCurrent, OnlyMoves, Section
<1>6. NothingPromised' /\ AckedIsKept'
  BY DEF IInv, NothingPromised, AckedIsKept, Box!EmptyBox
<1> QED BY <1>1, <1>2, <1>3, <1>4, <1>5, <1>6 DEF IInv

LEMMA BeginKeeps ==
  ASSUME IInv, NEW p \in Processes, NEW c \in Calls, Begin(p, c)
  PROVE  IInv'
<1>1. OnlyMoves(p) /\ pc'[p] = "open"
  BY DEF IInv, TypeOK, Begin, GoTo, OnlyMoves, Waiting
<1>2. UNCHANGED <<file, acked, aged, misread, faults, lock, old, crashes>>
  BY DEF Begin, locking, counted
<1>3. crashes' \in 0 .. MaxCrashes
  BY <1>2 DEF IInv, TypeOK
<1> QED BY <1>1, <1>2, <1>3, OutsideKeeps DEF Section

LEMMA StatLockKeeps ==
  ASSUME IInv, NEW p \in Processes, StatLock(p)
  PROVE  IInv'
<1>1. /\ pc[p] = "stat" /\ UNCHANGED <<call, copy>>
      /\ pc' = [pc EXCEPT ![p] = IF old THEN "remove" ELSE "reopen"]
  BY DEF StatLock, GoTo
<1>2. OnlyMoves(p) /\ pc'[p] = IF old THEN "remove" ELSE "reopen"
  BY <1>1 DEF IInv, TypeOK, CallShape, OnlyMoves, Waiting
<1>3. UNCHANGED <<file, acked, aged, misread, faults, lock, old, crashes>>
  BY DEF StatLock, locking, counted
<1>4. crashes' \in 0 .. MaxCrashes
  BY <1>3 DEF IInv, TypeOK
<1>5. pc'[p] \notin Section /\ (pc'[p] = "remove" => aged)
  BY <1>2 DEF IInv, AgeIsSeen, Section
<1> QED BY <1>2, <1>3, <1>4, <1>5, OutsideKeeps

LEMMA RemoveStaleLockKeeps ==
  ASSUME IInv, NEW p \in Processes, RemoveStaleLock(p)
  PROVE  IInv'
<1>1. /\ pc[p] = "remove" /\ UNCHANGED <<call, copy>>
      /\ pc' = [pc EXCEPT ![p] = "reopen"]
      /\ lock' = Nobody /\ old' = FALSE
  BY DEF RemoveStaleLock, GoTo
<1>2. OnlyMoves(p) /\ pc'[p] = "reopen"
  BY <1>1 DEF IInv, TypeOK, CallShape, OnlyMoves, Waiting
<1>3. UNCHANGED <<file, acked, aged, misread, faults, crashes>>
  BY DEF RemoveStaleLock, counted
<1>4. crashes' \in 0 .. MaxCrashes
  BY <1>3 DEF IInv, TypeOK
<1>5. aged
  BY <1>1 DEF IInv, AgeIsSeen
<1> QED BY <1>1, <1>2, <1>3, <1>4, <1>5, OutsideKeeps DEF Section

\* The end of a call: the process is idle.
LEMMA EndMoves ==
  ASSUME TypeOK, NEW p \in Processes, End(p)
  PROVE  OnlyMoves(p) /\ pc'[p] = "idle"
BY EmptyIsBox DEF TypeOK, End, GoTo, OnlyMoves

LEMMA TimeOutOrCrashKeeps ==
  ASSUME IInv, NEW p \in Processes, TimeOut(p) \/ Crash(p)
  PROVE  IInv'
<1>1. OnlyMoves(p) /\ pc'[p] = "idle"
  BY EndMoves DEF IInv, TimeOut, Crash
<1>2. UNCHANGED <<file, acked, aged, misread, faults, lock, old>>
  BY DEF TimeOut, Crash, locking, counted
<1>3. crashes' \in 0 .. MaxCrashes
  BY MailboxFileAssumption DEF IInv, TypeOK, TimeOut, Crash, counted
<1> QED BY <1>1, <1>2, <1>3, OutsideKeeps DEF Section

-----------------------------------------------------------------------------
(* Steps into a section and in it. *)

\* p, in its section, goes on in it; the lock is not touched.
LEMMA InsideKeeps ==
  ASSUME IInv, NEW p \in Processes, OnlyMoves(p), pc[p] \in Section, pc'[p] \in Section,
         UNCHANGED <<lock, old, aged, crashes>>,
         file' \in Box!Boxes, acked' \in Box!Boxes, misread' \in BOOLEAN,
         faults' \in 0 .. MaxFaults
  PROVE  TypeOK' /\ CallShape' /\ AgeIsSeen' /\ Exclusive'
<1>1. TypeOK'
  BY DEF IInv, TypeOK, OnlyMoves
<1>2. CallShape'
  BY CallShapeKept
<1>3. AgeIsSeen'
  BY DEF IInv, AgeIsSeen, OnlyMoves, Section
<1>4. Exclusive'
  BY DEF IInv, Exclusive, OnlyMoves
<1> QED BY <1>1, <1>2, <1>3, <1>4

\* Until a lock gets old, others are not in their sections when p is.
LEMMA Alone ==
  ASSUME IInv, NEW p \in Processes, pc[p] \in Section, ~aged,
         NEW q \in Processes \ {p}
  PROVE  pc[q] \notin Section
BY DEF IInv, Exclusive

LEMMA OpenKeeps ==
  ASSUME IInv, NEW p \in Processes, Open(p)
  PROVE  IInv'
<1>1. pc[p] \in {"open", "reopen"} /\ UNCHANGED <<file, call, copy, acked, aged, counted>>
  BY DEF Open
<1>2. UNCHANGED <<misread, crashes, faults>>
  BY <1>1 DEF counted
<1>c. crashes' \in 0 .. MaxCrashes
  BY <1>2 DEF IInv, TypeOK
<1>3. CASE lock # Nobody
  <2>1. pc' = [pc EXCEPT ![p] = "stat"] /\ UNCHANGED <<lock, old>>
    BY <1>3 DEF Open, OpenExclusive, GoTo
  <2>2. OnlyMoves(p) /\ pc'[p] = "stat"
    BY <1>1, <2>1 DEF IInv, TypeOK, CallShape, OnlyMoves, Waiting
  <2> QED BY <1>1, <1>2, <1>c, <2>1, <2>2, OutsideKeeps DEF Section
<1>4. CASE lock = Nobody
  <2>1. pc' = [pc EXCEPT ![p] = "readFile"] /\ lock' = p /\ old' = FALSE
    BY <1>4 DEF Open, OpenExclusive, GoTo
  <2>2. OnlyMoves(p) /\ pc'[p] = "readFile"
    BY <1>1, <2>1 DEF IInv, TypeOK, CallShape, OnlyMoves, Section
  <2>3. TypeOK'
    BY <1>1, <1>2, <2>1, <2>2, MailboxFileAssumption DEF IInv, TypeOK, OnlyMoves
  <2>4. CallShape'
    BY <2>2, CallShapeKept
  <2>5. AgeIsSeen'
    BY <1>1, <2>1, <2>2 DEF IInv, AgeIsSeen, OnlyMoves
  <2>6. Exclusive'
    BY <1>1, <1>4, <2>1, <2>2, MailboxFileAssumption DEF IInv, Exclusive, OnlyMoves
  <2>7. CopyIsCurrent'
    BY <1>1, <1>2, <2>2 DEF IInv, CopyIsCurrent, OnlyMoves
  <2>8. NothingPromised' /\ AckedIsKept'
    BY <1>1, <1>2 DEF IInv, NothingPromised, AckedIsKept, Box!EmptyBox
  <2> QED BY <2>3, <2>4, <2>5, <2>6, <2>7, <2>8 DEF IInv
<1> QED BY <1>3, <1>4

LEMMA ReadFileKeeps ==
  ASSUME IInv, NEW p \in Processes, ReadFile(p)
  PROVE  IInv'
<1>1. /\ pc[p] = "readFile"
      /\ copy' = [copy EXCEPT ![p] = file]
      /\ pc' = [pc EXCEPT ![p] = IF Changed(call[p], file) = file THEN "release" ELSE "writeFile"]
      /\ UNCHANGED <<file, locking, call, acked, counted>>
  BY DEF ReadFile, GoTo
<1>2. UNCHANGED <<lock, old, aged, misread, crashes, faults>>
  BY <1>1 DEF locking, counted
<1>3. /\ OnlyMoves(p) /\ copy'[p] = file
      /\ pc'[p] = IF Changed(call[p], file) = file THEN "release" ELSE "writeFile"
  <2> DEFINE next == IF Changed(call[p], file) = file THEN "release" ELSE "writeFile"
  <2>1. next \in Section
    BY DEF Section
  <2> HIDE DEF next
  <2>2. pc' = [pc EXCEPT ![p] = next]
    BY <1>1 DEF next
  <2>3. OnlyMoves(p) /\ copy'[p] = file /\ pc'[p] = next
    BY <1>1, <2>1, <2>2 DEF IInv, TypeOK, CallShape, OnlyMoves
  <2> QED BY <2>3 DEF next
<1>4. TypeOK' /\ CallShape' /\ AgeIsSeen' /\ Exclusive'
  BY <1>1, <1>2, <1>3, InsideKeeps DEF Section, IInv, TypeOK
<1>5. CopyIsCurrent'
  <2> SUFFICES ASSUME ~aged, ~misread, NEW q \in Processes
               PROVE  /\ pc'[q] = "writeFile" => copy'[q] = file
                      /\ pc'[q] = "release" => file = Changed(call[q], copy'[q])
    BY <1>1, <1>2 DEF CopyIsCurrent, Changed, Box!Pushed, Box!Marked
  <2>1. CASE q = p
    BY <1>3, <2>1
  <2>2. CASE q # p
    <3>1. pc'[q] \notin Section
      BY <1>1, <1>3, <2>2, Alone DEF OnlyMoves, Section
    <3> QED BY <3>1 DEF Section
  <2> QED BY <2>1, <2>2
<1>6. NothingPromised' /\ AckedIsKept'
  BY <1>1, <1>2 DEF IInv, NothingPromised, AckedIsKept, Box!EmptyBox
<1> QED BY <1>4, <1>5, <1>6 DEF IInv

\* What fails gives up every promise, or changes nothing of the file.
LEMMA FailureKeeps ==
  ASSUME IInv, NEW p \in Processes, ReadFileFails(p) \/ WriteFileFails(p)
  PROVE  IInv'
<1>1. UNCHANGED <<file, lock, old, aged, crashes>>
  BY DEF ReadFileFails, WriteFileFails, Fault, locking
<1>2. faults' \in 0 .. MaxFaults
  BY MailboxFileAssumption DEF IInv, TypeOK, ReadFileFails, WriteFileFails, Fault
<1>3. CASE WriteFileFails(p)
  <2>1. /\ pc[p] = "writeFile" /\ pc' = [pc EXCEPT ![p] = "giveUp"]
        /\ UNCHANGED <<call, copy, acked, misread>>
    BY <1>3 DEF WriteFileFails, GoTo
  <2>2. OnlyMoves(p) /\ pc'[p] = "giveUp"
    BY <2>1 DEF IInv, TypeOK, CallShape, OnlyMoves, Section
  <2>3. TypeOK' /\ CallShape' /\ AgeIsSeen' /\ Exclusive'
    BY <1>1, <1>2, <2>1, <2>2, InsideKeeps DEF Section, IInv, TypeOK
  <2>4. CopyIsCurrent'
    BY <1>1, <2>1, <2>2 DEF IInv, CopyIsCurrent, OnlyMoves
  <2>5. NothingPromised' /\ AckedIsKept'
    BY <1>1, <2>1 DEF IInv, NothingPromised, AckedIsKept, Box!EmptyBox
  <2> QED BY <2>3, <2>4, <2>5 DEF IInv
<1>4. CASE ReadFileFails(p)
  <2>1. /\ pc[p] = "readFile" /\ pc' \in {[pc EXCEPT ![p] = "release"], [pc EXCEPT ![p] = "writeFile"]}
        /\ copy' = [copy EXCEPT ![p] = Box!EmptyBox]
        /\ call' = call /\ acked' = Box!EmptyBox /\ misread' = TRUE
    BY <1>4 DEF ReadFileFails, GoTo
  <2>2. OnlyMoves(p) /\ pc'[p] \in Section
    BY <2>1, EmptyIsBox DEF IInv, TypeOK, CallShape, OnlyMoves, Section
  <2>3. TypeOK' /\ CallShape' /\ AgeIsSeen' /\ Exclusive'
    BY <1>1, <1>2, <2>1, <2>2, EmptyIsBox, InsideKeeps DEF Section, IInv, TypeOK
  <2>4. CopyIsCurrent' /\ NothingPromised' /\ AckedIsKept'
    BY <2>1 DEF CopyIsCurrent, NothingPromised, AckedIsKept, Box!EmptyBox
  <2> QED BY <2>3, <2>4 DEF IInv
<1> QED BY <1>3, <1>4

LEMMA WriteFileKeeps ==
  ASSUME IInv, NEW p \in Processes, WriteFile(p)
  PROVE  IInv' /\ (aged \/ misread \/ file' = file \/ Box!Next)
<1>1. /\ pc[p] = "writeFile" /\ file' = Changed(call[p], copy[p])
      /\ pc' = [pc EXCEPT ![p] = "release"]
      /\ UNCHANGED <<locking, call, copy, acked, counted>>
  BY DEF WriteFile, Written, GoTo
<1>2. UNCHANGED <<lock, old, aged, misread, crashes, faults>>
  BY <1>1 DEF locking, counted
<1>3. OnlyMoves(p) /\ pc'[p] = "release"
  BY <1>1 DEF IInv, TypeOK, CallShape, OnlyMoves, Section
<1>4. call[p] \in Calls /\ copy[p] \in Box!Boxes /\ file \in Box!Boxes
  BY <1>1 DEF IInv, CallShape, TypeOK
<1>5. file' \in Box!Boxes
  BY <1>1, <1>4, ChangedGrows
<1>6. TypeOK' /\ CallShape' /\ AgeIsSeen' /\ Exclusive'
  BY <1>1, <1>2, <1>3, <1>5, InsideKeeps DEF Section, IInv, TypeOK
<1>7. CopyIsCurrent'
  <2> SUFFICES ASSUME ~aged, ~misread, NEW q \in Processes
               PROVE  /\ pc'[q] = "writeFile" => copy'[q] = file'
                      /\ pc'[q] = "release" => file' = Changed(call[q], copy[q])
    BY <1>1, <1>2 DEF CopyIsCurrent, Changed, Box!Pushed, Box!Marked
  <2>1. CASE q = p
    BY <1>1, <1>3, <2>1
  <2>2. CASE q # p
    <3>1. pc'[q] \notin Section
      BY <1>1, <1>3, <2>2, Alone DEF OnlyMoves, Section
    <3> QED BY <3>1 DEF Section
  <2> QED BY <2>1, <2>2
<1>8. aged \/ misread \/ copy[p] = file
  BY <1>1 DEF IInv, CopyIsCurrent
<1>9. NothingPromised'
  BY <1>1, <1>2 DEF IInv, NothingPromised, Box!EmptyBox
<1>10. AckedIsKept'
  <2>1. CASE aged \/ misread
    <3>1. acked' = Box!EmptyBox
      BY <1>1, <2>1 DEF IInv, NothingPromised
    <3> QED BY <3>1 DEF AckedIsKept, Box!EmptyBox
  <2>2. CASE ~aged /\ ~misread
    <3>1. /\ file.have \subseteq file'.have
          /\ \A f \in Fields : file.marked[f] \subseteq file'.marked[f]
      BY <1>1, <1>4, <1>8, <2>2, ChangedGrows
    <3> QED BY <1>1, <3>1 DEF IInv, AckedIsKept
  <2> QED BY <2>1, <2>2
<1>11. aged \/ misread \/ file' = file \/ Box!Next
  BY <1>1, <1>4, <1>8, ChangeIsStep
<1> QED BY <1>6, <1>7, <1>9, <1>10, <1>11 DEF IInv

LEMMA ReleaseKeeps ==
  ASSUME IInv, NEW p \in Processes, Release(p)
  PROVE  IInv'
<1> DEFINE put   == IF call[p].kind = "push" THEN {call[p].msg} ELSE {}
           after == Changed(call[p], copy[p])
<1>t. TypeOK
  BY DEF IInv
<1>1. /\ pc[p] \in {"release", "giveUp"} /\ pc[p] \in Section
      /\ lock' = Nobody /\ old' = FALSE
      /\ End(p)
      /\ UNCHANGED <<file, aged, misread, crashes, faults>>
  BY DEF Release, counted, Section
<1>2. OnlyMoves(p) /\ pc'[p] = "idle"
  BY <1>t, <1>1, EndMoves
<1>3. call[p] \in Calls /\ copy[p] \in Box!Boxes
  BY <1>t, <1>1 DEF IInv, CallShape, TypeOK
<1>4. put \subseteq Messages /\ put \subseteq after.have /\ after \in Box!Boxes
  BY <1>3, ChangedGrows DEF Calls
<1> HIDE DEF put, after
<1>5. \/ acked' = acked
      \/ /\ pc[p] = "release" /\ ~aged /\ ~misread
         /\ acked' = [have   |-> acked.have \cup put,
                      marked |-> [f \in Fields |-> acked.marked[f] \cup after.marked[f]]]
  <2>1. acked = [have |-> acked.have, marked |-> acked.marked]
    BY <1>t DEF TypeOK, Box!Boxes
  <2>2. acked' = IF pc[p] = "giveUp" \/ aged \/ misread THEN acked
                 ELSE [acked EXCEPT
                         !.have   = @ \cup put,
                         !.marked = [f \in Fields |-> @[f] \cup after.marked[f]]]
    BY DEF Release, put, after
  <2> QED BY <1>1, <2>1, <2>2
<1>6. acked' \in Box!Boxes
  BY <1>t, <1>4, <1>5 DEF TypeOK, Box!Boxes
<1>7. TypeOK'
  BY <1>t, <1>1, <1>2, <1>6 DEF TypeOK, OnlyMoves
<1>8. CallShape'
  BY <1>2, CallShapeKept
<1>9. AgeIsSeen'
  BY <1>1, <1>2 DEF IInv, AgeIsSeen, OnlyMoves
<1>10. Exclusive'
  <2> SUFFICES ASSUME ~aged, NEW q \in Processes PROVE pc'[q] \notin Section
    BY <1>1 DEF Exclusive
  <2>1. CASE q = p
    BY <1>2, <2>1 DEF Section
  <2>2. CASE q # p
    BY <1>1, <1>2, <2>2, Alone DEF OnlyMoves
  <2> QED BY <2>1, <2>2
<1>11. CopyIsCurrent'
  BY <1>1, <1>2 DEF IInv, CopyIsCurrent, OnlyMoves
<1>12. NothingPromised'
  BY <1>1, <1>5 DEF IInv, NothingPromised, Box!EmptyBox
<1>13. AckedIsKept'
  <2>1. CASE acked' = acked
    BY <1>1, <2>1 DEF IInv, AckedIsKept
  <2>2. CASE acked' # acked
    <3>1. file = after
      BY <1>1, <1>5, <2>2 DEF IInv, CopyIsCurrent, after
    <3> QED BY <1>1, <1>4, <1>5, <2>2, <3>1 DEF IInv, AckedIsKept
  <2> QED BY <2>1, <2>2
<1> QED BY <1>7, <1>8, <1>9, <1>10, <1>11, <1>12, <1>13 DEF IInv

LEMMA LockAgesKeeps ==
  ASSUME IInv, LockAges
  PROVE  IInv'
<1>1. /\ lock # Nobody /\ old' = TRUE /\ aged' = TRUE /\ acked' = Box!EmptyBox
      /\ UNCHANGED <<file, lock, pc, call, copy, misread>>
  BY DEF LockAges
<1>2. crashes' = crashes /\ faults' \in 0 .. MaxFaults
  BY MailboxFileAssumption DEF IInv, TypeOK, LockAges, Fault
<1>3. TypeOK'
  BY <1>1, <1>2, EmptyIsBox DEF IInv, TypeOK
<1>4. CallShape'
  BY <1>1 DEF IInv, CallShape
<1>5. AgeIsSeen' /\ Exclusive' /\ CopyIsCurrent'
  BY <1>1 DEF AgeIsSeen, Exclusive, CopyIsCurrent
<1>6. NothingPromised' /\ AckedIsKept'
  BY <1>1 DEF NothingPromised, AckedIsKept, Box!EmptyBox
<1> QED BY <1>3, <1>4, <1>5, <1>6 DEF IInv

-----------------------------------------------------------------------------
(* The invariant, and what it is for. *)

LEMMA InitIInv ==
  ASSUME Init
  PROVE  IInv
<1>1. TypeOK
  <2>1. 0 \in 0 .. MaxCrashes /\ 0 \in 0 .. MaxFaults
    BY MailboxFileAssumption
  <2>2. /\ aged = FALSE /\ misread = FALSE /\ old = FALSE /\ lock = Nobody
        /\ crashes = 0 /\ faults = 0
    BY DEF Init
  <2>3. /\ pc \in [Processes -> {"idle"} \cup Waiting \cup Section]
        /\ call \in [Processes -> Calls \cup {NoCall}]
        /\ copy \in [Processes -> Box!Boxes]
    BY EmptyIsBox DEF Init
  <2> QED BY <2>1, <2>2, <2>3, EmptyIsBox DEF Init, TypeOK
<1>2. CallShape /\ AgeIsSeen /\ Exclusive /\ CopyIsCurrent
  BY DEF Init, CallShape, AgeIsSeen, Exclusive, CopyIsCurrent, Section
<1>3. NothingPromised /\ AckedIsKept
  BY DEF Init, NothingPromised, AckedIsKept, Box!EmptyBox
<1> QED BY <1>1, <1>2, <1>3 DEF IInv

LEMMA NextIInv ==
  ASSUME IInv, [Next]_vars
  PROVE  IInv'
<1>1. CASE UNCHANGED vars
  BY <1>1 DEF vars, IInv, TypeOK, CallShape, AgeIsSeen, Exclusive, CopyIsCurrent, Changed,
              Box!Pushed, Box!Marked, NothingPromised, AckedIsKept, Box!EmptyBox
<1>2. CASE LockAges
  BY <1>2, LockAgesKeeps
<1>3. ASSUME NEW p \in Processes, NEW c \in Calls, Begin(p, c)
      PROVE  IInv'
  BY <1>3, BeginKeeps
<1>4. ASSUME NEW p \in Processes, Step(p)
      PROVE  IInv'
  BY <1>4, OpenKeeps, StatLockKeeps, RemoveStaleLockKeeps, ReadFileKeeps, WriteFileKeeps,
     ReleaseKeeps DEF Step
<1>5. ASSUME NEW p \in Processes,
             TimeOut(p) \/ ReadFileFails(p) \/ WriteFileFails(p) \/ Crash(p)
      PROVE  IInv'
  BY <1>5, TimeOutOrCrashKeeps, FailureKeeps
<1> QED BY <1>1, <1>2, <1>3, <1>4, <1>5 DEF Next

\* The invariant that carries the others: whose lock file it is, what a copy in a
\* section is worth, and what was promised.
THEOREM Invariance == Spec => []IInv
<1>1. Init => IInv
  BY InitIInv
<1>2. IInv /\ [Next]_vars => IInv'
  BY NextIInv
<1> QED BY <1>1, <1>2, PTL DEF Spec

\* The state of the mailbox file has its type: what is on disk and what every
\* process read is a mailbox, and only a lock file that is there can be old.
THEOREM TypeCorrect == Spec => []TypeOK
<1>1. IInv => TypeOK
  BY DEF IInv
<1> QED BY <1>1, Invariance, PTL

\* The lock of lockFile.ts excludes as long as no lock file gets old: whatever
\* crashes, fails or times out, one process at most is in its section.
THEOREM LockExcludes == Spec => []SoleHolderUntilOld
<1>1. IInv => SoleHolderUntilOld
  <2> SUFFICES ASSUME IInv, ~aged
               PROVE  Cardinality({p \in Processes : pc[p] \in Section}) <= 1
    BY DEF SoleHolderUntilOld
  <2> DEFINE holders == {p \in Processes : pc[p] \in Section}
  <2>1. holders \subseteq {lock}
    BY DEF IInv, Exclusive
  <2>2. IsFiniteSet({lock}) /\ Cardinality({lock}) = 1
    BY FS_Singleton
  <2>3. Cardinality(holders) <= Cardinality({lock})
    BY <2>1, <2>2, FS_Subset
  <2> QED BY <2>2, <2>3
<1> QED BY <1>1, Invariance, PTL

\* What a call that returned put into the mailbox stays there: no other process'
\* append or mark undoes it, as long as no lock got old and no read failed.
THEOREM NothingAckedIsLost == Spec => []AckedIsKept
<1>1. IInv => AckedIsKept
  BY DEF IInv
<1> QED BY <1>1, Invariance, PTL

\* The mailbox file implements the atomic mailbox: every change of it is one
\* append or one mark, crashes and failed writes included.
THEOREM ImplementsAtomicMailbox == Spec => ImplementsMailbox
<1>1. ASSUME IInv, [Next]_vars
      PROVE  [aged' \/ misread' \/ Box!Next]_file
  <2>1. CASE UNCHANGED vars
    BY <2>1 DEF vars
  <2>2. CASE LockAges
    BY <2>2 DEF LockAges
  <2>3. ASSUME NEW p \in Processes, NEW c \in Calls, Begin(p, c)
        PROVE  UNCHANGED file
    BY <2>3 DEF Begin
  <2>4. ASSUME NEW p \in Processes, WriteFile(p)
        PROVE  aged' \/ misread' \/ file' = file \/ Box!Next
    BY <1>1, <2>4, WriteFileKeeps DEF WriteFile, locking, counted
  <2>5. ASSUME NEW p \in Processes,
               \/ Open(p) \/ StatLock(p) \/ RemoveStaleLock(p) \/ ReadFile(p) \/ Release(p)
               \/ TimeOut(p) \/ ReadFileFails(p) \/ WriteFileFails(p) \/ Crash(p)
        PROVE  UNCHANGED file
    BY <2>5 DEF Open, StatLock, RemoveStaleLock, ReadFile, Release, TimeOut, ReadFileFails,
                WriteFileFails, Crash
  <2> QED BY <1>1, <2>1, <2>2, <2>3, <2>4, <2>5 DEF Next, Step
<1>2. IInv /\ [Next]_vars => [aged' \/ misread' \/ Box!Next]_file
  BY <1>1
<1> QED BY <1>2, Invariance, PTL DEF Spec, ImplementsMailbox
==============================================================================
