----------------------------- MODULE MailboxFile -----------------------------
(***************************************************************************)
(* The mailbox of one member as the processes of a team share it: a JSON   *)
(* file that is replaced as a whole by a rename, and a lock file that is   *)
(* created exclusively, waited for, taken away when it is old, and removed *)
(* at the end of the section by whoever believes to hold it.  Everything   *)
(* else that is persisted (team.json, outbox.json, runtime.json) is updated*)
(* by the same withFileLock, read, change, writeJsonFile.                  *)
(*                                                                         *)
(* A process is synchronous in here: it waits for the lock with            *)
(* Atomics.wait.  Time is abstracted: `old' says that the lock file's      *)
(* mtime is more than STALE_LOCK_MS ago.  A file that does not exist, or is*)
(* being created, reads as an empty mailbox.                               *)
(***************************************************************************)
EXTENDS Naturals, FiniteSets

CONSTANTS Processes,
          Messages,
          Fields,     \* the marks: deliveredAt and readAt
          Nobody,     \* no lock file
          MaxCrashes, \* how many processes die in a call (a bound)
          MaxFaults   \* stalled holders, failed reads and writes (a bound)

ASSUME MailboxFileAssumption ==
  /\ Nobody \notin Processes
  /\ "push" \notin Fields /\ "none" \notin Fields
  /\ MaxCrashes \in Nat /\ MaxFaults \in Nat

VARIABLES
  file,    \* the messages in the mailbox file and their marks
  lock,    \* the process that created the lock file, or Nobody
  old,     \* the lock file is older than STALE_LOCK_MS
  pc,      \* pc[p]: "idle" or the step of its call
  call,    \* call[p]: what it is to do, and to which message
  copy,    \* copy[p]: the file as it read it
  acked,   \* history: what calls that returned put into the mailbox, given
           \* up when a lock gets old or a read of the file fails
  aged,    \* history: some lock file got old
  misread, \* history: some read of the file failed
  crashes, faults

vars == <<file, lock, old, pc, call, copy, acked, aged, misread, crashes, faults>>

Box == INSTANCE AtomicMailbox WITH box <- file

locking == <<lock, old, aged>>
counted == <<misread, crashes, faults>>

NoCall == [kind |-> "none"]
Calls == [kind: {"push"} \cup Fields, msg: Messages]

\* The steps between acquiring and releasing the lock.
Section == {"readFile", "writeFile", "release", "giveUp"}
Waiting == {"open", "stat", "remove", "reopen"}

TypeOK ==
  /\ file \in Box!Boxes /\ acked \in Box!Boxes
  /\ lock \in Processes \cup {Nobody}
  /\ old \in BOOLEAN /\ (old => lock # Nobody)
  /\ pc \in [Processes -> {"idle"} \cup Waiting \cup Section]
  /\ call \in [Processes -> Calls \cup {NoCall}]
  /\ copy \in [Processes -> Box!Boxes]
  /\ aged \in BOOLEAN /\ misread \in BOOLEAN
  /\ crashes \in 0 .. MaxCrashes /\ faults \in 0 .. MaxFaults

Init ==
  /\ file = Box!EmptyBox /\ acked = Box!EmptyBox
  /\ lock = Nobody /\ old = FALSE
  /\ pc = [p \in Processes |-> "idle"]
  /\ call = [p \in Processes |-> NoCall]
  /\ copy = [p \in Processes |-> Box!EmptyBox]
  /\ aged = FALSE /\ misread = FALSE
  /\ crashes = 0 /\ faults = 0

GoTo(p, step) == pc' = [pc EXCEPT ![p] = step]

\* The call is over, and its variables are gone.
End(p) ==
  /\ GoTo(p, "idle")
  /\ call' = [call EXCEPT ![p] = NoCall]
  /\ copy' = [copy EXCEPT ![p] = Box!EmptyBox]

Fault == faults < MaxFaults /\ faults' = faults + 1 /\ UNCHANGED crashes

-----------------------------------------------------------------------------
\* pushMailboxMessage, markMailboxMessagesDelivered or ...Read is called.
Begin(p, c) ==
  /\ pc[p] = "idle"
  /\ call' = [call EXCEPT ![p] = c]
  /\ GoTo(p, "open")
  /\ UNCHANGED <<file, locking, copy, acked, counted>>

\* (An operator named ...Mutant... is a plausible bug in the operator after it;
\* it is used only to see that a property notices.)
OpenExclusiveMutantShared(p) ==
  /\ lock' = p /\ old' = FALSE
  /\ GoTo(p, "readFile")

\* openSync(lockPath, 'wx') creates the lock file, or finds one.
OpenExclusive(p) ==
  IF lock = Nobody
    THEN lock' = p /\ old' = FALSE /\ GoTo(p, "readFile")
    ELSE GoTo(p, "stat") /\ UNCHANGED <<lock, old>>

Open(p) ==
  /\ pc[p] \in {"open", "reopen"}
  /\ OpenExclusive(p)
  /\ UNCHANGED <<file, call, copy, acked, aged, counted>>

StatLockMutantAnyAge(p) ==
  /\ pc[p] = "stat"
  /\ GoTo(p, "remove")
  /\ UNCHANGED <<file, locking, call, copy, acked, counted>>

\* clearStaleLock looks at the lock file's age ...
StatLock(p) ==
  /\ pc[p] = "stat"
  /\ GoTo(p, IF old THEN "remove" ELSE "reopen")
  /\ UNCHANGED <<file, locking, call, copy, acked, counted>>

\* ... and removes the lock file that is there by now.
RemoveStaleLock(p) ==
  /\ pc[p] = "remove"
  /\ lock' = Nobody /\ old' = FALSE
  /\ GoTo(p, "reopen")
  /\ UNCHANGED <<file, call, copy, acked, aged, counted>>

TimeOutMutantNever(p) == FALSE /\ UNCHANGED vars

\* It has waited for LOCK_TIMEOUT_MS: the call throws.  Until then it opens
\* the lock file again every LOCK_RETRY_MS.
TimeOut(p) ==
  /\ pc[p] = "reopen"
  /\ End(p)
  /\ UNCHANGED <<file, locking, acked, counted>>

-----------------------------------------------------------------------------
ChangedMutantMarksUnknown(c, box) ==
  IF c.kind = "push" THEN Box!Pushed(box, c.msg)
  ELSE [box EXCEPT !.marked[c.kind] = @ \cup {c.msg}]

\* What the call makes of the mailbox it read.
Changed(c, box) ==
  IF c.kind = "push" THEN Box!Pushed(box, c.msg) ELSE Box!Marked(box, c.kind, {c.msg})

\* readMailboxFile.  A message that is there already, or a mark that changes
\* nothing, is not written.
ReadFile(p) ==
  /\ pc[p] = "readFile"
  /\ copy' = [copy EXCEPT ![p] = file]
  /\ GoTo(p, IF Changed(call[p], file) = file THEN "release" ELSE "writeFile")
  /\ UNCHANGED <<file, locking, call, acked, counted>>

\* readJsonFile answers null to every error, and the mailbox counts as empty.
ReadFileFails(p) ==
  /\ pc[p] = "readFile" /\ Fault
  /\ misread' = TRUE /\ acked' = Box!EmptyBox
  /\ copy' = [copy EXCEPT ![p] = Box!EmptyBox]
  /\ GoTo(p, IF Changed(call[p], Box!EmptyBox) = Box!EmptyBox THEN "release" ELSE "writeFile")
  /\ UNCHANGED <<file, locking, call>>

Written(p) == file' = Changed(call[p], copy[p])

WriteFile(p) ==
  /\ pc[p] = "writeFile"
  /\ Written(p)
  /\ GoTo(p, "release")
  /\ UNCHANGED <<locking, call, copy, acked, counted>>

\* It throws before the rename; the lock is released all the same.
WriteFileFails(p) ==
  /\ pc[p] = "writeFile" /\ Fault
  /\ GoTo(p, "giveUp")
  /\ UNCHANGED <<file, locking, call, copy, acked, misread>>

Release(p) ==
  /\ pc[p] \in {"release", "giveUp"}
  /\ lock' = Nobody /\ old' = FALSE
  /\ acked' = IF pc[p] = "giveUp" \/ aged \/ misread THEN acked
              ELSE [acked EXCEPT
                      !.have   = @ \cup (IF call[p].kind = "push" THEN {call[p].msg} ELSE {}),
                      !.marked = [f \in Fields |-> @[f] \cup Changed(call[p], copy[p]).marked[f]]]
  /\ End(p)
  /\ UNCHANGED <<file, aged, counted>>

-----------------------------------------------------------------------------
(* Faults, and time. *)

\* The process dies in a call, and leaves its lock file behind; another takes
\* its place.
Crash(p) ==
  /\ pc[p] # "idle" /\ crashes < MaxCrashes
  /\ crashes' = crashes + 1
  /\ End(p)
  /\ UNCHANGED <<file, locking, acked, misread, faults>>

\* STALE_LOCK_MS pass: the creator of the lock file died, or stalls in its
\* section (a suspended machine), which is a fault.
LockAges ==
  /\ lock # Nobody /\ ~old
  /\ old' = TRUE /\ aged' = TRUE /\ acked' = Box!EmptyBox
  /\ IF pc[lock] \in Section THEN Fault ELSE UNCHANGED <<crashes, faults>>
  /\ UNCHANGED <<file, lock, pc, call, copy, misread>>

-----------------------------------------------------------------------------
Step(p) ==
  \/ Open(p) \/ StatLock(p) \/ RemoveStaleLock(p)
  \/ ReadFile(p) \/ WriteFile(p) \/ Release(p)

Next ==
  \/ LockAges
  \/ \E p \in Processes :
       \/ \E c \in Calls : Begin(p, c)
       \/ Step(p) \/ TimeOut(p) \/ ReadFileFails(p) \/ WriteFileFails(p) \/ Crash(p)

Spec == Init /\ [][Next]_vars

\* A process in a call goes on, and its clock reaches LOCK_TIMEOUT_MS.
FairSpec ==
  Spec /\ \A p \in Processes : WF_vars(Step(p)) /\ SF_vars(TimeOut(p))

-----------------------------------------------------------------------------
\* The lock excludes: unless some lock file got old, one process at most is
\* between acquiring and releasing, whatever crashes, fails or times out.
SoleHolderUntilOld ==
  aged \/ Cardinality({p \in Processes : pc[p] \in Section}) <= 1

\* What a call that returned put into the mailbox is there: no append and no mark
\* of another process undoes it, unless a lock got old or the file was misread.
AckedIsKept ==
  /\ acked.have \subseteq file.have
  /\ \A f \in Fields : acked.marked[f] \subseteq file.marked[f]

\* The file implements AtomicMailbox, crashes in every step included, as long
\* as no lock got old and no read of the file failed.
ImplementsMailbox == [][aged' \/ misread' \/ Box!Next]_file

\* Every call ends, by its result or by an error: with a lock that its creator
\* left behind it waits for LOCK_TIMEOUT_MS at most.
CallsEnd == \A p \in Processes : pc[p] # "idle" ~> pc[p] = "idle"
=============================================================================
