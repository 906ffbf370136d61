------------------------------ MODULE TeamFile ------------------------------
(***************************************************************************)
(* The files of one team, team.json, outbox.json and a member's mailbox,   *)
(* as the sessions of several processes read, migrate, merge and write     *)
(* them.                                                                   *)
(*                                                                         *)
(* Every operation begins with validateOrQuarantineTeam, which migrates    *)
(* legacy task notes and legacy outbox effects and quarantines what it     *)
(* cannot support, none of it under a lock of its own                      *)
(* (state/validation.ts, state/taskHistoryMigration.ts).  Then comes the   *)
(* operation: a locked update, a merge with a team created meanwhile, a    *)
(* removal, or a refresh that writes back the copy it read before it asked *)
(* tmux about the panes (state/teamStore.ts, state/merge.ts,               *)
(* adapters/runtime/session.ts).                                           *)
(*                                                                         *)
(* A task's facts and history are rows numbered from the team's counters.  *)
(* A lock is abstracted to its holder (MailboxFile has its protocol); a    *)
(* holder that crashed leaves it to lapse.  Members, the leader among     *)
(* them, are left out: attaching to a team, which makes one its leader, is *)
(* a locked update that leaves the rest of it.  Of the mailbox it only     *)
(* matters whether it can be read.                                         *)
(*                                                                         *)
(* Any read may fail, and a failing read looks like a file that is not     *)
(* there (state/fsStore.ts:83).  team.json and outbox.json go only with    *)
(* their directory: that one goes after it was found and before it is read *)
(* counts as a failing read.                                               *)
(***************************************************************************)
EXTENDS Naturals, Sequences, Functions

CONSTANTS
  Processes,   \* the sessions that use the team
  Messages,    \* mailbox messages that legacy notes and effects refer to
  Notes,       \* legacy notes that tasks of the team may have, in their order
  Legacy,      \* legacy outbox effects that may be pending, in their order
  Operations,  \* the operations the sessions run
  MaxOps,      \* operations in all
  MaxFaults,   \* crashes and failing reads in all
  None         \* no message, no process, no team

ASSUME OperationsAssumption ==
  Operations \subseteq {"log", "refresh", "create", "delete", "enqueue", "mail", "dismiss"}

ASSUME NotesAssumption ==
  /\ Notes \in Seq(Range(Notes))
  /\ \A n \in Range(Notes) :
       n.kind \in {"message", "report", "plain"} /\ n.link \in Messages \cup {None}

(* "note" effects are task_note_append_requested, "triage" the kind that   *)
(* has no compatibility path.                                              *)
ASSUME LegacyAssumption ==
  /\ Legacy \in Seq(Range(Legacy))
  /\ \A e \in Range(Legacy) : e.kind \in {"note", "triage"} /\ e.link \in Messages \cup {None}

ASSUME BoundsType == MaxOps \in Nat /\ MaxFaults \in Nat

(* A team: the legacy notes of its tasks (legacy: tasks have a "notes"     *)
(* field at all), the rows of its history and the next number of each      *)
(* table, and the effects whose cleanup it noted.  Numbers start at one,   *)
(* as seq() in taskHistory.ts has it.                                      *)
Tables == {"reports", "events", "refs"}

NoteIds   == {n.id : n \in Range(Notes)}
EffectIds == {e.id : e \in Range(Legacy)}

Teams ==
  [legacy : BOOLEAN, notes : SUBSET Range(Notes),
   reports : SUBSET [id : Nat \ {0}, what : [kind : {"report"}, of : NoteIds]],
   events : SUBSET [id : Nat \ {0},
                    what : [kind : {"submitted", "event", "cleanup", "fact"},
                            of : NoteIds \cup EffectIds \cup Processes]],
   refs : SUBSET [id : Nat \ {0}, what : [kind : {"ref"}, of : Messages]],
   next : [Tables -> Nat \ {0}],
   cleaned : SUBSET EffectIds]

ASSUME NoneAssumption ==
  None \notin Processes \cup Messages \cup Teams
              \cup {"log", "refresh", "create", "attach", "delete", "enqueue", "append",
                    "mail", "dismiss", "there", "unsupported"}

VARIABLES
  file,        \* team.json, or None
  outbox,      \* the pending effects of outbox.json
  inbox,       \* the mailbox: None, "there", "unsupported" or who made it, still empty
  lock,        \* who holds team.json.lock
  outboxLock,  \* who holds outbox.json.lock
  quarantined, \* is there a quarantine record of the team?
  proc,        \* what each process is doing
  ops, faults  \* operations and faults so far

directory == <<file, outbox, inbox, lock, outboxLock>>
vars      == <<directory, quarantined, proc, ops, faults>>

(* A process: the step it is at, its operation, the team and the effects   *)
(* it has read and is about to write back, the copy its operation carries  *)
(* across the next validation, whether a read failed it in the validation  *)
(* or under the lock, and the reasons the validation has found.            *)
Idle == [pc |-> "idle", op |-> None, copy |-> None, box |-> {}, stale |-> None,
         misread |-> FALSE, reasons |-> {}]

-----------------------------------------------------------------------------
(* The rows of a team's history, and how notes and effects become rows.    *)

Row(kind, of) == [kind |-> kind, of |-> of]

CreateInitialTeam ==
  [legacy |-> FALSE, notes |-> {}, reports |-> {}, events |-> {}, refs |-> {},
   next |-> [t \in Tables |-> 1], cleaned |-> {}]

LegacyTeam == [CreateInitialTeam EXCEPT !.legacy = TRUE, !.notes = Range(Notes)]

(* (An operator named ...Mutant... is a plausible bug in the operator      *)
(* after it; it is used only to see that a property notices.)              *)
AddRowMutantSameNumber(team, table, what) ==
  IF \E r \in team[table] : r.what = what THEN team
  ELSE [team EXCEPT ![table] = @ \cup {[id |-> team.next[table], what |-> what]}]

(* A row is added once: what it says is its key, for a ref the message.    *)
AddRow(team, table, what) ==
  IF \E r \in team[table] : r.what = what THEN team
  ELSE [team EXCEPT ![table] = @ \cup {[id |-> team.next[table], what |-> what]},
                    !.next[table] = @ + 1]

IsCommunicationRef(note) == note.kind = "message" \/ note.link # None

MigrateMessageRefNote(team, note) ==
  IF note.link = None THEN team ELSE AddRow(team, "refs", Row("ref", note.link))

MigrateReportNote(team, note) ==
  AddRow(AddRow(team, "reports", Row("report", note.id)), "events", Row("submitted", note.id))

MigrateEventNote(team, note) == AddRow(team, "events", Row("event", note.id))

MigrateNote(team, note) ==
  CASE IsCommunicationRef(note) -> MigrateMessageRefNote(team, note)
    [] ~IsCommunicationRef(note) /\ note.kind = "report" -> MigrateReportNote(team, note)
    [] ~IsCommunicationRef(note) /\ note.kind = "plain" -> MigrateEventNote(team, note)

(* The team after converting what there is of a list, one after the other. *)
InTurn(Convert(_, _), team, list, there) ==
  LET after[n \in 0..Len(list)] ==
        IF n = 0 THEN team
        ELSE IF list[n] \in there THEN Convert(after[n - 1], list[n])
        ELSE after[n - 1]
  IN  after[Len(list)]

MigrateTaskNotesToHistory(team) ==
  [InTurn(MigrateNote, team, Notes, team.notes) EXCEPT !.legacy = FALSE, !.notes = {}]

MigrateEffect(team, e) ==
  LET converted == IF e.link = None THEN team ELSE AddRow(team, "refs", Row("ref", e.link))
  IN  AddRow([converted EXCEPT !.cleaned = @ \cup {e.id}], "events", Row("cleanup", e.id))

NoteEffects(effects) == {e \in effects : e.kind = "note"}

MigrateLegacyTaskNoteOutboxEffects(team, effects) ==
  InTurn(MigrateEffect, team, Legacy, NoteEffects(effects))

MergeRows(current, incoming) ==
  incoming \cup {r \in current : \A i \in incoming : i.id # r.id}

MergeRefs(current, incoming) ==
  incoming \cup {r \in current : \A i \in incoming : i.id # r.id /\ i.what # r.what}

MergeTeamStates(current, incoming) ==
  [incoming EXCEPT
     !.reports = MergeRows(current.reports, @),
     !.events = MergeRows(current.events, @),
     !.refs = MergeRefs(current.refs, @),
     !.cleaned = @ \cup current.cleaned,
     !.next = [t \in Tables |-> IF current.next[t] > @[t] THEN current.next[t] ELSE @[t]]]

-----------------------------------------------------------------------------
Init ==
  /\ file \in {None, CreateInitialTeam, LegacyTeam}
  /\ outbox \in IF file = None THEN {{}} ELSE SUBSET Range(Legacy)
  /\ inbox \in IF file = None THEN {None} ELSE {None, "there", "unsupported"}
  /\ lock = None /\ outboxLock = None
  /\ quarantined = FALSE
  /\ proc = [p \in Processes |-> Idle]
  /\ ops = 0
  /\ faults = 0

At(p, pc) == proc[p].pc = pc

Becomes(p, state) == proc' = [proc EXCEPT ![p] = state]

GoTo(p, pc) == Becomes(p, [proc[p] EXCEPT !.pc = pc])

Fault == faults < MaxFaults /\ faults' = faults + 1

Begin(p, op) ==
  /\ At(p, "idle")
  /\ ops < MaxOps
  /\ op \in {"log", "refresh", "mail", "dismiss"} => file # None
  /\ ops' = ops + 1
  /\ Becomes(p, [Idle EXCEPT !.pc = "state", !.op = op])
  /\ UNCHANGED <<directory, quarantined, faults>>

-----------------------------------------------------------------------------
(* validateOrQuarantineTeam: migrate, then check.  It takes no lock.       *)

(* "outboxToo" says that team.json has to be written for its notes alone.  *)
LookState(p) ==
  /\ At(p, "state")
  /\ Becomes(p, [proc[p] EXCEPT
       !.copy = file,
       !.pc = IF file # None /\ file.legacy THEN "outboxToo" ELSE "outbox"])
  /\ UNCHANGED <<directory, quarantined, ops, faults>>

LookStateFails(p) ==
  /\ At(p, "state")
  /\ file # None
  /\ Fault
  /\ Becomes(p, [proc[p] EXCEPT !.copy = None, !.pc = "outbox", !.misread = TRUE])
  /\ UNCHANGED <<directory, quarantined, ops>>

AfterLook(p) == IF At(p, "outboxToo") THEN "saveState" ELSE "check"

(* Effects are converted into the team that was read, if there was one.    *)
LookOutbox(p) ==
  /\ proc[p].pc \in {"outbox", "outboxToo"}
  /\ IF proc[p].copy # None /\ NoteEffects(outbox) # {}
     THEN Becomes(p, [proc[p] EXCEPT !.box = outbox, !.pc = "saveOutbox"])
     ELSE GoTo(p, AfterLook(p))
  /\ UNCHANGED <<directory, quarantined, ops, faults>>

LookOutboxFails(p) ==
  /\ proc[p].pc \in {"outbox", "outboxToo"}
  /\ proc[p].copy # None /\ NoteEffects(outbox) # {}
  /\ Fault
  /\ Becomes(p, [proc[p] EXCEPT !.pc = AfterLook(p), !.misread = TRUE])
  /\ UNCHANGED <<directory, quarantined, ops>>

SaveOutboxMutantKeeps(p) ==
  /\ At(p, "saveOutbox")
  /\ outbox' = proc[p].box
  /\ GoTo(p, "saveState")
  /\ UNCHANGED <<file, inbox, lock, outboxLock, quarantined, ops, faults>>

SaveOutbox(p) ==
  /\ At(p, "saveOutbox")
  /\ outbox' = proc[p].box \ NoteEffects(proc[p].box)
  /\ GoTo(p, "saveState")
  /\ UNCHANGED <<file, inbox, lock, outboxLock, quarantined, ops, faults>>

SaveStateMutantNotesOnly(p) ==
  /\ At(p, "saveState")
  /\ file' = MigrateTaskNotesToHistory(proc[p].copy)
  /\ GoTo(p, "check")
  /\ UNCHANGED <<outbox, inbox, lock, outboxLock, quarantined, ops, faults>>

SaveState(p) ==
  /\ At(p, "saveState")
  /\ file' = MigrateLegacyTaskNoteOutboxEffects(MigrateTaskNotesToHistory(proc[p].copy), proc[p].box)
  /\ GoTo(p, "check")
  /\ UNCHANGED <<outbox, inbox, lock, outboxLock, quarantined, ops, faults>>

(* validatePersistedTeamDir: one file after the other, reasons collected.  *)
Finds(p, reasons, pc) ==
  Becomes(p, [proc[p] EXCEPT !.pc = pc, !.reasons = @ \cup reasons, !.copy = None, !.box = {}])

If(found, reason) == IF found THEN {reason} ELSE {}

CheckState(p) ==
  /\ At(p, "check")
  /\ Finds(p, If(file # None /\ file.legacy, "legacy"), "listInboxes")
  /\ UNCHANGED <<directory, quarantined, ops, faults>>

CheckStateFails(p) ==
  /\ At(p, "check")
  /\ file # None
  /\ Fault
  /\ Finds(p, {"unread"}, "listInboxes")
  /\ UNCHANGED <<directory, quarantined, ops>>

ListInboxes(p) ==
  /\ At(p, "listInboxes")
  /\ Finds(p, {}, IF inbox = None THEN "checkOutbox" ELSE "readInbox")
  /\ UNCHANGED <<directory, quarantined, ops, faults>>

(* The mailbox may be gone by now, or have no content yet.                 *)
CheckInbox(p) ==
  /\ At(p, "readInbox")
  /\ Finds(p, If(inbox = "unsupported", "unsupported")
                \cup If(inbox \in Processes \cup {None}, "unread"), "checkOutbox")
  /\ UNCHANGED <<directory, quarantined, ops, faults>>

CheckInboxFails(p) ==
  /\ At(p, "readInbox")
  /\ Fault
  /\ Finds(p, {"unread"}, "checkOutbox")
  /\ UNCHANGED <<directory, quarantined, ops>>

(* What follows a validation that found the team to be in order.           *)
Operation(p) ==
  CASE proc[p].op = "append" -> "appending"
    [] proc[p].op = "mail" -> "open"
    [] proc[p].op \in {"log", "dismiss", "enqueue"} \/ proc[p].stale # None -> "lock"
    [] OTHER -> "read"

Passed(p) == [Idle EXCEPT !.pc = Operation(p), !.op = proc[p].op, !.stale = proc[p].stale]

(* An effect of a legacy kind is a reason, also one that is converted.     *)
CheckOutbox(p) ==
  /\ At(p, "checkOutbox")
  /\ LET found == If(NoteEffects(outbox) # {}, "legacy")
                    \cup If(\E e \in outbox : e.kind = "triage", "unsupported")
     IN  IF proc[p].reasons \cup found = {} THEN Becomes(p, Passed(p))
         ELSE Finds(p, found, "quarantine")
  /\ UNCHANGED <<directory, quarantined, ops, faults>>

CheckOutboxFails(p) ==
  /\ At(p, "checkOutbox")
  /\ Fault
  /\ Finds(p, {"unread"}, "quarantine")
  /\ UNCHANGED <<directory, quarantined, ops>>

DirectoryGoes ==
  file' = None /\ outbox' = {} /\ inbox' = None /\ lock' = None /\ outboxLock' = None

(* The directory is renamed, its lock files with it.  A deletion and a     *)
(* dismissal go on nevertheless, and an enqueue that was already in its    *)
(* locked section goes on with an empty outbox.  (Whether a directory with *)
(* none of the files is left somewhere is not kept track of.)              *)
QuarantineTeamDir(p) ==
  /\ At(p, "quarantine")
  /\ DirectoryGoes
  /\ quarantined' = TRUE
  /\ Becomes(p, CASE proc[p].op = "delete"  -> [Idle EXCEPT !.pc = "remove", !.op = "delete"]
                  [] proc[p].op = "dismiss" -> [Idle EXCEPT !.pc = "unlink", !.op = "dismiss"]
                  [] proc[p].op = "append"  -> [Idle EXCEPT !.pc = "write", !.op = "append"]
                  [] OTHER -> Idle)
  /\ UNCHANGED <<ops, faults>>

(* The directory is gone by now: nothing is set aside, the operation goes  *)
(* on.                                                                     *)
NothingToQuarantine(p) ==
  /\ At(p, "quarantine")
  /\ file = None /\ outbox = {} /\ inbox = None /\ lock = None /\ outboxLock = None
  /\ Becomes(p, Passed(p))
  /\ UNCHANGED <<directory, quarantined, ops, faults>>

-----------------------------------------------------------------------------
(* The operations.                                                         *)

AfterRead(p, team) ==
  CASE proc[p].op = "refresh" ->
         IF team = None THEN Idle ELSE [proc[p] EXCEPT !.stale = team, !.pc = "panes"]
    [] proc[p].op = "create" ->
         IF team # None THEN [proc[p] EXCEPT !.op = "attach", !.stale = team, !.pc = "panes"]
         ELSE IF quarantined THEN Idle
         ELSE [proc[p] EXCEPT !.stale = CreateInitialTeam, !.pc = "state"]
    [] proc[p].op = "delete" -> [proc[p] EXCEPT !.pc = "remove"]

(* readTeamState.  Validation has just migrated what there was.            *)
Read(p) ==
  /\ At(p, "read")
  /\ Becomes(p, AfterRead(p, file))
  /\ UNCHANGED <<directory, quarantined, ops, faults>>

ReadFails(p) ==
  /\ At(p, "read")
  /\ file # None
  /\ Fault
  /\ Becomes(p, AfterRead(p, None))
  /\ UNCHANGED <<directory, quarantined, ops>>

(* reconcileTeamPanes asks tmux about every pane, and one who would attach *)
(* to a team asks about the leader's.  Nothing is written when no pane has *)
(* changed, or when the leader's is another one and active.                *)
PanesLeaveIt(p) ==
  /\ At(p, "panes")
  /\ Becomes(p, Idle)
  /\ UNCHANGED <<directory, quarantined, ops, faults>>

PanesCallForIt(p) ==
  /\ At(p, "panes")
  /\ GoTo(p, "state")
  /\ UNCHANGED <<directory, quarantined, ops, faults>>

(* updateOutboxStore: under the outbox's own lock everything is validated  *)
(* once more, and then read.                                               *)
AcquireOutbox(p) ==
  /\ At(p, "lock")
  /\ proc[p].op = "enqueue"
  /\ outboxLock = None
  /\ outboxLock' = p
  /\ Becomes(p, [proc[p] EXCEPT !.op = "append", !.pc = "state"])
  /\ UNCHANGED <<file, outbox, inbox, lock, quarantined, ops, faults>>

(* normalizeOutboxStore drops the kinds it does not know.                  *)
ReadOutbox(p) ==
  /\ At(p, "appending")
  /\ Becomes(p, [proc[p] EXCEPT !.box = {e \in outbox : e.kind = "new"}, !.pc = "write"])
  /\ UNCHANGED <<directory, quarantined, ops, faults>>

ReadOutboxFails(p) ==
  /\ At(p, "appending")
  /\ Fault
  /\ Becomes(p, [proc[p] EXCEPT !.pc = "write", !.misread = TRUE])
  /\ UNCHANGED <<directory, quarantined, ops>>

NewEffect(p) == [kind |-> "new", id |-> p, link |-> None]

Enqueue(p) ==
  /\ At(p, "write")
  /\ outbox' = proc[p].box \cup {NewEffect(p)}
  /\ outboxLock' = None
  /\ Becomes(p, Idle)
  /\ UNCHANGED <<file, inbox, lock, quarantined, ops, faults>>

(* withFileLock, and the first thing read under it.                        *)
Acquire(p) ==
  /\ At(p, "lock")
  /\ proc[p].op # "enqueue"
  /\ lock = None
  /\ lock' = p
  /\ Becomes(p, [proc[p] EXCEPT !.copy = file, !.pc = "commit"])
  /\ UNCHANGED <<file, outbox, inbox, outboxLock, quarantined, ops, faults>>

AcquireFails(p) ==
  /\ At(p, "lock")
  /\ proc[p].op # "enqueue"
  /\ lock = None
  /\ file # None
  /\ Fault
  /\ lock' = p
  /\ Becomes(p, [proc[p] EXCEPT !.pc = "commit", !.misread = TRUE])
  /\ UNCHANGED <<file, outbox, inbox, outboxLock, quarantined, ops>>

AcquireTimesOut(p) ==
  /\ At(p, "lock")
  /\ (IF proc[p].op = "enqueue" THEN outboxLock ELSE lock) # None
  /\ Becomes(p, Idle)
  /\ UNCHANGED <<directory, quarantined, ops, faults>>

(* What updateTeamState and writeTeamState make of the team they read.  A  *)
(* session's fact is the same each time: once it is there, committing it   *)
(* again leaves the content, and so the file, as it is (teamContentKey).   *)
Written(p) ==
  LET current == proc[p].copy
  IN  CASE proc[p].op = "create" ->
             IF current = None THEN proc[p].stale ELSE MergeTeamStates(current, proc[p].stale)
        [] proc[p].op \in {"log", "dismiss"} -> AddRow(current, "events", Row("fact", p))
        [] proc[p].op = "attach" -> current
        [] proc[p].op = "refresh" -> proc[p].stale

Commit(p) ==
  /\ At(p, "commit")
  /\ file' = IF proc[p].copy = None /\ proc[p].op # "create" THEN file ELSE Written(p)
  /\ lock' = None
  /\ Becomes(p, IF proc[p].op = "dismiss" THEN [Idle EXCEPT !.pc = "unlink", !.op = "dismiss"]
                ELSE Idle)
  /\ UNCHANGED <<outbox, inbox, outboxLock, quarantined, ops, faults>>

(* deleteTeamState removes the directory, lock files and all.              *)
DeleteTeamState(p) ==
  /\ At(p, "remove")
  /\ DirectoryGoes
  /\ Becomes(p, Idle)
  /\ UNCHANGED <<quarantined, ops, faults>>

(* ensureMailboxFile creates a mailbox in two steps, an empty file and its *)
(* content; by then the file may have been removed, and be another.        *)
OpenInbox(p) ==
  /\ At(p, "open")
  /\ inbox' = IF inbox = None THEN p ELSE inbox
  /\ GoTo(p, IF inbox = None THEN "fill" ELSE "push")
  /\ UNCHANGED <<file, outbox, lock, outboxLock, quarantined, ops, faults>>

FillInbox(p) ==
  /\ At(p, "fill")
  /\ inbox' = IF inbox = p THEN "there" ELSE inbox
  /\ GoTo(p, "push")
  /\ UNCHANGED <<file, outbox, lock, outboxLock, quarantined, ops, faults>>

(* A message is appended, to what can be read; or it was but a reader.     *)
PushMailboxMessage(p) ==
  /\ At(p, "push")
  /\ inbox' \in {inbox, IF inbox = "unsupported" THEN inbox ELSE "there"}
  /\ Becomes(p, Idle)
  /\ UNCHANGED <<file, outbox, lock, outboxLock, quarantined, ops, faults>>

(* removeSelectedMember, after its update, whatever came of that.  (Its    *)
(* first look at the team is a refresh that leaves it.)                    *)
RemoveMailbox(p) ==
  /\ At(p, "unlink")
  /\ inbox' = None
  /\ Becomes(p, Idle)
  /\ UNCHANGED <<file, outbox, lock, outboxLock, quarantined, ops, faults>>

Crash(p) ==
  /\ ~At(p, "idle")
  /\ Fault
  /\ Becomes(p, Idle)
  /\ UNCHANGED <<directory, quarantined, ops>>

(* A lock nobody holds any more is removed once it is old.                 *)
LockLapses ==
  \/ /\ lock # None
     /\ ~At(lock, "commit")
     /\ lock' = None
     /\ UNCHANGED <<file, outbox, inbox, outboxLock, quarantined, proc, ops, faults>>
  \/ /\ outboxLock # None
     /\ proc[outboxLock].op # "append"
     /\ outboxLock' = None
     /\ UNCHANGED <<file, outbox, inbox, lock, quarantined, proc, ops, faults>>

Validation(p) ==
  \/ LookState(p) \/ LookStateFails(p) \/ LookOutbox(p) \/ LookOutboxFails(p)
  \/ SaveOutbox(p) \/ SaveState(p)
  \/ CheckState(p) \/ CheckStateFails(p) \/ ListInboxes(p) \/ CheckInbox(p) \/ CheckInboxFails(p)
  \/ CheckOutbox(p) \/ CheckOutboxFails(p) \/ QuarantineTeamDir(p) \/ NothingToQuarantine(p)

Step(p) ==
  \/ \E op \in Operations : Begin(p, op)
  \/ Validation(p)
  \/ Read(p) \/ ReadFails(p) \/ PanesLeaveIt(p) \/ PanesCallForIt(p)
  \/ AcquireOutbox(p) \/ ReadOutbox(p) \/ ReadOutboxFails(p) \/ Enqueue(p)
  \/ Acquire(p) \/ AcquireFails(p) \/ AcquireTimesOut(p) \/ Commit(p) \/ DeleteTeamState(p)
  \/ OpenInbox(p) \/ FillInbox(p) \/ PushMailboxMessage(p) \/ RemoveMailbox(p)
  \/ Crash(p)

Next == LockLapses \/ \E p \in Processes : Step(p)

Spec == Init /\ [][Next]_vars
-----------------------------------------------------------------------------
(* The variables have their types.                                         *)
Effects == Range(Legacy) \cup {NewEffect(p) : p \in Processes}

ProcState ==
  [pc : {"idle", "state", "outbox", "outboxToo", "saveOutbox", "saveState",
         "check", "listInboxes", "readInbox", "checkOutbox", "quarantine",
         "read", "panes", "lock", "commit", "remove", "appending", "write",
         "open", "fill", "push", "unlink"},
   op : {None, "log", "refresh", "create", "attach", "delete", "enqueue", "append",
         "mail", "dismiss"},
   copy : Teams \cup {None}, box : SUBSET Effects, stale : Teams \cup {None},
   misread : BOOLEAN, reasons : SUBSET {"legacy", "unsupported", "unread"}]

TypeOK ==
  /\ file \in Teams \cup {None}
  /\ outbox \subseteq Effects
  /\ inbox \in {None, "there", "unsupported"} \cup Processes
  /\ lock \in Processes \cup {None}
  /\ outboxLock \in Processes \cup {None}
  /\ quarantined \in BOOLEAN
  /\ proc \in [Processes -> ProcState]
  /\ ops \in 0..MaxOps
  /\ faults \in 0..MaxFaults

(* What is known of the team: the rows of its history, and what its legacy *)
(* notes and effects will become rows of.  (A communication note that      *)
(* names no message becomes nothing.)                                      *)
RowOfNote(note) ==
  Row(IF IsCommunicationRef(note) THEN "ref" ELSE IF note.kind = "report" THEN "report" ELSE "event",
      IF IsCommunicationRef(note) THEN note.link ELSE note.id)

Said(team) ==
  IF team = None THEN {}
  ELSE {r.what : r \in team.reports \cup team.events \cup team.refs}
       \cup {Row("cleaned", e) : e \in team.cleaned}
       \cup {RowOfNote(n) : n \in {m \in team.notes : IsCommunicationRef(m) => m.link # None}}

Pending(effects) ==
  {Row("ref", e.link) : e \in {d \in NoteEffects(effects) : d.link # None}}
  \cup {Row("cleaned", e.id) : e \in NoteEffects(effects)}
  \cup {Row("effect", e.id) : e \in {d \in effects : d.kind = "new"}}

Seen(p) == Said(proc[p].copy) \cup Pending(proc[p].box)

(* Between the write of the outbox and the write of the team, what the     *)
(* outbox held is nowhere but in the process that converts it.             *)
Known == Said(file) \cup Pending(outbox) \cup UNION {Seen(p) : p \in {q \in Processes : At(q, "saveState")}}

Moves(p) == proc'[p] # proc[p]

(* The ways by which something known of the team may be forgotten: its     *)
(* directory is removed or set aside; a migration, which takes no lock, or *)
(* a refresh writes a copy it read before; a process dies between its two  *)
(* writes; a locked section is overtaken by a migration, runs on after its *)
(* lock went with the directory, or writes after the read under its lock   *)
(* failed: a team that is created instead of what was there, an outbox     *)
(* that has the new effect alone.                                          *)
MayForget(p, what) ==
  \/ proc[p].pc \in {"remove", "quarantine"}
  \/ proc[p].pc \in {"saveOutbox", "saveState"} /\ what \notin Seen(p)
  \/ At(p, "saveState") /\ proc'[p] = Idle
  \/ At(p, "commit") /\ proc[p].op = "refresh" /\ what \notin Said(proc[p].stale)
  \/ /\ At(p, "commit") /\ what \notin Seen(p)
     /\ what.kind # "fact" \/ lock # p \/ (proc[p].op = "create" /\ proc[p].misread)
  \/ At(p, "write") /\ what \notin Seen(p) /\ (outboxLock # p \/ proc[p].misread)

(* Whatever is known of a team, in its history, in notes and effects of an *)
(* earlier version or in what a process is converting, stays known through *)
(* every migration, merge and locked update, and is forgotten only in the  *)
(* ways above (validation.ts:505, teamStore.ts:139, merge.ts:124).         *)
ForgottenOnlyByStaleCopies ==
  [][\A what \in Known \ Known' : \E p \in Processes : Moves(p) /\ MayForget(p, what)]_vars

(* The history has each thing once and no number twice, however often and  *)
(* by however many processes notes and effects about the same message were *)
(* converted (taskHistoryMigration.ts:240, taskHistory.ts:177).            *)
HistoryIsIndexed ==
  file # None =>
    \A t \in Tables : \A r, s \in file[t] :
      /\ r.id < file.next[t]
      /\ r.id = s.id \/ r.what = s.what => r = s

(* A team is quarantined for what no version converts, or because one of   *)
(* its files could not be read: an error, a file that went after it was    *)
(* found, or a mailbox between its creation and its first content, where a *)
(* crash may have left it.  It is never quarantined because another        *)
(* process was converting it at the same moment, though conversion and     *)
(* check take no lock (validation.ts:376, 580).                            *)
QuarantinedForCause ==
  \A p \in Processes : At(p, "quarantine") =>
    proc[p].misread \/ proc[p].reasons \cap {"unsupported", "unread"} # {}
=============================================================================
