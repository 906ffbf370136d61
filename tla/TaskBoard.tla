------------------------------ MODULE TaskBoard ------------------------------
(***************************************************************************)
(* The tasks, reports and history of a team, as part of team.json, and the *)
(* calls of agentteam_task that leader and workers make, each in a process *)
(* of its own.  A call reads the team and checks on that copy who asks and *)
(* what the task is like; the change itself is made under the file lock,   *)
(* where only the transition of the task is checked again.  Between the    *)
(* two, other processes go ahead.  And a call that finds a pane moved or   *)
(* gone saves its whole copy first, whatever the file holds by then.       *)
(***************************************************************************)
EXTENDS Naturals, Sequences, FiniteSets

CONSTANTS Leader,        \* TEAM_LEAD
          Workers,       \* the other members
          Running,       \* the members whose process runs at first
          Nobody,        \* `owner' of a task without one
          NoMail,        \* `mail' of a report without mailboxMessageId
          MaxTasks,      \* tasks that are created (a bound)
          MaxEvents,     \* events that calls begin to make (a bound)
          MaxPaneChanges \* panes that move or go away (a bound)

ASSUME NamesDiffer == Leader \notin Workers /\ Nobody \notin Workers \cup {Leader}
ASSUME RunningType == Running \subseteq Workers \cup {Leader}
ASSUME BoundsType  == MaxTasks \in Nat /\ MaxEvents \in Nat /\ MaxPaneChanges \in Nat

VARIABLES
  team,       \* team.json: members, panes, tasks, reports, log
  tmux,       \* how often a pane moved or went away: what tmux says of them
  sessions,   \* members whose process runs with a session bound to the team
  leaving,    \* removed members whose session and pane are still to be ended
  call,       \* [Actors -> CallState], the local state of each call
  mails,      \* mail to the leader about reports: the effects of the outbox
  overwritten \* history: a copy was saved over a change it did not have

vars == <<team, tmux, sessions, leaving, call, mails, overwritten>>
outside == <<tmux, sessions, leaving>>

Actors == Workers \cup {Leader}
TaskIds == Nat \ {0}

\* gated: blockedBy is not empty.
Task   == [status: {"open", "blocked", "done"}, owner: Actors \cup {Nobody}, gated: BOOLEAN]
Report == [task: TaskIds, author: Actors, owner: Actors \cup {Nobody},
           status: {"open", "blocked"}, mail: {NoMail} \cup [report: TaskIds, task: TaskIds, author: Actors]]
Event  == [type: {"created", "assigned", "blocked", "unblocked", "closed",
                  "progress", "report_submitted", "owner_removed"},
           task: TaskIds, owner: Actors \cup {Nobody}, gated: BOOLEAN, report: Nat]

\* The ids of tasks, reports and events are their positions: the counters
\* nextTaskSeq, nextTaskReportSeq, nextTaskEventSeq are part of the file.
\* panes: the state of tmux the recorded bindings agree with.
Team == [members: SUBSET Actors, panes: Nat, tasks: Seq(Task),
         reports: Seq(Report), log: Seq(Event)]

\* action=list, show and the refresh of a session only read: "look".
Look == [action |-> "look", task |-> 1, owner |-> Nobody, gated |-> FALSE]
Commands ==
  {Look}
    \cup {[Look EXCEPT !.action = "create", !.owner = o] : o \in Actors \cup {Nobody}}
    \cup UNION {{[Look EXCEPT !.action = "assign", !.task = t, !.owner = o] : o \in Actors}
                  \cup {[Look EXCEPT !.action = "block", !.task = t, !.gated = g] : g \in BOOLEAN}
                  \cup {[Look EXCEPT !.action = a, !.task = t] :
                          a \in {"unblock", "close", "progress", "report"}} :
                t \in 1 .. MaxTasks}

IdleCall == [pc |-> "idle", command |-> Look]

-----------------------------------------------------------------------------
\* What a call checks, and what its locked update makes of the team.

\* transitionTask: from which status an action goes.
CanTransition(task, action) ==
  CASE action \in {"assign", "block"} -> task.status = "open"
    [] action = "unblock"             -> task.status = "blocked"
    [] action \in {"close", "report"} -> task.status # "done"
    [] OTHER                          -> TRUE

\* ensureTaskPrivilege.
Privileged(actor, action) ==
  actor = Leader \/ action \in {"look", "progress", "report"}

\* assertValidOwner.
ValidOwner(b, owner) == owner = Leader \/ owner \in b.members

CheckedMutantAnyReporter(b, actor, c) ==
  /\ c.action # "look" /\ Privileged(actor, c.action)
  /\ c.action \notin {"create", "progress"} =>
       /\ c.task \in DOMAIN b.tasks
       /\ CanTransition(b.tasks[c.task], c.action)
       /\ c.action = "assign" => ValidOwner(b, c.owner)

\* What the command checks on the copy it read; a look changes nothing.
Checked(b, actor, c) ==
  /\ c.action # "look" /\ Privileged(actor, c.action)
  /\ c.action \notin {"create", "progress"} =>
       /\ c.task \in DOMAIN b.tasks
       /\ CanTransition(b.tasks[c.task], c.action)
       /\ c.action = "assign" => ValidOwner(b, c.owner)
       /\ c.action = "report" => actor \in {Leader, b.tasks[c.task].owner}

\* What it checks again under the lock; otherwise it throws.
Accepted(b, c) ==
  IF c.action = "create" THEN c.owner = Nobody \/ ValidOwner(b, c.owner)
  ELSE c.task \in DOMAIN b.tasks /\ CanTransition(b.tasks[c.task], c.action)

PlainEvent(type, t) ==
  [type |-> type, task |-> t, owner |-> Nobody, gated |-> FALSE, report |-> 0]
Logged(b, e) == [b EXCEPT !.log = Append(@, e)]
Changed(b, t, task) == [b EXCEPT !.tasks[t] = task]

Created(b, c) ==
  LET t  == Len(b.tasks) + 1
      b1 == Logged([b EXCEPT !.tasks =
                      Append(@, [status |-> "open", owner |-> c.owner, gated |-> FALSE])],
                   PlainEvent("created", t))
  IN IF c.owner = Nobody THEN b1
     ELSE Logged(b1, [PlainEvent("assigned", t) EXCEPT !.owner = c.owner])

Assigned(b, c) ==
  Logged(Changed(b, c.task, [b.tasks[c.task] EXCEPT !.owner = c.owner]),
         [PlainEvent("assigned", c.task) EXCEPT !.owner = c.owner])

Blocked(b, c) ==
  Logged(Changed(b, c.task, [b.tasks[c.task] EXCEPT !.status = "blocked", !.gated = c.gated]),
         [PlainEvent("blocked", c.task) EXCEPT !.gated = c.gated])

UnblockedMutantGateStays(b, c) ==
  Logged(Changed(b, c.task, [b.tasks[c.task] EXCEPT !.status = "open"]),
         PlainEvent("unblocked", c.task))

Unblocked(b, c) ==
  Logged(Changed(b, c.task, [b.tasks[c.task] EXCEPT !.status = "open", !.gated = FALSE]),
         PlainEvent("unblocked", c.task))

Closed(b, c) ==
  Logged(Changed(b, c.task, [b.tasks[c.task] EXCEPT !.status = "done", !.gated = FALSE]),
         PlainEvent("closed", c.task))

ReportedMutantOwnerIsActor(b, actor, c) ==
  Logged([b EXCEPT !.reports =
            Append(@, [task |-> c.task, author |-> actor, owner |-> actor,
                       status |-> b.tasks[c.task].status, mail |-> NoMail])],
         [PlainEvent("report_submitted", c.task) EXCEPT !.report = Len(b.reports) + 1])

\* report_done and report_blocked: the task itself stays as it is.
Reported(b, actor, c) ==
  Logged([b EXCEPT !.reports =
            Append(@, [task |-> c.task, author |-> actor, owner |-> b.tasks[c.task].owner,
                       status |-> b.tasks[c.task].status, mail |-> NoMail])],
         [PlainEvent("report_submitted", c.task) EXCEPT !.report = Len(b.reports) + 1])

Committed(b, actor, c) ==
  CASE c.action = "create"   -> Created(b, c)
    [] c.action = "assign"   -> Assigned(b, c)
    [] c.action = "block"    -> Blocked(b, c)
    [] c.action = "unblock"  -> Unblocked(b, c)
    [] c.action = "close"    -> Closed(b, c)
    [] c.action = "progress" -> Logged(b, PlainEvent("progress", c.task))
    [] c.action = "report"   -> Reported(b, actor, c)

ReopenedMutantOpenOnly(b, m) ==
  {t \in DOMAIN b.tasks : b.tasks[t].owner = m /\ b.tasks[t].status = "open"}

ReopenedMutantDoneToo(b, m) == {t \in DOMAIN b.tasks : b.tasks[t].owner = m}

\* removeMember: the tasks it gives back.
Reopened(b, m) == {t \in DOMAIN b.tasks : b.tasks[t].owner = m /\ b.tasks[t].status # "done"}

\* The members of a set of ids, in their order.
InOrder(S) == [i \in 1 .. Cardinality(S) |-> CHOOSE t \in S : Cardinality({u \in S : u <= t}) = i]

\* Their blockedBy stays.
Removed(b, m) ==
  LET ids == InOrder(Reopened(b, m))
  IN [b EXCEPT !.members = @ \ {m},
               !.tasks = [t \in DOMAIN @ |->
                            IF t \in Reopened(b, m) THEN [@[t] EXCEPT !.status = "open", !.owner = Nobody]
                            ELSE @[t]],
               !.log = @ \o [i \in DOMAIN ids |-> PlainEvent("owner_removed", ids[i])]]

-----------------------------------------------------------------------------
Init ==
  /\ team = [members |-> Actors, panes |-> 0, tasks |-> <<>>, reports |-> <<>>, log |-> <<>>]
  /\ tmux = 0 /\ sessions = Running /\ leaving = {}
  /\ call = [a \in Actors |-> IdleCall]
  /\ mails = {}
  /\ overwritten = FALSE

\* The call goes on with what it read.
GoesOn(b, actor, c) ==
  IF Checked(b, actor, c) THEN [pc |-> "commit", command |-> c] ELSE IdleCall

Changing == {a \in Actors : call[a].pc \in {"save", "commit"}}

\* ensureTeamForSession reads the team and reconciles the recorded panes with
\* tmux; if that changed the copy, the copy is to be saved first.
Begin(actor, c) ==
  /\ call[actor].pc = "idle" /\ actor \in sessions
  /\ c.action # "look" => Len(team.log) + Cardinality(Changing) < MaxEvents
  /\ c.action = "create" => Len(team.tasks) < MaxTasks
  /\ call' = [call EXCEPT ![actor] =
       IF team.panes # tmux
         THEN [pc |-> "save", command |-> c, copy |-> [team EXCEPT !.panes = tmux]]
         ELSE GoesOn(team, actor, c)]
  /\ UNCHANGED <<team, outside, mails, overwritten>>

SameBoard(b1, b2) == [b1 EXCEPT !.panes = 0] = [b2 EXCEPT !.panes = 0]

\* updateTeamState(name, () => team): the copy replaces what is there.
Save(actor) ==
  /\ call[actor].pc = "save"
  /\ LET copy == call[actor].copy IN
     /\ team' = copy
     /\ overwritten' = (overwritten \/ ~SameBoard(team, copy))
     /\ call' = [call EXCEPT ![actor] = GoesOn(copy, actor, call[actor].command)]
  /\ UNCHANGED <<outside, mails>>

\* The locked update of the command; a worker's report has its mail to send.
Commit(actor) ==
  /\ call[actor].pc = "commit"
  /\ LET c == call[actor].command IN
     IF Accepted(team, c)
       THEN /\ team' = Committed(team, actor, c)
            /\ call' = [call EXCEPT ![actor] =
                 IF c.action = "report" /\ actor # Leader
                   THEN [pc |-> "mail",
                         mail |-> [report |-> Len(team'.reports), task |-> c.task, author |-> actor]]
                   ELSE IdleCall]
       ELSE call' = [call EXCEPT ![actor] = IdleCall] /\ UNCHANGED team
  /\ UNCHANGED <<outside, mails, overwritten>>

\* The mail is enqueued; only if the call's own run of the outbox appends it,
\* the call goes on to note it in the report.
MailReport(actor) ==
  /\ call[actor].pc = "mail"
  /\ mails' = mails \cup {call[actor].mail}
  /\ \/ call' = [call EXCEPT ![actor].pc = "link"]
     \/ call' = [call EXCEPT ![actor] = IdleCall]
  /\ UNCHANGED <<team, outside, overwritten>>

LinkedMutantLatest(b, mail) ==
  IF b.reports = <<>> THEN b ELSE [b EXCEPT !.reports[Len(b.reports)].mail = mail]

\* updateTaskReport, which skips a report that is not there.
Linked(b, mail) ==
  IF mail.report \in DOMAIN b.reports
    THEN [b EXCEPT !.reports[mail.report].mail = mail] ELSE b

LinkReport(actor) ==
  /\ call[actor].pc = "link"
  /\ team' = Linked(team, call[actor].mail)
  /\ call' = [call EXCEPT ![actor] = IdleCall]
  /\ UNCHANGED <<outside, mails, overwritten>>

\* removeSelectedMember, from the panel of any process: its locked update ...
RemoveMember(m) ==
  /\ m \in team.members
  /\ team' = Removed(team, m)
  /\ leaving' = leaving \cup {m}
  /\ UNCHANGED <<tmux, sessions, call, mails, overwritten>>

\* ... and then the member's session is unbound and its pane killed.
EndMember(m) ==
  /\ m \in leaving
  /\ leaving' = leaving \ {m}
  /\ sessions' = sessions \ {m}
  /\ call' = [call EXCEPT ![m] = IdleCall]
  /\ UNCHANGED <<team, tmux, mails, overwritten>>

\* A pane moves to another window, or disappears.
PaneChanges ==
  /\ tmux < MaxPaneChanges
  /\ tmux' = tmux + 1
  /\ UNCHANGED <<team, sessions, leaving, call, mails, overwritten>>

Next ==
  \/ \E actor \in Actors :
       \/ \E c \in Commands : Begin(actor, c)
       \/ Save(actor) \/ Commit(actor) \/ MailReport(actor) \/ LinkReport(actor)
  \/ \E m \in Workers : RemoveMember(m) \/ EndMember(m)
  \/ PaneChanges

Spec == Init /\ [][Next]_vars

-----------------------------------------------------------------------------
\* What the history tells: the last of its first n events on the task that
\* are of these types.
LastEvent(log, n, t, types) ==
  LET S == {i \in 1 .. n : log[i].task = t /\ log[i].type \in types}
  IN log[CHOOSE i \in S : \A j \in S : j <= i]

StatusTold(log, n, t) ==
  LET type == LastEvent(log, n, t, {"created", "blocked", "unblocked", "closed", "owner_removed"}).type
  IN CASE type = "blocked" -> "blocked" [] type = "closed" -> "done" [] OTHER -> "open"
OwnerTold(log, n, t) == LastEvent(log, n, t, {"created", "assigned", "owner_removed"}).owner
GateTold(log, n, t)  == LastEvent(log, n, t, {"created", "blocked", "unblocked", "closed"}).gated

-----------------------------------------------------------------------------
\* What the variables hold.
CallState ==
  {IdleCall} \cup [pc: {"commit"}, command: Commands]
    \cup [pc: {"save"}, command: Commands, copy: Team]
    \cup [pc: {"mail", "link"}, mail: [report: TaskIds, task: TaskIds, author: Workers]]

TypeOK ==
  /\ team \in Team
  /\ tmux \in Nat
  /\ sessions \subseteq Actors /\ leaving \subseteq Workers
  /\ call \in [Actors -> CallState]
  /\ mails \subseteq [report: TaskIds, task: TaskIds, author: Workers]
  /\ overwritten \in BOOLEAN

\* The history of a task tells its status, its owner and whether something
\* blocks it, whatever calls, removals and saves of old copies came between:
\* every change and its event are one locked update, and a copy is one of all.
BoardMatchesHistory ==
  \A t \in DOMAIN team.tasks :
    /\ team.tasks[t].status = StatusTold(team.log, Len(team.log), t)
    /\ team.tasks[t].owner = OwnerTold(team.log, Len(team.log), t)
    /\ team.tasks[t].gated = GateTold(team.log, Len(team.log), t)

\* A report is submitted once, and the owner and status it records are those
\* of the moment of its submission, not those its call had read before.
ReportTellsTheMoment ==
  \A r \in DOMAIN team.reports :
    LET submitted == {i \in DOMAIN team.log :
                        team.log[i].type = "report_submitted" /\ team.log[i].report = r}
    IN \E i \in submitted :
         /\ submitted = {i}
         /\ team.log[i].task = team.reports[r].task
         /\ team.reports[r].owner = OwnerTold(team.log, i, team.reports[r].task)
         /\ team.reports[r].status = StatusTold(team.log, i, team.reports[r].task)

\* A worker that reports on a task owned it at some time before: the check of
\* the owner is made late or early, but it is made.
ReporterOnceOwned ==
  ~overwritten =>
    \A i \in DOMAIN team.log :
      team.log[i].type = "report_submitted" =>
        LET r == team.reports[team.log[i].report] IN
        r.author = Leader \/ \E j \in 1 .. i : /\ team.log[j].task = r.task
                                               /\ team.log[j].type = "assigned"
                                               /\ team.log[j].owner = r.author

\* Mail about a report is about that report, and what a report names as its
\* mail is its own.  (After a save of an old copy a report may be gone, and
\* its id given to another.)
MailNamesItsReport ==
  ~overwritten =>
    /\ \A m \in mails : /\ m.report \in DOMAIN team.reports
                        /\ team.reports[m.report].task = m.task
                        /\ team.reports[m.report].author = m.author
    /\ \A r \in DOMAIN team.reports :
         team.reports[r].mail # NoMail =>
           team.reports[r].mail \in mails /\ team.reports[r].mail.report = r

\* A closed task stays closed, with the owner it had, even if that member is
\* removed; only the save of an old copy can open it again.
ClosedStaysClosed ==
  [][\A t \in DOMAIN team.tasks :
       team.tasks[t].status = "done" /\ ~overwritten' => team'.tasks[t] = team.tasks[t]]_vars

\* A task to be done that is with a worker who is not a member any more.
Stranded(b, t) == b.tasks[t].status # "done" /\ b.tasks[t].owner \in Workers \ b.members

\* A task is stranded with somebody who left in two ways only: the save of an old
\* copy, and an assignment by the leader, whose new owner was a member in what
\* the call had read, and left before its locked update.  A removal gives back
\* every task to be done, and a creation checks the owner inside the update.
StrandedOnlyByLateAssignment ==
  [][\A t \in DOMAIN team'.tasks :
       Stranded(team', t) /\ (t \in DOMAIN team.tasks => ~Stranded(team, t)) =>
         \/ \E a \in Actors : call[a].pc = "save" /\ team' = call[a].copy
         \/ /\ call[Leader].pc = "commit" /\ call'[Leader].pc = "idle"
            /\ call[Leader].command.action = "assign" /\ call[Leader].command.task = t]_vars

-----------------------------------------------------------------------------
\* What the documentation says of the program, and the program does not keep.

\* "only team-lead factually changes task.status, task.owner, task.blockedBy":
\* a step that changes the board is one of the leader's call or a removal.
FactsChangedByLeader ==
  [][team'.tasks # team.tasks => call'[Leader] # call[Leader] \/ leaving' # leaving]_vars
=============================================================================
