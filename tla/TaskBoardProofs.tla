--------------------------- MODULE TaskBoardProofs ---------------------------
(***************************************************************************)
(* Proofs about TaskBoard for any workers, tasks, events and pane changes. *)
(*                                                                         *)
(* A call may save a copy of the team over what others wrote.  So what is  *)
(* said of the team is said of every copy a call holds (Sound), and kept   *)
(* by what a locked update makes of a team.  What no copy can promise, that*)
(* nothing was lost, is said as long as no copy overwrote anything.        *)
(***************************************************************************)
EXTENDS TaskBoard, FiniteSetTheorems, SequenceTheorems, FunctionTheorems,
        WellFoundedInduction, TLAPS

CreatedBy(log, n, t) == \E i \in 1 .. n : log[i].task = t /\ log[i].type = "created"

\* The history of a task begins with its creation and tells what it is like.
Told(task, log, t) ==
  /\ CreatedBy(log, Len(log), t)
  /\ task.status = StatusTold(log, Len(log), t)
  /\ task.owner = OwnerTold(log, Len(log), t)
  /\ task.gated = GateTold(log, Len(log), t)

TasksTold(b) == \A t \in DOMAIN b.tasks : Told(b.tasks[t], b.log, t)

\* Only an assignment names an owner.
OwnersAreAssigned(b) ==
  \A i \in DOMAIN b.log : b.log[i].type \in {"created", "owner_removed"} => b.log[i].owner = Nobody

\* The event of every report's submission, and what it then had to record.
SubmittedIn(b, r) ==
  {i \in DOMAIN b.log : b.log[i].type = "report_submitted" /\ b.log[i].report = r}

SubmittedAt(report, log, i) ==
  /\ log[i].task = report.task
  /\ CreatedBy(log, i, report.task)
  /\ report.owner = OwnerTold(log, i, report.task)
  /\ report.status = StatusTold(log, i, report.task)

ReportsTold(b) ==
  /\ \A i \in DOMAIN b.log :
       b.log[i].type = "report_submitted" => b.log[i].report \in DOMAIN b.reports
  /\ \A r \in DOMAIN b.reports :
       \E i \in SubmittedIn(b, r) :
         SubmittedIn(b, r) = {i} /\ SubmittedAt(b.reports[r], b.log, i)

Sound(b) == b \in Team /\ TasksTold(b) /\ OwnersAreAssigned(b) /\ ReportsTold(b)

CopiesAreSound == \A a \in Actors : call[a].pc = "save" => Sound(call[a].copy)

\* A call that only looks has nothing to commit.
CommitsChange == \A a \in Actors : call[a].pc = "commit" => call[a].command.action # "look"

\* Some event assigned task t to a.
OnceOwned(log, n, a, t) ==
  \E j \in 1 .. n : log[j].task = t /\ log[j].type = "assigned" /\ log[j].owner = a

\* What a worker's call checked before it reports holds of the history by now.
ReportersOwned ==
  ~overwritten =>
    \A a \in Workers :
      call[a].pc = "commit" /\ call[a].command.action = "report" =>
        OnceOwned(team.log, Len(team.log), a, call[a].command.task)

\* Mail is about its report before it is sent, and before it is noted.
MailsOnTheWay ==
  ~overwritten =>
    \A a \in Actors :
      call[a].pc \in {"mail", "link"} =>
        /\ call[a].mail.report \in DOMAIN team.reports
        /\ team.reports[call[a].mail.report].task = call[a].mail.task
        /\ team.reports[call[a].mail.report].author = call[a].mail.author
        /\ call[a].pc = "link" => call[a].mail \in mails

IInv ==
  /\ TypeOK
  /\ Sound(team) /\ CopiesAreSound /\ CommitsChange
  /\ ReportersOwned /\ ReporterOnceOwned
  /\ MailsOnTheWay /\ MailNamesItsReport

-----------------------------------------------------------------------------
(***************************************************************************)
(* What a history tells, and what events added to it tell.                 *)
(***************************************************************************)

About(log, n, t, types) == {i \in 1 .. n : log[i].task = t /\ log[i].type \in types}

\* Two histories begin with the same n events; from there on one is silent
\* about something of task t.
Agree(l1, l2, n) == \A i \in 1 .. n : l2[i] = l1[i]
Silent(log, n1, n2, t, types) ==
  \A i \in n1 + 1 .. n2 : ~ (log[i].task = t /\ log[i].type \in types)

\* ... or has something to say, and all it says is e.
Says(log, n1, n2, t, types, e) ==
  /\ \E i \in n1 + 1 .. n2 : log[i].task = t /\ log[i].type \in types
  /\ \A i \in n1 + 1 .. n2 : log[i].task = t /\ log[i].type \in types => log[i] = e

LEMMA GreatestOfSet ==
  ASSUME NEW n \in Nat, NEW S \in SUBSET (1 .. n), S # {}
  PROVE  \E i \in S : \A j \in S : j <= i
<1> DEFINE D == {k \in Nat : n - k \in S}
<1>1. D \in SUBSET Nat /\ D # {}
  <2>1. PICK i \in S : TRUE
    OBVIOUS
  <2>2. i \in Int /\ n - i \in Nat /\ n - (n - i) = i
    BY <2>1
  <2> QED BY <2>1, <2>2
<1>2. PICK m \in D : \A k \in D : ~ (<<k, m>> \in OpToRel(<, Nat))
  BY <1>1, NatLessThanWellFounded, WFMin
<1>3. ASSUME NEW j \in S PROVE j <= n - m
  <2>1. j \in Int /\ n - j \in Nat /\ n - (n - j) = j
    OBVIOUS
  <2>2. n - j \in D
    BY <2>1
  <2>3. <<n - j, m>> \in Nat \X Nat /\ <<n - j, m>>[1] = n - j /\ <<n - j, m>>[2] = m
    BY <2>1
  <2>4. ~ (n - j < m)
    BY <1>2, <2>2, <2>3 DEF OpToRel
  <2> QED BY <2>1, <2>4
<1>4. n - m \in S
  OBVIOUS
<1> QED BY <1>3, <1>4

\* The last event is one of them.
LEMMA LastIs ==
  ASSUME NEW log, NEW n \in Nat, NEW t, NEW types, About(log, n, t, types) # {}
  PROVE  \E i \in About(log, n, t, types) : LastEvent(log, n, t, types) = log[i]
<1> DEFINE S == About(log, n, t, types)
<1>1. \E i \in S : \A j \in S : j <= i
  BY GreatestOfSet DEF About
<1>2. LastEvent(log, n, t, types) = log[CHOOSE i \in S : \A j \in S : j <= i]
  BY DEF LastEvent, About
<1> HIDE DEF S
<1>3. (CHOOSE i \in S : \A j \in S : j <= i) \in S
  BY <1>1
<1> QED BY <1>2, <1>3 DEF S

\* Which one it is, is a matter of where the events are.
LEMMA LastSame ==
  ASSUME NEW l1, NEW l2, NEW n1 \in Nat, NEW n2 \in Nat, n1 <= n2, NEW t, NEW types,
         Agree(l1, l2, n1),
         Silent(l2, n1, n2, t, types),
         About(l1, n1, t, types) # {}
  PROVE  LastEvent(l2, n2, t, types) = LastEvent(l1, n1, t, types)
<1> DEFINE S == About(l1, n1, t, types)
<1>1. About(l2, n2, t, types) = S
  BY DEF About, Agree, Silent
<1>2. S \subseteq 1 .. n1
  BY DEF About
<1>3. \E i \in S : \A j \in S : j <= i
  BY GreatestOfSet, <1>2
<1>4. LastEvent(l1, n1, t, types) = l1[CHOOSE i \in S : \A j \in S : j <= i]
  BY DEF LastEvent, About
<1>5. LastEvent(l2, n2, t, types) = l2[CHOOSE i \in S : \A j \in S : j <= i]
  BY <1>1 DEF LastEvent, About
<1> HIDE DEF S
<1>6. (CHOOSE i \in S : \A j \in S : j <= i) \in S
  BY <1>3
<1> QED BY <1>2, <1>4, <1>5, <1>6 DEF Agree

\* New events on the task that all say the same.
LEMMA LastNew ==
  ASSUME NEW log, NEW n1 \in Nat, NEW n2 \in Nat, NEW t, NEW types, NEW e,
         Says(log, n1, n2, t, types, e)
  PROVE  LastEvent(log, n2, t, types) = e
<1> DEFINE S == About(log, n2, t, types)
           last == CHOOSE i \in S : \A j \in S : j <= i
<1> PICK k \in n1 + 1 .. n2 : log[k].task = t /\ log[k].type \in types
  BY DEF Says
<1>1. S \subseteq 1 .. n2 /\ k \in S
  BY DEF About
<1>2. \E i \in S : \A j \in S : j <= i
  BY GreatestOfSet, <1>1
<1>3. LastEvent(log, n2, t, types) = log[last]
  BY DEF LastEvent, About
<1>4. last \in S /\ \A j \in S : j <= last
  <2> HIDE DEF S
  <2> QED BY <1>2
<1>5. last \in n1 + 1 .. n2 /\ log[last].task = t /\ log[last].type \in types
  <2>1. last \in 1 .. n2 /\ k <= last /\ log[last].task = t /\ log[last].type \in types
    <3> HIDE DEF last
    <3> QED BY <1>1, <1>4 DEF About
  <2> HIDE DEF last
  <2> QED BY <2>1
<1> QED BY <1>3, <1>5 DEF Says

StatusTypes == {"created", "blocked", "unblocked", "closed", "owner_removed"}
OwnerTypes == {"created", "assigned", "owner_removed"}
GateTypes == {"created", "blocked", "unblocked", "closed"}

\* Events that say nothing of a task's owner leave what is told of it.
LEMMA OwnerSame ==
  ASSUME NEW l1, NEW l2, NEW n1 \in Nat, NEW n2 \in Nat, n1 <= n2, NEW t,
         Agree(l1, l2, n1),
         Silent(l2, n1, n2, t, OwnerTypes),
         CreatedBy(l1, n1, t)
  PROVE  OwnerTold(l2, n2, t) = OwnerTold(l1, n1, t)
<1>1. About(l1, n1, t, OwnerTypes) # {}
  BY DEF About, CreatedBy, OwnerTypes
<1> QED BY <1>1, LastSame DEF OwnerTold, OwnerTypes

LEMMA StatusSame ==
  ASSUME NEW l1, NEW l2, NEW n1 \in Nat, NEW n2 \in Nat, n1 <= n2, NEW t,
         Agree(l1, l2, n1),
         Silent(l2, n1, n2, t, StatusTypes),
         CreatedBy(l1, n1, t)
  PROVE  StatusTold(l2, n2, t) = StatusTold(l1, n1, t)
<1>1. About(l1, n1, t, StatusTypes) # {}
  BY DEF About, CreatedBy, StatusTypes
<1>2. LastEvent(l2, n2, t, StatusTypes) = LastEvent(l1, n1, t, StatusTypes)
  BY <1>1, LastSame
<1> QED BY <1>2 DEF StatusTold, StatusTypes

LEMMA GateSame ==
  ASSUME NEW l1, NEW l2, NEW n1 \in Nat, NEW n2 \in Nat, n1 <= n2, NEW t,
         Agree(l1, l2, n1),
         Silent(l2, n1, n2, t, GateTypes),
         CreatedBy(l1, n1, t)
  PROVE  GateTold(l2, n2, t) = GateTold(l1, n1, t)
<1>1. About(l1, n1, t, GateTypes) # {}
  BY DEF About, CreatedBy, GateTypes
<1> QED BY <1>1, LastSame DEF GateTold, GateTypes

LEMMA CreatedBefore ==
  ASSUME NEW l1, NEW l2, NEW n1 \in Nat, NEW n2 \in Nat, n1 <= n2, NEW t,
         Agree(l1, l2, n1), CreatedBy(l1, n1, t)
  PROVE  CreatedBy(l2, n2, t)
<1>1. PICK i \in 1 .. n1 : l1[i].task = t /\ l1[i].type = "created"
  BY DEF CreatedBy
<1>2. i \in 1 .. n2 /\ l2[i] = l1[i]
  BY <1>1 DEF Agree
<1> QED BY <1>1, <1>2 DEF CreatedBy

ChangeTypes == StatusTypes \cup OwnerTypes \cup GateTypes

\* A task nothing is said about stays as it is told.
LEMMA ToldKept ==
  ASSUME NEW l1 \in Seq(Event), NEW l2 \in Seq(Event), NEW t, NEW task, Told(task, l1, t),
         Len(l1) <= Len(l2), Agree(l1, l2, Len(l1)),
         Silent(l2, Len(l1), Len(l2), t, ChangeTypes)
  PROVE  Told(task, l2, t)
<1> DEFINE n1 == Len(l1)
           n2 == Len(l2)
<1>1. n1 \in Nat /\ n2 \in Nat /\ n1 <= n2
  OBVIOUS
<1>2. /\ Silent(l2, n1, n2, t, StatusTypes)
      /\ Silent(l2, n1, n2, t, OwnerTypes)
      /\ Silent(l2, n1, n2, t, GateTypes)
  BY DEF Silent, ChangeTypes
<1>3. CreatedBy(l1, n1, t) /\ Agree(l1, l2, n1)
  BY DEF Told
<1>4. Told(task, l1, t)
  OBVIOUS
<1> HIDE DEF n1, n2
<1>5. /\ CreatedBy(l2, n2, t)
      /\ StatusTold(l2, n2, t) = StatusTold(l1, n1, t)
      /\ OwnerTold(l2, n2, t) = OwnerTold(l1, n1, t)
      /\ GateTold(l2, n2, t) = GateTold(l1, n1, t)
  BY <1>1, <1>2, <1>3, CreatedBefore, StatusSame, OwnerSame, GateSame
<1> QED BY <1>4, <1>5 DEF Told, n1, n2

LEMMA OneEvent ==
  ASSUME NEW log \in Seq(Event), NEW e \in Event
  PROVE  /\ Append(log, e) \in Seq(Event)
         /\ Len(Append(log, e)) = Len(log) + 1
         /\ Append(log, e)[Len(log) + 1] = e
         /\ Agree(log, Append(log, e), Len(log))
         /\ \A t, types : ~ (e.task = t /\ e.type \in types) =>
              Silent(Append(log, e), Len(log), Len(log) + 1, t, types)
         /\ \A t, types : e.task = t /\ e.type \in types =>
              LastEvent(Append(log, e), Len(log) + 1, t, types) = e
<1> DEFINE l2 == Append(log, e)
           n == Len(log)
<1>1. /\ l2 \in Seq(Event) /\ Len(l2) = n + 1 /\ n \in Nat /\ l2[n + 1] = e
      /\ \A i \in 1 .. n : l2[i] = log[i]
  BY AppendProperties, LenProperties
<1>2. Agree(log, l2, n)
  BY <1>1 DEF Agree
<1> HIDE DEF l2, n
<1>3. n + 1 .. n + 1 = {n + 1}
  BY <1>1
<1>4. ASSUME NEW t, NEW types, ~ (e.task = t /\ e.type \in types)
      PROVE  Silent(l2, n, n + 1, t, types)
  BY <1>1, <1>3, <1>4 DEF Silent
<1>5. ASSUME NEW t, NEW types, e.task = t, e.type \in types
      PROVE  LastEvent(l2, n + 1, t, types) = e
  <2>1. n + 1 \in n + 1 .. n + 1 /\ n + 1 \in Nat /\ n \in Nat
    BY <1>1
  <2>2. Says(l2, n, n + 1, t, types, e)
    BY <1>1, <1>3, <1>5, <2>1 DEF Says
  <2> QED BY <2>1, <2>2, LastNew
<1> QED BY <1>1, <1>2, <1>4, <1>5 DEF l2, n

\* What an event on a task makes of it.
StatusBy(e) == CASE e.type = "blocked" -> "blocked" [] e.type = "closed" -> "done" [] OTHER -> "open"

After(task, e) ==
  [status |-> IF e.type \in StatusTypes THEN StatusBy(e) ELSE task.status,
   owner  |-> IF e.type \in OwnerTypes THEN e.owner ELSE task.owner,
   gated  |-> IF e.type \in GateTypes THEN e.gated ELSE task.gated]

LEMMA ToldAfter ==
  ASSUME NEW log \in Seq(Event), NEW e \in Event, NEW task, Told(task, log, e.task)
  PROVE  Told(After(task, e), Append(log, e), e.task)
<1> DEFINE l2 == Append(log, e)
           n == Len(log)
           t == e.task
<1>1. n \in Nat /\ n + 1 \in Nat /\ n <= n + 1 /\ Len(l2) = n + 1 /\ Agree(log, l2, n)
  BY OneEvent
<1>2. CreatedBy(log, n, t) /\ CreatedBy(l2, n + 1, t)
  <2>1. CreatedBy(log, n, t)
    BY DEF Told
  <2> HIDE DEF n, l2, t
  <2> QED BY <1>1, <2>1, CreatedBefore
<1>3. StatusTold(l2, n + 1, t) = After(task, e).status
  <2>1. CASE e.type \in StatusTypes
    <3>1. LastEvent(l2, n + 1, t, StatusTypes) = e
      BY <2>1, OneEvent
    <3> QED BY <2>1, <3>1 DEF StatusTold, StatusTypes, After, StatusBy
  <2>2. CASE e.type \notin StatusTypes
    <3>1. Silent(l2, n, n + 1, t, StatusTypes)
      BY <2>2, OneEvent
    <3>2. StatusTold(log, n, t) = task.status
      BY DEF Told
    <3> HIDE DEF l2, n, t
    <3>3. StatusTold(l2, n + 1, t) = StatusTold(log, n, t)
      BY <1>1, <1>2, <3>1, StatusSame
    <3> QED BY <2>2, <3>2, <3>3 DEF After
  <2> QED BY <2>1, <2>2
<1>4. OwnerTold(l2, n + 1, t) = After(task, e).owner
  <2>1. CASE e.type \in OwnerTypes
    <3>1. LastEvent(l2, n + 1, t, OwnerTypes) = e
      BY <2>1, OneEvent
    <3> QED BY <2>1, <3>1 DEF OwnerTold, OwnerTypes, After
  <2>2. CASE e.type \notin OwnerTypes
    <3>1. Silent(l2, n, n + 1, t, OwnerTypes)
      BY <2>2, OneEvent
    <3>2. OwnerTold(log, n, t) = task.owner
      BY DEF Told
    <3> HIDE DEF l2, n, t
    <3>3. OwnerTold(l2, n + 1, t) = OwnerTold(log, n, t)
      BY <1>1, <1>2, <3>1, OwnerSame
    <3> QED BY <2>2, <3>2, <3>3 DEF After
  <2> QED BY <2>1, <2>2
<1>5. GateTold(l2, n + 1, t) = After(task, e).gated
  <2>1. CASE e.type \in GateTypes
    <3>1. LastEvent(l2, n + 1, t, GateTypes) = e
      BY <2>1, OneEvent
    <3> QED BY <2>1, <3>1 DEF GateTold, GateTypes, After
  <2>2. CASE e.type \notin GateTypes
    <3>1. Silent(l2, n, n + 1, t, GateTypes)
      BY <2>2, OneEvent
    <3>2. GateTold(log, n, t) = task.gated
      BY DEF Told
    <3> HIDE DEF l2, n, t
    <3>3. GateTold(l2, n + 1, t) = GateTold(log, n, t)
      BY <1>1, <1>2, <3>1, GateSame
    <3> QED BY <2>2, <3>2, <3>3 DEF After
  <2> QED BY <2>1, <2>2
<1> QED BY <1>1, <1>2, <1>3, <1>4, <1>5 DEF Told

\* A task begins open, with no owner and nothing that blocks it.
LEMMA ToldCreated ==
  ASSUME NEW log \in Seq(Event), NEW t \in TaskIds
  PROVE  Told([status |-> "open", owner |-> Nobody, gated |-> FALSE],
              Append(log, PlainEvent("created", t)), t)
<1> DEFINE e == PlainEvent("created", t)
           n == Len(log)
<1>1. e \in Event /\ e.task = t /\ e.type = "created" /\ e.owner = Nobody /\ e.gated = FALSE
  BY DEF PlainEvent, Event
<1> HIDE DEF e
<1>2. /\ Len(Append(log, e)) = n + 1 /\ n \in Nat /\ Append(log, e)[n + 1] = e
      /\ \A types : e.type \in types => LastEvent(Append(log, e), n + 1, t, types) = e
  BY <1>1, OneEvent
<1>3. CreatedBy(Append(log, e), n + 1, t)
  BY <1>1, <1>2 DEF CreatedBy
<1>4. /\ LastEvent(Append(log, e), n + 1, t, StatusTypes) = e
      /\ LastEvent(Append(log, e), n + 1, t, OwnerTypes) = e
      /\ LastEvent(Append(log, e), n + 1, t, GateTypes) = e
  BY <1>1, <1>2 DEF StatusTypes, OwnerTypes, GateTypes
<1>5. StatusTold(Append(log, e), n + 1, t) = "open"
  BY <1>1, <1>4 DEF StatusTold, StatusTypes
<1>6. OwnerTold(Append(log, e), n + 1, t) = Nobody /\ GateTold(Append(log, e), n + 1, t) = FALSE
  BY <1>1, <1>4 DEF OwnerTold, GateTold, OwnerTypes, GateTypes
<1> QED BY <1>2, <1>3, <1>5, <1>6 DEF Told, e

-----------------------------------------------------------------------------
(***************************************************************************)
(* Every locked update of a sound team makes a sound team.                 *)
(***************************************************************************)

Grows(b, b2) == Len(b.log) <= Len(b2.log) /\ Agree(b.log, b2.log, Len(b.log))

\* What the reports record, the mail aside.
SameReports(b, b2) ==
  /\ DOMAIN b2.reports = DOMAIN b.reports
  /\ \A r \in DOMAIN b.reports :
       /\ b2.reports[r].task = b.reports[r].task
       /\ b2.reports[r].author = b.reports[r].author
       /\ b2.reports[r].owner = b.reports[r].owner
       /\ b2.reports[r].status = b.reports[r].status

\* An update that submits no report.
Quiet(b, b2) ==
  /\ Grows(b, b2) /\ SameReports(b, b2)
  /\ \A i \in Len(b.log) + 1 .. Len(b2.log) : b2.log[i].type # "report_submitted"

\* What was told when a report was submitted is told of that moment later.
LEMMA SubmittedKept ==
  ASSUME NEW l1, NEW l2, NEW n \in Nat, NEW i \in 1 .. n, Agree(l1, l2, n),
         NEW r1, NEW r2, SubmittedAt(r1, l1, i),
         r2.task = r1.task, r2.owner = r1.owner, r2.status = r1.status
  PROVE  SubmittedAt(r2, l2, i)
<1> DEFINE t == r1.task
<1>1. i \in Nat /\ i <= i /\ Agree(l1, l2, i) /\ l2[i] = l1[i]
  BY DEF Agree
<1>2. \A types : Silent(l2, i, i, t, types)
  BY <1>1 DEF Silent
<1>3. /\ l1[i].task = t /\ CreatedBy(l1, i, t)
      /\ r1.owner = OwnerTold(l1, i, t) /\ r1.status = StatusTold(l1, i, t)
  BY DEF SubmittedAt
<1> HIDE DEF t
<1>4. /\ CreatedBy(l2, i, t)
      /\ OwnerTold(l2, i, t) = OwnerTold(l1, i, t)
      /\ StatusTold(l2, i, t) = StatusTold(l1, i, t)
  BY <1>1, <1>2, <1>3, CreatedBefore, OwnerSame, StatusSame
<1> QED BY <1>1, <1>3, <1>4 DEF SubmittedAt, t

LEMMA ReportsKept ==
  ASSUME NEW b \in Team, NEW b2 \in Team, ReportsTold(b), Quiet(b, b2)
  PROVE  ReportsTold(b2)
<1> DEFINE n == Len(b.log)
<1> USE DEF Quiet
<1>1. /\ n \in Nat /\ Len(b2.log) \in Nat /\ n <= Len(b2.log)
      /\ DOMAIN b.log = 1 .. n /\ DOMAIN b2.log = 1 .. Len(b2.log)
  BY LenProperties DEF Team, Grows
<1>2. \A i \in 1 .. n : b2.log[i] = b.log[i]
  BY DEF Grows, Agree
<1>3. ASSUME NEW i \in DOMAIN b2.log, b2.log[i].type = "report_submitted"
      PROVE  i \in DOMAIN b.log /\ b2.log[i] = b.log[i]
  BY <1>1, <1>2, <1>3
<1>4. ASSUME NEW i \in DOMAIN b.log PROVE i \in DOMAIN b2.log /\ b2.log[i] = b.log[i]
  BY <1>1, <1>2
<1>5. ASSUME NEW i \in DOMAIN b2.log, b2.log[i].type = "report_submitted"
      PROVE  b2.log[i].report \in DOMAIN b2.reports
  BY <1>3, <1>5 DEF ReportsTold, SameReports
<1>6. \A r : SubmittedIn(b2, r) = SubmittedIn(b, r)
  BY <1>3, <1>4 DEF SubmittedIn
<1>7. ASSUME NEW r \in DOMAIN b2.reports
      PROVE  \E i \in SubmittedIn(b2, r) :
               SubmittedIn(b2, r) = {i} /\ SubmittedAt(b2.reports[r], b2.log, i)
  <2>1. r \in DOMAIN b.reports
    BY DEF SameReports
  <2>2. PICK i \in SubmittedIn(b, r) :
          SubmittedIn(b, r) = {i} /\ SubmittedAt(b.reports[r], b.log, i)
    BY <2>1 DEF ReportsTold
  <2>3. i \in 1 .. n
    BY <1>1, <2>2 DEF SubmittedIn
  <2>4. SubmittedAt(b2.reports[r], b2.log, i)
    <3>1. Agree(b.log, b2.log, n)
      BY DEF Grows
    <3>2. /\ b2.reports[r].task = b.reports[r].task
          /\ b2.reports[r].owner = b.reports[r].owner
          /\ b2.reports[r].status = b.reports[r].status
      BY <2>1 DEF SameReports
    <3> HIDE DEF n
    <3> QED BY <1>1, <2>2, <2>3, <3>1, <3>2, SubmittedKept
  <2> QED BY <1>6, <2>2, <2>4
<1> QED BY <1>5, <1>7 DEF ReportsTold

LEMMA OwnersKept ==
  ASSUME NEW b \in Team, NEW b2 \in Team, OwnersAreAssigned(b), Grows(b, b2),
         \A i \in Len(b.log) + 1 .. Len(b2.log) :
           b2.log[i].type \in {"created", "owner_removed"} => b2.log[i].owner = Nobody
  PROVE  OwnersAreAssigned(b2)
<1>1. /\ Len(b.log) \in Nat /\ Len(b2.log) \in Nat /\ Len(b.log) <= Len(b2.log)
      /\ DOMAIN b.log = 1 .. Len(b.log) /\ DOMAIN b2.log = 1 .. Len(b2.log)
  BY LenProperties DEF Team, Grows
<1>2. \A i \in 1 .. Len(b.log) : b2.log[i] = b.log[i]
  BY DEF Grows, Agree
<1> QED BY <1>1, <1>2 DEF OwnersAreAssigned

-----------------------------------------------------------------------------
\* The parts of a team, and of a team with one more event.
LEMMA TeamParts ==
  ASSUME NEW b \in Team
  PROVE  /\ b.members \in SUBSET Actors /\ b.panes \in Nat
         /\ b.tasks \in Seq(Task) /\ Len(b.tasks) \in Nat /\ DOMAIN b.tasks = 1 .. Len(b.tasks)
         /\ b.reports \in Seq(Report) /\ Len(b.reports) \in Nat
         /\ DOMAIN b.reports = 1 .. Len(b.reports)
         /\ b.log \in Seq(Event) /\ Len(b.log) \in Nat /\ DOMAIN b.log = 1 .. Len(b.log)
         /\ \A t \in DOMAIN b.tasks : b.tasks[t] \in Task
         /\ \A r \in DOMAIN b.reports : b.reports[r] \in Report
<1>1. /\ b.members \in SUBSET Actors /\ b.panes \in Nat
      /\ b.tasks \in Seq(Task) /\ b.reports \in Seq(Report) /\ b.log \in Seq(Event)
  BY DEF Team
<1> QED BY <1>1, LenProperties, ElementOfSeq

LEMMA LoggedParts ==
  ASSUME NEW b \in Team, NEW e \in Event
  PROVE  /\ Logged(b, e) \in Team
         /\ Logged(b, e).log = Append(b.log, e)
         /\ Logged(b, e).tasks = b.tasks
         /\ Logged(b, e).reports = b.reports
         /\ Logged(b, e).members = b.members
         /\ Logged(b, e).panes = b.panes
<1>1. Append(b.log, e) \in Seq(Event)
  BY TeamParts, AppendProperties
<1> DEFINE log == Append(b.log, e)
<1> HIDE DEF log
<1>2. [b EXCEPT !.log = log] \in Team
  BY <1>1 DEF Team, log
<1>3. b = [members |-> b.members, panes |-> b.panes, tasks |-> b.tasks,
           reports |-> b.reports, log |-> b.log]
  BY DEF Team
<1>4. Logged(b, e) = [b EXCEPT !.log = log]
  BY DEF Logged, log
<1>5. /\ [b EXCEPT !.log = log].log = log
      /\ [b EXCEPT !.log = log].tasks = b.tasks
      /\ [b EXCEPT !.log = log].reports = b.reports
      /\ [b EXCEPT !.log = log].members = b.members
      /\ [b EXCEPT !.log = log].panes = b.panes
  BY <1>3
<1> QED BY <1>2, <1>4, <1>5 DEF log

LEMMA ChangedParts ==
  ASSUME NEW b \in Team, NEW t \in DOMAIN b.tasks, NEW task \in Task
  PROVE  /\ Changed(b, t, task) \in Team
         /\ DOMAIN Changed(b, t, task).tasks = DOMAIN b.tasks
         /\ Changed(b, t, task).tasks[t] = task
         /\ \A u \in DOMAIN b.tasks : u # t => Changed(b, t, task).tasks[u] = b.tasks[u]
         /\ Changed(b, t, task).log = b.log
         /\ Changed(b, t, task).reports = b.reports
         /\ Changed(b, t, task).members = b.members
         /\ Changed(b, t, task).panes = b.panes
<1> DEFINE tasks == [b.tasks EXCEPT ![t] = task]
<1>1. /\ tasks \in Seq(Task) /\ DOMAIN tasks = DOMAIN b.tasks
      /\ tasks[t] = task /\ \A u \in DOMAIN b.tasks : u # t => tasks[u] = b.tasks[u]
  BY TeamParts, ExceptSeq
<1>2. Changed(b, t, task) = [b EXCEPT !.tasks = tasks]
  BY DEF Changed
<1> HIDE DEF tasks
<1>3. b = [members |-> b.members, panes |-> b.panes, tasks |-> b.tasks,
           reports |-> b.reports, log |-> b.log]
  BY DEF Team
<1>4. [b EXCEPT !.tasks = tasks] \in Team
  BY <1>1 DEF Team
<1>5. /\ [b EXCEPT !.tasks = tasks].log = b.log
      /\ [b EXCEPT !.tasks = tasks].tasks = tasks
      /\ [b EXCEPT !.tasks = tasks].reports = b.reports
      /\ [b EXCEPT !.tasks = tasks].members = b.members
      /\ [b EXCEPT !.tasks = tasks].panes = b.panes
  BY <1>3
<1> QED BY <1>1, <1>2, <1>4, <1>5

LEMMA AnotherEvent ==
  ASSUME NEW b \in Team, NEW b2 \in Team, NEW e \in Event, b2.log = Append(b.log, e)
  PROVE  /\ Grows(b, b2)
         /\ Len(b2.log) = Len(b.log) + 1
         /\ \A i \in Len(b.log) + 1 .. Len(b2.log) : b2.log[i] = e
<1>1. /\ Len(b2.log) = Len(b.log) + 1 /\ Len(b.log) \in Nat
      /\ b2.log[Len(b.log) + 1] = e /\ Agree(b.log, b2.log, Len(b.log))
  BY TeamParts, OneEvent
<1> QED BY <1>1 DEF Grows

\* assign, block, unblock and close: the event tells what the task became.
LEMMA SoundChanged ==
  ASSUME NEW b, Sound(b), NEW t \in DOMAIN b.tasks, NEW e \in Event, e.task = t,
         e.type \in {"assigned", "blocked", "unblocked", "closed"},
         NEW task \in Task, task = After(b.tasks[t], e)
  PROVE  /\ Sound(Logged(Changed(b, t, task), e))
         /\ Quiet(b, Logged(Changed(b, t, task), e))
         /\ Logged(Changed(b, t, task), e).reports = b.reports
<1> DEFINE b1 == Changed(b, t, task)
           b2 == Logged(b1, e)
<1>0. b \in Team /\ TasksTold(b) /\ OwnersAreAssigned(b) /\ ReportsTold(b)
  BY DEF Sound
<1>1. /\ b1 \in Team /\ DOMAIN b1.tasks = DOMAIN b.tasks /\ b1.tasks[t] = task
      /\ \A u \in DOMAIN b.tasks : u # t => b1.tasks[u] = b.tasks[u]
      /\ b1.log = b.log /\ b1.reports = b.reports
  BY <1>0, ChangedParts
<1>2. /\ b2 \in Team /\ b2.log = Append(b.log, e)
      /\ b2.tasks = b1.tasks /\ b2.reports = b.reports
  <2> HIDE DEF b1
  <2> QED BY <1>1, LoggedParts
<1> HIDE DEF b1, b2
<1>3. /\ Grows(b, b2) /\ Len(b2.log) = Len(b.log) + 1
      /\ \A i \in Len(b.log) + 1 .. Len(b2.log) : b2.log[i] = e
  BY <1>0, <1>2, AnotherEvent
<1>4. Quiet(b, b2) /\ ReportsTold(b2)
  <2>1. Quiet(b, b2)
    BY <1>1, <1>2, <1>3 DEF Quiet, SameReports
  <2> QED BY <1>0, <1>2, <2>1, ReportsKept
<1>5. OwnersAreAssigned(b2)
  BY <1>0, <1>2, <1>3, OwnersKept
<1>6. ASSUME NEW u \in DOMAIN b2.tasks PROVE Told(b2.tasks[u], b2.log, u)
  <2>1. b.log \in Seq(Event) /\ b2.log \in Seq(Event)
    BY <1>0, <1>2, TeamParts
  <2>2. u \in DOMAIN b.tasks /\ Told(b.tasks[u], b.log, u)
    BY <1>0, <1>1, <1>2 DEF TasksTold
  <2>3. CASE u = t
    BY <1>1, <1>2, <2>1, <2>2, <2>3, ToldAfter
  <2>4. CASE u # t
    <3>1. Silent(b2.log, Len(b.log), Len(b2.log), u, ChangeTypes)
      BY <1>3, <2>4 DEF Silent
    <3> QED BY <1>1, <1>2, <1>3, <2>1, <2>2, <2>4, <3>1, ToldKept DEF Grows
  <2> QED BY <2>3, <2>4
<1> QED BY <1>2, <1>4, <1>5, <1>6 DEF Sound, TasksTold, b2, b1

\* progress: an event that changes no task.
LEMMA SoundProgress ==
  ASSUME NEW b, Sound(b), NEW e \in Event, e.type = "progress"
  PROVE  Sound(Logged(b, e)) /\ Quiet(b, Logged(b, e)) /\ Logged(b, e).reports = b.reports
<1> DEFINE b2 == Logged(b, e)
<1>0. b \in Team /\ TasksTold(b) /\ OwnersAreAssigned(b) /\ ReportsTold(b)
  BY DEF Sound
<1>1. b2 \in Team /\ b2.log = Append(b.log, e) /\ b2.tasks = b.tasks /\ b2.reports = b.reports
  BY <1>0, LoggedParts
<1> HIDE DEF b2
<1>2. /\ Grows(b, b2) /\ Len(b2.log) = Len(b.log) + 1
      /\ \A i \in Len(b.log) + 1 .. Len(b2.log) : b2.log[i] = e
  BY <1>0, <1>1, AnotherEvent
<1>3. Quiet(b, b2)
  BY <1>1, <1>2 DEF Quiet, SameReports
<1>4. ReportsTold(b2)
  BY <1>0, <1>1, <1>3, ReportsKept
<1>5. OwnersAreAssigned(b2)
  BY <1>0, <1>1, <1>2, OwnersKept
<1>6. ASSUME NEW u \in DOMAIN b2.tasks PROVE Told(b2.tasks[u], b2.log, u)
  <2>1. b.log \in Seq(Event) /\ b2.log \in Seq(Event)
    BY <1>0, <1>1, TeamParts
  <2>2. Told(b.tasks[u], b.log, u)
    BY <1>0, <1>1 DEF TasksTold
  <2>3. Silent(b2.log, Len(b.log), Len(b2.log), u, ChangeTypes)
    BY <1>2 DEF Silent, ChangeTypes, StatusTypes, OwnerTypes, GateTypes
  <2> QED BY <1>1, <1>2, <2>1, <2>2, <2>3, ToldKept DEF Grows
<1> QED BY <1>1, <1>3, <1>4, <1>5, <1>6 DEF Sound, TasksTold, b2

\* create, before the owner is assigned: a task of the next id.
LEMMA SoundNewTask ==
  ASSUME NEW b, Sound(b), NEW owner \in Actors \cup {Nobody}
  PROVE  LET t  == Len(b.tasks) + 1
             b2 == Logged([b EXCEPT !.tasks =
                     Append(@, [status |-> "open", owner |-> owner, gated |-> FALSE])],
                     PlainEvent("created", t))
         IN  /\ b2 \in Team /\ OwnersAreAssigned(b2) /\ ReportsTold(b2) /\ Quiet(b, b2)
             /\ b2.reports = b.reports /\ DOMAIN b2.tasks = 1 .. t
             /\ b2.tasks[t] = [status |-> "open", owner |-> owner, gated |-> FALSE]
             /\ Told([status |-> "open", owner |-> Nobody, gated |-> FALSE], b2.log, t)
             /\ \A u \in 1 .. t : u # t => Told(b2.tasks[u], b2.log, u)
<1> DEFINE t == Len(b.tasks) + 1
           task == [status |-> "open", owner |-> owner, gated |-> FALSE]
           tasks == Append(b.tasks, task)
           e == PlainEvent("created", t)
           b1 == [b EXCEPT !.tasks = tasks]
           b2 == Logged(b1, e)
<1>0. b \in Team /\ TasksTold(b) /\ OwnersAreAssigned(b) /\ ReportsTold(b)
  BY DEF Sound
<1>1. /\ Len(b.tasks) \in Nat /\ b.tasks \in Seq(Task) /\ b.log \in Seq(Event)
      /\ DOMAIN b.tasks = 1 .. Len(b.tasks)
  BY <1>0, TeamParts
<1>2. t \in TaskIds /\ task \in Task
  BY <1>1 DEF TaskIds, Task
<1>3. /\ tasks \in Seq(Task) /\ Len(tasks) = t /\ DOMAIN tasks = 1 .. t /\ tasks[t] = task
      /\ \A u \in 1 .. Len(b.tasks) : tasks[u] = b.tasks[u]
  <2> HIDE DEF task
  <2> QED BY <1>1, <1>2, AppendProperties, LenProperties
<1>4. /\ e \in Event /\ e.task = t /\ e.type = "created" /\ e.owner = Nobody
  BY <1>2 DEF PlainEvent, Event
<1> HIDE DEF task, tasks, e
<1>5. b1 \in Team /\ b1.tasks = tasks /\ b1.log = b.log /\ b1.reports = b.reports
  <2>1. b = [members |-> b.members, panes |-> b.panes, tasks |-> b.tasks,
             reports |-> b.reports, log |-> b.log]
    BY <1>0 DEF Team
  <2>2. b1.tasks = tasks /\ b1.log = b.log /\ b1.reports = b.reports
    BY <2>1
  <2> QED BY <1>0, <1>3, <2>2 DEF Team
<1> HIDE DEF b1
<1>6. b2 \in Team /\ b2.log = Append(b.log, e) /\ b2.tasks = tasks /\ b2.reports = b.reports
  BY <1>4, <1>5, LoggedParts
<1> HIDE DEF b2
<1>7. /\ Grows(b, b2) /\ Len(b2.log) = Len(b.log) + 1
      /\ \A i \in Len(b.log) + 1 .. Len(b2.log) : b2.log[i] = e
  BY <1>0, <1>4, <1>6, AnotherEvent
<1>8. Quiet(b, b2)
  BY <1>4, <1>6, <1>7 DEF Quiet, SameReports
<1>9. ReportsTold(b2)
  BY <1>0, <1>6, <1>8, ReportsKept
<1>10. OwnersAreAssigned(b2)
  BY <1>0, <1>4, <1>6, <1>7, OwnersKept
<1>11. Told([status |-> "open", owner |-> Nobody, gated |-> FALSE], b2.log, t)
  BY <1>1, <1>2, <1>6, ToldCreated DEF e
<1>12. ASSUME NEW u \in 1 .. t, u # t PROVE Told(b2.tasks[u], b2.log, u)
  <2>1. u \in DOMAIN b.tasks /\ b2.tasks[u] = b.tasks[u]
    BY <1>1, <1>3, <1>6, <1>12
  <2>2. Told(b.tasks[u], b.log, u)
    BY <1>0, <2>1 DEF TasksTold
  <2>3. Silent(b2.log, Len(b.log), Len(b2.log), u, ChangeTypes)
    BY <1>4, <1>7, <1>12 DEF Silent
  <2>4. b2.log \in Seq(Event)
    BY <1>6, TeamParts
  <2> QED BY <1>1, <1>7, <2>1, <2>2, <2>3, <2>4, ToldKept DEF Grows
<1> QED BY <1>3, <1>6, <1>8, <1>9, <1>10, <1>11, <1>12 DEF task, tasks, e, b1, b2

LEMMA QuietTwice ==
  ASSUME NEW b \in Team, NEW b1 \in Team, NEW b2 \in Team, Quiet(b, b1), Quiet(b1, b2)
  PROVE  Quiet(b, b2)
<1>1. /\ Len(b.log) \in Nat /\ Len(b1.log) \in Nat /\ Len(b2.log) \in Nat
      /\ Len(b.log) <= Len(b1.log) /\ Len(b1.log) <= Len(b2.log)
  BY TeamParts DEF Quiet, Grows
<1>2. \A i \in 1 .. Len(b.log) : b1.log[i] = b.log[i]
  BY DEF Quiet, Grows, Agree
<1>3. \A i \in 1 .. Len(b1.log) : b2.log[i] = b1.log[i]
  BY DEF Quiet, Grows, Agree
<1>4. Grows(b, b2)
  BY <1>1, <1>2, <1>3 DEF Grows, Agree
<1>5. SameReports(b, b2)
  BY DEF Quiet, SameReports
<1>6. ASSUME NEW i \in Len(b.log) + 1 .. Len(b2.log) PROVE b2.log[i].type # "report_submitted"
  <2>1. CASE i <= Len(b1.log)
    <3>1. i \in Len(b.log) + 1 .. Len(b1.log) /\ b2.log[i] = b1.log[i]
      BY <1>1, <1>3, <2>1
    <3> QED BY <3>1 DEF Quiet
  <2>2. CASE ~ (i <= Len(b1.log))
    <3>1. i \in Len(b1.log) + 1 .. Len(b2.log)
      BY <1>1, <2>2
    <3> QED BY <3>1 DEF Quiet
  <2> QED BY <2>1, <2>2
<1> QED BY <1>4, <1>5, <1>6 DEF Quiet

\* create: the second event, if there is one, tells the owner.
LEMMA SoundCreated ==
  ASSUME NEW b, Sound(b), NEW c, c.owner \in Actors \cup {Nobody}
  PROVE  Sound(Created(b, c)) /\ Quiet(b, Created(b, c)) /\ Created(b, c).reports = b.reports
<1> DEFINE t  == Len(b.tasks) + 1
           task0 == [status |-> "open", owner |-> Nobody, gated |-> FALSE]
           task == [status |-> "open", owner |-> c.owner, gated |-> FALSE]
           b2 == Logged([b EXCEPT !.tasks = Append(@, task)], PlainEvent("created", t))
           e  == [PlainEvent("assigned", t) EXCEPT !.owner = c.owner]
           b3 == Logged(b2, e)
<1>0. b \in Team
  BY DEF Sound
<1>1. /\ b2 \in Team /\ OwnersAreAssigned(b2) /\ ReportsTold(b2) /\ Quiet(b, b2)
      /\ b2.reports = b.reports /\ DOMAIN b2.tasks = 1 .. t /\ b2.tasks[t] = task
      /\ Told(task0, b2.log, t)
      /\ \A u \in 1 .. t : u # t => Told(b2.tasks[u], b2.log, u)
  BY SoundNewTask
<1>2. Created(b, c) = IF c.owner = Nobody THEN b2 ELSE b3
  BY DEF Created
<1>3. t \in TaskIds
  BY <1>0, TeamParts DEF TaskIds
<1> HIDE DEF t, b2
<1>4. CASE c.owner = Nobody
  <2>1. \A u \in DOMAIN b2.tasks : Told(b2.tasks[u], b2.log, u)
    BY <1>1, <1>4
  <2>2. Sound(b2)
    BY <1>1, <2>1 DEF Sound, TasksTold
  <2>3. Created(b, c) = b2
    BY <1>2, <1>4
  <2> QED BY <1>1, <2>2, <2>3
<1>5. CASE c.owner # Nobody
  <2>1. e \in Event /\ e.task = t /\ e.type = "assigned" /\ e.owner = c.owner
    BY <1>3 DEF PlainEvent, Event
  <2>2. task = After(task0, e)
    BY <2>1 DEF After, StatusTypes, OwnerTypes, GateTypes
  <2> HIDE DEF e, task, task0
  <2>3. b3 \in Team /\ b3.log = Append(b2.log, e) /\ b3.tasks = b2.tasks /\ b3.reports = b2.reports
    BY <1>1, <2>1, LoggedParts
  <2> HIDE DEF b3
  <2>4. /\ Grows(b2, b3) /\ Len(b3.log) = Len(b2.log) + 1
        /\ \A i \in Len(b2.log) + 1 .. Len(b3.log) : b3.log[i] = e
    BY <1>1, <2>1, <2>3, AnotherEvent
  <2>5. Quiet(b2, b3)
    BY <2>1, <2>3, <2>4 DEF Quiet, SameReports
  <2>6. ReportsTold(b3) /\ OwnersAreAssigned(b3)
    <3>1. ReportsTold(b3)
      BY <1>1, <2>3, <2>5, ReportsKept
    <3>2. OwnersAreAssigned(b3)
      BY <1>1, <2>1, <2>3, <2>4, OwnersKept
    <3> QED BY <3>1, <3>2
  <2>7. ASSUME NEW u \in DOMAIN b3.tasks PROVE Told(b3.tasks[u], b3.log, u)
    <3>1. b2.log \in Seq(Event) /\ b3.log \in Seq(Event)
      BY <1>1, <2>3, TeamParts
    <3>2. CASE u = t
      BY <1>1, <2>1, <2>2, <2>3, <3>1, <3>2, ToldAfter
    <3>3. CASE u # t
      <4>1. Told(b2.tasks[u], b2.log, u) /\ b3.tasks[u] = b2.tasks[u]
        BY <1>1, <2>3, <3>3
      <4>2. Silent(b3.log, Len(b2.log), Len(b3.log), u, ChangeTypes)
        BY <2>1, <2>4, <3>3 DEF Silent
      <4> QED BY <2>4, <3>1, <4>1, <4>2, ToldKept DEF Grows
    <3> QED BY <3>2, <3>3
  <2>8. Sound(b3)
    BY <2>3, <2>6, <2>7 DEF Sound, TasksTold
  <2>9. Quiet(b, b3) /\ b3.reports = b.reports
    BY <1>0, <1>1, <2>3, <2>5, QuietTwice
  <2>10. Created(b, c) = b3
    BY <1>2, <1>5
  <2> QED BY <2>8, <2>9, <2>10
<1> QED BY <1>4, <1>5

\* What reports there are after one more was submitted, and by whom.
Submits(b, b2, actor, t) ==
  LET r == Len(b.reports) + 1
      n == Len(b.log) + 1
  IN /\ Grows(b, b2) /\ Len(b2.log) = n
     /\ b2.log[n].type = "report_submitted" /\ b2.log[n].report = r
     /\ DOMAIN b2.reports = 1 .. r
     /\ b2.reports[r].task = t /\ b2.reports[r].author = actor /\ b2.reports[r].mail = NoMail
     /\ \A q \in DOMAIN b.reports : b2.reports[q] = b.reports[q]

\* report: what it records of the task is what the history then tells.
LEMMA SoundReported ==
  ASSUME NEW b, Sound(b), NEW c, c.task \in DOMAIN b.tasks, b.tasks[c.task].status # "done",
         NEW actor \in Actors
  PROVE  Sound(Reported(b, actor, c)) /\ Submits(b, Reported(b, actor, c), actor, c.task)
<1> DEFINE t == c.task
           n == Len(b.log) + 1
           r == Len(b.reports) + 1
           report == [task |-> t, author |-> actor, owner |-> b.tasks[t].owner,
                      status |-> b.tasks[t].status, mail |-> NoMail]
           reports == Append(b.reports, report)
           e == [PlainEvent("report_submitted", t) EXCEPT !.report = r]
           b1 == [b EXCEPT !.reports = reports]
           b2 == Logged(b1, e)
<1>0. b \in Team /\ TasksTold(b) /\ OwnersAreAssigned(b) /\ ReportsTold(b)
  BY DEF Sound
<1>1. /\ Len(b.reports) \in Nat /\ b.reports \in Seq(Report) /\ b.log \in Seq(Event)
      /\ Len(b.log) \in Nat /\ DOMAIN b.log = 1 .. Len(b.log)
      /\ DOMAIN b.reports = 1 .. Len(b.reports)
      /\ DOMAIN b.tasks = 1 .. Len(b.tasks) /\ Len(b.tasks) \in Nat
      /\ b.tasks[t] \in Task
  BY <1>0, TeamParts
<1>2. t \in TaskIds /\ r \in TaskIds
  BY <1>1 DEF TaskIds
<1>3. b.tasks[t].status \in {"open", "blocked"} /\ b.tasks[t].owner \in Actors \cup {Nobody}
  BY <1>1 DEF Task
<1>4. /\ report \in Report /\ report.task = t /\ report.author = actor /\ report.mail = NoMail
      /\ report.owner = b.tasks[t].owner /\ report.status = b.tasks[t].status
  BY <1>2, <1>3 DEF Report
<1>5. /\ e \in Event /\ e.type = "report_submitted" /\ e.task = t /\ e.report = r
  BY <1>2 DEF PlainEvent, Event, TaskIds
<1> HIDE DEF report, e
<1>6. /\ reports \in Seq(Report) /\ DOMAIN reports = 1 .. r /\ reports[r] = report
      /\ \A q \in 1 .. Len(b.reports) : reports[q] = b.reports[q]
  BY <1>1, <1>4, AppendProperties, LenProperties
<1>7. Reported(b, actor, c) = b2
  BY DEF Reported, report, e
<1> HIDE DEF reports
<1>8. b1 \in Team /\ b1.tasks = b.tasks /\ b1.log = b.log /\ b1.reports = reports
  <2>1. b = [members |-> b.members, panes |-> b.panes, tasks |-> b.tasks,
             reports |-> b.reports, log |-> b.log]
    BY <1>0 DEF Team
  <2>2. b1.tasks = b.tasks /\ b1.log = b.log /\ b1.reports = reports
    BY <2>1
  <2> QED BY <1>0, <1>6, <2>2 DEF Team
<1> HIDE DEF b1
<1>9. b2 \in Team /\ b2.log = Append(b.log, e) /\ b2.tasks = b.tasks /\ b2.reports = reports
  BY <1>5, <1>8, LoggedParts
<1> HIDE DEF b2
<1>10. /\ Grows(b, b2) /\ Len(b2.log) = n /\ \A i \in n .. Len(b2.log) : b2.log[i] = e
  BY <1>0, <1>5, <1>9, AnotherEvent
<1>11. /\ DOMAIN b2.log = 1 .. n /\ b2.log[n] = e
       /\ \A i \in 1 .. Len(b.log) : b2.log[i] = b.log[i]
  BY <1>1, <1>9, <1>10, TeamParts DEF Grows, Agree
<1> HIDE DEF r, n
<1>12. Submits(b, b2, actor, t)
  BY <1>1, <1>4, <1>5, <1>6, <1>9, <1>10, <1>11 DEF Submits, r, n
<1>a. /\ r = Len(b.reports) + 1 /\ n = Len(b.log) + 1
      /\ DOMAIN b.reports = 1 .. (r - 1) /\ DOMAIN b.log = 1 .. (n - 1)
      /\ r \in Nat \ {0} /\ n \in Nat \ {0}
      /\ \A q \in DOMAIN b2.reports : q # r => q \in DOMAIN b.reports
      /\ \A i \in DOMAIN b2.log : i # n => i \in DOMAIN b.log /\ b2.log[i] = b.log[i]
  <2>1. /\ r = Len(b.reports) + 1 /\ n = Len(b.log) + 1
        /\ DOMAIN b.reports = 1 .. (r - 1) /\ DOMAIN b.log = 1 .. (n - 1)
        /\ r \in Nat \ {0} /\ n \in Nat \ {0}
    BY <1>1 DEF r, n
  <2>2. DOMAIN b2.reports = 1 .. r
    BY <1>6, <1>9
  <2>3. \A q \in 1 .. r : q # r => q \in 1 .. (r - 1)
    BY <2>1
  <2>4. \A i \in 1 .. n : i # n => i \in 1 .. (n - 1)
    BY <2>1
  <2>5. \A i \in DOMAIN b.log : b2.log[i] = b.log[i]
    BY <1>1, <1>11
  <2> QED BY <1>11, <2>1, <2>2, <2>3, <2>4, <2>5
<1>b. /\ n \in DOMAIN b2.log /\ n \notin DOMAIN b.log /\ r \in DOMAIN b2.reports
      /\ DOMAIN b.log \subseteq DOMAIN b2.log /\ \A i \in DOMAIN b.log : b2.log[i] = b.log[i]
  BY <1>6, <1>9, <1>11, <1>a
<1>13. OwnersAreAssigned(b2)
  BY <1>0, <1>5, <1>9, <1>10, OwnersKept
<1>14. ASSUME NEW u \in DOMAIN b2.tasks PROVE Told(b2.tasks[u], b2.log, u)
  <2>1. b.log \in Seq(Event) /\ b2.log \in Seq(Event)
    BY <1>0, <1>9, TeamParts
  <2>2. Told(b.tasks[u], b.log, u)
    BY <1>0, <1>9 DEF TasksTold
  <2>3. Silent(b2.log, Len(b.log), Len(b2.log), u, ChangeTypes)
    BY <1>5, <1>10, <1>a DEF Silent, ChangeTypes, StatusTypes, OwnerTypes, GateTypes
  <2> QED BY <1>9, <1>10, <2>1, <2>2, <2>3, ToldKept DEF Grows
<1>15. ReportsTold(b2)
  <2>1. ASSUME NEW i \in DOMAIN b2.log, b2.log[i].type = "report_submitted"
        PROVE  b2.log[i].report \in DOMAIN b2.reports
    <3>1. CASE i = n
      BY <1>5, <1>11, <1>b, <3>1
    <3>2. CASE i # n
      <4>1. i \in DOMAIN b.log /\ b2.log[i] = b.log[i]
        BY <1>a, <2>1, <3>2
      <4>2. b.log[i].report \in DOMAIN b.reports
        BY <1>0, <2>1, <4>1 DEF ReportsTold
      <4> QED BY <1>6, <1>9, <1>a, <4>1, <4>2
    <3> QED BY <3>1, <3>2
  <2>2. ASSUME NEW q \in DOMAIN b2.reports
        PROVE  \E i \in SubmittedIn(b2, q) :
                 SubmittedIn(b2, q) = {i} /\ SubmittedAt(b2.reports[q], b2.log, i)
    <3>1. CASE q = r
      <4>1. \A i \in DOMAIN b.log : b.log[i].type = "report_submitted" => b.log[i].report # r
        BY <1>0, <1>a DEF ReportsTold
      <4>2. SubmittedIn(b2, r) = {n}
        <5>1. \A i \in DOMAIN b2.log :
                b2.log[i].type = "report_submitted" /\ b2.log[i].report = r <=> i = n
          BY <1>5, <1>11, <1>a, <4>1
        <5> QED BY <1>b, <5>1 DEF SubmittedIn
      <4>3. SubmittedAt(report, b2.log, n)
        <5>1. t \in DOMAIN b2.tasks
          BY <1>9
        <5> DEFINE u == t
        <5> HIDE DEF u
        <5>2. Told(b2.tasks[u], b2.log, u)
          BY <1>14, <5>1 DEF u
        <5> QED BY <1>4, <1>5, <1>9, <1>10, <1>11, <5>2 DEF SubmittedAt, Told, u
      <4> QED BY <1>6, <1>9, <3>1, <4>2, <4>3
    <3>2. CASE q # r
      <4>1. q \in DOMAIN b.reports /\ b2.reports[q] = b.reports[q]
        BY <1>1, <1>6, <1>9, <1>a, <2>2, <3>2
      <4>2. PICK i \in SubmittedIn(b, q) :
              SubmittedIn(b, q) = {i} /\ SubmittedAt(b.reports[q], b.log, i)
        BY <1>0, <4>1 DEF ReportsTold
      <4>3. SubmittedIn(b2, q) = SubmittedIn(b, q)
        BY <1>5, <1>11, <1>a, <1>b, <3>2 DEF SubmittedIn
      <4>4. i \in 1 .. Len(b.log) /\ Agree(b.log, b2.log, Len(b.log))
        BY <1>1, <1>10, <4>2 DEF SubmittedIn, Grows
      <4>5. SubmittedAt(b2.reports[q], b2.log, i)
        BY <1>1, <4>1, <4>2, <4>4, SubmittedKept
      <4> QED BY <4>2, <4>3, <4>5
    <3> QED BY <3>1, <3>2
  <2> QED BY <2>1, <2>2 DEF ReportsTold
<1> QED BY <1>7, <1>9, <1>12, <1>13, <1>14, <1>15 DEF Sound, TasksTold

\* Noting a report's mail changes nothing that is told of it.
LEMMA SoundLinked ==
  ASSUME NEW b, Sound(b), NEW mail \in [report: TaskIds, task: TaskIds, author: Actors]
  PROVE  /\ Sound(Linked(b, mail)) /\ Quiet(b, Linked(b, mail))
         /\ Linked(b, mail).tasks = b.tasks /\ Linked(b, mail).log = b.log
         /\ \A r \in DOMAIN b.reports :
              Linked(b, mail).reports[r].mail = IF r = mail.report THEN mail ELSE b.reports[r].mail
<1> DEFINE r0 == mail.report
           report == [b.reports[r0] EXCEPT !.mail = mail]
           reports == [b.reports EXCEPT ![r0] = report]
           b2 == [b EXCEPT !.reports = reports]
<1>0. b \in Team /\ TasksTold(b) /\ OwnersAreAssigned(b) /\ ReportsTold(b)
  BY DEF Sound
<1>1. /\ b.reports \in Seq(Report) /\ DOMAIN b.reports = 1 .. Len(b.reports)
      /\ Len(b.log) \in Nat /\ Len(b.reports) \in Nat
  BY <1>0, TeamParts
<1>2. Grows(b, b) /\ \A i \in Len(b.log) + 1 .. Len(b.log) : b.log[i].type # "report_submitted"
  BY <1>1 DEF Grows, Agree
<1>3. CASE r0 \notin DOMAIN b.reports
  <2>1. Linked(b, mail) = b
    BY <1>3 DEF Linked
  <2>2. Quiet(b, b)
    BY <1>2 DEF Quiet, SameReports
  <2> QED BY <1>3, <2>1, <2>2
<1>4. CASE r0 \in DOMAIN b.reports
  <2>1. b.reports[r0] \in Report
    BY <1>0, <1>4, TeamParts
  <2>2. /\ report \in Report /\ report.mail = mail
        /\ report.task = b.reports[r0].task /\ report.author = b.reports[r0].author
        /\ report.owner = b.reports[r0].owner /\ report.status = b.reports[r0].status
    BY <2>1 DEF Report
  <2> HIDE DEF report
  <2>3. /\ reports \in Seq(Report) /\ DOMAIN reports = DOMAIN b.reports /\ reports[r0] = report
        /\ \A r \in DOMAIN b.reports : r # r0 => reports[r] = b.reports[r]
    BY <1>1, <1>4, <2>2, ExceptSeq
  <2>4. Linked(b, mail) = b2
    <3>1. b.reports[r0] = [task |-> b.reports[r0].task, author |-> b.reports[r0].author,
             owner |-> b.reports[r0].owner, status |-> b.reports[r0].status,
             mail |-> b.reports[r0].mail]
      BY <2>1 DEF Report
    <3> QED BY <1>4 DEF Linked, report
  <2> HIDE DEF reports
  <2>5. b2 \in Team /\ b2.tasks = b.tasks /\ b2.log = b.log /\ b2.reports = reports
    <3>1. b = [members |-> b.members, panes |-> b.panes, tasks |-> b.tasks,
               reports |-> b.reports, log |-> b.log]
      BY <1>0 DEF Team
    <3>2. b2.tasks = b.tasks /\ b2.log = b.log /\ b2.reports = reports
      BY <3>1
    <3> QED BY <1>0, <2>3, <3>2 DEF Team
  <2> HIDE DEF b2
  <2>6. SameReports(b, b2)
    <3>1. ASSUME NEW r \in DOMAIN b.reports
          PROVE  /\ b2.reports[r].task = b.reports[r].task
                 /\ b2.reports[r].author = b.reports[r].author
                 /\ b2.reports[r].owner = b.reports[r].owner
                 /\ b2.reports[r].status = b.reports[r].status
      BY <2>2, <2>3, <2>5
    <3> QED BY <2>3, <2>5, <3>1 DEF SameReports
  <2>7. Quiet(b, b2)
    BY <1>2, <2>5, <2>6 DEF Quiet, Grows
  <2>8. ReportsTold(b2)
    BY <1>0, <2>5, <2>7, ReportsKept
  <2>9. Sound(b2)
    BY <1>0, <2>5, <2>8 DEF Sound, TasksTold, OwnersAreAssigned
  <2>10. ASSUME NEW r \in DOMAIN b.reports
         PROVE  b2.reports[r].mail = IF r = r0 THEN mail ELSE b.reports[r].mail
    BY <2>2, <2>3, <2>5
  <2> QED BY <2>4, <2>5, <2>7, <2>9, <2>10
<1> QED BY <1>3, <1>4

\* Where the panes are recorded to be is no matter of the board.
LEMMA SoundPanes ==
  ASSUME NEW b, Sound(b), NEW p \in Nat
  PROVE  LET b2 == [b EXCEPT !.panes = p]
         IN  Sound(b2) /\ b2.tasks = b.tasks /\ b2.log = b.log /\ b2.reports = b.reports
<1> DEFINE b2 == [b EXCEPT !.panes = p]
<1>0. b \in Team /\ TasksTold(b) /\ OwnersAreAssigned(b) /\ ReportsTold(b)
  BY DEF Sound
<1>1. b2 \in Team /\ b2.tasks = b.tasks /\ b2.log = b.log /\ b2.reports = b.reports
  <2>1. b = [members |-> b.members, panes |-> b.panes, tasks |-> b.tasks,
             reports |-> b.reports, log |-> b.log]
    BY <1>0 DEF Team
  <2> QED BY <1>0, <2>1 DEF Team
<1> HIDE DEF b2
<1>2. Sound(b2)
  BY <1>0, <1>1 DEF Sound, TasksTold, OwnersAreAssigned, ReportsTold, SubmittedIn
<1> QED BY <1>1, <1>2 DEF b2

-----------------------------------------------------------------------------
(***************************************************************************)
(* The members of a finite set of ids, in their order, are its members.    *)
(***************************************************************************)

LEMMA RanksDiffer ==
  ASSUME NEW S \in SUBSET Nat, IsFiniteSet(S), NEW t \in S, NEW v \in S, t < v
  PROVE  Cardinality({u \in S : u <= t}) # Cardinality({u \in S : u <= v})
<1> DEFINE T == {u \in S : u <= t}
           V == {u \in S : u <= v}
<1>1. T \subseteq V /\ v \in V /\ v \notin T /\ V \subseteq S
  <2>1. \A u \in S : u \in Nat
    OBVIOUS
  <2>2. ASSUME NEW u \in S, u <= t PROVE u <= v
    BY <2>1, <2>2
  <2>3. v <= v /\ ~ (v <= t)
    BY <2>1
  <2> QED BY <2>2, <2>3
<1>2. IsFiniteSet(V)
  BY <1>1, FS_Subset
<1> HIDE DEF T, V
<1>3. Cardinality(V) = Cardinality(T) => V = T
  BY <1>1, <1>2, FS_Subset
<1> QED BY <1>1, <1>3 DEF T, V

LEMMA InOrderIsAll ==
  ASSUME NEW S \in SUBSET Nat, IsFiniteSet(S)
  PROVE  /\ Cardinality(S) \in Nat
         /\ \A i \in 1 .. Cardinality(S) : InOrder(S)[i] \in S
         /\ \A t \in S : \E i \in 1 .. Cardinality(S) : InOrder(S)[i] = t
<1> DEFINE n == Cardinality(S)
           rank == [t \in S |-> Cardinality({u \in S : u <= t})]
<1>1. n \in Nat
  BY FS_CardinalityType
<1>2. ASSUME NEW t \in S PROVE rank[t] \in 1 .. n
  <2> DEFINE T == {u \in S : u <= t}
  <2>1. T \subseteq S /\ t \in T
    OBVIOUS
  <2>2. rank[t] = Cardinality(T)
    OBVIOUS
  <2> HIDE DEF T
  <2>3. IsFiniteSet(T) /\ Cardinality(T) <= n /\ T # {}
    BY <2>1, FS_Subset
  <2>4. Cardinality(T) \in Nat /\ Cardinality(T) # 0
    BY <2>3, FS_CardinalityType, FS_EmptySet
  <2> HIDE DEF rank, n
  <2> QED BY <1>1, <2>2, <2>3, <2>4
<1>3. ASSUME NEW t \in S, NEW v \in S, rank[t] = rank[v] PROVE t = v
  <2>1. rank[t] = Cardinality({u \in S : u <= t}) /\ rank[v] = Cardinality({u \in S : u <= v})
    OBVIOUS
  <2>2. ~ (t < v) /\ ~ (v < t)
    BY <1>3, <2>1, RanksDiffer
  <2> QED BY <2>2
<1>4. rank \in Injection(S, 1 .. n)
  <2>1. rank \in [S -> 1 .. n]
    BY <1>2
  <2> HIDE DEF rank, n
  <2> QED BY <1>3, <2>1, Fun_IsInj
<1>5. IsFiniteSet(1 .. n) /\ Cardinality(1 .. n) = n
  <2> HIDE DEF n
  <2>1. 1 \in Int /\ n \in Int
    BY <1>1
  <2> QED BY <1>1, <2>1, FS_Interval
<1>6. rank \in Surjection(S, 1 .. n)
  <2> HIDE DEF rank
  <2> QED BY <1>4, <1>5, FS_Injection
<1>7. ASSUME NEW i \in 1 .. n PROVE \E t \in S : rank[t] = i
  <2> HIDE DEF rank, n
  <2> QED BY <1>6 DEF Surjection
<1>8. ASSUME NEW i \in 1 .. n
      PROVE  InOrder(S)[i] \in S /\ rank[InOrder(S)[i]] = i
  <2>1. InOrder(S)[i] = CHOOSE t \in S : Cardinality({u \in S : u <= t}) = i
    BY DEF InOrder
  <2>2. \E t \in S : Cardinality({u \in S : u <= t}) = i
    BY <1>7
  <2> DEFINE t0 == CHOOSE t \in S : Cardinality({u \in S : u <= t}) = i
  <2>3. t0 \in S /\ Cardinality({u \in S : u <= t0}) = i
    BY <2>2
  <2> HIDE DEF t0
  <2>4. rank[t0] = i
    BY <2>3
  <2> QED BY <2>1, <2>3, <2>4 DEF t0
<1>9. ASSUME NEW t \in S PROVE \E i \in 1 .. n : InOrder(S)[i] = t
  <2> HIDE DEF rank, n
  <2>1. rank[t] \in 1 .. n
    BY <1>2
  <2>2. InOrder(S)[rank[t]] \in S /\ rank[InOrder(S)[rank[t]]] = rank[t]
    BY <1>8, <2>1
  <2> QED BY <1>3, <2>1, <2>2
<1> QED BY <1>1, <1>8, <1>9

\* Removing a member: every task of its that is not done is given back, and
\* an event says so.
LEMMA SoundRemoved ==
  ASSUME NEW b, Sound(b), NEW m \in Actors
  PROVE  /\ Sound(Removed(b, m)) /\ Quiet(b, Removed(b, m))
         /\ Removed(b, m).reports = b.reports
         /\ DOMAIN Removed(b, m).tasks = DOMAIN b.tasks
         /\ \A t \in DOMAIN b.tasks : b.tasks[t].status = "done" => Removed(b, m).tasks[t] = b.tasks[t]
<1> DEFINE S == Reopened(b, m)
           k == Cardinality(S)
           n == Len(b.log)
           ids == InOrder(S)
           events == [i \in DOMAIN ids |-> PlainEvent("owner_removed", ids[i])]
           log == b.log \o events
           tasks == [t \in DOMAIN b.tasks |->
                       IF t \in S THEN [b.tasks[t] EXCEPT !.status = "open", !.owner = Nobody]
                       ELSE b.tasks[t]]
           members == b.members \ {m}
           b2 == [b EXCEPT !.members = members, !.tasks = tasks, !.log = log]
<1>0. b \in Team /\ TasksTold(b) /\ OwnersAreAssigned(b) /\ ReportsTold(b)
  BY DEF Sound
<1>1. /\ n \in Nat /\ b.log \in Seq(Event) /\ b.tasks \in Seq(Task) /\ Len(b.tasks) \in Nat
      /\ DOMAIN b.tasks = 1 .. Len(b.tasks) /\ b.members \in SUBSET Actors
      /\ \A t \in DOMAIN b.tasks : b.tasks[t] \in Task
  BY <1>0, TeamParts
<1>2. S \subseteq DOMAIN b.tasks /\ \A t \in S : b.tasks[t].status # "done"
  BY DEF Reopened
<1>3. IsFiniteSet(S) /\ S \in SUBSET Nat /\ S \subseteq TaskIds
  <2> HIDE DEF S
  <2>1. IsFiniteSet(1 .. Len(b.tasks))
    <3>1. 1 \in Int /\ Len(b.tasks) \in Int
      BY <1>1
    <3> QED BY <3>1, FS_Interval
  <2>2. IsFiniteSet(S)
    BY <1>1, <1>2, <2>1, FS_Subset
  <2> QED BY <1>1, <1>2, <2>2 DEF TaskIds
<1>4. /\ k \in Nat /\ DOMAIN ids = 1 .. k
      /\ \A i \in 1 .. k : ids[i] \in S
      /\ \A t \in S : \E i \in 1 .. k : ids[i] = t
  <2> HIDE DEF S
  <2>1. DOMAIN InOrder(S) = 1 .. Cardinality(S)
    BY DEF InOrder
  <2> QED BY <1>3, <2>1, InOrderIsAll
<1>5. Removed(b, m) = b2
  BY DEF Removed
<1> HIDE DEF S, k, ids
<1>6. ASSUME NEW t \in TaskIds
      PROVE  /\ PlainEvent("owner_removed", t) \in Event
             /\ PlainEvent("owner_removed", t).type = "owner_removed"
             /\ PlainEvent("owner_removed", t).task = t
             /\ PlainEvent("owner_removed", t).owner = Nobody
  BY DEF PlainEvent, Event
<1>7. /\ events \in Seq(Event) /\ Len(events) = k
      /\ \A i \in 1 .. k : events[i] = PlainEvent("owner_removed", ids[i])
  <2>1. \A i \in 1 .. k : PlainEvent("owner_removed", ids[i]) \in Event
    BY <1>3, <1>4, <1>6
  <2>2. events = [i \in 1 .. k |-> PlainEvent("owner_removed", ids[i])]
    BY <1>4
  <2> QED BY <1>4, <2>1, <2>2
<1> HIDE DEF events
<1>8. /\ log \in Seq(Event) /\ Len(log) = n + k
      /\ \A i \in 1 .. n : log[i] = b.log[i]
      /\ \A i \in 1 .. k : log[n + i] = PlainEvent("owner_removed", ids[i])
  <2>1. /\ log \in Seq(Event) /\ Len(log) = n + k
        /\ \A i \in 1 .. n + k : log[i] = IF i <= n THEN b.log[i] ELSE events[i - n]
    BY <1>1, <1>7, ConcatProperties
  <2>2. ASSUME NEW i \in 1 .. k PROVE log[n + i] = PlainEvent("owner_removed", ids[i])
    <3>1. n + i \in 1 .. n + k /\ ~ (n + i <= n) /\ (n + i) - n = i
      BY <1>1, <1>4
    <3> QED BY <1>7, <2>1, <3>1
  <2> QED BY <1>1, <1>4, <2>1, <2>2
<1> HIDE DEF log
<1>9. ASSUME NEW i \in n + 1 .. n + k
      PROVE  \E t \in S : log[i] = PlainEvent("owner_removed", t)
  <2> DEFINE j == i - n
  <2>1. j \in 1 .. k /\ n + j = i
    BY <1>1, <1>4
  <2> HIDE DEF j
  <2>2. log[i] = PlainEvent("owner_removed", ids[j])
    BY <1>8, <2>1
  <2>3. ids[j] \in S
    BY <1>4, <2>1
  <2> QED BY <2>2, <2>3
<1>10. /\ tasks \in Seq(Task) /\ DOMAIN tasks = DOMAIN b.tasks
       /\ \A t \in DOMAIN b.tasks : t \notin S => tasks[t] = b.tasks[t]
       /\ \A t \in S : /\ tasks[t].status = "open" /\ tasks[t].owner = Nobody
                       /\ tasks[t].gated = b.tasks[t].gated
  <2>1. ASSUME NEW t \in S
        PROVE  /\ [b.tasks[t] EXCEPT !.status = "open", !.owner = Nobody] \in Task
               /\ tasks[t].status = "open" /\ tasks[t].owner = Nobody
               /\ tasks[t].gated = b.tasks[t].gated
    <3>1. b.tasks[t] \in Task /\ t \in DOMAIN b.tasks
      BY <1>1, <1>2
    <3> QED BY <3>1 DEF Task
  <2>2. \A t \in 1 .. Len(b.tasks) : tasks[t] \in Task
    BY <1>1, <2>1
  <2>3. tasks \in [1 .. Len(b.tasks) -> Task]
    BY <1>1, <2>2
  <2>4. tasks \in Seq(Task)
    <3> HIDE DEF tasks
    <3> QED BY <1>1, <2>3, IsASeq, SMTT(30)
  <2> QED BY <2>1, <2>4
<1> HIDE DEF tasks
<1>11. /\ b2 \in Team /\ b2.tasks = tasks /\ b2.log = log /\ b2.reports = b.reports
  <2>1. b = [members |-> b.members, panes |-> b.panes, tasks |-> b.tasks,
             reports |-> b.reports, log |-> b.log]
    BY <1>0 DEF Team
  <2>2. b2.tasks = tasks /\ b2.log = log /\ b2.reports = b.reports
    BY <2>1
  <2>3. members \in SUBSET Actors
    BY <1>1
  <2> HIDE DEF members
  <2>4. b2 \in Team
    BY <1>0, <1>8, <1>10, <2>3 DEF Team
  <2> QED BY <2>2, <2>4
<1> HIDE DEF b2
<1>12. Grows(b, b2)
  BY <1>1, <1>4, <1>8, <1>11 DEF Grows, Agree
<1>13. Len(b2.log) = n + k
  BY <1>8, <1>11
<1>14. \A i \in n + 1 .. Len(b2.log) :
         b2.log[i].type = "owner_removed" /\ b2.log[i].owner = Nobody /\ b2.log[i].task \in S
  BY <1>3, <1>6, <1>9, <1>11, <1>13
<1>15. Quiet(b, b2)
  BY <1>11, <1>12, <1>14 DEF Quiet, SameReports
<1>16. ReportsTold(b2)
  BY <1>0, <1>11, <1>15, ReportsKept
<1>17. OwnersAreAssigned(b2)
  BY <1>0, <1>11, <1>12, <1>14, OwnersKept
<1>18. ASSUME NEW t \in DOMAIN b2.tasks PROVE Told(b2.tasks[t], b2.log, t)
  <2> DEFINE n2 == Len(b2.log)
  <2>1. t \in DOMAIN b.tasks /\ Told(b.tasks[t], b.log, t)
    BY <1>0, <1>10, <1>11 DEF TasksTold
  <2>2. b2.log \in Seq(Event) /\ n2 \in Nat /\ n <= n2 /\ Agree(b.log, b2.log, n)
    BY <1>1, <1>4, <1>8, <1>11, <1>12, <1>13 DEF Grows
  <2>3. CASE t \notin S
    <3>1. Silent(b2.log, n, n2, t, ChangeTypes)
      BY <1>14, <2>3 DEF Silent
    <3> QED BY <1>1, <1>10, <1>11, <2>1, <2>2, <2>3, <3>1, ToldKept
  <2>4. CASE t \in S
    <3> DEFINE e == PlainEvent("owner_removed", t)
    <3>1. PICK j \in 1 .. k : ids[j] = t
      BY <1>4, <2>4
    <3>2. e.type = "owner_removed" /\ e.task = t /\ e.owner = Nobody
      BY <1>3, <1>6, <2>4
    <3>3. n + j \in n + 1 .. n2 /\ b2.log[n + j] = e
      BY <1>1, <1>4, <1>8, <1>11, <1>13, <3>1
    <3>4. ASSUME NEW i \in n + 1 .. n2, b2.log[i].task = t PROVE b2.log[i] = e
      BY <1>3, <1>6, <1>9, <1>11, <1>13, <3>4
    <3>5. CreatedBy(b.log, n, t) /\ b.tasks[t].gated = GateTold(b.log, n, t)
      BY <2>1 DEF Told
    <3> HIDE DEF e, n, n2
    <3>6. /\ Says(b2.log, n, n2, t, StatusTypes, e)
          /\ Says(b2.log, n, n2, t, OwnerTypes, e)
      BY <3>2, <3>3, <3>4 DEF Says, StatusTypes, OwnerTypes
    <3>7. /\ LastEvent(b2.log, n2, t, StatusTypes) = e
          /\ LastEvent(b2.log, n2, t, OwnerTypes) = e
      BY <1>1, <2>2, <3>6, LastNew
    <3>8. StatusTold(b2.log, n2, t) = "open" /\ OwnerTold(b2.log, n2, t) = Nobody
      BY <3>2, <3>7 DEF StatusTold, OwnerTold, StatusTypes, OwnerTypes
    <3>9. Silent(b2.log, n, n2, t, GateTypes)
      BY <3>2, <3>4 DEF Silent, GateTypes
    <3>10. CreatedBy(b2.log, n2, t) /\ GateTold(b2.log, n2, t) = GateTold(b.log, n, t)
      BY <1>1, <2>2, <3>5, <3>9, CreatedBefore, GateSame
    <3> QED BY <1>10, <1>11, <2>4, <3>5, <3>8, <3>10 DEF Told, n2
  <2> QED BY <2>3, <2>4
<1>19. \A t \in DOMAIN b.tasks : b.tasks[t].status = "done" => b2.tasks[t] = b.tasks[t]
  BY <1>2, <1>10, <1>11
<1> QED BY <1>5, <1>10, <1>11, <1>15, <1>16, <1>17, <1>18, <1>19 DEF Sound, TasksTold

-----------------------------------------------------------------------------
(***************************************************************************)
(* What a command may be, and what its locked update does.                 *)
(***************************************************************************)

LEMMA CommandFields ==
  ASSUME NEW c \in Commands
  PROVE  /\ c.action \in {"look", "create", "assign", "block", "unblock", "close", "progress", "report"}
         /\ c.task \in TaskIds /\ c.owner \in Actors \cup {Nobody} /\ c.gated \in BOOLEAN
         /\ c.action = "assign" => c.owner \in Actors
<1>0. Look = [action |-> "look", task |-> 1, owner |-> Nobody, gated |-> FALSE]
  BY DEF Look
<1>1. CASE c = Look
  BY <1>0, <1>1 DEF TaskIds
<1>2. CASE c \in {[Look EXCEPT !.action = "create", !.owner = o] : o \in Actors \cup {Nobody}}
  <2>1. PICK o \in Actors \cup {Nobody} : c = [Look EXCEPT !.action = "create", !.owner = o]
    BY <1>2
  <2>2. c = [action |-> "create", task |-> 1, owner |-> o, gated |-> FALSE]
    BY <1>0, <2>1
  <2> QED BY <2>2 DEF TaskIds
<1>3. ASSUME NEW t \in 1 .. MaxTasks,
             c \in {[Look EXCEPT !.action = "assign", !.task = t, !.owner = o] : o \in Actors}
      PROVE  c.action = "assign" /\ c.task = t /\ c.owner \in Actors /\ c.gated = FALSE
  <2>1. PICK o \in Actors : c = [Look EXCEPT !.action = "assign", !.task = t, !.owner = o]
    BY <1>3
  <2>2. c = [action |-> "assign", task |-> t, owner |-> o, gated |-> FALSE]
    BY <1>0, <2>1
  <2> QED BY <2>2
<1>4. ASSUME NEW t \in 1 .. MaxTasks,
             c \in {[Look EXCEPT !.action = "block", !.task = t, !.gated = g] : g \in BOOLEAN}
      PROVE  c.action = "block" /\ c.task = t /\ c.owner = Nobody /\ c.gated \in BOOLEAN
  <2>1. PICK g \in BOOLEAN : c = [Look EXCEPT !.action = "block", !.task = t, !.gated = g]
    BY <1>4
  <2>2. c = [action |-> "block", task |-> t, owner |-> Nobody, gated |-> g]
    BY <1>0, <2>1
  <2> QED BY <2>2
<1>5. ASSUME NEW t \in 1 .. MaxTasks,
             c \in {[Look EXCEPT !.action = a, !.task = t] :
                      a \in {"unblock", "close", "progress", "report"}}
      PROVE  /\ c.action \in {"unblock", "close", "progress", "report"}
             /\ c.task = t /\ c.owner = Nobody /\ c.gated = FALSE
  <2>1. PICK a \in {"unblock", "close", "progress", "report"} :
          c = [Look EXCEPT !.action = a, !.task = t]
    BY <1>5
  <2>2. c = [action |-> a, task |-> t, owner |-> Nobody, gated |-> FALSE]
    BY <1>0, <2>1
  <2> QED BY <2>2
<1>6. \A t \in 1 .. MaxTasks : t \in TaskIds
  BY BoundsType DEF TaskIds
<1>7. CASE \E t \in 1 .. MaxTasks :
             \/ c \in {[Look EXCEPT !.action = "assign", !.task = t, !.owner = o] : o \in Actors}
             \/ c \in {[Look EXCEPT !.action = "block", !.task = t, !.gated = g] : g \in BOOLEAN}
             \/ c \in {[Look EXCEPT !.action = a, !.task = t] :
                      a \in {"unblock", "close", "progress", "report"}}
  BY <1>3, <1>4, <1>5, <1>6, <1>7
<1> QED BY <1>1, <1>2, <1>7 DEF Commands

\* What a command makes of a task.
LEMMA OwnerReplaced ==
  ASSUME NEW task \in Task, NEW o
  PROVE  [task EXCEPT !.owner = o] = [status |-> task.status, owner |-> o, gated |-> task.gated]
<1>1. task = [status |-> task.status, owner |-> task.owner, gated |-> task.gated]
  BY DEF Task
<1> QED BY <1>1

LEMMA StatusReplaced ==
  ASSUME NEW task \in Task, NEW s \in {"open", "blocked", "done"}, NEW g \in BOOLEAN
  PROVE  [task EXCEPT !.status = s, !.gated = g] = [status |-> s, owner |-> task.owner, gated |-> g]
<1> DEFINE new == [task EXCEPT !.status = s, !.gated = g]
<1>1. new \in Task /\ new.status = s /\ new.owner = task.owner /\ new.gated = g
  BY DEF Task
<1> HIDE DEF new
<1>2. new = [status |-> new.status, owner |-> new.owner, gated |-> new.gated]
  BY <1>1 DEF Task
<1> QED BY <1>1, <1>2 DEF new

\* Closed tasks are left alone.
DoneStay(b, b2) == \A t \in DOMAIN b.tasks : b.tasks[t].status = "done" => b2.tasks[t] = b.tasks[t]

\* The four commands that change a task of the board.
LEMMA CommitsOnTask ==
  ASSUME NEW b, Sound(b), NEW c \in Commands, NEW actor \in Actors, Accepted(b, c),
         c.action \in {"assign", "block", "unblock", "close"}
  PROVE  /\ Sound(Committed(b, actor, c)) /\ Quiet(b, Committed(b, actor, c))
         /\ Committed(b, actor, c).reports = b.reports /\ DoneStay(b, Committed(b, actor, c))
<1> DEFINE t == c.task
<1>0. b \in Team
  BY DEF Sound
<1>1. /\ t \in DOMAIN b.tasks /\ t \in TaskIds /\ b.tasks[t] \in Task
      /\ CanTransition(b.tasks[t], c.action) /\ c.gated \in BOOLEAN
      /\ c.action = "assign" => c.owner \in Actors
  BY <1>0, TeamParts, CommandFields DEF Accepted
<1>2. b.tasks[t].status # "done"
  BY <1>1 DEF CanTransition
<1>3. ASSUME NEW e \in Event, e.task = t, e.type \in {"assigned", "blocked", "unblocked", "closed"},
             NEW task \in Task, task = After(b.tasks[t], e),
             Committed(b, actor, c) = Logged(Changed(b, t, task), e)
      PROVE  /\ Sound(Committed(b, actor, c)) /\ Quiet(b, Committed(b, actor, c))
             /\ Committed(b, actor, c).reports = b.reports /\ DoneStay(b, Committed(b, actor, c))
  <2> DEFINE b1 == Changed(b, t, task)
             b2 == Logged(b1, e)
  <2> HIDE DEF t
  <2>1. Sound(b2) /\ Quiet(b, b2) /\ b2.reports = b.reports
    BY <1>1, <1>3, SoundChanged
  <2>2. b1 \in Team /\ \A u \in DOMAIN b.tasks : u # t => b1.tasks[u] = b.tasks[u]
    BY <1>0, <1>1, ChangedParts
  <2> HIDE DEF b1
  <2>3. b2.tasks = b1.tasks
    BY <2>2, LoggedParts
  <2> HIDE DEF b2
  <2>4. DoneStay(b, b2)
    BY <1>2, <2>2, <2>3 DEF DoneStay
  <2> QED BY <1>3, <2>1, <2>4 DEF b2, b1
<1>5. /\ b.tasks[t].status \in {"open", "blocked", "done"}
      /\ b.tasks[t].owner \in Actors \cup {Nobody} /\ b.tasks[t].gated \in BOOLEAN
  BY <1>1 DEF Task
<1>6. CASE c.action = "assign"
  <2> DEFINE e == [PlainEvent("assigned", t) EXCEPT !.owner = c.owner]
             task == [b.tasks[t] EXCEPT !.owner = c.owner]
  <2>1. /\ e \in Event /\ e.task = t /\ e.type = "assigned" /\ e.owner = c.owner
    BY <1>1, <1>6 DEF PlainEvent, Event
  <2>2. task = [status |-> b.tasks[t].status, owner |-> c.owner, gated |-> b.tasks[t].gated]
    BY <1>1, OwnerReplaced
  <2>3. Committed(b, actor, c) = Logged(Changed(b, t, task), e)
    BY <1>6 DEF Committed, Assigned
  <2> HIDE DEF t, e, task
  <2>4. task \in Task
    BY <1>1, <1>5, <1>6, <2>2 DEF Task
  <2>5. task = After(b.tasks[t], e)
    BY <2>1, <2>2 DEF After, StatusTypes, OwnerTypes, GateTypes
  <2> QED BY <1>3, <2>1, <2>3, <2>4, <2>5
<1>7. CASE c.action = "block"
  <2> DEFINE e == [PlainEvent("blocked", t) EXCEPT !.gated = c.gated]
             task == [b.tasks[t] EXCEPT !.status = "blocked", !.gated = c.gated]
  <2>1. /\ e \in Event /\ e.task = t /\ e.type = "blocked" /\ e.gated = c.gated
    BY <1>1 DEF PlainEvent, Event
  <2>2. task = [status |-> "blocked", owner |-> b.tasks[t].owner, gated |-> c.gated]
    BY <1>1, StatusReplaced
  <2>3. Committed(b, actor, c) = Logged(Changed(b, t, task), e)
    BY <1>7 DEF Committed, Blocked
  <2> HIDE DEF t, e, task
  <2>4. task \in Task
    BY <1>1, <1>5, <2>2 DEF Task
  <2>5. task = After(b.tasks[t], e)
    BY <2>1, <2>2 DEF After, StatusBy, StatusTypes, OwnerTypes, GateTypes
  <2> QED BY <1>3, <2>1, <2>3, <2>4, <2>5
<1>8. CASE c.action = "unblock"
  <2> DEFINE e == PlainEvent("unblocked", t)
             task == [b.tasks[t] EXCEPT !.status = "open", !.gated = FALSE]
  <2>1. /\ e \in Event /\ e.task = t /\ e.type = "unblocked" /\ e.gated = FALSE
    BY <1>1 DEF PlainEvent, Event
  <2>2. task = [status |-> "open", owner |-> b.tasks[t].owner, gated |-> FALSE]
    BY <1>1, StatusReplaced
  <2>3. Committed(b, actor, c) = Logged(Changed(b, t, task), e)
    BY <1>8 DEF Committed, Unblocked
  <2> HIDE DEF t, e, task
  <2>4. task \in Task
    BY <1>5, <2>2 DEF Task
  <2>5. task = After(b.tasks[t], e)
    BY <2>1, <2>2 DEF After, StatusBy, StatusTypes, OwnerTypes, GateTypes
  <2> QED BY <1>3, <2>1, <2>3, <2>4, <2>5
<1>9. CASE c.action = "close"
  <2> DEFINE e == PlainEvent("closed", t)
             task == [b.tasks[t] EXCEPT !.status = "done", !.gated = FALSE]
  <2>1. /\ e \in Event /\ e.task = t /\ e.type = "closed" /\ e.gated = FALSE
    BY <1>1 DEF PlainEvent, Event
  <2>2. task = [status |-> "done", owner |-> b.tasks[t].owner, gated |-> FALSE]
    BY <1>1, StatusReplaced
  <2>3. Committed(b, actor, c) = Logged(Changed(b, t, task), e)
    BY <1>9 DEF Committed, Closed
  <2> HIDE DEF t, e, task
  <2>4. task \in Task
    BY <1>5, <2>2 DEF Task
  <2>5. task = After(b.tasks[t], e)
    BY <2>1, <2>2 DEF After, StatusBy, StatusTypes, OwnerTypes, GateTypes
  <2> QED BY <1>3, <2>1, <2>3, <2>4, <2>5
<1> QED BY <1>6, <1>7, <1>8, <1>9

LEMMA Commits ==
  ASSUME NEW b, Sound(b), NEW c \in Commands, c.action # "look", NEW actor \in Actors,
         Accepted(b, c)
  PROVE  /\ Sound(Committed(b, actor, c)) /\ DoneStay(b, Committed(b, actor, c))
         /\ c.action # "report" => /\ Quiet(b, Committed(b, actor, c))
                                   /\ Committed(b, actor, c).reports = b.reports
         /\ c.action = "report" => Submits(b, Committed(b, actor, c), actor, c.task)
<1>0. b \in Team
  BY DEF Sound
<1>1. CASE c.action \in {"assign", "block", "unblock", "close"}
  BY <1>1, CommitsOnTask
<1>2. CASE c.action = "create"
  <2>1. Committed(b, actor, c) = Created(b, c)
    BY <1>2 DEF Committed
  <2>2. Sound(Created(b, c)) /\ Quiet(b, Created(b, c)) /\ Created(b, c).reports = b.reports
    BY CommandFields, SoundCreated
  <2>3. DoneStay(b, Created(b, c))
    <3> DEFINE t == Len(b.tasks) + 1
               task == [status |-> "open", owner |-> c.owner, gated |-> FALSE]
               tasks == Append(b.tasks, task)
               b1 == [b EXCEPT !.tasks = tasks]
               b2 == Logged(b1, PlainEvent("created", t))
               b3 == Logged(b2, [PlainEvent("assigned", t) EXCEPT !.owner = c.owner])
    <3>1. task \in Task /\ t \in TaskIds /\ b.tasks \in Seq(Task) /\ DOMAIN b.tasks = 1 .. Len(b.tasks)
      <4>1. /\ b.tasks \in Seq(Task) /\ DOMAIN b.tasks = 1 .. Len(b.tasks) /\ Len(b.tasks) \in Nat
        BY <1>0, TeamParts
      <4>2. c.owner \in Actors \cup {Nobody}
        BY CommandFields
      <4> QED BY <4>1, <4>2 DEF Task, TaskIds
    <3>2. tasks \in Seq(Task) /\ \A u \in DOMAIN b.tasks : tasks[u] = b.tasks[u]
      <4> HIDE DEF task
      <4> QED BY <3>1, AppendProperties
    <3>3. Created(b, c) = IF c.owner = Nobody THEN b2 ELSE b3
      BY DEF Created
    <3>4. PlainEvent("created", t) \in Event
      BY <3>1 DEF PlainEvent, Event
    <3> HIDE DEF tasks
    <3>5. b1 \in Team /\ b1.tasks = tasks
      BY <1>0, <3>2 DEF Team
    <3> HIDE DEF b1, t
    <3>6. b2 \in Team /\ b2.tasks = tasks
      BY <3>4, <3>5, LoggedParts
    <3> HIDE DEF b2
    <3>7. CASE c.owner = Nobody
      BY <3>2, <3>3, <3>6, <3>7 DEF DoneStay
    <3>8. CASE c.owner # Nobody
      <4>1. [PlainEvent("assigned", t) EXCEPT !.owner = c.owner] \in Event
        <5>1. c.owner \in Actors /\ t \in TaskIds
          BY <3>1, <3>8, CommandFields
        <5> HIDE DEF t
        <5> QED BY <5>1 DEF PlainEvent, Event
      <4>2. b3.tasks = tasks
        BY <3>6, <4>1, LoggedParts
      <4> HIDE DEF b3
      <4> QED BY <3>2, <3>3, <3>8, <4>2 DEF DoneStay
    <3> QED BY <3>7, <3>8
  <2> QED BY <1>2, <2>1, <2>2, <2>3
<1>3. CASE c.action = "progress"
  <2> DEFINE e == PlainEvent("progress", c.task)
  <2>1. e \in Event /\ e.type = "progress"
    <3>1. c.task \in TaskIds
      BY CommandFields
    <3> QED BY <3>1 DEF PlainEvent, Event
  <2>2. Committed(b, actor, c) = Logged(b, e)
    BY <1>3 DEF Committed
  <2> HIDE DEF e
  <2>3. Sound(Logged(b, e)) /\ Quiet(b, Logged(b, e)) /\ Logged(b, e).reports = b.reports
    BY <2>1, SoundProgress
  <2>4. DoneStay(b, Logged(b, e))
    BY <1>0, <2>1, LoggedParts DEF DoneStay
  <2> QED BY <1>3, <2>2, <2>3, <2>4
<1>4. CASE c.action = "report"
  <2>1. c.task \in DOMAIN b.tasks /\ b.tasks[c.task].status # "done"
    BY <1>4 DEF Accepted, CanTransition
  <2>2. Committed(b, actor, c) = Reported(b, actor, c)
    BY <1>4 DEF Committed
  <2>3. Sound(Reported(b, actor, c)) /\ Submits(b, Reported(b, actor, c), actor, c.task)
    BY <2>1, SoundReported
  <2>4. DoneStay(b, Reported(b, actor, c))
    <3> DEFINE reports == Append(b.reports, [task |-> c.task, author |-> actor,
                 owner |-> b.tasks[c.task].owner, status |-> b.tasks[c.task].status, mail |-> NoMail])
               e == [PlainEvent("report_submitted", c.task) EXCEPT !.report = Len(b.reports) + 1]
    <3> HIDE DEF reports, e
    <3>1. Reported(b, actor, c) = [[b EXCEPT !.reports = reports] EXCEPT !.log = Append(@, e)]
      BY DEF Reported, Logged, reports, e
    <3>2. b = [members |-> b.members, panes |-> b.panes, tasks |-> b.tasks,
               reports |-> b.reports, log |-> b.log]
      BY <1>0 DEF Team
    <3>3. Reported(b, actor, c).tasks = b.tasks
      BY <3>1, <3>2
    <3> QED BY <3>3 DEF DoneStay
  <2> QED BY <1>4, <2>2, <2>3, <2>4
<1> QED BY <1>1, <1>2, <1>3, <1>4, CommandFields

-----------------------------------------------------------------------------
(***************************************************************************)
(* The calls.                                                              *)
(***************************************************************************)

Mail == [report: TaskIds, task: TaskIds, author: Workers]

LEMMA CallFields ==
  ASSUME TypeOK, NEW a \in Actors
  PROVE  /\ call[a].pc \in {"idle", "save", "commit", "mail", "link"}
         /\ call[a].pc \in {"save", "commit"} => call[a].command \in Commands
         /\ call[a].pc = "save" =>
              call[a] = [pc |-> "save", command |-> call[a].command, copy |-> call[a].copy]
         /\ call[a].pc \in {"mail", "link"} =>
              call[a].mail \in Mail /\ call[a] = [pc |-> call[a].pc, mail |-> call[a].mail]
<1>1. call[a] \in CallState
  BY DEF TypeOK
<1>2. CASE call[a] = IdleCall
  BY <1>2 DEF IdleCall
<1>3. CASE call[a] \in [pc: {"commit"}, command: Commands]
  BY <1>3
<1>4. CASE call[a] \in [pc: {"save"}, command: Commands, copy: Team]
  BY <1>4
<1>5. CASE call[a] \in [pc: {"mail", "link"}, mail: Mail]
  BY <1>5
<1> QED BY <1>1, <1>2, <1>3, <1>4, <1>5 DEF CallState, Mail

\* One call changes.
LEMMA CallChanges ==
  ASSUME TypeOK, NEW a \in Actors, NEW state \in CallState, call' = [call EXCEPT ![a] = state]
  PROVE  /\ call' \in [Actors -> CallState] /\ call'[a] = state
         /\ \A x \in Actors : x # a => call'[x] = call[x]
BY DEF TypeOK

\* What a call may be once it has checked its command.
LEMMA GoesOnCases ==
  ASSUME NEW b, NEW a \in Actors, NEW c \in Commands
  PROVE  /\ GoesOn(b, a, c) \in CallState
         /\ GoesOn(b, a, c).pc \in {"idle", "commit"}
         /\ GoesOn(b, a, c).pc = "commit" => GoesOn(b, a, c).command = c /\ Checked(b, a, c)
<1>1. CASE Checked(b, a, c)
  <2>1. GoesOn(b, a, c) = [pc |-> "commit", command |-> c]
    BY <1>1 DEF GoesOn
  <2> QED BY <1>1, <2>1 DEF CallState
<1>2. CASE ~ Checked(b, a, c)
  <2>1. GoesOn(b, a, c) = IdleCall
    BY <1>2 DEF GoesOn
  <2>2. IdleCall.pc = "idle" /\ IdleCall \in CallState
    BY DEF IdleCall, CallState
  <2> QED BY <2>1, <2>2
<1> QED BY <1>1, <1>2

\* A worker whose report passes the check owns the task in the copy checked,
\* and so was assigned it before.
LEMMA CheckedOwned ==
  ASSUME NEW b, Sound(b), NEW a \in Workers, NEW c, Checked(b, a, c), c.action = "report"
  PROVE  OnceOwned(b.log, Len(b.log), a, c.task)
<1> DEFINE t == c.task
           n == Len(b.log)
<1>0. b \in Team /\ TasksTold(b) /\ OwnersAreAssigned(b)
  BY DEF Sound
<1>1. t \in DOMAIN b.tasks /\ b.tasks[t].owner = a /\ a # Nobody
  BY NamesDiffer DEF Checked
<1>2. n \in Nat /\ DOMAIN b.log = 1 .. n
  BY <1>0, TeamParts
<1>3. a = OwnerTold(b.log, n, t) /\ CreatedBy(b.log, n, t)
  BY <1>0, <1>1 DEF TasksTold, Told
<1> HIDE DEF t, n
<1>4. About(b.log, n, t, OwnerTypes) # {}
  BY <1>3 DEF CreatedBy, About, OwnerTypes
<1>5. PICK i \in About(b.log, n, t, OwnerTypes) : LastEvent(b.log, n, t, OwnerTypes) = b.log[i]
  BY <1>2, <1>4, LastIs
<1>6. i \in 1 .. n /\ b.log[i].task = t /\ b.log[i].type \in OwnerTypes
  BY DEF About
<1>7. b.log[i].owner = a
  BY <1>3, <1>5 DEF OwnerTold, OwnerTypes
<1>8. b.log[i].type = "assigned"
  BY <1>0, <1>1, <1>2, <1>6, <1>7 DEF OwnersAreAssigned, OwnerTypes
<1> QED BY <1>6, <1>7, <1>8 DEF OnceOwned, t, n

LEMMA OwnedKept ==
  ASSUME NEW b \in Team, NEW b2 \in Team, Grows(b, b2), NEW a, NEW t,
         OnceOwned(b.log, Len(b.log), a, t)
  PROVE  OnceOwned(b2.log, Len(b2.log), a, t)
<1>1. PICK j \in 1 .. Len(b.log) :
        b.log[j].task = t /\ b.log[j].type = "assigned" /\ b.log[j].owner = a
  BY DEF OnceOwned
<1>2. Len(b.log) \in Nat /\ Len(b2.log) \in Nat
  BY TeamParts
<1>3. j \in 1 .. Len(b2.log) /\ b2.log[j] = b.log[j]
  BY <1>2 DEF Grows, Agree
<1> QED BY <1>1, <1>3 DEF OnceOwned

LEMMA QuietSame ==
  ASSUME NEW b \in Team
  PROVE  Quiet(b, b)
<1>1. Len(b.log) \in Nat
  BY TeamParts
<1> QED BY <1>1 DEF Quiet, Grows, Agree, SameReports

LEMMA SameBoardParts ==
  ASSUME NEW b1 \in Team, NEW b2 \in Team, SameBoard(b1, b2)
  PROVE  b1.tasks = b2.tasks /\ b1.reports = b2.reports /\ b1.log = b2.log
<1>1. /\ b1 = [members |-> b1.members, panes |-> b1.panes, tasks |-> b1.tasks,
               reports |-> b1.reports, log |-> b1.log]
      /\ b2 = [members |-> b2.members, panes |-> b2.panes, tasks |-> b2.tasks,
               reports |-> b2.reports, log |-> b2.log]
  BY DEF Team
<1>2. /\ [b1 EXCEPT !.panes = 0].tasks = b1.tasks /\ [b2 EXCEPT !.panes = 0].tasks = b2.tasks
      /\ [b1 EXCEPT !.panes = 0].reports = b1.reports /\ [b2 EXCEPT !.panes = 0].reports = b2.reports
      /\ [b1 EXCEPT !.panes = 0].log = b1.log /\ [b2 EXCEPT !.panes = 0].log = b2.log
  BY <1>1
<1> QED BY <1>2 DEF SameBoard

-----------------------------------------------------------------------------
(***************************************************************************)
(* What keeps the parts of the invariant.                                  *)
(***************************************************************************)

\* Nothing was lost in this step, nor before.
Lossless == ~overwritten' => ~overwritten /\ Quiet(team, team')

LEMMA CopiesKept ==
  ASSUME IInv, \A a \in Actors : call'[a].pc = "save" => call'[a] = call[a] \/ Sound(call'[a].copy)
  PROVE  CopiesAreSound'
BY DEF IInv, CopiesAreSound

LEMMA CommitsKept ==
  ASSUME IInv,
         \A a \in Actors :
           call'[a].pc = "commit" => call'[a] = call[a] \/ call'[a].command.action # "look"
  PROVE  CommitsChange'
BY DEF IInv, CommitsChange

LEMMA ReportersKept ==
  ASSUME IInv, Sound(team'), ~overwritten' => ~overwritten /\ Grows(team, team'),
         \A a \in Workers :
           ~overwritten' /\ call'[a].pc = "commit" /\ call'[a].command.action = "report" =>
             call'[a] = call[a] \/ OnceOwned(team'.log, Len(team'.log), a, call'[a].command.task)
  PROVE  ReportersOwned'
<1> SUFFICES ASSUME ~overwritten', NEW a \in Workers,
                    call'[a].pc = "commit", call'[a].command.action = "report"
             PROVE  OnceOwned(team'.log, Len(team'.log), a, call'[a].command.task)
  BY DEF ReportersOwned
<1>1. CASE call'[a] = call[a]
  <2>1. OnceOwned(team.log, Len(team.log), a, call[a].command.task)
    BY <1>1 DEF IInv, ReportersOwned
  <2>2. team \in Team /\ team' \in Team /\ Grows(team, team')
    BY DEF IInv, Sound
  <2>3. OnceOwned(team'.log, Len(team'.log), a, call[a].command.task)
    BY <2>1, <2>2, OwnedKept
  <2> QED BY <1>1, <2>3
<1> QED BY <1>1

LEMMA OnceOwnedKept ==
  ASSUME IInv, Sound(team'), Lossless
  PROVE  ReporterOnceOwned'
<1> SUFFICES ASSUME ~overwritten', NEW i \in DOMAIN team'.log,
                    team'.log[i].type = "report_submitted"
             PROVE  LET r == team'.reports[team'.log[i].report] IN
                    r.author = Leader \/ \E j \in 1 .. i : /\ team'.log[j].task = r.task
                                                           /\ team'.log[j].type = "assigned"
                                                           /\ team'.log[j].owner = r.author
  BY DEF ReporterOnceOwned
<1>1. Quiet(team, team') /\ ~overwritten /\ team \in Team /\ team' \in Team /\ ReportsTold(team)
  BY DEF Lossless, IInv, Sound
<1>2. /\ Len(team.log) \in Nat /\ Len(team'.log) \in Nat
      /\ DOMAIN team.log = 1 .. Len(team.log) /\ DOMAIN team'.log = 1 .. Len(team'.log)
  BY <1>1, TeamParts
<1>3. i \in 1 .. Len(team.log)
  BY <1>1, <1>2 DEF Quiet
<1>4. \A j \in 1 .. i : team'.log[j] = team.log[j] /\ team'.log[i] = team.log[i]
  BY <1>1, <1>2, <1>3 DEF Quiet, Grows, Agree
<1> DEFINE q == team.log[i].report
<1>5. q \in DOMAIN team.reports /\ team'.log[i] = team.log[i]
  BY <1>1, <1>2, <1>3, <1>4 DEF ReportsTold
<1>6. /\ team'.reports[q].author = team.reports[q].author
      /\ team'.reports[q].task = team.reports[q].task
  BY <1>1, <1>5 DEF Quiet, SameReports
<1>7. \/ team.reports[q].author = Leader
      \/ \E j \in 1 .. i : /\ team.log[j].task = team.reports[q].task
                           /\ team.log[j].type = "assigned"
                           /\ team.log[j].owner = team.reports[q].author
  BY <1>1, <1>2, <1>3, <1>5 DEF IInv, ReporterOnceOwned
<1> QED BY <1>4, <1>5, <1>6, <1>7

\* Reports stay what they are, but for their mail.
ReportsStay(b, b2) ==
  \A r \in DOMAIN b.reports :
    /\ r \in DOMAIN b2.reports
    /\ b2.reports[r].task = b.reports[r].task /\ b2.reports[r].author = b.reports[r].author

LEMMA MailsKept ==
  ASSUME IInv, ~overwritten' => ~overwritten /\ ReportsStay(team, team'), mails \subseteq mails',
         \A a \in Actors : call'[a].pc \in {"mail", "link"} => call'[a] = call[a]
  PROVE  MailsOnTheWay'
<1> SUFFICES ASSUME ~overwritten', NEW a \in Actors, call'[a].pc \in {"mail", "link"}
             PROVE  /\ call'[a].mail.report \in DOMAIN team'.reports
                    /\ team'.reports[call'[a].mail.report].task = call'[a].mail.task
                    /\ team'.reports[call'[a].mail.report].author = call'[a].mail.author
                    /\ call'[a].pc = "link" => call'[a].mail \in mails'
  BY DEF MailsOnTheWay
<1>1. call'[a] = call[a]
  OBVIOUS
<1>2. /\ call[a].mail.report \in DOMAIN team.reports
      /\ team.reports[call[a].mail.report].task = call[a].mail.task
      /\ team.reports[call[a].mail.report].author = call[a].mail.author
      /\ call[a].pc = "link" => call[a].mail \in mails
  BY <1>1 DEF IInv, MailsOnTheWay
<1>3. ReportsStay(team, team')
  OBVIOUS
<1> QED BY <1>1, <1>2, <1>3 DEF ReportsStay

LEMMA MailNamesKept ==
  ASSUME IInv, ~overwritten' => ~overwritten /\ ReportsStay(team, team'), mails' = mails,
         ~overwritten' =>
           \A r \in DOMAIN team'.reports :
             \/ team'.reports[r].mail = NoMail
             \/ r \in DOMAIN team.reports /\ team'.reports[r].mail = team.reports[r].mail
             \/ team'.reports[r].mail \in mails /\ team'.reports[r].mail.report = r
  PROVE  MailNamesItsReport'
<1> SUFFICES ASSUME ~overwritten'
             PROVE  /\ \A m \in mails : /\ m.report \in DOMAIN team'.reports
                                        /\ team'.reports[m.report].task = m.task
                                        /\ team'.reports[m.report].author = m.author
                    /\ \A r \in DOMAIN team'.reports :
                         team'.reports[r].mail # NoMail =>
                           team'.reports[r].mail \in mails /\ team'.reports[r].mail.report = r
  BY DEF MailNamesItsReport
<1>1. /\ \A m \in mails : /\ m.report \in DOMAIN team.reports
                          /\ team.reports[m.report].task = m.task
                          /\ team.reports[m.report].author = m.author
      /\ \A r \in DOMAIN team.reports :
           team.reports[r].mail # NoMail =>
             team.reports[r].mail \in mails /\ team.reports[r].mail.report = r
  BY DEF IInv, MailNamesItsReport
<1>2. ReportsStay(team, team')
  OBVIOUS
<1>3. ASSUME NEW m \in mails
      PROVE  /\ m.report \in DOMAIN team'.reports
             /\ team'.reports[m.report].task = m.task
             /\ team'.reports[m.report].author = m.author
  BY <1>1, <1>2 DEF ReportsStay
<1>4. ASSUME NEW r \in DOMAIN team'.reports, team'.reports[r].mail # NoMail
      PROVE  team'.reports[r].mail \in mails /\ team'.reports[r].mail.report = r
  BY <1>1, <1>4
<1> QED BY <1>3, <1>4

-----------------------------------------------------------------------------
(***************************************************************************)
(* Every action keeps the invariant.                                       *)
(***************************************************************************)

LEMMA InitIInv == Init => IInv
<1> SUFFICES ASSUME Init PROVE IInv
  OBVIOUS
<1>1. /\ team.members = Actors /\ team.panes = 0 /\ team.tasks = <<>>
      /\ team.reports = <<>> /\ team.log = <<>> /\ team \in Team
  BY EmptySeq DEF Init, Team
<1>2. DOMAIN team.tasks = {} /\ DOMAIN team.reports = {} /\ DOMAIN team.log = {}
  BY <1>1
<1>3. IdleCall \in CallState /\ IdleCall.pc = "idle"
  BY DEF IdleCall, CallState
<1>4. TypeOK
  BY <1>1, <1>3, RunningType DEF Init, TypeOK, Actors
<1>5. Sound(team)
  BY <1>1, <1>2 DEF Sound, TasksTold, OwnersAreAssigned, ReportsTold
<1>6. \A a \in Actors : call[a].pc = "idle"
  BY <1>3 DEF Init
<1>7. CopiesAreSound /\ CommitsChange /\ ReportersOwned /\ MailsOnTheWay
  BY <1>6 DEF CopiesAreSound, CommitsChange, ReportersOwned, MailsOnTheWay, Actors
<1>8. ReporterOnceOwned /\ MailNamesItsReport
  BY <1>2 DEF Init, ReporterOnceOwned, MailNamesItsReport
<1> QED BY <1>4, <1>5, <1>7, <1>8 DEF IInv

\* The board as it was: only calls changed, none of them to one with mail.
LEMMA TeamSame ==
  ASSUME IInv, team' = team, overwritten' = overwritten
  PROVE  /\ Sound(team') /\ Lossless
         /\ ~overwritten' => ~overwritten /\ Grows(team, team')
         /\ ~overwritten' => ~overwritten /\ ReportsStay(team, team')
         /\ ReporterOnceOwned'
<1>1. team \in Team /\ Sound(team)
  BY DEF IInv, Sound
<1>2. Quiet(team, team)
  BY <1>1, QuietSame
<1>3. Lossless /\ Grows(team, team') /\ Sound(team')
  BY <1>1, <1>2 DEF Lossless, Quiet
<1>4. ReporterOnceOwned'
  BY <1>3, OnceOwnedKept
<1> QED BY <1>3, <1>4 DEF ReportsStay

LEMMA BeginKeeps ==
  ASSUME IInv, NEW actor \in Actors, NEW c \in Commands, Begin(actor, c)
  PROVE  IInv'
<1>1. /\ team' = team /\ overwritten' = overwritten /\ mails' = mails
      /\ tmux' = tmux /\ sessions' = sessions /\ leaving' = leaving
  BY DEF Begin, outside
<1>2. TypeOK /\ Sound(team) /\ team \in Team /\ tmux \in Nat
  BY DEF IInv, TypeOK
<1> DEFINE copy == [team EXCEPT !.panes = tmux]
           save == [pc |-> "save", command |-> c, copy |-> copy]
           state == IF team.panes # tmux THEN save ELSE GoesOn(team, actor, c)
<1>3. Sound(copy) /\ copy \in Team
  BY <1>2, SoundPanes DEF Sound
<1> HIDE DEF copy
<1>4. save \in CallState /\ save.pc = "save" /\ save.copy = copy
  BY <1>3 DEF CallState
<1> HIDE DEF save
<1>5. /\ GoesOn(team, actor, c) \in CallState
      /\ GoesOn(team, actor, c).pc \in {"idle", "commit"}
      /\ GoesOn(team, actor, c).pc = "commit" =>
           GoesOn(team, actor, c).command = c /\ Checked(team, actor, c)
  BY GoesOnCases
<1>6. /\ state \in CallState
      /\ state.pc \in {"save", "idle", "commit"}
      /\ state.pc = "save" => state.copy = copy
      /\ state.pc = "commit" => state.command = c /\ Checked(team, actor, c)
  BY <1>4, <1>5
<1>7. call' = [call EXCEPT ![actor] = state]
  BY DEF Begin, save, copy
<1> HIDE DEF state
<1>8. /\ call' \in [Actors -> CallState] /\ call'[actor] = state
      /\ \A x \in Actors : x # actor => call'[x] = call[x]
  BY <1>2, <1>6, <1>7, CallChanges
<1>9. TypeOK'
  BY <1>1, <1>2, <1>8 DEF TypeOK
<1>10. CopiesAreSound'
  <2>1. \A a \in Actors : call'[a].pc = "save" => call'[a] = call[a] \/ Sound(call'[a].copy)
    BY <1>3, <1>6, <1>8
  <2> QED BY <2>1, CopiesKept
<1>11. CommitsChange'
  <2>1. \A a \in Actors :
          call'[a].pc = "commit" => call'[a] = call[a] \/ call'[a].command.action # "look"
    BY <1>6, <1>8 DEF Checked
  <2> QED BY <2>1, CommitsKept
<1>12. ReportersOwned'
  <2>1. ASSUME NEW a \in Workers, call'[a].pc = "commit", call'[a].command.action = "report"
        PROVE  call'[a] = call[a] \/ OnceOwned(team'.log, Len(team'.log), a, call'[a].command.task)
    <3>1. CASE a # actor
      BY <1>8, <3>1 DEF Actors
    <3>2. CASE a = actor
      <4>1. Checked(team, a, c) /\ c.action = "report" /\ call'[a].command = c
        BY <1>6, <1>8, <2>1, <3>2
      <4>2. OnceOwned(team.log, Len(team.log), a, c.task)
        BY <1>2, <4>1, CheckedOwned
      <4> QED BY <1>1, <4>1, <4>2
    <3> QED BY <3>1, <3>2
  <2> QED BY <1>1, <2>1, TeamSame, ReportersKept
<1>13. MailsOnTheWay'
  <2>1. \A a \in Actors : call'[a].pc \in {"mail", "link"} => call'[a] = call[a]
    BY <1>6, <1>8
  <2> QED BY <1>1, <2>1, TeamSame, MailsKept
<1>14. MailNamesItsReport'
  BY <1>1 DEF IInv, MailNamesItsReport
<1> QED BY <1>1, <1>9, <1>10, <1>11, <1>12, <1>13, <1>14, TeamSame DEF IInv

\* What a save loses shows in overwritten; if it loses nothing, the board is
\* the same.
LEMMA SaveKeeps ==
  ASSUME IInv, NEW actor \in Actors, Save(actor)
  PROVE  IInv'
<1> DEFINE copy == call[actor].copy
           c == call[actor].command
           state == GoesOn(copy, actor, c)
<1>1. /\ call[actor].pc = "save" /\ team' = copy /\ mails' = mails
      /\ tmux' = tmux /\ sessions' = sessions /\ leaving' = leaving
      /\ overwritten' = (overwritten \/ ~SameBoard(team, copy))
      /\ call' = [call EXCEPT ![actor] = state]
  BY DEF Save, outside
<1>2. TypeOK /\ Sound(team) /\ team \in Team
  BY DEF IInv, TypeOK
<1>3. Sound(copy) /\ copy \in Team
  BY <1>1 DEF IInv, CopiesAreSound, Sound
<1>4. c \in Commands
  BY <1>1, <1>2, CallFields
<1> HIDE DEF copy, c
<1>5. /\ state \in CallState /\ state.pc \in {"idle", "commit"}
      /\ state.pc = "commit" => state.command = c /\ Checked(copy, actor, c)
  BY <1>4, GoesOnCases
<1> HIDE DEF state
<1>6. /\ call' \in [Actors -> CallState] /\ call'[actor] = state
      /\ \A x \in Actors : x # actor => call'[x] = call[x]
  BY <1>1, <1>2, <1>5, CallChanges
<1>7. TypeOK'
  <2>1. overwritten' \in BOOLEAN
    BY <1>1
  <2> QED BY <1>1, <1>2, <1>3, <1>6, <2>1 DEF TypeOK
<1>8. Sound(team')
  BY <1>1, <1>3
<1>9. ASSUME ~overwritten'
      PROVE  /\ ~overwritten /\ Quiet(team, team') /\ Grows(team, team')
             /\ ReportsStay(team, team') /\ team'.reports = team.reports
  <2>1. ~overwritten /\ SameBoard(team, copy)
    BY <1>1, <1>9
  <2>2. team'.tasks = team.tasks /\ team'.reports = team.reports /\ team'.log = team.log
    BY <1>1, <1>2, <1>3, <2>1, SameBoardParts
  <2>3. Quiet(team, team)
    BY <1>2, QuietSame
  <2>4. Quiet(team, team') /\ Grows(team, team')
    BY <2>2, <2>3 DEF Quiet, Grows, SameReports
  <2> QED BY <2>1, <2>2, <2>4 DEF ReportsStay
<1>10. CopiesAreSound'
  <2>1. \A a \in Actors : call'[a].pc = "save" => call'[a] = call[a] \/ Sound(call'[a].copy)
    BY <1>5, <1>6
  <2> QED BY <2>1, CopiesKept
<1>11. CommitsChange'
  <2>1. \A a \in Actors :
          call'[a].pc = "commit" => call'[a] = call[a] \/ call'[a].command.action # "look"
    BY <1>5, <1>6 DEF Checked
  <2> QED BY <2>1, CommitsKept
<1>12. ReportersOwned'
  <2>1. ASSUME NEW a \in Workers, call'[a].pc = "commit", call'[a].command.action = "report"
        PROVE  call'[a] = call[a] \/ OnceOwned(team'.log, Len(team'.log), a, call'[a].command.task)
    <3>1. CASE a # actor
      BY <1>6, <3>1 DEF Actors
    <3>2. CASE a = actor
      <4>1. Checked(copy, a, c) /\ c.action = "report" /\ call'[a].command = c
        BY <1>5, <1>6, <2>1, <3>2
      <4>2. OnceOwned(copy.log, Len(copy.log), a, c.task)
        BY <1>3, <4>1, CheckedOwned
      <4> QED BY <1>1, <4>1, <4>2
    <3> QED BY <3>1, <3>2
  <2> QED BY <1>8, <1>9, <2>1, ReportersKept
<1>13. ReporterOnceOwned'
  <2>1. Lossless
    BY <1>9 DEF Lossless
  <2> QED BY <1>8, <2>1, OnceOwnedKept
<1>14. MailsOnTheWay'
  <2>1. \A a \in Actors : call'[a].pc \in {"mail", "link"} => call'[a] = call[a]
    BY <1>5, <1>6
  <2>2. mails \subseteq mails'
    BY <1>1
  <2> QED BY <1>9, <2>1, <2>2, MailsKept
<1>15. MailNamesItsReport'
  <2>1. ~overwritten' =>
          \A r \in DOMAIN team'.reports :
            \/ team'.reports[r].mail = NoMail
            \/ r \in DOMAIN team.reports /\ team'.reports[r].mail = team.reports[r].mail
            \/ team'.reports[r].mail \in mails /\ team'.reports[r].mail.report = r
    BY <1>9
  <2> QED BY <1>1, <1>9, <2>1, MailNamesKept
<1> QED BY <1>7, <1>8, <1>10, <1>11, <1>12, <1>13, <1>14, <1>15 DEF IInv

\* The locked update of a command that submits no report, or of a removal, or
\* of a report's mail; only calls that end or that stay change with it.
LEMMA QuietUpdateKeeps ==
  ASSUME IInv, Sound(team'), Quiet(team, team'),
         \/ team'.reports = team.reports
         \/ \A r \in DOMAIN team'.reports :
              \/ r \in DOMAIN team.reports /\ team'.reports[r].mail = team.reports[r].mail
              \/ team'.reports[r].mail \in mails /\ team'.reports[r].mail.report = r,
         overwritten' = overwritten, mails' = mails, tmux' = tmux, sessions' = sessions,
         leaving' \subseteq Workers, call' \in [Actors -> CallState],
         \A a \in Actors : call'[a] = call[a] \/ call'[a] = IdleCall
  PROVE  IInv'
<1>1. TypeOK /\ team \in Team /\ team' \in Team
  BY DEF IInv, Sound
<1>2. TypeOK'
  <2>1. overwritten' \in BOOLEAN
    BY <1>1 DEF TypeOK
  <2> QED BY <1>1, <2>1 DEF TypeOK
<1>3. /\ Lossless /\ (~overwritten' => ~overwritten /\ Grows(team, team'))
      /\ ~overwritten' => ~overwritten /\ ReportsStay(team, team')
  <2>1. ReportsStay(team, team')
    BY DEF Quiet, SameReports, ReportsStay
  <2>2. ~overwritten' => ~overwritten
    OBVIOUS
  <2> QED BY <2>1, <2>2 DEF Lossless, Quiet
<1>4. \A a \in Actors : call'[a].pc # "idle" => call'[a] = call[a]
  BY DEF IdleCall
<1>5. CopiesAreSound'
  BY <1>4, CopiesKept
<1>6. CommitsChange'
  BY <1>4, CommitsKept
<1>7. ReportersOwned'
  <2>1. \A a \in Workers :
          ~overwritten' /\ call'[a].pc = "commit" /\ call'[a].command.action = "report" =>
            call'[a] = call[a] \/ OnceOwned(team'.log, Len(team'.log), a, call'[a].command.task)
    BY <1>4 DEF Actors
  <2> QED BY <1>3, <2>1, ReportersKept
<1>8. ReporterOnceOwned'
  BY <1>3, OnceOwnedKept
<1>9. MailsOnTheWay'
  <2>1. \A a \in Actors : call'[a].pc \in {"mail", "link"} => call'[a] = call[a]
    BY <1>4
  <2>2. mails \subseteq mails'
    OBVIOUS
  <2> QED BY <1>3, <2>1, <2>2, MailsKept
<1>10. MailNamesItsReport'
  <2>1. \A r \in DOMAIN team'.reports :
          \/ team'.reports[r].mail = NoMail
          \/ r \in DOMAIN team.reports /\ team'.reports[r].mail = team.reports[r].mail
          \/ team'.reports[r].mail \in mails /\ team'.reports[r].mail.report = r
    OBVIOUS
  <2> QED BY <1>3, <2>1, MailNamesKept
<1> QED BY <1>2, <1>5, <1>6, <1>7, <1>8, <1>9, <1>10 DEF IInv

\* A worker's report: it once owned the task, and its mail will name it.
LEMMA SubmitKeeps ==
  ASSUME IInv, NEW actor \in Actors, NEW c \in Commands,
         call[actor].pc = "commit", call[actor].command = c, c.action = "report",
         Sound(team'), Submits(team, team', actor, c.task),
         NEW state \in CallState, call' = [call EXCEPT ![actor] = state],
         \/ state = IdleCall
         \/ /\ state.pc = "mail"
            /\ state.mail = [report |-> Len(team'.reports), task |-> c.task, author |-> actor],
         overwritten' = overwritten, mails' = mails, tmux' = tmux, sessions' = sessions,
         leaving' = leaving
  PROVE  IInv'
<1> DEFINE r == Len(team.reports) + 1
           n == Len(team.log) + 1
<1>1. TypeOK /\ team \in Team /\ team' \in Team /\ ReportsTold(team)
  BY DEF IInv, Sound
<1>2. /\ Len(team.reports) \in Nat /\ Len(team.log) \in Nat /\ DOMAIN team.log = 1 .. Len(team.log)
      /\ DOMAIN team.reports = 1 .. Len(team.reports)
      /\ DOMAIN team'.reports = 1 .. Len(team'.reports) /\ Len(team'.reports) \in Nat
      /\ DOMAIN team'.log = 1 .. Len(team'.log)
  BY <1>1, TeamParts
<1>3. /\ Grows(team, team') /\ Len(team'.log) = n
      /\ team'.log[n].type = "report_submitted" /\ team'.log[n].report = r
      /\ DOMAIN team'.reports = 1 .. r
      /\ team'.reports[r].task = c.task /\ team'.reports[r].author = actor
      /\ team'.reports[r].mail = NoMail
      /\ \A q \in DOMAIN team.reports : team'.reports[q] = team.reports[q]
  BY DEF Submits
<1>4. r \in Nat /\ r \in DOMAIN team'.reports /\ Len(team'.reports) = r
  <2>1. r \in 1 .. r /\ r \in Nat
    BY <1>2
  <2>2. 1 .. Len(team'.reports) = 1 .. r
    BY <1>2, <1>3
  <2> HIDE DEF r
  <2> QED BY <1>2, <1>3, <2>1, <2>2
<1>5. ReportsStay(team, team')
  <2>1. \A q \in 1 .. Len(team.reports) : q \in 1 .. r
    BY <1>2
  <2> HIDE DEF r
  <2> QED BY <1>2, <1>3, <2>1 DEF ReportsStay
<1>6. /\ call' \in [Actors -> CallState] /\ call'[actor] = state
      /\ \A x \in Actors : x # actor => call'[x] = call[x]
  BY <1>1, CallChanges
<1>7. state.pc \in {"idle", "mail"}
  BY DEF IdleCall
<1>8. TypeOK'
  <2>1. overwritten' \in BOOLEAN
    BY <1>1 DEF TypeOK
  <2> QED BY <1>1, <1>6, <2>1 DEF TypeOK
<1>9. CopiesAreSound'
  BY <1>6, <1>7, CopiesKept
<1>10. CommitsChange'
  BY <1>6, <1>7, CommitsKept
<1>11. ReportersOwned'
  <2>1. \A a \in Workers :
          ~overwritten' /\ call'[a].pc = "commit" /\ call'[a].command.action = "report" =>
            call'[a] = call[a] \/ OnceOwned(team'.log, Len(team'.log), a, call'[a].command.task)
    BY <1>6, <1>7 DEF Actors
  <2>2. ~overwritten' => ~overwritten /\ Grows(team, team')
    BY <1>3
  <2> QED BY <2>1, <2>2, ReportersKept
<1>12. ReporterOnceOwned'
  <2> SUFFICES ASSUME ~overwritten', NEW i \in DOMAIN team'.log,
                      team'.log[i].type = "report_submitted"
               PROVE  LET p == team'.reports[team'.log[i].report] IN
                      p.author = Leader \/ \E j \in 1 .. i : /\ team'.log[j].task = p.task
                                                             /\ team'.log[j].type = "assigned"
                                                             /\ team'.log[j].owner = p.author
    BY DEF ReporterOnceOwned
  <2>0. ~overwritten
    OBVIOUS
  <2>1. \A j \in 1 .. Len(team.log) : team'.log[j] = team.log[j]
    BY <1>3 DEF Grows, Agree
  <2>2. CASE i = n
    <3>1. CASE actor = Leader
      BY <1>3, <2>2, <3>1
    <3>2. CASE actor # Leader
      <4>1. actor \in Workers
        BY <3>2 DEF Actors
      <4>2. OnceOwned(team.log, Len(team.log), actor, c.task)
        BY <2>0, <4>1 DEF IInv, ReportersOwned
      <4>3. PICK j \in 1 .. Len(team.log) : /\ team.log[j].task = c.task
                                            /\ team.log[j].type = "assigned"
                                            /\ team.log[j].owner = actor
        BY <4>2 DEF OnceOwned
      <4>4. j \in 1 .. n /\ team'.log[j] = team.log[j]
        BY <1>2, <2>1
      <4> HIDE DEF n, r
      <4> QED BY <1>3, <2>2, <4>3, <4>4
    <3> QED BY <3>1, <3>2
  <2>3. CASE i # n
    <3>1. i \in DOMAIN team.log /\ i \in 1 .. Len(team.log)
      BY <1>2, <1>3, <2>3
    <3>2. /\ team'.log[i] = team.log[i] /\ \A j \in 1 .. i : team'.log[j] = team.log[j]
      BY <1>2, <2>1, <3>1
    <3> DEFINE q == team.log[i].report
    <3>3. q \in DOMAIN team.reports /\ team'.reports[q] = team.reports[q]
      BY <1>1, <1>3, <3>1, <3>2 DEF ReportsTold
    <3>4. \/ team.reports[q].author = Leader
          \/ \E j \in 1 .. i : /\ team.log[j].task = team.reports[q].task
                               /\ team.log[j].type = "assigned"
                               /\ team.log[j].owner = team.reports[q].author
      BY <2>0, <3>1, <3>2 DEF IInv, ReporterOnceOwned
    <3> QED BY <3>2, <3>3, <3>4
  <2> QED BY <2>2, <2>3
<1>13. MailsOnTheWay'
  <2> SUFFICES ASSUME ~overwritten', NEW a \in Actors, call'[a].pc \in {"mail", "link"}
               PROVE  /\ call'[a].mail.report \in DOMAIN team'.reports
                      /\ team'.reports[call'[a].mail.report].task = call'[a].mail.task
                      /\ team'.reports[call'[a].mail.report].author = call'[a].mail.author
                      /\ call'[a].pc = "link" => call'[a].mail \in mails'
    BY DEF MailsOnTheWay
  <2>1. CASE a = actor
    <3>1. state.pc = "mail" /\ call'[a] = state
          /\ state.mail = [report |-> Len(team'.reports), task |-> c.task, author |-> actor]
      BY <1>6, <2>1 DEF IdleCall
    <3>2. state.mail.report = r /\ state.mail.task = c.task /\ state.mail.author = actor
      BY <1>4, <3>1
    <3> HIDE DEF r
    <3> QED BY <1>3, <1>4, <3>1, <3>2
  <2>2. CASE a # actor
    <3>1. call'[a] = call[a] /\ ~overwritten
      BY <1>6, <2>2
    <3>2. /\ call[a].mail.report \in DOMAIN team.reports
          /\ team.reports[call[a].mail.report].task = call[a].mail.task
          /\ team.reports[call[a].mail.report].author = call[a].mail.author
          /\ call[a].pc = "link" => call[a].mail \in mails
      BY <3>1 DEF IInv, MailsOnTheWay
    <3> QED BY <1>5, <3>1, <3>2 DEF ReportsStay
  <2> QED BY <2>1, <2>2
<1>14. MailNamesItsReport'
  <2>1. ASSUME NEW q \in DOMAIN team'.reports
        PROVE  \/ team'.reports[q].mail = NoMail
               \/ q \in DOMAIN team.reports /\ team'.reports[q].mail = team.reports[q].mail
    <3>1. CASE q = r
      BY <1>3, <3>1
    <3>2. CASE q # r
      <4>1. q \in DOMAIN team.reports
        BY <1>2, <1>3, <3>2
      <4> QED BY <1>3, <4>1
    <3> QED BY <3>1, <3>2
  <2> HIDE DEF r, n
  <2>2. ~overwritten' => ~overwritten /\ ReportsStay(team, team')
    BY <1>5
  <2> QED BY <2>1, <2>2, MailNamesKept
<1> QED BY <1>8, <1>9, <1>10, <1>11, <1>12, <1>13, <1>14 DEF IInv

LEMMA CommitKeeps ==
  ASSUME IInv, NEW actor \in Actors, Commit(actor)
  PROVE  IInv'
<1> DEFINE c == call[actor].command
           state == IF c.action = "report" /\ actor # Leader
                      THEN [pc |-> "mail", mail |-> [report |-> Len(team'.reports),
                                                     task |-> c.task, author |-> actor]]
                      ELSE IdleCall
<1>1. /\ call[actor].pc = "commit" /\ mails' = mails /\ overwritten' = overwritten
      /\ tmux' = tmux /\ sessions' = sessions /\ leaving' = leaving
  BY DEF Commit, outside
<1>2. TypeOK /\ Sound(team) /\ team \in Team /\ leaving \subseteq Workers
  BY DEF IInv, TypeOK
<1>3. c \in Commands /\ c.action # "look"
  BY <1>1, <1>2, CallFields DEF IInv, CommitsChange
<1>4. IdleCall \in CallState
  BY DEF CallState
<1>5. CASE ~ Accepted(team, c)
  <2>1. team' = team /\ call' = [call EXCEPT ![actor] = IdleCall]
    BY <1>5 DEF Commit
  <2>2. Quiet(team, team') /\ Sound(team')
    BY <1>2, <2>1, QuietSame
  <2>3. /\ call' \in [Actors -> CallState]
        /\ \A a \in Actors : call'[a] = call[a] \/ call'[a] = IdleCall
    BY <1>2, <1>4, <2>1, CallChanges
  <2> HIDE DEF c
  <2> QED BY <1>1, <1>2, <2>1, <2>2, <2>3, QuietUpdateKeeps
<1>6. CASE Accepted(team, c)
  <2>1. team' = Committed(team, actor, c) /\ call' = [call EXCEPT ![actor] = state]
    BY <1>6 DEF Commit
  <2>2. /\ Sound(team')
        /\ c.action # "report" => Quiet(team, team') /\ team'.reports = team.reports
        /\ c.action = "report" => Submits(team, team', actor, c.task)
    <3> HIDE DEF c
    <3> QED BY <1>2, <1>3, <1>6, <2>1, Commits
  <2>3. CASE c.action # "report"
    <3>1. state = IdleCall
      BY <2>3
    <3>2. /\ call' \in [Actors -> CallState]
          /\ \A a \in Actors : call'[a] = call[a] \/ call'[a] = IdleCall
      BY <1>2, <1>4, <2>1, <3>1, CallChanges
    <3> HIDE DEF c, state
    <3> QED BY <1>1, <1>2, <2>2, <2>3, <3>2, QuietUpdateKeeps
  <2>4. CASE c.action = "report"
    <3>1. \/ state = IdleCall
          \/ /\ state.pc = "mail"
             /\ state.mail = [report |-> Len(team'.reports), task |-> c.task, author |-> actor]
      OBVIOUS
    <3>2. state \in CallState
      <4>1. CASE actor = Leader
        BY <1>4, <4>1
      <4>2. CASE actor # Leader
        <5>1. actor \in Workers /\ c.task \in TaskIds
          BY <1>3, <4>2, CommandFields DEF Actors
        <5>2. Len(team'.reports) \in TaskIds
          <6>1. team' \in Team /\ DOMAIN team'.reports = 1 .. Len(team.reports) + 1
            BY <2>2, <2>4 DEF Sound, Submits
          <6>2. /\ DOMAIN team'.reports = 1 .. Len(team'.reports) /\ Len(team'.reports) \in Nat
                /\ Len(team.reports) \in Nat
            BY <1>2, <6>1, TeamParts
          <6>3. 1 \in 1 .. Len(team'.reports)
            BY <6>1, <6>2
          <6> QED BY <6>2, <6>3 DEF TaskIds
        <5>3. [report |-> Len(team'.reports), task |-> c.task, author |-> actor] \in
                [report: TaskIds, task: TaskIds, author: Workers]
          BY <5>1, <5>2
        <5> QED BY <2>4, <4>2, <5>3 DEF CallState
      <4> QED BY <4>1, <4>2
    <3> HIDE DEF state
    <3>3. call[actor].command = c
      OBVIOUS
    <3> HIDE DEF c
    <3> QED BY <1>1, <1>2, <1>3, <2>1, <2>2, <2>4, <3>1, <3>2, <3>3, SubmitKeeps
  <2> QED BY <2>3, <2>4
<1> QED BY <1>5, <1>6

LEMMA MailReportKeeps ==
  ASSUME IInv, NEW actor \in Actors, MailReport(actor)
  PROVE  IInv'
<1> DEFINE m == call[actor].mail
<1>1. /\ call[actor].pc = "mail" /\ mails' = mails \cup {m}
      /\ team' = team /\ overwritten' = overwritten
      /\ tmux' = tmux /\ sessions' = sessions /\ leaving' = leaving
  BY DEF MailReport, outside
<1>2. TypeOK
  BY DEF IInv
<1>3. m \in Mail /\ call[actor] = [pc |-> "mail", mail |-> m]
  BY <1>1, <1>2, CallFields
<1> DEFINE linking == [pc |-> "link", mail |-> m]
<1>4. [call[actor] EXCEPT !.pc = "link"] = linking
  BY <1>3
<1>5. \E state \in {linking, IdleCall} : call' = [call EXCEPT ![actor] = state]
  BY <1>4 DEF MailReport
<1>6. PICK state \in {linking, IdleCall} : call' = [call EXCEPT ![actor] = state]
  BY <1>5
<1>7. state \in CallState
  BY <1>3 DEF CallState, Mail
<1> HIDE DEF m
<1>8. /\ call' \in [Actors -> CallState] /\ call'[actor] = state
      /\ \A x \in Actors : x # actor => call'[x] = call[x]
  BY <1>2, <1>6, <1>7, CallChanges
<1>9. state.pc \in {"idle", "link"} /\ (state.pc = "link" => state.mail = m)
  BY DEF IdleCall
<1>10. TypeOK'
  BY <1>1, <1>2, <1>3, <1>8 DEF TypeOK, Mail
<1>11. CopiesAreSound'
  BY <1>8, <1>9, CopiesKept
<1>12. CommitsChange'
  BY <1>8, <1>9, CommitsKept
<1>13. ReportersOwned'
  <2>1. \A a \in Workers :
          ~overwritten' /\ call'[a].pc = "commit" /\ call'[a].command.action = "report" =>
            call'[a] = call[a] \/ OnceOwned(team'.log, Len(team'.log), a, call'[a].command.task)
    BY <1>8, <1>9 DEF Actors
  <2> QED BY <1>1, <2>1, TeamSame, ReportersKept
<1>14. ASSUME ~overwritten'
       PROVE  /\ m.report \in DOMAIN team.reports
              /\ team.reports[m.report].task = m.task /\ team.reports[m.report].author = m.author
  BY <1>1, <1>14 DEF IInv, MailsOnTheWay, m
<1>15. MailsOnTheWay'
  <2> SUFFICES ASSUME ~overwritten', NEW a \in Actors, call'[a].pc \in {"mail", "link"}
               PROVE  /\ call'[a].mail.report \in DOMAIN team.reports
                      /\ team.reports[call'[a].mail.report].task = call'[a].mail.task
                      /\ team.reports[call'[a].mail.report].author = call'[a].mail.author
                      /\ call'[a].pc = "link" => call'[a].mail \in mails'
    BY <1>1 DEF MailsOnTheWay
  <2>1. CASE a = actor
    BY <1>1, <1>8, <1>9, <1>14, <2>1
  <2>2. CASE a # actor
    BY <1>1, <1>8, <2>2 DEF IInv, MailsOnTheWay
  <2> QED BY <2>1, <2>2
<1>16. MailNamesItsReport'
  <2> SUFFICES ASSUME ~overwritten'
               PROVE  /\ \A x \in mails' : /\ x.report \in DOMAIN team.reports
                                           /\ team.reports[x.report].task = x.task
                                           /\ team.reports[x.report].author = x.author
                      /\ \A r \in DOMAIN team.reports :
                           team.reports[r].mail # NoMail =>
                             team.reports[r].mail \in mails' /\ team.reports[r].mail.report = r
    BY <1>1 DEF MailNamesItsReport
  <2>1. /\ \A x \in mails : /\ x.report \in DOMAIN team.reports
                            /\ team.reports[x.report].task = x.task
                            /\ team.reports[x.report].author = x.author
        /\ \A r \in DOMAIN team.reports :
             team.reports[r].mail # NoMail =>
               team.reports[r].mail \in mails /\ team.reports[r].mail.report = r
    BY <1>1 DEF IInv, MailNamesItsReport
  <2> QED BY <1>1, <1>14, <2>1
<1> QED BY <1>1, <1>10, <1>11, <1>12, <1>13, <1>15, <1>16, TeamSame DEF IInv

LEMMA LinkReportKeeps ==
  ASSUME IInv, NEW actor \in Actors, LinkReport(actor)
  PROVE  IInv'
<1> DEFINE m == call[actor].mail
<1>1. /\ call[actor].pc = "link" /\ team' = Linked(team, m) /\ mails' = mails
      /\ overwritten' = overwritten /\ tmux' = tmux /\ sessions' = sessions /\ leaving' = leaving
      /\ call' = [call EXCEPT ![actor] = IdleCall]
  BY DEF LinkReport, outside
<1>2. TypeOK /\ Sound(team) /\ leaving \subseteq Workers
  BY DEF IInv, TypeOK
<1>3. m \in Mail /\ m \in [report: TaskIds, task: TaskIds, author: Actors]
  BY <1>1, <1>2, CallFields DEF Mail, Actors
<1> HIDE DEF m
<1>4. /\ Sound(team') /\ Quiet(team, team')
      /\ \A r \in DOMAIN team.reports :
           team'.reports[r].mail = IF r = m.report THEN m ELSE team.reports[r].mail
  BY <1>1, <1>2, <1>3, SoundLinked
<1>5. IdleCall \in CallState
  BY DEF CallState
<1>6. /\ call' \in [Actors -> CallState] /\ call'[actor] = IdleCall
      /\ \A x \in Actors : x # actor => call'[x] = call[x]
  BY <1>1, <1>2, <1>5, CallChanges
<1>7. \A a \in Actors : call'[a] = call[a] \/ call'[a] = IdleCall
  BY <1>6
<1>8. CASE overwritten
  \* What the reports' mails are is no part of the promise then.
  <2>1. TypeOK'
    <3>1. team' \in Team /\ overwritten' \in BOOLEAN
      BY <1>1, <1>2, <1>4 DEF Sound, TypeOK
    <3> QED BY <1>1, <1>2, <1>6, <3>1 DEF TypeOK
  <2>2. \A a \in Actors : call'[a].pc # "idle" => call'[a] = call[a]
    BY <1>7 DEF IdleCall
  <2>3. CopiesAreSound' /\ CommitsChange'
    BY <2>2, CopiesKept, CommitsKept
  <2>4. ReportersOwned' /\ ReporterOnceOwned' /\ MailsOnTheWay' /\ MailNamesItsReport'
    BY <1>1, <1>8 DEF ReportersOwned, ReporterOnceOwned, MailsOnTheWay, MailNamesItsReport
  <2> QED BY <1>4, <2>1, <2>3, <2>4 DEF IInv
<1>9. CASE ~overwritten
  <2>1. m \in mails
    BY <1>1, <1>9 DEF IInv, MailsOnTheWay, m
  <2>2. ASSUME NEW r \in DOMAIN team'.reports
        PROVE  \/ r \in DOMAIN team.reports /\ team'.reports[r].mail = team.reports[r].mail
               \/ team'.reports[r].mail \in mails /\ team'.reports[r].mail.report = r
    <3>1. r \in DOMAIN team.reports
      BY <1>4 DEF Quiet, SameReports
    <3> QED BY <1>4, <2>1, <3>1
  <2> QED BY <1>1, <1>2, <1>4, <1>6, <1>7, <2>2, QuietUpdateKeeps
<1> QED BY <1>8, <1>9

LEMMA RemoveMemberKeeps ==
  ASSUME IInv, NEW m \in Workers, RemoveMember(m)
  PROVE  IInv'
<1>1. /\ team' = Removed(team, m) /\ leaving' = leaving \cup {m}
      /\ tmux' = tmux /\ sessions' = sessions /\ call' = call /\ mails' = mails
      /\ overwritten' = overwritten
  BY DEF RemoveMember
<1>2. TypeOK /\ Sound(team) /\ m \in Actors
  BY DEF IInv, Actors
<1>3. Sound(team') /\ Quiet(team, team') /\ team'.reports = team.reports
  BY <1>1, <1>2, SoundRemoved
<1>4. leaving' \subseteq Workers /\ call' \in [Actors -> CallState]
  BY <1>1, <1>2 DEF TypeOK
<1> QED BY <1>1, <1>3, <1>4, QuietUpdateKeeps

LEMMA EndMemberKeeps ==
  ASSUME IInv, NEW m \in Workers, EndMember(m)
  PROVE  IInv'
<1>1. /\ team' = team /\ leaving' = leaving \ {m} /\ sessions' = sessions \ {m}
      /\ tmux' = tmux /\ mails' = mails /\ overwritten' = overwritten
      /\ call' = [call EXCEPT ![m] = IdleCall]
  BY DEF EndMember
<1>2. TypeOK /\ Sound(team) /\ m \in Actors /\ IdleCall \in CallState
  BY DEF IInv, Actors, CallState
<1>3. /\ call' \in [Actors -> CallState] /\ call'[m] = IdleCall
      /\ \A x \in Actors : x # m => call'[x] = call[x]
  BY <1>1, <1>2, CallChanges
<1>4. \A a \in Actors : call'[a].pc # "idle" => call'[a] = call[a]
  BY <1>3 DEF IdleCall
<1>5. TypeOK'
  BY <1>1, <1>2, <1>3 DEF TypeOK
<1>6. CopiesAreSound' /\ CommitsChange'
  BY <1>4, CopiesKept, CommitsKept
<1>7. ReportersOwned'
  <2>1. \A a \in Workers :
          ~overwritten' /\ call'[a].pc = "commit" /\ call'[a].command.action = "report" =>
            call'[a] = call[a] \/ OnceOwned(team'.log, Len(team'.log), a, call'[a].command.task)
    BY <1>4 DEF Actors
  <2> QED BY <1>1, <2>1, TeamSame, ReportersKept
<1>8. MailsOnTheWay'
  <2>1. \A a \in Actors : call'[a].pc \in {"mail", "link"} => call'[a] = call[a]
    BY <1>4
  <2> QED BY <1>1, <2>1, TeamSame, MailsKept
<1>9. MailNamesItsReport'
  BY <1>1 DEF IInv, MailNamesItsReport
<1> QED BY <1>1, <1>5, <1>6, <1>7, <1>8, <1>9, TeamSame DEF IInv

\* The invariant speaks of what tmux did only in that it is a number.
LEMMA BoardSame ==
  ASSUME IInv, UNCHANGED <<team, sessions, leaving, call, mails, overwritten>>, tmux' \in Nat
  PROVE  IInv'
<1>1. /\ team' = team /\ sessions' = sessions /\ leaving' = leaving
      /\ call' = call /\ mails' = mails /\ overwritten' = overwritten
  OBVIOUS
<1>2. TypeOK'
  BY <1>1 DEF IInv, TypeOK
<1>3. CopiesAreSound' /\ CommitsChange' /\ ReportersOwned'
  BY <1>1 DEF IInv, CopiesAreSound, CommitsChange, ReportersOwned
<1>4. ReporterOnceOwned' /\ MailsOnTheWay' /\ MailNamesItsReport'
  BY <1>1 DEF IInv, ReporterOnceOwned, MailsOnTheWay, MailNamesItsReport
<1> QED BY <1>1, <1>2, <1>3, <1>4 DEF IInv

LEMMA NextIInv == IInv /\ [Next]_vars => IInv'
<1> SUFFICES ASSUME IInv, [Next]_vars PROVE IInv'
  OBVIOUS
<1>0. tmux \in Nat
  BY DEF IInv, TypeOK
<1>1. CASE Next
  <2>1. ASSUME NEW actor \in Actors,
               \/ \E c \in Commands : Begin(actor, c)
               \/ Save(actor) \/ Commit(actor) \/ MailReport(actor) \/ LinkReport(actor)
        PROVE  IInv'
    BY <2>1, BeginKeeps, SaveKeeps, CommitKeeps, MailReportKeeps, LinkReportKeeps
  <2>2. ASSUME NEW m \in Workers, RemoveMember(m) \/ EndMember(m)
        PROVE  IInv'
    BY <2>2, RemoveMemberKeeps, EndMemberKeeps
  <2>3. CASE PaneChanges
    <3>1. tmux' \in Nat /\ UNCHANGED <<team, sessions, leaving, call, mails, overwritten>>
      BY <1>0, <2>3 DEF PaneChanges
    <3> QED BY <3>1, BoardSame
  <2> QED BY <1>1, <2>1, <2>2, <2>3 DEF Next
<1>2. CASE UNCHANGED vars
  <2>1. tmux' \in Nat /\ UNCHANGED <<team, sessions, leaving, call, mails, overwritten>>
    BY <1>0, <1>2 DEF vars
  <2> QED BY <2>1, BoardSame
<1> QED BY <1>1, <1>2

-----------------------------------------------------------------------------
(***************************************************************************)
(* The theorems.                                                           *)
(***************************************************************************)

\* Whatever is saved over whatever, the team and every copy of it a call holds
\* stay sound: their history tells what their tasks and reports are.
THEOREM Invariance == Spec => []IInv
BY InitIInv, NextIInv, PTL DEF Spec

\* Every variable keeps its type: no call, removal or save makes a team, a
\* call or a mail of another shape.
THEOREM TypeCorrect == Spec => []TypeOK
<1>1. IInv => TypeOK
  BY DEF IInv
<1> QED BY <1>1, Invariance, PTL

\* The events of a task tell its status, its owner and whether something
\* blocks it: transitions, removals and saves of old copies included.
THEOREM HistoryTells == Spec => []BoardMatchesHistory
<1>1. IInv => BoardMatchesHistory
  BY DEF IInv, Sound, TasksTold, Told, BoardMatchesHistory
<1> QED BY <1>1, Invariance, PTL

\* Every report is submitted by one event, and records the owner and the
\* status that the history tells of that moment.
THEOREM ReportsTell == Spec => []ReportTellsTheMoment
<1>1. IInv => ReportTellsTheMoment
  <2> SUFFICES ASSUME IInv, NEW r \in DOMAIN team.reports
               PROVE  \E i \in SubmittedIn(team, r) :
                        /\ SubmittedIn(team, r) = {i}
                        /\ team.log[i].task = team.reports[r].task
                        /\ team.reports[r].owner = OwnerTold(team.log, i, team.reports[r].task)
                        /\ team.reports[r].status = StatusTold(team.log, i, team.reports[r].task)
    BY DEF ReportTellsTheMoment, SubmittedIn
  <2> QED BY DEF IInv, Sound, ReportsTold, SubmittedAt
<1> QED BY <1>1, Invariance, PTL

\* As long as no save lost anything, a worker that reports on a task was
\* assigned it before, although its owner is checked on an earlier copy.
THEOREM ReportersWereOwners == Spec => []ReporterOnceOwned
<1>1. IInv => ReporterOnceOwned
  BY DEF IInv
<1> QED BY <1>1, Invariance, PTL

\* As long as no save lost anything, mail to the leader is about the report it
\* names, and a report names no mail but its own.
THEOREM MailsAreTheirs == Spec => []MailNamesItsReport
<1>1. IInv => MailNamesItsReport
  BY DEF IInv
<1> QED BY <1>1, Invariance, PTL

\* No command and no removal touches a closed task: only a save that loses
\* something can open one again.
THEOREM ClosedStay == Spec => ClosedStaysClosed
<1> DEFINE Stay == \A t \in DOMAIN team.tasks :
                     team.tasks[t].status = "done" /\ ~overwritten' => team'.tasks[t] = team.tasks[t]
<1>1. ASSUME IInv, [Next]_vars PROVE Stay \/ UNCHANGED vars
  <2>0. TypeOK /\ Sound(team) /\ team \in Team
    BY <1>1 DEF IInv, TypeOK
  <2>1. CASE team' = team
    BY <2>1
  <2>2. ASSUME NEW actor \in Actors, Save(actor) PROVE Stay
    <3>1. /\ team' = call[actor].copy
          /\ overwritten' = (overwritten \/ ~SameBoard(team, call[actor].copy))
          /\ call[actor].pc = "save"
      BY <2>2 DEF Save
    <3>2. call[actor].copy \in Team
      BY <1>1, <3>1 DEF IInv, CopiesAreSound, Sound
    <3>3. ~overwritten' => team'.tasks = team.tasks
      BY <2>0, <3>1, <3>2, SameBoardParts
    <3> QED BY <3>3
  <2>3. ASSUME NEW actor \in Actors, Commit(actor) PROVE Stay
    <3> DEFINE c == call[actor].command
    <3>1. call[actor].pc = "commit"
      BY <2>3 DEF Commit
    <3>2. c \in Commands /\ c.action # "look"
      BY <1>1, <2>0, <3>1, CallFields DEF IInv, CommitsChange
    <3>3. team' = team \/ (Accepted(team, c) /\ team' = Committed(team, actor, c))
      BY <2>3 DEF Commit
    <3> HIDE DEF c
    <3>4. Accepted(team, c) => DoneStay(team, Committed(team, actor, c))
      BY <2>0, <3>2, Commits
    <3> QED BY <3>3, <3>4 DEF DoneStay
  <2>4. ASSUME NEW actor \in Actors, LinkReport(actor) PROVE Stay
    <3>1. call[actor].pc = "link" /\ team' = Linked(team, call[actor].mail)
      BY <2>4 DEF LinkReport
    <3>2. call[actor].mail \in [report: TaskIds, task: TaskIds, author: Actors]
      BY <2>0, <3>1, CallFields DEF Mail, Actors
    <3>3. team'.tasks = team.tasks
      BY <2>0, <3>1, <3>2, SoundLinked
    <3> QED BY <3>3
  <2>5. ASSUME NEW m \in Workers, RemoveMember(m) PROVE Stay
    <3>1. team' = Removed(team, m) /\ m \in Actors
      BY <2>5 DEF RemoveMember, Actors
    <3> QED BY <2>0, <3>1, SoundRemoved
  <2>6. CASE Next
    <3>1. ASSUME NEW actor \in Actors,
                 (\E c \in Commands : Begin(actor, c)) \/ MailReport(actor)
          PROVE  team' = team
      BY <3>1 DEF Begin, MailReport
    <3>2. ASSUME NEW m \in Workers, EndMember(m) PROVE team' = team
      BY <3>2 DEF EndMember
    <3>3. PaneChanges => team' = team
      BY DEF PaneChanges
    <3> HIDE DEF Stay
    <3> QED BY <2>1, <2>2, <2>3, <2>4, <2>5, <2>6, <3>1, <3>2, <3>3 DEF Next
  <2>7. CASE UNCHANGED vars
    BY <2>7
  <2> QED BY <1>1, <2>6, <2>7
<1>2. IInv /\ [Next]_vars => [Stay]_vars
  BY <1>1
<1> HIDE DEF Stay
<1>3. Spec => [][Stay]_vars
  BY <1>2, Invariance, PTL DEF Spec
<1> QED BY <1>3 DEF Stay, ClosedStaysClosed

-----------------------------------------------------------------------------
(***************************************************************************)
(* Which tasks a step leaves with somebody who is not a member any more.   *)
(***************************************************************************)

\* Of the tasks in b2, at most those of T are newly stranded.
StrandsOnly(b, b2, T) ==
  \A t \in DOMAIN b2.tasks : Stranded(b2, t) => t \in T \/ (t \in DOMAIN b.tasks /\ Stranded(b, t))

LEMMA SameTasksStrand ==
  ASSUME NEW b, NEW b2, NEW T, b2.tasks = b.tasks, b2.members = b.members
  PROVE  StrandsOnly(b, b2, T)
BY DEF StrandsOnly, Stranded

\* A change to one task, of which an event is logged.
LEMMA ChangeStrands ==
  ASSUME NEW b \in Team, NEW t \in DOMAIN b.tasks, NEW task \in Task, NEW e \in Event
  PROVE  LET b2 == Logged(Changed(b, t, task), e)
         IN  /\ StrandsOnly(b, b2, {t})
             /\ b.tasks[t].status # "done" /\ task.owner = b.tasks[t].owner => StrandsOnly(b, b2, {})
<1> DEFINE b1 == Changed(b, t, task)
           b2 == Logged(b1, e)
<1>1. /\ b1 \in Team /\ DOMAIN b1.tasks = DOMAIN b.tasks /\ b1.tasks[t] = task
      /\ \A u \in DOMAIN b.tasks : u # t => b1.tasks[u] = b.tasks[u]
      /\ b1.members = b.members
  BY ChangedParts
<1> HIDE DEF b1
<1>2. b2.tasks = b1.tasks /\ b2.members = b1.members
  BY <1>1, LoggedParts
<1> HIDE DEF b2
<1>3. /\ DOMAIN b2.tasks = DOMAIN b.tasks /\ b2.members = b.members /\ b2.tasks[t] = task
      /\ \A u \in DOMAIN b.tasks : u # t => b2.tasks[u] = b.tasks[u]
  BY <1>1, <1>2
<1>4. StrandsOnly(b, b2, {t})
  BY <1>3 DEF StrandsOnly, Stranded
<1>5. b.tasks[t].status # "done" /\ task.owner = b.tasks[t].owner => StrandsOnly(b, b2, {})
  BY <1>3 DEF StrandsOnly, Stranded
<1> QED BY <1>4, <1>5 DEF b1, b2

\* Creation checks the owner on the team it changes.
LEMMA CreateStrands ==
  ASSUME NEW b \in Team, NEW c \in Commands, c.owner = Nobody \/ ValidOwner(b, c.owner)
  PROVE  StrandsOnly(b, Created(b, c), {})
<1> DEFINE t == Len(b.tasks) + 1
           task == [status |-> "open", owner |-> c.owner, gated |-> FALSE]
           tasks == Append(b.tasks, task)
           b1 == [b EXCEPT !.tasks = tasks]
           b2 == Logged(b1, PlainEvent("created", t))
           b3 == Logged(b2, [PlainEvent("assigned", t) EXCEPT !.owner = c.owner])
<1>1. /\ b.tasks \in Seq(Task) /\ DOMAIN b.tasks = 1 .. Len(b.tasks) /\ Len(b.tasks) \in Nat
      /\ c.owner \in Actors \cup {Nobody} /\ t \in TaskIds
  <2>1. Len(b.tasks) \in Nat
    BY TeamParts
  <2> QED BY <2>1, TeamParts, CommandFields DEF TaskIds
<1>2. task \in Task /\ task.owner = c.owner
  BY <1>1 DEF Task
<1> HIDE DEF task
<1>3. /\ tasks \in Seq(Task) /\ DOMAIN tasks = 1 .. t /\ tasks[t] = task
      /\ \A u \in DOMAIN b.tasks : tasks[u] = b.tasks[u]
  <2>1. /\ tasks \in Seq(Task) /\ Len(tasks) = Len(b.tasks) + 1 /\ tasks[Len(b.tasks) + 1] = task
        /\ \A u \in 1 .. Len(b.tasks) : tasks[u] = b.tasks[u]
    BY <1>1, <1>2, AppendProperties
  <2>2. DOMAIN tasks = 1 .. Len(tasks)
    BY <2>1, LenProperties
  <2> QED BY <1>1, <2>1, <2>2
<1>4. Created(b, c) = IF c.owner = Nobody THEN b2 ELSE b3
  BY DEF Created, task
<1>5. PlainEvent("created", t) \in Event
  BY <1>1 DEF PlainEvent, Event
<1>6. c.owner # Nobody => [PlainEvent("assigned", t) EXCEPT !.owner = c.owner] \in Event
  BY <1>1 DEF PlainEvent, Event
<1>7. \A u \in 1 .. t : u # t => u \in DOMAIN b.tasks
  BY <1>1
<1> HIDE DEF tasks
<1>8. b1 \in Team /\ b1.tasks = tasks /\ b1.members = b.members
  <2>1. b = [members |-> b.members, panes |-> b.panes, tasks |-> b.tasks,
             reports |-> b.reports, log |-> b.log]
    BY DEF Team
  <2>2. b1.tasks = tasks /\ b1.members = b.members
    BY <2>1
  <2>3. b1 \in Team
    BY <1>3 DEF Team
  <2> QED BY <2>2, <2>3
<1> HIDE DEF b1, t
<1>9. b2 \in Team /\ b2.tasks = tasks /\ b2.members = b.members
  BY <1>5, <1>8, LoggedParts
<1> HIDE DEF b2
<1>10. c.owner # Nobody => b3.tasks = tasks /\ b3.members = b.members
  BY <1>6, <1>9, LoggedParts
<1> HIDE DEF b3
<1>11. Created(b, c).tasks = tasks /\ Created(b, c).members = b.members
  BY <1>4, <1>9, <1>10
<1>12. c.owner \notin Workers \ b.members
  BY NamesDiffer DEF ValidOwner
<1> QED BY <1>2, <1>3, <1>7, <1>11, <1>12 DEF StrandsOnly, Stranded

\* Of the commands only an assignment can strand a task, and only its own.
LEMMA CommitStrands ==
  ASSUME NEW b, Sound(b), NEW c \in Commands, c.action # "look", NEW actor \in Actors,
         Accepted(b, c)
  PROVE  StrandsOnly(b, Committed(b, actor, c), IF c.action = "assign" THEN {c.task} ELSE {})
<1>0. b \in Team
  BY DEF Sound
<1>1. CASE c.action = "create"
  <2>1. Committed(b, actor, c) = Created(b, c)
    BY <1>1 DEF Committed
  <2>2. c.owner = Nobody \/ ValidOwner(b, c.owner)
    BY <1>1 DEF Accepted
  <2> QED BY <1>0, <1>1, <2>1, <2>2, CreateStrands
<1>2. CASE c.action \in {"assign", "block", "unblock", "close"}
  <2> DEFINE t == c.task
             T == IF c.action = "assign" THEN {t} ELSE {}
  <2>1. /\ t \in DOMAIN b.tasks /\ t \in TaskIds /\ b.tasks[t] \in Task
        /\ CanTransition(b.tasks[t], c.action) /\ c.gated \in BOOLEAN
        /\ c.action = "assign" => c.owner \in Actors
    BY <1>0, <1>2, TeamParts, CommandFields DEF Accepted
  <2>2. b.tasks[t].status # "done"
    BY <1>2, <2>1 DEF CanTransition
  <2>3. ASSUME NEW e \in Event, NEW task \in Task,
               c.action = "assign" \/ task.owner = b.tasks[t].owner,
               Committed(b, actor, c) = Logged(Changed(b, t, task), e)
        PROVE  StrandsOnly(b, Committed(b, actor, c), T)
    BY <1>0, <2>1, <2>2, <2>3, ChangeStrands
  <2>4. CASE c.action = "assign"
    <3> DEFINE e == [PlainEvent("assigned", t) EXCEPT !.owner = c.owner]
               task == [b.tasks[t] EXCEPT !.owner = c.owner]
    <3>1. e \in Event
      BY <2>1, <2>4 DEF PlainEvent, Event
    <3>2. task \in Task
      BY <2>1, <2>4 DEF Task
    <3>3. Committed(b, actor, c) = Logged(Changed(b, t, task), e)
      BY <2>4 DEF Committed, Assigned
    <3> HIDE DEF t, e, task, T
    <3>4. StrandsOnly(b, Committed(b, actor, c), T)
      BY <2>3, <2>4, <3>1, <3>2, <3>3
    <3> QED BY <3>4 DEF T, t
  <2>5. CASE c.action = "block"
    <3> DEFINE e == [PlainEvent("blocked", t) EXCEPT !.gated = c.gated]
               task == [b.tasks[t] EXCEPT !.status = "blocked", !.gated = c.gated]
    <3>1. e \in Event
      BY <2>1 DEF PlainEvent, Event
    <3>2. task \in Task /\ task.owner = b.tasks[t].owner
      BY <2>1 DEF Task
    <3>3. Committed(b, actor, c) = Logged(Changed(b, t, task), e)
      BY <2>5 DEF Committed, Blocked
    <3> HIDE DEF t, e, task, T
    <3>4. StrandsOnly(b, Committed(b, actor, c), T)
      BY <2>3, <3>1, <3>2, <3>3
    <3> QED BY <3>4 DEF T, t
  <2>6. CASE c.action = "unblock"
    <3> DEFINE e == PlainEvent("unblocked", t)
               task == [b.tasks[t] EXCEPT !.status = "open", !.gated = FALSE]
    <3>1. e \in Event
      BY <2>1 DEF PlainEvent, Event
    <3>2. task \in Task /\ task.owner = b.tasks[t].owner
      BY <2>1 DEF Task
    <3>3. Committed(b, actor, c) = Logged(Changed(b, t, task), e)
      BY <2>6 DEF Committed, Unblocked
    <3> HIDE DEF t, e, task, T
    <3>4. StrandsOnly(b, Committed(b, actor, c), T)
      BY <2>3, <3>1, <3>2, <3>3
    <3> QED BY <3>4 DEF T, t
  <2>7. CASE c.action = "close"
    <3> DEFINE e == PlainEvent("closed", t)
               task == [b.tasks[t] EXCEPT !.status = "done", !.gated = FALSE]
    <3>1. e \in Event
      BY <2>1 DEF PlainEvent, Event
    <3>2. task \in Task /\ task.owner = b.tasks[t].owner
      BY <2>1 DEF Task
    <3>3. Committed(b, actor, c) = Logged(Changed(b, t, task), e)
      BY <2>7 DEF Committed, Closed
    <3> HIDE DEF t, e, task, T
    <3>4. StrandsOnly(b, Committed(b, actor, c), T)
      BY <2>3, <3>1, <3>2, <3>3
    <3> QED BY <3>4 DEF T, t
  <2> QED BY <1>2, <2>4, <2>5, <2>6, <2>7
<1>3. CASE c.action = "progress"
  <2>1. Committed(b, actor, c) = Logged(b, PlainEvent("progress", c.task))
    BY <1>3 DEF Committed
  <2>2. PlainEvent("progress", c.task) \in Event
    BY CommandFields DEF PlainEvent, Event
  <2> QED BY <1>0, <2>1, <2>2, LoggedParts, SameTasksStrand
<1>4. CASE c.action = "report"
  <2> DEFINE reports == Append(b.reports, [task |-> c.task, author |-> actor,
               owner |-> b.tasks[c.task].owner, status |-> b.tasks[c.task].status, mail |-> NoMail])
             e == [PlainEvent("report_submitted", c.task) EXCEPT !.report = Len(b.reports) + 1]
  <2>1. Committed(b, actor, c) = Reported(b, actor, c)
    BY <1>4 DEF Committed
  <2> HIDE DEF reports, e
  <2>2. Reported(b, actor, c) = [[b EXCEPT !.reports = reports] EXCEPT !.log = Append(@, e)]
    BY DEF Reported, Logged, reports, e
  <2>3. b = [members |-> b.members, panes |-> b.panes, tasks |-> b.tasks,
             reports |-> b.reports, log |-> b.log]
    BY <1>0 DEF Team
  <2>4. Reported(b, actor, c).tasks = b.tasks /\ Reported(b, actor, c).members = b.members
    BY <2>2, <2>3
  <2> QED BY <2>1, <2>4, SameTasksStrand
<1> QED BY <1>1, <1>2, <1>3, <1>4, CommandFields

\* A removal gives back every task to be done that the member has.
LEMMA RemovedStrands ==
  ASSUME NEW b \in Team, NEW m \in Workers
  PROVE  StrandsOnly(b, Removed(b, m), {})
<1> DEFINE S == Reopened(b, m)
           tasks == [t \in DOMAIN b.tasks |->
                       IF t \in S THEN [b.tasks[t] EXCEPT !.status = "open", !.owner = Nobody]
                       ELSE b.tasks[t]]
           log == b.log \o [i \in DOMAIN InOrder(S) |-> PlainEvent("owner_removed", InOrder(S)[i])]
           b2 == [b EXCEPT !.members = b.members \ {m}, !.tasks = tasks, !.log = log]
<1>1. Removed(b, m) = b2
  BY DEF Removed
<1>2. b = [members |-> b.members, panes |-> b.panes, tasks |-> b.tasks,
           reports |-> b.reports, log |-> b.log]
  BY DEF Team
<1>3. DOMAIN tasks = DOMAIN b.tasks
  OBVIOUS
<1>4. ASSUME NEW t \in S PROVE tasks[t].owner = Nobody
  <2>1. t \in DOMAIN b.tasks /\ b.tasks[t] \in Task
    BY TeamParts DEF Reopened
  <2> QED BY <2>1 DEF Task
<1>5. \A t \in DOMAIN b.tasks : t \notin S => tasks[t] = b.tasks[t]
  OBVIOUS
<1> HIDE DEF tasks, log
<1>6. b2.tasks = tasks /\ b2.members = b.members \ {m}
  BY <1>2
<1> HIDE DEF b2
<1>7. \A t \in DOMAIN b.tasks : t \notin S /\ b.tasks[t].status # "done" => b.tasks[t].owner # m
  BY DEF Reopened
<1> HIDE DEF S
<1>8. ASSUME NEW t \in DOMAIN b2.tasks, Stranded(b2, t)
      PROVE  t \in DOMAIN b.tasks /\ Stranded(b, t)
  <2>1. t \notin S
    BY <1>4, <1>6, <1>8, NamesDiffer DEF Stranded
  <2>2. t \in DOMAIN b.tasks /\ b2.tasks[t] = b.tasks[t]
    BY <1>3, <1>5, <1>6, <1>8, <2>1
  <2> QED BY <1>6, <1>7, <1>8, <2>1, <2>2 DEF Stranded
<1> QED BY <1>1, <1>8 DEF StrandsOnly

LEMMA LinkedMembers ==
  ASSUME NEW b \in Team, NEW mail
  PROVE  Linked(b, mail).members = b.members
<1> DEFINE reports == [b.reports EXCEPT ![mail.report] = [@ EXCEPT !.mail = mail]]
<1>1. b = [members |-> b.members, panes |-> b.panes, tasks |-> b.tasks,
           reports |-> b.reports, log |-> b.log]
  BY DEF Team
<1>2. Linked(b, mail) = IF mail.report \in DOMAIN b.reports THEN [b EXCEPT !.reports = reports] ELSE b
  BY DEF Linked
<1> HIDE DEF reports
<1> QED BY <1>1, <1>2

\* A call is about to commit only what its actor may do.
CommitsArePrivileged ==
  \A a \in Actors : call[a].pc = "commit" => Privileged(a, call[a].command.action)

LEMMA PrivilegeKept ==
  ASSUME TypeOK, CommitsArePrivileged, [Next]_vars
  PROVE  CommitsArePrivileged'
<1>1. ASSUME NEW actor \in Actors, NEW state \in CallState, call' = [call EXCEPT ![actor] = state],
             state.pc = "commit" => Privileged(actor, state.command.action)
      PROVE  CommitsArePrivileged'
  <2>1. call'[actor] = state /\ \A x \in Actors : x # actor => call'[x] = call[x]
    BY <1>1, CallChanges
  <2> QED BY <1>1, <2>1 DEF CommitsArePrivileged
<1>2. IdleCall \in CallState /\ IdleCall.pc = "idle"
  BY DEF CallState, IdleCall
<1>3. ASSUME NEW b, NEW actor \in Actors, NEW c \in Commands, call' = [call EXCEPT ![actor] = GoesOn(b, actor, c)]
      PROVE  CommitsArePrivileged'
  <2> DEFINE state == GoesOn(b, actor, c)
  <2>1. /\ state \in CallState
        /\ state.pc = "commit" => state.command = c /\ Checked(b, actor, c)
    BY GoesOnCases
  <2> HIDE DEF state
  <2>2. Checked(b, actor, c) => Privileged(actor, c.action)
    BY DEF Checked
  <2>3. state.pc = "commit" => Privileged(actor, state.command.action)
    BY <2>1, <2>2
  <2>4. call' = [call EXCEPT ![actor] = state]
    BY <1>3 DEF state
  <2> QED BY <1>1, <2>1, <2>3, <2>4
<1>4. ASSUME NEW actor \in Actors, NEW c \in Commands, Begin(actor, c) PROVE CommitsArePrivileged'
  <2> DEFINE copy == [team EXCEPT !.panes = tmux]
  <2>1. CASE team.panes # tmux
    <3>1. copy \in Team
      BY DEF TypeOK, Team
    <3> HIDE DEF copy
    <3>2. [pc |-> "save", command |-> c, copy |-> copy] \in CallState
      BY <3>1 DEF CallState
    <3>3. call' = [call EXCEPT ![actor] = [pc |-> "save", command |-> c, copy |-> copy]]
      BY <1>4, <2>1 DEF Begin, copy
    <3> QED BY <1>1, <3>2, <3>3
  <2>2. CASE team.panes = tmux
    <3>1. call' = [call EXCEPT ![actor] = GoesOn(team, actor, c)]
      BY <1>4, <2>2 DEF Begin
    <3> QED BY <1>3, <3>1
  <2> QED BY <2>1, <2>2
<1>5. ASSUME NEW actor \in Actors, Save(actor) PROVE CommitsArePrivileged'
  <2>1. call[actor].pc = "save"
    BY <1>5 DEF Save
  <2>2. call[actor].command \in Commands
    BY <2>1, CallFields
  <2>3. call' = [call EXCEPT ![actor] = GoesOn(call[actor].copy, actor, call[actor].command)]
    BY <1>5 DEF Save
  <2> QED BY <1>3, <2>2, <2>3
<1>6. ASSUME NEW actor \in Actors, Commit(actor) PROVE CommitsArePrivileged'
  <2> DEFINE c == call[actor].command
             state == IF Accepted(team, c) /\ c.action = "report" /\ actor # Leader
                        THEN [pc |-> "mail", mail |-> [report |-> Len(team'.reports),
                                                       task |-> c.task, author |-> actor]]
                        ELSE IdleCall
  <2>1. call' = [call EXCEPT ![actor] = state]
    BY <1>6 DEF Commit
  <2>2. state.pc # "commit"
    BY <1>2
  <2> HIDE DEF state
  <2>3. call \in [Actors -> CallState]
    BY DEF TypeOK
  <2>4. call'[actor] = state /\ \A x \in Actors : x # actor => call'[x] = call[x]
    BY <2>1, <2>3
  <2> QED BY <2>2, <2>4 DEF CommitsArePrivileged
<1>7. ASSUME NEW actor \in Actors, MailReport(actor) PROVE CommitsArePrivileged'
  <2>1. CASE call' = [call EXCEPT ![actor] = IdleCall]
    BY <1>1, <1>2, <2>1
  <2>2. CASE call' = [call EXCEPT ![actor].pc = "link"]
    <3>1. call[actor].pc = "mail"
      BY <1>7 DEF MailReport
    <3>2. call[actor] = [pc |-> "mail", mail |-> call[actor].mail] /\ call[actor].mail \in Mail
      BY <3>1, CallFields
    <3>3. [call[actor] EXCEPT !.pc = "link"] = [pc |-> "link", mail |-> call[actor].mail]
      BY <3>2
    <3>4. call' = [call EXCEPT ![actor] = [pc |-> "link", mail |-> call[actor].mail]]
      BY <2>2, <3>3
    <3>5. [pc |-> "link", mail |-> call[actor].mail] \in CallState
      BY <3>2 DEF CallState, Mail
    <3> QED BY <1>1, <3>4, <3>5
  <2> QED BY <1>7, <2>1, <2>2 DEF MailReport
<1>8. ASSUME NEW actor \in Actors, LinkReport(actor) PROVE CommitsArePrivileged'
  <2>1. call' = [call EXCEPT ![actor] = IdleCall]
    BY <1>8 DEF LinkReport
  <2> QED BY <1>1, <1>2, <2>1
<1>9. ASSUME NEW m \in Workers, EndMember(m) PROVE CommitsArePrivileged'
  <2>1. m \in Actors /\ call' = [call EXCEPT ![m] = IdleCall]
    BY <1>9 DEF EndMember, Actors
  <2> QED BY <1>1, <1>2, <2>1
<1>10. CASE call' = call
  BY <1>10 DEF CommitsArePrivileged
<1>11. ASSUME NEW m \in Workers, RemoveMember(m) PROVE call' = call
  BY <1>11 DEF RemoveMember
<1>12. PaneChanges \/ UNCHANGED vars => call' = call
  BY DEF PaneChanges, vars
<1> QED BY <1>4, <1>5, <1>6, <1>7, <1>8, <1>9, <1>10, <1>11, <1>12 DEF Next

\* Only the leader's call creates, assigns, blocks, unblocks and closes, late
\* as its locked update may be: what was checked of the actor cannot go stale.
THEOREM OnlyPrivilegedCommit == Spec => []CommitsArePrivileged
<1>1. Init => CommitsArePrivileged
  BY DEF Init, CommitsArePrivileged, IdleCall
<1>2. IInv /\ CommitsArePrivileged /\ [Next]_vars => CommitsArePrivileged'
  BY PrivilegeKept DEF IInv
<1> QED BY <1>1, <1>2, Invariance, PTL DEF Spec

\* A task to be done comes to be with a worker who has left only by the save of
\* an old copy, or by the leader's assignment whose new owner was checked
\* before it left.
THEOREM StrandedLate == Spec => StrandedOnlyByLateAssignment
<1> DEFINE Saves == \E a \in Actors : call[a].pc = "save" /\ team' = call[a].copy
           Assigns(t) == /\ call[Leader].pc = "commit" /\ call'[Leader].pc = "idle"
                         /\ call[Leader].command.action = "assign" /\ call[Leader].command.task = t
           Late == \A t \in DOMAIN team'.tasks :
                     Stranded(team', t) /\ (t \in DOMAIN team.tasks => ~Stranded(team, t)) =>
                       Saves \/ Assigns(t)
           LateStep ==
             \A t \in DOMAIN team'.tasks :
               Stranded(team', t) /\ (t \in DOMAIN team.tasks => ~Stranded(team, t)) =>
                 \/ \E a \in Actors : call[a].pc = "save" /\ team' = call[a].copy
                 \/ /\ call[Leader].pc = "commit" /\ call'[Leader].pc = "idle"
                    /\ call[Leader].command.action = "assign" /\ call[Leader].command.task = t
<1>1. ASSUME IInv, CommitsArePrivileged, [Next]_vars PROVE Late
  <2>0. TypeOK /\ Sound(team) /\ team \in Team
    BY <1>1 DEF IInv, TypeOK
  <2>1. StrandsOnly(team, team', {}) => Late
    <3> HIDE DEF Saves, Assigns
    <3> QED BY DEF StrandsOnly
  <2>2. team' = team => Late
    BY <2>1, SameTasksStrand
  <2>3. ASSUME NEW actor \in Actors, Save(actor) PROVE Late
    <3>1. Saves
      BY <2>3 DEF Save
    <3> QED BY <3>1
  <2>4. ASSUME NEW actor \in Actors, Commit(actor) PROVE Late
    <3> DEFINE c == call[actor].command
    <3>1. call[actor].pc = "commit"
      BY <2>4 DEF Commit
    <3>2. c \in Commands /\ c.action # "look" /\ Privileged(actor, c.action)
      BY <1>1, <2>0, <3>1, CallFields DEF IInv, CommitsChange, CommitsArePrivileged
    <3>3. team' = team \/ (Accepted(team, c) /\ team' = Committed(team, actor, c))
      BY <2>4 DEF Commit
    <3>4. c.action = "assign" => actor = Leader /\ call'[actor].pc = "idle"
      <4>1. c.action = "assign" => call' = [call EXCEPT ![actor] = IdleCall]
        BY <2>4 DEF Commit
      <4> HIDE DEF c
      <4>2. c.action = "assign" => call'[actor].pc = "idle"
        BY <2>0, <4>1 DEF TypeOK, IdleCall
      <4> QED BY <3>2, <4>2 DEF Privileged
    <3>5. ASSUME Accepted(team, c), team' = Committed(team, actor, c) PROVE Late
      <4> DEFINE T == IF c.action = "assign" THEN {c.task} ELSE {}
      <4>1. StrandsOnly(team, team', T)
        <5> HIDE DEF c
        <5> QED BY <2>0, <3>2, <3>5, CommitStrands
      <4>2. \A t \in T : Assigns(t)
        BY <3>1, <3>4
      <4> HIDE DEF T, Assigns, Saves
      <4> QED BY <4>1, <4>2 DEF StrandsOnly
    <3> HIDE DEF Late
    <3> QED BY <2>2, <3>3, <3>5
  <2>5. ASSUME NEW actor \in Actors, LinkReport(actor) PROVE Late
    <3>1. call[actor].pc = "link" /\ team' = Linked(team, call[actor].mail)
      BY <2>5 DEF LinkReport
    <3>2. call[actor].mail \in [report: TaskIds, task: TaskIds, author: Actors]
      BY <2>0, <3>1, CallFields DEF Mail, Actors
    <3>3. team'.tasks = team.tasks
      BY <2>0, <3>1, <3>2, SoundLinked
    <3>4. team'.members = team.members
      BY <2>0, <3>1, LinkedMembers
    <3> QED BY <2>1, <3>3, <3>4, SameTasksStrand
  <2>6. ASSUME NEW m \in Workers, RemoveMember(m) PROVE Late
    <3>1. team' = Removed(team, m)
      BY <2>6 DEF RemoveMember
    <3> QED BY <2>0, <2>1, <3>1, RemovedStrands
  <2>7. ASSUME NEW actor \in Actors, (\E c \in Commands : Begin(actor, c)) \/ MailReport(actor)
        PROVE  team' = team
    BY <2>7 DEF Begin, MailReport
  <2>8. ASSUME NEW m \in Workers, EndMember(m) PROVE team' = team
    BY <2>8 DEF EndMember
  <2>9. PaneChanges \/ UNCHANGED vars => team' = team
    BY DEF PaneChanges, vars
  <2> HIDE DEF Late
  <2> QED BY <1>1, <2>2, <2>3, <2>4, <2>5, <2>6, <2>7, <2>8, <2>9 DEF Next
<1>2. Late => LateStep
  OBVIOUS
<1> HIDE DEF Late, LateStep
<1>3. IInv /\ CommitsArePrivileged /\ [Next]_vars => [LateStep]_vars
  BY <1>1, <1>2
<1>4. Spec => [][LateStep]_vars
  BY <1>3, Invariance, OnlyPrivilegedCommit, PTL DEF Spec
<1> QED BY <1>4 DEF LateStep, StrandedOnlyByLateAssignment
==============================================================================
