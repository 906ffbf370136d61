---------------------------- MODULE TeamFileProofs ----------------------------
(***************************************************************************)
(* Proofs about TeamFile for any sessions, notes, effects and bounds.      *)
(*                                                                         *)
(* Validation takes no lock, yet what it achieves lasts: once no team is   *)
(* legacy (Migrated) and no note effect is pending (Converted) neither     *)
(* comes back, whatever copies are written, because every copy that is     *)
(* written later was read later (CopiesFit).  From this follow             *)
(* the cause of a quarantine and, with the facts of a team and the effects *)
(* of the present version, which no process converting it has read         *)
(* (FactsAreLater) and which whoever holds the lock has read unless his    *)
(* read failed, what may be forgotten.  That the history stays indexed is  *)
(* said of every copy there is.                                            *)
(***************************************************************************)
EXTENDS TeamFile, WellFoundedInduction, TLAPS

\* The steps of a process that converts, that is past its first look at the
\* files, and that passed its check.
Converting == {"outboxToo", "saveOutbox", "saveState"}
Checking   == {"listInboxes", "readInbox", "checkOutbox", "quarantine"}
Validated  == {"read", "panes", "lock", "commit", "remove", "appending", "write",
               "open", "fill", "push", "unlink"}

\* In what follows f and o are the team's two files, l and m the holders of their
\* locks, k the state of a process p.
Migrated(f)  == f # None => ~f.legacy
Converted(o) == NoteEffects(o) = {}

NewEffects(o) == {e \in o : e.kind = "new"}

\* The facts that sessions recorded in a team.
Facts(team) ==
  IF team = None THEN {} ELSE {r.what : r \in {e \in team.events : e.what.kind = "fact"}}

Indexed(team) ==
  team # None =>
    \A t \in Tables : \A r, s \in team[t] :
      /\ r.id < team.next[t]
      /\ r.id = s.id \/ r.what = s.what => r = s

\* A team that is not legacy has no notes.
Unnoted(team) == team # None /\ ~team.legacy => team.notes = {}

\* Effects of the present version, and facts, are there only once nothing is to
\* be converted any more.
FilesFit(f, o) ==
  /\ Indexed(f) /\ Unnoted(f)
  /\ f = None => Converted(o)
  /\ ~Converted(o) => NewEffects(o) = {}
  /\ Facts(f) # {} => Migrated(f) /\ Converted(o)

\* What a process carries fits the step it is at.
Shape(p, k) ==
  /\ k.pc = "idle" => k = Idle
  /\ k.pc \in Converting => k.copy # None
  /\ k.pc \notin Converting \cup {"outbox", "check", "commit"} => k.copy = None
  /\ k.pc \notin {"saveOutbox", "saveState", "check", "write"} => k.box = {}
  /\ k.pc \notin Checking => k.reasons = {}
  /\ k.pc = "quarantine" => k.reasons # {}
  /\ k.pc = "lock" => ~k.misread
  /\ k.pc = "commit" /\ k.misread => k.copy = None
  /\ k.pc = "read" => k.stale = None /\ k.op \in {"refresh", "create", "delete"}
  /\ k.pc # "idle" => k.op # None
  /\ k.op \in {"log", "dismiss", "enqueue", "append", "mail", "delete"} => k.stale = None
  /\ k.op = "attach" => k.stale # None
  /\ k.op = "create" /\ k.stale # None => k.stale = CreateInitialTeam
  /\ k.op = "create" /\ k.pc \in {"lock", "commit"} => k.stale # None
  /\ k.op \in {"refresh", "attach"} /\ k.pc \in {"panes", "lock", "commit"} => k.stale # None
  /\ k.pc = "panes" => k.op \in {"refresh", "attach"}
  /\ k.pc = "lock" => k.op \in {"log", "dismiss", "create", "refresh", "attach", "enqueue"}
  /\ k.pc = "commit" => k.op \in {"log", "dismiss", "create", "refresh", "attach"}

\* Every copy is indexed, and what is written after validation was read after it.
CopiesFit(k) ==
  /\ Indexed(k.copy) /\ Unnoted(k.copy)
  /\ Indexed(k.stale) /\ Unnoted(k.stale) /\ Migrated(k.stale)
  /\ k.pc = "commit" => Migrated(k.copy)

\* How far a process has seen to it that the files are converted, or has a reason
\* to set them aside.
Reached(k, f, o) ==
  /\ k.pc = "outbox" /\ ~k.misread => Migrated(f)
  /\ k.pc = "outbox" /\ ~k.misread /\ k.copy = None => Converted(o)
  /\ k.pc = "saveState" /\ ~k.misread => Converted(o)
  /\ k.pc \in Checking \cup {"check"} /\ ~k.misread =>
       Migrated(f) /\ Converted(o) /\ "legacy" \notin k.reasons
  /\ k.pc \in Checking /\ k.reasons = {} => Migrated(f)
  /\ k.pc \in Validated \/ k.stale # None => Migrated(f) /\ Converted(o)

\* Who converts has read no fact and no new effect; who holds the lock has read
\* all facts there are, unless the read failed.
FactsAreLater(p, k, f, o, l) ==
  /\ k.pc \in {"saveOutbox", "saveState"} => NewEffects(k.box) = {}
  /\ k.pc = "outbox" /\ Facts(k.copy) # {} => Converted(o)
  /\ k.pc \in Converting => Facts(k.copy) = {}
  /\ k.pc = "commit" /\ l = p /\ ~k.misread => Facts(f) \subseteq Facts(k.copy)

\* What is written to the outbox under its lock has all new effects there are.
EffectsAreRead(p, k, o, m) ==
  k.pc = "write" =>
    /\ Converted(k.box)
    /\ m = p /\ ~k.misread => NewEffects(o) \subseteq k.box

ProcFits(p, k, f, o, l, m) ==
  /\ Shape(p, k) /\ CopiesFit(k) /\ Reached(k, f, o)
  /\ FactsAreLater(p, k, f, o, l) /\ EffectsAreRead(p, k, o, m)

IInv ==
  /\ TypeOK
  /\ FilesFit(file, outbox)
  /\ \A p \in Processes : ProcFits(p, proc[p], file, outbox, lock, outboxLock)

-----------------------------------------------------------------------------
(* Lists are converted one entry after the other. *)

\* A set of steps that holds no first one is empty.
LEMMA NoFirst ==
  ASSUME NEW n \in Nat, NEW S \in SUBSET (0 .. n), 0 \notin S,
         \A i \in 1 .. n : i \in S => i - 1 \in S
  PROVE  S = {}
<1> SUFFICES ASSUME S # {} PROVE FALSE
  OBVIOUS
<1>1. S \subseteq Nat
  OBVIOUS
<1>2. PICK i \in S : \A j \in S : ~ (<<j, i>> \in OpToRel(<, Nat))
  BY <1>1, NatLessThanWellFounded, WFMin
<1>3. i \in 1 .. n /\ i - 1 \in S /\ i - 1 \in Nat /\ i \in Nat
  OBVIOUS
<1>4. <<i - 1, i>> \in Nat \X Nat /\ <<i - 1, i>>[1] = i - 1 /\ <<i - 1, i>>[2] = i
  BY <1>3
<1>5. <<i - 1, i>> \in OpToRel(<, Nat)
  BY <1>3, <1>4 DEF OpToRel
<1> QED BY <1>2, <1>3, <1>5

\* There are the stages of a conversion, whatever a step makes of a stage.
LEMMA StagesExist ==
  ASSUME NEW T, NEW base \in T, NEW n \in Nat, NEW step \in [1 .. n -> [T -> T]]
  PROVE  \E g \in [0 .. n -> T] : g[0] = base /\ \A i \in 1 .. n : g[i] = step[i][g[i - 1]]
<1> DEFINE Is(k, g) == /\ g \in [0 .. k -> T] /\ g[0] = base
                       /\ \A i \in 1 .. k : g[i] = step[i][g[i - 1]]
           Bad == {k \in 0 .. n : ~ \E g : Is(k, g)}
<1>1. 0 \notin Bad
  <2> DEFINE g == [k \in 0 .. 0 |-> base]
  <2>1. Is(0, g)
    OBVIOUS
  <2> QED BY <2>1
<1>2. ASSUME NEW k \in 1 .. n, k \in Bad PROVE k - 1 \in Bad
  <2> SUFFICES ASSUME k - 1 \notin Bad PROVE FALSE
    OBVIOUS
  <2>1. PICK g : Is(k - 1, g)
    OBVIOUS
  <2> DEFINE h == [i \in 0 .. k |-> IF i = k THEN step[k][g[k - 1]] ELSE g[i]]
  <2>2. k - 1 \in 0 .. (k - 1) /\ g[k - 1] \in T /\ step[k][g[k - 1]] \in T
    BY <2>1
  <2>3. h \in [0 .. k -> T]
    BY <2>1, <2>2
  <2>4. h[0] = base
    BY <2>1
  <2>5. ASSUME NEW i \in 1 .. k PROVE h[i] = step[i][h[i - 1]]
    <3>1. i - 1 \in 0 .. k /\ i - 1 # k /\ h[i - 1] = g[i - 1]
      OBVIOUS
    <3>2. CASE i = k
      BY <3>1, <3>2
    <3>3. CASE i # k
      BY <2>1, <3>1, <3>3
    <3> QED BY <3>2, <3>3
  <2>6. Is(k, h)
    BY <2>3, <2>4, <2>5
  <2> HIDE DEF Is, h
  <2> QED BY <1>2, <2>6
<1> HIDE DEF Is
<1>3. Bad = {}
  <2>1. Bad \in SUBSET (0 .. n)
    OBVIOUS
  <2> HIDE DEF Bad
  <2> QED BY <1>1, <1>2, <2>1, NoFirst
<1>4. PICK g : Is(n, g)
  <2>1. n \in 0 .. n
    OBVIOUS
  <2> QED BY <1>3, <2>1
<1> QED BY <1>4 DEF Is

-----------------------------------------------------------------------------
(* What adding rows, notes and effects to a team leaves and brings. *)

Whats(t) ==
  IF t = "reports" THEN [kind : {"report"}, of : NoteIds]
  ELSE IF t = "refs" THEN [kind : {"ref"}, of : Messages]
  ELSE [kind : {"submitted", "event", "cleanup", "fact"}, of : NoteIds \cup EffectIds \cup Processes]

TableIndexed(rows, next) ==
  \A r, s \in rows : /\ r.id < next
                     /\ r.id = s.id \/ r.what = s.what => r = s

LEMMA IndexedByTable ==
  ASSUME NEW team, team # None
  PROVE  Indexed(team) <=> /\ TableIndexed(team.reports, team.next["reports"])
                           /\ TableIndexed(team.events, team.next["events"])
                           /\ TableIndexed(team.refs, team.next["refs"])
<1>1. Indexed(team) <=> \A t \in Tables : TableIndexed(team[t], team.next[t])
  BY DEF Indexed, TableIndexed
<1> QED BY <1>1 DEF Tables

\* A team with one more row in a table that has no such row.
LEMMA RowIsNew ==
  ASSUME NEW W, NEW rows \in SUBSET [id : Nat \ {0}, what : W], NEW next \in Nat \ {0},
         NEW what \in W, ~ \E r \in rows : r.what = what
  PROVE  LET more == rows \cup {[id |-> next, what |-> what]}
         IN  /\ more \in SUBSET [id : Nat \ {0}, what : W]
             /\ TableIndexed(rows, next) => TableIndexed(more, next + 1)
<1> DEFINE new == [id |-> next, what |-> what]
           more == rows \cup {new}
<1>1. new \in [id : Nat \ {0}, what : W] /\ new.id = next /\ new.what = what
  OBVIOUS
<1> HIDE DEF new
<1>2. ASSUME TableIndexed(rows, next), NEW r \in more, NEW s \in more
      PROVE  /\ r.id < next + 1
             /\ r.id = s.id \/ r.what = s.what => r = s
  <2>1. \A q \in rows : q.id \in Nat /\ q.id < next /\ q.what # what
    BY <1>2 DEF TableIndexed
  <2>2. CASE r \in rows /\ s \in rows
    BY <1>2, <2>1, <2>2 DEF TableIndexed
  <2>3. CASE r = new \/ s = new
    BY <1>1, <2>1, <2>3
  <2> QED BY <2>2, <2>3
<1>3. TableIndexed(rows, next) => TableIndexed(more, next + 1)
  BY <1>2 DEF TableIndexed
<1> QED BY <1>1, <1>3 DEF new

History(team) == team.reports \cup team.events \cup team.refs

\* c is b with more in its history.
Extends(b, c) ==
  /\ c \in Teams
  /\ c.legacy = b.legacy /\ c.notes = b.notes
  /\ b.reports \subseteq c.reports /\ b.events \subseteq c.events /\ b.refs \subseteq c.refs
  /\ b.cleaned \subseteq c.cleaned
  /\ Indexed(b) => Indexed(c)

HasRow(team, what) == \E r \in History(team) : r.what = what

\* The facts of c are b's.
NoFactAdded(b, c) == \A r \in c.events : r.what.kind = "fact" => r \in b.events

LEMMA ExtendsTwice ==
  ASSUME NEW a, NEW b, NEW c, Extends(a, b), Extends(b, c)
  PROVE  /\ Extends(a, c)
         /\ \A what : HasRow(a, what) => HasRow(b, what)
         /\ NoFactAdded(a, b) /\ NoFactAdded(b, c) => NoFactAdded(a, c)
BY DEF Extends, HasRow, History, NoFactAdded

LEMMA ExtendsKeeps ==
  ASSUME NEW b, NEW c, Extends(b, c)
  PROVE  \A what : HasRow(b, what) => HasRow(c, what)
BY DEF Extends, HasRow, History

LEMMA ExtendsSelf ==
  ASSUME NEW b \in Teams
  PROVE  Extends(b, b) /\ NoFactAdded(b, b)
BY DEF Extends, NoFactAdded

LEMMA AddRowAdds ==
  ASSUME NEW b \in Teams, NEW t \in Tables, NEW what \in Whats(t)
  PROVE  LET c == AddRow(b, t, what)
         IN  /\ Extends(b, c) /\ c.cleaned = b.cleaned
             /\ HasRow(c, what)
             /\ \A r \in c.events : r \in b.events \/ r.what = what
<1> DEFINE c == AddRow(b, t, what)
<1>1. CASE \E r \in b[t] : r.what = what
  <2>1. c = b
    BY <1>1 DEF AddRow
  <2>2. HasRow(b, what)
    BY <1>1 DEF HasRow, History, Tables
  <2> QED BY <2>1, <2>2, ExtendsSelf
<1>2. CASE ~ \E r \in b[t] : r.what = what
  <2> DEFINE more == b[t] \cup {[id |-> b.next[t], what |-> what]}
  <2>1. c = [b EXCEPT ![t] = more, !.next[t] = b.next[t] + 1]
    BY <1>2 DEF AddRow
  <2>2. /\ b.reports \in SUBSET [id : Nat \ {0}, what : Whats("reports")]
        /\ b.events \in SUBSET [id : Nat \ {0}, what : Whats("events")]
        /\ b.refs \in SUBSET [id : Nat \ {0}, what : Whats("refs")]
        /\ b[t] \in SUBSET [id : Nat \ {0}, what : Whats(t)]
        /\ b.next \in [Tables -> Nat \ {0}] /\ b.next[t] \in Nat \ {0}
    BY DEF Teams, Tables, Whats
  <2>3. /\ more \in SUBSET [id : Nat \ {0}, what : Whats(t)]
        /\ TableIndexed(b[t], b.next[t]) => TableIndexed(more, b.next[t] + 1)
    BY <1>2, <2>2, RowIsNew
  <2>4. /\ b[t] \subseteq more /\ \E r \in more : r.what = what
        /\ \A r \in more : r \in b[t] \/ r.what = what
    <3> DEFINE new == [id |-> b.next[t], what |-> what]
    <3>1. new.what = what /\ more = b[t] \cup {new}
      OBVIOUS
    <3> HIDE DEF new, more
    <3> QED BY <3>1
  <2> HIDE DEF more
  <2> DEFINE next == [b.next EXCEPT ![t] = b.next[t] + 1]
             Table(u) == IF u = t THEN more ELSE b[u]
             d == [legacy |-> b.legacy, notes |-> b.notes,
                   reports |-> Table("reports"), events |-> Table("events"), refs |-> Table("refs"),
                   next |-> next, cleaned |-> b.cleaned]
  <2>5. /\ next \in [Tables -> Nat \ {0}] /\ next[t] = b.next[t] + 1
        /\ \A u \in Tables \ {t} : next[u] = b.next[u]
    BY <2>2
  <2>6. c = d
    <3>1. b = [legacy |-> b.legacy, notes |-> b.notes, reports |-> b.reports,
               events |-> b.events, refs |-> b.refs, next |-> b.next, cleaned |-> b.cleaned]
      BY DEF Teams
    <3>2. t \in {"reports", "events", "refs"}
      BY DEF Tables
    <3> HIDE DEF c
    <3> QED BY <2>1, <3>1, <3>2
  <2> HIDE DEF next, c
  <2>7. ASSUME NEW u \in Tables
        PROVE  /\ Table(u) \in SUBSET [id : Nat \ {0}, what : Whats(u)]
               /\ b[u] \subseteq Table(u)
               /\ u = t => Table(u) = more
               /\ TableIndexed(b[u], b.next[u]) => TableIndexed(Table(u), next[u])
               /\ \A r \in Table(u) : r \in b[u] \/ r.what = what
    <3>1. CASE u = t
      BY <2>3, <2>4, <2>5, <3>1
    <3>2. CASE u # t
      <4>1. b[u] \in SUBSET [id : Nat \ {0}, what : Whats(u)]
        BY <2>2 DEF Tables
      <4> QED BY <2>5, <3>2, <4>1
    <3> QED BY <3>1, <3>2
  <2> HIDE DEF Table
  <2>8. /\ c.cleaned = b.cleaned /\ c.legacy = b.legacy
        /\ c.notes = b.notes /\ c.next = next
        /\ c.reports = Table("reports") /\ c.events = Table("events") /\ c.refs = Table("refs")
    BY <2>6
  <2>9. "reports" \in Tables /\ "events" \in Tables /\ "refs" \in Tables
    BY DEF Tables
  <2>10. c \in Teams
    <3>1. /\ b.legacy \in BOOLEAN /\ b.notes \in SUBSET Range(Notes)
          /\ b.cleaned \in SUBSET EffectIds
      BY DEF Teams
    <3>2. /\ Table("reports") \in SUBSET [id : Nat \ {0}, what : [kind : {"report"}, of : NoteIds]]
          /\ Table("refs") \in SUBSET [id : Nat \ {0}, what : [kind : {"ref"}, of : Messages]]
          /\ Table("events") \in SUBSET [id : Nat \ {0},
                                         what : [kind : {"submitted", "event", "cleanup", "fact"},
                                                 of : NoteIds \cup EffectIds \cup Processes]]
      BY <2>7, <2>9 DEF Whats
    <3> QED BY <2>5, <2>6, <3>1, <3>2 DEF Teams
  <2>11. Indexed(b) => Indexed(c)
    <3>1. b # None /\ c # None
      BY <2>10, NoneAssumption
    <3> QED BY <2>7, <2>8, <2>9, <3>1, IndexedByTable
  <2>12. Extends(b, c)
    BY <2>7, <2>8, <2>9, <2>10, <2>11 DEF Extends
  <2>13. HasRow(c, what)
    <3>1. more \subseteq History(c)
      BY <2>7, <2>8, <2>9 DEF History, Tables
    <3> QED BY <2>4, <3>1 DEF HasRow
  <2>14. \A r \in c.events : r \in b.events \/ r.what = what
    BY <2>7, <2>8, <2>9
  <2> QED BY <2>8, <2>12, <2>13, <2>14 DEF c
<1> QED BY <1>1, <1>2

\* What a note says is in the history once it was converted.
NoteIsSaid(team, note) ==
  (IsCommunicationRef(note) /\ note.link = None) \/ HasRow(team, RowOfNote(note))

LEMMA MigrateNoteAdds ==
  ASSUME NEW b \in Teams, NEW note \in Range(Notes)
  PROVE  LET c == MigrateNote(b, note)
         IN  Extends(b, c) /\ NoFactAdded(b, c) /\ NoteIsSaid(c, note)
<1>1. note.id \in NoteIds /\ note.link \in Messages \cup {None}
      /\ note.kind \in {"message", "report", "plain"}
  BY NotesAssumption DEF NoteIds
<1>2. "reports" \in Tables /\ "events" \in Tables /\ "refs" \in Tables
  BY DEF Tables
<1>3. CASE IsCommunicationRef(note)
  <2>1. MigrateNote(b, note) = MigrateMessageRefNote(b, note)
    BY <1>3 DEF MigrateNote
  <2>2. CASE note.link = None
    <3>1. MigrateNote(b, note) = b
      BY <2>1, <2>2 DEF MigrateMessageRefNote
    <3> QED BY <1>3, <2>2, <3>1, ExtendsSelf DEF NoteIsSaid
  <2>3. CASE note.link # None
    <3> DEFINE what == Row("ref", note.link)
    <3>1. what \in Whats("refs") /\ what.kind = "ref"
      BY <1>1, <2>3 DEF Whats, Row
    <3>2. RowOfNote(note) = what
      BY <1>3 DEF RowOfNote
    <3>3. MigrateNote(b, note) = AddRow(b, "refs", what)
      BY <2>1, <2>3 DEF MigrateMessageRefNote
    <3> HIDE DEF what
    <3>4. /\ Extends(b, AddRow(b, "refs", what)) /\ HasRow(AddRow(b, "refs", what), what)
          /\ NoFactAdded(b, AddRow(b, "refs", what))
      BY <1>2, <3>1, AddRowAdds DEF NoFactAdded
    <3> QED BY <3>2, <3>3, <3>4 DEF NoteIsSaid
  <2> QED BY <2>2, <2>3
<1>4. CASE ~IsCommunicationRef(note) /\ note.kind = "report"
  <2> DEFINE report == Row("report", note.id)
             submitted == Row("submitted", note.id)
             d == AddRow(b, "reports", report)
             c == AddRow(d, "events", submitted)
  <2>1. MigrateNote(b, note) = c
    BY <1>4 DEF MigrateNote, MigrateReportNote
  <2>2. /\ report \in Whats("reports") /\ report.kind = "report"
        /\ submitted \in Whats("events") /\ submitted.kind = "submitted"
    BY <1>1 DEF Whats, Row
  <2>3. RowOfNote(note) = report
    BY <1>4 DEF RowOfNote
  <2> HIDE DEF report, submitted
  <2>4. Extends(b, d) /\ HasRow(d, report) /\ NoFactAdded(b, d)
    BY <1>2, <2>2, AddRowAdds DEF NoFactAdded
  <2> HIDE DEF d
  <2>5. d \in Teams
    BY <2>4 DEF Extends
  <2>6. Extends(d, c) /\ NoFactAdded(d, c)
    BY <1>2, <2>2, <2>5, AddRowAdds DEF NoFactAdded
  <2> HIDE DEF c
  <2>7. Extends(b, c) /\ HasRow(c, report) /\ NoFactAdded(b, c)
    BY <2>4, <2>6, ExtendsTwice, ExtendsKeeps
  <2> QED BY <2>1, <2>3, <2>7 DEF NoteIsSaid
<1>5. CASE ~IsCommunicationRef(note) /\ note.kind = "plain"
  <2> DEFINE what == Row("event", note.id)
  <2>1. MigrateNote(b, note) = AddRow(b, "events", what)
    BY <1>5 DEF MigrateNote, MigrateEventNote
  <2>2. what \in Whats("events") /\ what.kind = "event"
    BY <1>1 DEF Whats, Row
  <2>3. RowOfNote(note) = what
    BY <1>5 DEF RowOfNote
  <2> HIDE DEF what
  <2>4. /\ Extends(b, AddRow(b, "events", what)) /\ HasRow(AddRow(b, "events", what), what)
        /\ NoFactAdded(b, AddRow(b, "events", what))
    BY <1>2, <2>2, AddRowAdds DEF NoFactAdded
  <2> QED BY <2>1, <2>3, <2>4 DEF NoteIsSaid
<1>6. \/ IsCommunicationRef(note)
      \/ ~IsCommunicationRef(note) /\ note.kind = "report"
      \/ ~IsCommunicationRef(note) /\ note.kind = "plain"
  BY <1>1 DEF IsCommunicationRef
<1> QED BY <1>3, <1>4, <1>5, <1>6

\* What a note effect says is in the team once it was converted.
EffectIsSaid(team, e) ==
  /\ e.link # None => HasRow(team, Row("ref", e.link))
  /\ e.id \in team.cleaned

LEMMA MigrateEffectAdds ==
  ASSUME NEW b \in Teams, NEW e \in Range(Legacy)
  PROVE  LET c == MigrateEffect(b, e)
         IN  Extends(b, c) /\ NoFactAdded(b, c) /\ EffectIsSaid(c, e)
<1> DEFINE ref == Row("ref", e.link)
           cleanup == Row("cleanup", e.id)
           d == IF e.link = None THEN b ELSE AddRow(b, "refs", ref)
           n == [d EXCEPT !.cleaned = @ \cup {e.id}]
           c == AddRow(n, "events", cleanup)
<1>1. MigrateEffect(b, e) = c
  BY DEF MigrateEffect
<1>2. "events" \in Tables /\ "refs" \in Tables
  BY DEF Tables
<1>3. /\ e.id \in EffectIds /\ e.link \in Messages \cup {None}
      /\ cleanup \in Whats("events") /\ cleanup.kind = "cleanup"
      /\ e.link # None => ref \in Whats("refs") /\ ref.kind = "ref"
  BY LegacyAssumption DEF EffectIds, Whats, Row
<1>4. Extends(b, d) /\ NoFactAdded(b, d) /\ (e.link # None => HasRow(d, ref))
  <2> HIDE DEF ref
  <2>1. CASE e.link = None
    BY <2>1, ExtendsSelf
  <2>2. CASE e.link # None
    BY <1>2, <1>3, <2>2, AddRowAdds DEF NoFactAdded
  <2> QED BY <2>1, <2>2
<1> HIDE DEF ref, cleanup, d
<1>5. d \in Teams
  BY <1>4 DEF Extends
<1>6. /\ n \in Teams /\ n.cleaned = d.cleaned \cup {e.id}
      /\ n.reports = d.reports /\ n.events = d.events /\ n.refs = d.refs /\ n.next = d.next
      /\ n.legacy = d.legacy /\ n.notes = d.notes
  BY <1>3, <1>5 DEF Teams
<1> HIDE DEF n
<1>7. Indexed(d) => Indexed(n)
  <2>1. d # None /\ n # None
    BY <1>5, <1>6, NoneAssumption
  <2> QED BY <1>6, <2>1, IndexedByTable
<1>8. Extends(d, n) /\ NoFactAdded(d, n)
  BY <1>6, <1>7 DEF Extends, NoFactAdded
<1>9. Extends(n, c) /\ NoFactAdded(n, c) /\ c.cleaned = n.cleaned
  BY <1>2, <1>3, <1>6, AddRowAdds DEF NoFactAdded
<1> HIDE DEF c
<1>10. Extends(b, n) /\ NoFactAdded(b, n) /\ (e.link # None => HasRow(n, ref))
  BY <1>4, <1>8, ExtendsTwice, ExtendsKeeps
<1>11. Extends(b, c) /\ NoFactAdded(b, c) /\ (e.link # None => HasRow(c, ref))
  BY <1>9, <1>10, ExtendsTwice, ExtendsKeeps
<1>12. e.id \in c.cleaned
  BY <1>6, <1>9
<1> QED BY <1>1, <1>11, <1>12 DEF EffectIsSaid, ref

-----------------------------------------------------------------------------
(* A migration brings all there was to convert into the history. *)
LEMMA NotesInTurn ==
  ASSUME NEW team \in Teams
  PROVE  LET c == InTurn(MigrateNote, team, Notes, team.notes)
         IN  /\ Extends(team, c) /\ NoFactAdded(team, c)
             /\ \A x \in team.notes : NoteIsSaid(c, x)
<1> DEFINE n == Len(Notes)
           Turn(t, i) == IF Notes[i] \in team.notes THEN MigrateNote(t, Notes[i]) ELSE t
           Stages(f) == f = [k \in 0 .. n |->
             IF k = 0 THEN team
             ELSE IF Notes[k] \in team.notes THEN MigrateNote(f[k - 1], Notes[k])
             ELSE f[k - 1]]
           after == CHOOSE f : Stages(f)
<1>1. n \in Nat /\ Range(Notes) = {Notes[i] : i \in 1 .. n} /\ team.notes \subseteq Range(Notes)
  BY NotesAssumption DEF Range, Teams
<1>2. \A i \in 1 .. n : Notes[i] \in Range(Notes)
  BY <1>1
<1>3. InTurn(MigrateNote, team, Notes, team.notes) = after[n]
  BY DEF InTurn
<1>4. ASSUME NEW t \in Teams, NEW i \in 1 .. n PROVE Turn(t, i) \in Teams
  BY <1>2, MigrateNoteAdds, ExtendsSelf DEF Extends
<1>5. Stages(after)
  <2>0. \A step \in [1 .. n -> [Teams -> Teams]] : \E g \in [0 .. n -> Teams] :
          g[0] = team /\ \A i \in 1 .. n : g[i] = step[i][g[i - 1]]
    <3>1. n \in Nat
      BY <1>1
    <3> HIDE DEF n
    <3> QED BY <3>1, StagesExist
  <2> DEFINE step == [i \in 1 .. n |-> [t \in Teams |-> Turn(t, i)]]
  <2>1. step \in [1 .. n -> [Teams -> Teams]]
    BY <1>4
  <2>2. \A i \in 1 .. n : \A t \in Teams : step[i][t] = Turn(t, i)
    OBVIOUS
  <2> HIDE DEF step, n
  <2>3. PICK g \in [0 .. n -> Teams] :
          g[0] = team /\ \A i \in 1 .. n : g[i] = step[i][g[i - 1]]
    BY <2>1, <2>0
  <2>4. ASSUME NEW i \in 1 .. n PROVE g[i] = Turn(g[i - 1], i)
    <3>1. i - 1 \in 0 .. n
      BY <1>1
    <3> QED BY <2>2, <2>3, <3>1
  <2>5. ASSUME NEW k \in 0 .. n
        PROVE  g[k] = IF k = 0 THEN team
                      ELSE IF Notes[k] \in team.notes THEN MigrateNote(g[k - 1], Notes[k])
                      ELSE g[k - 1]
    <3>1. CASE k = 0
      BY <2>3, <3>1
    <3>2. CASE k # 0
      <4>1. k \in 1 .. n
        BY <1>1, <3>2
      <4> QED BY <2>4, <3>2, <4>1
    <3> QED BY <3>1, <3>2
  <2>6. Stages(g)
    BY <2>3, <2>5
  <2> HIDE DEF Stages
  <2> QED BY <2>6
<1>6. after[0] = team /\ \A i \in 1 .. n : after[i] = Turn(after[i - 1], i)
  <2> HIDE DEF after
  <2>1. after[0] = team
    BY <1>1, <1>5
  <2>2. ASSUME NEW i \in 1 .. n PROVE after[i] = Turn(after[i - 1], i)
    <3>1. i \in 0 .. n /\ i # 0
      BY <1>1
    <3> QED BY <1>5, <3>1
  <2> QED BY <2>1, <2>2
<1> HIDE DEF after, Stages
<1> DEFINE Good(k) == /\ Extends(team, after[k]) /\ NoFactAdded(team, after[k])
                      /\ \A j \in 1 .. k : Notes[j] \in team.notes => NoteIsSaid(after[k], Notes[j])
           Bad == {k \in 0 .. n : ~ Good(k)}
<1>7. 0 \notin Bad
  <2>1. Good(0)
    BY <1>6, ExtendsSelf
  <2> QED BY <2>1
<1>8. ASSUME NEW i \in 1 .. n, Good(i - 1) PROVE Good(i)
  <2> DEFINE a == after[i - 1]
             b == after[i]
  <2>1. /\ Extends(team, a) /\ NoFactAdded(team, a) /\ a \in Teams
        /\ \A j \in 1 .. (i - 1) : Notes[j] \in team.notes => NoteIsSaid(a, Notes[j])
    BY <1>8 DEF Extends
  <2>2. b = Turn(a, i)
    BY <1>6
  <2> HIDE DEF a, b
  <2>3. /\ Extends(a, b) /\ NoFactAdded(a, b)
        /\ Notes[i] \in team.notes => NoteIsSaid(b, Notes[i])
    <3>1. CASE Notes[i] \in team.notes
      BY <1>2, <2>1, <2>2, <3>1, MigrateNoteAdds
    <3>2. CASE Notes[i] \notin team.notes
      BY <2>1, <2>2, <3>2, ExtendsSelf
    <3> QED BY <3>1, <3>2
  <2>4. Extends(team, b) /\ NoFactAdded(team, b)
    BY <2>1, <2>3, ExtendsTwice
  <2>5. \A x : NoteIsSaid(a, x) => NoteIsSaid(b, x)
    BY <2>3, ExtendsKeeps DEF NoteIsSaid, Extends
  <2>6. ASSUME NEW j \in 1 .. i, Notes[j] \in team.notes PROVE NoteIsSaid(b, Notes[j])
    <3>1. CASE j = i
      BY <2>3, <2>6, <3>1
    <3>2. CASE j # i
      <4>1. j \in 1 .. (i - 1)
        BY <1>1, <3>2
      <4> QED BY <2>1, <2>5, <2>6, <4>1
    <3> QED BY <3>1, <3>2
  <2> QED BY <2>4, <2>6 DEF b
<1> HIDE DEF Good, Turn
<1>9. Good(n)
  <2>1. Bad \in SUBSET (0 .. n)
    OBVIOUS
  <2>2. \A i \in 1 .. n : i \in Bad => i - 1 \in Bad
    <3> TAKE i \in 1 .. n
    <3>1. i - 1 \in 0 .. n
      BY <1>1
    <3> QED BY <1>8, <3>1
  <2>3. n \in 0 .. n
    BY <1>1
  <2> HIDE DEF Bad, n
  <2>4. Bad = {}
    BY <1>1, <1>7, <2>1, <2>2, NoFirst
  <2> QED BY <2>3, <2>4 DEF Bad
<1>10. \A x \in team.notes : NoteIsSaid(after[n], x)
  BY <1>1, <1>9 DEF Good
<1> QED BY <1>3, <1>9, <1>10 DEF Good

LEMMA EffectsInTurn ==
  ASSUME NEW team \in Teams, NEW effects \in SUBSET Effects
  PROVE  LET c == InTurn(MigrateEffect, team, Legacy, NoteEffects(effects))
         IN  /\ Extends(team, c) /\ NoFactAdded(team, c)
             /\ \A x \in NoteEffects(effects) : EffectIsSaid(c, x)
<1> DEFINE n == Len(Legacy)
           Turn(t, i) == IF Legacy[i] \in NoteEffects(effects) THEN MigrateEffect(t, Legacy[i]) ELSE t
           Stages(f) == f = [k \in 0 .. n |->
             IF k = 0 THEN team
             ELSE IF Legacy[k] \in NoteEffects(effects) THEN MigrateEffect(f[k - 1], Legacy[k])
             ELSE f[k - 1]]
           after == CHOOSE f : Stages(f)
<1>1. /\ n \in Nat /\ Range(Legacy) = {Legacy[i] : i \in 1 .. n}
      /\ NoteEffects(effects) \subseteq Range(Legacy)
  BY LegacyAssumption DEF Range, NoteEffects, Effects, NewEffect
<1>2. \A i \in 1 .. n : Legacy[i] \in Range(Legacy)
  BY <1>1
<1>3. InTurn(MigrateEffect, team, Legacy, NoteEffects(effects)) = after[n]
  BY DEF InTurn
<1>4. ASSUME NEW t \in Teams, NEW i \in 1 .. n PROVE Turn(t, i) \in Teams
  BY <1>2, MigrateEffectAdds, ExtendsSelf DEF Extends
<1>5. Stages(after)
  <2>0. \A step \in [1 .. n -> [Teams -> Teams]] : \E g \in [0 .. n -> Teams] :
          g[0] = team /\ \A i \in 1 .. n : g[i] = step[i][g[i - 1]]
    <3>1. n \in Nat
      BY <1>1
    <3> HIDE DEF n
    <3> QED BY <3>1, StagesExist
  <2> DEFINE step == [i \in 1 .. n |-> [t \in Teams |-> Turn(t, i)]]
  <2>1. step \in [1 .. n -> [Teams -> Teams]]
    BY <1>4
  <2>2. \A i \in 1 .. n : \A t \in Teams : step[i][t] = Turn(t, i)
    OBVIOUS
  <2> HIDE DEF step, n
  <2>3. PICK g \in [0 .. n -> Teams] :
          g[0] = team /\ \A i \in 1 .. n : g[i] = step[i][g[i - 1]]
    BY <2>1, <2>0
  <2>4. ASSUME NEW i \in 1 .. n PROVE g[i] = Turn(g[i - 1], i)
    <3>1. i - 1 \in 0 .. n
      BY <1>1
    <3> QED BY <2>2, <2>3, <3>1
  <2>5. ASSUME NEW k \in 0 .. n
        PROVE  g[k] = IF k = 0 THEN team
                      ELSE IF Legacy[k] \in NoteEffects(effects) THEN MigrateEffect(g[k - 1], Legacy[k])
                      ELSE g[k - 1]
    <3>1. CASE k = 0
      BY <2>3, <3>1
    <3>2. CASE k # 0
      <4>1. k \in 1 .. n
        BY <1>1, <3>2
      <4> QED BY <2>4, <3>2, <4>1
    <3> QED BY <3>1, <3>2
  <2>6. Stages(g)
    BY <2>3, <2>5
  <2> HIDE DEF Stages
  <2> QED BY <2>6
<1>6. after[0] = team /\ \A i \in 1 .. n : after[i] = Turn(after[i - 1], i)
  <2> HIDE DEF after
  <2>1. after[0] = team
    BY <1>1, <1>5
  <2>2. ASSUME NEW i \in 1 .. n PROVE after[i] = Turn(after[i - 1], i)
    <3>1. i \in 0 .. n /\ i # 0
      BY <1>1
    <3> QED BY <1>5, <3>1
  <2> QED BY <2>1, <2>2
<1> HIDE DEF after, Stages
<1> DEFINE Good(k) == /\ Extends(team, after[k]) /\ NoFactAdded(team, after[k])
                      /\ \A j \in 1 .. k : Legacy[j] \in NoteEffects(effects) => EffectIsSaid(after[k], Legacy[j])
           Bad == {k \in 0 .. n : ~ Good(k)}
<1>7. 0 \notin Bad
  <2>1. Good(0)
    BY <1>6, ExtendsSelf
  <2> QED BY <2>1
<1>8. ASSUME NEW i \in 1 .. n, Good(i - 1) PROVE Good(i)
  <2> DEFINE a == after[i - 1]
             b == after[i]
  <2>1. /\ Extends(team, a) /\ NoFactAdded(team, a) /\ a \in Teams
        /\ \A j \in 1 .. (i - 1) : Legacy[j] \in NoteEffects(effects) => EffectIsSaid(a, Legacy[j])
    BY <1>8 DEF Extends
  <2>2. b = Turn(a, i)
    BY <1>6
  <2> HIDE DEF a, b
  <2>3. /\ Extends(a, b) /\ NoFactAdded(a, b)
        /\ Legacy[i] \in NoteEffects(effects) => EffectIsSaid(b, Legacy[i])
    <3>1. CASE Legacy[i] \in NoteEffects(effects)
      BY <1>2, <2>1, <2>2, <3>1, MigrateEffectAdds
    <3>2. CASE Legacy[i] \notin NoteEffects(effects)
      BY <2>1, <2>2, <3>2, ExtendsSelf
    <3> QED BY <3>1, <3>2
  <2>4. Extends(team, b) /\ NoFactAdded(team, b)
    BY <2>1, <2>3, ExtendsTwice
  <2>5. \A x : EffectIsSaid(a, x) => EffectIsSaid(b, x)
    BY <2>3, ExtendsKeeps DEF EffectIsSaid, Extends
  <2>6. ASSUME NEW j \in 1 .. i, Legacy[j] \in NoteEffects(effects) PROVE EffectIsSaid(b, Legacy[j])
    <3>1. CASE j = i
      BY <2>3, <2>6, <3>1
    <3>2. CASE j # i
      <4>1. j \in 1 .. (i - 1)
        BY <1>1, <3>2
      <4> QED BY <2>1, <2>5, <2>6, <4>1
    <3> QED BY <3>1, <3>2
  <2> QED BY <2>4, <2>6 DEF b
<1> HIDE DEF Good, Turn
<1>9. Good(n)
  <2>1. Bad \in SUBSET (0 .. n)
    OBVIOUS
  <2>2. \A i \in 1 .. n : i \in Bad => i - 1 \in Bad
    <3> TAKE i \in 1 .. n
    <3>1. i - 1 \in 0 .. n
      BY <1>1
    <3> QED BY <1>8, <3>1
  <2>3. n \in 0 .. n
    BY <1>1
  <2> HIDE DEF Bad, n
  <2>4. Bad = {}
    BY <1>1, <1>7, <2>1, <2>2, NoFirst
  <2> QED BY <2>3, <2>4 DEF Bad
<1>10. \A x \in NoteEffects(effects) : EffectIsSaid(after[n], x)
  BY <1>1, <1>9 DEF Good
<1> QED BY <1>3, <1>9, <1>10 DEF Good

\* What is said of a team: its history, the cleanups it noted, and its notes.
LEMMA SaidIs ==
  ASSUME NEW team, team # None, NEW what
  PROVE  what \in Said(team) <=>
           \/ HasRow(team, what)
           \/ \E e \in team.cleaned : what = Row("cleaned", e)
           \/ \E n \in team.notes : (IsCommunicationRef(n) => n.link # None) /\ what = RowOfNote(n)
BY DEF Said, HasRow, History

LEMMA FactsAre ==
  ASSUME NEW team, team # None, NEW what
  PROVE  what \in Facts(team) <=> \E r \in team.events : r.what = what /\ what.kind = "fact"
BY DEF Facts

LEMMA NoFactAddedIs ==
  ASSUME NEW b, NEW c, b # None, c # None, NoFactAdded(b, c)
  PROVE  Facts(c) \subseteq Facts(b)
BY DEF Facts, NoFactAdded

\* What is pending of the effects of an earlier version.
Owed(effects) ==
  {Row("ref", e.link) : e \in {d \in NoteEffects(effects) : d.link # None}}
  \cup {Row("cleaned", e.id) : e \in NoteEffects(effects)}

LEMMA MigrationKeeps ==
  ASSUME NEW b \in Teams, NEW effects \in SUBSET Effects
  PROVE  LET m == MigrateLegacyTaskNoteOutboxEffects(MigrateTaskNotesToHistory(b), effects)
         IN  /\ m \in Teams /\ ~m.legacy /\ m.notes = {}
             /\ Indexed(b) => Indexed(m)
             /\ Facts(m) \subseteq Facts(b)
             /\ Said(b) \cup Owed(effects) \subseteq Said(m)
<1> DEFINE c == InTurn(MigrateNote, b, Notes, b.notes)
           d == [c EXCEPT !.legacy = FALSE, !.notes = {}]
           m == InTurn(MigrateEffect, d, Legacy, NoteEffects(effects))
<1>1. MigrateLegacyTaskNoteOutboxEffects(MigrateTaskNotesToHistory(b), effects) = m
  BY DEF MigrateLegacyTaskNoteOutboxEffects, MigrateTaskNotesToHistory
<1>2. Extends(b, c) /\ NoFactAdded(b, c) /\ \A n \in b.notes : NoteIsSaid(c, n)
  BY NotesInTurn
<1> HIDE DEF c
<1>3. c \in Teams
  BY <1>2 DEF Extends
<1>4. /\ d \in Teams /\ d.legacy = FALSE /\ d.notes = {} /\ d.cleaned = c.cleaned
      /\ d.reports = c.reports /\ d.events = c.events /\ d.refs = c.refs /\ d.next = c.next
  BY <1>3 DEF Teams
<1> HIDE DEF d
<1>5. /\ Indexed(c) => Indexed(d)
      /\ NoFactAdded(c, d) /\ \A what : HasRow(c, what) => HasRow(d, what)
  <2>1. c # None /\ d # None
    BY <1>3, <1>4, NoneAssumption
  <2> QED BY <1>4, <2>1, IndexedByTable DEF NoFactAdded, HasRow, History
<1>6. /\ Extends(d, m) /\ NoFactAdded(d, m)
      /\ \A e \in NoteEffects(effects) : EffectIsSaid(m, e)
  BY <1>4, EffectsInTurn
<1> HIDE DEF m
<1>7. m \in Teams /\ m.legacy = FALSE /\ m.notes = {} /\ d.cleaned \subseteq m.cleaned
  BY <1>4, <1>6 DEF Extends
<1>8. b # None /\ c # None /\ d # None /\ m # None
  BY <1>3, <1>4, <1>7, NoneAssumption
<1>9. Indexed(b) => Indexed(m)
  BY <1>2, <1>5, <1>6 DEF Extends
<1>10. Facts(m) \subseteq Facts(b)
  BY <1>2, <1>5, <1>6, <1>8, NoFactAddedIs
<1>11. /\ \A what : HasRow(b, what) => HasRow(m, what)
       /\ \A what : HasRow(c, what) => HasRow(m, what)
       /\ b.cleaned \subseteq m.cleaned
  BY <1>2, <1>4, <1>5, <1>6, <1>7, ExtendsKeeps DEF Extends
<1>12. ASSUME NEW what \in Said(b) PROVE what \in Said(m)
  <2>1. CASE HasRow(b, what)
    BY <1>8, <1>11, <2>1, SaidIs
  <2>2. CASE \E e \in b.cleaned : what = Row("cleaned", e)
    BY <1>8, <1>11, <2>2, SaidIs
  <2>3. ASSUME NEW n \in b.notes, IsCommunicationRef(n) => n.link # None, what = RowOfNote(n)
        PROVE  what \in Said(m)
    <3>1. HasRow(c, what)
      BY <1>2, <2>3 DEF NoteIsSaid
    <3> QED BY <1>8, <1>11, <3>1, SaidIs
  <2> QED BY <1>8, <1>12, <2>1, <2>2, <2>3, SaidIs
<1>13. ASSUME NEW e \in NoteEffects(effects)
       PROVE  /\ e.link # None => Row("ref", e.link) \in Said(m)
              /\ Row("cleaned", e.id) \in Said(m)
  BY <1>6, <1>8, SaidIs DEF EffectIsSaid
<1>14. Owed(effects) \subseteq Said(m)
  BY <1>13 DEF Owed
<1> QED BY <1>1, <1>7, <1>9, <1>10, <1>12, <1>14

-----------------------------------------------------------------------------
(* What an operation makes of a team. *)

LEMMA InitialTeams ==
  /\ CreateInitialTeam \in Teams /\ LegacyTeam \in Teams
  /\ Indexed(CreateInitialTeam) /\ Indexed(LegacyTeam)
  /\ ~CreateInitialTeam.legacy /\ CreateInitialTeam.notes = {}
  /\ LegacyTeam.legacy
  /\ Facts(CreateInitialTeam) = {} /\ Facts(LegacyTeam) = {}
<1> DEFINE next == [t \in Tables |-> 1]
           i == CreateInitialTeam
           l == LegacyTeam
<1>1. /\ i \in Teams /\ i.reports = {} /\ i.events = {} /\ i.refs = {}
      /\ i.notes = {} /\ i.legacy = FALSE
  <2>1. next \in [Tables -> Nat \ {0}]
    OBVIOUS
  <2>2. i = [legacy |-> FALSE, notes |-> {}, reports |-> {}, events |-> {},
             refs |-> {}, next |-> next, cleaned |-> {}]
    BY DEF CreateInitialTeam
  <2> HIDE DEF next, i
  <2> QED BY <2>1, <2>2 DEF Teams
<1>2. l = [i EXCEPT !.legacy = TRUE, !.notes = Range(Notes)]
  BY DEF LegacyTeam
<1> HIDE DEF i, l
<1>3. /\ l \in Teams /\ l.reports = {} /\ l.events = {} /\ l.refs = {} /\ l.legacy = TRUE
  BY <1>1, <1>2 DEF Teams
<1>4. i # None /\ l # None
  BY <1>1, <1>3, NoneAssumption
<1>5. Indexed(i) /\ Indexed(l)
  BY <1>1, <1>3, <1>4, IndexedByTable DEF TableIndexed
<1>6. Facts(i) = {} /\ Facts(l) = {}
  BY <1>1, <1>3 DEF Facts
<1> QED BY <1>1, <1>3, <1>5, <1>6 DEF i, l

\* What an update is to keep of the team b it was made from.
Keeps(b, c) ==
  /\ c \in Teams /\ c.legacy = b.legacy /\ c.notes = b.notes
  /\ Indexed(b) => Indexed(c)
  /\ Said(b) \subseteq Said(c)

LEMMA MergeKeeps ==
  ASSUME NEW b \in Teams, ~b.legacy, b.notes = {}
  PROVE  Keeps(b, MergeTeamStates(b, CreateInitialTeam))
<1> DEFINE i == CreateInitialTeam
           m == MergeTeamStates(b, i)
<1>1. /\ i \in Teams /\ i.legacy = FALSE /\ i.notes = {} /\ i.cleaned = {}
      /\ i.reports = {} /\ i.events = {} /\ i.refs = {} /\ i.next = [t \in Tables |-> 1]
  BY InitialTeams DEF CreateInitialTeam
<1>2. MergeRows(b.reports, {}) = b.reports /\ MergeRows(b.events, {}) = b.events
      /\ MergeRefs(b.refs, {}) = b.refs
  BY DEF MergeRows, MergeRefs
<1> HIDE DEF i
<1>3. b.next = [t \in Tables |-> IF b.next[t] > i.next[t] THEN b.next[t] ELSE i.next[t]]
  <2>1. b.next \in [Tables -> Nat \ {0}]
    BY DEF Teams
  <2> QED BY <1>1, <2>1
<1>4. /\ m \in Teams
      /\ m.reports = b.reports /\ m.events = b.events /\ m.refs = b.refs
      /\ m.next = b.next /\ m.cleaned = b.cleaned /\ m.legacy = FALSE /\ m.notes = {}
  <2>1. /\ MergeRows(b.reports, i.reports) = b.reports /\ MergeRows(b.events, i.events) = b.events
        /\ MergeRefs(b.refs, i.refs) = b.refs /\ i.cleaned \cup b.cleaned = b.cleaned
    BY <1>1, <1>2
  <2> DEFINE next == [t \in Tables |-> IF b.next[t] > i.next[t] THEN b.next[t] ELSE i.next[t]]
  <2>2. m = [i EXCEPT !.reports = MergeRows(b.reports, i.reports),
                      !.events = MergeRows(b.events, i.events),
                      !.refs = MergeRefs(b.refs, i.refs),
                      !.cleaned = i.cleaned \cup b.cleaned, !.next = next]
    BY DEF MergeTeamStates
  <2> HIDE DEF m
  <2>3. next = b.next
    BY <1>3
  <2> HIDE DEF next
  <2>4. m = [i EXCEPT !.reports = b.reports, !.events = b.events, !.refs = b.refs,
                      !.cleaned = b.cleaned, !.next = b.next]
    BY <2>1, <2>2, <2>3
  <2> QED BY <1>1, <2>4 DEF Teams
<1> HIDE DEF m
<1>6. b # None /\ m # None
  BY <1>4, NoneAssumption
<1>7. Indexed(b) => Indexed(m)
  BY <1>4, <1>6, IndexedByTable
<1>8. Said(b) \subseteq Said(m)
  BY <1>4, <1>6, SaidIs DEF HasRow, History
<1>9. b.legacy = FALSE
  BY DEF Teams
<1> QED BY <1>4, <1>7, <1>8, <1>9 DEF Keeps, m, i

LEMMA FactKeeps ==
  ASSUME NEW b \in Teams, NEW p \in Processes
  PROVE  Keeps(b, AddRow(b, "events", Row("fact", p)))
<1> DEFINE what == Row("fact", p)
           c == AddRow(b, "events", what)
<1>1. what \in Whats("events") /\ "events" \in Tables
  BY DEF Whats, Row, Tables
<1> HIDE DEF what
<1>2. Extends(b, c)
  BY <1>1, AddRowAdds
<1> HIDE DEF c
<1>3. c \in Teams /\ c.notes = b.notes /\ b.cleaned \subseteq c.cleaned
  BY <1>2 DEF Extends
<1>4. b # None /\ c # None
  BY <1>3, NoneAssumption
<1>5. Said(b) \subseteq Said(c)
  BY <1>2, <1>3, <1>4, SaidIs, ExtendsKeeps
<1> QED BY <1>2, <1>3, <1>5 DEF Keeps, Extends, c, what

-----------------------------------------------------------------------------
(* What a step has to keep. *)

Inboxes == {None, "there", "unsupported"} \cup Processes

LEMMA StepKeeps ==
  ASSUME IInv, NEW p \in Processes, NEW k \in ProcState, Becomes(p, k),
         file' \in Teams \cup {None}, outbox' \subseteq Effects, inbox' \in Inboxes,
         lock' \in Processes \cup {None}, outboxLock' \in Processes \cup {None},
         quarantined' \in BOOLEAN, ops' \in 0 .. MaxOps, faults' \in 0 .. MaxFaults,
         FilesFit(file', outbox'),
         Migrated(file) => Migrated(file'), Converted(outbox) => Converted(outbox'),
         \A q \in Processes \ {p} : lock' = q => lock = q /\ Facts(file') \subseteq Facts(file),
         \A q \in Processes \ {p} :
           outboxLock' = q => outboxLock = q /\ NewEffects(outbox') \subseteq NewEffects(outbox),
         ProcFits(p, k, file', outbox', lock', outboxLock')
  PROVE  IInv'
<1>1. proc' = [proc EXCEPT ![p] = k]
  BY DEF Becomes
<1>2. TypeOK'
  BY <1>1 DEF IInv, TypeOK, Inboxes
<1>3. ASSUME NEW q \in Processes
      PROVE  ProcFits(q, proc'[q], file', outbox', lock', outboxLock')
  <2>1. CASE q = p
    <3>1. proc'[q] = k
      BY <1>1, <2>1 DEF IInv, TypeOK
    <3> QED BY <2>1, <3>1
  <2>2. CASE q # p
    <3>1. proc'[q] = proc[q] /\ ProcFits(q, proc[q], file, outbox, lock, outboxLock)
      BY <1>1, <2>2 DEF IInv, TypeOK
    <3>2. Reached(proc[q], file', outbox')
      BY <3>1 DEF ProcFits, Reached
    <3>3. FactsAreLater(q, proc[q], file', outbox', lock')
      BY <2>2, <3>1 DEF ProcFits, FactsAreLater
    <3>4. EffectsAreRead(q, proc[q], outbox', outboxLock')
      BY <2>2, <3>1 DEF ProcFits, EffectsAreRead
    <3> QED BY <3>1, <3>2, <3>3, <3>4 DEF ProcFits
  <2> QED BY <2>1, <2>2
<1> QED BY <1>2, <1>3 DEF IInv

\* A step of p that leaves the files alone.
LEMMA LocalStepKeeps ==
  ASSUME IInv, NEW p \in Processes, NEW k \in ProcState, Becomes(p, k),
         file' = file, outbox' = outbox, inbox' \in Inboxes, quarantined' = quarantined,
         lock' = lock \/ lock' = p, outboxLock' = outboxLock \/ outboxLock' = p,
         ops' \in 0 .. MaxOps, faults' \in 0 .. MaxFaults,
         Shape(p, k), CopiesFit(k), Reached(k, file, outbox),
         FactsAreLater(p, k, file, outbox, lock'), EffectsAreRead(p, k, outbox, outboxLock')
  PROVE  IInv'
<1>1. /\ file' \in Teams \cup {None} /\ outbox' \subseteq Effects /\ lock' \in Processes \cup {None}
      /\ outboxLock' \in Processes \cup {None}
      /\ quarantined' \in BOOLEAN /\ FilesFit(file', outbox')
  BY DEF IInv, TypeOK
<1>2. /\ Migrated(file) => Migrated(file')
      /\ Converted(outbox) => Converted(outbox')
      /\ ProcFits(p, k, file', outbox', lock', outboxLock')
  BY DEF ProcFits
<1>3. \A q \in Processes \ {p} :
        /\ lock' = q => lock = q /\ Facts(file') \subseteq Facts(file)
        /\ outboxLock' = q => outboxLock = q /\ NewEffects(outbox') \subseteq NewEffects(outbox)
  OBVIOUS
<1> QED BY <1>1, <1>2, <1>3, StepKeeps

\* One that changes nothing but p, unless to begin an operation or for a fault.
LEMMA QuietStepKeeps ==
  ASSUME IInv, NEW p \in Processes, NEW k \in ProcState, Becomes(p, k),
         UNCHANGED <<file, outbox, inbox, lock, outboxLock, quarantined>>,
         ops' \in 0 .. MaxOps, faults' \in 0 .. MaxFaults, k.pc # "write",
         Shape(p, k), CopiesFit(k), Reached(k, file, outbox),
         FactsAreLater(p, k, file, outbox, lock)
  PROVE  IInv'
<1>1. inbox' \in Inboxes
  BY DEF IInv, TypeOK, Inboxes
<1>2. EffectsAreRead(p, k, outbox, outboxLock')
  BY DEF EffectsAreRead
<1> QED BY <1>1, <1>2, LocalStepKeeps

LEMMA IdleFits ==
  ASSUME NEW p \in Processes, NEW f, NEW o, NEW l, NEW m
  PROVE  Idle \in ProcState /\ ProcFits(p, Idle, f, o, l, m)
<1>1. Idle \in ProcState /\ Idle.pc = "idle" /\ Idle.op = None /\ Idle.copy = None
      /\ Idle.box = {} /\ Idle.stale = None /\ Idle.reasons = {}
  BY DEF Idle, ProcState
<1>2. Shape(p, Idle)
  BY <1>1, NoneAssumption DEF Shape, Converting
<1>3. CopiesFit(Idle) /\ Reached(Idle, f, o) /\ FactsAreLater(p, Idle, f, o, l)
      /\ EffectsAreRead(p, Idle, o, m)
  BY <1>1 DEF CopiesFit, Reached, FactsAreLater, EffectsAreRead, Indexed, Unnoted, Migrated,
              Validated, Converting, Checking
<1> QED BY <1>1, <1>2, <1>3 DEF ProcFits

\* A step that ends what p does and leaves the files alone.
LEMMA EndKeeps ==
  ASSUME IInv, NEW p \in Processes, Becomes(p, Idle),
         UNCHANGED <<file, outbox, inbox, lock, outboxLock, quarantined>>,
         ops' \in 0 .. MaxOps, faults' \in 0 .. MaxFaults
  PROVE  IInv'
<1>1. Idle \in ProcState /\ ProcFits(p, Idle, file, outbox, lock, outboxLock) /\ Idle.pc # "write"
  BY IdleFits DEF Idle
<1> QED BY <1>1, QuietStepKeeps DEF ProcFits

\* What is known of p before its step.
LEMMA ProcBefore ==
  ASSUME IInv, NEW p \in Processes
  PROVE  /\ proc[p] \in ProcState
         /\ Shape(p, proc[p]) /\ CopiesFit(proc[p]) /\ Reached(proc[p], file, outbox)
         /\ FactsAreLater(p, proc[p], file, outbox, lock)
         /\ EffectsAreRead(p, proc[p], outbox, outboxLock)
         /\ ops \in 0 .. MaxOps /\ faults \in 0 .. MaxFaults
         /\ file \in Teams \cup {None} /\ outbox \subseteq Effects
         /\ FilesFit(file, outbox)
BY DEF IInv, TypeOK, ProcFits

LEMMA OthersBefore ==
  ASSUME IInv
  PROVE  /\ inbox \in Inboxes /\ lock \in Processes \cup {None}
         /\ outboxLock \in Processes \cup {None} /\ quarantined \in BOOLEAN
BY DEF IInv, TypeOK, Inboxes

LEMMA NoTeamFits == Indexed(None) /\ Unnoted(None) /\ Migrated(None) /\ Facts(None) = {}
BY DEF Indexed, Unnoted, Migrated, Facts

LEMMA FaultCounted ==
  ASSUME faults \in 0 .. MaxFaults, faults < MaxFaults, faults' = faults + 1
  PROVE  faults' \in 0 .. MaxFaults
BY BoundsType

-----------------------------------------------------------------------------
(* Validation. *)

LEMMA BeginKeeps ==
  ASSUME IInv, NEW p \in Processes, NEW op \in Operations, Begin(p, op)
  PROVE  IInv'
<1> DEFINE k == [Idle EXCEPT !.pc = "state", !.op = op]
<1>1. Becomes(p, k) /\ UNCHANGED <<file, outbox, inbox, lock, outboxLock, quarantined, faults>>
  BY DEF Begin, directory
<1>2. ops' \in 0 .. MaxOps /\ faults' \in 0 .. MaxFaults
  BY ProcBefore, BoundsType DEF Begin
<1>3. /\ k \in ProcState /\ k.pc = "state" /\ k.op = op /\ k.copy = None /\ k.box = {}
      /\ k.stale = None /\ k.reasons = {}
  BY OperationsAssumption DEF Idle, ProcState
<1>4. /\ op \in {"log", "refresh", "create", "delete", "enqueue", "mail", "dismiss"}
      /\ op # None
  BY OperationsAssumption, NoneAssumption
<1> HIDE DEF k
<1>5. Shape(p, k)
  BY <1>3, <1>4 DEF Shape, Converting
<1>6. CopiesFit(k) /\ Reached(k, file, outbox) /\ FactsAreLater(p, k, file, outbox, lock)
  BY <1>3, NoTeamFits DEF CopiesFit, Reached, FactsAreLater, Validated, Converting, Checking
<1> QED BY <1>1, <1>2, <1>3, <1>5, <1>6, QuietStepKeeps

LEMMA LookStateKeeps ==
  ASSUME IInv, NEW p \in Processes, LookState(p)
  PROVE  IInv'
<1> DEFINE pc == IF file # None /\ file.legacy THEN "outboxToo" ELSE "outbox"
           k == [proc[p] EXCEPT !.copy = file, !.pc = pc]
<1>1. /\ proc[p].pc = "state" /\ Becomes(p, k)
      /\ UNCHANGED <<file, outbox, inbox, lock, outboxLock, quarantined, ops, faults>>
  BY DEF LookState, At, directory
<1>2. /\ k \in ProcState /\ k.pc = pc /\ k.copy = file /\ k.op = proc[p].op
      /\ k.box = proc[p].box /\ k.stale = proc[p].stale /\ k.misread = proc[p].misread
      /\ k.reasons = proc[p].reasons
  BY ZenonT(60), ProcBefore DEF ProcState
<1>3. \/ pc = "outboxToo" /\ file # None /\ file.legacy
      \/ pc = "outbox" /\ Migrated(file)
  BY DEF Migrated
<1> HIDE DEF k, pc
<1>4. Facts(file) # {} => Migrated(file) /\ Converted(outbox)
  BY ProcBefore DEF FilesFit
<1>5. Shape(p, k)
  BY <1>1, <1>2, <1>3, ProcBefore DEF Shape, Converting, Checking
<1>6. CopiesFit(k)
  BY <1>2, <1>3, ProcBefore DEF CopiesFit, FilesFit
<1>7. Reached(k, file, outbox)
  BY <1>1, <1>2, <1>3, ProcBefore DEF Reached, FilesFit, Validated, Checking
<1>8. FactsAreLater(p, k, file, outbox, lock)
  BY <1>2, <1>3, <1>4 DEF FactsAreLater, Converting, Migrated
<1>9. ops' \in 0 .. MaxOps /\ faults' \in 0 .. MaxFaults /\ k.pc # "write"
  BY <1>1, <1>2, <1>3, ProcBefore
<1> QED BY <1>1, <1>2, <1>5, <1>6, <1>7, <1>8, <1>9, QuietStepKeeps

LEMMA LookStateFailsKeeps ==
  ASSUME IInv, NEW p \in Processes, LookStateFails(p)
  PROVE  IInv'
<1> DEFINE k == [proc[p] EXCEPT !.copy = None, !.pc = "outbox", !.misread = TRUE]
<1>1. /\ proc[p].pc = "state" /\ Becomes(p, k)
      /\ UNCHANGED <<file, outbox, inbox, lock, outboxLock, quarantined, ops>>
  BY DEF LookStateFails, At, directory
<1>2. /\ k \in ProcState /\ k.pc = "outbox" /\ k.copy = None /\ k.op = proc[p].op
      /\ k.box = proc[p].box /\ k.stale = proc[p].stale /\ k.misread = TRUE
      /\ k.reasons = proc[p].reasons
  BY ZenonT(60), ProcBefore DEF ProcState
<1> HIDE DEF k
<1>3. Shape(p, k) /\ Reached(k, file, outbox)
  BY <1>1, <1>2, ProcBefore DEF Shape, Converting, Reached, Validated, Checking
<1>4. CopiesFit(k) /\ FactsAreLater(p, k, file, outbox, lock)
  BY <1>2, NoTeamFits, ProcBefore DEF CopiesFit, FactsAreLater, Converting
<1>5. ops' \in 0 .. MaxOps /\ faults' \in 0 .. MaxFaults
  BY <1>1, ProcBefore, FaultCounted DEF LookStateFails, Fault
<1> QED BY <1>1, <1>2, <1>3, <1>4, <1>5, QuietStepKeeps

\* After its look at the outbox a process goes on with nothing to write there.
LEMMA AfterLookKeeps ==
  ASSUME IInv, NEW p \in Processes, proc[p].pc \in {"outbox", "outboxToo"},
         NEW read \in BOOLEAN,
         Becomes(p, [proc[p] EXCEPT !.pc = AfterLook(p), !.misread = proc[p].misread \/ ~read]),
         read => proc[p].copy = None \/ Converted(outbox),
         UNCHANGED <<file, outbox, inbox, lock, outboxLock, quarantined>>,
         ops' \in 0 .. MaxOps, faults' \in 0 .. MaxFaults
  PROVE  IInv'
<1> DEFINE pc == AfterLook(p)
           mis == proc[p].misread \/ ~read
           k == [proc[p] EXCEPT !.pc = pc, !.misread = mis]
<1>1. \/ pc = "saveState" /\ proc[p].pc = "outboxToo"
      \/ pc = "check" /\ proc[p].pc = "outbox"
  BY DEF AfterLook, At
<1>2. mis \in BOOLEAN /\ proc[p].misread \in BOOLEAN
  BY ProcBefore DEF ProcState
<1> HIDE DEF pc, mis
<1>3. /\ k \in ProcState /\ k.pc = pc /\ k.copy = proc[p].copy /\ k.op = proc[p].op
      /\ k.box = proc[p].box /\ k.stale = proc[p].stale /\ k.misread = mis
      /\ k.reasons = proc[p].reasons
  BY ZenonT(60), <1>1, <1>2, ProcBefore DEF ProcState
<1>4. Becomes(p, k)
  BY DEF pc, mis
<1>5. ~mis => read /\ ~proc[p].misread
  BY <1>2 DEF mis
<1> HIDE DEF k
<1>6. Shape(p, k) /\ CopiesFit(k)
  BY <1>1, <1>3, ProcBefore DEF Shape, Converting, Checking, CopiesFit
<1>7. Reached(k, file, outbox)
  <2>1. CASE pc = "saveState"
    <3>1. proc[p].copy # None
      BY <1>1, <2>1, ProcBefore DEF Shape, Converting
    <3> QED BY <1>3, <1>5, <2>1, <3>1, ProcBefore DEF Reached, Validated, Checking
  <2>2. CASE pc = "check"
    <3>1. proc[p].pc = "outbox" /\ proc[p].reasons = {}
      BY <1>1, <2>2, ProcBefore DEF Shape, Checking
    <3> QED BY <1>3, <1>5, <2>2, <3>1, ProcBefore DEF Reached, Validated, Checking
  <2> QED BY <1>1, <2>1, <2>2
<1>8. FactsAreLater(p, k, file, outbox, lock)
  BY <1>1, <1>3, ProcBefore DEF FactsAreLater, Shape, Converting, NewEffects
<1> QED BY <1>1, <1>3, <1>4, <1>6, <1>7, <1>8, QuietStepKeeps

LEMMA LookOutboxKeeps ==
  ASSUME IInv, NEW p \in Processes, LookOutbox(p)
  PROVE  IInv'
<1>1. /\ proc[p].pc \in {"outbox", "outboxToo"} /\ proc[p] \in ProcState
      /\ UNCHANGED <<file, outbox, inbox, lock, outboxLock, quarantined, ops, faults>>
      /\ ops' \in 0 .. MaxOps /\ faults' \in 0 .. MaxFaults
  BY ProcBefore DEF LookOutbox, directory
<1>2. CASE proc[p].copy # None /\ ~Converted(outbox)
  <2> DEFINE k == [proc[p] EXCEPT !.box = outbox, !.pc = "saveOutbox"]
  <2>1. Becomes(p, k)
    BY <1>2 DEF LookOutbox, Converted
  <2>2. /\ k \in ProcState /\ k.pc = "saveOutbox" /\ k.copy = proc[p].copy /\ k.op = proc[p].op
        /\ k.box = outbox /\ k.stale = proc[p].stale /\ k.misread = proc[p].misread
        /\ k.reasons = proc[p].reasons
    BY ProcBefore DEF ProcState
  <2> HIDE DEF k
  <2>3. Shape(p, k) /\ Reached(k, file, outbox) /\ CopiesFit(k)
    BY <1>1, <1>2, <2>2, ProcBefore DEF Shape, Converting, Reached, Validated, Checking, CopiesFit
  <2>4. FactsAreLater(p, k, file, outbox, lock)
    BY <1>1, <1>2, <2>2, ProcBefore DEF FactsAreLater, FilesFit, Converting
  <2> QED BY <1>1, <2>1, <2>2, <2>3, <2>4, QuietStepKeeps
<1>3. CASE ~(proc[p].copy # None /\ ~Converted(outbox))
  <2>1. [proc[p] EXCEPT !.pc = AfterLook(p)]
          = [proc[p] EXCEPT !.pc = AfterLook(p), !.misread = proc[p].misread \/ ~TRUE]
    BY <1>1 DEF ProcState
  <2>2. Becomes(p, [proc[p] EXCEPT !.pc = AfterLook(p), !.misread = proc[p].misread \/ ~TRUE])
    BY <1>3, <2>1 DEF LookOutbox, Converted, GoTo
  <2> QED BY <1>1, <1>3, <2>2, AfterLookKeeps
<1> QED BY <1>2, <1>3

LEMMA LookOutboxFailsKeeps ==
  ASSUME IInv, NEW p \in Processes, LookOutboxFails(p)
  PROVE  IInv'
<1>1. /\ proc[p].pc \in {"outbox", "outboxToo"} /\ proc[p] \in ProcState
      /\ UNCHANGED <<file, outbox, inbox, lock, outboxLock, quarantined, ops>>
      /\ ops' \in 0 .. MaxOps
  BY ProcBefore DEF LookOutboxFails, directory
<1>2. faults' \in 0 .. MaxFaults
  BY ProcBefore, FaultCounted DEF LookOutboxFails, Fault
<1>3. [proc[p] EXCEPT !.pc = AfterLook(p), !.misread = TRUE]
        = [proc[p] EXCEPT !.pc = AfterLook(p), !.misread = proc[p].misread \/ ~FALSE]
  BY <1>1 DEF ProcState
<1>4. Becomes(p, [proc[p] EXCEPT !.pc = AfterLook(p), !.misread = proc[p].misread \/ ~FALSE])
  BY <1>3 DEF LookOutboxFails
<1> QED BY <1>1, <1>2, <1>4, AfterLookKeeps

LEMMA SaveOutboxKeeps ==
  ASSUME IInv, NEW p \in Processes, SaveOutbox(p)
  PROVE  IInv'
<1> DEFINE k == [proc[p] EXCEPT !.pc = "saveState"]
<1>1. /\ proc[p].pc = "saveOutbox" /\ Becomes(p, k)
      /\ outbox' = proc[p].box \ NoteEffects(proc[p].box)
      /\ UNCHANGED <<file, inbox, lock, outboxLock, quarantined, ops, faults>>
  BY DEF SaveOutbox, At, GoTo
<1>2. /\ k \in ProcState /\ k.pc = "saveState" /\ k.copy = proc[p].copy /\ k.op = proc[p].op
      /\ k.box = proc[p].box /\ k.stale = proc[p].stale /\ k.reasons = proc[p].reasons
  BY ProcBefore DEF ProcState
<1> HIDE DEF k
<1>3. outbox' \subseteq Effects /\ Converted(outbox') /\ NewEffects(outbox') = {}
  <2>1. NewEffects(proc[p].box) = {} /\ proc[p].box \subseteq Effects
    BY <1>1, ProcBefore DEF FactsAreLater, ProcState
  <2> QED BY <1>1, <2>1 DEF Converted, NoteEffects, NewEffects
<1>4. FilesFit(file', outbox')
  BY <1>1, <1>3, ProcBefore DEF FilesFit
<1>5. Shape(p, k) /\ CopiesFit(k)
  BY <1>1, <1>2, ProcBefore DEF Shape, Converting, Checking, CopiesFit
<1>6. Reached(k, file', outbox')
  BY <1>1, <1>2, <1>3, ProcBefore DEF Reached, Validated, Checking
<1>7. FactsAreLater(p, k, file', outbox', lock') /\ EffectsAreRead(p, k, outbox', outboxLock')
  BY <1>1, <1>2, ProcBefore DEF FactsAreLater, EffectsAreRead, Converting
<1>8. /\ ops' \in 0 .. MaxOps /\ faults' \in 0 .. MaxFaults /\ file' \in Teams \cup {None}
      /\ inbox' \in Inboxes /\ lock' \in Processes \cup {None}
      /\ outboxLock' \in Processes \cup {None} /\ quarantined' \in BOOLEAN
      /\ Migrated(file) => Migrated(file')
      /\ \A q \in Processes \ {p} : lock' = q => lock = q /\ Facts(file') \subseteq Facts(file)
      /\ \A q \in Processes \ {p} :
           outboxLock' = q => outboxLock = q /\ NewEffects(outbox') \subseteq NewEffects(outbox)
  BY <1>1, <1>3, ProcBefore, OthersBefore
<1> QED BY <1>1, <1>2, <1>3, <1>4, <1>5, <1>6, <1>7, <1>8, StepKeeps DEF ProcFits

LEMMA SaveStateKeeps ==
  ASSUME IInv, NEW p \in Processes, SaveState(p)
  PROVE  IInv'
<1> DEFINE k == [proc[p] EXCEPT !.pc = "check"]
<1>1. /\ proc[p].pc = "saveState" /\ Becomes(p, k)
      /\ file' = MigrateLegacyTaskNoteOutboxEffects(MigrateTaskNotesToHistory(proc[p].copy), proc[p].box)
      /\ UNCHANGED <<outbox, inbox, lock, outboxLock, quarantined, ops, faults>>
  BY DEF SaveState, At, GoTo
<1>2. /\ k \in ProcState /\ k.pc = "check" /\ k.copy = proc[p].copy /\ k.op = proc[p].op
      /\ k.box = proc[p].box /\ k.stale = proc[p].stale /\ k.misread = proc[p].misread
      /\ k.reasons = proc[p].reasons
  BY ProcBefore DEF ProcState
<1> HIDE DEF k
<1>3. /\ proc[p].copy \in Teams /\ proc[p].box \in SUBSET Effects
      /\ Indexed(proc[p].copy) /\ Facts(proc[p].copy) = {}
  BY <1>1, ProcBefore DEF ProcState, Shape, Converting, CopiesFit, FactsAreLater
<1>4. /\ file' \in Teams /\ ~file'.legacy /\ file'.notes = {} /\ Indexed(file')
      /\ Facts(file') = {}
  BY <1>1, <1>3, MigrationKeeps
<1>5. file' # None
  BY <1>4, NoneAssumption
<1>6. Migrated(file') /\ (~proc[p].misread => Converted(outbox))
  BY <1>1, <1>4, ProcBefore DEF Reached, Migrated
<1>7. FilesFit(file', outbox')
  BY <1>1, <1>4, <1>5, ProcBefore DEF FilesFit, Unnoted
<1>8. Shape(p, k) /\ CopiesFit(k)
  BY <1>1, <1>2, ProcBefore DEF Shape, Converting, Checking, CopiesFit
<1>9. Reached(k, file', outbox')
  <2>1. proc[p].reasons = {} /\ (proc[p].stale # None => Converted(outbox))
    BY <1>1, ProcBefore DEF Shape, Reached, Checking
  <2> QED BY <1>1, <1>2, <1>6, <2>1 DEF Reached, Checking, Validated
<1>10. FactsAreLater(p, k, file', outbox', lock') /\ EffectsAreRead(p, k, outbox', outboxLock')
  BY <1>2 DEF FactsAreLater, EffectsAreRead, Converting
<1>11. /\ ops' \in 0 .. MaxOps /\ faults' \in 0 .. MaxFaults /\ outbox' \subseteq Effects
       /\ inbox' \in Inboxes /\ lock' \in Processes \cup {None}
       /\ outboxLock' \in Processes \cup {None} /\ quarantined' \in BOOLEAN
       /\ \A q \in Processes \ {p} : lock' = q => lock = q /\ Facts(file') \subseteq Facts(file)
       /\ \A q \in Processes \ {p} :
            outboxLock' = q => outboxLock = q /\ NewEffects(outbox') \subseteq NewEffects(outbox)
  BY <1>1, <1>4, ProcBefore, OthersBefore
<1> QED BY <1>1, <1>2, <1>4, <1>6, <1>7, <1>8, <1>9, <1>10, <1>11, StepKeeps DEF ProcFits

\* A look of the check at one file, after which it goes on or has to set the team
\* aside.
LEMMA FindsKeeps ==
  ASSUME IInv, NEW p \in Processes, NEW found \in SUBSET {"legacy", "unsupported", "unread"},
         NEW pc \in Checking, proc[p].pc \in {"check", "listInboxes", "readInbox", "checkOutbox"},
         Finds(p, found, pc),
         "legacy" \in found => ~(Migrated(file) /\ Converted(outbox)),
         proc[p].pc = "check" /\ found = {} => Migrated(file),
         pc = "quarantine" => proc[p].reasons \cup found # {},
         UNCHANGED <<file, outbox, inbox, lock, outboxLock, quarantined>>,
         ops' \in 0 .. MaxOps, faults' \in 0 .. MaxFaults
  PROVE  IInv'
<1> DEFINE reasons == proc[p].reasons \cup found
           k == [proc[p] EXCEPT !.pc = pc, !.reasons = reasons, !.copy = None, !.box = {}]
<1>1. Becomes(p, k)
  BY DEF Finds
<1>2. reasons \in SUBSET {"legacy", "unsupported", "unread"}
  BY ProcBefore DEF ProcState
<1> HIDE DEF reasons
<1>3. /\ k \in ProcState /\ k.pc = pc /\ k.copy = None /\ k.op = proc[p].op /\ k.box = {}
      /\ k.stale = proc[p].stale /\ k.misread = proc[p].misread /\ k.reasons = reasons
  BY ZenonT(60), <1>2, ProcBefore DEF ProcState, Checking
<1> HIDE DEF k
<1>4. /\ pc \in {"listInboxes", "readInbox", "checkOutbox", "quarantine"}
      /\ pc = "quarantine" => reasons # {}
  BY DEF Checking, reasons
<1>5. Shape(p, k)
  BY <1>3, <1>4, ProcBefore DEF Shape, Converting, Checking
<1>6. CopiesFit(k) /\ FactsAreLater(p, k, file, outbox, lock)
  BY <1>3, <1>4, NoTeamFits, ProcBefore DEF CopiesFit, FactsAreLater, Converting
<1>7. Reached(k, file, outbox)
  <2>1. ~proc[p].misread => Migrated(file) /\ Converted(outbox) /\ "legacy" \notin proc[p].reasons
    BY ProcBefore DEF Reached, Checking
  <2>2. reasons = {} => Migrated(file)
    BY ProcBefore DEF Reached, Checking, reasons
  <2>3. ~proc[p].misread => "legacy" \notin reasons
    BY <2>1 DEF reasons
  <2> QED BY <1>3, <1>4, <2>1, <2>2, <2>3, ProcBefore DEF Reached, Validated, Checking
<1> QED BY <1>1, <1>3, <1>4, <1>5, <1>6, <1>7, QuietStepKeeps

LEMMA CheckStateKeeps ==
  ASSUME IInv, NEW p \in Processes, CheckState(p) \/ CheckStateFails(p)
  PROVE  IInv'
<1>1. proc[p].pc = "check" /\ "listInboxes" \in Checking /\ "listInboxes" # "quarantine"
  BY DEF CheckState, CheckStateFails, At, Checking
<1>2. /\ UNCHANGED <<file, outbox, inbox, lock, outboxLock, quarantined, ops>>
      /\ ops' \in 0 .. MaxOps /\ faults' \in 0 .. MaxFaults
  BY ProcBefore, FaultCounted DEF CheckState, CheckStateFails, Fault, directory
<1>3. CASE CheckState(p)
  <2> DEFINE found == If(file # None /\ file.legacy, "legacy")
  <2>1. Finds(p, found, "listInboxes")
    BY <1>3 DEF CheckState
  <2>2. found \in SUBSET {"legacy", "unsupported", "unread"} /\ (found = {} <=> Migrated(file))
    BY DEF If, Migrated
  <2>3. "legacy" \in found => ~Migrated(file)
    BY <2>2
  <2> HIDE DEF found
  <2> QED BY <1>1, <1>2, <2>1, <2>2, <2>3, FindsKeeps
<1>4. CASE CheckStateFails(p)
  <2>1. Finds(p, {"unread"}, "listInboxes") /\ "legacy" \notin {"unread"} /\ {"unread"} # {}
    BY <1>4 DEF CheckStateFails
  <2> QED BY <1>1, <1>2, <2>1, FindsKeeps
<1> QED BY <1>3, <1>4

LEMMA CheckInboxesKeeps ==
  ASSUME IInv, NEW p \in Processes, ListInboxes(p) \/ CheckInbox(p) \/ CheckInboxFails(p)
  PROVE  IInv'
<1>1. /\ proc[p].pc \in {"listInboxes", "readInbox"}
      /\ {"readInbox", "checkOutbox"} \subseteq Checking \ {"quarantine"}
  BY DEF ListInboxes, CheckInbox, CheckInboxFails, At, Checking
<1>2. /\ UNCHANGED <<file, outbox, inbox, lock, outboxLock, quarantined, ops>>
      /\ ops' \in 0 .. MaxOps /\ faults' \in 0 .. MaxFaults
  BY ProcBefore, FaultCounted DEF ListInboxes, CheckInbox, CheckInboxFails, Fault, directory
<1>3. PICK found \in SUBSET {"unsupported", "unread"}, pc \in {"readInbox", "checkOutbox"} :
        Finds(p, found, pc)
  <2>1. CASE ListInboxes(p)
    BY <2>1 DEF ListInboxes
  <2>2. CASE CheckInbox(p)
    BY <2>2 DEF CheckInbox, If
  <2>3. CASE CheckInboxFails(p)
    BY <2>3 DEF CheckInboxFails
  <2> QED BY <2>1, <2>2, <2>3
<1>4. "legacy" \notin found
  BY <1>3
<1> QED BY <1>1, <1>2, <1>3, <1>4, FindsKeeps

\* Who is past validation goes on with its operation.
LEMMA PassedKeeps ==
  ASSUME IInv, NEW p \in Processes, proc[p].pc \in {"checkOutbox", "quarantine"},
         Becomes(p, Passed(p)), Migrated(file), Converted(outbox),
         UNCHANGED <<file, outbox, inbox, lock, outboxLock, quarantined>>,
         ops' \in 0 .. MaxOps, faults' \in 0 .. MaxFaults
  PROVE  IInv'
<1> DEFINE pc == Operation(p)
           k == [Idle EXCEPT !.pc = pc, !.op = proc[p].op, !.stale = proc[p].stale]
<1>1. Becomes(p, k)
  BY DEF Passed
<1>2. /\ proc[p].op \in {"log", "refresh", "create", "attach", "delete", "enqueue", "append",
                         "mail", "dismiss"}
      /\ proc[p].stale \in Teams \cup {None}
  BY ProcBefore DEF ProcState, Shape
<1>3. \/ pc = "appending" /\ proc[p].op = "append"
      \/ pc = "open" /\ proc[p].op = "mail"
      \/ pc = "lock" /\ proc[p].op \in {"log", "dismiss", "enqueue"}
      \/ pc = "lock" /\ proc[p].op \notin {"append", "mail"} /\ proc[p].stale # None
      \/ /\ pc = "read" /\ proc[p].op \notin {"append", "mail", "log", "dismiss", "enqueue"}
         /\ proc[p].stale = None
  <2>1. proc[p].stale # None => proc[p].op \notin {"append", "mail"}
    BY ProcBefore DEF Shape
  <2>2. CASE proc[p].op = "append"
    BY <2>1, <2>2 DEF Operation
  <2>3. CASE proc[p].op = "mail"
    BY <2>1, <2>3 DEF Operation
  <2>4. CASE proc[p].op \notin {"append", "mail"}
    BY <2>4 DEF Operation
  <2> QED BY <2>2, <2>3, <2>4
<1> HIDE DEF pc
<1>4. /\ k \in ProcState /\ k.pc = pc /\ k.copy = None /\ k.op = proc[p].op /\ k.box = {}
      /\ k.stale = proc[p].stale /\ k.misread = FALSE /\ k.reasons = {}
  BY <1>2, <1>3, ProcBefore DEF ProcState, Idle
<1> HIDE DEF k
<1>5. Shape(p, k)
  BY <1>2, <1>3, <1>4, ProcBefore DEF Shape, Converting, Checking
<1>6. CopiesFit(k) /\ Reached(k, file, outbox) /\ FactsAreLater(p, k, file, outbox, lock)
  BY <1>3, <1>4, NoTeamFits, ProcBefore DEF CopiesFit, Reached, FactsAreLater, Converting, Checking
<1> QED BY <1>1, <1>3, <1>4, <1>5, <1>6, QuietStepKeeps

LEMMA CheckOutboxKeeps ==
  ASSUME IInv, NEW p \in Processes, CheckOutbox(p) \/ CheckOutboxFails(p)
  PROVE  IInv'
<1>1. proc[p].pc = "checkOutbox" /\ "quarantine" \in Checking
  BY DEF CheckOutbox, CheckOutboxFails, At, Checking
<1>2. /\ UNCHANGED <<file, outbox, inbox, lock, outboxLock, quarantined, ops>>
      /\ ops' \in 0 .. MaxOps /\ faults' \in 0 .. MaxFaults
  BY ProcBefore, FaultCounted DEF CheckOutbox, CheckOutboxFails, Fault, directory
<1>3. CASE CheckOutbox(p)
  <2> DEFINE found == If(NoteEffects(outbox) # {}, "legacy")
                        \cup If(\E e \in outbox : e.kind = "triage", "unsupported")
  <2>1. /\ found \in SUBSET {"legacy", "unsupported", "unread"}
        /\ "legacy" \in found <=> ~Converted(outbox)
    BY DEF If, Converted
  <2>2. IF proc[p].reasons \cup found = {} THEN Becomes(p, Passed(p))
        ELSE Finds(p, found, "quarantine")
    BY <1>3 DEF CheckOutbox
  <2> HIDE DEF found
  <2>3. CASE proc[p].reasons \cup found = {}
    <3>1. Migrated(file) /\ Converted(outbox)
      BY <1>1, <2>1, <2>3, ProcBefore DEF Reached, Checking
    <3> QED BY <1>1, <1>2, <2>2, <2>3, <3>1, PassedKeeps
  <2>4. CASE proc[p].reasons \cup found # {}
    BY <1>1, <1>2, <2>1, <2>2, <2>4, FindsKeeps
  <2> QED BY <2>3, <2>4
<1>4. CASE CheckOutboxFails(p)
  <2>1. Finds(p, {"unread"}, "quarantine") /\ "legacy" \notin {"unread"}
    BY <1>4 DEF CheckOutboxFails
  <2> QED BY <1>1, <1>2, <2>1, FindsKeeps
<1> QED BY <1>3, <1>4

\* The team's directory is gone, or set aside.
LEMMA GoneKeeps ==
  ASSUME IInv, NEW p \in Processes, NEW k \in ProcState, Becomes(p, k), DirectoryGoes,
         Shape(p, k), k.copy = None, k.stale = None, k.box = {},
         k.pc \in {"idle", "remove", "unlink", "write"},
         quarantined' \in BOOLEAN, UNCHANGED <<ops, faults>>
  PROVE  IInv'
<1>1. /\ file' = None /\ outbox' = {} /\ inbox' = None /\ lock' = None /\ outboxLock' = None
      /\ Migrated(file') /\ Converted(outbox') /\ NewEffects(outbox') = {}
  BY DEF DirectoryGoes, Migrated, Converted, NoteEffects, NewEffects
<1>2. FilesFit(file', outbox')
  BY <1>1, NoTeamFits DEF FilesFit
<1>3. /\ outbox' \subseteq Effects /\ file' \in Teams \cup {None} /\ inbox' \in Inboxes
      /\ lock' \in Processes \cup {None} /\ outboxLock' \in Processes \cup {None}
      /\ \A q \in Processes \ {p} : lock' # q /\ outboxLock' # q
  BY <1>1, NoneAssumption DEF Inboxes
<1>4. CopiesFit(k) /\ Reached(k, file', outbox') /\ FactsAreLater(p, k, file', outbox', lock')
      /\ EffectsAreRead(p, k, outbox', outboxLock')
  BY <1>1, NoTeamFits DEF CopiesFit, Reached, FactsAreLater, EffectsAreRead, Converting, Checking,
                          Converted, NoteEffects, NewEffects
<1>5. ops' \in 0 .. MaxOps /\ faults' \in 0 .. MaxFaults
  BY ProcBefore
<1> QED BY <1>1, <1>2, <1>3, <1>4, <1>5, StepKeeps DEF ProcFits

LEMMA QuarantineTeamDirKeeps ==
  ASSUME IInv, NEW p \in Processes, QuarantineTeamDir(p)
  PROVE  IInv'
<1>1. quarantined' \in BOOLEAN /\ DirectoryGoes /\ UNCHANGED <<ops, faults>>
  BY DEF QuarantineTeamDir
<1>2. ASSUME NEW pc \in {"remove", "unlink", "write"}, NEW op \in {"delete", "dismiss", "append"},
             pc = "remove" => op = "delete", Becomes(p, [Idle EXCEPT !.pc = pc, !.op = op])
      PROVE  IInv'
  <2> DEFINE k == [Idle EXCEPT !.pc = pc, !.op = op]
  <2>1. /\ k \in ProcState /\ k.pc = pc /\ k.op = op /\ k.copy = None /\ k.box = {}
        /\ k.stale = None /\ k.reasons = {}
    BY DEF Idle, ProcState
  <2>2. Becomes(p, k)
    BY <1>2
  <2> HIDE DEF k
  <2>3. Shape(p, k)
    BY <2>1, NoneAssumption DEF Shape, Converting, Checking
  <2> QED BY <1>1, <2>1, <2>2, <2>3, GoneKeeps
<1>3. CASE Becomes(p, Idle)
  <2>1. /\ Idle \in ProcState /\ Shape(p, Idle) /\ Idle.copy = None /\ Idle.stale = None
        /\ Idle.box = {} /\ Idle.pc = "idle"
    BY IdleFits DEF ProcFits, Idle
  <2> QED BY <1>1, <1>3, <2>1, GoneKeeps
<1>4. \/ Becomes(p, Idle)
      \/ Becomes(p, [Idle EXCEPT !.pc = "remove", !.op = "delete"])
      \/ Becomes(p, [Idle EXCEPT !.pc = "unlink", !.op = "dismiss"])
      \/ Becomes(p, [Idle EXCEPT !.pc = "write", !.op = "append"])
  BY DEF QuarantineTeamDir
<1> QED BY <1>2, <1>3, <1>4

LEMMA NothingToQuarantineKeeps ==
  ASSUME IInv, NEW p \in Processes, NothingToQuarantine(p)
  PROVE  IInv'
<1>1. Migrated(file) /\ Converted(outbox)
  BY DEF NothingToQuarantine, Migrated, Converted, NoteEffects
<1> QED BY <1>1, PassedKeeps, ProcBefore DEF NothingToQuarantine, At, directory

LEMMA DeleteTeamStateKeeps ==
  ASSUME IInv, NEW p \in Processes, DeleteTeamState(p)
  PROVE  IInv'
<1>1. quarantined' \in BOOLEAN
  BY OthersBefore DEF DeleteTeamState
<1>2. /\ Idle \in ProcState /\ Shape(p, Idle) /\ Idle.copy = None /\ Idle.stale = None
      /\ Idle.box = {} /\ Idle.pc = "idle"
  BY IdleFits DEF ProcFits, Idle
<1> QED BY <1>1, <1>2, GoneKeeps DEF DeleteTeamState

-----------------------------------------------------------------------------
(* The operations. *)

LEMMA AfterReadKeeps ==
  ASSUME IInv, NEW p \in Processes, proc[p].pc = "read", NEW team, team = file \/ team = None,
         Becomes(p, AfterRead(p, team)),
         UNCHANGED <<file, outbox, inbox, lock, outboxLock, quarantined>>,
         ops' \in 0 .. MaxOps, faults' \in 0 .. MaxFaults
  PROVE  IInv'
<1>1. proc[p] \in ProcState
  BY ProcBefore
<1>2. /\ proc[p].op \in {"refresh", "create", "delete"} /\ proc[p].stale = None
      /\ proc[p].box = {} /\ proc[p].copy = None /\ proc[p].reasons = {}
      /\ Migrated(file) /\ Converted(outbox) /\ Indexed(team) /\ Unnoted(team) /\ Migrated(team)
      /\ team \in Teams \cup {None}
  BY ProcBefore, NoTeamFits DEF Shape, Reached, FilesFit, Converting, Checking, Validated
<1>3. CASE Becomes(p, Idle)
  BY <1>1, <1>3, EndKeeps
<1>4. ASSUME NEW op \in {"refresh", "attach"}, team # None,
             Becomes(p, [proc[p] EXCEPT !.op = op, !.stale = team, !.pc = "panes"])
      PROVE  IInv'
  <2> DEFINE k == [proc[p] EXCEPT !.op = op, !.stale = team, !.pc = "panes"]
  <2>1. /\ k \in ProcState /\ k.pc = "panes" /\ k.copy = proc[p].copy /\ k.op = op
        /\ k.box = proc[p].box /\ k.stale = team /\ k.reasons = proc[p].reasons
    BY <1>1, <1>2 DEF ProcState
  <2>2. Becomes(p, k)
    BY <1>4
  <2> HIDE DEF k
  <2>3. op # None
    BY NoneAssumption
  <2>4. Shape(p, k) /\ CopiesFit(k)
    BY <1>2, <1>4, <2>1, <2>3, NoTeamFits DEF Shape, CopiesFit, Converting, Checking
  <2>5. Reached(k, file, outbox) /\ FactsAreLater(p, k, file, outbox, lock)
    BY <1>2, <2>1 DEF Reached, FactsAreLater, Converting, Checking
  <2> QED BY <2>1, <2>2, <2>4, <2>5, QuietStepKeeps
<1>5. ASSUME proc[p].op = "create",
             Becomes(p, [proc[p] EXCEPT !.stale = CreateInitialTeam, !.pc = "state"])
      PROVE  IInv'
  <2> DEFINE k == [proc[p] EXCEPT !.stale = CreateInitialTeam, !.pc = "state"]
  <2>1. Becomes(p, k)
    BY <1>5
  <2>2. /\ CreateInitialTeam \in Teams /\ Indexed(CreateInitialTeam)
        /\ Unnoted(CreateInitialTeam) /\ Migrated(CreateInitialTeam) /\ CreateInitialTeam # None
    BY InitialTeams, NoneAssumption DEF Unnoted, Migrated
  <2>4. /\ k \in ProcState /\ k.pc = "state" /\ k.copy = proc[p].copy /\ k.op = proc[p].op
        /\ k.box = proc[p].box /\ k.stale = CreateInitialTeam /\ k.reasons = proc[p].reasons
    BY <1>1, <2>2 DEF ProcState
  <2> HIDE DEF k
  <2>5. Shape(p, k) /\ CopiesFit(k)
    BY <1>2, <1>5, <2>2, <2>4, NoneAssumption, NoTeamFits
       DEF Shape, CopiesFit, Converting, Checking
  <2>6. Reached(k, file, outbox) /\ FactsAreLater(p, k, file, outbox, lock)
    BY <1>2, <2>4 DEF Reached, FactsAreLater, Converting, Checking
  <2> QED BY <2>1, <2>4, <2>5, <2>6, QuietStepKeeps
<1>6. ASSUME proc[p].op = "delete", Becomes(p, [proc[p] EXCEPT !.pc = "remove"])
      PROVE  IInv'
  <2> DEFINE k == [proc[p] EXCEPT !.pc = "remove"]
  <2>1. Becomes(p, k)
    BY <1>6
  <2>2. /\ k \in ProcState /\ k.pc = "remove" /\ k.copy = proc[p].copy /\ k.op = proc[p].op
        /\ k.box = proc[p].box /\ k.stale = proc[p].stale /\ k.reasons = proc[p].reasons
    BY <1>1 DEF ProcState
  <2> HIDE DEF k
  <2>3. Shape(p, k) /\ CopiesFit(k)
    BY <1>2, <1>6, <2>2, NoneAssumption, NoTeamFits DEF Shape, CopiesFit, Converting, Checking
  <2>4. Reached(k, file, outbox) /\ FactsAreLater(p, k, file, outbox, lock)
    BY <1>2, <2>2 DEF Reached, FactsAreLater, Converting, Checking
  <2> QED BY <2>1, <2>2, <2>3, <2>4, QuietStepKeeps
<1>7. CASE proc[p].op = "refresh"
  <2>1. \/ Becomes(p, Idle)
        \/ team # None /\ Becomes(p, [proc[p] EXCEPT !.stale = team, !.pc = "panes"])
    BY <1>7 DEF AfterRead
  <2>2. [proc[p] EXCEPT !.stale = team, !.pc = "panes"]
          = [proc[p] EXCEPT !.op = "refresh", !.stale = team, !.pc = "panes"]
    BY <1>1, <1>7 DEF ProcState
  <2> QED BY <1>3, <1>4, <2>1, <2>2
<1>8. CASE proc[p].op = "create"
  <2>1. \/ Becomes(p, Idle)
        \/ /\ team # None
           /\ Becomes(p, [proc[p] EXCEPT !.op = "attach", !.stale = team, !.pc = "panes"])
        \/ Becomes(p, [proc[p] EXCEPT !.stale = CreateInitialTeam, !.pc = "state"])
    BY <1>8 DEF AfterRead
  <2> QED BY <1>3, <1>4, <1>5, <1>8, <2>1
<1>9. CASE proc[p].op = "delete"
  <2>1. Becomes(p, [proc[p] EXCEPT !.pc = "remove"])
    BY <1>9 DEF AfterRead
  <2> QED BY <1>6, <1>9, <2>1
<1> QED BY <1>2, <1>7, <1>8, <1>9

LEMMA ReadKeeps ==
  ASSUME IInv, NEW p \in Processes, Read(p) \/ ReadFails(p)
  PROVE  IInv'
<1>1. /\ proc[p].pc = "read"
      /\ UNCHANGED <<file, outbox, inbox, lock, outboxLock, quarantined, ops>>
      /\ ops' \in 0 .. MaxOps /\ faults' \in 0 .. MaxFaults
  BY ProcBefore, FaultCounted DEF Read, ReadFails, At, Fault, directory
<1>2. \E team \in {file, None} : Becomes(p, AfterRead(p, team))
  BY DEF Read, ReadFails
<1> QED BY <1>1, <1>2, AfterReadKeeps

LEMMA PanesLeaveItKeeps ==
  ASSUME IInv, NEW p \in Processes, PanesLeaveIt(p)
  PROVE  IInv'
BY ProcBefore, EndKeeps DEF PanesLeaveIt, directory

LEMMA PanesCallForItKeeps ==
  ASSUME IInv, NEW p \in Processes, PanesCallForIt(p)
  PROVE  IInv'
<1> DEFINE k == [proc[p] EXCEPT !.pc = "state"]
<1>1. /\ proc[p].pc = "panes" /\ Becomes(p, k)
      /\ UNCHANGED <<file, outbox, inbox, lock, outboxLock, quarantined, ops, faults>>
      /\ ops' \in 0 .. MaxOps /\ faults' \in 0 .. MaxFaults
  BY ProcBefore DEF PanesCallForIt, At, GoTo, directory
<1>2. /\ k \in ProcState /\ k.pc = "state" /\ k.copy = proc[p].copy /\ k.op = proc[p].op
      /\ k.box = proc[p].box /\ k.stale = proc[p].stale /\ k.reasons = proc[p].reasons
  BY ProcBefore DEF ProcState
<1> HIDE DEF k
<1>3. Shape(p, k) /\ CopiesFit(k)
  BY <1>1, <1>2, ProcBefore DEF Shape, Converting, Checking, CopiesFit
<1>4. Reached(k, file, outbox) /\ FactsAreLater(p, k, file, outbox, lock)
  BY <1>1, <1>2, ProcBefore DEF Reached, Validated, FactsAreLater, Converting, Checking
<1> QED BY <1>1, <1>2, <1>3, <1>4, QuietStepKeeps

LEMMA AcquireOutboxKeeps ==
  ASSUME IInv, NEW p \in Processes, AcquireOutbox(p)
  PROVE  IInv'
<1> DEFINE k == [proc[p] EXCEPT !.op = "append", !.pc = "state"]
<1>1. /\ proc[p].pc = "lock" /\ proc[p].op = "enqueue" /\ Becomes(p, k) /\ outboxLock' = p
      /\ UNCHANGED <<file, outbox, inbox, lock, quarantined, ops, faults>>
      /\ ops' \in 0 .. MaxOps /\ faults' \in 0 .. MaxFaults /\ inbox' \in Inboxes
  BY ProcBefore, OthersBefore DEF AcquireOutbox, At
<1>2. /\ k \in ProcState /\ k.pc = "state" /\ k.copy = proc[p].copy /\ k.op = "append"
      /\ k.box = proc[p].box /\ k.stale = proc[p].stale /\ k.reasons = proc[p].reasons
  BY ZenonT(60), ProcBefore DEF ProcState
<1> HIDE DEF k
<1>3. Shape(p, k) /\ CopiesFit(k)
  BY <1>1, <1>2, ProcBefore, NoneAssumption DEF Shape, Converting, Checking, CopiesFit
<1>4. /\ Reached(k, file, outbox) /\ FactsAreLater(p, k, file, outbox, lock')
      /\ EffectsAreRead(p, k, outbox, outboxLock')
  BY <1>1, <1>2, ProcBefore
     DEF Reached, Validated, FactsAreLater, EffectsAreRead, Converting, Checking
<1> QED BY <1>1, <1>2, <1>3, <1>4, LocalStepKeeps

LEMMA ReadOutboxKeeps ==
  ASSUME IInv, NEW p \in Processes, ReadOutbox(p) \/ ReadOutboxFails(p)
  PROVE  IInv'
<1> DEFINE k(box, mis) == [proc[p] EXCEPT !.box = box, !.pc = "write", !.misread = mis]
<1>1. /\ proc[p].pc = "appending" /\ proc[p] \in ProcState
      /\ UNCHANGED <<file, outbox, inbox, lock, outboxLock, quarantined, ops>>
      /\ ops' \in 0 .. MaxOps /\ faults' \in 0 .. MaxFaults /\ inbox' \in Inboxes
  BY ProcBefore, OthersBefore, FaultCounted DEF ReadOutbox, ReadOutboxFails, At, Fault, directory
<1>2. ASSUME NEW box \in SUBSET Effects, NEW mis \in BOOLEAN, Converted(box), Becomes(p, k(box, mis)),
             mis \/ NewEffects(outbox) \subseteq box
      PROVE  IInv'
  <2> DEFINE r == k(box, mis)
  <2>1. /\ r \in ProcState /\ r.pc = "write" /\ r.copy = proc[p].copy /\ r.op = proc[p].op
        /\ r.box = box /\ r.stale = proc[p].stale /\ r.reasons = proc[p].reasons
        /\ r.misread = mis
    BY <1>1 DEF ProcState
  <2>2. Becomes(p, r)
    BY <1>2
  <2> HIDE DEF r
  <2>3. Shape(p, r) /\ CopiesFit(r)
    BY <1>1, <2>1, ProcBefore DEF Shape, Converting, Checking, CopiesFit
  <2>4. /\ Reached(r, file, outbox) /\ FactsAreLater(p, r, file, outbox, lock')
        /\ EffectsAreRead(p, r, outbox, outboxLock')
    BY <1>1, <1>2, <2>1, ProcBefore
       DEF Reached, Validated, FactsAreLater, EffectsAreRead, Converting, Checking
  <2> QED BY <1>1, <2>1, <2>2, <2>3, <2>4, LocalStepKeeps
<1>3. CASE ReadOutbox(p)
  <2> DEFINE box == {e \in outbox : e.kind = "new"}
  <2>1. box \in SUBSET Effects /\ Converted(box) /\ NewEffects(outbox) \subseteq box
    BY ProcBefore DEF Converted, NoteEffects, NewEffects
  <2> HIDE DEF box
  <2>2. [proc[p] EXCEPT !.box = box, !.pc = "write"] = k(box, proc[p].misread)
    BY <1>1 DEF ProcState
  <2>3. Becomes(p, k(box, proc[p].misread)) /\ proc[p].misread \in BOOLEAN
    BY <1>1, <1>3, <2>2 DEF ReadOutbox, box, ProcState
  <2> QED BY <1>2, <2>1, <2>3
<1>4. CASE ReadOutboxFails(p)
  <2>1. proc[p].box = {} /\ Converted({})
    BY <1>1, ProcBefore DEF Shape, Converted, NoteEffects
  <2>2. [proc[p] EXCEPT !.pc = "write", !.misread = TRUE] = k({}, TRUE)
    BY <1>1, <2>1 DEF ProcState
  <2>3. Becomes(p, k({}, TRUE))
    BY <1>4, <2>2 DEF ReadOutboxFails
  <2> QED BY <1>2, <2>1, <2>3
<1> QED BY <1>3, <1>4

LEMMA EnqueueKeeps ==
  ASSUME IInv, NEW p \in Processes, Enqueue(p)
  PROVE  IInv'
<1>1. /\ proc[p].pc = "write" /\ Becomes(p, Idle)
      /\ outbox' = proc[p].box \cup {NewEffect(p)} /\ outboxLock' = None
      /\ UNCHANGED <<file, inbox, lock, quarantined, ops, faults>>
  BY DEF Enqueue, At
<1>2. NewEffect(p) \in Effects /\ NewEffect(p).kind = "new"
  BY DEF Effects, NewEffect
<1>3. Converted(proc[p].box) /\ proc[p].box \subseteq Effects
  BY <1>1, ProcBefore DEF EffectsAreRead, ProcState
<1>4. outbox' \subseteq Effects /\ Converted(outbox')
  BY <1>1, <1>2, <1>3 DEF Converted, NoteEffects
<1>5. FilesFit(file', outbox')
  BY <1>1, <1>4, ProcBefore DEF FilesFit
<1>6. /\ ops' \in 0 .. MaxOps /\ faults' \in 0 .. MaxFaults /\ file' \in Teams \cup {None}
      /\ inbox' \in Inboxes /\ lock' \in Processes \cup {None}
      /\ outboxLock' \in Processes \cup {None} /\ quarantined' \in BOOLEAN
      /\ Migrated(file) => Migrated(file')
      /\ \A q \in Processes \ {p} : lock' = q => lock = q /\ Facts(file') \subseteq Facts(file)
      /\ \A q \in Processes \ {p} : outboxLock' # q
  BY <1>1, NoneAssumption, ProcBefore, OthersBefore
<1>7. Idle \in ProcState /\ ProcFits(p, Idle, file', outbox', lock', outboxLock')
  BY IdleFits
<1> QED BY <1>1, <1>4, <1>5, <1>6, <1>7, StepKeeps

LEMMA AcquireKeeps ==
  ASSUME IInv, NEW p \in Processes, Acquire(p) \/ AcquireFails(p)
  PROVE  IInv'
<1> DEFINE k(copy, mis) == [proc[p] EXCEPT !.copy = copy, !.pc = "commit", !.misread = mis]
<1>1. /\ proc[p].pc = "lock" /\ proc[p].op # "enqueue" /\ lock' = p /\ proc[p] \in ProcState
      /\ UNCHANGED <<file, outbox, inbox, outboxLock, quarantined, ops>>
      /\ ops' \in 0 .. MaxOps /\ faults' \in 0 .. MaxFaults /\ inbox' \in Inboxes
  BY ProcBefore, OthersBefore, FaultCounted DEF Acquire, AcquireFails, At, Fault
<1>2. ASSUME NEW copy \in {file, None}, NEW mis \in BOOLEAN, Becomes(p, k(copy, mis)),
             IF mis THEN copy = None ELSE copy = file
      PROVE  IInv'
  <2> DEFINE r == k(copy, mis)
  <2>1. copy \in Teams \cup {None} /\ Indexed(copy) /\ Unnoted(copy)
    BY NoTeamFits, ProcBefore DEF FilesFit
  <2>2. /\ r \in ProcState /\ r.pc = "commit" /\ r.copy = copy /\ r.op = proc[p].op
        /\ r.box = proc[p].box /\ r.stale = proc[p].stale /\ r.reasons = proc[p].reasons
        /\ r.misread = mis
    BY <1>1, <2>1 DEF ProcState
  <2>3. Becomes(p, r)
    BY <1>2
  <2> HIDE DEF r
  <2>4. Reached(r, file, outbox) /\ Migrated(copy)
    BY <1>1, <1>2, <2>2, NoTeamFits, ProcBefore DEF Reached, Validated, Checking
  <2>5. Shape(p, r) /\ CopiesFit(r)
    BY <1>1, <1>2, <2>1, <2>2, <2>4, ProcBefore DEF Shape, Converting, Checking, CopiesFit
  <2>6. FactsAreLater(p, r, file, outbox, lock') /\ EffectsAreRead(p, r, outbox, outboxLock')
    BY <1>2, <2>2 DEF FactsAreLater, EffectsAreRead, Converting
  <2> QED BY <1>1, <2>2, <2>3, <2>4, <2>5, <2>6, LocalStepKeeps
<1>3. CASE Acquire(p)
  <2>1. proc[p].misread \in BOOLEAN
    BY <1>1 DEF ProcState
  <2>2. ASSUME proc[p].misread PROVE FALSE
    BY <1>1, <2>2, ProcBefore DEF Shape
  <2>3. [proc[p] EXCEPT !.copy = file, !.pc = "commit"] = k(file, FALSE)
    BY <1>1, <2>1, <2>2 DEF ProcState
  <2>4. Becomes(p, k(file, FALSE))
    BY <1>3, <2>3 DEF Acquire
  <2> QED BY <1>2, <2>4
<1>4. CASE AcquireFails(p)
  <2>1. proc[p].copy = None
    BY <1>1, ProcBefore DEF Shape, Converting
  <2>2. [proc[p] EXCEPT !.pc = "commit", !.misread = TRUE] = k(None, TRUE)
    BY <1>1, <2>1 DEF ProcState
  <2>3. Becomes(p, k(None, TRUE))
    BY <1>4, <2>2 DEF AcquireFails
  <2> QED BY <1>2, <2>3
<1> QED BY <1>3, <1>4

LEMMA AcquireTimesOutKeeps ==
  ASSUME IInv, NEW p \in Processes, AcquireTimesOut(p)
  PROVE  IInv'
BY ProcBefore, EndKeeps DEF AcquireTimesOut, directory

\* What p writes, and what of the team it read it keeps.
LEMMA WrittenFits ==
  ASSUME IInv, NEW p \in Processes, proc[p].pc = "commit",
         proc[p].copy # None \/ proc[p].op = "create"
  PROVE  /\ Written(p) \in Teams /\ Indexed(Written(p)) /\ ~Written(p).legacy
         /\ Written(p).notes = {}
         /\ proc[p].op # "refresh" => Said(proc[p].copy) \subseteq Said(Written(p))
         /\ proc[p].op = "refresh" => Written(p) = proc[p].stale
<1> DEFINE b == proc[p].copy
<1>1. /\ b \in Teams \cup {None} /\ proc[p].stale \in Teams \cup {None}
      /\ proc[p].op \in {"log", "dismiss", "create", "refresh", "attach"}
      /\ Indexed(b) /\ Unnoted(b) /\ Migrated(b)
      /\ Indexed(proc[p].stale) /\ Unnoted(proc[p].stale) /\ Migrated(proc[p].stale)
  BY ProcBefore DEF ProcState, Shape, CopiesFit
<1>2. ASSUME b # None, NEW c, Keeps(b, c)
      PROVE  c \in Teams /\ Indexed(c) /\ ~c.legacy /\ c.notes = {} /\ Said(b) \subseteq Said(c)
  BY <1>1, <1>2 DEF Keeps, Unnoted, Migrated
<1>3. CASE proc[p].op = "create" /\ b = None
  <2>1. Written(p) = proc[p].stale /\ proc[p].stale = CreateInitialTeam /\ Said(b) = {}
    BY <1>3, ProcBefore DEF Written, Shape, Said
  <2> QED BY <1>3, <2>1, InitialTeams
<1>4. CASE proc[p].op = "create" /\ b # None
  <2>1. /\ Written(p) = MergeTeamStates(b, CreateInitialTeam)
        /\ b \in Teams /\ ~b.legacy /\ b.notes = {}
    BY <1>1, <1>4, ProcBefore DEF Written, Shape, Unnoted, Migrated
  <2>2. Keeps(b, Written(p))
    BY <2>1, MergeKeeps
  <2> QED BY <1>2, <1>4, <2>2
<1>5. CASE proc[p].op \in {"log", "dismiss"}
  <2>1. Written(p) = AddRow(b, "events", Row("fact", p)) /\ b \in Teams /\ b # None
    BY <1>1, <1>5 DEF Written
  <2>2. Keeps(b, Written(p))
    BY <2>1, FactKeeps
  <2> QED BY <1>2, <1>5, <2>1, <2>2
<1>6. CASE proc[p].op = "attach"
  <2>1. Written(p) = b /\ b \in Teams /\ b # None
    BY <1>1, <1>6 DEF Written
  <2>2. Keeps(b, Written(p))
    BY <2>1 DEF Keeps
  <2> QED BY <1>2, <1>6, <2>1, <2>2
<1>7. CASE proc[p].op = "refresh"
  <2>1. Written(p) = proc[p].stale /\ proc[p].stale # None
    BY <1>7, ProcBefore DEF Written, Shape
  <2> QED BY <1>1, <1>7, <2>1 DEF Unnoted, Migrated
<1> QED BY <1>1, <1>3, <1>4, <1>5, <1>6, <1>7

LEMMA CommitKeeps ==
  ASSUME IInv, NEW p \in Processes, Commit(p)
  PROVE  IInv'
<1>1. /\ proc[p].pc = "commit" /\ lock' = None
      /\ file' = IF proc[p].copy = None /\ proc[p].op # "create" THEN file ELSE Written(p)
      /\ UNCHANGED <<outbox, inbox, outboxLock, quarantined, ops, faults>>
  BY DEF Commit, At
<1>2. Converted(outbox') /\ Migrated(file)
  BY <1>1, ProcBefore DEF Reached, Validated
<1>3. /\ file' \in Teams \cup {None} /\ Indexed(file') /\ Unnoted(file') /\ Migrated(file')
  <2>1. CASE proc[p].copy = None /\ proc[p].op # "create"
    BY <1>1, <1>2, <2>1, ProcBefore DEF FilesFit
  <2>2. CASE ~(proc[p].copy = None /\ proc[p].op # "create")
    <3>1. file' = Written(p)
      BY <1>1, <2>2
    <3>2. file' \in Teams /\ Indexed(file') /\ ~file'.legacy /\ file'.notes = {}
      BY <1>1, <2>2, <3>1, WrittenFits
    <3> QED BY <3>2 DEF Unnoted, Migrated
  <2> QED BY <2>1, <2>2
<1>4. FilesFit(file', outbox')
  BY <1>2, <1>3 DEF FilesFit
<1>5. /\ ops' \in 0 .. MaxOps /\ faults' \in 0 .. MaxFaults /\ outbox' \subseteq Effects
      /\ inbox' \in Inboxes /\ lock' \in Processes \cup {None}
      /\ outboxLock' \in Processes \cup {None} /\ quarantined' \in BOOLEAN
      /\ Converted(outbox) => Converted(outbox')
      /\ \A q \in Processes \ {p} : lock' # q
      /\ \A q \in Processes \ {p} :
           outboxLock' = q => outboxLock = q /\ NewEffects(outbox') \subseteq NewEffects(outbox)
  BY <1>1, <1>2, NoneAssumption, ProcBefore, OthersBefore
<1>6. PICK k \in ProcState : Becomes(p, k) /\ ProcFits(p, k, file', outbox', lock', outboxLock')
  <2> DEFINE d == [Idle EXCEPT !.pc = "unlink", !.op = "dismiss"]
  <2>1. CASE Becomes(p, Idle)
    BY <2>1, IdleFits
  <2>2. CASE Becomes(p, d)
    <3>1. /\ d \in ProcState /\ d.pc = "unlink" /\ d.op = "dismiss" /\ d.copy = None
          /\ d.stale = None /\ d.box = {} /\ d.reasons = {}
      BY DEF Idle, ProcState
    <3> HIDE DEF d
    <3>2. Shape(p, d) /\ CopiesFit(d)
      BY <3>1, NoTeamFits, NoneAssumption DEF Shape, CopiesFit, Converting, Checking
    <3>3. /\ Reached(d, file', outbox') /\ FactsAreLater(p, d, file', outbox', lock')
          /\ EffectsAreRead(p, d, outbox', outboxLock')
      BY <1>2, <1>3, <3>1
         DEF Reached, FactsAreLater, EffectsAreRead, Validated, Converting, Checking
    <3> QED BY <2>2, <3>1, <3>2, <3>3 DEF ProcFits
  <2> QED BY <2>1, <2>2 DEF Commit
<1> QED BY <1>1, <1>2, <1>3, <1>4, <1>5, <1>6, StepKeeps

\* A step among the mailbox's.
LEMMA MailboxKeeps ==
  ASSUME IInv, NEW p \in Processes,
         OpenInbox(p) \/ FillInbox(p) \/ PushMailboxMessage(p) \/ RemoveMailbox(p)
  PROVE  IInv'
<1>1. /\ proc[p].pc \in {"open", "fill", "push", "unlink"} /\ proc[p] \in ProcState
      /\ UNCHANGED <<file, outbox, lock, outboxLock, quarantined, ops, faults>>
      /\ ops' \in 0 .. MaxOps /\ faults' \in 0 .. MaxFaults
  BY ProcBefore DEF OpenInbox, FillInbox, PushMailboxMessage, RemoveMailbox, At
<1>2. inbox' \in Inboxes
  BY OthersBefore DEF OpenInbox, FillInbox, PushMailboxMessage, RemoveMailbox, Inboxes
<1>3. CASE Becomes(p, Idle)
  <2>1. Idle \in ProcState /\ ProcFits(p, Idle, file, outbox, lock', outboxLock')
    BY IdleFits
  <2> QED BY <1>1, <1>2, <1>3, <2>1, LocalStepKeeps DEF ProcFits
<1>4. ASSUME NEW pc \in {"fill", "push"}, Becomes(p, [proc[p] EXCEPT !.pc = pc])
      PROVE  IInv'
  <2> DEFINE k == [proc[p] EXCEPT !.pc = pc]
  <2>1. /\ k \in ProcState /\ k.pc = pc /\ k.copy = proc[p].copy /\ k.op = proc[p].op
        /\ k.box = proc[p].box /\ k.stale = proc[p].stale /\ k.reasons = proc[p].reasons
    BY <1>1 DEF ProcState
  <2>2. Becomes(p, k)
    BY <1>4
  <2> HIDE DEF k
  <2>3. Shape(p, k) /\ CopiesFit(k)
    BY <1>1, <2>1, ProcBefore DEF Shape, Converting, Checking, CopiesFit
  <2>4. /\ Reached(k, file, outbox) /\ FactsAreLater(p, k, file, outbox, lock')
        /\ EffectsAreRead(p, k, outbox, outboxLock')
    BY <1>1, <2>1, ProcBefore
       DEF Reached, Validated, FactsAreLater, EffectsAreRead, Converting, Checking
  <2> QED BY <1>1, <1>2, <2>1, <2>2, <2>3, <2>4, LocalStepKeeps
<1>5. Becomes(p, Idle) \/ \E pc \in {"fill", "push"} : Becomes(p, [proc[p] EXCEPT !.pc = pc])
  BY DEF OpenInbox, FillInbox, PushMailboxMessage, RemoveMailbox, GoTo
<1> QED BY <1>3, <1>4, <1>5

LEMMA CrashKeeps ==
  ASSUME IInv, NEW p \in Processes, Crash(p)
  PROVE  IInv'
BY ProcBefore, FaultCounted, EndKeeps DEF Crash, Fault, directory

LEMMA LockLapsesKeeps ==
  ASSUME IInv, LockLapses
  PROVE  IInv'
<1>1. /\ UNCHANGED <<file, outbox, inbox, quarantined, proc, ops, faults>>
      /\ lock' \in {lock, None} /\ outboxLock' \in {outboxLock, None}
  BY DEF LockLapses
<1>2. TypeOK'
  BY <1>1 DEF IInv, TypeOK
<1>3. ASSUME NEW q \in Processes PROVE ProcFits(q, proc[q], file, outbox, lock', outboxLock')
  <2>1. ProcFits(q, proc[q], file, outbox, lock, outboxLock) /\ None # q
    BY NoneAssumption DEF IInv
  <2> QED BY <1>1, <2>1 DEF ProcFits, FactsAreLater, EffectsAreRead
<1> QED BY <1>1, <1>2, <1>3 DEF IInv

-----------------------------------------------------------------------------
(* The invariant, and what it is for. *)

LEMMA InitIInv ==
  ASSUME Init
  PROVE  IInv
<1>1. /\ file \in Teams \cup {None} /\ Indexed(file) /\ Unnoted(file) /\ Facts(file) = {}
  <2>1. CASE file = None
    BY <2>1, NoTeamFits
  <2>2. CASE file # None
    BY <2>2, InitialTeams DEF Init, Unnoted
  <2> QED BY <2>1, <2>2
<1>2. /\ outbox \subseteq Effects /\ NewEffects(outbox) = {}
      /\ file = None => Converted(outbox)
  <2>1. outbox \subseteq Range(Legacy) /\ (file = None => outbox = {})
    BY DEF Init
  <2> QED BY <2>1, LegacyAssumption DEF Effects, NewEffects, Converted, NoteEffects
<1>3. FilesFit(file, outbox)
  BY <1>1, <1>2 DEF FilesFit
<1>4. ASSUME NEW p \in Processes
      PROVE  proc[p] \in ProcState /\ ProcFits(p, proc[p], file, outbox, lock, outboxLock)
  BY IdleFits DEF Init
<1>5. TypeOK
  <2>1. proc \in [Processes -> ProcState]
    BY <1>4 DEF Init
  <2>2. /\ lock = None /\ outboxLock = None /\ quarantined = FALSE /\ ops = 0 /\ faults = 0
        /\ inbox \in {None, "there", "unsupported"}
    BY DEF Init
  <2>3. ops \in 0 .. MaxOps /\ faults \in 0 .. MaxFaults
    BY <2>2, BoundsType
  <2> QED BY <1>1, <1>2, <2>1, <2>2, <2>3 DEF TypeOK
<1> QED BY <1>3, <1>4, <1>5 DEF IInv

LEMMA ValidationKeeps ==
  ASSUME IInv, NEW p \in Processes, Validation(p)
  PROVE  IInv'
BY LookStateKeeps, LookStateFailsKeeps, LookOutboxKeeps, LookOutboxFailsKeeps, SaveOutboxKeeps,
   SaveStateKeeps, CheckStateKeeps, CheckInboxesKeeps, CheckOutboxKeeps, QuarantineTeamDirKeeps,
   NothingToQuarantineKeeps DEF Validation

LEMMA NextIInv ==
  ASSUME IInv, [Next]_vars
  PROVE  IInv'
<1>1. CASE UNCHANGED vars
  BY <1>1 DEF vars, directory, IInv, TypeOK
<1>2. CASE LockLapses
  BY <1>2, LockLapsesKeeps
<1>3. ASSUME NEW p \in Processes, Step(p)
      PROVE  IInv'
  BY <1>3, BeginKeeps, ValidationKeeps, ReadKeeps, PanesLeaveItKeeps, PanesCallForItKeeps,
     AcquireOutboxKeeps, ReadOutboxKeeps, EnqueueKeeps, AcquireKeeps, AcquireTimesOutKeeps,
     CommitKeeps, DeleteTeamStateKeeps, MailboxKeeps, CrashKeeps DEF Step
<1> QED BY <1>1, <1>2, <1>3 DEF Next

\* The invariant holds in every reachable state.
THEOREM Invariance == Spec => []IInv
<1>1. Init => IInv
  BY InitIInv
<1>2. IInv /\ [Next]_vars => IInv'
  BY NextIInv
<1> QED BY <1>1, <1>2, PTL DEF Spec

\* The files, what the processes carry and the counters keep their types.
THEOREM TypeCorrect == Spec => []TypeOK
<1>1. IInv => TypeOK
  BY DEF IInv
<1> QED BY <1>1, Invariance, PTL

\* The history has each thing once and no number twice, whatever copies the
\* processes convert, merge and write (taskHistoryMigration.ts:240, merge.ts:124).
THEOREM HistoryStaysIndexed == Spec => []HistoryIsIndexed
<1>1. IInv => HistoryIsIndexed
  BY DEF IInv, FilesFit, Indexed, HistoryIsIndexed
<1> QED BY <1>1, Invariance, PTL

\* A team is set aside for what no version converts or because one of its files
\* could not be read, and never because another process was converting it at the
\* same moment, though neither conversion nor check takes a lock
\* (validation.ts:376, 580).
THEOREM QuarantinesHaveCause == Spec => []QuarantinedForCause
<1>1. IInv => QuarantinedForCause
  <2> SUFFICES ASSUME IInv, NEW p \in Processes, proc[p].pc = "quarantine", ~proc[p].misread
               PROVE  proc[p].reasons \cap {"unsupported", "unread"} # {}
    BY DEF QuarantinedForCause, At
  <2>1. /\ proc[p].reasons # {} /\ "legacy" \notin proc[p].reasons
        /\ proc[p].reasons \subseteq {"legacy", "unsupported", "unread"}
    BY ProcBefore DEF Shape, Reached, Checking, ProcState
  <2> QED BY <2>1
<1> QED BY <1>1, Invariance, PTL

-----------------------------------------------------------------------------
(* What may be forgotten. *)

LEMMA BecomesIs ==
  ASSUME IInv, NEW p \in Processes, NEW k, Becomes(p, k)
  PROVE  proc'[p] = k /\ \A q \in Processes \ {p} : proc'[q] = proc[q]
BY DEF Becomes, IInv, TypeOK

\* Whatever p does, the others stay where they are.
LEMMA OthersStay ==
  ASSUME IInv, NEW p \in Processes, Step(p)
  PROVE  \A q \in Processes \ {p} : proc'[q] = proc[q]
<1> DEFINE Stay == \A q \in Processes \ {p} : proc'[q] = proc[q]
<1>0. ASSUME NEW k, Becomes(p, k) PROVE Stay
  BY <1>0, BecomesIs
<1> SUFFICES Stay
  OBVIOUS
<1> HIDE DEF Stay
<1>1. ASSUME NEW op \in Operations, Begin(p, op) PROVE Stay
  BY <1>0, <1>1 DEF Begin
<1>2. CASE LookState(p) \/ LookStateFails(p) \/ LookOutbox(p) \/ LookOutboxFails(p)
  BY <1>0, <1>2 DEF LookState, LookStateFails, LookOutbox, LookOutboxFails, GoTo
<1>3. CASE SaveOutbox(p) \/ SaveState(p)
  BY <1>0, <1>3 DEF SaveOutbox, SaveState, GoTo
<1>4. CASE CheckState(p) \/ CheckStateFails(p) \/ ListInboxes(p)
  BY <1>0, <1>4 DEF CheckState, CheckStateFails, ListInboxes, Finds
<1>5. CASE CheckInbox(p) \/ CheckInboxFails(p) \/ CheckOutbox(p) \/ CheckOutboxFails(p)
  BY <1>0, <1>5 DEF CheckInbox, CheckInboxFails, CheckOutbox, CheckOutboxFails, Finds
<1>6. CASE QuarantineTeamDir(p) \/ NothingToQuarantine(p)
  BY <1>0, <1>6 DEF QuarantineTeamDir, NothingToQuarantine
<1>7. CASE Read(p) \/ ReadFails(p) \/ PanesLeaveIt(p) \/ PanesCallForIt(p)
  BY <1>0, <1>7 DEF Read, ReadFails, PanesLeaveIt, PanesCallForIt, GoTo
<1>8. CASE AcquireOutbox(p) \/ ReadOutbox(p) \/ ReadOutboxFails(p) \/ Enqueue(p)
  BY <1>0, <1>8 DEF AcquireOutbox, ReadOutbox, ReadOutboxFails, Enqueue
<1>9. CASE Acquire(p) \/ AcquireFails(p) \/ AcquireTimesOut(p) \/ Commit(p)
  BY <1>0, <1>9 DEF Acquire, AcquireFails, AcquireTimesOut, Commit
<1>10. CASE DeleteTeamState(p) \/ Crash(p)
  BY <1>0, <1>10 DEF DeleteTeamState, Crash
<1>11. CASE OpenInbox(p) \/ FillInbox(p) \/ PushMailboxMessage(p) \/ RemoveMailbox(p)
  BY <1>0, <1>11 DEF OpenInbox, FillInbox, PushMailboxMessage, RemoveMailbox, GoTo
<1> QED
  BY <1>1, <1>2, <1>3, <1>4, <1>5, <1>6, <1>7, <1>8, <1>9, <1>10, <1>11 DEF Step, Validation

LEMMA KnownIs ==
  ASSUME NEW what
  PROVE  what \in Known <=>
           \/ what \in Said(file) \/ what \in Pending(outbox)
           \/ \E q \in Processes : proc[q].pc = "saveState" /\ what \in Seen(q)
BY DEF Known, At

LEMMA KnownLater ==
  ASSUME NEW what
  PROVE  what \in Known' <=>
           \/ what \in Said(file') \/ what \in Pending(outbox')
           \/ \E q \in Processes :
                /\ proc'[q].pc = "saveState"
                /\ what \in Said(proc'[q].copy) \cup Pending(proc'[q].box)
BY DEF Known, At, Seen

\* Notes and cleanups are not facts.
LEMMA SaidFacts ==
  ASSUME NEW team \in Teams, NEW what \in Said(team), what.kind = "fact"
  PROVE  what \in Facts(team)
<1>1. team # None
  BY NoneAssumption
<1>2. /\ \A r \in team.reports : r.what.kind = "report"
      /\ \A r \in team.refs : r.what.kind = "ref"
  BY DEF Teams
<1>3. /\ \A e : Row("cleaned", e).kind # "fact"
      /\ \A n : RowOfNote(n).kind # "fact"
  BY DEF Row, RowOfNote
<1>4. HasRow(team, what)
  BY <1>1, <1>3, SaidIs
<1>5. \E r \in team.events : r.what = what
  BY <1>2, <1>4 DEF HasRow, History
<1> QED BY <1>1, <1>5, FactsAre

LEMMA FactsAreSaid ==
  ASSUME NEW team, team # None
  PROVE  Facts(team) \subseteq Said(team)
BY SaidIs, FactsAre DEF HasRow, History

LEMMA PendingIs ==
  ASSUME NEW o
  PROVE  Pending(o) = Owed(o) \cup {Row("effect", e.id) : e \in NewEffects(o)}
BY DEF Pending, Owed, NewEffects

\* What was known and is not after a step of p was in a file or p was to write it.
LEMMA ForgottenWas ==
  ASSUME IInv, NEW p \in Processes, Step(p), NEW what \in Known, what \notin Known'
  PROVE  /\ \/ what \in Said(file) \/ what \in Pending(outbox)
            \/ proc[p].pc = "saveState" /\ what \in Seen(p)
         /\ what \notin Said(file') /\ what \notin Pending(outbox')
<1>1. what \notin Said(file') /\ what \notin Pending(outbox')
  BY KnownLater
<1>2. ASSUME NEW q \in Processes \ {p}, proc[q].pc = "saveState", what \in Seen(q) PROVE FALSE
  <2>1. proc'[q] = proc[q]
    BY OthersStay
  <2> QED BY <1>2, <2>1, KnownLater DEF Seen
<1> QED BY <1>1, <1>2, KnownIs

LEMMA SaveOutboxForgets ==
  ASSUME IInv, NEW p \in Processes, SaveOutbox(p), NEW what, what \notin Known'
  PROVE  Moves(p) /\ MayForget(p, what)
<1> DEFINE k == [proc[p] EXCEPT !.pc = "saveState"]
<1>1. At(p, "saveOutbox") /\ proc[p].pc = "saveOutbox" /\ proc'[p] = k
  BY BecomesIs DEF SaveOutbox, GoTo, At
<1>2. k.pc = "saveState" /\ k.copy = proc[p].copy /\ k.box = proc[p].box
  BY ProcBefore DEF ProcState
<1> HIDE DEF k
<1>3. what \notin Seen(p)
  BY <1>1, <1>2, KnownLater DEF Seen
<1>4. proc'[p] # proc[p]
  BY <1>1, <1>2
<1> QED BY <1>1, <1>3, <1>4 DEF Moves, MayForget

LEMMA SaveStateForgets ==
  ASSUME IInv, NEW p \in Processes, SaveState(p), NEW what, what \notin Known'
  PROVE  Moves(p) /\ MayForget(p, what)
<1> DEFINE k == [proc[p] EXCEPT !.pc = "check"]
           b == proc[p].copy
           m == MigrateLegacyTaskNoteOutboxEffects(MigrateTaskNotesToHistory(b), proc[p].box)
<1>1. proc[p].pc = "saveState" /\ proc'[p] = k /\ file' = m
  BY BecomesIs DEF SaveState, GoTo, At
<1>2. k.pc = "check"
  BY ProcBefore DEF ProcState
<1>3. b \in Teams /\ proc[p].box \in SUBSET Effects /\ NewEffects(proc[p].box) = {}
  BY <1>1, ProcBefore DEF ProcState, Shape, Converting, FactsAreLater
<1>4. Said(b) \cup Owed(proc[p].box) \subseteq Said(m)
  BY <1>3, MigrationKeeps
<1> HIDE DEF k, m
<1>5. Pending(proc[p].box) = Owed(proc[p].box)
  BY <1>3, PendingIs
<1>6. what \notin Said(m)
  BY <1>1, KnownLater
<1>7. what \notin Seen(p)
  BY <1>4, <1>5, <1>6 DEF Seen
<1>8. proc'[p] # proc[p]
  BY <1>1, <1>2
<1> QED BY <1>1, <1>7, <1>8 DEF Moves, MayForget

LEMMA EnqueueForgets ==
  ASSUME IInv, NEW p \in Processes, Enqueue(p), NEW what \in Known, what \notin Known'
  PROVE  Moves(p) /\ MayForget(p, what)
<1> DEFINE box == proc[p].box
<1>1. /\ At(p, "write") /\ proc[p].pc = "write" /\ proc'[p] = Idle /\ Idle.pc = "idle"
      /\ file' = file /\ outbox' = box \cup {NewEffect(p)}
  BY BecomesIs DEF Enqueue, At, Idle
<1>2. what \in Pending(outbox) /\ what \notin Pending(outbox')
  BY <1>1, ForgottenWas DEF Step
<1>3. NewEffects(box) \subseteq NewEffects(outbox')
  BY <1>1 DEF NewEffects
<1>4. Owed(outbox) = {} /\ Owed(box) = {}
  BY <1>1, ProcBefore DEF Reached, EffectsAreRead, Validated, Converted, Owed
<1>5. what \notin Seen(p)
  <2>1. what \notin Pending(box)
    BY <1>2, <1>3, <1>4, PendingIs
  <2>2. Said(proc[p].copy) = {}
    BY <1>1, ProcBefore DEF Shape, Converting, Said
  <2> QED BY <2>1, <2>2 DEF Seen
<1>6. ASSUME outboxLock = p, ~proc[p].misread PROVE FALSE
  <2>1. NewEffects(outbox) \subseteq NewEffects(outbox')
    BY <1>1, <1>6, ProcBefore DEF EffectsAreRead, NewEffects
  <2> QED BY <1>2, <1>4, <2>1, PendingIs
<1> QED BY <1>1, <1>5, <1>6 DEF Moves, MayForget

LEMMA CommitForgets ==
  ASSUME IInv, NEW p \in Processes, Commit(p), NEW what \in Known, what \notin Known'
  PROVE  Moves(p) /\ MayForget(p, what)
<1> DEFINE b == proc[p].copy
<1>1. /\ At(p, "commit") /\ proc[p].pc = "commit" /\ proc'[p].pc \in {"idle", "unlink"}
      /\ file' = IF b = None /\ proc[p].op # "create" THEN file ELSE Written(p)
      /\ outbox' = outbox
  <2>1. Idle.pc = "idle" /\ [Idle EXCEPT !.pc = "unlink", !.op = "dismiss"].pc = "unlink"
    BY DEF Idle
  <2>2. PICK k \in {Idle, [Idle EXCEPT !.pc = "unlink", !.op = "dismiss"]} : Becomes(p, k)
    BY DEF Commit
  <2>3. proc'[p] = k
    BY <2>2, BecomesIs
  <2> QED BY <2>1, <2>2, <2>3 DEF Commit, At
<1>2. what \in Said(file) /\ what \notin Said(file')
  BY <1>1, ForgottenWas DEF Step
<1>3. file' = Written(p) /\ (b # None \/ proc[p].op = "create")
  BY <1>1, <1>2
<1>4. Moves(p)
  BY <1>1 DEF Moves
<1>5. CASE proc[p].op = "refresh"
  <2>1. what \notin Said(proc[p].stale)
    BY <1>1, <1>2, <1>3, <1>5, WrittenFits
  <2> QED BY <1>1, <1>4, <1>5, <2>1 DEF MayForget
<1>6. CASE proc[p].op # "refresh"
  <2>1. what \notin Said(b)
    BY <1>1, <1>2, <1>3, <1>6, WrittenFits
  <2>2. what \notin Seen(p)
    <3>1. proc[p].box = {}
      BY <1>1, ProcBefore DEF Shape
    <3>2. Pending({}) = {}
      BY DEF Pending, NoteEffects
    <3> QED BY <2>1, <3>1, <3>2 DEF Seen
  <2>3. ASSUME what.kind = "fact", lock = p, ~(proc[p].op = "create" /\ proc[p].misread)
        PROVE  FALSE
    <3>1. file \in Teams
      BY <1>2 DEF Said, IInv, TypeOK
    <3>2. what \in Facts(file)
      BY <1>2, <2>3, <3>1, SaidFacts
    <3>3. ~proc[p].misread
      BY <1>1, <1>3, <2>3, ProcBefore DEF Shape
    <3>4. what \in Facts(b)
      BY <1>1, <2>3, <3>2, <3>3, ProcBefore DEF FactsAreLater
    <3>5. b # None
      BY <3>4 DEF Facts
    <3> QED BY <2>1, <3>4, <3>5, FactsAreSaid
  <2> QED BY <1>1, <1>4, <2>2, <2>3 DEF MayForget
<1> QED BY <1>5, <1>6

\* A step that leaves the files alone forgets only what a process was to write.
LEMMA StepForgets ==
  ASSUME IInv, NEW p \in Processes, Step(p), NEW what \in Known, what \notin Known'
  PROVE  Moves(p) /\ MayForget(p, what)
<1>1. ASSUME file' = file, outbox' = outbox PROVE proc[p].pc = "saveState"
  BY <1>1, ForgottenWas
<1>2. ASSUME NEW op \in Operations, Begin(p, op) PROVE FALSE
  BY <1>1, <1>2 DEF Begin, At, directory
<1>3. CASE LookState(p) \/ LookStateFails(p) \/ LookOutbox(p) \/ LookOutboxFails(p)
  BY <1>1, <1>3 DEF LookState, LookStateFails, LookOutbox, LookOutboxFails, At, directory
<1>4. CASE CheckState(p) \/ CheckStateFails(p) \/ ListInboxes(p)
  BY <1>1, <1>4 DEF CheckState, CheckStateFails, ListInboxes, At, directory
<1>5. CASE CheckInbox(p) \/ CheckInboxFails(p) \/ CheckOutbox(p) \/ CheckOutboxFails(p)
           \/ NothingToQuarantine(p)
  BY <1>1, <1>5 DEF CheckInbox, CheckInboxFails, CheckOutbox, CheckOutboxFails,
                    NothingToQuarantine, At, directory
<1>6. CASE Read(p) \/ ReadFails(p) \/ PanesLeaveIt(p) \/ PanesCallForIt(p)
  BY <1>1, <1>6 DEF Read, ReadFails, PanesLeaveIt, PanesCallForIt, At, directory
<1>7. CASE AcquireOutbox(p) \/ ReadOutbox(p) \/ ReadOutboxFails(p)
  BY <1>1, <1>7 DEF AcquireOutbox, ReadOutbox, ReadOutboxFails, At, directory
<1>8. CASE Acquire(p) \/ AcquireFails(p) \/ AcquireTimesOut(p)
  BY <1>1, <1>8 DEF Acquire, AcquireFails, AcquireTimesOut, At, directory
<1>9. CASE OpenInbox(p) \/ FillInbox(p) \/ PushMailboxMessage(p) \/ RemoveMailbox(p)
  BY <1>1, <1>9 DEF OpenInbox, FillInbox, PushMailboxMessage, RemoveMailbox, At
<1>10. CASE Crash(p)
  <2>1. proc'[p] = Idle /\ Idle.pc = "idle" /\ proc[p].pc = "saveState"
    BY <1>1, <1>10, BecomesIs DEF Crash, Idle, directory
  <2> QED BY <2>1 DEF Moves, MayForget, At
<1>11. CASE QuarantineTeamDir(p) \/ DeleteTeamState(p)
  <2>1. proc[p].pc \in {"quarantine", "remove"} /\ \E k : Becomes(p, k) /\ k # proc[p]
    <3>1. CASE QuarantineTeamDir(p)
      <4> DEFINE ends == {Idle, [Idle EXCEPT !.pc = "remove", !.op = "delete"],
                          [Idle EXCEPT !.pc = "unlink", !.op = "dismiss"],
                          [Idle EXCEPT !.pc = "write", !.op = "append"]}
      <4>1. \A k \in ends : k.pc # "quarantine"
        <5>1. /\ Idle.pc = "idle"
              /\ [Idle EXCEPT !.pc = "remove", !.op = "delete"].pc = "remove"
              /\ [Idle EXCEPT !.pc = "unlink", !.op = "dismiss"].pc = "unlink"
              /\ [Idle EXCEPT !.pc = "write", !.op = "append"].pc = "write"
          BY DEF Idle
        <5> QED BY <5>1
      <4>2. \E k \in ends : Becomes(p, k)
        BY <3>1 DEF QuarantineTeamDir
      <4>3. proc[p].pc = "quarantine"
        BY <3>1 DEF QuarantineTeamDir, At
      <4> HIDE DEF ends
      <4> QED BY <4>1, <4>2, <4>3
    <3>2. CASE DeleteTeamState(p)
      BY <3>2 DEF DeleteTeamState, At, Idle
    <3> QED BY <1>11, <3>1, <3>2
  <2>2. proc'[p] # proc[p]
    BY <2>1, BecomesIs
  <2> QED BY <2>1, <2>2 DEF Moves, MayForget
<1>12. CASE SaveOutbox(p) \/ SaveState(p)
  BY <1>12, SaveOutboxForgets, SaveStateForgets
<1>13. CASE Enqueue(p) \/ Commit(p)
  BY <1>13, EnqueueForgets, CommitForgets
<1> QED
  BY <1>2, <1>3, <1>4, <1>5, <1>6, <1>7, <1>8, <1>9, <1>10, <1>11, <1>12, <1>13
     DEF Step, Validation

\* What is known of a team, in its history, in what earlier versions left or in
\* what a process is converting, stays known, but for what a removal, a quarantine,
\* a stale copy, a crash between two writes, an overtaken section or one whose read
\* failed drops (validation.ts:505, teamStore.ts:139, merge.ts:124,
\* outboxStore.ts:104).
THEOREM ForgettingHasCause == Spec => ForgottenOnlyByStaleCopies
<1> DEFINE Caused == \A what \in Known \ Known' :
                       \E p \in Processes : Moves(p) /\ MayForget(p, what)
<1>1. ASSUME IInv, [Next]_vars PROVE [Caused]_vars
  <2> SUFFICES ASSUME Next, NEW what \in Known, what \notin Known'
               PROVE  \E p \in Processes : Moves(p) /\ MayForget(p, what)
    BY <1>1
  <2>1. CASE LockLapses
    <3>1. file' = file /\ outbox' = outbox /\ proc' = proc
      BY <2>1 DEF LockLapses
    <3> QED BY <3>1, KnownIs, KnownLater DEF Seen
  <2>2. ASSUME NEW p \in Processes, Step(p)
        PROVE  \E q \in Processes : Moves(q) /\ MayForget(q, what)
    BY <1>1, <2>2, StepForgets
  <2> QED BY <2>1, <2>2 DEF Next
<1> HIDE DEF Caused
<1>2. IInv /\ [Next]_vars => [Caused]_vars
  BY <1>1
<1>3. Spec => [][Caused]_vars
  BY <1>2, Invariance, PTL DEF Spec
<1> QED BY <1>3 DEF Caused, ForgottenOnlyByStaleCopies
==============================================================================
