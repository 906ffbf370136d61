---------------------------- MODULE WorkersProofs ----------------------------
(***************************************************************************)
(* Proofs about Workers for any number of spawn calls, faults, uses of the *)
(* panel and messages.                                                     *)
(*                                                                         *)
(* A pane is somebody's because each spawn call keeps the member it        *)
(* reserved or is recorded as having lost it (KeepsItsMember), and because *)
(* the pane of a member, or of an old copy of one, is that of its own      *)
(* call, or of one recorded as having lost its worker (PaneOfMember).  A   *)
(* task comes once because, when it was given with nothing left to bring   *)
(* it, all that still has it is the prompt itself: the request claimed for *)
(* it and the bootPrompt it is about to clear (UsedUp).                    *)
(***************************************************************************)
EXTENDS Workers, TLAPS

\* The steps of a spawn call before it has split its pane, and after it has bound it.
Unsplit == {"idle", "reserved"}
Bound   == {"booting", "waiting", "asked", "running", "committing"}

\* A call that lost no worker has the member it reserved, and that has its pane.
KeepsItsMember ==
  \A c \in Calls \ orphaned :
    InProgress(c) =>
      /\ member # None /\ member.by = c
      /\ call[c].pc \in Bound => member.pane = c \/ c \notin panes

\* The pane of a member is its call's, or of a call that lost its worker.
Lawful(m) == m # None /\ m.pane # None => m.pane = m.by \/ m.pane \in orphaned
CopyLawful == copy # None => Lawful(copy.member)
PaneOfMember == Lawful(member) /\ CopyLawful

PanesAreSplit == \A c \in panes : call[c].pc \notin Unsplit

\* A call's task is its own, and it runs the effect in one step of its own only.
TaskOfCall == \A c \in Calls : call[c].task \in {c, None}
RunsOfCalls == \A c \in Calls : run[c] # None => call[c].pc = "running"

\* Where a task can be.
Booted(c) == member # None /\ member.boot = c
Under(c) ==
  \/ sender # None /\ sender.boot = c
  \/ copy # None /\ copy.member # None /\ copy.member.boot = c
  \/ Waiting /\ effect.task = c
  \/ \E x \in Runners : run[x] # None /\ run[x].task = c
Asked(k, c) == request[k] # None /\ request[k].boot = c
Pumped(k, c) == pump[k] # None /\ c \in pump[k].tasks

Carries(c) ==
  \/ Under(c) \/ Booted(c)
  \/ \E k \in Slots : Asked(k, c)
  \/ \E k \in Calls : Pumped(k, c)

BegunBefore == \A c \in Calls : Carries(c) \/ given[c] > 0 => call[c].pc # "idle"

\* The request of a prompt that was sent with the task.
SentFor(k, c) == k \in Calls /\ ~request[k].pending /\ Pumping(k, "sending") /\ c \in pump[k].tasks

\* What may still bring a task.
Comes(c) ==
  \/ InProgress(c) \/ Under(c)
  \/ Booted(c) /\ \A k \in Calls : c \notin Sent(k)
  \/ \E k \in Slots : Asked(k, c) /\ ~SentFor(k, c)
  \/ \E k \in Calls : Pumping(k, "claim") /\ Pumped(k, c)

\* A task that came, and not while something was left to bring it once more, is
\* left by nothing to come.
UsedUp == \A c \in Calls \ again : given[c] > 0 => ~Comes(c)

Panes == KeepsItsMember /\ PaneOfMember /\ PanesAreSplit /\ OrphanHasCause
Tasks == TaskOfCall /\ RunsOfCalls /\ BegunBefore /\ UsedUp /\ GivenTwiceForCause
IInv  == TypeOK /\ Panes /\ Tasks

-----------------------------------------------------------------------------
(* Types. *)

LEMMA NoneIsNew ==
  /\ None \notin Runners /\ None \notin Calls /\ None \notin Members /\ None \notin Requests
  /\ None \notin Leases /\ None \notin Runs /\ None \notin Pumps /\ None \notin Senders
  /\ None \notin Copies
BY NoneAssumption DEF Runners

LEMMA HasIsMember ==
  ASSUME TypeOK
  PROVE  Has <=> member # None
BY DEF TypeOK, Has

Calling == [Calls -> [pc : {"idle", "reserved", "laying", "booting", "waiting", "asked",
                            "running", "committing"} \cup Ended, task : Calls \cup {None}]]

Effects == [status : {"none", "pending", "retry", "done", "failed"},
            task : Calls \cup {None}, by : Runners \cup {None}]

\* What the files hold besides the member.
Stored ==
  /\ team \in BOOLEAN /\ (~team => member = None)
  /\ effect \in Effects /\ (Waiting => effect.task # None)
  /\ request \in [Slots -> {None} \cup Requests]
  /\ lease \in {None} \cup Leases

\* What is under way.
Doing ==
  /\ run \in [Runners -> {None} \cup Runs]
  /\ pump \in [Calls -> {None} \cup Pumps]
  /\ sender \in {None} \cup Senders
  /\ copy \in {None} \cup Copies

\* What tmux has: panes of calls, with a session that has not ended for itself.
Paned ==
  /\ panes \subseteq Calls /\ labelled \subseteq Calls
  /\ session \in [Calls -> {"off", "booting", "attached", "unbound", "bridged", "stopping",
                            "ended"}]
  /\ \A c \in panes : session[c] \notin {"off", "stopping"}

Counted ==
  /\ given \in [Calls -> Nat] /\ orphaned \subseteq Calls /\ again \subseteq Calls

Bounded == faults \in 0..MaxFaults /\ panel \in 0..MaxPanel /\ sends \in 0..MaxSends

LEMMA TypeParts ==
  TypeOK <=> /\ member \in {None} \cup Members /\ call \in Calling
             /\ Stored /\ Doing /\ Paned /\ Counted /\ Bounded
BY DEF TypeOK, Calling, Effects, Stored, Doing, Paned, Counted, Bounded, Waiting

LEMMA TypeIsKept ==
  ASSUME member' \in {None} \cup Members, call' \in Calling,
         Stored', Doing', Paned', Counted', Bounded'
  PROVE  TypeOK'
BY DEF TypeOK, Calling, Effects, Stored, Doing, Paned, Counted, Bounded, Waiting

LEMMA BoundsKept ==
  ASSUME Bounded, Fault \/ Panel \/ UNCHANGED bounds
  PROVE  Bounded'
BY BoundsType DEF Fault, Panel, bounds, Bounded

LEMMA KillKept ==
  ASSUME Paned, NEW gone, Kill(gone), labelled' \subseteq Calls
  PROVE  Paned' /\ panes' \subseteq panes /\ panes' = panes \ gone /\ pump' = pump
BY DEF Kill, Paned

\* What the code does to the bootPrompt of the member keeps whose member it is.
SameMember ==
  /\ member' \in {None} \cup Members
  /\ member' = None <=> member = None
  /\ member # None => member'.by = member.by /\ member'.pane = member.pane

LEMMA SameMemberSame == ASSUME member \in {None} \cup Members, member' = member PROVE SameMember
BY DEF SameMember

LEMMA BootPromptSet ==
  ASSUME member \in {None} \cup Members, NEW task \in Calls \cup {None}, member' = WithBoot(task)
  PROVE  SameMember /\ (member' # None => member'.boot = task)
<1>1. CASE member = None
  BY <1>1 DEF WithBoot, SameMember
<1>2. CASE member # None
  <2>1. member \in Members /\ member' = [member EXCEPT !.boot = task]
    BY <1>2 DEF WithBoot
  <2>2. member' \in Members /\ member' # None
    BY <2>1, NoneIsNew DEF Members
  <2> QED BY <1>2, <2>1, <2>2 DEF Members, SameMember
<1> QED BY <1>1, <1>2

-----------------------------------------------------------------------------
(* What keeps each half of the invariant. *)

\* A call's steps, and no call begins.
CallsGoOn ==
  \A c \in Calls :
    /\ InProgress(c)' => InProgress(c)
    /\ call'[c].pc \in Bound => call[c].pc \in Bound
    /\ call'[c].pc \in Unsplit => call[c].pc \in Unsplit

\* Steps that leave the member its reservation and its pane.
LEMMA PanesKept ==
  ASSUME IInv, TypeOK', CallsGoOn, panes' \subseteq panes, orphaned \subseteq orphaned',
         member' = None <=> member = None,
         member # None => member'.by = member.by /\ member'.pane = member.pane,
         CopyLawful',
         \A c \in panes' :
           InProgress(c) /\ ~InProgress(c)' => call[c].pc \in Bound \/ c \in orphaned'
  PROVE  Panes'
<1>1. (Has <=> member # None) /\ (Has <=> member # None)'
  BY DEF IInv, TypeOK, Has
<1>2. panes \subseteq Calls /\ Panes
  BY DEF IInv, TypeOK
<1>3. KeepsItsMember'
  <2> SUFFICES ASSUME NEW c \in Calls, c \notin orphaned', InProgress(c)'
               PROVE  /\ member' # None /\ member'.by = c
                      /\ call'[c].pc \in Bound => member'.pane = c \/ c \notin panes'
    BY DEF KeepsItsMember
  <2> QED BY <1>2 DEF Panes, KeepsItsMember, CallsGoOn
<1>4. PaneOfMember'
  BY <1>2 DEF Panes, PaneOfMember, Lawful
<1>5. PanesAreSplit'
  BY <1>2 DEF Panes, PanesAreSplit, CallsGoOn
<1>6. OrphanHasCause'
  <2> SUFFICES ASSUME NEW c \in panes', ~InProgress(c)', c \notin orphaned'
               PROVE  (c \in Known)'
    BY DEF OrphanHasCause
  <2>1. c \in Known \/ InProgress(c)
    BY <1>2 DEF Panes, OrphanHasCause
  <2>2. c \in Known => (c \in Known)'
    BY <1>1 DEF Known
  <2>3. CASE InProgress(c)
    <3>1. call[c].pc \in Bound /\ c \in Calls
      BY <1>2, <2>3
    <3>2. member # None /\ member.pane = c
      BY <1>2, <2>3, <3>1 DEF Panes, KeepsItsMember
    <3> QED BY <1>1, <3>2 DEF Known
  <2> QED BY <2>1, <2>2, <2>3
<1> QED BY <1>3, <1>4, <1>5, <1>6 DEF Panes

\* Steps that take the member away.
LEMMA PanesKeptWithoutMember ==
  ASSUME IInv, TypeOK', CallsGoOn, panes' \subseteq panes, orphaned \subseteq orphaned',
         member' = None, copy' = copy,
         \A c \in Calls : member # None /\ member.by = c /\ InProgress(c)' => c \in orphaned',
         member # None => (member.pane \in panes' => member.pane \in orphaned'),
         \A c \in panes' : InProgress(c) /\ ~InProgress(c)' => c \in orphaned'
  PROVE  Panes'
<1>1. panes \subseteq Calls /\ Panes
  BY DEF IInv, TypeOK
<1>2. KeepsItsMember'
  <2> SUFFICES ASSUME NEW c \in Calls, c \notin orphaned', InProgress(c)'
               PROVE  FALSE
    BY DEF KeepsItsMember
  <2>1. InProgress(c) /\ c \notin orphaned
    BY DEF CallsGoOn
  <2>2. member # None /\ member.by = c
    BY <1>1, <2>1 DEF Panes, KeepsItsMember
  <2> QED BY <2>2
<1>3. PaneOfMember'
  BY <1>1 DEF Panes, PaneOfMember, CopyLawful, Lawful
<1>4. PanesAreSplit'
  BY <1>1 DEF Panes, PanesAreSplit, CallsGoOn
<1>5. OrphanHasCause'
  <2> SUFFICES ASSUME NEW c \in panes', ~InProgress(c)', c \notin orphaned'
               PROVE  FALSE
    BY DEF OrphanHasCause
  <2>1. c \in Known
    BY <1>1 DEF Panes, OrphanHasCause
  <2>2. member # None /\ member.pane = c
    BY <2>1, HasIsMember DEF IInv, Known
  <2> QED BY <2>2
<1> QED BY <1>2, <1>3, <1>4, <1>5 DEF Panes

\* Steps that give no task, and bring none to where it could not come from before.
LEMMA TasksKept ==
  ASSUME IInv, given' = given, again \subseteq again', RunsOfCalls',
         \A c \in Calls :
           /\ Carries(c)' => Carries(c) \/ call'[c].pc # "idle"
           /\ c \notin again' /\ Comes(c)' => Comes(c) \/ call[c].pc = "idle"
           /\ call'[c].pc = "idle" => call[c].pc = "idle"
           /\ call'[c].task \in {c, None}
  PROVE  Tasks'
<1>0. Tasks
  BY DEF IInv
<1>1. TaskOfCall'
  BY DEF TaskOfCall
<1>3. BegunBefore'
  BY <1>0 DEF Tasks, BegunBefore
<1>4. UsedUp'
  BY <1>0 DEF Tasks, UsedUp, BegunBefore
<1>5. GivenTwiceForCause'
  BY <1>0 DEF Tasks, GivenTwiceForCause
<1> QED BY <1>1, <1>3, <1>4, <1>5 DEF Tasks

\* Steps that leave the pumps alone, and bring no task to a request.
LEMMA QuietAbout ==
  ASSUME NEW c \in Calls, pump' = pump,
         \A k \in Slots : request'[k] = request[k] \/ request'[k] = None,
         Under(c)' => Under(c) \/ InProgress(c),
         Booted(c)' => Booted(c) \/ Under(c) \/ InProgress(c),
         InProgress(c)' => InProgress(c) \/ call[c].pc = "idle"
  PROVE  /\ Carries(c)' => Carries(c) \/ InProgress(c)
         /\ Comes(c)' => Comes(c) \/ call[c].pc = "idle"
<1>1. \A k \in Slots : Asked(k, c)' => Asked(k, c) /\ (SentFor(k, c)' <=> SentFor(k, c))
  BY DEF Asked, SentFor, Pumping
<1>2. \A k \in Calls : /\ Pumped(k, c)' <=> Pumped(k, c)
                       /\ Sent(k)' = Sent(k)
                       /\ Pumping(k, "claim")' <=> Pumping(k, "claim")
  BY DEF Pumped, Sent, Pumping
<1> QED BY <1>1, <1>2 DEF Carries, Comes

\* A step of call c, to another step or to its end.
LEMMA StepOfCall ==
  ASSUME IInv, NEW c \in Calls, call[c].pc # "running" \/ run'[c] = None,
         NEW to \in {"laying", "booting", "waiting", "asked", "running", "committing"} \cup Ended,
         \A d \in Calls : run'[d] # None => run[d] # None \/ (d = c /\ to = "running"),
         GoTo(c, to)
  PROVE  /\ call' \in Calling
         /\ call'[c].pc = to
         /\ \A d \in Calls \ {c} : call'[d] = call[d] /\ InProgress(d)' = InProgress(d)
         /\ \A d \in Calls : /\ call'[d].task = call[d].task /\ call'[d].task \in {d, None}
                             /\ call'[d].pc = "idle" => call[d].pc = "idle"
         /\ RunsOfCalls'
<1>t. call \in Calling /\ TaskOfCall /\ RunsOfCalls
  BY TypeParts DEF IInv, Tasks
<1>1. call' = [call EXCEPT ![c] = [call[c] EXCEPT !.pc = to]]
  BY DEF GoTo
<1>2. /\ to # "idle"
      /\ to \in {"idle", "reserved", "laying", "booting", "waiting", "asked", "running",
                 "committing"} \cup Ended
  BY DEF Ended
<1>3. /\ [call[c] EXCEPT !.pc = to].pc = to /\ [call[c] EXCEPT !.pc = to].task = call[c].task
      /\ [call[c] EXCEPT !.pc = to] = [pc |-> to, task |-> call[c].task]
      /\ call[c].task \in Calls \cup {None}
  BY <1>t, <1>2 DEF Calling
<1>4. call' \in Calling /\ call'[c].pc = to /\ call'[c].task = call[c].task
  BY <1>t, <1>1, <1>2, <1>3 DEF Calling
<1>5. \A d \in Calls \ {c} : call'[d] = call[d]
  BY <1>t, <1>1 DEF Calling
<1>6. RunsOfCalls'
  BY <1>t, <1>4, <1>5 DEF RunsOfCalls
<1> QED BY <1>t, <1>2, <1>4, <1>5, <1>6 DEF TaskOfCall, InProgress

-----------------------------------------------------------------------------
(* agentteam_spawn, up to its pane. *)

LEMMA ReserveKeeps ==
  ASSUME IInv, NEW c \in Calls, NEW task \in {c, None}, NEW boot \in {task, None},
         Reserve(c, task, boot)
  PROVE  IInv'
<1> DEFINE new == Reserved(c, boot)
<1>t. /\ Stored /\ Doing /\ Paned /\ Counted /\ Bounded /\ call \in Calling
      /\ Panes /\ Tasks
  BY TypeParts DEF IInv
<1>1. /\ call[c].pc = "idle" /\ team /\ member = None /\ member' = new
      /\ call' = [call EXCEPT ![c] = [pc |-> "reserved", task |-> task]]
      /\ UNCHANGED <<team, effect, request, lease, tmux, others, ghosts, bounds>>
  BY DEF Reserve
<1>2. /\ UNCHANGED <<panes, labelled, session, pump, run, sender, copy>>
      /\ UNCHANGED <<given, orphaned, again, faults, panel, sends>>
  BY <1>1 DEF tmux, others, ghosts, bounds
<1>3. new \in Members /\ new # None /\ new.by = c /\ new.pane = None /\ new.boot = boot
  BY NoneIsNew DEF Members, Reserved
<1> HIDE DEF new
<1>4. /\ call'[c] = [pc |-> "reserved", task |-> task]
      /\ \A d \in Calls \ {c} : call'[d] = call[d]
      /\ call' \in Calling
  BY <1>t, <1>1 DEF Calling
<1>5. TypeOK'
  <2>1. Stored' /\ Doing' /\ Paned' /\ Counted' /\ Bounded'
    BY <1>t, <1>1, <1>2 DEF Stored, Doing, Paned, Counted, Bounded, Waiting
  <2> QED BY <1>1, <1>3, <1>4, <2>1, TypeIsKept
<1>6. Panes'
  <2>1. \A d \in Calls \ {c} : InProgress(d) => d \in orphaned
    BY <1>t, <1>1 DEF Panes, KeepsItsMember
  <2>2. InProgress(c)' /\ call'[c].pc \in Unsplit /\ call'[c].pc \notin Bound
    BY <1>4 DEF InProgress, Ended, Unsplit, Bound
  <2>3. \A d \in Calls \ {c} : InProgress(d)' = InProgress(d)
    BY <1>4 DEF InProgress
  <2>4. KeepsItsMember'
    BY <1>1, <1>2, <1>3, <2>1, <2>2, <2>3 DEF KeepsItsMember
  <2>5. PaneOfMember'
    BY <1>t, <1>1, <1>2, <1>3 DEF Panes, PaneOfMember, CopyLawful, Lawful
  <2>6. c \notin panes /\ panes \subseteq Calls
    BY <1>t, <1>1 DEF Panes, PanesAreSplit, Unsplit, Paned
  <2>7. PanesAreSplit'
    BY <1>t, <1>2, <1>4, <2>6 DEF Panes, PanesAreSplit
  <2>8. OrphanHasCause'
    <3>1. Known = {}
      BY <1>1 DEF Known, Has
    <3> QED BY <1>t, <1>2, <2>3, <2>6, <3>1 DEF Panes, OrphanHasCause
  <2> QED BY <2>4, <2>5, <2>7, <2>8 DEF Panes
<1>7. Tasks'
  <2>1. \A d \in Calls \ {c} : InProgress(d)' = InProgress(d)
    BY <1>4 DEF InProgress
  <2>2. ASSUME NEW d \in Calls
        PROVE  /\ Carries(d)' => Carries(d) \/ call'[d].pc # "idle"
               /\ Comes(d)' => Comes(d) \/ call[d].pc = "idle"
    <3>1. CASE d = c
      BY <1>1, <1>4, <3>1
    <3>2. CASE d # c
      <4>1. Booted(d)' => FALSE
        BY <1>1, <1>3, <3>2, NoneIsNew DEF Booted
      <4>2. Under(d)' => Under(d)
        BY <1>1, <1>2 DEF Under, Waiting
      <4>3. InProgress(d)' = InProgress(d)
        BY <2>1, <3>2
      <4>4. InProgress(d) => call[d].pc # "idle"
        BY DEF InProgress
      <4> QED BY <1>1, <1>2, <1>4, <3>2, <4>1, <4>2, <4>3, <4>4, QuietAbout
    <3> QED BY <3>1, <3>2
  <2>3. \A d \in Calls : /\ call'[d].pc = "idle" => call[d].pc = "idle"
                         /\ call'[d].task \in {d, None}
    BY <1>t, <1>1, <1>4 DEF Tasks, TaskOfCall
  <2>4. RunsOfCalls'
    BY <1>t, <1>1, <1>2, <1>4 DEF Tasks, RunsOfCalls
  <2> QED BY <1>2, <2>2, <2>3, <2>4, TasksKept
<1> QED BY <1>5, <1>6, <1>7 DEF IInv

LEMMA SplitPaneKeeps ==
  ASSUME IInv, NEW c \in Calls, SplitPane(c)
  PROVE  IInv'
<1>t. /\ Stored /\ Doing /\ Paned /\ Counted /\ Bounded /\ call \in Calling
      /\ member \in {None} \cup Members /\ Panes /\ Tasks
  BY TypeParts DEF IInv
<1>1. /\ call[c].pc = "reserved" /\ panes' = panes \cup {c}
      /\ session' = [session EXCEPT ![c] = "booting"]
      /\ GoTo(c, "laying")
      /\ UNCHANGED <<store, labelled, pump, others, ghosts, bounds>>
  BY DEF SplitPane
<1>2. /\ UNCHANGED <<team, member, effect, request, lease, labelled, pump, run, sender, copy>>
      /\ UNCHANGED <<given, orphaned, again, faults, panel, sends>>
  BY <1>1 DEF store, others, ghosts, bounds
<1>3. /\ call' \in Calling /\ call'[c].pc = "laying" /\ \A d \in Calls \ {c} : call'[d] = call[d]
      /\ \A d \in Calls : /\ call'[d].task \in {d, None}
                          /\ call'[d].pc = "idle" => call[d].pc = "idle"
      /\ RunsOfCalls'
  BY <1>1, <1>2, StepOfCall
<1>5. TypeOK'
  <2>1. Stored' /\ Doing' /\ Counted' /\ Bounded'
    BY <1>t, <1>2 DEF Stored, Doing, Counted, Bounded, Waiting
  <2>2. Paned'
    BY <1>t, <1>1 DEF Paned
  <2> QED BY <1>t, <1>2, <1>3, <2>1, <2>2, TypeIsKept
<1>6. InProgress(c) /\ InProgress(c)' /\ \A d \in Calls : InProgress(d)' = InProgress(d)
  BY <1>1, <1>3 DEF InProgress, Ended
<1>7. Panes'
  <2>0. panes \subseteq Calls
    BY <1>t DEF Paned
  <2>1. KeepsItsMember'
    BY <1>t, <1>2, <1>3, <1>6, <1>1 DEF Panes, KeepsItsMember, Bound
  <2>2. PaneOfMember'
    BY <1>t, <1>2 DEF Panes, PaneOfMember, CopyLawful, Lawful
  <2>3. PanesAreSplit'
    BY <1>t, <1>1, <1>3, <2>0 DEF Panes, PanesAreSplit, Unsplit
  <2>4. OrphanHasCause'
    BY <1>t, <1>1, <1>2, <1>6, <2>0 DEF Panes, OrphanHasCause, Known, Has
  <2> QED BY <2>1, <2>2, <2>3, <2>4 DEF Panes
<1>8. Tasks'
  <2>1. \A d \in Calls : /\ Carries(d)' => Carries(d) \/ call'[d].pc # "idle"
                         /\ Comes(d)' => Comes(d) \/ call[d].pc = "idle"
    <3>1. \A d \in Calls : (Under(d)' => Under(d)) /\ (Booted(d)' => Booted(d))
      BY <1>2 DEF Under, Waiting, Booted
    <3>2. \A d \in Calls : InProgress(d) => call'[d].pc # "idle"
      BY <1>6 DEF InProgress
    <3> QED BY <1>2, <1>6, <3>1, <3>2, QuietAbout
  <2> QED BY <1>2, <1>3, <2>1, TasksKept
<1> QED BY <1>5, <1>7, <1>8 DEF IInv

\* Steps of a call that end it and take the member away.
LEMMA EndKeeps ==
  ASSUME IInv, NEW c \in Calls, InProgress(c), call[c].pc # "running",
         NEW to \in {"failed", "threw"}, GoTo(c, to),
         member' = None, Paned', panes' \subseteq panes, Bounded',
         orphaned \subseteq orphaned', orphaned' \subseteq Calls,
         member # None /\ member.by # c => member.by \in orphaned',
         c \in panes' => c \in orphaned',
         UNCHANGED <<team, effect, request, lease, pump, others, given, again>>
  PROVE  IInv'
<1>t. /\ Stored /\ Doing /\ Paned /\ Counted
      /\ member \in {None} \cup Members /\ Panes /\ Tasks
  BY TypeParts DEF IInv
<1>1. UNCHANGED <<run, sender, copy>>
  BY DEF others
<1>2. /\ call' \in Calling /\ call'[c].pc = to
      /\ \A d \in Calls \ {c} : call'[d] = call[d]
      /\ \A d \in Calls : /\ call'[d].task \in {d, None}
                          /\ call'[d].pc = "idle" => call[d].pc = "idle"
      /\ RunsOfCalls'
  BY <1>1, StepOfCall DEF Ended
<1>6. TypeOK'
  <2>1. Stored' /\ Doing' /\ Counted'
    BY <1>t, <1>1 DEF Stored, Doing, Counted, Waiting
  <2> QED BY <1>2, <2>1, TypeIsKept
<1>7. ~InProgress(c)' /\ \A d \in Calls \ {c} : InProgress(d)' = InProgress(d)
  BY <1>2 DEF InProgress, Ended
<1>8. CallsGoOn
  BY <1>2, <1>7 DEF CallsGoOn, Bound, Unsplit
<1>9. Panes'
  <2>1. \A d \in Calls : member # None /\ member.by = d /\ InProgress(d)' => d \in orphaned'
    BY <1>7
  <2>2. member # None => (member.pane \in panes' => member.pane \in orphaned')
    <3> SUFFICES ASSUME member # None, member.pane \in panes', member.pane \notin orphaned'
                 PROVE  FALSE
      OBVIOUS
    <3>1. member.pane # None
      BY NoneIsNew DEF Paned
    <3>2. member.pane = member.by
      BY <1>t, <3>1 DEF Panes, PaneOfMember, Lawful
    <3> QED BY <3>2
  <2>3. \A d \in panes' : InProgress(d) /\ ~InProgress(d)' => d \in orphaned'
    BY <1>t, <1>7 DEF Paned
  <2> QED BY <1>1, <1>6, <1>8, <2>1, <2>2, <2>3, PanesKeptWithoutMember
<1>10. Tasks'
  <2>1. \A d \in Calls : (Under(d)' => Under(d)) /\ (Booted(d)' => Booted(d))
    BY <1>1 DEF Under, Waiting, Booted
  <2>2. \A d \in Calls : InProgress(d) => call'[d].pc # "idle"
    BY <1>2 DEF InProgress
  <2>3. \A d \in Calls : InProgress(d)' => InProgress(d)
    BY <1>7
  <2>4. \A d \in Calls : /\ Carries(d)' => Carries(d) \/ call'[d].pc # "idle"
                         /\ Comes(d)' => Comes(d) \/ call[d].pc = "idle"
    BY <2>1, <2>2, <2>3, QuietAbout
  <2> QED BY <1>2, <2>4, TasksKept
<1> QED BY <1>6, <1>9, <1>10 DEF IInv

\* A call rolls back: its member goes, whoever's it is by now, and its pane.
LEMMA RollBackKeeps ==
  ASSUME IInv, NEW c \in Calls, NEW known \in SUBSET {c}, InProgress(c), call[c].pc # "running",
         RollBack(c, known), c \in panes => c \in known, labelled' \subseteq Calls,
         Fault \/ UNCHANGED bounds
  PROVE  IInv'
<1>t. Paned /\ Bounded /\ member \in {None} \cup Members /\ orphaned \subseteq Calls
  BY TypeParts DEF IInv, Counted
<1>1. /\ member' = None
      /\ orphaned' = IF member # None /\ member.by # c THEN orphaned \cup {member.by} ELSE orphaned
      /\ GoTo(c, "failed")
      /\ Kill(known)
      /\ UNCHANGED <<team, effect, request, lease, others, given, again>>
  BY DEF RollBack
<1>2. Paned' /\ panes' \subseteq panes /\ c \notin panes' /\ pump' = pump
  BY <1>t, <1>1, KillKept
<1>3. Bounded'
  BY <1>t, BoundsKept
<1>4. orphaned' \subseteq Calls /\ orphaned \subseteq orphaned'
  BY <1>t, <1>1 DEF Members
<1> QED BY <1>1, <1>2, <1>3, <1>4, EndKeeps

LEMMA CreateFailsKeeps ==
  ASSUME IInv, NEW c \in Calls, CreateFails(c)
  PROVE  IInv'
<1>1. /\ call[c].pc = "reserved" /\ Fault /\ RollBack(c, {}) /\ labelled' = labelled
      /\ InProgress(c)
  BY DEF CreateFails, InProgress, Ended
<1>2. c \notin panes /\ labelled' \subseteq Calls
  BY <1>1 DEF IInv, TypeOK, Panes, PanesAreSplit, Unsplit
<1> QED BY <1>1, <1>2, RollBackKeeps

LEMMA AppTimesOutKeeps ==
  ASSUME IInv, NEW c \in Calls, AppTimesOut(c)
  PROVE  IInv'
<1>1. /\ call[c].pc = "booting" /\ RollBack(c, {c}) /\ labelled' = labelled
      /\ Fault \/ UNCHANGED bounds
      /\ InProgress(c)
  BY DEF AppTimesOut, FaultIf, InProgress, Ended
<1>2. labelled' \subseteq Calls
  BY <1>1 DEF IInv, TypeOK
<1> QED BY <1>1, <1>2, RollBackKeeps

LEMMA LayoutFailsKeeps ==
  ASSUME IInv, NEW c \in Calls, LayoutFails(c)
  PROVE  IInv'
<1>t. Paned /\ Bounded /\ member \in {None} \cup Members /\ orphaned \subseteq Calls
  BY TypeParts DEF IInv, Counted
<1>1. /\ call[c].pc = "laying" /\ Fault /\ member' = None
      /\ orphaned' = orphaned \cup {c} \cup (IF member # None THEN {member.by} ELSE {})
      /\ GoTo(c, "failed")
      /\ UNCHANGED <<team, effect, request, lease, tmux, others, given, again>>
      /\ InProgress(c)
  BY DEF LayoutFails, InProgress, Ended
<1>2. UNCHANGED <<panes, labelled, session, pump>>
  BY <1>1 DEF tmux
<1>3. Paned' /\ Bounded'
  BY <1>t, <1>1, <1>2, BoundsKept DEF Paned
<1>4. orphaned' \subseteq Calls /\ orphaned \subseteq orphaned'
  BY <1>t, <1>1 DEF Members
<1> QED BY <1>1, <1>2, <1>3, <1>4, EndKeeps

\* A call throws because the team is gone.
LEMMA ThrowsKeeps ==
  ASSUME IInv, NEW c \in Calls, InProgress(c), call[c].pc # "running", ~team,
         labelled' \subseteq Calls, Throws(c)
  PROVE  IInv'
<1>t. Stored /\ Paned /\ Bounded /\ orphaned \subseteq Calls
  BY TypeParts DEF IInv, Counted
<1>1. /\ GoTo(c, "threw") /\ orphaned' = orphaned \cup {c}
      /\ UNCHANGED <<store, panes, session, pump, others, given, again, bounds>>
  BY DEF Throws
<1>2. UNCHANGED <<team, member, effect, request, lease>> /\ member' = None /\ member = None
  BY <1>t, <1>1 DEF store, Stored
<1>3. Paned' /\ Bounded'
  BY <1>t, <1>1, BoundsKept DEF Paned
<1> QED BY <1>t, <1>1, <1>2, <1>3, EndKeeps

\* The pane's binding goes into the member that is there by now.
LEMMA BoundPaneKeeps ==
  ASSUME IInv, NEW c \in Calls, call[c].pc = "laying", team, c \in panes,
         labelled' = labelled \cup {c},
         member' = IF member = None THEN None ELSE [member EXCEPT !.pane = c],
         orphaned' = IF member = None THEN orphaned \cup {c}
                     ELSE orphaned \cup ({member.pane} \ {None, c}),
         GoTo(c, "booting"),
         UNCHANGED <<team, effect, request, lease, panes, session, pump, others, given, again,
                     bounds>>
  PROVE  IInv'
<1>t. /\ Stored /\ Doing /\ Paned /\ Counted /\ Bounded
      /\ member \in {None} \cup Members /\ Panes /\ Tasks
  BY TypeParts DEF IInv
<1>0. UNCHANGED <<run, sender, copy, faults, panel, sends>>
  BY DEF others, bounds
<1>1. /\ call' \in Calling /\ call'[c].pc = "booting"
      /\ \A d \in Calls \ {c} : call'[d] = call[d]
      /\ \A d \in Calls : /\ call'[d].task \in {d, None}
                          /\ call'[d].pc = "idle" => call[d].pc = "idle"
      /\ RunsOfCalls'
  BY <1>0, StepOfCall
<1>2. /\ member' = None <=> member = None
      /\ member' \in {None} \cup Members
      /\ member # None => /\ member'.by = member.by /\ member'.pane = c
                          /\ member'.boot = member.boot
  <2>1. CASE member = None
    BY <2>1
  <2>2. CASE member # None
    <3>1. member \in Members /\ member' = [member EXCEPT !.pane = c]
      BY <1>t, <2>2
    <3>2. member' \in Members
      BY <3>1 DEF Members
    <3>3. member' # None
      BY <3>2, NoneIsNew
    <3> QED BY <2>2, <3>1, <3>2, <3>3 DEF Members
  <2> QED BY <2>1, <2>2
<1>3. orphaned' \subseteq Calls /\ orphaned \subseteq orphaned'
  BY <1>t DEF Counted, Members
<1>5. TypeOK'
  <2>1. Stored' /\ Doing' /\ Paned' /\ Counted' /\ Bounded'
    BY <1>t, <1>0, <1>2, <1>3 DEF Stored, Doing, Paned, Counted, Bounded, Waiting
  <2> QED BY <1>1, <1>2, <2>1, TypeIsKept
<1>6. InProgress(c) /\ \A d \in Calls : InProgress(d)' = InProgress(d)
  BY <1>1 DEF InProgress, Ended
<1>7. panes \subseteq Calls /\ (Has <=> member # None) /\ (Has <=> member # None)'
  BY <1>t, <1>2 DEF Paned, Has
<1>8. KeepsItsMember'
  <2> SUFFICES ASSUME NEW d \in Calls, d \notin orphaned', InProgress(d)'
               PROVE  /\ member' # None /\ member'.by = d
                      /\ call'[d].pc \in Bound => member'.pane = d \/ d \notin panes'
    BY DEF KeepsItsMember
  <2>1. /\ member # None /\ member.by = d
        /\ call[d].pc \in Bound => member.pane = d \/ d \notin panes
    BY <1>t, <1>3, <1>6 DEF Panes, KeepsItsMember
  <2>2. CASE d = c
    BY <1>2, <2>1, <2>2
  <2>3. CASE d # c
    <3>1. member.pane # d
      BY <2>1, <2>3, NoneIsNew
    <3> QED BY <1>1, <1>2, <2>1, <2>3, <3>1
  <2> QED BY <2>2, <2>3
<1>9. PaneOfMember'
  <2>1. CopyLawful'
    BY <1>t, <1>0, <1>3 DEF Panes, PaneOfMember, CopyLawful, Lawful
  <2>2. ASSUME member # None, c \notin orphaned' PROVE member.by = c
    BY <1>t, <1>3, <1>6, <2>2 DEF Panes, KeepsItsMember
  <2> QED BY <1>2, <2>1, <2>2 DEF PaneOfMember, Lawful
<1>10. PanesAreSplit'
  BY <1>t, <1>1, <1>7 DEF Panes, PanesAreSplit, Unsplit
<1>11. OrphanHasCause'
  <2> SUFFICES ASSUME NEW d \in panes, ~InProgress(d), d \notin orphaned'
               PROVE  (d \in Known)'
    BY <1>6, <1>7 DEF OrphanHasCause
  <2>1. member # None /\ member.pane = d
    BY <1>t, <1>3, <1>7 DEF Panes, OrphanHasCause, Known
  <2>2. d # c /\ d # None
    BY <1>6, <1>7, NoneIsNew
  <2> QED BY <2>1, <2>2
<1>12. Tasks'
  <2>1. \A d \in Calls : (Under(d)' => Under(d)) /\ (Booted(d)' => Booted(d))
    BY <1>0, <1>2 DEF Under, Waiting, Booted
  <2>2. \A d \in Calls : InProgress(d) => call'[d].pc # "idle"
    BY <1>6 DEF InProgress
  <2>3. \A d \in Calls : /\ Carries(d)' => Carries(d) \/ call'[d].pc # "idle"
                         /\ Comes(d)' => Comes(d) \/ call[d].pc = "idle"
    BY <1>6, <2>1, <2>2, QuietAbout
  <2> QED BY <1>1, <2>3, TasksKept
<1> QED BY <1>5, <1>8, <1>9, <1>10, <1>11, <1>12 DEF IInv, Panes

LEMMA BindKeeps ==
  ASSUME IInv, NEW c \in Calls, Bind(c)
  PROVE  IInv'
<1>1. /\ call[c].pc = "laying" /\ call[c].pc # "running"
      /\ labelled' = labelled \cup {c} /\ InProgress(c)
  BY DEF Bind, InProgress, Ended
<1>2. labelled' \subseteq Calls
  BY <1>1 DEF IInv, TypeOK
<1>3. CASE ~team /\ Throws(c)
  BY <1>1, <1>2, <1>3, ThrowsKeeps
<1>4. CASE team /\ c \notin panes /\ RollBack(c, {c}) /\ UNCHANGED bounds
  BY <1>1, <1>2, <1>4, RollBackKeeps
<1>5. CASE /\ team /\ c \in panes
           /\ member' = IF member = None THEN None ELSE [member EXCEPT !.pane = c]
           /\ orphaned' = IF member = None THEN orphaned \cup {c}
                          ELSE orphaned \cup ({member.pane} \ {None, c})
           /\ GoTo(c, "booting")
           /\ UNCHANGED <<team, effect, request, lease, panes, session, pump, others, given,
                          again, bounds>>
  BY <1>1, <1>5, BoundPaneKeeps
<1> QED BY <1>3, <1>4, <1>5 DEF Bind

-----------------------------------------------------------------------------
(* agentteam_spawn, from its pane to its end, with the effect it asks for. *)

\* A call that goes on behind its pane, or ends well.
LEMMA AdvanceKeeps ==
  ASSUME IInv, NEW c \in Calls, NEW to \in {"waiting", "asked", "running", "committing", "ok"},
         call[c].pc \in Bound, call[c].pc # "running" \/ run'[c] = None, GoTo(c, to),
         \A d \in Calls : run'[d] # None => run[d] # None \/ (d = c /\ to = "running"),
         SameMember, effect' \in Effects, Waiting' => effect'.task # None,
         run' \in [Runners -> {None} \cup Runs],
         UNCHANGED <<team, request, lease, tmux, sender, copy, ghosts, bounds>>,
         \A d \in Calls : /\ Under(d)' => Under(d) \/ d = c
                          /\ Booted(d)' => Booted(d) \/ Under(d) \/ d = c
  PROVE  IInv'
<1>t. /\ Stored /\ Doing /\ Paned /\ Counted /\ Bounded
      /\ member \in {None} \cup Members /\ Panes /\ Tasks
  BY TypeParts DEF IInv
<1>1. /\ UNCHANGED <<panes, labelled, session, pump, given, orphaned, again>>
      /\ UNCHANGED <<faults, panel, sends>>
  BY DEF tmux, ghosts, bounds
<1>2. /\ call' \in Calling /\ call'[c].pc = to
      /\ \A d \in Calls \ {c} : call'[d] = call[d] /\ InProgress(d)' = InProgress(d)
      /\ \A d \in Calls : /\ call'[d].task \in {d, None}
                          /\ call'[d].pc = "idle" => call[d].pc = "idle"
      /\ RunsOfCalls'
  BY StepOfCall DEF Ended
<1>3. TypeOK'
  <2>1. Stored' /\ Doing' /\ Paned' /\ Counted' /\ Bounded'
    BY <1>t, <1>1 DEF Stored, Doing, Paned, Counted, Bounded, SameMember
  <2> QED BY <1>2, <2>1, TypeIsKept DEF SameMember
<1>4. InProgress(c)
  BY DEF InProgress, Ended, Bound
<1>5. CallsGoOn
  BY <1>2, <1>4 DEF CallsGoOn, Bound, Unsplit
<1>6. Panes'
  <2>1. \A d \in panes' :
          InProgress(d) /\ ~InProgress(d)' => call[d].pc \in Bound \/ d \in orphaned'
    BY <1>t, <1>1, <1>2 DEF Paned
  <2>2. CopyLawful'
    BY <1>t, <1>1 DEF Panes, PaneOfMember, CopyLawful, Lawful
  <2> QED BY <1>1, <1>3, <1>5, <2>1, <2>2, PanesKept DEF SameMember
<1>7. Tasks'
  <2>1. \A d \in Calls : InProgress(d) => call'[d].pc # "idle"
    BY <1>2 DEF InProgress
  <2>2. \A d \in Calls : InProgress(d)' => InProgress(d)
    BY <1>2, <1>4
  <2>3. \A d \in Calls : /\ Carries(d)' => Carries(d) \/ call'[d].pc # "idle"
                         /\ Comes(d)' => Comes(d) \/ call[d].pc = "idle"
    BY <1>1, <1>4, <2>1, <2>2, QuietAbout
  <2> QED BY <1>1, <1>2, <2>3, TasksKept
<1> QED BY <1>3, <1>6, <1>7 DEF IInv

LEMMA AppStartedOrNoTaskKeeps ==
  ASSUME IInv, NEW c \in Calls, AppStarted(c) \/ NoTask(c)
  PROVE  IInv'
<1>t. Stored /\ Doing /\ member \in {None} \cup Members
  BY TypeParts DEF IInv
<1>1. PICK to \in {"waiting", "committing"} :
        /\ call[c].pc \in Bound /\ call[c].pc # "running" /\ GoTo(c, to)
        /\ UNCHANGED <<store, tmux, others, ghosts, bounds>>
  BY DEF AppStarted, NoTask, Bound
<1>2. UNCHANGED <<team, member, effect, request, lease, run, sender, copy>>
  BY <1>1 DEF store, others
<1>3. SameMember
  BY <1>t, <1>2, SameMemberSame
<1>4. \A d \in Calls : (Under(d)' => Under(d)) /\ (Booted(d)' => Booted(d))
  BY <1>2 DEF Under, Waiting, Booted
<1>5. effect' \in Effects /\ (Waiting' => effect'.task # None) /\ run' \in [Runners -> {None} \cup Runs]
  BY <1>t, <1>2 DEF Stored, Doing, Waiting
<1> QED BY <1>1, <1>2, <1>3, <1>4, <1>5, AdvanceKeeps

LEMMA RequestTaskKeeps ==
  ASSUME IInv, NEW c \in Calls, RequestTask(c)
  PROVE  IInv'
<1>t. Stored /\ Doing /\ member \in {None} \cup Members /\ Tasks
  BY TypeParts DEF IInv
<1>1. /\ call[c].pc \in Bound /\ call[c].pc # "running" /\ GoTo(c, "asked")
      /\ effect' = IF effect.status = "none" THEN [NoEffect EXCEPT !.status = "pending", !.task = c]
                   ELSE IF Waiting THEN [effect EXCEPT !.task = c] ELSE effect
      /\ UNCHANGED <<team, member, request, lease, tmux, others, ghosts, bounds>>
  BY DEF RequestTask, Bound
<1>2. UNCHANGED <<run, sender, copy>>
  BY <1>1 DEF others
<1>3. effect' \in Effects /\ (effect' = effect \/ effect'.task = c)
  <2>1. CASE effect.status = "none"
    <3>1. effect' = [status |-> "pending", task |-> c, by |-> None]
      BY <1>1, <2>1 DEF NoEffect
    <3> QED BY <3>1 DEF Effects
  <2>2. CASE effect.status # "none" /\ Waiting
    <3>1. effect' = [effect EXCEPT !.task = c] /\ effect \in Effects
      BY <1>t, <1>1, <2>2 DEF Stored
    <3> QED BY <3>1 DEF Effects
  <2>3. CASE effect.status # "none" /\ ~Waiting
    BY <1>t, <1>1, <2>3 DEF Stored
  <2> QED BY <2>1, <2>2, <2>3
<1>4. Waiting' => effect'.task # None
  BY <1>t, <1>3, NoneIsNew DEF Stored, Waiting
<1>5. SameMember
  BY <1>t, <1>1, SameMemberSame
<1>6. \A d \in Calls : (Under(d)' => Under(d) \/ d = c) /\ (Booted(d)' => Booted(d))
  BY <1>1, <1>2, <1>3 DEF Under, Waiting, Booted
<1>7. run' \in [Runners -> {None} \cup Runs]
  BY <1>t, <1>2 DEF Doing
<1> QED BY <1>1, <1>2, <1>3, <1>4, <1>5, <1>6, <1>7, AdvanceKeeps

\* The runner has the effect's task.
LEMMA ClaimTakesTask ==
  ASSUME IInv, NEW x \in Runners, ClaimEffect(x)
  PROVE  /\ effect' \in Effects /\ (Waiting' => effect'.task # None)
         /\ run' \in [Runners -> {None} \cup Runs]
         /\ run[x] = None
         /\ \A y \in Runners : run'[y] # None => run[y] # None \/ y = x
         /\ UNCHANGED <<team, member, request, lease, tmux, sender, copy, ghosts, bounds>>
         /\ \A d \in Calls : (Under(d)' => Under(d)) /\ (Booted(d)' => Booted(d))
<1>t. Stored /\ Doing
  BY TypeParts DEF IInv
<1> DEFINE new == [task |-> effect.task, pc |-> IF Has THEN "boot" ELSE "fail"]
<1>1. /\ Waiting /\ run[x] = None
      /\ effect' = [effect EXCEPT !.by = x]
      /\ run' = [run EXCEPT ![x] = new]
      /\ UNCHANGED <<team, member, request, lease, tmux, sender, copy, ghosts, bounds>>
  BY DEF ClaimEffect
<1>2. /\ effect \in Effects /\ effect.task \in Calls
  BY <1>t, <1>1 DEF Stored, Effects
<1>3. new \in Runs /\ new.task = effect.task
  BY <1>2 DEF Runs
<1> HIDE DEF new
<1>4. effect' \in Effects /\ effect'.task = effect.task /\ effect'.status = effect.status
  BY <1>1, <1>2 DEF Effects
<1>5. /\ run' \in [Runners -> {None} \cup Runs] /\ run'[x] = new
      /\ \A y \in Runners \ {x} : run'[y] = run[y]
  BY <1>t, <1>1, <1>3 DEF Doing
<1>6. ASSUME NEW d \in Calls, Under(d)' PROVE Under(d)
  <2>1. (Waiting /\ effect.task = d)' => Under(d)
    BY <1>4 DEF Under, Waiting
  <2>2. (\E y \in Runners : run[y] # None /\ run[y].task = d)' => Under(d)
    BY <1>1, <1>3, <1>5 DEF Under
  <2> QED BY <1>1, <1>6, <2>1, <2>2 DEF Under
<1>7. \A d \in Calls : Booted(d)' => Booted(d)
  BY <1>1 DEF Booted
<1> QED BY <1>1, <1>2, <1>4, <1>5, <1>6, <1>7, NoneIsNew

LEMMA RunInitialKeeps ==
  ASSUME IInv, NEW c \in Calls, RunInitial(c)
  PROVE  IInv'
<1>t. Stored /\ Doing /\ member \in {None} \cup Members
  BY TypeParts DEF IInv
<1>1. call[c].pc \in Bound /\ call[c].pc # "running"
  BY DEF RunInitial, Bound
<1>2. CASE ClaimEffect(c) /\ GoTo(c, "running")
  <2>1. c \in Runners /\ Calls \subseteq Runners
    BY DEF Runners
  <2>2. SameMember
    BY <1>t, <1>2, SameMemberSame DEF ClaimEffect
  <2> QED BY <1>1, <1>2, <2>1, <2>2, ClaimTakesTask, AdvanceKeeps
<1>3. CASE GoTo(c, "committing") /\ UNCHANGED <<store, tmux, others, ghosts, bounds>>
  <2>1. UNCHANGED <<team, member, effect, request, lease, run, sender, copy>>
    BY <1>3 DEF store, others
  <2>2. SameMember
    BY <1>t, <2>1, SameMemberSame
  <2>3. \A d \in Calls : (Under(d)' => Under(d)) /\ (Booted(d)' => Booted(d))
    BY <2>1 DEF Under, Waiting, Booted
  <2>4. effect' \in Effects /\ (Waiting' => effect'.task # None) /\ run' \in [Runners -> {None} \cup Runs]
    BY <1>t, <2>1 DEF Stored, Doing, Waiting
  <2> QED BY <1>1, <1>3, <2>1, <2>2, <2>3, <2>4, AdvanceKeeps
<1> QED BY <1>2, <1>3 DEF RunInitial

LEMMA CommitKeeps ==
  ASSUME IInv, NEW c \in Calls, Commit(c)
  PROVE  IInv'
<1>t. Stored /\ Doing /\ Paned /\ member \in {None} \cup Members /\ Tasks
  BY TypeParts DEF IInv
<1>1. /\ call[c].pc = "committing" /\ labelled' = labelled /\ InProgress(c)
      /\ call[c].pc \in Bound /\ call[c].pc # "running"
  BY DEF Commit, InProgress, Ended, Bound
<1>2. labelled' \subseteq Calls
  BY <1>t, <1>1 DEF Paned
<1>3. CASE ~team /\ Throws(c)
  BY <1>1, <1>2, <1>3, ThrowsKeeps
<1>4. CASE /\ team
           /\ member' = IF call[c].task = None THEN member ELSE WithBoot(call[c].task)
           /\ GoTo(c, "ok")
           /\ UNCHANGED <<team, effect, request, lease, panes, session, pump, others, ghosts, bounds>>
  <2>0. UNCHANGED <<run, sender, copy>>
    BY <1>4 DEF others
  <2>1. member' = member \/ member' = WithBoot(c)
    BY <1>t, <1>4 DEF Tasks, TaskOfCall
  <2>2. SameMember /\ (member' = member \/ (member' # None => member'.boot = c))
    BY <1>t, <2>1, SameMemberSame, BootPromptSet
  <2>3. \A d \in Calls : (Under(d)' => Under(d)) /\ (Booted(d)' => Booted(d) \/ d = c)
    BY <1>4, <2>0, <2>2 DEF Under, Waiting, Booted
  <2>4. effect' \in Effects /\ (Waiting' => effect'.task # None) /\ run' \in [Runners -> {None} \cup Runs]
    BY <1>t, <1>4, <2>0 DEF Stored, Doing, Waiting
  <2> QED BY <1>1, <1>4, <2>0, <2>2, <2>3, <2>4, AdvanceKeeps DEF tmux
<1> QED BY <1>3, <1>4 DEF Commit

-----------------------------------------------------------------------------
(* Steps in which no spawn call takes one. *)

LEMMA StillKeeps ==
  ASSUME IInv, SameMember, Stored', Doing', Paned', Bounded', panes' \subseteq panes,
         CopyLawful', RunsOfCalls', again \subseteq again', again' \subseteq Calls,
         UNCHANGED <<call, given, orphaned>>,
         \A c \in Calls : /\ Carries(c)' => Carries(c)
                          /\ c \notin again' /\ Comes(c)' => Comes(c)
  PROVE  IInv'
<1>t. Paned /\ Counted /\ call \in Calling /\ Panes /\ Tasks
  BY TypeParts DEF IInv
<1>1. TypeOK'
  <2>1. Counted'
    BY <1>t DEF Counted
  <2> QED BY <1>t, <2>1, TypeIsKept DEF SameMember
<1>2. \A c \in Calls : InProgress(c)' = InProgress(c)
  BY DEF InProgress
<1>3. CallsGoOn
  BY <1>2 DEF CallsGoOn
<1>4. \A c \in panes' : InProgress(c) /\ ~InProgress(c)' => call[c].pc \in Bound \/ c \in orphaned'
  BY <1>t, <1>2 DEF Paned
<1>5. Panes'
  BY <1>1, <1>3, <1>4, PanesKept DEF SameMember
<1>6. \A c \in Calls : call'[c].task \in {c, None}
  BY <1>t DEF Tasks, TaskOfCall
<1>7. Tasks'
  BY <1>6, TasksKept
<1> QED BY <1>1, <1>5, <1>7 DEF IInv

\* Those that bring nothing to a request.
LEMMA QuietKeeps ==
  ASSUME IInv, SameMember, Stored', Doing', Paned', Bounded', panes' \subseteq panes,
         RunsOfCalls', copy' = copy, again \subseteq again', again' \subseteq Calls, pump' = pump,
         \A k \in Slots : request'[k] = request[k] \/ request'[k] = None,
         UNCHANGED <<call, given, orphaned>>,
         \A c \in Calls : (Under(c)' => Under(c)) /\ (Booted(c)' => Booted(c) \/ Under(c))
  PROVE  IInv'
<1>1. CopyLawful'
  BY DEF IInv, Panes, PaneOfMember, CopyLawful, Lawful
<1>2. \A c \in Calls : InProgress(c)' = InProgress(c) /\ (InProgress(c) => call[c].pc # "idle")
  BY DEF InProgress
<1>3. \A c \in Calls : /\ Carries(c)' => Carries(c) \/ InProgress(c)
                       /\ Comes(c)' => Comes(c) \/ call[c].pc = "idle"
  BY <1>2, QuietAbout
<1>4. Tasks'
  <2>1. Tasks
    BY DEF IInv
  <2> QED BY <1>2, <1>3, <2>1, TasksKept DEF Tasks, TaskOfCall
<1>5. TypeOK' /\ Panes'
  <2>t. Paned /\ Counted /\ call \in Calling
    BY TypeParts DEF IInv
  <2>1. Counted'
    BY <2>t DEF Counted
  <2>2. TypeOK'
    BY <2>t, <2>1, TypeIsKept DEF SameMember
  <2>3. CallsGoOn
    BY <1>2 DEF CallsGoOn
  <2>4. \A c \in panes' : InProgress(c) /\ ~InProgress(c)' => call[c].pc \in Bound \/ c \in orphaned'
    BY <1>2, <2>t DEF Paned
  <2> QED BY <1>1, <2>2, <2>3, <2>4, PanesKept DEF SameMember
<1> QED BY <1>4, <1>5 DEF IInv

\* Those that leave the tasks where they are.
LEMMA AsideKeeps ==
  ASSUME IInv, lease' \in {None} \cup Leases, Paned', Bounded', panes' \subseteq panes,
         \A k \in Slots : request'[k] = request[k] \/ request'[k] = None,
         request' \in [Slots -> {None} \cup Requests],
         UNCHANGED <<team, member, effect, call, pump, others, ghosts>>
  PROVE  IInv'
<1>t. Stored /\ Doing /\ Counted /\ member \in {None} \cup Members /\ Tasks
  BY TypeParts DEF IInv
<1>1. UNCHANGED <<run, sender, copy, given, orphaned, again>>
  BY DEF others, ghosts
<1>2. SameMember
  BY <1>t, SameMemberSame
<1>3. Stored' /\ Doing'
  BY <1>t, <1>1 DEF Stored, Doing, Waiting
<1>4. \A c \in Calls : (Under(c)' => Under(c)) /\ (Booted(c)' => Booted(c))
  BY <1>1 DEF Under, Booted, Waiting
<1>5. RunsOfCalls'
  BY <1>t, <1>1 DEF Tasks, RunsOfCalls
<1> QED BY <1>t, <1>1, <1>2, <1>3, <1>4, <1>5, QuietKeeps DEF Counted

LEMMA PaneDiesKeeps ==
  ASSUME IInv, NEW c \in Calls, PaneDies(c)
  PROVE  IInv'
<1>t. Stored /\ Paned /\ Bounded
  BY TypeParts DEF IInv
<1>1. /\ Fault /\ Kill({c})
      /\ UNCHANGED <<store, labelled, call, others, ghosts>>
  BY DEF PaneDies
<1>2. UNCHANGED <<team, member, effect, request, lease>>
  BY <1>1 DEF store
<1>3. Paned' /\ panes' \subseteq panes /\ Bounded' /\ pump' = pump
  BY <1>t, <1>1, KillKept, BoundsKept DEF Paned
<1> QED BY <1>t, <1>1, <1>2, <1>3, AsideKeeps DEF Stored

LEMMA AttachOrStartKeeps ==
  ASSUME IInv, NEW c \in Calls, Attach(c) \/ StartBridge(c)
  PROVE  IInv'
<1>t. Stored /\ Paned /\ Bounded
  BY TypeParts DEF IInv
<1>1. UNCHANGED <<team, member, effect, request, panes, labelled, pump, call, others, ghosts, bounds>>
  BY DEF Attach, StartBridge, store
<1>2. PICK to \in {"attached", "unbound", "bridged"} : session' = [session EXCEPT ![c] = to]
  BY DEF Attach, StartBridge
<1>3. lease' \in {None} \cup Leases
  <2>1. lease' = lease \/ lease' = [of |-> c, fresh |-> TRUE]
    BY DEF Attach, StartBridge, store
  <2>2. [of |-> c, fresh |-> TRUE] \in Leases
    BY DEF Leases
  <2> QED BY <1>t, <2>1, <2>2 DEF Stored
<1>4. Paned' /\ Bounded'
  BY <1>t, <1>1, <1>2, BoundsKept DEF Paned
<1> QED BY <1>t, <1>1, <1>3, <1>4, AsideKeeps DEF Stored

LEMMA LeaseLapsesKeeps ==
  ASSUME IInv, LeaseLapses
  PROVE  IInv'
<1>t. Stored /\ Paned /\ Bounded
  BY TypeParts DEF IInv
<1>1. /\ Fresh /\ lease' = [lease EXCEPT !.fresh = FALSE]
      /\ Fault \/ UNCHANGED bounds
      /\ UNCHANGED <<team, member, effect, request, tmux, call, others, ghosts>>
  BY DEF LeaseLapses, FaultIf
<1>2. lease' \in Leases
  BY <1>t, <1>1 DEF Fresh, Stored, Leases
<1>3. Paned' /\ panes' \subseteq panes /\ pump' = pump
  BY <1>t, <1>1 DEF Paned, tmux
<1>4. Bounded'
  BY <1>t, <1>1, BoundsKept
<1> QED BY <1>t, <1>1, <1>2, <1>3, <1>4, AsideKeeps DEF Stored

LEMMA ExpiresKeeps ==
  ASSUME IInv, NEW k \in Slots, Expires(k)
  PROVE  IInv'
<1>t. Stored /\ Paned /\ Bounded
  BY TypeParts DEF IInv
<1>1. /\ Fault /\ request' = [request EXCEPT ![k] = None]
      /\ UNCHANGED <<team, member, effect, lease, tmux, call, others, ghosts>>
  BY DEF Expires
<1>2. Paned' /\ Bounded' /\ panes' \subseteq panes /\ pump' = pump
  BY <1>t, <1>1, BoundsKept DEF Paned, tmux
<1>3. request' \in [Slots -> {None} \cup Requests] /\ lease' \in {None} \cup Leases
  BY <1>t, <1>1 DEF Stored
<1>4. \A j \in Slots : request'[j] = request[j] \/ request'[j] = None
  BY <1>t, <1>1 DEF Stored
<1> QED BY <1>1, <1>2, <1>3, <1>4, AsideKeeps

-----------------------------------------------------------------------------
(* The effect, by maintenance, and its runs. *)

LEMMA MaintenanceKeeps ==
  ASSUME IInv, Maintenance
  PROVE  IInv'
<1>t. /\ Stored /\ Doing /\ Paned /\ Counted /\ Bounded /\ member \in {None} \cup Members
      /\ Tasks
  BY TypeParts DEF IInv
<1>0. Maintainer \in Runners /\ Maintainer \notin Calls /\ Calls \subseteq Runners
  BY RunnersAssumption DEF Runners
<1>1. ClaimEffect(Maintainer) /\ UNCHANGED call
  BY DEF Maintenance
<1>2. /\ effect' \in Effects /\ (Waiting' => effect'.task # None)
      /\ run' \in [Runners -> {None} \cup Runs]
      /\ \A c \in Calls : run'[c] # None => run[c] # None
      /\ UNCHANGED <<team, member, request, lease, tmux, sender, copy, ghosts, bounds>>
      /\ \A c \in Calls : (Under(c)' => Under(c)) /\ (Booted(c)' => Booted(c))
  BY <1>0, <1>1, ClaimTakesTask
<1>3. UNCHANGED <<panes, labelled, session, pump, given, orphaned, again>>
  BY <1>2 DEF tmux, ghosts
<1>4. Stored' /\ Doing' /\ Paned' /\ Bounded'
  BY <1>t, <1>2, <1>3, BoundsKept DEF Stored, Doing, Paned
<1>5. SameMember
  BY <1>t, <1>2, SameMemberSame
<1>6. RunsOfCalls'
  BY <1>t, <1>1, <1>2 DEF Tasks, RunsOfCalls
<1> QED BY <1>t, <1>1, <1>2, <1>3, <1>4, <1>5, <1>6, QuietKeeps DEF Counted

\* A run goes on with the task it has.
LEMMA RunGoesOn ==
  ASSUME Doing, NEW x \in Runners, run[x] # None, NEW pc \in {"boot", "request", "again", "fail"},
         RunTo(x, pc)
  PROVE  /\ run' \in [Runners -> {None} \cup Runs]
         /\ run'[x] # None /\ run'[x].task = run[x].task
         /\ \A y \in Runners \ {x} : run'[y] = run[y]
         /\ run[x].task \in Calls
<1>1. run[x] \in Runs /\ run' = [run EXCEPT ![x] = [run[x] EXCEPT !.pc = pc]]
  BY DEF Doing, RunTo
<1>2. [run[x] EXCEPT !.pc = pc] \in Runs /\ [run[x] EXCEPT !.pc = pc].task = run[x].task
  BY <1>1 DEF Runs
<1> QED BY <1>1, <1>2, NoneIsNew DEF Doing, Runs

LEMMA RunSetsBootKeeps ==
  ASSUME IInv, NEW x \in Runners, RunSetsBoot(x)
  PROVE  IInv'
<1>t. /\ Stored /\ Doing /\ Paned /\ Counted /\ Bounded /\ member \in {None} \cup Members
      /\ Tasks
  BY TypeParts DEF IInv
<1>1. /\ run[x] # None
      /\ member' = WithBoot(run[x].task)
      /\ RunTo(x, "request")
      /\ UNCHANGED <<team, effect, request, lease, tmux, call, sender, copy, ghosts, bounds>>
  BY DEF RunSetsBoot, Running
<1>2. UNCHANGED <<panes, labelled, session, pump, given, orphaned, again>>
  BY <1>1 DEF tmux, ghosts
<1>3. /\ run' \in [Runners -> {None} \cup Runs]
      /\ run'[x] # None /\ run'[x].task = run[x].task /\ run[x].task \in Calls
      /\ \A y \in Runners \ {x} : run'[y] = run[y]
  BY <1>t, <1>1, RunGoesOn
<1>4. SameMember /\ (member' # None => member'.boot = run[x].task)
  BY <1>t, <1>1, <1>3, BootPromptSet
<1>5. Stored' /\ Doing' /\ Paned' /\ Bounded'
  BY <1>t, <1>1, <1>2, <1>3, <1>4, BoundsKept DEF Stored, Doing, Paned, Waiting, SameMember
<1>6. ASSUME NEW c \in Calls
      PROVE  (Under(c)' => Under(c)) /\ (Booted(c)' => Booted(c) \/ Under(c))
  <2>1. (\E y \in Runners : run[y] # None /\ run[y].task = c)' =>
          \E y \in Runners : run[y] # None /\ run[y].task = c
    BY <1>1, <1>3
  <2>2. Under(c)' => Under(c)
    BY <1>1, <2>1 DEF Under, Waiting
  <2>3. Booted(c)' => Under(c)
    BY <1>1, <1>4 DEF Booted, Under
  <2> QED BY <2>2, <2>3
<1>7. RunsOfCalls'
  BY <1>t, <1>1, <1>3 DEF Tasks, RunsOfCalls, Runners
<1> QED BY <1>t, <1>1, <1>2, <1>4, <1>5, <1>6, <1>7, QuietKeeps DEF Counted

\* A request is made with a task that is under way, or joined with it.
LEMMA AskedFromUnder ==
  ASSUME Stored, pump' = pump, NEW boot \in Calls \cup {None}, boot # None => Under(boot), Ask(boot)
  PROVE  /\ request' \in [Slots -> {None} \cup Requests]
         /\ \A c \in Calls : \A k \in Slots :
              Asked(k, c)' => Under(c) \/ (Asked(k, c) /\ (SentFor(k, c)' <=> SentFor(k, c)))
<1>1. CASE request' = request
  BY <1>1 DEF Stored, Asked, SentFor, Pumping
<1>2. CASE request' = [request EXCEPT ![None] = [boot |-> boot, pending |-> TRUE]]
  <2>1. [boot |-> boot, pending |-> TRUE] \in Requests
    BY DEF Requests
  <2>2. None \in Slots
    BY DEF Slots
  <2>3. /\ request' \in [Slots -> {None} \cup Requests]
        /\ request'[None] = [boot |-> boot, pending |-> TRUE]
        /\ \A k \in Slots \ {None} : request'[k] = request[k]
    BY <1>2, <2>1, <2>2 DEF Stored
  <2>4. \A c \in Calls : Asked(None, c)' => Under(c)
    BY <2>3, NoneIsNew DEF Asked
  <2> QED BY <2>3, <2>4 DEF Asked, SentFor, Pumping
<1>3. ASSUME NEW k \in Pending, boot # None, request' = [request EXCEPT ![k].boot = boot]
      PROVE  /\ request' \in [Slots -> {None} \cup Requests]
             /\ \A c \in Calls : \A j \in Slots :
                  Asked(j, c)' => Under(c) \/ (Asked(j, c) /\ (SentFor(j, c)' <=> SentFor(j, c)))
  <2>1. k \in Slots /\ request[k] \in Requests
    BY <1>3 DEF Pending, Stored
  <2>2. /\ [request[k] EXCEPT !.boot = boot] \in Requests
        /\ [request[k] EXCEPT !.boot = boot].boot = boot
    BY <2>1 DEF Requests
  <2>3. /\ request' \in [Slots -> {None} \cup Requests]
        /\ request'[k].boot = boot
        /\ \A j \in Slots \ {k} : request'[j] = request[j]
    BY <1>3, <2>1, <2>2 DEF Stored
  <2>4. \A c \in Calls : Asked(k, c)' => Under(c)
    BY <1>3, <2>3 DEF Asked
  <2> QED BY <2>3, <2>4 DEF Asked, SentFor, Pumping
<1> QED BY <1>1, <1>2, <1>3 DEF Ask

\* A request that brings a task which is under way.
LEMMA AskKeeps ==
  ASSUME IInv, Doing', RunsOfCalls', Bounded', NEW boot \in Calls \cup {None},
         boot # None => Under(boot), Ask(boot),
         UNCHANGED <<team, member, effect, lease, tmux, call, copy, ghosts>>,
         \A c \in Calls : Under(c)' => Under(c)
  PROVE  IInv'
<1>t. Stored /\ Doing /\ Paned /\ Counted /\ member \in {None} \cup Members /\ Panes
  BY TypeParts DEF IInv
<1>1. UNCHANGED <<panes, labelled, session, pump, given, orphaned, again>>
  BY DEF tmux, ghosts
<1>2. /\ request' \in [Slots -> {None} \cup Requests]
      /\ \A c \in Calls : \A k \in Slots :
           Asked(k, c)' => Under(c) \/ (Asked(k, c) /\ (SentFor(k, c)' <=> SentFor(k, c)))
  BY <1>t, <1>1, AskedFromUnder
<1>3. Stored' /\ Paned'
  BY <1>t, <1>1, <1>2 DEF Stored, Paned, Waiting
<1>4. SameMember
  BY <1>t, SameMemberSame
<1>5. CopyLawful'
  BY <1>t, <1>1 DEF Panes, PaneOfMember, CopyLawful, Lawful
<1>6. ASSUME NEW c \in Calls
      PROVE  (Carries(c)' => Carries(c)) /\ (Comes(c)' => Comes(c))
  <2>1. Booted(c)' <=> Booted(c)
    BY DEF Booted
  <2>2. InProgress(c)' <=> InProgress(c)
    BY DEF InProgress
  <2>3. \A k \in Calls : /\ Pumped(k, c)' <=> Pumped(k, c)
                         /\ Sent(k)' = Sent(k)
                         /\ Pumping(k, "claim")' <=> Pumping(k, "claim")
    BY <1>1 DEF Pumped, Sent, Pumping
  <2>4. (\E k \in Slots : Asked(k, c))' => Under(c) \/ \E k \in Slots : Asked(k, c)
    BY <1>2
  <2>5. (\E k \in Slots : Asked(k, c) /\ ~SentFor(k, c))'
          => Under(c) \/ \E k \in Slots : Asked(k, c) /\ ~SentFor(k, c)
    BY <1>2
  <2>6. Carries(c)' => Carries(c)
    BY <2>1, <2>3, <2>4 DEF Carries
  <2>7. Comes(c)' => Comes(c)
    BY <2>1, <2>2, <2>3, <2>5 DEF Comes
  <2> QED BY <2>6, <2>7
<1> QED BY <1>t, <1>1, <1>3, <1>4, <1>5, <1>6, StillKeeps DEF Counted

LEMMA RunRequestsKeeps ==
  ASSUME IInv, NEW x \in Runners, RunRequests(x)
  PROVE  IInv'
<1>t. Doing /\ Bounded /\ Tasks
  BY TypeParts DEF IInv
<1>1. /\ run[x] # None /\ Ask(run[x].task) /\ RunTo(x, "again")
      /\ UNCHANGED <<team, member, effect, lease, tmux, call, sender, copy, ghosts, bounds>>
  BY DEF RunRequests, Running
<1>2. /\ run' \in [Runners -> {None} \cup Runs]
      /\ run'[x] # None /\ run'[x].task = run[x].task /\ run[x].task \in Calls
      /\ \A y \in Runners \ {x} : run'[y] = run[y]
  BY <1>t, <1>1, RunGoesOn
<1>3. Doing' /\ Bounded'
  BY <1>t, <1>1, <1>2, BoundsKept DEF Doing, tmux
<1>4. RunsOfCalls'
  BY <1>t, <1>1, <1>2 DEF Tasks, RunsOfCalls, Runners
<1>5. Under(run[x].task)
  BY <1>1 DEF Under
<1>6. ASSUME NEW c \in Calls PROVE Under(c)' => Under(c)
  <2>1. (\E y \in Runners : run[y] # None /\ run[y].task = c)' =>
          \E y \in Runners : run[y] # None /\ run[y].task = c
    BY <1>1, <1>2
  <2> QED BY <1>1, <2>1 DEF Under, Waiting
<1> QED BY <1>1, <1>2, <1>3, <1>4, <1>5, <1>6, AskKeeps

LEMMA SendRequestsKeeps ==
  ASSUME IInv, SendRequests
  PROVE  IInv'
<1>t. Doing /\ Bounded /\ Tasks
  BY TypeParts DEF IInv
<1>1. /\ sender # None /\ sender' = None /\ Ask(sender.boot)
      /\ UNCHANGED <<team, member, effect, lease, tmux, call, run, copy, ghosts, bounds>>
  BY DEF SendRequests
<1>2. sender.boot \in Calls \cup {None}
  BY <1>t, <1>1 DEF Doing, Senders
<1>3. Doing' /\ Bounded'
  BY <1>t, <1>1, BoundsKept DEF Doing, tmux
<1>4. RunsOfCalls'
  BY <1>t, <1>1 DEF Tasks, RunsOfCalls
<1>5. sender.boot # None => Under(sender.boot)
  BY <1>1 DEF Under
<1>6. \A c \in Calls : Under(c)' => Under(c)
  BY <1>1 DEF Under, Waiting
<1> QED BY <1>1, <1>2, <1>3, <1>4, <1>5, <1>6, AskKeeps

\* What the end of a run makes of the effect, the member and the runs.
LEMMA RunEndsLeaves ==
  ASSUME IInv, NEW x \in Runners, RunEnds(x)
  PROVE  /\ effect' \in Effects /\ (Waiting' => effect'.task # None)
         /\ run' \in [Runners -> {None} \cup Runs]
         /\ run[x] # None /\ run'[x] = None
         /\ \A y \in Runners : run'[y] # None => run[y] # None
         /\ SameMember
         /\ \A c \in Calls : /\ Under(c)' => Under(c)
                             /\ Booted(c)' => Booted(c) \/ Under(c)
         /\ UNCHANGED <<team, request, lease, tmux, sender, copy, ghosts, bounds>>
<1>t. Stored /\ Doing /\ member \in {None} \cup Members
  BY TypeParts DEF IInv
<1>1. /\ run[x] # None /\ run' = [run EXCEPT ![x] = None]
      /\ member' = WithBoot(run[x].task) \/ member' = member
      /\ UNCHANGED <<team, request, lease, tmux, sender, copy, ghosts, bounds>>
  BY DEF RunEnds, Running
<1>2. PICK status \in {"done", "retry", "failed"} :
        effect' = IF Waiting /\ effect.by = x
                  THEN [effect EXCEPT !.status = status, !.by = None] ELSE effect
  BY DEF RunEnds
<1>3. effect' \in Effects /\ effect'.task = effect.task /\ (Waiting' => Waiting)
  <2>1. CASE Waiting /\ effect.by = x
    <3>1. effect' = [effect EXCEPT !.status = status, !.by = None] /\ effect \in Effects
      BY <1>t, <1>2, <2>1 DEF Stored
    <3> QED BY <2>1, <3>1 DEF Effects
  <2>2. CASE ~(Waiting /\ effect.by = x)
    BY <1>t, <1>2, <2>2 DEF Stored, Waiting
  <2> QED BY <2>1, <2>2
<1>4. /\ run' \in [Runners -> {None} \cup Runs] /\ run'[x] = None
      /\ \A y \in Runners : run'[y] # None => run'[y] = run[y]
      /\ run[x].task \in Calls
  BY <1>t, <1>1 DEF Doing, Runs
<1>5. SameMember /\ (member' = member \/ (member' # None => member'.boot = run[x].task))
  BY <1>t, <1>1, <1>4, SameMemberSame, BootPromptSet
<1>6. ASSUME NEW c \in Calls
      PROVE  (Under(c)' => Under(c)) /\ (Booted(c)' => Booted(c) \/ Under(c))
  <2>1. (\E y \in Runners : run[y] # None /\ run[y].task = c)' =>
          \E y \in Runners : run[y] # None /\ run[y].task = c
    BY <1>4
  <2>2. Under(c)' => Under(c)
    BY <1>1, <1>3, <2>1 DEF Under
  <2>3. Booted(c)' => Booted(c) \/ Under(c)
    BY <1>1, <1>5 DEF Booted, Under
  <2> QED BY <2>2, <2>3
<1> QED BY <1>t, <1>1, <1>3, <1>4, <1>5, <1>6 DEF Stored

LEMMA RunEndsKeeps ==
  ASSUME IInv, NEW x \in Runners, RunEnds(x)
  PROVE  IInv'
<1>t. /\ Stored /\ Doing /\ Paned /\ Counted /\ Bounded /\ member \in {None} \cup Members
      /\ Tasks
  BY TypeParts DEF IInv
<1>1. /\ effect' \in Effects /\ (Waiting' => effect'.task # None)
      /\ run' \in [Runners -> {None} \cup Runs]
      /\ run[x] # None /\ run'[x] = None
      /\ \A y \in Runners : run'[y] # None => run[y] # None
      /\ SameMember
      /\ \A c \in Calls : (Under(c)' => Under(c)) /\ (Booted(c)' => Booted(c) \/ Under(c))
      /\ UNCHANGED <<team, request, lease, tmux, sender, copy, ghosts, bounds>>
  BY RunEndsLeaves
<1>2. Calls \subseteq Runners
  BY DEF Runners
<1>3. CASE x \in Calls
  <2>1. GoTo(x, "committing")
    BY <1>3 DEF RunEnds
  <2>2. call[x].pc = "running" /\ call[x].pc \in Bound
    BY <1>t, <1>1, <1>3 DEF Tasks, RunsOfCalls, Bound
  <2> QED BY <1>1, <1>2, <1>3, <2>1, <2>2, AdvanceKeeps
<1>4. CASE x \notin Calls
  <2>1. UNCHANGED call
    BY <1>4 DEF RunEnds
  <2>2. UNCHANGED <<panes, labelled, session, pump, given, orphaned, again>>
    BY <1>1 DEF tmux, ghosts
  <2>3. Stored' /\ Doing' /\ Paned' /\ Bounded'
    BY <1>t, <1>1, <2>2, BoundsKept DEF Stored, Doing, Paned, SameMember
  <2>4. RunsOfCalls'
    BY <1>t, <1>1, <1>2, <2>1 DEF Tasks, RunsOfCalls
  <2> QED BY <1>t, <1>1, <2>1, <2>2, <2>3, <2>4, QuietKeeps DEF Counted
<1> QED BY <1>3, <1>4

LEMMA ClaimOrRunnerLostKeeps ==
  ASSUME IInv, EffectClaimLapses \/ MaintainerDies
  PROVE  IInv'
<1>t. /\ Stored /\ Doing /\ Paned /\ Counted /\ Bounded /\ member \in {None} \cup Members
      /\ Tasks
  BY TypeParts DEF IInv
<1>0. Maintainer \in Runners
  BY DEF Runners
<1>1. /\ UNCHANGED <<team, member, request, lease, tmux, call, sender, copy, ghosts>>
      /\ Fault \/ UNCHANGED bounds
      /\ effect' = effect \/ effect' = [effect EXCEPT !.by = None]
      /\ run' = run \/ run' = [run EXCEPT ![Maintainer] = None]
  BY DEF EffectClaimLapses, MaintainerDies, FaultIf, others, store
<1>2. UNCHANGED <<panes, labelled, session, pump, given, orphaned, again>>
  BY <1>1 DEF tmux, ghosts
<1>3. effect' \in Effects /\ effect'.task = effect.task /\ effect'.status = effect.status
  <2>1. effect \in Effects
    BY <1>t DEF Stored
  <2> QED BY <1>1, <2>1 DEF Effects
<1>4. /\ run' \in [Runners -> {None} \cup Runs]
      /\ \A y \in Runners : run'[y] # None => run'[y] = run[y]
  BY <1>t, <1>0, <1>1 DEF Doing
<1>5. Stored' /\ Doing' /\ Paned' /\ Bounded'
  BY <1>t, <1>1, <1>2, <1>3, <1>4, BoundsKept DEF Stored, Doing, Paned, Waiting
<1>6. SameMember
  BY <1>t, <1>1, SameMemberSame
<1>7. RunsOfCalls'
  BY <1>t, <1>1, <1>4 DEF Tasks, RunsOfCalls, Runners
<1>8. ASSUME NEW c \in Calls PROVE (Under(c)' => Under(c)) /\ (Booted(c)' => Booted(c))
  <2>1. (\E y \in Runners : run[y] # None /\ run[y].task = c)' =>
          \E y \in Runners : run[y] # None /\ run[y].task = c
    BY <1>4
  <2> QED BY <1>1, <1>3, <2>1 DEF Under, Waiting, Booted
<1> QED BY <1>t, <1>1, <1>2, <1>5, <1>6, <1>7, <1>8, QuietKeeps DEF Counted

-----------------------------------------------------------------------------
(* Pumps. *)

LEMMA PumpGoesOn ==
  ASSUME Doing, NEW c \in Calls, pump[c] # None, NEW pc \in {"claim", "sending", "record"},
         PumpTo(c, pc)
  PROVE  /\ pump' \in [Calls -> {None} \cup Pumps]
         /\ pump'[c] # None /\ pump'[c].pc = pc /\ pump'[c].tasks = pump[c].tasks
         /\ \A d \in Calls \ {c} : pump'[d] = pump[d]
         /\ pump[c].tasks \subseteq Calls
<1>1. pump[c] \in Pumps /\ pump' = [pump EXCEPT ![c] = [pump[c] EXCEPT !.pc = pc]]
  BY DEF Doing, PumpTo
<1>2. /\ [pump[c] EXCEPT !.pc = pc] \in Pumps
      /\ [pump[c] EXCEPT !.pc = pc].pc = pc /\ [pump[c] EXCEPT !.pc = pc].tasks = pump[c].tasks
  BY <1>1 DEF Pumps
<1> QED BY <1>1, <1>2, NoneIsNew DEF Doing, Pumps

\* A pump that stops leaves no prompt for which a request is claimed or a
\* bootPrompt to be cleared, unless that is recorded.
LEMMA PumpEndsKeeps ==
  ASSUME IInv, NEW c \in Calls, PumpIdle(c), SameMember, Paned', panes' \subseteq panes, Bounded',
         request' \in [Slots -> {None} \cup Requests], lease' \in {None} \cup Leases,
         \A k \in Slots : request'[k] = request[k] \/ request'[k] = None,
         again \subseteq again', again' \subseteq Calls,
         \A d \in Calls : /\ Booted(d)' => Booted(d)
                          /\ d \notin again' => ~SentFor(c, d) /\ (d \in Sent(c) => ~Booted(d)'),
         UNCHANGED <<team, effect, call, others, given, orphaned>>
  PROVE  IInv'
<1>t. Stored /\ Doing /\ Panes /\ Tasks
  BY TypeParts DEF IInv
<1>1. UNCHANGED <<run, sender, copy>>
  BY DEF others
<1>2. /\ pump' \in [Calls -> {None} \cup Pumps] /\ pump'[c] = None
      /\ \A k \in Calls \ {c} : pump'[k] = pump[k]
  BY <1>t DEF Doing, PumpIdle
<1>3. Stored' /\ Doing'
  BY <1>t, <1>1, <1>2 DEF Stored, Doing, SameMember, Waiting
<1>4. CopyLawful' /\ RunsOfCalls'
  BY <1>t, <1>1 DEF Panes, PaneOfMember, CopyLawful, Lawful, Tasks, RunsOfCalls
<1>5. ASSUME NEW d \in Calls
      PROVE  /\ Carries(d)' => Carries(d)
             /\ d \notin again' /\ Comes(d)' => Comes(d)
  <2>1. Under(d)' <=> Under(d)
    BY <1>1 DEF Under, Waiting
  <2>2. InProgress(d)' <=> InProgress(d)
    BY DEF InProgress
  <2>3. \A k \in Calls : Pumped(k, d)' => Pumped(k, d) /\ (Pumping(k, "claim")' => Pumping(k, "claim"))
    BY <1>2 DEF Pumped, Pumping
  <2>4. \A k \in Slots : Asked(k, d)' => Asked(k, d) /\ request'[k] = request[k]
    BY DEF Asked
  <2>5. Carries(d)' => Carries(d)
    BY <2>1, <2>3, <2>4 DEF Carries
  <2>6. ASSUME d \notin again', Comes(d)' PROVE Comes(d)
    <3>1. \A k \in Calls \ {c} : Sent(k)' = Sent(k)
      BY <1>2 DEF Sent, Pumping
    <3>2. (Booted(d) /\ \A k \in Calls : d \notin Sent(k))'
            => Booted(d) /\ \A k \in Calls : d \notin Sent(k)
      BY <2>6, <3>1
    <3>3. ASSUME NEW k \in Slots, Asked(k, d)', ~SentFor(k, d)'
          PROVE  Asked(k, d) /\ ~SentFor(k, d)
      <4>1. CASE k = c
        BY <2>4, <2>6, <3>3, <4>1
      <4>2. CASE k # c
        BY <1>2, <2>4, <3>3, <4>2 DEF SentFor, Pumping
      <4> QED BY <4>1, <4>2
    <3> QED BY <2>1, <2>2, <2>3, <2>6, <3>2, <3>3 DEF Comes
  <2> QED BY <2>5, <2>6
<1> QED BY <1>3, <1>4, <1>5, StillKeeps

\* Nobody but the pump of the session moves; the files but its requests stay.
LEMMA PumpAlone ==
  ASSUME IInv, UNCHANGED <<team, lease, panes, labelled, session, bounds>>
  PROVE  Paned' /\ panes' \subseteq panes /\ Bounded' /\ lease' \in {None} \cup Leases
<1>1. Paned /\ Bounded /\ Stored
  BY TypeParts DEF IInv
<1> QED BY <1>1, BoundsKept DEF Paned, Stored

LEMMA PumpReadsKeeps ==
  ASSUME IInv, NEW c \in Calls, PumpReads(c)
  PROVE  IInv'
<1>t. /\ Stored /\ Doing /\ Paned /\ Counted /\ Bounded /\ member \in {None} \cup Members
      /\ Panes /\ Tasks
  BY TypeParts DEF IInv
<1> DEFINE asked == {request[k].boot : k \in Pending} \ {None}
<1>1. PICK task \in IF asked = {} THEN {None} ELSE asked :
        pump' = [pump EXCEPT ![c] = [pc |-> "claim", tasks |-> {task, member.boot} \ {None}]]
  BY DEF PumpReads
<1>2. /\ pump[c] = None /\ Has /\ again' = again \cup ReadLate
      /\ UNCHANGED <<store, panes, labelled, session, call, others, given, orphaned, bounds>>
  BY DEF PumpReads
<1>3. UNCHANGED <<team, member, effect, request, lease, run, sender, copy>> /\ member # None
  BY <1>2 DEF store, others, Has
<1> DEFINE new == [pc |-> "claim", tasks |-> {task, member.boot} \ {None}]
<1>4. \A d \in new.tasks : d \in Calls /\ ((\E k \in Pending : Asked(k, d)) \/ Booted(d))
  <2>1. \A k \in Pending : k \in Slots /\ request[k] # None /\ request[k] \in Requests
    BY <1>t DEF Pending, Stored
  <2>2. task # None => task \in Calls /\ \E k \in Pending : Asked(k, task)
    BY <1>1, <2>1 DEF Asked, Requests
  <2>3. member.boot # None => member.boot \in Calls /\ Booted(member.boot)
    BY <1>t, <1>3 DEF Booted, Members
  <2> QED BY <2>2, <2>3
<1>5. new \in Pumps /\ new.pc = "claim" /\ new # None
  BY <1>4, NoneIsNew DEF Pumps
<1>6. pump' = [pump EXCEPT ![c] = new]
  BY <1>1
<1> HIDE DEF new, asked
<1>7. /\ pump' \in [Calls -> {None} \cup Pumps] /\ pump'[c] = new
      /\ \A k \in Calls \ {c} : pump'[k] = pump[k]
  BY <1>t, <1>5, <1>6 DEF Doing
<1>8. Stored' /\ Doing' /\ Paned' /\ Bounded'
  BY <1>t, <1>2, <1>3, <1>7, BoundsKept DEF Stored, Doing, Paned, Waiting
<1>9. CopyLawful' /\ RunsOfCalls' /\ SameMember
  BY <1>t, <1>2, <1>3, SameMemberSame
     DEF Panes, PaneOfMember, CopyLawful, Lawful, Tasks, RunsOfCalls
<1>10. again' \subseteq Calls /\ again \subseteq again'
  BY <1>t, <1>2 DEF Counted, ReadLate
<1>11. ASSUME NEW d \in Calls
       PROVE  /\ Carries(d)' => Carries(d)
              /\ d \notin again' /\ Comes(d)' => Comes(d)
  <2>1. (Under(d)' <=> Under(d)) /\ (Booted(d)' <=> Booted(d)) /\ (InProgress(d)' <=> InProgress(d))
    BY <1>2, <1>3 DEF Under, Waiting, Booted, InProgress
  <2>2. \A k \in Slots : (Asked(k, d)' <=> Asked(k, d)) /\ (SentFor(k, d)' <=> SentFor(k, d))
    BY <1>2, <1>3, <1>5, <1>7 DEF Asked, SentFor, Pumping
  <2>3. \A k \in Calls : Sent(k)' = Sent(k)
    BY <1>2, <1>5, <1>7 DEF Sent, Pumping
  <2>4. \A k \in Calls \ {c} : /\ Pumped(k, d)' <=> Pumped(k, d)
                               /\ Pumping(k, "claim")' <=> Pumping(k, "claim")
    BY <1>7 DEF Pumped, Pumping
  <2>5. Pumped(c, d)' => Booted(d) \/ \E k \in Pending : Asked(k, d)
    BY <1>4, <1>7 DEF Pumped
  <2>6. Pending \subseteq Slots /\ \A k \in Pending : ~SentFor(k, d)
    BY DEF Pending, SentFor
  <2>7. Carries(d)' => Carries(d)
    BY <2>1, <2>2, <2>4, <2>5, <2>6 DEF Carries
  <2>8. d \notin again' /\ Booted(d) => \A k \in Calls : d \notin Sent(k)
    BY <1>2 DEF ReadLate, Booted
  <2>9. d \notin again' /\ Pumped(c, d)' => Comes(d)
    BY <2>5, <2>6, <2>8 DEF Comes
  <2>10. d \notin again' /\ Comes(d)' => Comes(d)
    BY <2>1, <2>2, <2>3, <2>4, <2>9 DEF Comes
  <2> QED BY <2>7, <2>10
<1> QED BY <1>2, <1>8, <1>9, <1>10, <1>11, StillKeeps

\* The prompt of a request is sent.
LEMMA SentKeeps ==
  ASSUME IInv, NEW c \in Calls, NEW k \in Pending, Pumping(c, "claim"),
         request' = [request EXCEPT ![k] = request[c],
                                    ![c] = [boot |-> request[k].boot, pending |-> FALSE]],
         given' = [t \in Calls |-> IF t \in pump[c].tasks THEN given[t] + 1 ELSE given[t]],
         again' = again \cup {t \in pump[c].tasks : ToCome(c, k, t)},
         PumpTo(c, "sending"),
         UNCHANGED <<team, member, effect, lease, panes, labelled, session, call, others, orphaned,
                     bounds>>
  PROVE  IInv'
<1>t. /\ Stored /\ Doing /\ Paned /\ Counted /\ Bounded /\ member \in {None} \cup Members
      /\ call \in Calling /\ Panes /\ Tasks
  BY TypeParts DEF IInv
<1>1. UNCHANGED <<run, sender, copy>>
  BY DEF others
<1>2. /\ pump' \in [Calls -> {None} \cup Pumps]
      /\ pump'[c] # None /\ pump'[c].pc = "sending" /\ pump'[c].tasks = pump[c].tasks
      /\ \A d \in Calls \ {c} : pump'[d] = pump[d]
      /\ pump[c].tasks \subseteq Calls
      /\ pump[c] # None /\ pump[c].pc = "claim"
  BY <1>t, PumpGoesOn DEF Pumping
<1>3. /\ k \in Slots /\ c \in Slots /\ request[k] # None /\ request[k].pending
      /\ request[k] \in Requests
  BY <1>t DEF Pending, Slots, Stored
<1> DEFINE new == [boot |-> request[k].boot, pending |-> FALSE]
<1>4. new \in Requests /\ new # None /\ new.boot = request[k].boot /\ ~new.pending
  <2>1. new \in Requests /\ new.boot = request[k].boot /\ ~new.pending
    BY <1>3 DEF Requests
  <2> HIDE DEF new
  <2> QED BY <2>1, NoneIsNew
<1> HIDE DEF new
<1>5. /\ request' \in [Slots -> {None} \cup Requests] /\ request'[c] = new
      /\ k # c => request'[k] = request[c]
      /\ \A j \in Slots \ {k, c} : request'[j] = request[j]
  <2>1. request' = [request EXCEPT ![k] = request[c], ![c] = new]
    BY DEF new
  <2> QED BY <1>t, <1>3, <1>4, <2>1 DEF Stored
<1>6. given' \in [Calls -> Nat] /\ again' \subseteq Calls
  BY <1>t, <1>2 DEF Counted
<1>7. TypeOK'
  <2>1. Stored' /\ Doing' /\ Paned' /\ Counted' /\ Bounded'
    BY <1>t, <1>1, <1>2, <1>5, <1>6, BoundsKept
       DEF Stored, Doing, Paned, Counted, Waiting
  <2> QED BY <1>t, <2>1, TypeIsKept
<1>8. \A d \in Calls : InProgress(d)' = InProgress(d)
  BY DEF InProgress
<1>9. Panes'
  <2>1. CopyLawful' /\ CallsGoOn
    BY <1>t, <1>1, <1>8 DEF Panes, PaneOfMember, CopyLawful, Lawful, CallsGoOn
  <2>2. \A d \in panes' : InProgress(d) /\ ~InProgress(d)' => call[d].pc \in Bound \/ d \in orphaned'
    BY <1>t, <1>8 DEF Paned
  <2> QED BY <1>7, <2>1, <2>2, PanesKept
<1>10. \A d \in Calls : /\ Under(d)' <=> Under(d)
                        /\ Booted(d)' <=> Booted(d)
  BY <1>1 DEF Under, Waiting, Booted
<1>11. \A d \in Calls : \A j \in Slots :
         /\ j = c => (Asked(j, d)' <=> Asked(k, d))
         /\ j # c /\ j = k => (Asked(j, d)' <=> Asked(c, d))
         /\ j # c /\ j # k => (Asked(j, d)' <=> Asked(j, d))
  BY <1>3, <1>4, <1>5 DEF Asked
<1>12. \A d \in Calls : Pumped(c, d)' <=> Pumped(c, d)
  BY <1>2 DEF Pumped
<1>13. \A e \in Calls \ {c} : \A d \in Calls :
         (Pumped(e, d)' <=> Pumped(e, d)) /\ (Pumping(e, "claim")' <=> Pumping(e, "claim"))
  BY <1>2 DEF Pumped, Pumping
<1>14. /\ \A e \in Calls \ {c} : Sent(e)' = Sent(e)
       /\ Sent(c) = {} /\ Sent(c)' = pump[c].tasks /\ ~Pumping(c, "claim")'
  BY <1>2 DEF Sent, Pumping
<1>15. BegunBefore'
  <2> SUFFICES ASSUME NEW d \in Calls, Carries(d)' \/ given'[d] > 0
               PROVE  call[d].pc # "idle"
    BY DEF BegunBefore
  <2>1. Carries(d)' => Carries(d)
    BY <1>3, <1>10, <1>11, <1>12, <1>13 DEF Carries
  <2>2. given'[d] > 0 => given[d] > 0 \/ Pumped(c, d)
    BY <1>2 DEF Pumped
  <2> QED BY <1>t, <2>1, <2>2 DEF Tasks, BegunBefore, Carries
<1>16. ASSUME NEW d \in Calls, d \notin again', d \in pump[c].tasks
       PROVE  ~Comes(d)' /\ given[d] = 0
  <2>1. ~ToCome(c, k, d)
    BY <1>16
  <2>2. ~InProgress(d)' /\ ~Under(d)'
    BY <1>8, <1>10, <2>1 DEF ToCome, Under
  <2>3. d \in Sent(c)'
    BY <1>14, <1>16
  <2>4. ASSUME NEW j \in Slots, Asked(j, d)' PROVE SentFor(j, d)'
    <3>1. CASE j = c
      BY <1>2, <1>4, <1>5, <1>16, <3>1 DEF SentFor, Pumping
    <3>2. CASE j # c
      <4>1. \E i \in Slots \ {k} : request[i] # None /\ request[i].boot = d
        BY <1>3, <1>11, <2>4, <3>2 DEF Asked
      <4> QED BY <2>1, <4>1 DEF ToCome
    <3> QED BY <3>1, <3>2
  <2>5. \A e \in Calls : ~(Pumping(e, "claim")' /\ Pumped(e, d)')
    BY <1>13, <1>14, <2>1 DEF ToCome, Pumped
  <2>6. Pumping(c, "claim") /\ Pumped(c, d)
    BY <1>2, <1>16 DEF Pumped
  <2>7. Comes(d)
    BY <2>6 DEF Comes
  <2>8. given[d] = 0
    BY <1>t, <1>16, <2>7 DEF Tasks, UsedUp, Counted
  <2>9. ~Comes(d)'
    BY <2>2, <2>3, <2>4, <2>5 DEF Comes
  <2> QED BY <2>8, <2>9
<1>17. ASSUME NEW d \in Calls, d \notin pump[c].tasks, Comes(d)'
       PROVE  Comes(d)
  <2>1. (Booted(d) /\ \A e \in Calls : d \notin Sent(e))'
          => Booted(d) /\ \A e \in Calls : d \notin Sent(e)
    BY <1>10, <1>14
  <2>2. ASSUME NEW j \in Slots, Asked(j, d)', ~SentFor(j, d)'
        PROVE  \E i \in Slots : Asked(i, d) /\ ~SentFor(i, d)
    <3>1. CASE j = c
      BY <1>3, <1>11, <2>2, <3>1 DEF SentFor
    <3>2. CASE j # c /\ j = k
      BY <1>2, <1>3, <1>11, <2>2, <3>2 DEF SentFor, Pumping
    <3>3. CASE j # c /\ j # k
      BY <1>2, <1>5, <1>11, <2>2, <3>3 DEF SentFor, Pumping
    <3> QED BY <3>1, <3>2, <3>3
  <2>3. \A e \in Calls : Pumping(e, "claim")' /\ Pumped(e, d)' => Pumping(e, "claim") /\ Pumped(e, d)
    BY <1>13, <1>14
  <2> QED BY <1>8, <1>10, <1>17, <2>1, <2>2, <2>3 DEF Comes
<1>18. UsedUp'
  <2> SUFFICES ASSUME NEW d \in Calls, d \notin again', given'[d] > 0 PROVE ~Comes(d)'
    BY DEF UsedUp
  <2>1. CASE d \in pump[c].tasks
    BY <1>16, <2>1
  <2>2. CASE d \notin pump[c].tasks
    <3>1. given'[d] = given[d]
      BY <2>2
    <3> QED BY <1>t, <1>17, <2>2, <3>1 DEF Tasks, UsedUp
  <2> QED BY <2>1, <2>2
<1>19. GivenTwiceForCause'
  <2> SUFFICES ASSUME NEW d \in Calls, d \notin again' PROVE ~(given'[d] > 1)
    BY DEF GivenTwiceForCause
  <2>1. CASE d \in pump[c].tasks
    <3>1. given[d] = 0
      BY <1>16, <2>1
    <3>2. given'[d] = 1
      BY <2>1, <3>1
    <3> QED BY <3>2
  <2>2. CASE d \notin pump[c].tasks
    <3>1. given'[d] = given[d]
      BY <2>2
    <3> QED BY <1>t, <3>1 DEF Tasks, GivenTwiceForCause
  <2> QED BY <2>1, <2>2
<1>20. Tasks'
  BY <1>t, <1>1, <1>15, <1>18, <1>19 DEF Tasks, TaskOfCall, RunsOfCalls
<1> QED BY <1>7, <1>9, <1>20 DEF IInv

LEMMA SubmitKeeps ==
  ASSUME IInv, NEW c \in Calls, Submit(c)
  PROVE  IInv'
<1>t. Stored /\ Counted /\ member \in {None} \cup Members
  BY TypeParts DEF IInv
<1>1. /\ Pumping(c, "claim")
      /\ UNCHANGED <<team, member, effect, lease, panes, labelled, session, call, others, orphaned,
                     bounds>>
  BY DEF Submit
<1>2. CASE PumpIdle(c) /\ UNCHANGED <<request, given, again>>
  <2>1. SameMember
    BY <1>t, <1>1, SameMemberSame
  <2>2. \A d \in Calls : Booted(d)' => Booted(d)
    BY <1>1 DEF Booted
  <2>3. Sent(c) = {} /\ \A d \in Calls : ~SentFor(c, d)
    BY <1>1 DEF Sent, SentFor, Pumping
  <2>4. Paned' /\ panes' \subseteq panes /\ Bounded' /\ lease' \in {None} \cup Leases
    BY <1>1, PumpAlone
  <2> QED BY <1>t, <1>1, <1>2, <2>1, <2>2, <2>3, <2>4, PumpEndsKeeps DEF Stored, Counted
<1>3. CASE \E k \in Pending :
             /\ request' = [request EXCEPT ![k] = request[c],
                                           ![c] = [boot |-> request[k].boot, pending |-> FALSE]]
             /\ given' = [t \in Calls |-> IF t \in pump[c].tasks THEN given[t] + 1 ELSE given[t]]
             /\ again' = again \cup {t \in pump[c].tasks : ToCome(c, k, t)}
             /\ PumpTo(c, "sending")
  BY <1>1, <1>3, SentKeeps
<1> QED BY <1>2, <1>3 DEF Submit

\* The claim of the request is let go of, or was, while its prompt is not recorded.
LEMMA PumpEndsNotedKeeps ==
  ASSUME IInv, NEW c \in Calls, PumpIdle(c), again' = again \cup Sent(c), Paned',
         panes' \subseteq panes, Bounded', lease' \in {None} \cup Leases,
         request' = request \/ request' = [request EXCEPT ![c] = None],
         UNCHANGED <<team, member, effect, call, others, given, orphaned>>
  PROVE  IInv'
<1>t. Stored /\ Doing /\ Counted /\ member \in {None} \cup Members
  BY TypeParts DEF IInv
<1>1. SameMember
  BY <1>t, SameMemberSame
<1>2. \A d \in Calls : Booted(d)' => Booted(d)
  BY DEF Booted
<1>3. \A d \in Calls : SentFor(c, d) => d \in Sent(c)
  BY DEF Sent, SentFor
<1>4. again \subseteq again' /\ again' \subseteq Calls
  <2>1. Sent(c) \subseteq Calls
    BY <1>t DEF Sent, Pumping, Doing, Pumps
  <2> QED BY <1>t, <2>1 DEF Counted
<1>5. /\ request' \in [Slots -> {None} \cup Requests]
      /\ \A k \in Slots : request'[k] = request[k] \/ request'[k] = None
  BY <1>t DEF Stored, Slots
<1> QED BY <1>1, <1>2, <1>3, <1>4, <1>5, PumpEndsKeeps

LEMMA SendThrowsKeeps ==
  ASSUME IInv, NEW c \in Calls, SendThrows(c)
  PROVE  IInv'
<1>t. Stored /\ Paned /\ Bounded
  BY TypeParts DEF IInv
<1>1. /\ PumpIdle(c) /\ again' = again \cup Sent(c) /\ Fault
      /\ request' = request \/ request' = [request EXCEPT ![c] = None]
      /\ UNCHANGED <<team, member, effect, lease, panes, labelled, session, call, others, given,
                     orphaned>>
  BY DEF SendThrows
<1>2. Paned' /\ panes' \subseteq panes /\ Bounded' /\ lease' \in {None} \cup Leases
  BY <1>t, <1>1, BoundsKept DEF Paned, Stored
<1> QED BY <1>1, <1>2, PumpEndsNotedKeeps

LEMMA MarkSubmittedKeeps ==
  ASSUME IInv, NEW c \in Calls, MarkSubmitted(c)
  PROVE  IInv'
<1>t. /\ Stored /\ Doing /\ Counted /\ member \in {None} \cup Members /\ Panes /\ Tasks
  BY TypeParts DEF IInv
<1>1. /\ Pumping(c, "sending")
      /\ UNCHANGED <<team, member, effect, lease, panes, labelled, session, call, others, given,
                     orphaned, bounds>>
  BY DEF MarkSubmitted
<1>2. Paned' /\ panes' \subseteq panes /\ Bounded' /\ lease' \in {None} \cup Leases
  BY <1>1, PumpAlone
<1>3. CASE PumpIdle(c) /\ again' = again \cup Sent(c) /\ UNCHANGED request
  BY <1>1, <1>2, <1>3, PumpEndsNotedKeeps
<1>4. CASE request' = [request EXCEPT ![c] = None] /\ PumpTo(c, "record") /\ UNCHANGED again
  <2>1. /\ pump' \in [Calls -> {None} \cup Pumps]
        /\ pump'[c] # None /\ pump'[c].pc = "record" /\ pump'[c].tasks = pump[c].tasks
        /\ \A k \in Calls \ {c} : pump'[k] = pump[k]
        /\ pump[c] # None /\ pump[c].pc = "sending"
    BY <1>t, <1>1, <1>4, PumpGoesOn DEF Pumping
  <2>2. /\ request' \in [Slots -> {None} \cup Requests] /\ request'[c] = None
        /\ \A k \in Slots \ {c} : request'[k] = request[k]
    BY <1>t, <1>4 DEF Stored, Slots
  <2>3. UNCHANGED <<run, sender, copy>>
    BY <1>1 DEF others
  <2>4. Stored' /\ Doing'
    BY <1>t, <1>1, <1>2, <2>1, <2>2, <2>3 DEF Stored, Doing, Waiting
  <2>5. CopyLawful' /\ RunsOfCalls' /\ SameMember
    BY <1>t, <1>1, <2>3, SameMemberSame
       DEF Panes, PaneOfMember, CopyLawful, Lawful, Tasks, RunsOfCalls
  <2>6. ASSUME NEW d \in Calls
        PROVE  (Carries(d)' => Carries(d)) /\ (Comes(d)' => Comes(d))
    <3>1. (Under(d)' <=> Under(d)) /\ (Booted(d)' <=> Booted(d)) /\ (InProgress(d)' <=> InProgress(d))
      BY <1>1, <2>3 DEF Under, Waiting, Booted, InProgress
    <3>2. \A k \in Slots : Asked(k, d)' => Asked(k, d) /\ (SentFor(k, d)' <=> SentFor(k, d))
      BY <2>1, <2>2 DEF Asked, SentFor, Pumping
    <3>3. \A k \in Calls : /\ Sent(k)' = Sent(k)
                           /\ Pumped(k, d)' <=> Pumped(k, d)
                           /\ Pumping(k, "claim")' <=> Pumping(k, "claim")
      BY <2>1 DEF Sent, Pumped, Pumping
    <3>4. Carries(d)' => Carries(d)
      BY <3>1, <3>2, <3>3 DEF Carries
    <3>5. Comes(d)' => Comes(d)
      BY <3>1, <3>2, <3>3 DEF Comes
    <3> QED BY <3>4, <3>5
  <2> QED BY <1>t, <1>1, <1>2, <1>4, <2>4, <2>5, <2>6, StillKeeps DEF Counted
<1> QED BY <1>3, <1>4 DEF MarkSubmitted

LEMMA RecordSubmittedKeeps ==
  ASSUME IInv, NEW c \in Calls, RecordSubmitted(c)
  PROVE  IInv'
<1>t. Stored /\ Counted /\ member \in {None} \cup Members
  BY TypeParts DEF IInv
<1>1. /\ Pumping(c, "record") /\ member' = WithBoot(None) /\ PumpIdle(c)
      /\ UNCHANGED <<team, effect, request, lease, panes, labelled, session, call, others, ghosts,
                     bounds>>
  BY DEF RecordSubmitted
<1>2. SameMember /\ (member' # None => member'.boot = None)
  BY <1>t, <1>1, BootPromptSet
<1>3. \A d \in Calls : ~Booted(d)' /\ ~SentFor(c, d)
  BY <1>1, <1>2, NoneIsNew DEF Booted, SentFor, Pumping
<1>4. Paned' /\ panes' \subseteq panes /\ Bounded' /\ lease' \in {None} \cup Leases
  BY <1>1, PumpAlone
<1> QED BY <1>t, <1>1, <1>2, <1>3, <1>4, PumpEndsKeeps DEF ghosts, Stored, Counted

LEMMA SessionEndsKeeps ==
  ASSUME IInv, NEW c \in Calls, Stop(c) \/ Dies(c)
  PROVE  IInv'
<1>t. Stored /\ Paned /\ Bounded
  BY TypeParts DEF IInv
<1>1. /\ session' = [session EXCEPT ![c] = "ended"]
      /\ PumpIdle(c) /\ again' = again \cup Sent(c)
      /\ UNCHANGED <<panes, labelled, call, others, given, orphaned, bounds>>
      /\ UNCHANGED <<team, member, effect, request>> /\ (lease' = lease \/ lease' = None)
  BY DEF Stop, Dies, SessionEnds, store
<1>2. Paned' /\ Bounded' /\ lease' \in {None} \cup Leases
  BY <1>t, <1>1, BoundsKept DEF Paned, Stored
<1> QED BY <1>1, <1>2, PumpEndsNotedKeeps

LEMMA ClaimLapsesKeeps ==
  ASSUME IInv, NEW c \in Calls, ClaimLapses(c)
  PROVE  IInv'
<1>t. /\ Stored /\ Doing /\ Paned /\ Counted /\ Bounded /\ member \in {None} \cup Members
      /\ Panes /\ Tasks
  BY TypeParts DEF IInv
<1>1. /\ request[c] # None /\ request' = [request EXCEPT ![c].pending = TRUE]
      /\ again' = again \cup Sent(c)
      /\ Fault \/ UNCHANGED bounds
      /\ UNCHANGED <<team, member, effect, lease, tmux, call, others, given, orphaned>>
  BY DEF ClaimLapses, Claimed, FaultIf
<1>2. UNCHANGED <<run, sender, copy, panes, labelled, session, pump>>
  BY <1>1 DEF others, tmux
<1>3. /\ request' \in [Slots -> {None} \cup Requests]
      /\ request'[c] # None /\ request'[c].boot = request[c].boot
      /\ \A k \in Slots \ {c} : request'[k] = request[k]
  <2>1. c \in Slots /\ request[c] \in Requests
    BY <1>t, <1>1 DEF Slots, Stored
  <2>2. /\ [request[c] EXCEPT !.pending = TRUE] \in Requests
        /\ [request[c] EXCEPT !.pending = TRUE].boot = request[c].boot
    BY <2>1 DEF Requests
  <2>3. request' = [request EXCEPT ![c] = [request[c] EXCEPT !.pending = TRUE]]
    BY <1>1
  <2> QED BY <1>t, <2>1, <2>2, <2>3, NoneIsNew DEF Stored
<1>4. Stored' /\ Doing' /\ Paned' /\ Bounded'
  BY <1>t, <1>1, <1>2, <1>3, BoundsKept DEF Stored, Doing, Paned, Waiting
<1>5. CopyLawful' /\ RunsOfCalls' /\ SameMember
  BY <1>t, <1>1, <1>2, SameMemberSame
     DEF Panes, PaneOfMember, CopyLawful, Lawful, Tasks, RunsOfCalls
<1>6. again' \subseteq Calls /\ again \subseteq again'
  <2>1. Sent(c) \subseteq Calls
    BY <1>t DEF Sent, Pumping, Doing, Pumps
  <2> QED BY <1>t, <1>1, <2>1 DEF Counted
<1>7. ASSUME NEW d \in Calls
      PROVE  /\ Carries(d)' => Carries(d)
             /\ d \notin again' /\ Comes(d)' => Comes(d)
  <2>1. (Under(d)' <=> Under(d)) /\ (Booted(d)' <=> Booted(d)) /\ (InProgress(d)' <=> InProgress(d))
    BY <1>1, <1>2 DEF Under, Waiting, Booted, InProgress
  <2>2. \A k \in Slots : Asked(k, d)' <=> Asked(k, d)
    BY <1>1, <1>3 DEF Asked
  <2>3. \A k \in Calls : /\ Sent(k)' = Sent(k)
                         /\ Pumped(k, d)' <=> Pumped(k, d)
                         /\ Pumping(k, "claim")' <=> Pumping(k, "claim")
    BY <1>2 DEF Sent, Pumped, Pumping
  <2>4. \A k \in Slots : d \notin again' /\ ~SentFor(k, d)' => ~SentFor(k, d)
    <3>1. SentFor(c, d) => d \in again'
      BY <1>1 DEF SentFor, Sent
    <3>2. \A k \in Slots \ {c} : SentFor(k, d)' <=> SentFor(k, d)
      BY <1>2, <1>3 DEF SentFor, Pumping
    <3> QED BY <3>1, <3>2
  <2>5. Carries(d)' => Carries(d)
    BY <2>1, <2>2, <2>3 DEF Carries
  <2>6. d \notin again' /\ Comes(d)' => Comes(d)
    BY <2>1, <2>2, <2>3, <2>4 DEF Comes
  <2> QED BY <2>5, <2>6
<1> QED BY <1>1, <1>2, <1>4, <1>5, <1>6, <1>7, StillKeeps

-----------------------------------------------------------------------------
(* Those who read the member to use it later. *)

\* A bootPrompt that is read while no prompt has it comes from the member.
LEMMA ReaderKeeps ==
  ASSUME IInv, Doing', Bounded', CopyLawful', again' = again \cup ReadLate,
         UNCHANGED <<store, tmux, call, run, given, orphaned>>,
         \A c \in Calls : Under(c)' => Under(c) \/ Booted(c)
  PROVE  IInv'
<1>t. /\ Stored /\ Paned /\ Counted /\ member \in {None} \cup Members /\ Tasks
  BY TypeParts DEF IInv
<1>1. UNCHANGED <<team, member, effect, request, lease, panes, labelled, session, pump>>
  BY DEF store, tmux
<1>2. Stored' /\ Paned' /\ RunsOfCalls' /\ SameMember
  BY <1>t, <1>1, SameMemberSame DEF Stored, Paned, Waiting, Tasks, RunsOfCalls
<1>3. again' \subseteq Calls /\ again \subseteq again'
  BY <1>t DEF Counted, ReadLate
<1>4. ASSUME NEW c \in Calls
      PROVE  /\ Carries(c)' => Carries(c)
             /\ c \notin again' /\ Comes(c)' => Comes(c)
  <2>1. (Booted(c)' <=> Booted(c)) /\ (InProgress(c)' <=> InProgress(c))
    BY <1>1 DEF Booted, InProgress
  <2>2. \A k \in Slots : (Asked(k, c)' <=> Asked(k, c)) /\ (SentFor(k, c)' <=> SentFor(k, c))
    BY <1>1 DEF Asked, SentFor, Pumping
  <2>3. \A k \in Calls : /\ Sent(k)' = Sent(k)
                         /\ Pumped(k, c)' <=> Pumped(k, c)
                         /\ Pumping(k, "claim")' <=> Pumping(k, "claim")
    BY <1>1 DEF Sent, Pumped, Pumping
  <2>4. c \notin again' /\ Booted(c) => \A k \in Calls : c \notin Sent(k)
    BY DEF ReadLate, Booted
  <2>5. Carries(c)' => Carries(c)
    BY <2>1, <2>2, <2>3 DEF Carries
  <2>6. c \notin again' /\ Comes(c)' => Comes(c)
    BY <2>1, <2>2, <2>3, <2>4 DEF Comes
  <2> QED BY <2>5, <2>6
<1> QED BY <1>1, <1>2, <1>3, <1>4, StillKeeps

LEMMA SendReadsKeeps ==
  ASSUME IInv, SendReads
  PROVE  IInv'
<1>t. /\ Stored /\ Doing /\ Bounded /\ member \in {None} \cup Members /\ Panes
  BY TypeParts DEF IInv
<1>1. /\ member # None /\ sender' = [boot |-> member.boot]
      /\ sends < MaxSends /\ sends' = sends + 1
      /\ again' = again \cup ReadLate
      /\ UNCHANGED <<store, tmux, call, run, copy, given, orphaned, faults, panel>>
  BY DEF SendReads, Has
<1>2. sender' \in Senders /\ sender'.boot = member.boot
  BY <1>t, <1>1 DEF Members, Senders
<1>3. Doing' /\ Bounded'
  BY <1>t, <1>1, <1>2, BoundsType DEF Doing, tmux, Bounded
<1>4. CopyLawful'
  BY <1>t, <1>1 DEF Panes, PaneOfMember, CopyLawful, Lawful
<1>5. \A c \in Calls : Under(c)' => Under(c) \/ Booted(c)
  BY <1>1, <1>2 DEF Under, Booted, Waiting, store
<1> QED BY <1>1, <1>3, <1>4, <1>5, ReaderKeeps

LEMMA ReadTeamKeeps ==
  ASSUME IInv, ReadTeam
  PROVE  IInv'
<1>t. /\ Stored /\ Doing /\ Bounded /\ member \in {None} \cup Members /\ Panes
  BY TypeParts DEF IInv
<1>1. /\ copy' = [member |-> Healed]
      /\ Fault \/ UNCHANGED bounds
      /\ again' = again \cup ReadLate
      /\ UNCHANGED <<store, tmux, call, run, sender, given, orphaned>>
  BY DEF ReadTeam, FaultIf
<1>2. /\ Healed \in {None} \cup Members
      /\ Healed # None => /\ member # None /\ Healed.by = member.by /\ Healed.boot = member.boot
                          /\ Healed.pane \in {member.pane, None}
  <2>1. CASE member = None
    BY <2>1 DEF Healed
  <2>2. CASE member # None
    <3>1. member \in Members
      BY <1>t, <2>2
    <3> QED BY <2>2, <3>1 DEF Healed, Members
  <2> QED BY <2>1, <2>2
<1>3. copy' \in Copies /\ copy'.member = Healed
  BY <1>1, <1>2 DEF Copies
<1>4. Doing' /\ Bounded'
  BY <1>t, <1>1, <1>3, BoundsKept DEF Doing, tmux
<1>5. CopyLawful'
  BY <1>t, <1>1, <1>2, <1>3 DEF Panes, PaneOfMember, CopyLawful, Lawful
<1>6. \A c \in Calls : Under(c)' => Under(c) \/ Booted(c)
  BY <1>1, <1>2, <1>3 DEF Under, Booted, Waiting, store
<1> QED BY <1>1, <1>4, <1>5, <1>6, ReaderKeeps

\* A copy is saved: the member that is there by now is lost, or is the copy's.
LEMMA SaveTeamKeeps ==
  ASSUME IInv, SaveTeam
  PROVE  IInv'
<1>t. /\ Stored /\ Doing /\ Paned /\ Counted /\ Bounded /\ member \in {None} \cup Members
      /\ call \in Calling /\ Panes /\ Tasks
  BY TypeParts DEF IInv
<1>1. /\ copy # None /\ copy' = None
      /\ member' = IF team THEN copy.member ELSE member
      /\ orphaned' = IF team THEN orphaned \cup Undone ELSE orphaned
      /\ UNCHANGED <<team, effect, request, lease, tmux, call, run, sender, given, again, bounds>>
  BY DEF SaveTeam
<1>2. UNCHANGED <<panes, labelled, session, pump, faults, panel, sends>>
  BY <1>1 DEF tmux, bounds
<1>3. copy.member \in {None} \cup Members
  BY <1>t, <1>1 DEF Doing, Copies
<1>4. orphaned \subseteq orphaned' /\ orphaned' \subseteq Calls
  BY <1>t, <1>1 DEF Undone, Counted, Members
<1>5. member' \in {None} \cup Members
  BY <1>t, <1>1, <1>3
<1>6. TypeOK'
  <2>1. Stored' /\ Doing' /\ Paned' /\ Counted' /\ Bounded'
    BY <1>t, <1>1, <1>2, <1>4 DEF Stored, Doing, Paned, Counted, Bounded, Waiting
  <2> QED BY <1>t, <1>1, <1>5, <2>1, TypeIsKept
<1>7. \A c \in Calls : InProgress(c)' = InProgress(c)
  BY <1>1 DEF InProgress
<1>8. panes \subseteq Calls /\ (Has <=> member # None) /\ (Has <=> member # None)'
  BY <1>t, <1>6 DEF Paned, Stored, TypeOK, Has
<1>9. ASSUME team, member # None, member.by \notin orphaned' \/ member.pane \in panes \ orphaned'
      PROVE  /\ copy.member # None /\ copy.member.by = member.by
             /\ copy.member.pane = member.pane \/ member.pane \notin panes
  <2>1. member.by # None /\ (member.pane \in panes => member.pane # None)
    BY <1>t, <1>8, <1>9, NoneIsNew DEF Members
  <2>2. orphaned' = orphaned \cup Undone
    BY <1>1, <1>9
  <2> QED BY <1>9, <2>1, <2>2 DEF Undone
<1>10. KeepsItsMember'
  <2> SUFFICES ASSUME NEW c \in Calls, c \notin orphaned', InProgress(c)
               PROVE  /\ member' # None /\ member'.by = c
                      /\ call[c].pc \in Bound => member'.pane = c \/ c \notin panes
    BY <1>1, <1>2, <1>7 DEF KeepsItsMember
  <2>1. /\ member # None /\ member.by = c
        /\ call[c].pc \in Bound => member.pane = c \/ c \notin panes
    BY <1>t, <1>4 DEF Panes, KeepsItsMember
  <2>2. CASE team
    <3>1. /\ copy.member # None /\ copy.member.by = member.by
          /\ copy.member.pane = member.pane \/ member.pane \notin panes
      BY <1>9, <2>1, <2>2
    <3> QED BY <1>1, <2>1, <2>2, <3>1
  <2>3. CASE ~team
    BY <1>1, <2>1, <2>3
  <2> QED BY <2>2, <2>3
<1>11. PaneOfMember'
  BY <1>t, <1>1, <1>4 DEF Panes, PaneOfMember, CopyLawful, Lawful
<1>12. PanesAreSplit'
  BY <1>t, <1>1, <1>2 DEF Panes, PanesAreSplit
<1>13. OrphanHasCause'
  <2> SUFFICES ASSUME NEW c \in panes, ~InProgress(c), c \notin orphaned'
               PROVE  (c \in Known)'
    BY <1>2, <1>7, <1>8 DEF OrphanHasCause
  <2>1. member # None /\ member.pane = c
    BY <1>t, <1>4, <1>8 DEF Panes, OrphanHasCause, Known
  <2>2. team
    BY <1>8, <2>1 DEF Has
  <2>3. copy.member # None /\ copy.member.pane = c
    BY <1>9, <2>1, <2>2
  <2> QED BY <1>1, <1>8, <2>2, <2>3 DEF Known
<1>14. Tasks'
  <2>1. \A c \in Calls : (Under(c)' => Under(c)) /\ (Booted(c)' => Booted(c) \/ Under(c))
    BY <1>1 DEF Under, Booted, Waiting
  <2>2. \A c \in Calls : InProgress(c) => call[c].pc # "idle"
    BY DEF InProgress
  <2>3. \A c \in Calls : /\ Carries(c)' => Carries(c) \/ call'[c].pc # "idle"
                         /\ Comes(c)' => Comes(c) \/ call[c].pc = "idle"
    BY <1>1, <1>2, <1>7, <2>1, <2>2, QuietAbout
  <2>4. RunsOfCalls' /\ \A c \in Calls : call'[c].task \in {c, None}
    BY <1>t, <1>1 DEF Tasks, RunsOfCalls, TaskOfCall
  <2> QED BY <1>1, <2>3, <2>4, TasksKept
<1> QED BY <1>6, <1>10, <1>11, <1>12, <1>13, <1>14 DEF IInv, Panes

-----------------------------------------------------------------------------
(* The member is lost to a crash or to the panel. *)

LEMMA LeaderCrashKeeps ==
  ASSUME IInv, LeaderCrash
  PROVE  IInv'
<1>t. /\ Stored /\ Doing /\ Paned /\ Counted /\ Bounded /\ member \in {None} \cup Members
      /\ call \in Calling /\ Panes /\ Tasks
  BY TypeParts DEF IInv
<1>1. /\ Fault /\ sender' = None
      /\ call' = [c \in Calls |-> IF InProgress(c) THEN [call[c] EXCEPT !.pc = "lost"] ELSE call[c]]
      /\ orphaned' = orphaned \cup {c \in Calls : InProgress(c)}
      /\ run' = [x \in Runners |-> IF x \in Calls THEN None ELSE run[x]]
      /\ UNCHANGED <<store, tmux, copy, given, again>>
  BY DEF LeaderCrash
<1>2. UNCHANGED <<team, member, effect, request, lease, panes, labelled, session, pump>>
  BY <1>1 DEF store, tmux
<1>3. /\ call' \in Calling
      /\ \A c \in Calls : /\ IF InProgress(c) THEN call'[c].pc = "lost" ELSE call'[c] = call[c]
                          /\ call'[c].task \in {c, None}
  <2>1. ASSUME NEW c \in Calls
        PROVE  /\ call[c] \in [pc : {"idle", "reserved", "laying", "booting", "waiting", "asked",
                                     "running", "committing"} \cup Ended,
                               task : Calls \cup {None}]
               /\ call[c].task \in {c, None}
    BY <1>t DEF Calling, Tasks, TaskOfCall
  <2>2. ASSUME NEW c \in Calls
        PROVE  [call[c] EXCEPT !.pc = "lost"] = [pc |-> "lost", task |-> call[c].task]
    BY <2>1
  <2> QED BY <1>1, <2>1, <2>2 DEF Calling, Ended
<1>4. /\ run' \in [Runners -> {None} \cup Runs]
      /\ \A y \in Runners : run'[y] # None => run'[y] = run[y]
      /\ \A c \in Calls : run'[c] = None
  BY <1>t, <1>1 DEF Doing, Runners
<1>5. TypeOK'
  <2>1. Stored' /\ Doing' /\ Paned' /\ Counted' /\ Bounded'
    BY <1>t, <1>1, <1>2, <1>4, BoundsKept DEF Stored, Doing, Paned, Counted, Waiting
  <2> QED BY <1>t, <1>2, <1>3, <2>1, TypeIsKept
<1>6. \A c \in Calls : ~InProgress(c)' /\ (call'[c].pc = "idle" => call[c].pc = "idle")
  BY <1>3 DEF InProgress, Ended
<1>7. CallsGoOn
  BY <1>3, <1>6 DEF CallsGoOn, Bound, Unsplit
<1>8. Panes'
  <2>1. \A c \in panes' :
          InProgress(c) /\ ~InProgress(c)' => call[c].pc \in Bound \/ c \in orphaned'
    BY <1>t, <1>1, <1>2 DEF Paned
  <2>2. CopyLawful'
    BY <1>t, <1>1 DEF Panes, PaneOfMember, CopyLawful, Lawful
  <2> QED BY <1>1, <1>2, <1>5, <1>7, <2>1, <2>2, PanesKept
<1>9. Tasks'
  <2>1. ASSUME NEW c \in Calls PROVE (Under(c)' => Under(c)) /\ (Booted(c)' => Booted(c))
    <3>1. (\E y \in Runners : run[y] # None /\ run[y].task = c)' =>
            \E y \in Runners : run[y] # None /\ run[y].task = c
      BY <1>4
    <3> QED BY <1>1, <1>2, <3>1 DEF Under, Waiting, Booted
  <2>2. \A c \in Calls : InProgress(c) => call'[c].pc # "idle"
    BY <1>3 DEF InProgress
  <2>3. \A c \in Calls : /\ Carries(c)' => Carries(c) \/ call'[c].pc # "idle"
                         /\ Comes(c)' => Comes(c) \/ call[c].pc = "idle"
    BY <1>2, <1>6, <2>1, <2>2, QuietAbout
  <2>4. RunsOfCalls'
    BY <1>4 DEF RunsOfCalls
  <2> QED BY <1>1, <1>3, <1>6, <2>3, <2>4, TasksKept
<1> QED BY <1>5, <1>8, <1>9 DEF IInv

\* The member goes, and its pane is killed.
LEMMA PanelKeeps ==
  ASSUME IInv, NEW gone, Kill(gone), Panel, member' = None,
         member # None => member.pane \in gone,
         orphaned' = IF Has /\ InProgress(member.by) THEN orphaned \cup {member.by} ELSE orphaned,
         team' \in BOOLEAN,
         effect' = effect \/ effect' = NoEffect,
         request' = request \/ request' = [k \in Slots |-> None],
         lease' = lease \/ lease' = None,
         UNCHANGED <<labelled, call, others, given, again>>
  PROVE  IInv'
<1>t. /\ Stored /\ Doing /\ Paned /\ Counted /\ Bounded /\ member \in {None} \cup Members
      /\ call \in Calling /\ Panes /\ Tasks /\ TypeOK
  BY TypeParts DEF IInv
<1>1. Paned' /\ panes' = panes \ gone /\ pump' = pump
  BY <1>t, KillKept DEF Paned
<1>2. Bounded' /\ UNCHANGED <<run, sender, copy>>
  BY <1>t, BoundsKept DEF others
<1>3. orphaned' \subseteq Calls /\ orphaned \subseteq orphaned'
  BY <1>t, HasIsMember DEF Counted, Members
<1>4. effect' \in Effects /\ (Waiting' => Waiting /\ effect' = effect)
  BY <1>t DEF Stored, Effects, NoEffect, Waiting
<1>5. /\ request' \in [Slots -> {None} \cup Requests]
      /\ \A k \in Slots : request'[k] = request[k] \/ request'[k] = None
  BY <1>t DEF Stored
<1>6. TypeOK'
  <2>1. Stored' /\ Doing' /\ Counted'
    BY <1>t, <1>1, <1>2, <1>3, <1>4, <1>5 DEF Stored, Doing, Counted
  <2> QED BY <1>t, <1>1, <1>2, <2>1, TypeIsKept
<1>7. \A c \in Calls : InProgress(c)' = InProgress(c)
  BY DEF InProgress
<1>8. CallsGoOn
  BY <1>7 DEF CallsGoOn
<1>9. Panes'
  <2>1. \A c \in Calls : member # None /\ member.by = c /\ InProgress(c)' => c \in orphaned'
    BY <1>t, <1>7, HasIsMember
  <2>2. \A c \in panes' : InProgress(c) /\ ~InProgress(c)' => c \in orphaned'
    BY <1>t, <1>1, <1>7 DEF Paned
  <2> QED BY <1>1, <1>2, <1>3, <1>6, <1>8, <2>1, <2>2, PanesKeptWithoutMember
<1>10. Tasks'
  <2>1. \A c \in Calls : (Under(c)' => Under(c)) /\ (Booted(c)' => Booted(c))
    BY <1>2, <1>4 DEF Under, Booted
  <2>2. \A c \in Calls : InProgress(c) => call'[c].pc # "idle"
    BY DEF InProgress
  <2>3. \A c \in Calls : /\ Carries(c)' => Carries(c) \/ call'[c].pc # "idle"
                         /\ Comes(c)' => Comes(c) \/ call[c].pc = "idle"
    BY <1>1, <1>5, <1>7, <2>1, <2>2, QuietAbout
  <2>4. RunsOfCalls' /\ \A c \in Calls : call'[c].task \in {c, None}
    BY <1>t, <1>2 DEF Tasks, RunsOfCalls, TaskOfCall
  <2> QED BY <2>3, <2>4, TasksKept
<1> QED BY <1>6, <1>9, <1>10 DEF IInv

LEMMA PanelActionsKeep ==
  ASSUME IInv, RemoveMember \/ DeleteSelectedTeam \/ CleanupAll
  PROVE  IInv'
<1>t. TypeOK
  BY DEF IInv
<1>1. CASE RemoveMember
  <2>1. /\ Has /\ Panel /\ Kill({member.pane}) /\ member' = None
        /\ orphaned' = IF Has /\ InProgress(member.by) THEN orphaned \cup {member.by} ELSE orphaned
        /\ UNCHANGED <<team, effect, request, lease, labelled, call, others, given, again>>
    BY <1>1 DEF RemoveMember
  <2>2. team' \in BOOLEAN
    BY <1>t, <2>1 DEF TypeOK
  <2> QED BY <2>1, <2>2, PanelKeeps
<1>2. CASE DeleteSelectedTeam \/ CleanupAll
  <2>1. PICK gone : /\ Panel /\ Kill(gone) /\ Known \subseteq gone /\ Deleted
                    /\ UNCHANGED <<labelled, call, others, given, again>>
    BY <1>2 DEF DeleteSelectedTeam, CleanupAll
  <2>2. member # None => member.pane \in gone
    BY <1>t, <2>1, HasIsMember DEF Known
  <2>3. team' \in BOOLEAN
    BY <2>1 DEF Deleted
  <2> QED BY <2>1, <2>2, <2>3, PanelKeeps DEF Deleted
<1> QED BY <1>1, <1>2

-----------------------------------------------------------------------------
(* The invariant, and what it is for. *)

LEMMA InitIInv ==
  ASSUME Init
  PROVE  IInv
<1>1. TypeOK
  BY BoundsType DEF Init, TypeOK, NoEffect
<1>2. \A c \in Calls : call[c].pc = "idle" /\ call[c].task = None /\ ~InProgress(c)
  BY DEF Init, InProgress
<1>3. Panes
  BY <1>2 DEF Init, Panes, KeepsItsMember, PaneOfMember, CopyLawful, Lawful, PanesAreSplit,
              OrphanHasCause
<1>4. \A c \in Calls : ~Carries(c) /\ given[c] = 0
  BY NoneIsNew DEF Init, NoEffect, Carries, Under, Booted, Asked, Pumped, Waiting
<1>5. RunsOfCalls
  BY DEF Init, RunsOfCalls, Runners
<1>6. Tasks
  BY <1>2, <1>4, <1>5 DEF Tasks, TaskOfCall, BegunBefore, UsedUp, GivenTwiceForCause
<1> QED BY <1>1, <1>3, <1>6 DEF IInv

LEMMA NextIInv ==
  ASSUME IInv, [Next]_vars
  PROVE  IInv'
<1>1. CASE UNCHANGED vars
  <2>1. /\ UNCHANGED <<team, member, effect, request, lease, panes, labelled, session, pump>>
        /\ UNCHANGED <<call, others, ghosts, bounds>>
    BY <1>1 DEF vars, store, tmux
  <2>2. Stored
    BY TypeParts DEF IInv
  <2>3. Paned' /\ panes' \subseteq panes /\ Bounded' /\ lease' \in {None} \cup Leases
    BY <2>1, PumpAlone
  <2> QED BY <2>1, <2>2, <2>3, AsideKeeps DEF Stored
<1>2. ASSUME NEW c \in Calls, NEW task \in {c, None}, NEW boot \in {task, None},
             Reserve(c, task, boot)
      PROVE  IInv'
  BY <1>2, ReserveKeeps
<1>3. ASSUME NEW c \in Calls,
             \/ CreateFails(c) \/ SplitPane(c) \/ LayoutFails(c) \/ Bind(c)
             \/ AppStarted(c) \/ AppTimesOut(c)
      PROVE  IInv'
  BY <1>3, CreateFailsKeeps, SplitPaneKeeps, LayoutFailsKeeps, BindKeeps,
     AppStartedOrNoTaskKeeps, AppTimesOutKeeps
<1>4. ASSUME NEW c \in Calls, RequestTask(c) \/ NoTask(c) \/ RunInitial(c) \/ Commit(c)
      PROVE  IInv'
  BY <1>4, RequestTaskKeeps, AppStartedOrNoTaskKeeps, RunInitialKeeps, CommitKeeps
<1>5. ASSUME NEW c \in Calls, SessionStep(c)
      PROVE  IInv'
  BY <1>5, PaneDiesKeeps, AttachOrStartKeeps, SessionEndsKeeps, PumpReadsKeeps, SubmitKeeps,
     MarkSubmittedKeeps, RecordSubmittedKeeps, SendThrowsKeeps, ClaimLapsesKeeps DEF SessionStep
<1>6. ASSUME NEW x \in Runners, RunStep(x)
      PROVE  IInv'
  BY <1>6, RunSetsBootKeeps, RunRequestsKeeps, RunEndsKeeps DEF RunStep
<1>7. ASSUME NEW k \in Slots, Expires(k)
      PROVE  IInv'
  BY <1>7, ExpiresKeeps
<1>8. CASE Maintenance \/ EffectClaimLapses \/ MaintainerDies \/ LeaderCrash \/ LeaseLapses
  BY <1>8, MaintenanceKeeps, ClaimOrRunnerLostKeeps, LeaderCrashKeeps, LeaseLapsesKeeps
<1>9. CASE SendReads \/ SendRequests \/ ReadTeam \/ SaveTeam
  BY <1>9, SendReadsKeeps, SendRequestsKeeps, ReadTeamKeeps, SaveTeamKeeps
<1>10. CASE RemoveMember \/ DeleteSelectedTeam \/ CleanupAll
  BY <1>10, PanelActionsKeep
<1> QED BY <1>1, <1>2, <1>3, <1>4, <1>5, <1>6, <1>7, <1>8, <1>9, <1>10 DEF Next, SpawnStep

\* The invariant that carries the others: whose the member and its pane are, and
\* what may still bring a task.
THEOREM Invariance == Spec => []IInv
<1>1. Init => IInv
  BY InitIInv
<1>2. IInv /\ [Next]_vars => IInv'
  BY NextIInv
<1> QED BY <1>1, <1>2, PTL DEF Spec

\* The state of the workers has its type: a team that is gone has no member, and
\* a pane has a session that is not over by itself.
THEOREM TypeCorrect == Spec => []TypeOK
<1>1. IInv => TypeOK
  BY DEF IInv
<1> QED BY <1>1, Invariance, PTL

\* Whatever fails, crashes, is removed or saved from an old copy in between: no
\* pane is left that no member names, unless its spawn call lost it for one of the
\* known causes.
THEOREM NoCauselessOrphans == Spec => []OrphanHasCause
<1>1. IInv => OrphanHasCause
  BY DEF IInv, Panes
<1> QED BY <1>1, Invariance, PTL

\* However the commit of the spawn call, the runs of the effect, the deliveries and
\* the claims, marks and records of the pumps interleave: a task that was given
\* while nothing was left to bring it, and whose prompt was recorded with nothing
\* read, thrown or lapsed meanwhile, is not given again.
THEOREM NoCauselessTasks == Spec => []GivenTwiceForCause
<1>1. IInv => GivenTwiceForCause
  BY DEF IInv, Tasks
<1> QED BY <1>1, Invariance, PTL

\* A spawn call ends well in its last commit, and in nothing else.
LEMMA OnlyCommitEndsWell ==
  ASSUME IInv, [Next]_vars, NEW c \in Calls, call[c].pc # "ok", call'[c].pc = "ok"
  PROVE  Commit(c)
<1>t. call \in Calling
  BY TypeParts DEF IInv
<1>1. CASE call' = call
  BY <1>1
<1>2. ASSUME NEW d \in Calls,
             NEW to \in {"laying", "booting", "waiting", "asked", "running", "committing",
                         "failed", "threw"},
             GoTo(d, to)
      PROVE  FALSE
  <2>1. call' = [call EXCEPT ![d] = [call[d] EXCEPT !.pc = to]]
    BY <1>2 DEF GoTo
  <2>2. [call[d] EXCEPT !.pc = to].pc = to
    BY <1>t DEF Calling
  <2> QED BY <1>t, <2>1, <2>2 DEF Calling
<1>3. ASSUME NEW d \in Calls, NEW task \in {d, None}, NEW boot \in {task, None},
             Reserve(d, task, boot)
      PROVE  FALSE
  BY <1>t, <1>3 DEF Reserve, Calling
<1>4. ASSUME NEW d \in Calls, CreateFails(d) \/ SplitPane(d) \/ LayoutFails(d) \/ Bind(d)
      PROVE  FALSE
  BY <1>2, <1>4 DEF CreateFails, SplitPane, LayoutFails, Bind, RollBack, Throws
<1>5. ASSUME NEW d \in Calls,
             AppStarted(d) \/ AppTimesOut(d) \/ RequestTask(d) \/ NoTask(d) \/ RunInitial(d)
      PROVE  FALSE
  BY <1>2, <1>5 DEF AppStarted, AppTimesOut, RequestTask, NoTask, RunInitial, RollBack
<1>6. ASSUME NEW d \in Calls, Commit(d)
      PROVE  Commit(c)
  <2>1. GoTo(d, "ok")
    BY <1>2, <1>6 DEF Commit, Throws
  <2>2. \A e \in Calls \ {d} : call'[e] = call[e]
    BY <1>t, <2>1 DEF GoTo, Calling
  <2>3. d = c
    BY <2>2
  <2> QED BY <1>6, <2>3
<1>7. CASE LeaderCrash
  <2>1. /\ call' = [e \in Calls |-> IF InProgress(e) THEN [call[e] EXCEPT !.pc = "lost"] ELSE call[e]]
        /\ [call[c] EXCEPT !.pc = "lost"].pc = "lost"
    BY <1>t, <1>7 DEF LeaderCrash, Calling
  <2> QED BY <2>1
<1>8. ASSUME NEW d \in Calls, SessionStep(d)
      PROVE  call' = call
  BY <1>8 DEF SessionStep, PaneDies, Attach, StartBridge, Stop, Dies, SessionEnds, PumpReads, Submit,
              MarkSubmitted, RecordSubmitted, SendThrows, ClaimLapses
<1>9. ASSUME NEW x \in Runners, RunStep(x)
      PROVE  FALSE
  <2>1. CASE RunSetsBoot(x) \/ RunRequests(x)
    BY <1>1, <2>1 DEF RunSetsBoot, RunRequests
  <2>2. CASE RunEnds(x)
    BY <1>1, <1>2, <2>2 DEF RunEnds
  <2> QED BY <1>9, <2>1, <2>2 DEF RunStep
<1>10. ASSUME NEW k \in Slots, Expires(k)
       PROVE  call' = call
  BY <1>10 DEF Expires
<1>11. ASSUME \/ Maintenance \/ EffectClaimLapses \/ MaintainerDies \/ LeaseLapses
              \/ SendReads \/ SendRequests \/ ReadTeam \/ SaveTeam
              \/ RemoveMember \/ DeleteSelectedTeam \/ CleanupAll
       PROVE  call' = call
  BY <1>11 DEF Maintenance, EffectClaimLapses, MaintainerDies, LeaseLapses, SendReads,
               SendRequests, ReadTeam, SaveTeam, RemoveMember, DeleteSelectedTeam, CleanupAll
<1>12. CASE UNCHANGED vars
  BY <1>1, <1>12 DEF vars
<1> QED BY <1>1, <1>3, <1>4, <1>5, <1>6, <1>7, <1>8, <1>9, <1>10, <1>11, <1>12 DEF Next, SpawnStep

\* A spawn call that ends well, and lost its worker to nobody, leaves the member
\* it reserved, bound to its own pane unless that is gone.
THEOREM SpawnNamesItsWorker == Spec => SpawnedIsNamed
<1> DEFINE Named ==
      \A c \in Calls \ orphaned' :
        call[c].pc # "ok" /\ call'[c].pc = "ok"
          => /\ member' # None /\ member'.by = c
             /\ member'.pane = c \/ c \notin panes'
<1>1. ASSUME IInv, [Next]_vars PROVE Named
  <2> SUFFICES ASSUME NEW c \in Calls, c \notin orphaned', call[c].pc # "ok", call'[c].pc = "ok"
               PROVE  /\ member' # None /\ member'.by = c
                      /\ member'.pane = c \/ c \notin panes'
    OBVIOUS
  <2>0. member \in {None} \cup Members /\ Panes /\ Tasks
    BY <1>1, TypeParts DEF IInv
  <2>1. Commit(c)
    BY <1>1, OnlyCommitEndsWell
  <2>2. ~Throws(c)
    BY DEF Throws
  <2>3. /\ member' = IF call[c].task = None THEN member ELSE WithBoot(call[c].task)
        /\ UNCHANGED <<panes, orphaned>>
        /\ call[c].pc = "committing"
    BY <2>1, <2>2 DEF Commit, ghosts
  <2>4. InProgress(c) /\ call[c].pc \in Bound
    BY <2>3 DEF InProgress, Ended, Bound
  <2>5. member # None /\ member.by = c /\ (member.pane = c \/ c \notin panes)
    BY <2>0, <2>3, <2>4 DEF Panes, KeepsItsMember
  <2>6. SameMember
    BY <2>0, <2>3, SameMemberSame, BootPromptSet DEF Tasks, TaskOfCall
  <2> QED BY <2>3, <2>5, <2>6 DEF SameMember
<1>2. IInv /\ [Next]_vars => [Named]_vars
  BY <1>1
<1> QED BY <1>2, Invariance, PTL DEF Spec, SpawnedIsNamed
==============================================================================
