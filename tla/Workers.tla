------------------------------ MODULE Workers -------------------------------
(***************************************************************************)
(* Workers of one name: how agentteam_spawn makes one, rolls back what it  *)
(* half made, and asks for its first task (tools/workerSpawnService.ts);   *)
(* how the worker's session finds its member and publishes a lease         *)
(* (state/sessionBinding.ts, runtime/bridgeController.ts,                  *)
(* runtime/bridgeLease.ts); how the panel removes members and teams        *)
(* (commands/teamActions.ts).                                              *)
(*                                                                         *)
(* The session file, and so the lease, the delivery request and the        *)
(* initial task's outbox effect, are found by the worker's name: workers   *)
(* that had the name one after the other share them.  A pane and the       *)
(* session in it are named by the spawn call that split it.  Spawn calls   *)
(* and the panel run in the leader's process, so what has no await in it   *)
(* is one step; the workers' sessions are processes of their own.          *)
(*                                                                         *)
(* Requests are those of BridgeDelivery in terms of the tasks they carry:  *)
(* which of several is the oldest, and whether the worker is busy, is left *)
(* open.  The effect is one of Outbox, with its attempts left open.  The   *)
(* session's context file is left out: with it or without it a session is  *)
(* bound if and only if the team has the member.                           *)
(***************************************************************************)
EXTENDS Naturals, FiniteSets

CONSTANTS
  Calls,      \* calls of agentteam_spawn with this worker's name
  MaxFaults,  \* failures of tmux, of a pane, of the leader's process
  MaxPanel,   \* uses of the panel
  MaxSends,   \* messages sent to the worker
  MaxEvents,  \* all of these together
  Maintainer, \* a process that runs outbox maintenance
  None

Runners  == Calls \cup {Maintainer}
Slots    == Calls \cup {None}

Members  == [by : Calls, pane : Calls \cup {None}, boot : Calls \cup {None}]
Requests == [boot : Calls \cup {None}, pending : BOOLEAN]
Leases   == [of : Calls, fresh : BOOLEAN]
Runs     == [task : Calls, pc : {"boot", "request", "again", "fail"}]
Pumps    == [tasks : SUBSET Calls, pc : {"claim", "sending", "record"}]
Senders  == [boot : Calls \cup {None}]
Copies   == [member : {None} \cup Members]

ASSUME NoneAssumption ==
  None \notin UNION {Runners, Members, Requests, Leases, Runs, Pumps, Senders, Copies}
ASSUME RunnersAssumption == Maintainer \notin Calls
ASSUME BoundsType     == MaxFaults \in Nat /\ MaxPanel \in Nat /\ MaxSends \in Nat /\ MaxEvents \in Nat

VARIABLES
  team,      \* does team.json exist?
  member,    \* the member of that name: who reserved it, its pane, its bootPrompt
  effect,    \* the outbox effect spawn-initial-worker-delivery of that name
  run,       \* a runner of that effect between its claim and its mark
  request,   \* the delivery requests of that name to be submitted: the one no
             \* session has claimed, and what the session in each pane claimed
  lease,     \* the bridge lease of that name
  panes,     \* the panes that exist
  labelled,  \* those that got their @agentteam-name
  session,   \* the pi session in each pane
  pump,      \* its bridge's pump, from what it read to what it records
  call,      \* each spawn call: its step and its task
  sender,    \* a delivery that has read the member and is to request
  copy,      \* a copy of the team that was read to be saved with its panes healed
  given,     \* how often a session was prompted with each call's task
  orphaned,  \* calls whose worker was lost to a crash, a removal, another call
  again,     \* tasks that something was left to bring once more when they were given
  faults, panel, sends

store   == <<team, member, effect, request, lease>>
tmux    == <<panes, labelled, session, pump>>
others  == <<run, sender, copy>>
ghosts  == <<given, orphaned, again>>
bounds  == <<faults, panel, sends>>
vars    == <<store, tmux, call, others, ghosts, bounds>>

Ended == {"ok", "failed", "threw", "lost"}
InProgress(c) == call[c].pc \notin {"idle"} \cup Ended

Has == team /\ member # None
Fresh == lease # None /\ lease.fresh

TypeOK ==
  /\ team \in BOOLEAN
  /\ member \in {None} \cup Members
  /\ effect \in [status : {"none", "pending", "retry", "done", "failed"},
                 task : Calls \cup {None}, by : Runners \cup {None}]
  /\ run \in [Runners -> {None} \cup Runs]
  /\ request \in [Slots -> {None} \cup Requests]
  /\ lease \in {None} \cup Leases
  /\ panes \subseteq Calls /\ labelled \subseteq Calls
  /\ session \in [Calls -> {"off", "booting", "attached", "unbound", "bridged", "stopping",
                            "ended"}]
  /\ pump \in [Calls -> {None} \cup Pumps]
  /\ call \in [Calls -> [pc : {"idle", "reserved", "laying", "booting", "waiting", "asked",
                               "running", "committing"} \cup Ended, task : Calls \cup {None}]]
  /\ sender \in {None} \cup Senders
  /\ copy \in {None} \cup Copies
  /\ given \in [Calls -> Nat]
  /\ orphaned \subseteq Calls /\ again \subseteq Calls
  /\ ~team => member = None
  /\ effect.status \in {"pending", "retry"} => effect.task # None
  /\ \A c \in panes : session[c] \notin {"off", "stopping"}
  /\ faults \in 0..MaxFaults /\ panel \in 0..MaxPanel /\ sends \in 0..MaxSends

NoEffect == [status |-> "none", task |-> None, by |-> None]

Init ==
  /\ team = TRUE /\ member = None
  /\ effect = NoEffect
  /\ run = [x \in Runners |-> None]
  /\ request = [k \in Slots |-> None] /\ lease = None
  /\ panes = {} /\ labelled = {}
  /\ session = [c \in Calls |-> "off"]
  /\ pump = [c \in Calls |-> None]
  /\ call = [c \in Calls |-> [pc |-> "idle", task |-> None]]
  /\ sender = None /\ copy = None
  /\ given = [c \in Calls |-> 0]
  /\ orphaned = {} /\ again = {}
  /\ faults = 0 /\ panel = 0 /\ sends = 0

Eventful == faults + panel + sends >= MaxEvents

Fault ==
  /\ faults < MaxFaults /\ ~Eventful
  /\ faults' = faults + 1
  /\ UNCHANGED <<panel, sends>>

FaultIf(condition) == IF condition THEN Fault ELSE UNCHANGED bounds

Panel ==
  /\ panel < MaxPanel /\ ~Eventful
  /\ panel' = panel + 1
  /\ UNCHANGED <<faults, sends>>

GoTo(c, pc) == call' = [call EXCEPT ![c].pc = pc]

WithBoot(task) == IF member = None THEN None ELSE [member EXCEPT !.boot = task]

-----------------------------------------------------------------------------
(* Panes end with the process in them.  A session whose bridge runs still  *)
(* has its session_shutdown hook to come, or dies without it.              *)

Kill(gone) ==
  /\ panes' = panes \ gone
  /\ session' = [c \in Calls |->
       IF c \notin gone \cap panes THEN session[c]
       ELSE IF session[c] = "bridged" THEN "stopping" ELSE "ended"]
  /\ UNCHANGED pump

PaneDies(c) ==
  /\ c \in panes
  /\ Fault
  /\ Kill({c})
  /\ UNCHANGED <<store, labelled, call, others, ghosts>>

-----------------------------------------------------------------------------
(* agentteam_spawn.                                                        *)

Reserved(c, boot) == [by |-> c, pane |-> None, boot |-> boot]

(* (An operator named ...Mutant... is a plausible bug in the operator      *)
(* after it; it is used only to see that a property notices.)              *)
ReserveMutantUnchecked(c, task, boot) ==
  /\ call[c].pc = "idle" /\ team
  /\ member' = Reserved(c, boot)
  /\ call' = [call EXCEPT ![c] = [pc |-> "reserved", task |-> task]]
  /\ UNCHANGED <<team, effect, request, lease, tmux, others, ghosts, bounds>>

(* A task that is to wait for something is the bootPrompt from the start.  *)
Reserve(c, task, boot) ==
  /\ call[c].pc = "idle"
  /\ team /\ member = None
  /\ member' = Reserved(c, boot)
  /\ call' = [call EXCEPT ![c] = [pc |-> "reserved", task |-> task]]
  /\ UNCHANGED <<team, effect, request, lease, tmux, others, ghosts, bounds>>

(* The member goes, whoever reserved it, and the pane if the call knows it. *)
RollBackMutantNoKill(c, known) ==
  /\ member' = None
  /\ orphaned' = IF member # None /\ member.by # c THEN orphaned \cup {member.by} ELSE orphaned
  /\ GoTo(c, "failed")
  /\ UNCHANGED <<panes, session, pump>>
  /\ UNCHANGED <<team, effect, request, lease, others, given, again>>

RollBack(c, known) ==
  /\ member' = None
  /\ orphaned' = IF member # None /\ member.by # c THEN orphaned \cup {member.by} ELSE orphaned
  /\ GoTo(c, "failed")
  /\ Kill(known)
  /\ UNCHANGED <<team, effect, request, lease, others, given, again>>

CreateFails(c) ==
  /\ call[c].pc = "reserved"
  /\ Fault
  /\ RollBack(c, {})
  /\ UNCHANGED labelled

SplitPane(c) ==
  /\ call[c].pc = "reserved"
  /\ panes' = panes \cup {c}
  /\ session' = [session EXCEPT ![c] = "booting"]
  /\ GoTo(c, "laying")
  /\ UNCHANGED <<store, labelled, pump, others, ghosts, bounds>>

(* A tmux command after the split fails: createTeammatePane throws, and    *)
(* the pane it made stays, with no label and unknown to the roll back.     *)
LayoutFails(c) ==
  /\ call[c].pc = "laying"
  /\ Fault
  /\ member' = None
  /\ orphaned' = orphaned \cup {c}
                 \cup IF member # None THEN {member.by} ELSE {}
  /\ GoTo(c, "failed")
  /\ UNCHANGED <<team, effect, request, lease, tmux, others, given, again>>

(* commitWorkerSpawnState throws when the team is gone, and the tool call  *)
(* ends there.                                                             *)
Throws(c) ==
  /\ GoTo(c, "threw")
  /\ orphaned' = orphaned \cup {c}
  /\ UNCHANGED <<store, panes, session, pump, others, given, again, bounds>>

(* The label, then the pane's binding in the member, if there is a member. *)
Bind(c) ==
  /\ call[c].pc = "laying"
  /\ labelled' = labelled \cup {c}
  /\ \/ /\ ~team
        /\ Throws(c)
     \/ /\ team /\ c \notin panes
        /\ RollBack(c, {c})
        /\ UNCHANGED bounds
     \/ /\ team /\ c \in panes
        /\ member' = IF member = None THEN None ELSE [member EXCEPT !.pane = c]
        /\ orphaned' = IF member = None THEN orphaned \cup {c}
                       ELSE orphaned \cup ({member.pane} \ {None, c})
        /\ GoTo(c, "booting")
        /\ UNCHANGED <<team, effect, request, lease, panes, session, pump, others, given, again,
                       bounds>>

(* waitForPaneAppStart asks tmux for 20 s what runs in the pane.           *)
AppStarted(c) ==
  /\ call[c].pc = "booting" /\ c \in panes
  /\ GoTo(c, "waiting")
  /\ UNCHANGED <<store, tmux, others, ghosts, bounds>>

AppTimesOut(c) ==
  /\ call[c].pc = "booting"
  /\ FaultIf(c \in panes)
  /\ RollBack(c, {c})
  /\ UNCHANGED labelled

-----------------------------------------------------------------------------
(* The first task, through the outbox.                                     *)

Waiting == effect.status \in {"pending", "retry"}

(* The wait for the bridge's lease ends, ready or after 2 s: that decides  *)
(* the member's status only.  The key of the effect has no more in it than *)
(* the team and the name; a finished effect is left as it is, and one that *)
(* waits keeps its claim and its backoff.                                  *)
RequestTask(c) ==
  /\ call[c].pc = "waiting" /\ call[c].task # None
  /\ effect' = IF effect.status = "none" THEN [NoEffect EXCEPT !.status = "pending", !.task = c]
               ELSE IF Waiting THEN [effect EXCEPT !.task = c] ELSE effect
  /\ GoTo(c, "asked")
  /\ UNCHANGED <<team, member, request, lease, tmux, others, ghosts, bounds>>

NoTask(c) ==
  /\ call[c].pc = "waiting" /\ call[c].task = None
  /\ GoTo(c, "committing")
  /\ UNCHANGED <<store, tmux, others, ghosts, bounds>>

(* A runner claims the effect.  With no team requestWorkerDelivery throws, *)
(* with no member it reports a failure.                                    *)
ClaimEffect(x) ==
  /\ Waiting /\ effect.by = None /\ run[x] = None
  /\ effect' = [effect EXCEPT !.by = x]
  /\ run' = [run EXCEPT ![x] = [task |-> effect.task, pc |-> IF Has THEN "boot" ELSE "fail"]]
  /\ UNCHANGED <<team, member, request, lease, tmux, sender, copy, ghosts, bounds>>

(* runSelectedOutboxEffects: nothing is run of an effect that is over,     *)
(* claimed, or waits for its next attempt.                                 *)
RunInitial(c) ==
  /\ call[c].pc = "asked"
  /\ \/ ClaimEffect(c) /\ GoTo(c, "running")
     \/ /\ ~Waiting \/ effect.by # None \/ effect.status = "retry"
        /\ GoTo(c, "committing")
        /\ UNCHANGED <<store, tmux, others, ghosts, bounds>>

Maintenance == ClaimEffect(Maintainer) /\ UNCHANGED call

(* requestWorkerDelivery with the effect's task: the member's bootPrompt,  *)
(* then a request, then the bootPrompt again unless the bridge is there.   *)
(* The mark is taken with the last of these: a crash between them leaves   *)
(* the effect to be run again, as a crash before them does.                *)
Running(x, pc) == run[x] # None /\ run[x].pc = pc
RunTo(x, pc) == run' = [run EXCEPT ![x].pc = pc]

RunSetsBoot(x) ==
  /\ Running(x, "boot")
  /\ member' = WithBoot(run[x].task)
  /\ RunTo(x, "request")
  /\ UNCHANGED <<team, effect, request, lease, tmux, call, sender, copy, ghosts, bounds>>

Pending == {k \in Slots : request[k] # None /\ request[k].pending}

(* createOrRefreshDeliveryRequest joins the oldest pending request.        *)
Ask(boot) ==
  \/ /\ ~team
     /\ UNCHANGED request
  \/ /\ team /\ Pending = {}
     /\ request' = [request EXCEPT ![None] = [boot |-> boot, pending |-> TRUE]]
  \/ /\ team
     /\ \E k \in Pending :
          request' = IF boot = None THEN request ELSE [request EXCEPT ![k].boot = boot]

RunRequests(x) ==
  /\ Running(x, "request")
  /\ Ask(run[x].task)
  /\ RunTo(x, "again")
  /\ UNCHANGED <<team, member, effect, lease, tmux, call, sender, copy, ghosts, bounds>>

(* The mark needs the claim; a failed attempt is not the last if it is the *)
(* first.                                                                  *)
RunEnds(x) ==
  /\ \/ /\ Running(x, "again")
        /\ \/ member' = WithBoot(run[x].task)
           \/ Fresh /\ UNCHANGED member
     \/ Running(x, "fail") /\ UNCHANGED member
  /\ \E status \in IF Running(x, "again") THEN {"done"}
                   ELSE IF effect.status = "retry" THEN {"retry", "failed"} ELSE {"retry"} :
       effect' = IF Waiting /\ effect.by = x
                 THEN [effect EXCEPT !.status = status, !.by = None] ELSE effect
  /\ run' = [run EXCEPT ![x] = None]
  /\ IF x \in Calls THEN GoTo(x, "committing") ELSE UNCHANGED call
  /\ UNCHANGED <<team, request, lease, tmux, sender, copy, ghosts, bounds>>

(* The claim of a runner that is gone, or was asleep, lapses.              *)
EffectClaimLapses ==
  /\ effect.by # None
  /\ FaultIf(run[effect.by] # None)
  /\ effect' = [effect EXCEPT !.by = None]
  /\ UNCHANGED <<team, member, request, lease, tmux, call, others, ghosts>>

(* The last commit: the status, and once more the bootPrompt.              *)
Commit(c) ==
  /\ call[c].pc = "committing"
  /\ \/ /\ ~team
        /\ Throws(c)
     \/ /\ team
        /\ member' = IF call[c].task = None THEN member ELSE WithBoot(call[c].task)
        /\ GoTo(c, "ok")
        /\ UNCHANGED <<team, effect, request, lease, panes, session, pump, others, ghosts, bounds>>
  /\ UNCHANGED labelled

LeaderCrash ==
  /\ \E c \in Calls : InProgress(c)
  /\ Fault
  /\ call' = [c \in Calls |-> IF InProgress(c) THEN [call[c] EXCEPT !.pc = "lost"] ELSE call[c]]
  /\ orphaned' = orphaned \cup {c \in Calls : InProgress(c)}
  /\ run' = [x \in Runners |-> IF x \in Calls THEN None ELSE run[x]]
  /\ sender' = None
  /\ UNCHANGED <<store, tmux, copy, given, again>>

MaintainerDies ==
  /\ run[Maintainer] # None
  /\ Fault
  /\ run' = [run EXCEPT ![Maintainer] = None]
  /\ UNCHANGED <<store, tmux, call, sender, copy, ghosts>>

-----------------------------------------------------------------------------
(* The worker's session: session_start binds it to the member and, after   *)
(* outbox maintenance, starts its bridge.                                  *)

Attach(c) ==
  /\ c \in panes /\ session[c] = "booting"
  /\ session' = [session EXCEPT ![c] = IF Has THEN "attached" ELSE "unbound"]
  /\ UNCHANGED <<store, panes, labelled, pump, call, others, ghosts, bounds>>

StartBridge(c) ==
  /\ c \in panes /\ session[c] = "attached"
  /\ session' = [session EXCEPT ![c] = IF Has THEN "bridged" ELSE "unbound"]
  /\ lease' = IF Has THEN [of |-> c, fresh |-> TRUE] ELSE lease
  /\ UNCHANGED <<team, member, effect, request, panes, labelled, pump, call, others, ghosts, bounds>>

-----------------------------------------------------------------------------
(* The pump of any bridge of the name: the lease it looks at is the name's. *)

Pumping(c, pc) == pump[c] # None /\ pump[c].pc = pc
PumpTo(c, pc)  == pump' = [pump EXCEPT ![c].pc = pc]
PumpIdle(c)    == pump' = [pump EXCEPT ![c] = None]

Claimed(c) == request[c] # None /\ ~request[c].pending

(* The tasks of prompts that were sent, and not recorded yet.              *)
Sent(c)  == IF Pumping(c, "sending") \/ Pumping(c, "record") THEN pump[c].tasks ELSE {}
ReadLate == {t \in Calls : member # None /\ member.boot = t /\ \E c \in Calls : t \in Sent(c)}

(* A prompt has the task of a pending request, and the member's bootPrompt. *)
PumpReads(c) ==
  /\ c \in panes /\ session[c] = "bridged" /\ pump[c] = None
  /\ Has /\ Fresh /\ Pending # {}
  /\ LET asked == {request[k].boot : k \in Pending} \ {None}
     IN  \E task \in IF asked = {} THEN {None} ELSE asked :
           pump' = [pump EXCEPT ![c] =
                      [pc |-> "claim", tasks |-> {task, member.boot} \ {None}]]
  /\ again' = again \cup ReadLate
  /\ UNCHANGED <<store, panes, labelled, session, call, others, given, orphaned, bounds>>

(* What may still bring a task of a prompt for which request k is claimed. *)
ToCome(c, k, task) ==
  \/ InProgress(task)
  \/ Waiting /\ effect.task = task
  \/ \E x \in Runners : run[x] # None /\ run[x].task = task
  \/ sender # None /\ sender.boot = task
  \/ copy # None /\ copy.member # None /\ copy.member.boot = task
  \/ \E j \in Slots \ {k} : request[j] # None /\ request[j].boot = task
  \/ \E d \in Calls \ {c} : pump[d] # None /\ task \in pump[d].tasks

(* The oldest pending request is claimed, be it by now another than those  *)
(* the prompt was made of, and the prompt sent.  (Between the two nothing  *)
(* is read or written but the lease.)                                      *)
Submit(c) ==
  /\ session[c] = "bridged" /\ Pumping(c, "claim")
  /\ \/ /\ Pending = {}
        /\ PumpIdle(c)
        /\ UNCHANGED <<request, given, again>>
     \/ \E k \in Pending :
        /\ request' = [request EXCEPT ![k] = request[c],
                                      ![c] = [boot |-> request[k].boot, pending |-> FALSE]]
        /\ given' = [t \in Calls |-> IF t \in pump[c].tasks THEN given[t] + 1 ELSE given[t]]
        /\ again' = again \cup {t \in pump[c].tasks : ToCome(c, k, t)}
        /\ PumpTo(c, "sending")
  /\ UNCHANGED <<team, member, effect, lease, panes, labelled, session, call, others, orphaned,
                 bounds>>

Alive(c) == session[c] \in {"bridged", "stopping"}

(* markDeliverySubmitted is refused when the claim lapsed, and the         *)
(* bootPrompt stays.                                                       *)
MarkSubmitted(c) ==
  /\ Alive(c) /\ Pumping(c, "sending")
  /\ IF Claimed(c)
       THEN request' = [request EXCEPT ![c] = None] /\ PumpTo(c, "record") /\ UNCHANGED again
       ELSE PumpIdle(c) /\ again' = again \cup Sent(c) /\ UNCHANGED request
  /\ UNCHANGED <<team, member, effect, lease, panes, labelled, session, call, others, given,
                 orphaned, bounds>>

RecordSubmittedMutantKeepsBoot(c) ==
  /\ Alive(c) /\ Pumping(c, "record")
  /\ PumpIdle(c)
  /\ UNCHANGED <<store, panes, labelled, session, call, others, ghosts, bounds>>

RecordSubmitted(c) ==
  /\ Alive(c) /\ Pumping(c, "record")
  /\ member' = WithBoot(None)
  /\ PumpIdle(c)
  /\ UNCHANGED <<team, effect, request, lease, panes, labelled, session, call, others, ghosts,
                 bounds>>

(* The session's API rejects, with the prompt taken.                       *)
SendThrows(c) ==
  /\ Alive(c) /\ Pumping(c, "sending")
  /\ Fault
  /\ request' = IF Claimed(c) THEN [request EXCEPT ![c] = None] ELSE request
  /\ PumpIdle(c)
  /\ again' = again \cup Sent(c)
  /\ UNCHANGED <<team, member, effect, lease, panes, labelled, session, call, others, given,
                 orphaned>>

(* A claim lapses after 30 s, a request expires after five minutes.        *)
ClaimLapses(c) ==
  /\ Claimed(c)
  /\ FaultIf(Pumping(c, "sending"))
  /\ request' = [request EXCEPT ![c].pending = TRUE]
  /\ again' = again \cup Sent(c)
  /\ UNCHANGED <<team, member, effect, lease, tmux, call, others, given, orphaned>>

Expires(k) ==
  /\ request[k] # None
  /\ Fault
  /\ request' = [request EXCEPT ![k] = None]
  /\ UNCHANGED <<team, member, effect, lease, tmux, call, others, ghosts>>

(* session_shutdown stops the bridge, which removes the name's lease.      *)
SessionEnds(c) ==
  /\ session[c] = "stopping"
  /\ session' = [session EXCEPT ![c] = "ended"]
  /\ PumpIdle(c)
  /\ again' = again \cup Sent(c)
  /\ UNCHANGED <<panes, labelled, call, others, given, orphaned, bounds>>

Stop(c) ==
  /\ SessionEnds(c)
  /\ lease' = None
  /\ UNCHANGED <<team, member, effect, request>>

Dies(c) == SessionEnds(c) /\ UNCHANGED store

(* A lease lapses when no bridge renews it, and when its bridge sleeps.    *)
LeaseLapses ==
  /\ Fresh
  /\ FaultIf(session[lease.of] = "bridged")
  /\ lease' = [lease EXCEPT !.fresh = FALSE]
  /\ UNCHANGED <<team, member, effect, request, tmux, call, others, ghosts>>

-----------------------------------------------------------------------------
(* A message to the worker: requestWorkerDelivery reads the member, then   *)
(* requests a delivery with the bootPrompt it read, or joins a pending one. *)

SendReads ==
  /\ Has /\ sender = None
  /\ sends < MaxSends /\ ~Eventful
  /\ sends' = sends + 1
  /\ sender' = [boot |-> member.boot]
  /\ again' = again \cup ReadLate
  /\ UNCHANGED <<store, tmux, call, run, copy, given, orphaned, faults, panel>>

SendRequests ==
  /\ sender # None
  /\ sender' = None
  /\ Ask(sender.boot)
  /\ UNCHANGED <<team, member, effect, lease, tmux, call, run, copy, ghosts, bounds>>

-----------------------------------------------------------------------------
(* Any session that looks at the team reads it, asks tmux for its panes    *)
(* and, when one has moved or gone, writes back what it read.              *)

Healed == IF member # None /\ member.pane \notin panes THEN [member EXCEPT !.pane = None] ELSE member

ReadTeam ==
  /\ team /\ copy = None
  /\ FaultIf(Healed = member)
  /\ copy' = [member |-> Healed]
  /\ again' = again \cup ReadLate
  /\ UNCHANGED <<store, tmux, call, run, sender, given, orphaned>>

(* Whom the copy takes the member, or a living pane, from.                 *)
Undone ==
  IF \/ member = None
     \/ /\ copy.member # None /\ copy.member.by = member.by
        /\ copy.member.pane = member.pane \/ member.pane \notin panes
  THEN {} ELSE {member.by, member.pane} \ {None}

SaveTeam ==
  /\ copy # None
  /\ copy' = None
  /\ member' = IF team THEN copy.member ELSE member
  /\ orphaned' = IF team THEN orphaned \cup Undone ELSE orphaned
  /\ UNCHANGED <<team, effect, request, lease, tmux, call, run, sender, given, again, bounds>>

-----------------------------------------------------------------------------
(* The panel.                                                              *)

RemoveMember ==
  /\ Has /\ Panel
  /\ Kill({member.pane})
  /\ member' = None
  /\ orphaned' = IF InProgress(member.by) THEN orphaned \cup {member.by} ELSE orphaned
  /\ UNCHANGED <<team, effect, request, lease, labelled, call, others, given, again>>

Known == IF Has THEN {member.pane} ELSE {}

(* The team's directory goes with all its files.                           *)
Deleted ==
  /\ team' = FALSE /\ member' = None
  /\ effect' = NoEffect
  /\ request' = [k \in Slots |-> None] /\ lease' = None
  /\ orphaned' = IF Has /\ InProgress(member.by) THEN orphaned \cup {member.by} ELSE orphaned

DeleteSelectedTeam ==
  /\ team /\ Panel
  /\ Deleted
  /\ Kill(Known)
  /\ UNCHANGED <<labelled, call, others, given, again>>

CleanupAll ==
  /\ Panel
  /\ Deleted
  /\ Kill(Known \cup labelled)
  /\ UNCHANGED <<labelled, call, others, given, again>>

-----------------------------------------------------------------------------
(* From the end of its wait for the bridge to its last commit a call leaves *)
(* the leader's process to no other call.                                  *)
Holds(c) == call[c].pc \in {"asked", "running", "committing"}

SpawnStep(c) ==
  /\ \A d \in Calls \ {c} : ~Holds(d)
  /\ \/ \E task \in {c, None} : \E boot \in {task, None} : Reserve(c, task, boot)
     \/ CreateFails(c) \/ SplitPane(c) \/ LayoutFails(c) \/ Bind(c)
     \/ AppStarted(c) \/ AppTimesOut(c)
     \/ RequestTask(c) \/ NoTask(c) \/ RunInitial(c) \/ Commit(c)

RunStep(x) == RunSetsBoot(x) \/ RunRequests(x) \/ RunEnds(x)

SessionStep(c) ==
  \/ PaneDies(c) \/ Attach(c) \/ StartBridge(c) \/ Stop(c) \/ Dies(c)
  \/ PumpReads(c) \/ Submit(c) \/ MarkSubmitted(c) \/ RecordSubmitted(c) \/ SendThrows(c)
  \/ ClaimLapses(c)

Next ==
  \/ \E c \in Calls : SpawnStep(c) \/ SessionStep(c)
  \/ \E x \in Runners : RunStep(x)
  \/ \E k \in Slots : Expires(k)
  \/ Maintenance \/ EffectClaimLapses \/ MaintainerDies \/ LeaderCrash \/ LeaseLapses
  \/ SendReads \/ SendRequests \/ ReadTeam \/ SaveTeam
  \/ RemoveMember \/ DeleteSelectedTeam \/ CleanupAll

Spec == Init /\ [][Next]_vars

-----------------------------------------------------------------------------
(* A pane that no member names belongs to a spawn call that is not over,   *)
(* or its call lost its worker on the way: to a failing tmux command after *)
(* the split, to a crash of the leader, to the panel, to another call of   *)
(* the name that rolled it back or took its member, or to the save of an   *)
(* old copy of the team.                                                   *)
OrphanHasCause ==
  \A c \in panes : c \in Known \/ InProgress(c) \/ c \in orphaned

(* A call that ends well, and whose worker nobody took from it meanwhile,  *)
(* leaves the member it reserved, bound to its pane unless the pane died.  *)
SpawnedIsNamed ==
  [][\A c \in Calls \ orphaned' :
       call[c].pc # "ok" /\ call'[c].pc = "ok"
         => /\ member' # None /\ member'.by = c
            /\ member'.pane = c \/ c \notin panes']_vars

(* A task is given to a worker a second time only for a cause: when it was *)
(* given its spawn call had not made its last commit, its effect was not   *)
(* over or still run by somebody, another request had it, or a sender, the *)
(* pump of another session or a copy of the team had read it before; or,   *)
(* until the bootPrompt was cleared, one of these read it, the send threw, *)
(* the claim lapsed, or the session ended.                                 *)
GivenTwiceForCause ==
  \A c \in Calls : given[c] > 1 => c \in again

(* README.md:394: "Passing `task` to `agentteam_spawn` starts work         *)
(* immediately": a call that ends well, with no other call of the name     *)
(* under way and no one having taken its worker from it, has its task in   *)
(* the outbox, in a delivery request, or delivered.                        *)
InitialTaskIsAsked ==
  [][\A c \in Calls \ orphaned' :
       call[c].pc # "ok" /\ call'[c].pc = "ok" /\ call[c].task = c
       /\ (\A d \in Calls \ {c} : ~InProgress(d))
       => \/ effect'.status \in {"pending", "retry"} /\ effect'.task = c
          \/ \E k \in Slots : request'[k] # None /\ request'[k].boot = c
          \/ given'[c] > 0]_vars
=============================================================================
