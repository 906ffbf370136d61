---------------------------- MODULE LeaderSignals ----------------------------
(***************************************************************************)
(* How unread mail reaches the leader: a sync walks the unread messages of *)
(* the leader's mailbox and, for each, projects it into the transcript     *)
(* (once, by a claim in the leaderProjection store) and then asks for the  *)
(* leader's attention (once, by a claim in the leaderAttention store, at   *)
(* most every 30 seconds of a process).                                    *)
(*                                                                         *)
(* Several processes may run a session that is bound to the leader.  A     *)
(* sync is one synchronous call, so it interleaves with other processes    *)
(* only; each locked update of a store is one step.  Messages are numbered *)
(* by their place in the mailbox.  Time is abstracted: `lapsed' says that  *)
(* claimExpiresAt <= now, `throttled' that the process sent attention less *)
(* than LEADER_ATTENTION_THROTTLE_MS ago.                                  *)
(***************************************************************************)
EXTENDS Naturals, FiniteSets

CONSTANTS Processes,      \* processes whose session is the leader's
          MaxMessages,    \* how many messages are ever sent (a bound)
          WantAttention,  \* the questions and reports among them
          MaxFaults       \* crashes, stalls and throws (a bound)

Messages == 1 .. MaxMessages

ASSUME SignalsAssumption ==
  /\ MaxMessages \in Nat \ {0}
  /\ WantAttention \subseteq Messages
  /\ MaxFaults \in Nat

VARIABLES
  mail,       \* mail[m]: "absent", "unread" or "read" in the leader's mailbox
  projection, \* the leaderProjection section of runtime.json
  attention,  \* the leaderAttention section of runtime.json
  pc,         \* pc[p]: "down", "idle" or the step of the sync p is at
  todo,       \* todo[p]: the unread messages its sync has yet to do
  seen,       \* seen[p]: projectedMailboxIds, lost with the process
  throttled,  \* throttled[p]: LAST_ATTENTION_BY_TEAM, lost with the process
  shown,      \* history: how often m was sent to the transcript
  woken,      \* history: how often m woke the leader
  excuses,    \* history: lapses of claims of m, and marks of m that threw
  faults      \* faults so far

vars == <<mail, projection, attention, pc, todo, seen, throttled,
          shown, woken, excuses, faults>>

stores   == <<projection, attention>>
history  == <<shown, woken, excuses>>

ProjectionStatus == {"none", "projecting", "projected", "failed"}
AttentionStatus  == {"none", "sending", "sent", "failed", "skipped"}

Entry(status) == [status |-> status, lapsed |-> FALSE]

\* The steps of a sync after which the process holds a claim on its message.
HoldsProjection == {"project", "markProjected", "markProjectionFailed"}
HoldsAttention  == {"wake", "markSent", "markSkipped", "markAttentionFailed"}
Steps == {"look", "claimProjection", "claimAttention"}
           \cup HoldsProjection \cup HoldsAttention

TypeOK ==
  /\ mail \in [Messages -> {"absent", "unread", "read"}]
  /\ projection \in [Messages -> [status: ProjectionStatus, lapsed: BOOLEAN]]
  /\ attention \in [Messages -> [status: AttentionStatus, lapsed: BOOLEAN]]
  /\ pc \in [Processes -> {"down", "idle"} \cup Steps]
  /\ todo \in [Processes -> SUBSET Messages]
  /\ \A p \in Processes : pc[p] \in Steps <=> todo[p] # {}
  /\ seen \in [Processes -> SUBSET Messages]
  /\ throttled \in [Processes -> BOOLEAN]
  /\ shown \in [Messages -> Nat] /\ woken \in [Messages -> Nat]
  /\ excuses \in [Messages -> Nat]
  /\ faults \in 0 .. MaxFaults

Init ==
  /\ mail = [m \in Messages |-> "absent"]
  /\ projection = [m \in Messages |-> Entry("none")]
  /\ attention = [m \in Messages |-> Entry("none")]
  /\ pc = [p \in Processes |-> "down"]
  /\ todo = [p \in Processes |-> {}]
  /\ seen = [p \in Processes |-> {}]
  /\ throttled = [p \in Processes |-> FALSE]
  /\ shown = [m \in Messages |-> 0]
  /\ woken = [m \in Messages |-> 0]
  /\ excuses = [m \in Messages |-> 0]
  /\ faults = 0

Unread == {m \in Messages : mail[m] = "unread"}

\* The message a sync is at: unread messages are taken in mailbox order.
Item(p) == CHOOSE m \in todo[p] : \A n \in todo[p] : m <= n

Fault == faults < MaxFaults /\ faults' = faults + 1

-----------------------------------------------------------------------------
(* The mailbox. *)

\* A teammate's message is appended (pushMailboxMessage).
PushMailboxMessage(m) ==
  /\ mail[m] = "absent"
  /\ \A n \in Messages : n < m => mail[n] # "absent"
  /\ mail' = [mail EXCEPT ![m] = "unread"]
  /\ UNCHANGED <<stores, pc, todo, seen, throttled, history, faults>>

\* The leader receives a message with markRead.
Receive(p, m) ==
  /\ pc[p] = "idle" /\ mail[m] = "unread"
  /\ mail' = [mail EXCEPT ![m] = "read"]
  /\ UNCHANGED <<stores, pc, todo, seen, throttled, history, faults>>

-----------------------------------------------------------------------------
(* A sync begins: runMailboxSync with the unread messages of this moment. *)

BeginSync(p) ==
  /\ todo' = [todo EXCEPT ![p] = Unread]
  /\ pc' = [pc EXCEPT ![p] = IF Unread = {} THEN "idle" ELSE "look"]

\* session_start
SessionStart(p) ==
  /\ pc[p] = "down"
  /\ BeginSync(p)
  /\ UNCHANGED <<mail, stores, seen, throttled, history, faults>>

\* tool_result, message_end, agent_end, input that speaks of the team, or a
\* change of the mailbox file that the watcher saw.
HookSync(p) ==
  /\ pc[p] = "idle"
  /\ BeginSync(p)
  /\ UNCHANGED <<mail, stores, seen, throttled, history, faults>>

\* The panel's sync: resetMailboxSyncKey, then a sync.
PanelSync(p) ==
  /\ pc[p] = "idle"
  /\ seen' = [seen EXCEPT ![p] = {}]
  /\ throttled' = [throttled EXCEPT ![p] = FALSE]
  /\ BeginSync(p)
  /\ UNCHANGED <<mail, stores, history, faults>>

-----------------------------------------------------------------------------
(* One message of a sync. *)

GoTo(p, step) == pc' = [pc EXCEPT ![p] = step] /\ UNCHANGED todo

\* (An operator named ...Mutant... is a plausible bug in the operator after it;
\* it is used only to see that a property notices.)
\* On to the next message, or the end of the sync.
NextItem(p) ==
  LET rest == todo[p] \ {Item(p)}
  IN /\ todo' = [todo EXCEPT ![p] = rest]
     /\ pc' = [pc EXCEPT ![p] = IF rest = {} THEN "idle" ELSE "look"]

AfterProjectionMutantFailedToo(p, m) == m \in seen[p] \/ projection[m].status # "none"

\* isMailboxProjectionComplete: known to this process, or recorded projected.
AfterProjection(p, m) == m \in seen[p] \/ projection[m].status = "projected"

Look(p) ==
  /\ pc[p] = "look"
  /\ IF AfterProjection(p, Item(p))
       THEN seen' = [seen EXCEPT ![p] = @ \cup {Item(p)}] /\ GoTo(p, "claimAttention")
       ELSE GoTo(p, "claimProjection") /\ UNCHANGED seen
  /\ UNCHANGED <<mail, stores, throttled, history, faults>>

ProjectionFreeMutantAnyClaim(m) == projection[m].status # "projected"

\* claimLeaderProjection refuses what is projected and what is validly claimed.
ProjectionFree(m) ==
  /\ projection[m].status # "projected"
  /\ projection[m].status = "projecting" => projection[m].lapsed

ClaimLeaderProjection(p) ==
  LET m == Item(p)
  IN /\ pc[p] = "claimProjection"
     /\ IF ProjectionFree(m)
          THEN projection' = [projection EXCEPT ![m] = Entry("projecting")] /\ GoTo(p, "project")
          ELSE NextItem(p) /\ UNCHANGED projection
     /\ UNCHANGED <<mail, attention, seen, throttled, history, faults>>

\* nativeSender.sendMessage puts the message into the transcript, without a turn.
Project(p) ==
  /\ pc[p] = "project"
  /\ shown' = [shown EXCEPT ![Item(p)] = @ + 1]
  /\ GoTo(p, "markProjected")
  /\ UNCHANGED <<mail, stores, seen, throttled, woken, excuses, faults>>

\* It throws.
ProjectThrows(p) ==
  /\ pc[p] = "project" /\ Fault
  /\ GoTo(p, "markProjectionFailed")
  /\ UNCHANGED <<mail, stores, seen, throttled, history>>

MarkLeaderProjectionProjected(p) ==
  /\ pc[p] = "markProjected"
  /\ projection' = [projection EXCEPT ![Item(p)] = Entry("projected")]
  /\ seen' = [seen EXCEPT ![p] = @ \cup {Item(p)}]
  /\ GoTo(p, "claimAttention")
  /\ UNCHANGED <<mail, attention, throttled, history, faults>>

\* Marking throws: the catch takes it for a failed projection.
MarkProjectedThrows(p) ==
  /\ pc[p] = "markProjected" /\ Fault
  /\ excuses' = [excuses EXCEPT ![Item(p)] = @ + 1]
  /\ GoTo(p, "markProjectionFailed")
  /\ UNCHANGED <<mail, stores, seen, throttled, shown, woken>>

\* markLeaderProjectionFailed: whoever holds the claim by now.
MarkLeaderProjectionFailed(p) ==
  /\ pc[p] = "markProjectionFailed"
  /\ projection' = [projection EXCEPT ![Item(p)] = Entry("failed")]
  /\ NextItem(p)
  /\ UNCHANGED <<mail, attention, seen, throttled, history, faults>>

AttentionFreeMutantFailedIsFinal(m) == attention[m].status = "none"

\* claimLeaderAttention refuses what is settled and what is validly claimed.
AttentionFree(m) ==
  /\ attention[m].status \notin {"sent", "skipped"}
  /\ attention[m].status = "sending" => attention[m].lapsed

\* requestLeaderAttentionForProjectedMessage up to its claim.  (It looks whether
\* the entry is settled before it claims; the claim looks again.)
ClaimLeaderAttention(p) ==
  LET m == Item(p)
  IN /\ pc[p] = "claimAttention"
     /\ IF m \in WantAttention /\ AttentionFree(m)
          THEN attention' = [attention EXCEPT ![m] = Entry("sending")] /\ GoTo(p, "wake")
          ELSE NextItem(p) /\ UNCHANGED attention
     /\ UNCHANGED <<mail, projection, seen, throttled, history, faults>>

\* sendLeaderAttentionMessage: a turn of the leader, and the throttle is set.
Wake(p) ==
  /\ pc[p] = "wake" /\ ~throttled[p]
  /\ woken' = [woken EXCEPT ![Item(p)] = @ + 1]
  /\ throttled' = [throttled EXCEPT ![p] = TRUE]
  /\ GoTo(p, "markSent")
  /\ UNCHANGED <<mail, stores, seen, shown, excuses, faults>>

\* sendMessage throws: the throttle is not set.
WakeThrows(p) ==
  /\ pc[p] = "wake" /\ ~throttled[p] /\ Fault
  /\ GoTo(p, "markAttentionFailed")
  /\ UNCHANGED <<mail, stores, seen, throttled, history>>

\* shouldRequestLeaderAttention says no: this process woke the leader recently.
WakeThrottled(p) ==
  /\ pc[p] = "wake" /\ throttled[p]
  /\ GoTo(p, "markSkipped")
  /\ UNCHANGED <<mail, stores, seen, throttled, history, faults>>

\* What a mark writes; none checks who holds the claim by now.
MarkedAs == [markSent |-> "sent", markSkipped |-> "skipped", markAttentionFailed |-> "failed"]

MarkLeaderAttention(p) ==
  /\ pc[p] \in DOMAIN MarkedAs
  /\ attention' = [attention EXCEPT ![Item(p)] = Entry(MarkedAs[pc[p]])]
  /\ NextItem(p)
  /\ UNCHANGED <<mail, projection, seen, throttled, history, faults>>

-----------------------------------------------------------------------------
(* Faults, and time. *)

\* A locked update throws outside any try: the rest of the sync is given up.
StoreThrows(p) ==
  /\ pc[p] \in {"claimProjection", "markProjectionFailed", "claimAttention"} \cup DOMAIN MarkedAs
  /\ Fault
  /\ pc' = [pc EXCEPT ![p] = "idle"]
  /\ todo' = [todo EXCEPT ![p] = {}]
  /\ UNCHANGED <<mail, stores, seen, throttled, history>>

Gone(p) ==
  /\ pc' = [pc EXCEPT ![p] = "down"]
  /\ todo' = [todo EXCEPT ![p] = {}]
  /\ seen' = [seen EXCEPT ![p] = {}]
  /\ throttled' = [throttled EXCEPT ![p] = FALSE]
  /\ UNCHANGED <<mail, stores, history>>

\* session_shutdown, and the end of the process.
SessionShutdown(p) == pc[p] = "idle" /\ Gone(p) /\ UNCHANGED faults

Crash(p) == pc[p] \in Steps /\ Fault /\ Gone(p)

Held(m, steps) == \E p \in Processes : pc[p] \in steps /\ Item(p) = m

\* A claim is 30 seconds old: it was abandoned, or its holder stalled (a fault).
Lapses(m, steps) ==
  /\ excuses' = [excuses EXCEPT ![m] = @ + 1]
  /\ IF Held(m, steps) THEN Fault ELSE UNCHANGED faults
  /\ UNCHANGED <<mail, pc, todo, seen, throttled, shown, woken>>

ProjectionLapses(m) ==
  /\ projection[m].status = "projecting" /\ ~projection[m].lapsed
  /\ projection' = [projection EXCEPT ![m].lapsed = TRUE]
  /\ Lapses(m, HoldsProjection)
  /\ UNCHANGED attention

AttentionLapses(m) ==
  /\ attention[m].status = "sending" /\ ~attention[m].lapsed
  /\ attention' = [attention EXCEPT ![m].lapsed = TRUE]
  /\ Lapses(m, HoldsAttention)
  /\ UNCHANGED projection

\* LEADER_ATTENTION_THROTTLE_MS have passed since this process' last wake.
ThrottleEnds(p) ==
  /\ pc[p] # "down" /\ throttled[p]
  /\ throttled' = [throttled EXCEPT ![p] = FALSE]
  /\ UNCHANGED <<mail, stores, pc, todo, seen, history, faults>>

-----------------------------------------------------------------------------
SyncStep(p) ==
  \/ Look(p) \/ ClaimLeaderProjection(p)
  \/ Project(p) \/ MarkLeaderProjectionProjected(p) \/ MarkLeaderProjectionFailed(p)
  \/ ClaimLeaderAttention(p)
  \/ Wake(p) \/ WakeThrottled(p) \/ MarkLeaderAttention(p)

Next ==
  \/ \E m \in Messages : PushMailboxMessage(m) \/ ProjectionLapses(m) \/ AttentionLapses(m)
  \/ \E p \in Processes :
       \/ \E m \in Messages : Receive(p, m)
       \/ SessionStart(p) \/ HookSync(p) \/ PanelSync(p)
       \/ SyncStep(p)
       \/ ProjectThrows(p) \/ MarkProjectedThrows(p) \/ WakeThrows(p)
       \/ StoreThrows(p) \/ SessionShutdown(p) \/ Crash(p) \/ ThrottleEnds(p)

Spec == Init /\ [][Next]_vars

\* The session of a leader that runs goes on to have turns (HookSync), a sync
\* that began goes on, abandoned claims get old.  Nothing is assumed of sessions
\* being started or of panels.
Fairness ==
  /\ \A p \in Processes : WF_vars(SyncStep(p)) /\ WF_vars(HookSync(p))
  /\ \A m \in Messages :
       /\ WF_vars(ProjectionLapses(m) /\ ~Held(m, HoldsProjection))
       /\ WF_vars(AttentionLapses(m) /\ ~Held(m, HoldsAttention))

FairSpec == Spec /\ Fairness

-----------------------------------------------------------------------------
\* What the stores say took place, and in this order: a message recorded
\* projected is in the transcript, one recorded sent woke the leader, and the
\* leader is not asked to look at a message that the transcript does not show.
SignalsTellTheTruth ==
  \A m \in Messages :
    /\ projection[m].status = "projected" => shown[m] > 0
    /\ attention[m].status = "sent" => woken[m] > 0
    /\ attention[m].status # "none" => shown[m] > 0

\* Projection is idempotent and attention is bounded (README): of however many
\* processes that sync, one shows a message and one wakes for it, and again only
\* after its claim lapsed or its mark threw.
RepeatedOnlyForCause ==
  \A m \in Messages :
    /\ shown[m] <= 1 + excuses[m]
    /\ woken[m] <= 1 + excuses[m]

\* Whatever throws, stalls or crashes, what is unread is brought to the leader in
\* the end: it is shown and, if it wants attention, the leader was woken for it
\* or a throttle gave it up; or it was read, or no session of the leader runs.
Signalled(m) ==
  shown[m] > 0 /\ (m \in WantAttention => woken[m] > 0 \/ attention[m].status = "skipped")

MailIsSignalled ==
  \A m \in Messages :
    mail[m] = "unread" ~>
      Signalled(m) \/ mail[m] = "read" \/ \A p \in Processes : pc[p] = "down"
=============================================================================
