--------------------------- MODULE BridgeDelivery ---------------------------
(***************************************************************************)
(* Delivery of mailbox messages to one worker: the senders' processes put  *)
(* a message into the worker's mailbox and request its delivery            *)
(* (requestWorkerDelivery); the worker's process pumps requests into       *)
(* prompts of its own native session (pumpBridgeOnce) and follows the      *)
(* turns of that session through hooks (agent_start, agent_end).  They     *)
(* meet only in files: the mailbox, the delivery requests and the bridge   *)
(* lease in runtime.json, the member's status in team.json.                *)
(*                                                                         *)
(* A locked update of one file is one step.  What one process does between *)
(* two of them is not: another process may come in between.  Within the    *)
(* worker's process a hook or a timer runs only while the pump awaits the  *)
(* native session or does nothing.                                         *)
(***************************************************************************)
EXTENDS DeliveryStore, WorkerFsm

CONSTANTS Senders,        \* processes that send to this worker
          MaxIncarnations, \* starts of the worker's process (a bound)
          MaxFaults,      \* failed sends, slow sends, crashes (a bound)
          MaxTurns,       \* turns the user starts himself (a bound)
          RequestsExpire  \* may a request get old enough to expire?

ASSUME BoundsType ==
  MaxIncarnations \in Nat \ {0} /\ MaxFaults \in Nat /\ MaxTurns \in Nat
ASSUME RequestsExpireType == RequestsExpire \in BOOLEAN

VARIABLES
  store,     \* runtime.json, delivery: [Ids -> Request]
  lease,     \* runtime.json, bridge: the incarnation of the lease, 0 for none
  leaseFresh, \* is that lease unexpired?
  status,    \* team.json: the member's status
  inbox,     \* mailbox: the messages there
  delivered, \* mailbox: those with a deliveredAt
  read,      \* mailbox: those with a readAt
  worker,    \* the worker's process: which incarnation, and its hooks
  pump,      \* pumpBridgeOnceUnlocked, its local state
  agent,     \* the native session: the turn it is in
  sender,    \* [Senders -> the local state of requestWorkerDelivery]
  prompted,  \* history: [Messages -> how often it was in a prompt (2: or more)]
  trouble,   \* history: what happened that may cost or repeat a prompt
  faults,    \* how many faults happened
  turns      \* how many turns the user started

files   == <<store, lease, leaseFresh, status, inbox, delivered, read>>
mailbox == <<inbox, delivered, read>>
bounds  == <<faults, turns>>
vars    == <<files, worker, pump, agent, sender, prompted, trouble, bounds>>

PumpPc == {"idle", "request", "clear", "read", "claim", "heartbeat", "submit", "sending",
           "checkSubmitted", "writeSubmitted", "recordSubmitted",
           "checkFailed", "writeFailed", "recordFailed"}

\* todo: the messages of the prompt; id: the request claimed for it.
PumpState == [pc: PumpPc, todo: SUBSET Messages, id: 0 .. MaxRequests]
IdlePump  == [pc |-> "idle", todo |-> {}, id |-> 0]

\* hook: what the running hook does next; ids: the messages it marks
\* delivered; next: the status agent_end decided on.
WorkerState == [up: BOOLEAN, incarnation: 0 .. MaxIncarnations,
                hook: {"none", "mirror", "deliver", "running", "decide", "settle", "stop"},
                ids: SUBSET Messages, next: WorkerStatus]

\* seen: the status in the copy of team.json the sender read.
SenderState == [pc: {"idle", "snapshot", "patch", "request", "mark", "lease", "unavailable"},
                msgs: SUBSET Messages, seen: WorkerStatus]
IdleSender  == [pc |-> "idle", msgs |-> {}, seen |-> "idle"]

Trouble == {"lapse", "sendFailed", "restart", "rerequest", "stall"}

Init ==
  /\ store = [i \in Ids |-> NoRequest]
  /\ lease = 0 /\ leaseFresh = FALSE
  /\ status = SpawnReserved
  /\ inbox = {} /\ delivered = {} /\ read = {}
  /\ worker = [up |-> FALSE, incarnation |-> 0, hook |-> "none", ids |-> {}, next |-> "idle"]
  /\ pump = IdlePump
  /\ agent = "none"
  /\ sender = [s \in Senders |-> IdleSender]
  /\ prompted = [m \in Messages |-> 0]
  /\ trouble = {}
  /\ faults = 0 /\ turns = 0

Fault(kind) ==
  /\ faults < MaxFaults
  /\ faults' = faults + 1
  /\ trouble' = trouble \cup {kind}

-----------------------------------------------------------------------------
\* A sender: the mailbox effect of a message, then its delivery effect.

senderUnchanged == <<lease, leaseFresh, worker, pump, agent, prompted, turns>>

Send(s, m) ==
  /\ sender[s].pc = "idle"
  /\ m \notin inbox
  /\ inbox' = inbox \cup {m}
  /\ sender' = [sender EXCEPT ![s] = [IdleSender EXCEPT !.pc = "snapshot", !.msgs = {m}]]
  /\ UNCHANGED <<store, status, delivered, read, trouble, faults, senderUnchanged>>

\* The delivery effect of a message is executed once more.
Rerequest(s, m) ==
  /\ sender[s].pc = "idle"
  /\ m \in inbox
  /\ Fault("rerequest")
  /\ sender' = [sender EXCEPT ![s] = [IdleSender EXCEPT !.pc = "snapshot", !.msgs = {m}]]
  /\ UNCHANGED <<store, status, mailbox, senderUnchanged>>

Advance(s, pc) == sender' = [sender EXCEPT ![s].pc = pc]

\* requestWorkerDelivery reads team.json and the mailbox; nothing to prompt
\* for, nothing to request.
ReadSnapshot(s) ==
  /\ sender[s].pc = "snapshot"
  /\ sender' = IF sender[s].msgs \subseteq delivered \cup read
                 THEN [sender EXCEPT ![s] = IdleSender]
                 ELSE [sender EXCEPT ![s].pc = "patch", ![s].seen = status]
  /\ UNCHANGED <<store, status, mailbox, trouble, faults, senderUnchanged>>

\* updateMemberStatusPersisted: the status computed from the copy it read is
\* written over whatever the status is by now.
PatchStatus(s) ==
  /\ sender[s].pc = "patch"
  /\ status' = DeliveryRequested(sender[s].seen)
  /\ Advance(s, "request")
  /\ UNCHANGED <<store, mailbox, trouble, faults, senderUnchanged>>

RequestDelivery(s) ==
  /\ sender[s].pc = "request"
  /\ CanRequest(store)
  /\ store' = Requested(store, sender[s].msgs)
  /\ Advance(s, "mark")
  /\ UNCHANGED <<status, mailbox, trouble, faults, senderUnchanged>>

MarkBridgeWorkRequested(s) ==
  /\ sender[s].pc = "mark"
  /\ status' = DeliveryRequested(status)
  /\ Advance(s, "lease")
  /\ UNCHANGED <<store, mailbox, trouble, faults, senderUnchanged>>

\* With a fresh lease the worker's own watchers and heartbeat do the rest.
CheckBridge(s) ==
  /\ sender[s].pc = "lease"
  /\ sender' = IF lease # 0 /\ leaseFresh
                 THEN [sender EXCEPT ![s] = IdleSender]
                 ELSE [sender EXCEPT ![s].pc = "unavailable"]
  /\ UNCHANGED <<store, status, mailbox, trouble, faults, senderUnchanged>>

MarkBridgeUnavailable(s) ==
  /\ sender[s].pc = "unavailable"
  /\ status' = DeliveryRequested(status)
  /\ sender' = [sender EXCEPT ![s] = IdleSender]
  /\ UNCHANGED <<store, mailbox, trouble, faults, senderUnchanged>>

SenderStep(s) ==
  \/ ReadSnapshot(s) \/ PatchStatus(s) \/ RequestDelivery(s)
  \/ MarkBridgeWorkRequested(s) \/ CheckBridge(s) \/ MarkBridgeUnavailable(s)

-----------------------------------------------------------------------------
\* The worker's process: start, heartbeat, stop.

Free == worker.up /\ worker.hook = "none" /\ pump.pc \in {"idle", "sending"}

hookUnchanged == <<inbox, read, sender, prompted, bounds>>

\* startWorkerBridge publishes a lease, then mirrors it to the member.
PublishBridgeLease ==
  /\ ~worker.up
  /\ worker.incarnation < MaxIncarnations
  /\ worker' = [worker EXCEPT !.up = TRUE, !.incarnation = @ + 1, !.hook = "mirror"]
  /\ lease' = worker.incarnation + 1
  /\ leaseFresh' = TRUE
  /\ UNCHANGED <<store, status, delivered, pump, agent, trouble, hookUnchanged>>

MirrorBridgeLease ==
  /\ worker.hook = "mirror"
  /\ status' = BridgeLeasePublished(status)
  /\ worker' = [worker EXCEPT !.hook = "none"]
  /\ UNCHANGED <<store, lease, leaseFresh, delivered, pump, agent, trouble, hookUnchanged>>

OwnLease == lease = worker.incarnation /\ leaseFresh

\* The heartbeat interval renews the lease while it is fresh, and mirrors it.
Heartbeat ==
  /\ Free /\ OwnLease
  /\ status' = BridgeLeasePublished(status)
  /\ UNCHANGED <<store, lease, leaseFresh, delivered, worker, pump, agent, trouble, hookUnchanged>>

\* session_shutdown: the bridge stops, its lease goes, the member is offline.
StopBridge ==
  /\ Free
  /\ worker.incarnation < MaxIncarnations
  /\ lease' = 0
  /\ leaseFresh' = FALSE
  /\ worker' = [worker EXCEPT !.hook = "stop"]
  /\ UNCHANGED <<store, status, delivered, pump, agent, trouble, hookUnchanged>>

Gone == [worker EXCEPT !.up = FALSE, !.hook = "none", !.ids = {}, !.next = "idle"]

MarkSessionShutdown ==
  /\ worker.hook = "stop"
  /\ status' = SessionShutdown(status)
  /\ worker' = Gone
  /\ pump' = IdlePump
  /\ agent' = "none"
  /\ trouble' = trouble \cup {"restart"}
  /\ UNCHANGED <<store, lease, leaseFresh, delivered, hookUnchanged>>

\* The process dies anywhere; its lease stays until it expires.
Crash ==
  /\ worker.up
  /\ worker.incarnation < MaxIncarnations
  /\ Fault("restart")
  /\ worker' = Gone
  /\ pump' = IdlePump
  /\ agent' = "none"
  /\ UNCHANGED <<files, sender, prompted, turns>>

LeaseExpires ==
  /\ leaseFresh
  /\ ~worker.up
  /\ leaseFresh' = FALSE
  /\ UNCHANGED <<store, lease, status, mailbox, worker, pump, agent, sender, prompted, trouble, bounds>>

\* The machine sleeps past the lease's TTL: heartbeatBridgeLease renews only
\* a fresh lease, so this worker's lease is never renewed again.
LeaseExpiresWhileUp ==
  /\ Free /\ OwnLease
  /\ Fault("stall")
  /\ leaseFresh' = FALSE
  /\ UNCHANGED <<store, lease, status, mailbox, worker, pump, agent, sender, prompted, turns>>

-----------------------------------------------------------------------------
\* The pump.  Its clock stands still (`now' is taken once), so what gets due
\* or lapses after its first step is not due or lapsed for it.

pumpUnchanged == <<lease, leaseFresh, mailbox, worker, sender, bounds>>
Pumping(pc) == worker.up /\ worker.hook = "none" /\ pump.pc = pc

\* The live requests, and whether another prompt is out.
LivePreSubmit(st) == {i \in Ids : st[i].status \in {"pending", "claimed"}}
SubmittedOrStarted(st) == {i \in Ids : st[i].status \in {"submitted", "started"}}

\* maintainBridgeDeliveryRequests, its update of the store; what it does to
\* the status follows from what it sees then.
PumpMaintain ==
  /\ Pumping("idle")
  /\ store' = Maintained(store)
  /\ pump' = [pump EXCEPT !.pc =
        IF LivePreSubmit(store') # {} THEN "request"
        ELSE IF SubmittedOrStarted(store') = {} /\ store' # store THEN "clear"
        ELSE "read"]
  /\ UNCHANGED <<status, agent, prompted, trouble, pumpUnchanged>>

PumpMarkRequested ==
  /\ Pumping("request")
  /\ status' = DeliveryRequested(status)
  /\ pump' = [pump EXCEPT !.pc = "read"]
  /\ UNCHANGED <<store, agent, prompted, trouble, pumpUnchanged>>

PumpClearRequested ==
  /\ Pumping("clear")
  /\ status' = IF status \in {"pending_delivery", "queued"} THEN ManualRecovered ELSE status
  /\ pump' = [pump EXCEPT !.pc = "read"]
  /\ UNCHANGED <<store, agent, prompted, trouble, pumpUnchanged>>

\* The messages the pending requests ask for and the mailbox has undelivered
\* and unread: those the prompt is made of.
PromptMessages ==
  (inbox \ (delivered \cup read)) \cap UNION {store[i].msgs : i \in PendingIds(store)}

PumpReadMutantBusyToo ==
  /\ Pumping("read")
  /\ pump' = IF OwnLease /\ status \notin {"running", "draining", "error"} /\ PromptMessages # {}
                THEN [pump EXCEPT !.pc = "claim", !.todo = PromptMessages]
                ELSE IdlePump
  /\ UNCHANGED <<store, status, agent, prompted, trouble, pumpUnchanged>>

\* The early returns of the pump, and the prompt; a busy session is noted.
PumpRead ==
  /\ Pumping("read")
  /\ LET ready == /\ OwnLease
                  /\ status \notin {"running", "draining", "error"}
                  /\ PromptMessages # {}
     IN /\ status' = IF ready /\ agent # "none" THEN NativeBusy ELSE status
        /\ pump' = IF ready /\ agent = "none"
                     THEN [pump EXCEPT !.pc = "claim", !.todo = PromptMessages]
                     ELSE IdlePump
  /\ UNCHANGED <<store, agent, prompted, trouble, pumpUnchanged>>

\* claimNextDelivery: the request that is the oldest now, for the prompt made
\* of the requests of a moment ago.
PumpClaim ==
  /\ Pumping("claim")
  /\ IF PendingIds(store) = {}
       THEN pump' = IdlePump /\ UNCHANGED store
       ELSE LET i == Oldest(PendingIds(store)) IN
            /\ store' = ClaimedFor(store, i, worker.incarnation, pump.todo)
            /\ pump' = [pump EXCEPT !.pc = "heartbeat", !.id = i]
  /\ UNCHANGED <<status, agent, prompted, trouble, pumpUnchanged>>

\* The pump's own heartbeat mirrors the lease only if the last is old enough.
PumpHeartbeat ==
  /\ Pumping("heartbeat")
  /\ \/ UNCHANGED status
     \/ OwnLease /\ status' = BridgeLeasePublished(status)
  /\ pump' = [pump EXCEPT !.pc = "submit"]
  /\ UNCHANGED <<store, agent, prompted, trouble, pumpUnchanged>>

\* submitBridgePrompt: the session was idle a moment ago and still is, as no
\* hook ran since; it gets the prompt, and the pump waits for its answer.
PumpSubmit ==
  /\ Pumping("submit")
  /\ agent' = "prompted"
  /\ prompted' = [m \in Messages |->
        IF m \in pump.todo /\ prompted[m] < 2 THEN prompted[m] + 1 ELSE prompted[m]]
  /\ pump' = [pump EXCEPT !.pc = "sending"]
  /\ UNCHANGED <<store, status, trouble, pumpUnchanged>>

SendReturns ==
  /\ Pumping("sending")
  /\ pump' = [pump EXCEPT !.pc = "checkSubmitted"]
  /\ UNCHANGED <<store, status, agent, prompted, trouble, pumpUnchanged>>

\* The session's API rejects, with or without having taken the prompt.
SendThrows ==
  /\ Pumping("sending")
  /\ Fault("sendFailed")
  /\ pump' = [pump EXCEPT !.pc = "checkFailed"]
  /\ agent' \in {agent, IF agent = "prompted" THEN "none" ELSE agent}
  /\ UNCHANGED <<files, worker, sender, prompted, turns>>

\* guardedTransition reads and checks the request without the lock, then
\* writes under the lock, where only the claim is checked again.
Guarded(to) ==
  /\ CanTransition(store[pump.id].status, to)
  /\ store[pump.id].claim = worker.incarnation

CheckSubmitted ==
  /\ Pumping("checkSubmitted")
  /\ pump' = IF Guarded("submitted") THEN [pump EXCEPT !.pc = "writeSubmitted"] ELSE IdlePump
  /\ UNCHANGED <<store, status, agent, prompted, trouble, pumpUnchanged>>

HoldsRequestClaim == store[pump.id].claim = worker.incarnation

WriteSubmitted ==
  /\ Pumping("writeSubmitted")
  /\ IF HoldsRequestClaim
       THEN /\ store' = Transitioned(store, pump.id, "submitted")
            /\ pump' = [pump EXCEPT !.pc = "recordSubmitted"]
       ELSE pump' = IdlePump /\ UNCHANGED store
  /\ UNCHANGED <<status, agent, prompted, trouble, pumpUnchanged>>

RecordSubmitted ==
  /\ Pumping("recordSubmitted")
  /\ status' = DeliverySubmitted(status)
  /\ pump' = IdlePump
  /\ UNCHANGED <<store, agent, prompted, trouble, pumpUnchanged>>

CheckFailed ==
  /\ Pumping("checkFailed")
  /\ pump' = [pump EXCEPT !.pc = IF Guarded("failed") THEN "writeFailed" ELSE "recordFailed"]
  /\ UNCHANGED <<store, status, agent, prompted, trouble, pumpUnchanged>>

WriteFailed ==
  /\ Pumping("writeFailed")
  /\ store' = IF HoldsRequestClaim THEN Transitioned(store, pump.id, "failed") ELSE store
  /\ pump' = [pump EXCEPT !.pc = "recordFailed"]
  /\ UNCHANGED <<status, agent, prompted, trouble, pumpUnchanged>>

RecordFailed ==
  /\ Pumping("recordFailed")
  /\ status' = DeliveryFailed(status)
  /\ pump' = IdlePump
  /\ UNCHANGED <<store, agent, prompted, trouble, pumpUnchanged>>

PumpGoesOn ==
  \/ PumpMarkRequested \/ PumpClearRequested \/ PumpRead \/ PumpClaim \/ PumpHeartbeat
  \/ PumpSubmit \/ SendReturns \/ CheckSubmitted \/ WriteSubmitted \/ RecordSubmitted
  \/ CheckFailed \/ WriteFailed \/ RecordFailed

-----------------------------------------------------------------------------
\* The turns of the native session and the hooks that follow them.

turnUnchanged == <<lease, leaseFresh, inbox, pump, sender, prompted, faults>>

\* markLatestDeliveryStarted: the request submitted last, of this incarnation
\* if there is one, else of any.
LatestSubmitted ==
  LET submitted == {i \in Ids : store[i].status = "submitted"}
      own == {i \in submitted : store[i].claim = lease}
  IN IF own # {} THEN {Latest(store, own)}
     ELSE IF submitted # {} THEN {Latest(store, submitted)} ELSE {}

\* agent_start: a turn begins, of the prompt sent or of the user's own; the
\* request submitted last is taken to be the one it serves.
AgentStart ==
  /\ Free
  /\ \/ agent = "prompted" /\ UNCHANGED turns
     \/ agent = "none" /\ turns < MaxTurns /\ turns' = turns + 1
  /\ agent' = "running"
  /\ IF LatestSubmitted = {}
       THEN /\ worker' = [worker EXCEPT !.hook = "running"]
            /\ UNCHANGED store
       ELSE \E i \in LatestSubmitted :
            /\ store' = Transitioned(store, i, "started")
            /\ worker' = [worker EXCEPT !.hook = "deliver", !.ids = store[i].msgs]
  /\ UNCHANGED <<status, delivered, read, trouble, turnUnchanged>>

\* markMailboxMessagesDelivered: all messages of the request, by now.
MarkMessagesDelivered ==
  /\ worker.hook = "deliver"
  /\ delivered' = delivered \cup (worker.ids \cap inbox)
  /\ worker' = [worker EXCEPT !.hook = "running", !.ids = {}]
  /\ UNCHANGED <<store, status, read, agent, trouble, turns, turnUnchanged>>

MarkMemberRunning ==
  /\ worker.hook = "running"
  /\ status' = AgentStarted
  /\ worker' = [worker EXCEPT !.hook = "none"]
  /\ UNCHANGED <<store, delivered, read, agent, trouble, turns, turnUnchanged>>

\* agentteam_receive in the course of the turn: it returns some unread messages,
\* and marks them delivered and, unless markRead is false, read.  (Two updates
\* of the mailbox: what others see between them is what markRead false leaves.)
ReceiveMessages(msgs) ==
  /\ Free
  /\ agent = "running"
  /\ msgs # {} /\ msgs \subseteq inbox \ read
  /\ delivered' = delivered \cup msgs
  /\ read' \in {read \cup msgs, read}
  /\ UNCHANGED <<store, status, worker, agent, trouble, turns, turnUnchanged>>

\* agent_end: the started request is completed; then, from what the store
\* and the session look like, a status is decided on, then written.
AgentEnd ==
  /\ Free
  /\ agent = "running"
  /\ agent' = "none"
  /\ LET started == {i \in Ids : store[i].status = "started"} IN
     store' = IF started = {} THEN store
              ELSE Transitioned(store, Latest(store, started), "completed")
  /\ worker' = [worker EXCEPT !.hook = "decide"]
  /\ UNCHANGED <<status, delivered, read, trouble, turns, turnUnchanged>>

DecideStatus ==
  /\ worker.hook = "decide"
  /\ LET active  == \E i \in Ids : ActiveClaim(store[i])
         pending == \E i \in Ids : store[i].status = "pending" /\ ~RequestHasExpired(store[i])
     IN \E busy \in {active, TRUE} :
          worker' = [worker EXCEPT !.hook = "settle", !.next = AgentEnded(busy, pending)]
  /\ UNCHANGED <<store, status, delivered, read, agent, trouble, turns, turnUnchanged>>

MarkMemberSettled ==
  /\ worker.hook = "settle"
  /\ status' = worker.next
  /\ worker' = [worker EXCEPT !.hook = "none", !.next = "idle"]
  /\ UNCHANGED <<store, delivered, read, agent, trouble, turns, turnUnchanged>>

HookGoesOn ==
  \/ MirrorBridgeLease \/ MarkSessionShutdown \/ MarkMessagesDelivered
  \/ MarkMemberRunning \/ DecideStatus \/ MarkMemberSettled

-----------------------------------------------------------------------------
\* Time.

\* A request lives for five minutes and the heartbeat calls the pump every
\* fifteen seconds: it gets due only while the pump cannot serve it.
PumpCanServe ==
  /\ worker.up /\ OwnLease /\ pump.pc = "idle"
  /\ agent = "none" /\ status \notin {"running", "draining", "error"}

RequestGetsDue(i) ==
  /\ RequestsExpire /\ ~PumpCanServe
  /\ store[i].status \in {"pending", "claimed"}
  /\ ~store[i].due
  /\ store' = [store EXCEPT ![i].due = TRUE]
  /\ UNCHANGED <<lease, leaseFresh, status, mailbox, worker, pump, agent, sender, prompted,
                 trouble, bounds>>

\* The pump that holds the claim is gone, or has given up on it.
AbandonedClaimLapses(i) ==
  /\ store[i].status \in {"claimed", "submitted", "started"} /\ ~store[i].lapsed
  /\ store[i].claim # worker.incarnation \/ pump.id # i
  /\ store' = [store EXCEPT ![i].lapsed = TRUE]
  /\ UNCHANGED <<lease, leaseFresh, status, mailbox, worker, pump, agent, sender, prompted,
                 trouble, bounds>>

\* The session takes longer than the claim's TTL to take the prompt.
SendOutlivesClaim(i) ==
  /\ pump.pc = "sending" /\ pump.id = i
  /\ store[i].status = "claimed" /\ ~store[i].lapsed
  /\ Fault("lapse")
  /\ store' = [store EXCEPT ![i].lapsed = TRUE]
  /\ UNCHANGED <<lease, leaseFresh, status, mailbox, worker, pump, agent, sender, prompted, turns>>

Next ==
  \/ \E s \in Senders : SenderStep(s) \/ \E m \in Messages : Send(s, m) \/ Rerequest(s, m)
  \/ PublishBridgeLease \/ Heartbeat \/ StopBridge \/ Crash \/ LeaseExpires
  \/ LeaseExpiresWhileUp
  \/ PumpMaintain \/ PumpGoesOn \/ SendThrows
  \/ AgentStart \/ AgentEnd \/ HookGoesOn
  \/ \E msgs \in SUBSET Messages : ReceiveMessages(msgs)
  \/ \E i \in Ids : RequestGetsDue(i) \/ AbandonedClaimLapses(i) \/ SendOutlivesClaim(i)

Spec == Init /\ [][Next]_vars

-----------------------------------------------------------------------------
\* A started effect goes on; the worker is started, and again after it went;
\* its heartbeat interval and watchers call the pump again and again, and an
\* event of the session gets its hook in the end, however often the pump
\* comes first.  A turn ends.  Time passes.
Fairness ==
  /\ \A s \in Senders : WF_vars(SenderStep(s))
  /\ WF_vars(PublishBridgeLease) /\ SF_vars(Heartbeat)
  /\ WF_vars(PumpMaintain) /\ WF_vars(PumpGoesOn) /\ WF_vars(HookGoesOn)
  /\ SF_vars(agent = "prompted" /\ AgentStart) /\ SF_vars(AgentEnd)
  /\ \A i \in Ids : WF_vars(RequestGetsDue(i)) /\ WF_vars(AbandonedClaimLapses(i))

FairSpec == Spec /\ Fairness

-----------------------------------------------------------------------------
\* What the variables hold.
TypeOK ==
  /\ store \in [Ids -> Request]
  /\ lease \in 0 .. MaxIncarnations /\ leaseFresh \in BOOLEAN
  /\ status \in WorkerStatus
  /\ inbox \subseteq Messages /\ delivered \subseteq inbox /\ read \subseteq inbox
  /\ worker \in WorkerState
  /\ pump \in PumpState
  /\ agent \in {"none", "prompted", "running"}
  /\ sender \in [Senders -> SenderState]
  /\ prompted \in [Messages -> 0 .. 2]
  /\ trouble \subseteq Trouble
  /\ faults \in 0 .. MaxFaults /\ turns \in 0 .. MaxTurns
\* What was submitted was prompted: a request that is recorded submitted, or
\* further, carries the claim of a prompt, and all messages of that prompt
\* went to the session, whichever claims lapsed and came back meanwhile.
SubmittedWasPrompted ==
  \A i \in Ids : store[i].status \in {"submitted", "started", "completed"} =>
    /\ store[i].promptMsgs # {}
    /\ \A m \in store[i].promptMsgs : prompted[m] > 0

\* No resend without cause: a message is in two prompts only if a claim
\* outlived its TTL, a send failed, the worker restarted, or the delivery
\* effect of the message ran again.
NoResendWithoutCause ==
  \A m \in Messages : prompted[m] = 2 =>
    trouble \cap {"lapse", "sendFailed", "restart", "rerequest"} # {}

\* Requests of concurrent senders join: two are pending for a member only
\* after a claim was taken back beside a newer request.
PendingRequestsJoin ==
  trouble \cap {"lapse", "restart"} = {} => Cardinality(PendingIds(store)) <= 1

\* A prompt reaches the session only when no turn is on, and never with a
\* message that was delivered or read before, though the pump composed it
\* from files it read some steps ago.
PromptIsWelcome ==
  [][\A m \in Messages : prompted'[m] # prompted[m] =>
       agent = "none" /\ m \notin delivered \cup read]_vars

\* A request moves as allowedTransitions says, or is taken back when its
\* claim lapsed; the one exception is the pump writing its answer over an
\* expiry that fell between its check and its write.
MovesAsAllowed ==
  [][\A i \in Ids : store[i].status # store'[i].status =>
       \/ CanTransition(store[i].status, store'[i].status)
       \/ store[i].status = "absent" /\ store'[i].status = "pending"
       \/ store[i].status = "claimed" /\ store[i].lapsed /\ store'[i].status = "pending"
       \/ /\ store[i].status = "expired" /\ i = pump.id
          /\ pump.pc \in {"writeSubmitted", "writeFailed"}]_vars
\* The member is recorded running, with no turn on.
RunningForNobody == status = "running" /\ agent = "none"

\* Dropped: the request that named the message ended without a prompt.
Dropped(m) ==
  \E i \in Ids : m \in store[i].msgs /\ store[i].status \in {"expired", "failed"}

\* A message in the mailbox is prompted or read in the end, over restarts and
\* crashes of the worker; it is missed only if its request ended without, if
\* it was marked delivered beside another, if the worker outlived its lease,
\* or if the pump takes the worker for running for ever.
MissedOnlyForKnownCause ==
  \A m \in Messages :
    m \in inbox ~>
      \/ prompted[m] > 0 \/ m \in read \cup delivered
      \/ Dropped(m) \/ "stall" \in trouble \/ []RunningForNobody
=============================================================================
