---------------------------- MODULE MessageSend -----------------------------
(***************************************************************************)
(* agentteam_send: one call resolves its recipients, and for each of them  *)
(* enqueues and runs, one after the other, the outbox effects mail (append *)
(* to the mailbox), ref (index the message under its task) and wake (ask   *)
(* for a delivery or for the leader's attention); at the end an event is   *)
(* recorded.  What a call runs itself it awaits; what failed at first, or  *)
(* was claimed by another process, the maintenance runs bring about later, *)
(* when the call may have answered already.                                *)
(*                                                                         *)
(* The outbox is the one of module Outbox.  An effect is known by its      *)
(* idempotency key, so sending the same once more meets the same effects.  *)
(***************************************************************************)
EXTENDS Naturals, FiniteSets

CONSTANTS Members,     \* names in the team, as the calls read it
          Leader,      \* TEAM_LEAD
          Tasks, Owner, \* the tasks; [Tasks -> Members \cup {Nobody}]
          Gated,       \* the tasks that are blocked or done
          Nobody, NoTask, Everyone, \* no `to' or owner, no taskId, to = "*"
          Sends,       \* the messages that are sent, perhaps more than once
          Callers,     \* calls of agentteam_send; a call is a run
          Maintainers, \* the runs of outbox maintenance
          MaxAttempts, Limit, MaxFaults, NoRun \* of the outbox

ASSUME OwnerType == Owner \in [Tasks -> Members \cup {Nobody}]
ASSUME SendsType ==
  /\ Sends # {}
  /\ \A q \in Sends : /\ q.from \in Members
                      /\ q.type \in {"assignment", "question", "inform"}
                      /\ q.task \in Tasks \cup {NoTask}
ASSUME NamesDiffer ==
  /\ Leader \in Members /\ Nobody \notin Members /\ Everyone \notin Members
  /\ NoTask \notin Tasks /\ Callers \cap Maintainers = {}
ASSUME BoundsType ==
  /\ MaxAttempts \in Nat \ {0} /\ Limit \in Nat \ {0} /\ MaxFaults \in Nat
  /\ NoRun \notin Callers \cup Maintainers

-----------------------------------------------------------------------------
\* Who a message goes to, and what it asks for.

\* Without `to': the leader writes to the owner of the task, the owner to
\* the leader, nobody else to anybody.
ByTask(q) ==
  IF q.task = NoTask \/ q.task \notin Tasks THEN {}
  ELSE IF q.from = Leader THEN {Owner[q.task]} \ {Leader, Nobody}
  ELSE IF q.from = Owner[q.task] THEN {Leader}
  ELSE {}

\* resolveMessageRecipients; no recipient stands for its errors.
Recipients(q) ==
  IF q.to = Everyone THEN Members \ {q.from}
  ELSE IF q.to # Nobody THEN {q.to} \cap Members
  ELSE ByTask(q)

\* canSendMessageType, and the gate of a task: only the leader assigns, and
\* only what can be worked on.
Permitted(q) == q.type = "assignment" => q.from = Leader /\ q.task \notin Gated

\* decideMessagePolicy: inform wakes nobody, a question to the leader asks for
\* attention, everything else for a delivery.
Wakes(q) == q.type # "inform"
WakeKind(q, r) == IF q.type = "question" /\ r = Leader THEN "attention" ELSE "delivery"

\* An effect: its kind and what its idempotency key is made of.
Keyed(kind, q, to) == [kind |-> kind, from |-> q.from, to |-> to, type |-> q.type,
                       task |-> q.task]
Mail(q, r)  == Keyed("mail", q, {r})
Ref(q, r)   == Keyed("ref", q, {r})
Wake(q, r)  == Keyed(WakeKind(q, r), q, {r})
Event(q, S) == Keyed("event", q, S)

SendEffects ==
  (UNION {UNION {{Mail(q, r), Ref(q, r), Wake(q, r)} : r \in Recipients(q)} : q \in Sends})
    \cup (UNION {{Event(q, S) : S \in (SUBSET (Recipients(q) \ {Leader})) \ {{}}} :
                  q \in {p \in Sends : p.from # Leader}})

\* Only the ref names the mail as a dependency.
SendDependsOn ==
  [e \in SendEffects |-> IF e.kind = "ref" THEN {[e EXCEPT !.kind = "mail"]} ELSE {}]

VARIABLES store, run, faults, applied, lapsedEver, \* the outbox
          call,  \* [Callers -> CallState]
          told   \* history: <<q, r>>, a call answered that it sent q to r

Outbox == INSTANCE Outbox WITH Effects <- SendEffects, Runs <- Callers \cup Maintainers,
                               DependsOn <- SendDependsOn

outboxVars == <<store, run, faults, applied, lapsedEver>>
vars == <<outboxVars, call, told>>

\* stage: the effect the call is at, or "next": the loop over the recipients;
\* step: what it does next with that effect; left: the recipients to come;
\* ok: the call's own run reported the effect done.
CallState == [stage: {"idle", "next", "mail", "ref", "wake", "event"},
              step: {"enqueue", "claim", "run", "answer"},
              send: Sends, left: SUBSET Members, to: Members,
              sent: SUBSET Members, ok: BOOLEAN]

At(k, stage) == [k EXCEPT !.stage = stage, !.step = "enqueue", !.ok = FALSE]

\* Between two calls nothing of the last one matters.
IdleCall == [stage |-> "idle", step |-> "enqueue", send |-> CHOOSE q \in Sends : TRUE,
             left |-> {}, to |-> Leader, sent |-> {}, ok |-> FALSE]

\* appendPeerMessageEvent: the recipients it names.
Peers(k) == IF k.send.from = Leader THEN {} ELSE k.sent \ {Leader}

\* The effect the call is at.
Current(k) ==
  CASE k.stage = "mail"  -> Mail(k.send, k.to)
    [] k.stage = "ref"   -> Ref(k.send, k.to)
    [] k.stage = "wake"  -> Wake(k.send, k.to)
    [] k.stage = "event" -> Event(k.send, Peers(k))

Init ==
  /\ Outbox!Init
  /\ call = [c \in Callers |-> IdleCall]
  /\ told = {}

-----------------------------------------------------------------------------
\* A call.

\* executeSendMessageApplication, up to its loop; a call that is denied
\* changes nothing.
Execute(c, q) ==
  /\ call[c].stage = "idle"
  /\ Permitted(q) /\ Recipients(q) # {}
  /\ call' = [call EXCEPT ![c] = [IdleCall EXCEPT !.stage = "next", !.send = q,
                                                  !.left = Recipients(q)]]
  /\ UNCHANGED <<outboxVars, told>>

DeliverTo(c, r) ==
  /\ call[c].stage = "next"
  /\ r \in call[c].left
  /\ call' = [call EXCEPT ![c] = [At(@, "mail") EXCEPT !.to = r,
                                                     !.left = call[c].left \ {r}]]
  /\ UNCHANGED <<outboxVars, told>>

Answer(c) ==
  /\ told' = told \cup {<<call[c].send, r>> : r \in call[c].sent}
  /\ call' = [call EXCEPT ![c] = IdleCall]

\* After the last recipient: a peer event, if there is one to record, or the
\* answer.
Delivered(c) ==
  /\ call[c].stage = "next"
  /\ call[c].left = {}
  /\ IF Peers(call[c]) # {}
       THEN call' = [call EXCEPT ![c] = At(@, "event")] /\ UNCHANGED told
       ELSE Answer(c)
  /\ UNCHANGED outboxVars

EnqueueEffectMutantAnew(c) ==
  /\ call[c].stage \notin {"idle", "next"} /\ call[c].step = "enqueue"
  /\ store' = [store EXCEPT ![Current(call[c])] = Outbox!Requested]
  /\ call' = [call EXCEPT ![c].step = "claim"]
  /\ UNCHANGED <<run, faults, applied, lapsedEver, told>>

EnqueueEffect(c) ==
  /\ call[c].stage \notin {"idle", "next"} /\ call[c].step = "enqueue"
  /\ Outbox!Enqueue(Current(call[c]))
  /\ call' = [call EXCEPT ![c].step = "claim"]
  /\ UNCHANGED told

\* runSelectedOutboxEffects: the claim pass for this one effect; another run
\* may have claimed it since, or it waits, or is settled.
ClaimEffect(c) ==
  /\ call[c].step = "claim"
  /\ \/ /\ Outbox!SelectedClaim(c, Current(call[c]))
        /\ call' = [call EXCEPT ![c].step = "run"]
     \/ /\ ~Outbox!Eligible(Current(call[c]))
        /\ call' = [call EXCEPT ![c].step = "answer"]
        /\ UNCHANGED outboxVars
  /\ UNCHANGED told

\* runOutboxOnce; its result is ok once markDone came back, whether or not the
\* mark was refused.
RunEffect(c) ==
  /\ call[c].step = "run"
  /\ \/ /\ \/ \E e \in SendEffects : Outbox!CallHandler(c, e)
           \/ Outbox!HandlerSucceeds(c) \/ Outbox!HandlerFails(c)
           \/ Outbox!MarkOutboxEffectFailed(c)
        /\ UNCHANGED call
     \/ /\ Outbox!MarkOutboxEffectDone(c)
        /\ call' = [call EXCEPT ![c].ok = TRUE]
     \/ /\ Outbox!ReturnSummary(c)
        /\ call' = [call EXCEPT ![c].step = "answer"]
  /\ UNCHANGED told

AndWake(k) ==
  IF Wakes(k.send) THEN At(k, "wake")
  ELSE [At(k, "next") EXCEPT !.sent = @ \cup {k.to}]

AfterMutantNoEarlyReturn(k, ok) ==
  CASE k.stage = "mail" -> IF k.send.task # NoTask THEN At(k, "ref") ELSE AndWake(k)
    [] k.stage = "ref"  -> AndWake(k)
    [] OTHER            -> [At(k, "next") EXCEPT !.sent = @ \cup {k.to}]

AfterMutantRefNeeded(k, ok) ==
  CASE k.stage = "mail" /\ ~ok -> At(k, "next")
    [] k.stage = "mail" /\ ok  -> IF k.send.task # NoTask THEN At(k, "ref") ELSE AndWake(k)
    [] k.stage = "ref" /\ ok   -> AndWake(k)
    [] OTHER                   -> [At(k, "next") EXCEPT !.sent = @ \cup {k.to}]

AfterMutantMailOptional(k, ok) ==
  CASE k.stage = "mail" /\ ok  -> IF k.send.task # NoTask THEN At(k, "ref") ELSE AndWake(k)
    [] k.stage = "ref"         -> AndWake(k)
    [] OTHER                   -> [At(k, "next") EXCEPT !.sent = @ \cup {k.to}]

\* deliverMessageToRecipient, from one effect to the next: without the mail the
\* recipient is skipped; the failure of ref or wake is a warning only.
After(k, ok) ==
  CASE k.stage = "mail" /\ ~ok -> At(k, "next")
    [] k.stage = "mail" /\ ok  -> IF k.send.task # NoTask THEN At(k, "ref") ELSE AndWake(k)
    [] k.stage = "ref"         -> AndWake(k)
    [] k.stage = "wake"        -> [At(k, "next") EXCEPT !.sent = @ \cup {k.to}]

\* outboxResultForEffect: done by the call's run, or by any, as the store says.
UseResult(c) ==
  /\ call[c].step = "answer"
  /\ LET ok == call[c].ok \/ store[Current(call[c])].status = "done" IN
     IF call[c].stage = "event"
       THEN Answer(c)
       ELSE call' = [call EXCEPT ![c] = After(call[c], ok)] /\ UNCHANGED told
  /\ UNCHANGED outboxVars

\* The process dies, or the store's lock cannot be had: the call throws.
Throw(c) ==
  /\ faults < MaxFaults
  /\ call[c].stage # "idle"
  /\ IF call[c].step = "run" THEN Outbox!Abort(c) ELSE UNCHANGED outboxVars
  /\ call' = [call EXCEPT ![c] = IdleCall]
  /\ UNCHANGED told

CallStep(c) ==
  \/ \E r \in Members : DeliverTo(c, r)
  \/ Delivered(c) \/ EnqueueEffect(c) \/ ClaimEffect(c) \/ RunEffect(c) \/ UseResult(c)

-----------------------------------------------------------------------------
\* The rest of the outbox goes on as it does: maintenance, faults, time.
Maintenance(r) ==
  Outbox!MaintenanceClaim(r) \/ Outbox!MaintenanceRecover(r) \/ Outbox!RunStep(r)
    \/ Outbox!Abort(r)

Time(e) ==
  Outbox!AbandonedClaimLapses(e) \/ Outbox!HandlerOutlivesClaim(e) \/ Outbox!BackoffElapses(e)

Background ==
  /\ \/ \E r \in Maintainers : Maintenance(r)
     \/ \E r \in Callers \cup Maintainers : Outbox!MarkDoneThrows(r)
     \/ \E e \in SendEffects : Time(e)
  /\ UNCHANGED <<call, told>>

Next ==
  \/ \E c \in Callers : CallStep(c) \/ Throw(c) \/ \E q \in Sends : Execute(c, q)
  \/ Background

Spec == Init /\ [][Next]_vars

\* A call that began goes on, and so does a maintenance run; time as in Outbox.
Fairness ==
  /\ \A c \in Callers : WF_vars(CallStep(c))
  /\ \A r \in Maintainers : WF_vars(Outbox!RunStep(r) /\ UNCHANGED <<call, told>>)
  /\ \A e \in SendEffects :
       WF_vars(/\ Outbox!AbandonedClaimLapses(e) \/ Outbox!BackoffElapses(e)
               /\ UNCHANGED <<call, told>>)

FairSpec == Spec /\ Fairness

-----------------------------------------------------------------------------
\* What the variables hold.
TypeOK ==
  /\ Outbox!TypeOK
  /\ call \in [Callers -> CallState]
  /\ told \subseteq Sends \X Members

\* A recipient the sender is told was sent the message has it in the mailbox,
\* and its index under the task and its wake are at least in the outbox,
\* whoever executed what and however often the call was repeated.
SentMeansAskedFor ==
  \A s \in told : LET q == s[1]  r == s[2] IN
    /\ applied[Mail(q, r)] > 0
    /\ q.task # NoTask => store[Ref(q, r)].status # "absent"
    /\ Wakes(q) => store[Wake(q, r)].status # "absent"

\* Nobody is woken for a message that is not in the mailbox: the wake has no
\* dependency on the mail, only the order of the call keeps them apart.
WakeFollowsMail ==
  \A q \in Sends : \A r \in Recipients(q) :
    store[Wake(q, r)].status # "absent" => applied[Mail(q, r)] > 0

\* The calls use the outbox as module Outbox says applications do: what holds
\* of every behaviour of Outbox holds here.
UsesOutbox == Outbox!Spec

\* The team is not idle: while an effect is due, a hook or a command of one of
\* its sessions calls maintenance, as no timer does (Outbox).
MaintenanceIsCalled ==
  WF_vars((\E r \in Maintainers : Outbox!MaintenanceClaim(r)) /\ UNCHANGED <<call, told>>)

\* A wake the sender was told of is settled in the end, by the call itself or,
\* in a team that is not idle, by maintenance after it.
SentIsSettled ==
  MaintenanceIsCalled =>
    \A q \in Sends : \A r \in Recipients(q) :
      Wakes(q) => (<<q, r>> \in told ~> Outbox!Terminal(store[Wake(q, r)].status))
=============================================================================
