-------------------------- MODULE MessageSendProofs --------------------------
(***************************************************************************)
(* Proofs about MessageSend for any team, tasks, messages and calls.       *)
(*                                                                         *)
(* The argument has two layers.  CallShape, which speaks of the calls      *)
(* alone, is enough to see that every step of a call is one the outbox     *)
(* allows; so MessageSend implements Outbox, and what OutboxProofs proves  *)
(* of the outbox holds here.  With it, Progress says what a call has       *)
(* achieved by the time it is at an effect.                                *)
(***************************************************************************)
EXTENDS MessageSend, TLAPS

OutboxTheory == INSTANCE OutboxProofs WITH
                  Effects <- SendEffects, Runs <- Callers \cup Maintainers,
                  DependsOn <- SendDependsOn

AtEffect(k) == k.stage \notin {"idle", "next"}

\* What the variables of a call look like at each point of it.
CallShape ==
  /\ call \in [Callers -> CallState]
  /\ \A c \in Callers : LET k == call[c] IN
       /\ ~AtEffect(k) => k.step = "enqueue" /\ ~k.ok
       /\ k.step = "enqueue" => ~k.ok
       /\ k.left \subseteq Recipients(k.send) /\ k.sent \subseteq Recipients(k.send)
       /\ k.stage \in {"mail", "ref", "wake"} => k.to \in Recipients(k.send)
       /\ k.stage = "ref" => k.send.task # NoTask
       /\ k.stage = "wake" => Wakes(k.send)
       /\ k.stage = "event" => Peers(k) # {}

\* What a call has brought about when it counts r among the recipients it sent
\* q to.
Asked(q, r) ==
  /\ applied[Mail(q, r)] > 0
  /\ q.task # NoTask => store[Ref(q, r)].status # "absent"
  /\ Wakes(q) => store[Wake(q, r)].status # "absent"

\* What a call k has brought about by the time it is where it is.
Achieved(k) ==
  /\ AtEffect(k) /\ k.step # "enqueue" => store[Current(k)].status # "absent"
  /\ k.ok => applied[Current(k)] > 0
  /\ k.stage \in {"ref", "wake"} => applied[Mail(k.send, k.to)] > 0
  /\ k.stage = "wake" /\ k.send.task # NoTask =>
       store[Ref(k.send, k.to)].status # "absent"
  /\ \A r \in k.sent : Asked(k.send, r)

Progress == \A c \in Callers : Achieved(call[c])

\* The run of a call is about the effect the call is at, and about no other.
RunOfCall ==
  \A c \in Callers :
    /\ call[c].step # "run" => run[c].pc = "idle"
    /\ call[c].step = "run" => run[c].claimed \cup run[c].current \subseteq {Current(call[c])}

\* WakeFollowsMail, of every effect that is a wake.
WakesFollow ==
  \A e \in SendEffects :
    e.kind \in {"attention", "delivery"} /\ store[e].status # "absent" =>
      applied[[e EXCEPT !.kind = "mail"]] > 0

\* Who was told to have been sent a message is one of its recipients.
ToldShape == \A s \in told : \E q \in Sends : \E r \in Recipients(q) : s = <<q, r>>

IInv ==
  /\ CallShape
  /\ Progress
  /\ RunOfCall
  /\ WakesFollow
  /\ ToldShape
  /\ SentMeansAskedFor

-----------------------------------------------------------------------------
\* What the constants give: recipients are members, and the effects and
\* dependencies of the messages are what the outbox expects of its constants.

LEMMA RecipientsAreMembers ==
  ASSUME NEW q \in Sends
  PROVE  Recipients(q) \subseteq Members
BY OwnerType, SendsType, NamesDiffer DEF Recipients, ByTask

LEMMA EffectsOfSend ==
  ASSUME NEW q \in Sends, NEW r \in Recipients(q)
  PROVE  {Mail(q, r), Ref(q, r), Wake(q, r)} \subseteq SendEffects
<1> DEFINE Of(p, to) == {Mail(p, to), Ref(p, to), Wake(p, to)}
           AllOf(p) == UNION {Of(p, to) : to \in Recipients(p)}
<1>1. Of(q, r) \subseteq AllOf(q)
  OBVIOUS
<1>2. AllOf(q) \subseteq UNION {AllOf(p) : p \in Sends}
  OBVIOUS
<1> QED BY <1>1, <1>2 DEF SendEffects

LEMMA EventOfSend ==
  ASSUME NEW q \in Sends, q.from # Leader,
         NEW S \in SUBSET (Recipients(q) \ {Leader}), S # {}
  PROVE  Event(q, S) \in SendEffects
<1> DEFINE Events(p) == {Event(p, T) : T \in (SUBSET (Recipients(p) \ {Leader})) \ {{}}}
<1>1. Event(q, S) \in Events(q)
  OBVIOUS
<1>2. Events(q) \in {Events(p) : p \in {o \in Sends : o.from # Leader}}
  OBVIOUS
<1>3. Event(q, S) \in UNION {Events(p) : p \in {o \in Sends : o.from # Leader}}
  BY <1>1, <1>2
<1> QED BY <1>3 DEF SendEffects

LEMMA DependenciesAreEffects ==
  SendDependsOn \in [SendEffects -> SUBSET SendEffects]
<1> SUFFICES ASSUME NEW e \in SendEffects, e.kind = "ref"
             PROVE  [e EXCEPT !.kind = "mail"] \in SendEffects
  BY DEF SendDependsOn
<1>0. PICK q \in Sends :
        \E r \in Recipients(q) : e \in {Mail(q, r), Ref(q, r), Wake(q, r)}
  BY DEF SendEffects, Event, Keyed
<1>1. PICK r \in Recipients(q) : e \in {Mail(q, r), Ref(q, r), Wake(q, r)}
  BY <1>0
<1>2. e = Ref(q, r)
  BY <1>1 DEF Mail, Wake, WakeKind, Keyed
<1>3. [e EXCEPT !.kind = "mail"] = Mail(q, r)
  BY <1>2 DEF Ref, Mail, Keyed
<1> QED BY <1>3, EffectsOfSend

\* The assumptions of Outbox hold of the outbox of the messages.
LEMMA OutboxAssumptions ==
  /\ SendDependsOn \in [SendEffects -> SUBSET SendEffects]
  /\ MaxAttempts \in Nat \ {0}
  /\ Limit \in Nat \ {0}
  /\ MaxFaults \in Nat
  /\ NoRun \notin Callers \cup Maintainers
BY DependenciesAreEffects, BoundsType

-----------------------------------------------------------------------------
(* The shape of the calls. *)

LEMMA IdleCallIsShaped ==
  /\ IdleCall \in CallState
  /\ ~AtEffect(IdleCall) /\ IdleCall.step = "enqueue" /\ ~IdleCall.ok
  /\ IdleCall.left = {} /\ IdleCall.sent = {}
BY SendsType, NamesDiffer DEF IdleCall, CallState, AtEffect

\* The effect a call is at is one of the outbox.
LEMMA CurrentIsEffect ==
  ASSUME CallShape, NEW c \in Callers, AtEffect(call[c])
  PROVE  Current(call[c]) \in SendEffects
<1> DEFINE k == call[c]
<1>1. /\ k \in CallState
      /\ k.stage \in {"mail", "ref", "wake", "event"}
      /\ k.sent \subseteq Recipients(k.send)
      /\ k.stage \in {"mail", "ref", "wake"} => k.to \in Recipients(k.send)
      /\ k.stage = "event" => Peers(k) # {}
  BY DEF CallShape, CallState, AtEffect
<1>2. k.send \in Sends
  BY <1>1 DEF CallState
<1>3. CASE k.stage = "mail"
  BY <1>1, <1>2, <1>3, EffectsOfSend DEF Current
<1>4. CASE k.stage = "ref"
  BY <1>1, <1>2, <1>4, EffectsOfSend DEF Current
<1>5. CASE k.stage = "wake"
  BY <1>1, <1>2, <1>5, EffectsOfSend DEF Current
<1>6. CASE k.stage = "event"
  BY <1>1, <1>2, <1>6, EventOfSend DEF Current, Peers
<1> QED BY <1>1, <1>3, <1>4, <1>5, <1>6

\* The call k is the only one that changes; what it becomes has the shape.
LEMMA ShapeOfOne ==
  ASSUME CallShape, NEW c \in Callers, NEW k \in CallState,
         call' = [call EXCEPT ![c] = k],
         ~AtEffect(k) => k.step = "enqueue" /\ ~k.ok,
         k.step = "enqueue" => ~k.ok,
         k.left \subseteq Recipients(k.send), k.sent \subseteq Recipients(k.send),
         k.stage \in {"mail", "ref", "wake"} => k.to \in Recipients(k.send),
         k.stage = "ref" => k.send.task # NoTask,
         k.stage = "wake" => Wakes(k.send),
         k.stage = "event" => Peers(k) # {}
  PROVE  CallShape'
<1>1. call' \in [Callers -> CallState]
  BY DEF CallShape
<1>2. \A d \in Callers : call'[d] = IF d = c THEN k ELSE call[d]
  BY DEF CallShape
<1> QED BY <1>1, <1>2 DEF CallShape

\* A call that goes on with the effect it is at keeps its shape.
LEMMA ShapeOfStep ==
  ASSUME CallShape, NEW c \in Callers, AtEffect(call[c]),
         NEW step \in {"claim", "run", "answer"},
         call' = [call EXCEPT ![c].step = step]
  PROVE  CallShape'
<1> DEFINE k == [call[c] EXCEPT !.step = step]
<1>1. k \in CallState
  BY DEF CallShape, CallState
<1>2. call' = [call EXCEPT ![c] = k]
  OBVIOUS
<1>3. call[c] \in CallState
  BY DEF CallShape
<1>4. /\ k.stage = call[c].stage /\ k.left = call[c].left /\ k.sent = call[c].sent
      /\ k.send = call[c].send /\ k.to = call[c].to /\ k.step = step
  BY <1>3 DEF CallState
<1>5. AtEffect(k) /\ Peers(k) = Peers(call[c])
  BY <1>4 DEF AtEffect, Peers
<1> HIDE DEF k
<1> QED BY <1>1, <1>2, <1>4, <1>5, ShapeOfOne DEF CallShape

LEMMA ShapeOfIdle ==
  ASSUME CallShape, NEW c \in Callers, call' = [call EXCEPT ![c] = IdleCall]
  PROVE  CallShape'
<1>1. IdleCall.stage \notin {"mail", "ref", "wake", "event"}
  BY DEF IdleCall
<1> QED BY <1>1, IdleCallIsShaped, ShapeOfOne

LEMMA ExecuteShape ==
  ASSUME CallShape, NEW c \in Callers, NEW q \in Sends, Execute(c, q)
  PROVE  CallShape'
<1> DEFINE k == [IdleCall EXCEPT !.stage = "next", !.send = q, !.left = Recipients(q)]
<1>1. k \in CallState
  BY IdleCallIsShaped, RecipientsAreMembers DEF CallState
<1>2. /\ k.stage = "next" /\ k.step = "enqueue" /\ ~k.ok
      /\ k.send = q /\ k.left = Recipients(q) /\ k.sent = {}
  BY DEF IdleCall
<1>3. call' = [call EXCEPT ![c] = k]
  BY DEF Execute
<1> HIDE DEF k
<1> QED BY <1>1, <1>2, <1>3, ShapeOfOne DEF AtEffect

LEMMA DeliverToShape ==
  ASSUME CallShape, NEW c \in Callers, NEW r \in Members, DeliverTo(c, r)
  PROVE  CallShape'
<1> DEFINE k == [At(call[c], "mail") EXCEPT !.to = r, !.left = call[c].left \ {r}]
<1>1. call[c] \in CallState
  BY DEF CallShape
<1>2. k \in CallState
  BY <1>1 DEF CallState, At
<1>3. /\ k.stage = "mail" /\ k.step = "enqueue" /\ ~k.ok /\ k.to = r
      /\ k.send = call[c].send /\ k.left = call[c].left \ {r} /\ k.sent = call[c].sent
  BY <1>1 DEF CallState, At
<1>4. call' = [call EXCEPT ![c] = k] /\ r \in call[c].left
  BY DEF DeliverTo
<1> HIDE DEF k
<1> QED BY <1>2, <1>3, <1>4, ShapeOfOne DEF CallShape, AtEffect

LEMMA DeliveredShape ==
  ASSUME CallShape, NEW c \in Callers, Delivered(c)
  PROVE  CallShape'
<1> DEFINE k == At(call[c], "event")
<1>1. call[c] \in CallState
  BY DEF CallShape
<1>2. k \in CallState
  BY <1>1 DEF CallState, At
<1>3. /\ k.stage = "event" /\ k.step = "enqueue" /\ ~k.ok
      /\ k.send = call[c].send /\ k.left = call[c].left /\ k.sent = call[c].sent
      /\ Peers(k) = Peers(call[c])
  BY <1>1 DEF CallState, At, Peers
<1>4. CASE Peers(call[c]) # {}
  <2>1. call' = [call EXCEPT ![c] = k]
    BY <1>4 DEF Delivered
  <2> HIDE DEF k
  <2> QED BY <1>2, <1>3, <1>4, <2>1, ShapeOfOne DEF CallShape, AtEffect
<1>5. CASE Peers(call[c]) = {}
  BY <1>5, ShapeOfIdle DEF Delivered, Answer
<1> QED BY <1>4, <1>5

\* What After makes of the call: the effect that follows, or the loop again.
LEMMA AfterEffect ==
  ASSUME NEW k \in CallState, k.stage \in {"mail", "ref", "wake"}, NEW ok \in BOOLEAN
  PROVE  /\ After(k, ok) \in CallState
         /\ After(k, ok).step = "enqueue" /\ ~After(k, ok).ok
         /\ After(k, ok).send = k.send /\ After(k, ok).left = k.left
         /\ After(k, ok).to = k.to
         /\ \/ /\ k.stage = "mail" /\ ~ok
               /\ After(k, ok).stage = "next" /\ After(k, ok).sent = k.sent
            \/ /\ k.stage = "mail" /\ ok /\ k.send.task # NoTask
               /\ After(k, ok).stage = "ref" /\ After(k, ok).sent = k.sent
            \/ /\ k.stage = "mail" => ok /\ k.send.task = NoTask
               /\ k.stage # "wake" /\ Wakes(k.send)
               /\ After(k, ok).stage = "wake" /\ After(k, ok).sent = k.sent
            \/ /\ k.stage = "mail" => ok /\ k.send.task = NoTask
               /\ k.stage = "wake" \/ ~Wakes(k.send)
               /\ After(k, ok).stage = "next" /\ After(k, ok).sent = k.sent \cup {k.to}
BY DEF After, AndWake, At, CallState

LEMMA UseResultShape ==
  ASSUME CallShape, NEW c \in Callers, UseResult(c)
  PROVE  CallShape'
<1>1. call[c] \in CallState /\ AtEffect(call[c])
  BY DEF CallShape, UseResult
<1>2. CASE call[c].stage = "event"
  BY <1>2, ShapeOfIdle DEF UseResult, Answer
<1>3. CASE call[c].stage # "event"
  <2>1. PICK ok \in BOOLEAN : call' = [call EXCEPT ![c] = After(call[c], ok)]
    BY <1>3 DEF UseResult
  <2>2. call[c].stage \in {"mail", "ref", "wake"}
    BY <1>1, <1>3 DEF CallState, AtEffect
  <2> DEFINE k == After(call[c], ok)
  <2>3. call[c].to \in Recipients(call[c].send)
    BY <2>2 DEF CallShape
  <2>4. /\ k \in CallState /\ k.step = "enqueue" /\ ~k.ok
        /\ k.left \subseteq Recipients(k.send) /\ k.sent \subseteq Recipients(k.send)
        /\ k.to \in Recipients(k.send)
        /\ k.stage = "ref" => k.send.task # NoTask
        /\ k.stage = "wake" => Wakes(k.send)
        /\ k.stage # "event"
    BY <1>1, <2>2, <2>3, AfterEffect DEF CallShape
  <2> HIDE DEF k
  <2> QED BY <2>1, <2>4, ShapeOfOne DEF k
<1> QED BY <1>2, <1>3

LEMMA InitShape == Init => CallShape
<1> SUFFICES ASSUME Init PROVE CallShape
  OBVIOUS
<1>1. \A c \in Callers : call[c] = IdleCall
  BY DEF Init
<1>2. call \in [Callers -> CallState]
  BY IdleCallIsShaped DEF Init
<1>3. IdleCall.stage = "idle"
  BY DEF IdleCall
<1> QED BY <1>1, <1>2, <1>3, IdleCallIsShaped DEF CallShape

LEMMA NextShape == CallShape /\ [Next]_vars => CallShape'
<1> SUFFICES ASSUME CallShape, [Next]_vars PROVE CallShape'
  OBVIOUS
<1>1. ASSUME NEW c \in Callers, NEW q \in Sends, Execute(c, q) PROVE CallShape'
  BY <1>1, ExecuteShape
<1>2. ASSUME NEW c \in Callers, CallStep(c) PROVE CallShape'
  <2>1. ASSUME NEW r \in Members, DeliverTo(c, r) PROVE CallShape'
    BY <2>1, DeliverToShape
  <2>2. CASE Delivered(c)
    BY <2>2, DeliveredShape
  <2>3. CASE EnqueueEffect(c)
    BY <2>3, ShapeOfStep DEF EnqueueEffect, AtEffect
  <2>4. CASE ClaimEffect(c)
    BY <2>4, ShapeOfStep DEF ClaimEffect, CallShape
  <2>5. CASE RunEffect(c)
    <3>1. AtEffect(call[c])
      BY <2>5 DEF RunEffect, CallShape
    <3>2. CASE UNCHANGED call
      BY <3>2 DEF CallShape
    <3>3. CASE call' = [call EXCEPT ![c].step = "answer"]
      BY <3>1, <3>3, ShapeOfStep
    <3>4. CASE call' = [call EXCEPT ![c].ok = TRUE]
      <4> DEFINE k == [call[c] EXCEPT !.ok = TRUE]
      <4>1. call[c] \in CallState /\ call[c].step = "run"
        BY <2>5 DEF CallShape, RunEffect
      <4>2. /\ k \in CallState /\ k.stage = call[c].stage /\ k.step = "run"
            /\ k.send = call[c].send /\ k.left = call[c].left /\ k.sent = call[c].sent
            /\ k.to = call[c].to
        BY <4>1 DEF CallState
      <4>3. call' = [call EXCEPT ![c] = k]
        BY <3>4
      <4>4. AtEffect(k) /\ Peers(k) = Peers(call[c])
        BY <3>1, <4>2 DEF AtEffect, Peers
      <4> HIDE DEF k
      <4> QED BY <4>2, <4>3, <4>4, ShapeOfOne DEF CallShape
    <3> QED BY <2>5, <3>2, <3>3, <3>4 DEF RunEffect
  <2>6. CASE UseResult(c)
    BY <2>6, UseResultShape
  <2> QED BY <1>2, <2>1, <2>2, <2>3, <2>4, <2>5, <2>6 DEF CallStep
<1>3. ASSUME NEW c \in Callers, Throw(c) PROVE CallShape'
  BY <1>3, ShapeOfIdle DEF Throw
<1>4. CASE UNCHANGED call
  BY <1>4 DEF CallShape
<1> QED BY <1>1, <1>2, <1>3, <1>4 DEF Next, Background, vars

-----------------------------------------------------------------------------
(* The calls use the outbox as module Outbox allows. *)

LEMMA OutboxStep == CallShape /\ [Next]_vars => [Outbox!Next]_(Outbox!vars)
<1> SUFFICES ASSUME CallShape, [Next]_vars PROVE [Outbox!Next]_(Outbox!vars)
  OBVIOUS
<1>1. CASE UNCHANGED outboxVars
  BY <1>1 DEF outboxVars, Outbox!vars
<1>2. ASSUME NEW c \in Callers, CallStep(c) PROVE [Outbox!Next]_(Outbox!vars)
  <2>1. CASE EnqueueEffect(c)
    <3>1. Current(call[c]) \in SendEffects
      BY <2>1, CurrentIsEffect DEF EnqueueEffect, AtEffect
    <3> QED BY <2>1, <3>1 DEF EnqueueEffect, Outbox!Next
  <2>2. CASE ClaimEffect(c)
    <3>1. Current(call[c]) \in SendEffects
      BY <2>2, CurrentIsEffect DEF ClaimEffect, CallShape
    <3> QED BY <2>2, <3>1, <1>1 DEF ClaimEffect, Outbox!Next
  <2>3. CASE RunEffect(c)
    BY <2>3 DEF RunEffect, Outbox!Next, Outbox!RunStep
  <2> QED BY <1>1, <1>2, <2>1, <2>2, <2>3 DEF CallStep, DeliverTo, Delivered, UseResult
<1>3. ASSUME NEW c \in Callers, Throw(c) PROVE [Outbox!Next]_(Outbox!vars)
  BY <1>1, <1>3 DEF Throw, Outbox!Next
<1>4. CASE Background
  BY <1>4 DEF Background, Maintenance, Time, Outbox!Next
<1> QED BY <1>1, <1>2, <1>3, <1>4 DEF Next, Execute, vars

\* In every reachable state a call is at an effect of the outbox, for a
\* recipient of its message.
LEMMA ShapeInvariance == Spec => []CallShape
BY InitShape, NextShape, PTL DEF Spec

\* MessageSend implements Outbox: whatever the calls do, they do to the outbox
\* what an application may, so all that holds of Outbox holds of theirs.
THEOREM ImplementsOutbox == Spec => UsesOutbox
<1>1. Init => Outbox!Init
  BY DEF Init
<1> QED BY <1>1, OutboxStep, ShapeInvariance, PTL DEF Spec, UsesOutbox, Outbox!Spec

\* OutboxTheory, the outbox with its proofs, is the outbox of the calls.
LEMMA SameOutbox ==
  /\ OutboxTheory!Init <=> Outbox!Init
  /\ [Outbox!Next]_(Outbox!vars) => [OutboxTheory!Next]_(OutboxTheory!vars)
  /\ OutboxTheory!TypeOK <=> Outbox!TypeOK
  /\ OutboxTheory!DoneMeansApplied <=> Outbox!DoneMeansApplied
<1>1. OutboxTheory!Init <=> Outbox!Init
  BY DEF OutboxTheory!Init, Outbox!Init, OutboxTheory!Absent, Outbox!Absent,
         OutboxTheory!IdleRun, Outbox!IdleRun
<1>2. Outbox!Next => OutboxTheory!Next
  <2>1. \A e \in SendEffects : OutboxTheory!Enqueue(e) <=> Outbox!Enqueue(e)
    BY DEF OutboxTheory!Enqueue, Outbox!Enqueue, OutboxTheory!Enqueued,
           Outbox!Enqueued, OutboxTheory!Requested, Outbox!Requested,
           OutboxTheory!history, Outbox!history
  <2>2. \A e \in SendEffects : OutboxTheory!Eligible(e) <=> Outbox!Eligible(e)
    BY DEF OutboxTheory!Eligible, Outbox!Eligible
  <2>3. \A S, r : OutboxTheory!Claimed(S, r) = Outbox!Claimed(S, r)
    BY DEF OutboxTheory!Claimed, Outbox!Claimed, OutboxTheory!Unclaimed,
           Outbox!Unclaimed
  <2>4. \A r, S : OutboxTheory!StartRun(r, S) <=> Outbox!StartRun(r, S)
    BY <2>3 DEF OutboxTheory!StartRun, Outbox!StartRun, OutboxTheory!history,
           Outbox!history
  <2>5. \A r, e : e \in SendEffects =>
        (OutboxTheory!SelectedClaim(r, e) <=> Outbox!SelectedClaim(r, e))
    BY <2>2, <2>4 DEF OutboxTheory!SelectedClaim, Outbox!SelectedClaim
  <2>6. OutboxTheory!EligibleEffects = Outbox!EligibleEffects
    BY <2>2 DEF OutboxTheory!EligibleEffects, Outbox!EligibleEffects
  <2>7. \A r : OutboxTheory!MaintenanceClaim(r) <=> Outbox!MaintenanceClaim(r)
    <3> SUFFICES ASSUME NEW r
                 PROVE  OutboxTheory!MaintenanceClaim(r) <=> Outbox!MaintenanceClaim(r)
      OBVIOUS
    <3>1. \A S : OutboxTheory!StartRun(r, S) <=> Outbox!StartRun(r, S)
      BY <2>4
    <3>4. \A S : OutboxTheory!Cardinality(S) = Outbox!Cardinality(S)
      BY DEF OutboxTheory!Cardinality, Outbox!Cardinality
    <3>2. ASSUME OutboxTheory!MaintenanceClaim(r) PROVE Outbox!MaintenanceClaim(r)
      BY <2>6, <3>1, <3>2, <3>4 DEF OutboxTheory!MaintenanceClaim, Outbox!MaintenanceClaim
    <3>3. ASSUME Outbox!MaintenanceClaim(r) PROVE OutboxTheory!MaintenanceClaim(r)
      BY <2>6, <3>1, <3>3, <3>4 DEF OutboxTheory!MaintenanceClaim, Outbox!MaintenanceClaim
    <3> QED BY <3>2, <3>3
  <2>8. \A r : OutboxTheory!MaintenanceRecover(r) <=> Outbox!MaintenanceRecover(r)
    BY <2>3 DEF OutboxTheory!MaintenanceRecover, Outbox!MaintenanceRecover,
           OutboxTheory!history, Outbox!history
  <2>9. \A r : OutboxTheory!RunStep(r) <=> Outbox!RunStep(r)
    BY DEF OutboxTheory!RunStep, Outbox!RunStep, OutboxTheory!CallHandler,
           Outbox!CallHandler, OutboxTheory!ReturnSummary,
           Outbox!ReturnSummary, OutboxTheory!IdleRun, Outbox!IdleRun,
           OutboxTheory!HandlerSucceeds, Outbox!HandlerSucceeds,
           OutboxTheory!HandlerFails, Outbox!HandlerFails,
           OutboxTheory!Apply, Outbox!Apply,
           OutboxTheory!MarkOutboxEffectDone, Outbox!MarkOutboxEffectDone,
           OutboxTheory!MarkedDone, Outbox!MarkedDone,
           OutboxTheory!HoldsClaim, Outbox!HoldsClaim, OutboxTheory!Terminal,
           Outbox!Terminal, OutboxTheory!MarkOutboxEffectFailed,
           Outbox!MarkOutboxEffectFailed, OutboxTheory!MarkedFailed,
           Outbox!MarkedFailed, OutboxTheory!Unclaimed, Outbox!Unclaimed,
           OutboxTheory!history, Outbox!history
  <2>10. \A r : /\ OutboxTheory!MarkDoneThrows(r) <=> Outbox!MarkDoneThrows(r)
                /\ OutboxTheory!Abort(r) <=> Outbox!Abort(r)
    BY DEF OutboxTheory!MarkDoneThrows, Outbox!MarkDoneThrows,
           OutboxTheory!Abort, Outbox!Abort, OutboxTheory!IdleRun,
           Outbox!IdleRun, OutboxTheory!history, Outbox!history
  <2>11. \A e : OutboxTheory!ClaimLapses(e) <=> Outbox!ClaimLapses(e)
    BY DEF OutboxTheory!ClaimLapses, Outbox!ClaimLapses
  <2>12. \A r, e : OutboxTheory!AtWork(r, e) <=> Outbox!AtWork(r, e)
    BY DEF OutboxTheory!AtWork, Outbox!AtWork
  <2>13. \A e : OutboxTheory!AbandonedClaimLapses(e) <=> Outbox!AbandonedClaimLapses(e)
    BY <2>11, <2>12 DEF OutboxTheory!AbandonedClaimLapses, Outbox!AbandonedClaimLapses
  <2>14. \A e : OutboxTheory!HandlerOutlivesClaim(e) <=> Outbox!HandlerOutlivesClaim(e)
    BY <2>11, <2>12 DEF OutboxTheory!HandlerOutlivesClaim, Outbox!HandlerOutlivesClaim
  <2>15. \A e : OutboxTheory!BackoffElapses(e) <=> Outbox!BackoffElapses(e)
    BY DEF OutboxTheory!BackoffElapses, Outbox!BackoffElapses,
           OutboxTheory!history, Outbox!history
  <2>16. ASSUME NEW e \in SendEffects,
                \/ Outbox!Enqueue(e) \/ Outbox!AbandonedClaimLapses(e)
                \/ Outbox!HandlerOutlivesClaim(e) \/ Outbox!BackoffElapses(e)
         PROVE  OutboxTheory!Next
    BY <2>16, <2>1, <2>13, <2>14, <2>15 DEF OutboxTheory!Next
  <2>17. ASSUME NEW r \in Callers \cup Maintainers, NEW e \in SendEffects,
                Outbox!SelectedClaim(r, e)
         PROVE  OutboxTheory!Next
    BY <2>17, <2>5 DEF OutboxTheory!Next
  <2>18. ASSUME NEW r \in Callers \cup Maintainers,
                Outbox!MaintenanceClaim(r) \/ Outbox!MaintenanceRecover(r)
         PROVE  OutboxTheory!Next
    BY <2>18, <2>7, <2>8 DEF OutboxTheory!Next
  <2>19. ASSUME NEW r \in Callers \cup Maintainers, Outbox!RunStep(r)
         PROVE  OutboxTheory!Next
    BY <2>19, <2>9 DEF OutboxTheory!Next
  <2>20. ASSUME NEW r \in Callers \cup Maintainers, Outbox!MarkDoneThrows(r) \/ Outbox!Abort(r)
         PROVE  OutboxTheory!Next
    BY <2>20, <2>10 DEF OutboxTheory!Next
  <2> QED BY <2>16, <2>17, <2>18, <2>19, <2>20 DEF Outbox!Next
<1>3. OutboxTheory!TypeOK <=> Outbox!TypeOK
  BY DEF OutboxTheory!TypeOK, Outbox!TypeOK,
         OutboxTheory!Effect, Outbox!Effect,
         OutboxTheory!Status, Outbox!Status,
         OutboxTheory!RunState, Outbox!RunState
<1>4. OutboxTheory!DoneMeansApplied <=> Outbox!DoneMeansApplied
  BY DEF OutboxTheory!DoneMeansApplied, Outbox!DoneMeansApplied
<1> QED BY <1>1, <1>2, <1>3, <1>4 DEF OutboxTheory!vars, Outbox!vars

\* What OutboxProofs shows of the outbox, as far as it is needed here.
OutboxFacts ==
  /\ Outbox!TypeOK
  /\ Outbox!DoneMeansApplied
  /\ \A e \in SendEffects : store[e].claim # NoRun => store[e].status = "pending"
  /\ \A c \in Callers, e \in SendEffects :
       run[c].pc = "markDone" /\ e \in run[c].current => applied[e] > 0

LEMMA OutboxInvariance == Spec => []OutboxFacts
<1>1. OutboxTheory!IInv => OutboxFacts
  BY SameOutbox DEF OutboxTheory!IInv, OutboxTheory!MarkDoneIsEarned,
                    OutboxTheory!StoreShape, OutboxFacts
<1>2. Outbox!Spec => OutboxTheory!Spec
  BY SameOutbox, PTL DEF Outbox!Spec, OutboxTheory!Spec
<1>3. OutboxTheory!Spec => []OutboxTheory!IInv
  BY OutboxAssumptions, OutboxTheory!Invariance
<1> QED BY <1>1, <1>2, <1>3, ImplementsOutbox, PTL DEF UsesOutbox

-----------------------------------------------------------------------------
(* What the steps of the outbox do to its effects. *)

\* What is in the outbox stays there, what took place has taken place.
Grows ==
  \A e \in SendEffects :
    /\ store[e].status # "absent" => store'[e].status # "absent"
    /\ applied[e] > 0 => applied'[e] > 0

\* Nothing is enqueued.
NothingNew == \A e \in SendEffects : store'[e].status # "absent" => store[e].status # "absent"

LEMMA UnclaimedStatus ==
  ASSUME NEW effect \in Outbox!Effect
  PROVE  Outbox!Unclaimed(effect) \in Outbox!Effect
         /\ Outbox!Unclaimed(effect).status = effect.status
BY DEF Outbox!Unclaimed, Outbox!Effect

LEMMA EnqueueGrows ==
  ASSUME Outbox!TypeOK, NEW e \in SendEffects, Outbox!Enqueue(e)
  PROVE  /\ Grows /\ store'[e].status # "absent"
         /\ \A f \in SendEffects \ {e} : store'[f] = store[f]
         /\ UNCHANGED <<run, applied>>
BY DEF Outbox!TypeOK, Outbox!Enqueue, Outbox!Enqueued, Outbox!Requested, Outbox!history, Grows

LEMMA ClaimedGrows ==
  ASSUME Outbox!TypeOK, NEW S, NEW r, store' = Outbox!Claimed(S, r), UNCHANGED applied
  PROVE  Grows /\ NothingNew
<1> SUFFICES ASSUME NEW e \in SendEffects PROVE store'[e].status = store[e].status
  BY DEF Grows, NothingNew
<1>1. store[e] \in Outbox!Effect
  BY DEF Outbox!TypeOK
<1>2. [store[e] EXCEPT !.claim = r, !.lapsed = FALSE].status = store[e].status
  BY <1>1 DEF Outbox!Effect
<1> QED BY <1>1, <1>2, UnclaimedStatus DEF Outbox!Claimed

LEMMA StartRunGrows ==
  ASSUME Outbox!TypeOK, NEW r, NEW S, Outbox!StartRun(r, S)
  PROVE  Grows /\ NothingNew
BY ClaimedGrows DEF Outbox!StartRun, Outbox!history

LEMMA RunStepGrows ==
  ASSUME OutboxFacts, NEW r \in Callers \cup Maintainers, Outbox!RunStep(r)
  PROVE  /\ Grows /\ NothingNew
         /\ \A q \in (Callers \cup Maintainers) \ {r} : run'[q] = run[q]
<1> USE BoundsType DEF OutboxFacts, Outbox!TypeOK, Outbox!history
<1>1. ASSUME UNCHANGED <<store, applied>> PROVE Grows /\ NothingNew
  BY <1>1 DEF Grows, NothingNew
<1>2. ASSUME NEW e, Outbox!Apply(e), UNCHANGED store PROVE Grows /\ NothingNew
  BY <1>2 DEF Outbox!Apply, Grows, NothingNew
<1>3. ASSUME NEW e, UNCHANGED applied,
             \/ store' = [store EXCEPT ![e] = Outbox!MarkedDone(store[e], r)]
             \/ store' = [store EXCEPT ![e] = Outbox!MarkedFailed(store[e], r)]
      PROVE  Grows /\ NothingNew
  <2> SUFFICES ASSUME e \in SendEffects
               PROVE  store'[e].status = "absent" <=> store[e].status = "absent"
    BY <1>3 DEF Grows, NothingNew
  <2>1. store[e] \in Outbox!Effect
    OBVIOUS
  <2>2. store'[e] \in {Outbox!MarkedDone(store[e], r), Outbox!MarkedFailed(store[e], r)}
    BY <1>3
  <2> DEFINE marked == Outbox!Unclaimed(store[e])
  <2>3. marked \in Outbox!Effect /\ marked.status = store[e].status
    BY <2>1, UnclaimedStatus
  <2>4. store[e].status \notin {"absent", "done", "failed"} => store[e].status = "pending"
    BY <2>1 DEF Outbox!Effect, Outbox!Status
  <2> QED
    BY <2>2, <2>3, <2>4 DEF Outbox!MarkedDone, Outbox!MarkedFailed, Outbox!HoldsClaim,
                            Outbox!Effect, Outbox!Status, Outbox!Terminal
<1>4. \A q \in (Callers \cup Maintainers) \ {r} : run'[q] = run[q]
  BY DEF Outbox!RunStep, Outbox!CallHandler, Outbox!ReturnSummary, Outbox!HandlerSucceeds,
         Outbox!HandlerFails, Outbox!MarkOutboxEffectDone, Outbox!MarkOutboxEffectFailed
<1> QED
  BY <1>1, <1>2, <1>3, <1>4
     DEF Outbox!RunStep, Outbox!CallHandler, Outbox!ReturnSummary, Outbox!HandlerSucceeds,
         Outbox!HandlerFails, Outbox!MarkOutboxEffectDone, Outbox!MarkOutboxEffectFailed

LEMMA AbortGrows ==
  ASSUME OutboxFacts, NEW r \in Callers \cup Maintainers, Outbox!Abort(r)
  PROVE  /\ Grows /\ NothingNew
         /\ run' = [run EXCEPT ![r] = Outbox!IdleRun]
BY DEF Outbox!Abort, Outbox!history, Grows, NothingNew

LEMMA TimeGrows ==
  ASSUME OutboxFacts, NEW e \in SendEffects, Time(e)
  PROVE  Grows /\ NothingNew /\ UNCHANGED run
<1>1. \A f \in SendEffects : store'[f].status = store[f].status
  BY DEF OutboxFacts, Time, Outbox!AbandonedClaimLapses, Outbox!HandlerOutlivesClaim,
         Outbox!ClaimLapses, Outbox!BackoffElapses, Outbox!TypeOK, Outbox!Effect
<1>2. UNCHANGED <<run, applied>>
  BY DEF Time, Outbox!AbandonedClaimLapses, Outbox!HandlerOutlivesClaim,
         Outbox!ClaimLapses, Outbox!BackoffElapses, Outbox!history
<1> QED BY <1>1, <1>2 DEF Grows, NothingNew

\* What goes on beside the calls enqueues nothing, and of the run of a call it
\* makes at most the mark throw.
LEMMA BackgroundGrows ==
  ASSUME OutboxFacts, Background
  PROVE  /\ Grows /\ NothingNew
         /\ \A c \in Callers :
              /\ run'[c].claimed = run[c].claimed /\ run'[c].current = run[c].current
              /\ run[c].pc = "idle" => run'[c].pc = "idle"
<1> USE NamesDiffer
<1>t. run \in [Callers \cup Maintainers -> Outbox!RunState]
  BY DEF OutboxFacts, Outbox!TypeOK
<1>1. ASSUME NEW r \in Maintainers, Maintenance(r)
      PROVE  /\ Grows /\ NothingNew
             /\ \A c \in Callers : run'[c] = run[c]
  <2>1. CASE Outbox!MaintenanceClaim(r)
    <3>1. PICK S : Outbox!StartRun(r, S)
      BY <2>1 DEF Outbox!MaintenanceClaim
    <3>2. \A c \in Callers : run'[c] = run[c]
      BY <3>1, <1>t DEF Outbox!StartRun
    <3> QED BY <3>1, <3>2, StartRunGrows DEF OutboxFacts
  <2>2. CASE Outbox!MaintenanceRecover(r)
    BY <2>2, ClaimedGrows DEF Outbox!MaintenanceRecover, Outbox!history, OutboxFacts
  <2>3. CASE Outbox!RunStep(r)
    BY <2>3, RunStepGrows
  <2>4. CASE Outbox!Abort(r)
    BY <2>4, <1>t, AbortGrows
  <2> QED BY <1>1, <2>1, <2>2, <2>3, <2>4 DEF Maintenance
<1>2. ASSUME NEW r \in Callers \cup Maintainers, Outbox!MarkDoneThrows(r)
      PROVE  /\ Grows /\ NothingNew
             /\ \A c \in Callers :
                  /\ run'[c].claimed = run[c].claimed /\ run'[c].current = run[c].current
                  /\ run[c].pc = "idle" => run'[c].pc = "idle"
  BY <1>2, <1>t DEF Outbox!MarkDoneThrows, Outbox!history, Outbox!RunState, Grows, NothingNew
<1>3. ASSUME NEW e \in SendEffects, Time(e)
      PROVE  Grows /\ NothingNew /\ UNCHANGED run
  BY <1>3, TimeGrows
<1> QED BY <1>1, <1>2, <1>3 DEF Background

-----------------------------------------------------------------------------
(* What the calls have brought about. *)

\* What a call brought about stays.
LEMMA AchievedStays ==
  ASSUME CallShape, Grows, NEW c \in Callers, call'[c] = call[c], Achieved(call[c])
  PROVE  Achieved(call[c])'
<1> DEFINE k == call[c]
<1>1. k \in CallState /\ k.send \in Sends
  BY DEF CallShape, CallState
<1>2. AtEffect(k) => Current(k) \in SendEffects
  BY CurrentIsEffect
<1>3. k.ok => AtEffect(k)
  BY DEF CallShape
<1>4. k.stage \in {"ref", "wake"} => {Mail(k.send, k.to), Ref(k.send, k.to)} \subseteq SendEffects
  BY <1>1, EffectsOfSend DEF CallShape
<1>5. \A r \in k.sent :
        {Mail(k.send, r), Ref(k.send, r), Wake(k.send, r)} \subseteq SendEffects
  BY <1>1, EffectsOfSend DEF CallShape
<1>6. ASSUME NEW r \in k.sent, Asked(k.send, r) PROVE Asked(k.send, r)'
  BY <1>5, <1>6 DEF Asked, Grows
<1> QED BY <1>1, <1>2, <1>3, <1>4, <1>5, <1>6 DEF Achieved, Grows

\* A step of call c that leaves the other calls and their runs alone.
LEMMA OthersStay ==
  ASSUME IInv, Grows, NEW c \in Callers,
         \A d \in Callers \ {c} : call'[d] = call[d] /\ run'[d] = run[d],
         Achieved(call[c])',
         call'[c].step # "run" => run'[c].pc = "idle",
         call'[c].step = "run" =>
           run'[c].claimed \cup run'[c].current \subseteq {Current(call'[c])}
  PROVE  Progress' /\ RunOfCall'
<1>1. ASSUME NEW d \in Callers PROVE Achieved(call[d])'
  BY AchievedStays DEF IInv, Progress
<1>2. ASSUME NEW d \in Callers \ {c}
      PROVE  /\ call'[d].step # "run" => run'[d].pc = "idle"
             /\ call'[d].step = "run" =>
                  run'[d].claimed \cup run'[d].current \subseteq {Current(call'[d])}
  BY DEF IInv, RunOfCall
<1> QED BY <1>1, <1>2 DEF Progress, RunOfCall

LEMMA AskedStays ==
  ASSUME Grows, NEW q \in Sends, NEW r \in Recipients(q), Asked(q, r)
  PROVE  Asked(q, r)'
BY EffectsOfSend DEF Asked, Grows

LEMMA ToldStays ==
  ASSUME IInv, Grows, UNCHANGED told
  PROVE  ToldShape' /\ SentMeansAskedFor'
<1>1. ToldShape'
  BY DEF IInv, ToldShape
<1>2. ASSUME NEW s \in told PROVE Asked(s[1], s[2])'
  <2>1. PICK q \in Sends : \E r \in Recipients(q) : s = <<q, r>>
    BY DEF IInv, ToldShape
  <2>2. PICK r \in Recipients(q) : s = <<q, r>>
    BY <2>1
  <2>3. Asked(q, r)
    BY <2>2 DEF IInv, SentMeansAskedFor, Asked
  <2>4. Asked(q, r)'
    BY <2>3, AskedStays
  <2> QED BY <2>2, <2>4
<1> QED BY <1>1, <1>2 DEF SentMeansAskedFor, Asked

\* The mail of a wake is an effect of the outbox.
LEMMA MailOfWake ==
  ASSUME NEW e \in SendEffects, e.kind \in {"attention", "delivery"}
  PROVE  [e EXCEPT !.kind = "mail"] \in SendEffects
<1>1. PICK q \in Sends :
        \E r \in Recipients(q) : e \in {Mail(q, r), Ref(q, r), Wake(q, r)}
  BY DEF SendEffects, Event, Keyed
<1>2. PICK r \in Recipients(q) : e \in {Mail(q, r), Ref(q, r), Wake(q, r)}
  BY <1>1
<1>3. [e EXCEPT !.kind = "mail"] = Mail(q, r)
  BY <1>2 DEF Wake, Ref, Mail, Keyed
<1> QED BY <1>3, EffectsOfSend

LEMMA WakesStay ==
  ASSUME IInv, Grows, NothingNew
  PROVE  WakesFollow'
BY MailOfWake DEF IInv, WakesFollow, Grows, NothingNew

LEMMA NoOutboxStep ==
  ASSUME UNCHANGED outboxVars
  PROVE  Grows /\ NothingNew /\ UNCHANGED run
BY DEF outboxVars, Grows, NothingNew

\* A call that is idle again has nothing to answer for.
LEMMA IdleAgain ==
  ASSUME IInv, Grows, NEW c \in Callers, call' = [call EXCEPT ![c] = IdleCall],
         run'[c].pc = "idle", \A d \in Callers \ {c} : run'[d] = run[d]
  PROVE  Progress' /\ RunOfCall'
<1>1. call'[c] = IdleCall /\ \A d \in Callers \ {c} : call'[d] = call[d]
  BY DEF IInv, CallShape
<1>2. /\ call'[c].stage = "idle" /\ call'[c].step = "enqueue" /\ call'[c].ok = FALSE
      /\ call'[c].sent = {}
  BY <1>1 DEF IdleCall
<1>3. Achieved(call[c])'
  BY <1>2 DEF Achieved, AtEffect
<1> QED BY <1>1, <1>2, <1>3, OthersStay

\* When a call answers, it was sent to those, and only those, it achieved that for.
LEMMA AnswerStep ==
  ASSUME IInv, NEW c \in Callers, call[c].step # "run", Answer(c), UNCHANGED outboxVars
  PROVE  Progress' /\ RunOfCall' /\ ToldShape' /\ SentMeansAskedFor'
<1>1. Progress' /\ RunOfCall'
  BY IdleAgain, NoOutboxStep DEF Answer, IInv, RunOfCall
<1>2. call[c].send \in Sends /\ call[c].sent \subseteq Recipients(call[c].send)
  BY DEF IInv, CallShape, CallState
<1>3. ToldShape'
  BY <1>2 DEF IInv, ToldShape, Answer
<1>4. \A r \in call[c].sent : Asked(call[c].send, r)
  BY DEF IInv, Progress, Achieved
<1>5. SentMeansAskedFor'
  BY <1>4 DEF IInv, SentMeansAskedFor, Asked, Answer, outboxVars
<1> QED BY <1>1, <1>3, <1>5

\* A call at the start of an effect, or of a turn of its loop.
LEMMA Starting ==
  ASSUME IInv, UNCHANGED <<outboxVars, told>>, NEW c \in Callers, NEW k \in CallState,
         call' = [call EXCEPT ![c] = k],
         call[c].step # "run", k.step = "enqueue", ~k.ok,
         k.stage \in {"ref", "wake"} => applied[Mail(k.send, k.to)] > 0,
         k.stage = "wake" /\ k.send.task # NoTask =>
           store[Ref(k.send, k.to)].status # "absent",
         \A r \in k.sent : Asked(k.send, r)
  PROVE  Progress' /\ RunOfCall' /\ WakesFollow' /\ ToldShape' /\ SentMeansAskedFor'
<1>1. call'[c] = k /\ \A d \in Callers \ {c} : call'[d] = call[d]
  BY DEF IInv, CallShape
<1>2. Achieved(call[c])'
  BY <1>1 DEF Achieved, Asked, outboxVars
<1>3. run' = run /\ run[c].pc = "idle"
  BY NoOutboxStep DEF IInv, RunOfCall
<1>4. Progress' /\ RunOfCall'
  BY <1>1, <1>2, <1>3, OthersStay, NoOutboxStep
<1> QED BY <1>4, ToldStays, WakesStay, NoOutboxStep

LEMMA ExecuteStep ==
  ASSUME IInv, NEW c \in Callers, NEW q \in Sends, Execute(c, q)
  PROVE  Progress' /\ RunOfCall' /\ WakesFollow' /\ ToldShape' /\ SentMeansAskedFor'
<1> DEFINE k == [IdleCall EXCEPT !.stage = "next", !.send = q, !.left = Recipients(q)]
<1>1. k \in CallState
  BY IdleCallIsShaped, RecipientsAreMembers DEF CallState
<1>2. k.stage = "next" /\ k.step = "enqueue" /\ ~k.ok /\ k.sent = {}
  BY DEF IdleCall
<1>3. call' = [call EXCEPT ![c] = k]
  BY DEF Execute
<1>4. call[c].step # "run"
  BY DEF Execute, IInv, CallShape, AtEffect
<1> HIDE DEF k
<1> QED BY <1>1, <1>2, <1>3, <1>4, Starting DEF Execute

LEMMA DeliverToStep ==
  ASSUME IInv, NEW c \in Callers, NEW r \in Members, DeliverTo(c, r)
  PROVE  Progress' /\ RunOfCall' /\ WakesFollow' /\ ToldShape' /\ SentMeansAskedFor'
<1> DEFINE k == [At(call[c], "mail") EXCEPT !.to = r, !.left = call[c].left \ {r}]
<1>1. call[c] \in CallState
  BY DEF IInv, CallShape
<1>2. k \in CallState
  BY <1>1 DEF CallState, At
<1>3. /\ k.stage = "mail" /\ k.step = "enqueue" /\ ~k.ok
      /\ k.send = call[c].send /\ k.sent = call[c].sent
  BY <1>1 DEF CallState, At
<1>4. call' = [call EXCEPT ![c] = k]
  BY DEF DeliverTo
<1>5. call[c].step # "run"
  BY DEF DeliverTo, IInv, CallShape, AtEffect
<1>6. \A s \in k.sent : Asked(k.send, s)
  BY <1>3 DEF IInv, Progress, Achieved
<1> HIDE DEF k
<1> QED BY <1>2, <1>3, <1>4, <1>5, <1>6, Starting DEF DeliverTo

LEMMA DeliveredStep ==
  ASSUME IInv, NEW c \in Callers, Delivered(c)
  PROVE  Progress' /\ RunOfCall' /\ WakesFollow' /\ ToldShape' /\ SentMeansAskedFor'
<1>1. call[c].step # "run"
  BY DEF Delivered, IInv, CallShape, AtEffect
<1>2. CASE Peers(call[c]) # {}
  <2> DEFINE k == At(call[c], "event")
  <2>1. call[c] \in CallState
    BY DEF IInv, CallShape
  <2>2. k \in CallState
    BY <2>1 DEF CallState, At
  <2>3. /\ k.stage = "event" /\ k.step = "enqueue" /\ ~k.ok
        /\ k.send = call[c].send /\ k.sent = call[c].sent
    BY <2>1 DEF CallState, At
  <2>4. call' = [call EXCEPT ![c] = k] /\ UNCHANGED told
    BY <1>2 DEF Delivered
  <2>5. \A s \in k.sent : Asked(k.send, s)
    BY <2>3 DEF IInv, Progress, Achieved
  <2> HIDE DEF k
  <2> QED BY <1>1, <2>2, <2>3, <2>4, <2>5, Starting DEF Delivered
<1>3. CASE Peers(call[c]) = {}
  BY <1>1, <1>3, AnswerStep, WakesStay, NoOutboxStep DEF Delivered
<1> QED BY <1>2, <1>3

LEMMA UseResultStep ==
  ASSUME OutboxFacts, IInv, NEW c \in Callers, UseResult(c)
  PROVE  Progress' /\ RunOfCall' /\ WakesFollow' /\ ToldShape' /\ SentMeansAskedFor'
<1> DEFINE k == call[c]
           ok == k.ok \/ store[Current(k)].status = "done"
<1>1. k \in CallState /\ AtEffect(k) /\ k.step = "answer"
  BY DEF IInv, CallShape, UseResult
<1>2. Achieved(k)
  BY DEF IInv, Progress
<1>3. CASE k.stage = "event"
  BY <1>1, <1>3, AnswerStep, WakesStay, NoOutboxStep DEF UseResult
<1>4. CASE k.stage # "event"
  <2>1. k.stage \in {"mail", "ref", "wake"}
    BY <1>1, <1>4 DEF CallState, AtEffect
  <2>2. ok \in BOOLEAN /\ call' = [call EXCEPT ![c] = After(k, ok)] /\ UNCHANGED told
    BY <1>1, <1>4 DEF UseResult, CallState
  <2>3. Current(k) \in SendEffects
    BY <1>1, CurrentIsEffect DEF IInv
  <2>4. ok => applied[Current(k)] > 0
    BY <1>2, <2>3 DEF Achieved, OutboxFacts, Outbox!DoneMeansApplied
  <2>5. store[Current(k)].status # "absent"
    BY <1>1, <1>2 DEF Achieved
  <2>6. /\ k.stage = "mail" => Current(k) = Mail(k.send, k.to)
        /\ k.stage = "ref" => Current(k) = Ref(k.send, k.to)
        /\ k.stage = "wake" => Current(k) = Wake(k.send, k.to)
    BY DEF Current
  <2>7. (k.stage = "mail" /\ ok) \/ k.stage \in {"ref", "wake"} => applied[Mail(k.send, k.to)] > 0
    BY <1>2, <2>4, <2>6 DEF Achieved
  <2>8. k.stage \in {"ref", "wake"} /\ k.send.task # NoTask =>
          store[Ref(k.send, k.to)].status # "absent"
    BY <1>2, <2>5, <2>6 DEF Achieved
  <2>9. k.stage = "wake" => store[Wake(k.send, k.to)].status # "absent"
    BY <2>5, <2>6
  <2> DEFINE next == After(k, ok)
  <2>10. /\ next \in CallState /\ next.step = "enqueue" /\ ~next.ok
         /\ next.send = k.send /\ next.to = k.to
    BY <1>1, <2>1, <2>2, AfterEffect
  <2>11. next.stage \in {"ref", "wake"} => applied[Mail(k.send, k.to)] > 0
    BY <1>1, <2>1, <2>2, <2>7, AfterEffect
  <2>12. next.stage = "wake" /\ k.send.task # NoTask =>
           store[Ref(k.send, k.to)].status # "absent"
    BY <1>1, <2>1, <2>2, <2>8, AfterEffect
  <2>13. \A r \in next.sent : Asked(k.send, r)
    <3>1. \A r \in k.sent : Asked(k.send, r)
      BY <1>2 DEF Achieved
    <3>2. \/ next.sent = k.sent
          \/ next.sent = k.sent \cup {k.to} /\ Asked(k.send, k.to)
      BY <1>1, <2>1, <2>2, <2>7, <2>8, <2>9, AfterEffect DEF Asked
    <3> QED BY <3>1, <3>2
  <2> HIDE DEF next, ok
  <2> QED
    BY <1>1, <2>2, <2>10, <2>11, <2>12, <2>13, Starting DEF UseResult, next
<1> QED BY <1>3, <1>4

\* The call goes on with the effect it is at; what it had achieved stays, and
\* the effect is in the outbox by now.
LEMMA Continuing ==
  ASSUME IInv, CallShape', Grows, NEW c \in Callers, AtEffect(call[c]),
         NEW step \in {"claim", "run", "answer"},
         call' = [call EXCEPT ![c].step = step],
         store'[Current(call[c])].status # "absent",
         \A d \in Callers \ {c} : run'[d] = run[d],
         step # "run" => run'[c].pc = "idle",
         step = "run" => run'[c].claimed \cup run'[c].current \subseteq {Current(call[c])}
  PROVE  Progress' /\ RunOfCall'
<1> DEFINE k == call[c]
<1>1. k \in CallState
  BY DEF IInv, CallShape
<1>2. \A d \in Callers \ {c} : call'[d] = call[d]
  BY DEF IInv, CallShape
<1>3. /\ call'[c].step = step /\ call'[c].stage = k.stage /\ call'[c].ok = k.ok
      /\ call'[c].send = k.send /\ call'[c].to = k.to /\ call'[c].sent = k.sent
  BY <1>1 DEF IInv, CallShape, CallState
<1>4. Current(call'[c]) = Current(k)
  BY <1>3 DEF Current, Peers
<1>5. k.send \in Sends /\ Current(k) \in SendEffects /\ Achieved(k)
  BY <1>1, CurrentIsEffect DEF IInv, Progress, CallState
<1>6. \A r \in k.sent : Asked(k.send, r)'
  <2> SUFFICES ASSUME NEW r \in k.sent PROVE Asked(k.send, r)'
    OBVIOUS
  <2>1. r \in Recipients(k.send)
    BY DEF IInv, CallShape
  <2> QED BY <1>5, <2>1, AskedStays DEF Achieved
<1>7. (\A r \in call[c].sent : Asked(call[c].send, r))'
  BY <1>3, <1>6
<1>8. k.ok => applied'[Current(k)] > 0
  BY <1>5 DEF Achieved, Grows
<1>9. /\ k.stage \in {"ref", "wake"} => applied'[Mail(k.send, k.to)] > 0
      /\ k.stage = "wake" /\ k.send.task # NoTask => store'[Ref(k.send, k.to)].status # "absent"
  <2>1. k.stage \in {"ref", "wake"} => {Mail(k.send, k.to), Ref(k.send, k.to)} \subseteq SendEffects
    BY <1>5, EffectsOfSend DEF IInv, CallShape
  <2> QED BY <1>5, <2>1 DEF Achieved, Grows
<1>10. Achieved(call[c])'
  BY <1>3, <1>4, <1>7, <1>8, <1>9 DEF Achieved
<1> QED BY <1>2, <1>3, <1>4, <1>10, OthersStay

LEMMA EnqueueEffectStep ==
  ASSUME OutboxFacts, IInv, CallShape', NEW c \in Callers, EnqueueEffect(c)
  PROVE  Progress' /\ RunOfCall' /\ WakesFollow' /\ ToldShape' /\ SentMeansAskedFor'
<1> DEFINE k == call[c]
           e == Current(k)
<1>1. AtEffect(k) /\ k \in CallState /\ e \in SendEffects /\ k.step = "enqueue"
  BY CurrentIsEffect DEF IInv, CallShape, EnqueueEffect, AtEffect
<1>2. /\ Grows /\ store'[e].status # "absent" /\ UNCHANGED <<run, applied>>
      /\ \A f \in SendEffects \ {e} : store'[f] = store[f]
  BY <1>1, EnqueueGrows DEF EnqueueEffect, OutboxFacts
<1>3. Progress' /\ RunOfCall'
  BY <1>1, <1>2, Continuing DEF EnqueueEffect, IInv, RunOfCall
<1>4. WakesFollow'
  <2> SUFFICES ASSUME NEW f \in SendEffects, f.kind \in {"attention", "delivery"},
                      store'[f].status # "absent"
               PROVE  applied'[[f EXCEPT !.kind = "mail"]] > 0
    BY DEF WakesFollow
  <2>1. CASE f # e
    BY <1>2, <2>1 DEF IInv, WakesFollow
  <2>2. CASE f = e
    <3>1. k.stage = "wake"
      BY <1>1, <2>2 DEF Current, Mail, Ref, Event, Keyed, CallState, AtEffect
    <3>2. [f EXCEPT !.kind = "mail"] = Mail(k.send, k.to)
      BY <2>2, <3>1 DEF Current, Wake, Mail, Keyed
    <3> QED BY <1>2, <3>1, <3>2 DEF IInv, Progress, Achieved
  <2> QED BY <2>1, <2>2
<1> QED BY <1>2, <1>3, <1>4, ToldStays DEF EnqueueEffect

LEMMA ClaimEffectStep ==
  ASSUME OutboxFacts, IInv, CallShape', NEW c \in Callers, ClaimEffect(c)
  PROVE  Progress' /\ RunOfCall' /\ WakesFollow' /\ ToldShape' /\ SentMeansAskedFor'
<1> DEFINE k == call[c]
           e == Current(k)
<1>1. AtEffect(k) /\ e \in SendEffects /\ k.step = "claim"
  BY CurrentIsEffect DEF IInv, CallShape, ClaimEffect
<1>2. store[e].status # "absent"
  BY <1>1 DEF IInv, Progress, Achieved
<1>3. CASE Outbox!SelectedClaim(c, e) /\ call' = [call EXCEPT ![c].step = "run"]
  <2>1. Outbox!StartRun(c, {e})
    BY <1>3 DEF Outbox!SelectedClaim
  <2>2. Grows /\ NothingNew
    BY <2>1, StartRunGrows DEF OutboxFacts
  <2>3. /\ \A d \in Callers \ {c} : run'[d] = run[d]
        /\ run'[c].claimed = {e} /\ run'[c].current = {}
    BY <2>1 DEF OutboxFacts, Outbox!TypeOK, Outbox!StartRun
  <2>4. Progress' /\ RunOfCall'
    BY <1>1, <1>2, <1>3, <2>2, <2>3, Continuing DEF Grows
  <2> QED BY <2>2, <2>4, WakesStay, ToldStays DEF ClaimEffect
<1>4. CASE call' = [call EXCEPT ![c].step = "answer"] /\ UNCHANGED outboxVars
  <2>1. Progress' /\ RunOfCall'
    BY <1>1, <1>2, <1>4, Continuing, NoOutboxStep DEF outboxVars, IInv, RunOfCall
  <2> QED BY <1>4, <2>1, WakesStay, ToldStays, NoOutboxStep DEF ClaimEffect
<1> QED BY <1>3, <1>4 DEF ClaimEffect

\* A run takes up no effect but those it claimed.
LEMMA WorkShrinks ==
  ASSUME OutboxFacts, NEW r \in Callers \cup Maintainers, Outbox!RunStep(r)
  PROVE  run'[r].claimed \cup run'[r].current \subseteq run[r].claimed \cup run[r].current
<1> USE DEF OutboxFacts, Outbox!TypeOK, Outbox!RunState
<1>1. ASSUME NEW e \in SendEffects, Outbox!CallHandler(r, e)
      PROVE  run'[r].claimed \cup run'[r].current \subseteq run[r].claimed \cup run[r].current
  BY <1>1 DEF Outbox!CallHandler
<1>2. CASE Outbox!ReturnSummary(r)
  BY <1>2 DEF Outbox!ReturnSummary, Outbox!IdleRun
<1>3. CASE Outbox!HandlerSucceeds(r) \/ Outbox!HandlerFails(r)
  BY <1>3 DEF Outbox!HandlerSucceeds, Outbox!HandlerFails
<1>4. CASE Outbox!MarkOutboxEffectDone(r) \/ Outbox!MarkOutboxEffectFailed(r)
  BY <1>4 DEF Outbox!MarkOutboxEffectDone, Outbox!MarkOutboxEffectFailed
<1> QED BY <1>1, <1>2, <1>3, <1>4 DEF Outbox!RunStep

LEMMA RunEffectStep ==
  ASSUME OutboxFacts, IInv, CallShape', NEW c \in Callers, RunEffect(c)
  PROVE  Progress' /\ RunOfCall' /\ WakesFollow' /\ ToldShape' /\ SentMeansAskedFor'
<1> DEFINE k == call[c]
           e == Current(k)
<1>1. AtEffect(k) /\ e \in SendEffects /\ k.step = "run" /\ k \in CallState
  BY CurrentIsEffect DEF IInv, CallShape, RunEffect
<1>2. Outbox!RunStep(c)
  BY DEF RunEffect, Outbox!RunStep
<1>3. Grows /\ NothingNew /\ \A d \in Callers \ {c} : run'[d] = run[d]
  BY <1>2, RunStepGrows
<1>4. run'[c].claimed \cup run'[c].current \subseteq {e}
  BY <1>1, <1>2, WorkShrinks DEF IInv, RunOfCall
<1>5. store[e].status # "absent" /\ store'[e].status # "absent"
  BY <1>1, <1>3 DEF IInv, Progress, Achieved, Grows
<1>6. WakesFollow' /\ ToldShape' /\ SentMeansAskedFor'
  BY <1>3, WakesStay, ToldStays DEF RunEffect
<1>7. CASE UNCHANGED call
  <2>1. Achieved(call[c])'
    BY <1>3, <1>7, AchievedStays DEF IInv, Progress
  <2>2. call'[c].step = "run" /\ Current(call'[c]) = e
    BY <1>1, <1>7
  <2> QED BY <1>3, <1>4, <1>6, <1>7, <2>1, <2>2, OthersStay
<1>8. CASE Outbox!MarkOutboxEffectDone(c) /\ call' = [call EXCEPT ![c].ok = TRUE]
  <2>1. applied[e] > 0
    <3>1. PICK f \in run[c].current : run[c].pc = "markDone"
      BY <1>8 DEF Outbox!MarkOutboxEffectDone
    <3>2. f = e
      BY <1>1 DEF IInv, RunOfCall
    <3> QED BY <1>1, <3>1, <3>2 DEF OutboxFacts
  <2>2. \A d \in Callers \ {c} : call'[d] = call[d]
    BY <1>8 DEF IInv, CallShape
  <2>3. /\ call'[c].step = "run" /\ call'[c].stage = k.stage /\ call'[c].send = k.send
        /\ call'[c].to = k.to /\ call'[c].sent = k.sent
    BY <1>1, <1>8 DEF IInv, CallShape, CallState
  <2>4. Current(call'[c]) = e
    BY <2>3 DEF Current, Peers
  <2>5. Achieved(k) /\ k.send \in Sends
    BY <1>1 DEF IInv, Progress, CallState
  <2>6. (\A r \in call[c].sent : Asked(call[c].send, r))'
    <3>1. \A r \in k.sent : r \in Recipients(k.send) /\ Asked(k.send, r)
      BY <2>5 DEF IInv, CallShape, Achieved
    <3> QED BY <1>3, <2>3, <2>5, <3>1, AskedStays
  <2>7. /\ applied'[e] > 0
        /\ k.stage \in {"ref", "wake"} => applied'[Mail(k.send, k.to)] > 0
        /\ k.stage = "wake" /\ k.send.task # NoTask =>
             store'[Ref(k.send, k.to)].status # "absent"
    <3>1. k.stage \in {"ref", "wake"} =>
            {Mail(k.send, k.to), Ref(k.send, k.to)} \subseteq SendEffects
      BY <2>5, EffectsOfSend DEF IInv, CallShape
    <3> QED BY <1>1, <1>3, <2>1, <2>5, <3>1 DEF Achieved, Grows
  <2>8. Achieved(call[c])'
    BY <1>5, <2>3, <2>4, <2>6, <2>7 DEF Achieved
  <2> QED BY <1>3, <1>4, <1>6, <2>2, <2>3, <2>4, <2>8, OthersStay
<1>9. CASE Outbox!ReturnSummary(c) /\ call' = [call EXCEPT ![c].step = "answer"]
  <2>1. run'[c].pc = "idle"
    BY <1>9 DEF OutboxFacts, Outbox!TypeOK, Outbox!ReturnSummary, Outbox!IdleRun
  <2> QED BY <1>1, <1>3, <1>5, <1>6, <1>9, <2>1, Continuing
<1> QED BY <1>7, <1>8, <1>9 DEF RunEffect

LEMMA ThrowStep ==
  ASSUME OutboxFacts, IInv, NEW c \in Callers, Throw(c)
  PROVE  Progress' /\ RunOfCall' /\ WakesFollow' /\ ToldShape' /\ SentMeansAskedFor'
<1>1. CASE call[c].step = "run"
  <2>1. Outbox!Abort(c)
    BY <1>1 DEF Throw
  <2>2. Grows /\ NothingNew /\ run' = [run EXCEPT ![c] = Outbox!IdleRun]
    BY <2>1, AbortGrows
  <2>3. run'[c].pc = "idle" /\ \A d \in Callers \ {c} : run'[d] = run[d]
    BY <2>2 DEF OutboxFacts, Outbox!TypeOK, Outbox!IdleRun
  <2> QED BY <2>2, <2>3, IdleAgain, WakesStay, ToldStays DEF Throw
<1>2. CASE call[c].step # "run"
  BY <1>2, IdleAgain, WakesStay, ToldStays, NoOutboxStep DEF Throw, IInv, RunOfCall
<1> QED BY <1>1, <1>2

LEMMA BackgroundStep ==
  ASSUME OutboxFacts, IInv, Background
  PROVE  Progress' /\ RunOfCall' /\ WakesFollow' /\ ToldShape' /\ SentMeansAskedFor'
<1>1. /\ Grows /\ NothingNew
      /\ \A c \in Callers :
           /\ run'[c].claimed = run[c].claimed /\ run'[c].current = run[c].current
           /\ run[c].pc = "idle" => run'[c].pc = "idle"
  BY BackgroundGrows
<1>2. UNCHANGED <<call, told>>
  BY DEF Background
<1>3. Progress'
  <2> SUFFICES ASSUME NEW c \in Callers PROVE Achieved(call[c])'
    BY DEF Progress
  <2> QED BY <1>1, <1>2, AchievedStays DEF IInv, Progress
<1>4. RunOfCall'
  <2> SUFFICES ASSUME NEW c \in Callers
               PROVE  /\ call'[c].step # "run" => run'[c].pc = "idle"
                      /\ call'[c].step = "run" =>
                           run'[c].claimed \cup run'[c].current \subseteq {Current(call'[c])}
    BY DEF RunOfCall
  <2>1. call'[c] = call[c] /\ Current(call'[c]) = Current(call[c])
    BY <1>2
  <2> QED BY <1>1, <2>1 DEF IInv, RunOfCall
<1> QED BY <1>1, <1>2, <1>3, <1>4, WakesStay, ToldStays

LEMMA InitIInv == Init => IInv
<1> SUFFICES ASSUME Init PROVE IInv
  OBVIOUS
<1>1. CallShape
  BY InitShape
<1>2. \A c \in Callers :
        /\ call[c].stage = "idle" /\ call[c].step = "enqueue"
        /\ call[c].ok = FALSE /\ call[c].sent = {}
  BY DEF Init, IdleCall
<1>3. Progress
  BY <1>2 DEF Progress, Achieved, AtEffect
<1>4. \A c \in Callers : run[c].pc = "idle"
  BY DEF Init, Outbox!Init, Outbox!IdleRun
<1>5. RunOfCall
  BY <1>2, <1>4 DEF RunOfCall
<1>6. \A e \in SendEffects : store[e].status = "absent"
  BY DEF Init, Outbox!Init, Outbox!Absent
<1>7. WakesFollow
  BY <1>6 DEF WakesFollow
<1>8. ToldShape /\ SentMeansAskedFor
  BY DEF Init, ToldShape, SentMeansAskedFor
<1> QED BY <1>1, <1>3, <1>5, <1>7, <1>8 DEF IInv

LEMMA NextIInv == OutboxFacts /\ IInv /\ [Next]_vars => IInv'
<1> SUFFICES ASSUME OutboxFacts, IInv, [Next]_vars PROVE IInv'
  OBVIOUS
<1>1. CallShape'
  BY NextShape DEF IInv
<1> DEFINE Goal == Progress' /\ RunOfCall' /\ WakesFollow' /\ ToldShape' /\ SentMeansAskedFor'
<1>2. ASSUME NEW c \in Callers, NEW q \in Sends, Execute(c, q) PROVE Goal
  BY <1>2, ExecuteStep
<1>3. ASSUME NEW c \in Callers, CallStep(c) PROVE Goal
  <2>1. ASSUME NEW r \in Members, DeliverTo(c, r) PROVE Goal
    BY <2>1, DeliverToStep
  <2>2. CASE Delivered(c)
    BY <2>2, DeliveredStep
  <2>3. CASE EnqueueEffect(c)
    BY <1>1, <2>3, EnqueueEffectStep
  <2>4. CASE ClaimEffect(c)
    BY <1>1, <2>4, ClaimEffectStep
  <2>5. CASE RunEffect(c)
    BY <1>1, <2>5, RunEffectStep
  <2>6. CASE UseResult(c)
    BY <2>6, UseResultStep
  <2> HIDE DEF Goal
  <2> QED BY <1>3, <2>1, <2>2, <2>3, <2>4, <2>5, <2>6 DEF CallStep
<1>4. ASSUME NEW c \in Callers, Throw(c) PROVE Goal
  BY <1>4, ThrowStep
<1>5. ASSUME Background PROVE Goal
  BY <1>5, BackgroundStep
<1>6. ASSUME UNCHANGED vars PROVE Goal
  <2>1. Grows /\ NothingNew /\ UNCHANGED <<run, call, told>>
    BY <1>6, NoOutboxStep DEF vars
  <2>2. Progress'
    BY <2>1, AchievedStays DEF IInv, Progress
  <2>3. RunOfCall'
    BY <2>1 DEF IInv, RunOfCall, Current, Peers
  <2> QED BY <2>1, <2>2, <2>3, WakesStay, ToldStays
<1>7. Goal
  <2> HIDE DEF Goal
  <2> QED BY <1>2, <1>3, <1>4, <1>5, <1>6 DEF Next
<1> QED BY <1>1, <1>7 DEF IInv

\* The inductive invariant: what every call has achieved at every point of it,
\* what its run is about, and what calls that answered achieved.
THEOREM Invariance == Spec => []IInv
BY InitIInv, NextIInv, OutboxInvariance, PTL DEF Spec

\* The outbox, the calls and what they answered keep their types.
THEOREM TypeCorrect == Spec => []TypeOK
<1>1. OutboxFacts /\ IInv => TypeOK
  <2> SUFFICES ASSUME OutboxFacts, IInv PROVE told \subseteq Sends \X Members
    BY DEF OutboxFacts, IInv, CallShape, TypeOK
  <2> QED BY RecipientsAreMembers DEF IInv, ToldShape
<1> QED BY <1>1, Invariance, OutboxInvariance, PTL

\* Who is answered that a message was sent to r has it in r's mailbox, and its
\* ref and wake in the outbox, whatever fails and whoever else runs the effects.
THEOREM SentHonestly == Spec => []SentMeansAskedFor
BY Invariance, PTL DEF IInv

\* No wake of a message is in the outbox before the message is in the mailbox,
\* though no dependency says so.
THEOREM WakesComeLater == Spec => []WakeFollowsMail
<1>1. IInv => WakeFollowsMail
  <2> SUFFICES ASSUME IInv, NEW q \in Sends, NEW r \in Recipients(q),
                      store[Wake(q, r)].status # "absent"
               PROVE  applied[Mail(q, r)] > 0
    BY DEF WakeFollowsMail
  <2>1. Wake(q, r) \in SendEffects
    BY EffectsOfSend
  <2>2. /\ Wake(q, r).kind \in {"attention", "delivery"}
        /\ [Wake(q, r) EXCEPT !.kind = "mail"] = Mail(q, r)
    BY DEF Wake, WakeKind, Mail, Keyed
  <2> QED BY <2>1, <2>2 DEF IInv, WakesFollow
<1> QED BY <1>1, Invariance, PTL
==============================================================================
