---------------------------- MODULE OutboxProofs ----------------------------
(***************************************************************************)
(* Proofs about Outbox for any effects, dependencies, runs and budgets.    *)
(*                                                                         *)
(* The safety properties are not inductive: what a run may still do        *)
(* depends on what it took earlier, under claims that may be gone by now.  *)
(* IInv therefore says, of every run, what holds of the effects it is at   *)
(* work on, and, of every effect, how its claim and its status fit.        *)
(***************************************************************************)
EXTENDS OutboxRefinement, TLAPS

Settling == {"markDone", "markFailed"}

\* What the local state of a run looks like at each point of the loop.
RunShape ==
  \A r \in Runs :
    /\ run[r].pc = "idle" => run[r].claimed = {}
    /\ run[r].pc \in {"idle", "picking"} => run[r].current = {}
    /\ run[r].pc \in {"executing"} \cup Settling => \E e \in Effects : run[r].current = {e}
    /\ run[r].claimed \cap run[r].current = {}

\* How the fields of one effect in the file fit.
StoreShape ==
  \A e \in Effects :
    /\ store[e].claim # NoRun => store[e].status = "pending"
    /\ store[e].status = "absent" => store[e].attempts = 0 /\ applied[e] = 0
    /\ store[e].lapsed => e \in lapsedEver
    /\ store[e].waiting => store[e].status = "pending" /\ store[e].claim = NoRun

\* An effect some run is at work on was ready when it was claimed, and stays so.
WorkIsReady ==
  \A r \in Runs, e \in Effects : AtWork(r, e) =>
    /\ store[e].status # "absent"
    /\ \A d \in DependsOn[e] : store[d].status = "done"

\* Who is about to mark an effect done has seen its change take place.
MarkDoneIsEarned ==
  \A r \in Runs, e \in Effects :
    run[r].pc = "markDone" /\ e \in run[r].current => applied[e] > 0

\* Until a claim of the effect lapses, whoever is at work on it holds its claim.
WorkerHoldsClaim ==
  \A r \in Runs, e \in Effects :
    AtWork(r, e) /\ e \notin lapsedEver => store[e].claim = r

\* An effect that took place, with no lapse and no failed attempt, is settled
\* or about to be, or its run died and the claim is still in the way.
AppliedIsNotRepeated ==
  \A e \in Effects :
    applied[e] > 0 /\ e \notin lapsedEver /\ store[e].attempts = 0 =>
      \/ store[e].status = "done"
      \/ /\ store[e].claim # NoRun
         /\ \A r \in Runs :
              /\ e \notin run[r].claimed
              /\ e \in run[r].current => run[r].pc \in Settling

IInv ==
  /\ TypeOK
  /\ RunShape
  /\ StoreShape
  /\ WorkIsReady
  /\ MarkDoneIsEarned
  /\ WorkerHoldsClaim
  /\ AppliedIsNotRepeated
  /\ DependencyOrder
  /\ DoneMeansApplied
  /\ FailedMeansExhausted
  /\ RepeatedOnlyAfterLapseOrRetry

LEMMA EnqueuedIsEffect ==
  ASSUME NEW effect \in Effect
  PROVE  Enqueued(effect) \in Effect
BY MaxAttemptsType DEF Enqueued, Requested, Effect, Status

LEMMA UnclaimedIsEffect ==
  ASSUME NEW effect \in Effect
  PROVE  /\ Unclaimed(effect) \in Effect
         /\ Unclaimed(effect).status = effect.status
         /\ Unclaimed(effect).attempts = effect.attempts
         /\ Unclaimed(effect).waiting = effect.waiting
         /\ Unclaimed(effect).claim = NoRun
         /\ Unclaimed(effect).lapsed = FALSE
BY DEF Unclaimed, Effect

LEMMA ClaimedIsStore ==
  ASSUME store \in [Effects -> Effect], NEW r \in Runs, NEW S \in SUBSET Effects
  PROVE  Claimed(S, r) \in [Effects -> Effect]
<1> SUFFICES ASSUME NEW e \in Effects
             PROVE  Claimed(S, r)[e] \in Effect
  BY DEF Claimed
<1>1. store[e] \in Effect
  OBVIOUS
<1>2. [store[e] EXCEPT !.claim = r, !.lapsed = FALSE] \in Effect
  BY <1>1 DEF Effect
<1>3. Unclaimed(store[e]) \in Effect
  BY <1>1, UnclaimedIsEffect
<1> QED BY <1>1, <1>2, <1>3 DEF Claimed

LEMMA EnqueueStep ==
  ASSUME IInv, NEW e \in Effects, Enqueue(e)
  PROVE  IInv'
<1> USE MaxAttemptsType, MaxFaultsType, DependsOnType, NoRunIsNotARun DEF IInv, TypeOK
<1>1. TypeOK'
  BY EnqueuedIsEffect DEF Enqueue, history
<1>2. RunShape'
  BY DEF RunShape, Enqueue
<1>3. StoreShape'
  BY DEF StoreShape, Requested, Enqueue, Enqueued, history
<1>4. WorkIsReady'
  BY DEF WorkIsReady, AtWork, Enqueue, Enqueued
<1>5. MarkDoneIsEarned'
  BY DEF MarkDoneIsEarned, Enqueue, history
<1>6. WorkerHoldsClaim'
  BY DEF WorkerHoldsClaim, StoreShape, AtWork, Enqueue, Enqueued, history
<1>7. AppliedIsNotRepeated'
  BY DEF AppliedIsNotRepeated, StoreShape, Enqueue, Enqueued, history
<1>8. DependencyOrder'
  BY DEF DependencyOrder, Enqueue, Enqueued, history
<1>9. DoneMeansApplied'
  BY DEF DoneMeansApplied, Enqueue, Enqueued, Requested, history
<1>10. FailedMeansExhausted'
  BY DEF FailedMeansExhausted, Enqueue, Enqueued, Requested
<1>11. RepeatedOnlyAfterLapseOrRetry'
  BY DEF RepeatedOnlyAfterLapseOrRetry, StoreShape, Enqueue, Enqueued, history
<1> QED BY <1>1, <1>2, <1>3, <1>4, <1>5, <1>6, <1>7, <1>8, <1>9, <1>10, <1>11

LEMMA StartRunStep ==
  ASSUME IInv, NEW r \in Runs, NEW S \in SUBSET EligibleEffects, StartRun(r, S)
  PROVE  IInv'
<1> USE MaxAttemptsType, MaxFaultsType, DependsOnType, NoRunIsNotARun DEF IInv, TypeOK
<1>a. /\ store' \in [Effects -> Effect]
      /\ run' \in [Runs -> RunState]
  BY ClaimedIsStore DEF StartRun, EligibleEffects, RunState
<1>b. \A e \in Effects :
        /\ store'[e].status = store[e].status
        /\ store'[e].attempts = store[e].attempts
        /\ store'[e].waiting = store[e].waiting
        /\ e \notin S => \/ store'[e] = store[e]
                         \/ store[e].lapsed /\ store'[e].claim = NoRun /\ ~store'[e].lapsed
  <2> SUFFICES ASSUME NEW e \in Effects
               PROVE  /\ store'[e].status = store[e].status
                      /\ store'[e].attempts = store[e].attempts
                      /\ store'[e].waiting = store[e].waiting
                      /\ e \notin S => \/ store'[e] = store[e]
                                       \/ store[e].lapsed /\ store'[e].claim = NoRun /\ ~store'[e].lapsed
    OBVIOUS
  <2>1. /\ store[e] \in Effect
        /\ store'[e] = IF e \in S THEN [store[e] EXCEPT !.claim = r, !.lapsed = FALSE]
                       ELSE IF store[e].status = "pending" /\ store[e].lapsed
                            THEN Unclaimed(store[e]) ELSE store[e]
    BY DEF StartRun, Claimed
  <2> QED BY <2>1 DEF Unclaimed, Effect
<1>e. \A e \in S :
        /\ e \in Effects
        /\ store[e].status = "pending"
        /\ store[e].claim = NoRun \/ store[e].lapsed
        /\ \A d \in DependsOn[e] : d \in Effects /\ store[d].status = "done"
        /\ ~store[e].waiting
        /\ store'[e].claim = r
        /\ ~store'[e].lapsed
  <2> SUFFICES ASSUME NEW e \in S
               PROVE  /\ e \in Effects /\ Eligible(e)
                      /\ DependsOn[e] \subseteq Effects
                      /\ store'[e].claim = r
                      /\ ~store'[e].lapsed
    BY DEF Eligible
  <2>1. e \in Effects /\ Eligible(e)
    BY DEF EligibleEffects
  <2>2. store'[e] = [store[e] EXCEPT !.claim = r, !.lapsed = FALSE]
    BY <2>1 DEF StartRun, Claimed
  <2> QED BY <2>1, <2>2 DEF Effect
<1>c. /\ run[r].pc = "idle"
      /\ run' = [run EXCEPT ![r] = [pc |-> "picking", claimed |-> S, current |-> {}]]
      /\ S \subseteq Effects
      /\ UNCHANGED <<faults, applied, lapsedEver>>
  BY DEF StartRun, EligibleEffects, history
<1>d. \A q \in Runs :
        /\ q = r => run'[q].claimed = S /\ run'[q].current = {} /\ run'[q].pc = "picking"
        /\ q # r => run'[q] = run[q]
  BY <1>c DEF RunState
<1>1. TypeOK'
  BY <1>a, <1>c DEF RunState
<1>2. RunShape'
  BY DEF RunShape, Settling, StartRun
<1>3. StoreShape'
  <2> SUFFICES ASSUME NEW e \in Effects
               PROVE  /\ store'[e].claim # NoRun => store'[e].status = "pending"
                      /\ store'[e].status = "absent" => store'[e].attempts = 0 /\ applied[e] = 0
                      /\ store'[e].lapsed => e \in lapsedEver
                      /\ store'[e].waiting => store'[e].status = "pending" /\ store'[e].claim = NoRun
    BY <1>c DEF StoreShape
  <2>1. CASE e \in S
    BY <2>1, <1>b, <1>e
  <2>2. CASE e \notin S
    BY <2>2, <1>b DEF StoreShape
  <2> QED BY <2>1, <2>2
<1>4. WorkIsReady'
  <2> SUFFICES ASSUME NEW q \in Runs, NEW e \in Effects, AtWork(q, e)'
               PROVE  /\ store'[e].status # "absent"
                      /\ \A d \in DependsOn[e] : store'[d].status = "done"
    BY DEF WorkIsReady
  <2>1. CASE q = r
    BY <2>1, <1>b, <1>d, <1>e DEF AtWork
  <2>2. CASE q # r
    BY <2>2, <1>b, <1>d, <1>e DEF WorkIsReady, AtWork
  <2> QED BY <2>1, <2>2
<1>5. MarkDoneIsEarned'
  BY DEF MarkDoneIsEarned, StartRun, history
<1>6. WorkerHoldsClaim'
  <2> SUFFICES ASSUME NEW q \in Runs, NEW e \in Effects, AtWork(q, e)', e \notin lapsedEver'
               PROVE  store'[e].claim = q
    BY DEF WorkerHoldsClaim
  <2>1. CASE q = r
    BY <2>1, <1>b, <1>d, <1>e DEF AtWork
  <2>2. CASE q # r
    <3>1. store[e].claim = q /\ ~store[e].lapsed
      BY <2>2, <1>c, <1>d DEF WorkerHoldsClaim, StoreShape, AtWork
    <3> QED BY <3>1, <1>b, <1>e, NoRunIsNotARun
  <2> QED BY <2>1, <2>2
<1>7. AppliedIsNotRepeated'
  BY <1>a, <1>b, <1>c, <1>e DEF AppliedIsNotRepeated, StoreShape, RunShape, RunState, Effect, Settling
<1>8. DependencyOrder'
  BY <1>a, <1>b, <1>c, <1>e DEF DependencyOrder
<1>9. DoneMeansApplied'
  BY <1>a, <1>b, <1>c, <1>e DEF DoneMeansApplied
<1>10. FailedMeansExhausted'
  BY <1>a, <1>b, <1>c, <1>e DEF FailedMeansExhausted
<1>11. RepeatedOnlyAfterLapseOrRetry'
  BY <1>a, <1>b, <1>c, <1>e DEF RepeatedOnlyAfterLapseOrRetry
<1> QED BY <1>1, <1>2, <1>3, <1>4, <1>5, <1>6, <1>7, <1>8, <1>9, <1>10, <1>11

LEMMA MaintenanceRecoverStep ==
  ASSUME IInv, NEW r \in Runs, MaintenanceRecover(r)
  PROVE  IInv'
<1> USE MaxAttemptsType, MaxFaultsType, DependsOnType, NoRunIsNotARun DEF IInv, TypeOK
<1>b. \A e \in Effects :
        /\ store'[e].status = store[e].status
        /\ store'[e].attempts = store[e].attempts
        /\ store'[e].waiting = store[e].waiting
        /\ \/ store'[e] = store[e]
           \/ store[e].lapsed /\ store'[e].claim = NoRun /\ store'[e].lapsed = FALSE
  BY UnclaimedIsEffect DEF MaintenanceRecover, Claimed
<1>c. UNCHANGED <<run, faults, applied, lapsedEver>>
  BY DEF MaintenanceRecover, history
<1>1. TypeOK'
  BY ClaimedIsStore DEF MaintenanceRecover, history
<1>2. RunShape'
  BY <1>c DEF RunShape
<1>3. StoreShape'
  BY <1>b, <1>c DEF StoreShape
<1>4. WorkIsReady'
  BY <1>b, <1>c DEF WorkIsReady, AtWork
<1>5. MarkDoneIsEarned'
  BY <1>c DEF MarkDoneIsEarned
<1>6. WorkerHoldsClaim'
  BY <1>b, <1>c DEF WorkerHoldsClaim, StoreShape, AtWork
<1>7. AppliedIsNotRepeated'
  BY <1>b, <1>c DEF AppliedIsNotRepeated, StoreShape
<1>8. DependencyOrder'
  BY <1>b, <1>c DEF DependencyOrder
<1>9. DoneMeansApplied'
  BY <1>b, <1>c DEF DoneMeansApplied
<1>10. FailedMeansExhausted'
  BY <1>b, <1>c DEF FailedMeansExhausted
<1>11. RepeatedOnlyAfterLapseOrRetry'
  BY <1>b, <1>c DEF RepeatedOnlyAfterLapseOrRetry
<1> QED BY <1>1, <1>2, <1>3, <1>4, <1>5, <1>6, <1>7, <1>8, <1>9, <1>10, <1>11

LEMMA CallHandlerStep ==
  ASSUME IInv, NEW r \in Runs, NEW e \in Effects, CallHandler(r, e)
  PROVE  IInv'
<1> USE MaxAttemptsType, MaxFaultsType, DependsOnType, NoRunIsNotARun DEF IInv, TypeOK
<1>1. TypeOK'
  BY DEF RunState, CallHandler
<1>2. RunShape'
  BY DEF RunShape, CallHandler
<1>3. StoreShape'
  BY DEF StoreShape, CallHandler, history
<1>4. WorkIsReady'
  BY DEF WorkIsReady, RunState, CallHandler
<1>5. MarkDoneIsEarned'
  BY DEF MarkDoneIsEarned, CallHandler, history
<1>6. WorkerHoldsClaim'
  BY DEF WorkerHoldsClaim, RunState, CallHandler
<1>7. AppliedIsNotRepeated'
  BY DEF AppliedIsNotRepeated, CallHandler, history
<1>8. DependencyOrder'
  BY DEF DependencyOrder, CallHandler, history
<1>9. DoneMeansApplied'
  BY DEF DoneMeansApplied, CallHandler, history
<1>10. FailedMeansExhausted'
  BY DEF FailedMeansExhausted, CallHandler
<1>11. RepeatedOnlyAfterLapseOrRetry'
  BY DEF RepeatedOnlyAfterLapseOrRetry, CallHandler, history
<1> QED BY <1>1, <1>2, <1>3, <1>4, <1>5, <1>6, <1>7, <1>8, <1>9, <1>10, <1>11

LEMMA ReturnSummaryStep ==
  ASSUME IInv, NEW r \in Runs, ReturnSummary(r)
  PROVE  IInv'
<1> USE MaxAttemptsType, MaxFaultsType, DependsOnType, NoRunIsNotARun DEF IInv, TypeOK
<1>1. TypeOK'
  BY DEF RunState, ReturnSummary, IdleRun, history
<1>2. RunShape'
  BY DEF RunShape, Settling, ReturnSummary, IdleRun
<1>3. StoreShape'
  BY DEF StoreShape, ReturnSummary, history
<1>4. WorkIsReady'
  BY DEF WorkIsReady, AtWork, ReturnSummary, IdleRun
<1>5. MarkDoneIsEarned'
  BY DEF MarkDoneIsEarned, ReturnSummary, IdleRun, history
<1>6. WorkerHoldsClaim'
  BY DEF WorkerHoldsClaim, AtWork, ReturnSummary, IdleRun, history
<1>7. AppliedIsNotRepeated'
  BY DEF AppliedIsNotRepeated, ReturnSummary, IdleRun, history
<1>8. DependencyOrder'
  BY DEF DependencyOrder, ReturnSummary, history
<1>9. DoneMeansApplied'
  BY DEF DoneMeansApplied, ReturnSummary, history
<1>10. FailedMeansExhausted'
  BY DEF FailedMeansExhausted, ReturnSummary
<1>11. RepeatedOnlyAfterLapseOrRetry'
  BY DEF RepeatedOnlyAfterLapseOrRetry, ReturnSummary, history
<1> QED BY <1>1, <1>2, <1>3, <1>4, <1>5, <1>6, <1>7, <1>8, <1>9, <1>10, <1>11

LEMMA HandlerSucceedsStep ==
  ASSUME IInv, NEW r \in Runs, HandlerSucceeds(r)
  PROVE  IInv'
<1> USE MaxAttemptsType, MaxFaultsType, DependsOnType, NoRunIsNotARun DEF IInv, TypeOK
<1>1. TypeOK'
  BY DEF RunState, HandlerSucceeds, Apply
<1>2. RunShape'
  BY DEF RunShape, HandlerSucceeds
<1>3. StoreShape'
  BY DEF StoreShape, WorkIsReady, AtWork, HandlerSucceeds, Apply
<1>4. WorkIsReady'
  BY DEF WorkIsReady, AtWork, HandlerSucceeds
<1>5. MarkDoneIsEarned'
  BY DEF MarkDoneIsEarned, RunShape, HandlerSucceeds, Apply
<1>6. WorkerHoldsClaim'
  BY DEF WorkerHoldsClaim, AtWork, HandlerSucceeds
<1>7. AppliedIsNotRepeated'
  BY DEF AppliedIsNotRepeated, RunShape, WorkerHoldsClaim, AtWork, Settling, HandlerSucceeds, Apply
<1>8. DependencyOrder'
  BY DEF DependencyOrder, WorkIsReady, AtWork, HandlerSucceeds, Apply
<1>9. DoneMeansApplied'
  BY DEF DoneMeansApplied, HandlerSucceeds, Apply
<1>10. FailedMeansExhausted'
  BY DEF FailedMeansExhausted, HandlerSucceeds
<1>11. RepeatedOnlyAfterLapseOrRetry'
  BY DEF RepeatedOnlyAfterLapseOrRetry, AppliedIsNotRepeated, WorkerHoldsClaim, StoreShape, AtWork, Effect, RunState, Settling, HandlerSucceeds, Apply
<1> QED BY <1>1, <1>2, <1>3, <1>4, <1>5, <1>6, <1>7, <1>8, <1>9, <1>10, <1>11

LEMMA HandlerFailsStep ==
  ASSUME IInv, NEW r \in Runs, HandlerFails(r)
  PROVE  IInv'
<1> USE MaxAttemptsType, MaxFaultsType, DependsOnType, NoRunIsNotARun DEF IInv, TypeOK
<1>1. TypeOK'
  BY DEF RunState, HandlerFails, Apply
<1>2. RunShape'
  BY DEF RunShape, HandlerFails
<1>3. StoreShape'
  BY DEF StoreShape, WorkIsReady, AtWork, HandlerFails, Apply
<1>4. WorkIsReady'
  BY DEF WorkIsReady, AtWork, HandlerFails
<1>5. MarkDoneIsEarned'
  BY DEF MarkDoneIsEarned, HandlerFails, Apply
<1>6. WorkerHoldsClaim'
  BY DEF WorkerHoldsClaim, AtWork, HandlerFails
<1>7. AppliedIsNotRepeated'
  BY DEF AppliedIsNotRepeated, RunShape, WorkerHoldsClaim, AtWork, Settling, HandlerFails, Apply
<1>8. DependencyOrder'
  BY DEF DependencyOrder, WorkIsReady, AtWork, HandlerFails, Apply
<1>9. DoneMeansApplied'
  BY DEF DoneMeansApplied, HandlerFails, Apply
<1>10. FailedMeansExhausted'
  BY DEF FailedMeansExhausted, HandlerFails
<1>11. RepeatedOnlyAfterLapseOrRetry'
  BY DEF RepeatedOnlyAfterLapseOrRetry, AppliedIsNotRepeated, WorkerHoldsClaim, StoreShape, AtWork, Effect, RunState, Settling, HandlerFails, Apply
<1> QED BY <1>1, <1>2, <1>3, <1>4, <1>5, <1>6, <1>7, <1>8, <1>9, <1>10, <1>11

LEMMA MarkDoneStep ==
  ASSUME IInv, NEW r \in Runs, MarkOutboxEffectDone(r)
  PROVE  IInv'
<1> USE MaxAttemptsType, MaxFaultsType, DependsOnType, NoRunIsNotARun DEF IInv, TypeOK
<1>1. TypeOK'
  BY DEF RunState, MarkOutboxEffectDone
<1>2. RunShape'
  BY DEF RunShape, Settling, MarkOutboxEffectDone
<1>3. StoreShape'
  BY DEF StoreShape, MarkOutboxEffectDone, MarkedDone, HoldsClaim, Unclaimed, history
<1>4. WorkIsReady'
  BY DEF WorkIsReady, RunState, MarkOutboxEffectDone
<1>5. MarkDoneIsEarned'
  BY DEF MarkDoneIsEarned, MarkOutboxEffectDone, history
<1>6. WorkerHoldsClaim'
  BY DEF WorkerHoldsClaim, RunState, MarkOutboxEffectDone
<1>7. AppliedIsNotRepeated'
  BY DEF AppliedIsNotRepeated, MarkOutboxEffectDone, MarkedDone, history
<1>8. DependencyOrder'
  BY DEF DependencyOrder, MarkOutboxEffectDone, MarkedDone, history
<1>9. DoneMeansApplied'
  BY DEF DoneMeansApplied, RunState, MarkOutboxEffectDone
<1>10. FailedMeansExhausted'
  BY DEF FailedMeansExhausted, Terminal, MarkOutboxEffectDone, MarkedDone, HoldsClaim, Unclaimed
<1>11. RepeatedOnlyAfterLapseOrRetry'
  BY DEF RepeatedOnlyAfterLapseOrRetry, MarkOutboxEffectDone, MarkedDone, Unclaimed, history
<1> QED BY <1>1, <1>2, <1>3, <1>4, <1>5, <1>6, <1>7, <1>8, <1>9, <1>10, <1>11

LEMMA MarkFailedStep ==
  ASSUME IInv, NEW r \in Runs, MarkOutboxEffectFailed(r)
  PROVE  IInv'
<1> USE MaxAttemptsType, MaxFaultsType, DependsOnType, NoRunIsNotARun DEF IInv, TypeOK
<1>1. TypeOK'
  BY DEF RunState, MarkOutboxEffectFailed
<1>2. RunShape'
  BY DEF RunShape, Settling, MarkOutboxEffectFailed
<1>3. StoreShape'
  BY DEF StoreShape, MarkOutboxEffectFailed, MarkedFailed, HoldsClaim, Unclaimed, history
<1>4. WorkIsReady'
  BY DEF WorkIsReady, RunState, MarkOutboxEffectFailed
<1>5. MarkDoneIsEarned'
  BY DEF MarkDoneIsEarned, MarkOutboxEffectFailed, history
<1>6. WorkerHoldsClaim'
  BY DEF WorkerHoldsClaim, RunState, MarkOutboxEffectFailed
<1>7. AppliedIsNotRepeated'
  BY DEF AppliedIsNotRepeated, RunState, MarkOutboxEffectFailed
<1>8. DependencyOrder'
  BY DEF DependencyOrder, RunState, MarkOutboxEffectFailed
<1>9. DoneMeansApplied'
  BY DEF DoneMeansApplied, MarkOutboxEffectFailed, MarkedFailed, Unclaimed, history
<1>10. FailedMeansExhausted'
  <2> SUFFICES ASSUME NEW e \in Effects
               PROVE  store'[e].status = "failed" <=> store'[e].attempts = MaxAttempts
    BY DEF FailedMeansExhausted
  <2>1. store[e] \in Effect /\ store[e].attempts \in 0 .. MaxAttempts
    BY DEF Effect
  <2>2. store'[e] = store[e] \/ (HoldsClaim(store[e], r) /\ store'[e] = MarkedFailed(store[e], r))
    BY DEF MarkOutboxEffectFailed, MarkedFailed
  <2>3. ASSUME HoldsClaim(store[e], r), store'[e] = MarkedFailed(store[e], r)
        PROVE  store'[e].status = "failed" <=> store'[e].attempts = MaxAttempts
    <3> DEFINE u == Unclaimed(store[e])
               a == store[e].attempts + 1
    <3>1. /\ u \in Effect
          /\ u.status = store[e].status /\ u.status \notin {"done", "failed"}
      BY <2>1, <2>3, UnclaimedIsEffect DEF HoldsClaim, Terminal
    <3>2. a \in Nat /\ a <= MaxAttempts
      <4>1. store[e].attempts \in 0 .. MaxAttempts /\ store[e].attempts # MaxAttempts
        BY <2>1, <2>3 DEF FailedMeansExhausted, HoldsClaim, Terminal
      <4> QED BY <4>1
    <3>3. CASE a >= MaxAttempts
      <4>1. store'[e] = [u EXCEPT !.attempts = a, !.status = "failed"]
        BY <2>3, <3>3 DEF MarkedFailed
      <4> QED BY <4>1, <3>1, <3>2, <3>3 DEF Effect
    <3>4. CASE ~(a >= MaxAttempts)
      <4>1. store'[e] = [u EXCEPT !.attempts = a, !.waiting = TRUE]
        BY <2>3, <3>4 DEF MarkedFailed
      <4> QED BY <4>1, <3>1, <3>2, <3>4 DEF Effect
    <3> QED BY <3>3, <3>4
  <2> QED BY <2>2, <2>3 DEF FailedMeansExhausted
<1>11. RepeatedOnlyAfterLapseOrRetry'
  BY DEF RepeatedOnlyAfterLapseOrRetry, RunState, MarkOutboxEffectFailed
<1> QED BY <1>1, <1>2, <1>3, <1>4, <1>5, <1>6, <1>7, <1>8, <1>9, <1>10, <1>11

LEMMA MarkDoneThrowsStep ==
  ASSUME IInv, NEW r \in Runs, MarkDoneThrows(r)
  PROVE  IInv'
<1> USE MaxAttemptsType, MaxFaultsType, DependsOnType, NoRunIsNotARun DEF IInv, TypeOK
<1>1. TypeOK'
  <2>1. run[r] \in RunState
    OBVIOUS
  <2>2. [run[r] EXCEPT !.pc = "markFailed"] \in RunState
    BY <2>1 DEF RunState
  <2>3. faults' \in 0 .. MaxFaults
    BY DEF MarkDoneThrows
  <2> QED BY <2>2, <2>3 DEF MarkDoneThrows, history
<1>2. RunShape'
  BY DEF RunShape, Settling, MarkDoneThrows
<1>3. StoreShape'
  BY DEF StoreShape, MarkDoneThrows, history
<1>4. WorkIsReady'
  BY DEF WorkIsReady, AtWork, MarkDoneThrows
<1>5. MarkDoneIsEarned'
  BY DEF MarkDoneIsEarned, MarkDoneThrows, history
<1>6. WorkerHoldsClaim'
  BY DEF WorkerHoldsClaim, AtWork, MarkDoneThrows, history
<1>7. AppliedIsNotRepeated'
  BY DEF AppliedIsNotRepeated, Settling, MarkDoneThrows, history
<1>8. DependencyOrder'
  BY DEF DependencyOrder, MarkDoneThrows, history
<1>9. DoneMeansApplied'
  BY DEF DoneMeansApplied, MarkDoneThrows, history
<1>10. FailedMeansExhausted'
  BY DEF FailedMeansExhausted, MarkDoneThrows
<1>11. RepeatedOnlyAfterLapseOrRetry'
  BY DEF RepeatedOnlyAfterLapseOrRetry, MarkDoneThrows, history
<1> QED BY <1>1, <1>2, <1>3, <1>4, <1>5, <1>6, <1>7, <1>8, <1>9, <1>10, <1>11

LEMMA AbortStep ==
  ASSUME IInv, NEW r \in Runs, Abort(r)
  PROVE  IInv'
<1> USE MaxAttemptsType, MaxFaultsType, DependsOnType, NoRunIsNotARun DEF IInv, TypeOK
<1>1. TypeOK'
  BY DEF RunState, Abort, IdleRun, history
<1>2. RunShape'
  BY DEF RunShape, Settling, Abort, IdleRun
<1>3. StoreShape'
  BY DEF StoreShape, Abort, history
<1>4. WorkIsReady'
  BY DEF WorkIsReady, AtWork, Abort, IdleRun
<1>5. MarkDoneIsEarned'
  BY DEF MarkDoneIsEarned, Abort, IdleRun, history
<1>6. WorkerHoldsClaim'
  BY DEF WorkerHoldsClaim, AtWork, Abort, IdleRun, history
<1>7. AppliedIsNotRepeated'
  BY DEF AppliedIsNotRepeated, Abort, IdleRun, history
<1>8. DependencyOrder'
  BY DEF DependencyOrder, Abort, history
<1>9. DoneMeansApplied'
  BY DEF DoneMeansApplied, Abort, history
<1>10. FailedMeansExhausted'
  BY DEF FailedMeansExhausted, Abort
<1>11. RepeatedOnlyAfterLapseOrRetry'
  BY DEF RepeatedOnlyAfterLapseOrRetry, Abort, history
<1> QED BY <1>1, <1>2, <1>3, <1>4, <1>5, <1>6, <1>7, <1>8, <1>9, <1>10, <1>11

LEMMA ClaimLapsesStep ==
  ASSUME IInv, NEW e \in Effects, ClaimLapses(e), faults' \in 0 .. MaxFaults
  PROVE  IInv'
<1> USE MaxAttemptsType, MaxFaultsType, DependsOnType, NoRunIsNotARun DEF IInv, TypeOK
<1>1. TypeOK'
  BY DEF Effect, ClaimLapses
<1>2. RunShape'
  BY DEF RunShape, ClaimLapses
<1>3. StoreShape'
  BY DEF StoreShape, ClaimLapses
<1>4. WorkIsReady'
  BY DEF WorkIsReady, AtWork, ClaimLapses
<1>5. MarkDoneIsEarned'
  BY DEF MarkDoneIsEarned, ClaimLapses
<1>6. WorkerHoldsClaim'
  BY DEF WorkerHoldsClaim, AtWork, ClaimLapses
<1>7. AppliedIsNotRepeated'
  BY DEF AppliedIsNotRepeated, ClaimLapses
<1>8. DependencyOrder'
  BY DEF DependencyOrder, ClaimLapses
<1>9. DoneMeansApplied'
  BY DEF DoneMeansApplied, ClaimLapses
<1>10. FailedMeansExhausted'
  BY DEF FailedMeansExhausted, ClaimLapses
<1>11. RepeatedOnlyAfterLapseOrRetry'
  BY DEF RepeatedOnlyAfterLapseOrRetry, ClaimLapses
<1> QED BY <1>1, <1>2, <1>3, <1>4, <1>5, <1>6, <1>7, <1>8, <1>9, <1>10, <1>11

LEMMA BackoffElapsesStep ==
  ASSUME IInv, NEW e \in Effects, BackoffElapses(e)
  PROVE  IInv'
<1> USE MaxAttemptsType, MaxFaultsType, DependsOnType, NoRunIsNotARun DEF IInv, TypeOK
<1>1. TypeOK'
  BY DEF Effect, BackoffElapses, history
<1>2. RunShape'
  BY DEF RunShape, BackoffElapses
<1>3. StoreShape'
  BY DEF StoreShape, BackoffElapses, history
<1>4. WorkIsReady'
  BY DEF WorkIsReady, AtWork, BackoffElapses
<1>5. MarkDoneIsEarned'
  BY DEF MarkDoneIsEarned, BackoffElapses, history
<1>6. WorkerHoldsClaim'
  BY DEF WorkerHoldsClaim, AtWork, BackoffElapses, history
<1>7. AppliedIsNotRepeated'
  BY DEF AppliedIsNotRepeated, BackoffElapses, history
<1>8. DependencyOrder'
  BY DEF DependencyOrder, BackoffElapses, history
<1>9. DoneMeansApplied'
  BY DEF DoneMeansApplied, BackoffElapses, history
<1>10. FailedMeansExhausted'
  BY DEF FailedMeansExhausted, BackoffElapses
<1>11. RepeatedOnlyAfterLapseOrRetry'
  BY DEF RepeatedOnlyAfterLapseOrRetry, BackoffElapses, history
<1> QED BY <1>1, <1>2, <1>3, <1>4, <1>5, <1>6, <1>7, <1>8, <1>9, <1>10, <1>11
-----------------------------------------------------------------------------
LEMMA InitIInv == Init => IInv
<1> SUFFICES ASSUME Init PROVE IInv
  OBVIOUS
<1>1. TypeOK
  BY MaxFaultsType, MaxAttemptsType DEF Init, TypeOK, Effect, Status, Absent, RunState, IdleRun
<1>2. RunShape /\ WorkIsReady /\ MarkDoneIsEarned /\ WorkerHoldsClaim
  BY DEF Init, RunShape, WorkIsReady, MarkDoneIsEarned, WorkerHoldsClaim, AtWork,
         IdleRun, Settling
<1>3. StoreShape /\ AppliedIsNotRepeated /\ DependencyOrder /\ RepeatedOnlyAfterLapseOrRetry
  BY DEF Init, StoreShape, AppliedIsNotRepeated, DependencyOrder,
         RepeatedOnlyAfterLapseOrRetry, Absent
<1>4. DoneMeansApplied /\ FailedMeansExhausted
  BY MaxAttemptsType DEF Init, DoneMeansApplied, FailedMeansExhausted, Absent
<1> QED BY <1>1, <1>2, <1>3, <1>4 DEF IInv

\* One step, by the action that makes it.
LEMMA NextIInv == IInv /\ [Next]_vars => IInv'
<1> SUFFICES ASSUME IInv, [Next]_vars PROVE IInv'
  OBVIOUS
<1>1. CASE UNCHANGED vars
  BY <1>1 DEF vars, IInv, TypeOK, RunShape, StoreShape, WorkIsReady, MarkDoneIsEarned,
              WorkerHoldsClaim, AppliedIsNotRepeated, DependencyOrder, DoneMeansApplied,
              FailedMeansExhausted, RepeatedOnlyAfterLapseOrRetry, AtWork
<1>2. CASE \E e \in Effects : Enqueue(e)
  BY <1>2, EnqueueStep
<1>3. CASE \E e \in Effects : AbandonedClaimLapses(e)
  BY <1>3, ClaimLapsesStep DEF AbandonedClaimLapses, IInv, TypeOK
<1>4. CASE \E e \in Effects : HandlerOutlivesClaim(e)
  <2>1. PICK e \in Effects : HandlerOutlivesClaim(e)
    BY <1>4
  <2>2. ClaimLapses(e) /\ faults' \in 0 .. MaxFaults
    BY <2>1, MaxFaultsType DEF HandlerOutlivesClaim, IInv, TypeOK
  <2> QED BY <2>2, ClaimLapsesStep
<1>5. CASE \E e \in Effects : BackoffElapses(e)
  BY <1>5, BackoffElapsesStep
<1>6. CASE \E r \in Runs, e \in Effects : SelectedClaim(r, e)
  <2>1. PICK r \in Runs, e \in Effects : SelectedClaim(r, e)
    BY <1>6
  <2>2. {e} \in SUBSET EligibleEffects /\ StartRun(r, {e})
    BY <2>1 DEF SelectedClaim, EligibleEffects
  <2> QED BY <2>2, StartRunStep
<1>7. CASE \E r \in Runs : MaintenanceClaim(r)
  BY <1>7, StartRunStep DEF MaintenanceClaim
<1>8. CASE \E r \in Runs : MaintenanceRecover(r)
  BY <1>8, MaintenanceRecoverStep
<1>9. CASE \E r \in Runs : RunStep(r)
  BY <1>9, CallHandlerStep, ReturnSummaryStep, HandlerSucceedsStep, HandlerFailsStep,
     MarkDoneStep, MarkFailedStep DEF RunStep
<1>10. CASE \E r \in Runs : MarkDoneThrows(r) \/ Abort(r)
  BY <1>10, MarkDoneThrowsStep, AbortStep
<1> QED BY <1>1, <1>2, <1>3, <1>4, <1>5, <1>6, <1>7, <1>8, <1>9, <1>10 DEF Next

\* IInv holds in every reachable state of the outbox.
THEOREM Invariance == Spec => []IInv
BY InitIInv, NextIInv, PTL DEF Spec

\* Type correctness of outbox.json and of the runs' local state.
THEOREM TypeCorrect == Spec => []TypeOK
BY Invariance, PTL DEF IInv

\* No handler ever runs before the effects its effect depends on are done.
THEOREM DependencyOrderHolds == Spec => []DependencyOrder
BY Invariance, PTL DEF IInv

\* An effect recorded done took place, whatever lapses, deaths and late
\* answers there were.
THEOREM DoneHonestly == Spec => []DoneMeansApplied
BY Invariance, PTL DEF IInv

\* An effect recorded failed used up exactly its attempts: no late answer
\* counts twice, and none is given up early.
THEOREM FailedHonestly == Spec => []FailedMeansExhausted
BY Invariance, PTL DEF IInv

\* Two runs are at work on one effect only after one of its claims lapsed.
THEOREM SoleRun == Spec => []SoleRunUntilLapse
<1>1. IInv => SoleRunUntilLapse
  BY DEF IInv, WorkerHoldsClaim, SoleRunUntilLapse
<1> QED BY <1>1, Invariance, PTL

\* An effect takes place twice only after a lapse or a failed attempt.
THEOREM NoCauselessRepetition == Spec => []RepeatedOnlyAfterLapseOrRetry
BY Invariance, PTL DEF IInv

\* Every step leaves a settled effect as it is: late marks are fenced by the
\* claim they lack, the other updates look at pending effects only.
LEMMA SettledStep ==
  ASSUME IInv, Next, NEW f \in Effects, Terminal(store[f].status)
  PROVE  store'[f] = store[f]
<1> USE DEF IInv, TypeOK, Terminal
<1>1. store[f].claim = NoRun /\ ~store[f].waiting /\ ~Eligible(f)
  BY DEF StoreShape, Eligible
<1>2. ASSUME NEW r \in Runs PROVE ~HoldsClaim(store[f], r)
  BY DEF HoldsClaim
<1>3. ASSUME NEW e \in Effects, Enqueue(e) PROVE store'[f] = store[f]
  BY <1>3 DEF Enqueue, Enqueued
<1>4. ASSUME NEW e \in Effects, ClaimLapses(e) PROVE store'[f] = store[f]
  BY <1>4, <1>1 DEF ClaimLapses
<1>5. ASSUME NEW e \in Effects, BackoffElapses(e) PROVE store'[f] = store[f]
  BY <1>5, <1>1 DEF BackoffElapses
<1>6. ASSUME NEW r \in Runs, NEW S \in SUBSET EligibleEffects PROVE Claimed(S, r)[f] = store[f]
  BY <1>1 DEF Claimed, EligibleEffects
<1>7. ASSUME NEW r \in Runs, NEW e \in Effects, SelectedClaim(r, e) PROVE store'[f] = store[f]
  BY <1>7, <1>6 DEF SelectedClaim, StartRun, EligibleEffects
<1>8. ASSUME NEW r \in Runs, MaintenanceClaim(r) PROVE store'[f] = store[f]
  BY <1>8, <1>6 DEF MaintenanceClaim, StartRun
<1>9. ASSUME NEW r \in Runs, MaintenanceRecover(r) PROVE store'[f] = store[f]
  BY <1>9, <1>6 DEF MaintenanceRecover
<1>10. ASSUME NEW r \in Runs, MarkOutboxEffectDone(r) PROVE store'[f] = store[f]
  BY <1>10, <1>2 DEF MarkOutboxEffectDone, MarkedDone
<1>11. ASSUME NEW r \in Runs, MarkOutboxEffectFailed(r) PROVE store'[f] = store[f]
  BY <1>11, <1>2 DEF MarkOutboxEffectFailed, MarkedFailed
<1>12. ASSUME NEW r \in Runs, RunStep(r) PROVE store'[f] = store[f]
  BY <1>12, <1>10, <1>11 DEF RunStep, CallHandler, ReturnSummary, HandlerSucceeds, HandlerFails
<1>13. ASSUME NEW r \in Runs, MarkDoneThrows(r) \/ Abort(r) PROVE store'[f] = store[f]
  BY <1>13 DEF MarkDoneThrows, Abort
<1> QED
  BY <1>3, <1>4, <1>5, <1>7, <1>8, <1>9, <1>12, <1>13
     DEF Next, AbandonedClaimLapses, HandlerOutlivesClaim

\* Done and failed are final, for any number of runs and faults.
THEOREM SettledForEver == Spec => TerminalIsFinal
<1>1. IInv /\ [Next]_vars =>
        [\A e \in Effects : Terminal(store[e].status) => store'[e] = store[e]]_vars
  BY SettledStep
<1> QED BY <1>1, Invariance, PTL DEF Spec, TerminalIsFinal

-----------------------------------------------------------------------------
\* The outbox implements EffectLifecycle: the steps that matter are the
\* first Enqueue, an application, and a mark that finds its claim in place.
LEMMA RefinementInit == Init => Lifecycle!Init
BY DEF Init, Lifecycle!Init, Absent

\* Steps that move no status, no attempt and no application are stutters.
LEMMA RefinementStutter ==
  ASSUME applied' = applied,
         \A e \in Effects : /\ store'[e].status = store[e].status
                            /\ store'[e].attempts = store[e].attempts
  PROVE  UNCHANGED Lifecycle!vars
BY DEF Lifecycle!vars

LEMMA RefinementApply ==
  ASSUME IInv, NEW r \in Runs, run[r].pc = "executing", UNCHANGED store,
         NEW e \in run[r].current, Apply(e)
  PROVE  [Lifecycle!Next]_(Lifecycle!vars)
<1> USE DEF IInv, TypeOK
<1>1. e \in Effects /\ store[e].status # "absent"
      /\ \A d \in DependsOn[e] : d \in Effects /\ store[d].status = "done"
  BY DependsOnType DEF WorkIsReady, AtWork, RunState
<1>2. {f \in Effects : applied'[f] > 0} = {f \in Effects : applied[f] > 0} \cup {e}
  BY <1>1 DEF Apply
<1>3. Lifecycle!TakePlace(e)
  BY <1>1, <1>2 DEF Lifecycle!TakePlace
<1> QED BY <1>1, <1>3 DEF Lifecycle!Next

LEMMA RefinementMarkDone ==
  ASSUME IInv, NEW r \in Runs, MarkOutboxEffectDone(r)
  PROVE  [Lifecycle!Next]_(Lifecycle!vars)
<1> USE DEF IInv, TypeOK
<1>1. PICK e \in run[r].current : store' = [store EXCEPT ![e] = MarkedDone(store[e], r)]
  BY DEF MarkOutboxEffectDone
<1>2. e \in Effects /\ applied[e] > 0
  BY DEF RunState, MarkOutboxEffectDone, MarkDoneIsEarned
<1>3. CASE ~HoldsClaim(store[e], r)
  BY <1>1, <1>3, RefinementStutter DEF MarkedDone, MarkOutboxEffectDone, history
<1>4. CASE HoldsClaim(store[e], r)
  <2>1. store[e].status = "pending"
    BY <1>2, <1>4, NoRunIsNotARun DEF HoldsClaim, StoreShape
  <2>2. store'[e].status = "done" /\ store'[e].attempts = store[e].attempts
    BY <1>1, <1>2, <1>4, UnclaimedIsEffect DEF MarkedDone, Effect
  <2>3. Lifecycle!Complete(e)
    BY <1>1, <1>2, <2>1, <2>2 DEF Lifecycle!Complete, MarkOutboxEffectDone, history
  <2> QED BY <1>2, <2>3 DEF Lifecycle!Next
<1> QED BY <1>3, <1>4

LEMMA RefinementMarkFailed ==
  ASSUME IInv, NEW r \in Runs, MarkOutboxEffectFailed(r)
  PROVE  [Lifecycle!Next]_(Lifecycle!vars)
<1> USE DEF IInv, TypeOK
<1>1. PICK e \in run[r].current : store' = [store EXCEPT ![e] = MarkedFailed(store[e], r)]
  BY DEF MarkOutboxEffectFailed
<1>2. e \in Effects
  BY DEF RunState
<1>3. CASE ~HoldsClaim(store[e], r)
  BY <1>1, <1>3, RefinementStutter DEF MarkedFailed, MarkOutboxEffectFailed, history
<1>4. CASE HoldsClaim(store[e], r)
  <2>1. store[e].status = "pending" /\ store[e].attempts \in Nat
    BY <1>2, <1>4, NoRunIsNotARun DEF HoldsClaim, StoreShape, Effect
  <2>2. /\ store'[e].attempts = store[e].attempts + 1
        /\ store'[e].status = IF store[e].attempts + 1 >= MaxAttempts
                                THEN "failed" ELSE store[e].status
    <3> DEFINE u == Unclaimed(store[e])
               a == store[e].attempts + 1
    <3>1. u \in Effect /\ u.status = "pending"
      BY <1>2, <2>1, UnclaimedIsEffect
    <3>2. store'[e] = IF a >= MaxAttempts
                        THEN [u EXCEPT !.attempts = a, !.status = "failed"]
                        ELSE [u EXCEPT !.attempts = a, !.waiting = TRUE]
      BY <1>1, <1>2, <1>4 DEF MarkedFailed
    <3> QED BY <2>1, <3>1, <3>2 DEF Effect
  <2>3. Lifecycle!FailAttempt(e)
    BY <1>1, <1>2, <2>1, <2>2 DEF Lifecycle!FailAttempt, MarkOutboxEffectFailed, history
  <2> QED BY <1>2, <2>3 DEF Lifecycle!Next
<1> QED BY <1>3, <1>4
LEMMA RefinementStep == IInv /\ [Next]_vars => [Lifecycle!Next]_(Lifecycle!vars)
<1> SUFFICES ASSUME IInv, [Next]_vars PROVE [Lifecycle!Next]_(Lifecycle!vars)
  OBVIOUS
<1> USE DEF IInv, TypeOK
<1>1. CASE UNCHANGED vars
  BY <1>1, RefinementStutter DEF vars
<1>2. ASSUME NEW e \in Effects, Enqueue(e) PROVE [Lifecycle!Next]_(Lifecycle!vars)
  <2>1. CASE store[e].status # "absent"
    BY <1>2, <2>1, RefinementStutter DEF Enqueue, Enqueued, history
  <2>2. CASE store[e].status = "absent"
    <3>1. store[e].attempts = 0
      BY <2>2 DEF StoreShape
    <3>2. store'[e] = Requested
      BY <1>2, <2>2 DEF Enqueue, Enqueued
    <3>3. /\ store'[e].status = "pending" /\ store'[e].attempts = store[e].attempts
          /\ \A f \in Effects \ {e} : store'[f] = store[f]
          /\ applied' = applied
      BY <1>2, <3>1, <3>2 DEF Enqueue, Requested, history
    <3>4. Lifecycle!Request(e)
      BY <2>2, <3>3 DEF Lifecycle!Request
    <3> QED BY <3>4 DEF Lifecycle!Next
  <2> QED BY <2>1, <2>2
<1>3. ASSUME NEW e \in Effects, ClaimLapses(e) \/ BackoffElapses(e)
      PROVE  [Lifecycle!Next]_(Lifecycle!vars)
  <2>1. \A f \in Effects : /\ store'[f].status = store[f].status
                           /\ store'[f].attempts = store[f].attempts
    BY <1>3 DEF ClaimLapses, BackoffElapses, Effect
  <2> QED BY <1>3, <2>1, RefinementStutter DEF ClaimLapses, BackoffElapses, history
<1>4. ASSUME NEW r \in Runs, NEW S \in SUBSET EligibleEffects, store' = Claimed(S, r),
             UNCHANGED history
      PROVE  [Lifecycle!Next]_(Lifecycle!vars)
  <2>1. \A f \in Effects : /\ store'[f].status = store[f].status
                           /\ store'[f].attempts = store[f].attempts
    <3> SUFFICES ASSUME NEW f \in Effects
                 PROVE  /\ Claimed(S, r)[f].status = store[f].status
                        /\ Claimed(S, r)[f].attempts = store[f].attempts
      BY <1>4
    <3>1. CASE f \in S
      <4>1. Claimed(S, r)[f] = [store[f] EXCEPT !.claim = r, !.lapsed = FALSE]
        BY <3>1 DEF Claimed
      <4> QED BY <4>1 DEF Effect
    <3>2. CASE f \notin S
      BY <3>2, UnclaimedIsEffect DEF Claimed
    <3> QED BY <3>1, <3>2
  <2> QED BY <1>4, <2>1, RefinementStutter DEF history
<1>5. ASSUME NEW r \in Runs, NEW e \in Effects, SelectedClaim(r, e)
      PROVE  [Lifecycle!Next]_(Lifecycle!vars)
  BY <1>4, <1>5 DEF SelectedClaim, StartRun, EligibleEffects
<1>6. ASSUME NEW r \in Runs, MaintenanceClaim(r) \/ MaintenanceRecover(r)
      PROVE  [Lifecycle!Next]_(Lifecycle!vars)
  BY <1>4, <1>6 DEF MaintenanceClaim, StartRun, MaintenanceRecover
<1>7. ASSUME NEW r \in Runs, HandlerSucceeds(r)
      PROVE  [Lifecycle!Next]_(Lifecycle!vars)
  BY <1>7, RefinementApply DEF HandlerSucceeds
<1>8. ASSUME NEW r \in Runs, HandlerFails(r)
      PROVE  [Lifecycle!Next]_(Lifecycle!vars)
  BY <1>8, RefinementApply, RefinementStutter DEF HandlerFails
<1>9. ASSUME NEW r \in Runs, RunStep(r)
      PROVE  [Lifecycle!Next]_(Lifecycle!vars)
  BY <1>7, <1>8, <1>9, RefinementMarkDone, RefinementMarkFailed, RefinementStutter
     DEF RunStep, CallHandler, ReturnSummary, history
<1>10. ASSUME NEW r \in Runs, MarkDoneThrows(r) \/ Abort(r)
       PROVE  [Lifecycle!Next]_(Lifecycle!vars)
  BY <1>10, RefinementStutter DEF MarkDoneThrows, Abort, history
<1> QED
  BY <1>1, <1>2, <1>3, <1>5, <1>6, <1>9, <1>10
     DEF Next, AbandonedClaimLapses, HandlerOutlivesClaim

\* The outbox, with all its runs and faults, implements the effect lifecycle.
THEOREM Refinement == Spec => ImplementsLifecycle
<1>1. IInv /\ [Next]_vars => [Lifecycle!Next]_(Lifecycle!vars)
  BY RefinementStep
<1> QED
  BY <1>1, RefinementInit, Invariance, PTL DEF Spec, ImplementsLifecycle, Lifecycle!Spec
=============================================================================
