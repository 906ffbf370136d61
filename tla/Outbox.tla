------------------------------- MODULE Outbox -------------------------------
(***************************************************************************)
(* The durable outbox of a team (outbox.json) and the runs that execute    *)
(* its effects.  Every read-modify-write of the file happens under the     *)
(* file lock (updateOutboxStore), so it is one step here; between two such *)
(* steps of one run, runOutboxOnce awaits a handler, and any other process *)
(* or run may go ahead, an effect's claim may lapse, or the process of the *)
(* run may die.                                                            *)
(*                                                                         *)
(* Time is abstracted to the comparisons the code makes: `lapsed' says     *)
(* that claim.expiresAt <= now, `waiting' that nextAttemptAt > now.        *)
(***************************************************************************)
EXTENDS Naturals, FiniteSets

CONSTANTS Effects,      \* effect ids: outboxEffectId hashes the idempotency key
          Runs,         \* concurrent calls of runOutboxOnce, in any process
          DependsOn,    \* [Effects -> SUBSET Effects], the dependsOn of each
          MaxAttempts,  \* maxAttempts of every effect (default 3)
          Limit,        \* most effects one maintenance run claims (default 10)
          MaxFaults,    \* runs that die, lose the lock or outlive a claim (a bound)
          NoRun         \* `claim' of an effect nobody claims

ASSUME DependsOnType    == DependsOn \in [Effects -> SUBSET Effects]
ASSUME MaxAttemptsType  == MaxAttempts \in Nat \ {0}
ASSUME LimitType        == Limit \in Nat \ {0}
ASSUME MaxFaultsType    == MaxFaults \in Nat
ASSUME NoRunIsNotARun   == NoRun \notin Runs

VARIABLES
  store,    \* outbox.json: [Effects -> Effect], status "absent" if not there
  run,      \* [Runs -> RunState], the local state of each call
  faults,   \* how many of these faults happened so far
  applied,  \* history: how often the handler's change took place (2: or more)
  lapsedEver \* history: effects of which some claim ever lapsed

vars == <<store, run, faults, applied, lapsedEver>>
history == <<applied, lapsedEver>>

Status == {"absent", "pending", "done", "failed"}

Effect == [status: Status, attempts: 0 .. MaxAttempts, claim: Runs \cup {NoRun},
           lapsed: BOOLEAN, waiting: BOOLEAN]

\* claimed: effects of the call's claim pass it has not finished yet;
\* current: the one whose handler is awaited, then whose mark is due.
RunState == [pc: {"idle", "picking", "executing", "markDone", "markFailed"},
             claimed: SUBSET Effects, current: SUBSET Effects]

Absent  == [status |-> "absent", attempts |-> 0, claim |-> NoRun,
            lapsed |-> FALSE, waiting |-> FALSE]
Requested == [status |-> "pending", attempts |-> 0, claim |-> NoRun,
              lapsed |-> FALSE, waiting |-> FALSE]
IdleRun == [pc |-> "idle", claimed |-> {}, current |-> {}]

Terminal(status) == status \in {"done", "failed"}

Unclaimed(effect) == [effect EXCEPT !.claim = NoRun, !.lapsed = FALSE]

-----------------------------------------------------------------------------
\* Store operations: the effect of one locked update on one effect.

\* (An operator named ...Mutant is a plausible bug in the operator after it; it
\* is used only to see that a property notices.)
EnqueuedMutantRevives(effect) == [effect EXCEPT !.status = "pending"]

\* A new effect, or, for a known idempotency key, the effect already there:
\* its payload may be replaced while it is pending, its progress never is.
Enqueued(effect) ==
  IF effect.status = "absent" THEN Requested ELSE effect

EligibleMutantNoDependencies(e) ==
  /\ store[e].status = "pending"
  /\ store[e].claim = NoRun \/ store[e].lapsed
  /\ ~store[e].waiting

EligibleMutantClaimed(e) ==
  /\ store[e].status = "pending"
  /\ ~store[e].waiting
  /\ \A d \in DependsOn[e] : store[d].status = "done"

\* claimOutboxEffects: what a claim pass may take.
Eligible(e) ==
  /\ store[e].status = "pending"
  /\ store[e].claim = NoRun \/ store[e].lapsed
  /\ ~store[e].waiting
  /\ \A d \in DependsOn[e] : store[d].status = "done"

EligibleEffects == {e \in Effects : Eligible(e)}

\* The claim pass of run r that takes S: it also drops every lapsed claim.
Claimed(S, r) ==
  [e \in Effects |->
     IF e \in S
       THEN [store[e] EXCEPT !.claim = r, !.lapsed = FALSE]
       ELSE IF store[e].status = "pending" /\ store[e].lapsed
              THEN Unclaimed(store[e]) ELSE store[e]]

\* claimId fencing: only the claim of this very call may be answered.
HoldsClaim(effect, r) == ~Terminal(effect.status) /\ effect.claim = r

MarkedDoneMutantUnfenced(effect, r) == [Unclaimed(effect) EXCEPT !.status = "done"]

MarkedDone(effect, r) ==
  IF HoldsClaim(effect, r)
    THEN [Unclaimed(effect) EXCEPT !.status = "done"] ELSE effect

MarkedFailedMutantUnfenced(effect, r) ==
  [Unclaimed(effect) EXCEPT !.attempts = IF @ = MaxAttempts THEN @ ELSE @ + 1,
                            !.status = "pending", !.waiting = TRUE]

MarkedFailedMutantUncounted(effect, r) ==
  IF ~HoldsClaim(effect, r) THEN effect
  ELSE [Unclaimed(effect) EXCEPT !.waiting = TRUE]

MarkedFailed(effect, r) ==
  IF ~HoldsClaim(effect, r) THEN effect
  ELSE LET attempts == effect.attempts + 1 IN
       IF attempts >= MaxAttempts
         THEN [Unclaimed(effect) EXCEPT !.attempts = attempts, !.status = "failed"]
         ELSE [Unclaimed(effect) EXCEPT !.attempts = attempts, !.waiting = TRUE]

-----------------------------------------------------------------------------
Init ==
  /\ store = [e \in Effects |-> Absent]
  /\ run = [r \in Runs |-> IdleRun]
  /\ faults = 0
  /\ applied = [e \in Effects |-> 0]
  /\ lapsedEver = {}

\* An application enqueues an effect, perhaps again; the only dependsOn the
\* applications give is the mailbox effect they enqueued just before.
Enqueue(e) ==
  /\ \A d \in DependsOn[e] : store[d].status # "absent"
  /\ store' = [store EXCEPT ![e] = Enqueued(store[e])]
  /\ UNCHANGED <<run, faults, history>>

StartRun(r, S) ==
  /\ run[r].pc = "idle"
  /\ S # {}
  /\ store' = Claimed(S, r)
  /\ run' = [run EXCEPT ![r] = [pc |-> "picking", claimed |-> S, current |-> {}]]
  /\ UNCHANGED <<faults, history>>

\* runSelectedOutboxEffects: an application runs the effect it just enqueued.
SelectedClaim(r, e) == Eligible(e) /\ StartRun(r, {e})

\* runOutboxMaintenanceForTeam: recoverExpiredOutboxClaims, then a claim pass
\* over everything, in an order the model leaves open, up to the limit.
MaintenanceClaim(r) ==
  \E S \in SUBSET EligibleEffects :
    /\ \/ S = EligibleEffects /\ Cardinality(S) <= Limit
       \/ Cardinality(S) = Limit /\ Cardinality(EligibleEffects) > Limit
    /\ StartRun(r, S)

\* Recovery that finds nothing to claim still drops lapsed claims.
MaintenanceRecover(r) ==
  /\ run[r].pc = "idle"
  /\ \E e \in Effects : store[e].status = "pending" /\ store[e].lapsed
  /\ store' = Claimed({}, r)
  /\ UNCHANGED <<run, faults, history>>

\* The loop over the claimed effects: call the next handler, or return.
CallHandler(r, e) ==
  /\ run[r].pc = "picking"
  /\ e \in run[r].claimed
  /\ run' = [run EXCEPT ![r].pc = "executing", ![r].current = {e},
                        ![r].claimed = @ \ {e}]
  /\ UNCHANGED <<store, faults, history>>

ReturnSummary(r) ==
  /\ run[r].pc = "picking"
  /\ run[r].claimed = {}
  /\ run' = [run EXCEPT ![r] = IdleRun]
  /\ UNCHANGED <<store, faults, history>>

\* The awaited handler succeeds: what it had to change is changed.
Apply(e) == applied' = [applied EXCEPT ![e] = IF @ = 0 THEN 1 ELSE 2]

HandlerSucceeds(r) ==
  /\ run[r].pc = "executing"
  /\ \E e \in run[r].current : Apply(e)
  /\ run' = [run EXCEPT ![r].pc = "markDone"]
  /\ UNCHANGED <<store, faults, lapsedEver>>

HandlerFailsMutantIgnored(r) ==
  /\ run[r].pc = "executing"
  /\ run' = [run EXCEPT ![r].pc = "markDone"]
  /\ UNCHANGED <<store, faults, history>>

\* The handler throws or answers ok: false, before or after its change.
HandlerFails(r) ==
  /\ run[r].pc = "executing"
  /\ \/ UNCHANGED applied
     \/ \E e \in run[r].current : Apply(e)
  /\ run' = [run EXCEPT ![r].pc = "markFailed"]
  /\ UNCHANGED <<store, faults, lapsedEver>>

MarkOutboxEffectDone(r) ==
  /\ run[r].pc = "markDone"
  /\ \E e \in run[r].current :
       store' = [store EXCEPT ![e] = MarkedDone(store[e], r)]
  /\ run' = [run EXCEPT ![r].pc = "picking", ![r].current = {}]
  /\ UNCHANGED <<faults, history>>

MarkOutboxEffectFailed(r) ==
  /\ run[r].pc = "markFailed"
  /\ \E e \in run[r].current :
       store' = [store EXCEPT ![e] = MarkedFailed(store[e], r)]
  /\ run' = [run EXCEPT ![r].pc = "picking", ![r].current = {}]
  /\ UNCHANGED <<faults, history>>

\* markDone throws (the file lock times out): the catch clause marks failed.
MarkDoneThrows(r) ==
  /\ faults < MaxFaults
  /\ run[r].pc = "markDone"
  /\ run' = [run EXCEPT ![r].pc = "markFailed"]
  /\ faults' = faults + 1
  /\ UNCHANGED <<store, history>>

\* The process dies, or markFailed throws out of the loop: the rest of the
\* claimed effects is forgotten, the claims stay in the file until they lapse.
Abort(r) ==
  /\ faults < MaxFaults
  /\ run[r].pc # "idle"
  /\ run' = [run EXCEPT ![r] = IdleRun]
  /\ faults' = faults + 1
  /\ UNCHANGED <<store, history>>

\* Time.  The claim of a run that is gone, or that went on without marking,
\* reaches its TTL; so may, as a fault, the claim of a run still at work on
\* the effect: a slow handler, or one of many effects claimed in one pass.
AtWork(r, e) == e \in run[r].claimed \cup run[r].current

ClaimLapses(e) ==
  /\ store[e].claim # NoRun
  /\ ~store[e].lapsed
  /\ store' = [store EXCEPT ![e].lapsed = TRUE]
  /\ lapsedEver' = lapsedEver \cup {e}
  /\ UNCHANGED <<run, applied>>

AbandonedClaimLapses(e) ==
  /\ \A r \in Runs : store[e].claim = r => ~AtWork(r, e)
  /\ ClaimLapses(e)
  /\ UNCHANGED faults

HandlerOutlivesClaim(e) ==
  /\ faults < MaxFaults
  /\ \E r \in Runs : store[e].claim = r /\ AtWork(r, e)
  /\ ClaimLapses(e)
  /\ faults' = faults + 1

BackoffElapses(e) ==
  /\ store[e].waiting
  /\ store' = [store EXCEPT ![e].waiting = FALSE]
  /\ UNCHANGED <<run, faults, history>>

RunStep(r) ==
  \/ \E e \in Effects : CallHandler(r, e)
  \/ ReturnSummary(r)
  \/ HandlerSucceeds(r)
  \/ HandlerFails(r)
  \/ MarkOutboxEffectDone(r)
  \/ MarkOutboxEffectFailed(r)

Next ==
  \/ \E e \in Effects :
       \/ Enqueue(e)
       \/ AbandonedClaimLapses(e)
       \/ HandlerOutlivesClaim(e)
       \/ BackoffElapses(e)
  \/ \E r \in Runs :
       \/ \E e \in Effects : SelectedClaim(r, e)
       \/ MaintenanceClaim(r)
       \/ MaintenanceRecover(r)
       \/ RunStep(r)
       \/ MarkDoneThrows(r)
       \/ Abort(r)

Spec == Init /\ [][Next]_vars

-----------------------------------------------------------------------------
\* Time passes, and a started run goes on (handlers return, and all but a
\* bounded number of times within the TTL of their claim: a handler that is
\* always slower is executed for ever).  Nothing calls maintenance by itself:
\* no timer does, only hooks and commands.
Fairness ==
  /\ \A e \in Effects : WF_vars(AbandonedClaimLapses(e)) /\ WF_vars(BackoffElapses(e))
  /\ \A r \in Runs : WF_vars(RunStep(r))

FairSpec == Spec /\ Fairness

-----------------------------------------------------------------------------
\* What the variables hold.
TypeOK ==
  /\ store \in [Effects -> Effect]
  /\ run \in [Runs -> RunState]
  /\ faults \in 0 .. MaxFaults
  /\ applied \in [Effects -> 0 .. 2]
  /\ lapsedEver \subseteq Effects

\* A handler runs only after everything its effect depends on is recorded
\* done: a task message ref never precedes the mailbox message it refers to,
\* whichever run executes either (claimOutboxEffects tests dependsOn under
\* the lock, the handler runs later and in another process).
DependencyOrder ==
  \A e \in Effects : applied[e] > 0 =>
    \A d \in DependsOn[e] : store[d].status = "done"

\* An effect recorded done has really taken place at least once, also when
\* claims lapsed, runs died and late answers of old runs arrived.
DoneMeansApplied ==
  \A e \in Effects : store[e].status = "done" => applied[e] > 0

\* Giving up costs exactly the budget: an effect is failed when and only when
\* maxAttempts attempts of it were recorded failed, whichever runs made them.
FailedMeansExhausted ==
  \A e \in Effects :
    store[e].status = "failed" <=> store[e].attempts = MaxAttempts

\* Until one of its claims lapses, an effect is in the hands of one run.
SoleRunUntilLapse ==
  \A e \in Effects \ lapsedEver : \A r1, r2 \in Runs :
    AtWork(r1, e) /\ AtWork(r2, e) => r1 = r2

\* At-least-once, and no more than that without cause: an effect takes place
\* twice only if a claim lapsed while its run was out, or an attempt failed.
RepeatedOnlyAfterLapseOrRetry ==
  \A e \in Effects : applied[e] = 2 => e \in lapsedEver \/ store[e].attempts > 0

\* Done and failed are final: no late answer, re-enqueue, recovery or claim
\* pass of any run changes an effect that reached them.
TerminalIsFinal ==
  [][\A e \in Effects : Terminal(store[e].status) => store'[e] = store[e]]_vars

\* The team is not idle: while an effect is due, some session of it starts,
\* takes a turn or runs a team command, each of which calls maintenance
\* (hooks/session.ts:33, hooks/agent.ts:23,33, hooks/context.ts:30,
\* commands/team.ts:54).
MaintenanceIsCalled == WF_vars(\E r \in Runs : MaintenanceClaim(r))

\* In a team that is not idle every enqueued effect is settled in the end,
\* except one that waits for a dependency that failed: claimOutboxEffects
\* wants every dependency done, so such an effect stays pending for ever.
SettledUnlessDependencyFailed ==
  MaintenanceIsCalled =>
    \A e \in Effects :
      store[e].status = "pending" ~>
        \/ Terminal(store[e].status)
        \/ \E d \in DependsOn[e] : store[d].status = "failed"
=============================================================================
