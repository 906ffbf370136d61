---------------------------- MODULE LeaderProofs ----------------------------
(***************************************************************************)
(* Proofs about what the session of a leader is shown: its signals         *)
(* (LeaderSignals), for any processes, messages and faults, and its        *)
(* console (TeamPanel), for any teams, members, lists and screens.  The    *)
(* two share no variable; each has its own specification.                  *)
(*                                                                         *)
(* Signals.  That the stores tell the truth needs to know what a process   *)
(* has seen take place by the time it marks, or by the time it believes a  *)
(* message projected (Witnessed).  That nothing is repeated without cause  *)
(* is a matter of counting (Budget): every process about to show a         *)
(* message, or about to give its claim back, and the free claim itself,    *)
(* are paid for by the first show and by the excuses there were.           *)
(*                                                                         *)
(* Console.  That the row acted on is on the screen needs each of the      *)
(* indices kept of a list to be inside that list, whichever counts (Fits). *)
(* That a deed is about what was named needs the same of every entry of    *)
(* the menu (MenuFits), from the moment it opens to the dialog.            *)
(***************************************************************************)
EXTENDS LeaderSignals, TeamPanel, FiniteSetTheorems, WellFoundedInduction, TLAPS

-----------------------------------------------------------------------------
(* The signals. *)

\* What a process knows to have taken place.
WitnessedBy(p) ==
  /\ \A m \in seen[p] : shown[m] > 0
  /\ pc[p] \in {"markProjected", "claimAttention"} \cup HoldsAttention => shown[Item(p)] > 0
  /\ pc[p] = "markSent" => woken[Item(p)] > 0

Witnessed == \A p \in Processes : WitnessedBy(p)

\* p holds a claim on m that is not used up: it is about to show it, or to wake
\* for it, or did not succeed and is about to give the claim back.
OwesShow(p, m) == pc[p] \in {"project", "markProjectionFailed"} /\ Item(p) = m
OwesWake(p, m) == pc[p] \in {"wake", "markAttentionFailed"} /\ Item(p) = m

ToShow(m) == {p \in Processes : OwesShow(p, m)}
ToWake(m) == {p \in Processes : OwesWake(p, m)}

One(condition) == IF condition THEN 1 ELSE 0

\* Shows and wakes, those to come included, that the excuses pay for.
ShowBudget ==
  \A m \in Messages :
    /\ IsFiniteSet(ToShow(m))
    /\ shown[m] + Cardinality(ToShow(m)) + One(ProjectionFree(m)) <= 1 + excuses[m]
WakeBudget ==
  \A m \in Messages :
    /\ IsFiniteSet(ToWake(m))
    /\ woken[m] + Cardinality(ToWake(m)) + One(AttentionFree(m)) <= 1 + excuses[m]

IInv ==
  /\ TypeOK
  /\ Witnessed
  /\ SignalsTellTheTruth
  /\ ShowBudget
  /\ WakeBudget

-----------------------------------------------------------------------------
(* Facts of the model's operators. *)

\* Every set of numbers that has any has a least.
LEMMA LeastOfSet ==
  ASSUME NEW S \in SUBSET Nat, S # {}
  PROVE  \E m \in S : \A n \in S : m <= n
<1>1. PICK m \in S : \A n \in S : ~ (<<n, m>> \in OpToRel(<, Nat))
  BY NatLessThanWellFounded, WFMin
<1>2. ASSUME NEW n \in S PROVE m <= n
  <2>1. <<n, m>> \in Nat \X Nat /\ <<n, m>>[1] = n /\ <<n, m>>[2] = m
    OBVIOUS
  <2>2. ~ (n < m)
    BY <1>1, <2>1 DEF OpToRel
  <2> QED BY <2>2
<1> QED BY <1>2

\* A sync is at one of the messages it has yet to do.
LEMMA ItemOfSync ==
  ASSUME TypeOK, NEW p \in Processes, pc[p] \in Steps
  PROVE  Item(p) \in todo[p] /\ Item(p) \in Messages
<1>1. todo[p] # {} /\ todo[p] \subseteq Messages /\ Messages \subseteq Nat
  BY SignalsAssumption DEF TypeOK, Messages
<1>2. \E m \in todo[p] : \A n \in todo[p] : m <= n
  BY <1>1, LeastOfSet
<1>3. Item(p) \in todo[p]
  BY <1>2 DEF Item
<1> QED BY <1>1, <1>3

\* What a step of p does to a set of processes that p may enter or leave.
LEMMA CountOne ==
  ASSUME NEW S, IsFiniteSet(S), NEW T, NEW p, S \ {p} = T \ {p}
  PROVE  /\ IsFiniteSet(T)
         /\ Cardinality(S) \in Nat /\ Cardinality(T) \in Nat
         /\ Cardinality(T) = Cardinality(S) - One(p \in S) + One(p \in T)
<1>1. IsFiniteSet(S \ {p}) /\ Cardinality(S \ {p}) = Cardinality(S) - One(p \in S)
  BY FS_RemoveElement, FS_CardinalityType DEF One
<1>2. CASE p \in T
  <2>1. T = (S \ {p}) \cup {p}
    BY <1>2
  <2>2. IsFiniteSet(T) /\ Cardinality(T) = Cardinality(S \ {p}) + 1
    BY <1>1, <2>1, FS_AddElement
  <2> QED BY <1>1, <1>2, <2>2, FS_CardinalityType DEF One
<1>3. CASE p \notin T
  <2>1. T = S \ {p}
    BY <1>3
  <2> QED BY <1>1, <1>3, <2>1, FS_CardinalityType DEF One
<1> QED BY <1>2, <1>3

\* What a step of p costs, in shows and in wakes to come of m.
ShowCost(p, m) == shown[m] + One(OwesShow(p, m)) + One(ProjectionFree(m))
WakeCost(p, m) == woken[m] + One(OwesWake(p, m)) + One(AttentionFree(m))

OthersStill(p) ==
  \A q \in Processes \ {p} : pc'[q] = pc[q] /\ todo'[q] = todo[q] /\ seen'[q] = seen[q]

NothingUndone == \A m \in Messages : shown'[m] >= shown[m] /\ woken'[m] >= woken[m]

\* A step of process p keeps the budgets if what it adds is paid for.
LEMMA BudgetsKept ==
  ASSUME IInv, TypeOK', NEW p \in Processes, OthersStill(p),
         \A m \in Messages :
           /\ ShowCost(p, m)' - ShowCost(p, m) <= excuses'[m] - excuses[m]
           /\ WakeCost(p, m)' - WakeCost(p, m) <= excuses'[m] - excuses[m]
  PROVE  ShowBudget' /\ WakeBudget'
<1>t. \A m \in Messages : /\ shown[m] \in Nat /\ woken[m] \in Nat /\ excuses[m] \in Nat
                          /\ shown'[m] \in Nat /\ woken'[m] \in Nat /\ excuses'[m] \in Nat
  BY DEF IInv, TypeOK
<1>i. \A q \in Processes \ {p} : pc'[q] = pc[q] /\ Item(q)' = Item(q)
  BY DEF OthersStill, Item
<1>1. ASSUME NEW m \in Messages
      PROVE  /\ IsFiniteSet(ToShow(m))'
             /\ (shown[m] + Cardinality(ToShow(m)) + One(ProjectionFree(m)) <= 1 + excuses[m])'
  <2>1. ToShow(m) \ {p} = (ToShow(m))' \ {p}
    BY <1>i DEF ToShow, OwesShow
  <2>2. p \in ToShow(m) <=> OwesShow(p, m)
    BY DEF ToShow
  <2>3. p \in (ToShow(m))' <=> OwesShow(p, m)'
    BY DEF ToShow
  <2>4. /\ IsFiniteSet(ToShow(m))
        /\ shown[m] + Cardinality(ToShow(m)) + One(ProjectionFree(m)) <= 1 + excuses[m]
    BY DEF IInv, ShowBudget
  <2>5. /\ IsFiniteSet(ToShow(m))'
        /\ Cardinality(ToShow(m)) \in Nat /\ Cardinality(ToShow(m))' \in Nat
        /\ Cardinality(ToShow(m))' =
             Cardinality(ToShow(m)) - One(p \in ToShow(m)) + One(p \in ToShow(m))'
    BY <2>1, <2>4, CountOne DEF One
  <2> QED BY <1>t, <2>2, <2>3, <2>4, <2>5 DEF ShowCost, One
<1>2. ASSUME NEW m \in Messages
      PROVE  /\ IsFiniteSet(ToWake(m))'
             /\ (woken[m] + Cardinality(ToWake(m)) + One(AttentionFree(m)) <= 1 + excuses[m])'
  <2>1. ToWake(m) \ {p} = (ToWake(m))' \ {p}
    BY <1>i DEF ToWake, OwesWake
  <2>2. p \in ToWake(m) <=> OwesWake(p, m)
    BY DEF ToWake
  <2>3. p \in (ToWake(m))' <=> OwesWake(p, m)'
    BY DEF ToWake
  <2>4. /\ IsFiniteSet(ToWake(m))
        /\ woken[m] + Cardinality(ToWake(m)) + One(AttentionFree(m)) <= 1 + excuses[m]
    BY DEF IInv, WakeBudget
  <2>5. /\ IsFiniteSet(ToWake(m))'
        /\ Cardinality(ToWake(m)) \in Nat /\ Cardinality(ToWake(m))' \in Nat
        /\ Cardinality(ToWake(m))' =
             Cardinality(ToWake(m)) - One(p \in ToWake(m)) + One(p \in ToWake(m))'
    BY <2>1, <2>4, CountOne DEF One
  <2> QED BY <1>t, <2>2, <2>3, <2>4, <2>5 DEF WakeCost, One
<1> QED BY <1>1, <1>2 DEF ShowBudget, WakeBudget

LEMMA WitnessedKept ==
  ASSUME IInv, TypeOK', NEW p \in Processes, OthersStill(p), NothingUndone, WitnessedBy(p)'
  PROVE  Witnessed'
<1> SUFFICES ASSUME NEW q \in Processes \ {p} PROVE WitnessedBy(q)'
  BY DEF Witnessed
<1>1. pc'[q] = pc[q] /\ seen'[q] = seen[q] /\ Item(q)' = Item(q)
  BY DEF OthersStill, Item
<1>2. WitnessedBy(q)
  BY DEF IInv, Witnessed
<1>3. seen[q] \subseteq Messages /\ (pc[q] \in Steps => Item(q) \in Messages)
  BY ItemOfSync DEF IInv, TypeOK
<1>4. \A m \in Messages : shown[m] \in Nat /\ woken[m] \in Nat
  BY DEF IInv, TypeOK
<1>5. \A m \in Messages : (shown[m] > 0 => shown'[m] > 0) /\ (woken[m] > 0 => woken'[m] > 0)
  <2>1. \A m \in Messages : shown'[m] \in Nat /\ woken'[m] \in Nat
    BY DEF TypeOK
  <2> QED BY <1>4, <2>1 DEF NothingUndone
<1>6. (\A m \in seen[q] : shown[m] > 0)'
  BY <1>1, <1>2, <1>3, <1>5 DEF WitnessedBy
<1>7. (pc[q] \in {"markProjected", "claimAttention"} \cup HoldsAttention => shown[Item(q)] > 0)'
  <2> SUFFICES ASSUME (pc[q] \in {"markProjected", "claimAttention"} \cup HoldsAttention)'
               PROVE  shown'[Item(q)'] > 0
    OBVIOUS
  <2>1. pc[q] \in {"markProjected", "claimAttention"} \cup HoldsAttention
    BY <1>1 DEF HoldsAttention
  <2>2. shown[Item(q)] > 0
    BY <1>2, <2>1 DEF WitnessedBy
  <2>3. Item(q) \in Messages
    BY <1>3, <2>1 DEF Steps, HoldsAttention, HoldsProjection
  <2>4. shown'[Item(q)] > 0
    BY <1>5, <2>2, <2>3
  <2> QED BY <1>1, <2>4
<1>8. (pc[q] = "markSent" => woken[Item(q)] > 0)'
  <2> SUFFICES ASSUME pc'[q] = "markSent" PROVE woken'[Item(q)'] > 0
    OBVIOUS
  <2>1. woken[Item(q)] > 0
    BY <1>1, <1>2 DEF WitnessedBy
  <2>2. Item(q) \in Messages
    BY <1>1, <1>3 DEF Steps, HoldsAttention
  <2>3. woken'[Item(q)] > 0
    BY <1>5, <2>1, <2>2
  <2> QED BY <1>1, <2>3
<1> QED BY <1>6, <1>7, <1>8 DEF WitnessedBy

-----------------------------------------------------------------------------
(* What a step of a sync does to the place of its process. *)

\* p moves, to a step at a message or to none; the others stay.
Moved(p) ==
  /\ pc' \in [Processes -> {"down", "idle"} \cup Steps]
  /\ todo' \in [Processes -> SUBSET Messages]
  /\ \A q \in Processes : pc'[q] \in Steps <=> todo'[q] # {}
  /\ \A q \in Processes \ {p} : pc'[q] = pc[q] /\ todo'[q] = todo[q]

\* Where a process holds no claim and has no witness to bear.
Quiet == {"down", "idle", "look"}

LEMMA GoToMoves ==
  ASSUME TypeOK, NEW p \in Processes, pc[p] \in Steps, NEW step \in Steps, GoTo(p, step)
  PROVE  Moved(p) /\ pc'[p] = step /\ Item(p)' = Item(p)
<1>1. pc' = [pc EXCEPT ![p] = step] /\ todo' = todo
  BY DEF GoTo
<1>2. Item(p)' = Item(p)
  BY <1>1 DEF Item
<1> QED BY <1>1, <1>2 DEF TypeOK, Moved

LEMMA NextItemMoves ==
  ASSUME TypeOK, NEW p \in Processes, pc[p] \in Steps, NextItem(p)
  PROVE  Moved(p) /\ pc'[p] \in Quiet
<1> DEFINE rest == todo[p] \ {Item(p)}
<1>1. /\ todo' = [todo EXCEPT ![p] = rest]
      /\ pc' = [pc EXCEPT ![p] = IF rest = {} THEN "idle" ELSE "look"]
  BY DEF NextItem
<1>2. rest \in SUBSET Messages
  BY DEF TypeOK
<1> HIDE DEF rest
<1>3. "look" \in Steps /\ "idle" \notin Steps
  BY DEF Steps, HoldsProjection, HoldsAttention
<1> QED BY <1>1, <1>2, <1>3 DEF TypeOK, Moved, Quiet

LEMMA BeginSyncMoves ==
  ASSUME TypeOK, NEW p \in Processes, BeginSync(p)
  PROVE  Moved(p) /\ pc'[p] \in Quiet
<1>1. /\ todo' = [todo EXCEPT ![p] = Unread]
      /\ pc' = [pc EXCEPT ![p] = IF Unread = {} THEN "idle" ELSE "look"]
  BY DEF BeginSync
<1>2. Unread \in SUBSET Messages
  BY DEF Unread
<1>3. "look" \in Steps /\ "idle" \notin Steps
  BY DEF Steps, HoldsProjection, HoldsAttention
<1> QED BY <1>1, <1>2, <1>3 DEF TypeOK, Moved, Quiet

LEMMA GivingUpMoves ==
  ASSUME TypeOK, NEW p \in Processes, NEW place \in {"idle", "down"},
         pc' = [pc EXCEPT ![p] = place], todo' = [todo EXCEPT ![p] = {}]
  PROVE  Moved(p) /\ pc'[p] \in Quiet
<1>1. place \notin Steps
  BY DEF Steps, HoldsProjection, HoldsAttention
<1> QED BY <1>1 DEF TypeOK, Moved, Quiet

-----------------------------------------------------------------------------
(* Steps, put together from what they do. *)

LEMMA StepKeeps ==
  ASSUME IInv, TypeOK', NEW p \in Processes, OthersStill(p), NothingUndone,
         WitnessedBy(p)', SignalsTellTheTruth',
         \A m \in Messages :
           /\ ShowCost(p, m)' - ShowCost(p, m) <= excuses'[m] - excuses[m]
           /\ WakeCost(p, m)' - WakeCost(p, m) <= excuses'[m] - excuses[m]
  PROVE  IInv'
<1>1. ShowBudget' /\ WakeBudget'
  BY BudgetsKept
<1>2. Witnessed'
  BY WitnessedKept
<1> QED BY <1>1, <1>2 DEF IInv

\* Steps that leave the stores and the leader alone: p ends up where it owes nothing.
LEMMA QuietStepKeeps ==
  ASSUME IInv, NEW p \in Processes, Moved(p), pc'[p] \in Quiet,
         mail' \in [Messages -> {"absent", "unread", "read"}],
         seen' \in [Processes -> SUBSET Messages], seen'[p] \subseteq seen[p],
         \A q \in Processes \ {p} : seen'[q] = seen[q],
         throttled' \in [Processes -> BOOLEAN],
         faults' \in 0 .. MaxFaults,
         UNCHANGED <<stores, history>>
  PROVE  IInv'
<1>1. /\ projection' = projection /\ attention' = attention
      /\ shown' = shown /\ woken' = woken /\ excuses' = excuses
  BY DEF stores, history
<1>2. TypeOK'
  BY <1>1 DEF IInv, TypeOK, Moved
<1>3. OthersStill(p) /\ NothingUndone
  <2>1. \A m \in Messages : shown[m] \in Nat /\ woken[m] \in Nat
    BY DEF IInv, TypeOK
  <2> QED BY <1>1, <2>1 DEF OthersStill, NothingUndone, Moved
<1>4. WitnessedBy(p)'
  <2>1. \A m \in seen[p] : shown[m] > 0
    BY DEF IInv, Witnessed, WitnessedBy
  <2>2. (\A m \in seen[p] : shown[m] > 0)'
    BY <1>1, <2>1
  <2> QED BY <2>2 DEF Quiet, WitnessedBy, HoldsAttention
<1>5. SignalsTellTheTruth'
  BY <1>1 DEF IInv, SignalsTellTheTruth
<1>6. ASSUME NEW m \in Messages
      PROVE  /\ ShowCost(p, m)' - ShowCost(p, m) <= excuses'[m] - excuses[m]
             /\ WakeCost(p, m)' - WakeCost(p, m) <= excuses'[m] - excuses[m]
  <2>1. (~OwesShow(p, m) /\ ~OwesWake(p, m))'
    BY DEF Quiet, OwesShow, OwesWake
  <2>2. ProjectionFree(m)' = ProjectionFree(m) /\ AttentionFree(m)' = AttentionFree(m)
    BY <1>1 DEF ProjectionFree, AttentionFree
  <2>3. shown[m] \in Nat /\ woken[m] \in Nat /\ excuses[m] \in Nat
    BY DEF IInv, TypeOK
  <2> QED BY <1>1, <2>1, <2>2, <2>3 DEF ShowCost, WakeCost, One
<1> QED BY <1>2, <1>3, <1>4, <1>5, <1>6, StepKeeps

\* Steps of no sync: time, and the mailbox.
LEMMA NobodyMovesKeeps ==
  ASSUME IInv, TypeOK', UNCHANGED <<pc, todo, seen, shown, woken>>, SignalsTellTheTruth',
         \A m \in Messages :
           /\ One(ProjectionFree(m)') - One(ProjectionFree(m)) <= excuses'[m] - excuses[m]
           /\ One(AttentionFree(m)') - One(AttentionFree(m)) <= excuses'[m] - excuses[m]
  PROVE  IInv'
<1>1. Witnessed'
  BY DEF IInv, Witnessed, WitnessedBy, Item
<1>2. ASSUME NEW m \in Messages PROVE ToShow(m)' = ToShow(m) /\ ToWake(m)' = ToWake(m)
  BY DEF ToShow, ToWake, OwesShow, OwesWake, Item
<1>3. ASSUME NEW m \in Messages
      PROVE  /\ IsFiniteSet(ToShow(m)) /\ IsFiniteSet(ToWake(m))
             /\ shown[m] + Cardinality(ToShow(m)) + One(ProjectionFree(m)) <= 1 + excuses[m]
             /\ woken[m] + Cardinality(ToWake(m)) + One(AttentionFree(m)) <= 1 + excuses[m]
             /\ shown[m] \in Nat /\ woken[m] \in Nat
             /\ excuses[m] \in Nat /\ excuses'[m] \in Nat
             /\ Cardinality(ToShow(m)) \in Nat /\ Cardinality(ToWake(m)) \in Nat
  BY FS_CardinalityType DEF IInv, TypeOK, ShowBudget, WakeBudget
<1>4. ShowBudget'
  BY <1>2, <1>3 DEF ShowBudget, One
<1>5. WakeBudget'
  BY <1>2, <1>3 DEF WakeBudget, One
<1> QED BY <1>1, <1>4, <1>5 DEF IInv

-----------------------------------------------------------------------------
(* The actions that are no step of a sync. *)

LEMMA MailAndThrottleKeep ==
  ASSUME IInv, UNCHANGED <<stores, history, pc, todo, seen, faults>>,
         mail' \in [Messages -> {"absent", "unread", "read"}],
         throttled' \in [Processes -> BOOLEAN]
  PROVE  IInv'
<1>1. /\ projection' = projection /\ attention' = attention
      /\ shown' = shown /\ woken' = woken /\ excuses' = excuses
  BY DEF stores, history
<1>2. TypeOK'
  BY <1>1 DEF IInv, TypeOK
<1>3. SignalsTellTheTruth'
  BY <1>1 DEF IInv, SignalsTellTheTruth
<1>4. ASSUME NEW n \in Messages
      PROVE  /\ One(ProjectionFree(n)') - One(ProjectionFree(n)) <= excuses'[n] - excuses[n]
             /\ One(AttentionFree(n)') - One(AttentionFree(n)) <= excuses'[n] - excuses[n]
  <2>1. excuses[n] \in Nat
    BY DEF IInv, TypeOK
  <2> QED BY <1>1, <2>1 DEF ProjectionFree, AttentionFree, One
<1> QED BY <1>1, <1>2, <1>3, <1>4, NobodyMovesKeeps

LEMMA PushKeeps ==
  ASSUME IInv, NEW m \in Messages, PushMailboxMessage(m)
  PROVE  IInv'
<1>1. /\ UNCHANGED <<stores, history, pc, todo, seen, faults>>
      /\ mail' \in [Messages -> {"absent", "unread", "read"}]
      /\ throttled' \in [Processes -> BOOLEAN]
  BY DEF IInv, TypeOK, PushMailboxMessage
<1> QED BY <1>1, MailAndThrottleKeep

LEMMA ReceiveKeeps ==
  ASSUME IInv, NEW p \in Processes, NEW m \in Messages, Receive(p, m)
  PROVE  IInv'
<1>1. /\ UNCHANGED <<stores, history, pc, todo, seen, faults>>
      /\ mail' \in [Messages -> {"absent", "unread", "read"}]
      /\ throttled' \in [Processes -> BOOLEAN]
  BY DEF IInv, TypeOK, Receive
<1> QED BY <1>1, MailAndThrottleKeep

LEMMA ThrottleEndsKeeps ==
  ASSUME IInv, NEW p \in Processes, ThrottleEnds(p)
  PROVE  IInv'
<1>1. /\ UNCHANGED <<stores, history, pc, todo, seen, faults>>
      /\ mail' \in [Messages -> {"absent", "unread", "read"}]
      /\ throttled' \in [Processes -> BOOLEAN]
  BY DEF IInv, TypeOK, ThrottleEnds
<1> QED BY <1>1, MailAndThrottleKeep

LEMMA LapsesKeep ==
  ASSUME IInv, NEW m \in Messages, ProjectionLapses(m) \/ AttentionLapses(m)
  PROVE  IInv'
<1>t. /\ projection \in [Messages -> [status: ProjectionStatus, lapsed: BOOLEAN]]
      /\ attention \in [Messages -> [status: AttentionStatus, lapsed: BOOLEAN]]
      /\ excuses \in [Messages -> Nat] /\ faults \in 0 .. MaxFaults
  BY DEF IInv, TypeOK
<1>1. /\ UNCHANGED <<mail, pc, todo, seen, throttled, shown, woken>>
      /\ excuses' = [excuses EXCEPT ![m] = @ + 1]
      /\ faults' \in 0 .. MaxFaults
  <2>1. faults' \in 0 .. MaxFaults
    BY <1>t, SignalsAssumption DEF ProjectionLapses, AttentionLapses, Lapses, Fault
  <2> QED BY <2>1 DEF ProjectionLapses, AttentionLapses, Lapses
<1>2. /\ projection' \in [Messages -> [status: ProjectionStatus, lapsed: BOOLEAN]]
      /\ \A n \in Messages : /\ projection'[n].status = projection[n].status
                             /\ n # m => projection'[n] = projection[n]
  <2>1. \/ projection' = projection
        \/ projection' = [projection EXCEPT ![m] = [projection[m] EXCEPT !.lapsed = TRUE]]
    BY DEF ProjectionLapses, AttentionLapses
  <2>2. /\ [projection[m] EXCEPT !.lapsed = TRUE] \in [status: ProjectionStatus, lapsed: BOOLEAN]
        /\ [projection[m] EXCEPT !.lapsed = TRUE].status = projection[m].status
    BY <1>t
  <2> QED BY <1>t, <2>1, <2>2
<1>3. /\ attention' \in [Messages -> [status: AttentionStatus, lapsed: BOOLEAN]]
      /\ \A n \in Messages : /\ attention'[n].status = attention[n].status
                             /\ n # m => attention'[n] = attention[n]
  <2>1. \/ attention' = attention
        \/ attention' = [attention EXCEPT ![m] = [attention[m] EXCEPT !.lapsed = TRUE]]
    BY DEF ProjectionLapses, AttentionLapses
  <2>2. /\ [attention[m] EXCEPT !.lapsed = TRUE] \in [status: AttentionStatus, lapsed: BOOLEAN]
        /\ [attention[m] EXCEPT !.lapsed = TRUE].status = attention[m].status
    BY <1>t
  <2> QED BY <1>t, <2>1, <2>2
<1>4. excuses' \in [Messages -> Nat]
  BY <1>t, <1>1
<1>5. TypeOK'
  BY <1>1, <1>2, <1>3, <1>4 DEF IInv, TypeOK
<1>6. SignalsTellTheTruth'
  BY <1>1, <1>2, <1>3 DEF IInv, SignalsTellTheTruth
<1>7. ASSUME NEW n \in Messages
      PROVE  /\ One(ProjectionFree(n)') - One(ProjectionFree(n)) <= excuses'[n] - excuses[n]
             /\ One(AttentionFree(n)') - One(AttentionFree(n)) <= excuses'[n] - excuses[n]
  <2>1. CASE n = m
    <3>1. excuses'[n] - excuses[n] = 1
      BY <1>t, <1>1, <2>1
    <3> QED BY <3>1 DEF One
  <2>2. CASE n # m
    <3>1. excuses'[n] - excuses[n] = 0
      BY <1>t, <1>1, <2>2
    <3>2. (ProjectionFree(n)' <=> ProjectionFree(n)) /\ (AttentionFree(n)' <=> AttentionFree(n))
      BY <1>2, <1>3, <2>2 DEF ProjectionFree, AttentionFree
    <3> QED BY <3>1, <3>2 DEF One
  <2> QED BY <2>1, <2>2
<1> QED BY <1>1, <1>5, <1>6, <1>7, NobodyMovesKeeps

LEMMA QuietActionsKeep ==
  ASSUME IInv, NEW p \in Processes,
         \/ SessionStart(p) \/ HookSync(p) \/ PanelSync(p)
         \/ StoreThrows(p) \/ SessionShutdown(p) \/ Crash(p)
  PROVE  IInv'
<1>t. TypeOK
  BY DEF IInv
<1>1. /\ UNCHANGED <<mail, stores, history>>
      /\ \/ BeginSync(p)
         \/ \E place \in {"idle", "down"} :
              pc' = [pc EXCEPT ![p] = place] /\ todo' = [todo EXCEPT ![p] = {}]
  BY DEF SessionStart, HookSync, PanelSync, StoreThrows, SessionShutdown, Crash, Gone
<1>2. /\ faults' = faults \/ Fault
      /\ seen' = seen \/ seen' = [seen EXCEPT ![p] = {}]
      /\ throttled' = throttled \/ throttled' = [throttled EXCEPT ![p] = FALSE]
  BY DEF SessionStart, HookSync, PanelSync, StoreThrows, SessionShutdown, Crash, Gone
<1>3. Moved(p) /\ pc'[p] \in Quiet
  BY <1>t, <1>1, BeginSyncMoves, GivingUpMoves
<1>4. faults' \in 0 .. MaxFaults
  BY <1>t, <1>2, SignalsAssumption DEF TypeOK, Fault
<1>5. /\ seen' \in [Processes -> SUBSET Messages] /\ seen'[p] \subseteq seen[p]
      /\ \A q \in Processes \ {p} : seen'[q] = seen[q]
  BY <1>t, <1>2 DEF TypeOK
<1>6. throttled' \in [Processes -> BOOLEAN] /\ mail' \in [Messages -> {"absent", "unread", "read"}]
  BY <1>t, <1>1, <1>2 DEF TypeOK
<1> QED BY <1>1, <1>3, <1>4, <1>5, <1>6, QuietStepKeeps

-----------------------------------------------------------------------------
(* The steps of a sync that show. *)

\* What every step of a sync leaves alone.
LEMMA FrameOfStep ==
  ASSUME IInv, NEW p \in Processes, Moved(p),
         UNCHANGED mail, faults' \in 0 .. MaxFaults, throttled' \in [Processes -> BOOLEAN],
         seen' \in [Processes -> SUBSET Messages],
         \A q \in Processes \ {p} : seen'[q] = seen[q],
         projection' \in [Messages -> [status: ProjectionStatus, lapsed: BOOLEAN]],
         attention' \in [Messages -> [status: AttentionStatus, lapsed: BOOLEAN]],
         shown' \in [Messages -> Nat], woken' \in [Messages -> Nat],
         excuses' \in [Messages -> Nat]
  PROVE  TypeOK' /\ OthersStill(p)
BY DEF IInv, TypeOK, Moved, OthersStill

LEMMA LookKeeps ==
  ASSUME IInv, NEW p \in Processes, Look(p)
  PROVE  IInv'
<1> DEFINE m == Item(p)
<1>t. TypeOK /\ pc[p] = "look" /\ pc[p] \in Steps
  BY DEF IInv, Look, Steps
<1>m. m \in Messages
  BY <1>t, ItemOfSync
<1> HIDE DEF m
<1>1. /\ UNCHANGED <<mail, stores, throttled, history, faults>>
      /\ \/ /\ AfterProjection(p, m) /\ seen' = [seen EXCEPT ![p] = @ \cup {m}]
            /\ GoTo(p, "claimAttention")
         \/ seen' = seen /\ GoTo(p, "claimProjection")
  BY DEF Look, m
<1>2. /\ projection' = projection /\ attention' = attention
      /\ shown' = shown /\ woken' = woken /\ excuses' = excuses
  BY <1>1 DEF stores, history
<1>3. Moved(p) /\ Item(p)' = m /\ pc'[p] \in {"claimAttention", "claimProjection"}
  BY <1>t, <1>1, GoToMoves DEF Steps, m
<1>4. /\ seen' \in [Processes -> SUBSET Messages]
      /\ \A q \in Processes \ {p} : seen'[q] = seen[q]
  BY <1>t, <1>m, <1>1 DEF TypeOK
<1>5. TypeOK' /\ OthersStill(p)
  BY <1>t, <1>1, <1>2, <1>3, <1>4, FrameOfStep DEF TypeOK
<1>6. NothingUndone
  BY <1>t, <1>2 DEF TypeOK, NothingUndone
<1>7. WitnessedBy(p)'
  <2>1. \A n \in seen[p] : shown[n] > 0
    BY DEF IInv, Witnessed, WitnessedBy
  <2>2. AfterProjection(p, m) => shown[m] > 0
    BY <1>m, <2>1 DEF IInv, SignalsTellTheTruth, AfterProjection
  <2>3. \/ pc'[p] = "claimAttention" /\ shown[m] > 0 /\ seen'[p] = seen[p] \cup {m}
        \/ pc'[p] = "claimProjection" /\ seen'[p] = seen[p]
    BY <1>t, <1>1, <2>2, GoToMoves DEF Steps, TypeOK
  <2> QED BY <1>2, <1>3, <2>1, <2>3 DEF WitnessedBy, HoldsAttention
<1>8. SignalsTellTheTruth'
  BY <1>2 DEF IInv, SignalsTellTheTruth
<1>9. ASSUME NEW n \in Messages
      PROVE  /\ ShowCost(p, n)' - ShowCost(p, n) <= excuses'[n] - excuses[n]
             /\ WakeCost(p, n)' - WakeCost(p, n) <= excuses'[n] - excuses[n]
  <2>1. (~OwesShow(p, n) /\ ~OwesWake(p, n))'
    BY <1>3 DEF OwesShow, OwesWake
  <2>2. ProjectionFree(n)' = ProjectionFree(n) /\ AttentionFree(n)' = AttentionFree(n)
    BY <1>2 DEF ProjectionFree, AttentionFree
  <2>3. shown[n] \in Nat /\ woken[n] \in Nat /\ excuses[n] \in Nat
    BY <1>t DEF TypeOK
  <2> QED BY <1>2, <2>1, <2>2, <2>3 DEF ShowCost, WakeCost, One
<1> QED BY <1>5, <1>6, <1>7, <1>8, <1>9, StepKeeps

LEMMA ClaimLeaderProjectionKeeps ==
  ASSUME IInv, NEW p \in Processes, ClaimLeaderProjection(p)
  PROVE  IInv'
<1> DEFINE m == Item(p)
<1>t. TypeOK /\ pc[p] = "claimProjection" /\ pc[p] \in Steps
  BY DEF IInv, ClaimLeaderProjection, Steps
<1>m. m \in Messages
  BY <1>t, ItemOfSync
<1> HIDE DEF m
<1>1. /\ UNCHANGED <<mail, attention, seen, throttled, history, faults>>
      /\ \/ /\ ProjectionFree(m) /\ GoTo(p, "project")
            /\ projection' = [projection EXCEPT ![m] = Entry("projecting")]
         \/ NextItem(p) /\ projection' = projection
  BY DEF ClaimLeaderProjection, m
<1>2. shown' = shown /\ woken' = woken /\ excuses' = excuses
  BY <1>1 DEF history
<1>3. /\ Moved(p)
      /\ \/ /\ pc'[p] = "project" /\ Item(p)' = m
            /\ ProjectionFree(m) /\ projection' = [projection EXCEPT ![m] = Entry("projecting")]
         \/ pc'[p] \in Quiet /\ projection' = projection
  BY <1>t, <1>1, GoToMoves, NextItemMoves DEF Steps, HoldsProjection, m
<1>4. /\ projection' \in [Messages -> [status: ProjectionStatus, lapsed: BOOLEAN]]
      /\ \A n \in Messages : n # m => projection'[n] = projection[n]
      /\ projection'[m] = projection[m] \/ projection'[m].status = "projecting"
  <2>1. /\ Entry("projecting") \in [status: ProjectionStatus, lapsed: BOOLEAN]
        /\ Entry("projecting").status = "projecting"
    BY DEF Entry, ProjectionStatus
  <2>2. projection' = projection \/ projection' = [projection EXCEPT ![m] = Entry("projecting")]
    BY <1>3
  <2>3. projection \in [Messages -> [status: ProjectionStatus, lapsed: BOOLEAN]]
    BY <1>t DEF TypeOK
  <2> QED BY <1>m, <2>1, <2>2, <2>3
<1>5. TypeOK' /\ OthersStill(p)
  BY <1>t, <1>1, <1>2, <1>3, <1>4, FrameOfStep DEF TypeOK
<1>6. NothingUndone
  BY <1>t, <1>2 DEF TypeOK, NothingUndone
<1>7. WitnessedBy(p)'
  <2>1. \A n \in seen'[p] : shown'[n] > 0
    BY <1>1, <1>2 DEF IInv, Witnessed, WitnessedBy
  <2> QED BY <1>3, <2>1 DEF WitnessedBy, HoldsAttention, Quiet
<1>8. SignalsTellTheTruth'
  BY <1>1, <1>2, <1>4 DEF IInv, SignalsTellTheTruth
<1>9. ASSUME NEW n \in Messages
      PROVE  /\ ShowCost(p, n)' - ShowCost(p, n) <= excuses'[n] - excuses[n]
             /\ WakeCost(p, n)' - WakeCost(p, n) <= excuses'[n] - excuses[n]
  <2>1. ~OwesWake(p, n)'
    BY <1>3 DEF OwesWake, Quiet
  <2>2. AttentionFree(n)' = AttentionFree(n)
    BY <1>1 DEF AttentionFree
  <2>3. shown[n] \in Nat /\ woken[n] \in Nat /\ excuses[n] \in Nat
    BY <1>t DEF TypeOK
  <2>4. \/ ~OwesShow(p, n)' /\ ProjectionFree(n)' = ProjectionFree(n)
        \/ ProjectionFree(n) /\ ~ProjectionFree(n)'
    <3>1. CASE pc'[p] \in Quiet /\ projection' = projection
      BY <3>1 DEF OwesShow, ProjectionFree, Quiet
    <3>2. CASE /\ pc'[p] = "project" /\ Item(p)' = m
               /\ ProjectionFree(m) /\ projection' = [projection EXCEPT ![m] = Entry("projecting")]
      <4>1. CASE n = m
        <5>1. projection'[n] = Entry("projecting")
          BY <1>t, <1>m, <3>2, <4>1 DEF TypeOK
        <5>2. ~ProjectionFree(n)'
          BY <5>1 DEF ProjectionFree, Entry
        <5> QED BY <3>2, <4>1, <5>2
      <4>2. CASE n # m
        BY <1>4, <3>2, <4>2 DEF OwesShow, ProjectionFree
      <4> QED BY <4>1, <4>2
    <3> QED BY <1>3, <3>1, <3>2
  <2> QED BY <1>2, <2>1, <2>2, <2>3, <2>4 DEF ShowCost, WakeCost, One
<1> QED BY <1>5, <1>6, <1>7, <1>8, <1>9, StepKeeps

LEMMA ProjectKeeps ==
  ASSUME IInv, NEW p \in Processes, Project(p)
  PROVE  IInv'
<1> DEFINE m == Item(p)
<1>t. TypeOK /\ pc[p] = "project" /\ pc[p] \in Steps
  BY DEF IInv, Project, Steps, HoldsProjection
<1>m. m \in Messages
  BY <1>t, ItemOfSync
<1> HIDE DEF m
<1>1. /\ UNCHANGED <<mail, stores, seen, throttled, woken, excuses, faults>>
      /\ shown' = [shown EXCEPT ![m] = @ + 1]
      /\ GoTo(p, "markProjected")
  BY DEF Project, m
<1>2. projection' = projection /\ attention' = attention
  BY <1>1 DEF stores
<1>3. Moved(p) /\ pc'[p] = "markProjected" /\ Item(p)' = m
  BY <1>t, <1>1, GoToMoves DEF Steps, HoldsProjection, m
<1>4. /\ shown' \in [Messages -> Nat] /\ shown'[m] = shown[m] + 1
      /\ \A n \in Messages : n # m => shown'[n] = shown[n]
      /\ \A n \in Messages : shown[n] \in Nat /\ woken[n] \in Nat /\ excuses[n] \in Nat
  BY <1>t, <1>m, <1>1 DEF TypeOK
<1>5. TypeOK' /\ OthersStill(p)
  BY <1>t, <1>1, <1>2, <1>3, <1>4, FrameOfStep DEF TypeOK
<1>6. NothingUndone
  BY <1>1, <1>4 DEF NothingUndone
<1>s. \A n \in Messages : shown[n] > 0 => shown'[n] > 0
  BY <1>4
<1>7. WitnessedBy(p)'
  <2>1. \A n \in seen[p] : n \in Messages /\ shown[n] > 0
    BY <1>t DEF IInv, Witnessed, WitnessedBy, TypeOK
  <2>2. \A n \in seen'[p] : shown'[n] > 0
    BY <1>1, <1>s, <2>1
  <2>3. shown'[m] > 0
    BY <1>m, <1>4
  <2> QED BY <1>3, <2>2, <2>3 DEF WitnessedBy
<1>8. SignalsTellTheTruth'
  BY <1>1, <1>2, <1>s DEF IInv, SignalsTellTheTruth
<1>9. ASSUME NEW n \in Messages
      PROVE  /\ ShowCost(p, n)' - ShowCost(p, n) <= excuses'[n] - excuses[n]
             /\ WakeCost(p, n)' - WakeCost(p, n) <= excuses'[n] - excuses[n]
  <2>1. ~OwesWake(p, n)' /\ ~OwesShow(p, n)'
    BY <1>3 DEF OwesWake, OwesShow
  <2>2. AttentionFree(n)' = AttentionFree(n) /\ ProjectionFree(n)' = ProjectionFree(n)
    BY <1>2 DEF AttentionFree, ProjectionFree
  <2>3. shown'[n] = shown[n] + One(OwesShow(p, n))
    BY <1>t, <1>4 DEF OwesShow, One, m
  <2> QED BY <1>1, <1>4, <2>1, <2>2, <2>3 DEF ShowCost, WakeCost, One
<1> QED BY <1>5, <1>6, <1>7, <1>8, <1>9, StepKeeps

\* Steps that go on with the same message and leave stores and shows alone.
LEMMA GoingOnKeeps ==
  ASSUME IInv, NEW p \in Processes, NEW step \in Steps, pc[p] \in Steps, GoTo(p, step),
         UNCHANGED <<mail, stores, seen, throttled, shown, woken>>,
         faults' \in 0 .. MaxFaults, excuses' \in [Messages -> Nat],
         WitnessedBy(p)',
         \A m \in Messages :
           /\ excuses[m] <= excuses'[m]
           /\ (OwesShow(p, m)' /\ ~OwesShow(p, m)) => excuses[m] < excuses'[m]
           /\ (OwesWake(p, m)' /\ ~OwesWake(p, m)) => excuses[m] < excuses'[m]
  PROVE  IInv'
<1>t. TypeOK
  BY DEF IInv
<1>1. projection' = projection /\ attention' = attention
  BY DEF stores
<1>2. TypeOK' /\ OthersStill(p)
  BY <1>t, <1>1, GoToMoves, FrameOfStep DEF TypeOK
<1>3. \A m \in Messages : /\ shown[m] \in Nat /\ woken[m] \in Nat
                          /\ excuses[m] \in Nat /\ excuses'[m] \in Nat
  BY <1>t DEF TypeOK
<1>4. NothingUndone
  BY <1>3 DEF NothingUndone
<1>5. SignalsTellTheTruth'
  BY <1>1 DEF IInv, SignalsTellTheTruth
<1>6. ASSUME NEW m \in Messages
      PROVE  /\ ShowCost(p, m)' - ShowCost(p, m) <= excuses'[m] - excuses[m]
             /\ WakeCost(p, m)' - WakeCost(p, m) <= excuses'[m] - excuses[m]
  <2>1. AttentionFree(m)' = AttentionFree(m) /\ ProjectionFree(m)' = ProjectionFree(m)
    BY <1>1 DEF AttentionFree, ProjectionFree
  <2> QED BY <1>3, <2>1 DEF ShowCost, WakeCost, One
<1> QED BY <1>2, <1>4, <1>5, <1>6, StepKeeps

LEMMA ThrowsAndThrottleKeep ==
  ASSUME IInv, NEW p \in Processes,
         ProjectThrows(p) \/ MarkProjectedThrows(p) \/ WakeThrows(p) \/ WakeThrottled(p)
  PROVE  IInv'
<1> DEFINE m == Item(p)
<1>t. TypeOK /\ pc[p] \in {"project", "markProjected", "wake"} /\ pc[p] \in Steps
  BY DEF IInv, ProjectThrows, MarkProjectedThrows, WakeThrows, WakeThrottled, Steps,
         HoldsProjection, HoldsAttention
<1>m. m \in Messages
  BY <1>t, ItemOfSync
<1> HIDE DEF m
<1>1. /\ UNCHANGED <<mail, stores, seen, throttled, shown, woken>>
      /\ \/ /\ pc[p] = "project" /\ GoTo(p, "markProjectionFailed")
            /\ excuses' = excuses
         \/ /\ pc[p] = "markProjected" /\ GoTo(p, "markProjectionFailed")
            /\ excuses' = [excuses EXCEPT ![m] = @ + 1]
         \/ pc[p] = "wake" /\ GoTo(p, "markAttentionFailed") /\ excuses' = excuses
         \/ pc[p] = "wake" /\ GoTo(p, "markSkipped") /\ excuses' = excuses
  BY DEF ProjectThrows, MarkProjectedThrows, WakeThrows, WakeThrottled, history, m
<1>2. faults' \in 0 .. MaxFaults
  BY <1>t, SignalsAssumption
     DEF TypeOK, ProjectThrows, MarkProjectedThrows, WakeThrows, WakeThrottled, Fault
<1>3. PICK step \in {"markProjectionFailed", "markAttentionFailed", "markSkipped"} :
        /\ GoTo(p, step)
        /\ pc[p] = "wake" <=> step # "markProjectionFailed"
  BY <1>t, <1>1
<1>4. step \in Steps
  BY DEF Steps, HoldsProjection, HoldsAttention
<1>5. pc'[p] = step /\ Item(p)' = m
  BY <1>t, <1>3, <1>4, GoToMoves DEF m
<1>6. /\ excuses' \in [Messages -> Nat]
      /\ \A n \in Messages : excuses[n] \in Nat /\ excuses[n] <= excuses'[n]
      /\ pc[p] = "markProjected" => excuses[m] < excuses'[m]
  <2>1. \/ pc[p] # "markProjected" /\ excuses' = excuses
        \/ pc[p] = "markProjected" /\ excuses' = [excuses EXCEPT ![m] = @ + 1]
    BY <1>1
  <2>2. excuses \in [Messages -> Nat]
    BY <1>t DEF TypeOK
  <2> QED BY <1>m, <2>1, <2>2
<1>7. WitnessedBy(p)'
  <2>1. WitnessedBy(p)
    BY DEF IInv, Witnessed
  <2>2. pc[p] = "wake" => shown[m] > 0
    BY <2>1 DEF WitnessedBy, HoldsAttention, m
  <2> QED BY <1>1, <1>3, <1>5, <2>1, <2>2 DEF WitnessedBy, HoldsAttention
<1>8. ASSUME NEW n \in Messages
      PROVE  /\ excuses[n] <= excuses'[n]
             /\ (OwesShow(p, n)' /\ ~OwesShow(p, n)) => excuses[n] < excuses'[n]
             /\ (OwesWake(p, n)' /\ ~OwesWake(p, n)) => excuses[n] < excuses'[n]
  BY <1>t, <1>3, <1>5, <1>6 DEF OwesShow, OwesWake, m
<1> QED BY <1>t, <1>1, <1>2, <1>3, <1>4, <1>6, <1>7, <1>8, GoingOnKeeps

LEMMA MarkLeaderProjectionProjectedKeeps ==
  ASSUME IInv, NEW p \in Processes, MarkLeaderProjectionProjected(p)
  PROVE  IInv'
<1> DEFINE m == Item(p)
<1>t. TypeOK /\ pc[p] = "markProjected" /\ pc[p] \in Steps
  BY DEF IInv, MarkLeaderProjectionProjected, Steps, HoldsProjection
<1>m. m \in Messages /\ shown[m] > 0
  BY <1>t, ItemOfSync DEF IInv, Witnessed, WitnessedBy
<1> HIDE DEF m
<1>1. /\ UNCHANGED <<mail, attention, throttled, history, faults>>
      /\ projection' = [projection EXCEPT ![m] = Entry("projected")]
      /\ seen' = [seen EXCEPT ![p] = @ \cup {m}]
      /\ GoTo(p, "claimAttention")
  BY DEF MarkLeaderProjectionProjected, m
<1>2. shown' = shown /\ woken' = woken /\ excuses' = excuses
  BY <1>1 DEF history
<1>3. Moved(p) /\ pc'[p] = "claimAttention" /\ Item(p)' = m
  BY <1>t, <1>1, GoToMoves DEF Steps, m
<1>4. /\ projection' \in [Messages -> [status: ProjectionStatus, lapsed: BOOLEAN]]
      /\ \A n \in Messages : n # m => projection'[n] = projection[n]
      /\ projection'[m].status = "projected"
  <2>1. /\ Entry("projected") \in [status: ProjectionStatus, lapsed: BOOLEAN]
        /\ Entry("projected").status = "projected"
    BY DEF Entry, ProjectionStatus
  <2> QED BY <1>t, <1>m, <1>1, <2>1 DEF TypeOK
<1>5. /\ seen' \in [Processes -> SUBSET Messages] /\ seen'[p] = seen[p] \cup {m}
      /\ \A q \in Processes \ {p} : seen'[q] = seen[q]
  BY <1>t, <1>m, <1>1 DEF TypeOK
<1>6. TypeOK' /\ OthersStill(p)
  BY <1>t, <1>1, <1>2, <1>3, <1>4, <1>5, FrameOfStep DEF TypeOK
<1>7. NothingUndone
  BY <1>t, <1>2 DEF TypeOK, NothingUndone
<1>8. WitnessedBy(p)'
  <2>1. \A n \in seen'[p] : shown'[n] > 0
    BY <1>m, <1>2, <1>5 DEF IInv, Witnessed, WitnessedBy
  <2> QED BY <1>m, <1>2, <1>3, <2>1 DEF WitnessedBy
<1>9. SignalsTellTheTruth'
  BY <1>m, <1>1, <1>2, <1>4 DEF IInv, SignalsTellTheTruth
<1>10. ASSUME NEW n \in Messages
       PROVE  /\ ShowCost(p, n)' - ShowCost(p, n) <= excuses'[n] - excuses[n]
              /\ WakeCost(p, n)' - WakeCost(p, n) <= excuses'[n] - excuses[n]
  <2>1. ~OwesWake(p, n)' /\ ~OwesShow(p, n)'
    BY <1>3 DEF OwesWake, OwesShow
  <2>2. AttentionFree(n)' = AttentionFree(n) /\ (ProjectionFree(n)' => ProjectionFree(n))
    BY <1>1, <1>4 DEF AttentionFree, ProjectionFree
  <2>3. shown[n] \in Nat /\ woken[n] \in Nat /\ excuses[n] \in Nat
    BY <1>t DEF TypeOK
  <2> QED BY <1>2, <2>1, <2>2, <2>3 DEF ShowCost, WakeCost, One
<1> QED BY <1>6, <1>7, <1>8, <1>9, <1>10, StepKeeps

LEMMA MarkLeaderProjectionFailedKeeps ==
  ASSUME IInv, NEW p \in Processes, MarkLeaderProjectionFailed(p)
  PROVE  IInv'
<1> DEFINE m == Item(p)
<1>t. TypeOK /\ pc[p] = "markProjectionFailed" /\ pc[p] \in Steps
  BY DEF IInv, MarkLeaderProjectionFailed, Steps, HoldsProjection
<1>m. m \in Messages
  BY <1>t, ItemOfSync
<1> HIDE DEF m
<1>1. /\ UNCHANGED <<mail, attention, seen, throttled, history, faults>>
      /\ projection' = [projection EXCEPT ![m] = Entry("failed")]
      /\ NextItem(p)
  BY DEF MarkLeaderProjectionFailed, m
<1>2. shown' = shown /\ woken' = woken /\ excuses' = excuses
  BY <1>1 DEF history
<1>3. Moved(p) /\ pc'[p] \in Quiet
  BY <1>t, <1>1, NextItemMoves
<1>4. /\ projection' \in [Messages -> [status: ProjectionStatus, lapsed: BOOLEAN]]
      /\ \A n \in Messages : n # m => projection'[n] = projection[n]
      /\ projection'[m].status = "failed"
  <2>1. /\ Entry("failed") \in [status: ProjectionStatus, lapsed: BOOLEAN]
        /\ Entry("failed").status = "failed"
    BY DEF Entry, ProjectionStatus
  <2> QED BY <1>t, <1>m, <1>1, <2>1 DEF TypeOK
<1>5. TypeOK' /\ OthersStill(p)
  BY <1>t, <1>1, <1>2, <1>3, <1>4, FrameOfStep DEF TypeOK
<1>6. NothingUndone
  BY <1>t, <1>2 DEF TypeOK, NothingUndone
<1>7. WitnessedBy(p)'
  <2>1. \A n \in seen'[p] : shown'[n] > 0
    BY <1>1, <1>2 DEF IInv, Witnessed, WitnessedBy
  <2> QED BY <1>3, <2>1 DEF WitnessedBy, HoldsAttention, Quiet
<1>8. SignalsTellTheTruth'
  BY <1>1, <1>2, <1>4 DEF IInv, SignalsTellTheTruth
<1>9. ASSUME NEW n \in Messages
      PROVE  /\ ShowCost(p, n)' - ShowCost(p, n) <= excuses'[n] - excuses[n]
             /\ WakeCost(p, n)' - WakeCost(p, n) <= excuses'[n] - excuses[n]
  <2>1. ~OwesWake(p, n)' /\ ~OwesShow(p, n)'
    BY <1>3 DEF OwesWake, OwesShow, Quiet
  <2>2. AttentionFree(n)' = AttentionFree(n)
    BY <1>1 DEF AttentionFree
  <2>3. shown[n] \in Nat /\ woken[n] \in Nat /\ excuses[n] \in Nat
    BY <1>t DEF TypeOK
  <2>4. OwesShow(p, n) \/ (ProjectionFree(n)' = ProjectionFree(n))
    BY <1>t, <1>4 DEF OwesShow, ProjectionFree, m
  <2> QED BY <1>2, <2>1, <2>2, <2>3, <2>4 DEF ShowCost, WakeCost, One
<1> QED BY <1>5, <1>6, <1>7, <1>8, <1>9, StepKeeps

-----------------------------------------------------------------------------
(* The steps of a sync that wake. *)

LEMMA ClaimLeaderAttentionKeeps ==
  ASSUME IInv, NEW p \in Processes, ClaimLeaderAttention(p)
  PROVE  IInv'
<1> DEFINE m == Item(p)
<1>t. TypeOK /\ pc[p] = "claimAttention" /\ pc[p] \in Steps
  BY DEF IInv, ClaimLeaderAttention, Steps
<1>m. m \in Messages /\ shown[m] > 0
  BY <1>t, ItemOfSync DEF IInv, Witnessed, WitnessedBy
<1> HIDE DEF m
<1>1. /\ UNCHANGED <<mail, projection, seen, throttled, history, faults>>
      /\ \/ /\ AttentionFree(m) /\ GoTo(p, "wake")
            /\ attention' = [attention EXCEPT ![m] = Entry("sending")]
         \/ NextItem(p) /\ attention' = attention
  BY DEF ClaimLeaderAttention, m
<1>2. shown' = shown /\ woken' = woken /\ excuses' = excuses
  BY <1>1 DEF history
<1>3. /\ Moved(p)
      /\ \/ /\ pc'[p] = "wake" /\ Item(p)' = m
            /\ AttentionFree(m) /\ attention' = [attention EXCEPT ![m] = Entry("sending")]
         \/ pc'[p] \in Quiet /\ attention' = attention
  BY <1>t, <1>1, GoToMoves, NextItemMoves DEF Steps, HoldsAttention, m
<1>4. /\ attention' \in [Messages -> [status: AttentionStatus, lapsed: BOOLEAN]]
      /\ \A n \in Messages : n # m => attention'[n] = attention[n]
      /\ attention'[m] = attention[m] \/ attention'[m].status = "sending"
  <2>1. /\ Entry("sending") \in [status: AttentionStatus, lapsed: BOOLEAN]
        /\ Entry("sending").status = "sending"
    BY DEF Entry, AttentionStatus
  <2>2. attention' = attention \/ attention' = [attention EXCEPT ![m] = Entry("sending")]
    BY <1>3
  <2>3. attention \in [Messages -> [status: AttentionStatus, lapsed: BOOLEAN]]
    BY <1>t DEF TypeOK
  <2> QED BY <1>m, <2>1, <2>2, <2>3
<1>5. TypeOK' /\ OthersStill(p)
  BY <1>t, <1>1, <1>2, <1>3, <1>4, FrameOfStep DEF TypeOK
<1>6. NothingUndone
  BY <1>t, <1>2 DEF TypeOK, NothingUndone
<1>7. WitnessedBy(p)'
  <2>1. \A n \in seen'[p] : shown'[n] > 0
    BY <1>1, <1>2 DEF IInv, Witnessed, WitnessedBy
  <2>2. \/ pc'[p] = "wake" /\ Item(p)' = m
        \/ pc'[p] \in Quiet
    BY <1>3
  <2> QED BY <1>m, <1>2, <2>1, <2>2 DEF WitnessedBy, HoldsAttention, Quiet
<1>8. SignalsTellTheTruth'
  BY <1>m, <1>1, <1>2, <1>4 DEF IInv, SignalsTellTheTruth
<1>9. ASSUME NEW n \in Messages
      PROVE  /\ ShowCost(p, n)' - ShowCost(p, n) <= excuses'[n] - excuses[n]
             /\ WakeCost(p, n)' - WakeCost(p, n) <= excuses'[n] - excuses[n]
  <2>1. ~OwesShow(p, n)'
    BY <1>3 DEF OwesShow, Quiet
  <2>2. ProjectionFree(n)' = ProjectionFree(n)
    BY <1>1 DEF ProjectionFree
  <2>3. shown[n] \in Nat /\ woken[n] \in Nat /\ excuses[n] \in Nat
    BY <1>t DEF TypeOK
  <2>4. \/ ~OwesWake(p, n)' /\ AttentionFree(n)' = AttentionFree(n)
        \/ AttentionFree(n) /\ ~AttentionFree(n)'
    <3>1. CASE pc'[p] \in Quiet /\ attention' = attention
      BY <3>1 DEF OwesWake, AttentionFree, Quiet
    <3>2. CASE /\ pc'[p] = "wake" /\ Item(p)' = m
               /\ AttentionFree(m) /\ attention' = [attention EXCEPT ![m] = Entry("sending")]
      <4>1. CASE n = m
        <5>1. attention'[n] = Entry("sending")
          BY <1>t, <1>m, <3>2, <4>1 DEF TypeOK
        <5>2. ~AttentionFree(n)'
          BY <5>1 DEF AttentionFree, Entry
        <5> QED BY <3>2, <4>1, <5>2
      <4>2. CASE n # m
        BY <1>4, <3>2, <4>2 DEF OwesWake, AttentionFree
      <4> QED BY <4>1, <4>2
    <3> QED BY <1>3, <3>1, <3>2
  <2> QED BY <1>2, <2>1, <2>2, <2>3, <2>4 DEF ShowCost, WakeCost, One
<1> QED BY <1>5, <1>6, <1>7, <1>8, <1>9, StepKeeps

LEMMA WakeKeeps ==
  ASSUME IInv, NEW p \in Processes, Wake(p)
  PROVE  IInv'
<1> DEFINE m == Item(p)
<1>t. TypeOK /\ pc[p] = "wake" /\ pc[p] \in Steps
  BY DEF IInv, Wake, Steps, HoldsAttention
<1>m. m \in Messages /\ shown[m] > 0
  BY <1>t, ItemOfSync DEF IInv, Witnessed, WitnessedBy, HoldsAttention
<1> HIDE DEF m
<1>1. /\ UNCHANGED <<mail, stores, seen, shown, excuses, faults>>
      /\ woken' = [woken EXCEPT ![m] = @ + 1]
      /\ throttled' = [throttled EXCEPT ![p] = TRUE]
      /\ GoTo(p, "markSent")
  BY DEF Wake, m
<1>2. projection' = projection /\ attention' = attention
  BY <1>1 DEF stores
<1>3. Moved(p) /\ pc'[p] = "markSent" /\ Item(p)' = m
  BY <1>t, <1>1, GoToMoves DEF Steps, HoldsAttention, m
<1>4. /\ woken' \in [Messages -> Nat] /\ woken'[m] = woken[m] + 1
      /\ \A n \in Messages : n # m => woken'[n] = woken[n]
      /\ \A n \in Messages : shown[n] \in Nat /\ woken[n] \in Nat /\ excuses[n] \in Nat
  BY <1>t, <1>m, <1>1 DEF TypeOK
<1>5. throttled' \in [Processes -> BOOLEAN]
  BY <1>t, <1>1 DEF TypeOK
<1>6. TypeOK' /\ OthersStill(p)
  BY <1>t, <1>1, <1>2, <1>3, <1>4, <1>5, FrameOfStep DEF TypeOK
<1>7. NothingUndone
  BY <1>1, <1>4 DEF NothingUndone
<1>8. WitnessedBy(p)'
  <2>1. \A n \in seen'[p] : shown'[n] > 0
    BY <1>1 DEF IInv, Witnessed, WitnessedBy
  <2>2. shown'[m] > 0 /\ woken'[m] > 0
    BY <1>m, <1>1, <1>4
  <2> QED BY <1>3, <2>1, <2>2 DEF WitnessedBy
<1>9. SignalsTellTheTruth'
  <2>1. \A n \in Messages : woken[n] > 0 => woken'[n] > 0
    BY <1>4
  <2> QED BY <1>1, <1>2, <2>1 DEF IInv, SignalsTellTheTruth
<1>10. ASSUME NEW n \in Messages
       PROVE  /\ ShowCost(p, n)' - ShowCost(p, n) <= excuses'[n] - excuses[n]
              /\ WakeCost(p, n)' - WakeCost(p, n) <= excuses'[n] - excuses[n]
  <2>1. ~OwesWake(p, n)' /\ ~OwesShow(p, n)'
    BY <1>3 DEF OwesWake, OwesShow
  <2>2. AttentionFree(n)' = AttentionFree(n) /\ ProjectionFree(n)' = ProjectionFree(n)
    BY <1>2 DEF AttentionFree, ProjectionFree
  <2>3. woken'[n] = woken[n] + One(OwesWake(p, n))
    BY <1>t, <1>4 DEF OwesWake, One, m
  <2> QED BY <1>1, <1>4, <2>1, <2>2, <2>3 DEF ShowCost, WakeCost, One
<1> QED BY <1>6, <1>7, <1>8, <1>9, <1>10, StepKeeps

LEMMA MarkLeaderAttentionKeeps ==
  ASSUME IInv, NEW p \in Processes, MarkLeaderAttention(p)
  PROVE  IInv'
<1> DEFINE m == Item(p)
           mark == MarkedAs[pc[p]]
<1>t. /\ TypeOK /\ pc[p] \in {"markSent", "markSkipped", "markAttentionFailed"}
      /\ pc[p] \in Steps
  BY DEF IInv, MarkLeaderAttention, MarkedAs, Steps, HoldsAttention
<1>m. m \in Messages /\ shown[m] > 0 /\ (pc[p] = "markSent" => woken[m] > 0)
  BY <1>t, ItemOfSync DEF IInv, Witnessed, WitnessedBy, HoldsAttention
<1>k. /\ mark \in {"sent", "skipped", "failed"}
      /\ mark = "sent" <=> pc[p] = "markSent"
      /\ mark = "failed" <=> pc[p] = "markAttentionFailed"
  BY <1>t DEF MarkedAs
<1> HIDE DEF m, mark
<1>1. /\ UNCHANGED <<mail, projection, seen, throttled, history, faults>>
      /\ attention' = [attention EXCEPT ![m] = Entry(mark)]
      /\ NextItem(p)
  BY DEF MarkLeaderAttention, m, mark
<1>2. shown' = shown /\ woken' = woken /\ excuses' = excuses
  BY <1>1 DEF history
<1>3. Moved(p) /\ pc'[p] \in Quiet
  BY <1>t, <1>1, NextItemMoves
<1>4. /\ attention' \in [Messages -> [status: AttentionStatus, lapsed: BOOLEAN]]
      /\ \A n \in Messages : n # m => attention'[n] = attention[n]
      /\ attention'[m].status = mark
  <2>1. /\ Entry(mark) \in [status: AttentionStatus, lapsed: BOOLEAN]
        /\ Entry(mark).status = mark
    BY <1>k DEF Entry, AttentionStatus
  <2> QED BY <1>t, <1>m, <1>1, <2>1 DEF TypeOK
<1>5. TypeOK' /\ OthersStill(p)
  BY <1>t, <1>1, <1>2, <1>3, <1>4, FrameOfStep DEF TypeOK
<1>6. NothingUndone
  BY <1>t, <1>2 DEF TypeOK, NothingUndone
<1>7. WitnessedBy(p)'
  <2>1. \A n \in seen'[p] : shown'[n] > 0
    BY <1>1, <1>2 DEF IInv, Witnessed, WitnessedBy
  <2> QED BY <1>3, <2>1 DEF WitnessedBy, HoldsAttention, Quiet
<1>8. SignalsTellTheTruth'
  BY <1>m, <1>k, <1>1, <1>2, <1>4 DEF IInv, SignalsTellTheTruth
<1>9. ASSUME NEW n \in Messages
      PROVE  /\ ShowCost(p, n)' - ShowCost(p, n) <= excuses'[n] - excuses[n]
             /\ WakeCost(p, n)' - WakeCost(p, n) <= excuses'[n] - excuses[n]
  <2>1. ~OwesWake(p, n)' /\ ~OwesShow(p, n)'
    BY <1>3 DEF OwesWake, OwesShow, Quiet
  <2>2. ProjectionFree(n)' = ProjectionFree(n)
    BY <1>1 DEF ProjectionFree
  <2>3. shown[n] \in Nat /\ woken[n] \in Nat /\ excuses[n] \in Nat
    BY <1>t DEF TypeOK
  <2>4. OwesWake(p, n) \/ (AttentionFree(n)' => AttentionFree(n))
    BY <1>k, <1>4 DEF OwesWake, AttentionFree, m
  <2> QED BY <1>2, <2>1, <2>2, <2>3, <2>4 DEF ShowCost, WakeCost, One
<1> QED BY <1>5, <1>6, <1>7, <1>8, <1>9, StepKeeps

-----------------------------------------------------------------------------
(* The invariant, and what it is for. *)

LEMMA InitIInv ==
  ASSUME Init
  PROVE  IInv
<1>1. TypeOK
  BY SignalsAssumption DEF Init, TypeOK, Entry, ProjectionStatus, AttentionStatus,
                           Steps, HoldsProjection, HoldsAttention
<1>2. Witnessed
  BY DEF Init, Witnessed, WitnessedBy, HoldsAttention
<1>3. SignalsTellTheTruth
  BY DEF Init, SignalsTellTheTruth, Entry
<1>4. \A m \in Messages : ToShow(m) = {} /\ ToWake(m) = {}
  BY DEF Init, ToShow, ToWake, OwesShow, OwesWake
<1>5. IsFiniteSet({}) /\ Cardinality({}) = 0
  BY FS_EmptySet
<1>6. ShowBudget /\ WakeBudget
  <2>1. \A m \in Messages : shown[m] = 0 /\ woken[m] = 0 /\ excuses[m] = 0
    BY DEF Init
  <2>2. \A m \in Messages : One(ProjectionFree(m)) \in 0 .. 1 /\ One(AttentionFree(m)) \in 0 .. 1
    BY DEF One
  <2>3. ASSUME NEW m \in Messages
        PROVE  /\ IsFiniteSet(ToShow(m)) /\ Cardinality(ToShow(m)) = 0
               /\ IsFiniteSet(ToWake(m)) /\ Cardinality(ToWake(m)) = 0
    BY <1>4, <1>5
  <2>4. ASSUME NEW m \in Messages
        PROVE  /\ shown[m] + Cardinality(ToShow(m)) + One(ProjectionFree(m)) <= 1 + excuses[m]
               /\ woken[m] + Cardinality(ToWake(m)) + One(AttentionFree(m)) <= 1 + excuses[m]
    <3> DEFINE a == One(ProjectionFree(m))
               b == One(AttentionFree(m))
    <3>1. a \in 0 .. 1 /\ b \in 0 .. 1
      BY <2>2
    <3> HIDE DEF a, b
    <3>2. 0 + 0 + a <= 1 + 0 /\ 0 + 0 + b <= 1 + 0
      BY <3>1
    <3> QED BY <2>1, <2>3, <3>2 DEF a, b
  <2> QED BY <2>3, <2>4 DEF ShowBudget, WakeBudget
<1> QED BY <1>1, <1>2, <1>3, <1>6 DEF IInv

LEMMA NextIInv ==
  ASSUME IInv, [Next]_vars
  PROVE  IInv'
<1>1. CASE UNCHANGED vars
  <2>1. /\ UNCHANGED <<mail, projection, attention, pc, todo, seen, throttled>>
        /\ UNCHANGED <<shown, woken, excuses, faults>>
    BY <1>1 DEF vars
  <2>2. TypeOK'
    BY <2>1 DEF IInv, TypeOK
  <2>3. SignalsTellTheTruth'
    BY <2>1 DEF IInv, SignalsTellTheTruth
  <2>4. ASSUME NEW m \in Messages
        PROVE  /\ One(ProjectionFree(m)') - One(ProjectionFree(m)) <= excuses'[m] - excuses[m]
               /\ One(AttentionFree(m)') - One(AttentionFree(m)) <= excuses'[m] - excuses[m]
    <3>1. excuses[m] \in Nat
      BY DEF IInv, TypeOK
    <3> QED BY <2>1, <3>1 DEF ProjectionFree, AttentionFree, One
  <2> QED BY <2>1, <2>2, <2>3, <2>4, NobodyMovesKeeps
<1>2. ASSUME NEW m \in Messages,
             PushMailboxMessage(m) \/ ProjectionLapses(m) \/ AttentionLapses(m)
      PROVE  IInv'
  <2>1. CASE PushMailboxMessage(m)
    BY <2>1, PushKeeps
  <2>2. CASE ProjectionLapses(m) \/ AttentionLapses(m)
    BY <2>2, LapsesKeep
  <2> QED BY <1>2, <2>1, <2>2
<1>3. ASSUME NEW p \in Processes, NEW m \in Messages, Receive(p, m)
      PROVE  IInv'
  BY <1>3, ReceiveKeeps
<1>4. ASSUME NEW p \in Processes, ThrottleEnds(p)
      PROVE  IInv'
  BY <1>4, ThrottleEndsKeeps
<1>5. ASSUME NEW p \in Processes, SyncStep(p)
      PROVE  IInv'
  BY <1>5, LookKeeps, ClaimLeaderProjectionKeeps, ProjectKeeps,
     MarkLeaderProjectionProjectedKeeps, MarkLeaderProjectionFailedKeeps,
     ClaimLeaderAttentionKeeps, WakeKeeps, ThrowsAndThrottleKeep, MarkLeaderAttentionKeeps
     DEF SyncStep
<1>6. ASSUME NEW p \in Processes, ProjectThrows(p) \/ MarkProjectedThrows(p) \/ WakeThrows(p)
      PROVE  IInv'
  BY <1>6, ThrowsAndThrottleKeep
<1>7. ASSUME NEW p \in Processes,
             \/ SessionStart(p) \/ HookSync(p) \/ PanelSync(p)
             \/ StoreThrows(p) \/ SessionShutdown(p) \/ Crash(p)
      PROVE  IInv'
  BY <1>7, QuietActionsKeep
<1> QED BY <1>1, <1>2, <1>3, <1>4, <1>5, <1>6, <1>7 DEF Next

\* The invariant that carries the others: what processes witnessed, what the
\* stores record, and the budgets of shows and wakes.
THEOREM Invariance == Spec => []IInv
<1>1. Init => IInv
  BY InitIInv
<1>2. IInv /\ [Next]_vars => IInv'
  BY NextIInv
<1> QED BY <1>1, <1>2, PTL DEF Spec

\* The state of the signals has its type: a process has messages to do in
\* exactly the steps of a sync.
THEOREM TypeCorrect == Spec => []TypeOK
<1>1. IInv => TypeOK
  BY DEF IInv
<1> QED BY <1>1, Invariance, PTL

\* However many processes sync, crash or throw: what the stores record projected
\* or sent took place, and nobody is woken for what the transcript does not show.
THEOREM SignalsHonest == Spec => []SignalsTellTheTruth
<1>1. IInv => SignalsTellTheTruth
  BY DEF IInv
<1> QED BY <1>1, Invariance, PTL

\* However many processes sync, a message is shown once, and woken for once, more
\* often only by as many times as its claims lapsed or its marks threw.
THEOREM NoCauselessSignals == Spec => []RepeatedOnlyForCause
<1>1. ASSUME IInv, NEW m \in Messages
      PROVE  shown[m] <= 1 + excuses[m] /\ woken[m] <= 1 + excuses[m]
  <2>1. /\ IsFiniteSet(ToShow(m)) /\ IsFiniteSet(ToWake(m))
        /\ shown[m] + Cardinality(ToShow(m)) + One(ProjectionFree(m)) <= 1 + excuses[m]
        /\ woken[m] + Cardinality(ToWake(m)) + One(AttentionFree(m)) <= 1 + excuses[m]
    BY <1>1 DEF IInv, ShowBudget, WakeBudget
  <2>2. /\ Cardinality(ToShow(m)) \in Nat /\ Cardinality(ToWake(m)) \in Nat
        /\ shown[m] \in Nat /\ woken[m] \in Nat /\ excuses[m] \in Nat
    BY <1>1, <2>1, FS_CardinalityType DEF IInv, TypeOK
  <2> QED BY <2>1, <2>2 DEF One
<1>2. IInv => RepeatedOnlyForCause
  BY <1>1 DEF RepeatedOnlyForCause
<1> QED BY <1>2, Invariance, PTL

-----------------------------------------------------------------------------
(* The console. *)

\* The row that a section has marked, whichever of its indices counts.
Cursor(p, s) == IF s = p.focus THEN p.selected ELSE IF s \in Aliased THEN p.alias[s] ELSE p.index[s]

Loaded(d) ==
  /\ d.mode # "none"
  /\ d.mode = "attached" => d.rows["members"] \in Seq(SetOf(Members))
  /\ d.mode = "global" => d.team = None /\ d.rows["teams"] \in Seq(Teams)

\* Every list that can be turned to has its mark on one of its rows.
Fits(p, d) ==
  /\ Loaded(d)
  /\ p.focus \in SetOf(Order(d))
  /\ \A s \in SetOf(Order(d)) : Cursor(p, s) = 0 \/ Cursor(p, s) < Len(d.rows[s])

\* What would be removed is what the screen named.
AsNamed(act, named) ==
  /\ act.id = "delete-team" =>
       act.team = named.team \/ (named.team = None /\ act.team \in named.row)
  /\ act.id = "remove-member" => act.team = named.team /\ act.member \in named.row

MenuFits(menu, named) ==
  /\ menu.open => \A act \in SetOf(menu.actions) : AsNamed(act, named)
  /\ menu.confirming # None => menu.open /\ menu.confirming \in SetOf(menu.actions)

PanelIInv ==
  /\ PanelTypeOK
  /\ at = "panel" => Fits(panel, data) /\ MenuFits(panel.menu, aim)
  /\ at = "dialog" => AsNamed(result, aim)

\* A set of steps that holds no first one is empty.
LEMMA NoFirst ==
  ASSUME NEW n \in Nat, NEW S \in SUBSET (0 .. n), 0 \notin S,
         \A i \in 1 .. n : i \in S => i - 1 \in S
  PROVE  S = {}
<1> SUFFICES ASSUME S # {} PROVE FALSE
  OBVIOUS
<1>1. S \subseteq Nat
  OBVIOUS
<1>2. PICK i \in S : \A j \in S : ~ (<<j, i>> \in OpToRel(<, Nat))
  BY <1>1, NatLessThanWellFounded, WFMin
<1>3. i \in 1 .. n /\ i - 1 \in S /\ i - 1 \in Nat /\ i \in Nat
  OBVIOUS
<1>4. <<i - 1, i>> \in Nat \X Nat /\ <<i - 1, i>>[1] = i - 1 /\ <<i - 1, i>>[2] = i
  BY <1>3
<1>5. <<i - 1, i>> \in OpToRel(<, Nat)
  BY <1>3, <1>4 DEF OpToRel
<1> QED BY <1>2, <1>3, <1>5

\* There are the stages of a conversion, whatever a step makes of a stage.
LEMMA StagesExist ==
  ASSUME NEW T, NEW base \in T, NEW n \in Nat, NEW step \in [1 .. n -> [T -> T]]
  PROVE  \E g \in [0 .. n -> T] : g[0] = base /\ \A i \in 1 .. n : g[i] = step[i][g[i - 1]]
<1> DEFINE Is(k, g) == /\ g \in [0 .. k -> T] /\ g[0] = base
                       /\ \A i \in 1 .. k : g[i] = step[i][g[i - 1]]
           Bad == {k \in 0 .. n : ~ \E g : Is(k, g)}
<1>1. 0 \notin Bad
  <2> DEFINE g == [k \in 0 .. 0 |-> base]
  <2>1. Is(0, g)
    OBVIOUS
  <2> QED BY <2>1
<1>2. ASSUME NEW k \in 1 .. n, k \in Bad PROVE k - 1 \in Bad
  <2> SUFFICES ASSUME k - 1 \notin Bad PROVE FALSE
    OBVIOUS
  <2>1. PICK g : Is(k - 1, g)
    OBVIOUS
  <2> DEFINE h == [i \in 0 .. k |-> IF i = k THEN step[k][g[k - 1]] ELSE g[i]]
  <2>2. k - 1 \in 0 .. (k - 1) /\ g[k - 1] \in T /\ step[k][g[k - 1]] \in T
    BY <2>1
  <2>3. h \in [0 .. k -> T]
    BY <2>1, <2>2
  <2>4. h[0] = base
    BY <2>1
  <2>5. ASSUME NEW i \in 1 .. k PROVE h[i] = step[i][h[i - 1]]
    <3>1. i - 1 \in 0 .. k /\ i - 1 # k /\ h[i - 1] = g[i - 1]
      OBVIOUS
    <3>2. CASE i = k
      BY <3>1, <3>2
    <3>3. CASE i # k
      BY <2>1, <3>1, <3>3
    <3> QED BY <3>2, <3>3
  <2>6. Is(k, h)
    BY <2>3, <2>4, <2>5
  <2> HIDE DEF Is, h
  <2> QED BY <1>2, <2>6
<1> HIDE DEF Is
<1>3. Bad = {}
  <2>1. Bad \in SUBSET (0 .. n)
    OBVIOUS
  <2> HIDE DEF Bad
  <2> QED BY <1>1, <1>2, <2>1, NoFirst
<1>4. PICK g : Is(n, g)
  <2>1. n \in 0 .. n
    OBVIOUS
  <2> QED BY <1>3, <2>1
<1> QED BY <1>4 DEF Is

\* What is left of a sequence: those of its elements that are in S.
LEMMA OnlyIs ==
  ASSUME NEW X, NEW s \in Seq(X), NEW S
  PROVE  Only(s, S) \in Seq(X) /\ SetOf(Only(s, S)) = SetOf(s) \cap S
<1> DEFINE n == Len(s)
           Turn(q, i) == IF s[i] \in S THEN Append(q, s[i]) ELSE q
           Stages(f) == f = [k \in 0 .. n |->
             IF k = 0 THEN <<>>
             ELSE IF s[k] \in S THEN Append(f[k - 1], s[k])
             ELSE f[k - 1]]
           upTo == CHOOSE f : Stages(f)
<1>1. n \in Nat /\ \A i \in 1 .. n : s[i] \in X
  OBVIOUS
<1>2. Only(s, S) = upTo[n]
  BY DEF Only
<1>3. Stages(upTo)
  <2>0. PICK T, base : T = Seq(X) /\ base = <<>>
    OBVIOUS
  <2> DEFINE step == [i \in 1 .. n |-> [q \in T |-> Turn(q, i)]]
  <2>1. base \in T
    BY <2>0
  <2>2. step \in [1 .. n -> [T -> T]]
    <3>1. \A i \in 1 .. n : \A q \in T : Turn(q, i) \in T
      BY <1>1, <2>0
    <3> QED BY <3>1
  <2>3. \A i \in 1 .. n : \A q \in T : step[i][q] = Turn(q, i)
    OBVIOUS
  <2> HIDE DEF step, n
  <2>4. PICK g \in [0 .. n -> T] : g[0] = base /\ \A i \in 1 .. n : g[i] = step[i][g[i - 1]]
    <3>1. n \in Nat
      BY <1>1 DEF n
    <3> QED BY <2>1, <2>2, <3>1, StagesExist
  <2>5. ASSUME NEW i \in 1 .. n PROVE g[i] = Turn(g[i - 1], i)
    <3>1. i - 1 \in 0 .. n
      BY <1>1
    <3> QED BY <2>3, <2>4, <3>1
  <2>6. ASSUME NEW k \in 0 .. n
        PROVE  g[k] = IF k = 0 THEN <<>>
                      ELSE IF s[k] \in S THEN Append(g[k - 1], s[k])
                      ELSE g[k - 1]
    <3>1. CASE k = 0
      BY <2>0, <2>4, <3>1
    <3>2. CASE k # 0
      <4>1. k \in 1 .. n
        BY <1>1, <3>2
      <4> QED BY <2>5, <3>2, <4>1
    <3> QED BY <3>1, <3>2
  <2>7. Stages(g)
    BY <2>4, <2>6
  <2> HIDE DEF Stages
  <2> QED BY <2>7
<1>4. upTo[0] = <<>> /\ \A i \in 1 .. n : upTo[i] = Turn(upTo[i - 1], i)
  <2> HIDE DEF upTo
  <2>1. upTo[0] = <<>>
    BY <1>1, <1>3
  <2>2. ASSUME NEW i \in 1 .. n PROVE upTo[i] = Turn(upTo[i - 1], i)
    <3>1. i \in 0 .. n /\ i # 0
      BY <1>1
    <3> QED BY <1>3, <3>1
  <2> QED BY <2>1, <2>2
<1> HIDE DEF upTo, Stages
<1> DEFINE Good(k) == upTo[k] \in Seq(X) /\ SetOf(upTo[k]) = {s[i] : i \in 1 .. k} \cap S
           Bad == {k \in 0 .. n : ~ Good(k)}
<1>5. 0 \notin Bad
  <2>1. 1 .. 0 = {} /\ <<>> \in Seq(X) /\ Len(<<>>) = 0
    OBVIOUS
  <2>2. {s[i] : i \in 1 .. 0} = {} /\ SetOf(<<>>) = {}
    BY <2>1 DEF SetOf
  <2>3. Good(0)
    BY <1>4, <2>1, <2>2
  <2> QED BY <2>3
<1>6. ASSUME NEW k \in 1 .. n, Good(k - 1) PROVE Good(k)
  <2> DEFINE q == upTo[k - 1]
  <2>1. q \in Seq(X) /\ SetOf(q) = {s[i] : i \in 1 .. k - 1} \cap S
    BY <1>6
  <2>2. upTo[k] = Turn(q, k) /\ s[k] \in X
    BY <1>1, <1>4
  <2>3. {s[i] : i \in 1 .. k} = {s[i] : i \in 1 .. k - 1} \cup {s[k]}
    <3>1. 1 .. k = (1 .. k - 1) \cup {k}
      BY <1>1
    <3> QED BY <3>1
  <2> HIDE DEF q, n
  <2>4. CASE s[k] \in S
    <3>1. upTo[k] = Append(q, s[k])
      BY <2>2, <2>4
    <3>2. Append(q, s[k]) \in Seq(X) /\ SetOf(Append(q, s[k])) = SetOf(q) \cup {s[k]}
      <4>1. /\ Append(q, s[k]) \in Seq(X) /\ Len(Append(q, s[k])) = Len(q) + 1 /\ Len(q) \in Nat
            /\ \A i \in 1 .. Len(q) : Append(q, s[k])[i] = q[i]
            /\ Append(q, s[k])[Len(q) + 1] = s[k]
        BY <2>1, <2>2
      <4>2. 1 .. Len(q) + 1 = (1 .. Len(q)) \cup {Len(q) + 1}
        BY <4>1
      <4> QED BY <4>1, <4>2 DEF SetOf
    <3> QED BY <2>1, <2>3, <2>4, <3>1, <3>2
  <2>5. CASE s[k] \notin S
    BY <2>1, <2>2, <2>3, <2>5
  <2> QED BY <2>4, <2>5
<1>7. Good(n)
  <2>1. Bad \in SUBSET (0 .. n)
    OBVIOUS
  <2> HIDE DEF Good
  <2>2. \A i \in 1 .. n : i \in Bad => i - 1 \in Bad
    <3> TAKE i \in 1 .. n
    <3>1. i - 1 \in 0 .. n
      BY <1>1
    <3> QED BY <1>6, <3>1
  <2>3. n \in 0 .. n
    BY <1>1
  <2> HIDE DEF Bad, n
  <2>4. Bad = {}
    BY <1>1, <1>5, <2>1, <2>2, NoFirst
  <2> QED BY <2>3, <2>4 DEF Bad
<1> QED BY <1>2, <1>7 DEF SetOf

-----------------------------------------------------------------------------
(* The panel's data and its indices. *)

LEMMA SectionsAre ==
  /\ SetOf(Attached) = {"cockpit", "tasks", "mailbox", "members"}
  /\ SetOf(Global) = {"teams", "panes"}
  /\ Sections = {"cockpit", "tasks", "mailbox", "members", "teams", "panes"}
  /\ Aliased \subseteq Sections
<1>1. 1 .. Len(Attached) = {1, 2, 3, 4} /\ 1 .. Len(Global) = {1, 2}
  BY DEF Attached, Global
<1>2. /\ SetOf(Attached) = {Attached[1], Attached[2], Attached[3], Attached[4]}
      /\ SetOf(Global) = {Global[1], Global[2]}
  BY <1>1 DEF SetOf
<1> QED BY <1>2 DEF Attached, Global, Sections, Aliased

LEMMA OrderIs ==
  ASSUME NEW d
  PROVE  /\ SetOf(Order(d)) \subseteq Sections /\ Order(d)[1] \in SetOf(Order(d))
         /\ d.mode = "attached" => SetOf(Order(d)) = {"cockpit", "tasks", "mailbox", "members"}
         /\ d.mode # "attached" => SetOf(Order(d)) = {"teams", "panes"}
BY SectionsAre DEF Order, Attached, Global

LEMMA RowsAre ==
  ASSUME NEW n \in Nat
  PROVE  Rows(n) \in Seq(Names)
BY DEF Rows, Names

\* The world and what a session remembers of it, with their types.
World(ts, ls, ms) ==
  /\ ts \in Seq(Teams) /\ ls \in [Teams -> BOOLEAN] /\ ms \in [Teams -> SUBSET SetOf(Members)]
  /\ \A t \in Teams \ SetOf(ts) : ~ls[t] /\ ms[t] = {}

Context(f, c) == f \in Teams \cup {None} /\ c \in [team : Teams \cup {None}, fresh : BOOLEAN]

LEMMA SetOfSeq ==
  ASSUME NEW X, NEW s \in Seq(X)
  PROVE  SetOf(s) \subseteq X /\ (s # <<>> => Head(s) \in SetOf(s))
BY DEF SetOf

\* Whatever team is asked for, what is loaded is that team or all there are.
LEMMA DataIs ==
  ASSUME World(teams', leads', members'), NEW t, NEW d \in LoadPanelData(t)
  PROVE  /\ d \in PanelData /\ Loaded(d)
         /\ d.mode = "attached" => d.team = t /\ t \in SetOf(teams')
<1>1. SetOf(teams') \subseteq Teams /\ teams' \in Seq(Names)
  BY SetOfSeq DEF World, Names
<1>2. NoRows \in [Sections -> Seq(Names)]
  BY DEF NoRows
<1>3. "cockpit" \in Sections /\ "tasks" \in Sections /\ "mailbox" \in Sections
      /\ "members" \in Sections /\ "teams" \in Sections /\ "panes" \in Sections
  BY SectionsAre
<1>4. CASE t \in SetOf(teams')
  <2>1. PICK n \in (0..MaxRows) \X (0..MaxRows) \X (0..MaxRows) :
          d = [mode |-> "attached", team |-> t,
               rows |-> [NoRows EXCEPT !["cockpit"] = Rows(n[1]), !["tasks"] = Rows(n[2]),
                                       !["mailbox"] = Rows(n[3]),
                                       !["members"] = Only(Members, members'[t])]]
    BY <1>4 DEF LoadPanelData, AttachedData
  <2>2. /\ n[1] \in Nat /\ n[2] \in Nat /\ n[3] \in Nat
        /\ Only(Members, members'[t]) \in Seq(SetOf(Members))
    BY BoundsType, MembersType, OnlyIs
  <2>3. Only(Members, members'[t]) \in Seq(Names)
    BY <2>2 DEF Names
  <2>4. /\ Rows(n[1]) \in Seq(Names) /\ Rows(n[2]) \in Seq(Names) /\ Rows(n[3]) \in Seq(Names)
    BY <2>2, RowsAre
  <2>5. d.rows \in [Sections -> Seq(Names)] /\ d.rows["members"] \in Seq(SetOf(Members))
    BY <1>2, <1>3, <2>1, <2>2, <2>3, <2>4
  <2> QED BY <1>1, <1>4, <2>1, <2>5 DEF PanelData, Loaded
<1>5. CASE t \notin SetOf(teams')
  <2>1. PICK n \in 0 .. MaxRows :
          d = [mode |-> "global", team |-> None,
               rows |-> [NoRows EXCEPT !["teams"] = teams', !["panes"] = Rows(n)]]
    BY <1>5 DEF LoadPanelData, GlobalData
  <2>2. Rows(n) \in Seq(Names)
    BY BoundsType, RowsAre
  <2>3. d.rows \in [Sections -> Seq(Names)] /\ d.rows["teams"] \in Seq(Teams)
    BY <1>1, <1>2, <1>3, <2>1, <2>2 DEF World
  <2> QED BY <2>1, <2>3 DEF PanelData, Loaded
<1> QED BY <1>4, <1>5

LEMMA NormalizeIs ==
  ASSUME NEW p \in TeamPanelState
  PROVE  LET q == Normalize(p)
         IN  /\ q \in TeamPanelState /\ q.focus = p.focus /\ q.selected = p.selected
             /\ q.alias = p.alias /\ q.menu = p.menu
             /\ \A s \in Sections : q.index[s] = Cursor(p, s) /\ Cursor(q, s) = Cursor(p, s)
<1> DEFINE index == [s \in Sections |-> IF s = p.focus THEN p.selected
                                        ELSE IF s \in Aliased THEN p.alias[s]
                                        ELSE p.index[s]]
           q == [p EXCEPT !.index = index]
<1>1. Normalize(p) = q
  BY DEF Normalize
<1>2. index \in [Sections -> Nat] /\ \A s \in Sections : index[s] = Cursor(p, s)
  BY DEF TeamPanelState, Cursor
<1> HIDE DEF index
<1>3. /\ q \in TeamPanelState /\ q.focus = p.focus /\ q.selected = p.selected
      /\ q.alias = p.alias /\ q.menu = p.menu /\ q.index = index
  BY <1>2 DEF TeamPanelState
<1> HIDE DEF q
<1>4. ASSUME NEW s \in Sections PROVE Cursor(q, s) = Cursor(p, s)
  BY <1>2, <1>3 DEF Cursor
<1> QED BY <1>1, <1>2, <1>3, <1>4

\* Whatever the panel's indices were, clamping them to new data
\* (clampPanelStateToData) puts the mark of every list that can be turned to on
\* one of its rows, and leaves the menu alone.
THEOREM ClampFits ==
  ASSUME NEW p \in TeamPanelState, NEW d \in PanelData, Loaded(d)
  PROVE  LET q == ClampPanelStateToData(p, d)
         IN  q \in TeamPanelState /\ Fits(q, d) /\ q.menu = p.menu
<1> DEFINE r == Normalize(p)
           here == SetOf(Order(d))
           focus == IF r.focus \in here THEN r.focus ELSE Order(d)[1]
           index == [s \in Sections |-> IF s \in here THEN ClampIndex(r.index[s], Len(d.rows[s]))
                                        ELSE r.index[s]]
           alias == [a \in Aliased |-> IF d.mode = "attached" \/ a \in here THEN index[a]
                                       ELSE r.alias[a]]
           q == [r EXCEPT !.focus = focus, !.index = index, !.alias = alias,
                          !.selected = index[focus]]
<1>1. ClampPanelStateToData(p, d) = q
  BY DEF ClampPanelStateToData
<1>2. r \in TeamPanelState /\ r.menu = p.menu
  BY NormalizeIs
<1>3. here \subseteq Sections /\ focus \in here /\ focus \in Sections
  BY OrderIs
<1>4. ASSUME NEW s \in Sections
      PROVE  /\ index[s] \in Nat
             /\ s \in here => index[s] = 0 \/ index[s] < Len(d.rows[s])
  <2>1. Len(d.rows[s]) \in Nat /\ r.index[s] \in Nat
    BY <1>2 DEF PanelData, TeamPanelState
  <2> QED BY <2>1 DEF ClampIndex
<1>5. index \in [Sections -> Nat]
  BY <1>4
<1> HIDE DEF index
<1>6. alias \in [Aliased -> Nat]
  BY <1>2, <1>5, SectionsAre DEF TeamPanelState
<1>7. \A a \in Aliased : a \in here => alias[a] = index[a]
  OBVIOUS
<1> HIDE DEF alias, focus, r
<1>8. /\ q \in TeamPanelState /\ q.focus = focus /\ q.index = index /\ q.alias = alias
      /\ q.selected = index[focus] /\ q.menu = p.menu
  BY <1>2, <1>3, <1>5, <1>6 DEF TeamPanelState
<1> HIDE DEF q
<1>9. ASSUME NEW s \in here PROVE Cursor(q, s) = index[s]
  BY <1>7, <1>8 DEF Cursor
<1>10. Fits(q, d)
  BY <1>3, <1>4, <1>8, <1>9 DEF Fits
<1> QED BY <1>1, <1>8, <1>10

LEMMA InitialState ==
  /\ CreateInitialPanelState \in TeamPanelState /\ CreateInitialPanelState.menu = NoMenu
  /\ NoMenu \in MenuState /\ NoMenu.open = FALSE /\ NoMenu.confirming = None
  /\ NoMenu.actions = <<>>
  /\ NoData \in PanelData
<1>1. /\ NoMenu \in MenuState /\ NoMenu.open = FALSE /\ NoMenu.confirming = None
      /\ NoMenu.actions = <<>>
  BY DEF NoMenu, MenuState
<1>2. [s \in Sections |-> 0] \in [Sections -> Nat] /\ [s \in Aliased |-> 0] \in [Aliased -> Nat]
      /\ "cockpit" \in Sections /\ NoRows \in [Sections -> Seq(Names)]
  BY SectionsAre DEF NoRows
<1>3. CreateInitialPanelState \in TeamPanelState /\ CreateInitialPanelState.menu = NoMenu
  BY <1>1, <1>2 DEF CreateInitialPanelState, TeamPanelState
<1>4. NoData \in PanelData
  BY <1>2 DEF NoData, PanelData
<1> QED BY <1>1, <1>3, <1>4

-----------------------------------------------------------------------------
(* Keys. *)

\* The lists of a panel that is open, once its indices are in line.
LEMMA NormalFits ==
  ASSUME PanelIInv, at = "panel"
  PROVE  LET r == Normalize(panel)
         IN  /\ r \in TeamPanelState /\ r.focus = panel.focus /\ r.selected = panel.selected
             /\ r.menu = panel.menu /\ Fits(r, data)
             /\ \A s \in Sections : r.index[s] = Cursor(r, s) /\ Cursor(r, s) = Cursor(panel, s)
<1> DEFINE r == Normalize(panel)
<1>1. /\ r \in TeamPanelState /\ r.focus = panel.focus /\ r.selected = panel.selected
      /\ r.menu = panel.menu
      /\ \A s \in Sections : r.index[s] = Cursor(panel, s) /\ Cursor(r, s) = Cursor(panel, s)
  BY NormalizeIs DEF PanelIInv, PanelTypeOK
<1>2. SetOf(Order(data)) \subseteq Sections
  BY OrderIs
<1> HIDE DEF r
<1>3. Fits(r, data)
  BY <1>1, <1>2 DEF PanelIInv, Fits
<1> QED BY <1>1, <1>3 DEF r

\* What a key must leave behind.
LEMMA KeyKeeps ==
  ASSUME PanelIInv, at = "panel",
         UNCHANGED <<world, binding, at, teamName, data, result, elses, opens>>,
         panel' \in TeamPanelState, Fits(panel', data),
         aim' \in [team : Teams \cup {None}, row : SUBSET Names] \cup {None},
         MenuFits(panel'.menu, aim')
  PROVE  PanelIInv'
<1>1. UNCHANGED <<teams, leads, members, file, cache, at, teamName, data, result, elses, opens>>
  BY DEF world, binding
<1>2. PanelTypeOK'
  BY <1>1 DEF PanelIInv, PanelTypeOK
<1>3. Fits(panel, data)'
  BY <1>1 DEF Fits, Loaded, Cursor
<1>4. MenuFits(panel.menu, aim)'
  BY DEF MenuFits, AsNamed
<1> QED BY <1>1, <1>2, <1>3, <1>4 DEF PanelIInv

LEMMA BrowseKeeps ==
  ASSUME PanelIInv, at = "panel",
         UNCHANGED <<world, binding, at, teamName, data, result, elses, opens, aim>>,
         panel' \in TeamPanelState, Fits(panel', data), panel'.menu = panel.menu
  PROVE  PanelIInv'
<1>1. aim' = aim
  OBVIOUS
<1>2. MenuFits(panel'.menu, aim')
  BY <1>1 DEF PanelIInv
<1>3. aim' \in [team : Teams \cup {None}, row : SUBSET Names] \cup {None}
  BY <1>1 DEF PanelIInv, PanelTypeOK
<1>4. UNCHANGED <<world, binding, at, teamName, data, result, elses, opens>>
  OBVIOUS
<1> QED BY <1>2, <1>3, <1>4, KeyKeeps

\* Another list is turned to: each keeps its mark.
LEMMA SetFocusIs ==
  ASSUME NEW p \in TeamPanelState, NEW s \in Sections,
         \A x \in Sections : p.index[x] = Cursor(p, x)
  PROVE  LET q == SetFocus(p, s)
         IN  /\ q \in TeamPanelState /\ q.focus = s /\ q.menu = p.menu
             /\ \A x \in Sections : Cursor(q, x) = Cursor(p, x)
<1> DEFINE alias == [a \in Aliased |-> IF a = p.focus THEN p.selected ELSE p.alias[a]]
           index == [p.index EXCEPT ![p.focus] = p.selected]
           p1 == [p EXCEPT !.index[p.focus] = p.selected, !.alias = alias]
           p2 == [p1 EXCEPT !.focus = s]
           alias3 == [a \in Aliased |-> p2.index[a]]
           p3 == [p2 EXCEPT !.selected = p2.index[p2.focus], !.alias = alias3]
           q == [p3 EXCEPT !.scroll = "list"]
<1>1. SetFocus(p, s) = q
  BY DEF SetFocus, SyncActiveIndex, SyncSelectedIndex, SetStoredIndex
<1>2. p.focus \in Sections /\ p.selected \in Nat /\ p.index \in [Sections -> Nat]
      /\ p.alias \in [Aliased -> Nat]
  BY DEF TeamPanelState
<1>3. index = p.index
  BY <1>2 DEF Cursor
<1>4. alias \in [Aliased -> Nat]
  BY <1>2
<1> HIDE DEF alias
<1>5. p1 \in TeamPanelState /\ p1.index = p.index /\ p1.menu = p.menu
  BY <1>2, <1>3, <1>4 DEF TeamPanelState
<1> HIDE DEF p1
<1>6. p2 \in TeamPanelState /\ p2.index = p.index /\ p2.menu = p.menu /\ p2.focus = s
  BY <1>5 DEF TeamPanelState
<1> HIDE DEF p2
<1>7. alias3 \in [Aliased -> Nat] /\ \A a \in Aliased : alias3[a] = p.index[a]
  BY <1>2, <1>6, SectionsAre
<1> HIDE DEF alias3
<1>8. p3 \in TeamPanelState /\ p3.index = p.index /\ p3.menu = p.menu /\ p3.focus = s
      /\ p3.selected = p.index[s] /\ p3.alias = alias3
  BY <1>2, <1>6, <1>7 DEF TeamPanelState
<1> HIDE DEF p3
<1>9. q \in TeamPanelState /\ q.index = p.index /\ q.menu = p.menu /\ q.focus = s
      /\ q.selected = p.index[s] /\ q.alias = alias3
  BY <1>8 DEF TeamPanelState
<1> HIDE DEF q
<1>10. \A x \in Sections : Cursor(q, x) = p.index[x]
  BY <1>7, <1>9 DEF Cursor
<1> QED BY <1>1, <1>9, <1>10

LEMMA FocusKeeps ==
  ASSUME PanelIInv, NEW s \in SetOf(Order(data)), Browse(LAMBDA p : SetFocus(p, s))
  PROVE  PanelIInv'
<1> DEFINE r == Normalize(panel)
           q == SetFocus(r, s)
<1>1. /\ at = "panel" /\ panel' = q
      /\ UNCHANGED <<world, binding, at, teamName, data, result, elses, opens>> /\ UNCHANGED aim
  BY DEF Browse, Key
<1>2. /\ r \in TeamPanelState /\ r.menu = panel.menu /\ Fits(r, data)
      /\ \A x \in Sections : r.index[x] = Cursor(r, x)
  BY <1>1, NormalFits
<1>3. s \in Sections /\ SetOf(Order(data)) \subseteq Sections
  BY OrderIs
<1> HIDE DEF r
<1>4. /\ q \in TeamPanelState /\ q.focus = s /\ q.menu = r.menu
      /\ \A x \in Sections : Cursor(q, x) = Cursor(r, x)
  BY <1>2, <1>3, SetFocusIs
<1> HIDE DEF q
<1>5. Fits(q, data)
  BY <1>2, <1>3, <1>4 DEF Fits
<1> QED BY <1>1, <1>2, <1>4, <1>5, BrowseKeeps

LEMMA TabKeeps ==
  ASSUME PanelIInv, NEW direction \in {1, -1}, Tab(direction)
  PROVE  PanelIInv'
<1> DEFINE order == Order(data)
           now == CHOOSE i \in 1..Len(order) : order[i] = panel.focus
           k == ((now - 1 + direction + Len(order)) % Len(order)) + 1
<1>1. at = "panel" /\ Browse(LAMBDA p : SetFocus(p, order[k]))
  BY DEF Tab, Browse, Key
<1>2. Len(order) \in Nat /\ Len(order) > 0
  BY DEF Order, Attached, Global
<1>3. now \in 1 .. Len(order)
  <2>1. \E i \in 1 .. Len(order) : order[i] = panel.focus
    BY <1>1 DEF PanelIInv, Fits, SetOf
  <2> QED BY <2>1
<1> HIDE DEF now
<1>4. k \in 1 .. Len(order)
  <2>1. \A i, n \in Int : n > 0 => i % n \in 0 .. n - 1
    OBVIOUS
  <2>2. now - 1 + direction + Len(order) \in Int
    BY <1>2, <1>3
  <2> QED BY <1>2, <2>1, <2>2
<1> HIDE DEF k
<1>5. order[k] \in SetOf(Order(data))
  BY <1>4 DEF SetOf
<1> QED BY <1>1, <1>5, FocusKeeps

LEMMA HotKeyKeeps ==
  ASSUME PanelIInv, NEW s, HotKey(s)
  PROVE  PanelIInv'
BY FocusKeeps DEF HotKey

LEMMA LeftRightKeeps ==
  ASSUME PanelIInv, NEW scroll \in {"list", "detail"}, LeftRight(scroll)
  PROVE  PanelIInv'
<1> DEFINE r == Normalize(panel)
           q == [r EXCEPT !.scroll = scroll]
<1>1. /\ at = "panel" /\ panel' = q
      /\ UNCHANGED <<world, binding, at, teamName, data, result, elses, opens>> /\ UNCHANGED aim
  BY DEF LeftRight, Browse, Key
<1>2. r \in TeamPanelState /\ r.menu = panel.menu /\ Fits(r, data)
  BY <1>1, NormalFits
<1> HIDE DEF r
<1>3. /\ q \in TeamPanelState /\ q.menu = r.menu /\ q.focus = r.focus
      /\ q.selected = r.selected /\ q.alias = r.alias /\ q.index = r.index
  BY <1>2 DEF TeamPanelState
<1> HIDE DEF q
<1>4. Fits(q, data)
  BY <1>2, <1>3 DEF Fits, Cursor
<1> QED BY <1>1, <1>2, <1>3, <1>4, BrowseKeeps

\* The mark goes to a row of the list, or to the first place of an empty one.
LEMMA MoveKeeps ==
  ASSUME PanelIInv, NEW i \in Nat, MoveTo(i),
         i = 0 \/ i < Len(data.rows[panel.focus])
  PROVE  PanelIInv'
<1> DEFINE r == Normalize(panel)
           p1 == [r EXCEPT !.selected = i]
           alias == [a \in Aliased |-> IF a = p1.focus THEN p1.selected ELSE p1.alias[a]]
           q == [p1 EXCEPT !.index[p1.focus] = p1.selected, !.alias = alias]
<1>1. /\ at = "panel" /\ panel' = SyncSelectedIndex(p1)
      /\ UNCHANGED <<world, binding, at, teamName, data, result, elses, opens>> /\ UNCHANGED aim
  BY DEF MoveTo, Browse, Key
<1>2. panel' = q
  BY <1>1 DEF SyncSelectedIndex, SetStoredIndex
<1>3. /\ r \in TeamPanelState /\ r.menu = panel.menu /\ Fits(r, data) /\ r.focus = panel.focus
  BY <1>1, NormalFits
<1> HIDE DEF r
<1>4. /\ p1 \in TeamPanelState /\ p1.menu = r.menu /\ p1.focus = r.focus
      /\ p1.selected = i /\ p1.alias = r.alias /\ p1.index = r.index
  BY <1>3 DEF TeamPanelState
<1> HIDE DEF p1
<1>5. alias \in [Aliased -> Nat]
      /\ \A a \in Aliased : alias[a] = IF a = r.focus THEN i ELSE r.alias[a]
  BY <1>3, <1>4 DEF TeamPanelState
<1> HIDE DEF alias
<1>6. /\ q \in TeamPanelState /\ q.menu = r.menu /\ q.focus = r.focus
      /\ q.selected = i /\ q.alias = alias /\ q.index = [r.index EXCEPT ![r.focus] = i]
  BY <1>4, <1>5 DEF TeamPanelState
<1> HIDE DEF q
<1>7. \A s \in Sections : Cursor(q, s) = IF s = r.focus THEN i ELSE Cursor(r, s)
  BY <1>3, <1>5, <1>6 DEF Cursor, TeamPanelState
<1>8. SetOf(Order(data)) \subseteq Sections
  BY OrderIs
<1>9. Fits(q, data)
  BY <1>3, <1>6, <1>7, <1>8 DEF Fits
<1> QED BY <1>1, <1>2, <1>3, <1>6, <1>9, BrowseKeeps

\* What is known of the list that an open panel has in focus.
LEMMA FocusIs ==
  ASSUME PanelIInv, at = "panel"
  PROVE  /\ panel.focus \in SetOf(Order(data)) /\ panel.focus \in Sections
         /\ panel.selected \in Nat /\ data.rows[panel.focus] \in Seq(Names)
         /\ panel.selected = 0 \/ panel.selected < Len(data.rows[panel.focus])
         /\ Len(data.rows[panel.focus]) \in Nat
<1>1. panel \in TeamPanelState /\ data \in PanelData /\ Fits(panel, data)
  BY DEF PanelIInv, PanelTypeOK
<1>2. panel.focus \in Sections /\ panel.selected \in Nat /\ data.rows \in [Sections -> Seq(Names)]
  BY <1>1 DEF TeamPanelState, PanelData
<1>3. /\ panel.focus \in SetOf(Order(data))
      /\ panel.selected = 0 \/ panel.selected < Len(data.rows[panel.focus])
  BY <1>1 DEF Fits, Cursor
<1> QED BY <1>2, <1>3

LEMMA UpKeeps ==
  ASSUME PanelIInv, Up
  PROVE  PanelIInv'
<1> DEFINE i == IF panel.selected = 0 THEN 0 ELSE panel.selected - 1
<1>1. MoveTo(i) /\ at = "panel"
  BY DEF Up, MoveTo, Browse, Key
<1>2. i \in Nat /\ (i = 0 \/ i < Len(data.rows[panel.focus]))
  BY <1>1, FocusIs
<1> HIDE DEF i
<1> QED BY <1>1, <1>2, MoveKeeps

LEMMA DownKeeps ==
  ASSUME PanelIInv, Down
  PROVE  PanelIInv'
<1> DEFINE n == Len(data.rows[panel.focus])
           last == IF n = 0 THEN 0 ELSE n - 1
           i == IF panel.selected < last THEN panel.selected + 1 ELSE last
<1>1. MoveTo(i) /\ at = "panel"
  BY DEF Down, MoveTo, Browse, Key
<1>2. i \in Nat /\ (i = 0 \/ i < Len(data.rows[panel.focus]))
  BY <1>1, FocusIs
<1> HIDE DEF i
<1> QED BY <1>1, <1>2, MoveKeeps

LEMMA EscapeKeeps ==
  ASSUME PanelIInv, Escape
  PROVE  PanelIInv'
<1>1. CASE LeftRight("list")
  BY <1>1, LeftRightKeeps
<1>2. CASE Browse(LAMBDA p : [p EXCEPT !.expanded = FALSE])
  <2> DEFINE r == Normalize(panel)
             q == [r EXCEPT !.expanded = FALSE]
  <2>1. /\ at = "panel" /\ panel' = q
        /\ UNCHANGED <<world, binding, at, teamName, data, result, elses, opens>> /\ UNCHANGED aim
    BY <1>2 DEF Browse, Key
  <2>2. r \in TeamPanelState /\ r.menu = panel.menu /\ Fits(r, data)
    BY <2>1, NormalFits
  <2> HIDE DEF r
  <2>3. /\ q \in TeamPanelState /\ q.menu = r.menu /\ q.focus = r.focus
        /\ q.selected = r.selected /\ q.alias = r.alias /\ q.index = r.index
    BY <2>2 DEF TeamPanelState
  <2> HIDE DEF q
  <2>4. Fits(q, data)
    BY <2>2, <2>3 DEF Fits, Cursor
  <2> QED BY <2>1, <2>2, <2>3, <2>4, BrowseKeeps
<1> QED BY <1>1, <1>2 DEF Escape

LEMMA QuitKeeps ==
  ASSUME PanelIInv, Quit
  PROVE  PanelIInv'
<1>1. UNCHANGED <<teams, leads, members, file, cache, elses, opens>>
  BY DEF Quit, world, binding
<1>2. /\ at' = "idle" /\ teamName' = None /\ data' = NoData
      /\ panel' = CreateInitialPanelState /\ aim' = None /\ result' = None
  BY DEF Quit, Close
<1> QED BY <1>1, <1>2, InitialState DEF PanelIInv, PanelTypeOK

-----------------------------------------------------------------------------
(* The menu. *)

\* The part of a list that is shown (windowSlice) holds the row marked, and no
\* place of the window stays empty while there are rows above it.
THEOREM WindowShowsCursor ==
  ASSUME NEW n \in Nat, NEW i \in Nat, i < n
  PROVE  /\ WindowStart(n, i) \in Nat
         /\ WindowStart(n, i) <= i /\ i < WindowStart(n, i) + Window
         /\ WindowStart(n, i) = 0 \/ WindowStart(n, i) + Window <= n
<1>1. PICK half \in Nat : half = Window \div 2 /\ half < Window
  BY WindowType
<1>2. Window \in Nat
  BY WindowType
<1> QED BY <1>1, <1>2 DEF WindowStart

LEMMA OnScreen ==
  ASSUME PanelIInv
  PROVE  SelectionOnScreen
<1> SUFFICES ASSUME at = "panel", data.rows[panel.focus] # <<>>
             PROVE  LET n == Len(data.rows[panel.focus])
                        start == WindowStart(n, Normalize(panel).index[panel.focus])
                    IN  panel.selected < n /\ start <= panel.selected
                        /\ panel.selected < start + Window
  BY DEF SelectionOnScreen
<1>1. /\ panel.focus \in Sections /\ panel.selected \in Nat
      /\ data.rows[panel.focus] \in Seq(Names)
      /\ panel.selected = 0 \/ panel.selected < Len(data.rows[panel.focus])
  BY FocusIs
<1>2. Len(data.rows[panel.focus]) \in Nat /\ panel.selected < Len(data.rows[panel.focus])
  BY <1>1
<1>3. Normalize(panel).index[panel.focus] = panel.selected
  BY <1>1, NormalFits DEF Cursor
<1> QED BY <1>1, <1>2, <1>3, WindowShowsCursor

\* The row marked is the one that a deed of the menu is about.
LEMMA MarkedIs ==
  ASSUME PanelIInv, at = "panel"
  PROVE  LET row == SelectedRow(panel.focus)
         IN  /\ row.there => row.name \in Marked
             /\ row.there /\ panel.focus = "teams" =>
                  row.name \in Teams /\ data.team = None
             /\ row.there /\ panel.focus = "members" => row.name \in SetOf(Members)
             /\ Marked \in SUBSET Names
<1> DEFINE rows == data.rows[panel.focus]
           n == Len(rows)
           i == panel.selected
<1>1. /\ panel.focus \in SetOf(Order(data)) /\ i \in Nat /\ rows \in Seq(Names) /\ n \in Nat
  BY FocusIs
<1>2. SelectedRow(panel.focus) = IF i < n THEN [there |-> TRUE, name |-> rows[i + 1]]
                                 ELSE [there |-> FALSE, name |-> None]
  BY DEF SelectedRow
<1>3. ASSUME i < n PROVE rows[i + 1] \in Marked
  <2>1. rows # <<>>
    BY <1>1, <1>3
  <2> DEFINE start == WindowStart(n, Normalize(panel).index[panel.focus])
  <2>2. start <= i /\ i < start + Window
    BY <2>1, OnScreen DEF SelectionOnScreen
  <2> HIDE DEF start
  <2>3. i \in 0 .. n - 1
    BY <1>1, <1>3
  <2> QED BY <2>2, <2>3 DEF Marked, start
<1>4. Loaded(data) /\ data \in PanelData
  BY DEF PanelIInv, Fits, PanelTypeOK
<1>5. ASSUME i < n, panel.focus = "teams" PROVE rows[i + 1] \in Teams /\ data.team = None
  <2>1. data.mode = "global"
    BY <1>1, <1>4, <1>5, OrderIs DEF Loaded, PanelData
  <2>2. rows \in Seq(Teams)
    BY <1>4, <1>5, <2>1 DEF Loaded
  <2> QED BY <1>1, <1>4, <1>5, <2>1, <2>2 DEF Loaded
<1>6. ASSUME i < n, panel.focus = "members" PROVE rows[i + 1] \in SetOf(Members)
  <2>1. data.mode = "attached"
    BY <1>1, <1>4, <1>6, OrderIs DEF Loaded, PanelData
  <2>2. rows \in Seq(SetOf(Members))
    BY <1>4, <1>6, <2>1 DEF Loaded
  <2> QED BY <1>1, <1>6, <2>2
<1>7. Marked \in SUBSET Names
  BY <1>1 DEF Marked
<1> QED BY <1>2, <1>3, <1>5, <1>6, <1>7

LEMMA MenuKeeps ==
  ASSUME PanelIInv, at = "panel", NEW m \in MenuState,
         panel' = [Normalize(panel) EXCEPT !.menu = m],
         UNCHANGED <<world, binding, at, teamName, data, result, elses, opens>>,
         aim' \in [team : Teams \cup {None}, row : SUBSET Names] \cup {None},
         MenuFits(m, aim')
  PROVE  PanelIInv'
<1> DEFINE r == Normalize(panel)
           q == [r EXCEPT !.menu = m]
<1>1. r \in TeamPanelState /\ Fits(r, data) /\ panel' = q
  BY NormalFits
<1> HIDE DEF r
<1>2. /\ q \in TeamPanelState /\ q.menu = m /\ q.focus = r.focus
      /\ q.selected = r.selected /\ q.alias = r.alias /\ q.index = r.index
  BY <1>1 DEF TeamPanelState
<1> HIDE DEF q
<1>3. Fits(q, data)
  BY <1>1, <1>2 DEF Fits, Cursor
<1> QED BY <1>1, <1>2, <1>3, KeyKeeps

\* A menu is opened: each of its entries is about what the screen names.
LEMMA OpenMenuKeeps ==
  ASSUME PanelIInv, NEW actions \in Seq(MenuAct), OpenActionMenu(actions),
         \A act \in SetOf(actions) : AsNamed(act, [team |-> data.team, row |-> Marked])
  PROVE  PanelIInv'
<1> DEFINE m == [NoMenu EXCEPT !.actions = actions, !.open = TRUE]
<1>1. /\ at = "panel" /\ panel' = [Normalize(panel) EXCEPT !.menu = m]
      /\ UNCHANGED <<world, binding, at, teamName, data, result, elses, opens>>
      /\ aim' = [team |-> data.team, row |-> Marked]
  BY DEF OpenActionMenu, Key
<1>2. m \in MenuState /\ m.actions = actions /\ m.confirming = None
  BY DEF NoMenu, MenuState
<1> HIDE DEF m
<1>3. MenuFits(m, aim')
  BY <1>1, <1>2 DEF MenuFits
<1>4. aim' \in [team : Teams \cup {None}, row : SUBSET Names]
  <2>1. data.team \in Teams \cup {None} /\ Marked \in SUBSET Names
    BY <1>1, MarkedIs DEF PanelIInv, PanelTypeOK, PanelData
  <2> QED BY <1>1, <2>1
<1> QED BY <1>1, <1>2, <1>3, <1>4, MenuKeeps

LEMMA PairOfActs ==
  ASSUME NEW a \in MenuAct, NEW b \in MenuAct
  PROVE  /\ <<a>> \in Seq(MenuAct) /\ SetOf(<<a>>) = {a}
         /\ <<a, b>> \in Seq(MenuAct) /\ SetOf(<<a, b>>) = {a, b}
<1>1. 1 .. 1 = {1} /\ 1 .. 2 = {1, 2}
  OBVIOUS
<1>2. SetOf(<<a>>) = {<<a>>[1]} /\ SetOf(<<a, b>>) = {<<a, b>>[1], <<a, b>>[2]}
  BY <1>1 DEF SetOf
<1> QED BY <1>2

LEMMA MaintenanceIs ==
  ASSUME PanelIInv, at = "panel"
  PROVE  /\ MaintenanceActions \in Seq(MenuAct)
         /\ \A act \in SetOf(MaintenanceActions) :
              AsNamed(act, [team |-> data.team, row |-> Marked])
<1>1. data.team \in Teams \cup {None}
  BY DEF PanelIInv, PanelTypeOK, PanelData
<1> DEFINE refresh == Act("refresh", FALSE, None, None)
           sync == Act("sync", FALSE, None, None)
           delete == Act("delete-team", TRUE, data.team, None)
           cleanup == Act("cleanup-all", TRUE, None, None)
           named == [team |-> data.team, row |-> Marked]
<1>2. /\ refresh \in MenuAct /\ sync \in MenuAct /\ delete \in MenuAct /\ cleanup \in MenuAct
      /\ refresh.id = "refresh" /\ sync.id = "sync" /\ cleanup.id = "cleanup-all"
      /\ delete.id = "delete-team" /\ delete.team = data.team
  BY <1>1 DEF Act, MenuAct
<1>3. /\ AsNamed(refresh, named) /\ AsNamed(sync, named) /\ AsNamed(delete, named)
      /\ AsNamed(cleanup, named)
  BY <1>2 DEF AsNamed
<1> HIDE DEF refresh, sync, delete, cleanup, named
<1>4. CASE data.mode = "global"
  <2>1. MaintenanceActions = <<refresh, cleanup>>
    BY <1>4 DEF MaintenanceActions, refresh, cleanup
  <2>2. SetOf(<<refresh, cleanup>>) = {refresh, cleanup} /\ <<refresh, cleanup>> \in Seq(MenuAct)
    BY <1>2, PairOfActs
  <2> QED BY <1>3, <2>1, <2>2 DEF named
<1>5. CASE data.mode # "global"
  <2> DEFINE four == <<refresh, sync, delete, cleanup>>
  <2>1. MaintenanceActions = four
    BY <1>5 DEF MaintenanceActions, refresh, sync, delete, cleanup
  <2>2. four \in Seq(MenuAct) /\ Len(four) = 4
    BY <1>2
  <2>3. four[1] = refresh /\ four[2] = sync /\ four[3] = delete /\ four[4] = cleanup
    OBVIOUS
  <2> HIDE DEF four
  <2>4. SetOf(four) = {four[1], four[2], four[3], four[4]}
    <3>1. 1 .. Len(four) = {1, 2, 3, 4}
      BY <2>2
    <3> QED BY <3>1 DEF SetOf
  <2> QED BY <1>3, <2>1, <2>2, <2>3, <2>4 DEF named
<1> QED BY <1>4, <1>5

LEMMA ContextIs ==
  ASSUME PanelIInv, at = "panel"
  PROVE  /\ ContextActions \in Seq(MenuAct)
         /\ \A act \in SetOf(ContextActions) :
              AsNamed(act, [team |-> data.team, row |-> Marked])
<1> DEFINE row == SelectedRow(panel.focus)
           toggle == Act("toggle-details", FALSE, None, None)
           recover == Act("recover-team", FALSE, row.name, None)
           delete == Act("delete-team", TRUE, row.name, None)
           remove == Act("remove-member", TRUE, data.team, row.name)
           named == [team |-> data.team, row |-> Marked]
           more == CASE panel.focus = "teams"   -> <<recover, delete>>
                     [] panel.focus = "members" -> <<remove>>
                     [] OTHER                   -> <<>>
<1>1. /\ row.there => row.name \in Marked
      /\ row.there /\ panel.focus = "teams" => row.name \in Teams /\ data.team = None
      /\ row.there /\ panel.focus = "members" => row.name \in SetOf(Members)
  BY MarkedIs
<1>2. data.team \in Teams \cup {None}
  BY DEF PanelIInv, PanelTypeOK, PanelData
<1>3. ContextActions = IF ~row.there THEN <<>> ELSE <<toggle>> \o more
  BY DEF ContextActions
<1> HIDE DEF row
<1>4. toggle \in MenuAct /\ AsNamed(toggle, named)
  BY DEF Act, MenuAct, AsNamed
<1>5. SetOf(<<>>) = {} /\ <<>> \in Seq(MenuAct)
  BY DEF SetOf
<1>6. ASSUME row.there
      PROVE  more \in Seq(MenuAct) /\ \A act \in SetOf(more) : AsNamed(act, named)
  <2>1. CASE panel.focus = "teams"
    <3>1. /\ recover \in MenuAct /\ delete \in MenuAct
          /\ AsNamed(recover, named) /\ AsNamed(delete, named)
      BY <1>1, <1>6, <2>1 DEF Act, MenuAct, AsNamed
    <3>2. more = <<recover, delete>>
      BY <2>1
    <3> HIDE DEF recover, delete, named, more
    <3>3. SetOf(<<recover, delete>>) = {recover, delete} /\ <<recover, delete>> \in Seq(MenuAct)
      BY <3>1, PairOfActs
    <3>4. \A act \in {recover, delete} : AsNamed(act, named)
      BY <3>1
    <3> QED BY <3>2, <3>3, <3>4
  <2>2. CASE panel.focus = "members"
    <3>1. remove \in MenuAct /\ AsNamed(remove, named)
      BY <1>1, <1>2, <1>6, <2>2 DEF Act, MenuAct, AsNamed
    <3>2. more = <<remove>>
      BY <2>2
    <3> HIDE DEF remove, named, more
    <3>3. SetOf(<<remove>>) = {remove} /\ <<remove>> \in Seq(MenuAct)
      BY <3>1, PairOfActs
    <3> QED BY <3>1, <3>2, <3>3
  <2>3. CASE panel.focus # "teams" /\ panel.focus # "members"
    BY <1>5, <2>3
  <2> QED BY <2>1, <2>2, <2>3
<1> HIDE DEF more, toggle, named
<1>7. CASE ~ row.there
  BY <1>3, <1>5, <1>7
<1>8. CASE row.there
  <2> DEFINE all == <<toggle>> \o more
  <2>1. /\ all \in Seq(MenuAct) /\ Len(all) = Len(more) + 1 /\ Len(more) \in Nat
        /\ all[1] = toggle /\ \A i \in 1 .. Len(more) : all[i + 1] = more[i]
    BY <1>4, <1>6, <1>8
  <2> HIDE DEF all
  <2>2. ASSUME NEW i \in 1 .. Len(all) PROVE AsNamed(all[i], named)
    <3>1. CASE i = 1
      BY <1>4, <2>1, <3>1
    <3>2. CASE i # 1
      <4>1. i - 1 \in 1 .. Len(more) /\ i = (i - 1) + 1
        BY <2>1, <3>2
      <4>2. all[i] = more[i - 1] /\ more[i - 1] \in SetOf(more)
        BY <2>1, <4>1 DEF SetOf
      <4> QED BY <1>6, <1>8, <4>2
    <3> QED BY <3>1, <3>2
  <2>3. \A act \in SetOf(all) : AsNamed(act, named)
    BY <2>2 DEF SetOf
  <2> QED BY <1>3, <1>8, <2>1, <2>3 DEF all, named
<1> QED BY <1>7, <1>8

LEMMA ContextMenuKeeps ==
  ASSUME PanelIInv, OpenActionMenu(ContextActions)
  PROVE  PanelIInv'
<1>1. at = "panel"
  BY DEF OpenActionMenu, Key
<1> QED BY <1>1, ContextIs, OpenMenuKeeps

LEMMA MaintenanceMenuKeeps ==
  ASSUME PanelIInv, OpenActionMenu(MaintenanceActions)
  PROVE  PanelIInv'
<1>1. at = "panel"
  BY DEF OpenActionMenu, Key
<1> QED BY <1>1, MaintenanceIs, OpenMenuKeeps

\* What a menu is about is among its entries.
LEMMA ChosenIs ==
  ASSUME PanelIInv, CanChoose
  PROVE  /\ Chosen \in SetOf(panel.menu.actions) /\ Chosen \in MenuAct /\ Chosen # None
         /\ AsNamed(Chosen, aim)
<1>1. /\ panel.menu.open /\ panel.menu.row < Len(panel.menu.actions)
      /\ MenuFits(panel.menu, aim)
  BY DEF CanChoose, PanelIInv
<1>2. panel.menu.row \in Nat /\ panel.menu.actions \in Seq(MenuAct)
  BY DEF PanelIInv, PanelTypeOK, TeamPanelState, MenuState
<1>3. panel.menu.row + 1 \in 1 .. Len(panel.menu.actions)
  BY <1>1, <1>2
<1>4. Chosen \in SetOf(panel.menu.actions) /\ Chosen \in MenuAct
  BY <1>2, <1>3 DEF Chosen, SetOf
<1> QED BY <1>1, <1>4, NoneType DEF MenuFits

\* A move inside the menu.
LEMMA InMenuKeeps ==
  ASSUME PanelIInv, panel.menu.open, at = "panel", NEW m \in MenuState,
         panel' = [Normalize(panel) EXCEPT !.menu = m],
         UNCHANGED <<world, binding, at, teamName, data, result, elses, opens>>,
         UNCHANGED aim,
         m.open, m.actions = panel.menu.actions,
         m.confirming # None => m.confirming \in SetOf(panel.menu.actions)
  PROVE  PanelIInv'
<1>1. MenuFits(m, aim') /\ aim' = aim
  BY DEF PanelIInv, MenuFits
<1>2. aim' \in [team : Teams \cup {None}, row : SUBSET Names] \cup {None}
  BY <1>1 DEF PanelIInv, PanelTypeOK
<1> QED BY <1>1, <1>2, MenuKeeps

\* The menu of the open panel, as a key finds it.
LEMMA MenuAt ==
  ASSUME PanelIInv, at = "panel"
  PROVE  /\ panel.menu \in MenuState /\ Normalize(panel).menu = panel.menu
         /\ MenuFits(panel.menu, aim) /\ Normalize(panel) \in TeamPanelState
BY NormalFits DEF PanelIInv, PanelTypeOK, TeamPanelState

LEMMA MenuMoveKeeps ==
  ASSUME PanelIInv, MenuMove
  PROVE  PanelIInv'
<1> DEFINE menu == panel.menu
           r == Normalize(panel)
<1>1. UNCHANGED aim
  BY DEF MenuMove
<1>2. CASE menu.confirming # None
  <2> DEFINE m == [menu EXCEPT !.yes = ~menu.yes]
  <2>1. /\ at = "panel" /\ menu.open /\ panel' = [r EXCEPT !.menu = [r.menu EXCEPT !.yes = ~r.menu.yes]]
        /\ UNCHANGED <<world, binding, at, teamName, data, result, elses, opens>>
    BY <1>2 DEF MenuMove, Menu, Key
  <2>2. menu \in MenuState /\ r.menu = menu /\ MenuFits(menu, aim) /\ r \in TeamPanelState
    BY <2>1, MenuAt
  <2>3. panel' = [r EXCEPT !.menu = m]
    BY <2>1, <2>2
  <2> HIDE DEF menu
  <2>4. m \in MenuState /\ m.open = menu.open /\ m.actions = menu.actions
        /\ m.confirming = menu.confirming
    BY <2>2 DEF MenuState
  <2> HIDE DEF m
  <2> QED BY <1>1, <2>1, <2>2, <2>3, <2>4, InMenuKeeps DEF menu, MenuFits
<1>3. CASE menu.confirming = None
  <2>1. PICK row \in {menu.row + 1, menu.row - 1} :
          /\ row \in 0..Len(menu.actions) - 1
          /\ Menu(LAMBDA m : [m EXCEPT !.row = row])
    BY <1>3 DEF MenuMove
  <2> DEFINE m == [menu EXCEPT !.row = row]
  <2>2. /\ at = "panel" /\ menu.open /\ panel' = [r EXCEPT !.menu = [@ EXCEPT !.row = row]]
        /\ UNCHANGED <<world, binding, at, teamName, data, result, elses, opens>>
    BY <2>1 DEF Menu, Key
  <2>3. menu \in MenuState /\ r.menu = menu /\ MenuFits(menu, aim) /\ r \in TeamPanelState
    BY <2>2, MenuAt
  <2>4. panel' = [r EXCEPT !.menu = m]
    BY <2>2, <2>3
  <2>5. row \in Nat
    BY <2>1
  <2> HIDE DEF menu
  <2>6. m \in MenuState /\ m.open = menu.open /\ m.actions = menu.actions
        /\ m.confirming = menu.confirming
    BY <2>3, <2>5 DEF MenuState
  <2> HIDE DEF m
  <2> QED BY <1>1, <1>3, <2>2, <2>3, <2>4, <2>6, InMenuKeeps DEF menu, MenuFits
<1> QED BY <1>2, <1>3

LEMMA MenuAskKeeps ==
  ASSUME PanelIInv, MenuAsk
  PROVE  PanelIInv'
<1> DEFINE menu == panel.menu
           r == Normalize(panel)
           c == Chosen
           m == [menu EXCEPT !.confirming = c]
<1>1. /\ at = "panel" /\ menu.open /\ UNCHANGED aim /\ CanChoose
      /\ panel' = [r EXCEPT !.menu = [@ EXCEPT !.confirming = c]]
      /\ UNCHANGED <<world, binding, at, teamName, data, result, elses, opens>>
  BY DEF MenuAsk, Menu, Key
<1>2. menu \in MenuState /\ r.menu = menu /\ r \in TeamPanelState
  BY <1>1, MenuAt
<1>3. c \in SetOf(menu.actions) /\ c \in MenuAct
  BY <1>1, ChosenIs
<1>4. panel' = [r EXCEPT !.menu = m]
  BY <1>1, <1>2
<1> HIDE DEF menu, c
<1>5. m \in MenuState /\ m.open = menu.open /\ m.actions = menu.actions /\ m.confirming = c
  BY <1>2, <1>3 DEF MenuState
<1> HIDE DEF m
<1> QED BY <1>1, <1>2, <1>3, <1>4, <1>5, InMenuKeeps DEF menu

LEMMA MenuCancelKeeps ==
  ASSUME PanelIInv, MenuCancel
  PROVE  PanelIInv'
<1> DEFINE menu == panel.menu
           r == Normalize(panel)
<1>1. CASE menu.confirming # None
  <2> DEFINE m == [menu EXCEPT !.confirming = None, !.yes = FALSE]
  <2>1. /\ at = "panel" /\ menu.open /\ UNCHANGED aim
        /\ panel' = [r EXCEPT !.menu = [@ EXCEPT !.confirming = None, !.yes = FALSE]]
        /\ UNCHANGED <<world, binding, at, teamName, data, result, elses, opens>>
    BY <1>1 DEF MenuCancel, Menu, Key
  <2>2. menu \in MenuState /\ r.menu = menu /\ r \in TeamPanelState
    BY <2>1, MenuAt
  <2>3. panel' = [r EXCEPT !.menu = m]
    BY <2>1, <2>2
  <2> HIDE DEF menu
  <2>4. m \in MenuState /\ m.open = menu.open /\ m.actions = menu.actions /\ m.confirming = None
    BY <2>2 DEF MenuState
  <2> HIDE DEF m
  <2> QED BY <2>1, <2>2, <2>3, <2>4, InMenuKeeps DEF menu
<1>2. CASE menu.confirming = None
  <2>1. /\ at = "panel" /\ aim' = None
        /\ panel' = [r EXCEPT !.menu = NoMenu]
        /\ UNCHANGED <<world, binding, at, teamName, data, result, elses, opens>>
    BY <1>2 DEF MenuCancel, Menu, Key
  <2>2. NoMenu \in MenuState /\ MenuFits(NoMenu, aim')
    BY InitialState DEF MenuFits
  <2>3. aim' \in [team : Teams \cup {None}, row : SUBSET Names] \cup {None}
    BY <2>1
  <2> QED BY <2>1, <2>2, <2>3, MenuKeeps
<1> QED BY <1>1, <1>2

LEMMA ToggleDetailsKeeps ==
  ASSUME PanelIInv, ToggleDetails
  PROVE  PanelIInv'
<1> DEFINE r == Normalize(panel)
           q == [r EXCEPT !.menu = NoMenu, !.expanded = ~@]
<1>1. /\ at = "panel" /\ aim' = None /\ panel' = q
      /\ UNCHANGED <<world, binding, at, teamName, data, result, elses, opens>>
  BY DEF ToggleDetails, Key
<1>2. r \in TeamPanelState /\ Fits(r, data)
  BY <1>1, NormalFits
<1> HIDE DEF r
<1>3. /\ q \in TeamPanelState /\ q.menu = NoMenu /\ q.focus = r.focus
      /\ q.selected = r.selected /\ q.alias = r.alias /\ q.index = r.index
  BY <1>2, InitialState DEF TeamPanelState
<1> HIDE DEF q
<1>4. Fits(q, data) /\ MenuFits(NoMenu, aim')
  BY <1>2, <1>3, InitialState DEF Fits, Cursor, MenuFits
<1> QED BY <1>1, <1>3, <1>4, KeyKeeps

\* A deed is chosen: the dialog will ask about what the screen named.
LEMMA DoneKeeps ==
  ASSUME PanelIInv, Done
  PROVE  PanelIInv'
<1>1. /\ at = "panel" /\ at' = "dialog"
      /\ UNCHANGED <<teams, leads, members, file, cache, teamName, data, panel, aim, elses, opens>>
  BY DEF Done, world, binding, screen
<1>2. result' \in MenuAct /\ result' # None /\ AsNamed(result', aim)
  <2>1. CASE panel.menu.confirming # None /\ result' = panel.menu.confirming
    <3>1. panel.menu.confirming \in MenuAct
      BY <1>1, <2>1, MenuAt DEF MenuState
    <3> QED BY <1>1, <2>1, <3>1, MenuAt DEF MenuFits
  <2>2. CASE CanChoose /\ result' = Chosen
    BY <2>2, ChosenIs
  <2> QED BY <2>1, <2>2 DEF Done
<1>3. PanelTypeOK'
  BY <1>1, <1>2 DEF PanelIInv, PanelTypeOK
<1>4. AsNamed(result, aim)'
  BY <1>1, <1>2 DEF AsNamed
<1> QED BY <1>1, <1>3, <1>4 DEF PanelIInv

-----------------------------------------------------------------------------
(* What the panel is opened on. *)

LEMMA WorldIs ==
  ASSUME PanelIInv
  PROVE  World(teams, leads, members) /\ Context(file, cache)
BY DEF PanelIInv, PanelTypeOK, World, Context

\* A team that is the session's own names it, or did when it was asked last.
LEMMA EnsuredIs ==
  ASSUME NEW ts, NEW ls, NEW ms, World(ts, ls, ms), NEW f, NEW c, Context(f, c)
  PROVE  LET e == Ensured(ts, ls, f, c)
         IN  /\ Context(e.file, e.cache) /\ e.team \in Teams \cup {None}
             /\ e.cache.fresh /\ e.cache.team = e.team
             /\ \/ e.team = None
                \/ e.team \in Teams /\ ls[e.team]
                \/ c.fresh /\ e.team = c.team
<1> DEFINE found(t) == [team |-> t, file |-> t, cache |-> [team |-> t, fresh |-> TRUE]]
           led == Only(ts, {t \in Teams : ls[t]})
           e == Ensured(ts, ls, f, c)
<1>1. led \in Seq(Teams) /\ SetOf(led) = SetOf(ts) \cap {t \in Teams : ls[t]}
  BY OnlyIs DEF World
<1>2. e = IF c.fresh THEN [team |-> c.team, file |-> f, cache |-> c]
          ELSE IF f \in SetOf(ts) /\ ls[f] THEN found(f)
          ELSE IF led # <<>> THEN found(Head(led))
          ELSE found(None)
  BY DEF Ensured
<1>3. led # <<>> => Head(led) \in Teams /\ ls[Head(led)]
  BY <1>1, SetOfSeq
<1>4. SetOf(ts) \subseteq Teams
  BY SetOfSeq DEF World
<1> HIDE DEF led, e
<1>5. CASE c.fresh
  BY <1>2, <1>5 DEF Context, e
<1>6. CASE ~ c.fresh
  <2> DEFINE Good(t) == t = None \/ (t \in Teams /\ ls[t])
  <2>1. \E t \in Teams \cup {None} : e = found(t) /\ Good(t)
    <3>1. CASE f \in SetOf(ts) /\ ls[f]
      <4>1. e = found(f) /\ Good(f) /\ f \in Teams \cup {None}
        BY <1>2, <1>4, <1>6, <3>1
      <4> QED BY <4>1
    <3>2. CASE ~ (f \in SetOf(ts) /\ ls[f]) /\ led # <<>>
      <4>1. e = found(Head(led)) /\ Good(Head(led)) /\ Head(led) \in Teams \cup {None}
        BY <1>2, <1>3, <1>6, <3>2
      <4> QED BY <4>1
    <3>3. CASE ~ (f \in SetOf(ts) /\ ls[f]) /\ ~ (led # <<>>)
      <4>1. e = found(None)
        BY <1>2, <1>6, <3>3
      <4>2. Good(None) /\ None \in Teams \cup {None}
        OBVIOUS
      <4> HIDE DEF Good, found
      <4> QED BY <4>1, <4>2
    <3> QED BY <3>1, <3>2, <3>3
  <2> QED BY <2>1 DEF Context, e
<1> QED BY <1>5, <1>6 DEF e

LEMMA OpenKeeps ==
  ASSUME NEW t \in Teams \cup {None}, Open(t),
         World(teams', leads', members'), Context(file', cache'),
         elses' \in 0 .. MaxElse, opens' \in 0 .. MaxOpens
  PROVE  PanelIInv' /\ (data'.mode = "attached" => data'.team = t /\ t \in Teams)
<1>1. /\ at' = "panel" /\ teamName' = t /\ data' \in LoadPanelData(t)
      /\ panel' = ClampPanelStateToData(CreateInitialPanelState, data')
      /\ aim' = None /\ result' = None
  BY DEF Open
<1>2. data' \in PanelData /\ Loaded(data') /\ (data'.mode = "attached" => data'.team = t)
      /\ (data'.mode = "attached" => t \in SetOf(teams'))
  BY <1>1, DataIs
<1>3. panel' \in TeamPanelState /\ Fits(panel', data') /\ panel'.menu = NoMenu
  BY <1>1, <1>2, InitialState, ClampFits
<1>4. PanelTypeOK'
  BY <1>1, <1>2, <1>3 DEF PanelTypeOK, World, Context
<1>5. Fits(panel, data)'
  BY <1>3 DEF Fits, Loaded, Cursor
<1>6. MenuFits(panel.menu, aim)'
  BY <1>3, InitialState DEF MenuFits
<1>7. SetOf(teams') \subseteq Teams
  BY SetOfSeq DEF World
<1> QED BY <1>1, <1>2, <1>4, <1>5, <1>6, <1>7 DEF PanelIInv

\* What a panel is opened on, and what of that the session can count on.
Own(t) == leads'[t] \/ cache = [team |-> t, fresh |-> TRUE]

LEMMA ReopenKeeps ==
  ASSUME NEW ts, NEW ls, NEW f, NEW c, Reopen(ts, ls, f, c), teams' = ts, leads' = ls,
         World(teams', leads', members'), Context(f, c),
         elses' \in 0 .. MaxElse, opens' \in 0 .. MaxOpens,
         c.fresh /\ c.team \in Teams => Own(c.team)
  PROVE  PanelIInv' /\ (data'.mode = "attached" => Own(data'.team))
<1> DEFINE e == Ensured(ts, ls, f, c)
<1>1. Remember(e) /\ Open(e.team)
  BY DEF Reopen
<1>2. /\ Context(e.file, e.cache) /\ e.team \in Teams \cup {None}
      /\ \/ e.team = None
         \/ e.team \in Teams /\ ls[e.team]
         \/ c.fresh /\ e.team = c.team
  BY EnsuredIs
<1> HIDE DEF e
<1>3. Context(file', cache')
  BY <1>1, <1>2 DEF Remember
<1>4. PanelIInv' /\ (data'.mode = "attached" => data'.team = e.team /\ e.team \in Teams)
  BY <1>1, <1>2, <1>3, OpenKeeps
<1>5. ASSUME e.team \in Teams PROVE Own(e.team)
  BY <1>2, <1>5, NoneType DEF Own
<1> QED BY <1>4, <1>5

\* The current team of the session, the world being as it is.
LEMMA ReopenHere ==
  ASSUME PanelIInv, UNCHANGED <<teams, leads>>, Reopen(teams, leads, file, cache),
         World(teams', leads', members'), UNCHANGED elses, opens' \in 0 .. MaxOpens
  PROVE  PanelIInv' /\ (data'.mode = "attached" => Own(data'.team))
<1>1. Context(file, cache) /\ elses' \in 0 .. MaxElse
  BY DEF PanelIInv, PanelTypeOK, Context
<1>2. cache.fresh => cache = [team |-> cache.team, fresh |-> TRUE]
  BY <1>1 DEF Context
<1> QED BY <1>1, <1>2, ReopenKeeps DEF Own

LEMMA ReadsIs ==
  ASSUME PanelIInv, Reads
  PROVE  opens' \in 0 .. MaxOpens
BY BoundsType DEF PanelIInv, PanelTypeOK, Reads

LEMMA TeamCommandKeeps ==
  ASSUME PanelIInv, TeamCommand
  PROVE  PanelIInv' /\ (data'.mode = "attached" => Own(data'.team))
<1>1. /\ Reads /\ UNCHANGED <<teams, leads, members>> /\ UNCHANGED elses
      /\ Reopen(teams, leads, file, cache)
  BY DEF TeamCommand, world, Reopen, CurrentTeam
<1>2. World(teams', leads', members')
  BY <1>1, WorldIs
<1> QED BY <1>1, <1>2, ReadsIs, ReopenHere

LEMMA SyncKeeps ==
  ASSUME PanelIInv, Sync
  PROVE  PanelIInv'
<1>1. /\ Reads /\ UNCHANGED <<teams, leads, members>> /\ UNCHANGED elses
      /\ Reopen(teams, leads, file, cache)
  BY DEF Sync, world, Reopen, CurrentTeam
<1>2. World(teams', leads', members')
  BY <1>1, WorldIs
<1> QED BY <1>1, <1>2, ReadsIs, ReopenHere

LEMMA RefreshKeeps ==
  ASSUME PanelIInv, Refresh
  PROVE  PanelIInv'
<1> DEFINE r == Normalize(panel)
           p == [r EXCEPT !.menu = NoMenu]
<1>1. /\ at = "panel" /\ Reads /\ data' \in LoadPanelData(teamName)
      /\ panel' = ClampPanelStateToData(p, data') /\ aim' = None
      /\ UNCHANGED <<teams, leads, members, file, cache, at, teamName, result, elses>>
  BY DEF Refresh, CanChoose, world, binding
<1>2. World(teams', leads', members')
  BY <1>1, WorldIs
<1>3. r \in TeamPanelState
  BY <1>1, NormalFits
<1> HIDE DEF r
<1>4. p \in TeamPanelState /\ p.menu = NoMenu
  BY <1>3, InitialState DEF TeamPanelState
<1> HIDE DEF p
<1>5. data' \in PanelData /\ Loaded(data')
  BY <1>1, <1>2, DataIs
<1>6. panel' \in TeamPanelState /\ Fits(panel', data') /\ panel'.menu = NoMenu
  BY <1>1, <1>4, <1>5, ClampFits
<1>7. opens' \in 0 .. MaxOpens
  BY <1>1, ReadsIs
<1>8. PanelTypeOK'
  BY <1>1, <1>5, <1>6, <1>7 DEF PanelIInv, PanelTypeOK
<1>9. Fits(panel, data)' /\ MenuFits(panel.menu, aim)'
  BY <1>6, InitialState DEF Fits, Loaded, Cursor, MenuFits
<1> QED BY <1>1, <1>8, <1>9 DEF PanelIInv

-----------------------------------------------------------------------------
(* The deeds. *)

\* A team that goes while it is not the session's own leaves the session's.
LEMMA DeletedTeamsKeep ==
  ASSUME PanelIInv, Reads, UNCHANGED elses, NEW gone, NEW own \in BOOLEAN,
         DeletedTeams(gone, own)
  PROVE  /\ PanelIInv' /\ (data'.mode = "attached" => Own(data'.team))
         /\ SetOf(teams') = SetOf(teams) \ gone
         /\ \A t \in SetOf(teams') : members'[t] = members[t]
<1> DEFINE e  == CurrentTeam
           ts == Only(teams, Teams \ gone)
           ls == [t \in Teams |-> leads[t] /\ t \notin gone]
           cleared == own \/ \E t \in gone : leads[t]
<1>1. /\ teams' = ts /\ leads' = ls
      /\ members' = [t \in Teams |-> IF t \in gone THEN {} ELSE members[t]]
      /\ IF cleared THEN Reopen(ts, ls, None, Stale) ELSE Reopen(ts, ls, e.file, e.cache)
  BY DEF DeletedTeams
<1>2. World(teams, leads, members) /\ Context(file, cache) /\ SetOf(teams) \subseteq Teams
  BY WorldIs, SetOfSeq DEF World
<1>3. ts \in Seq(Teams) /\ SetOf(ts) = SetOf(teams) \ gone
  BY <1>2, OnlyIs DEF World
<1>4. /\ ls \in [Teams -> BOOLEAN] /\ \A t \in Teams : ls[t] = (leads[t] /\ t \notin gone)
  OBVIOUS
<1>5. /\ members' \in [Teams -> SUBSET SetOf(Members)]
      /\ \A t \in Teams : members'[t] = IF t \in gone THEN {} ELSE members[t]
  BY <1>1, <1>2 DEF World
<1> HIDE DEF ts, ls
<1>6. World(teams', leads', members')
  BY <1>1, <1>2, <1>3, <1>4, <1>5 DEF World
<1>7. elses' \in 0 .. MaxElse /\ opens' \in 0 .. MaxOpens
  BY ReadsIs DEF PanelIInv, PanelTypeOK
<1>8. PanelIInv' /\ (data'.mode = "attached" => Own(data'.team))
  <2>1. CASE cleared
    <3>1. Context(None, Stale) /\ ~ Stale.fresh
      BY DEF Context, Stale
    <3>2. Reopen(ts, ls, None, Stale)
      BY <1>1, <2>1
    <3> QED BY <1>1, <1>6, <1>7, <3>1, <3>2, ReopenKeeps
  <2>2. CASE ~ cleared
    <3>1. /\ Context(e.file, e.cache) /\ e.cache.fresh /\ e.cache.team = e.team
          /\ \/ e.team = None
             \/ e.team \in Teams /\ leads[e.team]
             \/ cache.fresh /\ e.team = cache.team
      BY <1>2, EnsuredIs DEF CurrentTeam
    <3>2. Reopen(ts, ls, e.file, e.cache)
      BY <1>1, <2>2
    <3> HIDE DEF e
    <3>3. ASSUME e.team \in Teams PROVE Own(e.team)
      <4>1. CASE leads[e.team]
        <5>1. e.team \notin gone
          BY <2>2, <4>1
        <5> QED BY <1>1, <1>4, <3>3, <4>1, <5>1 DEF Own
      <4>2. CASE cache.fresh /\ e.team = cache.team
        BY <1>2, <4>2 DEF Own, Context
      <4> QED BY <3>1, <3>3, <4>1, <4>2, NoneType
    <3> QED BY <1>1, <1>6, <1>7, <3>1, <3>2, <3>3, ReopenKeeps
  <2> QED BY <2>1, <2>2
<1>9. \A t \in SetOf(teams') : members'[t] = members[t]
  BY <1>1, <1>2, <1>3, <1>5
<1> QED BY <1>1, <1>3, <1>8, <1>9

\* What a panel that opens shows, and what was removed before it did.
Opened ==
  /\ PanelIInv' /\ (data'.mode = "attached" => Own(data'.team))
  /\ \A t \in SetOf(teams) \ SetOf(teams') :
       \/ result.id = "cleanup-all"
       \/ t = aim.team
       \/ aim.team = None /\ t \in aim.row
  /\ \A t \in SetOf(teams') : \A m \in members[t] \ members'[t] :
       \/ result.id = "recover-team" /\ t = result.team
       \/ t = aim.team /\ m \in aim.row

LEMMA DialogIs ==
  ASSUME PanelIInv, at = "dialog"
  PROVE  /\ result \in MenuAct /\ AsNamed(result, aim)
         /\ World(teams, leads, members) /\ SetOf(teams) \subseteq Teams
BY WorldIs, SetOfSeq DEF PanelIInv, PanelTypeOK, World

LEMMA DeclineOpens ==
  ASSUME PanelIInv, Decline
  PROVE  Opened
<1>1. /\ Reads /\ UNCHANGED <<teams, leads, members>> /\ UNCHANGED elses
      /\ Reopen(teams, leads, file, cache)
  BY DEF Decline, world
<1>2. World(teams', leads', members')
  BY <1>1, WorldIs
<1>3. PanelIInv' /\ (data'.mode = "attached" => Own(data'.team))
  BY <1>1, <1>2, ReadsIs, ReopenHere
<1> QED BY <1>1, <1>3 DEF Opened

LEMMA RemoveOpens ==
  ASSUME PanelIInv, RemoveSelectedMember
  PROVE  Opened
<1>1. /\ at = "dialog" /\ result.id = "remove-member" /\ Reads /\ UNCHANGED elses
      /\ UNCHANGED <<teams, leads>> /\ Reopen(teams, leads, file, cache)
      /\ members' = IF result.team \in SetOf(teams)
                    THEN [members EXCEPT ![result.team] = @ \ {result.member}] ELSE members
  BY DEF RemoveSelectedMember, Asked
<1>2. /\ AsNamed(result, aim) /\ World(teams, leads, members) /\ SetOf(teams) \subseteq Teams
  BY <1>1, DialogIs
<1>3. \A t \in Teams : members'[t] = IF t = result.team /\ t \in SetOf(teams)
                                     THEN members[t] \ {result.member} ELSE members[t]
  BY <1>1, <1>2 DEF World
<1>4. members' \in [Teams -> SUBSET SetOf(Members)]
  BY <1>1, <1>2 DEF World
<1>5. World(teams', leads', members')
  BY <1>1, <1>2, <1>3, <1>4 DEF World
<1>6. PanelIInv' /\ (data'.mode = "attached" => Own(data'.team))
  BY <1>1, <1>5, ReadsIs, ReopenHere
<1>7. ASSUME NEW t \in SetOf(teams'), NEW m \in members[t] \ members'[t]
      PROVE  t = aim.team /\ m \in aim.row
  BY <1>1, <1>2, <1>3, <1>7 DEF AsNamed
<1> QED BY <1>1, <1>6, <1>7 DEF Opened

LEMMA DeleteOpens ==
  ASSUME PanelIInv, DeleteSelectedTeam
  PROVE  Opened
<1> DEFINE gone == SetOf(teams) \cap {result.team}
           own == result.team \in SetOf(teams) /\ CurrentTeam.team = result.team
<1>1. /\ at = "dialog" /\ result.id = "delete-team" /\ Reads /\ UNCHANGED elses
      /\ DeletedTeams(gone, own) /\ own \in BOOLEAN
  BY DEF DeleteSelectedTeam, Asked
<1> HIDE DEF own
<1>2. AsNamed(result, aim)
  BY <1>1, DialogIs
<1>3. /\ PanelIInv' /\ (data'.mode = "attached" => Own(data'.team))
      /\ SetOf(teams') = SetOf(teams) \ gone
      /\ \A t \in SetOf(teams') : members'[t] = members[t]
  BY <1>1, DeletedTeamsKeep
<1> QED BY <1>1, <1>2, <1>3 DEF Opened, AsNamed

LEMMA CleanupOpens ==
  ASSUME PanelIInv, CleanupAll
  PROVE  Opened
<1> DEFINE own == CurrentTeam.team # None
<1>1. /\ result.id = "cleanup-all" /\ Reads /\ UNCHANGED elses
      /\ DeletedTeams(SetOf(teams), own) /\ own \in BOOLEAN
  BY DEF CleanupAll, Asked
<1> HIDE DEF own
<1>2. /\ PanelIInv' /\ (data'.mode = "attached" => Own(data'.team))
      /\ \A t \in SetOf(teams') : members'[t] = members[t]
  BY <1>1, DeletedTeamsKeep
<1> QED BY <1>1, <1>2 DEF Opened

LEMMA RecoverOpens ==
  ASSUME PanelIInv, RecoverTeam
  PROVE  Opened
<1>1. /\ at = "dialog" /\ result.id = "recover-team" /\ Reads /\ UNCHANGED elses
      /\ UNCHANGED teams
  BY DEF RecoverTeam, Asked
<1>2. /\ World(teams, leads, members) /\ SetOf(teams) \subseteq Teams /\ opens' \in 0 .. MaxOpens
      /\ elses' \in 0 .. MaxElse
  BY <1>1, DialogIs, ReadsIs DEF PanelIInv, PanelTypeOK
<1>3. CASE result.team \in SetOf(teams)
  <2>1. PICK stale \in {{}} \cup {{m} : m \in members[result.team]} :
          /\ leads' = [leads EXCEPT ![result.team] = TRUE]
          /\ members' = [members EXCEPT ![result.team] = @ \ stale]
          /\ file' = result.team /\ cache' = Stale
          /\ Open(result.team)
    BY <1>3 DEF RecoverTeam
  <2>2. /\ \A t \in Teams : leads'[t] = (t = result.team \/ leads[t])
        /\ \A t \in Teams : members'[t] = IF t = result.team THEN members[t] \ stale
                                          ELSE members[t]
        /\ leads' \in [Teams -> BOOLEAN] /\ members' \in [Teams -> SUBSET SetOf(Members)]
    BY <1>2, <2>1 DEF World
  <2>3. World(teams', leads', members')
    BY <1>1, <1>2, <1>3, <2>2 DEF World
  <2>4. Context(file', cache')
    BY <1>2, <1>3, <2>1 DEF Context, Stale
  <2>5. PanelIInv' /\ (data'.mode = "attached" => data'.team = result.team)
    BY <1>2, <1>3, <2>1, <2>3, <2>4, OpenKeeps
  <2> QED BY <1>1, <1>2, <1>3, <2>2, <2>5 DEF Opened, Own
<1>4. CASE result.team \notin SetOf(teams)
  <2>1. UNCHANGED <<leads, members>> /\ Reopen(teams, leads, file, cache)
    BY <1>4 DEF RecoverTeam
  <2>2. World(teams', leads', members')
    BY <1>1, <1>2, <2>1
  <2>3. PanelIInv' /\ (data'.mode = "attached" => Own(data'.team))
    BY <1>1, <1>2, <2>1, <2>2, ReopenHere
  <2> QED BY <1>1, <2>1, <2>3 DEF Opened
<1> QED BY <1>3, <1>4

-----------------------------------------------------------------------------
(* Everything else, and every step. *)

LEMMA ElseKeeps ==
  ASSUME PanelIInv, Else, World(teams', leads', members'), Context(file', cache')
  PROVE  PanelIInv' /\ UNCHANGED at
<1>1. UNCHANGED <<at, teamName, data, panel, aim, result, opens>>
  BY DEF Else, screen
<1>2. elses' \in 0 .. MaxElse
  BY BoundsType DEF Else, PanelIInv, PanelTypeOK
<1>3. PanelTypeOK'
  BY <1>1, <1>2 DEF PanelIInv, PanelTypeOK, World, Context
<1>4. /\ at = "panel" => Fits(panel, data)' /\ MenuFits(panel.menu, aim)'
      /\ at = "dialog" => AsNamed(result, aim)'
  BY <1>1 DEF PanelIInv, Fits, Loaded, Cursor, MenuFits, AsNamed
<1> QED BY <1>1, <1>3, <1>4 DEF PanelIInv

LEMMA TeamsWith ==
  ASSUME NEW ts \in Seq(Teams), NEW t \in Teams
  PROVE  <<t>> \o ts \in Seq(Teams) /\ SetOf(<<t>> \o ts) = SetOf(ts) \cup {t}
<1> DEFINE all == <<t>> \o ts
<1>1. /\ all \in Seq(Teams) /\ Len(all) = Len(ts) + 1 /\ Len(ts) \in Nat
      /\ all[1] = t /\ \A i \in 1 .. Len(ts) : all[i + 1] = ts[i]
  OBVIOUS
<1> HIDE DEF all
<1>2. ASSUME NEW i \in 1 .. Len(all) PROVE all[i] \in SetOf(ts) \cup {t}
  <2>1. CASE i = 1
    BY <1>1, <2>1
  <2>2. CASE i # 1
    <3>1. i - 1 \in 1 .. Len(ts) /\ i = (i - 1) + 1
      BY <1>1, <2>2
    <3>2. all[i] = ts[i - 1]
      BY <1>1, <3>1
    <3> QED BY <3>1, <3>2 DEF SetOf
  <2> QED BY <2>1, <2>2
<1>3. ASSUME NEW i \in 1 .. Len(ts) PROVE ts[i] \in SetOf(all)
  <2>1. i + 1 \in 1 .. Len(all) /\ all[i + 1] = ts[i]
    BY <1>1
  <2> QED BY <2>1 DEF SetOf
<1>4. t \in SetOf(all)
  <2>1. 1 \in 1 .. Len(all)
    BY <1>1
  <2> QED BY <1>1, <2>1 DEF SetOf
<1>5. SetOf(all) = SetOf(ts) \cup {t}
  BY <1>2, <1>3, <1>4 DEF SetOf
<1> QED BY <1>1, <1>5 DEF all

LEMMA CreateKeeps ==
  ASSUME PanelIInv, NEW t \in Teams, ExecuteCreateTeam(t)
  PROVE  PanelIInv' /\ UNCHANGED at
<1>1. /\ Else /\ teams' = IF t \in SetOf(teams) THEN teams ELSE <<t>> \o teams
      /\ leads' = [leads EXCEPT ![t] = TRUE] /\ members' = members
      /\ file' = t /\ cache' = Stale
  BY DEF ExecuteCreateTeam
<1>2. World(teams, leads, members)
  BY WorldIs
<1>3. teams' \in Seq(Teams) /\ SetOf(teams') = SetOf(teams) \cup {t}
  BY <1>1, <1>2, TeamsWith DEF World
<1>4. World(teams', leads', members') /\ Context(file', cache')
  BY <1>1, <1>2, <1>3 DEF World, Context, Stale
<1> QED BY <1>1, <1>4, ElseKeeps

LEMMA OtherCreatesKeeps ==
  ASSUME PanelIInv, NEW t \in Teams, OtherCreates(t)
  PROVE  PanelIInv' /\ UNCHANGED at
<1>1. /\ Else /\ teams' = <<t>> \o teams /\ UNCHANGED <<leads, members, file, cache>>
  BY DEF OtherCreates, binding
<1>2. World(teams, leads, members) /\ Context(file, cache)
  BY WorldIs
<1>3. teams' \in Seq(Teams) /\ SetOf(teams') = SetOf(teams) \cup {t}
  BY <1>1, <1>2, TeamsWith DEF World
<1>4. World(teams', leads', members') /\ Context(file', cache')
  BY <1>1, <1>2, <1>3 DEF World
<1> QED BY <1>1, <1>4, ElseKeeps

LEMMA OtherRecoversKeeps ==
  ASSUME PanelIInv, NEW t \in Teams, OtherRecovers(t)
  PROVE  PanelIInv' /\ UNCHANGED at
<1>1. /\ Else /\ leads' = [leads EXCEPT ![t] = FALSE]
      /\ UNCHANGED <<teams, members, file, cache>>
  BY DEF OtherRecovers, binding
<1>2. World(teams', leads', members') /\ Context(file', cache')
  BY <1>1, WorldIs DEF World
<1> QED BY <1>1, <1>2, ElseKeeps

LEMMA OtherDeletesKeeps ==
  ASSUME PanelIInv, NEW t \in Teams, OtherDeletes(t)
  PROVE  PanelIInv' /\ UNCHANGED at
<1>1. /\ Else /\ teams' = Only(teams, Teams \ {t})
      /\ leads' = [leads EXCEPT ![t] = FALSE] /\ members' = [members EXCEPT ![t] = {}]
      /\ file' \in {None, file} /\ UNCHANGED cache
  BY DEF OtherDeletes
<1>2. World(teams, leads, members) /\ Context(file, cache)
  BY WorldIs
<1>3. teams' \in Seq(Teams) /\ SetOf(teams') = SetOf(teams) \cap (Teams \ {t})
  BY <1>1, <1>2, OnlyIs DEF World
<1>4. World(teams', leads', members')
  BY <1>1, <1>2, <1>3 DEF World
<1>5. Context(file', cache')
  BY <1>1, <1>2 DEF Context
<1> QED BY <1>1, <1>4, <1>5, ElseKeeps

LEMMA MemberKeeps ==
  ASSUME PanelIInv, NEW t \in Teams, NEW m \in SetOf(Members), MemberComesOrGoes(t, m)
  PROVE  PanelIInv' /\ UNCHANGED at
<1>1. /\ Else /\ t \in SetOf(teams) /\ UNCHANGED <<teams, leads, file, cache>>
      /\ members' = [members EXCEPT ![t] = IF m \in @ THEN @ \ {m} ELSE @ \cup {m}]
  BY DEF MemberComesOrGoes, binding
<1>2. World(teams, leads, members) /\ Context(file, cache)
  BY WorldIs
<1>3. World(teams', leads', members') /\ Context(file', cache')
  BY <1>1, <1>2 DEF World
<1> QED BY <1>1, <1>3, ElseKeeps

LEMMA HookAsksKeeps ==
  ASSUME PanelIInv, HookAsks
  PROVE  PanelIInv' /\ UNCHANGED at
<1> DEFINE e == CurrentTeam
<1>1. Else /\ Remember(e) /\ UNCHANGED <<teams, leads, members>>
  BY DEF HookAsks, world
<1>2. World(teams, leads, members) /\ Context(file, cache)
  BY WorldIs
<1>3. Context(e.file, e.cache)
  BY <1>2, EnsuredIs DEF CurrentTeam
<1>4. World(teams', leads', members') /\ Context(file', cache')
  BY <1>1, <1>2, <1>3 DEF Remember
<1> QED BY <1>1, <1>4, ElseKeeps

LEMMA CacheExpiresKeeps ==
  ASSUME PanelIInv, CacheExpires
  PROVE  PanelIInv' /\ UNCHANGED at
<1>1. Else /\ cache' = Stale /\ UNCHANGED <<teams, leads, members, file>>
  BY DEF CacheExpires, world
<1>2. World(teams, leads, members) /\ Context(file, cache)
  BY WorldIs
<1>3. World(teams', leads', members') /\ Context(file', cache')
  BY <1>1, <1>2 DEF Context, Stale
<1> QED BY <1>1, <1>3, ElseKeeps

\* What a step leaves: the invariant, and where it opens the panel, what
\* opening one is to leave.
LEMMA PanelStep ==
  ASSUME PanelIInv, [PanelNext]_panelVars
  PROVE  PanelIInv' /\ (at = "dialog" /\ at' = "panel" => Opened)
         /\ (at # "panel" /\ at' = "panel" /\ data'.mode = "attached" => Own(data'.team))
<1> DEFINE Keeps == PanelIInv' /\ (at = "panel" \/ at' # "panel")
<1>1. CASE TeamCommand
  BY <1>1, TeamCommandKeeps DEF TeamCommand
<1>2. ASSUME NEW direction \in {1, -1}, Tab(direction) PROVE Keeps
  BY <1>2, TabKeeps DEF Tab, Browse, Key
<1>3. ASSUME NEW s \in Sections, HotKey(s) PROVE Keeps
  BY <1>3, HotKeyKeeps DEF HotKey, Browse, Key
<1>4. ASSUME NEW scroll \in {"list", "detail"}, LeftRight(scroll) PROVE Keeps
  BY <1>4, LeftRightKeeps DEF LeftRight, Browse, Key
<1>5. CASE Up
  BY <1>5, UpKeeps DEF Up, MoveTo, Browse, Key
<1>6. CASE Down
  BY <1>6, DownKeeps DEF Down, MoveTo, Browse, Key
<1>7. CASE Escape
  BY <1>7, EscapeKeeps DEF Escape, LeftRight, Browse, Key
<1>8. CASE Quit
  BY <1>8, QuitKeeps DEF Quit
<1>9. CASE OpenActionMenu(ContextActions)
  BY <1>9, ContextMenuKeeps DEF OpenActionMenu, Key
<1>10. CASE OpenActionMenu(MaintenanceActions)
  BY <1>10, MaintenanceMenuKeeps DEF OpenActionMenu, Key
<1>11. CASE MenuMove
  BY <1>11, MenuMoveKeeps DEF MenuMove, Menu, Key
<1>12. CASE MenuAsk
  BY <1>12, MenuAskKeeps DEF MenuAsk, CanChoose
<1>13. CASE MenuCancel
  BY <1>13, MenuCancelKeeps DEF MenuCancel, Menu, Key
<1>14. CASE ToggleDetails
  BY <1>14, ToggleDetailsKeeps DEF ToggleDetails, CanChoose
<1>15. CASE Refresh
  BY <1>15, RefreshKeeps DEF Refresh, CanChoose
<1>16. CASE Sync
  BY <1>16, SyncKeeps DEF Sync, CanChoose
<1>17. CASE Done
  BY <1>17, DoneKeeps DEF Done
<1>18. ASSUME Opened PROVE PanelIInv' /\ (data'.mode = "attached" => Own(data'.team))
  BY <1>18 DEF Opened
<1>19. CASE Decline \/ RemoveSelectedMember \/ DeleteSelectedTeam \/ CleanupAll \/ RecoverTeam
  BY <1>18, <1>19, DeclineOpens, RemoveOpens, DeleteOpens, CleanupOpens, RecoverOpens
<1>20. ASSUME Others PROVE PanelIInv' /\ UNCHANGED at
  BY <1>20, CreateKeeps, OtherCreatesKeeps, OtherRecoversKeeps, OtherDeletesKeeps, MemberKeeps,
     HookAsksKeeps, CacheExpiresKeeps DEF Others
<1>21. CASE UNCHANGED panelVars
  <2>1. UNCHANGED <<teams, leads, members, file, cache, at, teamName, data, panel, result, aim,
                    elses, opens>>
    BY <1>21 DEF panelVars, world, binding, screen
  <2> QED BY <2>1 DEF PanelIInv, PanelTypeOK, Fits, Loaded, Cursor, MenuFits, AsNamed
<1> QED BY <1>1, <1>2, <1>3, <1>4, <1>5, <1>6, <1>7, <1>8, <1>9, <1>10, <1>11, <1>12, <1>13,
           <1>14, <1>15, <1>16, <1>17, <1>18, <1>19, <1>20, <1>21
           DEF PanelNext, User

LEMMA PanelInitIInv ==
  ASSUME PanelInit
  PROVE  PanelIInv
<1>1. /\ teams = <<>> /\ leads = [t \in Teams |-> FALSE] /\ members = [t \in Teams |-> {}]
      /\ file = None /\ cache = Stale
      /\ at = "idle" /\ teamName = None /\ data = NoData
      /\ panel = CreateInitialPanelState /\ result = None /\ aim = None
      /\ elses = 0 /\ opens = 0
  BY DEF PanelInit
<1>2. cache \in [team : Teams \cup {None}, fresh : BOOLEAN]
  BY <1>1 DEF Stale
<1>3. elses \in 0 .. MaxElse /\ opens \in 0 .. MaxOpens
  BY <1>1, BoundsType
<1>4. PanelTypeOK
  BY <1>1, <1>2, <1>3, InitialState DEF PanelTypeOK
<1> QED BY <1>1, <1>4 DEF PanelIInv

\* The invariant of the panel: each list that can be turned to has its mark on
\* one of its rows, and what the menu offers, asks about or hands to the dialog
\* is what the screen named when the menu was opened.
THEOREM PanelInvariance == PanelSpec => []PanelIInv
<1>1. PanelInit => PanelIInv
  BY PanelInitIInv
<1>2. PanelIInv /\ [PanelNext]_panelVars => PanelIInv'
  BY PanelStep
<1> QED BY <1>1, <1>2, PTL DEF PanelSpec

\* The state of the panel has its type: a team that is not there has no leader
\* and no members, and the dialog has a deed to ask about.
THEOREM PanelTypeCorrect == PanelSpec => []PanelTypeOK
<1>1. PanelIInv => PanelTypeOK
  BY DEF PanelIInv
<1> QED BY <1>1, PanelInvariance, PTL

\* However long the lists and however small the screen, the row that a key acts
\* on is on the screen (panel state, its copies and windowSlice agree).
THEOREM SelectionStaysOnScreen == PanelSpec => []SelectionOnScreen
<1>1. PanelIInv => SelectionOnScreen
  BY OnScreen
<1> QED BY <1>1, PanelInvariance, PTL

\* Whatever other sessions do while the dialog is open, what goes when it is
\* answered is the team or the teammate that the screen named.
THEOREM OnlyShownIsRemoved == PanelSpec => RemovedAsShown
<1> DEFINE Step == at = "dialog" /\ at' = "panel" =>
       /\ \A t \in SetOf(teams) \ SetOf(teams') :
            result.id = "cleanup-all" \/ t = aim.team \/ (aim.team = None /\ t \in aim.row)
       /\ \A t \in SetOf(teams') : \A m \in members[t] \ members'[t] :
            \/ result.id = "recover-team" /\ t = result.team
            \/ t = aim.team /\ m \in aim.row
<1>1. PanelIInv /\ [PanelNext]_panelVars => [Step]_panelVars
  BY PanelStep DEF Opened
<1> HIDE DEF Step
<1>2. PanelSpec => [][Step]_panelVars
  BY <1>1, PanelInvariance, PTL DEF PanelSpec
<1> QED BY <1>2 DEF RemovedAsShown, Step

\* A panel opens on a team that the session leads, or led when it last asked.
THEOREM OpensOnOwnTeam == PanelSpec => OpensOnItsOwnTeam
<1> DEFINE Step == at # "panel" /\ at' = "panel" /\ data'.mode = "attached" =>
                     leads'[data'.team] \/ cache = [team |-> data'.team, fresh |-> TRUE]
<1>1. PanelIInv /\ [PanelNext]_panelVars => [Step]_panelVars
  BY PanelStep DEF Own
<1> HIDE DEF Step
<1>2. PanelSpec => [][Step]_panelVars
  BY <1>1, PanelInvariance, PTL DEF PanelSpec
<1> QED BY <1>2 DEF OpensOnItsOwnTeam, Step
=============================================================================
