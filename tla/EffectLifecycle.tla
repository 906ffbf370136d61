--------------------------- MODULE EffectLifecycle ---------------------------
(***************************************************************************)
(* What the outbox promises about its effects, with no runs, claims, locks *)
(* or clocks in it: an effect that was requested takes place at least once *)
(* before it is recorded done, never before what it depends on is done,    *)
(* and it is given up after a fixed number of failed attempts.             *)
(***************************************************************************)
EXTENDS Naturals

CONSTANTS Effects, DependsOn, MaxAttempts

VARIABLES phase,     \* [Effects -> Phase]
          tried,     \* failed attempts of each effect
          tookPlace  \* the effects that took place

vars == <<phase, tried, tookPlace>>

Phase == {"absent", "pending", "done", "failed"}

Init ==
  /\ phase = [e \in Effects |-> "absent"]
  /\ tried = [e \in Effects |-> 0]
  /\ tookPlace = {}

Request(e) ==
  /\ phase[e] = "absent"
  /\ phase' = [phase EXCEPT ![e] = "pending"]
  /\ UNCHANGED <<tried, tookPlace>>

\* The handler's change; an attempt that outlived its claim may still make it
\* after the effect was settled.
TakePlace(e) ==
  /\ phase[e] # "absent"
  /\ \A d \in DependsOn[e] : phase[d] = "done"
  /\ tookPlace' = tookPlace \cup {e}
  /\ UNCHANGED <<phase, tried>>

Complete(e) ==
  /\ phase[e] = "pending"
  /\ e \in tookPlace
  /\ phase' = [phase EXCEPT ![e] = "done"]
  /\ UNCHANGED <<tried, tookPlace>>

FailAttempt(e) ==
  /\ phase[e] = "pending"
  /\ tried' = [tried EXCEPT ![e] = @ + 1]
  /\ phase' = [phase EXCEPT ![e] = IF tried[e] + 1 >= MaxAttempts THEN "failed" ELSE @]
  /\ UNCHANGED tookPlace

Next == \E e \in Effects : Request(e) \/ TakePlace(e) \/ Complete(e) \/ FailAttempt(e)

Spec == Init /\ [][Next]_vars
=============================================================================
