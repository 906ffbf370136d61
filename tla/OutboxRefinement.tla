-------------------------- MODULE OutboxRefinement --------------------------
\* The outbox implements the effect lifecycle: runs, claims and time are
\* hidden, a status is a phase, the number of applications is only whether
\* there was one.
EXTENDS Outbox

Lifecycle ==
  INSTANCE EffectLifecycle WITH
    phase     <- [e \in Effects |-> store[e].status],
    tried     <- [e \in Effects |-> store[e].attempts],
    tookPlace <- {e \in Effects : applied[e] > 0}

\* Every step of the outbox is a step of the effect lifecycle or changes
\* nothing it speaks of, whatever runs, lapsed claims and faults there are.
ImplementsLifecycle == Lifecycle!Spec
=============================================================================
