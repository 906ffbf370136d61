------------------------------ MODULE MCOutbox ------------------------------
\* An instance of Outbox: a mailbox append, the task message ref that depends
\* on it, and the runs of two processes.
EXTENDS OutboxRefinement, TLC

CONSTANTS mail, ref, r1, r2

MCRuns          == {r1, r2}
MCPair          == {mail, ref}
MCPairDependsOn == (mail :> {}) @@ (ref :> {mail})
=============================================================================
