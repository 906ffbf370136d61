--------------------------- MODULE MCLeaderSignals ---------------------------
\* An instance of LeaderSignals: two processes of the leader's session.
EXTENDS LeaderSignals, TLC

CONSTANTS p1, p2

MCProcesses == {p1, p2}
MCAllWant   == Messages
=============================================================================
