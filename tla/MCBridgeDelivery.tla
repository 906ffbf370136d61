-------------------------- MODULE MCBridgeDelivery --------------------------
\* Instances of BridgeDelivery: two messages of one sender, or one of each of
\* two, to one worker.
EXTENDS BridgeDelivery, TLC

CONSTANTS m1, m2, s1, s2

MCMessages == {m1, m2}
MCOneMessage == {m1}
MCSender == {s1}
MCSenders == {s1, s2}
MCSymmetry == Permutations(MCMessages) \cup Permutations(MCSenders)
=============================================================================
