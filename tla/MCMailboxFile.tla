---------------------------- MODULE MCMailboxFile ----------------------------
\* An instance of MailboxFile.
EXTENDS MailboxFile, TLC

CONSTANTS p1, p2, p3, m1, m2

MCTwo     == {p1, p2}
MCThree   == {p1, p2, p3}
MCOneMsg  == {m1}
MCTwoMsgs == {m1, m2}
MCRead    == {"readAt"}
=============================================================================
