--------------------------- MODULE MCMessageSend ----------------------------
\* An instance of MessageSend: a question of one worker to another about a task,
\* a message to nobody of the team, and one without `to' by a worker that does
\* not own the task, in a team of the leader and two workers.
EXTENDS MessageSend, TLC

CONSTANTS lead, w1, w2, stranger, t1, c1, r1

MCMembers == {lead, w1, w2}
MCTasks == {t1}
MCOwner == t1 :> w1
MCCaller == {c1}
MCMaintainers == {r1}

AskPeer     == [from |-> w1, to |-> w2, type |-> "question", task |-> t1]
ToStranger  == [from |-> w1, to |-> stranger, type |-> "inform", task |-> NoTask]
NotTheOwner == [from |-> w2, to |-> Nobody, type |-> "question", task |-> t1]

MCSends == {AskPeer, ToStranger, NotTheOwner}
=============================================================================
