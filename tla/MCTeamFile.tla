----------------------------- MODULE MCTeamFile -----------------------------
(* Two sessions; notes of each sort, two of them about the same message as *)
(* a pending effect.                                                       *)
EXTENDS TeamFile, TLC

CONSTANTS p1, p2, m1

MCProcesses == {p1, p2}
MCMessages == {m1}

MCNotes ==
  <<[id |-> "n1", kind |-> "plain", link |-> None],
    [id |-> "n2", kind |-> "report", link |-> None],
    [id |-> "n3", kind |-> "message", link |-> m1]>>

MCLegacy ==
  <<[id |-> "e1", kind |-> "note", link |-> m1],
    [id |-> "e2", kind |-> "triage", link |-> None]>>

Symmetry == Permutations(MCProcesses)

MCOperations == {"refresh", "create", "delete", "enqueue", "mail", "dismiss"}
=============================================================================
