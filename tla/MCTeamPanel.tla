---------------------------- MODULE MCTeamPanel -----------------------------
\* An instance of TeamPanel: two teams, two names of teammates.
EXTENDS TeamPanel, TLC

CONSTANTS t1, t2, m1, m2

MCTeams == {t1, t2}
MCMembers == <<m1, m2>>
MCSymmetry == Permutations(Teams)
=============================================================================
