----------------------------- MODULE MCTaskBoard -----------------------------
\* Instances of TaskBoard: the workers are interchangeable.
EXTENDS TaskBoard, TLC

Symmetry == Permutations(Workers)
=============================================================================
