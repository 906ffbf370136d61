---------------------------- MODULE AtomicMailbox ----------------------------
(***************************************************************************)
(* What a mailbox promises: it grows by one message at a time, and marks   *)
(* are put on messages it has; nothing goes away and no mark is taken off. *)
(***************************************************************************)
CONSTANTS Messages, Fields  \* the marks: deliveredAt and readAt

VARIABLE box  \* the messages it has, and which of them have which mark

Boxes == [have: SUBSET Messages, marked: [Fields -> SUBSET Messages]]

EmptyBox == [have |-> {}, marked |-> [f \in Fields |-> {}]]

Init == box = EmptyBox

\* A message is appended; one that is there already stays as it is.
Pushed(b, m) == [b EXCEPT !.have = @ \cup {m}]

\* Those of ids that are there are marked.
Marked(b, f, ids) == [b EXCEPT !.marked[f] = @ \cup (ids \cap b.have)]

Push(m)      == m \notin box.have /\ box' = Pushed(box, m)
Mark(f, ids) == box' = Marked(box, f, ids)

Next ==
  \/ \E m \in Messages : Push(m)
  \/ \E f \in Fields, ids \in SUBSET Messages : Mark(f, ids)

Spec == Init /\ [][Next]_box
=============================================================================
