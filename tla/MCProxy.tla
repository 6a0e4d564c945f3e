------------------------------ MODULE MCProxy ------------------------------
(* Small instances of Proxy for TLC. *)
EXTENDS Proxy, TLC

CONSTANTS t1, t2, r1

\* At boot the table holds the Edge UI service only.
FreshTable == [i \in Ids |-> IF i = EdgeID
                             THEN [port |-> 8000, target |-> t1, route |-> r1, enabled |-> TRUE]
                             ELSE Unborn]

\* PUT bodies: another target; a toggle; one that the repository refuses.
Retarget == [target |-> t2, route |-> Keep, enabled |-> Keep, valid |-> TRUE]
Toggle(b) == [target |-> t1, route |-> r1, enabled |-> b, valid |-> TRUE]
Refuse(req) == [req EXCEPT !.valid = FALSE]

RetargetOrToggle == {Retarget, Toggle(TRUE), Toggle(FALSE)}
ToggleOrRefused == {Toggle(TRUE), Toggle(FALSE), Refuse(Toggle(TRUE))}

AnyOp == AllOps
OneAtATime == AllOps \ {"setInterfaces"}
Overlapping == {"modify", "addInterface", "start", "stop"}

\* Workers are interchangeable, and so are addresses.
Symmetry == Permutations(Workers) \cup Permutations(Ips)
=============================================================================
