---------------------------- MODULE ServiceLevel ----------------------------
(***************************************************************************)
(* Bugs and maintenance requests as far as service levels go: whether a    *)
(* row is open, and which of its two deadlines it has met.  The detailed   *)
(* account is Operations, which implements this one; SlaEscalation builds  *)
(* on it.                                                                  *)
(***************************************************************************)
CONSTANT Rows

VARIABLE row      \* [Rows -> Row or NotFiled]

(* responded: respondedAt is set; resolved: resolvedAt (completedAt) is.   *)
Row == [open : BOOLEAN, responded : BOOLEAN, resolved : BOOLEAN]
NotFiled == [open |-> FALSE]

New == [open |-> TRUE, responded |-> FALSE, resolved |-> FALSE]
RowsInit == row = [r \in Rows |-> NotFiled]

(* A row appears open (the next occurrence of a recurring request too) and *)
(* is never deleted; an answer is never taken back, while a resolution is, *)
(* when a bug is reopened.                                                 *)
MayBecome(r) ==
    IF row[r] = NotFiled THEN {NotFiled, New}
    ELSE {x \in Row : row[r].responded => x.responded}

RowsNext == \A r \in Rows : row'[r] \in MayBecome(r)

RowsSpec == RowsInit /\ [][RowsNext]_row
=============================================================================
