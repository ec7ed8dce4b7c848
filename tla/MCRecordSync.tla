---------------------------- MODULE MCRecordSync ----------------------------
(* Instances of RecordSync for TLC. *)
EXTENDS RecordSync, TLC

CONSTANTS a, b, m, e1, e2

\* Two coordinators with an edit each.
OneEach == a :> {e1} @@ b :> {e2}

\* One coordinator makes both edits, the other only renews.
TwoAndNone == a :> {e1, e2} @@ b :> {}

\* Only the first of them edits.
OnlyA == a :> {e1} @@ b :> {}

\* One coordinator, with one edit of the roster and the removal of a member.
EditAndRemoval == a :> {e1, m}

\* The same with a second edit to choose from.
EditsAndRemoval == a :> {e1, e2, m}
====
