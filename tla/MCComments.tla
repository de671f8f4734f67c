----------------------------- MODULE MCComments -----------------------------
(* Small instances of Comments for TLC. *)
EXTENDS Comments, TLC

CONSTANTS u1, u2

BothCases == {"lower", "upper"}

At(u, s) == [user |-> u, spelling |-> s]

(* A user mentioned twice, in one case. *)
OneBody == {<<At(u1, "lower"), At(u1, "lower")>>}

(* A user mentioned in either case. *)
OneBodyBothCases == {<<At(u1, "lower"), At(u1, "upper")>>}

(* Ids, tasks and requests are interchangeable. *)
Symmetry == Permutations(CommentIds) \cup Permutations(Tasks) \cup Permutations(Requests)

=============================================================================
