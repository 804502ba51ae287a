---------------------------- MODULE MCPublicClock ----------------------------
(* Values for the constants of PublicClock that a .cfg cannot write.       *)
EXTENDS PublicClock, TLC

ReaderSymmetry == Permutations(Readers)

AllKinds == {"tick", "rewind", "anchor", "reanchor", "step", "call", "smear"}

Nothing == [k \in AllKinds |-> 0]

(* Calls that overlap each other and everything else; two changes of       *)
(* smear; a chain of changes to the estimate.                              *)
PublicBudgets == {
    [Nothing EXCEPT !["call"] = 3, !["tick"] = 1, !["anchor"] = 1],
    [Nothing EXCEPT !["call"] = 2, !["tick"] = 2, !["anchor"] = 1, !["rewind"] = 1],
    [Nothing EXCEPT !["call"] = 2, !["tick"] = 3, !["smear"] = 2],
    [Nothing EXCEPT !["tick"] = 9, !["smear"] = 3, !["rewind"] = 1],
    [Nothing EXCEPT !["tick"] = 5, !["reanchor"] = 3, !["anchor"] = 1, !["rewind"] = 1],
    [Nothing EXCEPT !["tick"] = 5, !["reanchor"] = 2, !["step"] = 1] }

(* Two changes of smear, the second made after the first has run out.      *)
SmearBudgets == {[Nothing EXCEPT !["tick"] = 4, !["smear"] = 2]}

Errors == {-1, 0, 2}
Rates == {-1, 0, 1}
Corrections == {-2, 1, 3}
Jumps == {-2, 2}
Biases == {-4, -1, 0, 1, 2, 4, 6, 9}
=============================================================================
