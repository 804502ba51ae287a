-------------------------- MODULE MCContinuityGuard --------------------------
(***************************************************************************)
(* Model checking ContinuityGuard: symmetry of the readers, and rewinds    *)
(* that leave calls alone.                                                 *)
(***************************************************************************)
EXTENDS ContinuityGuard, TLC

ReaderSymmetry == Permutations(Readers)

(* Rewinds that fall between calls: no read is in flight when the counter  *)
(* goes back, so whoever reads next reads after it.                        *)
QuietRewinds == dev'.raw < dev.raw => \A p \in Readers : pc[p] = "idle"

QuietSpec == Init /\ [][Next /\ QuietRewinds]_vars
=============================================================================
