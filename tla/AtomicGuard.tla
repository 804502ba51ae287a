----------------------------- MODULE AtomicGuard -----------------------------
(***************************************************************************)
(* What a ContinuityGuard promises when its reads do not overlap: Read is  *)
(* one step, and the token it hands out changes exactly when the backend   *)
(* is seen to have gone back, or to have changed its token or generation.  *)
(*                                                                         *)
(* ContinuityGuard.tla, where Read is a sequence of atomic operations, is  *)
(* shown to implement this specification for one reader; ClockService.tla  *)
(* uses the same GuardAfter for the guard it reads through.                *)
(***************************************************************************)
EXTENDS RawClock

VARIABLES dev,      \* the backend's next reading
          guard,    \* the guard's state
          answers   \* every reading returned so far

Init ==
    /\ dev \in Reading
    /\ guard = NewGuard
    /\ answers = {}

Read ==
    /\ guard' = GuardAfter(guard, dev)
    /\ answers' = answers \union {GuardAnswer(guard, dev)}
    /\ UNCHANGED dev

Device ==
    /\ dev' \in Reading
    /\ UNCHANGED <<guard, answers>>

Next == Read \/ Device

Spec == Init /\ [][Next]_<<dev, guard, answers>>
=============================================================================
