---------------------------- MODULE AtomicMaximum ----------------------------
(***************************************************************************)
(* What the public clock promises: a register that only grows.  A call     *)
(* offers a candidate and gets, in one step, the greater of it and of      *)
(* everything offered before (ReadPublicInstant's "linearized monotonic    *)
(* clamping").                                                             *)
(***************************************************************************)
EXTENDS Integers

CONSTANTS Callers, None

VARIABLES highest,   \* the register
          offered,   \* each caller's candidate, or None
          answer     \* each caller's answer, or None

avars == <<highest, offered, answer>>

Greater(x, y) == IF x > y THEN x ELSE y

Init ==
    /\ highest = 0
    /\ offered = [p \in Callers |-> None]
    /\ answer = [p \in Callers |-> None]

Offer(p) ==
    /\ offered[p] = None
    /\ offered'[p] \in Int
    /\ offered' = [offered EXCEPT ![p] = offered'[p]]
    /\ UNCHANGED <<highest, answer>>

Take(p) ==
    /\ offered[p] # None /\ answer[p] = None
    /\ highest' = Greater(highest, offered[p])
    /\ answer' = [answer EXCEPT ![p] = highest']
    /\ UNCHANGED offered

Return(p) ==
    /\ answer[p] # None
    /\ offered' = [offered EXCEPT ![p] = None]
    /\ answer' = [answer EXCEPT ![p] = None]
    /\ UNCHANGED highest

Next == \E p \in Callers : Offer(p) \/ Take(p) \/ Return(p)

Spec == Init /\ [][Next]_avars
=============================================================================
