------------------------------ MODULE RawClock ------------------------------
(***************************************************************************)
(* The raw clock a backend offers, and what the service's continuity guard *)
(* does with one reading of it.  No state: the modules that keep a device  *)
(* or a guard in a variable apply these operators to it.                   *)
(*                                                                         *)
(* A reading is clock.RawReading without its read bound, which is a        *)
(* constant of each backend.  Counters are natural numbers: uint64 wrap    *)
(* around (584 years of nanoseconds) is not modelled.                      *)
(***************************************************************************)
EXTENDS Integers

Reading == [raw : Nat, token : Nat, gen : Nat]

NoReading == [raw |-> 0, token |-> 0, gen |-> 0]

(* What the environment may do to the device: SimulatedRawClock's setters. *)
Advanced(dev, d) == [dev EXCEPT !.raw = @ + d]

Rewound(dev, d) == [dev EXCEPT !.raw = IF d > @ THEN 0 ELSE @ - d]

Retokened(dev, t) == [raw |-> dev.raw, token |-> t, gen |-> dev.gen + 1]

(* isDiscontinuousReading: the current reading against the remembered one. *)
(* (Mutants: the generation is not compared; an equal counter counts.)     *)
IsDiscontinuousAnyGen(r, last) == r.raw < last.raw \/ r.token # last.token

IsDiscontinuousWhenEqual(r, last) ==
    r.raw <= last.raw \/ r.token # last.token \/ r.gen # last.gen

IsDiscontinuous(r, last) ==
    \/ r.raw < last.raw
    \/ r.token # last.token
    \/ r.gen # last.gen

(***************************************************************************)
(* A guard that nobody interrupts: its own continuity token, and the last  *)
(* reading it remembers.                                                   *)
(***************************************************************************)
Guard == [token : Nat, started : BOOLEAN, last : Reading]

NewGuard == [token |-> 1, started |-> FALSE, last |-> NoReading]

(* Where nothing is discontinuous, token and generation are the remembered *)
(* ones, and the counter is swapped in unless it is equal: the reading is  *)
(* remembered in every case.                                               *)
GuardAfter(g, r) ==
    [token   |-> IF g.started /\ IsDiscontinuous(r, g.last)
                 THEN g.token + 1 ELSE g.token,
     started |-> TRUE,
     last    |-> r]

(* The reading Read returns: the backend's, under the guard's token.       *)
GuardAnswer(g, r) == [raw |-> r.raw, token |-> GuardAfter(g, r).token, gen |-> r.gen]
=============================================================================
