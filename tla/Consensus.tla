------------------------------ MODULE Consensus ------------------------------
(***************************************************************************)
(* source/assurance.go: what the fault domains of one round agree on.      *)
(*                                                                         *)
(* A domain's interval is the intersection of what its sources say.  With  *)
(* N domains, of which at most F are wrong, true time lies where at least  *)
(* N - F of the intervals overlap; the round publishes the smallest        *)
(* interval around all such points, however many components they form.     *)
(*                                                                         *)
(* An operator takes the intervals of the domains as a function from the   *)
(* domains that vote.  The primary component and the control target, which *)
(* no caller reads, are left out.                                          *)
(***************************************************************************)
EXTENDS Integers, Sequences, FiniteSetsExt

(* ConsolidateDomainIntervals                                              *)
Consolidated(ivs) ==
    [earliest |-> Max({i.earliest : i \in ivs}),
     latest   |-> Min({i.latest : i \in ivs})]

Consistent(ivs) == ivs # {} /\ Consolidated(ivs).earliest <= Consolidated(ivs).latest

-----------------------------------------------------------------------------
(* ComputeCoverageComponents.                                              *)

(* N - F, and the same one too high and one too low (mutants).             *)
ThresholdHigh(I, F) == Cardinality(DOMAIN I) - F + 1

ThresholdLow(I, F) == Cardinality(DOMAIN I) - F - 1

Threshold(I, F) == Cardinality(DOMAIN I) - F

Lows(I, x) == Cardinality({d \in DOMAIN I : I[d].earliest = x})

Highs(I, x) == Cardinality({d \in DOMAIN I : I[d].latest = x})

EndPoints(I) == {I[d].earliest : d \in DOMAIN I} \union {I[d].latest : d \in DOMAIN I}

(* The open component, a sequence of at most one interval, reaches `to'.   *)
Extended(open, from, to) ==
    IF open = <<>>
    THEN <<[earliest |-> from, latest |-> to]>>
    ELSE <<[Head(open) EXCEPT !.latest = to]>>

(* (Mutant: an interval still counts after its end.)                       *)
SweepPointLateEnd(I, k, xs, s, n) ==
    LET at == s.depth + Lows(I, xs[n])
        after == at - Highs(I, xs[n])
        open == IF at >= k THEN Extended(s.open, xs[n], xs[n]) ELSE s.open
    IN  IF n < Len(xs) /\ at >= k
        THEN [depth |-> after, open |-> Extended(open, xs[n], xs[n + 1]),
              components |-> s.components]
        ELSE [depth |-> after, open |-> <<>>, components |-> s.components \o open]

(* The n-th end point, and the open span from it to the next one.          *)
SweepPoint(I, k, xs, s, n) ==
    LET at == s.depth + Lows(I, xs[n])
        after == at - Highs(I, xs[n])
        open == IF at >= k THEN Extended(s.open, xs[n], xs[n]) ELSE s.open
    IN  IF n < Len(xs) /\ after >= k
        THEN [depth |-> after, open |-> Extended(open, xs[n], xs[n + 1]),
              components |-> s.components]
        ELSE [depth |-> after, open |-> <<>>, components |-> s.components \o open]

(* The members of S in increasing order, each where its rank puts it.      *)
Sorted(S) ==
    [n \in 1..Cardinality(S) |-> CHOOSE x \in S : Cardinality({y \in S : y < x}) = n - 1]

Sweep(I, k) ==
    LET xs == Sorted(EndPoints(I))
        swept[n \in 0..Len(xs)] ==
            IF n = 0
            THEN [depth |-> 0, open |-> <<>>, components |-> <<>>]
            ELSE SweepPoint(I, k, xs, swept[n - 1], n)
    IN  swept[Len(xs)].components \o swept[Len(xs)].open

(* mergeTouchingComponents: one more component, and all of them.           *)
Merged(before, c) ==
    IF before # <<>> /\ c.earliest <= before[Len(before)].latest
    THEN [before EXCEPT ![Len(before)].latest = Max({@, c.latest})]
    ELSE Append(before, c)

MergeTouching(components) ==
    LET merged[n \in 0..Len(components)] ==
            IF n = 0 THEN <<>> ELSE Merged(merged[n - 1], components[n])
    IN  merged[Len(components)]

CoverageComponents(I, F) == MergeTouching(Sweep(I, Threshold(I, F)))

-----------------------------------------------------------------------------
(* ComputeAssuranceConsensus: ErrInsufficientDomains, ErrEmptyCoverageSet, *)
(* or a hull around every component.                                       *)
EnoughDomains(I, F, minVoting, minHonest) ==
    /\ Cardinality(DOMAIN I) >= Max({minVoting, 2 * F + 1})
    /\ Threshold(I, F) >= minHonest

Hull(components) ==
    [earliest |-> Head(components).earliest, latest |-> components[Len(components)].latest]

-----------------------------------------------------------------------------
(* What the sweep is for, said without a sweep: on an axis with the middle *)
(* of every unit, the points that at least k of the intervals cover.       *)
CoveredPoints(I, k) ==
    {x \in 2 * Min(EndPoints(I)) .. 2 * Max(EndPoints(I)) :
        Cardinality({d \in DOMAIN I : 2 * I[d].earliest <= x /\ x <= 2 * I[d].latest}) >= k}

(* Components are apart from one another, in order, and hold exactly the   *)
(* covered points.                                                         *)
IsCoverage(components, I, k) ==
    /\ UNION {2 * components[n].earliest .. 2 * components[n].latest :
                n \in 1..Len(components)} = CoveredPoints(I, k)
    /\ \A n \in 1..(Len(components) - 1) :
          components[n].latest < components[n + 1].earliest
=============================================================================
