------------------------------ MODULE SmearPlan ------------------------------
(***************************************************************************)
(* clock.SmearPlan: the public clock's bias as a sequence of segments of   *)
(* constant wander (rate change per tick).                                 *)
(*                                                                         *)
(* The code computes in floating-point seconds.  Here time is in ticks and *)
(* bias in half units, which makes the parabolas exact at whole ticks; a   *)
(* plan exists only where its durations are whole, so that the root and    *)
(* the quotients of the code are exact.                                    *)
(***************************************************************************)
EXTENDS Integers, Sequences

CONSTANTS MaxRate,      \* maxRatePpm
          MaxWander,    \* maxWanderPpmSec
          Durations     \* bound: durations of a segment

ASSUME SmearAssumption ==
    /\ MaxRate \in Nat \ {0} /\ MaxWander \in Nat \ {0}
    /\ MaxRate % MaxWander = 0
    /\ Durations \subseteq Nat

(* Bias is doubled.                                                        *)
Segment == [start : Nat, dur : Nat, rate : Int, wander : Int, bias : Int]

Plan == [segments : Seq(Segment), terminal : Int]

NoPlan == [segments |-> <<>>, terminal |-> 0]

Abs(x) == IF x < 0 THEN -x ELSE x

Sign(x) == IF x < 0 THEN -1 ELSE 1

(* SmearSegment.Evaluate: t is clamped to the segment.                     *)
Within(seg, t) == IF t < 0 THEN 0 ELSE IF t > seg.dur THEN seg.dur ELSE t

RateIn(seg, t) == seg.rate + seg.wander * Within(seg, t)

BiasIn(seg, t) ==
    LET u == Within(seg, t)
    IN  seg.bias + 2 * seg.rate * u + seg.wander * u * u

(* The segment EvaluateBiasAt picks: the first that ends at r or later, or *)
(* the last.                                                               *)
Current(plan, r) ==
    LET n == Len(plan.segments)
        late == {i \in 1..n : r <= plan.segments[i].start + plan.segments[i].dur}
    IN  IF late = {} THEN n ELSE CHOOSE i \in late : \A j \in late : i <= j

DoubleBias(plan, r) ==
    IF plan.segments = <<>>
    THEN 0
    ELSE LET seg == plan.segments[Current(plan, r)] IN BiasIn(seg, r - seg.start)

Rate(plan, r) ==
    IF plan.segments = <<>>
    THEN 0
    ELSE LET seg == plan.segments[Current(plan, r)] IN RateIn(seg, r - seg.start)

(* math.Round: halves away from zero.                                      *)
EvaluateBiasAt(plan, r) ==
    LET b == DoubleBias(plan, r) IN Sign(b) * ((Abs(b) + 1) \div 2)

-----------------------------------------------------------------------------
(* ReplanSmearFromState                                                    *)

(* The next segment begins where this one ends, with its rate and bias.    *)
(* (Mutant: it begins with the bias this one began with.)                  *)
FollowedWithoutBias(segs, wander, dur) ==
    LET seg == segs[Len(segs)]
    IN  Append(segs, [start |-> seg.start + seg.dur, dur |-> dur,
                      rate |-> RateIn(seg, seg.dur), wander |-> wander,
                      bias |-> seg.bias])

Followed(segs, wander, dur) ==
    LET seg == segs[Len(segs)]
    IN  Append(segs, [start |-> seg.start + seg.dur, dur |-> dur,
                      rate |-> RateIn(seg, seg.dur), wander |-> wander,
                      bias |-> BiasIn(seg, seg.dur)])

(* From rest at a bias (doubled): half the way up, half the way down.      *)
Triangle(seg, dur, w) ==
    Followed(<<[seg EXCEPT !.dur = dur, !.wander = w]>>, -w, dur)

Trapezoid(seg, flat, w) ==
    LET ramp == MaxRate \div MaxWander
        up == <<[seg EXCEPT !.dur = ramp, !.wander = w]>>
    IN  Followed(Followed(up, 0, flat), -w, ramp)

RampArea == MaxRate * (MaxRate \div MaxWander)

(* The segments from rest to the target, for a distance D (doubled).       *)
(* (Mutant: a triangle however long the way.)                              *)
ToTargetTriangle(seg, D) ==
    IF D = 0
    THEN {<<>>}
    ELSE {Triangle(seg, t, Sign(D) * MaxWander) :
             t \in {t \in Durations : 2 * MaxWander * t * t = Abs(D)}}

ToTarget(seg, D) ==
    IF D = 0
    THEN {<<>>}
    ELSE IF Abs(D) <= 2 * RampArea
    THEN {Triangle(seg, t, Sign(D) * MaxWander) :
             t \in {t \in Durations : 2 * MaxWander * t * t = Abs(D)}}
    ELSE {Trapezoid(seg, t, Sign(D) * MaxWander) :
             t \in {t \in Durations : 2 * MaxRate * t = Abs(D) - 2 * RampArea}}

(* (Mutant: the time to brake from a negative rate is negative.)           *)
BrakingUnsigned(start, bias, rate) ==
    IF rate = 0
    THEN <<>>
    ELSE <<[start |-> start, dur |-> rate \div MaxWander, rate |-> rate,
            wander |-> -Sign(rate) * MaxWander, bias |-> bias]>>

Braking(start, bias, rate) ==
    IF rate = 0
    THEN <<>>
    ELSE <<[start |-> start, dur |-> Abs(rate) \div MaxWander, rate |-> rate,
            wander |-> -Sign(rate) * MaxWander, bias |-> bias]>>

(* At most one plan: none if a duration is not whole.                      *)
Replans(start, bias, rate, target) ==
    LET brake == Braking(start, bias, rate)
        rest == IF brake = <<>>
                THEN [start |-> start, dur |-> 0, rate |-> 0, wander |-> 0, bias |-> bias]
                ELSE LET b == brake[1]
                     IN [start |-> b.start + b.dur, dur |-> 0, rate |-> 0,
                         wander |-> 0, bias |-> BiasIn(b, b.dur)]
    IN  {[segments |-> brake \o way, terminal |-> target] :
            way \in ToTarget(rest, 2 * target - rest.bias)}
=============================================================================
