----------------------------- MODULE PublicClock -----------------------------
(***************************************************************************)
(* clock.PublicClock and ClockService.NowPublicAssured: the estimate plus  *)
(* the smear's bias, clamped by a compare-and-swap loop to the greatest    *)
(* value any caller was ever given.                                        *)
(*                                                                         *)
(* Any number of callers run it at once, each an atomic operation per      *)
(* step, while the estimate is re-anchored, the smear plan is replaced and *)
(* the raw counter moves or goes back.  ClockService shows that a snapshot *)
(* holds one round's estimate and that the interval propagated from it     *)
(* holds true time; here the snapshot is the current mapping and the       *)
(* interval any that holds true time at the reading, or none.              *)
(***************************************************************************)
EXTENDS EstimateClock, SmearPlan

CONSTANTS Readers,      \* goroutines that call NowPublicAssured
          Targets,      \* terminal biases a smear may be planned for
          Slack,        \* how far an interval exceeds true time, each side
          ReadBound,    \* the backend's read bound
          EpsilonCap,   \* PublicEpsilonCapDefault
          None

ASSUME PublicAssumption ==
    /\ Targets \subseteq Int /\ Slack \subseteq Nat
    /\ ReadBound \in Nat /\ EpsilonCap \in Nat
    /\ None \notin Int
    /\ {"call", "smear"} \subseteq Kinds

VARIABLES
    lastPublic,  \* PublicClock.lastPublic
    plan,        \* PublicClock.smearPlan
    made,        \* the application's: a plan it has not stored yet, or None,
    madeAt,      \* and the reading that plan was made for
    pc,          \* next atomic operation of each reader
    held,        \* local: the mapping of the snapshot acquired
    raw,         \* local: the raw reading
    asOf,        \* history: true time at the reading
    candidate,   \* local: the unclamped value, or None
    old,         \* local: the value of lastPublic that was loaded
    center,      \* local: the clamped value, or None
    result,      \* what the call reports about its center
    returned,    \* history: the greatest center any call has returned
    before       \* history: `returned' when the call began

shared == <<lastPublic, plan>>
planner == <<made, madeAt>>
locals == <<pc, held, raw, asOf, candidate, old, center, result>>
history == <<returned, before>>
vars == <<counter, truth, estVars, left, shared, planner, locals, history>>

Steps == {"idle", "read", "bias", "load", "swap", "bound", "return"}

(* A result: its interval and epsilon, or nothing.                         *)
Unbounded == [has |-> FALSE, earliest |-> 0, latest |-> 0, eps |-> 0]

Result == [has : BOOLEAN, earliest : Int, latest : Int, eps : Int]

TypeOK ==
    /\ counter \in Nat /\ truth \in Nat
    /\ est \in Mapping /\ ideal \in Int /\ roundings \in Nat
    /\ left \in [Kinds -> Nat]
    /\ lastPublic \in Int
    /\ plan \in Plan
    /\ made \in Plan \union {None} /\ madeAt \in Nat
    /\ pc \in [Readers -> Steps]
    /\ held \in [Readers -> Mapping]
    /\ raw \in [Readers -> Nat]
    /\ asOf \in [Readers -> Nat]
    /\ candidate \in [Readers -> Int \union {None}]
    /\ old \in [Readers -> Int]
    /\ center \in [Readers -> Int \union {None}]
    /\ result \in [Readers -> Result]
    /\ returned \in Int
    /\ before \in [Readers -> Int]

Init ==
    /\ EstimateInit
    /\ lastPublic = 0
    /\ plan = NoPlan
    /\ made = None /\ madeAt = 0
    /\ pc = [p \in Readers |-> "idle"]
    /\ held = [p \in Readers |-> Anchored(0, 0, 0)]
    /\ raw = [p \in Readers |-> 0]
    /\ asOf = [p \in Readers |-> 0]
    /\ candidate = [p \in Readers |-> None]
    /\ old = [p \in Readers |-> 0]
    /\ center = [p \in Readers |-> None]
    /\ result = [p \in Readers |-> Unbounded]
    /\ returned = 0
    /\ before = [p \in Readers |-> 0]

-----------------------------------------------------------------------------
(* NowPublicAssured                                                        *)

Goto(p, from, to) == pc[p] = from /\ pc' = [pc EXCEPT ![p] = to]

world == <<counter, truth, estVars>>

Acquire(p) ==
    /\ Goto(p, "idle", "read")
    /\ Spend("call")
    /\ held' = [held EXCEPT ![p] = est]
    /\ before' = [before EXCEPT ![p] = returned]
    /\ UNCHANGED <<world, shared, planner, raw, asOf, candidate, old, center, result,
                   returned>>

ReadRaw(p) ==
    /\ Goto(p, "read", "bias")
    /\ raw' = [raw EXCEPT ![p] = counter]
    /\ asOf' = [asOf EXCEPT ![p] = truth]
    /\ UNCHANGED <<world, left, shared, planner, held, candidate, old, center, result,
                   history>>

(* ReadPublicInstant, up to the loop.                                      *)
AddBias(p) ==
    /\ Goto(p, "bias", "load")
    /\ candidate' = [candidate EXCEPT ![p] =
                        Evaluate(held[p], raw[p]) + EvaluateBiasAt(plan, raw[p])]
    /\ UNCHANGED <<world, left, shared, planner, held, raw, asOf, old, center, result,
                   history>>

LoadLast(p) ==
    /\ Goto(p, "load", "swap")
    /\ old' = [old EXCEPT ![p] = lastPublic]
    /\ UNCHANGED <<world, left, shared, planner, held, raw, asOf, candidate, center,
                   result, history>>

Clamped(p) == IF old[p] > candidate[p] THEN old[p] ELSE candidate[p]

(* Mutants of Swap: a store where the code compares and swaps; a failed    *)
(* swap is not tried again.                                                *)
SwapAsStore(p) ==
    /\ Goto(p, "swap", "bound")
    /\ lastPublic' = Clamped(p)
    /\ center' = [center EXCEPT ![p] = Clamped(p)]
    /\ UNCHANGED <<world, left, plan, planner, held, raw, asOf, candidate, old, result,
                   history>>

SwapOnce(p) ==
    /\ Goto(p, "swap", "bound")
    /\ lastPublic' = IF lastPublic = old[p] THEN Clamped(p) ELSE lastPublic
    /\ center' = [center EXCEPT ![p] = Clamped(p)]
    /\ UNCHANGED <<world, left, plan, planner, held, raw, asOf, candidate, old, result,
                   history>>

(* CompareAndSwap: a call whose swap fails loads again.                    *)
Swap(p) ==
    /\ \/ /\ lastPublic = old[p]
          /\ Goto(p, "swap", "bound")
          /\ lastPublic' = Clamped(p)
          /\ center' = [center EXCEPT ![p] = Clamped(p)]
       \/ /\ lastPublic # old[p]
          /\ Goto(p, "swap", "load")
          /\ UNCHANGED <<lastPublic, center>>
    /\ UNCHANGED <<world, left, plan, planner, held, raw, asOf, candidate, old, result,
                   history>>

(* ComputePublicSymmetricEpsilon of the clamped center.  (Mutant: of the   *)
(* value before the clamp.)                                                *)
EpsilonUnclamped(p, lo, hi) ==
    LET d1 == Abs(candidate[p] - lo)
        d2 == Abs(hi - candidate[p])
    IN  (IF d1 > d2 THEN d1 ELSE d2) + ReadBound

Epsilon(p, lo, hi) ==
    LET d1 == Abs(center[p] - lo)
        d2 == Abs(hi - center[p])
    IN  (IF d1 > d2 THEN d1 ELSE d2) + ReadBound

(* The interval propagated to the reading, if the snapshot has one; a      *)
(* bound at the cap is as good as none.                                    *)
Bound(p) ==
    /\ Goto(p, "bound", "return")
    /\ \/ UNCHANGED result
       \/ \E below \in Slack, above \in Slack :
             LET lo == asOf[p] - below
                 hi == asOf[p] + above
                 eps == Epsilon(p, lo, hi)
             IN  result' = [result EXCEPT ![p] =
                    IF eps >= EpsilonCap THEN Unbounded
                    ELSE [has |-> TRUE, earliest |-> lo, latest |-> hi, eps |-> eps]]
    /\ UNCHANGED <<world, left, shared, planner, held, raw, asOf, candidate, old,
                   center, history>>

(* Clear the locals: their values are dead between calls.                  *)
Return(p) ==
    /\ Goto(p, "return", "idle")
    /\ returned' = IF center[p] > returned THEN center[p] ELSE returned
    /\ held' = [held EXCEPT ![p] = Anchored(0, 0, 0)]
    /\ raw' = [raw EXCEPT ![p] = 0]
    /\ asOf' = [asOf EXCEPT ![p] = 0]
    /\ candidate' = [candidate EXCEPT ![p] = None]
    /\ old' = [old EXCEPT ![p] = 0]
    /\ center' = [center EXCEPT ![p] = None]
    /\ result' = [result EXCEPT ![p] = Unbounded]
    /\ before' = [before EXCEPT ![p] = 0]
    /\ UNCHANGED <<world, left, shared, planner>>

NowPublicAssured(p) ==
    \/ Acquire(p) \/ ReadRaw(p) \/ AddBias(p) \/ LoadLast(p) \/ Swap(p)
    \/ Bound(p) \/ Return(p)

-----------------------------------------------------------------------------
(* A change of smear is two calls of the application without a lock around *)
(* them: it takes the bias and the rate that the plan in force has at some *)
(* reading (SmearSegment.Evaluate) and calls ReplanSmearFromState, and it  *)
(* stores the result later.  One goroutine changes the smear; it may drop  *)
(* a plan it has made and make another.  PlanSmear is the case of no bias  *)
(* and no rate.                                                            *)
ReplanSmear ==
    /\ Spend("smear")
    /\ \E target \in Targets :
          made' \in Replans(counter, DoubleBias(plan, counter),
                            Rate(plan, counter), target)
    /\ madeAt' = counter
    /\ UNCHANGED <<world, shared, locals, history>>

SetSmearPlan ==
    /\ made # None
    /\ plan' = made
    /\ made' = None
    /\ madeAt' = 0
    /\ UNCHANGED <<world, left, lastPublic, locals, history>>

EstimateStep == EstimateNext /\ UNCHANGED <<shared, planner, locals, history>>

Next ==
    \/ \E p \in Readers : NowPublicAssured(p)
    \/ ReplanSmear \/ SetSmearPlan
    \/ EstimateStep

Spec == Init /\ [][Next]_vars

-----------------------------------------------------------------------------
(* Properties                                                              *)

(* The public clock never runs backwards: a call's center is not below     *)
(* that of any call that returned before it began, whatever the estimate,  *)
(* the smear and the counter did and however the calls overlapped.         *)
PublicMonotone ==
    \A p \in Readers : center[p] # None => before[p] <= center[p]

(* The loop of load and compare-and-swap behaves as one atomic step per    *)
(* call: nobody is given a value that was not offered, and no two calls    *)
(* can be put in an order that their answers contradict.                   *)
Register == INSTANCE AtomicMaximum WITH
    Callers <- Readers, highest <- lastPublic, offered <- candidate,
    answer <- center

IsAtomicMaximum == Register!Spec

(* True time lies within the reported epsilon of the reported center,      *)
(* although the clamp moved the center after the estimate was made and may *)
(* have moved it out of the interval (NowPublicAssured).                   *)
EpsilonHoldsTruth ==
    \A p \in Readers : result[p].has =>
        /\ asOf[p] \in center[p] - result[p].eps .. center[p] + result[p].eps
        /\ result[p].eps < EpsilonCap

(* The bias is only as steady as the counter was while a plan was on its   *)
(* way.  Under one plan it moves no faster than the maximum rate, from     *)
(* tick to tick, across the ends of segments and over a rewind.  When a    *)
(* plan with segments replaces another, half way or not, both go on from   *)
(* the same bias at the reading the new one was made for, so that what     *)
(* they have drifted apart since is at most twice that rate; nothing at    *)
(* all if it is stored at once.  (For plans without segments see           *)
(* SmearReachesTarget.)                                                    *)
BiasMovesGently ==
    [][LET moved == Abs(DoubleBias(plan', counter') - DoubleBias(plan, counter))
       IN  IF plan' = plan
           THEN moved <= 2 * MaxRate * Abs(counter' - counter)
           ELSE plan'.segments # <<>> =>
                   moved <= 4 * MaxRate * Abs(counter - madeAt)]_<<plan, counter>>

(* Where a plan ends: what the public clock adds from then on.             *)
End(p) == LET last == p.segments[Len(p.segments)] IN last.start + last.dur

EndsOnTarget(p) ==
    /\ EvaluateBiasAt(p, End(p)) = p.terminal
    /\ DoubleBias(p, End(p)) = 2 * p.terminal
    /\ Rate(p, End(p)) = 0

(* A plan that has segments, in force or not stored yet, ends at rest and  *)
(* exactly on its target, whatever bias and rate it was made for; and      *)
(* ReplanSmearFromState leaves the segments out in one case only, that the *)
(* plan in force rests on the target already at the reading it is made     *)
(* for.                                                                    *)
PlansLeadToTarget ==
    /\ plan.segments # <<>> => EndsOnTarget(plan)
    /\ made # None =>
          IF made.segments # <<>>
          THEN EndsOnTarget(made)
          ELSE /\ DoubleBias(plan, madeAt) = 2 * made.terminal
               /\ Rate(plan, madeAt) = 0

(* "Terminal bias must reach target" (clock_test.go): where the plan in    *)
(* force has ended, the public clock is off the estimate by its terminal   *)
(* bias, for every plan that ReplanSmearFromState made.                    *)
SmearReachesTarget ==
    (plan.segments = <<>> \/ counter >= End(plan)) =>
        EvaluateBiasAt(plan, counter) = plan.terminal
=============================================================================
