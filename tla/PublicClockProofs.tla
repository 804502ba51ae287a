-------------------------- MODULE PublicClockProofs --------------------------
(***************************************************************************)
(* Theorems about EstimateClock and PublicClock, for any number of         *)
(* readers, any rates, corrections and smear plans.                        *)
(***************************************************************************)
EXTENDS PublicClock, WellFoundedInduction, TLAPS

-----------------------------------------------------------------------------
(* Sorts of the operators.                                                 *)

(* A nonempty set of positions has a first.                                *)
LEMMA FirstPosition ==
  ASSUME NEW S, S \subseteq Nat, S # {}
  PROVE  \E i \in S : \A j \in S : i <= j
<1>1. PICK i \in S : \A j \in S : ~(<<j, i>> \in OpToRel(<, Nat))
  BY WFMin, NatLessThanWellFounded, Zenon
<1>2. \A j \in S : ~(j < i)
  BY <1>1 DEF OpToRel
<1> QED
  BY <1>2

LEMMA CurrentIsPosition ==
  ASSUME NEW p \in Plan, NEW r \in Int, p.segments # <<>>
  PROVE  /\ Current(p, r) \in 1..Len(p.segments)
         /\ p.segments[Current(p, r)] \in Segment
<1> DEFINE n == Len(p.segments)
           late == {i \in 1..n : r <= p.segments[i].start + p.segments[i].dur}
<1>1. p.segments \in Seq(Segment) /\ n \in Nat /\ n > 0
  BY DEF Plan
<1>2. CASE late = {}
  BY <1>1, <1>2 DEF Current
<1>3. CASE late # {}
  <2>1. \E i \in late : \A j \in late : i <= j
    <3>1. late \subseteq Nat
      OBVIOUS
    <3> QED
      BY <3>1, <1>3, FirstPosition, Zenon
  <2>2. Current(p, r) \in late
    BY <1>3, <2>1 DEF Current
  <2> QED
    BY <2>2, <1>1
<1> QED
  BY <1>2, <1>3

LEMMA TruncatedInt ==
  ASSUME NEW a \in Int, NEW b \in Nat \ {0}
  PROVE  Truncated(a, b) \in Int
  BY DEF Truncated

LEMMA ClampInt ==
  ASSUME NEW x \in Int, NEW lo \in Int, NEW hi \in Int
  PROVE  Clamp(x, lo, hi) \in Int
  BY DEF Clamp

LEMMA SlewRateInt ==
  ASSUME NEW d \in Int
  PROVE  planSlewRate(d) \in Int
<1>1. d * One \in Int
  BY EstimateAssumption
<1>2. Truncated(d * One, SlewSpan) \in Int
  BY <1>1, TruncatedInt, EstimateAssumption
<1> QED
  BY <1>2, ClampInt, EstimateAssumption DEF planSlewRate

LEMMA SlewInt ==
  ASSUME NEW m \in Mapping, NEW r \in Nat
  PROVE  SlewApplied(m, r) \in Int
<1>1. m.debt \in Int /\ m.slewRate \in Int /\ m.slewStart \in Nat
  BY DEF Mapping
<1>2. (m.slewRate * (r - m.slewStart)) \div One \in Int
  BY <1>1, EstimateAssumption
<1> DEFINE requested == (m.slewRate * (r - m.slewStart)) \div One
<1>2a. requested \in Int
  BY <1>2
<1> HIDE DEF requested
<1>3. /\ Clamp(requested, 0, m.debt) \in Int
      /\ Clamp(requested, m.debt, 0) \in Int
  BY <1>1, <1>2a DEF Clamp
<1> QED
  BY <1>3 DEF SlewApplied, requested

LEMMA AdvanceInt ==
  ASSUME NEW m \in Mapping, NEW d \in Int
  PROVE  BaseAdvance(m, d) \in Int
  BY EstimateAssumption DEF BaseAdvance, Mapping

LEMMA EvaluateInt ==
  ASSUME NEW m \in Mapping, NEW r \in Nat
  PROVE  Evaluate(m, r) \in Int
<1>1. m.timeAnchor \in Int /\ r - m.rawAnchor \in Int
  BY DEF Mapping
<1> QED
  BY <1>1, SlewInt, AdvanceInt DEF Evaluate

LEMMA AnchoredMapping ==
  ASSUME NEW r \in Nat, NEW t \in Int, NEW b \in Int
  PROVE  Anchored(r, t, b) \in Mapping
  BY DEF Anchored, Mapping

LEMMA OwingMapping ==
  ASSUME NEW m \in Mapping, NEW d \in Int
  PROVE  Owing(m, d) \in Mapping
<1>1. planSlewRate(d) \in Int
  BY SlewRateInt
<1> QED
  BY <1>1 DEF Owing, Mapping

LEMMA ReanchoredMapping ==
  ASSUME NEW m \in Mapping, NEW r \in Nat, NEW b \in Int, NEW added \in Int
  PROVE  Reanchored(m, r, b, added) \in Mapping
<1>1. m.debt - SlewApplied(m, r) + added \in Int
  BY SlewInt DEF Mapping
<1>2. Anchored(r, Evaluate(m, r), b) \in Mapping
  BY EvaluateInt, AnchoredMapping
<1> QED
  BY <1>1, <1>2, OwingMapping DEF Reanchored

LEMMA SteppedMapping ==
  ASSUME NEW m \in Mapping, NEW r \in Nat, NEW s \in Int
  PROVE  Stepped(m, r, s) \in Mapping
<1>1. Evaluate(m, r) + s \in Int /\ m.baseRate \in Int
  BY EvaluateInt DEF Mapping
<1> QED
  BY <1>1, AnchoredMapping DEF Stepped

-----------------------------------------------------------------------------
(* Smear plans.                                                            *)

LEMMA BiasInt ==
  ASSUME NEW seg \in Segment, NEW t \in Int
  PROVE  BiasIn(seg, t) \in Int /\ RateIn(seg, t) \in Int
<1>1. Within(seg, t) \in Int
  BY DEF Within, Segment
<1> QED
  BY <1>1 DEF BiasIn, RateIn, Segment

LEMMA PlanBiasInt ==
  ASSUME NEW p \in Plan, NEW r \in Nat
  PROVE  /\ DoubleBias(p, r) \in Int
         /\ Rate(p, r) \in Int
         /\ EvaluateBiasAt(p, r) \in Int
<1>1. DoubleBias(p, r) \in Int /\ Rate(p, r) \in Int
  <2>1. CASE p.segments = <<>>
    BY <2>1 DEF DoubleBias, Rate
  <2>2. CASE p.segments # <<>>
    <3> DEFINE seg == p.segments[Current(p, r)]
    <3>1. seg \in Segment
      BY <2>2, CurrentIsPosition
    <3>2. r - seg.start \in Int
      BY <3>1 DEF Segment
    <3>3. BiasIn(seg, r - seg.start) \in Int /\ RateIn(seg, r - seg.start) \in Int
      BY <3>1, <3>2, BiasInt
    <3> QED
      BY <2>2, <3>3 DEF DoubleBias, Rate
  <2> QED
    BY <2>1, <2>2
<1> QED
  BY <1>1 DEF EvaluateBiasAt, Sign, Abs

(* A segment set in motion, and what follows it.                           *)
LEMMA FollowedSegments ==
  ASSUME NEW segs \in Seq(Segment), segs # <<>>, NEW w \in Int, NEW d \in Nat
  PROVE  Followed(segs, w, d) \in Seq(Segment) /\ Followed(segs, w, d) # <<>>
<1> DEFINE seg == segs[Len(segs)]
           next == [start |-> seg.start + seg.dur, dur |-> d,
                    rate |-> RateIn(seg, seg.dur), wander |-> w,
                    bias |-> BiasIn(seg, seg.dur)]
<1>1. seg \in Segment
  <2>1. Len(segs) \in 1..Len(segs)
    OBVIOUS
  <2> QED BY <2>1
<1>2. seg.dur \in Nat /\ seg.start + seg.dur \in Nat
  <2> HIDE DEF seg, next
  <2>1. seg.start \in Nat /\ seg.dur \in Nat
    BY <1>1 DEF Segment
  <2> QED BY <2>1
<1>3. RateIn(seg, seg.dur) \in Int /\ BiasIn(seg, seg.dur) \in Int
  <2>1. seg.dur \in Int
    BY <1>2
  <2> HIDE DEF seg
  <2> QED
    BY <1>1, <2>1, BiasInt
<1>4. next \in Segment
  BY <1>2, <1>3 DEF Segment
<1>5. Followed(segs, w, d) = Append(segs, next)
  BY DEF Followed
<1> HIDE DEF next
<1>6. Append(segs, next) \in Seq(Segment) /\ Append(segs, next) # <<>>
  BY <1>4
<1> QED
  BY <1>5, <1>6

LEMMA SetInMotion ==
  ASSUME NEW seg \in Segment, NEW d \in Nat, NEW w \in Int
  PROVE  /\ <<[seg EXCEPT !.dur = d, !.wander = w]>> \in Seq(Segment)
         /\ <<[seg EXCEPT !.dur = d, !.wander = w]>> # <<>>
<1>1. [seg EXCEPT !.dur = d, !.wander = w] \in Segment
  BY DEF Segment
<1> QED
  BY <1>1

LEMMA WanderInt == \A D \in Int : Sign(D) * MaxWander \in Int
  BY SmearAssumption DEF Sign

LEMMA TriangleSegments ==
  ASSUME NEW seg \in Segment, NEW d \in Nat, NEW w \in Int
  PROVE  Triangle(seg, d, w) \in Seq(Segment)
<1>1. -w \in Int
  OBVIOUS
<1> QED
  BY <1>1, SetInMotion, FollowedSegments DEF Triangle

LEMMA TrapezoidSegments ==
  ASSUME NEW seg \in Segment, NEW d \in Nat, NEW w \in Int
  PROVE  Trapezoid(seg, d, w) \in Seq(Segment)
<1> DEFINE ramp == MaxRate \div MaxWander
           up == <<[seg EXCEPT !.dur = ramp, !.wander = w]>>
<1>1. ramp \in Nat
  BY SmearAssumption
<1>2. up \in Seq(Segment) /\ up # <<>>
  BY <1>1, SetInMotion
<1> HIDE DEF ramp, up
<1>3. Followed(up, 0, d) \in Seq(Segment) /\ Followed(up, 0, d) # <<>>
  BY <1>2, FollowedSegments
<1>4. -w \in Int
  OBVIOUS
<1>5. Followed(Followed(up, 0, d), -w, ramp) \in Seq(Segment)
  BY <1>1, <1>3, <1>4, FollowedSegments
<1> QED
  BY <1>5 DEF Trapezoid, ramp, up

LEMMA ToTargetSegments ==
  ASSUME NEW seg \in Segment, NEW D \in Int
  PROVE  ToTarget(seg, D) \subseteq Seq(Segment)
<1>1. Sign(D) * MaxWander \in Int
  BY WanderInt
<1>2. \A t \in Durations : t \in Nat
  BY SmearAssumption
<1>3. \A t \in Durations : /\ Triangle(seg, t, Sign(D) * MaxWander) \in Seq(Segment)
                           /\ Trapezoid(seg, t, Sign(D) * MaxWander) \in Seq(Segment)
  BY <1>1, <1>2, TriangleSegments, TrapezoidSegments
<1>4. <<>> \in Seq(Segment)
  OBVIOUS
<1> QED
  BY <1>3, <1>4 DEF ToTarget

LEMMA BrakingSegments ==
  ASSUME NEW start \in Nat, NEW bias \in Int, NEW rate \in Int
  PROVE  /\ Braking(start, bias, rate) \in Seq(Segment)
         /\ rate # 0 => Braking(start, bias, rate)[1] \in Segment
         /\ Braking(start, bias, rate) = <<>> <=> rate = 0
<1> DEFINE seg == [start |-> start, dur |-> Abs(rate) \div MaxWander, rate |-> rate,
                   wander |-> -Sign(rate) * MaxWander, bias |-> bias]
<1>1. Abs(rate) \div MaxWander \in Nat /\ -Sign(rate) * MaxWander \in Int
  BY SmearAssumption DEF Abs, Sign
<1>2. seg \in Segment
  BY <1>1 DEF Segment
<1>3. Braking(start, bias, rate) = IF rate = 0 THEN <<>> ELSE <<seg>>
  BY DEF Braking
<1> HIDE DEF seg
<1> QED
  BY <1>2, <1>3

LEMMA ReplansArePlans ==
  ASSUME NEW start \in Nat, NEW bias \in Int, NEW rate \in Int, NEW target \in Int
  PROVE  Replans(start, bias, rate, target) \subseteq Plan
<1> DEFINE brake == Braking(start, bias, rate)
           rest == IF brake = <<>>
                   THEN [start |-> start, dur |-> 0, rate |-> 0, wander |-> 0, bias |-> bias]
                   ELSE LET b == brake[1]
                        IN [start |-> b.start + b.dur, dur |-> 0, rate |-> 0,
                            wander |-> 0, bias |-> BiasIn(b, b.dur)]
<1>1. brake \in Seq(Segment) /\ (brake # <<>> => brake[1] \in Segment)
  BY BrakingSegments
<1>2. rest \in Segment
  <2>1. CASE brake = <<>>
    BY <2>1 DEF Segment
  <2>2. CASE brake # <<>>
    <3>1. brake[1] \in Segment
      BY <1>1, <2>2
    <3>2. brake[1].dur \in Nat /\ brake[1].start + brake[1].dur \in Nat
      BY <3>1 DEF Segment
    <3>3. BiasIn(brake[1], brake[1].dur) \in Int
      BY <3>1, <3>2, BiasInt
    <3>4. rest = [start |-> brake[1].start + brake[1].dur, dur |-> 0, rate |-> 0,
                  wander |-> 0, bias |-> BiasIn(brake[1], brake[1].dur)]
      BY <2>2
    <3> QED
      BY <3>2, <3>3, <3>4 DEF Segment
  <2> QED
    BY <2>1, <2>2
<1>3. Replans(start, bias, rate, target)
        = {[segments |-> brake \o way, terminal |-> target] :
              way \in ToTarget(rest, 2 * target - rest.bias)}
  BY DEF Replans
<1> HIDE DEF brake, rest
<1>4. 2 * target - rest.bias \in Int
  BY <1>2 DEF Segment
<1>5. ToTarget(rest, 2 * target - rest.bias) \subseteq Seq(Segment)
  BY <1>2, <1>4, ToTargetSegments
<1>6. \A way \in Seq(Segment) : brake \o way \in Seq(Segment)
  BY <1>1
<1>7. \A way \in Seq(Segment) : [segments |-> brake \o way, terminal |-> target] \in Plan
  BY <1>6 DEF Plan
<1> QED
  BY <1>3, <1>5, <1>7

-----------------------------------------------------------------------------
(* The state's type.                                                       *)

ClockTyped ==
    /\ counter \in Nat /\ truth \in Nat
    /\ est \in Mapping /\ ideal \in Int /\ roundings \in Nat
    /\ left \in [Kinds -> Nat]

LEMMA SpendTyped ==
  ASSUME NEW k, left \in [Kinds -> Nat], Spend(k), k \in Kinds
  PROVE  left' \in [Kinds -> Nat]
  BY DEF Spend

LEMMA EstimateTyped ==
  ASSUME ClockTyped, EstimateNext
  PROVE  ClockTyped'
<1> USE DEF ClockTyped
<1> SUFFICES ClockTyped'
  OBVIOUS
<1>0. /\ "tick" \in Kinds /\ "rewind" \in Kinds /\ "anchor" \in Kinds
      /\ "reanchor" \in Kinds /\ "step" \in Kinds
  BY EstimateAssumption
<1>1. CASE InitializeAnchors
  <2>1. left' \in [Kinds -> Nat]
    BY <1>0, <1>1, SpendTyped DEF InitializeAnchors
  <2>2. PICK lag \in Lags, e \in EstimateErrors, rate \in BaseRates :
           /\ lag <= counter
           /\ est' = Anchored(counter - lag, truth - lag + e, rate)
           /\ ideal' = One * (truth - lag + e) + (One + rate) * lag
    BY <1>1 DEF InitializeAnchors
  <2>3. lag \in Nat /\ e \in Int /\ rate \in Int /\ One \in Int
    BY EstimateAssumption
  <2>4. counter - lag \in Nat /\ truth - lag + e \in Int
    BY <2>2, <2>3
  <2>5. est' \in Mapping
    BY <2>2, <2>3, <2>4, AnchoredMapping
  <2>6. ideal' \in Int
    BY <2>2, <2>3, <2>4
  <2> QED
    BY <1>1, <2>1, <2>5, <2>6 DEF InitializeAnchors
<1>2. CASE ReanchorContinuity
  <2>1. left' \in [Kinds -> Nat]
    BY <1>0, <1>2, SpendTyped DEF ReanchorContinuity
  <2>2. PICK rate \in BaseRates, added \in Debts :
           /\ est' = Reanchored(est, counter, rate, added)
           /\ ideal' = ideal + One * added
    BY <1>2 DEF ReanchorContinuity
  <2>3. rate \in Int /\ added \in Int /\ One \in Int
    BY EstimateAssumption
  <2>4. est' \in Mapping
    BY <2>2, <2>3, ReanchoredMapping
  <2> QED
    BY <1>2, <2>1, <2>2, <2>3, <2>4 DEF ReanchorContinuity
<1>3. CASE Step
  <2>1. left' \in [Kinds -> Nat]
    BY <1>0, <1>3, SpendTyped DEF Step
  <2>2. PICK s \in StepSizes : /\ est' = Stepped(est, counter, s)
                               /\ ideal' = One * (Evaluate(est, counter) + s)
    BY <1>3 DEF Step
  <2>3. s \in Int /\ One \in Int /\ Evaluate(est, counter) \in Int
    BY EstimateAssumption, EvaluateInt
  <2>4. est' \in Mapping
    BY <2>2, <2>3, SteppedMapping
  <2> QED
    BY <1>3, <2>1, <2>2, <2>3, <2>4 DEF Step
<1>4. CASE Tick
  <2>1. left' \in [Kinds -> Nat]
    BY <1>0, <1>4, SpendTyped DEF Tick
  <2>2. est.baseRate \in Int
    BY DEF Mapping
  <2> QED
    BY <1>4, <2>1, <2>2, EstimateAssumption DEF Tick
<1>5. CASE Rewind
  <2>1. left' \in [Kinds -> Nat]
    BY <1>0, <1>5, SpendTyped DEF Rewind
  <2>2. est.baseRate \in Int /\ One \in Int
    BY EstimateAssumption DEF Mapping
  <2>3. PICK d \in 1..counter : /\ counter' = counter - d
                                /\ ideal' = ideal - d * (One + est.baseRate)
    BY <1>5 DEF Rewind
  <2>4. counter' \in Nat /\ ideal' \in Int
    BY <2>2, <2>3
  <2> QED
    BY <1>5, <2>1, <2>4 DEF Rewind
<1> QED
  BY <1>1, <1>2, <1>3, <1>4, <1>5 DEF EstimateNext

-----------------------------------------------------------------------------
(* The invariant of the readers: what each step finds in the locals, and   *)
(* that everything returned is below lastPublic, which only grows.         *)

WithCandidate == {"load", "swap", "bound", "return"}

WithCenter == {"bound", "return"}

ReaderInv(p) ==
    /\ candidate[p] # None <=> pc[p] \in WithCandidate
    /\ center[p] # None <=> pc[p] \in WithCenter
    /\ before[p] <= returned
    /\ center[p] # None => /\ before[p] <= center[p]
                           /\ center[p] <= lastPublic
    /\ result[p].has =>
          /\ pc[p] = "return"
          /\ asOf[p] \in center[p] - result[p].eps .. center[p] + result[p].eps
          /\ result[p].eps < EpsilonCap

IInv ==
    /\ TypeOK
    /\ 0 <= returned /\ returned <= lastPublic
    /\ \A p \in Readers : ReaderInv(p)

LEMMA IInvInit == Init => IInv
<1> SUFFICES ASSUME Init PROVE IInv
  OBVIOUS
<1>1. Anchored(0, 0, 0) \in Mapping
  BY AnchoredMapping
<1>2. left \in [Kinds -> Nat]
  BY EstimateAssumption DEF Init, EstimateInit
<1>3. plan \in Plan
  BY DEF Init, Plan, NoPlan
<1>4. TypeOK
  BY <1>1, <1>2, <1>3 DEF Init, EstimateInit, TypeOK, Steps, Unbounded, Result
<1>5. \A p \in Readers : ReaderInv(p)
  BY DEF Init, ReaderInv, WithCandidate, WithCenter, Unbounded
<1> QED
  BY <1>4, <1>5 DEF IInv, Init

(* A step of reader p leaves the other readers' locals alone.              *)
LEMMA AcquireInv ==
  ASSUME IInv, NEW p \in Readers, Acquire(p)
  PROVE  IInv'
<1> USE DEF IInv, planner
<1>0. "call" \in Kinds
  BY PublicAssumption
<1>1. left' \in [Kinds -> Nat]
  BY <1>0, SpendTyped DEF Acquire, TypeOK
<1>2. TypeOK'
  BY <1>1 DEF Acquire, Goto, world, estVars, shared, TypeOK, Steps
<1>3. ASSUME NEW q \in Readers PROVE ReaderInv(q)'
  BY DEF Acquire, Goto, world, estVars, shared, ReaderInv, TypeOK, WithCandidate, WithCenter
<1> QED
  BY <1>2, <1>3 DEF Acquire, shared

LEMMA ReadRawInv ==
  ASSUME IInv, NEW p \in Readers, ReadRaw(p)
  PROVE  IInv'
<1> USE DEF IInv, planner
<1>2. TypeOK'
  BY DEF ReadRaw, Goto, world, estVars, shared, history, TypeOK, Steps
<1>3. ASSUME NEW q \in Readers PROVE ReaderInv(q)'
  BY DEF ReadRaw, Goto, shared, history, ReaderInv, TypeOK, WithCandidate, WithCenter
<1> QED
  BY <1>2, <1>3 DEF ReadRaw, shared, history

LEMMA AddBiasInv ==
  ASSUME IInv, NEW p \in Readers, AddBias(p)
  PROVE  IInv' /\ candidate[p] = None /\ candidate'[p] \in Int
<1> USE DEF IInv, planner
<1> DEFINE offer == Evaluate(held[p], raw[p]) + EvaluateBiasAt(plan, raw[p])
<1>1. offer \in Int
  BY EvaluateInt, PlanBiasInt DEF TypeOK
<1>2. candidate' = [candidate EXCEPT ![p] = offer] /\ Goto(p, "bias", "load")
  BY DEF AddBias
<1>3. UNCHANGED <<world, left, shared, planner, held, raw, asOf, old, center, result, history>>
  BY DEF AddBias
<1> HIDE DEF offer
<1>4. candidate[p] = None /\ candidate'[p] \in Int
  BY <1>1, <1>2 DEF Goto, TypeOK, ReaderInv, WithCandidate
<1>5. TypeOK'
  BY <1>1, <1>2, <1>3 DEF Goto, world, estVars, shared, history, TypeOK, Steps
<1>6. ASSUME NEW q \in Readers PROVE ReaderInv(q)'
  BY <1>1, <1>2, <1>3, PublicAssumption
     DEF Goto, shared, history, ReaderInv, TypeOK, WithCandidate, WithCenter
<1> QED
  BY <1>3, <1>4, <1>5, <1>6 DEF shared, history

LEMMA LoadLastInv ==
  ASSUME IInv, NEW p \in Readers, LoadLast(p)
  PROVE  IInv'
<1> USE DEF IInv, planner
<1>2. TypeOK'
  BY DEF LoadLast, Goto, world, estVars, shared, history, TypeOK, Steps
<1>3. ASSUME NEW q \in Readers PROVE ReaderInv(q)'
  BY DEF LoadLast, Goto, shared, history, ReaderInv, TypeOK, WithCandidate, WithCenter
<1> QED
  BY <1>2, <1>3 DEF LoadLast, shared, history

(* A swap that succeeds finds lastPublic as it was loaded: the new center  *)
(* is the greater of it and of the candidate.                              *)
LEMMA SwapInv ==
  ASSUME IInv, NEW p \in Readers, Swap(p)
  PROVE  /\ IInv'
         /\ \/ /\ candidate[p] # None /\ center[p] = None
               /\ lastPublic' = IF lastPublic > candidate[p] THEN lastPublic ELSE candidate[p]
               /\ center' = [center EXCEPT ![p] = lastPublic']
            \/ UNCHANGED <<lastPublic, center>>
<1> USE DEF IInv, planner
<1>1. UNCHANGED <<world, left, plan, planner, held, raw, asOf, candidate, old, result,
                  history>>
  BY DEF Swap
<1>2. CASE lastPublic # old[p]
  <2>1. Goto(p, "swap", "load") /\ UNCHANGED <<lastPublic, center>>
    BY <1>2 DEF Swap
  <2>2. TypeOK'
    BY <1>1, <2>1 DEF Goto, world, estVars, history, TypeOK, Steps
  <2>3. ASSUME NEW q \in Readers PROVE ReaderInv(q)'
    BY <1>1, <2>1 DEF Goto, history, ReaderInv, TypeOK, WithCandidate, WithCenter
  <2> QED
    BY <1>1, <2>1, <2>2, <2>3 DEF history
<1>3. CASE lastPublic = old[p]
  <2>1. /\ Goto(p, "swap", "bound")
        /\ lastPublic' = Clamped(p)
        /\ center' = [center EXCEPT ![p] = Clamped(p)]
    BY <1>3 DEF Swap
  <2>2. candidate[p] \in Int /\ candidate[p] # None /\ center[p] = None
    BY <2>1 DEF Goto, TypeOK, ReaderInv, WithCandidate, WithCenter
  <2>3. /\ Clamped(p) \in Int /\ lastPublic <= Clamped(p)
        /\ Clamped(p) = IF lastPublic > candidate[p] THEN lastPublic ELSE candidate[p]
    BY <1>3, <2>2 DEF Clamped, TypeOK
  <2>4. TypeOK'
    BY <1>1, <2>1, <2>3 DEF Goto, world, estVars, history, TypeOK, Steps
  <2>5. returned' <= lastPublic'
    BY <1>1, <2>1, <2>3 DEF history, TypeOK
  <2>6. ASSUME NEW q \in Readers PROVE ReaderInv(q)'
    <3>1. CASE q = p
      <4>1. center'[p] = Clamped(p) /\ pc'[p] = "bound" /\ pc[p] = "swap"
        BY <2>1 DEF Goto, TypeOK
      <4>2. before[p] <= Clamped(p)
        BY <2>3 DEF ReaderInv, TypeOK
      <4> QED
        BY <1>1, <2>1, <2>2, <2>3, <3>1, <4>1, <4>2, PublicAssumption
           DEF history, ReaderInv, TypeOK, WithCandidate, WithCenter
    <3>2. CASE q # p
      <4>1. center'[q] = center[q] /\ pc'[q] = pc[q]
        BY <2>1, <3>2 DEF Goto, TypeOK
      <4>2. center[q] # None => center[q] <= lastPublic'
        BY <2>1, <2>3 DEF ReaderInv, TypeOK
      <4> QED
        BY <1>1, <4>1, <4>2 DEF history, ReaderInv, TypeOK
    <3> QED
      BY <3>1, <3>2
  <2> QED
    BY <1>1, <2>1, <2>2, <2>3, <2>4, <2>5, <2>6 DEF history
<1> QED
  BY <1>2, <1>3

(* The greater of the two distances covers everything in the interval.     *)
LEMMA EpsilonCovers ==
  ASSUME NEW p \in Readers, TypeOK, center[p] \in Int,
         NEW lo \in Int, NEW hi \in Int
  PROVE  /\ Epsilon(p, lo, hi) \in Int
         /\ \A t \in lo..hi :
               t \in center[p] - Epsilon(p, lo, hi) .. center[p] + Epsilon(p, lo, hi)
  BY PublicAssumption DEF Epsilon, Abs

LEMMA BoundInv ==
  ASSUME IInv, NEW p \in Readers, Bound(p)
  PROVE  IInv'
<1> USE DEF IInv, planner
<1>1. /\ Goto(p, "bound", "return")
      /\ UNCHANGED <<world, left, shared, planner, held, raw, asOf, candidate, old, center,
                     history>>
  BY DEF Bound
<1>2. center[p] \in Int /\ ~result[p].has
  BY <1>1 DEF Goto, ReaderInv, TypeOK, WithCenter
<1>3. /\ result' \in [Readers -> Result]
      /\ \A q \in Readers : q # p => result'[q] = result[q]
      /\ result'[p].has =>
            /\ asOf[p] \in center[p] - result'[p].eps .. center[p] + result'[p].eps
            /\ result'[p].eps < EpsilonCap
  <2>1. CASE UNCHANGED result
    BY <1>2, <2>1 DEF TypeOK
  <2>2. CASE ~UNCHANGED result
    <3>1. PICK below \in Slack, above \in Slack :
             result' = [result EXCEPT ![p] =
                LET lo == asOf[p] - below
                    hi == asOf[p] + above
                    eps == Epsilon(p, lo, hi)
                IN IF eps >= EpsilonCap THEN Unbounded
                   ELSE [has |-> TRUE, earliest |-> lo, latest |-> hi, eps |-> eps]]
      BY <2>2 DEF Bound
    <3> DEFINE lo == asOf[p] - below
               hi == asOf[p] + above
               eps == Epsilon(p, lo, hi)
    <3>2. lo \in Int /\ hi \in Int /\ asOf[p] \in lo..hi
      BY PublicAssumption DEF TypeOK
    <3>3. eps \in Int /\ asOf[p] \in center[p] - eps .. center[p] + eps
      BY <1>2, <3>2, EpsilonCovers
    <3> HIDE DEF lo, hi, eps
    <3>4. result' = [result EXCEPT ![p] =
                       IF eps >= EpsilonCap THEN Unbounded
                       ELSE [has |-> TRUE, earliest |-> lo, latest |-> hi, eps |-> eps]]
      BY <3>1 DEF lo, hi, eps
    <3>5. CASE eps >= EpsilonCap
      <4>1. result' = [result EXCEPT ![p] = Unbounded] /\ Unbounded \in Result
        BY <3>4, <3>5 DEF Unbounded, Result
      <4>2. ~Unbounded.has
        BY DEF Unbounded
      <4> QED
        BY <4>1, <4>2 DEF TypeOK
    <3>6. CASE ~(eps >= EpsilonCap)
      <4> DEFINE new == [has |-> TRUE, earliest |-> lo, latest |-> hi, eps |-> eps]
      <4>1. result' = [result EXCEPT ![p] = new]
        BY <3>4, <3>6
      <4>2. new \in Result /\ new.eps = eps
        BY <3>2, <3>3 DEF Result
      <4>3. eps < EpsilonCap
        BY <3>3, <3>6, PublicAssumption
      <4> HIDE DEF new
      <4> QED
        BY <3>3, <4>1, <4>2, <4>3 DEF TypeOK
    <3> QED
      BY <3>5, <3>6
  <2> QED
    BY <2>1, <2>2
<1>4. TypeOK'
  BY <1>1, <1>3 DEF Goto, world, estVars, shared, history, TypeOK, Steps
<1>5. ASSUME NEW q \in Readers PROVE ReaderInv(q)'
  BY <1>1, <1>3
     DEF Goto, shared, history, ReaderInv, TypeOK, WithCandidate, WithCenter
<1> QED
  BY <1>1, <1>4, <1>5 DEF shared, history

LEMMA ReturnInv ==
  ASSUME IInv, NEW p \in Readers, Return(p)
  PROVE  IInv' /\ center[p] # None
<1> USE DEF IInv, planner
<1>0. Anchored(0, 0, 0) \in Mapping
  BY AnchoredMapping
<1>1. center[p] # None /\ center[p] \in Int /\ center[p] <= lastPublic
  BY DEF Return, Goto, ReaderInv, TypeOK, WithCenter
<1>2. returned' \in Int /\ 0 <= returned' /\ returned <= returned' /\ returned' <= lastPublic
  BY <1>1 DEF Return, TypeOK
<1>3. TypeOK'
  BY <1>0, <1>2 DEF Return, Goto, world, estVars, shared, TypeOK, Steps, Unbounded, Result
<1>4. ASSUME NEW q \in Readers PROVE ReaderInv(q)'
  <2>1. CASE q = p
    BY <1>2, <2>1
       DEF Return, Goto, ReaderInv, TypeOK, WithCandidate, WithCenter, Unbounded
  <2>2. CASE q # p
    BY <1>2, <2>2
       DEF Return, Goto, shared, ReaderInv, TypeOK, WithCandidate, WithCenter
  <2> QED
    BY <2>1, <2>2
<1> QED
  BY <1>1, <1>2, <1>3, <1>4 DEF Return, shared

LEMMA ReplanInv ==
  ASSUME IInv, ReplanSmear
  PROVE  IInv'
<1> USE DEF IInv
<1>0. "smear" \in Kinds
  BY PublicAssumption
<1>1. left' \in [Kinds -> Nat]
  BY <1>0, SpendTyped DEF ReplanSmear, TypeOK
<1>2. made' \in Plan
  <2>1. PICK target \in Targets : made' \in Replans(counter, DoubleBias(plan, counter),
                                                    Rate(plan, counter), target)
    BY DEF ReplanSmear
  <2>2. target \in Int
    BY PublicAssumption
  <2>3. counter \in Nat /\ DoubleBias(plan, counter) \in Int /\ Rate(plan, counter) \in Int
    BY PlanBiasInt DEF TypeOK
  <2> QED
    BY <2>1, <2>2, <2>3, ReplansArePlans
<1>3. UNCHANGED <<world, shared, locals, history>> /\ madeAt' = counter
  BY DEF ReplanSmear
<1>4. TypeOK'
  BY <1>1, <1>2, <1>3 DEF world, estVars, shared, locals, history, TypeOK
<1>5. ASSUME NEW q \in Readers PROVE ReaderInv(q)'
  BY <1>3 DEF shared, locals, history, ReaderInv
<1> QED
  BY <1>3, <1>4, <1>5 DEF shared, history

LEMMA StoreInv ==
  ASSUME IInv, SetSmearPlan
  PROVE  IInv'
<1> USE DEF IInv
<1>1. UNCHANGED <<world, left, lastPublic, locals, history>>
  BY DEF SetSmearPlan
<1>2. TypeOK'
  BY <1>1 DEF SetSmearPlan, world, estVars, locals, history, TypeOK
<1>3. ASSUME NEW q \in Readers PROVE ReaderInv(q)'
  BY <1>1 DEF locals, history, ReaderInv
<1> QED
  BY <1>1, <1>2, <1>3 DEF history

LEMMA EstimateInv ==
  ASSUME IInv, EstimateStep
  PROVE  IInv'
<1> USE DEF IInv, planner
<1>1. ClockTyped'
  BY EstimateTyped DEF EstimateStep, TypeOK, ClockTyped
<1>2. UNCHANGED <<shared, planner, locals, history>>
  BY DEF EstimateStep
<1>3. TypeOK'
  BY <1>1, <1>2 DEF ClockTyped, shared, locals, history, TypeOK
<1>4. ASSUME NEW q \in Readers PROVE ReaderInv(q)'
  BY <1>2 DEF shared, locals, history, ReaderInv
<1> QED
  BY <1>2, <1>3, <1>4 DEF shared, history

LEMMA IInvStep == IInv /\ [Next]_vars => IInv'
<1> SUFFICES ASSUME IInv, [Next]_vars PROVE IInv'
  OBVIOUS
<1>1. ASSUME NEW p \in Readers, NowPublicAssured(p) PROVE IInv'
  BY <1>1, AcquireInv, ReadRawInv, AddBiasInv, LoadLastInv, SwapInv, BoundInv, ReturnInv
     DEF NowPublicAssured
<1>2. CASE ReplanSmear \/ SetSmearPlan
  BY <1>2, ReplanInv, StoreInv
<1>3. CASE EstimateStep
  BY <1>3, EstimateInv
<1>4. CASE UNCHANGED vars
  BY <1>4 DEF vars, shared, planner, locals, history, estVars, IInv, TypeOK, ReaderInv
<1> QED
  BY <1>1, <1>2, <1>3, <1>4 DEF Next

LEMMA Invariance == Spec => []IInv
  BY IInvInit, IInvStep, PTL DEF Spec

-----------------------------------------------------------------------------
(* Theorems about the public clock.                                        *)

(* The types of the public clock's state: a smear plan is always one whose *)
(* segments have whole, nonnegative durations, and every value offered to  *)
(* the register is a number (ReadPublicInstant, ReplanSmearFromState).     *)
THEOREM PublicClockTyped == Spec => []TypeOK
<1>1. IInv => TypeOK
  BY DEF IInv
<1> QED
  BY <1>1, Invariance, PTL

(* PublicMonotone for any number of readers: the center of a call is not   *)
(* below that of any call that returned before it began.                   *)
THEOREM PublicNeverRunsBack == Spec => []PublicMonotone
<1>1. IInv => PublicMonotone
  BY DEF IInv, ReaderInv, PublicMonotone
<1> QED
  BY <1>1, Invariance, PTL

(* EpsilonHoldsTruth for any interval that holds true time: the reported   *)
(* epsilon covers it from the reported center (NowPublicAssured).          *)
THEOREM EpsilonIsSound == Spec => []EpsilonHoldsTruth
<1>1. IInv => EpsilonHoldsTruth
  BY DEF IInv, ReaderInv, EpsilonHoldsTruth
<1> QED
  BY <1>1, Invariance, PTL

LEMMA RegisterInit == Init => Register!Init
  BY DEF Init, Register!Init

LEMMA RegisterStep == IInv /\ [Next]_vars => [Register!Next]_(Register!avars)
<1> SUFFICES ASSUME IInv, [Next]_vars PROVE [Register!Next]_(Register!avars)
  OBVIOUS
<1> USE DEF Register!avars
<1>1. ASSUME NEW p \in Readers, AddBias(p) PROVE Register!Offer(p)
  <2>1. candidate[p] = None /\ candidate'[p] \in Int
    BY <1>1, AddBiasInv
  <2>2. candidate' = [candidate EXCEPT ![p] = candidate'[p]]
    BY <1>1 DEF AddBias, IInv, TypeOK
  <2> QED
    BY <1>1, <2>1, <2>2 DEF AddBias, shared, Register!Offer
<1>2. ASSUME NEW p \in Readers, Swap(p)
      PROVE  Register!Take(p) \/ UNCHANGED Register!avars
  <2>1. UNCHANGED candidate
    BY <1>2 DEF Swap
  <2> QED
    BY <1>2, <2>1, SwapInv DEF Register!Take, Register!Greater
<1>3. ASSUME NEW p \in Readers, Return(p) PROVE Register!Return(p)
  BY <1>3, ReturnInv DEF Return, shared, Register!Return
<1>4. ASSUME NEW p \in Readers, Acquire(p) \/ ReadRaw(p) \/ LoadLast(p) \/ Bound(p)
      PROVE  UNCHANGED Register!avars
  BY <1>4 DEF Acquire, ReadRaw, LoadLast, Bound, shared
<1>5. CASE ReplanSmear \/ SetSmearPlan \/ EstimateStep \/ UNCHANGED vars
  BY <1>5 DEF ReplanSmear, SetSmearPlan, EstimateStep, vars, shared, locals
<1>6. ASSUME NEW p \in Readers, NowPublicAssured(p)
      PROVE  [Register!Next]_(Register!avars)
  BY <1>6, <1>1, <1>2, <1>3, <1>4 DEF NowPublicAssured, Register!Next
<1> QED
  BY <1>5, <1>6 DEF Next

(* The loop of load and compare-and-swap implements the atomic maximum,    *)
(* for any number of readers: a failed swap is a stutter, a swap that      *)
(* succeeds is the one step in which the call takes its answer.            *)
THEOREM ClampIsAtomic == Spec => IsAtomicMaximum
  BY RegisterInit, RegisterStep, Invariance, PTL
     DEF Spec, IsAtomicMaximum, Register!Spec

-----------------------------------------------------------------------------
(* Theorems about the estimate clock.                                      *)

LEMMA ProductSum ==
  ASSUME NEW a \in Int, NEW b \in Int, NEW c \in Int
  PROVE  /\ a * b \in Int /\ a * (b + c) = a * b + a * c
         /\ a * (b - c) = a * b - a * c
         /\ (a + b) * c = a * c + b * c
  OBVIOUS

(* Re-anchored at r, a mapping shows at r what it showed before.           *)
LEMMA ReanchoredShows ==
  ASSUME NEW m \in Mapping, NEW r \in Nat, NEW b \in Int, NEW added \in Int
  PROVE  Evaluate(Reanchored(m, r, b, added), r) = Evaluate(m, r)
<1> DEFINE new == Reanchored(m, r, b, added)
<1>1. /\ new.timeAnchor = Evaluate(m, r)
      /\ new.rawAnchor = r /\ new.slewStart = r /\ new.baseRate = b
  BY DEF Reanchored, Owing, Anchored
<1> HIDE DEF new
<1>2. SlewApplied(new, r) = 0
  BY <1>1 DEF SlewApplied
<1>3. BaseAdvance(new, r - new.rawAnchor) = 0
  <2>1. r - new.rawAnchor = 0 /\ (One + new.baseRate) * 0 = 0
    BY <1>1, EstimateAssumption
  <2>2. 0 \div One = 0
    BY EstimateAssumption
  <2> QED
    BY <2>1, <2>2 DEF BaseAdvance
<1>4. Evaluate(m, r) \in Int
  BY EvaluateInt
<1> QED
  BY <1>1, <1>2, <1>3, <1>4 DEF Evaluate, new

(* EstimateIsContinuous for every rate and correction: ReanchorContinuity  *)
(* moves no time it shows, wherever it meets an earlier slew.              *)
THEOREM ReanchoringIsContinuous == Spec => EstimateIsContinuous
<1>1. IInv /\ [Next]_vars
        => [ReanchorContinuity =>
              Evaluate(est', counter) = Evaluate(est, counter)]_<<counter, estVars>>
  <2> SUFFICES ASSUME IInv, ReanchorContinuity
               PROVE  Evaluate(est', counter) = Evaluate(est, counter)
    OBVIOUS
  <2>1. PICK rate \in BaseRates, added \in Debts :
           est' = Reanchored(est, counter, rate, added)
    BY DEF ReanchorContinuity
  <2>2. rate \in Int /\ added \in Int
    BY EstimateAssumption
  <2>3. est \in Mapping /\ counter \in Nat
    BY DEF IInv, TypeOK
  <2> QED
    BY <2>1, <2>2, <2>3, ReanchoredShows
<1> QED
  BY <1>1, Invariance, PTL DEF Spec, EstimateIsContinuous

(* An advance loses less than one unit.                                    *)
LEMMA AdvanceRounds ==
  ASSUME NEW m \in Mapping, NEW d \in Int
  PROVE  (One + m.baseRate) * d - One * BaseAdvance(m, d) \in 0..(One - 1)
<1>1. One \in Nat /\ One > 0 /\ m.baseRate \in Int
  BY EstimateAssumption DEF Mapping
<1>2. \A x \in Int : x \div One \in Int /\ x - One * (x \div One) \in 0..(One - 1)
  BY <1>1
<1>3. (One + m.baseRate) * d \in Int /\ m.baseRate * d \in Int
  BY <1>1
<1>4. CASE d >= 0
  <2>1. BaseAdvance(m, d) = ((One + m.baseRate) * d) \div One
    BY <1>4 DEF BaseAdvance
  <2> QED
    BY <1>2, <1>3, <2>1
<1>5. CASE ~(d >= 0)
  <2> DEFINE x == m.baseRate * d
             y == x \div One
  <2>1. BaseAdvance(m, d) = y + d
    BY <1>5 DEF BaseAdvance
  <2>2. y \in Int /\ x \in Int
    BY <1>2, <1>3
  <2>3. x - One * y \in 0..(One - 1)
    BY <1>2, <1>3
  <2>4. (One + m.baseRate) * d = One * d + x
    BY <1>1, ProductSum
  <2>5. One * (y + d) = One * y + One * d
    BY <1>1, <2>2, ProductSum
  <2>6. One * d \in Int /\ One * y \in Int
    BY <1>1, <2>2
  <2> HIDE DEF x, y
  <2> QED
    BY <1>1, <2>1, <2>2, <2>3, <2>4, <2>5, <2>6
<1> QED
  BY <1>4, <1>5

(* What rounding has cost up to the last anchor: the tick does not change  *)
(* it, a re-anchoring adds less than one unit.                             *)
Lost == ideal - One * (est.timeAnchor + est.debt)
              - (One + est.baseRate) * (counter - est.rawAnchor)

PaidInv == Lost \in 0..(One - 1) * roundings

LEMMA MissingIsLost ==
  ASSUME est \in Mapping, counter \in Nat, ideal \in Int,
         roundings \in Nat, PaidInv
  PROVE  ideal - One * (Evaluate(est, counter) + est.debt - SlewApplied(est, counter))
           \in 0..(One - 1) * (roundings + 1)
<1> DEFINE ahead == BaseAdvance(est, counter - est.rawAnchor)
           slew == SlewApplied(est, counter)
           base == est.timeAnchor + est.debt
           exact == (One + est.baseRate) * (counter - est.rawAnchor)
           limit == (One - 1) * roundings
<1>1. /\ One \in Nat /\ est.timeAnchor \in Int /\ est.debt \in Int
      /\ est.baseRate \in Int /\ counter - est.rawAnchor \in Int
  BY EstimateAssumption DEF Mapping
<1>2. ahead \in Int /\ slew \in Int /\ base \in Int
  BY <1>1, AdvanceInt, SlewInt
<1>3. exact - One * ahead \in 0..(One - 1)
  BY <1>1, AdvanceRounds
<1>4. Evaluate(est, counter) = est.timeAnchor + ahead + slew
  BY DEF Evaluate
<1>5. ideal - One * base - exact \in 0..limit
  BY DEF PaidInv, Lost
<1>6. exact \in Int /\ limit \in Int /\ One * base \in Int /\ One * ahead \in Int
  BY <1>1, <1>2
<1>7. (One - 1) * (roundings + 1) = limit + (One - 1)
  BY <1>1, ProductSum
<1> HIDE DEF ahead, slew, exact, limit
<1>8. Evaluate(est, counter) + est.debt - slew = base + ahead
  BY <1>1, <1>2, <1>4
<1>9. One * (base + ahead) = One * base + One * ahead
  BY <1>1, <1>2, ProductSum
<1> HIDE DEF base
<1>10. ideal - One * (base + ahead) \in 0..limit + (One - 1)
  BY <1>1, <1>3, <1>5, <1>6, <1>9
<1> QED
  BY <1>7, <1>8, <1>10 DEF slew

LEMMA PaidInit == Init => PaidInv
<1> SUFFICES ASSUME Init PROVE PaidInv
  OBVIOUS
<1>1. One \in Nat
  BY EstimateAssumption
<1>2. /\ ideal = 0 /\ roundings = 0 /\ counter = 0
      /\ est.timeAnchor = 0 /\ est.debt = 0 /\ est.baseRate = 0 /\ est.rawAnchor = 0
  BY DEF Init, EstimateInit, Anchored
<1> QED
  BY <1>1, <1>2 DEF PaidInv, Lost

LEMMA PaidStep == IInv /\ PaidInv /\ [Next]_vars => PaidInv'
<1> SUFFICES ASSUME IInv, PaidInv, [Next]_vars PROVE PaidInv'
  OBVIOUS
<1>1. /\ One \in Nat /\ One > 0
      /\ est \in Mapping /\ counter \in Nat /\ truth \in Nat
      /\ ideal \in Int /\ roundings \in Nat
  BY EstimateAssumption DEF IInv, TypeOK
<1>2. /\ est.timeAnchor \in Int /\ est.debt \in Int /\ est.baseRate \in Int
      /\ est.rawAnchor \in Nat
  BY <1>1 DEF Mapping
<1>3. CASE InitializeAnchors
  <2>1. PICK lag \in Lags, e \in EstimateErrors, rate \in BaseRates :
           /\ lag <= counter
           /\ est' = Anchored(counter - lag, truth - lag + e, rate)
           /\ ideal' = One * (truth - lag + e) + (One + rate) * lag
    BY <1>3 DEF InitializeAnchors
  <2>2. lag \in Nat /\ e \in Int /\ rate \in Int
    BY EstimateAssumption
  <2>3. counter' = counter /\ roundings' = 0
    BY <1>3 DEF InitializeAnchors
  <2> DEFINE t == truth - lag + e
  <2>4. /\ est'.timeAnchor = t /\ est'.debt = 0 /\ est'.baseRate = rate
        /\ est'.rawAnchor = counter - lag
    BY <2>1 DEF Anchored
  <2>5. t + 0 = t /\ counter - (counter - lag) = lag
    BY <1>1, <2>2
  <2>6. One * t \in Int /\ (One + rate) * lag \in Int /\ (One - 1) * 0 = 0
    BY <1>1, <2>2
  <2>7. ideal' = One * t + (One + rate) * lag
    BY <2>1
  <2> HIDE DEF t
  <2>8. Lost' = ideal' - One * (t + 0) - (One + rate) * (counter - (counter - lag))
    BY <2>3, <2>4 DEF Lost
  <2>9. Lost' = (One * t + (One + rate) * lag) - One * t - (One + rate) * lag
    BY <2>5, <2>7, <2>8
  <2> QED
    BY <2>3, <2>6, <2>9 DEF PaidInv
<1>4. CASE ReanchorContinuity
  <2>1. PICK rate \in BaseRates, added \in Debts :
           /\ est' = Reanchored(est, counter, rate, added)
           /\ ideal' = ideal + One * added
    BY <1>4 DEF ReanchorContinuity
  <2>2. added \in Int /\ rate \in Int
    BY EstimateAssumption
  <2>3. counter' = counter /\ roundings' = roundings + 1
    BY <1>4 DEF ReanchorContinuity
  <2> DEFINE now == Evaluate(est, counter)
             owed == est.debt - SlewApplied(est, counter)
  <2>4. /\ est'.timeAnchor = now /\ est'.debt = owed + added
        /\ est'.baseRate = rate /\ est'.rawAnchor = counter
    BY <2>1 DEF Reanchored, Owing, Anchored
  <2>5. now \in Int /\ SlewApplied(est, counter) \in Int /\ owed \in Int
    BY <1>1, <1>2, EvaluateInt, SlewInt
  <2>6. ideal - One * (now + owed) \in 0..(One - 1) * (roundings + 1)
    <3>1. now + owed = now + est.debt - SlewApplied(est, counter)
      BY <1>2, <2>5
    <3> QED
      BY <1>1, <3>1, MissingIsLost
  <2> HIDE DEF now, owed
  <2>7. now + (owed + added) = (now + owed) + added
    BY <2>2, <2>5
  <2>8. One * ((now + owed) + added) = One * (now + owed) + One * added
    BY <1>1, <2>2, <2>5, ProductSum
  <2>9. counter - counter = 0 /\ (One + rate) * 0 = 0
    BY <1>1, <2>2
  <2>10. Lost' = (ideal + One * added) - One * ((now + owed) + added) - 0
    BY <2>1, <2>3, <2>4, <2>7, <2>9 DEF Lost
  <2>11. One * (now + owed) \in Int /\ One * added \in Int
    BY <1>1, <2>2, <2>5
  <2>12. Lost' = ideal - One * (now + owed)
    BY <1>1, <2>8, <2>10, <2>11
  <2> QED
    BY <2>3, <2>6, <2>12 DEF PaidInv
<1>5. CASE Step
  <2>1. PICK s \in StepSizes : /\ est' = Stepped(est, counter, s)
                               /\ ideal' = One * (Evaluate(est, counter) + s)
    BY <1>5 DEF Step
  <2>2. counter' = counter /\ roundings' = 0
    BY <1>5 DEF Step
  <2> DEFINE t == Evaluate(est, counter) + s
  <2>3. /\ est'.timeAnchor = t /\ est'.debt = 0
        /\ est'.baseRate = est.baseRate /\ est'.rawAnchor = counter
    BY <2>1 DEF Stepped, Anchored
  <2>4. t \in Int
    BY <1>1, EvaluateInt, EstimateAssumption
  <2>5. ideal' = One * t
    BY <2>1
  <2> HIDE DEF t
  <2>6. /\ t + 0 = t /\ counter - counter = 0 /\ (One + est.baseRate) * 0 = 0
        /\ (One - 1) * 0 = 0 /\ One * t \in Int
    BY <1>1, <1>2, <2>4
  <2>7. Lost' = One * t - One * t - 0
    BY <2>2, <2>3, <2>5, <2>6 DEF Lost
  <2> QED
    BY <2>2, <2>6, <2>7 DEF PaidInv
<1> DEFINE base == One * (est.timeAnchor + est.debt)
           rate == One + est.baseRate
           dr == counter - est.rawAnchor
<1>6. base \in Int /\ rate \in Int /\ dr \in Int /\ rate * dr \in Int
  BY <1>1, <1>2
<1>7. Lost = ideal - base - rate * dr
  BY DEF Lost
<1>8. CASE Tick
  <2>1. /\ counter' - est.rawAnchor = dr + 1 /\ ideal' = ideal + rate
        /\ est' = est /\ roundings' = roundings
    BY <1>1, <1>2, <1>8 DEF Tick
  <2>1a. Lost' = ideal' - base - rate * (counter' - est.rawAnchor)
    BY <2>1 DEF Lost
  <2> HIDE DEF base, rate, dr
  <2>2. Lost' = (ideal + rate) - base - rate * (dr + 1)
    BY <2>1, <2>1a
  <2>3. rate * (dr + 1) = rate * dr + rate
    BY <1>6, ProductSum
  <2>4. Lost' = Lost
    BY <1>1, <1>6, <1>7, <2>2, <2>3
  <2> QED
    BY <2>1, <2>4 DEF PaidInv
<1>9. CASE Rewind
  <2>1. PICK d \in 1..counter : /\ counter' = counter - d
                                /\ ideal' = ideal - d * rate
    BY <1>9 DEF Rewind
  <2>2. est' = est /\ roundings' = roundings /\ d \in Int
    BY <1>9 DEF Rewind
  <2>3. counter' - est.rawAnchor = dr - d
    BY <1>1, <1>2, <2>1
  <2>4. Lost' = ideal - d * rate - base - rate * (dr - d)
    BY <2>1, <2>2, <2>3 DEF Lost
  <2> HIDE DEF base, rate, dr
  <2>5. rate * (dr - d) = rate * dr - rate * d /\ rate * d = d * rate /\ rate * d \in Int
    BY <1>6, <2>2, ProductSum
  <2>6. Lost' = Lost
    BY <1>1, <1>6, <1>7, <2>4, <2>5
  <2> QED
    BY <2>2, <2>6 DEF PaidInv
<1> HIDE DEF base, rate, dr
<1>10. CASE UNCHANGED <<counter, estVars>>
  BY <1>10 DEF estVars, PaidInv, Lost
<1>11. ASSUME NEW p \in Readers, NowPublicAssured(p) PROVE UNCHANGED <<counter, estVars>>
  BY <1>11 DEF NowPublicAssured, Acquire, ReadRaw, AddBias, LoadLast, Swap, Bound,
               Return, world
<1>12. CASE ReplanSmear \/ SetSmearPlan
  BY <1>10, <1>12 DEF ReplanSmear, SetSmearPlan, world
<1> QED
  BY <1>3, <1>4, <1>5, <1>8, <1>9, <1>10, <1>11, <1>12
     DEF Next, EstimateStep, EstimateNext, vars

(* CorrectionsArePaidOnce for every rate, correction and step: however     *)
(* often the clock is re-anchored in the middle of a slew, what it shows   *)
(* and what it still owes is what it should show, but for the rounding of  *)
(* each mapping it has had (ReanchorContinuity).                           *)
THEOREM PaidExactlyOnce == Spec => []CorrectionsArePaidOnce
<1>1. IInv /\ PaidInv => CorrectionsArePaidOnce
  <2> SUFFICES ASSUME IInv, PaidInv PROVE CorrectionsArePaidOnce
    OBVIOUS
  <2>1. /\ est \in Mapping /\ counter \in Nat /\ ideal \in Int
        /\ roundings \in Nat
    BY DEF IInv, TypeOK
  <2>2. Evaluate(est, counter) \in Int /\ SlewApplied(est, counter) \in Int
    BY <2>1, EvaluateInt, SlewInt
  <2>3. Evaluate(est, counter) + (est.debt - SlewApplied(est, counter))
          = Evaluate(est, counter) + est.debt - SlewApplied(est, counter)
    BY <2>1, <2>2 DEF Mapping
  <2> QED
    BY <2>1, <2>3, MissingIsLost DEF CorrectionsArePaidOnce
<1> QED
  BY <1>1, PaidInit, PaidStep, Invariance, PTL DEF Spec

-----------------------------------------------------------------------------
(* The smear: every plan is smooth and ends at rest on its target.         *)

(* A segment lasts, its rate is a multiple of the wander and never beyond  *)
(* the maximum.                                                            *)
Whole(rate) == \E k \in Int : rate = k * MaxWander

Gentle(seg) ==
    /\ seg \in Segment /\ seg.dur > 0
    /\ seg.wander \in {-MaxWander, 0, MaxWander}
    /\ Whole(seg.rate)
    /\ seg.rate \in -MaxRate..MaxRate
    /\ RateIn(seg, seg.dur) \in -MaxRate..MaxRate

(* b begins when a ends, with the rate and the bias a ends with.           *)
Joins(a, b) ==
    /\ b.start = a.start + a.dur
    /\ b.rate = RateIn(a, a.dur)
    /\ b.bias = BiasIn(a, a.dur)

Smooth(segs) ==
    /\ segs \in Seq(Segment)
    /\ \A i \in 1..Len(segs) : Gentle(segs[i])
    /\ \A i \in 1..Len(segs) : i < Len(segs) => Joins(segs[i], segs[i + 1])
    /\ \A i, j \in 1..Len(segs) :
          i < j => segs[i].start + segs[i].dur <= segs[j].start

Ends(segs, bias) ==
    LET last == segs[Len(segs)]
    IN  RateIn(last, last.dur) = 0 /\ BiasIn(last, last.dur) = bias

Sound(p) ==
    /\ Smooth(p.segments)
    /\ p.segments # <<>> => Ends(p.segments, 2 * p.terminal)

(* A plan that may be waiting to be stored begins where the plan in force  *)
(* was at the reading it was made for.                                     *)
PlanInv ==
    /\ Sound(plan)
    /\ made # None =>
          /\ Sound(made)
          /\ IF made.segments # <<>>
             THEN /\ made.segments[1].start = madeAt
                  /\ made.segments[1].bias = DoubleBias(plan, madeAt)
             ELSE /\ DoubleBias(plan, madeAt) = 2 * made.terminal
                  /\ Rate(plan, madeAt) = 0

LEMMA SegmentWords ==
  ASSUME NEW seg \in Segment
  PROVE  /\ seg.start \in Nat /\ seg.dur \in Nat /\ seg.rate \in Int
         /\ seg.wander \in Int /\ seg.bias \in Int
  BY DEF Segment

LEMMA SegmentEnds ==
  ASSUME NEW seg \in Segment
  PROVE  /\ RateIn(seg, seg.dur) = seg.rate + seg.wander * seg.dur
         /\ BiasIn(seg, seg.dur)
              = seg.bias + 2 * seg.rate * seg.dur + seg.wander * seg.dur * seg.dur
         /\ BiasIn(seg, 0) = seg.bias
<1>1. Within(seg, seg.dur) = seg.dur /\ Within(seg, 0) = 0
  BY SegmentWords DEF Within
<1>2. seg.bias + 2 * seg.rate * 0 + seg.wander * 0 * 0 = seg.bias
  BY SegmentWords
<1> QED
  BY <1>1, <1>2 DEF RateIn, BiasIn

(* Multiples of the wander are closed under what a segment does to a rate. *)
LEMMA WholeSum ==
  ASSUME NEW rate, Whole(rate), NEW w \in {-MaxWander, 0, MaxWander}, NEW u \in Int
  PROVE  Whole(rate + w * u)
<1>1. MaxWander \in Int
  BY SmearAssumption
<1>2. PICK k \in Int : rate = k * MaxWander
  BY DEF Whole
<1>3. CASE w = MaxWander
  <2>1. k * MaxWander + MaxWander * u = (k + u) * MaxWander
    BY <1>1
  <2> QED BY <1>2, <1>3, <2>1 DEF Whole
<1>4. CASE w = -MaxWander
  <2>1. k * MaxWander + (-MaxWander) * u = (k - u) * MaxWander
    BY <1>1
  <2> QED BY <1>2, <1>4, <2>1 DEF Whole
<1>5. CASE w = 0
  <2>1. k * MaxWander + 0 * u = k * MaxWander
    BY <1>1
  <2> QED BY <1>2, <1>5, <2>1 DEF Whole
<1> QED
  BY <1>3, <1>4, <1>5

(* Between the ends of a segment the rate is between the rates there.      *)
LEMMA RateBetween ==
  ASSUME NEW rate \in Int, NEW w \in Int, NEW dur \in Nat, NEW u \in 0..dur,
         NEW m \in Nat, rate \in -m..m, rate + w * dur \in -m..m
  PROVE  rate + w * u \in -m..m
<1>1. CASE w >= 0
  <2>1. w * u >= 0 /\ w * (dur - u) >= 0
    BY <1>1
  <2>2. w * (dur - u) = w * dur - w * u
    OBVIOUS
  <2>3. w * u \in Int /\ w * dur \in Int
    OBVIOUS
  <2> QED BY <2>1, <2>2, <2>3
<1>2. CASE w < 0
  <2>1. (-w) * u >= 0 /\ (-w) * (dur - u) >= 0
    BY <1>2
  <2>2. (-w) * (dur - u) = w * u - w * dur /\ (-w) * u = -(w * u)
    OBVIOUS
  <2>3. w * u \in Int /\ w * dur \in Int
    OBVIOUS
  <2> QED BY <2>1, <2>2, <2>3
<1> QED
  BY <1>1, <1>2

LEMMA RateInside ==
  ASSUME NEW seg, Gentle(seg), NEW t \in Int
  PROVE  RateIn(seg, t) \in -MaxRate..MaxRate /\ Whole(RateIn(seg, t))
<1>0. seg \in Segment
  BY DEF Gentle
<1>1. Within(seg, t) \in 0..seg.dur
  BY <1>0, SegmentWords DEF Within
<1>2. seg.rate + seg.wander * seg.dur \in -MaxRate..MaxRate
  BY <1>0, SegmentEnds DEF Gentle
<1>3. MaxRate \in Nat
  BY SmearAssumption
<1>4. seg.rate + seg.wander * Within(seg, t) \in -MaxRate..MaxRate
  BY <1>0, <1>1, <1>2, <1>3, SegmentWords, RateBetween DEF Gentle
<1>5. Within(seg, t) \in Int
  BY <1>1
<1>6. Whole(seg.rate + seg.wander * Within(seg, t))
  BY <1>5, WholeSum DEF Gentle
<1> QED
  BY <1>4, <1>6 DEF RateIn

(* In a tick the (doubled) bias moves by the sum of the rates before and   *)
(* after it, or not at all.                                                *)
LEMMA BiasInsideTick ==
  ASSUME NEW seg, Gentle(seg), NEW t \in Int
  PROVE  BiasIn(seg, t + 1) - BiasIn(seg, t) \in -(2 * MaxRate)..(2 * MaxRate)
<1> DEFINE u == Within(seg, t)
<1>0. /\ seg \in Segment /\ seg.rate \in Int /\ seg.wander \in Int /\ seg.bias \in Int
      /\ seg.dur \in Nat /\ seg.dur > 0 /\ MaxRate \in Nat
  BY SegmentWords, SmearAssumption DEF Gentle
<1>1. u \in 0..seg.dur /\ (Within(seg, t + 1) = u \/ Within(seg, t + 1) = u + 1)
  BY <1>0 DEF Within
<1>2. CASE Within(seg, t + 1) = u
  <2>1. BiasIn(seg, t + 1) = BiasIn(seg, t)
    BY <1>2 DEF BiasIn
  <2>2. BiasIn(seg, t) \in Int
    BY <1>0, BiasInt
  <2> QED BY <1>0, <2>1, <2>2
<1>3. CASE Within(seg, t + 1) = u + 1
  <2> DEFINE a == RateIn(seg, t)
             b == RateIn(seg, t + 1)
  <2>1. a \in -MaxRate..MaxRate /\ b \in -MaxRate..MaxRate
    BY RateInside
  <2>2. a = seg.rate + seg.wander * u /\ b = seg.rate + seg.wander * (u + 1)
    BY <1>3 DEF RateIn
  <2>3. /\ BiasIn(seg, t) = seg.bias + 2 * seg.rate * u + seg.wander * u * u
        /\ BiasIn(seg, t + 1)
             = seg.bias + 2 * seg.rate * (u + 1) + seg.wander * (u + 1) * (u + 1)
    BY <1>3 DEF BiasIn
  <2>4. BiasIn(seg, t + 1) - BiasIn(seg, t)
          = (seg.rate + seg.wander * u) + (seg.rate + seg.wander * (u + 1))
    <3> DEFINE c == seg.bias
               r == seg.rate
               w == seg.wander
    <3>1. c \in Int /\ r \in Int /\ w \in Int /\ u \in Int
      BY <1>0, <1>1
    <3>2. /\ BiasIn(seg, t) = c + 2 * r * u + w * u * u
          /\ BiasIn(seg, t + 1) = c + 2 * r * (u + 1) + w * (u + 1) * (u + 1)
      BY <2>3
    <3> HIDE DEF c, r, w, u
    <3>3. (c + 2 * r * (u + 1) + w * (u + 1) * (u + 1)) - (c + 2 * r * u + w * u * u)
            = (r + w * u) + (r + w * (u + 1))
      BY <3>1
    <3> QED BY <3>2, <3>3 DEF r, w
  <2>5. BiasIn(seg, t + 1) - BiasIn(seg, t) = a + b
    BY <2>2, <2>4
  <2> HIDE DEF a, b
  <2> QED BY <1>0, <2>1, <2>5
<1> QED
  BY <1>1, <1>2, <1>3

(* In a smooth plan the segment of the next tick is this one, or the one   *)
(* that begins here.                                                       *)
LEMMA CurrentSegment ==
  ASSUME NEW p \in Plan, NEW r \in Int, p.segments # <<>>
  PROVE  LET n == Len(p.segments)
             c == Current(p, r)
             end(i) == p.segments[i].start + p.segments[i].dur
         IN  /\ c \in 1..n
             /\ r <= end(c) \/ c = n
             /\ \A i \in 1..n : r <= end(i) => r <= end(c) /\ c <= i
<1> DEFINE n == Len(p.segments)
           late == {i \in 1..n : r <= p.segments[i].start + p.segments[i].dur}
<1>1. Current(p, r) \in 1..n
  BY CurrentIsPosition
<1>2. CASE late = {}
  <2>1. Current(p, r) = n
    BY <1>2 DEF Current
  <2> QED BY <1>1, <1>2, <2>1
<1>3. CASE late # {}
  <2>1. late \subseteq Nat
    OBVIOUS
  <2>2. \E i \in late : \A j \in late : i <= j
    BY <1>3, <2>1, FirstPosition, Zenon
  <2>3. Current(p, r) \in late /\ \A j \in late : Current(p, r) <= j
    BY <1>3, <2>2 DEF Current
  <2> QED BY <1>1, <2>3
<1> QED
  BY <1>2, <1>3

LEMMA BiasTick ==
  ASSUME NEW p \in Plan, Smooth(p.segments), NEW r \in Int
  PROVE  DoubleBias(p, r + 1) - DoubleBias(p, r) \in -(2 * MaxRate)..(2 * MaxRate)
<1> DEFINE n == Len(p.segments)
           seg(i) == p.segments[i]
           end(i) == seg(i).start + seg(i).dur
           c == Current(p, r)
           d == Current(p, r + 1)
<1>0. MaxRate \in Nat
  BY SmearAssumption
<1>1. CASE p.segments = <<>>
  BY <1>0, <1>1 DEF DoubleBias
<1>2. CASE p.segments # <<>>
  <2>1. /\ c \in 1..n /\ (r <= end(c) \/ c = n)
        /\ \A i \in 1..n : r <= end(i) => r <= end(c) /\ c <= i
    BY <1>2, CurrentSegment, Zenon
  <2>2. /\ d \in 1..n /\ (r + 1 <= end(d) \/ d = n)
        /\ \A i \in 1..n : r + 1 <= end(i) => r + 1 <= end(d) /\ d <= i
    BY <1>2, CurrentSegment
  <2>3. \A i \in 1..n : /\ Gentle(seg(i)) /\ seg(i) \in Segment
                        /\ seg(i).start \in Nat /\ seg(i).dur \in Nat /\ seg(i).dur > 0
    BY SegmentWords DEF Smooth, Gentle
  <2>4. \A i \in 1..n : end(i) \in Nat
    BY <2>3
  <2>5. \A i \in 1..n : i < n => /\ seg(i + 1).start = end(i)
                                 /\ seg(i + 1).bias = BiasIn(seg(i), seg(i).dur)
                                 /\ end(i + 1) > end(i)
    <3> SUFFICES ASSUME NEW i \in 1..n, i < n
                 PROVE  /\ seg(i + 1).start = end(i)
                        /\ seg(i + 1).bias = BiasIn(seg(i), seg(i).dur)
                        /\ end(i + 1) > end(i)
      OBVIOUS
    <3>1. Joins(seg(i), seg(i + 1))
      BY DEF Smooth
    <3>2. i + 1 \in 1..n
      OBVIOUS
    <3>3. seg(i + 1).dur \in Nat /\ seg(i + 1).dur > 0 /\ end(i) \in Nat
      BY <2>3, <2>4, <3>2
    <3> QED BY <3>1, <3>3 DEF Joins
  <2>6. DoubleBias(p, r) = BiasIn(seg(c), r - seg(c).start)
    BY <1>2 DEF DoubleBias
  <2>7. DoubleBias(p, r + 1) = BiasIn(seg(d), (r + 1) - seg(d).start)
    BY <1>2 DEF DoubleBias
  <2>8. n \in Nat
    BY DEF Plan
  <2>9. Gentle(seg(c)) /\ Gentle(seg(d)) /\ seg(c) \in Segment /\ seg(d) \in Segment
        /\ seg(c).start \in Nat /\ seg(d).start \in Nat /\ seg(c).dur \in Nat
    BY <2>1, <2>2, <2>3
  <2>10. CASE c = d
    <3> HIDE DEF c, d, seg
    <3>1. (r + 1) - seg(d).start = (r - seg(d).start) + 1 /\ r - seg(d).start \in Int
      BY <2>9
    <3> QED BY <2>6, <2>7, <2>9, <2>10, <3>1, BiasInsideTick
  <2>11. CASE c # d
    <3>1. c < n /\ r = end(c) /\ d = c + 1
      <4> HIDE DEF c, d, seg, end
      <4>1. r <= end(c)
        BY <2>1, <2>2, <2>4, <2>8, <2>11
      <4>2. c <= d
        BY <2>1, <2>2, <2>4, <2>8, <4>1
      <4>3. c < n
        BY <2>1, <2>2, <2>8, <2>11, <4>2
      <4>4. ~(r + 1 <= end(c))
        BY <2>1, <2>2, <2>11, <4>2
      <4>5. r = end(c)
        BY <2>1, <2>4, <4>1, <4>4
      <4>6. c + 1 \in 1..n /\ r + 1 <= end(c + 1)
        BY <2>1, <2>4, <2>5, <2>8, <4>3, <4>5
      <4>7. d <= c + 1
        BY <2>2, <4>6
      <4> QED BY <2>1, <2>2, <2>11, <4>2, <4>3, <4>5, <4>7
    <3>2. /\ seg(d).start = r /\ seg(d).bias = BiasIn(seg(c), seg(c).dur)
          /\ r - seg(c).start = seg(c).dur
      <4> HIDE DEF c, d, seg
      <4> QED BY <2>1, <2>5, <2>9, <3>1
    <3> HIDE DEF c, d, seg
    <3>3. DoubleBias(p, r) = BiasIn(seg(d), 0)
      BY <2>6, <2>9, <3>2, SegmentEnds
    <3>4. DoubleBias(p, r + 1) = BiasIn(seg(d), 0 + 1)
      BY <2>7, <3>2
    <3> QED BY <2>9, <3>3, <3>4, BiasInsideTick
  <2> QED BY <2>10, <2>11
<1> QED
  BY <1>1, <1>2

(* The bias over any distance, by the least distance at which it would     *)
(* fail.                                                                   *)
LEMMA BiasDistance ==
  ASSUME NEW p \in Plan, Smooth(p.segments), NEW r \in Nat
  PROVE  \A d \in Nat : DoubleBias(p, r + d) - DoubleBias(p, r)
                          \in -(2 * MaxRate * d)..(2 * MaxRate * d)
<1> DEFINE Bounded(d) == DoubleBias(p, r + d) - DoubleBias(p, r)
                           \in -(2 * MaxRate * d)..(2 * MaxRate * d)
           Bad == {d \in Nat : ~Bounded(d)}
<1>0. MaxRate \in Nat
  BY SmearAssumption
<1>1. \A d \in Nat : DoubleBias(p, r + d) \in Int
  <2> TAKE d \in Nat
  <2>1. r + d \in Nat
    OBVIOUS
  <2> QED BY <2>1, PlanBiasInt
<1>2. Bounded(0)
  <2>1. r + 0 = r /\ DoubleBias(p, r) \in Int
    BY PlanBiasInt
  <2> QED BY <1>0, <2>1
<1>3. \A d \in Nat : Bounded(d) => Bounded(d + 1)
  <2> SUFFICES ASSUME NEW d \in Nat, Bounded(d) PROVE Bounded(d + 1)
    OBVIOUS
  <2>1. r + d \in Int /\ r + (d + 1) = (r + d) + 1 /\ d + 1 \in Nat
    OBVIOUS
  <2>2. DoubleBias(p, r + (d + 1)) - DoubleBias(p, r + d) \in -(2 * MaxRate)..(2 * MaxRate)
    BY <2>1, BiasTick
  <2> DEFINE x == DoubleBias(p, r)
             y == DoubleBias(p, r + d)
             z == DoubleBias(p, r + (d + 1))
             m == 2 * MaxRate * d
  <2>3. x \in Int /\ y \in Int /\ z \in Int /\ m \in Int
    <3>1. x \in Int
      BY PlanBiasInt
    <3>2. y \in Int /\ z \in Int
      BY <1>1, <2>1
    <3> QED BY <1>0, <3>1, <3>2
  <2>4. 2 * MaxRate * (d + 1) = m + 2 * MaxRate
    BY <1>0
  <2>5. y - x \in -m..m /\ z - y \in -(2 * MaxRate)..(2 * MaxRate)
    BY <2>2
  <2>6. z - x \in -(m + 2 * MaxRate)..(m + 2 * MaxRate)
    <3> HIDE DEF x, y, z, m
    <3> QED BY <1>0, <2>3, <2>5
  <2> QED BY <2>4, <2>6
<1> HIDE DEF Bounded
<1>4. Bad = {}
  <2> SUFFICES ASSUME Bad # {} PROVE FALSE
    OBVIOUS
  <2>1. Bad \subseteq Nat
    OBVIOUS
  <2>2. PICK d \in Bad : \A e \in Bad : d <= e
    BY <2>1, FirstPosition, Zenon
  <2>3. d # 0
    BY <1>2, <2>2
  <2>4. d - 1 \in Nat /\ (d - 1) + 1 = d /\ d - 1 \notin Bad
    BY <2>2, <2>3
  <2> QED BY <1>3, <2>2, <2>4
<1> QED
  BY <1>4 DEF Bounded

-----------------------------------------------------------------------------
(* ReplanSmearFromState builds smooth plans that end at rest on the target.*)

LEMMA LoneSmooth ==
  ASSUME NEW seg, Gentle(seg)
  PROVE  Smooth(<<seg>>) /\ <<seg>> # <<>> /\ Len(<<seg>>) = 1 /\ <<seg>>[1] = seg
  BY DEF Smooth, Gentle

LEMMA AppendSmooth ==
  ASSUME NEW segs, Smooth(segs), segs # <<>>, NEW next, Gentle(next),
         Joins(segs[Len(segs)], next)
  PROVE  LET both == Append(segs, next)
         IN  /\ Smooth(both) /\ both # <<>>
             /\ both[1] = segs[1] /\ both[Len(both)] = next
<1> DEFINE n == Len(segs)
           both == Append(segs, next)
<1>1. segs \in Seq(Segment) /\ n \in Nat /\ n > 0 /\ next \in Segment
  BY DEF Smooth, Gentle
<1>2. /\ both \in Seq(Segment) /\ Len(both) = n + 1 /\ both # <<>>
      /\ \A i \in 1..n : both[i] = segs[i]
      /\ both[n + 1] = next
  BY <1>1
<1>3. \A i \in 1..Len(both) : Gentle(both[i])
  BY <1>1, <1>2 DEF Smooth
<1>4. \A i \in 1..Len(both) : i < Len(both) => Joins(both[i], both[i + 1])
  <2> SUFFICES ASSUME NEW i \in 1..n PROVE Joins(both[i], both[i + 1])
    BY <1>1, <1>2
  <2>1. CASE i < n
    <3>1. i + 1 \in 1..n
      BY <1>1, <2>1
    <3> QED BY <1>2, <2>1, <3>1 DEF Smooth
  <2>2. CASE i = n
    BY <1>1, <1>2, <2>2
  <2> QED BY <1>1, <2>1, <2>2
<1>5. \A i, j \in 1..Len(both) :
         i < j => both[i].start + both[i].dur <= both[j].start
  <2> SUFFICES ASSUME NEW i \in 1..(n + 1), NEW j \in 1..(n + 1), i < j
               PROVE  both[i].start + both[i].dur <= both[j].start
    BY <1>2
  <2>1. i \in 1..n /\ both[i] = segs[i]
    BY <1>1, <1>2
  <2>2. CASE j \in 1..n
    BY <1>2, <2>1, <2>2 DEF Smooth
  <2>3. CASE j = n + 1
    <3>1. both[j] = next /\ next.start = segs[n].start + segs[n].dur
      BY <1>2, <2>3 DEF Joins
    <3>2. n \in 1..n /\ segs[n] \in Segment
      BY <1>1
    <3>3. segs[n].start \in Nat /\ segs[n].dur \in Nat /\ segs[i].start \in Nat
          /\ segs[i].dur \in Nat
      BY <1>1, <2>1, <3>2, SegmentWords
    <3>4. i = n \/ segs[i].start + segs[i].dur <= segs[n].start
      BY <2>1, <3>2 DEF Smooth
    <3> QED BY <2>1, <3>1, <3>3, <3>4
  <2> QED BY <1>1, <2>2, <2>3
<1>6. both[1] = segs[1] /\ both[Len(both)] = next
  BY <1>1, <1>2
<1> QED
  BY <1>2, <1>3, <1>4, <1>5, <1>6 DEF Smooth

LEMMA PrefixSmooth ==
  ASSUME NEW b, Gentle(b), NEW segs, Smooth(segs), segs # <<>>, Joins(b, segs[1])
  PROVE  LET both == <<b>> \o segs
         IN  Smooth(both) /\ both # <<>> /\ both[Len(both)] = segs[Len(segs)]
<1> DEFINE n == Len(segs)
           both == <<b>> \o segs
<1>1. segs \in Seq(Segment) /\ n \in Nat /\ n > 0 /\ b \in Segment
  BY DEF Smooth, Gentle
<1>2. /\ both \in Seq(Segment) /\ Len(both) = n + 1 /\ both # <<>>
      /\ both[1] = b
      /\ \A i \in 2..(n + 1) : both[i] = segs[i - 1]
  BY <1>1
<1>3. \A i \in 1..Len(both) : Gentle(both[i])
  <2> SUFFICES ASSUME NEW i \in 1..(n + 1), i # 1 PROVE Gentle(both[i])
    BY <1>2
  <2>1. i \in 2..(n + 1) /\ i - 1 \in 1..n
    BY <1>1
  <2> QED BY <1>2, <2>1 DEF Smooth
<1>4. \A i \in 1..Len(both) : i < Len(both) => Joins(both[i], both[i + 1])
  <2> SUFFICES ASSUME NEW i \in 1..n PROVE Joins(both[i], both[i + 1])
    BY <1>1, <1>2
  <2>1. i + 1 \in 2..(n + 1) /\ (i + 1) - 1 = i
    BY <1>1
  <2>2. both[i + 1] = segs[i]
    BY <1>2, <2>1
  <2>3. CASE i = 1
    BY <1>2, <2>2, <2>3
  <2>4. CASE i # 1
    <3>1. i - 1 \in 1..n /\ i - 1 < n /\ (i - 1) + 1 = i /\ i \in 2..(n + 1)
      BY <1>1, <2>4
    <3> QED BY <1>2, <2>2, <3>1 DEF Smooth
  <2> QED BY <2>3, <2>4
<1>5. \A i, j \in 1..Len(both) :
         i < j => both[i].start + both[i].dur <= both[j].start
  <2> SUFFICES ASSUME NEW i \in 1..(n + 1), NEW j \in 1..(n + 1), i < j
               PROVE  both[i].start + both[i].dur <= both[j].start
    BY <1>2
  <2>1. j \in 2..(n + 1) /\ j - 1 \in 1..n /\ both[j] = segs[j - 1]
    BY <1>1, <1>2
  <2>2. CASE i = 1
    <3>1. 1 \in 1..n /\ segs[1] \in Segment /\ segs[j - 1] \in Segment
      BY <1>1, <2>1
    <3>2. segs[1].start = b.start + b.dur /\ segs[1].start \in Nat /\ segs[1].dur \in Nat
          /\ segs[j - 1].start \in Nat
      BY <3>1, SegmentWords DEF Joins
    <3>3. j - 1 = 1 \/ segs[1].start + segs[1].dur <= segs[j - 1].start
      BY <2>1, <3>1 DEF Smooth
    <3> QED BY <1>2, <2>1, <2>2, <3>2, <3>3
  <2>3. CASE i # 1
    <3>1. i \in 2..(n + 1) /\ i - 1 \in 1..n /\ i - 1 < j - 1
      BY <1>1, <2>3
    <3> QED BY <1>2, <2>1, <3>1 DEF Smooth
  <2> QED BY <2>2, <2>3
<1>6. both[Len(both)] = segs[n]
  BY <1>1, <1>2
<1> QED
  BY <1>2, <1>3, <1>4, <1>5, <1>6 DEF Smooth

(* What follows a smooth sequence is smooth if its own rates are sound.    *)
LEMMA FollowedSmooth ==
  ASSUME NEW segs, Smooth(segs), segs # <<>>,
         NEW last, last = segs[Len(segs)],
         NEW w \in {-MaxWander, 0, MaxWander}, NEW d \in Nat, d > 0,
         RateIn(last, last.dur) + w * d \in -MaxRate..MaxRate
  PROVE  LET both == Followed(segs, w, d)
             next == both[Len(both)]
         IN  /\ Smooth(both) /\ both # <<>> /\ both[1] = segs[1] /\ next.dur = d
             /\ RateIn(next, d) = RateIn(last, last.dur) + w * d
             /\ BiasIn(next, d) = BiasIn(last, last.dur)
                                    + 2 * RateIn(last, last.dur) * d + w * d * d
<1> DEFINE rate == RateIn(last, last.dur)
           bias == BiasIn(last, last.dur)
           next == [start |-> last.start + last.dur, dur |-> d,
                    rate |-> rate, wander |-> w, bias |-> bias]
<1>1. Gentle(last) /\ last \in Segment
  <2>1. segs \in Seq(Segment) /\ Len(segs) \in 1..Len(segs)
    BY DEF Smooth
  <2> QED BY <2>1 DEF Smooth, Gentle
<1>2. last.start \in Nat /\ last.dur \in Nat
  BY <1>1, SegmentWords
<1>3. rate \in Int /\ bias \in Int /\ w \in Int
  <2>1. last.dur \in Int
    BY <1>2
  <2>2. rate \in Int /\ bias \in Int
    BY <1>1, <2>1, BiasInt
  <2> QED BY <2>2, SmearAssumption
<1>4. rate \in -MaxRate..MaxRate /\ Whole(rate)
  <2>1. last.dur \in Int
    BY <1>2
  <2> QED BY <1>1, <2>1, RateInside
<1>5. Followed(segs, w, d) = Append(segs, next)
  BY DEF Followed
<1>6. rate + w * d \in -MaxRate..MaxRate
  OBVIOUS
<1>7. Joins(last, next)
  BY DEF Joins
<1> HIDE DEF rate, bias
<1>8. next \in Segment /\ next.dur = d
  BY <1>2, <1>3 DEF Segment
<1>9. RateIn(next, d) = rate + w * d /\ BiasIn(next, d) = bias + 2 * rate * d + w * d * d
  BY <1>8, SegmentEnds
<1>10. Gentle(next)
  BY <1>4, <1>6, <1>8, <1>9 DEF Gentle
<1> HIDE DEF next
<1>11. Joins(segs[Len(segs)], next)
  BY <1>7
<1>12. LET both == Append(segs, next)
       IN  /\ Smooth(both) /\ both # <<>>
           /\ both[1] = segs[1] /\ both[Len(both)] = next
  BY <1>10, <1>11, AppendSmooth
<1> QED
  BY <1>5, <1>8, <1>9, <1>12 DEF rate, bias

(* The time to reach the maximum rate at the maximum wander.               *)
Ramp == MaxRate \div MaxWander

LEMMA RampIsWhole ==
  /\ Ramp \in Nat /\ Ramp > 0
  /\ MaxRate = MaxWander * Ramp
  /\ RampArea = MaxWander * Ramp * Ramp
<1>0. MaxRate \in Nat \ {0} /\ MaxWander \in Nat \ {0} /\ MaxRate % MaxWander = 0
  BY SmearAssumption
<1>1. \A a \in Nat, b \in Nat \ {0} : a % b = 0 => a = b * (a \div b) /\ a \div b \in Nat
  OBVIOUS
<1>2. MaxRate = MaxWander * Ramp /\ Ramp \in Nat
  BY <1>0, <1>1 DEF Ramp
<1>3. Ramp # 0
  BY <1>0, <1>2
<1>4. RampArea = MaxRate * Ramp
  BY DEF RampArea, Ramp
<1>5. (MaxWander * Ramp) * Ramp = MaxWander * Ramp * Ramp
  BY <1>0, <1>2
<1> QED
  BY <1>2, <1>3, <1>4, <1>5

LEMMA SquaresOrder ==
  ASSUME NEW m \in Nat \ {0}, NEW a \in Nat, NEW b \in Nat, m * a * a <= m * b * b
  PROVE  a <= b /\ m * a <= m * b
<1>1. a <= b
  <2> SUFFICES ASSUME a > b PROVE FALSE
    OBVIOUS
  <2>1. a * a > b * b
    <3>1. a * a >= a * (b + 1)
      OBVIOUS
    <3>2. a * (b + 1) >= b * (b + 1)
      OBVIOUS
    <3> QED BY <3>1, <3>2
  <2>2. m * (a * a) > m * (b * b)
    BY <2>1
  <2> QED BY <2>2
<1> QED
  BY <1>1

LEMMA SignedDistance ==
  ASSUME NEW D \in Int
  PROVE  /\ Abs(D) \in Nat
         /\ (D > 0 /\ Sign(D) = 1 /\ Abs(D) = D)
              \/ (D < 0 /\ Sign(D) = -1 /\ Abs(D) = -D) \/ D = 0
  BY DEF Abs, Sign

(* What leads from rest at a bias to rest D away.                          *)
Leads(way, seg, D) ==
    /\ Smooth(way) /\ way # <<>>
    /\ way[1].start = seg.start /\ way[1].rate = 0 /\ way[1].bias = seg.bias
    /\ Ends(way, seg.bias + D)

(* The first segment of a way from rest.                                   *)
SetsOff(first, seg, w, d) ==
    /\ Gentle(first) /\ first.dur = d
    /\ first.start = seg.start /\ first.rate = 0 /\ first.bias = seg.bias
    /\ RateIn(first, d) = w * d /\ BiasIn(first, d) = seg.bias + w * d * d

LEMMA SetOff ==
  ASSUME NEW seg \in Segment, seg.rate = 0, NEW d \in Nat, d > 0,
         NEW w \in {-MaxWander, MaxWander}, w * d \in -MaxRate..MaxRate,
         NEW first, first = [seg EXCEPT !.dur = d, !.wander = w]
  PROVE  SetsOff(first, seg, w, d)
<1>1. w \in Int /\ MaxRate \in Nat /\ MaxWander \in Int
  BY SmearAssumption
<1>2. /\ first \in Segment /\ first.dur = d /\ first.wander = w
      /\ first.start = seg.start /\ first.rate = 0 /\ first.bias = seg.bias
  BY <1>1 DEF Segment
<1>3. seg.bias \in Int
  BY SegmentWords
<1>4. RateIn(first, d) = 0 + w * d /\ BiasIn(first, d) = seg.bias + 2 * 0 * d + w * d * d
  BY <1>2, SegmentEnds
<1>5. RateIn(first, d) = w * d /\ BiasIn(first, d) = seg.bias + w * d * d
  BY <1>1, <1>3, <1>4
<1>6. Whole(0)
  <2>1. 0 = 0 * MaxWander
    BY <1>1
  <2> QED BY <2>1 DEF Whole
<1>7. Gentle(first)
  BY <1>1, <1>2, <1>5, <1>6 DEF Gentle
<1> QED
  BY <1>2, <1>5, <1>7 DEF SetsOff

LEMMA TriangleLeads ==
  ASSUME NEW seg \in Segment, seg.rate = 0, NEW D \in Int, D # 0, NEW t \in Nat,
         2 * MaxWander * t * t = Abs(D), Abs(D) <= 2 * RampArea
  PROVE  Leads(Triangle(seg, t, Sign(D) * MaxWander), seg, D)
<1> DEFINE w == Sign(D) * MaxWander
           first == [seg EXCEPT !.dur = t, !.wander = w]
           way == Followed(<<first>>, -w, t)
<1>0. MaxWander \in Nat \ {0} /\ MaxRate \in Nat
  BY SmearAssumption
<1>1. /\ w \in {-MaxWander, MaxWander} /\ -w \in {-MaxWander, MaxWander}
      /\ w \in Int
  BY <1>0, SignedDistance
<1>2. t > 0
  BY <1>0, SignedDistance
<1>3. MaxWander * t <= MaxRate
  <2>1. MaxWander * t * t <= MaxWander * Ramp * Ramp
    <3> DEFINE a == MaxWander * t * t
               b == MaxWander * Ramp * Ramp
    <3>1. a \in Int /\ b \in Int
      BY <1>0, RampIsWhole
    <3>2. 2 * MaxWander * t * t = 2 * a
      BY <1>0
    <3>3. RampArea = b /\ 2 * a <= 2 * RampArea
      BY <3>2, RampIsWhole
    <3> HIDE DEF a, b
    <3>4. a <= b
      BY <3>1, <3>3
    <3> QED BY <3>4 DEF a, b
  <2> QED BY <1>0, <2>1, SquaresOrder, RampIsWhole
<1>4. w * t \in -MaxRate..MaxRate /\ w * t \in Int
  <2>1. w * t = MaxWander * t \/ w * t = -(MaxWander * t)
    BY <1>0, <1>1
  <2>2. MaxWander * t \in Nat
    BY <1>0
  <2> QED BY <1>0, <1>3, <2>1, <2>2
<1>5. 2 * (w * t * t) = D
  <2> DEFINE a == MaxWander * t * t
  <2>1. a \in Int /\ 2 * MaxWander * t * t = 2 * a
    BY <1>0
  <2>2. w * t * t = IF D > 0 THEN a ELSE -a
    BY <1>0, SignedDistance
  <2> HIDE DEF a, w
  <2> QED BY <2>1, <2>2, SignedDistance
<1>6. seg.bias \in Int
  BY SegmentWords
<1> HIDE DEF w
<1>7. /\ Gentle(first) /\ first.dur = t
      /\ first.start = seg.start /\ first.rate = 0 /\ first.bias = seg.bias
      /\ RateIn(first, t) = w * t /\ BiasIn(first, t) = seg.bias + w * t * t
  <2>1. first = [seg EXCEPT !.dur = t, !.wander = w]
    OBVIOUS
  <2> HIDE DEF first
  <2>2. t > 0 /\ w \in {-MaxWander, MaxWander} /\ w * t \in -MaxRate..MaxRate
    BY <1>1, <1>2, <1>4
  <2>3. SetsOff(first, seg, w, t)
    BY <2>1, <2>2, SetOff
  <2> QED BY <2>3 DEF SetsOff
<1> HIDE DEF first
<1>8. Smooth(<<first>>) /\ <<first>> # <<>> /\ Len(<<first>>) = 1 /\ <<first>>[1] = first
  BY <1>7, LoneSmooth
<1>9. RateIn(first, first.dur) + (-w) * t = 0
  BY <1>1, <1>7
<1>10. -w \in {-MaxWander, 0, MaxWander}
  BY <1>1
<1> DEFINE last == way[Len(way)]
<1>11. /\ Smooth(way) /\ way # <<>> /\ way[1] = first /\ last.dur = t
       /\ RateIn(last, t) = RateIn(first, first.dur) + (-w) * t
       /\ BiasIn(last, t) = BiasIn(first, first.dur)
                              + 2 * RateIn(first, first.dur) * t + (-w) * t * t
  <2> DEFINE up == <<first>>
  <2>1. Smooth(up) /\ up # <<>> /\ up[1] = first /\ first = up[Len(up)]
    BY <1>8
  <2>2. RateIn(first, first.dur) + (-w) * t \in -MaxRate..MaxRate
    BY <1>0, <1>9
  <2> HIDE DEF up
  <2>3. LET both == Followed(up, -w, t)
            next == both[Len(both)]
        IN  /\ Smooth(both) /\ both # <<>> /\ both[1] = up[1] /\ next.dur = t
            /\ RateIn(next, t) = RateIn(first, first.dur) + (-w) * t
            /\ BiasIn(next, t) = BiasIn(first, first.dur)
                                   + 2 * RateIn(first, first.dur) * t + (-w) * t * t
    BY <1>2, <1>10, <2>1, <2>2, FollowedSmooth
  <2> QED
    BY <2>1, <2>3 DEF up
<1>12. BiasIn(last, t) = seg.bias + D
  <2>1. BiasIn(last, t) = (seg.bias + w * t * t) + 2 * (w * t) * t + (-w) * t * t
    BY <1>7, <1>11
  <2>2. (seg.bias + w * t * t) + 2 * (w * t) * t + (-w) * t * t = seg.bias + 2 * (w * t * t)
    BY <1>1, <1>6
  <2> QED BY <1>5, <2>1, <2>2
<1> HIDE DEF way
<1>14. Ends(way, seg.bias + D)
  BY <1>9, <1>11, <1>12 DEF Ends
<1>15. Leads(way, seg, D)
  BY <1>7, <1>11, <1>14 DEF Leads
<1> QED
  BY <1>15 DEF way, first, w, Triangle

LEMMA TrapezoidLeads ==
  ASSUME NEW seg \in Segment, seg.rate = 0, NEW D \in Int, NEW t \in Nat,
         2 * MaxRate * t = Abs(D) - 2 * RampArea, Abs(D) > 2 * RampArea
  PROVE  Leads(Trapezoid(seg, t, Sign(D) * MaxWander), seg, D)
<1> DEFINE w == Sign(D) * MaxWander
           first == [seg EXCEPT !.dur = Ramp, !.wander = w]
           up == <<first>>
           flat == Followed(up, 0, t)
           way == Followed(flat, -w, Ramp)
           peak == w * Ramp
           rise == w * Ramp * Ramp
<1>0. MaxWander \in Nat \ {0} /\ MaxRate \in Nat \ {0} /\ Ramp \in Nat /\ Ramp > 0
  BY SmearAssumption, RampIsWhole
<1>1. /\ w \in {-MaxWander, MaxWander} /\ -w \in {-MaxWander, 0, MaxWander}
      /\ w \in Int /\ D # 0
  <2>1. RampArea \in Nat
    BY <1>0, RampIsWhole
  <2>2. D # 0
    BY <2>1, SignedDistance DEF Abs
  <2> QED BY <1>0, <2>2, SignedDistance
<1>2. t > 0
  <2>1. RampArea \in Int /\ Abs(D) \in Int
    BY <1>0, RampIsWhole, SignedDistance
  <2>2. t # 0
    BY <1>0, <2>1
  <2> QED BY <2>2
<1>3. peak \in -MaxRate..MaxRate /\ peak \in Int
  <2>1. w * Ramp = MaxWander * Ramp \/ w * Ramp = -(MaxWander * Ramp)
    BY <1>0, <1>1
  <2> QED BY <1>0, <2>1, RampIsWhole
<1>4. rise \in Int /\ peak * Ramp = rise
  BY <1>0, <1>1
<1>5. 2 * rise + 2 * (peak * t) = D
  <2> DEFINE a == MaxWander * Ramp * Ramp
             b == MaxRate * t
  <2>1. a \in Int /\ b \in Int /\ 2 * MaxRate * t = 2 * b /\ RampArea = a
    BY <1>0, RampIsWhole
  <2>2. (MaxWander * Ramp) * t = b
    BY RampIsWhole
  <2>3. rise = IF D > 0 THEN a ELSE -a
    BY <1>0, <1>1, SignedDistance
  <2>4. peak * t = IF D > 0 THEN (MaxWander * Ramp) * t ELSE -((MaxWander * Ramp) * t)
    BY <1>0, <1>1, SignedDistance
  <2>5. peak * t = IF D > 0 THEN b ELSE -b
    BY <2>2, <2>4
  <2>6. 2 * b = Abs(D) - 2 * a
    BY <2>1
  <2> HIDE DEF a, b, rise, peak
  <2> QED BY <1>1, <2>1, <2>3, <2>5, <2>6, SignedDistance
<1>6. seg.bias \in Int
  BY SegmentWords
<1> HIDE DEF w
<1>7. /\ Gentle(first) /\ first.dur = Ramp
      /\ first.start = seg.start /\ first.rate = 0 /\ first.bias = seg.bias
      /\ RateIn(first, Ramp) = peak /\ BiasIn(first, Ramp) = seg.bias + rise
  <2>1. first = [seg EXCEPT !.dur = Ramp, !.wander = w]
    OBVIOUS
  <2> HIDE DEF first
  <2>2. Ramp \in Nat /\ Ramp > 0 /\ w \in {-MaxWander, MaxWander}
        /\ w * Ramp \in -MaxRate..MaxRate
    BY <1>0, <1>1, <1>3
  <2>3. SetsOff(first, seg, w, Ramp)
    BY <2>1, <2>2, SetOff
  <2> QED BY <2>3 DEF SetsOff
<1>8. RateIn(first, first.dur) = peak /\ BiasIn(first, first.dur) = seg.bias + rise
  <2> HIDE DEF first, peak, rise
  <2> QED BY <1>7
<1> HIDE DEF first
<1>9. Smooth(up) /\ up # <<>> /\ up[1] = first /\ up[Len(up)] = first
  BY <1>7, LoneSmooth
<1> DEFINE middle == flat[Len(flat)]
           last == way[Len(way)]
<1> HIDE DEF up, peak, rise
<1>10. /\ Smooth(flat) /\ flat # <<>> /\ flat[1] = first /\ middle.dur = t
       /\ RateIn(middle, t) = peak
       /\ BiasIn(middle, t) = seg.bias + rise + 2 * (peak * t)
  <2>0. peak + 0 * t = peak /\ 0 \in {-MaxWander, 0, MaxWander}
    BY <1>3
  <2>1. RateIn(first, first.dur) + 0 * t \in -MaxRate..MaxRate
    BY <1>3, <1>8, <2>0
  <2>2. LET both == Followed(up, 0, t)
            next == both[Len(both)]
        IN  /\ Smooth(both) /\ both # <<>> /\ both[1] = up[1] /\ next.dur = t
            /\ RateIn(next, t) = RateIn(first, first.dur) + 0 * t
            /\ BiasIn(next, t) = BiasIn(first, first.dur)
                                   + 2 * RateIn(first, first.dur) * t + 0 * t * t
    BY <1>2, <1>9, <2>0, <2>1, FollowedSmooth
  <2>3. (seg.bias + rise) + 2 * peak * t + 0 * t * t = seg.bias + rise + 2 * (peak * t)
    BY <1>3, <1>4, <1>6
  <2>4. BiasIn(middle, t) = seg.bias + rise + 2 * (peak * t)
    BY <1>8, <2>2, <2>3
  <2>5. RateIn(middle, t) = peak
    BY <1>8, <2>0, <2>2
  <2> QED BY <1>9, <2>2, <2>4, <2>5
<1> HIDE DEF flat
<1>11. /\ Smooth(way) /\ way # <<>> /\ way[1] = first /\ last.dur = Ramp
       /\ RateIn(last, Ramp) = 0
       /\ BiasIn(last, Ramp) = seg.bias + D
  <2>0. peak + (-w) * Ramp = 0 /\ 0 \in -MaxRate..MaxRate
    BY <1>0, <1>1 DEF peak
  <2>1. RateIn(middle, middle.dur) + (-w) * Ramp \in -MaxRate..MaxRate
    BY <1>10, <2>0
  <2> HIDE DEF middle
  <2>2. LET both == Followed(flat, -w, Ramp)
            next == both[Len(both)]
        IN  /\ Smooth(both) /\ both # <<>> /\ both[1] = flat[1] /\ next.dur = Ramp
            /\ RateIn(next, Ramp) = RateIn(middle, middle.dur) + (-w) * Ramp
            /\ BiasIn(next, Ramp)
                 = BiasIn(middle, middle.dur)
                     + 2 * RateIn(middle, middle.dur) * Ramp + (-w) * Ramp * Ramp
    <3>1. middle = flat[Len(flat)]
      BY DEF middle
    <3>2. -w \in {-MaxWander, 0, MaxWander} /\ Smooth(flat) /\ flat # <<>>
          /\ Ramp \in Nat /\ Ramp > 0
      BY <1>0, <1>1, <1>10
    <3> QED BY <2>1, <3>1, <3>2, FollowedSmooth
  <2>3. RateIn(last, Ramp) = 0
    BY <1>10, <2>0, <2>2
  <2>4. (-w) * Ramp * Ramp = -rise
    BY <1>0, <1>1 DEF rise
  <2>5. 2 * peak * Ramp = 2 * rise
    BY <1>0, <1>3, <1>4
  <2>6. BiasIn(last, Ramp) = (seg.bias + rise + 2 * (peak * t)) + 2 * peak * Ramp
                               + (-w) * Ramp * Ramp
    BY <1>10, <2>2
  <2>7. peak * t \in Int
    BY <1>3
  <2>8. (seg.bias + rise + 2 * (peak * t)) + 2 * rise + (-rise) = seg.bias + D
    BY <1>4, <1>5, <1>6, <2>7
  <2>9. BiasIn(last, Ramp) = seg.bias + D
    BY <2>4, <2>5, <2>6, <2>8
  <2> QED BY <1>10, <2>2, <2>3, <2>9
<1> HIDE DEF way
<1>14. Ends(way, seg.bias + D)
  BY <1>11 DEF Ends
<1>15. Leads(way, seg, D)
  BY <1>7, <1>11, <1>14 DEF Leads
<1> QED
  BY <1>15 DEF way, flat, up, first, w, Ramp, Trapezoid

LEMMA ToTargetLeads ==
  ASSUME NEW seg \in Segment, seg.rate = 0, NEW D \in Int, NEW way \in ToTarget(seg, D)
  PROVE  IF D = 0 THEN way = <<>> ELSE Leads(way, seg, D)
<1>1. \A t \in Durations : t \in Nat
  BY SmearAssumption
<1>2. CASE D = 0
  BY <1>2 DEF ToTarget
<1>3. CASE D # 0 /\ Abs(D) <= 2 * RampArea
  <2>1. PICK t \in Durations : /\ 2 * MaxWander * t * t = Abs(D)
                               /\ way = Triangle(seg, t, Sign(D) * MaxWander)
    BY <1>3 DEF ToTarget
  <2> QED BY <1>1, <1>3, <2>1, TriangleLeads
<1>4. CASE D # 0 /\ ~(Abs(D) <= 2 * RampArea)
  <2>1. PICK t \in Durations : /\ 2 * MaxRate * t = Abs(D) - 2 * RampArea
                               /\ way = Trapezoid(seg, t, Sign(D) * MaxWander)
    BY <1>4 DEF ToTarget
  <2>2. RampArea \in Int /\ Abs(D) \in Int
    BY RampIsWhole, SmearAssumption, SignedDistance
  <2>3. Abs(D) > 2 * RampArea
    BY <1>4, <2>2
  <2> QED BY <1>1, <1>4, <2>1, <2>3, TrapezoidLeads
<1> QED
  BY <1>2, <1>3, <1>4

LEMMA BrakingGentle ==
  ASSUME NEW start \in Nat, NEW bias \in Int, NEW rate \in -MaxRate..MaxRate,
         Whole(rate), rate # 0
  PROVE  LET b == Braking(start, bias, rate)[1]
         IN  /\ Braking(start, bias, rate) = <<b>>
             /\ Gentle(b) /\ b.start = start /\ b.bias = bias
             /\ RateIn(b, b.dur) = 0
<1> DEFINE dur == Abs(rate) \div MaxWander
           w == -Sign(rate) * MaxWander
           seg == [start |-> start, dur |-> dur, rate |-> rate, wander |-> w,
                   bias |-> bias]
<1>0. MaxWander \in Nat \ {0} /\ MaxRate \in Nat /\ rate \in Int
  BY SmearAssumption
<1>1. PICK k \in Int : rate = k * MaxWander
  BY DEF Whole
<1>2. (rate > 0 <=> k > 0) /\ k # 0
  BY <1>0, <1>1
<1>3. dur = IF rate > 0 THEN k ELSE -k
  <2>1. \A m \in Nat \ {0}, j \in Int : (j * m) \div m = j
    OBVIOUS
  <2>2. Abs(rate) = IF rate > 0 THEN k * MaxWander ELSE (-k) * MaxWander
    BY <1>0, <1>1 DEF Abs
  <2>3. -k \in Int
    OBVIOUS
  <2> QED BY <1>0, <2>1, <2>2, <2>3
<1>4. dur \in Nat /\ dur > 0
  BY <1>0, <1>2, <1>3
<1>5. w = (IF rate > 0 THEN -MaxWander ELSE MaxWander) /\ w \in Int
  BY <1>0 DEF Sign
<1>6. seg \in Segment
  BY <1>0, <1>4, <1>5 DEF Segment
<1>7. rate + w * dur = 0
  <2>1. CASE rate > 0
    BY <1>0, <1>1, <1>3, <1>5, <2>1
  <2>2. CASE ~(rate > 0)
    BY <1>0, <1>1, <1>3, <1>5, <2>2
  <2> QED BY <2>1, <2>2
<1>8. Braking(start, bias, rate) = <<seg>>
  BY DEF Braking
<1>9. /\ seg.start = start /\ seg.dur = dur /\ seg.rate = rate /\ seg.wander = w
      /\ seg.bias = bias
  OBVIOUS
<1> HIDE DEF seg
<1>10. RateIn(seg, seg.dur) = 0
  BY <1>6, <1>7, <1>9, SegmentEnds
<1>11. Gentle(seg)
  BY <1>0, <1>4, <1>5, <1>6, <1>9, <1>10 DEF Gentle
<1>12. <<seg>>[1] = seg
  OBVIOUS
<1> QED
  BY <1>8, <1>9, <1>10, <1>11, <1>12

LEMMA ReplansAreSmooth ==
  ASSUME NEW start \in Nat, NEW bias \in Int, NEW rate \in -MaxRate..MaxRate,
         Whole(rate), NEW target \in Int, NEW p \in Replans(start, bias, rate, target)
  PROVE  LET segs == p.segments
         IN  /\ p.terminal = target /\ Smooth(segs)
             /\ segs # <<>> => /\ Ends(segs, 2 * target)
                               /\ segs[1].start = start /\ segs[1].bias = bias
             /\ segs = <<>> => rate = 0 /\ bias = 2 * target
<1> DEFINE brake == Braking(start, bias, rate)
           rest == IF brake = <<>>
                   THEN [start |-> start, dur |-> 0, rate |-> 0, wander |-> 0, bias |-> bias]
                   ELSE LET b == brake[1]
                        IN [start |-> b.start + b.dur, dur |-> 0, rate |-> 0,
                            wander |-> 0, bias |-> BiasIn(b, b.dur)]
           D == 2 * target - rest.bias
<1>0. rate \in Int
  BY SmearAssumption
<1>1. PICK way \in ToTarget(rest, D) :
         p = [segments |-> brake \o way, terminal |-> target]
  BY DEF Replans
<1>2. p.terminal = target /\ p.segments = brake \o way
  BY <1>1
<1>3. Smooth(<<>>)
  BY DEF Smooth
<1>4. CASE rate = 0
  <2>1. brake = <<>>
    BY <1>4 DEF Braking
  <2>2. rest = [start |-> start, dur |-> 0, rate |-> 0, wander |-> 0, bias |-> bias]
    BY <2>1
  <2>3. rest \in Segment /\ rest.rate = 0 /\ rest.start = start /\ rest.bias = bias
    <3> HIDE DEF brake
    <3> QED BY <2>2 DEF Segment
  <2> HIDE DEF brake, rest
  <2>4. D \in Int /\ rest.bias + D = 2 * target
    BY <2>3
  <2> HIDE DEF D
  <2>5. IF D = 0 THEN way = <<>> ELSE Leads(way, rest, D)
    BY <1>1, <2>3, <2>4, ToTargetLeads
  <2>6. CASE D = 0
    <3>1. p.segments = <<>>
      BY <1>2, <2>1, <2>5, <2>6
    <3>2. bias = 2 * target
      BY <2>3, <2>4, <2>6
    <3> QED BY <1>2, <1>3, <1>4, <3>1, <3>2
  <2>7. CASE D # 0
    <3>1. Leads(way, rest, D)
      BY <2>5, <2>7
    <3>2. p.segments = way
      BY <1>2, <2>1, <3>1 DEF Leads, Smooth
    <3> QED BY <1>2, <2>3, <2>4, <3>1, <3>2 DEF Leads
  <2> QED BY <2>6, <2>7
<1>5. CASE rate # 0
  <2> DEFINE b == brake[1]
  <2>1. brake = <<b>> /\ Gentle(b) /\ b.start = start /\ b.bias = bias /\ RateIn(b, b.dur) = 0
    BY <1>0, <1>5, BrakingGentle
  <2>2. rest = [start |-> b.start + b.dur, dur |-> 0, rate |-> 0, wander |-> 0,
                bias |-> BiasIn(b, b.dur)]
    <3>1. brake # <<>>
      <4> HIDE DEF b
      <4> QED BY <2>1
    <3> QED BY <3>1
  <2>3. b \in Segment /\ b.start + b.dur \in Nat /\ BiasIn(b, b.dur) \in Int
    <3> HIDE DEF b
    <3>1. b \in Segment
      BY <2>1 DEF Gentle
    <3>2. b.start \in Nat /\ b.dur \in Nat
      BY <3>1, SegmentWords
    <3>3. b.dur \in Int
      BY <3>2
    <3>4. BiasIn(b, b.dur) \in Int
      BY <3>1, <3>3, BiasInt
    <3> QED BY <3>1, <3>2, <3>4
  <2> HIDE DEF b, brake
  <2>4. rest \in Segment /\ rest.rate = 0 /\ rest.start = b.start + b.dur
        /\ rest.bias = BiasIn(b, b.dur)
    <3> HIDE DEF rest
    <3> QED BY <2>2, <2>3 DEF Segment
  <2> HIDE DEF rest
  <2>5. D \in Int /\ rest.bias + D = 2 * target
    BY <2>3, <2>4
  <2>6. D = 0 => 2 * target = BiasIn(b, b.dur)
    BY <2>3, <2>4
  <2> HIDE DEF D
  <2>7. IF D = 0 THEN way = <<>> ELSE Leads(way, rest, D)
    BY <1>1, <2>4, <2>5, ToTargetLeads
  <2>8. CASE D = 0
    <3>1. p.segments = <<b>>
      BY <1>2, <2>1, <2>7, <2>8
    <3>2. Smooth(<<b>>) /\ Len(<<b>>) = 1 /\ <<b>>[1] = b
      BY <2>1, LoneSmooth
    <3>3. Ends(<<b>>, 2 * target)
      BY <2>1, <2>6, <2>8, <3>2 DEF Ends
    <3>4. p.segments # <<>>
      BY <3>1
    <3> QED BY <1>2, <2>1, <3>1, <3>2, <3>3, <3>4
  <2>9. CASE D # 0
    <3>1. Leads(way, rest, D)
      BY <2>7, <2>9
    <3>2. Smooth(way) /\ way # <<>> /\ Joins(b, way[1])
      BY <2>1, <2>4, <3>1 DEF Leads, Joins
    <3> DEFINE segs == <<b>> \o way
    <3>3. Smooth(segs) /\ segs # <<>> /\ segs[Len(segs)] = way[Len(way)]
      BY <2>1, <3>2, PrefixSmooth
    <3>4. Ends(segs, 2 * target)
      <4>1. Ends(way, 2 * target)
        BY <2>5, <3>1 DEF Leads
      <4> HIDE DEF segs
      <4> QED BY <3>3, <4>1 DEF Ends
    <3>5. segs[1] = b
      BY <3>2 DEF Smooth
    <3>6. p.segments = segs
      BY <1>2, <2>1
    <3> HIDE DEF segs
    <3> QED BY <1>2, <2>1, <3>3, <3>4, <3>5, <3>6
  <2> QED BY <2>8, <2>9
<1> QED
  BY <1>4, <1>5

-----------------------------------------------------------------------------
(* Theorems about the smear.                                               *)

LEMMA PlanInit == Init => PlanInv
<1>1. NoPlan.segments = <<>>
  BY DEF NoPlan
<1>2. Smooth(<<>>)
  BY DEF Smooth
<1> QED
  BY <1>1, <1>2 DEF Init, PlanInv, Sound

(* The bias and the rate a new plan is made from.                          *)
LEMMA PlanState ==
  ASSUME NEW p \in Plan, Smooth(p.segments), NEW r \in Nat
  PROVE  DoubleBias(p, r) \in Int /\ Rate(p, r) \in -MaxRate..MaxRate /\ Whole(Rate(p, r))
<1>1. DoubleBias(p, r) \in Int
  BY PlanBiasInt
<1>2. CASE p.segments = <<>>
  <2>1. Rate(p, r) = 0 /\ 0 = 0 * MaxWander /\ 0 \in -MaxRate..MaxRate
    BY <1>2, SmearAssumption DEF Rate
  <2> QED BY <1>1, <2>1 DEF Whole
<1>3. CASE p.segments # <<>>
  <2> DEFINE seg == p.segments[Current(p, r)]
  <2>1. Current(p, r) \in 1..Len(p.segments) /\ seg \in Segment
    BY <1>3, CurrentIsPosition
  <2>2. Gentle(seg)
    BY <2>1 DEF Smooth
  <2>3. r - seg.start \in Int
    BY <2>1, SegmentWords
  <2> QED BY <1>1, <1>3, <2>2, <2>3, RateInside DEF Rate
<1> QED
  BY <1>2, <1>3

LEMMA ReplanPlans ==
  ASSUME IInv, PlanInv, ReplanSmear
  PROVE  PlanInv'
<1>1. PICK target \in Targets : made' \in Replans(counter, DoubleBias(plan, counter),
                                                  Rate(plan, counter), target)
  BY DEF ReplanSmear
<1>2. target \in Int /\ counter \in Nat /\ plan \in Plan /\ Smooth(plan.segments)
  BY PublicAssumption DEF IInv, TypeOK, PlanInv, Sound
<1>3. /\ DoubleBias(plan, counter) \in Int /\ Rate(plan, counter) \in -MaxRate..MaxRate
      /\ Whole(Rate(plan, counter))
  BY <1>2, PlanState
<1>4. LET segs == made'.segments
      IN  /\ made'.terminal = target /\ Smooth(segs)
          /\ segs # <<>> => /\ Ends(segs, 2 * target)
                            /\ segs[1].start = counter
                            /\ segs[1].bias = DoubleBias(plan, counter)
          /\ segs = <<>> => /\ Rate(plan, counter) = 0
                            /\ DoubleBias(plan, counter) = 2 * target
  BY <1>1, <1>2, <1>3, ReplansAreSmooth
<1>5. plan' = plan /\ madeAt' = counter
  BY DEF ReplanSmear, shared
<1>6. Sound(made')
  BY <1>4 DEF Sound
<1> QED
  BY <1>4, <1>5, <1>6 DEF PlanInv

LEMMA PlanKept ==
  ASSUME [Next]_vars, ~SetSmearPlan
  PROVE  plan' = plan
<1>1. ASSUME NEW p \in Readers, NowPublicAssured(p) PROVE plan' = plan
  BY <1>1 DEF NowPublicAssured, Acquire, ReadRaw, AddBias, LoadLast, Swap, Bound,
              Return, shared
<1>2. CASE EstimateStep \/ ReplanSmear
  BY <1>2 DEF EstimateStep, ReplanSmear, shared
<1>3. CASE UNCHANGED vars
  BY <1>3 DEF vars, shared
<1> QED
  BY <1>1, <1>2, <1>3 DEF Next

LEMMA MadeKept ==
  ASSUME [Next]_vars, ~SetSmearPlan, ~ReplanSmear
  PROVE  made' = made /\ madeAt' = madeAt
<1>1. ASSUME NEW p \in Readers, NowPublicAssured(p)
      PROVE  made' = made /\ madeAt' = madeAt
  BY <1>1 DEF NowPublicAssured, Acquire, ReadRaw, AddBias, LoadLast, Swap, Bound,
              Return, planner
<1>2. CASE EstimateStep
  BY <1>2 DEF EstimateStep, planner
<1>3. CASE UNCHANGED vars
  BY <1>3 DEF vars, planner
<1> QED
  BY <1>1, <1>2, <1>3 DEF Next

LEMMA PlanStep == IInv /\ PlanInv /\ [Next]_vars => PlanInv'
<1> SUFFICES ASSUME IInv, PlanInv, [Next]_vars PROVE PlanInv'
  OBVIOUS
<1>1. CASE SetSmearPlan
  BY <1>1 DEF SetSmearPlan, PlanInv
<1>2. CASE ReplanSmear
  BY <1>2, ReplanPlans
<1>3. CASE ~SetSmearPlan /\ ~ReplanSmear
  BY <1>3, PlanKept, MadeKept DEF PlanInv
<1> QED
  BY <1>1, <1>2, <1>3

(* Under one plan the bias moves no faster than the maximum rate, whether  *)
(* the reading goes forward or back.                                       *)
LEMMA BiasBetween ==
  ASSUME NEW p \in Plan, Smooth(p.segments), NEW r \in Nat, NEW q \in Nat
  PROVE  Abs(DoubleBias(p, q) - DoubleBias(p, r)) <= 2 * MaxRate * Abs(q - r)
<1> DEFINE x == DoubleBias(p, r)
           y == DoubleBias(p, q)
<1>0. MaxRate \in Nat
  BY SmearAssumption
<1>1. x \in Int /\ y \in Int
  BY PlanBiasInt
<1>2. CASE q >= r
  <2> DEFINE d == q - r
  <2>1. d \in Nat /\ r + d = q /\ Abs(q - r) = d
    BY <1>2 DEF Abs
  <2>2. DoubleBias(p, r + d) - DoubleBias(p, r) \in -(2 * MaxRate * d)..(2 * MaxRate * d)
    BY <2>1, BiasDistance
  <2>3. y - x \in -(2 * MaxRate * d)..(2 * MaxRate * d) /\ 2 * MaxRate * d \in Int
    BY <1>0, <2>1, <2>2
  <2>4. Abs(y - x) <= 2 * MaxRate * d
    <3> HIDE DEF x, y, d
    <3> QED BY <1>1, <2>3 DEF Abs
  <2> QED BY <2>1, <2>4
<1>3. CASE q < r
  <2> DEFINE d == r - q
  <2>1. d \in Nat /\ q + d = r /\ Abs(q - r) = d
    BY <1>3 DEF Abs
  <2>2. DoubleBias(p, q + d) - DoubleBias(p, q) \in -(2 * MaxRate * d)..(2 * MaxRate * d)
    BY <2>1, BiasDistance
  <2>3. x - y \in -(2 * MaxRate * d)..(2 * MaxRate * d) /\ 2 * MaxRate * d \in Int
    BY <1>0, <2>1, <2>2
  <2>4. Abs(y - x) <= 2 * MaxRate * d
    <3> HIDE DEF x, y, d
    <3> QED BY <1>1, <2>3 DEF Abs
  <2> QED BY <2>1, <2>4
<1> QED
  BY <1>2, <1>3

(* A plan made from a bias has that bias where it begins.                  *)
LEMMA PlanBegins ==
  ASSUME NEW p \in Plan, p.segments # <<>>, Smooth(p.segments)
  PROVE  DoubleBias(p, p.segments[1].start) = p.segments[1].bias
<1> DEFINE first == p.segments[1]
           r == first.start
<1>1. 1 \in 1..Len(p.segments) /\ first \in Segment
  BY DEF Plan
<1>2. r \in Nat /\ first.dur \in Nat
  BY <1>1, SegmentWords
<1>3. Current(p, r) = 1
  <2>1. r \in Int /\ r <= first.start + first.dur
    BY <1>2
  <2>2. Current(p, r) \in 1..Len(p.segments) /\ Current(p, r) <= 1
    BY <1>1, <2>1, CurrentSegment
  <2> QED BY <2>2
<1>4. r - first.start = 0
  BY <1>2
<1>5. DoubleBias(p, r) = BiasIn(first, 0)
  BY <1>3, <1>4 DEF DoubleBias
<1> QED
  BY <1>1, <1>5, SegmentEnds

(* Two plans that agree at a reading have drifted apart by at most twice   *)
(* the maximum rate at another.                                            *)
LEMMA PlansDrift ==
  ASSUME NEW p \in Plan, NEW q \in Plan, Smooth(p.segments), Smooth(q.segments),
         NEW at \in Nat, NEW r \in Nat, DoubleBias(p, at) = DoubleBias(q, at)
  PROVE  Abs(DoubleBias(q, r) - DoubleBias(p, r)) <= 4 * MaxRate * Abs(r - at)
<1> DEFINE x == DoubleBias(p, r)
           y == DoubleBias(q, r)
           z == DoubleBias(p, at)
           far == MaxRate * Abs(r - at)
<1>1. x \in Int /\ y \in Int /\ z \in Int
  BY PlanBiasInt
<1>2. MaxRate \in Nat /\ Abs(r - at) \in Nat
  BY SmearAssumption DEF Abs
<1>3. far \in Nat /\ 2 * MaxRate * Abs(r - at) = 2 * far
      /\ 4 * MaxRate * Abs(r - at) = 4 * far
  <2> DEFINE a == Abs(r - at)
  <2>1. a \in Nat
    BY <1>2
  <2> HIDE DEF a
  <2>2. MaxRate * a \in Nat /\ 2 * MaxRate * a = 2 * (MaxRate * a)
        /\ 4 * MaxRate * a = 4 * (MaxRate * a)
    BY <1>2, <2>1
  <2> QED BY <2>2 DEF a
<1>4. Abs(x - z) <= 2 * far /\ Abs(y - z) <= 2 * far
  BY <1>3, BiasBetween
<1> HIDE DEF x, y, z, far
<1>5. Abs(y - x) <= 4 * far
  BY <1>1, <1>3, <1>4 DEF Abs
<1> QED
  BY <1>3, <1>5 DEF x, y, far

(* BiasMovesGently for every maximum rate and wander, every target, every  *)
(* moment a plan is made for and every delay until it is stored: the bias  *)
(* moves no faster than the maximum rate under one plan, and a plan with   *)
(* segments that takes over shifts it by no more than the two plans can    *)
(* drift apart in the readings between (SmearPlan.EvaluateBiasAt,          *)
(* ReplanSmearFromState, SetSmearPlan).                                    *)
THEOREM SmearMovesGently == Spec => BiasMovesGently
<1> DEFINE Moved == Abs(DoubleBias(plan', counter') - DoubleBias(plan, counter))
           Gentler == IF plan' = plan
                      THEN Moved <= 2 * MaxRate * Abs(counter' - counter)
                      ELSE plan'.segments # <<>> =>
                              Moved <= 4 * MaxRate * Abs(counter - madeAt)
<1>1. IInv /\ IInv' /\ PlanInv /\ [Next]_vars => [Gentler]_<<plan, counter>>
  <2> SUFFICES ASSUME IInv, IInv', PlanInv, [Next]_vars PROVE Gentler
    OBVIOUS
  <2>0. /\ plan \in Plan /\ counter \in Nat /\ counter' \in Nat
        /\ Smooth(plan.segments)
    BY DEF IInv, TypeOK, PlanInv, Sound
  <2>1. CASE plan' = plan
    <3>1. Abs(DoubleBias(plan, counter') - DoubleBias(plan, counter))
            <= 2 * MaxRate * Abs(counter' - counter)
      BY <2>0, BiasBetween
    <3> QED BY <2>1, <3>1
  <2>2. CASE plan' # plan
    <3> SUFFICES ASSUME plan'.segments # <<>>
                 PROVE  Moved <= 4 * MaxRate * Abs(counter - madeAt)
      BY <2>2
    <3>1. SetSmearPlan
      BY <2>2, PlanKept
    <3>2. made # None /\ plan' = made /\ counter' = counter
      BY <3>1 DEF SetSmearPlan, world
    <3>3. made \in Plan /\ madeAt \in Nat
      BY <3>2 DEF IInv, TypeOK
    <3>4. /\ Smooth(made.segments) /\ made.segments # <<>>
          /\ made.segments[1].start = madeAt
          /\ made.segments[1].bias = DoubleBias(plan, madeAt)
      BY <3>2 DEF PlanInv, Sound
    <3>5. DoubleBias(plan, madeAt) = DoubleBias(made, madeAt)
      BY <3>3, <3>4, PlanBegins
    <3>6. Abs(DoubleBias(made, counter) - DoubleBias(plan, counter))
            <= 4 * MaxRate * Abs(counter - madeAt)
      BY <2>0, <3>3, <3>4, <3>5, PlansDrift
    <3> QED BY <3>2, <3>6
  <2> QED BY <2>1, <2>2
<1>2. [][Gentler]_<<plan, counter>> => BiasMovesGently
  BY PTL DEF BiasMovesGently
<1> HIDE DEF Gentler
<1> QED
  BY <1>1, <1>2, PlanInit, PlanStep, Invariance, PTL DEF Spec

(* Where its last segment ends, a sound plan is at rest on its target.     *)
LEMMA SoundEndsOnTarget ==
  ASSUME NEW p \in Plan, Sound(p), p.segments # <<>>
  PROVE  EndsOnTarget(p)
<1> DEFINE n == Len(p.segments)
           last == p.segments[n]
           end == last.start + last.dur
<1>1. /\ Smooth(p.segments) /\ Ends(p.segments, 2 * p.terminal)
      /\ p.terminal \in Int /\ p.segments \in Seq(Segment) /\ n \in Nat /\ n > 0
  BY DEF Sound, Plan
<1>2. \A i \in 1..n : /\ Gentle(p.segments[i])
                      /\ p.segments[i].start \in Nat /\ p.segments[i].dur \in Nat
  BY <1>1, SegmentWords DEF Smooth
<1>3. n \in 1..n /\ Gentle(last) /\ end \in Nat /\ last.dur > 0
  <2>1. n \in 1..n
    BY <1>1
  <2>2. Gentle(last) /\ last.start \in Nat /\ last.dur \in Nat
    BY <1>2, <2>1
  <2> HIDE DEF last
  <2> QED BY <2>1, <2>2 DEF Gentle
<1> DEFINE c == Current(p, end)
<1>4. /\ c \in 1..n
      /\ \A i \in 1..n : end <= p.segments[i].start + p.segments[i].dur =>
           /\ end <= p.segments[c].start + p.segments[c].dur
           /\ c <= i
  <2>1. end \in Int
    BY <1>3
  <2> HIDE DEF end
  <2> QED BY <1>1, <1>3, <2>1, CurrentSegment
<1>5. c = n
  <2>1. end <= p.segments[c].start + p.segments[c].dur
    BY <1>3, <1>4
  <2>2. c < n => p.segments[c].start + p.segments[c].dur <= last.start
    BY <1>1, <1>3, <1>4 DEF Smooth
  <2>3. last.start \in Nat /\ last.dur \in Nat
    BY <1>2, <1>3
  <2>4. p.segments[c].start + p.segments[c].dur \in Nat
    BY <1>2, <1>4
  <2> HIDE DEF c, last
  <2>5. ~(c < n)
    BY <1>3, <2>1, <2>2, <2>3, <2>4
  <2> QED BY <1>1, <1>4, <2>5
<1>6. end - last.start = last.dur
  BY <1>2, <1>3
<1>7. DoubleBias(p, end) = BiasIn(last, last.dur) /\ Rate(p, end) = RateIn(last, last.dur)
  BY <1>5, <1>6 DEF DoubleBias, Rate
<1>8. DoubleBias(p, end) = 2 * p.terminal /\ Rate(p, end) = 0
  BY <1>1, <1>7 DEF Ends
<1>9. \A x \in Int : Sign(2 * x) * ((Abs(2 * x) + 1) \div 2) = x
  BY DEF Sign, Abs
<1>10. EvaluateBiasAt(p, end) = p.terminal
  <2> HIDE DEF end
  <2> QED BY <1>1, <1>8, <1>9 DEF EvaluateBiasAt
<1>11. End(p) = end
  BY DEF End
<1> QED
  BY <1>8, <1>10, <1>11 DEF EndsOnTarget

(* PlansLeadToTarget for every maximum rate and wander and every target:   *)
(* a plan with segments, in force or on its way, ends at rest on its       *)
(* target whatever bias and rate it was made for, and one without is made  *)
(* only where the plan in force rests on the target (ReplanSmearFromState).*)
(* It does not say that a plan without segments shows the target: that is  *)
(* what the run of SmearReachesTarget refutes.                             *)
THEOREM SmearEndsAtRest == Spec => []PlansLeadToTarget
<1>1. IInv /\ PlanInv => PlansLeadToTarget
  <2> SUFFICES ASSUME IInv, PlanInv PROVE PlansLeadToTarget
    OBVIOUS
  <2>1. plan.segments # <<>> => EndsOnTarget(plan)
    BY SoundEndsOnTarget DEF IInv, TypeOK, PlanInv
  <2>2. made # None /\ made.segments # <<>> => EndsOnTarget(made)
    BY SoundEndsOnTarget DEF IInv, TypeOK, PlanInv
  <2> QED BY <2>1, <2>2 DEF PlansLeadToTarget, PlanInv
<1> QED
  BY <1>1, PlanInit, PlanStep, Invariance, PTL DEF Spec
=============================================================================
