---------------------------- MODULE EstimateClock ----------------------------
(***************************************************************************)
(* clock.EstimateClock: an affine mapping from the raw counter to time,    *)
(* replaced by three operations: a new anchor, a change of rate or phase   *)
(* that keeps the mapping continuous and pays the phase off by slewing,    *)
(* and an explicit step.  All of them and the evaluation hold the clock's  *)
(* mutex throughout, so each is one step here.                             *)
(*                                                                         *)
(* Rates are in units of 1/One, One being core.OneQ48.  `ideal' is what    *)
(* the clock should show, in units of 1/One, if every phase correction     *)
(* took effect at once and nothing was ever rounded.                       *)
(***************************************************************************)
EXTENDS Integers

CONSTANTS One,          \* core.OneQ48
          MaxSlew,      \* planSlewRate's maxSlewQ48
          SlewSpan,     \* planSlewRate's nominal duration
          BaseRates,    \* base rates the clock may be given
          Debts,        \* phase corrections asked for
          StepSizes,    \* sizes of explicit steps
          Lags,         \* how long before its publication a round was read
          EstimateErrors, \* how far a new anchor is off true time
          Kinds,        \* kinds of event, and
          Budgets       \* bound: how often each may happen in a behaviour

ASSUME EstimateAssumption ==
    /\ One \in Nat \ {0} /\ SlewSpan \in Nat \ {0} /\ MaxSlew \in Nat
    /\ BaseRates \subseteq Int /\ \A b \in BaseRates : One + b >= 0
    /\ Debts \subseteq Int /\ StepSizes \subseteq Int
    /\ Lags \subseteq Nat /\ EstimateErrors \subseteq Int
    /\ {"tick", "rewind", "anchor", "reanchor", "step"} \subseteq Kinds
    /\ Budgets \subseteq [Kinds -> Nat]

VARIABLES
    counter,    \* the raw counter
    truth,      \* true time
    est,        \* EstimateClock.mapping
    ideal,      \* history: what est should show
    roundings,  \* history: how often est has been re-anchored since its anchor
    left        \* what is left of the budget

estVars == <<est, ideal, roundings>>

Mapping == [rawAnchor : Nat, timeAnchor : Int, baseRate : Int,
            debt : Int, slewRate : Int, slewStart : Nat]

Spend(k) == left[k] > 0 /\ left' = [left EXCEPT ![k] = @ - 1]

-----------------------------------------------------------------------------
(* The mapping                                                             *)

Clamp(x, lo, hi) == IF x < lo THEN lo ELSE IF x > hi THEN hi ELSE x

Truncated(a, b) == IF a >= 0 THEN a \div b ELSE -((-a) \div b)

planSlewRate(debt) == Clamp(Truncated(debt * One, SlewSpan), -MaxSlew, MaxSlew)

(* Phase correction applied up to counter r: at most what is owed.         *)
SlewApplied(m, r) ==
    IF m.debt = 0 \/ r <= m.slewStart
    THEN 0
    ELSE LET requested == (m.slewRate * (r - m.slewStart)) \div One
         IN IF m.debt > 0 THEN Clamp(requested, 0, m.debt)
                          ELSE Clamp(requested, m.debt, 0)

(* Before its anchor a mapping runs backwards; both products round down.   *)
BaseAdvance(m, dr) ==
    IF dr >= 0
    THEN ((One + m.baseRate) * dr) \div One
    ELSE (m.baseRate * dr) \div One + dr

Evaluate(m, r) ==
    m.timeAnchor + BaseAdvance(m, r - m.rawAnchor) + SlewApplied(m, r)

Anchored(raw, time, rate) ==
    [rawAnchor |-> raw, timeAnchor |-> time, baseRate |-> rate,
     debt |-> 0, slewRate |-> 0, slewStart |-> raw]

Owing(m, debt) == [m EXCEPT !.debt = debt, !.slewRate = planSlewRate(debt)]

(* ReanchorContinuity: what has been applied is part of the new anchor,    *)
(* the rest is carried over.  (Mutants: the whole debt is carried over;    *)
(* the anchor leaves out what has been applied.)                           *)
ReanchoredOwingAll(m, r, rate, added) ==
    Owing(Anchored(r, Evaluate(m, r), rate), m.debt + added)

ReanchoredOnBase(m, r, rate, added) ==
    Owing(Anchored(r, m.timeAnchor + BaseAdvance(m, r - m.rawAnchor), rate),
          m.debt + added)

Reanchored(m, r, rate, added) ==
    Owing(Anchored(r, Evaluate(m, r), rate),
          m.debt - SlewApplied(m, r) + added)

Stepped(m, r, step) == Anchored(r, Evaluate(m, r) + step, m.baseRate)

-----------------------------------------------------------------------------
(* The operations                                                          *)

(* NewEstimateClock: a mapping of zeros.                                   *)
EstimateInit ==
    /\ counter = 0 /\ truth = 0
    /\ est = Anchored(0, 0, 0)
    /\ ideal = 0
    /\ roundings = 0
    /\ left \in Budgets

(* InitializeAnchors, by a round (rate 0, at the reading the round was     *)
(* selected at) or by the application.                                     *)
InitializeAnchors ==
    /\ Spend("anchor")
    /\ \E lag \in Lags, e \in EstimateErrors, rate \in BaseRates :
          /\ lag <= counter
          /\ est' = Anchored(counter - lag, truth - lag + e, rate)
          /\ ideal' = One * (truth - lag + e) + (One + rate) * lag
    /\ roundings' = 0
    /\ UNCHANGED <<counter, truth>>

ReanchorContinuity ==
    /\ Spend("reanchor")
    /\ \E rate \in BaseRates, added \in Debts :
          /\ est' = Reanchored(est, counter, rate, added)
          /\ ideal' = ideal + One * added
    /\ roundings' = roundings + 1
    /\ UNCHANGED <<counter, truth>>

(* What was still owed is forgotten.                                       *)
Step ==
    /\ Spend("step")
    /\ \E s \in StepSizes :
          /\ est' = Stepped(est, counter, s)
          /\ ideal' = One * (Evaluate(est, counter) + s)
    /\ roundings' = 0
    /\ UNCHANGED <<counter, truth>>

Tick ==
    /\ Spend("tick")
    /\ counter' = counter + 1
    /\ truth' = truth + 1
    /\ ideal' = ideal + One + est.baseRate
    /\ UNCHANGED <<est, roundings>>

(* The backend goes back, true time does not.                              *)
Rewind ==
    /\ Spend("rewind")
    /\ \E d \in 1..counter :
          /\ counter' = counter - d
          /\ ideal' = ideal - d * (One + est.baseRate)
    /\ UNCHANGED <<truth, est, roundings>>

EstimateNext == InitializeAnchors \/ ReanchorContinuity \/ Step \/ Tick \/ Rewind

-----------------------------------------------------------------------------
(* Properties                                                              *)

(* Every phase correction is paid exactly once: what the clock shows, and  *)
(* what it still owes, add up to what it should show, less the rounding of *)
(* the current mapping and of each re-anchoring before it.  A correction   *)
(* asked for in the middle of another's slew must neither lose the unpaid  *)
(* part nor pay the paid part again.                                       *)
CorrectionsArePaidOnce ==
    LET owed == est.debt - SlewApplied(est, counter)
        missing == ideal - One * (Evaluate(est, counter) + owed)
    IN  missing \in 0..(One - 1) * (roundings + 1)

(* A change of rate or phase does not move the clock, wherever it meets    *)
(* the slew of an earlier one: before it began (after a rewind), half way, *)
(* or when it has ended.                                                   *)
EstimateIsContinuous ==
    [][ReanchorContinuity =>
          Evaluate(est', counter) = Evaluate(est, counter)]_<<counter, estVars>>
=============================================================================
