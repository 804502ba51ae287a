------------------------------ MODULE Assurance ------------------------------
(***************************************************************************)
(* Package assurance: how an absolute time interval, certified at one raw  *)
(* reading, is carried to a later one, and the state machine of            *)
(* AssuranceClock.  No variables: ClockService keeps the state and applies *)
(* these operators to it, each of them a method's whole effect.            *)
(*                                                                         *)
(* True time and interval end points are on one axis, but true time is     *)
(* counted in units of 1/One, so that a rate of s units per counter tick   *)
(* is exactly representable: One plays the part of core.OneQ48.            *)
(*                                                                         *)
(* Left out: the reason codes, the fault budget and threshold an anchor    *)
(* carries for information, and the two debts, which are 0 in every state. *)
(* int64 limits are left out too: nanoseconds since 1958 stay clear of     *)
(* them for two centuries.                                                 *)
(***************************************************************************)
EXTENDS Integers

CONSTANTS One,        \* units of true time per unit of the GST axis
          MaxWidth,   \* MaxAssuranceWidthNs: an interval must be narrower
          ReadBound,  \* RawReading.ReadBound, the same for every reading
          NoAnchor

Interval == [earliest : Int, latest : Int]

Scale == [lower : Int, upper : Int]

Anchor == [raw : Nat, earliest : Int, latest : Int, scale : Scale,
           validUntil : Nat, token : Nat, gen : Nat]

ASSUME AssuranceAssumption ==
    /\ One \in Nat \ {0} /\ MaxWidth \in Nat \ {0} /\ ReadBound \in Nat
    /\ NoAnchor \notin Anchor

Statuses == {"UNANCHORED", "SYNCED", "HOLDOVER", "DESYNC"}

Anchored(ac) == ac.status \in {"SYNCED", "HOLDOVER"}

(* True time t, in units of 1/One, lies in the interval.                   *)
Contains(i, t) == One * i.earliest <= t /\ t <= One * i.latest

MulScaleFloor(s, d) == (s * d) \div One

MulScaleCeil(s, d) == (s * d + One - 1) \div One

-----------------------------------------------------------------------------
(* PropagateAnchor                                                         *)

ValidScale(s) == s.lower > 0 /\ s.lower <= s.upper

(* (Mutant: one of the two read bounds is forgotten.)                      *)
PropagatedOneBound(a, r) ==
    LET dr == r - a.raw
        drLo == IF dr > ReadBound THEN dr - ReadBound ELSE 0
    IN  [earliest |-> a.earliest + MulScaleFloor(a.scale.lower, drLo),
         latest   |-> a.latest + MulScaleCeil(a.scale.upper, dr + ReadBound)]

(* The anchor's interval at counter r: each end moves by the elapsed       *)
(* count, made shorter and longer by both read bounds, at the slowest and  *)
(* the fastest rate, rounded outwards.                                     *)
Propagated(a, r) ==
    LET dr == r - a.raw
        error == 2 * ReadBound
        drLo == IF dr > error THEN dr - error ELSE 0
    IN  [earliest |-> a.earliest + MulScaleFloor(a.scale.lower, drLo),
         latest   |-> a.latest + MulScaleCeil(a.scale.upper, dr + error)]

Width(i) == i.latest - i.earliest

(* (Mutant: the deadline is not looked at.)                                *)
PropagatesForever(a, r, token) ==
    /\ a # NoAnchor
    /\ a.raw <= r
    /\ a.token = token
    /\ ValidScale(a.scale)
    /\ Width(Propagated(a, r)) \in 0..(MaxWidth - 1)

(* PropagateAnchor returns no error.                                       *)
Propagates(a, r, token) ==
    /\ a # NoAnchor
    /\ a.raw <= r /\ r <= a.validUntil
    /\ a.token = token
    /\ ValidScale(a.scale)
    /\ Width(Propagated(a, r)) \in 0..(MaxWidth - 1)

-----------------------------------------------------------------------------
(* AssuranceClock                                                          *)

(* PastWatermark starts at -2^62: below every instant the service meets.   *)
LongAgo == -1

(* (Mutant: the generation is left at its zero value.)                     *)
NewAssuranceClockUnset ==
    [status |-> "UNANCHORED", anchor |-> NoAnchor, lastRound |-> 0,
     watermark |-> LongAgo, gen |-> 0]

NewAssuranceClock ==
    [status |-> "UNANCHORED", anchor |-> NoAnchor, lastRound |-> 0,
     watermark |-> LongAgo, gen |-> 1]

ValidHull(h) == h.earliest <= h.latest /\ Width(h) < MaxWidth

(* isAnchorMatching; leap history and configuration never change in a      *)
(* running service, so token and scale decide.                             *)
IsAnchorMatching(a, token, scale) ==
    a # NoAnchor /\ a.token = token /\ a.scale = scale

Later(x, y) == IF x >= y THEN x ELSE y

Earlier(x, y) == IF x <= y THEN x ELSE y

Intersection(i, j) ==
    [earliest |-> Later(i.earliest, j.earliest),
     latest   |-> Earlier(i.latest, j.latest)]

(* What a round with this hull would publish: the hull, narrowed by the    *)
(* old anchor's interval where that one is still good.                     *)
RoundInterval(ac, rSel, hull, scale, token) ==
    IF /\ Anchored(ac)
       /\ IsAnchorMatching(ac.anchor, token, scale)
       /\ Propagates(ac.anchor, rSel, token)
    THEN Intersection(hull, Propagated(ac.anchor, rSel))
    ELSE hull

(* TransitionToDesync                                                      *)
TransitionToDesync(ac) ==
    [status |-> "DESYNC", anchor |-> NoAnchor, lastRound |-> ac.lastRound,
     watermark |-> ac.watermark, gen |-> ac.gen + 1]

(* The hull and the old anchor cannot both be right: ErrAssuranceConflict. *)
Conflicts(i) == i.earliest > i.latest

(* (Mutant: an anchor under the generation it replaces.)                   *)
NewAnchorOldGen(ac, rSel, i, scale, token, validUntil) ==
    [raw |-> rSel, earliest |-> i.earliest, latest |-> i.latest,
     scale |-> scale, validUntil |-> validUntil, token |-> token,
     gen |-> ac.gen]

NewAnchor(ac, rSel, i, scale, token, validUntil) ==
    [raw |-> rSel, earliest |-> i.earliest, latest |-> i.latest,
     scale |-> scale, validUntil |-> validUntil, token |-> token,
     gen |-> ac.gen + 1]

(* (Mutant: the hull is believed even where the old anchor contradicts it.)*)
ProcessFullRoundTrusting(ac, rSel, hull, scale, token, validUntil) ==
    [status |-> "SYNCED",
     anchor |-> NewAnchor(ac, rSel, hull, scale, token, validUntil),
     lastRound |-> rSel,
     watermark |-> Later(hull.earliest, ac.watermark),
     gen |-> ac.gen + 1]

(* (Mutant: the watermark is taken from the upper end.)                    *)
ProcessFullRoundHighMark(ac, rSel, hull, scale, token, validUntil) ==
    LET i == RoundInterval(ac, rSel, hull, scale, token)
    IN  IF Conflicts(i)
        THEN TransitionToDesync(ac)
        ELSE [status |-> "SYNCED",
              anchor |-> NewAnchor(ac, rSel, i, scale, token, validUntil),
              lastRound |-> rSel,
              watermark |-> Later(i.latest, ac.watermark),
              gen |-> ac.gen + 1]

(* ProcessFullRound, for a hull that ValidateHull has accepted.            *)
ProcessFullRound(ac, rSel, hull, scale, token, validUntil) ==
    LET i == RoundInterval(ac, rSel, hull, scale, token)
    IN  IF Conflicts(i)
        THEN TransitionToDesync(ac)
        ELSE [status |-> "SYNCED",
              anchor |-> NewAnchor(ac, rSel, i, scale, token, validUntil),
              lastRound |-> rSel,
              watermark |-> Later(i.earliest, ac.watermark),
              gen |-> ac.gen + 1]

(* (Mutant: the limit replaces the deadline even where it is later.)       *)
ShortenedAlways(validUntil, lastRound, maxAge) == lastRound + maxAge

(* A limit counted from the last round that succeeded may shorten the      *)
(* anchor's life and never lengthens it; 0 means no limit.                 *)
Shortened(validUntil, lastRound, maxAge) ==
    IF maxAge > 0 THEN Earlier(validUntil, lastRound + maxAge) ELSE validUntil

(* BeginHoldover *)
BeginHoldover(ac, maxAge) ==
    IF ~Anchored(ac) THEN ac
    ELSE [status |-> "HOLDOVER",
          anchor |-> [ac.anchor EXCEPT !.validUntil =
                                    Shortened(@, ac.lastRound, maxAge)],
          lastRound |-> ac.lastRound,
          watermark |-> ac.watermark,
          gen |-> ac.gen + 1]

(* EvaluateAt finds the state unusable at this reading.                    *)
EvaluatesToDesync(ac, r, token) ==
    IF Anchored(ac) THEN ~Propagates(ac.anchor, r, token)
    ELSE ac.status = "DESYNC"
=============================================================================
