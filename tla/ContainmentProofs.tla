-------------------------- MODULE ContainmentProofs --------------------------
(***************************************************************************)
(* Theorems about ClockService: what readers are served holds true time,   *)
(* for any number of readers and rounds and any bounds, if hulls are       *)
(* honest and an envelope that was left never comes back.                  *)
(*                                                                         *)
(* Evidence is an interval that was right at one reading: an anchor, or    *)
(* the hull of a round.  It is live while the guard's token is its own, no *)
(* discontinuity is waiting to be read and its envelope is in force.  The  *)
(* invariant says that live evidence still holds true time after the time  *)
(* elapsed since, counted exactly; where the exact counter stood at the    *)
(* reading nobody knows, except that it was within ReadBound.              *)
(***************************************************************************)
EXTENDS ClockServiceProofs, AssuranceProofs

Honest ==
    /\ HullSlack \subseteq Nat \X Nat
    /\ \A b \in Budgets : b["external"] = 0
    /\ \A m, n \in 1..Len(Envelopes) : Envelopes[m] = Envelopes[n] => m = n

(* What evidence depends on.                                               *)
Moment == [guard |-> guard, dev |-> dev, exact |-> dev.raw + skew,
           truth |-> truth, no |-> scaleNo]

Moments == [guard : Guard, dev : Reading, exact : Int, truth : Nat,
            no : 1..Len(Envelopes)]

Pending(m) == m.guard.started /\ IsDiscontinuous(m.dev, m.guard.last)

Live(m, tok, sc) ==
    /\ tok = m.guard.token /\ ~Pending(m)
    /\ sc = Envelopes[m.no] /\ ValidScale(sc)

Known(m, tok, sc) ==
    /\ m.guard.started /\ tok <= m.guard.token
    /\ \E n \in 1..m.no : sc = Envelopes[n]

(* Nothing that happens gives life to evidence: a token is never used      *)
(* again, a discontinuity waits until it is read.                          *)
Moves(m, n) ==
    /\ m.truth <= n.truth /\ m.no <= n.no
    /\ m.guard.token <= n.guard.token
    /\ m.guard.started => n.guard.started
    /\ \A tok \in Nat, sc \in Scale :
          Known(m, tok, sc) /\ Live(n, tok, sc)
              => Live(m, tok, sc) /\ Passes(m, n, sc)

-----------------------------------------------------------------------------
(* Evidence                                                                *)

HullOf(s) == [raw |-> s.raw, token |-> s.token, scale |-> s.scale,
              earliest |-> s.hull.earliest, latest |-> s.hull.latest]

Good(m, e) ==
    /\ Known(m, e.token, e.scale)
    /\ Live(m, e.token, e.scale) => \E k \in Offsets : Holds(m, e, k)

(* The hull e is for a reading later than anchor a's.                      *)
Follows(m, a, e) ==
    a.token = e.token /\ a.scale = e.scale =>
        /\ Live(m, e.token, e.scale) =>
              \E k \in Offsets, l \in Offsets :
                  Holds(m, a, k) /\ Holds(m, e, l) /\ a.raw + k <= e.raw + l
        /\ ValidScale(e.scale) /\ a.raw <= e.raw =>
              One * Propagated(a, e.raw).earliest <= m.truth

GoodState(m, s) ==
    /\ Sound(s)
    /\ One * s.watermark <= m.truth
    /\ Anchored(s) => Good(m, s.anchor)

(* A round's hull between its selection and its transaction.               *)
GoodHull(m, s, e) ==
    /\ One * e.earliest <= m.truth
    /\ Good(m, e)
    /\ Anchored(s) => Follows(m, s.anchor, e)

Deciding == writer.op = "round" /\ writer.at \in {"read", "apply"}

WriterInv ==
    /\ left["external"] = 0 /\ writer.op # "external"
    /\ writer.op = "round" => poll.at = "writing"
    /\ guard.last.gen <= dev.gen

CInv ==
    /\ IInv
    /\ WriterInv
    /\ GoodState(Moment, ac)
    /\ GoodState(Moment, snap.assurance)
    /\ \A r \in Readers : GoodState(Moment, held[r])
    /\ poll.at = "selected" => GoodHull(Moment, ac, HullOf(poll.sel))
    /\ Deciding => GoodHull(Moment, ac, HullOf(writer.sel))
    /\ \A r \in Readers :
          rpc[r] = "read" /\ Anchored(held[r]) /\ held[r].anchor.scale = scale
              => wrong[r] = {}

-----------------------------------------------------------------------------
(* What time does to evidence.                                             *)

LEMMA AnchorIsEvidence ==
  ASSUME NEW s, Sound(s), Anchored(s)
  PROVE  s.anchor \in Anchor /\ IsEvidence(s.anchor)
<1>1. s.anchor \in Anchor
  BY DEF Sound, Coherent
<1> QED BY <1>1 DEF Anchor, IsEvidence

LEMMA MovesBack ==
  ASSUME NEW m \in Moments, NEW n \in Moments, Moves(m, n),
         NEW e, IsEvidence(e), Known(m, e.token, e.scale),
         Live(n, e.token, e.scale)
  PROVE  Live(m, e.token, e.scale) /\ Passes(m, n, e.scale)
  BY DEF Moves, IsEvidence

LEMMA KnownStays ==
  ASSUME NEW m \in Moments, NEW n \in Moments, Moves(m, n),
         NEW e, IsEvidence(e), Known(m, e.token, e.scale)
  PROVE  Known(n, e.token, e.scale)
<1>1. /\ m.no \in Nat /\ n.no \in Nat /\ m.no <= n.no
      /\ m.guard.token \in Nat /\ n.guard.token \in Nat /\ e.token \in Nat
      /\ m.guard.token <= n.guard.token /\ e.token <= m.guard.token
      /\ n.guard.started
  <2>1. m.no \in Nat /\ n.no \in Nat
    BY DEF Moments
  <2>2. m.guard.token \in Nat /\ n.guard.token \in Nat
    BY DEF Moments, Guard
  <2>3. m.no <= n.no /\ m.guard.token <= n.guard.token
    BY DEF Moves
  <2>4. e.token \in Nat /\ e.token <= m.guard.token /\ n.guard.started
    BY DEF Moves, Known, IsEvidence
  <2> QED BY <2>1, <2>2, <2>3, <2>4
<1>2. \E j \in 1..n.no : e.scale = Envelopes[j]
  BY <1>1 DEF Known
<1> QED BY <1>1, <1>2 DEF Known

LEMMA GoodStays ==
  ASSUME NEW m \in Moments, NEW n \in Moments, Moves(m, n),
         NEW e, IsEvidence(e), Good(m, e)
  PROVE  Good(n, e)
<1>1. Known(m, e.token, e.scale) /\ Known(n, e.token, e.scale)
  BY KnownStays DEF Good
<1>2. ASSUME Live(n, e.token, e.scale)
      PROVE  \E k \in Offsets : Holds(n, e, k)
  <2>1. Live(m, e.token, e.scale) /\ Passes(m, n, e.scale)
    BY <1>1, <1>2, MovesBack
  <2>2. PICK k \in Offsets : Holds(m, e, k)
    BY <2>1 DEF Good
  <2>3. IsInstant(m) /\ IsInstant(n)
    BY DEF Moments, IsInstant
  <2> QED BY <2>1, <2>2, <2>3, HoldsStays
<1> QED BY <1>1, <1>2 DEF Good

LEMMA FollowsStays ==
  ASSUME NEW m \in Moments, NEW n \in Moments, Moves(m, n),
         NEW a \in Anchor, IsEvidence(a), NEW e, IsEvidence(e),
         Known(m, e.token, e.scale), Follows(m, a, e)
  PROVE  Follows(n, a, e)
<1> SUFFICES ASSUME a.token = e.token, a.scale = e.scale
             PROVE  /\ Live(n, e.token, e.scale) =>
                          \E k \in Offsets, l \in Offsets :
                              Holds(n, a, k) /\ Holds(n, e, l)
                              /\ a.raw + k <= e.raw + l
                    /\ ValidScale(e.scale) /\ a.raw <= e.raw =>
                          One * Propagated(a, e.raw).earliest <= n.truth
  BY DEF Follows
<1>1. ASSUME Live(n, e.token, e.scale)
      PROVE  \E k \in Offsets, l \in Offsets :
                 Holds(n, a, k) /\ Holds(n, e, l) /\ a.raw + k <= e.raw + l
  <2>1. Live(m, e.token, e.scale) /\ Passes(m, n, e.scale)
    BY <1>1, MovesBack
  <2>2. PICK k \in Offsets, l \in Offsets :
            Holds(m, a, k) /\ Holds(m, e, l) /\ a.raw + k <= e.raw + l
    BY <2>1 DEF Follows
  <2>3. IsInstant(m) /\ IsInstant(n)
    BY DEF Moments, IsInstant
  <2> QED BY <2>1, <2>2, <2>3, HoldsStays
<1>2. ASSUME ValidScale(e.scale), a.raw <= e.raw
      PROVE  One * Propagated(a, e.raw).earliest <= n.truth
  <2> DEFINE p == One * Propagated(a, e.raw).earliest
  <2>1. p <= m.truth
    BY <1>2 DEF Follows
  <2>2. Propagated(a, e.raw).earliest \in Int
    BY PropagatedType DEF Interval, IsEvidence
  <2>3. p \in Int /\ m.truth \in Int /\ n.truth \in Int /\ m.truth <= n.truth
    BY <2>2, AssuranceAssumption DEF Moments, Moves
  <2> HIDE DEF p
  <2>4. p <= n.truth
    BY <2>1, <2>3
  <2> QED BY <2>4 DEF p
<1> QED BY <1>1, <1>2

LEMMA StateStays ==
  ASSUME NEW m \in Moments, NEW n \in Moments, Moves(m, n),
         NEW s, GoodState(m, s)
  PROVE  GoodState(n, s)
<1>1. One * s.watermark <= n.truth
  <2> DEFINE w == One * s.watermark
  <2>1. w \in Int /\ w <= m.truth
    BY AssuranceAssumption DEF GoodState, Sound, State
  <2> HIDE DEF w
  <2>2. w <= n.truth
    BY <2>1 DEF Moments, Moves
  <2> QED BY <2>2 DEF w
<1>2. Anchored(s) => Good(n, s.anchor)
  BY AnchorIsEvidence, GoodStays DEF GoodState
<1> QED BY <1>1, <1>2 DEF GoodState

LEMMA HullStays ==
  ASSUME NEW m \in Moments, NEW n \in Moments, Moves(m, n),
         NEW s, Sound(s), NEW e, IsEvidence(e), GoodHull(m, s, e)
  PROVE  GoodHull(n, s, e)
<1>1. One * e.earliest <= n.truth
  <2> DEFINE w == One * e.earliest
  <2>1. w \in Int /\ w <= m.truth
    BY AssuranceAssumption DEF GoodHull, IsEvidence
  <2> HIDE DEF w
  <2>2. w <= n.truth
    BY <2>1 DEF Moments, Moves
  <2> QED BY <2>2 DEF w
<1>2. Good(n, e)
  BY GoodStays DEF GoodHull
<1>3. Anchored(s) => Follows(n, s.anchor, e)
  BY AnchorIsEvidence, FollowsStays DEF GoodHull, Good
<1> QED BY <1>1, <1>2, <1>3 DEF GoodHull

-----------------------------------------------------------------------------
(* What a reading makes of evidence.                                       *)

LEMMA Contained ==
  ASSUME NEW m \in Moments, m.exact - m.dev.raw \in Offsets,
         NEW a \in Anchor, Good(m, a), Live(m, a.token, a.scale),
         a.raw <= m.dev.raw
  PROVE  /\ Propagated(a, m.dev.raw) \in Interval
         /\ Contains(Propagated(a, m.dev.raw), m.truth)
<1>1. IsEvidence(a) /\ ValidScale(a.scale) /\ m.dev.raw \in Nat
  BY DEF Anchor, IsEvidence, Live, Moments, Reading
<1>2. IsInstant(m)
  BY DEF Moments, IsInstant
<1>3. PICK k \in Offsets : Holds(m, a, k)
  BY DEF Good
<1>4. Contains(Propagated(a, m.dev.raw), m.truth)
  BY <1>1, <1>2, <1>3, Carried
<1>5. Propagated(a, m.dev.raw) \in Interval
  BY <1>1, PropagatedType
<1> QED BY <1>4, <1>5

LEMMA NoWrongAnswers ==
  ASSUME NEW i \in Interval, NEW t \in Nat, Contains(i, t)
  PROVE  WrongAnswers(i, t) = {}
<1>1. /\ One \in Nat \ {0} /\ i.earliest \in Int /\ i.latest \in Int
      /\ One * i.earliest <= t /\ t <= One * i.latest
  BY AssuranceAssumption DEF Interval, Contains
<1>2. ASSUME NEW x \in Int
      PROVE  /\ After(i, x) # (IF t > One * x THEN "no" ELSE "yes")
             /\ Before(i, x) # (IF t < One * x THEN "no" ELSE "yes")
  <2>1. /\ i.earliest > x => One * x < One * i.earliest
        /\ i.latest <= x => One * i.latest <= One * x
        /\ i.latest < x => One * i.latest < One * x
        /\ i.earliest >= x => One * x <= One * i.earliest
    BY <1>1
  <2> DEFINE a == One * x
             l == One * i.earliest
             h == One * i.latest
  <2>2. a \in Int /\ l \in Int /\ h \in Int /\ t \in Int /\ l <= t /\ t <= h
    BY <1>1
  <2>3. /\ i.earliest > x => a < l
        /\ i.latest <= x => h <= a
        /\ i.latest < x => h < a
        /\ i.earliest >= x => a <= l
    BY <2>1
  <2> HIDE DEF a, l, h
  <2>4. /\ After(i, x) # (IF t > a THEN "no" ELSE "yes")
        /\ Before(i, x) # (IF t < a THEN "no" ELSE "yes")
    BY <1>1, <2>2, <2>3 DEF After, Before
  <2> QED BY <2>4 DEF a
<1>3. ASSUME NEW b \in WrongAnswers(i, t) PROVE FALSE
  <2>1. CASE b = "Now"
    BY <1>3, <2>1 DEF WrongAnswers
  <2>2. CASE b = "After"
    BY <1>1, <1>2, <1>3, <2>2 DEF WrongAnswers
  <2>3. CASE b = "Before"
    BY <1>1, <1>2, <1>3, <2>3 DEF WrongAnswers
  <2> QED BY <1>3, <2>1, <2>2, <2>3 DEF WrongAnswers, Answers
<1> QED BY <1>3

(* The hull of a round that is selected now, and the anchors it meets.     *)
LEMMA SelectedGood ==
  ASSUME NEW m \in Moments, m.exact - m.dev.raw \in Offsets,
         ~Pending(m), m.guard.started,
         NEW e, IsEvidence(e), e.raw = m.dev.raw, e.token = m.guard.token,
         e.scale = Envelopes[m.no],
         One * e.earliest <= m.truth, m.truth <= One * e.latest,
         NEW s, GoodState(m, s)
  PROVE  GoodHull(m, s, e)
<1> DEFINE now == m.exact - m.dev.raw
<1>1. Holds(m, e, now)
  <2>1. Elapsed(m, e, now) = 0
    BY DEF Elapsed, Moments, Reading
  <2>2. /\ e.scale.lower * 0 = 0 /\ e.scale.upper * 0 = 0
        /\ One * e.earliest \in Int /\ One * e.latest \in Int
    BY AssuranceAssumption DEF IsEvidence, Scale
  <2> QED BY <2>1, <2>2 DEF Holds
<1>2. Good(m, e)
  <2>1. m.no \in Nat \ {0} /\ m.guard.token \in Nat
    BY DEF Moments, Guard
  <2>2. Known(m, e.token, e.scale)
    BY <2>1 DEF Known
  <2> QED BY <1>1, <2>2 DEF Good
<1>3. ASSUME Anchored(s), s.anchor.token = e.token, s.anchor.scale = e.scale
      PROVE  /\ Live(m, e.token, e.scale) =>
                   \E k \in Offsets, l \in Offsets :
                       Holds(m, s.anchor, k) /\ Holds(m, e, l)
                       /\ s.anchor.raw + k <= e.raw + l
             /\ ValidScale(e.scale) /\ s.anchor.raw <= e.raw =>
                   One * Propagated(s.anchor, e.raw).earliest <= m.truth
  <2> DEFINE a == s.anchor
  <2>1. a \in Anchor /\ IsEvidence(a) /\ Good(m, a)
    BY <1>3, AnchorIsEvidence DEF GoodState
  <2>2. ASSUME Live(m, e.token, e.scale)
        PROVE  \E k \in Offsets, l \in Offsets :
                   Holds(m, a, k) /\ Holds(m, e, l) /\ a.raw + k <= e.raw + l
    <3>1. PICK k \in Offsets : Holds(m, a, k)
      BY <1>3, <2>1, <2>2 DEF Good
    <3>2. a.raw + k <= e.raw + now
      <4>1. /\ m.exact \in Int /\ m.dev.raw \in Int /\ a.raw \in Int /\ k \in Int
            /\ m.exact - (a.raw + k) >= 0
        <5>1. m.exact \in Int /\ m.dev.raw \in Int
          BY DEF Moments, Reading
        <5>2. a.raw \in Int
          BY <2>1 DEF IsEvidence
        <5>3. k \in Int
          BY AssuranceAssumption DEF Offsets
        <5>4. m.exact - (a.raw + k) >= 0
          BY <3>1 DEF Holds, Elapsed
        <5> QED BY <5>1, <5>2, <5>3, <5>4
      <4> QED BY <4>1
    <3> QED BY <1>1, <3>1, <3>2
  <2>3. ASSUME ValidScale(e.scale), a.raw <= e.raw
        PROVE  One * Propagated(a, e.raw).earliest <= m.truth
    <3>1. Live(m, a.token, a.scale)
      BY <1>3, <2>3 DEF Live
    <3> QED BY <2>1, <2>3, <3>1, Contained DEF Contains
  <2> QED BY <2>2, <2>3
<1>4. Anchored(s) => Follows(m, s.anchor, e)
  BY <1>3 DEF Follows
<1> QED BY <1>2, <1>4 DEF GoodHull

-----------------------------------------------------------------------------
(* What the operations of AssuranceClock make of evidence.                 *)

(* An older anchor, propagated to the reading of a hull, holds true time   *)
(* as the hull does.                                                       *)
LEMMA PropagatedHolds ==
  ASSUME NEW m \in Moments, NEW a \in Anchor, NEW e, IsEvidence(e),
         a.scale = e.scale, ValidScale(e.scale), a.raw <= e.raw,
         NEW k \in Offsets, NEW l \in Offsets,
         Holds(m, a, k), Holds(m, e, l), a.raw + k <= e.raw + l
  PROVE  LET p == Propagated(a, e.raw)
         IN  /\ One * p.earliest + e.scale.lower * Elapsed(m, e, l) <= m.truth
             /\ m.truth <= One * p.latest + e.scale.upper * Elapsed(m, e, l)
<1> DEFINE p == Propagated(a, e.raw)
           D == (e.raw + l) - (a.raw + k)
           x == Elapsed(m, e, l)
           lo == e.scale.lower
           hi == e.scale.upper
           pl == One * p.earliest
           ph == One * p.latest
           al == One * a.earliest
           ah == One * a.latest
<1>1. /\ IsEvidence(a) /\ e.raw \in Nat
      /\ m.exact \in Int /\ m.truth \in Int /\ a.raw \in Int /\ k \in Int /\ l \in Int
      /\ -ReadBound <= k /\ k <= ReadBound /\ -ReadBound <= l /\ l <= ReadBound
      /\ ReadBound \in Nat /\ lo \in Int /\ hi \in Int
      /\ a.earliest \in Int /\ a.latest \in Int
  <2>1. IsEvidence(a)
    BY DEF Anchor, IsEvidence
  <2>2. a.raw \in Int /\ a.earliest \in Int /\ a.latest \in Int
    BY <2>1 DEF IsEvidence
  <2>3. e.raw \in Nat /\ e.scale \in Scale
    BY DEF IsEvidence
  <2>4. lo \in Int /\ hi \in Int
    BY <2>3 DEF Scale
  <2>5. m.exact \in Int /\ m.truth \in Int
    BY DEF Moments
  <2>6. ReadBound \in Nat
    BY AssuranceAssumption
  <2>7. /\ k \in Int /\ -ReadBound <= k /\ k <= ReadBound
        /\ l \in Int /\ -ReadBound <= l /\ l <= ReadBound
    BY <2>6 DEF Offsets
  <2> HIDE DEF lo, hi
  <2> QED BY <2>1, <2>2, <2>3, <2>4, <2>5, <2>6, <2>7
<1>2. /\ D \in Nat
      /\ e.raw - a.raw - 2 * ReadBound <= D /\ D <= e.raw - a.raw + 2 * ReadBound
  BY <1>1
<1>3. x \in Nat /\ Elapsed(m, a, k) = x + D
  BY <1>1 DEF Holds, Elapsed
<1>4. /\ p.earliest \in Int /\ p.latest \in Int
      /\ pl <= al + lo * D /\ ah + hi * D <= ph
  <2> HIDE DEF D
  <2> QED BY <1>1, <1>2, Outwards
<1>5. al + lo * (x + D) <= m.truth /\ m.truth <= ah + hi * (x + D)
  BY <1>3 DEF Holds
<1>6. /\ pl \in Int /\ ph \in Int /\ al \in Int /\ ah \in Int
  <2> HIDE DEF p
  <2> QED BY <1>1, <1>4, AssuranceAssumption
<1> HIDE DEF pl, ph, al, ah, lo, hi, D, x
<1>7. /\ lo * (x + D) = lo * x + lo * D /\ hi * (x + D) = hi * x + hi * D
      /\ lo * x \in Int /\ lo * D \in Int /\ hi * x \in Int /\ hi * D \in Int
  BY <1>1, <1>2, <1>3
<1>8. pl + lo * x <= m.truth /\ m.truth <= ph + hi * x
  BY <1>1, <1>4, <1>5, <1>6, <1>7
<1> QED BY <1>8 DEF pl, ph, lo, hi, x

LEMMA DesyncGood ==
  ASSUME NEW m \in Moments, NEW s, GoodState(m, s)
  PROVE  GoodState(m, TransitionToDesync(s)) /\ ~Anchored(TransitionToDesync(s))
<1>1. Sound(TransitionToDesync(s)) /\ ~Anchored(TransitionToDesync(s))
  BY DesyncStep DEF GoodState, ToDesync
<1> QED BY <1>1 DEF GoodState, TransitionToDesync

(* Evidence with another deadline.                                         *)
Same(a, b) ==
    /\ a.raw = b.raw /\ a.token = b.token /\ a.scale = b.scale
    /\ a.earliest = b.earliest /\ a.latest = b.latest

LEMMA SameEvidence ==
  ASSUME NEW m, NEW a, NEW b, Same(a, b)
  PROVE  /\ Good(m, a) => Good(m, b)
         /\ \A e : Follows(m, a, e) => Follows(m, b, e)
<1>1. \A k : Holds(m, a, k) <=> Holds(m, b, k)
  BY DEF Same, Holds, Elapsed
<1>2. \A r : Propagated(a, r) = Propagated(b, r)
  BY DEF Same, Propagated
<1>3. Good(m, a) => Good(m, b)
  BY <1>1 DEF Same, Good
<1>4. \A e : Follows(m, a, e) => Follows(m, b, e)
  BY <1>1, <1>2 DEF Same, Follows
<1> QED BY <1>3, <1>4

LEMMA HoldoverGood ==
  ASSUME NEW m \in Moments, NEW s, GoodState(m, s), NEW age \in Nat
  PROVE  /\ GoodState(m, BeginHoldover(s, age))
         /\ Anchored(BeginHoldover(s, age)) =>
               Anchored(s) /\ Same(s.anchor, BeginHoldover(s, age).anchor)
<1> DEFINE t == BeginHoldover(s, age)
<1>1. Sound(s) /\ Sound(t)
  BY HoldoverStep DEF GoodState
<1>2. CASE ~Anchored(s)
  BY <1>2 DEF BeginHoldover
<1>3. CASE Anchored(s)
  <2>1. s.anchor \in Anchor
    BY <1>1, <1>3, AnchorIsEvidence
  <2>2. /\ t.watermark = s.watermark
        /\ t.anchor = [s.anchor EXCEPT !.validUntil =
                            Shortened(@, s.lastRound, age)]
    BY <1>3 DEF BeginHoldover
  <2>3. Same(s.anchor, t.anchor)
    BY <2>1, <2>2 DEF Same, Anchor
  <2> HIDE DEF t
  <2>4. Good(m, t.anchor)
    BY <1>3, <2>3, SameEvidence DEF GoodState
  <2>5. GoodState(m, t)
    BY <1>1, <2>2, <2>4 DEF GoodState
  <2> QED BY <1>3, <2>3, <2>5 DEF t
<1> QED BY <1>2, <1>3

LEMMA RoundGood ==
  ASSUME NEW m \in Moments, NEW s, GoodState(m, s),
         NEW x \in Selection, GoodHull(m, s, HullOf(x)), NEW until \in Nat
  PROVE  GoodState(m, ProcessFullRound(s, x.raw, x.hull, x.scale, x.token, until))
<1> DEFINE e == HullOf(x)
           i == RoundInterval(s, x.raw, x.hull, x.scale, x.token)
           b == NewAnchor(s, x.raw, i, x.scale, x.token, until)
           t == ProcessFullRound(s, x.raw, x.hull, x.scale, x.token, until)
<1>1. /\ x.raw \in Nat /\ x.token \in Nat /\ x.scale \in Scale /\ x.hull \in Interval
      /\ x.hull.earliest \in Int /\ x.hull.latest \in Int
  BY DEF Selection, Interval
<1>2. /\ IsEvidence(e) /\ e.raw = x.raw /\ e.token = x.token /\ e.scale = x.scale
      /\ e.earliest = x.hull.earliest /\ e.latest = x.hull.latest
  BY <1>1 DEF IsEvidence, HullOf
<1>3. Sound(s) /\ Sound(t)
  BY <1>1, RoundStep DEF GoodState
<1>4. CASE Conflicts(i)
  <2>1. t = TransitionToDesync(s)
    BY <1>4 DEF ProcessFullRound
  <2> QED BY <2>1, DesyncGood
<1>5. CASE ~Conflicts(i)
  <2>1. t = [status |-> "SYNCED", anchor |-> b, lastRound |-> x.raw,
             watermark |-> Later(i.earliest, s.watermark), gen |-> s.gen + 1]
    BY <1>5 DEF ProcessFullRound
  <2>2. /\ b.raw = e.raw /\ b.token = e.token /\ b.scale = e.scale
        /\ b.earliest = i.earliest /\ b.latest = i.latest
    <3> HIDE DEF e, i
    <3> QED BY <1>2 DEF NewAnchor
  <2>3. /\ One * i.earliest <= m.truth
        /\ Live(m, e.token, e.scale) => \E k \in Offsets : Holds(m, b, k)
    <3>1. CASE i = x.hull
      <4>1. \A k : Holds(m, e, k) => Holds(m, b, k)
        <5> HIDE DEF e, i, b
        <5> QED BY <1>2, <2>2, <3>1 DEF Holds, Elapsed
      <4>2. One * i.earliest <= m.truth
        BY <1>2, <3>1 DEF GoodHull
      <4>3. Live(m, e.token, e.scale) => \E k \in Offsets : Holds(m, e, k)
        BY DEF GoodHull, Good
      <4> QED BY <4>1, <4>2, <4>3
    <3>2. CASE i # x.hull
      <4> DEFINE a == s.anchor
                 p == Propagated(a, e.raw)
      <4>1. /\ Anchored(s) /\ a.token = e.token /\ a.scale = e.scale
            /\ a.raw <= e.raw /\ ValidScale(e.scale)
            /\ i = Intersection(x.hull, p)
        BY <1>2, <3>2 DEF RoundInterval, IsAnchorMatching, Propagates
      <4>2. a \in Anchor /\ Follows(m, a, e)
        BY <1>3, <4>1, AnchorIsEvidence DEF GoodHull
      <4>3. p.earliest \in Int /\ p.latest \in Int
        BY <1>1, <1>2, <4>2, PropagatedType DEF Interval
      <4>4. One * p.earliest <= m.truth /\ One * e.earliest <= m.truth
        BY <4>1, <4>2 DEF Follows, GoodHull
      <4>5. /\ i.earliest = IF e.earliest >= p.earliest THEN e.earliest ELSE p.earliest
            /\ i.latest = IF e.latest <= p.latest THEN e.latest ELSE p.latest
        BY <1>2, <4>1 DEF Intersection, Later, Earlier
      <4>6. ASSUME Live(m, e.token, e.scale)
            PROVE  \E k \in Offsets : Holds(m, b, k)
        <5>1. PICK k \in Offsets, l \in Offsets :
                  Holds(m, a, k) /\ Holds(m, e, l) /\ a.raw + k <= e.raw + l
          BY <4>1, <4>2, <4>6 DEF Follows
        <5>2. /\ One * p.earliest + e.scale.lower * Elapsed(m, e, l) <= m.truth
              /\ m.truth <= One * p.latest + e.scale.upper * Elapsed(m, e, l)
          BY <1>2, <4>1, <4>2, <5>1, PropagatedHolds
        <5>3. /\ One * e.earliest + e.scale.lower * Elapsed(m, e, l) <= m.truth
              /\ m.truth <= One * e.latest + e.scale.upper * Elapsed(m, e, l)
              /\ Elapsed(m, e, l) >= 0
          BY <5>1 DEF Holds
        <5>4. Elapsed(m, b, l) = Elapsed(m, e, l)
          BY <2>2 DEF Elapsed
        <5> HIDE DEF p, e, b, i
        <5>5. Holds(m, b, l)
          BY <2>2, <4>5, <5>2, <5>3, <5>4 DEF Holds
        <5> QED BY <5>5
      <4>7. One * i.earliest <= m.truth
        <5> HIDE DEF p, e, b, i
        <5> QED BY <4>4, <4>5
      <4> QED BY <4>6, <4>7
    <3> QED BY <3>1, <3>2
  <2>4. Good(m, b)
    <3>1. Known(m, e.token, e.scale)
      BY DEF GoodHull, Good
    <3> HIDE DEF e, b
    <3> QED BY <2>2, <2>3, <3>1 DEF Good
  <2>5. One * Later(i.earliest, s.watermark) <= m.truth
    <3>1. One * s.watermark <= m.truth
      BY DEF GoodState
    <3> HIDE DEF i
    <3> QED BY <2>3, <3>1 DEF Later
  <2>6. /\ t.watermark = Later(i.earliest, s.watermark) /\ t.anchor = b
    <3> HIDE DEF i, b
    <3> QED BY <2>1
  <2> HIDE DEF t, b, i
  <2>7. GoodState(m, t)
    BY <1>3, <2>4, <2>5, <2>6 DEF GoodState
  <2> QED BY <2>7 DEF t, i
<1> QED BY <1>4, <1>5

-----------------------------------------------------------------------------
(* Every step moves from one moment to another.                            *)

LEMMA MomentType ==
  ASSUME NEW g \in Guard, NEW d \in Reading, NEW t \in Nat,
         NEW n \in 1..Len(Envelopes), NEW k \in -ReadBound..ReadBound
  PROVE  LET m == [guard |-> g, dev |-> d, exact |-> d.raw + k, truth |-> t, no |-> n]
         IN  m \in Moments /\ m.exact - m.dev.raw \in Offsets
<1>1. d.raw \in Int /\ k \in Int
  BY AssuranceAssumption DEF Reading
<1>2. d.raw + k \in Int /\ d.raw + k - d.raw = k
  BY <1>1
<1> DEFINE m == [guard |-> g, dev |-> d, exact |-> d.raw + k, truth |-> t, no |-> n]
<1>3. m \in Moments
  BY <1>2 DEF Moments
<1>4. m.exact = d.raw + k /\ m.dev.raw = d.raw
  OBVIOUS
<1> HIDE DEF m
<1>5. m.exact - m.dev.raw = k
  BY <1>1, <1>2, <1>4
<1>6. m \in Moments /\ m.exact - m.dev.raw \in Offsets
  BY <1>3, <1>5 DEF Offsets
<1> QED BY <1>6 DEF m

(* A reading of the guard, or nothing.                                     *)
LEMMA ReadMoves ==
  ASSUME TypeOK, UNCHANGED device, guard' = guard \/ guard' = GuardAfter(guard, dev)
  PROVE  Moves(Moment, Moment')
<1>1. /\ Moment.guard = guard /\ Moment.dev = dev /\ Moment.truth = truth
      /\ Moment.no = scaleNo /\ Moment.exact = dev.raw + skew
      /\ Moment'.guard = guard' /\ Moment'.dev = dev /\ Moment'.truth = truth
      /\ Moment'.no = scaleNo /\ Moment'.exact = dev.raw + skew
  BY DEF Moment, device
<1>2. guard.token \in Nat /\ truth \in Nat /\ scaleNo \in Nat
  BY DEF TypeOK, Guard
<1>3. guard.token <= guard'.token /\ (guard.started => guard'.started)
  BY <1>2 DEF GuardAfter
<1>4. ASSUME NEW tok \in Nat, NEW sc \in Scale,
             Known(Moment, tok, sc), Live(Moment', tok, sc)
      PROVE  Live(Moment, tok, sc) /\ Passes(Moment, Moment', sc)
  <2>1. Passes(Moment, Moment', sc)
    BY <1>1 DEF Passes
  <2>2. tok = guard.token
    BY <1>1, <1>2, <1>4 DEF Known, Live, GuardAfter
  <2>3. ~Pending(Moment)
    <3>1. CASE guard' = guard
      BY <1>1, <1>4, <3>1 DEF Live, Pending
    <3>2. CASE guard' = GuardAfter(guard, dev)
      <4>1. guard'.token = guard.token
        BY <1>1, <1>4, <2>2 DEF Live
      <4>2. guard'.token = IF guard.started /\ IsDiscontinuous(dev, guard.last)
                           THEN guard.token + 1 ELSE guard.token
        BY <3>2 DEF GuardAfter
      <4> QED BY <1>1, <1>2, <4>1, <4>2 DEF Pending
    <3> QED BY <3>1, <3>2
  <2> QED BY <1>1, <1>4, <2>1, <2>2, <2>3 DEF Live
<1> QED BY <1>1, <1>2, <1>3, <1>4 DEF Moves

LEMMA WorldMoves ==
  ASSUME Honest, TypeOK, guard.last.gen <= dev.gen, World
  PROVE  Moves(Moment, Moment')
<1>1. /\ Moment.guard = guard /\ Moment.dev = dev /\ Moment.truth = truth
      /\ Moment.no = scaleNo /\ Moment.exact = dev.raw + skew
      /\ Moment'.guard = guard' /\ Moment'.dev = dev' /\ Moment'.truth = truth'
      /\ Moment'.no = scaleNo' /\ Moment'.exact = dev'.raw + skew'
  BY DEF Moment
<1>2. /\ guard.token \in Nat /\ truth \in Nat /\ scaleNo \in 1..Len(Envelopes)
      /\ Len(Envelopes) \in Nat
      /\ dev \in Reading /\ skew \in Int
      /\ dev.raw \in Nat /\ dev.gen \in Nat
      /\ guard.last.raw \in Nat /\ guard.last.gen \in Nat
  BY ServiceAssumption, AssuranceAssumption DEF TypeOK, Guard, Reading
<1>3. scaleNo \in Nat
  BY <1>2
<1>4. CASE Tick
  <2>1. PICK step \in 0..(1 + 2 * ReadBound), rate \in Rates :
          /\ Unnoticed => dev.raw + step < guard.last.raw
          /\ dev' = Advanced(dev, step)
          /\ skew' = skew + 1 - step
          /\ truth' = truth + rate
    BY <1>4 DEF Tick
  <2>2. step \in Nat
    BY AssuranceAssumption
  <2>3. /\ scale.lower \in Int /\ scale.upper \in Int
        /\ rate \in Nat
        /\ ValidScale(scale) => scale.lower <= rate /\ rate <= scale.upper
    <3>1. scale.lower \in Int /\ scale.upper \in Int
      BY EnvelopeType DEF Scale
    <3> QED BY <3>1, AssuranceAssumption DEF Rates, ValidScale
  <2>4. guard' = guard /\ scaleNo' = scaleNo
    BY <1>4 DEF Tick
  <2>5. /\ dev'.raw = dev.raw + step /\ dev'.gen = dev.gen /\ dev'.token = dev.token
    BY <1>2, <2>1 DEF Advanced, Reading
  <2>6. ASSUME Pending(Moment) PROVE Pending(Moment')
    <3>1. guard.started /\ IsDiscontinuous(dev, guard.last)
      BY <1>1, <2>6 DEF Pending
    <3>2. CASE dev.token # guard.last.token \/ dev.gen # guard.last.gen
      BY <1>1, <2>4, <2>5, <3>1, <3>2 DEF Pending, IsDiscontinuous
    <3>3. CASE dev.gen = guard.last.gen /\ dev.raw < guard.last.raw
      <4>1. dev'.raw < guard.last.raw
        BY <2>1, <2>5, <3>3 DEF Unnoticed
      <4> QED BY <1>1, <2>4, <3>1, <4>1 DEF Pending, IsDiscontinuous
    <3> QED BY <3>1, <3>2, <3>3 DEF IsDiscontinuous
  <2>7. ASSUME NEW tok \in Nat, NEW sc \in Scale,
               Known(Moment, tok, sc), Live(Moment', tok, sc)
        PROVE  Live(Moment, tok, sc) /\ Passes(Moment, Moment', sc)
    <3>1. Live(Moment, tok, sc)
      BY <1>1, <2>4, <2>6, <2>7 DEF Live
    <3>2. sc = scale /\ ValidScale(scale)
      BY <1>1, <3>1 DEF Live, scale
    <3>3. dev'.raw + skew' = dev.raw + skew + 1
      <4>1. dev.raw \in Int /\ skew \in Int /\ step \in Int
        BY <1>2, <2>1
      <4>2. skew' = skew + 1 - step
        BY <2>1
      <4> QED BY <2>5, <4>1, <4>2
    <3>4. truth + scale.lower <= truth' /\ truth' <= truth + scale.upper
      <4>1. truth' = truth + rate
        BY <2>1
      <4>2. scale.lower <= rate /\ rate <= scale.upper
        BY <2>3, <3>2
      <4> DEFINE lo == scale.lower
                 hi == scale.upper
      <4>3. lo \in Int /\ hi \in Int /\ rate \in Int /\ truth \in Int
        BY <1>2, <2>3
      <4> HIDE DEF lo, hi
      <4>4. truth + lo <= truth + rate /\ truth + rate <= truth + hi
        BY <4>2, <4>3 DEF lo, hi
      <4> QED BY <4>1, <4>4 DEF lo, hi
    <3> QED BY <1>1, <3>1, <3>2, <3>3, <3>4 DEF Passes
  <2>8. truth <= truth'
    BY <1>2, <2>1, <2>3
  <2> QED BY <1>1, <1>2, <1>3, <2>4, <2>7, <2>8 DEF Moves
<1>5. CASE Rewind \/ Reset
  <2>1. guard' = guard /\ truth' = truth /\ scaleNo' = scaleNo /\ skew' = skew
    BY <1>5 DEF Rewind, Reset
  <2>2. guard.started => Pending(Moment')
    <3>1. CASE Rewind
      <4>1. PICK d \in 1..MaxRaw :
              /\ d <= dev.raw
              /\ dev.gen = guard.last.gen => dev.raw - d < guard.last.raw
              /\ dev' = Rewound(dev, d)
        BY <3>1 DEF Rewind
      <4>2. dev'.raw = dev.raw - d /\ dev'.gen = dev.gen
        BY <1>2, <4>1, ServiceAssumption DEF Rewound, Reading
      <4> QED BY <1>1, <1>2, <2>1, <4>1, <4>2 DEF Pending, IsDiscontinuous
    <3>2. CASE Reset
      <4>1. dev'.gen = dev.gen + 1
        BY <3>2 DEF Reset
      <4> QED BY <1>1, <1>2, <2>1, <4>1 DEF Pending, IsDiscontinuous
    <3> QED BY <1>5, <3>1, <3>2
  <2>3. ASSUME NEW tok \in Nat, NEW sc \in Scale,
               Known(Moment, tok, sc), Live(Moment', tok, sc)
        PROVE  FALSE
    BY <1>1, <2>2, <2>3 DEF Known, Live
  <2> QED BY <1>1, <1>2, <1>3, <2>1, <2>3 DEF Moves
<1>6. CASE ChangeScale
  <2>1. /\ guard' = guard /\ dev' = dev /\ skew' = skew /\ truth' = truth
        /\ scaleNo < Len(Envelopes) /\ scaleNo' = scaleNo + 1
    BY <1>6 DEF ChangeScale
  <2>2. ASSUME NEW tok \in Nat, NEW sc \in Scale,
               Known(Moment, tok, sc), Live(Moment', tok, sc)
        PROVE  FALSE
    <3>1. PICK n \in 1..scaleNo : sc = Envelopes[n]
      BY <1>1, <2>2 DEF Known
    <3>2. sc = Envelopes[scaleNo + 1]
      BY <1>1, <2>1, <2>2 DEF Live
    <3>3. /\ n \in 1..Len(Envelopes) /\ scaleNo + 1 \in 1..Len(Envelopes)
          /\ n # scaleNo + 1
      BY <1>2, <2>1
    <3> QED BY <3>1, <3>2, <3>3 DEF Honest
  <2> QED BY <1>1, <1>2, <1>3, <2>1, <2>2 DEF Moves
<1>7. CASE FalseAlarm
  <2>1. /\ UNCHANGED <<dev, skew, truth, scaleNo>>
        /\ guard'.token = guard.token + 1 /\ guard'.started = guard.started
    BY <1>7 DEF FalseAlarm, device
  <2>2. ASSUME NEW tok \in Nat, NEW sc \in Scale,
               Known(Moment, tok, sc), Live(Moment', tok, sc)
        PROVE  FALSE
    BY <1>1, <1>2, <2>1, <2>2 DEF Known, Live
  <2> QED BY <1>1, <1>2, <1>3, <2>1, <2>2 DEF Moves
<1> QED BY <1>4, <1>5, <1>6, <1>7 DEF World

LEMMA StepMoves ==
  ASSUME Honest, TypeOK, guard.last.gen <= dev.gen, [Next]_vars
  PROVE  Moves(Moment, Moment')
<1>1. CASE World
  BY <1>1, WorldMoves
<1>2. CASE Poll \/ UNCHANGED vars
  BY <1>2, ReadMoves DEF Poll, Select, QueryFails, ForgetFailure, ReadGuard, vars
<1>3. CASE Write
  BY <1>3, ReadMoves DEF Write, LockRound, LockExternal, LockFailure, Invalidate,
     InitializeEstimate, WriterRead, ApplyRound, ApplyExternal, ApplyFailure,
     VerifyHoldover, PublishCurrent, ReadGuard
<1>4. ASSUME NEW r \in Readers, Reads(r)
      PROVE  Moves(Moment, Moment')
  BY <1>4, ReadMoves DEF Reads, StartCommitWait, Acquire, ReadRaw, AnswerNow,
     AnswerCommitWait, CancelCommitWait, Return, ReadGuard
<1> QED BY <1>1, <1>2, <1>3, <1>4 DEF Next

-----------------------------------------------------------------------------
(* The invariant.                                                          *)

LEMMA CInvInit == Honest /\ Init => CInv
<1> SUFFICES ASSUME Honest, Init PROVE CInv
  OBVIOUS
<1>1. IInv
  BY InitIInv
<1>2. WriterInv
  <2>1. left["external"] = 0
    BY DEF Honest, Init
  <2>2. writer.op = "none" /\ guard.last.gen = 0 /\ dev.gen = 1
    BY DEF Init, Free, Stage, NewGuard, NoReading
  <2> QED BY <2>1, <2>2 DEF WriterInv
<1>3. GoodState(Moment, NewAssuranceClock)
  <2>1. Sound(NewAssuranceClock) /\ ~Anchored(NewAssuranceClock)
    BY NewIsSound DEF Anchored, NewAssuranceClock
  <2>2. Moment.truth = One /\ NewAssuranceClock.watermark = -1
    BY DEF Moment, Init, NewAssuranceClock, LongAgo
  <2>3. One * (-1) <= One
    BY AssuranceAssumption
  <2> QED BY <2>1, <2>2, <2>3 DEF GoodState
<1>4. /\ ac = NewAssuranceClock /\ snap.assurance = NewAssuranceClock
      /\ \A r \in Readers : held[r] = NewAssuranceClock /\ rpc[r] = "idle"
      /\ poll.at = "idle" /\ writer.op = "none"
  BY DEF Init, Polling, Free, Stage
<1> QED BY <1>1, <1>2, <1>3, <1>4 DEF CInv, Deciding

LEMMA HullIsEvidence ==
  ASSUME NEW x \in Selection
  PROVE  IsEvidence(HullOf(x))
  BY DEF Selection, Interval, IsEvidence, HullOf

(* What was good before a step is good after it.                           *)
LEMMA StillGood ==
  ASSUME Honest, CInv, [Next]_vars
  PROVE  /\ Moment' \in Moments
         /\ Moment'.exact - Moment'.dev.raw \in Offsets
         /\ GoodState(Moment', ac)
         /\ GoodState(Moment', snap.assurance)
         /\ \A r \in Readers : GoodState(Moment', held[r])
         /\ poll.at = "selected" => GoodHull(Moment', ac, HullOf(poll.sel))
         /\ Deciding => GoodHull(Moment', ac, HullOf(writer.sel))
<1>1. IInv /\ TypeOK /\ Sound(ac)
  BY DEF CInv, IInv, TypeOK, Sound
<1>2. TypeOK'
  BY <1>1, NextIInv DEF IInv
<1>3. Moment \in Moments
  BY <1>1, MomentType DEF TypeOK, Moment
<1>4. Moment' \in Moments /\ Moment'.exact - Moment'.dev.raw \in Offsets
  BY <1>2, MomentType DEF TypeOK, Moment
<1>5. Moves(Moment, Moment')
  BY <1>1, StepMoves DEF CInv, WriterInv
<1>6. IsEvidence(HullOf(poll.sel)) /\ IsEvidence(HullOf(writer.sel))
  BY <1>1, HullIsEvidence DEF TypeOK, Polled, Transaction
<1>7. \A s : GoodState(Moment, s) => GoodState(Moment', s)
  BY <1>3, <1>4, <1>5, StateStays
<1>8. \A e : IsEvidence(e) /\ GoodHull(Moment, ac, e) => GoodHull(Moment', ac, e)
  BY <1>1, <1>3, <1>4, <1>5, HullStays
<1>9. /\ GoodState(Moment', ac) /\ GoodState(Moment', snap.assurance)
      /\ \A r \in Readers : GoodState(Moment', held[r])
  BY <1>7 DEF CInv
<1>10. /\ poll.at = "selected" => GoodHull(Moment', ac, HullOf(poll.sel))
       /\ Deciding => GoodHull(Moment', ac, HullOf(writer.sel))
  BY <1>6, <1>8 DEF CInv
<1> QED BY <1>4, <1>9, <1>10

LEMMA AcSteps ==
  ASSUME CInv, [Next]_vars
  PROVE  \/ ac' = ac
         \/ ac' = TransitionToDesync(ac)
         \/ \E age \in Nat : ac' = BeginHoldover(ac, age)
         \/ /\ writer.op = "round" /\ writer.at = "apply"
            /\ ac' = ProcessFullRound(ac, writer.sel.raw, writer.sel.hull,
                         writer.sel.scale, writer.sel.token, writer.sel.raw + MaxAge)
<1>1. CASE ApplyRound
  BY <1>1 DEF ApplyRound
<1>2. CASE ApplyExternal
  BY <1>2 DEF ApplyExternal, CInv, WriterInv
<1>3. CASE ApplyFailure
  BY <1>3, ServiceAssumption DEF ApplyFailure
<1>4. CASE VerifyHoldover \/ Invalidate
  BY <1>4 DEF VerifyHoldover, Invalidate
<1>5. CASE World \/ Poll \/ \E r \in Readers : Reads(r)
  BY <1>5 DEF World, Tick, Rewind, Reset, ChangeScale, FalseAlarm,
     Poll, Select, QueryFails, ForgetFailure, Reads, StartCommitWait, Acquire,
     ReadRaw, AnswerNow, AnswerCommitWait, CancelCommitWait, Return, published
<1>6. CASE LockRound \/ LockExternal \/ LockFailure \/ InitializeEstimate
           \/ WriterRead \/ PublishCurrent
  BY <1>6 DEF LockRound, LockExternal, LockFailure,
     InitializeEstimate, WriterRead, PublishCurrent, published
<1>7. CASE UNCHANGED vars
  BY <1>7 DEF vars, published
<1> QED BY <1>1, <1>2, <1>3, <1>4, <1>5, <1>6, <1>7 DEF Next, Write

LEMMA AcGood ==
  ASSUME Honest, CInv, [Next]_vars
  PROVE  GoodState(Moment', ac')
<1>1. Moment' \in Moments /\ GoodState(Moment', ac)
  BY StillGood
<1>2. CASE writer.op = "round" /\ writer.at = "apply"
           /\ ac' = ProcessFullRound(ac, writer.sel.raw, writer.sel.hull,
                        writer.sel.scale, writer.sel.token, writer.sel.raw + MaxAge)
  <2>1. writer.sel \in Selection
    BY DEF CInv, IInv, TypeOK, Transaction
  <2>2. GoodHull(Moment', ac, HullOf(writer.sel))
    BY <1>2, StillGood DEF Deciding
  <2>3. writer.sel.raw + MaxAge \in Nat
    BY <2>1, ServiceAssumption DEF Selection
  <2> QED BY <1>1, <1>2, <2>1, <2>2, <2>3, RoundGood
<1> QED BY <1>1, <1>2, AcSteps, DesyncGood, HoldoverGood

(* A hull waits for its transaction while others come first: they can only *)
(* take the anchor away or shorten its life.                               *)
LEMMA HullKept ==
  ASSUME NEW m \in Moments, NEW s, GoodState(m, s), NEW e, GoodHull(m, s, e),
         NEW t, \/ t = s
                \/ t = TransitionToDesync(s)
                \/ \E age \in Nat : t = BeginHoldover(s, age)
  PROVE  GoodHull(m, t, e)
<1>1. CASE t = s
  BY <1>1
<1>2. CASE t = TransitionToDesync(s)
  BY <1>2, DesyncGood DEF GoodHull
<1>3. CASE \E age \in Nat : t = BeginHoldover(s, age)
  <2>1. Anchored(t) => Anchored(s) /\ Same(s.anchor, t.anchor)
    BY <1>3, HoldoverGood
  <2> QED BY <2>1, SameEvidence DEF GoodHull
<1> QED BY <1>1, <1>2, <1>3

(* No transaction but a round's own sees the poll waiting for it.          *)
LEMMA WriterInvStays ==
  ASSUME Honest, CInv, [Next]_vars
  PROVE  WriterInv'
<1>1. TypeOK /\ WriterInv
  BY DEF CInv, IInv
<1>2. left'["external"] = 0 /\ ~LockExternal
  <2>1. ~Spend("external")
    BY <1>1 DEF Spend, WriterInv
  <2>2. \A k \in Kinds : Spend(k) => left'["external"] = 0
    BY <1>1, <2>1 DEF Spend, WriterInv, TypeOK, Kinds
  <2>3. left' = left \/ \E k \in Kinds : Spend(k)
    <3>1. CASE World \/ Poll
      BY <3>1 DEF World, Tick, Rewind, Reset, ChangeScale, FalseAlarm, Poll,
         Select, QueryFails, ForgetFailure, Kinds
    <3>2. CASE Write
      BY <3>2 DEF Write, LockRound, LockExternal, LockFailure, Invalidate,
         InitializeEstimate, WriterRead, ApplyRound, ApplyExternal,
         ApplyFailure, VerifyHoldover, PublishCurrent, Kinds
    <3>3. CASE \E r \in Readers : Reads(r)
      BY <3>3 DEF Reads, StartCommitWait, Acquire, ReadRaw, AnswerNow,
         AnswerCommitWait, CancelCommitWait, Return, Kinds
    <3>4. CASE UNCHANGED vars
      BY <3>4 DEF vars
    <3> QED BY <3>1, <3>2, <3>3, <3>4 DEF Next
  <2> QED BY <1>1, <2>1, <2>2, <2>3 DEF WriterInv, LockExternal
<1>3. guard'.last.gen <= dev'.gen
  <2>1. dev.gen \in Nat /\ guard.last.gen \in Nat /\ dev \in Reading
    BY <1>1 DEF TypeOK, Guard, Reading
  <2>2. CASE World
    <3>1. guard'.last = guard.last
      BY <2>2 DEF World, Tick, Rewind, Reset, ChangeScale, FalseAlarm
    <3>2. dev'.gen = dev.gen \/ dev'.gen = dev.gen + 1
      BY <2>1, <2>2 DEF World, Tick, Rewind, Reset, ChangeScale, FalseAlarm,
         device, Advanced, Rewound, Reading
    <3> QED BY <1>1, <2>1, <3>1, <3>2 DEF WriterInv
  <2>3. CASE ~World
    <3>1. /\ dev' = dev
          /\ guard' = guard \/ guard' = GuardAfter(guard, dev)
      <4>1. CASE Poll \/ UNCHANGED vars
        BY <4>1 DEF Poll, Select, QueryFails, ForgetFailure, ReadGuard, vars, device
      <4>2. CASE Write
        BY <4>2 DEF Write, LockRound, LockExternal, LockFailure, Invalidate,
           InitializeEstimate, WriterRead, ApplyRound, ApplyExternal,
           ApplyFailure, VerifyHoldover, PublishCurrent, ReadGuard, device
      <4>3. CASE \E r \in Readers : Reads(r)
        BY <4>3 DEF Reads, StartCommitWait, Acquire, ReadRaw, AnswerNow,
           AnswerCommitWait, CancelCommitWait, Return, ReadGuard, device
      <4> QED BY <2>3, <4>1, <4>2, <4>3 DEF Next
    <3>2. GuardAfter(guard, dev).last = dev
      BY DEF GuardAfter
    <3> QED BY <1>1, <2>1, <3>1, <3>2 DEF WriterInv
  <2> QED BY <2>2, <2>3
<1>4. writer'.op # "external" /\ (writer'.op = "round" => poll'.at = "writing")
  <2>1. CASE World \/ Poll \/ UNCHANGED vars
    BY <1>1, <2>1 DEF WriterInv, World, Tick, Rewind, Reset, ChangeScale,
       FalseAlarm, Poll, Select, QueryFails, ForgetFailure, vars
  <2>2. CASE \E r \in Readers : Reads(r)
    BY <1>1, <2>2 DEF WriterInv, Reads, StartCommitWait, Acquire, ReadRaw,
       AnswerNow, AnswerCommitWait, CancelCommitWait, Return
  <2>3. CASE LockRound
    BY <1>1, <2>3 DEF WriterInv, LockRound, Lock, Stage, Polling
  <2>4. CASE LockFailure \/ Invalidate \/ InitializeEstimate
    BY <1>1, <2>4 DEF WriterInv, LockFailure, Invalidate, InitializeEstimate,
       Lock, Stage
  <2>5. CASE WriterRead \/ ApplyRound \/ ApplyFailure \/ VerifyHoldover
    <3>1. writer'.op = writer.op /\ poll' = poll
      BY <2>5 DEF WriterRead, ApplyRound, ApplyFailure, VerifyHoldover, Then, Stage
    <3> QED BY <1>1, <3>1 DEF WriterInv
  <2>6. CASE ApplyExternal
    BY <1>1, <2>6 DEF WriterInv, ApplyExternal
  <2>7. CASE PublishCurrent
    BY <2>7 DEF PublishCurrent, Free, Stage
  <2> QED BY <1>2, <2>1, <2>2, <2>3, <2>4, <2>5, <2>6, <2>7 DEF Next, Write
<1> QED BY <1>2, <1>3, <1>4 DEF WriterInv

(* Readers hold what was published, and that is the writer's state.        *)
LEMMA HeldGood ==
  ASSUME Honest, CInv, [Next]_vars
  PROVE  /\ GoodState(Moment', snap'.assurance)
         /\ \A r \in Readers : GoodState(Moment', held'[r])
<1>1. /\ GoodState(Moment', ac') /\ GoodState(Moment', snap.assurance)
      /\ \A r \in Readers : GoodState(Moment', held[r])
  BY AcGood, StillGood
<1>2. GoodState(Moment', snap'.assurance)
  BY <1>1, SnapMoves DEF SnapshotMoves
<1>3. GoodState(Moment', NewAssuranceClock)
  <2>1. Sound(NewAssuranceClock) /\ ~Anchored(NewAssuranceClock)
    BY NewIsSound DEF Anchored, NewAssuranceClock
  <2>2. Moment'.truth \in Nat /\ NewAssuranceClock.watermark = -1
    BY StillGood DEF Moments, NewAssuranceClock, LongAgo
  <2>3. One * (-1) <= Moment'.truth
    BY <2>2, AssuranceAssumption
  <2> QED BY <2>1, <2>2, <2>3 DEF GoodState
<1>4. held \in [Readers -> State]
  BY DEF CInv, IInv, TypeOK
<1>5. \/ held' = held
      \/ \E r \in Readers :
            held' = [held EXCEPT ![r] = snap.assurance]
            \/ held' = [held EXCEPT ![r] = NewAssuranceClock]
  <2>1. CASE World \/ Poll \/ UNCHANGED vars
    BY <2>1 DEF World, Tick, Rewind, Reset, ChangeScale, FalseAlarm, Poll,
       Select, QueryFails, ForgetFailure, vars, readers
  <2>2. CASE Write
    BY <2>2 DEF Write, LockRound, LockExternal, LockFailure, Invalidate,
       InitializeEstimate, WriterRead, ApplyRound, ApplyExternal, ApplyFailure,
       VerifyHoldover, PublishCurrent, readers
  <2>3. CASE \E r \in Readers : Reads(r)
    BY <2>3 DEF Reads, StartCommitWait, Acquire, ReadRaw, AnswerNow,
       AnswerCommitWait, CancelCommitWait, Return
  <2> QED BY <2>1, <2>2, <2>3 DEF Next
<1>6. \A r \in Readers : held'[r] \in {held[r], snap.assurance, NewAssuranceClock}
  BY <1>4, <1>5
<1> QED BY <1>1, <1>2, <1>3, <1>6

LEMMA HonestHull ==
  ASSUME Honest, TypeOK, NEW h \in Hulls
  PROVE  One * h.earliest <= truth /\ truth <= One * h.latest
<1>1. PICK x \in HullSlack :
        h = [earliest |-> truth \div One - x[1],
             latest |-> (truth + One - 1) \div One + x[2]]
  BY DEF Hulls
<1>2. /\ x[1] \in Nat /\ x[2] \in Nat /\ truth \in Nat /\ One \in Nat \ {0}
  BY AssuranceAssumption DEF Honest, TypeOK
<1> DEFINE l == truth \div One
           u == (truth + One - 1) \div One
           ol == One * l
           ou == One * u
<1>3. /\ l \in Int /\ u \in Int /\ ol <= truth /\ truth + One - 1 < ou + One
  <2>1. truth \in Int /\ truth + One - 1 \in Int
    BY <1>2
  <2> QED BY <2>1, Quotient
<1>4. h.earliest = l - x[1] /\ h.latest = u + x[2]
  BY <1>1
<1> HIDE DEF l, u
<1>5. ol \in Int /\ ou \in Int
  BY <1>2, <1>3
<1>6. /\ One * (l - x[1]) = ol - One * x[1] /\ One * (u + x[2]) = ou + One * x[2]
      /\ One * x[1] \in Nat /\ One * x[2] \in Nat
  BY <1>2, <1>3
<1> HIDE DEF ol, ou
<1>7. truth <= ou
  BY <1>2, <1>3, <1>5
<1>8. ol - One * x[1] <= truth /\ truth <= ou + One * x[2]
  BY <1>2, <1>3, <1>5, <1>6, <1>7
<1> QED BY <1>4, <1>6, <1>8

(* A selected hull is about the reading of its own selection, later than   *)
(* the reading of any anchor.                                              *)
LEMMA SelectGood ==
  ASSUME Honest, CInv, [Next]_vars, Select
  PROVE  GoodHull(Moment', ac', HullOf(poll'.sel))
<1>1. TypeOK
  BY DEF CInv, IInv
<1>2. /\ Moment' \in Moments /\ Moment'.exact - Moment'.dev.raw \in Offsets
      /\ GoodState(Moment', ac)
  BY StillGood
<1>3. PICK h \in Hulls :
          poll' = [at |-> "selected",
                   sel |-> [raw |-> Answer.raw, token |-> Answer.token,
                            gen |-> Answer.gen, scale |-> scale, hull |-> h]]
  BY DEF Select
<1>4. /\ guard' = GuardAfter(guard, dev) /\ dev' = dev /\ truth' = truth
      /\ scaleNo' = scaleNo /\ ac' = ac
  BY DEF Select, ReadGuard, device, published
<1>5. /\ Moment'.guard = GuardAfter(guard, dev) /\ Moment'.dev = dev
      /\ Moment'.truth = truth /\ Moment'.no = scaleNo
  BY <1>4 DEF Moment
<1> DEFINE e == HullOf(poll'.sel)
<1>6. /\ e.raw = dev.raw /\ e.token = GuardAfter(guard, dev).token
      /\ e.scale = Envelopes[scaleNo]
      /\ e.earliest = h.earliest /\ e.latest = h.latest
  BY <1>3 DEF HullOf, Answer, GuardAnswer, scale
<1>7. IsEvidence(e)
  <2>1. Answer \in Reading /\ scale \in Scale /\ h \in Interval
    BY <1>1, GuardStep, EnvelopeType, HullType
  <2>2. poll'.sel \in Selection
    BY <1>3, <2>1 DEF Selection, Reading
  <2> QED BY <2>2, HullIsEvidence
<1>8. Moment'.guard.started /\ ~Pending(Moment')
  <2>1. dev.raw \in Nat
    BY <1>1 DEF TypeOK, Reading
  <2>2. GuardAfter(guard, dev).started /\ GuardAfter(guard, dev).last = dev
    BY DEF GuardAfter
  <2> QED BY <1>5, <2>1, <2>2 DEF Pending, IsDiscontinuous
<1>9. One * e.earliest <= truth /\ truth <= One * e.latest
  <2> HIDE DEF e
  <2> QED BY <1>1, <1>6, HonestHull
<1> HIDE DEF e
<1>10. /\ e.raw = Moment'.dev.raw /\ e.token = Moment'.guard.token
       /\ e.scale = Envelopes[Moment'.no]
       /\ One * e.earliest <= Moment'.truth /\ Moment'.truth <= One * e.latest
  BY <1>5, <1>6, <1>9
<1>11. GoodHull(Moment', ac, e)
  BY <1>2, <1>7, <1>8, <1>10, SelectedGood
<1> QED BY <1>4, <1>11 DEF e

LEMMA HullsGood ==
  ASSUME Honest, CInv, [Next]_vars
  PROVE  /\ poll'.at = "selected" => GoodHull(Moment', ac', HullOf(poll'.sel))
         /\ Deciding' => GoodHull(Moment', ac', HullOf(writer'.sel))
<1>1. /\ Moment' \in Moments /\ GoodState(Moment', ac)
      /\ poll.at = "selected" => GoodHull(Moment', ac, HullOf(poll.sel))
      /\ Deciding => GoodHull(Moment', ac, HullOf(writer.sel))
  BY StillGood
<1>2. ASSUME poll'.at = "selected"
      PROVE  GoodHull(Moment', ac', HullOf(poll'.sel))
  <2>1. Select \/ poll' = poll
    <3>1. CASE World \/ Poll \/ UNCHANGED vars
      BY <1>2, <3>1 DEF World, Tick, Rewind, Reset, ChangeScale, FalseAlarm,
         Poll, QueryFails, ForgetFailure, Polling, vars
    <3>2. CASE Write
      BY <1>2, <3>2 DEF Write, LockRound, LockExternal, LockFailure, Invalidate,
         InitializeEstimate, WriterRead, ApplyRound, ApplyExternal,
         ApplyFailure, VerifyHoldover, PublishCurrent, Polling
    <3>3. CASE \E r \in Readers : Reads(r)
      BY <3>3 DEF Reads, StartCommitWait, Acquire, ReadRaw, AnswerNow,
         AnswerCommitWait, CancelCommitWait, Return
    <3> QED BY <3>1, <3>2, <3>3 DEF Next
  <2>2. CASE ~Select
    <3>1. poll' = poll /\ GoodHull(Moment', ac, HullOf(poll.sel))
      BY <1>1, <1>2, <2>1, <2>2
    <3>2. writer.op # "round"
      BY <1>2, <3>1 DEF CInv, WriterInv
    <3> QED BY <1>1, <3>1, <3>2, AcSteps, HullKept
  <2> QED BY <2>2, SelectGood
<1>3. ASSUME Deciding'
      PROVE  GoodHull(Moment', ac', HullOf(writer'.sel))
  <2>1. /\ ac' = ac
        /\ \/ Deciding /\ writer'.sel = writer.sel
           \/ poll.at = "selected" /\ writer'.sel = poll.sel
    <3>1. CASE World \/ Poll \/ UNCHANGED vars
      BY <1>3, <3>1 DEF Deciding, World, Tick, Rewind, Reset, ChangeScale,
         FalseAlarm, Poll, Select, QueryFails, ForgetFailure, vars, published
    <3>2. CASE \E r \in Readers : Reads(r)
      BY <1>3, <3>2 DEF Deciding, Reads, StartCommitWait, Acquire, ReadRaw,
         AnswerNow, AnswerCommitWait, CancelCommitWait, Return, published
    <3>3. CASE LockRound
      BY <1>3, <3>3 DEF Deciding, LockRound, Lock, Stage, published
    <3>4. CASE LockExternal \/ LockFailure \/ Invalidate \/ InitializeEstimate
      BY <1>3, <3>4 DEF Deciding, LockExternal, LockFailure, Invalidate,
         InitializeEstimate, Lock, Stage, published
    <3>5. CASE WriterRead
      BY <1>3, <3>5 DEF Deciding, WriterRead, Stage, published
    <3>6. CASE ApplyRound \/ ApplyExternal \/ ApplyFailure \/ VerifyHoldover
      BY <1>3, <3>6 DEF Deciding, ApplyRound, ApplyExternal, ApplyFailure,
         VerifyHoldover, Then, Stage
    <3>7. CASE PublishCurrent
      BY <1>3, <3>7 DEF Deciding, PublishCurrent, Free, Stage
    <3> QED BY <3>1, <3>2, <3>3, <3>4, <3>5, <3>6, <3>7 DEF Next, Write
  <2> QED BY <1>1, <2>1
<1> QED BY <1>2, <1>3

(* A reader that has taken its reading answers nothing wrong, unless the   *)
(* envelope it is about to look at is not the anchor's.                    *)
AnswersWell(r) ==
    rpc[r] = "read" /\ Anchored(held[r]) /\ held[r].anchor.scale = scale
        => wrong[r] = {}

LEMMA ReadingIsRight ==
  ASSUME Honest, CInv, [Next]_vars, NEW r \in Readers, ReadRaw(r)
  PROVE  AnswersWell(r)'
<1>1. TypeOK
  BY DEF CInv, IInv
<1>2. /\ held' = held /\ guard' = GuardAfter(guard, dev) /\ dev' = dev
      /\ truth' = truth /\ scaleNo' = scaleNo /\ scale' = scale
  BY DEF ReadRaw, ReadGuard, device, scale
<1>3. wrong'[r] = IF /\ Anchored(held[r])
                     /\ Propagates(held[r].anchor, Answer.raw, Answer.token)
                  THEN WrongAnswers(Propagated(held[r].anchor, Answer.raw), truth)
                  ELSE {}
  BY <1>1 DEF ReadRaw, TypeOK
<1> DEFINE a == held[r].anchor
<1>4. ASSUME Anchored(held[r]), a.scale = scale,
             Propagates(a, Answer.raw, Answer.token)
      PROVE  WrongAnswers(Propagated(a, Answer.raw), truth) = {}
  <2>1. /\ Moment'.guard = GuardAfter(guard, dev) /\ Moment'.dev = dev
        /\ Moment'.truth = truth /\ Moment'.no = scaleNo
    BY <1>2 DEF Moment
  <2>2. /\ Moment' \in Moments /\ Moment'.exact - Moment'.dev.raw \in Offsets
        /\ GoodState(Moment', held[r])
    BY StillGood
  <2>3. a \in Anchor /\ Good(Moment', a)
    BY <1>4, <2>2, AnchorIsEvidence DEF GoodState
  <2>4. Answer.raw = dev.raw /\ Answer.token = GuardAfter(guard, dev).token
    BY DEF Answer, GuardAnswer
  <2>5. ~Pending(Moment')
    <3>1. dev.raw \in Nat
      BY <1>1 DEF TypeOK, Reading
    <3>2. GuardAfter(guard, dev).last = dev
      BY DEF GuardAfter
    <3> QED BY <2>1, <3>1, <3>2 DEF Pending, IsDiscontinuous
  <2>6. a.raw <= dev.raw /\ a.token = Answer.token /\ ValidScale(a.scale)
    BY <1>4, <2>4 DEF Propagates
  <2>7. Live(Moment', a.token, a.scale)
    BY <1>4, <2>1, <2>4, <2>5, <2>6 DEF Live, scale
  <2> HIDE DEF a
  <2>8. /\ Propagated(a, dev.raw) \in Interval
        /\ Contains(Propagated(a, dev.raw), truth)
    BY <2>1, <2>2, <2>3, <2>6, <2>7, Contained
  <2>9. truth \in Nat
    BY <1>1 DEF TypeOK
  <2> QED BY <2>4, <2>8, <2>9, NoWrongAnswers
<1> QED BY <1>2, <1>3, <1>4 DEF AnswersWell

LEMMA AnswersStayRight ==
  ASSUME Honest, CInv, [Next]_vars
  PROVE  \A r \in Readers : AnswersWell(r)'
<1>1. TypeOK /\ \A r \in Readers : AnswersWell(r)
  BY DEF CInv, IInv, AnswersWell
<1> SUFFICES ASSUME NEW r \in Readers PROVE AnswersWell(r)'
  OBVIOUS
<1>2. CASE ChangeScale
  <2>1. /\ held' = held /\ scaleNo < Len(Envelopes) /\ scaleNo' = scaleNo + 1
    BY <1>2 DEF ChangeScale, readers
  <2>2. ASSUME Anchored(held[r]), held[r].anchor.scale = scale'
        PROVE  FALSE
    <3>1. Known(Moment, held[r].anchor.token, held[r].anchor.scale)
      BY <2>2 DEF CInv, GoodState, Good
    <3>2. Moment.no = scaleNo
      BY DEF Moment
    <3>3. PICK n \in 1..scaleNo : held[r].anchor.scale = Envelopes[n]
      BY <3>1, <3>2 DEF Known
    <3>4. scale' = Envelopes[scaleNo + 1]
      BY <2>1 DEF scale
    <3>5. scaleNo \in 1..Len(Envelopes) /\ Len(Envelopes) \in Nat
      BY <1>1, ServiceAssumption DEF TypeOK
    <3>6. /\ n \in 1..Len(Envelopes) /\ scaleNo + 1 \in 1..Len(Envelopes)
          /\ n # scaleNo + 1
      BY <2>1, <3>5
    <3> QED BY <2>2, <3>3, <3>4, <3>6 DEF Honest
  <2> QED BY <2>1, <2>2 DEF AnswersWell
<1>3. CASE Tick \/ Rewind \/ Reset \/ FalseAlarm \/ Poll \/ Write \/ UNCHANGED vars
  <2>1. UNCHANGED <<rpc, held, wrong, scaleNo>>
    <3>1. CASE Tick \/ Rewind \/ Reset \/ FalseAlarm \/ Poll \/ UNCHANGED vars
      BY <3>1 DEF Tick, Rewind, Reset, FalseAlarm, Poll, Select, QueryFails,
         ForgetFailure, vars, device, readers
    <3>2. CASE Write
      BY <3>2 DEF Write, LockRound, LockExternal, LockFailure, Invalidate,
         InitializeEstimate, WriterRead, ApplyRound, ApplyExternal,
         ApplyFailure, VerifyHoldover, PublishCurrent, device, readers
    <3> QED BY <1>3, <3>1, <3>2
  <2>2. AnswersWell(r)
    BY <1>1
  <2> QED BY <2>1, <2>2 DEF AnswersWell, scale
<1>4. ASSUME NEW p \in Readers, Reads(p)
      PROVE  AnswersWell(r)'
  <2>1. scaleNo' = scaleNo /\ scale' = scale
    BY <1>4 DEF Reads, StartCommitWait, Acquire, ReadRaw, AnswerNow,
       AnswerCommitWait, CancelCommitWait, Return, device, scale
  <2>2. CASE ReadRaw(p) /\ r = p
    BY <2>2, ReadingIsRight
  <2>3. CASE ReadRaw(p) /\ r # p
    <3>1. rpc'[r] = rpc[r] /\ held' = held /\ wrong'[r] = wrong[r]
      BY <1>1, <2>3 DEF ReadRaw, TypeOK
    <3> QED BY <1>1, <2>1, <3>1 DEF AnswersWell
  <2>4. CASE Acquire(p) \/ AnswerNow(p) \/ AnswerCommitWait(p)
    <3>1. CASE r = p
      <4>1. rpc'[r] # "read"
        BY <1>1, <2>4, <3>1 DEF Acquire, AnswerNow, AnswerCommitWait, Return, TypeOK
      <4> QED BY <4>1 DEF AnswersWell
    <3>2. CASE r # p
      <4>1. rpc'[r] = rpc[r] /\ held'[r] = held[r] /\ wrong'[r] = wrong[r]
        BY <1>1, <2>4, <3>2 DEF Acquire, AnswerNow, AnswerCommitWait, Return, TypeOK
      <4> QED BY <1>1, <2>1, <4>1 DEF AnswersWell
    <3> QED BY <3>1, <3>2
  <2>5. CASE StartCommitWait(p) \/ CancelCommitWait(p)
    <3>1. UNCHANGED <<rpc, held, wrong>>
      BY <2>5 DEF StartCommitWait, CancelCommitWait
    <3> QED BY <1>1, <2>1, <3>1 DEF AnswersWell
  <2> QED BY <1>4, <2>2, <2>3, <2>4, <2>5 DEF Reads
<1> QED BY <1>2, <1>3, <1>4 DEF Next, World

LEMMA CInvNext == Honest /\ CInv /\ [Next]_vars => CInv'
<1> SUFFICES ASSUME Honest, CInv, [Next]_vars PROVE CInv'
  OBVIOUS
<1>1. IInv' /\ WriterInv'
  BY NextIInv, WriterInvStays DEF CInv
<1>2. /\ GoodState(Moment', ac') /\ GoodState(Moment', snap'.assurance)
      /\ \A r \in Readers : GoodState(Moment', held'[r])
  BY AcGood, HeldGood
<1>3. /\ poll'.at = "selected" => GoodHull(Moment', ac', HullOf(poll'.sel))
      /\ Deciding' => GoodHull(Moment', ac', HullOf(writer'.sel))
  BY HullsGood
<1>4. \A r \in Readers :
          rpc'[r] = "read" /\ Anchored(held'[r]) /\ held'[r].anchor.scale = scale'
              => wrong'[r] = {}
  BY AnswersStayRight DEF AnswersWell
<1> QED BY <1>1, <1>2, <1>3, <1>4 DEF CInv

LEMMA SpecCInv == ASSUME Honest PROVE Spec => []CInv
<1>1. Init => CInv
  BY CInvInit
<1>2. CInv /\ [Next]_vars => CInv'
  BY CInvNext
<1> QED BY <1>1, <1>2, PTL DEF Spec

-----------------------------------------------------------------------------
(* The theorems.                                                           *)

(* What Now serves holds the true time of its reading (propagateSnapshot,  *)
(* PropagateAnchor), for any number of readers, rounds, failures, resets   *)
(* and envelopes, if the hulls of rounds hold true time, no caller brings  *)
(* a round of its own and an envelope that was left never comes back.      *)
THEOREM ServedIntervalHoldsTruth ==
  ASSUME Honest
  PROVE  Spec => []IntervalHoldsTruth
<1>1. CInv => IntervalHoldsTruth
  BY DEF CInv, IntervalHoldsTruth, ServesReader, Serves
<1> QED BY <1>1, SpecCInv, PTL

(* Under the same conditions After and Before never certify what is false, *)
(* not even for an end point of the interval.                              *)
THEOREM CertainMeansCertain ==
  ASSUME Honest
  PROVE  Spec => []DecisionsAreCertain
<1>1. CInv => DecisionsAreCertain
  BY DEF CInv, DecisionsAreCertain, ServesReader, Serves
<1> QED BY <1>1, SpecCInv, PTL

(* Under the same conditions the watermark CommitWait compares with is     *)
(* never ahead of true time, whatever happened to the anchors it came from *)
(* (ProcessFullRound raises it, nothing lowers it).                        *)
THEOREM WatermarkNeverAhead ==
  ASSUME Honest
  PROVE  Spec => []WatermarkIsPast
<1>1. CInv => WatermarkIsPast
  BY DEF CInv, GoodState, Moment, WatermarkIsPast
<1> QED BY <1>1, SpecCInv, PTL
=============================================================================
