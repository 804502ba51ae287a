--------------------------- MODULE SyncRoundProofs ---------------------------
(***************************************************************************)
(* Theorems about SyncRound: what one round of PollOnce hands on, for any  *)
(* number of sources, domains, answers, lies and changes of the clock.     *)
(*                                                                         *)
(* What a source said is evidence, as in AssuranceProofs: an interval that *)
(* was right at one reading.  It is fresh while the guard's token is the   *)
(* round's, no discontinuity is waiting to be read and the round's         *)
(* envelope is in force.  The invariant says that fresh evidence of an     *)
(* honest domain still holds true time after the time elapsed since; when  *)
(* the round has its last reading, that the interval carried to it does,   *)
(* unless the reading's token or the envelope has changed.  The latter     *)
(* needs the hypothesis that an envelope that was left never comes back:   *)
(* the round compares envelopes, and cannot see one that was away.         *)
(***************************************************************************)
EXTENDS SyncRound, AssuranceProofs

NoEnvelopeReturns ==
    \A m, n \in 1..Len(Envelopes) : Envelopes[m] = Envelopes[n] => m = n

(* What the votes of a round with an outcome were, and what became of them.*)
Decided ==
    LET I == outcome.intervals
        c == CoverageComponents(I, FaultBudget)
    IN  /\ Voted(I)
        /\ Cardinality(DOMAIN I) >= 2 * FaultBudget + 1
        /\ IF c = <<>> THEN outcome.why = "empty"
           ELSE outcome.why = "hull" /\ outcome.hull = Hull(c)

IInv ==
    /\ TypeOK
    /\ guard.token > 0
    /\ Cardinality(faulty) <= FaultBudget
    /\ outcome.why \in {"hull", "empty"} => Decided

-----------------------------------------------------------------------------

Pending == guard.started /\ IsDiscontinuous(dev, guard.last)

Fresh == /\ guard.token = start.token /\ ~Pending
         /\ scale = envelope /\ ValidScale(envelope)

Now == [exact |-> dev.raw + skew, truth |-> truth]

(* The sources that answered and do not lie.                               *)
Witnesses == {s \in Sources : samples[s] # NoSample /\ DomainOf[s] \notin faulty}

Evidence(s) ==
    [raw |-> samples[s].mid, token |-> start.token, scale |-> envelope,
     earliest |-> samples[s].earliest, latest |-> samples[s].latest]

Unchanged == /\ reading.token = start.token
             /\ scale = envelope /\ ValidScale(envelope)

(* While queries are out, and from the last reading on.                    *)
Querying ==
    at = "query" /\ Fresh =>
        \A s \in Witnesses : \E k \in Offsets : Holds(Now, Evidence(s), k)

Concluding ==
    at = "conclude" /\ Unchanged =>
        \A s \in Witnesses : samples[s].mid <= reading.raw =>
            Contains(Propagated(Evidence(s), reading.raw), readTruth)

TInv ==
    /\ IInv
    /\ guard.last.gen <= dev.gen
    /\ at \in {"idle", "scale"} => samples = NoSamples
    /\ at # "idle" => /\ guard.started /\ start.token <= guard.token
                      /\ outcome.why = "none"
    /\ Querying
    /\ Concluding
    /\ outcome.why # "empty"
    /\ HullHoldsTruth

-----------------------------------------------------------------------------
(* The votes of a round.                                                   *)

LEMMA GuardReads ==
  ASSUME NEW g \in Guard, NEW r \in Reading, g.token > 0
  PROVE  /\ GuardAfter(g, r) \in Guard /\ GuardAnswer(g, r) \in Reading
         /\ GuardAfter(g, r).token > 0
         /\ GuardAnswer(g, r).token = GuardAfter(g, r).token
         /\ GuardAnswer(g, r).raw = r.raw
         /\ g.token <= GuardAfter(g, r).token
<1>1. g.token \in Nat /\ r.raw \in Nat /\ r.gen \in Nat
  BY DEF Guard, Reading
<1> DEFINE t == IF g.started /\ IsDiscontinuous(r, g.last) THEN g.token + 1 ELSE g.token
<1>2. t \in Nat /\ t > 0 /\ g.token <= t
  BY <1>1
<1>3. GuardAfter(g, r) = [token |-> t, started |-> TRUE, last |-> r]
  BY DEF GuardAfter
<1> HIDE DEF t
<1>4. GuardAfter(g, r) \in Guard /\ GuardAfter(g, r).token = t
  BY <1>2, <1>3 DEF Guard
<1>5. GuardAnswer(g, r) = [raw |-> r.raw, token |-> t, gen |-> r.gen]
  BY <1>4 DEF GuardAnswer
<1>6. GuardAnswer(g, r) \in Reading
  BY <1>1, <1>2, <1>5 DEF Reading
<1> QED BY <1>2, <1>4, <1>5, <1>6

LEMMA EnvelopeType ==
  ASSUME NEW n \in 1..Len(Envelopes)
  PROVE  Envelopes[n] \in Scale
  BY RoundAssumption, ElementOfSeq

LEMMA DomainsFinite == IsFiniteSet(Domains)
<1> DEFINE f == [s \in Sources |-> DomainOf[s]]
<1>1. f \in Surjection(Sources, Domains)
  BY DEF Surjection, Domains
<1>2. IsFiniteSet(Sources)
  BY RoundAssumption
<1> HIDE DEF f
<1> QED BY <1>1, <1>2, FS_Surjection

LEMMA UsableType ==
  ASSUME TypeOK, NEW s \in Sources, Usable(s)
  PROVE  LET a == SampleAnchor(s)
             p == Propagated(a, reading.raw)
         IN  /\ IsEvidence(a) /\ ValidScale(a.scale)
             /\ a.raw <= reading.raw /\ reading.raw \in Nat
             /\ p.earliest \in Int /\ p.latest \in Int
<1> DEFINE a == SampleAnchor(s)
           r == reading.raw
<1>1. samples[s] \in Sample /\ samples[s].mid \in start.raw..r
  BY DEF TypeOK, Usable
<1>2. r \in Nat /\ reading.token \in Nat /\ start.raw \in Nat
  BY DEF TypeOK, Reading
<1>3. /\ a.raw = samples[s].mid /\ a.earliest = samples[s].earliest
      /\ a.latest = samples[s].latest /\ a.scale = envelope /\ a.token = reading.token
  BY DEF SampleAnchor
<1>4. a.raw \in Nat /\ a.earliest \in Int /\ a.latest \in Int /\ a.raw <= r
  BY <1>1, <1>2, <1>3 DEF Sample
<1>5. ValidScale(a.scale)
  BY DEF Usable, Propagates
<1>6. IsEvidence(a)
  BY <1>2, <1>3, <1>4 DEF IsEvidence, TypeOK
<1> HIDE DEF a, r
<1> DEFINE D == r - a.raw
<1>7. /\ D \in Nat
      /\ r - a.raw - 2 * ReadBound <= D /\ D <= r - a.raw + 2 * ReadBound
  BY <1>2, <1>4, AssuranceAssumption
<1> HIDE DEF D
<1>8. Propagated(a, r).earliest \in Int /\ Propagated(a, r).latest \in Int
  BY <1>2, <1>4, <1>5, <1>6, <1>7, Outwards
<1> QED BY <1>2, <1>4, <1>5, <1>6, <1>8 DEF a, r

LEMMA SaidType ==
  ASSUME TypeOK, NEW d
  PROVE  /\ IsFiniteSet(SaidBy(d))
         /\ \A i \in SaidBy(d) : i.earliest \in Int /\ i.latest \in Int
<1> DEFINE T == {s \in Sources : DomainOf[s] = d /\ Usable(s)}
           said(s) == Propagated(SampleAnchor(s), reading.raw)
           f == [s \in T |-> said(s)]
<1>1. SaidBy(d) = {said(s) : s \in T}
  BY DEF SaidBy
<1>2. f \in Surjection(T, SaidBy(d))
  <2> HIDE DEF T, said
  <2> QED BY <1>1 DEF Surjection
<1>3. IsFiniteSet(T)
  BY RoundAssumption, FS_Subset
<1>4. ASSUME NEW i \in SaidBy(d) PROVE i.earliest \in Int /\ i.latest \in Int
  <2>1. PICK s \in T : i = said(s)
    BY <1>1
  <2>2. said(s).earliest \in Int /\ said(s).latest \in Int
    BY UsableType
  <2> QED BY <2>1, <2>2
<1> HIDE DEF T, f
<1>5. IsFiniteSet(SaidBy(d))
  BY <1>2, <1>3, FS_Surjection
<1> QED BY <1>4, <1>5

(* What the sources of a domain agree on.                                  *)
LEMMA ConsolidatedType ==
  ASSUME NEW ivs, IsFiniteSet(ivs), Consistent(ivs),
         \A i \in ivs : i.earliest \in Int /\ i.latest \in Int
  PROVE  LET v == Consolidated(ivs)
         IN  /\ v.earliest \in Int /\ v.latest \in Int /\ v.earliest <= v.latest
             /\ \E i \in ivs : v.earliest = i.earliest
             /\ \E i \in ivs : v.latest = i.latest
<1> DEFINE L == {i.earliest : i \in ivs}
           H == {i.latest : i \in ivs}
           f == [i \in ivs |-> i.earliest]
           g == [i \in ivs |-> i.latest]
<1>1. f \in Surjection(ivs, L) /\ g \in Surjection(ivs, H)
  BY DEF Surjection
<1>2. L \in SUBSET Int /\ H \in SUBSET Int /\ L # {} /\ H # {}
  BY DEF Consistent
<1>3. Consolidated(ivs) = [earliest |-> Max(L), latest |-> Min(H)]
  BY DEF Consolidated
<1>4. \A x \in L : \E i \in ivs : x = i.earliest
  OBVIOUS
<1>5. \A x \in H : \E i \in ivs : x = i.latest
  OBVIOUS
<1> HIDE DEF L, H, f, g
<1>6. IsFiniteSet(L) /\ IsFiniteSet(H)
  BY <1>1, FS_Surjection
<1>7. Max(L) \in L /\ Max(L) \in Int /\ Min(H) \in H /\ Min(H) \in Int
  BY <1>2, <1>6, MaxIsMember, MinIsMember
<1>8. Max(L) <= Min(H)
  BY <1>3 DEF Consistent
<1> QED BY <1>3, <1>4, <1>5, <1>7, <1>8

LEMMA VotesType ==
  ASSUME TypeOK
  PROVE  /\ IsFiniteSet(DOMAIN Votes) /\ DOMAIN Votes \subseteq Domains
         /\ \A d \in DOMAIN Votes :
               /\ Votes[d].earliest \in Int /\ Votes[d].latest \in Int
               /\ Votes[d].earliest <= Votes[d].latest
               /\ \E i \in SaidBy(d) : Votes[d].earliest = i.earliest
               /\ \E i \in SaidBy(d) : Votes[d].latest = i.latest
<1>1. DOMAIN Votes = {d \in Domains : Consistent(SaidBy(d))}
  BY DEF Votes
<1>2. IsFiniteSet(DOMAIN Votes) /\ DOMAIN Votes \subseteq Domains
  <2>1. DOMAIN Votes \subseteq Domains
    BY <1>1
  <2> QED BY <2>1, DomainsFinite, FS_Subset
<1>3. ASSUME NEW d \in DOMAIN Votes
      PROVE  /\ Votes[d].earliest \in Int /\ Votes[d].latest \in Int
             /\ Votes[d].earliest <= Votes[d].latest
             /\ \E i \in SaidBy(d) : Votes[d].earliest = i.earliest
             /\ \E i \in SaidBy(d) : Votes[d].latest = i.latest
  <2>1. Votes[d] = Consolidated(SaidBy(d)) /\ Consistent(SaidBy(d))
    BY <1>1 DEF Votes
  <2>2. /\ IsFiniteSet(SaidBy(d))
        /\ \A i \in SaidBy(d) : i.earliest \in Int /\ i.latest \in Int
    BY SaidType
  <2> QED BY <2>1, <2>2, ConsolidatedType
<1> QED BY <1>2, <1>3

LEMMA MaxOfTwo ==
  ASSUME NEW a \in Int, NEW b \in Int
  PROVE  Max({a, b}) \in Int /\ a <= Max({a, b}) /\ b <= Max({a, b})
<1>1. IsFiniteSet({a, b})
  <2>1. {a, b} = {a} \union {b}
    OBVIOUS
  <2>2. IsFiniteSet({a})
    BY FS_Singleton
  <2>3. IsFiniteSet({a} \union {b})
    BY <2>2, FS_AddElement
  <2> QED BY <2>1, <2>3
<1> QED BY <1>1, MaxIsMember

LEMMA ResultIsDecided ==
  ASSUME TypeOK
  PROVE  /\ Result.why \in {"tooFew", "hull", "empty"} /\ Result.hull \in Interval
         /\ Result.why \in {"hull", "empty"} =>
               LET I == Result.intervals
                   c == CoverageComponents(I, FaultBudget)
               IN  /\ I = Votes
                   /\ Voted(I) /\ Cardinality(DOMAIN I) >= 2 * FaultBudget + 1
                   /\ IF c = <<>> THEN Result.why = "empty"
                      ELSE Result.why = "hull" /\ Result.hull = Hull(c)
<1> DEFINE I == Votes
           c == CoverageComponents(I, FaultBudget)
           enough == EnoughDomains(I, FaultBudget, MinVotingDomains, MinHonestCoverage)
<1>1. Failed("tooFew").why = "tooFew" /\ Failed("tooFew").hull \in Interval
  BY DEF Failed, Interval
<1>2. LET e == [Failed("empty") EXCEPT !.intervals = I]
      IN  e.why = "empty" /\ e.hull \in Interval /\ e.intervals = I
  BY DEF Failed, Interval
<1>3. Result = IF ~enough THEN Failed("tooFew")
               ELSE IF c = <<>> THEN [Failed("empty") EXCEPT !.intervals = I]
               ELSE [why |-> "hull", intervals |-> I, hull |-> Hull(c)]
  BY DEF Result
<1>4. ASSUME enough
      PROVE  Voted(I) /\ Cardinality(DOMAIN I) >= 2 * FaultBudget + 1
  <2>1. IsFiniteSet(DOMAIN I) /\ Cardinality(DOMAIN I) \in Nat
    BY VotesType, FS_CardinalityType
  <2>2. Cardinality(DOMAIN I) >= Max({MinVotingDomains, 2 * FaultBudget + 1})
    BY <1>4 DEF EnoughDomains
  <2>3. MinVotingDomains \in Int /\ 2 * FaultBudget + 1 \in Int /\ FaultBudget \in Nat
    BY RoundAssumption
  <2> DEFINE two == Max({MinVotingDomains, 2 * FaultBudget + 1})
  <2>4. two \in Int /\ 2 * FaultBudget + 1 <= two
    BY <2>3, MaxOfTwo
  <2> HIDE DEF two, I
  <2>5. Cardinality(DOMAIN I) >= 2 * FaultBudget + 1 /\ Cardinality(DOMAIN I) > 0
    BY <2>1, <2>2, <2>3, <2>4 DEF two
  <2>6. DOMAIN I # {}
    BY <2>5, FS_EmptySet
  <2>7. \A d \in DOMAIN I : /\ I[d].earliest \in Int /\ I[d].latest \in Int
                            /\ I[d].earliest <= I[d].latest
    BY VotesType DEF I
  <2> QED BY <2>1, <2>5, <2>6, <2>7 DEF Voted
<1>5. ASSUME enough, c # <<>> PROVE Hull(c) \in Interval
  <2>1. Voted(I) /\ Cardinality(DOMAIN I) >= 2 * FaultBudget + 1 /\ FaultBudget \in Nat
    BY <1>4, <1>5, RoundAssumption
  <2>2. Apart(c)
    <3> HIDE DEF I
    <3>1. Threshold(I, FaultBudget) \in Nat \ {0}
      BY <2>1, ThresholdType
    <3> QED BY <2>1, <3>1, ComponentsCover
  <2> HIDE DEF c
  <2>3. Hull(c).earliest \in Int /\ Hull(c).latest \in Int
    BY <1>5, <2>2, HullEnds
  <2> QED BY <2>3 DEF Hull, Interval
<1> HIDE DEF I, c, enough
<1>6. CASE ~enough
  BY <1>1, <1>3, <1>6
<1>7. CASE enough /\ c = <<>>
  BY <1>2, <1>3, <1>4, <1>7 DEF I, c
<1>8. CASE enough /\ c # <<>>
  <2>1. Result.why = "hull" /\ Result.intervals = I /\ Result.hull = Hull(c)
    BY <1>3, <1>8
  <2> QED BY <1>4, <1>5, <1>8, <2>1 DEF I, c
<1> QED BY <1>6, <1>7, <1>8

-----------------------------------------------------------------------------
(* Type correctness, and what became of the votes.                         *)

LEMMA InitIInv == Init => IInv
<1> SUFFICES ASSUME Init PROVE IInv
  OBVIOUS
<1>1. /\ 1 \in 1..Len(Envelopes) /\ One \in Nat /\ 0 \in 0..MaxChanges
      /\ Len(Envelopes) \in Nat
  BY RoundAssumption, AssuranceAssumption, LenProperties
<1>2. dev \in Reading /\ NoReading \in Reading /\ NewGuard \in Guard /\ NewGuard.token = 1
  BY DEF Init, Reading, NoReading, NewGuard, Guard
<1>3. NoScale \in Scale /\ NoSamples \in [Sources -> Sample \union {NoSample}]
  BY DEF NoScale, Scale, NoSamples
<1>4. Failed("none").why = "none" /\ Failed("none").hull \in Interval
  BY DEF Failed, Interval
<1>5. TypeOK
  BY <1>1, <1>2, <1>3, <1>4 DEF Init, TypeOK, Whys
<1> QED BY <1>2, <1>4, <1>5 DEF Init, IInv

LEMMA RatesType ==
  ASSUME TypeOK
  PROVE  /\ scale \in Scale
         /\ \A rate \in Rates :
               /\ rate \in Nat
               /\ ValidScale(scale) => scale.lower <= rate /\ rate <= scale.upper
<1>1. scale \in Scale
  BY EnvelopeType DEF TypeOK, scale
<1>2. scale.lower \in Int /\ scale.upper \in Int /\ One \in Nat
  BY <1>1, AssuranceAssumption DEF Scale
<1>3. ASSUME NEW rate \in Rates
      PROVE  /\ rate \in Nat
             /\ ValidScale(scale) => scale.lower <= rate /\ rate <= scale.upper
  <2>1. CASE ValidScale(scale)
    <3>1. rate \in scale.lower..scale.upper /\ scale.lower > 0
      BY <1>3, <2>1 DEF Rates, ValidScale
    <3> QED BY <1>2, <3>1
  <2>2. CASE ~ValidScale(scale)
    BY <1>2, <1>3, <2>2 DEF Rates
  <2> QED BY <2>1, <2>2
<1> QED BY <1>1, <1>3

(* What the environment does, as the round sees it.                        *)
LEMMA WorldStep ==
  ASSUME IInv, Tick \/ Change
  PROVE  /\ dev' \in Reading /\ truth' \in Nat /\ skew' \in -ReadBound..ReadBound
         /\ scaleNo' \in 1..Len(Envelopes) /\ scaleNo <= scaleNo' /\ scaleNo \in Nat
         /\ changes' \in 0..MaxChanges
         /\ UNCHANGED <<guard, faulty, at, start, envelope, query, reading, outcome,
                        readTruth>>
<1>1. /\ dev \in Reading /\ truth \in Nat /\ skew \in -ReadBound..ReadBound
      /\ scaleNo \in 1..Len(Envelopes) /\ changes \in 0..MaxChanges
      /\ Len(Envelopes) \in Nat /\ MaxChanges \in Nat /\ MaxRaw \in Nat
      /\ dev.raw \in Nat /\ dev.token \in Nat /\ dev.gen \in Nat
  BY RoundAssumption, LenProperties DEF IInv, TypeOK, Reading
<1>2. scaleNo \in Nat /\ scaleNo <= scaleNo
  BY <1>1
<1>3. CASE Tick
  <2>1. PICK step \in 0..(1 + 2 * ReadBound), rate \in Rates :
          /\ skew + 1 - step \in -ReadBound..ReadBound
          /\ dev' = Advanced(dev, step)
          /\ skew' = skew + 1 - step
          /\ truth' = truth + rate
    BY <1>3 DEF Tick
  <2>2. step \in Nat /\ rate \in Nat
    BY AssuranceAssumption, RatesType DEF IInv
  <2>3. dev' \in Reading
    <3>1. dev' = [raw |-> dev.raw + step, token |-> dev.token, gen |-> dev.gen]
      BY <1>1, <2>1 DEF Advanced, Reading
    <3>2. dev.raw + step \in Nat
      BY <1>1, <2>2
    <3> QED BY <1>1, <3>1, <3>2 DEF Reading
  <2>4. truth' \in Nat
    BY <1>1, <2>1, <2>2
  <2>5. UNCHANGED <<scaleNo, guard, changes, faulty, at, start, envelope, query,
                    reading, outcome, readTruth>>
    BY <1>3 DEF Tick
  <2> QED BY <1>1, <1>2, <2>1, <2>3, <2>4, <2>5
<1>4. CASE Change
  <2>1. /\ UNCHANGED <<skew, truth, guard, faulty, at, start, envelope, query,
                       reading, outcome, readTruth>>
        /\ changes < MaxChanges /\ changes' = changes + 1
    BY <1>4 DEF Change
  <2>2. changes' \in 0..MaxChanges
    BY <1>1, <2>1
  <2>3. dev' \in Reading /\ scaleNo' \in 1..Len(Envelopes) /\ scaleNo <= scaleNo'
    <3>1. CASE Rewind
      <4>1. PICK d \in 1..MaxRaw : d <= dev.raw /\ dev' = Rewound(dev, d) /\ scaleNo' = scaleNo
        BY <3>1 DEF Rewind
      <4>2. dev' = [raw |-> dev.raw - d, token |-> dev.token, gen |-> dev.gen]
        BY <1>1, <4>1 DEF Rewound, Reading
      <4>3. dev.raw - d \in Nat
        BY <1>1, <4>1
      <4> QED BY <1>1, <1>2, <4>1, <4>2, <4>3 DEF Reading
    <3>2. CASE Reset
      <4>1. PICK r \in 0..MaxRaw :
              dev' = [raw |-> r, token |-> dev.token, gen |-> dev.gen + 1] /\ scaleNo' = scaleNo
        BY <3>2 DEF Reset
      <4> QED BY <1>1, <1>2, <4>1 DEF Reading
    <3>3. CASE ChangeScale
      BY <1>1, <3>3 DEF ChangeScale
    <3> QED BY <1>4, <3>1, <3>2, <3>3 DEF Change
  <2> QED BY <1>1, <1>2, <2>1, <2>2, <2>3
<1> QED BY <1>3, <1>4

LEMMA AnswerType ==
  ASSUME IInv
  PROVE  /\ GuardAfter(guard, dev) \in Guard /\ Answer \in Reading
         /\ GuardAfter(guard, dev).token > 0
         /\ Answer.token = GuardAfter(guard, dev).token /\ Answer.raw = dev.raw
         /\ guard.token <= GuardAfter(guard, dev).token
<1>1. guard \in Guard /\ dev \in Reading /\ guard.token > 0
  BY DEF IInv, TypeOK
<1> QED BY <1>1, GuardReads DEF Answer

LEMMA SampleType ==
  ASSUME IInv, NEW e \in Int \X Int
  PROVE  LET x == [mid |-> Answer.raw, earliest |-> truth \div One - e[1],
                   latest |-> (truth + One - 1) \div One + e[2]]
         IN  x \in Sample
<1>1. truth \in Int /\ truth + One - 1 \in Int
  BY AssuranceAssumption DEF IInv, TypeOK
<1>2. truth \div One \in Int /\ (truth + One - 1) \div One \in Int
  BY <1>1, Quotient
<1>3. Answer.raw \in Nat
  BY AnswerType DEF Reading
<1>4. e[1] \in Int /\ e[2] \in Int
  OBVIOUS
<1> DEFINE p == truth \div One
           q == (truth + One - 1) \div One
<1> HIDE DEF p, q
<1>5. p - e[1] \in Int /\ q + e[2] \in Int
  BY <1>2, <1>4 DEF p, q
<1> QED BY <1>3, <1>5 DEF Sample, p, q

LEMMA NextIInv == IInv /\ [Next]_vars => IInv'
<1> SUFFICES ASSUME IInv, [Next]_vars PROVE IInv'
  OBVIOUS
<1> USE DEF IInv
<1>1. CASE Tick \/ Change
  <2>1. /\ dev' \in Reading /\ truth' \in Nat /\ skew' \in -ReadBound..ReadBound
        /\ scaleNo' \in 1..Len(Envelopes) /\ scaleNo <= scaleNo' /\ scaleNo \in Nat
        /\ changes' \in 0..MaxChanges
        /\ UNCHANGED <<guard, faulty, at, start, envelope, query, reading, outcome,
                       readTruth>>
    BY <1>1, WorldStep
  <2>2. at \in {"query", "conclude"} => \E n \in 1..scaleNo' : envelope = Envelopes[n]
    <3>1. \A n \in 1..scaleNo : n \in 1..scaleNo'
      BY <2>1
    <3> QED BY <3>1 DEF TypeOK
  <2>3. TypeOK'
    BY <2>1, <2>2 DEF TypeOK, query
  <2>4. (outcome.why \in {"hull", "empty"} => Decided)'
    BY <2>1 DEF Decided
  <2> QED BY <2>1, <2>3, <2>4
<1>2. CASE Begin
  <2>1. /\ at' = "scale" /\ guard' = GuardAfter(guard, dev) /\ start' = Answer
        /\ outcome' = Failed("none") /\ readTruth' = 0
        /\ UNCHANGED <<dev, skew, scaleNo, truth, changes, faulty, envelope, pending,
                       samples, reading>>
    BY <1>2 DEF Begin, ReadGuard, world, query
  <2>2. Failed("none").why = "none" /\ Failed("none").hull \in Interval
    BY DEF Failed, Interval
  <2>3. TypeOK'
    BY <2>1, <2>2, AnswerType DEF TypeOK, Whys
  <2> QED BY <2>1, <2>2, <2>3, AnswerType
<1>3. CASE ReadScale
  <2>1. /\ at' = "query" /\ envelope' = scale /\ pending' = Sources
        /\ UNCHANGED <<dev, skew, scaleNo, truth, guard, changes, faulty, start, samples,
                       reading, outcome, readTruth>>
    BY <1>3 DEF ReadScale, world
  <2>2. at # "idle"
    BY <1>3 DEF ReadScale
  <2>3. scaleNo \in 1..scaleNo
    BY RoundAssumption DEF TypeOK
  <2>4. TypeOK'
    BY <2>1, <2>2, <2>3, RatesType DEF TypeOK, scale
  <2>5. (outcome.why \in {"hull", "empty"} => Decided)'
    BY <2>1 DEF Decided
  <2> QED BY <2>1, <2>4, <2>5
<1>4. ASSUME NEW s \in Sources, QuerySource(s) PROVE IInv'
  <2>1. /\ at = "query" /\ pending' = pending \ {s}
        /\ guard' = GuardAfter(guard, dev)
        /\ UNCHANGED <<dev, skew, scaleNo, truth, changes, faulty, at, start, envelope,
                       reading, outcome, readTruth>>
    BY <1>4 DEF QuerySource, ReadGuard, world
  <2>2. samples' \in [Sources -> Sample \union {NoSample}]
    <3>1. CASE UNCHANGED samples
      BY <3>1 DEF TypeOK
    <3>2. CASE ~UNCHANGED samples
      <4>1. PICK e \in IF DomainOf[s] \in faulty THEN Lies ELSE Honest :
              samples' = [samples EXCEPT ![s] =
                  [mid |-> Answer.raw, earliest |-> truth \div One - e[1],
                   latest |-> (truth + One - 1) \div One + e[2]]]
        BY <1>4, <3>2 DEF QuerySource
      <4>2. e \in Int \X Int
        BY RoundAssumption
      <4> DEFINE x == [mid |-> Answer.raw, earliest |-> truth \div One - e[1],
                       latest |-> (truth + One - 1) \div One + e[2]]
      <4>3. x \in Sample
        BY <4>2, SampleType
      <4> HIDE DEF x
      <4> QED BY <4>1, <4>3 DEF x, TypeOK
    <3> QED BY <3>1, <3>2
  <2>3. TypeOK'
    BY <2>1, <2>2, AnswerType DEF TypeOK
  <2>4. (outcome.why \in {"hull", "empty"} => Decided)'
    BY <2>1 DEF Decided
  <2> QED BY <2>1, <2>3, <2>4, AnswerType
<1>5. CASE ReadClock
  <2>1. /\ at = "query" /\ at' = "conclude" /\ guard' = GuardAfter(guard, dev)
        /\ reading' = Answer /\ readTruth' = truth
        /\ UNCHANGED <<dev, skew, scaleNo, truth, changes, faulty, start, envelope,
                       pending, samples, outcome>>
    BY <1>5 DEF ReadClock, ReadGuard, world, query
  <2>2. TypeOK'
    BY <2>1, AnswerType DEF TypeOK
  <2>3. (outcome.why \in {"hull", "empty"} => Decided)'
    BY <2>1 DEF Decided
  <2> QED BY <2>1, <2>2, <2>3, AnswerType
<1>6. CASE Conclude
  <2>1. /\ at' = "idle" /\ start' = NoReading /\ reading' = NoReading
        /\ envelope' = NoScale /\ samples' = NoSamples
        /\ outcome' = IF ClockChanged THEN Failed("clockChanged") ELSE Result
        /\ UNCHANGED <<dev, skew, scaleNo, truth, guard, changes, faulty, pending, readTruth>>
    BY <1>6 DEF Conclude, world
  <2>2. /\ Failed("clockChanged").why = "clockChanged"
        /\ Failed("clockChanged").hull \in Interval
    BY DEF Failed, Interval
  <2>3. /\ outcome'.why \in Whys /\ outcome'.hull \in Interval
        /\ outcome'.why \in {"hull", "empty"} => outcome' = Result
    BY <2>1, <2>2, ResultIsDecided DEF Whys
  <2>4. NoReading \in Reading /\ NoScale \in Scale
    BY DEF NoReading, Reading, NoScale, Scale
  <2>5. NoSamples \in [Sources -> Sample \union {NoSample}]
    BY DEF NoSamples
  <2>6. TypeOK'
    BY <2>1, <2>3, <2>4, <2>5 DEF TypeOK
  <2>7. (outcome.why \in {"hull", "empty"} => Decided)'
    BY <2>3, ResultIsDecided DEF Decided
  <2> QED BY <2>1, <2>6, <2>7
<1>7. CASE UNCHANGED vars
  <2>1. UNCHANGED <<dev, skew, scaleNo, truth, guard, changes, faulty, at, start,
                    envelope, pending, samples, reading, outcome, readTruth>>
    BY <1>7 DEF vars, world, query
  <2>2. TypeOK'
    BY <2>1 DEF TypeOK
  <2>3. (outcome.why \in {"hull", "empty"} => Decided)'
    BY <2>1 DEF Decided
  <2> QED BY <2>1, <2>2, <2>3
<1> QED BY <1>1, <1>2, <1>3, <1>4, <1>5, <1>6, <1>7 DEF Next

LEMMA SpecIInv == Spec => []IInv
  BY InitIInv, NextIInv, PTL DEF Spec

(* Every variable of a round keeps to its type, for any number of sources, *)
(* whatever they answer; and the envelope a round works with is one that   *)
(* has been in force (PollOnce).                                           *)
THEOREM RoundTypeCorrect == Spec => []TypeOK
<1>1. IInv => TypeOK
  BY DEF IInv
<1> QED BY SpecIInv, <1>1, PTL

(* The sweep of ComputeCoverageComponents finds exactly what N - F of the  *)
(* votes cover, in every round that gets as far.                           *)
THEOREM RoundSweepIsExact == Spec => []SweepIsExact
<1>1. IInv => SweepIsExact
  <2> SUFFICES ASSUME Decided
               PROVE  LET I == outcome.intervals
                      IN  IsCoverage(CoverageComponents(I, FaultBudget), I,
                                     Cardinality(DOMAIN I) - FaultBudget)
    BY DEF IInv, SweepIsExact
  <2> DEFINE I == outcome.intervals
  <2>1. Voted(I) /\ Cardinality(DOMAIN I) >= 2 * FaultBudget + 1 /\ FaultBudget \in Nat
    BY RoundAssumption DEF Decided
  <2> HIDE DEF I
  <2>2. IsCoverage(CoverageComponents(I, FaultBudget), I, Threshold(I, FaultBudget))
    BY <2>1, ThresholdType, SweepFindsCoverage
  <2> QED BY <2>2 DEF Threshold, I
<1> QED BY SpecIInv, <1>1, PTL

LEMMA FewFaulty ==
  ASSUME IInv, NEW I, IsFiniteSet(DOMAIN I)
  PROVE  Cardinality(DOMAIN I \intersect faulty) <= FaultBudget
<1>1. IsFiniteSet(faulty)
  <2>1. faulty \in SUBSET Domains
    BY DEF IInv, TypeOK
  <2> QED BY <2>1, DomainsFinite, FS_Subset
<1>2. DOMAIN I \intersect faulty \subseteq faulty
  OBVIOUS
<1>3. /\ Cardinality(DOMAIN I \intersect faulty) <= Cardinality(faulty)
      /\ IsFiniteSet(DOMAIN I \intersect faulty)
  BY <1>1, <1>2, FS_Subset
<1>4. Cardinality(faulty) \in Nat /\ Cardinality(DOMAIN I \intersect faulty) \in Nat
  BY <1>1, <1>3, FS_CardinalityType
<1>5. Cardinality(faulty) <= FaultBudget /\ FaultBudget \in Nat
  BY RoundAssumption DEF IInv
<1> QED BY <1>3, <1>4, <1>5

(* Faulty domains, up to the fault budget, never push an end of the hull   *)
(* past what some honest domain of the round said itself, whatever the     *)
(* clock did meanwhile (PollOnce with ComputeAssuranceConsensus).          *)
THEOREM FaultyNeverWiden == Spec => []FaultyCannotWiden
<1>1. IInv => FaultyCannotWiden
  <2> SUFFICES ASSUME IInv, outcome.why = "hull"
               PROVE  LET honest == {outcome.intervals[d] : d \in DOMAIN outcome.intervals \ faulty}
                      IN  /\ \E i \in honest : i.earliest <= outcome.hull.earliest
                          /\ \E i \in honest : outcome.hull.latest <= i.latest
    BY DEF FaultyCannotWiden
  <2> DEFINE I == outcome.intervals
             c == CoverageComponents(I, FaultBudget)
  <2>1. /\ Voted(I) /\ Cardinality(DOMAIN I) >= 2 * FaultBudget + 1 /\ FaultBudget \in Nat
        /\ c # <<>> /\ outcome.hull = Hull(c)
    BY RoundAssumption DEF IInv, Decided
  <2> HIDE DEF I
  <2>2. Cardinality(DOMAIN I \intersect faulty) <= FaultBudget
    BY <2>1, FewFaulty DEF Voted
  <2>3. /\ \E d \in DOMAIN I \ faulty : I[d].earliest <= Hull(c).earliest
        /\ \E d \in DOMAIN I \ faulty : Hull(c).latest <= I[d].latest
    BY <2>1, <2>2, HullIsHonest
  <2> HIDE DEF c
  <2>4. /\ \E d \in DOMAIN I \ faulty : I[d].earliest <= outcome.hull.earliest
        /\ \E d \in DOMAIN I \ faulty : outcome.hull.latest <= I[d].latest
    BY <2>1, <2>3
  <2> QED BY <2>4 DEF I
<1> QED BY SpecIInv, <1>1, PTL

-----------------------------------------------------------------------------
(* True time.                                                              *)

(* An instant in units of 1/One, on the doubled axis.                      *)
OnAxis(t) == IF One * (t \div One) = t THEN 2 * (t \div One) ELSE 2 * (t \div One) + 1

LEMMA AxisIsFaithful ==
  ASSUME NEW t \in Int
  PROVE  /\ OnAxis(t) \in Int
         /\ \A e \in Int : /\ 2 * e <= OnAxis(t) <=> One * e <= t
                           /\ OnAxis(t) <= 2 * e <=> t <= One * e
<1> DEFINE q == t \div One
           oq == One * q
<1>1. One \in Nat \ {0}
  BY AssuranceAssumption
<1>2. q \in Int /\ oq <= t /\ t < oq + One
  BY Quotient
<1> HIDE DEF q
<1>3. oq \in Int
  BY <1>1, <1>2
<1>4. OnAxis(t) = IF oq = t THEN 2 * q ELSE 2 * q + 1
  BY DEF OnAxis, q
<1>5. OnAxis(t) \in Int
  BY <1>2, <1>4
<1>6. ASSUME NEW e \in Int
      PROVE  /\ 2 * e <= OnAxis(t) <=> One * e <= t
             /\ OnAxis(t) <= 2 * e <=> t <= One * e
  <2> DEFINE oe == One * e
  <2>1. oe \in Int
    BY <1>1
  <2>2. e <= q => oe <= oq
    BY <1>1, <1>2, ProductGrows
  <2>3. e = q => oe = oq
    OBVIOUS
  <2>4. e >= q + 1 => oe >= oq + One
    <3>1. q + 1 <= e => One * (q + 1) <= One * e
      BY <1>1, <1>2, ProductGrows
    <3>2. One * (q + 1) = One * q + One
      BY <1>1, <1>2
    <3> QED BY <1>1, <1>2, <3>1, <3>2
  <2>5. e + 1 <= q => oe + One <= oq
    <3>1. e + 1 <= q => One * (e + 1) <= One * q
      BY <1>1, <1>2, ProductGrows
    <3>2. One * (e + 1) = One * e + One
      BY <1>1
    <3> QED BY <3>1, <3>2
  <2> HIDE DEF oq, oe
  <2>6. /\ 2 * e <= OnAxis(t) <=> oe <= t
        /\ OnAxis(t) <= 2 * e <=> t <= oe
    <3>1. CASE e <= q - 1
      BY <1>1, <1>2, <1>3, <1>4, <2>1, <2>5, <3>1
    <3>2. CASE e = q
      BY <1>1, <1>2, <1>3, <1>4, <2>1, <2>3, <3>2
    <3>3. CASE e >= q + 1
      BY <1>1, <1>2, <1>3, <1>4, <2>1, <2>4, <3>3
    <3> QED BY <1>2, <3>1, <3>2, <3>3
  <2> QED BY <2>6 DEF oe
<1> QED BY <1>5, <1>6

LEMMA NowIsInstant == TypeOK => IsInstant(Now) /\ Now.exact - dev.raw \in Offsets
<1> SUFFICES ASSUME TypeOK PROVE IsInstant(Now) /\ Now.exact - dev.raw \in Offsets
  OBVIOUS
<1>1. dev.raw \in Int /\ skew \in Int /\ skew \in Offsets /\ truth \in Nat
  BY AssuranceAssumption DEF TypeOK, Reading, Offsets
<1>2. dev.raw + skew \in Int /\ (dev.raw + skew) - dev.raw = skew
  BY <1>1
<1>3. Now.exact = dev.raw + skew /\ Now.truth = truth
  BY DEF Now
<1> QED BY <1>1, <1>2, <1>3 DEF IsInstant

LEMMA WitnessType ==
  ASSUME TypeOK, NEW s \in Witnesses
  PROVE  IsEvidence(Evidence(s)) /\ samples[s] \in Sample /\ s \in Sources
<1>1. s \in Sources /\ samples[s] \in Sample
  BY DEF TypeOK, Witnesses
<1>2. start.token \in Nat /\ envelope \in Scale
  BY DEF TypeOK, Reading
<1> QED BY <1>1, <1>2 DEF IsEvidence, Evidence, Sample

(* What the environment does to a round that is under way: it may end what *)
(* is fresh, and never brings it back.                                     *)
LEMMA WorldKeeps ==
  ASSUME NoEnvelopeReturns, TInv, Tick \/ Change, at \in {"query", "conclude"}
  PROVE  /\ Fresh' => Fresh /\ Passes(Now, Now', envelope)
         /\ scale' = envelope => scale = envelope
<1>1. /\ dev \in Reading /\ dev.raw \in Nat /\ dev.gen \in Nat /\ truth \in Nat
      /\ guard.last.raw \in Nat /\ guard.last.gen \in Nat
      /\ skew \in Int /\ scaleNo \in 1..Len(Envelopes) /\ Len(Envelopes) \in Nat
      /\ guard.started /\ guard.last.gen <= dev.gen
  <2>1. TypeOK /\ guard.started /\ guard.last.gen <= dev.gen
    BY DEF TInv, IInv
  <2>2. /\ dev \in Reading /\ truth \in Nat /\ guard.last \in Reading
        /\ scaleNo \in 1..Len(Envelopes)
    BY <2>1 DEF TypeOK, Guard
  <2>3. skew \in Int
    BY <2>1, AssuranceAssumption DEF TypeOK
  <2>4. Len(Envelopes) \in Nat
    BY RoundAssumption, LenProperties
  <2> QED BY <2>1, <2>2, <2>3, <2>4 DEF Reading
<1>2. guard' = guard /\ envelope' = envelope /\ start' = start
  BY WorldStep DEF TInv
<1>3. PICK n \in 1..scaleNo : envelope = Envelopes[n]
  BY DEF TInv, IInv, TypeOK
<1>4. /\ Now.exact = dev.raw + skew /\ Now.truth = truth
      /\ Now'.exact = dev'.raw + skew' /\ Now'.truth = truth'
  BY DEF Now
<1>5. CASE Tick
  <2>1. PICK step \in 0..(1 + 2 * ReadBound), rate \in Rates :
          /\ Unnoticed => dev.raw + step < guard.last.raw
          /\ dev' = Advanced(dev, step)
          /\ skew' = skew + 1 - step
          /\ truth' = truth + rate
    BY <1>5 DEF Tick
  <2>2. scaleNo' = scaleNo /\ scale' = scale
    BY <1>5 DEF Tick, scale
  <2>3. step \in Nat
    BY AssuranceAssumption
  <2>4. /\ dev'.raw = dev.raw + step /\ dev'.gen = dev.gen /\ dev'.token = dev.token
    BY <1>1, <2>1 DEF Advanced, Reading
  <2>5. ASSUME Pending PROVE Pending'
    <3>1. CASE dev.token # guard.last.token \/ dev.gen # guard.last.gen
      BY <1>1, <1>2, <2>4, <3>1 DEF Pending, IsDiscontinuous
    <3>2. CASE dev.gen = guard.last.gen /\ dev.raw < guard.last.raw
      <4>1. dev'.raw < guard.last.raw
        BY <2>1, <2>4, <3>2 DEF Unnoticed
      <4> QED BY <1>1, <1>2, <4>1 DEF Pending, IsDiscontinuous
    <3> QED BY <2>5, <3>1, <3>2 DEF Pending, IsDiscontinuous
  <2>6. ASSUME Fresh' PROVE Fresh /\ Passes(Now, Now', envelope)
    <3>1. Fresh
      BY <1>2, <2>2, <2>5, <2>6 DEF Fresh
    <3>2. dev'.raw + skew' = dev.raw + skew + 1
      <4>1. dev.raw \in Int /\ skew \in Int /\ step \in Int
        BY <1>1, <2>3
      <4>2. skew' = skew + 1 - step
        BY <2>1
      <4> QED BY <2>4, <4>1, <4>2
    <3>3. truth + scale.lower <= truth' /\ truth' <= truth + scale.upper
      <4>1. /\ rate \in Nat /\ scale.lower <= rate /\ rate <= scale.upper
            /\ scale \in Scale
        BY <3>1, RatesType DEF Fresh, TInv, IInv
      <4> DEFINE lo == scale.lower
                 hi == scale.upper
      <4>2. lo \in Int /\ hi \in Int /\ lo <= rate /\ rate <= hi
        BY <4>1 DEF Scale
      <4>3. truth' = truth + rate
        BY <2>1
      <4> HIDE DEF lo, hi
      <4>4. truth + lo <= truth' /\ truth' <= truth + hi
        BY <1>1, <4>1, <4>2, <4>3
      <4> QED BY <4>4 DEF lo, hi
    <3>4. scale = envelope
      BY <3>1 DEF Fresh
    <3> QED BY <1>4, <3>1, <3>2, <3>3, <3>4 DEF Passes
  <2> QED BY <2>2, <2>6
<1>6. CASE Change
  <2>1. skew' = skew /\ truth' = truth
    BY <1>6 DEF Change
  <2>2. CASE Rewind \/ Reset
    <3>1. scale' = scale
      BY <2>2 DEF Rewind, Reset, scale
    <3>2. Pending'
      <4>1. CASE Rewind
        <5>1. PICK d \in 1..MaxRaw :
                /\ d <= dev.raw
                /\ dev.gen = guard.last.gen => dev.raw - d < guard.last.raw
                /\ dev' = Rewound(dev, d)
          BY <4>1 DEF Rewind
        <5>2. dev'.raw = dev.raw - d /\ dev'.gen = dev.gen
          <6>1. d \in Int /\ ~(d > dev.raw)
            BY <1>1, <5>1, RoundAssumption
          <6>2. dev' = [dev EXCEPT !.raw = dev.raw - d]
            BY <5>1, <6>1 DEF Rewound
          <6> QED BY <1>1, <6>2 DEF Reading
        <5>3. dev'.gen # guard.last.gen \/ dev'.raw < guard.last.raw
          BY <5>1, <5>2
        <5> QED BY <1>1, <1>2, <5>3 DEF Pending, IsDiscontinuous
      <4>2. CASE Reset
        <5>1. dev'.gen = dev.gen + 1
          BY <4>2 DEF Reset
        <5> QED BY <1>1, <1>2, <5>1 DEF Pending, IsDiscontinuous
      <4> QED BY <2>2, <4>1, <4>2
    <3> QED BY <3>1, <3>2 DEF Fresh
  <2>3. CASE ChangeScale
    <3>1. scaleNo < Len(Envelopes) /\ scale' = Envelopes[scaleNo + 1]
      BY <2>3 DEF ChangeScale, scale
    <3>2. n \in 1..Len(Envelopes) /\ scaleNo + 1 \in 1..Len(Envelopes) /\ n # scaleNo + 1
      BY <1>1, <3>1
    <3>3. scale' # envelope
      BY <1>3, <3>1, <3>2 DEF NoEnvelopeReturns
    <3> QED BY <1>2, <3>3 DEF Fresh
  <2> QED BY <1>6, <2>2, <2>3 DEF Change
<1> QED BY <1>5, <1>6

(* A reading of the guard, while a round is under way.                     *)
LEMMA ReadKeeps ==
  ASSUME TInv, at # "idle", guard' = GuardAfter(guard, dev),
         GuardAfter(guard, dev).token = start.token
  PROVE  guard.token = start.token /\ ~Pending
<1>1. guard.token \in Nat /\ start.token \in Nat /\ start.token <= guard.token
  BY DEF TInv, IInv, TypeOK, Guard, Reading
<1>2. GuardAfter(guard, dev).token
        = IF Pending THEN guard.token + 1 ELSE guard.token
  BY DEF GuardAfter, Pending
<1> QED BY <1>1, <1>2

(* An honest answer is evidence of the moment it is given.                 *)
LEMMA HonestSample ==
  ASSUME TypeOK, NEW e \in Honest, NEW x, IsEvidence(x), x.raw = dev.raw,
         x.earliest = truth \div One - e[1], x.latest = (truth + One - 1) \div One + e[2]
  PROVE  Holds(Now, x, skew)
<1>1. /\ dev.raw \in Int /\ skew \in Int /\ truth \in Int /\ One \in Nat \ {0}
      /\ e[1] \in Nat /\ e[2] \in Nat
  <2>1. dev.raw \in Int /\ truth \in Int
    BY DEF TypeOK, Reading
  <2>2. skew \in Int /\ One \in Nat \ {0}
    BY AssuranceAssumption DEF TypeOK
  <2>3. e[1] \in Nat /\ e[2] \in Nat
    BY RoundAssumption
  <2> QED BY <2>1, <2>2, <2>3
<1>2. Now.exact = dev.raw + skew /\ Now.truth = truth
  BY DEF Now
<1>3. Elapsed(Now, x, skew) = 0
  BY <1>1, <1>2 DEF Elapsed
<1> DEFINE p == truth \div One
           q == (truth + One - 1) \div One
<1>4. /\ p \in Int /\ One * p <= truth
      /\ q \in Int /\ truth + One - 1 < One * q + One
  <2>1. truth + One - 1 \in Int
    BY <1>1
  <2> QED BY <1>1, <2>1, Quotient
<1> HIDE DEF p, q
<1>5. /\ One * (p - e[1]) = One * p - One * e[1] /\ One * (q + e[2]) = One * q + One * e[2]
      /\ One * e[1] \in Nat /\ One * e[2] \in Nat /\ One * p \in Int /\ One * q \in Int
  BY <1>1, <1>4
<1>6. One * (p - e[1]) <= truth /\ truth <= One * (q + e[2])
  BY <1>1, <1>4, <1>5
<1>7. /\ x.scale.lower * 0 = 0 /\ x.scale.upper * 0 = 0
      /\ One * x.earliest \in Int /\ One * x.latest \in Int
  BY AssuranceAssumption DEF IsEvidence, Scale
<1>8. One * x.earliest <= truth /\ truth <= One * x.latest
  BY <1>6 DEF p, q
<1> QED BY <1>2, <1>3, <1>7, <1>8 DEF Holds

(* The votes of honest domains hold true time, if the clock looks the same *)
(* at the end of the round as at its start.                                *)
LEMMA VotesHold ==
  ASSUME TInv, at = "conclude", ~ClockChanged, NEW d \in DOMAIN Votes \ faulty
  PROVE  One * Votes[d].earliest <= readTruth /\ readTruth <= One * Votes[d].latest
<1>1. TypeOK
  BY DEF TInv, IInv
<1>2. ASSUME NEW i \in SaidBy(d) PROVE Contains(i, readTruth)
  <2>1. PICK s \in Sources : /\ DomainOf[s] = d /\ Usable(s)
                             /\ i = Propagated(SampleAnchor(s), reading.raw)
    BY <1>2 DEF SaidBy
  <2>2. s \in Witnesses
    BY <2>1 DEF Usable, Witnesses
  <2>3. /\ samples[s].mid <= reading.raw /\ ValidScale(envelope)
    BY <1>1, <2>1, UsableType DEF SampleAnchor
  <2>4. Unchanged
    BY <2>3 DEF Unchanged, ClockChanged
  <2>5. Contains(Propagated(Evidence(s), reading.raw), readTruth)
    BY <2>2, <2>3, <2>4 DEF TInv, Concluding
  <2>6. Propagated(Evidence(s), reading.raw) = Propagated(SampleAnchor(s), reading.raw)
    BY DEF Propagated, Evidence, SampleAnchor
  <2> QED BY <2>1, <2>5, <2>6
<1>3. PICK i \in SaidBy(d) : Votes[d].earliest = i.earliest
  BY <1>1, VotesType
<1>4. PICK j \in SaidBy(d) : Votes[d].latest = j.latest
  BY <1>1, VotesType
<1> QED BY <1>2, <1>3, <1>4 DEF Contains

LEMMA ResultHolds ==
  ASSUME TInv, at = "conclude", ~ClockChanged
  PROVE  /\ Result.why # "empty"
         /\ Result.why = "hull" => Contains(Result.hull, readTruth)
<1> SUFFICES ASSUME Result.why \in {"hull", "empty"}
             PROVE  Result.why = "hull" /\ Contains(Result.hull, readTruth)
  OBVIOUS
<1> DEFINE I == Result.intervals
           c == CoverageComponents(I, FaultBudget)
           x == OnAxis(readTruth)
<1>1. IInv /\ TypeOK
  BY DEF TInv, IInv
<1>2. /\ I = Votes /\ Voted(I) /\ Cardinality(DOMAIN I) >= 2 * FaultBudget + 1
      /\ IF c = <<>> THEN Result.why = "empty"
         ELSE Result.why = "hull" /\ Result.hull = Hull(c)
  BY <1>1, ResultIsDecided
<1> HIDE DEF I
<1>3. FaultBudget \in Nat /\ Cardinality(DOMAIN I \intersect faulty) <= FaultBudget
  BY <1>1, <1>2, FewFaulty, RoundAssumption DEF Voted
<1>4. readTruth \in Int
  BY <1>1 DEF TypeOK
<1>5. /\ x \in Int
      /\ \A e \in Int : /\ 2 * e <= x <=> One * e <= readTruth
                        /\ x <= 2 * e <=> readTruth <= One * e
  BY <1>4, AxisIsFaithful
<1> HIDE DEF x
<1>6. ASSUME NEW d \in DOMAIN I \ faulty
      PROVE  2 * I[d].earliest <= x /\ x <= 2 * I[d].latest
  <2>1. One * I[d].earliest <= readTruth /\ readTruth <= One * I[d].latest
    BY <1>2, VotesHold
  <2>2. I[d].earliest \in Int /\ I[d].latest \in Int
    BY <1>2 DEF Voted
  <2> QED BY <1>5, <2>1, <2>2
<1>7. /\ c # <<>>
      /\ Hull(c).earliest \in Int /\ Hull(c).latest \in Int
      /\ 2 * Hull(c).earliest <= x /\ x <= 2 * Hull(c).latest
  BY <1>2, <1>3, <1>5, <1>6, HullHolds
<1> HIDE DEF c
<1>8. Contains(Hull(c), readTruth)
  BY <1>5, <1>7 DEF Contains
<1> QED BY <1>2, <1>7, <1>8

(* A reading is remembered.                                                *)
LEMMA ReadRemembers ==
  ASSUME IInv, guard' = GuardAfter(guard, dev), dev' = dev
  PROVE  guard'.started /\ guard'.last.gen <= dev'.gen
<1>1. guard'.started = TRUE /\ guard'.last = dev
  BY DEF GuardAfter
<1>2. dev.gen \in Nat
  BY DEF IInv, TypeOK, Reading
<1> QED BY <1>1, <1>2

LEMMA InitTInv == Init => TInv
<1> SUFFICES ASSUME Init PROVE TInv
  OBVIOUS
<1>1. IInv
  BY InitIInv
<1>2. guard.last.gen = 0 /\ dev.gen = 1 /\ at = "idle" /\ samples = NoSamples
  BY DEF Init, NewGuard, NoReading
<1>3. outcome.why = "none"
  BY DEF Init, Failed
<1>4. guard.last.gen <= dev.gen
  BY <1>2
<1>5. Querying /\ Concluding /\ HullHoldsTruth
  BY <1>2, <1>3 DEF Querying, Concluding, HullHoldsTruth
<1> QED BY <1>1, <1>2, <1>3, <1>4, <1>5 DEF TInv

(* Evidence that is fresh stays good while the clock runs.                 *)
LEMMA TicksHold ==
  ASSUME NoEnvelopeReturns, TInv, IInv', Tick \/ Change
  PROVE  TInv'
<1>1. /\ dev' \in Reading /\ scaleNo' \in 1..Len(Envelopes)
      /\ UNCHANGED <<guard, faulty, at, start, envelope, query, reading, outcome,
                     readTruth>>
  BY WorldStep DEF TInv
<1>2. guard' = guard /\ at' = at /\ start' = start /\ envelope' = envelope
      /\ samples' = samples /\ reading' = reading /\ outcome' = outcome
      /\ readTruth' = readTruth /\ faulty' = faulty
  BY <1>1 DEF query
<1>3. guard.last.gen <= dev'.gen
  <2>1. dev.gen \in Nat /\ guard.last.gen \in Nat /\ guard.last.gen <= dev.gen
    BY DEF TInv, IInv, TypeOK, Guard, Reading
  <2>2. dev'.gen = dev.gen \/ dev'.gen = dev.gen + 1
    <3>1. dev \in Reading
      BY DEF TInv, IInv, TypeOK
    <3>2. CASE Tick
      BY <3>1, <3>2 DEF Tick, Advanced, Reading
    <3>3. CASE Rewind
      <4>1. PICK d \in 1..MaxRaw : dev' = Rewound(dev, d)
        BY <3>3 DEF Rewind
      <4> QED BY <3>1, <4>1 DEF Rewound, Reading
    <3>4. CASE Reset
      BY <3>4 DEF Reset
    <3>5. CASE ChangeScale
      BY <3>5 DEF ChangeScale
    <3> QED BY <3>2, <3>3, <3>4, <3>5 DEF Change
  <2> QED BY <2>1, <2>2
<1>4. Witnesses' = Witnesses
  BY <1>2 DEF Witnesses
<1>5. \A s : Evidence(s)' = Evidence(s)
  BY <1>2 DEF Evidence
<1>6. Querying'
  <2> SUFFICES ASSUME at' = "query", Fresh', NEW s \in Witnesses
               PROVE  \E k \in Offsets : Holds(Now', Evidence(s), k)
    BY <1>4, <1>5 DEF Querying
  <2>1. Fresh /\ Passes(Now, Now', envelope)
    BY <1>2, WorldKeeps
  <2>2. PICK k \in Offsets : Holds(Now, Evidence(s), k)
    BY <1>2, <2>1 DEF TInv, Querying
  <2>3. TypeOK /\ TypeOK'
    BY DEF TInv, IInv
  <2>4. IsInstant(Now) /\ IsInstant(Now')
    <3>1. IsInstant(Now)
      BY <2>3, NowIsInstant
    <3>2. dev'.raw \in Int /\ skew' \in Int /\ truth' \in Nat
      BY <2>3, AssuranceAssumption DEF TypeOK, Reading
    <3> QED BY <3>1, <3>2 DEF IsInstant, Now
  <2>5. IsEvidence(Evidence(s)) /\ Evidence(s).scale = envelope
    BY <2>3, WitnessType DEF Evidence
  <2>6. Holds(Now', Evidence(s), k)
    BY <2>1, <2>2, <2>4, <2>5, HoldsStays
  <2> QED BY <2>6
<1>7. Concluding'
  <2> SUFFICES ASSUME at' = "conclude", Unchanged', NEW s \in Witnesses,
                      samples[s].mid <= reading.raw
               PROVE  Contains(Propagated(Evidence(s), reading.raw), readTruth)
    BY <1>2, <1>4, <1>5 DEF Concluding
  <2>1. scale' = envelope
    BY <1>2 DEF Unchanged
  <2>2. scale = envelope
    BY <1>2, <2>1, WorldKeeps
  <2>3. Unchanged
    BY <1>2, <2>2 DEF Unchanged
  <2> QED BY <1>2, <2>3 DEF TInv, Concluding
<1>8. HullHoldsTruth'
  BY <1>2 DEF TInv, HullHoldsTruth
<1> QED BY <1>2, <1>3, <1>6, <1>7, <1>8 DEF TInv

LEMMA BeginHolds ==
  ASSUME TInv, IInv', Begin
  PROVE  TInv'
<1>1. /\ at = "idle" /\ at' = "scale" /\ guard' = GuardAfter(guard, dev)
      /\ start' = Answer /\ outcome' = Failed("none")
      /\ dev' = dev /\ samples' = samples
  BY DEF Begin, ReadGuard, world, query
<1>2. guard'.started /\ guard'.last.gen <= dev'.gen
  BY <1>1, ReadRemembers DEF TInv
<1>3. start'.token = guard'.token /\ start'.token \in Nat
  BY <1>1, AnswerType DEF TInv, Reading
<1>4. start'.token <= guard'.token
  BY <1>3
<1>5. outcome'.why = "none"
  BY <1>1 DEF Failed
<1>6. samples' = NoSamples
  BY <1>1 DEF TInv
<1>7. Querying' /\ Concluding' /\ HullHoldsTruth'
  BY <1>1, <1>5 DEF Querying, Concluding, HullHoldsTruth
<1> QED BY <1>1, <1>2, <1>4, <1>5, <1>6, <1>7 DEF TInv

LEMMA ReadScaleHolds ==
  ASSUME TInv, IInv', ReadScale
  PROVE  TInv'
<1>1. /\ at = "scale" /\ at' = "query"
      /\ UNCHANGED <<dev, guard, faulty, start, samples, reading, outcome, readTruth>>
  BY DEF ReadScale, world
<1>2. Witnesses' = {}
  BY <1>1 DEF Witnesses, TInv, NoSamples
<1>3. Querying' /\ Concluding'
  BY <1>1, <1>2 DEF Querying, Concluding
<1>4. HullHoldsTruth'
  BY <1>1 DEF TInv, HullHoldsTruth
<1> QED BY <1>1, <1>3, <1>4 DEF TInv

(* An answer is new evidence; the reading it is taken with ends what is    *)
(* fresh, or changes nothing.                                              *)
LEMMA QuerySourceHolds ==
  ASSUME TInv, IInv', NEW s \in Sources, QuerySource(s)
  PROVE  TInv'
<1>1. /\ at = "query" /\ at' = at /\ guard' = GuardAfter(guard, dev)
      /\ UNCHANGED <<dev, skew, scaleNo, truth, faulty, start, envelope, reading,
                     outcome, readTruth>>
  BY DEF QuerySource, ReadGuard, world
<1>2. guard'.started /\ guard'.last.gen <= dev'.gen
  BY <1>1, ReadRemembers DEF TInv
<1>3. start.token <= guard'.token
  <2>1. guard.token <= guard'.token /\ guard.token \in Nat /\ guard'.token \in Nat
    BY <1>1, AnswerType DEF TInv, IInv, TypeOK, Guard
  <2>2. start.token \in Nat /\ start.token <= guard.token
    BY <1>1 DEF TInv, IInv, TypeOK, Reading
  <2> QED BY <2>1, <2>2
<1>4. Now' = Now /\ scale' = scale
  BY <1>1 DEF Now, scale
<1>5. ASSUME Fresh', NEW w \in Witnesses'
      PROVE  \E k \in Offsets : Holds(Now, Evidence(w)', k)
  <2>1. Fresh
    <3>1. guard'.token = start.token
      BY <1>1, <1>5 DEF Fresh
    <3>2. guard.token = start.token /\ ~Pending
      BY <1>1, <3>1, ReadKeeps
    <3> QED BY <1>1, <1>4, <1>5, <3>2 DEF Fresh
  <2>2. CASE samples'[w] = samples[w]
    <3>1. w \in Witnesses /\ Evidence(w)' = Evidence(w)
      BY <1>1, <2>2 DEF Witnesses, Evidence
    <3> QED BY <1>1, <2>1, <3>1 DEF TInv, Querying
  <2>3. CASE samples'[w] # samples[w]
    <3>1. PICK e \in IF DomainOf[s] \in faulty THEN Lies ELSE Honest :
            samples' = [samples EXCEPT ![s] =
                [mid |-> Answer.raw, earliest |-> truth \div One - e[1],
                 latest |-> (truth + One - 1) \div One + e[2]]]
      BY <2>3 DEF QuerySource
    <3>2. samples \in [Sources -> Sample \union {NoSample}]
      BY DEF TInv, IInv, TypeOK
    <3>3. w = s /\ w \in Sources
      BY <2>3, <3>1, <3>2 DEF Witnesses
    <3>4. e \in Honest
      BY <1>1, <3>1, <3>3 DEF Witnesses
    <3>5. /\ samples'[w].mid = Answer.raw
          /\ samples'[w].earliest = truth \div One - e[1]
          /\ samples'[w].latest = (truth + One - 1) \div One + e[2]
      BY <3>1, <3>2, <3>3
    <3>6. Answer.raw = dev.raw
      BY AnswerType DEF TInv
    <3>7. IsEvidence(Evidence(w)')
      <4>1. samples'[w] \in Sample
        BY <3>3 DEF IInv, TypeOK, Witnesses
      <4>2. start'.token \in Nat /\ envelope' \in Scale
        BY DEF IInv, TypeOK, Reading
      <4> QED BY <4>1, <4>2 DEF IsEvidence, Evidence, Sample
    <3> DEFINE x == Evidence(w)'
    <3>8. /\ x.raw = dev.raw /\ x.earliest = truth \div One - e[1]
          /\ x.latest = (truth + One - 1) \div One + e[2]
      BY <3>5, <3>6 DEF Evidence
    <3> HIDE DEF x
    <3>9. Holds(Now, x, skew)
      BY <3>4, <3>7, <3>8, HonestSample DEF TInv, IInv, x
    <3>10. skew \in Offsets
      BY DEF TInv, IInv, TypeOK, Offsets
    <3> QED BY <3>9, <3>10 DEF x
  <2> QED BY <2>2, <2>3
<1>6. Querying'
  BY <1>4, <1>5 DEF Querying
<1>7. Concluding'
  BY <1>1 DEF Concluding
<1>8. HullHoldsTruth'
  BY <1>1 DEF TInv, HullHoldsTruth
<1> QED BY <1>1, <1>2, <1>3, <1>6, <1>7, <1>8 DEF TInv

(* The round's last reading: evidence that is still fresh is carried to it.*)
LEMMA ReadClockHolds ==
  ASSUME TInv, IInv', ReadClock
  PROVE  TInv'
<1>1. /\ at = "query" /\ at' = "conclude" /\ guard' = GuardAfter(guard, dev)
      /\ reading' = Answer /\ readTruth' = truth
      /\ UNCHANGED <<dev, skew, scaleNo, truth, faulty, start, envelope, samples,
                     outcome>>
  BY DEF ReadClock, ReadGuard, world, query
<1>2. guard'.started /\ guard'.last.gen <= dev'.gen
  BY <1>1, ReadRemembers DEF TInv
<1>3. start.token <= guard'.token
  <2>1. guard.token <= guard'.token /\ guard.token \in Nat /\ guard'.token \in Nat
    BY <1>1, AnswerType DEF TInv, IInv, TypeOK, Guard
  <2>2. start.token \in Nat /\ start.token <= guard.token
    BY <1>1 DEF TInv, IInv, TypeOK, Reading
  <2> QED BY <2>1, <2>2
<1>4. /\ Answer.raw = dev.raw /\ Answer.token = guard'.token
      /\ dev.raw \in Nat
  BY <1>1, AnswerType DEF TInv, Reading
<1>5. Witnesses' = Witnesses
  BY <1>1 DEF Witnesses
<1>6. \A w : Evidence(w)' = Evidence(w)
  BY <1>1 DEF Evidence
<1>7. ASSUME Unchanged', NEW w \in Witnesses, samples[w].mid <= dev.raw
      PROVE  Contains(Propagated(Evidence(w), dev.raw), truth)
  <2>1. TypeOK
    BY DEF TInv, IInv
  <2>2. Fresh
    <3>1. guard'.token = start.token
      BY <1>1, <1>4, <1>7 DEF Unchanged
    <3>2. guard.token = start.token /\ ~Pending
      BY <1>1, <3>1, ReadKeeps
    <3>3. scale = envelope /\ ValidScale(envelope)
      BY <1>1, <1>7 DEF Unchanged, scale
    <3> QED BY <3>2, <3>3 DEF Fresh
  <2>3. PICK k \in Offsets : Holds(Now, Evidence(w), k)
    BY <1>1, <2>2 DEF TInv, Querying
  <2>4. IsInstant(Now) /\ Now.exact - dev.raw \in Offsets
    BY <2>1, NowIsInstant
  <2>5. IsEvidence(Evidence(w))
    BY <2>1, WitnessType
  <2>6. ValidScale(Evidence(w).scale) /\ Evidence(w).raw <= dev.raw
    BY <1>7, <2>2 DEF Fresh, Evidence
  <2>7. Contains(Propagated(Evidence(w), dev.raw), Now.truth)
    BY <1>4, <2>3, <2>4, <2>5, <2>6, Carried
  <2> QED BY <2>7 DEF Now
<1>8. Concluding'
  BY <1>1, <1>4, <1>5, <1>6, <1>7 DEF Concluding
<1>9. Querying' /\ HullHoldsTruth'
  BY <1>1 DEF Querying, TInv, HullHoldsTruth
<1> QED BY <1>1, <1>2, <1>3, <1>8, <1>9 DEF TInv

LEMMA ConcludeHolds ==
  ASSUME TInv, IInv', Conclude
  PROVE  TInv'
<1>1. /\ at = "conclude" /\ at' = "idle" /\ samples' = NoSamples
      /\ outcome' = IF ClockChanged THEN Failed("clockChanged") ELSE Result
      /\ UNCHANGED <<dev, guard, readTruth>>
  BY DEF Conclude, world
<1>2. /\ outcome'.why # "empty"
      /\ outcome'.why = "hull" => Contains(outcome'.hull, readTruth)
  <2>1. CASE ClockChanged
    BY <1>1, <2>1 DEF Failed
  <2>2. CASE ~ClockChanged
    BY <1>1, <2>2, ResultHolds
  <2> QED BY <2>1, <2>2
<1>3. HullHoldsTruth'
  BY <1>1, <1>2 DEF HullHoldsTruth
<1>4. Querying' /\ Concluding'
  BY <1>1 DEF Querying, Concluding
<1> QED BY <1>1, <1>2, <1>3, <1>4 DEF TInv

LEMMA NextTInv ==
  ASSUME NoEnvelopeReturns
  PROVE  TInv /\ [Next]_vars => TInv'
<1> SUFFICES ASSUME TInv, [Next]_vars PROVE TInv'
  OBVIOUS
<1>1. IInv'
  BY NextIInv DEF TInv
<1>2. CASE UNCHANGED vars
  <2>1. UNCHANGED <<dev, skew, scaleNo, truth, guard, changes, faulty, at, start,
                    envelope, samples, reading, outcome, readTruth>>
    BY <1>2 DEF vars, world, query
  <2>2. Witnesses' = Witnesses /\ Now' = Now
    BY <2>1 DEF Witnesses, Now
  <2>3. \A s : Evidence(s)' = Evidence(s)
    BY <2>1 DEF Evidence
  <2>4. (Fresh' <=> Fresh) /\ (Unchanged' <=> Unchanged)
    BY <2>1 DEF Fresh, Pending, Unchanged, scale
  <2>5. Querying' /\ Concluding'
    BY <2>1, <2>2, <2>3, <2>4 DEF TInv, Querying, Concluding
  <2>6. HullHoldsTruth'
    BY <2>1 DEF TInv, HullHoldsTruth
  <2> QED BY <1>1, <2>1, <2>5, <2>6 DEF TInv
<1> QED
  BY <1>1, <1>2, TicksHold, BeginHolds, ReadScaleHolds, QuerySourceHolds, ReadClockHolds,
     ConcludeHolds DEF Next

LEMMA SpecTInv == ASSUME NoEnvelopeReturns PROVE Spec => []TInv
<1>1. Init => TInv
  BY InitTInv
<1>2. TInv /\ [Next]_vars => TInv'
  BY NextTInv
<1> QED BY <1>1, <1>2, PTL DEF Spec

(* The hull a round hands to the service holds the true time of the        *)
(* reading it refers to, whatever up to FaultBudget domains said and       *)
(* whatever the clock did while the queries were out (PollOnce), if an     *)
(* envelope that was left never comes back.                                *)
THEOREM RoundHoldsTruth ==
  ASSUME NoEnvelopeReturns
  PROVE  Spec => []HullHoldsTruth
<1>1. TInv => HullHoldsTruth
  BY DEF TInv
<1> QED BY SpecTInv, <1>1, PTL

(* Under the same condition a round with enough votes always finds a       *)
(* common point: no faulty domain can make it end in ErrEmptyCoverageSet.  *)
THEOREM RoundNeverEmpty ==
  ASSUME NoEnvelopeReturns
  PROVE  Spec => []ConsensusNeverEmpty
<1>1. TInv => ConsensusNeverEmpty
  BY DEF TInv, ConsensusNeverEmpty
<1> QED BY SpecTInv, <1>1, PTL
=============================================================================
