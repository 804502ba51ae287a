------------------------------ MODULE SyncRound ------------------------------
(***************************************************************************)
(* One round of SyncEngine.PollOnce, from its first reading of the clock   *)
(* to the hull it hands to the service.                                    *)
(*                                                                         *)
(* Each source answers at an instant of its own.  Its interval is carried  *)
(* to the round's last reading, the intervals of a fault domain are        *)
(* intersected, and the domains vote.  Meanwhile the counter, true time    *)
(* and the scale envelope move, and the backend may be rewound or reset.   *)
(* At most FaultBudget domains are faulty, and a faulty one says anything. *)
(*                                                                         *)
(* ClockService takes the result as a hull around true time; this module   *)
(* is why it may.  Cancellation and Close are in SyncEngine.               *)
(***************************************************************************)
EXTENDS RawClock, Assurance, Consensus

CONSTANTS Sources, DomainOf,   \* the upstream sources, and each one's domain
          FaultBudget, MinVotingDomains, MinHonestCoverage,
          MaxAge,              \* AssuranceConfig.MaxAgeNs
          Honest, Lies,        \* how far an answer exceeds true time, each side
          Envelopes,           \* the scale envelopes, in the order they take force
          MaxRaw,              \* bound: the counter stays at or below it
          MaxChanges,          \* bound: rewinds, resets and changes of scale
          NoSample

Domains == {DomainOf[s] : s \in Sources}

ASSUME RoundAssumption ==
    /\ IsFiniteSet(Sources) /\ DOMAIN DomainOf = Sources
    /\ FaultBudget \in Nat /\ MinHonestCoverage \in Nat
    /\ MinVotingDomains \in Nat /\ MinVotingDomains >= 2 * FaultBudget + 1
    /\ MaxAge \in Nat \ {0} /\ MaxRaw \in Nat /\ MaxChanges \in Nat
    /\ Honest \subseteq Nat \X Nat /\ Lies \subseteq Int \X Int
    /\ Envelopes \in Seq(Scale) /\ Len(Envelopes) > 0

VARIABLES
    dev, skew, scaleNo, truth,  \* the world, as in ClockService
    guard,      \* the continuity guard
    changes,    \* rewinds, resets and changes of scale so far
    faulty,     \* the domains whose sources may lie
    at,         \* what PollOnce does next
    start,      \* startReading
    envelope,   \* scaleLow, scaleUpp
    pending,    \* sources that have not answered
    samples,    \* what each of them said
    reading,    \* the reading the whole round refers to
    outcome,    \* of the last round
    readTruth   \* history: true time at that reading

world == <<dev, skew, scaleNo, truth>>
query == <<pending, samples>>
vars == <<world, guard, changes, faulty, at, start, envelope, query, reading,
          outcome, readTruth>>

scale == Envelopes[scaleNo]

Sample == [mid : Nat, earliest : Int, latest : Int]

Whys == {"none", "clockChanged", "tooFew", "empty", "hull"}

Failed(why) == [why |-> why, intervals |-> <<>>, hull |-> [earliest |-> 0, latest |-> 0]]

TypeOK ==
    /\ dev \in Reading /\ truth \in Nat /\ readTruth \in Nat
    /\ skew \in -ReadBound..ReadBound
    /\ scaleNo \in 1..Len(Envelopes)
    /\ guard \in Guard
    /\ changes \in 0..MaxChanges
    /\ faulty \in SUBSET Domains
    /\ at \in {"idle", "scale", "query", "conclude"}
    /\ start \in Reading /\ reading \in Reading
    /\ envelope \in Scale
    /\ pending \in SUBSET Sources
    /\ samples \in [Sources -> Sample \union {NoSample}]
    /\ outcome.why \in Whys /\ outcome.hull \in Interval
    /\ at # "idle" => start.token > 0
    /\ at \in {"query", "conclude"} => \E n \in 1..scaleNo : envelope = Envelopes[n]

NoScale == [lower |-> 0, upper |-> 0]

NoSamples == [s \in Sources |-> NoSample]

Init ==
    /\ dev = [raw |-> 0, token |-> 1, gen |-> 1]
    /\ skew \in -ReadBound..ReadBound
    /\ scaleNo = 1
    /\ truth = One
    /\ guard = NewGuard
    /\ changes = 0
    /\ faulty \in {D \in SUBSET Domains : Cardinality(D) <= FaultBudget}
    /\ at = "idle"
    /\ start = NoReading /\ reading = NoReading
    /\ envelope = NoScale
    /\ pending = {} /\ samples = NoSamples
    /\ outcome = Failed("none")
    /\ readTruth = 0

-----------------------------------------------------------------------------
(* The world, as in ClockService: a rewind must be noticed before the      *)
(* counter has caught up.                                                  *)

Unnoticed == dev.gen = guard.last.gen /\ dev.raw < guard.last.raw

Rates == IF ValidScale(scale) THEN scale.lower..scale.upper ELSE {One}

Tick ==
    /\ dev.raw < MaxRaw
    /\ \E step \in 0..(1 + 2 * ReadBound), rate \in Rates :
        /\ skew + 1 - step \in -ReadBound..ReadBound
        /\ Unnoticed => dev.raw + step < guard.last.raw
        /\ dev' = Advanced(dev, step)
        /\ skew' = skew + 1 - step
        /\ truth' = truth + rate
    /\ UNCHANGED <<scaleNo, guard, changes, faulty, at, start, envelope, query,
                   reading, outcome, readTruth>>

Rewind ==
    \E d \in 1..MaxRaw :
        /\ d <= dev.raw
        /\ dev.gen = guard.last.gen => dev.raw - d < guard.last.raw
        /\ dev' = Rewound(dev, d)
        /\ UNCHANGED scaleNo

Reset ==
    /\ \E r \in 0..MaxRaw : dev' = [raw |-> r, token |-> dev.token, gen |-> dev.gen + 1]
    /\ UNCHANGED scaleNo

ChangeScale ==
    /\ scaleNo < Len(Envelopes)
    /\ scaleNo' = scaleNo + 1
    /\ UNCHANGED dev

Change ==
    /\ changes < MaxChanges
    /\ changes' = changes + 1
    /\ Rewind \/ Reset \/ ChangeScale
    /\ UNCHANGED <<skew, truth, guard, faulty, at, start, envelope, query,
                   reading, outcome, readTruth>>

-----------------------------------------------------------------------------
(* PollOnce                                                                *)

ReadGuard == guard' = GuardAfter(guard, dev)

Answer == GuardAnswer(guard, dev)

Begin ==
    /\ at = "idle" /\ at' = "scale"
    /\ ReadGuard
    /\ start' = Answer
    /\ outcome' = Failed("none") /\ readTruth' = 0
    /\ UNCHANGED <<world, changes, faulty, envelope, query, reading>>

(* (Mutant: the envelope of the round is not taken down.)                  *)
ReadScaleUnset ==
    /\ at = "scale" /\ at' = "query"
    /\ pending' = Sources
    /\ UNCHANGED <<world, guard, changes, faulty, start, envelope, samples,
                   reading, outcome, readTruth>>

ReadScale ==
    /\ at = "scale" /\ at' = "query"
    /\ envelope' = scale
    /\ pending' = Sources
    /\ UNCHANGED <<world, guard, changes, faulty, start, samples, reading,
                   outcome, readTruth>>

(* A source's measurement: an interval for the counter at its middle.  An  *)
(* honest one holds the true time of that moment.  Or the query fails.     *)
QuerySource(s) ==
    /\ at = "query" /\ s \in pending
    /\ pending' = pending \ {s}
    /\ ReadGuard
    /\ \/ \E e \in IF DomainOf[s] \in faulty THEN Lies ELSE Honest :
            samples' = [samples EXCEPT ![s] =
                [mid |-> Answer.raw,
                 earliest |-> truth \div One - e[1],
                 latest |-> (truth + One - 1) \div One + e[2]]]
       \/ UNCHANGED samples
    /\ UNCHANGED <<world, changes, faulty, at, start, envelope, reading, outcome,
                   readTruth>>

(* "Every interval must refer to this same reading."                       *)
ReadClock ==
    /\ at = "query" /\ pending = {} /\ at' = "conclude"
    /\ ReadGuard
    /\ reading' = Answer
    /\ readTruth' = truth
    /\ UNCHANGED <<world, changes, faulty, start, envelope, query, outcome>>

(* (Mutant: the envelope is not compared.)                                 *)
ClockChangedScaleIgnored ==
    \/ reading.token # start.token
    \/ reading.gen # start.gen
    \/ reading.raw < start.raw

(* The envelope is read a second time after the reading.                   *)
ClockChanged ==
    \/ reading.token # start.token
    \/ reading.gen # start.gen
    \/ reading.raw < start.raw
    \/ scale # envelope

(* A sample as an anchor that is good for this reading only.               *)
SampleAnchor(s) ==
    [raw |-> samples[s].mid, earliest |-> samples[s].earliest,
     latest |-> samples[s].latest, scale |-> envelope,
     validUntil |-> reading.raw, token |-> reading.token, gen |-> 0]

Usable(s) ==
    /\ samples[s] # NoSample
    /\ samples[s].mid \in start.raw..reading.raw
    /\ reading.raw - samples[s].mid <= MaxAge
    /\ Propagates(SampleAnchor(s), reading.raw, reading.token)

SaidBy(d) ==
    {Propagated(SampleAnchor(s), reading.raw) :
        s \in {s \in Sources : DomainOf[s] = d /\ Usable(s)}}

(* byDomain: a domain that contradicts itself has no vote.                 *)
Votes ==
    [d \in {d \in Domains : Consistent(SaidBy(d))} |-> Consolidated(SaidBy(d))]

Result ==
    LET I == Votes
        components == CoverageComponents(I, FaultBudget)
    IN  IF ~EnoughDomains(I, FaultBudget, MinVotingDomains, MinHonestCoverage)
        THEN Failed("tooFew")
        ELSE IF components = <<>>
        THEN [Failed("empty") EXCEPT !.intervals = I]
        ELSE [why |-> "hull", intervals |-> I, hull |-> Hull(components)]

(* PollOnce is done: its locals are gone.                                  *)
Conclude ==
    /\ at = "conclude" /\ at' = "idle"
    /\ outcome' = IF ClockChanged THEN Failed("clockChanged") ELSE Result
    /\ start' = NoReading /\ reading' = NoReading /\ envelope' = NoScale
    /\ samples' = NoSamples
    /\ UNCHANGED <<world, guard, changes, faulty, pending, readTruth>>

Next ==
    \/ Tick \/ Change
    \/ Begin \/ ReadScale \/ (\E s \in Sources : QuerySource(s)) \/ ReadClock
    \/ Conclude

Spec == Init /\ [][Next]_vars
-----------------------------------------------------------------------------
(* Properties.                                                             *)

(* The hull a round hands on holds the true time of the reading it refers  *)
(* to, whatever up to FaultBudget domains said and whatever the clock did  *)
(* while the queries were out.                                             *)
HullHoldsTruth == outcome.why = "hull" => Contains(outcome.hull, readTruth)

(* Faulty domains never push an end of the hull past what some honest      *)
(* domain of the round said itself.                                        *)
FaultyCannotWiden ==
    outcome.why = "hull" =>
        LET honest == {outcome.intervals[d] : d \in DOMAIN outcome.intervals \ faulty}
        IN  /\ \E i \in honest : i.earliest <= outcome.hull.earliest
            /\ \E i \in honest : outcome.hull.latest <= i.latest

(* Enough votes always agree somewhere: no faulty domain can make a round  *)
(* end in ErrEmptyCoverageSet.                                             *)
ConsensusNeverEmpty == outcome.why # "empty"

(* The sweep of Appendix B finds exactly the points that N - F of the      *)
(* votes cover, as components that do not touch.                           *)
SweepIsExact ==
    outcome.why \in {"hull", "empty"} =>
        LET I == outcome.intervals
        IN  IsCoverage(CoverageComponents(I, FaultBudget), I,
                       Cardinality(DOMAIN I) - FaultBudget)
=============================================================================
