---------------------------- MODULE ClockService ----------------------------
(***************************************************************************)
(* gstime.ClockService: one raw clock behind a continuity guard, the       *)
(* assurance state machine, and the snapshot that the writer publishes and *)
(* every reader acquires without a lock.                                   *)
(*                                                                         *)
(* Writers (a poll's publishSyncRound or markRoundFailure, Invalidate,     *)
(* PublishAssuranceRound, InitializeEstimate) hold writerMu from their     *)
(* first step to publishCurrent, but the raw clock, its scale envelope and *)
(* true time move between their steps.  Readers acquire a snapshot, read   *)
(* the raw clock and look at the scale envelope in three separate steps.   *)
(*                                                                         *)
(* `truth' is the true time no program sees.  It advances with the counter *)
(* at a rate inside the scale envelope in force, which is what an operator *)
(* asserts by configuring the envelope.                                    *)
(***************************************************************************)
EXTENDS RawClock, Assurance, Sequences, FiniteSets

CONSTANTS Readers,       \* goroutines that call Now or CommitWait
          MaxRaw,        \* bound: the counter stays at or below it
          MaxSelect,     \* bound: a round is selected at or below it
          Envelopes,     \* the scale envelopes, in the order they take force
          HullSlack,     \* how far a round's hull exceeds true time, each side
          MaxAge,        \* AssuranceConfig.MaxAgeNs
          HoldoverAges,  \* values of MaxHoldoverAgeNs
          Deadlines,     \* deadlines that callers of PublishAssuranceRound bring
          CommitTimes,   \* timestamps CommitWait is called with
          NoCommit,      \* the reader is calling Now
          Budgets        \* bound: how often each kind of event may happen;
                         \* a behaviour keeps to one of these budgets

Kinds == {"round", "failure", "invalidate", "external", "estimate",
          "rewind", "reset", "scale", "alarm", "now", "commit"}

ASSUME ServiceAssumption ==
    /\ MaxRaw \in Nat /\ MaxSelect \in Nat /\ MaxAge \in Nat
    /\ HoldoverAges \subseteq Nat /\ Deadlines \subseteq Nat
    /\ CommitTimes \subseteq Int /\ NoCommit \notin Int
    /\ Envelopes \in Seq(Scale) /\ Len(Envelopes) > 0
    /\ HullSlack \subseteq Int \X Int
    /\ Budgets \subseteq [Kinds -> Nat]

VARIABLES
    dev,        \* the backend's next reading
    skew,       \* exact counter position minus dev.raw, within ReadBound
    scaleNo,    \* the envelope in force
    truth,      \* true time, in units of 1/One
    guard,      \* the continuity guard
    ac,         \* AssuranceClock.state
    est,        \* EstimateClock's anchor point
    snap,       \* Publisher.active
    writer,     \* the transaction that holds writerMu
    poll,       \* PollOnce: between selection and its last transaction
    rpc, held, reading, waiting,  \* the readers
    wrong,      \* history: what a call with this reading would get wrong
    left        \* what is left of the budget, by kind of event

device == <<dev, skew, scaleNo, truth>>
published == <<ac, est, snap>>
readers == <<rpc, held, reading, waiting, wrong>>
vars == <<device, guard, published, writer, poll, readers, left>>

scale == Envelopes[scaleNo]

Spend(k) == left[k] > 0 /\ left' = [left EXCEPT ![k] = @ - 1]

-----------------------------------------------------------------------------
(* Types                                                                   *)

State == [status : Statuses, anchor : Anchor \union {NoAnchor},
          lastRound : Nat, watermark : Int, gen : Nat \ {0}]

Estimate == [raw : Nat, time : Int]

Snapshot == [assurance : State, estimate : Estimate, gen : Nat \ {0}]

Selection == [raw : Nat, token : Nat, gen : Nat, scale : Scale, hull : Interval]

NoSelection == [raw |-> 0, token |-> 0, gen |-> 0,
                scale |-> [lower |-> 0, upper |-> 0],
                hull |-> [earliest |-> 0, latest |-> 0]]

Answers == {"Now", "After", "Before"}

Ops == {"none", "round", "failure", "external", "invalidate", "estimate"}

Transaction == [op : Ops, at : {"free", "read", "apply", "verify", "publish"},
                sel : Selection, now : Reading, failed : BOOLEAN]

Polled == [at : {"idle", "selected", "failed", "writing"}, sel : Selection]

TypeOK ==
    /\ dev \in Reading /\ truth \in Nat
    /\ skew \in -ReadBound..ReadBound
    /\ scaleNo \in 1..Len(Envelopes)
    /\ guard \in Guard
    /\ ac \in State /\ est \in Estimate /\ snap \in Snapshot
    /\ writer \in Transaction /\ poll \in Polled
    /\ rpc \in [Readers -> {"idle", "acquired", "read"}]
    /\ held \in [Readers -> State]
    /\ reading \in [Readers -> Reading]
    /\ waiting \in [Readers -> CommitTimes \union {NoCommit}]
    /\ wrong \in [Readers -> SUBSET Answers]
    /\ left \in [Kinds -> Nat]

Stage(op, at, sel) ==
    [op |-> op, at |-> at, sel |-> sel, now |-> NoReading, failed |-> FALSE]

Free == Stage("none", "free", NoSelection)

Polling(at) == [at |-> at, sel |-> NoSelection]

(* NewClockService                                                         *)
Init ==
    /\ dev = [raw |-> 0, token |-> 1, gen |-> 1]
    /\ skew \in -ReadBound..ReadBound
    /\ scaleNo = 1
    /\ truth = One
    /\ guard = NewGuard
    /\ ac = NewAssuranceClock
    /\ est = [raw |-> 0, time |-> 0]
    /\ snap = [assurance |-> NewAssuranceClock, estimate |-> est, gen |-> 1]
    /\ writer = Free
    /\ poll = Polling("idle")
    /\ rpc = [r \in Readers |-> "idle"]
    /\ held = [r \in Readers |-> NewAssuranceClock]
    /\ reading = [r \in Readers |-> NoReading]
    /\ wrong = [r \in Readers |-> {}]
    /\ waiting = [r \in Readers |-> NoCommit]
    /\ left \in Budgets

-----------------------------------------------------------------------------
(* The world                                                               *)

(* One tick of the exact counter.  True time passes at a rate inside the   *)
(* envelope; the counter that is read follows within ReadBound.  A counter *)
(* that went back must be read before it has caught up again: the guard    *)
(* cannot see an unobserved rewind followed by catch-up, and says so.      *)
Unnoticed == dev.gen = guard.last.gen /\ dev.raw < guard.last.raw

Rates == IF ValidScale(scale) THEN scale.lower..scale.upper ELSE {One}

Tick ==
    /\ dev.raw < MaxRaw
    /\ \E step \in 0..(1 + 2 * ReadBound), rate \in Rates :
        /\ skew + 1 - step \in -ReadBound..ReadBound
        /\ Unnoticed => dev.raw + step < guard.last.raw
        /\ dev' = Advanced(dev, step)
        /\ skew' = skew + 1 - step
        /\ truth' = truth + rate
    /\ UNCHANGED <<scaleNo, guard, published, writer, poll, readers, left>>

Rewind ==
    /\ Spend("rewind")
    /\ \E d \in 1..MaxRaw :
        /\ d <= dev.raw
        /\ dev.gen = guard.last.gen => dev.raw - d < guard.last.raw
        /\ dev' = Rewound(dev, d)
    /\ UNCHANGED <<skew, scaleNo, truth, guard, published, writer, poll, readers>>

(* The counter restarts anywhere, under a new backend generation.          *)
Reset ==
    /\ Spend("reset")
    /\ \E r \in 0..MaxRaw : dev' = [raw |-> r, token |-> dev.token, gen |-> dev.gen + 1]
    /\ UNCHANGED <<skew, scaleNo, truth, guard, published, writer, poll, readers>>

ChangeScale ==
    /\ Spend("scale")
    /\ scaleNo < Len(Envelopes)
    /\ scaleNo' = scaleNo + 1
    /\ UNCHANGED <<dev, skew, truth, guard, published, writer, poll, readers>>

(* Concurrent reads of the guard can raise its token for no reason.        *)
FalseAlarm ==
    /\ Spend("alarm")
    /\ guard' = [token |-> guard.token + 1, started |-> guard.started,
                 last |-> guard.last]
    /\ UNCHANGED <<device, published, writer, poll, readers>>

-----------------------------------------------------------------------------
(* PollOnce, from its selection reading on.  The queries and the consensus *)
(* are behind the hull: it is built for the selection reading, and exceeds *)
(* true time on both sides by a slack.  A negative slack is a wrong hull.  *)

ReadGuard == guard' = GuardAfter(guard, dev)

Answer == GuardAnswer(guard, dev)

Hulls ==
    {[earliest |-> truth \div One - s[1],
      latest |-> (truth + One - 1) \div One + s[2]] : s \in HullSlack}

Select ==
    /\ Spend("round")
    /\ poll.at = "idle"
    /\ dev.raw <= MaxSelect
    /\ ReadGuard
    /\ \E h \in Hulls :
          poll' = [at |-> "selected",
                   sel |-> [raw |-> Answer.raw, token |-> Answer.token,
                            gen |-> Answer.gen, scale |-> scale, hull |-> h]]
    /\ UNCHANGED <<device, published, writer, readers>>

(* Too few domains answered, or the clock changed during the round.        *)
QueryFails ==
    /\ Spend("failure")
    /\ poll.at = "idle"
    /\ ReadGuard
    /\ poll' = Polling("failed")
    /\ UNCHANGED <<device, published, writer, readers>>

(* The parent context was cancelled, or the engine closed: the round does  *)
(* not count as failed.                                                    *)
ForgetFailure ==
    /\ poll.at = "failed"
    /\ poll' = Polling("idle")
    /\ UNCHANGED <<device, guard, published, writer, readers, left>>

-----------------------------------------------------------------------------
(* Writer transactions.                                                    *)

Lock(op, at, sel) ==
    /\ writer.at = "free"
    /\ writer' = Stage(op, at, sel)

(* publishSyncRound: an invalid hull is refused before anything changes.   *)
LockRound ==
    /\ poll.at = "selected"
    /\ \/ /\ ValidHull(poll.sel.hull)
          /\ Lock("round", "read", poll.sel)
          /\ poll' = Polling("writing")
       \/ /\ ~ValidHull(poll.sel.hull)
          /\ writer.at = "free"
          /\ poll' = Polling("failed")
          /\ UNCHANGED writer
    /\ UNCHANGED <<device, guard, published, readers, left>>

(* PublishAssuranceRound: the caller brings a raw instant, a hull and a    *)
(* deadline, but no token and no scale.                                    *)
LockExternal ==
    /\ Spend("external")
    /\ \E raw \in 0..MaxSelect, h \in Hulls :
        /\ ValidHull(h)
        /\ Lock("external", "read",
                [raw |-> raw, token |-> 0, gen |-> 0,
                 scale |-> NoSelection.scale, hull |-> h])
    /\ UNCHANGED <<device, guard, published, poll, readers>>

(* markRoundFailure does nothing when there is nothing to keep alive.      *)
LockFailure ==
    /\ poll.at = "failed"
    /\ \/ /\ Anchored(snap.assurance)
          /\ Lock("failure", "read", NoSelection)
          /\ poll' = Polling("writing")
       \/ /\ ~Anchored(snap.assurance)
          /\ writer.at = "free"
          /\ poll' = Polling("idle")
          /\ UNCHANGED writer
    /\ UNCHANGED <<device, guard, published, readers, left>>

Invalidate ==
    /\ Spend("invalidate")
    /\ Lock("invalidate", "publish", NoSelection)
    /\ ac' = TransitionToDesync(ac)
    /\ UNCHANGED <<device, guard, est, snap, poll, readers>>

InitializeEstimate ==
    /\ Spend("estimate")
    /\ Lock("estimate", "publish", NoSelection)
    /\ est' = [raw |-> dev.raw, time |-> 0]
    /\ UNCHANGED <<device, guard, ac, snap, poll, readers>>

(* The transaction goes on without its first reading.                      *)
Then(at) == Stage(writer.op, at, NoSelection)

(* The transaction's first raw reading.                                    *)
WriterRead ==
    /\ writer.at = "read"
    /\ ReadGuard
    /\ writer' = [Stage(writer.op, "apply", writer.sel) EXCEPT !.now = Answer]
    /\ UNCHANGED <<device, published, poll, readers, left>>

(* The clock that publishes is not the clock that selected.                *)
Discontinuity(sel, now) ==
    \/ now.raw < sel.raw
    \/ now.token # sel.token
    \/ now.gen # sel.gen
    \/ scale # sel.scale

Center(h) == h.earliest + (Width(h) \div 2)

(* (Mutant: the hull is taken to be about the moment of publication.)      *)
RoundEstimateAtPublication(sel, now) ==
    [raw |-> now.raw, time |-> Center(sel.hull)]

RoundEstimate(sel, now) == [raw |-> sel.raw, time |-> Center(sel.hull)]

ApplyRound ==
    /\ writer.op = "round" /\ writer.at = "apply"
    /\ LET sel == writer.sel
           mismatch == Discontinuity(sel, writer.now)
           next == ProcessFullRound(ac, sel.raw, sel.hull, sel.scale, sel.token,
                                    sel.raw + MaxAge)
       IN  /\ ac' = IF mismatch THEN TransitionToDesync(ac) ELSE next
           /\ est' = IF Anchored(ac')
                     THEN RoundEstimate(sel, writer.now)
                     ELSE est
           /\ writer' = [Then("publish") EXCEPT !.failed = ~Anchored(ac')]
    /\ UNCHANGED <<device, guard, snap, poll, readers, left>>

(* The caller's deadline is chosen here: nothing looks at it before.       *)
ApplyExternal ==
    /\ writer.op = "external" /\ writer.at = "apply"
    /\ \E validUntil \in Deadlines :
          ac' = ProcessFullRound(ac, writer.sel.raw, writer.sel.hull, scale,
                                 writer.now.token, validUntil)
    /\ writer' = Then("publish")
    /\ UNCHANGED <<device, guard, est, snap, poll, readers, left>>

(* propagateSnapshot, with a reading taken before the envelope is looked   *)
(* at: an envelope other than the anchor's makes the anchor unusable.      *)
Serves(state, r) ==
    /\ Anchored(state)
    /\ state.anchor.scale = scale
    /\ Propagates(state.anchor, r.raw, r.token)

ApplyFailure ==
    /\ writer.op = "failure" /\ writer.at = "apply"
    /\ \/ /\ ~Serves(snap.assurance, writer.now)
          /\ ac' = TransitionToDesync(ac)
          /\ writer' = Then("publish")
       \/ /\ Serves(snap.assurance, writer.now)
          /\ \E age \in HoldoverAges : ac' = BeginHoldover(ac, age)
          /\ writer' = Then("verify")
    /\ UNCHANGED <<device, guard, est, snap, poll, readers, left>>

(* (Mutant: the second evaluation returns without publishing.)             *)
VerifyHoldoverUnpublished ==
    /\ writer.at = "verify"
    /\ ReadGuard
    /\ ac' = IF EvaluatesToDesync(ac, Answer.raw, Answer.token)
             THEN TransitionToDesync(ac) ELSE ac
    /\ writer' = Free
    /\ poll' = Polling("idle")
    /\ UNCHANGED <<device, est, snap, readers, left>>

(* markRoundFailure's second reading, against the shortened anchor.        *)
VerifyHoldover ==
    /\ writer.at = "verify"
    /\ ReadGuard
    /\ ac' = IF EvaluatesToDesync(ac, Answer.raw, Answer.token)
             THEN TransitionToDesync(ac) ELSE ac
    /\ writer' = Then("publish")
    /\ UNCHANGED <<device, est, snap, poll, readers, left>>

(* ValidatePublication                                                     *)
ValidPublication(curr, next) ==
    /\ ValidScale(scale)
    /\ next.gen > curr.gen
    /\ Anchored(next.assurance) =>
        /\ next.assurance.anchor # NoAnchor
        /\ next.assurance.anchor.earliest <= next.assurance.anchor.latest
    /\ ~Anchored(next.assurance) => next.assurance.anchor = NoAnchor

(* publishCurrent, and the unlock.  Its raw reading feeds only the guard   *)
(* and a field nobody consults.                                            *)
PublishCurrent ==
    /\ writer.at = "publish"
    /\ ReadGuard
    /\ LET next == [assurance |-> ac, estimate |-> est, gen |-> snap.gen + 1]
           ok == ValidPublication(snap, next)
       IN  /\ snap' = IF ok THEN next ELSE snap
           /\ poll' = CASE writer.op = "round" /\ (writer.failed \/ ~ok) ->
                                Polling("failed")
                        [] writer.op = "round" /\ ~writer.failed /\ ok -> Polling("idle")
                        [] writer.op = "failure" -> Polling("idle")
                        [] OTHER -> poll
    /\ writer' = Free
    /\ UNCHANGED <<device, ac, est, readers, left>>

Write ==
    \/ LockRound \/ LockExternal \/ LockFailure \/ Invalidate
    \/ InitializeEstimate \/ WriterRead \/ ApplyRound \/ ApplyExternal
    \/ ApplyFailure \/ VerifyHoldover \/ PublishCurrent

-----------------------------------------------------------------------------
(* Readers: Now, and CommitWait, which polls PastWatermark.                *)

StartCommitWait(r) ==
    /\ Spend("commit")
    /\ rpc[r] = "idle" /\ waiting[r] = NoCommit
    /\ \E t \in CommitTimes : waiting' = [waiting EXCEPT ![r] = t]
    /\ UNCHANGED <<device, guard, published, writer, poll, rpc, held, reading,
                   wrong>>

(* Calls of Now are counted, the polls of CommitWait are not.              *)
Acquire(r) ==
    /\ rpc[r] = "idle"
    /\ IF waiting[r] = NoCommit THEN Spend("now") ELSE UNCHANGED left
    /\ rpc' = [rpc EXCEPT ![r] = "acquired"]
    /\ held' = [held EXCEPT ![r] = snap.assurance]
    /\ UNCHANGED <<device, guard, published, writer, poll, reading, wrong,
                   waiting>>

(* (Mutant: an end point is certified to be past.)                         *)
AfterInclusive(i, x) ==
    IF i.earliest >= x THEN "yes" ELSE IF i.latest <= x THEN "no" ELSE "unknown"

(* After and Before, on an interval that is served.                        *)
After(i, x) ==
    IF i.earliest > x THEN "yes" ELSE IF i.latest <= x THEN "no" ELSE "unknown"

Before(i, x) ==
    IF i.latest < x THEN "yes" ELSE IF i.earliest >= x THEN "no" ELSE "unknown"

(* The calls that would answer wrongly at true time t, with interval i:    *)
(* Now, or After and Before asked about an instant near t.                 *)
WrongAnswers(i, t) ==
    {a \in Answers :
        CASE a = "Now" -> ~Contains(i, t)
          [] a = "After" ->
                \E x \in (i.earliest - 1)..(i.latest + 1) :
                    After(i, x) = (IF t > One * x THEN "no" ELSE "yes")
          [] a = "Before" ->
                \E x \in (i.earliest - 1)..(i.latest + 1) :
                    Before(i, x) = (IF t < One * x THEN "no" ELSE "yes")}

ReadRaw(r) ==
    /\ rpc[r] = "acquired"
    /\ rpc' = [rpc EXCEPT ![r] = "read"]
    /\ ReadGuard
    /\ reading' = [reading EXCEPT ![r] = Answer]
    /\ wrong' = [wrong EXCEPT ![r] =
            IF /\ Anchored(held[r])
               /\ Propagates(held[r].anchor, Answer.raw, Answer.token)
            THEN WrongAnswers(Propagated(held[r].anchor, Answer.raw), truth)
            ELSE {}]
    /\ UNCHANGED <<device, published, writer, poll, held, waiting, left>>

(* The locals are dead once the call returns.                              *)
Return(r) ==
    /\ rpc[r] = "read"
    /\ rpc' = [rpc EXCEPT ![r] = "idle"]
    /\ held' = [held EXCEPT ![r] = NewAssuranceClock]
    /\ reading' = [reading EXCEPT ![r] = NoReading]
    /\ wrong' = [wrong EXCEPT ![r] = {}]
    /\ UNCHANGED <<device, guard, published, writer, poll, left>>

ServesReader(r) == rpc[r] = "read" /\ Serves(held[r], reading[r])

AnswerNow(r) ==
    /\ waiting[r] = NoCommit
    /\ Return(r)
    /\ UNCHANGED waiting

Committed(r) ==
    waiting[r] # NoCommit /\ ServesReader(r) /\ held[r].watermark > waiting[r]

(* nil when the watermark has passed, an error when there is no usable     *)
(* anchor; otherwise the timer runs and PastWatermark is asked again.      *)
AnswerCommitWait(r) ==
    /\ waiting[r] # NoCommit
    /\ Return(r)
    /\ waiting' = [waiting EXCEPT ![r] =
            IF Committed(r) \/ ~ServesReader(r) THEN NoCommit ELSE @]

(* The caller's context ends while CommitWait sleeps.                      *)
CancelCommitWait(r) ==
    /\ rpc[r] = "idle" /\ waiting[r] # NoCommit
    /\ waiting' = [waiting EXCEPT ![r] = NoCommit]
    /\ UNCHANGED <<device, guard, published, writer, poll, rpc, held, reading,
                   wrong, left>>

Reads(r) ==
    \/ StartCommitWait(r) \/ Acquire(r) \/ ReadRaw(r) \/ AnswerNow(r)
    \/ AnswerCommitWait(r) \/ CancelCommitWait(r)

-----------------------------------------------------------------------------
World == Tick \/ Rewind \/ Reset \/ ChangeScale \/ FalseAlarm

Poll == Select \/ QueryFails \/ ForgetFailure

Next == World \/ Poll \/ Write \/ \E r \in Readers : Reads(r)

Spec == Init /\ [][Next]_vars

(* Time passes, and a goroutine inside Now or CommitWait goes on: the Go   *)
(* scheduler runs every runnable goroutine, and CommitWait's timer fires.  *)
Fairness ==
    /\ WF_vars(Tick)
    /\ \A r \in Readers :
        /\ WF_vars(Acquire(r))
        /\ WF_vars(ReadRaw(r))
        /\ WF_vars(AnswerNow(r) \/ AnswerCommitWait(r))

FairSpec == Spec /\ Fairness

-----------------------------------------------------------------------------
(* Properties.                                                             *)

(* A served interval holds the true time of the reading it was computed    *)
(* for, whatever the clock, the envelope and the writer did between        *)
(* Acquire, the reading and the look at the envelope: Now, After, Before   *)
(* and NowPublicAssured rest on it.  Assumes honest hulls.                 *)
IntervalHoldsTruth == \A r \in Readers : ServesReader(r) => "Now" \notin wrong[r]

(* After and Before never certify what is false at the moment of their     *)
(* reading, also for an instant that is an end point of the interval.      *)
DecisionsAreCertain ==
    \A r \in Readers : ServesReader(r) => wrong[r] \cap {"After", "Before"} = {}

(* No published watermark is ahead of true time, also one earned before a  *)
(* reset of the raw clock, under another envelope or by an anchor given up *)
(* since.  True time does not go back, so that PastWatermark certifies     *)
(* only what is past and CommitWait's nil means its timestamp is past.     *)
WatermarkIsPast == One * snap.assurance.watermark <= truth

(* The same round's evidence, with a deadline no later.                    *)
KeepsEvidence(old, new) ==
    /\ new.anchor.validUntil <= old.anchor.validUntil
    /\ [new.anchor EXCEPT !.validUntil = 0] = [old.anchor EXCEPT !.validUntil = 0]
    /\ new.lastRound = old.lastRound

(* A failed round never lengthens an anchor's life, however often rounds   *)
(* fail and whatever the limit: as long as the round is the same one, the  *)
(* published deadline only comes closer and the evidence stays the same    *)
(* (BeginHoldover: "a cap may shorten, but never extend").                 *)
FailureNeverRenews ==
    [][ /\ Anchored(snap.assurance) /\ Anchored(snap.assurance')
        /\ snap.assurance'.anchor.gen = snap.assurance.anchor.gen
        => KeepsEvidence(snap.assurance, snap.assurance') ]_snap

(* Once a snapshot without an interval is out, an interval comes back only *)
(* with an anchor made after it: no desynchronized anchor is revived.      *)
OnlyRoundsRestore ==
    [][ ~Anchored(snap.assurance) /\ Anchored(snap.assurance')
        => snap.assurance'.anchor.gen > snap.assurance.gen ]_snap

(* Between transactions readers see the writer's state: no transition, and *)
(* no invalidation in particular, is left unpublished.                     *)
PublishedIsCurrent ==
    writer.at = "free" => snap.assurance = ac /\ snap.estimate = est

(* An anchor that the writer has given up is not served any more once the  *)
(* transaction is over: "Invalidate discards active assurance", "only a    *)
(* new trusted round may restore SYNCED".                                  *)
DesyncIsFinal ==
    writer.at = "free" /\ ac.status = "DESYNC" => ~Serves(snap.assurance, Answer)

(* Estimate and anchor of a published snapshot come from the same round.   *)
SnapshotNotTorn ==
    Anchored(snap.assurance) => snap.estimate.raw = snap.assurance.anchor.raw

(* While the old anchor is good, a new round can only narrow what it says: *)
(* a hull that contradicts it ends in DESYNC and never replaces it.        *)
RoundNarrows ==
    [][ /\ Anchored(ac) /\ ac'.status = "SYNCED"
        /\ ac'.anchor.token = ac.anchor.token
        /\ ac'.anchor.scale = ac.anchor.scale
        /\ ac'.anchor.gen # ac.anchor.gen
        /\ Propagates(ac.anchor, ac'.anchor.raw, ac.anchor.token)
        => LET old == Propagated(ac.anchor, ac'.anchor.raw)
           IN  /\ old.earliest <= ac'.anchor.earliest
               /\ ac'.anchor.earliest <= ac'.anchor.latest
               /\ ac'.anchor.latest <= old.latest ]_ac

(* CommitWait returns, with or without a deadline: if rounds stop coming   *)
(* the anchor expires.                                                     *)
CommitWaitReturns == \A r \in Readers : waiting[r] # NoCommit ~> waiting[r] = NoCommit
=============================================================================
