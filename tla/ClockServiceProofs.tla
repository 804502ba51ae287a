------------------------- MODULE ClockServiceProofs -------------------------
(***************************************************************************)
(* Theorems about ClockService, for every number of readers, every bound,  *)
(* every hull an outside caller or a round may bring, and every envelope.  *)
(*                                                                         *)
(* TypeOK is not inductive: BeginHoldover writes into ac.anchor, which is  *)
(* a record only because the status says so (Coherent).  The properties of *)
(* published snapshots compare a snapshot with its successor, which is the *)
(* writer's state: so the invariant relates snap to ac while ac is ahead   *)
(* of it (Ahead).                                                          *)
(***************************************************************************)
EXTENDS ClockService, TLAPS

Coherent(s) ==
    /\ Anchored(s) => /\ s.anchor \in Anchor
                      /\ s.anchor.earliest <= s.anchor.latest
    /\ ~Anchored(s) => s.anchor = NoAnchor

(* What the writer may have done since it published `old'.                 *)
Ahead(old, new) ==
    /\ old.gen <= new.gen
    /\ Anchored(old) => old.anchor.gen <= old.gen
    /\ Anchored(new) => new.anchor.gen <= new.gen
    /\ Anchored(new) /\ ~Anchored(old) => new.anchor.gen > old.gen
    /\ Anchored(new) /\ Anchored(old) /\ new.anchor.gen = old.anchor.gen
       => KeepsEvidence(old, new)

IInv ==
    /\ TypeOK
    /\ Coherent(ac)
    /\ Coherent(snap.assurance)
    /\ Ahead(snap.assurance, ac)

-----------------------------------------------------------------------------
(* The operators of AssuranceClock, one step of its state machine each.    *)

ToDesync(old, new) == ~Anchored(new) /\ new.gen = old.gen + 1

ToRound(old, new) ==
    /\ Anchored(new)
    /\ new.gen = old.gen + 1
    /\ new.anchor.gen = new.gen

ToHoldover(old, new) ==
    /\ Anchored(old) /\ Anchored(new)
    /\ new.gen = old.gen + 1
    /\ new.anchor.gen = old.anchor.gen
    /\ KeepsEvidence(old, new)

Sound(s) == s \in State /\ Coherent(s)

LEMMA NewIsSound == Sound(NewAssuranceClock)
  BY DEF Sound, Coherent, State, Statuses, Anchored, NewAssuranceClock, LongAgo

LEMMA DesyncStep ==
  ASSUME NEW s, Sound(s)
  PROVE  /\ Sound(TransitionToDesync(s))
         /\ ToDesync(s, TransitionToDesync(s))
  BY DEF Sound, Coherent, State, Statuses, Anchored, TransitionToDesync, ToDesync

LEMMA NewDeadline ==
  ASSUME NEW x \in Anchor, NEW u \in Nat
  PROVE  LET y == [x EXCEPT !.validUntil = u]
         IN  /\ y \in Anchor
             /\ y.validUntil = u /\ y.gen = x.gen
             /\ y.earliest = x.earliest /\ y.latest = x.latest
             /\ [y EXCEPT !.validUntil = 0] = [x EXCEPT !.validUntil = 0]
  BY DEF Anchor

LEMMA HoldoverStep ==
  ASSUME NEW s, Sound(s), NEW age \in Nat
  PROVE  /\ Sound(BeginHoldover(s, age))
         /\ \/ BeginHoldover(s, age) = s
            \/ ToHoldover(s, BeginHoldover(s, age))
<1>1. CASE ~Anchored(s)
  BY <1>1 DEF BeginHoldover
<1>2. CASE Anchored(s)
  <2> DEFINE until == Shortened(s.anchor.validUntil, s.lastRound, age)
             a == [s.anchor EXCEPT !.validUntil = until]
             t == BeginHoldover(s, age)
  <2>1. s \in State /\ s.anchor \in Anchor /\ s.anchor.earliest <= s.anchor.latest
    BY <1>2 DEF Sound, Coherent
  <2>2. s.anchor.validUntil \in Nat /\ s.lastRound \in Nat
    <3>1. s.lastRound \in Nat
      BY <2>1 DEF State
    <3> QED BY <2>1, <3>1 DEF Anchor
  <2>3. until \in Nat /\ until <= s.anchor.validUntil
    BY <2>2 DEF Shortened, Earlier
  <2>4. /\ a \in Anchor
        /\ a.validUntil = until /\ a.gen = s.anchor.gen
        /\ a.earliest = s.anchor.earliest /\ a.latest = s.anchor.latest
        /\ [a EXCEPT !.validUntil = 0] = [s.anchor EXCEPT !.validUntil = 0]
    <3> HIDE DEF until
    <3> QED BY <2>1, <2>3, NewDeadline
  <2>5. t = [status |-> "HOLDOVER", anchor |-> a, lastRound |-> s.lastRound,
             watermark |-> s.watermark, gen |-> s.gen + 1]
    BY <1>2 DEF BeginHoldover
  <2> HIDE DEF a, t, until
  <2>6. t \in State
    BY <2>1, <2>4, <2>5 DEF State, Statuses
  <2>7. Coherent(t)
    BY <2>1, <2>4, <2>5 DEF Coherent, Anchored
  <2>8. ToHoldover(s, t)
    BY <1>2, <2>3, <2>4, <2>5 DEF ToHoldover, KeepsEvidence, Anchored
  <2> QED BY <2>6, <2>7, <2>8 DEF Sound, t
<1> QED BY <1>1, <1>2

LEMMA MulScaleType ==
  ASSUME NEW s \in Int, NEW d \in Int
  PROVE  MulScaleFloor(s, d) \in Int /\ MulScaleCeil(s, d) \in Int
<1>1. One \in Nat \ {0}
  BY AssuranceAssumption
<1>2. s * d \in Int
  OBVIOUS
<1> DEFINE p == s * d
<1>3. p \in Int
  BY <1>2
<1> HIDE DEF p
<1>4. (p \div One) \in Int /\ ((p + One - 1) \div One) \in Int
  BY <1>1, <1>3
<1> QED BY <1>4 DEF MulScaleFloor, MulScaleCeil, p

LEMMA PropagatedType ==
  ASSUME NEW a \in Anchor, NEW r \in Nat
  PROVE  Propagated(a, r) \in Interval
<1> DEFINE dr == r - a.raw
           error == 2 * ReadBound
           drLo == IF dr > error THEN dr - error ELSE 0
<1>1. /\ a.raw \in Nat /\ a.earliest \in Int /\ a.latest \in Int
      /\ a.scale.lower \in Int /\ a.scale.upper \in Int
  BY DEF Anchor, Scale
<1>2. drLo \in Int /\ dr + error \in Int
  BY <1>1, AssuranceAssumption
<1>3. /\ MulScaleFloor(a.scale.lower, drLo) \in Int
      /\ MulScaleCeil(a.scale.upper, dr + error) \in Int
  <2> HIDE DEF drLo, dr, error
  <2> QED BY <1>1, <1>2, MulScaleType
<1>4. Propagated(a, r) =
        [earliest |-> a.earliest + MulScaleFloor(a.scale.lower, drLo),
         latest   |-> a.latest + MulScaleCeil(a.scale.upper, dr + error)]
  BY DEF Propagated
<1> HIDE DEF drLo, dr, error
<1> QED BY <1>1, <1>3, <1>4 DEF Interval

LEMMA RoundStep ==
  ASSUME NEW s, Sound(s), NEW r \in Nat, NEW hull \in Interval,
         NEW sc \in Scale, NEW tok \in Nat, NEW until \in Nat
  PROVE  /\ Sound(ProcessFullRound(s, r, hull, sc, tok, until))
         /\ \/ ToDesync(s, ProcessFullRound(s, r, hull, sc, tok, until))
            \/ ToRound(s, ProcessFullRound(s, r, hull, sc, tok, until))
<1> DEFINE i == RoundInterval(s, r, hull, sc, tok)
           a == NewAnchor(s, r, i, sc, tok, until)
           t == ProcessFullRound(s, r, hull, sc, tok, until)
<1>0. s \in State
  BY DEF Sound
<1>1. i \in Interval
  <2>1. CASE Anchored(s)
    <3>1. Propagated(s.anchor, r) \in Interval
      BY <2>1, PropagatedType DEF Sound, Coherent
    <3>2. Intersection(hull, Propagated(s.anchor, r)) \in Interval
      BY <3>1 DEF Intersection, Interval, Later, Earlier
    <3> QED BY <3>2 DEF RoundInterval
  <2>2. CASE ~Anchored(s)
    BY <2>2 DEF RoundInterval
  <2> QED BY <2>1, <2>2
<1>2. CASE Conflicts(i)
  <2>1. t = TransitionToDesync(s)
    BY <1>2 DEF ProcessFullRound
  <2> QED BY <2>1, DesyncStep
<1>3. CASE ~Conflicts(i)
  <2>1. t = [status |-> "SYNCED", anchor |-> a, lastRound |-> r,
             watermark |-> Later(i.earliest, s.watermark), gen |-> s.gen + 1]
    BY <1>3 DEF ProcessFullRound
  <2> HIDE DEF i, t
  <2>2. s.gen \in Nat \ {0} /\ s.watermark \in Int
    BY <1>0 DEF State
  <2>3. i.earliest \in Int /\ i.latest \in Int /\ i.earliest <= i.latest
    BY <1>1, <1>3 DEF Interval, Conflicts
  <2>4. /\ a \in Anchor /\ a.gen = s.gen + 1
        /\ a.earliest = i.earliest /\ a.latest = i.latest
    BY <2>2, <2>3 DEF Anchor, NewAnchor
  <2>5. Later(i.earliest, s.watermark) \in Int
    BY <2>2, <2>3 DEF Later
  <2> HIDE DEF a
  <2>6. t \in State
    BY <2>1, <2>2, <2>4, <2>5 DEF State, Statuses
  <2>7. Coherent(t)
    BY <2>1, <2>3, <2>4 DEF Coherent, Anchored
  <2>8. ToRound(s, t)
    BY <2>1, <2>2, <2>4 DEF ToRound, Anchored
  <2> QED BY <2>6, <2>7, <2>8 DEF Sound, t
<1> QED BY <1>2, <1>3

-----------------------------------------------------------------------------
(* What the other operators return.                                        *)

LEMMA GuardStep ==
  ASSUME TypeOK
  PROVE  GuardAfter(guard, dev) \in Guard /\ Answer \in Reading
<1>1. guard \in Guard /\ dev \in Reading
  BY DEF TypeOK
<1>2. guard.token \in Nat /\ GuardAfter(guard, dev).token \in Nat
  BY <1>1 DEF Guard, GuardAfter
<1>3. GuardAfter(guard, dev) \in Guard
  BY <1>1, <1>2 DEF Guard, GuardAfter
<1>4. Answer \in Reading
  BY <1>1, <1>2 DEF Answer, GuardAnswer, Reading
<1> QED BY <1>3, <1>4

LEMMA EnvelopeType ==
  ASSUME TypeOK
  PROVE  scale \in Scale
  BY ServiceAssumption DEF TypeOK, scale

LEMMA HullType ==
  ASSUME TypeOK, NEW h \in Hulls
  PROVE  h \in Interval
<1>1. One \in Nat \ {0} /\ truth \in Nat /\ HullSlack \subseteq Int \X Int
  BY AssuranceAssumption, ServiceAssumption DEF TypeOK
<1>2. truth \div One \in Int /\ (truth + One - 1) \div One \in Int
  BY <1>1
<1>3. PICK x \in HullSlack :
        h = [earliest |-> truth \div One - x[1],
             latest |-> (truth + One - 1) \div One + x[2]]
  BY DEF Hulls
<1>4. x[1] \in Int /\ x[2] \in Int
  BY <1>1
<1> DEFINE l == truth \div One
           u == (truth + One - 1) \div One
<1>5. l \in Int /\ u \in Int
  BY <1>2
<1> HIDE DEF l, u
<1>6. l - x[1] \in Int /\ u + x[2] \in Int
  BY <1>4, <1>5
<1>7. h = [earliest |-> l - x[1], latest |-> u + x[2]]
  BY <1>3 DEF l, u
<1> QED BY <1>6, <1>7 DEF Interval

LEMMA SelectionType ==
  /\ NoSelection \in Selection
  /\ NoReading \in Reading
  BY DEF NoSelection, Selection, Scale, Interval, NoReading, Reading

LEMMA StageType ==
  ASSUME NEW op \in Ops, NEW at \in {"free", "read", "apply", "verify", "publish"},
         NEW sel \in Selection
  PROVE  Stage(op, at, sel) \in Transaction
  BY SelectionType DEF Stage, Transaction

LEMMA ThenType ==
  ASSUME TypeOK, NEW at \in {"free", "read", "apply", "verify", "publish"}
  PROVE  Then(at) \in Transaction
<1>1. writer.op \in Ops
  BY DEF TypeOK, Transaction
<1> QED BY <1>1, SelectionType, StageType DEF Then

LEMMA FreeType == Free \in Transaction
  BY SelectionType, StageType DEF Free, Ops

LEMMA PollingType ==
  ASSUME NEW at \in {"idle", "selected", "failed", "writing"}
  PROVE  Polling(at) \in Polled
  BY SelectionType DEF Polling, Polled

-----------------------------------------------------------------------------
(* The writer's state moves by steps of the state machine only, and what   *)
(* is published is that state.                                             *)

WriterMoves ==
    \/ ac' = ac
    \/ Sound(ac') /\ ToDesync(ac, ac')
    \/ Sound(ac') /\ ToRound(ac, ac')
    \/ Sound(ac') /\ ToHoldover(ac, ac')

SnapshotMoves ==
    \/ snap' = snap
    \/ snap'.assurance = ac /\ ac' = ac

LEMMA AcMoves ==
  ASSUME IInv, [Next]_vars
  PROVE  WriterMoves
<1>0. TypeOK /\ Sound(ac)
  BY DEF IInv, Sound, TypeOK
<1>1. CASE ApplyRound
  <2> DEFINE sel == writer.sel
  <2>1. sel \in Selection
    BY <1>0 DEF TypeOK, Transaction
  <2>2. /\ sel.raw \in Nat /\ sel.token \in Nat
        /\ sel.scale \in Scale /\ sel.hull \in Interval
    BY <2>1 DEF Selection
  <2>3. sel.raw + MaxAge \in Nat
    BY <2>2, ServiceAssumption
  <2>4. ac' = TransitionToDesync(ac)
        \/ ac' = ProcessFullRound(ac, sel.raw, sel.hull, sel.scale, sel.token,
                                  sel.raw + MaxAge)
    BY <1>1 DEF ApplyRound
  <2> QED BY <1>0, <2>2, <2>3, <2>4, DesyncStep, RoundStep DEF WriterMoves
<1>2. CASE ApplyExternal
  <2> DEFINE sel == writer.sel
  <2>1. sel \in Selection /\ writer.now \in Reading
    BY <1>0 DEF TypeOK, Transaction
  <2>2. sel.raw \in Nat /\ sel.hull \in Interval
    BY <2>1 DEF Selection
  <2>3. writer.now.token \in Nat
    BY <2>1 DEF Reading
  <2>4. PICK validUntil \in Deadlines :
          ac' = ProcessFullRound(ac, sel.raw, sel.hull, scale, writer.now.token,
                                 validUntil)
    BY <1>2 DEF ApplyExternal
  <2>5. validUntil \in Nat
    BY <2>4, ServiceAssumption
  <2> QED BY <1>0, <2>2, <2>3, <2>4, <2>5, EnvelopeType, RoundStep DEF WriterMoves
<1>3. CASE ApplyFailure
  <2>1. ac' = TransitionToDesync(ac)
        \/ \E age \in HoldoverAges : ac' = BeginHoldover(ac, age)
    BY <1>3 DEF ApplyFailure
  <2>2. HoldoverAges \subseteq Nat
    BY ServiceAssumption
  <2> QED BY <1>0, <2>1, <2>2, DesyncStep, HoldoverStep DEF WriterMoves
<1>4. CASE VerifyHoldover
  BY <1>0, <1>4, DesyncStep DEF VerifyHoldover, WriterMoves
<1>5. CASE Invalidate
  BY <1>0, <1>5, DesyncStep DEF Invalidate, WriterMoves
<1>6. CASE World \/ Poll \/ \E r \in Readers : Reads(r)
  BY <1>6 DEF WriterMoves, World, Tick, Rewind, Reset, ChangeScale, FalseAlarm,
     Poll, Select, QueryFails, ForgetFailure, Reads, StartCommitWait, Acquire,
     ReadRaw, AnswerNow, AnswerCommitWait, CancelCommitWait, Return, published
<1>7. CASE LockRound \/ LockExternal \/ LockFailure \/ InitializeEstimate
           \/ WriterRead \/ PublishCurrent
  BY <1>7 DEF WriterMoves, LockRound, LockExternal, LockFailure,
     InitializeEstimate, WriterRead, PublishCurrent, published
<1>8. CASE UNCHANGED vars
  BY <1>8 DEF vars, published, WriterMoves
<1> QED BY <1>1, <1>2, <1>3, <1>4, <1>5, <1>6, <1>7, <1>8 DEF Next, Write

LEMMA SnapMoves ==
  ASSUME [Next]_vars
  PROVE  SnapshotMoves
<1>1. CASE PublishCurrent
  BY <1>1 DEF PublishCurrent, SnapshotMoves
<1>2. CASE World \/ Poll \/ \E r \in Readers : Reads(r)
  BY <1>2 DEF SnapshotMoves, World, Tick, Rewind, Reset, ChangeScale, FalseAlarm,
     Poll, Select, QueryFails, ForgetFailure, Reads, StartCommitWait, Acquire,
     ReadRaw, AnswerNow, AnswerCommitWait, CancelCommitWait, Return, published
<1>3. CASE LockRound \/ LockExternal \/ LockFailure \/ Invalidate
           \/ InitializeEstimate \/ WriterRead \/ ApplyRound \/ ApplyExternal
           \/ ApplyFailure \/ VerifyHoldover
  BY <1>3 DEF SnapshotMoves, LockRound, LockExternal, LockFailure, Invalidate,
     InitializeEstimate, WriterRead, ApplyRound, ApplyExternal, ApplyFailure,
     VerifyHoldover, published
<1>4. CASE UNCHANGED vars
  BY <1>4 DEF vars, published, SnapshotMoves
<1> QED BY <1>1, <1>2, <1>3, <1>4 DEF Next, Write

-----------------------------------------------------------------------------
(* The writer stays ahead of what it has published.                        *)

LEMMA SoundNumbers ==
  ASSUME NEW s, Sound(s)
  PROVE  /\ s.gen \in Nat
         /\ Anchored(s) => s.anchor.gen \in Nat /\ s.anchor.validUntil \in Nat
<1>1. s.gen \in Nat
  BY DEF Sound, State
<1>2. ASSUME Anchored(s) PROVE s.anchor.gen \in Nat /\ s.anchor.validUntil \in Nat
  <2>1. s.anchor \in Anchor
    BY <1>2 DEF Sound, Coherent
  <2> QED BY <2>1 DEF Anchor
<1> QED BY <1>1, <1>2

LEMMA AheadOfItself ==
  ASSUME NEW s, Sound(s), Anchored(s) => s.anchor.gen <= s.gen
  PROVE  Ahead(s, s)
  BY SoundNumbers DEF Ahead, KeepsEvidence

LEMMA StaysAhead ==
  ASSUME NEW old, NEW cur, NEW new, Sound(old), Sound(cur), Sound(new),
         Ahead(old, cur),
         ToDesync(cur, new) \/ ToRound(cur, new) \/ ToHoldover(cur, new)
  PROVE  Ahead(old, new)
<1>1. /\ old.gen \in Nat /\ cur.gen \in Nat /\ new.gen \in Nat
      /\ Anchored(old) => old.anchor.gen \in Nat /\ old.anchor.validUntil \in Nat
      /\ Anchored(cur) => cur.anchor.gen \in Nat /\ cur.anchor.validUntil \in Nat
      /\ Anchored(new) => new.anchor.gen \in Nat /\ new.anchor.validUntil \in Nat
  BY SoundNumbers
<1>2. CASE ToDesync(cur, new)
  BY <1>1, <1>2 DEF ToDesync, Ahead
<1>3. CASE ToRound(cur, new)
  BY <1>1, <1>3 DEF ToRound, Ahead
<1>4. CASE ToHoldover(cur, new)
  <2>1. Anchored(cur) /\ Anchored(new) /\ new.anchor.gen = cur.anchor.gen
    BY <1>4 DEF ToHoldover
  <2>2. /\ old.gen <= new.gen
        /\ Anchored(old) => old.anchor.gen <= old.gen
        /\ new.anchor.gen <= new.gen
        /\ ~Anchored(old) => new.anchor.gen > old.gen
    BY <1>1, <1>4, <2>1 DEF ToHoldover, Ahead
  <2>3. ASSUME Anchored(old), new.anchor.gen = old.anchor.gen
        PROVE  KeepsEvidence(old, new)
    <3>1. KeepsEvidence(old, cur) /\ KeepsEvidence(cur, new)
      BY <1>4, <2>1, <2>3 DEF Ahead, ToHoldover
    <3> QED BY <1>1, <2>1, <2>3, <3>1 DEF KeepsEvidence
  <2> QED BY <2>1, <2>2, <2>3 DEF Ahead
<1> QED BY <1>2, <1>3, <1>4

LEMMA AheadStep ==
  ASSUME IInv, [Next]_vars
  PROVE  /\ Sound(ac') /\ Sound(snap'.assurance)
         /\ Ahead(snap'.assurance, ac')
<1>1. Sound(ac) /\ Sound(snap.assurance) /\ Ahead(snap.assurance, ac)
  BY DEF IInv, TypeOK, Snapshot, Sound
<1>2. WriterMoves
  BY AcMoves
<1>3. Sound(ac')
  BY <1>1, <1>2 DEF WriterMoves
<1>4. CASE snap' = snap
  <2>1. Ahead(snap.assurance, ac')
    BY <1>1, <1>2, <1>3, StaysAhead DEF WriterMoves
  <2> QED BY <1>1, <1>3, <1>4, <2>1
<1>5. CASE snap'.assurance = ac /\ ac' = ac
  <2>1. Anchored(ac) => ac.anchor.gen <= ac.gen
    BY <1>1 DEF Ahead
  <2>2. Ahead(ac, ac)
    BY <1>1, <2>1, AheadOfItself
  <2> QED BY <1>1, <1>5, <2>2
<1> QED BY <1>4, <1>5, SnapMoves DEF SnapshotMoves

-----------------------------------------------------------------------------
(* Types.                                                                  *)

LEMMA InitIInv == Init => IInv
<1> SUFFICES ASSUME Init PROVE IInv
  OBVIOUS
<1>1. Sound(NewAssuranceClock) /\ ~Anchored(NewAssuranceClock)
  BY NewIsSound DEF Anchored, NewAssuranceClock
<1>2. /\ dev \in Reading /\ truth \in Nat /\ skew \in -ReadBound..ReadBound
      /\ scaleNo \in 1..Len(Envelopes)
  BY AssuranceAssumption, ServiceAssumption DEF Init, Reading
<1>3. guard \in Guard
  BY SelectionType DEF Init, NewGuard, Guard
<1>4. est \in Estimate
  BY DEF Init, Estimate
<1>5. snap \in Snapshot
  BY <1>1, <1>4 DEF Init, Snapshot, Sound
<1>6. writer \in Transaction /\ poll \in Polled
  BY FreeType, PollingType DEF Init
<1>7. /\ rpc \in [Readers -> {"idle", "acquired", "read"}]
      /\ held \in [Readers -> State]
      /\ reading \in [Readers -> Reading]
      /\ waiting \in [Readers -> CommitTimes \union {NoCommit}]
      /\ wrong \in [Readers -> SUBSET Answers]
  BY <1>1, SelectionType DEF Init, Sound
<1>8. left \in [Kinds -> Nat]
  BY ServiceAssumption DEF Init
<1>9. ac \in State
  BY <1>1 DEF Init, Sound
<1>10. TypeOK
  BY <1>2, <1>3, <1>4, <1>5, <1>6, <1>7, <1>8, <1>9 DEF TypeOK
<1>11. ac = NewAssuranceClock /\ snap.assurance = NewAssuranceClock
  BY DEF Init
<1>12. Ahead(NewAssuranceClock, NewAssuranceClock)
  BY <1>1, AheadOfItself
<1> QED BY <1>1, <1>10, <1>11, <1>12 DEF IInv, Sound

LEMMA SpendType ==
  ASSUME TypeOK, NEW k \in Kinds, Spend(k)
  PROVE  left' \in [Kinds -> Nat]
<1>1. left \in [Kinds -> Nat] /\ left[k] > 0
  BY DEF TypeOK, Spend
<1>2. left[k] - 1 \in Nat
  BY <1>1
<1> QED BY <1>1, <1>2 DEF Spend

LEMMA DeviceMoves ==
  ASSUME TypeOK, NEW d \in Nat
  PROVE  /\ Advanced(dev, d) \in Reading
         /\ Rewound(dev, d) \in Reading
         /\ [raw |-> d, token |-> dev.token, gen |-> dev.gen + 1] \in Reading
<1>1. dev \in Reading
  BY DEF TypeOK
<1>2. dev.raw \in Nat /\ dev.token \in Nat /\ dev.gen \in Nat
  BY <1>1 DEF Reading
<1>3. (IF d > dev.raw THEN 0 ELSE dev.raw - d) \in Nat
  BY <1>2
<1> QED BY <1>1, <1>2, <1>3 DEF Reading, Advanced, Rewound

LEMMA WorldTypes ==
  ASSUME TypeOK, World
  PROVE  TypeOK'
<1>1. CASE Tick
  <2>1. PICK step \in 0..(1 + 2 * ReadBound), rate \in Rates :
          /\ skew + 1 - step \in -ReadBound..ReadBound
          /\ dev' = Advanced(dev, step)
          /\ skew' = skew + 1 - step
          /\ truth' = truth + rate
    BY <1>1 DEF Tick
  <2>2. step \in Nat
    BY AssuranceAssumption
  <2>3. rate \in Nat
    <3>1. scale.lower \in Int /\ scale.upper \in Int
      BY EnvelopeType DEF Scale
    <3> QED BY <3>1, AssuranceAssumption DEF Rates, ValidScale
  <2>4. dev' \in Reading
    BY <2>1, <2>2, DeviceMoves
  <2>5. skew' \in -ReadBound..ReadBound
    BY <2>1
  <2>6. truth' \in Nat
    BY <2>1, <2>3 DEF TypeOK
  <2> QED BY <1>1, <2>4, <2>5, <2>6 DEF Tick, TypeOK, published, readers
<1>2. CASE Rewind
  <2>1. left' \in [Kinds -> Nat]
    BY <1>2, SpendType DEF Rewind, Kinds
  <2>2. PICK d \in 1..MaxRaw : dev' = Rewound(dev, d)
    BY <1>2 DEF Rewind
  <2>3. d \in Nat
    BY ServiceAssumption
  <2>4. dev' \in Reading
    BY <2>2, <2>3, DeviceMoves
  <2> QED BY <1>2, <2>1, <2>4 DEF Rewind, TypeOK, published, readers
<1>3. CASE Reset
  <2>1. left' \in [Kinds -> Nat]
    BY <1>3, SpendType DEF Reset, Kinds
  <2>2. dev' \in Reading
    BY <1>3, DeviceMoves, ServiceAssumption DEF Reset
  <2> QED BY <1>3, <2>1, <2>2 DEF Reset, TypeOK, published, readers
<1>4. CASE ChangeScale
  <2>1. left' \in [Kinds -> Nat]
    BY <1>4, SpendType DEF ChangeScale, Kinds
  <2>2. scaleNo' \in 1..Len(Envelopes)
    BY <1>4, ServiceAssumption DEF ChangeScale, TypeOK
  <2> QED BY <1>4, <2>1, <2>2 DEF ChangeScale, TypeOK, published, readers
<1>5. CASE FalseAlarm
  <2>1. left' \in [Kinds -> Nat]
    BY <1>5, SpendType DEF FalseAlarm, Kinds
  <2>2. guard' \in Guard
    BY <1>5 DEF FalseAlarm, TypeOK, Guard
  <2> QED BY <1>5, <2>1, <2>2 DEF FalseAlarm, TypeOK, device, published, readers
<1> QED BY <1>1, <1>2, <1>3, <1>4, <1>5 DEF World

LEMMA PollTypes ==
  ASSUME TypeOK, Poll
  PROVE  TypeOK'
<1>1. CASE Select
  <2>1. left' \in [Kinds -> Nat]
    BY <1>1, SpendType DEF Select, Kinds
  <2>2. guard' \in Guard
    BY <1>1, GuardStep DEF Select, ReadGuard
  <2>3. PICK h \in Hulls :
          poll' = [at |-> "selected",
                   sel |-> [raw |-> Answer.raw, token |-> Answer.token,
                            gen |-> Answer.gen, scale |-> scale, hull |-> h]]
    BY <1>1 DEF Select
  <2>4. Answer.raw \in Nat /\ Answer.token \in Nat /\ Answer.gen \in Nat
    BY GuardStep DEF Reading
  <2>5. poll' \in Polled
    BY <2>3, <2>4, EnvelopeType, HullType DEF Polled, Selection
  <2> QED BY <1>1, <2>1, <2>2, <2>5 DEF Select, TypeOK, device, published, readers
<1>2. CASE QueryFails
  <2>1. left' \in [Kinds -> Nat]
    BY <1>2, SpendType DEF QueryFails, Kinds
  <2>2. guard' \in Guard /\ poll' \in Polled
    BY <1>2, GuardStep, PollingType DEF QueryFails, ReadGuard
  <2> QED BY <1>2, <2>1, <2>2 DEF QueryFails, TypeOK, device, published, readers
<1>3. CASE ForgetFailure
  BY <1>3, PollingType DEF ForgetFailure, TypeOK, device, published, readers
<1> QED BY <1>1, <1>2, <1>3 DEF Poll

LEMMA WriteTypes ==
  ASSUME IInv, Write, ac' \in State
  PROVE  TypeOK'
<1>0. TypeOK
  BY DEF IInv
<1>1. CASE LockRound
  <2>1. poll.sel \in Selection /\ "round" \in Ops
    BY <1>0 DEF TypeOK, Polled, Ops
  <2>2. writer' \in Transaction /\ poll' \in Polled
    BY <1>0, <1>1, <2>1, StageType, PollingType DEF LockRound, Lock, TypeOK
  <2> QED BY <1>0, <1>1, <2>2 DEF LockRound, TypeOK, device, published, readers
<1>2. CASE LockExternal
  <2>1. left' \in [Kinds -> Nat]
    BY <1>0, <1>2, SpendType DEF LockExternal, Kinds
  <2>2. PICK raw \in 0..MaxSelect, h \in Hulls :
          writer' = Stage("external", "read",
                [raw |-> raw, token |-> 0, gen |-> 0,
                 scale |-> NoSelection.scale, hull |-> h])
    BY <1>2 DEF LockExternal, Lock
  <2>3. raw \in Nat /\ NoSelection.scale \in Scale /\ h \in Interval
    BY <1>0, HullType, ServiceAssumption DEF TypeOK, NoSelection, Scale
  <2>4. [raw |-> raw, token |-> 0, gen |-> 0,
         scale |-> NoSelection.scale, hull |-> h] \in Selection
    BY <2>3 DEF Selection
  <2>5. writer' \in Transaction
    BY <2>2, <2>4, StageType DEF Ops
  <2> QED BY <1>0, <1>2, <2>1, <2>5 DEF LockExternal, TypeOK, device, published, readers
<1>3. CASE LockFailure
  <2>1. writer' \in Transaction /\ poll' \in Polled
    BY <1>0, <1>3, StageType, SelectionType, PollingType
    DEF LockFailure, Lock, TypeOK, Ops
  <2> QED BY <1>0, <1>3, <2>1 DEF LockFailure, TypeOK, device, published, readers
<1>4. CASE Invalidate
  <2>1. left' \in [Kinds -> Nat]
    BY <1>0, <1>4, SpendType DEF Invalidate, Kinds
  <2>2. writer' \in Transaction
    BY <1>4, StageType, SelectionType DEF Invalidate, Lock, Ops
  <2> QED BY <1>0, <1>4, <2>1, <2>2 DEF Invalidate, TypeOK, device, readers
<1>5. CASE InitializeEstimate
  <2>1. left' \in [Kinds -> Nat]
    BY <1>0, <1>5, SpendType DEF InitializeEstimate, Kinds
  <2>2. writer' \in Transaction
    BY <1>5, StageType, SelectionType DEF InitializeEstimate, Lock, Ops
  <2>3. est' \in Estimate
    BY <1>0, <1>5 DEF InitializeEstimate, TypeOK, Reading, Estimate
  <2> QED BY <1>0, <1>5, <2>1, <2>2, <2>3
          DEF InitializeEstimate, TypeOK, device, readers
<1>6. CASE WriterRead
  <2>1. writer.op \in Ops /\ writer.sel \in Selection
    BY <1>0 DEF TypeOK, Transaction
  <2>2. Stage(writer.op, "apply", writer.sel) \in Transaction
    BY <2>1, StageType
  <2>3. guard' \in Guard /\ writer' \in Transaction
    BY <1>0, <1>6, <2>2, GuardStep DEF WriterRead, ReadGuard, Transaction
  <2> QED BY <1>0, <1>6, <2>3 DEF WriterRead, TypeOK, device, published, readers
<1>7. CASE ApplyRound
  <2>1. writer.sel \in Selection
    BY <1>0 DEF TypeOK, Transaction
  <2>2. writer.sel.raw \in Nat /\ writer.sel.hull \in Interval
    BY <2>1 DEF Selection
  <2>3. Center(writer.sel.hull) \in Int
    BY <2>2 DEF Center, Width, Interval
  <2>4. RoundEstimate(writer.sel, writer.now) \in Estimate
    BY <2>2, <2>3 DEF RoundEstimate, Estimate
  <2>5. est' \in Estimate
    BY <1>0, <1>7, <2>4 DEF ApplyRound, TypeOK
  <2>6. writer' = [Then("publish") EXCEPT !.failed = ~Anchored(ac')]
    BY <1>7 DEF ApplyRound
  <2>7. Then("publish") \in Transaction
    BY <1>0, ThenType
  <2>8. writer' \in Transaction
    <3> DEFINE b == ~Anchored(ac')
    <3>1. b \in BOOLEAN
      BY Zenon DEF Anchored
    <3> HIDE DEF b
    <3>2. [Then("publish") EXCEPT !.failed = b] \in Transaction
      BY <2>7, <3>1 DEF Transaction
    <3> QED BY <2>6, <3>2 DEF b
  <2> QED BY <1>0, <1>7, <2>5, <2>8 DEF ApplyRound, TypeOK, device, readers
<1>8. CASE ApplyExternal
  BY <1>0, <1>8, ThenType DEF ApplyExternal, TypeOK, device, readers
<1>9. CASE ApplyFailure
  BY <1>0, <1>9, ThenType DEF ApplyFailure, TypeOK, device, readers
<1>10. CASE VerifyHoldover
  <2>1. guard' \in Guard /\ writer' \in Transaction
    BY <1>0, <1>10, GuardStep, ThenType DEF VerifyHoldover, ReadGuard
  <2> QED BY <1>0, <1>10, <2>1 DEF VerifyHoldover, TypeOK, device, readers
<1>11. CASE PublishCurrent
  <2>1. guard' \in Guard /\ writer' \in Transaction
    BY <1>0, <1>11, GuardStep, FreeType DEF PublishCurrent, ReadGuard
  <2>2. poll' \in Polled
    BY <1>0, <1>11, PollingType DEF PublishCurrent, TypeOK
  <2>3. snap.gen + 1 \in Nat \ {0} /\ ac \in State /\ est \in Estimate
    BY <1>0 DEF TypeOK, Snapshot
  <2>4. snap' \in Snapshot
    BY <1>0, <1>11, <2>3 DEF PublishCurrent, Snapshot, TypeOK
  <2> QED BY <1>0, <1>11, <2>1, <2>2, <2>4 DEF PublishCurrent, TypeOK, device, readers
<1> QED BY <1>1, <1>2, <1>3, <1>4, <1>5, <1>6, <1>7, <1>8, <1>9, <1>10, <1>11
        DEF Write

LEMMA ReadsTypes ==
  ASSUME TypeOK, NEW r \in Readers, Reads(r)
  PROVE  TypeOK'
<1>1. CASE StartCommitWait(r)
  <2>1. left' \in [Kinds -> Nat]
    BY <1>1, SpendType DEF StartCommitWait, Kinds
  <2> QED BY <1>1, <2>1 DEF StartCommitWait, TypeOK, device, published
<1>2. CASE Acquire(r)
  <2>1. snap.assurance \in State
    BY DEF TypeOK, Snapshot
  <2>2. left' \in [Kinds -> Nat]
    BY <1>2, SpendType DEF Acquire, Kinds, TypeOK
  <2> QED BY <1>2, <2>1, <2>2 DEF Acquire, TypeOK, device, published
<1>3. CASE ReadRaw(r)
  <2>1. guard' \in Guard /\ reading' \in [Readers -> Reading]
    BY <1>3, GuardStep DEF ReadRaw, ReadGuard, TypeOK
  <2>2. \A i, t : WrongAnswers(i, t) \in SUBSET Answers
    BY DEF WrongAnswers
  <2>3. wrong' \in [Readers -> SUBSET Answers]
    BY <1>3, <2>2 DEF ReadRaw, TypeOK
  <2> QED BY <1>3, <2>1, <2>3 DEF ReadRaw, TypeOK, device, published
<1>4. CASE AnswerNow(r) \/ AnswerCommitWait(r)
  <2>1. /\ Return(r)
        /\ waiting' \in [Readers -> CommitTimes \union {NoCommit}]
    BY <1>4 DEF AnswerNow, AnswerCommitWait, TypeOK
  <2>2. NewAssuranceClock \in State /\ NoReading \in Reading
    BY NewIsSound, SelectionType DEF Sound
  <2> QED BY <2>1, <2>2 DEF Return, TypeOK, device, published
<1>5. CASE CancelCommitWait(r)
  BY <1>5 DEF CancelCommitWait, TypeOK, device, published
<1> QED BY <1>1, <1>2, <1>3, <1>4, <1>5 DEF Reads

LEMMA NextIInv == IInv /\ [Next]_vars => IInv'
<1> SUFFICES ASSUME IInv, [Next]_vars PROVE IInv'
  OBVIOUS
<1>1. Sound(ac') /\ Sound(snap'.assurance) /\ Ahead(snap'.assurance, ac')
  BY AheadStep
<1>2. TypeOK'
  <2>1. TypeOK /\ ac' \in State
    BY <1>1 DEF IInv, Sound
  <2>2. CASE UNCHANGED vars
    BY <2>1, <2>2 DEF TypeOK, vars, device, published, readers
  <2> QED BY <2>1, <2>2, WorldTypes, PollTypes, WriteTypes, ReadsTypes DEF Next
<1> QED BY <1>1, <1>2 DEF IInv, Sound

LEMMA SpecIInv == Spec => []IInv
  BY InitIInv, NextIInv, PTL DEF Spec

(* Every variable keeps its type; in particular an anchor is present       *)
(* exactly when the status says so (AssuranceState).                       *)
THEOREM TypeCorrect == Spec => []TypeOK
<1>1. IInv => TypeOK
  BY DEF IInv
<1> QED BY <1>1, SpecIInv, PTL

-----------------------------------------------------------------------------
(* Snapshots.                                                              *)

(* A failed round never lengthens an anchor's life (BeginHoldover), however*)
(* many rounds fail and however they interleave with the other writers.    *)
THEOREM HoldoverNeverRenews == Spec => FailureNeverRenews
<1>1. ASSUME IInv, [Next]_vars
      PROVE  [ /\ Anchored(snap.assurance) /\ Anchored(snap.assurance')
               /\ snap.assurance'.anchor.gen = snap.assurance.anchor.gen
               => KeepsEvidence(snap.assurance, snap.assurance') ]_snap
  BY <1>1, SnapMoves DEF SnapshotMoves, IInv, Ahead
<1> QED BY <1>1, SpecIInv, PTL DEF Spec, FailureNeverRenews

(* A snapshot without an interval is followed by one with an interval only *)
(* when a round has made a new anchor since (TransitionToDesync).          *)
THEOREM DesyncEndsWithARound == Spec => OnlyRoundsRestore
<1>1. ASSUME IInv, [Next]_vars
      PROVE  [ ~Anchored(snap.assurance) /\ Anchored(snap.assurance')
               => snap.assurance'.anchor.gen > snap.assurance.gen ]_snap
  BY <1>1, SnapMoves DEF SnapshotMoves, IInv, Ahead
<1> QED BY <1>1, SpecIInv, PTL DEF Spec, OnlyRoundsRestore

(* Publication is refused for one reason only, an envelope that is not     *)
(* positive and ordered.                                                   *)
LEMMA NeverRefused ==
  ASSUME IInv, ValidScale(scale)
  PROVE  ValidPublication(snap, [assurance |-> ac, estimate |-> est, gen |-> snap.gen + 1])
<1>1. snap.gen \in Nat /\ snap.gen + 1 > snap.gen
  BY DEF IInv, TypeOK, Snapshot
<1>2. Anchored(ac) => ac.anchor # NoAnchor
  BY AssuranceAssumption DEF IInv, Coherent
<1> QED BY <1>1, <1>2 DEF ValidPublication, IInv, Coherent

(* Where every envelope is valid, each transaction ends with readers       *)
(* seeing the writer's state: no failure and no invalidation is lost       *)
(* (publishCurrent, ValidatePublication).  The run service_desync shows    *)
(* what happens under an envelope that is not.                             *)
THEOREM TransitionsArePublished ==
  ASSUME \A n \in 1..Len(Envelopes) : ValidScale(Envelopes[n])
  PROVE  Spec => []PublishedIsCurrent
<1>1. Init => PublishedIsCurrent
  BY DEF Init, PublishedIsCurrent
<1>2. ASSUME IInv, PublishedIsCurrent, [Next]_vars
      PROVE  PublishedIsCurrent'
  <2>0. TypeOK
    BY <1>2 DEF IInv
  <2>1. CASE PublishCurrent
    <3>1. ValidScale(scale)
      BY <2>0 DEF TypeOK, scale
    <3>2. snap' = [assurance |-> ac, estimate |-> est, gen |-> snap.gen + 1]
      BY <1>2, <2>1, <3>1, NeverRefused DEF PublishCurrent
    <3> QED BY <2>1, <3>2 DEF PublishCurrent, PublishedIsCurrent
  <2>2. CASE World \/ Poll \/ \E r \in Readers : Reads(r)
    BY <1>2, <2>2 DEF PublishedIsCurrent, World, Tick, Rewind, Reset,
       ChangeScale, FalseAlarm, Poll, Select, QueryFails, ForgetFailure, Reads,
       StartCommitWait, Acquire, ReadRaw, AnswerNow, AnswerCommitWait,
       CancelCommitWait, Return, published
  <2>3. CASE LockRound \/ LockFailure
    BY <1>2, <2>3 DEF PublishedIsCurrent, LockRound, LockFailure, Lock, Stage,
       published
  <2>4. CASE LockExternal \/ Invalidate \/ InitializeEstimate
    BY <2>4 DEF PublishedIsCurrent, LockExternal, Invalidate,
       InitializeEstimate, Lock, Stage
  <2>5. CASE WriterRead
    <3>1. Stage(writer.op, "apply", writer.sel).at = "apply"
      BY DEF Stage
    <3>2. writer'.at = "apply"
      BY <2>5, <3>1 DEF WriterRead, Stage
    <3> QED BY <3>2 DEF PublishedIsCurrent
  <2>6. CASE ApplyRound \/ ApplyExternal \/ ApplyFailure \/ VerifyHoldover
    <3>1. writer'.at \in {"publish", "verify"}
      BY <2>6 DEF ApplyRound, ApplyExternal, ApplyFailure, VerifyHoldover,
         Then, Stage
    <3> QED BY <3>1 DEF PublishedIsCurrent
  <2>7. CASE UNCHANGED vars
    BY <1>2, <2>7 DEF PublishedIsCurrent, vars, published
  <2> QED BY <1>2, <2>1, <2>2, <2>3, <2>4, <2>5, <2>6, <2>7 DEF Next, Write
<1> QED BY <1>1, <1>2, SpecIInv, PTL DEF Spec

-----------------------------------------------------------------------------
(* Rounds.                                                                 *)

LEMMA NarrowedRound ==
  ASSUME NEW s, Sound(s), Anchored(s), NEW r \in Nat, NEW hull \in Interval,
         NEW sc, NEW tok, NEW until,
         IsAnchorMatching(s.anchor, tok, sc), Propagates(s.anchor, r, tok),
         Anchored(ProcessFullRound(s, r, hull, sc, tok, until))
  PROVE  LET old == Propagated(s.anchor, r)
             a == ProcessFullRound(s, r, hull, sc, tok, until).anchor
         IN  /\ old.earliest <= a.earliest
             /\ a.earliest <= a.latest
             /\ a.latest <= old.latest
<1> DEFINE old == Propagated(s.anchor, r)
           i == Intersection(hull, old)
           t == ProcessFullRound(s, r, hull, sc, tok, until)
<1>1. RoundInterval(s, r, hull, sc, tok) = i
  BY DEF RoundInterval
<1>2. old \in Interval
  BY PropagatedType DEF Sound, Coherent
<1>3. ~Conflicts(i)
  BY <1>1 DEF ProcessFullRound, TransitionToDesync, Anchored
<1>4. t.anchor.earliest = i.earliest /\ t.anchor.latest = i.latest
  BY <1>1, <1>3 DEF ProcessFullRound, NewAnchor
<1> HIDE DEF t, old
<1>5. /\ i \in Interval
      /\ old.earliest <= i.earliest /\ i.latest <= old.latest
  BY <1>2 DEF Intersection, Later, Earlier, Interval
<1>6. i.earliest <= i.latest
  BY <1>3, <1>5 DEF Conflicts, Interval
<1> QED BY <1>4, <1>5, <1>6 DEF t, old

(* While the old anchor is good, a round only narrows what it says; a hull *)
(* that contradicts it ends in DESYNC (ProcessFullRound), for every hull,  *)
(* honest or not, and for rounds that outside callers bring.               *)
THEOREM RoundsOnlyNarrow == Spec => RoundNarrows
<1>1. ASSUME IInv, [Next]_vars, Anchored(ac), ac'.status = "SYNCED",
             ac'.anchor.token = ac.anchor.token,
             ac'.anchor.scale = ac.anchor.scale,
             ac'.anchor.gen # ac.anchor.gen,
             Propagates(ac.anchor, ac'.anchor.raw, ac.anchor.token)
      PROVE  LET old == Propagated(ac.anchor, ac'.anchor.raw)
             IN  /\ old.earliest <= ac'.anchor.earliest
                 /\ ac'.anchor.earliest <= ac'.anchor.latest
                 /\ ac'.anchor.latest <= old.latest
  <2>1. TypeOK /\ Sound(ac) /\ ac.anchor # NoAnchor /\ Anchored(ac')
    BY <1>1 DEF IInv, TypeOK, Sound, Propagates, Anchored
  <2>2. \E r \in Nat, hull \in Interval : \E sc, tok, until :
            ac' = ProcessFullRound(ac, r, hull, sc, tok, until)
    <3>1. writer.sel.raw \in Nat /\ writer.sel.hull \in Interval
      BY <2>1 DEF TypeOK, Transaction, Selection
    <3>2. CASE ApplyRound
      BY <1>1, <3>1, <3>2 DEF ApplyRound, TransitionToDesync
    <3>3. CASE ApplyExternal
      BY <3>1, <3>3 DEF ApplyExternal
    <3>4. CASE ~ApplyRound /\ ~ApplyExternal
      <4>1. \/ ac' = ac \/ ac' = TransitionToDesync(ac)
            \/ \E age \in HoldoverAges : ac' = BeginHoldover(ac, age)
        <5>1. CASE World \/ Poll \/ (\E r \in Readers : Reads(r)) \/ UNCHANGED vars
          BY <5>1 DEF World, Tick, Rewind, Reset, ChangeScale, FalseAlarm,
             Poll, Select, QueryFails, ForgetFailure, Reads, StartCommitWait,
             Acquire, ReadRaw, AnswerNow, AnswerCommitWait, CancelCommitWait,
             Return, published, vars
        <5>2. CASE Write
          BY <3>4, <5>2 DEF Write, LockRound, LockExternal, LockFailure,
             Invalidate, InitializeEstimate, WriterRead, ApplyFailure,
             VerifyHoldover, PublishCurrent, published
        <5> QED BY <1>1, <5>1, <5>2 DEF Next
      <4>2. TransitionToDesync(ac).status = "DESYNC"
        BY DEF TransitionToDesync
      <4>3. \A age : BeginHoldover(ac, age).status = "HOLDOVER"
        BY <1>1 DEF BeginHoldover
      <4> QED BY <1>1, <4>1, <4>2, <4>3
    <3> QED BY <3>2, <3>3, <3>4
  <2>3. PICK r \in Nat, hull \in Interval :
            \E sc, tok, until : ac' = ProcessFullRound(ac, r, hull, sc, tok, until)
    BY <2>2
  <2>4. PICK sc, tok, until : ac' = ProcessFullRound(ac, r, hull, sc, tok, until)
    BY <2>3
  <2>5. ac'.anchor.raw = r /\ ac'.anchor.token = tok /\ ac'.anchor.scale = sc
    BY <2>1, <2>4 DEF ProcessFullRound, TransitionToDesync, NewAnchor, Anchored
  <2>6. IsAnchorMatching(ac.anchor, tok, sc) /\ Propagates(ac.anchor, r, tok)
    BY <1>1, <2>1, <2>5 DEF IsAnchorMatching
  <2> QED BY <1>1, <2>1, <2>4, <2>5, <2>6, NarrowedRound
<1>2. ASSUME IInv, [Next]_vars
      PROVE  [ /\ Anchored(ac) /\ ac'.status = "SYNCED"
               /\ ac'.anchor.token = ac.anchor.token
               /\ ac'.anchor.scale = ac.anchor.scale
               /\ ac'.anchor.gen # ac.anchor.gen
               /\ Propagates(ac.anchor, ac'.anchor.raw, ac.anchor.token)
               => LET old == Propagated(ac.anchor, ac'.anchor.raw)
                  IN  /\ old.earliest <= ac'.anchor.earliest
                      /\ ac'.anchor.earliest <= ac'.anchor.latest
                      /\ ac'.anchor.latest <= old.latest ]_ac
  BY <1>1, <1>2
<1> QED BY <1>2, SpecIInv, PTL DEF Spec, RoundNarrows

-----------------------------------------------------------------------------
(* Estimate and anchor.                                                    *)

RoundsOnly == \A b \in Budgets : b["external"] = 0 /\ b["estimate"] = 0

Whole(s, e) == Anchored(s) => e.raw = s.anchor.raw

TornInv ==
    /\ left["external"] = 0 /\ left["estimate"] = 0
    /\ writer.op # "external"
    /\ Whole(ac, est) /\ Whole(snap.assurance, snap.estimate)

LEMMA TornStep ==
  ASSUME IInv, TornInv, [Next]_vars
  PROVE  TornInv'
<1>1. TypeOK /\ Sound(ac)
  BY DEF IInv, TypeOK, Sound
<1>2. /\ left'["external"] = 0 /\ left'["estimate"] = 0
      /\ ~LockExternal /\ ~InitializeEstimate
  <2>1. ~Spend("external") /\ ~Spend("estimate")
    BY DEF Spend, TornInv
  <2>2. \A k \in Kinds :
            Spend(k) => left'["external"] = 0 /\ left'["estimate"] = 0
    BY <1>1, <2>1 DEF Spend, TornInv, TypeOK, Kinds
  <2>3. left' = left \/ \E k \in Kinds : Spend(k)
    <3>1. CASE World \/ Poll \/ UNCHANGED vars
      BY <3>1 DEF World, Tick, Rewind, Reset, ChangeScale, FalseAlarm, Poll,
         Select, QueryFails, ForgetFailure, Kinds, vars
    <3>2. CASE Write
      BY <3>2 DEF Write, LockRound, LockExternal, LockFailure, Invalidate,
         InitializeEstimate, WriterRead, ApplyRound, ApplyExternal,
         ApplyFailure, VerifyHoldover, PublishCurrent, Kinds
    <3>3. CASE \E r \in Readers : Reads(r)
      BY <3>3 DEF Reads, StartCommitWait, Acquire, ReadRaw, AnswerNow,
         AnswerCommitWait, CancelCommitWait, Return, Kinds
    <3> QED BY <3>1, <3>2, <3>3 DEF Next
  <2> QED BY <2>1, <2>2, <2>3 DEF TornInv, LockExternal, InitializeEstimate
<1>3. writer'.op # "external" /\ Whole(ac', est')
      /\ Whole(snap'.assurance, snap'.estimate)
  <2>1. CASE World \/ Poll \/ (\E r \in Readers : Reads(r)) \/ UNCHANGED vars
    BY <2>1 DEF TornInv, World, Tick, Rewind, Reset, ChangeScale, FalseAlarm,
       Poll, Select, QueryFails, ForgetFailure, Reads, StartCommitWait,
       Acquire, ReadRaw, AnswerNow, AnswerCommitWait, CancelCommitWait,
       Return, published, vars
  <2>2. CASE LockRound \/ LockFailure
    BY <2>2 DEF TornInv, LockRound, LockFailure, Lock, Stage, published
  <2>3. CASE WriterRead
    BY <2>3 DEF TornInv, WriterRead, Stage, published
  <2>4. CASE Invalidate
    BY <1>1, <2>4, DesyncStep DEF TornInv, Invalidate, Lock, Stage, Whole, ToDesync
  <2>5. CASE ApplyRound
    <3>1. writer'.op # "external" /\ snap' = snap
      BY <2>5 DEF TornInv, ApplyRound, Then, Stage
    <3>2. ASSUME Anchored(ac') PROVE est'.raw = ac'.anchor.raw
      <4>1. est'.raw = writer.sel.raw
        BY <2>5, <3>2 DEF ApplyRound, RoundEstimate
      <4>2. ac'.anchor.raw = writer.sel.raw
        BY <2>5, <3>2 DEF ApplyRound, TransitionToDesync, ProcessFullRound,
           NewAnchor, Anchored
      <4> QED BY <4>1, <4>2
    <3> QED BY <3>1, <3>2 DEF TornInv, Whole
  <2>6. CASE ApplyFailure \/ VerifyHoldover
    <3>1. writer'.op # "external" /\ snap' = snap /\ est' = est
      BY <2>6 DEF TornInv, ApplyFailure, VerifyHoldover, Then, Stage
    <3>2. \/ ac' = ac \/ ~Anchored(ac')
          \/ /\ Anchored(ac)
             /\ \E age \in HoldoverAges : ac' = BeginHoldover(ac, age)
      BY <1>1, <2>6, DesyncStep DEF ApplyFailure, VerifyHoldover, ToDesync,
         BeginHoldover
    <3>3. \A age : Anchored(ac) => BeginHoldover(ac, age).anchor.raw = ac.anchor.raw
      BY <1>1 DEF BeginHoldover, Sound, Coherent, Anchor
    <3> QED BY <3>1, <3>2, <3>3 DEF TornInv, Whole
  <2>7. CASE PublishCurrent
    BY <2>7 DEF TornInv, PublishCurrent, Free, Stage
  <2>8. ~ApplyExternal
    BY DEF ApplyExternal, TornInv
  <2> QED BY <1>2, <2>1, <2>2, <2>3, <2>4, <2>5, <2>6, <2>7, <2>8 DEF Next, Write
<1> QED BY <1>2, <1>3 DEF TornInv

(* Estimate and anchor of a snapshot come from the same round, whatever    *)
(* transactions come between a round and its publication, if the engine is *)
(* the only one to publish rounds and to set the estimate                  *)
(* (publishSyncRound, markRoundFailure).                                   *)
THEOREM SnapshotsAreWhole ==
  ASSUME RoundsOnly
  PROVE  Spec => []SnapshotNotTorn
<1>1. Init => TornInv
  BY DEF RoundsOnly, Init, TornInv, Free, Stage, Whole, NewAssuranceClock, Anchored
<1>2. IInv /\ TornInv /\ [Next]_vars => TornInv'
  BY TornStep
<1>3. TornInv => SnapshotNotTorn
  BY DEF TornInv, Whole, SnapshotNotTorn
<1> QED BY <1>1, <1>2, <1>3, SpecIInv, PTL DEF Spec
=============================================================================
