--------------------------- MODULE SyncEngineProofs ---------------------------
(***************************************************************************)
(* Theorems about SyncEngine, for any number of callers, workers and       *)
(* sources.  They need no fairness: what holds of Spec holds of FairSpec.  *)
(*                                                                         *)
(* The invariant says which goroutines hold mu, that `running' and wg      *)
(* count the workers, that `closed' is set before Close waits and for ever *)
(* after it returned, and how far a call can get that a Close has caught   *)
(* or whose context has ended.                                             *)
(***************************************************************************)
EXTENDS SyncEngine, FiniteSetTheorems, TLAPS

(* What a goroutine may do next.                                           *)
Labels == Checks \union {"poll", "query", "idle", "close", "cancel", "wait",
                         "none", "select", "leave", "gone"}

Polling == Checks \union {"poll", "query"}

(* Workers that have not called wg.Done.                                   *)
Undone == {w \in Workers : at[w] \notin {"none", "gone"}}

Closing == {"cancel", "wait"}

(* How far a call was when the engine was closed.                          *)
Hows == {"no", "entering", "querying", "deciding"}

WorkerInv ==
    /\ running => \E w \in Workers : Alive = {w}
    /\ ~running => Alive = {}
    /\ wg = Cardinality(Undone)
    /\ \A w \in Workers : at[w] \notin {"idle", "close"} \union Closing

CloseInv ==
    /\ \A c \in Callers : at[c] \in Closing => closed
    /\ closeReturned => closed /\ Undone = {}

CaughtInv ==
    /\ \A p \in Pollers : caught[p] # "no" => closed
    /\ ClosedEngineRefuses

CutInv ==
    \A p \in Pollers : cut[p] =>
        /\ done[p]
        /\ at[p] \in {"query", "recheckClosed", "recheckContext", "deferContext"}

IInv == TypeOK /\ WorkerInv /\ CloseInv /\ CaughtInv /\ CutInv

LEMMA Finite ==
  /\ IsFiniteSet(Undone)
  /\ Cardinality(Undone) = 0 <=> Undone = {}
<1>1. IsFiniteSet(Undone)
  <2>1. Undone \subseteq Workers
    BY DEF Undone
  <2> QED
    BY <2>1, FS_Subset, EngineAssumption
<1> QED
  BY <1>1, FS_EmptySet

LEMMA IInvInit == Init => IInv
<1> SUFFICES ASSUME Init PROVE IInv
  OBVIOUS
<1>1. \A w \in Workers : w \in Pollers /\ w \notin Callers
  BY EngineAssumption DEF Pollers
<1>2. Alive = {} /\ Undone = {}
  BY <1>1 DEF Init, Alive, Undone
<1>3. TypeOK
  <2>1. /\ mu \in Callers \union {NoOne} /\ pollMu \in Pollers \union {NoOne}
        /\ cancel \in Workers \union {NoOne}
    BY DEF Init
  <2>4. running \in BOOLEAN /\ closed \in BOOLEAN /\ closeReturned \in BOOLEAN
    BY Zenon DEF Init
  <2>5. wg \in Nat /\ calls \in 0..MaxCalls
    BY EngineAssumption DEF Init
  <2>2. at \in [Pollers -> Labels]
    BY DEF Init, Labels
  <2>3. /\ done \in [Pollers -> BOOLEAN] /\ pending \in [Pollers -> SUBSET Sources]
        /\ answers \in [Pollers -> Nat]
        /\ cut \in [Pollers -> BOOLEAN] /\ caught \in [Pollers -> Hows]
    BY DEF Init, Hows
  <2> QED
    BY <2>1, <2>2, <2>3, <2>4, <2>5 DEF TypeOK, Labels, Hows
<1>4. WorkerInv
  BY <1>1, <1>2, FS_EmptySet DEF Init, WorkerInv, Closing
<1>5. CloseInv /\ CutInv
  BY <1>1, <1>2 DEF Init, CloseInv, CutInv, Closing, Pollers
<1>6. CaughtInv
  BY DEF Init, CaughtInv, ClosedEngineRefuses
<1> QED
  BY <1>3, <1>4, <1>5, <1>6 DEF IInv

(* What a closed engine asks of a call is kept while no call enters, or    *)
(* gets on with, a round.                                                  *)
LEMMA CaughtStep ==
  ASSUME CaughtInv, UNCHANGED caught, closed => closed',
         \A p \in Pollers : at'[p] = at[p] \/ at'[p] \notin InRound
  PROVE  CaughtInv'
BY DEF CaughtInv, ClosedEngineRefuses, InRound, Checks

(* A step of p within PollOnce, or out of it.                              *)
Moves(p) ==
    /\ at[p] \in Polling
    /\ \E to \in Polling \union {IF p \in Callers THEN "idle" ELSE "select"} :
          at' = [at EXCEPT ![p] = to]
    /\ UNCHANGED <<engine, caught, closeReturned>>

LEMMA MovesInv ==
  ASSUME IInv, NEW p \in Pollers, Moves(p)
  PROVE  /\ WorkerInv'
         /\ \A c \in Callers : at'[c] \in Closing => closed'
         /\ closeReturned' => closed' /\ Undone' = {}
         /\ at' \in [Pollers -> Labels]
<1> USE DEF IInv
<1>1. at \in [Pollers -> Labels]
  BY DEF TypeOK, Labels
<1>2. PICK to \in Polling \union {IF p \in Callers THEN "idle" ELSE "select"} :
         at' = [at EXCEPT ![p] = to]
  BY DEF Moves
<1>3. \A w \in Workers : w \in Pollers /\ w \notin Callers
  BY EngineAssumption DEF Pollers
<1>4. ASSUME NEW w \in Workers
      PROVE  /\ at'[w] \in {"none", "gone"} <=> at[w] \in {"none", "gone"}
             /\ at'[w] \in {"none", "leave", "gone"} <=> at[w] \in {"none", "leave", "gone"}
             /\ at'[w] \notin {"idle", "close"} \union Closing
  <2>1. CASE w = p
    BY <1>1, <1>2, <1>3, <2>1 DEF Moves, Polling, Checks, Closing
  <2>2. CASE w # p
    BY <1>1, <1>2, <1>3, <2>2 DEF WorkerInv, Closing
  <2> QED
    BY <2>1, <2>2
<1>5. Alive' = Alive /\ Undone' = Undone
  BY <1>4 DEF Alive, Undone
<1>6. WorkerInv'
  BY <1>4, <1>5 DEF Moves, engine, WorkerInv
<1>7. \A c \in Callers : at'[c] \in Closing => at[c] \in Closing
  BY <1>1, <1>2 DEF Polling, Checks, Closing, Pollers
<1>8. at' \in [Pollers -> Labels]
  BY <1>1, <1>2 DEF Polling, Labels
<1> QED
  BY <1>5, <1>6, <1>7, <1>8 DEF Moves, engine, CloseInv

-----------------------------------------------------------------------------
(* The steps of PollOnce: it leaves, it starts the queries of an engine    *)
(* that is open, or it goes on; a round that was cut short only goes on to *)
(* the deferred function, which then leaves.                               *)
Rest == <<engine, done, calls, caught, closeReturned>>

Leaves(p) == \E from \in Checks : Leave(p, from) /\ UNCHANGED Rest

Starts(p) == ~closed /\ StartQueries(p) /\ UNCHANGED Rest

GoesOn(p) ==
    \E from \in Checks \union {"query"}, to \in Checks :
        /\ Goto(p, from, to)
        /\ UNCHANGED <<pollMu, round, Rest>>
        /\ to \in InRound => from \in InRound
        /\ cut[p] => to \in {"recheckClosed", "recheckContext", "deferContext"}
        /\ to \in {"recheckContext", "consensus", "publish"} =>
              from \in {"recheckContext", "consensus"} \/ ~closed
        /\ to = "mark" => ~closed

LEMMA PollStepKinds ==
  ASSUME IInv, NEW p \in Pollers, PollStep(p)
  PROVE  Leaves(p) \/ Starts(p) \/ GoesOn(p)
<1> USE DEF Rest, Checks
<1>1. cut[p] => /\ done[p]
                /\ at[p] \in {"query", "recheckClosed", "recheckContext", "deferContext"}
  BY DEF IInv, CutInv
<1>2. CASE CheckContext(p)
  BY <1>1, <1>2 DEF CheckContext, Check, Leaves, GoesOn, InRound, Goto
<1>3. CASE CheckClosed(p)
  BY <1>3 DEF CheckClosed, Leaves, Starts
<1>4. CASE QueriesDone(p)
  BY <1>4 DEF QueriesDone, Step, GoesOn, InRound
<1>5. CASE RecheckClosed(p)
  BY <1>5 DEF RecheckClosed, Step, GoesOn, InRound
<1>6. CASE RecheckContext(p)
  BY <1>1, <1>6 DEF RecheckContext, Step, GoesOn, InRound
<1>7. CASE Consensus(p)
  BY <1>1, <1>7 DEF Consensus, Step, GoesOn, InRound, Goto
<1>8. CASE Publish(p)
  BY <1>1, <1>8 DEF Publish, Check, Step, Leaves, GoesOn, InRound, Goto
<1>9. CASE DeferContext(p)
  BY <1>1, <1>9 DEF DeferContext, Check, Leaves, GoesOn, InRound, Goto
<1>10. CASE DeferClosed(p)
  BY <1>1, <1>10 DEF DeferClosed, Check, Leaves, GoesOn, InRound, Goto
<1>11. CASE MarkRoundFailure(p)
  BY <1>11 DEF MarkRoundFailure, Check, Leaves
<1> QED
  BY <1>2, <1>3, <1>4, <1>5, <1>6, <1>7, <1>8, <1>9, <1>10, <1>11 DEF PollStep

LEMMA PollStepInv ==
  ASSUME IInv, NEW p \in Pollers, PollStep(p)
  PROVE  IInv'
<1> USE DEF IInv
<1>1. /\ at \in [Pollers -> Labels] /\ TypeOK
  BY DEF TypeOK, Labels
<1>2. CASE Leaves(p)
  <2>1. PICK from \in Checks : Leave(p, from) /\ UNCHANGED Rest
    BY <1>2 DEF Leaves
  <2>2. Moves(p)
    BY <2>1 DEF Leave, Goto, Moves, Polling, Rest
  <2>3. TypeOK'
    <3>1. /\ pollMu' = NoOne /\ answers' = [answers EXCEPT ![p] = 0]
          /\ pending' = [pending EXCEPT ![p] = {}]
          /\ cut' = [cut EXCEPT ![p] = FALSE]
      BY <2>1 DEF Leave
    <3>2. cut' \in [Pollers -> BOOLEAN]
      BY <1>1, <3>1, Zenon DEF TypeOK
    <3> QED
      BY <1>1, <2>1, <2>2, <3>1, <3>2, MovesInv DEF TypeOK, Labels, Rest, engine
  <2>4. ~cut'[p] /\ at'[p] \notin InRound /\ \A q \in Pollers \ {p} :
           at'[q] = at[q] /\ cut'[q] = cut[q]
    BY <1>1, <2>1 DEF Leave, Goto, TypeOK, InRound, Checks
  <2>5. CloseInv' /\ CutInv'
    BY <2>1, <2>2, <2>4, MovesInv DEF CloseInv, CutInv, Rest, engine
  <2>6. CaughtInv'
    BY <2>1, <2>4, CaughtStep DEF Rest, engine
  <2> QED
    BY <2>2, <2>3, <2>5, <2>6, MovesInv
<1>3. CASE Starts(p)
  <2>1. Moves(p)
    BY <1>3 DEF Starts, StartQueries, Goto, Moves, Polling, Checks, Rest
  <2>2. TypeOK'
    BY <1>1, <1>3, <2>1, MovesInv DEF TypeOK, Labels, Starts, StartQueries, Rest, engine
  <2>3. ~cut[p] /\ \A q \in Pollers : caught[q] = "no"
    BY <1>3 DEF Starts, StartQueries, Goto, CaughtInv, CutInv
  <2>4. CloseInv' /\ CutInv'
    BY <1>1, <1>3, <2>1, <2>3, MovesInv
    DEF CloseInv, CutInv, Starts, StartQueries, Goto, Rest, engine
  <2>5. CaughtInv'
    BY <1>3, <2>3 DEF CaughtInv, ClosedEngineRefuses, Starts, Rest, engine
  <2> QED
    BY <2>1, <2>2, <2>4, <2>5, MovesInv
<1>4. CASE GoesOn(p)
  <2>1. PICK from \in Checks \union {"query"}, to \in Checks :
        /\ Goto(p, from, to)
        /\ UNCHANGED <<pollMu, round, Rest>>
        /\ to \in InRound => from \in InRound
        /\ cut[p] => to \in {"recheckClosed", "recheckContext", "deferContext"}
        /\ to \in {"recheckContext", "consensus", "publish"} =>
              from \in {"recheckContext", "consensus"} \/ ~closed
        /\ to = "mark" => ~closed
    BY <1>4 DEF GoesOn
  <2>2. Moves(p)
    BY <2>1 DEF Goto, Moves, Polling, Rest
  <2>3. TypeOK'
    BY <1>1, <2>1, <2>2, MovesInv DEF TypeOK, Labels, Rest, round, engine
  <2>4. CloseInv' /\ CutInv'
    BY <1>1, <2>1, <2>2, MovesInv DEF CloseInv, CutInv, Goto, Rest, round, engine
  <2>5. CaughtInv'
    <3>1. /\ at[p] = from /\ at'[p] = to
          /\ \A q \in Pollers \ {p} : at'[q] = at[q]
          /\ UNCHANGED <<closed, caught>>
      BY <1>1, <2>1 DEF Goto, Rest, engine
    <3> QED
      BY <2>1, <3>1 DEF CaughtInv, ClosedEngineRefuses, InRound, Checks
  <2> QED
    BY <2>2, <2>3, <2>4, <2>5, MovesInv
<1> QED
  BY <1>2, <1>3, <1>4, PollStepKinds

LEMMA LockPollInv ==
  ASSUME IInv, NEW p \in Pollers, LockPoll(p)
  PROVE  IInv'
<1> USE DEF IInv
<1>1. at \in [Pollers -> Labels] /\ TypeOK
  BY DEF TypeOK, Labels
<1>2. Moves(p)
  BY DEF LockPoll, Goto, Moves, Polling, Checks
<1>3. TypeOK'
  BY <1>1, <1>2, MovesInv DEF TypeOK, Labels, LockPoll, round, engine
<1>4. CloseInv' /\ CutInv'
  BY <1>1, <1>2, MovesInv
  DEF CloseInv, CutInv, LockPoll, Goto, round, engine
<1>5. CaughtInv'
  BY <1>1, CaughtStep DEF LockPoll, Goto, engine, InRound, Checks
<1> QED
  BY <1>2, <1>3, <1>4, <1>5, MovesInv

(* Nothing of WorkerInv and CloseInv depends on the rest of a round.       *)
LEMMA QueryReturnsInv ==
  ASSUME IInv, NEW p \in Pollers, NEW s \in Sources, QueryReturns(p, s)
  PROVE  IInv'
<1> USE DEF IInv
<1>1. TypeOK'
  <2>1. cut' \in [Pollers -> BOOLEAN]
    BY Zenon DEF TypeOK, QueryReturns
  <2>2. answers' \in [Pollers -> Nat] /\ pending' \in [Pollers -> SUBSET Sources]
    BY DEF TypeOK, QueryReturns
  <2> QED
    BY <2>1, <2>2 DEF TypeOK, QueryReturns, engine
<1>2. WorkerInv' /\ CloseInv'
  BY DEF WorkerInv, CloseInv, QueryReturns, engine, Alive, Undone
<1>3. CutInv'
  BY DEF TypeOK, CutInv, QueryReturns
<1>4. CaughtInv'
  BY CaughtStep DEF QueryReturns, engine
<1> QED
  BY <1>1, <1>2, <1>3, <1>4

LEMMA CancelContextInv ==
  ASSUME IInv, NEW p \in Pollers, CancelContext(p)
  PROVE  IInv'
<1> USE DEF IInv
<1>1. done' \in [Pollers -> BOOLEAN]
  BY Zenon DEF TypeOK, CancelContext
<1>2. TypeOK'
  BY <1>1 DEF TypeOK, CancelContext, engine, round
<1>3. WorkerInv' /\ CloseInv'
  BY DEF WorkerInv, CloseInv, CancelContext, engine, Alive, Undone
<1>4. CutInv'
  BY DEF TypeOK, CutInv, CancelContext, round
<1>5. CaughtInv'
  BY CaughtStep DEF CancelContext, engine
<1> QED
  BY <1>2, <1>3, <1>4, <1>5

-----------------------------------------------------------------------------
(* A caller's step outside PollOnce leaves the workers where they are.     *)
LEMMA CallerMoves ==
  ASSUME IInv, NEW c \in Callers, NEW to \in Labels, at' = [at EXCEPT ![c] = to]
  PROVE  /\ Alive' = Alive /\ Undone' = Undone
         /\ at' \in [Pollers -> Labels]
         /\ \A w \in Workers : at'[w] = at[w]
<1>1. at \in [Pollers -> Labels]
  BY DEF IInv, TypeOK, Labels
<1>2. \A w \in Workers : at'[w] = at[w]
  BY <1>1, EngineAssumption DEF Pollers
<1> QED
  BY <1>1, <1>2 DEF Alive, Undone, Pollers

LEMMA StartInv ==
  ASSUME IInv, NEW c \in Callers, NEW w \in Workers, Start(c, w)
  PROVE  IInv'
<1> USE DEF IInv
<1>1. /\ at \in [Pollers -> Labels] /\ TypeOK
      /\ w \in Pollers /\ w \notin Callers
  BY EngineAssumption DEF TypeOK, Labels, Pollers
<1>2. /\ at[w] = "none" /\ at' = [at EXCEPT ![w] = "poll"]
      /\ ~closed /\ ~running /\ running' = TRUE /\ cancel' = w /\ wg' = wg + 1
      /\ calls' = calls + 1 /\ calls < MaxCalls
      /\ UNCHANGED <<mu, closed, pollMu, done, round, caught, closeReturned>>
  BY DEF Start, Goto, Call
<1>3. Alive' = {w}
  <2>1. Alive = {}
    BY <1>2 DEF WorkerInv
  <2> QED
    BY <1>1, <1>2, <2>1 DEF Alive, Pollers
<1>4. Undone' = Undone \union {w} /\ w \notin Undone
  BY <1>1, <1>2 DEF Undone, Pollers
<1>5. wg' = Cardinality(Undone') /\ wg' \in Nat
  <2>1. Cardinality(Undone \union {w}) = Cardinality(Undone) + 1
    BY <1>4, Finite, FS_AddElement
  <2>2. wg = Cardinality(Undone) /\ wg \in Nat
    BY DEF WorkerInv, TypeOK
  <2> QED
    BY <1>2, <1>4, <2>1, <2>2
<1>6. TypeOK'
  <2>1. at' \in [Pollers -> Labels]
    BY <1>1, <1>2 DEF Labels
  <2>2. calls' \in 0..MaxCalls
    BY <1>1, <1>2, EngineAssumption DEF TypeOK
  <2>3. running' \in BOOLEAN
    BY <1>2
  <2> QED
    BY <1>1, <1>2, <1>5, <2>1, <2>2, <2>3 DEF TypeOK, Labels, round
<1>7. WorkerInv'
  BY <1>1, <1>2, <1>3, <1>5 DEF WorkerInv, Closing, Pollers
<1>8. CloseInv'
  BY <1>1, <1>2 DEF CloseInv, Closing, Pollers
<1>9. CutInv'
  BY <1>1, <1>2 DEF CutInv, round
<1>10. CaughtInv'
  BY <1>1, <1>2, CaughtStep DEF InRound, Checks
<1> QED
  BY <1>6, <1>7, <1>8, <1>9, <1>10

LEMMA CallCloseInv ==
  ASSUME IInv, NEW c \in Callers, CallClose(c)
  PROVE  IInv'
<1> USE DEF IInv
<1>1. /\ at \in [Pollers -> Labels] /\ TypeOK /\ c \in Pollers
      /\ at[c] = "idle" /\ at' = [at EXCEPT ![c] = "close"]
      /\ calls' = calls + 1 /\ calls < MaxCalls
      /\ UNCHANGED <<engine, pollMu, done, round, caught, closeReturned>>
  BY DEF CallClose, Goto, Call, TypeOK, Labels, Pollers
<1>2. /\ Alive' = Alive /\ Undone' = Undone
      /\ at' \in [Pollers -> Labels] /\ \A w \in Workers : at'[w] = at[w]
  BY <1>1, CallerMoves DEF Labels
<1>3. calls' \in 0..MaxCalls
  BY <1>1, EngineAssumption DEF TypeOK
<1>4. TypeOK'
  BY <1>1, <1>2, <1>3 DEF TypeOK, Labels, engine, round
<1>5. WorkerInv' /\ CloseInv' /\ CutInv'
  BY <1>1, <1>2
  DEF WorkerInv, CloseInv, CutInv, engine, round, Closing, Pollers
<1>6. CaughtInv'
  BY <1>1, CaughtStep DEF engine, InRound, Checks
<1> QED
  BY <1>4, <1>5, <1>6

LEMMA CloseLockInv ==
  ASSUME IInv, NEW c \in Callers, CloseLock(c)
  PROVE  IInv'
<1> USE DEF IInv
<1>1. /\ at \in [Pollers -> Labels] /\ TypeOK /\ c \in Pollers
      /\ at[c] = "close"
      /\ closed => closed'
      /\ UNCHANGED <<running, cancel, wg, pollMu, done, round, calls, closeReturned>>
  BY DEF CloseLock, Goto, TypeOK, Labels, Pollers
<1>2. PICK to \in {"idle", "cancel"} :
         at' = [at EXCEPT ![c] = to] /\ (to = "cancel" => closed')
  BY DEF CloseLock, Goto
<1>3. /\ Alive' = Alive /\ Undone' = Undone
      /\ at' \in [Pollers -> Labels] /\ \A w \in Workers : at'[w] = at[w]
  BY <1>2, CallerMoves DEF Labels
<1>4. mu' \in Callers \union {NoOne} /\ closed' \in BOOLEAN
  BY <1>1 DEF CloseLock, TypeOK
<1>5. TypeOK'
  <2>1. caught' \in [Pollers -> Hows]
    BY <1>1 DEF CloseLock, Caught, TypeOK, Hows
  <2> QED
    BY <1>1, <1>3, <1>4, <2>1 DEF TypeOK, Labels, round, Hows
<1>6. at'[c] = to /\ \A p \in Pollers \ {c} : at'[p] = at[p]
  BY <1>1, <1>2
<1>7. WorkerInv'
  BY <1>1, <1>3 DEF WorkerInv
<1>8. CutInv'
  BY <1>1, <1>6 DEF CutInv, round
<1>9. CloseInv'
  <2>1. \A d \in Callers : at'[d] \in Closing => closed'
    BY <1>1, <1>2, <1>6 DEF CloseInv, Closing, Pollers
  <2> QED
    BY <1>1, <1>3, <2>1 DEF CloseInv
<1>10. CaughtInv'
  <2>1. CASE closed
    BY <1>1, <1>6, <2>1, CaughtStep DEF CloseLock, InRound, Checks
  <2>2. CASE ~closed
    <3>1. /\ closed' /\ to = "cancel"
          /\ \A p \in Pollers : caught[p] = "no" /\ caught'[p] = Caught(p)
      BY <1>1, <1>6, <2>2 DEF CloseLock, Goto, CaughtInv
    <3> QED
      BY <1>1, <1>6, <3>1
      DEF Caught, CaughtInv, ClosedEngineRefuses, InRound, Checks
  <2> QED
    BY <2>1, <2>2
<1> QED
  BY <1>5, <1>7, <1>8, <1>9, <1>10

LEMMA CloseCancelInv ==
  ASSUME IInv, NEW c \in Callers, CloseCancel(c)
  PROVE  IInv'
<1> USE DEF IInv
<1>1. /\ at \in [Pollers -> Labels] /\ TypeOK /\ c \in Pollers
      /\ at[c] = "cancel" /\ at' = [at EXCEPT ![c] = "wait"]
      /\ UNCHANGED <<engine, pollMu, round, calls, caught, closeReturned>>
  BY DEF CloseCancel, Goto, TypeOK, Labels, Pollers
<1>2. /\ Alive' = Alive /\ Undone' = Undone
      /\ at' \in [Pollers -> Labels] /\ \A w \in Workers : at'[w] = at[w]
  BY <1>1, CallerMoves DEF Labels
<1>3. /\ done' \in [Pollers -> BOOLEAN]
      /\ \A p \in Pollers : done[p] => done'[p]
  BY Zenon DEF CloseCancel
<1>4. TypeOK'
  BY <1>1, <1>2, <1>3 DEF TypeOK, Labels, engine, round
<1>5. WorkerInv' /\ CloseInv' /\ CutInv'
  BY <1>1, <1>2, <1>3
  DEF WorkerInv, CloseInv, CutInv, engine, round, Closing, Pollers
<1>6. CaughtInv'
  BY <1>1, CaughtStep DEF engine, InRound, Checks
<1> QED
  BY <1>4, <1>5, <1>6

(* wg is zero: no worker is left, so none is alive and none is running.    *)
LEMMA CloseWaitInv ==
  ASSUME IInv, NEW c \in Callers, CloseWait(c)
  PROVE  IInv'
<1> USE DEF IInv
<1>1. /\ at \in [Pollers -> Labels] /\ TypeOK /\ c \in Pollers
      /\ at[c] = "wait" /\ at' = [at EXCEPT ![c] = "idle"]
      /\ running' = FALSE /\ mu' = NoOne /\ closeReturned' = TRUE /\ wg = 0
      /\ UNCHANGED <<closed, cancel, wg, pollMu, done, round, calls, caught>>
  BY DEF CloseWait, Goto, TypeOK, Labels, Pollers
<1>2. /\ Alive' = Alive /\ Undone' = Undone
      /\ at' \in [Pollers -> Labels] /\ \A w \in Workers : at'[w] = at[w]
  BY <1>1, CallerMoves DEF Labels
<1>3. Undone = {} /\ Alive = {}
  BY <1>1, Finite DEF WorkerInv, Undone, Alive
<1>4. closed
  BY <1>1 DEF CloseInv, Closing
<1>5. TypeOK'
  BY <1>1, <1>2 DEF TypeOK, Labels, round
<1>6. WorkerInv' /\ CloseInv' /\ CutInv'
  BY <1>1, <1>2, <1>3, <1>4
  DEF WorkerInv, CloseInv, CutInv, round, Closing, Pollers
<1>7. CaughtInv'
  BY <1>1, CaughtStep DEF InRound, Checks
<1> QED
  BY <1>5, <1>6, <1>7

(* A call that begins is caught if the engine is closed.                   *)
LEMMA CallPollOnceInv ==
  ASSUME IInv, NEW c \in Callers, CallPollOnce(c)
  PROVE  IInv'
<1> USE DEF IInv
<1>1. /\ at \in [Pollers -> Labels] /\ TypeOK /\ c \in Pollers
      /\ at[c] = "idle" /\ at' = [at EXCEPT ![c] = "poll"]
      /\ calls' = calls + 1 /\ calls < MaxCalls
      /\ done' = [done EXCEPT ![c] = FALSE]
      /\ caught' = [caught EXCEPT ![c] = IF closed THEN "entering" ELSE "no"]
      /\ UNCHANGED <<engine, pollMu, round, closeReturned>>
  BY DEF CallPollOnce, BeginCall, Goto, Call, TypeOK, Labels, Pollers
<1>2. /\ Alive' = Alive /\ Undone' = Undone
      /\ at' \in [Pollers -> Labels] /\ \A w \in Workers : at'[w] = at[w]
  BY <1>1, CallerMoves DEF Labels
<1>3. done' \in [Pollers -> BOOLEAN] /\ caught' \in [Pollers -> Hows]
  <2>1. done' \in [Pollers -> BOOLEAN]
    BY <1>1, Zenon DEF TypeOK
  <2>2. caught' \in [Pollers -> Hows]
    BY <1>1 DEF TypeOK, Hows
  <2> QED
    BY <2>1, <2>2
<1>4. calls' \in 0..MaxCalls
  BY <1>1, EngineAssumption DEF TypeOK
<1>5. TypeOK'
  BY <1>1, <1>2, <1>3, <1>4 DEF TypeOK, Labels, engine, round, Hows
<1>6. CaughtInv'
  <2>1. caught'[c] = IF closed THEN "entering" ELSE "no"
    BY <1>1 DEF TypeOK
  <2>2. \A p \in Pollers \ {c} : caught'[p] = caught[p] /\ at'[p] = at[p]
    BY <1>1 DEF TypeOK
  <2> QED
    BY <1>1, <2>1, <2>2
    DEF CaughtInv, ClosedEngineRefuses, engine, InRound, Checks
<1>7. WorkerInv'
  BY <1>1, <1>2 DEF WorkerInv, engine
<1>8. ~cut[c]
  BY <1>1 DEF CutInv
<1>9. CloseInv' /\ CutInv'
  BY <1>1, <1>2, <1>8
  DEF TypeOK, CloseInv, CutInv, engine, round, Closing, Pollers
<1> QED
  BY <1>5, <1>6, <1>7, <1>9

-----------------------------------------------------------------------------
(* The worker outside PollOnce.                                            *)
LEMMA WorkerInvariance ==
  ASSUME IInv, NEW w \in Workers,
         WorkerTick(w) \/ WorkerLeave(w) \/ WorkerDone(w)
  PROVE  IInv'
<1> USE DEF IInv
<1>1. /\ at \in [Pollers -> Labels] /\ TypeOK
      /\ w \in Pollers /\ w \notin Callers
  BY EngineAssumption DEF TypeOK, Labels, Pollers
<1>2. PICK from \in {"select", "leave"}, to \in {"poll", "leave", "gone"} :
         Goto(w, from, to)
  BY DEF WorkerTick, WorkerLeave, WorkerDone
<1>3. /\ at[w] = from /\ at' = [at EXCEPT ![w] = to] /\ at'[w] = to
      /\ \A p \in Pollers \ {w} : at'[p] = at[p]
      /\ \A p \in Callers : at'[p] = at[p]
      /\ UNCHANGED <<mu, closed, cancel, pollMu, done, round, calls, closeReturned>>
  BY <1>1, <1>2 DEF Goto, WorkerTick, WorkerLeave, WorkerDone, engine, Pollers
<1>4. at' \in [Pollers -> Labels]
  BY <1>1, <1>3 DEF Labels, Checks
<1>5. running' \in BOOLEAN
  BY <1>1 DEF WorkerTick, WorkerLeave, WorkerDone, engine, TypeOK
<1>6. at[w] \notin {"none", "gone"} /\ w \in Undone
  BY <1>1, <1>3 DEF Undone
<1>7. CloseInv' /\ CutInv'
  <2>1. closeReturned => closed /\ Undone = {}
    BY DEF CloseInv
  <2>2. ~closeReturned
    BY <1>6, <2>1
  <2>3. ~cut[w]
    BY <1>1, <1>3 DEF CutInv
  <2> QED
    BY <1>3, <2>2, <2>3 DEF CloseInv, CutInv, round
<1>8. \A v \in Workers : at'[v] \notin {"idle", "close"} \union Closing
  BY <1>3 DEF WorkerInv, Closing, Pollers
<1>9. CASE WorkerTick(w)
  <2>1. Alive' = Alive /\ Undone' = Undone
    BY <1>1, <1>9 DEF WorkerTick, Goto, Alive, Undone, Pollers
  <2>2. caught' = [caught EXCEPT ![w] = IF closed THEN "entering" ELSE "no"]
    BY <1>9 DEF WorkerTick, BeginCall
  <2>3. caught' \in [Pollers -> Hows]
    BY <1>1, <2>2 DEF TypeOK, Hows
  <2>4. CaughtInv'
    <3>1. caught'[w] = (IF closed THEN "entering" ELSE "no") /\ at'[w] = "poll"
      BY <1>1, <1>9, <2>2 DEF TypeOK, WorkerTick, Goto
    <3>2. \A p \in Pollers \ {w} : caught'[p] = caught[p]
      BY <1>1, <2>2 DEF TypeOK
    <3> QED
      BY <1>3, <3>1, <3>2 DEF CaughtInv, ClosedEngineRefuses, InRound, Checks
  <2>5. TypeOK'
    BY <1>1, <1>3, <1>4, <1>9, <2>3 DEF WorkerTick, TypeOK, Labels, engine, round, Hows
  <2>6. WorkerInv'
    BY <1>8, <1>9, <2>1 DEF WorkerTick, WorkerInv, engine
  <2> QED
    BY <1>7, <2>4, <2>5, <2>6
<1>10. CASE WorkerLeave(w)
  <2>1. /\ at[w] = "select" /\ at'[w] = "leave"
        /\ running' = FALSE /\ UNCHANGED <<wg, caught>>
    BY <1>1, <1>10 DEF WorkerLeave, Goto
  <2>2. w \in Alive
    BY <2>1 DEF Alive
  <2>3. Alive = {w}
    BY <2>2 DEF WorkerInv
  <2>4. Alive' = {}
    BY <1>3, <2>1, <2>3 DEF Alive, Pollers
  <2>5. Undone' = Undone
    BY <1>3, <2>1 DEF Undone, Pollers
  <2>6. WorkerInv'
    BY <1>8, <2>1, <2>4, <2>5 DEF WorkerInv
  <2>7. TypeOK'
    BY <1>1, <1>3, <1>4, <1>5, <2>1 DEF TypeOK, Labels, round
  <2>8. CaughtInv'
    BY <1>3, <2>1, CaughtStep DEF InRound, Checks
  <2> QED
    BY <1>7, <2>6, <2>7, <2>8
<1>11. CASE WorkerDone(w)
  <2>1. at[w] = "leave" /\ at'[w] = "gone" /\ wg' = wg - 1
        /\ UNCHANGED <<running, caught>>
    BY <1>1, <1>11 DEF WorkerDone, Goto
  <2>2. Alive' = Alive
    BY <1>3, <2>1 DEF Alive, Pollers
  <2>3. Undone' = Undone \ {w}
    BY <1>3, <2>1 DEF Undone, Pollers
  <2>4. wg' = Cardinality(Undone')
    BY <1>6, <2>1, <2>3, Finite, FS_RemoveElement DEF WorkerInv
  <2>5. wg' \in Nat
    <3>1. wg # 0
      BY <1>6, Finite DEF WorkerInv
    <3> QED
      BY <1>1, <2>1, <3>1 DEF TypeOK
  <2>6. WorkerInv'
    BY <1>8, <2>1, <2>2, <2>4 DEF WorkerInv
  <2>7. TypeOK'
    BY <1>1, <1>3, <1>4, <1>5, <2>1, <2>5 DEF TypeOK, Labels, round
  <2>8. CaughtInv'
    BY <1>3, <2>1, CaughtStep DEF InRound, Checks
  <2> QED
    BY <1>7, <2>6, <2>7, <2>8
<1> QED
  BY <1>9, <1>10, <1>11

-----------------------------------------------------------------------------
LEMMA Invariance == Spec => []IInv
<1>1. ASSUME IInv, [Next]_vars PROVE IInv'
  <2>1. CASE UNCHANGED vars
    BY <1>1, <2>1, CaughtStep
    DEF IInv, TypeOK, WorkerInv, CloseInv, CutInv, Alive, Undone, vars, engine, round
  <2>2. CASE Next
    <3>1. ASSUME NEW c \in Callers,
                 (\E w \in Workers : Start(c, w)) \/ CallClose(c) \/ CloseStep(c)
                    \/ CallPollOnce(c)
          PROVE  IInv'
      BY <1>1, <3>1, StartInv, CallCloseInv, CloseLockInv, CloseCancelInv,
         CloseWaitInv, CallPollOnceInv DEF CloseStep
    <3>2. ASSUME NEW p \in Pollers,
                 CancelContext(p) \/ LockPoll(p) \/ PollStep(p)
                    \/ \E s \in Sources : QueryReturns(p, s)
          PROVE  IInv'
      BY <1>1, <3>2, CancelContextInv, LockPollInv, PollStepInv, QueryReturnsInv
    <3> QED
      BY <1>1, <2>2, <3>1, <3>2, WorkerInvariance DEF Next
  <2> QED
    BY <1>1, <2>1, <2>2
<1> QED
  BY <1>1, IInvInit, PTL DEF Spec

(* The engine's state keeps to its types; in particular the wait group's   *)
(* counter never goes below zero, where sync.WaitGroup would panic.        *)
THEOREM EngineTyped == Spec => []TypeOK
<1>1. IInv => TypeOK
  BY DEF IInv
<1> QED
  BY <1>1, Invariance, PTL

(* At most one worker polls, and `running' says whether one does, however  *)
(* often the engine is started, closed and its contexts cancelled.         *)
THEOREM AtMostOneWorker == Spec => []OneWorker
<1>1. IInv => OneWorker
  BY FS_Singleton, FS_EmptySet DEF IInv, WorkerInv, OneWorker
<1> QED
  BY <1>1, Invariance, PTL

(* Once a Close has returned no worker is left, nor ever started.          *)
THEOREM CloseLeavesNoWorker == Spec => []CloseWaitsForWorker
<1>1. IInv => CloseWaitsForWorker
  BY DEF IInv, CloseInv, CloseWaitsForWorker, Undone
<1> QED
  BY <1>1, Invariance, PTL

(* What a closed engine asks of the calls in flight, however many there    *)
(* are: a call that has not looked at `closed' yet asks no source, one that*)
(* has its queries under way publishes nothing, and no call marks a        *)
(* failure.                                                                *)
THEOREM ClosedEngineIsInert == Spec => []ClosedEngineRefuses
<1>1. IInv => ClosedEngineRefuses
  BY DEF IInv, CaughtInv
<1> QED
  BY <1>1, Invariance, PTL

(* A round whose queries a context cut short is never counted as failed    *)
(* evidence.                                                               *)
THEOREM ShutdownIsNotFailure == Spec => []ShutdownIsNoFailure
<1>1. IInv => ShutdownIsNoFailure
  BY DEF IInv, CutInv, ShutdownIsNoFailure
<1> QED
  BY <1>1, Invariance, PTL
=============================================================================
