----------------------------- MODULE SyncEngine -----------------------------
(***************************************************************************)
(* gstime.SyncEngine: Start, Close, the background worker and PollOnce,    *)
(* called by any number of goroutines.  What a round publishes is the      *)
(* business of ClockService; here a round is its queries, its checks of    *)
(* the context and of `closed', and the step at which it publishes or      *)
(* reports a failure.  Each atomic load, and each wait, is a step.         *)
(***************************************************************************)
EXTENDS Integers, FiniteSets

CONSTANTS Callers,   \* goroutines of the application
          Workers,   \* bound: worker goroutines, one per successful Start
          Sources,   \* the configured upstream sources
          Enough,    \* MinVotingDomains
          MaxCalls,  \* bound: calls the application makes
          NoOne

ASSUME EngineAssumption ==
    /\ Callers \cap Workers = {} /\ NoOne \notin Callers \union Workers
    /\ IsFiniteSet(Workers) /\ IsFiniteSet(Sources)
    /\ Enough \in Nat \ {0} /\ MaxCalls \in Nat

Pollers == Callers \union Workers

VARIABLES
    mu,        \* who holds SyncEngine.mu
    pollMu,    \* who holds SyncEngine.pollMu
    running,   \* SyncEngine.running
    closed,    \* SyncEngine.closed
    cancel,    \* the worker whose context SyncEngine.cancel cancels
    wg,        \* SyncEngine.wg
    at,        \* what each goroutine does next
    done,      \* its context is done
    pending,   \* sources whose query has not returned
    answers,   \* how many of the queries succeeded
    calls,     \* calls made so far
    cut,       \* history: the context ended one of the round's queries
    caught,    \* history: how far the call was when the engine was closed,
               \* "entering", "querying" or "deciding" ("no": not caught)
    closeReturned  \* history: a Close has returned

engine == <<mu, running, closed, cancel, wg>>
round == <<pending, answers, cut>>
vars == <<engine, pollMu, at, done, round, calls, caught, closeReturned>>

Checks == {"context", "closed", "recheckClosed", "recheckContext", "consensus",
           "publish", "deferContext", "deferClosed", "mark"}

(* A round is under way: PollOnce has passed its first two checks.         *)
InRound == {"query"} \union (Checks \ {"context", "closed"})

TypeOK ==
    /\ mu \in Callers \union {NoOne} /\ pollMu \in Pollers \union {NoOne}
    /\ running \in BOOLEAN /\ closed \in BOOLEAN /\ closeReturned \in BOOLEAN
    /\ cancel \in Workers \union {NoOne}
    /\ wg \in Nat
    /\ at \in [Pollers -> Checks \union {"poll", "query", "idle", "close",
                 "cancel", "wait", "none", "select", "leave", "gone"}]
    /\ done \in [Pollers -> BOOLEAN]
    /\ pending \in [Pollers -> SUBSET Sources]
    /\ answers \in [Pollers -> Nat]
    /\ calls \in 0..MaxCalls
    /\ cut \in [Pollers -> BOOLEAN]
    /\ caught \in [Pollers -> {"no", "entering", "querying", "deciding"}]

Init ==
    /\ mu = NoOne /\ pollMu = NoOne
    /\ running = FALSE /\ closed = FALSE /\ closeReturned = FALSE
    /\ cancel = NoOne
    /\ wg = 0
    /\ at = [p \in Pollers |-> IF p \in Callers THEN "idle" ELSE "none"]
    /\ done = [p \in Pollers |-> FALSE]
    /\ pending = [p \in Pollers |-> {}]
    /\ answers = [p \in Pollers |-> 0]
    /\ calls = 0
    /\ cut = [p \in Pollers |-> FALSE]
    /\ caught = [p \in Pollers |-> "no"]

Goto(p, from, to) == at[p] = from /\ at' = [at EXCEPT ![p] = to]

Call == calls < MaxCalls /\ calls' = calls + 1

BeginCall(p) ==
    caught' = [caught EXCEPT ![p] = IF closed THEN "entering" ELSE "no"]

(* How far a call is, from where it is: before the first check of `closed',*)
(* before the second, or past both.  A call that marks a failure has been  *)
(* past the third.                                                         *)
Caught(p) ==
    CASE at[p] \in {"poll", "context", "closed"} -> "entering"
      [] at[p] \in {"query", "recheckClosed"} -> "querying"
      [] at[p] \in {"recheckContext", "consensus", "publish", "deferContext",
                    "deferClosed"} -> "deciding"
      [] OTHER -> caught[p]

-----------------------------------------------------------------------------
(* (Mutants: `running' is set without a test; wg.Add is forgotten.)        *)
StartOver(c, w) ==
    /\ Call
    /\ at[c] = "idle" /\ mu = NoOne
    /\ ~closed
    /\ running' = TRUE
    /\ Goto(w, "none", "poll")
    /\ cancel' = w
    /\ wg' = wg + 1
    /\ UNCHANGED <<mu, closed, pollMu, done, round, caught, closeReturned>>

StartNoAdd(c, w) ==
    /\ Call
    /\ at[c] = "idle" /\ mu = NoOne
    /\ ~closed
    /\ ~running
    /\ running' = TRUE
    /\ Goto(w, "none", "poll")
    /\ cancel' = w
    /\ UNCHANGED <<mu, closed, wg, pollMu, done, round, caught, closeReturned>>

(* Start holds mu from its check of `closed' to the spawn, and nobody sees *)
(* the steps between apart.  Refused, it changes nothing.                  *)
Start(c, w) ==
    /\ Call
    /\ at[c] = "idle" /\ mu = NoOne
    /\ ~closed
    /\ ~running
    /\ running' = TRUE
    /\ Goto(w, "none", "poll")
    /\ cancel' = w
    /\ wg' = wg + 1
    /\ UNCHANGED <<mu, closed, pollMu, done, round, caught, closeReturned>>

CallClose(c) ==
    /\ Call
    /\ Goto(c, "idle", "close")
    /\ UNCHANGED <<engine, pollMu, done, round, caught, closeReturned>>

CloseLock(c) ==
    /\ mu = NoOne
    /\ \/ /\ closed
          /\ Goto(c, "close", "idle")
          /\ UNCHANGED <<mu, closed, caught>>
       \/ /\ ~closed
          /\ Goto(c, "close", "cancel")
          /\ mu' = c
          /\ closed' = TRUE
          /\ caught' = [p \in Pollers |-> Caught(p)]
    /\ UNCHANGED <<running, cancel, wg, pollMu, done, round, calls,
                   closeReturned>>

(* (Mutant: the worker's context is left alone.)                           *)
CloseCancelNothing(c) ==
    /\ Goto(c, "cancel", "wait")
    /\ UNCHANGED <<engine, pollMu, done, round, calls, caught, closeReturned>>

CloseCancel(c) ==
    /\ Goto(c, "cancel", "wait")
    /\ done' = [w \in Pollers |-> done[w] \/ w = cancel]
    /\ UNCHANGED <<engine, pollMu, round, calls, caught, closeReturned>>

(* (Mutant: Close does not wait for the worker.)                           *)
CloseNoWait(c) ==
    /\ Goto(c, "wait", "idle")
    /\ running' = FALSE
    /\ mu' = NoOne
    /\ closeReturned' = TRUE
    /\ UNCHANGED <<closed, cancel, wg, pollMu, done, round, calls, caught>>

CloseWait(c) ==
    /\ wg = 0
    /\ Goto(c, "wait", "idle")
    /\ running' = FALSE
    /\ mu' = NoOne
    /\ closeReturned' = TRUE
    /\ UNCHANGED <<closed, cancel, wg, pollMu, done, round, calls, caught>>

-----------------------------------------------------------------------------
(* loop: a first PollOnce, then one for each tick until its context is     *)
(* done.  When both are ready select chooses either.                       *)

WorkerTick(w) ==
    /\ Goto(w, "select", "poll")
    /\ BeginCall(w)
    /\ UNCHANGED <<engine, pollMu, done, round, calls, closeReturned>>

WorkerLeave(w) ==
    /\ done[w]
    /\ Goto(w, "select", "leave")
    /\ running' = FALSE
    /\ UNCHANGED <<mu, closed, cancel, wg, pollMu, done, round, calls, caught,
                   closeReturned>>

WorkerDone(w) ==
    /\ Goto(w, "leave", "gone")
    /\ wg' = wg - 1
    /\ UNCHANGED <<mu, running, closed, cancel, pollMu, done, round, calls,
                   caught, closeReturned>>

(* The application cancels the context it passed to Start or to PollOnce.  *)
CancelContext(p) ==
    /\ at[p] \notin {"idle", "none", "leave", "gone", "close", "cancel", "wait"}
    /\ done' = [done EXCEPT ![p] = TRUE]
    /\ UNCHANGED <<engine, pollMu, at, round, calls, caught, closeReturned>>

-----------------------------------------------------------------------------
(* PollOnce.                                                               *)

CallPollOnce(c) ==
    /\ Call
    /\ Goto(c, "idle", "poll")
    /\ done' = [done EXCEPT ![c] = FALSE]
    /\ BeginCall(c)
    /\ UNCHANGED <<engine, pollMu, round, closeReturned>>

LockPoll(p) ==
    /\ pollMu = NoOne
    /\ Goto(p, "poll", "context")
    /\ pollMu' = p
    /\ UNCHANGED <<engine, done, round, calls, caught, closeReturned>>

(* (Mutant: an early return keeps pollMu.)                                 *)
LeaveLocked(p, from) ==
    /\ Goto(p, from, IF p \in Callers THEN "idle" ELSE "select")
    /\ UNCHANGED pollMu
    /\ pending' = [pending EXCEPT ![p] = {}]
    /\ answers' = [answers EXCEPT ![p] = 0]
    /\ cut' = [cut EXCEPT ![p] = FALSE]

(* PollOnce returns: pollMu is released, and the round's locals are gone.  *)
Leave(p, from) ==
    /\ Goto(p, from, IF p \in Callers THEN "idle" ELSE "select")
    /\ pollMu' = NoOne
    /\ pending' = [pending EXCEPT ![p] = {}]
    /\ answers' = [answers EXCEPT ![p] = 0]
    /\ cut' = [cut EXCEPT ![p] = FALSE]

(* A check leaves PollOnce, or goes on to the next step.                   *)
Check(p, from, leaves, to) ==
    /\ \/ leaves /\ Leave(p, from)
       \/ ~leaves /\ Goto(p, from, to) /\ UNCHANGED <<pollMu, round>>
    /\ UNCHANGED <<engine, done, calls, caught, closeReturned>>

CheckContext(p) == Check(p, "context", done[p], "closed")

(* The second check, and with it the start of the queries.                 *)
StartQueries(p) ==
    /\ Goto(p, "closed", "query")
    /\ pending' = [pending EXCEPT ![p] = Sources]
    /\ UNCHANGED <<pollMu, answers, cut>>

CheckClosed(p) ==
    /\ \/ closed /\ Leave(p, "closed")
       \/ ~closed /\ StartQueries(p)
    /\ UNCHANGED <<engine, done, calls, caught, closeReturned>>

(* A query answers, fails or times out; a context that is done ends it.    *)
QueryReturns(p, s) ==
    /\ at[p] = "query" /\ s \in pending[p]
    /\ pending' = [pending EXCEPT ![p] = @ \ {s}]
    /\ \/ answers' = [answers EXCEPT ![p] = @ + 1] /\ UNCHANGED cut
       \/ UNCHANGED <<answers, cut>>
       \/ done[p] /\ cut' = [cut EXCEPT ![p] = TRUE] /\ UNCHANGED answers
    /\ UNCHANGED <<engine, pollMu, at, done, calls, caught, closeReturned>>

(* An error after the queries: what is left is the deferred function.      *)
Step(p, from, to) ==
    /\ Goto(p, from, to)
    /\ UNCHANGED <<engine, pollMu, done, round, calls, caught, closeReturned>>

QueriesDone(p) == pending[p] = {} /\ Step(p, "query", "recheckClosed")

(* (Mutant: `closed' is not looked at again after the queries.)            *)
RecheckClosedNever(p) == Step(p, "recheckClosed", "recheckContext")

RecheckClosed(p) ==
    Step(p, "recheckClosed", IF closed THEN "deferContext" ELSE "recheckContext")

RecheckContext(p) ==
    Step(p, "recheckContext", IF done[p] THEN "deferContext" ELSE "consensus")

(* Too few domains end the round; with enough, the clock, the samples or   *)
(* the consensus may still be refused.                                     *)
Consensus(p) ==
    \/ answers[p] >= Enough /\ Step(p, "consensus", "publish")
    \/ Step(p, "consensus", "deferContext")

Publish(p) ==
    \/ Check(p, "publish", TRUE, "publish")
    \/ Step(p, "publish", "deferContext")

(* The deferred function: is the parent alive, and is the engine open?     *)
(* (Mutant: only the engine is asked.)                                     *)
DeferContextIgnored(p) == Step(p, "deferContext", "deferClosed")

DeferContext(p) == Check(p, "deferContext", done[p], "deferClosed")

DeferClosed(p) == Check(p, "deferClosed", closed, "mark")

MarkRoundFailure(p) == Check(p, "mark", TRUE, "mark")

PollStep(p) ==
    \/ CheckContext(p) \/ CheckClosed(p) \/ QueriesDone(p) \/ RecheckClosed(p)
    \/ RecheckContext(p) \/ Consensus(p) \/ Publish(p) \/ DeferContext(p)
    \/ DeferClosed(p) \/ MarkRoundFailure(p)

-----------------------------------------------------------------------------
CloseStep(c) == CloseLock(c) \/ CloseCancel(c) \/ CloseWait(c)

Next ==
    \/ \E c \in Callers :
        \/ \E w \in Workers : Start(c, w)
        \/ CallClose(c) \/ CloseStep(c) \/ CallPollOnce(c)
    \/ \E w \in Workers : WorkerTick(w) \/ WorkerLeave(w) \/ WorkerDone(w)
    \/ \E p \in Pollers :
        \/ CancelContext(p) \/ LockPoll(p) \/ PollStep(p)
        \/ \E s \in Sources : QueryReturns(p, s)

Spec == Init /\ [][Next]_vars

(* A goroutine that can run does run; each query ends, by its timeout if   *)
(* nothing else; a goroutine that waits for pollMu gets it in the end      *)
(* (sync.Mutex turns to first come, first served after a millisecond); a   *)
(* select that keeps finding the context done takes that case.             *)
Fairness ==
    /\ \A c \in Callers : WF_vars(CloseStep(c))
    /\ \A w \in Workers :
        WF_vars(WorkerTick(w)) /\ SF_vars(WorkerLeave(w)) /\ WF_vars(WorkerDone(w))
    /\ \A p \in Pollers :
        /\ SF_vars(LockPoll(p))
        /\ WF_vars(PollStep(p) \/ \E s \in Sources : QueryReturns(p, s))

FairSpec == Spec /\ Fairness

-----------------------------------------------------------------------------
(* Properties.                                                             *)

Alive == {w \in Workers : at[w] \notin {"none", "leave", "gone"}}

(* `running' says whether there is a worker that polls, and there is never *)
(* more than one: also when a parent context ends, the engine is started   *)
(* again and the old worker has yet to leave.                              *)
OneWorker == Cardinality(Alive) = IF running THEN 1 ELSE 0

(* When Close returns, the worker is gone, with its queries, and none will *)
(* be started ("zero goroutine leaks upon return").                        *)
CloseWaitsForWorker ==
    closeReturned => \A w \in Workers : at[w] \in {"none", "gone"}

(* What a Close stops of the calls in flight, the worker's and those of    *)
(* the application, which Close does not wait for.  A call that has not    *)
(* yet looked at `closed' asks no source; one whose queries are under way  *)
(* publishes nothing; one that is past both looks may still publish        *)
(* (sync.go:304), also after Close has returned.  None counts its round as *)
(* failed evidence.                                                        *)
ClosedEngineRefuses ==
    \A p \in Pollers :
        /\ caught[p] = "entering" => at[p] \notin InRound
        /\ caught[p] = "querying" =>
              at[p] \notin {"recheckContext", "consensus", "publish"}
        /\ caught[p] # "no" => at[p] # "mark"

(* "Parent cancellation or engine shutdown is not a failed evidence        *)
(* round": a round whose queries were cut short never puts the service     *)
(* into holdover.                                                          *)
ShutdownIsNoFailure == \A p \in Pollers : at[p] = "mark" => ~cut[p]

(* Every Close returns, whoever else polls, closes or restarts.            *)
CloseReturns == \A c \in Callers : at[c] = "close" ~> at[c] = "idle"

(* Every PollOnce returns, also against a worker that polls for ever.      *)
PollOnceReturns ==
    \A c \in Callers : at[c] = "poll" ~> at[c] = "idle"
=============================================================================
