--------------------------- MODULE ContinuityGuard ---------------------------
(***************************************************************************)
(* clock.ContinuityGuard, one atomic operation per step.                   *)
(*                                                                         *)
(* Read takes no lock.  It reads the backend, loads `initialized' and the  *)
(* three words of the previous reading one after the other, decides, and   *)
(* stores them back one after the other; the token it answers with is      *)
(* loaded last.  Service readers, the writer and the query goroutines all  *)
(* share one guard, so any of these operations interleave, and the         *)
(* backend moves between them.                                             *)
(***************************************************************************)
EXTENDS RawClock

CONSTANTS Readers,        \* the goroutines that call Read
          MaxRaw,         \* bound: the counter stays at or below it
          MaxGen,         \* bound: backend generations 1..MaxGen
          BackendTokens,  \* tokens a backend may report
          MaxReads,       \* bound: calls per reader
          MaxRewinds      \* bound: rewinds of the counter

ASSUME GuardAssumption ==
    /\ MaxRaw \in Nat /\ MaxReads \in Nat /\ MaxRewinds \in Nat
    /\ MaxGen \in Nat \ {0}
    /\ BackendTokens \subseteq Nat /\ 1 \in BackendTokens

VARIABLES
    dev,          \* the backend: its next reading
    token,        \* ContinuityGuard.token
    initialized,  \* ContinuityGuard.initialized
    last,         \* lastRaw, lastToken, lastGen: three words, stored apart
    pc,           \* next atomic operation of each reader
    seen,         \* local: what initialized.Load returned
    reading,      \* local r
    prev,         \* local prevRaw, prevToken, prevGen
    reads,        \* calls made so far
    rewinds,      \* rewinds so far
    answers,      \* history: every reading returned
    earlier,      \* history: answers when the reader's call began
    asOf          \* history: answers when a backend generation appeared

shared == <<token, initialized, last>>
locals == <<pc, seen, reading, prev>>
history == <<answers, earlier, asOf>>
bounds == <<reads, rewinds>>
vars == <<dev, shared, locals, bounds, history>>

Steps == {"idle", "check", "loadRaw", "loadToken", "loadGen", "decide",
          "add", "storeRaw", "storeToken", "storeGen", "markInit", "cas",
          "label"}

TypeOK ==
    /\ dev \in Reading /\ dev.gen \in 1..MaxGen
    /\ token \in Nat /\ token >= 1
    /\ initialized \in BOOLEAN
    /\ last \in Reading
    /\ pc \in [Readers -> Steps]
    /\ seen \in [Readers -> BOOLEAN]
    /\ reading \in [Readers -> Reading]
    /\ prev \in [Readers -> Reading]
    /\ reads \in [Readers -> Nat]
    /\ rewinds \in Nat
    /\ answers \in SUBSET Reading
    /\ earlier \in [Readers -> SUBSET Reading]
    /\ asOf \in [0..MaxGen -> SUBSET Reading]

(* NewContinuityGuard's token.Store(1), and the same forgotten (mutant).   *)
UnsetToken == 0

FirstToken == 1

Init ==
    /\ dev = [raw |-> 1, token |-> 1, gen |-> 1]
    /\ token = FirstToken
    /\ initialized = FALSE
    /\ last = NoReading
    /\ pc = [p \in Readers |-> "idle"]
    /\ seen = [p \in Readers |-> FALSE]
    /\ reading = [p \in Readers |-> NoReading]
    /\ prev = [p \in Readers |-> NoReading]
    /\ reads = [p \in Readers |-> 0]
    /\ rewinds = 0
    /\ answers = {}
    /\ earlier = [p \in Readers |-> {}]
    /\ asOf = [g \in 0..MaxGen |-> {}]

-----------------------------------------------------------------------------
(* Read, operation by operation.                                           *)

Goto(p, from, to) == pc[p] = from /\ pc' = [pc EXCEPT ![p] = to]

BackendRead(p) ==
    /\ Goto(p, "idle", "check")
    /\ reads[p] < MaxReads
    /\ reads' = [reads EXCEPT ![p] = @ + 1]
    /\ reading' = [reading EXCEPT ![p] = dev]
    /\ earlier' = [earlier EXCEPT ![p] = answers]
    /\ UNCHANGED <<dev, shared, seen, prev, rewinds, answers, asOf>>

CheckInitialized(p) ==
    /\ Goto(p, "check", IF initialized THEN "loadRaw" ELSE "storeRaw")
    /\ seen' = [seen EXCEPT ![p] = initialized]
    /\ UNCHANGED <<dev, shared, reading, prev, bounds, history>>

Load(p) ==
    /\ \/ /\ Goto(p, "loadRaw", "loadToken")
          /\ prev' = [prev EXCEPT ![p].raw = last.raw]
       \/ /\ Goto(p, "loadToken", "loadGen")
          /\ prev' = [prev EXCEPT ![p].token = last.token]
       \/ /\ Goto(p, "loadGen", "decide")
          /\ prev' = [prev EXCEPT ![p].gen = last.gen]
    /\ UNCHANGED <<dev, shared, seen, reading, bounds, history>>

(* Mutant of Decide: a greater counter is not written back.                *)
DecideWithoutSwap(p) ==
    /\ Goto(p, "decide",
            IF IsDiscontinuous(reading[p], prev[p]) THEN "add" ELSE "label")
    /\ UNCHANGED <<dev, shared, seen, reading, prev, bounds, history>>

Decide(p) ==
    /\ Goto(p, "decide",
            IF IsDiscontinuous(reading[p], prev[p]) THEN "add"
            ELSE IF reading[p].raw > prev[p].raw THEN "cas" ELSE "label")
    /\ UNCHANGED <<dev, shared, seen, reading, prev, bounds, history>>

TokenAdd(p) ==
    /\ Goto(p, "add", "storeRaw")
    /\ token' = token + 1
    /\ UNCHANGED <<dev, initialized, last, seen, reading, prev, bounds, history>>

(* Mutant of Store: the generation is not written back.                    *)
StoreWithoutGen(p) ==
    /\ \/ /\ Goto(p, "storeRaw", "storeToken")
          /\ last' = [last EXCEPT !.raw = reading[p].raw]
       \/ /\ Goto(p, "storeToken", IF seen[p] THEN "label" ELSE "storeGen")
          /\ last' = [last EXCEPT !.token = reading[p].token]
       \/ /\ Goto(p, "storeGen", "markInit")
          /\ last' = [last EXCEPT !.gen = reading[p].gen]
    /\ UNCHANGED <<dev, token, initialized, seen, reading, prev, bounds, history>>

(* The three stores, on the path of the first read and after TokenAdd.     *)
Store(p) ==
    /\ \/ /\ Goto(p, "storeRaw", "storeToken")
          /\ last' = [last EXCEPT !.raw = reading[p].raw]
       \/ /\ Goto(p, "storeToken", "storeGen")
          /\ last' = [last EXCEPT !.token = reading[p].token]
       \/ /\ Goto(p, "storeGen", IF seen[p] THEN "label" ELSE "markInit")
          /\ last' = [last EXCEPT !.gen = reading[p].gen]
    /\ UNCHANGED <<dev, token, initialized, seen, reading, prev, bounds, history>>

MarkInitialized(p) ==
    /\ Goto(p, "markInit", "label")
    /\ initialized' = TRUE
    /\ UNCHANGED <<dev, token, last, seen, reading, prev, bounds, history>>

(* lastRaw.CompareAndSwap(prevRaw, curRaw): its result is ignored.         *)
SwapRaw(p) ==
    /\ Goto(p, "cas", "label")
    /\ last' = IF last.raw = prev[p].raw
               THEN [last EXCEPT !.raw = reading[p].raw]
               ELSE last
    /\ UNCHANGED <<dev, token, initialized, seen, reading, prev, bounds, history>>

(* Clear the locals: their values are dead between calls.                  *)
Answer(p) ==
    /\ Goto(p, "label", "idle")
    /\ answers' = answers \union {[reading[p] EXCEPT !.token = token]}
    /\ seen' = [seen EXCEPT ![p] = FALSE]
    /\ reading' = [reading EXCEPT ![p] = NoReading]
    /\ prev' = [prev EXCEPT ![p] = NoReading]
    /\ earlier' = [earlier EXCEPT ![p] = {}]
    /\ UNCHANGED <<dev, shared, bounds, asOf>>

Read(p) ==
    \/ BackendRead(p) \/ CheckInitialized(p) \/ Load(p) \/ Decide(p)
    \/ TokenAdd(p) \/ Store(p) \/ MarkInitialized(p) \/ SwapRaw(p)
    \/ Answer(p)

-----------------------------------------------------------------------------
(* The backend moves whenever it likes.                                    *)

Advance ==
    /\ dev.raw < MaxRaw
    /\ dev' = Advanced(dev, 1)
    /\ UNCHANGED <<shared, locals, bounds, history>>

Rewind ==
    /\ rewinds < MaxRewinds
    /\ rewinds' = rewinds + 1
    /\ \E d \in 1..MaxRaw : d <= dev.raw /\ dev' = Rewound(dev, d)
    /\ UNCHANGED <<shared, locals, reads, history>>

SetContinuityToken ==
    /\ dev.gen < MaxGen
    /\ \E t \in BackendTokens : dev' = Retokened(dev, t)
    /\ asOf' = [asOf EXCEPT ![dev.gen + 1] = answers]
    /\ UNCHANGED <<shared, locals, bounds, answers, earlier>>

Next ==
    \/ \E p \in Readers : Read(p)
    \/ Advance
    \/ Rewind
    \/ SetContinuityToken

Spec == Init /\ [][Next]_vars
-----------------------------------------------------------------------------
(* Properties.                                                             *)

(* A backend reset is never hidden.  Every reading of generation g carries *)
(* a token above that of every reading returned before generation g        *)
(* appeared, however many reads were in flight at the time: this is what   *)
(* stops an anchor taken before a reset from being propagated to a reading *)
(* taken after it (isDiscontinuousReading, token.Add before the stores).   *)
ResetChangesToken ==
    \A a \in answers : \A b \in asOf[a.gen] : b.token < a.token

(* Two reads, one after the other, under one token: the second is not      *)
(* below the first and comes from the same backend generation.  True of a  *)
(* guard with one caller at a time.                                        *)
NoUnseenRegression ==
    \A p \in Readers : pc[p] = "label" =>
        \A b \in earlier[p] : b.token = token =>
            b.raw <= reading[p].raw /\ b.gen = reading[p].gen

(* The token changes only if the backend was rewound or reset.             *)
NoFalseAlarm == token > FirstToken => rewinds > 0 \/ dev.gen > 1
-----------------------------------------------------------------------------
(***************************************************************************)
(* With one reader a call takes effect at its backend read.  Until the     *)
(* guard's words have caught up, the effect is computed from them: the     *)
(* words are the guard before the call as long as nothing is stored.       *)
(***************************************************************************)
Solo == CHOOSE p \in Readers : TRUE

Stored == [token |-> token, started |-> initialized, last |-> last]

AbstractGuard ==
    CASE pc[Solo] \in {"check", "loadRaw", "loadToken", "loadGen", "decide",
                       "add", "cas"} -> GuardAfter(Stored, reading[Solo])
      [] pc[Solo] \in {"storeRaw", "storeToken", "storeGen", "markInit"} ->
            [token |-> token, started |-> TRUE, last |-> reading[Solo]]
      [] OTHER -> Stored

AbstractAnswers ==
    IF pc[Solo] = "idle"
    THEN answers
    ELSE answers \union {[reading[Solo] EXCEPT !.token = AbstractGuard.token]}

Atomic == INSTANCE AtomicGuard WITH
    guard <- AbstractGuard, answers <- AbstractAnswers

(* With one caller at a time, Read behaves as one atomic step: the         *)
(* loads, stores and compare-and-swap add up to GuardAfter.                *)
ReadIsAtomic == Atomic!Spec
=============================================================================
