------------------------ MODULE ContinuityGuardProofs ------------------------
(***************************************************************************)
(* For any number of readers, and any interleaving of their atomic         *)
(* operations with the backend's moves: the guard's words keep their       *)
(* types, and a backend reset is never hidden (ResetChangesToken).         *)
(*                                                                         *)
(* For a single reader: Read is one atomic step (AtomicGuard), a           *)
(* regression is seen, and nothing else is taken for one.                  *)
(***************************************************************************)
EXTENDS ContinuityGuard, TLAPS

(* Replacing one word of a reading leaves a reading.                       *)
LEMMA ReadingWords ==
    ASSUME NEW r \in Reading, NEW n \in Nat
    PROVE  /\ r.raw \in Nat /\ r.token \in Nat /\ r.gen \in Nat
           /\ [r EXCEPT !.raw = n] \in Reading
           /\ [r EXCEPT !.token = n] \in Reading
           /\ [r EXCEPT !.gen = n] \in Reading
           /\ [r EXCEPT !.raw = n].gen = r.gen
           /\ [r EXCEPT !.token = n].gen = r.gen
           /\ [r EXCEPT !.token = n].token = n
           /\ [r EXCEPT !.gen = n].gen = n
BY DEF Reading

LEMMA NoReadingType == NoReading \in Reading /\ NoReading.gen = 0
BY DEF NoReading, Reading

(* What the backend's moves do to its reading.                             *)
LEMMA DeviceMoves ==
    ASSUME NEW r \in Reading, NEW d \in Nat, NEW t \in Nat
    PROVE  /\ Advanced(r, d) \in Reading /\ Advanced(r, d).gen = r.gen
           /\ Rewound(r, d) \in Reading /\ Rewound(r, d).gen = r.gen
           /\ Retokened(r, t) \in Reading /\ Retokened(r, t).gen = r.gen + 1
<1>1. Advanced(r, d) \in Reading /\ Advanced(r, d).gen = r.gen
    BY DEF Reading, Advanced
<1>2. Rewound(r, d) \in Reading /\ Rewound(r, d).gen = r.gen
    BY DEF Reading, Rewound
<1>3. Retokened(r, t) \in Reading /\ Retokened(r, t).gen = r.gen + 1
    BY DEF Reading, Retokened
<1> QED BY <1>1, <1>2, <1>3

LEMMA TypeInit == Init => TypeOK
<1> SUFFICES ASSUME Init PROVE TypeOK
    OBVIOUS
<1>1. dev \in Reading /\ dev.gen \in 1..MaxGen
    BY GuardAssumption DEF Init, Reading, GuardAssumption
<1>2. initialized \in BOOLEAN
    BY DEF Init
<1>3. token \in Nat /\ token >= 1 /\ last \in Reading /\ answers \in SUBSET Reading
    BY NoReadingType DEF Init, FirstToken
<1>4. /\ pc \in [Readers -> Steps] /\ seen \in [Readers -> BOOLEAN]
      /\ reading \in [Readers -> Reading] /\ prev \in [Readers -> Reading]
    BY NoReadingType DEF Init, Steps
<1>5. /\ reads \in [Readers -> Nat] /\ rewinds \in Nat
      /\ earlier \in [Readers -> SUBSET Reading]
      /\ asOf \in [0..MaxGen -> SUBSET Reading]
    BY DEF Init
<1> QED BY <1>1, <1>2, <1>3, <1>4, <1>5 DEF TypeOK

(* One step of a reader keeps the types.                                   *)
LEMMA TypeRead ==
    ASSUME TypeOK, NEW p \in Readers, Read(p) PROVE TypeOK'
<1> USE DEF TypeOK, shared, locals, history, bounds
<1>1. pc' \in [Readers -> Steps]
    <2>1. \E s \in Steps : pc' = [pc EXCEPT ![p] = s]
        BY DEF Goto, Steps, Read, BackendRead, CheckInitialized, Load, Decide,
               TokenAdd, Store, MarkInitialized, SwapRaw, Answer
    <2> QED BY <2>1
<1>2. dev' = dev /\ asOf' = asOf /\ rewinds' = rewinds
    BY DEF Read, BackendRead, CheckInitialized, Load, Decide, TokenAdd, Store,
           MarkInitialized, SwapRaw, Answer
<1>3. token' \in Nat /\ token' >= 1
    BY DEF Read, BackendRead, CheckInitialized, Load, Decide, TokenAdd, Store,
           MarkInitialized, SwapRaw, Answer
<1>4. initialized' \in BOOLEAN
    BY DEF Read, BackendRead, CheckInitialized, Load, Decide, TokenAdd, Store,
           MarkInitialized, SwapRaw, Answer
<1>5. seen' \in [Readers -> BOOLEAN]
    BY DEF Read, BackendRead, CheckInitialized, Load, Decide, TokenAdd, Store,
           MarkInitialized, SwapRaw, Answer
<1>6. last' \in Reading
    <2>0. reading[p] \in Reading /\ last \in Reading
        OBVIOUS
    <2>1. CASE Store(p)
        <3>1. \/ last' = [last EXCEPT !.raw = reading[p].raw]
              \/ last' = [last EXCEPT !.token = reading[p].token]
              \/ last' = [last EXCEPT !.gen = reading[p].gen]
            BY <2>1 DEF Store
        <3>2. reading[p].raw \in Nat /\ reading[p].token \in Nat
              /\ reading[p].gen \in Nat
            BY <2>0, ReadingWords
        <3>3. /\ [last EXCEPT !.raw = reading[p].raw] \in Reading
              /\ [last EXCEPT !.token = reading[p].token] \in Reading
              /\ [last EXCEPT !.gen = reading[p].gen] \in Reading
            <4> HIDE DEF TypeOK
            <4> QED BY <2>0, <3>2, ReadingWords
        <3> QED
            <4> HIDE DEF TypeOK
            <4> QED BY <3>1, <3>3
    <2>2. CASE SwapRaw(p)
        <3>1. \/ last' = [last EXCEPT !.raw = reading[p].raw]
              \/ last' = last
            BY <2>2 DEF SwapRaw
        <3>2. reading[p].raw \in Nat
            BY <2>0, ReadingWords
        <3>3. [last EXCEPT !.raw = reading[p].raw] \in Reading
            <4> HIDE DEF TypeOK
            <4> QED BY <2>0, <3>2, ReadingWords
        <3> QED
            <4> HIDE DEF TypeOK
            <4> QED BY <2>0, <3>1, <3>3
    <2>3. CASE ~Store(p) /\ ~SwapRaw(p)
        <3>1. last' = last
            BY <2>3 DEF Read, BackendRead, CheckInitialized, Load, Decide,
                        TokenAdd, MarkInitialized, Answer
        <3> QED BY <2>0, <3>1
    <2> QED BY <2>1, <2>2, <2>3
<1>7. prev' \in [Readers -> Reading]
    <2>1. CASE Load(p)
        <3>1. \/ prev' = [prev EXCEPT ![p] = [prev[p] EXCEPT !.raw = last.raw]]
              \/ prev' = [prev EXCEPT ![p] = [prev[p] EXCEPT !.token = last.token]]
              \/ prev' = [prev EXCEPT ![p] = [prev[p] EXCEPT !.gen = last.gen]]
            BY <2>1 DEF Load
        <3>2. last.raw \in Nat /\ last.token \in Nat /\ last.gen \in Nat
            BY ReadingWords
        <3>3. /\ [prev[p] EXCEPT !.raw = last.raw] \in Reading
              /\ [prev[p] EXCEPT !.token = last.token] \in Reading
              /\ [prev[p] EXCEPT !.gen = last.gen] \in Reading
            BY <3>2, ReadingWords
        <3> QED BY <3>1, <3>3
    <2>2. CASE Answer(p)
        BY <2>2, NoReadingType DEF Answer
    <2>3. CASE ~Load(p) /\ ~Answer(p)
        <3>1. prev' = prev
            BY <2>3 DEF Read, BackendRead, CheckInitialized, Decide, TokenAdd,
                        Store, MarkInitialized, SwapRaw
        <3> QED BY <3>1
    <2> QED BY <2>1, <2>2, <2>3
<1>8. /\ reading' \in [Readers -> Reading]
      /\ reads' \in [Readers -> Nat]
      /\ answers' \in SUBSET Reading
      /\ earlier' \in [Readers -> SUBSET Reading]
    <2>1. CASE BackendRead(p)
        BY <2>1 DEF BackendRead
    <2>2. CASE Answer(p)
        <3>1. [reading[p] EXCEPT !.token = token] \in Reading
            BY ReadingWords
        <3> QED BY <2>2, <3>1, NoReadingType DEF Answer
    <2>3. CASE ~BackendRead(p) /\ ~Answer(p)
        <3>1. UNCHANGED <<reading, reads, answers, earlier>>
            BY <2>3 DEF Read, CheckInitialized, Load, Decide, TokenAdd, Store,
                        MarkInitialized, SwapRaw
        <3> QED BY <3>1
    <2> QED BY <2>1, <2>2, <2>3
<1> QED BY <1>1, <1>2, <1>3, <1>4, <1>5, <1>6, <1>7, <1>8

(* Every step of a reader, or of the backend, keeps the types.             *)
LEMMA TypeStep == TypeOK /\ [Next]_vars => TypeOK'
<1> SUFFICES ASSUME TypeOK, [Next]_vars PROVE TypeOK'
    OBVIOUS
<1> USE DEF TypeOK, shared, locals, history, bounds
<1>1. ASSUME NEW p \in Readers, Read(p) PROVE TypeOK'
    BY <1>1, TypeRead
<1>2. CASE Advance
    BY <1>2, DeviceMoves DEF Advance
<1>3. CASE Rewind
    <2>1. dev' \in Reading /\ dev'.gen = dev.gen
        <3>1. PICK d \in 1..MaxRaw : dev' = Rewound(dev, d)
            BY <1>3 DEF Rewind
        <3>2. d \in Nat
            BY GuardAssumption DEF GuardAssumption
        <3> QED BY <3>1, <3>2, DeviceMoves
    <2> QED BY <1>3, <2>1 DEF Rewind
<1>4. CASE SetContinuityToken
    <2>1. dev' \in Reading /\ dev'.gen = dev.gen + 1
        <3>1. PICK t \in BackendTokens : dev' = Retokened(dev, t)
            BY <1>4 DEF SetContinuityToken
        <3>2. t \in Nat
            BY GuardAssumption DEF GuardAssumption
        <3> QED BY <3>1, <3>2, DeviceMoves
    <2>2. dev'.gen \in 1..MaxGen
        BY <1>4, <2>1, GuardAssumption DEF SetContinuityToken, GuardAssumption
    <2> QED BY <1>4, <2>1, <2>2 DEF SetContinuityToken
<1>5. CASE UNCHANGED vars BY <1>5 DEF vars
<1> QED BY <1>1, <1>2, <1>3, <1>4, <1>5 DEF Next

(* The guard's words, the readers' locals and the histories keep their     *)
(* types: in particular the token starts at 1 and is never 0.              *)
THEOREM TypeCorrect == Spec => []TypeOK
<1> QED BY TypeInit, TypeStep, PTL DEF Spec
-----------------------------------------------------------------------------
(***************************************************************************)
(* ResetChangesToken is not inductive: an answer takes its token from the  *)
(* shared word, so it must be known beforehand that the word has already   *)
(* passed every token handed out before the answer's generation appeared.  *)
(* That is so for the generation in lastGen (it was stored after the       *)
(* token was raised), hence for a reader that compared equal with it, and  *)
(* for a reader that raised the token itself.  A reader on the path of the *)
(* first read has nothing to pass: no answer existed.                      *)
(***************************************************************************)
Above(g) == \A b \in asOf[g] : b.token < token

Exists(g) == g \in 0..MaxGen /\ g <= dev.gen

GensExist ==
    /\ Exists(last.gen)
    /\ \A p \in Readers : Exists(reading[p].gen) /\ Exists(prev[p].gen)
    /\ \A a \in answers : Exists(a.gen)

Issued ==
    /\ \A a \in answers : a.token <= token
    /\ \A g \in 0..MaxGen : asOf[g] \subseteq answers

StartedPhases == {"loadRaw", "loadToken", "loadGen", "decide", "add", "cas",
                  "label"}

Started ==
    /\ answers # {} => initialized
    /\ \A p \in Readers : pc[p] \in StartedPhases \/ seen[p] => initialized

TokenPassed ==
    /\ Above(last.gen)
    /\ \A p \in Readers :
        /\ pc[p] \in {"storeRaw", "storeToken", "storeGen", "markInit", "cas",
                      "label"} => Above(reading[p].gen)
        /\ pc[p] = "decide" => Above(prev[p].gen)

IInv == TypeOK /\ GensExist /\ Issued /\ Started /\ TokenPassed /\ ResetChangesToken

LEMMA InitInv == Init => IInv
<1> SUFFICES ASSUME Init PROVE IInv
    OBVIOUS
<1>1. TypeOK
    BY TypeInit
<1>2. dev.gen = 1 /\ 0 \in 0..MaxGen
    BY GuardAssumption DEF Init, GuardAssumption
<1>3. GensExist
    BY <1>2, NoReadingType DEF Init, GensExist, Exists
<1>4. Issued /\ Started /\ ResetChangesToken
    BY DEF Init, Issued, Started, StartedPhases, ResetChangesToken
<1>5. TokenPassed
    BY <1>2, NoReadingType DEF Init, TokenPassed, Above
<1> QED BY <1>1, <1>3, <1>4, <1>5 DEF IInv

(* A token once passed stays passed: the word only grows, and what asOf    *)
(* recorded for a generation does not change.                              *)
LEMMA AboveStays ==
    ASSUME TypeOK, Issued, NEW g \in 0..MaxGen, Above(g),
           token' \in Nat, token' >= token, asOf'[g] = asOf[g]
    PROVE  Above(g)'
<1> SUFFICES ASSUME NEW b \in asOf[g] PROVE b.token < token'
    BY DEF Above
<1>1. b.token \in Nat /\ b.token < token
    BY ReadingWords DEF Above, TypeOK
<1> QED BY <1>1 DEF TypeOK

(* Everything a step of the readers does to the shared words.              *)
LEMMA ReadFrame ==
    ASSUME TypeOK, NEW p \in Readers, Read(p)
    PROVE  /\ UNCHANGED <<dev, asOf, rewinds>>
           /\ token' \in Nat /\ token' >= token
           /\ initialized => initialized'
           /\ \A q \in Readers \ {p} :
                 /\ pc'[q] = pc[q] /\ reading'[q] = reading[q]
                 /\ prev'[q] = prev[q] /\ seen'[q] = seen[q]
<1> USE DEF TypeOK, shared, locals, history, bounds
<1>1. UNCHANGED <<dev, asOf, rewinds>>
    BY DEF Read, BackendRead, CheckInitialized, Load, Decide, TokenAdd, Store,
           MarkInitialized, SwapRaw, Answer
<1>2. token' \in Nat /\ token' >= token
    BY DEF Read, BackendRead, CheckInitialized, Load, Decide, TokenAdd, Store,
           MarkInitialized, SwapRaw, Answer
<1>3. initialized => initialized'
    BY DEF Read, BackendRead, CheckInitialized, Load, Decide, TokenAdd, Store,
           MarkInitialized, SwapRaw, Answer
<1>4. ASSUME NEW q \in Readers \ {p}
      PROVE  pc'[q] = pc[q] /\ seen'[q] = seen[q]
    BY DEF Goto, Read, BackendRead, CheckInitialized, Load, Decide, TokenAdd,
           Store, MarkInitialized, SwapRaw, Answer
<1>5. ASSUME NEW q \in Readers \ {p}
      PROVE  reading'[q] = reading[q] /\ prev'[q] = prev[q]
    BY DEF Read, BackendRead, CheckInitialized, Load, Decide, TokenAdd,
           Store, MarkInitialized, SwapRaw, Answer
<1> QED BY <1>1, <1>2, <1>3, <1>4, <1>5

(* What a step of reader p does to its own locals and to the words it can  *)
(* write, one line per operation.                                          *)
LEMMA ReadEffect ==
    ASSUME TypeOK, NEW p \in Readers, Read(p)
    PROVE
      \/ /\ BackendRead(p) /\ pc'[p] = "check"
         /\ reading'[p] = dev /\ UNCHANGED <<last, token, answers, prev, seen>>
      \/ /\ pc[p] = "check" /\ ~initialized /\ pc'[p] = "storeRaw" /\ ~seen'[p]
         /\ UNCHANGED <<last, token, answers, reading, prev>>
      \/ /\ pc[p] = "check" /\ initialized /\ pc'[p] = "loadRaw"
         /\ UNCHANGED <<last, token, answers, reading, prev>>
      \/ /\ pc[p] \in {"loadRaw", "loadToken"} /\ pc'[p] \in {"loadToken", "loadGen"}
         /\ prev'[p].gen = prev[p].gen
         /\ UNCHANGED <<last, token, answers, reading, seen>>
      \/ /\ pc[p] = "loadGen" /\ pc'[p] = "decide" /\ prev'[p].gen = last.gen
         /\ UNCHANGED <<last, token, answers, reading, seen>>
      \/ /\ pc[p] = "decide" /\ pc'[p] = "add"
         /\ UNCHANGED <<last, token, answers, reading, prev, seen>>
      \/ /\ pc[p] = "decide" /\ pc'[p] \in {"cas", "label"}
         /\ reading[p].gen = prev[p].gen
         /\ UNCHANGED <<last, token, answers, reading, prev, seen>>
      \/ /\ pc[p] = "add" /\ pc'[p] = "storeRaw" /\ token' = token + 1
         /\ UNCHANGED <<last, answers, reading, prev, seen>>
      \/ /\ pc[p] \in {"storeRaw", "storeToken"}
         /\ pc'[p] \in {"storeToken", "storeGen"} /\ last'.gen = last.gen
         /\ UNCHANGED <<token, answers, reading, prev, seen>>
      \/ /\ pc[p] = "storeGen" /\ last'.gen = reading[p].gen
         /\ pc'[p] = IF seen[p] THEN "label" ELSE "markInit"
         /\ UNCHANGED <<token, answers, reading, prev, seen>>
      \/ /\ pc[p] = "markInit" /\ pc'[p] = "label" /\ initialized'
         /\ UNCHANGED <<last, token, answers, reading, prev, seen>>
      \/ /\ pc[p] = "cas" /\ pc'[p] = "label" /\ last'.gen = last.gen
         /\ UNCHANGED <<token, answers, reading, prev, seen>>
      \/ /\ pc[p] = "label" /\ pc'[p] = "idle"
         /\ answers' = answers \union {[reading[p] EXCEPT !.token = token]}
         /\ reading'[p] = NoReading /\ prev'[p] = NoReading /\ ~seen'[p]
         /\ UNCHANGED <<last, token>>
<1> USE DEF TypeOK, shared, locals, history, bounds, Goto
<1>1. CASE BackendRead(p) BY <1>1 DEF BackendRead
<1>2. CASE CheckInitialized(p) BY <1>2 DEF CheckInitialized
<1>3. CASE Load(p)
    <2>1. last.raw \in Nat /\ last.token \in Nat /\ last.gen \in Nat
        BY ReadingWords
    <2>2. /\ [prev[p] EXCEPT !.raw = last.raw].gen = prev[p].gen
          /\ [prev[p] EXCEPT !.token = last.token].gen = prev[p].gen
          /\ [prev[p] EXCEPT !.gen = last.gen].gen = last.gen
        BY <2>1, ReadingWords
    <2> QED BY <1>3, <2>2 DEF Load
<1>4. CASE Decide(p) BY <1>4 DEF Decide, IsDiscontinuous
<1>5. CASE TokenAdd(p) BY <1>5 DEF TokenAdd
<1>6. CASE Store(p)
    <2>1. /\ reading[p].raw \in Nat /\ reading[p].token \in Nat
          /\ reading[p].gen \in Nat
        BY ReadingWords
    <2>2. /\ [last EXCEPT !.raw = reading[p].raw].gen = last.gen
          /\ [last EXCEPT !.token = reading[p].token].gen = last.gen
          /\ [last EXCEPT !.gen = reading[p].gen].gen = reading[p].gen
        BY <2>1, ReadingWords
    <2> QED BY <1>6, <2>2 DEF Store
<1>7. CASE MarkInitialized(p) BY <1>7 DEF MarkInitialized
<1>8. CASE SwapRaw(p)
    <2>1. reading[p].raw \in Nat
        BY ReadingWords
    <2>2. [last EXCEPT !.raw = reading[p].raw].gen = last.gen
        BY <2>1, ReadingWords
    <2> QED BY <1>8, <2>2 DEF SwapRaw
<1>9. CASE Answer(p) BY <1>9 DEF Answer
<1> QED BY <1>1, <1>2, <1>3, <1>4, <1>5, <1>6, <1>7, <1>8, <1>9 DEF Read

(* A step of a reader keeps the invariant.                                 *)
LEMMA ReadInv ==
    ASSUME IInv, NEW p \in Readers, Read(p) PROVE IInv'
<1> USE DEF IInv
<1>0. TypeOK' /\ Exists(dev.gen) /\ Exists(0)
    <2>1. dev.gen \in 1..MaxGen
        BY DEF TypeOK
    <2> QED BY <2>1, TypeRead, GuardAssumption DEF Exists, GuardAssumption
<1>a. /\ UNCHANGED <<dev, asOf>> /\ token' >= token /\ token' \in Nat
      /\ initialized => initialized'
    BY ReadFrame
<1>b. \A q \in Readers \ {p} :
        /\ pc'[q] = pc[q] /\ reading'[q] = reading[q]
        /\ prev'[q] = prev[q] /\ seen'[q] = seen[q]
    BY ReadFrame
<1>c. \A g \in 0..MaxGen : Above(g) => Above(g)'
    BY <1>a, AboveStays
<1>d. \A g : Exists(g) => Exists(g)'
    BY <1>a DEF Exists
<1>1. GensExist'
    <2>1. Exists(last'.gen)
        BY ReadEffect DEF GensExist
    <2>2. Exists(reading'[p].gen) /\ Exists(prev'[p].gen)
        <3>1. Exists(NoReading.gen)
            BY <1>0, NoReadingType
        <3> QED BY <1>0, <3>1, ReadEffect DEF GensExist, BackendRead
    <2>3. \A a \in answers' : Exists(a.gen)
        <3>1. [reading[p] EXCEPT !.token = token].gen = reading[p].gen
            BY ReadingWords DEF TypeOK
        <3>2. \/ answers' = answers
              \/ answers' = answers \union {[reading[p] EXCEPT !.token = token]}
            BY ReadEffect DEF BackendRead
        <3>3. \A a \in answers : Exists(a.gen)
            BY DEF GensExist
        <3>4. Exists(reading[p].gen)
            BY DEF GensExist
        <3> QED BY <3>1, <3>2, <3>3, <3>4
    <2> QED BY <1>b, <1>d, <2>1, <2>2, <2>3 DEF GensExist
<1>2. Issued'
    <2>1. \A a \in answers' : a.token <= token'
        <3>1. [reading[p] EXCEPT !.token = token].token = token
            BY ReadingWords DEF TypeOK
        <3>2. \A a \in answers : a.token \in Nat
            BY ReadingWords DEF TypeOK
        <3>3. \A a \in answers : a.token <= token'
            BY <1>a, <3>2 DEF Issued, TypeOK
        <3>4. answers' = answers
              \/ answers' = answers \union {[reading[p] EXCEPT !.token = token]}
            BY ReadEffect
        <3> QED BY <1>a, <3>1, <3>3, <3>4 DEF TypeOK
    <2>2. answers \subseteq answers'
        BY ReadEffect
    <2> QED BY <1>a, <2>1, <2>2 DEF Issued
<1>3. Started'
    <2>1. pc'[p] \in StartedPhases \/ seen'[p] => initialized'
        BY <1>a, ReadEffect DEF Started, StartedPhases, BackendRead, shared,
           CheckInitialized, Read, Load, Decide, TokenAdd, Store,
           MarkInitialized, SwapRaw, Answer
    <2>2. answers' # {} => initialized'
        BY <1>a, ReadEffect DEF Started, StartedPhases
    <2> QED BY <1>a, <1>b, <2>1, <2>2 DEF Started
<1>4. TokenPassed'
    <2> DEFINE Passed(g) == \A b \in asOf[g] : b.token < token'
    <2>1. \A g : Exists(g) /\ Above(g) => Passed(g)
        BY <1>a, <1>c DEF Exists, Above
    <2>2. Exists(last.gen) /\ Exists(reading[p].gen) /\ Exists(prev[p].gen)
        BY DEF GensExist
    <2>3. ASSUME answers = {} PROVE \A g : Exists(g) => Passed(g)
        BY <2>3 DEF Issued, Exists
    <2>4. ASSUME token' = token + 1 PROVE \A g : Exists(g) => Passed(g)
        <3>1. \A b \in answers : b.token \in Nat /\ b.token <= token
            BY ReadingWords DEF TypeOK, Issued
        <3> QED BY <2>4, <3>1 DEF Issued, Exists, TypeOK
    <2> HIDE DEF Passed
    <2>5. Passed(last'.gen)
        BY <2>1, <2>2, ReadEffect DEF TokenPassed
    <2>6. pc'[p] \in {"storeRaw", "storeToken", "storeGen", "markInit", "cas",
                      "label"} => Passed(reading'[p].gen)
        BY <2>1, <2>2, <2>3, <2>4, ReadEffect DEF TokenPassed, Started
    <2>7. pc'[p] = "decide" => Passed(prev'[p].gen)
        BY <2>1, <2>2, ReadEffect DEF TokenPassed
    <2>8. ASSUME NEW q \in Readers \ {p}
          PROVE  /\ pc'[q] \in {"storeRaw", "storeToken", "storeGen",
                                "markInit", "cas", "label"}
                       => Passed(reading'[q].gen)
                 /\ pc'[q] = "decide" => Passed(prev'[q].gen)
        BY <1>b, <2>1 DEF TokenPassed, GensExist
    <2>9. \A g : Passed(g) => \A b \in asOf'[g] : b.token < token'
        BY <1>a DEF Passed
    <2>10. \A b \in asOf'[last'.gen] : b.token < token'
        BY <2>5, <2>9
    <2>11. ASSUME NEW q \in Readers
           PROVE  /\ pc'[q] \in {"storeRaw", "storeToken", "storeGen",
                                 "markInit", "cas", "label"}
                        => \A b \in asOf'[reading'[q].gen] : b.token < token'
                  /\ pc'[q] = "decide"
                        => \A b \in asOf'[prev'[q].gen] : b.token < token'
        BY <2>6, <2>7, <2>8, <2>9
    <2> QED BY <2>10, <2>11 DEF TokenPassed, Above
<1>5. ResetChangesToken'
    <2> DEFINE new == [reading[p] EXCEPT !.token = token]
    <2>1. new.gen = reading[p].gen /\ new.token = token
        BY ReadingWords DEF TypeOK
    <2> HIDE DEF new
    <2>2. \/ answers' = answers
          \/ pc[p] = "label" /\ answers' = answers \union {new}
        BY ReadEffect DEF new
    <2>3. pc[p] = "label" => \A b \in asOf[new.gen] : b.token < new.token
        BY <2>1 DEF TokenPassed, Above
    <2> QED BY <1>a, <2>2, <2>3 DEF ResetChangesToken
<1> QED BY <1>0, <1>1, <1>2, <1>3, <1>4, <1>5

(* A generation that appears finds every token handed out so far behind    *)
(* it; nothing yet carries its number.                                     *)
LEMMA ResetInv == IInv /\ SetContinuityToken => IInv'
<1> SUFFICES ASSUME IInv, SetContinuityToken PROVE IInv'
    OBVIOUS
<1> USE DEF IInv, shared, locals, history, bounds
<1>1. TypeOK'
    BY TypeStep DEF Next
<1>2. dev'.gen = dev.gen + 1 /\ dev.gen \in Nat /\ dev.gen + 1 \in 0..MaxGen
    <2>1. PICK t \in BackendTokens : dev' = Retokened(dev, t)
        BY DEF SetContinuityToken
    <2>2. t \in Nat
        BY GuardAssumption DEF GuardAssumption
    <2>3. dev'.gen = dev.gen + 1 /\ dev.gen \in Nat
        BY <2>1, <2>2, DeviceMoves, ReadingWords DEF TypeOK
    <2> QED BY <2>3, GuardAssumption DEF SetContinuityToken, GuardAssumption
<1>3. /\ UNCHANGED <<token, initialized, last, pc, seen, reading, prev, answers>>
      /\ asOf' = [asOf EXCEPT ![dev.gen + 1] = answers]
    BY DEF SetContinuityToken
<1>4. \A g : Exists(g) => Exists(g)' /\ asOf'[g] = asOf[g]
    BY <1>2, <1>3 DEF Exists, TypeOK
<1>5. GensExist'
    BY <1>3, <1>4 DEF GensExist
<1>6. Issued'
    BY <1>2, <1>3 DEF Issued, TypeOK
<1>7. Started'
    BY <1>3 DEF Started
<1>8. TokenPassed'
    <2>1. \A g : Exists(g) /\ Above(g) => \A b \in asOf'[g] : b.token < token'
        BY <1>3, <1>4 DEF Above
    <2> QED BY <1>3, <2>1 DEF TokenPassed, GensExist, Above
<1>9. ResetChangesToken'
    BY <1>3, <1>4 DEF ResetChangesToken, GensExist
<1> QED BY <1>1, <1>5, <1>6, <1>7, <1>8, <1>9

LEMMA StepInv == IInv /\ [Next]_vars => IInv'
<1> SUFFICES ASSUME IInv, [Next]_vars PROVE IInv'
    OBVIOUS
<1> USE DEF shared, locals, history, bounds
<1>1. ASSUME NEW p \in Readers, Read(p) PROVE IInv'
    BY <1>1, ReadInv
<1>2. CASE SetContinuityToken
    BY <1>2, ResetInv
<1>3. CASE Advance \/ Rewind \/ UNCHANGED vars
    <2>1. TypeOK'
        BY TypeStep DEF IInv
    <2>2. /\ UNCHANGED <<token, initialized, last, pc, seen, reading, prev>>
          /\ UNCHANGED <<answers, asOf>>
        BY <1>3 DEF Advance, Rewind, vars
    <2>3. dev'.gen = dev.gen
        <3>1. CASE Advance
            BY <3>1, DeviceMoves DEF Advance, IInv, TypeOK
        <3>2. CASE Rewind
            <4>1. PICK d \in 1..MaxRaw : dev' = Rewound(dev, d)
                BY <3>2 DEF Rewind
            <4>2. d \in Nat
                BY GuardAssumption DEF GuardAssumption
            <4> QED BY <4>1, <4>2, DeviceMoves DEF IInv, TypeOK
        <3> QED BY <1>3, <3>1, <3>2 DEF vars
    <2>4. GensExist'
        BY <2>2, <2>3 DEF IInv, GensExist, Exists
    <2>5. Issued' /\ Started' /\ TokenPassed' /\ ResetChangesToken'
        BY <2>2 DEF IInv, Issued, Started, TokenPassed, Above, ResetChangesToken
    <2> QED BY <2>1, <2>4, <2>5 DEF IInv
<1> QED BY <1>1, <1>2, <1>3 DEF Next

(* However reads overlap, a reading of a backend generation never carries  *)
(* the token of a reading returned before that generation appeared: the    *)
(* guard never lets evidence from before a reset pass for fresh.           *)
THEOREM ResetsAreVisible == Spec => []ResetChangesToken
<1>1. IInv => ResetChangesToken
    BY DEF IInv
<1> QED BY <1>1, InitInv, StepInv, PTL DEF Spec
-----------------------------------------------------------------------------
(***************************************************************************)
(* One caller at a time.  Between its operations only the backend moves,   *)
(* so what it has loaded is what is stored (Copied), and what is stored is *)
(* what it, or the call before it, has read.                               *)
(***************************************************************************)
OneCaller == \E p : Readers = {p}

Comparing == {"loadRaw", "loadToken", "loadGen", "decide", "add", "cas"}

Storing == {"storeRaw", "storeToken", "storeGen", "markInit"}

(* A call compares if the guard was initialized; what it has loaded, and   *)
(* what it has stored, agree with the guard's words.                       *)
Copied ==
    /\ pc[Solo] \in Comparing => initialized /\ seen[Solo]
    /\ pc[Solo] \in Storing => seen[Solo] = initialized
    /\ pc[Solo] \in {"loadToken", "loadGen", "decide", "add", "cas"}
            => prev[Solo].raw = last.raw
    /\ pc[Solo] \in {"loadGen", "decide", "add", "cas"}
            => prev[Solo].token = last.token
    /\ pc[Solo] \in {"decide", "add", "cas"} => prev[Solo].gen = last.gen
    /\ pc[Solo] = "add" => IsDiscontinuous(reading[Solo], last)
    /\ pc[Solo] = "cas" => ~IsDiscontinuous(reading[Solo], last)
    /\ pc[Solo] \in {"storeToken", "storeGen", "markInit", "label"}
            => last.raw = reading[Solo].raw
    /\ pc[Solo] \in {"storeGen", "markInit", "label"}
            => last.token = reading[Solo].token
    /\ pc[Solo] \in {"markInit", "label"} => last.gen = reading[Solo].gen

(* What was answered under the present token is not above the guard's      *)
(* words; on the way from the new token to the stores there is no such.    *)
Remembered ==
    /\ earlier[Solo] \subseteq answers
    /\ \A b \in answers : b.token = token =>
          /\ b.raw <= last.raw /\ b.gen = last.gen
          /\ pc[Solo] \notin Storing

(* Until the backend was rewound or reset, everything read and remembered  *)
(* is of its first generation and not ahead of it.                         *)
Untouched(r) == r.token = FirstToken /\ r.gen = 1 /\ r.raw <= dev.raw

Unalarmed ==
    rewinds = 0 /\ dev.gen = 1 =>
        /\ token = FirstToken /\ Untouched(dev)
        /\ pc[Solo] # "add" /\ (pc[Solo] \in Storing => ~initialized)
        /\ pc[Solo] # "idle" => Untouched(reading[Solo])
        /\ initialized => Untouched(last)
        /\ initialized /\ pc[Solo] # "idle" => last.raw <= reading[Solo].raw

SoloInv == Copied /\ Remembered /\ Unalarmed

LEMMA SoloIsTheCaller ==
    ASSUME OneCaller PROVE Solo \in Readers /\ \A p \in Readers : p = Solo
BY DEF OneCaller, Solo

LEMMA SoloInit == OneCaller /\ Init => SoloInv
<1> SUFFICES ASSUME OneCaller, Init PROVE SoloInv
    OBVIOUS
<1>1. pc[Solo] = "idle" /\ earlier[Solo] = {} /\ ~initialized
    BY SoloIsTheCaller DEF Init
<1>2. Copied
    BY <1>1 DEF Copied, Comparing, Storing
<1>3. Remembered
    BY <1>1 DEF Remembered, Init
<1>4. Unalarmed
    BY <1>1 DEF Unalarmed, Untouched, Init, FirstToken, Storing
<1> QED BY <1>2, <1>3, <1>4 DEF SoloInv

(* The caller's words are readings, and differ only if a word differs.     *)
LEMMA SoloTyped ==
    ASSUME OneCaller, TypeOK
    PROVE  /\ reading[Solo] \in Reading /\ prev[Solo] \in Reading
           /\ last \in Reading /\ dev \in Reading
           /\ pc \in [Readers -> Steps] /\ seen \in [Readers -> BOOLEAN]
           /\ reading \in [Readers -> Reading] /\ prev \in [Readers -> Reading]
           /\ earlier \in [Readers -> SUBSET Reading]
           /\ reading[Solo].raw \in Nat /\ prev[Solo].raw \in Nat
           /\ last.raw \in Nat /\ dev.raw \in Nat
           /\ token \in Nat /\ initialized \in BOOLEAN
BY SoloIsTheCaller, ReadingWords DEF TypeOK

LEMMA WordByWord ==
    ASSUME NEW r \in Reading, NEW s \in Reading,
           r.raw = s.raw, r.token = s.token, r.gen = s.gen
    PROVE  r = s
BY DEF Reading

(* What a step of the caller does, word by word.                           *)
Keeps == UNCHANGED <<dev, rewinds>>

KeepsGuard == UNCHANGED <<token, initialized, last, answers>>

KeepsCall == reading'[Solo] = reading[Solo] /\ seen'[Solo] = seen[Solo]
             /\ earlier'[Solo] = earlier[Solo]

KeepsPrev == prev'[Solo] = prev[Solo]

From(s, t) == pc[Solo] = s /\ pc'[Solo] = t

LoadEffect ==
    /\ KeepsGuard /\ KeepsCall
    /\ \/ /\ From("loadRaw", "loadToken")
          /\ prev'[Solo].raw = last.raw
       \/ /\ From("loadToken", "loadGen")
          /\ prev'[Solo].raw = prev[Solo].raw
          /\ prev'[Solo].token = last.token
       \/ /\ From("loadGen", "decide")
          /\ prev'[Solo].raw = prev[Solo].raw
          /\ prev'[Solo].token = prev[Solo].token
          /\ prev'[Solo].gen = last.gen

StoreEffect ==
    /\ UNCHANGED <<token, initialized, answers>> /\ KeepsCall /\ KeepsPrev
    /\ \/ /\ From("storeRaw", "storeToken")
          /\ last'.raw = reading[Solo].raw
       \/ /\ From("storeToken", "storeGen")
          /\ last'.raw = last.raw /\ last'.token = reading[Solo].token
       \/ /\ From("storeGen", IF seen[Solo] THEN "label" ELSE "markInit")
          /\ last'.raw = last.raw /\ last'.token = last.token
          /\ last'.gen = reading[Solo].gen

OtherEffect ==
    \/ /\ From("idle", "check") /\ KeepsGuard
       /\ reading'[Solo] = dev /\ earlier'[Solo] = answers
    \/ /\ From("check", IF initialized THEN "loadRaw" ELSE "storeRaw")
       /\ seen'[Solo] = initialized /\ reading'[Solo] = reading[Solo]
       /\ earlier'[Solo] = earlier[Solo] /\ KeepsGuard
    \/ /\ KeepsGuard /\ KeepsCall /\ KeepsPrev
       /\ From("decide", IF IsDiscontinuous(reading[Solo], prev[Solo]) THEN "add"
                         ELSE IF reading[Solo].raw > prev[Solo].raw THEN "cas"
                         ELSE "label")
    \/ /\ From("add", "storeRaw") /\ token' = token + 1
       /\ UNCHANGED <<initialized, last, answers>> /\ KeepsCall /\ KeepsPrev
    \/ /\ From("markInit", "label") /\ initialized'
       /\ UNCHANGED <<token, last, answers>> /\ KeepsCall /\ KeepsPrev
    \/ /\ From("cas", "label") /\ KeepsCall /\ KeepsPrev
       /\ UNCHANGED <<token, initialized, answers>>
       /\ last'.token = last.token /\ last'.gen = last.gen
       /\ last'.raw = IF last.raw = prev[Solo].raw THEN reading[Solo].raw
                      ELSE last.raw
    \/ /\ From("label", "idle") /\ UNCHANGED <<token, initialized, last>>
       /\ answers' = answers \union {[reading[Solo] EXCEPT !.token = token]}
       /\ earlier'[Solo] = {}

LEMMA ReadingExcept ==
    ASSUME NEW r \in Reading, NEW n \in Nat
    PROVE  /\ [r EXCEPT !.raw = n].raw = n /\ [r EXCEPT !.raw = n].token = r.token
           /\ [r EXCEPT !.raw = n].gen = r.gen
           /\ [r EXCEPT !.token = n].raw = r.raw /\ [r EXCEPT !.token = n].token = n
           /\ [r EXCEPT !.token = n].gen = r.gen
           /\ [r EXCEPT !.gen = n].raw = r.raw /\ [r EXCEPT !.gen = n].token = r.token
           /\ [r EXCEPT !.gen = n].gen = n
BY DEF Reading

LEMMA SoloMoves ==
    ASSUME OneCaller, TypeOK, NEW s, NEW t, Goto(Solo, s, t)
    PROVE  From(s, t)
BY SoloTyped, SoloIsTheCaller DEF Goto, From

LEMMA SoloLoads ==
    ASSUME OneCaller, TypeOK, Load(Solo) PROVE LoadEffect /\ Keeps
<1>0. /\ Solo \in Readers /\ prev \in [Readers -> Reading]
      /\ prev[Solo] \in Reading
    BY SoloIsTheCaller, SoloTyped
<1>1. last.raw \in Nat /\ last.token \in Nat /\ last.gen \in Nat
    BY SoloTyped, ReadingWords
<1>2. Keeps /\ KeepsGuard /\ KeepsCall
    BY DEF Load, Keeps, KeepsGuard, KeepsCall, shared, bounds, history
<1>3. CASE /\ Goto(Solo, "loadRaw", "loadToken")
           /\ prev' = [prev EXCEPT ![Solo].raw = last.raw]
    <2>1. prev'[Solo] = [prev[Solo] EXCEPT !.raw = last.raw]
        BY <1>0, <1>3
    <2>2. From("loadRaw", "loadToken")
        BY <1>3, SoloMoves
    <2> QED BY <1>0, <1>1, <1>2, <2>1, <2>2, ReadingExcept DEF LoadEffect
<1>4. CASE /\ Goto(Solo, "loadToken", "loadGen")
           /\ prev' = [prev EXCEPT ![Solo].token = last.token]
    <2>1. prev'[Solo] = [prev[Solo] EXCEPT !.token = last.token]
        BY <1>0, <1>4
    <2>2. From("loadToken", "loadGen")
        BY <1>4, SoloMoves
    <2> QED BY <1>0, <1>1, <1>2, <2>1, <2>2, ReadingExcept DEF LoadEffect
<1>5. CASE /\ Goto(Solo, "loadGen", "decide")
           /\ prev' = [prev EXCEPT ![Solo].gen = last.gen]
    <2>1. prev'[Solo] = [prev[Solo] EXCEPT !.gen = last.gen]
        BY <1>0, <1>5
    <2>2. From("loadGen", "decide")
        BY <1>5, SoloMoves
    <2> QED BY <1>0, <1>1, <1>2, <2>1, <2>2, ReadingExcept DEF LoadEffect
<1> QED BY <1>3, <1>4, <1>5 DEF Load

LEMMA SoloStores ==
    ASSUME OneCaller, TypeOK, Store(Solo) PROVE StoreEffect /\ Keeps
<1>0. last \in Reading /\ reading[Solo] \in Reading
    BY SoloTyped
<1>1. /\ reading[Solo].raw \in Nat /\ reading[Solo].token \in Nat
      /\ reading[Solo].gen \in Nat
    BY <1>0, ReadingWords
<1>2. /\ Keeps /\ KeepsCall /\ KeepsPrev
      /\ UNCHANGED <<token, initialized, answers>>
    BY DEF Store, Keeps, KeepsCall, KeepsPrev, shared, bounds, history
<1>3. CASE /\ Goto(Solo, "storeRaw", "storeToken")
           /\ last' = [last EXCEPT !.raw = reading[Solo].raw]
    <2>1. From("storeRaw", "storeToken")
        BY <1>3, SoloMoves
    <2> QED BY <1>0, <1>1, <1>2, <1>3, <2>1, ReadingExcept DEF StoreEffect
<1>4. CASE /\ Goto(Solo, "storeToken", "storeGen")
           /\ last' = [last EXCEPT !.token = reading[Solo].token]
    <2>1. From("storeToken", "storeGen")
        BY <1>4, SoloMoves
    <2> QED BY <1>0, <1>1, <1>2, <1>4, <2>1, ReadingExcept DEF StoreEffect
<1>5. CASE /\ Goto(Solo, "storeGen", IF seen[Solo] THEN "label" ELSE "markInit")
           /\ last' = [last EXCEPT !.gen = reading[Solo].gen]
    <2>1. From("storeGen", IF seen[Solo] THEN "label" ELSE "markInit")
        BY <1>5, SoloMoves
    <2> QED BY <1>0, <1>1, <1>2, <1>5, <2>1, ReadingExcept DEF StoreEffect
<1> QED BY <1>3, <1>4, <1>5 DEF Store

LEMMA SoloEffect ==
    ASSUME OneCaller, TypeOK, Read(Solo)
    PROVE  Keeps /\ (LoadEffect \/ StoreEffect \/ OtherEffect)
<1>0. /\ Solo \in Readers /\ last \in Reading /\ reading[Solo] \in Reading
      /\ reading \in [Readers -> Reading] /\ seen \in [Readers -> BOOLEAN]
      /\ earlier \in [Readers -> SUBSET Reading]
    BY SoloIsTheCaller, SoloTyped
<1> USE DEF Keeps, KeepsGuard, KeepsCall, KeepsPrev, OtherEffect
<1>1. CASE BackendRead(Solo)
    BY <1>0, <1>1, SoloMoves DEF BackendRead, shared
<1>2. CASE CheckInitialized(Solo)
    BY <1>0, <1>2, SoloMoves DEF CheckInitialized, shared, bounds, history
<1>3. CASE Load(Solo)
    BY <1>3, SoloLoads
<1>4. CASE Decide(Solo)
    BY <1>4, SoloMoves DEF Decide, shared, bounds, history
<1>5. CASE TokenAdd(Solo)
    BY <1>5, SoloMoves DEF TokenAdd, bounds, history
<1>6. CASE Store(Solo)
    BY <1>6, SoloStores
<1>7. CASE MarkInitialized(Solo)
    BY <1>7, SoloMoves DEF MarkInitialized, bounds, history
<1>8. CASE SwapRaw(Solo)
    <2>1. From("cas", "label")
        BY <1>8, SoloMoves DEF SwapRaw
    <2>2. /\ Keeps /\ KeepsCall /\ KeepsPrev
          /\ UNCHANGED <<token, initialized, answers>>
        BY <1>8 DEF SwapRaw, bounds, history
    <2>3. /\ last'.token = last.token /\ last'.gen = last.gen
          /\ last'.raw = IF last.raw = prev[Solo].raw THEN reading[Solo].raw
                         ELSE last.raw
        <3>1. reading[Solo].raw \in Nat
            BY <1>0, ReadingWords
        <3> QED BY <1>0, <1>8, <3>1, ReadingExcept DEF SwapRaw
    <2> QED BY <2>1, <2>2, <2>3
<1>9. CASE Answer(Solo)
    BY <1>0, <1>9, SoloMoves DEF Answer, shared, bounds
<1> QED BY <1>1, <1>2, <1>3, <1>4, <1>5, <1>6, <1>7, <1>8, <1>9 DEF Read

LEMMA CopiedStep ==
    ASSUME OneCaller, IInv, Copied, Read(Solo) PROVE Copied'
<1> USE DEF Copied, Comparing, Storing, From, IsDiscontinuous
<1>1. /\ reading[Solo].raw \in Nat /\ last.raw \in Nat /\ Solo \in Readers
      /\ initialized \in BOOLEAN /\ seen[Solo] \in BOOLEAN
    BY SoloTyped, SoloIsTheCaller DEF IInv
<1>2. pc[Solo] = "label" => initialized
    BY <1>1 DEF IInv, Started, StartedPhases
<1>3. LoadEffect \/ StoreEffect \/ OtherEffect
    BY SoloEffect DEF IInv
<1>4. CASE LoadEffect
    BY <1>1, <1>4 DEF LoadEffect, KeepsGuard, KeepsCall
<1>5. CASE StoreEffect
    BY <1>1, <1>5 DEF StoreEffect, KeepsCall, KeepsPrev
<1>6. CASE OtherEffect
    BY <1>1, <1>2, <1>6 DEF OtherEffect, KeepsGuard, KeepsCall, KeepsPrev
<1> QED BY <1>3, <1>4, <1>5, <1>6

LEMMA RememberedStep ==
    ASSUME OneCaller, IInv, Copied, Remembered, Read(Solo) PROVE Remembered'
<1> USE DEF Remembered, Storing, From
<1>1. /\ reading[Solo] \in Reading /\ reading[Solo].raw \in Nat
      /\ last.raw \in Nat /\ token \in Nat /\ Solo \in Readers
      /\ \A b \in answers : b \in Reading /\ b.raw \in Nat /\ b.token \in Nat
    BY SoloTyped, SoloIsTheCaller, ReadingWords DEF IInv, TypeOK
<1>2. /\ \A b \in answers : b.token <= token
      /\ pc[Solo] = "check" /\ ~initialized => answers = {}
    BY DEF IInv, Issued, Started
<1>3. LoadEffect \/ StoreEffect \/ OtherEffect
    BY SoloEffect DEF IInv
<1>4. CASE LoadEffect
    BY <1>4 DEF LoadEffect, KeepsGuard, KeepsCall
<1>5. CASE StoreEffect
    BY <1>5 DEF StoreEffect, KeepsCall, KeepsPrev
<1>6. CASE OtherEffect
    <2>1. ASSUME From("add", "storeRaw"), token' = token + 1,
                 UNCHANGED <<initialized, last, answers>>, KeepsCall
          PROVE  Remembered'
        BY <1>1, <1>2, <2>1 DEF KeepsCall
    <2>2. ASSUME From("cas", "label"), KeepsCall,
                 UNCHANGED <<token, initialized, answers>>,
                 last'.token = last.token, last'.gen = last.gen,
                 last'.raw = IF last.raw = prev[Solo].raw THEN reading[Solo].raw
                             ELSE last.raw
          PROVE  Remembered'
        <3>1. last.raw <= reading[Solo].raw
            BY <1>1, <2>2 DEF Copied, IsDiscontinuous
        <3>2. last.raw <= last'.raw /\ last'.raw \in Nat
            BY <1>1, <2>2, <3>1
        <3>3. \A b \in answers : b.raw <= last.raw => b.raw <= last'.raw
            BY <1>1, <3>2
        <3> QED BY <2>2, <3>3 DEF KeepsCall
    <2>3. ASSUME From("label", "idle"), UNCHANGED <<token, initialized, last>>,
                 answers' = answers \union {[reading[Solo] EXCEPT !.token = token]},
                 earlier'[Solo] = {}
          PROVE  Remembered'
        <3> DEFINE new == [reading[Solo] EXCEPT !.token = token]
        <3>1. new.raw = reading[Solo].raw /\ new.gen = reading[Solo].gen
            BY <1>1, ReadingExcept
        <3>2. new.raw <= last.raw /\ new.gen = last.gen
            BY <1>1, <2>3, <3>1 DEF Copied
        <3> HIDE DEF new
        <3>3. answers' = answers \union {new}
            BY <2>3 DEF new
        <3> QED BY <2>3, <3>2, <3>3
    <2>4. ASSUME From("check", IF initialized THEN "loadRaw" ELSE "storeRaw"),
                 KeepsGuard, earlier'[Solo] = earlier[Solo]
          PROVE  Remembered'
        BY <1>2, <2>4 DEF KeepsGuard
    <2>5. ASSUME From("idle", "check"), KeepsGuard, earlier'[Solo] = answers
          PROVE  Remembered'
        BY <2>5 DEF KeepsGuard
    <2>6. ASSUME pc'[Solo] \in {"add", "cas", "label"}, KeepsCall,
                 UNCHANGED <<token, last, answers>>,
                 pc[Solo] = "decide" \/ pc[Solo] = "markInit"
          PROVE  Remembered'
        BY <2>6 DEF KeepsCall
    <2> QED
        BY <1>6, <2>1, <2>2, <2>3, <2>4, <2>5, <2>6
        DEF OtherEffect, KeepsGuard
<1> QED BY <1>3, <1>4, <1>5, <1>6

LEMMA UnalarmedStep ==
    ASSUME OneCaller, IInv, Copied, Unalarmed, Read(Solo) PROVE Unalarmed'
<1> USE DEF Storing, From, Untouched
<1>1. /\ reading[Solo].raw \in Nat /\ last.raw \in Nat /\ dev.raw \in Nat
      /\ token \in Nat /\ initialized \in BOOLEAN /\ seen[Solo] \in BOOLEAN
    BY SoloTyped, SoloIsTheCaller DEF IInv
<1>2. Keeps /\ (LoadEffect \/ StoreEffect \/ OtherEffect)
    BY SoloEffect DEF IInv
<1>3. pc[Solo] \in {"decide", "add", "cas"} =>
        /\ initialized /\ prev[Solo].raw = last.raw
        /\ prev[Solo].token = last.token /\ prev[Solo].gen = last.gen
    BY DEF Copied, Comparing
<1>4. SUFFICES ASSUME rewinds = 0, dev.gen = 1 PROVE Unalarmed'
    BY <1>2 DEF Unalarmed, Keeps
<1>5. /\ token = FirstToken /\ Untouched(dev)
      /\ pc[Solo] # "add" /\ (pc[Solo] \in Storing => ~initialized)
      /\ pc[Solo] # "idle" => Untouched(reading[Solo])
      /\ initialized => Untouched(last)
      /\ initialized /\ pc[Solo] # "idle" => last.raw <= reading[Solo].raw
    BY <1>4 DEF Unalarmed
<1>6. CASE LoadEffect
    BY <1>2, <1>5, <1>6 DEF Keeps, LoadEffect, KeepsGuard, KeepsCall, Unalarmed
<1>7. CASE StoreEffect
    BY <1>2, <1>5, <1>7
    DEF Keeps, StoreEffect, KeepsCall, Unalarmed, Copied
<1>8. CASE OtherEffect
    BY <1>1, <1>2, <1>3, <1>5, <1>8
    DEF Keeps, OtherEffect, KeepsGuard, KeepsCall, Unalarmed, Copied,
        IsDiscontinuous
<1> QED BY <1>2, <1>6, <1>7, <1>8

(* The backend's moves: they touch nothing of the call, and only a rewind  *)
(* or a reset takes it back.                                               *)
LEMMA BackendMoves ==
    ASSUME TypeOK, Advance \/ Rewind \/ SetContinuityToken \/ UNCHANGED vars
    PROVE  /\ UNCHANGED <<token, initialized, last, answers, pc, seen, reading>>
           /\ UNCHANGED <<prev, earlier>>
           /\ dev' \in Reading
           /\ \/ rewinds' = 1 + rewinds
              \/ dev'.gen = 1 + dev.gen /\ rewinds' = rewinds
              \/ /\ dev'.gen = dev.gen /\ dev'.token = dev.token
                 /\ rewinds' = rewinds /\ dev'.raw >= dev.raw
<1> USE DEF shared, locals, history, bounds
<1>0. dev \in Reading /\ dev.raw \in Nat
    BY ReadingWords DEF TypeOK
<1>1. CASE Advance
    <2>1. /\ dev' = [dev EXCEPT !.raw = @ + 1] /\ dev.raw + 1 \in Nat
        BY <1>0, <1>1 DEF Advance, Advanced
    <2>2. /\ dev' \in Reading /\ dev'.gen = dev.gen /\ dev'.token = dev.token
          /\ dev'.raw = dev.raw + 1
        BY <1>0, <2>1, ReadingWords, ReadingExcept
    <2> QED BY <1>0, <1>1, <2>2 DEF Advance
<1>2. CASE Rewind
    <2>1. PICK d \in 1..MaxRaw : dev' = Rewound(dev, d)
        BY <1>2 DEF Rewind
    <2>2. d \in Nat
        BY GuardAssumption DEF GuardAssumption
    <2>3. dev' \in Reading
        BY <1>0, <2>1, <2>2, DeviceMoves
    <2> QED BY <1>2, <2>3 DEF Rewind, TypeOK
<1>3. CASE SetContinuityToken
    <2>1. PICK t \in BackendTokens : dev' = Retokened(dev, t)
        BY <1>3 DEF SetContinuityToken
    <2>2. t \in Nat
        BY GuardAssumption DEF GuardAssumption
    <2>3. dev' \in Reading /\ dev'.gen = dev.gen + 1 /\ dev.gen \in Nat
        BY <1>0, <2>1, <2>2, DeviceMoves, ReadingWords
    <2> QED BY <1>3, <2>3 DEF SetContinuityToken
<1>4. CASE UNCHANGED vars
    BY <1>0, <1>4 DEF vars
<1> QED BY <1>1, <1>2, <1>3, <1>4

LEMMA BackendUnalarmed ==
    ASSUME OneCaller, TypeOK, Unalarmed,
           Advance \/ Rewind \/ SetContinuityToken \/ UNCHANGED vars
    PROVE  Unalarmed'
<1>1. /\ dev.gen \in Nat /\ dev.gen >= 1 /\ rewinds \in Nat
      /\ dev.raw \in Nat /\ dev'.raw \in Nat
      /\ reading[Solo].raw \in Nat /\ last.raw \in Nat
    <2>1. dev.gen \in 1..MaxGen /\ rewinds \in Nat
        BY DEF TypeOK
    <2>2. dev' \in Reading
        BY BackendMoves
    <2>3. dev.raw \in Nat /\ reading[Solo].raw \in Nat /\ last.raw \in Nat
        BY SoloTyped
    <2>4. dev'.raw \in Nat
        BY <2>2, ReadingWords
    <2> QED BY <2>1, <2>3, <2>4, GuardAssumption DEF GuardAssumption
<1>2. SUFFICES ASSUME rewinds' = 0, dev'.gen = 1 PROVE Unalarmed'
    BY DEF Unalarmed
<1>3. /\ rewinds = 0 /\ dev.gen = 1 /\ dev'.token = dev.token
      /\ dev.raw <= dev'.raw
    BY <1>1, <1>2, BackendMoves
<1> QED BY <1>1, <1>3, BackendMoves DEF Unalarmed, Untouched

LEMMA SoloStep ==
    OneCaller /\ IInv /\ SoloInv /\ [Next]_vars => SoloInv'
<1> SUFFICES ASSUME OneCaller, IInv, SoloInv, [Next]_vars PROVE SoloInv'
    OBVIOUS
<1>1. CASE Read(Solo)
    BY <1>1, CopiedStep, RememberedStep, UnalarmedStep DEF SoloInv
<1>2. CASE Advance \/ Rewind \/ SetContinuityToken \/ UNCHANGED vars
    <2>1. /\ UNCHANGED <<token, initialized, last, answers, pc, seen, reading>>
          /\ UNCHANGED <<prev, earlier>>
        BY <1>2, BackendMoves DEF IInv
    <2>2. Copied' /\ Remembered'
        BY <2>1 DEF SoloInv, Copied, Remembered, Comparing, Storing
    <2>3. Unalarmed'
        BY <1>2, BackendUnalarmed DEF IInv, SoloInv
    <2> QED BY <2>2, <2>3 DEF SoloInv
<1> QED BY <1>1, <1>2, SoloIsTheCaller DEF Next

(* With one caller at a time, two reads that return the same token are of  *)
(* one backend generation and in order: ContinuityGuard.Read raises the    *)
(* token whenever the counter, the backend's token or its generation is    *)
(* not the one it should be.                                               *)
THEOREM RegressionsAreSeen ==
    ASSUME OneCaller PROVE Spec => []NoUnseenRegression
<1>1. TypeOK /\ SoloInv => NoUnseenRegression
    <2> SUFFICES ASSUME TypeOK, SoloInv, pc[Solo] = "label",
                        NEW b \in earlier[Solo], b.token = token
                 PROVE  b.raw <= reading[Solo].raw /\ b.gen = reading[Solo].gen
        BY SoloIsTheCaller, Zenon DEF NoUnseenRegression
    <2> QED BY DEF SoloInv, Remembered, Copied
<1>2. IInv => TypeOK
    BY DEF IInv
<1>3. Init => SoloInv
    BY SoloInit
<1>4. IInv /\ SoloInv /\ [Next]_vars => SoloInv'
    BY SoloStep
<1> QED BY <1>1, <1>2, <1>3, <1>4, InitInv, StepInv, PTL DEF Spec

(* With one caller at a time the token is raised only after the backend    *)
(* was rewound or reset.                                                   *)
THEOREM AlarmsAreTrue ==
    ASSUME OneCaller PROVE Spec => []NoFalseAlarm
<1>1. TypeOK /\ SoloInv => NoFalseAlarm
    BY DEF SoloInv, Unalarmed, NoFalseAlarm, TypeOK, FirstToken
<1>2. IInv => TypeOK
    BY DEF IInv
<1>3. Init => SoloInv
    BY SoloInit
<1>4. IInv /\ SoloInv /\ [Next]_vars => SoloInv'
    BY SoloStep
<1> QED BY <1>1, <1>2, <1>3, <1>4, InitInv, StepInv, PTL DEF Spec

-----------------------------------------------------------------------------
(***************************************************************************)
(* With one caller the guard implements AtomicGuard.  The effect of a call *)
(* appears with its backend read; every later operation leaves the guard   *)
(* it amounts to as it is, because the words it works on are the guard's.  *)
(***************************************************************************)
GuardOf(s, t, i, l, r) ==
    IF s = "check" \/ s \in Comparing
    THEN GuardAfter([token |-> t, started |-> i, last |-> l], r)
    ELSE IF s \in Storing THEN [token |-> t, started |-> TRUE, last |-> r]
    ELSE [token |-> t, started |-> i, last |-> l]

LEMMA GuardInWords ==
    /\ AbstractGuard = GuardOf(pc[Solo], token, initialized, last, reading[Solo])
    /\ AbstractGuard' =
        GuardOf(pc'[Solo], token', initialized', last', reading'[Solo])
BY DEF AbstractGuard, GuardOf, Stored, Comparing, Storing

(* When the caller is about to label its reading, that is what the guard   *)
(* remembers.                                                              *)
LEMMA LabelWords ==
    ASSUME OneCaller, IInv', Copied', pc'[Solo] = "label"
    PROVE  last' = reading'[Solo] /\ initialized' = TRUE
<1>1. /\ last' \in Reading /\ reading'[Solo] \in Reading
      /\ initialized' \in BOOLEAN /\ Solo \in Readers
    BY SoloIsTheCaller DEF IInv, TypeOK
<1>2. initialized' = TRUE
    BY <1>1 DEF IInv, Started, StartedPhases
<1>3. /\ last'.raw = reading'[Solo].raw /\ last'.token = reading'[Solo].token
      /\ last'.gen = reading'[Solo].gen
    BY DEF Copied
<1> QED BY <1>1, <1>2, <1>3, WordByWord

(* What an operation behind the backend read does to the guard it amounts  *)
(* to: nothing.                                                            *)
LEMMA CallStutters ==
    ASSUME OneCaller, IInv, Copied, Read(Solo), pc[Solo] # "idle",
           pc'[Solo] = "label" => last' = reading'[Solo] /\ initialized' = TRUE
    PROVE  AbstractGuard' = AbstractGuard
<1> USE DEF From, Comparing, Storing
<1>1. /\ token \in Nat /\ initialized \in BOOLEAN
      /\ last \in Reading /\ reading[Solo] \in Reading
      /\ reading[Solo].raw \in Nat /\ last.raw \in Nat
    BY SoloTyped DEF IInv
<1>2. LoadEffect \/ StoreEffect \/ OtherEffect
    BY SoloEffect DEF IInv
<1>3. CASE LoadEffect
    BY <1>3, GuardInWords DEF LoadEffect, KeepsGuard, KeepsCall, GuardOf
<1>4. CASE StoreEffect
    BY <1>4, GuardInWords DEF StoreEffect, KeepsCall, GuardOf, Copied
<1>5. CASE OtherEffect
    <2>1. CASE pc[Solo] = "check"
        BY <1>5, <2>1, GuardInWords
        DEF OtherEffect, KeepsGuard, GuardOf, GuardAfter
    <2>2. CASE pc[Solo] = "decide"
        <3>1. IsDiscontinuous(reading[Solo], prev[Solo])
                <=> IsDiscontinuous(reading[Solo], last)
            BY <2>2 DEF Copied, IsDiscontinuous
        <3>2. CASE pc'[Solo] \in {"add", "cas"}
            BY <1>5, <2>2, <3>2, GuardInWords
            DEF OtherEffect, KeepsGuard, KeepsCall, GuardOf
        <3>3. CASE pc'[Solo] = "label" /\ ~IsDiscontinuous(reading[Solo], last)
            BY <1>5, <2>2, <3>3, GuardInWords
            DEF OtherEffect, KeepsGuard, KeepsCall, GuardOf, GuardAfter
        <3> QED BY <1>5, <2>2, <3>1, <3>2, <3>3 DEF OtherEffect
    <2>3. CASE pc[Solo] = "add"
        BY <1>5, <2>3, GuardInWords
        DEF OtherEffect, KeepsCall, GuardOf, GuardAfter, Copied
    <2>4. CASE pc[Solo] = "markInit"
        BY <1>5, <2>4, GuardInWords DEF OtherEffect, KeepsCall, GuardOf
    <2>5. CASE pc[Solo] = "cas"
        BY <1>5, <2>5, GuardInWords
        DEF OtherEffect, KeepsCall, GuardOf, GuardAfter, Copied
    <2>6. CASE pc[Solo] = "label"
        BY <1>5, <2>6, GuardInWords DEF OtherEffect, GuardOf
    <2> QED BY <1>5, <2>1, <2>2, <2>3, <2>4, <2>5, <2>6 DEF OtherEffect
<1> QED BY <1>2, <1>3, <1>4, <1>5

(* Behind its backend read, the call's answer is counted already.          *)
LEMMA AnswersStutter ==
    ASSUME OneCaller, IInv, Read(Solo), pc[Solo] # "idle",
           AbstractGuard' = AbstractGuard
    PROVE  AbstractAnswers' = AbstractAnswers
<1> USE DEF From
<1>1. LoadEffect \/ StoreEffect \/ OtherEffect
    BY SoloEffect DEF IInv
<1>2. CASE pc[Solo] # "label"
    <2>1. /\ pc'[Solo] # "idle" /\ answers' = answers
          /\ reading'[Solo] = reading[Solo]
        BY <1>1, <1>2
        DEF LoadEffect, StoreEffect, OtherEffect, KeepsGuard, KeepsCall
    <2> QED BY <2>1 DEF AbstractAnswers
<1>3. CASE pc[Solo] = "label"
    <2>1. /\ pc'[Solo] = "idle"
          /\ answers' = answers \union {[reading[Solo] EXCEPT !.token = token]}
        BY <1>1, <1>3 DEF LoadEffect, StoreEffect, OtherEffect
    <2>2. AbstractGuard.token = token
        BY <1>3, GuardInWords DEF GuardOf, Comparing, Storing
    <2> QED BY <1>3, <2>1, <2>2 DEF AbstractAnswers
<1> QED BY <1>2, <1>3

(* A call takes effect at its backend read.                                *)
LEMMA CallBegins ==
    ASSUME OneCaller, IInv, Read(Solo), pc[Solo] = "idle"
    PROVE  Atomic!Read
<1>1. /\ pc'[Solo] = "check" /\ KeepsGuard /\ dev' = dev
      /\ reading'[Solo] = dev
    BY SoloEffect DEF IInv, LoadEffect, StoreEffect, OtherEffect, Keeps, From
<1>2. dev \in Reading
    BY SoloTyped DEF IInv
<1>3. AbstractGuard = [token |-> token, started |-> initialized, last |-> last]
    BY GuardInWords DEF GuardOf, Comparing, Storing
<1>4. AbstractGuard' = GuardAfter(AbstractGuard, dev)
    BY <1>1, <1>3, GuardInWords DEF GuardOf, KeepsGuard
<1>5. [dev EXCEPT !.token = AbstractGuard'.token] = GuardAnswer(AbstractGuard, dev)
    BY <1>2, <1>4 DEF GuardAnswer, Reading
<1>6. AbstractAnswers' =
        AbstractAnswers \union {GuardAnswer(AbstractGuard, dev)}
    BY <1>1, <1>5 DEF AbstractAnswers, KeepsGuard
<1> QED BY <1>1, <1>4, <1>6
        DEF Atomic!Read, GuardAfter, GuardAnswer, IsDiscontinuous,
            Atomic!GuardAfter, Atomic!GuardAnswer, Atomic!IsDiscontinuous

LEMMA AtomicInit == OneCaller /\ Init => Atomic!Init
<1> SUFFICES ASSUME OneCaller, Init PROVE Atomic!Init
    OBVIOUS
<1>1. pc[Solo] = "idle"
    BY SoloIsTheCaller DEF Init
<1>2. AbstractGuard = NewGuard
    BY <1>1, GuardInWords
    DEF Init, GuardOf, Comparing, Storing, NewGuard, FirstToken
<1>3. AbstractAnswers = {}
    BY <1>1 DEF AbstractAnswers, Init
<1>4. dev \in Reading
    BY TypeInit DEF TypeOK
<1> QED BY <1>2, <1>3, <1>4
        DEF Atomic!Init, NewGuard, Reading, NoReading,
            Atomic!NewGuard, Atomic!Reading, Atomic!NoReading

LEMMA AtomicStep ==
    OneCaller /\ IInv /\ IInv' /\ Copied /\ Copied' /\ [Next]_vars
        => [Atomic!Next]_<<dev, AbstractGuard, AbstractAnswers>>
<1> SUFFICES ASSUME OneCaller, IInv, IInv', Copied, Copied', [Next]_vars
             PROVE  [Atomic!Next]_<<dev, AbstractGuard, AbstractAnswers>>
    OBVIOUS
<1>1. CASE Read(Solo) /\ pc[Solo] = "idle"
    BY <1>1, CallBegins DEF Atomic!Next
<1>2. CASE Read(Solo) /\ pc[Solo] # "idle"
    <2>1. pc'[Solo] = "label" => last' = reading'[Solo] /\ initialized' = TRUE
        BY LabelWords
    <2>2. AbstractGuard' = AbstractGuard
        BY <1>2, <2>1, CallStutters
    <2>3. AbstractAnswers' = AbstractAnswers
        BY <1>2, <2>2, AnswersStutter
    <2>4. dev' = dev
        BY <1>2, SoloEffect DEF Keeps, IInv
    <2> QED BY <2>2, <2>3, <2>4
<1>3. CASE Advance \/ Rewind \/ SetContinuityToken \/ UNCHANGED vars
    <2>1. /\ UNCHANGED <<token, initialized, last, answers, pc, seen, reading>>
          /\ dev' \in Reading
        BY <1>3, BackendMoves DEF IInv
    <2>2. AbstractGuard' = AbstractGuard
        BY <2>1, GuardInWords
    <2>3. AbstractAnswers' = AbstractAnswers
        BY <2>1, <2>2 DEF AbstractAnswers
    <2> QED BY <2>1, <2>2, <2>3
            DEF Atomic!Next, Atomic!Device, Reading, Atomic!Reading
<1> QED BY <1>1, <1>2, <1>3, SoloIsTheCaller DEF Next

(* With one caller at a time ContinuityGuard.Read behaves as one atomic    *)
(* step, whatever the backend does between its operations.                 *)
THEOREM ReadTakesEffectAtOnce ==
    ASSUME OneCaller PROVE Spec => ReadIsAtomic
<1>1. Init => Atomic!Init
    BY AtomicInit
<1>2. IInv /\ IInv' /\ SoloInv /\ SoloInv' /\ [Next]_vars
        => [Atomic!Next]_<<dev, AbstractGuard, AbstractAnswers>>
    BY AtomicStep DEF SoloInv
<1>3. Init => SoloInv
    BY SoloInit
<1>4. IInv /\ SoloInv /\ [Next]_vars => SoloInv'
    BY SoloStep
<1> QED BY <1>1, <1>2, <1>3, <1>4, InitInv, StepInv, PTL
        DEF Spec, ReadIsAtomic, Atomic!Spec
=============================================================================
