-------------------------- MODULE SourceQueryProofs --------------------------
(***************************************************************************)
(* Theorems about SourceQuery: the sessions its queries share, for any     *)
(* number of queries and endpoints, any failures and whatever the servers  *)
(* of a key exchange send.                                                 *)
(***************************************************************************)
EXTENDS SourceQuery, FiniteSetTheorems, SequenceTheorems, TLAPS

Steps == {"idle", "enter", "ke", "acquire", "send", "sent", "served", "replied",
          "spend", "refill", "measure"}

(* A jar of cookies numbered up to n.                                      *)
Jars(n) == UNION {[S -> {"unused", "inflight", "spent"}] : S \in SUBSET (1..n)}

Unused(js, s) == InState(js[s], "unused")

(* What a query has at each of its steps.                                  *)
Has(q) ==
    /\ at[q] \in Steps
    /\ where[q] \in Endpoints \union {None}
    /\ sess[q] \in 0..Len(jars)
    /\ cookie[q] \in (1..issued) \union {NoCookie}
    /\ DOMAIN exchange[q] = DOMAIN NoExchange /\ exchange[q].cookies \in Nat
    /\ at[q] \in {"enter", "ke"} => where[q] \in Endpoints
    /\ at[q] = "acquire" => sess[q] > 0
    /\ at[q] \in {"idle", "enter", "ke", "acquire"} => cookie[q] = NoCookie
    /\ cookie[q] # NoCookie => sess[q] > 0
    /\ at[q] \in {"spend", "refill"} => cookie[q] # NoCookie

Shared ==
    /\ issued \in Nat
    /\ jars \in Seq(Jars(issued))
    /\ ntsState \in [Endpoints -> 0..Len(jars)]

Locals ==
    /\ at = [q \in Queries |-> at[q]] /\ where = [q \in Queries |-> where[q]]
    /\ sess = [q \in Queries |-> sess[q]] /\ cookie = [q \in Queries |-> cookie[q]]
    /\ exchange = [q \in Queries |-> exchange[q]]

Types == Shared /\ Locals /\ \A q \in Queries : Has(q)

(* The locals of the other queries stay as they are.                       *)
Alone(q) ==
    \A p \in Queries \ {q} :
        /\ at'[p] = at[p] /\ where'[p] = where[p] /\ sess'[p] = sess[p]
        /\ cookie'[p] = cookie[p] /\ exchange'[p] = exchange[p]

-----------------------------------------------------------------------------
(* What some steps leave alone.                                            *)

LEMMA FailKEKeeps ==
  ASSUME NEW q, FailKE(q)
  PROVE  UNCHANGED world /\ UNCHANGED <<jars, issued, ntsState, sent, starved>>
BY DEF FailKE

LEMMA AcquireKeeps ==
  ASSUME NEW q, Acquire(q)
  PROVE  UNCHANGED world /\ UNCHANGED <<response, message, accepted>>
BY DEF Acquire

LEMMA SendKeeps ==
  ASSUME NEW q, Send(q)
  PROVE  UNCHANGED world /\ UNCHANGED <<response, message, accepted>>
BY DEF Send, sessions

LEMMA ServerKeeps ==
  ASSUME NEW q, ServerReceive(q) \/ ServerReply(q)
  PROVE  /\ UNCHANGED world /\ UNCHANGED <<response, message, accepted>>
         /\ UNCHANGED <<jars, issued, ntsState, sent, starved>>
<1>1. UNCHANGED <<world, sessions, history>>
  BY Zenon DEF ServerReceive, ServerReply
<1> QED BY <1>1 DEF sessions, history

LEMMA MeasureKeeps ==
  ASSUME NEW q, Measure(q)
  PROVE  UNCHANGED world
BY DEF Measure

-----------------------------------------------------------------------------
(* Jars.                                                                   *)

LEMMA JarType ==
  ASSUME NEW n \in Nat, NEW jar \in Jars(n)
  PROVE  /\ DOMAIN jar \subseteq 1..n /\ IsFiniteSet(DOMAIN jar)
         /\ jar \in [DOMAIN jar -> {"unused", "inflight", "spent"}]
         /\ \A s : IsFiniteSet(InState(jar, s)) /\ InState(jar, s) \subseteq 1..n
<1>1. PICK S \in SUBSET (1..n) : jar \in [S -> {"unused", "inflight", "spent"}]
  BY DEF Jars
<1>2. DOMAIN jar = S
  BY <1>1
<1>3. IsFiniteSet(1..n)
  BY FS_Interval
<1>4. IsFiniteSet(DOMAIN jar)
  BY <1>2, <1>3, FS_Subset
<1>5. ASSUME NEW s PROVE IsFiniteSet(InState(jar, s)) /\ InState(jar, s) \subseteq 1..n
  <2>1. InState(jar, s) \subseteq DOMAIN jar
    BY DEF InState
  <2> QED BY <1>2, <1>4, <2>1, FS_Subset
<1> QED BY <1>1, <1>2, <1>4, <1>5

LEMMA JarGrows ==
  ASSUME NEW m \in Nat, NEW n \in Nat, m <= n
  PROVE  Jars(m) \subseteq Jars(n)
<1>1. 1..m \subseteq 1..n
  OBVIOUS
<1> QED BY <1>1, Zenon DEF Jars

(* A cookie that is marked was not unused, or is no longer.                *)
LEMMA MarkedType ==
  ASSUME NEW n \in Nat, NEW jar \in Jars(n), NEW id
  PROVE  /\ InFlight(jar, id) \in Jars(n) /\ MarkSpent(jar, id) \in Jars(n)
         /\ DOMAIN InFlight(jar, id) = DOMAIN jar /\ DOMAIN MarkSpent(jar, id) = DOMAIN jar
         /\ InState(InFlight(jar, id), "unused") = InState(jar, "unused") \ {id}
         /\ InState(MarkSpent(jar, id), "unused") = InState(jar, "unused")
<1>1. /\ DOMAIN jar \subseteq 1..n
      /\ jar \in [DOMAIN jar -> {"unused", "inflight", "spent"}]
  BY JarType
<1>2. ASSUME NEW from, NEW to \in {"inflight", "spent"}
      PROVE  /\ Marked(jar, id, from, to) \in Jars(n)
             /\ DOMAIN Marked(jar, id, from, to) = DOMAIN jar
  <2>1. Marked(jar, id, from, to) \in [DOMAIN jar -> {"unused", "inflight", "spent"}]
    BY <1>1 DEF Marked
  <2> QED BY <1>1, <2>1 DEF Jars
<1>3. InState(InFlight(jar, id), "unused") = InState(jar, "unused") \ {id}
  BY DEF InState, InFlight, Marked
<1>4. InState(MarkSpent(jar, id), "unused") = InState(jar, "unused")
  BY DEF InState, MarkSpent, Marked
<1> QED BY <1>2, <1>3, <1>4 DEF InFlight, MarkSpent

(* AddCookies: no cookie that was there changes, and none is unused that   *)
(* is neither new nor was before.                                          *)
LEMMA AddedType ==
  ASSUME NEW n \in Nat, NEW jar \in Jars(n), NEW k \in Nat
  PROVE  LET new == Added(jar, n, k)
         IN  /\ new \in Jars(n + k)
             /\ DOMAIN new \subseteq DOMAIN jar \union (n + 1)..(n + k)
             /\ InState(jar, "unused") \subseteq InState(new, "unused")
             /\ InState(new, "unused") \subseteq InState(jar, "unused") \union (n + 1)..(n + k)
             /\ jar = <<>> /\ k > 0 => n + 1 \in InState(new, "unused")
<1> DEFINE live == Restrict(jar, {c \in DOMAIN jar : jar[c] # "spent"})
           kept == IF Cardinality(DOMAIN jar) + k > Capacity THEN live ELSE jar
           room == Capacity - Cardinality(DOMAIN kept)
           fits == (n + 1)..(n + IF k < room THEN k ELSE room)
           new == Added(jar, n, k)
<1>1. new = [c \in DOMAIN kept \union fits |-> IF c \in fits THEN "unused" ELSE kept[c]]
  BY DEF Added
<1>2. /\ DOMAIN jar \subseteq 1..n /\ IsFiniteSet(DOMAIN jar)
      /\ jar \in [DOMAIN jar -> {"unused", "inflight", "spent"}]
  BY JarType
<1>3. /\ DOMAIN kept \subseteq DOMAIN jar
      /\ \A c \in DOMAIN kept : kept[c] = jar[c]
      /\ \A c \in DOMAIN jar : jar[c] = "unused" => c \in DOMAIN kept
  BY DEF Restrict
<1>4. jar = <<>> => DOMAIN kept = {}
  <2>1. ASSUME jar = <<>> PROVE DOMAIN jar = {}
    BY <2>1
  <2> QED BY <1>3, <2>1
<1>5. room \in Int
  <2>1. IsFiniteSet(DOMAIN kept)
    BY <1>2, <1>3, FS_Subset
  <2>2. Cardinality(DOMAIN kept) \in Nat
    BY <2>1, FS_CardinalityType
  <2> QED BY <2>2, JarAssumption
<1>6. fits \subseteq (n + 1)..(n + k)
  <2> HIDE DEF room
  <2> QED BY <1>5
<1>7. jar = <<>> /\ k > 0 => n + 1 \in fits
  <2> SUFFICES ASSUME jar = <<>>, k > 0 PROVE n + 1 \in fits
    OBVIOUS
  <2>1. Cardinality(DOMAIN kept) = 0
    BY <1>4, FS_EmptySet
  <2>2. room = Capacity /\ Capacity \in Nat /\ Capacity > 0
    BY <2>1, JarAssumption
  <2> HIDE DEF room
  <2> QED BY <2>2
<1> HIDE DEF kept, fits, new
<1>8. DOMAIN new = DOMAIN kept \union fits
  BY <1>1
<1>9. DOMAIN new \subseteq 1..(n + k)
  <2>1. \A c \in (n + 1)..(n + k) : c \in 1..(n + k)
    OBVIOUS
  <2>2. \A c \in 1..n : c \in 1..(n + k)
    OBVIOUS
  <2> QED BY <1>2, <1>3, <1>6, <1>8, <2>1, <2>2
<1>10. new \in [DOMAIN new -> {"unused", "inflight", "spent"}]
  BY <1>1, <1>2, <1>3
<1>11. new \in Jars(n + k)
  BY <1>9, <1>10 DEF Jars
<1>12. InState(jar, "unused") \subseteq InState(new, "unused")
  <2> SUFFICES ASSUME NEW c \in DOMAIN jar, jar[c] = "unused"
               PROVE  c \in DOMAIN new /\ new[c] = "unused"
    BY DEF InState
  <2> QED BY <1>1, <1>3
<1>13. InState(new, "unused") \subseteq InState(jar, "unused") \union fits
  <2> SUFFICES ASSUME NEW c \in DOMAIN new, new[c] = "unused", c \notin fits
               PROVE  c \in DOMAIN jar /\ jar[c] = "unused"
    BY DEF InState
  <2> QED BY <1>1, <1>3, <1>8
<1>14. \A c \in fits : c \in InState(new, "unused")
  BY <1>1 DEF InState
<1> QED BY <1>3, <1>6, <1>7, <1>8, <1>11, <1>12, <1>13, <1>14 DEF new

-----------------------------------------------------------------------------
(* The key exchange: what has been read of a message, and what that says   *)
(* of the message.                                                         *)

LEMMA TimesInEmpty ==
  ASSUME NEW t
  PROVE  Times(<<>>, t) = 0
<1>1. {i \in DOMAIN <<>> : <<>>[i].type = t} = {}
  OBVIOUS
<1> QED BY <1>1, FS_EmptySet DEF Times

LEMMA TimesInLonger ==
  ASSUME NEW m \in Seq(Record), NEW rec \in Record, NEW t
  PROVE  /\ Times(m, t) \in Nat
         /\ Times(Append(m, rec), t) = Times(m, t) + IF rec.type = t THEN 1 ELSE 0
<1> DEFINE S == {i \in DOMAIN m : m[i].type = t}
           T == {i \in DOMAIN Append(m, rec) : Append(m, rec)[i].type = t}
           n == Len(m) + 1
<1>1. DOMAIN m = 1..Len(m) /\ Len(m) \in Nat
  BY LenProperties
<1>2. IsFiniteSet(S)
  <2>1. S \subseteq DOMAIN m
    OBVIOUS
  <2>2. IsFiniteSet(1..Len(m))
    BY <1>1, FS_Interval
  <2> QED BY <1>1, <2>1, <2>2, FS_Subset
<1>3. n \notin S
  BY <1>1
<1>4. T = IF rec.type = t THEN S \union {n} ELSE S
  <2>1. /\ DOMAIN Append(m, rec) = 1..n /\ Append(m, rec)[n] = rec
        /\ \A i \in 1..Len(m) : Append(m, rec)[i] = m[i]
    BY <1>1
  <2>2. 1..n = 1..Len(m) \union {n}
    BY <1>1
  <2> QED BY <1>1, <1>3, <2>1, <2>2
<1>5. Cardinality(S) \in Nat
  BY <1>2, FS_CardinalityType
<1>6. CASE rec.type = t
  <2>1. Cardinality(T) = Cardinality(S) + 1
    BY <1>2, <1>3, <1>4, <1>6, FS_AddElement
  <2> QED BY <1>5, <1>6, <2>1 DEF Times
<1>7. CASE rec.type # t
  <2>1. Times(Append(m, rec), t) = Cardinality(T) /\ Times(m, t) = Cardinality(S)
    BY DEF Times
  <2>2. T = S
    BY <1>4, <1>7
  <2> HIDE DEF S, T
  <2> QED BY <1>5, <1>7, <2>1, <2>2
<1> QED BY <1>6, <1>7

(* As long as the reader reads on, it has seen nothing it would refuse.    *)
Acceptable(r, m) ==
    /\ r.records <= MaxRecords
    /\ \A i \in DOMAIN m : m[i].good
    /\ Times(m, "eom") = 0 /\ Times(m, "error") = 0 /\ Times(m, "warning") = 0
    /\ Times(m, "cookie") = r.cookies
    /\ \A t \in Once : Times(m, t) = IF t \in r.seen THEN 1 ELSE 0

Follows(r, m) ==
    /\ m \in Seq(Record)
    /\ r \in [seen : SUBSET Once, cookies : Nat, records : Nat,
              at : {"reading", "complete", "failed"}]
    /\ r.records = Len(m)
    /\ r.at = "reading" => Acceptable(r, m)
    /\ r.at = "complete" => Complete(m) /\ r.cookies > 0

Exchanging ==
    /\ Follows(response, message)
    /\ accepted # <<>> => Complete(accepted)

LEMMA NewFollows == Follows(NewResponse, <<>>)
<1>1. <<>> \in Seq(Record) /\ Len(<<>>) = 0 /\ DOMAIN <<>> = {}
  OBVIOUS
<1>2. \A t : Times(<<>>, t) = 0
  BY TimesInEmpty
<1>3. Acceptable(NewResponse, <<>>)
  BY <1>1, <1>2, ExchangeAssumption DEF Acceptable, NewResponse
<1> QED BY <1>1, <1>3 DEF Follows, NewResponse

(* One round of the reader's loop.                                         *)
LEMMA ReadFollows ==
  ASSUME NEW r, NEW m, Follows(r, m), r.at = "reading", NEW rec \in Record
  PROVE  Follows(ReadRecord(r, rec), Append(m, rec))
<1> DEFINE n == ReadRecord(r, rec)
           l == Append(m, rec)
<1>1. /\ m \in Seq(Record) /\ r.records = Len(m) /\ Acceptable(r, m)
      /\ r \in [seen : SUBSET Once, cookies : Nat, records : Nat,
                at : {"reading", "complete", "failed"}]
  BY DEF Follows
<1>2. rec.type \in RecordTypes /\ rec.good \in BOOLEAN
  BY DEF Record
<1>3. l \in Seq(Record) /\ Len(l) = Len(m) + 1
  BY <1>1
<1>4. /\ n \in [seen : SUBSET Once, cookies : Nat, records : Nat,
                at : {"reading", "complete", "failed"}]
      /\ n.records = r.records + 1
  <2> DEFINE k == [r EXCEPT !.records = @ + 1]
  <2>1. /\ k \in [seen : SUBSET Once, cookies : Nat, records : Nat,
                  at : {"reading", "complete", "failed"}]
        /\ k.records = r.records + 1 /\ k.seen = r.seen
    BY <1>1
  <2> HIDE DEF k
  <2>2. CASE Refused(r, rec)
    <3>1. n = [k EXCEPT !.at = "failed"]
      BY <2>2 DEF ReadRecord, k
    <3> QED BY <2>1, <3>1
  <2>3. CASE ~Refused(r, rec)
    <3>1. n = CASE rec.type = "eom" ->
                    [k EXCEPT !.at = IF {"protocol", "aead"} \subseteq r.seen /\ r.cookies > 0
                                     THEN "complete" ELSE "failed"]
                [] rec.type = "cookie" -> [k EXCEPT !.cookies = @ + 1]
                [] rec.type \in Once -> [k EXCEPT !.seen = @ \union {rec.type}]
                [] OTHER -> k
      BY <2>3 DEF ReadRecord, k
    <3>2. CASE rec.type = "eom"
      <4>1. n = [k EXCEPT !.at = IF {"protocol", "aead"} \subseteq r.seen /\ r.cookies > 0
                                 THEN "complete" ELSE "failed"]
        BY <3>1, <3>2 DEF Once
      <4> QED BY <2>1, <4>1
    <3>3. CASE rec.type = "cookie"
      <4>1. n = [k EXCEPT !.cookies = @ + 1]
        BY <3>1, <3>3 DEF Once
      <4> QED BY <2>1, <4>1
    <3>4. CASE rec.type \in Once
      <4>1. n = [k EXCEPT !.seen = @ \union {rec.type}]
        BY <3>1, <3>4 DEF Once
      <4> QED BY <2>1, <3>4, <4>1
    <3>5. CASE rec.type \notin Once \union {"eom", "cookie"}
      BY <2>1, <3>1, <3>5
    <3> QED BY <3>2, <3>3, <3>4, <3>5
  <2> QED BY <2>2, <2>3
<1>5. n.records = Len(l)
  BY <1>1, <1>3, <1>4
<1>6. CASE Refused(r, rec)
  <2>1. n.at = "failed"
    BY <1>1, <1>6 DEF ReadRecord
  <2> HIDE DEF n, l
  <2>2. Follows(n, l)
    BY <1>3, <1>4, <1>5, <2>1 DEF Follows
  <2> QED BY <2>2 DEF n, l
<1>7. CASE ~Refused(r, rec)
  <2>1. n.records <= MaxRecords
    BY <1>1, <1>4, <1>7, ExchangeAssumption DEF Refused
  <2>2. \A i \in DOMAIN l : l[i].good
    BY <1>1, <1>7 DEF Acceptable, Refused
  <2>3. \A t : /\ Times(m, t) \in Nat
               /\ Times(l, t) = Times(m, t) + IF rec.type = t THEN 1 ELSE 0
    BY <1>1, TimesInLonger
  <2>4. DOMAIN l = 1..Len(l)
    BY <1>3
  <2> HIDE DEF l
  <2>5. CASE rec.type = "eom"
    <3>1. n.cookies = r.cookies /\ n.seen = r.seen /\ n.at # "reading"
      BY <1>1, <1>7, <2>5 DEF ReadRecord, Once
    <3>2. ASSUME n.at = "complete" PROVE Complete(l) /\ n.cookies > 0
      <4>1. "protocol" \in r.seen /\ "aead" \in r.seen /\ r.cookies > 0
        BY <1>1, <1>7, <2>5, <3>2 DEF ReadRecord
      <4>2. \A t : t # "eom" => Times(l, t) = Times(m, t)
        BY <2>3, <2>5
      <4>3. Times(l, "eom") = 1
        BY <1>1, <2>3, <2>5 DEF Acceptable
      <4>4. l[Len(l)].type = "eom"
        BY <1>1, <1>3, <2>5 DEF l
      <4>5. \A t \in Once : Times(l, t) <= 1
        BY <1>1, <4>2 DEF Acceptable, Once
      <4>6. Times(l, "protocol") = 1 /\ Times(l, "aead") = 1
        BY <1>1, <4>1, <4>2 DEF Acceptable, Once
      <4>7. Times(l, "cookie") > 0 /\ Times(l, "error") = 0 /\ Times(l, "warning") = 0
        BY <1>1, <4>1, <4>2 DEF Acceptable
      <4>8. Len(l) \in 1..MaxRecords
        BY <1>1, <1>3, <1>5, <2>1, ExchangeAssumption
      <4> QED BY <2>2, <3>1, <4>1, <4>3, <4>4, <4>5, <4>6, <4>7, <4>8 DEF Complete
    <3> HIDE DEF n
    <3>9. Follows(n, l)
      BY <1>3, <1>4, <1>5, <3>1, <3>2 DEF Follows
    <3> QED BY <3>9 DEF n, l
  <2>6. CASE rec.type = "cookie"
    <3>1. n.cookies = r.cookies + 1 /\ n.seen = r.seen /\ n.at = "reading"
      BY <1>1, <1>7, <2>6 DEF ReadRecord, Once
    <3>2. \A t : Times(l, t) = Times(m, t) + IF t = "cookie" THEN 1 ELSE 0
      BY <2>3, <2>6
    <3>3. \A t : t # "cookie" => Times(l, t) = Times(m, t)
      BY <2>3, <3>2
    <3>4. Times(l, "cookie") = n.cookies
      BY <1>1, <3>1, <3>2 DEF Acceptable
    <3>5. Acceptable(n, l)
      BY <1>1, <2>1, <2>2, <3>1, <3>3, <3>4 DEF Acceptable, Once
    <3> HIDE DEF n
    <3>9. Follows(n, l)
      BY <1>3, <1>4, <1>5, <3>1, <3>5 DEF Follows
    <3> QED BY <3>9 DEF n, l
  <2>7. CASE rec.type \in Once
    <3>1. rec.type \notin r.seen
      BY <1>7 DEF Refused
    <3>2. n.cookies = r.cookies /\ n.seen = r.seen \union {rec.type} /\ n.at = "reading"
      BY <1>1, <1>7, <2>7 DEF ReadRecord, Once
    <3>3. \A t : t # rec.type => Times(l, t) = Times(m, t)
      BY <2>3
    <3>4. Times(l, rec.type) = 1
      BY <1>1, <2>3, <2>7, <3>1 DEF Acceptable
    <3>5. \A t \in Once : Times(l, t) = IF t \in n.seen THEN 1 ELSE 0
      BY <1>1, <3>2, <3>3, <3>4 DEF Acceptable
    <3>6. Acceptable(n, l)
      BY <1>1, <2>1, <2>2, <2>7, <3>2, <3>3, <3>5 DEF Acceptable, Once
    <3> HIDE DEF n
    <3>7. Follows(n, l)
      BY <1>3, <1>4, <1>5, <3>2, <3>6 DEF Follows
    <3> QED BY <3>7 DEF n, l
  <2>8. CASE rec.type = "unknown"
    <3>1. n.cookies = r.cookies /\ n.seen = r.seen /\ n.at = "reading"
      BY <1>1, <1>7, <2>8 DEF ReadRecord, Once
    <3>2. \A t : t # "unknown" => Times(l, t) = Times(m, t)
      BY <2>3, <2>8
    <3>3. Acceptable(n, l)
      BY <1>1, <2>1, <2>2, <3>1, <3>2 DEF Acceptable, Once
    <3> HIDE DEF n
    <3>9. Follows(n, l)
      BY <1>3, <1>4, <1>5, <3>1, <3>3 DEF Follows
    <3> QED BY <3>9 DEF n, l
  <2>9. rec.type \notin {"error", "warning"}
    BY <1>7 DEF Refused
  <2> QED BY <1>2, <2>5, <2>6, <2>7, <2>8, <2>9 DEF RecordTypes, Once
<1> QED BY <1>6, <1>7

(* The exchange is the lock holder's alone, and every one starts anew.     *)
LEMMA ExchangingIsKept == Spec => []Exchanging
<1>1. Init => Exchanging
  BY NewFollows DEF Init, Exchanging
<1>2. Exchanging /\ [Next]_vars => Exchanging'
  <2> SUFFICES ASSUME Exchanging, [Next]_vars PROVE Exchanging'
    OBVIOUS
  <2>1. CASE UNCHANGED <<response, message, accepted>>
    BY <2>1 DEF Exchanging
  <2>2. CASE response' = NewResponse /\ message' = <<>> /\ UNCHANGED accepted
    BY <2>2, NewFollows DEF Exchanging
  <2>3. ASSUME NEW q \in Queries, Read(q) PROVE Exchanging'
    <3>1. PICK rec \in Record :
             /\ response' = ReadRecord(response, rec)
             /\ message' = Append(message, rec)
      BY <2>3 DEF Read
    <3>2. response.at = "reading" /\ accepted' = accepted
      BY <2>3 DEF Read
    <3> QED BY <3>1, <3>2, ReadFollows DEF Exchanging
  <2>4. ASSUME NEW q \in Queries, Establish(q) PROVE Exchanging'
    <3>1. Complete(message)
      BY <2>4 DEF Establish, Exchanging, Follows
    <3>2. response' = NewResponse /\ message' = <<>> /\ accepted' = message
      BY <2>4 DEF Establish
    <3> QED BY <3>1, <3>2, NewFollows DEF Exchanging
  <2>5. ASSUME NEW q \in Queries, Enter(q) PROVE Exchanging'
    <3>1. accepted' = accepted
      BY <2>5 DEF Enter
    <3>2. \/ UNCHANGED <<response, message>>
          \/ response' = NewResponse /\ message' = <<>>
      BY <2>5 DEF Enter
    <3> QED BY <2>1, <2>2, <3>1, <3>2
  <2>6. ASSUME NEW q \in Queries, FailKE(q) PROVE Exchanging'
    BY <2>2, <2>6 DEF FailKE
  <2>7. CASE Tick \/ UNCHANGED vars
    BY <2>1, <2>7 DEF Tick, vars, sessions, history
  <2>8. ASSUME NEW q \in Queries, QueryNTP(q) \/ QueryNTS(q) \/ Acquire(q) \/ Send(q)
        PROVE  Exchanging'
    <3>1. CASE QueryNTP(q) \/ QueryNTS(q)
      BY <2>1, <3>1 DEF QueryNTP, QueryNTS, sessions, history
    <3>2. CASE Acquire(q) \/ Send(q)
      <4>1. UNCHANGED <<response, message, accepted>>
        <5>1. CASE Acquire(q)
          BY <5>1, AcquireKeeps, Zenon
        <5>2. CASE Send(q)
          BY <5>2, SendKeeps, Zenon
        <5> QED BY <3>2, <5>1, <5>2
      <4> QED BY <2>1, <4>1
    <3> QED BY <2>8, <3>1, <3>2
  <2>9. ASSUME NEW q \in Queries, ServerReceive(q) \/ ServerReply(q) \/ Receive(q)
                                  \/ SpendCookie(q) \/ Refill(q)
        PROVE  Exchanging'
    <3>1. CASE ServerReceive(q) \/ ServerReply(q)
      BY <2>1, <3>1, ServerKeeps, Zenon
    <3>2. CASE Receive(q) \/ SpendCookie(q) \/ Refill(q)
      BY <2>1, <3>2 DEF Receive, SpendCookie, Refill, sessions, history
    <3> QED BY <2>9, <3>1, <3>2
  <2>10. ASSUME NEW q \in Queries, Measure(q) \/ Fail(q) \/ Refuse(q)
         PROVE  Exchanging'
    BY <2>1, <2>10 DEF Measure, Fail, Refuse, sessions, history
  <2> QED BY <2>3, <2>4, <2>5, <2>6, <2>7, <2>8, <2>9, <2>10 DEF Next, QuerySource
<1> QED BY <1>1, <1>2, PTL DEF Spec

(* SessionIsComplete for any limit on the records, any number of queries   *)
(* and whatever servers send: a session only ever comes from a message     *)
(* that ReadServerResponse read to the end and that is complete as a       *)
(* whole.                                                                  *)
THEOREM SessionsAreComplete == Spec => []SessionIsComplete
<1>1. Exchanging => SessionIsComplete
  BY DEF Exchanging, SessionIsComplete
<1> QED BY <1>1, ExchangingIsKept, PTL

-----------------------------------------------------------------------------
(* Types.                                                                  *)

LEMMA ReturnIsLocal ==
  ASSUME Locals, NEW q \in Queries, NEW r, Return(q, r)
  PROVE  Locals' /\ Alone(q) /\ at'[q] = "idle" /\ where'[q] = None /\ sess'[q] = 0
         /\ cookie'[q] = NoCookie /\ exchange'[q] = NoExchange
BY DEF Locals, Return, Alone

LEMMA StepIsLocal ==
  ASSUME Locals, NEW q \in Queries, QuerySource(q)
  PROVE  Locals' /\ Alone(q)
<1>1. ASSUME NEW r, Return(q, r) PROVE Locals' /\ Alone(q)
  BY <1>1, ReturnIsLocal
<1>2. CASE QueryNTP(q) \/ QueryNTS(q)
  BY <1>2 DEF QueryNTP, QueryNTS, Goto, locals, Locals, Alone
<1>3. CASE Enter(q)
  <2>1. /\ \E a \in Steps : at' = [at EXCEPT ![q] = a]
        /\ \E s : sess' = [sess EXCEPT ![q] = s] \/ sess' = sess
        /\ UNCHANGED <<where, cookie, exchange>>
    BY <1>3 DEF Enter, Goto, Steps
  <2> QED BY <2>1 DEF Locals, Alone
<1>4. CASE Read(q)
  BY <1>4 DEF Read, locals, Locals, Alone
<1>5. CASE Establish(q)
  BY <1>5 DEF Establish, Goto, Locals, Alone
<1>6. CASE FailKE(q)
  BY <1>1, <1>6 DEF FailKE
<1>7. CASE Acquire(q)
  <2>1. CASE Return(q, NoMeasurement)
    BY <1>1, <2>1
  <2>2. CASE ~Return(q, NoMeasurement)
    BY <1>7, <2>2 DEF Acquire, Goto, Locals, Alone
  <2> QED BY <2>1, <2>2
<1>8. CASE Send(q)
  <2>1. CASE Return(q, NoMeasurement)
    BY <1>1, <2>1
  <2>2. CASE ~Return(q, NoMeasurement)
    <3>1. /\ Goto(q, "sent") /\ UNCHANGED <<where, sess, cookie>>
          /\ \E x : exchange' = [exchange EXCEPT ![q] = x]
      BY <1>8, <2>2, Zenon DEF Send
    <3> QED BY <3>1 DEF Goto, Locals, Alone
  <2> QED BY <2>1, <2>2
<1>9. CASE ServerReceive(q) \/ ServerReply(q)
  <2>1. /\ \E a \in Steps : at' = [at EXCEPT ![q] = a]
        /\ UNCHANGED <<where, sess, cookie>>
        /\ \E x : exchange' = [exchange EXCEPT ![q] = x]
    <3>1. "served" \in Steps /\ "replied" \in Steps
      BY DEF Steps
    <3> QED BY <1>9, <3>1, Zenon DEF ServerReceive, ServerReply, Goto
  <2> QED BY <2>1 DEF Locals, Alone
<1>10. CASE Receive(q)
  <2>1. CASE Return(q, NoMeasurement)
    BY <1>1, <2>1
  <2>2. CASE ~Return(q, NoMeasurement)
    <3>1. /\ \E a : at' = [at EXCEPT ![q] = a]
          /\ UNCHANGED <<where, sess, cookie>>
          /\ \E x : exchange' = [exchange EXCEPT ![q] = x]
      BY <1>10, <2>2, Zenon DEF Receive, Goto
    <3> QED BY <3>1 DEF Locals, Alone
  <2> QED BY <2>1, <2>2
<1>11. CASE SpendCookie(q) \/ Refill(q)
  BY <1>11 DEF SpendCookie, Refill, Goto, locals, Locals, Alone
<1>12. CASE Measure(q) \/ Fail(q) \/ Refuse(q)
  BY <1>1, <1>12, Zenon DEF Measure, Fail, Refuse
<1> QED BY <1>2, <1>3, <1>4, <1>5, <1>6, <1>7, <1>8, <1>9, <1>10, <1>11, <1>12
           DEF QuerySource

(* What most steps are to the sessions: nothing.  A query that is about to *)
(* send without having acquired a cookie has none.                         *)
Quiet(q) ==
    /\ UNCHANGED <<jars, issued, ntsState, sent, starved>>
    /\ at'[q] # "acquire"
    /\ at'[q] = "send" => cookie'[q] = NoCookie

LEMMA OthersKeep ==
  ASSUME NEW q, NEW p \in Queries \ {q}, Has(p), Alone(q), Shared, Shared',
         issued <= issued', Len(jars) <= Len(jars')
  PROVE  Has(p)'
<1>1. /\ issued \in Nat /\ issued' \in Nat /\ Len(jars) \in Nat /\ Len(jars') \in Nat
  BY LenProperties DEF Shared
<1>2. sess'[p] \in 0..Len(jars') /\ cookie'[p] \in (1..issued') \union {NoCookie}
  <2>1. /\ sess'[p] = sess[p] /\ sess[p] \in 0..Len(jars)
        /\ cookie'[p] = cookie[p] /\ cookie[p] \in (1..issued) \union {NoCookie}
    BY DEF Alone, Has
  <2> QED BY <1>1, <2>1
<1> QED BY <1>2 DEF Has, Alone

LEMMA ReturnIsTyped ==
  ASSUME Types, Shared', NEW q \in Queries, NEW r, Return(q, r)
  PROVE  Has(q)'
<1>1. /\ at'[q] = "idle" /\ where'[q] = None /\ sess'[q] = 0
      /\ cookie'[q] = NoCookie /\ exchange'[q] = NoExchange
  BY ReturnIsLocal DEF Types
<1>2. Len(jars') \in Nat
  BY LenProperties DEF Shared
<1>3. NoExchange.cookies \in Nat
  BY DEF NoExchange
<1> QED BY <1>1, <1>2, <1>3 DEF Has, Steps

LEMMA QuietSteps ==
  ASSUME Types, NEW q \in Queries,
         \/ QueryNTP(q) \/ QueryNTS(q) \/ Read(q) \/ FailKE(q) \/ ServerReceive(q)
         \/ ServerReply(q) \/ Receive(q) \/ Measure(q) \/ Fail(q) \/ Refuse(q)
  PROVE  Quiet(q) /\ Has(q)'
<1>1. Shared /\ Locals /\ Has(q)
  BY DEF Types
<1>2. UNCHANGED <<jars, issued, ntsState, sent, starved>>
  <2>1. CASE QueryNTP(q) \/ QueryNTS(q)
    BY <2>1 DEF QueryNTP, QueryNTS, sessions, history
  <2>6. CASE Fail(q) \/ Refuse(q)
    BY <2>6 DEF Fail, Refuse, sessions, history
  <2>2. CASE Read(q)
    BY <2>2 DEF Read
  <2>7. CASE FailKE(q)
    BY <2>7, FailKEKeeps, Zenon
  <2>3. CASE ServerReceive(q) \/ ServerReply(q)
    BY <2>3, ServerKeeps, Zenon
  <2>4. CASE Receive(q)
    BY <2>4 DEF Receive, sessions, history
  <2>5. CASE Measure(q)
    BY <2>5 DEF Measure, sessions, history
  <2> QED BY <2>1, <2>2, <2>3, <2>4, <2>5, <2>6, <2>7
<1>3. Shared'
  BY <1>1, <1>2 DEF Shared
<1>4. ASSUME NEW r, Return(q, r) PROVE Quiet(q) /\ Has(q)'
  <2>1. Has(q)'
    BY <1>3, <1>4, ReturnIsTyped
  <2>2. at'[q] = "idle"
    BY <1>1, <1>4, ReturnIsLocal
  <2> QED BY <1>2, <2>1, <2>2 DEF Quiet
<1>5. CASE QueryNTP(q)
  <2>1. at[q] = "idle" /\ at'[q] = "send" /\ UNCHANGED locals
    BY <1>1, <1>5 DEF QueryNTP, At, Goto, Locals
  <2> QED BY <1>1, <1>2, <2>1 DEF Quiet, Has, locals, Steps
<1>6. CASE QueryNTS(q)
  <2>1. /\ at[q] = "idle" /\ at'[q] = "enter" /\ where'[q] \in Endpoints
        /\ UNCHANGED <<sess, cookie, exchange>>
    BY <1>1, <1>6 DEF QueryNTS, At, Goto, Locals
  <2> QED BY <1>1, <1>2, <2>1 DEF Quiet, Has, Steps
<1>7. CASE Read(q)
  <2>1. at[q] = "ke" /\ UNCHANGED <<at, locals>>
    BY <1>7 DEF Read, At
  <2> QED BY <1>1, <1>2, <2>1 DEF Quiet, Has, locals
<1>8. CASE ServerReceive(q)
  <2>1. at[q] = "sent" /\ at'[q] = "served" /\ UNCHANGED <<where, sess, cookie>>
    BY <1>1, <1>8 DEF ServerReceive, At, Goto, Locals
  <2>3. PICK root \in site.roots : \E e \in -root..root, d \in 0..site.resolution, u \in ServerUnix :
           exchange' = [exchange EXCEPT ![q] = [@ EXCEPT
                           !.w2 = Wire(u + e - d), !.root = root, !.error = e]]
    BY <1>8 DEF ServerReceive
  <2>4. PICK e \in -root..root, d \in 0..site.resolution, u \in ServerUnix :
           exchange' = [exchange EXCEPT ![q] = [@ EXCEPT
                           !.w2 = Wire(u + e - d), !.root = root, !.error = e]]
    BY <2>3
  <2>5. exchange'[q] = [exchange[q] EXCEPT
                           !.w2 = Wire(u + e - d), !.root = root, !.error = e]
    BY <1>1, <2>4 DEF Locals
  <2>6. DOMAIN exchange[q] = DOMAIN NoExchange
    BY <1>1 DEF Has
  <2>7. "cookies" \in DOMAIN exchange[q]
    BY <2>6 DEF NoExchange
  <2>8. DOMAIN exchange'[q] = DOMAIN exchange[q] /\ exchange'[q].cookies = exchange[q].cookies
    BY <2>5, <2>7
  <2> QED BY <1>1, <1>2, <2>1, <2>8 DEF Quiet, Has, Steps
<1>9. CASE ServerReply(q)
  <2>1. at[q] = "served" /\ at'[q] = "replied" /\ UNCHANGED <<where, sess, cookie>>
    BY <1>1, <1>9 DEF ServerReply, At, Goto, Locals
  <2>2. PICK u \in ServerUnix, d \in 0..site.resolution, n \in {0, exchange[q].cookies + 1} :
           exchange' = [exchange EXCEPT ![q] = [@ EXCEPT
                           !.w3 = Wire(u + exchange[q].error - d),
                           !.cookies = IF cookie[q] = NoCookie THEN 0 ELSE n]]
    BY <1>9 DEF ServerReply
  <2>3. exchange[q].cookies \in Nat /\ DOMAIN exchange[q] = DOMAIN NoExchange
    BY <1>1 DEF Has
  <2>4. exchange'[q] = [exchange[q] EXCEPT
                           !.w3 = Wire(u + exchange[q].error - d),
                           !.cookies = IF cookie[q] = NoCookie THEN 0 ELSE n]
    BY <1>1, <2>2 DEF Locals
  <2>5. "cookies" \in DOMAIN exchange[q]
    BY <2>3 DEF NoExchange
  <2>6. DOMAIN exchange'[q] = DOMAIN exchange[q]
    BY <2>4
  <2>7. exchange'[q].cookies \in Nat
    BY <2>2, <2>3, <2>4, <2>5
  <2> QED BY <1>1, <1>2, <2>1, <2>3, <2>6, <2>7 DEF Quiet, Has, Steps
<1>10. CASE Receive(q) /\ ~Return(q, NoMeasurement)
  <2>1. PICK r \in Readings :
           /\ Goto(q, IF cookie[q] = NoCookie THEN "measure" ELSE "spend")
           /\ exchange' = [exchange EXCEPT ![q] =
                              [@ EXCEPT !.r4 = r, !.t4 = LocalUnixEstimate(r.raw)]]
           /\ UNCHANGED <<where, sess, cookie>>
    BY <1>10 DEF Receive
  <2>2. at[q] = "replied"
    BY <1>10 DEF Receive, At
  <2>3. at'[q] = IF cookie[q] = NoCookie THEN "measure" ELSE "spend"
    BY <1>1, <2>1 DEF Goto, Locals
  <2>4. exchange'[q] = [exchange[q] EXCEPT !.r4 = r, !.t4 = LocalUnixEstimate(r.raw)]
    BY <1>1, <2>1 DEF Locals
  <2>5. DOMAIN exchange[q] = DOMAIN NoExchange
    BY <1>1 DEF Has
  <2>6. "cookies" \in DOMAIN exchange[q]
    BY <2>5 DEF NoExchange
  <2>7. DOMAIN exchange'[q] = DOMAIN exchange[q] /\ exchange'[q].cookies = exchange[q].cookies
    BY <2>4, <2>6
  <2> QED BY <1>1, <1>2, <2>1, <2>2, <2>3, <2>7 DEF Quiet, Has, Steps
<1>11. CASE FailKE(q) \/ Measure(q) \/ Fail(q) \/ Refuse(q)
  BY <1>4, <1>11, Zenon DEF FailKE, Measure, Fail, Refuse
<1> QED BY <1>4, <1>5, <1>6, <1>7, <1>8, <1>9, <1>10, <1>11

(* The steps that touch the sessions, and what they do to the jars.        *)

LEMMA EnterStep ==
  ASSUME Types, NEW q \in Queries, Enter(q)
  PROVE  /\ UNCHANGED <<jars, issued, ntsState, sent, starved>> /\ Has(q)'
         /\ \/ Quiet(q)
            \/ /\ at'[q] = "acquire" /\ sess'[q] \in DOMAIN jars
               /\ ~NeedsReplenishment(jars[sess'[q]])
<1> DEFINE s == ntsState[where[q]]
<1>1. Shared /\ Locals /\ Has(q) /\ at[q] = "enter" /\ cookie[q] = NoCookie
  BY DEF Types, Enter, At, Has
<1>2. UNCHANGED <<jars, issued, ntsState, sent, starved>> /\ UNCHANGED <<where, cookie, exchange>>
  BY DEF Enter
<1>3. s \in 0..Len(jars) /\ Len(jars) \in Nat /\ DOMAIN jars = 1..Len(jars)
  BY <1>1, LenProperties DEF Shared, Has
<1>4. CASE s # 0 /\ ~NeedsReplenishment(jars[s])
  <2>1. at'[q] = "acquire" /\ sess'[q] = s
    BY <1>1, <1>4 DEF Enter, Goto, Locals
  <2> QED BY <1>1, <1>2, <1>3, <1>4, <2>1 DEF Has, Steps
<1>5. CASE ~(s # 0 /\ ~NeedsReplenishment(jars[s]))
  <2>1. at'[q] = "ke" /\ sess' = sess
    BY <1>1, <1>5 DEF Enter, Goto, Locals
  <2> QED BY <1>1, <1>2, <2>1 DEF Has, Steps, Quiet
<1> QED BY <1>4, <1>5

LEMMA EstablishStep ==
  ASSUME Types, Exchanging, NEW q \in Queries, Establish(q)
  PROVE  /\ Shared' /\ Has(q)' /\ issued <= issued' /\ UNCHANGED <<sent, starved>>
         /\ Len(jars') = Len(jars) + 1 /\ \A s \in DOMAIN jars : jars'[s] = jars[s]
         /\ at'[q] = "acquire" /\ cookie'[q] = NoCookie /\ sess'[q] = Len(jars')
         /\ Unused(jars', Len(jars')) \subseteq (issued + 1)..issued'
         /\ issued + 1 \in Unused(jars', Len(jars'))
<1> DEFINE k == response.cookies
           new == Added(<<>>, issued, k)
<1>1. Shared /\ Locals /\ Has(q) /\ at[q] = "ke" /\ cookie[q] = NoCookie
  BY DEF Types, Establish, At, Has
<1>2. k \in Nat /\ k > 0
  BY DEF Exchanging, Follows, Establish
<1>3. issued \in Nat /\ issued' = issued + k /\ issued' \in Nat /\ issued <= issued'
  BY <1>1, <1>2 DEF Shared, Establish
<1>4. <<>> \in Jars(issued)
  <2>1. <<>> \in [{} -> {"unused", "inflight", "spent"}] /\ {} \in SUBSET (1..issued)
    OBVIOUS
  <2> QED BY <2>1 DEF Jars
<1>5. /\ new \in Jars(issued')
      /\ InState(new, "unused") \subseteq InState(<<>>, "unused") \union (issued + 1)..issued'
      /\ issued + 1 \in InState(new, "unused")
  BY <1>2, <1>3, <1>4, AddedType
<1>6. InState(<<>>, "unused") = {}
  BY DEF InState
<1> HIDE DEF k, new
<1>7. jars' = Append(jars, new)
  BY DEF Establish, new, k
<1>8. jars \in Seq(Jars(issued')) /\ Len(jars) \in Nat /\ DOMAIN jars = 1..Len(jars)
  <2>1. Jars(issued) \subseteq Jars(issued')
    BY <1>3, JarGrows
  <2>2. jars \in Seq(Jars(issued))
    BY <1>1 DEF Shared
  <2> QED BY <2>1, <2>2, LenProperties
<1>9. /\ jars' \in Seq(Jars(issued')) /\ Len(jars') = Len(jars) + 1
      /\ jars'[Len(jars')] = new /\ \A s \in DOMAIN jars : jars'[s] = jars[s]
  BY <1>5, <1>7, <1>8
<1>10. Shared'
  <2>1. ntsState' = [ntsState EXCEPT ![where[q]] = Len(jars')]
    BY DEF Establish
  <2>2. ntsState' \in [Endpoints -> 0..Len(jars')]
    <3>1. Len(jars') \in 0..Len(jars') /\ 0..Len(jars) \subseteq 0..Len(jars')
      BY <1>8, <1>9
    <3>2. ntsState \in [Endpoints -> 0..Len(jars)]
      BY <1>1 DEF Shared
    <3> QED BY <2>1, <3>1, <3>2
  <2> QED BY <1>3, <1>9, <2>2 DEF Shared
<1>11. /\ at'[q] = "acquire" /\ sess'[q] = Len(jars')
       /\ UNCHANGED <<where, cookie, exchange, sent, starved>>
  BY <1>1 DEF Establish, Goto, Locals
<1>12. Has(q)'
  BY <1>1, <1>8, <1>9, <1>11 DEF Has, Steps
<1>13. Unused(jars', Len(jars')) = InState(new, "unused")
  BY <1>9 DEF Unused
<1> QED BY <1>1, <1>3, <1>5, <1>6, <1>9, <1>10, <1>11, <1>12, <1>13

(* One jar of the sequence is replaced.                                    *)
LEMMA JarReplaced ==
  ASSUME Shared, Shared', NEW s \in DOMAIN jars, NEW jar,
         jars' = [jars EXCEPT ![s] = jar]
  PROVE  /\ Len(jars') = Len(jars) /\ DOMAIN jars' = DOMAIN jars
         /\ Unused(jars', s) = InState(jar, "unused")
         /\ \A t \in DOMAIN jars \ {s} : Unused(jars', t) = Unused(jars, t)
BY DEF Shared, Unused

LEMMA MinIsIn ==
  ASSUME NEW S \in SUBSET Nat, S # {}
  PROVE  Min(S) \in S
<1>1. PICK x \in S : \A y \in S : ~(<<y, x>> \in OpToRel(<, Nat))
  BY WFMin, NatLessThanWellFounded, Zenon
<1>2. \A y \in S : ~(y < x)
  BY <1>1 DEF OpToRel
<1>3. \A y \in S : x <= y
  BY <1>2
<1> QED BY <1>3 DEF Min

LEMMA AcquireStep ==
  ASSUME Types, NEW q \in Queries, Acquire(q)
  PROVE  /\ Shared' /\ Has(q)' /\ UNCHANGED <<issued, sent>>
         /\ at[q] = "acquire" /\ sess[q] \in DOMAIN jars /\ Len(jars') = Len(jars)
         /\ \/ /\ Unused(jars, sess[q]) = {} /\ UNCHANGED jars
               /\ at'[q] = "idle"
            \/ /\ UNCHANGED starved
               /\ at'[q] = "send" /\ sess'[q] = sess[q]
               /\ cookie'[q] \in Unused(jars, sess[q]) /\ cookie'[q] \in 1..issued
               /\ Unused(jars', sess[q]) = Unused(jars, sess[q]) \ {cookie'[q]}
               /\ \A t \in DOMAIN jars \ {sess[q]} : Unused(jars', t) = Unused(jars, t)
<1> DEFINE s == sess[q]
           id == NextUnused(jars[s])
<1>1. Shared /\ Locals /\ Has(q) /\ at[q] = "acquire"
  BY DEF Types, Acquire, At
<1>2. UNCHANGED <<issued, sent, ntsState>>
  BY DEF Acquire
<1>3. issued \in Nat /\ Len(jars) \in Nat /\ DOMAIN jars = 1..Len(jars)
  BY <1>1, LenProperties DEF Shared
<1>4. s \in DOMAIN jars
  BY <1>1, <1>3 DEF Has
<1>5. jars[s] \in Jars(issued) /\ Unused(jars, s) \subseteq 1..issued
  <2>1. jars[s] \in Jars(issued)
    BY <1>1, <1>4, ElementOfSeq DEF Shared
  <2> QED BY <1>3, <2>1, JarType DEF Unused
<1>6. Unused(jars, s) = {} => id = NoCookie
  BY DEF NextUnused, Unused
<1>7. Unused(jars, s) # {} => id \in Unused(jars, s) /\ id \in 1..issued /\ id # NoCookie
  <2> SUFFICES ASSUME Unused(jars, s) # {}
               PROVE  id \in Unused(jars, s) /\ id \in 1..issued /\ id # NoCookie
    OBVIOUS
  <2>1. id = Min(Unused(jars, s))
    BY DEF NextUnused, Unused
  <2>2. Unused(jars, s) \in SUBSET Nat
    BY <1>3, <1>5
  <2>3. id \in Unused(jars, s)
    BY <2>1, <2>2, MinIsIn
  <2> QED BY <1>5, <2>2, <2>3, JarAssumption
<1> HIDE DEF id
<1>8. CASE id = NoCookie
  <2>1. Return(q, NoMeasurement) /\ UNCHANGED jars
    BY <1>8 DEF Acquire, id
  <2>2. Shared'
    BY <1>1, <1>2, <2>1 DEF Shared
  <2>3. Has(q)' /\ at'[q] = "idle"
    BY <1>1, <2>1, <2>2, ReturnIsLocal, ReturnIsTyped
  <2> QED BY <1>1, <1>2, <1>4, <1>7, <1>8, <2>1, <2>2, <2>3
<1>9. CASE id # NoCookie
  <2> DEFINE jar == InFlight(jars[s], id)
  <2>1. /\ jars' = [jars EXCEPT ![s] = jar] /\ cookie' = [cookie EXCEPT ![q] = id]
        /\ at' = [at EXCEPT ![q] = "send"] /\ UNCHANGED <<where, sess, exchange, starved>>
    BY <1>9 DEF Acquire, Goto, id
  <2>2. at'[q] = "send" /\ cookie'[q] = id
    BY <1>1, <2>1 DEF Locals
  <2>3. jar \in Jars(issued) /\ InState(jar, "unused") = Unused(jars, s) \ {id}
    BY <1>3, <1>5, MarkedType DEF Unused
  <2> HIDE DEF jar
  <2>4. jars' \in Seq(Jars(issued)) /\ Len(jars') = Len(jars)
    BY <1>1, <1>4, <2>1, <2>3 DEF Shared
  <2>5. Shared'
    BY <1>1, <1>2, <2>4 DEF Shared
  <2>6. /\ Unused(jars', s) = Unused(jars, s) \ {id}
        /\ \A t \in DOMAIN jars \ {s} : Unused(jars', t) = Unused(jars, t)
    BY <1>1, <1>4, <2>1, <2>3, <2>5, JarReplaced
  <2>7. id \in Unused(jars, s) /\ id \in 1..issued
    BY <1>6, <1>7, <1>9
  <2>8. s > 0
    BY <1>1 DEF Has
  <2>9. Has(q)'
    BY <1>1, <1>2, <2>1, <2>2, <2>4, <2>7, <2>8 DEF Has, Steps
  <2> QED BY <1>1, <1>2, <1>4, <2>1, <2>2, <2>4, <2>5, <2>6, <2>7, <2>9
<1> QED BY <1>8, <1>9

LEMMA PlaceholdersAreCounted ==
  ASSUME NEW q, NEW n \in RequestPlaceholders(q)
  PROVE  n \in Nat
<1>1. CASE cookie[q] = NoCookie
  BY <1>1 DEF RequestPlaceholders
<1>2. CASE cookie[q] # NoCookie
  <2>1. n \in 0..CalculatePlaceholderCount(jars[sess[q]])
    BY <1>2 DEF RequestPlaceholders
  <2> QED BY <2>1
<1> QED BY <1>1, <1>2

LEMMA SendStep ==
  ASSUME Types, NEW q \in Queries, Send(q)
  PROVE  /\ Has(q)' /\ UNCHANGED <<jars, issued, ntsState, starved>> /\ at[q] = "send"
         /\ \/ Quiet(q)
            \/ /\ at'[q] = "sent" /\ cookie'[q] = cookie[q]
               /\ cookie[q] # NoCookie /\ sent' = sent (+) SetToBag({cookie[q]})
<1>1. Shared /\ Locals /\ Has(q) /\ at[q] = "send"
  BY DEF Types, Send, At
<1>2. UNCHANGED <<jars, issued, ntsState, starved>>
  BY DEF Send, sessions
<1>3. Shared'
  BY <1>1, <1>2 DEF Shared
<1>4. CASE Return(q, NoMeasurement) /\ UNCHANGED sent
  <2>1. Has(q)' /\ at'[q] = "idle"
    BY <1>1, <1>3, <1>4, ReturnIsLocal, ReturnIsTyped
  <2> QED BY <1>1, <1>2, <1>4, <2>1 DEF Quiet
<1>5. CASE ~(Return(q, NoMeasurement) /\ UNCHANGED sent)
  <2>1. PICK r \in Readings, asked \in RequestPlaceholders(q) :
           /\ Goto(q, "sent")
           /\ exchange' = [exchange EXCEPT ![q] = [@ EXCEPT
                              !.r1 = r, !.t1 = LocalUnixEstimate(r.raw), !.cookies = asked]]
           /\ sent' = IF cookie[q] = NoCookie THEN sent
                      ELSE sent (+) SetToBag({cookie[q]})
           /\ UNCHANGED <<where, sess, cookie, result>>
    BY <1>5, Zenon DEF Send
  <2>2. asked \in Nat
    BY PlaceholdersAreCounted
  <2>3. exchange'[q] = [exchange[q] EXCEPT
                           !.r1 = r, !.t1 = LocalUnixEstimate(r.raw), !.cookies = asked]
    BY <1>1, <2>1 DEF Locals
  <2>4. DOMAIN exchange'[q] = DOMAIN exchange[q] /\ exchange'[q].cookies = asked
    <3>1. DOMAIN exchange[q] = DOMAIN NoExchange
      BY <1>1 DEF Has
    <3>2. "cookies" \in DOMAIN exchange[q]
      BY <3>1 DEF NoExchange
    <3> QED BY <2>3, <3>2
  <2>5. at'[q] = "sent" /\ cookie'[q] = cookie[q] /\ UNCHANGED <<where, sess, cookie>>
    BY <1>1, <2>1 DEF Goto, Locals
  <2>6. Has(q)'
    BY <1>1, <1>2, <2>2, <2>4, <2>5 DEF Has, Steps
  <2>7. CASE cookie[q] = NoCookie
    BY <1>1, <1>2, <2>1, <2>5, <2>6, <2>7 DEF Quiet
  <2>8. CASE cookie[q] # NoCookie
    BY <1>1, <1>2, <2>1, <2>5, <2>6, <2>8
  <2> QED BY <2>7, <2>8
<1> QED BY <1>4, <1>5

(* SpendCookie and Refill: no cookie leaves the unused ones, and those     *)
(* that join them are new.                                                 *)
LEMMA ReturnOfCookies ==
  ASSUME Types, NEW q \in Queries, SpendCookie(q) \/ Refill(q)
  PROVE  /\ Shared' /\ Has(q)' /\ UNCHANGED <<sent, starved>> /\ issued <= issued'
         /\ sess[q] \in DOMAIN jars /\ Len(jars') = Len(jars)
         /\ at'[q] \notin {"acquire", "send"}
         /\ Unused(jars, sess[q]) \subseteq Unused(jars', sess[q])
         /\ Unused(jars', sess[q]) \subseteq Unused(jars, sess[q]) \union (issued + 1)..issued'
         /\ \A t \in DOMAIN jars \ {sess[q]} : Unused(jars', t) = Unused(jars, t)
<1> DEFINE s == sess[q]
           k == exchange[q].cookies
<1>1. /\ Shared /\ Locals /\ Has(q) /\ at[q] \in {"spend", "refill"}
      /\ UNCHANGED <<where, sess, cookie, exchange, ntsState, sent, starved>>
  BY DEF Types, SpendCookie, Refill, At, locals, history
<1>2. issued \in Nat /\ k \in Nat /\ Len(jars) \in Nat /\ DOMAIN jars = 1..Len(jars)
  BY <1>1, LenProperties DEF Shared, Has
<1>3. s \in DOMAIN jars
  BY <1>1, <1>2 DEF Has
<1>4. jars[s] \in Jars(issued)
  BY <1>1, <1>3, ElementOfSeq DEF Shared
<1>5. /\ issued' \in Nat /\ issued <= issued' /\ at'[q] \in {"refill", "measure"}
      /\ \E jar \in Jars(issued') :
            /\ jars' = [jars EXCEPT ![s] = jar]
            /\ Unused(jars, s) \subseteq InState(jar, "unused")
            /\ InState(jar, "unused") \subseteq Unused(jars, s) \union (issued + 1)..issued'
  <2>1. CASE SpendCookie(q)
    <3>1. /\ jars' = [jars EXCEPT ![s] = MarkSpent(@, cookie[q])] /\ issued' = issued
          /\ at'[q] = "refill"
      BY <1>1, <2>1 DEF SpendCookie, Goto, Locals
    <3> DEFINE jar == MarkSpent(jars[s], cookie[q])
    <3>2. jar \in Jars(issued) /\ InState(jar, "unused") = Unused(jars, s)
      BY <1>2, <1>4, MarkedType DEF Unused
    <3>3. jars' = [jars EXCEPT ![s] = jar]
      BY <3>1
    <3> HIDE DEF jar
    <3>4. issued' \in Nat /\ issued <= issued' /\ jar \in Jars(issued')
      BY <1>2, <3>1, <3>2
    <3> QED BY <3>1, <3>2, <3>3, <3>4
  <2>2. CASE Refill(q)
    <3>1. /\ jars' = [jars EXCEPT ![s] = Added(@, issued, k)] /\ issued' = issued + k
          /\ at'[q] = "measure"
      BY <1>1, <2>2 DEF Refill, Goto, Locals
    <3> DEFINE jar == Added(jars[s], issued, k)
    <3>2. /\ jar \in Jars(issued + k)
          /\ Unused(jars, s) \subseteq InState(jar, "unused")
          /\ InState(jar, "unused") \subseteq Unused(jars, s) \union (issued + 1)..(issued + k)
      BY <1>2, <1>4, AddedType DEF Unused
    <3>3. jars' = [jars EXCEPT ![s] = jar]
      BY <3>1
    <3> HIDE DEF k, jar
    <3>4. issued' \in Nat /\ issued <= issued' /\ jar \in Jars(issued')
      BY <1>2, <3>1, <3>2
    <3> QED BY <3>1, <3>2, <3>3, <3>4
  <2> QED BY <2>1, <2>2
<1>6. PICK jar \in Jars(issued') :
         /\ jars' = [jars EXCEPT ![s] = jar]
         /\ Unused(jars, s) \subseteq InState(jar, "unused")
         /\ InState(jar, "unused") \subseteq Unused(jars, s) \union (issued + 1)..issued'
  BY <1>5
<1>7. jars' \in Seq(Jars(issued')) /\ Len(jars') = Len(jars)
  <2>1. Jars(issued) \subseteq Jars(issued')
    BY <1>2, <1>5, JarGrows
  <2>2. jars \in Seq(Jars(issued'))
    BY <1>1, <2>1 DEF Shared
  <2> QED BY <1>3, <1>6, <2>2
<1>8. Shared'
  BY <1>1, <1>5, <1>7 DEF Shared
<1>9. /\ Unused(jars', s) = InState(jar, "unused")
      /\ \A t \in DOMAIN jars \ {s} : Unused(jars', t) = Unused(jars, t)
  BY <1>1, <1>3, <1>6, <1>8, JarReplaced
<1>10. Has(q)'
  <2>1. cookie[q] \in (1..issued') \union {NoCookie}
    <3>1. 1..issued \subseteq 1..issued'
      BY <1>2, <1>5
    <3> QED BY <1>1, <3>1 DEF Has
  <2>2. sess'[q] = sess[q] /\ cookie'[q] = cookie[q] /\ exchange'[q] = exchange[q]
        /\ where'[q] = where[q] /\ Len(jars') = Len(jars)
    BY <1>1, <1>7
  <2>3. at'[q] \in Steps /\ at'[q] \in {"refill", "measure"}
    BY <1>5 DEF Steps
  <2> QED BY <1>1, <2>1, <2>2, <2>3 DEF Has
<1> QED BY <1>1, <1>3, <1>5, <1>6, <1>7, <1>8, <1>9, <1>10

QuietOf(q) ==
    \/ QueryNTP(q) \/ QueryNTS(q) \/ Read(q) \/ FailKE(q) \/ ServerReceive(q)
    \/ ServerReply(q) \/ Receive(q) \/ Measure(q) \/ Fail(q) \/ Refuse(q)

LEMMA TypesStart == Init => Types
<1> SUFFICES ASSUME Init PROVE Types
  OBVIOUS
<1>1. jars \in Seq(Jars(issued)) /\ Len(jars) = 0 /\ issued = 0
  BY EmptySeq DEF Init
<1>2. Shared
  BY <1>1 DEF Init, Shared
<1>3. Locals
  BY DEF Init, Locals
<1>4. \A q \in Queries : Has(q)
  BY <1>1 DEF Init, Has, Steps, NoExchange
<1> QED BY <1>2, <1>3, <1>4 DEF Types

LEMMA TypesKept == Types /\ Exchanging /\ [Next]_vars => Types'
<1> SUFFICES ASSUME Types, Exchanging, [Next]_vars PROVE Types'
  OBVIOUS
<1>1. CASE Tick \/ UNCHANGED vars
  <2>1. UNCHANGED <<at, locals, issued, jars, ntsState>>
    BY <1>1 DEF Tick, vars, sessions
  <2>2. Shared' /\ Locals' /\ \A q \in Queries : Has(q)'
    BY <2>1 DEF Types, Shared, Locals, Has, locals
  <2> QED BY <2>2 DEF Types
<1>2. ASSUME NEW q \in Queries, QuerySource(q) PROVE Types'
  <2>1. Shared /\ Locals /\ \A p \in Queries : Has(p)
    BY DEF Types
  <2>2. Locals' /\ Alone(q)
    BY <1>2, <2>1, StepIsLocal
  <2>3. issued \in Nat /\ Len(jars) \in Nat
    BY <2>1, LenProperties DEF Shared
  <2>4. Shared' /\ Has(q)' /\ issued <= issued' /\ Len(jars) <= Len(jars')
    <3>1. CASE QuietOf(q)
      <4>1. Quiet(q) /\ Has(q)'
        BY <3>1, QuietSteps DEF QuietOf
      <4> QED BY <2>1, <2>3, <4>1 DEF Quiet, Shared
    <3>2. CASE Enter(q)
      BY <2>1, <2>3, <3>2, EnterStep DEF Shared
    <3>3. CASE Establish(q)
      BY <2>3, <3>3, EstablishStep
    <3>4. CASE Acquire(q)
      BY <2>3, <3>4, AcquireStep
    <3>5. CASE Send(q)
      <4>1. Has(q)' /\ UNCHANGED <<jars, issued, ntsState>>
        BY <3>5, SendStep
      <4> QED BY <2>1, <2>3, <4>1 DEF Shared
    <3>6. CASE SpendCookie(q) \/ Refill(q)
      BY <2>3, <3>6, ReturnOfCookies
    <3> QED BY <1>2, <3>1, <3>2, <3>3, <3>4, <3>5, <3>6 DEF QuerySource, QuietOf
  <2>5. \A p \in Queries \ {q} : Has(p)'
    BY <2>1, <2>2, <2>4, OthersKeep
  <2>6. \A p \in Queries : Has(p)'
    BY <2>4, <2>5
  <2> QED BY <2>2, <2>4, <2>6 DEF Types
<1> QED BY <1>1, <1>2 DEF Next

-----------------------------------------------------------------------------
(* Cookies.                                                                *)

(* A query is about to send a cookie.                                      *)
Holds(q) == at[q] = "send" /\ cookie[q] # NoCookie

(***************************************************************************)
(* A cookie is unused in one jar at most, and neither one that has been    *)
(* sent nor one that a query is about to send is; two queries never hold   *)
(* the same one, nor one of them a cookie that has been sent.              *)
(***************************************************************************)
Cookies ==
    /\ sent = [c \in DOMAIN sent |-> 1] /\ DOMAIN sent \subseteq 1..issued
    /\ \A s \in DOMAIN jars :
          /\ Unused(jars, s) \subseteq 1..issued
          /\ Unused(jars, s) \cap DOMAIN sent = {}
          /\ \A t \in DOMAIN jars \ {s} : Unused(jars, s) \cap Unused(jars, t) = {}
    /\ \A q \in Queries : Holds(q) =>
          /\ cookie[q] \in 1..issued /\ cookie[q] \notin DOMAIN sent
          /\ \A s \in DOMAIN jars : cookie[q] \notin Unused(jars, s)
          /\ \A p \in Queries \ {q} : Holds(p) => cookie[p] # cookie[q]

(* The jars lose nothing but what the query takes, and get nothing but new *)
(* cookies, one jar's; nothing is sent.                                    *)
LEMMA CookiesSpread ==
  ASSUME Cookies, Types, Types', NEW q \in Queries, Alone(q),
         UNCHANGED sent, issued <= issued', ~Holds(q)',
         NEW s, DOMAIN jars' \subseteq DOMAIN jars \union {s},
         \A t \in DOMAIN jars \ {s} : Unused(jars', t) = Unused(jars, t),
         s \in DOMAIN jars =>
            Unused(jars', s) \subseteq Unused(jars, s) \union (issued + 1)..issued',
         s \in DOMAIN jars' \ DOMAIN jars => Unused(jars', s) \subseteq (issued + 1)..issued'
  PROVE  Cookies'
<1> DEFINE New == (issued + 1)..issued'
<1>1. issued \in Nat /\ issued' \in Nat
  BY DEF Types, Shared
<1>2. \A c \in New : c \notin 1..issued
  BY <1>1
<1>3. 1..issued \subseteq 1..issued' /\ New \subseteq 1..issued'
  BY <1>1
<1> HIDE DEF New
<1>4. \A t \in DOMAIN jars' \ {s} : t \in DOMAIN jars /\ Unused(jars', t) = Unused(jars, t)
  OBVIOUS
<1>5. s \in DOMAIN jars' =>
         \A c \in Unused(jars', s) : c \in New \/ (s \in DOMAIN jars /\ c \in Unused(jars, s))
  BY DEF New
<1>6. /\ DOMAIN sent \subseteq 1..issued
      /\ \A t \in DOMAIN jars :
            /\ Unused(jars, t) \subseteq 1..issued
            /\ Unused(jars, t) \cap DOMAIN sent = {}
            /\ \A u \in DOMAIN jars \ {t} : Unused(jars, t) \cap Unused(jars, u) = {}
  BY DEF Cookies
<1>7. ASSUME NEW t \in DOMAIN jars'
      PROVE  /\ Unused(jars', t) \subseteq 1..issued'
             /\ Unused(jars', t) \cap DOMAIN sent = {}
  BY <1>2, <1>3, <1>4, <1>5, <1>6
<1>8. ASSUME NEW t \in DOMAIN jars', NEW u \in DOMAIN jars' \ {t}
      PROVE  Unused(jars', t) \cap Unused(jars', u) = {}
  <2>1. CASE t # s /\ u # s
    BY <1>4, <1>6, <2>1
  <2>2. CASE t = s
    BY <1>2, <1>4, <1>5, <1>6, <2>2
  <2>3. CASE u = s
    BY <1>2, <1>4, <1>5, <1>6, <2>3
  <2> QED BY <2>1, <2>2, <2>3
<1>9. ASSUME NEW p \in Queries, Holds(p)'
      PROVE  /\ p # q /\ Holds(p) /\ cookie'[p] = cookie[p]
             /\ cookie[p] \in 1..issued' /\ cookie[p] \notin DOMAIN sent
             /\ \A t \in DOMAIN jars' : cookie[p] \notin Unused(jars', t)
             /\ \A r \in Queries \ {p} : Holds(r)' => cookie'[r] # cookie'[p]
  <2>1. \A r \in Queries : Holds(r)' => r # q /\ Holds(r) /\ cookie'[r] = cookie[r]
    BY DEF Holds, Alone
  <2>2. /\ cookie[p] \in 1..issued /\ cookie[p] \notin DOMAIN sent
        /\ \A t \in DOMAIN jars : cookie[p] \notin Unused(jars, t)
        /\ \A r \in Queries \ {p} : Holds(r) => cookie[r] # cookie[p]
    BY <1>9, <2>1 DEF Cookies
  <2>3. \A t \in DOMAIN jars' : cookie[p] \notin Unused(jars', t)
    BY <1>2, <1>4, <1>5, <2>2
  <2> QED BY <1>3, <1>9, <2>1, <2>2, <2>3
<1>10. sent' = [c \in DOMAIN sent' |-> 1] /\ DOMAIN sent' \subseteq 1..issued'
  BY <1>3, <1>6 DEF Cookies
<1> QED BY <1>7, <1>8, <1>9, <1>10 DEF Cookies

LEMMA CookiesStart == Init => Cookies
BY DEF Init, Cookies, EmptyBag, SetToBag, Holds

(* A query takes one cookie out of the unused ones.                        *)
LEMMA CookieTaken ==
  ASSUME Cookies, Types, NEW q \in Queries, Alone(q), UNCHANGED <<issued, sent>>,
         NEW s \in DOMAIN jars, DOMAIN jars' = DOMAIN jars,
         cookie'[q] \in Unused(jars, s), cookie'[q] \in 1..issued,
         Unused(jars', s) = Unused(jars, s) \ {cookie'[q]},
         \A t \in DOMAIN jars \ {s} : Unused(jars', t) = Unused(jars, t)
  PROVE  Cookies'
<1> DEFINE id == cookie'[q]
<1>1. /\ DOMAIN sent \subseteq 1..issued
      /\ \A t \in DOMAIN jars :
            /\ Unused(jars, t) \subseteq 1..issued
            /\ Unused(jars, t) \cap DOMAIN sent = {}
            /\ \A u \in DOMAIN jars \ {t} : Unused(jars, t) \cap Unused(jars, u) = {}
  BY DEF Cookies
<1>2. \A t \in DOMAIN jars : Unused(jars', t) \subseteq Unused(jars, t) /\ id \notin Unused(jars', t)
  BY <1>1
<1>3. ASSUME NEW t \in DOMAIN jars
      PROVE  /\ Unused(jars', t) \subseteq 1..issued
             /\ Unused(jars', t) \cap DOMAIN sent = {}
             /\ \A u \in DOMAIN jars \ {t} : Unused(jars', t) \cap Unused(jars', u) = {}
  BY <1>1, <1>2
<1>4. id \notin DOMAIN sent
  BY <1>1
<1>5. ASSUME NEW p \in Queries \ {q}, Holds(p)'
      PROVE  /\ cookie'[p] \in 1..issued /\ cookie'[p] \notin DOMAIN sent /\ cookie'[p] # id
             /\ \A t \in DOMAIN jars : cookie'[p] \notin Unused(jars', t)
             /\ \A r \in Queries \ {p, q} : Holds(r)' => cookie'[r] # cookie'[p]
  <2>1. \A r \in Queries \ {q} : (Holds(r)' <=> Holds(r)) /\ cookie'[r] = cookie[r]
    BY DEF Holds, Alone
  <2>2. /\ cookie[p] \in 1..issued /\ cookie[p] \notin DOMAIN sent
        /\ \A t \in DOMAIN jars : cookie[p] \notin Unused(jars, t)
        /\ \A r \in Queries \ {p} : Holds(r) => cookie[r] # cookie[p]
    BY <1>5, <2>1 DEF Cookies
  <2> QED BY <1>2, <2>1, <2>2
<1>6. ASSUME NEW p \in Queries, Holds(p)'
      PROVE  /\ cookie'[p] \in 1..issued /\ cookie'[p] \notin DOMAIN sent
             /\ \A t \in DOMAIN jars : cookie'[p] \notin Unused(jars', t)
             /\ \A r \in Queries \ {p} : Holds(r)' => cookie'[r] # cookie'[p]
  <2>1. CASE p = q
    BY <1>2, <1>4, <1>5, <2>1
  <2>2. CASE p # q
    BY <1>5, <1>6, <2>2
  <2> QED BY <2>1, <2>2
<1>7. sent' = [c \in DOMAIN sent' |-> 1]
  BY DEF Cookies
<1> QED BY <1>1, <1>3, <1>6, <1>7 DEF Cookies

(* A query sends the cookie it holds.                                      *)
LEMMA CookieSent ==
  ASSUME Cookies, Types, NEW q \in Queries, Alone(q), UNCHANGED <<jars, issued>>,
         Holds(q), ~Holds(q)', sent' = sent (+) SetToBag({cookie[q]})
  PROVE  Cookies'
<1> DEFINE id == cookie[q]
<1>1. /\ id \in 1..issued /\ id \notin DOMAIN sent
      /\ \A s \in DOMAIN jars : id \notin Unused(jars, s)
      /\ \A p \in Queries \ {q} : Holds(p) => cookie[p] # id
  BY DEF Cookies
<1>2. sent = [c \in DOMAIN sent |-> 1]
  BY DEF Cookies
<1>3. sent' = [c \in DOMAIN sent \union {id} |-> 1]
  <2>1. SetToBag({id}) = [c \in {id} |-> 1]
    BY DEF SetToBag
  <2>2. sent' = [c \in DOMAIN sent \union {id} |->
                    (IF c \in DOMAIN sent THEN sent[c] ELSE 0)
                       + (IF c \in {id} THEN SetToBag({id})[c] ELSE 0)]
    BY <2>1 DEF (+)
  <2>3. \A c \in DOMAIN sent \union {id} :
           (IF c \in DOMAIN sent THEN sent[c] ELSE 0)
               + (IF c \in {id} THEN SetToBag({id})[c] ELSE 0) = 1
    BY <1>1, <1>2, <2>1
  <2> QED BY <2>2, <2>3
<1>4. DOMAIN sent' = DOMAIN sent \union {id}
  BY <1>3
<1>5. \A p \in Queries : Holds(p)' => p # q /\ Holds(p) /\ cookie'[p] = cookie[p]
  BY DEF Holds, Alone
<1>6. ASSUME NEW p \in Queries, Holds(p)'
      PROVE  /\ cookie'[p] \in 1..issued /\ cookie'[p] \notin DOMAIN sent'
             /\ \A s \in DOMAIN jars : cookie'[p] \notin Unused(jars, s)
             /\ \A r \in Queries \ {p} : Holds(r)' => cookie'[r] # cookie'[p]
  <2>1. p # q /\ Holds(p) /\ cookie'[p] = cookie[p]
    BY <1>5, <1>6
  <2>2. /\ cookie[p] \in 1..issued /\ cookie[p] \notin DOMAIN sent
        /\ \A s \in DOMAIN jars : cookie[p] \notin Unused(jars, s)
        /\ \A r \in Queries \ {p} : Holds(r) => cookie[r] # cookie[p]
    BY <2>1 DEF Cookies
  <2> QED BY <1>1, <1>4, <1>5, <2>1, <2>2
<1>7. /\ DOMAIN sent \subseteq 1..issued
      /\ \A s \in DOMAIN jars :
            /\ Unused(jars, s) \subseteq 1..issued
            /\ Unused(jars, s) \cap DOMAIN sent = {}
            /\ \A t \in DOMAIN jars \ {s} : Unused(jars, s) \cap Unused(jars, t) = {}
  BY DEF Cookies
<1>8. /\ DOMAIN sent' \subseteq 1..issued
      /\ \A s \in DOMAIN jars : Unused(jars, s) \cap DOMAIN sent' = {}
  BY <1>1, <1>4, <1>7
<1> QED BY <1>3, <1>4, <1>6, <1>7, <1>8 DEF Cookies

LEMMA CookiesKept == Types /\ Types' /\ Exchanging /\ Cookies /\ [Next]_vars => Cookies'
<1> SUFFICES ASSUME Types, Types', Exchanging, Cookies, [Next]_vars PROVE Cookies'
  OBVIOUS
<1>1. CASE Tick \/ UNCHANGED vars
  <2>1. UNCHANGED <<at, cookie, issued, jars, sent>>
    BY <1>1 DEF Tick, vars, sessions, locals, history
  <2> QED BY <2>1 DEF Cookies, Holds
<1>2. ASSUME NEW q \in Queries, QuerySource(q) PROVE Cookies'
  <2>1. Alone(q)
    BY <1>2, StepIsLocal DEF Types
  <2>2. issued \in Nat /\ issued' \in Nat /\ DOMAIN jars = 1..Len(jars)
        /\ DOMAIN jars' = 1..Len(jars') /\ Len(jars) \in Nat
    BY LenProperties DEF Types, Shared
  <2>3. CASE UNCHANGED <<jars, issued, sent>> /\ ~Holds(q)'
    BY <2>1, <2>2, <2>3, CookiesSpread
  <2>4. CASE QuietOf(q)
    <3>1. Quiet(q)
      BY <2>4, QuietSteps DEF QuietOf
    <3> QED BY <2>3, <3>1 DEF Quiet, Holds
  <2>5. CASE Enter(q)
    <3>1. UNCHANGED <<jars, issued, sent>> /\ (Quiet(q) \/ at'[q] = "acquire")
      BY <2>5, EnterStep
    <3> QED BY <2>3, <3>1 DEF Quiet, Holds
  <2>6. CASE Establish(q)
    <3> DEFINE s == Len(jars')
    <3>1. /\ UNCHANGED sent /\ issued <= issued' /\ Len(jars') = Len(jars) + 1
          /\ at'[q] = "acquire" /\ \A t \in DOMAIN jars : jars'[t] = jars[t]
          /\ Unused(jars', s) \subseteq (issued + 1)..issued'
      BY <2>6, EstablishStep
    <3>2. /\ ~Holds(q)' /\ \A t \in DOMAIN jars \ {s} : Unused(jars', t) = Unused(jars, t)
          /\ DOMAIN jars' \subseteq DOMAIN jars \union {s} /\ s \notin DOMAIN jars
      BY <2>2, <3>1 DEF Holds, Unused
    <3> QED BY <2>1, <3>1, <3>2, CookiesSpread
  <2>7. CASE SpendCookie(q) \/ Refill(q)
    <3>1. /\ UNCHANGED sent /\ issued <= issued' /\ at'[q] # "send" /\ sess[q] \in DOMAIN jars
          /\ Len(jars') = Len(jars)
          /\ Unused(jars', sess[q]) \subseteq Unused(jars, sess[q]) \union (issued + 1)..issued'
          /\ \A t \in DOMAIN jars \ {sess[q]} : Unused(jars', t) = Unused(jars, t)
      BY <2>7, ReturnOfCookies
    <3>2. ~Holds(q)' /\ DOMAIN jars' \subseteq DOMAIN jars \union {sess[q]}
          /\ DOMAIN jars' = DOMAIN jars
      BY <2>2, <3>1 DEF Holds
    <3> QED BY <2>1, <3>1, <3>2, CookiesSpread
  <2>8. CASE Acquire(q)
    <3>1. UNCHANGED <<issued, sent>> /\ Len(jars') = Len(jars) /\ sess[q] \in DOMAIN jars
      BY <2>8, AcquireStep
    <3>2. CASE UNCHANGED jars /\ at'[q] = "idle"
      BY <2>3, <3>1, <3>2 DEF Holds
    <3>3. CASE ~(UNCHANGED jars /\ at'[q] = "idle")
      <4>1. /\ cookie'[q] \in Unused(jars, sess[q]) /\ cookie'[q] \in 1..issued
            /\ Unused(jars', sess[q]) = Unused(jars, sess[q]) \ {cookie'[q]}
            /\ \A t \in DOMAIN jars \ {sess[q]} : Unused(jars', t) = Unused(jars, t)
        BY <2>8, <3>3, AcquireStep
      <4> QED BY <2>1, <2>2, <3>1, <4>1, CookieTaken
    <3> QED BY <3>2, <3>3
  <2>9. CASE Send(q)
    <3>1. UNCHANGED <<jars, issued>> /\ at[q] = "send"
      BY <2>9, SendStep
    <3>2. CASE Quiet(q)
      BY <2>3, <3>2 DEF Quiet, Holds
    <3>3. CASE ~Quiet(q)
      <4>1. /\ at'[q] = "sent" /\ cookie[q] # NoCookie
            /\ sent' = sent (+) SetToBag({cookie[q]})
        BY <2>9, <3>3, SendStep
      <4> QED BY <2>1, <3>1, <4>1, CookieSent DEF Holds
    <3> QED BY <3>2, <3>3
  <2> QED BY <1>2, <2>4, <2>5, <2>6, <2>7, <2>8, <2>9 DEF QuerySource, QuietOf
<1> QED BY <1>1, <1>2 DEF Next

(* CookiesAreSingleUse for any number of queries, endpoints and sessions,  *)
(* any capacity of the jars and any failures: AcquireForRequest gives a    *)
(* cookie away once, and no other copy of it is left to be sent.           *)
THEOREM CookiesAreSentOnce == Spec => []CookiesAreSingleUse
<1>1. Spec => [](Types /\ Cookies)
  <2>1. Init => Types /\ Cookies
    BY TypesStart, CookiesStart
  <2>2. Types /\ Cookies /\ Exchanging /\ [Next]_vars => (Types /\ Cookies)'
    BY TypesKept, CookiesKept
  <2> QED BY <2>1, <2>2, ExchangingIsKept, PTL DEF Spec
<1>2. Cookies => CookiesAreSingleUse
  BY DEF Cookies, CookiesAreSingleUse, BagToSet
<1> QED BY <1>1, <1>2, PTL

-----------------------------------------------------------------------------
(* The supply of cookies.                                                  *)

(* The queries that have been given session s and have not acquired yet.   *)
Going(s) == {q \in Queries : at[q] = "acquire" /\ sess[q] = s}

(* A jar has a cookie for each of them.                                    *)
Supplied ==
    /\ ~starved
    /\ \A s \in DOMAIN jars : Cardinality(Going(s)) <= Count(jars[s], "unused")

FewQueries == Cardinality(Queries) <= LowWatermark + 1

LEMMA GoingIsFinite ==
  ASSUME NEW S \in SUBSET Queries
  PROVE  IsFiniteSet(S) /\ Cardinality(S) \in Nat /\ Cardinality(S) <= Cardinality(Queries)
         /\ Cardinality(Queries) \in Nat
BY QueryAssumption, FS_Subset, FS_CardinalityType

LEMMA CountIsNumber ==
  ASSUME NEW n \in Nat, NEW js \in Seq(Jars(n)), NEW s \in DOMAIN js
  PROVE  /\ IsFiniteSet(Unused(js, s)) /\ Count(js[s], "unused") \in Nat
         /\ Count(js[s], "unused") = Cardinality(Unused(js, s))
<1>1. js[s] \in Jars(n)
  BY ElementOfSeq, LenProperties
<1>2. IsFiniteSet(Unused(js, s))
  BY <1>1, JarType DEF Unused
<1> QED BY <1>2, FS_CardinalityType DEF Count, Unused

(* The other queries are going where they were.                            *)
LEMMA OthersGo ==
  ASSUME NEW q \in Queries, Alone(q), NEW s
  PROVE  /\ Going(s)' \ {q} = Going(s) \ {q}
         /\ at'[q] # "acquire" \/ sess'[q] # s => Going(s)' = Going(s) \ {q}
BY DEF Going, Alone

(* No jar is left with fewer unused cookies, and no query joins.           *)
LEMMA SupplyLasts ==
  ASSUME Types, Types', Supplied, NEW q \in Queries, Alone(q), UNCHANGED starved,
         at'[q] # "acquire", DOMAIN jars' = DOMAIN jars,
         \A s \in DOMAIN jars : Unused(jars, s) \subseteq Unused(jars', s)
  PROVE  Supplied'
<1>1. ASSUME NEW s \in DOMAIN jars
      PROVE  Cardinality(Going(s)') <= Count(jars'[s], "unused")
  <2>1. Going(s)' \subseteq Going(s) /\ Going(s) \in SUBSET Queries
    BY OthersGo DEF Going
  <2>2. /\ Cardinality(Going(s)') <= Cardinality(Going(s))
        /\ Cardinality(Going(s)') \in Nat /\ Cardinality(Going(s)) \in Nat
    BY <2>1, GoingIsFinite, FS_Subset
  <2>3. /\ Count(jars[s], "unused") = Cardinality(Unused(jars, s))
        /\ Count(jars[s], "unused") \in Nat
    BY CountIsNumber DEF Types, Shared
  <2>4. /\ Count(jars'[s], "unused") = Cardinality(Unused(jars', s))
        /\ Count(jars'[s], "unused") \in Nat /\ IsFiniteSet(Unused(jars', s))
    BY CountIsNumber DEF Types, Shared
  <2>5. Cardinality(Unused(jars, s)) <= Cardinality(Unused(jars', s))
    BY <2>4, FS_Subset
  <2>6. Cardinality(Going(s)) <= Count(jars[s], "unused")
    BY DEF Supplied
  <2> HIDE DEF Going
  <2> QED BY <2>2, <2>3, <2>4, <2>5, <2>6
<1> QED BY <1>1 DEF Supplied

LEMMA SupplyKept ==
  ASSUME Types, Types', Exchanging, Supplied, FewQueries, [Next]_vars
  PROVE  Supplied'
<1>1. CASE Tick \/ UNCHANGED vars
  <2>1. UNCHANGED <<at, sess, jars, starved>>
    BY <1>1 DEF Tick, vars, sessions, locals, history
  <2>2. \A s : Going(s)' = Going(s)
    BY <2>1 DEF Going
  <2> QED BY <2>1, <2>2 DEF Supplied
<1>2. ASSUME NEW q \in Queries, QuerySource(q) PROVE Supplied'
  <2>1. Alone(q)
    BY <1>2, StepIsLocal DEF Types
  <2>2. /\ issued \in Nat /\ jars \in Seq(Jars(issued)) /\ DOMAIN jars = 1..Len(jars)
        /\ issued' \in Nat /\ jars' \in Seq(Jars(issued')) /\ DOMAIN jars' = 1..Len(jars')
        /\ Len(jars) \in Nat
    BY LenProperties DEF Types, Shared
  <2>3. /\ \A s \in DOMAIN jars : Count(jars[s], "unused") \in Nat
        /\ \A s \in DOMAIN jars' : Count(jars'[s], "unused") \in Nat
    BY <2>2, CountIsNumber
  <2>4. ASSUME NEW s
        PROVE  Going(s)' \in SUBSET Queries /\ Going(s) \in SUBSET Queries
    BY DEF Going
  <2>5. ~starved /\ \A s \in DOMAIN jars : Cardinality(Going(s)) <= Count(jars[s], "unused")
    BY DEF Supplied
  <2>6. CASE UNCHANGED <<jars, starved>> /\ at'[q] # "acquire"
    BY <2>1, <2>6, SupplyLasts
  <2>7. CASE QuietOf(q)
    <3>1. Quiet(q)
      BY <2>7, QuietSteps DEF QuietOf
    <3> QED BY <2>6, <3>1 DEF Quiet
  <2>8. CASE Enter(q) /\ ~Quiet(q)
    <3>1. /\ UNCHANGED <<jars, starved>> /\ sess'[q] \in DOMAIN jars
          /\ ~NeedsReplenishment(jars[sess'[q]])
      BY <2>8, EnterStep
    <3>2. LowWatermark < Count(jars[sess'[q]], "unused")
      BY <2>3, <3>1, JarAssumption DEF NeedsReplenishment
    <3>3. ASSUME NEW s \in DOMAIN jars
          PROVE  Cardinality(Going(s)') <= Count(jars[s], "unused")
      <4>1. CASE s = sess'[q]
        <5>1. Cardinality(Going(s)') \in Nat /\ Cardinality(Going(s)') <= LowWatermark + 1
          BY <2>4, GoingIsFinite, JarAssumption DEF FewQueries
        <5> HIDE DEF Going
        <5> QED BY <2>3, <3>2, <4>1, <5>1, JarAssumption
      <4>2. CASE s # sess'[q]
        <5>1. Going(s)' \subseteq Going(s)
          BY <2>1, <4>2, OthersGo
        <5>2. Cardinality(Going(s)') <= Cardinality(Going(s))
          BY <2>4, <5>1, GoingIsFinite, FS_Subset
        <5>3. Cardinality(Going(s)') \in Nat /\ Cardinality(Going(s)) \in Nat
          BY <2>4, GoingIsFinite
        <5> HIDE DEF Going
        <5> QED BY <2>3, <2>5, <5>2, <5>3
      <4> QED BY <4>1, <4>2
    <3> QED BY <2>5, <3>1, <3>3 DEF Supplied
  <2>9. CASE Establish(q)
    <3> DEFINE n == Len(jars')
    <3>1. /\ UNCHANGED starved /\ n = Len(jars) + 1 /\ sess'[q] = n
          /\ \A s \in DOMAIN jars : jars'[s] = jars[s]
          /\ issued + 1 \in Unused(jars', n)
      BY <2>9, EstablishStep
    <3>2. ASSUME NEW s \in DOMAIN jars
          PROVE  Cardinality(Going(s)') <= Count(jars'[s], "unused")
      <4>1. s # n /\ jars'[s] = jars[s]
        BY <2>2, <3>1
      <4>2. Going(s)' \subseteq Going(s)
        BY <2>1, <3>1, <4>1, OthersGo
      <4>3. Cardinality(Going(s)') <= Cardinality(Going(s))
        BY <2>4, <4>2, GoingIsFinite, FS_Subset
      <4>4. Cardinality(Going(s)') \in Nat /\ Cardinality(Going(s)) \in Nat
        BY <2>4, GoingIsFinite
      <4> HIDE DEF Going
      <4> QED BY <2>3, <2>5, <4>1, <4>3, <4>4
    <3>3. ASSUME NEW s, s = n
          PROVE  Cardinality(Going(s)') <= Count(jars'[s], "unused")
      <4>1. \A p \in Queries \ {q} : sess'[p] # n
        <5>1. \A p \in Queries \ {q} : sess'[p] = sess[p] /\ sess[p] \in 0..Len(jars)
          BY <2>1 DEF Alone, Types, Has
        <5> QED BY <2>2, <3>1, <5>1
      <4>2. Going(s)' \subseteq {q}
        BY <3>3, <4>1 DEF Going
      <4>3. IsFiniteSet({q}) /\ Cardinality({q}) = 1
        BY FS_Singleton
      <4>4. Cardinality(Going(s)') <= 1 /\ Cardinality(Going(s)') \in Nat
        BY <4>2, <4>3, FS_Subset, FS_CardinalityType
      <4>5. n \in DOMAIN jars'
        BY <2>2, <3>1
      <4>6. /\ Count(jars'[n], "unused") = Cardinality(Unused(jars', n))
            /\ IsFiniteSet(Unused(jars', n)) /\ Count(jars'[n], "unused") \in Nat
        BY <2>2, <4>5, CountIsNumber
      <4>7. Cardinality(Unused(jars', n)) # 0
        BY <3>1, <4>6, FS_EmptySet
      <4> HIDE DEF Going, n
      <4> QED BY <3>3, <4>4, <4>6, <4>7
    <3>4. \A s \in DOMAIN jars' : s \in DOMAIN jars \/ s = n
      BY <2>2, <3>1
    <3> HIDE DEF n
    <3> QED BY <2>5, <3>1, <3>2, <3>3, <3>4 DEF Supplied
  <2>10. CASE SpendCookie(q) \/ Refill(q)
    <3>1. /\ UNCHANGED starved /\ at'[q] # "acquire" /\ Len(jars') = Len(jars)
          /\ Unused(jars, sess[q]) \subseteq Unused(jars', sess[q])
          /\ \A t \in DOMAIN jars \ {sess[q]} : Unused(jars', t) = Unused(jars, t)
      BY <2>10, ReturnOfCookies
    <3> QED BY <2>1, <2>2, <3>1, SupplyLasts
  <2>11. CASE Acquire(q)
    <3> DEFINE s == sess[q]
    <3>1. at[q] = "acquire" /\ s \in DOMAIN jars /\ Len(jars') = Len(jars)
      BY <2>11, AcquireStep
    <3>2. q \in Going(s)
      BY <3>1 DEF Going
    <3>3. /\ IsFiniteSet(Going(s)) /\ Cardinality(Going(s)) \in Nat
          /\ Cardinality(Going(s)) # 0
      BY <2>4, <3>2, GoingIsFinite, FS_EmptySet
    <3>4. Unused(jars, s) # {}
      <4>1. Count(jars[s], "unused") # 0
        <5> HIDE DEF Going, s
        <5> QED BY <2>3, <2>5, <3>1, <3>3
      <4>2. Count(jars[s], "unused") = Cardinality(Unused(jars, s))
        BY <2>2, <3>1, CountIsNumber
      <4> QED BY <4>1, <4>2, FS_EmptySet
    <3>5. /\ UNCHANGED starved /\ at'[q] = "send" /\ cookie'[q] \in Unused(jars, s)
          /\ Unused(jars', s) = Unused(jars, s) \ {cookie'[q]}
          /\ \A t \in DOMAIN jars \ {s} : Unused(jars', t) = Unused(jars, t)
      BY <2>11, <3>4, AcquireStep
    <3>6. ASSUME NEW t \in DOMAIN jars
          PROVE  Cardinality(Going(t)') <= Count(jars'[t], "unused")
      <4>1. Going(t)' = Going(t) \ {q}
        BY <2>1, <3>5, OthersGo
      <4>2. /\ Count(jars[t], "unused") = Cardinality(Unused(jars, t))
            /\ Count(jars'[t], "unused") = Cardinality(Unused(jars', t))
            /\ IsFiniteSet(Unused(jars, t))
        BY <2>2, <3>1, CountIsNumber
      <4>3. Cardinality(Going(t)) <= Cardinality(Unused(jars, t))
        BY <2>5, <4>2
      <4>4. CASE t = s
        <5>1. Cardinality(Going(t)') = Cardinality(Going(t)) - 1
          <6>1. Cardinality(Going(s) \ {q}) = Cardinality(Going(s)) - 1
            <7> HIDE DEF Going, s
            <7> QED BY <3>2, <3>3, FS_RemoveElement
          <6> HIDE DEF Going, s
          <6> QED BY <4>1, <4>4, <6>1
        <5>2. Cardinality(Unused(jars', t)) = Cardinality(Unused(jars, t)) - 1
          BY <3>5, <4>2, <4>4, FS_RemoveElement
        <5>3. Cardinality(Going(t)) \in Nat /\ Cardinality(Unused(jars, t)) \in Nat
          BY <2>3, <2>4, <4>2, GoingIsFinite
        <5> HIDE DEF Going, s
        <5> QED BY <4>2, <4>3, <5>1, <5>2, <5>3
      <4>5. CASE t # s
        <5>1. Cardinality(Going(t)') <= Cardinality(Going(t))
          BY <2>4, <4>1, GoingIsFinite, FS_Subset
        <5>2. Unused(jars', t) = Unused(jars, t)
          BY <3>5, <4>5
        <5>3. /\ Cardinality(Going(t)) \in Nat /\ Cardinality(Going(t)') \in Nat
              /\ Cardinality(Unused(jars, t)) \in Nat
          BY <2>3, <2>4, <4>2, GoingIsFinite
        <5> HIDE DEF Going
        <5> QED BY <4>2, <4>3, <5>1, <5>2, <5>3
      <4> QED BY <4>4, <4>5
    <3> HIDE DEF s
    <3> QED BY <2>2, <2>5, <3>1, <3>5, <3>6 DEF Supplied
  <2>12. CASE Send(q)
    <3>1. UNCHANGED <<jars, starved>> /\ at'[q] # "acquire"
      <4>1. UNCHANGED <<jars, starved>> /\ (Quiet(q) \/ at'[q] = "sent")
        BY <2>12, SendStep
      <4> QED BY <4>1 DEF Quiet
    <3> QED BY <2>6, <3>1
  <2>13. CASE Quiet(q)
    BY <2>6, <2>13 DEF Quiet
  <2> QED BY <1>2, <2>7, <2>8, <2>9, <2>10, <2>11, <2>12, <2>13 DEF QuerySource, QuietOf
<1> QED BY <1>1, <1>2 DEF Next

(* NoStarvation for any number of endpoints and sessions and any watermark *)
(* and capacity: a query that passed NeedsReplenishment, or established    *)
(* the session, finds a cookie, if no more queries run at once than the    *)
(* watermark leaves cookies for, and one more.                             *)
THEOREM CookiesSuffice == Spec => []NoStarvation
<1>1. Spec => [](FewQueries => Supplied)
  <2>1. Init => Types /\ (FewQueries => Supplied)
    BY TypesStart DEF Init, Supplied
  <2>2. Types /\ (FewQueries => Supplied) /\ Exchanging /\ [Next]_vars
           => (Types /\ (FewQueries => Supplied))'
    <3>1. FewQueries' = FewQueries
      BY DEF FewQueries
    <3> QED BY <3>1, TypesKept, SupplyKept
  <2> QED BY <2>1, <2>2, ExchangingIsKept, PTL DEF Spec
<1>2. (FewQueries => Supplied) => NoStarvation
  BY DEF FewQueries, Supplied, NoStarvation
<1> QED BY <1>1, <1>2, PTL

-----------------------------------------------------------------------------
(* Induction up to a bound, and recursion.                                 *)

LEMMA UpTo ==
  ASSUME NEW N \in Nat, NEW S, 0 \in S,
         \A n \in 0..N : n < N /\ n \in S => n + 1 \in S
  PROVE  \A n \in 0..N : n \in S
<1> SUFFICES ASSUME {n \in 0..N : n \notin S} # {} PROVE FALSE
  OBVIOUS
<1> DEFINE T == {n \in 0..N : n \notin S}
<1>1. T \in SUBSET Nat /\ T # {}
  OBVIOUS
<1>2. PICK n \in T : \A m \in T : ~(<<m, n>> \in OpToRel(<, Nat))
  BY <1>1, WFMin, NatLessThanWellFounded, Zenon
<1>3. \A m \in T : ~(m < n)
  BY <1>1, <1>2 DEF OpToRel
<1>4. n \in 0..N /\ n # 0
  OBVIOUS
<1>5. n - 1 \in 0..N /\ n - 1 < N /\ n - 1 < n /\ (n - 1) + 1 = n
  BY <1>4
<1>6. n - 1 \notin T
  BY <1>3, <1>5
<1> QED BY <1>5, <1>6

Recurs(f, N, b, h) == f = [n \in 0..N |-> IF n = 0 THEN b ELSE h[<<f[n - 1], n>>]]

(* A recursive function exists if its step stays within a set.             *)
LEMMA Recursion ==
  ASSUME NEW N \in Nat, NEW S, NEW b \in S, NEW h \in [S \X (1..N) -> S]
  PROVE  \E f \in [0..N -> S] : Recurs(f, N, b, h)
<1> DEFINE F(m, f) == /\ f \in [0..N -> S] /\ f[0] = b
                      /\ \A n \in 1..m : f[n] = h[<<f[n - 1], n>>]
           P == {m \in 0..N : \E f : F(m, f)}
<1>1. 0 \in P
  <2>1. F(0, [n \in 0..N |-> b])
    OBVIOUS
  <2> HIDE DEF F
  <2> QED BY <2>1
<1>2. ASSUME NEW m \in 0..N, m < N, m \in P PROVE m + 1 \in P
  <2>1. PICK f : F(m, f)
    BY <1>2
  <2> DEFINE g == [f EXCEPT ![m + 1] = h[<<f[m], m + 1>>]]
  <2>2. m \in 0..N /\ m + 1 \in 1..N /\ m + 1 \in 0..N
    BY <1>2
  <2>3. h[<<f[m], m + 1>>] \in S
    BY <2>1, <2>2
  <2>4. /\ g \in [0..N -> S] /\ g[m + 1] = h[<<f[m], m + 1>>]
        /\ \A n \in 0..N : n # m + 1 => g[n] = f[n]
    BY <2>1, <2>2, <2>3
  <2> HIDE DEF g
  <2>5. ASSUME NEW n \in 1..(m + 1) PROVE g[n] = h[<<g[n - 1], n>>]
    <3>1. n - 1 \in 0..N /\ n - 1 # m + 1 /\ n \in 0..N
      BY <1>2
    <3>2. CASE n = m + 1
      <4>1. n - 1 = m /\ m # m + 1
        BY <1>2, <3>2
      <4>2. g[n - 1] = f[m]
        BY <2>2, <2>4, <4>1
      <4> QED BY <2>4, <3>2, <4>2
    <3>3. CASE n # m + 1
      <4>1. n \in 1..m
        BY <1>2, <3>3
      <4>2. f[n] = h[<<f[n - 1], n>>]
        BY <2>1, <4>1
      <4> QED BY <2>4, <3>1, <3>3, <4>2
    <3> QED BY <3>2, <3>3
  <2>6. F(m + 1, g)
    BY <2>1, <2>2, <2>4, <2>5
  <2> HIDE DEF F
  <2> QED BY <2>2, <2>6
<1>3. \A m \in 0..N : m \in P
  <2> HIDE DEF P
  <2> QED BY <1>1, <1>2, UpTo
<1>4. PICK f : F(N, f)
  <2>1. N \in P
    <3> HIDE DEF P
    <3> QED BY <1>3
  <2>2. \E f : F(N, f)
    <3> HIDE DEF F
    <3> QED BY <2>1
  <2> QED BY <2>2
<1>5. f = [n \in 0..N |-> IF n = 0 THEN b ELSE h[<<f[n - 1], n>>]]
  <2>1. \A n \in 0..N : f[n] = IF n = 0 THEN b ELSE h[<<f[n - 1], n>>]
    <3>1. \A n \in 0..N : n # 0 => n \in 1..N
      OBVIOUS
    <3> QED BY <1>4, <3>1
  <2> QED BY <1>4, <2>1
<1> QED BY <1>4, <1>5 DEF Recurs

-----------------------------------------------------------------------------
(* Both sides of a leap second.                                            *)

(* The sums of the deltas of a table.                                      *)
Sums(P, table) ==
    /\ P \in [0..Len(table) -> Int] /\ P[0] = 0
    /\ \A n \in 1..Len(table) : P[n] = P[n - 1] + table[n].delta

LEMMA TableTypes ==
  ASSUME NEW table, ValidTable(table)
  PROVE  /\ Len(table) \in Nat /\ DOMAIN table = 1..Len(table)
         /\ \A n \in 1..Len(table) : table[n].at \in Int /\ table[n].delta \in {1, -1}
         /\ \A i, j \in 1..Len(table) : i < j => table[i].at < table[j].at
<1>1. table \in Seq([at : Int, delta : {1, -1}])
  BY DEF ValidTable
<1>2. Len(table) \in Nat /\ DOMAIN table = 1..Len(table)
  BY <1>1, LenProperties
<1>3. \A n \in 1..Len(table) : table[n].at \in Int /\ table[n].delta \in {1, -1}
  <2>1. \A n \in 1..Len(table) : table[n] \in [at : Int, delta : {1, -1}]
    BY <1>1, <1>2, ElementOfSeq
  <2> QED BY <2>1
<1> DEFINE N == Len(table)
           S == {n \in 0..N : \A i \in 1..n : i < n => table[i].at < table[n].at}
<1>4. 0 \in S
  BY <1>2
<1>5. ASSUME NEW n \in 0..N, n < N, n \in S PROVE n + 1 \in S
  <2>1. n + 1 \in 1..N /\ (n + 1 \in 2..N => table[n].at < table[n + 1].at)
    BY <1>2, <1>5 DEF ValidTable
  <2>2. ASSUME NEW i \in 1..(n + 1), i < n + 1 PROVE table[i].at < table[n + 1].at
    <3>1. i \in 1..n /\ i \in 1..N /\ n \in 1..N /\ n + 1 \in 2..N
      BY <1>2, <2>1, <2>2
    <3>2. table[i].at \in Int /\ table[n].at \in Int /\ table[n + 1].at \in Int
      BY <1>3, <2>1, <3>1
    <3>3. CASE i < n
      <4>1. table[i].at < table[n].at /\ table[n].at < table[n + 1].at
        BY <1>5, <2>1, <3>1, <3>3
      <4> HIDE DEF N
      <4> QED BY <3>2, <4>1
    <3>4. CASE ~(i < n)
      <4>1. i = n
        BY <3>1, <3>4
      <4> QED BY <2>1, <3>1, <4>1
    <3> QED BY <3>3, <3>4
  <2> QED BY <2>1, <2>2
<1>6. \A n \in 0..N : n \in S
  <2> HIDE DEF S
  <2> QED BY <1>2, <1>4, <1>5, UpTo
<1>7. ASSUME NEW i \in 1..N, NEW j \in 1..N, i < j PROVE table[i].at < table[j].at
  <2>1. j \in S /\ i \in 1..j
    BY <1>2, <1>6, <1>7
  <2> QED BY <1>7, <2>1
<1> QED BY <1>2, <1>3, <1>7

LEMMA SumsExist ==
  ASSUME NEW table, ValidTable(table)
  PROVE  \E P : Sums(P, table)
<1> DEFINE N == Len(table)
           h == [x \in Int \X (1..N) |-> x[1] + table[x[2]].delta]
<1>1. N \in Nat /\ \A n \in 1..N : table[n].delta \in Int
  BY TableTypes
<1>2. h \in [Int \X (1..N) -> Int]
  BY <1>1
<1>3. \A k \in Int, n \in 1..N : h[<<k, n>>] = k + table[n].delta
  OBVIOUS
<1> HIDE DEF h, N
<1>4. PICK P \in [0..N -> Int] : Recurs(P, N, 0, h)
  <2>1. 0 \in Int
    OBVIOUS
  <2>2. N \in Nat
    BY <1>1
  <2>3. \E P \in [0..N -> Int] : Recurs(P, N, 0, h)
    BY <1>2, <2>1, <2>2, Recursion, Zenon
  <2> QED BY <2>3
<1>5. P[0] = 0
  BY <1>1, <1>4 DEF Recurs
<1>6. ASSUME NEW n \in 1..N PROVE P[n] = P[n - 1] + table[n].delta
  <2>1. n \in 0..N /\ n # 0 /\ n - 1 \in 0..N
    BY <1>1
  <2>2. P[n] = h[<<P[n - 1], n>>] /\ P[n - 1] \in Int
    BY <1>4, <2>1 DEF Recurs
  <2> QED BY <1>3, <2>2
<1>7. Sums(P, table)
  BY <1>5, <1>6 DEF Sums, N
<1> QED BY <1>7

(* The offset at a label is the sum up to the last transition before it.   *)
LEMMA DeltaIsSum ==
  ASSUME NEW table, ValidTable(table), NEW P, Sums(P, table), NEW sec \in Int,
         NEW m \in 0..Len(table), m > 0 => table[m].at <= sec,
         m < Len(table) => sec < table[m + 1].at
  PROVE  DeltaAt(table, sec) = P[m]
<1> DEFINE N == Len(table)
           gain(n) == IF sec >= table[n].at THEN table[n].delta ELSE 0
           F(f) == f = [n \in 0..N |-> IF n = 0 THEN 0 ELSE f[n - 1] + gain(n)]
           h == [x \in Int \X (1..N) |-> x[1] + gain(x[2])]
<1>1. /\ N \in Nat /\ \A n \in 1..N : table[n].at \in Int /\ table[n].delta \in Int
      /\ \A i, j \in 1..N : i < j => table[i].at < table[j].at
  BY TableTypes
<1>2. \A n \in 1..N : gain(n) = IF n <= m THEN table[n].delta ELSE 0
  <2> SUFFICES ASSUME NEW n \in 1..N
               PROVE  gain(n) = IF n <= m THEN table[n].delta ELSE 0
    OBVIOUS
  <2>1. CASE n <= m
    <3>1. m \in 1..N /\ table[m].at <= sec /\ table[m].at \in Int /\ table[n].at \in Int
      BY <1>1, <2>1
    <3>2. table[n].at <= table[m].at
      BY <1>1, <2>1, <3>1
    <3>3. sec >= table[n].at
      BY <3>1, <3>2
    <3> QED BY <2>1, <3>3
  <2>2. CASE ~(n <= m)
    <3>1. m + 1 \in 1..N /\ m + 1 <= n /\ m < N
      BY <1>1, <2>2
    <3>2. table[m + 1].at \in Int /\ table[n].at \in Int /\ sec < table[m + 1].at
      BY <1>1, <3>1
    <3>3. table[m + 1].at <= table[n].at
      BY <1>1, <3>1, <3>2
    <3>4. ~(sec >= table[n].at)
      BY <3>2, <3>3
    <3> QED BY <2>2, <3>4
  <2> QED BY <2>1, <2>2
<1>3. \A n \in 1..N : gain(n) \in Int
  BY <1>1, <1>2
<1> HIDE DEF gain
<1>4. \E f : F(f)
  <2>1. h \in [Int \X (1..N) -> Int] /\ \A k \in Int, n \in 1..N : h[<<k, n>>] = k + gain(n)
    BY <1>3
  <2> HIDE DEF h, N
  <2>2. PICK f \in [0..N -> Int] : Recurs(f, N, 0, h)
    <3>1. 0 \in Int
      OBVIOUS
    <3>2. N \in Nat
      BY <1>1
    <3>3. \E f \in [0..N -> Int] : Recurs(f, N, 0, h)
      BY <2>1, <3>1, <3>2, Recursion, Zenon
    <3> QED BY <3>3
  <2>3. \A n \in 0..N : n # 0 => f[n - 1] \in Int /\ n \in 1..N
    BY <1>1
  <2>4. F(f)
    BY <2>1, <2>2, <2>3 DEF Recurs
  <2> QED BY <2>4
<1> DEFINE f == CHOOSE g : F(g)
<1>5. F(f)
  <2> HIDE DEF F
  <2> QED BY <1>4
<1>6. DeltaAt(table, sec) = f[N]
  BY DEF DeltaAt, gain
<1> HIDE DEF f
<1> DEFINE S == {n \in 0..N : f[n] = IF n <= m THEN P[n] ELSE P[m]}
<1>7. P \in [0..N -> Int] /\ P[0] = 0 /\ \A n \in 1..N : P[n] = P[n - 1] + table[n].delta
  BY DEF Sums
<1>8. 0 \in S
  BY <1>1, <1>5, <1>7
<1>9. ASSUME NEW n \in 0..N, n < N, n \in S PROVE n + 1 \in S
  <2>1. n + 1 \in 1..N /\ n + 1 \in 0..N /\ (n + 1) - 1 = n /\ n + 1 # 0
    BY <1>1, <1>9
  <2>2. f[n + 1] = f[n] + gain(n + 1)
    BY <1>5, <2>1
  <2>3. CASE n + 1 <= m
    <3>1. f[n] = P[n] /\ gain(n + 1) = table[n + 1].delta
      BY <1>1, <1>2, <1>9, <2>1, <2>3
    <3> QED BY <1>7, <2>1, <2>2, <2>3, <3>1
  <2>4. CASE ~(n + 1 <= m)
    <3>1. f[n] = P[m] /\ gain(n + 1) = 0 /\ P[m] \in Int
      <4>1. CASE n = m
        BY <1>1, <1>2, <1>7, <1>9, <2>1, <2>4, <4>1
      <4>2. CASE n # m
        <5>1. ~(n <= m)
          BY <2>4, <4>2
        <5> QED BY <1>1, <1>2, <1>7, <1>9, <2>1, <2>4, <5>1
      <4> QED BY <4>1, <4>2
    <3> QED BY <2>1, <2>2, <2>4, <3>1
  <2> QED BY <2>3, <2>4
<1>10. N \in S
  <2> HIDE DEF S
  <2>1. \A n \in 0..N : n \in S
    BY <1>1, <1>8, <1>9, UpTo
  <2> QED BY <1>1, <2>1
<1>11. N <= m => m = N
  BY <1>1
<1> QED BY <1>6, <1>10, <1>11

(***************************************************************************)
(* What the walk along the table's first n entries has found for second s  *)
(* of the GST axis: the second is not before the m-th transition, the last *)
(* whose delta counts; and either it is before the next one, and before    *)
(* the second that one inserts or deletes, or it is the second inserted.   *)
(***************************************************************************)
Found(table, P, s, n, m, acc) ==
    /\ m \in 0..n /\ (m > 0 => table[m].at + P[m] <= s)
    /\ \/ /\ acc.leap = NoTime /\ acc.delta = P[m]
          /\ m < n => s < table[m + 1].at + P[m] + IF table[m + 1].delta = 1 THEN 0 ELSE -1
       \/ /\ m < n /\ table[m + 1].delta = 1
          /\ s = table[m + 1].at + P[m] /\ acc.leap = table[m + 1].at - 1

Walked == [delta : Int, leap : Int \union {NoTime}]

LEMMA WalkIsTyped ==
  ASSUME NEW acc \in Walked, NEW e, e.at \in Int, e.delta \in Int, NEW s \in Int
  PROVE  Walk(acc, e, s) \in Walked
<1>1. acc.delta \in Int
  BY DEF Walked
<1>2. e.at - 1 \in Int /\ acc.delta + e.delta \in Int
  BY <1>1
<1> QED BY <1>2 DEF Walk, Walked

(* One more entry.                                                         *)
LEMMA WalkFinds ==
  ASSUME NEW table, ValidTable(table), NEW P, Sums(P, table), NEW s \in Int,
         NEW n \in 0..Len(table), n < Len(table), NEW acc \in Walked,
         NEW m, Found(table, P, s, n, m, acc)
  PROVE  \E k \in {m, m + 1} :
            Found(table, P, s, n + 1, k, Walk(acc, table[n + 1], s))
<1> DEFINE N == Len(table)
           e == table[n + 1]
           new == Walk(acc, e, s)
<1>1. /\ N \in Nat /\ \A i \in 1..N : table[i].at \in Int /\ table[i].delta \in {1, -1}
      /\ \A i, j \in 1..N : i < j => table[i].at < table[j].at
  BY TableTypes
<1>2. P \in [0..N -> Int] /\ \A i \in 1..N : P[i] = P[i - 1] + table[i].delta
  BY DEF Sums
<1>3. m \in 0..n /\ m \in 0..N /\ P[m] \in Int /\ (m > 0 => table[m].at + P[m] <= s)
  <2>1. m \in 0..n /\ (m > 0 => table[m].at + P[m] <= s)
    BY DEF Found
  <2>2. m \in 0..N
    BY <1>1, <2>1
  <2> QED BY <1>2, <2>1, <2>2
<1>4. n + 1 \in 1..N /\ e.at \in Int /\ e.delta \in {1, -1} /\ m \in 0..(n + 1)
  BY <1>1, <1>3
<1>5. CASE acc.leap # NoTime
  <2>1. new = acc
    BY <1>5 DEF Walk
  <2>2. /\ m < n /\ table[m + 1].delta = 1
        /\ s = table[m + 1].at + P[m] /\ acc.leap = table[m + 1].at - 1
    BY <1>5 DEF Found
  <2>3. m < n + 1
    BY <1>3, <2>2
  <2> QED BY <1>3, <1>4, <2>1, <2>2, <2>3 DEF Found
<1>6. CASE acc.leap = NoTime
  <2>1. /\ acc.delta = P[m]
        /\ m < n => s < table[m + 1].at + P[m] + IF table[m + 1].delta = 1 THEN 0 ELSE -1
    <3>1. m < n => table[m + 1].at \in Int
      BY <1>1, <1>3
    <3>2. m < n => acc.leap # table[m + 1].at - 1
      BY <1>6, <3>1, LeapAssumption
    <3>3. \/ /\ acc.leap = NoTime /\ acc.delta = P[m]
             /\ m < n => s < table[m + 1].at + P[m] + IF table[m + 1].delta = 1 THEN 0 ELSE -1
          \/ m < n /\ acc.leap = table[m + 1].at - 1
      BY Zenon DEF Found
    <3> QED BY <3>2, <3>3, Zenon
  <2>2. CASE m < n
    <3>1. m + 1 \in 1..N /\ table[m + 1].at \in Int /\ table[m + 1].at < e.at
      <4>1. m + 1 \in 1..N /\ m + 1 < n + 1
        BY <1>1, <1>3, <2>2
      <4> QED BY <1>1, <1>4, <4>1
    <3> DEFINE a == table[m + 1].at
               b == e.at
               p == P[m]
               d == e.delta
    <3>2. s < a + p
      <4>1. s < a + p + IF table[m + 1].delta = 1 THEN 0 ELSE -1
        BY <2>1, <2>2
      <4>2. a \in Int /\ p \in Int
        BY <1>3, <3>1
      <4> HIDE DEF a, p
      <4> QED BY <4>1, <4>2
    <3>3. a \in Int /\ b \in Int /\ p \in Int /\ d \in {1, -1} /\ a < b
      BY <1>3, <1>4, <3>1
    <3>4. s # b + p /\ ~(s >= b + p + d)
      <4> HIDE DEF a, b, p, d
      <4> QED BY <3>2, <3>3
    <3>5. new = acc
      <4>1. acc = [acc EXCEPT !.delta = acc.delta]
        BY DEF Walked
      <4> QED BY <1>6, <2>1, <3>4, <4>1 DEF Walk
    <3>6. m < n + 1
      BY <1>3, <2>2
    <3> QED BY <1>3, <1>4, <1>6, <2>1, <2>2, <3>5, <3>6 DEF Found
  <2>3. CASE m = n
    <3> DEFINE b == e.at
               p == P[m]
               d == e.delta
    <3>1. b \in Int /\ p \in Int /\ d \in {1, -1} /\ acc.delta = p
      BY <1>3, <1>4, <2>1
    <3>2. P[m + 1] = p + d /\ m < n + 1 /\ m + 1 \in 0..(n + 1) /\ ~(m + 1 < n + 1)
      <4>1. P[n + 1] = P[(n + 1) - 1] + table[n + 1].delta
        BY <1>2, <1>4
      <4>2. (n + 1) - 1 = n
        BY <1>4
      <4> QED BY <1>3, <2>3, <4>1, <4>2
    <3>3. CASE d = 1 /\ s = b + p
      <4>1. new.leap = b - 1
        BY <1>6, <3>1, <3>3 DEF Walk, Walked
      <4> QED BY <1>3, <1>4, <2>3, <3>2, <3>3, <4>1 DEF Found
    <3>4. CASE ~(d = 1 /\ s = b + p) /\ s >= b + p + d
      <4>1. new.leap = NoTime /\ new.delta = p + d
        BY <1>6, <3>1, <3>4 DEF Walk, Walked
      <4>2. m + 1 > 0 /\ b + (p + d) <= s
        <5> HIDE DEF b, p, d
        <5> QED BY <1>3, <3>1, <3>4
      <4>3. table[m + 1].at + P[m + 1] <= s
        BY <2>3, <3>2, <4>2
      <4> QED BY <3>2, <4>1, <4>3 DEF Found
    <3>5. CASE ~(d = 1 /\ s = b + p) /\ ~(s >= b + p + d)
      <4>1. new.leap = NoTime /\ new.delta = p
        BY <1>6, <3>1, <3>5 DEF Walk, Walked
      <4>2. s < b + p + IF d = 1 THEN 0 ELSE -1
        <5> HIDE DEF b, p, d
        <5> QED BY <3>1, <3>5
      <4> QED BY <1>3, <1>4, <2>3, <4>1, <4>2 DEF Found
    <3> QED BY <3>3, <3>4, <3>5
  <2> QED BY <1>3, <2>2, <2>3
<1> QED BY <1>5, <1>6

(* The label of an instant: of the second that has been found, or of the   *)
(* inserted one.                                                           *)
LabelOf(table, P, s, rest, m, utc) ==
    /\ m \in 0..Len(table) /\ (m > 0 => table[m].at + P[m] <= s)
    /\ \/ /\ utc = Label(s - P[m], FALSE, rest)
          /\ m < Len(table) => s < table[m + 1].at + P[m]
       \/ /\ m < Len(table) /\ table[m + 1].delta = 1
          /\ s = table[m + 1].at + P[m] /\ utc = Label(table[m + 1].at - 1, TRUE, rest)

LEMMA UtcIsFound ==
  ASSUME NEW table, ValidTable(table), NEW P, Sums(P, table), NEW inst \in Int
  PROVE  \E m : LabelOf(table, P, inst \div Sec, inst % Sec, m, GstInstantToUtc(table, inst))
<1> DEFINE N == Len(table)
           s == inst \div Sec
           F(f) == f = [n \in 0..N |-> IF n = 0 THEN [delta |-> 0, leap |-> NoTime]
                                       ELSE Walk(f[n - 1], table[n], s)]
           h == [x \in Walked \X (1..N) |-> Walk(x[1], table[x[2]], s)]
           start == [delta |-> 0, leap |-> NoTime]
<1>1. /\ N \in Nat /\ \A n \in 1..N : table[n].at \in Int /\ table[n].delta \in {1, -1}
      /\ s \in Int /\ P \in [0..N -> Int] /\ P[0] = 0
  BY TableTypes, LeapAssumption DEF Sums
<1>2. start \in Walked
  BY DEF Walked
<1>3. \A acc \in Walked, n \in 1..N : Walk(acc, table[n], s) \in Walked
  <2>1. \A n \in 1..N : table[n].at \in Int /\ table[n].delta \in Int
    BY <1>1
  <2> HIDE DEF N, s
  <2> QED BY <1>1, <2>1, WalkIsTyped
<1>4. \E f \in [0..N -> Walked] : F(f)
  <2>1. /\ h \in [Walked \X (1..N) -> Walked]
        /\ \A acc \in Walked, n \in 1..N : h[<<acc, n>>] = Walk(acc, table[n], s)
    BY <1>3
  <2> HIDE DEF h, s
  <2>2. \E f \in [0..N -> Walked] : Recurs(f, N, start, h)
    BY <1>1, <1>2, <2>1, Recursion, Zenon
  <2>3. PICK f \in [0..N -> Walked] : Recurs(f, N, start, h)
    BY <2>2
  <2>4. \A n \in 0..N : n # 0 => f[n - 1] \in Walked /\ n \in 1..N
    BY <1>1
  <2>5. F(f)
    BY <2>1, <2>3, <2>4 DEF Recurs
  <2> QED BY <2>5
<1> DEFINE f == CHOOSE g : F(g)
<1>5. F(f)
  <2> HIDE DEF F
  <2> QED BY <1>4
<1>6. GstInstantToUtc(table, inst) =
         IF f[N].leap # NoTime THEN Label(f[N].leap, TRUE, inst % Sec)
         ELSE Label(s - f[N].delta, FALSE, inst % Sec)
  BY DEF GstInstantToUtc
<1> HIDE DEF f
<1> DEFINE S == {n \in 0..N : f[n] \in Walked /\ \E m : Found(table, P, s, n, m, f[n])}
<1>7. 0 \in S
  <2>1. f[0] = start /\ 0 \in 0..N
    BY <1>1, <1>5
  <2>2. Found(table, P, s, 0, 0, start)
    BY <1>1 DEF Found
  <2> QED BY <1>2, <2>1, <2>2
<1>8. ASSUME NEW n \in 0..N, n < N, n \in S PROVE n + 1 \in S
  <2>1. n + 1 \in 1..N /\ n + 1 \in 0..N /\ (n + 1) - 1 = n /\ n + 1 # 0
    BY <1>1, <1>8
  <2>2. f[n + 1] = Walk(f[n], table[n + 1], s)
    BY <1>5, <2>1
  <2>3. PICK m : Found(table, P, s, n, m, f[n])
    BY <1>8
  <2>4. f[n + 1] \in Walked
    BY <1>3, <1>8, <2>1, <2>2
  <2>5. \E k \in {m, m + 1} : Found(table, P, s, n + 1, k, f[n + 1])
    BY <1>1, <1>8, <2>2, <2>3, WalkFinds
  <2> QED BY <2>1, <2>4, <2>5
<1>9. N \in S
  <2> HIDE DEF S
  <2>1. \A n \in 0..N : n \in S
    BY <1>1, <1>7, <1>8, UpTo
  <2> QED BY <1>1, <2>1
<1>10. PICK m : Found(table, P, s, N, m, f[N])
  BY <1>9
<1>11. m \in 0..N /\ P[m] \in Int /\ (m < N => table[m + 1].at \in Int /\ m + 1 \in 1..N)
  BY <1>1, <1>10 DEF Found
<1>12. CASE f[N].leap = NoTime
  <2>1. f[N].delta = P[m]
        /\ (m < N => s < table[m + 1].at + P[m] + IF table[m + 1].delta = 1 THEN 0 ELSE -1)
    <3>1. m < N => table[m + 1].at - 1 # NoTime
      BY <1>11, LeapAssumption
    <3> QED BY <1>10, <1>12, <3>1 DEF Found
  <2>2. m < N => s < table[m + 1].at + P[m]
    <3>1. \A a, p, t \in Int : t < a + p + 0 \/ t < a + p + (-1) => t < a + p
      OBVIOUS
    <3> QED BY <1>1, <1>11, <2>1, <3>1
  <2>3. GstInstantToUtc(table, inst) = Label(s - P[m], FALSE, inst % Sec)
    BY <1>6, <1>12, <2>1
  <2>4. m > 0 => table[m].at + P[m] <= s
    BY <1>10 DEF Found
  <2> QED BY <1>11, <2>2, <2>3, <2>4 DEF LabelOf
<1>13. CASE f[N].leap # NoTime
  <2>1. /\ m < N /\ table[m + 1].delta = 1
        /\ s = table[m + 1].at + P[m] /\ f[N].leap = table[m + 1].at - 1
    BY <1>10, <1>13 DEF Found
  <2>2. GstInstantToUtc(table, inst) = Label(table[m + 1].at - 1, TRUE, inst % Sec)
    BY <1>6, <1>13, <2>1
  <2>3. m > 0 => table[m].at + P[m] <= s
    BY <1>10 DEF Found
  <2> QED BY <1>11, <2>1, <2>2, <2>3 DEF LabelOf
<1> QED BY <1>12, <1>13

LEMMA SecondsAndRest ==
  ASSUME NEW S \in Nat \ {0}, NEW inst \in Int, NEW d, d = inst \div S, NEW r, r = inst % S
  PROVE  d \in Int /\ r \in 0..(S - 1) /\ inst = d * S + r
<1>1. d \in Int /\ r \in 0..(S - 1) /\ r \in Int
  OBVIOUS
<1> QED BY <1>1

LEMMA SecondOf ==
  ASSUME NEW S \in Nat \ {0}, NEW a \in Int, NEW r \in 0..(S - 1)
  PROVE  (a * S + r) \div S = a
OBVIOUS

(* A label names one instant, and POSIX time is converted back to the      *)
(* instant it came from or rejected, for every valid table.                *)
LEMMA ConversionsAgree ==
  ASSUME NEW table, ValidTable(table), NEW inst \in Int
  PROVE  /\ UtcToGstInstant(table, GstInstantToUtc(table, inst)) = inst
         /\ UnixNanosToGstInstant(table, GstInstantToUnixProjection(table, inst).nanos)
               \in {inst, NoTime}
<1> DEFINE N == Len(table)
           s == inst \div Sec
           r == inst % Sec
           utc == GstInstantToUtc(table, inst)
<1>1. /\ N \in Nat /\ DOMAIN table = 1..N
      /\ \A n \in 1..N : table[n].at \in Int /\ table[n].delta \in {1, -1}
      /\ \A i, j \in 1..N : i < j => table[i].at < table[j].at
  BY TableTypes
<1>2. Sec \in Nat \ {0} /\ s \in Int /\ r \in 0..(Sec - 1) /\ inst = s * Sec + r
  BY LeapAssumption, SecondsAndRest
<1>3. PICK P : Sums(P, table)
  BY SumsExist
<1>4. PICK m : LabelOf(table, P, s, r, m, utc)
  BY <1>3, UtcIsFound
<1>5. GstInstantToUnixProjection(table, inst).nanos = utc.sec * Sec + utc.nanos
  BY DEF GstInstantToUnixProjection
<1> HIDE DEF utc, s, r
<1>6. m \in 0..N /\ P[m] \in Int /\ (m > 0 => table[m].at + P[m] <= s)
  BY <1>3, <1>4 DEF LabelOf, Sums
<1>7. CASE utc.leap
  <2>1. /\ m < N /\ table[m + 1].delta = 1 /\ s = table[m + 1].at + P[m]
        /\ utc = Label(table[m + 1].at - 1, TRUE, r)
    BY <1>4, <1>7 DEF LabelOf, Label
  <2> DEFINE sec == table[m + 1].at - 1
  <2>2. m + 1 \in 1..N /\ table[m + 1].at \in Int /\ sec \in Int /\ sec + 1 = table[m + 1].at
    BY <1>1, <1>6, <2>1
  <2>3. utc.sec = sec /\ utc.nanos = r /\ utc.leap
    BY <2>1 DEF Label
  <2>4. DeltaAt(table, sec) = P[m]
    <3>1. m > 0 => table[m].at <= sec
      <4> SUFFICES ASSUME m > 0 PROVE table[m].at <= sec
        OBVIOUS
      <4>1. m \in 1..N /\ m < m + 1
        BY <1>6
      <4>2. table[m].at < table[m + 1].at /\ table[m].at \in Int
        BY <1>1, <2>2, <4>1
      <4> QED BY <2>2, <4>2
    <3>2. sec < table[m + 1].at
      BY <2>2
    <3> HIDE DEF sec
    <3> QED BY <1>3, <1>6, <2>2, <3>1, <3>2, DeltaIsSum
  <2>5. \E i \in DOMAIN table : table[i].at = utc.sec + 1 /\ table[i].delta = 1
    BY <1>1, <2>1, <2>2, <2>3
  <2> HIDE DEF sec
  <2>6. UtcToGstInstant(table, utc) = inst
    <3>1. UtcToGstInstant(table, utc) = (sec + 1 + DeltaAt(table, sec)) * Sec + r
      BY <2>3, <2>5 DEF UtcToGstInstant
    <3>2. sec + 1 + DeltaAt(table, sec) = s
      BY <1>6, <2>1, <2>2, <2>4
    <3> QED BY <1>2, <3>1, <3>2
  <2>7. UnixNanosToGstInstant(table, utc.sec * Sec + utc.nanos) = NoTime
    <3>1. (sec * Sec + r) \div Sec = sec
      BY <1>2, <2>2, SecondOf
    <3>2. m + 1 \in DOMAIN table /\ sec = table[m + 1].at - 1
      BY <1>1, <2>2
    <3> QED BY <2>3, <3>1, <3>2 DEF UnixNanosToGstInstant
  <2> QED BY <1>5, <2>6, <2>7 DEF utc
<1>8. CASE ~utc.leap
  <2>1. /\ utc = Label(s - P[m], FALSE, r)
        /\ m < N => s < table[m + 1].at + P[m]
    BY <1>4, <1>8 DEF LabelOf, Label
  <2> DEFINE sec == s - P[m]
  <2>2. utc.sec = sec /\ utc.nanos = r /\ ~utc.leap /\ sec \in Int
    BY <1>2, <1>6, <2>1 DEF Label
  <2>3. DeltaAt(table, sec) = P[m]
    <3>1. m > 0 => table[m].at <= sec
      <4>1. m > 0 => m \in 1..N
        BY <1>6
      <4>2. m > 0 => table[m].at \in Int
        BY <1>1, <4>1
      <4>3. \A a, p, t \in Int : a + p <= t => a <= t - p
        OBVIOUS
      <4> QED BY <1>2, <1>6, <4>2, <4>3
    <3>2. m < N => sec < table[m + 1].at
      <4>1. m < N => m + 1 \in 1..N
        BY <1>1, <1>6
      <4>2. m < N => table[m + 1].at \in Int
        BY <1>1, <4>1
      <4> QED BY <1>2, <1>6, <2>1, <4>2
    <3> HIDE DEF sec
    <3> QED BY <1>3, <1>6, <2>2, <3>1, <3>2, DeltaIsSum
  <2>4. sec + P[m] = s
    BY <1>2, <1>6
  <2> HIDE DEF sec
  <2>5. UtcToGstInstant(table, utc) = inst
    BY <1>2, <2>2, <2>3, <2>4 DEF UtcToGstInstant
  <2>6. UnixNanosToGstInstant(table, utc.sec * Sec + utc.nanos) \in {inst, NoTime}
    <3>1. (sec * Sec + r) \div Sec = sec
      BY <1>2, <2>2, SecondOf
    <3>2. UnixNanosToGstInstant(table, sec * Sec + r)
             \in {sec * Sec + r + P[m] * Sec, NoTime}
      BY <2>3, <3>1 DEF UnixNanosToGstInstant
    <3>3. sec * Sec + r + P[m] * Sec = inst
      <4>1. \A a, b, c, k \in Int : a * c + k + b * c = (a + b) * c + k
        OBVIOUS
      <4>2. r \in Int /\ Sec \in Int
        BY <1>2
      <4>3. sec * Sec + r + P[m] * Sec = (sec + P[m]) * Sec + r
        BY <1>6, <2>2, <4>1, <4>2
      <4> QED BY <1>2, <2>4, <4>3
    <3> QED BY <2>2, <3>2, <3>3
  <2> QED BY <1>5, <2>5, <2>6 DEF utc
<1> QED BY <1>7, <1>8

(* True time is an integer, and the scenario one of those assumed.         *)
Placed == site \in Scenarios /\ timeline \in Seq(Int) /\ Len(timeline) > 0

(* No query moves the clocks.                                              *)
LEMMA QueriesKeepWorld ==
  ASSUME NEW q \in Queries, QuerySource(q)
  PROVE  UNCHANGED world
<1>1. CASE QueryNTP(q) \/ QueryNTS(q) \/ Establish(q) \/ FailKE(q) \/ Fail(q) \/ Refuse(q)
  BY <1>1 DEF QueryNTP, QueryNTS, Establish, FailKE, Fail, Refuse
<1>2. CASE Enter(q)
  BY <1>2 DEF Enter
<1>3. CASE Read(q)
  BY <1>3 DEF Read
<1>4. CASE Acquire(q)
  BY <1>4, AcquireKeeps, Zenon
<1>5. CASE Send(q)
  BY <1>5, SendKeeps, Zenon
<1>6. CASE ServerReceive(q) \/ ServerReply(q)
  BY <1>6, ServerKeeps, Zenon
<1>7. CASE Receive(q)
  BY <1>7 DEF Receive
<1>8. CASE SpendCookie(q) \/ Refill(q)
  BY <1>8 DEF SpendCookie, Refill
<1>9. CASE Measure(q)
  BY <1>9, MeasureKeeps, Zenon
<1> QED BY <1>1, <1>2, <1>3, <1>4, <1>5, <1>6, <1>7, <1>8, <1>9 DEF QuerySource

LEMMA PlacedIsKept == Spec => []Placed
<1>1. Init => Placed
  BY QueryAssumption DEF Init, Placed
<1>2. Placed /\ [Next]_vars => Placed'
  <2> SUFFICES ASSUME Placed, [Next]_vars PROVE Placed'
    OBVIOUS
  <2>1. CASE UNCHANGED world
    BY <2>1 DEF world, Placed
  <2>2. CASE Tick
    <3>1. PICK d \in 0..2 : timeline' = Append(timeline, truth + d)
      BY <2>2 DEF Tick
    <3>2. site' = site
      BY <2>2 DEF Tick
    <3>3. truth \in Int
      BY ElementOfSeq, LenProperties DEF Placed, truth
    <3>4. truth + d \in Int
      BY <3>3
    <3>5. timeline' \in Seq(Int) /\ Len(timeline') > 0
      BY <3>1, <3>4 DEF Placed
    <3> QED BY <3>2, <3>5 DEF Placed
  <2>3. ASSUME NEW q \in Queries, QuerySource(q) PROVE UNCHANGED world
    BY <2>3, QueriesKeepWorld
  <2> QED BY <2>1, <2>2, <2>3 DEF Next, vars
<1> QED BY <1>1, <1>2, PTL DEF Spec

(* ConversionsInvert for every table that NewLeapHistory accepts and every *)
(* instant: GstInstantToUtc's walk stops where UtcToGstInstant's sum does, *)
(* on both sides of every inserted and deleted second.                     *)
THEOREM ConversionsAgreeEverywhere == Spec => []ConversionsInvert
<1>1. Placed => ConversionsInvert
  <2> SUFFICES ASSUME Placed PROVE ConversionsInvert
    OBVIOUS
  <2>1. ValidTable(site.table)
    BY QueryAssumption DEF Placed
  <2>2. truth \in Int
    BY ElementOfSeq, LenProperties DEF Placed, truth
  <2> QED BY <2>1, <2>2, ConversionsAgree DEF ConversionsInvert
<1> QED BY <1>1, PlacedIsKept, PTL

-----------------------------------------------------------------------------
(* Behind the last leap second of a table, POSIX time is a constant behind *)
(* the GST axis.                                                           *)

(* The sum of all deltas of a table; a table behind an instant.            *)
Total(table) == IF table = <<>> THEN 0 ELSE DeltaAt(table, table[Len(table)].at)

Behind(table, inst) ==
    \A i \in DOMAIN table : (table[i].at + 1 + Total(table)) * Sec <= inst

LEMMA SecondReached ==
  ASSUME NEW S \in Nat \ {0}, NEW inst \in Int, NEW k \in Int
  PROVE  k * S <= inst <=> k <= inst \div S
<1> DEFINE d == inst \div S
           r == inst % S
<1>1. d \in Int /\ r \in 0..(S - 1) /\ inst = d * S + r
  BY SecondsAndRest
<1> HIDE DEF d, r
<1>2. CASE k <= d
  <2>1. k * S <= d * S
    BY <1>1, <1>2
  <2>2. k * S \in Int /\ d * S \in Int
    BY <1>1
  <2> QED BY <1>1, <1>2, <2>1, <2>2 DEF d
<1>3. CASE ~(k <= d)
  <2>1. k >= d + 1
    BY <1>1, <1>3
  <2>2. k * S >= (d + 1) * S
    BY <1>1, <2>1
  <2>3. (d + 1) * S = d * S + S
    BY <1>1
  <2>4. k * S \in Int /\ d * S \in Int
    BY <1>1
  <2> QED BY <1>1, <1>3, <2>2, <2>3, <2>4 DEF d
<1> QED BY <1>2, <1>3

LEMMA LateDelta ==
  ASSUME NEW table, ValidTable(table), NEW P, Sums(P, table), NEW sec \in Int,
         \A i \in DOMAIN table : table[i].at <= sec
  PROVE  DeltaAt(table, sec) = P[Len(table)]
<1> DEFINE N == Len(table)
<1>1. N \in Nat /\ DOMAIN table = 1..N
  BY TableTypes
<1>2. N \in 0..N /\ (N > 0 => N \in 1..N)
  BY <1>1
<1>3. N > 0 => table[N].at <= sec
  BY <1>1, <1>2
<1> QED BY <1>2, <1>3, DeltaIsSum

LEMMA TotalIsSum ==
  ASSUME NEW table, ValidTable(table), NEW P, Sums(P, table)
  PROVE  Total(table) = P[Len(table)] /\ Total(table) \in Int
<1> DEFINE N == Len(table)
<1>1. /\ N \in Nat /\ DOMAIN table = 1..N
      /\ \A n \in 1..N : table[n].at \in Int
      /\ \A i, j \in 1..N : i < j => table[i].at < table[j].at
  BY TableTypes
<1>2. P \in [0..N -> Int] /\ P[0] = 0
  BY DEF Sums
<1>3. CASE N = 0
  <2>1. table = <<>>
    BY <1>3 DEF ValidTable
  <2> QED BY <1>2, <1>3, <2>1 DEF Total
<1>4. CASE N # 0
  <2>1. N \in 1..N /\ table # <<>>
    BY <1>1, <1>4
  <2>2. \A i \in 1..N : table[i].at <= table[N].at
    <3> HIDE DEF N
    <3>1. \A i \in 1..N : i < N \/ i = N
      BY <1>1
    <3>2. \A i \in 1..N : i < N => table[i].at < table[N].at
      BY <1>1, <2>1
    <3>3. \A i \in 1..N : table[i].at \in Int
      BY <1>1
    <3> QED BY <2>1, <3>1, <3>2, <3>3
  <2>3. DeltaAt(table, table[N].at) = P[N]
    BY <1>1, <2>1, <2>2, LateDelta
  <2> QED BY <1>1, <1>2, <2>1, <2>3 DEF Total
<1> QED BY <1>3, <1>4

(* Transitions are ordered on the GST axis too.                            *)
LEMMA EdgesInOrder ==
  ASSUME NEW table, ValidTable(table), NEW P, Sums(P, table), NEW m \in 1..Len(table)
  PROVE  table[m].at + P[m] <= table[Len(table)].at + P[Len(table)]
<1> DEFINE N == Len(table)
           edge(i) == table[i].at + P[i]
           S == {n \in 0..N : m <= n => edge(m) <= edge(n)}
<1>1. /\ N \in Nat /\ P \in [0..N -> Int]
      /\ \A n \in 1..N : table[n].at \in Int /\ table[n].delta \in {1, -1}
      /\ \A i, j \in 1..N : i < j => table[i].at < table[j].at
      /\ \A n \in 1..N : P[n] = P[n - 1] + table[n].delta
  BY TableTypes DEF Sums
<1>2. \A n \in 1..N : edge(n) \in Int
  <2> TAKE n \in 1..N
  <2>1. table[n].at \in Int /\ P[n] \in Int
    BY <1>1
  <2> QED BY <2>1
<1>3. 0 \in S
  BY <1>1
<1>4. ASSUME NEW n \in 0..N, n < N, n \in S PROVE n + 1 \in S
  <2>1. n + 1 \in 0..N /\ n + 1 \in 1..N /\ (n + 1) - 1 = n
    BY <1>1, <1>4
  <2>2. CASE m = n + 1
    BY <1>2, <2>1, <2>2
  <2>3. CASE m <= n
    <3>1. n \in 1..N /\ n < n + 1
      BY <1>1, <2>3
    <3>2. table[n].at < table[n + 1].at /\ P[n + 1] = P[n] + table[n + 1].delta
      BY <1>1, <2>1, <3>1
    <3>3. /\ table[n].at \in Int /\ table[n + 1].at \in Int /\ P[n] \in Int
          /\ table[n + 1].delta \in {1, -1}
      BY <1>1, <2>1, <3>1
    <3>4. table[n].at + P[n] <= table[n + 1].at + P[n + 1]
      <4> DEFINE a == table[n].at
                 b == table[n + 1].at
                 d == table[n + 1].delta
                 p == P[n]
                 t == P[n + 1]
      <4>1. a \in Int /\ b \in Int /\ p \in Int /\ d \in {1, -1} /\ a < b /\ t = p + d
        BY <3>2, <3>3
      <4> HIDE DEF a, b, d, p, t
      <4>2. a + p <= b + t
        BY <4>1
      <4> QED BY <4>2 DEF a, b, p, t
    <3>5. edge(m) <= edge(n)
      BY <1>4, <2>3
    <3>6. edge(m) \in Int /\ edge(n) \in Int /\ edge(n + 1) \in Int
      BY <1>2, <2>1, <3>1
    <3>7. edge(m) <= edge(n + 1)
      <4>1. edge(n) <= edge(n + 1)
        BY <3>4
      <4> HIDE DEF edge
      <4> QED BY <3>5, <3>6, <4>1
    <3> QED BY <2>1, <3>7
  <2> QED BY <2>1, <2>2, <2>3
<1>5. N \in S
  <2> HIDE DEF S
  <2>1. \A n \in 0..N : n \in S
    BY <1>1, <1>3, <1>4, UpTo
  <2> QED BY <1>1, <2>1
<1> QED BY <1>1, <1>5

LEMMA LateLabel ==
  ASSUME NEW table, ValidTable(table), NEW inst \in Int, Behind(table, inst)
  PROVE  /\ GstInstantToUnixProjection(table, inst).nanos = inst - Total(table) * Sec
         /\ GstInstantToUnixProjection(table, inst).leap = FALSE
<1> DEFINE N == Len(table)
           s == inst \div Sec
           r == inst % Sec
           utc == GstInstantToUtc(table, inst)
           T == Total(table)
<1>1. /\ N \in Nat /\ DOMAIN table = 1..N
      /\ \A n \in 1..N : table[n].at \in Int /\ table[n].delta \in {1, -1}
  BY TableTypes
<1>2. Sec \in Nat \ {0} /\ s \in Int /\ r \in 0..(Sec - 1) /\ inst = s * Sec + r
  BY LeapAssumption, SecondsAndRest
<1>3. PICK P : Sums(P, table)
  BY SumsExist
<1>4. PICK m : LabelOf(table, P, s, r, m, utc)
  BY <1>3, UtcIsFound
<1>5. T = P[N] /\ T \in Int
  BY <1>3, TotalIsSum
<1>6. \A i \in 1..N : table[i].at + 1 + T <= s
  <2> TAKE i \in 1..N
  <2>1. table[i].at + 1 + T \in Int /\ (table[i].at + 1 + T) * Sec <= inst
    BY <1>1, <1>5 DEF Behind
  <2> HIDE DEF T
  <2> QED BY <1>2, <2>1, SecondReached
<1> HIDE DEF s, r, utc
<1>7. m \in 0..N /\ (m # N => m < N /\ m + 1 \in 1..N /\ (m + 1) - 1 = m)
  <2>1. m \in 0..N
    BY <1>4 DEF LabelOf
  <2> HIDE DEF N
  <2> QED BY <1>1, <2>1
<1>8. P[m] \in Int /\ P[N] = T
  <2>1. P \in [0..N -> Int]
    BY <1>3 DEF Sums
  <2> HIDE DEF N
  <2> QED BY <1>5, <1>7, <2>1
<1>9. m = N
  <2> SUFFICES ASSUME m # N PROVE FALSE
    OBVIOUS
  <2> DEFINE e == table[m + 1]
             l == table[N].at
  <2>1. m < N /\ m + 1 \in 1..N /\ (m + 1) - 1 = m /\ N \in 1..N
    <3> HIDE DEF N
    <3> QED BY <1>1, <1>7
  <2>2. P[m + 1] = P[m] + e.delta
    BY <1>3, <2>1 DEF Sums
  <2>3. e.at \in Int /\ e.delta \in {1, -1} /\ l \in Int
    BY <1>1, <2>1
  <2>4. e.at + P[m + 1] <= l + P[N]
    BY <1>3, <2>1, EdgesInOrder
  <2>5. l + 1 + T <= s
    BY <1>6, <2>1
  <2>6. s < e.at + P[m] \/ (e.delta = 1 /\ s = e.at + P[m])
    BY <1>4, <2>1 DEF LabelOf
  <2> DEFINE ea == e.at
             ed == e.delta
             pm == P[m]
  <2> HIDE DEF e, l, T, N, ea, ed, pm
  <2>7. ea + (pm + ed) <= l + T
    BY <1>8, <2>2, <2>4 DEF ea, ed, pm
  <2>8. ea \in Int /\ ed \in {1, -1} /\ pm \in Int /\ T \in Int
    BY <1>5, <1>8, <2>3 DEF ea, ed, pm
  <2>9. s < ea + pm \/ (ed = 1 /\ s = ea + pm)
    BY <2>6 DEF ea, ed, pm
  <2> QED BY <1>2, <2>3, <2>5, <2>7, <2>8, <2>9
<1>10. utc = Label(s - T, FALSE, r)
  <2>1. ~(m < N)
    BY <1>1, <1>9
  <2> QED BY <1>4, <1>8, <1>9, <2>1 DEF LabelOf
<1>11. utc.sec = s - T /\ utc.nanos = r /\ utc.leap = FALSE
  BY <1>10 DEF Label
<1>12. (s - T) * Sec + r = inst - T * Sec
  <2> HIDE DEF T
  <2>1. \A a, b, c, k \in Int : (a - b) * c + k = (a * c + k) - b * c
    OBVIOUS
  <2>2. r \in Int /\ Sec \in Int
    BY <1>2
  <2>3. (s - T) * Sec + r = (s * Sec + r) - T * Sec
    BY <1>2, <1>5, <2>1, <2>2
  <2> QED BY <1>2, <2>3
<1> QED BY <1>11, <1>12 DEF GstInstantToUnixProjection, utc

(* From behind the last leap second POSIX time is converted back.          *)
LEMMA LateInstant ==
  ASSUME NEW table, ValidTable(table), NEW unix \in Int,
         \A i \in DOMAIN table : table[i].at <= unix \div Sec
  PROVE  UnixNanosToGstInstant(table, unix) = unix + Total(table) * Sec
<1> DEFINE sec == unix \div Sec
<1>1. sec \in Int /\ \A i \in DOMAIN table : table[i].at \in Int
  BY TableTypes, LeapAssumption
<1>2. \A i \in DOMAIN table : sec # table[i].at - 1
  <2> TAKE i \in DOMAIN table
  <2>1. table[i].at \in Int /\ table[i].at <= sec
    BY <1>1
  <2> HIDE DEF sec
  <2> QED BY <1>1, <2>1
<1>3. PICK P : Sums(P, table)
  BY SumsExist
<1>4. DeltaAt(table, sec) = Total(table)
  BY <1>1, <1>3, LateDelta, TotalIsSum
<1> QED BY <1>2, <1>4 DEF UnixNanosToGstInstant

-----------------------------------------------------------------------------
(* Time stamps on the wire.                                                *)

LEMMA DistanceBounds ==
  ASSUME NEW x \in Int, NEW y \in Int, NEW m \in Int
  PROVE  Distance(x, y) <= m <=> x <= y + m /\ y <= x + m
BY DEF Distance

LEMMA LessThanOne ==
  ASSUME NEW E \in Nat \ {0}, NEW k \in Int, -E < k * E, k * E < E
  PROVE  k = 0
<1>1. CASE k >= 1
  <2>1. k * E >= 1 * E
    BY <1>1
  <2> QED BY <2>1
<1>2. CASE k <= -1
  <2>1. k * E <= (-1) * E
    BY <1>2
  <2> QED BY <2>1
<1> QED BY <1>1, <1>2

(* A time stamp is unfolded to what it stands for or not at all, as long   *)
(* as the coarse time is less than an era, less its own tolerance, away.   *)
LEMMA UnfoldIsRight ==
  ASSUME NEW v \in Int, NEW coarse \in Int, coarse + EpochOffset >= 0,
         Distance(v \div Sec, coarse) < EraSeconds - MaxCoarseError
  PROVE  UnfoldTimestamp(Wire(v), coarse) \in {v, NoTime}
<1> DEFINE S == (v \div Sec) + EpochOffset
           ntp == IF coarse + EpochOffset < 0 THEN 0 ELSE coarse + EpochOffset
           E == EraSeconds
           s == S % E
           era == S \div E
           base == ntp \div E
           near == {c \in {k * E + s : k \in (base - 1)..(base + 1)} :
                       c >= 0 /\ Distance(c, ntp) <= MaxCoarseError}
<1>1. /\ E \in Nat \ {0} /\ EpochOffset \in Nat /\ MaxCoarseError \in Nat
      /\ Sec \in Nat \ {0} /\ S \in Int /\ ntp \in Int /\ ntp = coarse + EpochOffset
  BY MeasurementAssumption, LeapAssumption
<1>2. era \in Int /\ s \in 0..(E - 1) /\ s \in Int /\ S = era * E + s
  <2> HIDE DEF S
  <2>1. era \in Int /\ s \in 0..(E - 1) /\ S = era * E + s
    BY <1>1, SecondsAndRest
  <2> HIDE DEF s
  <2> QED BY <1>1, <2>1
<1>3. base \in Int
  BY <1>1
<1>4. S - ntp < E - MaxCoarseError /\ ntp - S < E - MaxCoarseError
  BY <1>1 DEF Distance
<1> HIDE DEF S, ntp, s, era, base
<1>5. ASSUME NEW c \in near PROVE c = S
  <2>1. PICK k \in (base - 1)..(base + 1) : c = k * E + s
    OBVIOUS
  <2>2. k \in Int /\ k * E \in Int
    BY <1>1, <1>3
  <2>3. c - ntp <= MaxCoarseError /\ ntp - c <= MaxCoarseError
    BY <1>1, <1>2, <2>1, <2>2 DEF Distance
  <2> DEFINE p == k * E
             q == era * E
  <2>4. p \in Int /\ q \in Int
    BY <1>1, <1>2, <2>2
  <2>5. -E < p - q /\ p - q < E
    <3>1. c = p + s /\ S = q + s
      BY <1>2, <2>1
    <3> HIDE DEF p, q, E
    <3> QED BY <1>1, <1>2, <1>4, <2>3, <2>4, <3>1
  <2>6. (k - era) * E = p - q
    BY <1>1, <1>2, <2>2
  <2>7. k - era = 0
    <3>1. k - era \in Int
      BY <1>2, <2>2
    <3> HIDE DEF p, q
    <3> QED BY <1>1, <2>5, <2>6, <3>1, LessThanOne
  <2>8. k = era
    BY <1>2, <2>2, <2>7
  <2> QED BY <1>2, <2>1, <2>8
<1>6. UnfoldNtpSeconds(s, coarse) = IF Cardinality(near) = 1 THEN CHOOSE c \in near : TRUE
                                    ELSE NoTime
  BY DEF UnfoldNtpSeconds, ntp, base
<1>7. UnfoldNtpSeconds(s, coarse) \in {S, NoTime}
  <2> SUFFICES ASSUME Cardinality(near) = 1 PROVE (CHOOSE c \in near : TRUE) = S
    BY <1>6
  <2> HIDE DEF near
  <2>1. near # {}
    BY FS_EmptySet
  <2> QED BY <1>5, <2>1
<1> DEFINE w == Wire(v)
           u == UnfoldNtpSeconds(s, coarse)
           d == v \div Sec
           rest == v % Sec
<1>8. w.sec = s /\ w.frac = rest
  BY DEF Wire, s, S
<1>9. S - EpochOffset = d /\ d \in Int
  BY <1>1 DEF S
<1>10. v = d * Sec + rest
  <2>1. d \in Int /\ rest \in 0..(Sec - 1) /\ v = d * Sec + rest
    BY <1>1, SecondsAndRest
  <2> QED BY <2>1
<1>11. UnfoldTimestamp(w, coarse)
          = IF (w.sec = 0 /\ w.frac = 0) \/ u = NoTime THEN NoTime
            ELSE (u - EpochOffset) * Sec + w.frac
  BY <1>8 DEF UnfoldTimestamp
<1>12. u \in {S, NoTime}
  BY <1>7
<1> HIDE DEF w, u, rest, d
<1>13. UnfoldTimestamp(w, coarse) \in {v, NoTime}
  BY <1>8, <1>9, <1>10, <1>11, <1>12
<1> QED BY <1>13 DEF w

-----------------------------------------------------------------------------
(* ComputeMeasurement.                                                     *)

LEMMA Halved ==
  ASSUME NEW z \in Int
  PROVE  /\ Toward0(z, 2) \in Int
         /\ z - 1 <= 2 * Toward0(z, 2) /\ 2 * Toward0(z, 2) <= z + 1
         /\ z >= 0 => 2 * Toward0(z, 2) <= z
         /\ 2 * (z \div 2) <= z /\ z <= 2 * (z \div 2) + 1 /\ z \div 2 \in Int
BY DEF Toward0

(* The middle of the exchange, in true time from its two ends: from local  *)
(* time that is the counter's, or true time's.                             *)
LEMMA MiddleInTime ==
  ASSUME NEW A \in Int, NEW D \in Int, A <= D, NEW M, M = A + (D - A) \div 2,
         NEW ta \in Int, NEW tb \in Int, NEW tc \in Int, NEW td \in Int, NEW tm \in Int,
         ta <= tb, tc <= td, NEW E \in Nat, NEW rb \in Nat, NEW L \in Int,
         tm - ta <= M - A + E, td - tm <= D - M + E,
         M - A <= tm - ta + E, D - M <= td - tm + E,
         L = td - ta \/ (D - A <= L + 2 * rb /\ L <= D - A + 2 * rb)
  PROVE  /\ 2 * tm <= 2 * tb + L + 2 * E + 2 * rb
         /\ 2 * tc <= 2 * tm + L + 2 * E + 2 * rb + 1
<1>1. 2 * ((D - A) \div 2) <= D - A /\ D - A <= 2 * ((D - A) \div 2) + 1
      /\ (D - A) \div 2 \in Int
  BY Halved
<1> DEFINE h == (D - A) \div 2
<1>2. h \in Int /\ M = A + h /\ 2 * h <= D - A /\ D - A <= 2 * h + 1
  BY <1>1
<1> HIDE DEF h
<1> QED BY <1>2

(* Half the round trip and the errors on the way cover what the centre is  *)
(* off, whatever the asymmetry.                                            *)
LEMMA BoundCovers ==
  ASSUME NEW tb \in Int, NEW tc \in Int, NEW tm \in Int, NEW L \in Int, NEW E \in Nat,
         NEW rb \in Nat, NEW Q \in Nat, Q >= 2, NEW root \in Nat, NEW e \in -root..root,
         NEW d2 \in Nat, NEW d3 \in Nat, d2 < Q, d3 < Q,
         2 * tm <= 2 * tb + L + 2 * E + 2 * rb,
         2 * tc <= 2 * tm + L + 2 * E + 2 * rb + 1,
         NEW t2, t2 = tb + e - d2, NEW t3, t3 = tc + e - d3,
         NEW C \in Int, t2 + t3 - 2 <= 2 * C, 2 * C <= t2 + t3 + 1,
         NEW half \in Int, L - (t3 - t2) <= 2 * half + 1,
         NEW N, N = root + half + rb + rb + Q + E
  PROVE  C - N <= tm /\ tm <= C + N
<1>1. e \in Int /\ root \in Int /\ d2 \in Int /\ d3 \in Int /\ -root <= e /\ e <= root
  OBVIOUS
<1>2. 2 * N = 2 * root + 2 * half + 4 * rb + 2 * Q + 2 * E
  BY <1>1
<1>3. 2 * N >= 2 * root + (L - (t3 - t2) - 1) + 4 * rb + 2 * Q + 2 * E
  BY <1>1, <1>2
<1>4. t2 >= tb - root - Q + 1 /\ t3 <= tc + root /\ t2 \in Int /\ t3 \in Int /\ N \in Int
  BY <1>1
<1>5. 2 * C + 2 * N >= 2 * t2 + 2 * root + L - 3 + 4 * rb + 2 * Q + 2 * E
  BY <1>1, <1>3, <1>4
<1>6. 2 * C + 2 * N >= 2 * tb + L + 4 * rb + 2 * E - 1
  BY <1>1, <1>4, <1>5
<1>7. 2 * C + 2 * N >= 2 * tm - 1
  BY <1>1, <1>4, <1>6
<1>8. 2 * C - 2 * N <= 2 * t3 + 2 - 2 * root - L - 4 * rb - 2 * Q - 2 * E
  BY <1>1, <1>3, <1>4
<1>9. 2 * C - 2 * N <= 2 * tc + 2 - L - 4 * rb - 2 * Q - 2 * E
  BY <1>1, <1>4, <1>8
<1>10. 2 * C - 2 * N <= 2 * tm
  BY <1>1, <1>4, <1>9
<1> QED BY <1>4, <1>7, <1>10

LEMMA MiddleReading ==
  ASSUME NEW A \in Int, NEW D \in Int, A <= D, NEW R1 \in Int, NEW R4 \in Int, R1 <= R4,
         NEW rb \in Nat, R1 <= A + rb, A <= R1 + rb, R4 <= D + rb, D <= R4 + rb
  PROVE  /\ R1 + (R4 - R1) \div 2 \in Int
         /\ Distance(A + (D - A) \div 2, R1 + (R4 - R1) \div 2) <= rb + ((R4 - R1) % 2)
<1> DEFINE h == (D - A) \div 2
           k == (R4 - R1) \div 2
           p == (R4 - R1) % 2
<1>1. h \in Int /\ 2 * h <= D - A /\ D - A <= 2 * h + 1
  BY Halved
<1>2. k \in Int /\ 2 * k <= R4 - R1 /\ R4 - R1 <= 2 * k + 1
  BY Halved
<1>3. p \in 0..1
  OBVIOUS
<1> HIDE DEF h, k, p
<1>4. A + h <= R1 + k + rb + p /\ R1 + k <= A + h + rb + p
  BY <1>1, <1>2, <1>3
<1>5. A + h \in Int /\ R1 + k \in Int /\ rb + p \in Int
  BY <1>1, <1>2, <1>3
<1>6. Distance(A + h, R1 + k) <= rb + p
  BY <1>3, <1>4, <1>5, DistanceBounds
<1> QED BY <1>5, <1>6 DEF h, k, p

LEMMA LargerOfTwo ==
  ASSUME NEW x \in Int, NEW y \in Int
  PROVE  Max({x, y}) \in Int /\ x <= Max({x, y}) /\ y <= Max({x, y}) /\ Max({x, y}) \in {x, y}
<1>1. \E z \in {x, y} : \A u \in {x, y} : z >= u
  <2>1. CASE x >= y
    BY <2>1
  <2>2. CASE y >= x
    BY <2>2
  <2> QED BY <2>1, <2>2
<1> QED BY <1>1 DEF Max

LEMMA BoundIsLargeEnough ==
  ASSUME NEW m, m.r1.bound \in Nat, m.r4.bound \in Nat, m.t1 \in Int, m.t2 \in Int,
         m.t3 \in Int, m.t4 \in Int
  PROVE  \E half \in Int :
            /\ (m.t4 - m.t1) - (m.t3 - m.t2) <= 2 * half + 1
            /\ NetworkBound(m) = m.root + half + m.r1.bound + m.r4.bound + Quantization
                                    + MappingError
<1> DEFINE x == (m.t4 - m.t1) - (m.t3 - m.t2)
           delta == Max({x, PrecisionFloor})
<1>1. x \in Int /\ PrecisionFloor \in Int
  BY MeasurementAssumption
<1>2. delta \in Int /\ x <= delta
  BY <1>1, LargerOfTwo
<1>3. delta \div 2 \in Int /\ delta <= 2 * (delta \div 2) + 1
  BY <1>2, Halved
<1>4. NetworkBound(m) = m.root + delta \div 2 + m.r1.bound + m.r4.bound + Quantization
                                    + MappingError
  BY DEF NetworkBound
<1> HIDE DEF delta
<1> DEFINE h == delta \div 2
<1> HIDE DEF x
<1>5. h \in Int /\ x <= 2 * h + 1
  BY <1>1, <1>2, <1>3
<1> HIDE DEF h
<1> QED BY <1>4, <1>5 DEF x, h

-----------------------------------------------------------------------------
(* What a query knows of its exchange, and what is true of it.             *)

(* POSIX time at a position of the counter, behind the last leap second.   *)
Unix(s, tl, j) == tl[j] - Total(s.table) * Sec

(* True time follows the counter.                                          *)
OnLine(s, tl) ==
    /\ tl \in Seq(Int) /\ Len(tl) > 0 /\ tl[1] = s.start
    /\ \A i, j \in DOMAIN tl :
          i <= j => tl[i] <= tl[j] /\ Distance(tl[j] - tl[i], j - i) <= MappingError

(* A reading, and the local time it was made into, at a position.          *)
Taken(s, tl, r, t, j) ==
    /\ r.bound = s.readBound /\ r.raw \in Int /\ Distance(r.raw, j - 1) <= s.readBound
    /\ t = IF s.offset = NoTime THEN Unix(s, tl, j) + s.wall
           ELSE r.raw + s.offset - Total(s.table) * Sec

(* A measurement that holds true time.                                     *)
Truthful(tl, r) ==
    r.earliest # NoTime =>
        \E c \in DOMAIN tl : /\ Distance(c - 1, r.raw) <= r.bound
                             /\ tl[c] \in r.earliest..r.latest

(***************************************************************************)
(* The site of a query has settled: the last leap second is behind both    *)
(* true time and the estimate, by a second at least, and the operating     *)
(* system's clock, whatever it is off, leaves a time stamp no second era   *)
(* to be in while the query lasts.                                         *)
(***************************************************************************)
Settled(s) ==
    /\ Behind(s.table, s.start)
    /\ s.offset # NoTime =>
          /\ s.offset - s.readBound > 0
          /\ s.offset - s.readBound > Total(s.table) * Sec
          /\ Behind(s.table, s.offset - s.readBound)
    /\ s.resolution < Quantization /\ Quantization >= 2
    /\ s.start - Total(s.table) * Sec + s.wall + EpochOffset * Sec >= 0
    /\ \A root \in s.roots :
          s.budget["tick"] + MappingError + root + s.resolution + Distance(s.wall, 0) + Sec
             <= (EraSeconds - MaxCoarseError) * Sec

LEMMA SiteTypes ==
  ASSUME NEW s \in Scenarios, NEW tl, OnLine(s, tl)
  PROVE  /\ ValidTable(s.table) /\ Total(s.table) \in Int /\ Total(s.table) * Sec \in Int
         /\ s.start \in Int /\ s.wall \in Int /\ s.offset \in Int \union {NoTime}
         /\ s.readBound \in Nat /\ s.resolution \in Nat /\ s.roots \subseteq Nat
         /\ DOMAIN tl = 1..Len(tl) /\ Len(tl) \in Nat
         /\ \A j \in DOMAIN tl : tl[j] \in Int /\ Unix(s, tl, j) \in Int /\ j \in Int
         /\ \A i \in DOMAIN s.table : s.table[i].at \in Int
<1>1. /\ ValidTable(s.table) /\ s.start \in Int /\ s.wall \in Int
      /\ s.offset \in Int \union {NoTime}
      /\ s.readBound \in Nat /\ s.resolution \in Nat /\ s.roots \subseteq Nat
  BY QueryAssumption
<1>2. Total(s.table) \in Int
  BY <1>1, SumsExist, TotalIsSum
<1>3. Total(s.table) * Sec \in Int
  BY <1>2, LeapAssumption
<1>4. tl \in Seq(Int)
  BY DEF OnLine
<1>5. DOMAIN tl = 1..Len(tl) /\ Len(tl) \in Nat
  BY <1>4, LenProperties
<1>6. \A j \in DOMAIN tl : tl[j] \in Int /\ j \in Int
  BY <1>4, <1>5, ElementOfSeq
<1>7. \A j \in DOMAIN tl : Unix(s, tl, j) \in Int
  BY <1>3, <1>6 DEF Unix
<1>8. \A i \in DOMAIN s.table : s.table[i].at \in Int
  BY <1>1, TableTypes
<1> QED BY <1>1, <1>2, <1>3, <1>5, <1>6, <1>7, <1>8

(* Both ends of an interval that holds a POSIX time behind the last leap   *)
(* second are converted back by the same amount, or it is refused.         *)
LEMMA LateInterval ==
  ASSUME NEW table, ValidTable(table), Total(table) \in Int, NEW inst \in Int, Behind(table, inst),
         NEW lo \in Int, NEW hi \in Int, Unambiguous(table, lo, hi),
         lo <= inst - Total(table) * Sec, inst - Total(table) * Sec <= hi
  PROVE  inst \in UnixNanosToGstInstant(table, lo)..UnixNanosToGstInstant(table, hi)
<1> DEFINE T == Total(table)
           K == T * Sec
<1>1. Sec \in Nat \ {0} /\ K \in Int /\ \A i \in DOMAIN table : table[i].at \in Int
  BY LeapAssumption, TableTypes
<1>2. \A x \in Int : x \div Sec \in Int
  BY <1>1
<1>3. \A i \in DOMAIN table : table[i].at + 1 <= hi \div Sec
  <2> TAKE i \in DOMAIN table
  <2> DEFINE k == table[i].at + 1
  <2>1. k \in Int /\ (k + T) * Sec <= inst
    BY <1>1 DEF Behind
  <2>2. (k + T) * Sec = k * Sec + K
    <3> HIDE DEF k, T
    <3> QED BY <1>1, <2>1 DEF T
  <2>3. k * Sec \in Int
    BY <1>1, <2>1
  <2>4. k * Sec <= hi
    <3> DEFINE p == k * Sec
    <3> HIDE DEF k, K, p
    <3> QED BY <1>1, <2>1, <2>2, <2>3 DEF K, p
  <2> HIDE DEF k
  <2> QED BY <1>1, <2>1, <2>4, SecondReached DEF k
<1>4. \A i \in DOMAIN table : table[i].at <= lo \div Sec /\ table[i].at <= hi \div Sec
  <2> TAKE i \in DOMAIN table
  <2> DEFINE a == table[i].at
             l == lo \div Sec
             h == hi \div Sec
  <2>1. a \in Int /\ l \in Int /\ h \in Int /\ a + 1 <= h
    BY <1>1, <1>2, <1>3
  <2>2. ~(l <= a /\ h >= a - 1)
    BY DEF Unambiguous
  <2> HIDE DEF a, l, h
  <2>3. a <= l /\ a <= h
    BY <2>1, <2>2
  <2> QED BY <2>3 DEF a, l, h
<1>5. /\ UnixNanosToGstInstant(table, lo) = lo + K
      /\ UnixNanosToGstInstant(table, hi) = hi + K
  BY <1>4, LateInstant
<1> HIDE DEF K
<1> QED BY <1>1, <1>5 DEF K

LEMMA LocalTimes ==
  ASSUME NEW s \in Scenarios, NEW tl, OnLine(s, tl), NEW a \in DOMAIN tl, NEW d \in DOMAIN tl,
         a <= d, NEW r1, NEW t1, Taken(s, tl, r1, t1, a), NEW r4, NEW t4, Taken(s, tl, r4, t4, d),
         r1.raw <= r4.raw
  PROVE  /\ t1 \in Int /\ t4 \in Int /\ t1 <= t4
         /\ \/ t4 - t1 = Unix(s, tl, d) - Unix(s, tl, a)
            \/ d - a <= t4 - t1 + 2 * s.readBound /\ t4 - t1 <= d - a + 2 * s.readBound
<1> DEFINE ua == Unix(s, tl, a)
           ud == Unix(s, tl, d)
           K == Total(s.table) * Sec
           R1 == r1.raw
           R4 == r4.raw
           rb == s.readBound
           o == s.offset
           w == s.wall
<1>1. /\ K \in Int /\ rb \in Nat /\ o \in Int \union {NoTime} /\ w \in Int
      /\ ua \in Int /\ ud \in Int /\ a \in Int /\ d \in Int
      /\ tl[a] \in Int /\ tl[d] \in Int
  BY SiteTypes
<1>2. R1 \in Int /\ R4 \in Int /\ Distance(R1, a - 1) <= rb /\ Distance(R4, d - 1) <= rb
      /\ R1 <= R4
  BY DEF Taken
<1>3. /\ t1 = IF o = NoTime THEN ua + w ELSE R1 + o - K
      /\ t4 = IF o = NoTime THEN ud + w ELSE R4 + o - K
  BY DEF Taken
<1>4. ua <= ud
  <2>1. tl[a] <= tl[d]
    BY DEF OnLine
  <2>2. ua = tl[a] - K /\ ud = tl[d] - K
    BY DEF Unix
  <2> HIDE DEF ua, ud, K
  <2> QED BY <1>1, <2>1, <2>2
<1>5. R1 <= a - 1 + rb /\ a - 1 <= R1 + rb /\ R4 <= d - 1 + rb /\ d - 1 <= R4 + rb
  <2>1. a - 1 \in Int /\ d - 1 \in Int
    BY <1>1
  <2> HIDE DEF R1, R4, rb
  <2> QED BY <1>1, <1>2, <2>1, DistanceBounds
<1> HIDE DEF ua, ud, K, R1, R4, rb, o, w
<1>6. CASE o = NoTime
  <2>1. t1 = ua + w /\ t4 = ud + w
    BY <1>3, <1>6
  <2>2. t1 \in Int /\ t4 \in Int /\ t1 <= t4 /\ t4 - t1 = ud - ua
    BY <1>1, <1>4, <2>1
  <2> QED BY <2>2 DEF ua, ud
<1>7. CASE o # NoTime
  <2>1. t1 = R1 + o - K /\ t4 = R4 + o - K /\ o \in Int
    BY <1>1, <1>3, <1>7
  <2>2. t1 \in Int /\ t4 \in Int /\ t1 <= t4 /\ t4 - t1 = R4 - R1
    BY <1>1, <1>2, <2>1
  <2>3. d - a <= t4 - t1 + 2 * rb /\ t4 - t1 <= d - a + 2 * rb
    BY <1>1, <1>2, <1>5, <2>2
  <2> QED BY <2>2, <2>3 DEF rb
<1> QED BY <1>6, <1>7

(* The position in the middle of two.                                      *)
LEMMA MiddlePosition ==
  ASSUME NEW s \in Scenarios, NEW tl, OnLine(s, tl), NEW a \in DOMAIN tl, NEW b \in DOMAIN tl,
         NEW c \in DOMAIN tl, NEW d \in DOMAIN tl, a <= b, b <= c, c <= d,
         NEW M, M = a + (d - a) \div 2, NEW L \in Int,
         \/ L = Unix(s, tl, d) - Unix(s, tl, a)
         \/ d - a <= L + 2 * s.readBound /\ L <= d - a + 2 * s.readBound
  PROVE  /\ M \in DOMAIN tl
         /\ 2 * Unix(s, tl, M) <= 2 * Unix(s, tl, b) + L + 2 * MappingError + 2 * s.readBound
         /\ 2 * Unix(s, tl, c) <= 2 * Unix(s, tl, M) + L + 2 * MappingError
                                     + 2 * s.readBound + 1
<1> DEFINE U(j) == Unix(s, tl, j)
           K == Total(s.table) * Sec
           rb == s.readBound
           E == MappingError
<1>1. /\ rb \in Nat /\ E \in Nat /\ K \in Int
      /\ DOMAIN tl = 1..Len(tl) /\ Len(tl) \in Nat
      /\ \A j \in DOMAIN tl : tl[j] \in Int /\ U(j) \in Int /\ j \in Int
  BY SiteTypes, MeasurementAssumption
<1>2. a \in Int /\ d \in Int /\ d - a \in Int /\ a <= d
  <2>1. a \in Int /\ b \in Int /\ c \in Int /\ d \in Int
    BY <1>1
  <2> QED BY <2>1
<1>3. a <= M /\ M <= d /\ M \in Int
  <2> DEFINE h == (d - a) \div 2
  <2>1. h \in Int /\ 2 * h <= d - a /\ d - a <= 2 * h + 1
    BY <1>2, Halved
  <2> HIDE DEF h
  <2>2. M = a + h
    BY DEF h
  <2> QED BY <1>2, <2>1, <2>2
<1>4. M \in DOMAIN tl
  <2> DEFINE len == Len(tl)
  <2>1. len \in Int /\ a \in 1..len /\ d \in 1..len
    BY <1>1
  <2> HIDE DEF len
  <2>2. M \in 1..len
    BY <1>3, <2>1
  <2> QED BY <1>1, <2>2 DEF len
<1>5. \A i, j \in DOMAIN tl : i <= j =>
         /\ U(i) <= U(j) /\ U(j) - U(i) <= j - i + E /\ j - i <= U(j) - U(i) + E
  <2> SUFFICES ASSUME NEW i \in DOMAIN tl, NEW j \in DOMAIN tl, i <= j
               PROVE  U(i) <= U(j) /\ U(j) - U(i) <= j - i + E /\ j - i <= U(j) - U(i) + E
    OBVIOUS
  <2>1. tl[i] <= tl[j] /\ Distance(tl[j] - tl[i], j - i) <= E
    BY DEF OnLine
  <2> DEFINE x == tl[i]
             y == tl[j]
             p == y - x
             k == j - i
  <2>2. x \in Int /\ y \in Int /\ i \in Int /\ j \in Int /\ U(i) = x - K /\ U(j) = y - K
    BY <1>1 DEF Unix
  <2> HIDE DEF U, x, y, K
  <2>3. p \in Int /\ k \in Int
    BY <2>2
  <2>4. p <= k + E /\ k <= p + E
    <3>1. Distance(p, k) <= E
      BY <2>1 DEF x, y
    <3>2. E \in Int
      BY <1>1
    <3> HIDE DEF p, k, E
    <3> QED BY <2>3, <3>1, <3>2, DistanceBounds
  <2>5. x <= y
    BY <2>1 DEF x, y
  <2> HIDE DEF E
  <2> QED BY <1>1, <2>2, <2>4, <2>5
<1> DEFINE ta == U(a)
           tb == U(b)
           tc == U(c)
           td == U(d)
           tm == U(M)
<1>6. ta \in Int /\ tb \in Int /\ tc \in Int /\ td \in Int /\ tm \in Int
  BY <1>1, <1>4
<1>7. ta <= tb /\ tc <= td
  BY <1>5
<1>8. tm - ta <= M - a + E /\ M - a <= tm - ta + E
  BY <1>3, <1>4, <1>5
<1>9. td - tm <= d - M + E /\ d - M <= td - tm + E
  BY <1>3, <1>4, <1>5
<1>10. L = td - ta \/ (d - a <= L + 2 * rb /\ L <= d - a + 2 * rb)
  OBVIOUS
<1> HIDE DEF ta, tb, tc, td, tm, rb, E, U
<1>11. /\ 2 * tm <= 2 * tb + L + 2 * E + 2 * rb
       /\ 2 * tc <= 2 * tm + L + 2 * E + 2 * rb + 1
  <2>1. rb \in Nat /\ E \in Nat
    BY <1>1
  <2> QED BY <1>2, <1>6, <1>7, <1>8, <1>9, <1>10, <2>1, MiddleInTime
<1> QED BY <1>4, <1>11 DEF tm, tb, tc, E, rb, U

(* A measurement of an exchange that went as it should, whatever the path, *)
(* the server's distance and the rounding did to its time stamps.          *)
LEMMA MeasurementIsTrue ==
  ASSUME NEW s \in Scenarios, Settled(s), NEW tl, OnLine(s, tl),
         NEW a \in DOMAIN tl, NEW b \in DOMAIN tl, NEW c \in DOMAIN tl, NEW d \in DOMAIN tl,
         a <= b, b <= c, c <= d, NEW x,
         Taken(s, tl, x.r1, x.t1, a), Taken(s, tl, x.r4, x.t4, d),
         x.root \in s.roots, NEW e \in -x.root..x.root,
         NEW d2 \in 0..s.resolution, x.t2 \in {Unix(s, tl, b) + e - d2, NoTime},
         NEW d3 \in 0..s.resolution, x.t3 \in {Unix(s, tl, c) + e - d3, NoTime}
  PROVE  Truthful(tl, Measurement(s.table, x))
<1> DEFINE m == Measurement(s.table, x)
           C == Center(x)
           N == NetworkBound(x)
           lo == C - N
           hi == C + N
           L == x.t4 - x.t1
           h == (d - a) \div 2
           M == a + h
           rb == s.readBound
           tb == Unix(s, tl, b)
           tc == Unix(s, tl, c)
           tm == Unix(s, tl, M)
<1> SUFFICES ASSUME m.earliest # NoTime
             PROVE  \E k \in DOMAIN tl : Distance(k - 1, m.raw) <= m.bound
                                         /\ tl[k] \in m.earliest..m.latest
  BY DEF Truthful
<1>1. /\ x.t2 = tb + e - d2 /\ x.t3 = tc + e - d3 /\ x.r1.raw <= x.r4.raw
      /\ Unambiguous(s.table, lo, hi)
      /\ m.raw = RawMid(x) /\ m.bound = RawMidReadBound(x)
      /\ m.earliest = UnixNanosToGstInstant(s.table, lo)
      /\ m.latest = UnixNanosToGstInstant(s.table, hi)
  <2> DEFINE hard == HardInterval(x)
             ends == {UnixNanosToGstInstant(s.table, hard.earliest),
                      UnixNanosToGstInstant(s.table, hard.latest),
                      UnixNanosToGstInstant(s.table, Center(x))}
             good == /\ NoTime \notin {x.t2, x.t3}
                     /\ Unambiguous(s.table, x.t2, x.t3)
                     /\ Measurable(x)
                     /\ Unambiguous(s.table, hard.earliest, hard.latest)
                     /\ NoTime \notin ends
             r == [raw |-> RawMid(x), bound |-> RawMidReadBound(x),
                   earliest |-> UnixNanosToGstInstant(s.table, hard.earliest),
                   latest |-> UnixNanosToGstInstant(s.table, hard.latest)]
  <2>1. m = IF good THEN r ELSE NoMeasurement
    BY DEF Measurement
  <2>2. hard.earliest = lo /\ hard.latest = hi
    BY DEF HardInterval
  <2>3. NoMeasurement.earliest = NoTime
    BY DEF NoMeasurement
  <2> HIDE DEF m, good, r
  <2>4. good /\ m = r
    BY <2>1, <2>3
  <2>5. /\ NoTime \notin {x.t2, x.t3} /\ Measurable(x)
        /\ Unambiguous(s.table, hard.earliest, hard.latest)
    BY <2>4 DEF good
  <2> QED BY <2>2, <2>4, <2>5 DEF r, Measurable
<1>2. /\ ValidTable(s.table) /\ Total(s.table) \in Int /\ rb \in Nat
      /\ s.roots \subseteq Nat /\ s.resolution \in Nat
      /\ \A j \in DOMAIN tl : tl[j] \in Int /\ Unix(s, tl, j) \in Int /\ j \in Int
  BY SiteTypes
<1>3. a <= d /\ a \in Int /\ d \in Int
  <2>1. a \in Int /\ b \in Int /\ c \in Int /\ d \in Int
    BY <1>2
  <2> QED BY <2>1
<1>4. /\ x.t1 \in Int /\ x.t4 \in Int /\ x.t1 <= x.t4
      /\ \/ L = Unix(s, tl, d) - Unix(s, tl, a)
         \/ d - a <= L + 2 * rb /\ L <= d - a + 2 * rb
  BY <1>1, <1>3, LocalTimes
<1>5. L \in Int /\ L >= 0
  BY <1>4
<1>6. M \in DOMAIN tl
      /\ 2 * tm <= 2 * tb + L + 2 * MappingError + 2 * rb
      /\ 2 * tc <= 2 * tm + L + 2 * MappingError + 2 * rb + 1
  <2> HIDE DEF L, h
  <2>1. M = a + (d - a) \div 2
    BY DEF h
  <2> HIDE DEF M
  <2> QED BY <1>4, <1>5, <2>1, MiddlePosition
<1>7. tb \in Int /\ tc \in Int /\ tm \in Int
  BY <1>2, <1>6
<1>8. x.root \in Nat /\ e \in Int /\ d2 \in Nat /\ d3 \in Nat
      /\ d2 < Quantization /\ d3 < Quantization /\ Quantization >= 2 /\ Quantization \in Nat
      /\ MappingError \in Nat
  <2>1. s.resolution < Quantization /\ Quantization >= 2
    BY DEF Settled
  <2>2. x.root \in Nat
    BY <1>2
  <2>3. Quantization \in Nat /\ MappingError \in Nat
    BY MeasurementAssumption
  <2> QED BY <1>2, <2>1, <2>2, <2>3
<1>9. x.t2 \in Int /\ x.t3 \in Int
  <2> HIDE DEF tb, tc
  <2> QED BY <1>1, <1>7, <1>8
<1>10. C \in Int /\ x.t2 + x.t3 - 2 <= 2 * C /\ 2 * C <= x.t2 + x.t3 + 1
  <2> DEFINE z == (x.t2 - x.t1) + (x.t3 - x.t4)
             p == Toward0(L, 2)
             q == Toward0(z, 2)
  <2>1. z \in Int
    BY <1>4, <1>9
  <2>2. p \in Int /\ L - 1 <= 2 * p /\ 2 * p <= L
    BY <1>5, Halved
  <2>3. q \in Int /\ z - 1 <= 2 * q /\ 2 * q <= z + 1
    BY <2>1, Halved
  <2>4. C = x.t1 + p + q
    BY DEF Center, Theta
  <2> HIDE DEF p, q, C
  <2> QED BY <1>4, <1>9, <2>2, <2>3, <2>4
<1>11. x.r1.bound = rb /\ x.r4.bound = rb
  BY DEF Taken
<1>12. PICK half \in Int : /\ L - (x.t3 - x.t2) <= 2 * half + 1
                           /\ N = x.root + half + rb + rb + Quantization + MappingError
  BY <1>2, <1>4, <1>9, <1>11, BoundIsLargeEnough
<1>13. N \in Int
  <2> HIDE DEF N
  <2> QED BY <1>2, <1>8, <1>12
<1>14. lo <= tm /\ tm <= hi /\ lo \in Int /\ hi \in Int
  <2> HIDE DEF C, N, L, tb, tc, tm, rb, M
  <2>1. C - N <= tm /\ tm <= C + N
    BY <1>1, <1>2, <1>5, <1>6, <1>7, <1>8, <1>10, <1>12, BoundCovers
  <2> QED BY <1>10, <1>13, <2>1
<1>15. tl[M] \in m.earliest..m.latest
  <2>1. tl[M] \in Int /\ tm = tl[M] - Total(s.table) * Sec
    BY <1>2, <1>6 DEF Unix
  <2>2. Behind(s.table, tl[M])
    <3> DEFINE y == tl[M]
    <3>1. 1 \in DOMAIN tl /\ 1 <= M /\ s.start \in Int
      <4>1. DOMAIN tl = 1..Len(tl) /\ Len(tl) \in Nat /\ s.start \in Int
        BY SiteTypes
      <4>2. M \in 1..Len(tl)
        BY <1>6, <4>1
      <4> HIDE DEF M
      <4> QED BY <4>1, <4>2
    <3>2. s.start <= y
      <4>1. tl[1] <= tl[M] /\ tl[1] = s.start
        BY <1>6, <3>1 DEF OnLine
      <4> QED BY <4>1
    <3>3. \A i \in DOMAIN s.table : (s.table[i].at + 1 + Total(s.table)) * Sec \in Int
      <4> TAKE i \in DOMAIN s.table
      <4> DEFINE k == s.table[i].at + 1 + Total(s.table)
      <4>1. s.table[i].at \in Int
        BY SiteTypes
      <4>2. k \in Int /\ Sec \in Int
        BY <1>2, <4>1, LeapAssumption
      <4> HIDE DEF k
      <4>3. k * Sec \in Int
        BY <4>2
      <4> QED BY <4>3 DEF k
    <3>4. y \in Int
      BY <2>1
    <3> HIDE DEF y
    <3> QED BY <3>1, <3>2, <3>3, <3>4 DEF Settled, Behind, y
  <2> HIDE DEF lo, hi, tm
  <2>3. tl[M] \in UnixNanosToGstInstant(s.table, lo)..UnixNanosToGstInstant(s.table, hi)
    BY <1>1, <1>2, <1>14, <2>1, <2>2, LateInterval
  <2> QED BY <1>1, <2>3
<1>16. Distance(M - 1, m.raw) <= m.bound
  <2> DEFINE R1 == x.r1.raw
             R4 == x.r4.raw
             A == a - 1
             D == d - 1
  <2>1. R1 \in Int /\ R4 \in Int /\ Distance(R1, A) <= rb /\ Distance(R4, D) <= rb /\ R1 <= R4
    BY <1>1 DEF Taken
  <2>2. A \in Int /\ D \in Int /\ A <= D /\ D - A = d - a
    BY <1>3
  <2>3. R1 <= A + rb /\ A <= R1 + rb /\ R4 <= D + rb /\ D <= R4 + rb
    <3> HIDE DEF R1, R4, A, D, rb
    <3> QED BY <1>2, <2>1, <2>2, DistanceBounds
  <2>4. Max({x.r1.bound, x.r4.bound}) = rb
    <3>1. rb \in Int
      BY <1>2
    <3> HIDE DEF rb
    <3> QED BY <1>11, <3>1, LargerOfTwo
  <2>5. m.raw = R1 + (R4 - R1) \div 2 /\ m.bound = rb + ((R4 - R1) % 2)
    BY <1>1, <2>4 DEF RawMid, RawMidReadBound
  <2>6. M - 1 = A + (D - A) \div 2
    <3>1. h \in Int /\ h = (D - A) \div 2
      BY <1>3, <2>2, Halved
    <3> HIDE DEF h, D
    <3> QED BY <1>3, <3>1
  <2> HIDE DEF R1, R4, A, D, rb, M, m
  <2>7. Distance(A + (D - A) \div 2, R1 + (R4 - R1) \div 2) <= rb + ((R4 - R1) % 2)
    BY <1>2, <2>1, <2>2, <2>3, MiddleReading
  <2> QED BY <2>5, <2>6, <2>7
<1> QED BY <1>6, <1>15, <1>16

-----------------------------------------------------------------------------
(* The clocks of a settled site.                                           *)

LEMMA BehindLater ==
  ASSUME NEW table, ValidTable(table), Total(table) \in Int, NEW i \in Int, NEW j \in Int,
         i <= j, Behind(table, i)
  PROVE  Behind(table, j)
<1> SUFFICES ASSUME NEW n \in DOMAIN table
             PROVE  (table[n].at + 1 + Total(table)) * Sec <= j
  BY DEF Behind
<1> DEFINE k == table[n].at + 1 + Total(table)
           p == k * Sec
<1>1. table[n].at \in Int /\ Sec \in Int
  BY TableTypes, LeapAssumption
<1>2. k \in Int
  BY <1>1
<1> HIDE DEF k
<1>3. p \in Int
  BY <1>1, <1>2
<1>4. p <= i
  BY DEF Behind, k
<1>5. p <= j
  <2> HIDE DEF p
  <2> QED BY <1>3, <1>4
<1> QED BY <1>5 DEF k

LEMMA SecondsApart ==
  ASSUME NEW S \in Nat \ {0}, NEW x \in Int, NEW y \in Int, NEW B \in Int, x - y + S <= B * S
  PROVE  (x \div S) - (y \div S) < B
<1> DEFINE u == x \div S
           w == y \div S
           r == x % S
           t == y % S
<1>1. u \in Int /\ r \in 0..(S - 1) /\ x = u * S + r
  BY SecondsAndRest
<1>2. w \in Int /\ t \in 0..(S - 1) /\ y = w * S + t
  BY SecondsAndRest
<1> HIDE DEF u, w, r, t
<1> SUFFICES ASSUME u - w >= B PROVE FALSE
  BY <1>1, <1>2 DEF u, w
<1>3. (u - w) * S >= B * S
  <2>1. u - w \in Int
    BY <1>1, <1>2
  <2> DEFINE k == u - w
  <2> HIDE DEF k
  <2>2. k >= B /\ k \in Int
    BY <2>1 DEF k
  <2>3. k * S >= B * S
    BY <2>2
  <2> QED BY <2>3 DEF k
<1>4. (u - w) * S = u * S - w * S
  BY <1>1, <1>2
<1> DEFINE p == u * S
           q == w * S
           b == B * S
<1>5. p \in Int /\ q \in Int /\ b \in Int
  BY <1>1, <1>2
<1>6. p - q >= b /\ x = p + r /\ y = q + t /\ x - y + S <= b
  BY <1>1, <1>2, <1>3, <1>4
<1>7. r \in Int /\ r >= 0 /\ t \in Int /\ t <= S - 1
  BY <1>1, <1>2
<1> HIDE DEF p, q, b
<1> QED BY <1>5, <1>6, <1>7

(* True time never was before the start.                                   *)
LEMMA TrueTime ==
  ASSUME site \in Scenarios, Settled(site), OnLine(site, timeline)
  PROVE  /\ Len(timeline) \in DOMAIN timeline /\ truth \in Int /\ site.start <= truth
         /\ counter \in Nat /\ Behind(site.table, truth)
         /\ GstInstantToUnixProjection(site.table, truth).nanos
               = Unix(site, timeline, Len(timeline))
         /\ GstInstantToUnixProjection(site.table, truth).leap = FALSE
<1>1. /\ DOMAIN timeline = 1..Len(timeline) /\ Len(timeline) \in Nat /\ Len(timeline) > 0
      /\ timeline[1] = site.start /\ site.start \in Int
      /\ ValidTable(site.table) /\ Total(site.table) \in Int
      /\ \A j \in DOMAIN timeline : timeline[j] \in Int
  BY SiteTypes DEF OnLine
<1>2. Len(timeline) \in DOMAIN timeline /\ 1 \in DOMAIN timeline /\ 1 <= Len(timeline)
  <2> DEFINE n == Len(timeline)
  <2>1. DOMAIN timeline = 1..n /\ n \in Nat /\ n > 0
    BY <1>1
  <2> HIDE DEF n
  <2>2. n \in 1..n /\ 1 \in 1..n /\ 1 <= n
    BY <2>1
  <2> QED BY <2>1, <2>2 DEF n
<1>3. truth \in Int /\ site.start <= truth /\ counter \in Nat
  <2>1. truth \in Int /\ site.start <= truth
    BY <1>1, <1>2 DEF OnLine, truth
  <2>2. counter \in Nat
    BY <1>1 DEF counter
  <2> QED BY <2>1, <2>2
<1>4. Behind(site.table, truth)
  BY <1>1, <1>3, BehindLater DEF Settled
<1> QED BY <1>1, <1>2, <1>3, <1>4, LateLabel DEF Unix, truth

(* A server stamps the POSIX time there is.                                *)
LEMMA ServerTime ==
  ASSUME site \in Scenarios, Settled(site), OnLine(site, timeline)
  PROVE  ServerUnix = {Unix(site, timeline, Len(timeline))}
BY TrueTime DEF ServerUnix

(* The local time of a reading.                                            *)
LEMMA ReadingIsTaken ==
  ASSUME site \in Scenarios, Settled(site), OnLine(site, timeline),
         NEW r \in Readings, LocalUnixEstimate(r.raw) # NoTime
  PROVE  Taken(site, timeline, r, LocalUnixEstimate(r.raw), Len(timeline))
<1> DEFINE s == site
           n == Len(timeline)
           rb == s.readBound
           o == s.offset
           K == Total(s.table) * Sec
           est == r.raw + o
           t == LocalUnixEstimate(r.raw)
           p == GstInstantToUnixProjection(s.table, est)
<1>1. /\ n \in Nat /\ rb \in Nat /\ o \in Int \union {NoTime} /\ K \in Int
      /\ ValidTable(s.table) /\ Total(s.table) \in Int /\ counter = n - 1 /\ counter \in Nat
  BY SiteTypes, TrueTime DEF counter
<1>2. r.bound = rb /\ r.raw \in (counter - rb)..(counter + rb)
  BY DEF Readings
<1>3. r.raw \in Int /\ counter - rb <= r.raw /\ r.raw <= counter + rb
  BY <1>1, <1>2
<1>4. Distance(r.raw, n - 1) <= rb
  <2>1. n - 1 \in Int /\ r.raw <= (n - 1) + rb /\ n - 1 <= r.raw + rb
    BY <1>1, <1>3
  <2> HIDE DEF rb, n
  <2> QED BY <1>1, <1>3, <2>1, DistanceBounds
<1>5. CASE o = NoTime
  <2>1. t = Wall
    BY <1>5 DEF LocalUnixEstimate
  <2>2. Wall = Unix(s, timeline, n) + s.wall
    BY TrueTime DEF Wall
  <2> QED BY <1>2, <1>3, <1>4, <1>5, <2>1, <2>2 DEF Taken
<1>6. CASE o # NoTime
  <2>1. o \in Int /\ est \in Int
    BY <1>1, <1>3, <1>6
  <2>2. o - rb > 0 /\ o - rb > K /\ Behind(s.table, o - rb)
    BY <1>6 DEF Settled
  <2>3. o - rb <= est /\ o - rb \in Int
    <3> HIDE DEF o, rb
    <3> QED BY <1>1, <1>3, <2>1
  <2>4. Behind(s.table, est)
    <3> DEFINE i == o - rb
    <3> HIDE DEF est, i
    <3> QED BY <1>1, <2>1, <2>2, <2>3, BehindLater DEF i
  <2>5. p.nanos = est - K /\ p.leap = FALSE
    <3> HIDE DEF est
    <3> QED BY <1>1, <2>1, <2>4, LateLabel
  <2>6. est > 0 /\ est - K > 0 /\ est - K \in Int
    <3> HIDE DEF est, o, rb, K
    <3> QED BY <1>1, <2>1, <2>2, <2>3
  <2>7. t = p.nanos
    <3>1. ~(est <= 0) /\ p.nanos # 0
      <4> HIDE DEF p, est, K
      <4> QED BY <1>1, <2>1, <2>5, <2>6
    <3> QED BY <1>6, <2>5, <3>1 DEF LocalUnixEstimate
  <2>8. t = r.raw + o - K
    <3> HIDE DEF t, p, K, est
    <3>1. t = est - K
      BY <2>5, <2>7
    <3>2. t = r.raw + o - K
      <4>1. K \in Int /\ r.raw \in Int /\ o \in Int
        BY <1>1, <1>3, <2>1 DEF K
      <4> HIDE DEF o
      <4> QED BY <3>1, <4>1 DEF est
    <3> QED BY <3>2
  <2> HIDE DEF t
  <2>9. Taken(s, timeline, r, t, n)
    BY <1>2, <1>3, <1>4, <1>6, <2>8 DEF Taken
  <2> QED BY <2>9 DEF t
<1> QED BY <1>5, <1>6

(* The budget of ticks bounds how long true time runs.                     *)
Ticks ==
    /\ left \in [Kinds -> Nat] /\ site.budget \in [Kinds -> Nat]
    /\ Len(timeline) - 1 + left["tick"] = site.budget["tick"]

(* The wall clock's second tells the era of any stamp of the exchange.     *)
LEMMA StampUnfolds ==
  ASSUME site \in Scenarios, Settled(site), OnLine(site, timeline), Ticks,
         NEW b \in DOMAIN timeline, NEW root \in site.roots, NEW e \in -root..root,
         NEW d \in 0..site.resolution, NEW v, v = Unix(site, timeline, b) + e - d
  PROVE  UnfoldTimestamp(Wire(v), Wall \div Sec) \in {v, NoTime} /\ v \in Int
<1> DEFINE n == Len(timeline)
           ub == Unix(site, timeline, b)
           un == Unix(site, timeline, n)
           w == site.wall
           g == site.budget["tick"]
           E == MappingError
           B == EraSeconds - MaxCoarseError
           res == site.resolution
           K == Total(site.table) * Sec
<1>1. /\ n \in DOMAIN timeline /\ n \in Nat /\ b \in Int /\ b \in 1..n
      /\ ub \in Int /\ un \in Int /\ w \in Int /\ res \in Nat /\ site.roots \subseteq Nat
      /\ K \in Int /\ truth \in Int /\ site.start \in Int /\ timeline[b] \in Int
  BY SiteTypes, TrueTime
<1>2. root \in Nat /\ e \in Int /\ -root <= e /\ e <= root /\ d \in Int /\ 0 <= d /\ d <= res
  <2>1. root \in Nat
    BY <1>1
  <2> HIDE DEF res
  <2> QED BY <1>1, <2>1 DEF res
<1>3. Wall = un + w /\ Wall \in Int
  <2>1. Wall = un + w
    BY TrueTime DEF Wall
  <2> HIDE DEF un, w
  <2> QED BY <1>1, <2>1
<1>4. E \in Nat /\ B \in Int /\ EpochOffset \in Nat /\ Sec \in Nat \ {0}
  BY MeasurementAssumption, LeapAssumption
<1>5. g \in Nat /\ n - 1 <= g
  <2>1. left["tick"] \in Nat /\ g \in Nat /\ n - 1 + left["tick"] = g
    BY QueryAssumption DEF Ticks
  <2> HIDE DEF n, g
  <2> QED BY <1>1, <2>1
<1>6. un - ub <= g + E /\ ub <= un
  <2> DEFINE x == timeline[b]
             y == truth
             p == y - x
             k == n - b
  <2>1. x <= y /\ Distance(p, k) <= E
    BY <1>1 DEF OnLine, truth
  <2>2. p \in Int /\ k \in Int /\ k <= g
    <3>1. p \in Int
      BY <1>1
    <3> HIDE DEF n, g, p
    <3> QED BY <1>1, <1>5, <3>1
  <2>3. p <= k + E
    <3> HIDE DEF p, k, E
    <3> QED BY <1>4, <2>1, <2>2, DistanceBounds
  <2>4. ub = x - K /\ un = y - K
    BY DEF Unix, truth
  <2>5. x \in Int /\ y \in Int
    BY <1>1
  <2>6. un - ub = p
    <3> HIDE DEF ub, un, x, y, K
    <3> QED BY <1>1, <2>4, <2>5
  <2> HIDE DEF ub, un, x, y, K, n, g, E, k
  <2> QED BY <1>1, <1>4, <1>5, <2>1, <2>2, <2>3, <2>4, <2>5, <2>6
<1>7. v \in Int
  <2>1. ub \in Int /\ e \in Int /\ d \in Int
    BY <1>1, <1>2
  <2> HIDE DEF ub
  <2> QED BY <2>1
<1> DEFINE dist == Distance(w, 0)
<1>8. dist \in Int /\ w <= dist /\ -w <= dist
  <2>1. w \in Int
    BY <1>1
  <2> HIDE DEF w
  <2> QED BY <2>1 DEF Distance
<1>9. g + E + root + res + dist + Sec <= B * Sec
  BY DEF Settled
<1>10. B * Sec \in Int
  BY <1>4
<1>11. Wall - v + Sec <= B * Sec /\ v - Wall + Sec <= B * Sec
  <2> DEFINE z == B * Sec
  <2>1. z \in Int /\ g + E + root + res + dist + Sec <= z
    BY <1>9, <1>10
  <2>2. v = ub + e - d
    OBVIOUS
  <2> HIDE DEF z, g, E, res, dist, ub, un, w
  <2>3. /\ ub \in Int /\ un \in Int /\ w \in Int /\ res \in Int /\ root \in Int /\ g \in Int
        /\ E \in Int /\ Sec \in Int /\ e \in Int /\ d \in Int /\ dist \in Int /\ v \in Int
    BY <1>1, <1>2, <1>4, <1>5, <1>7, <1>8
  <2>4. Wall = un + w /\ un - ub <= g + E /\ ub <= un
    BY <1>3, <1>6
  <2>5. -root <= e /\ e <= root /\ 0 <= d /\ d <= res /\ w <= dist /\ -w <= dist /\ 0 <= g + E
    BY <1>2, <1>4, <1>5, <1>8
  <2>6. Wall - v + Sec <= z
    BY <2>1, <2>2, <2>3, <2>4, <2>5
  <2>7. v - Wall + Sec <= z
    BY <2>1, <2>2, <2>3, <2>4, <2>5
  <2> QED BY <2>6, <2>7 DEF z
<1> DEFINE coarse == Wall \div Sec
           second == v \div Sec
<1>12. coarse - second < B /\ second - coarse < B
  <2> HIDE DEF B
  <2> QED BY <1>3, <1>4, <1>7, <1>11, SecondsApart
<1>13. coarse \in Int /\ second \in Int
  BY <1>3, <1>4, <1>7
<1>14. Distance(second, coarse) < EraSeconds - MaxCoarseError
  <2> HIDE DEF second, coarse
  <2> QED BY <1>12, <1>13 DEF Distance
<1>15. coarse + EpochOffset >= 0
  <2>1. site.start - K + w + EpochOffset * Sec >= 0
    BY DEF Settled
  <2>2. un >= site.start - K
    <3>1. un = truth - K /\ site.start <= truth
      BY TrueTime DEF Unix, truth
    <3>2. truth \in Int /\ K \in Int /\ site.start \in Int
      BY <1>1
    <3> HIDE DEF un, K
    <3> QED BY <3>1, <3>2
  <2> DEFINE z == EpochOffset * Sec
  <2>3. z \in Int /\ (-EpochOffset) * Sec = -z
    BY <1>4
  <2>4. -z <= Wall
    <3>1. site.start - K + w + z >= 0
      BY <2>1
    <3>2. site.start \in Int /\ K \in Int /\ w \in Int /\ un \in Int /\ z \in Int /\ Wall = un + w
      BY <1>1, <1>3, <2>3
    <3> HIDE DEF un, K, w, z
    <3> QED BY <2>2, <3>1, <3>2
  <2>5. -EpochOffset <= coarse
    <3>1. (-EpochOffset) * Sec <= Wall /\ -EpochOffset \in Int
      BY <1>4, <2>3, <2>4
    <3> QED BY <1>3, <1>4, <3>1, SecondReached
  <2> HIDE DEF coarse
  <2> QED BY <1>4, <1>13, <2>5
<1> QED BY <1>7, <1>13, <1>14, <1>15, UnfoldIsRight

-----------------------------------------------------------------------------
(* The exchange of a query, step by step.                                  *)

(* What an operation leaves of the budget, and of the results.             *)
LEMMA SpendLeavesTicks ==
  ASSUME left \in [Kinds -> Nat], NEW k \in Kinds \ {"tick"}, Spend(k)
  PROVE  left' \in [Kinds -> Nat] /\ left'["tick"] = left["tick"]
<1>1. left[k] \in Nat /\ left[k] > 0 /\ left' = [left EXCEPT ![k] = left[k] - 1]
  BY DEF Spend
<1>2. left[k] - 1 \in Nat
  BY <1>1
<1>3. "tick" \in Kinds
  BY QueryAssumption
<1> QED BY <1>1, <1>2, <1>3

LEMMA QueriesLeaveTicks ==
  ASSUME left \in [Kinds -> Nat], NEW q \in Queries, QuerySource(q)
  PROVE  left' \in [Kinds -> Nat] /\ left'["tick"] = left["tick"]
<1>1. /\ "ntp" \in Kinds \ {"tick"} /\ "nts" \in Kinds \ {"tick"}
      /\ "odd" \in Kinds \ {"tick"} /\ "fail" \in Kinds \ {"tick"}
  BY QueryAssumption
<1>2. \/ UNCHANGED left \/ Spend("ntp") \/ Spend("nts") \/ Spend("odd") \/ Spend("fail")
  <2>1. CASE QueryNTP(q) \/ QueryNTS(q)
    BY <2>1, Zenon DEF QueryNTP, QueryNTS
  <2>2. CASE Enter(q)
    BY <2>2 DEF Enter
  <2>3. CASE Read(q)
    BY <2>3, Zenon DEF Read
  <2>4. CASE Establish(q) \/ FailKE(q)
    BY <2>4 DEF Establish, FailKE
  <2>5. CASE Acquire(q)
    BY <2>5 DEF Acquire
  <2>6. CASE Send(q)
    BY <2>6 DEF Send
  <2>7. CASE ServerReceive(q) \/ ServerReply(q)
    <3>1. UNCHANGED <<world, sessions, where, sess, cookie, result, history, left>>
      BY <2>7, Zenon DEF ServerReceive, ServerReply
    <3> QED BY <3>1
  <2>8. CASE Receive(q)
    BY <2>8 DEF Receive
  <2>9. CASE SpendCookie(q) \/ Refill(q)
    BY <2>9 DEF SpendCookie, Refill
  <2>10. CASE Measure(q)
    BY <2>10 DEF Measure
  <2>11. CASE Fail(q) \/ Refuse(q)
    BY <2>11, Zenon DEF Fail, Refuse
  <2> QED BY <2>1, <2>2, <2>3, <2>4, <2>5, <2>6, <2>7, <2>8, <2>9, <2>10, <2>11
             DEF QuerySource
<1> QED BY <1>1, <1>2, SpendLeavesTicks

Results == result = [q \in Queries |-> result[q]]

(* A query only ever returns what it has measured.                         *)
LEMMA OnlyMeasuredResults ==
  ASSUME Results, NEW q \in Queries, QuerySource(q)
  PROVE  /\ Results' /\ \A p \in Queries \ {q} : result'[p] = result[p]
         /\ result'[q] \in {result[q], NoMeasurement} \/ Measure(q)
<1> DEFINE Kept == UNCHANGED result \/ result' = [result EXCEPT ![q] = NoMeasurement]
<1>1. ASSUME Return(q, NoMeasurement) PROVE Kept
  BY <1>1 DEF Return
<1>2. Kept \/ Measure(q)
  <2>1. CASE QueryNTP(q) \/ QueryNTS(q)
    BY <2>1, Zenon DEF QueryNTP, QueryNTS
  <2>2. CASE Enter(q)
    BY <2>2 DEF Enter
  <2>3. CASE Read(q) \/ Establish(q)
    BY <2>3 DEF Read, Establish
  <2>4. CASE FailKE(q)
    BY <1>1, <2>4 DEF FailKE
  <2>5. CASE Acquire(q)
    BY <1>1, <2>5, Zenon DEF Acquire
  <2>6. CASE Send(q)
    <3>1. UNCHANGED <<where, sess, cookie, result>> \/ Return(q, NoMeasurement)
      BY <2>6, Zenon DEF Send
    <3> QED BY <1>1, <3>1
  <2>7. CASE ServerReceive(q) \/ ServerReply(q)
    <3>1. UNCHANGED <<world, sessions, where, sess, cookie, result, history, left>>
      BY <2>7, Zenon DEF ServerReceive, ServerReply
    <3> QED BY <3>1
  <2>8. CASE Receive(q)
    <3>1. UNCHANGED <<where, sess, cookie, result>> \/ Return(q, NoMeasurement)
      BY <2>8, Zenon DEF Receive
    <3> QED BY <1>1, <3>1
  <2>9. CASE SpendCookie(q) \/ Refill(q)
    BY <2>9 DEF SpendCookie, Refill
  <2>10. CASE Fail(q) \/ Refuse(q)
    BY <1>1, <2>10, Zenon DEF Fail, Refuse
  <2> QED BY <2>1, <2>2, <2>3, <2>4, <2>5, <2>6, <2>7, <2>8, <2>9, <2>10 DEF QuerySource
<1>3. \E r : result' = [result EXCEPT ![q] = r] \/ UNCHANGED result
  <2>1. CASE Kept
    BY <2>1
  <2>2. CASE Measure(q)
    BY <2>2, Zenon DEF Measure, Return
  <2> QED BY <1>2, <2>1, <2>2
<1>4. Results' /\ \A p \in Queries \ {q} : result'[p] = result[p]
  BY <1>3 DEF Results
<1>5. Kept => result'[q] \in {result[q], NoMeasurement}
  BY DEF Results
<1> QED BY <1>2, <1>4, <1>5

(* A query that waits for its answer, that has been stamped, ...           *)
AfterSend    == {"sent", "served", "replied", "spend", "refill", "measure"}
AfterArrival == {"served", "replied", "spend", "refill", "measure"}
AfterReply   == {"replied", "spend", "refill", "measure"}
AfterReceive == {"spend", "refill", "measure"}

Stamped(s, tl, w, e, j) == \E d \in 0..s.resolution : w = Wire(Unix(s, tl, j) + e - d)

(* What has been taken down of an exchange by now is true of the positions *)
(* a, b, c and d, at which the request was sent and stamped and the answer *)
(* was stamped and came in.                                                *)
Stage(s, tl, step, x, a, b, c, d) ==
    /\ a <= b /\ b <= c /\ c <= d
    /\ step \in AfterSend => Taken(s, tl, x.r1, x.t1, a)
    /\ step \in AfterArrival =>
          /\ x.root \in s.roots /\ x.error \in -x.root..x.root
          /\ Stamped(s, tl, x.w2, x.error, b)
    /\ step \in AfterReply => Stamped(s, tl, x.w3, x.error, c)
    /\ step \in AfterReceive => Taken(s, tl, x.r4, x.t4, d)

Staged(s, tl, step, x) ==
    \E a \in DOMAIN tl : \E b \in DOMAIN tl : \E c \in DOMAIN tl : \E d \in DOMAIN tl :
        Stage(s, tl, step, x, a, b, c, d)

LEMMA StagedEarly ==
  ASSUME NEW s \in Scenarios, NEW tl, OnLine(s, tl), NEW step, step \notin AfterSend, NEW x
  PROVE  Staged(s, tl, step, x)
<1>1. 1 \in DOMAIN tl
  <2>1. DOMAIN tl = 1..Len(tl) /\ Len(tl) \in Nat /\ Len(tl) > 0
    BY SiteTypes DEF OnLine
  <2> QED BY <2>1
<1>2. step \notin AfterArrival /\ step \notin AfterReply /\ step \notin AfterReceive
  BY DEF AfterSend, AfterArrival, AfterReply, AfterReceive
<1>3. Stage(s, tl, step, x, 1, 1, 1, 1)
  BY <1>2 DEF Stage
<1> QED BY <1>1, <1>3 DEF Staged

(* As true time goes on, what was true of it stays true.                   *)
LEMMA StagedLonger ==
  ASSUME NEW s, NEW tl \in Seq(Int), NEW v \in Int, NEW step, NEW x, Staged(s, tl, step, x)
  PROVE  Staged(s, Append(tl, v), step, x)
<1> DEFINE new == Append(tl, v)
<1>1. /\ DOMAIN tl \subseteq DOMAIN new /\ \A j \in DOMAIN tl : new[j] = tl[j]
  <2>1. DOMAIN tl = 1..Len(tl) /\ Len(tl) \in Nat
    BY LenProperties
  <2> QED BY <2>1
<1>2. PICK a \in DOMAIN tl : \E b \in DOMAIN tl : \E c \in DOMAIN tl : \E d \in DOMAIN tl :
         Stage(s, tl, step, x, a, b, c, d)
  BY DEF Staged
<1>3. PICK b \in DOMAIN tl : \E c \in DOMAIN tl : \E d \in DOMAIN tl :
         Stage(s, tl, step, x, a, b, c, d)
  BY <1>2
<1>4. PICK c \in DOMAIN tl, d \in DOMAIN tl : Stage(s, tl, step, x, a, b, c, d)
  BY <1>3
<1> HIDE DEF new
<1>5. \A j \in DOMAIN tl : Unix(s, new, j) = Unix(s, tl, j)
  BY <1>1 DEF Unix
<1>6. ASSUME NEW r, NEW t, NEW j \in DOMAIN tl, Taken(s, tl, r, t, j)
      PROVE  Taken(s, new, r, t, j)
  BY <1>5, <1>6 DEF Taken
<1>7. ASSUME NEW w, NEW e, NEW j \in DOMAIN tl, Stamped(s, tl, w, e, j)
      PROVE  Stamped(s, new, w, e, j)
  BY <1>5, <1>7 DEF Stamped
<1>8. Stage(s, new, step, x, a, b, c, d)
  <2>1. /\ a <= b /\ b <= c /\ c <= d
        /\ step \in AfterArrival => x.root \in s.roots /\ x.error \in -x.root..x.root
    BY <1>4 DEF Stage
  <2>2. step \in AfterSend => Taken(s, new, x.r1, x.t1, a)
    BY <1>4, <1>6 DEF Stage
  <2>3. step \in AfterArrival => Stamped(s, new, x.w2, x.error, b)
    BY <1>4, <1>7 DEF Stage
  <2>4. step \in AfterReply => Stamped(s, new, x.w3, x.error, c)
    BY <1>4, <1>7 DEF Stage
  <2>5. step \in AfterReceive => Taken(s, new, x.r4, x.t4, d)
    BY <1>4, <1>6 DEF Stage
  <2> QED BY <2>1, <2>2, <2>3, <2>4, <2>5 DEF Stage
<1>9. a \in DOMAIN new /\ b \in DOMAIN new /\ c \in DOMAIN new /\ d \in DOMAIN new
  BY <1>1
<1>10. Staged(s, new, step, x)
  BY <1>8, <1>9 DEF Staged
<1> QED BY <1>10 DEF new

LEMMA TruthfulLonger ==
  ASSUME NEW tl \in Seq(Int), NEW v \in Int, NEW r, Truthful(tl, r)
  PROVE  Truthful(Append(tl, v), r)
<1>1. /\ DOMAIN tl \subseteq DOMAIN Append(tl, v)
      /\ \A j \in DOMAIN tl : Append(tl, v)[j] = tl[j]
  <2>1. DOMAIN tl = 1..Len(tl) /\ Len(tl) \in Nat
    BY LenProperties
  <2> QED BY <2>1
<1> QED BY <1>1 DEF Truthful

(* The stamps of an exchange, as the query works through it.               *)
LEMMA SendIsStaged ==
  ASSUME Types, NEW q \in Queries, Send(q), site \in Scenarios, Settled(site),
         OnLine(site, timeline)
  PROVE  Staged(site, timeline, at'[q], exchange'[q])
<1>1. Locals /\ Has(q)
  BY DEF Types
<1>2. CASE Return(q, NoMeasurement)
  <2>1. at'[q] \notin AfterSend
    BY <1>1, <1>2, ReturnIsLocal DEF AfterSend
  <2> QED BY <2>1, StagedEarly
<1>3. CASE ~Return(q, NoMeasurement)
  <2>1. PICK r \in Readings, asked \in RequestPlaceholders(q) :
           /\ LocalUnixEstimate(r.raw) # NoTime /\ Goto(q, "sent")
           /\ exchange' = [exchange EXCEPT ![q] = [@ EXCEPT
                              !.r1 = r, !.t1 = LocalUnixEstimate(r.raw), !.cookies = asked]]
    BY <1>3, Zenon DEF Send
  <2> DEFINE t1 == LocalUnixEstimate(r.raw)
             n == Len(timeline)
             x == exchange'[q]
  <2>2. Taken(site, timeline, r, t1, n) /\ n \in DOMAIN timeline
    BY <2>1, ReadingIsTaken, TrueTime
  <2>3. "r1" \in DOMAIN exchange[q] /\ "t1" \in DOMAIN exchange[q]
    <3>1. DOMAIN exchange[q] = DOMAIN NoExchange
      BY <1>1 DEF Has
    <3> QED BY <3>1 DEF NoExchange
  <2> HIDE DEF t1
  <2>4. x = [exchange[q] EXCEPT !.r1 = r, !.t1 = t1, !.cookies = asked]
    BY <1>1, <2>1 DEF Locals, t1
  <2>5. x.r1 = r /\ x.t1 = t1
    BY <2>3, <2>4
  <2>6. at'[q] = "sent"
    BY <1>1, <2>1 DEF Goto, Locals
  <2>7. n <= n
    BY SiteTypes
  <2> HIDE DEF x, n
  <2>8. Stage(site, timeline, "sent", x, n, n, n, n)
    BY <2>2, <2>5, <2>7 DEF Stage, AfterArrival, AfterReply, AfterReceive
  <2> QED BY <2>2, <2>6, <2>8 DEF Staged, x
<1> QED BY <1>2, <1>3

(* The positions of an exchange under way.                                 *)
LEMMA ReceiveAtServerIsStaged ==
  ASSUME Types, NEW q \in Queries, ServerReceive(q), site \in Scenarios, Settled(site),
         OnLine(site, timeline), Staged(site, timeline, at[q], exchange[q])
  PROVE  Staged(site, timeline, at'[q], exchange'[q])
<1> DEFINE n == Len(timeline)
           y == exchange[q]
           x == exchange'[q]
<1>1. Locals /\ Has(q) /\ at[q] = "sent" /\ at'[q] = "served"
  BY DEF Types, ServerReceive, At, Goto, Locals
<1>2. PICK root \in site.roots : \E e \in -root..root, d \in 0..site.resolution, u \in ServerUnix :
         exchange' = [exchange EXCEPT ![q] = [@ EXCEPT
                         !.w2 = Wire(u + e - d), !.root = root, !.error = e]]
  BY DEF ServerReceive
<1>3. PICK e \in -root..root, d \in 0..site.resolution, u \in ServerUnix :
         exchange' = [exchange EXCEPT ![q] = [@ EXCEPT
                         !.w2 = Wire(u + e - d), !.root = root, !.error = e]]
  BY <1>2
<1>4. x = [y EXCEPT !.w2 = Wire(u + e - d), !.root = root, !.error = e]
  BY <1>1, <1>3 DEF Locals
<1>5. {"w2", "root", "error", "r1", "t1"} \subseteq DOMAIN y
  <2>1. DOMAIN y = DOMAIN NoExchange
    BY <1>1 DEF Has
  <2> QED BY <2>1 DEF NoExchange
<1>6. u = Unix(site, timeline, n)
  BY ServerTime
<1> DEFINE w == Wire(u + e - d)
<1> HIDE DEF w, x, y
<1>7. x.w2 = w /\ x.root = root /\ x.error = e /\ x.r1 = y.r1 /\ x.t1 = y.t1
  BY <1>4, <1>5 DEF w
<1>8. Stamped(site, timeline, x.w2, x.error, n)
  BY <1>6, <1>7 DEF Stamped, w
<1>9. PICK a \in DOMAIN timeline : Taken(site, timeline, y.r1, y.t1, a)
  BY <1>1 DEF Staged, Stage, AfterSend, y
<1>10. n \in DOMAIN timeline /\ a <= n /\ n <= n
  BY SiteTypes, TrueTime
<1>11. Stage(site, timeline, "served", x, a, n, n, n)
  BY <1>7, <1>8, <1>9, <1>10 DEF Stage, AfterReply, AfterReceive
<1> QED BY <1>1, <1>10, <1>11 DEF Staged, x

LEMMA ReplyIsStaged ==
  ASSUME Types, NEW q \in Queries, ServerReply(q), site \in Scenarios, Settled(site),
         OnLine(site, timeline), Staged(site, timeline, at[q], exchange[q])
  PROVE  Staged(site, timeline, at'[q], exchange'[q])
<1> DEFINE n == Len(timeline)
           y == exchange[q]
           x == exchange'[q]
<1>1. Locals /\ Has(q) /\ at[q] = "served" /\ at'[q] = "replied"
  BY DEF Types, ServerReply, At, Goto, Locals
<1>2. PICK u \in ServerUnix, d \in 0..site.resolution, k \in {0, exchange[q].cookies + 1} :
         exchange' = [exchange EXCEPT ![q] = [@ EXCEPT
                         !.w3 = Wire(u + exchange[q].error - d),
                         !.cookies = IF cookie[q] = NoCookie THEN 0 ELSE k]]
  BY DEF ServerReply
<1>3. x = [y EXCEPT !.w3 = Wire(u + y.error - d),
                    !.cookies = IF cookie[q] = NoCookie THEN 0 ELSE k]
  BY <1>1, <1>2 DEF Locals
<1>4. {"w2", "w3", "root", "error", "r1", "t1"} \subseteq DOMAIN y
  <2>1. DOMAIN y = DOMAIN NoExchange
    BY <1>1 DEF Has
  <2> QED BY <2>1 DEF NoExchange
<1>5. u = Unix(site, timeline, n)
  BY ServerTime
<1> DEFINE w == Wire(u + y.error - d)
<1> HIDE DEF w, x, y
<1>6. /\ x.w3 = w /\ x.w2 = y.w2 /\ x.root = y.root /\ x.error = y.error
      /\ x.r1 = y.r1 /\ x.t1 = y.t1
  BY <1>3, <1>4 DEF w
<1>7. Stamped(site, timeline, x.w3, x.error, n)
  BY <1>5, <1>6 DEF Stamped, w
<1>8. PICK a \in DOMAIN timeline : \E b \in DOMAIN timeline :
         /\ a <= b /\ Taken(site, timeline, y.r1, y.t1, a)
         /\ y.root \in site.roots /\ y.error \in -y.root..y.root
         /\ Stamped(site, timeline, y.w2, y.error, b)
  BY <1>1 DEF Staged, Stage, AfterSend, AfterArrival, y
<1>9. PICK b \in DOMAIN timeline :
         /\ a <= b /\ Taken(site, timeline, y.r1, y.t1, a)
         /\ y.root \in site.roots /\ y.error \in -y.root..y.root
         /\ Stamped(site, timeline, y.w2, y.error, b)
  BY <1>8
<1>10. n \in DOMAIN timeline /\ b <= n /\ n <= n
  BY SiteTypes, TrueTime
<1>11. Stage(site, timeline, "replied", x, a, b, n, n)
  BY <1>6, <1>7, <1>9, <1>10 DEF Stage, AfterReceive
<1> QED BY <1>1, <1>10, <1>11 DEF Staged, x

LEMMA ReceiveIsStaged ==
  ASSUME Types, NEW q \in Queries, Receive(q), site \in Scenarios, Settled(site),
         OnLine(site, timeline), Staged(site, timeline, at[q], exchange[q])
  PROVE  Staged(site, timeline, at'[q], exchange'[q])
<1> DEFINE n == Len(timeline)
           y == exchange[q]
           x == exchange'[q]
<1>1. Locals /\ Has(q) /\ at[q] = "replied"
  BY DEF Types, Receive, At
<1>2. CASE Return(q, NoMeasurement)
  <2>1. at'[q] \notin AfterSend
    BY <1>1, <1>2, ReturnIsLocal DEF AfterSend
  <2> QED BY <2>1, StagedEarly
<1>3. CASE ~Return(q, NoMeasurement)
  <2>1. PICK r \in Readings :
           /\ LocalUnixEstimate(r.raw) # NoTime
           /\ Goto(q, IF cookie[q] = NoCookie THEN "measure" ELSE "spend")
           /\ exchange' = [exchange EXCEPT ![q] =
                              [@ EXCEPT !.r4 = r, !.t4 = LocalUnixEstimate(r.raw)]]
    BY <1>3, Zenon DEF Receive
  <2> DEFINE t4 == LocalUnixEstimate(r.raw)
  <2>2. Taken(site, timeline, r, t4, n) /\ n \in DOMAIN timeline
    BY <2>1, ReadingIsTaken, TrueTime
  <2>3. {"w2", "w3", "root", "error", "r1", "t1", "r4", "t4"} \subseteq DOMAIN y
    <3>1. DOMAIN y = DOMAIN NoExchange
      BY <1>1 DEF Has
    <3> QED BY <3>1 DEF NoExchange
  <2> HIDE DEF t4
  <2>4. x = [y EXCEPT !.r4 = r, !.t4 = t4]
    BY <1>1, <2>1 DEF Locals, t4
  <2> HIDE DEF x, y
  <2>5. /\ x.r4 = r /\ x.t4 = t4 /\ x.w3 = y.w3 /\ x.w2 = y.w2 /\ x.root = y.root
        /\ x.error = y.error /\ x.r1 = y.r1 /\ x.t1 = y.t1
    BY <2>3, <2>4
  <2>6. at'[q] \in {"measure", "spend"}
    BY <1>1, <2>1 DEF Goto, Locals
  <2> DEFINE Known(a, b, c) ==
                /\ a <= b /\ b <= c /\ Taken(site, timeline, y.r1, y.t1, a)
                /\ y.root \in site.roots /\ y.error \in -y.root..y.root
                /\ Stamped(site, timeline, y.w2, y.error, b)
                /\ Stamped(site, timeline, y.w3, y.error, c)
  <2>7. PICK a \in DOMAIN timeline : \E b \in DOMAIN timeline : \E c \in DOMAIN timeline :
           Known(a, b, c)
    BY <1>1 DEF Staged, Stage, AfterSend, AfterArrival, AfterReply, y
  <2>8. PICK b \in DOMAIN timeline, c \in DOMAIN timeline : Known(a, b, c)
    BY <2>7
  <2>9. c <= n
    BY SiteTypes
  <2>10. Stage(site, timeline, at'[q], x, a, b, c, n)
    BY <2>2, <2>5, <2>8, <2>9 DEF Stage
  <2> QED BY <2>2, <2>10 DEF Staged, x
<1> QED BY <1>2, <1>3

LEMMA OtherStepsAreStaged ==
  ASSUME Types, NEW q \in Queries, QuerySource(q), site \in Scenarios, OnLine(site, timeline),
         Staged(site, timeline, at[q], exchange[q]),
         ~(Send(q) \/ ServerReceive(q) \/ ServerReply(q) \/ Receive(q))
  PROVE  Staged(site, timeline, at'[q], exchange'[q])
<1>1. Locals /\ at[q] \in Steps
  BY DEF Types, Has
<1>2. CASE at'[q] \notin AfterSend
  BY <1>2, StagedEarly
<1>3. ASSUME NEW r, Return(q, r) PROVE at'[q] \notin AfterSend
  BY <1>1, <1>3, ReturnIsLocal DEF AfterSend
<1>4. CASE QueryNTP(q) \/ QueryNTS(q)
  BY <1>1, <1>2, <1>4 DEF QueryNTP, QueryNTS, Goto, Locals, AfterSend
<1>5. CASE Enter(q)
  <2>1. Goto(q, "acquire") \/ Goto(q, "ke")
    BY <1>5 DEF Enter
  <2> QED BY <1>1, <1>2, <2>1 DEF Goto, Locals, AfterSend
<1>6. CASE Read(q)
  BY <1>2, <1>6 DEF Read, At, AfterSend
<1>7. CASE Establish(q)
  BY <1>1, <1>2, <1>7 DEF Establish, Goto, Locals, AfterSend
<1>8. CASE FailKE(q)
  BY <1>2, <1>3, <1>8 DEF FailKE
<1>9. CASE Acquire(q)
  <2>1. Goto(q, "send") \/ Return(q, NoMeasurement)
    BY <1>9, Zenon DEF Acquire
  <2> QED BY <1>1, <1>2, <1>3, <2>1 DEF Goto, Locals, AfterSend
<1>10. CASE SpendCookie(q) \/ Refill(q)
  <2>1. at[q] \in {"spend", "refill"} /\ UNCHANGED locals
        /\ (Goto(q, "refill") \/ Goto(q, "measure"))
    BY <1>10 DEF SpendCookie, Refill, At
  <2>2. /\ at[q] \in {"spend", "refill", "measure"} /\ at'[q] \in {"spend", "refill", "measure"}
        /\ exchange'[q] = exchange[q]
    BY <1>1, <2>1 DEF Goto, Locals, locals
  <2>3. \A k \in {"spend", "refill", "measure"} :
           k \in AfterSend /\ k \in AfterArrival /\ k \in AfterReply /\ k \in AfterReceive
    BY DEF AfterSend, AfterArrival, AfterReply, AfterReceive
  <2>4. ASSUME NEW a, NEW b, NEW c, NEW d, Stage(site, timeline, at[q], exchange[q], a, b, c, d)
        PROVE  Stage(site, timeline, at'[q], exchange'[q], a, b, c, d)
    BY <2>2, <2>3, <2>4 DEF Stage
  <2> QED BY <2>4 DEF Staged
<1>11. CASE Measure(q) \/ Fail(q) \/ Refuse(q)
  <2>1. \E r : Return(q, r)
    BY <1>11, Zenon DEF Measure, Fail, Refuse
  <2> QED BY <1>2, <1>3, <2>1
<1> QED BY <1>4, <1>5, <1>6, <1>7, <1>8, <1>9, <1>10, <1>11 DEF QuerySource

(* What is returned of it.                                                 *)
LEMMA MeasuredIsTruthful ==
  ASSUME Types, Results, NEW q \in Queries, Measure(q), site \in Scenarios, Settled(site),
         OnLine(site, timeline), Ticks, Staged(site, timeline, at[q], exchange[q])
  PROVE  Truthful(timeline, result'[q])
<1> DEFINE y == exchange[q]
           coarse == Wall \div Sec
           m == [r1 |-> y.r1, r4 |-> y.r4, t1 |-> y.t1, t4 |-> y.t4, root |-> y.root,
                 t2 |-> UnfoldTimestamp(y.w2, coarse),
                 t3 |-> UnfoldTimestamp(y.w3, coarse)]
<1>1. at[q] = "measure" /\ result'[q] = Measurement(site.table, m)
  BY DEF Measure, At, Return, Results
<1> DEFINE Known(a, b, c, d) ==
              /\ a <= b /\ b <= c /\ c <= d /\ Taken(site, timeline, y.r1, y.t1, a)
              /\ y.root \in site.roots /\ y.error \in -y.root..y.root
              /\ Stamped(site, timeline, y.w2, y.error, b)
              /\ Stamped(site, timeline, y.w3, y.error, c)
              /\ Taken(site, timeline, y.r4, y.t4, d)
<1>2. PICK a \in DOMAIN timeline : \E b \in DOMAIN timeline : \E c \in DOMAIN timeline :
         \E d \in DOMAIN timeline : Known(a, b, c, d)
  BY <1>1 DEF Staged, Stage, AfterSend, AfterArrival, AfterReply, AfterReceive
<1>3. PICK b \in DOMAIN timeline : \E c \in DOMAIN timeline : \E d \in DOMAIN timeline :
         Known(a, b, c, d)
  BY <1>2
<1>4. PICK c \in DOMAIN timeline, d \in DOMAIN timeline : Known(a, b, c, d)
  BY <1>3
<1>5. PICK d2 \in 0..site.resolution : y.w2 = Wire(Unix(site, timeline, b) + y.error - d2)
  BY <1>4 DEF Stamped
<1>6. PICK d3 \in 0..site.resolution : y.w3 = Wire(Unix(site, timeline, c) + y.error - d3)
  BY <1>4 DEF Stamped
<1> HIDE DEF y, coarse
<1>7. m.t2 \in {Unix(site, timeline, b) + y.error - d2, NoTime}
  BY <1>4, <1>5, StampUnfolds DEF coarse
<1>8. m.t3 \in {Unix(site, timeline, c) + y.error - d3, NoTime}
  BY <1>4, <1>6, StampUnfolds DEF coarse
<1>9. /\ Taken(site, timeline, m.r1, m.t1, a) /\ Taken(site, timeline, m.r4, m.t4, d)
      /\ m.root \in site.roots /\ y.error \in -m.root..m.root
      /\ a <= b /\ b <= c /\ c <= d
  BY <1>4
<1> HIDE DEF m
<1>10. Truthful(timeline, Measurement(site.table, m))
  BY <1>7, <1>8, <1>9, MeasurementIsTrue
<1> QED BY <1>1, <1>10

(* Every exchange under way is what it seems, and every result true.       *)
Faithful ==
    \A q \in Queries : /\ Staged(site, timeline, at[q], exchange[q])
                       /\ Truthful(timeline, result[q])

Clocks == site \in Scenarios /\ OnLine(site, timeline) /\ Ticks /\ Results

LEMMA FaithfulStart == Init => Clocks /\ Faithful
<1> SUFFICES ASSUME Init PROVE Clocks /\ Faithful
  OBVIOUS
<1>1. site \in Scenarios /\ site.start \in Int /\ timeline = <<site.start>>
  BY QueryAssumption DEF Init
<1>2. OnLine(site, timeline)
  <2>1. timeline \in Seq(Int) /\ Len(timeline) = 1 /\ timeline[1] = site.start
        /\ DOMAIN timeline = {1}
    BY <1>1
  <2>2. Distance(timeline[1] - timeline[1], 1 - 1) <= MappingError
    BY <1>1, <2>1, MeasurementAssumption DEF Distance
  <2> QED BY <1>1, <2>1, <2>2 DEF OnLine
<1>3. Ticks
  <2>1. left = site.budget /\ site.budget \in [Kinds -> Nat] /\ "tick" \in Kinds
    BY <1>1, QueryAssumption DEF Init
  <2>2. Len(timeline) = 1 /\ left["tick"] \in Nat
    BY <1>1, <2>1
  <2> QED BY <2>1, <2>2 DEF Ticks
<1>4. Results
  BY DEF Init, Results
<1>5. ASSUME NEW q \in Queries
      PROVE  Staged(site, timeline, at[q], exchange[q]) /\ Truthful(timeline, result[q])
  <2>1. at[q] = "idle" /\ result[q] = NoMeasurement
    BY DEF Init
  <2>2. at[q] \notin AfterSend
    BY <2>1 DEF AfterSend
  <2>3. result[q].earliest = NoTime
    BY <2>1 DEF NoMeasurement
  <2> QED BY <1>1, <1>2, <2>2, <2>3, StagedEarly DEF Truthful
<1> QED BY <1>1, <1>2, <1>3, <1>4, <1>5 DEF Clocks, Faithful

(* True time goes on.                                                      *)
LEMMA TickOnLine ==
  ASSUME Clocks, Tick
  PROVE  /\ Clocks' /\ site' = site
         /\ timeline \in Seq(Int) /\ \E v \in Int : timeline' = Append(timeline, v)
<1> DEFINE n == Len(timeline)
<1>1. PICK e \in 0..2 :
         /\ \A i \in DOMAIN timeline :
               Distance(truth + e - timeline[i], counter + 2 - i) <= MappingError
         /\ timeline' = Append(timeline, truth + e)
  BY DEF Tick
<1>2. site' = site /\ UNCHANGED <<at, result>>
  BY DEF Tick
<1>3. /\ OnLine(site, timeline) /\ timeline \in Seq(Int) /\ DOMAIN timeline = 1..n /\ n \in Nat
      /\ n > 0 /\ timeline[1] = site.start /\ \A j \in DOMAIN timeline : timeline[j] \in Int
  BY SiteTypes DEF Clocks, OnLine
<1> DEFINE v == truth + e
<1>4. n \in DOMAIN timeline /\ truth = timeline[n] /\ truth \in Int /\ counter = n - 1
  BY <1>3 DEF truth, counter
<1>5. v \in Int /\ truth <= v
  BY <1>4
<1>6. /\ timeline' \in Seq(Int) /\ Len(timeline') = n + 1 /\ DOMAIN timeline' = 1..(n + 1)
      /\ timeline'[n + 1] = v /\ \A j \in 1..n : timeline'[j] = timeline[j]
  BY <1>1, <1>3, <1>5
<1>7. OnLine(site', timeline')
  <2>1. ASSUME NEW i \in DOMAIN timeline', NEW j \in DOMAIN timeline', i <= j
        PROVE  /\ timeline'[i] <= timeline'[j]
               /\ Distance(timeline'[j] - timeline'[i], j - i) <= MappingError
    <3>1. i \in 1..(n + 1) /\ j \in 1..(n + 1)
      BY <1>6
    <3>2. CASE j \in 1..n
      <4>1. i \in DOMAIN timeline /\ j \in DOMAIN timeline
        <5>1. i \in 1..n
          BY <1>3, <2>1, <3>1, <3>2
        <5> QED BY <1>3, <3>2, <5>1
      <4>2. timeline[i] <= timeline[j]
            /\ Distance(timeline[j] - timeline[i], j - i) <= MappingError
        BY <1>3, <2>1, <4>1 DEF OnLine
      <4> QED BY <1>3, <1>6, <4>1, <4>2
    <3>3. CASE j = n + 1 /\ i \in 1..n
      <4>1. timeline'[j] = v /\ timeline'[i] = timeline[i] /\ i \in DOMAIN timeline
        BY <1>3, <1>6, <3>3
      <4>2. timeline[i] <= truth
        <5>1. i <= n
          BY <1>3, <3>3
        <5> QED BY <1>3, <1>4, <4>1, <5>1 DEF OnLine
      <4>3. timeline[i] <= v
        <5> DEFINE x == timeline[i]
        <5>1. x \in Int
          BY <1>3, <4>1
        <5> HIDE DEF x, v
        <5> QED BY <1>4, <1>5, <4>2, <5>1 DEF x
      <4>4. Distance(v - timeline[i], counter + 2 - i) <= MappingError
        <5> DEFINE x == timeline[i]
        <5>1. x \in Int
          BY <1>3, <4>1
        <5>2. Distance(truth + e - x, counter + 2 - i) <= MappingError
          BY <1>1, <4>1
        <5>3. truth + e - x = (truth + e) - x
          <6> HIDE DEF x
          <6> QED BY <1>4, <5>1
        <5> HIDE DEF x
        <5>4. Distance((truth + e) - x, counter + 2 - i) <= MappingError
          BY <5>2, <5>3
        <5> QED BY <5>4 DEF x
      <4>5. counter + 2 - i = j - i
        BY <1>3, <1>4, <3>3
      <4> QED BY <4>1, <4>3, <4>4, <4>5
    <3>4. CASE i = n + 1 /\ j = n + 1
      <4>1. Distance(v - v, j - i) = 0
        BY <1>3, <1>5, <3>4 DEF Distance
      <4> QED BY <1>5, <1>6, <3>4, <4>1, MeasurementAssumption
    <3>5. (j \in 1..n) \/ (j = n + 1 /\ i \in 1..n) \/ (i = n + 1 /\ j = n + 1)
      BY <1>3, <3>1
    <3> QED BY <3>2, <3>3, <3>4, <3>5
  <2>2. timeline'[1] = site.start /\ Len(timeline') > 0
    BY <1>3, <1>6
  <2> QED BY <1>2, <1>6, <2>1, <2>2 DEF OnLine
<1>8. Ticks'
  <2>1. /\ left \in [Kinds -> Nat] /\ site.budget \in [Kinds -> Nat] /\ "tick" \in Kinds
        /\ n - 1 + left["tick"] = site.budget["tick"]
    BY QueryAssumption DEF Clocks, Ticks
  <2>2. left["tick"] > 0 /\ left' = [left EXCEPT !["tick"] = left["tick"] - 1]
    BY DEF Tick, Spend
  <2>3. left["tick"] \in Nat /\ left["tick"] - 1 \in Nat
    BY <2>1, <2>2
  <2>4. left' \in [Kinds -> Nat] /\ left'["tick"] = left["tick"] - 1
    BY <2>1, <2>2, <2>3
  <2>5. (n + 1) - 1 + left'["tick"] = site.budget["tick"]
    BY <1>3, <2>1, <2>3, <2>4
  <2> QED BY <1>2, <1>6, <2>1, <2>4, <2>5 DEF Ticks
<1>9. Results'
  BY <1>2 DEF Clocks, Results
<1> QED BY <1>1, <1>2, <1>3, <1>5, <1>7, <1>8, <1>9 DEF Clocks

LEMMA ClocksKept == Clocks /\ Types /\ [Next]_vars => Clocks'
<1> SUFFICES ASSUME Clocks, Types, [Next]_vars PROVE Clocks'
  OBVIOUS
<1>1. CASE UNCHANGED vars
  BY <1>1 DEF vars, world, Clocks, OnLine, Ticks, Results
<1>2. CASE Tick
  BY <1>2, TickOnLine
<1>3. ASSUME NEW q \in Queries, QuerySource(q) PROVE Clocks'
  <2>1. UNCHANGED <<site, timeline>>
    BY <1>3, QueriesKeepWorld DEF world
  <2>2. left' \in [Kinds -> Nat] /\ left'["tick"] = left["tick"]
    BY <1>3, QueriesLeaveTicks DEF Clocks, Ticks
  <2>3. Results'
    BY <1>3, OnlyMeasuredResults DEF Clocks
  <2>4. Ticks'
    BY <2>1, <2>2 DEF Clocks, Ticks
  <2>5. OnLine(site', timeline')
    BY <2>1 DEF Clocks
  <2> QED BY <2>1, <2>3, <2>4, <2>5 DEF Clocks
<1> QED BY <1>1, <1>2, <1>3 DEF Next

LEMMA FaithfulKept ==
    Clocks /\ Types /\ Settled(site) /\ Faithful /\ [Next]_vars => Faithful'
<1> SUFFICES ASSUME Clocks, Types, Settled(site), Faithful, [Next]_vars PROVE Faithful'
  OBVIOUS
<1>1. CASE UNCHANGED vars
  BY <1>1 DEF vars, world, locals, Faithful
<1>2. CASE Tick
  <2>1. UNCHANGED <<site, at, exchange, result>>
    BY <1>2 DEF Tick, locals
  <2>2. PICK v \in Int : timeline' = Append(timeline, v)
    BY <1>2, TickOnLine
  <2>3. timeline \in Seq(Int)
    BY <1>2, TickOnLine
  <2>4. ASSUME NEW q \in Queries
        PROVE  /\ Staged(site, timeline', at[q], exchange[q])
               /\ Truthful(timeline', result[q])
    <3>1. Staged(site, timeline, at[q], exchange[q]) /\ Truthful(timeline, result[q])
      BY DEF Faithful
    <3> QED BY <2>2, <2>3, <3>1, StagedLonger, TruthfulLonger
  <2> QED BY <2>1, <2>4 DEF Faithful
<1>3. ASSUME NEW q \in Queries, QuerySource(q) PROVE Faithful'
  <2>1. UNCHANGED <<site, timeline>>
    BY <1>3, QueriesKeepWorld DEF world
  <2>2. site \in Scenarios /\ OnLine(site, timeline) /\ Ticks /\ Results
    BY DEF Clocks
  <2>3. \A p \in Queries : /\ Staged(site, timeline, at[p], exchange[p])
                           /\ Truthful(timeline, result[p])
    BY DEF Faithful
  <2>4. Staged(site, timeline, at'[q], exchange'[q])
    BY <1>3, <2>2, <2>3, SendIsStaged, ReceiveAtServerIsStaged, ReplyIsStaged,
       ReceiveIsStaged, OtherStepsAreStaged
  <2>5. Truthful(timeline, result'[q])
    <3>1. CASE Measure(q)
      BY <2>2, <2>3, <3>1, MeasuredIsTruthful
    <3>2. CASE ~Measure(q)
      <4>1. result'[q] \in {result[q], NoMeasurement}
        BY <1>3, <2>2, <3>2, OnlyMeasuredResults
      <4>2. Truthful(timeline, NoMeasurement)
        BY DEF Truthful, NoMeasurement
      <4> QED BY <2>3, <4>1, <4>2
    <3> QED BY <3>1, <3>2
  <2>6. \A p \in Queries \ {q} : /\ at'[p] = at[p] /\ exchange'[p] = exchange[p]
                                 /\ result'[p] = result[p]
    <3>1. Alone(q)
      BY <1>3, StepIsLocal DEF Types
    <3>2. \A p \in Queries \ {q} : result'[p] = result[p]
      BY <1>3, <2>2, OnlyMeasuredResults
    <3> QED BY <3>1, <3>2 DEF Alone
  <2>7. ASSUME NEW p \in Queries
        PROVE  Staged(site, timeline, at'[p], exchange'[p]) /\ Truthful(timeline, result'[p])
    <3>1. CASE p = q
      BY <2>4, <2>5, <3>1
    <3>2. CASE p # q
      BY <2>3, <2>6, <3>2
    <3> QED BY <3>1, <3>2
  <2> QED BY <2>1, <2>7 DEF Faithful
<1> QED BY <1>1, <1>2, <1>3 DEF Next

(***************************************************************************)
(* MeasurementHoldsTruth at every settled site, for any table of leap      *)
(* seconds behind it, any length of an era, any resolution, root distance  *)
(* and read bound, whatever the path does to the request and the answer,   *)
(* and with or without an estimate: ComputeMeasurement's bound covers all  *)
(* that may have gone wrong with the four time stamps and their rounding,  *)
(* UnfoldTimestamp never finds another era, and checkUnixInterval leaves   *)
(* only intervals whose ends are converted back by the same amount.        *)
(***************************************************************************)
THEOREM MeasurementsHoldTruth == Spec => [](Settled(site) => MeasurementHoldsTruth)
<1>1. Spec => []Types
  BY TypesStart, TypesKept, ExchangingIsKept, PTL DEF Spec
<1>2. Init => Clocks /\ (Settled(site) => Faithful)
  BY FaithfulStart
<1>3. /\ Clocks /\ (Settled(site) => Faithful) /\ Types /\ [Next]_vars
      => (Clocks /\ (Settled(site) => Faithful))'
  <2> SUFFICES ASSUME Clocks, Settled(site) => Faithful, Types, [Next]_vars
               PROVE  Clocks' /\ (Settled(site') => Faithful')
    OBVIOUS
  <2>1. site' = site
    <3>1. CASE UNCHANGED vars
      BY <3>1 DEF vars, world
    <3>2. CASE Tick
      BY <3>2 DEF Tick
    <3>3. CASE \E q \in Queries : QuerySource(q)
      BY <3>3, QueriesKeepWorld DEF world
    <3> QED BY <3>1, <3>2, <3>3 DEF Next
  <2>2. Clocks'
    BY ClocksKept
  <2>3. Settled(site) => Faithful'
    BY FaithfulKept
  <2> QED BY <2>1, <2>2, <2>3
<1>4. Spec => [](Clocks /\ (Settled(site) => Faithful))
  BY <1>1, <1>2, <1>3, PTL DEF Spec
<1>5. Clocks /\ (Settled(site) => Faithful) => (Settled(site) => MeasurementHoldsTruth)
  <2> SUFFICES ASSUME Clocks, Faithful PROVE MeasurementHoldsTruth
    OBVIOUS
  <2> SUFFICES ASSUME NEW q \in Queries, result[q].earliest # NoTime
               PROVE  \E c \in 0..counter :
                         /\ Distance(c, result[q].raw) <= result[q].bound
                         /\ timeline[c + 1] \in result[q].earliest..result[q].latest
    BY DEF MeasurementHoldsTruth
  <2>1. PICK c \in DOMAIN timeline :
           /\ Distance(c - 1, result[q].raw) <= result[q].bound
           /\ timeline[c] \in result[q].earliest..result[q].latest
    BY DEF Faithful, Truthful
  <2>2. DOMAIN timeline = 1..Len(timeline) /\ Len(timeline) \in Nat
    BY SiteTypes DEF Clocks
  <2>3. c - 1 \in 0..counter /\ (c - 1) + 1 = c
    BY <2>1, <2>2 DEF counter
  <2> QED BY <2>1, <2>3
<1> QED BY <1>4, <1>5, PTL
=============================================================================
