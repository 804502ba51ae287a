----------------------------- MODULE SourceQuery -----------------------------
(***************************************************************************)
(* defaultSourceQuerier: how one source is asked for the time.             *)
(*                                                                         *)
(* Query goroutines share the NTS sessions, one per endpoint, behind       *)
(* ntsMu, which is held over a whole key establishment; a session's cookie *)
(* jar is used outside ntsMu.  The rest of a query is its own: a request,  *)
(* a server that answers or does not, and a measurement.  A query may fail *)
(* at any step that can fail; what it has done by then stays done.         *)
(*                                                                         *)
(* True time is the GST axis.  An honest server stamps unsmeared UTC, off  *)
(* by no more than its root distance, and truncates to the resolution of   *)
(* its time stamps.  The raw counter may gain or lose MappingError units   *)
(* on true time, which is what the code allows for.                        *)
(***************************************************************************)
EXTENDS NtpMeasurement, CookieJar, KeyExchange, FiniteSets, Bags

CONSTANTS Queries,        \* goroutines in QuerySource
          Endpoints,      \* NTS sources
          Scenarios,      \* where a behaviour starts, and its bounds
          Kinds,          \* kinds of event that are bounded
          None

(* A scenario: the leap table, true time at the start, the estimate's      *)
(* offset from the counter (NoTime if there is none), how far the          *)
(* operating system's clock is off, the root distances servers report, the *)
(* resolution of their stamps, the backend's read bound, and (a bound) how *)
(* often each kind of event may happen.                                    *)
ASSUME QueryAssumption ==
    /\ \A s \in Scenarios :
          /\ ValidTable(s.table) /\ s.start \in Int /\ s.wall \in Int
          /\ s.offset \in Int \union {NoTime}
          /\ s.roots \subseteq Nat /\ s.resolution \in Nat /\ s.readBound \in Nat
          /\ s.budget \in [Kinds -> Nat]
    /\ {"tick", "ntp", "nts", "odd", "fail"} \subseteq Kinds
    /\ IsFiniteSet(Queries) /\ None \notin Queries

VARIABLES
    site,        \* the scenario, fixed
    timeline,    \* true time at each position of the exact counter so far
    ntsMu,       \* its holder, or None
    ntsState,    \* the session of each endpoint, or 0
    jars,        \* the jar of each session ever established
    response,    \* local of ntsMu's holder: the key exchange so far
    at,          \* next step of each query
    where,       \* its endpoint, None for plain NTP
    sess,        \* local: its session
    cookie,      \* local: its cookie
    exchange,    \* local: time stamps of the exchange
    result,      \* what the query returned last
    issued,      \* the servers: cookies issued so far
    sent,        \* history: cookies sent
    starved,     \* history: a query found no cookie
    message,     \* history: the records of the key exchange so far
    accepted,    \* history: the message the last session came from
    left         \* what is left of the budget

world == <<site, timeline>>
sessions == <<ntsMu, ntsState, jars, response, issued>>
locals == <<where, sess, cookie, exchange>>
history == <<sent, starved, message, accepted>>
vars == <<world, sessions, at, locals, result, history, left>>

Spend(k) == left[k] > 0 /\ left' = [left EXCEPT ![k] = @ - 1]

counter == Len(timeline) - 1

truth == timeline[Len(timeline)]

NoReading == [raw |-> 0, bound |-> 0]

NoStamp == [sec |-> 0, frac |-> 0]

NoExchange == [r1 |-> NoReading, t1 |-> 0, w2 |-> NoStamp, w3 |-> NoStamp,
               root |-> 0, error |-> 0, r4 |-> NoReading, t4 |-> 0, cookies |-> 0]

Init ==
    /\ site \in Scenarios
    /\ timeline = <<site.start>>
    /\ ntsMu = None
    /\ ntsState = [e \in Endpoints |-> 0]
    /\ jars = <<>>
    /\ response = NewResponse
    /\ issued = 0
    /\ at = [q \in Queries |-> "idle"]
    /\ where = [q \in Queries |-> None]
    /\ sess = [q \in Queries |-> 0]
    /\ cookie = [q \in Queries |-> NoCookie]
    /\ exchange = [q \in Queries |-> NoExchange]
    /\ result = [q \in Queries |-> NoMeasurement]
    /\ sent = EmptyBag /\ starved = FALSE
    /\ message = <<>> /\ accepted = <<>>
    /\ left = site.budget

-----------------------------------------------------------------------------
(* The clocks                                                              *)

Tick ==
    /\ Spend("tick")
    /\ \E d \in 0..2 :
          /\ \A i \in DOMAIN timeline :
                Distance(truth + d - timeline[i], counter + 2 - i) <= MappingError
          /\ timeline' = Append(timeline, truth + d)
    /\ UNCHANGED <<site, sessions, at, locals, result, history>>

Readings == {[raw |-> r, bound |-> site.readBound] :
                r \in (counter - site.readBound)..(counter + site.readBound)}

Wall == GstInstantToUnixProjection(site.table, truth).nanos + site.wall

(* localUnixEstimate; NoTime is its error.                                 *)
LocalUnixEstimate(raw) ==
    LET est == raw + site.offset
        p == GstInstantToUnixProjection(site.table, est)
    IN  IF site.offset = NoTime THEN Wall
        ELSE IF est <= 0 THEN Wall
        ELSE IF p.leap THEN NoTime
        ELSE IF p.nanos = 0 THEN Wall ELSE p.nanos

(* In an inserted second a server repeats 23:59:59 or is a second ahead.   *)
ServerUnix ==
    LET p == GstInstantToUnixProjection(site.table, truth)
    IN  {p.nanos} \union (IF p.leap THEN {p.nanos + Sec} ELSE {})

-----------------------------------------------------------------------------
(* Steps of a query                                                        *)

At(q, step) == at[q] = step

Goto(q, step) == at' = [at EXCEPT ![q] = step]

(* The query returns; its locals are gone.                                 *)
Return(q, r) ==
    /\ at' = [at EXCEPT ![q] = "idle"]
    /\ where' = [where EXCEPT ![q] = None]
    /\ sess' = [sess EXCEPT ![q] = 0]
    /\ cookie' = [cookie EXCEPT ![q] = NoCookie]
    /\ exchange' = [exchange EXCEPT ![q] = NoExchange]
    /\ result' = [result EXCEPT ![q] = r]

QueryNTP(q) ==
    /\ At(q, "idle")
    /\ Goto(q, "send")
    /\ Spend("ntp")
    /\ result' = [result EXCEPT ![q] = NoMeasurement]
    /\ UNCHANGED <<world, sessions, locals, history>>

QueryNTS(q) ==
    /\ At(q, "idle")
    /\ Goto(q, "enter")
    /\ Spend("nts")
    /\ \E e \in Endpoints : where' = [where EXCEPT ![q] = e]
    /\ result' = [result EXCEPT ![q] = NoMeasurement]
    /\ UNCHANGED <<world, sessions, sess, cookie, exchange, history>>

(* Under ntsMu: the endpoint's session if it has cookies enough.           *)
Enter(q) ==
    /\ At(q, "enter") /\ ntsMu = None
    /\ LET s == ntsState[where[q]]
       IN  IF s # 0 /\ ~NeedsReplenishment(jars[s])
           THEN
              /\ Goto(q, "acquire")
              /\ sess' = [sess EXCEPT ![q] = s]
              /\ UNCHANGED <<ntsMu, response, message>>
           ELSE
              /\ Goto(q, "ke")
              /\ ntsMu' = q
              /\ response' = NewResponse
              /\ message' = <<>>
              /\ UNCHANGED sess
    /\ UNCHANGED <<world, ntsState, jars, issued, where, cookie, exchange, result,
                   sent, starved, accepted, left>>

(* What a server sends next if nothing is odd about it.                    *)
Ordinary ==
    {[type |-> t, good |-> TRUE] : t \in
        IF "protocol" \notin response.seen THEN {"protocol"}
        ELSE IF "aead" \notin response.seen THEN {"aead"}
        ELSE IF response.cookies = 0 THEN {"cookie"}
        ELSE IF response.cookies < Capacity THEN {"cookie", "eom"} ELSE {"eom"}}

Read(q) ==
    /\ At(q, "ke") /\ response.at = "reading"
    /\ \E rec \in Record :
          /\ \/ rec \in Ordinary /\ UNCHANGED left
             \/ rec \notin Ordinary /\ Spend("odd")
          /\ response' = ReadRecord(response, rec)
          /\ message' = Append(message, rec)
    /\ UNCHANGED <<world, ntsMu, ntsState, jars, issued, at, locals, result,
                   sent, starved, accepted>>

(* negotiateNTSKE succeeds: a new session, for this query and later ones.  *)
Establish(q) ==
    /\ At(q, "ke") /\ response.at = "complete"
    /\ Goto(q, "acquire")
    /\ jars' = Append(jars, Added(<<>>, issued, response.cookies))
    /\ issued' = issued + response.cookies
    /\ ntsState' = [ntsState EXCEPT ![where[q]] = Len(jars')]
    /\ sess' = [sess EXCEPT ![q] = Len(jars')]
    /\ ntsMu' = None
    /\ response' = NewResponse
    /\ accepted' = message /\ message' = <<>>
    /\ UNCHANGED <<world, where, cookie, exchange, result, sent, starved, left>>

(* It fails: an error in the response, no connection, no answer in time,   *)
(* no keys.                                                                *)
FailKE(q) ==
    /\ At(q, "ke")
    /\ \/ response.at = "failed" /\ UNCHANGED left
       \/ response.at # "failed" /\ Spend("fail")
    /\ ntsMu' = None
    /\ response' = NewResponse
    /\ message' = <<>>
    /\ Return(q, NoMeasurement)
    /\ UNCHANGED <<world, ntsState, jars, issued, sent, starved, accepted>>

Acquire(q) ==
    /\ At(q, "acquire")
    /\ LET id == NextUnused(jars[sess[q]])
       IN  \/ /\ id # NoCookie
              /\ Goto(q, "send")
              /\ jars' = [jars EXCEPT ![sess[q]] = InFlight(@, id)]
              /\ cookie' = [cookie EXCEPT ![q] = id]
              /\ UNCHANGED <<where, sess, exchange, result, starved>>
           \/ /\ id = NoCookie
              /\ Return(q, NoMeasurement)
              /\ starved' = TRUE
              /\ UNCHANGED jars
    /\ UNCHANGED <<world, ntsMu, ntsState, response, issued, sent, message, accepted, left>>

(* As many placeholders as the jar needs and the packet has room for.      *)
RequestPlaceholders(q) ==
    IF cookie[q] = NoCookie THEN {0}
    ELSE 0..CalculatePlaceholderCount(jars[sess[q]])

(* The packet is built, the clock is read, the packet is sent.  An         *)
(* estimate inside an inserted second ends the query.                      *)
Send(q) ==
    /\ At(q, "send")
    /\ \E r \in Readings, asked \in RequestPlaceholders(q) :
          LET t1 == LocalUnixEstimate(r.raw)
          IN  \/ /\ t1 # NoTime
                 /\ Goto(q, "sent")
                 /\ exchange' = [exchange EXCEPT ![q] = [@ EXCEPT
                                    !.r1 = r, !.t1 = t1, !.cookies = asked]]
                 /\ sent' = IF cookie[q] = NoCookie THEN sent
                            ELSE sent (+) SetToBag({cookie[q]})
                 /\ UNCHANGED <<where, sess, cookie, result>>
              \/ /\ t1 = NoTime
                 /\ Return(q, NoMeasurement)
                 /\ UNCHANGED sent
    /\ UNCHANGED <<world, sessions, starved, message, accepted, left>>

(* The server stamps the request, and later its answer; it returns a       *)
(* cookie for the one it got and each placeholder, or none.                *)
ServerReceive(q) ==
    /\ At(q, "sent")
    /\ Goto(q, "served")
    /\ \E root \in site.roots : \E e \in -root..root, d \in 0..site.resolution, u \in ServerUnix :
          exchange' = [exchange EXCEPT ![q] = [@ EXCEPT
                          !.w2 = Wire(u + e - d), !.root = root, !.error = e]]
    /\ UNCHANGED <<world, sessions, where, sess, cookie, result, history, left>>

ServerReply(q) ==
    /\ At(q, "served")
    /\ Goto(q, "replied")
    /\ \E u \in ServerUnix, d \in 0..site.resolution, n \in {0, exchange[q].cookies + 1} :
          exchange' = [exchange EXCEPT ![q] = [@ EXCEPT
                          !.w3 = Wire(u + exchange[q].error - d),
                          !.cookies = IF cookie[q] = NoCookie THEN 0 ELSE n]]
    /\ UNCHANGED <<world, sessions, where, sess, cookie, result, history, left>>

(* The answer arrives and passes its checks.                               *)
Receive(q) ==
    /\ At(q, "replied")
    /\ \E r \in Readings :
          LET t4 == LocalUnixEstimate(r.raw)
          IN  \/ /\ t4 # NoTime
                 /\ Goto(q, IF cookie[q] = NoCookie THEN "measure" ELSE "spend")
                 /\ exchange' = [exchange EXCEPT ![q] = [@ EXCEPT !.r4 = r, !.t4 = t4]]
                 /\ UNCHANGED <<where, sess, cookie, result>>
              \/ /\ t4 = NoTime
                 /\ Return(q, NoMeasurement)
    /\ UNCHANGED <<world, sessions, history, left>>

SpendCookie(q) ==
    /\ At(q, "spend")
    /\ Goto(q, "refill")
    /\ jars' = [jars EXCEPT ![sess[q]] = MarkSpent(@, cookie[q])]
    /\ UNCHANGED <<world, ntsMu, ntsState, response, issued, locals, result, history, left>>

Refill(q) ==
    /\ At(q, "refill")
    /\ Goto(q, "measure")
    /\ jars' = [jars EXCEPT ![sess[q]] =
                   Added(@, issued, exchange[q].cookies)]
    /\ issued' = issued + exchange[q].cookies
    /\ UNCHANGED <<world, ntsMu, ntsState, response, locals, result, history, left>>

(* measureResponse, with the wall clock's seconds as the coarse time.      *)
Measure(q) ==
    /\ At(q, "measure")
    /\ LET x == exchange[q]
           coarse == Wall \div Sec
       IN  Return(q, Measurement(site.table,
              [r1 |-> x.r1, r4 |-> x.r4, t1 |-> x.t1, t4 |-> x.t4, root |-> x.root,
               t2 |-> UnfoldTimestamp(x.w2, coarse),
               t3 |-> UnfoldTimestamp(x.w3, coarse)]))
    /\ UNCHANGED <<world, sessions, history, left>>

(* No connection, or no answer in time.  A cookie stays in flight.         *)
Fail(q) ==
    /\ at[q] \in {"send", "sent", "served"}
    /\ Spend("fail")
    /\ Return(q, NoMeasurement)
    /\ UNCHANGED <<world, sessions, history>>

(* An answer that is malformed, not authentic or for another request       *)
(* leaves it in flight too; one from a server that is not synchronized,    *)
(* or announces a leap, is refused when its cookies have been taken.       *)
Refuse(q) ==
    /\ at[q] \in {"replied", "measure"}
    /\ Spend("fail")
    /\ Return(q, NoMeasurement)
    /\ UNCHANGED <<world, sessions, history>>

QuerySource(q) ==
    \/ QueryNTP(q) \/ QueryNTS(q) \/ Enter(q) \/ Read(q) \/ Establish(q) \/ FailKE(q)
    \/ Acquire(q) \/ Send(q) \/ ServerReceive(q) \/ ServerReply(q) \/ Receive(q)
    \/ SpendCookie(q) \/ Refill(q) \/ Measure(q) \/ Fail(q) \/ Refuse(q)

Next == Tick \/ \E q \in Queries : QuerySource(q)

Spec == Init /\ [][Next]_vars

-----------------------------------------------------------------------------
(* Properties                                                              *)

(* A measurement holds true time: at some position of the exact counter    *)
(* within RawMidReadBound of RawMid, true time lay in the interval.  Era,  *)
(* leap table, rounding, the path's asymmetry, the read errors and the     *)
(* server's distance must all be inside it, or the query fails.  Assumes   *)
(* an operating system's clock within MaxCoarseErrorSec of true time.      *)
MeasurementHoldsTruth ==
    \A q \in Queries : result[q].earliest # NoTime =>
        \E c \in 0..counter :
            /\ Distance(c, result[q].raw) <= result[q].bound
            /\ timeline[c + 1] \in result[q].earliest..result[q].latest

(* No cookie is sent twice, whichever queries share a jar, fail, or are    *)
(* still using a session that has been replaced.                           *)
CookiesAreSingleUse == \A c \in BagToSet(sent) : sent[c] = 1

(* Low watermark: no query that passed the check of the session's supply   *)
(* finds the jar empty, as long as no more queries run at once than the    *)
(* watermark leaves cookies for, and one more.  Cookies that failed        *)
(* queries left in flight must not starve an endpoint.                     *)
NoStarvation == Cardinality(Queries) <= LowWatermark + 1 => ~starved

(* A session only ever comes from a complete and agreed message.           *)
SessionIsComplete == accepted # <<>> => Complete(accepted)

(* Both sides of the leap second: a label names one instant, and POSIX     *)
(* time is converted back to the instant it came from or not at all.       *)
ConversionsInvert ==
    LET utc == GstInstantToUtc(site.table, truth)
        unix == GstInstantToUnixProjection(site.table, truth)
    IN  /\ UtcToGstInstant(site.table, utc) = truth
        /\ UnixNanosToGstInstant(site.table, unix.nanos) \in {truth, NoTime}
=============================================================================
