------------------------------ MODULE CookieJar ------------------------------
(***************************************************************************)
(* nts.CookieJar: the cookies of one NTS session, each unused, in flight   *)
(* or spent.  Every operation holds the jar's mutex.                       *)
(*                                                                         *)
(* A jar maps its cookies to their states.  Cookies are numbered as they   *)
(* are added, so the code's slice holds them in the order of the numbers.  *)
(***************************************************************************)
EXTENDS Integers, FiniteSetsExt

CONSTANTS Capacity,         \* capacity, and target: the code sets both to 8
          LowWatermark,     \* lowWatermark
          MaxPlaceholders,  \* MaxPlaceholderCount
          NoCookie

ASSUME JarAssumption ==
    /\ Capacity \in Nat \ {0} /\ LowWatermark \in Nat /\ MaxPlaceholders \in Nat
    /\ NoCookie \notin Nat

InState(jar, s) == {c \in DOMAIN jar : jar[c] = s}

Count(jar, s) == Cardinality(InState(jar, s))

(* AddCookies with the n cookies after `last': spent ones make room when   *)
(* the jar is full; what does not fit then is dropped.                     *)
Added(jar, last, n) ==
    LET live == Restrict(jar, {c \in DOMAIN jar : jar[c] # "spent"})
        kept == IF Cardinality(DOMAIN jar) + n > Capacity THEN live ELSE jar
        room == Capacity - Cardinality(DOMAIN kept)
        fits == (last + 1)..(last + IF n < room THEN n ELSE room)
    IN  [c \in DOMAIN kept \union fits |-> IF c \in fits THEN "unused" ELSE kept[c]]

(* (Mutant: strictly below the watermark.)                                 *)
NeedsReplenishmentBelow(jar) == Count(jar, "unused") < LowWatermark

NeedsReplenishment(jar) == Count(jar, "unused") <= LowWatermark

(* AcquireForRequest takes the first unused cookie, if there is one.       *)
(* (Mutant: the first that is not spent.)                                  *)
NextUnspent(jar) ==
    LET live == {c \in DOMAIN jar : jar[c] # "spent"}
    IN  IF live = {} THEN NoCookie ELSE Min(live)

NextUnused(jar) ==
    IF InState(jar, "unused") = {} THEN NoCookie ELSE Min(InState(jar, "unused"))

Marked(jar, id, from, to) ==
    [c \in DOMAIN jar |-> IF c = id /\ jar[c] = from THEN to ELSE jar[c]]

InFlight(jar, id) == Marked(jar, id, "unused", "inflight")

MarkSpent(jar, id) == Marked(jar, id, "inflight", "spent")

(* As many placeholders as bring the jar back to its target.               *)
CalculatePlaceholderCount(jar) ==
    LET needed == Capacity - (Count(jar, "unused") + Count(jar, "inflight"))
    IN  IF needed < 0 THEN 0
        ELSE IF needed < MaxPlaceholders THEN needed ELSE MaxPlaceholders
=============================================================================
