----------------------------- MODULE LeapHistory -----------------------------
(***************************************************************************)
(* core.LeapHistory: the continuous GST axis against UTC labels and POSIX  *)
(* seconds.                                                                *)
(*                                                                         *)
(* A second has Sec units.  A label is the POSIX second of its civil date  *)
(* and second of day (day 86400's being 23:59:59's), whether it is the     *)
(* inserted second 86400, and the rest: the calendar is left out.  A table *)
(* is a sequence of transitions, `at' being the POSIX second of the        *)
(* midnight after the leap.                                                *)
(***************************************************************************)
EXTENDS Integers, Sequences

CONSTANTS Sec, NoTime

ASSUME LeapAssumption == Sec \in Nat \ {0} /\ NoTime \notin Int

(* NewLeapHistory's and ParseLeapHistory's validation.                     *)
ValidTable(table) ==
    /\ table \in Seq([at : Int, delta : {1, -1}])
    /\ \A i \in 2..Len(table) : table[i - 1].at < table[i].at

Label(sec, leap, nanos) == [sec |-> sec, leap |-> leap, nanos |-> nanos]

(* The entries are walked with the delta accumulated so far; an inserted   *)
(* second is found at its place on the way.  (Mutant: a transition counts  *)
(* from the inserted second on.)                                           *)
WalkTooEarly(acc, e, s) ==
    IF acc.leap # NoTime THEN acc
    ELSE [acc EXCEPT !.delta = IF s >= e.at + @ THEN @ + e.delta ELSE @]

Walk(acc, e, s) ==
    IF acc.leap # NoTime THEN acc
    ELSE IF e.delta = 1 /\ s = e.at + acc.delta THEN [acc EXCEPT !.leap = e.at - 1]
    ELSE [acc EXCEPT !.delta = IF s >= e.at + @ + e.delta THEN @ + e.delta ELSE @]

GstInstantToUtc(table, inst) ==
    LET s == inst \div Sec
        walked[n \in 0..Len(table)] ==
            IF n = 0 THEN [delta |-> 0, leap |-> NoTime]
            ELSE Walk(walked[n - 1], table[n], s)
        found == walked[Len(table)]
    IN  IF found.leap # NoTime
        THEN Label(found.leap, TRUE, inst % Sec)
        ELSE Label(s - found.delta, FALSE, inst % Sec)

DeltaAt(table, sec) ==
    LET delta[n \in 0..Len(table)] ==
            IF n = 0 THEN 0
            ELSE delta[n - 1] + IF sec >= table[n].at THEN table[n].delta ELSE 0
    IN  delta[Len(table)]

(* Only an inserted second that the table has can be converted back.       *)
UtcToGstInstant(table, utc) ==
    IF ~utc.leap
    THEN (utc.sec + DeltaAt(table, utc.sec)) * Sec + utc.nanos
    ELSE IF \E i \in DOMAIN table : table[i].at = utc.sec + 1 /\ table[i].delta = 1
    THEN (utc.sec + 1 + DeltaAt(table, utc.sec)) * Sec + utc.nanos
    ELSE NoTime

GstInstantToUnixProjection(table, inst) ==
    LET utc == GstInstantToUtc(table, inst)
    IN  [nanos |-> utc.sec * Sec + utc.nanos, leap |-> utc.leap]

(* The second before a transition is repeated or was deleted: rejected.    *)
UnixNanosToGstInstant(table, unix) ==
    LET sec == unix \div Sec
    IN  IF \E i \in DOMAIN table : sec = table[i].at - 1
        THEN NoTime
        ELSE unix + DeltaAt(table, sec) * Sec

(* checkUnixInterval: neither that second nor the one after it may lie in  *)
(* the interval.  (Mutant: an interval need only be one.)                  *)
OnlyAnInterval(table, lo, hi) == lo <= hi

Unambiguous(table, lo, hi) ==
    /\ lo <= hi
    /\ \A i \in DOMAIN table :
          ~(lo \div Sec <= table[i].at /\ hi \div Sec >= table[i].at - 1)
=============================================================================
