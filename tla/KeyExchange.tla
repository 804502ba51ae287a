----------------------------- MODULE KeyExchange -----------------------------
(***************************************************************************)
(* nts.ReadServerResponse: an NTS-KE response, record by record.           *)
(*                                                                         *)
(* A record is its type and whether its body and its critical bit are what *)
(* the reader demands of that type (for an unknown record: not critical).  *)
(* The byte limits are a limit on the number of records.                   *)
(***************************************************************************)
EXTENDS Integers, Sequences, FiniteSets

CONSTANT MaxRecords   \* MaxKEMessageSize

ASSUME ExchangeAssumption == MaxRecords \in Nat \ {0}

RecordTypes == {"eom", "protocol", "aead", "cookie", "error", "warning",
                "server", "port", "exporter", "unknown"}

Once == {"protocol", "aead", "server", "port", "exporter"}

Record == [type : RecordTypes, good : BOOLEAN]

(* What has been read: the types seen, the number of cookies, and whether  *)
(* the reader goes on, has returned a response, or an error.               *)
NewResponse == [seen |-> {}, cookies |-> 0, records |-> 0, at |-> "reading"]

(* One round of the loop: a record too many, one that is not good, tells   *)
(* of an error or repeats what may come once ends it.                      *)
(* (Mutant: a message may end without cookies.)                            *)
Refused(r, rec) ==
    r.records >= MaxRecords \/ ~rec.good \/ rec.type \in {"error", "warning"} \union r.seen

ReadWithoutCookies(r, rec) ==
    LET n == [r EXCEPT !.records = @ + 1]
    IN  IF Refused(r, rec) THEN [n EXCEPT !.at = "failed"]
        ELSE CASE rec.type = "eom" ->
                    [n EXCEPT !.at = IF {"protocol", "aead"} \subseteq r.seen
                                     THEN "complete" ELSE "failed"]
               [] rec.type = "cookie" -> [n EXCEPT !.cookies = @ + 1]
               [] rec.type \in Once -> [n EXCEPT !.seen = @ \union {rec.type}]
               [] OTHER -> n

ReadRecord(r, rec) ==
    LET n == [r EXCEPT !.records = @ + 1]
    IN  IF Refused(r, rec) THEN [n EXCEPT !.at = "failed"]
        ELSE CASE rec.type = "eom" ->
                    [n EXCEPT !.at = IF {"protocol", "aead"} \subseteq r.seen /\ r.cookies > 0
                                     THEN "complete" ELSE "failed"]
               [] rec.type = "cookie" -> [n EXCEPT !.cookies = @ + 1]
               [] rec.type \in Once -> [n EXCEPT !.seen = @ \union {rec.type}]
               [] OTHER -> n

Times(message, t) == Cardinality({i \in DOMAIN message : message[i].type = t})

(***************************************************************************)
(* What a complete message is, without reading it in order: it fits, ends  *)
(* with its only End of Message, agrees on the protocol and on one AEAD,   *)
(* brings a cookie, repeats nothing that may come once, and holds no       *)
(* error, no warning and nothing the client would have to understand.      *)
(***************************************************************************)
Complete(message) ==
    /\ Len(message) \in 1..MaxRecords
    /\ \A i \in DOMAIN message : message[i].good
    /\ Times(message, "eom") = 1 /\ message[Len(message)].type = "eom"
    /\ Times(message, "protocol") = 1 /\ Times(message, "aead") = 1
    /\ Times(message, "cookie") > 0
    /\ \A t \in Once : Times(message, t) <= 1
    /\ Times(message, "error") = 0 /\ Times(message, "warning") = 0
=============================================================================
