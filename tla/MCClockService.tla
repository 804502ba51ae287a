--------------------------- MODULE MCClockService ---------------------------
(* Values for the constants of ClockService that a .cfg cannot write.      *)
EXTENDS ClockService, TLC

Nothing == [k \in Kinds |-> 0]

NominalRate == [lower |-> 2, upper |-> 2]
WideRate    == [lower |-> 1, upper |-> 2]
InvalidRate == [lower |-> 0, upper |-> 3]

OneEnvelope    == <<WideRate>>
TwoEnvelopes   == <<WideRate, NominalRate>>
BrokenEnvelope == <<NominalRate, InvalidRate, NominalRate>>

HonestHulls == {<<0, 0>>, <<0, 1>>}
FaultyHulls == {<<0, 1>>, <<-2, 3>>, <<1, 5>>}

(* Two calls of Now, and what may happen around a round; one call where a  *)
(* second round follows; none where the watermark alone is in question.    *)
ContainmentBudgets == {
    [Nothing EXCEPT !["now"] = 1, !["round"] = 2],
    [Nothing EXCEPT !["now"] = 2, !["round"] = 1, !["failure"] = 1],
    [Nothing EXCEPT !["now"] = 2, !["round"] = 1, !["scale"] = 1],
    [Nothing EXCEPT !["now"] = 2, !["round"] = 1, !["rewind"] = 1],
    [Nothing EXCEPT !["now"] = 1, !["round"] = 1, !["reset"] = 1],
    [Nothing EXCEPT !["now"] = 2, !["round"] = 1, !["alarm"] = 1],
    [Nothing EXCEPT !["round"] = 2, !["reset"] = 1],
    [Nothing EXCEPT !["round"] = 2, !["invalidate"] = 1] }

(* Repeated rounds and failures; the other transactions and the events of  *)
(* the clock between a round and whatever else the budget holds.           *)
TransactionBudgets == {
    [Nothing EXCEPT !["round"] = 2, !["failure"] = 2, !["invalidate"] = 1],
    [Nothing EXCEPT !["round"] = 2, !["failure"] = 1, !["alarm"] = 1],
    [Nothing EXCEPT !["round"] = 2, !["failure"] = 1, !["commit"] = 1],
    [Nothing EXCEPT !["round"] = 1, !["failure"] = 1, !["external"] = 1,
                    !["invalidate"] = 1],
    [Nothing EXCEPT !["round"] = 1, !["failure"] = 1, !["estimate"] = 1,
                    !["invalidate"] = 1],
    [Nothing EXCEPT !["round"] = 1, !["external"] = 1, !["alarm"] = 1],
    [Nothing EXCEPT !["round"] = 1, !["external"] = 1, !["scale"] = 1],
    [Nothing EXCEPT !["round"] = 1, !["failure"] = 1, !["rewind"] = 1],
    [Nothing EXCEPT !["round"] = 1, !["failure"] = 1, !["reset"] = 1],
    [Nothing EXCEPT !["round"] = 1, !["failure"] = 1, !["scale"] = 1],
    [Nothing EXCEPT !["round"] = 1, !["invalidate"] = 1, !["commit"] = 1],
    [Nothing EXCEPT !["round"] = 1, !["reset"] = 1, !["commit"] = 1] }

BrokenBudgets == {[Nothing EXCEPT !["round"] = 1, !["invalidate"] = 1, !["scale"] = 2]}
=============================================================================
