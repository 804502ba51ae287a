----------------------------- MODULE MCSyncRound -----------------------------
(* Values for the constants of SyncRound that a .cfg cannot write.         *)
EXTENDS SyncRound, TLC

CONSTANTS a1, a2, b, c

(* Three domains, one of them with two sources.                            *)
FourSources == {a1, a2, b, c}

ThreeDomains == [s \in FourSources |-> IF s \in {a1, a2} THEN "a" ELSE s]

(* The sources of a domain are interchangeable, and so are two domains     *)
(* with a source each.                                                     *)
RoundSymmetry ==
    {(a1 :> x[1]) @@ (a2 :> x[2]) @@ (b :> y[1]) @@ (c :> y[2]) :
        x \in {<<a1, a2>>, <<a2, a1>>}, y \in {<<b, c>>, <<c, b>>}}

TwoEnvelopes == <<[lower |-> 1, upper |-> 2], [lower |-> 3, upper |-> 3]>>

HonestErrors == {<<0, 0>>, <<0, 3>>}

(* Too late, too early, and upside down.                                   *)
LyingErrors == {<<-2, 3>>, <<3, -2>>, <<-1, -2>>}
=============================================================================
