---------------------------- MODULE MCSourceQuery ----------------------------
(* Values for the constants of SourceQuery that a .cfg cannot write.       *)
EXTENDS SourceQuery, TLC

QuerySymmetry == Permutations(Queries)

AllKinds == {"tick", "ntp", "nts", "odd", "fail"}

Nothing == [k \in AllKinds |-> 0]

Inserted == <<[at |-> 4, delta |-> 1]>>
Deleted  == <<[at |-> 4, delta |-> -1]>>
Both     == <<[at |-> 2, delta |-> 1], [at |-> 6, delta |-> -1]>>

(* One exchange, next to leap seconds and to the ends of eras.             *)
Exchange(table, start, offset, wall, bound) ==
    [table |-> table, readBound |-> bound, start |-> start, offset |-> offset, wall |-> wall,
     roots |-> {0, 2}, resolution |-> 1,
     budget |-> [Nothing EXCEPT !["tick"] = 4, !["ntp"] = 1]]

Leaps == {Exchange(t, s, s, 0, 0) : t \in {Inserted, Deleted, Both}, s \in {4, 8, 9, 10, 11, 12, 14}}
Eras  == {Exchange(<<>>, s, s + e, w, 0) :
             s \in {4, 10, 11}, e \in {-3, 0}, w \in {-6, 0, 6}}

(* Before its first anchor the estimate is the counter itself.             *)
Unanchored == {Exchange(<<>>, 10, 1, 0, 0)}

Coarse == {[Exchange(<<>>, 4, 4, 0, 1) EXCEPT !.budget["tick"] = 3]}

(* No estimate: sessions and cookies, and odd key exchanges.               *)
Shared == [Nothing EXCEPT !["nts"] = 4, !["fail"] = 1]
Odd    == [Nothing EXCEPT !["nts"] = 1, !["odd"] = 3]
Bare   == {[table |-> <<>>, start |-> 6, readBound |-> 0, offset |-> NoTime, wall |-> 0,
            roots |-> {0}, resolution |-> 0, budget |-> b] : b \in {Shared, Odd}}

AllScenarios == Leaps \union Eras \union Unanchored \union Coarse \union Bare

(* An estimate that has not been synchronized yet, and passes a leap       *)
(* second while true time is seconds away from it.                         *)
Stray == {[Exchange(Inserted, 20, 6, 0, 0) EXCEPT !.roots = {0}, !.budget["tick"] = 5]}
=============================================================================
