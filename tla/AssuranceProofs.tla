--------------------------- MODULE AssuranceProofs ---------------------------
(***************************************************************************)
(* Theorems about the assurance of an interval, for every number of fault  *)
(* domains, every fault budget and every rate: how an interval is carried  *)
(* along, and what the vote of a round is worth.                           *)
(*                                                                         *)
(* The vote.  The sweep is shown to find exactly the points that enough of *)
(* the votes hold, by following it from one end point to the next: what it *)
(* has closed is right for every point before the next end point, and its  *)
(* depth counts the votes that reach beyond the last one.  Nothing begins  *)
(* or ends between two end points, so one number does for the whole gap.   *)
(* Then two counting arguments say why N - F of N votes are enough.        *)
(*                                                                         *)
(* An induction goes over the set of the numbers that have the property: a *)
(* set of naturals that is not empty has a least member.                   *)
(***************************************************************************)
EXTENDS Assurance, Consensus, FiniteSetTheorems, SequenceTheorems, TLAPS

-----------------------------------------------------------------------------
(* Carrying an interval along.                                             *)

(* What is carried: an interval that was right at one reading, under the   *)
(* continuity token and the envelope of that reading.                      *)
IsEvidence(e) ==
    /\ e.raw \in Nat /\ e.token \in Nat /\ e.scale \in Scale
    /\ e.earliest \in Int /\ e.latest \in Int

(* An instant: where the exact counter stands, and true time.              *)
IsInstant(m) == m.exact \in Int /\ m.truth \in Nat

(* How far the exact counter may be from the one that is read.             *)
Offsets == -ReadBound..ReadBound

Elapsed(m, e, k) == m.exact - (e.raw + k)

(* True time is in the interval that was e's when the exact counter stood  *)
(* at e.raw + k, stretched by the time elapsed.                            *)
Holds(m, e, k) ==
    /\ Elapsed(m, e, k) >= 0
    /\ One * e.earliest + e.scale.lower * Elapsed(m, e, k) <= m.truth
    /\ m.truth <= One * e.latest + e.scale.upper * Elapsed(m, e, k)

(* The time from m to n, as evidence under envelope sc sees it.            *)
Passes(m, n, sc) ==
    \/ n.exact = m.exact /\ n.truth = m.truth
    \/ /\ n.exact = m.exact + 1
       /\ m.truth + sc.lower <= n.truth /\ n.truth <= m.truth + sc.upper

LEMMA Quotient ==
  \A x \in Int : /\ x \div One \in Int
                 /\ One * (x \div One) <= x /\ x < One * (x \div One) + One
  BY AssuranceAssumption

LEMMA ProductGrows ==
  ASSUME NEW s \in Nat, NEW x \in Int, NEW y \in Int, x <= y
  PROVE  s * x <= s * y
  OBVIOUS

(* An exact count D is no less than drLo and no more than the read count   *)
(* with both read bounds: the propagated ends are outside the exact ones.  *)
LEMMA Outwards ==
  ASSUME NEW a, IsEvidence(a), ValidScale(a.scale), NEW r \in Nat, a.raw <= r,
         NEW D \in Nat, r - a.raw - 2 * ReadBound <= D,
         D <= r - a.raw + 2 * ReadBound
  PROVE  LET p == Propagated(a, r)
         IN  /\ p.earliest \in Int /\ p.latest \in Int
             /\ One * p.earliest <= One * a.earliest + a.scale.lower * D
             /\ One * a.latest + a.scale.upper * D <= One * p.latest
<1> DEFINE dr == r - a.raw
           error == 2 * ReadBound
           drLo == IF dr > error THEN dr - error ELSE 0
           drHi == dr + error
           lo == a.scale.lower
           hi == a.scale.upper
           down == MulScaleFloor(lo, drLo)
           up == MulScaleCeil(hi, drHi)
<1>1. /\ lo \in Nat /\ hi \in Nat /\ a.earliest \in Int /\ a.latest \in Int
      /\ One \in Nat \ {0}
  BY AssuranceAssumption DEF IsEvidence, ValidScale, Scale
<1>2. drLo \in Nat /\ drHi \in Nat /\ drLo <= D /\ D <= drHi
  BY AssuranceAssumption DEF IsEvidence
<1>3. Propagated(a, r) = [earliest |-> a.earliest + down, latest |-> a.latest + up]
  BY DEF Propagated
<1> HIDE DEF drLo, drHi, lo, hi
<1>4. down \in Int /\ One * down <= lo * D
  <2>1. lo * drLo \in Int /\ lo * D \in Int /\ lo * drLo <= lo * D
    BY <1>1, <1>2, ProductGrows
  <2> DEFINE x == lo * drLo
             y == lo * D
  <2>2. x \in Int /\ y \in Int /\ x <= y
    BY <2>1
  <2> HIDE DEF x, y
  <2>3. x \div One \in Int /\ One * (x \div One) <= x
    BY <2>2, Quotient
  <2>4. One * (x \div One) <= y
    <3> DEFINE q == One * (x \div One)
    <3>1. q \in Int /\ q <= x
      BY <1>1, <2>3
    <3> HIDE DEF q
    <3>2. q <= y
      BY <2>2, <3>1
    <3> QED BY <3>2 DEF q
  <2> QED BY <2>3, <2>4 DEF MulScaleFloor, x, y
<1>5. up \in Int /\ hi * D <= One * up
  <2>1. hi * drHi \in Int /\ hi * D \in Int /\ hi * D <= hi * drHi
    BY <1>1, <1>2, ProductGrows
  <2> DEFINE x == hi * drHi
             y == hi * D
             q == (x + One - 1) \div One
  <2>2. x \in Int /\ y \in Int /\ y <= x
    BY <2>1
  <2> HIDE DEF x, y
  <2>3. x + One - 1 \in Int
    BY <1>1, <2>2
  <2>4. q \in Int /\ x + One - 1 < One * q + One
    BY <2>3, Quotient
  <2> HIDE DEF q
  <2> DEFINE z == One * q
  <2>5. z \in Int
    BY <1>1, <2>4
  <2>6. x + One - 1 < z + One
    BY <2>4
  <2> HIDE DEF z
  <2>7. y <= z
    BY <1>1, <2>2, <2>5, <2>6
  <2> QED BY <2>4, <2>7 DEF MulScaleCeil, x, y, q, z
<1> HIDE DEF down, up
<1>6. /\ One * (a.earliest + down) = One * a.earliest + One * down
      /\ One * (a.latest + up) = One * a.latest + One * up
  BY <1>1, <1>4, <1>5
<1> DEFINE od == One * down
           ou == One * up
           ld == lo * D
           hd == hi * D
           oe == One * a.earliest
           ol == One * a.latest
<1>7. /\ od \in Int /\ ou \in Int /\ ld \in Int /\ hd \in Int /\ oe \in Int /\ ol \in Int
      /\ od <= ld /\ hd <= ou
  BY <1>1, <1>4, <1>5
<1> HIDE DEF od, ou, ld, hd, oe, ol
<1>8. oe + od <= oe + ld /\ ol + hd <= ol + ou
  BY <1>7
<1>9. /\ One * (a.earliest + down) <= One * a.earliest + lo * D
      /\ One * a.latest + hi * D <= One * (a.latest + up)
  BY <1>6, <1>8 DEF od, ou, ld, hd, oe, ol
<1>10. a.earliest + down \in Int /\ a.latest + up \in Int
  BY <1>1, <1>4, <1>5
<1> QED BY <1>3, <1>9, <1>10 DEF lo, hi

LEMMA HoldsStays ==
  ASSUME NEW m, IsInstant(m), NEW n, IsInstant(n), NEW e, IsEvidence(e),
         NEW k \in Offsets, Passes(m, n, e.scale), Holds(m, e, k)
  PROVE  Holds(n, e, k)
<1> DEFINE x == Elapsed(m, e, k)
           y == Elapsed(n, e, k)
           lo == e.scale.lower
           hi == e.scale.upper
<1>0. /\ m.exact \in Int /\ n.exact \in Int /\ e.raw \in Int /\ k \in Int
  <2>1. m.exact \in Int /\ n.exact \in Int
    BY DEF IsInstant
  <2>2. e.raw \in Int
    BY DEF IsEvidence
  <2>3. k \in Int
    BY AssuranceAssumption DEF Offsets
  <2> QED BY <2>1, <2>2, <2>3
<1>1. /\ x \in Int /\ y \in Int /\ lo \in Int /\ hi \in Int
      /\ m.truth \in Int /\ n.truth \in Int
      /\ One * e.earliest \in Int /\ One * e.latest \in Int
  <2>1. x \in Int /\ y \in Int
    BY <1>0 DEF Elapsed
  <2>2. lo \in Int /\ hi \in Int /\ e.earliest \in Int /\ e.latest \in Int
    BY DEF IsEvidence, Scale
  <2>3. m.truth \in Int /\ n.truth \in Int
    BY DEF IsInstant
  <2> QED BY <2>1, <2>2, <2>3, AssuranceAssumption
<1>2. CASE n.exact = m.exact /\ n.truth = m.truth
  BY <1>2 DEF Holds, Elapsed
<1>3. CASE ~(n.exact = m.exact /\ n.truth = m.truth)
  <2>1. /\ y = x + 1
        /\ m.truth + lo <= n.truth /\ n.truth <= m.truth + hi
    <3>1. /\ n.exact = m.exact + 1
          /\ m.truth + lo <= n.truth /\ n.truth <= m.truth + hi
      BY <1>3 DEF Passes
    <3>2. y = x + 1
      <4>1. n.exact = m.exact + 1
        BY <3>1
      <4>2. \A i, j, r, o \in Int : j = i + 1 => j - (r + o) = i - (r + o) + 1
        OBVIOUS
      <4>3. n.exact - (e.raw + k) = m.exact - (e.raw + k) + 1
        BY <1>0, <4>1, <4>2
      <4> QED BY <4>3 DEF Elapsed
    <3> QED BY <3>1, <3>2
  <2>2. /\ x >= 0
        /\ One * e.earliest + lo * x <= m.truth
        /\ m.truth <= One * e.latest + hi * x
    BY DEF Holds
  <2> HIDE DEF x, y, lo, hi
  <2>3. lo * y = lo * x + lo /\ hi * y = hi * x + hi
    BY <1>1, <2>1
  <2>4. lo * x \in Int /\ hi * x \in Int
    BY <1>1
  <2>5. /\ y >= 0
        /\ One * e.earliest + lo * y <= n.truth
        /\ n.truth <= One * e.latest + hi * y
    BY <1>1, <2>1, <2>2, <2>3, <2>4
  <2> QED BY <2>5 DEF Holds, x, y, lo, hi
<1> QED BY <1>2, <1>3

(* Evidence, carried to a reading of this instant, holds true time.        *)
LEMMA Carried ==
  ASSUME NEW m, IsInstant(m), NEW a, IsEvidence(a), ValidScale(a.scale),
         NEW r \in Nat, m.exact - r \in Offsets, a.raw <= r,
         NEW k \in Offsets, Holds(m, a, k)
  PROVE  Contains(Propagated(a, r), m.truth)
<1> DEFINE p == Propagated(a, r)
<1> DEFINE D == Elapsed(m, a, k)
<1>3. /\ D \in Nat
      /\ r - a.raw - 2 * ReadBound <= D /\ D <= r - a.raw + 2 * ReadBound
  <2>1. m.exact \in Int /\ r \in Int /\ a.raw \in Int /\ k \in Int /\ ReadBound \in Nat
    <3>1. m.exact \in Int
      BY DEF IsInstant
    <3>2. a.raw \in Int
      BY DEF IsEvidence
    <3>3. ReadBound \in Nat /\ k \in Int
      BY AssuranceAssumption DEF Offsets
    <3> QED BY <3>1, <3>2, <3>3
  <2>2. /\ -ReadBound <= k /\ k <= ReadBound
        /\ -ReadBound <= m.exact - r /\ m.exact - r <= ReadBound
    BY <2>1, AssuranceAssumption DEF Offsets
  <2>3. D = m.exact - (a.raw + k) /\ D >= 0
    BY DEF Holds, Elapsed
  <2> HIDE DEF D
  <2> QED BY <2>1, <2>2, <2>3
<1>4. /\ p.earliest \in Int /\ p.latest \in Int
      /\ One * p.earliest <= One * a.earliest + a.scale.lower * D
      /\ One * a.latest + a.scale.upper * D <= One * p.latest
  <2> HIDE DEF D
  <2> QED BY <1>3, Outwards
<1> DEFINE lo == One * a.earliest + a.scale.lower * D
           hi == One * a.latest + a.scale.upper * D
           pl == One * p.earliest
           ph == One * p.latest
<1>5. lo <= m.truth /\ m.truth <= hi
  BY DEF Holds
<1>6. /\ lo \in Int /\ hi \in Int /\ pl \in Int /\ ph \in Int /\ m.truth \in Int
      /\ pl <= lo /\ hi <= ph
  <2>1. m.truth \in Int /\ a.scale.lower \in Int /\ a.scale.upper \in Int
        /\ a.earliest \in Int /\ a.latest \in Int
    BY DEF IsInstant, IsEvidence, Scale
  <2> HIDE DEF D, p
  <2> QED BY <1>3, <1>4, <2>1, AssuranceAssumption
<1> HIDE DEF lo, hi
<1>7. pl <= m.truth /\ m.truth <= ph
  <2> HIDE DEF pl, ph
  <2> QED BY <1>5, <1>6
<1> QED BY <1>7 DEF Contains

-----------------------------------------------------------------------------
(* Induction                                                               *)

(* Every set of naturals that is not empty has a least member.             *)
LEMMA LeastNatural ==
  ASSUME NEW T \in SUBSET Nat, T # {}
  PROVE  \E n \in T : \A m \in T : n <= m
<1>1. PICK n \in T : \A m \in T : ~(<<m, n>> \in OpToRel(<, Nat))
  BY WFMin, NatLessThanWellFounded, Zenon
<1>2. \A m \in T : ~(m < n)
  BY <1>1 DEF OpToRel
<1> QED BY <1>2

(* Induction, for the set of the naturals that have a property.            *)
LEMMA Induction ==
  ASSUME NEW S, 0 \in S, \A n \in Nat : n \in S => n + 1 \in S
  PROVE  \A n \in Nat : n \in S
<1> SUFFICES ASSUME Nat \ S # {} PROVE FALSE
  OBVIOUS
<1>1. PICK n \in Nat \ S : \A m \in Nat \ S : n <= m
  BY LeastNatural
<1>2. n # 0 /\ n - 1 \in Nat
  BY <1>1
<1>3. n - 1 \in S
  BY <1>1, <1>2
<1> QED BY <1>1, <1>2, <1>3

(* Induction up to a bound.                                                *)
LEMMA BoundedInduction ==
  ASSUME NEW N \in Nat, NEW S, 0 \in S,
         \A n \in 0..N : n < N /\ n \in S => n + 1 \in S
  PROVE  \A n \in 0..N : n \in S
<1> DEFINE T == {n \in Nat : n <= N => n \in S}
<1>1. 0 \in T
  OBVIOUS
<1>2. ASSUME NEW n \in Nat, n \in T PROVE n + 1 \in T
  BY <1>2
<1> HIDE DEF T
<1>3. \A n \in Nat : n \in T
  BY <1>1, <1>2, Induction
<1> QED BY <1>3 DEF T

-----------------------------------------------------------------------------
(* Finite sets of integers                                                 *)

LEMMA Removed ==
  ASSUME NEW T, IsFiniteSet(T), NEW x \in T
  PROVE  /\ IsFiniteSet(T \ {x}) /\ Cardinality(T \ {x}) \in Nat
         /\ Cardinality(T) = Cardinality(T \ {x}) + 1
<1>1. IsFiniteSet(T \ {x}) /\ Cardinality(T \ {x}) = Cardinality(T) - 1
  BY FS_RemoveElement
<1> QED BY <1>1, FS_CardinalityType

LEMMA EndsExist ==
  ASSUME NEW S \in SUBSET Int, IsFiniteSet(S), S # {}
  PROVE  /\ \E x \in S : \A y \in S : y <= x
         /\ \E x \in S : \A y \in S : x <= y
<1> DEFINE Ends(T) == /\ \E x \in T : \A y \in T : y <= x
                      /\ \E x \in T : \A y \in T : x <= y
           P == {n \in Nat : \A T \in SUBSET Int :
                    IsFiniteSet(T) /\ T # {} /\ Cardinality(T) = n => Ends(T)}
<1>1. 0 \in P
  BY FS_EmptySet
<1>2. ASSUME NEW n \in Nat, n \in P PROVE n + 1 \in P
  <2> SUFFICES ASSUME NEW T \in SUBSET Int, IsFiniteSet(T), T # {}, Cardinality(T) = n + 1
               PROVE  Ends(T)
    OBVIOUS
  <2>1. PICK x \in T : x \in Int
    OBVIOUS
  <2>2. IsFiniteSet(T \ {x}) /\ Cardinality(T \ {x}) = n
    BY <1>2, <2>1, Removed
  <2>3. CASE T \ {x} = {}
    BY <2>1, <2>3
  <2>4. CASE T \ {x} # {}
    <3>1. Ends(T \ {x})
      BY <1>2, <2>2, <2>4
    <3>2. PICK z \in T \ {x} : \A y \in T \ {x} : y <= z
      BY <3>1
    <3>3. PICK w \in T \ {x} : \A y \in T \ {x} : w <= y
      BY <3>1
    <3>4. z \in T /\ w \in T /\ z \in Int /\ w \in Int /\ \A y \in T : y = x \/ y \in T \ {x}
      OBVIOUS
    <3>5. \E u \in T : \A y \in T : y <= u
      <4>1. CASE x <= z
        BY <3>2, <3>4, <4>1
      <4>2. CASE z <= x
        <5>1. \A y \in T : y <= x
          BY <2>1, <3>2, <3>4, <4>2
        <5> QED BY <5>1
      <4> QED BY <2>1, <3>4, <4>1, <4>2
    <3>6. \E u \in T : \A y \in T : u <= y
      <4>1. CASE w <= x
        BY <3>3, <3>4, <4>1
      <4>2. CASE x <= w
        <5>1. \A y \in T : x <= y
          BY <2>1, <3>3, <3>4, <4>2
        <5> QED BY <5>1
      <4> QED BY <2>1, <3>4, <4>1, <4>2
    <3> QED BY <3>5, <3>6
  <2> QED BY <2>3, <2>4
<1> HIDE DEF P
<1>3. Cardinality(S) \in P
  BY <1>1, <1>2, Induction, FS_CardinalityType
<1> QED BY <1>3 DEF P

LEMMA MaxIsMember ==
  ASSUME NEW S \in SUBSET Int, IsFiniteSet(S), S # {}
  PROVE  Max(S) \in S /\ Max(S) \in Int /\ \A y \in S : y <= Max(S)
<1>1. \E x \in S : \A y \in S : x >= y
  <2>1. PICK x \in S : \A y \in S : y <= x
    BY EndsExist
  <2>2. \A y \in S : x >= y
    BY <2>1
  <2> QED BY <2>2
<1>2. Max(S) \in S /\ \A y \in S : Max(S) >= y
  BY <1>1 DEF Max
<1>3. Max(S) \in Int /\ \A y \in S : y \in Int
  BY <1>2
<1> QED BY <1>2, <1>3

LEMMA MinIsMember ==
  ASSUME NEW S \in SUBSET Int, IsFiniteSet(S), S # {}
  PROVE  Min(S) \in S /\ Min(S) \in Int /\ \A y \in S : Min(S) <= y
<1>1. \E x \in S : \A y \in S : x =< y
  BY EndsExist
<1>2. Min(S) \in S /\ \A y \in S : Min(S) =< y
  BY <1>1 DEF Min
<1> QED BY <1>2

-----------------------------------------------------------------------------
(* Sorted                                                                  *)

Below(S, x) == {y \in S : y < x}

LEMMA RankExists ==
  ASSUME NEW S \in SUBSET Int, IsFiniteSet(S), NEW r \in Nat, r < Cardinality(S)
  PROVE  \E x \in S : Cardinality(Below(S, x)) = r
<1> DEFINE P == {n \in Nat : \A T \in SUBSET Int :
                    IsFiniteSet(T) /\ Cardinality(T) = n =>
                       \A q \in Nat : q < n => \E x \in T : Cardinality(Below(T, x)) = q}
<1>1. 0 \in P
  OBVIOUS
<1>2. ASSUME NEW n \in Nat, n \in P PROVE n + 1 \in P
  <2> SUFFICES ASSUME NEW T \in SUBSET Int, IsFiniteSet(T), Cardinality(T) = n + 1,
                      NEW q \in Nat, q < n + 1
               PROVE  \E x \in T : Cardinality(Below(T, x)) = q
    OBVIOUS
  <2>1. T # {}
    BY FS_EmptySet
  <2> DEFINE z == Max(T)
             U == T \ {z}
  <2>2. z \in T /\ z \in Int /\ \A y \in T : y <= z
    BY <2>1, MaxIsMember
  <2> HIDE DEF z
  <2>3. U \in SUBSET Int /\ IsFiniteSet(U) /\ Cardinality(U) = n
    BY <1>2, <2>2, Removed
  <2>4. CASE q = n
    <3>1. Below(T, z) = U
      <4>1. \A y \in T : y < z <=> y # z
        BY <2>2
      <4> QED BY <4>1 DEF Below
    <3> QED BY <2>2, <2>3, <2>4, <3>1
  <2>5. CASE q < n
    <3>1. PICK x \in U : Cardinality(Below(U, x)) = q
      BY <1>2, <2>3, <2>5
    <3>2. Below(T, x) = Below(U, x)
      <4>1. ~(z < x)
        BY <2>2, <3>1
      <4> QED BY <4>1 DEF Below
    <3> QED BY <3>1, <3>2
  <2> QED BY <2>4, <2>5
<1> HIDE DEF P
<1>3. Cardinality(S) \in P
  BY <1>1, <1>2, Induction, FS_CardinalityType
<1> QED BY <1>3 DEF P

LEMMA RankGrows ==
  ASSUME NEW S \in SUBSET Int, IsFiniteSet(S), NEW x \in S, NEW y \in S
  PROVE  /\ Cardinality(Below(S, x)) \in Nat
         /\ Cardinality(Below(S, x)) < Cardinality(S)
         /\ x < y <=> Cardinality(Below(S, x)) < Cardinality(Below(S, y))
<1> DEFINE c(u) == Cardinality(Below(S, u))
<1>1. ASSUME NEW u \in S PROVE IsFiniteSet(Below(S, u)) /\ c(u) \in Nat
  <2>1. Below(S, u) \in SUBSET S
    BY DEF Below
  <2>2. IsFiniteSet(Below(S, u))
    BY <2>1, FS_Subset
  <2> QED BY <2>2, FS_CardinalityType
<1>2. ASSUME NEW u \in S, NEW v \in S, u < v PROVE c(u) < c(v)
  <2>1. u \in Below(S, v)
    BY <1>2 DEF Below
  <2>2. Below(S, u) \in SUBSET (Below(S, v) \ {u})
    <3>1. \A w \in S : w < u => w < v /\ w # u
      BY <1>2
    <3> QED BY <3>1 DEF Below
  <2>3. /\ IsFiniteSet(Below(S, v) \ {u}) /\ Cardinality(Below(S, v) \ {u}) \in Nat
        /\ c(v) = Cardinality(Below(S, v) \ {u}) + 1
    BY <1>1, <2>1, Removed
  <2>4. c(u) <= Cardinality(Below(S, v) \ {u})
    BY <2>2, <2>3, FS_Subset
  <2>5. c(u) \in Nat
    BY <1>1
  <2> HIDE DEF c
  <2> QED BY <2>3, <2>4, <2>5
<1>3. c(x) < Cardinality(S)
  <2>1. Below(S, x) \in SUBSET (S \ {x})
    BY DEF Below
  <2>2. /\ IsFiniteSet(S \ {x}) /\ Cardinality(S \ {x}) \in Nat
        /\ Cardinality(S) = Cardinality(S \ {x}) + 1
    BY Removed
  <2>3. c(x) <= Cardinality(S \ {x}) /\ c(x) \in Nat
    BY <1>1, <2>1, <2>2, FS_Subset
  <2> HIDE DEF c
  <2> QED BY <2>2, <2>3
<1>4. x < y \/ x = y \/ y < x
  OBVIOUS
<1>5. x < y <=> c(x) < c(y)
  <2>1. c(x) \in Nat /\ c(y) \in Nat
    BY <1>1
  <2>2. x < y => c(x) < c(y)
    BY <1>2
  <2>3. y < x => c(y) < c(x)
    BY <1>2
  <2>4. x = y => c(x) = c(y)
    OBVIOUS
  <2> HIDE DEF c
  <2> QED BY <1>4, <2>1, <2>2, <2>3, <2>4
<1> QED BY <1>1, <1>3, <1>5

(* Sorted lists the set, each member once, in increasing order.            *)
LEMMA SortedLists ==
  ASSUME NEW S \in SUBSET Int, IsFiniteSet(S)
  PROVE  LET xs == Sorted(S)
         IN  /\ xs \in Seq(Int) /\ Len(xs) = Cardinality(S)
             /\ \A n \in 1..Len(xs) : xs[n] \in S
             /\ \A m, n \in 1..Len(xs) : m < n <=> xs[m] < xs[n]
             /\ \A y \in S : \E n \in 1..Len(xs) : xs[n] = y
<1> DEFINE N == Cardinality(S)
           xs == Sorted(S)
<1>1. N \in Nat
  BY FS_CardinalityType
<1>2. ASSUME NEW n \in 1..N
      PROVE  xs[n] \in S /\ Cardinality(Below(S, xs[n])) = n - 1
  <2>1. n - 1 \in Nat /\ n - 1 < N
    BY <1>1
  <2>2. \E x \in S : Cardinality({y \in S : y < x}) = n - 1
    BY <2>1, RankExists DEF Below
  <2> DEFINE Ranks(x) == Cardinality({y \in S : y < x}) = n - 1
  <2>3. xs[n] = CHOOSE x \in S : Ranks(x)
    BY DEF Sorted
  <2>4. \E x \in S : Ranks(x)
    BY <2>2
  <2> HIDE DEF xs, Ranks
  <2>5. xs[n] \in S /\ Ranks(xs[n])
    BY <2>3, <2>4
  <2> QED BY <2>5 DEF Below, Ranks
<1>3. xs \in Seq(Int) /\ Len(xs) = N
  <2> DEFINE nth(n) == CHOOSE x \in S : Cardinality({y \in S : y < x}) = n - 1
  <2>0. xs = [n \in 1..N |-> nth(n)]
    BY DEF Sorted
  <2> HIDE DEF xs, nth
  <2>1. xs = [n \in 1..N |-> xs[n]]
    BY <2>0
  <2>2. \A n \in 1..N : xs[n] \in Int
    BY <1>2
  <2>3. xs \in [1..N -> Int]
    BY <2>1, <2>2
  <2>4. xs \in Seq(Int)
    BY <1>1, <2>3
  <2> QED BY <1>1, <2>3, <2>4
<1> HIDE DEF xs
<1>4. ASSUME NEW m \in 1..N, NEW n \in 1..N PROVE m < n <=> xs[m] < xs[n]
  <2>1. xs[m] \in S /\ xs[n] \in S
    BY <1>2
  <2>2. Cardinality(Below(S, xs[m])) = m - 1 /\ Cardinality(Below(S, xs[n])) = n - 1
    BY <1>2
  <2>3. xs[m] < xs[n] <=> m - 1 < n - 1
    <3>1. xs[m] < xs[n]
            <=> Cardinality(Below(S, xs[m])) < Cardinality(Below(S, xs[n]))
      BY <2>1, RankGrows
    <3> QED BY <2>2, <3>1
  <2> QED BY <1>1, <2>3
<1>5. ASSUME NEW y \in S PROVE \E n \in 1..N : xs[n] = y
  <2> DEFINE r == Cardinality(Below(S, y))
  <2>1. r \in Nat /\ r < N
    BY RankGrows
  <2>2. r + 1 \in 1..N
    BY <1>1, <2>1
  <2>3. xs[r + 1] \in S /\ Cardinality(Below(S, xs[r + 1])) = r
    <3>1. xs[r + 1] \in S /\ Cardinality(Below(S, xs[r + 1])) = (r + 1) - 1
      BY <1>2, <2>2
    <3> HIDE DEF r
    <3> QED BY <2>1, <3>1
  <2>4. ~(xs[r + 1] < y) /\ ~(y < xs[r + 1])
    <3> DEFINE z == xs[r + 1]
    <3> HIDE DEF z
    <3>1. z \in S /\ Cardinality(Below(S, z)) = r
      BY <2>3 DEF z
    <3>2. /\ z < y <=> Cardinality(Below(S, z)) < r
          /\ y < z <=> r < Cardinality(Below(S, z))
      BY <3>1, RankGrows
    <3>3. ~(z < y) /\ ~(y < z)
      BY <2>1, <3>1, <3>2
    <3> QED BY <3>3 DEF z
  <2>5. xs[r + 1] \in Int /\ y \in Int
    BY <2>3
  <2>6. xs[r + 1] = y
    BY <2>4, <2>5
  <2> QED BY <2>2, <2>6
<1> QED BY <1>2, <1>3, <1>4, <1>5 DEF xs

-----------------------------------------------------------------------------
(* The recursions of Sweep and MergeTouching                               *)

(* Before the first end point.                                             *)
Begun == [depth |-> 0, open |-> <<>>, components |-> <<>>]

SweepStates(w, I, k, xs) ==
    /\ w[0] = Begun
    /\ \A n \in 1..Len(xs) : w[n] = SweepPoint(I, k, xs, w[n - 1], n)
    /\ Sweep(I, k) = w[Len(xs)].components \o w[Len(xs)].open

(* The recursion of Sweep has a solution: the states of the sweep.         *)
LEMMA SweepRuns ==
  ASSUME NEW I, NEW k, NEW xs, xs = Sorted(EndPoints(I)), Len(xs) \in Nat
  PROVE  \E w : SweepStates(w, I, k, xs)
<1> DEFINE N == Len(xs)
           F(m, f) == f = [n \in 0..m |-> IF n = 0 THEN Begun
                                          ELSE SweepPoint(I, k, xs, f[n - 1], n)]
           P == {m \in Nat : \E f : F(m, f)}
<1>1. 0 \in P
  <2> DEFINE f == [n \in 0..0 |-> Begun]
  <2>1. F(0, f)
    OBVIOUS
  <2> QED BY <2>1
<1>2. ASSUME NEW m \in Nat, m \in P PROVE m + 1 \in P
  <2>1. PICK f : F(m, f)
    BY <1>2
  <2> DEFINE g == [n \in 0..(m + 1) |-> IF n <= m THEN f[n]
                                        ELSE SweepPoint(I, k, xs, f[m], m + 1)]
  <2>2. \A n \in 0..m : f[n] = IF n = 0 THEN Begun ELSE SweepPoint(I, k, xs, f[n - 1], n)
    BY <2>1
  <2>3. g[0] = Begun
    BY <2>2
  <2>4. ASSUME NEW n \in 1..(m + 1) PROVE g[n] = SweepPoint(I, k, xs, g[n - 1], n)
    <3>1. n - 1 \in 0..m /\ n - 1 \in 0..(m + 1) /\ n - 1 <= m
      OBVIOUS
    <3>2. g[n - 1] = f[n - 1]
      BY <3>1
    <3>3. CASE n <= m
      <4>1. g[n] = f[n] /\ n \in 0..m /\ n # 0
        BY <3>3
      <4> QED BY <2>2, <3>2, <4>1
    <3>4. CASE n = m + 1
      <4>1. g[n] = SweepPoint(I, k, xs, f[m], m + 1) /\ n - 1 = m
        BY <3>4
      <4> QED BY <3>2, <3>4, <4>1
    <3> QED BY <3>3, <3>4
  <2>5. F(m + 1, g)
    <3>1. g = [n \in 0..(m + 1) |-> g[n]]
      OBVIOUS
    <3> HIDE DEF g
    <3>2. \A n \in 0..(m + 1) :
             g[n] = IF n = 0 THEN Begun ELSE SweepPoint(I, k, xs, g[n - 1], n)
      BY <2>3, <2>4
    <3> QED BY <3>1, <3>2
  <2> HIDE DEF F, g
  <2> QED BY <2>5
<1> HIDE DEF P
<1>3. N \in P
  BY <1>1, <1>2, Induction
<1>4. \E f : F(N, f)
  BY <1>3 DEF P
<1> DEFINE w == CHOOSE f : F(N, f)
<1>5. F(N, w)
  BY <1>4
<1>6. Sweep(I, k) = w[N].components \o w[N].open
  BY DEF Sweep, Begun
<1> HIDE DEF w
<1>7. w[0] = Begun /\ \A n \in 1..N : w[n] = SweepPoint(I, k, xs, w[n - 1], n)
  BY <1>5
<1>8. SweepStates(w, I, k, xs)
  BY <1>6, <1>7 DEF SweepStates
<1> QED BY <1>8

(* Components that do not touch are left as they are.                      *)
LEMMA MergeKeeps ==
  ASSUME NEW c \in Seq(Interval),
         \A n \in 1..(Len(c) - 1) : c[n].latest < c[n + 1].earliest
  PROVE  MergeTouching(c) = c
<1> DEFINE N == Len(c)
           part == [n \in 0..N |-> [i \in 1..n |-> c[i]]]
           F(f) == f = [n \in 0..N |-> IF n = 0 THEN <<>> ELSE Merged(f[n - 1], c[n])]
<1>1. N \in Nat /\ \A n \in 1..N : c[n] \in Interval
  BY LenProperties, ElementOfSeq
<1>2. part[0] = <<>>
  OBVIOUS
<1>3. ASSUME NEW n \in 1..N PROVE part[n] = Merged(part[n - 1], c[n])
  <2> DEFINE b == part[n - 1]
  <2>1. b = [i \in 1..(n - 1) |-> c[i]] /\ part[n] = [i \in 1..n |-> c[i]]
    BY <1>1
  <2>2. b \in Seq(Interval) /\ Len(b) = n - 1
    <3>1. n - 1 \in Nat /\ \A i \in 1..(n - 1) : i \in 1..N
      BY <1>1
    <3> HIDE DEF b, part
    <3>2. b \in [1..(n - 1) -> Interval]
      <4>1. \A i \in 1..(n - 1) : c[i] \in Interval
        BY <1>1, <3>1
      <4> QED BY <2>1, <4>1
    <3>3. b \in Seq(Interval)
      BY <3>1, <3>2, SeqDef
    <3>4. DOMAIN b = 1..(n - 1) /\ DOMAIN b = 1..Len(b) /\ Len(b) \in Nat
      BY <3>2, <3>3, LenProperties
    <3> QED BY <3>1, <3>3, <3>4
  <2> HIDE DEF b, part
  <2>3. part[n] = Append(b, c[n])
    <3>1. Append(b, c[n]) = [i \in 1..n |-> IF i <= n - 1 THEN b[i] ELSE c[n]]
      BY <2>2
    <3>2. \A i \in 1..n : (IF i <= n - 1 THEN b[i] ELSE c[n]) = c[i]
      BY <2>1
    <3> QED BY <2>1, <3>1, <3>2
  <2>4. ASSUME b # <<>> PROVE ~(c[n].earliest <= b[Len(b)].latest)
    <3>1. n - 1 \in 1..(N - 1)
      <4>1. Len(b) # 0
        BY <2>2, <2>4, EmptySeq
      <4>2. n - 1 # 0
        BY <2>2, <4>1
      <4> QED BY <1>1, <4>2
    <3>2. b[Len(b)] = c[n - 1]
      BY <2>1, <2>2, <3>1
    <3>3. c[n - 1].latest < c[n].earliest
      BY <3>1
    <3>4. c[n - 1].latest \in Int /\ c[n].earliest \in Int
      <4>1. n - 1 \in 1..N
        BY <1>1, <3>1
      <4>2. c[n - 1] \in Interval /\ c[n] \in Interval
        BY <1>1, <4>1
      <4> QED BY <4>2 DEF Interval
    <3> QED BY <3>2, <3>3, <3>4
  <2>5. ~(b # <<>> /\ c[n].earliest <= b[Len(b)].latest)
    BY <2>4
  <2>6. Merged(b, c[n]) = Append(b, c[n])
    BY <2>5, Zenon DEF Merged
  <2> QED BY <2>3, <2>6 DEF b
<1>4. F(part)
  <2>1. part = [n \in 0..N |-> part[n]]
    OBVIOUS
  <2> HIDE DEF part
  <2>2. \A n \in 0..N : part[n] = IF n = 0 THEN <<>> ELSE Merged(part[n - 1], c[n])
    BY <1>2, <1>3
  <2> QED BY <2>1, <2>2
<1> DEFINE f == CHOOSE g : F(g)
<1>5. F(f)
  <2> HIDE DEF part, F
  <2> QED BY <1>4
<1>6. MergeTouching(c) = f[N]
  BY DEF MergeTouching
<1> HIDE DEF f, part
<1>7. \A n \in 0..N : f[n] = part[n]
  <2> DEFINE P == {n \in 0..N : f[n] = part[n]}
  <2>1. 0 \in P
    BY <1>1, <1>2, <1>5
  <2>2. ASSUME NEW n \in 0..N, n < N, n \in P PROVE n + 1 \in P
    <3>1. n + 1 \in 1..N /\ (n + 1) - 1 = n
      BY <1>1, <2>2
    <3>2. f[n + 1] = Merged(f[n], c[n + 1])
      BY <1>5, <3>1
    <3>3. part[n + 1] = Merged(part[n], c[n + 1])
      BY <1>3, <3>1
    <3> QED BY <2>2, <3>1, <3>2, <3>3
  <2> HIDE DEF P
  <2>3. \A n \in 0..N : n \in P
    BY <1>1, <2>1, <2>2, BoundedInduction
  <2> QED BY <2>3 DEF P
<1>8. part[N] = c
  <2>1. part[N] = [i \in 1..N |-> c[i]]
    BY <1>1 DEF part
  <2> QED BY <1>1, <2>1
<1> QED BY <1>1, <1>6, <1>7, <1>8

-----------------------------------------------------------------------------
(* Counting votes                                                          *)

(* What the votes are when a round's consensus is computed.                *)
Voted(I) ==
    /\ IsFiniteSet(DOMAIN I) /\ DOMAIN I # {}
    /\ \A d \in DOMAIN I : /\ I[d].earliest \in Int /\ I[d].latest \in Int
                           /\ I[d].earliest <= I[d].latest

Covering(I, x) == {d \in DOMAIN I : 2 * I[d].earliest <= x /\ x <= 2 * I[d].latest}

(* The votes that hold the end point x; that reach it from before it; that *)
(* reach beyond it.                                                        *)
AtPoint(I, x) == {d \in DOMAIN I : I[d].earliest <= x /\ x <= I[d].latest}

Reaching(I, x) == {d \in DOMAIN I : I[d].earliest < x /\ x <= I[d].latest}

Onward(I, x) == {d \in DOMAIN I : I[d].earliest <= x /\ x < I[d].latest}

LEMMA EndPointsFinite ==
  ASSUME NEW I, Voted(I)
  PROVE  /\ EndPoints(I) \in SUBSET Int /\ IsFiniteSet(EndPoints(I)) /\ EndPoints(I) # {}
         /\ \A d \in DOMAIN I : I[d].earliest \in EndPoints(I) /\ I[d].latest \in EndPoints(I)
<1> DEFINE S == EndPoints(I)
           L == {I[d].earliest : d \in DOMAIN I}
           H == {I[d].latest : d \in DOMAIN I}
<1>1. S = L \union H
  BY DEF EndPoints
<1>2. IsFiniteSet(L) /\ IsFiniteSet(H)
  <2> DEFINE f == [d \in DOMAIN I |-> I[d].earliest]
             g == [d \in DOMAIN I |-> I[d].latest]
  <2>1. f \in Surjection(DOMAIN I, L) /\ g \in Surjection(DOMAIN I, H)
    BY DEF Surjection
  <2>2. IsFiniteSet(DOMAIN I)
    BY DEF Voted
  <2> HIDE DEF f, g, L, H
  <2> QED BY <2>1, <2>2, FS_Surjection
<1>3. IsFiniteSet(S)
  <2> HIDE DEF L, H, S
  <2> QED BY <1>1, <1>2, FS_Union
<1>4. S \in SUBSET Int /\ \A d \in DOMAIN I : I[d].earliest \in S /\ I[d].latest \in S
  BY <1>1 DEF Voted
<1>5. S # {}
  BY <1>4 DEF Voted
<1> QED BY <1>3, <1>4, <1>5

LEMMA EndPointsListed ==
  ASSUME NEW I, Voted(I)
  PROVE  LET xs == Sorted(EndPoints(I))
         IN  /\ xs \in Seq(Int) /\ Len(xs) \in Nat \ {0}
             /\ \A n \in 1..Len(xs) : xs[n] \in Int
             /\ \A m, n \in 1..Len(xs) : m < n <=> xs[m] < xs[n]
             /\ \A d \in DOMAIN I : /\ \E n \in 1..Len(xs) : xs[n] = I[d].earliest
                                    /\ \E n \in 1..Len(xs) : xs[n] = I[d].latest
<1> DEFINE S == EndPoints(I)
           xs == Sorted(S)
<1>1. /\ IsFiniteSet(S) /\ S \in SUBSET Int /\ S # {}
      /\ \A d \in DOMAIN I : I[d].earliest \in S /\ I[d].latest \in S
  BY EndPointsFinite
<1> HIDE DEF S
<1>2. /\ xs \in Seq(Int) /\ Len(xs) = Cardinality(S)
      /\ \A n \in 1..Len(xs) : xs[n] \in S
      /\ \A m, n \in 1..Len(xs) : m < n <=> xs[m] < xs[n]
      /\ \A y \in S : \E n \in 1..Len(xs) : xs[n] = y
  BY <1>1, SortedLists
<1> HIDE DEF xs
<1>3. Len(xs) \in Nat \ {0}
  BY <1>1, <1>2, FS_CardinalityType, FS_EmptySet
<1>4. \A n \in 1..Len(xs) : xs[n] \in Int
  BY <1>1, <1>2
<1>5. \A d \in DOMAIN I : /\ \E n \in 1..Len(xs) : xs[n] = I[d].earliest
                          /\ \E n \in 1..Len(xs) : xs[n] = I[d].latest
  BY <1>1, <1>2
<1> QED BY <1>2, <1>3, <1>4, <1>5 DEF xs, S

LEMMA VotesCounted ==
  ASSUME NEW I, Voted(I), NEW x \in Int
  PROVE  /\ Cardinality(AtPoint(I, x)) \in Nat /\ Cardinality(Onward(I, x)) \in Nat
         /\ Cardinality(Reaching(I, x)) \in Nat
         /\ Cardinality(AtPoint(I, x)) = Cardinality(Reaching(I, x)) + Lows(I, x)
         /\ Cardinality(Onward(I, x)) = Cardinality(AtPoint(I, x)) - Highs(I, x)
         /\ Cardinality(Onward(I, x)) <= Cardinality(AtPoint(I, x))
         /\ Cardinality(Reaching(I, x)) <= Cardinality(AtPoint(I, x))
<1> DEFINE low == {d \in DOMAIN I : I[d].earliest = x}
           high == {d \in DOMAIN I : I[d].latest = x}
           A == AtPoint(I, x)
           R == Reaching(I, x)
           O == Onward(I, x)
<1>1. /\ IsFiniteSet(DOMAIN I) /\ low \subseteq DOMAIN I /\ high \subseteq DOMAIN I
      /\ A \subseteq DOMAIN I /\ R \subseteq DOMAIN I /\ O \subseteq DOMAIN I
  BY DEF Voted, AtPoint, Reaching, Onward
<1>2. A = R \union low /\ R \intersect low = {}
  BY DEF Voted, AtPoint, Reaching
<1>3. O = A \ high /\ A \intersect high = high
  BY DEF Voted, AtPoint, Onward
<1>4. Lows(I, x) = Cardinality(low) /\ Highs(I, x) = Cardinality(high)
  BY DEF Lows, Highs
<1> HIDE DEF low, high, A, R, O
<1>5. /\ IsFiniteSet(low) /\ IsFiniteSet(high) /\ IsFiniteSet(A)
      /\ IsFiniteSet(R) /\ IsFiniteSet(O)
  BY <1>1, FS_Subset
<1>6. /\ Cardinality(low) \in Nat /\ Cardinality(high) \in Nat /\ Cardinality(A) \in Nat
      /\ Cardinality(R) \in Nat /\ Cardinality(O) \in Nat
  BY <1>5, FS_CardinalityType
<1>7. Cardinality(A) = Cardinality(R) + Cardinality(low)
  <2>1. Cardinality(R \union low)
          = Cardinality(R) + Cardinality(low) - Cardinality(R \intersect low)
    BY <1>5, FS_Union
  <2>2. Cardinality(R \intersect low) = 0
    BY <1>2, FS_EmptySet
  <2> QED BY <1>2, <1>6, <2>1, <2>2
<1>8. Cardinality(O) = Cardinality(A) - Cardinality(high)
  <2>1. Cardinality(A \ high) = Cardinality(A) - Cardinality(A \intersect high)
    BY <1>5, FS_Difference
  <2> QED BY <1>3, <2>1
<1>9. Cardinality(O) <= Cardinality(A) /\ Cardinality(R) <= Cardinality(A)
  BY <1>6, <1>7, <1>8
<1> QED BY <1>4, <1>6, <1>7, <1>8, <1>9 DEF A, R, O

(* Between one end point and the next nothing begins or ends.              *)
LEMMA NothingBetween ==
  ASSUME NEW I, Voted(I), NEW x \in Int, NEW y \in Int, x < y,
         \A d \in DOMAIN I : /\ I[d].earliest <= x \/ y <= I[d].earliest
                             /\ I[d].latest <= x \/ y <= I[d].latest
  PROVE  /\ Reaching(I, y) = Onward(I, x)
         /\ \A z \in Int : 2 * x < z /\ z < 2 * y => Covering(I, z) = Onward(I, x)
<1>1. ASSUME NEW d \in DOMAIN I
      PROVE  /\ I[d].earliest < y <=> I[d].earliest <= x
             /\ y <= I[d].latest <=> x < I[d].latest
  BY DEF Voted
<1>2. ASSUME NEW z \in Int, 2 * x < z, z < 2 * y, NEW d \in DOMAIN I
      PROVE  /\ 2 * I[d].earliest <= z <=> I[d].earliest <= x
             /\ z <= 2 * I[d].latest <=> x < I[d].latest
  <2> DEFINE e == I[d].earliest
             l == I[d].latest
  <2>1. e \in Int /\ l \in Int /\ (e <= x \/ y <= e) /\ (l <= x \/ y <= l)
    BY DEF Voted
  <2> HIDE DEF e, l
  <2>2. /\ 2 * e <= z <=> e <= x
        /\ z <= 2 * l <=> x < l
    BY <1>2, <2>1
  <2> QED BY <2>2 DEF e, l
<1>3. Reaching(I, y) = Onward(I, x)
  BY <1>1 DEF Reaching, Onward
<1>4. \A z \in Int : 2 * x < z /\ z < 2 * y => Covering(I, z) = Onward(I, x)
  BY <1>2 DEF Covering, Onward
<1> QED BY <1>3, <1>4

LEMMA OnThePoint ==
  ASSUME NEW I, Voted(I), NEW x \in Int
  PROVE  Covering(I, 2 * x) = AtPoint(I, x)
<1>1. ASSUME NEW d \in DOMAIN I
      PROVE  /\ 2 * I[d].earliest <= 2 * x <=> I[d].earliest <= x
             /\ 2 * x <= 2 * I[d].latest <=> x <= I[d].latest
  BY DEF Voted
<1> QED BY <1>1 DEF Covering, AtPoint

-----------------------------------------------------------------------------
(* The sweep                                                               *)

InSome(c, x) == \E i \in 1..Len(c) : 2 * c[i].earliest <= x /\ x <= 2 * c[i].latest

Apart(c) ==
    /\ c \in Seq(Interval)
    /\ \A i \in 1..Len(c) : c[i].earliest <= c[i].latest
    /\ \A i, j \in 1..Len(c) : i < j => c[i].latest < c[j].earliest

EndsBefore(c, y) == \A i \in 1..Len(c) : c[i].latest < y

Covered(I, k, x) == Cardinality(Covering(I, x)) >= k

LEMMA Joined ==
  ASSUME NEW c, Apart(c), NEW v \in Interval, v.earliest <= v.latest,
         EndsBefore(c, v.earliest)
  PROVE  /\ Apart(c \o <<v>>)
         /\ \A x \in Int : InSome(c \o <<v>>, x)
               <=> InSome(c, x) \/ (2 * v.earliest <= x /\ x <= 2 * v.latest)
         /\ \A y \in Int : v.latest < y => EndsBefore(c \o <<v>>, y)
<1> DEFINE N == Len(c)
           b == c \o <<v>>
<1>1. /\ N \in Nat /\ \A i \in 1..N : c[i] \in Interval
      /\ v.earliest \in Int /\ v.latest \in Int
      /\ \A i \in 1..N : c[i].earliest \in Int /\ c[i].latest \in Int
  <2>1. c \in Seq(Interval)
    BY DEF Apart
  <2>2. N \in Nat /\ \A i \in 1..N : c[i] \in Interval
    BY <2>1, LenProperties, ElementOfSeq
  <2> HIDE DEF N
  <2> QED BY <2>2 DEF Interval
<1>2. /\ b \in Seq(Interval) /\ Len(b) = N + 1
      /\ \A i \in 1..N : b[i] = c[i]
      /\ b[N + 1] = v
  <2>1. c \in Seq(Interval) /\ <<v>> \in Seq(Interval) /\ Len(<<v>>) = 1 /\ <<v>>[1] = v
    BY DEF Apart
  <2>2. b \in Seq(Interval) /\ Len(b) = N + 1
    BY <2>1, ConcatProperties
  <2>3. \A i \in 1..(N + 1) : b[i] = IF i <= N THEN c[i] ELSE <<v>>[i - N]
    BY <2>1, ConcatProperties
  <2> HIDE DEF b, N
  <2>4. \A i \in 1..N : b[i] = c[i]
    BY <1>1, <2>3
  <2>5. b[N + 1] = <<v>>[(N + 1) - N] /\ (N + 1) - N = 1
    BY <1>1, <2>3
  <2> QED BY <2>1, <2>2, <2>4, <2>5
<1> HIDE DEF b, N
<1>3. \A i \in 1..(N + 1) : i \in 1..N \/ i = N + 1
  BY <1>1
<1>4. \A i \in 1..N : i \in 1..(N + 1) /\ i < N + 1 /\ ~(N + 1 < i)
  BY <1>1
<1>5. N + 1 \in 1..(N + 1) /\ ~(N + 1 < N + 1)
  BY <1>1
<1>6. Apart(b)
  <2>1. \A i \in 1..(N + 1) : b[i].earliest <= b[i].latest
    BY <1>2, <1>3 DEF Apart, N
  <2>2. ASSUME NEW i \in 1..(N + 1), NEW j \in 1..(N + 1), i < j
        PROVE  b[i].latest < b[j].earliest
    <3>1. i \in 1..N
      BY <1>1, <2>2
    <3>2. CASE j \in 1..N
      BY <1>2, <2>2, <3>1, <3>2 DEF Apart, N
    <3>3. CASE j = N + 1
      BY <1>2, <3>1, <3>3 DEF EndsBefore, N
    <3> QED BY <1>3, <3>2, <3>3
  <2> QED BY <1>2, <2>1, <2>2 DEF Apart
<1>7. ASSUME NEW x \in Int
      PROVE  InSome(b, x) <=> InSome(c, x) \/ (2 * v.earliest <= x /\ x <= 2 * v.latest)
  <2> DEFINE P(i) == 2 * b[i].earliest <= x /\ x <= 2 * b[i].latest
  <2>1. InSome(b, x) <=> \E i \in 1..(N + 1) : P(i)
    BY <1>2 DEF InSome
  <2>2. (\E i \in 1..N : P(i)) <=> InSome(c, x)
    BY <1>2 DEF InSome, N
  <2>3. P(N + 1) <=> 2 * v.earliest <= x /\ x <= 2 * v.latest
    BY <1>2
  <2> HIDE DEF P
  <2> QED BY <1>3, <1>4, <1>5, <2>1, <2>2, <2>3
<1>8. ASSUME NEW y \in Int, v.latest < y PROVE EndsBefore(b, y)
  <2>1. v.earliest < y
    BY <1>1, <1>8
  <2>2. ASSUME NEW i \in 1..N PROVE b[i].latest < y
    <3>1. b[i].latest = c[i].latest /\ c[i].latest < v.earliest /\ c[i].latest \in Int
      BY <1>1, <1>2 DEF EndsBefore, N
    <3> QED BY <1>1, <2>1, <3>1
  <2> QED BY <1>2, <1>3, <1>8, <2>2 DEF EndsBefore
<1> QED BY <1>6, <1>7, <1>8 DEF b

(* The votes between the ends of the list, and outside it.                 *)
LEMMA Gaps ==
  ASSUME NEW I, Voted(I), NEW xs, xs = Sorted(EndPoints(I)), NEW n \in 1..Len(xs)
  PROVE  /\ xs[n] \in Int
         /\ n < Len(xs) => xs[n + 1] \in Int /\ xs[n] < xs[n + 1]
         /\ Reaching(I, xs[n]) = IF n = 1 THEN {} ELSE Onward(I, xs[n - 1])
         /\ n = 1 => \A x \in Int : x < 2 * xs[1] => Covering(I, x) = {}
         /\ n = Len(xs) => Onward(I, xs[n]) = {}
         /\ \A x \in Int : 2 * xs[n] < x /\ (n < Len(xs) => x < 2 * xs[n + 1])
               => Covering(I, x) = Onward(I, xs[n])
<1> DEFINE N == Len(xs)
<1>1. /\ N \in Nat \ {0} /\ \A m \in 1..N : xs[m] \in Int
      /\ \A l, m \in 1..N : l < m <=> xs[l] < xs[m]
      /\ \A d \in DOMAIN I : /\ \E m \in 1..N : xs[m] = I[d].earliest
                             /\ \E m \in 1..N : xs[m] = I[d].latest
  BY EndPointsListed
<1>2. /\ xs[n] \in Int
      /\ n < N => xs[n + 1] \in Int /\ xs[n] < xs[n + 1]
  <2>1. n < N => n + 1 \in 1..N /\ n < n + 1
    BY <1>1
  <2> QED BY <1>1, <2>1
<1> HIDE DEF N
<1>3. ASSUME NEW m \in 1..N, m < N, NEW l \in 1..N
      PROVE  xs[l] <= xs[m] \/ xs[m + 1] <= xs[l]
  <2>1. m + 1 \in 1..N /\ (l < m \/ l = m \/ l = m + 1 \/ m + 1 < l)
    BY <1>1, <1>3
  <2>2. xs[l] \in Int /\ xs[m] \in Int /\ xs[m + 1] \in Int
    BY <1>1, <2>1
  <2>3. (l < m => xs[l] < xs[m]) /\ (m + 1 < l => xs[m + 1] < xs[l])
    BY <1>1, <2>1
  <2> QED BY <2>1, <2>2, <2>3
<1>4. ASSUME NEW l \in 1..N PROVE xs[1] <= xs[l] /\ xs[l] <= xs[N]
  <2>1. 1 \in 1..N /\ N \in 1..N /\ (1 < l \/ l = 1) /\ (l < N \/ l = N)
    BY <1>1
  <2>2. xs[l] \in Int /\ xs[1] \in Int /\ xs[N] \in Int
    BY <1>1, <2>1
  <2>3. (1 < l => xs[1] < xs[l]) /\ (l < N => xs[l] < xs[N])
    BY <1>1, <2>1
  <2> QED BY <2>1, <2>2, <2>3
<1>5. ASSUME NEW d \in DOMAIN I
      PROVE  /\ I[d].earliest \in Int /\ I[d].latest \in Int
             /\ xs[1] <= I[d].earliest /\ I[d].latest <= xs[N]
             /\ \A m \in 1..N : m < N =>
                   /\ I[d].earliest <= xs[m] \/ xs[m + 1] <= I[d].earliest
                   /\ I[d].latest <= xs[m] \/ xs[m + 1] <= I[d].latest
  <2>1. PICK l \in 1..N : xs[l] = I[d].earliest
    BY <1>1
  <2>2. PICK h \in 1..N : xs[h] = I[d].latest
    BY <1>1
  <2>3. I[d].earliest \in Int /\ I[d].latest \in Int
    BY DEF Voted
  <2> QED BY <1>3, <1>4, <2>1, <2>2, <2>3
<1>6. ASSUME NEW m \in 1..N, m < N
      PROVE  /\ Reaching(I, xs[m + 1]) = Onward(I, xs[m])
             /\ \A x \in Int : 2 * xs[m] < x /\ x < 2 * xs[m + 1]
                   => Covering(I, x) = Onward(I, xs[m])
  <2>1. m + 1 \in 1..N /\ m < m + 1
    BY <1>1, <1>6
  <2>2. xs[m] \in Int /\ xs[m + 1] \in Int /\ xs[m] < xs[m + 1]
    BY <1>1, <2>1
  <2>3. \A d \in DOMAIN I :
           /\ I[d].earliest <= xs[m] \/ xs[m + 1] <= I[d].earliest
           /\ I[d].latest <= xs[m] \/ xs[m + 1] <= I[d].latest
    BY <1>5, <1>6
  <2> QED BY <2>2, <2>3, NothingBetween
<1>7. Reaching(I, xs[n]) = IF n = 1 THEN {} ELSE Onward(I, xs[n - 1])
  <2>1. CASE n = 1
    <3>1. \A d \in DOMAIN I : ~(I[d].earliest < xs[1])
      BY <1>2, <1>5, <2>1
    <3> QED BY <2>1, <3>1 DEF Reaching
  <2>2. CASE n # 1
    <3>1. n - 1 \in 1..N /\ n - 1 < N /\ (n - 1) + 1 = n
      BY <1>1, <2>2 DEF N
    <3>2. Reaching(I, xs[(n - 1) + 1]) = Onward(I, xs[n - 1])
      BY <1>6, <3>1
    <3> QED BY <2>2, <3>1, <3>2
  <2> QED BY <2>1, <2>2
<1>8. ASSUME NEW x \in Int, x < 2 * xs[1] PROVE Covering(I, x) = {}
  <2>1. xs[1] \in Int
    BY <1>1
  <2>2. ASSUME NEW d \in DOMAIN I PROVE ~(2 * I[d].earliest <= x)
    <3> DEFINE e == I[d].earliest
    <3>1. e \in Int /\ xs[1] <= e
      BY <1>5
    <3> HIDE DEF e
    <3>2. ~(2 * e <= x)
      BY <1>8, <2>1, <3>1
    <3> QED BY <3>2 DEF e
  <2> QED BY <2>2 DEF Covering
<1>9. ASSUME n = N
      PROVE  /\ Onward(I, xs[n]) = {}
             /\ \A x \in Int : 2 * xs[n] < x => Covering(I, x) = {}
  <2>1. ASSUME NEW d \in DOMAIN I
        PROVE  /\ ~(xs[n] < I[d].latest)
               /\ \A x \in Int : 2 * xs[n] < x => ~(x <= 2 * I[d].latest)
    <3> DEFINE l == I[d].latest
    <3>1. l \in Int /\ l <= xs[n]
      BY <1>5, <1>9
    <3> HIDE DEF l
    <3>2. ~(xs[n] < l) /\ \A x \in Int : 2 * xs[n] < x => ~(x <= 2 * l)
      BY <1>2, <3>1
    <3> QED BY <3>2 DEF l
  <2> QED BY <2>1 DEF Onward, Covering
<1>10. n < N \/ n = N
  BY <1>1 DEF N
<1>11. ASSUME NEW x \in Int, 2 * xs[n] < x, n < N => x < 2 * xs[n + 1]
       PROVE  Covering(I, x) = Onward(I, xs[n])
  <2>1. CASE n < N
    BY <1>6, <1>11, <2>1 DEF N
  <2>2. CASE n = N
    BY <1>9, <1>11, <2>2
  <2> QED BY <1>10, <2>1, <2>2
<1> QED BY <1>2, <1>7, <1>8, <1>9, <1>11 DEF N

(* The sweep has passed the first n end points.                            *)
Swept(I, k, xs, s, n) ==
    /\ Apart(s.components)
    /\ s.depth = IF n = 0 THEN 0 ELSE Cardinality(Onward(I, xs[n]))
    /\ s.depth < k =>
          /\ s.open = <<>>
          /\ n < Len(xs) => EndsBefore(s.components, xs[n + 1])
          /\ \A x \in Int : (n < Len(xs) => x < 2 * xs[n + 1])
                => (Covered(I, k, x) <=> InSome(s.components, x))
    /\ s.depth >= k =>
          /\ n < Len(xs)
          /\ \E a \in Int :
                /\ a < xs[n + 1]
                /\ s.open = <<[earliest |-> a, latest |-> xs[n + 1]]>>
                /\ EndsBefore(s.components, a)
                /\ \A x \in Int : x < 2 * xs[n + 1]
                      => (Covered(I, k, x) <=> InSome(s.components, x) \/ 2 * a <= x)

LEMMA SweepBegins ==
  ASSUME NEW I, Voted(I), NEW k \in Nat \ {0}, NEW xs, xs = Sorted(EndPoints(I))
  PROVE  Swept(I, k, xs, Begun, 0)
<1>1. Len(xs) \in Nat \ {0}
  BY EndPointsListed
<1>2. Begun.components = <<>> /\ Begun.open = <<>> /\ Begun.depth = 0
  BY DEF Begun
<1>3. <<>> \in Seq(Interval) /\ Len(<<>>) = 0
  BY EmptySeq
<1>4. Apart(<<>>) /\ \A x, y : ~InSome(<<>>, x) /\ EndsBefore(<<>>, y)
  BY <1>3 DEF Apart, InSome, EndsBefore
<1>5. ASSUME NEW x \in Int, x < 2 * xs[1] PROVE ~Covered(I, k, x)
  <2>1. 1 \in 1..Len(xs)
    BY <1>1
  <2>2. Covering(I, x) = {}
    BY <1>5, <2>1, Gaps
  <2> QED BY <2>2, FS_EmptySet DEF Covered
<1> QED BY <1>1, <1>2, <1>4, <1>5 DEF Swept

LEMMA SweepGoesOn ==
  ASSUME NEW I, Voted(I), NEW k \in Nat \ {0}, NEW xs, xs = Sorted(EndPoints(I)),
         NEW n \in 1..Len(xs), NEW s, Swept(I, k, xs, s, n - 1)
  PROVE  Swept(I, k, xs, SweepPoint(I, k, xs, s, n), n)
<1> DEFINE N == Len(xs)
           X == xs[n]
           Y == xs[n + 1]
           c == s.components
           at == s.depth + Lows(I, X)
           after == at - Highs(I, X)
           t == SweepPoint(I, k, xs, s, n)
           Cov(x) == Covered(I, k, x)
           Within(x) == n < N => x < 2 * Y
<1>1. /\ N \in Nat \ {0} /\ X \in Int
      /\ n < N => Y \in Int /\ X < Y
      /\ n \in Nat /\ (n - 1 = 0 <=> n = 1) /\ (n - 1) + 1 = n /\ n - 1 < N
      /\ n < N \/ n = N
  <2>1. N \in Nat \ {0}
    BY EndPointsListed
  <2>2. X \in Int /\ (n < N => Y \in Int /\ X < Y)
    BY Gaps
  <2> QED BY <2>1, <2>2
<1>2. /\ at = Cardinality(AtPoint(I, X)) /\ at \in Nat
      /\ after = Cardinality(Onward(I, X)) /\ after \in Nat
      /\ after <= at /\ s.depth \in Nat /\ s.depth <= at
  <2>1. s.depth = Cardinality(Reaching(I, X))
    <3>1. Reaching(I, X) = IF n = 1 THEN {} ELSE Onward(I, xs[n - 1])
      BY Gaps
    <3> QED BY <1>1, <3>1, FS_EmptySet DEF Swept
  <2>2. /\ Cardinality(AtPoint(I, X)) \in Nat /\ Cardinality(Onward(I, X)) \in Nat
        /\ Cardinality(Reaching(I, X)) \in Nat
        /\ Cardinality(AtPoint(I, X)) = Cardinality(Reaching(I, X)) + Lows(I, X)
        /\ Cardinality(Onward(I, X)) = Cardinality(AtPoint(I, X)) - Highs(I, X)
        /\ Cardinality(Onward(I, X)) <= Cardinality(AtPoint(I, X))
        /\ Cardinality(Reaching(I, X)) <= Cardinality(AtPoint(I, X))
    BY <1>1, VotesCounted
  <2> QED BY <2>1, <2>2
<1>3. Cov(2 * X) <=> at >= k
  BY <1>1, <1>2, OnThePoint DEF Covered
<1>4. ASSUME NEW x \in Int, 2 * X < x, Within(x) PROVE Cov(x) <=> after >= k
  <2>1. Covering(I, x) = Onward(I, X)
    BY <1>4, Gaps
  <2> QED BY <1>2, <2>1 DEF Covered
<1>5. after >= k => n < N
  <2>1. CASE n = N
    <3>1. Onward(I, X) = {}
      BY <2>1, Gaps
    <3> QED BY <1>2, <3>1, FS_EmptySet
  <2> QED BY <1>1, <2>1
<1>6. /\ Apart(c)
      /\ s.depth < k => /\ s.open = <<>> /\ EndsBefore(c, X)
                        /\ \A x \in Int : x < 2 * X => (Cov(x) <=> InSome(c, x))
      /\ s.depth >= k =>
            \E a \in Int :
                /\ a < X /\ s.open = <<[earliest |-> a, latest |-> X]>>
                /\ EndsBefore(c, a)
                /\ \A x \in Int : x < 2 * X => (Cov(x) <=> InSome(c, x) \/ 2 * a <= x)
  BY <1>1 DEF Swept
<1>7. \A x \in Int : x < 2 * X \/ x = 2 * X \/ 2 * X < x
  BY <1>1
<1>8. c \in Seq(Interval) /\ c \o <<>> = c
  BY <1>6, ConcatEmptySeq DEF Apart
<1>9. t = IF n < N /\ after >= k
          THEN [depth |-> after,
                open |-> Extended(IF at >= k THEN Extended(s.open, X, X) ELSE s.open, X, Y),
                components |-> c]
          ELSE [depth |-> after, open |-> <<>>,
                components |-> c \o (IF at >= k THEN Extended(s.open, X, X) ELSE s.open)]
  BY DEF SweepPoint
<1> HIDE DEF N, X, Y, c, at, after, t, Cov
(* Too few votes at the point.                                             *)
<1>10. CASE at < k
  <2>1. after < k /\ s.depth < k /\ ~(at >= k) /\ ~(after >= k)
    BY <1>2, <1>10
  <2>2. t.depth = after /\ t.open = <<>> /\ t.components = c
    BY <1>6, <1>8, <1>9, <2>1
  <2>3. ASSUME NEW x \in Int, 2 * X <= x PROVE ~InSome(c, x)
    <3>1. ASSUME NEW i \in 1..Len(c) PROVE ~(x <= 2 * c[i].latest)
      <4> DEFINE l == c[i].latest
      <4>1. l < X /\ l \in Int
        <5>1. c[i] \in Interval
          BY <1>8, ElementOfSeq
        <5>2. l < X
          BY <1>6, <2>1 DEF EndsBefore
        <5> QED BY <5>1, <5>2 DEF Interval
      <4> HIDE DEF l
      <4>2. ~(x <= 2 * l)
        BY <1>1, <2>3, <4>1
      <4> QED BY <4>2 DEF l
    <3> QED BY <3>1 DEF InSome
  <2>4. ASSUME NEW x \in Int, Within(x) PROVE Cov(x) <=> InSome(c, x)
    <3>1. CASE x < 2 * X
      BY <1>6, <2>1, <3>1
    <3>2. CASE x = 2 * X
      BY <1>1, <1>3, <2>1, <2>3, <3>2
    <3>3. CASE 2 * X < x
      BY <1>1, <1>4, <2>1, <2>3, <2>4, <3>3
    <3> QED BY <1>7, <3>1, <3>2, <3>3
  <2>5. n < N => EndsBefore(c, Y)
    <3>1. ASSUME n < N, NEW i \in 1..Len(c) PROVE c[i].latest < Y
      <4>1. c[i] \in Interval
        BY <1>8, ElementOfSeq
      <4>2. c[i].latest < X /\ c[i].latest \in Int
        BY <1>6, <2>1, <4>1 DEF EndsBefore, Interval
      <4> QED BY <1>1, <3>1, <4>2
    <3> QED BY <3>1 DEF EndsBefore
  <2> QED BY <1>1, <1>2, <1>6, <2>1, <2>2, <2>4, <2>5 DEF Swept, Cov, X, Y, N, t
(* Enough: a component is open up to the point.                            *)
<1>11. CASE at >= k
  <2>1. PICK a \in Int :
           /\ a <= X /\ Extended(s.open, X, X) = <<[earliest |-> a, latest |-> X]>>
           /\ EndsBefore(c, a)
           /\ \A x \in Int : x < 2 * X => (Cov(x) <=> InSome(c, x) \/ 2 * a <= x)
    <3>1. CASE s.depth < k
      <4>1. Extended(s.open, X, X) = <<[earliest |-> X, latest |-> X]>>
        BY <1>6, <3>1 DEF Extended
      <4>2. \A x \in Int : x < 2 * X => ~(2 * X <= x)
        BY <1>1
      <4> QED BY <1>1, <1>6, <3>1, <4>1, <4>2
    <3>2. CASE s.depth >= k
      <4>1. PICK a \in Int :
                /\ a < X /\ s.open = <<[earliest |-> a, latest |-> X]>>
                /\ EndsBefore(c, a)
                /\ \A x \in Int : x < 2 * X => (Cov(x) <=> InSome(c, x) \/ 2 * a <= x)
        BY <1>6, <3>2
      <4>2. Extended(s.open, X, X) = <<[earliest |-> a, latest |-> X]>>
        <5>1. s.open # <<>> /\ Head(s.open) = [earliest |-> a, latest |-> X]
          BY <4>1
        <5> QED BY <5>1 DEF Extended
      <4> QED BY <1>1, <4>1, <4>2
    <3> QED BY <1>2, <3>1, <3>2
  <2> DEFINE v == [earliest |-> a, latest |-> X]
  <2>2. v \in Interval /\ v.earliest = a /\ v.latest = X
    BY <1>1 DEF Interval
  <2>3. 2 * a <= 2 * X
    BY <1>1, <2>1
  (* It ends here.                                                         *)
  <2>4. CASE after < k
    <3>1. t.depth = after /\ t.open = <<>> /\ t.components = c \o <<v>>
      <4>1. ~(after >= k)
        BY <1>2, <2>4
      <4> QED BY <1>9, <1>11, <2>1, <2>4, <4>1
    <3> HIDE DEF v
    <3>2. /\ Apart(c \o <<v>>)
          /\ \A x \in Int : InSome(c \o <<v>>, x)
                <=> InSome(c, x) \/ (2 * a <= x /\ x <= 2 * X)
          /\ \A y \in Int : X < y => EndsBefore(c \o <<v>>, y)
      BY <1>6, <2>1, <2>2, Joined
    <3>3. ASSUME NEW x \in Int, 2 * X < x PROVE ~InSome(c, x)
      <4>1. ASSUME NEW i \in 1..Len(c) PROVE ~(x <= 2 * c[i].latest)
        <5> DEFINE l == c[i].latest
        <5>1. l < a /\ l \in Int
          <6>1. c[i] \in Interval
            BY <1>8, ElementOfSeq
          <6>2. l < a
            BY <2>1 DEF EndsBefore
          <6> QED BY <6>1, <6>2 DEF Interval
        <5> HIDE DEF l
        <5>2. ~(x <= 2 * l)
          BY <1>1, <2>1, <3>3, <5>1
        <5> QED BY <5>2 DEF l
      <4> QED BY <4>1 DEF InSome
    <3>4. ASSUME NEW x \in Int, Within(x) PROVE Cov(x) <=> InSome(c \o <<v>>, x)
      <4>1. CASE x < 2 * X
        <5>1. x <= 2 * X
          BY <1>1, <4>1
        <5> QED BY <2>1, <3>2, <4>1, <5>1
      <4>2. CASE x = 2 * X
        <5>1. x <= 2 * X /\ 2 * a <= x
          BY <1>1, <2>3, <4>2
        <5> QED BY <1>3, <1>11, <3>2, <4>2, <5>1
      <4>3. CASE 2 * X < x
        <5>1. ~(x <= 2 * X) /\ ~(after >= k)
          BY <1>1, <1>2, <2>4, <4>3
        <5> QED BY <1>4, <3>2, <3>3, <3>4, <4>3, <5>1
      <4> QED BY <1>7, <4>1, <4>2, <4>3
    <3>5. ~(after >= k)
      BY <1>2, <2>4
    <3>6. n < N => EndsBefore(c \o <<v>>, Y)
      BY <1>1, <3>2
    <3>7. Apart(c \o <<v>>)
      BY <3>2
    <3> DEFINE b == c \o <<v>>
    <3> HIDE DEF b
    <3>8. t.components = b /\ Apart(b) /\ (n < N => EndsBefore(b, Y))
      BY <3>1, <3>6, <3>7 DEF b
    <3>9. \A x \in Int : Within(x) => (Cov(x) <=> InSome(b, x))
      BY <3>4 DEF b
    <3>10. t.depth = after /\ t.open = <<>> /\ n # 0
      BY <1>1, <3>1
    <3>11. t.depth = IF n = 0 THEN 0 ELSE Cardinality(Onward(I, X))
      BY <1>2, <3>10
    <3>12. t.depth < k /\ ~(t.depth >= k)
      BY <2>4, <3>5, <3>10
    <3>13. Swept(I, k, xs, t, n)
      BY <3>8, <3>9, <3>10, <3>11, <3>12 DEF Swept, Cov, X, Y, N
    <3> QED BY <3>13 DEF t
  (* It goes on to the next point.                                         *)
  <2>5. CASE after >= k
    <3>1. n < N /\ Y \in Int /\ X < Y /\ a < Y
      BY <1>1, <1>5, <2>1, <2>5
    <3>2. Extended(<<v>>, X, Y) = <<[earliest |-> a, latest |-> Y]>>
      BY DEF Extended
    <3>3. /\ t.depth = after /\ t.components = c
          /\ t.open = <<[earliest |-> a, latest |-> Y]>>
      BY <1>9, <1>11, <2>1, <2>5, <3>1, <3>2
    <3>4. ASSUME NEW x \in Int, x < 2 * Y
          PROVE  Cov(x) <=> InSome(c, x) \/ 2 * a <= x
      <4>1. CASE x < 2 * X
        BY <2>1, <4>1
      <4>2. CASE x = 2 * X
        BY <1>3, <1>11, <2>3, <4>2
      <4>3. CASE 2 * X < x
        <5>1. 2 * a <= x
          BY <1>1, <2>3, <4>3
        <5> QED BY <1>4, <2>5, <3>4, <4>3, <5>1
      <4> QED BY <1>7, <4>1, <4>2, <4>3
    <3>5. t.depth = IF n = 0 THEN 0 ELSE Cardinality(Onward(I, X))
      BY <1>1, <1>2, <3>3
    <3>6. ~(t.depth < k) /\ Apart(t.components)
      BY <1>2, <1>6, <2>5, <3>3
    <3>7. /\ a \in Int /\ a < Y /\ t.open = <<[earliest |-> a, latest |-> Y]>>
          /\ EndsBefore(t.components, a)
          /\ \A x \in Int : x < 2 * Y => (Cov(x) <=> InSome(t.components, x) \/ 2 * a <= x)
      BY <2>1, <3>1, <3>3, <3>4
    <3> HIDE DEF t
    <3>8. Swept(I, k, xs, t, n)
      BY <3>1, <3>5, <3>6, <3>7 DEF Swept, Cov, X, Y, N
    <3> QED BY <3>8 DEF t
  <2> QED BY <1>2, <2>4, <2>5
<1> QED BY <1>2, <1>10, <1>11 DEF t

LEMMA SweepEnds ==
  ASSUME NEW I, Voted(I), NEW k \in Nat \ {0}, NEW xs, xs = Sorted(EndPoints(I))
  PROVE  /\ Apart(Sweep(I, k))
         /\ \A x \in Int : Covered(I, k, x) <=> InSome(Sweep(I, k), x)
<1> DEFINE N == Len(xs)
<1>1. N \in Nat \ {0}
  BY EndPointsListed
<1>a. Len(xs) \in Nat
  BY <1>1
<1>2. PICK w : SweepStates(w, I, k, xs)
  BY <1>a, SweepRuns
<1>b. /\ w[0] = Begun
      /\ \A n \in 1..N : w[n] = SweepPoint(I, k, xs, w[n - 1], n)
      /\ Sweep(I, k) = w[N].components \o w[N].open
  BY <1>2 DEF SweepStates
<1> DEFINE P == {n \in 0..N : Swept(I, k, xs, w[n], n)}
<1>3. 0 \in P
  BY <1>1, <1>b, SweepBegins
<1>4. ASSUME NEW n \in 0..N, n < N, n \in P PROVE n + 1 \in P
  <2>1. n + 1 \in 1..N /\ (n + 1) - 1 = n /\ n + 1 \in 0..N
    BY <1>1, <1>4
  <2>2. Swept(I, k, xs, w[n], n) /\ w[n + 1] = SweepPoint(I, k, xs, w[n], n + 1)
    BY <1>b, <1>4, <2>1
  <2>3. Swept(I, k, xs, w[n], (n + 1) - 1)
    BY <2>1, <2>2
  <2>4. Swept(I, k, xs, SweepPoint(I, k, xs, w[n], n + 1), n + 1)
    BY <2>1, <2>3, SweepGoesOn
  <2> QED BY <2>1, <2>2, <2>4
<1> HIDE DEF P
<1>5. \A n \in 0..N : n \in P
  BY <1>1, <1>3, <1>4, BoundedInduction
<1>6. Swept(I, k, xs, w[N], N)
  BY <1>1, <1>5 DEF P
<1>7. ~(w[N].depth >= k) /\ w[N].depth \in Nat
  <2>1. xs[N] \in Int
    BY <1>1, EndPointsListed
  <2>2. w[N].depth = Cardinality(Onward(I, xs[N])) /\ Cardinality(Onward(I, xs[N])) \in Nat
    BY <1>1, <1>6, <2>1, VotesCounted DEF Swept
  <2> QED BY <1>1, <1>6, <2>2 DEF Swept
<1>8. /\ Apart(w[N].components) /\ w[N].open = <<>>
      /\ \A x \in Int : Covered(I, k, x) <=> InSome(w[N].components, x)
  <2>1. w[N].depth < k
    BY <1>7
  <2> QED BY <1>1, <1>6, <2>1 DEF Swept
<1>9. Sweep(I, k) = w[N].components
  BY <1>b, <1>8, ConcatEmptySeq DEF Apart
<1> QED BY <1>8, <1>9

LEMMA SweepCovers ==
  ASSUME NEW I, Voted(I), NEW k \in Nat \ {0}
  PROVE  /\ Apart(Sweep(I, k))
         /\ \A x \in Int : Covered(I, k, x) <=> InSome(Sweep(I, k), x)
<1>1. \A xs : xs = Sorted(EndPoints(I)) =>
         /\ Apart(Sweep(I, k))
         /\ \A x \in Int : Covered(I, k, x) <=> InSome(Sweep(I, k), x)
  BY SweepEnds
<1> QED BY <1>1

LEMMA ApartIsMerged ==
  ASSUME NEW c, Apart(c)
  PROVE  MergeTouching(c) = c
<1>1. c \in Seq(Interval) /\ Len(c) \in Nat
  BY LenProperties DEF Apart
<1>2. ASSUME NEW n \in 1..(Len(c) - 1) PROVE c[n].latest < c[n + 1].earliest
  <2>1. n \in 1..Len(c) /\ n + 1 \in 1..Len(c) /\ n < n + 1
    BY <1>1
  <2> QED BY <2>1 DEF Apart
<1> QED BY <1>1, <1>2, MergeKeeps

LEMMA ComponentsCover ==
  ASSUME NEW I, Voted(I), NEW F, Threshold(I, F) \in Nat \ {0}
  PROVE  LET c == CoverageComponents(I, F)
         IN  Apart(c) /\ \A x \in Int : Covered(I, Threshold(I, F), x) <=> InSome(c, x)
  BY SweepCovers, ApartIsMerged DEF CoverageComponents

(* A covered point lies between the first end point and the last.          *)
LEMMA PointsBetween ==
  ASSUME NEW I, Voted(I), NEW k \in Nat \ {0}, NEW x \in Int, Covered(I, k, x)
  PROVE  2 * Min(EndPoints(I)) <= x /\ x <= 2 * Max(EndPoints(I))
<1> DEFINE S == EndPoints(I)
<1>1. PICK d \in DOMAIN I : 2 * I[d].earliest <= x /\ x <= 2 * I[d].latest
  <2>1. Covering(I, x) # {}
    BY FS_EmptySet DEF Covered
  <2> QED BY <2>1 DEF Covering
<1> DEFINE e == I[d].earliest
           l == I[d].latest
<1>2. e \in S /\ l \in S /\ S \in SUBSET Int /\ IsFiniteSet(S)
  <2>1. e \in S /\ l \in S /\ S \in SUBSET Int
    BY DEF EndPoints, Voted
  <2>2. IsFiniteSet(S)
    BY EndPointsFinite
  <2> QED BY <2>1, <2>2
<1>3. 2 * e <= x /\ x <= 2 * l
  BY <1>1
<1> DEFINE low == Min(S)
           high == Max(S)
<1> HIDE DEF S, e, l
<1>4. low \in Int /\ low <= e /\ high \in Int /\ l <= high /\ e \in Int /\ l \in Int
  BY <1>2, MinIsMember, MaxIsMember
<1> HIDE DEF low, high
<1>5. 2 * low <= x /\ x <= 2 * high
  BY <1>3, <1>4
<1> QED BY <1>5 DEF low, high, S

LEMMA PointIsCovered ==
  ASSUME NEW I, Voted(I), NEW k \in Nat \ {0}, NEW x \in Int, Covered(I, k, x)
  PROVE  x \in CoveredPoints(I, k)
<1> DEFINE lo == 2 * Min(EndPoints(I))
           hi == 2 * Max(EndPoints(I))
<1>1. lo <= x /\ x <= hi
  BY PointsBetween
<1>2. lo \in Int /\ hi \in Int
  BY EndPointsFinite, MinIsMember, MaxIsMember
<1> HIDE DEF lo, hi
<1>3. x \in lo..hi
  BY <1>1, <1>2
<1> QED BY <1>3 DEF CoveredPoints, Covered, Covering, lo, hi

(* ComputeCoverageComponents finds exactly the points that N - F of the    *)
(* votes hold, as components that do not touch, for every number of votes  *)
(* and every threshold above 0.                                            *)
THEOREM SweepFindsCoverage ==
  ASSUME NEW I, Voted(I), NEW F, Threshold(I, F) \in Nat \ {0}
  PROVE  IsCoverage(CoverageComponents(I, F), I, Threshold(I, F))
<1> DEFINE c == CoverageComponents(I, F)
           k == Threshold(I, F)
           span(n) == 2 * c[n].earliest .. 2 * c[n].latest
<1>1. Apart(c) /\ \A x \in Int : Covered(I, k, x) <=> InSome(c, x)
  BY ComponentsCover
<1> HIDE DEF c, k
<1>2. \A n \in 1..Len(c) : c[n] \in Interval
  BY <1>1, ElementOfSeq DEF Apart
<1>3. Len(c) \in Nat
  BY <1>1, LenProperties DEF Apart
<1>4. ASSUME NEW x \in Int PROVE InSome(c, x) <=> \E n \in 1..Len(c) : x \in span(n)
  <2>1. ASSUME NEW n \in 1..Len(c)
        PROVE  x \in span(n) <=> 2 * c[n].earliest <= x /\ x <= 2 * c[n].latest
    <3>1. 2 * c[n].earliest \in Int /\ 2 * c[n].latest \in Int
      BY <1>2 DEF Interval
    <3> QED BY <3>1
  <2> QED BY <2>1 DEF InSome
<1>5. \A n \in 1..Len(c) : span(n) \in SUBSET Int
  BY <1>2 DEF Interval
<1>6. \A x \in CoveredPoints(I, k) : x \in Int /\ Covered(I, k, x)
  BY DEF CoveredPoints, Covered, Covering
<1>7. ASSUME NEW x \in Int, Covered(I, k, x) PROVE x \in CoveredPoints(I, k)
  BY <1>7, PointIsCovered DEF k
<1> HIDE DEF span
<1>8. UNION {span(n) : n \in 1..Len(c)} = CoveredPoints(I, k)
  <2>1. \A x : x \in UNION {span(n) : n \in 1..Len(c)}
                 <=> \E n \in 1..Len(c) : x \in span(n)
    OBVIOUS
  <2>2. \A x \in UNION {span(n) : n \in 1..Len(c)} : x \in Int /\ InSome(c, x)
    BY <1>4, <1>5, <2>1
  <2>3. \A x \in CoveredPoints(I, k) : x \in Int /\ InSome(c, x)
    BY <1>1, <1>6
  <2>4. \A x \in Int : InSome(c, x) => x \in CoveredPoints(I, k)
    BY <1>1, <1>7
  <2> QED BY <1>4, <2>1, <2>2, <2>3, <2>4
<1>9. ASSUME NEW n \in 1..(Len(c) - 1) PROVE c[n].latest < c[n + 1].earliest
  <2>1. n \in 1..Len(c) /\ n + 1 \in 1..Len(c) /\ n < n + 1
    BY <1>3
  <2> QED BY <1>1, <2>1 DEF Apart
<1> QED BY <1>8, <1>9 DEF IsCoverage, span, c, k

(* The hull holds every covered point, and its ends are covered.           *)
LEMMA HullAround ==
  ASSUME NEW c, Apart(c), NEW x \in Int, InSome(c, x)
  PROVE  LET h == Hull(c)
         IN  /\ c # <<>>
             /\ h.earliest \in Int /\ h.latest \in Int
             /\ 2 * h.earliest <= x /\ x <= 2 * h.latest
<1> DEFINE N == Len(c)
           lo == c[1].earliest
           hi == c[N].latest
<1>1. N \in Nat /\ \A n \in 1..N : c[n] \in Interval
  BY LenProperties, ElementOfSeq DEF Apart
<1>2. PICK i \in 1..N : 2 * c[i].earliest <= x /\ x <= 2 * c[i].latest
  BY DEF InSome
<1>3. 1 \in 1..N /\ N \in 1..N /\ (1 < i \/ i = 1) /\ (i < N \/ i = N)
  BY <1>1
<1>4. c # <<>> /\ Hull(c) = [earliest |-> lo, latest |-> hi]
  <2>1. c # <<>>
    BY <1>1, <1>3, EmptySeq
  <2>2. Head(c) = c[1]
    BY <2>1, HeadTailProperties DEF Apart
  <2> QED BY <2>1, <2>2 DEF Hull
<1> DEFINE e == c[i].earliest
           l == c[i].latest
           f == c[1].latest
           g == c[N].earliest
<1>5. /\ lo \in Int /\ hi \in Int /\ e \in Int /\ l \in Int /\ f \in Int /\ g \in Int
  BY <1>1, <1>3 DEF Interval
<1>6. /\ lo <= f /\ g <= hi
      /\ 1 < i => f < e
      /\ i < N => l < g
  BY <1>3 DEF Apart
<1>7. (i = 1 => lo = e) /\ (i = N => hi = l) /\ 2 * e <= x /\ x <= 2 * l
  BY <1>2
<1> HIDE DEF lo, hi, e, l, f, g
<1>8. lo <= e /\ l <= hi
  BY <1>3, <1>5, <1>6, <1>7
<1>9. 2 * lo <= x /\ x <= 2 * hi
  BY <1>5, <1>7, <1>8
<1> QED BY <1>4, <1>5, <1>9

LEMMA HullEnds ==
  ASSUME NEW c, Apart(c), c # <<>>
  PROVE  LET h == Hull(c)
         IN  /\ h.earliest \in Int /\ h.latest \in Int
             /\ InSome(c, 2 * h.earliest) /\ InSome(c, 2 * h.latest)
<1> DEFINE N == Len(c)
<1>1. N \in Nat /\ \A n \in 1..N : c[n] \in Interval
  BY LenProperties, ElementOfSeq DEF Apart
<1>2. 1 \in 1..N /\ N \in 1..N
  BY <1>1, EmptySeq DEF Apart
<1>3. Head(c) = c[1]
  BY HeadTailProperties DEF Apart
<1>4. /\ Hull(c) = [earliest |-> c[1].earliest, latest |-> c[N].latest]
      /\ c[1].earliest \in Int /\ c[1].latest \in Int
      /\ c[N].earliest \in Int /\ c[N].latest \in Int
      /\ c[1].earliest <= c[1].latest /\ c[N].earliest <= c[N].latest
  <2>1. Hull(c) = [earliest |-> c[1].earliest, latest |-> c[N].latest]
    BY <1>3 DEF Hull
  <2>2. c[1] \in Interval /\ c[N] \in Interval
    BY <1>1, <1>2
  <2> QED BY <1>2, <2>1, <2>2 DEF Apart, Interval
<1>5. \A e, l \in Int : e <= l => 2 * e <= 2 * e /\ 2 * e <= 2 * l /\ 2 * l <= 2 * l
  OBVIOUS
<1>6. InSome(c, 2 * c[1].earliest) /\ InSome(c, 2 * c[N].latest)
  BY <1>2, <1>4, <1>5 DEF InSome
<1> QED BY <1>4, <1>6

-----------------------------------------------------------------------------
(* What the coverage is worth                                              *)

LEMMA Counts ==
  ASSUME NEW I, IsFiniteSet(DOMAIN I), NEW Faulty, NEW x
  PROVE  /\ IsFiniteSet(Covering(I, x)) /\ IsFiniteSet(DOMAIN I \intersect Faulty)
         /\ Cardinality(Covering(I, x)) \in Nat
         /\ Cardinality(DOMAIN I \intersect Faulty) \in Nat
         /\ Cardinality(DOMAIN I \ Faulty)
              = Cardinality(DOMAIN I) - Cardinality(DOMAIN I \intersect Faulty)
         /\ Cardinality(DOMAIN I) \in Nat
<1>1. Covering(I, x) \subseteq DOMAIN I
  BY DEF Covering
<1>2. IsFiniteSet(Covering(I, x)) /\ IsFiniteSet(DOMAIN I \intersect Faulty)
  BY <1>1, FS_Subset
<1> QED
  BY <1>2, FS_CardinalityType, FS_Difference

LEMMA ThresholdType ==
  ASSUME NEW I, Voted(I), NEW F \in Nat, Cardinality(DOMAIN I) >= 2 * F + 1
  PROVE  Threshold(I, F) \in Nat \ {0}
<1>1. Cardinality(DOMAIN I) \in Nat
  BY FS_CardinalityType DEF Voted
<1> QED BY <1>1 DEF Threshold

(* A point that N - F votes cover lies in the interval of an honest one:   *)
(* up to F faulty domains cannot make a point of the coverage out of       *)
(* nothing (ComputeCoverageComponents with ComputeAssuranceConsensus's     *)
(* demand for 2 F + 1 domains).                                            *)
THEOREM CoverageIsHonest ==
  ASSUME NEW I, IsFiniteSet(DOMAIN I), NEW F \in Nat,
         Cardinality(DOMAIN I) >= 2 * F + 1,
         NEW Faulty, Cardinality(DOMAIN I \intersect Faulty) <= F,
         NEW x \in CoveredPoints(I, Threshold(I, F))
  PROVE  \E d \in DOMAIN I \ Faulty : 2 * I[d].earliest <= x /\ x <= 2 * I[d].latest
<1>1. Cardinality(Covering(I, x)) >= Cardinality(DOMAIN I) - F
  BY DEF CoveredPoints, Covering, Threshold
<1>2. /\ IsFiniteSet(DOMAIN I \intersect Faulty)
      /\ Cardinality(Covering(I, x)) \in Nat
      /\ Cardinality(DOMAIN I \intersect Faulty) \in Nat
      /\ Cardinality(DOMAIN I) \in Nat
  BY Counts
<1>3. Cardinality(Covering(I, x)) > Cardinality(DOMAIN I \intersect Faulty)
  BY <1>1, <1>2
<1>4. ~(Covering(I, x) \subseteq DOMAIN I \intersect Faulty)
  <2>1. SUFFICES ASSUME Covering(I, x) \subseteq DOMAIN I \intersect Faulty
                 PROVE  FALSE
    OBVIOUS
  <2>2. Cardinality(Covering(I, x)) <= Cardinality(DOMAIN I \intersect Faulty)
    BY <1>2, <2>1, FS_Subset
  <2> QED
    BY <1>2, <1>3, <2>2
<1> QED
  BY <1>4 DEF Covering

(* An instant that every honest vote holds is covered by the N - F votes   *)
(* ComputeCoverageComponents asks for, when at most F domains are faulty:  *)
(* the coverage cannot come out empty, whatever the others say.            *)
THEOREM TruthIsCovered ==
  ASSUME NEW I, IsFiniteSet(DOMAIN I), NEW F \in Nat,
         NEW Faulty, Cardinality(DOMAIN I \intersect Faulty) <= F,
         NEW x \in Int,
         \A d \in DOMAIN I \ Faulty : 2 * I[d].earliest <= x /\ x <= 2 * I[d].latest
  PROVE  Cardinality(Covering(I, x)) >= Threshold(I, F)
<1>1. DOMAIN I \ Faulty \subseteq Covering(I, x)
  BY DEF Covering
<1>2. /\ IsFiniteSet(Covering(I, x))
      /\ Cardinality(Covering(I, x)) \in Nat
      /\ Cardinality(DOMAIN I \intersect Faulty) \in Nat
      /\ Cardinality(DOMAIN I \ Faulty)
           = Cardinality(DOMAIN I) - Cardinality(DOMAIN I \intersect Faulty)
      /\ Cardinality(DOMAIN I) \in Nat
  BY Counts
<1>3. Cardinality(DOMAIN I \ Faulty) <= Cardinality(Covering(I, x))
  BY <1>1, <1>2, FS_Subset
<1> QED
  BY <1>2, <1>3 DEF Threshold

(* The hull of a vote with 2 F + 1 domains, of which at most F are faulty, *)
(* is never pushed out by them: neither of its ends is further out than    *)
(* what some honest domain said itself (ComputeAssuranceConsensus).        *)
THEOREM HullIsHonest ==
  ASSUME NEW I, Voted(I), NEW F \in Nat, Cardinality(DOMAIN I) >= 2 * F + 1,
         NEW Faulty, Cardinality(DOMAIN I \intersect Faulty) <= F,
         CoverageComponents(I, F) # <<>>
  PROVE  LET h == Hull(CoverageComponents(I, F))
         IN  /\ \E d \in DOMAIN I \ Faulty : I[d].earliest <= h.earliest
             /\ \E d \in DOMAIN I \ Faulty : h.latest <= I[d].latest
<1> DEFINE c == CoverageComponents(I, F)
           k == Threshold(I, F)
           h == Hull(c)
           said(d, y) == 2 * I[d].earliest <= y /\ y <= 2 * I[d].latest
<1>1. IsFiniteSet(DOMAIN I)
  BY DEF Voted
<1>2. k \in Nat \ {0}
  BY ThresholdType
<1>3. Apart(c) /\ \A y \in Int : Covered(I, k, y) <=> InSome(c, y)
  BY <1>2, ComponentsCover
<1>4. ASSUME NEW y \in Int, Covered(I, k, y)
      PROVE  \E d \in DOMAIN I \ Faulty : said(d, y)
  <2>1. y \in CoveredPoints(I, k)
    BY <1>2, <1>4, PointIsCovered
  <2> QED BY <1>1, <2>1, CoverageIsHonest
<1>5. c # <<>>
  OBVIOUS
<1> HIDE DEF c, k
<1>6. /\ h.earliest \in Int /\ h.latest \in Int
      /\ InSome(c, 2 * h.earliest) /\ InSome(c, 2 * h.latest)
  BY <1>3, <1>5, HullEnds
<1> HIDE DEF h
<1>7. PICK d \in DOMAIN I \ Faulty : said(d, 2 * h.earliest)
  BY <1>3, <1>4, <1>6
<1>8. PICK e \in DOMAIN I \ Faulty : said(e, 2 * h.latest)
  BY <1>3, <1>4, <1>6
<1>9. \A i, j \in Int : 2 * i <= 2 * j => i <= j
  OBVIOUS
<1>10. I[d].earliest \in Int /\ I[e].latest \in Int
  BY DEF Voted
<1>11. I[d].earliest <= h.earliest /\ h.latest <= I[e].latest
  BY <1>6, <1>7, <1>8, <1>9, <1>10
<1> QED BY <1>11 DEF h, c

(* An instant that every honest vote holds is in the hull, and there is a  *)
(* hull: with 2 F + 1 domains, no F of them can make the coverage empty or *)
(* the published interval wrong (ComputeAssuranceConsensus).               *)
THEOREM HullHolds ==
  ASSUME NEW I, Voted(I), NEW F \in Nat, Cardinality(DOMAIN I) >= 2 * F + 1,
         NEW Faulty, Cardinality(DOMAIN I \intersect Faulty) <= F,
         NEW x \in Int,
         \A d \in DOMAIN I \ Faulty : 2 * I[d].earliest <= x /\ x <= 2 * I[d].latest
  PROVE  LET h == Hull(CoverageComponents(I, F))
         IN  /\ CoverageComponents(I, F) # <<>>
             /\ h.earliest \in Int /\ h.latest \in Int
             /\ 2 * h.earliest <= x /\ x <= 2 * h.latest
<1> DEFINE c == CoverageComponents(I, F)
           k == Threshold(I, F)
<1>1. IsFiniteSet(DOMAIN I)
  BY DEF Voted
<1>2. k \in Nat \ {0}
  BY ThresholdType
<1>3. Apart(c) /\ (Covered(I, k, x) <=> InSome(c, x))
  BY <1>2, ComponentsCover
<1>4. Covered(I, k, x)
  BY <1>1, TruthIsCovered DEF Covered
<1> HIDE DEF c, k
<1> QED BY <1>3, <1>4, HullAround DEF c
=============================================================================
