---------------------------- MODULE FilingsProofs ----------------------------
(* Theorems of Filings: what the clearing of Continuum/Clearing.daml makes of*)
(* any bids and elections that stand filed, for any digits of a ratio.       *)
EXTENDS Filings, DataTheorems

-----------------------------------------------------------------------------
(* Rounding                                                                  *)

\* The nearest number is half a step away at most, and a half goes up.
LEMMA NearestIsNear ==
  ASSUME NEW n \in Nat, NEW m \in Nat \ {0}
  PROVE  /\ Nearest(n, m) \in Nat
         /\ 2 * (m * Nearest(n, m)) <= 2 * n + m
         /\ 2 * n < 2 * (m * Nearest(n, m)) + m
BY RoundingIsNear DEF Nearest

\* A ratio is half a digit away at most.
LEMMA RatioIsNear ==
  ASSUME NEW n \in Nat, NEW m \in Nat \ {0}
  PROVE  /\ Ratio(n, m) \in Nat
         /\ 2 * (m * Ratio(n, m)) <= 2 * (n * Scale) + m
         /\ 2 * (n * Scale) <= 2 * (m * Ratio(n, m)) + m
<1> DEFINE a == n * Scale
           q == a \div m
           r == a % m
<1>1. a \in Nat
  BY ClearingAssumption
<1>2. q \in Nat /\ r \in Nat /\ a = m * q + r /\ r < m
  <2> HIDE DEF a
  <2>1. QED
    BY <1>1, Divides
<1>3. Ratio(n, m) = IF 2 * r > m \/ (2 * r = m /\ q % 2 = 1) THEN q + 1 ELSE q
  BY DEF Ratio
<1> HIDE DEF a, q, r
<1>4. CASE 2 * r > m
  <2>1. Ratio(n, m) = q + 1 /\ m * (q + 1) = m * q + m
    BY <1>2, <1>3, <1>4
  <2> DEFINE x == m * q
  <2>2. x \in Nat
    BY <1>2
  <2> HIDE DEF x
  <2>3. QED
    BY <1>2, <1>4, <2>1, <2>2 DEF a, x
<1>5. CASE 2 * r = m
  <2>1. Ratio(n, m) \in {q, q + 1} /\ m * (q + 1) = m * q + m
    BY <1>2, <1>3, <1>5
  <2>2. m * q \in Nat
    BY <1>2
  <2>3. QED
    BY <1>2, <1>5, <2>1, <2>2 DEF a
<1>6. CASE 2 * r < m
  <2>1. Ratio(n, m) = q /\ m * q \in Nat
    BY <1>2, <1>3, <1>6
  <2>2. QED
    BY <1>2, <1>6, <2>1 DEF a
<1>7. QED
  BY <1>2, <1>4, <1>5, <1>6

\* Rounding two parts instead of their sum costs a dollar at most.
LEMMA PartsRoundApart ==
  ASSUME NEW x \in Nat, NEW y \in Nat, NEW m \in Nat \ {0}
  PROVE  /\ Nearest(x, m) + Nearest(y, m) <= Nearest(x + y, m) + 1
         /\ Nearest(x + y, m) <= Nearest(x, m) + Nearest(y, m) + 1
<1> DEFINE a == Nearest(x, m)
           b == Nearest(y, m)
           c == Nearest(x + y, m)
<1>1. /\ a \in Nat /\ b \in Nat /\ c \in Nat
      /\ 2 * (m * a) <= 2 * x + m /\ 2 * x < 2 * (m * a) + m
      /\ 2 * (m * b) <= 2 * y + m /\ 2 * y < 2 * (m * b) + m
      /\ 2 * (m * c) <= 2 * (x + y) + m /\ 2 * (x + y) < 2 * (m * c) + m
  <2>1. x + y \in Nat
    OBVIOUS
  <2> DEFINE z == x + y
  <2>2. c \in Nat /\ 2 * (m * c) <= 2 * z + m /\ 2 * z < 2 * (m * c) + m
    <3> HIDE DEF z
    <3>1. z \in Nat
      BY <2>1 DEF z
    <3>2. c = Nearest(z, m)
      BY DEF z
    <3>3. QED
      BY <3>1, <3>2, NearestIsNear
  <2>3. a \in Nat /\ 2 * (m * a) <= 2 * x + m /\ 2 * x < 2 * (m * a) + m
    BY NearestIsNear
  <2>4. b \in Nat /\ 2 * (m * b) <= 2 * y + m /\ 2 * y < 2 * (m * b) + m
    BY NearestIsNear
  <2>5. QED
    BY <2>2, <2>3, <2>4
<1> HIDE DEF a, b, c
<1> DEFINE d == a + b - c
<1>2. d \in Int /\ m * d = m * a + m * b - m * c
  BY <1>1
<1> HIDE DEF d
<1>3. 2 * (m * d) < 3 * m /\ -(3 * m) < 2 * (m * d)
  <2> DEFINE u == m * a
             v == m * b
             w == m * c
  <2>1. u \in Int /\ v \in Int /\ w \in Int
    BY <1>1
  <2> HIDE DEF u, v, w
  <2>2. QED
    BY <1>1, <1>2, <2>1 DEF u, v, w
<1>4. d <= 1 /\ d >= -1
  <2>1. ASSUME d >= 2 PROVE FALSE
    <3>1. m * d >= m * 2
      BY <1>2, <2>1
    <3>2. QED
      BY <1>2, <1>3, <3>1
  <2>2. ASSUME d <= -2 PROVE FALSE
    <3>1. m * d <= m * (-2)
      BY <1>2, <2>2
    <3>2. QED
      BY <1>2, <1>3, <3>1
  <2>3. QED
    BY <1>2, <2>1, <2>2
<1>5. QED
  BY <1>1, <1>4 DEF d, a, b, c

-----------------------------------------------------------------------------
(* What stands filed                                                         *)

\* The invariant of the filings: their types, and finitely many of them.
FilingInv == FilingTypeOK /\ IsFiniteSet(bids) /\ IsFiniteSet(elections)

LEMMA FilingsStart == FilingInit => FilingInv
BY FS_EmptySet DEF FilingInit, AuctionInit, ElectionInit, FilingInv, FilingTypeOK

LEMMA FilingsStep == FilingInv /\ [FilingNext]_filingVars => FilingInv'
<1> SUFFICES ASSUME FilingInv, [FilingNext]_filingVars PROVE FilingInv'
  OBVIOUS
<1> USE DEF FilingInv, FilingTypeOK
<1>1. ASSUME NEW bid \in SealedBid, SubmitBid(bid), UNCHANGED <<elections, lead>>
      PROVE  FilingInv'
  BY <1>1, FS_AddElement DEF SubmitBid, BidEnsure
<1>2. ASSUME NEW bid \in bids, WithdrawBid(bid), UNCHANGED <<elections, lead>>
      PROVE  FilingInv'
  BY <1>2, FS_RemoveElement DEF WithdrawBid
<1>3. ASSUME NEW b \in Buyer, FileMarker(b) \/ ArchiveMarker(b), UNCHANGED <<elections, lead>>
      PROVE  FilingInv'
  BY <1>3 DEF FileMarker, ArchiveMarker
<1>4. ASSUME NEW e \in Ballot, FileElection(e), UNCHANGED <<auctionVars, lead>>
      PROVE  FilingInv'
  <2>1. e \in LPElection
    <3>1. /\ e = [lp |-> e.lp, id |-> e.id, positionNav |-> e.positionNav, rollNav |-> e.rollNav, sellNav |-> e.sellNav]
          /\ e.lp \in Elector /\ e.id \in ElectionId
          /\ e.positionNav \in Positions /\ e.rollNav \in Splits /\ e.sellNav \in Splits
      BY DEF Ballot
    <3>2. e.positionNav \in Nat /\ e.rollNav \in Int /\ e.sellNav \in Int
      BY <3>1, ElectionAssumption
    <3>3. e.rollNav >= 0 /\ e.sellNav >= 0
      BY <1>4 DEF FileElection, ElectionEnsure
    <3>4. e.rollNav \in Nat /\ e.sellNav \in Nat
      BY <3>2, <3>3
    <3>5. QED
      BY <3>1, <3>2, <3>4 DEF LPElection
  <2>2. QED
    BY <1>4, <2>1, FS_AddElement DEF FileElection, ElectionEnsure, auctionVars
<1>5. ASSUME NEW e \in elections, NEW roll \in Splits, NEW sell \in Splits, Amend(e, roll, sell),
             UNCHANGED <<auctionVars, lead>>
      PROVE  FilingInv'
  <2> DEFINE new == [e EXCEPT !.rollNav = roll, !.sellNav = sell]
  <2>1. e \in LPElection /\ roll \in Int /\ sell \in Int
    BY ElectionAssumption
  <2>2. /\ new.rollNav = roll /\ new.sellNav = sell
        /\ roll \in Nat /\ sell \in Nat => new \in LPElection
    BY <2>1 DEF LPElection
  <2> HIDE DEF new
  <2>3. ElectionEnsure(new) /\ elections' = (elections \ {e}) \cup {new}
    BY <1>5 DEF Amend, new
  <2>4. new \in LPElection /\ new.rollNav + new.sellNav = new.positionNav
    <3>1. roll \in Nat /\ sell \in Nat
      BY <2>1, <2>2, <2>3 DEF ElectionEnsure
    <3>2. QED
      BY <2>2, <2>3, <3>1 DEF ElectionEnsure
  <2>5. IsFiniteSet(elections')
    BY <2>3, FS_AddElement, FS_RemoveElement
  <2>6. QED
    BY <1>5, <2>3, <2>4, <2>5 DEF auctionVars
<1>6. CASE UNCHANGED filingVars
  BY <1>6 DEF filingVars, auctionVars
<1>7. QED
  BY <1>1, <1>2, <1>3, <1>4, <1>5, <1>6 DEF FilingNext, AuctionStep, ElectionStep

\* The invariant holds throughout.
THEOREM FilingInvariant == FilingSpec => []FilingInv
<1>1. QED
  BY FilingsStart, FilingsStep, PTL DEF FilingSpec

\* Bids and elections keep their types, and what their templates ensure, over any
\* filing, withdrawal and amendment.
THEOREM FilingTypeCorrect == FilingSpec => []FilingTypeOK
<1>1. FilingInv => FilingTypeOK
  BY DEF FilingInv
<1>2. QED
  BY <1>1, FilingInvariant, PTL

\* What the clearing reads: finitely many commitments, each of an amount, and
\* pools of whole dollars.
LEMMA FilingsAreFinite ==
  ASSUME FilingInv
  PROVE  /\ IsFiniteSet(Commitments)
         /\ \A c \in Commitments : c.capacity \in Nat /\ c.capacity > 0 /\ c.isLead \in BOOLEAN
         /\ SellPool \in Nat /\ RollPool \in Nat
<1> DEFINE commit(b) == [buyer |-> b.buyer, id |-> b.id, capacity |-> b.capacity, isLead |-> b.buyer = lead]
           of == [b \in bids |-> commit(b)]
<1>1. IsFiniteSet(Commitments)
  <2>1. of \in Surjection(bids, Commitments)
    <3>1. Commitments = {commit(b) : b \in bids}
      BY DEF Commitments
    <3> HIDE DEF commit
    <3>2. QED
      BY <3>1 DEF Surjection
  <2>2. QED
    BY <2>1, FS_Surjection DEF FilingInv
<1>2. ASSUME NEW c \in Commitments PROVE c.capacity \in Nat /\ c.capacity > 0 /\ c.isLead \in BOOLEAN
  <2>1. PICK b \in bids : c = commit(b)
    BY DEF Commitments
  <2>2. b.capacity \in Capacities /\ b.capacity > 0
    BY DEF FilingInv, FilingTypeOK, SealedBid
  <2>3. b.capacity \in Nat
    <3>1. b.capacity \in Int
      BY <2>2, AuctionAssumption
    <3>2. QED
      BY <2>2, <3>1
  <2>4. QED
    BY <2>1, <2>2, <2>3
<1>3. SellPool \in Nat
  <2> DEFINE f == [e \in elections |-> e.sellNav]
  <2>1. \A e \in elections : f[e] \in Nat
    BY DEF FilingInv, FilingTypeOK, LPElection
  <2> HIDE DEF f
  <2>2. SumFunctionOnSet(f, elections) \in Nat
    BY <2>1, SumIsNat DEF FilingInv
  <2>3. QED
    BY <2>2 DEF f, SellPool
<1>4. RollPool \in Nat
  <2> DEFINE f == [e \in elections |-> e.rollNav]
  <2>1. \A e \in elections : f[e] \in Nat
    BY DEF FilingInv, FilingTypeOK, LPElection
  <2> HIDE DEF f
  <2>2. SumFunctionOnSet(f, elections) \in Nat
    BY <2>1, SumIsNat DEF FilingInv
  <2>3. QED
    BY <2>2 DEF f, RollPool
<1>5. QED
  BY <1>1, <1>2, <1>3, <1>4

-----------------------------------------------------------------------------
(* The clearing                                                              *)

LEMMA MinOfTwo ==
  ASSUME NEW a \in Int, NEW b \in Int
  PROVE  Min({a, b}) = IF a <= b THEN a ELSE b
<1> DEFINE x == IF a <= b THEN a ELSE b
<1>1. x \in {a, b} /\ \A y \in {a, b} : x <= y
  OBVIOUS
<1>2. \A z \in {a, b} : (\A y \in {a, b} : z <= y) => z = x
  OBVIOUS
<1> HIDE DEF x
<1>3. QED
  BY <1>1, <1>2 DEF Min, x

LEMMA MaxOfTwo ==
  ASSUME NEW a \in Int, NEW b \in Int
  PROVE  Max({a, b}) = IF a <= b THEN b ELSE a
<1> DEFINE x == IF a <= b THEN b ELSE a
<1>1. x \in {a, b} /\ \A y \in {a, b} : x >= y
  OBVIOUS
<1>2. \A z \in {a, b} : (\A y \in {a, b} : z >= y) => z = x
  OBVIOUS
<1> HIDE DEF x
<1>3. QED
  BY <1>1, <1>2 DEF Max, x

\* The units that rollers and buyers are owed tie out with the price, to a dollar,
\* whatever the bids and elections: computeClearing rounds two parts and their sum.
THEOREM TotalsAreTied == FilingSpec => []TotalsTieOut
<1>1. FilingInv => TotalsTieOut
  <2> SUFFICES ASSUME FilingInv, NEW pct \in Pcts, pct > 0, pct <= Whole,
                      ~undersubscribed(Result(pct))
               PROVE  Distance(Result(pct).totalUnits, Result(pct).psaPrice) <= 1
    BY DEF TotalsTieOut
  <2> DEFINE demand == Capacity(Commitments)
             filled == Min({SellPool, demand})
             r == Result(pct)
  <2>1. /\ SellPool \in Nat /\ RollPool \in Nat /\ demand \in Int
        /\ pct \in Nat /\ Whole \in Nat \ {0}
    <3>1. IsFiniteSet(Commitments) /\ \A c \in Commitments : c.capacity \in Nat
      BY FilingsAreFinite
    <3> DEFINE f == [c \in Commitments |-> c.capacity]
    <3>2. \A c \in Commitments : f[c] \in Int
      BY <3>1
    <3> HIDE DEF f
    <3>3. demand \in Int
      BY <3>1, <3>2, SumIsInt DEF Capacity, f
    <3>4. pct \in Int
      BY AuctionAssumption
    <3>5. pct \in Nat
      BY <3>4
    <3>6. QED
      BY <3>3, <3>5, FilingsAreFinite, MoneyAssumption
  <2>2. /\ r.demand = demand /\ r.sellNav = SellPool
        /\ r.psaPrice = RoundDollar(pct, RollPool + SellPool)
        /\ r.totalUnits = RoundDollar(pct, RollPool) + RoundDollar(pct, filled)
    BY DEF Result, computeClearing
  <2>3. filled = SellPool
    <3>1. ~(demand < SellPool)
      BY <2>2 DEF undersubscribed
    <3> HIDE DEF demand
    <3>2. QED
      BY <2>1, <3>1, MinOfTwo
  <2> DEFINE x == pct * RollPool
             y == pct * SellPool
  <2>4. x \in Nat /\ y \in Nat /\ pct * (RollPool + SellPool) = x + y
    BY <2>1
  <2>5. r.psaPrice = Nearest(x + y, Whole) /\ r.totalUnits = Nearest(x, Whole) + Nearest(y, Whole)
    BY <2>2, <2>3, <2>4 DEF RoundDollar
  <2> HIDE DEF x, y, r
  <2>6. /\ Nearest(x, Whole) + Nearest(y, Whole) <= Nearest(x + y, Whole) + 1
        /\ Nearest(x + y, Whole) <= Nearest(x, Whole) + Nearest(y, Whole) + 1
    BY <2>1, <2>4, PartsRoundApart
  <2>7. r.psaPrice \in Nat /\ r.totalUnits \in Nat
    <3> DEFINE z == x + y
    <3>1. z \in Nat
      BY <2>4
    <3>2. r.psaPrice = Nearest(z, Whole)
      BY <2>5
    <3> HIDE DEF z
    <3>3. Nearest(x, Whole) \in Nat /\ Nearest(y, Whole) \in Nat /\ Nearest(z, Whole) \in Nat
      BY <2>1, <2>4, <3>1, NearestIsNear
    <3>4. QED
      BY <2>5, <3>2, <3>3
  <2>8. Distance(r.totalUnits, r.psaPrice) <= 1
    <3>1. r.totalUnits <= r.psaPrice + 1 /\ r.psaPrice <= r.totalUnits + 1
      BY <2>5, <2>6
    <3>2. QED
      BY <2>7, <3>1 DEF Distance
  <2>9. QED
    BY <2>8 DEF r
<1>2. QED
  BY <1>1, FilingInvariant, PTL

\* One lead or none takes what it committed of the pool, and what it leaves is over.
LEMMA LeadTakes ==
  ASSUME FilingInv, AtMostOneLead
  PROVE  LET leads == Lead(Commitments)
             over == Overflow(SellPool, Commitments)
         IN  /\ over \in Nat
             /\ \/ leads = {} /\ over = SellPool
                \/ \E l \in leads :
                     /\ leads = {l}
                     /\ FillOf(l, SellPool, Commitments) \in Nat
                     /\ FillOf(l, SellPool, Commitments) <= l.capacity
                     /\ FillOf(l, SellPool, Commitments) < l.capacity => over = 0
                     /\ over + FillOf(l, SellPool, Commitments) = SellPool
<1> DEFINE leads == Lead(Commitments)
           over == Overflow(SellPool, Commitments)
           f == [c \in leads |-> LeadFillOf(c, SellPool)]
<1>1. IsFiniteSet(Commitments) /\ leads \subseteq Commitments
  BY FilingsAreFinite DEF Lead
<1>2. IsFiniteSet(leads)
  BY <1>1, FS_Subset
<1>3. SellPool \in Nat
  BY FilingsAreFinite
<1>4. over = Max({0, SellPool - SumFunctionOnSet(f, leads)})
  BY DEF Overflow
<1>5. CASE leads = {}
  <2>1. SumFunctionOnSet(f, leads) = 0
    BY <1>5, SumOfNone
  <2>2. over = Max({0, SellPool})
    BY <1>3, <1>4, <2>1
  <2>3. over = SellPool
    BY <1>3, <2>2, MaxOfTwo
  <2>4. QED
    BY <1>3, <1>5, <2>3
<1>6. CASE leads # {}
  <2>1. PICK l \in leads : leads = {l}
    <3>1. PICK l \in leads : TRUE
      BY <1>6
    <3>2. Cardinality(leads) \in Nat /\ Cardinality(leads) <= 1
      BY <1>2, FS_CardinalityType DEF AtMostOneLead
    <3>3. IsFiniteSet(leads \ {l}) /\ Cardinality(leads \ {l}) = Cardinality(leads) - 1
      BY <1>2, FS_RemoveElement
    <3>4. Cardinality(leads \ {l}) \in Nat
      BY <3>3, FS_CardinalityType
    <3>5. Cardinality(leads \ {l}) = 0
      BY <3>2, <3>3, <3>4
    <3>6. leads \ {l} = {}
      BY <3>3, <3>5, FS_EmptySet
    <3>7. QED
      BY <3>6
  <2> DEFINE fill == LeadFillOf(l, SellPool)
             cap == l.capacity
  <2>2. l.isLead /\ cap \in Nat
    BY <1>1, <2>1, FilingsAreFinite DEF Lead
  <2>3. fill = IF cap <= SellPool THEN cap ELSE SellPool
    BY <1>3, <2>2, MinOfTwo DEF LeadFillOf
  <2> HIDE DEF fill, cap
  <2>4. fill \in Nat /\ fill <= cap /\ fill <= SellPool /\ (fill < cap => fill = SellPool)
    BY <1>3, <2>2, <2>3
  <2>5. SumFunctionOnSet(f, leads) = fill
    <3>1. f[l] = fill
      BY DEF fill
    <3> HIDE DEF f, leads
    <3>2. SumFunctionOnSet(f, {l}) = fill
      BY <2>4, <3>1, SumOfOne
    <3>3. QED
      BY <2>1, <3>2
  <2>6. over = Max({0, SellPool - fill})
    BY <1>4, <2>5
  <2>7. over = SellPool - fill
    <3> DEFINE z == SellPool - fill
    <3>1. z \in Nat
      BY <1>3, <2>4
    <3> HIDE DEF z
    <3>2. Max({0, z}) = z
      BY <3>1, MaxOfTwo
    <3>3. QED
      BY <2>6, <3>2 DEF z
  <2>8. FillOf(l, SellPool, Commitments) = fill
    BY <2>2 DEF FillOf, fill
  <2> HIDE DEF over
  <2>9. /\ over \in Nat /\ over + fill = SellPool /\ (fill < cap => over = 0)
    BY <1>3, <2>4, <2>7
  <2> HIDE DEF leads
  <2>10. over \in Nat /\ \E k \in leads :
           /\ leads = {k}
           /\ FillOf(k, SellPool, Commitments) \in Nat
           /\ FillOf(k, SellPool, Commitments) <= k.capacity
           /\ FillOf(k, SellPool, Commitments) < k.capacity => over = 0
           /\ over + FillOf(k, SellPool, Commitments) = SellPool
    BY <2>1, <2>4, <2>8, <2>9 DEF cap
  <2>11. QED
    BY <2>10 DEF leads, over
<1>7. QED
  BY <1>5, <1>6

\* A member of the syndicate takes its ratio of what the lead leaves.
LEMMA MemberTakes ==
  ASSUME FilingInv, AtMostOneLead, NEW c \in Syndicate(Commitments)
  PROVE  LET k == Capacity(Syndicate(Commitments))
             over == Overflow(SellPool, Commitments)
         IN  /\ k \in Nat /\ k > 0 /\ over \in Nat /\ c.capacity \in Nat
             /\ FillOf(c, SellPool, Commitments) = Nearest(over * Ratio(c.capacity, k), Scale)
<1> DEFINE others == Syndicate(Commitments)
           k == Capacity(others)
           over == Overflow(SellPool, Commitments)
           f == [d \in others |-> d.capacity]
<1>1. IsFiniteSet(others) /\ \A d \in others : d.capacity \in Nat /\ d.capacity > 0 /\ d \in Commitments
  BY FilingsAreFinite, FS_Subset DEF Syndicate
<1>2. k \in Nat /\ k > 0
  <2>1. \A d \in others : f[d] = d.capacity
    OBVIOUS
  <2>2. k = SumFunctionOnSet(f, others)
    BY DEF Capacity
  <2> HIDE DEF f, others, k
  <2>3. \A d \in others : f[d] \in Nat /\ f[d] \in Int
    BY <1>1, <2>1
  <2>4. SumFunctionOnSet(f, others) = f[c] + SumFunctionOnSet(f, others \ {c})
    BY <1>1, <2>3, SumTakesAny DEF others
  <2>5. SumFunctionOnSet(f, others \ {c}) \in Nat
    BY <1>1, <2>3, SumIsNat, FS_RemoveElement DEF others
  <2>6. f[c] \in Nat /\ f[c] > 0
    BY <1>1, <2>1 DEF others
  <2>7. QED
    BY <2>2, <2>4, <2>5, <2>6
<1>3. over \in Nat
  BY LeadTakes
<1>4. c.capacity \in Nat /\ ~c.isLead
  BY <1>1 DEF Syndicate, Lead
<1>5. FillOf(c, SellPool, Commitments) = Nearest(over * Ratio(c.capacity, k), Scale)
  <2>1. k # 0
    BY <1>2
  <2> HIDE DEF over
  <2>2. QED
    BY <1>4, <2>1 DEF FillOf, k, others, over
<1>6. QED
  BY <1>2, <1>3, <1>4, <1>5

\* The syndicate takes overflow only, so that a member that takes anything does so
\* beside a lead filled to its capacity (allocateBuyers; matrix rule 4.3).
THEOREM TheLeadComesFirst == FilingSpec => []LeadComesFirst
<1>1. FilingInv => LeadComesFirst
  <2> SUFFICES ASSUME FilingInv, AtMostOneLead,
                      NEW c \in Syndicate(Commitments), NEW l \in Lead(Commitments),
                      FillOf(c, SellPool, Commitments) > 0,
                      FillOf(l, SellPool, Commitments) # l.capacity
               PROVE  FALSE
    BY DEF LeadComesFirst
  <2> DEFINE over == Overflow(SellPool, Commitments)
             k == Capacity(Syndicate(Commitments))
             r == Ratio(c.capacity, k)
  <2>1. over = 0
    <3>1. PICK m \in Lead(Commitments) :
            /\ Lead(Commitments) = {m}
            /\ FillOf(m, SellPool, Commitments) \in Nat
            /\ FillOf(m, SellPool, Commitments) <= m.capacity
            /\ FillOf(m, SellPool, Commitments) < m.capacity => over = 0
      BY LeadTakes
    <3>2. m = l
      BY <3>1
    <3>3. l.capacity \in Nat
      BY FilingsAreFinite DEF Lead
    <3> HIDE DEF over
    <3>4. QED
      BY <3>1, <3>2, <3>3
  <2>2. FillOf(c, SellPool, Commitments) = Nearest(over * r, Scale) /\ r \in Nat
    <3>1. k \in Nat \ {0} /\ c.capacity \in Nat
      BY MemberTakes
    <3>2. r \in Nat
      <4> HIDE DEF k
      <4>1. QED
        BY <3>1, RatioIsNear
    <3>3. QED
      BY <3>2, MemberTakes
  <2> HIDE DEF over, r
  <2>3. over * r = 0
    BY <2>1, <2>2
  <2>4. Nearest(0, Scale) = 0
    <3>1. Nearest(0, Scale) \in Nat /\ 2 * (Scale * Nearest(0, Scale)) <= 2 * 0 + Scale
      BY NearestIsNear, ClearingAssumption
    <3> DEFINE z == Nearest(0, Scale)
    <3>2. z \in Nat /\ 2 * (Scale * z) <= Scale
      BY <3>1, ClearingAssumption
    <3> HIDE DEF z
    <3>3. ASSUME z >= 1 PROVE FALSE
      <4>1. Scale * z >= Scale
        BY <3>2, <3>3, ClearingAssumption
      <4>2. QED
        BY <3>2, <4>1, ClearingAssumption
    <3>4. z = 0
      BY <3>2, <3>3
    <3>5. QED
      BY <3>4 DEF z
  <2>5. QED
    BY <2>2, <2>3, <2>4
<1>2. QED
  BY <1>1, FilingInvariant, PTL

\* Parts of the commitments add up to the whole.
LEMMA CapacitiesAdd ==
  ASSUME FilingInv
  PROVE  /\ IsFiniteSet(Lead(Commitments)) /\ IsFiniteSet(Syndicate(Commitments))
         /\ Capacity(Lead(Commitments)) \in Nat /\ Capacity(Syndicate(Commitments)) \in Nat
         /\ Capacity(Commitments) = Capacity(Lead(Commitments)) + Capacity(Syndicate(Commitments))
<1> DEFINE all == Commitments
           leads == Lead(all)
           others == Syndicate(all)
           f(set) == [c \in set |-> c.capacity]
<1>1. IsFiniteSet(all) /\ (\A c \in all : c.capacity \in Nat) /\ leads \subseteq all /\ others = all \ leads
  BY FilingsAreFinite DEF Lead, Syndicate
<1> HIDE DEF all, leads, others
<1>2. IsFiniteSet(leads) /\ IsFiniteSet(others) /\ leads \cup others = all /\ leads \cap others = {}
  BY <1>1, FS_Subset
<1>3. ASSUME NEW part \in SUBSET all PROVE Capacity(part) = SumFunctionOnSet(f(all), part)
  <2>1. \A c \in part : f(part)[c] = f(all)[c]
    OBVIOUS
  <2>2. IsFiniteSet(part)
    BY <1>1, FS_Subset
  <2> HIDE DEF f
  <2>3. QED
    BY <2>1, <2>2, SumsOfEquals DEF Capacity, f
<1>4. \A c \in all : f(all)[c] \in Nat
  BY <1>1
<1>5. /\ Capacity(all) = SumFunctionOnSet(f(all), all)
      /\ Capacity(leads) = SumFunctionOnSet(f(all), leads)
      /\ Capacity(others) = SumFunctionOnSet(f(all), others)
  <2> HIDE DEF f
  <2>1. leads \in SUBSET all /\ others \in SUBSET all /\ all \in SUBSET all
    BY <1>1
  <2>2. QED
    BY <1>3, <2>1
<1>6. /\ SumFunctionOnSet(f(all), leads) \in Nat /\ SumFunctionOnSet(f(all), others) \in Nat
      /\ SumFunctionOnSet(f(all), leads \cup others) = SumFunctionOnSet(f(all), leads) + SumFunctionOnSet(f(all), others)
  <2> HIDE DEF f
  <2>1. \A c \in leads \cup others : f(all)[c] \in Nat /\ f(all)[c] \in Int
    BY <1>2, <1>4
  <2>2. SumFunctionOnSet(f(all), leads) \in Nat
    BY <1>2, <2>1, SumIsNat
  <2>3. SumFunctionOnSet(f(all), others) \in Nat
    BY <1>2, <2>1, SumIsNat
  <2>4. QED
    BY <1>2, <2>1, <2>2, <2>3, SumOfUnion
<1>7. QED
  BY <1>2, <1>5, <1>6 DEF all, leads, others

\* What is left over when the bids cover the pool, the syndicate can take.
LEMMA OverflowIsCovered ==
  ASSUME FilingInv, Subscribed, AtMostOneLead
  PROVE  Overflow(SellPool, Commitments) <= Capacity(Syndicate(Commitments))
<1> DEFINE over == Overflow(SellPool, Commitments)
           k == Capacity(Syndicate(Commitments))
           u == Capacity(Lead(Commitments))
<1>1. over \in Nat /\ k \in Nat /\ u \in Nat /\ u + k >= SellPool /\ SellPool \in Nat
  BY LeadTakes, CapacitiesAdd, FilingsAreFinite DEF Subscribed
<1>2. CASE Lead(Commitments) = {}
  <2>1. u = 0
    BY <1>2, SumOfNone DEF Capacity
  <2>2. over = SellPool
    BY <1>2, LeadTakes
  <2> HIDE DEF over, k, u
  <2>3. over <= k
    BY <1>1, <2>1, <2>2
  <2>4. QED
    BY <2>3 DEF over, k
<1>3. ASSUME NEW l \in Lead(Commitments), Lead(Commitments) = {l},
             FillOf(l, SellPool, Commitments) \in Nat,
             FillOf(l, SellPool, Commitments) <= l.capacity,
             FillOf(l, SellPool, Commitments) < l.capacity => over = 0,
             over + FillOf(l, SellPool, Commitments) = SellPool
      PROVE  over <= k
  <2>1. l.capacity \in Nat
    BY FilingsAreFinite DEF Lead
  <2>2. u = l.capacity
    <3> DEFINE f == [c \in {l} |-> c.capacity]
    <3>1. f[l] = l.capacity
      OBVIOUS
    <3>2. u = SumFunctionOnSet(f, {l})
      BY <1>3 DEF Capacity
    <3> HIDE DEF f
    <3>3. QED
      BY <2>1, <3>1, <3>2, SumOfOne
  <2> DEFINE fill == FillOf(l, SellPool, Commitments)
             cap == l.capacity
  <2>3. fill \in Nat /\ cap \in Nat /\ fill <= cap /\ (fill < cap => over = 0) /\ over + fill = SellPool /\ u = cap
    BY <1>3, <2>1, <2>2
  <2> HIDE DEF over, k, u, fill, cap
  <2>4. QED
    BY <1>1, <2>3
<1>4. QED
  BY <1>2, <1>3, LeadTakes

\* What two roundings, of a share s * r to f and of its ratio r, come to.
LEMMA ShareIsNear ==
  ASSUME NEW o \in Nat, NEW k \in Nat, NEW s \in Nat, NEW f \in Nat, NEW r \in Nat, NEW c \in Nat,
         2 * (s * f) <= 2 * (o * r) + s, 2 * (o * r) <= 2 * (s * f) + s,
         2 * (k * r) <= 2 * (c * s) + k, 2 * (c * s) <= 2 * (k * r) + k
  PROVE  /\ 2 * ((k * s) * f) <= 2 * ((o * s) * c) + (k * s + o * k)
         /\ 2 * ((o * s) * c) <= 2 * ((k * s) * f) + (k * s + o * k)
<1>1. \A a, b \in Int, n \in Nat : a <= b => n * a <= n * b
  OBVIOUS
<1> DEFINE x == s * f
           y == o * r
           z == k * r
           w == c * s
<1>2. x \in Int /\ y \in Int /\ z \in Int /\ w \in Int
  OBVIOUS
<1>3. /\ k * x = (k * s) * f /\ k * y = o * z /\ o * w = (o * s) * c
  OBVIOUS
<1> HIDE DEF x, y, z, w
<1>4. /\ 2 * x <= 2 * y + s /\ 2 * y <= 2 * x + s
      /\ 2 * z <= 2 * w + k /\ 2 * w <= 2 * z + k
  BY DEF x, y, z, w
<1>5. /\ k * (2 * x) <= k * (2 * y + s) /\ k * (2 * y) <= k * (2 * x + s)
      /\ o * (2 * z) <= o * (2 * w + k) /\ o * (2 * w) <= o * (2 * z + k)
  BY <1>1, <1>2, <1>4
<1>6. /\ 2 * (k * x) <= 2 * (k * y) + k * s /\ 2 * (k * y) <= 2 * (k * x) + k * s
      /\ 2 * (o * z) <= 2 * (o * w) + o * k /\ 2 * (o * w) <= 2 * (o * z) + o * k
  BY <1>2, <1>5
<1> DEFINE a == k * x
           b == k * y
           d == o * w
           e == k * s
           g == o * k
<1>7. a \in Int /\ b \in Int /\ d \in Int /\ e \in Int /\ g \in Int
  BY <1>2
<1>8. /\ 2 * a <= 2 * b + e /\ 2 * b <= 2 * a + e /\ 2 * b <= 2 * d + g /\ 2 * d <= 2 * b + g
  BY <1>3, <1>6
<1> HIDE DEF a, b, d, e, g
<1>9. 2 * a <= 2 * d + (e + g) /\ 2 * d <= 2 * a + (e + g)
  BY <1>7, <1>8
<1>10. QED
  BY <1>3, <1>9 DEF a, d, e, g

\* The roundings of one member's fill.
LEMMA MemberIsNear ==
  ASSUME FilingInv, AtMostOneLead, NEW c \in Syndicate(Commitments)
  PROVE  LET k == Capacity(Syndicate(Commitments))
             over == Overflow(SellPool, Commitments)
             r == Ratio(c.capacity, k)
             fill == FillOf(c, SellPool, Commitments)
         IN  /\ k \in Nat \ {0} /\ over \in Nat /\ r \in Nat /\ fill \in Nat /\ c.capacity \in Nat
             /\ 2 * (Scale * fill) <= 2 * (over * r) + Scale /\ 2 * (over * r) <= 2 * (Scale * fill) + Scale
             /\ 2 * (k * r) <= 2 * (c.capacity * Scale) + k /\ 2 * (c.capacity * Scale) <= 2 * (k * r) + k
<1> DEFINE k == Capacity(Syndicate(Commitments))
           over == Overflow(SellPool, Commitments)
           cap == c.capacity
           r == Ratio(cap, k)
           fill == FillOf(c, SellPool, Commitments)
           n == over * r
<1>1. k \in Nat \ {0} /\ over \in Nat /\ cap \in Nat /\ fill = Nearest(n, Scale)
  BY MemberTakes
<1>2. /\ r \in Nat
      /\ 2 * (k * r) <= 2 * (cap * Scale) + k /\ 2 * (cap * Scale) <= 2 * (k * r) + k
  <2> HIDE DEF k, cap
  <2>1. QED
    BY <1>1, RatioIsNear
<1>3. n \in Nat
  <2> HIDE DEF over, r
  <2>1. QED
    BY <1>1, <1>2
<1>4. /\ fill \in Nat
      /\ 2 * (Scale * fill) <= 2 * n + Scale /\ 2 * n < 2 * (Scale * fill) + Scale
  <2> HIDE DEF n, fill
  <2>1. QED
    BY <1>1, <1>3, NearestIsNear, ClearingAssumption
<1>5. 2 * n <= 2 * (Scale * fill) + Scale
  <2>1. 2 * n \in Int /\ 2 * (Scale * fill) + Scale \in Int
    <3> HIDE DEF n, fill
    <3>1. QED
      BY <1>3, <1>4, ClearingAssumption
  <2> HIDE DEF n, fill
  <2>2. QED
    BY <1>4, <2>1
<1>6. QED
  BY <1>1, <1>2, <1>4, <1>5

\* Fewer dollars than a ratio has digits, and more than none in the syndicate.
LEMMA FineForEach ==
  ASSUME FilingInv, FineEnough, Syndicate(Commitments) # {}
  PROVE  Capacity(Syndicate(Commitments)) < Scale
<1> DEFINE k == Capacity(Syndicate(Commitments))
           n == Cardinality(Syndicate(Commitments))
<1>1. k \in Nat /\ n \in Nat /\ n # 0 /\ k * n < Scale
  BY CapacitiesAdd, FS_CardinalityType, FS_EmptySet DEF FineEnough
<1> HIDE DEF k, n
<1>2. k * n >= k
  BY <1>1
<1>3. k < Scale
  BY <1>1, <1>2, ClearingAssumption
<1>4. QED
  BY <1>3 DEF k

\* When the bids cover the pool nobody is made to take more than it committed, the
\* rounding of its ratio and of its share included (allocateBuyers; matrix rule 4.2).
THEOREM FillsAreWithinCapacity == FilingSpec => []FillsWithinCapacity
<1>1. FilingInv => FillsWithinCapacity
  <2> SUFFICES ASSUME FilingInv, Subscribed, AtMostOneLead, FineEnough, NEW c \in Commitments
               PROVE  FillOf(c, SellPool, Commitments) <= c.capacity
    BY DEF FillsWithinCapacity
  <2>1. CASE c \in Lead(Commitments)
    BY <2>1, LeadTakes
  <2>2. CASE c \in Syndicate(Commitments)
    <3> DEFINE k == Capacity(Syndicate(Commitments))
               over == Overflow(SellPool, Commitments)
               r == Ratio(c.capacity, k)
               fill == FillOf(c, SellPool, Commitments)
               cap == c.capacity
    <3>1. /\ k \in Nat \ {0} /\ over \in Nat /\ r \in Nat /\ fill \in Nat /\ cap \in Nat
          /\ 2 * (Scale * fill) <= 2 * (over * r) + Scale
          /\ 2 * (k * r) <= 2 * (cap * Scale) + k
      BY <2>2, MemberIsNear
    <3>2. over <= k /\ k < Scale
      BY <2>2, OverflowIsCovered, FineForEach
    <3> HIDE DEF k, over, r, fill, cap
    <3>3. over * r <= k * r
      BY <3>1, <3>2
    <3> DEFINE x == Scale * fill
               y == over * r
               z == k * r
               w == cap * Scale
    <3>4. x \in Nat /\ y \in Nat /\ z \in Nat /\ w \in Nat /\ Scale \in Nat
      BY <3>1, ClearingAssumption
    <3>5. 2 * x <= 2 * y + Scale /\ 2 * z <= 2 * w + k /\ y <= z
      BY <3>1, <3>3
    <3> HIDE DEF x, y, z, w
    <3>6. x < w + Scale
      BY <3>1, <3>2, <3>4, <3>5
    <3>7. ASSUME fill >= cap + 1 PROVE FALSE
      <4>1. Scale * fill >= Scale * (cap + 1)
        BY <3>1, <3>4, <3>7
      <4>2. Scale * (cap + 1) = cap * Scale + Scale
        BY <3>1, <3>4
      <4>3. x >= w + Scale
        BY <4>1, <4>2 DEF x, w
      <4>4. QED
        BY <3>4, <3>6, <4>3
    <3>8. fill <= cap
      BY <3>1, <3>7
    <3>9. QED
      BY <3>8 DEF fill, cap
  <2>3. QED
    BY <2>1, <2>2 DEF Syndicate
<1>2. QED
  BY <1>1, FilingInvariant, PTL

\* The last step of the sum: what n members round between them.
LEMMA DigitsAreEnough ==
  ASSUME NEW o \in Nat, NEW k \in Nat \ {0}, NEW s \in Nat \ {0}, NEW t \in Nat, NEW n \in Nat,
         o * n < s,
         2 * ((k * s) * t) <= 2 * ((o * s) * k) + (k * s + o * k) * n,
         2 * ((o * s) * k) <= 2 * ((k * s) * t) + (k * s + o * k) * n
  PROVE  2 * t <= 2 * o + n /\ 2 * o <= 2 * t + n
<1> DEFINE d == t - o
<1>1. d \in Int /\ (k * s) * t - (o * s) * k = k * (s * d)
  OBVIOUS
<1>2. (k * s + o * k) * n = k * (s * n + o * n)
  OBVIOUS
<1> DEFINE x == s * d
           y == s * n + o * n
<1>3. x \in Int /\ y \in Int
  BY <1>1
<1>4. 2 * (k * x) <= k * y /\ -(2 * (k * x)) <= k * y
  <2> DEFINE a == (k * s) * t
             b == (o * s) * k
             c == (k * s + o * k) * n
             e == k * x
  <2>1. a \in Int /\ b \in Int /\ c \in Int /\ e \in Int /\ a - b = e /\ c = k * y
    BY <1>1, <1>2, <1>3
  <2>2. 2 * a <= 2 * b + c /\ 2 * b <= 2 * a + c
    OBVIOUS
  <2> HIDE DEF a, b, c, e
  <2>3. 2 * e <= c /\ -(2 * e) <= c
    BY <2>1, <2>2
  <2>4. QED
    BY <2>1, <2>3 DEF e
<1> HIDE DEF x, y
<1>5. 2 * x <= y /\ -(2 * x) <= y
  <2>1. ASSUME 2 * x > y PROVE FALSE
    <3>1. k * (2 * x - y) >= 2 * x - y /\ k * (2 * x - y) = 2 * (k * x) - k * y
      BY <1>3, <2>1
    <3> DEFINE e == k * x
               c == k * y
    <3>2. e \in Int /\ c \in Int
      BY <1>3
    <3> HIDE DEF e, c
    <3>3. QED
      BY <1>3, <1>4, <2>1, <3>1, <3>2 DEF e, c
  <2>2. ASSUME -(2 * x) > y PROVE FALSE
    <3>1. k * (-(2 * x) - y) >= -(2 * x) - y /\ k * (-(2 * x) - y) = -(2 * (k * x)) - k * y
      BY <1>3, <2>2
    <3> DEFINE e == k * x
               c == k * y
    <3>2. e \in Int /\ c \in Int
      BY <1>3
    <3> HIDE DEF e, c
    <3>3. QED
      BY <1>3, <1>4, <2>2, <3>1, <3>2 DEF e, c
  <2>3. QED
    BY <1>3, <2>1, <2>2
<1>6. 2 * (s * d) < s * n + s /\ -(2 * (s * d)) < s * n + s
  <2> DEFINE u == s * d
             v == s * n
             w == o * n
  <2>1. u \in Int /\ v \in Int /\ w \in Int
    BY <1>1
  <2>2. 2 * u <= v + w /\ -(2 * u) <= v + w /\ w < s
    BY <1>5 DEF x, y
  <2> HIDE DEF u, v, w
  <2>3. 2 * u < v + s /\ -(2 * u) < v + s
    BY <2>1, <2>2
  <2>4. QED
    BY <2>3 DEF u, v
<1> HIDE DEF d
<1>7. 2 * d <= n /\ -(2 * d) <= n
  <2>1. ASSUME 2 * d >= n + 1 PROVE FALSE
    <3>1. s * (2 * d) >= s * (n + 1)
      BY <1>1, <2>1
    <3>2. s * (2 * d) = 2 * (s * d) /\ s * (n + 1) = s * n + s
      BY <1>1
    <3> DEFINE u == 2 * (s * d)
               v == s * n + s
    <3>3. u \in Int /\ v \in Int
      BY <1>1
    <3> HIDE DEF u, v
    <3>4. QED
      BY <1>6, <3>1, <3>2, <3>3 DEF u, v
  <2>2. ASSUME -(2 * d) >= n + 1 PROVE FALSE
    <3>1. s * (-(2 * d)) >= s * (n + 1)
      BY <1>1, <2>2
    <3>2. s * (-(2 * d)) = -(2 * (s * d)) /\ s * (n + 1) = s * n + s
      BY <1>1
    <3> DEFINE u == -(2 * (s * d))
               v == s * n + s
    <3>3. u \in Int /\ v \in Int
      BY <1>1
    <3> HIDE DEF u, v
    <3>4. QED
      BY <1>6, <3>1, <3>2, <3>3 DEF u, v
  <2>3. QED
    BY <1>1, <2>1, <2>2
<1>8. QED
  BY <1>1, <1>7 DEF d

\* What the syndicate takes is the overflow, up to half a dollar for each member.
LEMMA SyndicateTakes ==
  ASSUME FilingInv, AtMostOneLead, Subscribed, FineEnough
  PROVE  LET others == Syndicate(Commitments)
             f == [c \in Commitments |-> FillOf(c, SellPool, Commitments)]
             t == SumFunctionOnSet(f, others)
             o == Overflow(SellPool, Commitments)
             n == Cardinality(others)
         IN  t \in Nat /\ 2 * t <= 2 * o + n /\ 2 * o <= 2 * t + n
<1> DEFINE others == Syndicate(Commitments)
           f == [c \in Commitments |-> FillOf(c, SellPool, Commitments)]
           g == [c \in others |-> c.capacity]
           k == Capacity(others)
           o == Overflow(SellPool, Commitments)
           n == Cardinality(others)
           t == SumFunctionOnSet(f, others)
           s == Scale
           b == k * s + o * k
           scaled == [c \in others |-> 2 * (k * s) * f[c] + 0]
           over == [c \in others |-> 2 * (o * s) * g[c] + b]
           under == [c \in others |-> 2 * (o * s) * g[c] + (-b)]
<1>1. IsFiniteSet(others) /\ n \in Nat /\ k \in Nat /\ o \in Nat /\ s \in Nat \ {0}
  BY CapacitiesAdd, FS_CardinalityType, LeadTakes, ClearingAssumption
<1>2. ASSUME NEW c \in others
      PROVE  /\ f[c] \in Nat /\ g[c] \in Nat /\ k # 0
             /\ 2 * ((k * s) * f[c]) <= 2 * ((o * s) * g[c]) + b
             /\ 2 * ((o * s) * g[c]) <= 2 * ((k * s) * f[c]) + b
  <2> DEFINE fill == FillOf(c, SellPool, Commitments)
             cap == c.capacity
             r == Ratio(cap, k)
  <2>1. f[c] = fill /\ g[c] = cap
    BY DEF Syndicate
  <2>2. /\ k \in Nat \ {0} /\ o \in Nat /\ r \in Nat /\ fill \in Nat /\ cap \in Nat
        /\ 2 * (s * fill) <= 2 * (o * r) + s /\ 2 * (o * r) <= 2 * (s * fill) + s
        /\ 2 * (k * r) <= 2 * (cap * s) + k /\ 2 * (cap * s) <= 2 * (k * r) + k
    BY MemberIsNear
  <2> HIDE DEF f, g, k, o, s, fill, cap, r
  <2>3. /\ 2 * ((k * s) * fill) <= 2 * ((o * s) * cap) + (k * s + o * k)
        /\ 2 * ((o * s) * cap) <= 2 * ((k * s) * fill) + (k * s + o * k)
    BY <1>1, <2>2, ShareIsNear
  <2>4. QED
    BY <2>1, <2>2, <2>3
<1>3. t \in Nat
  <2> HIDE DEF f, others
  <2>1. QED
    BY <1>1, <1>2, SumIsNat
<1>4. SumFunctionOnSet(g, others) = k
  BY DEF Capacity
<1>5. CASE others = {}
  <2>1. k = 0 /\ n = 0 /\ t = 0
    BY <1>5, SumOfNone, FS_EmptySet DEF Capacity
  <2>2. o <= k
    BY OverflowIsCovered
  <2> HIDE DEF o, k, n, t
  <2>3. o = 0
    BY <1>1, <2>1, <2>2
  <2>4. t \in Nat /\ 2 * t <= 2 * o + n /\ 2 * o <= 2 * t + n
    BY <2>1, <2>3
  <2>5. QED
    BY <2>4 DEF o, n, t
<1>6. CASE others # {}
  <2>1. k # 0
    BY <1>2, <1>6
  <2>2. o * n < s
    <3>1. o <= k /\ k * n < s
      BY OverflowIsCovered DEF FineEnough
    <3> HIDE DEF o, k, n, s
    <3>2. o * n <= k * n
      BY <1>1, <3>1
    <3> DEFINE x == o * n
               y == k * n
    <3>3. x \in Int /\ y \in Int /\ x <= y /\ y < s
      BY <1>1, <3>1, <3>2
    <3> HIDE DEF x, y
    <3>4. x < s
      BY <1>1, <3>3
    <3>5. QED
      BY <3>4 DEF x
  <2> HIDE DEF f, g, k, o, n, s, others
  <2>3. 2 * (k * s) \in Int /\ 2 * (o * s) \in Int /\ b \in Int /\ -b \in Int /\ 0 \in Int
    BY <1>1
  <2>4. \A c \in others : f[c] \in Int /\ g[c] \in Int
    BY <1>2
  <2>5. ASSUME NEW c \in others
        PROVE  /\ scaled[c] = 2 * (k * s) * f[c] + 0 /\ scaled[c] \in Int
               /\ over[c] = 2 * (o * s) * g[c] + b /\ over[c] \in Int
               /\ under[c] = 2 * (o * s) * g[c] + (-b) /\ under[c] \in Int
               /\ scaled[c] <= over[c] /\ under[c] <= scaled[c]
    <3> DEFINE x == (k * s) * f[c]
               y == (o * s) * g[c]
    <3>1. x \in Int /\ y \in Int
      BY <1>1, <2>4
    <3>2. 2 * (k * s) * f[c] = 2 * x /\ 2 * (o * s) * g[c] = 2 * y
      BY <1>1, <2>4
    <3>3. 2 * x <= 2 * y + b /\ 2 * y <= 2 * x + b
      BY <1>2
    <3>4. scaled[c] = 2 * x + 0 /\ over[c] = 2 * y + b /\ under[c] = 2 * y + (-b)
      BY <3>2
    <3> HIDE DEF x, y, b, scaled, over, under
    <3>5. /\ scaled[c] \in Int /\ over[c] \in Int /\ under[c] \in Int
          /\ scaled[c] <= over[c] /\ under[c] <= scaled[c]
      BY <2>3, <3>1, <3>3, <3>4
    <3>6. QED
      BY <3>2, <3>4, <3>5
  <2> DEFINE p == 2 * (k * s)
             q == 2 * (o * s)
             e == -b
  <2>6. /\ SumFunctionOnSet(scaled, others) = p * SumFunctionOnSet(f, others) + 0 * Cardinality(others)
        /\ SumFunctionOnSet(over, others) = q * SumFunctionOnSet(g, others) + b * Cardinality(others)
        /\ SumFunctionOnSet(under, others) = q * SumFunctionOnSet(g, others) + e * Cardinality(others)
        /\ SumFunctionOnSet(scaled, others) <= SumFunctionOnSet(over, others)
        /\ SumFunctionOnSet(under, others) <= SumFunctionOnSet(scaled, others)
    <3>0. p \in Int /\ q \in Int /\ b \in Int /\ e \in Int
      BY <2>3
    <3>1. \A c \in others : /\ f[c] \in Int /\ scaled[c] = p * f[c] + 0
                            /\ g[c] \in Int /\ over[c] = q * g[c] + b /\ under[c] = q * g[c] + e
                            /\ scaled[c] \in Int /\ over[c] \in Int /\ under[c] \in Int
                            /\ scaled[c] <= over[c] /\ under[c] <= scaled[c]
      BY <2>4, <2>5
    <3> HIDE DEF p, q, b, e, scaled, over, under
    <3>2. SumFunctionOnSet(scaled, others) = p * SumFunctionOnSet(f, others) + 0 * Cardinality(others)
      <4> DEFINE none == 0
      <4>1. none \in Int
        OBVIOUS
      <4>2. Scales(scaled, f, others, p, none)
        BY <3>1 DEF Scales
      <4> HIDE DEF none
      <4>3. SumFunctionOnSet(scaled, others) = p * SumFunctionOnSet(f, others) + none * Cardinality(others)
        BY <1>1, <3>0, <4>1, <4>2, SumScales
      <4>4. QED
        BY <4>3 DEF none
    <3>3. SumFunctionOnSet(over, others) = q * SumFunctionOnSet(g, others) + b * Cardinality(others)
      <4>1. Scales(over, g, others, q, b)
        BY <3>1 DEF Scales
      <4>2. QED
        BY <1>1, <3>0, <4>1, SumScales
    <3>4. SumFunctionOnSet(under, others) = q * SumFunctionOnSet(g, others) + e * Cardinality(others)
      <4>1. Scales(under, g, others, q, e)
        BY <3>1 DEF Scales
      <4>2. QED
        BY <1>1, <3>0, <4>1, SumScales
    <3>5. SumFunctionOnSet(scaled, others) <= SumFunctionOnSet(over, others)
      BY <1>1, <3>1, SumIsMonotone
    <3>6. SumFunctionOnSet(under, others) <= SumFunctionOnSet(scaled, others)
      BY <1>1, <3>1, SumIsMonotone
    <3>7. QED
      BY <3>2, <3>3, <3>4, <3>5, <3>6
  <2>7. p * t + 0 * n <= q * k + b * n /\ q * k + e * n <= p * t + 0 * n
    <3> HIDE DEF p, q, b, e, scaled, over, under
    <3>1. QED
      BY <1>4, <2>6 DEF n
  <2>8. /\ p * t + 0 * n = 2 * ((k * s) * t)
        /\ q * k = 2 * ((o * s) * k)
        /\ e * n = -(b * n)
    BY <1>1, <1>3
  <2>9. /\ 2 * ((k * s) * t) <= 2 * ((o * s) * k) + b * n
        /\ 2 * ((o * s) * k) <= 2 * ((k * s) * t) + b * n
    <3> DEFINE x == 2 * ((k * s) * t)
               y == 2 * ((o * s) * k)
               z == b * n
    <3>1. x \in Int /\ y \in Int /\ z \in Int
      BY <1>1, <1>3
    <3>2. x <= y + z /\ y + (-z) <= x
      <4> HIDE DEF p, q, b, e
      <4>1. QED
        BY <2>7, <2>8
    <3> HIDE DEF x, y, z
    <3>3. x <= y + z /\ y <= x + z
      BY <3>1, <3>2
    <3>4. QED
      BY <3>3 DEF x, y, z
  <2>10. 2 * t <= 2 * o + n /\ 2 * o <= 2 * t + n
    <3> HIDE DEF t, p, q, e, scaled, over, under
    <3>1. k \in Nat \ {0}
      BY <1>1, <2>1
    <3>2. QED
      BY <1>1, <1>3, <2>2, <2>9, <3>1, DigitsAreEnough
  <2>11. QED
    BY <1>3, <2>10 DEF t, f, o, n, others
<1>7. QED
  BY <1>5, <1>6

\* When the bids cover the pool, lead and syndicate between them take the pool, up to
\* half a dollar for each member of the syndicate, however bids were filed, withdrawn
\* or doubled and elections amended (allocateBuyers; matrix rules 4.2 and 4.5).
THEOREM TheFillsTakeThePool == FilingSpec => []FillsTakeThePool
<1>1. FilingInv => FillsTakeThePool
  <2> SUFFICES ASSUME FilingInv, Subscribed, AtMostOneLead, FineEnough
               PROVE  2 * Distance(Taken, SellPool) <= Cardinality(Syndicate(Commitments))
    BY DEF FillsTakeThePool
  <2> DEFINE leads == Lead(Commitments)
             others == Syndicate(Commitments)
             f == [c \in Commitments |-> FillOf(c, SellPool, Commitments)]
             t == SumFunctionOnSet(f, others)
             u == SumFunctionOnSet(f, leads)
             o == Overflow(SellPool, Commitments)
             n == Cardinality(others)
  <2>1. /\ IsFiniteSet(leads) /\ IsFiniteSet(others) /\ leads \cap others = {}
        /\ leads \cup others = Commitments
    BY CapacitiesAdd DEF Lead, Syndicate
  <2>2. t \in Nat /\ o \in Nat /\ n \in Nat /\ 2 * t <= 2 * o + n /\ 2 * o <= 2 * t + n
    BY <2>1, SyndicateTakes, LeadTakes, FS_CardinalityType
  <2>3. u \in Nat /\ o + u = SellPool /\ \A c \in leads : f[c] \in Nat
    <3>1. CASE leads = {}
      <4>1. u = 0 /\ o = SellPool
        BY <3>1, SumOfNone, LeadTakes
      <4>2. QED
        BY <2>2, <3>1, <4>1
    <3>2. ASSUME NEW l \in leads, leads = {l},
                 FillOf(l, SellPool, Commitments) \in Nat, o + FillOf(l, SellPool, Commitments) = SellPool
          PROVE  u \in Nat /\ o + u = SellPool /\ \A c \in leads : f[c] \in Nat
      <4>1. f[l] = FillOf(l, SellPool, Commitments)
        <5>1. l \in Commitments
          BY DEF Lead
        <5>2. QED
          BY <5>1
      <4>2. f[l] \in Nat /\ o + f[l] = SellPool
        BY <3>2, <4>1
      <4>3. f[l] \in Int
        BY <4>2
      <4> HIDE DEF f, o
      <4>4. SumFunctionOnSet(f, {l}) = f[l]
        BY <4>3, SumOfOne
      <4>5. u = f[l]
        <5>1. u = SumFunctionOnSet(f, {l})
          BY <3>2
        <5>2. QED
          BY <4>4, <5>1
      <4>6. QED
        BY <3>2, <4>2, <4>5
    <3>3. QED
      BY <3>1, <3>2, LeadTakes
  <2>4. \A c \in leads \cup others : f[c] \in Int
    <3>1. \A c \in others : f[c] \in Nat
      BY MemberIsNear DEF Syndicate
    <3>2. QED
      BY <2>3, <3>1
  <2>5. Taken = u + t
    <3> HIDE DEF f, leads, others
    <3>1. SumFunctionOnSet(f, leads \cup others) = u + t
      BY <2>1, <2>4, SumOfUnion
    <3>2. QED
      BY <2>1, <3>1 DEF Taken, f
  <2> HIDE DEF t, u, o, n
  <2>6. 2 * Distance(Taken, SellPool) <= n
    <3> DEFINE taken == Taken
               pool == SellPool
    <3>1. taken = u + t /\ pool = o + u
      BY <2>3, <2>5
    <3> HIDE DEF taken, pool
    <3>2. 2 * Distance(taken, pool) <= n
      <4>1. CASE taken > pool
        BY <2>2, <2>3, <3>1, <4>1 DEF Distance
      <4>2. CASE ~(taken > pool)
        BY <2>2, <2>3, <3>1, <4>2 DEF Distance
      <4>3. QED
        BY <4>1, <4>2
    <3>3. QED
      BY <3>2 DEF taken, pool
  <2>7. QED
    BY <2>6 DEF n
<1>2. QED
  BY <1>1, FilingInvariant, PTL
=============================================================================
