------------------------------ MODULE Clearing ------------------------------
(***************************************************************************)
(* The clearing arithmetic of Continuum/Clearing.daml: how a sell pool is  *)
(* spread over the buyers' commitments, and what the deal then costs.  Pure *)
(* functions: no contract calls them.                                      *)
(***************************************************************************)
EXTENDS Money, FiniteSetsExt

CONSTANT Scale  \* Decimal's last digit is 1 / Scale (10^10 in the code)

ASSUME ClearingAssumption == Scale \in Nat \ {0}

\* A list of commitments is a set of records that a buyer's id keeps apart.
Lead(commits) == {c \in commits : c.isLead}
Syndicate(commits) == commits \ Lead(commits)

Capacity(commits) == SumFunctionOnSet([c \in commits |-> c.capacity], commits)

\* Decimal division: the nearest multiple of 1 / Scale, a half to the even one.
Ratio(n, m) ==
  LET down == (n * Scale) \div m
      rest == (n * Scale) % m
  IN  IF 2 * rest > m \/ (2 * rest = m /\ down % 2 = 1) THEN down + 1 ELSE down

LeadFillOf(c, pool) == Min({c.capacity, pool})

\* Slip: the syndicate shares the pool, not what the lead leaves of it.
Overflow_WholePool(pool, commits) == pool

Overflow(pool, commits) ==
  LET leads == Lead(commits) IN
  Max({0, pool - SumFunctionOnSet([c \in leads |-> LeadFillOf(c, pool)], leads)})

\* Slip: nobody is lead.
FillOf_ProRata(c, pool, commits) ==
  Nearest(pool * Ratio(c.capacity, Capacity(commits)), Scale)

\* Slip: the lead takes the whole pool, whatever it committed.
FillOf_LeadTakesAll(c, pool, commits) ==
  IF c.isLead THEN pool
  ELSE Nearest(Overflow(pool, commits)
                 * Ratio(c.capacity, Capacity(Syndicate(commits))), Scale)

\* allocateBuyers: the NAV buyer c takes of the pool.
FillOf(c, pool, commits) ==
  IF c.isLead THEN LeadFillOf(c, pool)
  ELSE IF Capacity(Syndicate(commits)) = 0 THEN 0
  ELSE Nearest(Overflow(pool, commits)
                 * Ratio(c.capacity, Capacity(Syndicate(commits))), Scale)

UnitsOf(c, pct, pool, commits) == RoundDollar(pct, FillOf(c, pool, commits))

\* Slip: a roll is credited at NAV, not at the deal price.
computeClearing_RollAtNav(pct, roll, sell, demand) ==
  LET filled == Min({sell, demand}) IN
  [demand |-> demand, sellNav |-> sell,
   psaPrice |-> RoundDollar(pct, roll + sell),
   buyerCash |-> RoundDollar(pct, filled),
   rollerUnits |-> roll,
   totalUnits |-> roll + RoundDollar(pct, filled)]

\* The fill ratios of the result are shown to readers only.
computeClearing(pct, roll, sell, demand) ==
  LET filled == Min({sell, demand})
      rollers == RoundDollar(pct, roll)
      buyers == RoundDollar(pct, filled)
  IN [demand |-> demand, sellNav |-> sell,
      psaPrice |-> RoundDollar(pct, roll + sell),
      buyerCash |-> buyers,
      rollerUnits |-> rollers,
      totalUnits |-> rollers + buyers]

undersubscribed(r) == r.demand < r.sellNav
=============================================================================
