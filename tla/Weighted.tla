------------------------------ MODULE Weighted ------------------------------
(***************************************************************************)
(* The credit scheduler that stripes bulk packets over the paths           *)
(* (sched/weighted.go).                                                    *)
(*                                                                         *)
(* A credit is a whole number of units, Unit of them being the credit the  *)
(* winner pays.  The code's floating-point shares are rounded to units in  *)
(* any way that keeps their sum.  The candidates and their weights change  *)
(* from one packet to the next as links go up and down and as reports come *)
(* in.  The server lists its paths in map order, so that any of the        *)
(* candidates with the largest credit may come first.                      *)
(***************************************************************************)
EXTENDS Integers, FiniteSets, FiniteSetsExt, Functions

CONSTANTS Paths,      \* path identifiers
          Weights,    \* capacity estimates, 0 = unknown
          Unit,       \* units in a credit
          FloorInv    \* 1 / weightFloor (20)

ASSUME WeightedAssumption ==
  /\ IsFiniteSet(Paths)
  /\ Weights \subseteq Nat
  /\ Unit \in Nat \ {0} /\ FloorInv \in Nat \ {0}

VARIABLES credits,    \* balance of every path the map knows
          waited      \* packets since a path that stayed a candidate was picked (history)

schedVars == <<credits, waited>>

Total(f) == SumFunction(f)

----------------------------------------------------------------------------
(* Shares of the candidates with weights w, as the ratio of two integers.  *)

Known(w) == {p \in DOMAIN w : w[p] > 0}

(* Unknown weights take the mean of the known ones; everything is scaled   *)
(* by the number of known weights to stay whole.                           *)
Filled(w) ==
  LET known == Known(w)
      total == Total(w)
  IN  [p \in DOMAIN w |->
         IF known = {} THEN 1
         ELSE IF p \in known THEN w[p] * Cardinality(known) ELSE total]

(* Every share is at least weightFloor of the sum. *)
Floored(w) ==
  LET f == Filled(w)
      sum == Total(f)
  IN  [p \in DOMAIN w |-> IF FloorInv * f[p] < sum THEN sum ELSE FloorInv * f[p]]

(* Mutant: the shares are not normalised again after the floor. *)
SharesRaw(w) ==
  LET f == Floored(w)
      sum == FloorInv * Total(Filled(w))
  IN  {[p \in DOMAIN w |-> (f[p] * Unit + sum - 1) \div sum]}

(* The shares in units: each rounded down or up, Unit in all. *)
Shares(w) ==
  LET f == Floored(w)
      sum == Total(f)
      down(p) == (f[p] * Unit) \div sum
      up(p) == (f[p] * Unit + sum - 1) \div sum
      rounded == {[p \in DOMAIN w |-> IF p \in U THEN up(p) ELSE down(p)] : U \in SUBSET DOMAIN w}
  IN  {s \in rounded : Total(s) = Unit}

(* What the candidates of a packet may earn, whatever their weights. *)
Splits ==
  LET several == {ids \in SUBSET Paths : Cardinality(ids) > 1}
  IN  UNION {Shares(w) : w \in UNION {[ids -> Weights] : ids \in several}}

----------------------------------------------------------------------------
SchedInit ==
  /\ credits = [p \in {} |-> 0]
  /\ waited = [p \in Paths |-> 0]

(* Mutant: the map is cleared whenever the number of candidates changes. *)
KeptExact(ids) ==
  IF Cardinality(DOMAIN credits) # Cardinality(ids) THEN [p \in {} |-> 0] ELSE credits

(* The credits the loop starts from: all are dropped when the map knows    *)
(* more than twice as many paths as there are candidates.                  *)
Kept(ids) ==
  IF Cardinality(DOMAIN credits) > 2 * Cardinality(ids) THEN [p \in {} |-> 0] ELSE credits

Credit(c, p) == IF p \in DOMAIN c THEN c[p] ELSE 0

Earned(c, s) ==
  [p \in DOMAIN c \union DOMAIN s |-> Credit(c, p) + (IF p \in DOMAIN s THEN s[p] ELSE 0)]

Waits(ids, best) ==
  [p \in Paths |-> IF p = best \/ p \notin ids THEN 0 ELSE waited[p] + 1]

(* The candidates with the largest credit. *)
Winners(s) ==
  LET c == Earned(Kept(DOMAIN s), s)
  IN  {p \in DOMAIN s : \A q \in DOMAIN s : c[q] <= c[p]}

(* What Pick may do: of two candidates or more a winner is picked and pays *)
(* one credit; a single candidate carries the packet and no credit moves.  *)
Picks(ids) ==
  LET paid(s, p) == [Earned(Kept(ids), s) EXCEPT ![p] = @ - Unit]
  IN  IF Cardinality(ids) < 2 THEN {[best |-> p, credits |-> credits] : p \in ids}
      ELSE UNION {{[best |-> p, credits |-> paid(s, p)] : p \in Winners(s)} :
                    s \in {s \in Splits : DOMAIN s = ids}}

Pick(ids, pick) ==
  /\ credits' = pick.credits
  /\ waited' = Waits(ids, pick.best)

----------------------------------------------------------------------------
(* Half a credit for every other path. *)
MaxCredit == (Unit * (Cardinality(Paths) - 1)) \div 2

(* The least a candidate earns with a packet, in whole units: all the      *)
(* other candidates but one have a floored share and the last one the rest *)
(* of a sum grown by the floors.                                           *)
MinShare == Unit \div (FloorInv + Cardinality(Paths) - 1)

(* From the largest debt to the largest balance in steps of MinShare. *)
MaxWait == (Unit * (Cardinality(Paths) - 1)) \div MinShare

(* "Renormalize after flooring so credits stay conserved" (weighted.go:70) *)
(* and a "burst-free WRR": whichever candidates and weights the packets    *)
(* meet, the balances add up to zero and none drifts, so that a path that  *)
(* comes back finds neither a debt nor a hoard that would keep it silent   *)
(* or give it a burst.                                                     *)
CreditsBalanced ==
  /\ Total(credits) = 0
  /\ \A p \in DOMAIN credits : credits[p] \in -MaxCredit..MaxCredit

(* "weightFloor guarantees every live path a small share of traffic": a    *)
(* path that stays a candidate is picked within MaxWait packets, however   *)
(* the weights and the other candidates change.                            *)
NoStarvation == \A p \in Paths : waited[p] <= MaxWait

============================================================================
