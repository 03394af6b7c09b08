----------------------------- MODULE CreditPricing -----------------------------
(***************************************************************************)
(* What a call costs, in thousandths of a credit (billing/weights.py), and *)
(* the raw-request backstop the gateway is given for a credit quota.       *)
(***************************************************************************)
EXTENDS Integers, FiniteSetsExt

CONSTANTS Endpoints, Matrix, Element, \* keys of the weights table
          DefaultWeight,              \* of an endpoint without a row
          DefaultElement              \* rate of a matrix without a row for it

ASSUME CreditPricingAssumption ==
    /\ Matrix \in Endpoints /\ Element \notin Endpoints
    /\ DefaultWeight \in Nat /\ DefaultElement \in Nat

MilliPerCredit == 1000

WeightFor(weights, e) == IF e \in DOMAIN weights THEN weights[e] ELSE DefaultWeight
ElementRate(weights)  == IF Element \in DOMAIN weights THEN weights[Element] ELSE DefaultElement

\* Mutant of MinWeight: the matrix's element rate is one of the costs.
MinWeightOfAll(weights) ==
    IF DOMAIN weights = {} THEN DefaultWeight ELSE Min({weights[e] : e \in DOMAIN weights})

MinWeight(weights) ==
    LET costs == {weights[e] : e \in DOMAIN weights \ {Element}} IN
    IF costs = {} THEN DefaultWeight ELSE Min(costs)

\* Mutant of MatrixMilli: the rate times the size, however small.
MatrixMilliUnfloored(weights, sources, targets) ==
    IF sources <= 0 \/ targets <= 0 THEN WeightFor(weights, Matrix)
    ELSE sources * targets * ElementRate(weights)

\* A matrix of unknown size, (0, 0), costs the floor.
MatrixMilli(weights, sources, targets) ==
    IF sources <= 0 \/ targets <= 0 THEN WeightFor(weights, Matrix)
    ELSE Max({WeightFor(weights, Matrix), sources * targets * ElementRate(weights)})

ProjectedRequestCap(weights, credits) ==
    (credits * MilliPerCredit) \div Max({1, MinWeight(weights)})

\* The costs one call can have.
Costs(weights, sizes) ==
    {WeightFor(weights, e) : e \in Endpoints \ {Matrix}}
        \cup {MatrixMilli(weights, s, t) : s \in sizes, t \in sizes}
===============================================================================
