--------------------------- MODULE RouterSteering ---------------------------
(***************************************************************************)
(* How the weights of a router's endpoints are computed                    *)
(* (platform/workflow/app/router_steering.go): quality scoring, the canary *)
(* shift and the rebalancing both of them end in.                          *)
(*                                                                         *)
(* A routing is the sequence of its endpoints' weights, in the order of    *)
(* their names.  math.Round rounds halves up here, all numbers being       *)
(* positive.  Two of the three quotients are computed from integers and    *)
(* exact at a half; rebalanceEndpointWeights multiplies by a float64       *)
(* quotient that is already rounded, so there a half may fall either way.  *)
(***************************************************************************)
EXTENDS Integers, Sequences, FiniteSets

Total == 100

Larger(a, b) == IF a > b THEN a ELSE b

(* clampInt                                                                *)
Clamp(v, low, high) == IF v < low THEN low ELSE IF v > high THEN high ELSE v

(* math.Round(a * b / c)                                                   *)
Rounded(a, b, c) == (2 * a * b + c) \div (2 * c)

IsHalf(a, b, c) == (2 * a * b) % (2 * c) = c

(* The sums of the first n weights.                                        *)
PartialSums(w) ==
    LET upTo[n \in 0..Len(w)] == IF n = 0 THEN 0 ELSE upTo[n - 1] + w[n]
    IN  upTo

SumOf(w) == PartialSums(w)[Len(w)]

-----------------------------------------------------------------------------
(* The place k endpoints on from place i of n, around again after the last.*)
Ahead(i, k, n) == ((i + k - 1) % n) + 1

(* The loop that corrects the rounded weights goes one unit on: at holds   *)
(* the weights and the place.  It passes over an endpoint that has nothing *)
(* to give, and gives up, after four rounds, when none has.                *)
Moved(at, unit) ==
    LET v == at[1]
        n == Len(v)
        able == {k \in 0..(n - 1) : unit > 0 \/ v[Ahead(at[2], k, n)] > 1}
        nearest == CHOOSE k \in able : \A l \in able : k <= l
        i == Ahead(at[2], nearest, n)
    IN  IF able = {} THEN at
        ELSE <<[v EXCEPT ![i] = @ + unit], Ahead(i, 1, n)>>

(* Where the loop stands after m of its units, from the first endpoint on. *)
Corrections(w, unit, units) ==
    LET after[m \in 0..units] == IF m = 0 THEN <<w, 1>> ELSE Moved(after[m - 1], unit)
    IN  after

(* Mutant: only a missing remainder is made up for.                        *)
MutantCorrected(w, delta) == IF delta > 0 THEN [w EXCEPT ![1] = @ + delta] ELSE w

(* All the units that are missing, or too many.                            *)
Corrected(w, delta) ==
    IF delta > 0 THEN Corrections(w, 1, delta)[delta][1]
    ELSE Corrections(w, -1, -delta)[-delta][1]

(* What the scaling may come to, depending on which halves fall short.     *)
Scalings(w) ==
    LET sum == SumOf(w)
        halves == {i \in DOMAIN w : IsHalf(w[i], Total, sum)}
        short(i, S) == IF i \in S THEN 1 ELSE 0
    IN  IF sum = Total THEN {w}
        ELSE {[i \in DOMAIN w |->
                 Larger(1, Rounded(w[i], Total, sum) - short(i, S))] :
              S \in SUBSET halves}

(* rebalanceEndpointWeights: the results it can have.                      *)
Rebalanced(w) ==
    LET floored == [i \in DOMAIN w |-> Larger(w[i], 1)]
    IN  {Corrected(s, Total - SumOf(s)) : s \in Scalings(floored)}

(* applyRouterQualityScoring.  The penalty for unhealthy endpoints is left *)
(* out: nothing saves an endpoint's health, so it is unset here.  An       *)
(* endpoint without a multiplier of its own has 100.                       *)
Scored(w, multiplier) ==
    Rebalanced([i \in DOMAIN w |->
        Larger(1, Rounded(Larger(w[i], 100), Clamp(multiplier[i], 1, 500), 100))])

(* The share the canary asks for and can have: every other endpoint keeps  *)
(* at least one unit.                                                      *)
CanaryPercent(w, percent) ==
    Larger(1, Clamp(Clamp(percent, 1, 99), 1, Total - (Len(w) - 1)))

(* The canary counted among the others it is weighed against.              *)
MutantApplyCanaryWeights(w, canary, percent) ==
    LET others == Larger(Total - Clamp(percent, 1, 99), Len(w) - 1)
    IN  Rebalanced([i \in DOMAIN w |->
            IF i = canary THEN CanaryPercent(w, percent)
            ELSE Larger(1, Rounded(w[i], others, SumOf(w)))])

(* ApplyCanaryWeights for the endpoint at the given place.                 *)
ApplyCanaryWeights(w, canary, percent) ==
    LET share == CanaryPercent(w, percent)
        others == Larger(Total - Clamp(percent, 1, 99), Len(w) - 1)
        base == [i \in DOMAIN w |-> IF i = canary THEN 0 ELSE Larger(w[i], 1)]
    IN  Rebalanced([i \in DOMAIN w |->
            IF i = canary THEN share
            ELSE Larger(1, Rounded(base[i], others, SumOf(base)))])

(* GenerateRouterRoutingConfig: equal weights, then the scoring and the    *)
(* canary of the configuration, where they are switched on.                *)
Generated(n, scoring, canary) ==
    LET equal == [i \in 1..n |-> 100]
        scored == IF scoring = <<>> THEN {equal} ELSE Scored(equal, scoring)
    IN  IF canary = <<>> \/ n < 2 THEN scored
        ELSE UNION {ApplyCanaryWeights(w, canary[1], canary[2]) : w \in scored}
=============================================================================
