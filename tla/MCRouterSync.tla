---------------------------- MODULE MCRouterSync ----------------------------
(***************************************************************************)
(* A small instance of RouterSync for TLC: many configurations with one    *)
(* command each, for the arithmetic, and a few with several commands, one  *)
(* after another or at once, for the history.                              *)
(***************************************************************************)
EXTENDS RouterSync

CONSTANTS s1, s2

Alone(n, scoring, canary) ==
    [endpoints |-> n, scoring |-> scoring, canary |-> canary,
     shifts |-> {1, 2, 3} \X {0, 20, 55, 99}, slots |-> {s1}, runs |-> 1]

Together(slots, max) ==
    [endpoints |-> 2, scoring |-> <<>>, canary |-> <<>>,
     shifts |-> {<<1, 20>>}, slots |-> slots, runs |-> max]

Multipliers == {1, 33, 100, 250, 501}

Arithmetic ==
    {Alone(n, scoring, <<>>) :
        n \in 1..4, scoring \in {<<>>} \cup UNION {[1..k -> Multipliers] : k \in 1..4}}

Matching == {s \in Arithmetic : s.scoring = <<>> \/ Len(s.scoring) = s.endpoints}

Canaries ==
    {Alone(3, <<33, 250, 1>>, <<k, percent>>) : k \in 1..3, percent \in {0, 10, 50, 100}}

Crowded == {Alone(101, [i \in 1..101 |-> 1 + (i % 3)], <<>>)}

SmallSettings ==
    Matching \cup Canaries \cup Crowded \cup
    {Together({s1}, 4), Together({s1, s2}, 3)}
=============================================================================
