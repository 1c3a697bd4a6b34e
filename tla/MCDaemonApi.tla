---------------------------- MODULE MCDaemonApi ----------------------------
(* Two plans and a deploy that brings its own value for one of two keys.   *)
EXTENDS DaemonApi

CONSTANTS p1, p2, d1, home, k1, k2

AllRequests == {p1, p2, d1}
OpOf == [r \in AllRequests |-> IF r = d1 THEN "deploy" ELSE "plan"]
ClientOf == [r \in AllRequests |-> home]
CarriesOf == [r \in AllRequests |-> IF r = d1 THEN {k1} ELSE {}]
GroupOf == [k \in {k1, k2} |-> {k1, k2}]
============================================================================
