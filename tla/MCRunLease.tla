----------------------------- MODULE MCRunLease -----------------------------
(***************************************************************************)
(* Small instances of RunLease for TLC.                                    *)
(***************************************************************************)
EXTENDS RunLease, TLC

CONSTANTS c1, c2, c3

(* c2's clock is ahead, c1's is behind.                                    *)
SkewedClocks == (c1 :> -1) @@ (c2 :> 1) @@ (c3 :> 0)
=============================================================================
