----------------------------- MODULE MCFileLock -----------------------------
(***************************************************************************)
(* Small instances of FileLock for TLC.                                    *)
(***************************************************************************)
EXTENDS FileLock, TLC

CONSTANTS c1, c2, c3, c4

FourCallers == {c1, c2, c3, c4}

(* c3 stands for Recover, which does not renew.                            *)
Renewing == {c1, c2}
=============================================================================
