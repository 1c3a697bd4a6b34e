---------------------------- MODULE MCDeployStage ----------------------------
(* A small instance of DeployStage for TLC: three commands, one at a time   *)
(* for either kind of provider, and two of them at once.                    *)
EXTENDS DeployStage, TLC

CONSTANTS c1, c2, c3

ThreeCommands == {c1, c2, c3}
AnyOrder == Permutations(Commands)

Setting(d, o, v) == [dispatch |-> d, orchestrated |-> o, overlap |-> v]
AllSettings ==
    {Setting("api", TRUE, FALSE), Setting("lifecycle", FALSE, FALSE),
     Setting("api", FALSE, TRUE), Setting("lifecycle", FALSE, TRUE)}
==============================================================================
