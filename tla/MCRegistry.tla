----------------------------- MODULE MCRegistry -----------------------------
(* The two stores of the registry for model checking.  They share no state, *)
(* so that a behaviour of both is one of each, interleaved: "side" says     *)
(* which of them is explored.                                               *)
(*                                                                          *)
(* Two publish sessions race for one version while a request resolves the   *)
(* extension; four requests work on a package, or on an organization.       *)
EXTENDS RegistryStore, RegistryMetadata, TLC

CONSTANTS s1, s2, v1

VARIABLE side

MCVer == [s \in Sessions |-> v1]

(* All requests are for the package, or all for the organization, where    *)
(* admins, who may do what owners may, are left out.                       *)
WithoutAdmins == {w \in OrgWork : w.op = "add" => w.role # "admin"}
MCWorks == [Requests -> PackageWork] \cup [Requests -> WithoutAdmins]

(* On the side of the store the requests of the other one never start.     *)
MCInit ==
    /\ \/ side = "metadata"
       \/ /\ side = "store"
          /\ work = [r \in Requests |-> [op |-> "delete"]]
          /\ backend = "mongodb" /\ pkg = Absent
    /\ InitMetadata
    /\ Init
    /\ side = "metadata" => mem.ext = "unknown"

MCNext ==
    \/ side = "store" /\ Next /\ UNCHANGED <<side, metadataVars>>
    \/ side = "metadata" /\ NextMetadata /\ UNCHANGED <<side, vars>>

MCSpec == MCInit /\ [][MCNext]_<<vars, side, metadataVars>>

Symmetry == Permutations(Requests)
=============================================================================
