----------------------------- MODULE MCWorkspace -----------------------------
(***************************************************************************)
(* Two items of one shipment, one warehouse that is origin and destination *)
(* at once, one container and one ocean manifest: every mode has work, and *)
(* one item can be on the screen while the other is being answered.        *)
(***************************************************************************)
EXTENDS Workspace, TLC

CONSTANTS i1, i2, s1, w1, c1, ocean
MCShipmentOf == [i \in Items |-> s1]
MCContainerWarehouse == [c \in Containers |-> w1]
MCModeOf == [m \in Manifests |-> "OCEAN"]
MCManifestOrigin == [m \in Manifests |-> None]
AllModes == ModeNames
Sym == Permutations(Items)
=============================================================================
