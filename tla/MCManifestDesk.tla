---------------------------- MODULE MCManifestDesk ----------------------------
(***************************************************************************)
(* Two items of one shipment, one container, one ocean and one air         *)
(* manifest: either can be on the page while others work on both.          *)
(***************************************************************************)
EXTENDS ManifestDesk, TLC

CONSTANTS i1, i2, s1, w1, c1, ocean, air
MCShipmentOf == [i \in Items |-> s1]
MCContainerWarehouse == [c \in Containers |-> w1]
MCModeOf == [m \in Manifests |-> IF m = air THEN "AIR" ELSE "OCEAN"]
MCManifestOrigin == [m \in Manifests |-> None]
MCFilters == {"ALL", "DRAFT"}
BothPages == {"manifests", "containers"}
Sym == Permutations(Items)
=============================================================================
