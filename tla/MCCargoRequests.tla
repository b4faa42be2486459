--------------------------- MODULE MCCargoRequests ---------------------------
(***************************************************************************)
(* A small instance of CargoRequests for TLC: one shipment of two items, a *)
(* container, an ocean and an air manifest, one worker.                    *)
(***************************************************************************)
EXTENDS CargoRequests

CONSTANTS i1, i2, s1, w1, c1, ocean, air, k1

MCShipmentOf == [i \in Items |-> s1]
MCContainerWarehouse == [c \in Containers |-> w1]
MCModeOf == [m \in Manifests |-> IF m = air THEN "AIR" ELSE "OCEAN"]
MCManifestOrigin == [m \in Manifests |-> None]

OnlyCancelShipment ==
  {[status |-> "CANCELLED", itemStatus |-> None, receiving |-> FALSE, warehouse |-> None]}
=============================================================================
