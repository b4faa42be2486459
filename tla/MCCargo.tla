------------------------------- MODULE MCCargo -------------------------------
(***************************************************************************)
(* A small instance of Cargo for TLC: one shipment of two items, two       *)
(* warehouses, a container that loads at each, an ocean manifest out of    *)
(* the first one, another and an air manifest with no origin set.          *)
(***************************************************************************)
EXTENDS Offers

CONSTANTS i1, i2, s1, w1, w2, c1, c2, ocean, ocean2, air

MCShipmentOf == [i \in Items |-> s1]
MCContainerWarehouse == [c \in Containers |-> IF c = c1 THEN w1 ELSE w2]
MCModeOf == [m \in Manifests |-> IF m = air THEN "AIR" ELSE "OCEAN"]
MCManifestOrigin == [m \in Manifests |-> IF m = ocean THEN w1 ELSE None]

OnlyCancelShipment ==
  {[status |-> "CANCELLED", itemStatus |-> None, receiving |-> FALSE, warehouse |-> None]}
=============================================================================
