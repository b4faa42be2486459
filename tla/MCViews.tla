-------------------------------- MODULE MCViews --------------------------------
(***************************************************************************)
(* A small instance of Views for TLC: two customers with a shipment each,  *)
(* an invoice for each in a currency of its own, two days, and a table of  *)
(* customers that has one row.                                             *)
(***************************************************************************)
EXTENDS Views

CONSTANTS c1, c2, s1, s2, n1, n2, r1

MCOwnerOf == [s \in {s1, s2} |-> IF s = s1 THEN c1 ELSE c2]
MCModeOf == [s \in {s1, s2} |-> IF s = s1 THEN "AIR" ELSE "OCEAN_LCL"]
MCDestinationOf == [s \in {s1, s2} |-> "GH"]
MCRouteOf == [s \in {s1, s2} |-> IF s = s1 THEN r1 ELSE None]
MCBillOf == [b \in {n1, n2} |-> IF b = n1 THEN s1 ELSE s2]
MCCurrencyOf == [b \in {n1, n2} |-> IF b = n1 THEN "USD" ELSE "GHS"]
MCAgeLimits == <<1, 2>>
MCDueDays == {-2, 0, 1}
=============================================================================
