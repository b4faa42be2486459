---------------------------- MODULE MCNotifications ----------------------------
(***************************************************************************)
(* One shipment of two items; its owner wants everything and has no phone  *)
(* number for texts, the other customer wants e-mail and has none.         *)
(***************************************************************************)
EXTENDS Notifications

CONSTANTS c1, c2

MCWants == c1 :> {"EMAIL", "SMS", "WHATSAPP"} @@ c2 :> {"EMAIL"}
MCReachable == c1 :> {"EMAIL", "WHATSAPP"} @@ c2 :> {}
MCLoaded == <<c1, c2, c1>>
=============================================================================
