--------------------------- MODULE MCNotifications ---------------------------
(* Notifications for TLC: one load and one truck that suit each other. *)
EXTENDS Notifications

MCFound == [p \in {"load", "truck"} |->
    {[load |-> "load", listing |-> "truck",
      user |-> IF p = "load" THEN "carrier" ELSE "shipper"]}]
=============================================================================
