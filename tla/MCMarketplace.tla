--------------------------- MODULE MCMarketplace ---------------------------
(* Marketplace for TLC: one corridor of the table, and names for its cities. *)
EXTENDS Marketplace, TLC

MCName == {"jaipur", "neemrana", "gurgaon", "gurugram", "delhi", "new delhi", "dehli"}
MCAlias == ("gurugram" :> "gurgaon") @@ ("new delhi" :> "delhi")
MCHub == {"jaipur", "neemrana", "gurgaon", "delhi"}
MCClosest == [n \in MCName |-> IF n = "dehli" THEN "delhi" ELSE n]
MCCorridors == <<"jaipur", "delhi">> :> <<"jaipur", "neemrana", "gurugram", "delhi">>

Load == [kind |-> "load", from |-> "jaipur", to |-> "new delhi", type |-> NoType,
         date |-> 3, quantity |-> 5]
Truck == [kind |-> "truck", from |-> "jaipur", to |-> "delhi", type |-> "medium",
          date |-> 3, quantity |-> 6]
\* a load part of the way back, and the truck that drives it
LoadBack == [Load EXCEPT !.from = "gurugram", !.to = "neemrana", !.type = "medium",
                         !.date = 5]
TruckBack == [Truck EXCEPT !.from = "dehli", !.to = "jaipur"]
MCOffers == {Load, LoadBack, Truck, TruckBack}
MCRating == [u \in User |-> 50]
Interchangeable == Permutations(Request) \cup Permutations(User)
=============================================================================
