--------------------------- MODULE MCConversation ---------------------------
(* Conversation for TLC: the messages that matter to it.                   *)
EXTENDS Conversation, TLC

Plain == [button |-> "none", choice |-> "none", greeting |-> FALSE, words |-> {},
          route |-> "none", parsed |-> {}, llm |-> "UNKNOWN", told |-> {}]
Tap(b) == [Plain EXCEPT !.button = b]
Trip == {"from_city", "to_city", "current_city"}
Quantity == {"weight_kg", "capacity_kg"}

\* "load from Delhi to Jaipur, 5 tons, tomorrow", and the same for a truck
LoadText == [Plain EXCEPT !.words = {"load"}, !.route = "corridor",
    !.parsed = Quantity \cup {"date"}, !.llm = "CREATE_LOAD", !.told = Trip]
TruckText == [LoadText EXCEPT !.words = {"truck"}, !.llm = "POST_TRUCK"]
\* "Delhi to Jaipur, 5 tons" (two adjacent cities), "tomorrow", a bare 2, "hi 6 tons"
RouteText == [Plain EXCEPT !.route = "adjacent", !.parsed = Quantity]
DateText == [Plain EXCEPT !.parsed = {"date"}]
Two == [Plain EXCEPT !.choice = "2"]
Hello == [Plain EXCEPT !.greeting = TRUE, !.parsed = Quantity]

MCMessages == {LoadText, TruckText, RouteText, DateText, Two, Hello,
               Tap("CONFIRM_LOAD"), Tap("CANCEL"), Tap("VIEW_LOADS")}

Interchangeable == Permutations(Request)
=============================================================================
