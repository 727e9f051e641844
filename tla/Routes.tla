------------------------------- MODULE Routes -------------------------------
(***************************************************************************)
(* Cities and routes: how a name is normalised, the lane two cities make,  *)
(* and which loads lie along the corridor a truck drives.  The tables are  *)
(* constants; a name that is no city has no normal form.                   *)
(***************************************************************************)
EXTENDS Naturals, FiniteSets, Sequences

CONSTANTS
    Name,       \* what a sender may call a place
    Alias,      \* CITY_ALIASES: from a name to the name it stands for
    Zone,       \* the aliases that are industrial zones
    Hub,        \* CITY_LOGISTICS_HUBS
    Closest,    \* the recognised city a name is close enough to, or Nowhere
    RawCorridors,  \* from <<origin, destination>> to the stops on the way
    Nowhere

ASSUME RoutesAssumption ==
    /\ Nowhere \notin Name
    /\ DOMAIN Alias \subseteq Name /\ \A n \in DOMAIN Alias : Alias[n] \in Name
    /\ Zone \subseteq DOMAIN Alias
    /\ Hub \subseteq Name
    /\ Closest \in [Name -> Name \cup {Nowhere}]
    /\ DOMAIN RawCorridors \subseteq Name \X Name
    /\ \A k \in DOMAIN RawCorridors : RawCorridors[k] \in Seq(Name)

\* An alias wins over a hub, and what it stands for is not looked up again.
Normalize(name) ==
    IF name = Nowhere THEN Nowhere
    ELSE IF name \in DOMAIN Alias THEN Alias[name]
    ELSE IF name \in Hub THEN name
    ELSE LET city == Closest[name]
         IN  IF city \in DOMAIN Alias THEN Alias[city] ELSE city

\* CITY_ALIASES as it is: a normal form is recognised, and one that is looked up
\* once more has settled (vzg stands for vizag, and vizag for visakhapatnam).
ASSUME AliasAssumption ==
    \A n \in Name : Normalize(n) # Nowhere =>
        /\ Normalize(Normalize(n)) # Nowhere
        /\ Normalize(Normalize(Normalize(n))) = Normalize(Normalize(n))

\* The label stored with a post is a normal form; it is normalised again
\* wherever it is used.
CityLabel(name) == Normalize(name)

\* The two ends in sorted order: the way back is the same lane.
LaneKey(origin, destination) ==
    LET ends == {Normalize(origin), Normalize(destination)}
    IN  IF Nowhere \in ends THEN {} ELSE ends

Corridors ==
    LET key(k) == <<Normalize(k[1]), Normalize(k[2])>>
    IN  [r \in {key(k) : k \in DOMAIN RawCorridors} |->
           LET raw == RawCorridors[CHOOSE k \in DOMAIN RawCorridors : key(k) = r]
           IN  [i \in DOMAIN raw |-> Normalize(raw[i])]]

\* ROUTE_CORRIDORS as it is: a route is written down in one direction and passes
\* no city twice; a stop that is no city may occur again.
ASSUME CorridorsAssumption ==
    /\ \A r \in DOMAIN Corridors : <<r[2], r[1]>> \notin DOMAIN Corridors
    /\ \A r \in DOMAIN Corridors : \A i, j \in DOMAIN Corridors[r] :
         Corridors[r][i] = Corridors[r][j] => i = j \/ Corridors[r][i] = Nowhere

Backwards(s) == [i \in DOMAIN s |-> s[Len(s) + 1 - i]]

\* Mutant: a route is looked up only as it is written down.
GetCorridorForward(origin, destination) ==
    LET key == <<Normalize(origin), Normalize(destination)>>
    IN  IF key \in DOMAIN Corridors THEN Corridors[key] ELSE <<>>

\* The stops between two cities, looked up in both directions, or none.
GetCorridor(origin, destination) ==
    LET key == <<Normalize(origin), Normalize(destination)>>
        back == <<key[2], key[1]>>
    IN  IF key \in DOMAIN Corridors THEN Corridors[key]
        ELSE IF back \in DOMAIN Corridors THEN Backwards(Corridors[back]) ELSE <<>>

FirstAt(s, city) ==
    CHOOSE i \in DOMAIN s : s[i] = city /\ \A j \in 1..(i - 1) : s[j] # city

\* The load goes from a stop of the truck to a later stop.
InCorridor(pickup, drop, origin, destination) ==
    LET from == Normalize(pickup)
        to == Normalize(drop)
        stops == GetCorridor(origin, destination)
        on(city) == \E i \in DOMAIN stops : stops[i] = city
    IN  \/ from = Normalize(origin) /\ to = Normalize(destination)
        \/ on(from) /\ on(to) /\ FirstAt(stops, from) < FirstAt(stops, to)

\* Routes to suggest when nothing was found; the reply names at most three.
NearbyRoutes(origin, destination) ==
    {r \in DOMAIN Corridors : \E i \in DOMAIN Corridors[r] :
        Corridors[r][i] \in {Normalize(origin), Normalize(destination)}}

CorridorSource(origin, destination) ==
    IF {origin, destination} \cap Zone # {} THEN "industrial_zone_pair"
    ELSE IF {origin, destination} \subseteq Hub THEN "city_pair"
    ELSE IF {origin, destination} \cap DOMAIN Alias # {} THEN "alias_pair"
    ELSE "city_pair"

\* Points for the route itself, whatever the truck.
CorridorBonus(origin, destination) ==
    IF Nowhere \in {Normalize(origin), Normalize(destination)} THEN 0
    ELSE CASE CorridorSource(origin, destination) = "industrial_zone_pair" -> 12
           [] CorridorSource(origin, destination) = "city_pair" -> 10
           [] CorridorSource(origin, destination) = "alias_pair" -> 8
=============================================================================
