------------------------------ MODULE Ranking -------------------------------
(***************************************************************************)
(* The score of a load with a truck, and the order in which matches are    *)
(* listed.  m is what the session can see of the market: its loads, its    *)
(* listings and its matches.  Times are minutes, quantities whole tons.    *)
(***************************************************************************)
EXTENDS Routes, Integers

CONSTANT NoType      \* a post that names no vehicle type

Hour == 60
Day == 24 * Hour
Freshness == 60      \* LISTING_FRESHNESS_TTL_SECONDS

Open == {"open", "partial"}                 \* listings that take loads
Waiting == {"open", "matched"}              \* loads that are not taken
Settled == {"confirmed", "completed"}       \* matches that went through

\* Mutant: the sum is not capped.
AtMostNone(n, cap) == n

AtMost(n, cap) == IF n < cap THEN n ELSE cap
Distance(a, b) == IF a < b THEN b - a ELSE a - b

\* Rows of the vehicle type asked for; where no row of the lane has a type,
\* all of them stand for it.
Segment(rows, type) ==
    IF type = NoType \/ \A r \in rows : r.type = NoType THEN rows
    ELSE {r \in rows : r.type = type}

Listed(m, lane, since) ==
    {t \in m.listings : t.lane = lane /\ t.status \in Open /\ t.created >= since}
Wanted(m, lane, since) ==
    {l \in m.loads : l.lane = lane /\ l.status = "open" /\ l.created >= since}

Supply(m, lane, type, now) ==
    IF lane = {} THEN 0 ELSE Cardinality(Segment(Listed(m, lane, now - Day), type))
Demand(m, lane, type, now) ==
    IF lane = {} THEN 0 ELSE Cardinality(Segment(Wanted(m, lane, now - Day), type))

LiquidityScore(supply) == AtMost(2 * supply, 20)
DemandScore(demand) == AtMost(2 * demand, 16)
RatioScore(demand, supply) ==
    AtMost((5 * demand) \div (IF supply > 1 THEN supply ELSE 1), 20)

\* Ranking trucks for a load keeps the counts it has made; scoring loads for
\* a truck has no such cache, and takes the counts back out of their points.
ImbalanceScore(demand, supply, counted) ==
    IF counted THEN RatioScore(demand, supply)
    ELSE RatioScore(DemandScore(demand) \div 2, LiquidityScore(supply) \div 2)

\* When the segment last saw a post, of either kind.
ActivityScore(m, lane, type, now) ==
    LET posts == Segment(Listed(m, lane, now - 6 * Hour) \cup
                         Wanted(m, lane, now - 6 * Hour), type)
        since(age) == \E p \in posts : p.created >= now - age
    IN  IF lane = {} THEN 0
        ELSE IF since(30) THEN 6 ELSE IF since(120) THEN 3
        ELSE IF since(360) THEN 1 ELSE 0

Successes(m, owner, lanes, now) ==
    Cardinality({x \in m.matches : /\ x.status \in Settled /\ x.at >= now - 7 * Day
                                   /\ \E t \in m.listings :
                                        /\ t.id = x.listing /\ t.owner = owner
                                        /\ t.lane \in lanes})
Reliability(n) == IF n >= 6 THEN 10 ELSE IF n >= 3 THEN 6 ELSE IF n >= 1 THEN 3 ELSE 0
LaneReliability(n) == IF n >= 6 THEN 6 ELSE IF n >= 3 THEN 4 ELSE IF n >= 1 THEN 2 ELSE 0

RecencyScore(age) ==
    IF age <= 30 THEN 10 ELSE IF age <= 120 THEN 6
    ELSE IF age <= 360 THEN 3 ELSE IF age <= 720 THEN 1 ELSE 0

\* Mutant: routes are compared by their lanes, which have no direction.
RouteScoreLane(load, listing) ==
    IF LaneKey(load.from, load.to) = LaneKey(listing.from, listing.to) THEN 40
    ELSE IF InCorridor(load.from, load.to, listing.from, listing.to) THEN 30
    ELSE IF load.from = listing.from \/ load.to = listing.to THEN 20 ELSE 0

RouteScore(load, listing) ==
    LET from == Normalize(load.from)
        to == Normalize(load.to)
        origin == Normalize(listing.from)
        dest == Normalize(listing.to)
    IN  IF from = origin /\ to = dest THEN 40
        ELSE IF InCorridor(from, to, origin, dest) THEN 30
        ELSE IF from = origin \/ to = dest THEN 20 ELSE 0

DateScore(load, listing) ==
    CASE Distance(load.date, listing.date) = 0 -> 20
      [] Distance(load.date, listing.date) = 1 -> 15
      [] Distance(load.date, listing.date) = 2 -> 10
      [] OTHER -> 0

CapacityScore(load, listing) ==
    IF listing.quantity = load.quantity THEN 20
    ELSE IF listing.quantity < load.quantity THEN 0
    ELSE IF 5 * listing.quantity <= 6 * load.quantity THEN 15 ELSE 10

\* rating is the tenfold of users.rating, 50 when there is none
ReputationScore(rating) ==
    IF rating > 45 THEN 20 ELSE IF rating > 40 THEN 15 ELSE IF rating > 35 THEN 10 ELSE 5

\* What score_match returns, and the parts that break ties.  A load keeps no
\* corridor_source, so that corridor_rank_bonus always adds nothing.
Score(m, load, listing, rating, now, counted) ==
    LET lane == listing.lane
        supply == Supply(m, lane, listing.type, now)
        demand == Demand(m, lane, listing.type, now)
        segment == LiquidityScore(supply) + DemandScore(demand)
                     + ImbalanceScore(demand, supply, counted)
                     + ActivityScore(m, lane, listing.type, now)
        route == RouteScore(load, listing) + CorridorBonus(load.from, load.to)
                   + LaneReliability(Successes(m, listing.owner, {lane}, now))
        recency == RecencyScore(now - listing.created)
        operator == ReputationScore(rating)
                      + Reliability(Successes(m, listing.owner,
                                              {t.lane : t \in m.listings}, now))
    IN  [score |-> AtMost(segment + route + recency + operator
                            + DateScore(load, listing) + CapacityScore(load, listing), 100),
         segment |-> segment, route |-> route, recency |-> recency,
         operator |-> operator, id |-> listing.id]

-----------------------------------------------------------------------------
(* The order of the reply.                                                 *)

\* _deterministic_match_sort_key: by score, then part by part, then by id
Key(r) == <<r.score, r.segment, r.route, r.recency, r.operator, -r.id>>
Ahead(a, b) ==
    \E i \in 1..6 : /\ Key(a)[i] > Key(b)[i]
                    /\ \A j \in 1..(i - 1) : Key(a)[j] = Key(b)[j]

Best(results, n) ==
    {r \in results : Cardinality({x \in results : Ahead(x, r)}) < n}
=============================================================================
