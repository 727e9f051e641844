-------------------------- MODULE MarketplaceProofs --------------------------
(***************************************************************************)
(* What the marketplace promises for any users, posts, cities, corridors   *)
(* and number of overlapping confirmations: no twin loads, one truck and   *)
(* one rating each, no suitable pair missed, suggestions that agree with   *)
(* the status of the loads, and a snapshot that adds up.                   *)
(*                                                                         *)
(* The invariant relates what is committed to what each transaction has    *)
(* pending.  Most of its parts say nothing of time and phases: they are    *)
(* relations between tables and one transaction, and the lemmas on commits *)
(* are about those.                                                        *)
(***************************************************************************)
EXTENDS Marketplace, FiniteSetTheorems, TLAPS

(* Names, ids and numbers.                                                 *)

Place == Name \cup {Nowhere}

LEMMA NormalizeType == \A n \in Place : Normalize(n) \in Place
  BY RoutesAssumption DEF Place, Normalize

LEMMA LaneType == \A a, b \in Place : LaneKey(a, b) \in SUBSET Name
<1> SUFFICES ASSUME NEW a \in Place, NEW b \in Place PROVE LaneKey(a, b) \in SUBSET Name
  OBVIOUS
<1>1. Normalize(a) \in Place /\ Normalize(b) \in Place
  BY NormalizeType
<1> QED BY <1>1 DEF LaneKey, Place

\* An id that is not in use can always be found (uuid4).
LEMMA FreshId ==
    ASSUME NEW ids, IsFiniteSet(ids)
    PROVE  Unused(ids) \in Nat /\ Unused(ids) \notin ids
<1> DEFINE n == Cardinality(ids) + 1
<1>1. Cardinality(ids) \in Nat
  BY FS_CardinalityType
<1>2. Cardinality(1..n) = Cardinality(ids) + 1
  BY <1>1, FS_Interval
<1>3. \E k \in 1..n : k \notin ids
  <2>1. SUFFICES ASSUME 1..n \subseteq ids PROVE FALSE
    BY Zenon
  <2>2. Cardinality(1..n) <= Cardinality(ids)
    BY <2>1, FS_Subset
  <2> QED BY <1>1, <1>2, <2>2
<1>4. Unused(ids) \in 1..n /\ Unused(ids) \notin ids
  BY <1>3, Zenon DEF Unused
<1> QED BY <1>1, <1>4

LEMMA ImageFinite ==
    ASSUME NEW S, IsFiniteSet(S), NEW f, S \subseteq DOMAIN f
    PROVE  IsFiniteSet({f[x] : x \in S})
<1> DEFINE g == [x \in S |-> f[x]]
           T == {f[x] : x \in S}
<1>1. g \in Surjection(S, T)
  BY DEF Surjection
<1> QED BY <1>1, FS_Surjection

LEMMA IdsFinite ==
    ASSUME NEW rows, IsFiniteSet(rows), IsFiniteSet(Request), NEW field,
           \A x \in Request : IsFiniteSet(tx[x].writes[field])
    PROVE  IsFiniteSet(Ids(rows, field))
<1> DEFINE w == [x \in Request |-> tx[x].writes[field]]
           all == rows \cup UNION {w[x] : x \in Request}
           id == [r \in all |-> r.id]
<1>1. IsFiniteSet({w[x] : x \in Request})
  BY ImageFinite
<1>2. \A s \in {w[x] : x \in Request} : IsFiniteSet(s)
  OBVIOUS
<1>3. IsFiniteSet(UNION {w[x] : x \in Request})
  BY <1>1, <1>2, FS_UNION
<1>4. IsFiniteSet(all)
  BY <1>3, FS_Union
<1>5. IsFiniteSet({id[r] : r \in all})
  <2> HIDE DEF all
  <2> QED BY <1>4, ImageFinite
<1>6. {id[r] : r \in all} = Ids(rows, field)
  BY DEF Ids
<1> QED BY <1>5, <1>6

-----------------------------------------------------------------------------
(* Scores.                                                                 *)

LEMMA AtMostRange == \A n, cap \in Nat : AtMost(n, cap) \in 0..cap /\ AtMost(n, cap) <= n
  BY DEF AtMost

LEMMA SegmentFinite ==
    ASSUME NEW rows, IsFiniteSet(rows), NEW type
    PROVE  IsFiniteSet(Segment(rows, type))
  BY FS_Subset DEF Segment

LEMMA SupplyType ==
    ASSUME NEW m, IsFiniteSet(m.listings), NEW lane, NEW type, NEW time
    PROVE  Supply(m, lane, type, time) \in Nat
<1>1. IsFiniteSet(Listed(m, lane, time - Day))
  BY FS_Subset DEF Listed
<1> QED BY <1>1, SegmentFinite, FS_CardinalityType DEF Supply

LEMMA DemandType ==
    ASSUME NEW m, IsFiniteSet(m.loads), NEW lane, NEW type, NEW time
    PROVE  Demand(m, lane, type, time) \in Nat
<1>1. IsFiniteSet(Wanted(m, lane, time - Day))
  BY FS_Subset DEF Wanted
<1> QED BY <1>1, SegmentFinite, FS_CardinalityType DEF Demand

LEMMA RatioType == \A d, s \in Nat : RatioScore(d, s) \in Nat
<1> SUFFICES ASSUME NEW d \in Nat, NEW s \in Nat PROVE RatioScore(d, s) \in Nat
  OBVIOUS
<1> DEFINE k == IF s > 1 THEN s ELSE 1
<1>1. k \in Nat \ {0}
  OBVIOUS
<1>2. (5 * d) \div k \in Nat
  <2> HIDE DEF k
  <2> QED BY <1>1
<1> QED BY <1>2 DEF RatioScore, AtMost

LEMMA ImbalanceType == \A d, s \in Nat : ImbalanceScore(d, s, TRUE) \in Nat
  BY RatioType DEF ImbalanceScore

LEMMA SuccessesType ==
    ASSUME NEW m, IsFiniteSet(m.matches), NEW owner, NEW lanes, NEW time
    PROVE  Successes(m, owner, lanes, time) \in Nat
  BY FS_Subset, FS_CardinalityType DEF Successes

LEMMA ReliabilityType == \A n \in Nat : Reliability(n) \in Nat /\ LaneReliability(n) \in Nat
  BY DEF Reliability, LaneReliability

LEMMA RouteScoreType == \A l, t : RouteScore(l, t) \in Nat
  BY DEF RouteScore

LEMMA DateScoreType == \A l, t : DateScore(l, t) \in Nat
  BY DEF DateScore

LEMMA CapacityScoreType == \A l, t : CapacityScore(l, t) \in Nat
  BY DEF CapacityScore

LEMMA ActivityScoreType == \A m, lane, type, time : ActivityScore(m, lane, type, time) \in Nat
  BY DEF ActivityScore

LEMMA CorridorBonusType == \A a, b : CorridorBonus(a, b) \in Nat
<1> SUFFICES ASSUME NEW a, NEW b PROVE CorridorBonus(a, b) \in Nat
  OBVIOUS
<1>1. CorridorSource(a, b) \in {"industrial_zone_pair", "city_pair", "alias_pair"}
  BY DEF CorridorSource
<1> QED BY <1>1 DEF CorridorBonus

Points(r, load, listing) ==
    r.segment + r.route + r.recency + r.operator
      + DateScore(load, listing) + CapacityScore(load, listing)
Measured(r, load, listing) ==
    /\ r.segment \in Nat /\ r.route \in Nat /\ r.recency \in Nat /\ r.operator \in Nat
    /\ Points(r, load, listing) \in Nat
    /\ r.score = AtMost(Points(r, load, listing), 100)

\* The parts of a score are numbers, and the score is their capped sum.
LEMMA ScoreParts ==
    ASSUME NEW m, IsFiniteSet(m.loads), IsFiniteSet(m.listings), IsFiniteSet(m.matches),
           NEW load, NEW listing, NEW rating, NEW time
    PROVE  Measured(Score(m, load, listing, rating, time, TRUE), load, listing)
<1> DEFINE lane == listing.lane
           supply == Supply(m, lane, listing.type, time)
           demand == Demand(m, lane, listing.type, time)
           segment == LiquidityScore(supply) + DemandScore(demand)
                        + ImbalanceScore(demand, supply, TRUE)
                        + ActivityScore(m, lane, listing.type, time)
           route == RouteScore(load, listing) + CorridorBonus(load.from, load.to)
                      + LaneReliability(Successes(m, listing.owner, {lane}, time))
           recency == RecencyScore(time - listing.created)
           operator == ReputationScore(rating)
                         + Reliability(Successes(m, listing.owner,
                                                 {t.lane : t \in m.listings}, time))
<1>1. supply \in Nat /\ demand \in Nat
  BY SupplyType, DemandType
<1>2. segment \in Nat
  <2>1. LiquidityScore(supply) \in Nat /\ DemandScore(demand) \in Nat
    <3> HIDE DEF supply, demand
    <3> QED BY <1>1 DEF LiquidityScore, DemandScore, AtMost
  <2>2. ImbalanceScore(demand, supply, TRUE) \in Nat
    <3> HIDE DEF supply, demand
    <3> QED BY <1>1, ImbalanceType
  <2>3. ActivityScore(m, lane, listing.type, time) \in Nat
    BY ActivityScoreType
  <2>4. \A a, b, c, d \in Nat : a + b + c + d \in Nat
    OBVIOUS
  <2> QED BY <2>1, <2>2, <2>3, <2>4, Zenon
<1>3. route \in Nat
  <2>1. LaneReliability(Successes(m, listing.owner, {lane}, time)) \in Nat
    BY SuccessesType, ReliabilityType
  <2> QED BY <2>1, RouteScoreType, CorridorBonusType
<1>4. recency \in Nat
  BY DEF RecencyScore
<1>5. operator \in Nat
  <2>1. Reliability(Successes(m, listing.owner, {t.lane : t \in m.listings}, time)) \in Nat
    BY SuccessesType, ReliabilityType
  <2>2. ReputationScore(rating) \in Nat
    BY DEF ReputationScore
  <2> QED BY <2>1, <2>2
<1>6. DateScore(load, listing) \in Nat /\ CapacityScore(load, listing) \in Nat
  BY DateScoreType, CapacityScoreType
<1> DEFINE r == Score(m, load, listing, rating, time, TRUE)
<1>7. /\ r.segment = segment /\ r.route = route /\ r.recency = recency
      /\ r.operator = operator
      /\ r.score = AtMost(segment + route + recency + operator
                            + DateScore(load, listing) + CapacityScore(load, listing), 100)
  BY DEF Score
<1> HIDE DEF r
<1> HIDE DEF segment, route, recency, operator
<1>8. segment + route + recency + operator
        + DateScore(load, listing) + CapacityScore(load, listing) \in Nat
  BY <1>2, <1>3, <1>4, <1>5, <1>6
<1>9. Measured(r, load, listing)
  BY <1>2, <1>3, <1>4, <1>5, <1>7, <1>8 DEF Measured, Points
<1> QED BY <1>9 DEF r

LEMMA ScoreRange ==
    ASSUME NEW m, IsFiniteSet(m.loads), IsFiniteSet(m.listings), IsFiniteSet(m.matches),
           NEW load, NEW listing, NEW rating, NEW time
    PROVE  Score(m, load, listing, rating, time, TRUE).score \in 0..100
<1> DEFINE r == Score(m, load, listing, rating, time, TRUE)
<1>1. Measured(r, load, listing)
  BY ScoreParts
<1> HIDE DEF r
<1>2. r.score \in 0..100
  BY <1>1 DEF Measured, AtMost
<1> QED BY <1>2 DEF r

-----------------------------------------------------------------------------
(* Corridors.                                                              *)

\* from one normal form to another along the route of origin and destination
OnTheWay(from, to, origin, dest) ==
    \/ from = origin /\ to = dest
    \/ \E r \in DOMAIN Corridors : \E i, j \in DOMAIN Corridors[r] :
         /\ Corridors[r][i] = from /\ Corridors[r][j] = to
         /\ \/ i < j /\ r = <<origin, dest>>
            \/ j < i /\ r = <<dest, origin>>

LEMMA CorridorShape ==
    ASSUME NEW r \in DOMAIN Corridors
    PROVE  /\ r = <<r[1], r[2]>>
           /\ Len(Corridors[r]) \in Nat /\ DOMAIN Corridors[r] = 1..Len(Corridors[r])
<1> DEFINE key(k) == <<Normalize(k[1]), Normalize(k[2])>>
           raw == RawCorridors[CHOOSE k \in DOMAIN RawCorridors : key(k) = r]
<1>1. PICK k \in DOMAIN RawCorridors : r = key(k)
  BY DEF Corridors
<1>2. (CHOOSE x \in DOMAIN RawCorridors : key(x) = r) \in DOMAIN RawCorridors
  <2> HIDE DEF key
  <2> QED BY <1>1, Zenon
<1>3. raw \in Seq(Name)
  BY <1>2, RoutesAssumption
<1>4. Corridors[r] = [i \in DOMAIN raw |-> Normalize(raw[i])]
  BY DEF Corridors
<1>5. \A i \in DOMAIN raw : Normalize(raw[i]) \in Place
  BY <1>3, NormalizeType DEF Place
<1>6. Corridors[r] \in Seq(Place)
  <2> HIDE DEF raw
  <2> QED BY <1>3, <1>4, <1>5
<1>7. r = <<r[1], r[2]>>
  BY <1>1
<1> QED BY <1>6, <1>7

LEMMA FirstAtOnly ==
    ASSUME NEW s, NEW n \in Nat, DOMAIN s = 1..n, NEW i \in 1..n,
           \A j \in 1..n : s[j] = s[i] => j = i
    PROVE  FirstAt(s, s[i]) = i
  BY DEF FirstAt

\* No city twice, one direction: what get_corridor and is_in_corridor find is
\* the order of the stops, either way.
LEMMA InCorridorOrder ==
    ASSUME NEW pickup, NEW drop, NEW origin, NEW dest,
           Normalize(pickup) # Nowhere, Normalize(drop) # Nowhere
    PROVE  InCorridor(pickup, drop, origin, dest)
             <=> OnTheWay(Normalize(pickup), Normalize(drop),
                          Normalize(origin), Normalize(dest))
<1> DEFINE from == Normalize(pickup)
           to == Normalize(drop)
           key == <<Normalize(origin), Normalize(dest)>>
           back == <<Normalize(dest), Normalize(origin)>>
           stops == GetCorridor(origin, dest)
<1> HIDE DEF from, to, key, back, stops
<1> SUFFICES ASSUME ~ (from = Normalize(origin) /\ to = Normalize(dest))
             PROVE  (\E i, j \in DOMAIN stops : /\ stops[i] = from /\ stops[j] = to
                                               /\ FirstAt(stops, from) < FirstAt(stops, to))
                    <=> (\E r \in DOMAIN Corridors : \E i, j \in DOMAIN Corridors[r] :
                           /\ Corridors[r][i] = from /\ Corridors[r][j] = to
                           /\ (i < j /\ r = key) \/ (j < i /\ r = back))
  BY Zenon DEF InCorridor, OnTheWay, from, to, key, back, stops
<1>1. CASE key \in DOMAIN Corridors
  <2>1. stops = Corridors[key]
    BY <1>1, Zenon DEF GetCorridor, key, stops
  <2>2. back \notin DOMAIN Corridors
    BY <1>1, CorridorsAssumption DEF key, back
  <2>3. PICK n \in Nat : DOMAIN stops = 1..n
    BY <1>1, <2>1, CorridorShape
  <2>4. \A i, j \in 1..n : stops[i] = stops[j] /\ stops[i] \in {from, to} => i = j
    BY <1>1, <2>1, <2>3, CorridorsAssumption DEF from, to
  <2>5. \A i \in 1..n : stops[i] \in {from, to} => FirstAt(stops, stops[i]) = i
    BY <2>3, <2>4, FirstAtOnly
  <2> QED BY <1>1, <2>1, <2>2, <2>3, <2>5
<1>2. CASE key \notin DOMAIN Corridors /\ back \in DOMAIN Corridors
  <2> DEFINE way == Corridors[back]
             n == Len(way)
  <2>1. n \in Nat /\ DOMAIN way = 1..n
    BY <1>2, CorridorShape
  <2>2. stops = [i \in 1..n |-> way[n + 1 - i]]
    BY <1>2, <2>1 DEF GetCorridor, Backwards, key, back, stops
  <2>3. \A i, j \in 1..n : way[i] = way[j] /\ way[i] \in {from, to} => i = j
    BY <1>2, <2>1, CorridorsAssumption DEF from, to
  <2> HIDE DEF n, way
  <2>4. DOMAIN stops = 1..n /\ \A i \in 1..n : n + 1 - i \in 1..n
    BY <2>1, <2>2
  <2>5. \A i, j \in 1..n : stops[i] = stops[j] /\ stops[i] \in {from, to} => i = j
    BY <2>1, <2>2, <2>3
  <2>6. \A i \in 1..n : stops[i] \in {from, to} => FirstAt(stops, stops[i]) = i
    BY <2>1, <2>4, <2>5, FirstAtOnly
  <2>7. ASSUME NEW i \in 1..n, NEW j \in 1..n, stops[i] = from, stops[j] = to,
               FirstAt(stops, from) < FirstAt(stops, to)
        PROVE  \E x, y \in 1..n : way[x] = from /\ way[y] = to /\ y < x
    <3>1. i < j
      BY <2>6, <2>7
    <3>2. way[n + 1 - i] = from /\ way[n + 1 - j] = to /\ n + 1 - j < n + 1 - i
      BY <2>1, <2>2, <2>7, <3>1
    <3> QED BY <2>4, <3>2
  <2>8. ASSUME NEW x \in 1..n, NEW y \in 1..n, way[x] = from, way[y] = to, y < x
        PROVE  \E i, j \in 1..n : /\ stops[i] = from /\ stops[j] = to
                                  /\ FirstAt(stops, from) < FirstAt(stops, to)
    <3> DEFINE i == n + 1 - x
               j == n + 1 - y
    <3>1. i \in 1..n /\ j \in 1..n /\ i < j
      BY <2>1, <2>8
    <3>2. stops[i] = from /\ stops[j] = to
      BY <2>1, <2>2, <2>8
    <3> QED BY <2>6, <3>1, <3>2
  <2> QED BY <1>2, <2>1, <2>4, <2>7, <2>8 DEF way
<1>3. CASE key \notin DOMAIN Corridors /\ back \notin DOMAIN Corridors
  <2>1. stops = << >>
    BY <1>3, Zenon DEF GetCorridor, key, back, stops
  <2> QED BY <1>3, <2>1
<1> QED BY <1>1, <1>2, <1>3

LEMMA AlongOrder ==
    \A l, t : Along(l, t) <=> OnTheWay(Normalize(l.from), Normalize(l.to),
                                       Normalize(t.from), Normalize(t.to))
  BY Zenon DEF Along, OnTheWay

-----------------------------------------------------------------------------
(* Ranking.                                                                *)

Suggested(m) == \A x \in m.matches : x.status = "suggested"

LEMMA NoSuccesses ==
    ASSUME NEW m, Suggested(m), NEW owner, NEW lanes, NEW time
    PROVE  Successes(m, owner, lanes, time) = 0
<1> DEFINE S == {x \in m.matches : /\ x.status \in Settled /\ x.at >= time - 7 * Day
                                  /\ \E t \in m.listings :
                                       /\ t.id = x.listing /\ t.owner = owner
                                       /\ t.lane \in lanes}
<1>1. S = {}
  BY DEF Suggested, Settled
<1> QED BY <1>1, FS_EmptySet DEF Successes

LEMMA SettledLabel ==
    \A n \in Label : /\ Normalize(n) \in Name /\ Normalize(n) # Nowhere
                     /\ Normalize(Normalize(n)) = Normalize(n)
  BY NormalizeType DEF Label, Place

\* A truck along whose route the load lies scores at least 30 for the route,
\* any other at most 20 (score_match).
LEMMA RouteGap ==
    ASSUME NEW l, l.from \in Label, l.to \in Label,
           NEW t, t.from \in Label, t.to \in Label
    PROVE  IF Along(l, t) THEN RouteScore(l, t) >= 30 ELSE RouteScore(l, t) <= 20
<1> DEFINE from == Normalize(l.from)
           to == Normalize(l.to)
           origin == Normalize(t.from)
           dest == Normalize(t.to)
<1>1. /\ from # Nowhere /\ Normalize(from) = from /\ to # Nowhere /\ Normalize(to) = to
      /\ Normalize(origin) = origin /\ Normalize(dest) = dest
  BY SettledLabel
<1>2. Along(l, t) <=> OnTheWay(from, to, origin, dest)
  BY AlongOrder
<1> HIDE DEF from, to, origin, dest
<1>3. InCorridor(from, to, origin, dest) <=> OnTheWay(from, to, origin, dest)
  BY <1>1, InCorridorOrder
<1>4. from = origin /\ to = dest => OnTheWay(from, to, origin, dest)
  BY DEF OnTheWay
<1> QED BY <1>2, <1>3, <1>4 DEF RouteScore, from, to, origin, dest

\* With everything else equal the route decides, even at the cap.
LEMMA ForwardAhead ==
    ASSUME NEW m, IsFiniteSet(m.loads), IsFiniteSet(m.listings), IsFiniteSet(m.matches),
           Suggested(m), NEW time \in Nat,
           NEW l, l.from \in Label, l.to \in Label, l.date \in Nat, l.quantity \in Nat,
           NEW a \in m.listings, a.from \in Label, a.to \in Label, 
           NEW b \in m.listings, b.from \in Label, b.to \in Label,
           Along(l, a), ~Along(l, b), a.lane = b.lane, a.type = b.type, a.date = b.date,
           a.quantity = b.quantity, a.created = b.created,
           Rating[a.owner] = Rating[b.owner]
    PROVE  Ahead(Score(m, l, a, Rating[a.owner], time, TRUE),
                 Score(m, l, b, Rating[b.owner], time, TRUE))
<1> DEFINE A == Score(m, l, a, Rating[a.owner], time, TRUE)
           B == Score(m, l, b, Rating[b.owner], time, TRUE)
           bonus == CorridorBonus(l.from, l.to)
<1>1. A.segment = B.segment /\ A.recency = B.recency
  BY DEF Score
<1>2. A.route = RouteScore(l, a) + bonus /\ B.route = RouteScore(l, b) + bonus
  BY NoSuccesses, CorridorBonusType, RouteScoreType DEF Score, LaneReliability
<1>3. A.operator = B.operator
  BY NoSuccesses DEF Score
<1>4. /\ DateScore(l, a) = DateScore(l, b) /\ CapacityScore(l, a) = CapacityScore(l, b)
  BY DEF DateScore, CapacityScore
<1>5. A.route > B.route
  <2>1. RouteScore(l, a) >= 30 /\ RouteScore(l, b) <= 20
    BY RouteGap
  <2> HIDE DEF A, B
  <2> QED BY <1>2, <2>1, CorridorBonusType, RouteScoreType
<1>6. A.score >= B.score /\ A.score \in Nat /\ B.score \in Nat
  <2>1. Measured(A, l, a)
    BY ScoreParts
  <2>2. Measured(B, l, b)
    BY ScoreParts
  <2>3. DateScore(l, a) \in Nat /\ CapacityScore(l, a) \in Nat
    BY DateScoreType, CapacityScoreType
  <2> HIDE DEF A, B
  <2> QED BY <1>1, <1>3, <1>4, <1>5, <2>1, <2>2, <2>3 DEF AtMost, Measured, Points
<1> HIDE DEF A, B
<1>7. /\ Key(A)[1] = A.score /\ Key(B)[1] = B.score
      /\ Key(A)[2] = Key(B)[2] /\ Key(A)[3] = A.route /\ Key(B)[3] = B.route
  BY <1>1 DEF Key
<1>8. ASSUME NEW i \in 1..6, Key(A)[i] > Key(B)[i],
             \A j \in 1..(i - 1) : Key(A)[j] = Key(B)[j]
      PROVE  Ahead(A, B)
  BY <1>8, Zenon DEF Ahead
<1>9. ASSUME A.score > B.score PROVE Ahead(A, B)
  <2>1. Key(A)[1] > Key(B)[1]
    BY <1>7, <1>9
  <2>2. \A j \in 1..(1 - 1) : Key(A)[j] = Key(B)[j]
    OBVIOUS
  <2>3. 1 \in 1..6
    OBVIOUS
  <2> QED BY <1>8, <2>1, <2>2, <2>3, Zenon
<1>10. ASSUME A.score = B.score PROVE Ahead(A, B)
  <2>1. Key(A)[3] > Key(B)[3]
    BY <1>5, <1>7
  <2>2. \A j \in 1..(3 - 1) : Key(A)[j] = Key(B)[j]
    <3>1. \A j \in 1..(3 - 1) : j = 1 \/ j = 2
      OBVIOUS
    <3> QED BY <1>7, <1>10, <3>1, Zenon
  <2>3. 3 \in 1..6
    OBVIOUS
  <2> QED BY <1>8, <2>1, <2>2, <2>3, Zenon
<1>11. A.score > B.score \/ A.score = B.score
  BY <1>6
<1> QED BY <1>9, <1>10, <1>11, Zenon DEF A, B

-----------------------------------------------------------------------------
(* The invariant.  Tables and transactions are parameters of its parts: L    *)
(* loads, T listings, K trucks, X matches, R ratings and F what has been     *)
(* found are committed; t and u are the transactions of requests in phases   *)
(* p and q, and what they are to write is pending.                           *)

Unique(rows) == \A a, b \in rows : a.id = b.id => a = b
AtMostOne(rows) == \A a, b \in rows : a = b

Twins(a, b) ==
    /\ a.owner = b.owner /\ a.lane = b.lane /\ a.type = b.type
    /\ Distance(a.created, b.created) <= DuplicateWindow
SameTrip(a, b) == a.load = b.load /\ a.listing = b.listing /\ a.rater = b.rater

\* a and b are versions of one load, of which a is the later
Version(a, b) ==
    /\ a.id = b.id /\ a.owner = b.owner /\ a.from = b.from /\ a.to = b.to
    /\ a.lane = b.lane /\ a.type = b.type /\ a.date = b.date
    /\ a.quantity = b.quantity /\ a.created = b.created
    /\ b.status = "matched" => a.status = "matched"

Meets(l, t) ==
    /\ Along(l, t) /\ l.owner # t.owner
    /\ Distance(l.date, t.date) <= 2 /\ l.quantity <= t.quantity
    /\ l.created # t.created /\ Distance(l.created, t.created) <= Freshness
    /\ t.created > l.created => l.status = "open"

TripPost == [kind : {"rating"}, load : Nat, listing : Nat, stars : 1..5]
Tally == [loads : Nat, blockedLoads : Nat, listings : Nat, blockedListings : Nat]
Effects == [loads : SUBSET LoadRow, listings : SUBSET ListingRow,
            trucks : SUBSET TruckRow, matches : SUBSET MatchRow,
            ratings : SUBSET RatingRow, events : Tally, met : SUBSET (Nat \X Nat)]
Transaction == [user : User \cup {None}, post : Offers \cup TripPost \cup {None},
                created : Moment, rank : Moment, writes : Effects]

Rowless(t) ==
    /\ t.writes.loads = {} /\ t.writes.listings = {} /\ t.writes.trucks = {}
    /\ t.writes.matches = {} /\ t.writes.ratings = {}

\* Rows are written under the lock; a request lasts no step of the clock.
Phased(time, p, t) ==
    /\ p = "idle" => t = NoTx
    /\ p # "idle" => /\ t.user \in User /\ t.post \in Offers \cup TripPost
                     /\ t.created = time /\ t.rank <= time
    /\ p = "begun" => t.writes = NoWrites
    /\ p # "holding" => Rowless(t)

FiniteWrites(t) ==
    /\ IsFiniteSet(t.writes.loads) /\ IsFiniteSet(t.writes.listings)
    /\ IsFiniteSet(t.writes.trucks) /\ IsFiniteSet(t.writes.matches)
    /\ IsFiniteSet(t.writes.ratings)

\* A pending load is new or a version of a committed one, and has no twin.
OwnLoads(L, t) ==
    /\ AtMostOne(t.writes.loads)
    /\ \A a \in t.writes.loads :
         /\ a.owner = t.user
         /\ a.created = t.created \/ \E b \in L : b.id = a.id
         /\ \A b \in L : a.id = b.id => Version(a, b)
         /\ \A b \in L : Twins(a, b) => a.id = b.id

OwnListings(T, t) ==
    /\ AtMostOne(t.writes.listings)
    /\ \A a \in t.writes.listings :
         /\ a.owner = t.user /\ a.created = t.created
         /\ \A b \in T : a.id # b.id

OwnTrucks(K, t) ==
    /\ AtMostOne(t.writes.trucks)
    /\ \A a \in t.writes.trucks :
         /\ a.owner = t.user
         /\ \A b \in K : a.owner = b.owner => a.id = b.id

OwnRatings(R, t) ==
    /\ AtMostOne(t.writes.ratings)
    /\ \A a \in t.writes.ratings :
         /\ a.rater = t.user
         /\ \A b \in R : SameTrip(a, b) => a.id = b.id

\* Pending suggestions are for the pending load, which is matched by them or
\* was matched before.
OwnMatches(L, T, t) ==
    /\ Unique(t.writes.matches)
    /\ \A x \in t.writes.matches :
         /\ x.id = <<x.load, x.listing>>
         /\ \E a \in t.writes.loads : a.id = x.load /\ a.status = "matched"
         /\ \E b \in T : b.id = x.listing /\ b.owner # t.user
    /\ \A a \in t.writes.loads : a.status = "matched" =>
         t.writes.matches # {} \/ \E b \in L : b.id = a.id /\ b.status = "matched"

\* A pending post has found the committed posts that suit it.
OwnMet(L, T, F, t) ==
    /\ t.writes.loads = {} \/ t.writes.listings = {}
    /\ \A a \in t.writes.loads, b \in T : Meets(a, b) => <<a.id, b.id>> \in F \cup t.writes.met
    /\ \A a \in L, b \in t.writes.listings :
         Meets(a, b) => <<a.id, b.id>> \in F \cup t.writes.met

First(L, t) == \E a \in t.writes.loads : \A b \in L : a.id # b.id

\* An attempt is counted as blocked, or comes with a new row.
OwnEvents(L, t) ==
    /\ t.writes.events.loads = t.writes.events.blockedLoads + (IF First(L, t) THEN 1 ELSE 0)
    /\ t.writes.events.listings = t.writes.events.blockedListings
                                    + (IF t.writes.listings # {} THEN 1 ELSE 0)
    /\ \/ t.writes.events.loads = 0 /\ t.writes.events.listings = 0
       \/ /\ t.writes.events.loads + t.writes.events.listings = 1
          /\ t.post.kind # "rating"

\* Two requests: one sender does not hold the lock twice, and no row is
\* pending in both.
Apart(p, t, q, u) ==
    /\ p = "holding" /\ q = "holding" => t.user # u.user
    /\ \A a \in t.writes.loads, b \in u.writes.loads : a.id # b.id
    /\ \A a \in t.writes.listings, b \in u.writes.listings : a.id # b.id

Sound(time, L, T, K, R, F, p, t) ==
    /\ t \in Transaction /\ Phased(time, p, t) /\ FiniteWrites(t)
    /\ OwnLoads(L, t) /\ OwnListings(T, t) /\ OwnTrucks(K, t) /\ OwnRatings(R, t)
    /\ OwnMatches(L, T, t) /\ OwnMet(L, T, F, t) /\ OwnEvents(L, t)

NoTwins(L) == \A a, b \in L : Twins(a, b) => a = b
OneTruckEach(K) == \A a, b \in K : a.owner = b.owner => a = b
OneRatingEach(R) == \A a, b \in R : SameTrip(a, b) => a = b
Matched(L, T, X) ==
    /\ \A x \in X : x.id = <<x.load, x.listing>>
    /\ \A l \in L : (l.status = "matched") <=> \E x \in X : x.load = l.id
    /\ \A x \in X : \E l \in L, t \in T :
         l.id = x.load /\ t.id = x.listing /\ l.owner # t.owner
AllMet(L, T, F) == \A l \in L, t \in T : Meets(l, t) => <<l.id, t.id>> \in F

Phase == {"idle", "begun", "holding", "released"}
Posting == {h \in Request : pc[h] # "idle" /\ tx[h].post.kind # "rating"}

TypeInv ==
    /\ now \in Moment /\ begun \in 0..MaxPosts
    /\ loads \in SUBSET LoadRow /\ IsFiniteSet(loads) /\ Unique(loads)
    /\ listings \in SUBSET ListingRow /\ IsFiniteSet(listings) /\ Unique(listings)
    /\ trucks \in SUBSET TruckRow /\ IsFiniteSet(trucks) /\ Unique(trucks)
    /\ matches \in SUBSET MatchRow /\ IsFiniteSet(matches) /\ Unique(matches)
    /\ ratings \in SUBSET RatingRow /\ IsFiniteSet(ratings) /\ Unique(ratings)
    /\ \A r \in loads \cup listings : r.created <= now
    /\ met \in SUBSET (Nat \X Nat)
RowsInv ==
    /\ NoTwins(loads) /\ OneTruckEach(trucks) /\ OneRatingEach(ratings)
    /\ Matched(loads, listings, matches) /\ AllMet(loads, listings, met)
CountInv ==
    /\ events \in Tally
    /\ events.loads = events.blockedLoads + Cardinality(loads)
    /\ events.listings = events.blockedListings + Cardinality(listings)
    /\ events.loads + events.listings + Cardinality(Posting) <= begun
AskedInv ==
    /\ asked \in [User -> [post : Offers, at : Moment] \cup {None}]
    /\ \A u \in User : asked[u] # None => asked[u].at <= now
RequestInv ==
    /\ pc \in [Request -> Phase] /\ tx \in [Request -> Transaction]
    /\ \A h \in Request :
         Sound(now, loads, listings, trucks, ratings, met, pc[h], tx[h])
    /\ \A g, h \in Request : g # h => Apart(pc[g], tx[g], pc[h], tx[h])

MarketInv == TypeInv /\ RowsInv /\ CountInv /\ AskedInv /\ RequestInv

-----------------------------------------------------------------------------
(* Commits: what Upsert keeps.                                             *)

LEMMA UpsertSame == ASSUME NEW rows PROVE Upsert(rows, {}) = rows
  BY DEF Upsert

LEMMA UpsertTable ==
    ASSUME NEW Row, NEW rows \in SUBSET Row, NEW new \in SUBSET Row,
           IsFiniteSet(rows), IsFiniteSet(new), Unique(rows), Unique(new)
    PROVE  /\ Upsert(rows, new) \in SUBSET Row /\ IsFiniteSet(Upsert(rows, new))
           /\ Unique(Upsert(rows, new))
<1>1. IsFiniteSet({r \in rows : \A n \in new : n.id # r.id})
  BY FS_Subset
<1>2. IsFiniteSet(Upsert(rows, new))
  BY <1>1, FS_Union DEF Upsert
<1> QED BY <1>2 DEF Upsert, Unique

LEMMA UpsertCount ==
    ASSUME NEW rows, IsFiniteSet(rows), Unique(rows), NEW new, AtMostOne(new)
    PROVE  Cardinality(Upsert(rows, new)) =
             Cardinality(rows)
               + (IF \E a \in new : \A b \in rows : a.id # b.id THEN 1 ELSE 0)
<1>1. Cardinality(rows) \in Nat
  BY FS_CardinalityType
<1>2. CASE new = {}
  BY <1>1, <1>2, UpsertSame
<1>3. CASE new # {}
  <2>1. PICK a \in new : new = {a}
    BY <1>3 DEF AtMostOne
  <2>2. CASE \A b \in rows : a.id # b.id
    <3>1. Upsert(rows, new) = rows \cup {a} /\ a \notin rows
      BY <2>1, <2>2 DEF Upsert
    <3> QED BY <1>1, <2>1, <2>2, <3>1, FS_AddElement
  <2>3. CASE \E b \in rows : a.id = b.id
    <3>1. PICK b \in rows : a.id = b.id
      BY <2>3
    <3> DEFINE rest == rows \ {b}
    <3>2. IsFiniteSet(rest) /\ Cardinality(rest) = Cardinality(rows) - 1
      BY FS_RemoveElement
    <3>3. Upsert(rows, new) = rest \cup {a} /\ a \notin rest
      BY <2>1, <3>1 DEF Upsert, Unique
    <3>4. Cardinality(rest \cup {a}) = Cardinality(rest) + 1
      BY <3>2, <3>3, FS_AddElement
    <3>5. ~ \E c \in new : \A d \in rows : c.id # d.id
      BY <2>1, <2>3
    <3> HIDE DEF rest
    <3>6. Cardinality(Upsert(rows, new)) = Cardinality(rows)
      BY <1>1, <3>2, <3>3, <3>4
    <3> QED BY <1>1, <3>5, <3>6
  <2> QED BY <2>2, <2>3
<1> QED BY <1>2, <1>3

\* A transaction that has written nothing is sound.
LEMMA NoTxOwn ==
    ASSUME NEW t, t.writes = NoWrites,
           NEW L, NEW T, NEW K, NEW R, NEW F
    PROVE  /\ FiniteWrites(t) /\ OwnLoads(L, t) /\ OwnListings(T, t) /\ OwnTrucks(K, t)
           /\ OwnRatings(R, t) /\ OwnMatches(L, T, t) /\ OwnMet(L, T, F, t)
           /\ OwnEvents(L, t) /\ Rowless(t)
<1>1. Rowless(t)
  BY DEF NoWrites, Rowless
<1>2. OwnEvents(L, t)
  BY DEF NoWrites, NoEvents, OwnEvents, First
<1> QED BY <1>1, <1>2, FS_EmptySet
    DEF Rowless, FiniteWrites, OwnLoads, OwnListings, OwnTrucks, OwnRatings, OwnMatches,
        OwnMet, AtMostOne, Unique

LEMMA DistanceSame == \A a \in Nat : Distance(a, a) = 0
  BY DEF Distance
LEMMA DistanceSwap == \A a, b \in Nat : Distance(a, b) = Distance(b, a)
  BY DEF Distance

\* A later version meets nothing its earlier version does not meet.
LEMMA VersionMeets ==
    ASSUME NEW a \in LoadRow, NEW b \in LoadRow, Version(a, b), NEW t, Meets(a, t)
    PROVE  Meets(b, t)
<1>1. Along(b, t) <=> Along(a, t)
  BY AlongOrder DEF Version
<1>2. a.status = "open" => b.status = "open"
  BY DEF Version, LoadRow, Waiting
<1> QED BY <1>1, <1>2 DEF Meets, Version

-----------------------------------------------------------------------------
(* Commits: the tables.                                                    *)

LEMMA CommitTwins ==
    ASSUME NEW L \in SUBSET LoadRow, NEW t, t.writes.loads \in SUBSET LoadRow,
           NoTwins(L), OwnLoads(L, t)
    PROVE  NoTwins(Upsert(L, t.writes.loads))
<1> DEFINE N == t.writes.loads
<1> SUFFICES ASSUME NEW a \in Upsert(L, N), NEW b \in Upsert(L, N), Twins(a, b)
             PROVE  a = b
  BY DEF NoTwins
<1>1. a.created \in Nat /\ b.created \in Nat
  BY DEF Upsert, LoadRow, Moment
<1>2. Twins(b, a)
  BY <1>1, DistanceSwap DEF Twins
<1>3. CASE a \in N /\ b \in N
  BY <1>3 DEF OwnLoads, AtMostOne
<1>4. CASE a \in N /\ b \notin N
  BY <1>4 DEF OwnLoads, Upsert
<1>5. CASE a \notin N /\ b \in N
  BY <1>2, <1>5 DEF OwnLoads, Upsert
<1>6. CASE a \notin N /\ b \notin N
  BY <1>6 DEF NoTwins, Upsert
<1> QED BY <1>3, <1>4, <1>5, <1>6

LEMMA CommitTrucks ==
    ASSUME NEW K, NEW t, OneTruckEach(K), OwnTrucks(K, t)
    PROVE  OneTruckEach(Upsert(K, t.writes.trucks))
  BY DEF OneTruckEach, OwnTrucks, Upsert, AtMostOne

LEMMA CommitRatings ==
    ASSUME NEW R, NEW t, OneRatingEach(R), OwnRatings(R, t)
    PROVE  OneRatingEach(Upsert(R, t.writes.ratings))
<1> DEFINE N == t.writes.ratings
<1> SUFFICES ASSUME NEW a \in Upsert(R, N), NEW b \in Upsert(R, N), SameTrip(a, b)
             PROVE  a = b
  BY DEF OneRatingEach
<1>1. SameTrip(b, a)
  BY DEF SameTrip
<1>2. CASE a \in N /\ b \in N
  BY <1>2 DEF OwnRatings, AtMostOne
<1>3. CASE a \in N /\ b \notin N
  BY <1>3 DEF OwnRatings, Upsert
<1>4. CASE a \notin N /\ b \in N
  BY <1>1, <1>4 DEF OwnRatings, Upsert
<1>5. CASE a \notin N /\ b \notin N
  BY <1>5 DEF OneRatingEach, Upsert
<1> QED BY <1>2, <1>3, <1>4, <1>5

\* A row that was committed is there after the commit, perhaps in its new version.
LEMMA UpsertKeepsIds ==
    ASSUME NEW rows, NEW new, NEW b \in rows
    PROVE  \E a \in Upsert(rows, new) : a.id = b.id /\ (a = b \/ a \in new)
  BY DEF Upsert

LEMMA CommitMatches ==
    ASSUME NEW L \in SUBSET LoadRow, NEW T \in SUBSET ListingRow, NEW X \in SUBSET MatchRow,
           NEW t, t.writes.loads \in SUBSET LoadRow, t.writes.matches \in SUBSET MatchRow,
           Unique(L), Matched(L, T, X), OwnLoads(L, t), OwnListings(T, t),
           OwnMatches(L, T, t)
    PROVE  Matched(Upsert(L, t.writes.loads), Upsert(T, t.writes.listings),
                   Upsert(X, t.writes.matches))
<1> DEFINE N == t.writes.loads
           M == t.writes.matches
           L2 == Upsert(L, N)
           T2 == Upsert(T, t.writes.listings)
           X2 == Upsert(X, M)
<1>1. \A x \in X2 : x.id = <<x.load, x.listing>>
  BY DEF Upsert, Matched, OwnMatches
<1>2. \A b \in T : b \in T2
  BY DEF Upsert, OwnListings
<1>3. \A x \in X : \E y \in X2 : y.load = x.load
  <2> SUFFICES ASSUME NEW x \in X PROVE \E y \in X2 : y.load = x.load
    OBVIOUS
  <2>1. PICK y \in X2 : y.id = x.id
    BY UpsertKeepsIds
  <2>2. <<y.load, y.listing>> = <<x.load, x.listing>>
    BY <1>1, <2>1, Zenon DEF Matched
  <2> QED BY <2>1, <2>2
<1>4. \A x \in M : \E a \in N : a.id = x.load /\ a.status = "matched"
  BY DEF OwnMatches
<1>5. ASSUME NEW l \in L2, l.status = "matched" PROVE \E x \in X2 : x.load = l.id
  <2>1. CASE l \notin N
    BY <1>3, <1>5, <2>1 DEF Upsert, Matched
  <2>2. CASE l \in N /\ \E b \in L : b.id = l.id /\ b.status = "matched"
    BY <1>3, <2>2 DEF Matched
  <2>3. CASE l \in N /\ M # {}
    <3>1. PICK x \in M : TRUE
      BY <2>3
    <3>2. x.load = l.id
      BY <1>4, <2>3 DEF OwnLoads, AtMostOne
    <3> QED BY <3>1, <3>2 DEF Upsert
  <2> QED BY <1>5, <2>1, <2>2, <2>3 DEF OwnMatches
<1>6. ASSUME NEW l \in L2, NEW x \in X2, x.load = l.id PROVE l.status = "matched"
  <2>1. CASE x \in M
    <3>1. PICK a \in N : a.id = x.load /\ a.status = "matched"
      BY <1>4, <2>1
    <3>2. l = a
      BY <1>6, <3>1 DEF Upsert, OwnLoads, AtMostOne
    <3> QED BY <3>1, <3>2
  <2>2. CASE x \in X
    <3>1. PICK b \in L : b.id = x.load
      BY <2>2 DEF Matched
    <3>2. b.status = "matched"
      BY <2>2, <3>1 DEF Matched
    <3>3. CASE l \in N
      BY <1>6, <3>1, <3>2, <3>3 DEF OwnLoads, Version
    <3>4. CASE l \in L
      BY <1>6, <3>1, <3>2, <3>4 DEF Unique
    <3> QED BY <3>3, <3>4 DEF Upsert
  <2> QED BY <2>1, <2>2 DEF Upsert
<1>7. ASSUME NEW x \in X2
      PROVE  \E l \in L2, b \in T2 : l.id = x.load /\ b.id = x.listing /\ l.owner # b.owner
  <2>1. CASE x \in M
    <3>1. PICK a \in N : a.id = x.load
      BY <1>4, <2>1
    <3>2. PICK b \in T : b.id = x.listing /\ b.owner # t.user
      BY <2>1 DEF OwnMatches
    <3>3. a \in L2 /\ a.owner = t.user
      BY <3>1 DEF Upsert, OwnLoads
    <3> QED BY <1>2, <3>1, <3>2, <3>3
  <2>2. CASE x \in X
    <3>1. PICK l \in L, b \in T : l.id = x.load /\ b.id = x.listing /\ l.owner # b.owner
      BY <2>2 DEF Matched
    <3>2. PICK a \in L2 : a.id = l.id /\ (a = l \/ a \in N)
      BY UpsertKeepsIds
    <3>3. a.owner = l.owner
      BY <3>2 DEF OwnLoads, Version
    <3> QED BY <1>2, <3>1, <3>2, <3>3
  <2> QED BY <2>1, <2>2 DEF Upsert
<1> HIDE DEF L2, T2, X2
<1>8. Matched(L2, T2, X2)
  BY <1>1, <1>5, <1>6, <1>7 DEF Matched
<1> QED BY <1>8 DEF L2, T2, X2

LEMMA CommitMet ==
    ASSUME NEW L, NEW T, NEW F, NEW t, AllMet(L, T, F), OwnMet(L, T, F, t)
    PROVE  AllMet(Upsert(L, t.writes.loads), Upsert(T, t.writes.listings),
                  F \cup t.writes.met)
  BY DEF AllMet, OwnMet, Upsert

-----------------------------------------------------------------------------
(* Commits: the other requests.                                            *)

LEMMA CommitOwnLoads ==
    ASSUME NEW L, NEW t, NEW u, OwnLoads(L, t), OwnLoads(L, u), t.user # u.user,
           \A a \in t.writes.loads, b \in u.writes.loads : a.id # b.id
    PROVE  OwnLoads(Upsert(L, t.writes.loads), u)
<1> DEFINE L2 == Upsert(L, t.writes.loads)
<1> SUFFICES ASSUME NEW a \in u.writes.loads
             PROVE  /\ a.owner = u.user
                    /\ a.created = u.created \/ \E b \in L2 : b.id = a.id
                    /\ \A b \in L2 : a.id = b.id => Version(a, b)
                    /\ \A b \in L2 : Twins(a, b) => a.id = b.id
  BY DEF OwnLoads
<1>1. a.owner = u.user
  BY DEF OwnLoads
<1>2. a.created = u.created \/ \E b \in L2 : b.id = a.id
  BY DEF OwnLoads, Upsert
<1>3. ASSUME NEW b \in L2, a.id = b.id PROVE Version(a, b)
  BY <1>3 DEF OwnLoads, Upsert
<1>4. ASSUME NEW b \in L2, Twins(a, b) PROVE a.id = b.id
  <2>1. b.owner # t.user
    BY <1>1, <1>4 DEF Twins
  <2>2. b \in L
    BY <2>1 DEF OwnLoads, Upsert
  <2> QED BY <1>4, <2>2 DEF OwnLoads
<1> QED BY <1>1, <1>2, <1>3, <1>4

LEMMA CommitOwnListings ==
    ASSUME NEW T, NEW t, NEW u, OwnListings(T, u),
           \A a \in t.writes.listings, b \in u.writes.listings : a.id # b.id
    PROVE  OwnListings(Upsert(T, t.writes.listings), u)
  BY DEF OwnListings, Upsert

LEMMA CommitOwnTrucks ==
    ASSUME NEW K, NEW t, NEW u, OwnTrucks(K, t), OwnTrucks(K, u), t.user # u.user
    PROVE  OwnTrucks(Upsert(K, t.writes.trucks), u)
  BY DEF OwnTrucks, Upsert

LEMMA CommitOwnRatings ==
    ASSUME NEW R, NEW t, NEW u, OwnRatings(R, t), OwnRatings(R, u), t.user # u.user
    PROVE  OwnRatings(Upsert(R, t.writes.ratings), u)
  BY DEF OwnRatings, Upsert, SameTrip

LEMMA CommitOwnMatches ==
    ASSUME NEW L, NEW T, NEW t, NEW u, OwnMatches(L, T, u), OwnListings(T, t),
           \A a \in t.writes.loads, b \in u.writes.loads : a.id # b.id
    PROVE  OwnMatches(Upsert(L, t.writes.loads), Upsert(T, t.writes.listings), u)
<1> DEFINE L2 == Upsert(L, t.writes.loads)
           T2 == Upsert(T, t.writes.listings)
<1>1. \A b \in T : b \in T2
  BY DEF OwnListings, Upsert
<1>2. \A a \in u.writes.loads, b \in L : b.id = a.id => b \in L2
  BY DEF Upsert
<1> HIDE DEF L2, T2
<1>3. OwnMatches(L2, T2, u)
  BY <1>1, <1>2 DEF OwnMatches
<1> QED BY <1>3 DEF L2, T2

LEMMA CommitOwnMet ==
    ASSUME NEW L \in SUBSET LoadRow, NEW T, NEW F, NEW t, NEW u,
           t.writes.loads \in SUBSET LoadRow, u.writes.loads \in SUBSET LoadRow,
           OwnMet(L, T, F, t), OwnMet(L, T, F, u), OwnLoads(L, t), OwnLoads(L, u),
           OwnListings(T, t), OwnListings(T, u), t.created = u.created
    PROVE  OwnMet(Upsert(L, t.writes.loads), Upsert(T, t.writes.listings),
                  F \cup t.writes.met, u)
<1> DEFINE L2 == Upsert(L, t.writes.loads)
           T2 == Upsert(T, t.writes.listings)
           F2 == F \cup t.writes.met
<1>1. ASSUME NEW a \in u.writes.loads, NEW b \in T2, Meets(a, b)
      PROVE  <<a.id, b.id>> \in F2 \cup u.writes.met
  <2>1. CASE b \in T
    BY <1>1, <2>1 DEF OwnMet
  <2>2. CASE b \in t.writes.listings
    <3>1. a.created # u.created
      BY <1>1, <2>2 DEF OwnListings, Meets
    <3>2. PICK c \in L : c.id = a.id
      BY <3>1 DEF OwnLoads
    <3>3. Version(a, c)
      BY <3>2 DEF OwnLoads
    <3>4. Meets(c, b)
      BY <1>1, <3>3, VersionMeets
    <3> QED BY <2>2, <3>2, <3>4 DEF OwnMet
  <2> QED BY <2>1, <2>2 DEF Upsert
<1>2. ASSUME NEW a \in L2, NEW b \in u.writes.listings, Meets(a, b)
      PROVE  <<a.id, b.id>> \in F2 \cup u.writes.met
  <2>1. CASE a \in L
    BY <1>2, <2>1 DEF OwnMet
  <2>2. CASE a \in t.writes.loads
    <3>1. a.created # t.created
      BY <1>2, <2>2 DEF OwnListings, Meets
    <3>2. PICK c \in L : c.id = a.id
      BY <2>2, <3>1 DEF OwnLoads
    <3>3. Version(a, c)
      BY <2>2, <3>2 DEF OwnLoads
    <3>4. Meets(c, b)
      BY <1>2, <2>2, <3>3, VersionMeets
    <3> QED BY <3>2, <3>4 DEF OwnMet
  <2> QED BY <2>1, <2>2 DEF Upsert
<1> HIDE DEF L2, T2, F2
<1>3. OwnMet(L2, T2, F2, u)
  BY <1>1, <1>2 DEF OwnMet
<1> QED BY <1>3 DEF L2, T2, F2

LEMMA CommitOwnEvents ==
    ASSUME NEW L, NEW t, NEW u, OwnEvents(L, u),
           \A a \in t.writes.loads, b \in u.writes.loads : a.id # b.id
    PROVE  OwnEvents(Upsert(L, t.writes.loads), u)
<1>1. First(Upsert(L, t.writes.loads), u) <=> First(L, u)
  BY DEF First, Upsert
<1> QED BY <1>1 DEF OwnEvents

LEMMA RowlessOwn ==
    ASSUME NEW u, Rowless(u), NEW L, NEW T, NEW K, NEW R, NEW F
    PROVE  /\ OwnLoads(L, u) /\ OwnListings(T, u) /\ OwnTrucks(K, u)
           /\ OwnRatings(R, u) /\ OwnMatches(L, T, u) /\ OwnMet(L, T, F, u)
           /\ ~ First(L, u)
  BY DEF Rowless, OwnLoads, OwnListings, OwnTrucks, OwnRatings, OwnMatches, OwnMet,
         AtMostOne, Unique, First

\* What one request commits leaves what another has pending sound.
LEMMA CommitOthers ==
    ASSUME NEW time, NEW L \in SUBSET LoadRow, NEW T, NEW K, NEW R, NEW F,
           NEW p, NEW t, NEW q, NEW u,
           Sound(time, L, T, K, R, F, p, t), Sound(time, L, T, K, R, F, q, u),
           Apart(p, t, q, u)
    PROVE  Sound(time, Upsert(L, t.writes.loads), Upsert(T, t.writes.listings),
                 Upsert(K, t.writes.trucks), Upsert(R, t.writes.ratings),
                 F \cup t.writes.met, q, u)
<1>0. /\ t.writes.loads \in SUBSET LoadRow /\ u.writes.loads \in SUBSET LoadRow
      /\ u \in Transaction /\ Phased(time, q, u) /\ FiniteWrites(u)
  BY DEF Sound, Transaction, Effects
<1>1. /\ OwnLoads(L, t) /\ OwnListings(T, t) /\ OwnTrucks(K, t) /\ OwnRatings(R, t)
      /\ OwnMatches(L, T, t) /\ OwnMet(L, T, F, t)
  BY DEF Sound
<1>2. /\ OwnLoads(L, u) /\ OwnListings(T, u) /\ OwnTrucks(K, u) /\ OwnRatings(R, u)
      /\ OwnMatches(L, T, u) /\ OwnMet(L, T, F, u) /\ OwnEvents(L, u)
  BY DEF Sound
<1>3. ASSUME q # "holding"
      PROVE  Sound(time, Upsert(L, t.writes.loads), Upsert(T, t.writes.listings),
                   Upsert(K, t.writes.trucks), Upsert(R, t.writes.ratings),
                   F \cup t.writes.met, q, u)
  <2>1. Rowless(u)
    BY <1>0, <1>3 DEF Phased
  <2>2. OwnEvents(Upsert(L, t.writes.loads), u)
    BY <1>2, <2>1, RowlessOwn DEF OwnEvents
  <2> QED BY <1>0, <2>1, <2>2, RowlessOwn DEF Sound
<1>4. ASSUME q = "holding", p # "holding"
      PROVE  Sound(time, Upsert(L, t.writes.loads), Upsert(T, t.writes.listings),
                   Upsert(K, t.writes.trucks), Upsert(R, t.writes.ratings),
                   F \cup t.writes.met, q, u)
  <2>1. Rowless(t)
    BY <1>4 DEF Sound, Phased
  <2>2. /\ Upsert(L, t.writes.loads) = L /\ Upsert(T, t.writes.listings) = T
        /\ Upsert(K, t.writes.trucks) = K /\ Upsert(R, t.writes.ratings) = R
    BY <2>1, UpsertSame DEF Rowless
  <2>3. OwnMet(L, T, F \cup t.writes.met, u)
    BY <1>2 DEF OwnMet
  <2> QED BY <1>0, <1>2, <2>2, <2>3 DEF Sound
<1>5. ASSUME q = "holding", p = "holding"
      PROVE  Sound(time, Upsert(L, t.writes.loads), Upsert(T, t.writes.listings),
                   Upsert(K, t.writes.trucks), Upsert(R, t.writes.ratings),
                   F \cup t.writes.met, q, u)
  <2>1. /\ t.user # u.user /\ t.created = u.created
        /\ \A a \in t.writes.loads, b \in u.writes.loads : a.id # b.id
        /\ \A a \in t.writes.listings, b \in u.writes.listings : a.id # b.id
    BY <1>5 DEF Apart, Sound, Phased
  <2>2. OwnLoads(Upsert(L, t.writes.loads), u)
    BY <1>1, <1>2, <2>1, CommitOwnLoads
  <2>3. OwnListings(Upsert(T, t.writes.listings), u)
    BY <1>2, <2>1, CommitOwnListings
  <2>4. OwnTrucks(Upsert(K, t.writes.trucks), u)
    BY <1>1, <1>2, <2>1, CommitOwnTrucks
  <2>5. OwnRatings(Upsert(R, t.writes.ratings), u)
    BY <1>1, <1>2, <2>1, CommitOwnRatings
  <2>6. OwnMatches(Upsert(L, t.writes.loads), Upsert(T, t.writes.listings), u)
    BY <1>1, <1>2, <2>1, CommitOwnMatches
  <2>7. OwnMet(Upsert(L, t.writes.loads), Upsert(T, t.writes.listings),
               F \cup t.writes.met, u)
    BY <1>0, <1>1, <1>2, <2>1, CommitOwnMet
  <2>8. OwnEvents(Upsert(L, t.writes.loads), u)
    BY <1>2, <2>1, CommitOwnEvents
  <2> QED BY <1>0, <2>2, <2>3, <2>4, <2>5, <2>6, <2>7, <2>8 DEF Sound
<1> QED BY <1>3, <1>4, <1>5, Zenon

-----------------------------------------------------------------------------
(* What a request writes.                                                  *)

LEMMA LabelType == \A n \in Recognised : CityLabel(n) \in Label
  BY NormalizeType, AliasAssumption DEF Recognised, CityLabel, Label, Place

LEMMA PostRowType ==
    ASSUME NEW h, tx[h].user \in User, tx[h].post \in Offers, tx[h].created \in Moment,
           NEW id \in Nat
    PROVE  /\ PostRow(h, id) \in LoadRow /\ PostRow(h, id) \in ListingRow
           /\ PostRow(h, id).id = id /\ PostRow(h, id).owner = tx[h].user
           /\ PostRow(h, id).created = tx[h].created /\ PostRow(h, id).status = "open"
<1> DEFINE post == tx[h].post
           from == CityLabel(post.from)
           to == CityLabel(post.to)
           row == PostRow(h, id)
<1>1. /\ post.from \in Recognised /\ post.to \in Recognised
      /\ post.date \in Nat /\ post.quantity \in Nat
  BY MarketplaceAssumption
<1>2. from \in Label /\ to \in Label
  BY <1>1, LabelType
<1>3. LaneKey(from, to) \in SUBSET Name
  BY <1>2, LaneType DEF Label, Place
<1>4. post.type \in {o.type : o \in Offers}
  OBVIOUS
<1>5. row = [id |-> id, owner |-> tx[h].user, from |-> from, to |-> to,
             lane |-> LaneKey(from, to), type |-> post.type, date |-> post.date,
             quantity |-> post.quantity, created |-> tx[h].created, status |-> "open"]
  BY DEF PostRow
<1> HIDE DEF row, from, to, post
<1> USE DEF post
<1>6. row \in LoadRow /\ row \in ListingRow
  BY <1>1, <1>2, <1>3, <1>4, <1>5 DEF LoadRow, ListingRow, Waiting, Open
<1> QED BY <1>5, <1>6 DEF row

LEMMA WriteFacts ==
    ASSUME tx \in [Request -> Transaction], NEW h \in Request, NEW w \in Effects,
           Writes(h, w)
    PROVE  /\ tx' \in [Request -> Transaction]
           /\ tx'[h].writes = w /\ tx'[h].user = tx[h].user /\ tx'[h].post = tx[h].post
           /\ tx'[h].created = tx[h].created /\ tx'[h].rank = tx[h].rank
           /\ \A g \in Request : g # h => tx'[g] = tx[g]
<1>1. tx' = [tx EXCEPT ![h].writes = w]
  BY DEF Writes
<1>2. tx[h] \in Transaction
  OBVIOUS
<1>3. [tx[h] EXCEPT !.writes = w] \in Transaction
  BY <1>2 DEF Transaction
<1> QED BY <1>1, <1>2, <1>3 DEF Transaction

\* A request that has begun, and what its transaction is then.
LEMMA Beginning ==
    ASSUME MarketInv, NEW h \in Request, pc[h] = "begun"
    PROVE  /\ tx[h] \in Transaction /\ tx[h].user \in User
           /\ tx[h].post \in Offers \cup TripPost
           /\ tx[h].created = now /\ tx[h].created \in Moment /\ now \in Nat
           /\ tx[h].rank <= now /\ tx[h].rank \in Nat /\ tx[h].writes = NoWrites
<1>1. tx[h] \in Transaction /\ Phased(now, "begun", tx[h])
  BY DEF MarketInv, RequestInv, Sound
<1>2. tx[h].created \in Moment /\ tx[h].rank \in Nat
  BY <1>1 DEF Transaction, Moment
<1> QED BY <1>1, <1>2 DEF Phased, MarketInv, TypeInv, Moment

LEMMA TableIdsFinite ==
    ASSUME MarketInv
    PROVE  /\ IsFiniteSet(Ids(loads, "loads")) /\ IsFiniteSet(Ids(listings, "listings"))
           /\ IsFiniteSet(Ids(trucks, "trucks")) /\ IsFiniteSet(Ids(ratings, "ratings"))
<1>1. \A g \in Request : FiniteWrites(tx[g])
  BY DEF MarketInv, RequestInv, Sound
<1>2. /\ IsFiniteSet(loads) /\ IsFiniteSet(listings) /\ IsFiniteSet(trucks)
      /\ IsFiniteSet(ratings) /\ IsFiniteSet(Request)
  BY MarketplaceAssumption DEF MarketInv, TypeInv
<1>3. IsFiniteSet(Ids(loads, "loads"))
  BY <1>1, <1>2, IdsFinite DEF FiniteWrites
<1>4. IsFiniteSet(Ids(listings, "listings"))
  BY <1>1, <1>2, IdsFinite DEF FiniteWrites
<1>5. IsFiniteSet(Ids(trucks, "trucks"))
  BY <1>1, <1>2, IdsFinite DEF FiniteWrites
<1>6. IsFiniteSet(Ids(ratings, "ratings"))
  BY <1>1, <1>2, IdsFinite DEF FiniteWrites
<1> QED BY <1>3, <1>4, <1>5, <1>6

LEMMA MatchCounted ==
    ASSUME NEW load, NEW found, IsFiniteSet(found)
    PROVE  MatchCount(load, found) > 0 <=> found # {}
<1>1. Cardinality(found) \in Nat /\ (Cardinality(found) = 0 <=> found = {})
  BY FS_CardinalityType, FS_EmptySet
<1> QED BY <1>1 DEF MatchCount, AtMost

LEMMA SuggestionType ==
    ASSUME MarketInv, NEW h, tx[h].created \in Moment, NEW load \in LoadRow,
           NEW listing \in ListingRow, NEW seen, IsFiniteSet(seen.loads),
           IsFiniteSet(seen.listings), IsFiniteSet(seen.matches)
    PROVE  /\ Suggestion(h, load, listing, seen) \in MatchRow
           /\ Suggestion(h, load, listing, seen).id = <<load.id, listing.id>>
           /\ Suggestion(h, load, listing, seen).load = load.id
           /\ Suggestion(h, load, listing, seen).listing = listing.id
<1> DEFINE score == Score(seen, load, listing, Rating[listing.owner], tx[h].rank, TRUE).score
           old == {x \in matches : x.load = load.id /\ x.listing = listing.id}
           s == Suggestion(h, load, listing, seen)
<1>1. score \in 0..100
  BY ScoreRange
<1>2. load.id \in Nat /\ listing.id \in Nat
  BY DEF LoadRow, ListingRow
<1>3. s = IF old # {} THEN [(CHOOSE x \in old : TRUE) EXCEPT !.score = score]
          ELSE [id |-> <<load.id, listing.id>>, load |-> load.id, listing |-> listing.id,
                score |-> score, status |-> "suggested", at |-> tx[h].created]
  BY DEF Suggestion
<1> HIDE DEF s, score
<1>4. CASE old # {}
  <2>1. PICK x \in old : s = [x EXCEPT !.score = score]
    BY <1>3, <1>4
  <2>2. /\ x \in MatchRow /\ x.id = <<x.load, x.listing>>
        /\ x.load = load.id /\ x.listing = listing.id
    BY <2>1 DEF MarketInv, TypeInv, RowsInv, Matched
  <2>3. s \in MatchRow /\ s.id = x.id /\ s.load = x.load /\ s.listing = x.listing
    BY <1>1, <2>1, <2>2 DEF MatchRow
  <2> QED BY <2>2, <2>3 DEF s
<1>5. CASE old = {}
  <2>1. s = [id |-> <<load.id, listing.id>>, load |-> load.id, listing |-> listing.id,
             score |-> score, status |-> "suggested", at |-> tx[h].created]
    BY <1>3, <1>5
  <2>2. s \in MatchRow
    BY <1>1, <1>2, <2>1 DEF MatchRow
  <2> QED BY <2>1, <2>2 DEF s
<1> QED BY <1>4, <1>5

-----------------------------------------------------------------------------
(* _handle_confirm_load                                                    *)

LEMMA PostLoadFinds ==
    ASSUME NEW load, NEW rank \in Int, NEW T, TrucksFor(load, rank) = T,
           NEW t \in listings, t \in ListingRow, Meets(load, t),
           load.created \in Nat, rank <= load.created, t.created <= load.created
    PROVE  t \in T
<1>1. t.created \in Nat /\ t.status \in Open
  BY DEF ListingRow, Moment
<1>2. t.created >= rank - Freshness
  BY <1>1 DEF Meets, Distance, Freshness
<1> QED BY <1>1, <1>2 DEF TrucksFor, Fits, Meets

LEMMA PostLoadSound ==
    ASSUME MarketInv, NEW h \in Request, PostLoad(h)
    PROVE  /\ tx' \in [Request -> Transaction] /\ \A g \in Request : g # h => tx'[g] = tx[g]
           /\ tx'[h].post = tx[h].post /\ tx'[h].user = tx[h].user
           /\ Sound(now, loads, listings, trucks, ratings, met, "holding", tx'[h])
           /\ tx'[h].writes.listings = {}
           /\ \A g \in Request : g # h =>
                \A a \in tx'[h].writes.loads, b \in tx[g].writes.loads : a.id # b.id
<1> DEFINE t == tx[h]
           row == PostRow(h, Unused(Ids(loads, "loads")))
           again == RecentLoads(row)
<1>1. PICK load \in IF again # {} THEN again ELSE {row} :
        LET seen == [loads |-> loads \cup {load}, listings |-> listings,
                     matches |-> matches]
            found == TrucksFor(load, tx[h].rank)
        IN  Writes(h, [NoWrites EXCEPT
              !.loads = {IF MatchCount(load, found) > 0
                         THEN [load EXCEPT !.status = "matched"] ELSE load},
              !.matches = {Suggestion(h, load, x, seen) : x \in found},
              !.events = [NoEvents EXCEPT !.loads = 1,
                            !.blockedLoads = IF again # {} THEN 1 ELSE 0],
              !.met = {<<load.id, x.id>> : x \in found}])
  BY DEF PostLoad
<1> DEFINE seen == [loads |-> loads \cup {load}, listings |-> listings, matches |-> matches]
           found == TrucksFor(load, t.rank)
           kept == IF MatchCount(load, found) > 0
                   THEN [load EXCEPT !.status = "matched"] ELSE load
           M == {Suggestion(h, load, x, seen) : x \in found}
           E == [NoEvents EXCEPT !.loads = 1, !.blockedLoads = IF again # {} THEN 1 ELSE 0]
           F == {<<load.id, x.id>> : x \in found}
           w == [NoWrites EXCEPT !.loads = {kept}, !.matches = M, !.events = E, !.met = F]
<1>2. Writes(h, w)
  BY <1>1
<1>3. pc[h] = "begun" /\ LockFree(h) /\ t.post.kind = "load"
  BY DEF PostLoad, Holds
<1>4. /\ t \in Transaction /\ t.user \in User /\ t.post \in Offers
      /\ t.created = now /\ t.created \in Moment /\ now \in Nat
      /\ t.rank <= now /\ t.rank \in Nat
  BY <1>3, Beginning DEF TripPost
<1>5. /\ row \in LoadRow /\ row.owner = t.user /\ row.created = now /\ row.status = "open"
      /\ row.id \in Nat /\ row.id \notin Ids(loads, "loads")
  BY <1>4, TableIdsFinite, FreshId, PostRowType
<1>6. \A b \in loads : row.id # b.id
  BY <1>5 DEF Ids
<1>7. \A g \in Request : \A b \in tx[g].writes.loads : row.id # b.id
  BY <1>5 DEF Ids
<1> HIDE DEF row, again, t, found, kept, M, E, F, w
<1>8. /\ loads \in SUBSET LoadRow /\ listings \in SUBSET ListingRow
      /\ IsFiniteSet(loads) /\ IsFiniteSet(listings) /\ IsFiniteSet(matches)
      /\ Unique(loads) /\ Unique(listings) /\ NoTwins(loads)
      /\ \A r \in loads \cup listings : r.created <= now
      /\ Matched(loads, listings, matches)
  BY DEF MarketInv, TypeInv, RowsInv
<1>9. again \subseteq loads /\ \A l \in again : l.owner = row.owner
  BY DEF RecentLoads, again
<1>10. IF again # {} THEN load \in loads ELSE load = row
  BY <1>1, <1>9
<1>11. /\ load \in LoadRow /\ load.owner = t.user
       /\ load.created \in Nat /\ load.created <= now
  BY <1>1, <1>4, <1>5, <1>8, <1>9, <1>10 DEF LoadRow, Moment
<1>12. found \subseteq listings /\ IsFiniteSet(found)
  BY <1>8, FS_Subset DEF found, TrucksFor
<1>13. MatchCount(load, found) > 0 <=> found # {}
  BY <1>12, MatchCounted
<1>14. kept \in LoadRow /\ Version(kept, load)
       /\ (kept.status = "matched" <=> found # {} \/ load.status = "matched")
  BY <1>11, <1>13 DEF kept, LoadRow, Waiting, Version
<1>15. IsFiniteSet(seen.loads) /\ IsFiniteSet(seen.listings) /\ IsFiniteSet(seen.matches)
  BY <1>8, FS_AddElement
<1>16. \A x \in found : /\ Suggestion(h, load, x, seen) \in MatchRow
                       /\ Suggestion(h, load, x, seen).id = <<load.id, x.id>>
                       /\ Suggestion(h, load, x, seen).load = load.id
                       /\ Suggestion(h, load, x, seen).listing = x.id
  <2> HIDE DEF seen
  <2> QED BY <1>4, <1>8, <1>11, <1>12, <1>15, SuggestionType DEF t
<1>17. M \in SUBSET MatchRow
  BY <1>16 DEF M
<1>18. IsFiniteSet(M)
  <2> DEFINE f == [x \in found |-> Suggestion(h, load, x, seen)]
  <2>1. M = {f[x] : x \in found}
    BY DEF M
  <2>2. found \subseteq DOMAIN f
    OBVIOUS
  <2> HIDE DEF f
  <2> QED BY <1>12, <2>1, <2>2, ImageFinite
<1>19. F \in SUBSET (Nat \X Nat)
  BY <1>8, <1>11, <1>12 DEF F, LoadRow, ListingRow
<1>20. /\ E \in Tally /\ E.loads = 1 /\ E.listings = 0 /\ E.blockedListings = 0
       /\ E.blockedLoads = IF again # {} THEN 1 ELSE 0
  BY DEF E, NoEvents, Tally
<1>21. /\ w.loads = {kept} /\ w.listings = {} /\ w.trucks = {} /\ w.matches = M
       /\ w.ratings = {} /\ w.events = E /\ w.met = F
  BY DEF w, NoWrites
<1>22. w \in Effects
  BY <1>14, <1>17, <1>19, <1>20 DEF w, NoWrites, Effects
<1> DEFINE u == tx'[h]
<1>23. /\ tx' \in [Request -> Transaction]
       /\ u.writes = w /\ u.user = t.user /\ u.post = t.post
       /\ u.created = t.created /\ u.rank = t.rank
       /\ \A g \in Request : g # h => tx'[g] = tx[g]
  BY <1>2, <1>22, WriteFacts DEF t, MarketInv, RequestInv
<1>24. u \in Transaction
  BY <1>23
<1> HIDE DEF u
<1>25. \A b \in loads : kept.id = b.id => Version(kept, b)
  BY <1>6, <1>8, <1>10, <1>14 DEF Unique, Version
<1>26. \A b \in loads : Twins(kept, b) => kept.id = b.id
  <2> SUFFICES ASSUME NEW b \in loads, Twins(kept, b) PROVE kept.id = b.id
    OBVIOUS
  <2>1. Twins(load, b)
    BY <1>14 DEF Twins, Version
  <2>2. CASE again # {}
    BY <1>8, <1>10, <1>14, <2>1, <2>2 DEF NoTwins, Version
  <2>3. CASE again = {}
    <3>1. load = row /\ b \notin RecentLoads(row)
      BY <1>10, <2>3 DEF again
    <3>2. b.created \in Nat /\ b.created <= now /\ b.status \in Waiting
      BY <1>8 DEF LoadRow, Moment
    <3>3. b.created >= now - DuplicateWindow
      BY <1>4, <1>5, <2>1, <3>1, <3>2 DEF Twins, Distance, DuplicateWindow
    <3>4. b \in RecentLoads(row)
      BY <2>1, <3>1, <3>2, <3>3 DEF RecentLoads, Twins
    <3> QED BY <3>1, <3>4
  <2> QED BY <2>2, <2>3
<1>27. OwnLoads(loads, u)
  <2>1. kept.owner = u.user
    BY <1>11, <1>14, <1>23 DEF Version
  <2>2. kept.created = u.created \/ \E b \in loads : b.id = kept.id
    BY <1>4, <1>5, <1>10, <1>14, <1>23 DEF Version
  <2> QED BY <1>21, <1>23, <1>25, <1>26, <2>1, <2>2 DEF OwnLoads, AtMostOne
<1>28. OwnListings(listings, u) /\ OwnTrucks(trucks, u) /\ OwnRatings(ratings, u)
  BY <1>21, <1>23 DEF OwnListings, OwnTrucks, OwnRatings, AtMostOne
<1>29. OwnMatches(loads, listings, u)
  <2>1. Unique(M)
    <3> SUFFICES ASSUME NEW x \in found, NEW y \in found, <<load.id, x.id>> = <<load.id, y.id>>
                 PROVE  Suggestion(h, load, x, seen) = Suggestion(h, load, y, seen)
      BY <1>16 DEF M, Unique
    <3>1. x.id = y.id
      OBVIOUS
    <3>2. x = y
      BY <1>8, <1>12, <3>1 DEF Unique
    <3> QED BY <3>2
  <2>2. ASSUME NEW x \in M
        PROVE  /\ x.id = <<x.load, x.listing>>
               /\ kept.id = x.load /\ kept.status = "matched"
               /\ \E b \in listings : b.id = x.listing /\ b.owner # u.user
    <3>1. PICK y \in found : x = Suggestion(h, load, y, seen)
      BY DEF M
    <3>2. y \in listings /\ y.owner # load.owner
      BY DEF found, TrucksFor, Fits
    <3> QED BY <1>11, <1>14, <1>16, <1>23, <3>1, <3>2 DEF Version
  <2>3. kept.status = "matched" =>
          M # {} \/ \E b \in loads : b.id = kept.id /\ b.status = "matched"
    <3>1. CASE found # {}
      BY <3>1 DEF M
    <3>2. CASE found = {} /\ kept.status = "matched"
      BY <1>5, <1>10, <1>14, <3>2 DEF Version
    <3> QED BY <3>1, <3>2
  <2> QED BY <1>21, <1>23, <2>1, <2>2, <2>3 DEF OwnMatches
<1>30. OwnMet(loads, listings, met, u)
  <2>1. ASSUME NEW b \in listings, Meets(kept, b) PROVE <<kept.id, b.id>> \in met \cup F
    <3>1. Meets(load, b)
      BY <1>11, <1>14, <2>1, VersionMeets
    <3>2. CASE again # {}
      BY <1>10, <1>14, <3>1, <3>2 DEF Version, MarketInv, RowsInv, AllMet
    <3>3. CASE again = {}
      <4>1. load.created = now
        BY <1>5, <1>10, <3>3
      <4>2. b \in found
        BY <1>4, <1>8, <1>11, <3>1, <4>1, PostLoadFinds DEF found
      <4> QED BY <1>14, <4>2 DEF F, Version
    <3> QED BY <3>2, <3>3
  <2> QED BY <1>21, <1>23, <2>1 DEF OwnMet
<1>31. OwnEvents(loads, u)
  <2>1. First(loads, u) <=> again = {}
    BY <1>6, <1>10, <1>14, <1>21, <1>23 DEF First, Version
  <2>2. u.post.kind # "rating"
    BY <1>3, <1>23
  <2>3. E.loads = E.blockedLoads + (IF First(loads, u) THEN 1 ELSE 0)
    BY <1>20, <2>1
  <2>4. E.listings = E.blockedListings + (IF u.writes.listings # {} THEN 1 ELSE 0)
    BY <1>20, <1>21, <1>23
  <2>5. E.loads + E.listings = 1
    BY <1>20
  <2>6. u.writes.events = E
    BY <1>21, <1>23
  <2> QED BY <2>2, <2>3, <2>4, <2>5, <2>6, Zenon DEF OwnEvents
<1>32. FiniteWrites(u)
  <2>1. IsFiniteSet({kept}) /\ IsFiniteSet({})
    BY FS_EmptySet, FS_Singleton
  <2> QED BY <1>18, <1>21, <1>23, <2>1 DEF FiniteWrites
<1>33. Phased(now, "holding", u)
  BY <1>4, <1>23 DEF Phased
<1>34. ASSUME NEW g \in Request, g # h, NEW b \in tx[g].writes.loads PROVE kept.id # b.id
  <2>1. CASE again = {}
    BY <1>7, <1>10, <1>14, <2>1 DEF Version
  <2>2. CASE again # {}
    <3>1. OwnLoads(loads, tx[g]) /\ Phased(now, pc[g], tx[g])
      BY DEF MarketInv, RequestInv, Sound
    <3>2. pc[g] = "holding"
      BY <1>34, <3>1 DEF Phased, Rowless
    <3>3. b.owner = tx[g].user /\ tx[g].user # t.user
      BY <1>3, <1>34, <3>1, <3>2 DEF OwnLoads, LockFree, t
    <3>4. load.id = b.id => b.owner = load.owner
      BY <1>10, <1>34, <2>2, <3>1 DEF OwnLoads, Version
    <3> QED BY <1>11, <1>14, <3>3, <3>4 DEF Version
  <2> QED BY <2>1, <2>2
<1>35. Sound(now, loads, listings, trucks, ratings, met, "holding", u)
  BY <1>24, <1>27, <1>28, <1>29, <1>30, <1>31, <1>32, <1>33 DEF Sound
<1> QED BY <1>21, <1>23, <1>34, <1>35 DEF u, t

-----------------------------------------------------------------------------
(* _handle_confirm_truck                                                   *)

\* An answer that writes no row: what was found, and the count of the attempt.
LEMMA AnswerSound ==
    ASSUME MarketInv, NEW h \in Request, pc[h] = "begun", tx[h].post.kind = "truck",
           NEW p \in {"holding", "released"}, NEW F \in SUBSET (Nat \X Nat), NEW E \in Tally,
           E.loads = 0, E.blockedLoads = 0, E.listings = 1, E.blockedListings = 1,
           Writes(h, [NoWrites EXCEPT !.met = F, !.events = E])
    PROVE  /\ tx' \in [Request -> Transaction] /\ \A g \in Request : g # h => tx'[g] = tx[g]
           /\ tx'[h].post = tx[h].post /\ tx'[h].user = tx[h].user
           /\ Sound(now, loads, listings, trucks, ratings, met, p, tx'[h])
           /\ tx'[h].writes.loads = {} /\ tx'[h].writes.listings = {}
<1> DEFINE w == [NoWrites EXCEPT !.met = F, !.events = E]
           u == tx'[h]
<1>1. w \in Effects
  BY DEF NoWrites, Effects
<1>2. /\ w.loads = {} /\ w.listings = {} /\ w.trucks = {} /\ w.matches = {}
      /\ w.ratings = {} /\ w.events = E
  BY DEF NoWrites
<1> HIDE DEF w
<1>3. /\ tx' \in [Request -> Transaction]
      /\ u.writes = w /\ u.user = tx[h].user /\ u.post = tx[h].post
      /\ u.created = tx[h].created /\ u.rank = tx[h].rank
      /\ \A g \in Request : g # h => tx'[g] = tx[g]
  BY <1>1, WriteFacts DEF w, MarketInv, RequestInv
<1>4. u \in Transaction
  BY <1>3
<1> HIDE DEF u
<1>5. Rowless(u)
  BY <1>2, <1>3 DEF Rowless
<1>6. Phased(now, p, u)
  BY <1>3, <1>5, Beginning DEF Phased
<1>7. FiniteWrites(u)
  BY <1>5, FS_EmptySet DEF Rowless, FiniteWrites
<1>8. OwnEvents(loads, u)
  <2>1. ~ First(loads, u) /\ u.writes.listings = {} /\ u.writes.events = E
    BY <1>2, <1>3, <1>5, RowlessOwn
  <2> QED BY <1>3, <2>1 DEF OwnEvents
<1>9. Sound(now, loads, listings, trucks, ratings, met, p, u)
  BY <1>4, <1>5, <1>6, <1>7, <1>8, RowlessOwn DEF Sound
<1> QED BY <1>3, <1>5, <1>9 DEF u, Rowless

LEMMA FoundType ==
    ASSUME MarketInv, NEW listing \in ListingRow, NEW rank
    PROVE  Found(listing, rank) \in SUBSET (Nat \X Nat)
  BY DEF Found, LoadsFor, MarketInv, TypeInv, LoadRow, ListingRow

LEMMA RepeatTruckSound ==
    ASSUME MarketInv, NEW h \in Request, RepeatTruck(h)
    PROVE  /\ tx' \in [Request -> Transaction] /\ \A g \in Request : g # h => tx'[g] = tx[g]
           /\ tx'[h].post = tx[h].post /\ tx'[h].user = tx[h].user
           /\ Sound(now, loads, listings, trucks, ratings, met, "holding", tx'[h])
           /\ tx'[h].writes.loads = {} /\ tx'[h].writes.listings = {}
<1> DEFINE E == [NoEvents EXCEPT !.listings = 1, !.blockedListings = 1]
<1>1. PICK x \in RecentListings(PostRow(h, 0)) :
        Writes(h, [NoWrites EXCEPT !.met = Found(x, tx[h].rank), !.events = E])
  BY DEF RepeatTruck
<1>2. pc[h] = "begun" /\ tx[h].post.kind = "truck"
  BY DEF RepeatTruck, Holds
<1>3. x \in ListingRow
  BY DEF RecentListings, Taken, MarketInv, TypeInv
<1>4. Found(x, tx[h].rank) \in SUBSET (Nat \X Nat)
  BY <1>3, FoundType
<1>5. /\ E \in Tally /\ E.loads = 0 /\ E.blockedLoads = 0 /\ E.listings = 1
      /\ E.blockedListings = 1
  BY DEF NoEvents, Tally
<1> HIDE DEF E
<1> QED BY <1>1, <1>2, <1>4, <1>5, AnswerSound

LEMMA ClashTruckSound ==
    ASSUME MarketInv, NEW h \in Request, ClashTruck(h)
    PROVE  /\ tx' \in [Request -> Transaction] /\ \A g \in Request : g # h => tx'[g] = tx[g]
           /\ tx'[h].post = tx[h].post /\ tx'[h].user = tx[h].user
           /\ Sound(now, loads, listings, trucks, ratings, met, "released", tx'[h])
           /\ tx'[h].writes.loads = {} /\ tx'[h].writes.listings = {}
<1> DEFINE E == ClashEvents
<1>1. PICK x \in Taken(PostRow(h, 0)) :
        Writes(h, [NoWrites EXCEPT !.met = Found(x, tx[h].rank), !.events = E])
  BY DEF ClashTruck
<1>2. pc[h] = "begun" /\ tx[h].post.kind = "truck"
  BY DEF ClashTruck, Holds
<1>3. x \in ListingRow
  BY DEF Taken, MarketInv, TypeInv
<1>4. Found(x, tx[h].rank) \in SUBSET (Nat \X Nat)
  BY <1>3, FoundType
<1>5. /\ E \in Tally /\ E.loads = 0 /\ E.blockedLoads = 0 /\ E.listings = 1
      /\ E.blockedListings = 1
  BY DEF ClashEvents, NoEvents, Tally
<1> HIDE DEF E
<1> QED BY <1>1, <1>2, <1>4, <1>5, AnswerSound

LEMMA PostTruckFinds ==
    ASSUME NEW l \in LoadRow, l \in loads, NEW t \in ListingRow, NEW rank \in Nat,
           rank <= t.created, l.created <= t.created, Meets(l, t)
    PROVE  <<l.id, t.id>> \in Found(t, rank)
<1>1. l.created \in Nat /\ t.created \in Nat
  BY DEF LoadRow, ListingRow, Moment
<1>2. l.created # t.created /\ l.status = "open" /\ l.created >= rank - Freshness
  BY <1>1 DEF Meets, Distance, Freshness
<1>3. InCorridor(l.from, l.to, t.from, t.to)
  <2>1. Normalize(l.from) # Nowhere /\ Normalize(l.to) # Nowhere
    BY SettledLabel DEF LoadRow
  <2> QED BY <2>1, AlongOrder, InCorridorOrder DEF Meets
<1>4. l \in LoadsFor(t, rank)
  BY <1>2, <1>3 DEF LoadsFor, Fits, Meets
<1> QED BY <1>4 DEF Found

LEMMA PostTruckSound ==
    ASSUME MarketInv, NEW h \in Request, PostTruck(h)
    PROVE  /\ tx' \in [Request -> Transaction] /\ \A g \in Request : g # h => tx'[g] = tx[g]
           /\ tx'[h].post = tx[h].post /\ tx'[h].user = tx[h].user
           /\ Sound(now, loads, listings, trucks, ratings, met, "holding", tx'[h])
           /\ tx'[h].writes.loads = {}
           /\ \A g \in Request : g # h =>
                \A a \in tx'[h].writes.listings, b \in tx[g].writes.listings : a.id # b.id
<1> DEFINE t == tx[h]
           row == PostRow(h, Unused(Ids(listings, "listings")))
           own == {k \in trucks : k.owner = t.user}
           new == [id |-> Unused(Ids(trucks, "trucks")), owner |-> t.user, type |-> row.type]
           kept == IF own # {} THEN {[k EXCEPT !.type = row.type] : k \in own} ELSE {new}
           F == Found(row, t.rank)
           E == [NoEvents EXCEPT !.listings = 1]
           w == [NoWrites EXCEPT !.listings = {row}, !.trucks = kept, !.met = F, !.events = E]
           u == tx'[h]
<1>1. Writes(h, w)
  BY DEF PostTruck
<1>2. pc[h] = "begun" /\ t.post.kind = "truck"
  BY DEF PostTruck, Holds
<1>3. /\ t \in Transaction /\ t.user \in User /\ t.post \in Offers
      /\ t.created = now /\ t.created \in Moment /\ now \in Nat
      /\ t.rank <= now /\ t.rank \in Nat
  BY <1>2, Beginning DEF TripPost
<1>4. /\ row \in ListingRow /\ row.owner = t.user /\ row.created = now
      /\ row.id \in Nat /\ row.id \notin Ids(listings, "listings")
  BY <1>3, TableIdsFinite, FreshId, PostRowType
<1>5. /\ \A b \in listings : row.id # b.id
      /\ \A g \in Request : \A b \in tx[g].writes.listings : row.id # b.id
  BY <1>4 DEF Ids
<1>6. Unused(Ids(trucks, "trucks")) \in Nat
  BY TableIdsFinite, FreshId
<1> HIDE DEF t, row, F, E, u
<1>7. /\ loads \in SUBSET LoadRow /\ \A l \in loads : l.created <= now
      /\ trucks \in SUBSET TruckRow /\ OneTruckEach(trucks)
  BY DEF MarketInv, TypeInv, RowsInv
<1>8. /\ kept \in SUBSET TruckRow /\ IsFiniteSet(kept) /\ AtMostOne(kept)
      /\ \A a \in kept : /\ a.owner = t.user
                         /\ \A b \in trucks : a.owner = b.owner => a.id = b.id
  <2>1. row.type \in {o.type : o \in Offers}
    BY <1>4 DEF ListingRow
  <2>2. CASE own = {}
    <3>1. kept = {new}
      BY <2>2
    <3>2. new \in TruckRow /\ new.owner = t.user
      BY <1>3, <1>6, <2>1 DEF TruckRow
    <3> HIDE DEF new, kept
    <3> QED BY <2>2, <3>1, <3>2, FS_Singleton DEF AtMostOne
  <2>3. CASE own # {}
    <3>1. PICK k \in own : TRUE
      BY <2>3
    <3>2. \A b \in trucks : b.owner = t.user => b = k
      BY <1>7, <3>1 DEF OneTruckEach
    <3> DEFINE a == [k EXCEPT !.type = row.type]
    <3>3. own = {k}
      BY <3>1, <3>2
    <3>4. kept = {a}
      BY <3>3
    <3>5. a \in TruckRow /\ a.owner = t.user /\ a.id = k.id
      BY <1>7, <2>1, <3>1 DEF TruckRow
    <3> HIDE DEF a, kept
    <3> QED BY <3>2, <3>4, <3>5, FS_Singleton DEF AtMostOne
  <2> QED BY <2>2, <2>3
<1> HIDE DEF kept
<1>9. F \in SUBSET (Nat \X Nat)
  BY <1>4, FoundType DEF F
<1>10. /\ E \in Tally /\ E.loads = 0 /\ E.blockedLoads = 0 /\ E.listings = 1
       /\ E.blockedListings = 0
  BY DEF E, NoEvents, Tally
<1>11. w \in Effects
  BY <1>4, <1>8, <1>9, <1>10 DEF NoWrites, Effects
<1>12. /\ w.loads = {} /\ w.listings = {row} /\ w.trucks = kept /\ w.matches = {}
       /\ w.ratings = {} /\ w.events = E /\ w.met = F
  BY DEF NoWrites
<1> HIDE DEF w
<1>13. /\ tx' \in [Request -> Transaction]
       /\ u.writes = w /\ u.user = t.user /\ u.post = t.post
       /\ u.created = t.created /\ u.rank = t.rank
       /\ \A g \in Request : g # h => tx'[g] = tx[g]
  BY <1>1, <1>11, WriteFacts DEF t, u, MarketInv, RequestInv
<1>14. u \in Transaction
  BY <1>13 DEF u
<1>15. OwnLoads(loads, u) /\ OwnRatings(ratings, u) /\ OwnMatches(loads, listings, u)
  BY <1>12, <1>13 DEF OwnLoads, OwnRatings, OwnMatches, AtMostOne, Unique
<1>16. OwnListings(listings, u)
  BY <1>3, <1>4, <1>5, <1>12, <1>13 DEF OwnListings, AtMostOne
<1>17. OwnTrucks(trucks, u)
  BY <1>8, <1>12, <1>13 DEF OwnTrucks
<1>18. OwnMet(loads, listings, met, u)
  <2>1. \A l \in loads : Meets(l, row) => <<l.id, row.id>> \in F
    BY <1>3, <1>4, <1>7, PostTruckFinds DEF F
  <2> QED BY <1>12, <1>13, <2>1 DEF OwnMet
<1>19. OwnEvents(loads, u)
  <2>1. ~ First(loads, u) /\ u.writes.listings # {} /\ u.writes.events = E
    BY <1>12, <1>13 DEF First
  <2> QED BY <1>2, <1>10, <1>13, <2>1 DEF OwnEvents
<1>20. FiniteWrites(u)
  <2>1. IsFiniteSet({row}) /\ IsFiniteSet({})
    BY FS_EmptySet, FS_Singleton
  <2> QED BY <1>8, <1>12, <1>13, <2>1 DEF FiniteWrites
<1>21. Phased(now, "holding", u)
  BY <1>3, <1>13 DEF Phased
<1>22. Sound(now, loads, listings, trucks, ratings, met, "holding", u)
  BY <1>14, <1>15, <1>16, <1>17, <1>18, <1>19, <1>20, <1>21 DEF Sound
<1> QED BY <1>5, <1>12, <1>13, <1>22 DEF u, t

-----------------------------------------------------------------------------
(* _handle_rate_trip                                                       *)

LEMMA RateTripSound ==
    ASSUME MarketInv, NEW h \in Request, RateTrip(h)
    PROVE  /\ tx' \in [Request -> Transaction] /\ \A g \in Request : g # h => tx'[g] = tx[g]
           /\ tx'[h].post = tx[h].post /\ tx'[h].user = tx[h].user
           /\ Sound(now, loads, listings, trucks, ratings, met, "holding", tx'[h])
           /\ tx'[h].writes.loads = {} /\ tx'[h].writes.listings = {}
<1> DEFINE t == tx[h]
           trip == t.post
           own == {r \in ratings : /\ r.load = trip.load /\ r.listing = trip.listing
                                   /\ r.rater = t.user}
           new == [id |-> Unused(Ids(ratings, "ratings")), load |-> trip.load,
                   listing |-> trip.listing, rater |-> t.user, stars |-> trip.stars]
           u == tx'[h]
<1>1. PICK kept \in {{}, {[r EXCEPT !.stars = trip.stars] : r \in own}, {new}} :
        /\ Writes(h, [NoWrites EXCEPT !.ratings = kept])
        /\ kept = {} \/ IF own # {} THEN kept = {[r EXCEPT !.stars = trip.stars] : r \in own}
                        ELSE kept = {new}
  BY Zenon DEF RateTrip
<1> DEFINE w == [NoWrites EXCEPT !.ratings = kept]
<1>2. pc[h] = "begun" /\ t.post.kind = "rating"
  BY DEF RateTrip, Holds
<1>3. /\ t \in Transaction /\ t.user \in User /\ t.post \in TripPost
      /\ t.created = now /\ t.rank <= now
  BY <1>2, Beginning, MarketplaceAssumption
<1>4. trip.load \in Nat /\ trip.listing \in Nat /\ trip.stars \in 1..5
  BY <1>3 DEF TripPost
<1>5. Unused(Ids(ratings, "ratings")) \in Nat
  BY TableIdsFinite, FreshId
<1> HIDE DEF t, u, trip
<1>6. ratings \in SUBSET RatingRow /\ OneRatingEach(ratings)
  BY DEF MarketInv, TypeInv, RowsInv
<1>7. /\ kept \in SUBSET RatingRow /\ IsFiniteSet(kept) /\ AtMostOne(kept)
      /\ \A a \in kept : /\ a.rater = t.user
                         /\ \A b \in ratings : SameTrip(a, b) => a.id = b.id
  <2>1. CASE kept = {}
    BY <2>1, FS_EmptySet DEF AtMostOne
  <2>2. CASE own = {} /\ kept = {new}
    <3>1. new \in RatingRow /\ new.rater = t.user
      BY <1>3, <1>4, <1>5 DEF RatingRow
    <3>2. \A b \in ratings : ~ SameTrip(new, b)
      BY <2>2 DEF SameTrip
    <3> HIDE DEF new
    <3> QED BY <2>2, <3>1, <3>2, FS_Singleton DEF AtMostOne
  <2>3. CASE own # {} /\ kept = {[r EXCEPT !.stars = trip.stars] : r \in own}
    <3>1. PICK k \in own : TRUE
      BY <2>3
    <3> DEFINE a == [k EXCEPT !.stars = trip.stars]
    <3>2. \A b \in ratings : SameTrip(b, k) => b = k
      BY <1>6, <3>1 DEF OneRatingEach
    <3>3. own = {k}
      BY <3>1, <3>2 DEF SameTrip
    <3>4. kept = {a}
      BY <2>3, <3>3
    <3>5. /\ a \in RatingRow /\ a.rater = t.user /\ a.id = k.id
          /\ a.load = k.load /\ a.listing = k.listing /\ a.rater = k.rater
      BY <1>4, <1>6, <3>1 DEF RatingRow
    <3> HIDE DEF a
    <3>6. \A b \in ratings : SameTrip(a, b) => a.id = b.id
      BY <3>2, <3>5 DEF SameTrip
    <3> QED BY <3>4, <3>5, <3>6, FS_Singleton DEF AtMostOne
  <2> QED BY <1>1, <2>1, <2>2, <2>3
<1>8. w \in Effects
  BY <1>7 DEF NoWrites, NoEvents, Tally, Effects
<1>9. /\ w.loads = {} /\ w.listings = {} /\ w.trucks = {} /\ w.matches = {}
      /\ w.ratings = kept /\ w.events = NoEvents
  BY DEF NoWrites
<1>10. Writes(h, w)
  BY <1>1
<1> HIDE DEF w
<1>11. /\ tx' \in [Request -> Transaction]
       /\ u.writes = w /\ u.user = t.user /\ u.post = t.post
       /\ u.created = t.created /\ u.rank = t.rank
       /\ \A g \in Request : g # h => tx'[g] = tx[g]
  BY <1>8, <1>10, WriteFacts DEF t, u, MarketInv, RequestInv
<1>12. u \in Transaction
  BY <1>11 DEF u
<1>13. /\ OwnLoads(loads, u) /\ OwnListings(listings, u) /\ OwnTrucks(trucks, u)
       /\ OwnMatches(loads, listings, u) /\ OwnMet(loads, listings, met, u)
  BY <1>9, <1>11 DEF OwnLoads, OwnListings, OwnTrucks, OwnMatches, OwnMet, AtMostOne, Unique
<1>14. OwnRatings(ratings, u)
  BY <1>7, <1>9, <1>11 DEF OwnRatings
<1>15. OwnEvents(loads, u)
  <2>1. ~ First(loads, u) /\ u.writes.listings = {} /\ u.writes.events = NoEvents
    BY <1>9, <1>11 DEF First
  <2> QED BY <2>1 DEF OwnEvents, NoEvents
<1>16. FiniteWrites(u)
  <2>1. IsFiniteSet({})
    BY FS_EmptySet
  <2> QED BY <1>7, <1>9, <1>11, <2>1 DEF FiniteWrites
<1>17. Phased(now, "holding", u)
  BY <1>3, <1>11 DEF Phased
<1>18. Sound(now, loads, listings, trucks, ratings, met, "holding", u)
  BY <1>12, <1>13, <1>14, <1>15, <1>16, <1>17 DEF Sound
<1> QED BY <1>9, <1>11, <1>18 DEF u, t

-----------------------------------------------------------------------------
(* The steps.                                                              *)

LEMMA PostingFinite == IsFiniteSet(Posting) /\ Cardinality(Posting) \in Nat
<1>1. IsFiniteSet(Posting)
  BY MarketplaceAssumption, FS_Subset DEF Posting
<1> QED BY <1>1, FS_CardinalityType

LEMMA InitMarket == Init => MarketInv
<1> SUFFICES ASSUME Init PROVE MarketInv
  OBVIOUS
<1> USE MarketplaceAssumption DEF Init
<1>1. 0 \in Moment
  <2>1. 0 \in 0..MaxTime /\ 0 = 0 * Step
    OBVIOUS
  <2> QED BY <2>1 DEF Moment
<1>2. IsFiniteSet({})
  BY FS_EmptySet
<1>3. TypeInv
  BY <1>1, <1>2 DEF TypeInv, Unique
<1>4. RowsInv
  BY DEF RowsInv, NoTwins, OneTruckEach, OneRatingEach, Matched, AllMet
<1>5. CountInv
  <2>1. Posting = {}
    BY DEF Posting
  <2>2. Cardinality(Posting) = 0 /\ Cardinality({}) = 0
    BY <2>1, FS_EmptySet
  <2> QED BY <2>2 DEF CountInv, NoEvents, Tally
<1>6. AskedInv
  BY DEF AskedInv
<1>7. NoTx \in Transaction /\ NoTx.writes = NoWrites
  BY <1>1 DEF NoTx, NoWrites, NoEvents, Transaction, Effects, Tally
<1>8. RequestInv
  <2>1. \A h \in Request : pc[h] = "idle" /\ tx[h] = NoTx
    OBVIOUS
  <2>2. Phased(now, "idle", NoTx)
    BY <1>7, NoTxOwn DEF Phased
  <2>3. Sound(now, loads, listings, trucks, ratings, met, "idle", NoTx)
    BY <1>7, <2>2, NoTxOwn DEF Sound
  <2>4. Apart("idle", NoTx, "idle", NoTx)
    BY <1>7 DEF Apart, NoWrites
  <2>5. pc \in [Request -> Phase] /\ tx \in [Request -> Transaction]
    BY <1>7 DEF Phase
  <2> QED BY <2>1, <2>3, <2>4, <2>5 DEF RequestInv
<1> QED BY <1>3, <1>4, <1>5, <1>6, <1>8 DEF MarketInv

LEMMA WriteStep ==
    ASSUME MarketInv, NEW h \in Request, NEW p \in {"holding", "released"}, Holds(h, p),
           UNCHANGED <<now, loads, listings, trucks, matches, ratings, events, asked,
                       begun, met>>,
           tx' \in [Request -> Transaction], \A g \in Request : g # h => tx'[g] = tx[g],
           tx'[h].post = tx[h].post, tx'[h].user = tx[h].user,
           Sound(now, loads, listings, trucks, ratings, met, p, tx'[h]),
           \A g \in Request : g # h =>
             /\ \A a \in tx'[h].writes.loads, b \in tx[g].writes.loads : a.id # b.id
             /\ \A a \in tx'[h].writes.listings, b \in tx[g].writes.listings : a.id # b.id
    PROVE  MarketInv'
<1>1. TypeInv' /\ RowsInv' /\ AskedInv'
  BY DEF MarketInv, TypeInv, RowsInv, AskedInv
<1>2. /\ pc[h] = "begun" /\ pc' = [pc EXCEPT ![h] = p]
      /\ \A g \in Request : pc[g] = "holding" => tx[g].user # tx[h].user
      /\ pc \in [Request -> Phase]
  BY DEF Holds, LockFree, MarketInv, RequestInv
<1>3. pc' \in [Request -> Phase] /\ pc'[h] = p /\ \A g \in Request : g # h => pc'[g] = pc[g]
  BY <1>2 DEF Phase
<1>4. CountInv'
  <2>1. Posting' = Posting
    BY <1>2, <1>3 DEF Posting
  <2> QED BY <2>1 DEF MarketInv, CountInv
<1>5. ASSUME NEW g \in Request
      PROVE  Sound(now, loads, listings, trucks, ratings, met, pc[g], tx[g])'
  <2>1. Sound(now, loads, listings, trucks, ratings, met, pc'[g], tx'[g])
    <3>1. CASE g = h
      BY <1>3, <3>1
    <3>2. CASE g # h
      BY <1>3, <3>2 DEF MarketInv, RequestInv
    <3> QED BY <3>1, <3>2
  <2> QED BY <2>1
<1>6. ASSUME NEW f \in Request, NEW g \in Request, f # g
      PROVE  Apart(pc[f], tx[f], pc[g], tx[g])'
  <2>1. Apart(pc'[f], tx'[f], pc'[g], tx'[g])
    <3>1. CASE f # h /\ g # h
      BY <1>3, <1>6, <3>1 DEF MarketInv, RequestInv
    <3>2. CASE f = h
      BY <1>2, <1>3, <1>6, <3>2 DEF Apart
    <3>3. CASE g = h
      BY <1>2, <1>3, <1>6, <3>3 DEF Apart
    <3> QED BY <3>1, <3>2, <3>3
  <2> QED BY <2>1
<1>7. RequestInv'
  BY <1>3, <1>5, <1>6 DEF RequestInv
<1> QED BY <1>1, <1>4, <1>7 DEF MarketInv

LEMMA PostLoadPreserves ==
    ASSUME MarketInv, NEW h \in Request, PostLoad(h)
    PROVE  MarketInv'
<1>1. Holds(h, "holding")
  BY DEF PostLoad
<1>2. UNCHANGED <<now, loads, listings, trucks, matches, ratings, events, asked, begun, met>>
  BY DEF PostLoad, Writes
<1> QED BY <1>1, <1>2, PostLoadSound, WriteStep

LEMMA RepeatTruckPreserves ==
    ASSUME MarketInv, NEW h \in Request, RepeatTruck(h)
    PROVE  MarketInv'
<1>1. Holds(h, "holding")
  BY DEF RepeatTruck
<1>2. UNCHANGED <<now, loads, listings, trucks, matches, ratings, events, asked, begun, met>>
  BY DEF RepeatTruck, Writes
<1> QED BY <1>1, <1>2, RepeatTruckSound, WriteStep

LEMMA ClashTruckPreserves ==
    ASSUME MarketInv, NEW h \in Request, ClashTruck(h)
    PROVE  MarketInv'
<1>1. Holds(h, "released")
  BY DEF ClashTruck
<1>2. UNCHANGED <<now, loads, listings, trucks, matches, ratings, events, asked, begun, met>>
  BY DEF ClashTruck, Writes
<1> QED BY <1>1, <1>2, ClashTruckSound, WriteStep

LEMMA PostTruckPreserves ==
    ASSUME MarketInv, NEW h \in Request, PostTruck(h)
    PROVE  MarketInv'
<1>1. Holds(h, "holding")
  BY DEF PostTruck
<1>2. UNCHANGED <<now, loads, listings, trucks, matches, ratings, events, asked, begun, met>>
  BY DEF PostTruck, Writes
<1> QED BY <1>1, <1>2, PostTruckSound, WriteStep

LEMMA RateTripPreserves ==
    ASSUME MarketInv, NEW h \in Request, RateTrip(h)
    PROVE  MarketInv'
<1>1. Holds(h, "holding")
  BY DEF RateTrip
<1>2. UNCHANGED <<now, loads, listings, trucks, matches, ratings, events, asked, begun, met>>
  BY DEF RateTrip, Writes
<1> QED BY <1>1, <1>2, RateTripSound, WriteStep

\* A request begins or ends and writes nothing.
LEMMA BlankStep ==
    ASSUME MarketInv, NEW h \in Request, NEW p \in {"idle", "begun"},
           NEW t \in Transaction, t.writes = NoWrites, Phased(now, p, t),
           pc' = [pc EXCEPT ![h] = p], tx' = [tx EXCEPT ![h] = t],
           UNCHANGED <<now, loads, listings, trucks, matches, ratings, met>>
    PROVE  RequestInv'
<1>1. /\ pc \in [Request -> Phase] /\ tx \in [Request -> Transaction]
  BY DEF MarketInv, RequestInv
<1>2. /\ pc' \in [Request -> Phase] /\ tx' \in [Request -> Transaction]
      /\ pc'[h] = p /\ tx'[h] = t
      /\ \A g \in Request : g # h => pc'[g] = pc[g] /\ tx'[g] = tx[g]
  BY <1>1 DEF Phase
<1>3. Sound(now, loads, listings, trucks, ratings, met, p, t)
  BY NoTxOwn DEF Sound
<1>4. ASSUME NEW g \in Request
      PROVE  Sound(now, loads, listings, trucks, ratings, met, pc[g], tx[g])'
  <2>1. Sound(now, loads, listings, trucks, ratings, met, pc'[g], tx'[g])
    <3>1. CASE g = h
      BY <1>2, <1>3, <3>1
    <3>2. CASE g # h
      BY <1>2, <3>2 DEF MarketInv, RequestInv
    <3> QED BY <3>1, <3>2
  <2> QED BY <2>1
<1>5. t.writes.loads = {} /\ t.writes.listings = {}
  BY DEF NoWrites
<1>6. ASSUME NEW f \in Request, NEW g \in Request, f # g
      PROVE  Apart(pc[f], tx[f], pc[g], tx[g])'
  <2>1. Apart(pc'[f], tx'[f], pc'[g], tx'[g])
    <3>1. CASE f # h /\ g # h
      BY <1>2, <1>6, <3>1 DEF MarketInv, RequestInv
    <3>2. CASE f = h
      BY <1>2, <1>5, <1>6, <3>2 DEF Apart
    <3>3. CASE g = h
      BY <1>2, <1>5, <1>6, <3>3 DEF Apart
    <3> QED BY <3>1, <3>2, <3>3
  <2> QED BY <2>1
<1> QED BY <1>2, <1>4, <1>6 DEF RequestInv

LEMMA NoTxType == NoTx \in Transaction /\ NoTx.writes = NoWrites
<1>1. 0 \in Moment
  <2>1. 0 \in 0..MaxTime /\ 0 = 0 * Step
    BY MarketplaceAssumption
  <2> QED BY <2>1 DEF Moment
<1> QED BY <1>1 DEF NoTx, NoWrites, NoEvents, Transaction, Effects, Tally

LEMMA StartStep ==
    ASSUME MarketInv, NEW h \in Request, NEW u \in User, NEW post \in Offers \cup TripPost,
           NEW rank \in Moment, rank <= now, Start(h, u, post, rank), begun' \in 0..MaxPosts
    PROVE  TypeInv' /\ RowsInv' /\ AskedInv' /\ RequestInv'
<1> DEFINE t == [user |-> u, post |-> post, created |-> now, rank |-> rank,
                 writes |-> NoWrites]
<1>1. now \in Moment
  BY DEF MarketInv, TypeInv
<1>2. NoWrites \in Effects
  BY DEF NoWrites, NoEvents, Effects, Tally
<1>3. t \in Transaction /\ t.writes = NoWrites
  BY <1>1, <1>2 DEF Transaction
<1>4. Phased(now, "begun", t)
  BY <1>3, NoTxOwn DEF Phased
<1>5. /\ pc' = [pc EXCEPT ![h] = "begun"] /\ tx' = [tx EXCEPT ![h] = t]
      /\ UNCHANGED <<now, loads, listings, trucks, matches, ratings, met, asked>>
  BY DEF Start
<1> HIDE DEF t
<1>6. RequestInv'
  BY <1>3, <1>4, <1>5, BlankStep
<1>7. TypeInv' /\ RowsInv' /\ AskedInv'
  <2>1. begun' \in 0..MaxPosts => TypeInv'
    BY <1>5 DEF MarketInv, TypeInv
  <2> QED BY <1>5, <1>6, <2>1 DEF MarketInv, RowsInv, AskedInv
<1> QED BY <1>6, <1>7

LEMMA ConfirmPreserves ==
    ASSUME MarketInv, NEW h \in Request, NEW u \in User, Confirm(h, u)
    PROVE  MarketInv'
<1>1. /\ asked[u] \in [post : Offers, at : Moment] /\ asked[u].at <= now
      /\ begun < MaxPosts /\ begun' = begun + 1 /\ begun \in 0..MaxPosts
      /\ Start(h, u, asked[u].post, asked[u].at)
  BY DEF Confirm, MarketInv, AskedInv, TypeInv
<1>2. asked[u].post \in Offers /\ asked[u].at \in Moment
  BY <1>1
<1>3. begun' \in 0..MaxPosts
  BY <1>1, MarketplaceAssumption
<1>4. TypeInv' /\ RowsInv' /\ AskedInv' /\ RequestInv'
  BY <1>1, <1>2, <1>3, StartStep
<1>5. asked[u].post.kind # "rating"
  BY <1>2, MarketplaceAssumption
<1>6. /\ pc[h] = "idle" /\ pc' = [pc EXCEPT ![h] = "begun"]
      /\ tx'[h].post = asked[u].post
      /\ \A g \in Request : g # h => tx'[g] = tx[g] /\ pc'[g] = pc[g]
      /\ pc'[h] = "begun"
      /\ UNCHANGED <<loads, listings, events>>
  BY <1>1 DEF Start, MarketInv, RequestInv
<1>7. Posting' = Posting \cup {h} /\ h \notin Posting
  BY <1>5, <1>6 DEF Posting
<1>8. Cardinality(Posting') = Cardinality(Posting) + 1
  BY <1>7, PostingFinite, FS_AddElement
<1>9. CountInv'
  <2>1. events \in Tally /\ begun \in Nat /\ Cardinality(Posting) \in Nat
    BY <1>1, PostingFinite, MarketplaceAssumption DEF MarketInv, CountInv
  <2>2. events.loads + events.listings + Cardinality(Posting) <= begun
    BY DEF MarketInv, CountInv
  <2>3. events.loads + events.listings + Cardinality(Posting') <= begun'
    BY <1>1, <1>8, <2>1, <2>2 DEF Tally
  <2> QED BY <1>6, <2>3 DEF MarketInv, CountInv
<1> QED BY <1>4, <1>9 DEF MarketInv

LEMMA TapRatingPreserves ==
    ASSUME MarketInv, NEW h \in Request, NEW u \in User, TapRating(h, u)
    PROVE  MarketInv'
<1>1. PICK x \in matches, stars \in Stars :
        /\ Start(h, u, [kind |-> "rating", load |-> x.load, listing |-> x.listing,
                        stars |-> stars], now)
        /\ UNCHANGED begun
  BY DEF TapRating
<1> DEFINE post == [kind |-> "rating", load |-> x.load, listing |-> x.listing,
                    stars |-> stars]
<1>2. now \in Moment /\ now <= now /\ begun \in 0..MaxPosts /\ x \in MatchRow
  BY DEF MarketInv, TypeInv, Moment
<1>3. post \in TripPost
  BY <1>2, MarketplaceAssumption DEF TripPost, MatchRow
<1>4. TypeInv' /\ RowsInv' /\ AskedInv' /\ RequestInv'
  BY <1>1, <1>2, <1>3, StartStep
<1>5. /\ pc[h] = "idle" /\ tx'[h].post.kind = "rating"
      /\ \A g \in Request : g # h => tx'[g] = tx[g] /\ pc'[g] = pc[g]
      /\ UNCHANGED <<loads, listings, events>>
  BY <1>1 DEF Start, MarketInv, RequestInv
<1>6. Posting' = Posting
  BY <1>5 DEF Posting
<1>7. CountInv'
  BY <1>1, <1>5, <1>6 DEF MarketInv, CountInv
<1> QED BY <1>4, <1>7 DEF MarketInv

LEMMA AskPreserves ==
    ASSUME MarketInv, NEW u \in User, NEW offer \in Offers, Ask(u, offer)
    PROVE  MarketInv'
<1>1. TypeInv' /\ RowsInv' /\ RequestInv'
  BY DEF Ask, MarketInv, TypeInv, RowsInv, RequestInv
<1>2. CountInv'
  <2>1. Posting' = Posting
    BY DEF Ask, Posting
  <2> QED BY <2>1 DEF Ask, MarketInv, CountInv
<1>3. AskedInv'
  <2>1. now \in Moment /\ now <= now /\ now' = now
    BY DEF Ask, MarketInv, TypeInv, Moment
  <2>2. asked' = [asked EXCEPT ![u] = [post |-> offer, at |-> now]]
    BY DEF Ask
  <2> QED BY <2>1, <2>2 DEF MarketInv, AskedInv
<1> QED BY <1>1, <1>2, <1>3 DEF MarketInv

LEMMA NextMoment ==
    ASSUME NEW n \in Moment, n + Step <= MaxTime
    PROVE  n + Step \in Moment /\ n <= n + Step
<1>1. PICK k \in 0..MaxTime : n = k * Step
  BY DEF Moment
<1>2. Step \in Nat \ {0} /\ MaxTime \in Nat /\ n \in Nat
  BY MarketplaceAssumption DEF Moment
<1>3. n + Step = (k + 1) * Step
  BY <1>1, <1>2
<1>4. k + 1 <= (k + 1) * Step
  BY <1>1, <1>2
<1>5. k + 1 \in 0..MaxTime
  BY <1>2, <1>3, <1>4
<1>6. n + Step \in 0..MaxTime
  BY <1>2
<1>7. n + Step \in Moment
  BY <1>3, <1>5, <1>6 DEF Moment
<1> QED BY <1>2, <1>7

LEMMA TickPreserves ==
    ASSUME MarketInv, Tick
    PROVE  MarketInv'
<1>1. now' \in Moment /\ now <= now'
  BY NextMoment DEF Tick, MarketInv, TypeInv
<1>2. now \in Nat /\ now' \in Nat
  BY <1>1 DEF Moment, MarketInv, TypeInv
<1>3. TypeInv'
  <2>1. \A r \in loads \cup listings : r.created \in Nat /\ r.created <= now
    BY DEF MarketInv, TypeInv, LoadRow, ListingRow, Moment
  <2>2. \A r \in loads \cup listings : r.created <= now'
    BY <1>1, <1>2, <2>1
  <2> QED BY <1>1, <2>2 DEF Tick, MarketInv, TypeInv
<1>4. RowsInv'
  BY DEF Tick, MarketInv, RowsInv
<1>5. CountInv'
  <2>1. Posting' = Posting
    BY DEF Tick, Posting
  <2> QED BY <2>1 DEF Tick, MarketInv, CountInv
<1>6. AskedInv'
  <2>1. \A u \in User : asked'[u] = None \/ asked'[u] = asked[u]
    BY DEF Tick
  <2>2. asked' \in [User -> [post : Offers, at : Moment] \cup {None}]
    BY DEF Tick, MarketInv, AskedInv
  <2>3. \A u \in User : asked[u] # None => asked[u].at \in Nat /\ asked[u].at <= now
    BY DEF MarketInv, AskedInv, Moment
  <2>4. \A u \in User : asked'[u] # None => asked'[u].at <= now'
    BY <1>1, <1>2, <2>1, <2>3
  <2> QED BY <2>2, <2>4 DEF AskedInv
<1>7. RequestInv'
  <2>1. \A h \in Request : pc'[h] = "idle" /\ tx'[h] = NoTx
    BY DEF Tick, MarketInv, RequestInv, Sound, Phased
  <2>2. /\ NoTx \in Transaction /\ NoTx.writes = NoWrites
        /\ Phased(now', "idle", NoTx)
    BY NoTxType, NoTxOwn DEF Phased
  <2>3. Sound(now', loads', listings', trucks', ratings', met', "idle", NoTx)
    BY <2>2, NoTxOwn DEF Sound
  <2>4. Apart("idle", NoTx, "idle", NoTx)
    BY <2>2 DEF Apart, NoWrites
  <2>5. pc' \in [Request -> Phase] /\ tx' \in [Request -> Transaction]
    BY DEF Tick, MarketInv, RequestInv
  <2> QED BY <2>1, <2>3, <2>4, <2>5 DEF RequestInv
<1> QED BY <1>3, <1>4, <1>5, <1>6, <1>7 DEF MarketInv

LEMMA FailPreserves ==
    ASSUME MarketInv, NEW h \in Request, Fail(h)
    PROVE  MarketInv'
<1>1. /\ pc' = [pc EXCEPT ![h] = "idle"] /\ tx' = [tx EXCEPT ![h] = NoTx]
      /\ UNCHANGED <<now, loads, listings, trucks, matches, ratings, events, asked,
                     begun, met>>
  BY DEF Fail
<1>2. Phased(now, "idle", NoTx)
  BY NoTxType, NoTxOwn DEF Phased
<1>3. RequestInv'
  BY <1>1, <1>2, NoTxType, BlankStep
<1>4. TypeInv' /\ RowsInv' /\ AskedInv'
  BY <1>1 DEF MarketInv, TypeInv, RowsInv, AskedInv
<1>5. CountInv'
  <2>1. Posting' \subseteq Posting
    BY <1>1 DEF Posting, MarketInv, RequestInv
  <2>2. Cardinality(Posting') <= Cardinality(Posting) /\ Cardinality(Posting') \in Nat
    BY <2>1, PostingFinite, FS_Subset, FS_CardinalityType
  <2>3. events \in Tally /\ begun \in Nat
    BY MarketplaceAssumption DEF MarketInv, CountInv, TypeInv
  <2>4. events.loads + events.listings + Cardinality(Posting') <= begun
    BY <2>2, <2>3, PostingFinite DEF MarketInv, CountInv, Tally
  <2> QED BY <1>1, <2>4 DEF MarketInv, CountInv
<1> QED BY <1>3, <1>4, <1>5 DEF MarketInv

LEMMA CommitCounts ==
    ASSUME MarketInv, NEW h \in Request, Commit(h)
    PROVE  CountInv'
<1> DEFINE t == tx[h]
           e == t.writes.events
<1>1. /\ t \in Transaction /\ OwnEvents(loads, t) /\ OwnLoads(loads, t)
      /\ OwnListings(listings, t) /\ pc[h] # "idle"
  BY DEF Commit, MarketInv, RequestInv, Sound
<1>2. /\ IsFiniteSet(loads) /\ Unique(loads) /\ IsFiniteSet(listings) /\ Unique(listings)
      /\ begun \in Nat
  BY MarketplaceAssumption DEF MarketInv, TypeInv
<1>3. e \in Tally /\ events \in Tally
  BY <1>1 DEF Transaction, Effects, MarketInv, CountInv
<1>4. /\ loads' = Upsert(loads, t.writes.loads)
      /\ listings' = Upsert(listings, t.writes.listings)
      /\ events' = [k \in DOMAIN events |-> events[k] + e[k]]
      /\ pc' = [pc EXCEPT ![h] = "idle"] /\ tx' = [tx EXCEPT ![h] = NoTx]
      /\ begun' = begun
  BY DEF Commit
<1>5. /\ events' \in Tally
      /\ events'.loads = events.loads + e.loads
      /\ events'.blockedLoads = events.blockedLoads + e.blockedLoads
      /\ events'.listings = events.listings + e.listings
      /\ events'.blockedListings = events.blockedListings + e.blockedListings
  BY <1>3, <1>4 DEF Tally
<1>6. /\ e.loads = e.blockedLoads + (IF First(loads, t) THEN 1 ELSE 0)
      /\ e.listings = e.blockedListings + (IF t.writes.listings # {} THEN 1 ELSE 0)
      /\ \/ e.loads = 0 /\ e.listings = 0
         \/ e.loads + e.listings = 1 /\ t.post.kind # "rating"
  BY <1>1 DEF OwnEvents
<1> HIDE DEF t, e
<1>7. Cardinality(loads') = Cardinality(loads) + (IF First(loads, t) THEN 1 ELSE 0)
  BY <1>1, <1>2, <1>4, UpsertCount DEF OwnLoads, First
<1>8. Cardinality(listings') =
        Cardinality(listings) + (IF t.writes.listings # {} THEN 1 ELSE 0)
  <2>1. (\E a \in t.writes.listings : \A b \in listings : a.id # b.id)
          <=> t.writes.listings # {}
    BY <1>1 DEF OwnListings
  <2>2. AtMostOne(t.writes.listings)
    BY <1>1 DEF OwnListings
  <2>3. Cardinality(Upsert(listings, t.writes.listings)) = Cardinality(listings)
          + (IF \E a \in t.writes.listings : \A b \in listings : a.id # b.id
             THEN 1 ELSE 0)
    BY <1>2, <2>2, UpsertCount
  <2> QED BY <1>4, <2>1, <2>3
<1>9. Cardinality(loads) \in Nat /\ Cardinality(listings) \in Nat
  BY <1>2, FS_CardinalityType
<1>10. /\ events.loads = events.blockedLoads + Cardinality(loads)
       /\ events.listings = events.blockedListings + Cardinality(listings)
       /\ events.loads + events.listings + Cardinality(Posting) <= begun
  BY DEF MarketInv, CountInv
<1>11. /\ events'.loads = events'.blockedLoads + Cardinality(loads')
       /\ events'.listings = events'.blockedListings + Cardinality(listings')
  <2>1. events'.loads = events'.blockedLoads + Cardinality(loads')
    BY <1>3, <1>5, <1>6, <1>7, <1>9, <1>10 DEF Tally
  <2>2. events'.listings = events'.blockedListings + Cardinality(listings')
    BY <1>3, <1>5, <1>6, <1>8, <1>9, <1>10 DEF Tally
  <2> QED BY <2>1, <2>2
<1>12. Posting' = Posting \ {h}
  BY <1>4 DEF Posting, NoTx, MarketInv, RequestInv
<1>13. events'.loads + events'.listings + Cardinality(Posting') <= begun
  <2>1. Cardinality(Posting) \in Nat
    BY PostingFinite
  <2>2. CASE h \in Posting
    <3>1. Cardinality(Posting') = Cardinality(Posting) - 1
      BY <1>12, <2>2, PostingFinite, FS_RemoveElement
    <3> QED BY <1>2, <1>3, <1>5, <1>6, <1>10, <2>1, <3>1 DEF Tally
  <2>3. CASE h \notin Posting
    <3>1. Posting' = Posting
      BY <1>12, <2>3
    <3>2. t.post.kind = "rating"
      BY <1>1, <2>3 DEF Posting, t
    <3>3. e.loads = 0 /\ e.listings = 0
      BY <1>6, <3>2
    <3>4. Cardinality(Posting') = Cardinality(Posting)
      BY <3>1
    <3> QED BY <1>2, <1>3, <1>5, <1>10, <2>1, <3>3, <3>4 DEF Tally
  <2> QED BY <2>2, <2>3
<1> QED BY <1>4, <1>5, <1>11, <1>13 DEF CountInv

LEMMA CommitTypes ==
    ASSUME MarketInv, NEW h \in Request, Commit(h)
    PROVE  TypeInv'
<1> DEFINE w == tx[h].writes
<1>1. /\ tx[h] \in Transaction /\ FiniteWrites(tx[h]) /\ OwnLoads(loads, tx[h])
      /\ OwnListings(listings, tx[h]) /\ OwnTrucks(trucks, tx[h])
      /\ OwnRatings(ratings, tx[h]) /\ OwnMatches(loads, listings, tx[h])
      /\ Phased(now, pc[h], tx[h])
  BY DEF MarketInv, RequestInv, Sound
<1>2. /\ w.loads \in SUBSET LoadRow /\ w.listings \in SUBSET ListingRow
      /\ w.trucks \in SUBSET TruckRow /\ w.matches \in SUBSET MatchRow
      /\ w.ratings \in SUBSET RatingRow /\ w.met \in SUBSET (Nat \X Nat)
  BY <1>1 DEF Transaction, Effects
<1>3. /\ Unique(w.loads) /\ Unique(w.listings) /\ Unique(w.trucks) /\ Unique(w.matches)
      /\ Unique(w.ratings)
  BY <1>1 DEF OwnLoads, OwnListings, OwnTrucks, OwnRatings, OwnMatches, AtMostOne, Unique
<1>4. /\ IsFiniteSet(w.loads) /\ IsFiniteSet(w.listings) /\ IsFiniteSet(w.trucks)
      /\ IsFiniteSet(w.matches) /\ IsFiniteSet(w.ratings)
  BY <1>1 DEF FiniteWrites
<1>5. \A r \in w.loads \cup w.listings : r.created <= now
  <2>1. now \in Nat /\ \A b \in loads : b.created <= now
    BY DEF MarketInv, TypeInv, Moment
  <2>2. tx[h].created = now
    BY <1>1 DEF Phased, Commit
  <2> QED BY <1>1, <2>1, <2>2 DEF OwnLoads, OwnListings, Version
<1>6. /\ loads' = Upsert(loads, w.loads) /\ listings' = Upsert(listings, w.listings)
      /\ trucks' = Upsert(trucks, w.trucks) /\ matches' = Upsert(matches, w.matches)
      /\ ratings' = Upsert(ratings, w.ratings) /\ met' = met \cup w.met
      /\ UNCHANGED <<now, begun>>
  BY DEF Commit
<1> HIDE DEF w
<1>7. loads' \in SUBSET LoadRow /\ IsFiniteSet(loads') /\ Unique(loads')
  BY <1>2, <1>3, <1>4, <1>6, UpsertTable DEF MarketInv, TypeInv
<1>8. listings' \in SUBSET ListingRow /\ IsFiniteSet(listings') /\ Unique(listings')
  BY <1>2, <1>3, <1>4, <1>6, UpsertTable DEF MarketInv, TypeInv
<1>9. trucks' \in SUBSET TruckRow /\ IsFiniteSet(trucks') /\ Unique(trucks')
  BY <1>2, <1>3, <1>4, <1>6, UpsertTable DEF MarketInv, TypeInv
<1>10. matches' \in SUBSET MatchRow /\ IsFiniteSet(matches') /\ Unique(matches')
  BY <1>2, <1>3, <1>4, <1>6, UpsertTable DEF MarketInv, TypeInv
<1>11. ratings' \in SUBSET RatingRow /\ IsFiniteSet(ratings') /\ Unique(ratings')
  BY <1>2, <1>3, <1>4, <1>6, UpsertTable DEF MarketInv, TypeInv
<1>12. \A r \in loads' \cup listings' : r.created <= now'
  BY <1>5, <1>6 DEF Upsert, MarketInv, TypeInv
<1>13. met' \in SUBSET (Nat \X Nat) /\ now' \in Moment /\ begun' \in 0..MaxPosts
  BY <1>2, <1>6 DEF MarketInv, TypeInv
<1> QED BY <1>7, <1>8, <1>9, <1>10, <1>11, <1>12, <1>13 DEF TypeInv

LEMMA CommitRows ==
    ASSUME MarketInv, NEW h \in Request, Commit(h)
    PROVE  RowsInv'
<1> DEFINE t == tx[h]
<1>1. /\ t \in Transaction /\ OwnLoads(loads, t) /\ OwnListings(listings, t)
      /\ OwnTrucks(trucks, t) /\ OwnRatings(ratings, t)
      /\ OwnMatches(loads, listings, t) /\ OwnMet(loads, listings, met, t)
  BY DEF MarketInv, RequestInv, Sound
<1>2. t.writes.loads \in SUBSET LoadRow /\ t.writes.matches \in SUBSET MatchRow
  BY <1>1 DEF Transaction, Effects
<1>3. /\ loads \in SUBSET LoadRow /\ listings \in SUBSET ListingRow
      /\ matches \in SUBSET MatchRow /\ Unique(loads)
      /\ NoTwins(loads) /\ OneTruckEach(trucks) /\ OneRatingEach(ratings)
      /\ Matched(loads, listings, matches) /\ AllMet(loads, listings, met)
  BY DEF MarketInv, TypeInv, RowsInv
<1>4. /\ loads' = Upsert(loads, t.writes.loads)
      /\ listings' = Upsert(listings, t.writes.listings)
      /\ trucks' = Upsert(trucks, t.writes.trucks)
      /\ matches' = Upsert(matches, t.writes.matches)
      /\ ratings' = Upsert(ratings, t.writes.ratings) /\ met' = met \cup t.writes.met
  BY DEF Commit
<1> HIDE DEF t
<1>5. NoTwins(loads')
  BY <1>1, <1>2, <1>3, <1>4, CommitTwins
<1>6. OneTruckEach(trucks') /\ OneRatingEach(ratings')
  BY <1>1, <1>3, <1>4, CommitTrucks, CommitRatings
<1>7. Matched(loads', listings', matches')
  BY <1>1, <1>2, <1>3, <1>4, CommitMatches
<1>8. AllMet(loads', listings', met')
  BY <1>1, <1>3, <1>4, CommitMet
<1> QED BY <1>5, <1>6, <1>7, <1>8 DEF RowsInv

LEMMA CommitRequests ==
    ASSUME MarketInv, NEW h \in Request, Commit(h)
    PROVE  RequestInv'
<1>1. /\ pc \in [Request -> Phase] /\ tx \in [Request -> Transaction]
      /\ loads \in SUBSET LoadRow
      /\ \A g \in Request : Sound(now, loads, listings, trucks, ratings, met, pc[g], tx[g])
      /\ \A f, g \in Request : f # g => Apart(pc[f], tx[f], pc[g], tx[g])
  BY DEF MarketInv, RequestInv, TypeInv
<1>2. /\ pc' \in [Request -> Phase] /\ tx' \in [Request -> Transaction]
      /\ pc'[h] = "idle" /\ tx'[h] = NoTx
      /\ \A g \in Request : g # h => pc'[g] = pc[g] /\ tx'[g] = tx[g]
  BY <1>1, NoTxType DEF Commit, Phase
<1>3. Phased(now, "idle", NoTx)
  BY NoTxType, NoTxOwn DEF Phased
<1>4. Sound(now, loads', listings', trucks', ratings', met', "idle", NoTx)
  BY <1>3, NoTxType, NoTxOwn DEF Sound
<1>5. /\ loads' = Upsert(loads, tx[h].writes.loads)
      /\ listings' = Upsert(listings, tx[h].writes.listings)
      /\ trucks' = Upsert(trucks, tx[h].writes.trucks)
      /\ ratings' = Upsert(ratings, tx[h].writes.ratings)
      /\ met' = met \cup tx[h].writes.met /\ now' = now
  BY DEF Commit
<1>6. ASSUME NEW g \in Request
      PROVE  Sound(now, loads, listings, trucks, ratings, met, pc[g], tx[g])'
  <2>1. Sound(now', loads', listings', trucks', ratings', met', pc'[g], tx'[g])
    <3>1. CASE g = h
      BY <1>2, <1>4, <1>5, <3>1
    <3>2. CASE g # h
      <4>1. Sound(now, loads', listings', trucks', ratings', met', pc[g], tx[g])
        BY <1>1, <1>5, <3>2, CommitOthers
      <4> QED BY <1>2, <1>5, <3>2, <4>1
    <3> QED BY <3>1, <3>2
  <2> QED BY <2>1
<1>7. ASSUME NEW f \in Request, NEW g \in Request, f # g
      PROVE  Apart(pc[f], tx[f], pc[g], tx[g])'
  <2>1. NoTx.writes.loads = {} /\ NoTx.writes.listings = {}
    BY NoTxType DEF NoWrites
  <2>2. Apart(pc'[f], tx'[f], pc'[g], tx'[g])
    <3>1. CASE f # h /\ g # h
      BY <1>1, <1>2, <1>7, <3>1
    <3>2. CASE f = h
      BY <1>2, <1>7, <2>1, <3>2 DEF Apart
    <3>3. CASE g = h
      BY <1>2, <1>7, <2>1, <3>3 DEF Apart
    <3> QED BY <3>1, <3>2, <3>3
  <2> QED BY <2>2
<1> QED BY <1>2, <1>6, <1>7 DEF RequestInv

LEMMA CommitPreserves ==
    ASSUME MarketInv, NEW h \in Request, Commit(h)
    PROVE  MarketInv'
<1>1. AskedInv'
  BY DEF Commit, MarketInv, AskedInv
<1> QED BY <1>1, CommitCounts, CommitTypes, CommitRows, CommitRequests DEF MarketInv

\* The invariant is inductive.
LEMMA NextMarket == MarketInv /\ [Next]_vars => MarketInv'
<1> SUFFICES ASSUME MarketInv, [Next]_vars PROVE MarketInv'
  OBVIOUS
<1>1. CASE UNCHANGED vars
  <2>1. TypeInv' /\ RowsInv' /\ AskedInv' /\ RequestInv'
    BY <1>1 DEF vars, MarketInv, TypeInv, RowsInv, AskedInv, RequestInv
  <2>2. Posting' = Posting
    BY <1>1 DEF vars, Posting
  <2>3. CountInv'
    BY <1>1, <2>2 DEF vars, MarketInv, CountInv
  <2> QED BY <2>1, <2>3 DEF MarketInv
<1>2. CASE Next
  BY <1>2, TickPreserves, AskPreserves, ConfirmPreserves, TapRatingPreserves,
     PostLoadPreserves, RepeatTruckPreserves, ClashTruckPreserves, PostTruckPreserves,
     RateTripPreserves, CommitPreserves, FailPreserves
  DEF Next
<1> QED BY <1>1, <1>2

LEMMA MarketAlways == Spec => []MarketInv
  BY InitMarket, NextMarket, PTL DEF Spec

-----------------------------------------------------------------------------
(* The results.                                                            *)

\* Rows and pending rows have their types and ids name rows: every score is
\* within 0..100 (score_match), and labels are cities that are recognised.
THEOREM MarketTypes == Spec => []TypeOK
<1>1. MarketInv => TypeOK
  <2> SUFFICES ASSUME MarketInv PROVE TypeOK
    OBVIOUS
  <2>1. \A h \in Request : tx[h] \in Transaction
    BY DEF MarketInv, RequestInv
  <2>2. \A h \in Request : tx[h].writes \in Effects
    BY <2>1 DEF Transaction
  <2>3. /\ \A r \in loads \cup UNION {tx[h].writes.loads : h \in Request} : r \in LoadRow
        /\ \A r \in listings \cup UNION {tx[h].writes.listings : h \in Request} :
             r \in ListingRow
        /\ \A r \in trucks \cup UNION {tx[h].writes.trucks : h \in Request} : r \in TruckRow
    BY <2>2 DEF MarketInv, TypeInv, Effects
  <2>4. /\ \A r \in matches \cup UNION {tx[h].writes.matches : h \in Request} :
             r \in MatchRow
        /\ \A r \in ratings \cup UNION {tx[h].writes.ratings : h \in Request} :
             r \in RatingRow
    BY <2>2 DEF MarketInv, TypeInv, Effects
  <2>5. \A rows \in {loads, listings, trucks, matches, ratings} :
          \A a, b \in rows : a.id = b.id => a = b
    BY DEF MarketInv, TypeInv, Unique
  <2>6. events \in Counts
    <3>1. /\ IsFiniteSet(loads) /\ IsFiniteSet(listings) /\ begun \in 0..MaxPosts
          /\ MaxPosts \in Nat
      BY MarketplaceAssumption DEF MarketInv, TypeInv
    <3>2. Cardinality(loads) \in Nat /\ Cardinality(listings) \in Nat
      BY <3>1, FS_CardinalityType
    <3>3. Cardinality(Posting) \in Nat
      BY PostingFinite
    <3>4. /\ events \in Tally
          /\ events.loads = events.blockedLoads + Cardinality(loads)
          /\ events.listings = events.blockedListings + Cardinality(listings)
          /\ events.loads + events.listings + Cardinality(Posting) <= begun
      BY DEF MarketInv, CountInv
    <3> QED BY <3>1, <3>2, <3>3, <3>4 DEF Tally, Counts
  <2>7. \A h \in Request : (pc[h] = "idle") <=> (tx[h] = NoTx)
    BY MarketplaceAssumption DEF MarketInv, RequestInv, Sound, Phased, NoTx
  <2>8. \A u \in User : asked[u] # None => asked[u].post \in Offers /\ asked[u].at \in Moment
    BY DEF MarketInv, AskedInv
  <2>9. now \in Moment /\ begun \in 0..MaxPosts /\ met \subseteq Nat \X Nat
    BY DEF MarketInv, TypeInv
  <2>10. pc \in [Request -> {"idle", "begun", "holding", "released"}]
    BY DEF MarketInv, RequestInv, Phase
  <2> QED BY <2>3, <2>4, <2>5, <2>6, <2>7, <2>8, <2>9, <2>10 DEF TypeOK
<1> QED BY <1>1, MarketAlways, PTL

\* However confirmations overlap and fail, one sender never has two loads of
\* one lane and type posted within the duplicate window (_handle_confirm_load
\* looks and inserts under the lock on the sender).
THEOREM NoSenderHasTwins == Spec => []NoTwinLoads
<1>1. MarketInv => NoTwinLoads
  <2> SUFFICES ASSUME MarketInv, NEW a \in loads, NEW b \in loads,
                      a # b, a.owner = b.owner, a.lane = b.lane, a.type = b.type
               PROVE  Distance(a.created, b.created) > DuplicateWindow
    BY DEF NoTwinLoads
  <2>1. ~ Twins(a, b)
    BY DEF MarketInv, RowsInv, NoTwins
  <2>2. a.created \in Nat /\ b.created \in Nat
    BY DEF MarketInv, TypeInv, LoadRow, Moment
  <2> QED BY <2>1, <2>2 DEF Twins, Distance, DuplicateWindow
<1> QED BY <1>1, MarketAlways, PTL

\* An owner has one truck and a trip one rating from each party, without an
\* index on either (_handle_confirm_truck, _handle_rate_trip).
THEOREM OneOfEach == Spec => []OneEach
<1>1. MarketInv => OneEach
  BY DEF MarketInv, RowsInv, OneTruckEach, OneRatingEach, SameTrip, OneEach
<1> QED BY <1>1, MarketAlways, PTL

\* A load is matched exactly when a suggestion for it is on record, and each
\* suggestion names committed posts of two people (rank_matches).
THEOREM MatchedIsRecorded == Spec => []MatchedHasMatch
<1>1. MarketInv => MatchedHasMatch
  BY DEF MarketInv, RowsInv, Matched, MatchedHasMatch
<1> QED BY <1>1, MarketAlways, PTL

\* Posts that suit each other have found each other when the later came, unless
\* the load had been matched before a later truck
\* (find_matches_for_load, find_matches_for_truck_summary).
THEOREM NoPairMissed == Spec => []NothingMissed
<1>1. MarketInv => NothingMissed
  BY DEF MarketInv, RowsInv, AllMet, Meets, NothingMissed
<1> QED BY <1>1, MarketAlways, PTL

\* Of two trucks alike but for the direction the one that drives the load's way
\* is listed first, whatever else is posted (_deterministic_match_sort_key).
THEOREM TheRightWayFirst == Spec => []ForwardFirst
<1>1. MarketInv => ForwardFirst
  <2> SUFFICES ASSUME MarketInv PROVE ForwardFirst
    OBVIOUS
  <2> DEFINE m == [loads |-> loads, listings |-> listings, matches |-> matches]
  <2>1. IsFiniteSet(m.loads) /\ IsFiniteSet(m.listings) /\ IsFiniteSet(m.matches)
    BY DEF MarketInv, TypeInv
  <2>2. Suggested(m)
    BY DEF MarketInv, TypeInv, MatchRow, Suggested
  <2>3. now \in Nat
    BY DEF MarketInv, TypeInv, Moment
  <2>4. \A l \in loads : /\ l.from \in Label /\ l.to \in Label
                         /\ l.date \in Nat /\ l.quantity \in Nat
    BY DEF MarketInv, TypeInv, LoadRow
  <2>5. \A t \in listings : t.from \in Label /\ t.to \in Label
    BY DEF MarketInv, TypeInv, ListingRow
  <2>6. m.listings = listings
    OBVIOUS
  <2> HIDE DEF m
  <2>7. ASSUME NEW l \in loads, NEW a \in listings, NEW b \in listings,
               Along(l, a), ~Along(l, b), a.lane = b.lane,
               a.type = b.type, a.date = b.date, a.quantity = b.quantity,
               a.created = b.created, Rating[a.owner] = Rating[b.owner]
        PROVE  Ahead(Score(m, l, a, Rating[a.owner], now, TRUE),
                     Score(m, l, b, Rating[b.owner], now, TRUE))
    BY <2>1, <2>2, <2>3, <2>4, <2>5, <2>6, <2>7, ForwardAhead
  <2> QED BY <2>7 DEF ForwardFirst, m
<1> QED BY <1>1, MarketAlways, PTL

\* Attempts are active posts and blocked ones, so that no suppression rate of
\* get_liquidity_health_snapshot passes one.
THEOREM AttemptsAddUp == Spec => []AttemptsAccounted
<1>1. MarketInv => AttemptsAccounted
  <2> SUFFICES ASSUME MarketInv PROVE AttemptsAccounted
    OBVIOUS
  <2>1. {l \in loads : l.status \in Waiting} = loads
    BY DEF MarketInv, TypeInv, LoadRow
  <2>2. {t \in listings : t.status \in Open} = listings
    BY DEF MarketInv, TypeInv, ListingRow
  <2>3. IsFiniteSet(loads) /\ IsFiniteSet(listings)
    BY DEF MarketInv, TypeInv
  <2>4. Cardinality(loads) \in Nat /\ Cardinality(listings) \in Nat
    BY <2>3, FS_CardinalityType
  <2>5. /\ Snapshot.loadAttempts = events.loads /\ Snapshot.loadBlocked = events.blockedLoads
        /\ Snapshot.listingAttempts = events.listings
        /\ Snapshot.listingBlocked = events.blockedListings
        /\ Snapshot.activeLoads = Cardinality(loads)
        /\ Snapshot.activeListings = Cardinality(listings)
    BY <2>1, <2>2 DEF Snapshot
  <2> QED BY <2>4, <2>5 DEF AttemptsAccounted, MarketInv, CountInv, Tally
<1> QED BY <1>1, MarketAlways, PTL
=============================================================================
