---------------------------- MODULE Marketplace -----------------------------
(***************************************************************************)
(* Loads, listings and what becomes of them.  A sender who has given the   *)
(* details of a post is asked to confirm it; the confirmation is one       *)
(* transaction that looks for an earlier post of the same lane, inserts    *)
(* the row, looks for what matches it and answers.  Transactions of        *)
(* different senders overlap and see only committed rows; those of one     *)
(* sender queue for the row lock on users.  Ratings are given likewise.    *)
(*                                                                         *)
(* A row is created at the time its transaction begins.  A match is ranked *)
(* as of the time in the sender's session, when the details were given.    *)
(* Errors of the database end a request and undo all of it.                *)
(***************************************************************************)
EXTENDS Ranking

CONSTANTS
    User, Request,
    Offers,      \* what a sender may post
    Rating,      \* users.rating, tenfold, of each user
    Step,        \* minutes the clock advances by
    MaxTime,     \* bound: the clock
    MaxPosts,    \* bound: confirmations begun
    Stars,       \* the buttons of a rating
    MaxRatings,  \* bound: ratings begun
    None

\* A city that is not recognised counts as missing, and what is missing of a
\* post is asked for before it is inserted.
Recognised == {n \in Name : Normalize(n) # Nowhere}

ASSUME MarketplaceAssumption ==
    /\ IsFiniteSet(Request) /\ None \notin User
    /\ \A o \in Offers :
         o \in [kind : {"load", "truck"}, from : Recognised, to : Recognised,
                type : {o.type}, date : Nat, quantity : Nat]
    /\ Rating \in [User -> Nat] /\ Stars \subseteq 1..5
    /\ Step \in Nat \ {0} /\ MaxTime \in Nat /\ MaxPosts \in Nat /\ MaxRatings \in Nat

VARIABLES
    now, loads, listings, trucks, matches, ratings,
    events,     \* event_logs: posts attempted and posts blocked, by kind
    asked,      \* sessions: the post the sender is to confirm, and since when
    pc, tx,     \* requests: where they are, and what they are to commit
    begun,      \* confirmations begun so far
    met         \* history: <<load, listing>> found for one another and emitted

vars == <<now, loads, listings, trucks, matches, ratings, events, asked, pc, tx,
          begun, met>>

DuplicateWindow == 45     \* MARKETPLACE_DUPLICATE_WINDOW_MINUTES
SessionTTL == 30          \* StateMachineService.SESSION_TTL

NoEvents == [loads |-> 0, blockedLoads |-> 0, listings |-> 0, blockedListings |-> 0]
NoWrites == [loads |-> {}, listings |-> {}, trucks |-> {}, matches |-> {},
             ratings |-> {}, events |-> NoEvents, met |-> {}]
NoTx == [user |-> None, post |-> None, created |-> 0, rank |-> 0, writes |-> NoWrites]

Init ==
    /\ now = 0 /\ begun = 0
    /\ loads = {} /\ listings = {} /\ trucks = {} /\ matches = {} /\ ratings = {}
    /\ events = NoEvents
    /\ asked = [u \in User |-> None]
    /\ pc = [h \in Request |-> "idle"]
    /\ tx = [h \in Request |-> NoTx]
    /\ met = {}

\* No request takes as long as a step of the clock.  A session older than its
\* TTL confirms nothing.
Tick ==
    /\ now + Step <= MaxTime /\ \A h \in Request : pc[h] = "idle"
    /\ now' = now + Step
    /\ asked' = [u \in User |-> IF asked[u] # None /\ now' - asked[u].at > SessionTTL
                                THEN None ELSE asked[u]]
    /\ UNCHANGED <<loads, listings, trucks, matches, ratings, events, pc, tx, begun, met>>

\* The sender has given all details; they are in the session with the time.
Ask(u, offer) ==
    /\ begun < MaxPosts
    /\ asked' = [asked EXCEPT ![u] = [post |-> offer, at |-> now]]
    /\ UNCHANGED <<now, loads, listings, trucks, matches, ratings, events, pc, tx,
                   begun, met>>

Start(h, u, post, rank) ==
    /\ pc[h] = "idle"
    /\ pc' = [pc EXCEPT ![h] = "begun"]
    /\ tx' = [tx EXCEPT ![h] = [user |-> u, post |-> post, created |-> now,
                                rank |-> rank, writes |-> NoWrites]]
    /\ UNCHANGED <<now, loads, listings, trucks, matches, ratings, events, asked, met>>

Confirm(h, u) ==
    /\ asked[u] # None /\ begun < MaxPosts /\ begun' = begun + 1
    /\ Start(h, u, asked[u].post, asked[u].at)

\* The button of a trip; the match need not have been agreed.
TapRating(h, u) == \E x \in matches, stars \in Stars :
    /\ Cardinality(ratings)
         + Cardinality({g \in Request : pc[g] # "idle" /\ tx[g].post.kind = "rating"})
         < MaxRatings                                              \* bound
    /\ Start(h, u, [kind |-> "rating", load |-> x.load, listing |-> x.listing,
                    stars |-> stars], now)
    /\ UNCHANGED begun

-----------------------------------------------------------------------------
(* The dispatcher, under the lock on the sender's row.                     *)

\* Mutant: the sender's row is not locked.
LockFreeNever(h) == TRUE

LockFree(h) == \A x \in Request : pc[x] = "holding" => tx[x].user # tx[h].user

Holds(h, p) == pc[h] = "begun" /\ LockFree(h) /\ pc' = [pc EXCEPT ![h] = p]

Writes(h, writes) ==
    /\ tx' = [tx EXCEPT ![h].writes = writes]
    /\ UNCHANGED <<now, loads, listings, trucks, matches, ratings, events, asked,
                   begun, met>>

Unused(ids) == CHOOSE n \in 1..(Cardinality(ids) + 1) : n \notin ids
Ids(rows, field) ==
    {r.id : r \in rows \cup UNION {tx[x].writes[field] : x \in Request}}

PostRow(h, id) ==
    LET post == tx[h].post
        from == CityLabel(post.from)
        to == CityLabel(post.to)
    IN  [id |-> id, owner |-> tx[h].user, from |-> from, to |-> to,
         lane |-> LaneKey(from, to), type |-> post.type, date |-> post.date,
         quantity |-> post.quantity, created |-> tx[h].created, status |-> "open"]

\* Mutant: a matched load is no duplicate.
RecentLoadsOpen(row) ==
    {l \in loads : /\ l.owner = row.owner /\ l.status = "open"
                   /\ l.created >= now - DuplicateWindow
                   /\ l.lane = row.lane /\ l.type = row.type}

RecentLoads(row) ==
    {l \in loads : /\ l.owner = row.owner /\ l.status \in Waiting
                   /\ l.created >= now - DuplicateWindow
                   /\ l.lane = row.lane /\ l.type = row.type}

Taken(row) ==    \* what unique_user_lane_vehicle_open holds
    {t \in listings : /\ t.owner = row.owner /\ t.lane = row.lane
                      /\ t.type = row.type /\ t.status \in Open}
RecentListings(row) == {t \in Taken(row) : t.created >= now - DuplicateWindow}

Fits(load, listing, newer, since) ==
    /\ Distance(load.date, listing.date) <= 2
    /\ load.quantity <= listing.quantity
    /\ newer.created >= since - Freshness
    /\ load.owner # listing.owner

\* Where the load goes is not asked: any truck of those days will do.
TrucksFor(load, rank) ==
    {t \in listings : t.status \in Open /\ Fits(load, t, t, rank)}

LoadsFor(listing, rank) ==
    {l \in loads : /\ l.status = "open" /\ Fits(l, listing, l, rank)
                   /\ InCorridor(l.from, l.to, listing.from, listing.to)}

\* Mutant: a list with suggestions of other routes counts as a result.
MatchCountAny(load, found) ==
    IF found = {} /\ NearbyRoutes(load.from, load.to) # {} THEN 1
    ELSE AtMost(Cardinality(found), 5)

MatchCount(load, found) == AtMost(Cardinality(found), 5)

\* A suggestion is kept for each truck, or its score brought up to date.
Suggestion(h, load, listing, seen) ==
    LET score == Score(seen, load, listing, Rating[listing.owner], tx[h].rank, TRUE).score
        old == {x \in matches : x.load = load.id /\ x.listing = listing.id}
    IN  IF old # {} THEN [(CHOOSE x \in old : TRUE) EXCEPT !.score = score]
        ELSE [id |-> <<load.id, listing.id>>, load |-> load.id, listing |-> listing.id,
              score |-> score, status |-> "suggested", at |-> tx[h].created]

PostLoad(h) ==
    LET row == PostRow(h, Unused(Ids(loads, "loads")))
        again == RecentLoads(row)
    IN  /\ Holds(h, "holding") /\ tx[h].post.kind = "load"
        /\ \E load \in IF again # {} THEN again ELSE {row} :
             LET seen == [loads |-> loads \cup {load}, listings |-> listings,
                          matches |-> matches]
                 found == TrucksFor(load, tx[h].rank)
             IN  Writes(h, [NoWrites EXCEPT
                   !.loads = {IF MatchCount(load, found) > 0
                              THEN [load EXCEPT !.status = "matched"] ELSE load},
                   !.matches = {Suggestion(h, load, t, seen) : t \in found},
                   !.events = [NoEvents EXCEPT !.loads = 1,
                                 !.blockedLoads = IF again # {} THEN 1 ELSE 0],
                   !.met = {<<load.id, t.id>> : t \in found}])

Found(listing, rank) == {<<l.id, listing.id>> : l \in LoadsFor(listing, rank)}

\* An open listing of the lane, inside the window: it is reported again.
RepeatTruck(h) ==
    /\ Holds(h, "holding") /\ tx[h].post.kind = "truck"
    /\ \E t \in RecentListings(PostRow(h, 0)) :
         Writes(h, [NoWrites EXCEPT
           !.met = Found(t, tx[h].rank),
           !.events = [NoEvents EXCEPT !.listings = 1, !.blockedListings = 1]])

\* Mutant: the attempt is written before the insert, and rolled back with it.
ClashEventsEarly == [NoEvents EXCEPT !.blockedListings = 1]

\* What is written after the rollback.
ClashEvents == [NoEvents EXCEPT !.listings = 1, !.blockedListings = 1]

\* An older one: the insert violates the index, the transaction is rolled back
\* with its locks, and goes on with the row that was in the way.
ClashTruck(h) ==
    LET row == PostRow(h, 0)
    IN  /\ Holds(h, "released") /\ tx[h].post.kind = "truck"
        /\ RecentListings(row) = {}
        /\ \E t \in Taken(row) :
             Writes(h, [NoWrites EXCEPT !.met = Found(t, tx[h].rank),
                                        !.events = ClashEvents])

PostTruck(h) ==
    LET row == PostRow(h, Unused(Ids(listings, "listings")))
        own == {k \in trucks : k.owner = tx[h].user}
        kept == IF own # {} THEN {[k EXCEPT !.type = row.type] : k \in own}
                ELSE {[id |-> Unused(Ids(trucks, "trucks")), owner |-> tx[h].user,
                       type |-> row.type]}
    IN  /\ Holds(h, "holding") /\ tx[h].post.kind = "truck"
        /\ Taken(row) = {}
        /\ Writes(h, [NoWrites EXCEPT
             !.listings = {row}, !.trucks = kept, !.met = Found(row, tx[h].rank),
             !.events = [NoEvents EXCEPT !.listings = 1]])

RateTrip(h) ==
    LET trip == tx[h].post
        own == {r \in ratings : /\ r.load = trip.load /\ r.listing = trip.listing
                                /\ r.rater = tx[h].user}
        party == \/ \E l \in loads : l.id = trip.load /\ l.owner = tx[h].user
                 \/ \E t \in listings : t.id = trip.listing /\ t.owner = tx[h].user
        new == [id |-> Unused(Ids(ratings, "ratings")), load |-> trip.load,
                listing |-> trip.listing, rater |-> tx[h].user, stars |-> trip.stars]
    IN  /\ Holds(h, "holding") /\ tx[h].post.kind = "rating"
        /\ Writes(h, [NoWrites EXCEPT !.ratings =
             IF ~party THEN {}
             ELSE IF own # {} THEN {[r EXCEPT !.stars = trip.stars] : r \in own}
             ELSE {new}])

-----------------------------------------------------------------------------
(* The end of the request.                                                 *)

Upsert(rows, new) == {r \in rows : \A n \in new : n.id # r.id} \cup new

\* The session is cleared in the same transaction.
Commit(h) ==
    LET w == tx[h].writes
    IN  /\ pc[h] \in {"holding", "released"}
        /\ loads' = Upsert(loads, w.loads)
        /\ listings' = Upsert(listings, w.listings)
        /\ trucks' = Upsert(trucks, w.trucks)
        /\ matches' = Upsert(matches, w.matches)
        /\ ratings' = Upsert(ratings, w.ratings)
        /\ events' = [k \in DOMAIN events |-> events[k] + w.events[k]]
        /\ met' = met \cup w.met
        /\ asked' = [asked EXCEPT ![tx[h].user] = None]
        /\ pc' = [pc EXCEPT ![h] = "idle"]
        /\ tx' = [tx EXCEPT ![h] = NoTx]
        /\ UNCHANGED <<now, begun>>

\* An exception, or the death of the process.
Fail(h) ==
    /\ pc[h] # "idle"
    /\ pc' = [pc EXCEPT ![h] = "idle"]
    /\ tx' = [tx EXCEPT ![h] = NoTx]
    /\ UNCHANGED <<now, loads, listings, trucks, matches, ratings, events, asked,
                   begun, met>>

Next ==
    \/ Tick
    \/ \E u \in User, offer \in Offers : Ask(u, offer)
    \/ \E h \in Request :
         \/ \E u \in User : Confirm(h, u) \/ TapRating(h, u)
         \/ PostLoad(h) \/ RepeatTruck(h) \/ ClashTruck(h) \/ PostTruck(h) \/ RateTrip(h)
         \/ Commit(h) \/ Fail(h)

Spec == Init /\ [][Next]_vars

-----------------------------------------------------------------------------
(* Properties.                                                             *)

Moment == {m \in 0..MaxTime : \E k \in 0..MaxTime : m = k * Step}
\* A city as a post keeps it: looked up again, it has settled.
Label == {n \in Name : Normalize(n) # Nowhere /\ Normalize(Normalize(n)) = Normalize(n)}
LoadRow == [id : Nat, owner : User, from : Label, to : Label, lane : SUBSET Name,
            type : {o.type : o \in Offers}, date : Nat, quantity : Nat,
            created : Moment, status : Waiting]
ListingRow == [id : Nat, owner : User, from : Label, to : Label, lane : SUBSET Name,
               type : {o.type : o \in Offers}, date : Nat, quantity : Nat,
               created : Moment, status : Open]
TruckRow == [id : Nat, owner : User, type : {o.type : o \in Offers}]
MatchRow == [id : Nat \X Nat, load : Nat, listing : Nat, score : 0..100,
             status : {"suggested"}, at : Moment]
RatingRow == [id : Nat, load : Nat, listing : Nat, rater : User, stars : 1..5]
Counts == [loads : 0..MaxPosts, blockedLoads : 0..MaxPosts,
           listings : 0..MaxPosts, blockedListings : 0..MaxPosts]

\* Types of the rows and of what the requests are about to write; ids name rows.
TypeOK ==
    /\ now \in Moment /\ begun \in 0..MaxPosts
    /\ \A r \in loads \cup UNION {tx[h].writes.loads : h \in Request} : r \in LoadRow
    /\ \A r \in listings \cup UNION {tx[h].writes.listings : h \in Request} :
         r \in ListingRow
    /\ \A r \in trucks \cup UNION {tx[h].writes.trucks : h \in Request} : r \in TruckRow
    /\ \A r \in matches \cup UNION {tx[h].writes.matches : h \in Request} :
         r \in MatchRow
    /\ \A r \in ratings \cup UNION {tx[h].writes.ratings : h \in Request} :
         r \in RatingRow
    /\ \A rows \in {loads, listings, trucks, matches, ratings} :
         \A a, b \in rows : a.id = b.id => a = b
    /\ events \in Counts
    /\ pc \in [Request -> {"idle", "begun", "holding", "released"}]
    /\ \A h \in Request : (pc[h] = "idle") <=> (tx[h] = NoTx)
    /\ \A u \in User : asked[u] # None =>
         asked[u].post \in Offers /\ asked[u].at \in Moment
    /\ met \subseteq Nat \X Nat

\* One sender never has two loads waiting on the same lane, for the same type
\* of vehicle, that were posted within the duplicate window of each other.
\* load_freshness_service looks before it inserts, and no index backs it.
NoTwinLoads ==
    \A a, b \in loads :
        a # b /\ a.owner = b.owner /\ a.lane = b.lane /\ a.type = b.type
          => Distance(a.created, b.created) > DuplicateWindow

\* An owner has one truck, and a trip one rating from each of its parties:
\* both are looked for and then inserted, and neither has an index.
OneEach ==
    /\ \A a, b \in trucks : a.owner = b.owner => a = b
    /\ \A a, b \in ratings :
         a.load = b.load /\ a.listing = b.listing /\ a.rater = b.rater => a = b

\* A load is hidden from later trucks (its status is no longer open) exactly
\* when a suggestion for it is on record, and a suggestion names two committed
\* posts of different people: rank_matches and the status of _handle_confirm_load.
MatchedHasMatch ==
    /\ \A l \in loads :
         (l.status = "matched") <=> \E x \in matches : x.load = l.id
    /\ \A x \in matches : \E l \in loads, t \in listings :
         l.id = x.load /\ t.id = x.listing /\ l.owner # t.owner

\* The truck passes the pickup and then the drop, whichever way its route is
\* written down.
Along(l, t) ==
    \/ Normalize(l.from) = Normalize(t.from) /\ Normalize(l.to) = Normalize(t.to)
    \/ \E r \in DOMAIN Corridors : \E i, j \in DOMAIN Corridors[r] :
         /\ Corridors[r][i] = Normalize(l.from) /\ Corridors[r][j] = Normalize(l.to)
         /\ \/ i < j /\ r = <<Normalize(t.from), Normalize(t.to)>>
            \/ j < i /\ r = <<Normalize(t.to), Normalize(t.from)>>

\* A load and a truck that suit each other, posted by different people within
\* an hour of each other and not at the same time, have found each other when
\* the later was posted; unless the later is the truck and the load had been
\* matched already.
NothingMissed ==
    \A l \in loads, t \in listings :
        /\ Along(l, t) /\ l.owner # t.owner
        /\ Distance(l.date, t.date) <= 2 /\ l.quantity <= t.quantity
        /\ l.created # t.created /\ Distance(l.created, t.created) <= Freshness
        /\ t.created > l.created => l.status = "open"
        => <<l.id, t.id>> \in met

\* Both directions of a lane have one key.  Of two trucks alike in everything
\* but the direction, the one that drives the load's way is listed first,
\* even where both scores reach the cap.
ForwardFirst ==
    LET m == [loads |-> loads, listings |-> listings, matches |-> matches]
    IN  \A l \in loads, a, b \in listings :
          /\ Along(l, a) /\ ~Along(l, b) /\ a.lane = b.lane
          /\ a.type = b.type /\ a.date = b.date /\ a.quantity = b.quantity
          /\ a.created = b.created /\ Rating[a.owner] = Rating[b.owner]
          => Ahead(Score(m, l, a, Rating[a.owner], now, TRUE),
                   Score(m, l, b, Rating[b.owner], now, TRUE))

\* What get_liquidity_health_snapshot counts; its rates divide these numbers.
Snapshot ==
    LET offered == {t \in listings : t.status \in Open}
        waiting == {l \in loads : l.status \in Waiting}
    IN  [activeListings |-> Cardinality(offered), activeLoads |-> Cardinality(waiting),
         lanes |-> Cardinality({r.lane : r \in offered \cup waiting} \ {{}}),
         segments |-> Cardinality({r.type : r \in offered \cup waiting} \ {NoType}),
         loadAttempts |-> events.loads, loadBlocked |-> events.blockedLoads,
         listingAttempts |-> events.listings, listingBlocked |-> events.blockedListings]

\* The snapshot adds up: every confirmation it counts as attempted has left an
\* active row or is counted as blocked, so that no suppression rate passes one.
AttemptsAccounted ==
    /\ Snapshot.loadAttempts = Snapshot.activeLoads + Snapshot.loadBlocked
    /\ Snapshot.listingAttempts = Snapshot.activeListings + Snapshot.listingBlocked
=============================================================================
