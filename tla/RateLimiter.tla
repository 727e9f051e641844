----------------------------- MODULE RateLimiter -----------------------------
(***************************************************************************)
(* Which texts of a sender are let through.  Redis counts them for all     *)
(* workers, in windows that begin with a text; when it fails the database  *)
(* counts.  Each worker also remembers what it has seen itself: when, the  *)
(* last text, and how often that was repeated.  A refused text is told so, *)
(* and one the counters refuse is not remembered.  INVALID_INPUTS are      *)
(* refused before anything is counted or remembered, and are left out.     *)
(***************************************************************************)
EXTENDS Integers, Sequences, FiniteSets

CONSTANTS
    Worker, Sender, Text,
    Long,          \* texts of more than four characters
    Blank,         \* texts of nothing but spaces
    RateMax, Window,        \* 20 texts in 60 seconds; Window in ticks of the clock
    BurstMax, BurstWindow,  \* 5 texts in 10 seconds
    MaxTime, MaxTexts, MaxOutages, MaxRestarts,   \* bounds
    Nothing

ASSUME RateLimiterAssumption ==
    /\ Long \cup Blank \subseteq Text /\ Blank \cap Long = {}
    /\ Nothing \notin Text \cup Worker /\ Nothing \notin [count : Nat, since : Nat]
    /\ {RateMax, Window, BurstMax, BurstWindow} \subseteq Nat \ {0}
    /\ {MaxTime, MaxTexts, MaxOutages, MaxRestarts} \subseteq Nat

VARIABLES
    clock,
    counter,     \* Redis: texts counted, and since when, or Nothing
    mute,        \* senders whose counter in Redis never expires
    activity,    \* table user_activity: as counter
    seen,        \* _user_message_history of each worker
    outages, restarts,    \* calls to Redis that failed, workers started again
    arrived, passed,      \* history: when texts were counted, when let through
    heard        \* history: what a worker compared, and whether it let it through

rate == <<clock, counter, mute, activity, seen, outages, restarts,
          arrived, passed, heard>>

NoHistory == [times |-> <<>>, last |-> Nothing, repeats |-> 0]

RateInit ==
    /\ clock = 0 /\ outages = 0 /\ restarts = 0 /\ mute = {}
    /\ counter = [u \in Sender |-> Nothing]
    /\ activity = [u \in Sender |-> Nothing]
    /\ seen = [w \in Worker |-> [u \in Sender |-> NoHistory]]
    /\ arrived = [u \in Sender |-> <<>>]
    /\ passed = arrived
    /\ heard = [w \in Worker |-> [u \in Sender |-> <<>>]]

\* The keys of Redis expire.
RateTick ==
    /\ clock < MaxTime /\ clock' = clock + 1
    /\ counter' = [u \in Sender |->
         IF counter[u] # Nothing /\ u \notin mute /\ clock' - counter[u].since >= Window
         THEN Nothing ELSE counter[u]]
    /\ UNCHANGED <<mute, activity, seen, outages, restarts, arrived, passed, heard>>

\* A worker starts again with no memory.
Restart(w) ==
    /\ restarts < MaxRestarts /\ restarts' = restarts + 1
    /\ seen' = [seen EXCEPT ![w] = [u \in Sender |-> NoHistory]]
    /\ heard' = [heard EXCEPT ![w] = [u \in Sender |-> <<>>]]
    /\ UNCHANGED <<clock, counter, mute, activity, outages, arrived, passed>>

Started == [count |-> 1, since |-> clock]

\* Mutant: every text begins the window again.
NextSliding(c) ==
    IF c = Nothing THEN Started ELSE [count |-> c.count + 1, since |-> clock]

NextCount(c) == IF c = Nothing THEN Started ELSE [c EXCEPT !.count = @ + 1]

\* Mutant: one text more in each window.
WithinMore(c) == c.count <= RateMax + 1

Within(c) == c.count <= RateMax

Repeats(h, t) == t = h.last /\ t \in Long

\* Without the texts longer ago than a burst; they are remembered in order.
Recent(times) ==
    LET old == {i \in DOMAIN times : clock - times[i] > BurstWindow}
    IN  SubSeq(times, Cardinality(old) + 1, Len(times))

\* Mutant: a repetition does not count when the text before was one too.
RememberedOnce(h, t) ==
    IF Repeats(h, t)
    THEN [h EXCEPT !.times = Append(@, clock), !.repeats = 1]
    ELSE [times |-> Append(Recent(h.times), clock),
          last |-> t, repeats |-> 0]

\* Mutant: a text is remembered without its time.
RememberedNever(h, t) ==
    [times |-> h.times, last |-> t, repeats |-> IF Repeats(h, t) THEN h.repeats + 1 ELSE 0]

Remembered(h, t) ==
    IF Repeats(h, t)
    THEN [h EXCEPT !.times = Append(@, clock), !.repeats = @ + 1]
    ELSE [times |-> Append(Recent(h.times), clock),
          last |-> t, repeats |-> 0]

\* A repetition is judged by their number only, another text by the pace.
Tolerated(h, t) ==
    IF Repeats(h, t) THEN Remembered(h, t).repeats < 2
    ELSE Len(Remembered(h, t).times) <= BurstMax

Receives(u) ==
    /\ Len(arrived[u]) < MaxTexts
    /\ arrived' = [arrived EXCEPT ![u] = Append(@, clock)]

Passes(u, ok) == passed' = IF ok THEN [passed EXCEPT ![u] = Append(@, clock)] ELSE passed

\* What follows the count.
Judge(w, u, t, counted) ==
    \/ /\ ~Within(counted)
       /\ UNCHANGED <<seen, heard, passed>>
    \/ /\ Within(counted) /\ t \in Blank
       /\ Passes(u, TRUE) /\ UNCHANGED <<seen, heard>>
    \/ /\ Within(counted) /\ t \notin Blank
       /\ LET ok == Tolerated(seen[w][u], t) IN
          /\ Passes(u, ok)
          /\ heard' = [heard EXCEPT ![w][u] = Append(@, [text |-> t, at |-> clock, ok |-> ok])]
       /\ seen' = [seen EXCEPT ![w][u] = Remembered(@, t)]

CheckRedis(w, u, t) ==
    /\ Receives(u)
    /\ counter' = [counter EXCEPT ![u] = NextCount(@)]
    /\ Judge(w, u, t, counter'[u])
    /\ UNCHANGED <<clock, mute, activity, outages, restarts>>

Outage == outages < MaxOutages /\ outages' = outages + 1

\* Redis fails before the count, or after the first one and before EXPIRE.
RedisFails(u) ==
    /\ Outage
    /\ \/ UNCHANGED <<counter, mute>>
       \/ /\ counter[u] = Nothing
          /\ counter' = [counter EXCEPT ![u] = Started] /\ mute' = mute \cup {u}

\* The row is read and written without a lock, and stays only if the request
\* commits: of two requests at once one may not count.  Its window is longer
\* than that of Redis by the instant at its end.
CheckDatabase(w, u, t) ==
    /\ Receives(u) /\ RedisFails(u)
    /\ LET old == activity[u]
           row == IF old # Nothing /\ clock - old.since > Window THEN Nothing ELSE old
           counted == NextCount(row)
       IN  /\ activity' \in {activity, [activity EXCEPT ![u] = counted]}
           /\ Judge(w, u, t, counted)
    /\ UNCHANGED <<clock, restarts>>

\* An error of the database too lets the text through the count.
CheckFails(w, u, t) ==
    /\ Receives(u) /\ RedisFails(u)
    /\ Judge(w, u, t, Started)
    /\ UNCHANGED <<clock, activity, restarts>>

RateNext ==
    \/ RateTick
    \/ \E w \in Worker : Restart(w)
    \/ \E w \in Worker, u \in Sender, t \in Text :
         \/ CheckRedis(w, u, t) \/ CheckDatabase(w, u, t) \/ CheckFails(w, u, t)

-----------------------------------------------------------------------------
(* Properties.                                                             *)

Count == [count : 1..MaxTexts, since : 0..MaxTime]

RateTypeOK ==
    /\ clock \in 0..MaxTime /\ outages \in 0..MaxOutages /\ restarts \in 0..MaxRestarts
    /\ counter \in [Sender -> Count \cup {Nothing}]
    /\ activity \in [Sender -> Count \cup {Nothing}]
    /\ mute \subseteq {u \in Sender : counter[u] # Nothing}
    /\ \A w \in Worker, u \in Sender :
         /\ seen[w][u].last \in Text \cup {Nothing} /\ seen[w][u].repeats \in Nat
         /\ seen[w][u].times = <<>> <=> seen[w][u] = NoHistory
         /\ \A i \in DOMAIN seen[w][u].times : seen[w][u].times[i] <= clock
    /\ \A u \in Sender : Len(passed[u]) <= Len(arrived[u]) /\ Len(arrived[u]) <= MaxTexts
    /\ \A w \in Worker, u \in Sender : Len(heard[w][u]) <= Len(arrived[u])

\* How many texts of a history came in some stretch of time.
CameIn(history, stretch) == Cardinality({i \in DOMAIN history : history[i] \in stretch})

\* The windows of is_rate_limited are fixed, whatever its comment says: in any
\* stretch as long as a window a sender gets through nearly twice the limit,
\* from all workers together, and one more for each call that failed; and no
\* more than that.
AtMostTwice ==
    \A u \in Sender, s \in 0..clock :
        CameIn(passed[u], s..(s + Window - 1)) <= 2 * RateMax - 1 + outages

\* The count refuses no text of a sender who sent fewer than RateMax others in
\* the window before it, unless Redis failed between INCR and EXPIRE: that
\* counter mutes the sender for good (is_rate_limited, INCR and EXPIRE).  A
\* text the count allows is passed on or compared.
PausedIsCounted ==
    [][\A u \in Sender :
         /\ arrived'[u] # arrived[u] /\ passed'[u] = passed[u] /\ heard' = heard
         => \/ u \in mute'
            \/ CameIn(arrived[u], (clock - Window)..clock) >= RateMax]_rate

\* A worker lets a long text through at most twice in a row: of three times the
\* last comes after another text.  Each worker counts for itself.
RepeatsStopped ==
    \A w \in Worker, u \in Sender : \A i \in 3..Len(heard[w][u]) :
        LET h == heard[w][u] IN
        /\ h[i].text \in Long
        /\ h[i].text = h[i - 1].text /\ h[i].text = h[i - 2].text
        => ~h[i].ok

\* A worker lets through no text that is not a repetition when it has had
\* BurstMax others in the time of a burst.
BurstsStopped ==
    \A w \in Worker, u \in Sender : \A i \in DOMAIN heard[w][u] :
        LET h == heard[w][u] IN
        /\ h[i].ok
        /\ Cardinality({j \in 1..(i - 1) : h[i].at - h[j].at <= BurstWindow}) >= BurstMax
        => h[i].text \in Long /\ h[i].text = h[i - 1].text
=============================================================================
