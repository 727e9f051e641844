---------------------------- MODULE IntakeProofs -----------------------------
(***************************************************************************)
(* What meets a message on its way in, for every number of workers,        *)
(* senders, texts and calls, and every limit: how many texts a sender gets *)
(* through, and what the parts of the way in remember.                     *)
(***************************************************************************)
EXTENDS MCIntake, KycReviewProofs, FiniteSetTheorems, SequenceTheorems, TLAPS

-----------------------------------------------------------------------------
(* Counting.                                                               *)

\* How many of the times are not before s.
Since(times, s) == Cardinality({i \in DOMAIN times : times[i] >= s})

LEMMA CardNat ==
    ASSUME NEW S, IsFiniteSet(S)
    PROVE  Cardinality(S) \in Nat
  BY FS_CardinalityType

LEMMA FirstNumbers ==
    ASSUME NEW n \in Nat
    PROVE  IsFiniteSet(1..n) /\ Cardinality(1..n) = n
<1>1. 1 \in Int /\ n \in Int
  OBVIOUS
<1>2. IsFiniteSet(1..n) /\ Cardinality(1..n) = IF 1 > n THEN 0 ELSE n - 1 + 1
  BY <1>1, FS_Interval
<1> QED BY <1>2

\* The places of a sequence that hold something are finitely many.
LEMMA PlacesFinite ==
    ASSUME NEW S, NEW q \in Seq(S), NEW P \in SUBSET DOMAIN q
    PROVE  IsFiniteSet(P) /\ Cardinality(P) \in Nat /\ Cardinality(P) <= Len(q)
<1>1. Len(q) \in Nat /\ DOMAIN q = 1..Len(q)
  OBVIOUS
<1>2. IsFiniteSet(1..Len(q)) /\ Cardinality(1..Len(q)) = Len(q)
  BY <1>1, FirstNumbers
<1>3. IsFiniteSet(P) /\ Cardinality(P) <= Len(q)
  BY <1>1, <1>2, FS_Subset
<1> QED BY <1>3, CardNat

LEMMA AppendPlaces ==
    ASSUME NEW q \in Seq(Nat), NEW n \in Nat
    PROVE  /\ Append(q, n) \in Seq(Nat) /\ Len(Append(q, n)) = Len(q) + 1
           /\ DOMAIN Append(q, n) = DOMAIN q \cup {Len(q) + 1}
           /\ Len(q) + 1 \notin DOMAIN q /\ Append(q, n)[Len(q) + 1] = n
           /\ \A i \in DOMAIN q : Append(q, n)[i] = q[i]
  OBVIOUS

LEMMA SinceAppend ==
    ASSUME NEW q \in Seq(Nat), NEW n \in Nat, NEW s \in Nat
    PROVE  /\ Since(q, s) \in Nat
           /\ n >= s => Since(Append(q, n), s) = Since(q, s) + 1
           /\ n < s => Since(Append(q, n), s) = Since(q, s)
<1> DEFINE r == Append(q, n)
           Q == {i \in DOMAIN q : q[i] >= s}
           R == {i \in DOMAIN r : r[i] >= s}
<1>1. IsFiniteSet(Q) /\ Cardinality(Q) \in Nat
  BY PlacesFinite
<1>2. Len(q) + 1 \notin Q
  BY AppendPlaces
<1>3. ASSUME n >= s PROVE R = Q \cup {Len(q) + 1}
  BY <1>3, AppendPlaces
<1>4. ASSUME n < s PROVE R = Q
  BY <1>4, AppendPlaces
<1>5. Since(q, s) = Cardinality(Q) /\ Since(r, s) = Cardinality(R)
  BY DEF Since
<1> HIDE DEF Q, R
<1>6. Cardinality(Q \cup {Len(q) + 1}) = Cardinality(Q) + 1
  BY <1>1, <1>2, FS_AddElement
<1> QED BY <1>1, <1>3, <1>4, <1>5, <1>6

\* A later time is not in a stretch that ended before it.
LEMMA CameInAppend ==
    ASSUME NEW q \in Seq(Nat), NEW n \in Nat, NEW s \in Nat, NEW e \in Int, e < n
    PROVE  CameIn(Append(q, n), s..e) = CameIn(q, s..e)
<1> DEFINE r == Append(q, n)
<1>1. {i \in DOMAIN r : r[i] \in s..e} = {i \in DOMAIN q : q[i] \in s..e}
  BY AppendPlaces
<1> QED BY <1>1 DEF CameIn

\* In a stretch that has not ended came what came since its beginning.
LEMMA CameInSince ==
    ASSUME NEW q \in Seq(Nat), NEW now \in Nat, \A i \in DOMAIN q : q[i] <= now,
           NEW s \in Nat, NEW e \in Int, e >= now
    PROVE  CameIn(q, s..e) = Since(q, s)
<1>1. {i \in DOMAIN q : q[i] \in s..e} = {i \in DOMAIN q : q[i] >= s}
  OBVIOUS
<1> QED BY <1>1 DEF CameIn, Since

\* A set of numbers from 1 on, without gaps.
LEMMA Gapless ==
    ASSUME NEW n \in Nat, NEW S \in SUBSET (1..n),
           \A i \in S : \A j \in 1..i : j \in S
    PROVE  Cardinality(S) \in 0..n /\ S = 1..Cardinality(S)
<1> DEFINE c == Cardinality(S)
<1>1. IsFiniteSet(1..n) /\ Cardinality(1..n) = n
  BY FirstNumbers
<1>2. IsFiniteSet(S) /\ c \in Nat /\ c <= n
  BY <1>1, FS_Subset, CardNat
<1>3. ASSUME NEW i \in S PROVE i <= c
  <2>1. 1..i \subseteq S /\ i \in Nat
    BY <1>3
  <2>2. Cardinality(1..i) = i
    BY <2>1, FirstNumbers
  <2>3. Cardinality(1..i) <= c
    BY <1>2, <2>1, FS_Subset
  <2> QED BY <2>2, <2>3
<1>4. ASSUME NEW i \in 1..c, i \notin S PROVE FALSE
  <2>1. S \subseteq 1..(i - 1)
    BY <1>3, <1>4
  <2>2. IsFiniteSet(1..(i - 1)) /\ Cardinality(1..(i - 1)) = i - 1
    <3>1. i - 1 \in Nat
      BY <1>2, <1>4
    <3> QED BY <3>1, FirstNumbers
  <2>3. c <= i - 1
    BY <2>1, <2>2, FS_Subset
  <2> QED BY <1>2, <1>4, <2>3
<1>5. S \subseteq 1..c
  BY <1>2, <1>3
<1>6. 1..c \subseteq S
  BY <1>4
<1>7. c \in 0..n
  BY <1>2
<1> QED BY <1>5, <1>6, <1>7

-----------------------------------------------------------------------------
(* What a sender gets through, and what the counters count.                *)

Counter == [count : Nat \ {0}, since : Nat]

\* Times in order of arrival, none of them to come.
Until(times, now) == times \in Seq(Nat) /\ \A i \in DOMAIN times : times[i] <= now

\* The texts the counter c has let through that came at s or later; the first of
\* its window came when the window began.
Through(c) == IF c.count <= RateMax THEN c.count ELSE RateMax

Allowed(c, s) ==
    IF c = Nothing THEN RateMax - 1
    ELSE IF s > c.since THEN Through(c) - 1 ELSE RateMax - 1 + Through(c)

\* AtMostTwice, and what it rests on: in a stretch that has not ended came no
\* more than the counter has let through, and what the window before it did.
Pace(times, c, now, out) ==
    /\ Until(times, now)
    /\ \A s \in 0..now : CameIn(times, s..(s + Window - 1)) <= 2 * RateMax - 1 + out
    /\ \A s \in 0..now : s + Window > now => Since(times, s) <= Allowed(c, s) + out

\* A counter counts texts that came since its window began.
Counts(c, times, now) ==
    c # Nothing => c.since <= now /\ c.count <= Since(times, c.since)

LEMMA SinceNat ==
    ASSUME NEW q \in Seq(Nat), NEW s \in Nat
    PROVE  Since(q, s) \in Nat /\ Since(q, s) <= Len(q)
  BY PlacesFinite DEF Since

LEMMA AllowedBound ==
    ASSUME NEW c \in Counter \cup {Nothing}, NEW s \in Nat
    PROVE  /\ Allowed(c, s) \in Nat /\ Allowed(c, s) <= 2 * RateMax - 1
           /\ s > c.since => Allowed(c, s) <= RateMax - 1
  BY RateLimiterAssumption DEF Allowed, Through, Counter

LEMMA CountsSilence ==
    ASSUME NEW c, NEW q, NEW n \in Nat, Counts(c, q, n), c # Nothing => c.since \in Nat
    PROVE  Counts(c, q, n + 1)
  BY DEF Counts

LEMMA CountsNext ==
    ASSUME NEW c \in Counter \cup {Nothing}, NEW q \in Seq(Nat), Counts(c, q, clock),
           clock \in Nat
    PROVE  /\ NextCount(c) \in Counter /\ NextCount(c) # Nothing
           /\ Counts(NextCount(c), Append(q, clock), clock)
           /\ Counts(c, Append(q, clock), clock)
<1> USE RateLimiterAssumption DEF Counter, Counts
<1>1. CASE c = Nothing
  <2>1. NextCount(c) = [count |-> 1, since |-> clock]
    BY <1>1 DEF NextCount, Started
  <2>2. Since(Append(q, clock), clock) = Since(q, clock) + 1 /\ Since(q, clock) \in Nat
    <3>1. clock >= clock
      OBVIOUS
    <3> QED BY <3>1, SinceAppend
  <2> QED BY <1>1, <2>1, <2>2
<1>2. CASE c # Nothing
  <2>1. NextCount(c) = [count |-> c.count + 1, since |-> c.since]
    BY <1>2 DEF NextCount
  <2>2. /\ Since(Append(q, clock), c.since) = Since(q, c.since) + 1
        /\ Since(q, c.since) \in Nat
    BY <1>2, SinceAppend
  <2> QED BY <1>2, <2>1, <2>2
<1> QED BY <1>1, <1>2

\* Time passes; the counter stays, or its window has ended.
LEMMA PaceSilence ==
    ASSUME NEW q, NEW c \in Counter \cup {Nothing}, NEW d \in {c, Nothing}, NEW n \in Nat,
           NEW out \in Nat, Pace(q, c, n, out),
           d # c => (n + 1) - c.since >= Window
    PROVE  Pace(q, d, n + 1, out)
<1> USE RateLimiterAssumption
<1>1. q \in Seq(Nat) /\ \A i \in DOMAIN q : q[i] <= n
  BY DEF Pace, Until
<1>2. Until(q, n + 1)
  BY <1>1 DEF Until
<1>3. Since(q, n + 1) = 0
  <2>1. {i \in DOMAIN q : q[i] >= n + 1} = {}
    BY <1>1
  <2> QED BY <2>1, FS_EmptySet DEF Since
<1>4. ASSUME NEW s \in 0..(n + 1), s + Window > n + 1
      PROVE  Since(q, s) <= Allowed(d, s) + out
  <2>1. Allowed(d, s) \in Nat
    BY AllowedBound
  <2>2. CASE s = n + 1
    BY <1>3, <2>1, <2>2
  <2>3. CASE s # n + 1
    <3>1. Since(q, s) <= Allowed(c, s) + out
      BY <1>4, <2>3 DEF Pace
    <3>2. CASE d = c
      BY <3>1, <3>2
    <3>3. CASE d # c
      <4>1. c \in Counter /\ d = Nothing
        BY <3>3
      <4>2. s > c.since
        BY <1>4, <3>3, <4>1 DEF Counter
      <4>3. Allowed(c, s) <= RateMax - 1 /\ Allowed(d, s) = RateMax - 1
        BY <4>1, <4>2, AllowedBound DEF Allowed
      <4>4. Since(q, s) \in Nat /\ Allowed(c, s) \in Nat
        <5>1. s \in Nat
          OBVIOUS
        <5> QED BY <1>1, <5>1, SinceNat, AllowedBound
      <4> QED BY <3>1, <4>3, <4>4
    <3> QED BY <3>2, <3>3
  <2> QED BY <2>2, <2>3
<1>5. ASSUME NEW s \in 0..(n + 1)
      PROVE  CameIn(q, s..(s + Window - 1)) <= 2 * RateMax - 1 + out
  <2>1. CASE s = n + 1
    <3>1. CameIn(q, s..(s + Window - 1)) = Since(q, s)
      <4> DEFINE e == s + Window - 1
      <4>1. e \in Int /\ e >= n /\ s \in Nat
        BY <2>1
      <4> HIDE DEF e
      <4>2. \A i \in DOMAIN q : q[i] <= n + 1
        BY <1>2 DEF Until
      <4>3. e >= n + 1
        BY <2>1 DEF e
      <4>4. n + 1 \in Nat /\ q \in Seq(Nat)
        BY <1>1
      <4>5. CameIn(q, s..e) = Since(q, s)
        BY <4>1, <4>2, <4>3, <4>4, CameInSince
      <4> QED BY <4>5 DEF e
    <3> QED BY <1>3, <2>1, <3>1
  <2>2. CASE s # n + 1
    BY <2>2 DEF Pace
  <2> QED BY <2>1, <2>2
<1> QED BY <1>2, <1>4, <1>5 DEF Pace

\* A text comes; the counter or a failure allows for it.
LEMMA PaceText ==
    ASSUME NEW q, NEW c \in Counter \cup {Nothing}, NEW d \in Counter \cup {Nothing},
           NEW n \in Nat, NEW out \in Nat, NEW more \in Nat, Pace(q, c, n, out),
           NEW r, NEW k \in Nat, (k = 0 /\ r = q) \/ (k = 1 /\ r = Append(q, n)),
           more >= out,
           \A s \in 0..n : Allowed(c, s) + out + k <= Allowed(d, s) + more
    PROVE  Pace(r, d, n, more)
<1> USE RateLimiterAssumption
<1>1. q \in Seq(Nat) /\ \A i \in DOMAIN q : q[i] <= n
  BY DEF Pace, Until
<1>2. ASSUME NEW s \in 0..n
      PROVE  /\ Since(r, s) = Since(q, s) + k /\ Since(q, s) \in Nat
             /\ Allowed(c, s) \in Nat /\ Allowed(d, s) \in Nat
             /\ Allowed(d, s) <= 2 * RateMax - 1
  <2>1. s \in Nat /\ n >= s
    OBVIOUS
  <2>2. /\ Since(q, s) \in Nat
        /\ Since(Append(q, n), s) = Since(q, s) + 1
    BY <1>1, <2>1, SinceAppend
  <2>3. Since(r, s) = Since(q, s) + k
    <3>1. CASE k = 0 /\ r = q
      BY <2>2, <3>1
    <3>2. CASE k = 1 /\ r = Append(q, n)
      BY <2>2, <3>2
    <3> QED BY <3>1, <3>2
  <2> QED BY <2>1, <2>2, <2>3, AllowedBound
<1>3. Until(r, n)
  <2>1. CASE r = Append(q, n)
    BY <1>1, <2>1, AppendPlaces DEF Until
  <2> QED BY <1>1, <2>1 DEF Until
<1>4. ASSUME NEW s \in 0..n, s + Window > n
      PROVE  Since(r, s) <= Allowed(d, s) + more
  <2>1. Since(q, s) <= Allowed(c, s) + out
    BY <1>4 DEF Pace
  <2>2. Allowed(c, s) + out + k <= Allowed(d, s) + more
    OBVIOUS
  <2>3. /\ Since(r, s) = Since(q, s) + k /\ Since(q, s) \in Nat
        /\ Allowed(c, s) \in Nat /\ Allowed(d, s) \in Nat
    BY <1>2
  <2> QED BY <2>1, <2>2, <2>3
<1>5. ASSUME NEW s \in 0..n
      PROVE  CameIn(r, s..(s + Window - 1)) <= 2 * RateMax - 1 + more
  <2> DEFINE e == s + Window - 1
  <2>1. e \in Int /\ s \in Nat
    OBVIOUS
  <2>2. CASE s + Window > n
    <3>1. e >= n
      BY <2>2
    <3> HIDE DEF e
    <3>2. CameIn(r, s..e) = Since(r, s)
      BY <1>3, <2>1, <3>1, CameInSince DEF Until
    <3>3. Since(r, s) <= 2 * RateMax - 1 + more
      <4>1. Since(r, s) <= Allowed(d, s) + more
        BY <1>4, <2>2
      <4>2. Allowed(d, s) <= 2 * RateMax - 1 /\ Allowed(d, s) \in Nat
        BY <1>2
      <4>3. Since(r, s) \in Nat
        <5>1. Since(r, s) = Since(q, s) + k /\ Since(q, s) \in Nat
          BY <1>2
        <5> QED BY <5>1
      <4> QED BY <4>1, <4>2, <4>3
    <3> QED BY <3>2, <3>3 DEF e
  <2>3. CASE ~(s + Window > n)
    <3>1. e < n
      BY <2>3
    <3>2. CameIn(q, s..e) <= 2 * RateMax - 1 + out
      BY DEF Pace
    <3> HIDE DEF e
    <3>3. CameIn(r, s..e) = CameIn(q, s..e)
      <4>1. CASE r = Append(q, n)
        BY <1>1, <2>1, <3>1, <4>1, CameInAppend
      <4> QED BY <4>1
    <3>4. CameIn(q, s..e) \in Nat
      BY <1>1, PlacesFinite DEF CameIn
    <3>5. CameIn(r, s..e) <= 2 * RateMax - 1 + more
      BY <3>2, <3>3, <3>4
    <3> QED BY <3>5 DEF e
  <2> QED BY <2>2, <2>3
<1> QED BY <1>3, <1>4, <1>5 DEF Pace

LEMMA Sizes ==
    /\ RateMax \in Nat /\ RateMax > 0 /\ Window \in Nat /\ Window > 0
    /\ BurstMax \in Nat /\ BurstMax > 0 /\ BurstWindow \in Nat
  BY RateLimiterAssumption

-----------------------------------------------------------------------------
(* What a worker remembers of a sender.                                    *)

Entry == [text : Text, at : Nat, ok : BOOLEAN]
History == [times : Seq(Nat), last : Text \cup {Nothing}, repeats : Nat]

InOrder(times) == \A i, j \in DOMAIN times : i <= j => times[i] <= times[j]

\* The old times come first, and only they are dropped.
LEMMA RecentDrops ==
    ASSUME clock \in Nat, NEW times \in Seq(Nat), InOrder(times)
    PROVE  \E o \in 0..Len(times) :
             /\ Recent(times) \in Seq(Nat) /\ Len(Recent(times)) = Len(times) - o
             /\ \A i \in 1..(Len(times) - o) : Recent(times)[i] = times[i + o]
             /\ \A i \in 1..o : clock - times[i] > BurstWindow
             /\ \A i \in (o + 1)..Len(times) : clock - times[i] <= BurstWindow
<1>0. BurstWindow \in Nat
  BY Sizes
<1> DEFINE old == {i \in DOMAIN times : clock - times[i] > BurstWindow}
           n == Len(times)
           o == Cardinality(old)
<1>1. n \in Nat /\ DOMAIN times = 1..n /\ \A i \in 1..n : times[i] \in Nat
  OBVIOUS
<1>2. ASSUME NEW i \in old, NEW j \in 1..i PROVE j \in old
  <2>1. i \in 1..n /\ j \in 1..n /\ j <= i /\ clock - times[i] > BurstWindow
    BY <1>1, <1>2
  <2>2. times[j] <= times[i] /\ times[j] \in Nat /\ times[i] \in Nat
    BY <1>1, <2>1 DEF InOrder
  <2>3. clock - times[j] > BurstWindow
    BY <1>0, <2>1, <2>2
  <2> QED BY <1>1, <2>1, <2>3
<1>3. old \in SUBSET (1..n)
  BY <1>1
<1>4. o \in 0..n /\ old = 1..o
  <2> HIDE DEF old, n
  <2> QED BY <1>1, <1>2, <1>3, Gapless
<1>5. Recent(times) = SubSeq(times, o + 1, n)
  BY DEF Recent
<1>6. \A i \in 1..o : clock - times[i] > BurstWindow
  BY <1>4
<1>7. \A i \in (o + 1)..n : clock - times[i] <= BurstWindow
  <2> SUFFICES ASSUME NEW i \in (o + 1)..n PROVE clock - times[i] <= BurstWindow
    OBVIOUS
  <2>1. i \in 1..n /\ i \notin 1..o
    BY <1>4
  <2>2. i \notin old
    BY <1>4, <2>1
  <2>3. ~(clock - times[i] > BurstWindow)
    BY <1>1, <2>1, <2>2
  <2> QED BY <1>0, <1>1, <2>1, <2>3
<1> HIDE DEF o, old
<1>8. /\ SubSeq(times, o + 1, n) \in Seq(Nat)
      /\ Len(SubSeq(times, o + 1, n)) = n - o
      /\ \A i \in 1..(n - o) : SubSeq(times, o + 1, n)[i] = times[i + o]
  <2>1. o \in Nat /\ o <= n
    BY <1>1, <1>4
  <2> HIDE DEF n
  <2>2. o + 1 \in Int /\ n \in Int /\ \A i \in (o + 1)..n : times[i] \in Nat
    BY <1>1, <2>1
  <2> DEFINE t == SubSeq(times, o + 1, n)
  <2>3. /\ t \in Seq(Nat)
        /\ Len(t) = IF o + 1 <= n THEN n - (o + 1) + 1 ELSE 0
        /\ \A i \in 1..(n - (o + 1) + 1) : t[i] = times[(o + 1) + i - 1]
    BY <2>2, SubSeqProperties
  <2> HIDE DEF t
  <2>4. Len(t) = n - o
    BY <1>1, <2>1, <2>3
  <2>5. \A i \in 1..(n - o) : t[i] = times[i + o]
    <3> TAKE i \in 1..(n - o)
    <3>1. i \in 1..(n - (o + 1) + 1) /\ (o + 1) + i - 1 = i + o
      BY <1>1, <2>1
    <3> QED BY <2>3, <3>1
  <2> QED BY <2>3, <2>4, <2>5 DEF t
<1> QED BY <1>4, <1>5, <1>6, <1>7, <1>8

Dropped(h, log) == Len(log) - Len(h.times)

\* What is remembered are the times of the last texts; those before them are no
\* longer in a burst.
Remembers(h, log, now) ==
    /\ h \in History /\ log \in Seq(Entry) /\ Dropped(h, log) \in Nat
    /\ Len(log) = 0 => h = NoHistory
    /\ Len(log) > 0 => h.times # <<>> /\ h.last = log[Len(log)].text
    /\ \A i \in DOMAIN log : log[i].at <= now
    /\ \A i, j \in DOMAIN log : i <= j => log[i].at <= log[j].at
    /\ \A i \in DOMAIN h.times : h.times[i] = log[Dropped(h, log) + i].at
    /\ \A j \in 1..Dropped(h, log) : now - log[j].at > BurstWindow

\* RepeatsStopped of one worker and sender, and the count it rests on.
NoThird(h, log) ==
    /\ \A i \in 3..Len(log) :
         /\ log[i].text \in Long
         /\ log[i].text = log[i - 1].text /\ log[i].text = log[i - 2].text
         => ~log[i].ok
    /\ Len(log) > 1 =>
         (log[Len(log)].text \in Long /\ log[Len(log)].text = log[Len(log) - 1].text
            => h.repeats >= 1)

\* BurstsStopped of one worker and sender.
NoBurst(log) ==
    \A i \in DOMAIN log :
        /\ log[i].ok
        /\ Cardinality({j \in 1..(i - 1) : log[i].at - log[j].at <= BurstWindow}) >= BurstMax
        => log[i].text \in Long /\ log[i].text = log[i - 1].text

Memory(h, log, now) == Remembers(h, log, now) /\ NoThird(h, log) /\ NoBurst(log)

LEMMA MemoryEmpty == ASSUME NEW now \in Nat PROVE Memory(NoHistory, <<>>, now)
<1>1. /\ <<>> \in Seq(Entry) /\ <<>> \in Seq(Nat) /\ Len(<<>>) = 0
      /\ DOMAIN <<>> = {} /\ 1..0 = {} /\ 3..0 = {}
  OBVIOUS
<1>2. NoHistory \in History /\ NoHistory.times = <<>>
  BY <1>1 DEF NoHistory, History
<1>3. Dropped(NoHistory, <<>>) = 0
  BY <1>1, <1>2 DEF Dropped
<1>4. Remembers(NoHistory, <<>>, now)
  BY <1>1, <1>2, <1>3 DEF Remembers
<1>5. NoThird(NoHistory, <<>>) /\ NoBurst(<<>>)
  BY <1>1 DEF NoThird, NoBurst
<1> QED BY <1>4, <1>5 DEF Memory

LEMMA LogTypes ==
    ASSUME NEW h, NEW log, NEW now, Remembers(h, log, now)
    PROVE  /\ Len(log) \in Nat /\ DOMAIN log = 1..Len(log)
           /\ \A i \in DOMAIN log : log[i] \in Entry /\ log[i].at \in Nat
           /\ h.times \in Seq(Nat) /\ Len(h.times) \in Nat /\ DOMAIN h.times = 1..Len(h.times)
           /\ Dropped(h, log) \in Nat /\ Dropped(h, log) + Len(h.times) = Len(log)
<1>1. log \in Seq(Entry) /\ h.times \in Seq(Nat)
  BY DEF Remembers, History
<1>2. Len(log) \in Nat /\ DOMAIN log = 1..Len(log) /\ \A i \in DOMAIN log : log[i] \in Entry
  BY <1>1
<1>3. \A e \in Entry : e.at \in Nat
  BY DEF Entry
<1>4. Len(h.times) \in Nat /\ DOMAIN h.times = 1..Len(h.times)
  BY <1>1
<1>5. Dropped(h, log) \in Nat
  BY DEF Remembers
<1> QED BY <1>1, <1>2, <1>3, <1>4, <1>5 DEF Dropped

LEMMA MemoryAges ==
    ASSUME NEW h, NEW log, NEW now \in Nat, Memory(h, log, now)
    PROVE  Memory(h, log, now + 1)
<1>1. Remembers(h, log, now)
  BY DEF Memory
<1>2. ASSUME NEW i \in DOMAIN log PROVE log[i].at <= now + 1
  <2>1. log[i].at \in Nat /\ log[i].at <= now
    BY <1>1, LogTypes DEF Remembers
  <2> QED BY <2>1
<1>3. ASSUME NEW j \in 1..Dropped(h, log) PROVE (now + 1) - log[j].at > BurstWindow
  <2>1. j \in DOMAIN log
    BY <1>1, LogTypes
  <2>2. log[j].at \in Nat /\ now - log[j].at > BurstWindow
    BY <1>1, <2>1, LogTypes DEF Remembers
  <2> QED BY <2>2, Sizes
<1>4. Remembers(h, log, now + 1)
  <2> DEFINE then == now + 1
  <2>1. \A i \in DOMAIN log : log[i].at <= then
    BY <1>2
  <2>2. \A j \in 1..Dropped(h, log) : then - log[j].at > BurstWindow
    BY <1>3
  <2> HIDE DEF then
  <2>3. Remembers(h, log, then)
    BY <1>1, <2>1, <2>2, Zenon DEF Remembers
  <2> QED BY <2>3 DEF then
<1> QED BY <1>4 DEF Memory

\* The log after a text, and what it says of the texts before.
LEMMA LogAppend ==
    ASSUME NEW log \in Seq(Entry), NEW e \in Entry
    PROVE  /\ Append(log, e) \in Seq(Entry) /\ Len(Append(log, e)) = Len(log) + 1
           /\ DOMAIN Append(log, e) = 1..(Len(log) + 1)
           /\ Append(log, e)[Len(log) + 1] = e
           /\ \A i \in 1..Len(log) : Append(log, e)[i] = log[i]
  OBVIOUS

\* The text of now, remembered after some of what was.
LEMMA RemembersNext ==
    ASSUME NEW h, NEW log, clock \in Nat, Remembers(h, log, clock),
           NEW t \in Text, NEW ok \in BOOLEAN, NEW o \in 0..Len(h.times),
           NEW g \in History, g.last = t, NEW kept \in Seq(Nat),
           g.times = Append(kept, clock), Len(kept) = Len(h.times) - o,
           \A i \in 1..(Len(h.times) - o) : kept[i] = h.times[i + o],
           \A i \in 1..o : clock - h.times[i] > BurstWindow
    PROVE  Remembers(g, Append(log, [text |-> t, at |-> clock, ok |-> ok]), clock)
<1> DEFINE e == [text |-> t, at |-> clock, ok |-> ok]
           more == Append(log, e)
           m == Dropped(h, log)
           n == Len(log)
           k == Len(h.times)
<1>1. e \in Entry /\ e.at = clock /\ e.text = t
  BY DEF Entry
<1>2. /\ n \in Nat /\ DOMAIN log = 1..n
      /\ \A i \in 1..n : log[i] \in Entry /\ log[i].at \in Nat
      /\ h.times \in Seq(Nat) /\ k \in Nat /\ DOMAIN h.times = 1..k
      /\ m \in Nat /\ m + k = n /\ o \in Nat /\ o <= k
  <2>1. /\ n \in Nat /\ DOMAIN log = 1..n
        /\ \A i \in 1..n : log[i] \in Entry /\ log[i].at \in Nat
        /\ h.times \in Seq(Nat) /\ k \in Nat /\ DOMAIN h.times = 1..k
        /\ m \in Nat /\ m + k = n
    BY LogTypes
  <2> QED BY <2>1
<1>3. /\ more \in Seq(Entry) /\ Len(more) = n + 1 /\ DOMAIN more = 1..(n + 1)
      /\ more[n + 1] = e /\ \A i \in 1..n : more[i] = log[i]
  BY <1>1, LogAppend DEF Remembers
<1>4. /\ \A i \in 1..n : log[i].at <= clock
      /\ \A i, j \in 1..n : i <= j => log[i].at <= log[j].at
      /\ \A i \in 1..k : h.times[i] = log[m + i].at
      /\ \A j \in 1..m : clock - log[j].at > BurstWindow
  BY <1>2 DEF Remembers
<1> HIDE DEF e, more, m, n, k
<1>5. /\ Len(g.times) = k - o + 1 /\ DOMAIN g.times = 1..(k - o + 1)
      /\ g.times[k - o + 1] = clock
      /\ \A i \in 1..(k - o) : g.times[i] = h.times[i + o]
  <2>1. \A i \in 1..(k - o) : kept[i] = h.times[i + o]
    BY DEF k
  <2>2. Len(kept) = k - o /\ k - o \in Nat
    BY <1>2 DEF k
  <2>3. \A i \in 1..(k - o) : g.times[i] = kept[i]
    BY <2>2
  <2>4. /\ Len(g.times) = k - o + 1 /\ DOMAIN g.times = 1..(k - o + 1)
        /\ g.times[k - o + 1] = clock
    BY <2>2
  <2> QED BY <2>1, <2>3, <2>4
<1>6. Dropped(g, more) = m + o
  <2>1. Dropped(g, more) = (n + 1) - (k - o + 1)
    BY <1>3, <1>5 DEF Dropped
  <2> QED BY <1>2, <2>1
<1>7. g.times # <<>> /\ g.last = more[Len(more)].text
  <2>1. Len(g.times) > 0
    BY <1>2, <1>5
  <2>2. Len(<<>>) = 0
    OBVIOUS
  <2>3. g.times # <<>>
    <3>1. ASSUME g.times = <<>> PROVE FALSE
      BY <2>1, <2>2, <3>1
    <3> QED BY <3>1
  <2> QED BY <1>1, <1>3, <2>3
<1>8. \A i \in 1..(n + 1) : more[i].at <= clock
  <2> TAKE i \in 1..(n + 1)
  <2>1. CASE i = n + 1
    BY <1>1, <1>3, <2>1
  <2>2. CASE i # n + 1
    <3>1. i \in 1..n
      BY <1>2, <2>2
    <3> QED BY <1>3, <1>4, <3>1
  <2> QED BY <2>1, <2>2
<1>9. \A i, j \in 1..(n + 1) : i <= j => more[i].at <= more[j].at
  <2> SUFFICES ASSUME NEW i \in 1..(n + 1), NEW j \in 1..(n + 1), i <= j
               PROVE  more[i].at <= more[j].at
    OBVIOUS
  <2>1. CASE j = n + 1
    BY <1>1, <1>3, <1>8, <2>1
  <2>2. CASE j # n + 1
    <3>1. i \in 1..n /\ j \in 1..n
      BY <1>2, <2>2
    <3> QED BY <1>3, <1>4, <3>1
  <2> QED BY <2>1, <2>2
<1>10. \A i \in 1..(k - o + 1) : g.times[i] = more[m + o + i].at
  <2> TAKE i \in 1..(k - o + 1)
  <2>1. CASE i = k - o + 1
    <3>1. m + o + i = n + 1
      BY <1>2, <2>1
    <3> QED BY <1>1, <1>3, <1>5, <2>1, <3>1
  <2>2. CASE i # k - o + 1
    <3>1. i \in 1..(k - o) /\ i + o \in 1..k
      BY <1>2, <2>2
    <3>2. g.times[i] = h.times[i + o]
      BY <1>5, <3>1
    <3>3. h.times[i + o] = log[m + (i + o)].at
      BY <1>4, <3>1
    <3>4. m + (i + o) = m + o + i /\ m + o + i \in 1..n
      BY <1>2, <3>1
    <3> QED BY <1>3, <3>2, <3>3, <3>4
  <2> QED BY <2>1, <2>2
<1>11. \A j \in 1..(m + o) : clock - more[j].at > BurstWindow
  <2> TAKE j \in 1..(m + o)
  <2>1. j \in 1..n /\ more[j] = log[j]
    BY <1>2, <1>3
  <2>2. CASE j \in 1..m
    BY <1>4, <2>1, <2>2
  <2>3. CASE j \notin 1..m
    <3>1. j - m \in 1..o /\ j - m \in 1..k /\ m + (j - m) = j
      BY <1>2, <2>3
    <3>2. h.times[j - m] = log[j].at
      BY <1>4, <3>1
    <3> QED BY <2>1, <3>1, <3>2
  <2> QED BY <2>2, <2>3
<1>12. Remembers(g, more, clock)
  <2>1. m + o \in Nat /\ n + 1 > 0 /\ n + 1 # 0
    BY <1>2
  <2> QED BY <1>3, <1>5, <1>6, <1>7, <1>8, <1>9, <1>10, <1>11, <2>1 DEF Remembers
<1> QED BY <1>12 DEF e, more

\* Of three equal texts the last is refused.
LEMMA ThirdRefused ==
    ASSUME NEW h \in History, NEW log \in Seq(Entry), NoThird(h, log), NEW t \in Text,
           Len(log) = 0 => h = NoHistory,
           Len(log) > 0 => h.last = log[Len(log)].text
    PROVE  NoThird(Remembered(h, t),
                   Append(log, [text |-> t, at |-> clock, ok |-> Tolerated(h, t)]))
<1> DEFINE ok == Tolerated(h, t)
           e == [text |-> t, at |-> clock, ok |-> ok]
           more == Append(log, e)
           g == Remembered(h, t)
           n == Len(log)
<1>1. /\ n \in Nat /\ Len(more) = n + 1
      /\ more[n + 1].text = t /\ more[n + 1].ok = ok
      /\ \A i \in 1..n : more[i] = log[i]
  OBVIOUS
<1>2. h.repeats \in Nat
  BY DEF History
<1>3. ASSUME n > 0, t \in Long, t = log[n].text
      PROVE  g.repeats = h.repeats + 1 /\ (ok <=> h.repeats + 1 < 2)
  <2>1. Repeats(h, t)
    BY <1>3 DEF Repeats
  <2> QED BY <2>1 DEF Remembered, Tolerated, History
<1>4. NoThird(h, log)
  OBVIOUS
<1> HIDE DEF e, more, ok, g, n
<1>5. ASSUME NEW i \in 3..(n + 1), more[i].text \in Long,
             more[i].text = more[i - 1].text, more[i].text = more[i - 2].text
      PROVE  ~more[i].ok
  <2>1. CASE i = n + 1
    <3>1. n \in 1..n /\ n - 1 \in 1..n /\ n > 1 /\ i - 1 = n /\ i - 2 = n - 1
      BY <1>1, <2>1
    <3>2. t \in Long /\ t = log[n].text /\ t = log[n - 1].text
      BY <1>1, <1>5, <2>1, <3>1
    <3>3. h.repeats >= 1
      BY <1>4, <3>1, <3>2 DEF NoThird, n
    <3> QED BY <1>1, <1>2, <1>3, <2>1, <3>1, <3>2, <3>3
  <2>2. CASE i # n + 1
    <3>1. i \in 3..n /\ i \in 1..n /\ i - 1 \in 1..n /\ i - 2 \in 1..n
      BY <1>1, <2>2
    <3>2. /\ log[i].text \in Long
          /\ log[i].text = log[i - 1].text /\ log[i].text = log[i - 2].text
      BY <1>1, <1>5, <3>1
    <3>3. ~log[i].ok
      BY <1>4, <3>1, <3>2 DEF NoThird, n
    <3> QED BY <1>1, <3>1, <3>3
  <2> QED BY <2>1, <2>2
<1>6. ASSUME n + 1 > 1, more[n + 1].text \in Long, more[n + 1].text = more[(n + 1) - 1].text
      PROVE  g.repeats >= 1
  <2>1. n > 0 /\ n \in 1..n /\ (n + 1) - 1 = n
    BY <1>1, <1>6
  <2>2. t \in Long /\ t = log[n].text
    BY <1>1, <1>6, <2>1
  <2> QED BY <1>2, <1>3, <2>1, <2>2
<1>7. NoThird(g, more)
  BY <1>1, <1>5, <1>6 DEF NoThird
<1> QED BY <1>7 DEF e, more, ok, g

\* Of the texts before, those of a burst are among the ones that were kept.
LEMMA BurstIsKept ==
    ASSUME NEW h, NEW log, clock \in Nat, Remembers(h, log, clock), NEW o \in 0..Len(h.times),
           \A i \in 1..o : clock - h.times[i] > BurstWindow
    PROVE  LET burst == {j \in 1..Len(log) : clock - log[j].at <= BurstWindow}
           IN  Cardinality(burst) \in Nat /\ Cardinality(burst) <= Len(h.times) - o
<1> DEFINE m == Dropped(h, log)
           n == Len(log)
           k == Len(h.times)
           burst == {j \in 1..n : clock - log[j].at <= BurstWindow}
<1>1. /\ n \in Nat /\ k \in Nat /\ m \in Nat /\ m + k = n /\ o \in Nat /\ o <= k
      /\ \A i \in 1..n : log[i].at \in Nat
      /\ \A i \in 1..k : h.times[i] = log[m + i].at
      /\ \A j \in 1..m : clock - log[j].at > BurstWindow
  <2>1. /\ n \in Nat /\ DOMAIN log = 1..n
        /\ \A i \in DOMAIN log : log[i].at \in Nat
        /\ k \in Nat /\ DOMAIN h.times = 1..k /\ m \in Nat /\ m + k = n
    BY LogTypes
  <2>2. /\ \A i \in 1..k : h.times[i] = log[m + i].at
        /\ \A j \in 1..m : clock - log[j].at > BurstWindow
    BY <2>1 DEF Remembers
  <2>3. o \in Nat /\ o <= k
    BY <2>1
  <2>4. \A i \in 1..n : log[i].at \in Nat
    BY <2>1
  <2> HIDE DEF m, n, k
  <2> QED BY <2>1, <2>2, <2>3, <2>4
<1> HIDE DEF m, n, k
<1>2. burst \subseteq (m + o + 1)..n
  <2> SUFFICES ASSUME NEW j \in burst, ~(j >= m + o + 1) PROVE FALSE
    BY <1>1
  <2>1. j \in 1..n /\ log[j].at \in Nat /\ ~(clock - log[j].at > BurstWindow)
    BY <1>1, Sizes
  <2>2. CASE j \in 1..m
    BY <1>1, <2>1, <2>2
  <2>3. CASE j \notin 1..m
    <3>1. j - m \in 1..o /\ j - m \in 1..k /\ m + (j - m) = j
      BY <1>1, <2>1, <2>3
    <3>2. h.times[j - m] = log[j].at
      BY <1>1, <3>1
    <3> QED BY <2>1, <3>1, <3>2
  <2> QED BY <2>2, <2>3
<1> HIDE DEF burst
<1>3. /\ IsFiniteSet((m + o + 1)..n)
      /\ Cardinality((m + o + 1)..n) = k - o
  <2>1. m + o + 1 \in Int /\ n \in Int /\ n = m + k
    BY <1>1
  <2>2. /\ IsFiniteSet((m + o + 1)..n)
        /\ Cardinality((m + o + 1)..n) = IF m + o + 1 > n THEN 0 ELSE n - (m + o + 1) + 1
    BY <2>1, FS_Interval
  <2> QED BY <1>1, <2>1, <2>2
<1>4. Cardinality(burst) \in Nat /\ Cardinality(burst) <= k - o
  BY <1>2, <1>3, FS_Subset, CardNat
<1> QED BY <1>4 DEF burst, n, k

\* A text is let through only within the limit of a burst, or as a repetition.
LEMMA BurstRefused ==
    ASSUME NEW h, NEW log, clock \in Nat, Remembers(h, log, clock), NoBurst(log),
           NEW t \in Text, NEW ok \in BOOLEAN, NEW o \in 0..Len(h.times),
           \A i \in 1..o : clock - h.times[i] > BurstWindow,
           ok => Repeats(h, t) \/ Len(h.times) - o + 1 <= BurstMax
    PROVE  NoBurst(Append(log, [text |-> t, at |-> clock, ok |-> ok]))
<1> DEFINE e == [text |-> t, at |-> clock, ok |-> ok]
           more == Append(log, e)
           n == Len(log)
           k == Len(h.times)
           Burst(q, i) == {j \in 1..(i - 1) : q[i].at - q[j].at <= BurstWindow}
<1>1. e \in Entry /\ e.at = clock /\ e.text = t /\ e.ok = ok
  BY DEF Entry
<1>2. n \in Nat /\ DOMAIN log = 1..n /\ k \in Nat /\ o \in Nat /\ o <= k
  <2>1. n \in Nat /\ DOMAIN log = 1..n /\ k \in Nat
    BY LogTypes
  <2> QED BY <2>1
<1>3. /\ DOMAIN more = 1..(n + 1) /\ more[n + 1] = e
      /\ \A i \in 1..n : more[i] = log[i]
  BY <1>1, LogAppend DEF Remembers
<1>4. /\ Cardinality({j \in 1..n : clock - log[j].at <= BurstWindow}) \in Nat
      /\ Cardinality({j \in 1..n : clock - log[j].at <= BurstWindow}) <= k - o
  BY BurstIsKept
<1>5. ok => Repeats(h, t) \/ k - o + 1 <= BurstMax
  OBVIOUS
<1>6. Repeats(h, t) => n > 0 /\ t \in Long /\ t = log[n].text
  <2>1. n = 0 => h.last = Nothing
    BY DEF Remembers, NoHistory
  <2>2. n > 0 => h.last = log[n].text
    BY DEF Remembers
  <2>3. Nothing \notin Text
    BY RateLimiterAssumption
  <2> HIDE DEF n
  <2> QED BY <1>2, <2>1, <2>2, <2>3 DEF Repeats
<1> HIDE DEF e, more, n, k
<1>7. ASSUME NEW i \in 1..(n + 1), more[i].ok, Cardinality(Burst(more, i)) >= BurstMax
      PROVE  more[i].text \in Long /\ more[i].text = more[i - 1].text
  <2>1. CASE i = n + 1
    <3>1. Burst(more, i) = {j \in 1..n : clock - log[j].at <= BurstWindow}
      BY <1>1, <1>2, <1>3, <2>1
    <3>2. Repeats(h, t)
      <4>1. ok
        BY <1>1, <1>3, <1>7, <2>1
      <4>2. ~(k - o + 1 <= BurstMax)
        <5> DEFINE c == Cardinality({j \in 1..n : clock - log[j].at <= BurstWindow})
        <5>1. c >= BurstMax
          BY <1>7, <3>1
        <5>2. c \in Nat /\ c <= k - o
          BY <1>4
        <5> HIDE DEF c
        <5> QED BY <1>2, <5>1, <5>2, Sizes
      <4> QED BY <1>5, <4>1, <4>2
    <3>3. n \in 1..n /\ i - 1 = n
      BY <1>2, <1>6, <2>1, <3>2
    <3> QED BY <1>1, <1>3, <1>6, <2>1, <3>2, <3>3
  <2>2. CASE i # n + 1
    <3>1. i \in 1..n /\ \A j \in 1..(i - 1) : j \in 1..n
      BY <1>2, <2>2
    <3>2. Burst(more, i) = Burst(log, i)
      BY <1>3, <3>1
    <3>3. log[i].ok /\ Cardinality(Burst(log, i)) >= BurstMax
      BY <1>3, <1>7, <3>1, <3>2
    <3>4. log[i].text \in Long /\ log[i].text = log[i - 1].text
      BY <1>2, <3>1, <3>3 DEF NoBurst
    <3>5. i - 1 \in 1..n
      <4>1. Burst(log, i) # {}
        <5>1. Cardinality({}) = 0
          BY FS_EmptySet
        <5> HIDE DEF Burst
        <5>2. ASSUME Burst(log, i) = {} PROVE FALSE
          BY <3>3, <5>1, <5>2, Sizes
        <5> QED BY <5>2
      <4>2. PICK j \in 1..(i - 1) : TRUE
        BY <4>1
      <4> QED BY <1>2, <3>1, <4>2
    <3> QED BY <1>3, <3>1, <3>4, <3>5
  <2> QED BY <2>1, <2>2
<1>8. NoBurst(more)
  BY <1>3, <1>7 DEF NoBurst
<1> QED BY <1>8 DEF e, more

\* A worker that compares a text remembers it, and what it promised stays true.
LEMMA MemoryText ==
    ASSUME NEW h, NEW log, clock \in Nat, Memory(h, log, clock), NEW t \in Text
    PROVE  Memory(Remembered(h, t),
                  Append(log, [text |-> t, at |-> clock, ok |-> Tolerated(h, t)]), clock)
<1> DEFINE ok == Tolerated(h, t)
           g == Remembered(h, t)
<1>1. Remembers(h, log, clock) /\ NoThird(h, log) /\ NoBurst(log)
  BY DEF Memory
<1>2. /\ h \in History /\ log \in Seq(Entry)
      /\ Len(log) = 0 => h = NoHistory
      /\ Len(log) > 0 => h.last = log[Len(log)].text
  BY <1>1 DEF Remembers
<1>3. h.times \in Seq(Nat) /\ Len(h.times) \in Nat /\ h.repeats \in Nat
  BY <1>2 DEF History
<1>4. ok \in BOOLEAN
  <2>1. CASE Repeats(h, t)
    BY <2>1 DEF Tolerated
  <2>2. CASE ~Repeats(h, t)
    BY <2>2 DEF Tolerated
  <2> QED BY <2>1, <2>2
<1>5. CASE Repeats(h, t)
  <2>1. /\ g \in History /\ g.last = t /\ g.times = Append(h.times, clock)
    <3>1. g = [h EXCEPT !.times = Append(h.times, clock), !.repeats = h.repeats + 1]
      BY <1>5 DEF Remembered
    <3>2. Append(h.times, clock) \in Seq(Nat) /\ h.repeats + 1 \in Nat
      BY <1>3
    <3>3. h.last = t
      BY <1>5 DEF Repeats
    <3> HIDE DEF g
    <3> QED BY <1>2, <3>1, <3>2, <3>3 DEF History
  <2>2. 0 \in 0..Len(h.times) /\ Len(h.times) = Len(h.times) - 0
    BY <1>3
  <2>3. /\ \A i \in 1..(Len(h.times) - 0) : h.times[i] = h.times[i + 0]
        /\ \A i \in 1..0 : clock - h.times[i] > BurstWindow
    BY <1>3
  <2> HIDE DEF g, ok
  <2>4. Remembers(g, Append(log, [text |-> t, at |-> clock, ok |-> ok]), clock)
    BY <1>1, <1>3, <1>4, <2>1, <2>2, <2>3, RemembersNext
  <2>5. NoBurst(Append(log, [text |-> t, at |-> clock, ok |-> ok]))
    BY <1>1, <1>4, <1>5, <2>2, <2>3, BurstRefused
  <2> QED BY <1>1, <1>2, <2>4, <2>5, ThirdRefused DEF Memory, g, ok
<1>6. CASE ~Repeats(h, t)
  <2>1. InOrder(h.times)
    <3>1. /\ DOMAIN h.times = 1..Len(h.times) /\ DOMAIN log = 1..Len(log)
          /\ Len(log) \in Nat
          /\ Dropped(h, log) \in Nat /\ Dropped(h, log) + Len(h.times) = Len(log)
      BY <1>1, LogTypes
    <3>2. ASSUME NEW i \in DOMAIN h.times, NEW j \in DOMAIN h.times, i <= j
          PROVE  h.times[i] <= h.times[j]
      <4> DEFINE m == Dropped(h, log)
      <4>1. m + i \in DOMAIN log /\ m + j \in DOMAIN log /\ m + i <= m + j
        BY <1>3, <3>1, <3>2
      <4>2. h.times[i] = log[m + i].at /\ h.times[j] = log[m + j].at
        BY <1>1 DEF Remembers
      <4>3. log[m + i].at <= log[m + j].at
        BY <1>1, <4>1 DEF Remembers
      <4> QED BY <4>2, <4>3
    <3> QED BY <3>2 DEF InOrder
  <2>2. PICK o \in 0..Len(h.times) :
          /\ Recent(h.times) \in Seq(Nat) /\ Len(Recent(h.times)) = Len(h.times) - o
          /\ \A i \in 1..(Len(h.times) - o) : Recent(h.times)[i] = h.times[i + o]
          /\ \A i \in 1..o : clock - h.times[i] > BurstWindow
    BY <1>3, <2>1, RecentDrops
  <2> DEFINE kept == Recent(h.times)
  <2>3. g = [times |-> Append(kept, clock), last |-> t, repeats |-> 0]
    BY <1>6 DEF Remembered
  <2> HIDE DEF kept
  <2>4. g \in History /\ g.last = t /\ g.times = Append(kept, clock)
    <3>1. Append(kept, clock) \in Seq(Nat)
      BY <2>2 DEF kept
    <3> QED BY <2>3, <3>1 DEF History
  <2>5. ok => Len(h.times) - o + 1 <= BurstMax
    <3>1. Len(Append(kept, clock)) = Len(h.times) - o + 1
      BY <2>2 DEF kept
    <3>2. ok => Len(g.times) <= BurstMax
      BY <1>6 DEF Tolerated
    <3> QED BY <2>4, <3>1, <3>2
  <2>6. /\ kept \in Seq(Nat) /\ Len(kept) = Len(h.times) - o
        /\ \A i \in 1..(Len(h.times) - o) : kept[i] = h.times[i + o]
    BY <2>2 DEF kept
  <2> HIDE DEF g, ok
  <2>7. Remembers(g, Append(log, [text |-> t, at |-> clock, ok |-> ok]), clock)
    BY <1>1, <1>4, <2>2, <2>4, <2>6, RemembersNext
  <2>8. NoBurst(Append(log, [text |-> t, at |-> clock, ok |-> ok]))
    BY <1>1, <1>4, <2>2, <2>5, BurstRefused
  <2> QED BY <1>1, <1>2, <2>7, <2>8, ThirdRefused DEF Memory, g, ok
<1> QED BY <1>5, <1>6

-----------------------------------------------------------------------------
(* The counters and the memories, step by step.                            *)

RateTyped ==
    /\ clock \in 0..MaxTime /\ outages \in 0..MaxOutages /\ restarts \in 0..MaxRestarts
    /\ counter \in [Sender -> Counter \cup {Nothing}]
    /\ activity \in [Sender -> Counter \cup {Nothing}]
    /\ mute \subseteq Sender /\ \A u \in mute : counter[u] # Nothing
    /\ arrived \in [Sender -> Seq(Nat)] /\ passed \in [Sender -> Seq(Nat)]
    /\ seen \in [Worker -> [Sender -> History]]
    /\ heard \in [Worker -> [Sender -> Seq(Entry)]]

\* The counters of a sender count texts that came, and let through no more; one
\* that expires is not kept beyond its window.
Fair(u) ==
    /\ Until(arrived[u], clock) /\ Len(arrived[u]) <= MaxTexts
    /\ Len(passed[u]) <= Len(arrived[u])
    /\ Counts(counter[u], arrived[u], clock) /\ Counts(activity[u], arrived[u], clock)
    /\ Pace(passed[u], counter[u], clock, outages)
    /\ u \notin mute /\ counter[u] # Nothing => clock - counter[u].since < Window

Knows(w, u) ==
    Memory(seen[w][u], heard[w][u], clock) /\ Len(heard[w][u]) <= Len(arrived[u])

RateInv ==
    RateTyped /\ (\A u \in Sender : Fair(u)) /\ (\A w \in Worker, u \in Sender : Knows(w, u))

LEMMA Bounds ==
    /\ MaxTime \in Nat /\ MaxTexts \in Nat /\ MaxOutages \in Nat /\ MaxRestarts \in Nat
  BY RateLimiterAssumption

LEMMA NoHistoryTyped == NoHistory \in History
  BY DEF NoHistory, History

LEMMA PaceEmpty == Pace(<<>>, Nothing, 0, 0)
<1>1. /\ <<>> \in Seq(Nat) /\ DOMAIN <<>> = {}
  OBVIOUS
<1>2. \A s \in Nat : Since(<<>>, s) = 0 /\ CameIn(<<>>, s..(s + Window - 1)) = 0
  BY <1>1, FS_EmptySet DEF Since, CameIn
<1>3. \A s \in 0..0 : Allowed(Nothing, s) = RateMax - 1
  BY DEF Allowed
<1> QED BY <1>1, <1>2, <1>3, Sizes DEF Pace, Until

LEMMA RateInitInv == RateInit => RateInv
<1> SUFFICES ASSUME RateInit PROVE RateInv
  OBVIOUS
<1>1. <<>> \in Seq(Nat) /\ <<>> \in Seq(Entry) /\ Len(<<>>) = 0 /\ DOMAIN <<>> = {}
  OBVIOUS
<1>2. RateTyped
  BY <1>1, Bounds, NoHistoryTyped DEF RateInit, RateTyped
<1>3. ASSUME NEW u \in Sender PROVE Fair(u)
  <2>1. /\ arrived[u] = <<>> /\ passed[u] = <<>> /\ clock = 0 /\ outages = 0
        /\ counter[u] = Nothing /\ activity[u] = Nothing
    BY DEF RateInit
  <2> QED BY <1>1, <2>1, Bounds, PaceEmpty DEF Fair, Until, Counts
<1>4. ASSUME NEW w \in Worker, NEW u \in Sender PROVE Knows(w, u)
  <2>1. /\ seen[w][u] = NoHistory /\ heard[w][u] = <<>> /\ clock = 0 /\ arrived[u] = <<>>
    BY DEF RateInit
  <2>2. Memory(NoHistory, <<>>, 0)
    BY MemoryEmpty
  <2> QED BY <1>1, <2>1, <2>2 DEF Knows
<1> QED BY <1>2, <1>3, <1>4 DEF RateInv

LEMMA TickPreserves == RateInv /\ RateTick => RateInv'
<1> SUFFICES ASSUME RateInv, RateTick PROVE RateInv'
  OBVIOUS
<1>1. /\ clock \in Nat /\ clock' = clock + 1 /\ clock' \in 0..MaxTime
      /\ UNCHANGED <<mute, activity, seen, outages, restarts, arrived, passed, heard>>
  BY Bounds DEF RateTick, RateInv, RateTyped
<1>2. ASSUME NEW u \in Sender
      PROVE  /\ counter'[u] \in {counter[u], Nothing}
             /\ counter'[u] # counter[u] =>
                  u \notin mute /\ (clock + 1) - counter[u].since >= Window
             /\ counter[u] # Nothing /\ u \notin mute /\ counter'[u] = counter[u] =>
                  ~((clock + 1) - counter[u].since >= Window)
  <2>1. counter'[u] = IF /\ counter[u] # Nothing /\ u \notin mute
                         /\ (clock + 1) - counter[u].since >= Window
                      THEN Nothing ELSE counter[u]
    BY <1>1 DEF RateTick
  <2> QED BY <2>1
<1>3. RateTyped'
  <2>1. counter' \in [Sender -> Counter \cup {Nothing}]
    BY <1>1 DEF RateTick, RateInv, RateTyped
  <2> QED BY <1>1, <1>2, <2>1 DEF RateInv, RateTyped
<1>4. ASSUME NEW u \in Sender PROVE Fair(u)'
  <2>1. /\ counter[u] \in Counter \cup {Nothing} /\ activity[u] \in Counter \cup {Nothing}
        /\ outages \in Nat /\ Fair(u)
    BY DEF RateInv, RateTyped
  <2>2. Pace(passed[u], counter'[u], clock + 1, outages)
    BY <1>1, <1>2, <2>1, PaceSilence DEF Fair
  <2>3. \A c \in Counter : c.since \in Nat
    BY DEF Counter
  <2>4. /\ Counts(counter[u], arrived[u], clock + 1)
        /\ Counts(activity[u], arrived[u], clock + 1)
    BY <1>1, <2>1, <2>3, CountsSilence DEF Fair
  <2>5. Counts(counter'[u], arrived[u], clock + 1)
    BY <1>2, <2>4 DEF Counts
  <2>6. Until(arrived[u], clock + 1)
    BY <1>1, <2>1 DEF Fair, Until
  <2>7. u \notin mute /\ counter'[u] # Nothing => (clock + 1) - counter'[u].since < Window
    <3> SUFFICES ASSUME u \notin mute, counter'[u] # Nothing
                 PROVE  (clock + 1) - counter'[u].since < Window
      OBVIOUS
    <3>1. counter'[u] = counter[u] /\ counter[u] \in Counter
      BY <1>2, <2>1
    <3>2. ~((clock + 1) - counter[u].since >= Window)
      BY <1>2, <3>1
    <3> QED BY <1>1, <2>3, <3>1, <3>2, Sizes
  <2> QED BY <1>1, <2>1, <2>2, <2>4, <2>5, <2>6, <2>7 DEF Fair
<1>5. ASSUME NEW w \in Worker, NEW u \in Sender PROVE Knows(w, u)'
  BY <1>1, MemoryAges DEF RateInv, Knows
<1> QED BY <1>3, <1>4, <1>5 DEF RateInv

LEMMA RestartPreserves ==
    ASSUME RateInv, NEW w \in Worker, Restart(w)
    PROVE  RateInv'
<1>1. /\ restarts' \in 0..MaxRestarts
      /\ seen' = [seen EXCEPT ![w] = [u \in Sender |-> NoHistory]]
      /\ heard' = [heard EXCEPT ![w] = [u \in Sender |-> <<>>]]
      /\ UNCHANGED <<clock, counter, mute, activity, outages, arrived, passed>>
  BY Bounds DEF Restart, RateInv, RateTyped
<1>2. <<>> \in Seq(Entry) /\ Len(<<>>) = 0
  OBVIOUS
<1>3. RateTyped'
  BY <1>1, <1>2, NoHistoryTyped DEF RateInv, RateTyped
<1>4. \A u \in Sender : Fair(u)'
  BY <1>1 DEF RateInv, Fair
<1>5. ASSUME NEW v \in Worker, NEW u \in Sender PROVE Knows(v, u)'
  <2>1. CASE v = w
    <3>1. seen'[v][u] = NoHistory /\ heard'[v][u] = <<>>
      BY <1>1, <2>1 DEF RateInv, RateTyped
    <3>2. clock \in Nat /\ Len(arrived[u]) \in Nat
      BY Bounds DEF RateInv, RateTyped
    <3> QED BY <1>1, <1>2, <3>1, <3>2, MemoryEmpty DEF Knows
  <2>2. CASE v # w
    <3>1. seen'[v][u] = seen[v][u] /\ heard'[v][u] = heard[v][u]
      BY <1>1, <2>2 DEF RateInv, RateTyped
    <3> QED BY <1>1, <3>1 DEF RateInv, Knows
  <2> QED BY <2>1, <2>2
<1> QED BY <1>3, <1>4, <1>5 DEF RateInv

\* What a worker does with a text that is counted: it may let it through, and it
\* may compare and remember it.
Compares(w, u, t) ==
    /\ seen' = [seen EXCEPT ![w][u] = Remembered(seen[w][u], t)]
    /\ heard' = [heard EXCEPT ![w][u] = Append(heard[w][u],
         [text |-> t, at |-> clock, ok |-> Tolerated(seen[w][u], t)])]

LetsThrough(u) == passed' = [passed EXCEPT ![u] = Append(passed[u], clock)]

LEMMA JudgeOutcomes ==
    ASSUME NEW w, NEW u, NEW t, NEW counted, Judge(w, u, t, counted)
    PROVE  /\ passed' = passed \/ (Within(counted) /\ LetsThrough(u))
           /\ UNCHANGED <<seen, heard>> \/ Compares(w, u, t)
           /\ LetsThrough(u) \/ Compares(w, u, t) \/ ~Within(counted)
  BY DEF Judge, Passes, Compares, LetsThrough

LEMMA TextRemembered ==
    ASSUME RateInv, NEW w \in Worker, NEW u \in Sender, NEW t \in Text,
           clock' = clock, arrived' = [arrived EXCEPT ![u] = Append(arrived[u], clock)],
           UNCHANGED <<seen, heard>> \/ Compares(w, u, t)
    PROVE  /\ seen' \in [Worker -> [Sender -> History]]
           /\ heard' \in [Worker -> [Sender -> Seq(Entry)]]
           /\ \A v \in Worker, x \in Sender : Knows(v, x)'
<1>1. /\ clock \in Nat /\ seen \in [Worker -> [Sender -> History]]
      /\ heard \in [Worker -> [Sender -> Seq(Entry)]] /\ arrived \in [Sender -> Seq(Nat)]
      /\ \A v \in Worker, x \in Sender : Knows(v, x)
  BY Bounds DEF RateInv, RateTyped
<1>2. /\ arrived'[u] = Append(arrived[u], clock) /\ Len(arrived'[u]) = Len(arrived[u]) + 1
      /\ Len(arrived[u]) \in Nat
      /\ \A x \in Sender : x # u => arrived'[x] = arrived[x]
      /\ \A x \in Sender : Len(arrived[x]) \in Nat /\ Len(arrived'[x]) >= Len(arrived[x])
  <2>1. \A x \in Sender : Len(arrived[x]) \in Nat
    BY <1>1
  <2>2. /\ arrived'[u] = Append(arrived[u], clock) /\ arrived[u] \in Seq(Nat)
        /\ \A x \in Sender : x # u => arrived'[x] = arrived[x]
    BY <1>1
  <2>3. Len(arrived'[u]) = Len(arrived[u]) + 1
    BY <1>1, <2>2, AppendPlaces
  <2> QED BY <2>1, <2>2, <2>3
<1>3. ASSUME NEW v \in Worker, NEW x \in Sender, Knows(v, x),
             seen'[v][x] = seen[v][x], heard'[v][x] = heard[v][x]
      PROVE  Knows(v, x)'
  <2>1. Len(heard[v][x]) \in Nat
    BY <1>1
  <2> QED BY <1>2, <1>3, <2>1 DEF Knows
<1>4. CASE UNCHANGED <<seen, heard>>
  BY <1>1, <1>3, <1>4
<1>5. CASE Compares(w, u, t)
  <2> DEFINE g == Remembered(seen[w][u], t)
             log == Append(heard[w][u],
                      [text |-> t, at |-> clock, ok |-> Tolerated(seen[w][u], t)])
  <2>1. Memory(seen[w][u], heard[w][u], clock)
    BY <1>1 DEF Knows
  <2>2. Memory(g, log, clock)
    BY <1>1, <2>1, MemoryText
  <2>3. g \in History /\ log \in Seq(Entry)
    BY <2>2 DEF Memory, Remembers
  <2>4. Len(log) = Len(heard[w][u]) + 1 /\ Len(heard[w][u]) \in Nat
    BY <1>1
  <2>5. seen' = [seen EXCEPT ![w][u] = g] /\ heard' = [heard EXCEPT ![w][u] = log]
    BY <1>5 DEF Compares
  <2> HIDE DEF g, log
  <2>6. /\ seen' \in [Worker -> [Sender -> History]]
        /\ heard' \in [Worker -> [Sender -> Seq(Entry)]]
        /\ seen'[w][u] = g /\ heard'[w][u] = log
        /\ \A v \in Worker, x \in Sender : v # w \/ x # u =>
             seen'[v][x] = seen[v][x] /\ heard'[v][x] = heard[v][x]
    BY <1>1, <2>3, <2>5
  <2>7. Knows(w, u)'
    <3>1. Len(heard[w][u]) <= Len(arrived[u])
      BY <1>1 DEF Knows
    <3>2. Len(log) <= Len(arrived'[u])
      BY <1>2, <2>4, <3>1
    <3> QED BY <2>2, <2>6, <3>2 DEF Knows
  <2> QED BY <1>1, <1>3, <2>6, <2>7
<1> QED BY <1>4, <1>5

\* A text of u is counted; then d and a are the counters of u, and the text may
\* go through.
TextCounts(u, d, a, may) ==
    /\ UNCHANGED <<clock, restarts>> /\ Receives(u)
    /\ counter' = [counter EXCEPT ![u] = d] /\ activity' = [activity EXCEPT ![u] = a]
    /\ passed' = passed \/ (may /\ LetsThrough(u))
    /\ outages' \in 0..MaxOutages /\ outages' >= outages
    /\ mute' = mute \/ mute' = mute \cup {u}
    /\ u \in mute' => d # Nothing
    /\ u \notin mute' /\ d # Nothing => clock - d.since < Window
    /\ Counts(d, Append(arrived[u], clock), clock)
    /\ Counts(a, Append(arrived[u], clock), clock)
    /\ \A s \in 0..clock :
         /\ Allowed(counter[u], s) + outages <= Allowed(d, s) + outages'
         /\ may => Allowed(counter[u], s) + outages + 1 <= Allowed(d, s) + outages'

LEMMA TextCounted ==
    ASSUME RateInv, NEW u \in Sender,
           NEW d \in Counter \cup {Nothing}, NEW a \in Counter \cup {Nothing},
           NEW may \in BOOLEAN, TextCounts(u, d, a, may)
    PROVE  \A x \in Sender : Fair(x)'
<1> USE DEF TextCounts, LetsThrough
<1>0. outages' \in Nat /\ mute \subseteq mute'
  BY Bounds
<1>1. /\ clock \in Nat /\ outages \in Nat
      /\ counter \in [Sender -> Counter \cup {Nothing}]
      /\ activity \in [Sender -> Counter \cup {Nothing}]
      /\ arrived \in [Sender -> Seq(Nat)] /\ passed \in [Sender -> Seq(Nat)]
      /\ \A x \in Sender : Fair(x)
  BY Bounds DEF RateInv, RateTyped
<1>2. /\ arrived' = [arrived EXCEPT ![u] = Append(arrived[u], clock)]
      /\ Len(arrived[u]) < MaxTexts
  BY DEF Receives
<1> SUFFICES ASSUME NEW x \in Sender PROVE Fair(x)'
  OBVIOUS
<1>3. CASE x # u
  <2>1. /\ counter'[x] = counter[x] /\ activity'[x] = activity[x]
        /\ arrived'[x] = arrived[x] /\ passed'[x] = passed[x]
    BY <1>1, <1>2, <1>3
  <2>2. counter[x] \in Counter \cup {Nothing} /\ passed[x] = passed[x]
    BY <1>1
  <2>3. Pace(passed[x], counter[x], clock, outages')
    <3>1. Pace(passed[x], counter[x], clock, outages)
      BY <1>1 DEF Fair
    <3>2. \A s \in 0..clock :
            Allowed(counter[x], s) + outages + 0 <= Allowed(counter[x], s) + outages'
      <4> TAKE s \in 0..clock
      <4>1. s \in Nat
        BY <1>1
      <4>2. Allowed(counter[x], s) \in Nat
        BY <2>2, <4>1, AllowedBound
      <4> QED BY <1>0, <1>1, <4>2
    <3> QED BY <1>0, <1>1, <2>2, <3>1, <3>2, PaceText
  <2> QED BY <1>0, <1>1, <2>1, <2>3 DEF Fair
<1>4. CASE x = u
  <2>1. /\ counter'[u] = d /\ activity'[u] = a
        /\ arrived'[u] = Append(arrived[u], clock)
        /\ counter[u] \in Counter \cup {Nothing}
        /\ arrived[u] \in Seq(Nat) /\ passed[u] \in Seq(Nat)
    BY <1>1, <1>2
  <2>2. Fair(u)
    BY <1>1
  <2>3. Until(arrived'[u], clock) /\ Len(arrived'[u]) = Len(arrived[u]) + 1
    BY <1>1, <2>1, <2>2, AppendPlaces DEF Fair, Until
  <2>4. PICK k \in Nat : /\ (k = 0 /\ passed'[u] = passed[u])
                              \/ (k = 1 /\ passed'[u] = Append(passed[u], clock))
                         /\ k = 1 => may
    <3>1. CASE passed' = passed
      BY <3>1
    <3>2. CASE may /\ passed' = [passed EXCEPT ![u] = Append(passed[u], clock)]
      BY <1>1, <3>2
    <3> QED BY <3>1, <3>2
  <2>5. \A s \in 0..clock :
          Allowed(counter[u], s) + outages + k <= Allowed(d, s) + outages'
    <3> TAKE s \in 0..clock
    <3>1. Allowed(counter[u], s) \in Nat
      <4>1. s \in Nat
        BY <1>1
      <4> QED BY <2>1, <4>1, AllowedBound
    <3>2. CASE k = 0
      BY <1>1, <3>1, <3>2
    <3>3. CASE k = 1
      BY <2>4, <3>3
    <3> QED BY <2>4, <3>2, <3>3
  <2>6. Pace(passed'[u], d, clock, outages')
    <3>1. Pace(passed[u], counter[u], clock, outages)
      BY <2>2 DEF Fair
    <3>2. outages' \in Nat /\ outages' >= outages /\ k \in Nat
      BY <1>0
    <3>3. \/ k = 0 /\ passed'[u] = passed[u]
          \/ k = 1 /\ passed'[u] = Append(passed[u], clock)
      BY <2>4
    <3> DEFINE q == passed[u]
               r == passed'[u]
               c == counter[u]
               out == outages
               more == outages'
    <3>4. /\ c \in Counter \cup {Nothing} /\ d \in Counter \cup {Nothing}
          /\ clock \in Nat /\ out \in Nat /\ more \in Nat /\ k \in Nat
          /\ Pace(q, c, clock, out) /\ more >= out
          /\ (k = 0 /\ r = q) \/ (k = 1 /\ r = Append(q, clock))
          /\ \A s \in 0..clock : Allowed(c, s) + out + k <= Allowed(d, s) + more
      BY <1>1, <2>1, <2>5, <3>1, <3>2, <3>3
    <3> HIDE DEF q, r, c, out, more
    <3>5. Pace(r, d, clock, more)
      BY <3>4, PaceText
    <3> QED BY <3>5 DEF r, more
  <2>7. /\ Len(passed'[u]) <= Len(arrived'[u]) /\ Len(arrived'[u]) <= MaxTexts
    <3>1. /\ Len(passed[u]) \in Nat /\ Len(arrived[u]) \in Nat
          /\ Len(passed[u]) <= Len(arrived[u])
      BY <2>1, <2>2 DEF Fair
    <3>2. Len(Append(passed[u], clock)) = Len(passed[u]) + 1
      BY <1>1, <2>1, AppendPlaces
    <3>3. Len(passed'[u]) = Len(passed[u]) \/ Len(passed'[u]) = Len(passed[u]) + 1
      BY <2>4, <3>2
    <3> QED BY <1>2, <2>3, <3>1, <3>3, Bounds
  <2> QED BY <1>4, <2>1, <2>3, <2>6, <2>7 DEF Fair
<1> QED BY <1>3, <1>4

\* The next text of a window is allowed for when it is within the limit.
LEMMA AllowedNext ==
    ASSUME NEW c \in Counter \cup {Nothing}, clock \in Nat,
           c # Nothing => c.since <= clock, NEW s \in 0..clock
    PROVE  /\ Allowed(c, s) <= Allowed(NextCount(c), s)
           /\ Within(NextCount(c)) => Allowed(c, s) + 1 <= Allowed(NextCount(c), s)
<1> USE Sizes
<1>1. CASE c = Nothing
  <2>1. NextCount(c) = [count |-> 1, since |-> clock]
    BY <1>1 DEF NextCount, Started
  <2>2. NextCount(c) # Nothing
    BY <2>1, RateLimiterAssumption
  <2>3. ~(s > clock)
    OBVIOUS
  <2>4. Allowed(NextCount(c), s) = RateMax - 1 + 1
    BY <2>1, <2>2, <2>3 DEF Allowed, Through
  <2> QED BY <1>1, <2>4 DEF Allowed
<1>2. CASE c # Nothing
  <2>1. c \in Counter /\ c.count \in Nat /\ c.count > 0 /\ c.since \in Nat
    BY <1>2 DEF Counter
  <2>2. NextCount(c) = [count |-> c.count + 1, since |-> c.since]
    BY <1>2, <2>1 DEF NextCount, Counter
  <2>3. NextCount(c) # Nothing
    BY <2>1, <2>2, RateLimiterAssumption
  <2>4. Through(c) <= Through(NextCount(c)) /\ Through(c) \in Nat /\ Through(NextCount(c)) \in Nat
    BY <2>1, <2>2 DEF Through
  <2>5. Within(NextCount(c)) => Through(NextCount(c)) = Through(c) + 1
    BY <2>1, <2>2 DEF Through, Within
  <2>6. NextCount(c).since = c.since
    BY <2>2
  <2> HIDE DEF NextCount
  <2> QED BY <1>2, <2>1, <2>3, <2>4, <2>5, <2>6 DEF Allowed
<1> QED BY <1>1, <1>2

\* The typed part of a step that counts a text.
LEMMA TextTyped ==
    ASSUME RateInv, NEW u \in Sender,
           NEW d \in Counter \cup {Nothing}, NEW a \in Counter \cup {Nothing},
           NEW may \in BOOLEAN, TextCounts(u, d, a, may),
           seen' \in [Worker -> [Sender -> History]],
           heard' \in [Worker -> [Sender -> Seq(Entry)]]
    PROVE  RateTyped'
<1> USE DEF TextCounts, LetsThrough
<1>1. RateTyped /\ clock \in Nat
  BY Bounds DEF RateInv, RateTyped
<1>2. arrived' = [arrived EXCEPT ![u] = Append(arrived[u], clock)]
  BY DEF Receives
<1>3. Append(arrived[u], clock) \in Seq(Nat) /\ Append(passed[u], clock) \in Seq(Nat)
  BY <1>1, AppendPlaces DEF RateTyped
<1>4. arrived' \in [Sender -> Seq(Nat)] /\ passed' \in [Sender -> Seq(Nat)]
  BY <1>1, <1>2, <1>3 DEF RateTyped
<1>5. /\ counter' \in [Sender -> Counter \cup {Nothing}]
      /\ activity' \in [Sender -> Counter \cup {Nothing}]
      /\ \A x \in Sender : x # u => counter'[x] = counter[x]
      /\ counter'[u] = d
  BY <1>1 DEF RateTyped
<1>6. mute' \subseteq Sender /\ \A x \in mute' : counter'[x] # Nothing
  BY <1>1, <1>5 DEF RateTyped
<1> QED BY <1>1, <1>4, <1>5, <1>6 DEF RateTyped

LEMMA RedisPreserves ==
    ASSUME RateInv, NEW w \in Worker, NEW u \in Sender, NEW t \in Text, CheckRedis(w, u, t)
    PROVE  RateInv'
<1> DEFINE c == counter[u]
           d == NextCount(c)
           a == activity[u]
           may == Within(d)
<1>1. /\ Receives(u) /\ counter' = [counter EXCEPT ![u] = d]
      /\ UNCHANGED <<clock, mute, activity, outages, restarts>>
  BY DEF CheckRedis
<1>2. RateTyped /\ clock \in Nat /\ outages \in 0..MaxOutages /\ outages \in Nat /\ Fair(u)
  BY Bounds DEF RateInv, RateTyped
<1>3. c \in Counter \cup {Nothing} /\ a \in Counter \cup {Nothing} /\ arrived[u] \in Seq(Nat)
  BY <1>2 DEF RateTyped
<1>4. Judge(w, u, t, d)
  <2>1. counter'[u] = d
    BY <1>1, <1>2 DEF RateTyped
  <2> QED BY <2>1 DEF CheckRedis
<1>5. activity' = [activity EXCEPT ![u] = a]
  BY <1>1, <1>2 DEF RateTyped
<1>6. /\ d \in Counter \cup {Nothing} /\ d # Nothing
      /\ Counts(d, Append(arrived[u], clock), clock)
      /\ Counts(a, Append(arrived[u], clock), clock)
  <2>1. Counts(c, arrived[u], clock) /\ Counts(a, arrived[u], clock)
    BY <1>2 DEF Fair
  <2> HIDE DEF a, c
  <2> QED BY <1>2, <1>3, <2>1, CountsNext
<1>7. u \notin mute' /\ d # Nothing => clock - d.since < Window
  <2> SUFFICES ASSUME u \notin mute PROVE clock - d.since < Window
    BY <1>1
  <2>1. CASE c = Nothing
    BY <1>2, <2>1, Sizes DEF NextCount, Started
  <2>2. CASE c # Nothing
    BY <1>2, <1>3, <2>2 DEF NextCount, Fair, Counter
  <2> QED BY <2>1, <2>2
<1>8. may \in BOOLEAN
  BY DEF Within
<1>9. \A s \in 0..clock :
        /\ Allowed(c, s) + outages <= Allowed(d, s) + outages'
        /\ may => Allowed(c, s) + outages + 1 <= Allowed(d, s) + outages'
  <2> TAKE s \in 0..clock
  <2>1. c # Nothing => c.since <= clock
    BY <1>2 DEF Fair, Counts
  <2>2. Allowed(c, s) <= Allowed(d, s) /\ (may => Allowed(c, s) + 1 <= Allowed(d, s))
    BY <1>2, <1>3, <2>1, AllowedNext
  <2>3. Allowed(c, s) \in Nat /\ Allowed(d, s) \in Nat
    <3>1. s \in Nat
      BY <1>2
    <3> QED BY <1>3, <1>6, <3>1, AllowedBound
  <2> HIDE DEF c, d, may
  <2> QED BY <1>1, <1>2, <2>2, <2>3
<1>10. passed' = passed \/ (may /\ LetsThrough(u))
  BY <1>4, JudgeOutcomes
<1>11. arrived' = [arrived EXCEPT ![u] = Append(arrived[u], clock)] /\ clock' = clock
  BY <1>1 DEF Receives
<1>12. /\ seen' \in [Worker -> [Sender -> History]]
       /\ heard' \in [Worker -> [Sender -> Seq(Entry)]]
       /\ \A v \in Worker, x \in Sender : Knows(v, x)'
  <2>1. UNCHANGED <<seen, heard>> \/ Compares(w, u, t)
    BY <1>4, JudgeOutcomes
  <2> QED BY <1>11, <2>1, TextRemembered
<1>13. TextCounts(u, d, a, may)
  <2>1. outages' \in 0..MaxOutages /\ outages' >= outages
    BY <1>1, <1>2
  <2>2. mute' = mute /\ clock' = clock /\ restarts' = restarts
    BY <1>1
  <2> HIDE DEF d, a, may
  <2> QED BY <1>1, <1>5, <1>6, <1>7, <1>9, <1>10, <2>1, <2>2 DEF TextCounts
<1> HIDE DEF a, d, may
<1>14. \A x \in Sender : Fair(x)'
  BY <1>3, <1>6, <1>8, <1>13, TextCounted
<1>15. RateTyped'
  BY <1>3, <1>6, <1>8, <1>12, <1>13, TextTyped
<1> QED BY <1>12, <1>14, <1>15 DEF RateInv

\* When Redis fails, the failure allows for the text.
LEMMA DatabasePreserves ==
    ASSUME RateInv, NEW w \in Worker, NEW u \in Sender, NEW t \in Text,
           Receives(u), RedisFails(u), UNCHANGED <<clock, restarts>>,
           NEW a \in Counter \cup {Nothing}, activity' = [activity EXCEPT ![u] = a],
           Counts(a, Append(arrived[u], clock), clock),
           NEW counted, Judge(w, u, t, counted)
    PROVE  RateInv'
<1> DEFINE c == counter[u]
<1>1. RateTyped /\ clock \in Nat /\ outages \in 0..MaxOutages /\ outages \in Nat /\ Fair(u)
  BY Bounds DEF RateInv, RateTyped
<1>2. c \in Counter \cup {Nothing} /\ arrived[u] \in Seq(Nat)
  BY <1>1 DEF RateTyped
<1>3. outages' = outages + 1 /\ outages' \in 0..MaxOutages
  BY <1>1, Bounds DEF RedisFails, Outage
<1>4. Counts(c, Append(arrived[u], clock), clock)
  <2>1. Counts(c, arrived[u], clock)
    BY <1>1 DEF Fair
  <2> HIDE DEF c
  <2> QED BY <1>1, <1>2, <2>1, CountsNext
<1>5. PICK d \in Counter \cup {Nothing} :
        /\ counter' = [counter EXCEPT ![u] = d]
        /\ mute' = mute \/ mute' = mute \cup {u}
        /\ u \in mute' => d # Nothing
        /\ u \notin mute' /\ d # Nothing => clock - d.since < Window
        /\ Counts(d, Append(arrived[u], clock), clock)
        /\ \A s \in 0..clock : Allowed(c, s) <= Allowed(d, s)
  <2>1. CASE UNCHANGED <<counter, mute>>
    <3>1. counter' = [counter EXCEPT ![u] = c]
      BY <1>1, <2>1 DEF RateTyped
    <3>2. \A s \in 0..clock : Allowed(c, s) <= Allowed(c, s)
      <4> TAKE s \in 0..clock
      <4>1. Allowed(c, s) \in Nat
        <5>1. s \in Nat
          BY <1>1
        <5> QED BY <1>2, <5>1, AllowedBound
      <4> QED BY <4>1
    <3>3. u \in mute' => c # Nothing
      BY <1>1, <2>1 DEF RateTyped
    <3>4. u \notin mute' /\ c # Nothing => clock - c.since < Window
      BY <1>1, <2>1 DEF Fair
    <3> HIDE DEF c
    <3> QED BY <1>2, <1>4, <2>1, <3>1, <3>2, <3>3, <3>4
  <2>2. CASE /\ c = Nothing
             /\ counter' = [counter EXCEPT ![u] = Started] /\ mute' = mute \cup {u}
    <3>1. Started = NextCount(c)
      BY <2>2 DEF NextCount
    <3>2. Started \in Counter /\ Started # Nothing
      BY <1>1, RateLimiterAssumption DEF Started, Counter
    <3>3. Counts(Started, Append(arrived[u], clock), clock)
      <4>1. Counts(c, arrived[u], clock)
        BY <1>1 DEF Fair
      <4> HIDE DEF c
      <4> QED BY <1>1, <1>2, <3>1, <4>1, CountsNext
    <3>4. \A s \in 0..clock : Allowed(c, s) <= Allowed(Started, s)
      <4> HIDE DEF c
      <4> QED BY <1>1, <1>2, <2>2, <3>1, AllowedNext
    <3> QED BY <2>2, <3>2, <3>3, <3>4
  <2> QED BY <2>1, <2>2 DEF RedisFails
<1>6. passed' = passed \/ LetsThrough(u)
  BY JudgeOutcomes
<1>7. arrived' = [arrived EXCEPT ![u] = Append(arrived[u], clock)] /\ clock' = clock
  BY DEF Receives
<1>8. /\ seen' \in [Worker -> [Sender -> History]]
      /\ heard' \in [Worker -> [Sender -> Seq(Entry)]]
      /\ \A v \in Worker, x \in Sender : Knows(v, x)'
  <2>1. UNCHANGED <<seen, heard>> \/ Compares(w, u, t)
    BY JudgeOutcomes
  <2> QED BY <1>7, <2>1, TextRemembered
<1>9. \A s \in 0..clock :
        /\ Allowed(counter[u], s) + outages <= Allowed(d, s) + outages'
        /\ Allowed(counter[u], s) + outages + 1 <= Allowed(d, s) + outages'
  <2> TAKE s \in 0..clock
  <2>1. Allowed(c, s) <= Allowed(d, s)
    BY <1>5
  <2>2. Allowed(c, s) \in Nat /\ Allowed(d, s) \in Nat
    <3>1. s \in Nat
      BY <1>1
    <3> QED BY <1>2, <3>1, AllowedBound
  <2> QED BY <1>1, <1>3, <2>1, <2>2
<1> DEFINE may == TRUE
<1>10. TextCounts(u, d, a, may)
  BY <1>1, <1>3, <1>5, <1>6, <1>9 DEF TextCounts
<1>11. may \in BOOLEAN
  OBVIOUS
<1> HIDE DEF may
<1>12. \A x \in Sender : Fair(x)'
  BY <1>10, <1>11, TextCounted
<1>13. RateTyped'
  BY <1>8, <1>10, <1>11, TextTyped
<1> QED BY <1>8, <1>12, <1>13 DEF RateInv

\* The row of the database, or none if its window has ended.
LEMMA RowCounts ==
    ASSUME RateInv, NEW u \in Sender, NEW old, old = activity[u],
           NEW now \in {old, Nothing}, NEW counted, counted = NextCount(now)
    PROVE  /\ old \in Counter \cup {Nothing} /\ now \in Counter \cup {Nothing}
           /\ Counts(now, arrived[u], clock) /\ counted \in Counter
           /\ Counts(old, Append(arrived[u], clock), clock)
           /\ Counts(counted, Append(arrived[u], clock), clock)
<1>1. /\ clock \in Nat /\ arrived[u] \in Seq(Nat) /\ old \in Counter \cup {Nothing}
      /\ Counts(old, arrived[u], clock)
  BY Bounds DEF RateInv, RateTyped, Fair
<1>2. now \in Counter \cup {Nothing} /\ Counts(now, arrived[u], clock)
  BY <1>1 DEF Counts
<1>3. /\ NextCount(now) \in Counter
      /\ Counts(NextCount(now), Append(arrived[u], clock), clock)
  BY <1>1, <1>2, CountsNext
<1>4. Counts(old, Append(arrived[u], clock), clock)
  BY <1>1, CountsNext
<1> QED BY <1>1, <1>2, <1>3, <1>4

LEMMA CheckDatabasePreserves ==
    ASSUME RateInv, NEW w \in Worker, NEW u \in Sender, NEW t \in Text,
           CheckDatabase(w, u, t)
    PROVE  RateInv'
<1> DEFINE old == activity[u]
           now == IF old # Nothing /\ clock - old.since > Window THEN Nothing ELSE old
           counted == NextCount(now)
<1>1. /\ Receives(u) /\ RedisFails(u) /\ UNCHANGED <<clock, restarts>>
      /\ activity' \in {activity, [activity EXCEPT ![u] = counted]}
      /\ Judge(w, u, t, counted)
  BY DEF CheckDatabase
<1>2. now \in {old, Nothing}
  OBVIOUS
<1> HIDE DEF now
<1>3. /\ old \in Counter \cup {Nothing} /\ counted \in Counter
      /\ Counts(old, Append(arrived[u], clock), clock)
      /\ Counts(counted, Append(arrived[u], clock), clock)
  BY <1>2, RowCounts
<1>4. PICK a \in {old, counted} : activity' = [activity EXCEPT ![u] = a]
  <2>1. CASE activity' = activity
    BY <2>1 DEF RateInv, RateTyped
  <2>2. CASE activity' = [activity EXCEPT ![u] = counted]
    BY <2>2
  <2> QED BY <1>1, <2>1, <2>2
<1> HIDE DEF counted, old
<1>5. a \in Counter \cup {Nothing} /\ Counts(a, Append(arrived[u], clock), clock)
  BY <1>3, <1>4
<1> QED BY <1>1, <1>4, <1>5, DatabasePreserves

LEMMA CheckFailsPreserves ==
    ASSUME RateInv, NEW w \in Worker, NEW u \in Sender, NEW t \in Text, CheckFails(w, u, t)
    PROVE  RateInv'
<1> DEFINE a == activity[u]
<1>1. /\ Receives(u) /\ RedisFails(u) /\ UNCHANGED <<clock, restarts>>
      /\ activity' = [activity EXCEPT ![u] = a] /\ Judge(w, u, t, Started)
  BY DEF CheckFails, RateInv, RateTyped
<1>2. a \in Counter \cup {Nothing} /\ Counts(a, Append(arrived[u], clock), clock)
  BY RowCounts
<1> HIDE DEF a
<1> QED BY <1>1, <1>2, DatabasePreserves

LEMMA RateStep == RateInv /\ [RateNext]_rate => RateInv'
<1> SUFFICES ASSUME RateInv, [RateNext]_rate PROVE RateInv'
  OBVIOUS
<1>1. CASE UNCHANGED rate
  BY <1>1 DEF rate, RateInv, RateTyped, Fair, Knows
<1>2. CASE RateNext
  BY <1>2, TickPreserves, RestartPreserves, RedisPreserves, CheckDatabasePreserves,
     CheckFailsPreserves
  DEF RateNext
<1> QED BY <1>1, <1>2

-----------------------------------------------------------------------------
(* What a text that is refused tells.                                      *)

LEMMA CountedCame ==
    ASSUME NEW c \in Counter, NEW q, clock \in Nat, Until(q, clock), Counts(c, q, clock),
           c # Nothing, c.count >= RateMax, clock - c.since <= Window
    PROVE  CameIn(q, (clock - Window)..clock) >= RateMax
<1> DEFINE S == {i \in DOMAIN q : q[i] >= c.since}
           C == {i \in DOMAIN q : q[i] \in (clock - Window)..clock}
<1>1. q \in Seq(Nat) /\ \A i \in DOMAIN q : q[i] \in Nat /\ q[i] <= clock
  <2>1. q \in Seq(Nat)
    BY DEF Until
  <2> QED BY <2>1 DEF Until
<1>2. c.since \in Nat /\ c.count \in Nat
  BY DEF Counter
<1>3. S \subseteq C
  BY <1>1, <1>2, Sizes
<1>4. IsFiniteSet(C) /\ Cardinality(C) \in Nat /\ Cardinality(S) \in Nat
  BY <1>1, PlacesFinite
<1>5. Cardinality(S) >= c.count
  BY DEF Counts, Since
<1> HIDE DEF S, C
<1>6. Cardinality(S) <= Cardinality(C)
  BY <1>3, <1>4, FS_Subset
<1>7. Cardinality(C) >= RateMax
  BY <1>2, <1>4, <1>5, <1>6, Sizes
<1> QED BY <1>7 DEF C, CameIn

\* The first text of a window is within the limit.
LEMMA PausedCount ==
    ASSUME NEW c \in Counter \cup {Nothing}, ~Within(NextCount(c))
    PROVE  c # Nothing /\ c.count >= RateMax
<1>1. CASE c = Nothing
  BY <1>1, Sizes DEF Within, NextCount, Started
<1>2. CASE c # Nothing
  BY <1>2, Sizes DEF Within, NextCount, Counter
<1> QED BY <1>1, <1>2

LEMMA RefusedByCount ==
    ASSUME RateInv, NEW w \in Worker, NEW u \in Sender, NEW t \in Text,
           NEW counted, Judge(w, u, t, counted), passed'[u] = passed[u], heard' = heard
    PROVE  ~Within(counted)
<1>1. /\ passed \in [Sender -> Seq(Nat)] /\ heard \in [Worker -> [Sender -> Seq(Entry)]]
      /\ clock \in Nat
  BY Bounds DEF RateInv, RateTyped
<1>2. ~LetsThrough(u)
  <2>1. ASSUME LetsThrough(u) PROVE FALSE
    <3>1. passed[u] \in Seq(Nat) /\ passed[u] = Append(passed[u], clock)
      BY <1>1, <2>1 DEF LetsThrough
    <3>2. Len(passed[u]) \in Nat /\ Len(passed[u]) = Len(passed[u]) + 1
      BY <1>1, <3>1, AppendPlaces
    <3> QED BY <3>2
  <2> QED BY <2>1
<1>3. ~Compares(w, u, t)
  <2>1. ASSUME Compares(w, u, t) PROVE FALSE
    <3> DEFINE q == heard[w][u]
               e == [text |-> t, at |-> clock, ok |-> Tolerated(seen[w][u], t)]
    <3>1. heard' = [heard EXCEPT ![w][u] = Append(q, e)]
      BY <2>1 DEF Compares
    <3>2. q \in Seq(Entry)
      BY <1>1
    <3> HIDE DEF e
    <3>3. q = Append(q, e)
      BY <1>1, <3>1
    <3>4. Len(Append(q, e)) = Len(q) + 1 /\ Len(q) \in Nat
      BY <3>2
    <3> HIDE DEF q
    <3> QED BY <3>3, <3>4
  <2> QED BY <2>1
<1> QED BY <1>2, <1>3, JudgeOutcomes

\* PausedIsCounted, of one step and one sender.
Paused(u) == arrived'[u] # arrived[u] /\ passed'[u] = passed[u] /\ heard' = heard

CountedIn(u) == u \in mute' \/ CameIn(arrived[u], (clock - Window)..clock) >= RateMax

LEMMA RedisPaused ==
    ASSUME RateInv, NEW w \in Worker, NEW u \in Sender, NEW t \in Text,
           CheckRedis(w, u, t), Paused(u)
    PROVE  CountedIn(u)
<1> DEFINE c == counter[u]
<1>1. /\ clock \in Nat /\ c \in Counter \cup {Nothing} /\ Until(arrived[u], clock)
      /\ Counts(c, arrived[u], clock)
      /\ u \notin mute /\ c # Nothing => clock - c.since < Window
  BY Bounds DEF RateInv, RateTyped, Fair
<1>2. Judge(w, u, t, NextCount(c))
  BY DEF CheckRedis, RateInv, RateTyped
<1> HIDE DEF c
<1>3. ~Within(NextCount(c))
  BY <1>2, RefusedByCount DEF Paused
<1>4. c \in Counter /\ c # Nothing /\ c.count >= RateMax
  BY <1>1, <1>3, PausedCount
<1>5. mute' = mute
  BY DEF CheckRedis
<1>6. CASE u \notin mute
  <2>1. clock - c.since <= Window
    BY <1>1, <1>4, <1>6, Sizes DEF Counter
  <2> QED BY <1>1, <1>4, <2>1, CountedCame DEF CountedIn
<1> QED BY <1>5, <1>6 DEF CountedIn

LEMMA DatabasePaused ==
    ASSUME RateInv, NEW w \in Worker, NEW u \in Sender, NEW t \in Text,
           CheckDatabase(w, u, t), Paused(u)
    PROVE  CountedIn(u)
<1> DEFINE old == activity[u]
           now == IF old # Nothing /\ clock - old.since > Window THEN Nothing ELSE old
<1>1. Judge(w, u, t, NextCount(now))
  BY DEF CheckDatabase
<1>2. now # Nothing => now = old /\ ~(clock - now.since > Window)
  OBVIOUS
<1>3. now \in {old, Nothing}
  OBVIOUS
<1> HIDE DEF now
<1>4. now \in Counter \cup {Nothing} /\ Counts(now, arrived[u], clock)
  BY <1>3, RowCounts
<1>5. ~Within(NextCount(now))
  BY <1>1, RefusedByCount DEF Paused
<1>6. now \in Counter /\ now # Nothing /\ now.count >= RateMax
  BY <1>4, <1>5, PausedCount
<1>7. clock \in Nat /\ Until(arrived[u], clock)
  BY Bounds DEF RateInv, RateTyped, Fair
<1>8. clock - now.since <= Window
  BY <1>2, <1>6, <1>7, Sizes DEF Counter
<1> QED BY <1>4, <1>6, <1>7, <1>8, CountedCame DEF CountedIn

LEMMA FailsPaused ==
    ASSUME RateInv, NEW w \in Worker, NEW u \in Sender, NEW t \in Text,
           CheckFails(w, u, t), Paused(u)
    PROVE  FALSE
<1>1. ~Within(Started)
  BY RefusedByCount DEF CheckFails, Paused
<1> QED BY <1>1, Sizes DEF Within, Started

LEMMA StepPaused ==
    ASSUME RateInv, RateNext, NEW u \in Sender, Paused(u)
    PROVE  CountedIn(u)
<1>1. ~RateTick
  BY DEF RateTick, Paused
<1>2. ASSUME NEW w \in Worker PROVE ~Restart(w)
  BY DEF Restart, Paused
<1>3. ASSUME NEW w \in Worker, NEW x \in Sender, NEW t \in Text,
             CheckRedis(w, x, t) \/ CheckDatabase(w, x, t) \/ CheckFails(w, x, t)
      PROVE  CountedIn(u)
  <2>1. Receives(x)
    BY <1>3 DEF CheckRedis, CheckDatabase, CheckFails
  <2>2. x = u
    BY <2>1 DEF Receives, Paused, RateInv, RateTyped
  <2> QED BY <1>3, <2>2, RedisPaused, DatabasePaused, FailsPaused
<1> QED BY <1>1, <1>2, <1>3 DEF RateNext

-----------------------------------------------------------------------------
(* The breaker.                                                            *)

BreakerInv == BreakerTypeOK /\ failures.count <= failed

LEMMA BreakerInitInv == BreakerInit => BreakerInv
  BY BreakerAssumption DEF BreakerInit, BreakerInv, BreakerTypeOK, NoFailures

LEMMA BreakerStep == BreakerInv /\ [BreakerNext]_breakerVars => BreakerInv'
<1> SUFFICES ASSUME BreakerInv, [BreakerNext]_breakerVars PROVE BreakerInv'
  OBVIOUS
<1> USE BreakerAssumption DEF BreakerInv, BreakerTypeOK
<1>1. CASE UNCHANGED breakerVars
  BY <1>1 DEF breakerVars
<1>2. ASSUME NEW c \in Call, Asks(c) PROVE BreakerInv'
  BY <1>2 DEF Asks, At, Lost
<1>3. ASSUME NEW c \in Call, Succeeds(c) PROVE BreakerInv'
  BY <1>3 DEF Succeeds, At, Lost
<1>4. ASSUME NEW c \in Call, Forgets(c) PROVE BreakerInv'
  <2>1. /\ UNCHANGED <<breaker, failed>>
        /\ call' \in [Call -> {"idle", "asking", "succeeded", "failed"}]
    BY <1>4 DEF Forgets, At
  <2>2. lost' \in 0..MaxLost
    BY <1>4 DEF Forgets, Lost
  <2>3. CASE failures' = failures
    BY <2>1, <2>2, <2>3
  <2>4. CASE failures' = NoFailures
    <3>1. failures'.count = 0 /\ failures'.expires = FALSE
      BY <2>4 DEF NoFailures
    <3>2. failures' \in [count : 0..MaxFailed, expires : BOOLEAN]
      BY <2>4 DEF NoFailures
    <3> QED BY <2>1, <2>2, <3>1, <3>2
  <2> QED BY <1>4, <2>3, <2>4 DEF Forgets
<1>5. ASSUME NEW c \in Call, Fails(c) PROVE BreakerInv'
  <2>1. /\ failed' = failed + 1 /\ failed' \in 0..MaxFailed
        /\ UNCHANGED breaker
        /\ call' \in [Call -> {"idle", "asking", "succeeded", "failed"}]
        /\ lost' \in 0..MaxLost
    BY <1>5 DEF Fails, At, Lost
  <2>2. \E x \in BOOLEAN, k \in {failures.count, failures.count + 1} :
           /\ failures' = [count |-> k, expires |-> x]
           /\ x => k > 0
    <3> DEFINE n == failures.count + 1
    <3>1. failures = [count |-> failures.count, expires |-> failures.expires]
      OBVIOUS
    <3> DEFINE counted == [failures EXCEPT !.count = @ + 1]
    <3>2. counted = [count |-> n, expires |-> failures.expires]
      BY <3>1
    <3>3. [counted EXCEPT !.expires = @ \/ failures.count = 0]
             = [count |-> n, expires |-> failures.expires \/ failures.count = 0]
      <4> DEFINE x == counted.expires \/ failures.count = 0
      <4>1. counted.count = n /\ counted.expires = failures.expires
        BY <3>2
      <4>2. x = (failures.expires \/ failures.count = 0)
        BY <4>1
      <4>3. [counted EXCEPT !.expires = x] = [count |-> n, expires |-> x]
        <5> HIDE DEF x, counted
        <5> QED BY <3>2
      <4> QED BY <4>2, <4>3
    <3>4. \/ failures' = failures
          \/ failures' = counted
          \/ failures' = [counted EXCEPT !.expires = @ \/ failures.count = 0]
      BY <1>5 DEF Fails
    <3>5. n > 0 /\ failures.expires \in BOOLEAN
      OBVIOUS
    <3>6. failures.expires => failures.count > 0
      OBVIOUS
    <3> HIDE DEF counted
    <3>7. CASE failures' = failures
      BY <3>1, <3>5, <3>6, <3>7
    <3>8. CASE failures' = counted
      BY <3>2, <3>5, <3>8
    <3>9. CASE failures' = [counted EXCEPT !.expires = @ \/ failures.count = 0]
      BY <3>3, <3>5, <3>9
    <3> QED BY <3>4, <3>7, <3>8, <3>9
  <2>3. PICK x \in BOOLEAN, k \in {failures.count, failures.count + 1} :
           /\ failures' = [count |-> k, expires |-> x]
           /\ x => k > 0
    BY <2>2
  <2>4. k \in Nat /\ k <= failed + 1
    OBVIOUS
  <2> QED BY <2>1, <2>3, <2>4
<1>6. ASSUME NEW c \in Call, Opens(c) PROVE BreakerInv'
  BY <1>6 DEF Opens, At, Lost
<1>7. CASE OpenExpires
  BY <1>7 DEF OpenExpires
<1>8. CASE FailuresExpire
  BY <1>8 DEF FailuresExpire, NoFailures
<1> QED BY <1>1, <1>2, <1>3, <1>4, <1>5, <1>6, <1>7, <1>8 DEF BreakerNext

-----------------------------------------------------------------------------
(* The parts together: each step is a step of one of them, or of none.      *)

LEMMA StepOfParts ==
    [Next]_vars => [RateNext]_rate /\ [KycNext]_kycVars /\ [BreakerNext]_breakerVars
  BY DEF Next, vars

LEMMA RateAlways == Spec => []RateInv
<1>1. Init => RateInv
  BY RateInitInv DEF Init
<1>2. RateInv /\ [Next]_vars => RateInv'
  BY RateStep, StepOfParts
<1> QED BY <1>1, <1>2, PTL DEF Spec

LEMMA KycAlways == Spec => []KycInv
<1>1. Init => KycInv
  BY InitEstablishes DEF Init
<1>2. KycInv /\ [Next]_vars => KycInv'
  BY NextPreserves, StepOfParts
<1> QED BY <1>1, <1>2, PTL DEF Spec

LEMMA BreakerAlways == Spec => []BreakerInv
<1>1. Init => BreakerInv
  BY BreakerInitInv DEF Init
<1>2. BreakerInv /\ [Next]_vars => BreakerInv'
  BY BreakerStep, StepOfParts
<1> QED BY <1>1, <1>2, PTL DEF Spec

LEMMA CountInRange ==
    ASSUME RateInv, NEW u \in Sender, NEW c \in Counter \cup {Nothing},
           Counts(c, arrived[u], clock)
    PROVE  c \in Count \cup {Nothing}
<1>1. CASE c = Nothing
  BY <1>1
<1>2. CASE c # Nothing
  <2>1. c \in Counter
    BY <1>2
  <2>2. /\ c.since \in Nat /\ c.count \in Nat /\ c.count > 0
        /\ c = [count |-> c.count, since |-> c.since]
    BY <2>1 DEF Counter
  <2>3. c.since <= clock /\ c.count <= Since(arrived[u], c.since)
    BY <1>2 DEF Counts
  <2>4. /\ clock \in Nat /\ clock <= MaxTime
        /\ arrived[u] \in Seq(Nat) /\ Len(arrived[u]) <= MaxTexts
    BY Bounds DEF RateInv, RateTyped, Fair
  <2>5. /\ Since(arrived[u], c.since) \in Nat
        /\ Since(arrived[u], c.since) <= Len(arrived[u])
    BY <2>2, <2>4, SinceNat
  <2>6. Len(arrived[u]) \in Nat
    BY <2>4
  <2>7. c.since \in 0..MaxTime /\ c.count \in 1..MaxTexts
    <3> DEFINE n == Since(arrived[u], c.since)  m == Len(arrived[u])
               k == c.count  s == c.since
    <3>1. /\ n \in Nat /\ m \in Nat /\ k \in Nat /\ s \in Nat /\ k > 0
          /\ k <= n /\ n <= m /\ m <= MaxTexts /\ s <= clock
      BY <2>2, <2>3, <2>4, <2>5, <2>6
    <3> HIDE DEF n, m, k, s
    <3>2. s \in 0..MaxTime /\ k \in 1..MaxTexts
      BY <3>1, <2>4, Bounds
    <3> QED BY <3>2 DEF k, s
  <2> QED BY <2>2, <2>7 DEF Count
<1> QED BY <1>1, <1>2

LEMMA RateInvTypes == RateInv => RateTypeOK
<1> SUFFICES ASSUME RateInv PROVE RateTypeOK
  OBVIOUS
<1>1. RateTyped
  BY DEF RateInv
<1>2. ASSUME NEW u \in Sender
      PROVE  counter[u] \in Count \cup {Nothing} /\ activity[u] \in Count \cup {Nothing}
  <2>1. Counts(counter[u], arrived[u], clock) /\ Counts(activity[u], arrived[u], clock)
    BY DEF RateInv, Fair
  <2> QED BY <1>1, <2>1, CountInRange DEF RateTyped
<1>3. ASSUME NEW w \in Worker, NEW u \in Sender
      PROVE  /\ seen[w][u].last \in Text \cup {Nothing} /\ seen[w][u].repeats \in Nat
             /\ seen[w][u].times = <<>> <=> seen[w][u] = NoHistory
             /\ \A i \in DOMAIN seen[w][u].times : seen[w][u].times[i] <= clock
             /\ Len(heard[w][u]) <= Len(arrived[u])
  <2> DEFINE h == seen[w][u]  log == heard[w][u]
  <2>1. Remembers(h, log, clock) /\ Len(log) <= Len(arrived[u])
    BY DEF RateInv, Knows, Memory
  <2> HIDE DEF h, log
  <2>2. /\ Len(log) \in Nat /\ DOMAIN log = 1..Len(log)
        /\ Len(h.times) \in Nat /\ DOMAIN h.times = 1..Len(h.times)
        /\ Dropped(h, log) \in Nat /\ Dropped(h, log) + Len(h.times) = Len(log)
    BY <2>1, LogTypes
  <2>3. h \in History
    BY <2>1 DEF Remembers
  <2>4. h.last \in Text \cup {Nothing} /\ h.repeats \in Nat
    BY <2>3 DEF History
  <2>5. h.times = <<>> <=> h = NoHistory
    <3>1. CASE Len(log) = 0
      BY <2>1, <3>1 DEF Remembers, NoHistory
    <3>2. CASE Len(log) > 0
      BY <2>1, <3>2 DEF Remembers, NoHistory
    <3> QED BY <2>2, <3>1, <3>2
  <2>6. ASSUME NEW i \in DOMAIN h.times PROVE h.times[i] <= clock
    <3>1. Dropped(h, log) + i \in DOMAIN log
      BY <2>2
    <3> QED BY <2>1, <3>1 DEF Remembers
  <2> QED BY <2>1, <2>4, <2>5, <2>6 DEF h, log
<1>4. ASSUME NEW u \in Sender
      PROVE  Len(passed[u]) <= Len(arrived[u]) /\ Len(arrived[u]) <= MaxTexts
  BY DEF RateInv, Fair
<1>5. /\ counter \in [Sender -> Count \cup {Nothing}]
      /\ activity \in [Sender -> Count \cup {Nothing}]
  BY <1>1, <1>2 DEF RateTyped
<1>6. mute \subseteq {u \in Sender : counter[u] # Nothing}
  BY <1>1 DEF RateTyped
<1>7. clock \in 0..MaxTime /\ outages \in 0..MaxOutages /\ restarts \in 0..MaxRestarts
  BY <1>1 DEF RateTyped
<1> QED BY <1>3, <1>4, <1>5, <1>6, <1>7 DEF RateTypeOK

-----------------------------------------------------------------------------
(* Theorems.                                                               *)

\* The counters and memories of rate_limiter.is_rate_limited, the documents and
\* states of kyc_service and the breaker of the extraction are always
\* well-formed: no counter counts more texts than came, no memory holds a time
\* to come.
THEOREM IntakeTypes == Spec => []IntakeTypeOK
<1>1. RateInv /\ KycInv /\ BreakerInv => IntakeTypeOK
  BY RateInvTypes DEF KycInv, BreakerInv, IntakeTypeOK
<1> QED BY <1>1, RateAlways, KycAlways, BreakerAlways, PTL

\* is_rate_limited lets through less than twice its limit in any stretch as long
\* as a window, from all workers together, and one text more for each call to
\* Redis that failed, whatever the limit, the window and the texts.
THEOREM NeverTwiceTheLimit == Spec => []AtMostTwice
<1>1. RateInv => AtMostTwice
  BY DEF RateInv, Fair, Pace, AtMostTwice
<1> QED BY <1>1, RateAlways, PTL

\* A worker of is_rate_limited never lets the same long text through three times
\* in a row, however the repetitions are interleaved with other senders, other
\* workers and texts the counters refuse.
THEOREM ThirdIsStopped == Spec => []RepeatsStopped
<1>1. RateInv => RepeatsStopped
  BY DEF RateInv, Knows, Memory, NoThird, RepeatsStopped
<1> QED BY <1>1, RateAlways, PTL

\* A worker of is_rate_limited that has compared BurstMax texts in the time of a
\* burst lets no other through that is not a repetition, although a repetition
\* leaves the old times in its memory and another text takes them out.
THEOREM BurstIsStopped == Spec => []BurstsStopped
<1>1. RateInv => BurstsStopped
  BY DEF RateInv, Knows, Memory, NoBurst, BurstsStopped
<1> QED BY <1>1, RateAlways, PTL

\* is_rate_limited refuses by its counters only a sender who sent RateMax texts
\* in the window before, or whose counter in Redis has lost its expiry because
\* Redis failed between INCR and EXPIRE.
THEOREM RefusedHadCame == Spec => PausedIsCounted
<1>1. RateInv /\ [Next]_vars =>
        [\A u \in Sender :
           /\ arrived'[u] # arrived[u] /\ passed'[u] = passed[u] /\ heard' = heard
           => \/ u \in mute'
              \/ CameIn(arrived[u], (clock - Window)..clock) >= RateMax]_rate
  <2> SUFFICES ASSUME RateInv, [Next]_vars, rate' # rate, NEW u \in Sender, Paused(u)
               PROVE  CountedIn(u)
    BY DEF Paused, CountedIn
  <2>1. RateNext
    BY StepOfParts
  <2> QED BY <2>1, StepPaused
<1> QED BY <1>1, RateAlways, PTL DEF Spec, PausedIsCounted
=============================================================================
