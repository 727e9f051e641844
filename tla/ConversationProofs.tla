------------------------- MODULE ConversationProofs -------------------------
(***************************************************************************)
(* Proofs about Conversation, for any messages, any number of requests and *)
(* any bounds: each property of the run is a theorem.                      *)
(***************************************************************************)
EXTENDS Conversation, TLAPS

Number == 0..MaxMessages
Postings == {"CREATE_LOAD", "POST_TRUCK"}

\* no slot is from a message up to number e
NewerThan(data, e) == \A f \in Field : data.slot[f] = 0 \/ data.slot[f] > e

-----------------------------------------------------------------------------
(* What Workflow's operators return.                                       *)

LEMMA SlotRange ==
  ASSUME NEW d \in Data, NEW f \in Field
  PROVE  d.slot[f] \in Number
BY DEF Data, Number

LEMMA DataFields ==
  ASSUME NEW d \in Data
  PROVE  /\ d.slot \in [Field -> Number]
         /\ d.confidence \in Confidence
         /\ d.prompted \in Number \X Number
         /\ d.menu \in BOOLEAN /\ d.version \in BOOLEAN
         /\ d.button \in DOMAIN ButtonIntent \cup {"none"}
BY DEF Data, Number

LEMMA MergeData ==
  ASSUME NEW old \in Data, NEW new \in Data
  PROVE  /\ Merge(old, new) \in Data
         /\ \A f \in Field : Merge(old, new).slot[f] =
              IF new.slot[f] # 0 THEN new.slot[f] ELSE old.slot[f]
         /\ Merge(old, new).slot \in [Field -> Number]
         /\ Merge(old, new).version = (old.version \/ new.version)
         /\ Merge(old, new).menu = new.menu
<1> DEFINE slot == [f \in Field |-> IF Has(new, f) THEN new.slot[f] ELSE old.slot[f]]
           prompted == IF new.prompted # <<0, 0>> THEN new.prompted ELSE old.prompted
           confidence == IF new.confidence # "none" THEN new.confidence ELSE old.confidence
           button == IF new.button # "none" THEN new.button ELSE old.button
<1>1. slot \in [Field -> Number]
  BY DataFields
<1>2. prompted \in Number \X Number /\ confidence \in Confidence
      /\ button \in DOMAIN ButtonIntent \cup {"none"} /\ new.menu \in BOOLEAN
      /\ (old.version \/ new.version) \in BOOLEAN
  BY DataFields
<1>3. Merge(old, new) = [slot |-> slot, confidence |-> confidence, prompted |-> prompted,
        menu |-> new.menu, version |-> old.version \/ new.version, button |-> button]
  BY DEF Merge
<1>4. \A f \in Field : slot[f] = IF new.slot[f] # 0 THEN new.slot[f] ELSE old.slot[f]
  BY DEF Has
<1> HIDE DEF slot, prompted, confidence, button
<1>5. Merge(old, new) \in Data
  BY <1>1, <1>2, <1>3 DEF Data, Number
<1> QED BY <1>1, <1>3, <1>4, <1>5

LEMMA EmptyData ==
  ASSUME MaxMessages \in Nat
  PROVE  NoData \in Data /\ NoData.version = FALSE /\ \A f \in Field : NoData.slot[f] = 0
BY DEF NoData, Data, Confidence

LEMMA ExtractedData ==
  ASSUME NEW m \in Message, NEW answered \in BOOLEAN, NEW n \in Number,
         MaxMessages \in Nat
  PROVE  /\ Extracted(m, answered, n).data \in Data
         /\ Extracted(m, answered, n).data.version = TRUE
         /\ \A f \in Field : Extracted(m, answered, n).data.slot[f] \in {0, n}
<1> DEFINE told == IF answered /\ ~m.greeting THEN m.told ELSE {}
           slot == Fields(m.parsed \cup told, n)
           confidence == IF told # {} THEN "MEDIUM"
                         ELSE IF m.button # "none" THEN "LOW" ELSE "none"
           d == Extracted(m, answered, n).data
<1>1. slot \in [Field -> Number] /\ \A f \in Field : slot[f] \in {0, n}
  BY DEF Fields, Number
<1>2. confidence \in Confidence
  BY DEF Confidence
<1>3. m.button \in DOMAIN ButtonIntent \cup {"none"}
  BY DEF Message
<1>4. d = [slot |-> slot, confidence |-> confidence, prompted |-> <<0, 0>>, menu |-> FALSE,
           version |-> TRUE, button |-> m.button]
  BY DEF Extracted, NoData
<1>5. <<0, 0>> \in Number \X Number
  BY DEF Number
<1> HIDE DEF slot, confidence, d
<1>6. d \in Data /\ d.version = TRUE /\ d.slot = slot
  BY <1>1, <1>2, <1>3, <1>4, <1>5 DEF Data, Number
<1> QED BY <1>1, <1>6 DEF d

LEMMA CanonicalData ==
  ASSUME NEW d \in Data, NEW intent, MaxMessages \in Nat
  PROVE  /\ Canonical(d, intent) \in Data
         /\ Canonical(d, intent).version = d.version
         /\ \A f \in Field : \/ Canonical(d, intent).slot[f] = 0
                             \/ \E g \in Field : Canonical(d, intent).slot[f] = d.slot[g]
         /\ intent \notin Postings => Canonical(d, intent) = d
<1> DEFINE c == Canonical(d, intent)
           first(f, g) == IF d.slot[f] # 0 THEN d.slot[f] ELSE d.slot[g]
<1>0. d.slot \in [Field -> Number] /\ 0 \in Number
  BY DataFields DEF Number
<1>1. CASE intent = "CREATE_LOAD"
  <2> DEFINE s == [d.slot EXCEPT
                   !.weight_kg = first("weight_kg", "capacity_kg"),
                   !.pickup_date = first("pickup_date", "date"),
                   !.departure_date = 0, !.date = 0]
  <2>1. c = [d EXCEPT !.slot = s]
    BY <1>1 DEF Canonical
  <2>2. s \in [Field -> Number] /\ \A f \in Field : s[f] = 0 \/ \E g \in Field : s[f] = d.slot[g]
    <3>1. \A f, g \in Field : first(f, g) \in Number
                              /\ \E e \in Field : first(f, g) = d.slot[e]
      BY <1>0
    <3>2. {"weight_kg", "capacity_kg", "pickup_date", "date", "departure_date"} \subseteq Field
      BY DEF Field
    <3> HIDE DEF first
    <3>3. \A f \in Field : s[f] = d.slot[f] \/ s[f] = 0
                           \/ \E g, e \in Field : s[f] = first(g, e)
      BY <1>0, <3>2
    <3>4. s \in [Field -> Number]
      BY <1>0, <3>1, <3>2
    <3>5. \A f \in Field : s[f] = 0 \/ \E g \in Field : s[f] = d.slot[g]
      <4> HIDE DEF s
      <4> TAKE f \in Field
      <4>1. CASE \E g, e \in Field : s[f] = first(g, e)
        <5>1. PICK g \in Field, e \in Field : s[f] = first(g, e)
          BY <4>1
        <5>2. PICK x \in Field : first(g, e) = d.slot[x]
          BY <3>1
        <5> QED BY <5>1, <5>2
      <4>2. CASE ~\E g, e \in Field : s[f] = first(g, e)
        <5> QED BY <3>3, <4>2
      <4> QED BY <4>1, <4>2
    <3> QED BY <3>4, <3>5
  <2> HIDE DEF s
  <2>3. c \in Data /\ c.version = d.version /\ c.slot = s
    BY <2>1, <2>2 DEF Data, Number
  <2> QED BY <1>1, <2>2, <2>3 DEF Postings
<1>2. CASE intent = "POST_TRUCK"
  <2> DEFINE s == [d.slot EXCEPT
                   !.current_city = first("current_city", "from_city"),
                   !.capacity_kg = first("capacity_kg", "weight_kg"),
                   !.departure_date = first("departure_date", "date"),
                   !.pickup_date = 0, !.date = 0]
  <2>1. c = [d EXCEPT !.slot = s]
    BY <1>2 DEF Canonical
  <2>2. s \in [Field -> Number] /\ \A f \in Field : s[f] = 0 \/ \E g \in Field : s[f] = d.slot[g]
    <3>1. \A f, g \in Field : first(f, g) \in Number
                              /\ \E e \in Field : first(f, g) = d.slot[e]
      BY <1>0
    <3>2. {"weight_kg", "capacity_kg", "pickup_date", "date", "departure_date",
           "current_city", "from_city"} \subseteq Field
      BY DEF Field
    <3> HIDE DEF first
    <3>3. \A f \in Field : s[f] = d.slot[f] \/ s[f] = 0
                           \/ \E g, e \in Field : s[f] = first(g, e)
      BY <1>0, <3>2
    <3>4. s \in [Field -> Number]
      BY <1>0, <3>1, <3>2
    <3>5. \A f \in Field : s[f] = 0 \/ \E g \in Field : s[f] = d.slot[g]
      <4> HIDE DEF s
      <4> TAKE f \in Field
      <4>1. CASE \E g, e \in Field : s[f] = first(g, e)
        <5>1. PICK g \in Field, e \in Field : s[f] = first(g, e)
          BY <4>1
        <5>2. PICK x \in Field : first(g, e) = d.slot[x]
          BY <3>1
        <5> QED BY <5>1, <5>2
      <4>2. CASE ~\E g, e \in Field : s[f] = first(g, e)
        <5> QED BY <3>3, <4>2
      <4> QED BY <4>1, <4>2
    <3> QED BY <3>4, <3>5
  <2> HIDE DEF s
  <2>3. c \in Data /\ c.version = d.version /\ c.slot = s
    BY <2>1, <2>2 DEF Data, Number
  <2> QED BY <1>2, <2>2, <2>3 DEF Postings
<1>3. CASE intent \notin Postings
  <2>1. c = d
    BY <1>3 DEF Canonical, Postings
  <2> QED BY <2>1
<1> QED BY <1>1, <1>2, <1>3 DEF Postings

-----------------------------------------------------------------------------
(* The transition matrix.                                                  *)

LEMMA NextState ==
  ASSUME NEW current \in State, NEW intent \in Intent, NEW expired \in BOOLEAN
  PROVE  /\ Transition(current, intent, expired).next \in State
         /\ Transition(current, intent, expired).allowed \in BOOLEAN
         /\ Transition(current, intent, expired).expired = (expired /\ current \in Active)
<1> DEFINE state == IF expired THEN "IDLE" ELSE current
           next == {t[3] : t \in {t \in Transitions : t[1] = state /\ t[2] = intent}}
<1>1. \A t \in Transitions : t[3] \in State
  BY DEF Transitions, State, Active, Posting, Viewing, Lookup
<1>2. next \subseteq State
  BY <1>1
<1>3. next # {} => (CHOOSE s \in next : TRUE) \in State
  BY <1>2
<1>4. state \in State
  BY DEF State
<1> QED BY <1>3, <1>4 DEF Transition, State

\* the only states one transition leads to
Leads(state, intent, to) ==
    /\ \E t \in Transitions : t[1] = state /\ t[2] = intent
    /\ \A t \in Transitions : t[1] = state /\ t[2] = intent => t[3] = to

LEMMA LeadsTo ==
  ASSUME NEW current \in State, NEW intent \in Intent, NEW expired \in BOOLEAN, NEW to,
         Leads(IF expired THEN "IDLE" ELSE current, intent, to)
  PROVE  /\ Transition(current, intent, expired).next = to
         /\ Transition(current, intent, expired).allowed
<1> DEFINE state == IF expired THEN "IDLE" ELSE current
           next == {t[3] : t \in {t \in Transitions : t[1] = state /\ t[2] = intent}}
<1>1. next = {to}
  BY DEF Leads
<1> QED BY <1>1 DEF Transition

Nowhere(state, intent) == \A t \in Transitions : ~(t[1] = state /\ t[2] = intent)

LEMMA LeadsNowhere ==
  ASSUME NEW current \in State, NEW intent \in Intent, NEW expired \in BOOLEAN,
         Nowhere(IF expired THEN "IDLE" ELSE current, intent)
  PROVE  /\ Transition(current, intent, expired).next =
              IF intent = "CANCEL" \/ expired THEN "IDLE" ELSE current
         /\ Transition(current, intent, expired).allowed = (intent = "CANCEL")
<1> DEFINE state == IF expired THEN "IDLE" ELSE current
           next == {t[3] : t \in {t \in Transitions : t[1] = state /\ t[2] = intent}}
<1>1. next = {}
  BY DEF Nowhere
<1> QED BY <1>1 DEF Transition

LEMMA Matrix ==
  /\ \A w \in Active : Leads(w, "CONFIRM", "IDLE") /\ Leads(w, "CANCEL", "IDLE")
                       /\ Leads(w, Posting[w], w) /\ Leads("IDLE", Posting[w], w)
  /\ \A w \in State : Leads(w, "UNKNOWN", w)
  /\ Nowhere("IDLE", "CONFIRM") /\ Nowhere("IDLE", "CANCEL")
  /\ \A w \in State : Nowhere(w, "GREETING") /\ Nowhere(w, "MENU")
<1>1. \A t \in Transitions :
        t[2] = "CONFIRM" => t[1] \in Active /\ t[3] = "IDLE"
  BY DEF Transitions, State, Active, Posting, Viewing, Lookup
<1>2. \A t \in Transitions :
        t[2] = "CANCEL" => t[1] \in Active /\ t[3] = "IDLE"
  BY DEF Transitions, State, Active, Posting, Viewing, Lookup
<1>3. \A t \in Transitions : t[2] = "UNKNOWN" => t[3] = t[1]
  BY DEF Transitions, State, Active, Posting, Viewing, Lookup
<1>4. \A t \in Transitions : t[2] # "GREETING" /\ t[2] # "MENU"
  BY DEF Transitions, State, Active, Posting, Viewing, Lookup
<1>5. \A w \in Active : \A t \in Transitions : t[2] = Posting[w] => t[3] = w
  BY DEF Transitions, State, Active, Posting, Viewing, Lookup
<1>6. \A w \in Active : /\ <<w, "CONFIRM", "IDLE">> \in Transitions
                        /\ <<w, "CANCEL", "IDLE">> \in Transitions
                        /\ <<w, Posting[w], w>> \in Transitions
                        /\ <<"IDLE", Posting[w], w>> \in Transitions
  BY DEF Transitions
<1>7. \A w \in State : <<w, "UNKNOWN", w>> \in Transitions
  BY DEF Transitions
<1>8. "IDLE" \notin Active
  BY DEF Active
<1>9. \A w \in Active : Leads(w, "CONFIRM", "IDLE") /\ Leads(w, "CANCEL", "IDLE")
  BY <1>1, <1>2, <1>6 DEF Leads
<1>10. \A w \in Active : Leads(w, Posting[w], w) /\ Leads("IDLE", Posting[w], w)
  BY <1>5, <1>6 DEF Leads
<1>11. \A w \in State : Leads(w, "UNKNOWN", w)
  BY <1>3, <1>7 DEF Leads
<1> QED BY <1>1, <1>2, <1>4, <1>8, <1>9, <1>10, <1>11 DEF Nowhere

-----------------------------------------------------------------------------
(* What a message means.                                                   *)

LEMMA ButtonIntents ==
  \A b \in DOMAIN ButtonIntent :
     ButtonIntent[b] \in Intent /\ ButtonIntent[b] \notin {"UNKNOWN", "GREETING", "MENU"}
BY DEF ButtonIntent, Intent

Extractable == {"GREETING", "CREATE_LOAD", "POST_TRUCK", "UNKNOWN"}

\* Only a tapped button confirms; and in a workflow every message is understood.
LEMMA ResolvedIntent ==
  ASSUME NEW m \in Message, NEW intent \in Extractable, NEW data,
         NEW workflow \in State, NEW menu \in BOOLEAN
  PROVE  LET i == Resolve(m, intent, data, workflow, menu)
         IN  /\ i \in Intent /\ i # "MENU"
             /\ m.button = "none" => i # "CONFIRM"
             /\ workflow \in Active => i # "UNKNOWN"
<1> DEFINE i == Resolve(m, intent, data, workflow, menu)
           chosen == Chosen(m.choice, workflow, menu)
<1>1. m.choice \in {"none", "1", "2", "3"} /\ m.button \in DOMAIN ButtonIntent \cup {"none"}
  BY DEF Message
<1>2. chosen \in {"none", "CREATE_LOAD", "POST_TRUCK", "CANCEL", "UPLOAD_KYC"}
  BY <1>1 DEF Chosen, Posting, Active
<1>3. Heuristic(m, workflow) \in {"none", "CREATE_LOAD", "POST_TRUCK"}
  BY DEF Heuristic, Explicit
<1>4. Inferred(data) \in {"none", "CREATE_LOAD", "POST_TRUCK"}
  BY DEF Inferred
<1>5. \A w \in Active : Posting[w] \in Postings
  BY DEF Active, Posting, Postings
<1> HIDE DEF chosen
<1>6. CASE m.button # "none"
  <2>1. i = ButtonIntent[m.button]
    BY <1>6 DEF Resolve
  <2> QED BY <1>1, <1>6, <2>1, ButtonIntents
<1>7. CASE m.button = "none" /\ intent # "UNKNOWN"
  <2>1. i = intent
    BY <1>7 DEF Resolve, ReachesHeuristic
  <2> QED BY <1>7, <2>1 DEF Extractable, Intent
<1>8. CASE m.button = "none" /\ intent = "UNKNOWN" /\ chosen # "none"
  <2>1. i = chosen
    BY <1>8 DEF Resolve, ReachesHeuristic, chosen
  <2> QED BY <1>2, <1>8, <2>1 DEF Intent
<1>9. CASE m.button = "none" /\ intent = "UNKNOWN" /\ chosen = "none"
  <2>1. i = IF Heuristic(m, workflow) # "none" THEN Heuristic(m, workflow)
            ELSE IF workflow \in Active THEN Posting[workflow]
            ELSE IF Inferred(data) # "none" THEN Inferred(data) ELSE "UNKNOWN"
    BY <1>9 DEF Resolve, ReachesHeuristic, chosen
  <2>2. i \in Postings \cup {"UNKNOWN"} /\ (workflow \in Active => i # "UNKNOWN")
    BY <1>3, <1>4, <1>5, <2>1 DEF Postings
  <2> QED BY <2>2 DEF Postings, Intent
<1> QED BY <1>6, <1>7, <1>8, <1>9 DEF i

LEMMA CorrectedIntent ==
  ASSUME NEW intent \in Intent, NEW workflow \in State, NEW data, NEW known
  PROVE  LET c == Correct(intent, workflow, data, known)
         IN  /\ c \in Postings \cup {"UNKNOWN"} \/ c = intent
             /\ intent \notin Postings \cup {"UNKNOWN"} => c = intent
             /\ workflow \in Active /\ intent # "UNKNOWN"
                => c # "UNKNOWN" /\ (c \in Postings => c = Posting[workflow])
<1> DEFINE route == Has(data, "from_city") /\ Has(data, "to_city")
           weight == Has(data, "weight_kg")
           capacity == Has(data, "capacity_kg")
           own == IF intent \in Postings /\ workflow \in Active
                  THEN Posting[workflow] ELSE intent
           started == IF own \in Postings /\ route /\ ~weight /\ ~capacity
                         /\ workflow = "IDLE" THEN "UNKNOWN" ELSE own
           promoted == IF started = "UNKNOWN" /\ route /\ (weight \/ capacity)
                    THEN IF workflow \in Active THEN Posting[workflow]
                         ELSE IF capacity /\ ~weight THEN "POST_TRUCK" ELSE "CREATE_LOAD"
                    ELSE started
           c == Correct(intent, workflow, data, known)
<1>1. c = IF promoted = "UNKNOWN" /\ Has(known, "from_city") /\ Has(known, "to_city")
          THEN "CREATE_LOAD" ELSE promoted
  BY DEF Correct, Postings
<1>2. \A w \in Active : Posting[w] \in Postings /\ w # "IDLE"
  BY DEF Active, Posting, Postings
<1>3. "UNKNOWN" \notin Postings /\ "CREATE_LOAD" \in Postings /\ "POST_TRUCK" \in Postings
  BY DEF Postings
<1>4. CASE intent \notin Postings \cup {"UNKNOWN"}
  <2>1. promoted = intent
    BY <1>4
  <2> QED BY <1>1, <1>4, <2>1
<1>5. CASE intent \in Postings \cup {"UNKNOWN"}
  <2>1. own \in Postings \cup {"UNKNOWN"}
    BY <1>2, <1>5
  <2>2. started \in Postings \cup {"UNKNOWN"}
    BY <2>1
  <2>3. promoted \in Postings \cup {"UNKNOWN"}
    BY <1>2, <1>3, <2>2
  <2>4. c \in Postings \cup {"UNKNOWN"}
    BY <1>1, <1>3, <2>3
  <2>5. ASSUME workflow \in Active, intent # "UNKNOWN" PROVE c = Posting[workflow]
    <3>1. own = Posting[workflow]
      BY <1>5, <2>5
    <3>2. promoted = Posting[workflow]
      BY <1>2, <1>3, <2>5, <3>1
    <3> QED BY <1>1, <1>2, <1>3, <2>5, <3>2
  <2> QED BY <1>2, <1>3, <1>5, <2>4, <2>5
<1> QED BY <1>4, <1>5

\* Phase 1: what a message makes of the known, for any answer of the LLM.
LEMMA Understood ==
  ASSUME MaxMessages \in Nat, NEW m \in Message, NEW answered \in BOOLEAN,
         NEW n \in Number, NEW workflow \in State, NEW known \in Data
  PROVE  LET u == Understand(m, answered, n, workflow, known)
         IN  /\ u.intent \in Intent /\ u.intent # "MENU"
             /\ u.data \in Data /\ u.data.version
             /\ \A f \in Field : \/ u.data.slot[f] \in {0, n}
                                 \/ \E g \in Field : u.data.slot[f] = known.slot[g]
             /\ u.intent \notin Postings
                => \A f \in Field : u.data.slot[f] \in {known.slot[f], n}
             /\ m.button = "none" => u.intent # "CONFIRM"
             /\ workflow \in Active
                => /\ u.intent # "UNKNOWN"
                   /\ u.intent \in Postings => u.intent = Posting[workflow]
<1> DEFINE ext == Extracted(m, answered, n)
           data == [Merge(known, ext.data) EXCEPT !.menu = known.menu]
           seen == m.route # "none"
                   /\ ReachesHeuristic(m, ext.intent, workflow, known.menu)
           routed == IF ~seen THEN data
                     ELSE [data EXCEPT !.slot["from_city"] = n, !.slot["to_city"] = n,
                             !.confidence = IF m.route = "corridor" THEN "HIGH" ELSE "MEDIUM"]
           resolved == Resolve(m, ext.intent, routed, workflow, known.menu)
           intent == Correct(resolved, workflow, routed, known)
           final == Canonical(routed, intent)
           last1 == IF final.confidence = "none" THEN [final EXCEPT !.confidence = "LOW"]
                    ELSE final
           u == Understand(m, answered, n, workflow, known)
<1>1. u = [intent |-> intent, data |-> last1]
  BY DEF Understand
<1>2. /\ ext.data \in Data /\ ext.data.version = TRUE
      /\ \A f \in Field : ext.data.slot[f] \in {0, n}
      /\ ext.intent \in Extractable
  <2>1. m.llm \in Extractable /\ "GREETING" \in Extractable /\ "UNKNOWN" \in Extractable
    BY DEF Message, Extractable
  <2>2. ext.intent = IF m.greeting THEN "GREETING" ELSE IF answered THEN m.llm ELSE "UNKNOWN"
    BY DEF Extracted
  <2>3. ext.data \in Data /\ ext.data.version = TRUE /\ \A f \in Field : ext.data.slot[f] \in {0, n}
    BY ExtractedData
  <2> HIDE DEF ext
  <2>4. ext.intent \in Extractable
    BY <2>1, <2>2
  <2> QED BY <2>3, <2>4
<1> HIDE DEF ext
<1>3. known.menu \in BOOLEAN /\ \A f \in Field : known.slot[f] \in Number
  BY DataFields
<1>4. /\ data \in Data /\ data.version
      /\ \A f \in Field : data.slot[f] \in {known.slot[f], n}
  <2> DEFINE d == Merge(known, ext.data)
  <2>1. /\ d \in Data /\ d.version
        /\ \A f \in Field : d.slot[f] = IF ext.data.slot[f] # 0
                                       THEN ext.data.slot[f] ELSE known.slot[f]
    <3>1. ext.data \in Data
      BY <1>2
    <3>2. d.version = (known.version \/ ext.data.version)
      BY <3>1, MergeData
    <3>3. d.version
      BY <1>2, <3>2
    <3> QED BY <3>1, <3>3, MergeData
  <2> HIDE DEF d
  <2>2. [d EXCEPT !.menu = known.menu] \in Data
    BY <1>3, <2>1 DEF Data
  <2>3. [d EXCEPT !.menu = known.menu].slot = d.slot
        /\ [d EXCEPT !.menu = known.menu].version = d.version
    BY <2>1 DEF Data
  <2>4. \A f \in Field : d.slot[f] \in {known.slot[f], n}
    BY <1>2, <2>1
  <2> QED BY <2>1, <2>2, <2>3, <2>4 DEF d
<1> HIDE DEF data, seen
<1>5. /\ routed \in Data /\ routed.version
      /\ \A f \in Field : routed.slot[f] \in {known.slot[f], n}
  <2>1. CASE ~seen
    BY <1>4, <2>1
  <2>2. CASE seen
    <3> DEFINE slot == [data.slot EXCEPT !["from_city"] = n, !["to_city"] = n]
               conf == IF m.route = "corridor" THEN "HIGH" ELSE "MEDIUM"
    <3>1. slot \in [Field -> Number] /\ \A f \in Field : slot[f] \in {data.slot[f], n}
      BY <1>4, DataFields
    <3>2. conf \in Confidence
      BY DEF Confidence
    <3>3. routed = [data EXCEPT !.slot = slot, !.confidence = conf]
      BY <1>4, <2>2 DEF Data
    <3> HIDE DEF slot, conf
    <3>4. routed \in Data /\ routed.version = data.version /\ routed.slot = slot
      BY <1>4, <3>1, <3>2, <3>3 DEF Data, Number
    <3>5. \A f \in Field : slot[f] \in {known.slot[f], n}
      BY <1>4, <3>1
    <3> QED BY <1>4, <3>4, <3>5
  <2> QED BY <2>1, <2>2
<1> HIDE DEF routed
<1>6. /\ resolved \in Intent /\ resolved # "MENU"
      /\ m.button = "none" => resolved # "CONFIRM"
      /\ workflow \in Active => resolved # "UNKNOWN"
  BY <1>2, <1>3, ResolvedIntent
<1> HIDE DEF resolved
<1>7. /\ intent \in Postings \cup {"UNKNOWN"} \/ intent = resolved
      /\ workflow \in Active
         => intent # "UNKNOWN" /\ (intent \in Postings => intent = Posting[workflow])
  BY <1>6, CorrectedIntent
<1> HIDE DEF intent
<1>8. /\ intent \in Intent /\ intent # "MENU"
      /\ m.button = "none" => intent # "CONFIRM"
  BY <1>6, <1>7 DEF Postings, Intent
<1>9. /\ final \in Data /\ final.version
      /\ \A f \in Field : final.slot[f] = 0 \/ \E g \in Field : final.slot[f] = routed.slot[g]
      /\ intent \notin Postings => final = routed
  BY <1>5, CanonicalData
<1> HIDE DEF final
<1>10. last1 \in Data /\ last1.version = final.version /\ last1.slot = final.slot
  <2>1. "LOW" \in Confidence
    BY DEF Confidence
  <2> QED BY <1>9, <2>1 DEF Data
<1> HIDE DEF last1
<1>11. \A f \in Field : \/ last1.slot[f] \in {0, n}
                        \/ \E g \in Field : last1.slot[f] = known.slot[g]
  <2> TAKE f \in Field
  <2>1. CASE final.slot[f] = 0
    BY <1>10, <2>1
  <2>2. CASE \E g \in Field : final.slot[f] = routed.slot[g]
    <3>1. PICK g \in Field : final.slot[f] = routed.slot[g]
      BY <2>2
    <3>2. routed.slot[g] \in {known.slot[g], n}
      BY <1>5
    <3> QED BY <1>10, <3>1, <3>2
  <2> QED BY <1>9, <2>1, <2>2
<1>12. intent \notin Postings => \A f \in Field : last1.slot[f] \in {known.slot[f], n}
  BY <1>5, <1>9, <1>10
<1>13. u.intent = intent /\ u.data = last1
  BY <1>1
<1> HIDE DEF u
<1>14. LET v == u IN
             /\ v.intent \in Intent /\ v.intent # "MENU"
             /\ v.data \in Data /\ v.data.version
             /\ v.intent \notin Postings
                => \A f \in Field : v.data.slot[f] \in {known.slot[f], n}
             /\ m.button = "none" => v.intent # "CONFIRM"
             /\ workflow \in Active
                => /\ v.intent # "UNKNOWN"
                   /\ v.intent \in Postings => v.intent = Posting[workflow]
  BY <1>7, <1>8, <1>9, <1>10, <1>12, <1>13
<1>15. \A f \in Field : \/ u.data.slot[f] \in {0, n}
                        \/ \E g \in Field : u.data.slot[f] = known.slot[g]
  BY <1>11, <1>13
<1> QED BY <1>14, <1>15 DEF u

\* A bare 2 that is an answer to the interrupt menu cancels.
LEMMA TwoCancels ==
  ASSUME NEW m \in Message, m.choice = "2", m.button = "none", ~m.greeting,
         m.llm = "UNKNOWN", NEW answered \in BOOLEAN, NEW n, NEW workflow \in Active,
         NEW known, known.menu
  PROVE  Understand(m, answered, n, workflow, known).intent = "CANCEL"
<1>1. Extracted(m, answered, n).intent = "UNKNOWN"
  BY DEF Extracted
<1>2. Chosen(m.choice, workflow, known.menu) = "CANCEL"
  BY DEF Chosen
<1>3. \A data : Resolve(m, "UNKNOWN", data, workflow, known.menu) = "CANCEL"
  BY <1>2 DEF Resolve, ReachesHeuristic
<1>4. \A data : Correct("CANCEL", workflow, data, known) = "CANCEL"
  BY DEF Correct
<1> QED BY <1>1, <1>3, <1>4 DEF Understand

-----------------------------------------------------------------------------
(* What the dispatcher answers, and what phase 2 writes.                   *)

LEMMA Answered ==
  ASSUME NEW intent \in Intent, NEW current \in State, NEW data
  PROVE  LET a == Answer(intent, current, data)
         IN  /\ a \in {"cancelled", "missing", "post", "prompt", "route", "menu", "main", "info"}
             /\ a = "post" <=> intent = "CONFIRM" /\ Missing(Family(current), data) = {}
             /\ a = "cancelled" <=> intent = "CANCEL"
             /\ a = "prompt" <=> intent \in Postings /\ Missing(Asked(intent), data) = {}
             /\ a = "menu" <=> intent \in {"GREETING", "MENU", "UNKNOWN"} /\ current \in Active
<1> DEFINE a == Answer(intent, current, data)
           missing == Missing(Asked(intent), data) = {}
           ready == Missing(Family(current), data) = {}
<1>1. CASE intent = "CANCEL"
  <2>1. a = "cancelled"
    BY <1>1 DEF Answer, Interrupt
  <2> QED BY <1>1, <2>1 DEF Postings
<1>2. CASE intent = "CONFIRM"
  <2>1. a = IF ready THEN "post" ELSE "missing"
    BY <1>2 DEF Answer, Interrupt
  <2> HIDE DEF a, ready
  <2>2. /\ a \in {"cancelled", "missing", "post", "prompt", "route", "menu", "main", "info"}
        /\ a = "post" <=> ready
        /\ a \notin {"cancelled", "prompt", "menu"}
    BY <2>1
  <2> QED BY <1>2, <2>2 DEF Postings, a, ready
<1>3. CASE intent \in Postings
  <2>1. a = IF missing THEN "prompt" ELSE IF AskRoute(Asked(intent), data) THEN "route"
            ELSE "missing"
    BY <1>3 DEF Answer, Postings, Interrupt
  <2> HIDE DEF a, missing
  <2>2. /\ a \in {"cancelled", "missing", "post", "prompt", "route", "menu", "main", "info"}
        /\ a = "prompt" <=> missing
        /\ a \notin {"cancelled", "post", "menu"}
    BY <2>1
  <2> QED BY <1>3, <2>2 DEF Postings, a, missing
<1>4. CASE intent \in {"GREETING", "MENU", "UNKNOWN"}
  <2>1. a = IF current \in Active THEN "menu" ELSE "main"
    BY <1>4 DEF Answer, Interrupt
  <2> QED BY <1>4, <2>1 DEF Postings
<1>5. CASE intent \notin Postings \cup {"CANCEL", "CONFIRM", "GREETING", "MENU", "UNKNOWN"}
  <2>1. a = "info"
    BY <1>5 DEF Answer, Postings, Interrupt
  <2> QED BY <1>5, <2>1
<1> QED BY <1>1, <1>2, <1>3, <1>4, <1>5

\* the state a message leads to, as Dispatch has it
Denied(current, intent, expired) ==
    ~Transition(current, intent, expired).allowed /\ intent \notin Interrupt
Led(current, intent, expired) ==
    IF Denied(current, intent, expired) THEN current
    ELSE Transition(current, intent, expired).next

LEMMA Judgement ==
  ASSUME NEW current \in State, NEW intent \in Intent, NEW expired \in BOOLEAN
  PROVE  LET to == Led(current, intent, expired)
             denied == Denied(current, intent, expired)
         IN  /\ to \in State
             /\ intent = "CONFIRM" /\ ~denied => current \in Active /\ ~expired /\ to = "IDLE"
             /\ intent = "CANCEL" => ~denied /\ to = "IDLE"
             /\ intent \in Postings /\ ~denied => to \in Active /\ intent = Posting[to]
             /\ intent \in Postings /\ ~expired
                  /\ (current \in Active => intent = Posting[current]) => ~denied
             /\ to \in Active => to = current \/ intent = Posting[to]
             /\ intent \in {"GREETING", "MENU", "UNKNOWN"} /\ ~expired => to = current
<1> DEFINE to == Led(current, intent, expired)
           denied == Denied(current, intent, expired)
           state == IF expired THEN "IDLE" ELSE current
           t == Transition(current, intent, expired)
<1>1. to \in State
  BY NextState DEF Led
<1>2. state \in State /\ (state \in Active => state = current /\ ~expired)
  BY DEF State, Active
<1>3. CASE intent = "CONFIRM"
  <2>1. CASE state \in Active
    <3>1. Leads(state, "CONFIRM", "IDLE")
      BY <2>1, Matrix
    <3>2. t.allowed /\ t.next = "IDLE"
      BY <1>3, <3>1, LeadsTo
    <3>3. to = "IDLE"
      BY <3>2 DEF Led, Denied
    <3> QED BY <1>1, <1>2, <1>3, <2>1, <3>3 DEF Postings, Active
  <2>2. CASE state \notin Active
    <3>1. Nowhere(state, "CONFIRM")
      BY <1>2, <2>2, Matrix DEF State
    <3>2. ~t.allowed
      BY <1>3, <3>1, LeadsNowhere
    <3>3. denied /\ to = current
      BY <1>3, <3>2 DEF Led, Denied, Interrupt
    <3> QED BY <1>1, <1>3, <3>3 DEF Postings
  <2> QED BY <2>1, <2>2
<1>4. CASE intent = "CANCEL"
  <2>1. t.allowed /\ t.next = "IDLE"
    <3>1. CASE state \in Active
      <4>1. Leads(state, "CANCEL", "IDLE")
        BY <3>1, Matrix
      <4> QED BY <1>4, <4>1, LeadsTo
    <3>2. CASE state \notin Active
      <4>1. Nowhere(state, "CANCEL")
        BY <1>2, <3>2, Matrix DEF State
      <4> QED BY <1>4, <4>1, LeadsNowhere
    <3> QED BY <3>1, <3>2
  <2>2. ~denied /\ to = "IDLE"
    BY <2>1 DEF Led, Denied
  <2> QED BY <1>1, <1>4, <2>2 DEF Postings, Active
<1>5. CASE intent \in Postings
  <2>1. PICK w \in Active : intent = Posting[w]
    BY <1>5 DEF Postings, Posting, Active
  <2>2. CASE state = w \/ state = "IDLE"
    <3>1. Leads(state, intent, w)
      BY <2>1, <2>2, Matrix
    <3>2. t.allowed /\ t.next = w
      BY <3>1, LeadsTo
    <3>3. to = w /\ ~denied
      BY <3>2 DEF Led, Denied
    <3> QED BY <1>1, <1>5, <2>1, <3>3 DEF Postings
  <2>3. CASE ~(state = w \/ state = "IDLE")
    <3>1. Nowhere(state, intent)
      BY <1>2, <2>1, <2>3 DEF Nowhere, Transitions, State, Active, Posting, Viewing, Lookup
    <3>2. ~t.allowed
      BY <1>5, <3>1, LeadsNowhere DEF Postings
    <3>3. denied /\ to = current
      BY <1>5, <3>2 DEF Led, Denied, Interrupt, Postings
    <3>4. expired \/ ~(current \in Active => intent = Posting[current])
      BY <1>2, <2>1, <2>3 DEF Active, State, Posting
    <3> QED BY <1>1, <1>5, <3>3, <3>4 DEF Postings
  <2> QED BY <2>2, <2>3
<1>6. CASE intent \in {"GREETING", "MENU", "UNKNOWN"}
  <2>1. t.next = state
    <3>1. CASE intent = "UNKNOWN"
      <4>1. Leads(state, "UNKNOWN", state)
        BY <1>2, Matrix
      <4> QED BY <3>1, <4>1, LeadsTo
    <3>2. CASE intent # "UNKNOWN"
      <4>1. Nowhere(state, intent)
        BY <1>2, <1>6, <3>2, Matrix
      <4> QED BY <1>6, <3>2, <4>1, LeadsNowhere
    <3> QED BY <3>1, <3>2
  <2>2. to = current \/ to = state
    BY <2>1 DEF Led
  <2> QED BY <1>1, <1>2, <1>6, <2>2 DEF Postings
<1>7. CASE intent \notin Postings \cup {"CONFIRM", "CANCEL", "GREETING", "MENU", "UNKNOWN"}
  <2>1. \A x \in Transitions : x[2] = intent => x[3] = "IDLE"
    BY <1>7 DEF Transitions, State, Active, Posting, Viewing, Lookup, Postings
  <2>2. t.next = "IDLE" \/ t.next = state
    <3>1. CASE Nowhere(state, intent)
      <4>1. t.next = IF intent = "CANCEL" \/ expired THEN "IDLE" ELSE current
        BY <3>1, LeadsNowhere
      <4> QED BY <4>1
    <3>2. CASE ~Nowhere(state, intent)
      <4>1. Leads(state, intent, "IDLE")
        BY <2>1, <3>2 DEF Leads, Nowhere
      <4> QED BY <4>1, LeadsTo
    <3> QED BY <3>1, <3>2
  <2>3. to \in Active => to = current
    BY <1>2, <2>2 DEF Led, Active
  <2> QED BY <1>1, <1>7, <2>3
<1> QED BY <1>3, <1>4, <1>5, <1>6, <1>7

-----------------------------------------------------------------------------
(* The inductive invariant.                                                *)

TypeInv ==
    /\ TypeOK
    /\ \A h \in Request : pc[h] # "idle" => req[h].message \in Messages
    /\ \A h \in Request : pc[h] = "rolledBack" => req[h].data.version

\* A request nothing has overlapped with runs alone and has loaded the user as
\* the row is.
Alone(h) ==
    /\ \A x \in Request \ {h} : pc[x] = "idle"
    /\ req[h].loaded = user.state
SoloInv == \A h \in Request : pc[h] # "idle" /\ req[h].solo => Alone(h)

\* the workflow phase 1 has read the message in
ReadAs(r) ==
    IF session.workflow \in Active
    THEN r.at <= session.updated =>
           r.workflow = session.workflow /\ r.state = session.workflow
    ELSE r.workflow = "IDLE" /\ r.state = "IDLE"

\* While no two requests have overlapped: a request in flight holds what is in
\* the rows, and its message is the last one sent; ...
Calm(h) ==
    /\ req[h].solo
    /\ req[h].n = sent /\ sent > ended
    /\ NewerThan(req[h].data, ended)
    /\ req[h].at <= now
    /\ pc[h] = "extract" => req[h].data = session.data /\ ReadAs(req[h])
    /\ pc[h] = "rolledBack" =>
         /\ req[h].message.button # "none"
         /\ now = 0 => /\ session.workflow \in Active
                       /\ sent \in Used(req[h].data) \/ req[h].data.slot = session.data.slot

\* ... and the rows agree, hold nothing of an ended posting, remember a menu
\* that has just been shown, and hold what the sender was asked to confirm.
AllShown ==
    /\ session.workflow = "none" => ~Collected(session.data)
    /\ session.workflow \in Active /\ ~unshown
         /\ Missing(Family(session.workflow), session.data) = {}
       => shown = Slots(Family(session.workflow), session.data)
Kept ==
    /\ Agree
    /\ ended <= sent
    /\ NewerThan(session.data, ended)
    /\ last.reply = "menu" /\ ~last.expired => session.workflow \in Active /\ session.data.menu
    /\ now = 0 => AllShown
CalmInv == ~raced => Kept /\ \A h \in Request : pc[h] # "idle" => Calm(h)

ConvInv == TypeInv /\ SoloInv /\ CalmInv

-----------------------------------------------------------------------------
(* Phase 2, piece by piece.                                                *)

Understands(h, a) ==
    Understand(req[h].message, a, req[h].n, req[h].workflow, req[h].data)
Gathered(h, a) == Merge(session.data, Understands(h, a).data)
From(h, a) == Current(req[h], Gathered(h, a))
Late(h) == Expired(Newer(req[h].updated, session.updated))
Refused(h, a) == Denied(From(h, a), Understands(h, a).intent, Late(h))
To(h, a) == Led(From(h, a), Understands(h, a).intent, Late(h))
Said(h, a) == IF Refused(h, a) THEN "denied"
              ELSE Answer(Understands(h, a).intent, From(h, a), Gathered(h, a))
Flushed(h, a) == IF Understands(h, a).intent = "CANCEL" THEN "IDLE" ELSE From(h, a)
Keeps(h, a) == [Understands(h, a).data EXCEPT
    !.menu = To(h, a) \in Active
             /\ Understands(h, a).intent \in {"GREETING", "UNKNOWN", "MENU"},
    !.prompted = IF Said(h, a) = "route"
                 THEN Route(Asked(Understands(h, a).intent), Gathered(h, a)) ELSE @]
Flow(h, a) == IF Said(h, a) = "prompt" THEN Asked(Understands(h, a).intent)
              ELSE Family(From(h, a))
Outlasts(h, a) ==
    Transition(From(h, a), Understands(h, a).intent, Late(h)).expired
    /\ Understands(h, a).intent \notin {"CANCEL", "CONFIRM"}

Rollback(h, a) ==
    /\ Said(h, a) = "post" /\ Family(From(h, a)) # "load" /\ listing # None
    /\ Goto(h, "rolledBack")
    /\ req' = [req EXCEPT ![h].data = Keeps(h, a)]
    /\ UNCHANGED <<now, user, session, listing, sent, last, shown, unshown, ended, raced>>

Commit(h, a, outcome) ==
    /\ IF Said(h, a) = "post" THEN outcome \in {"failed", "load", "truck"}
       ELSE outcome = Said(h, a)
    /\ Goto(h, "idle")
    /\ user' = SavedUser(req[h], Flushed(h, a), ~Refused(h, a), To(h, a))
    /\ session' = SavedSession(req[h], session.data, To(h, a), Outlasts(h, a), Keeps(h, a))
    /\ listing' = IF outcome = "truck" /\ listing = None THEN req[h].at ELSE listing
    /\ Record(h, outcome, Slots(Flow(h, a), Gathered(h, a)), Gathered(h, a))
    /\ UNCHANGED <<now, sent, raced>>

LEMMA DispatchIs ==
  ASSUME NEW h \in Request, Dispatch(h)
  PROVE  /\ pc[h] = "extract"
         /\ \E a \in BOOLEAN : Rollback(h, a) \/ \E outcome : Commit(h, a, outcome)
<1>1. PICK a \in BOOLEAN : \E outcome \in IF Said(h, a) = "post" THEN Outcome(Family(From(h, a)))
                                            ELSE {Said(h, a)} :
        IF outcome = "taken"
        THEN /\ Goto(h, "rolledBack")
             /\ req' = [req EXCEPT ![h].data = Keeps(h, a)]
             /\ UNCHANGED <<now, user, session, listing, sent, last, shown, unshown, ended, raced>>
        ELSE /\ Goto(h, "idle")
             /\ user' = SavedUser(req[h], Flushed(h, a), ~Refused(h, a), To(h, a))
             /\ session' = SavedSession(req[h], session.data, To(h, a), Outlasts(h, a), Keeps(h, a))
             /\ listing' = IF outcome = "truck" /\ listing = None THEN req[h].at ELSE listing
             /\ Record(h, outcome, Slots(Flow(h, a), Gathered(h, a)), Gathered(h, a))
             /\ UNCHANGED <<now, sent, raced>>
  BY DEF Dispatch, Said, From, Gathered, Keeps, To, Flushed, Refused, Outlasts, Flow, Late,
         Understands, Led, Denied
<1>2. PICK outcome \in IF Said(h, a) = "post" THEN Outcome(Family(From(h, a)))
                        ELSE {Said(h, a)} :
        IF outcome = "taken"
        THEN /\ Goto(h, "rolledBack")
             /\ req' = [req EXCEPT ![h].data = Keeps(h, a)]
             /\ UNCHANGED <<now, user, session, listing, sent, last, shown, unshown, ended, raced>>
        ELSE /\ Goto(h, "idle")
             /\ user' = SavedUser(req[h], Flushed(h, a), ~Refused(h, a), To(h, a))
             /\ session' = SavedSession(req[h], session.data, To(h, a), Outlasts(h, a), Keeps(h, a))
             /\ listing' = IF outcome = "truck" /\ listing = None THEN req[h].at ELSE listing
             /\ Record(h, outcome, Slots(Flow(h, a), Gathered(h, a)), Gathered(h, a))
             /\ UNCHANGED <<now, sent, raced>>
  BY <1>1
<1>3. pc[h] = "extract"
  BY DEF Dispatch
<1>4. Said(h, a) # "taken"
  BY DEF Said, Answer
<1>5. CASE outcome = "taken"
  <2>1. Said(h, a) = "post" /\ outcome \in Outcome(Family(From(h, a)))
    BY <1>2, <1>4, <1>5
  <2>2. Family(From(h, a)) # "load" /\ listing # None
    BY <1>5, <2>1 DEF Outcome
  <2> QED BY <1>2, <1>3, <1>5, <2>1, <2>2 DEF Rollback
<1>6. CASE outcome # "taken"
  <2>1. IF Said(h, a) = "post" THEN outcome \in {"failed", "load", "truck"}
        ELSE outcome = Said(h, a)
    BY <1>2, <1>6 DEF Outcome
  <2>2. Commit(h, a, outcome)
    BY <1>2, <1>6, <2>1 DEF Commit
  <2> QED BY <1>3, <2>2
<1> QED BY <1>5, <1>6

LEMMA InFlight ==
  ASSUME TypeInv, NEW h \in Request, pc[h] # "idle"
  PROVE  /\ req[h].message \in Messages /\ req[h].message \in Message
         /\ req[h].n \in Number /\ req[h].data \in Data
         /\ req[h].state \in State /\ req[h].loaded \in State /\ req[h].workflow \in State
         /\ req[h].updated \in 0..MaxClock /\ req[h].at \in 0..MaxClock
         /\ req[h].solo \in BOOLEAN
BY ConversationAssumption DEF TypeInv, TypeOK, Number

LEMMA Rows ==
  ASSUME TypeInv
  PROVE  /\ MaxMessages \in Nat /\ MaxClock \in Nat /\ now \in 0..MaxClock
         /\ user.state \in State /\ user.updated \in 0..MaxClock
         /\ session.workflow \in Active \cup {"none"} /\ session.data \in Data
         /\ session.updated \in 0..MaxClock
         /\ sent \in Number /\ ended \in Number
BY ConversationAssumption DEF TypeInv, TypeOK, Number

LEMMA States == /\ Active \subseteq State /\ "IDLE" \in State /\ "IDLE" \notin Active
                /\ "none" \notin Active /\ State = Active \cup {"IDLE"}
BY DEF Active, State

LEMMA PhaseTwo ==
  ASSUME TypeInv, NEW h \in Request, pc[h] # "idle", NEW a \in BOOLEAN
  PROVE  /\ Understands(h, a).intent \in Intent
         /\ Understands(h, a).data \in Data /\ Understands(h, a).data.version
         /\ Gathered(h, a) \in Data
         /\ \A f \in Field : Gathered(h, a).slot[f] = IF Understands(h, a).data.slot[f] # 0
              THEN Understands(h, a).data.slot[f] ELSE session.data.slot[f]
         /\ From(h, a) \in State /\ Late(h) \in BOOLEAN /\ To(h, a) \in State
         /\ Flushed(h, a) \in State
         /\ Said(h, a) \in {"denied", "cancelled", "missing", "post", "prompt", "route", "menu",
                            "main", "info"}
         /\ Outlasts(h, a) = (/\ Late(h) /\ From(h, a) \in Active
                              /\ Understands(h, a).intent \notin {"CANCEL", "CONFIRM"})
<1> DEFINE u == Understands(h, a)
<1>1. u.intent \in Intent /\ u.data \in Data /\ u.data.version
  BY InFlight, Rows, Understood DEF Understands
<1> HIDE DEF u
<1>2. /\ Gathered(h, a) \in Data
      /\ \A f \in Field : Gathered(h, a).slot[f] =
             IF u.data.slot[f] # 0 THEN u.data.slot[f] ELSE session.data.slot[f]
  BY <1>1, Rows, MergeData DEF Gathered, u
<1>3. From(h, a) \in State
  BY InFlight, States DEF From, Current, Reconstructed, Active
<1>4. Late(h) \in BOOLEAN
  BY DEF Late, Expired
<1>5. To(h, a) \in State
  BY <1>1, <1>3, <1>4, Judgement DEF To, u
<1>6. Flushed(h, a) \in State
  BY <1>3, States DEF Flushed
<1>7. Said(h, a) \in {"denied", "cancelled", "missing", "post", "prompt", "route", "menu",
                     "main", "info"}
  BY <1>1, <1>3, Answered DEF Said, u
<1>8. Outlasts(h, a) = (Late(h) /\ From(h, a) \in Active /\ u.intent \notin {"CANCEL", "CONFIRM"})
  BY <1>1, <1>3, <1>4, NextState DEF Outlasts, u
<1> QED BY <1>1, <1>2, <1>3, <1>4, <1>5, <1>6, <1>7, <1>8 DEF u

LEMMA KeepsData ==
  ASSUME TypeInv, NEW h \in Request, pc[h] # "idle", NEW a \in BOOLEAN
  PROVE  /\ Keeps(h, a) \in Data
         /\ Keeps(h, a).slot = Understands(h, a).data.slot
         /\ Keeps(h, a).version
         /\ Keeps(h, a).menu = (To(h, a) \in Active
              /\ Understands(h, a).intent \in {"GREETING", "UNKNOWN", "MENU"})
<1> DEFINE d == Understands(h, a).data
           menu == To(h, a) \in Active
                   /\ Understands(h, a).intent \in {"GREETING", "UNKNOWN", "MENU"}
           prompted == IF Said(h, a) = "route"
              THEN Route(Asked(Understands(h, a).intent), Gathered(h, a)) ELSE d.prompted
<1>1. d \in Data /\ d.version /\ Gathered(h, a) \in Data
  BY PhaseTwo
<1>2. prompted \in Number \X Number
  <2>1. Route(Asked(Understands(h, a).intent), Gathered(h, a)) \in Number \X Number
    <3>1. {"current_city", "from_city", "to_city"} \subseteq Field
      BY DEF Field
    <3>2. \A f \in Field : Gathered(h, a).slot[f] \in Number
      BY <1>1, SlotRange
    <3> QED BY <3>1, <3>2 DEF Route
  <2> QED BY <1>1, <2>1, DataFields
<1>3. menu \in BOOLEAN
  OBVIOUS
<1>4. Keeps(h, a) = [d EXCEPT !.menu = menu, !.prompted = prompted]
  BY <1>1 DEF Keeps, Data
<1> HIDE DEF d, menu, prompted
<1>5. /\ Keeps(h, a) \in Data /\ Keeps(h, a).slot = d.slot /\ Keeps(h, a).version = d.version
      /\ Keeps(h, a).menu = menu
  BY <1>1, <1>2, <1>3, <1>4 DEF Data, Number
<1> QED BY <1>1, <1>5 DEF d, menu

LEMMA SessionSaved ==
  ASSUME NEW r, NEW base, NEW after \in State, NEW keep \in BOOLEAN, NEW data
  PROVE  LET next == SavedSession(r, base, after, keep, data)
         IN  /\ next.workflow = IF after \in Active THEN after ELSE "none"
             /\ next.data = IF after \in Active \/ keep THEN Merge(base, data) ELSE NoData
             /\ next.updated \in {session.updated, r.at}
BY DEF SavedSession

LEMMA SessionTyped ==
  ASSUME TypeInv, NEW r, r.at \in 0..MaxClock, NEW base \in Data, NEW after \in State,
         NEW keep \in BOOLEAN, NEW data \in Data
  PROVE  LET next == SavedSession(r, base, after, keep, data)
         IN  /\ next.workflow \in Active \cup {"none"}
             /\ next.data \in Data
             /\ next.updated \in 0..MaxClock
BY SessionSaved, Rows, MergeData, EmptyData

LEMMA UserSaved ==
  ASSUME TypeInv, NEW r, r.at \in 0..MaxClock, r.loaded \in State, NEW before \in State,
         NEW flushed \in BOOLEAN, NEW after \in State
  PROVE  LET next == SavedUser(r, before, flushed, after)
         IN  /\ next \in [state : State, updated : 0..MaxClock]
             /\ r.loaded = user.state => next.state = after
<1> DEFINE first == IF flushed /\ before # r.loaded THEN {before} ELSE {}
           seen == IF first = {} THEN r.loaded ELSE before
           next == SavedUser(r, before, flushed, after)
<1>1. user \in [state : State, updated : 0..MaxClock]
  BY DEF TypeInv, TypeOK
<1>2. next = IF after # seen THEN [state |-> after, updated |-> r.at]
             ELSE IF first # {} THEN [state |-> before, updated |-> r.at] ELSE user
  BY DEF SavedUser
<1>3. first # {} => seen = before
  OBVIOUS
<1>4. first = {} => seen = r.loaded
  OBVIOUS
<1> HIDE DEF first, seen, next
<1>5. next \in [state : State, updated : 0..MaxClock]
  BY <1>1, <1>2
<1>6. r.loaded = user.state => next.state = after
  BY <1>2, <1>3, <1>4
<1> QED BY <1>5, <1>6 DEF next

\* slots, what is missing and whose slots there are depend on the slots alone
LEMMA SlotsOnly ==
  ASSUME NEW d, NEW e, d.slot = e.slot, NEW flow
  PROVE  /\ Slots(flow, d) = Slots(flow, e)
         /\ Missing(flow, d) = Missing(flow, e)
         /\ Used(d) = Used(e)
BY DEF Slots, Missing, Used, Has

LEMMA SlotsNewer ==
  ASSUME NEW d, NEW e \in Nat, NewerThan(d, e), NEW flow, NEW s \in Slots(flow, d)
  PROVE  s[2] > e
<1>1. UNION Needed(flow) \subseteq Field
  BY DEF Needed, Field
<1>2. PICK f \in UNION Needed(flow) : s = <<flow, d.slot[f]>>
  BY DEF Slots
<1>3. s # <<flow, 0>>
  BY DEF Slots
<1> QED BY <1>1, <1>2, <1>3 DEF NewerThan

-----------------------------------------------------------------------------
(* Types.                                                                  *)

RequestType ==
    [n : Number, message : Messages \cup {None}, state : State, loaded : State,
     updated : 0..MaxClock, workflow : State, data : Data, at : 0..MaxClock, solo : BOOLEAN]

LEMMA IdleRequest == NoRequest \in RequestType
BY EmptyData, ConversationAssumption, States DEF NoRequest, RequestType, Number

LEMMA TypeInit == Init => TypeInv
<1> SUFFICES ASSUME Init PROVE TypeInv
  OBVIOUS
<1>1. NoData \in Data /\ "IDLE" \in State /\ 0 \in 0..MaxClock /\ 0 \in Number
  BY EmptyData, ConversationAssumption, States DEF Number
<1>2. req \in [Request -> RequestType]
  BY IdleRequest DEF Init
<1>3. \A h \in Request : pc[h] = "idle"
  BY DEF Init
<1> QED BY <1>1, <1>2, <1>3 DEF Init, TypeInv, TypeOK, RequestType, Number, NoReply, Reply

LEMMA RecordTypes ==
  ASSUME TypeInv, NEW h \in Request, NEW reply \in Reply, NEW slots, NEW data,
         Record(h, reply, slots, data), Goto(h, "idle")
  PROVE  /\ last'.reply \in Reply /\ unshown' \in BOOLEAN /\ ended' \in Number
         /\ req' \in [Request -> RequestType]
         /\ pc' \in [Request -> {"idle", "extract", "rolledBack"}]
         /\ \A x \in Request : pc'[x] # "idle" => x # h /\ pc'[x] = pc[x] /\ req'[x] = req[x]
<1>1. pc \in [Request -> {"idle", "extract", "rolledBack"}] /\ req \in [Request -> RequestType]
      /\ ended \in Number /\ unshown \in BOOLEAN
  BY DEF TypeInv, TypeOK, RequestType, Number
<1>2. req' = [req EXCEPT ![h] = NoRequest]
  BY DEF Record
<1>3. req' \in [Request -> RequestType]
  BY <1>1, <1>2, IdleRequest
<1>4. ended' \in Number
  <2>1. req[h].n \in Number
    BY <1>1 DEF RequestType
  <2>2. ended' \in {ended, req[h].n}
    BY DEF Record, Newer
  <2> QED BY <1>1, <2>1, <2>2
<1>5. last'.reply = reply /\ unshown' \in BOOLEAN
  BY DEF Record
<1>6. pc' \in [Request -> {"idle", "extract", "rolledBack"}] /\ pc'[h] = "idle"
      /\ \A x \in Request \ {h} : pc'[x] = pc[x] /\ req'[x] = req[x]
  BY <1>1, <1>2 DEF Goto
<1> QED BY <1>3, <1>4, <1>5, <1>6

LEMMA TypeCommit ==
  ASSUME TypeInv, NEW h \in Request, pc[h] = "extract", NEW a \in BOOLEAN, NEW outcome,
         Commit(h, a, outcome)
  PROVE  TypeInv'
<1>1. outcome \in Reply
  <2>1. Said(h, a) \in {"denied", "cancelled", "missing", "post", "prompt", "route", "menu",
                     "main", "info"}
    BY PhaseTwo
  <2> QED BY <2>1 DEF Commit, Reply
<1>2. Record(h, outcome, Slots(Flow(h, a), Gathered(h, a)), Gathered(h, a)) /\ Goto(h, "idle")
  BY DEF Commit
<1>3. /\ last'.reply \in Reply /\ unshown' \in BOOLEAN /\ ended' \in Number
      /\ req' \in [Request -> RequestType]
      /\ pc' \in [Request -> {"idle", "extract", "rolledBack"}]
      /\ \A x \in Request : pc'[x] # "idle" => x # h /\ pc'[x] = pc[x] /\ req'[x] = req[x]
  BY <1>1, <1>2, RecordTypes
<1>4. user' \in [state : State, updated : 0..MaxClock]
  <2>1. user' = SavedUser(req[h], Flushed(h, a), ~Refused(h, a), To(h, a))
    BY DEF Commit
  <2>2. (~Refused(h, a)) \in BOOLEAN
    BY DEF Refused, Denied
  <2> QED BY <2>1, <2>2, InFlight, PhaseTwo, UserSaved
<1>5. session'.workflow \in Active \cup {"none"} /\ session'.data \in Data
      /\ session'.updated \in 0..MaxClock
  <2>1. session' = SavedSession(req[h], session.data, To(h, a), Outlasts(h, a), Keeps(h, a))
    BY DEF Commit
  <2>2. Outlasts(h, a) \in BOOLEAN /\ To(h, a) \in State
    BY PhaseTwo
  <2>3. Keeps(h, a) \in Data /\ session.data \in Data
    BY KeepsData, Rows
  <2>4. req[h].at \in 0..MaxClock
    BY InFlight
  <2> QED BY <2>1, <2>2, <2>3, <2>4, SessionTyped
<1>6. listing' \in (0..MaxClock) \cup {None, -1}
  <2>1. req[h].at \in 0..MaxClock
    BY InFlight
  <2> QED BY <2>1 DEF Commit, TypeInv, TypeOK
<1>7. UNCHANGED <<now, sent, raced>>
  BY DEF Commit
<1> QED BY <1>3, <1>4, <1>5, <1>6, <1>7 DEF TypeInv, TypeOK, RequestType, Number

LEMMA TypeRollback ==
  ASSUME TypeInv, NEW h \in Request, pc[h] = "extract", NEW a \in BOOLEAN, Rollback(h, a)
  PROVE  TypeInv'
<1>1. Keeps(h, a) \in Data /\ Keeps(h, a).version
  BY KeepsData
<1>2. req \in [Request -> RequestType] /\ pc \in [Request -> {"idle", "extract", "rolledBack"}]
  BY DEF TypeInv, TypeOK, RequestType, Number
<1>3. req' = [req EXCEPT ![h].data = Keeps(h, a)] /\ pc' = [pc EXCEPT ![h] = "rolledBack"]
  BY DEF Rollback, Goto
<1>4. req' \in [Request -> RequestType]
  BY <1>1, <1>2, <1>3 DEF RequestType
<1>5. req'[h].data = Keeps(h, a) /\ req'[h].message = req[h].message
      /\ \A x \in Request \ {h} : req'[x] = req[x] /\ pc'[x] = pc[x]
  BY <1>2, <1>3 DEF RequestType
<1>6. pc' \in [Request -> {"idle", "extract", "rolledBack"}]
  BY <1>2, <1>3
<1>7. UNCHANGED <<now, user, session, listing, sent, last, shown, unshown, ended, raced>>
  BY DEF Rollback
<1>8. TypeOK'
  BY <1>4, <1>6, <1>7 DEF TypeInv, TypeOK, RequestType, Number
<1> QED BY <1>1, <1>5, <1>8 DEF TypeInv

LEMMA TypeNext == TypeInv /\ [Next]_vars => TypeInv'
<1> SUFFICES ASSUME TypeInv, [Next]_vars PROVE TypeInv'
  OBVIOUS
<1>1. CASE UNCHANGED vars
  BY <1>1 DEF vars, TypeInv, TypeOK
<1>2. CASE Tick
  BY <1>2, ConversationAssumption DEF Tick, TypeInv, TypeOK
<1>3. ASSUME NEW h \in Request, NEW m \in Messages, Receive(h, m) PROVE TypeInv'
  <2> DEFINE stored == IF session.workflow # "none" THEN session.workflow ELSE user.state
             live == /\ stored \in Active /\ Collected(session.data)
                     /\ ~Expired(session.updated)
             solo == \A x \in Request : pc[x] = "idle"
             new == [n |-> sent + 1, message |-> m, loaded |-> user.state,
                     state |-> IF live THEN user.state ELSE "IDLE",
                     updated |-> user.updated, data |-> session.data, at |-> now,
                     workflow |-> IF live THEN stored ELSE "IDLE", solo |-> solo]
             other(x) == [req[x] EXCEPT !.solo = @ /\ pc[x] = "idle"]
  <2>1. req' = [x \in Request |-> IF x = h THEN new ELSE other(x)]
    BY <1>3 DEF Receive
  <2>2. sent + 1 \in Number /\ solo \in BOOLEAN /\ stored \in State
        /\ (IF live THEN user.state ELSE "IDLE") \in State
        /\ (IF live THEN stored ELSE "IDLE") \in State
    <3>1. sent + 1 \in Number
      BY <1>3, Rows DEF Receive, Number
    <3> QED BY <3>1, Rows, States
  <2>3. new \in RequestType
    <3> HIDE DEF live, stored, solo
    <3> QED BY <2>2, Rows DEF RequestType
  <2>4. \A x \in Request : req[x] \in RequestType /\ other(x) \in RequestType
                           /\ other(x).message = req[x].message /\ other(x).data = req[x].data
    <3> TAKE x \in Request
    <3> DEFINE still == req[x].solo /\ pc[x] = "idle"
    <3>1. req[x] \in RequestType
      BY DEF TypeInv, TypeOK, RequestType, Number
    <3>2. other(x) = [req[x] EXCEPT !.solo = still]
      BY <3>1 DEF RequestType
    <3>3. still \in BOOLEAN
      OBVIOUS
    <3> HIDE DEF still, other
    <3>4. other(x) \in RequestType
      BY <3>1, <3>2, <3>3 DEF RequestType
    <3>5. other(x).message = req[x].message /\ other(x).data = req[x].data
      BY <3>1, <3>2 DEF RequestType
    <3> QED BY <3>1, <3>4, <3>5
  <2>5. new.message = m
    OBVIOUS
  <2> HIDE DEF new, other
  <2>6. req' \in [Request -> RequestType]
    BY <2>1, <2>3, <2>4
  <2>7. pc' = [pc EXCEPT ![h] = "extract"] /\ sent' = sent + 1 /\ pc[h] = "idle"
        /\ raced' = (raced \/ ~solo)
    BY <1>3 DEF Receive, Goto
  <2>8. pc \in [Request -> {"idle", "extract", "rolledBack"}]
    BY DEF TypeInv, TypeOK
  <2>9. \A x \in Request : pc'[x] # "idle" => req'[x].message \in Messages
    BY <2>1, <2>4, <2>5, <2>7, <2>8 DEF TypeInv
  <2>10. \A x \in Request : pc'[x] = "rolledBack" => req'[x].data.version
    BY <2>1, <2>4, <2>7, <2>8 DEF TypeInv
  <2>11. raced' \in BOOLEAN
    BY <2>7 DEF TypeInv, TypeOK
  <2>12. UNCHANGED <<now, user, session, listing, last, shown, unshown, ended>>
    BY <1>3 DEF Receive
  <2>13. pc' \in [Request -> {"idle", "extract", "rolledBack"}]
    BY <2>7, <2>8
  <2>14. sent' \in Number
    BY <2>2, <2>7
  <2>15. TypeOK'
    BY <2>6, <2>11, <2>12, <2>13, <2>14 DEF TypeInv, TypeOK, RequestType, Number
  <2> QED BY <2>9, <2>10, <2>15 DEF TypeInv
<1>4. ASSUME NEW h \in Request, Dispatch(h) PROVE TypeInv'
  BY <1>4, DispatchIs, TypeCommit, TypeRollback
<1>5. ASSUME NEW h \in Request, FinishRolledBack(h) PROVE TypeInv'
  <2>1. Record(h, "truck again", Slots("truck", req[h].data), req[h].data) /\ Goto(h, "idle")
    BY <1>5 DEF FinishRolledBack
  <2>2. /\ last'.reply \in Reply /\ unshown' \in BOOLEAN /\ ended' \in Number
        /\ req' \in [Request -> RequestType]
        /\ pc' \in [Request -> {"idle", "extract", "rolledBack"}]
        /\ \A x \in Request : pc'[x] # "idle" => x # h /\ pc'[x] = pc[x] /\ req'[x] = req[x]
    BY <2>1, RecordTypes DEF Reply
  <2>3. session'.workflow \in Active \cup {"none"} /\ session'.data \in Data
        /\ session'.updated \in 0..MaxClock
    <3> DEFINE r == [req[h] EXCEPT !.at = now]
    <3>1. session' = SavedSession(r, NoData, user.state, FALSE, req[h].data)
      BY <1>5 DEF FinishRolledBack
    <3>2. r.at = now
      BY DEF TypeInv, TypeOK
    <3>3. pc[h] # "idle"
      BY <1>5 DEF FinishRolledBack
    <3>4. req[h].data \in Data
      BY <3>3, InFlight
    <3>5. NoData \in Data
      BY EmptyData, Rows
    <3> HIDE DEF r
    <3> QED BY <3>1, <3>2, <3>4, <3>5, Rows, SessionTyped
  <2>4. UNCHANGED <<now, user, listing, sent, raced>>
    BY <1>5 DEF FinishRolledBack
  <2> QED BY <2>2, <2>3, <2>4 DEF TypeInv, TypeOK, RequestType, Number
<1>6. ASSUME NEW h \in Request, Fail(h) PROVE TypeInv'
  <2>1. Record(h, "fallback", {}, NoData) /\ Goto(h, "idle")
    BY <1>6 DEF Fail
  <2>2. /\ last'.reply \in Reply /\ unshown' \in BOOLEAN /\ ended' \in Number
        /\ req' \in [Request -> RequestType]
        /\ pc' \in [Request -> {"idle", "extract", "rolledBack"}]
        /\ \A x \in Request : pc'[x] # "idle" => x # h /\ pc'[x] = pc[x] /\ req'[x] = req[x]
    BY <2>1, RecordTypes DEF Reply
  <2>3. UNCHANGED <<now, user, session, listing, sent, raced>>
    BY <1>6 DEF Fail
  <2> QED BY <2>2, <2>3 DEF TypeInv, TypeOK, RequestType, Number
<1> QED BY <1>1, <1>2, <1>3, <1>4, <1>5, <1>6 DEF Next

-----------------------------------------------------------------------------
(* A request nothing has overlapped with.                                  *)

LEMMA Others ==
  ASSUME TypeInv, SoloInv, NEW h \in Request, pc[h] # "idle",
         NEW x \in Request, pc[x] # "idle", x # h
  PROVE  ~req[x].solo
BY DEF SoloInv, Alone

LEMMA Leaves ==
  ASSUME TypeInv, NEW h \in Request, Goto(h, "idle"), req' = [req EXCEPT ![h] = NoRequest]
  PROVE  /\ pc'[h] = "idle"
         /\ \A x \in Request : pc'[x] # "idle" => x # h /\ pc[x] # "idle" /\ req'[x] = req[x]
BY DEF Goto, TypeInv, TypeOK

LEMMA SoloLeave ==
  ASSUME TypeInv, SoloInv, NEW h \in Request, pc[h] # "idle",
         Goto(h, "idle"), req' = [req EXCEPT ![h] = NoRequest]
  PROVE  SoloInv'
<1> SUFFICES ASSUME NEW x \in Request, pc'[x] # "idle", req'[x].solo PROVE FALSE
  BY DEF SoloInv
<1> QED BY Leaves, Others

LEMMA Received ==
  ASSUME TypeInv, NEW h \in Request, NEW m \in Messages, Receive(h, m)
  PROVE  /\ pc[h] = "idle" /\ pc'[h] = "extract"
         /\ req'[h].loaded = user.state /\ req'[h].data = session.data /\ req'[h].at = now
         /\ req'[h].n = sent + 1 /\ sent' = sent + 1
         /\ req'[h].solo = \A x \in Request : pc[x] = "idle"
         /\ raced' = (raced \/ ~\A x \in Request : pc[x] = "idle")
         /\ \A x \in Request \ {h} : /\ pc'[x] = pc[x]
                                     /\ req'[x].solo => pc[x] = "idle"
         /\ UNCHANGED <<now, user, session, listing, last, shown, unshown, ended>>
<1>1. pc' = [pc EXCEPT ![h] = "extract"] /\ pc \in [Request -> {"idle", "extract", "rolledBack"}]
  BY DEF Receive, Goto, TypeInv, TypeOK
<1>2. /\ req'[h].loaded = user.state /\ req'[h].data = session.data /\ req'[h].at = now
      /\ req'[h].n = sent + 1
      /\ req'[h].solo = \A x \in Request : pc[x] = "idle"
  BY DEF Receive
<1>3. \A x \in Request \ {h} : req'[x].solo => pc[x] = "idle"
  <2> TAKE x \in Request \ {h}
  <2>1. req'[x] = [req[x] EXCEPT !.solo = @ /\ pc[x] = "idle"]
    BY DEF Receive
  <2>2. req[x] \in RequestType
    BY DEF TypeInv, TypeOK, RequestType, Number
  <2>3. req'[x].solo = (req[x].solo /\ pc[x] = "idle")
    BY <2>1, <2>2 DEF RequestType
  <2> QED BY <2>3
<1> QED BY <1>1, <1>2, <1>3 DEF Receive

LEMMA SoloNext == TypeInv /\ SoloInv /\ [Next]_vars => SoloInv'
<1> SUFFICES ASSUME TypeInv, SoloInv, [Next]_vars PROVE SoloInv'
  OBVIOUS
<1>1. CASE UNCHANGED vars
  BY <1>1 DEF vars, SoloInv, Alone
<1>2. CASE Tick
  BY <1>2 DEF Tick, SoloInv, Alone
<1>3. ASSUME NEW h \in Request, NEW m \in Messages, Receive(h, m) PROVE SoloInv'
  <2> SUFFICES ASSUME NEW x \in Request, pc'[x] # "idle", req'[x].solo PROVE Alone(x)'
    BY DEF SoloInv
  <2>1. x = h
    BY <1>3, Received
  <2>2. \A y \in Request : pc[y] = "idle"
    BY <1>3, <2>1, Received
  <2> QED BY <1>3, <2>1, <2>2, Received DEF Alone
<1>4. ASSUME NEW h \in Request, Dispatch(h) PROVE SoloInv'
  <2>1. pc[h] = "extract"
    BY <1>4, DispatchIs
  <2>2. PICK a \in BOOLEAN : Rollback(h, a) \/ \E outcome : Commit(h, a, outcome)
    BY <1>4, DispatchIs
  <2>3. CASE Rollback(h, a)
    <3>1. /\ pc' = [pc EXCEPT ![h] = "rolledBack"] /\ pc \in [Request -> {"idle", "extract", "rolledBack"}]
          /\ req' = [req EXCEPT ![h].data = Keeps(h, a)] /\ req \in [Request -> RequestType]
          /\ user' = user
      BY <2>3 DEF Rollback, Goto, TypeInv, TypeOK, RequestType, Number
    <3>2. \A x \in Request : req'[x].solo = req[x].solo /\ req'[x].loaded = req[x].loaded
      BY <3>1 DEF RequestType
    <3>3. \A x \in Request : pc'[x] # "idle" => pc[x] # "idle"
      BY <2>1, <3>1
    <3>4. \A x \in Request : pc[x] = "idle" => pc'[x] = "idle"
      BY <2>1, <3>1
    <3> QED BY <3>1, <3>2, <3>3, <3>4 DEF SoloInv, Alone
  <2>4. ASSUME NEW outcome, Commit(h, a, outcome) PROVE SoloInv'
    <3>1. Goto(h, "idle") /\ req' = [req EXCEPT ![h] = NoRequest]
      BY <2>4 DEF Commit, Record
    <3> QED BY <2>1, <3>1, SoloLeave
  <2> QED BY <2>2, <2>3, <2>4
<1>5. ASSUME NEW h \in Request, FinishRolledBack(h) PROVE SoloInv'
  <2>1. pc[h] # "idle" /\ Goto(h, "idle") /\ req' = [req EXCEPT ![h] = NoRequest]
    BY <1>5 DEF FinishRolledBack, Record
  <2> QED BY <2>1, SoloLeave
<1>6. ASSUME NEW h \in Request, Fail(h) PROVE SoloInv'
  <2>1. pc[h] # "idle" /\ Goto(h, "idle") /\ req' = [req EXCEPT ![h] = NoRequest]
    BY <1>6 DEF Fail, Record
  <2> QED BY <2>1, SoloLeave
<1> QED BY <1>1, <1>2, <1>3, <1>4, <1>5, <1>6 DEF Next

-----------------------------------------------------------------------------
(* While no two requests have overlapped.                                  *)

LEMMA Calmly ==
  ASSUME TypeInv, SoloInv, CalmInv, ~raced, NEW h \in Request, pc[h] # "idle"
  PROVE  /\ Calm(h) /\ Kept /\ Alone(h)
         /\ sent \in Nat /\ ended \in Nat /\ now \in Nat
BY Rows DEF CalmInv, Calm, SoloInv, Number

\* a request that has left leaves no other behind
LEMMA CalmLeave ==
  ASSUME TypeInv, SoloInv, CalmInv, NEW h \in Request, pc[h] # "idle",
         Goto(h, "idle"), req' = [req EXCEPT ![h] = NoRequest], raced' = raced,
         ~raced => Kept'
  PROVE  CalmInv'
<1> SUFFICES ASSUME ~raced, NEW x \in Request, pc'[x] # "idle" PROVE FALSE
  BY DEF CalmInv
<1>1. x # h /\ pc[x] # "idle"
  BY Leaves
<1> QED BY <1>1, Others, Calmly DEF Calm

\* Without an expiry phase 2 sees the workflow the message was read in.
LEMMA ReadNow ==
  ASSUME TypeInv, SoloInv, CalmInv, ~raced, now = 0, NEW h \in Request, pc[h] = "extract",
         NEW a \in BOOLEAN
  PROVE  /\ Late(h) = FALSE
         /\ From(h, a) \in Active
            => session.workflow = From(h, a) /\ req[h].workflow = From(h, a)
<1>1. Calm(h) /\ Kept /\ ReadAs(req[h])
  BY Calmly DEF Calm
<1>2. Late(h) = FALSE
  BY InFlight, Rows DEF Late, Expired, Newer
<1>3. CASE session.workflow \in Active
  <2>1. req[h].at <= session.updated
    BY <1>1, InFlight, Rows DEF Calm
  <2>2. req[h].workflow = session.workflow /\ req[h].state = session.workflow
    BY <1>1, <1>3, <2>1 DEF ReadAs
  <2>3. From(h, a) = req[h].state
    BY <1>3, <2>2, States DEF From, Current
  <2> QED BY <1>2, <2>2, <2>3
<1>4. CASE session.workflow \notin Active
  <2>1. req[h].state = "IDLE"
    BY <1>1, <1>4 DEF ReadAs
  <2>2. ~Collected(session.data)
    BY <1>1, <1>4, Rows DEF Kept, AllShown
  <2>3. From(h, a) = "IDLE"
    BY <2>1, <2>2 DEF From, Current
  <2> QED BY <1>2, <2>3, States
<1> QED BY <1>3, <1>4

\* A message that gives no slot and starts nothing leaves the slots as they are.
LEMMA NothingSaid ==
  ASSUME TypeInv, SoloInv, CalmInv, ~raced, NEW h \in Request, pc[h] = "extract",
         NEW a \in BOOLEAN, Understands(h, a).intent \notin Postings
  PROVE  /\ sent \notin Used(Gathered(h, a)) => Gathered(h, a).slot = session.data.slot
         /\ sent \notin Used(Understands(h, a).data)
            => Understands(h, a).data.slot = session.data.slot
<1> DEFINE u == Understands(h, a).data
           g == Gathered(h, a)
<1>1. Calm(h) /\ req[h].data = session.data /\ req[h].n = sent /\ sent # 0
  BY Calmly DEF Calm
<1>2. \A f \in Field : u.slot[f] \in {session.data.slot[f], sent}
  <2>1. \A f \in Field : u.slot[f] \in {req[h].data.slot[f], req[h].n}
    BY InFlight, Rows, Understood DEF Understands
  <2> QED BY <1>1, <2>1
<1>3. /\ u \in Data /\ g \in Data /\ session.data \in Data
      /\ \A f \in Field : g.slot[f] = IF u.slot[f] # 0 THEN u.slot[f] ELSE session.data.slot[f]
  BY PhaseTwo, Rows
<1> HIDE DEF u, g
<1>4. /\ u.slot \in [Field -> Number] /\ g.slot \in [Field -> Number]
      /\ session.data.slot \in [Field -> Number]
  BY <1>3, DataFields
<1>5. ASSUME sent \notin Used(g) PROVE g.slot = session.data.slot
  <2>1. \A f \in Field : g.slot[f] # sent
    BY <1>1, <1>5 DEF Used
  <2>2. \A f \in Field : g.slot[f] = session.data.slot[f]
    BY <1>2, <1>3, <2>1
  <2> QED BY <1>4, <2>2
<1>6. ASSUME sent \notin Used(u) PROVE u.slot = session.data.slot
  <2>1. \A f \in Field : u.slot[f] # sent
    BY <1>1, <1>6 DEF Used
  <2>2. \A f \in Field : u.slot[f] = session.data.slot[f]
    BY <1>2, <2>1
  <2> QED BY <1>4, <2>2
<1> QED BY <1>5, <1>6 DEF u, g

\* no slot of a message is older than the session it was read with
LEMMA NewerSaid ==
  ASSUME TypeInv, SoloInv, CalmInv, ~raced, NEW h \in Request, pc[h] = "extract",
         NEW a \in BOOLEAN
  PROVE  /\ NewerThan(Understands(h, a).data, ended)
         /\ NewerThan(Gathered(h, a), ended)
<1> DEFINE u == Understands(h, a).data
<1>1. Calm(h) /\ Kept
  BY Calmly
<1>2. \A f \in Field : \/ u.slot[f] \in {0, req[h].n}
                       \/ \E g \in Field : u.slot[f] = req[h].data.slot[g]
  BY InFlight, Rows, Understood DEF Understands
<1>3. \A f \in Field : Gathered(h, a).slot[f] =
         IF u.slot[f] # 0 THEN u.slot[f] ELSE session.data.slot[f]
  BY PhaseTwo
<1> HIDE DEF u
<1>4. NewerThan(u, ended)
  BY <1>1, <1>2 DEF NewerThan, Calm
<1>5. NewerThan(Gathered(h, a), ended)
  BY <1>1, <1>3, <1>4 DEF NewerThan, Kept
<1> QED BY <1>4, <1>5 DEF u

\* what the message and its answer say of each other
LEMMA Outcomes ==
  ASSUME TypeInv, NEW h \in Request, pc[h] = "extract", NEW a \in BOOLEAN
  PROVE  LET intent == Understands(h, a).intent
         IN  /\ Said(h, a) = "post" => /\ intent = "CONFIRM" /\ ~Refused(h, a)
                                       /\ From(h, a) \in Active /\ To(h, a) = "IDLE"
                                       /\ Missing(Family(From(h, a)), Gathered(h, a)) = {}
             /\ Said(h, a) = "cancelled" <=> intent = "CANCEL"
             /\ intent = "CANCEL" => To(h, a) = "IDLE"
             /\ Said(h, a) = "prompt" => /\ intent \in Postings /\ To(h, a) \in Active
                                         /\ intent = Posting[To(h, a)]
             /\ Said(h, a) = "menu" => /\ intent \in {"GREETING", "MENU", "UNKNOWN"}
                                       /\ From(h, a) \in Active
                                       /\ ~Late(h) => To(h, a) = From(h, a)
             /\ To(h, a) \in Active => To(h, a) = From(h, a) \/ intent = Posting[To(h, a)]
             /\ /\ intent \in Postings /\ ~Late(h)
                /\ From(h, a) \in Active => intent = Posting[From(h, a)]
                => ~Refused(h, a)
             /\ /\ intent \in Postings /\ ~Refused(h, a) /\ Said(h, a) # "prompt"
                => /\ Missing(Asked(intent), Gathered(h, a)) # {}
                   /\ intent = Posting[To(h, a)]
<1> DEFINE intent == Understands(h, a).intent
           from == From(h, a)
           data == Gathered(h, a)
<1>1. intent \in Intent /\ from \in State /\ Late(h) \in BOOLEAN
  BY PhaseTwo
<1>2. Refused(h, a) = Denied(from, intent, Late(h)) /\ To(h, a) = Led(from, intent, Late(h))
  BY DEF Refused, To
<1>3. Refused(h, a) => Said(h, a) = "denied"
  BY DEF Said
<1>4. ~Refused(h, a) => Said(h, a) = Answer(intent, from, data)
  BY DEF Said
<1> HIDE DEF intent, from, data
<1>5. /\ intent = "CONFIRM" /\ ~Refused(h, a) => from \in Active /\ To(h, a) = "IDLE"
      /\ intent = "CANCEL" => ~Refused(h, a) /\ To(h, a) = "IDLE"
      /\ intent \in Postings /\ ~Refused(h, a) => To(h, a) \in Active /\ intent = Posting[To(h, a)]
      /\ intent \in Postings /\ ~Late(h)
           /\ (from \in Active => intent = Posting[from]) => ~Refused(h, a)
      /\ To(h, a) \in Active => To(h, a) = from \/ intent = Posting[To(h, a)]
      /\ intent \in {"GREETING", "MENU", "UNKNOWN"} /\ ~Late(h) => To(h, a) = from
  BY <1>1, <1>2, Judgement
<1>6. LET said == Answer(intent, from, data)
      IN  /\ said \in {"cancelled", "missing", "post", "prompt", "route", "menu", "main", "info"}
          /\ said = "post" <=> intent = "CONFIRM" /\ Missing(Family(from), data) = {}
          /\ said = "cancelled" <=> intent = "CANCEL"
          /\ said = "prompt" <=> intent \in Postings /\ Missing(Asked(intent), data) = {}
          /\ said = "menu" <=> intent \in {"GREETING", "MENU", "UNKNOWN"} /\ from \in Active
  BY <1>1, Answered
<1>7. CASE Refused(h, a)
  BY <1>3, <1>5, <1>7 DEF intent, from, data
<1>8. CASE ~Refused(h, a)
  BY <1>4, <1>5, <1>6, <1>8 DEF intent, from, data
<1> QED BY <1>7, <1>8

\* the rows after a commit
LEMMA RowsWritten ==
  ASSUME TypeInv, NEW h \in Request, pc[h] = "extract", req[h].loaded = user.state,
         NEW a \in BOOLEAN, NEW outcome, Commit(h, a, outcome)
  PROVE  /\ user'.state = To(h, a)
         /\ session'.workflow = IF To(h, a) \in Active THEN To(h, a) ELSE "none"
         /\ session'.data = IF To(h, a) \in Active \/ Outlasts(h, a)
                            THEN Merge(session.data, Keeps(h, a)) ELSE NoData
         /\ Merge(session.data, Keeps(h, a)).slot = Gathered(h, a).slot
         /\ Merge(session.data, Keeps(h, a)).version
         /\ Merge(session.data, Keeps(h, a)).menu = Keeps(h, a).menu
<1>1. user'.state = To(h, a)
  <2>1. user' = SavedUser(req[h], Flushed(h, a), ~Refused(h, a), To(h, a))
    BY DEF Commit
  <2>2. (~Refused(h, a)) \in BOOLEAN
    BY DEF Refused, Denied
  <2>3. /\ req[h].at \in 0..MaxClock /\ req[h].loaded \in State
        /\ Flushed(h, a) \in State /\ To(h, a) \in State
    BY InFlight, PhaseTwo
  <2> DEFINE flushed == ~Refused(h, a)
  <2> HIDE DEF flushed
  <2>4. flushed \in BOOLEAN /\ user' = SavedUser(req[h], Flushed(h, a), flushed, To(h, a))
    BY <2>1, <2>2 DEF flushed
  <2>5. SavedUser(req[h], Flushed(h, a), flushed, To(h, a)).state = To(h, a)
    BY <2>3, <2>4, UserSaved
  <2> QED BY <2>4, <2>5
<1>2. /\ session'.workflow = IF To(h, a) \in Active THEN To(h, a) ELSE "none"
      /\ session'.data = IF To(h, a) \in Active \/ Outlasts(h, a)
                         THEN Merge(session.data, Keeps(h, a)) ELSE NoData
  <2>1. session' = SavedSession(req[h], session.data, To(h, a), Outlasts(h, a), Keeps(h, a))
    BY DEF Commit
  <2>2. To(h, a) \in State /\ Outlasts(h, a) \in BOOLEAN
    BY PhaseTwo
  <2> QED BY <2>1, <2>2, SessionSaved
<1> DEFINE k == Keeps(h, a)
           u == Understands(h, a).data
           m == Merge(session.data, k)
           g == Gathered(h, a)
<1>3. k \in Data /\ k.slot = u.slot /\ k.version /\ session.data \in Data /\ g \in Data
      /\ u \in Data
      /\ \A f \in Field : g.slot[f] = IF u.slot[f] # 0 THEN u.slot[f] ELSE session.data.slot[f]
  BY KeepsData, Rows, PhaseTwo
<1> HIDE DEF k, u, g
<1>4. /\ m \in Data /\ m.version = (session.data.version \/ k.version) /\ m.menu = k.menu
      /\ \A f \in Field : m.slot[f] = IF k.slot[f] # 0 THEN k.slot[f] ELSE session.data.slot[f]
  BY <1>3, MergeData
<1> HIDE DEF m
<1>5. m.slot \in [Field -> Number] /\ g.slot \in [Field -> Number]
  BY <1>3, <1>4, DataFields
<1>6. m.slot = g.slot
  <2>1. \A f \in Field : m.slot[f] = g.slot[f]
    BY <1>3, <1>4
  <2> QED BY <1>5, <2>1
<1>7. m.version
  BY <1>3, <1>4
<1> QED BY <1>1, <1>2, <1>4, <1>6, <1>7 DEF m, k, g

LEMMA RowsAfter ==
  ASSUME TypeInv, SoloInv, CalmInv, ~raced, NEW h \in Request, pc[h] = "extract",
         NEW a \in BOOLEAN, NEW outcome, Commit(h, a, outcome)
  PROVE  /\ user'.state = To(h, a)
         /\ session'.workflow = IF To(h, a) \in Active THEN To(h, a) ELSE "none"
         /\ session'.data = IF To(h, a) \in Active \/ Outlasts(h, a)
                            THEN Merge(session.data, Keeps(h, a)) ELSE NoData
         /\ Merge(session.data, Keeps(h, a)).slot = Gathered(h, a).slot
         /\ Merge(session.data, Keeps(h, a)).version
         /\ Merge(session.data, Keeps(h, a)).menu = Keeps(h, a).menu
<1>1. req[h].loaded = user.state
  BY Calmly DEF Alone
<1> QED BY <1>1, RowsWritten

LEMMA CommitRecords ==
  ASSUME NEW h \in Request, NEW a, NEW outcome, Commit(h, a, outcome)
  PROVE  /\ last'.reply = outcome
         /\ last'.choice = req[h].message.choice
         /\ last'.expired = Expired(session.updated)
         /\ last'.slots = IF outcome \in {"prompt", "load", "truck"}
                          THEN Slots(Flow(h, a), Gathered(h, a)) ELSE {}
         /\ shown' = IF outcome = "prompt" THEN Slots(Flow(h, a), Gathered(h, a))
                     ELSE IF outcome \in {"cancelled", "load", "truck"} THEN {} ELSE shown
         /\ unshown' = (outcome # "prompt"
                        /\ (unshown \/ req[h].n \in Used(Gathered(h, a))))
         /\ ended' = IF outcome \in {"cancelled", "load", "truck"} THEN Newer(req[h].n, ended)
                     ELSE ended
         /\ IF Said(h, a) = "post" THEN outcome \in {"failed", "load", "truck"}
            ELSE outcome = Said(h, a)
         /\ Goto(h, "idle") /\ req' = [req EXCEPT ![h] = NoRequest]
         /\ UNCHANGED <<now, sent, raced>>
BY DEF Commit, Record

\* What follows from a commit while nothing has expired: the slots in the
\* session are the ones shown, or were given since.
LEMMA ShownAfter ==
  ASSUME TypeInv, SoloInv, CalmInv, ~raced, now = 0, NEW h \in Request, pc[h] = "extract",
         NEW a \in BOOLEAN, NEW outcome, Commit(h, a, outcome)
  PROVE  AllShown'
<1> DEFINE intent == Understands(h, a).intent
           to == To(h, a)
           data == Gathered(h, a)
<1>1. Late(h) = FALSE /\ (From(h, a) \in Active
           => session.workflow = From(h, a) /\ req[h].workflow = From(h, a))
  BY ReadNow
<1>2. ~Outlasts(h, a)
  BY <1>1, PhaseTwo
<1>3. session'.workflow = "none" => ~Collected(session'.data)
  <2>1. ASSUME session'.workflow = "none" PROVE session'.data = NoData
    BY <1>2, <2>1, RowsAfter, States
  <2>2. ~Collected(NoData)
    BY EmptyData, Rows DEF Collected, HasSlots, HasAnchors, Has
  <2> QED BY <2>1, <2>2
<1>4. ASSUME session'.workflow \in Active, ~unshown',
             Missing(Family(session'.workflow), session'.data) = {}
      PROVE  shown' = Slots(Family(session'.workflow), session'.data)
  <2>1. to \in Active /\ session'.workflow = to /\ session'.data.slot = data.slot
    BY <1>4, RowsAfter, States
  <2>2. Missing(Family(to), data) = {}
    BY <1>4, <2>1, SlotsOnly
  <2>3. SUFFICES shown' = Slots(Family(to), data)
    BY <2>1, SlotsOnly
  <2>4. \A w \in Active : Asked(Posting[w]) = Family(w) /\ Posting[w] \in Postings
    BY DEF Asked, Posting, Family, Active, Postings
  <2>5. Said(h, a) # "post" /\ outcome = Said(h, a) /\ outcome \notin {"cancelled", "load", "truck"}
    <3>1. Said(h, a) # "post" /\ Said(h, a) # "cancelled"
      BY <2>1, Outcomes, States
    <3>2. Said(h, a) \notin {"load", "truck"}
      BY PhaseTwo
    <3> QED BY <3>1, <3>2, CommitRecords
  <2>6. CASE outcome = "prompt"
    <3>1. intent = Posting[to]
      BY <2>5, <2>6, Outcomes
    <3>2. Flow(h, a) = Family(to)
      BY <2>1, <2>4, <2>5, <2>6, <3>1 DEF Flow
    <3> QED BY <2>6, <3>2, CommitRecords
  <2>7. CASE outcome # "prompt"
    <3>1. ~unshown /\ req[h].n \notin Used(data) /\ shown' = shown
      BY <1>4, <2>5, <2>7, CommitRecords
    <3>2. intent \notin Postings
      <4> SUFFICES ASSUME intent \in Postings PROVE FALSE
        OBVIOUS
      <4>1. From(h, a) \in Active => intent = Posting[From(h, a)]
        <5>1. req[h].workflow \in Active /\ intent \in Postings
              => intent = Posting[req[h].workflow]
          BY InFlight, Rows, Understood DEF Understands
        <5> QED BY <1>1, <5>1
      <4>2. ~Refused(h, a)
        BY <1>1, <4>1, Outcomes
      <4>3. Missing(Asked(intent), data) # {} /\ intent = Posting[to]
        BY <2>5, <2>7, <4>2, Outcomes
      <4> QED BY <2>1, <2>2, <2>4, <4>3
    <3>3. to = From(h, a)
      BY <2>1, <2>4, <3>2, Outcomes
    <3>4. session.workflow = to
      BY <1>1, <2>1, <3>3
    <3>5. req[h].n = sent /\ AllShown
      BY Calmly DEF Calm, Kept
    <3>6. data.slot = session.data.slot
      BY <3>1, <3>2, <3>5, NothingSaid
    <3>7. Missing(Family(to), session.data) = {} /\ Slots(Family(to), session.data) = Slots(Family(to), data)
      BY <2>2, <3>6, SlotsOnly
    <3>8. shown = Slots(Family(to), session.data)
      BY <2>1, <3>1, <3>4, <3>5, <3>7 DEF AllShown
    <3> QED BY <3>1, <3>7, <3>8
  <2> QED BY <2>6, <2>7
<1> QED BY <1>3, <1>4 DEF AllShown

LEMMA KeptCommit ==
  ASSUME TypeInv, SoloInv, CalmInv, ~raced, NEW h \in Request, pc[h] = "extract",
         NEW a \in BOOLEAN, NEW outcome, Commit(h, a, outcome)
  PROVE  Kept'
<1>1. Calm(h) /\ Kept /\ sent \in Nat /\ ended \in Nat /\ req[h].n = sent /\ sent > ended
  BY Calmly DEF Calm
<1>2. Agree'
  <2>1. To(h, a) \in State
    BY PhaseTwo
  <2> QED BY <2>1, RowsAfter, States DEF Agree, Collected, HasAnchors
<1>3. ended' <= sent'
  BY <1>1, CommitRecords DEF Newer
<1>4. NewerThan(session'.data, ended')
  <2>1. NewerThan(NoData, ended')
    BY EmptyData, Rows DEF NewerThan
  <2>2. CASE outcome \in {"cancelled", "load", "truck"}
    <3>1. Said(h, a) \in {"cancelled", "post"}
      <4>1. Said(h, a) \notin {"load", "truck"}
        BY PhaseTwo
      <4>2. Said(h, a) # "post" => outcome = Said(h, a)
        BY CommitRecords
      <4> QED BY <2>2, <4>1, <4>2
    <3>2. To(h, a) = "IDLE" /\ Understands(h, a).intent \in {"CANCEL", "CONFIRM"}
      BY <3>1, Outcomes
    <3>3. ~Outlasts(h, a)
      BY <3>2, PhaseTwo
    <3>4. session'.data = NoData
      BY <3>2, <3>3, RowsAfter, States
    <3> QED BY <2>1, <3>4
  <2>3. CASE outcome \notin {"cancelled", "load", "truck"}
    <3>1. ended' = ended
      BY <2>3, CommitRecords
    <3>2. NewerThan(Merge(session.data, Keeps(h, a)), ended)
      BY NewerSaid, RowsAfter DEF NewerThan
    <3> QED BY <2>1, <3>1, <3>2, RowsAfter
  <2> QED BY <2>2, <2>3
<1>5. ASSUME last'.reply = "menu", ~last'.expired
      PROVE  session'.workflow \in Active /\ session'.data.menu
  <2>1. Said(h, a) = "menu"
    BY <1>5, CommitRecords
  <2>2. ~Late(h)
    <3>1. ~(now > session.updated)
      BY <1>5, CommitRecords DEF Expired
    <3> QED BY <3>1, Rows, InFlight DEF Late, Expired, Newer
  <2>3. To(h, a) \in Active /\ Understands(h, a).intent \in {"GREETING", "MENU", "UNKNOWN"}
    BY <2>1, <2>2, Outcomes
  <2>4. Keeps(h, a).menu
    BY <2>3, KeepsData
  <2> QED BY <2>3, <2>4, RowsAfter
<1>6. now' = 0 => AllShown'
  BY ShownAfter, CommitRecords
<1> QED BY <1>2, <1>3, <1>4, <1>5, <1>6 DEF Kept

LEMMA CalmRollback ==
  ASSUME TypeInv, SoloInv, CalmInv, ~raced, NEW h \in Request, pc[h] = "extract",
         NEW a \in BOOLEAN, Rollback(h, a)
  PROVE  Kept' /\ \A x \in Request : pc'[x] # "idle" => Calm(x)'
<1>1. Calm(h) /\ Kept /\ Alone(h) /\ sent \in Nat /\ ended \in Nat
  BY Calmly
<1>2. UNCHANGED <<now, user, session, listing, sent, last, shown, unshown, ended, raced>>
  BY DEF Rollback
<1>3. Kept'
  BY <1>1, <1>2 DEF Kept, AllShown, Agree
<1>4. /\ pc' = [pc EXCEPT ![h] = "rolledBack"] /\ pc \in [Request -> {"idle", "extract", "rolledBack"}]
      /\ req' = [req EXCEPT ![h].data = Keeps(h, a)] /\ req \in [Request -> RequestType]
  BY DEF Rollback, Goto, TypeInv, TypeOK, RequestType, Number
<1>5. /\ req'[h].data = Keeps(h, a) /\ req'[h].solo = req[h].solo /\ req'[h].n = req[h].n
      /\ req'[h].at = req[h].at /\ req'[h].message = req[h].message
  BY <1>4 DEF RequestType
<1>6. Understands(h, a).intent = "CONFIRM" /\ From(h, a) \in Active
  BY Outcomes DEF Rollback
<1>7. req[h].message.button # "none"
  <2>1. req[h].message.button = "none" => Understands(h, a).intent # "CONFIRM"
    BY InFlight, Rows, Understood DEF Understands
  <2> QED BY <1>6, <2>1
<1>8. Keeps(h, a).slot = Understands(h, a).data.slot
  BY KeepsData
<1>9. NewerThan(Keeps(h, a), ended)
  BY <1>8, NewerSaid DEF NewerThan
<1>10. ASSUME now = 0
       PROVE  /\ session.workflow \in Active
              /\ sent \in Used(Keeps(h, a)) \/ Keeps(h, a).slot = session.data.slot
  <2>1. session.workflow \in Active
    BY <1>6, <1>10, ReadNow
  <2>2. Understands(h, a).intent \notin Postings
    BY <1>6 DEF Postings
  <2>3. sent \in Used(Understands(h, a).data) \/ Understands(h, a).data.slot = session.data.slot
    BY <2>2, NothingSaid
  <2>4. Used(Keeps(h, a)) = Used(Understands(h, a).data)
    BY <1>8, SlotsOnly
  <2> QED BY <1>8, <2>1, <2>3, <2>4
<1>11. Calm(h)'
  BY <1>1, <1>2, <1>4, <1>5, <1>7, <1>9, <1>10 DEF Calm, NewerThan
<1>12. \A x \in Request : pc'[x] # "idle" => x = h
  BY <1>1, <1>4 DEF Alone
<1> QED BY <1>3, <1>11, <1>12

LEMMA RowsFinished ==
  ASSUME TypeInv, NEW h \in Request, FinishRolledBack(h)
  PROVE  /\ session'.workflow = IF user.state \in Active THEN user.state ELSE "none"
         /\ session'.data = IF user.state \in Active THEN Merge(NoData, req[h].data) ELSE NoData
         /\ Merge(NoData, req[h].data).slot = req[h].data.slot
         /\ NoData \in Data /\ \A f \in Field : NoData.slot[f] = 0
         /\ Agree'
<1> DEFINE d == req[h].data
<1>1. pc[h] = "rolledBack" /\ user' = user
  BY DEF FinishRolledBack
<1>2. /\ session'.workflow = IF user.state \in Active THEN user.state ELSE "none"
      /\ session'.data = IF user.state \in Active THEN Merge(NoData, d) ELSE NoData
  <2> DEFINE r == [req[h] EXCEPT !.at = now]
             keep == FALSE
  <2>1. session' = SavedSession(r, NoData, user.state, keep, d)
    BY DEF FinishRolledBack
  <2>2. user.state \in State
    BY Rows
  <2>3. keep \in BOOLEAN /\ ~keep
    OBVIOUS
  <2> HIDE DEF d, r, keep
  <2>4. /\ session'.workflow = IF user.state \in Active THEN user.state ELSE "none"
        /\ session'.data = IF user.state \in Active \/ keep THEN Merge(NoData, d) ELSE NoData
    BY <2>1, <2>2, <2>3, SessionSaved
  <2> QED BY <2>3, <2>4
<1>3. d \in Data /\ d.version /\ NoData \in Data /\ \A f \in Field : NoData.slot[f] = 0
  BY <1>1, InFlight, EmptyData, Rows DEF TypeInv
<1> HIDE DEF d
<1>4. /\ Merge(NoData, d) \in Data
      /\ Merge(NoData, d).version = (NoData.version \/ d.version)
      /\ \A f \in Field : Merge(NoData, d).slot[f] = IF d.slot[f] # 0 THEN d.slot[f] ELSE NoData.slot[f]
  BY <1>3, MergeData
<1>5. Merge(NoData, d).version /\ Merge(NoData, d).slot = d.slot
  <2>1. \A f \in Field : Merge(NoData, d).slot[f] = d.slot[f]
    BY <1>3, <1>4
  <2>2. Merge(NoData, d).slot \in [Field -> Number] /\ d.slot \in [Field -> Number]
    BY <1>3, <1>4, DataFields
  <2>3. Merge(NoData, d).slot = d.slot
    BY <2>1, <2>2
  <2>4. Merge(NoData, d).version
    BY <1>3, <1>4
  <2> QED BY <2>3, <2>4
<1>6. Agree'
  BY <1>1, <1>2, <1>5, Rows, States DEF Agree, Collected, HasAnchors
<1> QED BY <1>2, <1>3, <1>5, <1>6 DEF d

LEMMA KeptFinish ==
  ASSUME TypeInv, SoloInv, CalmInv, ~raced, NEW h \in Request, FinishRolledBack(h)
  PROVE  Kept'
<1> DEFINE d == req[h].data
<1>1. pc[h] = "rolledBack" /\ Calm(h) /\ Kept /\ ended \in Nat
  BY Calmly DEF FinishRolledBack
<1>2. /\ session'.workflow = IF user.state \in Active THEN user.state ELSE "none"
      /\ session'.data = IF user.state \in Active THEN Merge(NoData, d) ELSE NoData
      /\ Merge(NoData, d).slot = d.slot
      /\ NoData \in Data /\ \A f \in Field : NoData.slot[f] = 0
      /\ Agree'
  BY RowsFinished
<1>3. /\ last'.reply = "truck again" /\ shown' = shown /\ ended' = ended
      /\ unshown' = (unshown \/ req[h].n \in Used(d))
      /\ UNCHANGED <<now, user, listing, sent, raced>>
  BY DEF FinishRolledBack, Record
<1> HIDE DEF d
<1>4. ended' <= sent'
  BY <1>1, <1>3 DEF Kept
<1>5. NewerThan(session'.data, ended')
  <2>1. NewerThan(d, ended)
    BY <1>1 DEF Calm, d
  <2> QED BY <1>2, <1>3, <2>1 DEF NewerThan
<1>6. ASSUME now' = 0 PROVE AllShown'
  <2>1. /\ session.workflow \in Active /\ AllShown /\ Agree /\ req[h].n = sent
        /\ sent \in Used(d) \/ d.slot = session.data.slot
    BY <1>1, <1>3, <1>6 DEF Calm, Kept, d
  <2>2. user.state = session.workflow
    BY <2>1 DEF Agree
  <2>3. session'.workflow = session.workflow /\ session'.data.slot = d.slot
    BY <1>2, <2>1, <2>2
  <2>4. ASSUME ~unshown', Missing(Family(session'.workflow), session'.data) = {}
        PROVE  shown' = Slots(Family(session'.workflow), session'.data)
    <3>1. ~unshown /\ session'.data.slot = session.data.slot
      BY <1>3, <2>1, <2>3, <2>4
    <3>2. Missing(Family(session.workflow), session.data) = {}
          /\ Slots(Family(session.workflow), session.data) = Slots(Family(session.workflow), session'.data)
      BY <2>3, <2>4, <3>1, SlotsOnly
    <3> QED BY <1>3, <2>1, <2>3, <3>1, <3>2 DEF AllShown
  <2> QED BY <2>1, <2>3, <2>4, States DEF AllShown
<1> QED BY <1>2, <1>3, <1>4, <1>5, <1>6 DEF Kept

LEMMA KeptFail ==
  ASSUME TypeInv, SoloInv, CalmInv, ~raced, NEW h \in Request, Fail(h)
  PROVE  Kept'
<1>1. Kept
  BY Calmly DEF Fail
<1>2. Used(NoData) = {}
  BY EmptyData, Rows DEF Used
<1>3. /\ last'.reply = "fallback" /\ shown' = shown /\ ended' = ended /\ unshown' = unshown
      /\ UNCHANGED <<now, user, session, listing, sent, raced>>
  <2>1. unshown \in BOOLEAN
    BY DEF TypeInv, TypeOK
  <2>2. unshown' = (unshown \/ req[h].n \in {})
    BY <1>2 DEF Fail, Record
  <2>3. unshown' = unshown
    BY <2>1, <2>2
  <2> QED BY <2>3 DEF Fail, Record
<1>4. ended' <= sent'
  BY <1>1, <1>3 DEF Kept
<1> QED BY <1>1, <1>3, <1>4 DEF Kept, AllShown, Agree

LEMMA CalmReceive ==
  ASSUME TypeInv, SoloInv, CalmInv, NEW h \in Request, NEW m \in Messages, Receive(h, m)
  PROVE  CalmInv'
<1> SUFFICES ASSUME ~raced' PROVE Kept' /\ \A x \in Request : pc'[x] # "idle" => Calm(x)'
  BY DEF CalmInv
<1>1. ~raced /\ \A x \in Request : pc[x] = "idle"
  BY Received
<1>2. Kept
  BY <1>1 DEF CalmInv
<1>3. UNCHANGED <<now, user, session, listing, last, shown, unshown, ended>> /\ sent' = sent + 1
  BY Received
<1>4. sent \in Nat /\ ended \in Nat /\ ended <= sent /\ now \in Nat
  BY <1>2, Rows DEF Kept, Number
<1>5. ended' <= sent' /\ sent' > ended'
  BY <1>3, <1>4
<1>6. Kept'
  BY <1>2, <1>3, <1>5 DEF Kept, AllShown, Agree
<1>7. \A x \in Request : pc'[x] # "idle" => x = h
  BY <1>1, Received
<1>8. /\ req'[h].data = session.data /\ req'[h].at = now /\ req'[h].n = sent'
      /\ req'[h].solo /\ pc'[h] = "extract"
  BY <1>1, Received
<1>9. ReadAs(req[h])'
  <2> DEFINE stored == IF session.workflow # "none" THEN session.workflow ELSE user.state
             live == /\ stored \in Active /\ Collected(session.data)
                     /\ ~Expired(session.updated)
  <2>1. /\ req'[h].state = IF live THEN user.state ELSE "IDLE"
        /\ req'[h].workflow = IF live THEN stored ELSE "IDLE"
    BY DEF Receive
  <2>2. session' = session /\ Agree
    BY <1>2, <1>3 DEF Kept
  <2>3. CASE session.workflow \in Active
    <3>1. stored = session.workflow /\ user.state = session.workflow /\ Collected(session.data)
      BY <2>2, <2>3, States DEF Agree
    <3>2. ASSUME now <= session.updated PROVE live
      <4>1. ~Expired(session.updated)
        BY <3>2, Rows DEF Expired
      <4> QED BY <2>3, <3>1, <4>1
    <3> HIDE DEF stored, live
    <3>3. now <= session.updated => req'[h].state = session.workflow /\ req'[h].workflow = session.workflow
      BY <2>1, <3>1, <3>2
    <3> QED BY <1>8, <2>2, <2>3, <3>3 DEF ReadAs
  <2>4. CASE session.workflow \notin Active
    <3>1. stored = "IDLE" /\ ~live
      BY <2>2, <2>4, Rows, States DEF Agree
    <3> HIDE DEF stored, live
    <3> QED BY <2>1, <2>2, <2>4, <3>1 DEF ReadAs
  <2> QED BY <2>3, <2>4
<1>10. Calm(h)'
  <2>1. NewerThan(session.data, ended)
    BY <1>2 DEF Kept
  <2>2. NewerThan(req[h].data, ended)'
    BY <1>3, <1>8, <2>1 DEF NewerThan
  <2>3. req'[h].at <= now'
    BY <1>3, <1>4, <1>8
  <2> QED BY <1>3, <1>5, <1>8, <1>9, <2>2, <2>3 DEF Calm
<1> QED BY <1>6, <1>7, <1>10

LEMMA CalmNext == TypeInv /\ SoloInv /\ CalmInv /\ [Next]_vars => CalmInv'
<1> SUFFICES ASSUME TypeInv, SoloInv, CalmInv, [Next]_vars PROVE CalmInv'
  OBVIOUS
<1>1. CASE UNCHANGED vars
  BY <1>1 DEF vars, CalmInv, Calm, Kept, AllShown, Agree, ReadAs, NewerThan
<1>2. CASE Tick
  <2>1. now' = now + 1 /\ UNCHANGED <<user, session, listing, pc, req, sent, last, shown, unshown, ended, raced>>
    BY <1>2 DEF Tick
  <2>2. now \in Nat /\ now' # 0
    BY <2>1, Rows
  <2> SUFFICES ASSUME ~raced PROVE Kept' /\ \A x \in Request : pc'[x] # "idle" => Calm(x)'
    BY <2>1 DEF CalmInv
  <2>3. Kept /\ \A x \in Request : pc[x] # "idle" => Calm(x)
    BY DEF CalmInv
  <2>4. Kept'
    BY <2>1, <2>2, <2>3 DEF Kept, Agree, NewerThan
  <2>5. ASSUME NEW x \in Request, pc'[x] # "idle" PROVE Calm(x)'
    <3>1. Calm(x)
      BY <2>1, <2>3, <2>5
    <3>2. req'[x].at <= now'
      BY <2>1, <2>2, <2>5, <3>1, InFlight DEF Calm
    <3> QED BY <2>1, <2>2, <3>1, <3>2 DEF Calm, ReadAs, NewerThan
  <2> QED BY <2>4, <2>5
<1>3. ASSUME NEW h \in Request, NEW m \in Messages, Receive(h, m) PROVE CalmInv'
  BY <1>3, CalmReceive
<1>4. ASSUME NEW h \in Request, Dispatch(h) PROVE CalmInv'
  <2>1. pc[h] = "extract"
    BY <1>4, DispatchIs
  <2>2. PICK a \in BOOLEAN : Rollback(h, a) \/ \E outcome : Commit(h, a, outcome)
    BY <1>4, DispatchIs
  <2>3. CASE Rollback(h, a)
    <3>1. raced' = raced
      BY <2>3 DEF Rollback
    <3> QED BY <2>1, <2>3, <3>1, CalmRollback DEF CalmInv
  <2>4. ASSUME NEW outcome, Commit(h, a, outcome) PROVE CalmInv'
    <3>1. Goto(h, "idle") /\ req' = [req EXCEPT ![h] = NoRequest] /\ raced' = raced
      BY <2>4, CommitRecords
    <3>2. ~raced => Kept'
      BY <2>1, <2>4, KeptCommit
    <3> QED BY <2>1, <3>1, <3>2, CalmLeave
  <2> QED BY <2>2, <2>3, <2>4
<1>5. ASSUME NEW h \in Request, FinishRolledBack(h) PROVE CalmInv'
  <2>1. pc[h] # "idle" /\ Goto(h, "idle") /\ req' = [req EXCEPT ![h] = NoRequest]
        /\ raced' = raced
    BY <1>5 DEF FinishRolledBack, Record
  <2> QED BY <1>5, <2>1, KeptFinish, CalmLeave
<1>6. ASSUME NEW h \in Request, Fail(h) PROVE CalmInv'
  <2>1. pc[h] # "idle" /\ Goto(h, "idle") /\ req' = [req EXCEPT ![h] = NoRequest]
        /\ raced' = raced
    BY <1>6 DEF Fail, Record
  <2> QED BY <1>6, <2>1, KeptFail, CalmLeave
<1> QED BY <1>1, <1>2, <1>3, <1>4, <1>5, <1>6 DEF Next

LEMMA ConvAlways == Spec => []ConvInv
<1>1. Init => ConvInv
  <2> SUFFICES ASSUME Init PROVE ConvInv
    OBVIOUS
  <2>1. TypeInv
    BY TypeInit
  <2>2. \A h \in Request : pc[h] = "idle"
    BY DEF Init
  <2>3. /\ NoData \in Data /\ NoData.version = FALSE /\ \A f \in Field : NoData.slot[f] = 0
    BY EmptyData, ConversationAssumption
  <2>4. ~Collected(NoData)
    BY <2>3 DEF Collected, HasSlots, HasAnchors, Has
  <2>5. /\ user.state = "IDLE" /\ session.workflow = "none" /\ session.data = NoData
        /\ last.reply = "none" /\ ended = 0 /\ sent = 0
    BY DEF Init, NoReply
  <2>6. Kept
    BY <2>3, <2>4, <2>5, States DEF Kept, Agree, AllShown, NewerThan
  <2> QED BY <2>1, <2>2, <2>6 DEF ConvInv, SoloInv, CalmInv
<1>2. ConvInv /\ [Next]_vars => ConvInv'
  BY TypeNext, SoloNext, CalmNext DEF ConvInv
<1> QED BY <1>1, <1>2, PTL DEF Spec

\* who takes a step that ends the request h
LEMMA Finisher ==
  ASSUME TypeInv, Next, NEW h \in Request, Finishes(h)
  PROVE  \/ pc[h] = "extract" /\ \E a \in BOOLEAN : \E outcome : Commit(h, a, outcome)
         \/ FinishRolledBack(h) \/ Fail(h)
<1>0. pc \in [Request -> {"idle", "extract", "rolledBack"}] /\ pc[h] # "idle" /\ pc'[h] = "idle"
  BY DEF TypeInv, TypeOK, Finishes
<1>1. ~Tick
  BY <1>0 DEF Tick
<1>2. ASSUME NEW g \in Request, NEW m \in Messages, Receive(g, m) PROVE FALSE
  BY <1>0, <1>2, Received
<1>3. ASSUME NEW g \in Request, Dispatch(g)
      PROVE  pc[h] = "extract" /\ \E a \in BOOLEAN : \E outcome : Commit(h, a, outcome)
  <2>1. pc[g] = "extract"
    BY <1>3, DispatchIs
  <2>2. PICK a \in BOOLEAN : Rollback(g, a) \/ \E outcome : Commit(g, a, outcome)
    BY <1>3, DispatchIs
  <2>3. ~Rollback(g, a)
    BY <1>0 DEF Rollback, Goto
  <2>4. PICK outcome : Commit(g, a, outcome)
    BY <2>2, <2>3
  <2>5. g = h
    BY <1>0, <2>4 DEF Commit, Goto
  <2> QED BY <2>1, <2>4, <2>5
<1>4. ASSUME NEW g \in Request, FinishRolledBack(g) PROVE FinishRolledBack(h)
  <2>1. g = h
    BY <1>0, <1>4 DEF FinishRolledBack, Goto
  <2> QED BY <1>4, <2>1
<1>5. ASSUME NEW g \in Request, Fail(g) PROVE Fail(h)
  <2>1. g = h
    BY <1>0, <1>5 DEF Fail, Goto
  <2> QED BY <1>5, <2>1
<1> QED BY <1>1, <1>2, <1>3, <1>4, <1>5 DEF Next

LEMMA OtherReplies ==
  ASSUME NEW h \in Request
  PROVE  /\ FinishRolledBack(h) => last'.reply = "truck again"
         /\ Fail(h) => last'.reply = "fallback"
<1>1. ASSUME FinishRolledBack(h) PROVE last'.reply = "truck again"
  <2>1. Record(h, "truck again", Slots("truck", req[h].data), req[h].data)
    BY <1>1 DEF FinishRolledBack
  <2> QED BY <2>1 DEF Record
<1>2. ASSUME Fail(h) PROVE last'.reply = "fallback"
  BY <1>2 DEF Fail, Record
<1> QED BY <1>1, <1>2

-----------------------------------------------------------------------------
(* The results.                                                            *)

\* The rows, the requests and what they hold keep their types: each message is
\* understood as an intent, led to a state and answered (StateMachineService,
\* IntentResolver, DispatcherService).
THEOREM ConversationTypes == Spec => []TypeOK
<1>1. ConvInv => TypeOK
  BY DEF ConvInv, TypeInv
<1> QED BY <1>1, ConvAlways, PTL

\* A request nothing has overlapped with, and that does not fail, leaves
\* users.state and the session in agreement, whatever it found
\* (_process_phase2_response, save_session, clear_session).
THEOREM RowsAgree == Spec => Agreement
<1> DEFINE A == \A h \in Request :
      Finishes(h) /\ req[h].solo /\ last'.reply # "fallback" => Agree'
<1>1. ConvInv /\ [Next]_vars => [A]_vars
  <2> SUFFICES ASSUME ConvInv, Next, NEW h \in Request, Finishes(h), req[h].solo,
                      last'.reply # "fallback"
               PROVE  Agree'
    OBVIOUS
  <2>1. TypeInv /\ pc[h] # "idle" /\ req[h].loaded = user.state
    BY DEF ConvInv, SoloInv, Alone, Finishes
  <2>2. ASSUME pc[h] = "extract", NEW a \in BOOLEAN, NEW outcome, Commit(h, a, outcome)
        PROVE  Agree'
    <3>1. To(h, a) \in State
      BY <2>1, PhaseTwo
    <3> QED BY <2>1, <2>2, <3>1, RowsWritten, States DEF Agree, Collected, HasAnchors
  <2>3. CASE FinishRolledBack(h)
    BY <2>1, <2>3, RowsFinished
  <2>4. ~Fail(h)
    BY DEF Fail, Record
  <2> QED BY <2>1, <2>2, <2>3, <2>4, Finisher
<1> QED BY <1>1, ConvAlways, PTL DEF Spec, Agreement

\* While requests do not overlap, nothing the sender wrote up to the end of one
\* posting is in a later one (IDLE transitions clear the session buffer).
THEOREM NothingReused == Spec => CleanStart
<1> DEFINE A == \A h \in Request :
      Posts(h) /\ ~raced => \A s \in last'.slots : s[2] > ended
<1>1. ConvInv /\ [Next]_vars => [A]_vars
  <2> SUFFICES ASSUME ConvInv, Next, NEW h \in Request, Posts(h), ~raced,
                      NEW s \in last'.slots
               PROVE  s[2] > ended
    OBVIOUS
  <2>1. TypeInv /\ SoloInv /\ CalmInv /\ Finishes(h) /\ last'.reply \in {"load", "truck"}
    BY DEF ConvInv, Posts
  <2>2. ASSUME pc[h] = "extract", NEW a \in BOOLEAN, NEW outcome, Commit(h, a, outcome)
        PROVE  s[2] > ended
    <3>1. s \in Slots(Flow(h, a), Gathered(h, a))
      BY <2>1, <2>2, CommitRecords
    <3>2. NewerThan(Gathered(h, a), ended) /\ ended \in Nat
      BY <2>1, <2>2, NewerSaid, Calmly
    <3> QED BY <3>1, <3>2, SlotsNewer
  <2>3. ~FinishRolledBack(h) /\ ~Fail(h)
    BY <2>1, OtherReplies
  <2> QED BY <2>1, <2>2, <2>3, Finisher
<1> QED BY <1>1, ConvAlways, PTL DEF Spec, CleanStart

\* What is posted is what the sender was last asked to confirm, slot by slot,
\* unless slots were given since without being shown, for any messages
\* (_handle_create_load, _handle_confirm_load and _collect_payload_data).
THEOREM PostedAsShown == Spec => AsShown
<1> DEFINE A == \A h \in Request :
      Posts(h) /\ ~raced /\ now = 0 /\ ~unshown' => last'.slots = shown
<1>1. ConvInv /\ [Next]_vars => [A]_vars
  <2> SUFFICES ASSUME ConvInv, Next, NEW h \in Request, Posts(h), ~raced, now = 0, ~unshown'
               PROVE  last'.slots = shown
    OBVIOUS
  <2>1. TypeInv /\ SoloInv /\ CalmInv /\ Finishes(h) /\ last'.reply \in {"load", "truck"}
    BY DEF ConvInv, Posts
  <2>2. ASSUME pc[h] = "extract", NEW a \in BOOLEAN, NEW outcome, Commit(h, a, outcome)
        PROVE  last'.slots = shown
    <3>1. outcome \in {"load", "truck"}
      BY <2>1, <2>2, CommitRecords
    <3>2. Said(h, a) = "post"
      <4>1. Said(h, a) \notin {"load", "truck"}
        BY <2>1, <2>2, PhaseTwo
      <4>2. Said(h, a) # "post" => outcome = Said(h, a)
        BY <2>2, CommitRecords
      <4> QED BY <3>1, <4>1, <4>2
    <3>3. /\ Understands(h, a).intent = "CONFIRM" /\ From(h, a) \in Active
          /\ Missing(Family(From(h, a)), Gathered(h, a)) = {}
      BY <2>1, <2>2, <3>2, Outcomes
    <3>4. Flow(h, a) = Family(From(h, a))
      BY <3>2 DEF Flow
    <3>5. last'.slots = Slots(Flow(h, a), Gathered(h, a))
      BY <2>2, <3>1, CommitRecords
    <3>6. ~unshown /\ req[h].n \notin Used(Gathered(h, a))
      BY <2>2, <3>1, CommitRecords
    <3>7. req[h].n = sent /\ AllShown
      BY <2>1, <2>2, Calmly DEF Calm, Kept
    <3>8. session.workflow = From(h, a)
      BY <2>1, <2>2, <3>3, ReadNow
    <3>9. Gathered(h, a).slot = session.data.slot
      BY <2>1, <2>2, <3>3, <3>6, <3>7, NothingSaid DEF Postings
    <3>10. /\ Missing(Family(From(h, a)), session.data) = {}
           /\ Slots(Family(From(h, a)), session.data) = Slots(Family(From(h, a)), Gathered(h, a))
      BY <3>3, <3>9, SlotsOnly
    <3> QED BY <3>3, <3>4, <3>5, <3>6, <3>7, <3>8, <3>10 DEF AllShown
  <2>3. ~FinishRolledBack(h) /\ ~Fail(h)
    BY <2>1, OtherReplies
  <2> QED BY <2>1, <2>2, <2>3, Finisher
<1> QED BY <1>1, ConvAlways, PTL DEF Spec, AsShown

\* A bare 2 after the interrupt menu cancels (IntentResolver.resolve).
THEOREM TwoAlwaysCancels == Spec => MenuChoice
<1> DEFINE A == \A h \in Request :
      /\ Finishes(h) /\ ~raced /\ last.reply = "menu" /\ last'.choice = "2"
      /\ req[h].message.llm = "UNKNOWN" /\ ~last.expired /\ ~last'.expired
      => last'.reply \in {"cancelled", "fallback"}
<1>1. ConvInv /\ [Next]_vars => [A]_vars
  <2> SUFFICES ASSUME ConvInv, Next, NEW h \in Request, Finishes(h), ~raced,
                      last.reply = "menu", last'.choice = "2",
                      req[h].message.llm = "UNKNOWN", ~last.expired, ~last'.expired
               PROVE  last'.reply \in {"cancelled", "fallback"}
    OBVIOUS
  <2>1. TypeInv /\ SoloInv /\ CalmInv /\ pc[h] # "idle"
    BY DEF ConvInv, Finishes
  <2>2. Kept /\ Calm(h)
    BY <2>1, Calmly
  <2>3. session.workflow \in Active /\ session.data.menu
    BY <2>2 DEF Kept
  <2>4. ASSUME pc[h] = "extract", NEW a \in BOOLEAN, NEW outcome, Commit(h, a, outcome)
        PROVE  last'.reply = "cancelled"
    <3>1. req[h].message.choice = "2" /\ ~Expired(session.updated)
      BY <2>4, CommitRecords
    <3>2. req[h].message \in Messages /\ req[h].message \in Message
      BY <2>1, InFlight
    <3>3. req[h].message.button = "none" /\ ~req[h].message.greeting
      BY <3>1, <3>2, ConversationAssumption
    <3>4. req[h].at <= session.updated
      BY <2>1, <2>2, <3>1, Rows, InFlight DEF Calm, Expired
    <3>5. req[h].workflow \in Active /\ req[h].data.menu
      BY <2>2, <2>3, <2>4, <3>4 DEF Calm, ReadAs
    <3>6. Understands(h, a).intent = "CANCEL"
      BY <3>1, <3>2, <3>3, <3>5, TwoCancels DEF Understands
    <3>7. Said(h, a) = "cancelled"
      BY <2>1, <2>4, <3>6, Outcomes
    <3> QED BY <2>4, <3>7, CommitRecords
  <2>5. ~FinishRolledBack(h)
    <3> SUFFICES ASSUME FinishRolledBack(h) PROVE FALSE
      OBVIOUS
    <3>1. req[h].message.button # "none" /\ req[h].message.choice = "2"
      BY <2>2 DEF Calm, FinishRolledBack, Record
    <3> QED BY <2>1, <3>1, InFlight, ConversationAssumption
  <2>6. ASSUME Fail(h) PROVE last'.reply = "fallback"
    BY <2>6 DEF Fail, Record
  <2> QED BY <2>1, <2>4, <2>5, <2>6, Finisher
<1> QED BY <1>1, ConvAlways, PTL DEF Spec, MenuChoice
=============================================================================
