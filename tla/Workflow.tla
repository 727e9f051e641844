------------------------------ MODULE Workflow ------------------------------
(***************************************************************************)
(* What a message means: the pure part of a webhook request.  From the     *)
(* message, the slots collected so far and the sender's workflow, the      *)
(* IntentResolver, the corrections of phase 1 and the StateMachineService  *)
(* decide on an intent and on the workflow it leads to, and the dispatcher *)
(* on what is still missing.                                               *)
(*                                                                         *)
(* Slots hold the number of the message that gave them (0: not given), so  *)
(* that the modules built on this one can tell where a posting comes from. *)
(***************************************************************************)
EXTENDS Naturals, FiniteSets

Active == {"LOAD_FLOW", "TRUCK_FLOW"}       \* ACTIVE_WORKFLOWS
State == Active \cup {"IDLE"}
Family(workflow) == CASE workflow = "LOAD_FLOW" -> "load"
                      [] workflow = "TRUCK_FLOW" -> "truck"
                      [] OTHER -> "none"

Intent == {"CREATE_LOAD", "POST_TRUCK", "VIEW_LOADS", "VIEW_TRUCKS",
           "UPLOAD_KYC", "RATE_TRIP", "TRACK_TRUCK", "CONTACT_DRIVER",
           "CONFIRM_BOOKING", "GREETING", "MENU", "UNKNOWN", "CONFIRM", "CANCEL"}
Interrupt == {"GREETING"}                   \* INTERRUPT_INTENTS

-----------------------------------------------------------------------------
(* The transition matrix (StateMachineService.TRANSITIONS).                *)

Lookup == {"UPLOAD_KYC", "RATE_TRIP", "TRACK_TRUCK", "CONTACT_DRIVER",
           "CONFIRM_BOOKING"}

\* the posting intent, and the listing intent, of each workflow
Posting == [LOAD_FLOW |-> "CREATE_LOAD", TRUCK_FLOW |-> "POST_TRUCK"]
Viewing == [LOAD_FLOW |-> "VIEW_LOADS", TRUCK_FLOW |-> "VIEW_TRUCKS"]

Transitions ==
    {<<"IDLE", Posting[w], w>> : w \in Active}
    \cup {<<w, Posting[w], w>> : w \in Active}
    \cup {<<w, "UNKNOWN", w>> : w \in State}
    \cup {<<w, Viewing[w], "IDLE">> : w \in Active}
    \cup {<<"IDLE", i, "IDLE">> : i \in {"VIEW_LOADS", "VIEW_TRUCKS"}}
    \cup {<<w, i, "IDLE">> : w \in State, i \in Lookup}
    \cup {<<w, i, "IDLE">> : w \in Active, i \in {"CONFIRM", "CANCEL"}}

\* StateMachineService.transition: an expired workflow counts as IDLE, CANCEL
\* is allowed everywhere, and a denied intent leaves the state alone
Transition(current, intent, expired) ==
    LET state == IF expired THEN "IDLE" ELSE current
        next == {t[3] : t \in {t \in Transitions : t[1] = state /\ t[2] = intent}}
        known == next # {}
    IN  [allowed |-> known \/ intent = "CANCEL",
         next |-> IF known THEN CHOOSE s \in next : TRUE
                  ELSE IF intent = "CANCEL" THEN "IDLE" ELSE state,
         expired |-> expired /\ current \in Active]

-----------------------------------------------------------------------------
(* Slots.                                                                  *)

Field == {"from_city", "to_city", "current_city", "weight_kg", "capacity_kg",
          "date", "pickup_date", "departure_date"}   \* WORKFLOW_SLOT_FIELDS
Confidence == {"none", "LOW", "MEDIUM", "HIGH"}      \* RouteConfidence

\* version: resolver_version, the anchor every saved session carries;
\* prompted: the route (origin, destination) the user was asked to confirm;
\* menu: interrupt_menu_active; button: interactive_action_id
NoData == [slot |-> [f \in Field |-> 0], confidence |-> "none",
           prompted |-> <<0, 0>>, menu |-> FALSE, version |-> FALSE,
           button |-> "none"]

Has(data, f) == data.slot[f] # 0
HasSlots(data) == \E f \in Field : Has(data, f)      \* session_has_workflow_slots
HasAnchors(data) == data.version                     \* session_has_workflow_anchors
Collected(data) == HasSlots(data) \/ HasAnchors(data)
Used(data) == {data.slot[f] : f \in Field} \ {0}

\* {**old, **new}
Merge(old, new) ==
    [slot |-> [f \in Field |-> IF Has(new, f) THEN new.slot[f] ELSE old.slot[f]],
     confidence |-> IF new.confidence # "none" THEN new.confidence ELSE old.confidence,
     prompted |-> IF new.prompted # <<0, 0>> THEN new.prompted ELSE old.prompted,
     menu |-> new.menu, version |-> old.version \/ new.version,
     button |-> IF new.button # "none" THEN new.button ELSE old.button]

\* StateMachineService.reconstruct_workflow_from_session_data, for collected data
Reconstructed(data, preferred) ==
    IF preferred \in Active THEN preferred
    ELSE IF \E f \in {"current_city", "capacity_kg", "departure_date"} : Has(data, f)
         THEN "TRUCK_FLOW" ELSE "LOAD_FLOW"

\* _canonicalize_workflow_slots: the aliases of one flow become its slots
Canonical(data, intent) ==
    LET s == data.slot
        first(f, g) == IF s[f] # 0 THEN s[f] ELSE s[g]
    IN  CASE intent = "CREATE_LOAD" ->
               [data EXCEPT !.slot = [s EXCEPT
                   !.weight_kg = first("weight_kg", "capacity_kg"),
                   !.pickup_date = first("pickup_date", "date"),
                   !.departure_date = 0, !.date = 0]]
          [] intent = "POST_TRUCK" ->
               [data EXCEPT !.slot = [s EXCEPT
                   !.current_city = first("current_city", "from_city"),
                   !.capacity_kg = first("capacity_kg", "weight_kg"),
                   !.departure_date = first("departure_date", "date"),
                   !.pickup_date = 0, !.date = 0]]
          [] OTHER -> data

\* the fields a posting needs, each with the slots that may fill it
Needed(flow) ==
    IF flow = "load"
    THEN {{"from_city"}, {"to_city"}, {"weight_kg"}, {"pickup_date", "date"}}
    ELSE {{"current_city", "from_city"}, {"to_city"}, {"capacity_kg"},
          {"departure_date", "date"}}
Missing(flow, data) == {n \in Needed(flow) : \A f \in n : ~Has(data, f)}

Route(flow, data) ==
    <<IF flow = "truck" /\ Has(data, "current_city") THEN data.slot["current_city"]
      ELSE data.slot["from_city"], data.slot["to_city"]>>

\* a route of middling confidence is confirmed once before the next question
AskRoute(flow, data) ==
    /\ data.confidence = "MEDIUM"
    /\ Route(flow, data)[1] # 0 /\ Route(flow, data)[2] # 0
    /\ Missing(flow, data) # {}
    /\ data.prompted # Route(flow, data)

-----------------------------------------------------------------------------
(* Messages.  button: the id (or its prefix) of a tapped button; choice: a *)
(* bare menu number; words and route: what the heuristics see in the text; *)
(* parsed: slots phase 1 finds in the text by pattern; llm and told:       *)
(* intent and slots of the LLM's answer, when there is one.                *)

ButtonIntent ==   \* IntentResolver.resolve_interactive_action_id
    [RATING |-> "RATE_TRIP", TRACK_TRUCK |-> "TRACK_TRUCK",
     CONTACT_DRIVER |-> "CONTACT_DRIVER", BOOKING |-> "CONFIRM_BOOKING",
     CANCEL_BOOKING |-> "CANCEL", CONFIRM_LOAD |-> "CONFIRM",
     CONFIRM_TRUCK |-> "CONFIRM", CANCEL |-> "CANCEL", MAIN_MENU |-> "CANCEL",
     POST_TRUCK |-> "POST_TRUCK", POST_LOAD |-> "CREATE_LOAD",
     TRACK_BOOKING |-> "VIEW_LOADS", DELIVERY_STATUS |-> "VIEW_TRUCKS",
     UPLOAD_KYC |-> "UPLOAD_KYC", VIEW_LOADS |-> "VIEW_LOADS",
     VIEW_TRUCKS |-> "VIEW_TRUCKS"]
Word == {"load phrase", "truck phrase", "load", "truck", "load signal",
         "truck signal"}
Message == [button : DOMAIN ButtonIntent \cup {"none"},
            choice : {"none", "1", "2", "3"},
            greeting : BOOLEAN, words : SUBSET Word,
            route : {"none", "corridor", "adjacent"}, parsed : SUBSET Field,
            llm : {"CREATE_LOAD", "POST_TRUCK", "UNKNOWN"}, told : SUBSET Field]

Fields(S, n) == [f \in Field |-> IF f \in S THEN n ELSE 0]

\* What extract and the patterns of phase 1 give for message number n.  A
\* greeting never reaches the LLM, and an LLM that fails says nothing.
Extracted(m, answered, n) ==
    LET told == IF answered /\ ~m.greeting THEN m.told ELSE {}
    IN  [intent |-> IF m.greeting THEN "GREETING"
                    ELSE IF answered THEN m.llm ELSE "UNKNOWN",
         data |-> [NoData EXCEPT !.slot = Fields(m.parsed \cup told, n),
                                 !.confidence = IF told # {} THEN "MEDIUM"
                                                ELSE IF m.button # "none" THEN "LOW" ELSE "none",
                                 !.version = TRUE, !.button = m.button]]

\* _explicit_keyword_intent
Explicit(words) ==
    IF "load phrase" \in words THEN "CREATE_LOAD"
    ELSE IF "truck phrase" \in words THEN "POST_TRUCK"
    ELSE IF "load" \in words /\ "truck" \notin words THEN "CREATE_LOAD"
    ELSE IF "truck" \in words /\ "load" \notin words THEN "POST_TRUCK"
    ELSE "none"

\* _heuristic_resolve_text: a keyword beats two cities, which beat a signal
Heuristic(m, workflow) ==
    IF Explicit(m.words) # "none" THEN Explicit(m.words)
    ELSE IF m.route # "none"
         THEN IF workflow = "TRUCK_FLOW" THEN "POST_TRUCK" ELSE "CREATE_LOAD"
    ELSE IF {"load", "load signal"} \cap m.words # {} THEN "CREATE_LOAD"
    ELSE IF {"truck", "truck signal"} \cap m.words # {} THEN "POST_TRUCK"
    ELSE "none"

\* _infer_from_entities
Inferred(data) ==
    IF Has(data, "capacity_kg") \/ Has(data, "current_city") THEN "POST_TRUCK"
    ELSE IF \E f \in {"weight_kg", "from_city", "to_city"} : Has(data, f)
         THEN "CREATE_LOAD" ELSE "none"

\* Mutant: a bare number is always a choice of the main menu.
ChosenMain(choice, workflow, menu) ==
    CASE choice = "none" -> "none" [] choice = "1" -> "CREATE_LOAD"
      [] choice = "2" -> "POST_TRUCK" [] choice = "3" -> "UPLOAD_KYC"

\* a bare number: the interrupt menu's 1 continue, 2 cancel, 3 main menu, or
\* outside a workflow the main menu's
Chosen(choice, workflow, menu) ==
    IF choice = "none" THEN "none"
    ELSE IF workflow \in Active
         THEN IF ~menu THEN "none"
              ELSE IF choice = "1" THEN Posting[workflow] ELSE "CANCEL"
    ELSE CASE choice = "1" -> "CREATE_LOAD" [] choice = "2" -> "POST_TRUCK"
           [] choice = "3" -> "UPLOAD_KYC"

\* the heuristics are reached when nothing before them has an answer
ReachesHeuristic(m, intent, workflow, menu) ==
    /\ m.button = "none" /\ intent = "UNKNOWN"
    /\ Chosen(m.choice, workflow, menu) = "none"

\* IntentResolver.resolve.  data is never empty: it carries a version.
Resolve(m, intent, data, workflow, menu) ==
    IF m.button # "none" THEN ButtonIntent[m.button]
    ELSE IF ~ReachesHeuristic(m, intent, workflow, menu)
         THEN IF intent # "UNKNOWN" THEN intent ELSE Chosen(m.choice, workflow, menu)
    ELSE IF Heuristic(m, workflow) # "none" THEN Heuristic(m, workflow)
    ELSE IF workflow \in Active THEN Posting[workflow]
    ELSE IF Inferred(data) # "none" THEN Inferred(data) ELSE "UNKNOWN"

\* The corrections of phase 1: the posting intent is the workflow's own, a
\* route alone starts nothing, and a route with a quantity does.
Correct(intent, workflow, data, session) ==
    LET route == Has(data, "from_city") /\ Has(data, "to_city")
        weight == Has(data, "weight_kg")
        capacity == Has(data, "capacity_kg")
        posting == {"CREATE_LOAD", "POST_TRUCK"}
        own == IF intent \in posting /\ workflow \in Active
               THEN Posting[workflow] ELSE intent
        started == IF own \in posting /\ route /\ ~weight /\ ~capacity
                      /\ workflow = "IDLE" THEN "UNKNOWN" ELSE own
        promoted == IF started = "UNKNOWN" /\ route /\ (weight \/ capacity)
                    THEN IF workflow \in Active THEN Posting[workflow]
                         ELSE IF capacity /\ ~weight THEN "POST_TRUCK" ELSE "CREATE_LOAD"
                    ELSE started
    IN  IF promoted = "UNKNOWN" /\ Has(session, "from_city") /\ Has(session, "to_city")
        THEN "CREATE_LOAD" ELSE promoted

\* Phase 1 from the answer of extract on: intent and data of message number n
\* for a sender whose session holds data "session" in "workflow".
Understand(m, answered, n, workflow, session) ==
    LET ext == Extracted(m, answered, n)
        data == [Merge(session, ext.data) EXCEPT !.menu = session.menu]
        seen == m.route # "none"
                /\ ReachesHeuristic(m, ext.intent, workflow, session.menu)
        routed == IF ~seen THEN data
                  ELSE [data EXCEPT !.slot["from_city"] = n, !.slot["to_city"] = n,
                          !.confidence = IF m.route = "corridor" THEN "HIGH" ELSE "MEDIUM"]
        intent == Correct(Resolve(m, ext.intent, routed, workflow, session.menu),
                          workflow, routed, session)
        final == Canonical(routed, intent)
    IN  [intent |-> intent,
         data |-> IF final.confidence = "none" THEN [final EXCEPT !.confidence = "LOW"]
                  ELSE final]
=============================================================================
