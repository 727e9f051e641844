---------------------------- MODULE Conversation ----------------------------
(***************************************************************************)
(* The conversation with one sender.  Each message is a webhook request:   *)
(* phase 1 loads the sender's row of users and of user_sessions, awaits    *)
(* the extraction, and phase 2 locks the user, judges the transition, runs *)
(* the dispatcher and writes both rows in one commit.  Several requests of *)
(* one sender may be in flight, in different worker processes.             *)
(*                                                                         *)
(* SELECT ... FOR UPDATE in phase 2 returns the User object phase 1 has    *)
(* loaded, with the attributes it had then; the session row is read again. *)
(* An UPDATE is sent only for an attribute that differs from its loaded    *)
(* value, and updated_at is the time the transaction began.  The execution *)
(* ledger, which a fresh message always passes, is in ExecutionLedger.     *)
(***************************************************************************)
EXTENDS Workflow, Integers

CONSTANTS
    Request,      \* webhook requests in flight
    Messages,     \* what the sender may send
    MaxMessages,  \* bound: messages sent
    MaxOverlap,   \* bound: the messages, from the first, that may overlap
    MaxClock,     \* bound: the clock, in steps of more than 45 minutes
    None


ASSUME ConversationAssumption ==
    /\ Messages \subseteq Message
    \* a number alone is the whole of a text, and no greeting
    /\ \A m \in Messages : m.choice # "none" => m.button = "none" /\ ~m.greeting
    /\ MaxMessages \in Nat /\ MaxOverlap \in Nat /\ MaxClock \in Nat
    /\ None \notin Int

VARIABLES
    now,
    user,     \* users: state and updated_at
    session,  \* user_sessions: current_workflow, session_data, updated_at
    listing,  \* when the sender's open listing of the lane was created, or None
    pc, req,  \* requests: where they are, and what phase 1 has loaded
    sent,     \* messages sent so far
    last,     \* history: the last reply, and what the sender knew before it
    shown,    \* history: the slots the sender was last asked to confirm
    unshown,  \* history: the sender has given slots in a message that was
              \* not answered with such a question
    ended,    \* history: number of the last message answered with the end of
              \* a posting
    raced     \* history: two requests have overlapped

vars == <<now, user, session, listing, pc, req, sent, last, shown, unshown, ended, raced>>

Reply == {"none", "denied", "cancelled", "prompt", "missing", "route", "menu",
          "main", "info", "load", "truck", "truck again", "failed", "fallback"}

NoRequest == [n |-> 0, message |-> None, state |-> "IDLE", loaded |-> "IDLE",
              updated |-> 0, workflow |-> "IDLE", data |-> NoData, at |-> 0,
              solo |-> TRUE]
NoReply == [reply |-> "none", slots |-> {}, choice |-> "none", expired |-> FALSE]

Goto(h, p) == pc' = [pc EXCEPT ![h] = p]
Newer(a, b) == IF a > b THEN a ELSE b
\* older than SESSION_TTL (30 minutes), or than the duplicate window (45)
Expired(since) == now > since

-----------------------------------------------------------------------------
Init ==
    /\ now = 0
    /\ user = [state |-> "IDLE", updated |-> 0]
    /\ session = [workflow |-> "none", data |-> NoData, updated |-> 0]
    /\ listing \in {None, -1}   \* none, or one older than the window
    /\ pc = [h \in Request |-> "idle"]
    /\ req = [h \in Request |-> NoRequest]
    /\ sent = 0
    /\ last = NoReply
    /\ shown = {} /\ unshown = FALSE
    /\ ended = 0
    /\ raced = FALSE

Tick == /\ now < MaxClock /\ now' = now + 1
        /\ UNCHANGED <<user, session, listing, pc, req, sent, last, shown, unshown, ended, raced>>

\* Phase 1 up to the await: the workflow the message is read in.  An active
\* workflow whose session is empty, or older than the TTL, counts as IDLE.
Receive(h, m) ==
    LET stored == IF session.workflow # "none" THEN session.workflow ELSE user.state
        live == /\ stored \in Active /\ Collected(session.data)
                /\ ~Expired(session.updated)
        solo == \A x \in Request : pc[x] = "idle"
    IN  /\ pc[h] = "idle" /\ sent < MaxMessages
        /\ solo \/ sent < MaxOverlap                \* bound
        /\ sent' = sent + 1
        /\ Goto(h, "extract")
        /\ req' = [x \in Request |->
             IF x = h
             THEN [n |-> sent + 1, message |-> m, loaded |-> user.state,
                   state |-> IF live THEN user.state ELSE "IDLE",
                   updated |-> user.updated, data |-> session.data, at |-> now,
                   workflow |-> IF live THEN stored ELSE "IDLE",
                   solo |-> solo]
             ELSE [req[x] EXCEPT !.solo = @ /\ pc[x] = "idle"]]
        /\ raced' = (raced \/ ~solo)
        /\ UNCHANGED <<now, user, session, listing, last, shown, unshown, ended>>

-----------------------------------------------------------------------------
(* Phase 2.                                                                *)

Asked(intent) == IF intent = "CREATE_LOAD" THEN "load" ELSE "truck"

\* what the dispatcher answers, posting aside
Answer(intent, current, data) ==
    LET flow == Family(current)
        asked == Asked(intent)
    IN  CASE intent = "CANCEL" -> "cancelled"
          [] intent = "CONFIRM" -> IF Missing(flow, data) # {} THEN "missing" ELSE "post"
          [] intent \in {"CREATE_LOAD", "POST_TRUCK"} ->
               IF Missing(asked, data) = {} THEN "prompt"
               ELSE IF AskRoute(asked, data) THEN "route" ELSE "missing"
          [] intent \in Interrupt \cup {"MENU", "UNKNOWN"} ->
               IF current \in Active THEN "menu" ELSE "main"
          [] OTHER -> "info"

\* what a CONFIRM that has all its slots does.  The handlers swallow their
\* exceptions; an open listing older than the window still holds the unique
\* index, and the dispatcher then rolls the whole transaction back.
Outcome(flow) ==
    {"failed"} \cup
    IF flow = "load" THEN {"load"}
    ELSE IF listing # None /\ Expired(listing) THEN {"taken"} ELSE {"truck"}

\* The state phase 2 starts from: IDLE with something in the session is taken
\* for a lost workflow.
Current(r, data) ==
    IF r.state = "IDLE" /\ Collected(session.data)
    THEN Reconstructed(data, session.workflow) ELSE r.state

\* Mutant: the new state is compared with the state phase 1 put in memory.
SavedUserExpired(r, before, flushed, after) ==
    IF after # r.state THEN [state |-> after, updated |-> r.at] ELSE user

\* UPDATEs of the user: start flushes once before the new state is assigned
SavedUser(r, before, flushed, after) ==
    LET first == IF flushed /\ before # r.loaded THEN {before} ELSE {}
        known == IF first = {} THEN r.loaded ELSE before
    IN  IF after # known THEN [state |-> after, updated |-> r.at]
        ELSE IF first # {} THEN [state |-> before, updated |-> r.at] ELSE user

\* Mutants: a workflow that ends is recorded as IDLE; ends but leaves its
\* slots; and slots are stored only when their workflow begins.
SavedSessionIdle(r, base, after, keep, data) ==
    [workflow |-> after, data |-> IF after \in Active THEN Merge(base, data) ELSE NoData,
     updated |-> r.at]
SavedSessionLeft(r, base, after, keep, data) ==
    [workflow |-> IF after \in Active THEN after ELSE "none",
     data |-> Merge(base, data), updated |-> r.at]
SavedSessionFirst(r, base, after, keep, data) ==
    [workflow |-> IF after \in Active THEN after ELSE "none",
     data |-> IF after \notin Active THEN NoData
              ELSE IF session.workflow = after THEN base ELSE Merge(base, data),
     updated |-> r.at]

\* The session afterwards: kept while a workflow is active, kept without it
\* when the workflow has just expired, and cleared otherwise.
SavedSession(r, base, after, keep, data) ==
    LET next == IF after \in Active \/ keep
                THEN [workflow |-> IF after \in Active THEN after ELSE "none",
                      data |-> Merge(base, data)]
                ELSE [workflow |-> "none", data |-> NoData]
    IN  [workflow |-> next.workflow, data |-> next.data,
         updated |-> IF next = [workflow |-> session.workflow, data |-> session.data]
                     THEN session.updated ELSE r.at]

Slots(flow, data) == {<<flow, data.slot[f]>> : f \in UNION Needed(flow)} \ {<<flow, 0>>}

Record(h, reply, slots, data) ==
    LET over == reply \in {"cancelled", "load", "truck"}
    IN  /\ last' = [reply |-> reply, choice |-> req[h].message.choice,
                    slots |-> IF reply \in {"prompt", "load", "truck"} THEN slots ELSE {},
                    expired |-> Expired(session.updated)]
        /\ shown' = IF reply = "prompt" THEN slots ELSE IF over THEN {} ELSE shown
        /\ unshown' = (reply # "prompt" /\ (unshown \/ req[h].n \in Used(data)))
        /\ ended' = IF over THEN Newer(req[h].n, ended) ELSE ended
        /\ req' = [req EXCEPT ![h] = NoRequest]

Dispatch(h) ==
    LET r == req[h]
    IN  /\ pc[h] = "extract"
        /\ \E answered \in BOOLEAN :
           LET u == Understand(r.message, answered, r.n, r.workflow, r.data)
               intent == u.intent
               data == Merge(session.data, u.data)      \* _collect_payload_data
               current == Current(r, data)
               t == Transition(current, intent, Expired(Newer(r.updated, session.updated)))
               denied == ~t.allowed /\ intent \notin Interrupt
               answer == IF denied THEN "denied" ELSE Answer(intent, current, data)
               before == IF intent = "CANCEL" THEN "IDLE" ELSE current
               after == IF denied THEN current ELSE t.next
               kept == [u.data EXCEPT
                   !.menu = after \in Active /\ intent \in {"GREETING", "UNKNOWN", "MENU"},
                   !.prompted = IF answer = "route"
                                THEN Route(Asked(intent), data) ELSE @]
           IN  \E outcome \in IF answer = "post" THEN Outcome(Family(current)) ELSE {answer} :
               IF outcome = "taken"
               THEN /\ Goto(h, "rolledBack")
                    /\ req' = [req EXCEPT ![h].data = kept]
                    /\ UNCHANGED <<now, user, session, listing, sent, last, shown, unshown, ended, raced>>
               ELSE /\ Goto(h, "idle")
                    /\ user' = SavedUser(r, before, ~denied, after)
                    /\ session' = SavedSession(r, session.data, after,
                                      t.expired /\ intent \notin {"CANCEL", "CONFIRM"}, kept)
                    /\ listing' = IF outcome = "truck" /\ listing = None THEN r.at ELSE listing
                    /\ Record(h, outcome, Slots(IF answer = "prompt" THEN Asked(intent)
                                                ELSE Family(current), data), data)
                    /\ UNCHANGED <<now, sent, raced>>

\* After the dispatcher has rolled back it reads the user again, in the old
\* state; the session it clears is written again from the request's data.
FinishRolledBack(h) ==
    LET r == req[h]
    IN  /\ pc[h] = "rolledBack"
        /\ Goto(h, "idle")
        /\ session' = SavedSession([r EXCEPT !.at = now], NoData, user.state, FALSE, r.data)
        /\ Record(h, "truck again", Slots("truck", r.data), r.data)
        /\ UNCHANGED <<now, user, listing, sent, raced>>

\* An exception of phase 2 rolls everything back.
Fail(h) ==
    /\ pc[h] \in {"extract", "rolledBack"}
    /\ Goto(h, "idle")
    /\ Record(h, "fallback", {}, NoData)
    /\ UNCHANGED <<now, user, session, listing, sent, raced>>

Next ==
    \/ Tick
    \/ \E h \in Request :
         \/ \E m \in Messages : Receive(h, m)
         \/ Dispatch(h) \/ FinishRolledBack(h) \/ Fail(h)

Spec == Init /\ [][Next]_vars

-----------------------------------------------------------------------------
Data == [slot : [Field -> 0..MaxMessages], confidence : Confidence,
         prompted : (0..MaxMessages) \X (0..MaxMessages), menu : BOOLEAN,
         version : BOOLEAN, button : DOMAIN ButtonIntent \cup {"none"}]

TypeOK ==
    /\ now \in 0..MaxClock
    /\ user \in [state : State, updated : 0..MaxClock]
    /\ session.workflow \in Active \cup {"none"} /\ session.data \in Data
    /\ session.updated \in 0..MaxClock
    /\ listing \in (0..MaxClock) \cup {None, -1}
    /\ pc \in [Request -> {"idle", "extract", "rolledBack"}]
    /\ req \in [Request ->
         [n : 0..MaxMessages, message : Messages \cup {None}, state : State,
          loaded : State, updated : 0..MaxClock, workflow : State, data : Data,
          at : 0..MaxClock, solo : BOOLEAN]]
    /\ sent \in 0..MaxMessages /\ ended \in 0..MaxMessages
    /\ last.reply \in Reply /\ raced \in BOOLEAN /\ unshown \in BOOLEAN

-----------------------------------------------------------------------------
(* Properties.                                                             *)

Finishes(h) == pc[h] # "idle" /\ pc'[h] = "idle"
Posts(h) == Finishes(h) /\ last'.reply \in {"load", "truck"}

Agree == IF session.workflow \in Active
         THEN user.state = session.workflow /\ Collected(session.data)
         ELSE user.state = "IDLE"

\* Whatever requests before it left behind, overlapping or not, the next one
\* that runs alone and does not fail leaves users.state and the sender's
\* session in agreement: an active workflow is in both, with something in
\* the session, and no workflow is in neither.  Phase 1 and phase 2 take the
\* workflow from different rows (webhook, 286-335 and 556-572).
Agreement == [][\A h \in Request :
    Finishes(h) /\ req[h].solo /\ last'.reply # "fallback" => Agree']_vars

\* IDLE transitions "must clear the session buffer, otherwise cancel/confirm
\* paths repopulate stale payload data" (webhook, 686-688): as long as requests
\* do not overlap, nothing the sender wrote up to the end of one posting is in
\* a later one, expired workflows included.
\* Overlapping requests do merge cleared slots back (hazard of the session
\* store); an end the dispatcher rolled back is not counted.
CleanStart == [][\A h \in Request :
    Posts(h) /\ ~raced => \A s \in last'.slots : s[2] > ended]_vars

\* What is posted is what the sender was last asked to confirm, slot by slot,
\* as long as requests do not overlap, no workflow has had time to expire and
\* nothing said since was answered otherwise ("hi 6 tons" gets a menu and the
\* tons are kept): prompts and confirmations merge the message, phase 1's copy
\* of the session and the session in the same order.
AsShown == [][\A h \in Request :
    Posts(h) /\ ~raced /\ now = 0 /\ ~unshown' => last'.slots = shown]_vars

\* A bare 2 after the interrupt menu cancels, as its comment says
\* (intent_resolver, 93-97), whichever of the two menus a bare number would
\* have answered otherwise; the menu is remembered in the session only.  A
\* sure answer of the LLM to the number is taken first (84-91).
MenuChoice == [][\A h \in Request :
    /\ Finishes(h) /\ ~raced /\ last.reply = "menu" /\ last'.choice = "2"
    /\ req[h].message.llm = "UNKNOWN" /\ ~last.expired /\ ~last'.expired
    => last'.reply \in {"cancelled", "fallback"}]_vars
=============================================================================
