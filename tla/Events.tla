-------------------------------- MODULE Events --------------------------------
(***************************************************************************)
(* The event bus (core/event_bus.py), the operations that publish on it,   *)
(* and those who listen: the browser's live page (routers/v1/events.py)    *)
(* and the Discord bot (discord/bot.py).                                   *)
(*                                                                         *)
(* publish_event adds a row to ecosystem_events in its caller's session    *)
(* and announces it on Redis before the caller commits.  Redis delivers an *)
(* announcement to the subscribers of that moment, once, and keeps nothing.*)
(*                                                                         *)
(* The operations are those of routers/v1/agents.py, incentive_engine.py,  *)
(* feedback_loop.py, pattern_library.py and collaboration.py: what they    *)
(* write and announce, in order.  No router calls the last two yet: their  *)
(* caller is taken to commit once, as the routers do.                      *)
(*                                                                         *)
(* Texts, colours, screenshots and the bot's slash commands are left out,  *)
(* and so are the type channels' subscribers: there are none.              *)
(***************************************************************************)
EXTENDS Integers, Sequences, FiniteSets, SequencesExt, FiniteSetsExt

CONSTANTS
    Requests,           \* the sessions under way at a time
    Operations,         \* <<operation, severity>> that are called
    Names,              \* names of agents
    Pages,              \* browser pages that show the live events
    PageLimit,          \* how many events a page keeps: 100 in the code
    MaxRows,            \* bound: the rows of ecosystem_events
    MaxSent,            \* bound: announcements
    MaxReady,           \* bound: how often the bot's connection becomes ready
    MaxFaults           \* bound: subscriptions lost and bots restarted

ASSUME EventsAssumption ==
    /\ PageLimit \in Nat \ {0}
    /\ MaxRows \in Nat /\ MaxSent \in Nat /\ MaxReady \in Nat /\ MaxFaults \in Nat

VARIABLES
    row,                \* ecosystem_events by id, a serial number
    agents,             \* names in the agents table: [name, by], by is not committed yet
    request,
    sent,               \* history: the announcements on nile:events
    page,
    listener,           \* the bot's listener tasks, in the order they were started
    faults

vars == <<row, agents, request, sent, page, listener, faults>>
audience == <<page, listener>>

\* What each operation writes and announces.  A name in Announced is a publish_event.
Announced == {"agent.joined", "contribution.detection", "contribution.rejected",
              "contribution.false_positive", "knowledge.pattern_added",
              "task.created.patch", "agent.message"}

Steps ==
    [register |-> <<"agent", "agent.joined">>,
     award    |-> <<"contribution.detection">>,
     reject   |-> <<"contribution.rejected", "contribution.false_positive">>,
     pattern  |-> <<"pattern", "knowledge.pattern_added">>,
     followup |-> <<"job", "task.created.patch", "message">>,
     message  |-> <<"message", "agent.message">>]

\* No name, no severity.
None == "none"
Severities == {"critical", "high", "medium", "low", None}

ASSUME CallsAssumption ==
    Operations \subseteq (DOMAIN Steps) \X Severities /\ None \notin Names

MANAGED_CHANNELS == {"nile-feed", "nile-alerts"}

\* of: the agent that joined.  published: by publish_event.
Row == [type: Announced, severity: Severities, of: Names \cup {None}, published: BOOLEAN,
        state: {"open", "committed", "undone"}]
Message == [type: Announced \cup {"soul.risk_alert"}, severity: Severities, row: 0 .. MaxRows]

\* phase: idle; step (the next step is to be taken); flushed (the event's row is);
\* announced (on nile:events, not on the type's channel yet).
Request == [phase: {"idle", "step", "flushed", "announced"}, op: DOMAIN Steps,
            severity: Severities, name: Names \cup {None}, at: 1 .. 4, rows: SUBSET (1 .. MaxRows)]

Called(op, severity, name) ==
    [phase |-> "step", op |-> op, severity |-> severity, name |-> name, at |-> 1, rows |-> {}]
Idle == [Called("message", None, None) EXCEPT !.phase = "idle"]
StepOf(q) ==
    IF request[q].at <= Len(Steps[request[q].op])
    THEN Steps[request[q].op][request[q].at] ELSE "commit"
MyRow(q) == Max(request[q].rows)

\* Subscribers hold what Redis has delivered to them and they have not handled.  The list a
\* page shows is "events", announcements it was told of, above "past", rows of the history
\* it fetched.  History variables: it was not connected for the announcements up to
\* "since", had shown those up to "from" when the history came, and that was read when the
\* rows "known" were committed.
Page == [open: BOOLEAN, since: Nat, inbox: Seq(1 .. MaxSent), events: Seq(1 .. MaxSent),
         history: {"asked", "read", "shown"}, answer: Seq(1 .. MaxRows), past: Seq(1 .. MaxRows),
         known: SUBSET (1 .. MaxRows), from: Nat]
NewPage == [open |-> FALSE, since |-> 0, inbox |-> <<>>, events |-> <<>>, history |-> "asked",
            answer |-> <<>>, past |-> <<>>, known |-> {}, from |-> 0]
\* posted: history, what a listener has posted and where.
Listener == [phase: {"live", "lost"}, inbox: Seq(1 .. MaxSent),
             posted: Seq((1 .. MaxSent) \X MANAGED_CHANNELS)]

\* Plausible slips in the operators below, for the mutation runs.
EndedCommitted(q, state) ==
    [i \in DOMAIN row |->
        IF i \in request[q].rows THEN [row[i] EXCEPT !.state = "committed"] ELSE row[i]]
NextToHandleAny(inbox) == DOMAIN inbox
NameFreeUnindexed(q) == TRUE
ShownUncut(events, m) == <<m>> \o events

-----------------------------------------------------------------------------
Init ==
    /\ row = <<>> /\ agents = {} /\ sent = <<>> /\ faults = 0
    /\ request = [q \in Requests |-> Idle]
    /\ page = [p \in Pages |-> NewPage]
    /\ listener = <<>>

\* What an announcement reaches: the pages that are open and the bot's live listeners.
Delivered(m) ==
    /\ sent' = Append(sent, m)
    /\ page' = [p \in Pages |->
         IF page[p].open THEN [page[p] EXCEPT !.inbox = Append(@, Len(sent) + 1)] ELSE page[p]]
    /\ listener' = [l \in DOMAIN listener |->
         IF listener[l].phase = "live"
         THEN [listener[l] EXCEPT !.inbox = Append(@, Len(sent) + 1)] ELSE listener[l]]

-----------------------------------------------------------------------------
\* A call; register_agent answers 409 to a name it finds among the committed ones.
Begin(q, op, severity, name) ==
    /\ request[q].phase = "idle"
    /\ op = "register" <=> name # None
    /\ ~ \E a \in agents : a.name = name /\ a.by = {}
    /\ request' = [request EXCEPT ![q] = Called(op, severity, name)]
    /\ UNCHANGED <<row, agents, sent, page, listener, faults>>

\* The unique index on the name: an insert waits for the transaction that inserted the
\* same name, and fails if that one committed.
NameFree(q) == \A a \in agents : a.name # request[q].name

\* A step that only writes: the operation's own row.  A pattern's is a row of
\* ecosystem_events, which nobody announces.
WriteRow(q) ==
    /\ request[q].phase = "step"
    /\ StepOf(q) \in {"agent", "pattern", "job", "message"}
    /\ IF StepOf(q) = "pattern"
       THEN /\ Len(row) < MaxRows
            /\ row' = Append(row, [type |-> "knowledge.pattern_added",
                                   severity |-> request[q].severity, of |-> None,
                                   published |-> FALSE, state |-> "open"])
            /\ request' = [request EXCEPT ![q].at = @ + 1, ![q].rows = @ \cup {Len(row) + 1}]
       ELSE /\ row' = row
            /\ request' = [request EXCEPT ![q].at = @ + 1]
    /\ IF StepOf(q) = "agent"
       THEN NameFree(q) /\ agents' = agents \cup {[name |-> request[q].name, by |-> {q}]}
       ELSE agents' = agents
    /\ UNCHANGED <<sent, page, listener, faults>>

\* publish_event adds the event's row and flushes it.
FlushEvent(q) ==
    /\ request[q].phase = "step"
    /\ StepOf(q) \in Announced
    /\ Len(row) < MaxRows
    /\ row' = Append(row, [type |-> StepOf(q), severity |-> request[q].severity,
                           of |-> request[q].name, published |-> TRUE, state |-> "open"])
    /\ request' = [request EXCEPT ![q].phase = "flushed", ![q].rows = @ \cup {Len(row) + 1}]
    /\ UNCHANGED <<agents, sent, page, listener, faults>>

\* ... announces it to everyone ...
Announce(q) ==
    /\ request[q].phase = "flushed"
    /\ Len(sent) < MaxSent
    /\ Delivered([type |-> StepOf(q), severity |-> request[q].severity, row |-> MyRow(q)])
    /\ request' = [request EXCEPT ![q].phase = "announced"]
    /\ UNCHANGED <<row, agents, faults>>

\* ... and on the channel of its type.
AnnounceType(q) ==
    /\ request[q].phase = "announced"
    /\ request' = [request EXCEPT ![q].phase = "step", ![q].at = @ + 1]
    /\ UNCHANGED <<row, agents, sent, page, listener, faults>>

\* A request that ends: its rows with it.
Ended(q, state) ==
    [i \in DOMAIN row |-> IF i \in request[q].rows THEN [row[i] EXCEPT !.state = state] ELSE row[i]]

\* Redis does not answer to either publish, or the unique index refuses the insert: the
\* exception leaves the handler and the session is closed without a commit.
Fail(q) ==
    /\ \/ request[q].phase \in {"flushed", "announced"}
       \/ /\ request[q].phase = "step" /\ request[q].at = 1 /\ request[q].op = "register"
          /\ \E a \in agents : a.name = request[q].name /\ a.by = {}
    /\ row' = Ended(q, "undone")
    /\ agents' = {a \in agents : a.by # {q}}
    /\ request' = [request EXCEPT ![q] = Idle]
    /\ UNCHANGED <<sent, page, listener, faults>>

Commit(q) ==
    /\ request[q].phase = "step"
    /\ StepOf(q) = "commit"
    /\ row' = Ended(q, "committed")
    /\ agents' = {IF a.by = {q} THEN [a EXCEPT !.by = {}] ELSE a : a \in agents}
    /\ request' = [request EXCEPT ![q] = Idle]
    /\ UNCHANGED <<sent, page, listener, faults>>

\* soul_collaboration.risk_to_circuit_breaker: no row and no id; if Redis fails, nothing.
RiskAlert ==
    /\ Len(sent) < MaxSent
    /\ Delivered([type |-> "soul.risk_alert", severity |-> "critical", row |-> 0])
    /\ UNCHANGED <<row, agents, request, faults>>

-----------------------------------------------------------------------------
\* A page asks for the history as it opens, and once.  Beside that it subscribes, and anew
\* after its connection was lost: what it shows stays.
Connect(p) ==
    /\ ~page[p].open
    /\ page' = [page EXCEPT ![p].open = TRUE, ![p].since = Len(sent)]
    /\ UNCHANGED <<row, agents, request, sent, listener, faults>>

Disconnect(p) ==
    /\ page[p].open /\ faults < MaxFaults
    /\ page' = [page EXCEPT ![p].open = FALSE, ![p].inbox = <<>>]
    /\ faults' = faults + 1
    /\ UNCHANGED <<row, agents, request, sent, listener>>

\* event_history reads the newest hundred of the committed rows.  The newest are those of the
\* transactions that began last, which is not modelled: any hundred may be.
Saved == {i \in DOMAIN row : row[i].state = "committed"}
Answers == {s \in UNION {[1 .. n -> Saved] : n \in 0 .. PageLimit} :
              /\ \A i, j \in DOMAIN s : s[i] = s[j] => i = j
              /\ Len(s) = PageLimit \/ Range(s) = Saved}

ReadHistory(p) ==
    /\ page[p].history = "asked"
    /\ \E answer \in Answers :
          page' = [page EXCEPT ![p].history = "read", ![p].answer = answer, ![p].known = Saved]
    /\ UNCHANGED <<row, agents, request, sent, listener, faults>>

\* .then(setEvents): the answer takes the place of all that the page showed.
UpTo(p) == IF page[p].inbox = <<>> THEN Len(sent) ELSE Head(page[p].inbox) - 1

ShowHistory(p) ==
    /\ page[p].history = "read"
    /\ page' = [page EXCEPT ![p].history = "shown", ![p].past = page[p].answer,
                            ![p].answer = <<>>, ![p].events = <<>>, ![p].from = UpTo(p)]
    /\ UNCHANGED <<row, agents, request, sent, listener, faults>>

\* [event, ...prev].slice(0, 100)
Cut(s, limit) == SubSeq(s, 1, IF Len(s) < limit THEN Len(s) ELSE limit)
Shown(events, m) == Cut(<<m>> \o events, PageLimit)
Below(past, events) == Cut(past, PageLimit - Len(events))

Show(p) ==
    /\ page[p].inbox # <<>>
    /\ LET events == Shown(page[p].events, Head(page[p].inbox))
       IN  page' = [page EXCEPT ![p].inbox = Tail(@), ![p].events = events,
                                ![p].past = Below(@, events)]
    /\ UNCHANGED <<row, agents, request, sent, listener, faults>>

-----------------------------------------------------------------------------
\* on_ready, on the first connection and on each one after, starts one more listener task
\* beside those that run; the task subscribes.
OnReady ==
    /\ Len(listener) < MaxReady
    /\ listener' = Append(listener, [phase |-> "live", inbox |-> <<>>, posted |-> <<>>])
    /\ UNCHANGED <<row, agents, request, sent, page, faults>>

\* The subscription's connection breaks: the task ends and nothing starts it again.
LoseSubscription(l) ==
    /\ l \in DOMAIN listener /\ listener[l].phase = "live" /\ faults < MaxFaults
    /\ listener' = [listener EXCEPT ![l].phase = "lost", ![l].inbox = <<>>]
    /\ faults' = faults + 1
    /\ UNCHANGED <<row, agents, request, sent, page>>

\* The bot's process ends, and its tasks with it.
RestartBot ==
    /\ listener # <<>> /\ faults < MaxFaults
    /\ listener' = [l \in DOMAIN listener |-> [listener[l] EXCEPT !.phase = "lost", !.inbox = <<>>]]
    /\ faults' = faults + 1
    /\ UNCHANGED <<row, agents, request, sent, page>>

\* _route_event and _post_risk_alert: the channel of an announcement.
Channel(m) ==
    IF m.type = "soul.risk_alert" \/ m.severity = "critical" THEN "nile-alerts" ELSE "nile-feed"

\* _listen_events waits for each announcement to be posted before it takes the next: the
\* first of its inbox.
NextToHandle(inbox) == {i \in DOMAIN inbox : i = 1}

\* An announcement is posted, or dropped: the bot could neither find nor create its
\* channel (_ensure_channels), or sending it failed.
Handle(l) ==
    /\ l \in DOMAIN listener
    /\ \E i \in NextToHandle(listener[l].inbox) :
        LET k == listener[l].inbox[i]
        IN  \/ listener' = [listener EXCEPT ![l].inbox = RemoveAt(@, i)]
            \/ listener' = [listener EXCEPT ![l].inbox = RemoveAt(@, i),
                            ![l].posted = Append(@, <<k, Channel(sent[k])>>)]
    /\ UNCHANGED <<row, agents, request, sent, page, faults>>

-----------------------------------------------------------------------------
Next ==
    \/ \E q \in Requests, o \in Operations, n \in Names \cup {None} : Begin(q, o[1], o[2], n)
    \/ \E q \in Requests :
        WriteRow(q) \/ FlushEvent(q) \/ Announce(q) \/ AnnounceType(q) \/ Fail(q) \/ Commit(q)
    \/ RiskAlert
    \/ \E p \in Pages : 
        Connect(p) \/ Disconnect(p) \/ ReadHistory(p) \/ ShowHistory(p) \/ Show(p)
    \/ OnReady \/ RestartBot
    \/ \E l \in 1 .. MaxReady : LoseSubscription(l) \/ Handle(l)

Spec == Init /\ [][Next]_vars

-----------------------------------------------------------------------------
\* The tables, what waits at the subscribers and what they posted have their types, and
\* a page never shows more than its hundred events.
TypeOK ==
    /\ row \in Seq(Row) /\ Len(row) <= MaxRows
    /\ agents \subseteq [name: Names, by: SUBSET Requests]
    /\ request \in [Requests -> Request]
    /\ sent \in Seq(Message) /\ Len(sent) <= MaxSent
    /\ page \in [Pages -> Page]
    /\ \A p \in Pages : /\ Len(page[p].events) + Len(page[p].past) <= PageLimit
                       /\ Len(page[p].answer) <= PageLimit
    /\ listener \in Seq(Listener) /\ Len(listener) <= MaxReady

Full(p) == Len(page[p].events) + Len(page[p].past) = PageLimit
\* What the page has of an announcement: it waits, is shown, or newer ones pushed it off.
Has(p, k) ==
    \/ k \in Range(page[p].inbox) \cup Range(page[p].events)
    \/ Len(page[p].events) = PageLimit /\ \A j \in Range(page[p].events) : j > k

\* Whatever was committed when a page's history was read is on the page, unless a hundred
\* others are; and a page that has stayed connected since its history came has been told of
\* every event that was announced since and is committed now.
LiveSeesHistory ==
    \A p \in Pages :
        /\ page[p].history = "shown" =>
              \A i \in page[p].known : i \in Range(page[p].past) \/ Full(p)
        /\ page[p].open =>
              \A i \in Saved : row[i].published =>
                \E k \in DOMAIN sent :
                    /\ sent[k].row = i
                    /\ k <= page[p].since \/ k <= page[p].from \/ Has(p, k)

\* However often the bot reconnects, each of its listeners posts an event once at most
\* and in the order of the announcements, whichever channels they go to.
PostsFollowTheBus ==
    \A l \in DOMAIN listener :
        LET posted == listener[l].posted
        IN  \A i, j \in DOMAIN posted : i < j => posted[i][1] < posted[j][1]

\* The registered agents are those that the stored history says have joined, and it says
\* so once of each, also when two requests register one name and Redis fails one of them.
OneJoinPerName ==
    LET Joined(n) == {i \in DOMAIN row : row[i].type = "agent.joined" /\ row[i].of = n
                                            /\ row[i].state = "committed"}
    IN  \A n \in Names :
            Cardinality(Joined(n)) = Cardinality({a \in agents : a.name = n /\ a.by = {}})
                /\ Cardinality(Joined(n)) <= 1
=============================================================================
