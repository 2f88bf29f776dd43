---------------------------- MODULE Events_proofs ----------------------------
(***************************************************************************)
(* Proofs about the event bus and those who listen.                        *)
(***************************************************************************)
EXTENDS Events, FiniteSetTheorems, SequenceTheorems, TLAPS

Writes == {"agent", "pattern", "job", "message"}

\* What is known of a request under way.
Underway ==
    \A q \in Requests :
        /\ request[q].rows \subseteq DOMAIN row
        /\ request[q].phase # "idle" => (request[q].op = "register" <=> request[q].name # None)
        /\ request[q].phase \in {"flushed", "announced"} =>
              StepOf(q) \in Announced /\ MyRow(q) \in request[q].rows

TInv == TypeOK /\ Underway

\* Announcements reach a listener in the order in which they were made: what waits in
\* its inbox is newer than what it has posted.
Rising(s) == \A i, j \in DOMAIN s : i < j => s[i] < s[j]
Follows(listening) ==
    /\ Rising(listening.inbox) /\ \A i \in DOMAIN listening.inbox : listening.inbox[i] \in DOMAIN sent
    /\ \A i \in DOMAIN listening.posted :
          /\ listening.posted[i][1] \in DOMAIN sent
          /\ \A j \in DOMAIN listening.inbox : listening.posted[i][1] < listening.inbox[j]
          /\ \A j \in DOMAIN listening.posted : i < j => listening.posted[i][1] < listening.posted[j][1]
\* A request's rows are its own until it ends, and every event stored is announced but
\* for the one whose request is about to.
OwnRows ==
    \A q \in Requests :
        /\ \A i \in request[q].rows : row[i].state = "open"
        /\ \A p \in Requests \ {q} : request[q].rows \cap request[p].rows = {}
Unannounced(i) == \E q \in Requests : request[q].phase = "flushed" /\ MyRow(q) = i
Announcement(i) == \E k \in DOMAIN sent : sent[k].row = i
RowsTold ==
    \A i \in DOMAIN row :
        row[i].published /\ row[i].state # "undone" => Unannounced(i) \/ Announcement(i)

\* A page shows the newest first, and what waits for it is newer still.  While it is open,
\* every announcement since it connected waits, is shown, or was pushed off by newer ones.
Falling(s) == \A i, j \in DOMAIN s : i < j => s[i] > s[j]
InOrder(reader) ==
    /\ Rising(reader.inbox) /\ \A i \in DOMAIN reader.inbox : reader.inbox[i] \in DOMAIN sent
    /\ Falling(reader.events) /\ \A i \in DOMAIN reader.events : reader.events[i] \in DOMAIN sent
    /\ \A i \in DOMAIN reader.events, j \in DOMAIN reader.inbox : reader.events[i] < reader.inbox[j]
Told(reader, k) ==
    \/ k <= reader.since \/ k <= reader.from
    \/ \E j \in DOMAIN reader.inbox : reader.inbox[j] = k
    \/ \E j \in DOMAIN reader.events : reader.events[j] = k
    \/ Len(reader.events) = PageLimit /\ \A j \in DOMAIN reader.events : reader.events[j] > k
PagesTold ==
    \A p \in Pages :
        /\ InOrder(page[p])
        /\ page[p].history # "shown" => page[p].from = 0
        /\ page[p].open => \A k \in DOMAIN sent : Told(page[p], k)

\* The history is all there was or a full list, on its way as on the page.
Listed(rows, i) == \E j \in DOMAIN rows : rows[j] = i
Kept(reader) ==
    /\ reader.history = "read" =>
          \A i \in reader.known : Listed(reader.answer, i) \/ Len(reader.answer) = PageLimit
    /\ reader.history = "shown" =>
          \A i \in reader.known :
             Listed(reader.past, i) \/ Len(reader.events) + Len(reader.past) = PageLimit
HistoryKept == \A p \in Pages : Kept(page[p])

\* What a page holds of the history, and within what bounds.
SameHistory(a, b) ==
    /\ a.history = b.history /\ a.answer = b.answer /\ a.past = b.past
    /\ a.known = b.known /\ a.from = b.from
Bounded(reader) ==
    Len(reader.events) + Len(reader.past) <= PageLimit /\ Len(reader.answer) <= PageLimit

ListenersFollow == \A l \in DOMAIN listener : Follows(listener[l])

-----------------------------------------------------------------------------
(***************************************************************************)
(* Operators.                                                              *)
(***************************************************************************)
LEMMA Bounds ==
    /\ PageLimit \in Nat /\ PageLimit >= 1 /\ None \notin Names
    /\ MaxRows \in Nat /\ MaxSent \in Nat /\ MaxReady \in Nat /\ MaxFaults \in Nat
<1>1. PageLimit \in Nat /\ PageLimit # 0
  BY EventsAssumption
<1> QED
  BY <1>1, EventsAssumption, CallsAssumption

LEMMA OperationSteps ==
    ASSUME NEW op \in DOMAIN Steps
    PROVE  /\ Len(Steps[op]) \in 1 .. 3
           /\ \A k \in 1 .. Len(Steps[op]) : Steps[op][k] \in Announced \cup Writes
           /\ \A k \in 1 .. Len(Steps[op]) :
                 (Steps[op][k] \in {"agent", "agent.joined"}) => op = "register"
<1>1. op \in {"register", "award", "reject", "pattern", "followup", "message"}
  BY DEF Steps
<1>2. CASE op = "register"
  <2>1. Steps[op] = <<"agent", "agent.joined">>
    BY <1>2 DEF Steps
  <2> QED
    BY <1>2, <2>1 DEF Announced, Writes
<1>3. CASE op = "award"
  <2>1. Steps[op] = <<"contribution.detection">>
    BY <1>3 DEF Steps
  <2> QED
    BY <1>3, <2>1 DEF Announced, Writes
<1>4. CASE op = "reject"
  <2>1. Steps[op] = <<"contribution.rejected", "contribution.false_positive">>
    BY <1>4 DEF Steps
  <2> QED
    BY <1>4, <2>1 DEF Announced, Writes
<1>5. CASE op = "pattern"
  <2>1. Steps[op] = <<"pattern", "knowledge.pattern_added">>
    BY <1>5 DEF Steps
  <2> QED
    BY <1>5, <2>1 DEF Announced, Writes
<1>6. CASE op = "followup"
  <2>1. Steps[op] = <<"job", "task.created.patch", "message">>
    BY <1>6 DEF Steps
  <2> QED
    BY <1>6, <2>1 DEF Announced, Writes
<1>7. CASE op = "message"
  <2>1. Steps[op] = <<"message", "agent.message">>
    BY <1>7 DEF Steps
  <2> QED
    BY <1>7, <2>1 DEF Announced, Writes
<1> QED
  BY <1>1, <1>2, <1>3, <1>4, <1>5, <1>6, <1>7

\* Registration: the agent's row, then the event.
LEMMA Registration ==
    /\ "register" \in DOMAIN Steps /\ Len(Steps["register"]) = 2
    /\ Steps["register"][1] = "agent" /\ Steps["register"][2] = "agent.joined"
<1>1. Steps["register"] = <<"agent", "agent.joined">> /\ "register" \in DOMAIN Steps
  BY DEF Steps
<1> QED
  BY <1>1

LEMMA FirstRemoved ==
    ASSUME NEW T, NEW s \in Seq(T), 1 \in DOMAIN s
    PROVE  /\ RemoveAt(s, 1) \in Seq(T) /\ Len(RemoveAt(s, 1)) = Len(s) - 1
           /\ \A i \in 1 .. Len(s) - 1 : RemoveAt(s, 1)[i] = s[i + 1]
<1>1. RemoveAt(s, 1) = SubSeq(s, 1, 0) \o SubSeq(s, 2, Len(s))
  BY DEF RemoveAt
<1>2. Len(s) \in Nat /\ Len(s) >= 1
  OBVIOUS
<1>3. SubSeq(s, 1, 0) = <<>>
  OBVIOUS
<1>4. /\ SubSeq(s, 2, Len(s)) \in Seq(T) /\ Len(SubSeq(s, 2, Len(s))) = Len(s) - 1
      /\ \A i \in 1 .. Len(s) - 1 : SubSeq(s, 2, Len(s))[i] = s[i + 1]
  <2> PICK k : k = Len(s)
    OBVIOUS
  <2>1. k \in Int /\ \A i \in 2 .. k : s[i] \in T
    OBVIOUS
  <2>2. /\ SubSeq(s, 2, k) \in Seq(T)
        /\ Len(SubSeq(s, 2, k)) = (IF 2 <= k THEN k - 2 + 1 ELSE 0)
        /\ \A i \in 1 .. k - 2 + 1 : SubSeq(s, 2, k)[i] = s[2 + i - 1]
    BY <2>1, SubSeqProperties
  <2> QED
    BY <1>2, <2>2
<1>5. <<>> \o SubSeq(s, 2, Len(s)) = SubSeq(s, 2, Len(s))
  BY <1>4
<1> QED
  BY <1>1, <1>3, <1>4, <1>5

IsCut(s, limit, r) ==
    /\ Len(r) = (IF Len(s) < limit THEN Len(s) ELSE limit)
    /\ \A i \in 1 .. Len(r) : r[i] = s[i]

LEMMA CutIs ==
    ASSUME NEW T, NEW s \in Seq(T), NEW limit \in Nat, NEW r, r = Cut(s, limit)
    PROVE  r \in Seq(T) /\ IsCut(s, limit, r)
<1> PICK z : z = (IF Len(s) < limit THEN Len(s) ELSE limit)
  OBVIOUS
<1>1. Len(s) \in Nat /\ z \in 0 .. Len(s)
  OBVIOUS
<1>2. r = SubSeq(s, 1, z)
  BY DEF Cut
<1>3. r \in Seq(T) /\ Len(r) = z /\ \A i \in 1 .. z : r[i] = s[i]
  BY <1>1, <1>2
<1> QED
  BY <1>3 DEF IsCut

\* The new one first, then the others, cut to the limit.
IsShown(events, m, r) ==
    /\ r[1] = m /\ \A i \in 2 .. Len(r) : r[i] = events[i - 1]
    /\ Len(r) = (IF Len(events) < PageLimit THEN Len(events) + 1 ELSE PageLimit)

LEMMA ShownEvents ==
    ASSUME NEW T, NEW events \in Seq(T), NEW m \in T, Len(events) <= PageLimit,
           NEW r, r = Shown(events, m)
    PROVE  r \in Seq(T) /\ Len(r) <= PageLimit /\ IsShown(events, m, r)
<1> PICK s : s = <<m>> \o events
  OBVIOUS
<1>1. /\ s \in Seq(T) /\ Len(s) = Len(events) + 1 /\ s[1] = m
      /\ \A i \in 2 .. Len(s) : s[i] = events[i - 1]
  OBVIOUS
<1>2. Len(events) \in Nat /\ PageLimit \in Nat /\ PageLimit >= 1
  BY Bounds
<1>3. r = Cut(s, PageLimit)
  BY DEF Shown
<1>4. /\ r \in Seq(T) /\ Len(r) = (IF Len(s) < PageLimit THEN Len(s) ELSE PageLimit)
      /\ \A i \in 1 .. Len(r) : r[i] = s[i]
  <2>1. s \in Seq(T) /\ PageLimit \in Nat
    BY <1>1, <1>2
  <2>2. r \in Seq(T) /\ IsCut(s, PageLimit, r)
    BY <1>3, <2>1, CutIs
  <2> QED
    BY <2>2 DEF IsCut
<1>5. Len(r) = (IF Len(events) < PageLimit THEN Len(events) + 1 ELSE PageLimit)
  BY <1>1, <1>2, <1>4
<1>6. 1 \in 1 .. Len(r) /\ \A i \in 2 .. Len(r) : i \in 1 .. Len(r) /\ i \in 2 .. Len(s)
  BY <1>1, <1>2, <1>4, <1>5
<1> QED
  BY <1>1, <1>2, <1>4, <1>5, <1>6 DEF IsShown

LEMMA Greatest ==
    ASSUME NEW S \in SUBSET Nat, NEW n \in Nat, \A i \in S : i < n
    PROVE  Max(S \cup {n}) = n
<1>1. \A m \in S \cup {n} : (\A y \in S \cup {n} : m >= y) => m = n
  OBVIOUS
<1>2. n \in S \cup {n} /\ \A y \in S \cup {n} : n >= y
  OBVIOUS
<1> QED
  BY <1>1, <1>2 DEF Max

\* A sequence rewritten element by element.
LEMMA Rewritten ==
    ASSUME NEW T, NEW s \in Seq(T), NEW r, NEW f \in [DOMAIN s -> T], r = f
    PROVE  r \in Seq(T) /\ Len(r) = Len(s) /\ DOMAIN r = DOMAIN s
<1>1. Len(s) \in Nat /\ DOMAIN s = 1 .. Len(s)
  OBVIOUS
<1>2. f \in [1 .. Len(s) -> T]
  BY <1>1
<1>3. f \in Seq(T)
  BY <1>1, <1>2, SeqDef
<1> QED
  BY <1>1, <1>2, <1>3

-----------------------------------------------------------------------------
(***************************************************************************)
(* Types.                                                                  *)
(***************************************************************************)
LEMMA InitTypes == Init => TInv
<1> SUFFICES ASSUME Init PROVE TInv
  OBVIOUS
<1>1. \A q \in Requests : request[q] = Idle
  BY DEF Init
<1>2. Idle \in Request /\ Idle.phase = "idle"
  <2>1. "message" \in DOMAIN Steps
    BY DEF Steps
  <2> QED
    BY <2>1 DEF Idle, Called, Request, None, Severities
<1>3. request \in [Requests -> Request]
  BY <1>2 DEF Init
<1>4. page \in [Pages -> Page] /\ \A p \in Pages : Bounded(page[p])
  <2>1. <<>> \in Seq(1 .. MaxSent) /\ <<>> \in Seq(1 .. MaxRows) /\ Len(<<>>) = 0
    OBVIOUS
  <2>2. NewPage \in Page
    BY <2>1 DEF Page, NewPage
  <2>3. Bounded(NewPage)
    BY <2>1, Bounds DEF Bounded, NewPage
  <2>4. page = [p \in Pages |-> NewPage]
    BY DEF Init
  <2> QED
    BY <2>2, <2>3, <2>4
<1>5. TypeOK
  <2>1. <<>> \in Seq(Row) /\ <<>> \in Seq(Message) /\ <<>> \in Seq(Listener) /\ Len(<<>>) = 0
    OBVIOUS
  <2>2. \A p \in Pages : /\ Len(page[p].events) + Len(page[p].past) <= PageLimit
                         /\ Len(page[p].answer) <= PageLimit
    BY <1>4, Zenon DEF Bounded
  <2>3. /\ row = <<>> /\ agents = {} /\ sent = <<>> /\ listener = <<>>
    BY DEF Init
  <2>4. 0 <= MaxRows /\ 0 <= MaxSent /\ 0 <= MaxReady
    BY Bounds
  <2> QED
    BY <1>3, <1>4, <2>1, <2>2, <2>3, <2>4 DEF TypeOK
<1>6. Underway
  BY <1>1, <1>2 DEF Underway, Idle, Called
<1> QED
  BY <1>5, <1>6 DEF TInv

\* A step of one request leaves the others as they are.
LEMMA OneRequest ==
    ASSUME TInv, NEW q \in Requests, NEW r \in Request, request' = [request EXCEPT ![q] = r],
           DOMAIN row \subseteq DOMAIN row', r.rows \subseteq DOMAIN row',
           r.phase # "idle" => (r.op = "register" <=> r.name # None),
           r.phase \in {"flushed", "announced"} =>
              StepOf(q)' \in Announced /\ MyRow(q)' \in r.rows
    PROVE  /\ request' \in [Requests -> Request]
           /\ request'[q] = r
           /\ \A p \in Requests \ {q} : /\ request'[p] = request[p]
                                        /\ StepOf(p)' = StepOf(p) /\ MyRow(p)' = MyRow(p)
           /\ Underway'
<1>1. /\ request' \in [Requests -> Request] /\ request'[q] = r
      /\ \A p \in Requests \ {q} : request'[p] = request[p]
  BY DEF TInv, TypeOK
<1>2. ASSUME NEW p \in Requests \ {q} PROVE StepOf(p)' = StepOf(p) /\ MyRow(p)' = MyRow(p)
  BY <1>1 DEF StepOf, MyRow
<1>3. Underway'
  BY <1>1, <1>2 DEF Underway, TInv
<1> QED
  BY <1>1, <1>2, <1>3

\* What an announcement does to those who listen.
LEMMA Delivery ==
    ASSUME TypeOK, NEW m \in Message, Len(sent) < MaxSent, Delivered(m),
           NEW n, n = Len(sent) + 1
    PROVE  /\ sent' \in Seq(Message) /\ Len(sent') = n /\ n \in 1 .. MaxSent /\ n \in Nat
           /\ sent'[n] = m /\ \A k \in DOMAIN sent : k < n /\ sent'[k] = sent[k]
           /\ DOMAIN sent' = DOMAIN sent \cup {n}
           /\ page' \in [Pages -> Page]
           /\ \A p \in Pages :
                 /\ page'[p].open = page[p].open /\ page'[p].since = page[p].since
                 /\ page'[p].events = page[p].events /\ SameHistory(page'[p], page[p])
                 /\ page'[p].inbox = IF page[p].open THEN Append(page[p].inbox, n)
                                    ELSE page[p].inbox
           /\ listener' \in Seq(Listener) /\ Len(listener') = Len(listener)
           /\ DOMAIN listener' = DOMAIN listener
           /\ \A l \in DOMAIN listener :
                 /\ listener'[l].posted = listener[l].posted
                 /\ \/ listener'[l].inbox = listener[l].inbox
                    \/ listener'[l].inbox = Append(listener[l].inbox, n)
<1>1. n \in 1 .. MaxSent /\ n \in Nat
  <2>1. Len(sent) \in Nat
    BY DEF TypeOK
  <2> QED
    BY <2>1, Bounds
<1>2. sent' = Append(sent, m) /\ sent \in Seq(Message)
  BY DEF Delivered, TypeOK
<1>3. /\ sent' \in Seq(Message) /\ Len(sent') = n
      /\ sent'[n] = m /\ \A k \in DOMAIN sent : k < n /\ sent'[k] = sent[k]
      /\ DOMAIN sent' = DOMAIN sent \cup {n}
  BY <1>2
<1> DEFINE told(p) == IF page[p].open
                      THEN [page[p] EXCEPT !.inbox = Append(page[p].inbox, n)] ELSE page[p]
<1>4. ASSUME NEW p \in Pages PROVE told(p) \in Page
  <2>1. page[p] \in Page
    BY DEF TypeOK
  <2>2. Append(page[p].inbox, n) \in Seq(1 .. MaxSent)
    BY <1>1, <2>1 DEF Page
  <2> QED
    BY <2>1, <2>2 DEF Page
<1>5. page' = [p \in Pages |-> told(p)]
  BY DEF Delivered
<1>6. ASSUME NEW p \in Pages
       PROVE  /\ page'[p].open = page[p].open /\ page'[p].since = page[p].since
              /\ page'[p].events = page[p].events /\ SameHistory(page'[p], page[p])
              /\ page'[p].inbox = IF page[p].open THEN Append(page[p].inbox, n)
                                 ELSE page[p].inbox
  <2>1. page[p] \in Page /\ page'[p] = told(p)
    BY <1>5 DEF TypeOK
  <2> QED
    BY <2>1 DEF Page, SameHistory
<1> DEFINE heard(l) == IF listener[l].phase = "live"
                       THEN [listener[l] EXCEPT !.inbox = Append(listener[l].inbox, n)]
                       ELSE listener[l]
           listeners == [l \in DOMAIN listener |-> heard(l)]
<1>7. ASSUME NEW l \in DOMAIN listener PROVE heard(l) \in Listener
  <2>1. listener[l] \in Listener
    BY DEF TypeOK
  <2>2. Append(listener[l].inbox, n) \in Seq(1 .. MaxSent)
    BY <1>1, <2>1 DEF Listener
  <2> QED
    BY <2>1, <2>2 DEF Listener
<1>8. listener' = listeners
  BY DEF Delivered
<1>9. listeners \in [DOMAIN listener -> Listener] /\ listener \in Seq(Listener)
  BY <1>7 DEF TypeOK
<1>10. ASSUME NEW l \in DOMAIN listener
      PROVE  /\ listeners[l].posted = listener[l].posted
             /\ \/ listeners[l].inbox = listener[l].inbox
                \/ listeners[l].inbox = Append(listener[l].inbox, n)
  <2>1. listener[l] \in Listener
    BY DEF TypeOK
  <2> QED
    BY <2>1 DEF Listener
<1> HIDE DEF listeners
<1>11. /\ listener' \in Seq(Listener) /\ Len(listener') = Len(listener)
       /\ DOMAIN listener' = DOMAIN listener
  BY <1>8, <1>9, Rewritten
<1> QED
  BY <1>1, <1>3, <1>4, <1>5, <1>8, <1>10, <1>11, <1>6

-----------------------------------------------------------------------------
LEMMA EndedRows ==
    ASSUME TypeOK, NEW q \in Requests, NEW state \in {"open", "committed", "undone"},
           NEW ended, ended = Ended(q, state)
    PROVE  /\ ended \in Seq(Row) /\ Len(ended) = Len(row) /\ DOMAIN ended = DOMAIN row
           /\ \A i \in DOMAIN row :
                 /\ ended[i].type = row[i].type /\ ended[i].severity = row[i].severity
                 /\ ended[i].of = row[i].of /\ ended[i].published = row[i].published
                 /\ ended[i].state = (IF i \in request[q].rows THEN state ELSE row[i].state)
<1> DEFINE new(i) == IF i \in request[q].rows THEN [row[i] EXCEPT !.state = state] ELSE row[i]
           f == [i \in DOMAIN row |-> new(i)]
<1>1. row \in Seq(Row)
  BY DEF TypeOK
<1>2. ASSUME NEW i \in DOMAIN row
      PROVE  /\ new(i) \in Row /\ new(i).type = row[i].type /\ new(i).severity = row[i].severity
             /\ new(i).of = row[i].of /\ new(i).published = row[i].published
             /\ new(i).state = (IF i \in request[q].rows THEN state ELSE row[i].state)
  <2>1. row[i] \in Row
    BY <1>1
  <2> QED
    BY <2>1 DEF Row
<1>3. f \in [DOMAIN row -> Row] /\ \A i \in DOMAIN row : f[i] = new(i)
  BY <1>2
<1>4. ended = f
  BY DEF Ended
<1> HIDE DEF f
<1>5. ended \in Seq(Row) /\ Len(ended) = Len(row) /\ DOMAIN ended = DOMAIN row
  BY <1>1, <1>3, <1>4, Rewritten
<1> QED
  BY <1>2, <1>3, <1>4, <1>5

\* One more row.
LEMMA NewRow ==
    ASSUME TypeOK, NEW r \in Row, row' = Append(row, r), Len(row) < MaxRows,
           NEW n, n = Len(row) + 1
    PROVE  /\ row' \in Seq(Row) /\ Len(row') <= MaxRows /\ n \in 1 .. MaxRows /\ n \in Nat
           /\ DOMAIN row' = DOMAIN row \cup {n} /\ n \notin DOMAIN row /\ row'[n] = r
           /\ \A i \in DOMAIN row : i < n /\ row'[i] = row[i]
<1>1. row \in Seq(Row) /\ Len(row) \in Nat
  BY DEF TypeOK
<1>2. /\ row' \in Seq(Row) /\ Len(row') = n /\ DOMAIN row' = DOMAIN row \cup {n}
      /\ n \notin DOMAIN row /\ row'[n] = r /\ \A i \in DOMAIN row : i < n /\ row'[i] = row[i]
  BY <1>1
<1>3. n \in 1 .. MaxRows /\ n \in Nat /\ n <= MaxRows
  BY <1>1, Bounds
<1> QED
  BY <1>2, <1>3

\* What is left alone keeps its types.
Rest == UNCHANGED <<sent, page, listener, faults>>

\* What a step of a request does, field by field, to it and to the rows.
Others(q) ==
    \A p \in Requests \ {q} : /\ request'[p] = request[p]
                              /\ StepOf(p)' = StepOf(p) /\ MyRow(p)' = MyRow(p)
Turned(q, phase, at, rows) ==
    /\ request'[q].phase = phase /\ request'[q].at = at /\ request'[q].rows = rows
    /\ request'[q].op = request[q].op /\ request'[q].name = request[q].name
    /\ Others(q)
Grown(n, type, of, published) ==
    /\ n \notin DOMAIN row /\ DOMAIN row' = DOMAIN row \cup {n}
    /\ \A i \in DOMAIN row : row'[i] = row[i]
    /\ row'[n].type = type /\ row'[n].of = of /\ row'[n].published = published
    /\ row'[n].state = "open"

Began(q, op, name) ==
    /\ request[q].phase = "idle" /\ request'[q].phase = "step"
    /\ request'[q].op = op /\ request'[q].name = name /\ op = "register" <=> name # None
    /\ request'[q].at = 1 /\ request'[q].rows = {}
    /\ Others(q) /\ UNCHANGED <<row, agents, sent>>
Wrote(q) ==
    /\ request[q].phase = "step" /\ StepOf(q) \in Writes \ {"pattern"}
    /\ Turned(q, "step", request[q].at + 1, request[q].rows)
    /\ UNCHANGED <<row, sent>>
    /\ IF StepOf(q) = "agent"
       THEN NameFree(q) /\ agents' = agents \cup {[name |-> request[q].name, by |-> {q}]}
       ELSE agents' = agents
Stored(q, n) ==
    /\ request[q].phase = "step" /\ StepOf(q) = "pattern"
    /\ Turned(q, "step", request[q].at + 1, request[q].rows \cup {n})
    /\ Grown(n, "knowledge.pattern_added", None, FALSE)
    /\ UNCHANGED <<agents, sent>>
Flushed(q, n) ==
    /\ request[q].phase = "step" /\ StepOf(q) \in Announced
    /\ Turned(q, "flushed", request[q].at, request[q].rows \cup {n}) /\ MyRow(q)' = n
    /\ Grown(n, StepOf(q), request[q].name, TRUE)
    /\ UNCHANGED <<agents, sent>>
Grows(q) == \E n : Stored(q, n) \/ Flushed(q, n)
SentMore(of) ==
    \E k : /\ DOMAIN sent' = DOMAIN sent \cup {k} /\ k \notin DOMAIN sent /\ sent'[k].row = of
           /\ \A i \in DOMAIN sent : sent'[i] = sent[i]
Announces(q) ==
    /\ request[q].phase = "flushed" /\ Turned(q, "announced", request[q].at, request[q].rows)
    /\ MyRow(q)' = MyRow(q)
    /\ SentMore(MyRow(q)) /\ UNCHANGED <<row, agents>>
Proceeds(q) ==
    /\ request[q].phase = "announced" /\ StepOf(q) \in Announced
    /\ Turned(q, "step", request[q].at + 1, request[q].rows)
    /\ UNCHANGED <<row, agents, sent>>
Ends(q, state) ==
    /\ request'[q].phase = "idle" /\ request'[q].at = 1 /\ request'[q].rows = {} /\ Others(q)
    /\ DOMAIN row' = DOMAIN row /\ sent' = sent
    /\ \A i \in DOMAIN row :
          /\ row'[i].type = row[i].type /\ row'[i].of = row[i].of
          /\ row'[i].published = row[i].published
          /\ row'[i].state = (IF i \in request[q].rows THEN state ELSE row[i].state)

\* Only the fields of a request decide which step it is at, and which row is its last.
LEMMA OthersStay ==
    ASSUME TInv, NEW q \in Requests, NEW r \in Request, request' = [request EXCEPT ![q] = r]
    PROVE  request'[q] = r /\ Others(q)
<1>1. /\ request'[q] = r /\ \A p \in Requests \ {q} : request'[p] = request[p]
  BY DEF TInv, TypeOK
<1>2. ASSUME NEW p \in Requests \ {q} PROVE StepOf(p)' = StepOf(p) /\ MyRow(p)' = MyRow(p)
  BY <1>1 DEF StepOf, MyRow
<1> QED
  BY <1>1, <1>2 DEF Others

LEMMA RowGrows ==
    ASSUME TInv, NEW r \in Row, row' = Append(row, r), Len(row) < MaxRows, r.state = "open",
           NEW n, n = Len(row) + 1
    PROVE  Grown(n, r.type, r.of, r.published)
<1>1. /\ DOMAIN row' = DOMAIN row \cup {n} /\ n \notin DOMAIN row /\ row'[n] = r
      /\ \A i \in DOMAIN row : row'[i] = row[i]
  BY NewRow DEF TInv
<1> QED
  BY <1>1 DEF Grown

LEMMA CalledRequest ==
    ASSUME NEW op \in DOMAIN Steps, NEW severity \in Severities, NEW n \in Names \cup {None}
    PROVE  LET r == Called(op, severity, n)
           IN  /\ r \in Request /\ r.phase = "step" /\ r.op = op /\ r.name = n /\ r.at = 1
               /\ r.rows = {}
<1> QED
  BY DEF Called, Request

LEMMA BeginStep ==
    ASSUME TInv, NEW q \in Requests, NEW o \in Operations, NEW n \in Names \cup {None},
           Begin(q, o[1], o[2], n),
           NEW r, r = Called(o[1], o[2], n)
    PROVE  Began(q, o[1], n) /\ TInv'
<1>1. o[1] \in DOMAIN Steps /\ o[2] \in Severities
  BY CallsAssumption
<1>2. /\ r \in Request /\ r.phase = "step" /\ r.op = o[1] /\ r.name = n /\ r.at = 1
      /\ r.rows = {}
  BY <1>1, CalledRequest
<1>3. /\ request[q].phase = "idle" /\ request' = [request EXCEPT ![q] = r]
      /\ o[1] = "register" <=> n # None
      /\ UNCHANGED <<row, agents>> /\ Rest
  BY DEF Begin, Rest
<1>4. request' \in [Requests -> Request] /\ Underway'
  BY <1>2, <1>3, OneRequest
<1>5. TypeOK'
  BY <1>3, <1>4 DEF TInv, TypeOK, Rest
<1>6. Began(q, o[1], n)
  <2>1. request'[q] = r /\ Others(q)
    BY <1>2, <1>3, OthersStay
  <2> QED
    BY <1>2, <1>3, <2>1 DEF Began, Rest
<1> QED
  BY <1>4, <1>5, <1>6 DEF TInv

\* Where a request is in its operation.
LEMMA StepWithin ==
    ASSUME TypeOK, NEW q \in Requests, StepOf(q) # "commit"
    PROVE  /\ request[q].op \in DOMAIN Steps
           /\ request[q].at \in 1 .. Len(Steps[request[q].op]) /\ request[q].at + 1 \in 1 .. 4
           /\ StepOf(q) = Steps[request[q].op][request[q].at]
           /\ StepOf(q) \in Announced \cup Writes
           /\ StepOf(q) = "agent" <=> (request[q].op = "register" /\ request[q].at = 1)
           /\ StepOf(q) = "agent.joined" <=> (request[q].op = "register" /\ request[q].at = 2)
<1> PICK op : op = request[q].op
  OBVIOUS
<1> PICK at : at = request[q].at
  OBVIOUS
<1>1. op \in DOMAIN Steps /\ at \in 1 .. 4
  <2>1. request[q] \in Request
    BY DEF TypeOK
  <2> QED
    BY <2>1 DEF Request
<1>2. at <= Len(Steps[op]) /\ StepOf(q) = Steps[op][at]
  BY DEF StepOf
<1>3. Len(Steps[op]) \in 1 .. 3
  BY <1>1, OperationSteps
<1>4. at \in 1 .. Len(Steps[op]) /\ at + 1 \in 1 .. 4
  BY <1>1, <1>2, <1>3
<1>5. /\ StepOf(q) \in Announced \cup Writes
      /\ StepOf(q) \in {"agent", "agent.joined"} => op = "register"
  BY <1>1, <1>2, <1>4, OperationSteps
<1>6. op = "register" => /\ at \in {1, 2}
                         /\ StepOf(q) = "agent" <=> at = 1
                         /\ StepOf(q) = "agent.joined" <=> at = 2
  BY <1>2, <1>4, Registration
<1> QED
  BY <1>1, <1>2, <1>4, <1>5, <1>6

LEMMA WriteRowStep ==
    ASSUME TInv, NEW q \in Requests, WriteRow(q), NEW n, n = Len(row) + 1,
           NEW r, r = [request[q] EXCEPT !.at = @ + 1,
                                         !.rows = @ \cup {i \in {n} : StepOf(q) = "pattern"}],
           NEW new, new = [type |-> "knowledge.pattern_added", severity |-> request[q].severity,
                           of |-> None, published |-> FALSE, state |-> "open"]
    PROVE  (Wrote(q) \/ Grows(q)) /\ TInv'
<1>1. request[q] \in Request /\ request[q].rows \subseteq DOMAIN row
  BY DEF TInv, TypeOK, Underway
<1>2. /\ request[q].phase = "step" /\ StepOf(q) \in Writes /\ Rest
      /\ IF StepOf(q) = "agent"
         THEN NameFree(q) /\ agents' = agents \cup {[name |-> request[q].name, by |-> {q}]}
         ELSE agents' = agents
  BY DEF WriteRow, Rest, Writes
<1>3. /\ request[q].at + 1 \in 1 .. 4
      /\ StepOf(q) = "agent" => request[q].op = "register"
  BY <1>2, StepWithin DEF TInv, Writes
<1>4. /\ (StepOf(q) = "pattern") =>
            /\ row' = Append(row, new) /\ Len(row) < MaxRows /\ agents' = agents
      /\ (StepOf(q) # "pattern") => row' = row
  BY DEF WriteRow
<1>5. /\ new \in Row /\ new.type = "knowledge.pattern_added" /\ ~new.published
  BY <1>1 DEF Row, Request, Announced
<1>6. /\ row' \in Seq(Row) /\ Len(row') <= MaxRows /\ DOMAIN row \subseteq DOMAIN row'
      /\ {i \in {n} : StepOf(q) = "pattern"} \subseteq (1 .. MaxRows) \cap DOMAIN row'
  <2>1. CASE StepOf(q) = "pattern"
    BY <1>4, <1>5, <2>1, NewRow DEF TInv
  <2>2. CASE StepOf(q) # "pattern"
    BY <1>4, <2>2 DEF TInv, TypeOK
  <2> QED
    BY <2>1, <2>2
<1>7. /\ r \in Request /\ r.phase = "step" /\ r.op = request[q].op /\ r.name = request[q].name
      /\ r.at = request[q].at + 1
      /\ r.rows = request[q].rows \cup {i \in {n} : StepOf(q) = "pattern"}
  <2> PICK more : more = {i \in {n} : StepOf(q) = "pattern"}
    OBVIOUS
  <2> PICK at \in 1 .. 4 : at = request[q].at + 1
    BY <1>3
  <2> PICK was : was = request[q]
    OBVIOUS
  <2>1. r = [was EXCEPT !.at = at, !.rows = @ \cup more] /\ more \subseteq 1 .. MaxRows
    BY <1>6
  <2>2. was \in Request /\ was.phase = "step"
    BY <1>1, <1>2
  <2>3. was.rows \cup more \in SUBSET (1 .. MaxRows)
    BY <2>1, <2>2 DEF Request
  <2>4. r = [was EXCEPT !.at = at, !.rows = was.rows \cup more]
    BY <2>1, <2>2 DEF Request
  <2>5. r \in Request /\ r.phase = "step" /\ r.op = was.op /\ r.name = was.name
        /\ r.at = at /\ r.rows = was.rows \cup more
    BY <2>2, <2>3, <2>4 DEF Request
  <2> QED
    BY <2>5
<1>8. request' = [request EXCEPT ![q] = r]
  <2>1. CASE StepOf(q) = "pattern"
    <3>1. request' = [request EXCEPT ![q] = [request[q] EXCEPT !.at = @ + 1, !.rows = @ \cup {n}]]
      BY <2>1 DEF WriteRow
    <3>2. {i \in {n} : StepOf(q) = "pattern"} = {n}
      BY <2>1
    <3> QED
      BY <3>1, <3>2
  <2>2. CASE StepOf(q) # "pattern"
    <3>1. request' = [request EXCEPT ![q] = [request[q] EXCEPT !.at = @ + 1]]
      BY <2>2 DEF WriteRow
    <3>2. r = [request[q] EXCEPT !.at = @ + 1]
      <4>1. {i \in {n} : StepOf(q) = "pattern"} = {}
        BY <2>2
      <4>2. request[q].rows \cup {} = request[q].rows
        OBVIOUS
      <4> QED
        BY <1>1, <4>1, <4>2 DEF Request
    <3> QED
      BY <3>1, <3>2
  <2> QED
    BY <2>1, <2>2
<1>9. request' \in [Requests -> Request] /\ Underway'
  <2>1. r.op = "register" <=> r.name # None
    BY <1>2, <1>7 DEF TInv, Underway
  <2>2. r.rows \subseteq DOMAIN row'
    BY <1>1, <1>6, <1>7
  <2> QED
    BY <1>6, <1>7, <1>8, <2>1, <2>2, OneRequest
<1>10. agents' \subseteq [name: Names, by: SUBSET Requests]
  <2>1. CASE StepOf(q) = "agent"
    <3>1. request[q].name \in Names
      BY <1>1, <1>2, <1>3, <2>1 DEF TInv, Underway, Request
    <3> QED
      BY <1>2, <2>1, <3>1 DEF TInv, TypeOK
  <2> QED
    BY <1>2, <2>1 DEF TInv, TypeOK
<1>11. TypeOK'
  BY <1>2, <1>6, <1>9, <1>10 DEF TInv, TypeOK, Rest
<1>12. request'[q] = r /\ Others(q) /\ sent' = sent
  BY <1>7, <1>8, OthersStay DEF WriteRow
<1>13. CASE StepOf(q) = "pattern"
  <2>1. new.of = None /\ new.state = "open" /\ new.published = FALSE
    OBVIOUS
  <2>2. Grown(n, new.type, new.of, new.published)
    BY <1>4, <1>5, <1>13, <2>1, RowGrows
  <2>3. Grown(n, "knowledge.pattern_added", None, FALSE)
    BY <1>5, <2>1, <2>2
  <2>4. r.rows = request[q].rows \cup {n}
    BY <1>7, <1>13
  <2>5. Stored(q, n)
    BY <1>2, <1>4, <1>7, <1>12, <1>13, <2>3, <2>4 DEF Stored, Turned
  <2> QED
    BY <1>9, <1>11, <2>5 DEF TInv, Grows
<1>14. CASE StepOf(q) # "pattern"
  <2>1. r.rows = request[q].rows
    BY <1>7, <1>14
  <2>2. Wrote(q)
    BY <1>2, <1>4, <1>7, <1>12, <1>14, <2>1 DEF Wrote, Turned
  <2> QED
    BY <1>9, <1>11, <2>2 DEF TInv
<1> QED
  BY <1>13, <1>14

LEMMA FlushEventStep ==
    ASSUME TInv, NEW q \in Requests, FlushEvent(q), NEW n, n = Len(row) + 1,
           NEW r, r = [request[q] EXCEPT !.phase = "flushed", !.rows = @ \cup {n}],
           NEW new, new = [type |-> StepOf(q), severity |-> request[q].severity,
                           of |-> request[q].name, published |-> TRUE, state |-> "open"]
    PROVE  Grows(q) /\ TInv'
<1>1. request[q] \in Request /\ request[q].rows \subseteq DOMAIN row
  BY DEF TInv, TypeOK, Underway
<1>2. /\ request[q].phase = "step" /\ StepOf(q) \in Announced /\ Rest /\ agents' = agents
      /\ row' = Append(row, new) /\ Len(row) < MaxRows
  BY DEF FlushEvent, Rest
<1>3. new \in Row /\ new.published
  BY <1>1, <1>2 DEF Row, Request
<1>4. /\ row' \in Seq(Row) /\ Len(row') <= MaxRows /\ n \in 1 .. MaxRows /\ n \in Nat
      /\ DOMAIN row' = DOMAIN row \cup {n} /\ \A i \in DOMAIN row : i < n
  BY <1>2, <1>3, NewRow DEF TInv
<1>5. /\ r \in Request /\ r.phase = "flushed" /\ r.op = request[q].op
      /\ r.name = request[q].name /\ r.at = request[q].at /\ r.rows = request[q].rows \cup {n}
  BY <1>1, <1>4 DEF Request
<1>6. request' = [request EXCEPT ![q] = r]
  BY DEF FlushEvent
<1>7. request'[q] = r
  BY <1>6 DEF TInv, TypeOK
<1>8. MyRow(q)' = n
  <2>1. request[q].rows \in SUBSET Nat /\ \A i \in request[q].rows : i < n
    BY <1>1, <1>4 DEF Request
  <2>2. Max(request[q].rows \cup {n}) = n
    BY <1>4, <2>1, Greatest
  <2> QED
    BY <1>5, <1>7, <2>2 DEF MyRow
<1>9. request' \in [Requests -> Request] /\ Underway'
  <2>1. r.op = "register" <=> r.name # None
    BY <1>2, <1>5 DEF TInv, Underway
  <2>2. r.rows \subseteq DOMAIN row' /\ DOMAIN row \subseteq DOMAIN row'
    BY <1>1, <1>4, <1>5
  <2>3. StepOf(q)' \in Announced
    BY <1>2, <1>5, <1>7 DEF StepOf
  <2>4. MyRow(q)' \in r.rows
    BY <1>5, <1>8
  <2> QED
    BY <1>5, <1>6, <2>1, <2>2, <2>3, <2>4, OneRequest
<1>10. TypeOK'
  BY <1>2, <1>4, <1>9 DEF TInv, TypeOK, Rest
<1>11. Flushed(q, n)
  <2>1. /\ new.type = StepOf(q) /\ new.of = request[q].name /\ new.state = "open"
        /\ new.published = TRUE
    OBVIOUS
  <2>2. Grown(n, new.type, new.of, new.published)
    BY <1>2, <1>3, <2>1, RowGrows
  <2>3. Grown(n, StepOf(q), request[q].name, TRUE)
    BY <2>1, <2>2
  <2>4. Others(q)
    BY <1>5, <1>6, OthersStay
  <2> QED
    BY <1>2, <1>5, <1>7, <1>8, <2>3, <2>4 DEF Flushed, Turned, Rest
<1> QED
  BY <1>9, <1>10, <1>11 DEF TInv, Grows

LEMMA AnnounceStep ==
    ASSUME TInv, NEW q \in Requests, Announce(q),
           NEW r, r = [request[q] EXCEPT !.phase = "announced"],
           NEW m, m = [type |-> StepOf(q), severity |-> request[q].severity, row |-> MyRow(q)]
    PROVE  /\ request[q].phase = "flushed"
           /\ r \in Request /\ request' = [request EXCEPT ![q] = r]
           /\ r.phase = "announced" /\ r.op = request[q].op /\ r.name = request[q].name
           /\ r.at = request[q].at /\ r.rows = request[q].rows
           /\ Len(sent) < MaxSent /\ m \in Message /\ Delivered(m) /\ m.row = MyRow(q)
           /\ UNCHANGED <<row, agents, faults>>
           /\ Announces(q) /\ TInv'
<1>1. /\ request[q] \in Request /\ request[q].rows \subseteq DOMAIN row
      /\ DOMAIN row \subseteq 1 .. MaxRows
  <2>1. DOMAIN row = 1 .. Len(row) /\ Len(row) \in Nat /\ Len(row) <= MaxRows
    BY DEF TInv, TypeOK
  <2>2. DOMAIN row \subseteq 1 .. MaxRows
    BY <2>1, Bounds
  <2> QED
    BY <2>2 DEF TInv, TypeOK, Underway
<1>2. /\ request[q].phase = "flushed" /\ Len(sent) < MaxSent /\ Delivered(m)
      /\ request' = [request EXCEPT ![q] = r] /\ UNCHANGED <<row, agents, faults>>
  BY DEF Announce
<1>3. StepOf(q) \in Announced /\ MyRow(q) \in request[q].rows
  BY <1>2 DEF TInv, Underway
<1>4. m \in Message /\ m.row = MyRow(q)
  <2>1. MyRow(q) \in 0 .. MaxRows
    BY <1>1, <1>3
  <2> QED
    BY <1>1, <1>3, <2>1 DEF Message, Request
<1>5. /\ r \in Request /\ r.phase = "announced" /\ r.op = request[q].op
      /\ r.name = request[q].name /\ r.at = request[q].at /\ r.rows = request[q].rows
  BY <1>1 DEF Request
<1>6. request'[q] = r
  BY <1>2 DEF TInv, TypeOK
<1>7. request' \in [Requests -> Request] /\ Underway'
  <2>1. r.op = "register" <=> r.name # None
    BY <1>2, <1>5 DEF TInv, Underway
  <2>2. r.rows \subseteq DOMAIN row' /\ DOMAIN row \subseteq DOMAIN row'
    BY <1>1, <1>2, <1>5
  <2>3. StepOf(q)' \in Announced /\ MyRow(q)' \in r.rows
    BY <1>3, <1>5, <1>6 DEF StepOf, MyRow
  <2> QED
    BY <1>2, <1>5, <2>1, <2>2, <2>3, OneRequest
<1>8. TypeOK'
  <2>1. /\ sent' \in Seq(Message) /\ Len(sent') <= MaxSent
        /\ page' \in [Pages -> Page]
        /\ \A p \in Pages : page'[p].events = page[p].events /\ SameHistory(page'[p], page[p])
        /\ listener' \in Seq(Listener) /\ Len(listener') = Len(listener)
    <3> PICK n : n = Len(sent) + 1
      OBVIOUS
    <3>1. /\ sent' \in Seq(Message) /\ Len(sent') = n /\ n \in 1 .. MaxSent
          /\ page' \in [Pages -> Page]
          /\ \A p \in Pages : page'[p].events = page[p].events /\ SameHistory(page'[p], page[p])
          /\ listener' \in Seq(Listener) /\ Len(listener') = Len(listener)
      BY <1>2, <1>4, Delivery DEF TInv
    <3> QED
      BY <3>1
  <2> QED
    BY <1>2, <1>7, <2>1 DEF TInv, TypeOK, SameHistory
<1>9. Announces(q)
  <2>1. Others(q)
    BY <1>2, <1>5, OthersStay
  <2>2. MyRow(q)' = MyRow(q)
    BY <1>5, <1>6 DEF MyRow
  <2>3. SentMore(MyRow(q))
    <3> PICK k : k = Len(sent) + 1
      OBVIOUS
    <3>1. sent' = Append(sent, m) /\ sent \in Seq(Message)
      BY <1>2 DEF Delivered, TInv, TypeOK
    <3>2. /\ DOMAIN sent' = DOMAIN sent \cup {k} /\ k \notin DOMAIN sent /\ sent'[k] = m
          /\ \A i \in DOMAIN sent : sent'[i] = sent[i]
      BY <1>4, <3>1
    <3> QED
      BY <1>4, <3>2 DEF SentMore
  <2> QED
    BY <1>2, <1>5, <1>6, <2>1, <2>2, <2>3 DEF Announces, Turned
<1> QED
  BY <1>2, <1>4, <1>5, <1>7, <1>8, <1>9 DEF TInv

LEMMA AnnounceTypeStep ==
    ASSUME TInv, NEW q \in Requests, AnnounceType(q),
           NEW r, r = [request[q] EXCEPT !.phase = "step", !.at = @ + 1]
    PROVE  Proceeds(q) /\ TInv'
<1>1. request[q] \in Request /\ request[q].rows \subseteq DOMAIN row
  BY DEF TInv, TypeOK, Underway
<1>2. /\ request[q].phase = "announced" /\ request' = [request EXCEPT ![q] = r]
      /\ UNCHANGED <<row, agents>> /\ Rest
  BY DEF AnnounceType, Rest
<1>3. StepOf(q) \in Announced /\ request[q].at + 1 \in 1 .. 4
  <2>1. StepOf(q) \in Announced
    BY <1>2 DEF TInv, Underway
  <2> QED
    BY <2>1, StepWithin DEF TInv, Announced
<1>4. /\ r \in Request /\ r.phase = "step" /\ r.op = request[q].op
      /\ r.name = request[q].name /\ r.at = request[q].at + 1 /\ r.rows = request[q].rows
  <2> PICK at \in 1 .. 4 : at = request[q].at + 1
    BY <1>3
  <2>1. r = [request[q] EXCEPT !.phase = "step", !.at = at]
    OBVIOUS
  <2> QED
    BY <1>1, <2>1 DEF Request
<1>5. request' \in [Requests -> Request] /\ Underway'
  <2>1. r.op = "register" <=> r.name # None
    BY <1>2, <1>4 DEF TInv, Underway
  <2>2. r.rows \subseteq DOMAIN row' /\ DOMAIN row \subseteq DOMAIN row'
    BY <1>1, <1>2, <1>4
  <2> QED
    BY <1>2, <1>4, <2>1, <2>2, OneRequest
<1>6. TypeOK'
  BY <1>2, <1>5 DEF TInv, TypeOK, Rest
<1>7. Proceeds(q)
  <2>1. request'[q] = r /\ Others(q)
    BY <1>2, <1>4, OthersStay
  <2> QED
    BY <1>2, <1>3, <1>4, <2>1 DEF Proceeds, Turned, Rest
<1> QED
  BY <1>5, <1>6, <1>7 DEF TInv

\* A request ends.
LEMMA EndStep ==
    ASSUME TInv, NEW q \in Requests, NEW state \in {"committed", "undone"},
           row' = Ended(q, state), request' = [request EXCEPT ![q] = Idle], Rest,
           agents' \subseteq [name: Names, by: SUBSET Requests]
    PROVE  Ends(q, state) /\ TInv'
<1>1. Idle \in Request /\ Idle.phase = "idle" /\ Idle.at = 1 /\ Idle.rows = {}
  <2>1. "message" \in DOMAIN Steps
    BY DEF Steps
  <2> QED
    BY <2>1 DEF Idle, Called, Request, None, Severities
<1>2. /\ row' \in Seq(Row) /\ Len(row') = Len(row) /\ DOMAIN row' = DOMAIN row
      /\ \A i \in DOMAIN row :
            /\ row'[i].type = row[i].type /\ row'[i].severity = row[i].severity
            /\ row'[i].of = row[i].of /\ row'[i].published = row[i].published
            /\ row'[i].state = (IF i \in request[q].rows THEN state ELSE row[i].state)
  BY EndedRows DEF TInv
<1>3. request' \in [Requests -> Request] /\ Underway'
  BY <1>1, <1>2, OneRequest
<1>4. TypeOK'
  BY <1>2, <1>3 DEF TInv, TypeOK, Rest
<1>5. request'[q] = Idle /\ Others(q)
  BY <1>1, OthersStay
<1>6. Ends(q, state)
  BY <1>1, <1>2, <1>5 DEF Ends, Rest
<1> QED
  BY <1>3, <1>4, <1>6 DEF TInv

LEMMA FailStep ==
    ASSUME TInv, NEW q \in Requests, Fail(q)
    PROVE  /\ Ends(q, "undone") /\ agents' = {a \in agents : a.by # {q}}
           /\ TInv'
<1>1. /\ row' = Ended(q, "undone") /\ request' = [request EXCEPT ![q] = Idle] /\ Rest
      /\ agents' = {a \in agents : a.by # {q}}
  BY DEF Fail, Rest
<1>2. agents' \subseteq [name: Names, by: SUBSET Requests]
  BY <1>1 DEF TInv, TypeOK
<1>3. TInv'
  BY <1>1, <1>2, EndStep
<1>4. Ends(q, "undone")
  BY <1>1, <1>2, EndStep
<1> QED
  BY <1>1, <1>3, <1>4

LEMMA CommitStep ==
    ASSUME TInv, NEW q \in Requests, Commit(q)
    PROVE  /\ request[q].phase = "step" /\ StepOf(q) = "commit" /\ Ends(q, "committed")
           /\ agents' = {IF a.by = {q} THEN [a EXCEPT !.by = {}] ELSE a : a \in agents}
           /\ TInv'
<1>1. /\ request[q].phase = "step" /\ StepOf(q) = "commit"
      /\ row' = Ended(q, "committed") /\ request' = [request EXCEPT ![q] = Idle] /\ Rest
      /\ agents' = {IF a.by = {q} THEN [a EXCEPT !.by = {}] ELSE a : a \in agents}
  BY DEF Commit, Rest
<1>2. agents' \subseteq [name: Names, by: SUBSET Requests]
  <2> DEFINE freed(a) == IF a.by = {q} THEN [a EXCEPT !.by = {}] ELSE a
  <2>1. ASSUME NEW a \in agents PROVE freed(a) \in [name: Names, by: SUBSET Requests]
    BY DEF TInv, TypeOK
  <2> QED
    BY <1>1, <2>1
<1>3. TInv'
  BY <1>1, <1>2, EndStep
<1>4. Ends(q, "committed")
  BY <1>1, <1>2, EndStep
<1> QED
  BY <1>1, <1>3, <1>4

LEMMA RiskAlertStep ==
    ASSUME TInv, RiskAlert,
           NEW m, m = [type |-> "soul.risk_alert", severity |-> "critical", row |-> 0]
    PROVE  /\ Len(sent) < MaxSent /\ m \in Message /\ Delivered(m)
           /\ UNCHANGED <<row, agents, request, faults>>
           /\ TInv'
<1>1. /\ Len(sent) < MaxSent /\ Delivered(m) /\ UNCHANGED <<row, agents, request, faults>>
  BY DEF RiskAlert
<1>2. m \in Message
  <2>1. 0 \in 0 .. MaxRows
    BY Bounds
  <2> QED
    BY <2>1 DEF Message, Severities
<1>3. /\ sent' \in Seq(Message) /\ Len(sent') <= MaxSent
      /\ page' \in [Pages -> Page]
      /\ \A p \in Pages : page'[p].events = page[p].events /\ SameHistory(page'[p], page[p])
      /\ listener' \in Seq(Listener) /\ Len(listener') = Len(listener)
  <2> PICK n : n = Len(sent) + 1
    OBVIOUS
  <2>1. /\ sent' \in Seq(Message) /\ Len(sent') = n /\ n \in 1 .. MaxSent
        /\ page' \in [Pages -> Page]
        /\ \A p \in Pages : page'[p].events = page[p].events /\ SameHistory(page'[p], page[p])
        /\ listener' \in Seq(Listener) /\ Len(listener') = Len(listener)
    BY <1>1, <1>2, Delivery DEF TInv
  <2> QED
    BY <2>1
<1>4. TypeOK'
  BY <1>1, <1>3 DEF TInv, TypeOK, SameHistory
<1>5. Underway'
  BY <1>1 DEF TInv, Underway, StepOf, MyRow
<1> QED
  BY <1>1, <1>2, <1>4, <1>5 DEF TInv

\* What is left alone by those who listen.
Tables == UNCHANGED <<row, agents, request, sent>>

LEMMA TablesKept ==
    ASSUME TInv, Tables
    PROVE  Underway'
<1> QED
  BY DEF TInv, Underway, Tables, StepOf, MyRow

LEMMA PageIs ==
    ASSUME TInv, NEW p \in Pages
    PROVE  page[p] \in Page /\ Bounded(page[p]) /\ Len(sent) \in Nat
<1>1. TypeOK
  BY DEF TInv
<1>2. page[p] \in Page
  BY <1>1 DEF TypeOK
<1>3. Bounded(page[p])
  <2>1. /\ Len(page[p].events) + Len(page[p].past) <= PageLimit
        /\ Len(page[p].answer) <= PageLimit
    BY <1>1, Zenon DEF TypeOK
  <2> QED
    BY <2>1, Zenon DEF Bounded
<1>4. Len(sent) \in Nat
  BY <1>1 DEF TypeOK
<1> QED
  BY <1>2, <1>3, <1>4

\* A step of one page.
LEMMA OnePage ==
    ASSUME TInv, NEW p \in Pages, NEW new \in Page, page' = [page EXCEPT ![p] = new],
           Bounded(new), Tables, listener' = listener
    PROVE  /\ page'[p] = new /\ \A b \in Pages \ {p} : page'[b] = page[b]
           /\ TInv'
<1>1. /\ page' \in [Pages -> Page] /\ page'[p] = new
      /\ \A b \in Pages \ {p} : page'[b] = page[b]
  BY DEF TInv, TypeOK
<1>2. TypeOK'
  BY <1>1 DEF TInv, TypeOK, Tables, Bounded
<1> QED
  BY <1>1, <1>2, TablesKept DEF TInv

LEMMA ConnectStep ==
    ASSUME TInv, NEW p \in Pages, Connect(p),
           NEW new, new = [page[p] EXCEPT !.open = TRUE, !.since = Len(sent)]
    PROVE  /\ ~page[p].open /\ new \in Page /\ page' = [page EXCEPT ![p] = new]
           /\ new.since = Len(sent) /\ new.inbox = page[p].inbox /\ new.events = page[p].events
           /\ SameHistory(new, page[p])
           /\ Tables /\ listener' = listener
           /\ TInv'
<1>1. ~page[p].open /\ page' = [page EXCEPT ![p] = new] /\ Tables /\ listener' = listener
  BY DEF Connect, Tables
<1>2. page[p] \in Page /\ Len(sent) \in Nat /\ Bounded(page[p])
  BY PageIs
<1>3. /\ new \in Page /\ new.since = Len(sent) /\ new.inbox = page[p].inbox
      /\ new.events = page[p].events /\ SameHistory(new, page[p])
  BY <1>2 DEF Page, SameHistory
<1>4. TInv'
  <2>1. Bounded(new)
    BY <1>2, <1>3 DEF Bounded, SameHistory
  <2> QED
    BY <1>1, <1>3, <2>1, OnePage
<1> QED
  BY <1>1, <1>3, <1>4

LEMMA DisconnectStep ==
    ASSUME TInv, NEW p \in Pages, Disconnect(p),
           NEW new, new = [page[p] EXCEPT !.open = FALSE, !.inbox = <<>>]
    PROVE  /\ new \in Page /\ page' = [page EXCEPT ![p] = new]
           /\ ~new.open /\ new.inbox = <<>> /\ new.events = page[p].events
           /\ SameHistory(new, page[p])
           /\ Tables /\ listener' = listener
           /\ TInv'
<1>1. page' = [page EXCEPT ![p] = new] /\ Tables /\ listener' = listener
  BY DEF Disconnect, Tables
<1>2. page[p] \in Page /\ Bounded(page[p])
  BY PageIs
<1>3. /\ new \in Page /\ ~new.open /\ new.inbox = <<>> /\ new.events = page[p].events
      /\ SameHistory(new, page[p])
  <2>0. <<>> \in Seq(1 .. MaxSent)
    BY EmptySeq
  <2> PICK none \in Seq(1 .. MaxSent) : none = <<>>
    BY <2>0
  <2>1. new = [page[p] EXCEPT !.open = FALSE, !.inbox = none]
    OBVIOUS
  <2> QED
    BY <1>2, <2>1 DEF Page, SameHistory
<1>4. TInv'
  <2>1. Bounded(new)
    BY <1>2, <1>3 DEF Bounded, SameHistory
  <2> QED
    BY <1>1, <1>3, <2>1, OnePage
<1> QED
  BY <1>1, <1>3, <1>4

\* The history as it is read: the page is given an answer.
Given(p, answer) == [page[p] EXCEPT !.history = "read", !.answer = answer, !.known = Saved]

LEMMA AnswerIs ==
    ASSUME TInv, NEW answer \in Answers
    PROVE  answer \in Seq(1 .. MaxRows) /\ Len(answer) <= PageLimit /\ Saved \subseteq 1 .. MaxRows
<1>1. Saved \subseteq 1 .. MaxRows
  <2>1. DOMAIN row = 1 .. Len(row) /\ Len(row) \in Nat /\ Len(row) <= MaxRows
    BY DEF TInv, TypeOK
  <2>2. DOMAIN row \subseteq 1 .. MaxRows
    BY <2>1, Bounds
  <2> QED
    BY <2>2 DEF Saved
<1>2. PICK n \in 0 .. PageLimit : answer \in [1 .. n -> Saved]
  <2>1. answer \in UNION {[1 .. n -> Saved] : n \in 0 .. PageLimit}
    BY Zenon DEF Answers
  <2> QED
    BY <2>1, Zenon
<1>3. n \in Nat /\ n <= PageLimit
  BY <1>2, Bounds
<1>4. answer \in [1 .. n -> 1 .. MaxRows]
  BY <1>1, <1>2
<1>5. answer \in Seq(1 .. MaxRows) /\ DOMAIN answer = 1 .. n
  BY <1>3, <1>4, SeqDef
<1>6. Len(answer) = n
  BY <1>3, <1>5, LenProperties
<1> QED
  BY <1>1, <1>3, <1>5, <1>6

\* What that leaves as it was.
IsGiven(p, answer, new) ==
    /\ new.open = page[p].open /\ new.since = page[p].since
    /\ new.inbox = page[p].inbox /\ new.events = page[p].events
    /\ new.history = "read" /\ new.answer = answer /\ new.known = Saved
    /\ new.past = page[p].past /\ new.from = page[p].from

LEMMA GivenIs ==
    ASSUME TInv, NEW p \in Pages, NEW answer \in Answers
    PROVE  /\ Given(p, answer) \in Page /\ IsGiven(p, answer, Given(p, answer))
           /\ Bounded(Given(p, answer))
<1> PICK new : new = Given(p, answer)
  OBVIOUS
<1>1. page[p] \in Page /\ Bounded(page[p])
  BY PageIs
<1>2. answer \in Seq(1 .. MaxRows) /\ Len(answer) <= PageLimit /\ Saved \in SUBSET (1 .. MaxRows)
  BY AnswerIs
<1>3. /\ new \in Page /\ new.open = page[p].open /\ new.since = page[p].since
      /\ new.inbox = page[p].inbox /\ new.events = page[p].events
      /\ new.history = "read" /\ new.answer = answer /\ new.known = Saved
      /\ new.past = page[p].past /\ new.from = page[p].from
  <2> PICK known \in SUBSET (1 .. MaxRows) : known = Saved
    BY <1>2
  <2>1. new = [page[p] EXCEPT !.history = "read", !.answer = answer, !.known = known]
    BY DEF Given
  <2> QED
    BY <1>1, <1>2, <2>1 DEF Page
<1>4. Bounded(new)
  BY <1>1, <1>2, <1>3 DEF Bounded
<1> QED
  BY <1>3, <1>4 DEF IsGiven

LEMMA ReadStep ==
    ASSUME TInv, NEW p \in Pages, ReadHistory(p)
    PROVE  \E answer \in Answers, new \in Page :
              /\ page[p].history = "asked" /\ page' = [page EXCEPT ![p] = new]
              /\ IsGiven(p, answer, new) /\ Tables /\ listener' = listener /\ TInv'
<1>1. PICK answer \in Answers :
        page' = [page EXCEPT ![p].history = "read", ![p].answer = answer, ![p].known = Saved]
  BY DEF ReadHistory
<1> PICK new : new = Given(p, answer)
  OBVIOUS
<1>2. page' = [page EXCEPT ![p] = new]
  BY <1>1 DEF Given
<1>3. page[p].history = "asked" /\ Tables /\ listener' = listener
  BY DEF ReadHistory, Tables
<1>4. new \in Page /\ IsGiven(p, answer, new) /\ Bounded(new)
  BY GivenIs
<1>5. TInv'
  BY <1>2, <1>3, <1>4, OnePage
<1> QED
  BY <1>2, <1>3, <1>4, <1>5

\* The page that shows its history.
HistoryShown(p) == [page[p] EXCEPT !.history = "shown", !.past = page[p].answer,
                                   !.answer = <<>>, !.events = <<>>, !.from = UpTo(p)]

LEMMA ShowHistoryStep ==
    ASSUME TInv, NEW p \in Pages, ShowHistory(p), NEW new, new = HistoryShown(p)
    PROVE  /\ page[p].history = "read" /\ new \in Page /\ page' = [page EXCEPT ![p] = new]
           /\ new.open = page[p].open /\ new.since = page[p].since
           /\ new.inbox = page[p].inbox /\ new.events = <<>> /\ new.history = "shown"
           /\ new.past = page[p].answer /\ new.known = page[p].known /\ new.from = UpTo(p)
           /\ UpTo(p) \in Nat
           /\ Tables /\ listener' = listener
           /\ TInv'
<1>1. /\ page[p].history = "read" /\ page' = [page EXCEPT ![p] = new] /\ Tables
      /\ listener' = listener
  BY DEF ShowHistory, HistoryShown, Tables
<1>2. page[p] \in Page /\ Bounded(page[p]) /\ Len(sent) \in Nat
  BY PageIs
<1>3. UpTo(p) \in Nat
  <2>1. CASE page[p].inbox = <<>>
    BY <1>2, <2>1 DEF UpTo
  <2>2. CASE page[p].inbox # <<>>
    <3>1. page[p].inbox \in Seq(1 .. MaxSent)
      BY <1>2 DEF Page
    <3>2. Head(page[p].inbox) \in 1 .. MaxSent
      BY <2>2, <3>1, HeadTailProperties
    <3>3. \A h \in 1 .. MaxSent : h - 1 \in Nat
      BY Bounds
    <3> QED
      BY <2>2, <3>2, <3>3 DEF UpTo
  <2> QED
    BY <2>1, <2>2
<1>4. <<>> \in Seq(1 .. MaxSent) /\ <<>> \in Seq(1 .. MaxRows) /\ Len(<<>>) = 0
  OBVIOUS
<1>5. /\ new \in Page /\ new.open = page[p].open /\ new.since = page[p].since
      /\ new.inbox = page[p].inbox /\ new.events = <<>> /\ new.history = "shown"
      /\ new.past = page[p].answer /\ new.known = page[p].known /\ new.from = UpTo(p)
      /\ new.answer = <<>>
  <2> PICK events \in Seq(1 .. MaxSent) : events = <<>>
    BY <1>4
  <2> PICK answer \in Seq(1 .. MaxRows) : answer = <<>>
    BY <1>4
  <2>1. new = [page[p] EXCEPT !.history = "shown", !.past = page[p].answer,
                              !.answer = answer, !.events = events, !.from = UpTo(p)]
    BY DEF HistoryShown
  <2> QED
    BY <1>2, <1>3, <2>1 DEF Page
<1>6. Bounded(new)
  <2>1. Len(page[p].answer) \in Nat /\ Len(page[p].answer) <= PageLimit
    BY <1>2 DEF Page, Bounded
  <2> QED
    BY <1>4, <1>5, <2>1, Bounds DEF Bounded
<1>7. TInv'
  BY <1>1, <1>5, <1>6, OnePage
<1> QED
  BY <1>1, <1>3, <1>5, <1>7

LEMMA Part ==
    ASSUME NEW a \in Nat, NEW b \in Nat, NEW c \in Nat, a + b <= c
    PROVE  a <= c
OBVIOUS

\* A page that shows one more: its list becomes e above what is left of the history.
Pushed(p, e) == [page[p] EXCEPT !.inbox = Tail(@), !.events = e, !.past = Below(@, e)]

LEMMA ShowStep ==
    ASSUME TInv, NEW p \in Pages, Show(p), NEW h, h = Head(page[p].inbox),
           NEW e, e = Shown(page[p].events, h), NEW new, new = Pushed(p, e)
    PROVE  /\ page[p].inbox # <<>> /\ new \in Page /\ page' = [page EXCEPT ![p] = new]
           /\ new.open = page[p].open /\ new.since = page[p].since
           /\ new.inbox = Tail(page[p].inbox) /\ new.events = e
           /\ new.history = page[p].history /\ new.answer = page[p].answer
           /\ new.known = page[p].known /\ new.from = page[p].from
           /\ new.past = Below(page[p].past, e)
           /\ h \in 1 .. MaxSent /\ PageLimit - Len(e) \in Nat
           /\ Tables /\ listener' = listener
           /\ TInv'
<1>1. /\ page[p].inbox # <<>> /\ page' = [page EXCEPT ![p] = new] /\ Tables
      /\ listener' = listener
  BY DEF Show, Tables, Pushed
<1>2. page[p] \in Page /\ Bounded(page[p])
  BY PageIs
<1>3. /\ page[p].inbox \in Seq(1 .. MaxSent) /\ page[p].events \in Seq(1 .. MaxSent)
      /\ page[p].past \in Seq(1 .. MaxRows)
      /\ h \in 1 .. MaxSent /\ Tail(page[p].inbox) \in Seq(1 .. MaxSent)
  <2>1. /\ page[p].inbox \in Seq(1 .. MaxSent) /\ page[p].events \in Seq(1 .. MaxSent)
        /\ page[p].past \in Seq(1 .. MaxRows)
    BY <1>2 DEF Page
  <2> QED
    BY <1>1, <2>1, HeadTailProperties
<1>4. e \in Seq(1 .. MaxSent) /\ Len(e) \in Nat /\ Len(e) <= PageLimit /\ PageLimit \in Nat
  <2>1. Len(page[p].events) \in Nat /\ Len(page[p].past) \in Nat
    BY <1>3
  <2>2. Len(page[p].events) <= PageLimit
    <3>1. Len(page[p].events) + Len(page[p].past) <= PageLimit /\ PageLimit \in Nat
      BY <1>2, Bounds DEF Bounded
    <3> QED
      BY <2>1, <3>1, Part
  <2>3. e \in Seq(1 .. MaxSent) /\ Len(e) <= PageLimit
    BY <1>3, <2>2, ShownEvents
  <2> QED
    BY <2>3, Bounds
<1> PICK room \in Nat : room = PageLimit - Len(e)
  BY <1>4
<1> PICK below : below = Below(page[p].past, e)
  OBVIOUS
<1>5. below \in Seq(1 .. MaxRows) /\ Len(below) \in Nat /\ Len(below) <= room
  <2>1. below = Cut(page[p].past, room)
    BY DEF Below
  <2>2. /\ below \in Seq(1 .. MaxRows)
        /\ Len(below) = (IF Len(page[p].past) < room THEN Len(page[p].past) ELSE room)
    <3>1. page[p].past \in Seq(1 .. MaxRows) /\ room \in Nat
      BY <1>3
    <3>2. below \in Seq(1 .. MaxRows) /\ IsCut(page[p].past, room, below)
      BY <2>1, <3>1, CutIs
    <3> QED
      BY <3>2 DEF IsCut
  <2>3. Len(page[p].past) \in Nat
    BY <1>3
  <2> QED
    BY <2>2, <2>3
<1>6. /\ new \in Page /\ new.open = page[p].open /\ new.since = page[p].since
      /\ new.inbox = Tail(page[p].inbox) /\ new.events = e
      /\ new.history = page[p].history /\ new.answer = page[p].answer
      /\ new.known = page[p].known /\ new.from = page[p].from /\ new.past = below
  <2>1. new = [page[p] EXCEPT !.inbox = Tail(page[p].inbox), !.events = e, !.past = below]
    BY DEF Pushed
  <2> QED
    BY <1>2, <1>3, <1>4, <1>5, <2>1 DEF Page
<1>7. TInv'
  <2>0. Len(e) + Len(below) <= PageLimit
    <3> PICK x \in Nat, y \in Nat : x = Len(e) /\ y = Len(below)
      BY <1>4, <1>5
    <3>1. y <= PageLimit - x /\ PageLimit \in Nat
      BY <1>4, <1>5
    <3>2. x + y <= PageLimit
      BY <3>1
    <3> QED
      BY <3>2
  <2>1. Bounded(new)
    BY <1>2, <1>6, <2>0 DEF Bounded
  <2> QED
    BY <1>1, <1>6, <2>1, OnePage
<1> QED
  BY <1>1, <1>3, <1>6, <1>7

-----------------------------------------------------------------------------
\* A step of the bot's listeners.
LEMMA ListenersKept ==
    ASSUME TInv, listener' \in Seq(Listener), Len(listener') <= MaxReady, Tables, page' = page
    PROVE  TInv'
<1>1. TypeOK'
  BY DEF TInv, TypeOK, Tables
<1> QED
  BY <1>1, TablesKept DEF TInv

LEMMA OnReadyStep ==
    ASSUME TInv, OnReady, NEW n, n = Len(listener) + 1,
           NEW new, new = [phase |-> "live", inbox |-> <<>>, posted |-> <<>>]
    PROVE  /\ listener' = Append(listener, new) /\ new \in Listener
           /\ DOMAIN listener' = DOMAIN listener \cup {n} /\ listener'[n] = new
           /\ n \notin DOMAIN listener
           /\ \A l \in DOMAIN listener : listener'[l] = listener[l]
           /\ Tables /\ page' = page
           /\ TInv'
<1>1. Len(listener) < MaxReady /\ listener' = Append(listener, new) /\ Tables /\ page' = page
  BY DEF OnReady, Tables
<1>2. new \in Listener
  <2>1. <<>> \in Seq(1 .. MaxSent) /\ <<>> \in Seq((1 .. MaxSent) \X MANAGED_CHANNELS)
    BY EmptySeq
  <2> QED
    BY <2>1 DEF Listener
<1>3. listener \in Seq(Listener) /\ Len(listener) \in Nat
  BY DEF TInv, TypeOK
<1>4. /\ listener' \in Seq(Listener) /\ Len(listener') = n
      /\ DOMAIN listener' = DOMAIN listener \cup {n} /\ listener'[n] = new
      /\ n \notin DOMAIN listener
      /\ \A l \in DOMAIN listener : listener'[l] = listener[l]
  BY <1>1, <1>2, <1>3
<1>5. n <= MaxReady
  BY <1>1, <1>3, Bounds
<1>6. TInv'
  BY <1>1, <1>4, <1>5, ListenersKept
<1> QED
  BY <1>1, <1>2, <1>4, <1>6

\* A listener that is lost keeps what it has posted.
LEMMA LostListener ==
    ASSUME TInv, NEW l \in DOMAIN listener,
           NEW lost, lost = [listener[l] EXCEPT !.phase = "lost", !.inbox = <<>>]
    PROVE  /\ lost \in Listener /\ lost.phase = "lost" /\ lost.inbox = <<>>
           /\ lost.posted = listener[l].posted
<1>1. <<>> \in Seq(1 .. MaxSent) /\ listener[l] \in Listener
  BY EmptySeq DEF TInv, TypeOK
<1> PICK none \in Seq(1 .. MaxSent) : none = <<>>
  BY <1>1
<1>2. lost = [listener[l] EXCEPT !.phase = "lost", !.inbox = none]
  OBVIOUS
<1> QED
  BY <1>1, <1>2 DEF Listener

LEMMA LoseStep ==
    ASSUME TInv, NEW l, LoseSubscription(l),
           NEW lost, lost = [listener[l] EXCEPT !.phase = "lost", !.inbox = <<>>]
    PROVE  /\ l \in DOMAIN listener /\ listener' = [listener EXCEPT ![l] = lost]
           /\ DOMAIN listener' = DOMAIN listener /\ listener'[l] = lost
           /\ \A k \in DOMAIN listener \ {l} : listener'[k] = listener[k]
           /\ Tables /\ page' = page
           /\ TInv'
<1>1. /\ l \in DOMAIN listener /\ listener' = [listener EXCEPT ![l] = lost]
      /\ Tables /\ page' = page
  BY DEF LoseSubscription, Tables
<1>2. lost \in Listener
  BY <1>1, LostListener
<1>3. listener \in Seq(Listener) /\ Len(listener) <= MaxReady /\ l \in 1 .. Len(listener)
  BY <1>1 DEF TInv, TypeOK
<1>4. /\ listener' \in Seq(Listener) /\ Len(listener') = Len(listener)
      /\ DOMAIN listener' = DOMAIN listener /\ listener'[l] = lost
      /\ \A k \in DOMAIN listener \ {l} : listener'[k] = listener[k]
  BY <1>1, <1>2, <1>3
<1>5. TInv'
  BY <1>1, <1>3, <1>4, ListenersKept
<1> QED
  BY <1>1, <1>4, <1>5

LEMMA RestartStep ==
    ASSUME TInv, RestartBot
    PROVE  /\ DOMAIN listener' = DOMAIN listener
           /\ \A l \in DOMAIN listener :
                 listener'[l] = [listener[l] EXCEPT !.phase = "lost", !.inbox = <<>>]
           /\ Tables /\ page' = page
           /\ TInv'
<1> DEFINE ended == [l \in DOMAIN listener |->
                       [listener[l] EXCEPT !.phase = "lost", !.inbox = <<>>]]
<1>1. listener' = ended /\ Tables /\ page' = page
  BY DEF RestartBot, Tables
<1>2. \A l \in DOMAIN listener : ended[l] = [listener[l] EXCEPT !.phase = "lost", !.inbox = <<>>]
  OBVIOUS
<1>3. ended \in [DOMAIN listener -> Listener]
  BY LostListener
<1> HIDE DEF ended
<1>4. listener \in Seq(Listener) /\ Len(listener) <= MaxReady
  BY DEF TInv, TypeOK
<1>5. /\ listener' \in Seq(Listener) /\ Len(listener') = Len(listener)
      /\ DOMAIN listener' = DOMAIN listener
  BY <1>1, <1>3, <1>4, Rewritten
<1>6. TInv'
  BY <1>1, <1>4, <1>5, ListenersKept
<1> QED
  BY <1>1, <1>2, <1>5, <1>6

\* A listener takes the first of what it was told, and posts it or not.
LEMMA HandleStep ==
    ASSUME TInv, NEW l, Handle(l), NEW old, old = listener[l],
           NEW post, post = <<old.inbox[1], Channel(sent[old.inbox[1]])>>
    PROVE  /\ l \in DOMAIN listener /\ 1 \in DOMAIN old.inbox
           /\ \E new \in Listener :
                 /\ listener' = [listener EXCEPT ![l] = new]
                 /\ DOMAIN listener' = DOMAIN listener /\ listener'[l] = new
                 /\ \A k \in DOMAIN listener \ {l} : listener'[k] = listener[k]
                 /\ new.phase = old.phase
                 /\ new.inbox \in Seq(1 .. MaxSent)
                 /\ Len(new.inbox) = Len(old.inbox) - 1
                 /\ \A i \in 1 .. Len(new.inbox) : new.inbox[i] = old.inbox[i + 1]
                 /\ new.posted = old.posted \/ new.posted = Append(old.posted, post)
           /\ Tables /\ page' = page
           /\ TInv'
<1>1. l \in DOMAIN listener /\ 1 \in DOMAIN old.inbox /\ Tables /\ page' = page
  BY DEF Handle, NextToHandle, Tables
<1> PICK k : k = old.inbox[1]
  OBVIOUS
<1> PICK inbox : inbox = RemoveAt(old.inbox, 1)
  OBVIOUS
<1> PICK posted : posted = Append(old.posted, post)
  OBVIOUS
<1>2. \/ listener' = [listener EXCEPT ![l] = [old EXCEPT !.inbox = inbox]]
      \/ listener' = [listener EXCEPT ![l] = [old EXCEPT !.inbox = inbox, !.posted = posted]]
  BY DEF Handle, NextToHandle
<1>3. /\ listener \in Seq(Listener) /\ Len(listener) <= MaxReady /\ l \in 1 .. Len(listener)
      /\ old \in Listener
  BY <1>1 DEF TInv, TypeOK
<1>4. old.inbox \in Seq(1 .. MaxSent) /\ old.posted \in Seq((1 .. MaxSent) \X MANAGED_CHANNELS)
  BY <1>3 DEF Listener
<1>5. /\ inbox \in Seq(1 .. MaxSent) /\ Len(inbox) = Len(old.inbox) - 1
      /\ \A i \in 1 .. Len(inbox) : inbox[i] = old.inbox[i + 1]
  BY <1>1, <1>4, FirstRemoved
<1>6. posted \in Seq((1 .. MaxSent) \X MANAGED_CHANNELS)
  <2>1. k \in 1 .. MaxSent
    <3>1. 1 \in 1 .. Len(old.inbox)
      BY <1>1, <1>4
    <3> QED
      BY <1>4, <3>1, ElementOfSeq
  <2>2. Channel(sent[k]) \in MANAGED_CHANNELS
    BY DEF Channel, MANAGED_CHANNELS
  <2> QED
    BY <1>4, <2>1, <2>2
<1>7. PICK new \in Listener :
         /\ listener' = [listener EXCEPT ![l] = new]
         /\ new.phase = old.phase /\ new.inbox = inbox
         /\ new.posted = old.posted \/ new.posted = posted
  <2>1. CASE listener' = [listener EXCEPT ![l] = [old EXCEPT !.inbox = inbox]]
    <3> PICK new : new = [old EXCEPT !.inbox = inbox]
      OBVIOUS
    <3>1. new \in Listener /\ new.phase = old.phase /\ new.inbox = inbox
            /\ new.posted = old.posted
      BY <1>3, <1>5 DEF Listener
    <3> QED
      BY <2>1, <3>1
  <2>2. CASE listener' = [listener EXCEPT ![l] = [old EXCEPT !.inbox = inbox, !.posted = posted]]
    <3> PICK new : new = [old EXCEPT !.inbox = inbox, !.posted = posted]
      OBVIOUS
    <3>1. new \in Listener /\ new.phase = old.phase /\ new.inbox = inbox
            /\ new.posted = posted
      BY <1>3, <1>5, <1>6 DEF Listener
    <3> QED
      BY <2>2, <3>1
  <2> QED
    BY <1>2, <2>1, <2>2
<1>8. /\ listener' \in Seq(Listener) /\ Len(listener') = Len(listener)
      /\ DOMAIN listener' = DOMAIN listener /\ listener'[l] = new
      /\ \A j \in DOMAIN listener \ {l} : listener'[j] = listener[j]
  BY <1>3, <1>7
<1>9. TInv'
  BY <1>1, <1>3, <1>8, ListenersKept
<1> QED
  BY <1>1, <1>5, <1>7, <1>8, <1>9

LEMMA NextTypes == TInv /\ [Next]_vars => TInv'
<1> SUFFICES ASSUME TInv, [Next]_vars PROVE TInv'
  OBVIOUS
<1>1. CASE UNCHANGED vars
  BY <1>1 DEF vars, TInv, TypeOK, Underway, StepOf, MyRow
<1> QED
  BY <1>1, BeginStep, WriteRowStep, FlushEventStep, AnnounceStep, AnnounceTypeStep, FailStep,
     CommitStep, RiskAlertStep, ConnectStep, DisconnectStep, ReadStep, ShowHistoryStep, ShowStep,
     OnReadyStep, LoseStep,
     RestartStep, HandleStep DEF Next

\* What is stored of requests, pages and listeners is what their steps can make of it.
THEOREM TypeInvariance == Spec => []TInv
<1> QED
  BY InitTypes, NextTypes, PTL DEF Spec

\* A page shows at most its hundred events, and the rest have their types.
THEOREM TypeCorrect == Spec => []TypeOK
<1>1. TInv => TypeOK
  BY DEF TInv
<1> QED
  BY <1>1, TypeInvariance, PTL

-----------------------------------------------------------------------------
(***************************************************************************)
(* The bot posts in the order of the announcements.                        *)
(***************************************************************************)
OneMore(s, n, r) ==
    /\ Rising(r)
    /\ \A i \in DOMAIN r : r[i] = n \/ \E j \in DOMAIN s : r[i] = s[j]
    /\ \E i \in DOMAIN r : r[i] = n
    /\ \A i \in DOMAIN s : i \in DOMAIN r /\ r[i] = s[i]

LEMMA MoreTold ==
    ASSUME NEW s \in Seq(Nat), NEW n \in Nat, Rising(s), \A i \in DOMAIN s : s[i] < n
    PROVE  OneMore(s, n, Append(s, n))
<1> PICK r : r = Append(s, n)
  OBVIOUS
<1>1. /\ r \in Seq(Nat) /\ DOMAIN r = DOMAIN s \cup {Len(s) + 1} /\ r[Len(s) + 1] = n
      /\ \A i \in DOMAIN s : i < Len(s) + 1 /\ r[i] = s[i]
  OBVIOUS
<1>2. Len(s) \in Nat /\ DOMAIN s = 1 .. Len(s)
  OBVIOUS
<1>3. Rising(r)
  BY <1>1, <1>2 DEF Rising
<1> QED
  BY <1>1, <1>3 DEF OneMore

LEMMA Inboxes ==
    ASSUME TypeOK
    PROVE  /\ \A l \in DOMAIN listener : /\ listener[l] \in Listener
                                         /\ listener[l].inbox \in Seq(Nat)
                                         /\ listener[l].inbox \in Seq(1 .. MaxSent)
                                         /\ listener[l].posted \in Seq((1 .. MaxSent) \X MANAGED_CHANNELS)
           /\ \A p \in Pages : page[p].inbox \in Seq(Nat) /\ page[p].events \in Seq(Nat)
<1>1. 1 .. MaxSent \subseteq Nat
  OBVIOUS
<1>2. \A s \in Seq(1 .. MaxSent) : s \in Seq(Nat)
  BY <1>1, SeqMonotonic
<1>3. \A l \in DOMAIN listener : listener[l] \in Listener
  BY DEF TypeOK
<1>4. \A p \in Pages : page[p] \in Page
  BY DEF TypeOK
<1> QED
  BY <1>2, <1>3, <1>4 DEF Listener, Page

LEMMA DeliveryFollows ==
    ASSUME TInv, ListenersFollow, NEW m \in Message, Len(sent) < MaxSent, Delivered(m)
    PROVE  ListenersFollow'
<1> PICK n : n = Len(sent) + 1
  OBVIOUS
<1>1. /\ n \in Nat /\ \A k \in DOMAIN sent : k < n
      /\ DOMAIN sent' = DOMAIN sent \cup {n}
      /\ DOMAIN listener' = DOMAIN listener
      /\ \A l \in DOMAIN listener :
            /\ listener'[l].posted = listener[l].posted
            /\ \/ listener'[l].inbox = listener[l].inbox
               \/ listener'[l].inbox = Append(listener[l].inbox, n)
  <2>1. TypeOK
    BY DEF TInv
  <2>2. /\ n \in Nat /\ \A k \in DOMAIN sent : k < n /\ sent'[k] = sent[k]
        /\ DOMAIN sent' = DOMAIN sent \cup {n}
        /\ DOMAIN listener' = DOMAIN listener
    BY <2>1, Delivery
  <2>3. \A l \in DOMAIN listener :
            /\ listener'[l].posted = listener[l].posted
            /\ \/ listener'[l].inbox = listener[l].inbox
               \/ listener'[l].inbox = Append(listener[l].inbox, n)
    BY <2>1, Delivery
  <2> QED
    BY <2>2, <2>3
<1>2. ASSUME NEW l \in DOMAIN listener PROVE Follows(listener[l])'
  <2> PICK old : old = listener[l]
    OBVIOUS
  <2> PICK new : new = listener'[l]
    OBVIOUS
  <2>1. /\ old \in Listener /\ old.inbox \in Seq(Nat) /\ Follows(old)
        /\ old.posted \in Seq((1 .. MaxSent) \X MANAGED_CHANNELS)
    BY Inboxes DEF TInv, ListenersFollow
  <2>2. CASE new.inbox = old.inbox /\ new.posted = old.posted
    <3>1. DOMAIN sent \subseteq DOMAIN sent'
      BY <1>1
    <3> QED
      BY <2>1, <2>2, <3>1 DEF Follows
  <2>3. CASE new.inbox = Append(old.inbox, n) /\ new.posted = old.posted
    <3>1. new.inbox = Append(old.inbox, n) /\ new.posted = old.posted
      BY <2>3
    <3>2. \A i \in DOMAIN old.inbox : old.inbox[i] \in DOMAIN sent /\ old.inbox[i] < n
      BY <1>1, <2>1 DEF Follows
    <3>3. /\ Rising(new.inbox)
          /\ \A i \in DOMAIN new.inbox : new.inbox[i] = n \/ \E j \in DOMAIN old.inbox : new.inbox[i] = old.inbox[j]
      <4>1. old.inbox \in Seq(Nat) /\ n \in Nat /\ Rising(old.inbox)
        BY <1>1, <2>1 DEF Follows
      <4>2. \A i \in DOMAIN old.inbox : old.inbox[i] < n
        BY <3>2
      <4>3. OneMore(old.inbox, n, new.inbox)
        BY <3>1, <4>1, <4>2, MoreTold
      <4> QED
        BY <4>3 DEF OneMore
    <3>4. \A i \in DOMAIN old.posted : old.posted[i][1] \in DOMAIN sent /\ old.posted[i][1] < n
      BY <1>1, <2>1 DEF Follows
    <3> QED
      BY <1>1, <2>1, <3>1, <3>2, <3>3, <3>4 DEF Follows
  <2> QED
    BY <1>1, <2>2, <2>3
<1> QED
  BY <1>1, <1>2 DEF ListenersFollow

\* One post more.
LEMMA OnePost ==
    ASSUME NEW S, NEW s \in Seq(S), NEW x, NEW n, n = Len(s) + 1, NEW t, t = Append(s, x)
    PROVE  /\ DOMAIN t = DOMAIN s \cup {n} /\ t[n] = x /\ n \in Nat
           /\ \A i \in DOMAIN s : i \in Nat /\ i < n /\ t[i] = s[i]
<1>1. Len(s) \in Nat /\ DOMAIN s = 1 .. Len(s)
  OBVIOUS
<1>2. DOMAIN t = 1 .. n /\ t[n] = x /\ \A i \in 1 .. Len(s) : t[i] = s[i]
  BY <1>1
<1> QED
  BY <1>1, <1>2

LEMMA HandleFollows ==
    ASSUME TInv, ListenersFollow, NEW l, Handle(l)
    PROVE  ListenersFollow'
<1> PICK old : old = listener[l]
  OBVIOUS
<1> PICK post : post = <<old.inbox[1], Channel(sent[old.inbox[1]])>>
  OBVIOUS
<1>1. PICK new \in Listener :
         /\ l \in DOMAIN listener /\ 1 \in DOMAIN old.inbox
         /\ DOMAIN listener' = DOMAIN listener /\ listener'[l] = new
         /\ \A k \in DOMAIN listener \ {l} : listener'[k] = listener[k]
         /\ new.inbox \in Seq(1 .. MaxSent)
         /\ Len(new.inbox) = Len(old.inbox) - 1
         /\ \A i \in 1 .. Len(new.inbox) : new.inbox[i] = old.inbox[i + 1]
         /\ new.posted = old.posted \/ new.posted = Append(old.posted, post)
         /\ sent' = sent
  <2>1. l \in DOMAIN listener /\ 1 \in DOMAIN old.inbox /\ sent' = sent
    BY HandleStep DEF Tables
  <2>2. \E new \in Listener :
           /\ listener' = [listener EXCEPT ![l] = new]
           /\ DOMAIN listener' = DOMAIN listener /\ listener'[l] = new
           /\ \A k \in DOMAIN listener \ {l} : listener'[k] = listener[k]
           /\ new.phase = old.phase
           /\ new.inbox \in Seq(1 .. MaxSent)
           /\ Len(new.inbox) = Len(old.inbox) - 1
           /\ \A i \in 1 .. Len(new.inbox) : new.inbox[i] = old.inbox[i + 1]
           /\ new.posted = old.posted \/ new.posted = Append(old.posted, post)
    BY HandleStep
  <2> QED
    BY <2>1, <2>2
<1>2. /\ old.inbox \in Seq(Nat) /\ Follows(old)
      /\ old.posted \in Seq((1 .. MaxSent) \X MANAGED_CHANNELS)
  BY <1>1, Inboxes DEF TInv, ListenersFollow
<1>3. \A i \in DOMAIN new.inbox : i + 1 \in DOMAIN old.inbox /\ new.inbox[i] = old.inbox[i + 1] /\ i \in Nat
  <2>1. DOMAIN new.inbox = 1 .. Len(new.inbox) /\ DOMAIN old.inbox = 1 .. Len(old.inbox)
          /\ Len(old.inbox) \in Nat
    BY <1>1, <1>2
  <2> QED
    BY <1>1, <2>1
<1>4. Rising(new.inbox) /\ \A i \in DOMAIN new.inbox : new.inbox[i] \in DOMAIN sent /\ old.inbox[1] < new.inbox[i]
  <2>1. \A i \in DOMAIN new.inbox : 1 < i + 1
    <3>1. \A i \in DOMAIN new.inbox : i \in 1 .. Len(new.inbox)
      BY <1>1
    <3> QED
      BY <3>1
  <2>2. \A i, j \in DOMAIN new.inbox : i < j => i + 1 < j + 1
    BY <1>3
  <2>3. Rising(new.inbox)
    BY <1>2, <1>3, <2>2 DEF Follows, Rising
  <2>4. \A i \in DOMAIN new.inbox : new.inbox[i] \in DOMAIN sent /\ old.inbox[1] < new.inbox[i]
    BY <1>1, <1>2, <1>3, <2>1 DEF Follows, Rising
  <2> QED
    BY <2>3, <2>4
<1>5. Follows(new)
  <2>1. CASE new.posted = old.posted
    BY <1>2, <1>3, <1>4, <2>1 DEF Follows
  <2>2. CASE new.posted = Append(old.posted, post)
    <3> PICK n : n = Len(old.posted) + 1
      OBVIOUS
    <3>1. /\ DOMAIN new.posted = DOMAIN old.posted \cup {n} /\ new.posted[n] = post
          /\ \A i \in DOMAIN old.posted : i \in Nat /\ i < n /\ new.posted[i] = old.posted[i]
          /\ n \in Nat
      <4>1. old.posted \in Seq((1 .. MaxSent) \X MANAGED_CHANNELS)
        BY <1>2
      <4>2. new.posted = Append(old.posted, post)
        BY <2>2
      <4> QED
        BY <4>1, <4>2, OnePost
    <3>2. post[1] = old.inbox[1] /\ old.inbox[1] \in DOMAIN sent
      BY <1>1, <1>2 DEF Follows
    <3>3. \A i \in DOMAIN old.posted : /\ old.posted[i][1] < old.inbox[1]
                                       /\ old.posted[i][1] \in DOMAIN sent
      BY <1>1, <1>2 DEF Follows
    <3>4. ASSUME NEW i \in DOMAIN new.posted
          PROVE  /\ new.posted[i][1] \in DOMAIN sent
                 /\ \A j \in DOMAIN new.inbox : new.posted[i][1] < new.inbox[j]
      <4>1. CASE i = n
        <5>1. new.posted[i][1] = old.inbox[1]
          BY <3>1, <3>2, <4>1
        <5> QED
          BY <1>4, <3>2, <5>1
      <4>2. CASE i \in DOMAIN old.posted
        <5>1. new.posted[i] = old.posted[i]
          BY <3>1, <4>2
        <5>2. /\ old.posted[i][1] \in DOMAIN sent
              /\ \A j \in DOMAIN old.inbox : old.posted[i][1] < old.inbox[j]
          BY <1>2, <4>2 DEF Follows
        <5> QED
          BY <1>3, <5>1, <5>2
      <4> QED
        BY <3>1, <4>1, <4>2
    <3>5. ASSUME NEW i \in DOMAIN new.posted, NEW j \in DOMAIN new.posted, i < j
          PROVE  new.posted[i][1] < new.posted[j][1]
      <4>1. i \in DOMAIN old.posted /\ new.posted[i] = old.posted[i]
        BY <3>1, <3>5
      <4>2. CASE j = n
        <5>1. new.posted[j][1] = old.inbox[1]
          BY <3>1, <3>2, <4>2
        <5> QED
          BY <3>3, <4>1, <5>1
      <4>3. CASE j \in DOMAIN old.posted
        <5>1. new.posted[j] = old.posted[j]
          BY <3>1, <4>3
        <5>2. old.posted[i][1] < old.posted[j][1]
          BY <1>2, <3>5, <4>1, <4>3 DEF Follows
        <5> QED
          BY <4>1, <5>1, <5>2
      <4> QED
        BY <3>1, <4>2, <4>3
    <3> QED
      BY <1>4, <3>4, <3>5 DEF Follows
  <2> QED
    BY <1>1, <2>1, <2>2
<1> QED
  BY <1>1, <1>5 DEF ListenersFollow, Follows

LEMMA EmptyFollows ==
    ASSUME NEW new \in Listener, NEW old \in Listener, new.inbox = <<>>,
           new.posted = <<>> \/ (new.posted = old.posted /\ Follows(old))
    PROVE  Follows(new)
<1>1. \A i \in DOMAIN <<>> : FALSE
  OBVIOUS
<1> QED
  BY <1>1 DEF Follows, Rising

LEMMA NextFollows == TInv /\ ListenersFollow /\ [Next]_vars => ListenersFollow'
<1> SUFFICES ASSUME TInv, ListenersFollow, [Next]_vars PROVE ListenersFollow'
  OBVIOUS
<1>1. CASE UNCHANGED <<listener, sent>>
  BY <1>1 DEF ListenersFollow, Follows
<1>2. ASSUME NEW q \in Requests, Announce(q) PROVE ListenersFollow'
  <2> PICK m : m = [type |-> StepOf(q), severity |-> request[q].severity, row |-> MyRow(q)]
    OBVIOUS
  <2>1. Len(sent) < MaxSent /\ m \in Message /\ Delivered(m)
    BY <1>2, AnnounceStep
  <2> QED
    BY <2>1, DeliveryFollows
<1>3. ASSUME RiskAlert PROVE ListenersFollow'
  <2> PICK m : m = [type |-> "soul.risk_alert", severity |-> "critical", row |-> 0]
    OBVIOUS
  <2>1. Len(sent) < MaxSent /\ m \in Message /\ Delivered(m)
    BY <1>3, RiskAlertStep
  <2> QED
    BY <2>1, DeliveryFollows
<1>4. ASSUME OnReady PROVE ListenersFollow'
  <2> PICK n : n = Len(listener) + 1
    OBVIOUS
  <2> PICK new : new = [phase |-> "live", inbox |-> <<>>, posted |-> <<>>]
    OBVIOUS
  <2>1. /\ new \in Listener /\ DOMAIN listener' = DOMAIN listener \cup {n}
        /\ listener'[n] = new /\ \A l \in DOMAIN listener : listener'[l] = listener[l]
        /\ sent' = sent
    BY <1>4, OnReadyStep DEF Tables
  <2>2. Follows(new)
    <3>1. new.inbox = <<>> /\ new.posted = <<>>
      OBVIOUS
    <3> QED
      BY <2>1, <3>1, EmptyFollows
  <2> QED
    BY <2>1, <2>2 DEF ListenersFollow, Follows
<1>5. ASSUME NEW l \in DOMAIN listener,
             NEW lost, lost = [listener[l] EXCEPT !.phase = "lost", !.inbox = <<>>]
      PROVE  Follows(lost)
  <2>1. lost \in Listener /\ lost.inbox = <<>> /\ lost.posted = listener[l].posted
    BY <1>5, LostListener
  <2>2. listener[l] \in Listener /\ Follows(listener[l])
    BY DEF ListenersFollow, TInv, TypeOK
  <2> QED
    BY <2>1, <2>2, EmptyFollows
<1>6. ASSUME NEW l \in 1 .. MaxReady, LoseSubscription(l) PROVE ListenersFollow'
  <2> PICK lost : lost = [listener[l] EXCEPT !.phase = "lost", !.inbox = <<>>]
    OBVIOUS
  <2>1. /\ l \in DOMAIN listener /\ DOMAIN listener' = DOMAIN listener /\ listener'[l] = lost
        /\ \A k \in DOMAIN listener \ {l} : listener'[k] = listener[k]
        /\ sent' = sent
    BY <1>6, LoseStep DEF Tables
  <2>2. Follows(lost)
    BY <1>5, <2>1
  <2> QED
    BY <2>1, <2>2 DEF ListenersFollow, Follows
<1>7. ASSUME RestartBot PROVE ListenersFollow'
  <2>1. /\ DOMAIN listener' = DOMAIN listener /\ sent' = sent
        /\ \A l \in DOMAIN listener :
              listener'[l] = [listener[l] EXCEPT !.phase = "lost", !.inbox = <<>>]
    BY <1>7, RestartStep DEF Tables
  <2>2. \A l \in DOMAIN listener : Follows(listener'[l])
    BY <1>5, <2>1
  <2> QED
    BY <2>1, <2>2 DEF ListenersFollow, Follows
<1> QED
  BY <1>1, <1>2, <1>3, <1>4, <1>6, <1>7, HandleFollows
     DEF Next, vars, Begin, WriteRow, FlushEvent, AnnounceType, Fail, Commit, Connect,
         Disconnect, ReadHistory, ShowHistory, Show

\* However often the bot reconnects, restarts or loses its subscription, no listener posts
\* an event twice or an older one after a newer.
THEOREM PostsInOrder == Spec => []PostsFollowTheBus
<1>1. Init => ListenersFollow
  BY DEF Init, ListenersFollow
<1>2. ListenersFollow => PostsFollowTheBus
  BY DEF ListenersFollow, Follows, PostsFollowTheBus
<1> QED
  BY <1>1, <1>2, TypeInvariance, NextFollows, PTL DEF Spec

-----------------------------------------------------------------------------
(***************************************************************************)
(* The live page.                                                          *)
(***************************************************************************)
LEMMA DeliveryTold ==
    ASSUME TInv, PagesTold, NEW m \in Message, Len(sent) < MaxSent, Delivered(m)
    PROVE  PagesTold'
<1> PICK n : n = Len(sent) + 1
  OBVIOUS
<1>1. /\ n \in Nat /\ \A k \in DOMAIN sent : k < n /\ k \in Nat
      /\ DOMAIN sent' = DOMAIN sent \cup {n}
      /\ \A p \in Pages :
            /\ page'[p].open = page[p].open /\ page'[p].since = page[p].since
            /\ page'[p].events = page[p].events /\ SameHistory(page'[p], page[p])
            /\ page'[p].inbox = IF page[p].open THEN Append(page[p].inbox, n)
                               ELSE page[p].inbox
  <2>1. TypeOK
    BY DEF TInv
  <2>2. /\ n \in Nat /\ \A k \in DOMAIN sent : k < n /\ sent'[k] = sent[k]
        /\ DOMAIN sent' = DOMAIN sent \cup {n}
    BY <2>1, Delivery
  <2>3. \A p \in Pages :
            /\ page'[p].open = page[p].open /\ page'[p].since = page[p].since
            /\ page'[p].events = page[p].events /\ SameHistory(page'[p], page[p])
            /\ page'[p].inbox = IF page[p].open THEN Append(page[p].inbox, n)
                               ELSE page[p].inbox
    BY <2>1, Delivery
  <2>4. \A k \in DOMAIN sent : k \in Nat
    BY <2>1 DEF TypeOK
  <2> QED
    BY <2>2, <2>3, <2>4
<1>2. ASSUME NEW p \in Pages
      PROVE  /\ InOrder(page[p])'
             /\ page'[p].history # "shown" => page'[p].from = 0
             /\ page'[p].open => \A k \in DOMAIN sent' : Told(page'[p], k)
  <2> PICK old : old = page[p]
    OBVIOUS
  <2> PICK new : new = page'[p]
    OBVIOUS
  <2>1. /\ old.inbox \in Seq(Nat) /\ old.events \in Seq(Nat) /\ InOrder(old)
        /\ old.history # "shown" => old.from = 0
        /\ old.open => \A k \in DOMAIN sent : Told(old, k)
    BY Inboxes DEF TInv, PagesTold
  <2>0. new.history = old.history /\ new.from = old.from
    BY <1>1 DEF SameHistory
  <2>2. CASE ~old.open
    <3>1. /\ new.inbox = old.inbox /\ new.events = old.events /\ ~new.open
          /\ DOMAIN sent \subseteq DOMAIN sent'
      BY <1>1, <2>2
    <3> QED
      BY <2>0, <2>1, <3>1 DEF InOrder
  <2>3. CASE old.open
    <3>1. /\ new.inbox = Append(old.inbox, n) /\ new.events = old.events
          /\ new.since = old.since
      BY <1>1, <2>3
    <3>2. \A i \in DOMAIN old.inbox : old.inbox[i] \in DOMAIN sent /\ old.inbox[i] < n
      BY <1>1, <2>1 DEF InOrder
    <3>3. /\ Rising(new.inbox)
          /\ \A i \in DOMAIN new.inbox : new.inbox[i] = n \/ \E j \in DOMAIN old.inbox : new.inbox[i] = old.inbox[j]
          /\ \E i \in DOMAIN new.inbox : new.inbox[i] = n
          /\ \A i \in DOMAIN old.inbox : i \in DOMAIN new.inbox /\ new.inbox[i] = old.inbox[i]
      <4>1. old.inbox \in Seq(Nat) /\ n \in Nat /\ Rising(old.inbox)
        BY <1>1, <2>1 DEF InOrder
      <4>2. \A i \in DOMAIN old.inbox : old.inbox[i] < n
        BY <3>2
      <4>3. OneMore(old.inbox, n, new.inbox)
        BY <3>1, <4>1, <4>2, MoreTold
      <4> QED
        BY <4>3 DEF OneMore
    <3>4. \A i \in DOMAIN old.events : old.events[i] \in DOMAIN sent /\ old.events[i] < n
      BY <1>1, <2>1 DEF InOrder
    <3>5. InOrder(new)'
      <4>1. \A i \in DOMAIN new.inbox : new.inbox[i] \in DOMAIN sent'
        BY <1>1, <3>2, <3>3
      <4>2. \A i \in DOMAIN new.events : new.events[i] \in DOMAIN sent' /\ new.events[i] < n
        BY <1>1, <3>1, <3>4
      <4>3. \A i \in DOMAIN new.events, j \in DOMAIN new.inbox : new.events[i] < new.inbox[j]
        <5> SUFFICES ASSUME NEW i \in DOMAIN new.events, NEW j \in DOMAIN new.inbox
                     PROVE  new.events[i] < new.inbox[j]
          OBVIOUS
        <5>1. CASE new.inbox[j] = n
          BY <4>2, <5>1
        <5>2. CASE \E e \in DOMAIN old.inbox : new.inbox[j] = old.inbox[e]
          BY <2>1, <3>1, <5>2 DEF InOrder
        <5> QED
          BY <3>3, <5>1, <5>2
      <4>4. Falling(new.events)
        BY <2>1, <3>1 DEF InOrder
      <4> QED
        BY <3>3, <4>1, <4>2, <4>3, <4>4 DEF InOrder
    <3>6. ASSUME NEW k \in DOMAIN sent' PROVE Told(new, k)
      <4>1. CASE k = n
        BY <3>3, <4>1 DEF Told
      <4>2. CASE k \in DOMAIN sent
        <5>1. Told(old, k)
          BY <2>1, <2>3, <4>2
        <5>2. ASSUME NEW j \in DOMAIN old.inbox, old.inbox[j] = k PROVE Told(new, k)
          BY <3>3, <5>2 DEF Told
        <5> QED
          BY <2>0, <3>1, <5>1, <5>2 DEF Told
      <4> QED
        BY <1>1, <4>1, <4>2
    <3> QED
      BY <2>0, <2>1, <3>5, <3>6
  <2> QED
    BY <2>2, <2>3
<1> QED
  BY <1>2 DEF PagesTold

LEMMA ShowTold ==
    ASSUME TInv, PagesTold, NEW p \in Pages, Show(p)
    PROVE  PagesTold'
<1> PICK old : old = page[p]
  OBVIOUS
<1> PICK h : h = Head(page[p].inbox)
  OBVIOUS
<1> PICK new : new = page'[p]
  OBVIOUS
<1>1. /\ old.inbox # <<>> /\ new.open = old.open /\ new.since = old.since
      /\ new.history = old.history /\ new.from = old.from
      /\ new.inbox = Tail(old.inbox) /\ new.events = Shown(old.events, h)
      /\ sent' = sent /\ \A b \in Pages \ {p} : page'[b] = page[b]
  <2> PICK e : e = Shown(page[p].events, h)
    OBVIOUS
  <2> PICK v : v = Pushed(p, e)
    OBVIOUS
  <2>1. /\ page[p].inbox # <<>> /\ page' = [page EXCEPT ![p] = v] /\ v.open = page[p].open
        /\ v.since = page[p].since /\ v.inbox = Tail(page[p].inbox)
        /\ v.history = page[p].history /\ v.from = page[p].from
        /\ v.events = e /\ Tables
    BY ShowStep
  <2>2. page'[p] = v /\ \A b \in Pages \ {p} : page'[b] = page[b]
    BY <2>1 DEF TInv, TypeOK
  <2> QED
    BY <2>1, <2>2 DEF Tables
<1>2. /\ old.inbox \in Seq(Nat) /\ old.events \in Seq(Nat) /\ InOrder(old)
      /\ Len(old.events) <= PageLimit
  <2>1. old.inbox \in Seq(Nat) /\ old.events \in Seq(Nat) /\ InOrder(old)
    BY Inboxes DEF TInv, PagesTold
  <2>2. old \in Page /\ Bounded(old)
    BY PageIs
  <2>3. Len(old.events) \in Nat /\ Len(old.past) \in Nat
    BY <2>1, <2>2 DEF Page
  <2>4. Len(old.events) + Len(old.past) <= PageLimit /\ PageLimit \in Nat
    BY <2>2, Bounds DEF Bounded
  <2> QED
    BY <2>1, <2>3, <2>4, Part
<1>3. /\ h = old.inbox[1] /\ 1 \in DOMAIN old.inbox
      /\ \A i \in DOMAIN new.inbox : /\ i \in Nat /\ i + 1 \in DOMAIN old.inbox /\ 1 < i + 1
                                     /\ new.inbox[i] = old.inbox[i + 1]
      /\ \A i \in DOMAIN old.inbox : i # 1 => \E j \in DOMAIN new.inbox : new.inbox[j] = old.inbox[i]
  <2>1. /\ Len(old.inbox) \in Nat \ {0} /\ DOMAIN old.inbox = 1 .. Len(old.inbox)
    BY <1>1, <1>2, EmptySeq
  <2>2. /\ DOMAIN new.inbox = 1 .. Len(old.inbox) - 1
        /\ \A i \in 1 .. Len(old.inbox) - 1 : new.inbox[i] = old.inbox[i + 1]
    BY <1>1, <1>2, <2>1
  <2>3. h = old.inbox[1] /\ 1 \in DOMAIN old.inbox
    BY <1>1, <1>2, <2>1
  <2>4. ASSUME NEW i \in DOMAIN old.inbox, i # 1
        PROVE  \E j \in DOMAIN new.inbox : new.inbox[j] = old.inbox[i]
    <3>1. i - 1 \in 1 .. Len(old.inbox) - 1 /\ (i - 1) + 1 = i
      BY <2>1, <2>4
    <3> QED
      BY <2>2, <3>1
  <2> QED
    BY <2>1, <2>2, <2>3, <2>4
<1> PICK z : z = Len(new.events)
  OBVIOUS
<1>4. /\ z = (IF Len(old.events) < PageLimit THEN Len(old.events) + 1 ELSE PageLimit)
      /\ new.events[1] = h /\ \A i \in 2 .. z : new.events[i] = old.events[i - 1]
      /\ DOMAIN new.events = 1 .. z /\ z \in Nat /\ DOMAIN old.events = 1 .. Len(old.events)
      /\ Len(old.events) \in Nat /\ PageLimit \in Nat /\ PageLimit >= 1
  <2>1. h \in Nat
    BY <1>2, <1>3
  <2>2. /\ new.events \in Seq(Nat)
        /\ Len(new.events) = (IF Len(old.events) < PageLimit THEN Len(old.events) + 1 ELSE PageLimit)
        /\ new.events[1] = h /\ \A i \in 2 .. Len(new.events) : new.events[i] = old.events[i - 1]
    <3>1. new.events \in Seq(Nat) /\ IsShown(old.events, h, new.events)
      BY <1>1, <1>2, <2>1, ShownEvents
    <3> QED
      BY <3>1 DEF IsShown
  <2>3. z = (IF Len(old.events) < PageLimit THEN Len(old.events) + 1 ELSE PageLimit)
        /\ new.events[1] = h /\ \A i \in 2 .. z : new.events[i] = old.events[i - 1]
    BY <2>2
  <2>4. DOMAIN new.events = 1 .. z /\ z \in Nat
    BY <2>2
  <2>5. Len(old.events) \in Nat /\ DOMAIN old.events = 1 .. Len(old.events)
    BY <1>2
  <2> QED
    BY <2>3, <2>4, <2>5, Bounds
<1>5. /\ \A i \in DOMAIN new.events : i = 1 \/ i - 1 \in DOMAIN old.events
      /\ h \in Nat /\ \A i \in DOMAIN old.events : old.events[i] \in Nat /\ old.events[i] < h
      /\ h \in DOMAIN sent
  <2>1. \A i \in DOMAIN new.events : i = 1 \/ i - 1 \in DOMAIN old.events
    BY <1>4
  <2> QED
    BY <1>2, <1>3, <2>1 DEF InOrder
<1>6. InOrder(new)
  <2>1. Rising(new.inbox) /\ \A i \in DOMAIN new.inbox : new.inbox[i] \in DOMAIN sent /\ h < new.inbox[i]
    <3>1. \A i, j \in DOMAIN new.inbox : i < j => i + 1 < j + 1
      BY <1>3
    <3>2. Rising(new.inbox)
      BY <1>2, <1>3, <3>1 DEF InOrder, Rising
    <3> QED
      BY <1>2, <1>3, <3>2 DEF InOrder, Rising
  <2>2. \A i \in DOMAIN new.events : new.events[i] = h \/ \E j \in DOMAIN old.events : new.events[i] = old.events[j]
    BY <1>4, <1>5
  <2>3. Falling(new.events)
    <3> SUFFICES ASSUME NEW i \in 1 .. z, NEW j \in 1 .. z, i < j PROVE new.events[i] > new.events[j]
      BY <1>4 DEF Falling
    <3>1. j \in 2 .. z /\ new.events[j] = old.events[j - 1] /\ j - 1 \in DOMAIN old.events
      BY <1>4, <1>5
    <3>2. CASE i = 1
      BY <1>4, <1>5, <3>1, <3>2
    <3>3. CASE i # 1
      <4>1. i \in 2 .. z /\ new.events[i] = old.events[i - 1] /\ i - 1 \in DOMAIN old.events
              /\ i - 1 < j - 1
        BY <1>4, <1>5, <3>3
      <4> QED
        BY <1>2, <3>1, <4>1 DEF InOrder, Falling
    <3> QED
      BY <3>2, <3>3
  <2>4. \A i \in DOMAIN new.events : new.events[i] \in DOMAIN sent
    BY <1>2, <1>5, <2>2 DEF InOrder
  <2>5. \A i \in DOMAIN new.events, j \in DOMAIN new.inbox : new.events[i] < new.inbox[j]
    <3> SUFFICES ASSUME NEW i \in DOMAIN new.events, NEW j \in DOMAIN new.inbox
                 PROVE  new.events[i] < new.inbox[j]
      OBVIOUS
    <3>1. CASE new.events[i] = h
      BY <2>1, <3>1
    <3>2. CASE \E e \in DOMAIN old.events : new.events[i] = old.events[e]
      BY <1>2, <1>3, <3>2 DEF InOrder
    <3> QED
      BY <2>2, <3>1, <3>2
  <2> QED
    BY <2>1, <2>3, <2>4, <2>5 DEF InOrder
<1>7. ASSUME NEW k \in DOMAIN sent, Told(old, k) PROVE Told(new, k)
  <2>1. CASE k <= old.since \/ k <= old.from
    BY <1>1, <2>1 DEF Told
  <2>2. CASE \E j \in DOMAIN old.inbox : old.inbox[j] = k
    <3>1. PICK j \in DOMAIN old.inbox : old.inbox[j] = k
      BY <2>2
    <3>2. CASE j = 1
      <4>1. 1 \in DOMAIN new.events /\ new.events[1] = k
        BY <1>3, <1>4, <3>1, <3>2
      <4> QED
        BY <4>1 DEF Told
    <3> QED
      BY <1>3, <3>1, <3>2 DEF Told
  <2>3. CASE \E j \in DOMAIN old.events : old.events[j] = k
    <3>1. PICK j \in DOMAIN old.events : old.events[j] = k
      BY <2>3
    <3>2. CASE j + 1 <= z
      <4>1. j + 1 \in 2 .. z /\ (j + 1) - 1 = j
        BY <1>4, <3>2
      <4>2. new.events[j + 1] = old.events[(j + 1) - 1]
        BY <1>4, <4>1
      <4>3. j + 1 \in DOMAIN new.events
        BY <1>4, <4>1
      <4>4. new.events[j + 1] = k
        BY <3>1, <4>1, <4>2
      <4> QED
        BY <4>3, <4>4 DEF Told
    <3>3. CASE ~(j + 1 <= z)
      <4>1. z = PageLimit /\ j = PageLimit
        BY <1>2, <1>4, <3>3
      <4>2. ASSUME NEW i \in DOMAIN new.events PROVE new.events[i] > k
        <5>1. CASE i = 1
          BY <1>4, <1>5, <3>1, <5>1
        <5>2. CASE i # 1
          <6>1. i \in 2 .. z /\ i - 1 \in DOMAIN old.events /\ i - 1 < j
            BY <1>4, <1>5, <4>1, <5>2
          <6>2. new.events[i] = old.events[i - 1]
            BY <1>4, <6>1
          <6> QED
            BY <1>2, <3>1, <6>1, <6>2 DEF InOrder, Falling
        <5> QED
          BY <5>1, <5>2
      <4> QED
        BY <4>1, <4>2 DEF Told
    <3> QED
      BY <1>4, <3>2, <3>3
  <2>4. CASE Len(old.events) = PageLimit /\ \A j \in DOMAIN old.events : old.events[j] > k
    <3>1. z = PageLimit /\ 1 \in DOMAIN old.events
      BY <1>4, <2>4
    <3>2. k \in Nat
      BY DEF TInv, TypeOK
    <3>3. h > k
      BY <1>5, <2>4, <3>1, <3>2
    <3>4. ASSUME NEW i \in DOMAIN new.events PROVE new.events[i] > k
      <4>1. CASE i = 1
        BY <1>4, <3>3, <4>1
      <4>2. CASE i # 1
        <5>1. i \in 2 .. z /\ i - 1 \in DOMAIN old.events
          BY <1>4, <1>5, <4>2
        <5> QED
          BY <1>4, <2>4, <5>1
      <4> QED
        BY <4>1, <4>2
    <3> QED
      BY <3>1, <3>4 DEF Told
  <2> QED
    BY <1>7, <2>1, <2>2, <2>3, <2>4 DEF Told
<1>8. /\ old.history # "shown" => old.from = 0
      /\ old.open => \A k \in DOMAIN sent : Told(old, k)
  BY DEF PagesTold
<1> QED
  BY <1>1, <1>6, <1>7, <1>8 DEF PagesTold, InOrder

\* The history takes the place of what the page was told of so far.
LEMMA HistoryTold ==
    ASSUME TInv, PagesTold, NEW p \in Pages, ShowHistory(p)
    PROVE  PagesTold'
<1> PICK old : old = page[p]
  OBVIOUS
<1> PICK new : new = page'[p]
  OBVIOUS
<1>1. /\ old.history = "read" /\ new.open = old.open /\ new.since = old.since
      /\ new.inbox = old.inbox /\ new.events = <<>> /\ new.history = "shown"
      /\ new.from = UpTo(p) /\ UpTo(p) \in Nat
      /\ sent' = sent /\ \A b \in Pages \ {p} : page'[b] = page[b]
  <2> PICK v : v = HistoryShown(p)
    OBVIOUS
  <2>1. /\ page[p].history = "read" /\ page' = [page EXCEPT ![p] = v]
        /\ v.open = page[p].open /\ v.since = page[p].since
        /\ v.inbox = page[p].inbox /\ v.events = <<>> /\ v.history = "shown"
        /\ v.from = UpTo(p) /\ UpTo(p) \in Nat /\ Tables
    BY ShowHistoryStep
  <2>2. page'[p] = v /\ \A b \in Pages \ {p} : page'[b] = page[b]
    BY <2>1 DEF TInv, TypeOK
  <2> QED
    BY <2>1, <2>2 DEF Tables
<1>2. /\ old.inbox \in Seq(Nat) /\ old.events \in Seq(Nat) /\ InOrder(old)
      /\ old.from = 0 /\ (old.open => \A k \in DOMAIN sent : Told(old, k))
  BY <1>1, Inboxes DEF TInv, PagesTold
<1>3. Len(sent) \in Nat /\ \A k \in DOMAIN sent : k \in Nat /\ k >= 1 /\ k <= Len(sent)
  BY DEF TInv, TypeOK
<1>4. InOrder(new)
  <2>1. DOMAIN new.events = {}
    BY <1>1
  <2> QED
    BY <1>1, <1>2, <2>1 DEF InOrder, Falling
<1>5. ASSUME NEW i \in DOMAIN old.events PROVE old.events[i] <= UpTo(p)
  <2>1. old.events[i] \in DOMAIN sent
    BY <1>2 DEF InOrder
  <2>2. CASE old.inbox = <<>>
    BY <1>3, <2>1, <2>2 DEF UpTo
  <2>3. CASE old.inbox # <<>>
    <3>1. 1 \in DOMAIN old.inbox /\ Head(old.inbox) = old.inbox[1] /\ old.inbox[1] \in Nat
      BY <1>2, <2>3
    <3>2. old.events[i] < old.inbox[1] /\ UpTo(p) = old.inbox[1] - 1
      BY <1>2, <2>3, <3>1 DEF InOrder, UpTo
    <3> QED
      BY <1>3, <2>1, <3>1, <3>2
  <2> QED
    BY <2>2, <2>3
<1>6. ASSUME NEW k \in DOMAIN sent, Told(old, k) PROVE Told(new, k)
  <2>1. CASE k <= old.since
    BY <1>1, <2>1 DEF Told
  <2>2. CASE k <= old.from
    BY <1>2, <1>3, <2>2
  <2>3. CASE \E j \in DOMAIN old.inbox : old.inbox[j] = k
    BY <1>1, <2>3 DEF Told
  <2>4. CASE \E j \in DOMAIN old.events : old.events[j] = k
    BY <1>1, <1>5, <2>4 DEF Told
  <2>5. CASE Len(old.events) = PageLimit /\ \A j \in DOMAIN old.events : old.events[j] > k
    <3>1. 1 \in DOMAIN old.events
      BY <1>2, <2>5, Bounds
    <3>2. old.events[1] > k /\ old.events[1] <= UpTo(p) /\ old.events[1] \in Nat
      BY <1>2, <1>5, <2>5, <3>1
    <3>3. k <= UpTo(p)
      BY <1>1, <1>3, <3>2
    <3> QED
      BY <1>1, <3>3 DEF Told
  <2> QED
    BY <1>6, <2>1, <2>2, <2>3, <2>4, <2>5 DEF Told
<1> QED
  BY <1>1, <1>2, <1>4, <1>6 DEF PagesTold, InOrder

\* A page that is given an answer, or loses or finds its connection, shows what it did.
Unmoved(p, new) ==
    /\ page' = [page EXCEPT ![p] = new] /\ sent' = sent /\ new.events = page[p].events
    /\ new.inbox = page[p].inbox \/ new.inbox = <<>>
    /\ new.from = page[p].from /\ (new.history = "shown" \/ page[p].history # "shown")
    /\ new.open => \A k \in DOMAIN sent : Told(new, k)

LEMMA OtherTold ==
    ASSUME TInv, PagesTold, NEW p \in Pages, NEW new, Unmoved(p, new)
    PROVE  PagesTold'
<1>0. /\ page' = [page EXCEPT ![p] = new] /\ sent' = sent /\ new.events = page[p].events
      /\ new.inbox = page[p].inbox \/ new.inbox = <<>>
      /\ new.from = page[p].from /\ (new.history = "shown" \/ page[p].history # "shown")
      /\ new.open => \A k \in DOMAIN sent : Told(new, k)
  BY DEF Unmoved
<1>1. page'[p] = new /\ \A b \in Pages \ {p} : page'[b] = page[b]
  BY <1>0 DEF TInv, TypeOK
<1>2. InOrder(new)
  <2>1. CASE new.inbox = page[p].inbox
    BY <1>0, <2>1 DEF PagesTold, InOrder
  <2>2. CASE new.inbox = <<>>
    <3>1. DOMAIN new.inbox = {}
      BY <2>2
    <3> QED
      BY <1>0, <3>1 DEF PagesTold, InOrder, Rising
  <2> QED
    BY <1>0, <2>1, <2>2
<1>3. new.history # "shown" => new.from = 0
  BY <1>0 DEF PagesTold
<1> QED
  BY <1>0, <1>1, <1>2, <1>3 DEF PagesTold, InOrder

LEMMA NextTold == TInv /\ PagesTold /\ [Next]_vars => PagesTold'
<1> SUFFICES ASSUME TInv, PagesTold, [Next]_vars PROVE PagesTold'
  OBVIOUS
<1>1. CASE UNCHANGED <<page, sent>>
  BY <1>1 DEF PagesTold, InOrder
<1>2. ASSUME NEW q \in Requests, Announce(q) PROVE PagesTold'
  <2> PICK m : m = [type |-> StepOf(q), severity |-> request[q].severity, row |-> MyRow(q)]
    OBVIOUS
  <2>1. Len(sent) < MaxSent /\ m \in Message /\ Delivered(m)
    BY <1>2, AnnounceStep
  <2> QED
    BY <2>1, DeliveryTold
<1>3. ASSUME RiskAlert PROVE PagesTold'
  <2> PICK m : m = [type |-> "soul.risk_alert", severity |-> "critical", row |-> 0]
    OBVIOUS
  <2>1. Len(sent) < MaxSent /\ m \in Message /\ Delivered(m)
    BY <1>3, RiskAlertStep
  <2> QED
    BY <2>1, DeliveryTold
<1>4. ASSUME NEW p \in Pages, Connect(p) PROVE PagesTold'
  <2> PICK new : new = [page[p] EXCEPT !.open = TRUE, !.since = Len(sent)]
    OBVIOUS
  <2>1. /\ new.since = Len(sent) /\ new.inbox = page[p].inbox /\ new.events = page[p].events
        /\ SameHistory(new, page[p]) /\ Tables /\ page' = [page EXCEPT ![p] = new]
    BY <1>4, ConnectStep
  <2>2. \A k \in DOMAIN sent : k <= Len(sent)
    BY DEF TInv, TypeOK
  <2>3. \A k \in DOMAIN sent : Told(new, k)
    BY <2>1, <2>2 DEF Told
  <2>4. Unmoved(p, new)
    BY <2>1, <2>3 DEF Unmoved, SameHistory, Tables
  <2> QED
    BY <2>4, OtherTold
<1>5. ASSUME NEW p \in Pages, Disconnect(p) PROVE PagesTold'
  <2> PICK new : new = [page[p] EXCEPT !.open = FALSE, !.inbox = <<>>]
    OBVIOUS
  <2>1. /\ ~new.open /\ new.inbox = <<>> /\ new.events = page[p].events
        /\ SameHistory(new, page[p]) /\ Tables /\ page' = [page EXCEPT ![p] = new]
    BY <1>5, DisconnectStep
  <2>2. Unmoved(p, new)
    BY <2>1 DEF Unmoved, SameHistory, Tables
  <2> QED
    BY <2>2, OtherTold
<1>6. ASSUME NEW p \in Pages, ReadHistory(p) PROVE PagesTold'
  <2>1. PICK answer \in Answers, new \in Page :
          /\ page[p].history = "asked" /\ page' = [page EXCEPT ![p] = new]
          /\ IsGiven(p, answer, new) /\ Tables
    BY <1>6, ReadStep
  <2>2. new.open => \A k \in DOMAIN sent : Told(new, k)
    BY <2>1 DEF PagesTold, Told, IsGiven
  <2>3. Unmoved(p, new)
    BY <2>1, <2>2 DEF Unmoved, IsGiven, Tables
  <2> QED
    BY <2>3, OtherTold
<1> QED
  BY <1>1, <1>2, <1>3, <1>4, <1>5, <1>6, ShowTold, HistoryTold
     DEF Next, vars, Begin, WriteRow, FlushEvent, AnnounceType, Fail, Commit, OnReady,
         LoseSubscription, RestartBot, Handle

LEMMA Smaller ==
    ASSUME NEW a \in Nat, NEW b \in Nat, NEW c \in Nat, NEW d \in Nat, b < c - d, a <= d
    PROVE  a + b # c
OBVIOUS

LEMMA ShowKept ==
    ASSUME TInv, HistoryKept, NEW p \in Pages, Show(p)
    PROVE  HistoryKept'
<1> PICK old : old = page[p]
  OBVIOUS
<1> PICK h : h = Head(page[p].inbox)
  OBVIOUS
<1> PICK e : e = Shown(page[p].events, h)
  OBVIOUS
<1> PICK new : new = Pushed(p, e)
  OBVIOUS
<1> PICK room : room = PageLimit - Len(e)
  OBVIOUS
<1>1. /\ page' = [page EXCEPT ![p] = new] /\ new.events = e
      /\ new.history = old.history /\ new.answer = old.answer /\ new.known = old.known
      /\ new.past = Below(old.past, e) /\ h \in 1 .. MaxSent /\ room \in Nat
  BY ShowStep
<1>2. page'[p] = new /\ \A b \in Pages \ {p} : page'[b] = page[b]
  BY <1>1 DEF TInv, TypeOK
<1>3. /\ old.past \in Seq(1 .. MaxRows) /\ old.events \in Seq(1 .. MaxSent)
      /\ Len(old.events) + Len(old.past) <= PageLimit
  <2>1. old \in Page /\ Bounded(old)
    BY PageIs
  <2> QED
    BY <2>1 DEF Page, Bounded
<1> PICK a \in Nat, c \in Nat : a = Len(old.events) /\ c = Len(old.past)
  BY <1>3
<1>4. a + c <= PageLimit /\ PageLimit \in Nat /\ a <= PageLimit
  <2>1. a + c <= PageLimit /\ PageLimit \in Nat
    BY <1>3, Bounds
  <2> QED
    BY <2>1, Part
<1>5. Len(e) = (IF a < PageLimit THEN a + 1 ELSE PageLimit)
  <2>1. IsShown(old.events, h, e)
    BY <1>1, <1>3, <1>4, ShownEvents
  <2> QED
    BY <2>1 DEF IsShown
<1>6. /\ Len(new.past) = (IF c < room THEN c ELSE room)
      /\ \A i \in 1 .. Len(new.past) : new.past[i] = old.past[i]
  <2>1. new.past = Cut(old.past, room)
    BY <1>1 DEF Below
  <2>2. IsCut(old.past, room, new.past)
    BY <1>1, <1>3, <2>1, CutIs
  <2> QED
    BY <2>2 DEF IsCut
<1>7. new.past \in Seq(1 .. MaxRows)
  <2>1. new.past = Cut(old.past, room)
    BY <1>1 DEF Below
  <2> QED
    BY <1>1, <1>3, <2>1, CutIs
<1>8. CASE c < room
  <2>1. a + c # PageLimit /\ Len(new.past) = c
    <3> PICK x \in Nat : x = Len(e)
      BY <1>4, <1>5
    <3>1. c < PageLimit - x /\ a <= x /\ PageLimit \in Nat
      BY <1>4, <1>5, <1>8
    <3>2. a + c # PageLimit
      BY <3>1, Smaller
    <3>3. Len(new.past) = c
      BY <1>6, <1>8
    <3> QED
      BY <3>2, <3>3
  <2>2. DOMAIN new.past = 1 .. c /\ DOMAIN old.past = 1 .. c
    BY <1>3, <1>7, <2>1
  <2>3. \A i : Listed(old.past, i) => Listed(new.past, i)
    BY <1>6, <2>1, <2>2 DEF Listed
  <2>4. Kept(new)
    BY <1>1, <2>1, <2>3 DEF HistoryKept, Kept
  <2> QED
    BY <1>2, <2>4 DEF HistoryKept
<1>9. CASE ~(c < room)
  <2>1. Len(new.past) = room
    BY <1>6, <1>9
  <2>2. Len(e) + room = PageLimit
    BY <1>4, <1>5
  <2>3. Len(new.events) + Len(new.past) = PageLimit
    BY <1>1, <2>1, <2>2
  <2>4. Kept(new)
    BY <1>1, <2>3 DEF HistoryKept, Kept
  <2> QED
    BY <1>2, <2>4 DEF HistoryKept
<1> QED
  BY <1>8, <1>9

LEMMA ReadKept ==
    ASSUME TInv, HistoryKept, NEW p \in Pages, ReadHistory(p)
    PROVE  HistoryKept'
<1>1. PICK answer \in Answers, new \in Page :
        page' = [page EXCEPT ![p] = new] /\ IsGiven(p, answer, new)
  BY ReadStep
<1>2. page'[p] = new /\ \A b \in Pages \ {p} : page'[b] = page[b]
  BY <1>1 DEF TInv, TypeOK
<1>3. Len(answer) = PageLimit \/ Range(answer) = Saved
  BY Zenon DEF Answers
<1>4. ASSUME Range(answer) = Saved, NEW i \in Saved PROVE Listed(answer, i)
  BY <1>4 DEF Range, Listed
<1>5. Kept(new)
  BY <1>1, <1>3, <1>4 DEF Kept, IsGiven
<1> QED
  BY <1>2, <1>5 DEF HistoryKept

LEMMA ShowHistoryKept ==
    ASSUME TInv, HistoryKept, NEW p \in Pages, ShowHistory(p)
    PROVE  HistoryKept'
<1> PICK new : new = HistoryShown(p)
  OBVIOUS
<1>1. /\ page[p].history = "read" /\ page' = [page EXCEPT ![p] = new]
      /\ new.events = <<>> /\ new.history = "shown"
      /\ new.past = page[p].answer /\ new.known = page[p].known
  BY ShowHistoryStep
<1>2. page'[p] = new /\ \A b \in Pages \ {p} : page'[b] = page[b]
  BY <1>1 DEF TInv, TypeOK
<1>3. Len(new.events) + Len(new.past) = Len(page[p].answer)
  <2>1. page[p].answer \in Seq(1 .. MaxRows)
    BY PageIs DEF Page
  <2> QED
    BY <1>1, <2>1
<1>4. Kept(new)
  BY <1>1, <1>3 DEF HistoryKept, Kept
<1> QED
  BY <1>2, <1>4 DEF HistoryKept

\* A page whose list and history stay keeps what it has.
LEMMA SameKept ==
    ASSUME HistoryKept, \A p \in Pages : /\ page'[p].events = page[p].events
                                         /\ SameHistory(page'[p], page[p])
    PROVE  HistoryKept'
<1> SUFFICES ASSUME NEW p \in Pages PROVE Kept(page'[p])
  BY DEF HistoryKept
<1>1. Kept(page[p])
  BY DEF HistoryKept
<1> QED
  BY <1>1 DEF Kept, SameHistory

LEMMA NextKept == TInv /\ HistoryKept /\ [Next]_vars => HistoryKept'
<1> SUFFICES ASSUME TInv, HistoryKept, [Next]_vars PROVE HistoryKept'
  OBVIOUS
<1>1. CASE page' = page
  BY <1>1 DEF HistoryKept
<1>2. ASSUME NEW m \in Message, Len(sent) < MaxSent, Delivered(m) PROVE HistoryKept'
  <2>1. TypeOK
    BY DEF TInv
  <2>2. \A p \in Pages : page'[p].events = page[p].events /\ SameHistory(page'[p], page[p])
    BY <1>2, <2>1, Delivery
  <2> QED
    BY <2>2, SameKept
<1>3. ASSUME NEW q \in Requests, Announce(q) PROVE HistoryKept'
  <2> PICK m : m = [type |-> StepOf(q), severity |-> request[q].severity, row |-> MyRow(q)]
    OBVIOUS
  <2>1. Len(sent) < MaxSent /\ m \in Message /\ Delivered(m)
    BY <1>3, AnnounceStep
  <2> QED
    BY <1>2, <2>1
<1>4. ASSUME RiskAlert PROVE HistoryKept'
  <2> PICK m : m = [type |-> "soul.risk_alert", severity |-> "critical", row |-> 0]
    OBVIOUS
  <2>1. Len(sent) < MaxSent /\ m \in Message /\ Delivered(m)
    BY <1>4, RiskAlertStep
  <2> QED
    BY <1>2, <2>1
<1>5. ASSUME NEW p \in Pages, NEW new, page' = [page EXCEPT ![p] = new],
             new.events = page[p].events, SameHistory(new, page[p])
      PROVE  HistoryKept'
  <2>1. page'[p] = new /\ \A b \in Pages \ {p} : page'[b] = page[b]
    BY <1>5 DEF TInv, TypeOK
  <2>2. \A b \in Pages : page'[b].events = page[b].events /\ SameHistory(page'[b], page[b])
    BY <1>5, <2>1 DEF SameHistory
  <2> QED
    BY <2>2, SameKept
<1>6. ASSUME NEW p \in Pages, Connect(p) PROVE HistoryKept'
  <2> PICK new : new = [page[p] EXCEPT !.open = TRUE, !.since = Len(sent)]
    OBVIOUS
  <2>1. /\ new.events = page[p].events /\ SameHistory(new, page[p])
        /\ page' = [page EXCEPT ![p] = new]
    BY <1>6, ConnectStep
  <2> QED
    BY <1>5, <2>1
<1>7. ASSUME NEW p \in Pages, Disconnect(p) PROVE HistoryKept'
  <2> PICK new : new = [page[p] EXCEPT !.open = FALSE, !.inbox = <<>>]
    OBVIOUS
  <2>1. /\ new.events = page[p].events /\ SameHistory(new, page[p])
        /\ page' = [page EXCEPT ![p] = new]
    BY <1>7, DisconnectStep
  <2> QED
    BY <1>5, <2>1
<1> QED
  BY <1>1, <1>3, <1>4, <1>6, <1>7, ShowKept, ReadKept, ShowHistoryKept
     DEF Next, vars, Begin, WriteRow, FlushEvent, AnnounceType, Fail, Commit, OnReady,
         LoseSubscription, RestartBot, Handle

-----------------------------------------------------------------------------
(***************************************************************************)
(* Rows and requests.                                                      *)
(***************************************************************************)
Quiet == UNCHANGED <<row, agents, request>> /\ (sent' = sent \/ SentMore(0))
Failed(q) == Ends(q, "undone") /\ agents' = {a \in agents : a.by # {q}}
Committed(q) ==
    /\ request[q].phase = "step" /\ StepOf(q) = "commit" /\ Ends(q, "committed")
    /\ agents' = {IF a.by = {q} THEN [a EXCEPT !.by = {}] ELSE a : a \in agents}
Turn(q) ==
    \/ (\E op \in DOMAIN Steps, name \in Names \cup {None} : Began(q, op, name))
    \/ Wrote(q) \/ Grows(q) \/ Announces(q) \/ Proceeds(q) \/ Failed(q) \/ Committed(q)

LEMMA BeginTurn ==
    ASSUME TInv, NEW q \in Requests, NEW o \in Operations, NEW n \in Names \cup {None},
           Begin(q, o[1], o[2], n)
    PROVE  Turn(q)
<1>1. Began(q, o[1], n)
  BY BeginStep
<1>2. o[1] \in DOMAIN Steps
  BY CallsAssumption
<1> QED
  BY <1>1, <1>2 DEF Turn

LEMMA WriteTurn ==
    ASSUME TInv, NEW q \in Requests, WriteRow(q)
    PROVE  Turn(q)
<1>1. Wrote(q) \/ Grows(q)
  BY WriteRowStep
<1> QED
  BY <1>1 DEF Turn

LEMMA FlushTurn ==
    ASSUME TInv, NEW q \in Requests, FlushEvent(q)
    PROVE  Turn(q)
<1>1. Grows(q)
  BY FlushEventStep
<1> QED
  BY <1>1 DEF Turn

LEMMA AnnounceTurn ==
    ASSUME TInv, NEW q \in Requests, Announce(q) \/ AnnounceType(q)
    PROVE  Turn(q)
<1>1. CASE Announce(q)
  <2>1. Announces(q)
    BY <1>1, AnnounceStep
  <2> QED
    BY <2>1 DEF Turn
<1>2. CASE AnnounceType(q)
  <2>1. Proceeds(q)
    BY <1>2, AnnounceTypeStep
  <2> QED
    BY <2>1 DEF Turn
<1> QED
  BY <1>1, <1>2

LEMMA EndTurn ==
    ASSUME TInv, NEW q \in Requests, Fail(q) \/ Commit(q)
    PROVE  Turn(q)
<1>1. Failed(q) \/ Committed(q)
  BY FailStep, CommitStep DEF Failed, Committed
<1> QED
  BY <1>1 DEF Turn

LEMMA AlertQuiet ==
    ASSUME TInv, RiskAlert
    PROVE  Quiet
<1> PICK m : m = [type |-> "soul.risk_alert", severity |-> "critical", row |-> 0]
  OBVIOUS
<1> PICK k : k = Len(sent) + 1
  OBVIOUS
<1>1. /\ sent' = Append(sent, m) /\ sent \in Seq(Message) /\ m.row = 0
      /\ UNCHANGED <<row, agents, request>>
  BY DEF RiskAlert, Delivered, TInv, TypeOK
<1>2. /\ DOMAIN sent' = DOMAIN sent \cup {k} /\ k \notin DOMAIN sent /\ sent'[k] = m
      /\ \A i \in DOMAIN sent : sent'[i] = sent[i]
  BY <1>1
<1> QED
  BY <1>1, <1>2 DEF SentMore, Quiet

\* Whatever happens, one request takes a turn, or the tables stay as they are.
LEMMA NextTurn == TInv /\ [Next]_vars => Quiet \/ \E q \in Requests : Turn(q)
<1> SUFFICES ASSUME TInv, [Next]_vars PROVE Quiet \/ \E q \in Requests : Turn(q)
  OBVIOUS
<1>1. CASE UNCHANGED <<row, agents, request, sent>>
  BY <1>1 DEF Quiet
<1>2. ASSUME NEW q \in Requests, NEW o \in Operations, NEW n \in Names \cup {None},
             Begin(q, o[1], o[2], n)
      PROVE  Turn(q)
  BY <1>2, BeginTurn
<1>3. ASSUME NEW q \in Requests,
             \/ WriteRow(q) \/ FlushEvent(q) \/ Announce(q)
             \/ AnnounceType(q) \/ Fail(q) \/ Commit(q)
      PROVE  Turn(q)
  BY <1>3, WriteTurn, FlushTurn, AnnounceTurn, EndTurn
<1>4. RiskAlert => Quiet
  BY AlertQuiet
<1>5. ASSUME NEW p \in Pages,
             Connect(p) \/ Disconnect(p) \/ ReadHistory(p) \/ ShowHistory(p) \/ Show(p)
      PROVE  UNCHANGED <<row, agents, request, sent>>
  BY <1>5 DEF Connect, Disconnect, ReadHistory, ShowHistory, Show
<1>6. ASSUME OnReady \/ RestartBot \/ \E l \in 1 .. MaxReady : LoseSubscription(l) \/ Handle(l)
      PROVE  UNCHANGED <<row, agents, request, sent>>
  BY <1>6 DEF OnReady, LoseSubscription, RestartBot, Handle
<1> QED
  BY <1>1, <1>2, <1>3, <1>4, <1>5, <1>6 DEF Next, vars

LEMMA RowsOf ==
    ASSUME TInv, NEW q \in Requests
    PROVE  request[q].rows \subseteq DOMAIN row
BY DEF TInv, Underway

LEMMA NextOwn == TInv /\ OwnRows /\ [Next]_vars => OwnRows'
<1> SUFFICES ASSUME TInv, OwnRows, [Next]_vars PROVE OwnRows'
  OBVIOUS
<1>1. CASE Quiet
  BY <1>1 DEF Quiet, OwnRows
<1>2. ASSUME NEW q \in Requests, Turn(q) PROVE OwnRows'
  <2>1. \A p \in Requests : request[p].rows \subseteq DOMAIN row
    BY RowsOf
  <2>2. Others(q)
    BY <1>2 DEF Turn, Began, Wrote, Grows, Stored, Flushed, Announces, Proceeds, Failed,
                Committed, Turned, Ends
  <2>3. CASE Grows(q)
    <3>1. PICK n : /\ n \notin DOMAIN row /\ request'[q].rows = request[q].rows \cup {n}
                   /\ row'[n].state = "open" /\ \A i \in DOMAIN row : row'[i] = row[i]
      BY <2>3 DEF Grows, Stored, Flushed, Turned, Grown
    <3> QED
      BY <2>1, <2>2, <3>1 DEF OwnRows, Others
  <2>4. CASE row' = row /\ request'[q].rows \subseteq request[q].rows
    BY <2>2, <2>4 DEF OwnRows, Others
  <2>5. CASE Failed(q) \/ Committed(q)
    <3>1. /\ request'[q].rows = {}
          /\ \A i \in DOMAIN row : i \notin request[q].rows => row'[i].state = row[i].state
      BY <2>5 DEF Failed, Committed, Ends
    <3> QED
      BY <2>1, <2>2, <3>1 DEF OwnRows, Others
  <2> QED
    BY <1>2, <2>3, <2>4, <2>5
       DEF Turn, Began, Wrote, Announces, Proceeds, Turned
<1> QED
  BY <1>1, <1>2, NextTurn

LEMMA NextRowsTold == TInv /\ OwnRows /\ RowsTold /\ [Next]_vars => RowsTold'
<1> SUFFICES ASSUME TInv, OwnRows, RowsTold, [Next]_vars,
                    NEW i \in DOMAIN row', row'[i].published, row'[i].state # "undone"
             PROVE  Unannounced(i)' \/ Announcement(i)'
  BY DEF RowsTold
<1>1. CASE Announcement(i)
  <2>1. sent' = sent \/ \E of : SentMore(of)
    BY NextTurn DEF Quiet, Turn, Began, Wrote, Grows, Stored, Flushed, Announces, Proceeds,
                    Failed, Committed, Ends
  <2>2. Announcement(i)'
    BY <1>1, <2>1 DEF Announcement, SentMore
  <2> QED
    BY <2>2
<1>2. CASE Quiet /\ ~Announcement(i)
  <2>1. Unannounced(i)
    BY <1>2 DEF Quiet, RowsTold
  <2>2. Unannounced(i)'
    BY <1>2, <2>1 DEF Quiet, Unannounced, MyRow
  <2> QED
    BY <2>2
<1>3. ASSUME NEW q \in Requests, Turn(q), ~Announcement(i) PROVE Unannounced(i)' \/ Announcement(i)'
  <2>1. Others(q)
    BY <1>3 DEF Turn, Began, Wrote, Grows, Stored, Flushed, Announces, Proceeds, Failed,
                Committed, Turned, Ends
  <2>2. CASE i \in DOMAIN row /\ row[i].published /\ row[i].state # "undone"
    <3>1. PICK p \in Requests : request[p].phase = "flushed" /\ MyRow(p) = i
      BY <1>3, <2>2 DEF RowsTold, Unannounced
    <3>2. CASE p # q
      BY <2>1, <3>1, <3>2 DEF Others, Unannounced
    <3>3. CASE p = q
      <4>1. Announces(q) \/ Failed(q)
        BY <1>3, <3>1, <3>3 DEF Turn, Began, Wrote, Grows, Stored, Flushed, Proceeds, Committed
      <4>2. CASE Announces(q)
        BY <3>1, <3>3, <4>2 DEF Announces, SentMore, Announcement
      <4>3. CASE Failed(q)
        <5>1. i \in request[q].rows
          BY <3>1, <3>3 DEF TInv, Underway
        <5> QED
          BY <2>2, <4>3, <5>1 DEF Failed, Ends
      <4> QED
        BY <4>1, <4>2, <4>3
    <3> QED
      BY <3>2, <3>3
  <2>3. CASE ~(i \in DOMAIN row /\ row[i].published /\ row[i].state # "undone")
    <3>1. Grows(q) \/ Failed(q) \/ Committed(q)
      BY <1>3, <2>3 DEF Turn, Began, Wrote, Announces, Proceeds
    <3>2. CASE Grows(q)
      <4>1. PICK n : Stored(q, n) \/ Flushed(q, n)
        BY <3>2 DEF Grows
      <4>2. i = n
        BY <2>3, <4>1 DEF Stored, Flushed, Grown
      <4>3. Flushed(q, n)
        BY <4>1, <4>2 DEF Stored, Grown
      <4> QED
        BY <4>2, <4>3 DEF Flushed, Turned, Unannounced
    <3>3. CASE Failed(q) \/ Committed(q)
      <4>1. i \in DOMAIN row /\ row[i].published /\ row[i].state = "undone"
        BY <2>3, <3>3 DEF Failed, Committed, Ends
      <4>2. i \notin request[q].rows
        BY <4>1 DEF OwnRows
      <4> QED
        BY <3>3, <4>1, <4>2 DEF Failed, Committed, Ends
    <3> QED
      BY <3>1, <3>2, <3>3
  <2> QED
    BY <2>2, <2>3
<1> QED
  BY <1>1, <1>2, <1>3, NextTurn

LEMMA InitTold == Init => OwnRows /\ RowsTold /\ PagesTold /\ HistoryKept
<1> SUFFICES ASSUME Init PROVE OwnRows /\ RowsTold /\ PagesTold /\ HistoryKept
  OBVIOUS
<1>1. DOMAIN row = {}
  BY DEF Init
<1>2. \A q \in Requests : request[q].rows = {}
  BY DEF Init, Idle, Called
<1>3. ASSUME NEW p \in Pages
      PROVE  InOrder(page[p]) /\ ~page[p].open /\ page[p].from = 0 /\ Kept(page[p])
  <2>1. page[p] = NewPage
    BY DEF Init
  <2>2. /\ ~page[p].open /\ page[p].inbox = <<>> /\ page[p].events = <<>>
        /\ page[p].history = "asked" /\ page[p].from = 0
    BY <2>1 DEF NewPage
  <2>3. DOMAIN page[p].inbox = {} /\ DOMAIN page[p].events = {}
    BY <2>2
  <2>4. Kept(page[p])
    BY <2>2 DEF Kept
  <2> QED
    BY <2>2, <2>3, <2>4 DEF InOrder, Rising, Falling
<1> QED
  BY <1>1, <1>2, <1>3 DEF OwnRows, RowsTold, PagesTold, HistoryKept

\* What was committed when a page's history was read is on the page or pushed off it, and a
\* page that has stayed connected since its history came has been told of every committed
\* event: each was announced before its request committed, and reached the pages open at
\* that moment.
THEOREM PagesSeeHistory == Spec => []LiveSeesHistory
<1>1. TInv /\ OwnRows /\ RowsTold /\ PagesTold /\ HistoryKept => LiveSeesHistory
  <2> SUFFICES ASSUME TInv, OwnRows, RowsTold, PagesTold, HistoryKept, NEW p \in Pages
               PROVE  /\ page[p].history = "shown" =>
                           \A i \in page[p].known : i \in Range(page[p].past) \/ Full(p)
                      /\ page[p].open =>
                           \A i \in Saved : row[i].published =>
                              \E k \in DOMAIN sent :
                                 /\ sent[k].row = i
                                 /\ k <= page[p].since \/ k <= page[p].from \/ Has(p, k)
    BY DEF LiveSeesHistory
  <2>1. ASSUME page[p].history = "shown", NEW i \in page[p].known
        PROVE  i \in Range(page[p].past) \/ Full(p)
    <3>1. Listed(page[p].past, i) \/ Len(page[p].events) + Len(page[p].past) = PageLimit
      BY <2>1 DEF HistoryKept, Kept
    <3>2. Listed(page[p].past, i) => i \in Range(page[p].past)
      BY DEF Listed, Range
    <3> QED
      BY <3>1, <3>2 DEF Full
  <2>2. ASSUME page[p].open, NEW i \in Saved, row[i].published
        PROVE  \E k \in DOMAIN sent :
                  /\ sent[k].row = i
                  /\ k <= page[p].since \/ k <= page[p].from \/ Has(p, k)
    <3>1. i \in DOMAIN row /\ row[i].state = "committed"
      BY DEF Saved
    <3>2. ~Unannounced(i)
      BY <3>1 DEF Unannounced, TInv, Underway, OwnRows
    <3>3. PICK k \in DOMAIN sent : sent[k].row = i
      BY <2>2, <3>1, <3>2 DEF RowsTold, Announcement
    <3>4. Told(page[p], k)
      BY <2>2 DEF PagesTold
    <3>5. k <= page[p].since \/ k <= page[p].from \/ Has(p, k)
      BY <3>4 DEF Told, Has, Range
    <3> QED
      BY <3>3, <3>5
  <2> QED
    BY <2>1, <2>2
<1>2. TInv /\ OwnRows /\ RowsTold /\ PagesTold /\ HistoryKept /\ [Next]_vars
         => OwnRows' /\ RowsTold' /\ PagesTold' /\ HistoryKept'
  BY NextOwn, NextRowsTold, NextTold, NextKept
<1> QED
  BY <1>1, <1>2, InitTold, TypeInvariance, PTL DEF Spec

-----------------------------------------------------------------------------
(***************************************************************************)
(* Agents and the events of their joining.                                 *)
(*                                                                         *)
(* A registration claims its name with the agent's row and notes it with   *)
(* the event's; both are its own until it commits, and then the name is    *)
(* taken.                                                                  *)
(***************************************************************************)
IsJoin(i) == row[i].type = "agent.joined"
Claimed(q) == request[q].phase # "idle" /\ request[q].op = "register" /\ request[q].at >= 2
Noted(q) == Claimed(q) /\ (request[q].phase \in {"flushed", "announced"} \/ request[q].at >= 3)
Claim(q) == [name |-> request[q].name, by |-> {q}]
Joined(i) == IsJoin(i) /\ row[i].state = "committed"
Taken(n) == \E a \in agents : a.name = n /\ a.by = {}

NotesOwn ==
    \A q \in Requests :
        /\ \A i \in request[q].rows : IsJoin(i) => Noted(q) /\ row[i].of = request[q].name
        /\ Noted(q) => \E i \in request[q].rows : IsJoin(i)
        /\ \A i, j \in request[q].rows : IsJoin(i) /\ IsJoin(j) => i = j
ClaimsHeld ==
    /\ \A q \in Requests : Claimed(q) => Claim(q) \in agents
    /\ \A a \in agents : a.by = {} \/ \E q \in Requests : Claimed(q) /\ a = Claim(q)
    /\ \A a, b \in agents : a.name = b.name => a = b
JoinsAgree ==
    /\ \A n \in Names : (\E i \in DOMAIN row : Joined(i) /\ row[i].of = n) <=> Taken(n)
    /\ \A i, j \in DOMAIN row : Joined(i) /\ Joined(j) /\ row[i].of = row[j].of => i = j
JInv == NotesOwn /\ ClaimsHeld /\ JoinsAgree

\* The others' claims and notes.
OthersAsBefore(q) ==
    \A p \in Requests \ {q} :
        /\ Claimed(p)' <=> Claimed(p)
        /\ Noted(p)' <=> Noted(p)
        /\ Claim(p)' = Claim(p) /\ request'[p].rows = request[p].rows
        /\ request'[p].name = request[p].name
LEMMA OthersClaims ==
    ASSUME NEW q \in Requests, Others(q)
    PROVE  OthersAsBefore(q)
BY DEF Others, OthersAsBefore, Claimed, Noted, Claim

\* A registration is at its agent's row, at the event of its joining, or commits.
LEMMA RegisterAt ==
    ASSUME TInv, NEW q \in Requests
    PROVE  /\ request[q].at \in 1 .. 4
           /\ StepOf(q) = "agent" <=> (request[q].op = "register" /\ request[q].at = 1)
           /\ StepOf(q) = "agent.joined" <=> (request[q].op = "register" /\ request[q].at = 2)
           /\ request[q].op = "register" => StepOf(q) \in {"agent", "agent.joined", "commit"}
           /\ request[q].op = "register" /\ StepOf(q) = "commit" => request[q].at >= 3
           /\ request[q].op = "register" /\ request[q].phase # "idle" => request[q].name \in Names
<1>1. request[q] \in Request
  BY DEF TInv, TypeOK
<1>2. request[q].at \in 1 .. 4 /\ request[q].name \in Names \cup {None}
  BY <1>1 DEF Request
<1>3. request[q].op = "register" /\ request[q].phase # "idle" => request[q].name \in Names
  BY <1>2 DEF TInv, Underway
<1>4. CASE StepOf(q) # "commit"
  <2>1. /\ StepOf(q) = "agent" <=> (request[q].op = "register" /\ request[q].at = 1)
        /\ StepOf(q) = "agent.joined" <=> (request[q].op = "register" /\ request[q].at = 2)
        /\ request[q].at \in 1 .. Len(Steps[request[q].op])
    BY <1>4, StepWithin DEF TInv
  <2>2. ASSUME request[q].op = "register" PROVE request[q].at \in {1, 2}
    <3>1. Len(Steps[request[q].op]) = 2
      BY <2>2, Registration
    <3> QED
      BY <1>2, <2>1, <3>1
  <2> QED
    BY <1>2, <1>3, <1>4, <2>1, <2>2
<1>5. CASE StepOf(q) = "commit"
  <2>1. request[q].op = "register" => request[q].at \notin {1, 2}
    <3>1. ASSUME request[q].op = "register", request[q].at \in {1, 2} PROVE FALSE
      <4>1. StepOf(q) = Steps["register"][request[q].at]
        BY <3>1, Registration DEF StepOf
      <4> QED
        BY <1>5, <3>1, <4>1, Registration
    <3> QED
      BY <3>1
  <2>2. request[q].op = "register" => request[q].at >= 3
    BY <1>2, <2>1
  <2> QED
    BY <1>2, <1>3, <1>5, <2>1, <2>2
<1> QED
  BY <1>4, <1>5

\* A turn that changes neither.
Steady(q) ==
    /\ UNCHANGED <<row, agents>> /\ Others(q) /\ request'[q].rows \subseteq request[q].rows
    /\ Claimed(q)' <=> Claimed(q)
    /\ Noted(q)' <=> Noted(q)
    /\ Claimed(q) => request'[q].name = request[q].name /\ request'[q].rows = request[q].rows

LEMMA SteadyJoins ==
    ASSUME JInv, NEW q \in Requests, Steady(q)
    PROVE  JInv'
<1>1. OthersAsBefore(q) /\ UNCHANGED <<row, agents>>
  BY OthersClaims DEF Steady
<1>2. \A i : (IsJoin(i)' <=> IsJoin(i)) /\ (Joined(i)' <=> Joined(i))
  BY <1>1 DEF IsJoin, Joined
<1>3. Claimed(q) => Claim(q)' = Claim(q)
  BY DEF Steady, Claim
<1>4. \A p \in Requests : /\ Claimed(p)' <=> Claimed(p)
                          /\ Noted(p)' <=> Noted(p)
                          /\ Claimed(p) => Claim(p)' = Claim(p) /\ request'[p].rows = request[p].rows
                                             /\ request'[p].name = request[p].name
                          /\ request'[p].rows \subseteq request[p].rows
                          /\ Noted(p) => Claimed(p)
  BY <1>1, <1>3 DEF Steady, OthersAsBefore, Noted
<1>5. NotesOwn'
  BY <1>1, <1>2, <1>4 DEF JInv, NotesOwn
<1>6. ClaimsHeld'
  BY <1>1, <1>4 DEF JInv, ClaimsHeld
<1>7. JoinsAgree'
  BY <1>1, <1>2 DEF JInv, JoinsAgree, Taken
<1> QED
  BY <1>5, <1>6, <1>7 DEF JInv

\* An event of another kind is stored.
LEMMA OtherRowJoins ==
    ASSUME JInv, NEW q \in Requests, NEW n, NEW type, NEW of, NEW published,
           Grown(n, type, of, published), type # "agent.joined", Others(q), agents' = agents,
           request'[q].rows = request[q].rows \cup {n}, request'[q].name = request[q].name,
           Claimed(q)' <=> Claimed(q), Noted(q)' <=> Noted(q),
           \A p \in Requests : request[p].rows \subseteq DOMAIN row
    PROVE  JInv'
<1>1. OthersAsBefore(q)
  BY OthersClaims
<1>2. /\ \A i \in DOMAIN row : /\ IsJoin(i)' <=> IsJoin(i)
                               /\ Joined(i)' <=> Joined(i)
                               /\ row'[i].of = row[i].of
      /\ ~IsJoin(n)' /\ ~Joined(n)' /\ DOMAIN row' = DOMAIN row \cup {n}
  BY DEF Grown, IsJoin, Joined
<1>3. Claim(q)' = Claim(q)
  BY DEF Claim
<1>4. \A p \in Requests : /\ Claimed(p)' <=> Claimed(p)
                          /\ Noted(p)' <=> Noted(p)
                          /\ Claim(p)' = Claim(p)
                          /\ request'[p].name = request[p].name
                          /\ request[p].rows \subseteq request'[p].rows
                          /\ request'[p].rows \subseteq request[p].rows \cup {n}
                          /\ request[p].rows \subseteq DOMAIN row
  BY <1>1, <1>3 DEF OthersAsBefore
<1>5. NotesOwn'
  BY <1>2, <1>4 DEF JInv, NotesOwn
<1>6. ClaimsHeld'
  BY <1>4 DEF JInv, ClaimsHeld
<1>7. JoinsAgree'
  BY <1>2 DEF JInv, JoinsAgree, Taken
<1> QED
  BY <1>5, <1>6, <1>7 DEF JInv

\* The event of a joining is stored.
LEMMA JoinRowJoins ==
    ASSUME JInv, NEW q \in Requests, NEW n,
           Grown(n, "agent.joined", request[q].name, TRUE), Others(q), agents' = agents,
           request'[q].rows = request[q].rows \cup {n}, request'[q].name = request[q].name,
           Claimed(q)' <=> Claimed(q), ~Noted(q), Noted(q)',
           \A p \in Requests : request[p].rows \subseteq DOMAIN row
    PROVE  JInv'
<1>1. OthersAsBefore(q)
  BY OthersClaims
<1>2. /\ \A i \in DOMAIN row : /\ IsJoin(i)' <=> IsJoin(i)
                               /\ Joined(i)' <=> Joined(i)
                               /\ row'[i].of = row[i].of
      /\ IsJoin(n)' /\ ~Joined(n)' /\ DOMAIN row' = DOMAIN row \cup {n}
      /\ row'[n].of = request[q].name
  BY DEF Grown, IsJoin, Joined
<1>3. Claim(q)' = Claim(q)
  BY DEF Claim
<1>4. \A p \in Requests : /\ Claimed(p)' <=> Claimed(p)
                          /\ Claim(p)' = Claim(p)
                          /\ request'[p].name = request[p].name
                          /\ request[p].rows \subseteq DOMAIN row
  BY <1>1, <1>3 DEF OthersAsBefore
<1>5. \A p \in Requests \ {q} : request'[p].rows = request[p].rows /\ (Noted(p)' <=> Noted(p))
  BY <1>1 DEF OthersAsBefore
<1>6. \A i \in request[q].rows : ~IsJoin(i)
  BY DEF JInv, NotesOwn
<1>7. ASSUME NEW p \in Requests
      PROVE  /\ \A i \in request'[p].rows : IsJoin(i)' => Noted(p)' /\ row'[i].of = request'[p].name
             /\ Noted(p)' => \E i \in request'[p].rows : IsJoin(i)'
             /\ \A i, j \in request'[p].rows : IsJoin(i)' /\ IsJoin(j)' => i = j
  <2>1. CASE p = q
    <3>1. \A i \in request'[q].rows : IsJoin(i)' => i = n
      BY <1>2, <1>4, <1>6
    <3>2. n \in request'[q].rows
      OBVIOUS
    <3> QED
      BY <1>2, <2>1, <3>1, <3>2
  <2>2. CASE p # q
    BY <1>2, <1>4, <1>5, <2>2 DEF JInv, NotesOwn
  <2> QED
    BY <2>1, <2>2
<1>8. ClaimsHeld'
  BY <1>4 DEF JInv, ClaimsHeld
<1>9. JoinsAgree'
  <2>1. \A m : Taken(m)' <=> Taken(m)
    BY DEF Taken
  <2>2. \A i \in DOMAIN row' : Joined(i)' => i \in DOMAIN row /\ Joined(i)
    BY <1>2
  <2>3. ASSUME NEW m \in Names
        PROVE  (\E i \in DOMAIN row : Joined(i) /\ row[i].of = m)'
                  <=> \E i \in DOMAIN row : Joined(i) /\ row[i].of = m
    BY <1>2, <2>2
  <2>4. \A i, j \in DOMAIN row' :
           Joined(i)' /\ Joined(j)' /\ row'[i].of = row'[j].of => i = j
    BY <1>2, <2>2 DEF JInv, JoinsAgree
  <2> QED
    BY <2>1, <2>3, <2>4 DEF JInv, JoinsAgree
<1> QED
  BY <1>7, <1>8, <1>9 DEF JInv, NotesOwn

\* An agent's row is inserted: nobody has the name.
LEMMA InsertJoins ==
    ASSUME JInv, NEW q \in Requests, row' = row, Others(q), NameFree(q),
           agents' = agents \cup {Claim(q)}, request'[q].rows = request[q].rows,
           request'[q].name = request[q].name,
           ~Claimed(q), Claimed(q)', ~Noted(q), ~Noted(q)'
    PROVE  JInv'
<1> PICK new : new = Claim(q)
  OBVIOUS
<1>1. OthersAsBefore(q)
  BY OthersClaims
<1>2. \A i : (IsJoin(i)' <=> IsJoin(i)) /\ (Joined(i)' <=> Joined(i))
  BY DEF IsJoin, Joined
<1>3. /\ new.name = request[q].name /\ new.by = {q} /\ agents' = agents \cup {new}
      /\ Claim(q)' = new /\ Claim(q) = new /\ new.by # {}
  BY DEF Claim
<1>4. \A p \in Requests : /\ Claimed(p)' <=> (Claimed(p) \/ p = q)
                          /\ Noted(p)' <=> Noted(p)
                          /\ Claim(p)' = Claim(p)
                          /\ request'[p].name = request[p].name
                          /\ request'[p].rows = request[p].rows
  BY <1>1, <1>3 DEF OthersAsBefore
<1>5. NotesOwn'
  BY <1>2, <1>4 DEF JInv, NotesOwn
<1>6. \A a \in agents : a.name # new.name
  BY <1>3 DEF NameFree
<1>7. ClaimsHeld'
  <2>1. \A p \in Requests : Claimed(p)' => Claim(p)' \in agents'
    BY <1>3, <1>4 DEF JInv, ClaimsHeld
  <2>2. \A a \in agents' : a.by = {} \/ \E p \in Requests : Claimed(p)' /\ a = Claim(p)'
    BY <1>3, <1>4 DEF JInv, ClaimsHeld
  <2>3. \A a, b \in agents' : a.name = b.name => a = b
    BY <1>3, <1>6 DEF JInv, ClaimsHeld
  <2> QED
    BY <2>1, <2>2, <2>3 DEF ClaimsHeld
<1>8. JoinsAgree'
  <2>1. \A n : Taken(n)' <=> Taken(n)
    BY <1>3 DEF Taken
  <2> QED
    BY <1>2, <2>1 DEF JInv, JoinsAgree
<1> QED
  BY <1>5, <1>7, <1>8 DEF JInv

\* Facts of a request that ends.
LEMMA EndedFacts ==
    ASSUME TInv, NEW q \in Requests, NEW state, Ends(q, state)
    PROVE  /\ OthersAsBefore(q) /\ ~Claimed(q)' /\ ~Noted(q)' /\ request'[q].rows = {}
           /\ DOMAIN row' = DOMAIN row
           /\ \A p \in Requests : request[p].rows \subseteq DOMAIN row
           /\ \A i \in DOMAIN row : /\ IsJoin(i)' <=> IsJoin(i)
                                    /\ row'[i].of = row[i].of
                                    /\ Joined(i)' <=> IsJoin(i) /\ (IF i \in request[q].rows
                                                                    THEN state = "committed"
                                                                    ELSE row[i].state = "committed")
<1>1. OthersAsBefore(q)
  BY OthersClaims DEF Ends
<1>2. ~Claimed(q)' /\ ~Noted(q)' /\ request'[q].rows = {} /\ DOMAIN row' = DOMAIN row
  BY DEF Ends, Claimed, Noted
<1>3. \A p \in Requests : request[p].rows \subseteq DOMAIN row
  BY RowsOf
<1>4. ASSUME NEW i \in DOMAIN row
      PROVE  /\ IsJoin(i)' <=> IsJoin(i)
             /\ row'[i].of = row[i].of
             /\ Joined(i)' <=> IsJoin(i) /\ (IF i \in request[q].rows THEN state = "committed"
                                             ELSE row[i].state = "committed")
  BY DEF Ends, IsJoin, Joined
<1> QED
  BY <1>1, <1>2, <1>3, <1>4

LEMMA FailedJoins ==
    ASSUME TInv, OwnRows, JInv, NEW q \in Requests, Failed(q)
    PROVE  JInv'
<1>1. /\ OthersAsBefore(q) /\ ~Claimed(q)' /\ ~Noted(q)' /\ request'[q].rows = {}
      /\ DOMAIN row' = DOMAIN row
      /\ \A p \in Requests : request[p].rows \subseteq DOMAIN row
      /\ \A i \in DOMAIN row : /\ IsJoin(i)' <=> IsJoin(i)
                               /\ row'[i].of = row[i].of
  BY EndedFacts DEF Failed
<1>2. \A i \in DOMAIN row : Joined(i)' <=> Joined(i)
  <2> SUFFICES ASSUME NEW i \in DOMAIN row PROVE Joined(i)' <=> Joined(i)
    OBVIOUS
  <2>1. CASE i \in request[q].rows
    <3>1. row[i].state = "open" /\ row'[i].state = "undone"
      BY <2>1 DEF OwnRows, Failed, Ends
    <3> QED
      BY <3>1 DEF Joined
  <2>2. CASE i \notin request[q].rows
    <3>1. row'[i].state = row[i].state
      BY <2>2 DEF Failed, Ends
    <3> QED
      BY <1>1, <3>1 DEF Joined
  <2> QED
    BY <2>1, <2>2
<1>3. agents' = {a \in agents : a.by # {q}}
  BY DEF Failed
<1>4. NotesOwn'
  <2>1. ASSUME NEW p \in Requests
        PROVE  /\ \A i \in request'[p].rows : IsJoin(i)' => Noted(p)' /\ row'[i].of = request'[p].name
               /\ Noted(p)' => \E i \in request'[p].rows : IsJoin(i)'
               /\ \A i, j \in request'[p].rows : IsJoin(i)' /\ IsJoin(j)' => i = j
    <3>1. CASE p = q
      BY <1>1, <3>1
    <3>2. CASE p # q
      BY <1>1, <3>2 DEF JInv, NotesOwn, OthersAsBefore
    <3> QED
      BY <3>1, <3>2
  <2> QED
    BY <2>1 DEF NotesOwn
<1>5. ClaimsHeld'
  <2>1. ASSUME NEW p \in Requests, Claimed(p)' PROVE Claim(p)' \in agents'
    <3>1. p # q /\ Claimed(p) /\ Claim(p)' = Claim(p)
      BY <1>1, <2>1 DEF OthersAsBefore
    <3>2. Claim(p) \in agents /\ Claim(p).by # {q}
      BY <3>1 DEF JInv, ClaimsHeld, Claim
    <3> QED
      BY <1>3, <3>1, <3>2
  <2>2. ASSUME NEW a \in agents', a.by # {} PROVE \E p \in Requests : Claimed(p)' /\ a = Claim(p)'
    <3>1. PICK p \in Requests : Claimed(p) /\ a = Claim(p)
      BY <1>3, <2>2 DEF JInv, ClaimsHeld
    <3>2. p # q
      BY <1>3, <3>1 DEF Claim
    <3> QED
      BY <1>1, <3>1, <3>2 DEF OthersAsBefore
  <2>3. \A a, b \in agents' : a.name = b.name => a = b
    BY <1>3 DEF JInv, ClaimsHeld
  <2> QED
    BY <2>1, <2>2, <2>3 DEF ClaimsHeld
<1>6. JoinsAgree'
  <2>1. \A n : Taken(n)' <=> Taken(n)
    BY <1>3 DEF Taken
  <2> QED
    BY <1>1, <1>2, <2>1 DEF JInv, JoinsAgree
<1> QED
  BY <1>4, <1>5, <1>6 DEF JInv

\* What its commit does to the agents.
LEMMA Freed ==
    ASSUME TInv, JInv, NEW q \in Requests, Committed(q),
           NEW new, new = [name |-> request[q].name, by |-> {}]
    PROVE  /\ ~Claimed(q) => agents' = agents
           /\ Claimed(q) => agents' = (agents \ {Claim(q)}) \cup {new}
<1> DEFINE freed(a) == IF a.by = {q} THEN [a EXCEPT !.by = {}] ELSE a
<1>1. agents' = {freed(a) : a \in agents}
  BY DEF Committed
<1>2. \A a \in agents : a.by = {q} => Claimed(q) /\ a = Claim(q)
  <2> SUFFICES ASSUME NEW a \in agents, a.by = {q} PROVE Claimed(q) /\ a = Claim(q)
    OBVIOUS
  <2>1. PICK p \in Requests : Claimed(p) /\ a = Claim(p)
    BY DEF JInv, ClaimsHeld
  <2>2. p = q
    BY <2>1 DEF Claim
  <2> QED
    BY <2>1, <2>2
<1>3. CASE ~Claimed(q)
  <2>1. \A a \in agents : freed(a) = a
    BY <1>2, <1>3
  <2> QED
    BY <1>1, <1>3, <2>1
<1>4. CASE Claimed(q)
  <2> PICK old : old = Claim(q)
    OBVIOUS
  <2>1. old \in agents /\ old.by = {q}
    BY <1>4 DEF JInv, ClaimsHeld, Claim
  <2>2. freed(old) = new
    BY DEF Claim
  <2>3. \A a \in agents : a # old => freed(a) = a
    BY <1>2
  <2> HIDE DEF freed
  <2>4. agents' = (agents \ {old}) \cup {new}
    BY <1>1, <2>1, <2>2, <2>3
  <2> QED
    BY <1>4, <2>4
<1> QED
  BY <1>3, <1>4

\* A registration commits: its name was free, and the stored history said nothing of it.
LEMMA ClaimCommits ==
    ASSUME TInv, OwnRows, JInv, NEW q \in Requests, Committed(q), Claimed(q)
    PROVE  JInv'
<1> PICK name : name = request[q].name
  OBVIOUS
<1> PICK old : old = Claim(q)
  OBVIOUS
<1> PICK new : new = [name |-> request[q].name, by |-> {}]
  OBVIOUS
<1>1. /\ OthersAsBefore(q) /\ ~Claimed(q)' /\ ~Noted(q)' /\ request'[q].rows = {}
      /\ DOMAIN row' = DOMAIN row
      /\ \A p \in Requests : request[p].rows \subseteq DOMAIN row
      /\ \A i \in DOMAIN row : /\ IsJoin(i)' <=> IsJoin(i)
                               /\ row'[i].of = row[i].of
  BY EndedFacts DEF Committed
<1>2. agents' = (agents \ {old}) \cup {new}
  BY Freed
<1>3. new.name = name /\ new.by = {} /\ old.name = name /\ old.by = {q} /\ old \in agents
  BY DEF Claim, JInv, ClaimsHeld
<1>4. Noted(q) /\ name \in Names
  <2>1. request[q].op = "register" /\ StepOf(q) = "commit" /\ request[q].phase # "idle"
    BY DEF Committed, Claimed
  <2>2. request[q].at >= 3 /\ request[q].name \in Names
    BY <2>1, RegisterAt
  <2> QED
    BY <2>2 DEF Noted
<1>5. PICK one \in request[q].rows : IsJoin(one) /\ row[one].of = name
  BY <1>4 DEF JInv, NotesOwn
<1>6. one \in DOMAIN row /\ \A i \in request[q].rows : IsJoin(i) => i = one
  BY <1>1, <1>5 DEF JInv, NotesOwn
<1>7. \A i \in DOMAIN row : Joined(i)' <=> (Joined(i) \/ i = one)
  <2> SUFFICES ASSUME NEW i \in DOMAIN row PROVE Joined(i)' <=> (Joined(i) \/ i = one)
    OBVIOUS
  <2>1. CASE i \in request[q].rows
    <3>1. row[i].state = "open" /\ row'[i].state = "committed"
      BY <2>1 DEF OwnRows, Committed, Ends
    <3> QED
      BY <1>1, <1>5, <1>6, <2>1, <3>1 DEF Joined
  <2>2. CASE i \notin request[q].rows
    <3>1. row'[i].state = row[i].state
      BY <2>2 DEF Committed, Ends
    <3> QED
      BY <1>1, <1>5, <2>2, <3>1 DEF Joined
  <2> QED
    BY <2>1, <2>2
<1>8. ~Taken(name)
  BY <1>3 DEF Taken, JInv, ClaimsHeld
<1>9. \A i \in DOMAIN row : Joined(i) => row[i].of # name
  BY <1>4, <1>8 DEF JInv, JoinsAgree
<1>10. \A a \in agents : a # old => a.name # name
  BY <1>3 DEF JInv, ClaimsHeld
<1>11. NotesOwn'
  <2>1. ASSUME NEW p \in Requests
        PROVE  /\ \A i \in request'[p].rows : IsJoin(i)' => Noted(p)' /\ row'[i].of = request'[p].name
               /\ Noted(p)' => \E i \in request'[p].rows : IsJoin(i)'
               /\ \A i, j \in request'[p].rows : IsJoin(i)' /\ IsJoin(j)' => i = j
    <3>1. CASE p = q
      BY <1>1, <3>1
    <3>2. CASE p # q
      BY <1>1, <3>2 DEF JInv, NotesOwn, OthersAsBefore
    <3> QED
      BY <3>1, <3>2
  <2> QED
    BY <2>1 DEF NotesOwn
<1>12. ClaimsHeld'
  <2>1. ASSUME NEW p \in Requests, Claimed(p)' PROVE Claim(p)' \in agents'
    <3>1. p # q /\ Claimed(p) /\ Claim(p)' = Claim(p)
      BY <1>1, <2>1 DEF OthersAsBefore
    <3>2. Claim(p) \in agents /\ Claim(p).by # {q}
      BY <3>1 DEF JInv, ClaimsHeld, Claim
    <3>3. Claim(p) # old
      BY <1>3, <3>2
    <3> QED
      BY <1>2, <3>1, <3>2, <3>3
  <2>2. ASSUME NEW a \in agents', a.by # {} PROVE \E p \in Requests : Claimed(p)' /\ a = Claim(p)'
    <3>1. a \in agents /\ a # old
      BY <1>2, <1>3, <2>2
    <3>2. PICK p \in Requests : Claimed(p) /\ a = Claim(p)
      BY <2>2, <3>1 DEF JInv, ClaimsHeld
    <3>3. p # q
      BY <3>1, <3>2
    <3> QED
      BY <1>1, <3>2, <3>3 DEF OthersAsBefore
  <2>3. \A a, b \in agents' : a.name = b.name => a = b
    <3>1. \A a \in agents' : a = new \/ (a \in agents /\ a.name # name)
      BY <1>2, <1>10
    <3>2. \A a, b \in agents : a.name = b.name => a = b
      BY DEF JInv, ClaimsHeld
    <3> QED
      BY <1>3, <3>1, <3>2
  <2> QED
    BY <2>1, <2>2, <2>3 DEF ClaimsHeld
<1>13. JoinsAgree'
  <2>1. \A n : Taken(n)' <=> (Taken(n) \/ n = name)
    BY <1>2, <1>3 DEF Taken
  <2>2. ASSUME NEW n \in Names
        PROVE  (\E i \in DOMAIN row' : Joined(i)' /\ row'[i].of = n) <=> Taken(n)'
    BY <1>1, <1>5, <1>6, <1>7, <2>1 DEF JInv, JoinsAgree
  <2>3. \A i, j \in DOMAIN row' : Joined(i)' /\ Joined(j)' /\ row'[i].of = row'[j].of => i = j
    BY <1>1, <1>5, <1>7, <1>9 DEF JInv, JoinsAgree
  <2> QED
    BY <2>2, <2>3 DEF JoinsAgree
<1> QED
  BY <1>11, <1>12, <1>13 DEF JInv

\* Another operation commits.
LEMMA OtherCommits ==
    ASSUME TInv, OwnRows, JInv, NEW q \in Requests, Committed(q), ~Claimed(q)
    PROVE  JInv'
<1>1. /\ OthersAsBefore(q) /\ ~Claimed(q)' /\ ~Noted(q)' /\ request'[q].rows = {}
      /\ DOMAIN row' = DOMAIN row
      /\ \A p \in Requests : request[p].rows \subseteq DOMAIN row
      /\ \A i \in DOMAIN row : /\ IsJoin(i)' <=> IsJoin(i)
                               /\ row'[i].of = row[i].of
  BY EndedFacts DEF Committed
<1>2. agents' = agents
  BY Freed
<1>3. ~Noted(q) /\ \A i \in request[q].rows : ~IsJoin(i)
  BY DEF Noted, JInv, NotesOwn
<1>4. \A i \in DOMAIN row : Joined(i)' <=> Joined(i)
  <2> SUFFICES ASSUME NEW i \in DOMAIN row PROVE Joined(i)' <=> Joined(i)
    OBVIOUS
  <2>1. CASE i \in request[q].rows
    BY <1>1, <1>3, <2>1 DEF Joined
  <2>2. CASE i \notin request[q].rows
    <3>1. row'[i].state = row[i].state
      BY <2>2 DEF Committed, Ends
    <3> QED
      BY <1>1, <3>1 DEF Joined
  <2> QED
    BY <2>1, <2>2
<1>5. NotesOwn'
  <2>1. ASSUME NEW p \in Requests
        PROVE  /\ \A i \in request'[p].rows : IsJoin(i)' => Noted(p)' /\ row'[i].of = request'[p].name
               /\ Noted(p)' => \E i \in request'[p].rows : IsJoin(i)'
               /\ \A i, j \in request'[p].rows : IsJoin(i)' /\ IsJoin(j)' => i = j
    <3>1. CASE p = q
      BY <1>1, <3>1
    <3>2. CASE p # q
      BY <1>1, <3>2 DEF JInv, NotesOwn, OthersAsBefore
    <3> QED
      BY <3>1, <3>2
  <2> QED
    BY <2>1 DEF NotesOwn
<1>6. \A p \in Requests : /\ Claimed(p)' <=> Claimed(p)
                          /\ Claimed(p) => Claim(p)' = Claim(p)
  BY <1>1 DEF OthersAsBefore
<1>7. ClaimsHeld'
  BY <1>2, <1>6 DEF JInv, ClaimsHeld
<1>8. JoinsAgree'
  BY <1>1, <1>2, <1>4 DEF JInv, JoinsAgree, Taken
<1> QED
  BY <1>5, <1>7, <1>8 DEF JInv

LEMMA GrowsJoins ==
    ASSUME TInv, JInv, NEW q \in Requests, Grows(q)
    PROVE  JInv'
<1>1. \A p \in Requests : request[p].rows \subseteq DOMAIN row
  BY RowsOf
<1> PICK n : Stored(q, n) \/ Flushed(q, n)
  BY DEF Grows
<1>2. CASE Stored(q, n)
  <2>1. request[q].op # "register"
    BY <1>2, RegisterAt DEF Stored
  <2>2. /\ ~Claimed(q) /\ ~Noted(q)
        /\ ~Claimed(q)' /\ ~Noted(q)'
    BY <1>2, <2>1 DEF Stored, Turned, Claimed, Noted
  <2> QED
    BY <1>1, <1>2, <2>2, OtherRowJoins DEF Stored, Turned
<1>3. CASE Flushed(q, n) /\ StepOf(q) # "agent.joined"
  <2>1. request[q].op # "register"
    BY <1>3, RegisterAt DEF Flushed, Announced
  <2>2. /\ ~Claimed(q) /\ ~Noted(q)
        /\ ~Claimed(q)' /\ ~Noted(q)'
    BY <1>3, <2>1 DEF Flushed, Turned, Claimed, Noted
  <2> QED
    BY <1>1, <1>3, <2>2, OtherRowJoins DEF Flushed, Turned
<1>4. CASE Flushed(q, n) /\ StepOf(q) = "agent.joined"
  <2>1. request[q].op = "register" /\ request[q].at = 2 /\ request[q].phase = "step"
    BY <1>4, RegisterAt DEF Flushed
  <2>2. /\ Claimed(q) /\ ~Noted(q)
        /\ Claimed(q)' /\ Noted(q)'
    BY <1>4, <2>1 DEF Flushed, Turned, Claimed, Noted
  <2>3. Grown(n, "agent.joined", request[q].name, TRUE)
    BY <1>4 DEF Flushed
  <2> QED
    BY <1>1, <1>4, <2>2, <2>3, JoinRowJoins DEF Flushed, Turned
<1> QED
  BY <1>2, <1>3, <1>4

LEMMA WroteJoins ==
    ASSUME TInv, JInv, NEW q \in Requests, Wrote(q)
    PROVE  JInv'
<1>1. request[q].at \in 1 .. 4
  BY RegisterAt
<1>2. CASE StepOf(q) = "agent"
  <2>1. request[q].op = "register" /\ request[q].at = 1 /\ request[q].phase = "step"
    BY <1>2, RegisterAt DEF Wrote
  <2>2. /\ ~Claimed(q) /\ ~Noted(q)
        /\ Claimed(q)' /\ ~Noted(q)'
    BY <2>1 DEF Wrote, Turned, Claimed, Noted
  <2>3. NameFree(q) /\ agents' = agents \cup {Claim(q)}
    BY <1>2 DEF Wrote, Claim
  <2> QED
    BY <2>2, <2>3, InsertJoins DEF Wrote, Turned
<1>3. CASE StepOf(q) # "agent"
  <2>1. request[q].op # "register"
    BY <1>3, RegisterAt DEF Wrote, Writes
  <2>2. /\ ~Claimed(q) /\ ~Noted(q)
        /\ ~Claimed(q)' /\ ~Noted(q)'
    BY <2>1 DEF Wrote, Turned, Claimed, Noted
  <2>3. Steady(q)
    BY <1>3, <2>2 DEF Wrote, Turned, Steady
  <2> QED
    BY <2>3, SteadyJoins
<1> QED
  BY <1>2, <1>3

LEMMA AnnouncedJoins ==
    ASSUME TInv, JInv, NEW q \in Requests,
           \/ \E op \in DOMAIN Steps, name \in Names \cup {None} : Began(q, op, name)
           \/ Announces(q) \/ Proceeds(q)
    PROVE  JInv'
<1>1. CASE \E op \in DOMAIN Steps, name \in Names \cup {None} : Began(q, op, name)
  <2>1. /\ ~Claimed(q) /\ ~Noted(q)
        /\ ~Claimed(q)' /\ ~Noted(q)'
    BY <1>1 DEF Began, Claimed, Noted
  <2>2. Steady(q)
    BY <1>1, <2>1 DEF Began, Steady
  <2> QED
    BY <2>2, SteadyJoins
<1>2. CASE Announces(q)
  <2>1. Claimed(q)' <=> Claimed(q)
    BY <1>2 DEF Announces, Turned, Claimed
  <2>2. Noted(q)' <=> Noted(q)
    BY <1>2, <2>1 DEF Announces, Turned, Noted
  <2>3. Steady(q)
    BY <1>2, <2>1, <2>2 DEF Announces, Turned, Steady
  <2> QED
    BY <2>3, SteadyJoins
<1>3. CASE Proceeds(q)
  <2>1. request[q].op = "register" => request[q].at = 2
    BY <1>3, RegisterAt DEF Proceeds, Announced
  <2>2. /\ Claimed(q)' <=> Claimed(q)
        /\ Noted(q)' <=> Noted(q)
    <3>1. CASE request[q].op = "register"
      BY <1>3, <2>1, <3>1 DEF Proceeds, Turned, Claimed, Noted
    <3>2. CASE request[q].op # "register"
      BY <1>3, <3>2 DEF Proceeds, Turned, Claimed, Noted
    <3> QED
      BY <3>1, <3>2
  <2>3. Steady(q)
    BY <1>3, <2>2 DEF Proceeds, Turned, Steady
  <2> QED
    BY <2>3, SteadyJoins
<1> QED
  BY <1>1, <1>2, <1>3

LEMMA NextJoins == TInv /\ OwnRows /\ JInv /\ [Next]_vars => JInv'
<1> SUFFICES ASSUME TInv, OwnRows, JInv, [Next]_vars PROVE JInv'
  OBVIOUS
<1>1. CASE Quiet
  BY <1>1 DEF Quiet, JInv, NotesOwn, ClaimsHeld, JoinsAgree, IsJoin, Claimed, Noted, Claim,
              Joined, Taken
<1>2. ASSUME NEW q \in Requests, Turn(q) PROVE JInv'
  <2>1. Committed(q) => JInv'
    BY ClaimCommits, OtherCommits
  <2> QED
    BY <1>2, <2>1, GrowsJoins, WroteJoins, AnnouncedJoins, FailedJoins DEF Turn
<1> QED
  BY <1>1, <1>2, NextTurn

LEMMA InitJoins == Init => OwnRows /\ JInv
<1> SUFFICES ASSUME Init PROVE OwnRows /\ JInv
  OBVIOUS
<1>1. DOMAIN row = {} /\ agents = {}
  BY DEF Init
<1>2. \A q \in Requests : request[q].rows = {} /\ ~Claimed(q) /\ ~Noted(q)
  BY DEF Init, Idle, Called, Claimed, Noted
<1> QED
  BY <1>1, <1>2 DEF OwnRows, JInv, NotesOwn, ClaimsHeld, JoinsAgree, Taken

LEMMA CountOne ==
    ASSUME NEW S, \A x, y \in S : x = y
    PROVE  Cardinality(S) = IF S = {} THEN 0 ELSE 1
<1>1. CASE S = {}
  BY <1>1, FS_EmptySet
<1>2. CASE S # {}
  <2>1. PICK x \in S : TRUE
    BY <1>2
  <2>2. S = {x}
    BY <2>1
  <2> QED
    BY <1>2, <2>2, FS_Singleton
<1> QED
  BY <1>1, <1>2

\* The stored history names each registered agent once, and nobody else: a name is
\* claimed by one registration at a time, and the event is stored or undone with it.
THEOREM EveryAgentJoinedOnce == Spec => []OneJoinPerName
<1>1. JInv => OneJoinPerName
  <2> SUFFICES ASSUME JInv, NEW n \in Names
               PROVE  LET S == {i \in DOMAIN row : row[i].type = "agent.joined" /\ row[i].of = n
                                                       /\ row[i].state = "committed"}
                          A == {a \in agents : a.name = n /\ a.by = {}}
                      IN  Cardinality(S) = Cardinality(A) /\ Cardinality(S) <= 1
    BY DEF OneJoinPerName
  <2> PICK S : S = {i \in DOMAIN row : row[i].type = "agent.joined" /\ row[i].of = n
                                           /\ row[i].state = "committed"}
    OBVIOUS
  <2> PICK A : A = {a \in agents : a.name = n /\ a.by = {}}
    OBVIOUS
  <2>1. \A x, y \in S : x = y
    BY DEF JInv, JoinsAgree, Joined, IsJoin
  <2>2. \A x, y \in A : x = y
    BY DEF JInv, ClaimsHeld
  <2>3. S = {} <=> A = {}
    <3>1. (\E i \in DOMAIN row : Joined(i) /\ row[i].of = n) <=> Taken(n)
      BY DEF JInv, JoinsAgree
    <3>2. Taken(n) <=> A # {}
      BY DEF Taken
    <3>3. (\E i \in DOMAIN row : Joined(i) /\ row[i].of = n) <=> S # {}
      BY DEF Joined, IsJoin
    <3> QED
      BY <3>1, <3>2, <3>3
  <2>4. /\ Cardinality(S) = IF S = {} THEN 0 ELSE 1
        /\ Cardinality(A) = IF A = {} THEN 0 ELSE 1
    BY <2>1, <2>2, CountOne
  <2> QED
    BY <2>3, <2>4
<1>2. TInv /\ OwnRows /\ JInv /\ [Next]_vars => OwnRows' /\ JInv'
  BY NextOwn, NextJoins
<1> QED
  BY <1>1, <1>2, InitJoins, TypeInvariance, PTL DEF Spec
=============================================================================
