---------------------------- MODULE MessagePages ----------------------------
(***************************************************************************)
(* The message history of one chat and a reader that walks through it page *)
(* by page: ListMessages of service/account.go and of                      *)
(* database/database.go, GetMessages of handler/messages.go and the MCP    *)
(* tool get_messages.                                                      *)
(*                                                                         *)
(* A person's chat has two JIDs, a phone number and a LID, and its rows    *)
(* are under whichever was known when they arrived.  The cursor of the     *)
(* next page is the time, in whole seconds, of the last message of this    *)
(* one.  The cache is off here.  Rows of type "protocol", which            *)
(* ListMessages leaves out, are never stored (isStorableMessage).          *)
(***************************************************************************)
EXTENDS Naturals, FiniteSets

CONSTANTS Messages,     \* message ids
          HighIds,      \* those that compare, as strings, above every time
          Jids,         \* the JIDs of the chat
          Given,        \* the one the reader asks for
          Moments,      \* seconds
          Limit,        \* the limit the reader asks for, as the handler caps it
          MaxPage,      \* the largest limit the query takes (200)
          DefaultPage,  \* what it takes instead of a larger one (50)
          None          \* no row, no cursor

ASSUME MessagesAssumption == IsFiniteSet(Messages) /\ HighIds \subseteq Messages
ASSUME GivenAssumption == Given \in Jids /\ IsFiniteSet(Jids)
ASSUME MomentsAssumption == Moments \subseteq Nat
ASSUME LimitAssumption == Limit \in Nat \ {0}
ASSUME PageAssumption == DefaultPage \in 1 .. MaxPage /\ MaxPage \in Nat
ASSUME NoneAssumption == None \notin Messages \cup Moments \cup [jid : Jids, at : Moments]
ASSUME ApartAssumption == Messages \cap Moments = {}

VARIABLES
    row,        \* the message table, for this chat
    online,     \* is there a client whose store maps the JIDs to each other?
    walk,       \* the reader: "idle", "reading", "done"
    by,         \* what its cursors are: "time" (REST), "id" (MCP)
    cursor,     \* before
    page,       \* the last answer
    seen,       \* the messages of the answers before
    due,        \* what was stored when the walk began
    cuts,       \* the seconds at which pages ended
    offline,    \* ghost: a page was read without the JIDs' mapping
    missed      \* ghost: a page was read although one of its queries failed

readerVars == <<walk, by, cursor, page, seen, due, cuts, offline, missed>>
vars == <<row, online, readerVars>>

Row == [jid : Jids, at : Moments]

TypeOK ==
    /\ row \in [Messages -> Row \cup {None}]
    /\ online \in BOOLEAN
    /\ walk \in {"idle", "reading", "done"}
    /\ by \in {"time", "id"}
    /\ cursor \in IF by = "time" THEN Moments \cup {None} ELSE Messages \cup {None}
    /\ page \in SUBSET Messages
    /\ seen \in SUBSET Messages
    /\ due \in SUBSET Messages
    /\ cuts \in SUBSET Moments
    /\ offline \in BOOLEAN
    /\ missed \in BOOLEAN

Init ==
    /\ row = [m \in Messages |-> None]
    /\ online \in BOOLEAN
    /\ walk = "idle" /\ by = "time" /\ cursor = None
    /\ page = {} /\ seen = {} /\ due = {} /\ cuts = {}
    /\ offline = FALSE /\ missed = FALSE

-----------------------------------------------------------------------------
Stored == {m \in Messages : row[m] # None}
At(m) == row[m].at

\* The sets a query for the newest n rows of S may return.
Newest(S, n) ==
    {T \in SUBSET S :
        /\ \A m \in T, k \in S \ T : At(k) <= At(m)
        /\ IF Cardinality(S) <= n THEN T = S ELSE Cardinality(T) = n}

\* (mutant: the cursor's own second is asked for again)
Before_Inclusive(m) ==
    \/ cursor = None
    \/ by = "time" /\ At(m) <= cursor
    \/ by = "id" /\ cursor \in HighIds

\* The condition timestamp < before: a comparison of strings.
Before(m) ==
    \/ cursor = None
    \/ by = "time" /\ At(m) < cursor
    \/ by = "id" /\ cursor \in HighIds

\* The rows a query for JID j looks at.
RowsOf(j) == {m \in Stored : row[m].jid = j /\ Before(m)}

\* The limit of one query.
QueryLimit == IF Limit > MaxPage THEN DefaultPage ELSE Limit

\* The JIDs ListMessages asks for.
JidsAsked == IF online THEN Jids ELSE {Given}

\* What its queries may return together, when those for the JIDs in answered work.
Fetched(answered) ==
    {S \in SUBSET UNION {RowsOf(j) : j \in answered} :
        \A j \in answered : S \cap RowsOf(j) \in Newest(RowsOf(j), QueryLimit)}

\* storeMessage, storeHistorySync, storeOutgoing: a row, of any age.
InsertMessage(m, j, t) ==
    /\ row[m] = None
    /\ row' = [row EXCEPT ![m] = [jid |-> j, at |-> t]]
    /\ UNCHANGED <<online, readerVars>>

\* The account gets or loses its client.
ClientChanges ==
    /\ online' = ~online
    /\ UNCHANGED <<row, readerVars>>

\* A reader asks for the history from its newest message on.
StartWalk(b) ==
    /\ walk' = "reading" /\ by' = b /\ cursor' = None
    /\ page' = {} /\ seen' = {} /\ due' = Stored /\ cuts' = {}
    /\ offline' = FALSE /\ missed' = FALSE
    /\ UNCHANGED <<row, online>>

\* (mutant: the merged rows are not sorted before they are cut)
Merge_Unsorted(S) == {T \in SUBSET S : Cardinality(T) = IF Cardinality(S) <= Limit
                                                        THEN Cardinality(S) ELSE Limit}

\* The rows of several JIDs are sorted and cut again.
Merge(S) == Newest(S, Limit)

\* One answer, and the cursor the reader takes from its last message.  The first
\* query has to work; of the others a failure is ignored.
ListMessages ==
    /\ walk = "reading"
    /\ \E answered \in SUBSET JidsAsked \ {{}} : \E fetched \in Fetched(answered) :
         /\ page' \in IF Cardinality(JidsAsked) > 1 THEN Merge(fetched) ELSE {fetched}
         /\ missed' = (missed \/ answered # JidsAsked)
    /\ offline' = (offline \/ JidsAsked # Jids)
    /\ seen' = seen \cup page
    /\ IF page' = {}
       THEN walk' = "done" /\ UNCHANGED <<cursor, cuts>>
       ELSE \E m \in page' :
              /\ \A k \in page' : At(m) <= At(k)
              /\ cursor' = IF by = "time" THEN At(m) ELSE m
              /\ cuts' = cuts \cup {At(m)}
              /\ UNCHANGED walk
    /\ UNCHANGED <<row, online, by, due>>

Next ==
    \/ \E m \in Messages, j \in Jids, t \in Moments : InsertMessage(m, j, t)
    \/ ClientChanges
    \/ \E b \in {"time", "id"} : StartWalk(b)
    \/ ListMessages

Spec == Init /\ [][Next]_vars

-----------------------------------------------------------------------------
\* A walk by time goes back in time from page to page, whatever is stored
\* meanwhile: no message is shown twice.
PagesDescend == by = "time" => \A m \in page, k \in seen : At(m) < At(k)

\* Of what was stored before, a walk by time leaves out only messages of the very
\* second at which a page ended, as long as the limit is one the query takes, the
\* mapping of the JIDs is there and no query fails.
LostOnlyTies ==
    (by = "time" /\ Limit <= MaxPage /\ ~offline /\ ~missed) =>
        \A m \in due \ (seen \cup page) :
            (cursor # None /\ At(m) >= cursor) \/ walk = "done" => At(m) \in cuts
=============================================================================
