------------------------------ MODULE ChatCache ------------------------------
(***************************************************************************)
(* Messages of one account that are stored while answers about them sit in *)
(* Redis: ListMessages, ListChats, storeMessage, storeOutgoing,            *)
(* storeHistorySync and the message case of handleEvent in                 *)
(* service/account.go, cache/cache.go and handler/cache.go.                *)
(*                                                                         *)
(* An answer is the set of messages it was computed from.  Statements and  *)
(* Redis commands are one step each; the code ignores it when one of them  *)
(* fails.  MessagePages has what is in a page.                             *)
(***************************************************************************)
EXTENDS Naturals

CONSTANTS Messages,     \* messages, by how they are stored:
          Sent,         \*   by a send operation,
          Synced,       \*   by a history sync, and the others by a Message event
          Pages,        \* keys msgs:<id>:<chat>:<limit>:<before>
          Chats,        \* the key chats:<id>
          Readers,      \* slots for requests that list messages or chats
          Faults,       \* may statements and Redis commands fail?
          None          \* no entry, no key

ASSUME KindsAssumption == Sent \subseteq Messages /\ Synced \subseteq Messages \ Sent
ASSUME ChatsAssumption == Chats \notin Pages
ASSUME FaultsAssumption == Faults \in BOOLEAN
ASSUME NoneAssumption ==
    /\ None \notin Pages \cup {Chats}
    /\ None \notin [has : SUBSET Messages, stale : BOOLEAN]

Keys == Pages \cup {Chats}

VARIABLES
    stored,     \* the message table
    cache,      \* Redis: key to entry
    writer,     \* who stores a message: what comes next, keys still to delete
    reader      \* requests: what comes next, the key, the answer

vars == <<stored, cache, writer, reader>>

\* An entry: what the answer was computed from, and a ghost: did one of its queries
\* or a deletion meant for it fail, or was it cached after such a deletion?
Entry == [has : SUBSET Messages, stale : BOOLEAN]
WriterState ==
    [pc : {"idle", "insert", "chats", "keys"}, keys : {{}}]
    \cup [pc : {"pages"}, keys : SUBSET Pages]
ReaderState ==
    [pc : {"idle"}, key : {None}, has : {{}}, partial : {FALSE}]
    \cup [pc : {"query", "set"}, key : Keys, has : SUBSET Messages, partial : BOOLEAN]
IdleWriter == [pc |-> "idle", keys |-> {}]
IdleReader == [pc |-> "idle", key |-> None, has |-> {}, partial |-> FALSE]

TypeOK ==
    /\ stored \in SUBSET Messages
    /\ cache \in [Keys -> Entry \cup {None}]
    /\ writer \in [Messages -> WriterState]
    /\ reader \in [Readers -> ReaderState]

Init ==
    /\ stored = {}
    /\ cache = [k \in Keys |-> None]
    /\ writer = [m \in Messages |-> IdleWriter]
    /\ reader = [r \in Readers |-> IdleReader]

-----------------------------------------------------------------------------
(* Writers.                                                                *)

Writes(m, pc) == writer[m].pc = pc
WriterTo(m, pc, ks) == writer' = [writer EXCEPT ![m] = [pc |-> pc, keys |-> ks]]

\* The writer of m will still delete key k.
WillDelete(m, k) ==
    \/ k = Chats /\ Writes(m, "chats")
    \/ k \in Pages /\ m \notin Sent /\ Writes(m, "chats")
    \/ k \in Pages /\ Writes(m, "keys")
    \/ k \in writer[m].keys

\* The cache after DEL, and after a deletion of ks for the messages in ms that failed.
Deleted(ks) == [k \in Keys |-> IF k \in ks THEN None ELSE cache[k]]
Kept(ks, ms) ==
    [k \in Keys |-> IF k \in ks /\ cache[k] # None /\ ms \cap (stored \ cache[k].has) # {}
                    THEN [cache[k] EXCEPT !.stale = TRUE]
                    ELSE cache[k]]

\* A message event, a send's answer or a history sync arrives; a message may come
\* again.
Arrive(m) ==
    /\ Writes(m, "idle")
    /\ WriterTo(m, "insert", {})
    /\ UNCHANGED <<stored, cache, reader>>

\* InsertMessage.  The caller goes on when it fails; a history sync deletes no key.
InsertMessage(m) ==
    /\ Writes(m, "insert")
    /\ \/ stored' = stored \cup {m}
       \/ Faults /\ UNCHANGED stored
    /\ WriterTo(m, IF m \in Synced THEN "idle" ELSE "chats", {})
    /\ UNCHANGED <<cache, reader>>

\* (mutant: the list of chats is not deleted)
DelChats_Not(m) ==
    /\ Writes(m, "chats")
    /\ WriterTo(m, IF m \in Sent THEN "idle" ELSE "keys", {})
    /\ UNCHANGED <<stored, cache, reader>>

\* DEL chats:<id>, the only one of storeOutgoing.
DelChats(m) ==
    /\ Writes(m, "chats")
    /\ \/ cache' = Deleted({Chats})
       \/ Faults /\ cache' = Kept({Chats}, {m})
    /\ WriterTo(m, IF m \in Sent THEN "idle" ELSE "keys", {})
    /\ UNCHANGED <<stored, reader>>

\* KEYS msgs:<id>:*; when it fails nothing is deleted.
KeysPages(m) ==
    /\ Writes(m, "keys")
    /\ \/ WriterTo(m, "pages", {k \in Pages : cache[k] # None}) /\ UNCHANGED cache
       \/ Faults /\ WriterTo(m, "idle", {}) /\ cache' = Kept(Pages, {m})
    /\ UNCHANGED <<stored, reader>>

\* DEL of the keys found.
DelPages(m) ==
    /\ Writes(m, "pages")
    /\ \/ cache' = Deleted(writer[m].keys)
       \/ Faults /\ cache' = Kept(writer[m].keys, {m})
    /\ WriterTo(m, "idle", {})
    /\ UNCHANGED <<stored, reader>>

-----------------------------------------------------------------------------
(* Readers.                                                                *)

Reads(r, pc) == reader[r].pc = pc

\* GetJSON misses or fails: the answer has to be computed.  A hit is answered at
\* once and changes nothing.
Miss(r, k) ==
    /\ Reads(r, "idle")
    /\ cache[k] = None \/ Faults
    /\ reader' = [reader EXCEPT ![r] = [pc |-> "query", key |-> k, has |-> {},
                                        partial |-> FALSE]]
    /\ UNCHANGED <<stored, cache, writer>>

\* The queries.  A request gives up when the first page query fails or, for the
\* chats, no client is connected; other failures leave messages out.
Query(r) ==
    /\ Reads(r, "query")
    /\ \/ reader' = [reader EXCEPT ![r] = [@ EXCEPT !.pc = "set", !.has = stored]]
       \/ /\ Faults
          /\ \E S \in SUBSET stored :
               reader' = [reader EXCEPT ![r] = [@ EXCEPT !.pc = "set", !.has = S,
                                                         !.partial = TRUE]]
       \/ reader' = [reader EXCEPT ![r] = IdleReader]
    /\ UNCHANGED <<stored, cache, writer>>

\* SetJSON, and the answer.
SetJSON(r) ==
    /\ Reads(r, "set")
    /\ \/ cache' = [cache EXCEPT ![reader[r].key] =
              [has |-> reader[r].has,
               stale |-> IF \/ reader[r].partial
                            \/ \E m \in stored \ reader[r].has : ~WillDelete(m, reader[r].key)
                         THEN TRUE ELSE FALSE]]
       \/ Faults /\ UNCHANGED cache
    /\ reader' = [reader EXCEPT ![r] = IdleReader]
    /\ UNCHANGED <<stored, writer>>

\* (mutant: entries are stored without a time to live)
Expire_Never(k) ==
    /\ FALSE
    /\ cache' = [cache EXCEPT ![k] = None]
    /\ UNCHANGED <<stored, writer, reader>>

\* An entry's 5 or 8 seconds are over, or Redis evicts it.
Expire(k) ==
    /\ cache[k] # None
    /\ cache' = [cache EXCEPT ![k] = None]
    /\ UNCHANGED <<stored, writer, reader>>

\* POST /api/v1/cache/flush.
Flush ==
    /\ cache' = Deleted(Keys)
    /\ UNCHANGED <<stored, writer, reader>>

\* The process ends; Redis and the table stay.
Crash ==
    /\ writer' = [m \in Messages |-> IdleWriter]
    /\ reader' = [r \in Readers |-> IdleReader]
    /\ cache' = [k \in Keys |-> Kept({k}, {m \in Messages : WillDelete(m, k)})[k]]
    /\ UNCHANGED stored

Store(m) == Arrive(m) \/ InsertMessage(m) \/ DelChats(m) \/ KeysPages(m) \/ DelPages(m)
List(r) == (\E k \in Keys : Miss(r, k)) \/ Query(r) \/ SetJSON(r)

Next ==
    \/ \E m \in Messages : Store(m)
    \/ \E r \in Readers : List(r)
    \/ \E k \in Keys : Expire(k)
    \/ Flush \/ Crash

Spec == Init /\ [][Next]_vars

\* A request that has begun goes on, and Redis forgets an entry in time.
FairSpec ==
    /\ Spec
    /\ \A r \in Readers : WF_vars(Query(r) \/ SetJSON(r))
    /\ \A k \in Keys : WF_vars(Expire(k))

-----------------------------------------------------------------------------
\* What a cached answer leaves out, although it is stored, will be deleted from
\* the cache by the message's writer; or the writer never does that (history;
\* pages, for a sent message), or the entry is stale: a query or a deletion failed,
\* or the answer was computed before the message was stored and cached after the
\* deletion.
OmissionExplained ==
    \A k \in Keys : cache[k] # None =>
        \/ cache[k].stale
        \/ \A m \in stored \ cache[k].has :
             \/ WillDelete(m, k)
             \/ m \in Synced
             \/ m \in Sent /\ k \in Pages

\* Whatever the interleaving, and whatever failed before, a stored message is in
\* every cached answer from some time on, provided that queries stop failing.
Shows(k, m) == cache[k] = None \/ m \in cache[k].has
QueriesRecover == <>[](\A r \in Readers : ~reader[r].partial)
StoredIsShown ==
    QueriesRecover => \A m \in Messages, k \in Keys : m \in stored ~> []Shows(k, m)
=============================================================================
