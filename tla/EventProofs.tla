----------------------------- MODULE EventProofs -----------------------------
(***************************************************************************)
(* Proofs about the two things the message case of handleEvent starts: the *)
(* message is stored behind the cached answers (ChatCache, for any         *)
(* messages, pages and readers), and the event goes to the webhook         *)
(* (Webhook, for any events, rows and number of attempts).                 *)
(***************************************************************************)
EXTENDS ChatCache, Webhook, TLAPS

USE KindsAssumption, ChatsAssumption, FaultsAssumption, NoneAssumption

-----------------------------------------------------------------------------
(* ChatCache.                                                              *)

LEMMA InitTypes == Init => TypeOK
  BY DEF Init, TypeOK, WriterState, ReaderState, IdleWriter, IdleReader

\* What a DEL leaves, done or failed.
LEMMA DeletedTypes ==
  ASSUME TypeOK, NEW ks \in SUBSET Keys
  PROVE  Deleted(ks) \in [Keys -> Entry \cup {None}]
  BY DEF TypeOK, Deleted

LEMMA KeptTypes ==
  ASSUME TypeOK, NEW ks \in SUBSET Keys, NEW ms \in SUBSET Messages
  PROVE  Kept(ks, ms) \in [Keys -> Entry \cup {None}]
<1>1. ASSUME NEW k \in Keys, cache[k] # None
      PROVE  [cache[k] EXCEPT !.stale = TRUE] \in Entry
  BY <1>1 DEF TypeOK, Entry
<1> QED
  BY <1>1 DEF TypeOK, Kept

\* A crash spoils the entries that somebody would have deleted.
LEMMA CrashTypes ==
  ASSUME TypeOK, Crash
  PROVE  cache' \in [Keys -> Entry \cup {None}]
<1>1. ASSUME NEW k \in Keys
      PROVE  Kept({k}, {m \in Messages : WillDelete(m, k)})[k] \in Entry \cup {None}
  BY KeptTypes
<1> QED
  BY <1>1 DEF Crash

LEMMA TypeStep == TypeOK /\ [Next]_vars => TypeOK'
<1> SUFFICES ASSUME TypeOK, [Next]_vars PROVE TypeOK'
  OBVIOUS
<1>0. Pages \subseteq Keys /\ {Chats} \subseteq Keys
  BY DEF Keys
<1>1. ASSUME NEW m \in Messages, Arrive(m) PROVE TypeOK'
  BY <1>1 DEF Arrive, WriterTo, TypeOK, WriterState
<1>2. ASSUME NEW m \in Messages, InsertMessage(m) PROVE TypeOK'
  BY <1>2 DEF InsertMessage, WriterTo, TypeOK, WriterState
<1>3. ASSUME NEW m \in Messages, DelChats(m) PROVE TypeOK'
  <2>1. cache' \in [Keys -> Entry \cup {None}]
    BY <1>0, <1>3, DeletedTypes, KeptTypes DEF DelChats
  <2> QED
    BY <1>3, <2>1 DEF DelChats, WriterTo, TypeOK, WriterState
<1>4. ASSUME NEW m \in Messages, KeysPages(m) PROVE TypeOK'
  <2>1. Kept(Pages, {m}) \in [Keys -> Entry \cup {None}]
    BY <1>0, KeptTypes
  <2>2. cache' \in [Keys -> Entry \cup {None}]
    BY <1>4, <2>1 DEF KeysPages, TypeOK
  <2> QED
    BY <1>4, <2>2 DEF KeysPages, WriterTo, TypeOK, WriterState
<1>5. ASSUME NEW m \in Messages, DelPages(m) PROVE TypeOK'
  <2>1. writer[m].keys \subseteq Keys
    BY <1>0 DEF TypeOK, WriterState
  <2>2. Kept(writer[m].keys, {m}) \in [Keys -> Entry \cup {None}]
    BY <2>1, KeptTypes
  <2>3. Deleted(writer[m].keys) \in [Keys -> Entry \cup {None}]
    BY <2>1, DeletedTypes
  <2>4. cache' \in [Keys -> Entry \cup {None}]
    BY <1>5, <2>2, <2>3 DEF DelPages
  <2> QED
    BY <1>5, <2>4 DEF DelPages, WriterTo, TypeOK, WriterState
<1>6. ASSUME NEW r \in Readers, NEW k \in Keys, Miss(r, k) PROVE TypeOK'
  BY <1>6 DEF Miss, TypeOK, ReaderState
<1>7. ASSUME NEW r \in Readers, Query(r) PROVE TypeOK'
  <2>1. /\ reader[r].pc = "query" /\ reader[r].key \in Keys
        /\ reader[r].has \in SUBSET Messages /\ reader[r].partial \in BOOLEAN
        /\ DOMAIN reader[r] = {"pc", "key", "has", "partial"}
    BY <1>7 DEF Query, Reads, TypeOK, ReaderState
  <2>2. PICK x \in ReaderState : reader' = [reader EXCEPT ![r] = x]
    <3>1. IdleReader \in ReaderState
      BY DEF ReaderState, IdleReader
    <3>2. [reader[r] EXCEPT !.pc = "set", !.has = stored] \in ReaderState
      BY <2>1 DEF ReaderState, TypeOK
    <3>3. ASSUME NEW S \in SUBSET stored
          PROVE  [reader[r] EXCEPT !.pc = "set", !.has = S, !.partial = TRUE] \in ReaderState
      BY <2>1 DEF ReaderState, TypeOK
    <3> QED
      BY <1>7, <3>1, <3>2, <3>3 DEF Query, TypeOK
  <2> QED
    BY <1>7, <2>2 DEF Query, TypeOK
<1>8. ASSUME NEW r \in Readers, SetJSON(r) PROVE TypeOK'
  <2>1. reader[r].key \in Keys /\ reader[r].has \in SUBSET Messages
    BY <1>8 DEF SetJSON, Reads, TypeOK, ReaderState
  <2>2. \A b \in BOOLEAN :
          [cache EXCEPT ![reader[r].key] = [has |-> reader[r].has, stale |-> b]]
            \in [Keys -> Entry \cup {None}]
    BY <2>1 DEF TypeOK, Entry
  <2>3. cache' \in [Keys -> Entry \cup {None}]
    <3> DEFINE b == IF \/ reader[r].partial
                       \/ \E m \in stored \ reader[r].has : ~WillDelete(m, reader[r].key)
                    THEN TRUE ELSE FALSE
    <3>1. b \in BOOLEAN
      OBVIOUS
    <3>2. \/ cache' = [cache EXCEPT ![reader[r].key] = [has |-> reader[r].has, stale |-> b]]
          \/ cache' = cache
      BY <1>8 DEF SetJSON
    <3> HIDE DEF b
    <3> QED
      BY <2>2, <3>1, <3>2 DEF TypeOK
  <2> QED
    BY <1>8, <2>3 DEF SetJSON, TypeOK, ReaderState, IdleReader
<1>9. ASSUME NEW k \in Keys, Expire(k) PROVE TypeOK'
  BY <1>9 DEF Expire, TypeOK
<1>10. CASE Flush
  BY <1>10, DeletedTypes DEF Flush, TypeOK
<1>11. CASE Crash
  BY <1>11, CrashTypes DEF Crash, TypeOK, WriterState, IdleWriter, ReaderState, IdleReader
<1>12. CASE UNCHANGED vars
  BY <1>12 DEF vars, TypeOK
<1> QED
  BY <1>1, <1>2, <1>3, <1>4, <1>5, <1>6, <1>7, <1>8, <1>9, <1>10, <1>11, <1>12
  DEF Next, Store, List

IInv == TypeOK /\ OmissionExplained

LEMMA IInvInit == Init => IInv
  BY InitTypes DEF Init, IInv, OmissionExplained

\* An entry that a failed deletion has left there is stale or omits none of ms.
LEMMA KeptFacts ==
  ASSUME TypeOK, NEW ks \in SUBSET Keys, NEW ms \in SUBSET Messages, NEW k \in Keys,
         Kept(ks, ms)[k] # None
  PROVE  /\ cache[k] # None
         /\ Kept(ks, ms)[k].has = cache[k].has
         /\ cache[k].stale => Kept(ks, ms)[k].stale
         /\ k \in ks => Kept(ks, ms)[k].stale \/ ms \cap (stored \ cache[k].has) = {}
  BY DEF TypeOK, Entry, Kept

\* Whether a deletion works or fails, OmissionExplained outlives the writer's step, if
\* the writer keeps its other promises.
LEMMA DeletionStep ==
  ASSUME IInv, NEW m \in Messages, NEW ks \in SUBSET Keys,
         cache' = Deleted(ks) \/ cache' = Kept(ks, {m}), UNCHANGED stored,
         \A n \in Messages \ {m} : writer'[n] = writer[n],
         \A k \in Keys \ ks : cache[k] # None /\ WillDelete(m, k) => WillDelete(m, k)'
  PROVE  OmissionExplained'
<1> SUFFICES ASSUME NEW k \in Keys, cache'[k] # None, ~cache'[k].stale,
                    NEW n \in stored, n \notin cache'[k].has
             PROVE  WillDelete(n, k)' \/ n \in Synced \/ (n \in Sent /\ k \in Pages)
  BY DEF OmissionExplained
<1>1. /\ cache[k] # None /\ cache'[k].has = cache[k].has /\ ~cache[k].stale
      /\ k \in ks => n # m
  BY KeptFacts DEF IInv, Deleted
<1>2. n \in Messages
  BY DEF IInv, TypeOK
<1>3. WillDelete(n, k) \/ n \in Synced \/ (n \in Sent /\ k \in Pages)
  BY <1>1 DEF IInv, OmissionExplained
<1> QED
  BY <1>1, <1>2, <1>3 DEF WillDelete, Writes

LEMMA ExplainedStep == IInv /\ [Next]_vars => OmissionExplained'
<1> SUFFICES ASSUME IInv, [Next]_vars PROVE OmissionExplained'
  OBVIOUS
<1>0. Pages \subseteq Keys /\ {Chats} \subseteq Keys
  BY DEF Keys
<1>1. ASSUME NEW m \in Messages, Arrive(m) PROVE OmissionExplained'
  BY <1>1 DEF Arrive, WriterTo, Writes, IInv, TypeOK, WriterState, OmissionExplained, WillDelete
<1>2. ASSUME NEW m \in Messages, InsertMessage(m) PROVE OmissionExplained'
  <2> SUFFICES ASSUME NEW k \in Keys, cache[k] # None, ~cache[k].stale,
                      NEW n \in stored', n \notin cache[k].has
               PROVE  WillDelete(n, k)' \/ n \in Synced \/ (n \in Sent /\ k \in Pages)
    BY <1>2 DEF InsertMessage, OmissionExplained
  <2>1. n = m \/ n \in stored
    BY <1>2 DEF InsertMessage
  <2>2. CASE n = m
    BY <1>2, <2>2 DEF InsertMessage, WriterTo, IInv, TypeOK, WillDelete, Writes, Keys
  <2>3. CASE n # m
    <3>1. WillDelete(n, k) \/ n \in Synced \/ (n \in Sent /\ k \in Pages)
      BY <2>1, <2>3 DEF IInv, OmissionExplained
    <3>2. writer'[n] = writer[n]
      BY <1>2, <2>1, <2>3 DEF InsertMessage, WriterTo, IInv, TypeOK
    <3> QED
      BY <3>1, <3>2 DEF WillDelete, Writes
  <2> QED
    BY <2>2, <2>3
<1>3. ASSUME NEW m \in Messages, DelChats(m) PROVE OmissionExplained'
  <2>1. \A k \in Keys \ {Chats} : WillDelete(m, k) => WillDelete(m, k)'
    BY <1>3 DEF DelChats, WriterTo, WillDelete, Writes, IInv, TypeOK, WriterState
  <2> QED
    BY <1>0, <1>3, <2>1, DeletionStep DEF DelChats, WriterTo, IInv, TypeOK
<1>4. ASSUME NEW m \in Messages, KeysPages(m) PROVE OmissionExplained'
  <2> DEFINE found == {k \in Pages : cache[k] # None}
  <2>1. CASE WriterTo(m, "pages", found) /\ UNCHANGED cache
    <3>1. ASSUME NEW k \in Keys, cache[k] # None, WillDelete(m, k)
          PROVE  WillDelete(m, k)'
      <4>1. k \in Pages
        BY <1>4, <3>1 DEF KeysPages, WillDelete, Writes, IInv, TypeOK, WriterState
      <4>2. writer'[m].keys = found /\ k \in found
        BY <2>1, <3>1, <4>1 DEF WriterTo, IInv, TypeOK
      <4> QED
        BY <4>2 DEF WillDelete
    <3>2. cache' = Deleted({})
      BY <2>1 DEF Deleted, IInv, TypeOK
    <3>3. \A n \in Messages \ {m} : writer'[n] = writer[n]
      BY <2>1 DEF WriterTo, IInv, TypeOK
    <3> QED
      BY <1>4, <3>1, <3>2, <3>3, DeletionStep DEF KeysPages
  <2>2. CASE WriterTo(m, "idle", {}) /\ cache' = Kept(Pages, {m})
    <3>1. \A k \in Keys \ Pages : ~WillDelete(m, k)
      BY <1>4 DEF KeysPages, WillDelete, Writes, IInv, TypeOK, WriterState
    <3> QED
      BY <1>0, <1>4, <2>2, <3>1, DeletionStep DEF KeysPages, WriterTo, IInv, TypeOK
  <2> QED
    BY <1>4, <2>1, <2>2 DEF KeysPages
<1>5. ASSUME NEW m \in Messages, DelPages(m) PROVE OmissionExplained'
  <2>1. \A k \in Keys \ writer[m].keys : ~WillDelete(m, k)
    BY <1>5 DEF DelPages, WillDelete, Writes
  <2>2. writer[m].keys \in SUBSET Keys
    BY <1>0 DEF IInv, TypeOK, WriterState
  <2> QED
    BY <1>5, <2>1, <2>2, DeletionStep DEF DelPages, WriterTo, IInv, TypeOK
<1>6. ASSUME NEW r \in Readers, NEW k \in Keys, Miss(r, k) PROVE OmissionExplained'
  BY <1>6 DEF Miss, IInv, OmissionExplained, WillDelete, Writes
<1>7. ASSUME NEW r \in Readers, Query(r) PROVE OmissionExplained'
  BY <1>7 DEF Query, IInv, OmissionExplained, WillDelete, Writes
<1>8. ASSUME NEW r \in Readers, SetJSON(r) PROVE OmissionExplained'
  BY <1>8 DEF SetJSON, IInv, TypeOK, OmissionExplained, WillDelete, Writes
<1>9. ASSUME NEW k \in Keys, Expire(k) PROVE OmissionExplained'
  BY <1>9 DEF Expire, IInv, TypeOK, OmissionExplained, WillDelete, Writes
<1>10. CASE Flush
  BY <1>10 DEF Flush, Deleted, OmissionExplained
<1>11. CASE Crash
  <2> SUFFICES ASSUME NEW k \in Keys, cache'[k] # None, ~cache'[k].stale,
                      NEW n \in stored, n \notin cache'[k].has
               PROVE  n \in Synced \/ (n \in Sent /\ k \in Pages)
    BY <1>11 DEF Crash, OmissionExplained
  <2> DEFINE ms == {m \in Messages : WillDelete(m, k)}
  <2>1. cache'[k] = Kept({k}, ms)[k]
    BY <1>11 DEF Crash
  <2>2. /\ cache[k] # None /\ cache'[k].has = cache[k].has /\ ~cache[k].stale
        /\ n \notin ms
    BY <2>1, KeptFacts DEF IInv
  <2> QED
    BY <2>2 DEF IInv, TypeOK, OmissionExplained
<1>12. CASE UNCHANGED vars
  BY <1>12 DEF vars, IInv, OmissionExplained, WillDelete, Writes
<1> QED
  BY <1>1, <1>2, <1>3, <1>4, <1>5, <1>6, <1>7, <1>8, <1>9, <1>10, <1>11, <1>12
  DEF Next, Store, List

\* Every variable of the cache model keeps its type: a writer only ever deletes keys
\* of pages, and a request that has begun has a key.
THEOREM CacheTypeCorrect == Spec => []TypeOK
<1>1. TypeOK /\ [Next]_vars => TypeOK'
  BY TypeStep
<1> QED
  BY <1>1, InitTypes, PTL DEF Spec

\* What a cached answer leaves out is about to be deleted, or known to be left.
THEOREM OmissionsExplained == Spec => []OmissionExplained
<1>1. IInv /\ [Next]_vars => IInv'
  BY TypeStep, ExplainedStep DEF IInv
<1>2. IInv => OmissionExplained
  BY DEF IInv
<1> QED
  BY <1>1, <1>2, IInvInit, PTL DEF Spec

\* k's answers show m, those still to be cached included: the state that StoredIsShown
\* says is reached.
Settled(k, m) ==
    /\ m \in stored /\ Shows(k, m)
    /\ \A r \in Readers : (Reads(r, "set") /\ reader[r].key = k) => m \in reader[r].has

\* A query of request r failed just now and left messages out.
Omits(r) == Reads(r, "query") /\ reader'[r].partial

LEMMA SettledStep ==
  ASSUME TypeOK, [Next]_vars, NEW k \in Keys, NEW m \in Messages, Settled(k, m),
         \A r \in Readers : ~Omits(r)
  PROVE  Settled(k, m)'
<1> DEFINE Answers == \A r \in Readers : (Reads(r, "set") /\ reader[r].key = k)
                                          => m \in reader[r].has
           SameCache == cache'[k] = None \/ (cache[k] # None /\ cache'[k].has = cache[k].has)
<1>0. Pages \subseteq Keys /\ {Chats} \subseteq Keys
  BY DEF Keys
<1>1. m \in stored'
  BY DEF Settled, Next, Store, List, Arrive, InsertMessage, DelChats, KeysPages,
         DelPages, Miss, Query, SetJSON, Expire, Flush, Crash, vars
<1>2. SameCache => Shows(k, m)'
  BY DEF Settled, Shows
<1>3. UNCHANGED reader => Answers'
  BY DEF Settled, Reads
<1>4. \A ks \in SUBSET Keys : cache' = Deleted(ks) => SameCache
  BY DEF Deleted
<1>5. ASSUME NEW ks \in SUBSET Keys, NEW ms \in SUBSET Messages, cache' = Kept(ks, ms)
      PROVE  SameCache
  BY <1>5, KeptFacts
<1>6. UNCHANGED cache => SameCache
  OBVIOUS
<1>7. ASSUME NEW n \in Messages, Store(n) PROVE SameCache /\ UNCHANGED reader
  <2>1. writer[n].keys \in SUBSET Keys
    BY <1>0 DEF TypeOK, WriterState
  <2> HIDE DEF SameCache
  <2>2. CASE Arrive(n) \/ InsertMessage(n)
    BY <1>6, <2>2 DEF Arrive, InsertMessage
  <2>3. CASE DelChats(n)
    BY <1>0, <1>4, <1>5, <2>3 DEF DelChats
  <2>4. CASE KeysPages(n)
    BY <1>0, <1>5, <1>6, <2>4 DEF KeysPages
  <2>5. CASE DelPages(n)
    BY <1>4, <1>5, <2>1, <2>5 DEF DelPages
  <2> QED
    BY <1>7, <2>2, <2>3, <2>4, <2>5 DEF Store
<1>8. ASSUME NEW r \in Readers, NEW q \in Keys, Miss(r, q) PROVE SameCache /\ Answers'
  BY <1>8 DEF Miss, Settled, Reads, TypeOK
<1>9. ASSUME NEW r \in Readers, Query(r) PROVE SameCache /\ Answers'
  <2>1. ~Omits(r) /\ Reads(r, "query") /\ reader[r] \in ReaderState /\ UNCHANGED cache
    BY <1>9 DEF Query, TypeOK
  <2>2. \A q \in Readers \ {r} : reader'[q] = reader[q]
    BY <1>9 DEF Query, TypeOK
  <2>3. reader'[r].pc = "set" => reader'[r].has = stored
    <3>1. CASE reader' = [reader EXCEPT ![r] = [@ EXCEPT !.pc = "set", !.has = stored]]
      BY <2>1, <3>1 DEF TypeOK, ReaderState
    <3>2. CASE reader' = [reader EXCEPT ![r] = IdleReader]
      BY <3>2 DEF TypeOK, IdleReader
    <3>3. ASSUME NEW S \in SUBSET stored,
                 reader' = [reader EXCEPT ![r] = [@ EXCEPT !.pc = "set", !.has = S,
                                                           !.partial = TRUE]]
          PROVE  FALSE
      <4>1. reader'[r].partial = TRUE
        BY <2>1, <3>3 DEF TypeOK, ReaderState, Reads
      <4> QED
        BY <2>1, <4>1 DEF Omits
    <3> QED
      BY <1>9, <3>1, <3>2, <3>3 DEF Query
  <2> QED
    BY <2>1, <2>2, <2>3 DEF Settled, Reads
<1>10. ASSUME NEW r \in Readers, SetJSON(r) PROVE Shows(k, m)' /\ Answers'
  <2>1. reader[r].key = k => m \in reader[r].has
    BY <1>10 DEF SetJSON, Settled
  <2>2. Answers'
    BY <1>10 DEF SetJSON, Settled, Reads, TypeOK, IdleReader
  <2>3. UNCHANGED cache \/ reader[r].key # k \/ cache'[k].has = reader[r].has
    BY <1>10 DEF SetJSON, TypeOK
  <2>4. reader[r].key # k => cache'[k] = cache[k]
    BY <1>10 DEF SetJSON, TypeOK
  <2> QED
    BY <2>1, <2>2, <2>3, <2>4 DEF Shows, Settled
<1>11. ASSUME NEW q \in Keys, Expire(q) PROVE SameCache /\ UNCHANGED reader
  BY <1>11 DEF Expire, TypeOK
<1>12. ASSUME Flush PROVE SameCache /\ UNCHANGED reader
  BY <1>4, <1>12 DEF Flush
<1>13. ASSUME Crash PROVE SameCache /\ Answers'
  <2>1. cache'[k] = Kept({k}, {n \in Messages : WillDelete(n, k)})[k]
    BY <1>13 DEF Crash
  <2>2. SameCache
    BY <2>1, KeptFacts
  <2>3. Answers'
    BY <1>13 DEF Crash, Reads, IdleReader
  <2> QED
    BY <2>2, <2>3
<1>14. ASSUME UNCHANGED vars PROVE SameCache /\ UNCHANGED reader
  BY <1>14 DEF vars
<1>15. Shows(k, m)' /\ Answers' => Settled(k, m)'
  BY <1>1 DEF Settled
<1> HIDE DEF SameCache, Answers
<1> QED
  BY <1>2, <1>3, <1>7, <1>8, <1>9, <1>10, <1>11, <1>12, <1>13, <1>14, <1>15 DEF Next, List

\* Once every answer about a key, cached or on its way there, has a stored message, only a
\* request whose query fails puts one without it there: not another writer, a late reader,
\* an expiry, a flush or a crash.
THEOREM ShownForGood ==
  Spec => [][\A k \in Keys, m \in Messages :
               Settled(k, m) /\ ~Settled(k, m)' => \E r \in Readers : Omits(r)]_vars
<1>1. TypeOK /\ [Next]_vars =>
        [\A k \in Keys, m \in Messages :
           Settled(k, m) /\ ~Settled(k, m)' => \E r \in Readers : Omits(r)]_vars
  BY SettledStep
<1>2. TypeOK /\ [Next]_vars => TypeOK'
  BY TypeStep
<1> QED
  BY <1>1, <1>2, InitTypes, PTL DEF Spec

-----------------------------------------------------------------------------
(* Webhook.                                                                *)

TaskState == [pc : {"new", "read", "post", "sleep", "answered", "failed", "unwanted"},
              cfg : Configs \cup {NoRow}, attempt : 0 .. MaxAttempts]

HookTypeOK ==
    /\ config \in Configs \cup {NoRow}
    /\ task \in [Events -> TaskState]
    /\ handled \in [Events -> Nat]
    /\ failures \in [Events -> Nat]
    /\ lied \in SUBSET Events
    /\ lost \in SUBSET Events

\* Where a goroutine stands tells how many of its posts have failed; one that died
\* with the process had an attempt left.
AttemptsOK(e) ==
    /\ At(e, "new") => failures[e] < MaxAttempts /\ (e \notin lost => failures[e] = 0)
    /\ At(e, "read") \/ At(e, "unwanted") => failures[e] = 0
    /\ At(e, "post") => task[e].attempt > 0 /\ failures[e] = task[e].attempt - 1
    /\ At(e, "answered") => task[e].attempt > 0 /\ failures[e] = task[e].attempt - 1
    /\ At(e, "sleep") => failures[e] = task[e].attempt /\ failures[e] < MaxAttempts
    /\ At(e, "failed") => failures[e] = MaxAttempts

\* The receiver has handled what it answered, and nothing else without a lie.
HandledOK(e) == e \notin lied => handled[e] = IF At(e, "answered") THEN 1 ELSE 0

\* It has handled an event at most once per post.
PostsOK(e) == handled[e] <= failures[e] + IF At(e, "answered") THEN 1 ELSE 0

HookInv ==
    /\ HookTypeOK
    /\ \A e \in Events : AttemptsOK(e) /\ HandledOK(e) /\ PostsOK(e)

LEMMA AttemptsPositive == MaxAttempts \in Nat \ {0, 1}
  BY RetryCountAssumption DEF MaxAttempts, Retries

LEMMA HookInvInit == HookInit => HookInv
<1> SUFFICES ASSUME HookInit PROVE HookInv
  OBVIOUS
<1>1. HookTypeOK
  BY AttemptsPositive DEF HookInit, HookTypeOK, TaskState, NewTask
<1>2. ASSUME NEW e \in Events PROVE AttemptsOK(e) /\ HandledOK(e) /\ PostsOK(e)
  BY AttemptsPositive DEF HookInit, NewTask, AttemptsOK, HandledOK, PostsOK, At
<1> QED
  BY <1>1, <1>2 DEF HookInv

\* A step of one goroutine leaves the others alone: what it has to show.
LEMMA OneTask ==
  ASSUME HookInv, NEW e \in Events, HookTypeOK',
         \A x \in Events \ {e} :
             /\ task'[x] = task[x] /\ handled'[x] = handled[x] /\ failures'[x] = failures[x]
             /\ (x \in lied' <=> x \in lied) /\ (x \in lost' <=> x \in lost),
         AttemptsOK(e)', HandledOK(e)', PostsOK(e)'
  PROVE  HookInv'
<1>1. ASSUME NEW x \in Events, x # e PROVE (AttemptsOK(x) /\ HandledOK(x) /\ PostsOK(x))'
  BY <1>1 DEF HookInv, AttemptsOK, HandledOK, PostsOK, At
<1> QED
  BY <1>1 DEF HookInv

LEMMA HookInvStep == HookInv /\ [HookNext]_hookVars => HookInv'
<1> SUFFICES ASSUME HookInv, [HookNext]_hookVars PROVE HookInv'
  OBVIOUS
<1> USE AttemptsPositive
<1>1. ASSUME NEW c \in Configs \cup {NoRow}, SetWebhook(c) PROVE HookInv'
  BY <1>1 DEF SetWebhook, HookInv, HookTypeOK, AttemptsOK, HandledOK, PostsOK, At
<1>2. ASSUME NEW e \in Events, dispatchWebhook(e) PROVE HookInv'
  <2> USE <1>2 DEF dispatchWebhook, Goto, At, HookInv, HookTypeOK
  <2>1. task'[e].pc = "read" /\ task'[e].attempt = task[e].attempt
    BY DEF TaskState
  <2>2. HookTypeOK'
    BY DEF TaskState
  <2> QED
    BY <2>1, <2>2, OneTask DEF AttemptsOK, HandledOK, PostsOK
<1>3. ASSUME NEW e \in Events, ReadConfig(e) PROVE HookInv'
  <2> USE <1>3 DEF ReadConfig, Goto, At, HookInv, HookTypeOK
  <2>1. \/ task'[e].pc = "post" /\ task'[e].attempt = 1
        \/ task'[e].pc = "unwanted"
    BY DEF TaskState
  <2>2. [pc |-> "post", cfg |-> config, attempt |-> 1] \in TaskState
    BY DEF TaskState
  <2>3. [task[e] EXCEPT !.pc = "unwanted"] \in TaskState
    BY DEF TaskState
  <2>4. HookTypeOK'
    <3>1. CASE Goto(e, "unwanted")
      BY <2>3, <3>1
    <3>2. CASE task' = [task EXCEPT ![e] = [pc |-> "post", cfg |-> config, attempt |-> 1]]
      BY <2>2, <3>2
    <3> QED
      BY <3>1, <3>2
  <2> QED
    BY <2>1, <2>4, OneTask DEF AttemptsOK, HandledOK, PostsOK
<1>4. ASSUME NEW e \in Events, Answer(e) PROVE HookInv'
  <2> USE <1>4 DEF Answer, Goto, At, HookInv, HookTypeOK
  <2>1. task'[e].pc = "answered" /\ task'[e].attempt = task[e].attempt
    BY DEF TaskState
  <2>2. HookTypeOK'
    BY DEF TaskState
  <2> QED
    BY <2>1, <2>2, OneTask DEF AttemptsOK, HandledOK, PostsOK
<1>5. ASSUME NEW e \in Events, Failure(e) PROVE HookInv'
  <2> USE <1>5 DEF Failure, Goto, At, HookInv, HookTypeOK
  <2>1. /\ task[e].attempt \in 0 .. MaxAttempts
        /\ task'[e].attempt = task[e].attempt
        /\ task'[e].pc = AfterFailure(e)
        /\ failures'[e] = failures[e] + 1
    BY DEF TaskState
  <2>2. HookTypeOK'
    BY DEF TaskState, AfterFailure
  <2>3. \/ e \in lied' /\ handled'[e] = handled[e] + 1
        \/ lied' = lied /\ handled' = handled
    OBVIOUS
  <2>4. AttemptsOK(e)'
    BY <2>1 DEF AttemptsOK, AfterFailure
  <2>5. HandledOK(e)' /\ PostsOK(e)'
    BY <2>1, <2>3 DEF HandledOK, PostsOK, AfterFailure
  <2> QED
    BY <2>2, <2>4, <2>5, OneTask
<1>6. ASSUME NEW e \in Events, Sleep(e) PROVE HookInv'
  <2> USE <1>6 DEF Sleep, At, HookInv, HookTypeOK
  <2>1. /\ task[e].attempt \in 0 .. MaxAttempts
        /\ task'[e].pc = "post" /\ task'[e].attempt = task[e].attempt + 1
    BY DEF TaskState
  <2>2. task'[e].attempt \in 0 .. MaxAttempts
    BY <2>1 DEF AttemptsOK
  <2>3. [task[e] EXCEPT !.pc = "post", !.attempt = @ + 1] \in TaskState
    BY <2>1, <2>2 DEF TaskState
  <2>4. HookTypeOK'
    BY <2>3 DEF TaskState
  <2> QED
    BY <2>1, <2>4, OneTask DEF AttemptsOK, HandledOK, PostsOK
<1>7. CASE ProcessEnds
  <2> USE <1>7 DEF ProcessEnds, Running, At, HookInv, HookTypeOK
  <2>1. HookTypeOK'
    BY DEF TaskState, NewTask
  <2>2. ASSUME NEW e \in Events PROVE (AttemptsOK(e) /\ HandledOK(e) /\ PostsOK(e))'
    <3>1. CASE Running(e)
      BY <3>1 DEF AttemptsOK, HandledOK, PostsOK, NewTask, TaskState
    <3>2. CASE ~Running(e)
      BY <3>2 DEF AttemptsOK, HandledOK, PostsOK
    <3> QED
      BY <3>1, <3>2
  <2> QED
    BY <2>1, <2>2
<1>8. CASE UNCHANGED hookVars
  BY <1>8 DEF hookVars, HookInv, HookTypeOK, AttemptsOK, HandledOK, PostsOK, At
<1> QED
  BY <1>1, <1>2, <1>3, <1>4, <1>5, <1>6, <1>7, <1>8 DEF HookNext, doDispatchWebhook

LEMMA HookInvAlways == HookSpec => []HookInv
  BY HookInvInit, HookInvStep, PTL DEF HookSpec

\* For every configured number of attempts, an event is given up exactly when all of
\* them have failed, and its answer ended the posts.
THEOREM GivenUpLast == HookSpec => []GivenUpAfterAll
<1>1. HookInv => GivenUpAfterAll
  BY AttemptsPositive DEF HookInv, HookTypeOK, TaskState, AttemptsOK, GivenUpAfterAll, At
<1> QED
  BY <1>1, HookInvAlways, PTL

\* Only a receiver that handled an event without saying so sees it again.
THEOREM HandledOnlyOnce == HookSpec => []HandledOnce
<1>1. HookInv => HandledOnce
  BY DEF HookInv, HandledOK, HandledOnce
<1> QED
  BY <1>1, HookInvAlways, PTL

\* Even such a receiver handles an event once per attempt at most: a goroutine that
\* died with the process is not started again.
THEOREM HandledBounded == HookSpec => [](\A e \in Events : handled[e] <= MaxAttempts)
<1>1. HookInv => \A e \in Events : handled[e] <= MaxAttempts
  <2> SUFFICES ASSUME HookInv, NEW e \in Events PROVE handled[e] <= MaxAttempts
    OBVIOUS
  <2>1. /\ handled[e] \in Nat /\ failures[e] \in Nat
        /\ task[e].attempt \in 0 .. MaxAttempts
        /\ task[e].pc \in {"new", "read", "post", "sleep", "answered", "failed", "unwanted"}
    BY DEF HookInv, HookTypeOK, TaskState
  <2>2. IF At(e, "answered") THEN failures[e] < MaxAttempts ELSE failures[e] <= MaxAttempts
    BY <2>1, AttemptsPositive DEF HookInv, AttemptsOK, At
  <2> QED
    BY <2>1, <2>2, AttemptsPositive DEF HookInv, PostsOK
<1> QED
  BY <1>1, HookInvAlways, PTL

\* The steps a goroutine may still take.
StepsLeft(e) ==
    CASE At(e, "new") /\ e \notin lost -> 2 * MaxAttempts + 1
      [] At(e, "read") -> 2 * MaxAttempts
      [] At(e, "post") -> 2 * (MaxAttempts - task[e].attempt) + 1
      [] At(e, "sleep") -> 2 * (MaxAttempts - task[e].attempt)
      [] OTHER -> 0

\* No step gives a goroutine steps back, and its own uses one up.
Shrinks(e) ==
    /\ StepsLeft(e)' <= StepsLeft(e)
    /\ doDispatchWebhook(e) => StepsLeft(e)' < StepsLeft(e)

\* DispatchEnds without fairness: whatever goroutines, requests and crashes do, the
\* posts of an event end after a number of steps that the configuration fixes.
THEOREM DispatchShrinks == HookSpec => [][\A e \in Events : Shrinks(e)]_hookVars
<1>1. HookInv /\ HookInv' /\ [HookNext]_hookVars => [\A e \in Events : Shrinks(e)]_hookVars
  <2> SUFFICES ASSUME HookInv, HookInv', HookNext, NEW e \in Events PROVE Shrinks(e)
    OBVIOUS
  <2> USE AttemptsPositive DEF At, Shrinks
  <2>1. /\ task[e].attempt \in 0 .. MaxAttempts /\ task'[e].attempt \in 0 .. MaxAttempts
        /\ StepsLeft(e) \in Nat /\ StepsLeft(e)' \in Nat
    BY DEF HookInv, HookTypeOK, TaskState, StepsLeft
  <2>2. CASE doDispatchWebhook(e)
    <3>1. CASE ReadConfig(e)
      BY <2>1, <3>1 DEF ReadConfig, Goto, StepsLeft, HookInv, HookTypeOK, TaskState
    <3>2. CASE Answer(e)
      BY <2>1, <3>2 DEF Answer, Goto, StepsLeft, HookInv, HookTypeOK, TaskState
    <3>3. CASE Failure(e)
      BY <2>1, <3>3 DEF Failure, AfterFailure, Goto, StepsLeft, HookInv, HookTypeOK, TaskState
    <3>4. CASE Sleep(e)
      BY <2>1, <3>4 DEF Sleep, StepsLeft, HookInv, HookTypeOK, TaskState, AttemptsOK
    <3> QED
      BY <2>2, <3>1, <3>2, <3>3, <3>4 DEF doDispatchWebhook
  <2>3. CASE dispatchWebhook(e)
    BY <2>1, <2>3 DEF dispatchWebhook, doDispatchWebhook, ReadConfig, Answer, Failure, Sleep,
       Goto, StepsLeft, HookInv, HookTypeOK, TaskState
  <2>4. CASE \E c \in Configs \cup {NoRow} : SetWebhook(c)
    BY <2>1, <2>2, <2>4 DEF SetWebhook, StepsLeft
  <2>5. CASE ProcessEnds
    BY <2>1, <2>2, <2>5 DEF ProcessEnds, Running, NewTask, StepsLeft, HookInv, HookTypeOK
  <2>6. CASE \E x \in Events \ {e} : dispatchWebhook(x) \/ doDispatchWebhook(x)
    <3>1. task'[e] = task[e] /\ lost' = lost
      BY <2>6 DEF dispatchWebhook, doDispatchWebhook, ReadConfig, Answer, Failure, Sleep,
         Goto, HookInv, HookTypeOK
    <3> QED
      BY <2>1, <2>2, <3>1 DEF StepsLeft
  <2> QED
    BY <2>2, <2>3, <2>4, <2>5, <2>6 DEF HookNext
<1> QED
  BY <1>1, HookInvAlways, PTL DEF HookSpec
=============================================================================
