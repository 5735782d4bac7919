------------------------- MODULE MessagePagesProofs -------------------------
(***************************************************************************)
(* Proofs about MessagePages, for any messages, times, JIDs and limits.    *)
(***************************************************************************)
EXTENDS MessagePages, FiniteSetTheorems, TLAPS

USE NoneAssumption

\* A limited query returns some of the rows, and of the others none is newer.
LEMMA NewestFacts ==
  ASSUME NEW S, IsFiniteSet(S), NEW n \in Nat, NEW T \in Newest(S, n)
  PROVE  /\ T \subseteq S
         /\ \A m \in T, k \in S \ T : At(k) <= At(m)
         /\ Cardinality(T) <= n
         /\ T # S => Cardinality(T) = n
<1>1. Cardinality(S) \in Nat
  BY FS_CardinalityType
<1> QED
  BY <1>1 DEF Newest

\* It returns something if there is something.
LEMMA NewestNonempty ==
  ASSUME NEW S, IsFiniteSet(S), NEW n \in Nat \ {0}, {} \in Newest(S, n)
  PROVE  S = {}
<1>1. Cardinality({}) = 0
  BY FS_EmptySet
<1> QED
  BY <1>1, NewestFacts

LEMMA FiniteRows ==
  /\ \A j \in Jids : IsFiniteSet(RowsOf(j))
  /\ \A S \in SUBSET Messages : IsFiniteSet(S)
<1>1. \A S \in SUBSET Messages : IsFiniteSet(S)
  BY FS_Subset, MessagesAssumption
<1>2. \A j \in Jids : RowsOf(j) \in SUBSET Messages
  BY DEF RowsOf, Stored
<1> QED
  BY <1>1, <1>2

\* What is fetched and merged are stored rows from before the cursor.
LEMMA FetchedFacts ==
  ASSUME NEW answered \in SUBSET Jids, NEW fetched \in Fetched(answered)
  PROVE  /\ fetched \in SUBSET Stored
         /\ \A m \in fetched : Before(m)
  BY DEF Fetched, RowsOf

LEMMA InitTypes == Init => TypeOK
  BY DEF Init, TypeOK

LEMMA ListMessagesPage ==
  ASSUME ListMessages
  PROVE  page' \in SUBSET Stored /\ \A m \in page' : Before(m)
<1>1. PICK answered \in SUBSET JidsAsked \ {{}} : \E fetched \in Fetched(answered) :
         page' \in IF Cardinality(JidsAsked) > 1 THEN Merge(fetched) ELSE {fetched}
  BY DEF ListMessages
<1>2. PICK fetched \in Fetched(answered) :
         page' \in IF Cardinality(JidsAsked) > 1 THEN Merge(fetched) ELSE {fetched}
  BY <1>1
<1>3. answered \in SUBSET Jids
  BY <1>1, GivenAssumption DEF JidsAsked
<1>4. page' \subseteq fetched
  BY <1>2 DEF Merge, Newest
<1> QED
  BY <1>2, <1>3, <1>4, FetchedFacts

LEMMA TypeStep == TypeOK /\ [Next]_vars => TypeOK'
<1> SUFFICES ASSUME TypeOK, [Next]_vars PROVE TypeOK'
  OBVIOUS
<1>1. ASSUME NEW m \in Messages, NEW j \in Jids, NEW t \in Moments, InsertMessage(m, j, t)
      PROVE  TypeOK'
  BY <1>1 DEF InsertMessage, TypeOK, Row, readerVars
<1>2. CASE ClientChanges
  BY <1>2 DEF ClientChanges, TypeOK, readerVars
<1>3. ASSUME NEW b \in {"time", "id"}, StartWalk(b) PROVE TypeOK'
  BY <1>3 DEF StartWalk, TypeOK, Stored
<1>4. CASE ListMessages
  <2>1. page' \in SUBSET Stored
    BY <1>4, ListMessagesPage
  <2>2. seen' \in SUBSET Messages /\ offline' \in BOOLEAN /\ missed' \in BOOLEAN
    BY <1>4 DEF ListMessages, TypeOK
  <2>3. CASE page' = {}
    BY <1>4, <2>2, <2>3 DEF ListMessages, TypeOK
  <2>4. CASE page' # {}
    <3>1. PICK m \in page' : /\ cursor' = IF by = "time" THEN At(m) ELSE m
                             /\ cuts' = cuts \cup {At(m)}
                             /\ UNCHANGED <<walk, row, online, by, due>>
      BY <1>4, <2>4 DEF ListMessages
    <3>2. m \in Messages /\ At(m) \in Moments
      BY <2>1, <3>1 DEF TypeOK, Stored, At, Row
    <3> QED
      BY <2>1, <2>2, <3>1, <3>2 DEF TypeOK, Stored
  <2> QED
    BY <2>3, <2>4
<1>5. CASE UNCHANGED vars
  BY <1>5 DEF vars, readerVars, TypeOK
<1> QED
  BY <1>1, <1>2, <1>3, <1>4, <1>5 DEF Next

\* Everything shown and due is stored, and what is shown is not before the cursor.
CursorOK ==
    /\ due \subseteq Stored
    /\ seen \cup page \subseteq Stored
    /\ cursor = None => seen \cup page = {}
    /\ by = "time" /\ cursor # None => \A m \in seen \cup page : cursor <= At(m)

IInv == TypeOK /\ CursorOK /\ PagesDescend /\ LostOnlyTies

LEMMA IInvInit == Init => IInv
  BY InitTypes DEF Init, IInv, CursorOK, PagesDescend, LostOnlyTies

\* A new row disturbs nothing about the rows that are there.
LEMMA InsertStep ==
  ASSUME IInv, NEW n \in Messages, NEW j \in Jids, NEW t \in Moments, InsertMessage(n, j, t)
  PROVE  CursorOK' /\ PagesDescend' /\ LostOnlyTies'
<1>1. \A m \in Stored : m \in Stored' /\ At(m)' = At(m)
  BY DEF InsertMessage, Stored, At, IInv, TypeOK
<1>2. UNCHANGED readerVars
  BY DEF InsertMessage
<1> QED
  BY <1>1, <1>2 DEF IInv, CursorOK, PagesDescend, LostOnlyTies, readerVars

\* What one answer leaves out, among the rows before the cursor: with all queries
\* answered, only rows no newer than the last one of the page.
LEMMA PageComplete ==
  ASSUME TypeOK, Limit <= MaxPage, NEW fetched \in Fetched(Jids), NEW p,
         p \in IF Cardinality(Jids) > 1 THEN Merge(fetched) ELSE {fetched},
         NEW m \in Stored, Before(m), m \notin p
  PROVE  /\ p # {}
         /\ \A k \in p : At(m) <= At(k)
<1> DEFINE j == row[m].jid
           T == fetched \cap RowsOf(j)
<1>1. j \in Jids /\ m \in RowsOf(j) /\ At(m) \in Nat
  BY MomentsAssumption DEF TypeOK, Stored, Row, RowsOf, At
<1>2. QueryLimit = Limit /\ Limit \in Nat \ {0}
  BY LimitAssumption, PageAssumption DEF QueryLimit
<1>3. T \in Newest(RowsOf(j), Limit)
  BY <1>1, <1>2 DEF Fetched
<1>4. IsFiniteSet(RowsOf(j)) /\ IsFiniteSet(fetched) /\ fetched \subseteq Stored
  BY <1>1, FetchedFacts, FiniteRows DEF Stored
<1>5. /\ T \subseteq RowsOf(j)
      /\ \A k \in T, l \in RowsOf(j) \ T : At(l) <= At(k)
      /\ T # RowsOf(j) => Cardinality(T) = Limit
  BY <1>2, <1>3, <1>4, NewestFacts, LimitAssumption
<1>6. T # {}
  BY <1>1, <1>2, <1>3, <1>4, NewestNonempty
<1>7. \A k \in Stored : At(k) \in Nat
  BY MomentsAssumption DEF TypeOK, Stored, Row, At
<1>8. CASE Cardinality(Jids) > 1
  <2>1. p \in Newest(fetched, Limit)
    BY <1>8 DEF Merge
  <2>2. /\ p \subseteq fetched
        /\ \A k \in p, l \in fetched \ p : At(l) <= At(k)
        /\ Cardinality(p) <= Limit
    BY <1>2, <1>4, <2>1, NewestFacts, LimitAssumption
  <2>3. p # {}
    BY <1>2, <1>4, <1>6, <2>1, NewestNonempty
  <2>4. ASSUME NEW k \in p, ~(At(m) <= At(k)) PROVE FALSE
    <3>1. m \notin fetched
      BY <2>2, <2>4
    <3>2. Cardinality(T) = Limit
      BY <1>1, <1>5, <3>1
    <3>3. \A l \in T : At(m) <= At(l)
      BY <1>1, <1>5, <3>1
    <3>4. \A l \in T : l \in p
      BY <1>4, <1>7, <1>1, <2>2, <2>4, <3>3
    <3>5. k \notin T
      BY <2>4, <3>3
    <3>6. IsFiniteSet(T) /\ IsFiniteSet(p)
      BY <1>4, <2>2, FS_Subset
    <3>7. Cardinality(T \cup {k}) = Limit + 1 /\ IsFiniteSet(T \cup {k})
      BY <3>2, <3>5, <3>6, FS_AddElement
    <3>8. Cardinality(T \cup {k}) <= Cardinality(p)
      BY <3>4, <3>6, FS_Subset
    <3>9. Cardinality(p) \in Nat
      BY <3>6, FS_CardinalityType
    <3> QED
      BY <2>2, <3>7, <3>8, <3>9, LimitAssumption
  <2> QED
    BY <2>3, <2>4
<1>9. CASE ~(Cardinality(Jids) > 1)
  <2>1. p = fetched
    BY <1>9
  <2>2. Jids = {j}
    <3>1. Cardinality(Jids) \in Nat
      BY GivenAssumption, FS_CardinalityType
    <3>2. ASSUME NEW i \in Jids, i # j PROVE FALSE
      <4>1. Cardinality({j}) = 1 /\ IsFiniteSet({j})
        BY FS_Singleton
      <4>2. i \notin {j}
        BY <3>2
      <4>3. Cardinality({j} \cup {i}) = Cardinality({j}) + 1
        BY <4>1, <4>2, FS_AddElement
      <4>4. Cardinality({j} \cup {i}) <= Cardinality(Jids)
        BY <1>1, GivenAssumption, FS_Subset
      <4> QED
        BY <1>9, <3>1, <4>1, <4>3, <4>4
    <3> QED
      BY <1>1, <3>2
  <2>3. fetched = T
    BY <2>2 DEF Fetched
  <2> QED
    BY <1>1, <1>5, <1>6, <2>1, <2>3
<1> QED
  BY <1>8, <1>9

LEMMA PageStep == IInv /\ ListMessages => CursorOK' /\ PagesDescend' /\ LostOnlyTies'
<1> SUFFICES ASSUME IInv, ListMessages PROVE CursorOK' /\ PagesDescend' /\ LostOnlyTies'
  OBVIOUS
<1>1. page' \in SUBSET Stored /\ \A m \in page' : Before(m)
  BY ListMessagesPage
<1>2. UNCHANGED <<row, online, by, due>> /\ seen' = seen \cup page /\ walk = "reading"
  BY DEF ListMessages
<1>3. Stored' = Stored /\ \A m : At(m)' = At(m)
  BY <1>2 DEF Stored, At
<1>4. \A m \in Stored : At(m) \in Nat
  BY MomentsAssumption DEF IInv, TypeOK, Stored, Row, At
<1>5. \/ page' = {} /\ walk' = "done" /\ UNCHANGED <<cursor, cuts>>
      \/ /\ page' # {}
         /\ \E m \in page' : /\ \A k \in page' : At(m) <= At(k)
                             /\ cursor' = IF by = "time" THEN At(m) ELSE m
                             /\ cuts' = cuts \cup {At(m)}
                             /\ walk' = walk
  BY DEF ListMessages
<1>6. by = "time" => cursor = None \/ cursor \in Nat
  BY MomentsAssumption DEF IInv, TypeOK
<1>7. PagesDescend'
  <2> SUFFICES ASSUME by = "time", NEW m \in page', NEW k \in seen \cup page
               PROVE  At(m) < At(k)
    BY <1>2, <1>3 DEF PagesDescend
  <2>1. cursor # None /\ cursor <= At(k) /\ k \in Stored
    BY DEF IInv, CursorOK
  <2>2. At(m) < cursor
    BY <1>1, <2>1 DEF Before
  <2> QED
    BY <1>1, <1>4, <1>6, <2>1, <2>2
<1>8. CursorOK'
  <2>1. CASE page' = {}
    BY <1>2, <1>3, <1>5, <2>1 DEF IInv, CursorOK
  <2>2. CASE page' # {}
    <3>1. PICK m \in page' : /\ \A k \in page' : At(m) <= At(k)
                             /\ cursor' = IF by = "time" THEN At(m) ELSE m
      BY <1>5, <2>2
    <3>2. cursor' # None
      BY <1>1, <3>1 DEF IInv, TypeOK, Stored, At, Row
    <3>3. by = "time" => \A k \in seen' : At(m) <= At(k)
      BY <1>2, <1>3, <1>4, <1>7, <1>1 DEF PagesDescend, IInv, CursorOK
    <3> QED
      BY <1>1, <1>2, <1>3, <3>1, <3>2, <3>3 DEF IInv, CursorOK
  <2> QED
    BY <2>1, <2>2
<1>9. LostOnlyTies'
  <2> SUFFICES ASSUME by = "time", Limit <= MaxPage, ~offline', ~missed',
                      NEW m \in due \ (seen' \cup page'),
                      (cursor' # None /\ At(m) >= cursor') \/ walk' = "done"
               PROVE  At(m) \in cuts'
    BY <1>2, <1>3 DEF LostOnlyTies
  <2>1. ~offline /\ ~missed /\ JidsAsked = Jids
    BY DEF ListMessages, IInv, TypeOK
  <2>2. m \in Stored /\ m \notin seen \cup page
    BY <1>2 DEF IInv, CursorOK
  <2>3. CASE cursor # None /\ At(m) >= cursor
    BY <1>5, <2>1, <2>2, <2>3 DEF IInv, LostOnlyTies
  <2>4. CASE ~(cursor # None /\ At(m) >= cursor)
    <3>1. Before(m)
      BY <1>4, <1>6, <2>2, <2>4 DEF Before
    <3>2. PICK fetched \in Fetched(Jids) :
             page' \in IF Cardinality(Jids) > 1 THEN Merge(fetched) ELSE {fetched}
      <4>1. PICK answered \in SUBSET JidsAsked \ {{}} : \E fetched \in Fetched(answered) :
               /\ page' \in IF Cardinality(JidsAsked) > 1 THEN Merge(fetched) ELSE {fetched}
               /\ missed' = (missed \/ answered # JidsAsked)
        BY DEF ListMessages
      <4> QED
        BY <2>1, <4>1
    <3>3. page' # {} /\ \A k \in page' : At(m) <= At(k)
      BY <2>2, <3>1, <3>2, PageComplete DEF IInv
    <3>4. PICK k \in page' : cursor' = At(k) /\ cuts' = cuts \cup {At(k)} /\ walk' = walk
      BY <1>5, <3>3
    <3>5. At(k) <= At(m)
      BY <1>2, <3>4
    <3> QED
      BY <1>1, <1>4, <2>2, <3>3, <3>4, <3>5
  <2> QED
    BY <2>3, <2>4
<1> QED
  BY <1>7, <1>8, <1>9

LEMMA IInvStep == IInv /\ [Next]_vars => IInv'
<1> SUFFICES ASSUME IInv, [Next]_vars PROVE IInv'
  OBVIOUS
<1> USE DEF IInv
<1>1. TypeOK'
  BY TypeStep
<1>2. ASSUME NEW m \in Messages, NEW j \in Jids, NEW t \in Moments, InsertMessage(m, j, t)
      PROVE  IInv'
  BY <1>1, <1>2, InsertStep
<1>3. CASE ClientChanges
  BY <1>1, <1>3 DEF ClientChanges, readerVars, CursorOK, PagesDescend, LostOnlyTies, Stored, At
<1>4. ASSUME NEW b \in {"time", "id"}, StartWalk(b) PROVE IInv'
  BY <1>1, <1>4 DEF StartWalk, CursorOK, PagesDescend, LostOnlyTies, Stored, At
<1>5. CASE ListMessages
  BY <1>1, <1>5, PageStep
<1>6. CASE UNCHANGED vars
  BY <1>1, <1>6 DEF vars, readerVars, CursorOK, PagesDescend, LostOnlyTies, Stored, At
<1> QED
  BY <1>2, <1>3, <1>4, <1>5, <1>6 DEF Next

\* Every variable keeps its type.
THEOREM TypeCorrect == Spec => []TypeOK
<1>1. TypeOK /\ [Next]_vars => TypeOK'
  BY TypeStep
<1> QED
  BY <1>1, InitTypes, PTL DEF Spec

\* A walk by time shows no message twice, whatever is stored meanwhile.
THEOREM WalkDescends == Spec => []PagesDescend
<1>1. IInv => PagesDescend
  BY DEF IInv
<1> QED
  BY <1>1, IInvInit, IInvStep, PTL DEF Spec

\* A walk by time misses, of what was there, only the seconds at which pages end.
THEOREM WalkLosesTiesOnly == Spec => []LostOnlyTies
<1>1. IInv => LostOnlyTies
  BY DEF IInv
<1> QED
  BY <1>1, IInvInit, IInvStep, PTL DEF Spec
=============================================================================
