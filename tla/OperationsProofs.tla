-------------------------- MODULE OperationsProofs ---------------------------
(***************************************************************************)
(* What Operations promises for every number of requests, any limit, cost  *)
(* and capacity of the bucket, and every session Session allows.           *)
(*                                                                         *)
(* The first part looks at the programs of Handlers alone: what a program  *)
(* is made of decides what may follow a grant or a change.  The second     *)
(* part is about the steps.                                                *)
(***************************************************************************)
EXTENDS Operations, FiniteSetTheorems, TLAPS

\* The steps that HasStoredCredentials and EnsureConnected may skip after this one.
Jump(step) == IF step \in {"connect", "verify"} THEN 1 ELSE IF step = "stored" THEN 2 ELSE 0

Marked == {"allow", "write", "send"}

\* The steps that take a.mu and keep it for the network call that follows.
Preparing == {"connect", "verify", "qr"}

\* Step i of a program is what it should be among its neighbours: what it may skip is part
\* of the program, ends with a network call and is neither a grant nor a change; a network
\* call comes behind the step that prepares it.
Fits(p, i) ==
    /\ i + Jump(p[i]) <= Len(p)
    /\ \A k \in (i + 1) .. (i + Jump(p[i])) : p[k] \notin Marked
    /\ Jump(p[i]) > 0 => p[i + Jump(p[i])] \in DialSteps
    /\ p[i] \in DialSteps => i > 1 /\ p[i - 1] \in Preparing

Whole(p) == p \in Seq(Steps) /\ \A i \in 1 .. Len(p) : Fits(p, i)

\* A program sends once, after it has asked the limiter.
Limited(p) ==
    \A j \in 1 .. Len(p) : p[j] = "send" =>
        /\ \E i \in 1 .. (j - 1) : p[i] = "allow"
        /\ \A k \in 1 .. (j - 1) : p[k] # "send"

Reading(p) == Whole(p) /\ \A i \in 1 .. Len(p) : p[i] \notin Marked
Changing(p) == Whole(p) /\ \A i \in 1 .. Len(p) : p[i] \notin {"allow", "send"}
Final(p) == Whole(p) /\ Limited(p) /\ ~Partial(p)

AllReading(A) == \A p \in A : Reading(p)
AllChanging(A) == \A p \in A : Changing(p)
AllFinal(A) == \A p \in A : Final(p)

-----------------------------------------------------------------------------
(* Programs.                                                               *)

LEMMA JoinParts ==
    ASSUME NEW p \in Seq(Steps), NEW q \in Seq(Steps)
    PROVE  /\ p \o q \in Seq(Steps)
           /\ Len(p \o q) = Len(p) + Len(q)
           /\ Len(p) \in Nat /\ Len(q) \in Nat
           /\ \A i \in 1 .. Len(p) : (p \o q)[i] = p[i]
           /\ \A i \in 1 .. Len(q) : (p \o q)[Len(p) + i] = q[i]
           /\ \A i \in 1 .. Len(p \o q) : i > Len(p) => (p \o q)[i] = q[i - Len(p)]
OBVIOUS

\* Skipping stays within each of two programs.
LEMMA JoinWhole ==
    ASSUME NEW p, NEW q, Whole(p), Whole(q)
    PROVE  Whole(p \o q)
<1> DEFINE r == p \o q
<1>0. p \in Seq(Steps) /\ q \in Seq(Steps)
  BY DEF Whole
<1>1. /\ r \in Seq(Steps) /\ Len(r) = Len(p) + Len(q) /\ Len(p) \in Nat /\ Len(q) \in Nat
      /\ \A i \in 1 .. Len(p) : r[i] = p[i]
      /\ \A i \in 1 .. Len(r) : i > Len(p) => r[i] = q[i - Len(p)]
  BY <1>0, JoinParts
<1> HIDE DEF r
<1>2. ASSUME NEW i \in 1 .. Len(r) PROVE Fits(r, i)
  <2>1. \A step : Jump(step) \in Nat
    BY DEF Jump
  <2>2. CASE i <= Len(p)
    <3>1. r[i] = p[i] /\ i \in 1 .. Len(p) /\ Fits(p, i)
      BY <1>1, <2>2 DEF Whole
    <3>2. i + Jump(p[i]) <= Len(p) /\ i + Jump(p[i]) <= Len(r)
      BY <1>1, <2>1, <3>1 DEF Fits
    <3>3. \A k \in i .. (i + Jump(p[i])) : r[k] = p[k]
      <4>1. i \in Nat /\ i >= 1 /\ Jump(p[i]) \in Nat
        BY <2>1, <3>1
      <4>2. i .. (i + Jump(p[i])) \subseteq 1 .. Len(p)
        BY <1>1, <3>2, <4>1
      <4> QED
        BY <1>1, <4>2
    <3>4. \A k \in (i + 1) .. (i + Jump(p[i])) : r[k] \notin Marked
      BY <3>1, <3>3 DEF Fits
    <3>5. Jump(p[i]) > 0 => r[i + Jump(p[i])] \in DialSteps
      BY <2>1, <3>1, <3>3 DEF Fits
    <3>6. p[i] \in DialSteps => i > 1 /\ r[i - 1] \in Preparing
      BY <1>1, <3>1 DEF Fits
    <3> QED
      BY <3>1, <3>2, <3>4, <3>5, <3>6 DEF Fits
  <2>3. CASE i > Len(p)
    <3> DEFINE j == i - Len(p)
    <3>1. r[i] = q[j] /\ j \in 1 .. Len(q) /\ Fits(q, j)
      BY <1>1, <2>3 DEF Whole
    <3>2. j + Jump(q[j]) <= Len(q) /\ i + Jump(q[j]) <= Len(r)
      BY <1>1, <2>1, <3>1 DEF Fits
    <3>3. ASSUME NEW k \in Int, k \in i .. (i + Jump(q[j])) \/ (k = i - 1 /\ j > 1)
          PROVE  r[k] = q[k - Len(p)]
      <4>1. k \in 1 .. Len(r) /\ k > Len(p)
        BY <1>1, <2>1, <3>1, <3>2, <3>3
      <4> QED
        BY <1>1, <4>1
    <3>4. ASSUME NEW k \in (i + 1) .. (i + Jump(q[j])) PROVE r[k] \notin Marked
      <4>1. k - Len(p) \in (j + 1) .. (j + Jump(q[j])) /\ k \in i .. (i + Jump(q[j]))
        BY <1>1, <2>1, <3>4
      <4> QED
        BY <3>1, <3>3, <4>1 DEF Fits
    <3>5. ASSUME Jump(q[j]) > 0 PROVE r[i + Jump(q[j])] \in DialSteps
      <4>1. /\ i + Jump(q[j]) \in i .. (i + Jump(q[j]))
            /\ (i + Jump(q[j])) - Len(p) = j + Jump(q[j])
        BY <1>1, <2>1
      <4> QED
        BY <3>1, <3>3, <3>5, <4>1 DEF Fits
    <3>6. ASSUME q[j] \in DialSteps PROVE i > 1 /\ r[i - 1] \in Preparing
      <4>1. j > 1 /\ q[j - 1] \in Preparing
        BY <3>1, <3>6 DEF Fits
      <4>2. i - 1 \in Int /\ (i - 1) - Len(p) = j - 1 /\ i > 1
        BY <1>1, <4>1
      <4> QED
        BY <3>3, <4>1, <4>2
    <3> HIDE DEF j
    <3> QED
      BY <3>1, <3>2, <3>4, <3>5, <3>6 DEF Fits
  <2> QED
    BY <1>1, <2>2, <2>3
<1> QED
  BY <1>1, <1>2 DEF Whole, r

LEMMA JoinReading ==
    ASSUME NEW p, NEW q, Reading(p), Reading(q)
    PROVE  Reading(p \o q)
<1> DEFINE r == p \o q
<1>1. p \in Seq(Steps) /\ q \in Seq(Steps) /\ Whole(r)
  BY JoinWhole DEF Reading, Whole
<1>2. /\ Len(r) = Len(p) + Len(q) /\ Len(p) \in Nat /\ Len(q) \in Nat
      /\ \A i \in 1 .. Len(p) : r[i] = p[i]
      /\ \A i \in 1 .. Len(r) : i > Len(p) => r[i] = q[i - Len(p)]
  BY <1>1, JoinParts
<1> HIDE DEF r
<1>3. \A i \in 1 .. Len(r) : i > Len(p) => i - Len(p) \in 1 .. Len(q)
  BY <1>2
<1>4. ASSUME NEW i \in 1 .. Len(r) PROVE r[i] \notin Marked
  <2>1. CASE i <= Len(p)
    BY <1>2, <2>1 DEF Reading
  <2>2. CASE i > Len(p)
    BY <1>2, <1>3, <2>2 DEF Reading
  <2> QED
    BY <1>2, <2>1, <2>2
<1> QED
  BY <1>1, <1>4 DEF Reading, r

LEMMA JoinChanging ==
    ASSUME NEW p, NEW q, Changing(p), Changing(q)
    PROVE  Changing(p \o q)
<1> DEFINE r == p \o q
<1>1. p \in Seq(Steps) /\ q \in Seq(Steps) /\ Whole(r)
  BY JoinWhole DEF Changing, Whole
<1>2. /\ Len(r) = Len(p) + Len(q) /\ Len(p) \in Nat /\ Len(q) \in Nat
      /\ \A i \in 1 .. Len(p) : r[i] = p[i]
      /\ \A i \in 1 .. Len(r) : i > Len(p) => r[i] = q[i - Len(p)]
  BY <1>1, JoinParts
<1> HIDE DEF r
<1>3. \A i \in 1 .. Len(r) : i > Len(p) => i - Len(p) \in 1 .. Len(q)
  BY <1>2
<1>4. ASSUME NEW i \in 1 .. Len(r) PROVE r[i] \notin {"allow", "send"}
  <2>1. CASE i <= Len(p)
    BY <1>2, <2>1 DEF Changing
  <2>2. CASE i > Len(p)
    BY <1>2, <1>3, <2>2 DEF Changing
  <2> QED
    BY <1>2, <2>1, <2>2
<1> QED
  BY <1>1, <1>4 DEF Changing, r

\* What reads may come before what changes: nothing else follows the change.
LEMMA JoinFinal ==
    ASSUME NEW p, NEW q, Reading(p), Final(q)
    PROVE  Final(p \o q)
<1> DEFINE r == p \o q
           n == Len(p)
<1>0. p \in Seq(Steps) /\ q \in Seq(Steps)
  BY DEF Whole, Reading, Final
<1>1. /\ r \in Seq(Steps) /\ Len(r) = n + Len(q) /\ n \in Nat /\ Len(q) \in Nat
      /\ \A i \in 1 .. n : r[i] \notin Marked
      /\ \A i \in 1 .. Len(q) : r[n + i] = q[i]
      /\ \A i \in 1 .. Len(r) : i > n => r[i] = q[i - n]
  BY <1>0, JoinParts DEF Reading
<1>2. Whole(r)
  BY JoinWhole DEF Reading, Final
<1> HIDE DEF r, n
<1>3. Limited(r)
  <2> SUFFICES ASSUME NEW j \in 1 .. Len(r), r[j] = "send"
               PROVE  /\ \E i \in 1 .. (j - 1) : r[i] = "allow"
                      /\ \A k \in 1 .. (j - 1) : r[k] # "send"
    BY DEF Limited
  <2>1. j > n /\ j - n \in 1 .. Len(q) /\ q[j - n] = "send"
    BY <1>1 DEF Marked
  <2>2. PICK i \in 1 .. (j - n - 1) : q[i] = "allow"
    BY <1>1, <2>1 DEF Final, Limited
  <2>3. n + i \in 1 .. (j - 1) /\ r[n + i] = "allow"
    BY <1>1, <2>1, <2>2
  <2>4. ASSUME NEW k \in 1 .. (j - 1) PROVE r[k] # "send"
    <3>1. CASE k <= n
      BY <1>1, <3>1 DEF Marked
    <3>2. CASE k > n
      <4>1. r[k] = q[k - n] /\ k - n \in 1 .. (j - n - 1)
        BY <1>1, <2>1, <3>2
      <4> QED
        BY <1>1, <2>1, <4>1 DEF Final, Limited
    <3> QED
      BY <1>1, <3>1, <3>2
  <2> QED
    BY <2>3, <2>4
<1>4. ~Partial(r)
  <2> SUFFICES ASSUME NEW i \in 1 .. Len(r), NEW j \in 1 .. Len(r), i < j, r[i] \in {"write", "send"}
               PROVE  r[j] \in {"try", "store"}
    BY <1>1 DEF Partial
  <2>1. i > n
    BY <1>1 DEF Marked
  <2>2. /\ i - n \in DOMAIN q /\ j - n \in DOMAIN q /\ i - n < j - n
        /\ r[i] = q[i - n] /\ r[j] = q[j - n]
    BY <1>0, <1>1, <2>1
  <2> QED
    BY <2>2 DEF Final, Partial
<1> QED
  BY <1>2, <1>3, <1>4 DEF Final, r

LEMMA ReadingIsFinal ==
    ASSUME NEW p, Reading(p)
    PROVE  Final(p) /\ Changing(p)
BY DEF Reading, Final, Changing, Limited, Partial, Marked, Whole

LEMMA ReadingTimes ==
    ASSUME NEW A, NEW B, AllReading(A), AllReading(B)
    PROVE  AllReading(A ** B)
<1> SUFFICES ASSUME NEW r \in A ** B PROVE Reading(r)
  BY DEF AllReading
<1>1. PICK p \in A, q \in B : r = p \o q
  BY DEF **
<1> QED
  BY <1>1, JoinReading DEF AllReading

LEMMA ChangingTimes ==
    ASSUME NEW A, NEW B, AllChanging(A), AllChanging(B)
    PROVE  AllChanging(A ** B)
<1> SUFFICES ASSUME NEW r \in A ** B PROVE Changing(r)
  BY DEF AllChanging
<1>1. PICK p \in A, q \in B : r = p \o q
  BY DEF **
<1> QED
  BY <1>1, JoinChanging DEF AllChanging

LEMMA FinalTimes ==
    ASSUME NEW A, NEW B, AllReading(A), AllFinal(B)
    PROVE  AllFinal(A ** B)
<1> SUFFICES ASSUME NEW r \in A ** B PROVE Final(r)
  BY DEF AllFinal
<1>1. PICK p \in A, q \in B : r = p \o q
  BY DEF **
<1> QED
  BY <1>1, JoinFinal DEF AllReading, AllFinal

LEMMA ReadingSets ==
    ASSUME NEW A, AllReading(A)
    PROVE  AllFinal(A) /\ AllChanging(A)
BY ReadingIsFinal DEF AllReading, AllFinal, AllChanging

LEMMA Unions ==
    ASSUME NEW A, NEW B
    PROVE  /\ AllReading(A) /\ AllReading(B) => AllReading(A \cup B)
           /\ AllFinal(A) /\ AllFinal(B) => AllFinal(A \cup B)
BY DEF AllReading, AllFinal

\* Steps that skip nothing, keep no lock, ask for no grant and change nothing.
PlainSteps == Steps \ (Marked \cup DialSteps \cup {"connect", "verify", "stored"})

LEMMA PlainReading ==
    ASSUME NEW p \in Seq(PlainSteps)
    PROVE  Reading(p)
<1>1. p \in Seq(Steps) /\ \A i \in 1 .. Len(p) : p[i] \in PlainSteps
  BY DEF PlainSteps
<1>2. \A i \in 1 .. Len(p) : Jump(p[i]) = 0 /\ p[i] \notin Marked \cup DialSteps
  BY <1>1 DEF Jump, PlainSteps
<1> QED
  BY <1>1, <1>2 DEF Reading, Whole, Fits

LEMMA PlainOne ==
    ASSUME NEW p \in Seq(PlainSteps)
    PROVE  AllReading({p})
BY PlainReading DEF AllReading

LEMMA MaybeReading ==
    ASSUME NEW A, AllReading(A)
    PROVE  AllReading(Maybe(A))
<1>1. Reading(<<>>)
  BY DEF Reading, Whole
<1> QED
  BY <1>1 DEF AllReading, Maybe

\* What is looked up, asked or tried.
LEMMA ReadingOperations ==
    /\ AllReading(EnsureConnected) /\ AllReading(GetQR) /\ AllReading(PairPhone)
    /\ AllReading(Logout) /\ AllReading(StatusResponse) /\ AllReading(ResolvePhone)
    /\ AllReading(GetContactInfo) /\ AllReading(ListContacts) /\ AllReading(CheckContacts)
    /\ AllReading(GetGroupInfo) /\ AllReading(ListGroups) /\ AllReading(ReadNewsletters)
    /\ AllReading(GetProfile) /\ AllReading(ListChats) /\ AllReading(ListMessages)
    /\ AllReading({<<"stored", "verify", "verifydial">>})
<1> USE PlainReading DEF AllReading, Steps, PlainSteps, Marked, DialSteps
<1>1. Reading(<<"connect", "dial">>) /\ Reading(<<"qr", "qrdial">>)
  BY DEF Reading, Whole, Fits, Jump, Preparing
<1>2. Reading(<<"stored", "verify", "verifydial">>)
  BY DEF Reading, Whole, Fits, Jump, Preparing
<1>3. /\ AllReading(EnsureConnected) /\ AllReading({<<"stored", "verify", "verifydial">>})
  BY <1>1, <1>2 DEF EnsureConnected
<1>4. /\ AllReading(GetQR) /\ AllReading(PairPhone)
      /\ AllReading(Logout) /\ AllReading(StatusResponse) /\ AllReading(ResolvePhone)
  <2>1. /\ <<"paircode">> \in Seq(PlainSteps)
        /\ <<"logout">> \in Seq(PlainSteps) /\ <<"status">> \in Seq(PlainSteps)
        /\ <<"client", "check", "ask">> \in Seq(PlainSteps)
    OBVIOUS
  <2> QED
    BY <1>1, <2>1, PlainOne DEF GetQR, PairPhone, Logout, StatusResponse, ResolvePhone
<1>5. /\ AllReading(GetContactInfo) /\ AllReading(ListContacts) /\ AllReading(CheckContacts)
      /\ AllReading(GetGroupInfo) /\ AllReading(ListGroups)
  <2>1. /\ <<"client", "check", "ask">> \in Seq(PlainSteps)
        /\ <<"client", "check", "ask", "try">> \in Seq(PlainSteps)
        /\ <<"client", "ask">> \in Seq(PlainSteps)
    OBVIOUS
  <2> QED
    BY <2>1, PlainOne DEF GetContactInfo, ListContacts, CheckContacts, GetGroupInfo, ListGroups
<1>6. AllReading(GetProfile) /\ AllReading(ListChats) /\ AllReading(ListMessages)
  <2>1. /\ <<"client", "try">> \in Seq(PlainSteps) /\ <<"try">> \in Seq(PlainSteps)
        /\ <<"try", "client", "try">> \in Seq(PlainSteps) /\ <<"ask">> \in Seq(PlainSteps)
    OBVIOUS
  <2>2. Reading(<<"try">>) /\ Reading(<<"try", "client", "try">>)
    BY <2>1, PlainReading
  <2>3. AllReading(ListChats)
    BY <2>2 DEF ListChats
  <2> QED
    BY <2>1, <2>3, PlainOne DEF GetProfile, ListMessages
<1>7. AllReading(ReadNewsletters)
  <2>1. /\ AllReading({<<"client">>}) /\ AllReading(Maybe({<<"check">>}))
        /\ AllReading({<<"ask">>})
    <3>1. /\ <<"client">> \in Seq(PlainSteps) /\ <<"check">> \in Seq(PlainSteps)
          /\ <<"ask">> \in Seq(PlainSteps)
      OBVIOUS
    <3> QED
      BY <3>1, PlainOne, MaybeReading
  <2> HIDE DEF AllReading
  <2> QED
    BY <2>1, ReadingTimes DEF ReadNewsletters
<1> QED
  BY <1>3, <1>4, <1>5, <1>6, <1>7

\* One change, and at most the best-effort store after it.
LEMMA FinalOperations ==
    /\ AllFinal(SendMessage) /\ AllFinal(SendReply) /\ AllFinal(SendMedia)
    /\ AllFinal(Gesture) /\ AllFinal(RevokeMessage) /\ AllFinal(SendPresence)
    /\ AllFinal(CreateGroup) /\ AllFinal(LeaveGroup) /\ AllFinal(UpdateGroupParticipants)
    /\ AllFinal(GetGroupInviteLink) /\ AllFinal(WriteNewsletters) /\ AllFinal(SetStatusMessage)
<1> USE DEF AllFinal
<1>1. Final(<<"allow", "client", "check", "send", "store">>)
  <2>1. Whole(<<"allow", "client", "check", "send", "store">>)
    BY DEF Whole, Fits, Jump, Steps, Marked, DialSteps
  <2>2. Limited(<<"allow", "client", "check", "send", "store">>)
    BY DEF Limited
  <2>3. ~Partial(<<"allow", "client", "check", "send", "store">>)
    BY DEF Partial
  <2> QED
    BY <2>1, <2>2, <2>3 DEF Final
<1>2. Final(<<"allow", "client", "check", "ask", "send", "store">>)
  <2>1. Whole(<<"allow", "client", "check", "ask", "send", "store">>)
    BY DEF Whole, Fits, Jump, Steps, Marked, DialSteps
  <2>2. Limited(<<"allow", "client", "check", "ask", "send", "store">>)
    BY DEF Limited
  <2>3. ~Partial(<<"allow", "client", "check", "ask", "send", "store">>)
    BY DEF Partial
  <2> QED
    BY <2>1, <2>2, <2>3 DEF Final
<1>3. Final(<<"client", "check", "write">>) /\ Final(<<"client", "write">>) /\ Final(<<"write">>)
  BY DEF Final, Whole, Fits, Limited, Partial, Jump, Steps, Marked, DialSteps
<1>4. AllFinal(SendMessage) /\ AllFinal(SendReply) /\ AllFinal(SendMedia)
  BY <1>1, <1>2 DEF SendMessage, SendReply, SendMedia
<1>5. /\ AllFinal(Gesture) /\ AllFinal(RevokeMessage) /\ AllFinal(SendPresence)
      /\ AllFinal(CreateGroup) /\ AllFinal(LeaveGroup) /\ AllFinal(UpdateGroupParticipants)
      /\ AllFinal(WriteNewsletters) /\ AllFinal(SetStatusMessage)
  BY <1>3 DEF Gesture, RevokeMessage, SendPresence, CreateGroup, LeaveGroup,
     UpdateGroupParticipants, WriteNewsletters, SetStatusMessage
<1>6. AllFinal(GetGroupInviteLink)
  <2>1. AllReading({<<"client", "check">>}) /\ Reading(<<"ask">>)
    BY PlainReading DEF AllReading, PlainSteps, Steps, Marked, DialSteps
  <2>2. AllFinal({<<"ask">>, <<"write">>})
    BY <1>3, <2>1, ReadingIsFinal
  <2> HIDE DEF AllFinal
  <2> QED
    BY <2>1, <2>2, FinalTimes DEF GetGroupInviteLink
<1> QED
  BY <1>4, <1>5, <1>6

\* What handlers and tools begin with.
LEMMA Beginnings ==
    /\ AllReading({<<"check">>}) /\ AllReading(Maybe({<<"check">>})) /\ AllReading({<<"code">>})
    /\ AllReading({<<"permit", "check">>}) /\ AllReading({<<"account", "linked">>})
    /\ AllReading({<<"permit", "status">>}) /\ AllReading(Maybe(ResolvePhone))
    /\ AllReading(requireAccount) /\ AllReading(requireConnectedAccount)
    /\ AllReading(resolveRecipient) /\ AllReading(resolveParticipants)
    /\ AllReading(resolveAccount) /\ AllReading(resolveConnectedAccount)
<1>1. /\ AllReading({<<"check">>}) /\ AllReading({<<"code">>}) /\ AllReading({<<"linked">>})
      /\ AllReading({<<"permit", "check">>}) /\ AllReading({<<"account", "linked">>})
      /\ AllReading({<<"permit", "status">>}) /\ AllReading({<<"permit", "account">>})
  <2>1. /\ <<"check">> \in Seq(PlainSteps) /\ <<"code">> \in Seq(PlainSteps)
        /\ <<"linked">> \in Seq(PlainSteps) /\ <<"permit", "check">> \in Seq(PlainSteps)
        /\ <<"account", "linked">> \in Seq(PlainSteps)
        /\ <<"permit", "status">> \in Seq(PlainSteps)
        /\ <<"permit", "account">> \in Seq(PlainSteps)
    BY DEF PlainSteps, Steps, Marked, DialSteps
  <2> QED
    BY <2>1, PlainOne
<1>2. AllReading(Maybe({<<"check">>})) /\ AllReading(Maybe(ResolvePhone))
  BY <1>1, MaybeReading, ReadingOperations
<1>3. AllReading(requireAccount) /\ AllReading(resolveAccount)
  BY <1>1 DEF requireAccount, resolveAccount
<1>4. AllReading(requireConnectedAccount) /\ AllReading(resolveConnectedAccount)
  BY <1>1, <1>3, ReadingTimes, ReadingOperations
  DEF requireConnectedAccount, resolveConnectedAccount
<1>5. AllReading(resolveRecipient) /\ AllReading(resolveParticipants)
  BY <1>1, <1>2, ReadingTimes DEF resolveRecipient, resolveParticipants
<1> QED
  BY <1>1, <1>2, <1>3, <1>4, <1>5

LEMMA RestPrograms ==
    /\ AllFinal(RestGetSession) /\ AllFinal(RestGetQR) /\ AllFinal(RestPairPhone)
    /\ AllFinal(RestDeleteSession) /\ AllFinal(RestSendMessage) /\ AllFinal(RestGesture)
    /\ AllFinal(RestRevokeMessage) /\ AllFinal(RestChatsAndContacts) /\ AllFinal(RestGroups)
    /\ AllFinal(RestGroupMembers) /\ AllFinal(RestSendPresence) /\ AllFinal(RestGetProfile)
    /\ AllFinal(RestNewsletters)
<1> USE ReadingOperations, FinalOperations, Beginnings, ReadingTimes, FinalTimes, ReadingSets
<1>1. AllFinal(RestGetSession) /\ AllFinal(RestGetQR)
  BY DEF RestGetSession, RestGetQR
<1>2. AllFinal(RestPairPhone) /\ AllFinal(RestDeleteSession)
  BY DEF RestPairPhone, RestDeleteSession
<1>3. AllFinal(RestSendMessage)
  <2>1. AllFinal(({<<"check">>} ** SendMedia)
                    \cup (Maybe({<<"check">>}) ** (SendMessage \cup SendReply)))
    BY Unions
  <2> QED
    BY <2>1 DEF RestSendMessage
<1>4. AllFinal(RestGesture) /\ AllFinal(RestRevokeMessage)
  BY DEF RestGesture, RestRevokeMessage
<1>5. AllFinal(RestChatsAndContacts)
  <2>1. AllReading(ListChats \cup ListContacts \cup ({<<"check">>} ** CheckContacts)
                     \cup (Maybe(ResolvePhone) ** GetContactInfo))
    BY Unions
  <2> QED
    BY <2>1 DEF RestChatsAndContacts
<1>6. AllFinal(RestGroups)
  <2>1. AllFinal(ListGroups \cup GetGroupInfo
                   \cup ({<<"check">>} ** resolveParticipants ** CreateGroup))
    BY Unions
  <2> QED
    BY <2>1 DEF RestGroups
<1>7. AllFinal(RestGroupMembers)
  <2>1. AllFinal(LeaveGroup \cup GetGroupInviteLink
                   \cup ({<<"check">>} ** resolveParticipants ** UpdateGroupParticipants))
    BY Unions
  <2> QED
    BY <2>1 DEF RestGroupMembers
<1>8. AllFinal(RestSendPresence)
  <2>1. AllFinal((Maybe(ResolvePhone) ** Gesture) \cup SendPresence)
    BY Unions
  <2> QED
    BY <2>1 DEF RestSendPresence
<1>9. AllFinal(RestGetProfile)
  BY DEF RestGetProfile
<1>10. AllFinal(RestNewsletters)
  <2>1. AllFinal(ReadNewsletters \cup (Maybe({<<"check">>}) ** WriteNewsletters))
    BY Unions
  <2> QED
    BY <2>1 DEF RestNewsletters
<1> QED
  BY <1>1, <1>2, <1>3, <1>4, <1>5, <1>6, <1>7, <1>8, <1>9, <1>10

LEMMA ToolPrograms ==
    /\ AllFinal(ToolSession) /\ AllFinal(ToolSendMessage) /\ AllFinal(ToolContactsAndGroups)
    /\ AllFinal(ToolProfileAndChats) /\ AllFinal(ToolGestures)
    /\ AllFinal(ToolMediaAndPresence) /\ AllFinal(ToolGroups) /\ AllFinal(ToolGroupMembers)
<1> USE ReadingOperations, FinalOperations, Beginnings, ReadingTimes, FinalTimes, ReadingSets
<1>1. AllFinal(ToolSession)
  <2>1. AllReading(StatusResponse \cup (GetQR ** {<<"code">>})
                     \cup ({<<"check">>} ** PairPhone) \cup Logout)
    BY Unions
  <2>2. AllReading({<<"permit", "status">>}
                     \cup (resolveAccount ** (StatusResponse \cup (GetQR ** {<<"code">>})
                             \cup ({<<"check">>} ** PairPhone) \cup Logout)))
    BY <2>1, Unions
  <2> QED
    BY <2>2 DEF ToolSession
<1>2. AllFinal(ToolSendMessage)
  <2>1. AllFinal(SendMessage \cup SendReply)
    BY Unions
  <2> QED
    BY <2>1 DEF ToolSendMessage
<1>3. AllFinal(ToolContactsAndGroups)
  <2>1. AllReading(CheckContacts \cup GetContactInfo \cup GetGroupInfo)
    BY Unions
  <2>2. AllReading(ListGroups
                     \cup ({<<"check">>} ** (CheckContacts \cup GetContactInfo \cup GetGroupInfo)))
    BY <2>1, Unions
  <2> QED
    BY <2>2 DEF ToolContactsAndGroups
<1>4. AllFinal(ToolProfileAndChats)
  <2>1. AllFinal(GetProfile \cup ({<<"check">>} ** SetStatusMessage) \cup ListChats)
    BY Unions
  <2>2. AllFinal(resolveAccount ** {<<"check">>} ** ListMessages)
    OBVIOUS
  <2> QED
    BY <2>1, <2>2, Unions DEF ToolProfileAndChats
<1>5. AllFinal(ToolGestures)
  <2>1. AllFinal(Gesture \cup RevokeMessage)
    BY Unions
  <2> QED
    BY <2>1 DEF ToolGestures
<1>6. AllFinal(ToolMediaAndPresence)
  <2>1. AllFinal(SendMedia \cup SendPresence \cup Gesture)
    BY Unions
  <2> QED
    BY <2>1 DEF ToolMediaAndPresence
<1>7. AllFinal(ToolGroups)
  <2>1. AllFinal(CreateGroup \cup LeaveGroup)
    BY Unions
  <2>2. AllFinal(ListContacts \cup ({<<"check">>} ** (CreateGroup \cup LeaveGroup)))
    BY <2>1, Unions
  <2> QED
    BY <2>2 DEF ToolGroups
<1>8. AllFinal(ToolGroupMembers)
  <2>1. AllFinal(UpdateGroupParticipants \cup GetGroupInviteLink)
    BY Unions
  <2> QED
    BY <2>1 DEF ToolGroupMembers
<1> QED
  BY <1>1, <1>2, <1>3, <1>4, <1>5, <1>6, <1>7, <1>8

\* The requests with several changes send no message.
LEMMA CompoundPrograms ==
    AllChanging(RestUpdateGroup) /\ AllChanging(RestUpdateProfile) /\ AllChanging(ToolUpdateGroup)
<1> USE ReadingOperations, Beginnings, ReadingTimes, ChangingTimes, ReadingSets
<1>1. /\ Changing(<<"write">>) /\ Changing(<<"client", "write">>) /\ Changing(<<>>)
      /\ AllReading({<<"client", "check">>})
  <2>1. <<"client", "check">> \in Seq(PlainSteps)
    BY DEF PlainSteps, Steps, Marked, DialSteps
  <2>2. Changing(<<"write">>)
    BY DEF Changing, Whole, Fits, Jump, Steps, Marked, DialSteps
  <2>3. Changing(<<"client", "write">>)
    BY DEF Changing, Whole, Fits, Jump, Steps, Marked, DialSteps
  <2>4. Changing(<<>>)
    BY DEF Changing, Whole
  <2> QED
    BY <2>1, <2>2, <2>3, <2>4, PlainOne
<1>2. AllChanging(Maybe({<<"write">>})) /\ AllChanging(Maybe(SetStatusMessage))
  BY <1>1 DEF Maybe, SetStatusMessage, AllChanging
<1>3. AllChanging(UpdateGroup)
  BY <1>1, <1>2 DEF UpdateGroup
<1>4. AllChanging(RestUpdateGroup) /\ AllChanging(ToolUpdateGroup)
  BY <1>3 DEF RestUpdateGroup, ToolUpdateGroup
<1>5. AllChanging(RestUpdateProfile)
  BY <1>2 DEF RestUpdateProfile
<1> QED
  BY <1>4, <1>5

\* What the steps rely on: no program skips a grant or a change, a message is sent
\* once and after a grant, and only compound programs go on after a change.
LEMMA Programs ==
    ASSUME NEW p \in RestHandlers \cup Tools
    PROVE  Whole(p) /\ Limited(p) /\ (Partial(p) => p \in Compound)
<1>1. ASSUME Final(p) PROVE Whole(p) /\ Limited(p) /\ (Partial(p) => p \in Compound)
  BY <1>1 DEF Final
<1>2. ASSUME p \in RestUpdateGroup \cup RestUpdateProfile \cup ToolUpdateGroup
      PROVE  Whole(p) /\ Limited(p) /\ (Partial(p) => p \in Compound)
  <2>1. Changing(p)
    BY <1>2, CompoundPrograms DEF AllChanging
  <2> QED
    BY <1>2, <2>1 DEF Changing, Limited, Compound
<1>3. CASE p \in RestHandlers
  BY <1>1, <1>2, <1>3, RestPrograms DEF RestHandlers, AllFinal
<1>4. CASE p \in Tools
  BY <1>1, <1>2, <1>4, ToolPrograms DEF Tools, AllFinal
<1> QED
  BY <1>3, <1>4

-----------------------------------------------------------------------------
(* The bucket, whatever the requests do.                                   *)

USE CostAssumption, MinuteAssumption, HorizonAssumption

\* What was granted since the observer began to count, and what the bucket could
\* grant now, came from a full bucket and from the refill since then.
CreditInv ==
    IF Counting THEN spent + Refilled <= Minute + (now - since) ELSE spent = 0

QuotaInv == TypeOK /\ CreditInv

\* The steps of the requests and of the clock are steps of the bucket.
LEMMA BucketSteps == [OpNext]_allVars => Next \/ UNCHANGED vars
<1> SUFFICES ASSUME [OpNext]_allVars PROVE Next \/ UNCHANGED vars
  OBVIOUS
<1> USE DEF allVars, quiet, still
<1>1. ASSUME NEW r \in Requests,
             Arrive(r) \/ Shed(r) \/ Succeed(r) \/ Leave(r) \/ Panic(r) \/ Judge(r)
               \/ BestEffort(r) \/ Look(r) \/ HasStoredCredentials(r)
      PROVE  UNCHANGED vars
  BY <1>1 DEF Arrive, Shed, Succeed, Leave, Panic, Judge, BestEffort, Look, HasStoredCredentials
<1>2. ASSUME NEW r \in Requests,
             Connect(r) \/ Dial(r) \/ PrepareQR(r) \/ RequestCode(r) \/ LogOut(r)
               \/ requireConnectedClient(r) \/ Tell(r) \/ Refused(r)
      PROVE  UNCHANGED vars
  BY <1>2 DEF Connect, Dial, PrepareQR, RequestCode, LogOut, requireConnectedClient, Tell, Refused
<1>3. ASSUME NEW r \in Requests, AskLimiter(r) PROVE Next
  BY <1>3 DEF AskLimiter, Next
<1>4. CASE SessionMoves
  BY <1>4 DEF SessionMoves
<1>5. CASE Clock
  BY <1>5 DEF Clock, Next
<1> QED
  BY <1>1, <1>2, <1>3, <1>4, <1>5 DEF OpNext

LEMMA RefilledType == TypeOK => Refilled \in 0 .. Minute
BY DEF TypeOK, Times, Refilled, Capped

LEMMA QuotaInit == Init => QuotaInv
BY DEF Init, QuotaInv, TypeOK, CreditInv, Counting, Refilled, Capped, Times

LEMMA QuotaStep == QuotaInv /\ (Next \/ UNCHANGED vars) => QuotaInv'
<1> SUFFICES ASSUME QuotaInv, Next \/ UNCHANGED vars PROVE QuotaInv'
  OBVIOUS
<1> USE RefilledType DEF QuotaInv, TypeOK, Times
<1>1. TypeOK'
  BY DEF Next, Allow, Refuse, Tick, vars
<1>2. CreditInv'
  <2> USE DEF CreditInv, Counting, Refilled, Capped
  <2>1. CASE Allow
    BY <2>1 DEF Allow
  <2>2. CASE Refuse
    BY <2>2 DEF Refuse
  <2>3. CASE Tick
    BY <2>3 DEF Tick
  <2>4. CASE UNCHANGED vars
    BY <2>4 DEF vars
  <2> QED
    BY <2>1, <2>2, <2>3, <2>4 DEF Next
<1> QED
  BY <1>1, <1>2

LEMMA QuotaAlways == OpSpec => []QuotaInv
<1>1. OpInit => QuotaInv
  BY QuotaInit DEF OpInit
<1>2. QuotaInv /\ [OpNext]_allVars => QuotaInv'
  BY BucketSteps, QuotaStep
<1> QED
  BY <1>1, <1>2, PTL DEF OpSpec

\* However requests are mixed, in any interval at most a full bucket and its refill
\* is granted, and in any minute twice the number per minute.
THEOREM WindowsBounded == OpSpec => []WindowBound
<1>1. QuotaInv => WindowBound
  BY RefilledType DEF QuotaInv, TypeOK, CreditInv, WindowBound, Times, Counting
<1> QED
  BY <1>1, QuotaAlways, PTL

-----------------------------------------------------------------------------
(* The session and who has seen it linked.                                 *)

SessionInv ==
    /\ session \in S!SessionState
    /\ everLinked \in BOOLEAN
    /\ session.linked => everLinked

\* Whatever a request or a callback does, the session becomes one that Session
\* lets follow, and credentials are remembered.
SessionMoved ==
    \/ UNCHANGED <<session, everLinked>>
    \/ \E s \in S!SessionState : session' = s /\ everLinked' = (everLinked \/ s.linked)

LEMMA AfterTypes ==
    ASSUME session \in S!SessionState
    PROVE  /\ S!Prepared(session) \subseteq S!SessionState
           /\ S!Opened(session) \subseteq S!SessionState
           /\ S!LetGo(session) \subseteq S!SessionState
           /\ S!After(session) \subseteq S!SessionState
<1>1. S!Prepared(session) \subseteq S!SessionState /\ S!LetGo(session) \subseteq S!SessionState
  BY DEF S!Prepared, S!LetGo, S!SessionState
<1>2. S!Opened(session) \subseteq S!SessionState /\ S!Broken(session) \subseteq S!SessionState
  BY DEF S!Opened, S!Broken, S!SessionState
<1>3. \A c \in {"none", "down", "up"}, l \in BOOLEAN : [client |-> c, linked |-> l] \in S!SessionState
  BY DEF S!SessionState
<1>4. S!Unlinked(session) \subseteq S!SessionState /\ S!Paired(session) \subseteq S!SessionState
  <2>1. \A t \in S!Unlinked(session) : t = [client |-> "down", linked |-> FALSE]
    BY DEF S!Unlinked
  <2>2. \A t \in S!Paired(session) : t = [client |-> "up", linked |-> TRUE]
    BY DEF S!Paired
  <2> QED
    BY <1>3, <2>1, <2>2
<1> QED
  BY <1>1, <1>2, <1>4 DEF S!After

LEMMA SessionSteps == SessionInv /\ [OpNext]_allVars => SessionMoved
<1> SUFFICES ASSUME SessionInv, [OpNext]_allVars PROVE SessionMoved
  OBVIOUS
<1>0. ASSUME NEW A \in SUBSET S!SessionState, Become(A) PROVE SessionMoved
  BY <1>0 DEF Become, SessionMoved
<1> USE DEF SessionInv
<1>1. ASSUME NEW r \in Requests,
             Arrive(r) \/ Shed(r) \/ Succeed(r) \/ Leave(r) \/ Panic(r) \/ Judge(r)
               \/ BestEffort(r) \/ Look(r) \/ HasStoredCredentials(r) \/ RequestCode(r)
               \/ requireConnectedClient(r) \/ AskLimiter(r) \/ Tell(r) \/ Refused(r)
      PROVE  SessionMoved
  BY <1>1 DEF Arrive, Shed, Succeed, Leave, Panic, Judge, BestEffort, Look, HasStoredCredentials,
     RequestCode, requireConnectedClient, AskLimiter, Tell, Refused, still, SessionMoved
<1>2. ASSUME NEW r \in Requests, Connect(r) PROVE SessionMoved
  <2>1. Become(S!Prepared(session)) \/ UNCHANGED <<session, everLinked>>
    BY <1>2 DEF Connect
  <2> QED
    BY <1>0, <2>1, AfterTypes DEF SessionMoved
<1>3. ASSUME NEW r \in Requests, Dial(r) PROVE SessionMoved
  <2>1. Become(S!Opened(session)) \/ UNCHANGED <<session, everLinked>>
    BY <1>3 DEF Dial
  <2> QED
    BY <1>0, <2>1, AfterTypes DEF SessionMoved
<1>4. ASSUME NEW r \in Requests, PrepareQR(r) PROVE SessionMoved
  <2>1. Become(S!Prepared(session)) \/ Become(S!LetGo(session))
    BY <1>4 DEF PrepareQR
  <2> QED
    BY <1>0, <2>1, AfterTypes
<1>5. ASSUME NEW r \in Requests, LogOut(r) PROVE SessionMoved
  BY <1>0, <1>5, AfterTypes DEF LogOut
<1>6. CASE SessionMoves
  BY <1>0, <1>6, AfterTypes DEF SessionMoves
<1>7. CASE Clock
  BY <1>7 DEF Clock, opVars, SessionMoved
<1>8. CASE UNCHANGED allVars
  BY <1>8 DEF allVars, opVars, SessionMoved
<1> QED
  BY <1>1, <1>2, <1>3, <1>4, <1>5, <1>6, <1>7, <1>8 DEF OpNext

LEMMA SessionStep == SessionInv /\ SessionMoved => SessionInv'
<1> SUFFICES ASSUME SessionInv, SessionMoved PROVE SessionInv'
  OBVIOUS
<1>1. CASE UNCHANGED <<session, everLinked>>
  BY <1>1 DEF SessionInv
<1>2. CASE \E s \in S!SessionState : session' = s /\ everLinked' = (everLinked \/ s.linked)
  <2>1. PICK s \in S!SessionState : session' = s /\ everLinked' = (everLinked \/ s.linked)
    BY <1>2
  <2>2. s.linked \in BOOLEAN
    BY DEF S!SessionState
  <2> QED
    BY <2>1, <2>2 DEF SessionInv
<1> QED
  BY <1>1, <1>2 DEF SessionMoved

LEMMA SessionStart == OpInit => SessionInv
<1> SUFFICES ASSUME OpInit PROVE SessionInv
  OBVIOUS
<1>1. S!LetGo(S!NoSession) \subseteq S!SessionState
  BY DEF S!LetGo, S!SessionState
<1>2. session \in S!SessionState /\ everLinked = session.linked
  BY <1>1 DEF OpInit
<1>3. session.linked \in BOOLEAN
  BY <1>2 DEF S!SessionState
<1> QED
  BY <1>2, <1>3 DEF SessionInv

\* No handler or tool does to the session what Session does not let follow.
LEMMA SessionFollows == [OpNext]_allVars => session' \in S!After(session) \cup {session}
<1> SUFFICES ASSUME [OpNext]_allVars PROVE session' \in S!After(session) \cup {session}
  OBVIOUS
<1> USE DEF Become, S!After
<1>1. ASSUME NEW r \in Requests,
             Arrive(r) \/ Shed(r) \/ Succeed(r) \/ Leave(r) \/ Panic(r) \/ Judge(r)
               \/ BestEffort(r) \/ Look(r) \/ HasStoredCredentials(r) \/ RequestCode(r)
               \/ requireConnectedClient(r) \/ AskLimiter(r) \/ Tell(r) \/ Refused(r)
      PROVE  session' = session
  BY <1>1 DEF Arrive, Shed, Succeed, Leave, Panic, Judge, BestEffort, Look, HasStoredCredentials,
     RequestCode, requireConnectedClient, AskLimiter, Tell, Refused, still
<1>2. ASSUME NEW r \in Requests, Connect(r)
      PROVE  session' \in S!Prepared(session) \cup {session}
  BY <1>2 DEF Connect
<1>3. ASSUME NEW r \in Requests, Dial(r)
      PROVE  session' \in S!Opened(session) \cup {session}
  BY <1>3 DEF Dial
<1>4. ASSUME NEW r \in Requests, PrepareQR(r)
      PROVE  session' \in S!Prepared(session) \cup S!LetGo(session)
  BY <1>4 DEF PrepareQR
<1>5. ASSUME NEW r \in Requests, LogOut(r)
      PROVE  session' \in S!LetGo(session)
  BY <1>5 DEF LogOut
<1>6. CASE SessionMoves
  BY <1>6 DEF SessionMoves
<1>7. CASE Clock
  BY <1>7 DEF Clock, opVars
<1>8. CASE UNCHANGED allVars
  BY <1>8 DEF allVars, opVars
<1> QED
  BY <1>1, <1>2, <1>3, <1>4, <1>5, <1>6, <1>7, <1>8 DEF OpNext

Sessions == [a \in {"account"} |-> session]

LEMMA SessionNext == SessionInv /\ SessionInv' /\ [OpNext]_allVars => [S!Next]_Sessions
<1> SUFFICES ASSUME SessionInv', [OpNext]_allVars PROVE S!Next
  OBVIOUS
<1>1. Sessions' \in [{"account"} -> S!SessionState]
  BY DEF SessionInv, Sessions
<1>2. \A a \in {"account"} : Sessions'[a] \in S!After(Sessions[a]) \cup {Sessions[a]}
  BY SessionFollows DEF Sessions, S!After, S!Prepared, S!Opened, S!Broken, S!Unlinked,
     S!Paired, S!LetGo
<1> QED
  BY <1>1, <1>2 DEF S!Next, Sessions

LEMMA SessionInvAlways == OpSpec => []SessionInv
<1>1. SessionInv /\ [OpNext]_allVars => SessionInv'
  BY SessionSteps, SessionStep
<1> QED
  BY <1>1, SessionStart, PTL DEF OpSpec

\* The handlers and tools are the other side of the contract AccountSession keeps:
\* whatever their requests do to the account, its session moves as Session says.
THEOREM SessionRespected == OpSpec => [][S!Next]_Sessions
  BY SessionNext, SessionInvAlways, PTL DEF OpSpec

\* On an empty store, requests side by side implement Session.
COROLLARY OperationsImplementSession == OpSpec /\ S!Init => S!Spec
  BY SessionRespected, PTL DEF S!Spec, Sessions

-----------------------------------------------------------------------------
(* What a step does to one request: q is what was in its slot, t what is.  *)

Known(p) == Whole(p) /\ Limited(p) /\ (Partial(p) => p \in Compound)

Changes == {"write", "send"}

\* The request is under way at step s.
AtStep(q, s) == q.answer = "none" /\ q.at <= Len(q.prog) /\ q.prog[q.at] = s

Kept(q, t) == t.front = q.front /\ t.prog = q.prog

Comes(q, t) ==
    /\ q.front = "none"
    /\ \/ \E f \in {"rest", "mcp"}, p \in RestHandlers \cup Tools : t = Begin(f, p)
       \/ t = [Begin("shed", <<>>) EXCEPT !.answer = "error"]

Goes(t) == t = Idle

Ends(q, t) ==
    /\ Kept(q, t)
    /\ q.answer = "none" /\ q.at > Len(q.prog)
    /\ t.answer = "ok" /\ t.at = q.at /\ t.changed = q.changed /\ t.lost = q.lost

Moves(q, t, s) ==
    /\ Kept(q, t)
    /\ AtStep(q, s) /\ s \notin Changes
    /\ t.at \in {q.at + 1, q.at + 1 + Jump(s)}
    /\ t.answer = "none" /\ t.changed = q.changed /\ t.lost = q.lost

Fails(q, t, s) ==
    /\ Kept(q, t)
    /\ AtStep(q, s) /\ s \notin {"try", "store"}
    /\ t.answer = "error" /\ t.at = q.at /\ t.changed = q.changed /\ t.lost = q.lost

Tells(q, t, s) ==
    /\ Kept(q, t)
    /\ AtStep(q, s) /\ s \in Changes
    /\ t.changed
    /\ \/ t.answer = "none" /\ t.at = q.at + 1 /\ t.lost = q.lost
       \/ t.answer = "error" /\ t.at = q.at /\ t.lost

Alone(r) ==
    /\ request' \in [Requests -> Request]
    /\ \A o \in Requests \ {r} : request'[o] = request[o]

LEMMA BeginType ==
    ASSUME NEW f \in Fronts, NEW p \in Seq(Steps)
    PROVE  Begin(f, p) \in Request /\ [Begin(f, p) EXCEPT !.answer = "error"] \in Request
<1> DEFINE b == Begin(f, p)
<1>1. b \in Request
  BY DEF Begin, Request, Fronts
<1>2. [b EXCEPT !.answer = "error"] \in Request
  <2> HIDE DEF b
  <2> QED
    BY <1>1 DEF Request
<1> QED
  BY <1>1, <1>2

LEMMA IdleType == Idle \in Request
<1>1. <<>> \in Seq(Steps)
  OBVIOUS
<1> QED
  BY <1>1, BeginType DEF Idle, Fronts

LEMMA SetSlot ==
    ASSUME request \in [Requests -> Request], NEW r \in Requests, NEW t \in Request,
           request' = [request EXCEPT ![r] = t]
    PROVE  Alone(r) /\ request'[r] = t
BY DEF Alone

LEMMA PassSlot ==
    ASSUME request \in [Requests -> Request], NEW r \in Requests, NEW n \in Nat \ {0}, Goto(r, n)
    PROVE  /\ Alone(r)
           /\ Kept(request[r], request'[r])
           /\ request'[r].at = request[r].at + n
           /\ request'[r].answer = request[r].answer
           /\ request'[r].changed = request[r].changed
           /\ request'[r].lost = request[r].lost
<1> DEFINE q == request[r]
           t == [q EXCEPT !.at = @ + n]
<1>1. q \in Request
  OBVIOUS
<1>2. /\ t \in Request
      /\ t.front = q.front /\ t.prog = q.prog
      /\ t.at = q.at + n /\ t.answer = q.answer /\ t.changed = q.changed /\ t.lost = q.lost
  <2> DEFINE m == q.at + n
             u == [q EXCEPT !.at = m]
  <2>0. m \in Nat \ {0}
    BY <1>1 DEF Request
  <2>1. t = u
    OBVIOUS
  <2> HIDE DEF q, m, t
  <2>2. u \in Request
    BY <1>1, <2>0 DEF Request
  <2>3. /\ u.front = q.front /\ u.prog = q.prog
        /\ u.at = m /\ u.answer = q.answer /\ u.changed = q.changed /\ u.lost = q.lost
    BY <1>1 DEF Request
  <2> QED
    BY <2>1, <2>2, <2>3 DEF m
<1>3. request' = [request EXCEPT ![r] = t]
  BY DEF Goto
<1> HIDE DEF t
<1>4. Alone(r) /\ request'[r] = t
  BY <1>2, <1>3, SetSlot
<1> QED
  BY <1>2, <1>4 DEF Kept

LEMMA AnswerSlot ==
    ASSUME request \in [Requests -> Request], NEW r \in Requests, NEW a \in {"ok", "error"},
           request' = [request EXCEPT ![r].answer = a]
    PROVE  /\ Alone(r)
           /\ Kept(request[r], request'[r])
           /\ request'[r].at = request[r].at
           /\ request'[r].answer = a
           /\ request'[r].changed = request[r].changed
           /\ request'[r].lost = request[r].lost
BY DEF Alone, Kept, Request

LEMMA ToldSlot ==
    ASSUME request \in [Requests -> Request], NEW r \in Requests,
           request' = [request EXCEPT ![r].at = @ + 1, ![r].changed = TRUE]
    PROVE  /\ Alone(r)
           /\ Kept(request[r], request'[r])
           /\ request'[r].at = request[r].at + 1
           /\ request'[r].answer = request[r].answer
           /\ request'[r].changed
           /\ request'[r].lost = request[r].lost
<1> DEFINE q == request[r]
           t == [q EXCEPT !.at = @ + 1, !.changed = TRUE]
           m == q.at + 1
           u == [q EXCEPT !.at = m, !.changed = TRUE]
<1>1. q \in Request /\ t = u
  OBVIOUS
<1>2. /\ u \in Request
      /\ u.front = q.front /\ u.prog = q.prog
      /\ u.at = m /\ u.answer = q.answer /\ u.changed /\ u.lost = q.lost
  <2>1. m \in Nat \ {0}
    BY <1>1 DEF Request
  <2> HIDE DEF q, m, t
  <2>2. u \in Request
    BY <1>1, <2>1 DEF Request
  <2>3. /\ u.front = q.front /\ u.prog = q.prog
        /\ u.at = m /\ u.answer = q.answer /\ u.changed /\ u.lost = q.lost
    BY <1>1 DEF Request
  <2> QED
    BY <2>2, <2>3
<1>3. request' = [request EXCEPT ![r] = t]
  OBVIOUS
<1> HIDE DEF t, u
<1>4. Alone(r) /\ request'[r] = u
  BY <1>1, <1>2, <1>3, SetSlot
<1> QED
  BY <1>2, <1>4 DEF Kept

LEMMA LostSlot ==
    ASSUME request \in [Requests -> Request], NEW r \in Requests,
           request' = [request EXCEPT ![r].answer = "error", ![r].changed = TRUE, ![r].lost = TRUE]
    PROVE  /\ Alone(r)
           /\ Kept(request[r], request'[r])
           /\ request'[r].at = request[r].at
           /\ request'[r].answer = "error"
           /\ request'[r].changed
           /\ request'[r].lost
<1> DEFINE q == request[r]
           t == [q EXCEPT !.answer = "error", !.changed = TRUE, !.lost = TRUE]
<1>1. q \in Request
  OBVIOUS
<1>2. /\ t \in Request
      /\ t.front = q.front /\ t.prog = q.prog
      /\ t.at = q.at /\ t.answer = "error" /\ t.changed /\ t.lost
  <2> HIDE DEF q
  <2> QED
    BY <1>1 DEF Request
<1>3. request' = [request EXCEPT ![r] = t]
  BY DEF Request
<1> HIDE DEF t
<1>4. Alone(r) /\ request'[r] = t
  BY <1>2, <1>3, SetSlot
<1> QED
  BY <1>2, <1>4 DEF Kept

LEMMA MoveSlot ==
    ASSUME request \in [Requests -> Request], NEW r \in Requests, NEW s, At(r, s), s \notin Changes,
           NEW n \in {1, 1 + Jump(s)}, Goto(r, n)
    PROVE  Alone(r) /\ Moves(request[r], request'[r], s)
<1>1. n \in Nat \ {0} /\ Jump(s) \in Nat
  BY DEF Jump
<1>2. AtStep(request[r], s)
  BY DEF At, AtStep
<1>3. request[r].at \in Nat \ {0}
  BY DEF Request
<1>4. /\ Alone(r)
      /\ Kept(request[r], request'[r])
      /\ request'[r].at = request[r].at + n
      /\ request'[r].answer = request[r].answer
      /\ request'[r].changed = request[r].changed
      /\ request'[r].lost = request[r].lost
  BY <1>1, PassSlot
<1> QED
  BY <1>1, <1>2, <1>3, <1>4 DEF Moves, AtStep

LEMMA FailSlot ==
    ASSUME request \in [Requests -> Request], NEW r \in Requests, NEW s, At(r, s),
           s \notin {"try", "store"}, Fail(r)
    PROVE  Alone(r) /\ Fails(request[r], request'[r], s)
<1>1. AtStep(request[r], s)
  BY DEF At, AtStep
<1>2. /\ Alone(r)
      /\ Kept(request[r], request'[r])
      /\ request'[r].at = request[r].at
      /\ request'[r].answer = "error"
      /\ request'[r].changed = request[r].changed
      /\ request'[r].lost = request[r].lost
  BY AnswerSlot DEF Fail
<1> QED
  BY <1>1, <1>2 DEF Fails

\* The semaphore follows what comes and goes.
SlotsFollow(r) ==
    \/ /\ (request[r].front = "rest") <=> (request'[r].front = "rest")
       /\ slots' = slots
    \/ /\ request[r].front # "rest" /\ request'[r].front = "rest"
       /\ slots < MaxConcurrent /\ slots' = slots + 1
    \/ /\ request[r].front = "rest" /\ request'[r].front # "rest"
       /\ slots' = slots - 1

ComesOrGoes(r) ==
    /\ Comes(request[r], request'[r]) \/ Goes(request'[r]) \/ Ends(request[r], request'[r])
    /\ UNCHANGED <<vars, reached>>

GoesOn(r, s) ==
    /\ Moves(request[r], request'[r], s)
    /\ s = "linked" => everLinked
    /\ IF s = "allow" THEN Allow ELSE UNCHANGED vars
    /\ UNCHANGED reached

GivesUp(r, s) ==
    /\ Fails(request[r], request'[r], s)
    /\ Refuse \/ UNCHANGED vars
    /\ UNCHANGED reached

TellsWhatsApp(r, s) ==
    /\ Tells(request[r], request'[r], s)
    /\ reached' = IF s = "send" /\ Counting THEN reached + Cost ELSE reached
    /\ UNCHANGED vars

RequestStep(r) ==
    /\ Alone(r)
    /\ SlotsFollow(r)
    /\ \/ ComesOrGoes(r)
       \/ \E s \in Steps : GoesOn(r, s) \/ GivesUp(r, s) \/ TellsWhatsApp(r, s)

OtherStep ==
    /\ UNCHANGED <<request, slots, reached>>
    /\ Tick \/ UNCHANGED vars

LEMMA KeptSlots ==
    ASSUME NEW r \in Requests, Kept(request[r], request'[r]), slots' = slots
    PROVE  SlotsFollow(r)
BY DEF Kept, SlotsFollow

LEMMA Proceeds ==
    ASSUME request \in [Requests -> Request], NEW r \in Requests, NEW s \in Steps, At(r, s),
           s \notin Changes \cup {"allow"}, s = "linked" => everLinked,
           NEW n \in {1, 1 + Jump(s)}, Goto(r, n), UNCHANGED <<vars, reached, slots>>
    PROVE  RequestStep(r)
<1>1. Alone(r) /\ Moves(request[r], request'[r], s)
  BY MoveSlot
<1>2. SlotsFollow(r)
  BY <1>1, KeptSlots DEF Moves
<1>3. GoesOn(r, s)
  BY <1>1 DEF GoesOn
<1> QED
  BY <1>1, <1>2, <1>3 DEF RequestStep

LEMMA Aborts ==
    ASSUME request \in [Requests -> Request], NEW r \in Requests, NEW s \in Steps, At(r, s),
           s \notin {"try", "store"}, Fail(r), Refuse \/ UNCHANGED vars, UNCHANGED <<reached, slots>>
    PROVE  RequestStep(r)
<1>1. Alone(r) /\ Fails(request[r], request'[r], s)
  BY FailSlot
<1>2. SlotsFollow(r)
  BY <1>1, KeptSlots DEF Fails
<1>3. GivesUp(r, s)
  BY <1>1 DEF GivesUp
<1> QED
  BY <1>1, <1>2, <1>3 DEF RequestStep

\* Steps that only pass or fail.
LEMMA SimpleSteps ==
    ASSUME request \in [Requests -> Request], SessionInv, NEW r \in Requests,
           Judge(r) \/ BestEffort(r) \/ Look(r) \/ HasStoredCredentials(r) \/ RequestCode(r)
             \/ requireConnectedClient(r) \/ Refused(r)
    PROVE  RequestStep(r)
<1> USE DEF Changes, Steps, Pass
<1>0. \A s : Jump(s) \in Nat
  BY DEF Jump
<1>1. ASSUME NEW s \in Steps \ (Changes \cup {"allow", "linked"}), At(r, s), Pass(r), still' = still, slots' = slots
      PROVE  RequestStep(r)
  <2>1. 1 \in {1, 1 + Jump(s)} /\ Goto(r, 1) /\ UNCHANGED <<vars, reached, slots>>
    BY <1>0, <1>1 DEF still, quiet
  <2> QED
    BY <1>1, <2>1, Proceeds
<1>2. ASSUME NEW s \in Steps \ {"try", "store"}, At(r, s), Fail(r), still' = still, slots' = slots
      PROVE  RequestStep(r)
  <2>1. UNCHANGED <<vars, reached, slots>>
    BY <1>2 DEF still, quiet
  <2> QED
    BY <1>2, <2>1, Aborts
<1>3. CASE Judge(r)
  BY <1>1, <1>2, <1>3 DEF Judge
<1>4. CASE BestEffort(r)
  BY <1>1, <1>4 DEF BestEffort
<1>5. CASE Look(r)
  BY <1>1, <1>5 DEF Look
<1>6. CASE HasStoredCredentials(r)
  <2>0. UNCHANGED <<vars, reached, slots>>
    BY <1>6 DEF HasStoredCredentials, still, quiet
  <2>1. CASE At(r, "linked") /\ session.linked /\ Pass(r)
    <3>1. 1 \in {1, 1 + Jump("linked")} /\ Goto(r, 1) /\ everLinked
      BY <1>0, <2>1 DEF SessionInv
    <3> QED
      BY <2>0, <2>1, <3>1, Proceeds
  <2>2. CASE At(r, "linked") /\ Fail(r)
    BY <2>0, <2>2, Aborts
  <2>3. CASE At(r, "stored") /\ Pass(r)
    BY <1>1, <1>6, <2>3 DEF HasStoredCredentials
  <2>4. CASE At(r, "stored") /\ Goto(r, 3)
    <3>1. 3 \in {1, 1 + Jump("stored")}
      BY DEF Jump
    <3> QED
      BY <2>0, <2>4, <3>1, Proceeds
  <2> QED
    BY <1>6, <2>1, <2>2, <2>3, <2>4 DEF HasStoredCredentials
<1>7. CASE RequestCode(r)
  BY <1>1, <1>2, <1>7 DEF RequestCode
<1>8. CASE requireConnectedClient(r)
  BY <1>1, <1>2, <1>8 DEF requireConnectedClient
<1>9. CASE Refused(r)
  BY <1>2, <1>9 DEF Refused
<1> QED
  BY <1>3, <1>4, <1>5, <1>6, <1>7, <1>8, <1>9

\* Steps that move the session too.
LEMMA SessionedSteps ==
    ASSUME request \in [Requests -> Request], NEW r \in Requests,
           Connect(r) \/ Dial(r) \/ PrepareQR(r) \/ LogOut(r)
    PROVE  RequestStep(r)
<1> USE DEF Changes, Steps, Pass
<1>0. UNCHANGED <<vars, reached, slots>>
  BY DEF Connect, Dial, PrepareQR, LogOut, quiet
<1>1. ASSUME NEW s \in Steps \ (Changes \cup {"allow", "linked"}), At(r, s),
             NEW n \in {1, 1 + Jump(s)}, Goto(r, n)
      PROVE  RequestStep(r)
  BY <1>0, <1>1, Proceeds
<1>2. ASSUME NEW s \in Steps \ {"try", "store"}, At(r, s), Fail(r)
      PROVE  RequestStep(r)
  BY <1>0, <1>2, Aborts
<1>3. \A s : Jump(s) \in Nat /\ 1 \in {1, 1 + Jump(s)}
  BY DEF Jump
<1>4. 2 \in {1, 1 + Jump("connect")} /\ 2 \in {1, 1 + Jump("verify")}
  BY DEF Jump
<1>5. CASE Connect(r)
  <2>1. CASE At(r, "connect")
    BY <1>1, <1>2, <1>3, <1>4, <1>5, <2>1 DEF Connect
  <2>2. CASE At(r, "verify")
    BY <1>1, <1>3, <1>4, <1>5, <2>2 DEF Connect, At
  <2> QED
    BY <1>5, <2>1, <2>2 DEF Connect
<1>6. CASE Dial(r)
  BY <1>1, <1>2, <1>3, <1>6 DEF Dial, DialSteps
<1>7. CASE PrepareQR(r)
  BY <1>1, <1>2, <1>3, <1>7 DEF PrepareQR
<1>8. CASE LogOut(r)
  BY <1>1, <1>2, <1>3, <1>8 DEF LogOut
<1> QED
  BY <1>5, <1>6, <1>7, <1>8

LEMMA LimiterSteps ==
    ASSUME request \in [Requests -> Request], NEW r \in Requests, AskLimiter(r)
    PROVE  RequestStep(r)
<1>0. At(r, "allow") /\ UNCHANGED <<reached, slots>> /\ "allow" \in Steps /\ "allow" \notin Changes
  BY DEF AskLimiter, Steps, Changes
<1>1. CASE Allow /\ Pass(r)
  <2>1. 1 \in {1, 1 + Jump("allow")} /\ Goto(r, 1)
    BY <1>1 DEF Jump, Pass
  <2>2. Alone(r) /\ Moves(request[r], request'[r], "allow")
    BY <1>0, <2>1, MoveSlot
  <2>3. SlotsFollow(r)
    BY <1>0, <2>2, KeptSlots DEF Moves
  <2>4. GoesOn(r, "allow")
    BY <1>0, <1>1, <2>2 DEF GoesOn
  <2> QED
    BY <1>0, <2>2, <2>3, <2>4 DEF RequestStep
<1>2. CASE Refuse /\ Fail(r)
  BY <1>0, <1>2, Aborts
<1> QED
  BY <1>1, <1>2 DEF AskLimiter

LEMMA TellSteps ==
    ASSUME request \in [Requests -> Request], NEW r \in Requests, Tell(r)
    PROVE  RequestStep(r)
<1>1. PICK s \in Changes : /\ At(r, s)
                           /\ reached' = IF s = "send" /\ Counting THEN reached + Cost ELSE reached
  BY DEF Tell, Changes
<1>2. AtStep(request[r], s) /\ s \in Steps
  BY <1>1 DEF At, AtStep, Changes, Steps
<1>3. UNCHANGED <<vars, slots>>
  BY DEF Tell
<1>4. Alone(r) /\ Tells(request[r], request'[r], s)
  <2>1. CASE request' = [request EXCEPT ![r].at = @ + 1, ![r].changed = TRUE]
    <3>1. /\ Alone(r)
          /\ Kept(request[r], request'[r])
          /\ request'[r].at = request[r].at + 1
          /\ request'[r].answer = request[r].answer
          /\ request'[r].changed
          /\ request'[r].lost = request[r].lost
      BY <2>1, ToldSlot
    <3> QED
      BY <1>2, <3>1 DEF Tells, AtStep
  <2>2. CASE request' = [request EXCEPT ![r].answer = "error", ![r].changed = TRUE,
                                        ![r].lost = TRUE]
    <3>1. /\ Alone(r)
          /\ Kept(request[r], request'[r])
          /\ request'[r].at = request[r].at
          /\ request'[r].answer = "error"
          /\ request'[r].changed
          /\ request'[r].lost
      BY <2>2, LostSlot
    <3> QED
      BY <1>2, <3>1 DEF Tells
  <2> QED
    BY <2>1, <2>2 DEF Tell
<1>5. SlotsFollow(r)
  BY <1>3, <1>4, KeptSlots DEF Tells
<1>6. TellsWhatsApp(r, s)
  BY <1>1, <1>3, <1>4 DEF TellsWhatsApp
<1> QED
  BY <1>2, <1>4, <1>5, <1>6 DEF RequestStep

LEMMA ProgramsKnown == \A p \in RestHandlers \cup Tools : Known(p) /\ p \in Seq(Steps)
BY Programs DEF Known, Whole

LEMMA BeginFields ==
    ASSUME NEW f, NEW p
    PROVE  LET b == Begin(f, p) IN
           /\ b.front = f /\ b.prog = p /\ b.at = 1 /\ ~b.changed /\ ~b.lost /\ b.answer = "none"
BY DEF Begin

LEMMA ComingSteps ==
    ASSUME request \in [Requests -> Request], NEW r \in Requests,
           Arrive(r) \/ Shed(r) \/ Succeed(r) \/ Leave(r) \/ Panic(r)
    PROVE  RequestStep(r)
<1> DEFINE q == request[r]
           t == request'[r]
<1>0. UNCHANGED <<vars, reached>>
  BY DEF Arrive, Shed, Succeed, Leave, Panic, still, quiet
<1>1. SUFFICES /\ Alone(r) /\ SlotsFollow(r)
               /\ Comes(q, t) \/ Goes(t) \/ Ends(q, t)
  BY <1>0 DEF RequestStep, ComesOrGoes
<1>2. CASE Arrive(r)
  <2>1. ASSUME NEW f \in {"rest", "mcp"}, NEW p \in RestHandlers \cup Tools,
               request' = [request EXCEPT ![r] = Begin(f, p)]
        PROVE  Alone(r) /\ Comes(q, t) /\ t.front = f
    <3>1. Begin(f, p) \in Request
      BY ProgramsKnown, BeginType DEF Fronts
    <3>2. Alone(r) /\ t = Begin(f, p)
      BY <2>1, <3>1, SetSlot
    <3> QED
      BY <1>2, <3>2, BeginFields DEF Comes, Arrive, Running
  <2>2. q.front = "none"
    BY <1>2 DEF Arrive, Running
  <2>3. CASE \E p \in RestHandlers \cap mix.offer[r] :
               /\ slots < MaxConcurrent
               /\ slots' = slots + 1
               /\ request' = [request EXCEPT ![r] = Begin("rest", p)]
    BY <2>1, <2>2, <2>3 DEF SlotsFollow
  <2>4. CASE \E p \in Tools \cap mix.offer[r] :
               /\ request' = [request EXCEPT ![r] = Begin("mcp", p)]
               /\ UNCHANGED slots
    BY <2>1, <2>2, <2>4 DEF SlotsFollow
  <2> QED
    BY <1>2, <2>3, <2>4 DEF Arrive
<1>3. CASE Shed(r)
  <2> DEFINE b == [Begin("shed", <<>>) EXCEPT !.answer = "error"]
  <2>1. b \in Request
    BY IdleType, BeginType DEF Idle, Fronts, Request, Begin
  <2>2. Alone(r) /\ t = b
    BY <1>3, <2>1, SetSlot DEF Shed
  <2>3. b.front = "shed"
    BY DEF Begin
  <2>4. slots' = slots /\ q.front = "none"
    BY <1>3 DEF Shed, Running
  <2> QED
    BY <2>2, <2>3, <2>4 DEF Comes, SlotsFollow
<1>4. CASE Succeed(r)
  <2>1. /\ Alone(r) /\ Kept(q, t)
        /\ t.at = q.at /\ t.answer = "ok" /\ t.changed = q.changed /\ t.lost = q.lost
    BY <1>4, AnswerSlot DEF Succeed
  <2>2. slots' = slots /\ q.answer = "none" /\ q.at > Len(q.prog)
    BY <1>4 DEF Succeed
  <2> QED
    BY <2>1, <2>2, KeptSlots DEF Ends
<1>5. CASE Leave(r) \/ Panic(r)
  <2>1. request' = [request EXCEPT ![r] = Idle] /\ GiveBack(r)
    BY <1>5 DEF Leave, Panic
  <2>2. Alone(r) /\ t = Idle /\ Goes(t)
    BY <2>1, IdleType, SetSlot DEF Goes
  <2>3. t.front = "none"
    BY <2>2, BeginFields DEF Idle
  <2> QED
    BY <2>1, <2>2, <2>3 DEF SlotsFollow, GiveBack
<1> QED
  BY <1>2, <1>3, <1>4, <1>5

\* What a request does in one step.
RequestAction(r) ==
    \/ Arrive(r) \/ Shed(r) \/ Succeed(r) \/ Leave(r) \/ Panic(r)
    \/ Judge(r) \/ BestEffort(r) \/ Look(r) \/ HasStoredCredentials(r)
    \/ Connect(r) \/ Dial(r) \/ PrepareQR(r) \/ RequestCode(r) \/ LogOut(r)
    \/ requireConnectedClient(r) \/ AskLimiter(r) \/ Tell(r) \/ Refused(r)

LEMMA ActionSteps ==
    ASSUME request \in [Requests -> Request], SessionInv, NEW r \in Requests, RequestAction(r)
    PROVE  RequestStep(r)
BY ComingSteps, SimpleSteps, SessionedSteps, LimiterSteps, TellSteps DEF RequestAction

\* Every step of the system is one of one request, or changes none.
LEMMA RequestSteps ==
    ASSUME request \in [Requests -> Request], SessionInv, [OpNext]_allVars
    PROVE  OtherStep \/ \E r \in Requests : RequestStep(r)
<1>1. CASE \E r \in Requests : RequestAction(r)
  BY <1>1, ActionSteps
<1>2. CASE SessionMoves
  BY <1>2 DEF SessionMoves, OtherStep, quiet
<1>3. CASE Clock
  BY <1>3 DEF Clock, OtherStep, opVars
<1>4. CASE UNCHANGED allVars
  BY <1>4 DEF allVars, opVars, OtherStep
<1> QED
  BY <1>1, <1>2, <1>3, <1>4 DEF OpNext, RequestAction

-----------------------------------------------------------------------------
(* What every request has behind it.                                       *)

\* WhatsApp was told something before step n.
Told(p, n) == \E i \in 1 .. (n - 1) : p[i] \in Changes

Good(q) ==
    /\ q \in Request
    /\ Known(q.prog)
    /\ q.answer = "none" => /\ ~q.lost
                            /\ q.at <= Len(q.prog) + 1
                            /\ q.changed <=> Told(q.prog, q.at)
    /\ q.answer = "error" => (q.changed /\ ~q.lost => q.prog \in Compound)
    /\ q.answer = "ok" => /\ ~q.lost
                          /\ q.at > Len(q.prog)
                          /\ q.changed <=> Told(q.prog, Len(q.prog) + 1)

LEMMA KnownParts ==
    ASSUME NEW p, Known(p)
    PROVE  p \in Seq(Steps) /\ Len(p) \in Nat /\ DOMAIN p = 1 .. Len(p)
BY DEF Known, Whole

LEMMA KnownEmpty == Known(<<>>)
<1>1. Len(<<>>) = 0 /\ <<>> \in Seq(Steps) /\ DOMAIN <<>> = {}
  OBVIOUS
<1> QED
  BY <1>1 DEF Known, Whole, Limited, Partial

LEMMA GoodBegin ==
    ASSUME NEW f \in Fronts, NEW p \in Seq(Steps), Known(p)
    PROVE  Good(Begin(f, p))
<1> DEFINE b == Begin(f, p)
<1>1. b \in Request
  BY BeginType
<1>2. b.front = f /\ b.prog = p /\ b.at = 1 /\ ~b.changed /\ ~b.lost /\ b.answer = "none"
  BY BeginFields
<1> HIDE DEF b
<1>3. ~Told(p, 1) /\ Len(p) \in Nat
  BY DEF Told
<1>4. ~Told(b.prog, b.at) /\ b.at <= Len(b.prog) + 1 /\ Known(b.prog)
  BY <1>2, <1>3
<1>5. Good(b)
  BY <1>1, <1>2, <1>4 DEF Good
<1> QED
  BY <1>5 DEF b

LEMMA GoodIdle == Good(Idle)
<1>1. <<>> \in Seq(Steps)
  OBVIOUS
<1> QED
  BY <1>1, KnownEmpty, GoodBegin DEF Idle, Fronts

LEMMA GoodComes ==
    ASSUME NEW q, NEW t \in Request, Comes(q, t) \/ Goes(t)
    PROVE  Good(t)
<1>1. CASE \E f \in {"rest", "mcp"}, p \in RestHandlers \cup Tools : t = Begin(f, p)
  BY <1>1, ProgramsKnown, GoodBegin DEF Fronts
<1>2. CASE t = [Begin("shed", <<>>) EXCEPT !.answer = "error"]
  <2>1. t.prog = <<>> /\ t.answer = "error" /\ ~t.changed
    BY <1>2 DEF Begin
  <2> QED
    BY <2>1, KnownEmpty DEF Good
<1>3. CASE Goes(t)
  BY <1>3, GoodIdle DEF Goes
<1> QED
  BY <1>1, <1>2, <1>3 DEF Comes

LEMMA GoodEnds ==
    ASSUME NEW q, NEW t \in Request, Good(q), Ends(q, t)
    PROVE  Good(t)
<1>1. q.at = Len(q.prog) + 1
  BY KnownParts DEF Good, Ends, Request
<1> QED
  BY <1>1, KnownParts DEF Good, Ends, Kept

\* Nothing that is skipped is a change.
LEMMA GoodMoves ==
    ASSUME NEW q, NEW t \in Request, NEW s, Good(q), Moves(q, t, s)
    PROVE  Good(t) /\ \A k \in (q.at + 1) .. (t.at - 1) : q.prog[k] \notin Marked
<1> DEFINE p == q.prog
<1>1. /\ p \in Seq(Steps) /\ Len(p) \in Nat /\ q.at \in 1 .. Len(p) /\ t.at \in Nat /\ p[q.at] = s
  BY KnownParts DEF Good, Moves, AtStep, Request
<1>2. /\ q.at + Jump(s) <= Len(p)
      /\ \A k \in (q.at + 1) .. (q.at + Jump(s)) : p[k] \notin Marked
  BY <1>1 DEF Good, Known, Whole, Fits
<1>3. /\ q.at + 1 <= t.at /\ t.at <= q.at + 1 + Jump(s) /\ Jump(s) \in Nat /\ s \notin Changes
  BY <1>1 DEF Moves, Jump
<1>4. \A k \in (q.at + 1) .. (t.at - 1) : p[k] \notin Marked
  BY <1>1, <1>2, <1>3
<1>5. Told(p, q.at) <=> Told(p, t.at)
  <2>1. \A i \in 1 .. (q.at - 1) : i \in 1 .. (t.at - 1)
    BY <1>1, <1>3
  <2>2. \A i \in 1 .. (t.at - 1) : i \in 1 .. (q.at - 1) \/ i = q.at \/ i \in (q.at + 1) .. (t.at - 1)
    BY <1>1
  <2> QED
    BY <1>1, <1>3, <1>4, <2>1, <2>2 DEF Told, Marked, Changes
<1>6. t.at <= Len(p) + 1
  BY <1>1, <1>2, <1>3
<1>7. t.prog = p /\ t.answer = "none" /\ t.changed = q.changed /\ t.lost = q.lost /\ q.answer = "none"
  BY DEF Moves, Kept, AtStep
<1> QED
  BY <1>4, <1>5, <1>6, <1>7 DEF Good

LEMMA GoodFails ==
    ASSUME NEW q, NEW t \in Request, NEW s, Good(q), Fails(q, t, s)
    PROVE  Good(t)
<1> DEFINE p == q.prog
<1>1. /\ p \in Seq(Steps) /\ Len(p) \in Nat /\ DOMAIN p = 1 .. Len(p)
      /\ q.at \in 1 .. Len(p) /\ p[q.at] = s
  BY KnownParts DEF Good, Fails, AtStep, Request
<1>2. ASSUME q.changed PROVE p \in Compound
  <2>1. PICK i \in 1 .. (q.at - 1) : p[i] \in Changes
    BY <1>2 DEF Good, Fails, AtStep, Told
  <2>2. Partial(p)
    BY <1>1, <2>1 DEF Partial, Changes, Fails
  <2> QED
    BY <2>2 DEF Good, Known
<1> QED
  BY <1>2 DEF Good, Fails, Kept

LEMMA GoodTells ==
    ASSUME NEW q, NEW t \in Request, NEW s, Good(q), Tells(q, t, s)
    PROVE  Good(t)
<1> DEFINE p == q.prog
<1>1. /\ p \in Seq(Steps) /\ Len(p) \in Nat /\ q.at \in 1 .. Len(p) /\ p[q.at] = s /\ s \in Changes
  BY KnownParts DEF Good, Tells, AtStep, Request
<1>2. Told(p, q.at + 1)
  BY <1>1 DEF Told
<1>3. q.at + 1 <= Len(p) + 1
  BY <1>1
<1> QED
  BY <1>1, <1>2, <1>3 DEF Good, Tells, Kept, AtStep

RequestInv ==
    /\ request \in [Requests -> Request]
    /\ \A r \in Requests : Good(request[r])

LEMMA RequestInvStep ==
    ASSUME RequestInv, SessionInv, [OpNext]_allVars
    PROVE  RequestInv'
<1>1. CASE OtherStep
  BY <1>1 DEF OtherStep, RequestInv
<1>2. ASSUME NEW r \in Requests, RequestStep(r) PROVE RequestInv'
  <2>1. /\ request' \in [Requests -> Request]
        /\ \A o \in Requests \ {r} : request'[o] = request[o]
    BY <1>2 DEF RequestStep, Alone
  <2>2. request'[r] \in Request /\ Good(request[r])
    BY <2>1 DEF RequestInv
  <2>3. ASSUME ComesOrGoes(r) PROVE Good(request'[r])
    BY <2>2, <2>3, GoodComes, GoodEnds DEF ComesOrGoes
  <2>4. ASSUME NEW s \in Steps, GoesOn(r, s) \/ GivesUp(r, s) \/ TellsWhatsApp(r, s)
        PROVE  Good(request'[r])
    BY <2>2, <2>4, GoodMoves, GoodFails, GoodTells DEF GoesOn, GivesUp, TellsWhatsApp
  <2>5. Good(request'[r])
    BY <1>2, <2>3, <2>4 DEF RequestStep
  <2> QED
    BY <2>1, <2>5 DEF RequestInv
<1> QED
  BY <1>1, <1>2, RequestSteps DEF RequestInv

LEMMA RequestInvStart == OpInit => RequestInv
BY GoodIdle, IdleType DEF OpInit, RequestInv

LEMMA RequestsAlways == OpSpec => [](RequestInv /\ SessionInv)
<1>1. RequestInv /\ SessionInv /\ [OpNext]_allVars => RequestInv' /\ SessionInv'
  BY RequestInvStep, SessionSteps, SessionStep
<1> QED
  BY <1>1, RequestInvStart, SessionStart, PTL DEF OpSpec

\* What a handler or a tool answers is true, whatever happens between its steps:
\* an error means that nothing was changed, except for a lost reply and the
\* compound requests; a success means that the change was confirmed.
THEOREM AnswersAreTrue == OpSpec => []AnswersTrue
<1>1. RequestInv => AnswersTrue
  <2> SUFFICES ASSUME RequestInv, NEW r \in Requests
               PROVE  LET q == request[r] IN
                      /\ (q.answer = "error" /\ q.changed /\ ~q.lost) => q.prog \in Compound
                      /\ (q.answer = "ok" /\ \E i \in DOMAIN q.prog : q.prog[i] \in {"write", "send"})
                             => q.changed /\ ~q.lost
    BY DEF AnswersTrue
  <2> DEFINE q == request[r]
  <2>1. Good(q) /\ DOMAIN q.prog = 1 .. Len(q.prog) /\ Len(q.prog) \in Nat
    BY KnownParts DEF RequestInv, Good
  <2>2. ASSUME NEW i \in DOMAIN q.prog, q.prog[i] \in {"write", "send"}
        PROVE  Told(q.prog, Len(q.prog) + 1)
    BY <2>1, <2>2 DEF Told, Changes
  <2> QED
    BY <2>1, <2>2 DEF Good
<1> QED
  BY <1>1, RequestsAlways, PTL

-----------------------------------------------------------------------------
(* The slots of RateLimit.                                                 *)

Rest == {r \in Requests : request[r].front = "rest"}

SlotsInv == slots = Cardinality(Rest) /\ slots <= MaxConcurrent

LEMMA RestFinite == IsFiniteSet(Rest) /\ Cardinality(Rest) \in Nat
<1>1. Rest \in SUBSET Requests
  BY DEF Rest
<1> QED
  BY <1>1, RequestsAssumption, FS_Subset, FS_CardinalityType

LEMMA SlotsStep ==
    ASSUME RequestInv, SessionInv, SlotsInv, [OpNext]_allVars
    PROVE  SlotsInv'
<1>1. CASE OtherStep
  <2>1. Rest' = Rest /\ slots' = slots
    BY <1>1 DEF OtherStep, Rest
  <2> QED
    BY <2>1 DEF SlotsInv
<1>2. ASSUME NEW r \in Requests, RequestStep(r) PROVE SlotsInv'
  <2>1. /\ \A o \in Requests \ {r} : request'[o].front = request[o].front
        /\ SlotsFollow(r)
    BY <1>2 DEF RequestStep, Alone
  <2>2. CASE /\ (request[r].front = "rest") <=> (request'[r].front = "rest")
             /\ slots' = slots
    <3>1. Rest' = Rest
      BY <2>1, <2>2 DEF Rest
    <3> QED
      BY <2>2, <3>1 DEF SlotsInv
  <2>3. CASE /\ request[r].front # "rest" /\ request'[r].front = "rest"
             /\ slots < MaxConcurrent /\ slots' = slots + 1
    <3>1. Rest' = Rest \cup {r} /\ r \notin Rest
      BY <2>1, <2>3 DEF Rest
    <3>2. Cardinality(Rest') = Cardinality(Rest) + 1
      BY <3>1, RestFinite, FS_AddElement
    <3> QED
      BY <2>3, <3>2, RestFinite, MaxConcurrentAssumption DEF SlotsInv
  <2>4. CASE /\ request[r].front = "rest" /\ request'[r].front # "rest"
             /\ slots' = slots - 1
    <3>1. Rest' = Rest \ {r} /\ r \in Rest
      BY <2>1, <2>4 DEF Rest
    <3>2. Cardinality(Rest') = Cardinality(Rest) - 1
      BY <3>1, RestFinite, FS_RemoveElement
    <3> QED
      BY <2>4, <3>2, RestFinite, MaxConcurrentAssumption DEF SlotsInv
  <2> QED
    BY <2>1, <2>2, <2>3, <2>4 DEF SlotsFollow
<1> QED
  BY <1>1, <1>2, RequestSteps DEF RequestInv

LEMMA SlotsStart == OpInit => SlotsInv
<1> SUFFICES ASSUME OpInit PROVE SlotsInv
  OBVIOUS
<1>1. Idle.front = "none"
  BY BeginFields DEF Idle
<1>2. Rest = {}
  BY <1>1 DEF OpInit, Rest
<1> QED
  BY <1>2, FS_EmptySet, MaxConcurrentAssumption DEF OpInit, SlotsInv

LEMMA SlotsAlways == OpSpec => []SlotsInv
<1>1. RequestInv /\ SessionInv /\ SlotsInv /\ [OpNext]_allVars => SlotsInv'
  BY SlotsStep
<1> QED
  BY <1>1, SlotsStart, RequestsAlways, PTL DEF OpSpec

\* RateLimit counts the REST requests in flight, panics and refusals included.
THEOREM SlotsAreHeld == OpSpec => []SlotsHeld
<1>1. SlotsInv => SlotsHeld
  BY DEF SlotsInv, SlotsHeld, Rest
<1> QED
  BY <1>1, SlotsAlways, PTL

\* The type of every variable.
THEOREM OpTypeCorrect == OpSpec => []OpTypeOK
<1> DEFINE MixInv == mix \in Mixes /\ reached \in Nat
           All == QuotaInv /\ RequestInv /\ SessionInv /\ SlotsInv
<1>1. OpInit => MixInv
  BY DEF OpInit
<1>2. RequestInv /\ SessionInv /\ MixInv /\ [OpNext]_allVars => MixInv'
  <2> SUFFICES ASSUME RequestInv, SessionInv, MixInv, [OpNext]_allVars PROVE MixInv'
    OBVIOUS
  <2>1. mix' = mix
    <3>1. CASE UNCHANGED allVars
      BY <3>1 DEF allVars, opVars
    <3>2. CASE OpNext
      BY <3>2 DEF OpNext, Arrive, Shed, Succeed, Leave, Panic, Judge, BestEffort, Look,
         HasStoredCredentials, Connect, Dial, PrepareQR, RequestCode, LogOut,
         requireConnectedClient, AskLimiter, Tell, Refused, SessionMoves, Clock, still, quiet,
         opVars
    <3> QED
      BY <3>1, <3>2
  <2>2. reached' = reached \/ reached' = reached + Cost
    <3>1. CASE OtherStep
      BY <3>1 DEF OtherStep
    <3>2. ASSUME NEW r \in Requests, RequestStep(r)
          PROVE  reached' = reached \/ reached' = reached + Cost
      BY <3>2 DEF RequestStep, ComesOrGoes, GoesOn, GivesUp, TellsWhatsApp
    <3> QED
      BY <3>1, <3>2, RequestSteps DEF RequestInv
  <2> QED
    BY <2>1, <2>2
<1>3. All /\ MixInv => OpTypeOK
  BY RestFinite DEF OpTypeOK, QuotaInv, RequestInv, SessionInv, SlotsInv
<1> HIDE DEF MixInv
<1>4. OpSpec => []MixInv
  BY <1>1, <1>2, RequestsAlways, PTL DEF OpSpec
<1>5. OpSpec => []All
  BY QuotaAlways, RequestsAlways, SlotsAlways, PTL
<1> QED
  BY <1>3, <1>4, <1>5, PTL

-----------------------------------------------------------------------------
(* Messages that were granted and have not been sent yet.                  *)

Granted(q) ==
    /\ q.answer = "none"
    /\ \E i \in 1 .. (q.at - 1) : q.prog[i] = "allow"
    /\ \A i \in 1 .. (q.at - 1) : q.prog[i] # "send"

Holders == {r \in Requests : Granted(request[r])}

\* What reached WhatsApp and what still may was granted since the observer began to
\* count, or belongs to a request that was in flight then.
SendInv ==
    /\ reached \in Nat
    /\ IF Counting
       THEN reached + Cost * Cardinality(Holders) <= spent + Cost * Cardinality(Requests)
       ELSE reached = 0

LEMMA Finite ==
    /\ \A R \in SUBSET Requests : IsFiniteSet(R) /\ Cardinality(R) \in Nat
    /\ Cardinality(Requests) \in Nat
    /\ Holders \in SUBSET Requests
<1>1. \A R \in SUBSET Requests : IsFiniteSet(R) /\ Cardinality(R) \in Nat
  BY RequestsAssumption, FS_Subset, FS_CardinalityType
<1> QED
  BY <1>1 DEF Holders

LEMMA CostTimes ==
    /\ \A n \in Nat : Cost * n \in Nat /\ Cost * (n + 1) = Cost * n + Cost
    /\ \A m, n \in Nat : m <= n => Cost * m <= Cost * n
<1>1. \A n \in Nat : Cost * n \in Nat /\ Cost * (n + 1) = Cost * n + Cost
  OBVIOUS
<1>2. ASSUME NEW m \in Nat, NEW n \in Nat, m <= n PROVE Cost * m <= Cost * n
  <2>1. PICK d \in Nat : n = m + d
    BY <1>2
  <2>2. Cost * n = Cost * m + Cost * d
    BY <2>1
  <2> QED
    BY <1>1, <2>2
<1> QED
  BY <1>1, <1>2

\* Nothing is granted but by the limiter, and who sends had been granted it.
LEMMA HoldersStep ==
    ASSUME RequestInv, NEW r \in Requests, RequestStep(r)
    PROVE  \/ Holders' \subseteq Holders /\ reached' = reached /\ (UNCHANGED vars \/ Refuse)
           \/ Holders' \subseteq Holders \cup {r} /\ reached' = reached /\ Allow
           \/ /\ r \in Holders /\ Holders' \subseteq Holders \ {r}
              /\ reached' = IF Counting THEN reached + Cost ELSE reached
              /\ UNCHANGED vars
<1> DEFINE q == request[r]
           t == request'[r]
<1>1. /\ \A o \in Requests \ {r} : request'[o] = request[o]
      /\ t \in Request /\ Good(q) /\ q \in Request
  BY DEF RequestStep, Alone, RequestInv
<1>2. ASSUME Granted(t) => Granted(q) PROVE Holders' \subseteq Holders
  BY <1>1, <1>2 DEF Holders
<1>3. ASSUME ComesOrGoes(r) PROVE ~Granted(t)
  <2>1. CASE Comes(q, t) \/ Goes(t)
    <3>1. ASSUME NEW f, NEW p, t = Begin(f, p) PROVE t.at = 1
      BY <3>1, BeginFields
    <3>2. ASSUME NEW b, b = Begin("shed", <<>>), t = [b EXCEPT !.answer = "error"]
          PROVE  t.answer = "error"
      BY <3>2 DEF Begin
    <3>3. t.at = 1 \/ t.answer = "error"
      BY <2>1, <3>1, <3>2 DEF Comes, Goes, Idle
    <3> QED
      BY <3>3 DEF Granted
  <2>2. CASE Ends(q, t)
    BY <2>2 DEF Ends, Granted
  <2> QED
    BY <1>3, <2>1, <2>2 DEF ComesOrGoes
<1>4. ASSUME NEW s \in Steps, GoesOn(r, s), s # "allow" PROVE Granted(t) => Granted(q)
  <2> SUFFICES ASSUME Granted(t) PROVE Granted(q)
    OBVIOUS
  <2>1. Moves(q, t, s) /\ t.prog = q.prog /\ q.answer = "none" /\ q.prog[q.at] = s
    BY <1>4 DEF GoesOn, Moves, Kept, AtStep
  <2>2. \A k \in (q.at + 1) .. (t.at - 1) : q.prog[k] \notin Marked
    BY <1>1, <2>1, GoodMoves
  <2>3. q.at \in Nat /\ t.at \in Nat /\ q.at < t.at
    <3>1. q.at \in Nat /\ Jump(s) \in Nat
      BY <1>1 DEF Request, Jump
    <3> QED
      BY <2>1, <3>1 DEF Moves
  <2>4. PICK i \in 1 .. (t.at - 1) : q.prog[i] = "allow"
    BY <2>1 DEF Granted
  <2>5. i \in 1 .. (q.at - 1)
    BY <1>4, <2>1, <2>2, <2>3, <2>4 DEF Marked
  <2>6. \A k \in 1 .. (q.at - 1) : k \in 1 .. (t.at - 1)
    BY <2>3
  <2> QED
    BY <2>1, <2>4, <2>5, <2>6 DEF Granted
<1>5. ASSUME NEW s \in Steps, GivesUp(r, s) PROVE ~Granted(t)
  BY <1>5 DEF GivesUp, Fails, Granted
<1>6. ASSUME NEW s \in Steps, TellsWhatsApp(r, s), s # "send" PROVE Granted(t) => Granted(q)
  <2> SUFFICES ASSUME Granted(t) PROVE Granted(q)
    OBVIOUS
  <2>1. /\ t.prog = q.prog /\ q.answer = "none" /\ q.prog[q.at] = s
        /\ s = "write" /\ t.at = q.at + 1
    BY <1>6 DEF TellsWhatsApp, Tells, Kept, AtStep, Changes, Granted
  <2>2. q.at \in Nat
    BY <1>1 DEF Request
  <2>3. PICK i \in 1 .. q.at : q.prog[i] = "allow"
    BY <2>1, <2>2 DEF Granted
  <2>4. i \in 1 .. (q.at - 1)
    BY <2>1, <2>2, <2>3
  <2>5. \A k \in 1 .. (q.at - 1) : k \in 1 .. (t.at - 1)
    BY <2>1, <2>2
  <2> QED
    BY <2>1, <2>3, <2>4, <2>5 DEF Granted
<1>7. ASSUME TellsWhatsApp(r, "send") PROVE Granted(q) /\ ~Granted(t)
  <2>1. /\ t.prog = q.prog /\ q.answer = "none" /\ q.prog[q.at] = "send" /\ q.at <= Len(q.prog)
        /\ t.answer = "error" \/ t.at = q.at + 1
    BY <1>7 DEF TellsWhatsApp, Tells, Kept, AtStep
  <2>2. q.at \in 1 .. Len(q.prog)
    BY <1>1, <2>1, KnownParts DEF Good, Request
  <2>3. Granted(q)
    BY <1>1, <2>1, <2>2 DEF Good, Known, Limited, Granted
  <2>4. t.at = q.at + 1 => q.at \in 1 .. (t.at - 1)
    BY <2>2
  <2> QED
    BY <2>1, <2>3, <2>4 DEF Granted
<1>8. CASE ComesOrGoes(r)
  BY <1>2, <1>3, <1>8 DEF ComesOrGoes
<1>9. ASSUME NEW s \in Steps, GoesOn(r, s), s # "allow"
      PROVE  Holders' \subseteq Holders /\ reached' = reached /\ UNCHANGED vars
  BY <1>2, <1>4, <1>9 DEF GoesOn
<1>10. ASSUME GoesOn(r, "allow")
       PROVE  Holders' \subseteq Holders \cup {r} /\ reached' = reached /\ Allow
  BY <1>1, <1>10 DEF GoesOn, Holders
<1>11. ASSUME NEW s \in Steps, GivesUp(r, s)
       PROVE  Holders' \subseteq Holders /\ reached' = reached /\ (UNCHANGED vars \/ Refuse)
  BY <1>2, <1>5, <1>11 DEF GivesUp
<1>12. ASSUME NEW s \in Steps, TellsWhatsApp(r, s), s # "send"
       PROVE  Holders' \subseteq Holders /\ reached' = reached /\ UNCHANGED vars
  BY <1>2, <1>6, <1>12 DEF TellsWhatsApp
<1>13. ASSUME TellsWhatsApp(r, "send")
       PROVE  /\ r \in Holders /\ Holders' \subseteq Holders \ {r}
              /\ reached' = IF Counting THEN reached + Cost ELSE reached
              /\ UNCHANGED vars
  BY <1>1, <1>7, <1>13 DEF TellsWhatsApp, Holders
<1> QED
  BY <1>8, <1>9, <1>10, <1>11, <1>12, <1>13 DEF RequestStep

LEMMA SendStep ==
    ASSUME QuotaInv, RequestInv, SessionInv, SendInv, [OpNext]_allVars
    PROVE  SendInv'
<1> DEFINE n == Cardinality(Holders)
           all == Cardinality(Requests)
<1>0. /\ n \in Nat /\ all \in Nat /\ n <= all /\ Cost * n \in Nat /\ Cost * all \in Nat
      /\ spent \in Nat /\ now \in Nat /\ since \in Nat /\ reached \in Nat
  BY Finite, CostTimes, RequestsAssumption, FS_Subset DEF QuotaInv, TypeOK, Times, SendInv
<1>1. CASE OtherStep
  <2>1. Holders' = Holders /\ reached' = reached
    BY <1>1 DEF OtherStep, Holders
  <2>2. CASE UNCHANGED vars
    BY <2>1, <2>2 DEF SendInv, Counting, vars
  <2>3. CASE Tick
    <3>1. now' = now + 1 /\ since' = since /\ spent' = spent
      BY <2>3 DEF Tick
    <3>2. Cost * n <= Cost * all
      BY <1>0, CostTimes
    <3> QED
      BY <1>0, <2>1, <3>1, <3>2 DEF SendInv, Counting
  <2> QED
    BY <1>1, <2>2, <2>3 DEF OtherStep
<1>2. ASSUME NEW r \in Requests, RequestStep(r) PROVE SendInv'
  <2> DEFINE m == Cardinality(Holders')
  <2>1. /\ \A R \in SUBSET Requests : IsFiniteSet(R) /\ Cardinality(R) \in Nat
        /\ Holders \in SUBSET Requests /\ Holders' \in SUBSET Requests /\ m \in Nat
    BY Finite DEF Holders
  <2>2. ASSUME NEW k \in Nat, m <= k PROVE Cost * m <= Cost * k /\ Cost * m \in Nat
    BY <2>1, <2>2, CostTimes
  <2>3. CASE Holders' \subseteq Holders /\ reached' = reached /\ (UNCHANGED vars \/ Refuse)
    <3>1. m <= n
      BY <2>1, <2>3, FS_Subset
    <3>2. now' = now /\ since' = since /\ spent' = spent
      BY <2>3 DEF vars, Refuse
    <3> QED
      BY <1>0, <2>2, <2>3, <3>1, <3>2 DEF SendInv, Counting
  <2>4. CASE Holders' \subseteq Holders \cup {r} /\ reached' = reached /\ Allow
    <3>1. m <= n + 1
      <4>1. /\ IsFiniteSet(Holders \cup {r}) /\ Cardinality(Holders \cup {r}) \in Nat
            /\ Cardinality(Holders \cup {r}) <= n + 1
        BY <1>0, <2>1, FS_AddElement
      <4>2. m <= Cardinality(Holders \cup {r})
        BY <2>4, <4>1, FS_Subset
      <4> QED
        BY <1>0, <2>1, <4>1, <4>2
    <3>2. /\ now' = now /\ since' = since
          /\ spent' = IF Counting THEN spent + Cost ELSE spent
      BY <2>4 DEF Allow
    <3>3. Cost * m <= Cost * n + Cost /\ Cost * m \in Nat
      BY <1>0, <2>2, <3>1, CostTimes
    <3> QED
      BY <1>0, <2>4, <3>2, <3>3 DEF SendInv, Counting
  <2>5. CASE /\ r \in Holders /\ Holders' \subseteq Holders \ {r}
             /\ reached' = IF Counting THEN reached + Cost ELSE reached
             /\ UNCHANGED vars
    <3>1. m + 1 <= n
      <4>1. /\ IsFiniteSet(Holders \ {r}) /\ Cardinality(Holders \ {r}) = n - 1
        BY <2>1, <2>5, FS_RemoveElement
      <4>2. m <= Cardinality(Holders \ {r})
        BY <2>5, <4>1, FS_Subset
      <4> QED
        BY <1>0, <2>1, <4>1, <4>2
    <3>2. now' = now /\ since' = since /\ spent' = spent
      BY <2>5 DEF vars
    <3>3. Cost * (m + 1) <= Cost * n /\ Cost * (m + 1) = Cost * m + Cost /\ Cost * m \in Nat
      BY <1>0, <2>1, <3>1, CostTimes
    <3> QED
      BY <1>0, <2>5, <3>2, <3>3 DEF SendInv, Counting
  <2> QED
    BY <1>2, <2>3, <2>4, <2>5, HoldersStep
<1> QED
  BY <1>1, <1>2, RequestSteps DEF RequestInv

LEMMA SendStart == OpInit => SendInv
<1> SUFFICES ASSUME OpInit PROVE SendInv
  OBVIOUS
<1>1. Cardinality(Holders) \in Nat /\ Cardinality(Requests) \in Nat
  BY Finite
<1>2. Cardinality(Holders) <= Cardinality(Requests)
  BY Finite, RequestsAssumption, FS_Subset
<1>3. Cost * Cardinality(Holders) <= Cost * Cardinality(Requests)
  BY <1>1, <1>2, CostTimes
<1>4. Cost * Cardinality(Holders) \in Nat /\ Cost * Cardinality(Requests) \in Nat
  BY <1>1, CostTimes
<1> QED
  BY <1>3, <1>4 DEF OpInit, Init, SendInv

\* Whatever is in flight, WhatsApp gets in an interval at most a full bucket, its
\* refill, and one message for each request that may hold a grant.
THEOREM SendsBounded == OpSpec => []SendBound
<1>1. QuotaInv /\ SendInv => SendBound
  <2> SUFFICES ASSUME QuotaInv, SendInv, Counting
               PROVE  reached <= Minute + (now - since) + Cost * Cardinality(Requests)
    BY DEF SendBound
  <2>1. Cost * Cardinality(Holders) \in Nat /\ Cost * Cardinality(Requests) \in Nat
    BY Finite, CostTimes
  <2>2. Refilled \in Nat /\ spent \in Nat /\ now \in Nat /\ since \in Nat /\ reached \in Nat
    BY RefilledType DEF QuotaInv, TypeOK, Times, SendInv
  <2> QED
    BY <2>1, <2>2 DEF QuotaInv, CreditInv, SendInv
<1>2. QuotaInv /\ RequestInv /\ SessionInv /\ SendInv /\ [OpNext]_allVars => SendInv'
  BY SendStep
<1> QED
  BY <1>1, <1>2, SendStart, QuotaAlways, RequestsAlways, PTL DEF OpSpec

-----------------------------------------------------------------------------
(* The linking code of the REST API.                                       *)

\* Past its third step the request has seen stored credentials.
CodeInv ==
    \A r \in Requests :
        (request[r].prog \in RestPairPhone /\ request[r].at > 3) => everLinked

LEMMA TimesMember ==
    ASSUME NEW A, NEW B, NEW p \in A ** B
    PROVE  \E a \in A, b \in B : p = a \o b
BY DEF **

\* The parts of JoinParts that PairSteps uses.
LEMMA JoinFront ==
    ASSUME NEW p \in Seq(Steps), NEW q \in Seq(Steps), NEW r, r = p \o q
    PROVE  /\ r \in Seq(Steps)
           /\ Len(r) = Len(p) + Len(q)
           /\ \A i \in 1 .. Len(p) : r[i] = p[i]
           /\ \A i \in 1 .. Len(q) : r[Len(p) + i] = q[i]
BY JoinParts

LEMMA PairSteps ==
    ASSUME NEW p \in RestPairPhone
    PROVE  Len(p) = 6 /\ p[1] = "permit" /\ p[2] = "account" /\ p[3] = "linked"
<1>1. PICK a \in requireConnectedAccount, b \in PairPhone : p = a \o b
  BY TimesMember DEF RestPairPhone
<1>2. PICK c \in requireAccount ** {<<"linked">>}, d \in EnsureConnected : a = c \o d
  BY TimesMember DEF requireConnectedAccount
<1>3. PICK e \in requireAccount, f \in {<<"linked">>} : c = e \o f
  <2> DEFINE L == {<<"linked">>}
  <2>1. c \in requireAccount ** L
    OBVIOUS
  <2> HIDE DEF L
  <2>2. \E e \in requireAccount, f \in L : c = e \o f
    BY <2>1, TimesMember
  <2> QED
    BY <2>2 DEF L
<1>4. /\ e = <<"permit", "account">> /\ f = <<"linked">>
      /\ d = <<"connect", "dial">> /\ b = <<"paircode">>
  BY DEF requireAccount, EnsureConnected, PairPhone
<1>5. /\ e \in Seq(Steps) /\ Len(e) = 2 /\ e[1] = "permit" /\ e[2] = "account"
      /\ f \in Seq(Steps) /\ Len(f) = 1 /\ f[1] = "linked"
      /\ d \in Seq(Steps) /\ Len(d) = 2
      /\ b \in Seq(Steps) /\ Len(b) = 1
  BY <1>4 DEF Steps
<1>6. c \in Seq(Steps) /\ Len(c) = 3 /\ c[1] = "permit" /\ c[2] = "account" /\ c[3] = "linked"
  <2>1. /\ c \in Seq(Steps) /\ Len(c) = Len(e) + Len(f)
        /\ \A i \in 1 .. Len(e) : c[i] = e[i]
        /\ \A i \in 1 .. Len(f) : c[Len(e) + i] = f[i]
    <3>1. e \in Seq(Steps) /\ f \in Seq(Steps)
      BY <1>5
    <3> QED
      BY <1>3, <3>1, JoinFront
  <2>2. c[2 + 1] = f[1] /\ c[1] = e[1] /\ c[2] = e[2]
    BY <1>5, <2>1
  <2> QED
    BY <1>5, <2>1, <2>2
<1>7. a \in Seq(Steps) /\ Len(a) = 5 /\ a[1] = "permit" /\ a[2] = "account" /\ a[3] = "linked"
  <2>1. a \in Seq(Steps) /\ Len(a) = Len(c) + Len(d) /\ \A i \in 1 .. Len(c) : a[i] = c[i]
    <3>1. c \in Seq(Steps) /\ d \in Seq(Steps)
      BY <1>5, <1>6
    <3> QED
      BY <1>2, <3>1, JoinFront
  <2> QED
    BY <1>5, <1>6, <2>1
<1>8. Len(p) = Len(a) + Len(b) /\ \A i \in 1 .. Len(a) : p[i] = a[i]
  <2>1. a \in Seq(Steps) /\ b \in Seq(Steps)
    BY <1>5, <1>7
  <2> QED
    BY <1>1, <2>1, JoinFront
<1> QED
  BY <1>5, <1>7, <1>8

LEMMA CodeStep ==
    ASSUME RequestInv, SessionInv, CodeInv, [OpNext]_allVars
    PROVE  CodeInv'
<1>0. everLinked => everLinked'
  BY SessionSteps DEF SessionMoved
<1>1. CASE OtherStep
  BY <1>0, <1>1 DEF OtherStep, CodeInv
<1>2. ASSUME NEW r \in Requests, RequestStep(r) PROVE CodeInv'
  <2> DEFINE q == request[r]
             t == request'[r]
  <2>1. /\ \A o \in Requests \ {r} : request'[o] = request[o]
        /\ q \in Request /\ Good(q)
    BY <1>2 DEF RequestStep, Alone, RequestInv
  <2>2. ASSUME t.prog \in RestPairPhone, t.at > 3 PROVE everLinked'
    <3>1. CASE ComesOrGoes(r)
      <4>1. ASSUME NEW f, NEW p, t = Begin(f, p) PROVE t.at = 1
        BY <4>1, BeginFields
      <4>2. ASSUME t = [Begin("shed", <<>>) EXCEPT !.answer = "error"] PROVE t.at = 1
        BY <4>2 DEF Begin
      <4>3. CASE Comes(q, t) \/ Goes(t)
        BY <2>2, <4>1, <4>2, <4>3 DEF Comes, Goes, Idle
      <4>4. CASE Ends(q, t)
        BY <1>0, <2>2, <4>4 DEF Ends, Kept, CodeInv
      <4> QED
        BY <3>1, <4>3, <4>4 DEF ComesOrGoes
    <3>2. ASSUME NEW s \in Steps, GoesOn(r, s) PROVE everLinked'
      <4>1. /\ q.prog = t.prog /\ q.prog[q.at] = s
            /\ t.at <= q.at + 1 + Jump(s)
            /\ q.at \in Nat \ {0} /\ t.at \in Nat
        <5>1. q.at \in Nat \ {0} /\ Jump(s) \in Nat
          BY <2>1 DEF Request, Jump
        <5> QED
          BY <2>1, <3>2, <5>1 DEF GoesOn, Moves, Kept, AtStep
      <4>2. CASE q.at > 3
        BY <1>0, <2>2, <4>1, <4>2 DEF CodeInv
      <4>3. CASE q.at \in {1, 2}
        <5>1. s = "permit" \/ s = "account"
          BY <2>2, <4>1, <4>3, PairSteps
        <5>2. Jump(s) = 0
          BY <5>1 DEF Jump
        <5> QED
          BY <2>2, <4>1, <4>3, <5>2
      <4>4. CASE q.at = 3
        BY <1>0, <2>2, <3>2, <4>1, <4>4, PairSteps DEF GoesOn
      <4> QED
        BY <4>1, <4>2, <4>3, <4>4
    <3>3. ASSUME NEW s \in Steps, GivesUp(r, s) PROVE everLinked'
      BY <1>0, <2>2, <3>3 DEF GivesUp, Fails, Kept, CodeInv
    <3>4. ASSUME NEW s \in Steps, TellsWhatsApp(r, s) PROVE everLinked'
      <4>1. /\ q.prog = t.prog /\ q.prog[q.at] = s /\ s \in Changes
            /\ t.at <= q.at + 1 /\ q.at \in Nat \ {0}
        BY <2>1, <3>4 DEF TellsWhatsApp, Tells, Kept, AtStep, Request
      <4>2. q.at > 3
        BY <2>2, <4>1, PairSteps DEF Changes
      <4> QED
        BY <1>0, <2>2, <4>1, <4>2 DEF CodeInv
    <3> QED
      BY <1>2, <3>1, <3>2, <3>3, <3>4 DEF RequestStep
  <2> QED
    BY <1>0, <2>1, <2>2 DEF CodeInv
<1> QED
  BY <1>1, <1>2, RequestSteps DEF RequestInv

\* An account that was never linked gets no linking code from the REST API,
\* whatever runs beside the request.
THEOREM NoFirstCode == OpSpec => []NoFirstCodeByRest
<1>1. OpInit => CodeInv
  <2>1. Idle.at = 1
    BY BeginFields DEF Idle
  <2> QED
    BY <2>1 DEF OpInit, CodeInv
<1>2. RequestInv /\ CodeInv => NoFirstCodeByRest
  <2> SUFFICES ASSUME RequestInv, CodeInv, NEW r \in Requests,
                      request[r].answer = "ok", request[r].prog \in RestPairPhone
               PROVE  everLinked
    BY DEF NoFirstCodeByRest
  <2>1. request[r].at > Len(request[r].prog) /\ request[r].at \in Nat
    BY DEF RequestInv, Good, Request
  <2> QED
    BY <2>1, PairSteps DEF CodeInv
<1>3. RequestInv /\ SessionInv /\ CodeInv /\ [OpNext]_allVars => CodeInv'
  BY CodeStep
<1> QED
  BY <1>1, <1>2, <1>3, RequestsAlways, PTL DEF OpSpec
-----------------------------------------------------------------------------
(* a.mu across a network call.                                             *)

\* The request waits for the network with a.mu held.
Dials(q) == q.answer = "none" /\ q.at <= Len(q.prog) /\ q.prog[q.at] \in DialSteps

Dialling(r) == Dials(request[r])

\* One request at a time waits with the lock, and what it waits for is that the client
\* it has prepared gets connected.
DialsAlone ==
    \A r \in Requests : Dialling(r) =>
        /\ session.client = "down"
        /\ \A q \in Requests : Dialling(q) => q = r

LEMMA LockTaken == LockFree <=> \A r \in Requests : ~Dialling(r)
BY DEF LockFree, At, Dialling, Dials

\* A network call has the step that prepares it right behind it.
LEMMA DialsBehind ==
    ASSUME NEW t, Good(t), Dials(t)
    PROVE  t.at \in Nat /\ t.at > 1 /\ t.prog[t.at - 1] \in Preparing
BY KnownParts DEF Good, Dials, Known, Whole, Fits, Request

\* It begins by passing that step: nothing is skipped on the way to it.
LEMMA DialBegins ==
    ASSUME NEW r \in Requests, RequestInv, RequestInv', RequestStep(r), Dialling(r)'
    PROVE  /\ Kept(request[r], request'[r])
           /\ request'[r].at = request[r].at + 1
           /\ \E s \in Preparing : AtStep(request[r], s)
<1> DEFINE q == request[r]
           t == request'[r]
<1>1. Good(q) /\ Good(t) /\ Dials(t)
  BY DEF RequestInv, Dialling
<1>2. t.answer = "none" /\ t.at > 1 /\ t.prog[t.at - 1] \in Preparing
  BY <1>1, DialsBehind DEF Dials
<1> HIDE DEF q, t
<1>3. ~(Comes(q, t) \/ Goes(t) \/ Ends(q, t))
  <2>1. ~Goes(t)
    BY <1>2, BeginFields DEF Goes, Idle
  <2>2. ASSUME NEW f, NEW p, t = Begin(f, p) PROVE FALSE
    BY <1>2, <2>2, BeginFields
  <2>3. t # [Begin("shed", <<>>) EXCEPT !.answer = "error"]
    BY <1>2 DEF Begin
  <2>4. ~Ends(q, t)
    BY <1>2 DEF Ends
  <2> QED
    BY <2>1, <2>2, <2>3, <2>4 DEF Comes
<1>4. PICK s \in Steps : Moves(q, t, s) \/ Fails(q, t, s) \/ Tells(q, t, s)
  BY <1>3 DEF RequestStep, ComesOrGoes, GoesOn, GivesUp, TellsWhatsApp, q, t
<1>5. /\ Kept(q, t) /\ AtStep(q, s)
      /\ q.at \in 1 .. Len(q.prog) /\ q.prog[q.at] = s /\ Fits(q.prog, q.at)
  BY <1>1, <1>4, KnownParts DEF Moves, Fails, Tells, AtStep, Good, Known, Whole, Request
<1>6. CASE t.at = q.at + 1
  BY <1>2, <1>5, <1>6 DEF Kept, q, t
<1>7. CASE t.at # q.at + 1
  <2>1. t.at = q.at + 1 + Jump(s) /\ Jump(s) > 0
    BY <1>2, <1>4, <1>5, <1>7 DEF Moves, Fails, Tells, Jump
  <2>2. q.prog[q.at + Jump(s)] \in DialSteps
    BY <1>5, <2>1 DEF Fits
  <2>3. t.at - 1 = q.at + Jump(s)
    <3>1. Jump(s) \in Nat
      BY DEF Jump
    <3> QED
      BY <1>5, <2>1, <3>1
  <2> QED
    BY <1>2, <1>5, <2>2, <2>3 DEF Kept, DialSteps, Preparing
<1> QED
  BY <1>6, <1>7

\* Connect and GetQR take the lock, and leave a client that is not connected.
LEMMA DialPrepared ==
    ASSUME NEW r \in Requests, RequestInv, RequestInv', SessionInv, [OpNext]_allVars,
           request'[r] # request[r], Dialling(r)'
    PROVE  LockFree /\ session'.client = "down" /\ Alone(r)
<1> DEFINE q == request[r]
           t == request'[r]
<1> USE DEF RequestInv
<1>1. RequestStep(r)
  BY RequestSteps DEF OtherStep, RequestStep, Alone
<1>2. PICK s \in Preparing : AtStep(q, s)
  BY <1>1, DialBegins
<1>3. t.at = q.at + 1 /\ q.at \in Nat \ {0} /\ t.answer = "none"
  BY <1>1, DialBegins DEF Request, Dialling, Dials
<1>4. \A step : At(r, step) => step = s
  BY <1>2 DEF At, AtStep
<1>5. ASSUME NEW n \in Nat \ {0}, Goto(r, n) PROVE n = 1
  BY <1>3, <1>5, PassSlot
<1>6. ~Fail(r)
  BY <1>3, AnswerSlot DEF Fail
<1>7. Connect(r) \/ PrepareQR(r)
  <2>1. PICK o \in Requests : RequestAction(o)
    BY DEF OpNext, RequestAction, SessionMoves, Clock, allVars, opVars
  <2>2. o = r
    BY <2>1, ActionSteps DEF RequestStep, Alone
  <2>3. ~(Arrive(r) \/ Shed(r) \/ Leave(r) \/ Panic(r))
    <3>1. ASSUME NEW f, NEW p, t = Begin(f, p) PROVE FALSE
      BY <1>3, <3>1, BeginFields
    <3>2. t # [Begin("shed", <<>>) EXCEPT !.answer = "error"]
      BY <1>3 DEF Begin
    <3>3. ~Arrive(r)
      BY <3>1 DEF Arrive
    <3>4. ~Shed(r)
      BY <3>2 DEF Shed
    <3>5. ~Leave(r) /\ ~Panic(r)
      BY <3>1 DEF Leave, Panic, Idle
    <3> QED
      BY <3>3, <3>4, <3>5
  <2>4. ~Succeed(r)
    BY <1>2, <1>3 DEF Succeed, AtStep
  <2>5. ~(\/ Judge(r) \/ BestEffort(r) \/ Look(r) \/ HasStoredCredentials(r) \/ Dial(r)
          \/ RequestCode(r) \/ LogOut(r) \/ requireConnectedClient(r) \/ AskLimiter(r)
          \/ Tell(r) \/ Refused(r))
    BY <1>4 DEF Judge, BestEffort, Look, HasStoredCredentials, Dial, RequestCode, LogOut,
       requireConnectedClient, AskLimiter, Tell, Refused, DialSteps, Preparing
  <2> QED
    BY <2>1, <2>2, <2>3, <2>4, <2>5 DEF RequestAction
<1>8. LockFree
  BY <1>7 DEF Connect, PrepareQR
<1>9. session' \in S!Prepared(session)
  <2>1. ~Goto(r, 2)
    BY <1>5
  <2> QED
    BY <1>6, <1>7, <2>1 DEF Connect, PrepareQR, Become
<1> QED
  BY <1>1, <1>8, <1>9 DEF S!Prepared, RequestStep

\* Nobody else touches the session until the network call is over.
LEMMA DialUndisturbed ==
    ASSUME NEW r \in Requests, RequestInv, DialsAlone, [OpNext]_allVars,
           Dialling(r), request'[r] = request[r]
    PROVE  session' = session
<1>1. ~LockFree
  BY LockTaken
<1>2. ASSUME NEW o \in Requests, Dial(o) PROVE FALSE
  <2>1. Dialling(o)
    BY <1>2 DEF Dial, At, Dialling, Dials, DialSteps
  <2>2. o = r /\ request \in [Requests -> Request]
    BY <2>1 DEF DialsAlone, RequestInv
  <2>3. request[r].answer = "none" /\ request[r].at \in Nat
    BY <2>2 DEF Dialling, Dials, Request
  <2>4. ~Pass(r)
    BY <2>2, <2>3, PassSlot DEF Pass
  <2>5. ~Fail(r)
    BY <2>2, <2>3, AnswerSlot DEF Fail
  <2> QED
    BY <1>2, <2>2, <2>4, <2>5 DEF Dial
<1>3. ASSUME NEW o \in Requests,
             \/ Arrive(o) \/ Shed(o) \/ Succeed(o) \/ Leave(o) \/ Panic(o) \/ Judge(o)
             \/ BestEffort(o) \/ Look(o) \/ HasStoredCredentials(o) \/ RequestCode(o)
             \/ requireConnectedClient(o) \/ AskLimiter(o) \/ Tell(o) \/ Refused(o)
      PROVE  session' = session
  BY <1>3 DEF Arrive, Shed, Succeed, Leave, Panic, Judge, BestEffort, Look,
     HasStoredCredentials, RequestCode, requireConnectedClient, AskLimiter, Tell, Refused, still
<1>4. ASSUME NEW o \in Requests, Connect(o) \/ PrepareQR(o) \/ LogOut(o) PROVE FALSE
  BY <1>1, <1>4 DEF Connect, PrepareQR, LogOut
<1>5. ~SessionMoves
  BY <1>1 DEF SessionMoves
<1>6. CASE Clock \/ UNCHANGED allVars
  BY <1>6 DEF Clock, allVars, opVars
<1> QED
  BY <1>2, <1>3, <1>4, <1>5, <1>6 DEF OpNext

LEMMA DialsStep ==
    ASSUME RequestInv, RequestInv', SessionInv, DialsAlone, [OpNext]_allVars
    PROVE  DialsAlone'
<1> SUFFICES ASSUME NEW r \in Requests, Dialling(r)'
             PROVE  session'.client = "down" /\ \A o \in Requests : Dialling(o)' => o = r
  BY DEF DialsAlone
<1>1. \A o \in Requests : request'[o] = request[o] => Dialling(o)' = Dialling(o)
  BY DEF Dialling
<1>2. CASE request'[r] # request[r]
  <2>1. LockFree /\ session'.client = "down" /\ Alone(r)
    BY <1>2, DialPrepared
  <2> QED
    BY <1>1, <2>1, LockTaken DEF Alone
<1>3. CASE request'[r] = request[r]
  <2>1. Dialling(r) /\ session' = session
    BY <1>1, <1>3, DialUndisturbed
  <2>2. \A o \in Requests : Dialling(o)' => request'[o] = request[o]
    BY <2>1, DialPrepared, LockTaken
  <2> QED
    BY <1>1, <2>1, <2>2 DEF DialsAlone
<1> QED
  BY <1>2, <1>3

LEMMA DialsStart == OpInit => DialsAlone
<1> SUFFICES ASSUME OpInit, NEW r \in Requests, Dialling(r) PROVE FALSE
  BY DEF DialsAlone
<1>1. Good(request[r]) /\ request[r] = Idle
  BY GoodIdle DEF OpInit
<1> QED
  BY <1>1, DialsBehind, BeginFields DEF Dialling, Idle

\* Whatever the requests are, one at a time waits for the network with a.mu held, and
\* nobody replaces, connects or drops the client that it waits for: the answer of the
\* network finds the client that Connect or GetQR has prepared.
THEOREM DialsExclusive == OpSpec => []DialsAlone
<1>1. RequestInv /\ SessionInv /\ RequestInv' /\ DialsAlone /\ [OpNext]_allVars => DialsAlone'
  BY DialsStep
<1> QED
  BY <1>1, DialsStart, RequestsAlways, PTL DEF OpSpec
=============================================================================
