------------------------------ MODULE Handlers -------------------------------
(***************************************************************************)
(* What the REST handlers of handler/whatsapp.go and the MCP tools of      *)
(* mcpserver/server.go do, as sequences of steps; Operations runs them.    *)
(* A handler is the set of the ways it may go through its optional parts;  *)
(* any step may end it early, as the code's error returns do.  Every name  *)
(* below is the operator of one function or of functions that take the     *)
(* same steps.  Contents (recipients, texts, files, groups) are left out:  *)
(* what is kept is when a request looks, waits, changes something and      *)
(* answers.                                                                *)
(***************************************************************************)
EXTENDS Naturals, Sequences

Steps ==
    {"permit", "account", "check",              \* decided on the request alone
     "linked", "connect", "dial",               \* HasStoredCredentials, EnsureConnected
     "stored", "verify", "verifydial",          \* the same, when failing is no error
     "status", "logout", "qr", "qrdial", "code", "paircode",
     "client",                                  \* requireConnectedClient
     "allow",                                   \* sendLimiter.allow
     "ask",                                     \* a query, of WhatsApp or of a table
     "try", "store",                            \* best effort: errors are dropped
     "write", "send"}                           \* WhatsApp is told to change something

\* The steps that wait for the network with a.mu held.
DialSteps == {"dial", "verifydial", "qrdial"}

A ** B == {a \o b : a \in A, b \in B}

Maybe(A) == A \cup {<<>>}

-----------------------------------------------------------------------------
(* service.Account                                                         *)

EnsureConnected == {<<"connect", "dial">>}
GetQR == {<<"qr", "qrdial">>}
PairPhone == {<<"paircode">>}
Logout == {<<"logout">>}
StatusResponse == {<<"status">>}
ResolvePhone == {<<"client", "check", "ask">>}

\* (mutant: a reply is not limited)
SendReply_Unlimited == {<<"client", "check", "send", "store">>}

SendMessage == {<<"allow", "client", "check", "send", "store">>}
SendReply == {<<"allow", "client", "check", "send", "store">>}

\* The upload comes first: it changes no chat.
SendMedia == {<<"allow", "client", "check", "ask", "send", "store">>}

\* SendChatPresence, MarkRead, SendReaction: none of them asks the limiter.
Gesture == {<<"client", "check", "write">>}
RevokeMessage == {<<"client", "check", "write">>}
SendPresence == {<<"client", "check", "write">>}

\* The stored contact, and its picture if it can be had.
GetContactInfo == {<<"client", "check", "ask", "try">>}
ListContacts == {<<"client", "ask">>}
CheckContacts == {<<"client", "ask">>}

GetGroupInfo == {<<"client", "check", "ask">>}
ListGroups == {<<"client", "ask">>}
CreateGroup == {<<"client", "check", "write">>}
LeaveGroup == {<<"client", "check", "write">>}
UpdateGroupParticipants == {<<"client", "check", "write">>}

\* Name, description, locked, announce: those the request has, one after another.
UpdateGroup ==
    LET Set == Maybe({<<"write">>}) IN {<<"client", "check">>} ** Set ** Set ** Set ** Set

\* A reset makes a new link.
GetGroupInviteLink == {<<"client", "check">>} ** {<<"ask">>, <<"write">>}

\* ListNewsletters, GetNewsletterInfo, GetNewsletterMessages
ReadNewsletters == {<<"client">>} ** Maybe({<<"check">>}) ** {<<"ask">>}

\* FollowNewsletter, UnfollowNewsletter, ToggleMuteNewsletter
WriteNewsletters == {<<"client", "check", "write">>}

\* Picture, about text and business profile: each if it can be had.
GetProfile == {<<"client", "try">>}
SetStatusMessage == {<<"client", "write">>}

\* From the cache, or whatever the client and the tables give.
ListChats == {<<"try">>, <<"try", "client", "try">>}
ListMessages == {<<"ask">>}

-----------------------------------------------------------------------------
(* handler: requests under /api/v1/accounts/{account_id}                   *)

\* RequirePermission of the route, then requireAccount.
requireAccount == {<<"permit", "account">>}

requireConnectedAccount == requireAccount ** {<<"linked">>} ** EnsureConnected

resolveRecipient == {<<"check">>} ** Maybe(ResolvePhone)

\* Every participant given as a number is looked up; bound: at most one is.
resolveParticipants == Maybe(ResolvePhone)

\* A session that is stored and not logged in is connected, if it can be.
RestGetSession == requireAccount ** {<<"stored", "verify", "verifydial">>} ** StatusResponse

RestGetQR == requireAccount ** GetQR ** {<<"code">>}

\* (mutant: like the tool, the handler does not ask for a linked account)
RestPairPhone_Unlinked == requireAccount ** PairPhone

RestPairPhone == requireConnectedAccount ** PairPhone

RestDeleteSession == requireAccount ** Logout

\* The recipient and the text are checked before the account is looked up; the
\* file only after the number is resolved.
RestSendMessage ==
    {<<"permit", "check">>} ** {<<"account", "linked">>} ** EnsureConnected
        ** Maybe(ResolvePhone)
        ** (({<<"check">>} ** SendMedia) \cup (Maybe({<<"check">>}) ** (SendMessage \cup SendReply)))

\* ReactMessage, MarkRead
RestGesture ==
    requireConnectedAccount ** {<<"check">>} ** resolveRecipient ** {<<"check">>} ** Gesture

RestRevokeMessage == requireConnectedAccount ** resolveRecipient ** RevokeMessage

\* ListChats, ListContacts, CheckContacts, GetContact
RestChatsAndContacts ==
    requireConnectedAccount
        ** (ListChats \cup ListContacts \cup ({<<"check">>} ** CheckContacts)
              \cup (Maybe(ResolvePhone) ** GetContactInfo))

\* ListGroups, CreateGroup, GetGroup
RestGroups ==
    requireConnectedAccount
        ** (ListGroups \cup GetGroupInfo
              \cup ({<<"check">>} ** resolveParticipants ** CreateGroup))

\* The group is read back for the answer.
RestUpdateGroup == requireConnectedAccount ** {<<"check">>} ** UpdateGroup ** GetGroupInfo

\* LeaveGroup, GetGroupInvite, UpdateGroupParticipants
RestGroupMembers ==
    requireConnectedAccount
        ** (LeaveGroup \cup GetGroupInviteLink
              \cup ({<<"check">>} ** resolveParticipants ** UpdateGroupParticipants))

RestSendPresence ==
    requireConnectedAccount ** {<<"check">>}
        ** ((Maybe(ResolvePhone) ** Gesture) \cup SendPresence)

RestGetProfile == requireConnectedAccount ** GetProfile

\* The profile is read back for the answer.
RestUpdateProfile ==
    requireConnectedAccount ** {<<"check">>} ** Maybe(SetStatusMessage) ** GetProfile

\* The handlers of newsletters.
RestNewsletters ==
    requireConnectedAccount ** (ReadNewsletters \cup (Maybe({<<"check">>}) ** WriteNewsletters))

RestHandlers ==
    RestGetSession \cup RestGetQR \cup RestPairPhone \cup RestDeleteSession
      \cup RestSendMessage \cup RestGesture \cup RestRevokeMessage \cup RestChatsAndContacts
      \cup RestGroups \cup RestUpdateGroup \cup RestGroupMembers \cup RestSendPresence
      \cup RestGetProfile \cup RestUpdateProfile \cup RestNewsletters

-----------------------------------------------------------------------------
(* mcpserver: tools                                                        *)

\* requirePermission, then resolveAccount.
resolveAccount == {<<"permit", "account">>}

resolveConnectedAccount == resolveAccount ** {<<"linked">>} ** EnsureConnected

\* list_accounts, get_session, get_qr, pair_phone, logout
ToolSession ==
    {<<"permit", "status">>}
      \cup (resolveAccount ** (StatusResponse \cup (GetQR ** {<<"code">>})
                                 \cup ({<<"check">>} ** PairPhone) \cup Logout))

ToolSendMessage ==
    resolveConnectedAccount ** {<<"check">>} ** Maybe(ResolvePhone)
        ** (SendMessage \cup SendReply)

\* check_contacts, get_contact, list_groups, get_group
ToolContactsAndGroups ==
    resolveConnectedAccount
        ** (ListGroups \cup ({<<"check">>} ** (CheckContacts \cup GetContactInfo \cup GetGroupInfo)))

\* get_profile, update_profile, list_chats, get_messages
ToolProfileAndChats ==
    (resolveConnectedAccount ** (GetProfile \cup ({<<"check">>} ** SetStatusMessage) \cup ListChats))
      \cup (resolveAccount ** {<<"check">>} ** ListMessages)

\* react_message, mark_read, revoke_message
ToolGestures == resolveConnectedAccount ** {<<"check">>} ** (Gesture \cup RevokeMessage)

\* send_media, send_presence, send_chat_presence
ToolMediaAndPresence ==
    resolveConnectedAccount ** {<<"check">>} ** (SendMedia \cup SendPresence \cup Gesture)

\* update_group does not read the group back.
ToolUpdateGroup == resolveConnectedAccount ** {<<"check">>} ** UpdateGroup

\* list_contacts, create_group, leave_group
ToolGroups ==
    resolveConnectedAccount
        ** (ListContacts \cup ({<<"check">>} ** (CreateGroup \cup LeaveGroup)))

\* update_participants, get_group_invite
ToolGroupMembers ==
    resolveConnectedAccount ** {<<"check">>} ** (UpdateGroupParticipants \cup GetGroupInviteLink)

Tools ==
    ToolSession \cup ToolSendMessage \cup ToolContactsAndGroups \cup ToolProfileAndChats
      \cup ToolGestures \cup ToolMediaAndPresence \cup ToolUpdateGroup \cup ToolGroups
      \cup ToolGroupMembers

\* Something that can fail comes after a change.
Partial(p) ==
    \E i, j \in DOMAIN p : i < j /\ p[i] \in {"write", "send"} /\ p[j] \notin {"try", "store"}

\* The requests that may have changed something when they answer with an error:
\* they make several changes, or read something back.
Compound ==
    {p \in RestUpdateGroup \cup RestUpdateProfile \cup ToolUpdateGroup : Partial(p)}
=============================================================================
