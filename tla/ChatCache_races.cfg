SPECIFICATION FairSpec
CONSTANTS
    incoming = incoming
    outgoing = outgoing
    Messages = {incoming, outgoing}
    Sent <- OneSent
    Synced = {}
    Pages = {page}
    Chats = chats
    Readers = {r1}
    Faults = TRUE
    None = None
INVARIANTS
    OmissionExplained
PROPERTIES
    StoredIsShown
