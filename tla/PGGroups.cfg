CONSTANTS
    None = None
    joinedGroup = joinedGroup
    ownGroup = ownGroup
    a = a
    b = b
    Groups = {joinedGroup, ownGroup}
    Owned = {ownGroup}
    Users = {a, b}
    Members <- MembersUsed
    Calls <- Everything
    MaxCalls = 3
    MaxNews = 1
SPECIFICATION Spec
INVARIANTS
    TypeOK
    IdsRecognise
    MessageUnderInvitation
    NobodyTwice
    DetailsForAll
    HeadersOwn
CHECK_DEADLOCK FALSE
