SPECIFICATION Spec
CONSTANTS
    None = None
    Users = {u, v}
    Buddies = {u}
    MaxCalls = 3
    MaxNews = 1
    Calls <- Everything
    Values = {1}
    Lists = {2}
INVARIANTS
    TypeOK
    AnswerComing
    OwnAnswers
    GroupListAgrees
    GroupIdsAgree
    HeadersOwn
    AckIsCurrent
CHECK_DEADLOCK FALSE
