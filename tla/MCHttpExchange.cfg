SPECIFICATION Spec
CONSTANTS
    Tokens = {t1, t2}
    Snapshots <- MCSnapshots
    Requests <- MCRequests
    Replies <- MCReplies
    StreamLines <- MCStreamLines
    MaxLines = 4
SYMMETRY TokensAlike
INVARIANTS
    SentFitsToken
    HeadersFitToken
    LimitMarkedOnce
    EachReplyChargedOnce
CHECK_DEADLOCK FALSE
