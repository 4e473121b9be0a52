SPECIFICATION FairSpec
CONSTANTS
    ask = ask
    note = note
    answer = answer
    back = back
    Calls = {ask, note, answer, back}
    At <- AtEnd
    Kind <- KindOf
    MadeBy <- Makers
    TimeoutTicks = 2
    Reserved = 1
    Breakable = TRUE
    Nobody = Nobody
CONSTRAINTS
    AskedInside
    BrokenWithNote
INVARIANTS
    TypeOK
    ReplyAfterCallback
    AnsweredLeavesList
    InnerRequestStarves
    ResponseWasSent
PROPERTIES
    AnsweredNotReported
    
    CallsReturn
    EntriesLeave
    RepliesCome
CHECK_DEADLOCK FALSE
