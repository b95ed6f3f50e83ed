SPECIFICATION FairSpec
CONSTANTS
    i1 = i1
    i2 = i2
    u1 = u1
    r1 = r1
    r2 = r2
    Nobody = Nobody
    Inviters <- TwoInviters
    Invitees <- OneInvitee
    Requests <- TwoRequests
    MayExpire <- TwoRequests
    Pool = 2
    Leavers <- OneOfEach
    Ops <- AllOps
INVARIANTS InvitedCanAnswer SeatHasInvitation
PROPERTIES AnswersStand RequestsEnd
CHECK_DEADLOCK FALSE
