SPECIFICATION FairSpec
CONSTANTS
    Users = {u1, u2}
    Requests = {t1, t2}
    Editors = {e1}
    Deleters = {u1}
    MayExpire = {}
    Unlimited = Unlimited
    Capacities = {1, Unlimited}
    Windows = {"open"}
    Nobody = Nobody
PROPERTIES GrowthWithinCapacity BannedStays EveryRequestEnds
