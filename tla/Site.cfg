CONSTANTS
    u1 = u1
    u2 = u2
    o1 = o1
    o2 = o2
    Nobody = Nobody
    People <- MCUsers
    Guests <- MCGuests
    Orgs <- MCOrgs
    Memberships <- MCMemberships
    Statuses <- MCStatuses
    Editors = {e1, e2}
    Categories = {1, 2}
    Sids = {s1, s2, s3}
    MaxEntries = 2
    Ttl = 2
    MaxClock = 4
    Admins = {a1, a2}
    Popups = {p1, p2}
    LastInstant = 3
    Fans = {f1, f2}
    TicksPerDay = 2
    FixedWindows = {1, 2}
    Periods = {1, 3}
    MaxNow = 6
    Happenings = {1, 2, 3}
    CapacityOf <- MCCapacityOf
    Attendances = {"none", "GOING", "LAST_MINUTE", "NOT_GOING", "WAITLISTED"}
    Invitations = {1, 2, 3, 4}
    Sources = {"event", "organization", "coorganizer"}
    Times = {1, 2}
    Events = {1, 2, 3}
    StartOf <- MCStartOf
    Me = me
    MyOrgs = {m1, m2}
    Others = {x1}
    LongestPage = 4
    Coming = {1, 2, 3}
    Hosts = {1, 2}
    HostOf <- MCHostOf
    CategoriesOf <- MCCategoriesOf
    Popular = {3}
    Liked = {2}
    Featured = {1}
    Pool = 2
    Candidates = 2
    Limits <- MCLimits
    Statements <- MCStatements
    MaxStatements = 2
SPECIFICATION SiteSpec
INVARIANTS AccessInv NothingShownUnseen ExternalUrlWhenExternal OneActivePopup AnalyticsInv PagesInv TasteInv ChargesInv
PROPERTIES CategoriesOfOneEdit LostOnlyToYounger
CHECK_DEADLOCK FALSE
