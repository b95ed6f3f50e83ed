CONSTANTS
    u1 = u1
    u2 = u2
    o1 = o1
    o2 = o2
    Nobody = Nobody
    People <- MCUsers
    Guests <- MCGuests
    Orgs <- MCOrgs
    Memberships <- MCMemberships
    Statuses <- MCStatuses
SPECIFICATION PagesSpec
INVARIANT ArrangersAlwaysMay
