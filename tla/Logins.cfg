SPECIFICATION FairSpec
CONSTANTS
    p1 = p1
    p2 = p2
    b1 = b1
    b2 = b2
    e1 = e1
    e2 = e2
    e3 = e3
    n1 = n1
    NoPhone = NoPhone
    People <- TwoPeople
    EmailOf <- Emails
    PhoneOf <- OnePhone
    Browsers <- TwoBrowsers
    Seating <- FirstAtOne
    Mailers = {m1, m2}
    MaxAccounts = 3
    MaxToken = 2
    MaxLinks = 2
    Budget = 3
INVARIANTS AccountsInv RevokedInv
PROPERTIES SessionsSurviveLogins RequestsEnd
CHECK_DEADLOCK FALSE
