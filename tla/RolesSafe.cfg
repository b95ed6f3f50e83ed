SPECIFICATION Spec
CONSTANTS
    Users = {anna, bo, cleo}
    Invitations = {n1, n2}
    Requests = {r1, r2}
    Nobody = Nobody
    NoRow = NoRow
SYMMETRY Symmetry
CONSTRAINT SecondRow
INVARIANTS OwnershipInv
PROPERTIES AcceptNeverDemotes
CHECK_DEADLOCK FALSE
