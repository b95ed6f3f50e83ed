SPECIFICATION Spec
CONSTANTS
    Users = {anna, bo, cleo}
    Invitations = {n1}
    Requests = {r1, r2}
    Nobody = Nobody
    NoRow = NoRow
SYMMETRY Symmetry
INVARIANTS AlwaysAnOwner
CHECK_DEADLOCK FALSE
