SPECIFICATION StoreFairSpec
CONSTANTS
    Uploads = {r1, r2, x1}
    Changes = {r1, r2}
    MaxConcurrentDecodes = 1
    MaxQueuedDecodes = 1
    Users = {p1}
    Organizations = {o1}
    EventRows = {e1}
    NoImage = NoImage
    Absent = Absent
INVARIANTS PicturesMatchRows DecodesBounded
PROPERTIES RequestsEnd
CHECK_DEADLOCK FALSE
