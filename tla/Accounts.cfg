\* Two requests at a time from two browsers, four in all, on three accounts.
CONSTANTS
    Users = {admin, teacher, new1, new2}
    Technicians = {admin}
    Admins = {admin}
    Old = {admin, teacher}
    Linked = {teacher}
    Browsers = {b1, b2}
    Tokens = {k1, k2, k3}
    Handlers = {h1, h2}
    Nobody = nobody
    NoToken = notoken
    Spoilt = spoilt
    Passwords = {p1, p2}
    Default = p1
    Ids = {i1}
    NoId = noid
    teacher = teacher
    p2 = p2
    i1 = i1
    Names = 1
    Bodies <- Posted
    MaxStamp = 2
    MaxVisits = 4
SYMMETRY Interchangeable
SPECIFICATION Spec
INVARIANTS TypeOK ActsForGranted SessionStands
PROPERTIES RowStands NamesApart
CHECK_DEADLOCK FALSE
