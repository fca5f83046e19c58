SPECIFICATION FairSpec
CONSTANTS
    admin = admin  bob = bob  seeded = seeded  p1 = p1  wrong = wrong
    s1 = s1  t1 = t1  t2 = t2  w1 = w1  w2 = w2  none = none
    Names = {admin, bob}
    Passwords = {seeded, p1, wrong}
    Sources = {s1}
    Tokens = {t1}
    Workers = {w1, w2}
    None = none
    Admin = admin
    Default = seeded
    Requests <- Racing
    MaxFailures = 2
    Window = 2
    TTL = 1
    MaxUsers = 2
    MaxRestarts = 1
INVARIANTS AuthTypeOK DefaultIsFlagged GuessesBounded
PROPERTIES EndedStaysEnded BlockExpires
