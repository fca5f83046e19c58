SPECIFICATION Spec
CONSTANTS
    p1 = p1  f1 = f1  w1 = w1  w2 = w2
    MaxFaults = 0
    Paths = {p1}
    Files = {f1}
    Workers = {w1}
    Requests <- NamedOnly
    MaxImages = 1
    MaxGroups = 1
PROPERTIES UsedImagesStay
