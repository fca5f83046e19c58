SPECIFICATION Spec
CONSTANTS
    p1 = p1  f1 = f1  w1 = w1  w2 = w2
    MaxFaults = 1
    Paths = {p1}
    Files = {f1}
    Workers = {w1, w2}
    Requests <- MCRequests
    MaxImages = 2
    MaxGroups = 1
INVARIANTS ImagesTypeOK ListedImagesAreWhole ServesOwnCertificate PasswordsReadable
PROPERTIES ComesUp
