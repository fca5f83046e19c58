--------------------------- MODULE ApplianceProofs ---------------------------
(***************************************************************************)
(* What a start leaves on the disk, and what the appliance lists: proofs   *)
(* about Startup and Images for any number of faults, starts, requests,    *)
(* goroutines, images and files.                                           *)
(***************************************************************************)
EXTENDS Images, TLAPS

-----------------------------------------------------------------------------
(* The start                                                               *)

\* One key is ever persisted, whole, and whoever is past it has it in memory.
KeyKept ==
    /\ keys \in {0, 1} /\ keyFile.key = keys
    /\ keys # 0 => keyFile = [key |-> keys, whole |-> TRUE]
    /\ phase = "rename" => keys = 0 /\ drawn = 1
    /\ phase \notin {"stopped", "secrets", "rename"} => running = keyFile /\ keys # 0

Written(f) == cert[f].whole /\ cert[f].made = makes

\* A server certificate on the disk, whole or not, has its authority beside it: it is
\* written last, and while there is one no start makes another authority.
AuthorityKept ==
    /\ cert["server.crt"].made # 0 =>
         \A f \in {"ca.crt", "ca.key"} :
            cert[f].whole /\ cert[f].made = cert["server.crt"].made
    /\ \A f \in CertFiles : cert[f].whole => cert[f].made # 0
    /\ phase \in {"ca.crt", "ca.key", "sign"} => cert["server.crt"].made = 0
    /\ phase \in CertFiles \cup {"sign"} => makes # 0
    /\ phase \in {"ca.key", "sign", "server.crt", "server.key"} => Written("ca.crt")
    /\ phase \in {"sign", "server.crt", "server.key"} => Written("ca.key")
    /\ phase = "serving" => Pair("server.crt", "server.key")

StartInv == StartupTypeOK /\ KeyKept /\ AuthorityKept

LEMMA StartInit ==
  ASSUME StartupInit PROVE StartInv
<1> USE DEF StartupInit
<1>1. StartupTypeOK
  BY StartupConstants DEF StartupTypeOK, Phases, CertFiles, NoFile, NoKey
<1>2. KeyKept
  BY DEF KeyKept, NoKey
<1>3. AuthorityKept
  BY DEF AuthorityKept, CertFiles, NoFile
<1> QED BY <1>1, <1>2, <1>3 DEF StartInv

\* The secrets key: no step of a start touches a certificate meanwhile.
LEMMA KeySteps ==
  ASSUME StartInv, Start \/ LoadKey \/ DrawKey \/ PersistKey
  PROVE  StartInv'
<1> USE DEF StartInv
<1>1. AuthorityKept'
  BY DEF AuthorityKept, Start, LoadKey, DrawKey, PersistKey, Written, Pair, CertFiles
<1>2. CASE Start
  <2>1. StartupTypeOK'
    BY <1>2 DEF Start, StartupTypeOK, Phases
  <2>2. KeyKept'
    BY <1>2 DEF Start, KeyKept
  <2> QED BY <1>1, <2>1, <2>2
<1>3. CASE LoadKey
  <2>1. StartupTypeOK'
    BY <1>3 DEF LoadKey, StartupTypeOK, Phases
  <2>2. KeyKept'
    BY <1>3 DEF LoadKey, KeyKept
  <2> QED BY <1>1, <2>1, <2>2
<1>4. CASE DrawKey
  <2>1. keys = 0
    BY <1>4 DEF DrawKey, KeyKept
  <2>2. StartupTypeOK'
    BY <1>4, <2>1 DEF DrawKey, StartupTypeOK, Phases
  <2>3. KeyKept'
    BY <1>4, <2>1 DEF DrawKey, KeyKept
  <2> QED BY <1>1, <2>2, <2>3
<1>5. CASE PersistKey
  <2>1. drawn = 1 /\ keys = 0
    BY <1>5 DEF PersistKey, KeyKept
  <2>2. keys' = 1 /\ drawn' = 0 /\ keyFile' = [key |-> 1, whole |-> TRUE]
        /\ running' = [key |-> 1, whole |-> TRUE] /\ phase' = "cert"
    BY <1>5, <2>1 DEF PersistKey
  <2>3. StartupTypeOK'
    <3>1. [key |-> 1, whole |-> TRUE] \in [key : 0..1, whole : BOOLEAN]
      OBVIOUS
    <3> QED BY <1>5, <2>2, <3>1 DEF PersistKey, StartupTypeOK, Phases
  <2>4. KeyKept'
    BY <2>2 DEF KeyKept
  <2> QED BY <1>1, <2>3, <2>4
<1> QED BY <1>2, <1>3, <1>4, <1>5

\* A step that leaves the key alone and does not come before it.
LEMMA KeyUntouched ==
  ASSUME KeyKept, phase \notin {"stopped", "secrets", "rename"}, UNCHANGED <<keyFile, keys>>,
         phase' = "stopped" \/ (phase' \notin {"secrets", "rename"} /\ UNCHANGED running)
  PROVE  KeyKept'
BY DEF KeyKept

LEMMA NoKeyTyped ==
  ASSUME StartupTypeOK PROVE NoKey \in [key : 0..keys, whole : BOOLEAN] /\ 0 \in 0..(keys + 1)
<1>1. 0 \in 0..keys /\ 0 \in 0..(keys + 1)
  BY DEF StartupTypeOK
<1> QED BY <1>1 DEF NoKey

LEMMA FilesTyped ==
  ASSUME NEW n \in Nat, NEW m \in 0..n, NEW b \in BOOLEAN
  PROVE  [made |-> m, whole |-> b] \in [made : 0..n, whole : BOOLEAN]
OBVIOUS

\* The certificates: no step of them touches the key.
LEMMA CertSteps ==
  ASSUME StartInv,
         \/ CheckCert \/ Sign \/ RunTLS
         \/ \E f \in CertFiles : Truncate(f) \/ Complete(f) \/ WriteFails(f)
  PROVE  StartInv'
<1> USE DEF StartInv
<1>1. KeyKept'
  BY KeyUntouched DEF CheckCert, Sign, RunTLS, Truncate, Complete, WriteFails, After, Stop, CertFiles
<1>2. CASE CheckCert
  <2>1. StartupTypeOK'
    <3>1. cert' \in [CertFiles -> [made : 0..makes', whole : BOOLEAN]]
      BY <1>2 DEF CheckCert, StartupTypeOK
    <3>2. phase' \in Phases /\ makes' \in Nat
      BY <1>2 DEF CheckCert, StartupTypeOK, Phases, CertFiles
    <3> QED BY <1>2, <3>1, <3>2 DEF CheckCert, StartupTypeOK
  <2>2. AuthorityKept'
    BY <1>2 DEF CheckCert, StartupTypeOK, AuthorityKept, Written, CertFiles
  <2> QED BY <1>1, <2>1, <2>2
<1>3. CASE Sign
  <2>1. StartupTypeOK'
    BY <1>3, NoKeyTyped DEF Sign, Stop, StartupTypeOK, Phases, CertFiles
  <2>2. AuthorityKept'
    BY <1>3 DEF Sign, Stop, AuthorityKept, Written, CertFiles
  <2> QED BY <1>1, <2>1, <2>2
<1>4. CASE RunTLS
  <2>1. StartupTypeOK'
    BY <1>4, NoKeyTyped DEF RunTLS, Stop, StartupTypeOK, Phases, CertFiles
  <2>2. AuthorityKept'
    BY <1>4 DEF RunTLS, Stop, AuthorityKept, Pair, CertFiles
  <2> QED BY <1>1, <2>1, <2>2
<1>5. ASSUME NEW f \in CertFiles, Truncate(f) PROVE StartInv'
  <2>1. [made |-> makes, whole |-> FALSE] \in [made : 0..makes, whole : BOOLEAN]
    BY FilesTyped DEF StartupTypeOK
  <2>2. StartupTypeOK'
    BY <1>5, <2>1 DEF Truncate, StartupTypeOK
  <2>3. AuthorityKept'
    BY <1>5 DEF Truncate, StartupTypeOK, AuthorityKept, Written, CertFiles
  <2> QED BY <1>1, <2>2, <2>3
<1>6. ASSUME NEW f \in CertFiles, Complete(f) PROVE StartInv'
  <2>1. cert' = [cert EXCEPT ![f] = [cert[f] EXCEPT !.whole = TRUE]]
    BY <1>6 DEF Complete
  <2>2. cert'[f].whole /\ cert'[f].made = makes /\ \A g \in CertFiles \ {f} : cert'[g] = cert[g]
    BY <1>6, <2>1 DEF Complete, StartupTypeOK
  <2>3. StartupTypeOK'
    <3>1. [cert[f] EXCEPT !.whole = TRUE] \in [made : 0..makes, whole : BOOLEAN]
      BY <1>6 DEF StartupTypeOK
    <3>2. cert' \in [CertFiles -> [made : 0..makes, whole : BOOLEAN]]
      BY <1>6, <2>1, <3>1 DEF StartupTypeOK
    <3>3. phase' \in Phases
      BY <1>6 DEF Complete, After, Phases, CertFiles
    <3> QED BY <1>6, <3>2, <3>3 DEF Complete, StartupTypeOK
  <2>4. AuthorityKept'
    BY <1>6, <2>2 DEF Complete, After, AuthorityKept, Written, CertFiles
  <2> QED BY <1>1, <2>3, <2>4
<1>7. ASSUME NEW f \in CertFiles, WriteFails(f) PROVE StartInv'
  <2>1. cert'[f] = NoFile /\ \A g \in CertFiles \ {f} : cert'[g] = cert[g]
    BY <1>7 DEF WriteFails, StartupTypeOK
  <2>2. StartupTypeOK'
    <3>1. NoFile \in [made : 0..makes, whole : BOOLEAN]
      BY FilesTyped DEF StartupTypeOK, NoFile
    <3>2. cert' \in [CertFiles -> [made : 0..makes, whole : BOOLEAN]]
      BY <1>7, <3>1 DEF WriteFails, StartupTypeOK
    <3> QED BY <1>7, <3>2, StartupConstants DEF WriteFails, Stop, NoKey, StartupTypeOK, Phases
  <2>3. AuthorityKept'
    BY <1>7, <2>1 DEF WriteFails, Stop, NoFile, AuthorityKept, Written, CertFiles
  <2> QED BY <1>1, <2>2, <2>3
<1> QED BY <1>2, <1>3, <1>4, <1>5, <1>6, <1>7

LEMMA CrashStep ==
  ASSUME StartInv, Crash PROVE StartInv'
<1>1. StartupTypeOK'
  BY StartupConstants DEF StartInv, Crash, Stop, NoKey, StartupTypeOK, Phases
<1>2. KeyKept' /\ AuthorityKept'
  BY DEF StartInv, Crash, Stop, KeyKept, AuthorityKept, CertFiles
<1> QED BY <1>1, <1>2 DEF StartInv

LEMMA StartUnchanged ==
  ASSUME StartInv, UNCHANGED startup PROVE StartInv'
BY DEF startup, StartInv, StartupTypeOK, KeyKept, AuthorityKept, Written, Pair

-----------------------------------------------------------------------------
(* The tables and the disk                                                 *)

UploadSteps == {"store", "hash", "extract", "insertImage"}
DeleteSteps == {"check", "remove"}
ImageSteps == {"saveImage"} \cup DeleteSteps
Steps == {"idle", "loadImage", "find", "insertGroup", "loadGroup", "saveGroup"}
            \cup UploadSteps \cup ImageSteps

ImageRow == [id : 1..(nextImage - 1), path : Paths, hashed : BOOLEAN]
GroupRow == [id : 1..(nextGroup - 1), image : Nat, named : BOOLEAN, key : 1..keys]

WorkersOK ==
    /\ pc \in [Workers -> Steps] /\ todo \in [Workers -> SUBSET Files]
    /\ DOMAIN req = Workers /\ DOMAIN row = Workers
    /\ \A w \in Workers : pc[w] # "idle" => phase = "serving" /\ req[w] \in Requests

TablesOK ==
    /\ images \subseteq ImageRow /\ groups \subseteq GroupRow
    /\ nextImage \in 1..(MaxImages + 1) /\ nextGroup \in 1..(MaxGroups + 1)
    /\ Unique(images) /\ Unique(groups)
    /\ verified \subseteq 1..(nextImage - 1)

DiskOK ==
    /\ iso \in [Paths -> {"absent", "bad", "good"}]
    /\ dir \in [Paths -> [Files -> {"absent", "cut", "whole"}]]

\* A row keeps its path once it is inserted: a loaded one has the path of the row of its
\* id, as long as there is one, and two loaded ones with one id have the same.
LoadedOK ==
    /\ \A w \in Workers : pc[w] \in ImageSteps =>
        /\ row[w] \in ImageRow
        /\ \A i \in images : i.id = row[w].id => i.path = row[w].path
    /\ \A v, w \in Workers :
        pc[v] \in ImageSteps /\ pc[w] \in ImageSteps /\ row[v].id = row[w].id
            => row[v].path = row[w].path

GroupsLoaded == \A w \in Workers : pc[w] = "saveGroup" => row[w] \in GroupRow

\* A row that is gone was condemned, and so is the one whose files are being removed.
CondemnedOK ==
    /\ \A w \in Workers : pc[w] \in ImageSteps =>
         row[w].id \in condemned \/ \E i \in images : i.id = row[w].id
    /\ \A w \in Workers : pc[w] = "remove" => row[w].id \in condemned

\* A path that was never shared has one user at a time: an upload, or one row and the
\* deletions of it.
OneUser ==
    \A p \in Paths \ shared :
        /\ \A v, w \in Uploading(p) : v = w
        /\ \A w \in Uploading(p) : Deleting(p) = {} /\ \A i \in images : i.path # p
        /\ \A i, j \in images : i.path = p /\ j.path = p => i = j
        /\ \A w \in Deleting(p) : \A i \in images : i.path = p => i.id = row[w].id

\* An upload past its hash check has a good file, and has extracted what is not to do.
Intact(w) ==
    /\ pc[w] = "extract" /\ req[w].hashed /\ req[w].path \notin shared =>
         /\ iso[req[w].path] = "good"
         /\ \A f \in Files \ todo[w] : dir[req[w].path][f] = "whole"
    /\ pc[w] = "insertImage" /\ req[w].hashed /\ req[w].path \notin shared =>
         \A f \in Files : dir[req[w].path][f] = "whole"

UploadsIntact == \A w \in Workers : Intact(w)

TypesInv == StartInv /\ WorkersOK /\ TablesOK /\ DiskOK /\ GroupsLoaded
ImagesInv == LoadedOK /\ CondemnedOK /\ OneUser /\ UploadsIntact /\ ListedImagesAreWhole
ApplianceInv == TypesInv /\ ImagesInv

LEMMA ApplianceInit ==
  ASSUME Init PROVE ApplianceInv
<1> USE DEF Init
<1>1. TypesInv
  BY StartInit, ImagesConstants
  DEF TypesInv, WorkersOK, TablesOK, DiskOK, GroupsLoaded, Steps, Unique, NoFiles
<1>2. ImagesInv
  BY DEF ImagesInv, LoadedOK, CondemnedOK, OneUser, UploadsIntact, Intact, ListedImagesAreWhole,
         Uploading, Deleting, ImageSteps, DeleteSteps
<1> QED BY <1>1, <1>2 DEF ApplianceInv

\* What every handler's step leaves alone: the start, and the other workers.
Elsewhere(w) ==
    \A v \in Workers \ {w} :
        pc'[v] = pc[v] /\ req'[v] = req[v] /\ row'[v] = row[v] /\ todo'[v] = todo[v]

LEMMA HandlersElsewhere ==
  ASSUME WorkersOK, NEW w \in Workers, Handlers(w)
  PROVE  Elsewhere(w) /\ UNCHANGED startup /\ phase = "serving"
BY DEF WorkersOK, Elsewhere, Handlers, Accept, Fails, SaveUploadedFile, CheckHash, Extracted, InsertImage,
       LoadImage, SaveImage, FindImage, CheckGroups, DeleteRow, CreateGroup, LoadGroup, UpdateGroup,
       ExtractFile, RemoveFile, Done, Goto, At, workers

\* A request in a step of its handler has fields.
LEMMA RequestTyped ==
  ASSUME WorkersOK, NEW w \in Workers, pc[w] # "idle"
  PROVE  /\ req[w] \in Request /\ req[w].path \in Paths /\ req[w].hashed \in BOOLEAN
         /\ req[w].image \in Nat /\ req[w].named \in BOOLEAN
BY ImagesConstants DEF WorkersOK, Request

LEMMA WorkersStep ==
  ASSUME WorkersOK, NEW w \in Workers, Handlers(w)
  PROVE  WorkersOK'
<1> USE DEF WorkersOK, Goto, At, Done, Steps, UploadSteps, ImageSteps, DeleteSteps
<1>0. phase' = phase /\ phase = "serving"
  BY HandlersElsewhere DEF startup
<1>1. CASE Accept(w)
  BY <1>0, <1>1, ImagesConstants DEF Accept, FirstStep, Request
<1>2. CASE Fails(w) \/ SaveUploadedFile(w) \/ CheckHash(w) \/ Extracted(w) \/ InsertImage(w)
  BY <1>0, <1>2 DEF Fails, SaveUploadedFile, CheckHash, Extracted, InsertImage
<1>3. CASE LoadImage(w) \/ SaveImage(w) \/ FindImage(w) \/ CheckGroups(w) \/ DeleteRow(w)
  BY <1>0, <1>3 DEF LoadImage, SaveImage, FindImage, CheckGroups, DeleteRow
<1>4. CASE CreateGroup(w) \/ LoadGroup(w) \/ UpdateGroup(w)
  BY <1>0, <1>4 DEF CreateGroup, LoadGroup, UpdateGroup
<1>5. CASE \E f \in Files : ExtractFile(w, f) \/ RemoveFile(w, f)
  BY <1>0, <1>5 DEF ExtractFile, RemoveFile
<1> QED BY <1>1, <1>2, <1>3, <1>4, <1>5 DEF Handlers

\* The appliance serves with one whole key, and it is the only one there is.
LEMMA ServingKey ==
  ASSUME StartInv, phase = "serving"
  PROVE  keys = 1 /\ running.key = 1 /\ running.whole
BY DEF StartInv, KeyKept

\* What UpdateImage saves is a row, of the id and the path it has loaded.
LEMMA RehashedTyped ==
  ASSUME ApplianceInv, NEW w \in Workers, pc[w] = "saveImage"
  PROVE  /\ Rehashed(row[w], req[w]) \in ImageRow
         /\ Rehashed(row[w], req[w]).id = row[w].id
         /\ Rehashed(row[w], req[w]).path = row[w].path
<1> DEFINE h == row[w].hashed \/ req[w].hashed
<1>1. row[w] \in ImageRow
  BY DEF ApplianceInv, ImagesInv, LoadedOK, ImageSteps
<1>2. h \in BOOLEAN
  OBVIOUS
<1>3. Rehashed(row[w], req[w]) = [row[w] EXCEPT !.hashed = h]
  BY DEF Rehashed
<1> HIDE DEF h
<1> QED BY <1>1, <1>2, <1>3 DEF ImageRow

LEMMA TablesStep ==
  ASSUME ApplianceInv, NEW w \in Workers, Handlers(w)
  PROVE  TablesOK' /\ GroupsLoaded'
<1> USE DEF ApplianceInv, TypesInv, ImagesInv
<1>0. Elsewhere(w) /\ UNCHANGED startup /\ phase = "serving" /\ keys' = keys /\ keys = 1
  BY HandlersElsewhere, ServingKey DEF startup
<1>1. CASE UNCHANGED <<tables, verified>> /\ pc'[w] # "saveGroup"
  BY <1>0, <1>1 DEF tables, TablesOK, GroupsLoaded, GroupRow, ImageRow, Unique, Elsewhere
<1>2. CASE InsertImage(w)
  <2>1. NewImage(w) \in ImageRow'
    BY <1>2, RequestTyped DEF InsertImage, At, NewImage, ImageRow, TablesOK
  <2>2. TablesOK'
    BY <1>0, <1>2, <2>1, ImagesConstants DEF InsertImage, NewImage, TablesOK, ImageRow, GroupRow, Unique
  <2>3. GroupsLoaded'
    BY <1>0, <1>2 DEF InsertImage, Done, Goto, WorkersOK, GroupsLoaded, GroupRow, Elsewhere
  <2> QED BY <2>2, <2>3
<1>3. CASE SaveImage(w)
  <2>1. /\ Rehashed(row[w], req[w]) \in ImageRow
        /\ Rehashed(row[w], req[w]).id = row[w].id
    BY <1>3, RehashedTyped DEF SaveImage, At
  <2>2. TablesOK'
    BY <1>0, <1>3, <2>1 DEF SaveImage, history, TablesOK, ImageRow, GroupRow, Unique
  <2>3. GroupsLoaded'
    BY <1>0, <1>3 DEF SaveImage, Done, Goto, WorkersOK, GroupsLoaded, GroupRow, Elsewhere
  <2> QED BY <2>2, <2>3
<1>4. CASE DeleteRow(w)
  <2>1. TablesOK'
    BY <1>0, <1>4 DEF DeleteRow, history, TablesOK, ImageRow, GroupRow, Unique
  <2>2. GroupsLoaded'
    BY <1>0, <1>4 DEF DeleteRow, Done, Goto, WorkersOK, GroupsLoaded, GroupRow, Elsewhere
  <2> QED BY <2>1, <2>2
<1>5. CASE CreateGroup(w)
  <2> DEFINE g == [id |-> nextGroup, image |-> req[w].image, named |-> req[w].named, key |-> running.key]
  <2>1. g \in GroupRow'
    BY <1>0, <1>5, RequestTyped, ServingKey DEF CreateGroup, At, GroupRow, TablesOK
  <2>2. TablesOK'
    BY <1>0, <1>5, <2>1, ImagesConstants DEF CreateGroup, history, TablesOK, ImageRow, GroupRow, Unique
  <2>3. GroupsLoaded'
    BY <1>0, <1>5 DEF CreateGroup, Done, Goto, WorkersOK, GroupsLoaded, GroupRow, Elsewhere, TablesOK
  <2> QED BY <2>2, <2>3
<1>6. CASE LoadGroup(w)
  <2>1. TablesOK'
    BY <1>0, <1>6 DEF LoadGroup, tables, history, TablesOK, ImageRow, GroupRow, Unique
  <2>2. GroupsLoaded'
    BY <1>0, <1>6 DEF LoadGroup, tables, Done, Goto, WorkersOK, GroupsLoaded, GroupRow, Elsewhere, TablesOK
  <2> QED BY <2>1, <2>2
<1>7. CASE UpdateGroup(w)
  <2>1. row[w] \in GroupRow
    BY <1>7 DEF UpdateGroup, At, GroupsLoaded
  <2>2. Merged(row[w], req[w]) \in GroupRow /\ Merged(row[w], req[w]).id = row[w].id
    <3> DEFINE i == IF req[w].image # 0 THEN req[w].image ELSE row[w].image
               n == row[w].named \/ req[w].named
               k == IF req[w].password THEN running.key ELSE row[w].key
    <3>1. n \in BOOLEAN
      OBVIOUS
    <3>2. i \in Nat /\ k \in 1..keys
      BY <1>0, <1>7, <2>1, RequestTyped, ServingKey DEF UpdateGroup, At, GroupRow
    <3>3. Merged(row[w], req[w]) = [row[w] EXCEPT !.image = i, !.named = n, !.key = k]
      BY DEF Merged
    <3> HIDE DEF i, n, k
    <3> QED BY <2>1, <3>1, <3>2, <3>3 DEF GroupRow
  <2>3. TablesOK'
    BY <1>0, <1>7, <2>1, <2>2 DEF UpdateGroup, history, TablesOK, ImageRow, GroupRow, Unique
  <2>4. GroupsLoaded'
    BY <1>0, <1>7 DEF UpdateGroup, Done, Goto, WorkersOK, GroupsLoaded, GroupRow, Elsewhere
  <2> QED BY <2>3, <2>4
<1>8. ASSUME \/ Accept(w) \/ Fails(w) \/ SaveUploadedFile(w) \/ CheckHash(w) \/ Extracted(w)
             \/ LoadImage(w) \/ FindImage(w) \/ CheckGroups(w)
             \/ \E f \in Files : ExtractFile(w, f) \/ RemoveFile(w, f)
      PROVE  UNCHANGED <<tables, verified>> /\ pc'[w] # "saveGroup"
  <2>1. ASSUME NEW op \in {"CreateImage", "UpdateImage", "DeleteImage", "CreateGroup", "UpdateGroup"}
        PROVE  FirstStep(op) # "saveGroup"
    BY DEF FirstStep
  <2>2. CASE Accept(w)
    BY <2>1, <2>2, ImagesConstants DEF Accept, Goto, WorkersOK, Request
  <2>3. CASE \/ Fails(w) \/ SaveUploadedFile(w) \/ CheckHash(w) \/ Extracted(w)
             \/ LoadImage(w) \/ FindImage(w) \/ CheckGroups(w)
             \/ \E f \in Files : ExtractFile(w, f) \/ RemoveFile(w, f)
    BY <2>3 DEF Fails, SaveUploadedFile, CheckHash, Extracted, LoadImage, FindImage, CheckGroups,
                ExtractFile, RemoveFile, Done, Goto, At, WorkersOK, tables, history
  <2> QED BY <1>8, <2>2, <2>3
<1> QED BY <1>1, <1>2, <1>3, <1>4, <1>5, <1>6, <1>7, <1>8 DEF Handlers

LEMMA DiskStep ==
  ASSUME ApplianceInv, NEW w \in Workers, Handlers(w)
  PROVE  DiskOK'
<1> USE DEF ApplianceInv, TypesInv, ImagesInv, DiskOK
<1>1. CASE UNCHANGED disk
  BY <1>1 DEF disk
<1>2. CASE SaveUploadedFile(w) \/ CheckHash(w) \/ Extracted(w)
  BY <1>2, RequestTyped DEF SaveUploadedFile, CheckHash, Extracted, RemoveISO, At
<1>3. ASSUME NEW f \in Files, ExtractFile(w, f) PROVE DiskOK'
  BY <1>3, RequestTyped DEF ExtractFile, Reads, At
<1>4. ASSUME NEW f \in Files, RemoveFile(w, f) PROVE DiskOK'
  BY <1>4 DEF RemoveFile, At, LoadedOK, ImageSteps, DeleteSteps, ImageRow
<1> QED BY <1>1, <1>2, <1>3, <1>4
    DEF Handlers, Accept, Fails, InsertImage, LoadImage, SaveImage, FindImage, CheckGroups, DeleteRow,
        CreateGroup, LoadGroup, UpdateGroup

-----------------------------------------------------------------------------
(* What is listed                                                          *)

\* A handler that returns, or takes a step in which it uses neither a path nor an image
\* it has loaded, disturbs nothing about the images.
LEMMA QuietStep ==
  ASSUME ApplianceInv, NEW w \in Workers, Elsewhere(w),
         pc'[w] \notin UploadSteps \cup ImageSteps,
         UNCHANGED <<images, nextImage, dir, condemned, shared, verified>>,
         \A p \in Paths : iso'[p] = iso[p] \/ w \in Uploading(p)
  PROVE  ImagesInv'
<1> USE DEF ApplianceInv, TypesInv, ImagesInv
<1>1. \A p \in Paths : /\ Uploading(p)' \subseteq Uploading(p) \ {w}
                       /\ Deleting(p)' \subseteq Deleting(p) \ {w}
  BY DEF Uploading, Deleting, UploadSteps, ImageSteps, DeleteSteps, Elsewhere
<1>2. LoadedOK'
  BY DEF LoadedOK, ImageRow, Elsewhere
<1>3. CondemnedOK'
  BY DEF CondemnedOK, ImageSteps, DeleteSteps, Elsewhere
<1>4. OneUser'
  BY <1>1 DEF OneUser, Elsewhere, Deleting
<1>5. UploadsIntact'
  <2> SUFFICES ASSUME NEW v \in Workers PROVE Intact(v)'
    BY DEF UploadsIntact
  <2>1. CASE v = w
    BY <2>1 DEF Intact, UploadSteps
  <2>2. CASE v # w /\ pc[v] \in {"extract", "insertImage"} /\ req[v].path \notin shared
    <3>1. v \in Uploading(req[v].path) /\ w \notin Uploading(req[v].path)
      BY <2>2, RequestTyped DEF Uploading, OneUser
    <3>2. iso'[req[v].path] = iso[req[v].path]
      BY <2>2, <3>1, RequestTyped
    <3> QED BY <2>2, <3>2 DEF UploadsIntact, Intact, Elsewhere
  <2> QED BY <2>1, <2>2 DEF Intact, Elsewhere
<1>6. ListedImagesAreWhole'
  BY DEF ListedImagesAreWhole
<1> QED BY <1>2, <1>3, <1>4, <1>5, <1>6

\* A new upload has its path for itself, or the path is shared from now on.
LEMMA AcceptStep ==
  ASSUME ApplianceInv, NEW w \in Workers, Accept(w)
  PROVE  ImagesInv'
<1> USE DEF ApplianceInv, TypesInv, ImagesInv
<1>0. Elsewhere(w) /\ UNCHANGED <<images, nextImage, iso, dir, condemned, verified, row>>
  BY HandlersElsewhere DEF Handlers, Accept, tables, disk
<1>1. PICK r \in Requests : req'[w] = r /\ pc'[w] = FirstStep(r.op)
        /\ shared' = IF r.op = "CreateImage" /\ InUse(r.path) THEN shared \cup {r.path} ELSE shared
  BY DEF Accept, Goto, WorkersOK
<1>2. r \in Request
  BY ImagesConstants
<1>3. CASE r.op # "CreateImage"
  <2>1. pc'[w] \notin UploadSteps \cup ImageSteps
    BY <1>1, <1>2, <1>3 DEF Request, FirstStep, UploadSteps, ImageSteps, DeleteSteps
  <2> QED BY <1>0, <1>1, <1>3, <2>1, QuietStep
<1>4. CASE r.op = "CreateImage"
  <2>1. pc'[w] = "store" /\ pc[w] = "idle"
    BY <1>1, <1>4 DEF FirstStep, Accept, At
  <2>2. /\ \A p \in Paths : Deleting(p)' = Deleting(p)
        /\ \A p \in Paths \ {r.path} : Uploading(p)' = Uploading(p)
        /\ Uploading(r.path)' = Uploading(r.path) \cup {w}
    BY <1>0, <1>1, <2>1 DEF Uploading, Deleting, Elsewhere
  <2>3. LoadedOK' /\ CondemnedOK'
    BY <1>0, <2>1 DEF LoadedOK, CondemnedOK, ImageRow, ImageSteps, DeleteSteps, Elsewhere
  <2>4. OneUser'
    BY <1>0, <1>1, <1>4, <2>2 DEF OneUser, InUse
  <2>5. UploadsIntact'
    BY <1>0, <1>1, <2>1 DEF UploadsIntact, Intact, Elsewhere
  <2>6. ListedImagesAreWhole'
    BY <1>0, <1>1 DEF ListedImagesAreWhole
  <2> QED BY <2>3, <2>4, <2>5, <2>6
<1> QED BY <1>3, <1>4

\* An upload's step short of the insertion: no row and no loaded row changes, and the
\* path's files change only under the one that extracts them.
LEMMA UploadStep ==
  ASSUME ApplianceInv, NEW w \in Workers,
         pc[w] \in UploadSteps, pc'[w] \in UploadSteps, Elsewhere(w),
         UNCHANGED <<images, nextImage, condemned, shared, verified, req, row>>,
         \A p \in Paths : p # req[w].path => iso'[p] = iso[p] /\ dir'[p] = dir[p],
         Intact(w)'
  PROVE  ImagesInv'
<1> USE DEF ApplianceInv, TypesInv, ImagesInv
<1>1. \A p \in Paths : Uploading(p)' = Uploading(p) /\ Deleting(p)' = Deleting(p)
  BY DEF Uploading, Deleting, UploadSteps, Elsewhere
<1>2. req[w].path \in Paths /\ w \in Uploading(req[w].path)
  BY RequestTyped DEF Uploading, UploadSteps
<1>3. LoadedOK' /\ CondemnedOK'
  BY DEF LoadedOK, CondemnedOK, ImageRow, ImageSteps, DeleteSteps, UploadSteps, Elsewhere
<1>4. OneUser'
  BY <1>1 DEF OneUser
<1>5. UploadsIntact'
  <2> SUFFICES ASSUME NEW v \in Workers PROVE Intact(v)'
    BY DEF UploadsIntact
  <2>1. CASE v # w /\ pc[v] \in {"extract", "insertImage"} /\ req[v].path \notin shared
    <3>1. v \in Uploading(req[v].path) /\ req[v].path \in Paths
      BY <2>1, RequestTyped DEF Uploading
    <3>2. req[v].path # req[w].path
      BY <1>2, <2>1, <3>1 DEF OneUser
    <3> QED BY <2>1, <3>1, <3>2 DEF UploadsIntact, Intact, Elsewhere
  <2> QED BY <2>1 DEF Intact, Elsewhere
<1>6. ListedImagesAreWhole'
  <2> SUFFICES ASSUME NEW i \in images, i.id \in verified, i.id \notin condemned, i.path \notin shared, NEW f \in Files
               PROVE  dir'[i.path][f] = "whole"
    BY DEF ListedImagesAreWhole
  <2>1. i.path \in Paths
    BY DEF TablesOK, ImageRow
  <2>2. i.path # req[w].path
    BY <1>2 DEF OneUser
  <2> QED BY <2>1, <2>2 DEF ListedImagesAreWhole
<1> QED BY <1>3, <1>4, <1>5, <1>6

LEMMA UploadsStep ==
  ASSUME ApplianceInv, NEW w \in Workers,
         SaveUploadedFile(w) \/ CheckHash(w) \/ Extracted(w) \/ \E f \in Files : ExtractFile(w, f)
  PROVE  ImagesInv'
<1> USE DEF ApplianceInv, TypesInv, ImagesInv
<1>0. Elsewhere(w)
  BY HandlersElsewhere DEF Handlers
<1>1. req[w].path \in Paths /\ pc[w] \in UploadSteps /\ w \in Uploading(req[w].path)
  BY RequestTyped DEF SaveUploadedFile, CheckHash, Extracted, ExtractFile, At, UploadSteps, Uploading
<1>2. UNCHANGED <<images, nextImage, condemned, shared, verified>>
  BY DEF SaveUploadedFile, CheckHash, Extracted, ExtractFile, tables, history
<1>3. CASE SaveUploadedFile(w)
  <2>1. pc'[w] = "hash" /\ UNCHANGED <<req, row, dir>>
    BY <1>3 DEF SaveUploadedFile, Goto, WorkersOK
  <2>2. \A p \in Paths : p # req[w].path => iso'[p] = iso[p]
    BY <1>3 DEF SaveUploadedFile, DiskOK
  <2>3. Intact(w)'
    BY <2>1 DEF Intact
  <2> QED BY <1>0, <1>1, <1>2, <2>1, <2>2, <2>3, UploadStep DEF UploadSteps
<1>4. CASE CheckHash(w)
  <2>1. dir' = dir /\ \A p \in Paths : p # req[w].path => iso'[p] = iso[p]
    BY <1>4 DEF CheckHash, RemoveISO, DiskOK
  <2>2. CASE req[w].hashed /\ iso[req[w].path] # "good"
    <3>1. pc'[w] = "idle"
      BY <1>4, <2>2 DEF CheckHash, Done, Goto, WorkersOK
    <3> QED BY <1>0, <1>1, <1>2, <2>1, <3>1, QuietStep DEF UploadSteps, ImageSteps, DeleteSteps, Uploading
  <2>3. CASE ~(req[w].hashed /\ iso[req[w].path] # "good")
    <3>1. pc'[w] = "extract" /\ todo'[w] = Files /\ UNCHANGED <<iso, req, row>>
      BY <1>4, <2>3 DEF CheckHash, Goto, WorkersOK
    <3>2. Intact(w)'
      BY <1>2, <2>3, <3>1 DEF Intact
    <3> QED BY <1>0, <1>1, <1>2, <2>1, <3>1, <3>2, UploadStep DEF UploadSteps
  <2> QED BY <2>2, <2>3
<1>5. CASE Extracted(w)
  <2>1. pc[w] = "extract" /\ todo[w] = {} /\ pc'[w] = "insertImage" /\ UNCHANGED <<req, row, dir>>
    BY <1>5 DEF Extracted, At, Goto, WorkersOK
  <2>2. \A p \in Paths : p # req[w].path => iso'[p] = iso[p]
    BY <1>5 DEF Extracted, RemoveISO, DiskOK
  <2>3. Intact(w)'
    BY <1>2, <2>1 DEF UploadsIntact, Intact
  <2> QED BY <1>0, <1>1, <1>2, <2>1, <2>2, <2>3, UploadStep DEF UploadSteps
<1>6. ASSUME NEW f \in Files, ExtractFile(w, f) PROVE ImagesInv'
  <2>1. pc[w] = "extract" /\ UNCHANGED <<pc, req, row, iso>> /\ todo'[w] = todo[w] \ {f}
    BY <1>6 DEF ExtractFile, At, WorkersOK
  <2>2. /\ \A p \in Paths : p # req[w].path => dir'[p] = dir[p]
        /\ \A g \in Files \ {f} : dir'[req[w].path][g] = dir[req[w].path][g]
        /\ req[w].path \notin shared /\ iso[req[w].path] = "good" => dir'[req[w].path][f] = "whole"
    BY <1>1, <1>6 DEF ExtractFile, Reads, DiskOK
  <2>3. Intact(w)'
    BY <1>2, <2>1, <2>2 DEF UploadsIntact, Intact
  <2> QED BY <1>0, <1>1, <1>2, <2>1, <2>2, <2>3, UploadStep
<1> QED BY <1>3, <1>4, <1>5, <1>6

\* The row comes last: what it lists is there.
LEMMA InsertStep ==
  ASSUME ApplianceInv, NEW w \in Workers, InsertImage(w)
  PROVE  ImagesInv'
<1> USE DEF ApplianceInv, TypesInv, ImagesInv
<1> DEFINE new == NewImage(w)
<1>0. Elsewhere(w)
  BY HandlersElsewhere DEF Handlers
<1>1. /\ pc[w] = "insertImage" /\ pc'[w] = "idle" /\ images' = images \cup {new}
      /\ nextImage' = nextImage + 1 /\ UNCHANGED <<iso, dir, condemned, shared>>
      /\ verified' = IF req[w].hashed THEN verified \cup {nextImage} ELSE verified
  BY DEF InsertImage, At, Done, Goto, WorkersOK, disk, history
<1>2. /\ new.id = nextImage /\ new.path = req[w].path /\ new.hashed = req[w].hashed
      /\ new.path \in Paths /\ w \in Uploading(new.path)
  BY <1>1, RequestTyped DEF NewImage, Uploading
<1>3. \A i \in images : i.id # nextImage
  BY DEF TablesOK, ImageRow
<1>4. \A p \in Paths : Uploading(p)' = Uploading(p) \ {w} /\ Deleting(p)' = Deleting(p)
  BY <1>0, <1>1 DEF Uploading, Deleting, Elsewhere
<1> HIDE DEF new
<1>5. LoadedOK'
  <2>1. \A v \in Workers : pc'[v] \in ImageSteps =>
            v # w /\ pc[v] \in ImageSteps /\ row'[v] = row[v] /\ row[v] \in ImageRow
    BY <1>0, <1>1 DEF LoadedOK, ImageSteps, DeleteSteps, Elsewhere
  <2>2. ImageRow \subseteq ImageRow' /\ \A r \in ImageRow : r.id # nextImage
    BY <1>1 DEF TablesOK, ImageRow
  <2>3. \A v \in Workers : pc'[v] \in ImageSteps =>
            row'[v] \in ImageRow' /\ \A i \in images' : i.id = row'[v].id => i.path = row'[v].path
    BY <1>1, <1>2, <2>1, <2>2 DEF LoadedOK
  <2>4. \A u, v \in Workers :
            pc'[u] \in ImageSteps /\ pc'[v] \in ImageSteps /\ row'[u].id = row'[v].id
                => row'[u].path = row'[v].path
    BY <2>1 DEF LoadedOK
  <2> QED BY <2>3, <2>4 DEF LoadedOK, ImageSteps, DeleteSteps
<1>6. CondemnedOK'
  BY <1>0, <1>1 DEF CondemnedOK, ImageSteps, DeleteSteps, Elsewhere
<1>7. OneUser'
  <2>1. \A p \in Paths : w \notin Deleting(p)
    BY <1>1 DEF Deleting, DeleteSteps
  <2>2. \A p \in Paths : \A v \in Deleting(p) : row'[v] = row[v]
    BY <1>0, <2>1 DEF Elsewhere, Deleting
  <2> SUFFICES ASSUME NEW p \in Paths, p \notin shared
               PROVE  /\ \A u, v \in Uploading(p)' : u = v
                      /\ \A v \in Uploading(p)' : Deleting(p)' = {} /\ \A i \in images' : i.path # p
                      /\ \A i, j \in images' : i.path = p /\ j.path = p => i = j
                      /\ \A v \in Deleting(p)' : \A i \in images' : i.path = p => i.id = row'[v].id
    BY <1>1 DEF OneUser
  <2>3. CASE p = new.path
    <3>1. Uploading(p) = {w} /\ Deleting(p) = {} /\ \A i \in images : i.path # p
      BY <1>2, <2>3 DEF OneUser
    <3> QED BY <1>1, <1>4, <3>1
  <2>4. CASE p # new.path
    BY <1>1, <1>4, <2>2, <2>4 DEF OneUser
  <2> QED BY <2>3, <2>4
<1>8. UploadsIntact'
  BY <1>0, <1>1 DEF UploadsIntact, Intact, Elsewhere
<1>9. ListedImagesAreWhole'
  <2> SUFFICES ASSUME NEW i \in images', i.id \in verified', i.id \notin condemned, i.path \notin shared
               PROVE  \A f \in Files : dir[i.path][f] = "whole"
    BY <1>1 DEF ListedImagesAreWhole
  <2>1. CASE i = new
    <3>1. req[w].hashed \/ nextImage \in verified
      BY <1>1, <1>2, <2>1
    <3>2. nextImage \notin verified
      BY DEF TablesOK
    <3> QED BY <1>1, <1>2, <2>1, <3>1, <3>2 DEF UploadsIntact, Intact
  <2>2. CASE i \in images
    BY <1>1, <1>3, <2>2 DEF ListedImagesAreWhole
  <2> QED BY <1>1, <2>1, <2>2
<1> QED BY <1>5, <1>6, <1>7, <1>8, <1>9

\* A handler loads a row that is there.
LEMMA LoadStep ==
  ASSUME ApplianceInv, NEW w \in Workers, LoadImage(w) \/ FindImage(w)
  PROVE  ImagesInv'
<1> USE DEF ApplianceInv, TypesInv, ImagesInv
<1>0. Elsewhere(w) /\ UNCHANGED <<images, nextImage, iso, dir, condemned, shared, verified>>
  BY HandlersElsewhere DEF Handlers, LoadImage, FindImage, tables, disk, history
<1>1. pc[w] \in {"loadImage", "find"}
  BY DEF LoadImage, FindImage, At
<1>2. CASE pc'[w] = "idle"
  BY <1>0, <1>2, QuietStep DEF UploadSteps, ImageSteps, DeleteSteps
<1>3. CASE /\ pc'[w] \in {"saveImage", "check"}
           /\ \E i \in images : row'[w] = i
  <2>1. PICK i \in images : row'[w] = i
    BY <1>3
  <2>2. i \in ImageRow
    BY DEF TablesOK
  <2>3. LoadedOK'
    BY <1>0, <1>1, <1>3, <2>1, <2>2
    DEF LoadedOK, TablesOK, Unique, ImageRow, ImageSteps, DeleteSteps, Elsewhere
  <2>4. CondemnedOK'
    BY <1>0, <1>1, <1>3, <2>1 DEF CondemnedOK, ImageSteps, DeleteSteps, Elsewhere
  <2>5. \A p \in Paths : /\ Uploading(p)' = Uploading(p)
                         /\ Deleting(p)' \subseteq Deleting(p) \cup {w}
                         /\ p # i.path => Deleting(p)' = Deleting(p)
    BY <1>0, <1>1, <1>3, <2>1 DEF Uploading, Deleting, Elsewhere
  <2>6. \A p \in Paths : w \notin Deleting(p)
    BY <1>1 DEF Deleting
  <2>7. OneUser'
    BY <1>0, <2>1, <2>2, <2>5, <2>6 DEF OneUser, ImageRow, Elsewhere, Deleting
  <2>8. UploadsIntact'
    BY <1>0, <1>3 DEF UploadsIntact, Intact, Elsewhere
  <2>9. ListedImagesAreWhole'
    BY <1>0 DEF ListedImagesAreWhole
  <2> QED BY <2>3, <2>4, <2>7, <2>8, <2>9
<1> QED BY <1>2, <1>3 DEF LoadImage, FindImage, Goto, Done, WorkersOK

\* Saving a row brings back one that was deleted, or changes at most its hash.
LEMMA SaveStep ==
  ASSUME ApplianceInv, NEW w \in Workers, SaveImage(w)
  PROVE  ImagesInv'
<1> USE DEF ApplianceInv, TypesInv, ImagesInv
<1>0. Elsewhere(w)
  BY HandlersElsewhere DEF Handlers
<1>1. pc[w] = "saveImage" /\ pc'[w] = "idle" /\ UNCHANGED <<nextImage, iso, dir, condemned, verified>>
  BY DEF SaveImage, At, Done, Goto, WorkersOK, disk
<1> DEFINE new == Rehashed(row[w], req[w])
<1>2. /\ row[w] \in ImageRow /\ row[w].path \in Paths
      /\ \A i \in images : i.id = row[w].id => i.path = row[w].path
  BY <1>1 DEF LoadedOK, ImageSteps, ImageRow
<1>3. /\ images' = {i \in images : i.id # row[w].id} \cup {new}
      /\ shared' = IF (\E i \in images : i.id = row[w].id) \/ ~InUse(row[w].path)
                   THEN shared ELSE shared \cup {row[w].path}
  BY DEF SaveImage
<1>4. new.id = row[w].id /\ new.path = row[w].path
  BY <1>1, <1>2, RehashedTyped
<1> HIDE DEF new
<1>5. \A p \in Paths : Uploading(p)' = Uploading(p) /\ Deleting(p)' = Deleting(p)
  BY <1>0, <1>1 DEF Uploading, Deleting, Elsewhere
<1>6. \A v \in Workers : pc'[v] \in ImageSteps =>
          v # w /\ pc[v] \in ImageSteps /\ row'[v] = row[v] /\ row[v] \in ImageRow
  BY <1>0, <1>1 DEF LoadedOK, ImageSteps, DeleteSteps, Elsewhere
<1>7. LoadedOK'
  <2>1. \A v \in Workers : pc'[v] \in ImageSteps =>
          row'[v] \in ImageRow' /\ \A i \in images' : i.id = row'[v].id => i.path = row'[v].path
    BY <1>1, <1>3, <1>4, <1>6 DEF LoadedOK, ImageRow, ImageSteps
  <2>2. \A u, v \in Workers :
          pc'[u] \in ImageSteps /\ pc'[v] \in ImageSteps /\ row'[u].id = row'[v].id
              => row'[u].path = row'[v].path
    BY <1>6 DEF LoadedOK
  <2> QED BY <2>1, <2>2 DEF LoadedOK, ImageSteps, DeleteSteps
<1>8. CondemnedOK'
  <2>1. \A i \in images : \E j \in images' : j.id = i.id
    BY <1>3, <1>4
  <2> QED BY <1>0, <1>1, <1>6, <2>1 DEF CondemnedOK, ImageSteps, DeleteSteps, Elsewhere
<1>9. UploadsIntact'
  BY <1>0, <1>1, <1>3 DEF UploadsIntact, Intact, Elsewhere
<1>10. CASE \E i \in images : i.id = row[w].id
  <2>1. PICK i \in images : i.id = row[w].id
    BY <1>10
  <2>2. shared' = shared /\ i.path = row[w].path
    BY <1>2, <1>3, <2>1
  <2>3. \A j \in images' : \E k \in images : k.id = j.id /\ k.path = j.path
    BY <1>3, <1>4, <2>1, <2>2
  <2>4. \A j, k \in images' : j.id = k.id => j = k
    BY <1>3, <1>4 DEF TablesOK, Unique
  <2>5. \A p \in Paths : \A v \in Deleting(p)' : row'[v] = row[v]
    BY <1>6 DEF Deleting, ImageSteps, DeleteSteps
  <2>6. OneUser'
    BY <1>5, <2>2, <2>3, <2>4, <2>5 DEF OneUser
  <2>7. ListedImagesAreWhole'
    BY <1>1, <2>2, <2>3 DEF ListedImagesAreWhole
  <2> QED BY <1>7, <1>8, <1>9, <2>6, <2>7
<1>11. CASE ~ \E i \in images : i.id = row[w].id
  <2>1. images' = images \cup {new} /\ row[w].id \in condemned
    BY <1>1, <1>3, <1>11 DEF CondemnedOK, ImageSteps
  <2>2. shared' = IF InUse(row[w].path) THEN shared \cup {row[w].path} ELSE shared
    BY <1>3, <1>11
  <2>3. OneUser'
    BY <1>0, <1>1, <1>2, <1>4, <1>5, <2>1, <2>2 DEF OneUser, InUse, Elsewhere, Deleting
  <2>4. ListedImagesAreWhole'
    BY <1>1, <1>4, <2>1, <2>2 DEF ListedImagesAreWhole
  <2> QED BY <1>7, <1>8, <1>9, <2>3, <2>4
<1> QED BY <1>10, <1>11

\* A deletion goes on to the files only of an image that is condemned.
LEMMA CheckStep ==
  ASSUME ApplianceInv, NEW w \in Workers, CheckGroups(w)
  PROVE  ImagesInv'
<1> USE DEF ApplianceInv, TypesInv, ImagesInv
<1>0. Elsewhere(w) /\ UNCHANGED <<images, nextImage, iso, dir, shared, verified>>
  BY HandlersElsewhere DEF Handlers, CheckGroups, tables, disk
<1>1. pc[w] = "check"
  BY DEF CheckGroups, At
<1>2. CASE pc'[w] = "idle" /\ condemned' = condemned
  BY <1>0, <1>2, QuietStep DEF UploadSteps, ImageSteps, DeleteSteps
<1>3. CASE /\ pc'[w] = "remove" /\ UNCHANGED <<req, row>>
           /\ condemned' = condemned \cup {row[w].id}
  <2>1. condemned' = condemned \cup {row[w].id}
    BY <1>3
  <2>2. \A p \in Paths : Uploading(p)' = Uploading(p) /\ Deleting(p)' = Deleting(p)
    BY <1>0, <1>1, <1>3 DEF Uploading, Deleting, Elsewhere
  <2>3. LoadedOK'
    BY <1>0, <1>1, <1>3 DEF LoadedOK, ImageRow, ImageSteps, DeleteSteps, Elsewhere
  <2>4. CondemnedOK'
    BY <1>0, <1>1, <1>3, <2>1 DEF CondemnedOK, ImageSteps, DeleteSteps, Elsewhere
  <2>5. OneUser'
    BY <1>0, <1>3, <2>2 DEF OneUser
  <2>6. UploadsIntact'
    BY <1>0, <1>1, <1>3 DEF UploadsIntact, Intact, Elsewhere
  <2>7. ListedImagesAreWhole'
    BY <1>0, <2>1 DEF ListedImagesAreWhole
  <2> QED BY <2>3, <2>4, <2>5, <2>6, <2>7
<1> QED BY <1>2, <1>3 DEF CheckGroups, Goto, Done, WorkersOK

\* What is removed belongs to a condemned image, or to a shared path.
LEMMA RemoveStep ==
  ASSUME ApplianceInv, NEW w \in Workers, DeleteRow(w) \/ \E f \in Files : RemoveFile(w, f)
  PROVE  ImagesInv'
<1> USE DEF ApplianceInv, TypesInv, ImagesInv
<1>0. Elsewhere(w)
  BY HandlersElsewhere DEF Handlers
<1>1. /\ pc[w] = "remove" /\ row[w] \in ImageRow /\ row[w].id \in condemned
      /\ row[w].path \in Paths /\ w \in Deleting(row[w].path)
  BY DEF DeleteRow, RemoveFile, At, LoadedOK, CondemnedOK, ImageRow, ImageSteps, DeleteSteps, Deleting
<1>2. ASSUME NEW f \in Files, RemoveFile(w, f) PROVE ImagesInv'
  <2>1. UNCHANGED <<images, nextImage, iso, condemned, shared, verified, pc, req, row>>
    BY <1>2 DEF RemoveFile, tables, history
  <2>2. \A p \in Paths : p # row[w].path => dir'[p] = dir[p]
    BY <1>2 DEF RemoveFile, DiskOK
  <2>3. \A p \in Paths : Uploading(p)' = Uploading(p) /\ Deleting(p)' = Deleting(p)
    BY <2>1 DEF Uploading, Deleting
  <2>4. LoadedOK' /\ CondemnedOK'
    BY <2>1 DEF LoadedOK, CondemnedOK, ImageRow
  <2>5. OneUser'
    BY <2>1, <2>3 DEF OneUser
  <2>6. UploadsIntact'
    <3> SUFFICES ASSUME NEW v \in Workers PROVE Intact(v)'
      BY DEF UploadsIntact
    <3>1. CASE pc[v] \in {"extract", "insertImage"} /\ req[v].path \notin shared
      <4>1. v \in Uploading(req[v].path) /\ req[v].path \in Paths
        BY <3>1, RequestTyped DEF Uploading
      <4>2. req[v].path # row[w].path
        BY <1>1, <3>1, <4>1 DEF OneUser
      <4>3. v # w
        BY <1>1, <3>1
      <4> QED BY <1>0, <2>1, <2>2, <4>1, <4>2, <4>3 DEF UploadsIntact, Intact, Elsewhere
    <3> QED BY <2>1, <3>1 DEF Intact
  <2>7. ListedImagesAreWhole'
    <3> SUFFICES ASSUME NEW i \in images, i.id \in verified, i.id \notin condemned, i.path \notin shared, NEW g \in Files
                 PROVE  dir'[i.path][g] = "whole"
      BY <2>1 DEF ListedImagesAreWhole
    <3>1. i.path \in Paths
      BY DEF TablesOK, ImageRow
    <3>2. i.path # row[w].path
      BY <1>1, <3>1 DEF OneUser
    <3> QED BY <2>2, <3>1, <3>2 DEF ListedImagesAreWhole
  <2> QED BY <2>4, <2>5, <2>6, <2>7
<1>3. CASE DeleteRow(w)
  <2>1. /\ pc'[w] = "idle" /\ images' = {i \in images : i.id # row[w].id}
        /\ UNCHANGED <<nextImage, iso, dir, condemned, shared, verified>>
    BY <1>3 DEF DeleteRow, Done, Goto, WorkersOK, disk, history
  <2>2. \A v \in Workers : pc'[v] \in ImageSteps =>
            v # w /\ pc[v] \in ImageSteps /\ row'[v] = row[v]
    BY <1>0, <2>1 DEF ImageSteps, DeleteSteps, Elsewhere
  <2>3. LoadedOK'
    BY <2>1, <2>2 DEF LoadedOK, ImageRow, ImageSteps, DeleteSteps
  <2>4. CondemnedOK'
    BY <1>0, <1>1, <2>1, <2>2 DEF CondemnedOK, ImageSteps, DeleteSteps, Elsewhere
  <2>5. \A p \in Paths : Uploading(p)' = Uploading(p) /\ Deleting(p)' \subseteq Deleting(p) \ {w}
    BY <1>0, <1>1, <2>1 DEF Uploading, Deleting, Elsewhere
  <2>6. OneUser'
    BY <1>0, <2>1, <2>5 DEF OneUser, Elsewhere, Deleting
  <2>7. UploadsIntact'
    BY <1>0, <2>1 DEF UploadsIntact, Intact, Elsewhere
  <2>8. ListedImagesAreWhole'
    BY <2>1 DEF ListedImagesAreWhole
  <2> QED BY <2>3, <2>4, <2>6, <2>7, <2>8
<1> QED BY <1>2, <1>3

-----------------------------------------------------------------------------
(* Every step                                                              *)

\* A handler that has to do with neither images nor their files.
LEMMA OtherStep ==
  ASSUME ApplianceInv, NEW w \in Workers,
         Fails(w) \/ CreateGroup(w) \/ LoadGroup(w) \/ UpdateGroup(w)
  PROVE  ImagesInv'
<1>1. Elsewhere(w)
  BY HandlersElsewhere DEF Handlers, ApplianceInv, TypesInv
<1>2. UNCHANGED <<images, nextImage, iso, dir, condemned, shared, verified>>
  BY DEF Fails, CreateGroup, LoadGroup, UpdateGroup, tables, disk, history
<1>3. pc'[w] \in {"idle", "saveGroup"}
  BY DEF Fails, CreateGroup, LoadGroup, UpdateGroup, Done, Goto, WorkersOK, ApplianceInv, TypesInv
<1> QED BY <1>1, <1>2, <1>3, QuietStep DEF UploadSteps, ImageSteps, DeleteSteps

LEMMA HandlersStep ==
  ASSUME ApplianceInv, NEW w \in Workers, Handlers(w)
  PROVE  ApplianceInv'
<1>1. TypesInv'
  BY HandlersElsewhere, StartUnchanged, WorkersStep, TablesStep, DiskStep DEF ApplianceInv, TypesInv
<1>2. ImagesInv'
  BY AcceptStep, OtherStep, UploadsStep, InsertStep, LoadStep, SaveStep, CheckStep, RemoveStep DEF Handlers
<1> QED BY <1>1, <1>2 DEF ApplianceInv

\* No handler runs, and nothing that outlives the process changes.
LEMMA ImagesUntouched ==
  ASSUME ApplianceInv, StartInv', UNCHANGED <<tables, disk, history>>, keys <= keys',
         \A w \in Workers : pc'[w] = "idle",
         pc' \in [Workers -> Steps], todo' \in [Workers -> SUBSET Files],
         DOMAIN req' = Workers, DOMAIN row' = Workers
  PROVE  ApplianceInv'
<1> USE DEF ApplianceInv, TypesInv, ImagesInv, tables, disk, history
<1>1. WorkersOK'
  BY DEF WorkersOK
<1>2. TablesOK' /\ DiskOK' /\ GroupsLoaded'
  <2>1. 1..keys \subseteq 1..keys'
    BY DEF StartInv, StartupTypeOK
  <2>2. GroupRow \subseteq GroupRow'
    BY <2>1 DEF GroupRow
  <2>3. ImageRow' = ImageRow
    BY DEF ImageRow
  <2> QED BY <2>2, <2>3 DEF TablesOK, Unique, DiskOK, GroupsLoaded
<1>3. LoadedOK' /\ CondemnedOK' /\ UploadsIntact'
  BY DEF LoadedOK, CondemnedOK, UploadsIntact, Intact, ImageSteps, DeleteSteps
<1>4. OneUser'
  <2>1. \A p \in Paths : Uploading(p)' = {} /\ Deleting(p)' = {}
    BY DEF Uploading, Deleting
  <2> QED BY <2>1 DEF OneUser
<1>5. ListedImagesAreWhole'
  BY DEF ListedImagesAreWhole
<1> QED BY <1>1, <1>2, <1>3, <1>4, <1>5

LEMMA MainStep ==
  ASSUME ApplianceInv, Main PROVE ApplianceInv'
<1> USE DEF ApplianceInv, TypesInv
<1>1. StartInv'
  BY KeySteps, CertSteps DEF Main, Progress
<1>2. phase # "serving"
  BY DEF Main, Progress, Start, LoadKey, DrawKey, PersistKey, CheckCert, Sign, RunTLS, Truncate, Complete,
         CertFiles
<1>3. keys <= keys'
  BY DEF Main, Progress, Start, LoadKey, DrawKey, PersistKey, CheckCert, Sign, RunTLS, Truncate, Complete,
         StartInv, StartupTypeOK, KeyKept
<1> QED BY <1>1, <1>2, <1>3, ImagesUntouched DEF Main, workers, WorkersOK

LEMMA FaultStep ==
  ASSUME ApplianceInv, Fault PROVE ApplianceInv'
<1> USE DEF ApplianceInv, TypesInv
<1>1. StartInv'
  BY CrashStep, CertSteps DEF Fault
<1>2. keys <= keys'
  BY DEF Fault, Crash, WriteFails, StartInv, StartupTypeOK
<1> QED BY <1>1, <1>2, ImagesUntouched DEF Fault, Steps

LEMMA StutterStep ==
  ASSUME ApplianceInv, UNCHANGED vars PROVE ApplianceInv'
<1> USE DEF vars, startup, tables, disk, workers, history
<1>1. TypesInv'
  <2>1. StartInv'
    BY StartUnchanged DEF ApplianceInv, TypesInv
  <2> QED BY <2>1 DEF ApplianceInv, TypesInv, WorkersOK, TablesOK, DiskOK, GroupsLoaded, ImageRow, GroupRow, Unique
<1>2. ImagesInv'
  BY DEF ApplianceInv, ImagesInv, LoadedOK, CondemnedOK, OneUser, UploadsIntact, Intact, ListedImagesAreWhole,
         ImageRow, Uploading, Deleting
<1> QED BY <1>1, <1>2 DEF ApplianceInv

LEMMA ApplianceNext ==
  ASSUME ApplianceInv, [Next]_vars PROVE ApplianceInv'
BY HandlersStep, MainStep, FaultStep, StutterStep DEF Next

LEMMA ApplianceInvariant == Spec => []ApplianceInv
<1>1. Init => ApplianceInv
  BY ApplianceInit
<1>2. ApplianceInv /\ [Next]_vars => ApplianceInv'
  BY ApplianceNext
<1> QED BY <1>1, <1>2, PTL DEF Spec

-----------------------------------------------------------------------------
(* The theorems                                                            *)

\* Every table, file and worker has its type in every reachable state: ids come from
\* the store's counter and name one row each, and no handler runs while the appliance
\* is not serving.
THEOREM ImagesTypeCorrect == Spec => []ImagesTypeOK
<1>1. ApplianceInv => ImagesTypeOK
  BY DEF ApplianceInv, TypesInv, StartInv, WorkersOK, TablesOK, DiskOK, ImageRow, GroupRow, ImagesTypeOK
<1> QED BY <1>1, ApplianceInvariant, PTL

\* main and CreateCert: whatever crashes and failed writes there were, an appliance that
\* listens has the four certificate files of one start, whole.  Only server.crt is
\* looked for, and it is written last: where it is, its authority is.
THEOREM ServesOwn == Spec => []ServesOwnCertificate
<1>1. StartInv => ServesOwnCertificate
  <2> SUFFICES ASSUME StartInv, phase = "serving"
               PROVE  /\ Pair("ca.crt", "ca.key") /\ Pair("server.crt", "server.key")
                      /\ cert["ca.crt"].made = cert["server.crt"].made
    BY DEF ServesOwnCertificate
  <2>1. cert["server.crt"].made # 0 /\ Pair("server.crt", "server.key")
    BY DEF StartInv, AuthorityKept, Pair, CertFiles
  <2> QED BY <2>1 DEF StartInv, AuthorityKept, Pair
<1>2. ApplianceInv => StartInv
  BY DEF ApplianceInv, TypesInv
<1> QED BY <1>1, <1>2, ApplianceInvariant, PTL

\* secrets.Init: the key reaches its name in one rename, so no end of the process loses
\* it or makes a second one; a serving appliance can decrypt every group's password.
THEOREM PasswordsStayReadable == Spec => []PasswordsReadable
<1>1. ApplianceInv => PasswordsReadable
  <2> SUFFICES ASSUME ApplianceInv, phase = "serving"
               PROVE  running.whole /\ \A g \in groups : g.key = running.key
    BY DEF PasswordsReadable
  <2>1. keys = 1 /\ running.key = 1 /\ running.whole
    BY ServingKey DEF ApplianceInv, TypesInv
  <2>2. \A g \in groups : g.key \in 1..keys
    BY DEF ApplianceInv, TypesInv, TablesOK, GroupRow
  <2> QED BY <2>1, <2>2
<1> QED BY <1>1, ApplianceInvariant, PTL

\* CreateImage inserts the row after the extraction, DeleteImage removes files after it
\* has asked which group uses them: an image whose upload was checked is whole for as long as
\* no deletion was let through, for any number of uploads, hashes patched in later,
\* refused deletions and crashes between any two steps of them.
THEOREM ListedStayWhole == Spec => []ListedImagesAreWhole
<1>1. ApplianceInv => ListedImagesAreWhole
  BY DEF ApplianceInv, ImagesInv
<1> QED BY <1>1, ApplianceInvariant, PTL
=============================================================================
