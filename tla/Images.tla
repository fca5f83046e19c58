------------------------------- MODULE Images -------------------------------
(***************************************************************************)
(* The running appliance: ISO images that are uploaded, extracted and      *)
(* deleted (internal/api/image.go), the groups that name them and hold     *)
(* encrypted passwords (groups.go), and the starts and faults of Startup   *)
(* around them.                                                            *)
(*                                                                         *)
(* An image is two things that no transaction binds, a row and a directory *)
(* of extracted files.  A handler is one step per statement it sends to    *)
(* the store and per file it writes or removes.                            *)
(***************************************************************************)
EXTENDS Startup, FiniteSets

CONSTANTS
    Paths,          \* file names of uploads, and the directories they extract to
    Files,          \* files inside an image
    Workers,        \* goroutines that can serve a request at the same time
    Requests,       \* the requests clients may send, any number of times
    MaxImages, MaxGroups    \* bounds on the ids the store allocates

VARIABLES
    images, nextImage,  \* the images table and its AUTOINCREMENT counter
    groups, nextGroup,  \* the groups table
    iso,                \* per path: the uploaded file
    dir,                \* per path: the extracted files
    pc, req, row, todo, \* per worker: the step, the request, the loaded row, files left to do
    condemned,          \* history: images whose deletion the check of the groups let through
    shared,             \* history: paths that two rows, uploads or deletions had at a time
    verified            \* history: images whose upload was compared with its hash

tables == <<images, nextImage, groups, nextGroup>>
disk == <<iso, dir>>
workers == <<pc, req, row, todo>>
history == <<condemned, shared, verified>>
vars == <<startup, tables, disk, workers, history>>

Image == [id : Nat, path : Paths, hashed : BOOLEAN]
Group == [id : Nat, image : Nat, named : BOOLEAN, key : Nat]
Request == [op : {"CreateImage", "UpdateImage", "DeleteImage", "CreateGroup", "UpdateGroup"},
            path : Paths, intact : BOOLEAN, hashed : BOOLEAN,   \* an upload
            id : Nat, image : Nat, named : BOOLEAN, password : BOOLEAN]

ASSUME ImagesConstants ==
    /\ Requests \subseteq Request
    /\ MaxImages \in Nat /\ MaxGroups \in Nat

NoRow == [id |-> 0]
NoRequest == [op |-> "none"]
NoFiles == [f \in Files |-> "absent"]

Init ==
    /\ StartupInit
    /\ images = {} /\ nextImage = 1 /\ groups = {} /\ nextGroup = 1
    /\ iso = [p \in Paths |-> "absent"] /\ dir = [p \in Paths |-> NoFiles]
    /\ pc = [w \in Workers |-> "idle"] /\ req = [w \in Workers |-> NoRequest]
    /\ row = [w \in Workers |-> NoRow] /\ todo = [w \in Workers |-> {}]
    /\ condemned = {} /\ shared = {} /\ verified = {}

Goto(w, step) == pc' = [pc EXCEPT ![w] = step]
At(w, step) == phase = "serving" /\ pc[w] = step

Done(w) ==
    /\ Goto(w, "idle")
    /\ req' = [req EXCEPT ![w] = NoRequest]
    /\ row' = [row EXCEPT ![w] = NoRow] /\ todo' = [todo EXCEPT ![w] = {}]

Uploading(p) == {w \in Workers : pc[w] \in {"store", "hash", "extract", "insertImage"}
                                    /\ req[w].path = p}
Deleting(p) == {w \in Workers : pc[w] \in {"check", "remove"} /\ row[w].path = p}
InUse(p) == Uploading(p) \cup Deleting(p) # {} \/ \E i \in images : i.path = p

FirstStep(op) ==
    CASE op = "CreateImage" -> "store" [] op = "UpdateImage" -> "loadImage"
      [] op = "DeleteImage" -> "find" [] op = "CreateGroup" -> "insertGroup"
      [] op = "UpdateGroup" -> "loadGroup"

Accept(w) ==
    /\ At(w, "idle")
    /\ \E r \in Requests :
         /\ req' = [req EXCEPT ![w] = r]
         /\ Goto(w, FirstStep(r.op))
         /\ shared' = IF r.op = "CreateImage" /\ InUse(r.path) THEN shared \cup {r.path} ELSE shared
    /\ UNCHANGED <<startup, tables, disk, row, todo, condemned, verified>>

\* The store, or the disk, refuses a step: the handler answers 500 and returns, and
\* nothing of what it did is undone.  Only the query for groups has its error dropped.
Fails(w) ==
    /\ phase = "serving" /\ pc[w] \notin {"idle", "check"}
    /\ Done(w)
    /\ UNCHANGED <<startup, tables, disk, history>>

-----------------------------------------------------------------------------
(* CreateImage, for each of the uploaded files                             *)

SaveUploadedFile(w) ==
    /\ At(w, "store")
    /\ iso' = [iso EXCEPT ![req[w].path] = IF req[w].intact THEN "good" ELSE "bad"]
    /\ Goto(w, "hash")
    /\ UNCHANGED <<startup, tables, dir, req, row, todo, history>>

\* os.Remove of the uploaded file; nobody looks at its error.
RemoveISO(p) == \E left \in {"absent", iso[p]} : iso' = [iso EXCEPT ![p] = left]

CheckHash(w) ==
    /\ At(w, "hash")
    /\ IF req[w].hashed /\ iso[req[w].path] # "good"
         THEN /\ RemoveISO(req[w].path)
              /\ Done(w)
         ELSE /\ Goto(w, "extract")
              /\ todo' = [todo EXCEPT ![w] = Files]
              /\ UNCHANGED <<iso, req, row>>
    /\ UNCHANGED <<startup, tables, dir, history>>

\* What a read of the open ISO gives.  The handler keeps one file open: under a name
\* that others use too it need not be the one that stands there now.
Reads(p) ==
    IF p \in shared THEN {"whole", "cut"} ELSE IF iso[p] = "good" THEN {"whole"} ELSE {"cut"}

\* Of a damaged ISO the extractor may notice that (Fails) or write what it reads.
ExtractFile(w, f) ==
    /\ At(w, "extract") /\ f \in todo[w]
    /\ \E content \in Reads(req[w].path) : dir' = [dir EXCEPT ![req[w].path][f] = content]
    /\ todo' = [todo EXCEPT ![w] = @ \ {f}]
    /\ UNCHANGED <<startup, tables, iso, pc, req, row, history>>

\* Mutant: the row comes first, the files after it are left to whoever finds them missing.
RowFirst(w) ==
    /\ At(w, "extract") /\ todo[w] # {}
    /\ RemoveISO(req[w].path)
    /\ Goto(w, "insertImage")
    /\ UNCHANGED <<startup, tables, dir, req, row, todo, history>>

Extracted(w) ==
    /\ At(w, "extract") /\ todo[w] = {}
    /\ RemoveISO(req[w].path)
    /\ Goto(w, "insertImage")
    /\ UNCHANGED <<startup, tables, dir, req, row, todo, history>>

NewImage(w) == [id |-> nextImage, path |-> req[w].path, hashed |-> req[w].hashed]

InsertImage(w) ==
    /\ At(w, "insertImage") /\ nextImage <= MaxImages
    /\ images' = images \cup {NewImage(w)}
    /\ nextImage' = nextImage + 1
    /\ verified' = IF req[w].hashed THEN verified \cup {nextImage} ELSE verified
    /\ Done(w)
    /\ UNCHANGED <<startup, groups, nextGroup, disk, condemned, shared>>

-----------------------------------------------------------------------------
(* UpdateImage, of what does not say where the image is                    *)

LoadImage(w) ==
    /\ At(w, "loadImage")
    /\ \/ /\ \E i \in images : i.id = req[w].id /\ row' = [row EXCEPT ![w] = i]
          /\ Goto(w, "saveImage")
          /\ UNCHANGED <<req, todo>>
       \/ (\A i \in images : i.id # req[w].id) /\ Done(w)
    /\ UNCHANGED <<startup, tables, disk, history>>

\* mergo takes the form's hash as it comes: nothing is read to compare with it.
Rehashed(i, r) == [i EXCEPT !.hashed = @ \/ r.hashed]

\* DB.Save inserts the row when it was deleted in the meantime.
SaveImage(w) ==
    /\ At(w, "saveImage")
    /\ images' = {i \in images : i.id # row[w].id} \cup {Rehashed(row[w], req[w])}
    /\ shared' = IF (\E i \in images : i.id = row[w].id) \/ ~InUse(row[w].path)
                 THEN shared ELSE shared \cup {row[w].path}
    /\ Done(w)
    /\ UNCHANGED <<startup, nextImage, groups, nextGroup, disk, condemned, verified>>

-----------------------------------------------------------------------------
(* DeleteImage                                                             *)

FindImage(w) ==
    /\ At(w, "find")
    /\ \/ /\ \E i \in images : i.id = req[w].id /\ row' = [row EXCEPT ![w] = i]
          /\ Goto(w, "check")
          /\ UNCHANGED <<req, todo>>
       \/ (\A i \in images : i.id # req[w].id) /\ Done(w)
    /\ UNCHANGED <<startup, tables, disk, history>>

Users(id) == {g \in groups : g.image = id}

\* The group First reads, the one with the lowest id, has a name.
FoundByName(id) ==
    \E g \in Users(id) : g.named /\ \A other \in Users(id) : g.id <= other.id

\* Mutant: nobody asks who uses it, and what was condemned is what a check would let through.
UncheckedDelete(w) ==
    /\ At(w, "check")
    /\ Goto(w, "remove")
    /\ todo' = [todo EXCEPT ![w] = Files]
    /\ condemned' = IF FoundByName(row[w].id) THEN condemned ELSE condemned \cup {row[w].id}
    /\ UNCHANGED <<startup, tables, disk, req, row, shared, verified>>

\* An empty name lets the deletion go on.  It is what no group leaves, a group without
\* a name, or a query that failed: its error is dropped.
CheckGroups(w) ==
    /\ At(w, "check")
    /\ \/ /\ FoundByName(row[w].id)
          /\ Done(w) /\ UNCHANGED condemned
       \/ /\ Goto(w, "remove")
          /\ todo' = [todo EXCEPT ![w] = Files]
          /\ condemned' = condemned \cup {row[w].id}
          /\ UNCHANGED <<req, row>>
    /\ UNCHANGED <<startup, tables, disk, shared, verified>>

\* os.RemoveAll, file by file.
RemoveFile(w, f) ==
    /\ At(w, "remove") /\ f \in todo[w]
    /\ dir' = [dir EXCEPT ![row[w].path][f] = "absent"]
    /\ todo' = [todo EXCEPT ![w] = @ \ {f}]
    /\ UNCHANGED <<startup, tables, iso, pc, req, row, history>>

DeleteRow(w) ==
    /\ At(w, "remove") /\ todo[w] = {}
    /\ images' = {i \in images : i.id # row[w].id}
    /\ Done(w)
    /\ UNCHANGED <<startup, nextImage, groups, nextGroup, disk, history>>

-----------------------------------------------------------------------------
(* CreateGroup and UpdateGroup: the image they name, the password they     *)
(* encrypt with the key of this start.                                     *)

CreateGroup(w) ==
    /\ At(w, "insertGroup") /\ nextGroup <= MaxGroups
    /\ groups' = groups \cup {[id |-> nextGroup, image |-> req[w].image,
                               named |-> req[w].named, key |-> running.key]}
    /\ nextGroup' = nextGroup + 1
    /\ Done(w)
    /\ UNCHANGED <<startup, images, nextImage, disk, history>>

LoadGroup(w) ==
    /\ At(w, "loadGroup")
    /\ \/ /\ \E g \in groups : g.id = req[w].id /\ row' = [row EXCEPT ![w] = g]
          /\ Goto(w, "saveGroup")
          /\ UNCHANGED <<req, todo>>
       \/ (\A g \in groups : g.id # req[w].id) /\ Done(w)
    /\ UNCHANGED <<startup, tables, disk, history>>

\* Zero values override nothing; a password left out keeps the stored one.
Merged(g, r) ==
    [g EXCEPT !.image = IF r.image # 0 THEN r.image ELSE @,
              !.named = @ \/ r.named,
              !.key = IF r.password THEN running.key ELSE @]

\* Mutant: Save inserts without looking for the row it stands for.
AppendGroup(w) ==
    /\ At(w, "saveGroup")
    /\ groups' = groups \cup {Merged(row[w], req[w])}
    /\ Done(w)
    /\ UNCHANGED <<startup, images, nextImage, nextGroup, disk, history>>

UpdateGroup(w) ==
    /\ At(w, "saveGroup")
    /\ groups' = {g \in groups : g.id # row[w].id} \cup {Merged(row[w], req[w])}
    /\ Done(w)
    /\ UNCHANGED <<startup, images, nextImage, nextGroup, disk, history>>

-----------------------------------------------------------------------------
Handlers(w) ==
    \/ Accept(w) \/ Fails(w)
    \/ SaveUploadedFile(w) \/ CheckHash(w) \/ Extracted(w) \/ InsertImage(w)
    \/ LoadImage(w) \/ SaveImage(w)
    \/ FindImage(w) \/ CheckGroups(w) \/ DeleteRow(w)
    \/ CreateGroup(w) \/ LoadGroup(w) \/ UpdateGroup(w)
    \/ \E f \in Files : ExtractFile(w, f) \/ RemoveFile(w, f)

Main == Progress /\ UNCHANGED <<tables, disk, workers, history>>

\* The process ends, and every request it was serving with it.
Fault ==
    /\ Crash \/ \E f \in CertFiles : WriteFails(f)
    /\ pc' = [w \in Workers |-> "idle"] /\ req' = [w \in Workers |-> NoRequest]
    /\ row' = [w \in Workers |-> NoRow] /\ todo' = [w \in Workers |-> {}]
    /\ UNCHANGED <<tables, disk, history>>

Next == Main \/ Fault \/ \E w \in Workers : Handlers(w)

\* README: the unit has Restart=always, the container restart: unless-stopped.
Spec == Init /\ [][Next]_vars /\ WF_vars(Main)

-----------------------------------------------------------------------------
(* Properties                                                              *)

Unique(table) == \A a, b \in table : a.id = b.id => a = b

ImagesTypeOK ==
    /\ StartupTypeOK
    /\ images \subseteq [id : 1..(nextImage - 1), path : Paths, hashed : BOOLEAN]
    /\ groups \subseteq [id : 1..(nextGroup - 1), image : Nat, named : BOOLEAN, key : 1..keys]
    /\ nextImage \in 1..(MaxImages + 1) /\ nextGroup \in 1..(MaxGroups + 1)
    /\ Unique(images) /\ Unique(groups)
    /\ verified \subseteq 1..(nextImage - 1)
    /\ iso \in [Paths -> {"absent", "bad", "good"}]
    /\ dir \in [Paths -> [Files -> {"absent", "cut", "whole"}]]
    /\ \A w \in Workers : pc[w] # "idle" => phase = "serving"

\* Every listed image whose upload was compared with its hash has all of its files,
\* through crashes, failed steps, deletions of it that are refused and whatever hash is
\* patched in later: only an image the check of the groups gave up, or one whose
\* directory another row, upload or deletion had a hand in, may be broken.
ListedImagesAreWhole ==
    \A i \in images :
        i.id \in verified /\ i.id \notin condemned /\ i.path \notin shared =>
            \A f \in Files : dir[i.path][f] = "whole"

\* README: lose the key "and every stored ESXi password becomes undecryptable".  No
\* crash loses it or leaves half of it: while the appliance serves, it holds a whole
\* key, and the one each stored password was encrypted with.
PasswordsReadable ==
    phase = "serving" => running.whole /\ \A g \in groups : g.key = running.key

\* DeleteImage: "check if any group is using the image".  No deletion goes on to the
\* image's files while a group with a name uses it.
UsedImagesStay ==
    [][\A w \in Workers :
        pc[w] = "check" /\ pc'[w] = "remove" => \A g \in Users(row[w].id) : ~g.named]_vars
=============================================================================
