------------------------------ MODULE MCImages ------------------------------
(* The instance of Images for TLC. *)
EXTENDS Images

CONSTANTS p1, f1, w1, w2

Blank == [op |-> "CreateImage", path |-> p1, intact |-> TRUE, hashed |-> TRUE,
          id |-> 0, image |-> 0, named |-> FALSE, password |-> FALSE]
Upload(intact, hashed) == [Blank EXCEPT !.intact = intact, !.hashed = hashed]
OnImage(op, id) == [Blank EXCEPT !.op = op, !.id = id]
OnGroup(op, id, image, named, password) ==
    [Blank EXCEPT !.op = op, !.id = id, !.image = image, !.named = named, !.password = password]

MCRequests == {
    Upload(TRUE, TRUE), Upload(FALSE, TRUE), Upload(FALSE, FALSE),
    OnImage("UpdateImage", 1), OnImage("DeleteImage", 1),
    OnGroup("CreateGroup", 0, 1, TRUE, TRUE), OnGroup("CreateGroup", 0, 1, FALSE, TRUE),
    OnGroup("UpdateGroup", 1, 2, FALSE, TRUE) }

\* An image, a group with a name that boots from it, and a deletion.
NamedOnly == {Upload(TRUE, TRUE), OnImage("DeleteImage", 1), OnGroup("CreateGroup", 0, 1, TRUE, TRUE)}

=============================================================================
