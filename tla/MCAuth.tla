------------------------------- MODULE MCAuth -------------------------------
(* Instances of Auth for TLC. *)
EXTENDS Auth

CONSTANTS admin, bob, seeded, p1, wrong, s1, t1, t2, w1, w2, none

MCForm(op, name, password) ==
    [op |-> op, source |-> s1, name |-> name, password |-> password,
     id |-> 0, newName |-> none, newPassword |-> none]
OnUser(op, id, newName, newPassword) ==
    [op |-> op, source |-> s1, name |-> none, password |-> none,
     id |-> id, newName |-> newName, newPassword |-> newPassword]

\* A client that keeps sending one password and a client that keeps sending another,
\* over the login form and over basic auth, while operators change which of them is
\* right, and create and delete accounts.
Racing == {
    MCForm("Login", admin, seeded),
    MCForm("Read", admin, p1),
    OnUser("Logout", 0, none, none),
    OnUser("UpdateUser", 1, none, p1),
    OnUser("UpdateUser", 1, none, none),
    OnUser("CreateUser", 0, bob, p1),
    OnUser("DeleteUser", 1, none, none) }

\* Operators logging in and out and managing accounts, without renaming any.
Managing == {
    MCForm("Login", admin, seeded),
    MCForm("Login", admin, p1),
    MCForm("Read", admin, p1),
    OnUser("Logout", 0, none, none),
    OnUser("UpdateUser", 1, none, p1),
    OnUser("UpdateUser", 1, none, none),
    OnUser("UpdateUser", 2, none, wrong),
    OnUser("CreateUser", 0, bob, p1),
    OnUser("DeleteUser", 1, none, none) }

\* The same request gives the account a new name and a new password.
Renaming == {
    MCForm("Login", admin, seeded),
    OnUser("UpdateUser", 1, bob, p1) }
=============================================================================
