---------------------------- MODULE InstallPermit ----------------------------
(***************************************************************************)
(* What the provisioning path promises its operators, without handlers,    *)
(* tables or messages: a machine boots the installer with an address only  *)
(* while that (mac, address) pair has been armed by an operator, and keeps *)
(* the address it was granted until it leaves the network boot.            *)
(***************************************************************************)
CONSTANTS Macs, Addresses, NoAddress, Pairs

VARIABLES armed,    \* the pairs operators have armed so far
          held      \* per machine: the address it network-boots with, or NoAddress

permit == <<armed, held>>

Idle == [m \in Macs |-> NoAddress]

Init == armed \subseteq Pairs /\ held = Idle

\* An operator registers or updates a host with the re-imaging flag set.
Arm == \E p \in Pairs : armed' = armed \cup {p} /\ held' = held

\* One machine at a time is let past DHCP.
Grant == \E m \in Macs : \E ip \in Addresses :
    /\ held[m] = NoAddress /\ <<m, ip>> \in armed
    /\ held' = [held EXCEPT ![m] = ip]
    /\ armed' = armed

\* Machines stop network-booting: done, refused, powered off, server gone.
Release == \E S \in SUBSET Macs :
    /\ held' = [m \in Macs |-> IF m \in S THEN NoAddress ELSE held[m]]
    /\ armed' = armed

Next == Arm \/ Grant \/ Release

Spec == Init /\ [][Next]_permit
==============================================================================
