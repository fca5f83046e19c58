--------------------------- MODULE MCProvisioning ---------------------------
(* Instances of Provisioning for TLC. *)
EXTENDS Provisioning, TLC

CONSTANTS m1, m2, dashed1, ip1, ip2, outside, net1, w1, w2, w3, empty, none

MCMacs == {m1, m2}
MCOneMac == {m1}
MCTexts == {m1, m2, dashed1}
MCIPs == {ip1, ip2, outside}
MCParseMAC == (m1 :> m1) @@ (m2 :> m2) @@ (dashed1 :> m1) @@ (empty :> empty)
MCLower == [t \in {m1, m2, dashed1, empty} |-> t]
MCNetwork == net1 :> {ip1, ip2}

MCHost(id, mac, ip, reimage) ==
    [id |-> id, ip |-> ip, mac |-> mac, reimage |-> reimage,
     progress |-> 0, group |-> 1, ks |-> ""]
MCGroup(id, boot, image) ==
    [id |-> id, boot |-> boot, net |-> net1, image |-> image, ks |-> ""]

Cmd(op, id, form, gform) ==
    [op |-> op, req |-> [from |-> None, ip |-> Empty, id |-> id, form |-> form, gform |-> gform]]

OnHost(op, mac, ip, reimage) ==
    Cmd(op, 1, [ZeroHostForm EXCEPT !.mac = mac, !.ip = ip, !.reimage = reimage, !.group = 1],
        ZeroGroupForm)

OnGroup(op, boot, image, ks, password) ==
    Cmd(op, 1, ZeroHostForm,
        [boot |-> boot, net |-> net1, image |-> image, ks |-> ks, password |-> password])

MCGroups == {MCGroup(1, "pxe", 1)}

\* Two hosts registered and armed.
TwoArmed == {MCHost(1, m1, ip1, TRUE), MCHost(2, m2, ip2, TRUE)}

OneArmed == {MCHost(1, m1, ip1, TRUE)}

\* A host not armed, and the operator registering another at the same address.
OneUnarmed == {MCHost(1, m1, ip1, FALSE)}
SameAddress == {OnHost("CreateHost", m2, ip1, TRUE)}

\* Goroutines are interchangeable (used only where no liveness is checked).
WorkerSymmetry == Permutations(Workers)

NoCommands == {}

\* The operator deletes the host and registers it in another spelling at another
\* address, or at one outside its group's network, reports it done by hand; breaks the group,
\* deletes it and registers another.
OperatorCommands == {
    OnHost("CreateHost", dashed1, ip2, TRUE),
    OnHost("CreateHost", m1, outside, TRUE),
    OnHost("DeleteHost", empty, empty, FALSE),
    OnHost("PostConfigID", empty, empty, FALSE),
    OnGroup("UpdateGroup", "http-dhcp", 2, "broken", ""),
    OnGroup("UpdateGroup", "", 1, "", "weak"),
    OnGroup("CreateGroup", "", 1, "", "strong"),
    OnGroup("CreateGroup", "pxe", 1, "", "weak"),
    OnGroup("DeleteGroup", "", 0, "", "") }

\* Under clients that give up and retry, fewer commands keep the space small.
RetryCommands == {
    OnHost("UpdateHost", empty, ip2, FALSE),
    OnHost("UpdateHost", empty, empty, TRUE) }

=============================================================================
