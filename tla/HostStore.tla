----------------------------- MODULE HostStore -----------------------------
(***************************************************************************)
(* The hosts and groups tables of go-via (internal/model, internal/store)  *)
(* and the few gorm statements the handlers run on them.                   *)
(*                                                                         *)
(* A table is a set of rows.  The columns kept are the ones that decide    *)
(* what a handler does: the reservation (mac, ip), the re-imaging flag,    *)
(* the progress, the group, and whether a kickstart override renders.      *)
(* A Go zero value is a row like any other: id 0, Empty for "".            *)
(***************************************************************************)
EXTENDS Naturals

CONSTANTS
    Macs,       \* hardware addresses, as net.HardwareAddr.String() prints them
    MacTexts,   \* what the mac column can hold: Macs and other spellings
    IPs,        \* IPv4 addresses in dotted form
    Empty,      \* the Go empty string
    ParseMAC,   \* external: net.ParseMAC(s).String(), Empty on a parse error
    Lower,      \* external: SQL LOWER(s)
    Network,    \* a group's netmask and gateway -> the addresses inside it
    Bootable,   \* image ids whose extracted directory holds the boot files
    MaxHosts,   \* largest host id the store can allocate
    MaxGroups   \* largest group id the store can allocate

Texts == MacTexts \cup {Empty}

ASSUME MacAssumption ==
    /\ Macs \subseteq MacTexts
    /\ Empty \notin MacTexts \cup IPs
    /\ ParseMAC \in [Texts -> Texts]
    /\ Lower \in [Texts -> Texts]
    /\ \A m \in Macs : ParseMAC[m] = m /\ Lower[m] = m
    /\ Lower[Empty] = Empty

ASSUME NetworkAssumption ==
    /\ Empty \notin DOMAIN Network
    /\ Network \in [DOMAIN Network -> SUBSET IPs]

ASSUME BoundAssumption ==
    /\ MaxHosts \in Nat
    /\ MaxGroups \in Nat
    /\ Bootable \subseteq Nat \ {0}

Progress == {0, 10, 12, 15, 50, 100}

\* A kickstart column: not overridden, an override that renders, one whose
\* template does not parse or execute.
KsTexts == {"", "renders", "broken"}

KnownBootMethods == {"pxe", "http-dhcp", "https-dhcp"}
BootMethods == KnownBootMethods \cup {""}

HostForm == [ip : IPs \cup {Empty}, mac : Texts, reimage : BOOLEAN,
             progress : Progress, group : Nat, ks : KsTexts]

Host == [id : Nat, ip : IPs \cup {Empty}, mac : Texts, reimage : BOOLEAN,
         progress : Progress, group : Nat, ks : KsTexts]

\* password: the request's clear text, absent, refused or accepted by verifyPassword.
GroupForm == [boot : BootMethods, net : DOMAIN Network \cup {Empty}, image : Nat,
              ks : KsTexts, password : {"", "weak", "strong"}]

\* Every stored group carries an encrypted password; only the zero group has none.
Group == [id : Nat, boot : BootMethods, net : DOMAIN Network \cup {Empty},
          image : Nat, ks : KsTexts]

ZeroHostForm == [ip |-> Empty, mac |-> Empty, reimage |-> FALSE,
                 progress |-> 0, group |-> 0, ks |-> ""]
ZeroHost == [id |-> 0, ip |-> Empty, mac |-> Empty, reimage |-> FALSE,
             progress |-> 0, group |-> 0, ks |-> ""]
ZeroGroupForm == [boot |-> "", net |-> Empty, image |-> 0, ks |-> "", password |-> ""]
ZeroGroup == [id |-> 0, boot |-> "", net |-> Empty, image |-> 0, ks |-> ""]

-----------------------------------------------------------------------------
(* Reads.  gorm's First orders by primary key: the result is the set of    *)
(* the one matching row with the least id, or {} for ErrRecordNotFound.    *)

First(S) == {r \in S : \A q \in S : r.id <= q.id}

ByID(t, id) == First({r \in t : r.id = id})
\* Mutant: the condition is missing, First returns the oldest row.
ByNothing(t, ip) == First(t)

ByIP(t, ip) == First({r \in t : r.ip = ip})
ByMac(t, mac) == First({r \in t : Lower[r.mac] = Lower[mac]})

\* Preload("Group"): the row a host's group_id names, the zero Group if none does.
GroupsOf(gs, h) ==
    LET found == ByID(gs, h.group) IN IF found = {} THEN {ZeroGroup} ELSE found

-----------------------------------------------------------------------------
(* Writes.  gorm runs with SkipDefaultTransaction, so each is a statement  *)
(* of its own and what it has written stays written.                       *)

\* The unique index uniqIp is over BOTH columns tagged with it, ip and reimage.
Clash(t, h) == \E r \in t : r.id # h.id /\ r.ip = h.ip /\ r.reimage = h.reimage

\* Create, and Save of a row whose id is zero: INSERT with the next id.  It fails
\* on the unique index, and (SQLITE_FULL) when no id is left.
CanInsert(t, next, h) == next <= MaxHosts /\ ~Clash(t, [h EXCEPT !.id = next])
Insert(t, next, h) ==
    IF CanInsert(t, next, h) THEN t \cup {[h EXCEPT !.id = next]} ELSE t

\* Save of a row with an id: UPDATE of every column, and an INSERT under the same
\* id when the UPDATE touched no row.
Upsert(t, h) == IF Clash(t, h) THEN t ELSE {r \in t : r.id # h.id} \cup {h}

Save(t, next, h) == IF h.id = 0 THEN Insert(t, next, h) ELSE Upsert(t, h)
NextID(t, next, h) == IF h.id = 0 /\ CanInsert(t, next, h) THEN next + 1 ELSE next

\* Writing a host whose Group was preloaded first writes the association:
\* INSERT INTO groups ... ON CONFLICT DO NOTHING.
SaveGroup(gs, g) ==
    IF g.id = 0 \/ \E r \in gs : r.id = g.id THEN gs ELSE gs \cup {g}

DeleteByID(t, id) == {r \in t : r.id # id}

\* mergo.Merge(..., WithOverride): a zero value in the form overrides nothing.
Override(old, new, zero) == IF new = zero THEN old ELSE new
=============================================================================
