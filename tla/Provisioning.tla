---------------------------- MODULE Provisioning ----------------------------
(***************************************************************************)
(* The provisioning path of go-via: ESXi hosts that boot from the network, *)
(* the DHCP, TFTP/HTTP boot-file, kickstart and post-config handlers that   *)
(* serve them, and the operator's API on the same hosts and groups tables.  *)
(*                                                                         *)
(* The daemon handles requests concurrently and runs no transactions, so a *)
(* handler is a sequence of steps, one per database statement: what it     *)
(* read in one step is a snapshot (item, grp) that may be stale when it    *)
(* writes the whole row back in a later one.                               *)
(***************************************************************************)
EXTENDS HostStore

CONSTANTS
    Workers,        \* goroutines that can serve a request at the same time
    None,           \* no worker, no machine
    Commands,       \* API requests the operator may send, any number of times
    InitHosts,      \* rows registered before the run starts
    InitGroups,
    Timeouts,       \* may a client stop waiting (lost message, slow server)?
    MaxRestarts     \* how often the daemon may die and come back

VARIABLES
    hosts, nextHost,    \* the hosts table and its AUTOINCREMENT counter
    groups, nextGroup,  \* the groups table and its counter
    pc, req,            \* per worker: the handler's next step and its request
    item, grp,          \* per worker: the host and group it has loaded
    stage, lease,       \* per machine: how far it has booted, its address
    wait,               \* per machine: the worker whose answer it waits for
    disk,               \* per machine: blank, fresh (installed, never booted), booted
    built,              \* per machine: the reservation its kickstart was rendered for
    restarts,
    armed               \* history: the (mac, ip) pairs an operator ever armed

store == <<hosts, nextHost, groups, nextGroup>>
daemon == <<pc, req, item, grp>>
machines == <<stage, lease, wait, disk, built>>
vars == <<hosts, nextHost, groups, nextGroup, pc, req, item, grp,
          stage, lease, wait, disk, built, restarts, armed>>

-----------------------------------------------------------------------------
(* Types                                                                   *)

Steps == {"idle", "discover", "offer", "request", "ack",
          "mboot.efi", "serveMboot", "sendMboot",
          "crypto64.efi", "serveCrypto64", "sendCrypto64",
          "boot.cfg", "serveBootCfg", "sendBootCfg",
          "ks.cfg", "ksClear", "ksServe", "sendKs",
          "postconfig", "PostConfigID", "provisioned",
          "CreateHost", "insertHost", "UpdateHost", "saveHost", "DeleteHost",
          "CreateGroup", "UpdateGroup", "saveGroup", "DeleteGroup"}

Stages == {"netboot", "offered", "leased", "loader", "verified", "configured",
           "installing", "disk"}

\* The stages a machine reaches only with an acknowledged lease.
Booting == {"leased", "loader", "verified", "configured", "installing"}

Request == [from : Macs \cup {None}, ip : IPs \cup {Empty}, id : Nat,
            form : HostForm, gform : GroupForm]

NullRequest == [from |-> None, ip |-> Empty, id |-> 0,
                form |-> ZeroHostForm, gform |-> ZeroGroupForm]

OperatorSteps == {"CreateHost", "UpdateHost", "DeleteHost", "CreateGroup",
                  "UpdateGroup", "DeleteGroup", "PostConfigID"}

\* The address and the mac a kickstart configures the new system with.
Identity(h) == [mac |-> h.mac, ip |-> h.ip]
NoIdentity == [mac |-> Empty, ip |-> Empty]

\* Who armed what: a row reserves an address for the mac LOWER(mac) matches.
Pair(h) == <<Lower[h.mac], h.ip>>

ASSUME WorkerAssumption == None \notin Workers \cup Macs

ASSUME CommandAssumption ==
    \A c \in Commands : c.op \in OperatorSteps /\ c.req \in Request /\ c.req.from = None

ASSUME InitialRows ==
    /\ InitHosts \subseteq Host /\ InitGroups \subseteq Group
    /\ \A h \in InitHosts : h.id \in 1..MaxHosts /\ ~Clash(InitHosts, h)
    /\ \A g \in InitGroups : g.id \in 1..MaxGroups
    /\ \A g, h \in InitHosts : g.id = h.id => g = h
    /\ \A g, h \in InitGroups : g.id = h.id => g = h

ASSUME FaultAssumption == Timeouts \in BOOLEAN /\ MaxRestarts \in Nat

-----------------------------------------------------------------------------
(* What an answer does to the machine that still waits for it.  A client   *)
(* that has given up (Timeout, PowerCycle) never sees the late answer.     *)

Waiting(w, m) == wait[m] = w
AnswerTo(w) == wait' = [m \in Macs |-> IF Waiting(w, m) THEN None ELSE wait[m]]

\* The firmware's next boot option after the network: the disk, if it holds an OS.
BootDisk(m) == IF disk[m] = "blank" THEN "netboot" ELSE "disk"

\* A DHCP answer: the machine takes the address it carries.
Lease(w, st, ip) ==
    /\ AnswerTo(w)
    /\ stage' = [m \in Macs |-> IF Waiting(w, m) THEN st ELSE stage[m]]
    /\ lease' = [m \in Macs |-> IF Waiting(w, m) THEN ip ELSE lease[m]]
    /\ UNCHANGED <<disk, built>>

\* A file was served: the machine goes on to the next one.
Served(w, st) ==
    /\ AnswerTo(w)
    /\ stage' = [m \in Macs |-> IF Waiting(w, m) THEN st ELSE stage[m]]
    /\ UNCHANGED <<lease, disk, built>>

\* No answer, an error or nothing to boot: the machine gives up on the network.
NotServed(w) ==
    /\ AnswerTo(w)
    /\ stage' = [m \in Macs |-> IF Waiting(w, m) THEN BootDisk(m) ELSE stage[m]]
    /\ lease' = [m \in Macs |-> IF Waiting(w, m) THEN Empty ELSE lease[m]]
    /\ UNCHANGED <<disk, built>>

-----------------------------------------------------------------------------
(* Handler plumbing                                                        *)

Goto(w, step) == pc' = [pc EXCEPT ![w] = step]

Done(w) ==
    /\ Goto(w, "idle")
    /\ req' = [req EXCEPT ![w] = NullRequest]
    /\ item' = [item EXCEPT ![w] = ZeroHost]
    /\ grp' = [grp EXCEPT ![w] = ZeroGroup]

Load(w, h, g) ==
    /\ item' = [item EXCEPT ![w] = h]
    /\ grp' = [grp EXCEPT ![w] = g]
    /\ UNCHANGED req

\* store.DB.Save(&host) of a host with its Group preloaded; the error is ignored.
SaveHost(w, h) ==
    /\ hosts' = Save(hosts, nextHost, h)
    /\ nextHost' = NextID(hosts, nextHost, h)
    /\ groups' = SaveGroup(groups, grp[w])
    /\ UNCHANGED nextGroup

\* The row is saved first; the answer leaves at the next step.
SaveThen(w, h, step) ==
    /\ SaveHost(w, h)
    /\ Goto(w, step)
    /\ UNCHANGED <<req, item, grp, machines>>

-----------------------------------------------------------------------------
(* DHCP (internal/dhcp/dhcpd.go).  An unknown mac, a host not flagged for  *)
(* re-imaging and every other message type get no reply at all.            *)

\* Mutant: the flag is not looked at.
findAnyHostByMAC(mac) == ByMac(hosts, mac)

findHostByMAC(mac) == {h \in ByMac(hosts, mac) : h.reimage}

processDiscover(w) ==
    /\ pc[w] = "discover"
    /\ \/ /\ findHostByMAC(req[w].from) = {}
          /\ Done(w) /\ NotServed(w)
       \/ \E h \in findHostByMAC(req[w].from) :
            /\ Load(w, h, ZeroGroup) /\ Goto(w, "offer")
            /\ UNCHANGED machines
    /\ UNCHANGED <<store, restarts, armed>>

\* The only address confirmed is the reserved one; for any other it is a NAK.
processRequest(w) ==
    /\ pc[w] = "request"
    /\ \/ /\ \A h \in findHostByMAC(req[w].from) : h.ip = Empty
          /\ Done(w) /\ NotServed(w)
       \/ \E h \in findHostByMAC(req[w].from) :
            /\ h.ip # Empty /\ h.ip # req[w].ip
            /\ Done(w) /\ Lease(w, "netboot", Empty)
       \/ \E h \in findHostByMAC(req[w].from) :
            /\ h.ip # Empty /\ h.ip = req[w].ip
            /\ Load(w, h, ZeroGroup) /\ Goto(w, "ack")
            /\ UNCHANGED machines
    /\ UNCHANGED <<store, restarts, armed>>

\* AddOptions reads the host again, by id, for its group's boot method: without a
\* known one (or without the row) there is no option 67 and nothing to boot.
BootFile(w) ==
    \E h \in ByID(hosts, item[w].id) : \E g \in GroupsOf(groups, h) :
        g.boot \in KnownBootMethods

\* An offer of no address at all is not one a client takes up.
Offer(w) ==
    /\ pc[w] = "offer"
    /\ Done(w)
    /\ IF BootFile(w) /\ item[w].ip # Empty
       THEN Lease(w, "offered", item[w].ip)
       ELSE NotServed(w)
    /\ UNCHANGED <<store, restarts, armed>>

Ack(w) ==
    /\ pc[w] = "ack"
    /\ Done(w)
    /\ IF BootFile(w) THEN Lease(w, "leased", item[w].ip) ELSE NotServed(w)
    /\ UNCHANGED <<store, restarts, armed>>

-----------------------------------------------------------------------------
(* Boot files, over TFTP (tftp.readHandler) and over HTTP(S) (server.Files): *)
(* both look the host up by source address, then write the whole row back  *)
(* with its new progress.  What they serve leaves after that: a daemon that *)
(* dies in between has recorded progress its client never made.            *)

Files == [f \in {"mboot.efi", "crypto64.efi", "boot.cfg"} |->
            CASE f = "mboot.efi"    -> "serveMboot"
              [] f = "crypto64.efi" -> "serveCrypto64"
              [] f = "boot.cfg"     -> "serveBootCfg"]

\* The lookup's error is not looked at: an unknown address is the zero host.
LoadBootHost(w) ==
    /\ pc[w] \in DOMAIN Files
    /\ Goto(w, Files[pc[w]])
    /\ LET found == ByIP(hosts, req[w].ip) IN
       \E h \in (IF found = {} THEN {ZeroHost} ELSE found) :
         \E g \in GroupsOf(groups, h) : Load(w, h, g)
    /\ UNCHANGED <<store, machines, restarts, armed>>

\* The loader is located before any progress is recorded.
serveLoader(w, step, progress, send) ==
    /\ pc[w] = step
    /\ IF grp[w].image \in Bootable
       THEN SaveThen(w, [item[w] EXCEPT !.progress = progress], send)
       ELSE Done(w) /\ NotServed(w) /\ UNCHANGED store
    /\ UNCHANGED <<restarts, armed>>

serveMboot(w) == serveLoader(w, "serveMboot", 10, "sendMboot")
serveCrypto64(w) == serveLoader(w, "serveCrypto64", 12, "sendCrypto64")

\* Mutant: the progress of a later stage.
serveBootCfgAs50(w) ==
    /\ pc[w] = "serveBootCfg"
    /\ SaveThen(w, [item[w] EXCEPT !.progress = 50], "sendBootCfg")
    /\ UNCHANGED <<restarts, armed>>

\* The progress is recorded before the file is located.
serveBootCfg(w) ==
    /\ pc[w] = "serveBootCfg"
    /\ SaveThen(w, [item[w] EXCEPT !.progress = 15], "sendBootCfg")
    /\ UNCHANGED <<restarts, armed>>

SendLoader(w, step, st) == pc[w] = step /\ Served(w, st)

SendBootCfg(w) ==
    /\ pc[w] = "sendBootCfg"
    /\ IF grp[w].image \in Bootable THEN Served(w, "configured") ELSE NotServed(w)

SendBootFile(w) ==
    /\ \/ SendLoader(w, "sendMboot", "loader")
       \/ SendLoader(w, "sendCrypto64", "verified")
       \/ SendBootCfg(w)
    /\ Done(w)
    /\ UNCHANGED <<store, restarts, armed>>

-----------------------------------------------------------------------------
(* The kickstart (api.Ks): look up by address, clear the flag, render and  *)
(* record the progress with the row loaded at the start.                   *)

KsLoad(w) ==
    /\ pc[w] = "ks.cfg"
    /\ \/ /\ ByIP(hosts, req[w].ip) = {}
          /\ Done(w) /\ NotServed(w)
       \/ \E h \in ByIP(hosts, req[w].ip) : \E g \in GroupsOf(groups, h) :
            /\ Load(w, h, g) /\ Goto(w, "ksClear")
            /\ UNCHANGED machines
    /\ UNCHANGED <<store, restarts, armed>>

\* Mutant: the flag is left as it was.
NotCleared(h) == h

\* UPDATE hosts SET reimage = false WHERE ip = <source> AND id = <item.ID>; it
\* fails if that would give two unflagged rows the same address.
Cleared(h) == [h EXCEPT !.reimage = FALSE]
ClearReimage(t, ip, id) ==
    {IF r.ip = ip /\ r.id = id THEN Cleared(r) ELSE r : r \in t}
ClearFails(t, ip, id) ==
    \E r \in t : r.ip = ip /\ r.id = id /\ Clash(t, Cleared(r))

KsClear(w) ==
    /\ pc[w] = "ksClear"
    /\ groups' = SaveGroup(groups, grp[w])
    /\ IF ClearFails(hosts, req[w].ip, item[w].id)
       THEN /\ Done(w) /\ NotServed(w)
            /\ UNCHANGED hosts
       ELSE /\ hosts' = ClearReimage(hosts, req[w].ip, item[w].id)
            /\ item' = [item EXCEPT ![w] = Cleared(item[w])]
            /\ Goto(w, "ksServe")
            /\ UNCHANGED <<req, grp, machines>>
    /\ UNCHANGED <<nextHost, nextGroup, restarts, armed>>

\* The host's override, else the group's, else the default, which renders.
Template(h, g) == IF h.ks # "" THEN h.ks ELSE g.ks

\* No group means no password to decrypt: 500.  A template error ends the
\* handler with an empty 200, which no installer can use.
Renders(h, g) == g.id # 0 /\ Template(h, g) # "broken"

\* The rendered text stays in the response's buffer while the row is saved.
KsServe(w) ==
    /\ pc[w] = "ksServe"
    /\ IF Renders(item[w], grp[w])
       THEN SaveThen(w, [item[w] EXCEPT !.progress = 50], "sendKs")
       ELSE Done(w) /\ NotServed(w) /\ UNCHANGED store
    /\ UNCHANGED <<restarts, armed>>

\* The handler returns, and the server sends what it buffered.
SendKs(w) ==
    /\ pc[w] = "sendKs"
    /\ Done(w)
    /\ AnswerTo(w)
    /\ stage' = [m \in Macs |-> IF Waiting(w, m) THEN "installing" ELSE stage[m]]
    /\ built' = [m \in Macs |-> IF Waiting(w, m) THEN Identity(item[w]) ELSE built[m]]
    /\ UNCHANGED <<store, lease, disk, restarts, armed>>

-----------------------------------------------------------------------------
(* Post-config: the answer goes out before the worker goroutine writes.    *)

PostConfig(w) ==
    /\ pc[w] = "postconfig"
    /\ \/ /\ ByIP(hosts, req[w].ip) = {}
          /\ Done(w)
       \/ \E h \in ByIP(hosts, req[w].ip) : \E g \in GroupsOf(groups, h) :
            Load(w, h, g) /\ Goto(w, "provisioned")
    /\ Served(w, "disk")
    /\ UNCHANGED <<store, restarts, armed>>

PostConfigID(w) ==
    /\ pc[w] = "PostConfigID"
    /\ \/ /\ ByID(hosts, req[w].id) = {}
          /\ Done(w)
       \/ \E h \in ByID(hosts, req[w].id) : \E g \in GroupsOf(groups, h) :
            Load(w, h, g) /\ Goto(w, "provisioned")
    /\ UNCHANGED <<store, machines, restarts, armed>>

\* Mutant: the goroutine ends without saving.
ForgetfulWorker(w) ==
    /\ pc[w] = "provisioned"
    /\ Done(w)
    /\ UNCHANGED <<store, machines, restarts, armed>>

\* The callback to the group's URL that follows changes no state of the system.
ProvisioningWorker(w) ==
    /\ pc[w] = "provisioned"
    /\ Done(w)
    /\ SaveHost(w, [item[w] EXCEPT !.progress = 100])
    /\ UNCHANGED <<machines, restarts, armed>>

-----------------------------------------------------------------------------
(* The operator's API on hosts.  These handlers do not preload the group.  *)

\* An address, if there is one, must lie in the group's network.
Admissible(form, g) == form.ip = Empty \/ (g.net # Empty /\ form.ip \in Network[g.net])

\* Mutant: a progress no stage of an installation stands for.
NewHostNoProgress(form) ==
    [id |-> 0, ip |-> form.ip, mac |-> ParseMAC[form.mac], reimage |-> form.reimage,
     progress |-> 1, group |-> form.group, ks |-> form.ks]

\* net.ParseMAC's error is dropped, so a text it refuses is stored as "".
NewHost(form) ==
    [id |-> 0, ip |-> form.ip, mac |-> ParseMAC[form.mac], reimage |-> form.reimage,
     progress |-> form.progress, group |-> form.group, ks |-> form.ks]

CreateHost(w) ==
    /\ pc[w] = "CreateHost"
    /\ LET ok == \E g \in ByID(groups, req[w].form.group) : Admissible(req[w].form, g) IN
       \/ ~ok /\ Done(w)
       \/ ok /\ Load(w, NewHost(req[w].form), ZeroGroup) /\ Goto(w, "insertHost")
    /\ UNCHANGED <<store, machines, restarts, armed>>

InsertHost(w) ==
    /\ pc[w] = "insertHost"
    /\ Done(w)
    /\ hosts' = Insert(hosts, nextHost, item[w])
    /\ nextHost' = NextID(hosts, nextHost, item[w])
    /\ armed' = IF item[w].reimage /\ CanInsert(hosts, nextHost, item[w])
                THEN armed \cup {Pair(item[w])} ELSE armed
    /\ UNCHANGED <<groups, nextGroup, machines, restarts>>

\* Zero values override nothing, except the flag and the progress, which are forced.
Merge(h, form) ==
    [id |-> h.id, ip |-> Override(h.ip, form.ip, Empty), mac |-> Override(h.mac, form.mac, Empty),
     reimage |-> form.reimage, progress |-> form.progress,
     group |-> Override(h.group, form.group, 0), ks |-> Override(h.ks, form.ks, "")]

UpdateHost(w) ==
    /\ pc[w] = "UpdateHost"
    /\ \/ /\ ByID(hosts, req[w].id) = {}
          /\ Done(w)
       \/ \E h \in ByID(hosts, req[w].id) :
            Load(w, Merge(h, req[w].form), ZeroGroup) /\ Goto(w, "saveHost")
    /\ UNCHANGED <<store, machines, restarts, armed>>

\* store.DB.Save(&item) of a row that was loaded, so its id is not zero.
SaveUpdatedHost(w) ==
    /\ pc[w] = "saveHost"
    /\ Done(w)
    /\ hosts' = Upsert(hosts, item[w])
    /\ armed' = IF item[w].reimage /\ ~Clash(hosts, item[w])
                THEN armed \cup {Pair(item[w])} ELSE armed
    /\ UNCHANGED <<nextHost, groups, nextGroup, machines, restarts>>

DeleteHost(w) ==
    /\ pc[w] = "DeleteHost"
    /\ Done(w)
    /\ hosts' = DeleteByID(hosts, req[w].id)
    /\ UNCHANGED <<nextHost, groups, nextGroup, machines, restarts, armed>>

-----------------------------------------------------------------------------
(* The operator's API on groups                                            *)

CreateGroup(w) ==
    LET form == req[w].gform
        g == [id |-> nextGroup, boot |-> form.boot, net |-> form.net,
              image |-> form.image, ks |-> form.ks]
        ok == form.password = "strong" /\ nextGroup <= MaxGroups
    IN  /\ pc[w] = "CreateGroup"
        /\ Done(w)
        /\ groups' = IF ok THEN groups \cup {g} ELSE groups
        /\ nextGroup' = IF ok THEN nextGroup + 1 ELSE nextGroup
        /\ UNCHANGED <<hosts, nextHost, machines, restarts, armed>>

MergeGroup(g, form) ==
    [id |-> g.id, boot |-> Override(g.boot, form.boot, ""), net |-> Override(g.net, form.net, Empty),
     image |-> Override(g.image, form.image, 0), ks |-> Override(g.ks, form.ks, "")]

\* A new password is verified, no password leaves the stored one alone.
UpdateGroup(w) ==
    /\ pc[w] = "UpdateGroup"
    /\ LET ok == req[w].gform.password # "weak" IN
       \/ /\ ~ok \/ ByID(groups, req[w].id) = {}
          /\ Done(w)
       \/ \E g \in ByID(groups, req[w].id) :
            ok /\ Load(w, ZeroHost, MergeGroup(g, req[w].gform)) /\ Goto(w, "saveGroup")
    /\ UNCHANGED <<store, machines, restarts, armed>>

SaveUpdatedGroup(w) ==
    /\ pc[w] = "saveGroup"
    /\ Done(w)
    /\ groups' = DeleteByID(groups, grp[w].id) \cup {grp[w]}
    /\ UNCHANGED <<hosts, nextHost, nextGroup, machines, restarts, armed>>

\* Hosts may still name the group: nothing checks.
DeleteGroup(w) ==
    /\ pc[w] = "DeleteGroup"
    /\ Done(w)
    /\ groups' = DeleteByID(groups, req[w].id)
    /\ UNCHANGED <<hosts, nextHost, nextGroup, machines, restarts, armed>>

-----------------------------------------------------------------------------
(* The environment: machines, the operator, the daemon's own death.        *)

\* What a machine asks for at each stage; an installed one reports exactly once.
Asks(m) ==
    CASE stage[m] = "netboot"    -> "discover"
      [] stage[m] = "offered"    -> "request"
      [] stage[m] = "leased"     -> "mboot.efi"
      [] stage[m] = "loader"     -> "crypto64.efi"
      [] stage[m] = "verified"   -> "boot.cfg"
      [] stage[m] = "configured" -> "ks.cfg"
      [] stage[m] = "disk" /\ disk[m] = "fresh" -> "postconfig"
      [] OTHER -> "idle"

\* The installed ESXi has the static address of its kickstart, not a lease.
Address(m) == IF stage[m] = "disk" THEN built[m].ip ELSE lease[m]

Send(m, w) ==
    /\ wait[m] = None /\ pc[w] = "idle" /\ Asks(m) # "idle"
    /\ Goto(w, Asks(m))
    /\ req' = [req EXCEPT ![w] = [NullRequest EXCEPT !.from = m, !.ip = Address(m)]]
    /\ wait' = [wait EXCEPT ![m] = w]
    /\ disk' = [disk EXCEPT ![m] = IF Asks(m) = "postconfig" THEN "booted" ELSE @]
    /\ UNCHANGED <<store, item, grp, stage, lease, built, restarts, armed>>

\* The installer finishes and reboots, into the network first.
Installed(m) ==
    /\ stage[m] = "installing"
    /\ stage' = [stage EXCEPT ![m] = "netboot"]
    /\ disk' = [disk EXCEPT ![m] = "fresh"]
    /\ UNCHANGED <<store, daemon, lease, wait, built, restarts, armed>>

Reboot(m) ==
    /\ stage[m] = "disk" /\ disk[m] = "booted" /\ wait[m] = None
    /\ stage' = [stage EXCEPT ![m] = "netboot"]
    /\ UNCHANGED <<store, daemon, lease, wait, disk, built, restarts, armed>>

\* A lost request, a lost answer, or a server slower than the client's patience:
\* the client asks again, or gives up, while the first handler is still at work.
Timeout(m) ==
    /\ Timeouts /\ wait[m] # None
    /\ wait' = [wait EXCEPT ![m] = None]
    /\ \E st \in {stage[m], BootDisk(m)} : stage' = [stage EXCEPT ![m] = st]
    /\ UNCHANGED <<store, daemon, lease, disk, built, restarts, armed>>

\* The machine loses power; an interrupted installation leaves no bootable disk.
PowerCycle(m) ==
    /\ Timeouts /\ stage[m] # "netboot"
    /\ stage' = [stage EXCEPT ![m] = "netboot"]
    /\ wait' = [wait EXCEPT ![m] = None]
    /\ disk' = [disk EXCEPT ![m] = IF stage[m] = "installing" THEN "blank" ELSE @]
    /\ UNCHANGED <<store, daemon, lease, built, restarts, armed>>

Command(w) ==
    /\ pc[w] = "idle"
    /\ \E c \in Commands : Goto(w, c.op) /\ req' = [req EXCEPT ![w] = c.req]
    /\ UNCHANGED <<store, item, grp, machines, restarts, armed>>

\* The process dies (a crash, or one of the daemon's own logrus.Fatal): the tables
\* survive, every handler in flight is gone and its client sees the connection drop.
Restart ==
    /\ restarts < MaxRestarts
    /\ restarts' = restarts + 1
    /\ pc' = [w \in Workers |-> "idle"]
    /\ req' = [w \in Workers |-> NullRequest]
    /\ item' = [w \in Workers |-> ZeroHost]
    /\ grp' = [w \in Workers |-> ZeroGroup]
    /\ wait' = [m \in Macs |-> None]
    /\ stage' = [m \in Macs |-> IF wait[m] = None THEN stage[m] ELSE BootDisk(m)]
    /\ UNCHANGED <<store, lease, disk, built, armed>>

-----------------------------------------------------------------------------
(* The specification                                                       *)

\* The counter stands right after the largest id handed out.
Follows(next, t) ==
    /\ \A r \in t : r.id < next
    /\ next = 1 \/ \E r \in t : r.id + 1 = next

Init ==
    /\ hosts = InitHosts /\ nextHost \in 1..(MaxHosts + 1) /\ Follows(nextHost, InitHosts)
    /\ groups = InitGroups /\ nextGroup \in 1..(MaxGroups + 1) /\ Follows(nextGroup, InitGroups)
    /\ pc = [w \in Workers |-> "idle"]
    /\ req = [w \in Workers |-> NullRequest]
    /\ item = [w \in Workers |-> ZeroHost]
    /\ grp = [w \in Workers |-> ZeroGroup]
    /\ stage = [m \in Macs |-> "netboot"]
    /\ lease = [m \in Macs |-> Empty]
    /\ wait = [m \in Macs |-> None]
    /\ disk = [m \in Macs |-> "blank"]
    /\ built = [m \in Macs |-> NoIdentity]
    /\ restarts = 0
    /\ armed = {Pair(h) : h \in {r \in InitHosts : r.reimage}}

Dhcp(w) == processDiscover(w) \/ processRequest(w) \/ Offer(w) \/ Ack(w)
BootFiles(w) == LoadBootHost(w) \/ serveMboot(w) \/ serveCrypto64(w) \/ serveBootCfg(w)
                \/ SendBootFile(w)
Ks(w) == KsLoad(w) \/ KsClear(w) \/ KsServe(w) \/ SendKs(w)
Post(w) == PostConfig(w) \/ PostConfigID(w) \/ ProvisioningWorker(w)
HostApi(w) == CreateHost(w) \/ InsertHost(w) \/ UpdateHost(w) \/ SaveUpdatedHost(w)
              \/ DeleteHost(w)
GroupApi(w) == CreateGroup(w) \/ UpdateGroup(w) \/ SaveUpdatedGroup(w) \/ DeleteGroup(w)
Handle(w) == Dhcp(w) \/ BootFiles(w) \/ Ks(w) \/ Post(w) \/ HostApi(w) \/ GroupApi(w)

Machine(m) == Installed(m) \/ Reboot(m) \/ Timeout(m) \/ PowerCycle(m)
              \/ \E w \in Workers : Send(m, w)

Next == (\E w \in Workers : Handle(w) \/ Command(w)) \/ (\E m \in Macs : Machine(m)) \/ Restart

Spec == Init /\ [][Next]_vars

\* The Go scheduler runs every goroutine; a machine that is on keeps booting.
Fairness ==
    /\ \A w \in Workers : WF_vars(Handle(w))
    /\ \A m \in Macs : WF_vars(Installed(m)) /\ WF_vars(\E w \in Workers : Send(m, w))

FairSpec == Spec /\ Fairness

-----------------------------------------------------------------------------
(* Properties                                                              *)

StoreOK ==
    /\ hosts \subseteq Host /\ nextHost \in Nat \ {0}
    /\ groups \subseteq Group /\ nextGroup \in Nat \ {0}

DaemonOK ==
    /\ pc \in [Workers -> Steps] /\ req \in [Workers -> Request]
    /\ item \in [Workers -> Host] /\ grp \in [Workers -> Group]

MachinesOK ==
    /\ stage \in [Macs -> Stages] /\ lease \in [Macs -> IPs \cup {Empty}]
    /\ wait \in [Macs -> Workers \cup {None}]
    /\ disk \in [Macs -> {"blank", "fresh", "booted"}]
    /\ built \in [Macs -> [mac : Texts, ip : IPs \cup {Empty}]]

\* Every variable has its type: the tables and the handlers' snapshots hold rows the
\* schema allows, and no handler is at a step the code does not have.
TypeOK ==
    /\ StoreOK /\ DaemonOK /\ MachinesOK
    /\ restarts \in Nat /\ armed \subseteq Texts \X (IPs \cup {Empty})

\* The steps of the handlers a machine waits for: before its lease, and after it.
DhcpSteps == {"discover", "offer", "request", "ack"}
BootSteps == {"mboot.efi", "serveMboot", "sendMboot",
              "crypto64.efi", "serveCrypto64", "sendCrypto64",
              "boot.cfg", "serveBootCfg", "sendBootCfg",
              "ks.cfg", "ksClear", "ksServe", "sendKs"}

\* A machine waits only for a worker that is serving its own request, at a step that
\* fits how far it has booted.
WaitsForOwn ==
    \A m \in Macs : wait[m] # None =>
        /\ req[wait[m]].from = m
        /\ stage[m] # "installing"
        /\ \/ pc[wait[m]] \in DhcpSteps /\ stage[m] \notin Booting
           \/ pc[wait[m]] \in BootSteps /\ stage[m] \in Booting
           \/ pc[wait[m]] = "postconfig" /\ stage[m] = "disk"

\* A row flagged for re-imaging was armed, at that address, by an operator; so was
\* every snapshot of one that a handler may still write back.
RowsArmed == \A h \in hosts : h.reimage => Pair(h) \in armed
SnapshotsArmed ==
    \A w \in Workers : item[w].reimage /\ pc[w] \notin {"insertHost", "saveHost"}
        => Pair(item[w]) \in armed

\* Between the lookup and the reply a DHCP handler holds the flagged row of the mac
\* that asked.
DhcpHolds ==
    \A w \in Workers :
        /\ pc[w] \in DhcpSteps => req[w].from \in Macs
        /\ pc[w] \in {"offer", "ack"} => item[w].reimage /\ Lower[item[w].mac] = req[w].from
        /\ pc[w] = "ack" => item[w].ip # Empty

\* findHostByMAC: a machine gets past DHCP, and so reaches the installer that
\* erases its disk, only with an address an operator reserved for its mac and
\* flagged for re-imaging, however handlers, retries, restarts and API writes
\* interleave.
OnlyArmedInstall ==
    \A m \in Macs : stage[m] \in Booting => <<m, lease[m]>> \in armed

\* What is inductive about OnlyArmedInstall.
ArmedInv == TypeOK /\ WaitsForOwn /\ RowsArmed /\ SnapshotsArmed /\ DhcpHolds
            /\ OnlyArmedInstall

\* The abstract promise: the detailed specification implements InstallPermit.
Held == [m \in Macs |-> IF stage[m] \in Booting THEN lease[m] ELSE Empty]

Permit == INSTANCE InstallPermit
    WITH Addresses <- IPs, NoAddress <- Empty, held <- Held,
         Pairs <- Texts \X (IPs \cup {Empty})

ImplementsPermit == Permit!Spec

\* Ks clears the flag "to avoid re-install looping": while the installer runs, no
\* row reserved for the machine still says re-image.
InstallingIsDisarmed ==
    \A m \in Macs : stage[m] = "installing" =>
        \A h \in hosts : Lower[h.mac] = m => ~h.reimage

\* The consequence for the machine: without an operator arming it again, a machine
\* whose disk is installed never starts the installer a second time.
NoInstallLoop ==
    [][\A m \in Macs : (stage'[m] = "installing" /\ stage[m] # "installing")
                           => disk[m] = "blank"]_vars

\* Ks looks the host up by source address: the kickstart a machine installs was
\* rendered for that machine and for the address it holds.
KickstartIsForThisMachine ==
    \A m \in Macs : built[m] # NoIdentity => Lower[built[m].mac] = m

\* The kickstart configures the static address the machine booted with: the row it is
\* rendered from is the one found by that address, whatever the operator deletes or
\* registers while the handler runs.
KickstartAddressIsTheLease ==
    [][\A m \in Macs : built'[m] # built[m] => built'[m].ip = lease[m]]_vars

\* The kickstart rendered for the machine is on its way to it.
KickstartSent(m) == \E w \in Workers : wait[m] = w /\ pc[w] = "sendKs"

\* The progress shown to the operator never runs ahead of a machine that is on its way to
\* the installer: at 50 its kickstart has reached it or is about to, unless the daemon
\* died in between; then the machine has given up on the network, and being disarmed it
\* does not come back.  100 is a machine that has booted what it installed.
ProgressTracksMachine ==
    \A m \in Macs : \A h \in hosts : Lower[h.mac] = m =>
        /\ h.progress >= 50 =>
             /\ ~h.reimage
             /\ stage[m] \in Booting => built[m] # NoIdentity \/ KickstartSent(m)
        /\ h.progress = 100 => disk[m] = "booted"

\* Even if the daemon dies on the way, a flag an operator set does not stay up for
\* ever: the machine keeps booting from the network until Ks clears it.
FlagIsConsumed ==
    \A m \in Macs : (\E h \in hosts : h.mac = m /\ h.reimage)
        ~> (\A h \in hosts : h.mac = m => ~h.reimage)

\* Every machine armed for re-imaging is installed, boots its disk, and is shown
\* as completed with its flag cleared.  A restart loses the goroutine that waits for
\* a machine to come up: it is the only thing that keeps a machine from completing.
InstallCompletes ==
    \A m \in Macs : (\E h \in hosts : h.mac = m /\ h.reimage)
        ~> \/ \E h \in hosts : h.mac = m /\ h.progress = 100 /\ ~h.reimage /\ disk[m] = "booted"
           \/ restarts > 0
=============================================================================
