--------------------------- MODULE InstallProofs ---------------------------
(***************************************************************************)
(* Proofs about Provisioning: what a kickstart configures, on every        *)
(* behaviour; and that a machine is installed once, from its own           *)
(* kickstart, with its flag down and its progress true, for any number of  *)
(* machines, workers and restarts, as long as no client gives up and no    *)
(* operator registers, edits or reports hosts meanwhile (Undisturbed).     *)
(* What happens otherwise is what the runs that expect a violation show.   *)
(***************************************************************************)
EXTENDS ProvisioningProofs

-----------------------------------------------------------------------------
(* The kickstart's address                                                 *)

\* A boot file is asked for from the machine's own address, and the kickstart handler
\* holds the row it found there.
AsksFromLease ==
    \A m \in Macs : wait[m] # None /\ pc[wait[m]] \in BootSteps => req[wait[m]].ip = lease[m]
KsRowAtAddress ==
    \A w \in Workers : pc[w] \in {"ksClear", "ksServe", "sendKs"} => item[w].ip = req[w].ip

AddressInv == AsksFromLease /\ KsRowAtAddress

\* A handler that ends or goes on leaves the other handlers alone.
LEMMA OtherHandlers ==
  ASSUME TypeOK, NEW w \in Workers, Handle(w) \/ Command(w)
  PROVE  \A v \in Workers \ {w} : pc'[v] = pc[v] /\ req'[v] = req[v] /\ item'[v] = item[v]
<1> USE DEF TypeOK, DaemonOK, Goto, Done, Load
<1>1. CASE Dhcp(w)
  BY <1>1 DEF Dhcp, processDiscover, processRequest, Offer, Ack
<1>2. CASE BootFiles(w)
  BY <1>2 DEF BootFiles, LoadBootHost, serveMboot, serveCrypto64, serveLoader, serveBootCfg, SaveThen,
              SendBootFile, SendLoader, SendBootCfg
<1>3. CASE Ks(w)
  BY <1>3 DEF Ks, KsLoad, KsClear, KsServe, SaveThen, SendKs
<1>4. CASE Post(w)
  BY <1>4 DEF Post, PostConfig, PostConfigID, ProvisioningWorker
<1>5. CASE HostApi(w)
  BY <1>5 DEF HostApi, CreateHost, InsertHost, UpdateHost, SaveUpdatedHost, DeleteHost
<1>6. CASE GroupApi(w)
  BY <1>6 DEF GroupApi, CreateGroup, UpdateGroup, SaveUpdatedGroup, DeleteGroup
<1>7. CASE Command(w)
  BY <1>7 DEF Command
<1> QED BY <1>1, <1>2, <1>3, <1>4, <1>5, <1>6, <1>7 DEF Handle

\* A handler changes nothing about a machine that does not wait for it, and a machine
\* that still waits afterwards has not changed either.
LEMMA OtherMachines ==
  ASSUME TypeOK, NEW w \in Workers, Handle(w) \/ Command(w)
  PROVE  /\ disk' = disk
         /\ \A m \in Macs : wait[m] # w \/ wait'[m] # None =>
              /\ wait'[m] = wait[m] /\ stage'[m] = stage[m]
              /\ lease'[m] = lease[m] /\ built'[m] = built[m]
<1> USE DEF TypeOK, MachinesOK, machines, AnswerTo, Waiting
<1>1. CASE Dhcp(w)
  BY <1>1 DEF Dhcp, processDiscover, processRequest, Offer, Ack, NotServed, Lease
<1>2. CASE BootFiles(w)
  BY <1>2 DEF BootFiles, LoadBootHost, serveMboot, serveCrypto64, serveLoader, serveBootCfg, SaveThen,
              SendBootFile, SendLoader, SendBootCfg,
              NotServed, Served
<1>3. CASE Ks(w)
  BY <1>3 DEF Ks, KsLoad, KsClear, KsServe, SaveThen, SendKs, NotServed
<1>4. CASE Post(w)
  BY <1>4 DEF Post, PostConfig, PostConfigID, ProvisioningWorker, Served
<1>5. CASE HostApi(w)
  BY <1>5 DEF HostApi, CreateHost, InsertHost, UpdateHost, SaveUpdatedHost, DeleteHost
<1>6. CASE GroupApi(w)
  BY <1>6 DEF GroupApi, CreateGroup, UpdateGroup, SaveUpdatedGroup, DeleteGroup
<1>7. CASE Command(w)
  BY <1>7 DEF Command
<1> QED BY <1>1, <1>2, <1>3, <1>4, <1>5, <1>6, <1>7 DEF Handle

\* A handler of boot files that goes on has the same request, and no other handler turns
\* into one.
LEMMA SameRequest ==
  ASSUME TypeOK, NEW w \in Workers, Handle(w) \/ Command(w), pc'[w] \in BootSteps
  PROVE  pc[w] \in BootSteps /\ req'[w] = req[w]
<1> USE DEF TypeOK, DaemonOK, Goto, Done, Load, BootSteps
<1>1. CASE Dhcp(w)
  BY <1>1 DEF Dhcp, processDiscover, processRequest, Offer, Ack
<1>2. CASE BootFiles(w)
  BY <1>2 DEF BootFiles, LoadBootHost, serveMboot, serveCrypto64, serveLoader, serveBootCfg, SaveThen,
              SendBootFile, SendLoader, SendBootCfg, Files
<1>3. CASE Ks(w)
  BY <1>3 DEF Ks, KsLoad, KsClear, KsServe, SaveThen, SendKs
<1>4. CASE Post(w)
  BY <1>4 DEF Post, PostConfig, PostConfigID, ProvisioningWorker
<1>5. CASE HostApi(w)
  BY <1>5 DEF HostApi, CreateHost, InsertHost, UpdateHost, SaveUpdatedHost, DeleteHost
<1>6. CASE GroupApi(w)
  BY <1>6 DEF GroupApi, CreateGroup, UpdateGroup, SaveUpdatedGroup, DeleteGroup
<1>7. CASE Command(w)
  BY <1>7, CommandAssumption DEF Command, OperatorSteps
<1> QED BY <1>1, <1>2, <1>3, <1>4, <1>5, <1>6, <1>7 DEF Handle

\* api.Ks: the row it loads, and goes on with, is one found by the source address.
LEMMA KsRowKept ==
  ASSUME TypeOK, KsRowAtAddress, NEW w \in Workers, Handle(w) \/ Command(w),
         pc'[w] \in {"ksClear", "ksServe", "sendKs"}
  PROVE  item'[w].ip = req'[w].ip
<1> USE DEF TypeOK, DaemonOK, Goto, Done, Load
<1>1. CASE Ks(w)
  <2>1. CASE KsLoad(w)
    BY <1>1, <2>1 DEF KsLoad, ByIP, First
  <2>2. CASE KsClear(w)
    <3>1. item[w] \in Host /\ item[w].ip = req[w].ip
      BY <2>2 DEF KsClear, KsRowAtAddress
    <3>2. Cleared(item[w]).ip = item[w].ip
      BY <3>1 DEF Cleared, Host
    <3> QED BY <2>2, <3>1, <3>2 DEF KsClear
  <2>3. CASE KsServe(w) \/ SendKs(w)
    BY <2>3 DEF KsServe, SaveThen, SendKs, KsRowAtAddress
  <2> QED BY <1>1, <2>1, <2>2, <2>3 DEF Ks
<1>2. CASE Dhcp(w)
  BY <1>2 DEF Dhcp, processDiscover, processRequest, Offer, Ack
<1>3. CASE BootFiles(w)
  BY <1>3 DEF BootFiles, LoadBootHost, serveMboot, serveCrypto64, serveLoader, serveBootCfg, SaveThen,
              SendBootFile, SendLoader, SendBootCfg, Files
<1>4. CASE Post(w)
  BY <1>4 DEF Post, PostConfig, PostConfigID, ProvisioningWorker
<1>5. CASE HostApi(w)
  BY <1>5 DEF HostApi, CreateHost, InsertHost, UpdateHost, SaveUpdatedHost, DeleteHost
<1>6. CASE GroupApi(w)
  BY <1>6 DEF GroupApi, CreateGroup, UpdateGroup, SaveUpdatedGroup, DeleteGroup
<1>7. CASE Command(w)
  BY <1>7, CommandAssumption DEF Command, OperatorSteps
<1> QED BY <1>1, <1>2, <1>3, <1>4, <1>5, <1>6, <1>7 DEF Handle

\* Every step keeps the addresses right: a lease changes only with the answer that ends
\* the handler, a new request carries the lease, and everything else only stops waiting.
LEMMA AddressStep ==
  ASSUME ArmedInv, AddressInv, [Next]_vars PROVE AddressInv'
<1> USE DEF AddressInv
<1>0. TypeOK /\ TypeOK'
  BY NextType DEF ArmedInv
<1>1. ASSUME NEW w \in Workers, Handle(w) \/ Command(w) PROVE AddressInv'
  <2>1. AsksFromLease'
    <3> SUFFICES ASSUME NEW m \in Macs, wait'[m] # None, pc'[wait'[m]] \in BootSteps
                 PROVE  req'[wait'[m]].ip = lease'[m]
      BY DEF AsksFromLease
    <3>1. wait'[m] = wait[m] /\ lease'[m] = lease[m] /\ wait[m] \in Workers
      BY <1>0, <1>1, OtherMachines DEF TypeOK, MachinesOK
    <3>2. pc[wait[m]] \in BootSteps /\ req'[wait[m]] = req[wait[m]]
      BY <1>0, <1>1, <3>1, OtherHandlers, SameRequest
    <3> QED BY <3>1, <3>2 DEF AsksFromLease
  <2>2. KsRowAtAddress'
    <3> SUFFICES ASSUME NEW v \in Workers, pc'[v] \in {"ksClear", "ksServe", "sendKs"}
                 PROVE  item'[v].ip = req'[v].ip
      BY DEF KsRowAtAddress
    <3> QED BY <1>0, <1>1, OtherHandlers, KsRowKept DEF KsRowAtAddress
  <2> QED BY <2>1, <2>2
<1>2. ASSUME NEW m \in Macs, NEW w \in Workers, Send(m, w) PROVE AddressInv'
  <2>1. /\ \A v \in Workers \ {w} : pc'[v] = pc[v] /\ req'[v] = req[v]
        /\ pc'[w] = Asks(m) /\ req'[w].ip = Address(m) /\ item' = item /\ pc[w] = "idle"
        /\ wait'[m] = w /\ \A n \in Macs \ {m} : wait'[n] = wait[n]
        /\ lease' = lease
    BY <1>0, <1>2 DEF Send, Goto, NullRequest, TypeOK, DaemonOK, MachinesOK
  <2>2. \A n \in Macs : wait[n] # w
    BY <2>1, WorkerAssumption DEF ArmedInv, WaitsForOwn, DhcpSteps, BootSteps
  <2>3. Asks(m) \in BootSteps => Address(m) = lease[m]
    BY DEF Asks, Address, BootSteps
  <2>4. Asks(m) \notin {"ksClear", "ksServe", "sendKs"}
    BY DEF Asks
  <2>5. AsksFromLease'
    BY <1>0, <2>1, <2>2, <2>3 DEF AsksFromLease, TypeOK, MachinesOK
  <2> QED BY <2>1, <2>4, <2>5 DEF KsRowAtAddress
<1>3. ASSUME NEW m \in Macs, Installed(m) \/ Reboot(m) \/ Timeout(m) \/ PowerCycle(m)
      PROVE  AddressInv'
  BY <1>0, <1>3 DEF Installed, Reboot, Timeout, PowerCycle, daemon, AsksFromLease,
     KsRowAtAddress, TypeOK, MachinesOK
<1>4. CASE Restart
  BY <1>4 DEF Restart, AsksFromLease, KsRowAtAddress
<1>5. CASE UNCHANGED vars
  BY <1>5 DEF vars, AsksFromLease, KsRowAtAddress
<1> QED BY <1>1, <1>2, <1>3, <1>4, <1>5 DEF Next, Machine

LEMMA AddressInit ==
  ASSUME Init PROVE AddressInv
BY DEF Init, AddressInv, AsksFromLease, KsRowAtAddress

LEMMA AlwaysAddressed == Spec => [](ArmedInv /\ AddressInv)
<1>1. Init => ArmedInv /\ AddressInv
  BY InitArmed, AddressInit
<1>2. ArmedInv /\ AddressInv /\ [Next]_vars => (ArmedInv /\ AddressInv)'
  BY NextArmed, AddressStep
<1> QED BY <1>1, <1>2, PTL DEF Spec

\* Only the kickstart handler builds a machine, the one that waits for it.
LEMMA BuiltByKs ==
  ASSUME TypeOK, [Next]_vars, NEW m \in Macs, built'[m] # built[m]
  PROVE  \E w \in Workers : SendKs(w) /\ wait[m] = w /\ built'[m] = Identity(item[w])
<1>1. ASSUME NEW w \in Workers, Handle(w), ~SendKs(w) PROVE built' = built
  BY <1>1 DEF Handle, Dhcp, processDiscover, processRequest, Offer, Ack, BootFiles,
     LoadBootHost, serveMboot, serveCrypto64, serveLoader, serveBootCfg, SaveThen,
              SendBootFile, SendLoader, SendBootCfg, Ks, KsLoad, KsClear,
     KsServe, Post, PostConfig, PostConfigID, ProvisioningWorker, HostApi, CreateHost, InsertHost,
     UpdateHost, SaveUpdatedHost, DeleteHost, GroupApi, CreateGroup, UpdateGroup,
     SaveUpdatedGroup, DeleteGroup, machines, NotServed, Served, Lease
<1>2. ASSUME NEW w \in Workers, Command(w) PROVE built' = built
  BY <1>2 DEF Command, machines
<1>3. ASSUME NEW n \in Macs, Machine(n) PROVE built' = built
  BY <1>3 DEF Machine, Installed, Reboot, Timeout, PowerCycle, Send
<1>4. Restart \/ UNCHANGED vars => built' = built
  BY DEF Restart, vars
<1>5. PICK w \in Workers : SendKs(w)
  BY <1>1, <1>2, <1>3, <1>4 DEF Next
<1>6. wait[m] = w /\ built'[m] = Identity(item[w])
  BY <1>5 DEF SendKs, Waiting, TypeOK, MachinesOK
<1> QED BY <1>5, <1>6

\* api.Ks takes the row found by the source address through two database statements,
\* the rendering and the sending: whatever is deleted, registered or restarted meanwhile, a machine is
\* never built for another address than the one it booted with.
THEOREM KickstartKeepsAddress == Spec => KickstartAddressIsTheLease
<1>1. ArmedInv /\ AddressInv /\ [Next]_vars
        => [\A m \in Macs : built'[m] # built[m] => built'[m].ip = lease[m]]_vars
  <2> SUFFICES ASSUME ArmedInv, AddressInv, [Next]_vars, NEW m \in Macs, built'[m] # built[m]
               PROVE  built'[m].ip = lease[m]
    OBVIOUS
  <2>1. PICK w \in Workers : SendKs(w) /\ wait[m] = w /\ built'[m] = Identity(item[w])
    BY BuiltByKs DEF ArmedInv
  <2>2. item[w].ip = req[w].ip /\ pc[w] \in BootSteps
    BY <2>1 DEF SendKs, AddressInv, KsRowAtAddress, BootSteps
  <2>3. req[w].ip = lease[m]
    BY <2>1, <2>2, WorkerAssumption DEF AddressInv, AsksFromLease
  <2> QED BY <2>1, <2>2, <2>3 DEF Identity
<1> QED BY <1>1, AlwaysAddressed, PTL DEF Spec, KickstartAddressIsTheLease

-----------------------------------------------------------------------------
(* Undisturbed provisioning                                                *)

\* Clients wait for their answers, the operator does no more than delete hosts and manage
\* groups, and the hosts registered before are told apart by address and by mac.
Undisturbed ==
    /\ ~Timeouts
    /\ \A c \in Commands : c.op \in {"DeleteHost", "CreateGroup", "UpdateGroup", "DeleteGroup"}
    /\ \A g, h \in InitHosts : g.ip = h.ip \/ Lower[g.mac] = Lower[h.mac] => g = h
    /\ \A h \in InitHosts : h.progress < 50

\* A row of the table is a registered host, or the zero host that serveBootCfg saves
\* when it finds nobody at the address.
Same(r, h) == r.id = h.id /\ r.ip = h.ip /\ r.mac = h.mac
Registered(r) == \E h \in InitHosts : Same(r, h)
Stray(r) == r.mac = Empty /\ r.ip = Empty /\ ~r.reimage
RowOK(r) == Registered(r) \/ Stray(r)

\* No row and no snapshot that could be written back says re-image.
Disarmed(m) ==
    /\ \A h \in hosts : Lower[h.mac] = m => ~h.reimage
    /\ \A w \in Workers : Lower[item[w].mac] = m => ~item[w].reimage

ServeSteps == {"serveMboot", "serveCrypto64", "serveBootCfg",
               "sendMboot", "sendCrypto64", "sendBootCfg"}
HoldSteps == ServeSteps \cup {"offer", "ack", "ksClear", "ksServe", "sendKs"}
ClientSteps == DhcpSteps \cup BootSteps \cup {"postconfig"}
EditSteps == {"CreateHost", "insertHost", "UpdateHost", "saveHost", "PostConfigID"}

\* A machine's handler has that machine waiting for it, so there is no more than one;
\* what it has loaded is that machine's host; Ks has taken the flag down for good before
\* it serves; and the goroutine post-config leaves behind works for a machine that is up.
WorkerOK(w) ==
    /\ pc[w] \in ClientSteps => req[w].from \in Macs /\ wait[req[w].from] = w
    /\ pc[w] \notin EditSteps
    /\ pc[w] \in HoldSteps =>
         \/ Registered(item[w]) /\ Lower[item[w].mac] = req[w].from
         \/ item[w] = ZeroHost /\ pc[w] \in ServeSteps
    /\ pc[w] \in {"ksServe", "sendKs"} => Disarmed(req[w].from)
    /\ pc[w] = "postconfig" =>
         disk[req[w].from] = "booted" /\ req[w].ip = built[req[w].from].ip
    /\ pc[w] = "provisioned" =>
         Registered(item[w]) /\ \A m \in Macs : Lower[item[w].mac] = m => disk[m] = "booted"
    /\ pc[w] \notin HoldSteps \cup {"provisioned"} => item[w] = ZeroHost

\* A machine boots with an address of its own and is built for it, with its flag down for
\* good; an operating system comes out of a kickstart, and a machine that boots from the
\* network to be installed has none yet.
Reserved(m, ip) == ip # Empty /\ \E h \in InitHosts : Lower[h.mac] = m /\ h.ip = ip
MachineOK(m) ==
    /\ stage[m] \in Booting => Reserved(m, lease[m])
    /\ built[m] # NoIdentity =>
         Reserved(m, built[m].ip) /\ Lower[built[m].mac] = m /\ Disarmed(m)
    /\ disk[m] # "blank" \/ stage[m] = "installing" => built[m] # NoIdentity
    /\ stage[m] \in Booting \cup {"offered"} => disk[m] = "blank"

\* A machine whose row says 50 or more does not get past DHCP again.
ProgressDisarms ==
    \A m \in Macs : \A h \in hosts : Lower[h.mac] = m /\ h.progress >= 50 => Disarmed(m)

InstallInv ==
    /\ ArmedInv /\ AddressInv
    /\ \A r \in hosts : RowOK(r)
    /\ \A w \in Workers : WorkerOK(w)
    /\ \A m \in Macs : MachineOK(m)
    /\ ProgressDisarms /\ ProgressTracksMachine

-----------------------------------------------------------------------------
(* Where rows and snapshots come from                                      *)

\* The zero host is nobody's: no machine has an empty mac.
LEMMA NobodysMac ==
  /\ Lower[Empty] \notin Macs
  /\ ZeroHost.mac = Empty /\ ZeroHost.ip = Empty /\ ~ZeroHost.reimage /\ ZeroHost.id = 0
BY MacAssumption DEF ZeroHost

\* Registered hosts have an id, and share neither address nor mac.
LEMMA RegisteredApart ==
  ASSUME Undisturbed, NEW r, NEW q, Registered(r), Registered(q)
  PROVE  /\ r.id # 0
         /\ r.ip = q.ip \/ Lower[r.mac] = Lower[q.mac] => Same(r, q)
BY InitialRows DEF Undisturbed, Registered, Same

\* A row that was there before, flagged if this one is.
Kept(r) == \E q \in hosts : Same(r, q) /\ r.progress = q.progress /\ (r.reimage => q.reimage)

\* The snapshot of a worker, written with a new progress, under a new id if it had none.
Saved(r, w, p) ==
    /\ r.mac = item[w].mac /\ r.ip = item[w].ip /\ r.reimage = item[w].reimage
    /\ r.progress = p /\ (item[w].id # 0 => r.id = item[w].id)

\* store.DB.Save leaves rows that were there, and the one it was given.
LEMMA SaveHostRowsFrom ==
  ASSUME TypeOK, NEW w \in Workers, NEW p, SaveHost(w, [item[w] EXCEPT !.progress = p])
  PROVE  \A r \in hosts' : Kept(r) \/ Saved(r, w, p)
<1> DEFINE h == [item[w] EXCEPT !.progress = p]
<1>1. item[w] \in Host
  BY DEF TypeOK, DaemonOK
<1>2. h.mac = item[w].mac /\ h.ip = item[w].ip /\ h.reimage = item[w].reimage
      /\ h.progress = p /\ h.id = item[w].id
  BY <1>1 DEF Host
<1>3. \A n : LET g == [h EXCEPT !.id = n] IN
        g.mac = item[w].mac /\ g.ip = item[w].ip /\ g.reimage = item[w].reimage /\ g.progress = p
  BY <1>1 DEF Host
<1>4. hosts' = Save(hosts, nextHost, h)
  BY DEF SaveHost
<1> HIDE DEF h
<1>5. \A r \in hosts' : \/ r \in hosts
                        \/ r = h
                        \/ h.id = 0 /\ r = [h EXCEPT !.id = nextHost]
  BY <1>4 DEF Save, Insert, Upsert
<1>6. \A r \in hosts : Kept(r)
  BY DEF Kept, Same
<1> QED BY <1>2, <1>3, <1>5, <1>6 DEF Saved

\* Undisturbed, the handlers that write hosts are the installation's own, each with the
\* progress of its stage; Ks and DeleteHost only take flags and rows away.
LEMMA RowsFrom ==
  ASSUME TypeOK, NEW w \in Workers, Handle(w), pc[w] \notin EditSteps
  PROVE  \A r \in hosts' :
           \/ Kept(r)
           \/ pc[w] \in ServeSteps /\ \E p \in {10, 12, 15} : Saved(r, w, p)
           \/ KsServe(w) /\ Renders(item[w], grp[w]) /\ Saved(r, w, 50)
           \/ pc[w] = "provisioned" /\ Saved(r, w, 100)
<1>1. \A r \in hosts : Kept(r)
  BY DEF Kept, Same
<1>2. CASE UNCHANGED hosts
  BY <1>1, <1>2
<1>3. CASE BootFiles(w)
  BY <1>1, <1>3, SaveHostRowsFrom
  DEF BootFiles, LoadBootHost, serveMboot, serveCrypto64, serveLoader, serveBootCfg, SaveThen,
              SendBootFile, SendLoader, SendBootCfg, store, ServeSteps
<1>4. CASE KsClear(w)
  <2>1. \A r \in hosts : Kept(Cleared(r))
    BY DEF Kept, Same, Cleared, TypeOK, StoreOK, Host
  <2> QED BY <1>1, <1>4, <2>1 DEF KsClear, ClearReimage
<1>5. CASE KsServe(w)
  BY <1>1, <1>5, SaveHostRowsFrom DEF KsServe, SaveThen, store
<1>6. CASE ProvisioningWorker(w)
  BY <1>1, <1>6, SaveHostRowsFrom DEF ProvisioningWorker
<1>7. CASE DeleteHost(w)
  BY <1>1, <1>7 DEF DeleteHost, DeleteByID
<1>8. CASE Dhcp(w) \/ KsLoad(w) \/ SendKs(w) \/ PostConfig(w) \/ PostConfigID(w) \/ GroupApi(w)
  BY <1>2, <1>8 DEF Dhcp, processDiscover, processRequest, Offer, Ack, KsLoad, SendKs,
     PostConfig, PostConfigID, GroupApi, CreateGroup, UpdateGroup, SaveUpdatedGroup, DeleteGroup, store
<1>9. CASE CreateHost(w) \/ InsertHost(w) \/ UpdateHost(w) \/ SaveUpdatedHost(w)
  BY <1>9 DEF CreateHost, InsertHost, UpdateHost, SaveUpdatedHost, EditSteps
<1> QED BY <1>3, <1>4, <1>5, <1>6, <1>7, <1>8, <1>9 DEF Handle, Ks, Post, HostApi

\* A snapshot is new only when a handler loads a row or the zero host, or when Ks has
\* cleared its flag.
LEMMA ItemsFrom ==
  ASSUME TypeOK, NEW w \in Workers, Handle(w), pc[w] \notin EditSteps
  PROVE  item'[w] = item[w] \/ ~item'[w].reimage \/ item'[w] \in hosts
<1> USE DEF TypeOK, DaemonOK, Done, Load
<1>1. ~ZeroHost.reimage
  BY NobodysMac
<1>2. \A x, y : ByIP(hosts, x) \subseteq hosts /\ ByID(hosts, x) \subseteq hosts
                /\ findHostByMAC(x) \subseteq hosts
  BY FirstIsSubset DEF ByIP, ByID, findHostByMAC, ByMac
<1>3. CASE Dhcp(w)
  BY <1>1, <1>2, <1>3 DEF Dhcp, processDiscover, processRequest, Offer, Ack
<1>4. CASE BootFiles(w)
  BY <1>1, <1>2, <1>4
  DEF BootFiles, LoadBootHost, serveMboot, serveCrypto64, serveLoader, serveBootCfg, SaveThen,
              SendBootFile, SendLoader, SendBootCfg
<1>5. CASE Ks(w)
  <2>1. ~Cleared(item[w]).reimage
    BY DEF Cleared, Host
  <2> QED BY <1>1, <1>2, <1>5, <2>1 DEF Ks, KsLoad, KsClear, KsServe, SaveThen, SendKs
<1>6. CASE Post(w)
  BY <1>1, <1>2, <1>6 DEF Post, PostConfig, PostConfigID, ProvisioningWorker
<1>7. CASE HostApi(w)
  BY <1>1, <1>7 DEF HostApi, CreateHost, InsertHost, UpdateHost, SaveUpdatedHost, DeleteHost, EditSteps
<1>8. CASE GroupApi(w)
  BY <1>1, <1>8 DEF GroupApi, CreateGroup, UpdateGroup, SaveUpdatedGroup, DeleteGroup
<1> QED BY <1>3, <1>4, <1>5, <1>6, <1>7, <1>8 DEF Handle

\* The steps of the environment write no row and load none.
LEMMA EnvironmentRows ==
  ASSUME TypeOK, (\E m \in Macs : Machine(m)) \/ (\E w \in Workers : Command(w)) \/ Restart
                 \/ UNCHANGED vars
  PROVE  hosts' = hosts /\ \A v \in Workers : item'[v] = item[v] \/ item'[v] = ZeroHost
BY DEF Machine, Installed, Reboot, Timeout, PowerCycle, Send, Command, Restart, store, daemon, vars

\* A flag that is down stays down: nobody holds a flagged copy to write back.
LEMMA StaysDisarmed ==
  ASSUME TypeOK, \A w \in Workers : WorkerOK(w), [Next]_vars, NEW m, Disarmed(m)
  PROVE  Disarmed(m)'
<1>1. ASSUME NEW w \in Workers, Handle(w) PROVE Disarmed(m)'
  <2>1. pc[w] \notin EditSteps
    BY DEF WorkerOK
  <2>2. \A h \in hosts' : Lower[h.mac] = m => ~h.reimage
    BY <1>1, <2>1, RowsFrom DEF Kept, Saved, Same, Disarmed
  <2>3. \A v \in Workers : Lower[item'[v].mac] = m => ~item'[v].reimage
    BY <1>1, <2>1, ItemsFrom, OtherHandlers DEF Disarmed
  <2> QED BY <2>2, <2>3 DEF Disarmed
<1>2. CASE (\E n \in Macs : Machine(n)) \/ (\E w \in Workers : Command(w)) \/ Restart
           \/ UNCHANGED vars
  BY <1>2, EnvironmentRows, NobodysMac DEF Disarmed
<1> QED BY <1>1, <1>2 DEF Next

\* Rows stay the registered hosts and the strays.
LEMMA RowsStep ==
  ASSUME InstallInv, Undisturbed, [Next]_vars
  PROVE  \A r \in hosts' : RowOK(r)
<1> USE DEF InstallInv, ArmedInv
<1>1. ASSUME NEW r, Kept(r) PROVE RowOK(r)
  BY <1>1 DEF Kept, RowOK, Registered, Stray, Same
<1>2. ASSUME NEW w \in Workers, pc[w] \in HoldSteps \cup {"provisioned"}, NEW r, NEW p, Saved(r, w, p)
      PROVE  RowOK(r)
  <2>1. Registered(item[w]) \/ item[w] = ZeroHost
    BY <1>2 DEF WorkerOK
  <2>2. CASE Registered(item[w])
    BY <1>2, <2>2, InitialRows DEF Registered, Same, Saved, RowOK
  <2>3. CASE item[w] = ZeroHost
    BY <1>2, <2>3, NobodysMac DEF Saved, Stray, RowOK
  <2> QED BY <2>1, <2>2, <2>3
<1>3. ASSUME NEW w \in Workers, Handle(w) PROVE \A r \in hosts' : RowOK(r)
  <2>1. pc[w] \notin EditSteps
    BY DEF WorkerOK
  <2>2. KsServe(w) => pc[w] = "ksServe"
    BY DEF KsServe
  <2> QED BY <1>1, <1>2, <1>3, <2>1, <2>2, RowsFrom DEF HoldSteps
<1>4. CASE (\E n \in Macs : Machine(n)) \/ (\E w \in Workers : Command(w)) \/ Restart
           \/ UNCHANGED vars
  BY <1>4, EnvironmentRows
<1> QED BY <1>3, <1>4 DEF Next

-----------------------------------------------------------------------------
(* What a step does to a machine                                           *)

Unmoved(m) == stage'[m] = stage[m] /\ lease'[m] = lease[m] /\ built'[m] = built[m] /\ disk'[m] = disk[m]
LeavesNetwork(m) == stage'[m] \in {"netboot", "disk"} /\ built'[m] = built[m] /\ disk'[m] = disk[m]
TakesLease(m) ==
    /\ \E w \in Workers : /\ wait[m] = w /\ pc[w] \in {"offer", "ack"}
                          /\ item[w].ip # Empty /\ lease'[m] = item[w].ip
    /\ stage'[m] \in {"offered", "leased"} /\ built'[m] = built[m] /\ disk'[m] = disk[m]
BootsOn(m) ==
    /\ stage[m] \in Booting /\ stage'[m] \in Booting \ {"installing"}
    /\ lease'[m] = lease[m] /\ built'[m] = built[m] /\ disk'[m] = disk[m]
StartsInstaller(m) ==
    /\ \E w \in Workers : SendKs(w) /\ wait[m] = w /\ built'[m] = Identity(item[w])
    /\ stage'[m] = "installing" /\ lease'[m] = lease[m] /\ disk'[m] = disk[m]
EndsInstaller(m) ==
    /\ stage[m] = "installing" /\ stage'[m] = "netboot"
    /\ built'[m] = built[m] /\ disk'[m] = "fresh"
ComesUp(m) ==
    /\ stage[m] = "disk" /\ stage'[m] = "disk" /\ disk[m] = "fresh" /\ disk'[m] = "booted"
    /\ built'[m] = built[m]

\* These are all: a handler's answer, seen from the machine that waits for it, and the
\* machine's own steps.
LEMMA MachineStep ==
  ASSUME ArmedInv, Undisturbed, [Next]_vars, NEW m \in Macs
  PROVE  \/ Unmoved(m) \/ LeavesNetwork(m) \/ TakesLease(m) \/ BootsOn(m)
         \/ StartsInstaller(m) \/ EndsInstaller(m) \/ ComesUp(m)
<1> USE DEF ArmedInv
<1>1. ASSUME NEW w \in Workers, Handle(w) \/ Command(w), wait[m] # w PROVE Unmoved(m)
  BY <1>1, OtherMachines DEF Unmoved
<1>2. ASSUME NEW w \in Workers, NotServed(w) \/ Lease(w, "netboot", Empty), wait[m] = w
      PROVE  LeavesNetwork(m)
  BY <1>2 DEF NotServed, Lease, Waiting, BootDisk, LeavesNetwork
<1>3. ASSUME NEW w \in Workers, Handle(w), wait[m] = w
      PROVE  Unmoved(m) \/ LeavesNetwork(m) \/ TakesLease(m) \/ BootsOn(m) \/ StartsInstaller(m)
  <2>1. UNCHANGED machines => Unmoved(m)
    BY DEF machines, Unmoved
  <2>2. CASE Dhcp(w)
    <3>1. \A st \in {"offered", "leased"} :
            pc[w] \in {"offer", "ack"} /\ item[w].ip # Empty /\ Lease(w, st, item[w].ip) => TakesLease(m)
      BY <1>3 DEF Lease, Waiting, TakesLease
    <3>2. pc[w] = "ack" => item[w].ip # Empty
      BY DEF DhcpHolds
    <3> QED BY <1>2, <1>3, <2>1, <2>2, <3>1, <3>2 DEF Dhcp, processDiscover, processRequest, Offer, Ack
  <2>3. CASE BootFiles(w)
    <3>1. pc[w] \in BootSteps
      BY <2>3 DEF BootFiles, LoadBootHost, serveMboot, serveCrypto64, serveLoader, serveBootCfg, SaveThen,
              SendBootFile, SendLoader, SendBootCfg,
                  Files, BootSteps
    <3>2. stage[m] \in Booting
      BY <1>3, <3>1, WorkerAssumption DEF WaitsForOwn, BootSteps, DhcpSteps
    <3>3. \A st \in {"loader", "verified", "configured"} : Served(w, st) => BootsOn(m)
      BY <1>3, <3>2 DEF Served, Waiting, BootsOn, Booting
    <3> QED BY <1>2, <1>3, <2>1, <2>3, <3>3
            DEF BootFiles, LoadBootHost, serveMboot, serveCrypto64, serveLoader, serveBootCfg, SaveThen,
              SendBootFile, SendLoader, SendBootCfg
  <2>4. CASE KsLoad(w) \/ KsClear(w)
    BY <1>2, <1>3, <2>1, <2>4 DEF KsLoad, KsClear
  <2>5. CASE KsServe(w) \/ SendKs(w)
    <3>1. SendKs(w) => StartsInstaller(m)
      BY <1>3 DEF SendKs, Waiting, StartsInstaller
    <3> QED BY <1>2, <1>3, <2>1, <2>5, <3>1 DEF KsServe, SaveThen
  <2>6. CASE Post(w)
    <3>1. CASE PostConfig(w)
      BY <1>3, <3>1 DEF PostConfig, Served, Waiting, LeavesNetwork
    <3> QED BY <2>1, <2>6, <3>1 DEF Post, PostConfigID, ProvisioningWorker
  <2>7. CASE HostApi(w) \/ GroupApi(w)
    BY <2>1, <2>7 DEF HostApi, CreateHost, InsertHost, UpdateHost, SaveUpdatedHost, DeleteHost,
       GroupApi, CreateGroup, UpdateGroup, SaveUpdatedGroup, DeleteGroup
  <2> QED BY <1>3, <2>2, <2>3, <2>4, <2>5, <2>6, <2>7 DEF Handle, Ks
<1>4. ASSUME NEW w \in Workers, Command(w) PROVE Unmoved(m)
  BY <1>4 DEF Command, machines, Unmoved
<1>5. ASSUME NEW n \in Macs, Machine(n)
      PROVE  Unmoved(m) \/ LeavesNetwork(m) \/ EndsInstaller(m) \/ ComesUp(m)
  <2>1. ~Timeout(n) /\ ~PowerCycle(n)
    BY DEF Undisturbed, Timeout, PowerCycle
  <2>2. CASE Installed(n) \/ Reboot(n)
    BY <2>2 DEF Installed, Reboot, TypeOK, MachinesOK, Unmoved, LeavesNetwork, EndsInstaller
  <2>3. ASSUME NEW w \in Workers, Send(n, w) PROVE Unmoved(m) \/ ComesUp(m)
    <3>1. Asks(n) = "postconfig" => stage[n] = "disk" /\ disk[n] = "fresh"
      BY DEF Asks
    <3> QED BY <2>3, <3>1 DEF Send, TypeOK, MachinesOK, Unmoved, ComesUp
  <2> QED BY <1>5, <2>1, <2>2, <2>3 DEF Machine
<1>6. CASE Restart
  BY <1>6 DEF Restart, BootDisk, Unmoved, LeavesNetwork
<1>7. CASE UNCHANGED vars
  BY <1>7 DEF vars, Unmoved
<1> QED BY <1>1, <1>3, <1>4, <1>5, <1>6, <1>7 DEF Next

\* The row a machine is being served from is its own, with the address it will hold.
LEMMA OwnReservation ==
  ASSUME \A w \in Workers : WorkerOK(w), ArmedInv, Undisturbed, NEW m \in Macs, NEW w \in Workers,
         wait[m] = w, pc[w] \in {"offer", "ack", "ksClear", "ksServe", "sendKs"}, item[w].ip # Empty
  PROVE  Reserved(m, item[w].ip) /\ Lower[item[w].mac] = m
<1>1. req[w].from = m
  BY WorkerAssumption DEF ArmedInv, WaitsForOwn
<1>2. Registered(item[w]) /\ Lower[item[w].mac] = m
  BY <1>1 DEF WorkerOK, HoldSteps, ServeSteps
<1> QED BY <1>2 DEF Registered, Same, Reserved

\* A machine that is let past DHCP is not installed: its row says re-image, and that of
\* an installed one never does again.
LEMMA ArmedIsBlank ==
  ASSUME InstallInv, NEW m \in Macs, NEW w \in Workers, wait[m] = w, pc[w] \in {"offer", "ack"}
  PROVE  disk[m] = "blank"
<1> USE DEF InstallInv, ArmedInv
<1>1. req[w].from = m
  BY WorkerAssumption DEF WaitsForOwn
<1>2. item[w].reimage /\ Lower[item[w].mac] = m
  BY <1>1 DEF DhcpHolds
<1>3. ~Disarmed(m)
  BY <1>2 DEF Disarmed
<1> QED BY <1>3 DEF MachineOK

\* What a kickstart builds: the machine that waits for it, at its own address.
LEMMA InstallerIsOwn ==
  ASSUME InstallInv, Undisturbed, NEW m \in Macs, NEW w \in Workers, pc[w] = "sendKs", wait[m] = w
  PROVE  /\ Reserved(m, item[w].ip) /\ Lower[item[w].mac] = m /\ Identity(item[w]) # NoIdentity
         /\ Disarmed(m) /\ disk[m] = "blank" /\ Registered(item[w])
<1> USE DEF InstallInv, ArmedInv
<1>1. req[w].from = m /\ pc[w] \in BootSteps
  BY WorkerAssumption DEF WaitsForOwn, BootSteps
<1>2. stage[m] \in Booting
  BY <1>1, WorkerAssumption DEF WaitsForOwn, DhcpSteps
<1>3. lease[m] # Empty /\ item[w].ip = lease[m]
  BY <1>1, <1>2, WorkerAssumption DEF MachineOK, Reserved, AddressInv, AsksFromLease, KsRowAtAddress
<1>4. Reserved(m, item[w].ip) /\ Lower[item[w].mac] = m
  BY <1>1, <1>3, OwnReservation
<1>5. Disarmed(m) /\ disk[m] = "blank"
  BY <1>1, <1>2 DEF WorkerOK, MachineOK
<1>6. Identity(item[w]) # NoIdentity
  BY <1>3 DEF Identity, NoIdentity
<1>7. Registered(item[w])
  BY <1>1 DEF WorkerOK, HoldSteps, ServeSteps
<1> QED BY <1>4, <1>5, <1>6, <1>7

\* Machines keep their promises, whatever step is taken.
LEMMA MachinesStep ==
  ASSUME InstallInv, Undisturbed, [Next]_vars, NEW m \in Macs
  PROVE  MachineOK(m)'
<1> USE DEF InstallInv, ArmedInv
<1>1. MachineOK(m)
  OBVIOUS
<1>2. Disarmed(m) => Disarmed(m)'
  BY StaysDisarmed
<1>3. \A ip : Reserved(m, ip)' = Reserved(m, ip)
  BY DEF Reserved
<1>4. CASE Unmoved(m) \/ LeavesNetwork(m)
  BY <1>1, <1>2, <1>3, <1>4 DEF MachineOK, Unmoved, LeavesNetwork, Booting
<1>5. CASE TakesLease(m)
  <2>1. PICK w \in Workers : /\ wait[m] = w /\ pc[w] \in {"offer", "ack"}
                             /\ item[w].ip # Empty /\ lease'[m] = item[w].ip
    BY <1>5 DEF TakesLease
  <2>2. Reserved(m, lease'[m]) /\ disk[m] = "blank"
    BY <2>1, OwnReservation, ArmedIsBlank
  <2> QED BY <1>1, <1>2, <1>3, <1>5, <2>2 DEF MachineOK, TakesLease
<1>6. CASE BootsOn(m)
  BY <1>1, <1>2, <1>3, <1>6 DEF MachineOK, BootsOn
<1>7. CASE StartsInstaller(m)
  <2>1. PICK w \in Workers : SendKs(w) /\ wait[m] = w /\ built'[m] = Identity(item[w])
    BY <1>7 DEF StartsInstaller
  <2>2. /\ Reserved(m, item[w].ip) /\ Lower[item[w].mac] = m /\ Identity(item[w]) # NoIdentity
        /\ Disarmed(m) /\ disk[m] = "blank"
    BY <2>1, InstallerIsOwn DEF SendKs
  <2>3. item[w].ip = lease[m]
    BY <2>1, WorkerAssumption DEF SendKs, AddressInv, AsksFromLease, KsRowAtAddress, BootSteps
  <2> QED BY <1>2, <1>3, <1>7, <2>1, <2>2, <2>3 DEF MachineOK, StartsInstaller, Identity
<1>8. CASE EndsInstaller(m) \/ ComesUp(m)
  BY <1>1, <1>2, <1>3, <1>8 DEF MachineOK, EndsInstaller, ComesUp, Booting
<1> QED BY <1>4, <1>5, <1>6, <1>7, <1>8, MachineStep

\* A built machine stays built, a machine that is up has booted for good.
LEMMA Lasting ==
  ASSUME InstallInv, Undisturbed, [Next]_vars, NEW m \in Macs
  PROVE  /\ built[m] # NoIdentity => built'[m] # NoIdentity
         /\ disk[m] = "booted" => disk'[m] = "booted"
<1> USE DEF InstallInv, ArmedInv
<1>1. MachineOK(m)
  OBVIOUS
<1>2. CASE StartsInstaller(m)
  BY <1>2, InstallerIsOwn DEF StartsInstaller, SendKs
<1>3. CASE EndsInstaller(m)
  BY <1>1, <1>3 DEF EndsInstaller, MachineOK, Booting
<1>4. CASE Unmoved(m) \/ LeavesNetwork(m) \/ TakesLease(m) \/ BootsOn(m) \/ ComesUp(m)
  BY <1>4 DEF Unmoved, LeavesNetwork, TakesLease, BootsOn, ComesUp
<1> QED BY <1>2, <1>3, <1>4, MachineStep

\* A kickstart on its way reaches its machine, unless the daemon dies: then the machine
\* leaves the network boot.
LEMMA SentArrives ==
  ASSUME InstallInv, Undisturbed, [Next]_vars, NEW m \in Macs, KickstartSent(m),
         stage'[m] \in Booting
  PROVE  built'[m] # NoIdentity \/ KickstartSent(m)'
<1> USE DEF InstallInv, ArmedInv
<1>1. PICK w \in Workers : wait[m] = w /\ pc[w] = "sendKs"
  BY DEF KickstartSent
<1>2. w # None
  BY WorkerAssumption
<1>3. ASSUME wait'[m] = wait[m], pc'[w] = pc[w] PROVE KickstartSent(m)'
  BY <1>1, <1>3 DEF KickstartSent
<1>4. ASSUME NEW v \in Workers, Handle(v) \/ Command(v), v # w PROVE KickstartSent(m)'
  <2>1. pc'[w] = pc[w]
    BY <1>4, OtherHandlers
  <2>2. wait'[m] = wait[m]
    BY <1>1, <1>4, OtherMachines
  <2> QED BY <1>3, <2>1, <2>2
<1>5. CASE Handle(w) \/ Command(w)
  <2>1. SendKs(w)
    BY <1>1, <1>5 DEF Handle, Dhcp, processDiscover, processRequest, Offer, Ack, BootFiles,
       LoadBootHost, Files, serveMboot, serveCrypto64, serveLoader, serveBootCfg, SendBootFile,
       SendLoader, SendBootCfg, Ks, KsLoad, KsClear, KsServe, Post, PostConfig, PostConfigID,
       ProvisioningWorker, HostApi, CreateHost, InsertHost, UpdateHost, SaveUpdatedHost,
       DeleteHost, GroupApi, CreateGroup, UpdateGroup, SaveUpdatedGroup, DeleteGroup, Command
  <2>2. built'[m] = Identity(item[w])
    BY <1>1, <2>1 DEF SendKs, Waiting
  <2> QED BY <1>1, <2>2, InstallerIsOwn
<1>6. ASSUME NEW n \in Macs, Machine(n) PROVE KickstartSent(m)'
  <2>1. ~Timeout(n) /\ ~PowerCycle(n)
    BY DEF Undisturbed, Timeout, PowerCycle
  <2>2. CASE Installed(n) \/ Reboot(n)
    BY <1>3, <2>2 DEF Installed, Reboot, daemon
  <2>3. ASSUME NEW v \in Workers, Send(n, v) PROVE KickstartSent(m)'
    BY <1>1, <1>2, <1>3, <2>3 DEF Send, Goto, TypeOK, DaemonOK, MachinesOK
  <2> QED BY <1>6, <2>1, <2>2, <2>3 DEF Machine
<1>7. ~Restart
  BY <1>1, <1>2 DEF Restart, BootDisk, Booting
<1>8. CASE UNCHANGED vars
  BY <1>3, <1>8 DEF vars
<1> QED BY <1>4, <1>5, <1>6, <1>7, <1>8 DEF Next

\* The rows that say 50 or more: kept ones, what Ks saves before it sends, and what the
\* goroutine of post-config saves.
ProgressFrom(r, m) ==
    \/ Kept(r)
    \/ \E w \in Workers : KsServe(w) /\ Renders(item[w], grp[w]) /\ Saved(r, w, 50)
                          /\ wait[m] = w /\ req[w].from = m
    \/ \E w \in Workers : pc[w] = "provisioned" /\ Saved(r, w, 100)

LEMMA ProgressRows ==
  ASSUME InstallInv, Undisturbed, [Next]_vars, NEW m \in Macs, NEW r \in hosts',
         Lower[r.mac] = m, r.progress >= 50
  PROVE  ProgressFrom(r, m)
<1> USE DEF InstallInv, ArmedInv
<1>1. ASSUME NEW w \in Workers, KsServe(w), Saved(r, w, 50) PROVE wait[m] = w /\ req[w].from = m
  <2>1. pc[w] = "ksServe" /\ Lower[item[w].mac] = m
    BY <1>1 DEF KsServe, Saved
  <2> QED BY <2>1, NobodysMac DEF WorkerOK, HoldSteps, ServeSteps, ClientSteps, BootSteps
<1>2. ASSUME NEW w, NEW p \in {10, 12, 15} PROVE ~Saved(r, w, p)
  BY <1>2 DEF Saved
<1>3. ASSUME NEW w \in Workers, Handle(w) PROVE ProgressFrom(r, m)
  <2>1. pc[w] \notin EditSteps
    BY DEF WorkerOK
  <2> QED BY <1>1, <1>2, <1>3, <2>1, RowsFrom DEF ProgressFrom
<1>4. CASE (\E n \in Macs : Machine(n)) \/ (\E w \in Workers : Command(w)) \/ Restart
           \/ UNCHANGED vars
  <2>1. r \in hosts
    BY <1>4, EnvironmentRows
  <2> QED BY <2>1 DEF ProgressFrom, Kept, Same
<1> QED BY <1>3, <1>4 DEF Next

\* Ks saves 50 with the flag already down, and holds on to its machine until it sends; the
\* goroutine of post-config saves 100 for a machine that has booted.
LEMMA ProgressStep ==
  ASSUME InstallInv, Undisturbed, [Next]_vars
  PROVE  (ProgressDisarms /\ ProgressTracksMachine)'
<1> USE DEF InstallInv, ArmedInv
<1>1. ASSUME NEW m \in Macs, NEW r \in hosts', Lower[r.mac] = m, r.progress >= 50
      PROVE  /\ Disarmed(m)
             /\ stage'[m] \in Booting => built'[m] # NoIdentity \/ KickstartSent(m)'
             /\ r.progress = 100 => disk'[m] = "booted"
  <2>1. MachineOK(m) /\ ProgressFrom(r, m)
    BY <1>1, ProgressRows
  <2>2. CASE Kept(r)
    <3>1. PICK q \in hosts : Same(r, q) /\ r.progress = q.progress
      BY <2>2 DEF Kept
    <3>2. /\ Disarmed(m)
          /\ stage[m] \in Booting => built[m] # NoIdentity \/ KickstartSent(m)
          /\ r.progress = 100 => disk[m] = "booted"
      BY <1>1, <3>1 DEF Same, ProgressDisarms, ProgressTracksMachine
    <3>3. ~TakesLease(m)
      <4>1. SUFFICES ASSUME NEW w \in Workers, wait[m] = w, pc[w] \in {"offer", "ack"}
                     PROVE  FALSE
        BY DEF TakesLease
      <4>2. item[w].reimage /\ Lower[item[w].mac] = m
        BY <4>1, WorkerAssumption DEF DhcpHolds, WaitsForOwn
      <4> QED BY <3>2, <4>2 DEF Disarmed
    <3>4. CASE StartsInstaller(m)
      BY <3>2, <3>4, Lasting, InstallerIsOwn DEF StartsInstaller, SendKs
    <3>5. CASE BootsOn(m) \/ Unmoved(m)
      BY <3>2, <3>5, Lasting, SentArrives DEF BootsOn, Unmoved
    <3>6. CASE LeavesNetwork(m) \/ EndsInstaller(m) \/ ComesUp(m)
      BY <3>2, <3>6, Lasting DEF LeavesNetwork, EndsInstaller, ComesUp, Booting
    <3> QED BY <3>3, <3>4, <3>5, <3>6, MachineStep
  <2>3. ASSUME NEW w \in Workers, KsServe(w), Renders(item[w], grp[w]), Saved(r, w, 50),
               wait[m] = w, req[w].from = m
        PROVE  Disarmed(m) /\ KickstartSent(m)' /\ r.progress # 100
    <3>1. Disarmed(m)
      BY <2>3 DEF KsServe, WorkerOK
    <3>2. pc'[w] = "sendKs" /\ wait' = wait
      BY <2>3 DEF KsServe, SaveThen, Goto, machines, TypeOK, DaemonOK
    <3> QED BY <2>3, <3>1, <3>2 DEF KickstartSent, Saved
  <2>4. ASSUME NEW w \in Workers, pc[w] = "provisioned", Saved(r, w, 100)
        PROVE  Disarmed(m) /\ built'[m] # NoIdentity /\ disk'[m] = "booted"
    <3>1. disk[m] = "booted"
      BY <1>1, <2>4 DEF WorkerOK, Saved
    <3> QED BY <2>1, <3>1, Lasting DEF MachineOK
  <2> QED BY <2>1, <2>2, <2>3, <2>4 DEF ProgressFrom
<1>2. \A m \in Macs : Disarmed(m) => Disarmed(m)'
  BY StaysDisarmed
<1>3. ProgressDisarms'
  BY <1>1, <1>2 DEF ProgressDisarms
<1>4. ProgressTracksMachine'
  <2> SUFFICES ASSUME NEW m \in Macs, NEW r \in hosts', Lower[r.mac] = m
               PROVE  /\ r.progress >= 50 =>
                           /\ ~r.reimage
                           /\ stage'[m] \in Booting => built'[m] # NoIdentity \/ KickstartSent(m)'
                      /\ r.progress = 100 => disk'[m] = "booted"
    BY DEF ProgressTracksMachine
  <2>1. r.progress >= 50 => ~r.reimage
    BY <1>1, <1>2 DEF Disarmed
  <2>2. r.progress = 100 => r.progress >= 50
    OBVIOUS
  <2> QED BY <1>1, <2>1, <2>2
<1> QED BY <1>3, <1>4

-----------------------------------------------------------------------------
(* What a step does to a handler                                           *)

\* A row found by a reserved address is that of the machine it is reserved for.
LEMMA RowAtReserved ==
  ASSUME InstallInv, Undisturbed, NEW m \in Macs, NEW ip, Reserved(m, ip), NEW h \in ByIP(hosts, ip)
  PROVE  Registered(h) /\ Lower[h.mac] = m
<1>1. h \in hosts /\ h.ip = ip
  BY DEF ByIP, First
<1>2. PICK q \in InitHosts : Lower[q.mac] = m /\ q.ip = ip
  BY DEF Reserved
<1>3. Registered(h)
  BY <1>1 DEF InstallInv, RowOK, Stray, Reserved
<1>4. Registered(q)
  BY DEF Registered, Same
<1> QED BY <1>1, <1>2, <1>3, <1>4, RegisteredApart DEF Same

\* A row found by mac is a registered host.
LEMMA RowOfMac ==
  ASSUME InstallInv, NEW m \in Macs, NEW h \in findHostByMAC(m)
  PROVE  Registered(h) /\ Lower[h.mac] = m
<1>1. h \in hosts /\ Lower[h.mac] = m
  BY MacAssumption DEF findHostByMAC, ByMac, First
<1> QED BY <1>1, NobodysMac DEF InstallInv, RowOK, Stray

\* A handler that has ended.
LEMMA IdleOK ==
  ASSUME NEW w, pc'[w] = "idle", item'[w] = ZeroHost
  PROVE  WorkerOK(w)'
BY DEF WorkerOK, ClientSteps, DhcpSteps, BootSteps, HoldSteps, ServeSteps, EditSteps

LEMMA DoneOK ==
  ASSUME TypeOK, NEW w \in Workers, Done(w)
  PROVE  WorkerOK(w)'
BY IdleOK DEF TypeOK, DaemonOK, Done, Goto

\* A handler that another one's step passes by.
LEMMA OtherWorkerOK ==
  ASSUME InstallInv, Undisturbed, [Next]_vars, NEW v \in Workers,
         pc'[v] = pc[v], req'[v] = req[v], item'[v] = item[v],
         \A m \in Macs : wait[m] = v => wait'[m] = v /\ built'[m] = built[m]
  PROVE  WorkerOK(v)'
<1> USE DEF InstallInv, ArmedInv
<1>1. WorkerOK(v)
  OBVIOUS
<1>2. pc[v] \in ClientSteps => req[v].from \in Macs /\ wait[req[v].from] = v
  BY <1>1 DEF WorkerOK
<1>3. pc[v] \in {"ksServe", "sendKs"} => Disarmed(req[v].from)'
  BY <1>1, StaysDisarmed DEF WorkerOK
<1>4. \A m \in Macs : disk[m] = "booted" => disk'[m] = "booted"
  BY Lasting
<1>5. Registered(item[v])' = Registered(item'[v])
  BY DEF Registered
<1>6. "postconfig" \in ClientSteps
  BY DEF ClientSteps
<1> QED BY <1>1, <1>2, <1>3, <1>4, <1>5, <1>6 DEF WorkerOK, Registered

\* A DHCP handler, a boot-file handler or Ks has loaded its client's row.
LEMMA LoadedOK ==
  ASSUME InstallInv, NEW w \in Workers, NEW h, NEW g, NEW step \in HoldSteps \ {"ksServe", "sendKs"},
         Load(w, h, g), Goto(w, step), UNCHANGED machines, pc[w] \in DhcpSteps \cup BootSteps,
         \/ Registered(h) /\ Lower[h.mac] = req[w].from
         \/ h = ZeroHost /\ step \in ServeSteps
  PROVE  WorkerOK(w)'
<1>1. pc'[w] = step /\ item'[w] = h /\ req' = req /\ wait' = wait
  BY DEF InstallInv, ArmedInv, TypeOK, DaemonOK, Load, Goto, machines
<1>2. req[w].from \in Macs /\ wait[req[w].from] = w
  BY DEF InstallInv, WorkerOK, ClientSteps
<1> QED BY <1>1, <1>2 DEF WorkerOK, HoldSteps, ServeSteps, EditSteps, Registered

\* A handler that has saved its row and is about to send goes on with what it holds.
LEMMA HeldOnOK ==
  ASSUME InstallInv, Undisturbed, [Next]_vars, NEW w \in Workers, NEW step,
         Goto(w, step), UNCHANGED <<req, item, machines>>,
         \/ pc[w] \in ServeSteps \cap BootSteps /\ step \in ServeSteps
         \/ pc[w] = "ksServe" /\ step = "sendKs"
  PROVE  WorkerOK(w)'
<1> USE DEF InstallInv, ArmedInv
<1>1. pc'[w] = step /\ item'[w] = item[w] /\ req'[w] = req[w] /\ wait' = wait
  BY DEF TypeOK, DaemonOK, Goto, machines
<1>2. pc[w] \in ClientSteps /\ pc[w] \in HoldSteps
  BY DEF ClientSteps, HoldSteps, BootSteps
<1>3. req[w].from \in Macs /\ wait[req[w].from] = w
  BY <1>2 DEF WorkerOK
<1>4. \/ Registered(item[w]) /\ Lower[item[w].mac] = req[w].from
      \/ item[w] = ZeroHost /\ step \in ServeSteps
  BY <1>2 DEF WorkerOK, ServeSteps
<1>5. step = "sendKs" => Disarmed(req[w].from)'
  BY StaysDisarmed DEF WorkerOK, ServeSteps
<1>6. /\ step \notin {"ksServe", "postconfig", "provisioned"} \cup EditSteps
      /\ step \in HoldSteps
  BY DEF HoldSteps, ServeSteps, EditSteps
<1> QED BY <1>1, <1>3, <1>4, <1>5, <1>6 DEF WorkerOK, Registered

\* The machine a boot handler works for is booting, with an address of its own.
LEMMA ServedReserved ==
  ASSUME InstallInv, NEW w \in Workers, pc[w] \in BootSteps
  PROVE  /\ req[w].from \in Macs /\ wait[req[w].from] = w /\ stage[req[w].from] \in Booting
         /\ Reserved(req[w].from, req[w].ip) /\ disk[req[w].from] = "blank"
<1> USE DEF InstallInv, ArmedInv
<1>1. req[w].from \in Macs /\ wait[req[w].from] = w
  BY DEF WorkerOK, ClientSteps
<1>2. stage[req[w].from] \in Booting
  BY <1>1, WorkerAssumption DEF WaitsForOwn, BootSteps, DhcpSteps
<1>3. req[w].ip = lease[req[w].from]
  BY <1>1, WorkerAssumption DEF AddressInv, AsksFromLease
<1> QED BY <1>1, <1>2, <1>3 DEF MachineOK

\* DHCP.
LEMMA DhcpOwn ==
  ASSUME InstallInv, NEW w \in Workers, Dhcp(w) PROVE WorkerOK(w)'
<1>1. CASE Done(w)
  BY <1>1, DoneOK DEF InstallInv, ArmedInv
<1>2. CASE \E h \in findHostByMAC(req[w].from), step \in {"offer", "ack"} :
             Load(w, h, ZeroGroup) /\ Goto(w, step) /\ UNCHANGED machines
  <2>1. PICK h \in findHostByMAC(req[w].from), step \in {"offer", "ack"} :
          Load(w, h, ZeroGroup) /\ Goto(w, step) /\ UNCHANGED machines
    BY <1>2
  <2>2. pc[w] \in DhcpSteps
    BY DEF Dhcp, processDiscover, processRequest, Offer, Ack, DhcpSteps
  <2>3. Registered(h) /\ Lower[h.mac] = req[w].from
    BY <2>2, RowOfMac DEF InstallInv, ArmedInv, DhcpHolds
  <2> QED BY <2>1, <2>2, <2>3, LoadedOK DEF HoldSteps
<1> QED BY <1>1, <1>2 DEF Dhcp, processDiscover, processRequest, Offer, Ack

\* The boot files.
LEMMA BootFilesOwn ==
  ASSUME InstallInv, Undisturbed, NEW w \in Workers, BootFiles(w) PROVE WorkerOK(w)'
<1>1. CASE LoadBootHost(w)
  <2>1. PICK h, g : /\ h \in ByIP(hosts, req[w].ip) \/ h = ZeroHost
                    /\ Load(w, h, g) /\ Goto(w, Files[pc[w]]) /\ UNCHANGED machines
    BY <1>1 DEF LoadBootHost
  <2>2. pc[w] \in BootSteps /\ Files[pc[w]] \in ServeSteps
    BY <1>1 DEF LoadBootHost, Files, BootSteps, ServeSteps
  <2>3. h \in ByIP(hosts, req[w].ip) => Registered(h) /\ Lower[h.mac] = req[w].from
    BY <2>2, ServedReserved, RowAtReserved
  <2> QED BY <2>1, <2>2, <2>3, LoadedOK DEF HoldSteps, ServeSteps
<1>2. CASE Done(w)
  BY <1>2, DoneOK DEF InstallInv, ArmedInv
<1>3. CASE /\ serveMboot(w) \/ serveCrypto64(w) \/ serveBootCfg(w)
           /\ ~Done(w)
  <2>1. PICK step \in ServeSteps : Goto(w, step) /\ UNCHANGED <<req, item, machines>>
    BY <1>3 DEF serveMboot, serveCrypto64, serveLoader, serveBootCfg, SaveThen, ServeSteps
  <2>2. pc[w] \in ServeSteps \cap BootSteps /\ [Next]_vars
    BY <1>3 DEF serveMboot, serveCrypto64, serveLoader, serveBootCfg, ServeSteps, BootSteps,
       Next, Handle, BootFiles
  <2> QED BY <2>1, <2>2, HeldOnOK
<1> QED BY <1>1, <1>2, <1>3 DEF BootFiles, SendBootFile

\* Ks clears the flag of the one row its client has, and nobody else holds a copy of it:
\* the client waits for one handler, and the goroutine of an earlier installation would
\* mean a disk that is not blank.
LEMMA ClearDisarms ==
  ASSUME InstallInv, Undisturbed, NEW w \in Workers, KsClear(w),
         ~ClearFails(hosts, req[w].ip, item[w].id)
  PROVE  Disarmed(req[w].from)'
<1> USE DEF InstallInv, ArmedInv
<1> DEFINE m == req[w].from
<1>1. pc[w] = "ksClear" /\ pc[w] \in BootSteps
  BY DEF KsClear, BootSteps
<1>2. m \in Macs /\ wait[m] = w /\ disk[m] = "blank"
  BY <1>1, ServedReserved
<1>3. Registered(item[w]) /\ Lower[item[w].mac] = m /\ item[w].ip = req[w].ip
  BY <1>1 DEF WorkerOK, HoldSteps, ServeSteps, AddressInv, KsRowAtAddress
<1>4. /\ hosts' = ClearReimage(hosts, req[w].ip, item[w].id)
      /\ item' = [item EXCEPT ![w] = Cleared(item[w])]
      /\ req' = req
  BY DEF KsClear
<1> HIDE DEF m
<1>5. \A h \in Host : ~Cleared(h).reimage
  BY DEF Cleared, Host
<1>6. ASSUME NEW h \in hosts', Lower[h.mac] = m PROVE ~h.reimage
  <2>1. PICK q \in hosts :
          h = IF q.ip = req[w].ip /\ q.id = item[w].id THEN Cleared(q) ELSE q
    BY <1>4 DEF ClearReimage
  <2>2. q \in Host
    BY DEF TypeOK, StoreOK
  <2>3. Cleared(q).mac = q.mac
    BY <2>2 DEF Cleared, Host
  <2>4. Lower[q.mac] = m
    BY <1>6, <2>1, <2>3
  <2>5. Registered(q)
    BY <1>2, <2>4, NobodysMac DEF RowOK, Stray
  <2>6. q.ip = req[w].ip /\ q.id = item[w].id
    BY <1>3, <2>4, <2>5, RegisteredApart DEF Same
  <2> QED BY <1>5, <2>1, <2>2, <2>6
<1>7. ASSUME NEW v \in Workers, Lower[item'[v].mac] = m PROVE ~item'[v].reimage
  <2>1. CASE v = w
    BY <1>4, <1>5, <2>1 DEF TypeOK, DaemonOK
  <2>2. CASE v # w
    <3>1. item'[v] = item[v]
      BY <1>4, <2>2 DEF TypeOK, DaemonOK
    <3>2. item[v] # ZeroHost
      BY <1>2, <1>7, <3>1, NobodysMac
    <3>3. pc[v] # "provisioned"
      BY <1>2, <1>7, <3>1 DEF WorkerOK
    <3>4. pc[v] \in HoldSteps /\ req[v].from = m
      BY <1>7, <3>1, <3>2, <3>3 DEF WorkerOK
    <3>5. wait[m] = v
      BY <3>4 DEF WorkerOK, HoldSteps, ServeSteps, ClientSteps, DhcpSteps, BootSteps
    <3> QED BY <1>2, <2>2, <3>5
  <2> QED BY <2>1, <2>2
<1> QED BY <1>4, <1>6, <1>7 DEF Disarmed, m

\* The kickstart.
LEMMA KsOwn ==
  ASSUME InstallInv, Undisturbed, NEW w \in Workers, Ks(w) PROVE WorkerOK(w)'
<1> USE DEF InstallInv, ArmedInv
<1>1. CASE Done(w)
  BY <1>1, DoneOK
<1>2. CASE KsLoad(w) /\ ~Done(w)
  <2>1. PICK h, g : /\ h \in ByIP(hosts, req[w].ip)
                    /\ Load(w, h, g) /\ Goto(w, "ksClear") /\ UNCHANGED machines
    BY <1>2 DEF KsLoad
  <2>2. pc[w] \in BootSteps
    BY <1>2 DEF KsLoad, BootSteps
  <2>3. Registered(h) /\ Lower[h.mac] = req[w].from
    BY <2>1, <2>2, ServedReserved, RowAtReserved
  <2> QED BY <2>1, <2>2, <2>3, LoadedOK DEF HoldSteps
<1>3. CASE KsClear(w) /\ ~Done(w)
  <2>1. /\ item' = [item EXCEPT ![w] = Cleared(item[w])]
        /\ Goto(w, "ksServe") /\ UNCHANGED <<req, grp, machines>>
        /\ ~ClearFails(hosts, req[w].ip, item[w].id)
    BY <1>3 DEF KsClear
  <2>2. Disarmed(req[w].from)'
    BY <1>3, <2>1, ClearDisarms
  <2>3. pc'[w] = "ksServe" /\ item'[w] = Cleared(item[w]) /\ req' = req /\ wait' = wait
    BY <2>1 DEF TypeOK, DaemonOK, Goto, machines
  <2>4. Cleared(item[w]).mac = item[w].mac /\ Cleared(item[w]).ip = item[w].ip
        /\ Cleared(item[w]).id = item[w].id
    BY DEF Cleared, TypeOK, DaemonOK, Host
  <2>5. Registered(item[w]) /\ Lower[item[w].mac] = req[w].from
        /\ req[w].from \in Macs /\ wait[req[w].from] = w
    BY <1>3 DEF KsClear, WorkerOK, HoldSteps, ServeSteps, ClientSteps, BootSteps
  <2>6. Registered(item'[w])
    BY <2>3, <2>4, <2>5 DEF Registered, Same
  <2> QED BY <2>2, <2>3, <2>4, <2>5, <2>6 DEF WorkerOK, HoldSteps, EditSteps, Registered
<1>4. CASE KsServe(w) /\ ~Done(w)
  <2>1. Goto(w, "sendKs") /\ UNCHANGED <<req, item, machines>> /\ pc[w] = "ksServe"
    BY <1>4 DEF KsServe, SaveThen
  <2>2. [Next]_vars
    BY <1>4 DEF Next, Handle, Ks
  <2> QED BY <2>1, <2>2, HeldOnOK
<1>5. SendKs(w) => Done(w)
  BY DEF SendKs
<1> QED BY <1>1, <1>2, <1>3, <1>4, <1>5 DEF Ks

\* Post-config: the goroutine it starts works for the machine that reported itself.
LEMMA PostOwn ==
  ASSUME InstallInv, Undisturbed, NEW w \in Workers, Post(w) PROVE WorkerOK(w)'
<1> USE DEF InstallInv, ArmedInv
<1>1. CASE Done(w)
  BY <1>1, DoneOK
<1>2. CASE PostConfig(w) /\ ~Done(w)
  <2>1. PICK h, g : /\ h \in ByIP(hosts, req[w].ip)
                    /\ Load(w, h, g) /\ Goto(w, "provisioned") /\ disk' = disk
    BY <1>2 DEF PostConfig, Served
  <2>2. /\ req[w].from \in Macs /\ disk[req[w].from] = "booted"
        /\ req[w].ip = built[req[w].from].ip
    BY <1>2 DEF PostConfig, WorkerOK, ClientSteps
  <2>3. Reserved(req[w].from, req[w].ip)
    BY <2>2 DEF MachineOK
  <2>4. Registered(h) /\ Lower[h.mac] = req[w].from
    BY <2>1, <2>2, <2>3, RowAtReserved
  <2>5. pc'[w] = "provisioned" /\ item'[w] = h
    BY <2>1 DEF Load, Goto, TypeOK, DaemonOK
  <2> QED BY <2>1, <2>2, <2>4, <2>5 DEF WorkerOK, ClientSteps, DhcpSteps, BootSteps, HoldSteps,
          ServeSteps, EditSteps, Registered
<1>3. ~PostConfigID(w) /\ (ProvisioningWorker(w) => Done(w))
  BY DEF PostConfigID, ProvisioningWorker, WorkerOK, EditSteps
<1> QED BY <1>1, <1>2, <1>3 DEF Post

\* The operator's API: hosts are only deleted, and groups are not hosts.
LEMMA ApiOwn ==
  ASSUME InstallInv, NEW w \in Workers, HostApi(w) \/ GroupApi(w) PROVE WorkerOK(w)'
<1> USE DEF InstallInv, ArmedInv
<1>1. CASE Done(w)
  BY <1>1, DoneOK
<1>2. CASE ~Done(w)
  <2>1. pc[w] \notin EditSteps
    BY DEF WorkerOK
  <2>2. PICK g : Load(w, ZeroHost, g) /\ Goto(w, "saveGroup")
    BY <1>2, <2>1 DEF HostApi, CreateHost, InsertHost, UpdateHost, SaveUpdatedHost, DeleteHost,
       GroupApi, CreateGroup, UpdateGroup, SaveUpdatedGroup, DeleteGroup, EditSteps
  <2>3. pc'[w] = "saveGroup" /\ item'[w] = ZeroHost
    BY <2>2 DEF Load, Goto, TypeOK, DaemonOK
  <2> QED BY <2>3 DEF WorkerOK, ClientSteps, DhcpSteps, BootSteps, HoldSteps, ServeSteps, EditSteps
<1> QED BY <1>1, <1>2

LEMMA CommandOwn ==
  ASSUME InstallInv, Undisturbed, NEW w \in Workers, Command(w) PROVE WorkerOK(w)'
<1> USE DEF InstallInv, ArmedInv
<1>1. item[w] = ZeroHost
  BY DEF Command, WorkerOK, HoldSteps, ServeSteps
<1>2. pc'[w] \in {"DeleteHost", "CreateGroup", "UpdateGroup", "DeleteGroup"} /\ item'[w] = item[w]
  BY DEF Command, Goto, Undisturbed, TypeOK, DaemonOK
<1> QED BY <1>1, <1>2 DEF WorkerOK, ClientSteps, DhcpSteps, BootSteps, HoldSteps, ServeSteps, EditSteps

\* A machine's request finds an idle worker, and carries the machine's own address.
LEMMA SendOwn ==
  ASSUME InstallInv, Undisturbed, NEW m \in Macs, NEW w \in Workers, Send(m, w)
  PROVE  WorkerOK(w)'
<1> USE DEF InstallInv, ArmedInv
<1>1. /\ pc[w] = "idle" /\ pc'[w] = Asks(m) /\ wait'[m] = w
      /\ req'[w].from = m /\ req'[w].ip = Address(m)
      /\ item' = item /\ built' = built
      /\ Asks(m) = "postconfig" => disk'[m] = "booted"
  BY DEF Send, Goto, NullRequest, TypeOK, DaemonOK, MachinesOK
<1>2. item[w] = ZeroHost
  BY <1>1 DEF WorkerOK, HoldSteps, ServeSteps
<1>3. Asks(m) \in {"discover", "request", "mboot.efi", "crypto64.efi", "boot.cfg", "ks.cfg",
                   "postconfig", "idle"}
  BY DEF Asks
<1>4. Asks(m) = "postconfig" => Address(m) = built[m].ip
  BY DEF Asks, Address
<1> QED BY <1>1, <1>2, <1>3, <1>4 DEF WorkerOK, HoldSteps, ServeSteps, EditSteps, Registered

\* Every handler keeps its promises, whatever step is taken.
LEMMA WorkersStep ==
  ASSUME InstallInv, Undisturbed, [Next]_vars, NEW v \in Workers
  PROVE  WorkerOK(v)'
<1> USE DEF InstallInv, ArmedInv
<1>1. ASSUME NEW w \in Workers, Handle(w) \/ Command(w) PROVE WorkerOK(v)'
  <2>1. CASE v = w
    BY <1>1, <2>1, DhcpOwn, BootFilesOwn, KsOwn, PostOwn, ApiOwn, CommandOwn DEF Handle
  <2>2. CASE v # w
    <3>1. pc'[v] = pc[v] /\ req'[v] = req[v] /\ item'[v] = item[v]
      BY <1>1, <2>2, OtherHandlers
    <3>2. \A m \in Macs : wait[m] = v => wait'[m] = v /\ built'[m] = built[m]
      BY <1>1, <2>2, OtherMachines
    <3> QED BY <3>1, <3>2, OtherWorkerOK
  <2> QED BY <2>1, <2>2
<1>2. ASSUME NEW n \in Macs, NEW w \in Workers, Send(n, w) PROVE WorkerOK(v)'
  <2>1. CASE v = w
    BY <1>2, <2>1, SendOwn
  <2>2. CASE v # w
    <3>1. pc'[v] = pc[v] /\ req'[v] = req[v] /\ item'[v] = item[v]
      BY <1>2, <2>2 DEF Send, Goto, TypeOK, DaemonOK
    <3>2. \A m \in Macs : wait[m] = v => wait'[m] = v /\ built'[m] = built[m]
      BY <1>2, WorkerAssumption DEF Send, TypeOK, MachinesOK
    <3> QED BY <3>1, <3>2, OtherWorkerOK
  <2> QED BY <2>1, <2>2
<1>3. ASSUME NEW n \in Macs, Installed(n) \/ Reboot(n) PROVE WorkerOK(v)'
  BY <1>3, OtherWorkerOK DEF Installed, Reboot, daemon
<1>4. ASSUME NEW n \in Macs, Timeout(n) \/ PowerCycle(n) PROVE FALSE
  BY <1>4 DEF Timeout, PowerCycle, Undisturbed
<1>5. CASE Restart
  BY <1>5, IdleOK DEF Restart
<1>6. CASE UNCHANGED vars
  BY <1>6, OtherWorkerOK DEF vars
<1> QED BY <1>1, <1>2, <1>3, <1>4, <1>5, <1>6 DEF Next, Machine

-----------------------------------------------------------------------------
(* The invariant                                                           *)

LEMMA InstallInit ==
  ASSUME Init, Undisturbed PROVE InstallInv
<1>1. ArmedInv /\ AddressInv
  BY InitArmed, AddressInit
<1>2. \A r \in hosts : RowOK(r)
  BY DEF Init, RowOK, Registered, Same
<1>3. \A w \in Workers : WorkerOK(w)
  BY DEF Init, WorkerOK, ClientSteps, DhcpSteps, BootSteps, HoldSteps, ServeSteps, EditSteps
<1>4. \A m \in Macs : MachineOK(m)
  BY DEF Init, MachineOK, Booting
<1>5. ProgressDisarms /\ ProgressTracksMachine
  <2>1. \A h \in InitHosts : h.progress \in Nat /\ h.progress < 50
    BY InitialRows DEF Undisturbed, Host, Progress
  <2> QED BY <2>1 DEF Init, ProgressDisarms, ProgressTracksMachine
<1> QED BY <1>1, <1>2, <1>3, <1>4, <1>5 DEF InstallInv

LEMMA InstallStep ==
  ASSUME InstallInv, Undisturbed, [Next]_vars PROVE InstallInv'
<1>1. ArmedInv' /\ AddressInv'
  BY NextArmed, AddressStep DEF InstallInv
<1> QED BY <1>1, RowsStep, WorkersStep, MachinesStep, ProgressStep DEF InstallInv

LEMMA AlwaysUndisturbed == Undisturbed /\ Spec => [](Undisturbed /\ InstallInv)
<1>1. Undisturbed /\ Init => Undisturbed /\ InstallInv
  BY InstallInit
<1>2. Undisturbed /\ InstallInv /\ [Next]_vars => (Undisturbed /\ InstallInv)'
  <2>1. Undisturbed => Undisturbed'
    BY DEF Undisturbed
  <2> QED BY <2>1, InstallStep
<1> QED BY <1>1, <1>2, PTL DEF Spec

\* api.Ks clears the flag "to avoid re-install looping" before it renders: undisturbed, no
\* row of a machine whose installer runs says re-image, and no handler holds a copy that
\* could put the flag back.  A client that gives up and asks again leaves such a handler
\* behind (run stale_save), which Undisturbed rules out.
THEOREM InstallingStaysDisarmed == Undisturbed /\ Spec => []InstallingIsDisarmed
<1>1. InstallInv => InstallingIsDisarmed
  BY DEF InstallInv, MachineOK, Disarmed, InstallingIsDisarmed
<1> QED BY <1>1, AlwaysUndisturbed, PTL

\* api.Ks looks the host up by source address only: undisturbed, whatever boots, installs
\* and dies in between, the kickstart a machine was built from is that machine's own.  A
\* second row at the address, which Undisturbed rules out, takes it away (run shared_ip).
THEOREM KickstartStaysOwn == Undisturbed /\ Spec => []KickstartIsForThisMachine
<1>1. InstallInv => KickstartIsForThisMachine
  BY DEF InstallInv, MachineOK, KickstartIsForThisMachine
<1> QED BY <1>1, AlwaysUndisturbed, PTL

\* The handlers save 10, 12, 15, 50 and 100 as an installation goes on, each through a
\* snapshot read earlier, and 50 before the kickstart is sent: undisturbed, a row at 50 or
\* more is disarmed, its machine has its kickstart, is about to get it, or is out of the
\* network boot for good, the daemon having died in between; and 100 has booted its disk.
THEOREM ProgressStaysTrue == Undisturbed /\ Spec => []ProgressTracksMachine
<1>1. InstallInv => ProgressTracksMachine
  BY DEF InstallInv
<1> QED BY <1>1, AlwaysUndisturbed, PTL

\* What clearing the flag is for: undisturbed, no installed machine, rebooted into the
\* network any number of times and served by a daemon that dies any number of times,
\* starts the installer again.
THEOREM InstallsOnce == Undisturbed /\ Spec => NoInstallLoop
<1>1. Undisturbed /\ InstallInv /\ [Next]_vars
        => [\A m \in Macs : (stage'[m] = "installing" /\ stage[m] # "installing")
                              => disk[m] = "blank"]_vars
  <2> SUFFICES ASSUME Undisturbed, InstallInv, [Next]_vars, NEW m \in Macs,
                      stage'[m] = "installing", stage[m] # "installing"
               PROVE  disk[m] = "blank"
    OBVIOUS
  <2>1. StartsInstaller(m)
    BY MachineStep DEF InstallInv, Unmoved, LeavesNetwork, TakesLease, BootsOn, EndsInstaller,
       ComesUp
  <2> QED BY <2>1, InstallerIsOwn DEF StartsInstaller, SendKs
<1> QED BY <1>1, AlwaysUndisturbed, PTL DEF Spec, NoInstallLoop
=============================================================================
