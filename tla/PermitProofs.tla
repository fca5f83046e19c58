---------------------------- MODULE PermitProofs ----------------------------
(***************************************************************************)
(* Provisioning implements InstallPermit.  Under the inductive invariant   *)
(* ArmedInv, every step is one of the abstract ones or a stutter: an ACK   *)
(* grants, the operator's saves arm, everything else keeps or releases     *)
(* what the machines hold.                                                 *)
(***************************************************************************)
EXTENDS ProvisioningProofs

\* No machine holds anything it did not hold before.
NothingGranted ==
    \A m \in Macs : stage'[m] \in Booting => stage[m] \in Booting /\ lease'[m] = lease[m]

\* Such a step is a release, possibly of nothing.
LEMMA ReleaseStep ==
  ASSUME NothingGranted, armed' = armed PROVE Permit!Release
<1> DEFINE S == {m \in Macs : stage'[m] \notin Booting}
<1>1. Held' = [m \in Macs |-> IF m \in S THEN Empty ELSE Held[m]]
  BY DEF Held, NothingGranted
<1>2. S \in SUBSET Macs
  OBVIOUS
<1> HIDE DEF S
<1> QED BY <1>1, <1>2 DEF Permit!Release

\* A step that leaves the machines alone leaves what they hold alone.
LEMMA SameHeld ==
  ASSUME UNCHANGED machines PROVE NothingGranted /\ Held' = Held
BY DEF machines, Held, NothingGranted

\* A machine that gets no boot file, no offer it can use or a NAK holds nothing.
LEMMA NotServedReleases ==
  ASSUME TypeOK, NEW w \in Workers, NotServed(w) PROVE NothingGranted
BY DEF TypeOK, MachinesOK, NotServed, Waiting, BootDisk, Booting, NothingGranted

\* A boot file is served to a machine that already holds its lease.
LEMMA ServedReleases ==
  ASSUME TypeOK, WaitsForOwn, NEW w \in Workers, NEW st, Served(w, st),
         pc[w] \in BootSteps \/ st \notin Booting
  PROVE  NothingGranted
<1>1. \A m \in Macs : wait[m] = w /\ pc[w] \in BootSteps => stage[m] \in Booting
  BY WorkerAssumption DEF WaitsForOwn, BootSteps, DhcpSteps
<1> QED BY <1>1 DEF TypeOK, MachinesOK, Served, Waiting, NothingGranted

\* An ACK is a grant to the one machine that waits for it, or comes too late.
LEMMA AckGrants ==
  ASSUME ArmedInv, NEW w \in Workers, Ack(w) PROVE Permit!Next
<1> USE DEF ArmedInv
<1>1. pc[w] = "ack" /\ armed' = armed
  BY DEF Ack
<1>2. CASE NotServed(w)
  BY <1>1, <1>2, NotServedReleases, ReleaseStep DEF Permit!Next
<1>3. CASE Lease(w, "leased", item[w].ip) /\ \A m \in Macs : wait[m] # w
  <2>1. NothingGranted
    BY <1>3 DEF Lease, Waiting, TypeOK, MachinesOK, NothingGranted
  <2> QED BY <1>1, <2>1, ReleaseStep DEF Permit!Next
<1>4. CASE Lease(w, "leased", item[w].ip) /\ \E m \in Macs : wait[m] = w
  <2>1. PICK m \in Macs : wait[m] = w
    BY <1>4
  <2>2. \A n \in Macs : wait[n] = w => n = req[w].from
    BY WorkerAssumption DEF WaitsForOwn
  <2>3. m = req[w].from /\ \A n \in Macs : wait[n] = w => n = m
    BY <2>1, <2>2
  <2>4. stage[m] \notin Booting
    BY <1>1, <2>1, WorkerAssumption DEF WaitsForOwn, BootSteps
  <2>5. item[w].ip \in IPs /\ <<m, item[w].ip>> \in armed
    <3>1. item[w] \in Host /\ item[w].ip # Empty /\ item[w].reimage
          /\ Lower[item[w].mac] = m
      BY <1>1, <2>3 DEF DhcpHolds, TypeOK, DaemonOK
    <3> QED BY <1>1, <3>1 DEF Host, SnapshotsArmed, Pair
  <2>6. Held' = [Held EXCEPT ![m] = item[w].ip]
    <3>1. \A n \in Macs : /\ stage'[n] = IF n = m THEN "leased" ELSE stage[n]
                          /\ lease'[n] = IF n = m THEN item[w].ip ELSE lease[n]
      BY <1>4, <2>1, <2>3 DEF Lease, Waiting
    <3>2. "leased" \in Booting
      BY DEF Booting
    <3> QED BY <3>1, <3>2 DEF Held
  <2>7. Held[m] = Empty
    BY <2>4 DEF Held
  <2>8. Permit!Grant
    BY <1>1, <2>5, <2>6, <2>7 DEF Permit!Grant
  <2> QED BY <2>8 DEF Permit!Next
<1> QED BY <1>2, <1>3, <1>4 DEF Ack

\* Until its ACK a DHCP exchange gives a machine nothing to boot with.
LEMMA DhcpStep ==
  ASSUME ArmedInv, NEW w \in Workers, Dhcp(w) PROVE Permit!Next
<1> USE DEF ArmedInv
<1>1. CASE Ack(w)
  BY <1>1, AckGrants
<1>2. CASE ~Ack(w)
  <2>1. armed' = armed
    BY <1>2 DEF Dhcp, processDiscover, processRequest, Offer
  <2>2. \/ NotServed(w) \/ UNCHANGED machines
        \/ \E st \in {"offered", "netboot"} : \E ip : Lease(w, st, ip)
    BY <1>2 DEF Dhcp, processDiscover, processRequest, Offer
  <2>3. ASSUME NEW st \in {"offered", "netboot"}, NEW ip, Lease(w, st, ip)
        PROVE  NothingGranted
    BY <2>3 DEF Lease, Waiting, Booting, TypeOK, MachinesOK, NothingGranted
  <2>4. NothingGranted
    BY <2>2, <2>3, NotServedReleases, SameHeld
  <2> QED BY <2>1, <2>4, ReleaseStep DEF Permit!Next
<1> QED BY <1>1, <1>2

\* Boot files, the kickstart and post-config serve machines that hold their lease, or
\* have left the network boot.
LEMMA ServingStep ==
  ASSUME ArmedInv, NEW w \in Workers, BootFiles(w) \/ Ks(w) \/ Post(w) PROVE Permit!Next
<1> USE DEF ArmedInv
<1>1. armed' = armed
  BY DEF BootFiles, LoadBootHost, serveMboot, serveCrypto64, serveLoader, serveBootCfg,
         SendBootFile, Ks, KsLoad, KsClear, KsServe, SendKs, Post, PostConfig, PostConfigID,
         ProvisioningWorker
<1>2. CASE BootFiles(w)
  <2>1. pc[w] \in BootSteps \/ UNCHANGED machines
    BY <1>2 DEF BootFiles, LoadBootHost, serveMboot, serveCrypto64, serveLoader, serveBootCfg,
                SaveThen, SendBootFile, SendLoader, SendBootCfg, BootSteps
  <2>2. UNCHANGED machines \/ NotServed(w) \/ \E st : Served(w, st)
    BY <1>2 DEF BootFiles, LoadBootHost, serveMboot, serveCrypto64, serveLoader, serveBootCfg,
                SaveThen, SendBootFile, SendLoader, SendBootCfg
  <2>3. NothingGranted
    BY <2>1, <2>2, SameHeld, NotServedReleases, ServedReleases
  <2> QED BY <1>1, <2>3, ReleaseStep DEF Permit!Next
<1>3. CASE Ks(w)
  <2>1. pc[w] \in BootSteps
    BY <1>3 DEF Ks, KsLoad, KsClear, KsServe, SendKs, BootSteps
  <2>2. \A m \in Macs : wait[m] = w => stage[m] \in Booting
    BY <2>1, WorkerAssumption DEF WaitsForOwn, BootSteps, DhcpSteps
  <2>3. \/ UNCHANGED machines \/ NotServed(w)
        \/ /\ stage' = [m \in Macs |-> IF Waiting(w, m) THEN "installing" ELSE stage[m]]
           /\ lease' = lease
    BY <1>3 DEF Ks, KsLoad, KsClear, KsServe, SaveThen, SendKs
  <2>4. NothingGranted
    BY <2>2, <2>3, SameHeld, NotServedReleases DEF Waiting, NothingGranted
  <2> QED BY <1>1, <2>4, ReleaseStep DEF Permit!Next
<1>4. CASE Post(w)
  <2>1. UNCHANGED machines \/ Served(w, "disk")
    BY <1>4 DEF Post, PostConfig, PostConfigID, ProvisioningWorker
  <2>2. "disk" \notin Booting
    BY DEF Booting
  <2>3. NothingGranted
    BY <2>1, <2>2, SameHeld, ServedReleases
  <2> QED BY <1>1, <2>3, ReleaseStep DEF Permit!Next
<1> QED BY <1>2, <1>3, <1>4

\* The operator's saves arm at most one pair and touch no machine.
LEMMA OperatorStep ==
  ASSUME ArmedInv, NEW w \in Workers, HostApi(w) \/ GroupApi(w) \/ Command(w)
  PROVE  Permit!Next
<1> USE DEF ArmedInv
<1>1. UNCHANGED machines
  BY DEF HostApi, CreateHost, InsertHost, UpdateHost, SaveUpdatedHost, DeleteHost, GroupApi,
         CreateGroup, UpdateGroup, SaveUpdatedGroup, DeleteGroup, Command
<1>2. armed' = armed \/ armed' = armed \cup {Pair(item[w])}
  BY DEF HostApi, CreateHost, InsertHost, UpdateHost, SaveUpdatedHost, DeleteHost, GroupApi,
         CreateGroup, UpdateGroup, SaveUpdatedGroup, DeleteGroup, Command
<1>3. CASE armed' = armed
  BY <1>1, <1>3, SameHeld, ReleaseStep DEF Permit!Next
<1>4. CASE armed' = armed \cup {Pair(item[w])}
  <2>1. Pair(item[w]) \in Texts \X (IPs \cup {Empty})
    BY PairType DEF TypeOK, DaemonOK
  <2>2. Permit!Arm
    BY <1>1, <1>4, <2>1, SameHeld DEF Permit!Arm
  <2> QED BY <2>2 DEF Permit!Next
<1> QED BY <1>2, <1>3, <1>4

\* Machines, clients that give up and restarts of the daemon only release.
LEMMA EnvironmentStep ==
  ASSUME ArmedInv, (\E m \in Macs : Machine(m)) \/ Restart PROVE Permit!Next
<1> USE DEF ArmedInv
<1>1. armed' = armed
  BY DEF Machine, Installed, Reboot, Timeout, PowerCycle, Send, Restart
<1>2. NothingGranted
  BY DEF Machine, Installed, Reboot, Timeout, PowerCycle, Send, Restart, NothingGranted,
         TypeOK, MachinesOK, BootDisk, Booting
<1> QED BY <1>1, <1>2, ReleaseStep DEF Permit!Next

\* Every step of the daemon and its environment is an abstract step or a stutter.
LEMMA StepRefines ==
  ASSUME ArmedInv, [Next]_vars PROVE [Permit!Next]_Permit!permit
<1>1. CASE UNCHANGED vars
  BY <1>1 DEF vars, Permit!permit, Held
<1>2. CASE Next
  BY <1>2, DhcpStep, ServingStep, OperatorStep, EnvironmentStep DEF Next, Handle
<1> QED BY <1>1, <1>2

\* At start-up no machine holds an address, and what is armed are the flagged rows.
LEMMA InitRefines == Init => Permit!Init
<1> SUFFICES ASSUME Init PROVE Permit!Init
  OBVIOUS
<1>1. armed \subseteq Texts \X (IPs \cup {Empty})
  BY InitType DEF TypeOK
<1>2. Held = [m \in Macs |-> Empty]
  BY DEF Init, Held, Booting
<1> QED BY <1>1, <1>2 DEF Permit!Init, Permit!Idle

\* The provisioning path implements its abstract promise: machines network-boot only
\* with pairs an operator armed, one grant at a time, and never swap the address they
\* hold for another while they boot.
THEOREM RefinesPermit == Spec => ImplementsPermit
<1>1. ArmedInv /\ [Next]_vars => [Permit!Next]_Permit!permit
  BY StepRefines
<1> QED BY <1>1, InitRefines, AlwaysArmed, PTL DEF Spec, ImplementsPermit, Permit!Spec
=============================================================================
