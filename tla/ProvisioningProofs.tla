------------------------- MODULE ProvisioningProofs -------------------------
(***************************************************************************)
(* Proofs about Provisioning: type correctness and OnlyArmedInstall, for   *)
(* any set of machines, workers and operator commands, any initial tables, *)
(* with or without client timeouts and restarts of the daemon.             *)
(***************************************************************************)
EXTENDS Provisioning, TLAPS

-----------------------------------------------------------------------------
(* What the statements on the tables return                                *)

\* A query returns rows of the table it reads.
LEMMA FirstIsSubset ==
  ASSUME NEW S PROVE First(S) \subseteq S
BY DEF First

\* Preload("Group") yields a group, the zero one if the reference dangles.
LEMMA GroupsOfType ==
  ASSUME NEW gs, gs \subseteq Group, NEW h
  PROVE  GroupsOf(gs, h) \subseteq Group
<1>1. ByID(gs, h.group) \subseteq Group
  BY FirstIsSubset DEF ByID
<1>2. ZeroGroup \in Group
  BY DEF ZeroGroup, Group, BootMethods, KsTexts
<1> QED BY <1>1, <1>2 DEF GroupsOf

\* A write leaves a table of host rows, and the counter a positive number.
LEMMA SaveType ==
  ASSUME NEW t, t \subseteq Host, NEW next \in Nat \ {0}, NEW h \in Host
  PROVE  /\ Insert(t, next, h) \subseteq Host
         /\ Upsert(t, h) \subseteq Host
         /\ Save(t, next, h) \subseteq Host
         /\ NextID(t, next, h) \in Nat \ {0}
<1>1. [h EXCEPT !.id = next] \in Host
  BY DEF Host
<1>2. Insert(t, next, h) \subseteq Host
  BY <1>1 DEF Insert
<1>3. Upsert(t, h) \subseteq Host
  BY DEF Upsert
<1>4. NextID(t, next, h) \in Nat \ {0}
  BY DEF NextID
<1> QED BY <1>2, <1>3, <1>4 DEF Save

\* So does writing the preloaded group.
LEMMA SaveGroupType ==
  ASSUME NEW gs, gs \subseteq Group, NEW g \in Group
  PROVE  SaveGroup(gs, g) \subseteq Group
BY DEF SaveGroup

\* The zero values the code starts from are rows and requests.
LEMMA ZeroTypes ==
  /\ ZeroHost \in Host /\ ZeroGroup \in Group /\ NullRequest \in Request
BY DEF ZeroHost, Host, ZeroGroup, Group, NullRequest, Request, ZeroHostForm, HostForm,
       ZeroGroupForm, GroupForm, Texts, Progress, KsTexts, BootMethods

\* What the handlers build from a row and a form is a row.
LEMMA RowTypes ==
  /\ \A h \in Host : \A p \in Progress : [h EXCEPT !.progress = p] \in Host
  /\ \A h \in Host : Cleared(h) \in Host
  /\ \A f \in HostForm : NewHost(f) \in Host
  /\ \A h \in Host : \A f \in HostForm : Merge(h, f) \in Host
  /\ \A g \in Group : \A f \in GroupForm : MergeGroup(g, f) \in Group
<1>1. \A h \in Host : \A p \in Progress : [h EXCEPT !.progress = p] \in Host
  BY DEF Host
<1>2. \A h \in Host : Cleared(h) \in Host
  BY DEF Host, Cleared
<1>3. \A f \in HostForm : NewHost(f) \in Host
  BY MacAssumption DEF Host, HostForm, NewHost
<1>4. \A h \in Host : \A f \in HostForm : Merge(h, f) \in Host
  BY DEF Host, HostForm, Merge, Override
<1>5. \A g \in Group : \A f \in GroupForm : MergeGroup(g, f) \in Group
  BY DEF Group, GroupForm, MergeGroup, Override
<1> QED BY <1>1, <1>2, <1>3, <1>4, <1>5

\* A row's reservation is a pair of a mac text and an address.
LEMMA PairType ==
  ASSUME NEW h \in Host PROVE Pair(h) \in Texts \X (IPs \cup {Empty})
BY MacAssumption DEF Host, Pair

-----------------------------------------------------------------------------
(* What the parts of an action do to the types                             *)

\* Ending a handler, loading a snapshot and moving on keep the daemon's types.
LEMMA DaemonTypes ==
  ASSUME DaemonOK, NEW w \in Workers
  PROVE  /\ Done(w) => DaemonOK'
         /\ \A h \in Host, g \in Group, step \in Steps :
                Load(w, h, g) /\ Goto(w, step) => DaemonOK'
BY ZeroTypes DEF DaemonOK, Done, Goto, Load, Steps

\* An answer, of whatever kind, keeps the machines' types.
LEMMA AnswerTypes ==
  ASSUME MachinesOK, NEW w \in Workers
  PROVE  /\ NotServed(w) => MachinesOK'
         /\ \A st \in Stages : Served(w, st) => MachinesOK'
         /\ \A st \in Stages, ip \in IPs \cup {Empty} : Lease(w, st, ip) => MachinesOK'
<1>1. \A m \in Macs : BootDisk(m) \in Stages
  BY DEF BootDisk, Stages
<1> QED BY <1>1 DEF MachinesOK, NotServed, Served, Lease, AnswerTo

\* Saving a row keeps the tables' types.
LEMMA StoreTypes ==
  ASSUME StoreOK, DaemonOK, NEW w \in Workers, NEW h \in Host, SaveHost(w, h)
  PROVE  StoreOK'
<1>1. grp[w] \in Group
  BY DEF DaemonOK
<1> QED BY <1>1, SaveType, SaveGroupType DEF StoreOK, SaveHost

\* Saving the loaded row with a new progress, before the answer leaves.
LEMMA SaveThenTypes ==
  ASSUME StoreOK, DaemonOK, MachinesOK, NEW w \in Workers, NEW p \in Progress, NEW step \in Steps,
         SaveThen(w, [item[w] EXCEPT !.progress = p], step)
  PROVE  StoreOK' /\ DaemonOK' /\ MachinesOK'
<1>1. [item[w] EXCEPT !.progress = p] \in Host
  BY RowTypes DEF DaemonOK
<1>2. StoreOK'
  BY <1>1, StoreTypes DEF SaveThen
<1> QED BY <1>2 DEF SaveThen, Goto, machines, DaemonOK, MachinesOK

-----------------------------------------------------------------------------
(* Type correctness                                                        *)

\* The tables found at start-up, idle handlers and machines that are switched on.
LEMMA InitType == Init => TypeOK
<1> SUFFICES ASSUME Init PROVE TypeOK
  OBVIOUS
<1>1. StoreOK
  BY InitialRows, BoundAssumption DEF Init, StoreOK
<1>2. DaemonOK
  BY ZeroTypes DEF Init, DaemonOK, Steps
<1>3. MachinesOK
  BY DEF Init, MachinesOK, Stages, NoIdentity, Texts
<1>4. armed \subseteq Texts \X (IPs \cup {Empty})
  BY InitialRows, PairType DEF Init
<1> QED BY <1>1, <1>2, <1>3, <1>4 DEF TypeOK, Init

\* The DHCP handlers read the tables and answer.
LEMMA DhcpType ==
  ASSUME TypeOK, NEW w \in Workers, Dhcp(w) PROVE TypeOK'
<1> USE DEF TypeOK
<1>1. \A mac : findHostByMAC(mac) \subseteq Host
  BY FirstIsSubset DEF findHostByMAC, ByMac, StoreOK
<1>2. item[w] \in Host /\ item[w].ip \in IPs \cup {Empty}
  BY DEF DaemonOK, Host
<1>3. ZeroGroup \in Group /\ "offer" \in Steps /\ "ack" \in Steps
  BY ZeroTypes DEF Steps
<1>4. {"netboot", "offered", "leased"} \subseteq Stages
  BY DEF Stages
<1>5. CASE processDiscover(w)
  BY <1>1, <1>3, <1>5, DaemonTypes, AnswerTypes
  DEF processDiscover, store, machines, StoreOK, MachinesOK
<1>6. CASE processRequest(w)
  BY <1>1, <1>3, <1>4, <1>6, DaemonTypes, AnswerTypes
  DEF processRequest, store, machines, StoreOK, MachinesOK
<1>7. CASE Offer(w)
  BY <1>2, <1>4, <1>7, DaemonTypes, AnswerTypes DEF Offer, store, StoreOK
<1>8. CASE Ack(w)
  BY <1>2, <1>4, <1>8, DaemonTypes, AnswerTypes DEF Ack, store, StoreOK
<1> QED BY <1>5, <1>6, <1>7, <1>8 DEF Dhcp

\* The boot-file handlers write the loaded row back with a new progress.
LEMMA BootFilesType ==
  ASSUME TypeOK, NEW w \in Workers, BootFiles(w) PROVE TypeOK'
<1> USE DEF TypeOK
<1>1. {10, 12, 15} \subseteq Progress
  BY DEF Progress
<1>2. {"sendMboot", "sendCrypto64", "sendBootCfg"} \subseteq Steps
  BY DEF Steps
<1>3. {"loader", "verified", "configured"} \subseteq Stages
  BY DEF Stages
<1>4. CASE LoadBootHost(w)
  <2>1. ByIP(hosts, req[w].ip) \subseteq Host
    BY FirstIsSubset DEF ByIP, StoreOK
  <2>2. \A h : GroupsOf(groups, h) \subseteq Group
    BY GroupsOfType DEF StoreOK
  <2>3. \A f \in DOMAIN Files : Files[f] \in Steps
    BY DEF Files, Steps
  <2>4. DaemonOK'
    BY <1>4, <2>1, <2>2, <2>3, ZeroTypes, DaemonTypes DEF LoadBootHost
  <2> QED BY <1>4, <2>4 DEF LoadBootHost, store, machines, StoreOK, MachinesOK
<1>5. ASSUME NEW p \in Progress, NEW step, NEW send \in Steps, serveLoader(w, step, p, send)
      PROVE  TypeOK'
  <2>1. CASE SaveThen(w, [item[w] EXCEPT !.progress = p], send)
    BY <1>5, <2>1, SaveThenTypes DEF serveLoader
  <2>2. CASE Done(w) /\ NotServed(w) /\ UNCHANGED store
    BY <1>5, <2>2, DaemonTypes, AnswerTypes DEF serveLoader, store, StoreOK
  <2> QED BY <1>5, <2>1, <2>2 DEF serveLoader
<1>6. CASE serveMboot(w) \/ serveCrypto64(w)
  BY <1>1, <1>2, <1>5, <1>6 DEF serveMboot, serveCrypto64
<1>7. CASE serveBootCfg(w)
  BY <1>1, <1>2, <1>7, SaveThenTypes DEF serveBootCfg
<1>8. CASE SendBootFile(w)
  <2>1. NotServed(w) \/ \E st \in {"loader", "verified", "configured"} : Served(w, st)
    BY <1>8 DEF SendBootFile, SendLoader, SendBootCfg
  <2>2. MachinesOK'
    BY <1>3, <2>1, AnswerTypes
  <2> QED BY <1>8, <2>2, DaemonTypes DEF SendBootFile, store, StoreOK
<1> QED BY <1>4, <1>6, <1>7, <1>8 DEF BootFiles

\* The kickstart handler clears the flag and saves the row it loaded.
LEMMA KsType ==
  ASSUME TypeOK, NEW w \in Workers, Ks(w) PROVE TypeOK'
<1> USE DEF TypeOK
<1>1. item[w] \in Host /\ grp[w] \in Group
  BY DEF DaemonOK
<1>2. CASE KsLoad(w)
  <2>1. ByIP(hosts, req[w].ip) \subseteq Host
    BY FirstIsSubset DEF ByIP, StoreOK
  <2>2. \A h : GroupsOf(groups, h) \subseteq Group
    BY GroupsOfType DEF StoreOK
  <2>3. "ksClear" \in Steps
    BY DEF Steps
  <2> QED BY <1>2, <2>1, <2>2, <2>3, DaemonTypes, AnswerTypes
          DEF KsLoad, store, machines, StoreOK, MachinesOK
<1>3. CASE KsClear(w)
  <2>1. groups' \subseteq Group
    BY <1>1, <1>3, SaveGroupType DEF KsClear, StoreOK
  <2>2. hosts' \subseteq Host
    BY <1>3, RowTypes DEF KsClear, ClearReimage, StoreOK
  <2>3. StoreOK'
    BY <1>3, <2>1, <2>2 DEF KsClear, StoreOK
  <2>4. CASE ClearFails(hosts, req[w].ip, item[w].id)
    BY <1>3, <2>3, <2>4, DaemonTypes, AnswerTypes DEF KsClear
  <2>5. CASE ~ClearFails(hosts, req[w].ip, item[w].id)
    <3>1. Cleared(item[w]) \in Host /\ "ksServe" \in Steps
      BY <1>1, RowTypes DEF Steps
    <3>2. DaemonOK'
      BY <1>3, <2>5, <3>1 DEF KsClear, DaemonOK, Goto
    <3> QED BY <1>3, <2>3, <2>5, <3>2 DEF KsClear, machines, MachinesOK
  <2> QED BY <2>4, <2>5
<1>4. CASE KsServe(w)
  <2>1. 50 \in Progress /\ "sendKs" \in Steps
    BY DEF Progress, Steps
  <2>2. CASE Renders(item[w], grp[w])
    BY <1>4, <2>1, <2>2, SaveThenTypes DEF KsServe
  <2>3. CASE ~Renders(item[w], grp[w])
    BY <1>4, <2>3, DaemonTypes, AnswerTypes DEF KsServe, store, StoreOK
  <2> QED BY <2>2, <2>3
<1>5. CASE SendKs(w)
  <2>1. Identity(item[w]) \in [mac : Texts, ip : IPs \cup {Empty}]
    BY <1>1 DEF Identity, Host
  <2>2. MachinesOK'
    BY <1>5, <2>1 DEF SendKs, MachinesOK, AnswerTo, Stages
  <2> QED BY <1>5, <2>2, DaemonTypes DEF SendKs, store, StoreOK
<1> QED BY <1>2, <1>3, <1>4, <1>5 DEF Ks

\* Post-config answers, then the worker writes.
LEMMA PostType ==
  ASSUME TypeOK, NEW w \in Workers, Post(w) PROVE TypeOK'
<1> USE DEF TypeOK
<1>1. item[w] \in Host
  BY DEF DaemonOK
<1>2. /\ ByIP(hosts, req[w].ip) \subseteq Host
      /\ ByID(hosts, req[w].id) \subseteq Host
      /\ \A h : GroupsOf(groups, h) \subseteq Group
  BY FirstIsSubset, GroupsOfType DEF ByIP, ByID, StoreOK
<1>3. "provisioned" \in Steps /\ "disk" \in Stages
  BY DEF Steps, Stages
<1>4. CASE PostConfig(w)
  BY <1>2, <1>3, <1>4, DaemonTypes, AnswerTypes DEF PostConfig, store, StoreOK
<1>5. CASE PostConfigID(w)
  BY <1>2, <1>3, <1>5, DaemonTypes DEF PostConfigID, store, StoreOK, machines, MachinesOK
<1>6. CASE ProvisioningWorker(w)
  <2>1. [item[w] EXCEPT !.progress = 100] \in Host
    BY <1>1, RowTypes DEF Progress
  <2> QED BY <1>6, <2>1, DaemonTypes, StoreTypes DEF ProvisioningWorker, machines, MachinesOK
<1> QED BY <1>4, <1>5, <1>6 DEF Post

\* The operator's writes to the hosts table, which may arm a reservation.
LEMMA HostApiType ==
  ASSUME TypeOK, NEW w \in Workers, HostApi(w) PROVE TypeOK'
<1> USE DEF TypeOK
<1>1. item[w] \in Host /\ req[w].form \in HostForm
  BY DEF DaemonOK, Request
<1>2. ZeroGroup \in Group /\ "insertHost" \in Steps /\ "saveHost" \in Steps
  BY ZeroTypes DEF Steps
<1>3. CASE CreateHost(w)
  <2>1. NewHost(req[w].form) \in Host
    BY <1>1, RowTypes
  <2> QED BY <1>2, <1>3, <2>1, DaemonTypes
          DEF CreateHost, store, StoreOK, machines, MachinesOK
<1>4. CASE UpdateHost(w)
  <2>1. \A h \in ByID(hosts, req[w].id) : Merge(h, req[w].form) \in Host
    BY <1>1, RowTypes, FirstIsSubset DEF ByID, StoreOK
  <2> QED BY <1>2, <1>4, <2>1, DaemonTypes
          DEF UpdateHost, store, StoreOK, machines, MachinesOK
<1>5. CASE InsertHost(w)
  BY <1>1, <1>5, DaemonTypes, SaveType, PairType
  DEF InsertHost, StoreOK, machines, MachinesOK
<1>6. CASE SaveUpdatedHost(w)
  BY <1>1, <1>6, DaemonTypes, SaveType, PairType
  DEF SaveUpdatedHost, StoreOK, machines, MachinesOK
<1>7. CASE DeleteHost(w)
  BY <1>7, DaemonTypes DEF DeleteHost, DeleteByID, StoreOK, machines, MachinesOK
<1> QED BY <1>3, <1>4, <1>5, <1>6, <1>7 DEF HostApi

\* The operator's writes to the groups table.
LEMMA GroupApiType ==
  ASSUME TypeOK, NEW w \in Workers, GroupApi(w) PROVE TypeOK'
<1> USE DEF TypeOK
<1>1. grp[w] \in Group /\ req[w].gform \in GroupForm
  BY DEF DaemonOK, Request
<1>2. CASE CreateGroup(w)
  <2>1. [id |-> nextGroup, boot |-> req[w].gform.boot, net |-> req[w].gform.net,
         image |-> req[w].gform.image, ks |-> req[w].gform.ks] \in Group
    BY <1>1 DEF Group, GroupForm, StoreOK
  <2> QED BY <1>2, <2>1, DaemonTypes DEF CreateGroup, StoreOK, machines, MachinesOK
<1>3. CASE UpdateGroup(w)
  <2>1. \A g \in ByID(groups, req[w].id) : MergeGroup(g, req[w].gform) \in Group
    BY <1>1, RowTypes, FirstIsSubset DEF ByID, StoreOK
  <2>2. ZeroHost \in Host /\ "saveGroup" \in Steps
    BY ZeroTypes DEF Steps
  <2> QED BY <1>3, <2>1, <2>2, DaemonTypes
          DEF UpdateGroup, store, StoreOK, machines, MachinesOK
<1>4. CASE SaveUpdatedGroup(w)
  BY <1>1, <1>4, DaemonTypes DEF SaveUpdatedGroup, DeleteByID, StoreOK, machines, MachinesOK
<1>5. CASE DeleteGroup(w)
  BY <1>5, DaemonTypes DEF DeleteGroup, DeleteByID, StoreOK, machines, MachinesOK
<1> QED BY <1>2, <1>3, <1>4, <1>5 DEF GroupApi

\* The environment's own steps.
LEMMA EnvironmentType ==
  ASSUME TypeOK,
         (\E m \in Macs : Machine(m)) \/ (\E w \in Workers : Command(w)) \/ Restart
  PROVE  TypeOK'
<1> USE DEF TypeOK
<1>1. ASSUME NEW m \in Macs, Installed(m) \/ Reboot(m) \/ Timeout(m) \/ PowerCycle(m)
      PROVE  TypeOK'
  BY <1>1 DEF Installed, Reboot, Timeout, PowerCycle, BootDisk, Stages, store, daemon,
              StoreOK, DaemonOK, MachinesOK
<1>2. ASSUME NEW m \in Macs, NEW w \in Workers, Send(m, w)
      PROVE  TypeOK'
  <2>1. Asks(m) \in Steps
    BY DEF Asks, Steps
  <2>2. Address(m) \in IPs \cup {Empty}
    BY DEF Address, MachinesOK
  <2>3. [NullRequest EXCEPT !.from = m, !.ip = Address(m)] \in Request
    BY <2>2, ZeroTypes DEF Request
  <2>4. DaemonOK'
    BY <1>2, <2>1, <2>3 DEF Send, Goto, DaemonOK
  <2>5. MachinesOK'
    BY <1>2 DEF Send, MachinesOK
  <2> QED BY <1>2, <2>4, <2>5 DEF Send, store, StoreOK
<1>3. ASSUME NEW w \in Workers, Command(w)
      PROVE  TypeOK'
  <2>1. \A c \in Commands : c.op \in Steps /\ c.req \in Request
    BY CommandAssumption DEF OperatorSteps, Steps
  <2>2. DaemonOK'
    BY <1>3, <2>1 DEF Command, Goto, DaemonOK
  <2> QED BY <1>3, <2>2 DEF Command, store, machines, StoreOK, MachinesOK
<1>4. CASE Restart
  <2>1. DaemonOK'
    BY <1>4, ZeroTypes DEF Restart, DaemonOK, Steps
  <2>2. MachinesOK'
    BY <1>4 DEF Restart, MachinesOK, BootDisk, Stages
  <2> QED BY <1>4, <2>1, <2>2, FaultAssumption DEF Restart, store, StoreOK
<1> QED BY <1>1, <1>2, <1>3, <1>4 DEF Machine

\* Every action keeps the types.
LEMMA NextType == TypeOK /\ [Next]_vars => TypeOK'
<1> SUFFICES ASSUME TypeOK, [Next]_vars PROVE TypeOK'
  OBVIOUS
<1>1. CASE UNCHANGED vars
  BY <1>1 DEF vars, TypeOK, StoreOK, DaemonOK, MachinesOK
<1>2. CASE Next
  BY <1>2, DhcpType, BootFilesType, KsType, PostType, HostApiType, GroupApiType,
     EnvironmentType DEF Next, Handle
<1> QED BY <1>1, <1>2

\* Type correctness: on every behaviour, the tables, the handlers' snapshots and the
\* machines stay within the values the schema and the code allow.
THEOREM TypeCorrect == Spec => []TypeOK
BY InitType, NextType, PTL DEF Spec

-----------------------------------------------------------------------------
(* OnlyArmedInstall.  By itself it is not inductive: a lease is granted    *)
(* from a snapshot read earlier, and the boot handlers write whole rows    *)
(* back, flag included.  ArmedInv adds that flagged rows and flagged       *)
(* snapshots were armed, and who waits for which handler.                  *)

Justified(t, A) == \A r \in t : r.reimage => Pair(r) \in A

\* A handler writing back a snapshot arms nothing that was not armed before.
LEMMA SaveJustified ==
  ASSUME NEW t, t \subseteq Host, NEW A, Justified(t, A), NEW next \in Nat \ {0},
         NEW h \in Host, h.reimage => Pair(h) \in A
  PROVE  /\ Justified(Save(t, next, h), A)
         /\ Justified(Insert(t, next, h), A)
         /\ Justified(Upsert(t, h), A)
<1>1. /\ [h EXCEPT !.id = next].reimage = h.reimage
      /\ Pair([h EXCEPT !.id = next]) = Pair(h)
  BY DEF Host, Pair
<1>2. Justified(Insert(t, next, h), A)
  BY <1>1 DEF Justified, Insert
<1>3. Justified(Upsert(t, h), A)
  BY DEF Justified, Upsert
<1> QED BY <1>2, <1>3 DEF Save

\* The progress is no part of a reservation.
LEMMA ProgressKeepsPair ==
  ASSUME NEW h \in Host, NEW p
  PROVE  /\ [h EXCEPT !.progress = p].reimage = h.reimage
         /\ Pair([h EXCEPT !.progress = p]) = Pair(h)
BY DEF Host, Pair

\* SaveHost of a justified snapshot keeps the rows justified.
LEMMA SaveHostRows ==
  ASSUME TypeOK, RowsArmed, armed' = armed, NEW w \in Workers, NEW p \in Progress,
         item[w].reimage => Pair(item[w]) \in armed,
         SaveHost(w, [item[w] EXCEPT !.progress = p])
  PROVE  RowsArmed'
<1>1. item[w] \in Host
  BY DEF TypeOK, DaemonOK
<1>2. [item[w] EXCEPT !.progress = p] \in Host
  BY <1>1, RowTypes
<1>3. Justified(hosts', armed)
  BY <1>1, <1>2, ProgressKeepsPair, SaveJustified
  DEF SaveHost, RowsArmed, Justified, TypeOK, StoreOK
<1> QED BY <1>3 DEF RowsArmed, Justified

\* A handler that ends leaves no snapshot behind.
LEMMA DoneHolds ==
  ASSUME TypeOK, SnapshotsArmed, DhcpHolds, NEW w \in Workers, Done(w), armed \subseteq armed'
  PROVE  SnapshotsArmed' /\ DhcpHolds'
<1>1. \A v \in Workers \ {w} : pc'[v] = pc[v] /\ req'[v] = req[v] /\ item'[v] = item[v]
  BY DEF Done, Goto, TypeOK, DaemonOK
<1>2. pc'[w] = "idle" /\ item'[w] = ZeroHost /\ ~item'[w].reimage
  BY DEF Done, Goto, TypeOK, DaemonOK, ZeroHost
<1>3. SnapshotsArmed'
  BY <1>1, <1>2 DEF SnapshotsArmed
<1>4. DhcpHolds'
  BY <1>1, <1>2 DEF DhcpHolds, DhcpSteps
<1> QED BY <1>3, <1>4

\* Whoever waited for a worker that answers waits no more.
LEMMA AnswerWaits ==
  ASSUME TypeOK, WaitsForOwn, NEW w \in Workers, AnswerTo(w),
         \A v \in Workers \ {w} : pc'[v] = pc[v] /\ req'[v] = req[v],
         \A m \in Macs : wait[m] # w => stage'[m] = stage[m]
  PROVE  WaitsForOwn'
BY WorkerAssumption DEF TypeOK, MachinesOK, WaitsForOwn, AnswerTo, Waiting

\* A handler that ends is idle, and the other handlers' steps and requests stand.
LEMMA DoneAnswers ==
  ASSUME TypeOK, NEW w \in Workers, Done(w)
  PROVE  \A v \in Workers \ {w} : pc'[v] = pc[v] /\ req'[v] = req[v]
BY DEF Done, Goto, TypeOK, DaemonOK

\* A machine that is not served is not booting the installer.
LEMMA NotServedArmed ==
  ASSUME TypeOK, OnlyArmedInstall, armed \subseteq armed', NEW w \in Workers, NotServed(w)
  PROVE  /\ OnlyArmedInstall'
         /\ AnswerTo(w)
         /\ \A m \in Macs : wait[m] # w => stage'[m] = stage[m]
BY DEF TypeOK, MachinesOK, OnlyArmedInstall, NotServed, Waiting, BootDisk, Booting

\* A machine that is served a boot file was booting with the same lease already.
LEMMA ServedArmed ==
  ASSUME TypeOK, WaitsForOwn, OnlyArmedInstall, armed' = armed, NEW w \in Workers, NEW st,
         Served(w, st), pc[w] \in BootSteps \/ st \notin Booting
  PROVE  /\ OnlyArmedInstall'
         /\ AnswerTo(w)
         /\ \A m \in Macs : wait[m] # w => stage'[m] = stage[m]
<1>1. \A m \in Macs : wait[m] = w /\ pc[w] \in BootSteps => stage[m] \in Booting
  BY WorkerAssumption DEF WaitsForOwn, BootSteps, DhcpSteps
<1> QED BY <1>1 DEF TypeOK, MachinesOK, OnlyArmedInstall, Served, Waiting

\* A handler that only loads: its snapshot is a row, its client goes on waiting.
LEMMA LoadHolds ==
  ASSUME ArmedInv, NEW w \in Workers, NEW h \in Host, NEW g, NEW step \in Steps,
         Load(w, h, g), Goto(w, step), UNCHANGED <<machines, armed>>,
         step \notin {"insertHost", "saveHost"} => (h.reimage => Pair(h) \in armed),
         \/ pc[w] \in BootSteps /\ step \in BootSteps
         \/ pc[w] \notin BootSteps \cup DhcpSteps \cup {"postconfig"} /\ step \notin DhcpSteps
         \/ /\ pc[w] \in DhcpSteps /\ step \in {"offer", "ack"}
            /\ h.reimage /\ Lower[h.mac] = req[w].from
            /\ step = "ack" => h.ip # Empty
  PROVE  WaitsForOwn' /\ SnapshotsArmed' /\ DhcpHolds' /\ OnlyArmedInstall'
<1> USE DEF ArmedInv
<1>1. /\ \A v \in Workers \ {w} : pc'[v] = pc[v] /\ item'[v] = item[v]
      /\ pc'[w] = step /\ item'[w] = h /\ req' = req
  BY DEF Load, Goto, TypeOK, DaemonOK
<1>2. WaitsForOwn'
  BY <1>1, WorkerAssumption DEF WaitsForOwn, machines, TypeOK, MachinesOK, BootSteps, DhcpSteps
<1>3. SnapshotsArmed'
  BY <1>1 DEF SnapshotsArmed
<1>4. DhcpHolds'
  BY <1>1 DEF DhcpHolds, BootSteps, DhcpSteps
<1>5. OnlyArmedInstall'
  BY DEF OnlyArmedInstall, machines
<1> QED BY <1>2, <1>3, <1>4, <1>5

\* What a DHCP handler finds is a flagged, and so an armed, row of the asking mac.
LEMMA FoundByMac ==
  ASSUME TypeOK, RowsArmed, NEW mac \in Macs, NEW h \in findHostByMAC(mac)
  PROVE  h \in Host /\ h.reimage /\ Lower[h.mac] = mac /\ Pair(h) \in armed
<1>1. h \in hosts /\ Lower[h.mac] = Lower[mac] /\ h.reimage
  BY FirstIsSubset DEF findHostByMAC, ByMac
<1>2. Lower[mac] = mac
  BY MacAssumption
<1> QED BY <1>1, <1>2 DEF TypeOK, StoreOK, RowsArmed

\* Only here does a machine enter a booting stage: with the address of the flagged row
\* the handler holds, which RowsArmed and SnapshotsArmed say was armed.
LEMMA DhcpArmed ==
  ASSUME ArmedInv, NEW w \in Workers, Dhcp(w) PROVE ArmedInv'
<1> USE DEF ArmedInv
<1>1. TypeOK'
  BY DhcpType
<1>2. RowsArmed' /\ armed' = armed
  BY DEF Dhcp, processDiscover, processRequest, Offer, Ack, store, RowsArmed
<1>3. pc[w] \in DhcpSteps /\ req[w].from \in Macs
  BY DEF Dhcp, processDiscover, processRequest, Offer, Ack, DhcpHolds, DhcpSteps
<1>4. CASE Done(w) /\ NotServed(w)
  BY <1>1, <1>2, <1>4, DoneHolds, DoneAnswers, NotServedArmed, AnswerWaits
<1>5. CASE \E h \in findHostByMAC(req[w].from) :
             /\ Load(w, h, ZeroGroup) /\ UNCHANGED machines
             /\ \/ Goto(w, "offer")
                \/ Goto(w, "ack") /\ h.ip # Empty
  <2>1. PICK h \in findHostByMAC(req[w].from), step \in {"offer", "ack"} :
          /\ Load(w, h, ZeroGroup) /\ UNCHANGED machines /\ Goto(w, step)
          /\ step = "ack" => h.ip # Empty
    BY <1>5
  <2>2. h \in Host /\ h.reimage /\ Lower[h.mac] = req[w].from /\ Pair(h) \in armed
    BY <1>3, FoundByMac
  <2>3. step \in Steps
    BY DEF Steps
  <2>4. WaitsForOwn' /\ SnapshotsArmed' /\ DhcpHolds' /\ OnlyArmedInstall'
    BY <1>2, <1>3, <2>1, <2>2, <2>3, LoadHolds
  <2> QED BY <1>1, <1>2, <2>4
<1>6. CASE Done(w) /\ Lease(w, "netboot", Empty)
  <2>1. OnlyArmedInstall' /\ AnswerTo(w) /\ \A m \in Macs : wait[m] # w => stage'[m] = stage[m]
    BY <1>2, <1>6 DEF Lease, Waiting, OnlyArmedInstall, Booting, TypeOK, MachinesOK
  <2> QED BY <1>1, <1>2, <1>6, <2>1, DoneHolds, DoneAnswers, AnswerWaits
<1>7. CASE /\ pc[w] \in {"offer", "ack"} /\ Done(w)
           /\ \E st \in {"offered", "leased"} : Lease(w, st, item[w].ip)
  <2>1. Pair(item[w]) = <<req[w].from, item[w].ip>> /\ Pair(item[w]) \in armed
    BY <1>7 DEF DhcpHolds, SnapshotsArmed, Pair
  <2>2. \A m \in Macs : wait[m] = w => <<m, item[w].ip>> \in armed
    BY <2>1, WorkerAssumption DEF WaitsForOwn
  <2>3. OnlyArmedInstall' /\ AnswerTo(w) /\ \A m \in Macs : wait[m] # w => stage'[m] = stage[m]
    BY <1>2, <1>7, <2>2 DEF Lease, Waiting, OnlyArmedInstall, TypeOK, MachinesOK
  <2> QED BY <1>1, <1>2, <1>7, <2>3, DoneHolds, DoneAnswers, AnswerWaits
<1> QED BY <1>4, <1>5, <1>6, <1>7 DEF Dhcp, processDiscover, processRequest, Offer, Ack

\* A boot handler writes its armed snapshot back and keeps it while the answer leaves.
LEMMA SaveThenArmed ==
  ASSUME ArmedInv, TypeOK', armed' = armed, NEW w \in Workers, NEW p \in Progress,
         NEW step \in BootSteps, pc[w] \in BootSteps,
         SaveThen(w, [item[w] EXCEPT !.progress = p], step)
  PROVE  ArmedInv'
<1> USE DEF ArmedInv
<1>1. item[w] \in Host /\ (item[w].reimage => Pair(item[w]) \in armed)
  BY DEF TypeOK, DaemonOK, SnapshotsArmed, BootSteps
<1>2. RowsArmed'
  BY <1>1, SaveHostRows DEF SaveThen
<1>3. step \in Steps
  BY DEF BootSteps, Steps
<1>4. Load(w, item[w], grp[w]) /\ Goto(w, step) /\ UNCHANGED machines
  BY DEF SaveThen, Load, TypeOK, DaemonOK
<1>5. WaitsForOwn' /\ SnapshotsArmed' /\ DhcpHolds' /\ OnlyArmedInstall'
  BY <1>1, <1>3, <1>4, LoadHolds
<1> QED BY <1>2, <1>5

\* The boot-file handlers write back armed snapshots and move machines that already
\* hold an armed lease.
LEMMA BootFilesArmed ==
  ASSUME ArmedInv, NEW w \in Workers, BootFiles(w) PROVE ArmedInv'
<1> USE DEF ArmedInv
<1>1. TypeOK' /\ armed' = armed
  BY BootFilesType DEF BootFiles, LoadBootHost, serveMboot, serveCrypto64, serveLoader, serveBootCfg,
                       SendBootFile
<1>2. CASE LoadBootHost(w)
  <2>1. pc[w] \in BootSteps /\ Files[pc[w]] \in BootSteps \cap Steps
    BY <1>2 DEF LoadBootHost, Files, BootSteps, Steps
  <2>2. PICK h, g : h \in ByIP(hosts, req[w].ip) \cup {ZeroHost} /\ Load(w, h, g)
    BY <1>2 DEF LoadBootHost
  <2>3. h \in Host /\ (h.reimage => Pair(h) \in armed)
    <3>1. h \in hosts \/ h = ZeroHost
      BY <2>2, FirstIsSubset DEF ByIP
    <3>2. ~ZeroHost.reimage
      BY DEF ZeroHost
    <3> QED BY <3>1, <3>2, ZeroTypes DEF TypeOK, StoreOK, RowsArmed
  <2>4. WaitsForOwn' /\ SnapshotsArmed' /\ DhcpHolds' /\ OnlyArmedInstall'
    BY <1>1, <1>2, <2>1, <2>2, <2>3, LoadHolds DEF LoadBootHost
  <2> QED BY <1>1, <1>2, <2>4 DEF LoadBootHost, store, RowsArmed
<1>3. ASSUME pc[w] \in BootSteps, Done(w), UNCHANGED store,
             NotServed(w) \/ \E st \in Stages : Served(w, st)
      PROVE  ArmedInv'
  <2>1. RowsArmed'
    BY <1>1, <1>3 DEF store, RowsArmed
  <2>2. OnlyArmedInstall' /\ AnswerTo(w) /\ \A m \in Macs : wait[m] # w => stage'[m] = stage[m]
    BY <1>1, <1>3, NotServedArmed, ServedArmed
  <2> QED BY <1>1, <1>3, <2>1, <2>2, DoneHolds, DoneAnswers, AnswerWaits
<1>4. /\ {10, 12, 15} \subseteq Progress /\ {"loader", "verified", "configured"} \subseteq Stages
      /\ {"sendMboot", "sendCrypto64", "sendBootCfg"} \subseteq BootSteps
  BY DEF Progress, Stages, BootSteps
<1>5. ASSUME NEW p \in Progress, NEW step \in BootSteps, NEW send \in BootSteps,
             serveLoader(w, step, p, send)
      PROVE  ArmedInv'
  <2>1. CASE SaveThen(w, [item[w] EXCEPT !.progress = p], send)
    BY <1>1, <1>5, <2>1, SaveThenArmed DEF serveLoader
  <2>2. CASE Done(w) /\ NotServed(w) /\ UNCHANGED store
    BY <1>3, <1>5, <2>2 DEF serveLoader
  <2> QED BY <1>5, <2>1, <2>2 DEF serveLoader
<1>6. CASE serveMboot(w) \/ serveCrypto64(w)
  <2>1. "serveMboot" \in BootSteps /\ "serveCrypto64" \in BootSteps
    BY DEF BootSteps
  <2> QED BY <1>4, <1>5, <1>6, <2>1 DEF serveMboot, serveCrypto64
<1>7. CASE serveBootCfg(w)
  <2>1. pc[w] \in BootSteps /\ SaveThen(w, [item[w] EXCEPT !.progress = 15], "sendBootCfg")
    BY <1>7 DEF serveBootCfg, BootSteps
  <2> QED BY <1>1, <1>4, <2>1, SaveThenArmed
<1>8. CASE SendBootFile(w)
  <2>1. NotServed(w) \/ \E st \in {"loader", "verified", "configured"} : Served(w, st)
    BY <1>8 DEF SendBootFile, SendLoader, SendBootCfg
  <2>2. pc[w] \in BootSteps
    BY <1>8 DEF SendBootFile, SendLoader, SendBootCfg, BootSteps
  <2> QED BY <1>3, <1>4, <1>8, <2>1, <2>2 DEF SendBootFile
<1> QED BY <1>2, <1>6, <1>7, <1>8 DEF BootFiles

\* The kickstart handler takes flags down, and starts the installer on a machine that
\* already holds an armed lease.
LEMMA KsArmed ==
  ASSUME ArmedInv, NEW w \in Workers, Ks(w) PROVE ArmedInv'
<1> USE DEF ArmedInv
<1>1. TypeOK' /\ armed' = armed
  BY KsType DEF Ks, KsLoad, KsClear, KsServe, SendKs
<1>2. pc[w] \in BootSteps
  BY DEF Ks, KsLoad, KsClear, KsServe, SendKs, BootSteps
<1>3. item[w] \in Host /\ (item[w].reimage => Pair(item[w]) \in armed)
  BY <1>2 DEF TypeOK, DaemonOK, SnapshotsArmed, BootSteps
<1>4. RowsArmed'
  <2>1. CASE UNCHANGED hosts
    BY <1>1, <2>1 DEF RowsArmed
  <2>2. CASE hosts' = ClearReimage(hosts, req[w].ip, item[w].id)
    <3>1. \A r \in hosts : ~Cleared(r).reimage
      BY DEF Cleared, TypeOK, StoreOK, Host
    <3> QED BY <1>1, <2>2, <3>1 DEF ClearReimage, RowsArmed
  <2>3. CASE SaveHost(w, [item[w] EXCEPT !.progress = 50])
    BY <1>1, <1>3, <2>3, SaveHostRows DEF Progress
  <2> QED BY <2>1, <2>2, <2>3 DEF Ks, KsLoad, KsClear, KsServe, SaveThen, SendKs, store
<1>5. CASE Done(w) /\ NotServed(w)
  BY <1>1, <1>5, <1>4, DoneHolds, DoneAnswers, NotServedArmed, AnswerWaits
<1>6. CASE KsLoad(w) /\ ~(Done(w) /\ NotServed(w))
  <2>1. PICK h, g : h \in ByIP(hosts, req[w].ip) /\ Load(w, h, g) /\ Goto(w, "ksClear")
    BY <1>6 DEF KsLoad
  <2>2. h \in Host /\ (h.reimage => Pair(h) \in armed)
    BY <2>1, FirstIsSubset DEF ByIP, TypeOK, StoreOK, RowsArmed
  <2>3. "ksClear" \in BootSteps \cap Steps
    BY DEF BootSteps, Steps
  <2>4. WaitsForOwn' /\ SnapshotsArmed' /\ DhcpHolds' /\ OnlyArmedInstall'
    BY <1>1, <1>2, <1>6, <2>1, <2>2, <2>3, LoadHolds DEF KsLoad
  <2> QED BY <1>1, <1>4, <2>4
<1>7. CASE KsClear(w) /\ ~(Done(w) /\ NotServed(w))
  <2>1. /\ hosts' = ClearReimage(hosts, req[w].ip, item[w].id)
        /\ item' = [item EXCEPT ![w] = Cleared(item[w])]
        /\ Goto(w, "ksServe") /\ UNCHANGED <<req, grp, machines>>
    BY <1>7 DEF KsClear
  <2>3. /\ Load(w, Cleared(item[w]), grp[w])
        /\ Cleared(item[w]) \in Host /\ ~Cleared(item[w]).reimage
    BY <1>3, <2>1, RowTypes DEF Load, Cleared, TypeOK, DaemonOK, Host
  <2>4. "ksServe" \in BootSteps \cap Steps
    BY DEF BootSteps, Steps
  <2>5. WaitsForOwn' /\ SnapshotsArmed' /\ DhcpHolds' /\ OnlyArmedInstall'
    BY <1>1, <1>2, <2>1, <2>3, <2>4, LoadHolds
  <2> QED BY <1>1, <1>4, <2>5
<1>8. CASE KsServe(w) /\ ~(Done(w) /\ NotServed(w))
  <2>1. SaveThen(w, [item[w] EXCEPT !.progress = 50], "sendKs")
    BY <1>8 DEF KsServe
  <2>2. 50 \in Progress /\ "sendKs" \in BootSteps
    BY DEF Progress, BootSteps
  <2> QED BY <1>1, <1>2, <2>1, <2>2, SaveThenArmed
<1>9. CASE SendKs(w)
  <2>1. Done(w) /\ AnswerTo(w)
    BY <1>9 DEF SendKs
  <2>2. \A m \in Macs : wait[m] = w => stage[m] \in Booting
    BY <1>2, WorkerAssumption DEF WaitsForOwn, BootSteps, DhcpSteps
  <2>3. OnlyArmedInstall' /\ \A m \in Macs : wait[m] # w => stage'[m] = stage[m]
    BY <1>1, <1>9, <2>2 DEF SendKs, Waiting, OnlyArmedInstall, TypeOK, MachinesOK
  <2> QED BY <1>1, <1>4, <2>1, <2>3, DoneHolds, DoneAnswers, AnswerWaits
<1> QED BY <1>5, <1>6, <1>7, <1>8, <1>9 DEF Ks

\* A step of a handler no machine waits for leaves the machines' side alone.
LEMMA Unwatched ==
  ASSUME ArmedInv, NEW w \in Workers, pc[w] \notin DhcpSteps \cup BootSteps \cup {"postconfig"},
         UNCHANGED machines, armed \subseteq armed', Done(w)
  PROVE  WaitsForOwn' /\ SnapshotsArmed' /\ DhcpHolds' /\ OnlyArmedInstall'
<1> USE DEF ArmedInv
<1>1. \A m \in Macs : wait[m] # w
  BY WorkerAssumption DEF WaitsForOwn
<1>2. WaitsForOwn'
  BY <1>1, DoneAnswers, WorkerAssumption DEF WaitsForOwn, machines, TypeOK, MachinesOK
<1>3. OnlyArmedInstall'
  BY DEF OnlyArmedInstall, machines
<1> QED BY <1>2, <1>3, DoneHolds

\* Post-config answers a machine that has left the network boot, and writes back an
\* armed snapshot.
LEMMA PostArmed ==
  ASSUME ArmedInv, NEW w \in Workers, Post(w) PROVE ArmedInv'
<1> USE DEF ArmedInv
<1>1. TypeOK' /\ armed' = armed
  BY PostType DEF Post, PostConfig, PostConfigID, ProvisioningWorker
<1>2. \A h \in ByIP(hosts, req[w].ip) \cup ByID(hosts, req[w].id) :
        h \in Host /\ (h.reimage => Pair(h) \in armed)
  BY FirstIsSubset DEF ByIP, ByID, TypeOK, StoreOK, RowsArmed
<1>3. "provisioned" \in Steps /\ "provisioned" \notin BootSteps \cup DhcpSteps
  BY DEF Steps, BootSteps, DhcpSteps
<1>4. CASE PostConfig(w)
  <2>1. RowsArmed'
    BY <1>1, <1>4 DEF PostConfig, store, RowsArmed
  <2>2. \A v \in Workers \ {w} : pc'[v] = pc[v] /\ req'[v] = req[v] /\ item'[v] = item[v]
    BY <1>4 DEF PostConfig, Done, Load, Goto, TypeOK, DaemonOK
  <2>3. OnlyArmedInstall' /\ AnswerTo(w) /\ \A m \in Macs : wait[m] # w => stage'[m] = stage[m]
    BY <1>1, <1>4, ServedArmed DEF PostConfig, Booting
  <2>4. SnapshotsArmed' /\ DhcpHolds'
    <3>1. CASE Done(w)
      BY <1>1, <3>1, DoneHolds
    <3>2. CASE ~Done(w)
      <4>1. PICK h, g : h \in ByIP(hosts, req[w].ip) /\ Load(w, h, g) /\ Goto(w, "provisioned")
        BY <1>4, <3>2 DEF PostConfig
      <4>2. pc'[w] = "provisioned" /\ item'[w] = h
        BY <4>1 DEF Load, Goto, TypeOK, DaemonOK
      <4> QED BY <1>1, <1>2, <1>3, <2>2, <4>1, <4>2 DEF SnapshotsArmed, DhcpHolds
    <3> QED BY <3>1, <3>2
  <2> QED BY <1>1, <2>1, <2>2, <2>3, <2>4, AnswerWaits
<1>5. CASE PostConfigID(w)
  <2>1. RowsArmed' /\ pc[w] \notin DhcpSteps \cup BootSteps \cup {"postconfig"}
    BY <1>1, <1>5 DEF PostConfigID, store, RowsArmed, DhcpSteps, BootSteps
  <2>2. CASE Done(w)
    BY <1>1, <1>5, <2>1, <2>2, Unwatched DEF PostConfigID
  <2>3. CASE ~Done(w)
    <3>1. PICK h, g : h \in ByID(hosts, req[w].id) /\ Load(w, h, g) /\ Goto(w, "provisioned")
      BY <1>5, <2>3 DEF PostConfigID
    <3>2. WaitsForOwn' /\ SnapshotsArmed' /\ DhcpHolds' /\ OnlyArmedInstall'
      BY <1>1, <1>2, <1>3, <1>5, <2>1, <3>1, LoadHolds DEF PostConfigID
    <3> QED BY <1>1, <2>1, <3>2
  <2> QED BY <2>2, <2>3
<1>6. CASE ProvisioningWorker(w)
  <2>1. pc[w] = "provisioned" /\ (item[w].reimage => Pair(item[w]) \in armed)
    BY <1>6 DEF ProvisioningWorker, SnapshotsArmed
  <2>2. RowsArmed'
    BY <1>1, <1>6, <2>1, SaveHostRows DEF ProvisioningWorker, Progress
  <2> QED BY <1>1, <1>3, <1>6, <2>1, <2>2, Unwatched DEF ProvisioningWorker
<1> QED BY <1>4, <1>5, <1>6 DEF Post

\* The operator's writes are the only ones that may raise a flag, and they record it.
LEMMA HostApiArmed ==
  ASSUME ArmedInv, NEW w \in Workers, HostApi(w) PROVE ArmedInv'
<1> USE DEF ArmedInv
<1>1. TypeOK' /\ item[w] \in Host
  BY HostApiType DEF TypeOK, DaemonOK
<1>2. pc[w] \notin DhcpSteps \cup BootSteps \cup {"postconfig"} /\ UNCHANGED machines
  BY DEF HostApi, CreateHost, InsertHost, UpdateHost, SaveUpdatedHost, DeleteHost,
         DhcpSteps, BootSteps
<1>3. armed \subseteq armed'
  BY DEF HostApi, CreateHost, InsertHost, UpdateHost, SaveUpdatedHost, DeleteHost
<1>4. RowsArmed'
  <2>1. CASE CreateHost(w) \/ UpdateHost(w) \/ DeleteHost(w)
    BY <2>1 DEF CreateHost, UpdateHost, DeleteHost, DeleteByID, store, RowsArmed
  <2>2. CASE InsertHost(w)
    <3>1. Justified(hosts, armed')
      BY <1>3 DEF RowsArmed, Justified
    <3>2. CASE CanInsert(hosts, nextHost, item[w])
      BY <1>1, <2>2, <3>1, <3>2, SaveJustified
      DEF InsertHost, RowsArmed, Justified, TypeOK, StoreOK
    <3>3. CASE ~CanInsert(hosts, nextHost, item[w])
      BY <2>2, <3>1, <3>3 DEF InsertHost, Insert, RowsArmed, Justified
    <3> QED BY <3>2, <3>3
  <2>3. CASE SaveUpdatedHost(w)
    <3>1. Justified(hosts, armed')
      BY <1>3 DEF RowsArmed, Justified
    <3>2. CASE ~item[w].reimage \/ ~Clash(hosts, item[w])
      <4>1. item[w].reimage => Pair(item[w]) \in armed'
        BY <2>3, <3>2 DEF SaveUpdatedHost
      <4> QED BY <1>1, <2>3, <3>1, <4>1, SaveJustified
              DEF SaveUpdatedHost, RowsArmed, Justified, TypeOK, StoreOK
    <3>3. CASE Clash(hosts, item[w])
      BY <2>3, <3>1, <3>3 DEF SaveUpdatedHost, Upsert, RowsArmed, Justified
    <3> QED BY <3>2, <3>3
  <2> QED BY <2>1, <2>2, <2>3 DEF HostApi
<1>5. CASE Done(w)
  BY <1>1, <1>2, <1>3, <1>4, <1>5, Unwatched
<1>6. CASE ~Done(w)
  <2>1. PICK h \in Host, step \in {"insertHost", "saveHost"} :
          Load(w, h, ZeroGroup) /\ Goto(w, step) /\ armed' = armed
    <3>1. req[w].form \in HostForm
      BY DEF TypeOK, DaemonOK, Request
    <3>2. NewHost(req[w].form) \in Host
      BY <3>1, RowTypes
    <3>3. \A h \in ByID(hosts, req[w].id) : Merge(h, req[w].form) \in Host
      BY <3>1, RowTypes, FirstIsSubset DEF ByID, TypeOK, StoreOK
    <3> QED BY <1>6, <3>2, <3>3
            DEF HostApi, CreateHost, InsertHost, UpdateHost, SaveUpdatedHost, DeleteHost
  <2>2. step \in Steps /\ step \notin DhcpSteps
    BY DEF Steps, DhcpSteps
  <2>3. WaitsForOwn' /\ SnapshotsArmed' /\ DhcpHolds' /\ OnlyArmedInstall'
    BY <1>2, <2>1, <2>2, LoadHolds
  <2> QED BY <1>1, <1>4, <2>3
<1> QED BY <1>5, <1>6

\* The groups carry no reservation.
LEMMA GroupApiArmed ==
  ASSUME ArmedInv, NEW w \in Workers, GroupApi(w) PROVE ArmedInv'
<1> USE DEF ArmedInv
<1>1. TypeOK'
  BY GroupApiType
<1>2. /\ pc[w] \notin DhcpSteps \cup BootSteps \cup {"postconfig"}
      /\ UNCHANGED <<hosts, machines, armed>>
  BY DEF GroupApi, CreateGroup, UpdateGroup, SaveUpdatedGroup, DeleteGroup, store,
         DhcpSteps, BootSteps
<1>3. RowsArmed'
  BY <1>2 DEF RowsArmed
<1>4. CASE Done(w)
  BY <1>1, <1>2, <1>3, <1>4, Unwatched
<1>5. CASE ~Done(w)
  <2>1. PICK g : Load(w, ZeroHost, g) /\ Goto(w, "saveGroup")
    BY <1>5 DEF GroupApi, CreateGroup, UpdateGroup, SaveUpdatedGroup, DeleteGroup
  <2>2. "saveGroup" \in Steps /\ "saveGroup" \notin DhcpSteps /\ ~ZeroHost.reimage
    BY DEF Steps, DhcpSteps, ZeroHost
  <2>3. WaitsForOwn' /\ SnapshotsArmed' /\ DhcpHolds' /\ OnlyArmedInstall'
    BY <1>2, <2>1, <2>2, ZeroTypes, LoadHolds
  <2> QED BY <1>1, <1>3, <2>3
<1> QED BY <1>4, <1>5

\* Machines, clients that give up and restarts of the daemon grant no lease.
LEMMA EnvironmentArmed ==
  ASSUME ArmedInv,
         (\E m \in Macs : Machine(m)) \/ (\E w \in Workers : Command(w)) \/ Restart
  PROVE  ArmedInv'
<1> USE DEF ArmedInv
<1>1. TypeOK'
  BY EnvironmentType
<1>2. RowsArmed' /\ armed' = armed
  BY DEF Machine, Installed, Reboot, Timeout, PowerCycle, Send, Command, Restart, store,
         RowsArmed
<1>3. ASSUME NEW m \in Macs, Installed(m) \/ Reboot(m) \/ Timeout(m) \/ PowerCycle(m)
      PROVE  ArmedInv'
  <2>1. SnapshotsArmed' /\ DhcpHolds'
    BY <1>2, <1>3 DEF Installed, Reboot, Timeout, PowerCycle, daemon, SnapshotsArmed, DhcpHolds
  <2>2. wait'[m] = None /\ stage'[m] \in {stage[m], "netboot", "disk"}
    BY <1>3 DEF Installed, Reboot, Timeout, PowerCycle, BootDisk, WaitsForOwn, TypeOK, MachinesOK
  <2>3. \A n \in Macs \ {m} : wait'[n] = wait[n] /\ stage'[n] = stage[n]
    BY <1>3 DEF Installed, Reboot, Timeout, PowerCycle, TypeOK, MachinesOK
  <2>4. pc' = pc /\ req' = req /\ lease' = lease
    BY <1>3 DEF Installed, Reboot, Timeout, PowerCycle, daemon
  <2>5. WaitsForOwn'
    BY <2>2, <2>3, <2>4 DEF WaitsForOwn
  <2>6. OnlyArmedInstall'
    BY <1>2, <2>2, <2>3, <2>4 DEF OnlyArmedInstall, Booting
  <2> QED BY <1>1, <1>2, <2>1, <2>5, <2>6
<1>4. ASSUME NEW m \in Macs, NEW w \in Workers, Send(m, w)
      PROVE  ArmedInv'
  <2>1. /\ \A v \in Workers \ {w} : pc'[v] = pc[v] /\ req'[v] = req[v]
        /\ pc'[w] = Asks(m) /\ req'[w].from = m /\ item' = item /\ pc[w] = "idle"
        /\ wait'[m] = w /\ \A n \in Macs \ {m} : wait'[n] = wait[n]
        /\ stage' = stage /\ lease' = lease
    BY <1>4 DEF Send, Goto, NullRequest, TypeOK, DaemonOK, MachinesOK
  <2>2. \A n \in Macs : wait[n] # w
    BY <2>1, WorkerAssumption DEF WaitsForOwn, DhcpSteps, BootSteps
  <2>3. /\ stage[m] # "installing"
        /\ \/ Asks(m) \in DhcpSteps \ {"offer", "ack"} /\ stage[m] \notin Booting
           \/ Asks(m) \in BootSteps /\ stage[m] \in Booting
           \/ Asks(m) = "postconfig" /\ stage[m] = "disk"
    <3>1. stage[m] \in Stages /\ Asks(m) # "idle"
      BY <1>4 DEF Send, TypeOK, MachinesOK
    <3> QED BY <3>1 DEF Asks, Stages, DhcpSteps, BootSteps, Booting
  <2>4. WaitsForOwn'
    BY <2>1, <2>2, <2>3 DEF WaitsForOwn, TypeOK, MachinesOK
  <2>5. SnapshotsArmed'
    BY <1>2, <2>1 DEF SnapshotsArmed
  <2>6. DhcpHolds'
    BY <2>1, <2>3 DEF DhcpHolds, BootSteps, DhcpSteps
  <2>7. OnlyArmedInstall'
    BY <1>2, <2>1 DEF OnlyArmedInstall
  <2> QED BY <1>1, <1>2, <2>4, <2>5, <2>6, <2>7
<1>5. ASSUME NEW w \in Workers, Command(w)
      PROVE  ArmedInv'
  <2>1. /\ \A v \in Workers \ {w} : pc'[v] = pc[v] /\ req'[v] = req[v]
        /\ pc'[w] \in OperatorSteps /\ pc[w] = "idle" /\ item' = item /\ UNCHANGED machines
    BY <1>5, CommandAssumption DEF Command, Goto, TypeOK, DaemonOK
  <2>2. \A n \in Macs : wait[n] # w
    BY <2>1, WorkerAssumption DEF WaitsForOwn, DhcpSteps, BootSteps
  <2>3. WaitsForOwn'
    BY <2>1, <2>2 DEF WaitsForOwn, machines, TypeOK, MachinesOK
  <2>4. SnapshotsArmed'
    BY <1>2, <2>1 DEF SnapshotsArmed
  <2>5. DhcpHolds'
    BY <2>1 DEF DhcpHolds, OperatorSteps, DhcpSteps
  <2>6. OnlyArmedInstall'
    BY <1>2, <2>1 DEF OnlyArmedInstall, machines
  <2> QED BY <1>1, <1>2, <2>3, <2>4, <2>5, <2>6
<1>6. CASE Restart
  <2>1. WaitsForOwn'
    BY <1>6 DEF Restart, WaitsForOwn
  <2>2. SnapshotsArmed'
    BY <1>6 DEF Restart, SnapshotsArmed, ZeroHost
  <2>3. DhcpHolds'
    BY <1>6 DEF Restart, DhcpHolds, DhcpSteps
  <2>4. OnlyArmedInstall'
    BY <1>2, <1>6 DEF Restart, OnlyArmedInstall, BootDisk, Booting, TypeOK, MachinesOK
  <2> QED BY <1>1, <1>2, <2>1, <2>2, <2>3, <2>4
<1> QED BY <1>3, <1>4, <1>5, <1>6 DEF Machine

\* No machine boots yet, and the rows flagged at start-up count as armed.
LEMMA InitArmed == Init => ArmedInv
<1> SUFFICES ASSUME Init PROVE ArmedInv
  OBVIOUS
<1>1. TypeOK
  BY InitType
<1>2. WaitsForOwn
  BY DEF Init, WaitsForOwn
<1>3. RowsArmed
  BY DEF Init, RowsArmed
<1>4. SnapshotsArmed
  BY DEF Init, SnapshotsArmed, ZeroHost
<1>5. DhcpHolds
  BY DEF Init, DhcpHolds, DhcpSteps
<1>6. OnlyArmedInstall
  BY DEF Init, OnlyArmedInstall, Booting
<1> QED BY <1>1, <1>2, <1>3, <1>4, <1>5, <1>6 DEF ArmedInv

\* The invariant is inductive.
LEMMA NextArmed == ArmedInv /\ [Next]_vars => ArmedInv'
<1> SUFFICES ASSUME ArmedInv, [Next]_vars PROVE ArmedInv'
  OBVIOUS
<1>1. CASE UNCHANGED vars
  BY <1>1 DEF vars, ArmedInv, TypeOK, StoreOK, DaemonOK, MachinesOK, WaitsForOwn, RowsArmed,
              SnapshotsArmed, DhcpHolds, OnlyArmedInstall
<1>2. CASE Next
  BY <1>2, DhcpArmed, BootFilesArmed, KsArmed, PostArmed, HostApiArmed, GroupApiArmed,
     EnvironmentArmed DEF Next, Handle
<1> QED BY <1>1, <1>2

\* The inductive invariant behind the theorem below.
LEMMA AlwaysArmed == Spec => []ArmedInv
BY InitArmed, NextArmed, PTL DEF Spec

\* The main safety theorem: whatever handlers, retries, restarts and API writes do to
\* each other, no machine gets past DHCP, and none reaches the installer, with an
\* address that an operator did not reserve for its mac and flag for re-imaging.
THEOREM InstallsOnlyArmed == Spec => []OnlyArmedInstall
<1>1. ArmedInv => OnlyArmedInstall
  BY DEF ArmedInv
<1> QED BY <1>1, AlwaysArmed, PTL
=============================================================================
