# A TLA+ model of go-via

go-via is an appliance that installs VMware ESXi hosts over the network. An operator
registers hosts (a mac, a reserved address, a group) and flags them for re-imaging; the
daemon answers their DHCP requests, serves the boot loader and `boot.cfg` over TFTP or
HTTP(S), hands out a kickstart, and records how far each host has come. This directory
models the daemon and its clients in TLA+, checks the models with TLC and proves the
most important properties with TLAPS.

## The system: components, state, interactions

| Component | State it keeps | Operations | Talks to |
|---|---|---|---|
| DHCP server (`internal/dhcp`) | none of its own | DISCOVER, REQUEST | reads hosts and groups |
| Boot files (`internal/tftp`, `internal/server/uefi.go`) | none | mboot.efi, crypto64.efi, boot.cfg | reads a host by source address, saves the whole row |
| Kickstart (`internal/api/ks.go`) | none | ks.cfg | clears `reimage`, renders, saves the whole row |
| Post-config (`internal/api/postconfig.go`) | a goroutine per report | report by address, report by id | answers, then saves the row in the background |
| Hosts and groups API (`internal/api`) | none | create, update, delete | the tables |
| Store (`internal/store`, `internal/model`) | SQLite tables | gorm statements, no transactions | all of the above |
| Sessions (`internal/auth`) | map token -> user, expiry | Create, Lookup, Destroy, DestroyUser | login, middleware, users API |
| Throttle (`internal/auth`) | map key -> failures | Allowed, Fail, Succeed | login, middleware |
| Login, middleware, users API | none | login, logout, user CRUD | users table, sessions, throttle |
| Live log (`internal/websockets`) | history of 50, subscribers with queues of 16 | Fire, subscribe | logrus |
| Images (`internal/api/image.go`) | images table, directories | upload, extract, update, delete | groups name an image |
| Start-up (`cmd/go-via`, `internal/secrets`, `internal/crypto`) | key file, certificate files | migrate, seed admin, create key and certificates, listen | everything |
| Pure code (`internal/netutil`, `internal/boot`) | none | address arithmetic, boot.cfg rewriting | DHCP, boot files, hosts API |
| Stored options (`internal/model/option.go`, `device_class.go`) | two tables | create, update, delete, encode | nothing: see "Not modelled" |

What is hard: every request runs in a goroutine of its own, every statement commits on
its own (`SkipDefaultTransaction`), and most handlers load a row, do something slow, and
save the *whole* row. Clients retry. The daemon can die between any two statements, and
some of its own error paths end the process. Hosts are identified by mac in one place
and by source address in the others.

What makes each part correct: DHCP lets nobody past that no operator armed; a machine
gets its own kickstart, for the address it holds; the flag is cleared so that an
installed machine is not installed again; no row shows 50 or more for a machine that is
still on its way to a kickstart; an armed machine ends up installed. Guessing passwords is bounded and a block ends; a
session that has ended stays ended, and one opened with an old password does not survive
the new one. The live log never stops the program and loses nothing silently. A machine is
told one consistent link by DHCP, and everything about its kickstart on its command line. A
listed image is complete, a stored password can be decrypted, and a start that failed half-way does no lasting harm.

## Modules

| Module | What it is |
|---|---|
| `HostStore` | the hosts and groups tables and the gorm statements on them |
| `Provisioning` | DHCP, boot files, kickstart, post-config and the operator's API over `HostStore`, with the machines, the operator and restarts as environment |
| `InstallPermit` | what provisioning promises: a machine network-boots only with an armed (mac, address) pair |
| `Auth` | sessions, throttle, users table, login, middleware and users API |
| `LogServer` | the live log: the logrus hook, the history, subscribers and their handlers |
| `NetMath`, `DhcpOptions`, `BootCfg` | pure code as operators: address arithmetic, the options of a DHCP reply, the rewriting of boot.cfg |
| `BootParameters` | composes the three: an operator registers a machine, the machine asks for options and fetches boot.cfg |
| `Startup` | a start of the daemon: secrets key, certificates, listener, against crashes and failed writes |
| `Images` | extends `Startup`: the serving appliance with uploads, deletions, and the groups that name images and hold passwords |
| `MCProvisioning`, `MCAuth`, `MCLogServer`, `MCBootParameters`, `MCImages` | the instances TLC checks |
| `ProvisioningProofs` | TLAPS proofs of `Provisioning`'s types and of its main safety property |
| `PermitProofs` | TLAPS proof that `Provisioning` implements `InstallPermit` |
| `InstallProofs` | TLAPS proofs about `Provisioning`: the address a kickstart configures; and no reinstallation, own kickstart and a true progress when nobody interferes |
| `AuthProofs` | TLAPS proofs of every safety property of `Auth`: types, guesses, ended sessions, the documented password, stale sessions |
| `ApplianceProofs` | TLAPS proofs of every safety property of `Startup` and `Images` |
| `LogProofs` | TLAPS proofs of every safety property of `LogServer` |
| `BootProofs` | TLAPS proofs of every property of `BootParameters`: the link, the route, the options, boot.cfg |

### Provisioning and the code

`hosts` and `groups` are sets of rows; a row has the columns that decide what a handler
does. A worker is a goroutine serving one request: `pc` is its next database statement,
`item` and `grp` are the Go variables holding what it has loaded. One action is the code
from one statement to the next, so every interleaving of statements of concurrent
handlers is explored, and a snapshot can be stale when it is saved.

* `processDiscover`/`Offer` and `processRequest`/`Ack` are `processDiscover` and
  `processRequest`, split where `AddOptions` reads the host a second time.
* `LoadBootHost` then `serveMboot`, `serveCrypto64`, `serveBootCfg` are the TFTP
  `readHandler` and the HTTP `Files` handler, which run the same statements. A host that
  is not found is the zero value, as in Go: saving it inserts a row.
* `KsLoad`, `KsClear`, `KsServe` are `Ks`; `PostConfig`, `PostConfigID`,
  `ProvisioningWorker` the post-config routes and their goroutine.
* Saving the progress and delivering what it stands for are two steps (`SaveThen`, then
  `SendBootFile` or `SendKs`): a TFTP transfer starts after the Save, and an HTTP answer is
  complete only when the handler has returned. Between them other handlers run, and the
  daemon may die: then the row has recorded what its machine never got. An error answer
  leaves at the step that decides it, since that handler writes nothing afterwards.
* `CreateHost`/`InsertHost`, `UpdateHost`/`SaveUpdatedHost`, `DeleteHost` and the same
  for groups are the API. `Override` is mergo's rule that a zero value overrides nothing.
* `Clash` is the unique index `uniqIp`, which is over `ip` *and* `reimage`.
* A machine (`stage`, `lease`, `wait`, `disk`, `built`) asks for one file after the
  other, may give up or retry while its handler still runs (`Timeout`), lose power
  (`PowerCycle`), finish installing (`Installed`) and reboot. `Restart` ends every handler.
* `armed` is a history variable: every (mac, address) pair an operator saved with the
  flag up.

Abstractions: `Preload` (host, then group) is one step; the image row read by the boot
handlers and the image's directory are the constant `Bootable`; texts are model values,
and `ParseMAC` and `Lower` are functions on them; `Network` says which addresses a
group's netmask and gateway contain; a kickstart override either renders or does not;
`MaxHosts` and `MaxGroups` bound the ids (an insert past them fails, as on a full disk).
A late answer to a client that has given up is dropped. A DHCP reply leaves with the
read that completes it, and post-config's answer with the start of its goroutine: what the
one holds is saved nowhere, and no client waits for the text of the other. The callback to the group's URL
is left out. SQLITE_BUSY is not modelled.

### Auth and the code

`Sessions` and `Throttle` are maps guarded by a mutex each, so each of their operations
is atomic; a handler is one step per map or table access: `CheckAllowed` (Allowed),
`FindUser` and `Compare` (`verify`, with the bcrypt comparison between the read and the
recorded outcome), `StartSession` (Create), `Middleware` (Lookup), `UpdateUser`,
`DestroyUserSessions`, `SaveUser`. Time is `Tick`, which ages sessions and records; ages
saturate one past the limit they are compared with, so the space is finite without a
bound on time. Passwords are model values: bcrypt only tells equal from different.

### LogServer and the code

`Fire` takes `subscribersMu` and keeps it (`firing`) while it sends to one subscriber after
the other (`FireTo`) and then records the message (`FireHistory`); `Join` and `Leave`, the
calls of addSubscriber and deleteSubscriber, need the same mutex. The history has a mutex
of its own, taken for one access only, so `Snapshot` does not wait. A client is a
connection: its `pc` is where `Handle` and `subscribe` are, `todo` the copy of the history
it is being replayed, `queue` its channel. `FireTo` is the `select` with its `default`; the
goroutine it starts there is `slow`, and `CloseSlow` is its end. `Hangup` is the browser's
side. Messages are numbers, in the order in which `Fire` got the mutex.

### BootParameters and the code

`NetMath` represents an address, and a mask, as the set of its one bits: masking is
intersection and the broadcast address a union. Its three functions are defined on the
*kinds* of text a group's netmask can be (a number, a dotted mask, anything else), because
the code decides by that which error it returns. `Generated` is the `switch` of
`AddOptions` for one code, `AddOptions` the loop over the requested and the default ones;
a reply's options are a function, since the code iterates over a map. `RenderConfig` is
the chain of `internal/boot`, over lines of words; of a word it keeps what the rewrite
looks at, its text and whether it has a path separator. The replacement of `cdromBoot`
erases the text and leaves the separators around it, so the word stays, empty. The
patterns of `boot/bootcfg.go:50-57` are not anchored and match anywhere in the file; the
model takes `cdromBoot` as a whole word and `kernelopt=` and `prefix=` as whole keys. The
two agree on files in which these texts occur nowhere else, as in those ESXi ships; a line
like `myprefix=` is rewritten by the code and left alone by the model. The state machine around them has one machine:
`CreateHost` with its address check, `Answer` (a reply to DISCOVER or REQUEST, with
`buildHeaders`), and `serveBootCfg` over either transport.

### Startup, Images and the code

`phase` is where `main` is. `DrawKey` and `PersistKey` are `secrets.Init`: a key written to
a temporary file, then renamed. `CheckCert`, `Truncate`/`Complete` per file and `Sign` are
`CreateCert` and `writePEM`; `RunTLS` is the listener, which ends `main` when it cannot
load its pair. `Crash` ends the process at any step, `WriteFails` is a write error
(`writePEM` removes the file, and `main` ends). Of a file the model keeps which start
wrote it (`made`) and whether it is whole.

In `Images` a handler is one step per statement and per file, any two handlers interleave,
and `Fault` ends them all. `iso` and `dir` are the disk, per path: an upload overwrites,
the extraction writes file by file, `os.RemoveAll` removes file by file. The upload keeps
its ISO open while it extracts, so on a path with several users (`Reads`) what it reads
need not be what now stands under the name; the error of removing the ISO is ignored, so
the file may stay (`RemoveISO`). `Fails` is any error path of any handler: 500, and nothing
is undone. The one error that is dropped is that of `DeleteImage`'s query for groups:
`CheckGroups` reads the first group that uses the image and asks whether its name is empty,
and a query that fails leaves it empty, so the deletion may always go on. `SaveImage` merges
what the form carries, the hash too (`Rehashed`), and nothing is read to compare with it. A
group's password is the key it was encrypted with. Three history variables serve the main
property: `verified` (images whose upload was compared with a hash: it, and not the column,
says which images were checked), `condemned` (images whose deletion was let through, by no
group, a nameless one or a failed query) and `shared` (paths that had two users at a time).

## Runs

| Run | Instance | Question | Result |
|---|---|---|---|
| `crash` | 2 machines, 3 workers, up to 2 restarts anywhere, fair | no reinstallation, own kickstart, no progress of 50 on the way to a kickstart, flag consumed; and without a restart, does every armed machine end up installed, booted, shown as done and disarmed? | holds |
| `operator` | 1 machine, 2 workers, 9 API requests, 2 hosts and 2 groups | well-formed tables; a kickstart configures the address the machine booted with | holds |
| `retry` | 1 machine, 2 workers, timeouts, power loss, re-addressing | only armed machines pass DHCP; refinement of `InstallPermit` | holds |
| `stale_save` | 1 machine, 2 workers, timeouts, no operator | no reinstallation | violated: finding |
| `shared_ip` | 2 machines, one address, armed and unarmed | own kickstart | violated: finding |
| `accounts` | 2 workers, 1 token, 2 accounts, 1 restart, limit 2, window 2, passwords that become right and wrong, fair clock | guesses bounded; blocks end; ended sessions stay ended; default password is marked | holds |
| `sequential` | 1 worker, 2 tokens, no renaming | a new password leaves no session of the old one | holds |
| `logs` | 2 clients, 3 messages, history of 2, queues of 1, fair | in order and once; no silent loss; the history is the last messages; logging never stops; dead and slow clients leave | holds |
| `boot_parameters` | every netmask on 4 bits in every form, 5 gateways, 4 kinds of boot.cfg | one consistent link, complete options, a decodable route; boot.cfg keeps what it had and what was added | holds |
| `appliance` | 1 fault anywhere, 2 workers, 1 path, 2 images, 1 group, fair start | listed, verified images are whole, passwords readable, own certificate served; does the appliance come up? | holds |
| `rename` | 1 worker, name and password changed together | as `sequential` | violated: finding |
| `unread_groups` | 1 worker, 1 image, groups with names, no crash | no deletion goes on to the files of an image a named group uses | violated: finding |

What the runs do not reach. `crash` has no timeouts, so the delayed `boot.cfg` of
`stale_save` does not occur in it; its `InstallingIsDisarmed` is about restarts and other
machines. `retry` has one host slot, so the zero row that a `boot.cfg` from an unknown
address inserts does not fit (two slots take the run past what is practical); the theorems
`InstallsOnlyArmed` and `RefinesPermit` bound neither slots nor workers and include it.
`armed` only grows: `OnlyArmedInstall` and `InstallPermit` exclude a machine booting with a
pair nobody armed, not one that is let in just after its host was disarmed, and they say
nothing about updates lost to a whole-row save.

Bounds. Two machines are what it takes for one to get the other's answer, address or
kickstart; two workers are what it takes for a snapshot to go stale, and the third in
`crash` lets a post-config goroutine outlive its request while both
machines are served. Two hosts and two groups allow deleting and registering again,
under a new id, with the old one still loaded by a handler. Two restarts allow one
before and one after the flag is cleared. In `accounts` a limit of 2 with 2 workers
already lets two admitted guesses overshoot it, and a window of 2 has a first, a last and
a past tick. Workers are interchangeable, so
`operator` and `retry`, which check no liveness, use symmetry.
In `logs` three messages overflow a history of two and a queue of one, and two clients
let one be slow while the other is served; only there may the instance stop (all messages
logged, all connections over), so only there deadlock is not checked. `boot_parameters`
has two octets of two bits: enough for masks inside, at and across an octet's boundary,
for /0, for the two longest, and for every mask that is not contiguous. In `appliance` one
fault can hit any step of any start, before or after the first one that serves; two
workers and one path give every race of two uploads, or of an upload and a deletion, on
one directory, and two images are what it takes for a stale deletion to hit a second
upload. `unread_groups` needs no concurrency: a
single request whose query fails is enough. What a second fault or a second file per
image might do to the invariants is covered by the proofs, which bound neither.

Fairness. `crash` assumes weak fairness of each worker's handler steps (the
Go scheduler runs every goroutine, and no handler waits for another), of sending the next
request and of the installer finishing (a machine that is switched on goes on booting);
nothing is assumed of operators, timeouts, power or restarts. `accounts` assumes only
that time passes. `logs` assumes that goroutines run, that a write ends within its five
seconds one way or the other, and strong fairness of `Join` and `Leave`: `sync.Mutex` hands
itself to a waiter it has starved, however often `Fire` takes it in between. `appliance`
assumes only that a start goes on, and that a process that ended is started again: the
README's systemd unit has `Restart=always`, its container `restart: unless-stopped`.

### Findings

* `stale_save`: a retried `boot.cfg` whose first handler is slow saves a row loaded
  before the kickstart cleared the flag, and arms the host again: it is reinstalled.
* `shared_ip`: the unique index on `ip` also covers `reimage`, so an unarmed and an armed
  host can share an address, and lookups by source address pick the wrong one.
* `rename`: changing name and password in one request destroys the sessions of the new
  name. (With two handlers at a time `NoStaleSession` also fails without renaming: a
  login that has compared the old password can create its session after `DestroyUser`.)
* `unread_groups`: `DeleteImage` drops the error of its query for groups. When it fails,
  the deletion goes on as if no group used the image, and removes its files.

One divergence between a comment and the code is not the subject of a run, since it takes
one line to see: `boot/bootcfg.go:104-105` says that a machine booting over HTTP or HTTPS
fetches its modules back "over the same transport", but the one caller,
`server/uefi.go:131`, always passes `https`, also for the boot.cfg it serves on port 80.

### Behaviours the models have that no document contradicts

They limit what the properties can say, and a reader of the code may want to know them.

* A message logged between a live-log client's history snapshot and its `addSubscriber`
  reaches that client not at all; `GapMeansSlow` counts from the moment it has joined.
* The group check of `DeleteImage` reads one group: a group without a name does not protect
  its image, nor do named ones behind it (`condemned`).
* A PATCH may give an image a hash that nobody computed: the column does not say that the
  upload was verified (`verified` does, in the model).
* Whole-row saves lose updates: an address, a group or a re-arming saved while a kickstart
  is served or a report recorded is overwritten, and a deleted row can come back.
* A daemon that dies between the Save of 50 and its answer leaves a disarmed host shown at
  50 and never installed, until an operator arms it again.
* Two requests that work on one directory destroy each other's files, and `UpdateImage` can
  write back a row that was deleted meanwhile (`shared`).
* A `server.crt` left by a fault without the key that belongs to it stops every later
  start: only that file is looked for. It is the one exception `ComesUp` states.
* A reply to a client that already has an address goes to port 67.
* Sessions of a deleted account outlive it; `UpdateHost` checks neither mac nor address.

## Proofs

`ProvisioningProofs` proves, for every set of machines, workers, addresses, commands and
initial rows, and with or without timeouts and restarts:

* `TypeCorrect`: `Spec => []TypeOK`. One lemma per handler; the lemmas on `Save`,
  `SaveGroup`, `First` and the answers carry the work.
* `InstallsOnlyArmed`: `Spec => []OnlyArmedInstall`, the main safety property. By itself
  it is not inductive: an ACK takes the address from the handler's snapshot, and a late
  save may raise a flag. The strengthening `ArmedInv` adds that every flagged row was
  armed (`RowsArmed`), that so was every flagged snapshot a handler may still write back
  (`SnapshotsArmed`), that a DHCP handler between lookup and reply holds the flagged row
  of the mac that asked (`DhcpHolds`), and that a machine waits only for a handler of its
  own request, at a step that fits its stage (`WaitsForOwn`). Saves write back justified
  snapshots, so they arm nothing new; only the operator's saves do, and they record it in
  `armed`.

`PermitProofs` proves `RefinesPermit`: `Spec => ImplementsPermit`, that `Provisioning`
implements `InstallPermit` with the machines' leases as the grants. Under `ArmedInv` every
step is an Arm, a Grant, a Release or a stutter. The one hard step is the ACK:
`WaitsForOwn` says that exactly the machine that asked is waiting for it and holds no
grant yet, `DhcpHolds` that the address it carries was armed for that mac.

`InstallProofs` proves the other safety properties of `Provisioning`, for any number of
machines, workers and restarts. `KickstartKeepsAddress` holds on every behaviour:
`AddressInv` says that a boot file is asked for from the machine's own lease, and that the
kickstart handler holds the row of the address it was asked from, which are the two ends of
`KickstartAddressIsTheLease`. The other four do not hold on every behaviour, as the
findings show, so they are proved from a hypothesis on the constants, `Undisturbed`: clients
wait for their answers (`~Timeouts`; otherwise `stale_save`), the registered hosts differ by
address and by mac, whatever its case (otherwise `shared_ip`), none of them is half
installed at the start, and operators only delete hosts and manage groups, since registering
or editing a host is what arms it. The instance of `crash` satisfies it. Restarts are not
restricted: the daemon may die between any two statements.

* `InstallingStaysDisarmed`, `KickstartStaysOwn`, `ProgressStaysTrue` (`InstallingIsDisarmed`,
  `KickstartIsForThisMachine`, `ProgressTracksMachine`) and the action property
  `InstallsOnce` (`NoInstallLoop`) follow from one invariant, `InstallInv`, which TLC
  checked before it was proved. It has a part for rows, one for workers and one for
  machines. A row is a registered host or the stray zero host `serveBootCfg` may save
  (`RowOK`); a handler holds a row that belongs to the one request it serves, and only the
  machine that sent the request waits for it (`WorkerOK`); a machine past its kickstart is
  `Disarmed`: neither a row nor a snapshot that could still be written back says re-image
  (`MachineOK`). For `ProgressTracksMachine` it adds `ProgressDisarms`: whoever shows 50 or more is
  disarmed, so its machine does not come back through DHCP. What `ProgressStaysTrue` then
  says of a row at 50 is that its machine has its kickstart, or is about to get it
  (`KickstartSent`, kept by `SentArrives` until it is delivered), or has left the network
  boot because the daemon died between the Save and the answer. It does not say that such a
  machine is installed: that would be wrong. The lemmas on where rows and snapshots come from
  (`RowsFrom` and the like) reduce each step to "an old row, or the one this handler saves".

`AuthProofs` proves, for every set of names, requests and workers, every limit, window and
lifetime, and any number of restarts:

* `AuthTypeCorrect`: `Spec => []AuthTypeOK`, the key of the users table included. It rests
  on `RowsOnceStored` (what an update is about to save has an id that was handed out) and
  `Keyed` (a request the throttle is asked about has a name and a source).
* `GuessesStayBounded`: `Spec => []GuessesBounded`. A worker that `Allowed` lets through
  finds at most `MaxFailures - 1` failures on record, since a longer record is forgotten
  with its block; from then on a failure is recorded only by a worker that stops being
  admitted, so the sum does not grow.
* `EndedForGood`: `Spec => EndedStaysEnded`, an action property: only `StartSession` gives a
  token a session, and a fresh one; `Lookup` writes back only what is still there, because
  map access and check share one critical section (`SessionsFrom`).
* `DefaultStaysFlagged`: `DefaultIsFlagged`, provided no request chooses the documented
  password as a new one (`NotRechosen`: the code clears the mark then, as it must).
  `SnapshotsFlagged` is the strengthening: the row an update is about to save keeps the mark
  with the password, so a stale save puts both back.
* `NoSessionOutlives`: `NoStaleSession`, provided requests are served one at a time and no
  update renames (`Sequential`). Both are needed: `rename` shows the second, and with two
  handlers a login that has compared the old password creates its session after
  `DestroyUser`. `StaleInv` adds that the row a login or an update holds is still what the
  table holds, and that a live session of an account that exists carries its present name
  (`SessionsNamed`); deletions, reused names and restarts are all allowed.

`ApplianceProofs` proves, for any number of faults, starts, goroutines, requests, paths,
files, images and groups, the four invariants of the `appliance` run: `ImagesTypeCorrect`,
`ServesOwn`, `PasswordsStayReadable` and `ListedStayWhole`. One inductive invariant,
`ApplianceInv`, carries them all.

* Of a start: at most one key is ever persisted, whole (`KeyKept`: a start that finds none
  has persisted none, since the key reaches its name in one rename); and where there is a
  `server.crt`, whole or not, its authority is beside it (`AuthorityKept`: it is written
  after the authority is complete, and no start makes another authority while it exists).
* Of the images: a loaded row is the row of its id while there is one (`LoadedOK`); a row
  that is gone was condemned (`CondemnedOK`); a path that was never shared has one user at
  a time, an upload or one row with the deletions of it (`OneUser`); and an upload past its
  hash check has extracted, intact, what is not left to do (`UploadsIntact`). So a step on
  files can only concern the upload that owns them or an image that is condemned. What it rests on is
  `verified`, which only an insertion after the comparison extends, and never the hash in
  the row, which a PATCH may set.

`LogProofs` proves the four invariants of the `logs` run for any clients, messages, history
size and buffer. `HistoryStaysRecent` and `NoSilentGap` are inductive over the types, with
`FiringOK`: what Fire still has to send is the last message logged. `OrderKept` needs the
history's own order for the moment a client takes its copy, and then follows what is on its
way to the client (`Sent`: got, still to be replayed, queued) as one sequence: replaying and
delivering leave it as it is, a failed write drops an element, and a message is appended
only while everything in it is older, because a client joins only while Fire is not running.

`BootProofs` proves all of the `boot_parameters` run's properties, for octets of any size
and number, any gateways and request lists, and files of any length.

* The link: `HostStaysOnLink`, `BroadcastStaysLast` and `MaskStaysMeant`. `ReadableMask`
  carries them: when `NetmaskToCIDR` finds a length, the mask that `NetworkAddress` and
  `BroadcastAddress` read from the same text is that many ones; so the three functions
  disagree only on masks for which no option is sent.
* `RouteStaysTheLink`: option 121 decodes to what was meant. `CoveringOctets` shows that
  `SignificantOctets`' rounded division is the number of octets a decoder computes from
  the length, `FirstOctets` that the first octets of an address are its first bits.
* `AlwaysStaysTold`: whatever the client asks for, the default options are among the answer
  and none of them is skipped.
* boot.cfg: by `Rendered`, what a transport has served is `RenderConfig` of the image's file
  with the parameters the host still has.
  `UrlsStayIntact` and `OtherLinesStay` follow from `RenderedLines`, which says what becomes
  of each kind of line, and, for the end of a line, from `ConcatSuffix`. `OtherLinesStay` is
  proved for files in which only kernelopt and prefix lines name the CD-ROM
  (`CdromOnlyAsOption`): in any other line the global replacement erases the word.

Assumptions on the constants are the named `ASSUME`s of the modules that declare them; TLC
evaluates them in every run that extends the module. Three deserve a word. `MacAssumption`
says, among other things, that SQL's `LOWER('')` is `''`. `SkippedIsNoData` says that the
value standing for a skipped option is no datum. `BootConstants` says that an image's file
is a sequence of lines of words as shipped (`IsFile`), since what `RenderConfig` preserves
is stated of such files.

Only model-checked: all liveness (`InstallCompletes`, `FlagIsConsumed`, `BlockExpires`,
`LoggingGoesOn`, `DeadSubscribersLeave`, `ComesUp`), which is outside the prover's reach.
Every other property of a passing run is stated by a theorem.

## Not modelled, and the plan

Not modelled:

* Stored DHCP options and device classes. Their CRUD handlers are plain statements on two
  tables without any effect elsewhere: `AddOptions` looks up the device class of a client
  only to choose among stored options, and it declares that list without ever loading it,
  so `Level` and `ToDHCPOption` are not reached by any request. `DhcpOptions` models what
  the code does with the empty list.
* In `Images`: an upload of several files, `UpdateImage` moving an image's path (it merges
  whatever the form carries; of that the model has the hash), and which
  spelling of a file name the boot handlers find on the disk.
* SQLITE_BUSY, the text of templates and log messages, cookie attributes, configuration
  loading (once, before anything runs), the web UI and the generated API documentation:
  they carry none of the behaviour above, or are I/O.

What is left of the plan:

1. Weaker hypotheses: `InstallsOnce` and its companions with operators who register and
   edit other hosts meanwhile, in place of `Undisturbed`; `NoSessionOutlives` with several
   handlers, of which none logs in during an update.
2. Composing `Images` with `Provisioning` in place of the constant `Bootable`.
