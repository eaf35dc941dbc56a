# mirage-chaff in TLA+

A verification project for `mirage-chaff`, a local interception server: DNS sends the
domains of advertisements and trackers to it, and it answers their requests itself (a
stub), forwards them (as they are, scrubbed, or probed once and answered with a
decoy), or passes the connection through. The modules here model the parts of the code
that keep state and run concurrently, TLC checks them on small instances, and TLAPS
proves the invariants for every instance: all that the passing runs check, but for two
of liveness and one that holds of some instances only. All line numbers refer to the
Go files under `src/`.

- [Parts of the system](#parts-of-the-system)
- [Modules](#modules)
- [Runs](#runs)
- [Proofs](#proofs)
- [Where the code and its words disagree](#where-the-code-and-its-words-disagree)
- [Not modelled](#not-modelled)
- [Plan](#plan)

## Parts of the system

**Server** (`internal/server/server.go`). `Run` loads the configuration, binds
the listeners, starts one goroutine per listener, the health server, the QUIC
server, the admin UI and the scheduler of the managed rewrites, and then waits in
a select loop for a signal, a reload (SIGHUP) or a report on the channel `fatal`.
A signal or an error leads to `drain`: the QUIC server is closed, the HTTP
servers are shut down one after the other, and `wg.Wait` waits for all
goroutines. Hard here: who can still send on a channel that nobody reads, and
whether every goroutine ends. Correct means: after a signal `Run` returns, and
no accepted connection hangs.

**Routing listener** (`server.go:491-566`). The `:443` listener peeks at the SNI
of each connection in a goroutine of its own, splices passthrough domains to
their origin and offers the rest to `Accept`, which `http.Server` calls. State:
the channels `conns`, `errs`, `done` and the inner listener. Hard: the order of
the two halves of `Close` against the acceptor and the connection goroutines.

**Request path** (`server.go:605-684`, `breaker.go`, `internal/policy`,
`internal/stub`, `internal/forward`, `internal/mimic`). `handleIntercept` loads
the stub catalog, asks the policy engine for a decision (a temporary rule of the
administrator, a rule, the default, a reviewed script stub or the unknown
profile), gates it on the mode, asks the circuit breaker of the domain when the
action contacts the origin, serves, and reports the outcome to the breaker.
`reload` replaces catalog, rules, mode and unknown profile one after the other
while requests are in flight. Hard: requests that read one field before and one
after its replacement, answers that arrive after the breaker has opened, clients
that go away. Correct means: stub-only mode contacts nobody, the breaker opens
for broken origins and for those only, and a rule's stub is the one served.

**Managed sources** (`internal/aghmanaged/manager.go`). Rule sources that the
administrator registers and the scheduler fetches. `SyncSource` copies the source
under the lock, fetches without it, then compares the list with the entries the
source owns; a large removal is held back for review. Every operation saves a
snapshot after releasing the lock. Hard: two syncs of one source, a sync against
a deletion, an approval or new settings, saves that overtake each other, a crash
between the change and its save. Correct means: no entry without a source, no
large removal without a review, a deletion that lasts.

**Managed overrides** (`manager.go`). What the administrator sets over imported
entries, the conflicts between entries for the same domain and their resolution
by hand or by the priority of the sources, and a rollback history of at most 50
records. Hard: long sequences of changes, rollbacks out of order, deletions and
imports between a change and its rollback, a full history. Correct means: a
rollback undoes the change it names and no other, and a resolution resolves.

**Managed feed** (`manager.go`, `admin/agh_api.go`). `generate` copies entries
and settings under the lock, resolves the name of the target without it, may turn
the emergency switch on, and records its result; the admin server registers the
feed's URL with AdGuard Home. Hard: generations that overlap each other, a
refresh of the target, a reload or the administrator; answers of AdGuard Home that
are lost. Correct means: no address older than `stale_target_ttl` is used, the
history adds up, the emergency switch stays on until it is turned off, and the
feed is registered once.

**State files** (`admin/store.go`, `rulecatalog/catalog.go`, `manager.go`). All
three stores write `path.tmp` and rename it to `path`; the first two do so with
their mutex held, the third does not. Hard: crashes and errors between any two
system calls, and several writers of the one `path.tmp`.

**Admin server** (`internal/admin`). Accounts and roles in a file, sessions in
memory, two tables that lock accounts and addresses after failed logins, OIDC
login, about 75 routes with a capability each, and editors for the policy
directory and the configuration file, which they patch line by line. Hard: a
login that verifies a password while its account is deleted or its lock begins,
saves that fail after the memory was changed, administrators who delete each
other, one wrong capability among many. Correct means: guesses are bounded, no
session survives the account it was opened for, an administrator remains, no role
gets further than it should, changes leave a trace in the audit log, an edit
changes what it names and nothing else, and a reload that was asked for puts in
force what the file has.

**Rule catalog** (`internal/rulecatalog`). Filter lists fetched, parsed and
reviewed entry by entry. `Sync` works on a copy without the lock, and `reload`
opens a second store on the same file while the admin server keeps the first.
Correct means: what was reviewed stays and takes effect.

**Policy files** (`internal/policy`). `Load` reads the files of the directory in
turn, sorts the rules by priority and refuses what does not compile; `Match`
decides; the engine counts unmatched requests in a bounded table.

**Recorder** (`internal/observability`). A ring of the last requests under one of
five logging modes, which the admin UI shows and follows with an event stream;
`reload` changes the mode. Correct means: the stream skips and repeats nothing
that the ring still has, and a reader sees no more than the mode of the moment
allows.

**QUIC relay** (`internal/quic`). Reads Initial packets, decrypts them to find
the SNI, and relays the datagrams of passthrough domains: a table of flows, one
pump per flow, a reaper, and `Close`. Hard: all four remove flows, by key, while
`Serve` works on one it has looked up. Correct means: no route to a dead socket
stays, no connection in use loses its route, the origin gets what the client
sent in order.

**Certificate issuer** (`internal/certgen`). A leaf for every SNI, cached in
memory and, under the fingerprint of the CA, on disk. Correct means: a handshake
gets a leaf for its name, by the CA in use, that has not expired.

**First bytes** (`internal/passthrough`, `quic/initial.go`). What finds the SNI:
`PeekClientHello` reads TLS records and replays them, `SNIExtractor` joins CRYPTO
frames. Correct means: no byte is lost or repeated, and the SNI is found when the
ClientHello is there.

**Resolver** (`internal/resolver`), **configuration defaults**
(`internal/config`), **metrics**, **sd_notify**, **hash rewriting**, **rate
limiter**: see [Not modelled](#not-modelled).

How they interact: `Run` owns the listeners and the select loop; the listeners
call `handleIntercept`; the admin handlers change the policy engine's temporary
rules, the managed store and the configuration file, and ask for a reload; the
scheduler and the admin handlers call the managed store concurrently.

## Modules

| module | models | extends |
|---|---|---|
| `CircuitBreaker` | `server/breaker.go` | |
| `Intercept` | the request path, temporary rules, reload | `CircuitBreaker` |
| `RoutingListener` | the `:443` listener and its `http.Server` | |
| `ServerLifecycle` | `Server.Run` after startup | `RoutingListener` |
| `ManagedSources` | the source store of `aghmanaged` | |
| `ManagedOverrides` | overrides, conflicts and rollbacks of `aghmanaged` | |
| `QuicRelay` | the passthrough relay of `internal/quic` | |
| `ManagedFeed` | the generation of the feed, its target and its emergency switch | |
| `FeedRegistration` | registering the feed with AdGuard Home | |
| `AdminRoles` | roles, capabilities, the role of an OIDC login | |
| `LoginGuard` | the two lock tables and the login requests at them | |
| `AdminServer` | accounts, sessions and the requests that change them | `AdminRoles` |
| `AdminEndpoints` | every route: capability, what it changes, its audit entry | `AdminRoles` |
| `ConfigFile` | the configuration file and its three editors, one edit at a time | |
| `ConfigEditors` | edits of that file that overlap | |
| `ConfigReload` | the edits, the SIGHUP that asks for a reload, and the loop that does it | `ConfigEditors` |
| `PolicyFiles` | the policy directory, `Load`, `Match` | |
| `UnmatchedRequests` | the table of unmatched requests | |
| `RuleCatalog` | the stores of the rule catalog, reviews, `Sync`, `reload` | |
| `Traffic` | the recorder's ring, its readers and the event stream | |
| `CertIssuer` | the leaf caches in memory and on disk | |
| `Passthrough` | `PeekClientHello`, the replaying connection, `Splice` | |
| `InitialCrypto` | `SNIExtractor` and `joinCryptoChunks` | |
| `DurableRegister` | what a state file promises (abstract) | |
| `StateFile` | how the stores replace their file; refines `DurableRegister` | |
| `InterceptProofs`, `ManagedSourcesProofs`, `ManagedOverridesProofs` | the theorems about one module each | that module |
| `RelayReloadProofs` | those about the QUIC relay, edits and reloads, and their composition | `MCRelayReload` |
| `ServerProofs` | those about the lifecycle | `ServerLifecycle` |
| `InputProofs` | those about policy files, peek, CRYPTO frames, unmatched requests and issuer | `PolicyFiles`, `Passthrough`, `InitialCrypto`, `UnmatchedRequests`, `CertIssuer` |
| `CatalogProofs` | those about rule catalog, managed feed, state files and configuration file | `RuleCatalog`, `ManagedFeed`, `FeedRegistration`, `StateFile`, `ConfigFile`, `InputProofs` |
| `ControlPlaneProofs` | those about accounts, sessions, login guard, endpoints, recorder and the composition | `MCControlPlane`, `CatalogProofs` |
| `MCIntercept`, `MCManagedSources`, `MCManagedOverrides`, `MCStateFile`, `MCRelayReload`, `MCControlPlane` | instances for TLC; `MCControlPlane` composes the modules from `ManagedFeed` to `InitialCrypto` but `ConfigEditors` and `ConfigReload`, and `StateFile`; `MCRelayReload` composes `QuicRelay` and `ConfigReload` | |

**CircuitBreaker.** `failures` and `openUntil` per domain; time is reduced to
whether `openUntil` is unset, ahead or past. `Allow` and `Deny` are the two
answers of the method `Allow`, `RecordSuccess` and `RecordFailure` the methods of
that name, `CooldownElapses` the passing of time.

**Intercept.** `live` holds what requests read and reload replaces: the catalog,
the rules, the domains a passthrough rule covers whole, the mode and the unknown
profile's directives. `req` has one record per goroutine that serves requests.
One action per step of the handler between which others can run: `Arrive` (load
the catalog), `Decide`, `Gate`, then `ServeStub`, `Admit` or `ServeBlocked`
(the breaker), `PassThrough`, and the outcomes `ForwardOK`, `ForwardFails`,
`ForwardCut`, `ServeMimic`, each with its report to the breaker. A connection
that is spliced before TLS termination is `Splice`. `ReloadBegin` validates a
configuration as the code does and `SwapCatalog`, `SwapRules`, `SwapMode` and
`SwapUnknown` are its stores in their order. `streak`, and `quiet` and `steady`
of a request, are history: the failures of the origin itself, whether stub-only
mode was in force since the request arrived, and whether it has met no store of
catalog or rules. What a domain's rules can decide is a set, so paths, methods
and rule metadata are a choice; the catalog is its names.

**RoutingListener, ServerLifecycle.** One variable for each channel and
goroutine. The acceptor's `select` between `errs` and `done` is the two
disjuncts of `ReportError`; `Close` is two steps, in the code's order. `task` is
the state of each goroutine counted by the WaitGroup, `fatal` the channel of
capacity 4, `main` the place of `Run` in its loop and in `drain`. The behaviour
of `http.Server` (what `Serve` does with an error of `Accept`, that `Shutdown`
closes the listener) is external and modelled from how the code uses it.

**ManagedSources.** `sources`, `entries` and `pending` are the maps of
`Manager`, `disk` the state file, `worker` what each calling goroutine is doing.
Each operation is one step under `Manager.mu`, except that `SyncSource` is two
(`SyncSourceBegin`, then `SyncSourceDone` or `SyncSourceFail`), and that saving
is its own two steps `Marshal` and `Rename`, since the snapshot contains a
reference to the live map of pending lists. `Restart` is a crash with `Open`.
An entry is its ID; sources of AdGuard rules can list entries with the same ID,
and an import takes such an entry over. A list (`ImportedList`) is its IDs and the
number of its lines, which is what a source reports as its entries (`total`) and what
the percentage of `largeChange` is taken of: `ParseRules` keeps repeated lines.

**ManagedOverrides.** `entries` is reduced to the source that owns each entry,
whose imported fields are the constant `Imported`; `overrides`, `rollbacks` and
`preset` are the fields of `Manager`. `row` is an entry with its override applied,
`Reasons` is `buildConflicts`. `PatchEntry`, `BulkPatchEntries`, `ResolveConflict`
and `ResolveConflictByPriority` share the body `Merge`: merge the patch into the
overrides, append a record, cut the history, save. `Rollback`, `SetPreset`,
`DeleteSource` and `Restart` are the operations of that name (`Restart` is `Open`
after a crash); `applyEntriesLocked` stands for the import at the end of a sync or
an approval. Each operation is one step with its `Save`, which writes the state,
fails, or comes late. A save that is late is serialised without the lock while the
next operation changes what it shares with the memory, the map of overrides and the
array of records (`Overtaken`): the file gets some of both as they were and some as
they are then. `mixed` is history and marks such a file, and a memory read from it;
`lost` of a record, too: the entries whose override was deleted with their source.
A save that two or more operations overtake is one of these with more to mix; the
file is marked all the same, and nothing is claimed of its contents. An older save
that lands after a newer one leaves the file as a newer one that failed.

**QuicRelay.** `flows` is the table, `serve` what the goroutine of `Serve` is
doing with a datagram, `sock` and `pump` each upstream socket and its goroutine.
A step is a critical section or a system call: `Receive` (look up), then
`Forward` or `Sniff`, and in `routeFlow` `ResolveFails` or `Dial`, `Install`,
`StartPump`, `Replay`; `PumpRelays`, `PumpFails`, `PumpDeletes`, `PumpCloses`;
`Reap`; and the three parts of `Close`. A datagram is its number, so that `sent`
shows order and gaps; when the SNI is found is a choice. `robbed` is history: the
sockets whose route was removed by the pump of another.

**StateFile.** Files are inodes with contents `Empty`, `Torn` or a version;
`path` and `path.tmp` are names of inodes. Actions are the system calls of
`os.WriteFile` and `os.Rename`. With `MutexHeld` the mutex is held over the save
(`admin.Store`, `rulecatalog.Store`), without it the model is `persistState` of
`aghmanaged`. `DurableRegister` is the promise: an acknowledged version is what a
crash leaves, at least; `StateFile` instantiates it with an explicit refinement
mapping (`Register == INSTANCE DurableRegister WITH ...`).

**LoginGuard.** `handleLogin` is split where it holds no lock: `LoginArrives`
(the address is asked for), `AccountLocked`, `WrongPassword` or `RightPassword`,
and the two records of a failure. A lock's end is unset, ahead or past.

**AdminServer.** `users` is the store's memory, `saved` its file, `sessions` the
session table, `req` what each request is about to do. A handler is one step per
lock section: the look-up, the change of the store (which saves, or fails to, in
`SaveOK` and `SaveFails`), `DestroyUser`, `Audit` (which saves again). A session's
`mark` is history: `revoked` from the moment its account is deleted or reset,
`excused` where the code cannot know (see below); `disowned` notes that the
deleting administrator had no account any more.

**AdminEndpoints.** One definition per handler, under its name: the capability
its route asks for, the areas of the state it changes, also when it fails, and
whether it audits. A call goes through `Dispatch`, `Refuse`, `Operate` or
`OperateFails`, and `AnswerCall`.

**ManagedFeed.** `gens` has one record per generation that is under way, with the
copies it made; `GenCopy`, `GenResolved` or `GenResolveFails`, `GenEmergency`,
`GenDecide`, `GenRecord` are the stretches of `generate` between which others
run. A time is an age. `feedBook` is the history with its snapshot.
**FeedRegistration** has the four requests of `registerAGHFeed`, each of which
may fail before or after AdGuard Home has carried it out; AdGuard Home is a list
of filters.

**ConfigFile, PolicyFiles.** The file is a sequence of lines, a line a header, an
assignment or part of an array; `Patched` is the text surgery of the two patching
editors, `Settings` what the parser makes of the result. `confWant` and `strayed` are
history: what the last acknowledged edit asked for, and whether it was a patch of a
section in which a header with a comment behind it follows (`NoteInside`). A policy
file is a document; `LoadReads` reads one file per step, so that edits come in
between.

**ConfigEditors, ConfigReload.** The same file for editors that overlap: a text is
the value of each section, or `Torn` when it does not load, and every system call
of a handler is a step: `PatchBegins` (`ReadFile`), `LoadFile`, `OpenCheck` and
`WriteCheck` (`WriteFile` of `path.check`, which all editors share), `LoadCheck`,
`RemoveCheck`, then `Truncate` and `WriteFile` or `WriteFails`; `PutBegins` is a PUT,
which validates elsewhere. A write over what another one wrote after the truncation
may leave a rest of it behind (`Over`). `EditorsCrash` is the death of the process.
`want`, `lastAck`, `overlap` and `failed` are history: what the file would be if the
acknowledged edits were done in that order one by one, the last of them, and whether
two were under way at a time or a write failed. In `ConfigReload`, `hup` is the
channel of one signal, `reload` the text a reload has read, `inForce` the one it
stored; `AskReload` is `handleReload` or a `kill`, `ReloadReads` and `ReloadStores`
the two ends of `Server.reload`.

**RuleCatalog.** `store` has the entries of every store object; `adminHas`,
`serving` and the sync's own reference say who uses which. An entry is its review
state. `Sync` is `SyncStart` (which store), `SyncBuilt` or one of the two failures of
the fetch, then `SyncReplaces`: once, once more when the first save fails, or with the
copy of `List` after a failed fetch; reviews come in between. `reviewed`, `late` and
`missed` are history.

**Traffic, UnmatchedRequests.** The ring slot by slot, the options, one event
stream; the table as a sequence in the order of use. Records and requests are
numbered, so that a property can say which are missing.

**CertIssuer.** A handshake takes its steps `CertFor`, `LoadDisk` (with `Issued`),
`Store`, `SaveBegins`, `SaveEnds`; only the first and third hold the mutex.
`IssuerRestart` chooses another CA.

**Passthrough, InitialCrypto.** A stream is a sequence of records, whose bytes
are reduced to units with an identity; `PeekReads` takes any number of them. A
byte of a QUIC ClientHello is its offset; the chunks are sorted and joined as in
the code (`InsertByOffset`, `JoinStep`).

## Runs

Twelve runs; those that pass reach between 10^4 and 3*10^6 states and take from
seconds to three and a half minutes. All are exhaustive for their constants.

| run | checks | instance |
|---|---|---|
| `sources` | `TypeOK`, `EntriesOwned`, `LargeRemovalsReviewed` | 2 sources with an entry in common, lists of 1 to 3 lines that repeat an entry, 2 goroutines |
| `sources_deleted` | `DeletedStaysDeleted` violated | the same |
| `overrides` | `TypeOK`, `RollbackChain`, `PriorityResolves` | 2 sources with an entry each for one domain, history of 2 |
| `state_file_unlocked` | `AckedDurable` violated | 2 writers, 3 inodes, 4 updates, without the mutex |
| `lifecycle` | `TypeOK`, `NeverStuck`, `ConnsResolved`, `DrainEnds` | every server configured, 1 connection |
| `lifecycle_drain` | `ShutdownCompletes` violated | `:80` and `:443` |
| `intercept_all` | `TypeOK`, `GatedNoContact`, `RuleStubServed` | 2 requests, 1 domain, 3 configurations, threshold 2 |
| `intercept_forward` | `OpenIffBroken` | 3 requests, 1 domain, threshold 2 |
| `intercept_splice` | `StubOnlyNoContact` violated | 1 request |
| `relay_reload` | `NoBlackHole`, `RoutesKept`, `InOrder`; `EditsKept`, `ReloadApplied`; and the types of both (`RelayReloadTypeOK`) | 2 clients with 3 datagrams each, 2 sockets, sniffer of 2 datagrams; 2 editors, 2 sections, 1 of which is patched |
| `config_editors_lost` | `AckedKept` violated | 2 editors, 3 sections, 2 of which are patched |
| `control_plane` | `GuessBound`; `SessionsCurrent`, `AdminRemains`; `RoleEffects`, `ChangesAudited`; `HistoryBalances`, `TargetFresh`, `EmergencySticks`; `FeedOnce`; `ReviewsKept`; `MatchIsFirst`; `PatchCorrect`; `StreamExact`, `ViewsRedacted`; `RecentKept`; `LeafServable`; `PeekExact`; `JoinExact`; `RegisterSpec`; and the types of all (`ControlPlaneTypeOK`) | below |

`control_plane` composes fourteen components that share no state. The variable
`part` says which of them moves in a behaviour, so that the state spaces add up
instead of multiplying; every behaviour of each component is there. `relay_reload`
does the same with the relay and the reload.

*Why the bounds suffice.* A race of the managed store needs one operation between the
two halves of another, so two goroutines; a take-over of an entry needs two sources; a
large removal needs two entries, of which the one that a source had vanishes when it
lists the other: of a new list of two lines that is the 50 % of the threshold, of
three it is not. The other threshold (2 entries) is met by no import of the instance;
the theorem is for all of them. Two records are enough for a rollback past a later one
and for a change that pushes one out, two entries for a change of both and of one; the
sources disagree in category, review status and action, and differ in priority.
`Bounded` keeps the run small: a save fails only while the file is up to date, and no
restart reads a mixed file, of whose memory nothing would be claimed; the theorems are
for both of its values. A save has four system calls, and three inodes are what two
writers and the current file can hold; four updates let a leftover of the first failed
save meet the third. The breaker needs Threshold failures and one request more that
was admitted before it opened, hence three requests for threshold 2. The three
configurations of `intercept_all` have all actions, both modes, a stub that one
catalog lacks, and one that does not validate. Two sockets let a client be routed
again while the pump of its first socket ends; three datagrams are one that is sniffed
in vain, one that finds the SNI and one that is forwarded. The relay ends in a state
without steps, so deadlock is not checked there. The domains do not interact, so one
is enough, and neither do connections except through `Accept`, which they use one at a
time.

Losing an edit, and tearing a file, takes two editors; the section that is patched
is one that both edit, the other one that only a PUT changes; in `config_editors_lost`
two that are patched let both edits be of other sections. Editors come and go
without a bound, and so do signals.

In `control_plane`: two login attempts on an account and from two addresses, one of
which the full table does not count; two accounts, one of which the identity provider
knows as well, two sessions and two requests at a time, which is what a delete against
a login or another delete needs (new accounts are administrators, so that a role is
never changed for another one); two generations with a target that is resolved and the
automatic switch, under which they take all their steps, a time to live of 0 and a
history of 2 records, so that a third cuts it; three store objects for two reloads;
two policy files out of five documents; every well-formed configuration file of up to
two lines and some with two or three sections, with and without headers that have a
comment behind them; a ring of 2 with 3 records, which wraps, under the debug mode
with redaction and the stats mode (the other settings of a feed, which a reload may
bring, and the other modes are left to the proofs, which are for all of them); a table
of 2 with 3 keys and 7 requests; two names for a cache of 1 and two CAs, one of which
expires; hellos in one to three records of which two are looked at; every stretch of a
hello of 4 bytes, in up to 4 datagrams. The configuration editors of `ConfigFile`, the
registration and the synchronisation run one at a time. The bounds `HitMax`, `LogMax`,
`ClockMax` and the ends of a connection leave states without a step, so deadlock is
not checked. The run states no fairness.

*Fairness.* Only `ServerLifecycle` states any. Weak fairness of every goroutine
that has something to do: Go's scheduler runs it, and each wait in these
goroutines has a deadline (the peek, `obs`'s shutdown of 5 s, the 15 s of
`Server.shutdown`). Nothing is assumed of signals, clients or listener errors.
The `Return` of `Run` ends the behaviour, so deadlock is not checked there; the
unlocked state file may end in a process that cannot start.

*What they show.* `EntriesOwned`: although a sync may bring a deleted source back, it
never leaves entries without one, in memory, in a snapshot or in the file.
`LargeRemovalsReviewed`: the comparison uses the entries owned when the list is
applied, so two overlapping syncs cannot remove what the code counts as large without
a review; it counts lines, see below. `RollbackChain`: what a change left is what the
next change of the entry found, so refusing a rollback past a later overlapping
change, and nothing more, keeps the history sound, also when records are cut or a save
fails; the exceptions are an override that was deleted with its source, and a file
that mixes two moments. `PriorityResolves`: no classification conflict is left, even
for entries that take part only since they took over the winner's review status.
`NeverStuck` and `DrainEnds`: the channel `fatal` of capacity 4 has room for the four
goroutines that wait to send; only the report of the QUIC server (which does not wait)
can fill it, and together with the stranded `Accept` described below that is the only
way for the drain not to end. `NeverStuck` is the part of `DrainEnds` that is an
invariant, and can be proved: there is room for the reports (`ReportsFit`), and a
drain that is not over has a step ahead, in those two cases excepted (`DrainGoesOn`),
whose disjuncts are the conditions under which the fair steps are enabled, which TLC
agrees with; and for a connection that `route` offers there is an `Accept` to come, or
the listener is closed or has a step ahead that leads there (`OffersHaveEnd`).
`ConnsResolved`: every accepted connection is served, spliced or closed.
`OpenIffBroken`: late answers, denied requests and cut bodies do not confuse the
breaker of requests that are forwarded; the instance has no mimic, no path-scoped
passthrough and no client that goes away. `GatedNoContact`: the handler's gate holds
whatever is reloaded. `RuleStubServed`: validation is enough for a request that meets
no half-done reload. `NoBlackHole`: since every datagram of the client refreshes its
flow, a dead route would never be reaped; that there is none rests on the order of
`Install` and `StartPump` and on every pump removing its key. `RoutesKept`: the reaper
and `Close` close what they remove; `InOrder`: buffered datagrams are replayed before
the next is read.

`GuessBound`: the lock checks are made before the password is verified, so the bound
is the threshold plus the requests that were past them. `SessionsCurrent`: destroying
the sessions after the store was changed catches every session but those of logins
that had read the account before. `AdminRemains`: not being able to delete oneself is
enough while deleting administrators have an account. `RoleEffects`, `ChangesAudited`:
over all routes, callers and failures. `HistoryBalances`: the delta is taken from the
snapshot at the time of the record, not at the time of the copy. `TargetFresh`,
`EmergencySticks`: against every interleaving of generations, refreshes, reloads and
restarts. `ReviewsKept`: a review stays until a sync overwrites it, which are the ones
that had not seen it, and a reload's store has what was reviewed before it.
`MatchIsFirst`: what was read while files change is still a sound ruleset.
`PatchCorrect`: patches in any order keep all other settings, but for a patch that
reads past the header described below. `StreamExact`, `ViewsRedacted`: over wraps and
changes of the mode. `RecentKept`: junk pushes out nothing that is still asked for.
`LeafServable`: no leaf of another CA comes back from the disk. `PeekExact`,
`JoinExact`: whatever the network does to the ClientHello. `RegisterSpec`: a store
that holds its mutex over the save is a durable register, which an acknowledged update
does not leave (`AckedDurable`). `EditsKept` is what editors without a lock can
promise at all: what the last one wrote is there or the file is torn, and nothing is
lost while they do not overlap; the check of a text that another editor wrote to
`path.check` does no harm to that. `ReloadApplied`: the channel of one signal
suffices, since a reload reads the file after it took the signal. `RelayReloadTypeOK`:
a file that is torn, by two editors or by a crash, is never in force.

Each property of a passing run has a mutant in `PROJECT.json`: a definition of the
model changed the way a bug would change the code (the operators that a comment calls
a mutant, before the definition they stand for), under which TLC finds the property
violated.

## Proofs

TLAPS proves, for all values of the constants that satisfy the named
assumptions:

- `ManagedSourcesProofs`: `TypeCorrect`, `EntriesOwnedCorrect`,
  `LargeRemovalsReviewedCorrect`. `EntriesOwned` covers the snapshots and images
  on their way to the file, which makes it inductive together with `TypeOK`: the
  file gets what a goroutine carries, and a restart makes the file the memory.
  The action property follows from `TypeOK`; its core is the lemma `SmallImport`
  (what vanishes is part of what `largeChange` counted, and the list is what the
  source owns afterwards) with `Percentage`, which shows that rounding the
  percentage of the lines down hides nothing. Assumed: finitely many entries, natural
  thresholds.
- `ManagedOverridesProofs`: `TypeCorrect`, `RollbackChainCorrect`,
  `PriorityResolvesCorrect`. `RollbackChain` says of memory and of the file, unless
  they are mixed, what a restart or a save hands from one to the other, and is
  inductive with `TypeOK`; the work is in the lemmas on chains (`ChainAppend`,
  `ChainSuffix` for the cap, `ChainRemove` for a rollback, `ChainDrop` for a deletion)
  and in `SaveKeepsChain`: a late save that has met no change of what it shares is the
  state before the operation. The action
  property rests on `WinnerClassifies`: every entry for the domain has the
  winner's category and review status afterwards. Assumed: an imported entry has
  a category and a review status, as the importer sees to.
- `InterceptProofs`: `TypeCorrect`, `OpenAtThresholdCorrect`,
  `GatedNoContactCorrect`, `RuleStubServedCorrect`.
  `OpenAtThreshold` is inductive. `GatedNoContact` needs `QuietInv`: a quiet
  request is there only while the mode is stub-only, and past the gate its
  decision is a stub. `RuleStubServed` needs `ReloadInv` (the configuration in
  force, and the one a reload is storing, validate, except between the stores of
  catalog and rules) and `ServedInv` (a steady request's catalog has the entry its
  decision names).
- `RelayReloadProofs`, on `QuicRelay`: `TypeCorrect`, `NoBlackHoleCorrect`,
  `RoutesKeptCorrect`, `DatagramsInOrder`. The strengthening is `ServeInv` (what
  `Serve` holds: a client, from the dial on a socket of that client) with
  `RouteInv`: a route leads to a socket dialed for its client, and the key that
  `Serve` is about to fill is free, because nobody else adds to the table. For the
  order, `OrderInv` says where each run of datagrams ends: what a sniffer buffers,
  what the socket of a route was sent, and what is written and left to replay taken
  together, all end at the last datagram of that client that `Serve` dealt with, so
  that the next one continues each of them. Assumed of the constants: `None` is none
  of the others. On `ConfigEditors`: `EditorsTypes`, `EditsAreKept`. The text of an
  edit has what the edit sets once it is made (`MadeInv`); so has the file for the
  last acknowledged edit while nobody is between the truncation and the write
  (`LastInv`); and while no two overlapped one edit is under way at most, whose text
  is the wanted one with its change (`AloneInv`). On `ConfigReload`: `ReloadTypes`,
  `ReloadIsApplied`, by `AppliedInv`: a reload under way that was asked for after
  the last change has read what the file has. Assumed: the patched sections are some
  but not all, and values are told from the default and from what does not load. On
  `MCRelayReload`: `BothImplemented` and `RelayReloadTypes`, as for `MCControlPlane`
  below.
- `ServerProofs`, on `ServerLifecycle`: `LifecycleTypes`, `ReportsAlwaysFit`,
  `DrainAlwaysGoesOn`, `OffersAlwaysEnd`, and from them `NobodyIsStuck`. The channel
  never holds more reports than there are finished tasks (`FitInv`), so that one of
  four that still has to report finds a place; `DrainInv` relates how far `drain` is
  to the servers it has told to stop, and the listener's state to its acceptor and
  to what is offered.
- `ControlPlaneProofs`, on `AdminServer`: `AdminTypes`, `SessionsStayCurrent`,
  `AnAdminRemains`. `SessionInv` follows a session back to the request that opened
  it: whoever passed the password check holds what the account had then, and a
  request that changed it removes the sessions afterwards. For `AdminRemains`, memory
  and file have an administrator, and the one who asks for a deletion is one and not
  the one deleted. On `LoginGuard`: `GuardTypes`, `GuessesBounded`; the strengthening
  counts the requests that passed the check together with the guesses already made,
  which is what a check before the wait and a count after it can guarantee. On
  `AdminEndpoints`: `EndpointTypes`, `RolesKeepBounds`, `DoneIsAudited`. `AllFit` says
  of every row of the route table that it changes only what its capability is for
  and is audited if it changes more than bookkeeping, `RolesReach` of every role
  that its capabilities lead no further than it is permitted; `CallInv` relates a
  request's phase to what it changed and wrote. On `Traffic`: `TrafficTypes`,
  `StreamIsExact`, `ViewsAreRedacted`. `StreamInv` ties the three ways to count a
  record together: its place in the ring, its number among those logged, and the
  cursor of the stream (`SlotsHold`, `StreamSent`, `StreamLost`). Assumed: an empty
  place of the ring is told from a record. On `MCControlPlane`: `ComponentsImplemented`,
  that `MCSpec` implies the specification of each of the fourteen components
  (`OneMoves`: a step is one of the component that `part` names, and a stutter of all
  others), so that what is proved of one of them holds in the composition; and from
  it `ControlPlaneTypes`.
- `CatalogProofs`, on `RuleCatalog`: `CatalogTypes`, `AcknowledgedReviewsKept`. What
  was acknowledged and not overwritten is in the store it was made in, in the file, and
  in what a failed `Sync` copied unless it is one of those it is about to overwrite
  (`missed`). On `ManagedFeed`: `FeedTypes`,
  `FeedHistoryBalances` (the lemma is on cardinalities: what is new less what is
  gone is the difference of the sizes, also when the history is cut at its limit),
  `TargetStaysFresh`, `EmergencyIsSticky`. On `FeedRegistration`: `RegistrationTypes`,
  `FeedAddedOnce` (AdGuard Home has at most one filter with the feed's address, and
  none while the handler is about to add one). On `StateFile`: `LockedAckedDurable`,
  `LockedRefinesRegister`, both under `MutexHeld`, and without it `StateFileTypes`. The
  strengthening says that at most one
  writer is active, that it alone has written to the inode of `path.tmp`, that this
  inode is not that of `path`, and that the inode it will rename holds its version. On
  `ConfigFile`: `ConfigTypes`, `PatchesCorrect`. `Laid` describes a patched text by the
  places of its lines: up to the end of the section they are the old ones with the keys
  of the edit replaced, then come the new ones, then the rest, moved back. From it
  follow the section of every line (`LaidSections`), that what set a setting before
  still does (`LaidKept`) and that every key of the edit is set (`LaidSets`); a patch
  that adds its section is one of a text that ends in the empty section (`PatchBehind`).
  `EndOfSection` says that the patch and the parser see the same section where no
  header with a comment behind it follows in it; a patch past such a header leaves a
  sequence of lines that loads (`PatchedType`), and the next edit is held to what it
  finds. Assumed: the keys of an edit are finitely many, and no section has the empty
  name.
- `InputProofs`, on `PolicyFiles`: `PolicyTypes`, `FirstMatchDecides`. What is in
  force are the rules of documents that were read one by one (`PolicyInv`); the
  lemma `FirstRuleDecides` says that the stable order by priority puts first, among
  the rules that match, the one of highest priority in the first file. On
  `Passthrough`: `PassTypes`, `PeekIsExact`. `Reading` says how far the peek is in
  the client's stream and that it holds exactly what came before; `Returned`, that
  what the reader has got and will get is what was read, but for a stretch of the
  record in which a read failed. On `InitialCrypto`: `InitialTypes`,
  `JoinsAreExact`. The chunks are stretches of the hello; the insertion sort puts
  them in the order of their offsets and loses none (`ChunksSorted`); after each
  chunk the join is the hello up to the first byte that none of the chunks before
  covers (`JoinedTo`), and the order makes a gap final. On `UnmatchedRequests`:
  `UnmatchedTypes`, `RecentAreKept`. The place of a key in the table is the number
  of keys that came in later (`Ranked`), a key that fewer than `AggregatorMax` are
  newer than is there, and its count is that of its requests since it was last
  pushed out, which is told from the log alone (`CountedIn`, `EvictedIn`). On
  `CertIssuer`: `IssuerTypes`, `LeavesServable`. Every copy of a leaf, in memory, on
  the disk and in a handshake, is signed for the name and by the CA under which it
  is kept (`LeafInv`); the disk may hold a torn file, which does not load. Assumed:
  what a client's frames carry is a stretch of its hello; the documents, the streams
  and the bounds are otherwise free.

What a recursive function computes takes an induction, and the library's induction
theorems take the induction hypothesis as an operator, which the installed provers
cannot instantiate. `Inductive` states it for a set instead: a set that has 0 and with
each number the next has all of them (from `LeastNat`, for which the library's theorem
on well-founded relations is enough). `Iterates` and `Recursion` say from it that a
function defined along 0..n exists and takes its step at each number.

The assumptions on the constants are those of the modules (finite sets of requests
and entries, positive thresholds and caps, null values that are not among the
others); TLC evaluates them in the runs.

Only model-checked:

- `ConnsResolved` and `DrainEnds`: liveness under fairness is beyond the prover.
- `OpenIffBroken`: it is false of configurations with mimic or path-scoped passthrough
  and of clients that go away, and says something of the instance of `intercept_forward`
  only. Of every configuration, `OpenAtThreshold` is proved: the breaker is open exactly
  when it has counted to the threshold.
- That the code disagrees with a text in the five runs that expect a violation.

## Where the code and its words disagree

Five have a run that shows the behaviour:

- `sources_deleted`: a sync that was fetching while its source was deleted stores
  its copy of the source again (`manager.go:520`). The same write-back restores
  `PendingReview` and settings that were changed during a failing fetch.
- `state_file_unlocked`: `persistState` runs without the lock, all callers share
  `path.tmp`, and an older snapshot can replace an acknowledged newer one.
- `lifecycle_drain`: `Close` closes `done` before the inner listener, so the
  acceptor may drop its error; `Accept` waits for `conns` and `errs` only, and
  `Run` never returns. This is the `AcceptStranded` exception of `DrainEnds`.
- `intercept_splice`: a passthrough domain is spliced to its origin in stub-only
  mode, which is documented as never contacting an upstream.
- `config_editors_lost`: the editors of the configuration file read it before they
  write it and hold no lock (`agh_managed_handlers.go:501`, `:558`,
  `handlers.go:419`): of two at a time, the later write undoes the earlier edit,
  which was acknowledged and which the tests expect to find in the file.

Others are behaviours of the models, stated here rather than checked:

- The percentage threshold is skipped for an empty list (`manager.go:2186`), so
  with that threshold alone a source that comes back empty loses everything
  unreviewed; `LargeRemovalsReviewed` makes the same exception.
- A rollback restores what was there before its change even if the override has
  been deleted with its source since (`manager.go:475`): after the source is
  imported again, it brings back an override from before the deletion.
- The percentage is taken of the lines of the new list (`manager.go:513`, `:2189`),
  in which `ParseRules` leaves repeated ones (`rulecatalog/parse.go:202-230`): the more
  a list repeats itself, the larger the removal that is applied unreviewed.
- A snapshot on its way to the file shares the map of overrides and the array of
  records with the memory (`manager.go:1744`, `:1750`), and `persistState` serialises
  it after the unlock (`:1051-1053`, `:1129-1131`), while the next operation changes
  the map and, in a rollback, shifts the array in place (`:1127`): the file can have an
  override without its record, a record without its change, or a record twice. A
  rollback after a restart from it need not undo "one reversible catalog override
  change" (`:251`). `RollbackChain` excepts such a file (`mixed`).
- A temporary accept error ends the acceptor of `:443` (`server.go:521-528`)
  while `http.Server` goes on waiting and the server stays ready.
- A fatal listener error drains, but the health server and the scheduler stop on
  the signal only, so `Run` returns only once a signal comes.
- The pump of a QUIC flow removes the key of its client whoever has it
  (`quic.go:247`): when the reaper has removed the flow and the client has been
  routed anew before the pump wakes up, the new flow loses its route, and the
  client's datagrams, which are no Initial packets, find no SNI. This is the
  exception `robbed` of `RoutesKept`.
- A QUIC flow that is being resolved while `Close` walks the table is added
  afterwards; its socket stays until the origin is silent for 60 s.
- A client that goes away counts as a failure of the origin (`server.go:766`);
  with `ClientAborts = TRUE`, `OpenIffBroken` does not hold. A body that is cut off
  counts as nothing.
- A mimic probe that fails is reported as a success (`server.go:676-678`), so
  the breaker of a mimicked origin never opens.
- After the cooldown all requests are admitted until the threshold is reached
  again, where the comment says one probe (`breaker.go:51`); and a late success
  ends the cooldown at once.
- A path-scoped passthrough is forwarded without asking the breaker.
- `reload` stores catalog and rules one after the other (`server.go:866-868`,
  "swap both atomically"); a request between the two may be answered with the
  204 for a missing entry. `RuleStubServed` excepts these requests (`steady`).
- The administrator approves a pending import by its source (`manager.go:577`):
  what is applied is the list pending at that moment, which a sync may have
  replaced since it was shown.
- A login that read its account before a delete or a reset opens a session
  afterwards; a save that fails ends the handler before `destroyUser`
  (`handlers.go:634`) although the memory is changed, and the next audit entry
  saves the change that was reported as failed; a create overwrites an account that
  another one made meanwhile (`handlers.go:597`). `SessionsCurrent` excuses these.
  Changing the own password keeps the other sessions (`admin.go:417`).
- Two administrators who delete each other at the same time, or an administrator
  of the identity provider without an account, leave none; `AdminRemains` excepts
  them (`disowned`), and the bootstrap only helps a store without accounts.
- A handler that fails after its change took effect answers an error and audits
  nothing (`handlers.go:532`); fetching the feed or the export changes history,
  target cache and emergency switch, unaudited.
- At 500 addresses a new one is not counted (`session.go:169`).
- A generation that copied its settings before the administrator turned the
  emergency off turns it on again when its resolution fails (`manager.go:1343`).
- A header with a comment behind it (`[x] # note`) does not end the section before
  it (`agh_managed_handlers.go:974`): a patch of that section changes the keys of the
  same name in the next one, takes them for its own, or adds its keys there, and is
  acknowledged. `PatchCorrect` excepts such a patch (`strayed`).
- All configuration editors write `path.check`: of two at a time one may validate the
  text of the other, or find the file removed and validate the defaults. Two writes
  at a time can tear the file, which then no editor patches and no start loads until a
  PUT replaces it. A write truncates the file first (`handlers.go:419`): a crash or a
  reload in between finds an empty file, which loads as the defaults.
- The policy editor validates a document by itself (`handlers.go:117` says "never
  persist a broken ruleset"): a rule name that another file has is written, and
  every later load is refused.
- A sync whose fetch fails replaces the entries by a copy made before
  (`catalog.go:425`), and one whose save fails replaces them a second time
  (`:429-431`): a review made in between was acknowledged and is overwritten, in memory
  and in the file. `ReviewsKept` excepts these reviews (`missed`).
- A successful sync discards all reviews, by design; a review made after a reload
  does not reach the store that serves until the next one (`late`). Where two
  entries match equally well the order of a map decides (`catalog.go:291`).
- In debug mode without redaction, records of an earlier full mode are shown in
  full. The admin server's write timeout of 30 s cuts every event stream, and the
  next starts at its own time (`server.go:290`).
- A request that AdGuard Home carries out after the client has given it up, or two
  registrations at a time, may add the feed twice; and a retry that finds the feed
  does not refresh it (`agh_api.go:128`).
- `PeekClientHello` "replays every byte read" (`sni.go:11`), but after a read error
  what `readFull` had read is lost (`sni.go:29`, `sni.go:48`), and `route` still
  gives the connection to `Accept`; `PeekExact` allows this one gap.
- `halfClose` does nothing for a `prefixConn` (`passthrough.go:58`), so the end of
  the origin's stream is not passed on to a spliced client, and `Splice`, which
  "copies bytes in both directions until either side closes", waits for both.
- `saveDisk` writes a leaf's file in place and `loadDisk` does not compare
  certificate and key: a read that meets two handshakes writing the same name one
  after the other can combine them. The model reads a file in one step.
- A reload replaces the rate limiter by one with a full bucket (`server.go:884`).

## Not modelled

Text processing without state (the filter-list parser, header scrubbing, hash
rewriting, range parsing, the templates and filters of the admin UI), cryptography
(QUIC packet protection, keys and signatures), the bytes of stubs and decoys with
the cache of their shapes, metrics, logging, sd_notify, the command line. The
resolver keeps no state: its outcome is a choice where it is asked. The rate
limiter is arithmetic on wall-clock time under one mutex that nothing else reads.
The defaults and rules of `config.Check` are reduced to whether it accepts.
Startup errors of `Run` end the process before any of the modelled state exists.
`PROJECT.json` lists every part with its status, and the hazards with the
properties that would catch them. Those without one go wrong in the code, and the
property that is nearest excepts them; each has a note that names the exception.

## Plan

Done: all components that keep state and interact, as listed above. Left: pending
lists of one moment in a file with sources of another (`ManagedSources` writes what
is pending when the file is written), of which no property says anything, and a save
of `ManagedOverrides` that more than one operation overtakes.
