# A TLA+ model of pispot-ui

pispot-ui is the web interface of a Raspberry Pi hotspot: a Go server that
reports what the host's network is doing, a helper protocol through which
administrators start and stop the upstream link, and two pages of JavaScript.
This directory models the parts of it that keep state and can get it wrong,
checks the models with TLC, and proves with TLAPS, for every value of the
constants, every safety property that TLC checks on small ones.

    tlc -config MCLazyCache.cfg LazyCache        # one of the runs below
    tlapm LazyCacheProofs.tla                    # the proofs, and so for each *Proofs

## The system

| Component | State | Operations | Interacts with |
|---|---|---|---|
| hotspot, WAN and admin collectors (`internal/{hotspot,wan,admin}`) | mutex, time of the last refresh, atomic pointer to a snapshot | `Snapshot`: test the age, refresh, load | `/api/stats` handlers call it, concurrently; it runs `iw` and `ip`, reads sysfs, `/proc` and the lease file |
| throughput and system samplers (`internal/{netstats,system}`) | previous sample, atomic pointer | a goroutine with a ticker | `/api/stats` reads the pointer |
| authentication (`internal/authz`) | cache of roles | middleware: cache, helper, verdict | the helper pispot-authd over a Unix socket, which is not in this repository |
| handlers (`internal/api`) | none of their own | `/api/stats`, `/healthz`, WAN up and down, Wi-Fi list, add, remove, reload | all of the above |
| process (`cmd/pispot-ui`) | signal, listener | start, shutdown within 5 s | |
| dashboard (`web/static/app.js`) | pending operation, buttons, role | timer, polls, clicks | `/api/stats`, `/api/wan/*` |
| Wi-Fi page (`web/static/wifi.js`) | restart flag, button, list | timer, polls, clicks | `/api/stats`, `/api/wifi/*` |

What is hard: handlers run concurrently and share the collectors' caches, with
the mutex let go between the test and the refresh and not held for the read;
commands hang, fail half way and die with the request that started them; the
helper may act and then lose the connection; cached roles outlive changes on the
host; counters wrap, reset and vanish; and on the pages every `await` lets other
callbacks run, while polls and replies overtake each other; and one request waits
for three collectors, one after the other, while the process may be asked to
end. `PROJECT.json` lists each such hazard at its line.

What makes each part correct:

- collectors: for every reader the outcome of an attempt that is not yet a TTL
  old, one refresh at a time, a failing command that does not destroy data but
  says that it failed, nobody locked out;
- authentication: nobody served without a reply of the helper that was received
  within the TTL, and no operation asked for but by those it called admins;
  status codes that do not lie about operations;
- throughput: rates that count only what was carried;
- system: samples without leftovers, of the right sensor, and a log that agrees
  with them;
- process: a bound on how long a request can take, and an end after a signal;
- pages: buttons that offer what the state of the host allows, and neither lock
  for good nor unlock while an operation is under way; a list that is the
  helper's once everything is over.

## The modules

| Module | Models | Built on |
|---|---|---|
| `FreshRead` | what a collector promises its readers (abstract) | |
| `LazyCache` | the discipline that `Snapshot` and `refresh` follow, three times the same code | implements `FreshRead` |
| `LazyCacheProofs` | theorems about `LazyCache` | |
| `CommandCache` | `LazyCache` with a stat in sysfs and commands that share one timeout and the request's context | `LazyCache` |
| `WanCollector`, `HotspotCollector`, `AdminCollector` | the three refreshes | `CommandCache` |
| `Authz` | middleware, cache, helper conversations, checks of the handlers | |
| `Netstats` | the throughput sampler | |
| `System` | the system sampler, the scan of `/proc/meminfo`, the choice of the thermal zone | |
| `Server` | the time that `/api/stats` handlers spend with the three collectors, and the end of the process | |
| `Dashboard` | the WAN buttons of `app.js` | |
| `ReloadButton` | the restart button of `wifi.js` | |
| `WifiNetworks` | the network list of `wifi.js` | |
| `WanProofs`, `HotspotProofs`, `AdminProofs` | theorems about the collectors | `LazyCacheProofs`, by instance |
| `AuthzProofs`, `ServerProofs` | theorems about these two | |
| `SamplersProofs` | theorems about `Netstats` and `System` | |
| `PagesProofs` | theorems about `Dashboard`, `ReloadButton` and `WifiNetworks` | |
| `MCSamplers`, `MCWifiPage` | the two samplers, and the two parts of the Wi-Fi page, for one run each | `Netstats`, `System`; `ReloadButton`, `WifiNetworks` |
| `MCWan`, `MCHotspot`, `MCAdmin`, `MCAuthz`, `MCDashboard` | symmetries and inputs for TLC | |

**Collectors.** `clock`, `mu`, `lastAt`, `snap` are the fields of `Collector`;
`pc[r]` is where the handler `r` is, `now[r]` and `prev[r]` are locals of
`refresh`. `Call`, `Check`, `Enter`, `Publish`, `Load` are the atomic stretches
of `Snapshot` and `refresh` between points where another goroutine can see or
change something: `Check` is the first critical section, `Enter` the second up
to the commands, `Publish` the store with the deferred unlock (`lastAt` is only
ever read with the mutex held, so store and unlock are one step), `Load` the
read of the pointer. A refresh is then one step per command: `step[r]` says
which is running, `found[r]` is the local `info`, `deadline[r]` the timeout of
`runCtx`, and `gone[r]` says that the client has hung up. A command may fail at
any time, and answers only while its context lives; what it prints is any value
of its type.

What a reader is promised is the *attempt*, not the data: a fault dates the
snapshot anew and stores the last-good data again with its error, so that the
data may be of any age, and the placeholder's if no refresh has succeeded yet.
`FreshRead` says so, and so does `ServedFresh`.

Which failures keep the data is not the same for the three. `Faults` are those
that republish what the cache held; `Verdicts` come with data of their own. For
the WAN the former are all failures of commands; for the hotspot only those of
`iw`. The admin collector is not a `LazyCache` of its whole `Info`, for a failing
`ip addr` keeps the addresses but not the link; `AddrCache` is the cache of the
two addresses (`Projected`), of which `AddrErrors` are the faults.

`Snapshot.At` and the fields that only decide what is logged
(`prevConnected`, `prevSSID`, `prevAbsent`, `prevClientCount`, `prevLink`,
`prevIP`) are left out. In `WanCollector` the association is one value, `link`;
in `HotspotCollector` the clients are a function from MAC to address, for sorted
by MAC the function determines the slice.

**Authz.** A request is `arrived`, then in the middleware (`miss`, `asked`,
`verdict`), in its `handler`, in an operation (`op`, `result`) and `done`. The
cache's methods hold its mutex throughout, so each is one step; between `get` and
`set` no lock is held. The helper answers anything: accounts change on the host.
`AuthFails` and `OpFails` break the connection before or after it has answered.
`heard` is a history variable: when the middleware last decoded a reply about
these credentials, which is when the cache's TTL begins. The helper gave it
earlier, and since nothing bounds the time until it is read, what is promised is
an age counted from there. `socket` says whether AUTH_SOCKET is set. Keys are the
credentials themselves: SHA-256 is taken to tell passwords apart.

**Netstats.** `dev` are the kernel's counters, which carry traffic (modulo
`Width`), vanish and appear; a line of `/proc/net/dev` that cannot be parsed
loses its own interface, a file that cannot be read all of them. `Read` and
`Publish` are the two parts of `tick` between which the host can change.

**System.** `host` is the published snapshot and `warned` the local
`prevThrottled`; a tick is one step, for only its own goroutine writes what it
touches. Sizes are read in kB and multiplied by 1024 (`KB`) in words of 64 bits
(`Word`), both modulo the word, as Go's `uint64` is. Readers fail independently;
a file of up to `MaxLines` lines is scanned as the code scans it, each line
already split into its name and its number. The zones are scanned in the order of
the directory and may come and go between ticks. Zone 1 is `thermal_zone0`. The
three load averages are one number. `log`, `zone` and `steady` are history
variables.

**Server.** Where `LazyCache` says what a reader gets, `Server` says when. It
composes the three mutexes that a `/api/stats` handler takes in turn and keeps
time as ages, so that the model is finite without a bound on the clock: `age[c]`
since `lastAt` of a collector (all ages beyond the TTL are alike), `since[r]`
since a handler began to wait for the mutex or to refresh, `elapsed[r]` since
its handler began. Time passes only when every handler waits or refreshes, and
no refresh lasts longer than the timeout that its commands share. `Gets` and
`Hunger` are Go's `sync.Mutex`: in normal mode a newcomer may overtake those
who wait; a waiter that finds the mutex taken after a millisecond switches it to
starvation mode, in which it is handed over in turn. What a refresh stores is
left to the other modules. Shutdown waits for the handlers, and for connections
that were accepted and have not sent their first request, until its grace has
passed. That such a connection is dropped sooner, by ReadHeaderTimeout
(main.go:68) or because Shutdown takes one that has been silent for five seconds
for idle, is left out: it would only let Shutdown return earlier.

**Pages.** One action per callback: what runs between two `await`s is atomic in
JavaScript. Polls and operations are external requests that come back in any
order or fail. `Refresh` and `Answer` in `Dashboard` are the server as the page
sees it: the WAN collector may refresh at any time, and a reply says what the
cache held when it was written, so that they allow all that `WanCollector` and
`/api/stats` do, and more. `accepted` is a history variable. In `WifiNetworks` a
*task* is a run of `loadNetworks`, `addNetwork` or `removeNetwork`; its answer
carries the list as it was when the helper wrote it, and is applied when the task
goes on. Two history variables record what the page cannot know. `outdated` is
about what it shows: the list was old already when it came, because a change or a
later list overtook it; or the answer to a change got lost after the helper had
acted; or another administrator has changed the list since. That tasks overlap
does not by itself make the page outdated, so that `ShowsHelperList` is also
about tasks that do. `excused` is about what it may rely on when it enables a
button that removes: there, tasks of its own that overlap count too, until one
that is alone asks for the list. The helper here allows the removal of the last
network, so that only the page's disabled button prevents it.

## The runs

| Run | Checks | Bounds |
|---|---|---|
| `lazy_cache` | `TypeOK`, `Exclusive`, `RefreshInOrder`, `ServedFresh`, refinement of `FreshRead` (`Implements`), liveness `Answered` | 3 handlers: one refreshes, one waits with a stale test, one reads; time for three refreshes, two of which a TTL apart |
| `wan` | `TypeOK`, `DisconnectedIsBlank`, `HeldBriefly`, `KeepsDiscipline` (refinement of `LazyCache`) | 2 handlers, 2 associations; TTL 1 and timeout 2 as in the code, time for a refresh that times out and for one after it |
| `hotspot` | `TypeOK`, `KeepsDiscipline` | 2 handlers, 2 stations |
| `admin` | `TypeOK`, `KeepsDiscipline`, `AddrErrorKeepsAddrs` | 2 handlers |
| `authz` | `TypeOK`, `ServedVouched`, `OpsByAdmins`, `StatusTellsTruth`, `EveryRequestAnswered` | 2 requests, 2 passwords of one user; TTL 0 and a clock of 1, so that an entry is good in its own instant and expired in the next |
| `samplers` | `TypeOK`, `NeverOverstated`, `ExactWhenIntact`; `HostTypeOK`, `SnapshotIsSound`, `LogTellsThrottling`, `ZoneIsPreferred` | one interface (interfaces share nothing but a failing read), 3-bit counters that can wrap between two samples and pass their old value; 3 thermal zones of 5 types, files of 3 lines, sizes up to 2 kB of 2 bytes in words of 8, so that a difference can wrap |
| `dashboard` | `TypeOK`, `OneWayOnly`, `PendingHasCause` | 2 polls and 2 operations out at once |
| `wifi_page` | `ButtonTypeOK`, `OfferedOnlyIfActive`, `LockEnds`; `NetworksTypeOK`, `ShowsHelperList`, `LockedWhileAdding`, `EmptiedUnawares` | 3 restarts and 2 polls at once; 2 tasks at once, 3 networks |
| `server` | `TypeOK`, `AnsweredWithin`, `ShutdownEnds` | 2 handlers, 3 collectors; TTL 1, timeout 2 and grace 5 as in the code, in seconds |

Every property of these runs fails when a definition of the model is changed the
way a bug would change the code; the changed definitions stand in the modules,
each before the one it replaces and marked *Mutant*.

`KeepsDiscipline` says that the collectors are `LazyCache`s, the admin collector
as far as its addresses go. With the theorem
that a `LazyCache` implements `FreshRead`, they keep the contract: the proofs
put the two together.

`samplers` and `wifi_page` each check two modules that share no variable. A
behaviour runs one of them, chosen at the start, while the other stands still:
the states are those of the two modules side by side, not their product, and
every property is about one of them.

`AnsweredWithin` says that a handler among *N* is done after *3 (2N + 1)*
timeouts: for each collector it waits for its turn at the first test and at the
second, each time for the refresh that is under way and at most one of each other
handler, and then refreshes. Smaller bounds are violated: for two handlers the
bound is 30 s and 29 s is too little. Since a TTL is shorter than a timeout,
hanging commands make every handler refresh in turn, so that browsers which poll
every second can make *N* grow; the model takes it as given. A handler that is
alone needs 6 s when all commands hang, which is longer than the grace of
Shutdown: `ShutdownEnds` then ends with exit status 1.

`lazy_cache` has time for three refreshes only, so that its `Answered` sees little
of a mutex for which handlers contend over and over; how long they contend is
what `server` is for, in which the clock has no bound and the mutex follows Go's
rule instead of an assumption.

The bounds are enough for what the properties are about because handlers,
stations, requests and polls do not count each other: what can go wrong needs
one that acts, one that acted on what has changed since, and a third that looks.

### What the code does and its comments deny

Three runs end in a counterexample; `PROJECT.json` quotes the lines.

- `wan_present`: an adapter that has just been plugged in is shown as *interface
  not found* when its first `iw` fails, for the error is published with the data
  of the absent interface.
- `dashboard_locked`: `wanOp` locks the buttons only with the next poll; two
  clicks before it, and the failure of the first, unlock them while the second
  is in flight.
- `reload_display`: a refused restart unlocks the button, waits, and clears the
  flag again, which may by then be that of another restart.

Three passing runs state what holds where a comment says something else:

- `hotspot`: a lease file that cannot be read does not leave the last-good
  clients but publishes the stations without addresses; the run passes with this
  error among the `Verdicts`, which replace the data, and not among the `Faults`.
  An interface that is missing from sysfs blanks the clients too.
- `admin`: of the failures that eth.go:5-7 and src/README.md:26-28 say keep the
  last-good data, only that of `ip addr` keeps anything, and not the link. An
  operstate that cannot be read, and an absent interface, publish what is new
  (`Verdicts`), and a failing `ip route` blanks the gateway without an error.
- `samplers`: `bcm2712_thermal` and any other type with `cpu` in it are equals,
  and the first in the directory wins; the comment prefers the former.

## Fairness

- `LazyCache`: strong fairness of taking the mutex. A Go mutex
  is handed to a waiter that has starved for a millisecond, so a handler that
  finds it free again and again gets it. Weak fairness of a refresh: its commands
  are killed when their context expires. `CommandCache!Tick` says the same of
  time: it does not pass a deadline while a command runs. Callers have none.
- `Authz`: weak fairness of the goroutines and of the helper's end of a
  conversation. The latter is an assumption about pispot-authd: `callHelper` and
  `callSocket` set no deadline once they are connected.
- `Server`: weak fairness of each handler's step, of time, and of the return of
  Shutdown. The helper is under no obligation, and signals need not come. Which
  handler gets a mutex is the mutex's own rule, not a fairness assumption.
- `ReloadButton`: weak fairness of the continuations and the timer: fetches end
  and delays expire.

## What is proved

Every safety property and every action property of a passing run is a theorem
of its specification, and so is every refinement. The bounds of the runs are
gone from them: any number of handlers, requests, tasks, polls, stations, zones
and lines, any times, any width of a counter. What the constants must satisfy
stands in one named assumption per module (`CacheAssumption`, `WanAssumption`
and so on), which TLC evaluates; the pages need none. They ask for no more than
that times and bounds are natural numbers, positive where the code's constants
are, that a value such as `Unset`, `NoUser` or `Gone` is not taken for data, and
that the host's memory in bytes fits a word.
`ServerAssumption` also says that the handlers are finitely many, since the bound
counts them.

### The refresh discipline

`LazyCacheProofs` proves `TypeCorrect`, `MutualExclusion` (`Exclusive`),
`OrderedRefreshes` (`RefreshInOrder`), `FreshReads` (`ServedFresh`) and
`Refinement` (`Implements`, the contract of `FreshRead`). `FreshReads` bounds the
age of the attempt whose outcome is read; that a fault comes with the data of the
snapshot before it is what `Refinement` adds. No bound on the age of the data
follows, and none holds.

None but the first is inductive. `IInv` adds where the clock is relative to the
times that handlers remember (`TimesInOrder`): without `asked[r] <= clock` a
handler that finds the cache fresh, or publishes, could have asked in the future;
and it needs `Exclusive` and `RefreshInOrder` together, for a refresh keeps its
`prev` only because nobody else can publish. `NextIInv` has a step per action.
The refinement maps `Publish` to the contract's step of that name (this uses
`RefreshInOrder`), `Load` to `Serve` (this uses `ServedFresh`), and everything
about the mutex to stuttering.

### The collectors

`WanProofs`, `HotspotProofs` and `AdminProofs` each prove `TypeCorrect` and
`Discipline` (`KeepsDiscipline`): the collector implements `LazyCache`. The lemma
`RefreshForms` sorts the steps of a refresh into those that begin it, go on and
end it; an end is `LazyCache`'s `Publish`, with data of the right type (this
takes the types of what is half filled), or with the last-good data and a fault;
the others stutter. Instances of `LazyCacheProofs` then carry its theorems over:
`FreshReads` and `ImplementsFreshRead` say of the real collector what
`ServedFresh` and the contract say of the abstract one, so that the chain from
commands to contract has no link that only TLC has seen. For the admin collector
all of this is about the addresses.

- `MutexHeldBriefly` (`HeldBriefly`): needs that the deadline of a refresh under
  way is a timeout after its beginning, and that the clock has not passed it.
- `NothingOfAnEarlierLink` (`DisconnectedIsBlank`): needs the same of the
  last-good data that a refresh keeps, and that a refresh which looks up
  addresses has found a link.
- `AddrsKept` (`AddrErrorKeepsAddrs`), an action property: needs that the
  last-good data of a refresh under way is what is published.

### Authentication

`AuthzProofs` proves `TypeCorrect`, `Served` (`ServedVouched`), `Operated`
(`OpsByAdmins`) and `Truthful` (`StatusTellsTruth`), with any number of requests
racing for the cache. `VouchInv` adds `Cached`, that an entry of the cache says
what a reply about these very credentials said and expires no later than a TTL
after that was decoded, and `Operating`, that an operation has begun only for an
admin. `TruthInv` adds what is true of an operation before it is answered:
nothing has been carried out before the helper's answer, and its answer says
whether.

### The time of `/api/stats`

`ServerProofs` proves `TypeCorrect` and `Answered` (`AnsweredWithin`): that a
handler among *N* is done after `Sections` *(2N + 1)* timeouts, for any *N*. TLC
sees two handlers; that the bound grows with *N* in just this way is what the
proof is for. It goes in two stages. `WaitInv` bounds one wait for a mutex by
*N* timeouts: `Patient` gives the handler a budget of one turn for each handler
that is not ahead of it in the queue, less one until the mutex starves, while a
newcomer may still overtake; each turn is paid for when a refresh begins, and
time that passes is always a turn's. That no more than one handler can overtake
comes from Go's rule: the next release after a millisecond's wait hands the mutex
over. `SpentInv` adds up two waits and a refresh for each collector. The counting
rests on lemmas about `Ahead`, the set of waiters that are older.

### The samplers

`SamplersProofs` proves of `Netstats` `TypeCorrect`, `RatesNotOverstated`
(`NeverOverstated`) and `RatesExact` (`ExactWhenIntact`). `IInv` adds what holds
between the samples: `Accounted`, by how much a counter can have grown since the
last sample, and `Compared`, the same of the two samples that `tick` has before
it publishes. `Read` turns the former into the latter, `Publish` the latter into
the properties.

Of `System` it proves `HostTypeCorrect` (`HostTypeOK`), `SnapshotsAreSound`
(`SnapshotIsSound`), `BestZoneIsRead` (`ZoneIsPreferred`) and `LogIsTrue`
(`LogTellsThrottling`). The last is not inductive: `LogInv` adds that `warned`,
from which the next step decides what to log, agrees with the log at all times
and with the sample once the loop runs. The other three are inductive together
(`HostInv`), but a step is a scan of the file or the directory, a fold of any
length. `Peel` is the induction that folds need, stated of a set of sets so that
it has no operator as a parameter: it follows from the well-founded order of the
finite sets. `FoldingExists` shows that there is a function that satisfies the
recursion of a fold, without which the library's definition, a CHOOSE, says
nothing. `FoldScan` and `ScanFindsBest` are the two inductions: whatever the
lines, each size is one that a line can hold or not found, and after each zone the
best so far is the best of those scanned (`BestOf`), wherever it stands.

### The pages

`PagesProofs` proves of `Dashboard` `TypeCorrect`, `OneWay` (`OneWayOnly`) and
`PendingIsCaused` (`PendingHasCause`), inductive together with the types; of
`ReloadButton` `ButtonTypeCorrect` and `OfferIsJustified`
(`OfferedOnlyIfActive`), to which `Offered` adds that the button is disabled
while a restart is in progress, for a report that comes then leaves it alone; of
`WifiNetworks` `NetworksTypeCorrect`, `LockTracksAdditions`
(`LockedWhileAdding`), `ListIsShown` (`ShowsHelperList`) and the action property
`LastIsKept` (`EmptiedUnawares`). `ListIsShown` rests on `UpToDate`, which says of
states in which tasks are out that the rows are right as long as none of them
owes a list: a change that is done owes one until it has come. `LastIsKept` needs
`AwareInv`: as long as the page has missed nothing, at most one task is out, the
list it was answered is the helper's, so are the rows unless a change of its own
is under way, and what it removes leaves a network.

### Only model-checked

Liveness, which the proof system does not treat: `Answered` of `LazyCache`,
`EveryRequestAnswered`, `ShutdownEnds` and `LockEnds`. The three runs that end in
a counterexample state what does not hold.

## Not modelled

- Parsers of `iw`, `ip`, the lease file and `/proc/net/dev` are abstracted to
  the values they can return.
- The JSON of `/api/stats` copies snapshots field by field.
- The rest of the dashboard renders a report and keeps no state but the refresh
  interval: a change restarts the timer, which the polls of `Dashboard`, sent at
  any time, include.
- Connections: the server sets no write timeout, so that a client that does not
  read keeps its handler; a second signal is swallowed while Shutdown runs.
- Configuration, build information and embedded files do not change after the
  start. Static files and `/healthz` without credentials take no part in what the
  models describe.

## Plan

1. Theorems about what the components promise together: a request's way through
   `Authz` into the collectors, and an abstract specification of the middleware
   that `Authz` implements.
2. Parsers as functions over token sequences, against a reference definition.
3. An interface that is published as up although it was missing from the sample,
   against handlers.go:415.
