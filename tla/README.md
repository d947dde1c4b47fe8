# coredns-netbox in TLA+

coredns-netbox publishes NetBox's IP addresses as DNS. A Go *sidecar* polls
NetBox, merges what it reads with dynamic entries (gRPC, NetBox webhooks), writes
zone files, serves them over HTTP and tells CoreDNS replicas to reload; the
*netboxreload* plugin in each replica fetches the files, swaps its zones in memory
and notifies secondaries, which transfer the zones.

These modules model that pipeline from NetBox's answer to the secondaries' zones,
TLC checks them on small instances, and TLAPS proves part of what is checked for
every value of the constants. Paths below are relative to `src/`; `PROJECT.json`
maps every definition to the lines it stands for.

## The system

| Component | State | Operations | Interacts with |
|---|---|---|---|
| poll loop, `cmd/sidecar/main.go` `run` | last NetBox zones, shrink baseline, "fetched once", webhook cooldown, staleness, readiness | ticker, forced, webhook and merge cycles; initial cycle | NetBox, store, zone manager, reloader; three channels of capacity one from the handlers |
| shrink guard, `internal/shrinkguard` | single-use consent | `EmptyResult`, `Evaluate`, `Arm`, `ConsumeIfArmed` | poll loop; control service |
| merge, `internal/merge` | none | `Write`: list the store's zones, read each, update | store, zone manager |
| dynamic store, `internal/dynamicstore` | zones and records, `dynamic.json` | upsert, delete, batches, reconcile, persist | gRPC, webhook, merge |
| webhook, `internal/netboxwebhook` | a mutex | apply an event: upsert, rename, delete, unpublish, trigger a poll | store, `mergeSignal`, `webhookPollSignal` |
| gRPC services, `internal/grpcserver` | NetBox cache, status | zone and record writes; force poll or merge; status | store, channels, consent |
| zone manager and generator, `internal/zonemanager`, `zonegen` | generators (last hash, serial), zone directory | `Update`, `removeOrphans`, `WriteFile`, `NextSerial` | merge; HTTP server |
| reloader, `internal/reloader` | dirty addresses | `Reload`, `Reconcile` | replicas, over gRPC |
| zone HTTP server, `internal/zoneserver` | none | list, conditional GET | zone directory; plugin |
| plugin, `coredns/plugins/netboxreload` | zones, validators, two locks | startup, poll and pushed reloads; NOTIFY; transfer; queries | zone HTTP server, secondaries |
| NetBox client, `internal/netboxclient` | none that outlives a call: attempt, pages, semaphore | probe, parallel pages, retries | NetBox; poll loop |
| enrichment and zone discovery: `ipcategorizer`, `nameformat`, `zonediscovery` | none | NetBox's rows to named records to zones, forward and reverse | poll loop |
| record validation and collisions, `internal/zonegen` | fingerprints inside the zone files | drop unsafe names, resolve CNAME collisions, render | zone manager; plugin's parser |

What makes it hard:

* one loop goroutine, any number of handler goroutines, channels that coalesce;
* a consent that is armed in one goroutine and spent in another;
* merges that read the store one zone at a time while handlers write to it;
* files, the store and the temporary files outlive a process; generators,
  baseline, dirty addresses and consent do not;
* writes that fail halfway through a list of zones;
* a fetch that reads NetBox in pages while NetBox changes, fails and recovers;
* a long row of pure steps between NetBox and an answer, each with exceptions the
  next has to agree with: naming, discovery, strip, merge, validation, collisions,
  hashes that say when not to write, and lookups that follow aliases;
* webhook deliveries that are late, repeated, reordered or lost, against polls
  that read NetBox at another time;
* reloads that read a directory one request at a time while it is being written,
  pushes that time out although the reload goes on, restarts on both sides;
* secondaries that compare serials only, while the clock may be set back and
  several writes may fall into one second.

What makes each component correct is stated in its module; the hazards, each at its
line and with the properties aimed at it, are in `PROJECT.json`.

## Modules

**`ShrinkGuard`** has the guard's rules as operators on counts: the empty result,
the global rule, the per-zone rule, and the order `Evaluate` tries them in.

**`Sidecar`** (with `ShrinkGuard`) is the process. `pc` is where the loop is in
`idle -> fetching -> read -> merging -> reading -> pushing -> idle`. `BeginFetch` to
`AcceptPoll` are `doFetchNetbox` and `fetchNetbox` with every early return;
`MergeGated`, `ListZones`, `ReadZone`, `MergeWrites` and `MergeFails` are
`guardedMergeAndWrite` down to `WriteFile`, the store read as `merge.Write` reads it: its
zones, then each under a lock of its own, and anything may come between;
`Push` is the reloader seen from the loop. Handlers are one action per
store write and one per channel send, so that anything can come between, and
`ForceNetboxPoll` with consent is split between `Arm` and the send. A crash may
hit an `Update` between any two file operations. A record is a name, a zone file the
set of its records tagged by origin; `ZoneOf` stands for zone discovery, with names
that map to no zone.

**`Webhook`** looks at the store more closely: a handler's read and its write are
two steps under the handlers' mutex, gRPC and the loop's reconciliation come
between, events carry the time of their change, the store has a memory and a
file, and a fetch has the time it began and the time it read. A merge reads the zones
in any order (`ReadZone`) and publishes what it has read (`Merge`). `Sidecar` takes the
webhook's store writes as single steps.

**`Propagation`** begins where `Sidecar` ends: files get written (through a
temporary file in the served directory), removed and pushed; a replica's reload
is a listing, then one GET per file, then the swap; `PushFails` covers errors and
time-outs, after which the reload goes on without its caller (`Disowned`); a
restart of a replica loses its zones and begins its startup reload. Secondaries
are the abstract consumers of NOTIFY and Transfer. A transfer is three steps, since
`Transfer` looks the zone up (`Check`) and locks again to send it (`StartSending`): what
it sends may have been replaced in between.

**`NetboxFetch`** opens `Sidecar`'s `BeginFetch` to `FetchReads`: the probe for the
count, one goroutine per page behind the semaphore, the first error or the pages
in order, and attempts until one succeeds, the retries are spent or the context is
cancelled. A record is its place in NetBox's order; changes of status are additions
and removals, since NetBox filters. `always` and `shifts` are history: what NetBox
held ever since the probe, and how often it has changed. `Sidecar` reads NetBox in
one step, which `QuietIsExact` justifies for a NetBox that stays as it is during
the pages; `LossBounded` says how far a fetch can be from that otherwise.

**`ZoneNames`**, **`DeviceNames`** and **`ZoneFiles`** are the pure part, operators
without state. A name is a sequence of labels, a label the sequence of its
hyphenated parts, so that `-bmc`, `dc1-x`, suffixes, spelling and lengths can be told
apart and nothing else. `ZoneNames` has records, the three discovery modes, reverse
zones and `STRIP_DC_LABEL`; `DeviceNames` the categorizer, the formatter and
`enrichRecordsWithDeviceNames`; `ZoneFiles` what `Generate` drops, hashes and prints,
as the resource records its reader gets, and the plugin's lookups with the client
that follows an alias into the next zone (`Resolve`).

**`Publication`** composes them into the poll loop with the records themselves:
`Poll`, `PollFails`, `TakeSignal`, `MergeGated`, `ListZones`, `ReadZone` and `Merge` are the
loop's cycles, the dynamic zone service's six writes (conflict checks and batches
included) come at any time, also between the zones that a merge reads, and
`Restart` brings the next configuration of a rollout and perhaps a file cut short. `generators` and the hash in each file are kept apart, since which of them is
believed decides whether a zone is written. It leaves to `Sidecar` what `Sidecar` has:
the guard's verdict, failing writes, channels one by one; a `Poll` here is one that
was accepted. `dns` is what clients get, changed by the step that changes the files.

**`DnsPromise`** is the abstract specification: NetBox's records, the operators'
records and what each name resolves to, without files, hashes, generators or a loop.
A publication looks at the operators' zones one by one; DNS changes only when it ends,
and then to `Meaning`, defined from NetBox's records and those it has seen alone. So each
zone is as it was at one moment since the publication began, but not all at the same: more
the code does not promise (see the divergences). `Publication` implements it: `PromiseSpec`
is `Promise!Spec` under the mapping at its end. `Poll` and the handlers map to `Learn` and
`Accept`, `ListZones` to `Begin`, `ReadZone` to `Look`, `Merge` to `Publish` and `Restart`
to `Restart`; the other steps stutter.

**`OverlayPromise`** is the abstract specification of the dynamic store: each write is
one atomic change of one name, news of NetBox never replace later news, a poll drops
only what it has seen itself, a restart brings back what was kept, and what is published
is the last poll under the store, each zone as it was at one moment since the publication
began. `Webhook` implements it (`OverlaySpec`): a handler's second call maps to `Apply`, a
delete to `Withdraw`, a gRPC write to `Pin`, an accepted poll with its reconciliation to
`Poll`, `ReadZone` to `Look`, a merge to `Publish`; locks, checks, requests and signals
stutter.

`MCSidecar`, `MCNetboxFetch`, `MCWebhook`, `MCPropagation` and `MCPublication` give values to the constants.
The theorems about `Sidecar` are in `SidecarProofs` and `GuardProofs` (the shrink guard),
which extends it; those about `Propagation` in `PropagationProofs` (pushes) and
`ReplicaProofs` (what replicas serve and announce); those about `Publication` in
`PublicationProofs`, on top of `NameProofs`, the lemmas about names, discovery and lookups;
the others in `NetboxFetchProofs` and `WebhookProofs`.

Some definitions are given the form the provers can reason about. `NetboxFetch` lists a
set by rank (`Listing`) and appends pages with a recursive function (`Appended`) instead of
the library's sort and fold, and `Webhook`'s two store calls share `Call`. In `ZoneNames` and
`ZoneFiles` filters are `Those` and repeated steps `Iterate`, recursive functions both, and
`ZonesOf` is a function of the configuration and then of the answer.

Definitions with a plausible fault (`...AnyTime`, `...Skips`, `MergeAlwaysAllowed`
and so on, marked "Faulty variant") are used by no specification: each replaces the
definition after it to see that a property notices.

## Runs

| Run | Instance | What it shows |
|---|---|---|
| `sidecar_guard` | 6 names, 2 zones, 7 NetBox contents that pass, trip each rule, or are empty; consents, forced and webhook polls | `ConsentNotWaiting`, `RefusalMonotone`, `ShrinkNeedsConsent` |
| `sidecar_restart` | one record moving between two zones, an empty and an unroutable answer, failing fetches, dynamic writes of the same name, one pod, a crash at any point | `QuiescentDisk`, `ServedNeverEmptied`, `SuccessfulMergePublishes`, `PushOwed`, `PushOnlyWhenReady` |
| `sidecar_liveness` | failing fetches and writes, a crash, forced polls and merges | `CacheSurvivesUntilFetch`, `ReadyOffCache`, `StalenessAlarm`, `Converges` |
| `netbox_fetch` | up to 5 records in pages of 2, 2 requests at once, 2 retries, 2 changes in NetBox, outages at will, a shutdown | `QuietIsExact`, `LossBounded`, `Returns`, `RidesOutOutage` |
| `webhook` | 3 names (two in a zone each, one in none), one address, two handlers, two changes, a gRPC write, a restart | `PublishOwed`, `NewestWins`, `OverlaySpec`, `Settles` |
| `plugin_reload` | 2 zones that may go and come back, one replica, 2 writes, one fault, one restart of either side | `PushedIsLoaded`, `NoStepBack`, `DroppedOnlyIfGone` |
| `propagation` | one zone, one replica, one secondary, 2 writes, clock to 3 and back | `NotifyOwed`, `ReplicasCatchUp`, `SecondariesConverge` |
| `publication` | 3 devices of which two claim the same aliases, bare and unsafe names, capitals, IPv6, nested reverse zones; 3 answers; 5 configurations in a cycle: depth 2 with `PRIMARY_NS_IP`, `netbox-dns`, strip, depth 3, `common-suffix`; an operator's host and a batch; one damaged file per restart | `FilesAreCurrent`, `CnameAlone`, `FilesParse`, `NetboxResolves`, `OperatorsResolve`, `PtrsMatchAddresses`, `NoIdleRewrite`, `GrowthIsNotShrink` |
| `publication_promise` | 2 of the answers, one with two aliases in dispute; 3 configurations in a cycle: depth 2 with `PRIMARY_NS_IP`, `netbox-dns`, strip; an operator's host and a batch over two zones | `PromiseSpec` |

Each module's `TypeOK` is checked once. Three more runs show the code disagreeing
with what it says of itself; TLC finds the property violated:

| Run | Property | Shortest story |
|---|---|---|
| `consent_outlives_poll` | `ConsentNotWaiting` | a forced poll with consent fails to fetch; the consent stays armed for the next ticker poll |
| `write_not_retried` | `SuccessfulMergePublishes` | a write fails after the hash was recorded; the next merge succeeds without writing |
| `rename_merge_lost` | `MutationIsSignalled` | a rename deletes the old name, the write of the new one fails, no merge is signalled |

Bounds, and why they do: two zones are what a partial Update, a listing that
changes under a reload, a move between zones and the worst-zone rule need; a third
repeats them. One crash, fault or rename is enough because nothing in the code counts
them, and each run lets it fall at any step. Two webhook handlers are the
smallest number that can interleave, and two changes the smallest that can be
reordered. Two zones with a name each are what a rename that a merge reads by
half needs. Two writes and three seconds reach a same-second write, a rewrite during
a reload, and a serial above a clock that was set back. `MaxSerialDrift` is larger
than any difference in the runs: `NextSerial`'s other branch is for serials of the
older date scheme, which `SerialAdvances` excludes by assumption. Five records in
pages of two are the smallest listing with an inner boundary between two full pages
and a short last page, and more pages than requests at once.

In `publication` the answers are chosen rather than enumerated: `base` has a named and a
bare host and a device with a management and a BMC address; `clash` is the same in
reverse order with a device that claims the same aliases; `extras` adds a host at an
alias's name in capitals, an unsafe name, a device no template matches, the primary
name server's own record and addresses no device publishes. Every answer meets every
configuration, store and damaged file, before and after each restart. One of an
operator's names, at an address NetBox has under another name, is enough to shadow a
record, an alias's target and a PTR; the batch names a zone twice, and in
`publication_promise` two zones, so that a merge can read half of it. The file that may
be damaged is that of `ex.org`; the hashes treat all zones alike. `Rollout` takes the
configurations in a cycle in which zones split, are renamed and merge; `MaxAliases` (3)
is longer than any chain the rows can make.

`WriteMayFail` is on in `sidecar_liveness` and off in `sidecar_restart`: `QuiescentDisk`,
`SuccessfulMergePublishes`, `ServedNeverEmptied` and `PushOwed` are checked there (they fail with it: see above and below), and so is
`FetchMayFail` where `ConsentNotWaiting` is. `PersistMayFail` is off in `webhook`
(`rename_merge_lost` has it).

`plugin_reload` declares its zones symmetric: they start alike and no action
distinguishes them. Every other run has no symmetry. All runs check deadlock.

## Fairness

* `Sidecar`: the loop's own steps are weakly fair, since it is one goroutine that
  blocks only in `select` and in calls with time-outs. Ticker and signals are
  strongly fair: `select` picks at random among the ready cases, so a case that is
  ready again and again is taken. No handler, no outage and no recovery is fair.
  Strong fairness of `MergeWrites` in the ticker's cycle says that the volume does not
  refuse every write for ever, what `Converges` needs now that writes may fail in
  `sidecar_liveness`: with a write that fails each time nothing can converge.
* `NetboxFetch`: the client's steps are weakly fair: a request is answered or fails
  within the HTTP client's 30 s, and the backoff ends. NetBox's outages end or not.
* `Webhook`: the loop is weakly fair, as above; a merge reads its zones to the end, which
  no handler can hold up for ever. Strong fairness of `FetchReads` says that NetBox
  answers now and again, the assumption `Settles` is about. Neither deliveries nor
  handlers are fair: an event may never arrive, and `Settles` speaks of the time after the
  last handler is done.
* `Publication` has no liveness property: that the loop comes round is `Sidecar`'s
  `Converges`, and `Quiet` says when its promises hold.
* `Propagation`: the sidecar finishes a write it has begun and a cycle it is in, a
  replica's ticker fires, and reloads go on (HTTP calls have time-outs).
  `RemoveTemp` is fair because every cycle's `Update` ends in `removeOrphans` once
  NetBox has answered the process for the first time; while it has not, a
  temporary file that a crash has left stays, and this is not covered. A secondary
  takes every record of a transfer, and its refresh timer comes round (strong
  fairness of `Check`, which a swap may block for a moment).

## Proofs

TLAPS checks these for all values of the constants that satisfy the named
assumptions of the modules (`SidecarAssumption`, `WebhookAssumption`,
`PropagationAssumption` and so on: finite sets, types, tokens that are no data, a clock
that shows at least one second). A theorem that needs more says so in an `ASSUME`, and
each of those is a switch of the model whose other position breaks the property by a
divergence reported here: `~WriteMayFail` (`write_not_retried`), `~FetchMayFail`
(`consent_outlives_poll`), `~PersistMayFail` (`rename_merge_lost`), `~AllowShrink` (a consent
may empty the files, which is its purpose), `DynName = {}` (a dynamic record that shadows
one of NetBox's changes what the files hold of NetBox without the guard's knowledge),
and one replica (a secondary may be told by one replica and ask another that is behind).

### The poll loop

* `TypeCorrect` (`Spec => []TypeOK` of `Sidecar`). One lemma per family of steps;
  `TypeOK` is inductive by itself. `UpdatedDisk` and the interrupted updates need
  that merges of zone maps are zone maps (`FilesType`).
* `CacheSurvives`: the action property follows from the fact that only merges write
  files (`WhoWritesFiles`) and that `GateOpen` excludes them before the first fetch
  if there is a file. It is asked before the store is read and still holds when files
  are written (`GateInv`).
* `ConsentIsSpent`, under `~FetchMayFail`: `ConsentNotWaiting` is inductive with
  "NetBox is reachable". The assumption is needed: `consent_outlives_poll`. Which poll
  spends the consent it does not say: see the divergences.
* `MergePublishes`, under `~WriteMayFail`. The strengthening is `GenInv`, "a
  generator that exists knows what its file holds", because `Update` compares a
  zone's new content with the generator and not with the file.
* `FilesFollowStore`, under `~WriteMayFail`: `PublishedInv`, which extends
  `QuiescentDisk` to the time of the push, with `GenInv`. `ReadInv` is what makes the
  zone-by-zone read harmless: as long as nobody owes a signal, what a merge has read is
  what the store holds (`ReadSoFar`), because whoever writes in between owes one.
* `PodsAreOwed` (`PushOwed`) and `PushesAreReady` (`PushOnlyWhenReady`), under
  `~WriteMayFail`. For the first, a merge that changes files counts a change
  (`ChangesAreCounted`), and until a restart whoever has not loaded the files is dirty in
  every state of the loop, not only when it is idle (`OwedInv`). For the second, a process
  that is up and not ready is in its initial cycle, before the push, and has found no
  files (`ReadyInv`).
* `RefusalsAreMonotone` (`RefusalMonotone`), without assumption: a lemma about
  `Evaluate`. Counts of a part are smaller (`CountsMonotone`), and each rule that trips
  for a zone trips for a smaller count (`TripsMonotone`), whatever fractions and floors;
  the work is that the rule which trips first need not be the same one.
* `ShrinksAreGuarded` (`ShrinkNeedsConsent`), under `~WriteMayFail` and `DynName = {}`. The
  guard compares an answer with the baseline and the property compares files with files,
  over several polls. `GuardInv` says that outside a merge the files hold the last records
  NetBox gave, and that records the guard let through would also pass against the files.
* `NeverEmptied` (`ServedNeverEmptied`), under `~WriteMayFail` and `~AllowShrink`: `EmptyInv`
  says that if the loop has no records to merge, the files have none to lose, unless the
  process has found files and not yet fetched, when it leaves them alone. `EmptyPasses`
  keeps it: an answer without records is refused unless there were none before. `CutOffServes` looks at a merge killed between two file operations:
  the zones are written before orphans are removed. The property leaves out a merge killed
  after it has found an entry in the store: an empty one makes an empty file, written first.

### The NetBox client

These have no assumption beyond `NetboxFetchAssumption`, any page size, concurrency,
number of retries and number of changes. Where a fact needs induction, it is had as a
least counterexample: the library's well-foundedness of strict inclusion on finite
sets gives a least element of any nonempty set of numbers (`Least`), hence that a chain
of steps reaches its end (`Reaches`), stated with sets instead of an operator parameter.

* `TypeCorrect`: the semaphore's bound, the pages of an attempt and the attempts.
* `QuietFetchIsExact` (`QuietIsExact`): every place of a finite set's order is filled by
  exactly one element (`PlacesFilled`, `ListingIsExact`), and the pages of a listing put
  together are the listing (`PagesMakeListing`). `QuietInv` says that while NetBox has not
  changed since the probe, each page that arrived is that page of what NetBox holds.
* `LossIsBounded` (`LossBounded`): while pages arrive there is a set `D` of records, one per
  change at most, such that each page was cut from the records held all along and some
  of `D` (`DriftInv`, `Drifted`). So a record held all along is at most `D` places behind
  where it would be alone (`PlaceDrifts`), and only the last places of a page can fall
  off it (`FewMissed`).

### The webhook

* `TypeCorrect`, and `PollsMoveForward` (`PollNeverGoesBack`, which `OverlaySpec` implies), without
  assumption: the poll's cutoff lies between the last accepted read and its own (`PollInv`).
* `NewestEventWins` (`NewestWins`), under `~PersistMayFail`. `NewestInv` has three parts: at
  most one handler is between its check and its write (the handlers' mutex), what
  that handler will write is newer than what the store has, although gRPC and polls
  change the store meanwhile, and what a restart will read is what the store holds.
* `StoreIsAtomic` (`Spec => OverlaySpec`), without assumption: initial states map to initial
  states and every step to a step or a stutter. What the code spreads over two store
  calls, a mutex and a poll in three steps must each time be one step of the promise:
  that a handler's write is still newer than what it replaces comes from `NewestInv`'s
  part about the mutex, that a poll drops nothing of a later moment from `PollInv`, that
  no poll comes between the zones of a merge from `ViewInv`, and that what a merge
  publishes is `Meaning` of what it has read from the types of the records.
* `ChangesArePublished` (`PublishOwed`), under `~PersistMayFail`: a handler that has changed the
  store owes the signal until it sends it, a merge during which nobody owes one has read
  what the store holds (`ReadInv`), and a poll takes nothing over before its own merge
  (`FilesInv`).

### From the files to the secondaries

* `SerialAdvances`: serials increase strictly within `maxSerialDrift` of the clock.
* `PushMeansLoaded` (`Spec => []PushedIsLoaded`). That an answered push means
  loaded files rests on three mechanisms at once, and `PushInv` has a part for
  each: a replica runs one reload at a time (`OneReload`, from `reloadMu`); a
  reload that will answer a push was started by it (`CallsMatch`); and files
  do not change while pushes are under way (`PushingOnly`, since `pushDirty` waits
  for its calls), so what such a reload has read is what the files hold
  (`ReadsAreFresh`, where the ETag's equality enters). `Shape` is the type
  invariant without an instance's bounds.

* `TypeCorrect` of `Propagation`: no serial is further ahead of what the clock has shown
  than there were writes, although the clock may be set back.
* `VersionsAdvance` (`NoStepBack`), for any number of zones and replicas: what a running
  reload has read lies between what its replica serves and what the files hold, zone
  by zone (`VersionInv`), which needs that it is the only one (`OneReload`).
* `ZonesAreNotDropped` (`DroppedOnlyIfGone`): a reload about to swap that lacks a zone has seen
  it missing or began before its last write.
* `ChangesAreAnnounced` (`NotifyOwed`), for one replica and any number of secondaries. The
  strengthening `SentOrTold` is about transfers under way: a transfer does not always
  send what its replica serves, because `Transfer` gives up the lock between lookup and
  sending, but if the serial is another the secondary has been told, will be, or the
  NOTIFY was lost, and nothing else takes that away while the transfer lasts.

### What gets into the files

For `Publication` (`PublicationProofs`), under the assumptions of `ZoneNames`,
`DeviceNames`, `ZoneFiles` and `Publication`, for every discovery mode, configuration,
answer, template, batch and number of zones. The assumptions say that names are
sequences of labels, that rows and operators have addresses whose reverse names are in
lower case and fit for a zone file, and that the configured reverse zones lie below
`in-addr.arpa` or `ip6.arpa` (the default of `REVERSE_ZONES_IPV4` does):

* `TypeCorrect`: `TypeOK` is inductive. A generator has a file because `Update`
  keeps a zone's file only if its hash is known (`KeptFile`, from `HashIsSet`).
* `AliasesAlone` (`Spec => []CnameAlone`): inductive together with `TypeOK`.
  `RenderedAlone` does the work: an alias that `resolveCNAMECollisions` keeps is the
  first of its owner and all others of that owner are aliases too, which it drops
  (`AliasAlone`); the apex and the primary name server's address are looked at
  apart. The exception in the property is what the proof could not do without.
* `HashDetermines`: records with one content-hash render to one file.
* `DiskIsCurrent` (`Spec => []FilesAreCurrent`). `FilesAreCurrent` says nothing of a loop
  that is not quiet and nothing of hashes, so it is strengthened to `CurrentInv`:
  both fingerprints of a file were taken of one set of records, even if the file was
  damaged since, and a generator's hash is that of an undamaged file. A zone that
  `Update` leaves alone then has a trusted hash equal to that of the new records, and
  `HashDetermines` gives the rest (`KeptIsCurrent`). That the records a merge has read are
  the store's, unless a signal is pending, is `ViewInv`. `CurrentInv` quantifies over all
  record sequences, so TLC cannot evaluate it; it checks `FilesAreCurrent`.
* `RewritesAreDue` (`NoIdleRewrite`), for behaviours in which no record comes or goes that
  is printed like another (`NoTwins`): a name with and without a trailing dot, or
  `PRIMARY_NS_IP` and a record that says the same, have two fingerprints and one file, so
  that the property is false of them. With `CurrentInv` a rewrite of an undamaged file
  means that its fingerprint changed (`SameParts`, `HeldAreRendered`); of a damaged one
  `WholeFiles` says that a changed file has other contents or another fingerprint.
  The answers and configurations of `publication` never have such twins.

* `FilesAreParsed` (`FilesParse`), if `PRIMARY_NS` is fit for a zone file and neither NetBox
  nor an operator puts a name below a reverse tree. Both are needed: `PRIMARY_NS` is
  not validated, and in a reverse zone `Generate` prints a record's address as its
  label, whatever the record. The property is inductive; the work is `MergedFrom`,
  where each record of a merged zone comes from, so that what `Generate` prints of it
  is a fit name (`RenderedParses`).

The end-to-end properties speak of what a client gets when the loop is quiet. With
`DiskIsCurrent` the files are then `RenderedRRs(Merged)`, so the rest is about pure
operators, followed from the rows to the answer in `NameProofs` and `PublicationProofs`:

1. *Sequences.* `Those`, `FlattenSeq` and `SetToSeq` keep the elements they should
   (`ThoseAre`, `FlattenIs`, `SetToSeqIs`). Induction over data is had as in the NetBox
   client: a set of numbers that has 0 and the successor of each member has all
   (`Reaches`), and a recursive function exists because its partial versions do
   (`RecursionExists`).
2. *Names and zones.* Suffixes of one name are nested (`SuffixNests`), the longest of
   several is one of them (`LongestIs`), the common suffix has two labels and the
   names' top-level domain (`CommonSuffixIs`). Hence, in all three modes, no zone over
   a record's name is deeper than its own (`DiscoverIs`).
3. *Records.* `Enrich` makes well-formed records (`EnrichIs`), the strip changes names
   only (`StripKeeps`), a poll's zones hold what was filed there (`NetboxZonesAre`),
   a merged zone NetBox's records that are not shadowed and the operators'
   (`MergedAre`), a file their resource records (`RenderedAddresses`).
4. *Lookups.* The closest zone is found (`FindZoneIs`), a name with data in its zone is
   answered with exactly that (`LookupFinds`), and an alias with the data of its target,
   in its zone or, if that has nothing of the target, in the target's (`AliasFinds`).

* `AddressesAreServed` (`AddressesResolve`): a record that nothing excuses is filed
  (`DueIsFiled`), rendered, and in the zone its name is looked up in (`DueIsServed`).
* `AliasesAreServed` (`AliasesResolve`): besides, an alias that all its claimants agree on
  survives the collisions, as the first of them (`AliasIsRendered`, `ClaimIsAgreed`), and
  is the only CNAME of its owner, so that the lookup has no choice. `NetboxIsServed`
  (`NetboxResolves`) is the two together.
* `OperatorsAreServed` (`OperatorsResolve`): the same for a dynamic record, with the bound
  on what else is answered: what NetBox has in the zone in another spelling, and
  `PRIMARY_NS_IP`.
* `ReverseAgrees` (`HostsElsewhere => PtrsMatchAddresses`): an address in a file is a polled
  record's (`AddressIsPolled`), whose PTR is discovered, kept by the merge unless an
  operator has the address (`PtrIsMerged`) and printed under the address's reverse name
  (`PtrNameIs`), and the reverse zone is the closest to it (`ReverseZoneAnswers`).
  `HostsElsewhere` says that no NetBox name lies below a reverse tree: a forward zone
  there may be deeper than the configured reverse zone and answer for it.

What the shrink guard counts is compared over two answers:

* `GrowthIsKept` (`GrowthIsNotShrink`): one sequence of records lies in another if its
  elements go one-to-one to elements of the other with the same name (`NamesAmong`).
  That is so of the records of two such answers (`EnrichAmong`: a row with a name
  goes to itself, and a device that gets names from fewer rows gets them, `DeviceAmong`), is kept by each step of discovery
  (`ThoseAmong`, `FlattenAmong`, `GroupedAmong`), and implies that no zone is shorter
  (`AmongIsShorter`). An answer may have a row twice, so the property counts how often it
  has each: as sets of rows, the same rows could make fewer records. `common-suffix`
  is excepted, where a record more may name the zone anew.

### Only model-checked

* The refinement `PromiseSpec`. It gives `Meaning` a bound on the length of alias chains,
  so that it holds of instances only; for chains of one alias and for everything else
  `Meaning` says, the theorems above do.
* Every liveness property (`Converges`, `ReadyOffCache`, `StalenessAlarm`, `Returns`,
  `RidesOutOutage`, `Settles`, `ReplicasCatchUp`, `SecondariesConverge`): fairness and ENABLED
  are beyond the prover.
* Every property of a run that a theorem states under an assumption is checked by TLC
  in that position of the switch only, and the runs that violate show what the other does.

## Known divergences

Met while modelling, besides the three runs; the models do what the code does.

* `merge.Write` lists the store's zones and reads each under a lock of its own
  (`merge.go:35-36`), and handlers write in between. A rename across two zones may be
  published with both names or neither, half of a `BatchUpsert` that is made "atomically"
  (`file_store.go:113`) too, and a zone deleted after it was listed as an empty one:
  states the store never had. The writer's signal brings the merge that repairs it, so
  that what holds of a quiet loop (`QuiescentDisk`, `PublishOwed`, `FilesAreCurrent`) holds
  all the same, and the two promises speak of each zone's moment.
* Three places say three things of what a consent lasts for: `control_service.go:26`
  that the poll it triggers "must be the one that sees the consent", `shrinkguard.go:221-228`
  that it is for "the next refused publish" and "consumed by the first refusal it meets",
  `main.go:626` and `docs/configuration.md:239` that the first evaluation consumes it. The
  code does the last: a ticker poll, or the initial one, that is under way when consent
  is given spends it, refused or not, and the forced poll that follows may be refused
  although the operator consented; a poll within the thresholds spends it too. What holds
  is `ConsentNotWaiting`, as long as fetches do not fail.
* The event of an address that has left the publish set, or is deleted, removes the
  overlay's record only (`handler.go:326`, `211`); the merge it signals publishes the name
  from the last poll's zones until the next poll, although `handler.go:247` says that it
  "must stop resolving now". `Settles` says that polling repairs it.
* With consent, an answer whose records map to no zone removes every file
  (`main.go:629`), although `shrinkguard.go:129` calls the empty result not
  overridable: `Evaluate`'s own use of the rule is overridden.
* The baseline moves when a poll is accepted (`main.go:335`), not when its files are
  written: after a failed write the next shrink is compared with a set that was never
  published.
* `pollAndMerge` and the merge signal push without `markReady` (`main.go:433-446`,
  `496-502`): after an initial merge that failed, the first push may come from a
  sidecar that is not ready.
* On a new volume whose first fetch fails, an empty merge succeeds and `markReady` is
  called with nothing to serve (`main.go:395-409` against the comment at 550).
* `merge.Write` returns no change along with an error although files changed
  (`merge.go:91-95`), and no pod is owed a push for them. A merge killed before its
  push is forgotten likewise (`PushOwed` speaks of a process that has not restarted):
  polling repairs both.
* After a failed write (`write_not_retried`) of the zone a record has moved to, the
  next merge removes the zone it came from: nothing is served although NetBox was
  never empty, and until a record of the zone changes.
* An address that is published all along can be missing from a fetch during which
  others come or go (`LossBounded`), although `client.go:136` says that all are
  retrieved; it is withdrawn from DNS until the next poll.
* Forced and webhook polls do not reset the staleness gauge (`main.go:433-446`,
  `docs/observability.md:33`).
* Reconciliation takes the timestamp away with the record: an old event that arrives
  afterwards is applied until the next poll (`handler.go:347`).
* An alias and its target may be filed in different zones. If the alias's zone has records
  of the target too, an operator's or a deeper NetBox name's, these answer
  (`zones.go:23-51`), and a client that asks for the alias gets other addresses than one
  that asks for the target (`AliasesResolve` excuses it).
* A gRPC write between a handler's check for a pin and its write is overwritten; the
  comment at `handler.go:77` accepts it.
* A zone that is removed and created again starts from serial 0 and so from the
  clock, which may be below a serial that was bumped.
* The comment at `zones.go:13` says that `ServeDNS` reads zones without a lock; it
  takes the read lock, and so a transfer whose consumer stops reading would block
  the next swap and, behind it, queries (`plugin.go:204`). The model assumes a
  consumer that reads on.
* Temporary files are called `db.<zone>.tmp` in the served directory: they are
  listed, fail or join a reload, and count as existing zones.

* Zone names are validated nowhere: `dropUnsafeNames` drops records, but discovery with
  depth 3 or `common-suffix`, or `CreateZone`, can make a zone whose own name does not
  parse after `$ORIGIN`, and the plugin then refuses every reload, although
  `generator.go:128-136` promises that the rest proceeds. Addresses that
  operators write are not validated either. `FilesParse` speaks of zones with safe names.
* `docs/configuration.md:182` has datacenter labels stripped before discovery;
  `main.go:337-341` strips after it. With depth 3, `common-suffix` or per-datacenter
  `netbox-dns` zones a stripped name stays in the file of a zone it no longer lies in
  and resolves nowhere; the webhook's records are never stripped (`handler.go:359`).
* A hash covers `PRIMARY_NS_IP` in every zone, though one zone prints it
  (`generator.go:409`): changing it rewrites and transfers all of them.
* A record NetBox has twice is fingerprinted twice: one copy more or less rewrites
  the zone, and serves the same.
* `merge.go:47`, `cache.go:24` and `writePrimaryNSAddress` compare names exactly, the
  plugin in lower case: a dynamic record in another spelling adds to NetBox's instead
  of replacing them, `PRIMARY_NS` in another spelling may stand beside a CNAME, and a
  zone whose name has capitals is never found (`plugin.go:96`).
* `QualifyDNSName` appends the domain to the domain itself, and to a name that has it
  in capitals.
* The PTR of a NetBox address stays when an operator's record takes its name over;
  PTRs exist for names no forward zone holds.
* `BatchUpsert` with a zone twice keeps the last entry only; deleting a record from
  a zone the store does not have creates the zone, and an empty dynamic zone takes over
  every name below it from NetBox's parent zone.
* With `common-suffix` a record more may rename the zone, which the guard then takes
  for the loss of the old one; two domains below one top-level domain fall into the
  two-label zone of the first name.
* The default of `REVERSE_ZONES_IPV4` (`config.go:147`) is `172.16.in-addr.arpa`, and an
  address of that net is `...16.172.in-addr.arpa` (`docs/configuration.md:113`).
* A conflict check before the first poll sees an empty cache (`zone_service.go:49`).

## Not modelled, and why

* What regular expressions and templates do (the categorizer's patterns, the
  formatter's parsers): given as sets and functions of the instance. Characters and
  lengths of names, TTLs apart from their address, the layout of a zone file.
* Negative answers, record types other than addresses, PTR and CNAME, and queries the
  plugin passes on.
* `FetchZones` of the NetBox DNS plugin: its zones are part of the configuration, and a
  failed discovery is `Sidecar`'s `DiscoverFails`.
* The length of the client's backoff, and values of page size, concurrency and
  retries below the least sensible one, which the configuration accepts.
* Authentication of gRPC and webhook calls.
* The run-once mode, directory mode of the plugin.
* 32-bit wrap of serials; clocks of NetBox and the sidecar that disagree.
* What a temporary file holds: it parses or it does not.
* Metrics, logging, configuration, the analyzer, deployment files.

## Plan

1. Extend: `RunOnce` with `zonefetch`; directory-mode reloads and recreated zones in
   `Propagation`, with 32-bit serials; webhook records in `Publication`.
2. Prove: `Publish` of `DnsPromise` for chains no longer than its bound; `NotifyOwed` for
   several replicas in a form that speaks of the replica a secondary asks.
