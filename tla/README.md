# Nivlheim in TLA+

Models of the Nivlheim service (`src/server/service`, Go) and of the part of
its client (`src/client`) that takes part in the protocol, checked with TLC on
small instances, with proofs checked by TLAPS. Source references are
`file.go:line`, relative to `src/server/service` unless a path is given;
`PROJECT.json` maps every definition to the lines it models.

## The system

A client collects files on its machine, signs them into an archive and posts it
to the server once an hour. The service keeps every version of every file in
PostgreSQL, extracts facts about the host from them, gives the host a name, and
answers searches from a copy of the current files in memory. It is one process:
HTTP handlers, periodic jobs (each at most once at a time), a task queue with
concurrent workers, and goroutines of the jobs. They share the database, the
queue directory, and a few maps behind mutexes.

| Part | State | Operations | Hard behaviour | Module |
|---|---|---|---|---|
| search cache (`fastSearch.go`) | `fsContent`, `fsID`, `fsKey`, `fsReady` | add, remove a file, remove a host, replace a certificate, compare with the database, load at start, three searches | a copy of the database that is updated before, inside and after the transactions that it mirrors | `FastSearch`, `Inventory` |
| processing of archives (`processarchive.go`) | tables `files`, `hostinfo`; archive and `.meta` in the queue | compare each file with its latest version; reactivate, retire, insert; clear what is gone | runs statement by statement outside the transaction it opens; stops half-way; reads at the start what it uses at the end | `Inventory`, `Uploads` |
| parse job (`parseFiles.go`) | `files.parsed`, row of `hostinfo` | one goroutine and transaction per unparsed file; up to eight | goroutines race to insert the row of a new host; the cache is changed before the commit | `Inventory`, `Naming`, `CustomFields` |
| post handler (`postArchive.go`) | `certificates.nonce`, `revoked`; queue directory | check nonce, new nonce, two renames, reply | a lost reply, a restart between two steps | `Uploads` |
| queue and task runner (`scanQueueDir.go`, `taskrunner.go`) | table `tasks`, `runningTasks`, `taskSlots` | scan, select, start, retry with Fibonacci delay, discard, reset the waiting times | check-then-act over a snapshot, a bounded number of slots, retries | `Uploads` |
| naming (`handleDNSchanges.go`) | `hostname`, `override_hostname`, `dnsttl`; `waiting_for_approval` | the job, `nameMachine`, taking a name from another host | several hosts want one name: it must settle | `Naming` |
| host API (`api_host.go`) | `hostinfo`, cache | GET, PATCH of the override, DELETE | cache emptied before the commit; look-then-set | `Inventory`, `Naming` |
| inactive machines, old files (`removeInactiveMachines.go`, `pruneOldFiles.go`) | `hostinfo`, `files`, cache | archive, delete, thin out versions | cache emptied after the commit; the outcome of many runs over years | `Inventory`, `Pruning` |
| certificates (`cert.go`, `ping.go`, `deleteOldCertificates.go`), manual approval (`api_awaitingApproval.go`) | `certificates`, `waiting_for_approval`, the certificate on the machine | ping, request, renew, approve, withdraw, revoke, delete | renewal is not one transaction, and its reply can be lost; the job that deletes decides on what it read before | `Certificates` |
| internal API (`api_internal.go`) | cache, triggers | replace a certificate in the cache, run a job | called over HTTP after the commit, outcome ignored | `Inventory`, `Jobs` |
| job scheduler (`main.go`) | list `jobs`, `jobSlots`, `quit` | loop, goroutine of a job, trigger from a handler, shutdown | the list is shared without a lock, the loop works on copies | `Jobs`, `PeriodicJobs` |
| API keys (`accessControlKeys.go`, `api_keys.go`), owner of a host (`host_owner.go`) | tables `apikeys`, `apikey_ips`; `apiKeyCache` | look-up in two queries, create, update, delete, invalidate; temporary key of the owner job | the cache is filled from several reads while keys are edited | `ApiKeys` |
| custom fields (`api_customfields.go`) | `customfields`, `hostinfo_customfields`, `files.parsed` | create, update, delete; each then marks files as unparsed | a parse that is under way | `CustomFields` |
| ip ranges (`api_ipranges.go`) | `ipranges` | create, update, delete | overlap test and INSERT are not one transaction | `IpRanges` |
| interval buffer (`intervalBuffer.go`) | ring of values | add, sum | a ring that grows at a moving position | `IntervalBuffer` |
| Levenshtein distance (`levenshtein.go`) | one column | distance | a column overwritten in place | `Levenshtein` |
| sessions and login, read-only API, schema and utilities, web site, Windows client | | | request-local, external, or no state of their own | not modelled |

How they interact: the **post handler** leaves archives in the queue directory,
the **scan** makes tasks of them, the **task runner** runs **processArchive**,
which writes `files`; the **parse job** turns unparsed files into a row of
`hostinfo`, values of **custom fields** and entries of the **search cache**; the
**naming job** names the rows, by DNS, by the machine's own name or by an
**approval**, depending on the **ip range**. **Removal**, **pruning** and
**renewal** change `files`, `hostinfo` and the cache at any time. The
**comparison job** repairs the cache. The **scheduler** runs all jobs, and
handlers trigger some of them.

What makes each part correct:

- search cache: its three maps are consistent with one another, no search
  panics, and when writing stops it holds the current files of known hosts;
- archives: a host never has two current versions of a file; every archive is
  processed by one task at a time and leaves the queue;
- parse job: every current file is parsed in the end and its host known;
- post handler: only a clone, or a client that missed a new nonce, loses its certificate;
- naming: no name twice, names settle, a name set by hand holds;
- certificates: the host of a machine follows it from certificate to
  certificate, nothing that is in use is deleted, and a machine that may have a
  certificate ends with one that works;
- scheduler: a job runs at most once at a time, a request for a run is followed by
  a run that begins after it, and the shutdown ends;
- API keys: what was edited is not served from the cache for longer than its
  lifetime, and only if a look-up overlapped the edit; the temporary key ends with its job;
- custom fields: a value belongs to the definition that exists, and is the one
  that the present definition finds;
- ip ranges are disjoint, but for two that were written in a race; history is thinned but not torn; no value is counted too
  little; the column is the distance.

`PROJECT.json` lists the components with their status and the hazards of this
code, each at the line where it bites, with the properties that cover it.

## The modules

| Module | What it is |
|---|---|
| `FastSearch` | the cache: the three maps as a record, each critical section of `fsMutex` as an operator, the three searches |
| `Inventory` | the tables `files` and `hostinfo`, the cache, and every process that writes them; EXTENDS `FastSearch` |
| `Uploads` | post handler, nonce protocol, queue directory, task table, runner, the frame of `processArchive` |
| `Naming` | `handleDNSchangesJob`, `nameMachine`, what uploads, removals, PATCH and approvals do to the columns it uses |
| `Certificates` | a run of the client, ping, `ReqCert`, `RenewCert`, the list of machines that wait, `deleteOldCertificatesJob` |
| `PeriodicJobs` | what `main.go` promises of its jobs, without loop, flags and slots |
| `Jobs` | the loop of `main.go`, the goroutines, triggers, shutdown; implements `PeriodicJobs` |
| `ApiKeys` | look-ups, edits, cache, temporary key, clock |
| `CustomFields` | the definition of a field, the marks, the goroutines of the parse job |
| `IpRanges` | POST, PUT, DELETE of several requests |
| `Pruning` | `whatToDelete` over years |
| `IntervalBuffer` | `AddT` and `Sum` |
| `Levenshtein` | the loop of `LevenshteinDistance` |
| `MCInventory`, `MCNaming` | values of the constants for the configurations |
| `MCHousekeeping` | EXTENDS the last six, which share no state: a behaviour is a behaviour of one of them |
| `InventoryProofs`, `SearchProofs`, `ArchiveProofs`, `UploadsProofs`, `NamingProofs`, `JobsProofs`, `CertificatesProofs` | theorems and proofs of the module they are named after (the first three: of `Inventory`) |
| `HousekeepingProofs` | theorems and proofs of the last six, one section each |

Definitions commented "Slip:" are not part of the model. Each states a mistake
that a change of the code could make, in the form of the definition that
follows it; substituted for it, one of the properties fails. `PROJECT.json`
lists the pairs under "mutants".

Parts meet where they share state. The search cache is composed with the tables
and everything that writes them in `Inventory`. Between the others the interface is
narrow and each side states what it takes from the other: `Inventory` takes from
`Uploads` that one archive of a certificate is processed at a time (its invariant
`OneArchiveAtATime`); `Naming` sees an upload as `ParseFile` or `UnchangedFile`;
`Certificates` sees an archive as "posted" and "processed", a new name as `Rename`;
`CustomFields` sees the row of `hostinfo` as given.

### FastSearch

`Key` is the string `certfp:filename` as a pair. A file's content is fixed by
its row, so `fsContent` is the set of ids it has an entry for, and a search
string is the set of files that contain it (`match`). Go's absent map entry is
`NoFile` or `NoKey`; `addFileToFastSearch` and the others return the cache after
the critical section, in which no other goroutine runs. `compareSearchCacheToDB`
takes the lock several times; it is a process of `Inventory`.

### Inventory

A step is one SQL statement outside a transaction, one transaction at its
commit (its SELECTs are steps of their own, the level being READ COMMITTED), or
one critical section of the cache.

- `arch[c]`: the call of `processArchive` for certificate `c`. `pc` names the next
  statement; `pack` is what the archive holds, `cur` the map `curFiles`, `host`
  whether the host was known. `listCurrent`, `countHost`, then for each file of
  the archive `compare` and one of `unparse`/`reactivate`, `retire`/`insert`,
  `insert`; then for what is left of `cur` `ArchiveClear` and `ArchiveUnindex`.
  The statements run on the database handle and not on the transaction
  (`processarchive.go:146` and `:293`), so an error (`ArchiveFail`) keeps what was done.
  Two errors are only logged: `ArchiveCountFail`, `ArchiveCompareFail`.
- `parse[f]`: the goroutine for file `f`: read, add to the cache, count, commit.
  The duplicate key at the insert rolls the transaction back; the cache keeps
  the file.
- `compare`: two passes, each a SELECT and a comparison, then removal of what both
  found obsolete and adding of what both found missing, the row being read and
  added in two steps.
- `deleting`, `locked`: the row locks of `DELETE /api/v2/host` from its UPDATE to its
  commit (`DeleteCommit`) or rollback (`DeleteFail`, which leaves the cache emptied and the
  tables as they were); the statements of others wait for them.
- `unindexed`, `pruned`, `replacing`: the cache updates that
  `removeInactiveMachinesJob`, `pruneOldFilesJob` and `RenewCert` owe after their commit.
- `Restart`: the cache and all processes are lost, the tables stay, tasks start
  over, and `loadContentForFastSearch` reads its rows at once and adds them one by one.

Abstractions: a content is a model value, compared as the code compares crc32;
`received` is a counter, so files are received in the order in which they are
processed; `FileId` bounds the serial number, and an insert waits when it is used
up; which versions `whatToDelete` picks is over-approximated by "any, as long as
another one stays" (`Pruning` has the rule); the limit of eight parse goroutines is
above the number of files of any instance; a network failure of the internal request of `RenewCert`
is `ReplaceLost`. `Budget` says how many events of each kind
a behaviour may combine; a run has one or two budgets.

### Uploads

Archives are numbered by upload; `dir[c]` is the archive and the `.meta` file under
the certificate's name in the queue. `seen` and `ready` are the runner's two passes
over the SELECT's rows (first `isTaskRunning`, then start or leave);
`exec[s]` is the goroutine in slot `s`. A task carries the row as it was selected, and `Finished`
computes the next delay from that copy, as `executeTask` does, the sum capped and the
smaller term not. `tried /\ delay > 0` is a task that may not be due. `Hourly`
makes a client post only when the server is done with its last archive: the
client runs once an hour, a task normally takes seconds. `used.missed` are the clients whose request
ended between the UPDATE of the nonce and the reply (`postArchive.go:378-402`).

### Naming

`network[ip]` is the kind of ip range: `dns` (with `use_dns`), `auto` (without), `none`
(no range). `dns[ip]` is the outcome of `forwardConfirmReverseDNS`, constant during a
behaviour. `nameMachine` returns a name or `NoName`; the job's transaction is one
step for its queries, one for its write to `waiting_for_approval` if an approval
decides (`JobApproval`), and one for its commit, so requests and uploads fall
between. An approval that is written before `JobApproval` is overwritten by it, as in the code
(the SELECT at `handleDNSchanges.go:220` takes no lock); one that comes after it waits for the commit
(`Held`), and finds no row if the job has deleted it (`RowGone`). `due` is `dnsttl IS NULL OR dnsttl < now()`; `ParseFile` and `UnchangedFile`
are the two ways an upload reaches the row. The empty string as an override
(`Empty`) differs from NULL: it counts as used. Two such overrides would violate the
unique key and be refused.

### Certificates

A certificate is its `certid`; `issued` is what its holder has (whose it is, its age, its
common name, and which program wrote its text), `row` is the table. `client[m]` is
the certificate a machine uses and the slot of the request it waits for;
`request[m][s]` is the handler's side, which goes on when the client has given up
(`ClientMisses`). `Accepts` is the check of `ping.go` together with TLS. A run of the
client posts, renews or requests, in the order of the script, and asks for a new
certificate in the run in which a renewal failed (`Replies`).

`RenewCheck` is `isRevoked` and the choice of the name, `RenewCheckNoName` the same when the
query for the name fails, which the code treats like a host without a name (`cert.go:274`: `!hostName.Valid`
holds then, too); `RenewCommit` the read of the old
row and the transaction, which are one step because what is read never changes.
`previous` and `first` are `None` (0) when the old row has gone since `isRevoked` found it, which the missing
`return` at `cert.go:352` lets through. `deleteOldCertificatesJob` reads what is in use
(`JobLook`) and deletes later (`JobDelete`); a row that a file refers to by then makes
its transaction fail. `PastNotAfter` is the regular expression on the text.

`upsets` counts everything that can take a working certificate away or an answer from the
client: ageing, a new CA, revocation, a change of trust, a renamed or removed
host, a withdrawn approval, a failing request. `cut` and `late` remember the machines for
which the promise of `ClientKeepsItsHost` does not hold.

### Jobs, PeriodicJobs

`loop` is `main()`: it copies an element of `jobs` in two steps (a struct is larger than a
word, so the times can be older than the flags), waits for a slot, and starts the
goroutine. `routine[j][s]` counts the goroutines of a job in each stage, so that a
second one is not excluded by the form of the state. `due` stands for "more than
`HowOften()` since `lastrun`" and is set again by `Elapse`. A panic and the normal end are
one action with a choice, since the deferred function runs after both; `Hang` is a
run that waits for something for ever. `Signal` is the shutdown; `Drain` takes every slot;
`Stop` is the end, also after ten seconds.

`PeriodicJobs` has three sets: `wanted`, `running`, `given_up`. `Jobs` implements it under
`wanted <- jobs asked for and not begun since`, `running <- jobs with a goroutine in Run`,
`given_up <- all at shutdown, else the jobs with a run that hangs`.

### ApiKeys

What a key allows is two version numbers, one for its row and one for its ip ranges, because a
look-up reads them in two queries. An edit reads, commits, invalidates. `begun` in a cache
entry remembers when the look-up that filled it began; `raced` the keys that were
invalidated while a look-up held what it had read. `Lifetime` ticks of the clock are ten
minutes (`cacheTimeMinutes`), and a look-up takes less than a tick.

### CustomFields, IpRanges, Pruning, IntervalBuffer, Levenshtein

`CustomFields`: a pattern is the set of names it matches, a content the set of expressions
found in it, a value the id of the definition with version and expression. `todo` is what the run
selected, `worker` the goroutines; `marking[p]` counts the requests that have written the
definition and have yet to mark the files. The foreign key of `hostinfo_customfields` is in `KeyFails`
and in the cascade of `Delete`.

`IpRanges`: a range is its set of addresses; blocks are disjoint or nested
(`BlockAssumption`, as CIDR blocks are). `missed` in a request are the rows that others have written since its
check; `unseen` remembers the pairs of rows of which one was written like this while the other was being checked.

`Pruning`: a version is its time; `generateTimeTable` is the function of the code with the numbers of
days, weeks and months as constants; the days have to make up a week and the weeks a month
(`PruningAssumption`; the code has 30, 52, 120, 7 and 30). `lost` remembers the youngest deleted version of each
gap, all that the property needs.

`IntervalBuffer`: an element is its timestamp; `added` is the history, each value by its time and its number
among those of that time. `Levenshtein`: one step is one turn of the outer
loop; the inner loop is the recursive function `NextColumn` on the column; `Distance` is the
definition it is compared with, a function of a pair of strings.

## The runs

"Violated" runs show a disagreement between the code and what it says of
itself; they are described in `PROJECT.json` under "findings".

| Run | Instance | Shows |
|---|---|---|
| `InventoryRemoval` | one host, one file name, two contents; two archives with one DELETE and one expiry, or one archive with one DELETE and one failure (of its commit, or of any statement), or three archives and any pruning | types; maps reverse of one another; the three searches agree; no search panics; one current version; the cache agrees with the tables in the end |
| `InventoryFailures` | two certificates, two file names, one archive, one error at any step, and either one restart or one renewal with its cache update delayed or lost | no content without a key in any case; without a renewal, half-done archives and rolled-back parses leave one current version at most, every current file parsed, its host known, the cache repaired |
| `InventoryKeys` | two certificates, one renewal | `KeysConverge` is violated (api_internal.go:46) |
| `InventoryReturn` | two archives, one expiry | `HostRepopulated` is violated (processarchive.go:263) |
| `UploadsQueue` | one client, two uploads, two task ids, two slots, three failures, one restart, one reset, delays up to 1 | one archive at a time, nothing processed that was not unpacked, delays within their cap, no certificate lost unless its client missed a nonce, the queue drains |
| `UploadsRetry` | one client, one upload | `RetriedUntilSuccess` is violated (taskrunner.go:18) |
| `NamingSettle` | two hosts, two names, two addresses, all kinds of network, two uploads, one removal, one PATCH or approval (in the networks `dns` and `none`) | names are unique and settle, a name set by hand holds |
| `NamingAddress` | two uploads | `ParsedAddressIsNoticed` is violated (parseFiles.go:138) |
| `JobsSchedule` | two jobs, two slots, one trigger, one run that hangs, a shutdown | no job runs twice at once, a frequent job runs again and again, the shutdown ends and says "finished" only when all are, `PeriodicJobs` is implemented |
| `CertificatesLife` | one machine, with or without certificates from the time of openssl, two upsets, one lost reply | its host follows it, nothing in use is deleted, it ends with a certificate that works |
| `CertificatesExpiry` | the same | `ExpiredGo` is violated (deleteOldCertificates.go:22) |
| `Housekeeping` | one key, one temporary key, two look-ups, two edits; three changes of a custom field, two files, two goroutines; two requests on nested ranges of three addresses; twelve ticks of uploads and prunings; six ticks of the buffer; all pairs of words of up to four letters out of two | the cache follows the edits, the temporary key ends; no orphaned or outdated values, every file parsed; ranges that are disjoint but for two that raced; a history without holes; a sum that forgets nothing; the distance |

**Bounds.** `Budget`, `MaxUploads` and the like count the events nobody has to cause; all
steps of the service are unbounded. One host is enough where rows of different
hosts do not meet (the cache keys them by certificate, every statement asks for one
certificate); two file names are needed where goroutines race to insert one
host's row; two versions suffice for retire, reactivate and evict, three for
pruning one of several old ones. Two certificates
make one renewal, two hosts the
quarrel about a name. Two slots allow two tasks of one archive. In `UploadsQueue`
a task can fail three times without losing its archive (`ExecNoTempDir`), and the third delay, 1 + 1, is
capped by `MaxDelay = 1`; the slip of `TypeOK`, a delay without the cap, is found there.
A failure may hit any statement, a restart any step; one of each is enough for
every single fault, and three for the delays. In `JobsSchedule` the two slots are as many as the jobs, as the ten
of the code are more than its nine jobs; only a job that runs twice could make one wait, and the mutants do.
Two upsets on one machine reach the pairs that the code has to get right together:
a name that changes and a certificate that ages, a revocation and a change of trust, an expiry
and a removed host. In `Housekeeping`, three edits delete and recreate a field under a parse
and edit it again; the small table of ages (two daily slots, two weekly of two days,
one monthly of four) ends at tick ten, so that versions pass every kind of slot and the last entry;
`Interval = 2` in six ticks lets the ring be reused, grow behind its position, and be reused again.
Combinations of two faults of a kind are beyond the runs.

**Symmetry** is used nowhere: the runs have liveness properties.

**Deadlock.** The runs of `Uploads`, `Naming`, `Jobs` and `MCHousekeeping` switch the check off: the system
stops when the bound on events is used up and everything is done, or after the shutdown. `Inventory` and
`Certificates` are checked for deadlock; the comparison job and the client can always run.

**Fairness.** Weak fairness for what the scheduler or a goroutine does as soon as
it can: the jobs run periodically (the loop at `main.go:192` starts each as often as it asks for), the workers of an
archive or file go on, a transaction commits, requests are served, a client runs again (once
an hour). It is stated
per process, not per statement, so that a process is not forced through a choice. Strong fairness only for
`RunnerStart`: slots are taken and given back, the runner waits on the channel
`taskSlots`, and Go's channels serve waiting senders. `dnsttl` expires by time
alone (`Expire`), and so does `HowOften()` (`Elapse`, for the jobs in `Frequent`: some
jobs ask for 24 hours and more, and the time of others is not needed). In `Jobs` a run returns or panics unless it is
among those that hang. There is no fairness for uploads, requests, removals, pruning,
renewals, failures, upsets, missed replies, shutdown or restarts.

## What is proved

Every safety property that the passing runs check, and the safety half of the refinement, is a theorem: for
every value of the constants (certificates, names, files, jobs, keys, requests, goroutines, blocks, letters,
lifetimes, tables of ages, bounds), from the assumptions of the modules. These are: file ids are natural numbers;
`NoFile`, `NoKey`, `NoCert` and `Absent` are none of the values they stand apart from; there is a name and an
address; blocks are disjoint or nested; permanent and temporary keys are different and requests that edit
keys are finitely many; the table of ages is as above; bounds and intervals are natural numbers. One lemma per process or
action throughout. The theorems of the last six modules are about the specification of the part
(`KeySpec`, `FieldSpec`, ...), of which a behaviour of `MCHousekeeping` is one with stuttering.

`InventoryProofs`:

- `TypeCorrect`: `Spec => []TypeOK`. `TypeOK` is inductive because it holds more than
  types. `Archiving`, `Parsing` and `Comparing` say that a process that is about to use
  a file id or a key has one (a process at `reactivate` has `old # NoFile`);
  `RemoversOK` says that a row that a DELETE request holds exists and belongs to the
  host being deleted until it commits or is rolled back, which is where pruning, retiring,
  inactive deletion and renewal have to wait; `TablesOK` says that ids of rows lie
  below the serial number, without which `ArchiveInsert` could overwrite a locked row.
- `SearchIsSafe`: `Spec => []SearchNeverPanics`. Every operation of the cache keeps
  `ContentHasKey` (four lemmas); with `TypeOK`, which gives each its arguments' types
  (`removeFileFromFastSearch` is called with an id, never `NoFile`), it is inductive.
  It holds with renewals, failures and restarts together, which TLC checks two at a time
  (`InventoryFailures`).

`SearchProofs`:

- `MapsAreReverse`: `Spec => []ReverseWithoutRenewal`. That the maps are reverse of one another is
  not inductive: `addFileToFastSearch` keeps it only if the file is not in the cache
  under another key. `OneKeyInv` adds what makes that so: everything
  that knows a key of a file (its row, the cache, a parse, the comparison, the
  loading after a restart; the row may be gone while the others still act on what they
  read) knows the same key, and nothing knows a key of an id that was not given
  yet. Renewals are what breaks it.
- `SearchesAlwaysAgree`: `Spec => []SearchesAgree`, from the two theorems above and a
  lemma about the three searches on consistent maps.

`ArchiveProofs`:

- `OneVersionIsCurrent`: `Spec => []OneCurrentVersion`. The strengthening `CurrentInv`
  has three parts. No two rows are received at the same time; a current row is the
  latest version of its file (so that the version that `processFile` compares
  with and reactivates is the current one, if there is one); and for each archive
  under way (`Covered`), as long as a file is not dealt with, no row
  of it is current but the one on the list `curFiles`, and once the previous
  version was retired, none. The steps of others only take
  current flags away (`RowsFade`). Failures of any statement and restarts are
  included.

`UploadsProofs`, about one inductive invariant `QueueInv`:

- `TypeCorrect`: `Spec => []TypeOK`, for every value of `Hourly`. `Ids` says why ids identify: rows
  of the table have different ids and urls; the rows the runner holds come from one query; the map
  `runningTasks` lists exactly the ids of busy slots; what is `ready` was not running when it
  was looked up, and nothing starts between the look-up and the start; a task with the id of a row has its url.
- `OneAtATime`: `Hourly => (Spec => []OneArchiveAtATime)`, and `NothingFromNothing`, the same for
  `NothingUnpackedNothingDone`. `HourlyInv` adds: a request that has not moved its archive yet is
  alone with its certificate (`Alone`); while an archive is there, the row of every
  task for it is (`RowStays`), so all of them have one id; where the archive is at each statement of a
  goroutine (`Progress`); and at most one goroutine is past the question
  whether the archive exists (`OneAtWork`).
- `HonestClientIsNotAClone`: `Spec => []HonestClientKeepsCert`. `NonceAgrees`: until a client misses a
  nonce, that of its row is its own or the one in the reply under way, whatever fails elsewhere.

`NamingProofs`:

- `NamesAreUnique`: `Spec => []TypeOK`, whose part on names is a property of several steps: the
  job decides on a name from what it read, uploads and requests change rows, and the commit takes
  the name from whoever has it then. `NamingInv` adds that names come from `Name`.

`JobsProofs`, about `JobInv`:

- `NoJobTwice`: `Spec => []NeverTwice`. The `running` flag is true exactly while one goroutine
  of the job is before its `ClearRunning` (`RunningIsActive`), and while the loop waits
  with a job in hand, that job is not running and nobody else starts it (`ToBeStarted`), although
  the copy that the loop decided on is old.
- `SchedulerKeepsPromise`: `Init` implies the initial states of `PeriodicJobs`, and every step is one of its
  steps or a stutter. This is the safety half of the refinement; the run checks the
  whole, with its fairness.

- `SlotsBound`: `Spec => []TypeOK`, and `ShutdownIsClean`: `Spec => []FinishedMeansFinished`, about `SlotInv`. The
  number of slots taken is a sum over all jobs and stages, which a proof cannot do by induction over
  the jobs; it is counted instead as the size of a set (`Held`, the k-th goroutine of a job in a stage is a triple).
  `Accounted`: the slots taken are these, one for the job in the loop's hand, and those that the shutdown filled. When
  it has filled all, none is left for a goroutine.

`CertificatesProofs`, about `CertInv`:

- `CertificatesAreTyped`: `Spec => []TypeOK`, which says that a line goes back to earlier certificates and
  that a client waits only for what the service works on.
- `UsedCertificatesStay`: `Spec => []UsedStay`. `InUseInv` is about the time between the look of
  `deleteOldCertificatesJob` and its deletion: what came into use in between has a text from Go, which the
  regular expression does not read, or a file that makes the deletion fail; and a certificate of a
  queued archive is not expired.
- `HostGoesAlong`: `Spec => []ClientKeepsItsHost`. `Lines`: a line of certificates (`first`) belongs to one
  machine, also when the row it began with is gone. `Holders`: certificates and requests stay in the
  hands of one machine. `InStep`: a machine that missed no reply has no request but the one it waits
  for, about the certificate it has; so a renewal moves the host that it is under. `OneHost` extends the
  property to archives in the queue, which make hosts later.

`HousekeepingProofs`:

- `KeysAreTyped`, `CacheIsYoung`, `CacheAgreesWithTable`, `TempKeyEnds`: `KeySpec => []TypeOK`,
  `[]StalenessBounded`, `[]CacheFollowsEdits`, `[]TempKeyDiesWithJob`, about `KeyInv`. `Young`: a look-up takes a tick at
  most, so that an entry is not older than its look-up by more. `Follows`: of a key with no edit
  between commit and invalidation and none that overtook a look-up (`Settled`), neither cache nor look-up knows
  anything that is not in the table. `OneOwner`: one run of the owner job has a key that has not ended. `Unborn`: before the
  first edit nobody knows a key that does not exist.
- `ValuesHaveAField`: `FieldSpec => []NoOrphan`, from the types of what the goroutines hold: the foreign key
  turns a commit with a definition that is gone into a rollback.
- `ValuesFollow`: `FieldSpec => []ValueFollows`. `Applied`: the value is that of the present definition, or the file
  is marked, or a request has yet to mark it. The step that needs all of it is the commit of a parse: if it read another
  definition than the present one it sets `overtaken`, as a mark that fails does, and otherwise what it read is for the file
  of its version (`ReadForFile`).
- `RangesAreDisjoint`: `RangeSpec => []OneRangePerAddress`. The answer that `verifyIpRangeParameter` gave
  still holds when the request writes, for every row but those written since (`StillVerified`); a write adds exactly
  the pairs with these (`WriteKeeps`).
- `HistoryIsThinned`: `PruneSpec => []ThinnedNotTorn`. `Apart`: a version that was not the newest when it
  came into its slot is farther from all older ones than the slot is wide, or it would have been deleted; so
  two versions do not meet again in slots of one width, and a gap does not grow
  run after run. What is left beside a deleted version (`LeftBehind`) is far from older ones, so that when
  it is deleted in its turn, which only the first slot of a wider kind does, the one that stays is still within reach.
- `SumForgetsNothing`: `BufferSpec => []NothingForgotten`. `AllThere` is about every beginning in the interval and not
  only the present one: as many elements as values since then; with it, a reused element is too old for any of them.
- `ColumnHasDistances`: `DistanceSpec => []ColumnIsDistance`, for any strings. The theorems of the library about
  recursive functions cannot be used (they take operators), so the equations are solved by hand: if there were a length up to
  which `Distance` had no solution, there would be a least one (`Solvable`); the column of distances solves the
  equation of the inner loop (`LoopEquation`); and nothing else does, since the first element
  that differed would be computed from elements that do not (`LoopComputes`).

The strengthened invariants were checked with TLC on the instances of the
runs before they were proved.

Only model-checked: what needs fairness, since TLAPS proves no liveness (`CacheConverges`, `FilesGetParsed`,
`QueueDrains`, `NamesSettle`, `OverrideHolds`, `RunsAgain`, `ShutdownEnds`, `Settles`, `ParsedInTheEnd`, and that
`Jobs` keeps the fairness of `PeriodicJobs`).

## Observations

What the models showed besides the violated runs. Each was met with TLC on a variant of an instance above,
or while the code was translated, and
is described so that a reader can repeat it.

Tables and cache:

- **Renewal leaves the maps inconsistent.** `replaceCertificateInCache`
  (`fastSearch.go:104`) moves entries onto keys that may be occupied, without evicting what is
  there. `fsKey` is then not the reverse of `fsID` (`fastSearch.go:16`), and the
  comparison, which looks only at ids, may not notice. An archive
  that is being processed under the old certificate during a renewal also leaves
  two current versions. `OneCurrentVersion`, `ReverseWithoutRenewal` and
  `SearchesAgree`, `CacheConverges` and `FilesGetParsed` are therefore stated up to the first renewal.
- **A host can come back after its deletion.** `parseFile` decides with the `current` it
  read at the start (`parseFiles.go:108`): the row it inserts can belong to a host
  that a DELETE removed in between. Its files are no longer current, so the host
  is shown without files.
- **DELETE answers before it commits** (`api_host.go:303-312`): the cache is emptied and the reply 204 written inside the
  transaction. If the commit fails, the host is still there, is missing from searches until the next comparison,
  and the error goes into a reply that has been sent.
- **A failing INSERT** after the previous version was retired (`processarchive.go:281-293`)
  leaves the file without a current version until the next archive. A read error of
  the latest version adds a second copy of an unchanged file.
- **`FilesGetParsed`** fails when a host expires, or a SELECT fails at
  the wrong moment, while its archive is processed: the race of `HostRepopulated`.
- **Versions are pruned by the time of the file** (`mtime`), while the current version is the one received
  last: a file with an old time is thinned out like an old version.
- **A version older than the last entry of the table** (about 10.9 years) makes `pruneOldFilesJob` index out of
  range (`pruneOldFiles.go:131`); the run ends there, as does every later one, and what comes after is never pruned
  (`PrunePanics`). If the job does not run for long, history is thinned more than `ThinnedNotTorn` says, which is why
  `Tick` asks for a run.

Uploads:

- **Without `Hourly`**, a client that posts again while its archive is processed can
  get two tasks at work on the same file (`taskrunner.go:74` and `:95`: the running task is
  finished, deleted and queued again under another id, while the runner starts
  the old row). The clean-up of one can remove the archive that the other is
  about to unpack; unpacking nothing counts as a package without files.
- **Two errors do not return** (`postArchive.go:113`, `:126-135`): the handler sends an error and goes on.

Naming:

- **Networks without DNS**: `nameMachine` ignores an older host at the same address
  (`handleDNSchanges.go:202`), also when that host has the name by hand. The name goes
  to and fro between them (compare `handleDNSchanges_test.go:145`), so
  requests are made in the networks `dns` and `none` only (`Edited`).
- **Two addresses with one DNS name** (`OneAddress = FALSE`), or two uploads received in
  one second (`OwnSecond = FALSE`; `received` has a resolution of a second,
  `postArchive.go:364`, and `handleDNSchanges.go:147` compares with `>`), make hosts take the name from each other for ever.
  `NamesSettle` is checked without either.

Certificates:

- **A second renewal of one certificate succeeds.** When the reply to a renewal is lost, the client
  renews the old certificate again; the old row is not marked in any way. The second certificate gets the same
  `previous`, and `hostinfo` and `files` stay with the first: the machine is a new host from
  then on. `ClientKeepsItsHost` leaves out machines that missed a reply (`cut`), and those that
  renewed while an archive of theirs was queued (`late`), whose row is made under the old certificate.
- **A certificate whose row goes away during its renewal is renewed all the same** (`cert.go:352`: the error is sent
  without a `return`). A row that was gone before is noticed: `isRevoked` fails, and the request with it (`cert.go:261`).
- **A revoked machine gets a new certificate at once** by `reqcert`, if it is trusted or its approved row is still
  on the list: the approval of a name is used up by the naming job only.
- **Two rows for one address**: the look-up and the insert in `ReqCert` are two statements, and the look-up takes any row. A
  machine whose row was approved may be told to be patient because of the other one
  (compare `README.md:41` of the repository), so `Settles` asks for all its rows.
- **PATCH is refused** while an old host row holds the hostname, although that may be the machine's own.

Scheduler:

- **A torn copy** can make the loop start a job again just after its run (never during it), so
  `HowOften()` is not the minimum time that `main.go:25-26` speaks of.

API keys:

- **An edit that a look-up overlaps** may not show for up to ten minutes: the look-up stores what it read before, after the
  invalidation, or a mixture of an old row and new ip ranges. `CacheFollowsEdits` leaves these out by `raced`,
  and `StalenessBounded` bounds what is left.
- **PUT without `ownerGroup`** writes back the owner that the handler read before, over an edit in between.
- **A run of the owner job** that takes longer than ten minutes goes on with a key that is no longer accepted.

Custom fields:

- **A lost mark**: a parse that read the old definition and commits after the mark sets `parsed = true`; the
  new definition is then not applied until the file changes. The same happens if the
  second statement fails, whose result is ignored. `ValueFollows` leaves both out (`overtaken`), and a lost mark
  satisfies `ParsedInTheEnd`: no property covers them.
- **Values stay** when a field is given another file name, or when the file is missing from later uploads.

Others:

- **Two requests for ip ranges** at the same time can create nested ranges. `OneRangePerAddress` allows
  this pair, and no other.
- **The ring** of `IntervalBuffer` can become several times longer than the number of values in the interval,
  since it grows whenever the element at its position is young.

## Plan

Done: all modules above. What would come next:

1. An abstract specification of the search ("a set of searchable files, of which an answer
   contains what was current at some time since the last quiet state") implemented by
   `Inventory` without renewals.
2. The access-profile cache as a register that is read and written atomically, implemented by `ApiKeys`
   when look-ups and edits do not overlap.
3. The composition of `Certificates` with the rows of `Inventory`: an archive under the old
   certificate that is processed during a renewal.
4. Two machines in `Certificates`: hostnames that one approval takes from another.

## Not modelled

- **Sessions and login** (`session.go`, `oauth2login.go`, `ldap.go`): a map under one lock, written by a single request per session, with an
  expiry; the decisions are those of OAuth2 and LDAP, which are external.
- **Read-only API** (`api.go`, `api_hostlist.go`, `api_grep.go`, `api_search.go` and the GET methods of the rest):
  they parse parameters, build a query and format its result. The searches they make in the cache are in `FastSearch`.
- **What an access profile permits** (`accessControl.go`): a function of request-local data.
- **The columns of `hostinfo`** that are cut out of file contents (kernel, vendor, serial number): data.
- **Schema, configuration, utilities**: run once at start. Transactions, unique keys and foreign keys are part of the
  actions; deadlocks of PostgreSQL between whole transactions appear as the failure of one of them.
- **Formatting, parsing, signatures, X.509, query building**: data or external.
- **The web site, the Windows client and the old CGI handlers**: another client, a user interface, and
  predecessors of handlers that the service has taken over.
