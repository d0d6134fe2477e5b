# A verification model of tesserae-api

`tesserae-api` is the public HTTP service of the Tesserae project: a FastAPI
application (`src/tesserae_api`) in one uvicorn process, a PostgreSQL database
it shares with maintenance scripts (`scripts/`, run by systemd timers or by
hand through `docker exec`), and three outside services: Discord, GitHub and
iNaturalist. This directory holds TLA+ models of its parts, the TLC runs that
check them on small instances and TLAPS proofs for every instance.

Paths below are relative to the repository.

## The system's parts

| Part | State | Operations | What is hard |
|---|---|---|---|
| Template tables (`templates_store.py`) | rows of `template_submissions`, `template_reports` | one transaction per function | unconditional updates, checks and inserts in separate transactions |
| Marketplace endpoints (`routes/templates.py`) | locals of each request | `submit_template`, `report_template`; index, documents and pictures, kept in HTTP caches | sync handlers on a thread pool interleave; quotas are checked, then used |
| Review channel (`discord_client.py`) | messages with buttons in Discord | `post_submission_message`, `post_report_message` | a post can succeed and its answer be lost |
| Interactions (`routes/discord.py`) | none between requests | approve, reject (modal), revoke, dismiss | presses from old messages and modals, lost answers, two transactions in a takedown |
| Repair job (`scripts/notify_pending.py`, a 15 minute timer) | lists read at the start | announces rows without a message id | old lists, overlap with the handlers and with itself, being killed |
| Moderation by hand (`scripts/moderate.py`) | none | approve, reject, revoke, sponsor | acts beside the review channel |
| iNaturalist proxy (`routes/inat.py`) | LRU cache, three slots, pacing lock | `inat_proxy` | coroutines interleave at awaits; two cache lookups around a wait; eviction and expiry |
| Version and firmware caches (`cache/`, `scripts/poll_github.py`) | one JSON file each | poll, atomic write, load, resolve | boot poll and timer poll overlap, killed writers, lists fetched by several requests |
| Heartbeats and statistics (`stats/collector.py`, `routes/heartbeat.py`, `scripts/dump_stats.py`) | rows per install and day, counters | one transaction per ping: an upsert per row; distinct counts; a report of many queries | pings of an install race on a thread pool, wait over midnight, fail half-way; NULL install ids; figures of one report read at different times |
| Schema migration (`init_db`) | tables and columns | `create_all`, then a column at a time | looks first and acts later; API and scripts start together; stopped half-way |
| Author identity (`pseudonym.py`, `ensure_author`) | secret file, author rows | preview, first submission, sponsor | check-then-create on a file and on a table; a lost data directory |
| Cloud waitlist (`waitlist.py`, `routes/cloud.py`, `scripts/invite_waitlist.py`) | sign-ups | add, remove, mark, unmark | list printed at one time, marked at another |
| Backups (`scripts/backup_db.sh`) | dump files | dump, prune | a failing dump and pruning by age |
| Lint, blocklist, configuration, widgets, flash, geolocation | none, or append-only logs | pure functions, inserts, one forward | nothing a later step depends on |

How they interact: every handler and script works on the same tables, each
function in a transaction of its own. The submit and report handlers and the
repair job create messages in the review channel; a button on a message comes
back as a request to the interactions endpoint, any time later; its answer
rewrites the message. Only the tables, the files under the data directory and
the channel survive a restart.

## Modules

- `TemplatesStore` has the two tables as `submission` and `report` and one
  operator per query or transaction, with the names of the source in TLA+
  style. Columns nothing branches on are left out; `created_at` is the
  question the quota queries ask of it (`recent`), the message id is the index
  of the message in the channel, 0 for NULL.
- `Marketplace` is the core. `worker` is the thread pool: each thread is idle
  or in a phase of `submit_template` or `report_template`, and a phase ends at
  each transaction or Discord call. `channel` is the review channel; a
  message's `face` decides its buttons (`Buttons`). `inflight` holds presses
  and open modals on their way; `Press` needs the button to be there when it is
  pressed, not when it is handled. `handler` is the interactions endpoint
  between the two transactions of a takedown; everything else in it is one step, because the handler is
  `async` and does not await after reading its body. `repair` holds the runs of
  `notify_pending`, several at once. `Moderate` is `moderate.py`. `JobKilled`
  and `Restart` lose the locals.
- `Moderation` is the promise, without threads, messages or jobs: a template
  waits until somebody entitled decides, never waits again, and a complaint is
  filed once, about a template that exists, and settled once. `Marketplace`
  maps onto it by `Stage` and `Complaint`.
- `InatProxy` is the proxy. Requests are coroutines of one event loop, so a
  step runs from one await to the next: `AskHit`/`AskMiss` up to the semaphore
  (`TakeSlot`), the pacing lock (`PaceNow`, or `PaceSleep` and `Wake`), the
  second look at the cache, and the call (`Answered`, `Troubled`). `slots`,
  `pace`, `since` and `cache` are `_slots`, `_pace`, the time since
  `_last_call` and `_cache`. Time is relative and passes with `Tick`. `owed` is
  history and never read by a request: per question what is left of its last
  answer's life and the other questions answered or hit since, until these fill
  the cache (`Use`, `Age`).
- `VersionCache` is `version_cache.json`: the poll of the API's start
  (`BootPoll`) and those of the timer and by hand (`Start`), three requests
  each while GitHub publishes and pushes, `WriteTemporary` and `Replace` for
  the atomic write, `Fail` and `Restart`, and `Resolve` for what
  `/version/latest` answers on the three channels.
- `FirmwareCache` is `firmware_cache.json`: the same polls, which read the file
  (`Load`), ask the firmware repository (`FetchMain`) and then every community
  repository (`FetchCommunity`, or `CommunityFails`, which carries its old
  entries over), and replace the file; `Resolve` is `/firmware/{kind}/latest`.
- `Migration` is `init_db`: `migrator` holds the processes, the API and the
  maintenance scripts, each at a phase of `create_all` and of the loops of
  `_apply_added_columns`; `tables` and `columns` are the schema. What one of
  them found before another changed it makes it fail (`CreateFails`,
  `AddFails`), and the process goes down; Docker launches the API again.
- `Heartbeat` is `record_heartbeat` over that schema. `worker` is the thread
  pool: a ping is received with its day (`Receive`), upserts its heartbeat and
  its kinds in one transaction (`UpsertHeartbeat`, `UpsertKind`), waiting for
  transactions that hold the key, and commits (`Commit`), fails (`PingFails`)
  or is cut off (`Stop`). `heartbeats` and `kindRows` are the committed rows.
  `CleanKinds` is `_clean_kinds`; `ActiveInstalls` and `KindInstalls` are the
  queries on installs, and `report` is `dump_stats.py` between them
  (`ReadActive`, `ReadKinds`), with the installs recorded since as history.
- `DailyReports` is the promise of `Heartbeat`, without transactions, locks or
  restarts: a report arrives (`Arrive`) and is filed whole under the day of its
  arrival (`File`), or lost (`Lose`). `Heartbeat` implements it with the requests
  under way as what is pending (`Reports == INSTANCE DailyReports`).
- `Telemetry` is the rest of the collector that more than one transaction
  depends on: `RecordHit` for the hits of the version endpoint, `RecordCheck`
  for the counters of firmware checks, and the report of `dump_stats.py`, which
  reads one figure after the other (`StartReport`, `ReadWindow`, `ReadTotal`,
  `ReadVersions`) while requests go on and days end (`Midnight`).
- `AuthorIdentity` is the name an install publishes under. `secretFile` is
  `author_secret`, which a request draws, opens and writes in three steps
  (`DrawSecret`, `OpenFile`, `WriteFile`); `pseudonym` and `perks` are
  `template_authors`; a submission goes through `FindAuthor`, `InsertAuthor` and
  `Submit`, a preview through `PreviewStored` or `PreviewUnknown`. `LoseData` is
  a container without its volume. `shown` and `credited` remember what the
  install was told.
- `Catalog` extends `AuthorIdentity` with what the public reads: `fetch` is a
  request for the index, a document or a picture between the transaction that
  reads rows (`ReadIndex`, `ReadDocument`, `ReadPicture`) and the answer, which
  looks up the authors (`ReceiveNamed`) or not (`ReceivePicture`); `copy` is what
  an HTTP cache keeps of it for the max-age. Meanwhile templates are submitted
  (by `AuthorIdentity`), approved and taken down (`Decide`).
- `Waitlist` is `cloud_waitlist`: visitors join and leave (`Join`, `Leave`)
  while the maintainer prints who waits (`PrintEmails`), mails them (`SendMail`)
  and marks them, by name (`Mark`) or all (`MarkAllPending`), or takes a mark
  back (`Unmark`). `mailed`, `released` and `late` are history.
- `Backup` is `backup_db.sh`: a run dumps what the database held when it began
  (`StartDump`, `DumpWhole`, `DumpFails`) and prunes by age (`Prune`,
  `PruneKilled`); the nightly run and one by hand may overlap.
- `MCMarketplace`, `MCInatProxy`, `MCFirmwareCache` and `MCHeartbeat` give TLC
  what a configuration cannot: users, deciders, symmetry, functions of the
  repositories and tables, the bodies of pings. `MCRecords` puts `Waitlist`,
  `Backup`, `Catalog` with `AuthorIdentity`, and `Telemetry` side by side: `part`
  says which of them a behaviour is about, because they have nothing in common.
- `MarketplaceProofs` (with the refinement of `Moderation`), `QuotaProofs`,
  `InatProxyProofs`, `VersionCacheProofs`, `FirmwareCacheProofs`,
  `HeartbeatProofs` (with the refinement of `DailyReports`) and `RecordsProofs`
  (for the five of `MCRecords`) hold the theorems, `FiniteInduction` the lemmas
  on finite sets and folds that three of them use.

A definition headed "Mutation" is no part of the system. It is the next
definition with a plausible bug, kept to show that a property notices it.

### Abstractions

- Everything that fails before the first transaction of a request (size,
  envelope, lint, blocked version, test install, unknown slug, bad signature,
  unknown id) changes nothing and is the absence of a step.
- A request dropped at a database error ends like one dropped by `SubmitAbort`
  or `Restart`: its row, if committed, stays.
- The bot edits a message only by answering a press (type 7 in
  `_update_message`). `Answer` lets that rewrite be lost.
- Discord not being configured is `PostFails` every time.
- A deleted message is not modelled: the bot deletes none.
- A request the proxy refuses (no key, a path that is not allowed) does nothing
  and is the absence of a step. Nothing of the proxy survives a restart, so
  there is none. Of an answer only the question and the life of its entry are
  kept; statuses, bodies and the max-age the client is told are left out.
- GitHub only grows: releases and commits are never withdrawn or edited, a
  release's version grows with its position in the list, and dates are
  positions. Versions, commit ids and assets are numbers and kinds; what a
  caller says it runs has a kind (`Current`) instead of a spelling.
- A file that is missing, is no JSON or has an older schema is one of
  `NotPayload`, and counts as one that cannot be served. The version route does
  serve a file of an older schema, or any JSON it can resolve, until the poll at
  the start of the API replaces it. The temporary file left by a poll that is killed is read by
  nobody and not modelled.
- In `FirmwareCache`, `Boot` is the place of the poll at the start and, once
  that is over, of a script, so that one poller means polls that never overlap.
- The database of `Migration` and `Heartbeat` is PostgreSQL, as deployed
  (`docker-compose.yml`): DDL is transactional, an upsert waits for another
  transaction that wrote its key, and unique keys with NULLs never conflict. A
  transaction's rows become visible at its commit; since it holds their keys
  until then, that is also when they replace the ones before. The descriptive
  columns of a row are the number of the ping that wrote it. A firmware version
  is a number, 0 for none. A ping of a blocked version writes nothing and is
  the absence of a step. The test `table not in tables` never holds, because
  every process that calls `init_db` imports the modules of those tables
  (`AddedImported`); the model waits there instead.
- In `AuthorIdentity`, `derive` is injective: a pseudonym is the number of the
  secret it came from, and the word lists are left out, so two installs never
  share a name. An empty file is a missing one, because `load_or_create_secret`
  strips it and draws again. The submission itself is one step here and has its
  quotas and its announcement in `Marketplace`. Its answer is `author_display` of
  the author row; `credited` has that row's pseudonym, which the answer shows
  unless the row is a sponsor's with a name of their own.
- In `Catalog`, an install has one template, and `Decide` is whatever
  `Marketplace` does to its status, with rejected and revoked as one. The caches
  are outside the program: they keep an answer for its max-age, counted from when
  they receive it, and refusals not at all. The install counts of the index are
  left out.
- The status "superseded" of `STATUSES` is left out: no code sets it.
- In `Waitlist`, a mail is sent by hand from the printed list, also to somebody
  who has left it since. The maintainer follows the rounds, where the script takes
  any address at any time: `Mark` names whom the round has mailed, and
  `MarkAllPending` comes when all of the list were. Marks are taken back between
  rounds. `invited_at` is
  whether it is set.
- In `Backup`, a broken-off dump holds some of the rows of its snapshot, a run
  ends on the day it began, and ages above the retention are one.
- In `Telemetry`, a figure on installs is the set that was counted, checks are
  of one firmware kind, and the figures the report prints before its first
  window are left out, because none of the others is compared with them.

## Runs

All runs have `CHECK_DEADLOCK FALSE`: a bounded instance stops when its
templates, messages, releases and faults are used up.

| Run | Instance | Question |
|---|---|---|
| `review` | 1 template, 2 reports, 1 thread, 1 reviewer, 1 outsider, 2 messages, 1 press, 1 fault | is whatever counts as announced decidable from its message (`IInv`)? does Marketplace implement Moderation? |
| `quota` | 3 templates, 2 reports, 2 threads, ageing rows, quotas of 1, Discord down | how far can concurrent requests overshoot a quota? |
| `announce` | 1 template, 1 report, 1 thread, 1 job, 1 fault, fairness | is every row announced or decided in the end? |
| `lifecycle` | 1 template, 1 thread, 1 reviewer, 1 message, 2 presses, no fault | does a template follow the documented lifecycle when the approval and the modal of one message cross? |
| `settles` | the smallest instance that shows it | does a takedown settle every report? |
| `inat` | 3 requests, 2 slots, 3 questions, 2 cache entries, fairness | limits, spacing; does the cache keep what was last used, and spare the calls it can? is everybody answered? |
| `inat_one_call` | 2 requests, 1 question | "many panels asking the same question cost iNaturalist one call" |
| `version` | 2 polls, 2 releases, 1 commit, 1 restart, fairness | is the file whole, are its answers consistent for every spelling, and does it catch up? |
| `firmware` | 1 poll at a time, 2 kinds, pages of 2, 3 releases, 1 restart, fairness | is what is served published, carried over when a repository fails, and never older than before? |
| `heartbeat` | 2 workers, 2 pings, 3 kinds and room for 2, 2 days, 1 script with reports on a day, 3 tables, 3 added columns, 1 stop, fairness | is the schema whole before a request is taken, and is it in the end? are rows one ping's? can pings wait for each other? do the two counts of a report agree? does Heartbeat implement DailyReports? |
| `firmware_overlap` | 2 polls, 1 community kind | the same carrying over with polls that overlap |
| `records` | one of: 2 addresses, one of them written in two ways; 1 row, 2 runs a day, 1 day kept; 1 install, 2 threads, 3 secrets, 1 loss; 1 template and one resource at a time, kept for 1 or 2 of 4 ticks; 1 client, 2 windows, 2 days, 2 versions; fairness of the backups | is nobody asked twice, and who is marked without having been asked? does a whole dump stay, and is a withdrawn row forgotten? is an install told one name, and does the catalog credit it? how long is a template seen after its takedown? do a report's figures agree? |

Bounds. `MaxMessages`, `MaxInFlight` and `MaxFaults` bound the channel, the
presses on their way and the faults; the number of templates, reports, threads
and jobs bounds the rest. They are enough for the cases that matter: two
messages give a row an original and a copy whose acknowledgement was lost or
that an old list caused; in `lifecycle`, two presses of one message cross, and its
property asks only about templates whose messages show the decision, so that
neither a lost answer nor a second message is needed for the violation; two threads overshoot a quota, and three templates
leave room above the bound that is checked. In `announce`, `MaxMessages` is
above the number of messages the faults can cause, so the bound never blocks
an announcement, and decisions come from the command line. Three requests on
two slots meet every wait of the proxy: one at the semaphore, one at the lock
and one asleep or calling. Three questions for two entries is the least for which
the order of eviction matters; a 4xx lives for one tick less than a 200
(`TtlError` 0, `TtlOk` 1), so that the newer of two entries can expire first.
Two releases on a page of one put a release between
the requests of a poll and push one off the page; a third release on a page of
two does so for two repositories. Two pings of one install with the same kinds
in opposite orders are all that a circle of waits or a mixed row needs; the
second one is received after midnight in some behaviours. A report looks back
over the day alone (`Window` 0), so that a row falls out of it at midnight. The schema starts
with any of the tables and any number of their added columns, so that every
step of an upgrade can be the one a script runs into. The repair job and the
two takedown requests are in separate runs (`announce`, `review`), because
together they are too many states; the theorems cover both at once.

In `records`, the parts wait for nothing of each other, so that each is as large as
its own instance and their numbers of states add up. Two addresses are one to
be mailed and one that joins, leaves or is written differently meanwhile. One
row is enough for backups, because a row's fate does not depend on others; two
runs a day overlap, and files reach every age up to the one that is pruned. Two
threads make the secret together or insert an author together, with one secret
to spare for the request that comes after the data directory is lost
(`MaxLosses`). The catalog is met by one submission at a time, because threads
that meet are the matter of the names, and by one resource, because a cache
knows nothing of others; four ticks (`MaxTime`) are one more than the age of a
picture. A hit counts for the shorter window on one day and only for the
longer one on the next; two checks in a day are one before a figure is read and
one after (`MaxChecks`).

Fairness, only for the liveness properties. `Marketplace`: the timer keeps
starting the job (`tesserae-api-templates.timer`, every 15 minutes,
`Persistent=true`), a started job goes on, and an announcement tried again and
again is acknowledged in the end, which says that Discord recovers. It is strong
fairness because every failed attempt takes the row off the list until the next
run. Nothing is assumed of reviewers, request threads or restarts.
`InatProxy`: time passes, and a request that can go on again and again does:
asyncio wakes the waiters of a semaphore and of a lock in the order they came,
and the client's time-out ends a call. `VersionCache` and `FirmwareCache`:
the timer keeps starting polls (`tesserae-api-poll.timer`), and a step tried
again and again succeeds, which says that GitHub and the disk recover; a
community repository need not: its failing is as good as its answering.
`Heartbeat`: Docker launches an API that is down (`restart: unless-stopped`)
and its `init_db` runs on; nothing is assumed of scripts, pings or the database
failing them.
`Backup`: days pass, the timer starts a run on each
(`tesserae-api-backup.timer`, `OnCalendar`, `Persistent=true`), a run that began
ends, whole or not, and a nightly run that tries to dump, or to prune, day after
day succeeds in the end: the disk and the database recover. Nothing is assumed of runs by
hand. This is the only fairness of `MCRecords`, and `RecordsFairness` asks it
only of the behaviours of that part; the other parts have safety properties only.

## What is proved

The theorems hold for all sets of templates, reports, installs, threads, jobs,
users and reviewers and all quotas, from the assumptions named in
`Marketplace`: quotas are positive, reviewers are users, deciders are the users
and the command line, nulls are distinct from values, and threads, templates and
reports are finite.

- `Invariance`: `IInv` is inductive. `AnnouncedIsActionable` alone is not,
  because it says nothing of the threads and runs that are about to record a
  message id, of messages nobody has recorded, nor of presses on their way that
  will rewrite one. `IInv` adds: the message held by a thread or a run is about
  the row it will be recorded in (`WorkersOK`, `JobsOK`), a message keeps its
  buttons while its row waits (`ChannelOK`), and a press that can rewrite a
  message decides the row in the same step (`InteractionsOK`). The proof goes
  variable by variable: lemmas `...Changes` say which actions touch a variable,
  lemmas `...Keeps` what a transaction preserves, lemmas `...Step` prove one
  part of `IInv` each. `TypeCorrect`, `AnnouncedStaysActionable` and
  `OpenReportStaysActionable` follow.
- `QuotasInvariant`: rows that count and threads past the check are together
  fewer than quota plus threads. The bound on rows alone forgets the threads
  between check and insert. A step shrinks both, trades a claim for a row, or
  grants a claim below the quota (`QuotaKept`).
- `ModerationImplemented`: the refinement. It needs `IInv`, for the existence
  of the rows a thread or a press refers to, and that an absent row names no
  decider (`Undecided`).

The other components, again for every value of their constants:

- `InatProxyProofs`: `IInv` says that a slot is free or belongs to one request
  past the semaphore (`SlotsConserved`), that only the holder of the lock
  sleeps and sleeps long enough (`PaceHeld`, `NapCovers`), that the service's
  own clock is never ahead of the calls it started (`QuietCovers`), and that
  the cache has no two entries for a question. The bound on calls follows by
  counting, the spacing from the nap and the clock. `DebtsCovered` says that what
  the cache owes it has: an answer that is valid and among the last
  `CACHE_MAX_ENTRIES` used has an entry with the life that is left, and all that
  lies behind the entry was used after it. Without that order the invariant is
  not kept by an eviction, since the entry in front could be the one that is
  owed; with it, a full cache whose first entry is owed would have as many others
  behind it as it may hold, more than the debt allows. `RefetchHolds` follows: a
  question goes upstream only after it was looked up again, in the same step, and
  what is owed is found.
- `VersionCacheProofs`: the latest release is asked for last, so no full
  release a poll has listed is newer (`DraftsAgree`); hence a caller that runs
  the latest of its channel, in any spelling, is none behind (`CurrentHolds`),
  whatever GitHub did between the requests. `WholeHolds`: only `Replace` writes the file.
- `FirmwareCacheProofs`: entries are published releases however long they are
  carried from file to file (`PublishedHolds`); a kind whose repository failed
  has what the poll had read (`DraftsCarry`); if polls do not overlap, what it
  had read is still the file (`PreviousIsFile`), so nothing is lost
  (`CarryHolds`, which assumes one poller). While every repository fits on a
  page, a repository that answers lists all that is served of it (`FileOnPage`),
  so what the poll has asked for leaves nothing out (`NothingLost`): the draft
  has every entry that covers a kind, and the newest of a bounded set of dates
  exists (`LargestExists`), so no answer goes back (`AnswersHold`, one poller).
- `FiniteInduction`: every non-empty family of subsets of a finite set has a
  smallest member (`SmallestSet`), which does the work of an induction: the
  members are the counterexamples to a statement, and the smallest one
  contradicts it. From it: the recursion of a fold has one solution
  (`FoldsAgree`, `FoldExists`) of the type of its steps (`FoldTyped`), and a sum
  of naturals does not shrink when its terms grow (`SumGrows`).
- `HeartbeatProofs`: a process past a table of the loop left it complete, and
  nothing takes a column away, so the API serves only a whole schema
  (`NeverUnmigrated`, from `MigratedSoFar` for every process); columns of a
  table that does not exist are none, without which creating it could seem to
  lose some. Transactions past their first statement have different keys
  (`RowsExclusive`); it follows that no kind is ever waited for (`NoDeadlock`)
  and, with a kind always next to a heartbeat of its install and day
  (`KindsAnchored`), that the queries of a report agree although they are apart:
  what the first would find now it has found, or a ping was recorded since, or
  the window has moved on (`ActiveAccounted`), so a kind read later has no other
  installs (`ReportsAgree`). `Sound` also says that
  a row and its kinds are one ping's; it holds because a commit replaces
  exactly the rows of its key. `KindsClean`: what `_clean_kinds` makes of any
  list has valid kinds only, none twice, and no more than the cap, by induction
  along its fold; so the rows keep the unique constraints of their tables
  (`KeysUnique`). `ReportsImplemented`: the upserts of a ping are stutters of
  `DailyReports`, its commit is `File`, a failure or a stop is `Lose`; it needs
  that no two requests serve one ping (`PingsApart`), or filing one would take
  another off the list.
- `RecordsProofs`, for the parts of `MCRecords`. `WaitlistInv`: whoever was
  mailed and still waits is about to be marked or was released, and whoever was
  printed and has left was released; without the second, somebody on the printed
  list who leaves, joins again and is mailed would seem to be asked twice
  (`AskedOnceHolds`). `BackupInv`: a run that prunes has a whole dump of today
  behind it, which no retention deletes (`WholeDumpHolds`). `IdentityInv`: a
  thread past `ensure_author` holds the row's pseudonym, so a conflict that
  fails the request is what keeps the answers right (`CreditHolds`); and unless
  two threads made the secret together or it was lost, all pseudonyms stored or
  shown are those of the one secret there is (`OneSecret`, hence
  `PreviewHolds`). `SecretHolds`: only a request that found no secret writes
  one. `TelemetryInv`: what a window has counted is what it would still count,
  because the report fixed its day and rows only grow (`WindowsHold`).
  `ChecksInv`: the total that a report has read is no more than the same query
  would count now, because the sum of counters that grow does not shrink
  (`CountersGrow`); so the figures per version cover it (`VersionsHold`, for any
  finite set of versions).
  `CatalogInv`, over `IdentityInv`: what a request has read or a cache keeps was
  submitted, and if it is closed now it was closed after it was read; hence it is
  seen for no longer than its max-age and the time the answer took
  (`TakedownHolds`), and its author, whose row never changes its pseudonym, is
  there when looked up (`EntriesHold`). `RecordsHold`: all five invariants hold
  of the parts side by side, over `RecordsSpec`, which has no fairness, so that
  every part has its behaviours.

The invariants the runs call `IInv` have the types of the variables as their
first part.

Only model-checked: the liveness properties (TLAPS has no ENABLED) and the
divergences. Every other property of a passing run is stated by a theorem.

## Divergences

Four statements in comments and docs are not what the program does; each has a
run that shows it and an entry under "findings" of `PROJECT.json`.

1. The documented lifecycle is not enforced: Approve and Reject of one message
   are pressed before either is handled, the approval comes first, and the answer
   to the modal rejects the approved template (`lifecycle`). Older buttons, after
   a rewrite that was lost or on a second message, lead there as well, and the
   property leaves them out.
2. A report inserted during a takedown survives it (`settles`).
3. Requests with the same question that arrive before the first is answered
   each go to iNaturalist (`inat_one_call`).
4. Two polls that overlap can lose a community repository's entries: the one
   whose request fails carries over from a file it read before the other
   replaced it (`firmware_overlap`).

Seen while modelling, and left without a run of their own:

- The repair job posts a row again that was announced after it read its list
  (`notify_pending.py:7` says rows with a message id are never re-posted).
- Dismissing after a takedown answers that the template stays up
  (`routes/discord.py:121`).
- Concurrent submissions exceed the pending quota, by less than the number of
  threads (`PendingQuotaBound`).
- A cached 4xx is given the full max-age (`routes/inat.py:114`).
- A caller with an unparseable version is answered `is_current: false`, where
  the README promises null (`github_releases.py:197`).
- A caller further behind than the page of `history_limit` releases is told too
  few, and none when only prereleases are on it; on the main channel its
  `commits_behind` is null (`github_releases.py:281`).
- One page of `history_limit` releases is all the firmware poll reads, where the
  README promises a walk to older releases (`firmware.py:80`).
- Calls to iNaturalist are `MIN_INTERVAL_S` = 0.35 s apart, where the docstring
  says a second (`inat.py:11`).
- `mark --all-pending` also marks addresses that joined after the list was
  printed, which no mail reached, although `invited_at` is "set by hand when the
  invitation mail goes out" (`README.md:301`); later lists leave them out. They are
  all among those of `UnaskedAreLate`.
- Two first requests on an empty data directory can draw a secret each: one name
  is shown or stored, another one derived from then on (`pseudonym.py:101`).
- `pseudonym.py:14` says that losing the secret "renames everyone"; installs with
  a row keep their name, only those without one are shown a new one
  (`PreviewKept` is about both).

## Not modelled

- `template_installs` and `widget_installs` are append-only logs: one insert per
  request, a failure of which is swallowed, and a count of rows or of distinct
  installs when the catalog or a report is read. No step depends on them.
- The other figures of `dump_stats.py` are each one query over
  one table that nothing else is compared with.
- The credential lint (`template_lint.py`), the version blocklist and the
  pseudonym's word lists are pure functions on strings. The models have their
  outcomes: a request that does nothing, or a name.
- The settings (`config.py`) are read once and are the constants of the modules.
- The flash statistics and geolocation are a forward whose failure is ignored and
  a read-only lookup.
- Signature checks, envelopes and sizes refuse a request before any state is
  touched.

## Plan

1. `TemplatesStore`, `Marketplace`, `Moderation` and their proofs (done).
2. `InatProxy`, `VersionCache`, `FirmwareCache` and their proofs (done).
3. `Migration`, `Heartbeat` and their proofs (done).
4. `Waitlist`, `AuthorIdentity`, `Catalog`, `Backup`, `Telemetry` and their
   proofs (done).
5. `DailyReports`, `FiniteInduction` and what they allow to prove (done).
6. Left: abstract specifications of `VersionCache` and `FirmwareCache`, a file
   that is replaced as a whole, and of `Backup`, and proofs that these
   implement them.

The runs stay few by checking all properties of a component on one instance.
