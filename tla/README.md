# MrijaArchive: TLA+ models, model checking and proofs

MrijaArchive is a mail archive: a pipeline reads mailboxes in Maildir format,
extracts attachments and indexes the messages into SQLite; publishing scripts
put a compressed copy of the archive and a manifest on a relay; a client
(FastAPI server, terminal interface, Windows launcher) downloads, verifies and
serves it. This directory models the parts in which the order of steps matters,
checks them with TLC on small instances and proves the central results with
TLAPS for instances of every size.

Line numbers refer to the files under `src/` of the repository as given by the
`map` of PROJECT.json, e.g. `control.py:82` is `src/mrija_client/api/control.py`.

## 1. Inventory

| part | state | operations | hard behaviour |
|---|---|---|---|
| Client state and control API (`state.py`, `api/control.py`, `db.py`) | one `AppState`: state, db, db_path, version, progress; rate-limit table | `/open`, `/restart`, `/update`, `/sync`, `/shutdown`, `/status`, progress stream | no lock: handlers, threads and the terminal write the same fields; checks and assignments are not atomic |
| Updater (`updater.py`) | `.sqlite.gz` and `.sqlite` files of the data directory | manifest, download, checksum, inflate, swap | cut downloads, failures between steps, crash while writing, two updates on one file |
| Sync and auto-sync (`control.py`, `server.py`) | the index file, `last_sync_*` | rsync, reindex, reload | overlaps with updates; a check that is stale when it is acted on |
| Terminal interface (`tui.py`) | key thread, display loop | `u`, `q`, poll | update without a check (Rich), quit through a shared field |
| Data API (`api/data.py`) | none of its own | `/email`, `/attachment`, `/search`, `/browse`, `/update-check`, audit views | reads `state.db` several times in a request, against swaps |
| Sessions and audit (`server.py`, `state.py`) | `_SESSIONS`, sessions, audit list and file, logs, requests | login, logout, request, restart | bounded lists, a file that outlives the process |
| Launcher (`launcher/windows/app.py`) | the data directory | install bundled database, find newest, start | newest file by mtime, also after a crash |
| Extraction (`extract_attachments.py`) | attachment files | write once, verify, skip | crash in the middle of a write, repeated runs |
| Indexing (`index_mailbox.py`) | per-mailbox and global index | schema migration, upsert, two commits | crash between commits and migration steps, rerun, messages that move or go |
| Duplicate groups (`dedup.py`, `ordering.py`, `ids.py`) | none | union-find, ranks, group ids | transitivity, independence of input order |
| Scan and inventory (`parser.py`, `walk.py`, `inventory.py`, `hash.py`, `models.py`, `runtime.py`, `pdf_determinism.py`) | none | parse, list, reconcile | files that change between listing and parsing |
| Stand-alone reports (`maildir_scan.py`, `maildir_attachments_py2.py`) | none | walk, detect duplicates | the order of the walk, repeats in one mail |
| Viewer (`maildir_viewer.py`) | none: it ends before it writes its page (section 12) | – | not modelled |
| Publishing (`push-sqlite.sh`, `push-update.sh`, `push-data.sh`) | the relay's archives and manifest | upload, manifest, rotation, live reload | manifest written in place, rotation against downloads, two publishers |
| Installers, containers, development scripts, `disk_scan.py` | – | – | not modelled |

The parts interact so. The terminal and the API start worker threads; threads
and handlers share the `AppState` object; the data API reads it. The updater
reads the relay over HTTP. The launcher and the updater share the data
directory across processes' lives. The publisher runs on the product of the
indexer and, through `/api/open`, reloads a running client. The library's scan
feeds the indexer, the extraction and the grouping of duplicates; the scripts have
scans of their own.

What makes each part correct:

* client: UPDATING always has a thread at work; no closed connection stays
  behind; one update at a time; the stream ends with the update;
* updater: only verified, whole archives are opened, across crashes;
* data API: an answer put together from two databases still fits, and paging misses no mail;
* sessions and audit: the newest entries in memory, all in the file, over restarts
  and full disks; logouts that match logins;
* scan: nothing is skipped silently, and reconciliation notices what was;
* extraction and indexing: reruns and crashes converge to the same result;
* duplicate groups: exactly the connected components of "shares an attachment";
* publishing: what the manifest names can be fetched and has its checksum.

## 2. Plan

| order | module | models | abstract specification, theorems |
|---|---|---|---|
| 1, done | `ArchiveClient`, `MCArchiveClient`, `ArchiveClientProofs` | client state, control API, updater, sync, terminal keys, start of the process | types, UpdatingHasWorker, ClosedOnlyInTransit, VerifiedOnly; with one source of updates OneJob, InstallsComplete, StreamOutlivesJob |
| 2, done | `MailStore`, `MCMailStore`, `MailStoreProofs` | rsync, extraction, migration, indexing, stops and reruns | types, MigratedBeforeUse, GlobalWithinLocal, SyncedIsArchived, DamagedInTransit; with one command at a time RowsBacked |
| 3, done | `Relay`, `MCRelay`, `RelayProofs` | the three publishing scripts, rotation, late clients | types, NeverTorn; without reuse of attachment archives ManifestFetchable, LateFetch |
| 4, done | `ArchiveReads`, `MCArchiveReads`, `ArchiveReadsProofs` | the data API's requests that read `AppState` more than once, and paging, over the swaps of `ArchiveClient` | LabelFollowsOpen, the client's invariants beside readers; with an archive installed in advance AnswerFits; where archives agree on the order of mails NoMailSkipped |
| 5, done | `MailParts`, `MaildirScan`, `MCMaildirScan`, `MaildirScanProofs` | walking a Maildir in use, reconciliation, ids, duplicates in the reports | types, MissedOnlyBehind, AcceptedIsExact, RowsAreRenames, OneOriginal |
| 6, done | `Components`, `DupGroups`, `MCDupGroups`, `DupGroupsProofs` | `dedup.py`, `ordering.py` | types, the abstract partition and its refinement; GroupsAreComponents, OldestFirst |
| 7, done | `AuditTrail`, `MCAuditTrail`, `AuditTrailProofs` | the audit list and file, sessions, login and logout, kills and starts | types, LogoutsAddUp, NewestInMemory, LossesAreBounded |
| 8 | droplet reload | `push-data.sh`'s overwrite of the open database | – |

Compositions: `ArchiveReads` EXTENDS `ArchiveClient` and lets readers act between
its steps. `MailParts` holds what `MaildirScan` and `DupGroups` both need of a
message. `DupGroups` is shown to implement `Components` by a refinement mapping. The relay and
the client meet in one point only, the manifest, and each models the other side by
all it may do: `ArchiveClient` gets any version and any bytes, `Relay` has clients
that fetch arbitrarily late. An abstract "job" above `ArchiveClient` was considered
and dropped: `OneJob`, `InstallsComplete` and `VerifiedOnly` say what it would.

The modules are written to be proved about: constants with named assumptions, an
action per operation, invariants as conjunctions of named parts, no recursive
operators. Definitions marked "Mutant" are not used by any specification; each
is a variant of the definition next to it as a plausible slip would leave it,
and PROJECT.json pairs it with the property that such a slip breaks.

## 3. ArchiveClient

### State and actions

| variable | in the code |
|---|---|
| `up` | the process lives |
| `state`, `db`, `db_path`, `version` | the fields of `AppState` (`state.py`); `db` is a path and whether the connection is open; `version` also stands for `manifest_version`, assigned with it |
| `disk`, `gz` | `.sqlite` and `.sqlite.gz` files by directory and version: absent, empty, damaged, complete |
| `newest` | the `.sqlite` file of the data directory with the latest mtime |
| `job[w]` | where an update or sync thread is, its directory and its archive |
| `loop` | `/open` or `/restart` between two accesses to `AppState`; the event loop runs one handler at a time |
| `recent` | the rate-limit table: endpoints called within ten seconds |
| `stream` | `/update/progress` is open |
| `stopping` | `/shutdown` or `q` has been used |
| `verified`, `openFailed` | history: checksums that matched; the last `MailDB()` raised |

`TriggerUpdate`, `TriggerSync`, `Open`, `Restart`, `Shutdown`, `OpenStream` are
the handlers of `api/control.py`; `PressUpdate` and `Quit` the terminal's keys;
`AutoSync` the loop of `server.py`. A worker runs `run_update` (BeginUpdate,
FetchManifest, CreateDownload, Download, Verify, OpenInflate, Inflate) or
`_run_sync_impl` (CheckSync, BeginSync, Rsync, Reindex), and then both swap the
database (CheckOld, CloseOld, OpenNew, Label, Finish). `Fail` is the except clause of
either, from every step that can raise, with what that step leaves behind.
`Crash` ends the process anywhere; `Launch` and `Main` start it on what is then
on the disk.

### Runs

| run | question | states |
|---|---|---|
| `client_single` | `/update` as the only source, two versions, crashes: one thread at a time, verified and whole files, a stream that lasts | 722,977 |
| `client_sync` | a manual sync, the auto-sync, updates, reloads and stops on an empty or filled directory: types, and does UPDATING end? | 178,830 |
| `reads` | (section 4) unguarded updates, `/open`, `/restart`, crashes, with readers | 2.42 million |
| `client_crash` | is a RUNNING client on a whole archive after a crash? It is not | – |
| `client_open` | are updates still one at a time if `/open` is used? They are not | – |

In `client_sync` the relay is down (`Versions = {}`), so update threads go no further
than the manifest. Whole updates run beside the handlers in `reads` and one after
another in `client_single`. Two whole updates at once, as the Rich key allows, are in no
run; `UpdatingHasWorker`, `ClosedOnlyInTransit`, `VerifiedOnly` and `LabelFollowsOpen` are
proved for any number of them.

*Bounds.* The hazards are races of two threads, of a thread with a handler, and
of a crash with a thread. Two threads at a time, from two slots or a slot and the
auto-sync thread, and the handlers beside one thread, give each pair. That UPDATING
always has a worker and no closed connection stays for three and more threads is
what the theorems say. One version is enough except in
`client_single`, where the second lets an update follow another one and lets a
restart pick an older file. Each run has the operations its question needs; the
theorems cover all operations together. Nothing is capped: the state space is
finite.

*Fairness.* A worker that can step does (`WF_vars(Worker(w))`): the threads are
ordinary Python threads, and what they block in has timeouts (10 s for the
manifest, 60 s without data for the download, 600 s for rsync). The handler in
progress, the SIGTERM, the stream and the display loop's poll go on as well.
No fairness is assumed of users, of the auto-sync timer or of success:
`UpdatingEnds` holds although every step may fail.

### Abstractions

* `if state.db: state.db.close()` of the threads reads the field twice (`CheckOld`,
  `CloseOld`): a `/restart` in between makes the second one fail. In a handler both
  are one step, since nothing in a thread sets the field to None. `db_path`,
  `version` and `manifest_version` are assigned in one step; no property reads them
  apart.
* `WindowElapses` waits for threads that were started but have not run: a thread
  starts within the ten seconds of the rate limit. `OneJob` rests on that.
* The relay may name any version, also an older one or the same again.
* What the sync writes is abstracted to "complete": `Reindex` succeeds or fails,
  without telling which mails it holds. (In the code `_upsert_attachment` is
  called with the wrong number of arguments at `control.py:184`, so a sync that
  meets an attachment fails; both outcomes are in the model.)
* Closing the launcher's window is one more way to `Exit`. The Textual interface's
  `q` exits at once and is left out. The bundled database, saving attachments and
  the file dialog are not modelled.
* Temporary directories are gone when the process is.

## 4. ArchiveReads

A request of the data API is served by the event loop, beside no other handler, but
it reads `AppState` more than once, and threads swap the database in between.

| variable | in the code |
|---|---|
| `req` | the request in progress (`email_detail`, `download_attachment` in `data.py`), the archive its first read met and the one its second met |
| `list` | what a reader has seen who turns the pages of `/browse` or `/search` |
| `crossed` | history: a database was opened between the opening and the labelling of another |

`Begin`, `EmailDetail`, `DownloadAttachment`, `EndRequest` are the two handlers read
by read; `Browse` asks for a page with LIMIT and OFFSET (`db.py:63`). While a request
is in progress only the steps of `BesideLoop`, those of other threads, happen.

Run `reads` (2.42 million states): one update thread, started by either terminal
interface, `/open`, `/restart`, `/shutdown`, `q`, crashes; an installed archive of
four mails of which three match, and an update that puts a page of newer matching
mails before them; pages of two.

* `LabelFollowsOpen`: between swaps `db_path` names the served file. The exception,
  two swaps that cross, is real: the code opens and labels in two steps
  (`updater.py:111`), and the wrong label stays until the next swap.
* `AnswerFits`: a swap may come between the two reads of a request (`data.py:126`,
  `data.py:323`), and nothing excuses it. What keeps the answer right is that only a
  thread can make one there, and that a thread puts an archive of the relay in the
  directory of the one it replaces: a mail which every archive of the relay has is
  never answered from one without it, and an attachment is looked up in the right
  directory. With handlers in a pool of threads, `/open` could serve an older archive in
  between.
* `NoMailSkipped`: a swap between two pages moves mails to later pages, never to
  earlier ones, as long as archives only gain mails. A page is the set of mails whose
  `Place` among the matching ones lies within LIMIT and OFFSET. `SameOrder`, which TLC
  evaluates on the instance, is a hypothesis: two archives have the mails they share in
  one order. Dates see to that; between mails of one date `ORDER BY date` leaves the
  order open (`db.py:63`), and if it changed between two pages, a mail could be skipped.
* `UpdatingHasWorker`, `ClosedOnlyInTransit`, `RunningHasDb` are the client's, here
  with everything that reloads.

*Bounds.* One thread: its swap crosses those of `/open` and `/restart` in every order;
two threads' swaps are left to the theorems. Three matching mails and pages of two need
a second page, and two newer mails push the whole first page onto it: a reader who
pages on over that swap sees the first mails again and needs a third page for the last one.
Syncs are left out: they add rows to a served file in place, which an archive with
fixed rows cannot show.

## 5. MailStore

### State and actions

| variable | in the code |
|---|---|
| `server`, `maildir` | mails of the hosting server and of the local Maildirs; a mail is a path |
| `files` | `<mailbox>/attachments/<sha256>_<size>.<ext>`: absent, damaged (cut short), complete |
| `rows`, `schema` | of each mailbox's index and the global one: committed mails and attachments; existence, columns, `user_version` = 2 |
| `lock` | who holds a database's write lock |
| `run[r]` | a running command: which, mailboxes left, its step, what it has copied (`seen`), scanned (`mails`), still to extract (`todo`), and the columns its migration found missing |
| `stops`, `collision`, `bare`, `torn` | history: stops so far; a "SHA-256 collision" was reported; mailboxes taken up without extraction since they were last extracted; runs whose open file another extraction has emptied |
| `verdict` | verify-archive's answer |

A command takes up a mailbox (`NextBox`), copies it (`Rsync`, or `CutRsync` when
the connection breaks), extracts (`SkipPart`, `RejectPart`, and `TakePart`, `CreatePart`,
`WritePart` for the check, the opening and the filling of a file), opens and migrates both indexes (`OpenIndex`, `AddColumn`,
`DuplicateColumn`, `StampVersion`), inserts under the databases' locks, commits
the mailbox's index and then the global one, and is imported. `Stop` ends a
command anywhere; after `SkipBox` index-all goes on with the next mailbox.
`Deliver` and `Remove` change the server.

### Runs

| run | question | states |
|---|---|---|
| `store_sync` | sync-all and index-all over two mailboxes, with two stops: are rows backed by whole files, is what was copied archived, does a rerun catch up? | 1,313,876 |
| `store_beside` | two commands of sync-all and index-mailbox on one mailbox, old, new or no index files, two columns to add: is an index ever used half-migrated, is the global one ever ahead, does a file stay cut short? | 6,940,192 |
| `store_crash` | can a run report a SHA-256 collision after a stop? It can | – |

*Bounds.* Two mails that share an attachment, and two attachments: a part that is
found extracted by another mail of the mailbox, one that is not, and mails of one
and of two mailboxes. Two columns, so that a migration can stop between two ALTER
TABLE statements. Two commands side by side are what a pairwise race needs, with
and without extraction, with and without the global index. Two
stops in `store_sync`: one in the first attempt and one in the rerun; one in
`store_beside`. `MaxStops` is the only bound in a guard. `sync-all --skip-extract`
is in no run: it is index-all after a copy; the theorems cover it.

*Fairness.* A command that runs goes on. The full sync-all is started again and
again (`SF_vars(StartFull(r))`): it is the weekly command (`devenv.nix:210`), run
also when shorter commands are run in between, which the strong form expresses. Stops are finite
in number, as catching up needs.

`CatchesUp` has the exception that no file is damaged: a file cut short keeps
sync-all from passing its mailbox for good (section 10).

`RowsBacked` has the exception of `bare`: index-all and sync-all --skip-extract
index attachments whether they were extracted or not. The exception ends with the next
complete extraction of the mailbox, which is why that must extract the files of rows
that are already there.

Two extractions of one mailbox may both find a file missing; the second one's
`write_bytes` then empties what the first has written or is writing. The first goes on
at its own offset, so its end leaves the file whole or with a hole (`Filled`), until
the second one has filled it as well. `DamagedInTransit` says that this ends well
without a stop. With one it need not, and meanwhile a third run may take the file for a
collision or a row point to a short file: `RowsBacked` is claimed for one command at a time.

### Abstractions

* The identity of a mail is its path (`ids.py` digests path and Message-ID): a
  mail that is read or moved is another mail, and its old row stays.
* The order of mailboxes and of files is left open. Column values, the WAL
  checkpoint and full-text tables are left out.
* verify-archive is one step and is run with `--no-clam` while nothing else runs.
* `devenv`'s `extract-attachments` command passes positional arguments that the
  program rejects, so it changes nothing and is not modelled. `--skip-rsync`,
  `--skip-index`, `--skip-import`, store-mailbox and the PHP import's own work
  are not modelled.
* The client's sync (`rsync --delete`) works on another index and belongs to
  `ArchiveClient`.

## 6. Relay

### State and actions

| variable | in the code |
|---|---|
| `stamped`, `clock` | the last TIMESTAMP, the last mtime |
| `archive`, `mtime` | files in the relay's directory under final names |
| `manifest` | `manifest.json`: written or truncated, its database and attachments entries |
| `cached` | attachment archives kept locally for `ATTACH_ARCHIVE_PATH` |
| `pub` | the running scripts |
| `client` | what a client's manifest named and how many newer uploads of that kind have appeared |
| `overlap` | history: two scripts have run at the same time |

`Begin`, `Pack`, `Upload`, `UploadAttachments`, `BeginScp`, `EndScp`,
`TruncateManifest`, `WriteManifest`, `Rotate`, `End` are the commands of the three
scripts in their order; `Die` ends a script between any two of them;
`ReadManifest` and `Fetch` are a client's.

### Runs

| run | question | states |
|---|---|---|
| `relay_publish` | two publishers, all three scripts, deaths anywhere, one client, KEEP_DUMPS 2: can what the manifest names be fetched, also late; is it ever cut short? | 301,443 |

*Bounds.* `MaxPubs` bounds publications (the scripts take a new TIMESTAMP each), so
the system stops: deadlock is switched off. With KEEP_DUMPS = 2
the third publication is the first to rotate something away, and it does so under
a client that still wants it. Safety only: there is no fairness.

`ManifestFetchable` and `LateFetch` are claimed until scripts overlap: nothing in
the scripts keeps two apart, and rotation by mtime may then remove what the other
one is about to name. `NeverTorn` holds with any overlap.

### Abstractions

An archive that the rotation removes while scp is still writing it is gone: `EndScp`
then changes nothing. Timestamps and mtimes are distinct; the `.part` files of rsync are seen by nobody;
the restart of the droplet's service that ends push-data.sh is not modelled, and
neither are `--check` and `--dry-run`, which upload nothing.

## 7. MailParts and MaildirScan

Three tools read a Maildir while mail clients use it: the library (`walk.py`,
`parser.py`), on which the index and the extraction are built, and two scripts
(`maildir_scan.py`, `maildir_attachments_py2.py`) with a scan of
their own. `MailParts` holds what they keep of a message, as operators: which parts
a tool lists (`Keeps`, and `PartsOf`, their positions), and by which digest it compares
them (`Digest`, `Repeats`).

| variable | in the code |
|---|---|
| `at`, `moved` | the place of a message's file, which is its directory and the flags at the end of its name, and how often it was renamed: the world |
| `tool`, `phase` | who is scanning, and whether it walks, has failed, has ended, reconciles, accepted or refused |
| `todo`, `pending` | directories not yet listed, files listed and not yet opened |
| `records` | what was read, in order, with the parts marked as duplicates |
| `listed`, `rows` | `reconcile_inventory`'s second listing; the stable ids in the index |
| `there`, `movedThen`, `behind` | history: who was there all the time, earlier renames, and who was renamed from a directory still to be listed to one already listed |

`ListDir` and `Read` are the walk, `EndScan` its end, with the attachments tool's
`dedup`; `Index` stands for `index_mailbox`, `StartReconcile`, `ListAgain` and `Compare`
for `inventory.py`. `Deliver`, `Rename` (to another directory or to other flags) and
`Discard` are the mail clients, between any two steps.

Run `scan` (8.92 million states): two folders with `cur` and `new`, two flags, two messages,
of which one holds the same attachment twice and the other the same one and a nested
message; library, report and attachments tool; one message is renamed twice at most,
the other one once.

* `MissedOnlyBehind`: "No silent skipping" (`parser.py`) holds but for a message that
  overtakes the walk backwards.
* `AcceptedIsExact`: what reconciliation accepts is exact, if no message was renamed
  twice meanwhile. With two renames a message can evade both listings.
* `RowsAreRenames`: the cost of `ids.py`, which digests the path: a row per path, so at
  most one more than the renames. Rows whose path is gone stay among them.
* `OneOriginal`: of equal attachments exactly one is the original, in either report and
  in any order of the walk. Which one differs from walk to walk.

*Bounds.* Two renames are one more than the claim of `AcceptedIsExact` allows; the
proofs are for any number. The two flags are alike (`FlagSymmetry`). Two
folders, one of them the root folder, give every kind of move. What `os.walk` calls
unordered is any order that keeps a folder's directories together. `Empty` is empty
in the runs: a file without bytes ends a scan as a vanished one does.

*Abstractions.* Header decoding, the choice of a body and the unique part of file names are left out. A
part is its kind, whether it has a name, and its bytes; `Size` decides which tool
looks at it. The scripts run once. Renames between a `listdir` and the `open` of
each file are steps; the listing of one directory is atomic.

## 8. DupGroups

`group_emails` (`dedup.py`) is sequential. Its hazard is that `find` rewrites the
array it follows while the input comes in dictionary order.

| variable | in the code |
|---|---|
| `input` | the records, by their messages |
| `shares` | unions still to be made |
| `parent`, `pc`, `a`, `b` | the union-find array, the statement, the two nodes of the union in progress |
| `group`, `rank` | `dup_group_id` and `dup_rank` |

`FindA`, `FindB` are one turn of `find`'s loop each, `Link` is `union`'s assignment,
`Number` the rest. `Components` is the abstract specification: a partition that gets
coarser by joining two e-mails that share bytes. `JoinsOnly` says that `DupGroups`
implements it, with `Unbroken`, the sets no tree of the array straddles, for the
unions of classes: a halving is a stutter, a link a join.

Run `groups` (34 thousand states): every list of four out of five messages that share
attachments in a chain, in any order of unions; the refinement, `GroupsAreComponents`
("If A shares a hash with B, and B with C ..."), `OldestFirst` for the ranks, and
`Terminates`.

*Bounds.* Four e-mails give trees of height three, where a halving changes the array.

*Fairness.* `WF_vars(Next)`: a sequential loop that nothing interrupts.

*Abstraction.* In `Number` the second call of `find` is its result, `Root`: what halving
does to the array has been checked before, and the array is not read again.

## 9. AuditTrail

| variable | in the code |
|---|---|
| `server` | down, up, or refused to start |
| `audit`, `file`, `tail`, `garbled` | `AppState.audit_events`; the lines of the audit file, what follows the last newline, whether it holds half a character |
| `logger` | each thread inside `log_audit`: before the length check, the pop, the write |
| `_SESSIONS`, `sessions`, `cookie` | sessions known, their counts of requests, the browsers' cookies |
| `request` | requests past the middleware that wait for their handler |
| `trail`, `since`, `failed`, `interrupted` | history: all entries, those since the start with what the file held, failed writes, entries in hand at a kill |

`LogFrom`, `CheckLength`, `PopOldest`, `WriteLine` and `WriteFails` are `log_audit` in the
steps another thread can come between (`state.py:84`). `Auth` is the middleware, `Login`,
`Logout` and `Answer` the handlers; `Start`, `StartFails` and `Kill` the process. `Entries`
is the loop of `load_audit_file` over the lines, as a recursive function.

Run `audit` (601 thousand states): one browser with two requests at a time, the loop and
a sync thread, a limit of two entries, four entries in all.

* `NewestInMemory`: the list is the end of all that was logged and read back, never too
  long but for entries in hand, and too short only by double pops.
* `LossesAreBounded`: a failed write costs at most two entries, its own and the one
  appended to its remains; a kill what was in hand.
* `LogoutsAddUp`: of two tabs that log out at once, one reports the requests and the
  other none.

*Bounds.* Four entries with a limit of two overflow twice, once with two threads in
hand. Two slots are two tabs. The bounds stop the system: deadlock is off. There is
no fairness.

*Abstractions.* `MRIJA_AUDIT_LOG` is set; without it there is no file. An `OSError` of
the read at the start leaves an empty list and is left out. The plain log and the
list of requests are in memory and trimmed by the loop alone, and are left out.

## 10. Disagreements found

Three have a run that shows them:

| run | what the code does | what is said of it |
|---|---|---|
| `client_crash` | the archive is inflated under its final name (`updater.py:34`); the launcher takes the partial file for the newest | "downloads the new archive, verifies its checksum, and loads it" (README.txt:49) |
| `client_open` | `/open` during an update sets RUNNING (`control.py:82`), and the next `/update` starts a second thread | "Update already in progress" (`control.py:235`) |
| `store_crash` | an attachment is written under its final name (`extract_attachments.py:270`); cut short it stops every later run | "SHA-256 collision — should never happen in practice" (`:227`) |

Others have no run of their own: two are stated in the modules as promises, and the
viewer has no module.

| where | what the code does | what is said of it |
|---|---|---|
| `CleanIsIntact` (`MailStore`) | the count of corrupt files is lost in a subshell (`devenv.nix:590`) | "filename must match computed hash" (`devenv.nix:515`) |
| `PushedIsThere` (`Relay`) | a reused attachment archive keeps its old mtime and is rotated away (`push-update.sh:335`) | "push to the DO relay" (`push-update.sh:2`) |
| `maildir_viewer.py:310` | `HTML_TEMPLATE % {...}` meets the unescaped `100%;` of `:413` and raises ValueError; `main` calls it (`:1096`) before it writes anything | "generates a self-contained interactive HTML report" (`:7-8`) |

## 11. What is proved

All theorems are about the specifications that the runs check, for every value of
the constants that satisfies the modules' assumptions (`ClientAssumption`,
`ReadsAssumption`, `StoreAssumption`, `RelayAssumption`, `PartsAssumption`,
`ScanAssumption`, `GroupsAssumption`, `AuditAssumption`) and, where named, a further one.
Fairness is not used.

### ArchiveClientProofs

* `TypeCorrect`. The types alone are not inductive: `Target(w)` is a path only if
  the worker already has an archive. `TypeInv` adds `JobOK`, which says for each
  step of a worker which archive it holds.
* `UpdatingAlwaysHasWorker`, `ClosedAlwaysInTransit`: inductive with `TypeInv`. Both
  rest on `WorkerMoves`, which states that a worker's step moves that worker along
  the program and nothing else of the threads or the event loop.
* `OnlyVerifiedInstalled`: with `PastVerify`, a worker beyond `verify` has an archive
  in `verified`.
* `OneJobByEndpoint`, `InstallsCompleteByEndpoint`, `StreamByEndpoint` assume
  `ByEndpointOnly`, that threads come from POST /update only; section 10 says why it
  is needed. The invariant `Alone` is the argument: a thread that has been started
  and has not yet set UPDATING is there because of a request that is still within
  the rate limit's window, and one that has set it shows in the state. `FilesHeld`
  adds what the thread knows about its files.
* `RunningAlwaysHasDb` assumes `AlwaysInstalled`: an archive is there in advance and
  the process is started by the launcher, which opens it. Without that, a `/restart`
  during the very first update has nothing to reopen, and RUNNING shows without a
  database. `StartedInv` says that a process that is up has a database, is between
  two steps of reopening it, or failed to.

### ArchiveReadsProofs

* The client's three invariants beside readers: a step of `ReadsNext` is a step of
  `Next` or leaves the client's variables alone, and the lemmas about `Next` are
  reused.
* `LabelAlwaysFollowsOpen`: by `LabelInv`. Unless two swaps have crossed, `db_path`
  names the served file or exactly one worker or handler is about to name it.
* `AnswersFit` assumes `AlwaysInstalled`, as `RunningAlwaysHasDb` does, and that there
  are no syncs (`ReadsAssumption`). By `RequestInv`: while a request waits for its second
  read, `db` is the archive of the first read or one of the relay (`BesideStep`: the
  steps beside the loop open no other), and both fields are in the data directory,
  where every update downloads to if an archive was there at the start (`StartedInv`).
* `NoMailIsSkipped` assumes `SameOrder` (section 4). `ListInv`: a mail of the first
  archive that the reader has not seen has, in the archive of the latest page, a place
  beyond that page. An archive with more mails only puts more of them before it
  (`NoEarlier`), and places have no gap (`PlacesCount`), so that a page which is not full
  is the last (`LastPage`).

### MailStoreProofs

* `TypeCorrect`, by `RunInv`: which fields of a command are set at which step.
* `MigratedAlways`. `MigrationInv` relates what a run has read to what is there now:
  a column is present or still on the run's list, an index exists once it was
  opened, version 2 means all columns, and the global index is opened after the
  mailbox's own one has been stamped. Columns, existence and version only grow
  (`SchemaStep`), so other runs cannot invalidate it.
* `GlobalAlwaysWithin` and `SyncedAlways`, by `IndexInv`: what a run has scanned is in
  its mailbox and contains what it copied; from the first commit on it is in the
  mailbox's index, from the second in the global one. Mails and rows only grow
  (`Grows`), so this survives the other runs, and a stop forgets the run.
* `DamagedAlwaysInTransit`, by `TransitInv`: of the runs that write a file that is cut
  short, one has not had it emptied under it, the last to open it.
* `RowsAlwaysBacked` assumes one slot for commands, which may run any of them.
  `BackedInv` adds `Extracting`: during extraction a part of a mail in the Maildir is
  on disk, whole, or still to do, and afterwards all are, if the mailbox is not bare;
  and `Copied`: only mails that were copied have rows, so that the extraction of a
  mailbox covers the rows that are there (`BareStep`). A second command may copy more
  mails in between or empty a file, which is why the assumption is there.

### RelayProofs

* `TypeCorrect`, by `RunOK`: which script is at which step with which names.
* `NeverNamesTorn`, by `TornInv`: timestamps in use are distinct (`Distinct`), so no one
  writes the archive that another one's manifest names (`ManifestOK`), and a partial
  archive belongs to a script that is uploading it or died at it (`Cut`).
* `ManifestAlwaysFetchable` assumes `NoReuse`: push-update packs its attachments or
  sends none. A reused archive has an old mtime, and the argument, that what is named is
  the newest, is gone (`PushedIsThere`); the run `relay_publish` has no reuse either. `SoleInv` holds
  until scripts overlap: what was uploaded last is newest by mtime (`Mtimes`), the
  running script has just put what it is about to name (`Work`), so the rotation's
  newest KEEP_DUMPS contain it.
* `LateFetchSucceeds`: `Pending(c)` counts the files that are newer than the client's
  one; they are at most the uploads since, and a rotation removes a file only if
  KEEP_DUMPS are newer.

### MaildirScanProofs

* `NothingElseMissed` and `AcceptedIsAlwaysExact`, by one invariant of seven parts. `Once`:
  a path is listed and recorded once. `Covered`: a message is recorded or waits in a
  directory ahead, or was renamed behind the walk. `MetThere` and `MetAgain` follow one
  that is renamed at most once through both listings: if it stays while the scan runs,
  the scan meets it where it is, and otherwise the second listing does, and then the
  two agree only if the first met it once.

* `ScanTypes`, for all tools: `Named` adds that a record carries the name it was read by.
* `RowsFollowRenames`, over all scans and what happens between them: `KnownOnce` bounds the names by which a message is known to the
  index, the records, what is listed and the directory it is in, all together, by one
  more than its renames. `RowsAreRenames` alone is not inductive: a scan that is under
  way may hold a name the index does not have yet.
* `OneOriginalOfEach`: by `MarkedInOrder`, the marks of each record are the repetitions of
  what stands before it. Then a digest's first part is unmarked and no other one is;
  that there is a first rests on the well-foundedness of the numbers.

### DupGroupsProofs

* `TypeCorrect`.
* `Implements`: the refinement. `Progress` says that the array separates exactly what the
  unions made so far leave apart, and that `a` and `b` stay in the trees of the pair in
  progress; `Forest`, that every node has a root, by a depth that decreases.
* `GroupsCorrect`: when all unions are made, being in one tree is being linked
  (`Linked`, closure under sharing a hash).
* `RanksFollowDates`: `Before` is a strict total order of a group (`BeforeIsOrder`), and in
  a finite set with such an order the numbers of elements before each are 0, 1, ...
  (`RanksCount`, by counting: they are pairwise different and less than the size).

### AuditTrailProofs

* `LogoutsAlwaysAddUp`, by `UsersInv`: a session in `sessions` has a login and no logout in
  the trail (`Live`), and a request past the middleware belongs to such a session,
  counted at least once, or to one with a logout (`Passed`).
* `NewestStayInMemory`, by `InMemory`: the list is the end of what is known (`Ends`), it
  exceeds the limit by no more than the threads that have yet to trim it (`Trimming`),
  and when a number of threads have decided to pop (`Popping`), it is long enough for
  each of them to leave `AuditLimit` less one for each other thread. The last part is
  what makes the bound inductive, and with `AuditLimit` at least the number of threads
  it also shows that `pop(0)` never meets an empty list.
* `LossesStayBounded`, by `OnDisk`: `Owed` is what the next write loses, because it is
  appended to the remains of an earlier one; entries in hand are pairwise different and
  not in the file. A failed write pays two.
* `TrailTypes`. What is read back at a start are entries again (`ReadsEntries`), by the
  least line for which they are not.

### Only model-checked

Liveness (`UpdatingEnds`, `CatchesUp`, `Terminates`) is out of the prover's reach: it needs
ENABLED and fairness. Every other property of the passing runs is stated by a theorem.
The three refuted properties of section 10 are false and stay with TLC; `CleanIsIntact` and
`PushedIsThere` are in no run.

Two facts are proved twice, because a theorem about one component's operators cannot be
had from another component's proofs without its variables: that a set of numbers has a
least element (`LeastNumber`), and `RanksCount`.

## 12. Not modelled, and why

* `maildir_viewer.py`: at this commit it raises ValueError before it writes a page or a
  JSON file (section 10), so its buttons and its export never exist.
* `disk_scan.py`, the HTML of the reports, templates, header decoding and body
  extraction: they keep no state and run alone, so there is no order of steps.
* The launcher's bundled database, attachment saving and file dialog; the installers,
  containers, wrappers of external programs: declarative, interactive, or run once.
* Views of the data API that show counters, logs, sessions or the version read one
  field once and change nothing.
* `push-data.sh` inflates over the database the droplet's service has open
  (`push-data.sh:75`); queries read a mixture until the reload. What SQLite answers
  then is not defined by this repository.

Smaller facts seen in the code, left out of the models because no property of the
components above depends on them:

* one `manifest.json` serves two kinds of archives (`push-update.sh:296`), and names have
  a resolution of one second (`push-sqlite.sh:79`);
* the rate limit refuses a first call within ten seconds of the machine's start
  (`control.py:39`); `fetch_manifest` blocks the event loop (`data.py:163`); a progress
  stream opened before the thread has set UPDATING ends at once (`control.py:248`);
* `manifest_version` is in memory, so after a restart the banner offers what is there
  (`data.py:165`); expired cookies are counted as live (`data.py:222`);
* `splitlines` also splits at U+0085 and U+2028 (`state.py:97`);
* the newest bundled database is chosen by mtime (`app.py:56`);
* all empty parts share a digest (`dedup.py:112`); the attachment filter ignores the
  mailbox (`db.py:47`).

Each component is listed in PROJECT.json with its status and reason.
