# Verification of serial-sync

serial-sync reads a creator's releases from a provider (Patreon), keeps an archive of every
version it has seen, groups releases into series and volumes, and delivers the resulting books to
one or more targets: a directory it owns, a watched "drop" directory, or a command. A SQLite
catalog (`state.db`) remembers what was captured, built and delivered. Each run is short: a sync
changes the catalog, then each target is brought up to date. A daemon or a timer starts runs again
and again; operators start others by hand.

The models below are TLA+ modules checked with TLC on small instances; some of their properties are
theorems checked by TLAPS for every value of the constants.

## 1. Inventory

| Component | Code (`src/internal/...`) | State it keeps | Operations | Talks to |
|---|---|---|---|---|
| Delivery planner and executor | `app/delivery.go`, `app/transitions.go`, `app/replacement.go`, `app/planfiles.go` | saved plan files, `pending_publishes`, `publish_records` | plan, save, resume, deliver, retire, complete | store, target, lifecycle command |
| Filesystem target | `publish/filesystem.go`, `publish/target.go` | the files of the target's directory | identity, reorder, check, deliver (stage + rename), retire (remove) | operating system; users edit the same files |
| Drop and exec targets | `publish/drop.go`, `publish/exec.go`, `publish/lifecycle.go` | what another program has been handed | deliver once per release; publish and retire events | library manager, commands |
| Store | `store/sqlite` | all tables; one connection, short transactions | snapshots, upserts, volume replacement, leases, pruning | every component |
| Volume planner | `app/volumes.go`, `app/memberships.go` | volume editions and their members | plan groups, freeze, rebuild, activate | store, artifact builder |
| Release intake and sync | `app/intake.go`, `app/service.go`, `app/capture.go`, `app/enrichment.go` | releases, tracks, assignments, artifacts, sync cursor, retained inputs | assess, capture, apply, snapshot, finish | provider, store, archive |
| Rebuild and preview | `app/rebuild.go`, `app/replay.go`, `app/replay_library.go` | none of its own | rebuild under its own scope; read-only comparison of a draft | intake, volumes, delivery |
| Daemon and source leases | `cmd/serial-sync/main.go`, `store/sqlite/sqlite.go` | `leases` | acquire, run, release, wait | runs |
| Patreon provider | `provider/patreon` | request budget, cooldown, saved session, cache of captures | list pages from a cursor, fetch details with workers, log in, download | network, browser |
| Dump workspace | `app/dump_workspace.go` | capture generations, manifest, authored files | begin, fetch, link, rename | file system, operators |
| Run records and retention | `observe`, `app/retention.go`, `app/planfiles.go` | run records, event logs, plan files, horizon | record, archive, expire | store, files |
| Discovery | `discovery`, `store/sqlite/discovery.go`, `app/decisions.go` | candidates, their states and dismissals | judge, group, reconcile, dismiss | intake |
| Sequence, classification | `sequence`, `classify` | none | number and order chapters, choose the deciding rule | intake, volumes |
| Artifact rendering | `artifact` | content-addressed archive, one validator process | preface, upgrade, decorate, bundle, validate | intake, volumes |
| Configuration, rule authoring | `config`, `app/rule_authoring.go` | none | compile rules, warn, compare | all |
| BookOrbit runner | `integrations/bookorbit/runner` | its own journal, a shared lock | reserve, claim, reconcile | systemd, serial-sync |

What is hard, and what makes each part correct:

* **Delivery.** Steps touch two stores that fail separately, the catalog and the directory, and any
  step may be the last one of a process. Old editions must go, but only after their replacements are
  there; an edition may be overwritten by its own replacement under the same name; a plan saved by
  one run is resumed by another with a different wish, filter or catalog; a user changes files between
  a check and its use. Correct: no release loses its last readable copy, no bytes are touched that the
  catalog does not own, catalog and directory agree at rest, saved plans complete, the wanted library
  arrives.
* **Two runs at once.** Leases are per source and plans per target; leases expire without renewal and
  manual runs take none. Correct: runs of one source overlap only when one outlasts its lease, and only
  one of them delivers.
* **Intake.** Snapshots are transactions, the cursor moves only at the end, a sync may stop anywhere.
  Correct: no release is skipped for ever, the catalog never runs ahead of its files, and a pinned or
  legacy rendering does not change silently.
* **Captures.** Bytes are downloaded once and pass through a cache, the archive's inputs, a copy and a
  snapshot, some of them written in place. Correct: a copy shows, whole, what the site sent for the
  revision it is stored with.
* **Editions.** An EPUB is rewritten up to five times. Correct: no page, entry, resource or cover of the
  author's is lost, nothing leads nowhere, generated pages stay where they belong.
* **Volumes.** Editions of a series share no release, a frozen edition changes only on rebuild, a
  restricted rebuild leaves alone what it can only partly remake, rebuilds settle.
* **Drop and exec.** The other side takes files away or repeats events. Correct: a release is handed
  off once and in one edition; a repeated event keeps its identity.
* **Provider.** Workers share a budget that halves on rate limits; processes share a session file.
  Correct: slots are neither leaked nor exceeded, cooldowns are honoured, a listing hides nothing above
  its boundary, nobody logs in because its own copy of a session is old.
* **Names and previews.** A chapter's name depends on which others there are. Correct: incremental runs
  and a rebuild end with the same names, and a comparison foretells what the rebuild will do.
* **Discovery.** Candidates grow, split and merge while runs see part of the feed. Correct: dismissals
  and evidence survive.
* **Workspace, retention.** Atomic manifest, authored files survive, pruning never takes what a plan
  or a run still needs and says what has gone.
* **Runner.** Two threads, a timer and systemd start runs. Correct: syncs never overlap, a request runs
  at most once, its row tells the truth, every reservation ends.

## 2. Modules

| Module | What it is |
|---|---|
| `Catalog`, `Delivery` | pure planning, and the runs against one filesystem target with crashes, failures, syncs and a user |
| `Replacement` | the abstract promise of a delivery: editions are listed and dropped by announced transitions; `Delivery` implements it |
| `Intake` | syncs and rebuilds of one source, with a provider, an operator, damage, failures and crashes |
| `Captures` | one release's attachment and picture from the site to the copy that is stored |
| `Edition` | how a copy is made of an attachment and a volume of copies |
| `Validator` | the EPUB validator's process, its lock, retries and idle timer |
| `Volumes` | grouping, freezing and rebuilding volume editions of every series |
| `Numbering`, `Classify` | positions and reading order of chapters; the rule set compiled from a configuration and the rule that decides a post |
| `Candidates` | discovery: families, candidates and dismissals across partial syncs |
| `Preview` | names of chapters under collisions, the comparison of a draft, and the rebuild that follows |
| `Handoff` | deliveries to a watched folder or a command |
| `Daemon` | daemons over two sources, their leases and the plan they share |
| `Fetch`, `Session` | a listing under its request budget; the saved session shared by processes |
| `Records` | run rows, logs and plan files, and the cleanup that expires them |
| `Workspace` | refreshes of a dump workspace |
| `Runner` | the BookOrbit bridge, its wrappers and the journal |
| `DeliveryProofs`, `IntakeProofs`, `DaemonProofs`, `PatreonProofs`, `RunnerProofs`, `FilesProofs`, `AuthoringProofs`, `VolumesProofs` | theorems |
| `MCDelivery`, `MCIntake`, `MCVolumes`, `MCDaemon`, `MCPatreon`, `MCAuthoring`, `MCFiles` | small instances for TLC; the last three put independent components into one state space, each behaviour being one of them |

### How `Delivery` corresponds to the code

State that survives a crash:

* `disk[p]` is the content at a path under the target's directory. An artifact stands for its bytes;
  `Absent` is no file, `Foreign` bytes that serial-sync never wrote.
* `records[a]` is the status of the artifact's row in `publish_records`. The row's key is artifact,
  target and a hash of target, bytes and path; artifact identifiers are digests of the rendering and its
  file name, so one artifact has one path and one row.
* `pending` is the row of `pending_publishes`: the empty set, or a set with the candidate set of the
  saved plan as its only element. The plan file is written and synced before the row, so plan and row
  are one variable; a file without a row is never read.
* `library` is the candidate set the catalog yields at the moment (`volumeCandidates`,
  `resolveCollisionNames`). `Sync` changes it between runs.

Everything from `pc` on is the memory of `executeDelivery` and is lost by `Crash`.

| Actions | Code |
|---|---|
| `Begin` | `deliverLibrary`, `deliverySelection`: scope, selection, snapshot of the records |
| `RefuseScope`, `DropCyclic`, `RefuseOrder`, `MakePlan` | `deliveryPlan` with `pendingDelivery`, `planDelivery` and `Reorder` |
| `Save`, `SaveFails` | plan file and `SavePendingPublish` |
| `Prepare`, `PrepareFails` | the "prepare" lifecycle command |
| `AwaitsReplacement`, `SkipBlocked`, `IdentityFails`, `SkipUnchanged`, `Offer`, `OfferFails` | one turn of the loop over `plan.Ordered` up to the publishing record |
| `CopyRefused`, `CopyUnneeded`, `Stage`, `Install`, `CopyFails`, `InstallUnsynced` | `FilesystemTarget.Deliver`, `copyFile` |
| `RecordPublished`, `EndDeliveries` | the published record; a failure skips the retirements |
| `RetireInPlace` ... `SupersedeFails`, `EndRetirements` | `applyRetirements`, `FilesystemTarget.Retire` |
| `Complete`, `CompleteOlder` | `CompletePendingPublish`; a resumed plan is followed by a second attempt with the run's own selection and a fresh snapshot |
| `Finish`, `Crash` | the return of `executeDelivery`, or the death of the process at any step |
| `Sync`, `UserEdit` | the rest of the system between runs; someone editing or deleting files at any time |

The check of a destination and the rename that follows are separate steps (`Stage`, `Install`), as are
the check and the removal (`RetireVerified`, `Remove`), so a user can act between them. The planner's
check, the check of `Identity` and the check of `deliverCandidate` are the guards of the steps that
contain them: nothing but the user can run between the last two, and the check in `Deliver` repeats
them after the publishing record.

Abstractions:

* Candidates are taken in every order that respects the dependencies; the code takes the one its
  depth-first visit yields. `Cyclic` says when that visit meets a candidate it is still visiting.
* Store errors at which the code returns without touching anything else (recording a published
  candidate, completing a plan) are the same as the process dying there: `Crash`.
* `Crash` is the death of the process. Power loss, which may undo a rename or a removal that was not
  yet synced, is left out.
* Two captures with the same bytes under different identifiers are left out; names and their
  collisions are in `Preview`, compaction of completed plan files in `Records`.
* The "complete" lifecycle command only reports; its failure changes no state.

### How `Intake` corresponds to the code

State that survives a crash: `cursor` (`sources.sync_cursor`, the set of posts it remembers), `release`
(`releases` with `content_hash` as the text itself, and `release_assignments`), `art` (the canonical row
of `artifacts`, described by what its sidecar says it was made from), and the files: `normalized` and
`raw` payloads, in a directory named for series, post and content hash, `torn` for raw files that are cut
short, `captures` for directories of sidecars that verify, `copies` for reading copies that are intact.
The provider is `published`, `feed` and `text`, the configuration `route` (the decision rules reach for a
post) and `curation` (publication metadata). `harmed` and `quiet` are history variables of the properties.

| Actions | Code |
|---|---|
| `StartSync`, `Fetch`, `PostGone` | `listLiveReleases`: page walk back to the cursor (`Window`), details fetched by the workers; any error fails the listing |
| `Decide`, `HistoryUnavailable` | `decideSource`, `RunDecisions.History`: both read every retained normalized payload of the source |
| `StartRebuild`, `OutOfScope`, `InputsMissing` | `Rebuild`: source row, stored releases, series filter, reported inputs |
| `Skip`, `Apply`, `WriteNormalized`, `WriteRaw` | `assess`, `plan` and `apply` up to the payload files, which are written in place |
| `InstallCopy`, `InstallCapture` | `installCapture`: the blob, then the directory of sidecars, each by rename |
| `SaveSyncSnapshot` | the transaction of the same name, source row and cleared cursor included |
| `EndSync`, `EndRebuild` | `mergeSourceSyncState` with `buildLiveSyncCursor`; the source row put back |
| `Fails`, `Crash` | a call that fails while a post is handled; the death of the process or an error that ends the run |
| `Publish`, `Edit`, `Delete`, `Reroute`, `Curate`, `Damage` | the surroundings |

`Assessed` gives the plan that `assess` makes and `NothingToDo` the actions at which `apply` returns:
"blocked", "legacy_rebuild_available" and "noop". `InHand` is the order of `SortReleaseDocuments` and
`ListReleases`, newest first.

Abstractions:

* Releases are text posts; attachments and the repair of enrichment are in `Captures`, the pages of a
  listing and its workers in `Fetch`.
* One source and one run at a time; a dry run writes nothing and is left out.
* Configuration is fixed during a run, and files are damaged between runs only. Decisions depend on a
  post and the configuration; that they also depend on the other stored posts is kept only as the need
  to read those.
* A capture is told apart by post, text, decision and metadata. Raw bytes that change while the text does
  not, and reading copies shared by posts with equal bytes, are not told apart. Under that view
  `Restore`, which reinstalls a verified capture's copy, does what `Materialize` does.

### The other modules

* **`Captures`** has one release with two revisions of its post. `disk` holds the cache of captures
  (payload and manifest, the commit point), the archive's input, the picture's daily cache and its copy
  under its digest; each process (`run`) goes through a sync, a rebuild, a repair of metadata or a dump, one step
  per file. Files written in place are torn between `Open` and `Close` and after a death there; `Damage` (a disk, an
  operator, a power loss) acts between runs. `Torn` is any proper prefix.
* **`Edition`** is a translation of the package transformations: `Wrapped` (`rewriteEPUBPackage` with the upgrade of an
  EPUB 2), `Relabelled`, `WithoutAbout`, `Covered`, `WithAbout`, `WithMetadata`, `Built`, `Rendered`, `Assembled`
  (`BuildVolume`) work on a package's manifest, files, spine, tables of contents, cover and marks. `Originals` says what each
  chapter may have been published as, `Settings` how copies of it are configured, `Publications` what a volume may be decorated with. Byte formats,
  styles and the text of pages are left out; an EPUB 3 has one navigation document and links lead into the package.
* **`Validator`** has the mutex (`lock`), the process and its generation, the timer with the callbacks that already
  fired, and what the process still has to answer. Processes die, answers fail, callers time out or are cancelled, and the command
  is removed and installed again. One path stands for one call.
* **`Volumes`** takes the releases with the slots configuration gives them, plans one series after the other
  (`PlanFor`) and activates its editions in one transaction (`ReplaceVolumes`); builds fail, captured files are lost,
  volumes are damaged, runs are restricted to sources and series.
* **`Numbering`** translates the detector's outcome for a kind of title, `Position` from a table of books and
  `SeriesIndexes` for a series; patterns that recognise a title are left out. **`Classify`** compiles entries in their order of
  evaluation and picks the first that selects a post and whose guards pass, with the file it takes. **`Candidates`** follows
  `Observe` and `Reconcile` with the evidence of labels, numbering, title families and reposts (a text seen before). Suggestions are left
  out, and the kinds of evidence that a post carries by itself: held reviews, long bodies, teasers, external links, several files, books
  that are not declared, labels against titles, collections named by identifier.
  **`Preview`** follows the naming of all chapters, the comparison, the promotion and the rebuild; a delivery is one step
  that may fail after any part of it, since the steps are in `Delivery`.
* **`Handoff`** reuses the executor's control flow for targets that cannot be looked at. The command on the other side
  follows `docs/hooks.md` and remembers event identities; the watched folder is emptied at any time.
* **`Daemon`** has a clock in ticks and leases whose expiry is compared as text, as the table does
  (`AsText`). A run is a sync and a delivery through the plan of the target; it lasts any time.
* **`Fetch`** has requests of a lister and workers with retries, the budget's limit, slots in flight and cooldown; posts are
  published and deleted between pages. **`Session`** has processes with cached sessions and one file; the site ends
  sessions, and answers with challenges and rate limits.
* **`Records`** follows a run's row, log and plan file by day through `Archive`, `Expire` and the unlinks, each of which may be the last.
  **`Workspace`** follows two refreshes, step by step, with directory and file syncs and a power loss.
* **`Runner`** has the bridge's handler and loop, which read rows, ask systemd, probe the lock and write at different
  moments, and wrappers that start, claim, run and end. The probe takes and frees the lock at once and is one step.

## 3. Model checking

| Run | Instance and bounds | Properties |
|---|---|---|
| `corrections` | chapters 1 and 2, a correction of 1 under its name, the volume of both, the volume retitled; a user edits or deletes at two paths; 1 failure or crash | `OnlyOwnedBytesGo`, `SuccessMeansDelivered` |
| `regroup` | groupings of releases 1 to 4 that reuse one or both volume paths: ordered, uncovered, cyclic; a cyclic plan of an older version; a chapter of another source, runs for either source or both; a lifecycle command; 2 failures or crashes | `LedgerInPlan`, `CatalogBelievable`, `ReleasesStayReadable`, `ScopeRespected`, `ImplementsReplacement` |
| `live` | the libraries of `corrections` under fairness, a lifecycle command; 2 failures or crashes | `PendingDeliveryCompletes`, `LibraryDelivered` |
| `volume_in_place` | a volume rebuilt under its own name; 1 failure or crash | `PendingDeliveryCompletes`, violated |
| `intake_files` | one post stored by an older version; four decisions (two with equal bytes, one of another series, one that renders nothing), two metadata selections, rebuilds of either series or both; 2 changes, 2 failures, crashes or damages | `ArtMatchesRelease`, `CataloguedReadable`, `RepeatIsQuiet`, `OutputKept` |
| `intake_live` | 3 posts, lookback and cursor of 2, under fairness; 1 edit or deletion, 1 failure or crash | `NothingSkipped`, `PostsArrive` |
| `volumes` | 3 releases of 2 sources, 7 configurations, all scopes and filters, a legacy release; 1 change, 1 failure, loss or damage | `VolumesSound`, `RebuildSettles`, `NormalRunsFreeze` |
| `daemon` | 2 daemons, 2 sources, leases of 3 ticks of half a second; 1 fault | `LeaseExclusive`, `SoleDeliverer`, `EverySourceServed` |
| `patreon` | a listing of at most 4 posts by 2 workers with pages of 2, a limit of 2 and 1 deletion; or 2 processes and 3 sessions | `ListingWhole`, `BudgetKept`, `LoginNeeded` |
| `authoring` | series of up to 4 releases of 17 kinds of titles under every valid table of 2 books; or configurations of 3 entries of 10 kinds; or 3 posts with one change and one dismissal; or 2 chapters on a destination of 3 kinds with 1 edited draft and 1 failure or loss | `NumbersHold`, `RulesHold`, `DismissalKept`, `EvidenceKept`, `NamesHold`, `ForetoldHolds` |
| `files` | 2 runs over 3 days with cleanup; or 2 refreshes of 3 creators with 1 power loss; or 2 chapters handed off, 3 corrections and 3 faults; or one release captured with 1 edit and 1 mishap; or every attachment of 1 or 2 pages with any setting and a volume of two; or 2 validations, 3 processes and 3 troubles | `DiagnosticsKept`, `CaptureWhole`, `AuthoredKept`, `HandOffsTold`, `CapturesTrue`, `EditionsWhole`, `VerdictsHold` |
| `runner` | 2 requests, 1 tick of the timer, 1 handler beside the loop; 1 fault, 1 repeated start | `RunsOnce`, `LiveRunShown`, `RequestsSettle` |

### What the properties say

| Property | Kind | What it says |
|---|---|---|
| `LedgerInPlan` | invariant | a half-delivered candidate belongs to the saved plan |
| `CatalogBelievable` | invariant | at rest, catalog and directory agree both ways, and whatever was interrupted each published release is in some file |
| `ReleasesStayReadable` | action | no step of a run takes the last readable copy of a release |
| `OnlyOwnedBytesGo` | action | only bytes the catalog owns are overwritten or removed, unless they arrived after the last check |
| `SuccessMeansDelivered` | action | a run that reports success delivered its own selection |
| `ScopeRespected` | action | a restricted run leaves other sources alone |
| `ImplementsReplacement` | refinement | `Delivery` implements `Replacement` |
| `PendingDeliveryCompletes`, `LibraryDelivered` | liveness | a saved plan is eventually completed; a library that stops changing arrives and stays |
| `NothingSkipped` | invariant | what the next listing leaves out is stored |
| `CataloguedReadable`, `ArtMatchesRelease` | invariants | a canonical artifact has its files and renders its release's text |
| `RepeatIsQuiet` | invariant | the next run of a kind, or a sync after a rebuild, finds nothing to do |
| `OutputKept` | action | a sync leaves legacy, unverifiable and pinned output alone, and no run takes away a rendering that configuration asks for |
| `PostsArrive` | liveness | a post that stays in the feed is stored, and the last edit among the newest is picked up |
| `CapturesTrue` | invariant | a copy shows, whole, what the site sent for its revision; metadata is of that revision |
| `EditionsWhole` | invariant | pages, contents, resources and cover of an author's EPUB survive into copy and volume; generated pages are last and removable |
| `VerdictsHold` | invariant | a verdict is about the EPUB asked for; a failure has a cause of its own; no process is left unwatched |
| `VolumesSound` | invariant | editions of a series share no release and are whole |
| `RebuildSettles`, `NormalRunsFreeze` | invariant, action | a repeated rebuild changes nothing; normal runs leave volumes alone |
| `NumbersHold`, `RulesHold` | invariants | positions follow the books, and a series told in order (books and numbers go up, a book opens with a number, counted parts never go back) is read in order; overrides pin their release only, files are taken by name, warnings tell the truth |
| `DismissalKept`, `EvidenceKept` | invariant, action | what was dismissed between runs stays so; older versions take no evidence away |
| `NamesHold`, `ForetoldHolds` | temporal | runs and rebuilds agree on names and overwrite nothing; a rebuild does what the comparison foretold |
| `HandOffsTold` | invariant | one copy of one edition to a folder; a command ends with the published editions and does nothing twice |
| `LeaseExclusive`, `SoleDeliverer` | invariants | overlap only after a lease was outlasted; one process delivers |
| `EverySourceServed` | liveness | every source is served again and again, plans are finished |
| `ListingWhole`, `BudgetKept`, `LoginNeeded` | invariant, temporal, action | nothing hidden above the boundary; no slot leaked, cooldowns kept; logins have a reason |
| `DiagnosticsKept` | invariant | pending plans keep their file, and expired events are known to have expired |
| `CaptureWhole`, `AuthoredKept` | invariant, action | a generation that was ever named is whole; the operator's file is never replaced |
| `RunsOnce`, `LiveRunShown`, `RequestsSettle` | invariants, liveness | no overlap and no repetition; a live run's row says running; reservations end |

Properties exempt what another party destroyed: releases of which a user took a copy (`damaged`), posts
whose files were harmed. The models keep those states, so the runs' reactions to the damage are checked.

`Replacement` is shown to be implemented with the published records as its listed editions and the
saved plan as its transition: a transition is announced before anything changes, nothing listed is
dropped before all of the new library is listed and covers it, and it ends only when nothing replaced
is left, or when its editions wait for each other.

### Bounds

A delivery decision looks at one candidate, the record of what is at its path and the candidates that
carry that record's releases, so three artifacts around two paths show each decision; two failures let a
retry fail as well, or a fresh plan meet the remains of an interrupted retry. The number of runs, syncs
and user edits is not bounded. A listing depends on how many posts precede a known one, so posts around
a lookback of two show listings that end at, before and after it. An intake's plan depends on one release
and its files only, so `intake_files` spends its bounds on a long history of one.

The `daemon` run's clock is modular, its time unbounded: two ticks to the second are enough for times on and off
the whole second, whose texts compare differently. A budget of two shows it halved and restored. In `authoring`,
four releases hold a book, an unnumbered one and a restart on either side; a conflict between rules needs two entries and
a third that comes between. Two chapters are enough for one name to collide; their suffixes are taken as distinct.
`captures` in `files` has one process: two at once violate `CapturesTrue` (below). A third page or chapter of an
edition adds no new neighbour. Symmetry is used where it is sound: workers and processes in `patreon`, runs in `files`; neither
run has liveness properties.

Deadlock is checked except in `files`, `authoring`, `patreon` and `runner`, whose behaviours come to an end: a listing or a
validation is over, the last title is published, all requests have ended.

### Fairness

`Delivery`'s `FairSpec` has weak fairness on `Start` and on the steps of a run. The daemon's loop and
the timer units start one run after the other (`cmd/serial-sync/main.go`), and a run that is not
killed is a sequential program that does not wait for anything but bounded I/O. There is no fairness on
failures, syncs or users. Liveness is asked where failures are bounded, with runs over all sources
and no user: a user who keeps foreign bytes at a path keeps the plan pending, by design, and a daemon
restricted to one source never completes the plan of another.

`Intake`'s has weak fairness on the steps of a run, for the same reason, and strong fairness on
`StartSync`: operators start rebuilds, but the daemon's next sync comes whenever no run is active. The run
has no change of rules, because after one the damage of `MCTornInputs` below stops every later sync.

`Daemon`'s has weak fairness on the clock and on every step of a daemon that is up; daemons restart (their unit says
so), runs end. `Runner`'s has weak fairness on the bridge's loop, on wrappers that systemd has started and on commands;
none on clients, on the timer or on faults.

### Disagreements with the documents and comments of the repository

`findings` in `PROJECT.json` quotes them. One is a run of the project; the others are shown by a
configuration of their own, `tlc -config <name>.cfg` with the module in parentheses:

* `MCVolumeInPlace` (run `volume_in_place`): a volume rebuilt under its name and interrupted leaves a saved plan that every
  later run refuses, because a volume's old record accepts its old bytes only.
* `MCChapterSwap` (`MCDelivery`): dependencies come from volumes only, so two chapters that trade names overwrite each other.
* `MCTornInputs`, `MCMissingInput` (`MCIntake`): payloads are rewritten in place, and a torn one stops every later sync; one
  unreadable payload ends a rebuild for all.
* `MCMovedMember`, `MCForeignVolume` (`MCVolumes`): a member of a frozen volume that moves is bundled a second time; a rebuild
  of one source takes over the range of another.
* `MCAuthoringFindings` (`MCAuthoring`), one property of its last lines at a time: a chapter after an unnumbered prologue
  stays with the earlier book (`PrologueOpensBook`); an input called the winner may lose by its own guard (`EarlierWins`); a dismissal
  during a run is overwritten (`DismissalAlwaysKept`); dismissed evidence under another identity is open (`DismissedEverywhere`); a resumed plan
  renames for a version 1 hook (`HookNamesOnce`); a new chapter takes the file of a retained one (`RetainedOwnFile`); a held-back revision
  asks for a rebuild for ever (`RebuildQuiet`).
* `MCTornArtwork`, `MCTornRendering`, `MCCoverLost`, `MCIdleValidator` (`MCFiles`): a picture cut short is cached for a day;
  one run renders what another truncates; a preface makes an EPUB 3 forget a cover declared the older way; a call that finds
  no command leaves the last process unwatched.

Three findings came from reading and have no configuration: later releases may relabel earlier ones, a
login forgets the request budget, and a login that times out saves whatever cookies there are.

An interrupted rebuild also loses the cursor: snapshots clear it and only the rebuild's end puts it back.
`NothingSkipped` shows that no post is skipped for that; the next sync lists the whole feed. A process that dies
between creating a dump workspace and marking it leaves a directory that later refreshes refuse.


## 4. Proofs

A theorem below holds for every value of the constants that satisfies the named assumptions, and TLC evaluates those
assumptions on the instances. Every safety theorem follows one line: a strengthened invariant that holds initially,
that each action keeps (one lemma per group of actions), and that implies the property.

### `DeliveryProofs`

* `TypeCorrect`. `TypeOK` alone is not inductive: an installation writes the candidate in hand, which is `Nothing` in other
  phases. `TypeInv` adds `InHand`: while delivering, the candidate in hand is one of the plan's; while
  retiring, it is an artifact.
* `LedgerStaysInPlan == Spec => []LedgerInPlan`. `LedgerInv` says in addition that libraries, selections and plans give
  artifacts distinct paths (`PathsDistinct`), that until it acts a run has read the records as they are
  (`SnapFresh`), that what is executed is the saved plan unless everything was found unchanged (`PlanSaved`), that it
  has an order (`Orderly`), and that an offered candidate is recorded before retirement starts, or the run has failed
  (`LedgerOpen`). The delicate step is `DropCyclic`, which forgets a saved plan: it may not forget a started one. A
  started plan had an order, and recording a candidate or retiring an edition never makes it cyclic, because no
  two candidates share a path (`PublishedCandidate`, `PublishedShrinks`).

* `DeliveryReplaces == Spec => ImplementsReplacement`, the refinement of `Replacement`. `TransitionInv` is what a run that carries out a plan
  knows: what it has delivered or found in place is recorded; what it retires is what the plan replaces, all of it unless
  something failed (`Carried`); once retirement starts every candidate is delivered, and what is in hand was offered after
  all it depends on (`Advanced`). `StepRefines` maps each action: `Save` announces, `RecordPublished` lists, `Offer` of a listed but missing copy
  delivers again, `Supersede` retires, completion ends, `DropCyclic` rejects; every other step stutters.
* `OwnedBytesOnly == Spec => OnlyOwnedBytesGo`. `FilesInv` relates the directory to the ledger and to the run: a file at its path is listed
  as published or publishing (`Known`, since the entry is written before the rename); what was delivered or found in place is there unless the
  user took it (`There`); between the look at a path and the step it allows, only the user comes (`Verified`).
* `ReleasesKept` (`ReleasesStayReadable`) and `CatalogIsBelievable` (`CatalogBelievable`). `Replacing` and `Removing` are the two dangerous moments. A
  volume about to be overwritten is covered by the plan and everything else it carries is already in place, by the order of
  the plan. For a chapter the code has no such order, so both theorems have the hypothesis `ChaptersKeepNames`: the file
  name of a chapter goes to no edition that lacks its release. It holds in the runs (corrections, bundling, regrouping);
  where chapters trade names it fails, and so do the properties: see `MCChapterSwap` in section 3.
  `BelievableInv`: an edition that is listed but overwritten waits for the saved plan to retire it, so neither completion nor `DropCyclic` forgets it.
* `SuccessIsDelivery == Spec => SuccessMeansDelivered`. `SuccessInv`: the second attempt of a run plans its own selection.
* `ScopeIsRespected` (`ScopeRespected`), under `SourcesApart`: two sources share neither paths nor releases. Retirement follows releases and removal
  follows paths, whatever the source; the run `regroup` has an instance with two sources. A volume that bundles chapters of two
  sources is listed under the source of its first chapter (`volumes.go:482`) and is outside the theorem.

Assumptions: `CatalogAssumption` (types; an artifact carries something; a chapter carries one release), `LibraryAssumption`
(candidates of a library have distinct paths, as `resolveCollisionNames` enforces, and disjoint
releases, as `volumeCandidates` enforces) and `DeliveryAssumption` (types of the parameters).

### `IntakeProofs`

* `IntakeTypes`. `TypeInv` adds what a run has in its hands (`InRun`: texts fetched for the posts not yet handled,
  a plan while one is carried out) and that only releases have renderings.
* `NoPostLeftBehind == Spec => []NothingSkipped`. A listing ends at a known post, so it is enough that all posts of the
  feed up to a known one are stored. `CursorInv` says so of three sets: the cursor in the catalog, the
  one a rebuild has read and will put back, and the posts a sync has listed, which become the cursor, up to the
  posts it has still to handle.
* `CatalogueHasItsFiles`, `RenderingsMatchReleases`. `PlanInv` says which files of the plan in hand are already there
  in each phase, so the row is written only when its files are.
* `SyncRespectsChoices`, `RenderingsKept`, and both as `OutputAlwaysKept == Spec => OutputKept`. Only a snapshot changes
  releases and artifacts, and it writes what the plan says; `ChoiceInv` says of every plan in hand what it will do to
  the artifact the catalog has.
* `RepeatedRunsAreQuiet == Spec => []RepeatIsQuiet`. `QuietInv` says what a post looks like that leaves a sync, or a rebuild, nothing to do:
  `SyncSettled` speaks of the text the provider has and of the metadata the capture was made with, `RebuildSettled` of the
  stored text and the metadata selected now. While a plan is in hand its post is not settled, and the plan is one that will settle it (`PlanSettles`);
  a sync may hold an older text than the provider's, but of no post it could find settled (`TextsInHand`). Damage to one post
  leaves the others settled because captures and copies belong to one post (`ArtMatchesRelease`).

Assumptions: `IntakeAssumption` (types, at least one decision that renders) and `NoneAssumption` (the absent value is
no text, release or capture).

### `DaemonProofs`

* `DaemonTypes`, `LeasesAreExclusive == Spec => []LeaseExclusive`, `OneDelivers == Spec => []SoleDeliverer`. The clock is modular, so `LeaseInv` speaks
  of what is left: until a run outlasts it, the lease of its source is its own and has `Ttl` minus the run's age left.
  Expiry is compared with now as text, which may call a lease expired early by less than a second, never more; `SafeTime`
  is the lease time less that second. `PlanInv`: who delivers has the plan of its own source in the pending row, so two cannot.

Assumption: `DaemonAssumption` (types; a lease longer than a second).

### `PatreonProofs`

* `FetchTypes`, `BudgetIsKept == Spec => BudgetKept`. `BudgetInv`: the counter of slots is the number of requesters with a request in flight, the
  cooldown in force is the longest wait asked for, a request that backs off has an attempt left.
* `ListingsAreWhole == Spec => []ListingWhole`. `PagesInv`: while it lists, the listing has what was in the feed from the start
  down to the last post of the last page, and nothing below. That it may stop rests on the lookback being no longer than
  what the cursor keeps, which is part of the assumption (`liveSyncCursorLookback` is 25, `liveSyncCursorRecentKeep` 64).

* `LoginsHaveReasons == S!Spec => LoginNeeded`, about `Session` as `MCPatreon` names it. `SessionInv`: each bundle is written once, by who brings it, so a
  revision of the file tells what the file holds if it holds a bundle (`RevisionsTell`), and a profile kept because the revision is unchanged is
  the file's; a handler that looks for a session tries one the file has held since it looked, as long as all of those are valid (`TriesWhatIsThere`).

Assumption: `FetchAssumption` (types, the lookback above, a finite set of workers). `Session` needs none.

### `RunnerProofs`

* `RunnerTypes`, `CommandsRunOnce == Spec => []RunsOnce`, `ReconciliationSparesTheLiving == Spec => []LiveRunShown`. `JournalInv`: the lock has one holder, and its holder
  no earlier command alive (`Exclusive`); a command is begun once, after its request was claimed (`Counted`); a tick that has not
  claimed has left no trace (`TicksFresh`). What makes a late reconciliation harmless is `Readings`: a row a thread has read as running
  is past its claim, and once that thread has found the lock free none of those rows is a live claimed run; since a claim
  is never repeated, that stays true until it writes.

### `FilesProofs`

Its theorems speak of `Records`, whose specification is `Spec`, and of five components as `MCFiles` names them, `W!Spec`, `H!Spec`, `C!Spec`,
`E!Spec` and `V!Spec`; `MCFiles` only gives their variables their names.

* `CleanupAccounts == Spec => []DiagnosticsKept`. `RecordsInv`: a process that lives has its row running, and cleanup starts without such rows and
  holds the lock (`RowsTrue`); a run whose plan is saved saves no other, so a plan that became a receipt is never pending
  again (`PlansHeld`); logs that are gone, or about to go, are of finished runs below the horizon (`LogsExplained`). Cleanup writes the
  horizon, unlinks logs and plans one by one, and may die after each.
* `NamedGenerationsStayWhole == W!Spec => []CaptureWhole`, `OperatorKeepsSeriesFile == W!Spec => AuthoredKept`. `WorkspaceInv`: a generation is
  synced as a whole before the manifest names it, and a refresh that named one knows it, which is what keeps a failing refresh from removing
  what readers may hold and a power loss from tearing it.
* `HandOffsAreTold == H!Spec => []HandOffsTold`. `HandInv`: a delivery under way carries out the saved plan, and what it has left is not
  covered (`UnderWay`); a copy that is not recorded is accounted for by the copy under way or by one cut short, and is
  of the saved plan's edition (`Dropped`); the command's library may be ahead of the records by what the saved plan says
  (`Followed`). `NamesAssumption` is needed: two chapters never share a file name (`resolveCollisionNames` adds a suffix, or refuses). Which names chapters get, and that a name may move between them, is in `Preview` and `Delivery`.
* `CapturesAreTrue == OneRun => (C!Spec => []CapturesTrue)`, stated with `OneRun` as its hypothesis: at most one process. With two the property fails
  (`MCTornRendering`, section 3), because an input is written where another run reads it. `CapturesInv`: a payload that is whole is one the site sent
  for its revision; a run that has a file in hand has one of those; what it renders is the whole input, which nobody has touched since it was kept or
  verified (`Knows`); what is being written is the input of the run's own file or a picture (`Writes`); the metadata of a revision, stored
  or in hand, is of it. Damage needs that no run is under way, as the model says. `ContentsAssumption`: an attachment is not mistaken for a torn
  file, a missing one or the picture.
* `EditionsAreWhole == E!Spec => []EditionsWhole`, for any number of chapters, any EPUBs authors may publish, any settings and decorations. `EditionInv`: a
  copy is what its original and its setting make it, the volume what the copies make it, and nothing they are made of changes. The rest is
  about the rewritings. Each leaves an edition `Whole` (`WrappedWhole`, `RelabelledWhole`, `WithoutAboutWhole`, `CoveredWhole`, `WithAboutWhole`,
  `BoundWhole`): it starts with a page of its text, its contents start at the top, all it refers to is in it, two declarations of a cover name the same
  one, and what is named About is marked, and only listed last. Each also keeps the text as the property says, and what keeps it twice keeps it (`KeptTwice`),
  which gives `CopyKept`. A volume's spine and contents are the parts of its members one after the other. Leaving items out commutes with
  putting parts together (`FlattenedLeft`) and with itself (`LeftTwice`), so what the volume has of one member is what the member had (`VolumeKept`).
  `OriginalsAssumption`: there are chapters, and authors' EPUBs are `Authored`, that is whole, finite, without items named as the
  program names its own, and nothing in them leads to the contents of the older format. TLC evaluates it on the EPUBs of the run. What is not an EPUB
  needs no assumption.
* `VerdictsAreTheirOwn == V!Spec => []VerdictsHold`. `ValidatorInv`: who is between the beginning and the end of an exchange holds the lock, the queue is what the
  holder asked of a process that runs, and a second attempt has a fresh process or one that died under it.

### `VolumesProofs`

* `VolumesTypes`, `ArchivesStaySound == Spec => []VolumesSound`, `FrozenVolumesStay == Spec => NormalRunsFreeze`. `ArchiveInv` adds to the property that
  a group has one active edition at most, that an edition is listed under the source of one of its members (its lowest chapter, which
  is there because numbers have a least one: `Least`), and that a plan about to be stored `Fits`: its editions are whole and
  apart from each other and from every edition that stays. The last is where the planner's guards come together (`BundleFits`). A normal run
  leaves out groups that share a release with an active edition. A rebuild keeps an edition in scope only if it is what it would build
  now, so it has the members of another group; and an edition out of scope shares no release with a group in scope,
  because a series with an edition of sources both in and out of scope is refused.

* `RebuildsSettle == Spec => []RebuildSettles`. `QuietInv` says what a complete rebuild without failures (`Thorough`) has done for each series it has come
  to: the active editions are those that would be made now, of intact files, and no group that is complete lacks one (`Settled`), or none where bundling is off.
  It holds for every later run because all releases are then rendered as configured (`Current`), so a sequence no longer depends on
  whether its source is in scope (`SameEditions`); a restricted rebuild leaves the editions of the others alone since it either has all sources
  of an edition or refuses the series (`NothingToDo`).

Assumptions: `VolumesAssumption` (types; the absent value is no book) and `StoredAssumption` (nor a stored release).

### `AuthoringProofs`

Its theorems speak of components as `MCAuthoring` names them: two of `Preview`, `P!Spec`, which need no assumption, one of `Classify`, `R!Spec`,
two of `Candidates`, `D!Spec`, and one of `Numbering`, `Spec`.

* `NamesAreHeld == P!Spec => NamesHold`. `PreviewInv`: in a filesystem a path has one file and what is held is on record (`Sound`), which a delivery
  keeps however far it gets, because candidates have names of their own (`Listed`, from `NamesApart`: two chapters of one name each get their own release as
  suffix); a delivery that is through has every chapter on record and nothing else of those chapters (`InPlace`).
* `RebuildsAreForetold == P!Spec => ForetoldHolds`. `VerdictStands`: an answer stands until something it compared changes. The comparison counts what is yet to
  be rendered as work, and a chapter under its planned artifact as one to retire, so it announces at least what the rebuild then does.
* `ConfigurationsDecide == R!Spec => []RulesHold`. The invariant is the type of what can be written (`Written`): an entry is no override, an
  override names a release. `Sorted` puts a rule at the position that the number of rules before it gives; that number is an
  injection of the positions (`SortedPositions`), because the order is linear (`BeforeIsLinear`), so what decides is the foremost of the rules that match,
  whatever surrounds it (`FirstDecides`). Overrides are compiled last (`OverridesLast`) and come first: one of them is foremost for a
  pinned release (`PinsDecide`), and for any other the foremost rule is the same without them (`PinsMoveNoOther`).

* `DismissalsAreKept == D!Spec => []DismissalKept`, `EvidenceIsKept == D!Spec => EvidenceKept`. `CandidateInv`: no two rows share an identity
  (`IdsApart`: a new candidate gets one that is free, `FreshId`, because the identities it tries outnumber those in use); a row's prints are of
  edits the site has had (`Seen`); what was dismissed outside of a run is known to the row, and closes it as long as its evidence is that
  (`DismissalsKnown`); and between reading and writing the table, the rows a run has computed keep every earlier candidate at its place and
  take from an open one only what the run has seen a version of (`Follows`). A fetched version is at least as new as any print; one from the
  catalog supersedes only what it was seen in (`ContinuesSound`). Of grouping it takes no more than that groups name captured posts (`GroupsCaptured`),
  of matching that a successor is one of those found (`SuccessorsFound`); both, and the rows, are recursive functions, and
  the facts about them rest on the least place where they could fail (`Climb`).

* `SeriesReadInOrder == Spec => []NumbersHold`. Both halves are facts about every accepted table and every series of releases, so the invariant
  (`SeriesTyped`) only says that the state is one. Positions (`PositionsRise`): the numbers of an accepted table increase, so a chapter lies
  in one book; by induction over the books after it, its position is below the first one of each (`BooksApart`): a book that declares where it
  starts is a claim the position had to stay under, any other starts after the end of the book before it. Reading order
  (`SeriesReads`): each label is at least the one before it (`Onward`), since a label carried along is that of some earlier release and the
  author's order puts that one first: by count (`OrdinalsOnward`), part (`PartsOnward`), book and number (`BooksOnward`), or
  number alone (`NumbersOnward`). The last case needs why no restart was seen: had a number of an
  earlier book reached a later one's, the first numbered release of that book would have counted as a restart (`ScanRises`, `ScanPassed`, `NumbersGrow`).
  The author may tell one chapter in several releases; such releases share a label, and their dates order them.
  `SeriesIndexes`, `RestartsPerBook`, `BookAt` and `Offsets` are recursive functions, which `Recursion` shows to exist.

Assumptions: `NumberingAssumption` (titles and declared books are typed: a book has a number and a first chapter from 1 on),
`AuthoringAssumption` (inputs are typed and no override, posts have ids and bodies of some length) and
`DiscoveryAssumption` (there are posts, and a sync sees some of them).

### Only model-checked

Liveness (`PendingDeliveryCompletes`, `LibraryDelivered`, `PostsArrive`, `EverySourceServed`, `RequestsSettle`) and
everything that needs ENABLED: out of the prover's reach. Every invariant and every action property of a passing run is
stated by a theorem, under the assumptions named above and, for `CapturesTrue`, with a single process.

## 5. Plan

`LibraryDelivered` and `PendingDeliveryCompletes` stay with TLC.

Not modelled, and why:

* Reporting without shared state: progress display, the status server, health files. Conversions: HTML and EPUB bytes, PDF
  construction, patterns of titles, parsing of configuration files. I/O: HTTP, the browser's pages.
* Schema migrations; the HTTP protocol of BookOrbit beyond the requests the runner's journal sees.
* Runs started by hand take no lease: `Daemon` has daemons only, and two deliveries on one target at once are not composed with the
  steps of `Delivery`.
* Power loss in `Delivery` and `Intake`, which may undo a rename that was not yet synced (`Workspace` has it).
* Two logins on one browser profile, the replay of a dump workspace, suggestions in discovery.
* In `Volumes`, that a sync ends with an error when a stored input it needs is missing.
