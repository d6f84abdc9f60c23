# Verification of Uldren Loom

TLA+ models, TLC runs and TLAPS proofs for the parts of Uldren Loom that are hardest to test: the
commit and recovery protocol of the single-file store, its group commit, its online reclamation, the
publication of mutable overlay records, its control plane with the audit log, the fenced lock service
of the daemon, and triggers.

Paths below are relative to `src/crates/` unless they begin with `src/`.

## 1. The system

Uldren Loom is a content-addressed, versioned, multi-model store that lives in one `.loom` file. It
is a Rust workspace: `loom-core` holds the data model and the facets, `loom-store` the file,
`loom-coordination` and `loom-core/src/lock.rs` the coordination primitives, `loom-client` the
operations callers see, `loom-cli` the command line and the daemon that shares one open store.

| Component | State it keeps | Operations | What is hard | What makes it correct |
| --- | --- | --- | --- | --- |
| Commit, journal ring, superblocks, recovery (`loom-store`: `record_io.rs`, `lib.rs`, `journal.rs`, `superblock.rs`, `backing.rs`) | two superblock slots, a ring of 32 commit records, the page array; in memory the adopted roots and the encryption metadata | `commit_txn`, checkpoint every 16 generations, open (select and fold), `rekey`, `add_wrap`, `remove_wrap` | a crash between any two writes, torn slots, writes lost or reordered between fsyncs, I/O errors followed by a retry, metadata rewritten outside the transaction lock | a commit is kept whole or not at all, and an acknowledged one is kept |
| Page allocator, free map, metadata reserve (`loom-store`: `pagemap.rs`, `record_io.rs`) | free runs with the generation that freed them, reserved pages | take, free, extend, top up the reserve, snapshot | reuse of pages that a recoverable root set or another process still reads | a page has one owner; an adopted root set is never overwritten |
| Reclamation reader lease (`loom-store/src/lib.rs`) | an advisory lock: readers shared, a transaction exclusive | open for reading, close, try for the exclusive lease | a reader of another process that opens while a transaction is planned or written | a reader's root set stays intact while it holds the lease |
| Group commit (`loom-store/src/lib.rs`) | pending objects, waiters, leader flag, one outcome slot per waiter | `put`, `put_batch`, lead, wait | leader hand-over, lost wake-ups, one outcome shared by a batch | Ok means stored; nobody waits for a leader that is gone |
| Control plane and audit log (`loom-store/src/lib.rs`) | control map, audit sequence, chain, prune checkpoint, legal hold | set, delete (also of audit records by their key), audited set, append, configure, prune | read-modify-write across two critical sections, pruning against the hash chain | the chain verifies; no acknowledged record or value is lost |
| Lock register and lock authority (`loom-core/src/lock.rs`, `loom-client/src/locks.rs`) | holders, fence counters, applied fences, sleeping acquires; published counters in the control plane | acquire with bounded wait, refresh, release, break, close session, fenced write | leases against clocks, tokens that outlive holders and restarts, failed publication, waiting | exclusion, unique fences, no stale fenced write, every acquire answers |
| Reachability mark epochs, validated collection, maintenance executor (`loom-store`: `mark_epoch.rs`, `compact.rs`, `maintenance_executor.rs`) | in the control map an epoch with its captured roots, mark set, scan and evidence; in memory the reclaim fence | begin, mark, classify metadata, complete, collect, clear | a mark racing commits that unlink, add and revive content; reuse of captured free pages; a crash between the transactions of one run | no live object is lost; what the epoch captured and what readers read is not written over; an epoch ends while automatic maintenance acts |
| Mutable overlay, workflow transactions (`loom-store/src/lib.rs`, `loom-core`: `mutable_overlay.rs`, `workflow_transaction.rs`) | generation and entries in memory, current records and receipts in the file, the hot queue with its leader, pending requests | plan, commit (normal, strict, relaxed, owner state), put, flush | retries while a request is in flight, batches committed without the publication lock, rollback, a full queue | published once; what is acknowledged is kept and is answered again on a retry; every waiter gets an outcome |
| Triggers, watch (`loom-core`: `triggers.rs`, `watch.rs`; `loom-triggers`; `loom-compute/src/trigger_exec.rs`) | bindings and fire records in a workspace; plan and queued candidates in the host | put, enable, remove, plan due fires, fire, skip, queue | plans cut short, triggers that feed themselves, rewritten history, policies for overlap and missed fires | nothing fires twice or is passed over; bindings catch up |
| Coordination substrate (`loom-coordination`) | fences, producer epochs, group generations, transaction records | register, begin, commit, abort | epoch fencing of zombies | planned |
| Store daemon registry (`loom-store/src/daemon.rs`) | discovery record, sessions, pins | start, take over, open and close session | a stale daemon, concurrent starts | planned |
| Delivery (`loom-core/src/delivery.rs`) | a stream of envelopes, acknowledgements, low-water mark | append, acknowledge, trim | appending to a base that is stale | planned |
| Version control, sync (`loom-core`: `vcs.rs`, `change_set.rs`, `sync.rs`) | refs, commits | commit, merge, push, pull | concurrent advance of refs, partial transfer | planned |
| Log, ledger, access control (`loom-core`: `log.rs`, `ledger.rs`, `acl.rs`, `identity.rs`) | positions, chain, grants | append, verify, evaluate | precedence, boundary positions | planned |

Everything else (facets, encodings, protocols, bindings, front ends) is listed with its reason in
`PROJECT.json`.

How the parts interact. Components call each other; there is no message passing inside the store.
`put` goes through group commit, whose leader runs one `commit_txn`; the control plane runs one
`commit_txn` per operation; `commit_txn` plans with the page allocator after trying for the
reclamation lease and publishes through ring and superblocks; `rekey` writes superblocks next to it.
The daemon holds one lock authority per store; every change of the fence counters is published
through the control plane (`save_lock_coordinator`), and a restarted daemon restores them from it
(`lock_coordinator`). Workflow transactions publish overlay records through their own queue and, in the
end, the same `commit_txn` machinery. The maintenance executor borrows the engine between foreground
operations; each of its transactions and each foreground one obeys the reclaim fence the active epoch
sets. A host calls the trigger keeper, which polls the watch feed, and fires what it returns.

## 2. Modules and the code they stand for

| Module | Models | Variables |
| --- | --- | --- |
| `StoreFormat` | root sets, slots, which root set an open selects, what a transaction may take and free | none: operators |
| `FileStore` | one file, its writer, its readers | `sb ring page len` the file as reads see it; `dsb dring dpage dlen` what a power loss is certain to leave; `pc inner txn` the writer; `rekey reader` the other actors; `stamps losses` counters; `acked offered ackedMeta` history |
| `DurableCell` | abstract specification of the file: one cell naming a complete root set | `visible durable acked` |
| `FileStoreProofs` | proofs about `FileStore` | |
| `GroupCommit` | `FileStore::group_commit` | `pending waiters leading` the shared queue; `stored` the index; `pc items slot batch owed outcome` per thread; `acked` history |
| `GroupCommitProofs` | proofs about `GroupCommit` | |
| `ControlPlane` | control map and audit log operations | `control audit` durable; `thread` per thread; `calls` counter; `last answered deleted` history |
| `ControlPlaneProofs` | proofs about `ControlPlane` | |
| `LockCoordinator` | `loom-core/src/lock.rs` as pure operators on a register | none: operators |
| `LocksAuthority` | `loom-client/src/locks.rs`, the published counters, restart | `register durable call now tokens acked` |
| `LocksProofs` | proofs about both | |
| `Reclaim` | mark epochs, the allocation rules under them, the validated collection, readers and crashes | `pageCount free holds node` the file; `index tips` what is stored and referenced; `epoch` durable, `fence` volatile; `reader clearing`; `ops epochs` counters; `strays` history |
| `ReclaimProofs` | proofs about `Reclaim` | |
| `OverlayPublication` | `commit_workflow_transaction`, puts, the hot mutable commit queue, reopening | `overlay` memory; `stored receipts` the file; `queue leading guard pending call` volatile; `calls crashes` counters; `acked commits races` history |
| `OverlayProofs` | proofs about `OverlayPublication` | |
| `Triggers` | bindings, fire log, watch poll, schedules, execution, the host's plan | `log` branches; `now`; `status history` durable; `plan queued` the host; counters; `executed repeated` history |
| `TriggersProofs` | proofs about `Triggers` | |
| `DataLemmas` | lemmas the proofs share: least and greatest elements, induction over a set of naturals | |
| `MC*` | finite instances | |

The map in `PROJECT.json` gives the lines behind every definition.

### FileStore

A root set is abstracted to the identity (stamp) of the transaction that wrote it, its generation
and page count, the stamp it expects on every page it references, the generation that freed each
free page, and the metadata reserve. A page is the stamp of its last writer, so a root set is intact
exactly when its pages still hold what its transaction left there; this stands for every checksum,
digest and tree below it.

A transaction is `Begin` (plan: what it drops, frees, reuses, extends, takes from the reserve and
tops up), one `WritePage` per page in any order, `SyncPages`, `WriteRecord`, `Commit` (the journal
fsync), `Grow`, `WriteCheckpoint` and `SyncCheckpoint` when due, `Adopt`. `FailTxn` is an error of
any write or fsync. `RekeySet`, `RekeyEncode`, `RekeyWrite`, `RekeySync` are the separate critical
sections of a metadata change. `Exit` ends the process, cleanly or not, leaving the page cache;
`PowerLoss` keeps, loses or tears each unsynced write independently. `Open`, `SyncFold`, `Load`,
`Refuse` are the open path. `Lease`, `OpenRead`, `CloseRead` are a reader.

Three faults are named and switched by the constant `Faults`, because the code does not withstand
all of them (section 5): `io` (a write or fsync fails and the process carries on), `tornSlot` (a
power loss tears a superblock slot, rather than keep or lose its write) and `foldKill` (the process
dies between the write and the fsync of the fold at open). Ring records and pages may always be torn.

### GroupCommit

One action per critical section of `group_commit`: `Enqueue` and `TakeBatch`/`Resign` under the group
lock, `CommitTxn` with no group lock held, `Answer` per waiter under its slot's lock, and the
waiter's `Return`/`Sleep`. `Condvar::wait` may return on its own (`SpuriousWake`). `commit_txn`
succeeds, fails with nothing stored, or succeeds at once when nothing in the batch is new. The
constant `EmptyBatches` says whether a caller may submit no object.

### ControlPlane

Each operation reads under the inner lock in several sections (`Lookup`, `CheckHold`, `ReadRange`,
`ReadNext`, `ReadPrev`, `ReadControl`) and publishes in one transaction (`Commit`, or `Fail`): the
control map as a whole, the audit log as a delta. `Serialized` says whether callers take turns, as
the daemon's engine lock makes them (`with_daemon_active_store`). `Restart` drops what was in
flight. The hash of an audit record is a unique identity. `control_set` and `control_delete` take audit
keys too and then edit the log without appending a record: `deleteEntry` removes a record by its key, hold
or no hold, and `setHold` writes the configuration. After the last record is deleted, appends are refused
(`ReadPrev` finds no hash), which keeps the chain.

### LockCoordinator and LocksAuthority

One operator per method of the register, one action per section of a call during which the mutex is
held. An acquire that must wait is a thread in state `sleeping` with the time at which its wait
ends; a changed register notifies all sleepers. `PublishFails` restores the old register, whether or
not the counters reached the disk. `Restart` loses the register and the threads; clients keep their
tokens. The counters saturate at `FenceMax` and deadlines are refused past `TimeMax`, as the `u64`
arithmetic of the code does.

### Reclaim

The executor and foreground operations exclude each other, so whole calls interleave; a crash falls
between the transactions of a call (`clearing` is the point after a collection and before its epoch is
cleared). A transaction takes pages in the order of the allocator: free pages the fence allows
(`Ordinary`), captured free pages past the consumed prefix (`Captured`), the end of the file
(`Fresh`); none but the last while a reader holds the lease. An epoch captures the high-water mark,
the free map, the metadata page and the roots; `Mark` works through the objects, `Classify` through
the metadata, `Complete` turns what was not reached into evidence, `Collect` relocates survivors of
sparse segments and frees what the evidence names, `Clear` ends the epoch. Metadata of a generation is
one page, and the records of one transaction share one slab page.

An operator may run maintenance at any time; the daemon's own calls skip a store that is not eligible. Of the
eligibility rules the model has the one that can stop an epoch: once an epoch is complete, too few
reusable pages (`BelowDebt`, the constant `MinDebt`) keep automatic calls from collecting and clearing it. The
call that completes an epoch goes on to collect without asking again, so this bites when that collection
failed. `Automatic` is the part of `Maintain` that the daemon takes by itself.

`Repeats` says whether content that died before an epoch may be written again while it lasts; the code
does not handle that (section 5).

### OverlayPublication

One action per stretch of a call during which nothing else can come between: admission under
`overlay_publication` (`Answer`, `Join`, `SubmitNormal`, `SubmitDirect`, `PutValues`, `PutAgain`, `Flush`), the
leader's `Drain` and `CommitBatch`/`FailBatch`, which do not hold it, `CommitOwn` under it, `Settle`
and `Restore` after the outcome. Owner tokens chain the payloads of a key, so a token is the sequence of
requests that wrote the key, and "this update contains that one" is a prefix. A commit happens as a
whole or fails without effect. The queue is full at a number of transactions or of records, an entry and
an owner token for each key and a receipt. `Crash` loses the memory; callers keep their requests and send them
again.

### Triggers

A call is one step, because it borrows the Loom. A commit is a number and whether the watch selects
it; a schedule is a set of instants. `Due` is the keeper's list, `Plan` the host taking it, `Fire`,
`FireSkips`, `FireQueues` what becomes of its head, `FireQueued` a queued candidate fired later. `Commit`
extends a branch or rewrites it from any earlier commit on. `Seed` is a first fire record appended by
somebody other than the keeper. `Crash` loses plan and queue.

### Abstractions worth knowing

- `Reclaim` leaves out multi-page records, the metadata reserve, tail trimming and the copying
  compaction; `OverlayPublication` ephemeral entries, puts of other than normal durability and
  the checkpointing of overlay pages; `Triggers` authorization and the selection of paths.
- `FileStore` has no active mark epoch (`Reclaim` has): the reserve top-up always extends the file and
  the reclaim fence does not narrow the reusable runs. Pages both allocated and freed by one transaction do not
  appear. A transaction may drop pages without freeing all of them (superseded region-table and
  maintenance pages). Creation of a file is atomic. Errors while planning have no effect and are left
  out. A reader measures the file and selects its root set in one step.
- `FileStore`: a failed write or fsync of a rekey (`lib.rs:9482-9483`) is not modelled, only that of a
  transaction or a process that ends in between. `RekeySet` is one step where `add_wrap` and `remove_wrap`
  read the metadata in one section and set it in another.
- `ControlPlane` combines the reads of a range, and those of the previous hash, in one step each.
  `control_set` of the audit keys other than the configuration, with arbitrary bytes (a next sequence, a
  checkpoint, an entry), is left out: nothing holds of a log a caller writes over.
- `Reclaim!Sparse` considers every segment of the file where the code takes the status' candidates and
  those of the evidence; page budget and deadline of a collection are left out. The policy's backoff,
  quiescence and candidate threshold are left out too.
- `OverlayPublication` does not count secondary-index records against the queue's record limit.
- `Triggers!Edit` enables, disables and removes bindings; a `trigger_put` that changes kind, options or watch of
  a binding is left out. `Runs` takes "the sequence is recorded" for "the fork branch exists", which differ
  only for queueing bindings.
- Panics and the poisoned locks they leave are not modelled.

## 3. Runs

Bounds are named in the modules and set in the configurations.

| Run | Instance | Checks | States |
| --- | --- | --- | --- |
| `store_handles` | ring of 2, checkpoint every 2nd generation, 3 pages, 3 transactions of up to 2 pages, a reader, a rekeying thread with one change, one power loss | `ImplementsCell`, `AllOrNothing`, `RekeyDurable`, `ReaderSnapshot` | 884 k |
| `store_io_errors` | the same file, all three faults, 4 transactions, one power loss | `OneOwner`, `SuperblockSurvives`, `TxnSparesAdopted` | 2.1 M |
| `group_commit` | 2 threads that call for ever, 2 objects | `AckedStored`, `OneLeader`, `NobodyStranded`, `NoLostWakeup`, `WaitersReturn` | 43 k |
| `control_turns` | 2 threads taking turns, 2 keys, 2 values, 6 operations | `AuditVerifies`, `AuditsKept`, `NoLostUpdate` | 572 k |
| `locks_fencing` | 1 key, 2 sessions, exclusive, shared and an invalid semaphore, counters to 3 | `TypeOK`, `HoldersCompatible`, `FenceNamesOneHolder`, `ExclusiveHolderIsNewest`, `AckedWritesNeverRegress` | 498 k |
| `locks_waiting` | 1 semaphore key, 2 sessions, 2 threads, requests of 1 of 2 and 2 of 3 permits | `SemaphoreWithinCapacity`, `NoMissedNotification`, `AcquireReturnsEventually` | 139 k |
| `reclaim` | 3 objects (2 roots sharing a leaf), 18 pages in segments of 3, 2 epochs, 3 commits, reader opens or crashes, automatic collection from 3 free pages on | `LiveKept`, `SnapshotMarked`, `CapturedTreeKept`, `FenceAgrees`, `ReaderPagesKept`, `EpochEnds` | 219 k |
| `overlay` | 2 callers, 2 keys, one request of every kind, a queue of 2 transactions or 5 records, failing commits, 3 calls (each may be a retry), one crash | `ExactlyOnce`, `AckedReplayed`, `MemoryAhead`, `UpdatesKept`, `WaitersAnswered` | 462 k |
| `triggers` | 2 change bindings on the branch their fires commit to, 1 scheduled; 3 commits, 3 instants, 3 edits or crashes, 1 rewrite | `FiredOnce`, `LogOrdered`, `NothingPassed`, `CatchesUp` | 116 k |
| `reclaim_revival` | violation | `LiveKept` | |
| `overlay_overtaken` | violation | `AckedKept` | |
| `triggers_first` | violation | `ChangesFire` | |

Ten more configurations are kept beside the runs. Two pass: `MCStoreCommit.cfg`, `ImplementsCell` with four
transactions and a power loss that may tear a superblock slot (146 k states), and `MCOverlayThree.cfg`, the
invariants of `overlay` with three callers (symmetric) and a queue full of transactions (1.7 M states). The
others reproduce the disagreements of section 5, each with a counterexample: `MCStoreShortFile.cfg`,
`MCStoreFailedFsync.cfg` (module `MCFileStore`), `MCGroupEmpty.cfg` (`MCGroupCommit`),
`MCControlRace.cfg` (`MCControlPlane`), `MCLocksExpiry.cfg` (`MCLocksAuthority`), `MCReclaimStrays.cfg`
(`MCReclaim`), `MCOverlayReplay.cfg` (`MCOverlayPublication`) and `MCTriggersClock.cfg` (`MCTriggers`).

Why the bounds are enough. A ring of two slots with a checkpoint every second generation makes three
transactions wrap the ring and four (`store_io_errors`, `MCStoreCommit.cfg`) wrap it twice and use both
superblock slots, so every collision of slots happens;
three pages with a reserve of one force reuse of freed pages and of the reserve. Two threads already
give group commit a leader and a follower, batches of both, arrivals while a batch commits, and
hand-over of the lead. Six operations let an audit log be filled, pruned in part, in whole and
beyond its end, appended to, put on and off hold, and lose records by their key before and after prunes. Counters to three let the fence saturate within a
run. Two epochs over two roots with a shared leaf let content be referenced, unlinked, marked,
collected and its pages reused under the next epoch; segments of three pages make a collection relocate
survivors. Two callers with one request of each kind give every pair of kinds in every order on a
shared key; the record limit makes the queue full for two callers. Three instants let a watermark pass
some of the instants to backfill and not others. Three commits let
a binding fire on its own fire while a plan is half done; the safety properties of `triggers` were also
checked with four and two instants (701 k states). What the small instances might miss is what the theorems are for.

`CHECK_DEADLOCK FALSE` appears where the modelled system does stop: a file that an open refused has
no further step, and the bounds on transactions, calls, operations, commits and edits end the other
behaviours. Group commit and the locks
are checked for deadlock.

Symmetry is used for the sessions in `locks_fencing` and the callers in `MCOverlayThree.cfg`, which check
no liveness.

### Fairness

- `GroupCommit!FairSpec`: a thread that leads, or that can return or go to sleep, eventually does.
  The operating system schedules runnable threads; nothing is assumed about new calls, about
  spurious wake-ups, or about transactions succeeding. `WaitersReturn` is stated for waiting callers
  only: the thread that leads drains the queue until it is empty, and under a steady stream of puts
  the code does not promise it a return.
- `LocksAuthority!FairSpec`: time passes, a wait that is due or notified returns, and a runnable
  acquire gets the mutex. Nothing is assumed about releases, failures or restarts, so
  `AcquireReturnsEventually` rests on the wait budget alone.

- `Reclaim!FairSpec`: the daemon runs maintenance periodically and acts when the store is eligible
  (`Automatic`), and readers close their store in the end. Nothing is assumed about commits, crashes or
  operators. `EpochEnds` therefore excepts a complete epoch on a store below the free-page threshold, which
  stays until something is freed or an operator runs maintenance; without the exception TLC refutes it.
- `OverlayPublication!FairSpec`: an admitted call goes on (`Proceed`): its thread is runnable, and the
  guard is held by a call that goes on too. Nothing is assumed about callers or about commits
  succeeding. `WaitersAnswered` is about calls that wait for an outcome. Neither the leader, which drains
  until the queue is empty, nor a caller that has its outcome and still has to get the guard back is
  promised a return under a steady stream of calls. A flush holds the guard, without which nobody queues,
  so its loop does end.
- `Triggers!FairSpec`: the host keeps asking for due fires and firing them (`Keep`). Nothing is assumed
  about commits, edits, the clock, crashes or queued candidates.

`FileStore` and `ControlPlane` state safety only.

## 4. Theorems

All are about every value of the constants that satisfies the named assumptions of the modules.

Every safety property a passing run checks is also a theorem. Where a theorem needs a hypothesis
the code does not guarantee, section 5 has the counterexample without it. The one exception is a killed
fold in `RekeyIsDurable`: TLC finds no violation with one loss (500 k states), but the proof rests on
the invariant of `CommitAllOrNothing`, which a killed fold does break.

**`FileStoreProofs`.** The results differ in the faults they withstand.

| Theorem | Hypothesis |
| --- | --- |
| `TypeCorrect`, `PagesHaveOneOwner`, `TransactionsSpareAdopted` | none: failed writes, torn slots, killed folds, any number of losses |
| `SuperblockOutlivesOneLoss` | at most one power loss, nobody rekeys; every fault |
| `CommitAllOrNothing`, `ReadersSeeOneRootSet`, `FileImplementsCell` | `Tolerated`: no failed write, no death inside a fold; a power loss may tear superblock slots if there is only one, otherwise any number of losses |
| `RekeyIsDurable` | `Faults = {}` and one rekeying thread; any number of losses |

Power losses lose writes and tear pages and ring records at will, and processes may die, in all of
them. They need a ring of at least two slots and nothing of the relation between ring size and
checkpoint interval.

The first group follows from `ShapeInv` alone: every root set anywhere (file, medium, memory, plan,
encoded images) gives a page one owner, and a plan writes no page the adopted root set references. That is a
fact about the allocator, not about the order of writes, and therefore survives every fault.

`AllOrNothing` speaks of a closed file and is far from inductive. The invariant follows two root
sets through every step: `D`, the one the medium would give after the worst power loss, and `V`, the
one the file gives now. `DiskInv` says that the file's entries are coherent with them (all entries
are no newer than `V`, those on the medium no newer than `D`, and the entry that carries each is
where an open finds it), that every page either references is intact in both views, and that both
are well formed. `PhaseInv` says which of the adopted root set and the prepared one `D` and `V` are at
each step: both the old one until the ring record is written, `V` the new one until the journal
fsync, both the new one after. `TxnInv` describes the plan (no page of the old root set is written),
`StampInv` ties stamps to the acknowledged history, `RekeyInv` says that a stale superblock image is
only ever written while the ring still holds the newer commit durably, and `ReaderInv` that the lease
excludes readers and that a reader's pages are out of reach of a transaction without the lease.
A torn slot is harmless as long as the ring holds `D` durably (`Firm`), and until the first power loss it
does (`FirmInv`). A loss may end that: an open after a process death folds a record that no fsync has
covered yet, and a loss that keeps the superblock and tears the record leaves the superblock as the only
copy. That is why one tearing loss is tolerated and two are not. The
lemmas `Coherent*` and `*Disk` show that each kind of write keeps `DiskInv`; one lemma per action
gives the rest. Refinement then follows by reading off `D` and `V` before and after each step.

`SurviveInv`, for `SuperblockOutlivesOneLoss`: until the loss both slots decode and at most one is dirty,
which one loss can tear; a dirty one is as new as the ring, so no open folds into the other slot
meanwhile. `MetaInv`, for `RekeyIsDurable`: whichever of the dirty slots a loss keeps, the better slot
carries the acknowledged metadata (`MetaKept`); the metadata in memory is never older; and slots newer
than an encoded image carry metadata at least as new (`Follow`), so an image that a checkpoint
overtook hides nothing. The last needs that an image is the only one, hence one rekeying thread.

**`GroupCommitProofs`.** `TypeCorrect`; and, when no submission is empty, `PutsAreStored`,
`NobodyIsStranded`, `LeaderIsUnique`, `WakeupsAreKept`, for any number of threads and objects. The
strengthening: a queued waiter's objects are queued with it (`QueueInv`), a waiter that is owed an
answer has its objects in the batch of the thread that owes it (`OwedInv`), and an Ok outcome stands
for stored objects (`OutcomeInv`). `NobodyIsStranded` needs exactly the fact that
`EmptyBatches` breaks: no waiter is queued without an object.

**`LocksProofs`.** `TypeCorrect`, `MutualExclusion`, `FencesUnique`, `ExclusiveNewest`,
`FencedWritesOrdered`, for any keys, sessions, threads, leases and bounds. The register invariant
(holders compatible, fences at most the counter, applied at most the counter) is preserved by every
operator, lemma by lemma; the authority adds that the published counters are never behind the
register (`CountersDurable`), that tokens and holders were issued below the counter, and that the
applied fence covers every acknowledged write. `CountersDurable` is what makes a restart safe, also
after a publication that failed once the commit was on disk.

`SleepersAreNotified`: every change of the register other than the sleeper's own attempt goes through
`NotifyAll`, and a sleeper falls asleep on a register that blocks it (`WaitInv`).
`SemaphoreNeverOversubscribed` needs arithmetic over a sum. `UsedPermits` is a fold over the holders; the
lemmas `SumExists`, `SumUnique` and `UsedPermitsFold` show that the fold is the sum, in whatever order
the register is read, and `UsedPermitsRemove` what a holder adds to it; `PermitsInv` (finitely many holders,
agreed on the capacity, within it) is then preserved by every register operator.

**`ReclaimProofs`.** `FencesAgree`, `CapturedTreesKept`, `SnapshotsMarked`, `ReadersPagesKept`, for any
object graph (shared and cyclic content included), file and segment size, budgets and numbers of
operations, with and without `Repeats`. They follow from one invariant. `FileInv`: the free map names
pages of the file and not the current metadata. `EpochInv`: what an epoch captured lies below its
high-water mark, and its metadata page was not among the captured free pages. `MarkInv`: what a marked
object refers to is marked or queued, and so are the captured roots; with an empty queue the mark is
closed, hence contains all that the roots reach. `FenceAgrees` and `CapturedTreeKept` complete it: an
ordinary page is above the fence, a captured one was free at the snapshot, a fresh one is new, so
none is the captured metadata (`OfferedWritable`), and under a reader all are beyond the file. The lemma
`Transaction` reduces each action to the pages it writes.

`LiveObjectsKept` assumes `~Repeats` (no content is written again once it was dropped; section 5 has the
counterexample otherwise). `KeptInv`: until a stray entry appears, every index entry names a page of the file that holds its
object (`RecordsInv`), and under an epoch a live object is in reach of the captured roots, or above the
high-water mark, or on a captured page the cursor has passed (`Spared`). What a collection drops is none
of these, because a complete mark has all that the roots reach; what a commit adds is one of the last two.

**`ControlPlaneProofs`.** `ChainVerifies`, `AuditRecordsKept`, `UpdatesSurvive`, for any
threads, keys, values and number of operations, when callers take turns (`Serialized`).
The three properties are part of the invariant and need each other: the hash a new record names is
that of the checkpoint or of the last record (`TailHash`), whichever the prune left; with neither, nothing is
appended (`TailHere`). `LogInv` orders
checkpoint, next sequence and the operations begun. `TurnInv`: at most one operation is under way, and
what it has read (next sequence, previous hash, control map, range to prune) is still so when it commits.

**`OverlayProofs`.** `OnceOnly`, `Replayable`, `MemoryIsAhead`, `AcknowledgedKept`, for any callers, requests,
queue limit, failed commits and crashes, over finitely many keys. The first layer (`Inv`) accounts for
requests: a call has at most one item in queue and batches, for a request without a receipt (`OnceInv`,
`LineInv`), a direct call holds the guard (`HeldInv`), callers that join wait for a call that publishes
their request (`JoinInv`, `PendingInv`),
and a request was committed once if it has a receipt and never otherwise (`CountInv`). The second layer
accounts for updates, which are prefixes: while nobody rolled back over another's writes the overlay
extends every record on its way, and the records of one key lie in the queue in that order (`RollInv`);
while there was no race at all the file is a prefix of every record on its way and contains what was
acknowledged (`KeptInv`). The two races are the disagreement of section 5 and the rollback listed there.
The third layer (`ReplayInv`) ties answers to receipts: a request has one receipt, and whoever succeeded or
was acknowledged has it for the compare tokens it was sent with. A call that sends an acknowledged request
again therefore meets its own receipt: it can be neither admitted nor joined to another, and is refused
only for its expected generation. `Replayable` is an action property over these facts.

**`TriggersProofs`.** `FiresOnce`, `LogIsOrdered`, `PassesNothing`, for any bindings, branches,
schedules, policies, limits of a plan, and any commits, rewrites, edits and crashes. `LogInv`: commits of
a branch are numbered in order. `HistoryInv` and `PlannedInv`: recorded and planned stimuli have
happened, sequences are unique. `BindingInv`, for bindings that do not queue: planned
stimuli lie after the recorded ones and in their order; up to each planned or recorded stimulus, all
that should fire is recorded or planned; what was executed is recorded. `Due` goes through the bindings
one by one with a recursive function; `UpToIs` derives its recursion equations, and what a plan
contains follows by induction.

**`DataLemmas`.** The library's induction theorems take an operator, which the provers cannot
instantiate. `Induction` is stated for a set of naturals instead and follows from `WFMin`; `GreatestFinite`
and its companions give `Max` and `Min` their meaning. Facts about folds and counts rest on them.

Only model-checked: liveness (`WaitersReturn`, `AcquireReturnsEventually`, `EpochEnds`,
`WaitersAnswered`, `CatchesUp`), which is beyond the prover.

## 5. Known disagreements

Three runs expect a violation, each with its finding in `PROJECT.json`:

- **A strict commit may be overwritten by an older batch** (`overlay_overtaken`). The leader of the hot
  queue drains a batch and commits it without the publication lock; a strict call in between finds the
  queue empty, commits its newer record and acknowledges it; the batch then writes the older record of
  the key over it. `UpdatesKept` shows that this and the rollback below are the only ways an
  acknowledged update is lost.
- **Content revived during an epoch is collected** (`reclaim_revival`). A commit does not write objects
  the index knows; an object that was unreachable at the snapshot and is referenced again is neither
  marked nor above the high-water mark, and its record is dropped.
- **A change binding without `catch_up` never fires** (`triggers_first`). Its starting point is kept in its
  fire records alone; until there is one, each due list starts at the tip of that moment, and commits since
  the last look are not due. `src/specs/0029-events-and-triggers.md:53` says that it "starts from the current
  branch tip". With `catch_up` the property holds, and a record appended by somebody else (`Seed`) ends it.

Configurations beside the runs reproduce eight more:

- **A committed file may be refused** (`MCStoreShortFile.cfg`, `NeverRefused`). The page count of a
  commit includes reserve pages nobody wrote; the file grows to it after the journal fsync, without an
  fsync of its own. A power loss in between leaves a newest commit record longer than the file, which
  open reports as corrupt; `src/specs/0005-single-file-format.md:28` promises the prior or the new
  generation.
- **A retry after a failed journal fsync overwrites what the failed record points at**
  (`MCStoreFailedFsync.cfg`, `AllOrNothing`). The record is in the file, memory keeps the old roots, and
  the retry plans over the same pages; a crash before the retry's own record recovers the failed one,
  torn.
- **A submission without objects waits for the next put** (`MCGroupEmpty.cfg`, `NobodyStranded`).
  `put_batch_control_set_with_reference` does not check for an empty batch, which the doc of
  `GroupCommit` excludes; it is public and nothing in the repository calls it today.
- **Control updates of two threads undo each other** (`MCControlRace.cfg`, `NoLostUpdate`) unless their
  callers take turns, as in the daemon. The same race gives two audited operations one sequence:
  `AuditsKept` fails in the same instance with three operations.
- **A waiter may sleep past the expiry of the lease that blocks it** (`MCLocksExpiry.cfg`,
  `SleeperIsBlocked`), by as much as its own budget, when the lease expires between the two clock reads of
  the loop.
- **A collection leaves index entries on pages it frees** (`MCReclaimStrays.cfg`, `StrayFree`). Every
  page the evidence names is freed, but only entries of the chosen segments are dropped; a dead
  object's entry then points at whatever is written there next, and a later commit of its content is
  not stored. `LiveKept` and `EpochEnds` are stated up to the first such entry.
- **A retry of a committed request is refused when it carries its expected generation**
  (`MCOverlayReplay.cfg`, `EveryReplayed`). `commit_workflow_transaction` compares the expected generation
  before it looks for the receipt (`loom-store/src/lib.rs:3580`), and the request's own commit has advanced
  the generation; `src/specs/0071-mutable-overlay-substrate.md:735` and `:527` promise the published result.
  `AckedReplayed` is stated for requests without an expected generation.
- **A scheduled binding never fires for the first time** (`MCTriggersClock.cfg`, `InstantsFire`). Without a
  fire record the window of due instants ends where it begins (`loom-triggers/src/lib.rs`, `None => now_ms`),
  whenever the keeper looks; `src/specs/0029-events-and-triggers.md:274` has the keeper target the exact next
  instant.

Five more of the file can be reproduced with `MCFileStore` by changing the constants of a configuration:

- `Faults = {"foldKill"}`, one loss: `AllOrNothing` fails. A process killed between the write and the
  fsync of a fold leaves a superblock in the page cache that the next open trusts without an fsync; a
  power loss takes it back.
- `Faults = {"tornSlot"}`, one rekeying thread, one loss: `RekeyDurable` fails. A second metadata
  change rewrites the slot of the first in place; torn, it loses the first. `SuperblockSurvives` fails
  too: a process that dies with a rekey's slot unsynced, and a rekey of the next process into the
  other slot, leave both dirty.
- `Faults = {"io"}`, one rekeying thread: `RekeyDurable` fails. A transaction that failed after its record
  or checkpoint was written leaves a newer generation in the file than memory holds; the rekey is encoded
  for the older one, and the next open does not select it.
- `Faults = {"tornSlot"}`, two losses: `SuperblockSurvives` fails. A fold rewrites a slot in place and
  may tear the newest one; a second loss tears the other. With three transactions `AllOrNothing` fails too:
  the slot the fold tears may hold the only durable copy of the last commit.
- Two rekeying threads: `RekeyDurable` fails without any loss. The image is encoded under one lock
  and written under another, so an older image can be written last.

Divergences from the documents that no property states, or that a property works around:

- `src/specs/0005-single-file-format.md` asks that a free run is reused only after a window of
  generations, while the code reuses it one generation later when it holds the lease.
  `CommitAllOrNothing` and `ReadersSeeOneRootSet` show that the code's rule is enough under the faults
  they tolerate.
- Reclamation. A validated collection relocates survivors without freeing their old pages, and its tail
  trim finds nothing to trim; after a whole-file compaction the kept epoch no longer matches and every
  later validated collection conflicts until it is cleared; a slice may declare an epoch done with its
  metadata unscanned (`LeaveUnscanned`), which wastes the epoch.
- Overlay. A failed normal transaction puts back the overlay of before its call after it released the
  lock, over writes of others (the race `rolledBack`), although
  `src/specs/0071-mutable-overlay-substrate.md:200` calls the generation monotonic. A full queue, and
  a failed flush before owner state, return an error and leave the overlay written; puts never roll
  back. A strict call clears the leader flag while a batch is in flight, so two leaders may follow. Snapshots see normal writes before they are
  published (0071:209).
- Control plane. A legal hold refuses `audit_prune_through` and nothing else: `control_delete` of an audit
  record's key removes the record under a hold, and leaves a gap `verify_audit_chain` reports. The hold is
  checked in another section than the commit, so callers that do not take turns can set it in between.
- Maintenance. A completed epoch that was not cleared keeps its reclaim fence on a store below the
  free-page threshold, where automatic maintenance skips it (`EpochEnds` names the case).
- Triggers. A binding whose last fired commit left the
  first-parent history fails the due list of all bindings (`Stuck` in `CatchesUp`). A queued candidate is
  planned again and may run twice, record out of order, or be lost once a later record has passed it;
  the properties exclude queueing bindings. With more missed instants than `max_fires`, collapse and skip
  fire several times, on old instants. A binding disabled or removed after planning still fires.

## 6. Not modelled, and the plan

In order of importance:

1. The rest of the overlay: strict and relaxed puts, checkpointing under snapshot pins; an abstract atomic map with receipts as its specification.
2. The daemon registry: takeover of a stale daemon, sessions and pins.
3. Delivery: append to a stream, acknowledgement and low-water mark over a base that may be stale.
4. Version control and sync: ref advance, three-way merge as a pure function against a reference.
5. The coordination substrate: producer epochs, group generations, transaction records.
6. Whole-file compaction (copy and rename) and physical shrink behind the reader lease.
7. Log, ledger and access control as operators checked against reference definitions.
8. The cross-process open of the file: a reader that measures the file before it scans the ring.

Proofs to add, beyond those of new modules: an abstract specification of group commit and of the overlay,
shown to be implemented as `DurableCell` is; `RekeyIsDurable` and `CommitAllOrNothing` under `foldKill` once a
weaker statement that the code does keep is found.

Out of reach: byte encodings, cryptography and query semantics are pure I/O or belong to libraries;
the prover handles no liveness under fairness, which stays with TLC.

## 7. Checking

In this directory: `tlc -config MCStoreHandles.cfg MCFileStore` for a run (the module and the
configuration of each are in `PROJECT.json`), `tlapm FileStoreProofs.tla` for the proofs of a module.
