------------------------------- MODULE Reclaim -------------------------------
(* Online reclamation of a FileStore: reachability mark epochs (loom-store      *)
(* mark_epoch.rs), the validated segment collection (compact.rs) and the        *)
(* maintenance executor that drives them between foreground commits.            *)
(*                                                                              *)
(* A call of the executor and a foreground operation exclude each other (both    *)
(* borrow the engine), so what interleaves is whole calls; a crash falls between  *)
(* the transactions of one call.  A transaction is one step here: FileStore      *)
(* models what is inside it.                                                     *)
(*                                                                              *)
(* All metadata of a generation (index, free map, control map with the epoch)    *)
(* is one page, rewritten by every transaction; the records one transaction      *)
(* writes share one slab page.  Multi-page records, the metadata reserve, tail    *)
(* compaction and whole-file compaction are left out.                            *)
EXTENDS Integers, FiniteSets, FiniteSetsExt

CONSTANTS
    Objects,           \* digests of the content the workload writes
    Children,          \* the objects an object refers to
    Roots,             \* objects the engine state may name
    MaxPages,          \* bound: pages of the file
    SegmentPages,      \* PAGES_PER_SEGMENT
    MaxSegments,       \* GcSegmentBudget::max_segments
    PublicationPages,  \* MARK_EPOCH_CAPTURED_FREE_PUBLICATION_PAGES
    MinDebt,           \* the greater of min_candidate_pages and min_reusable_pages
    Repeats,           \* whether content that died before an epoch is written again during it
    MaxOps,            \* bound: commits, reader opens and crashes
    MaxEpochs          \* bound: mark epochs begun

ASSUME ChildrenAssumption == Children \in [Objects -> SUBSET Objects]
ASSUME RootsAssumption == Roots \subseteq Objects
ASSUME PagesAssumption == MaxPages \in Nat \ {0} /\ SegmentPages \in Nat \ {0}
ASSUME DebtAssumption == MinDebt \in Nat
ASSUME RepeatsAssumption == Repeats \in BOOLEAN

None == -1
Node == "node"
ASSUME NodeAssumption == Node \notin Objects

Pages == 0 .. MaxPages - 1

VARIABLES
    pageCount,  \* Inner::page_count
    free,       \* Inner::free: pages on the free map
    holds,      \* what was last written to each page: records, or {Node} for metadata
    node,       \* the page of the current metadata
    index,      \* the object index: the page of each stored object, or None
    tips,       \* the objects the engine state of the reference root names
    epoch,      \* MARK_EPOCH_KEY and its evidence in the control map, or NoEpoch
    fence,      \* Inner::active_mark_epoch_reclaim_fence (volatile), or None
    reader,     \* whether a reader holds the reclamation lease
    clearing,   \* whether a collection has published and is about to clear its epoch
    ops,        \* number of commits, reader opens and crashes
    epochs,     \* number of epochs begun
    strays      \* history: objects whose index entry outlived their page

vars == <<pageCount, free, holds, node, index, tips, epoch, fence, reader, clearing,
          ops, epochs, strays>>

NoEpoch == [active |-> FALSE]

\* The least set that contains roots and the children of its members.
Reach(roots) ==
    {o \in Objects : \A C \in SUBSET Objects :
        (roots \subseteq C /\ \A x \in C : Children[x] \subseteq C) => o \in C}

Live == Reach(tips)
Stored(o) == index[o] # None /\ index[o] \notin free /\ o \in holds[index[o]]
Indexed == {o \in Objects : index[o] # None}

Init ==
    /\ pageCount = 1 /\ free = {} /\ node = 0
    /\ holds = [p \in Pages |-> IF p = 0 THEN {Node} ELSE {}]
    /\ index = [o \in Objects |-> None]
    /\ tips = {} /\ epoch = NoEpoch /\ fence = None
    /\ reader = FALSE /\ clearing = FALSE
    /\ ops = 0 /\ epochs = 0 /\ strays = {}

(* ---- allocation ---- *)

\* The captured free pages up to the cursor.  The order of the cursor is fixed by the
\* captured map (longest run first); ascending page numbers stand for it.
Consumed == IF epoch.active THEN {p \in epoch.captured : p < epoch.through} ELSE {}

FaultyOrdinary == IF reader THEN {} ELSE free

\* transaction_reusable_free
Ordinary ==
    IF reader THEN {} ELSE {p \in free : fence = None \/ p >= fence}

FaultyCaptured ==
    IF ~epoch.active THEN {} ELSE (epoch.captured \cap free) \ Consumed

\* captured_free_reuse_runs
Captured ==
    IF reader \/ ~epoch.active THEN {} ELSE (epoch.captured \cap free) \ Consumed

Fresh == pageCount .. MaxPages - 1

\* PageAllocator::alloc: ordinary free pages, then captured ones, then the end of the
\* file; the lowest page of the kind.  Empty when the bound on the file is reached.
First(offered) ==
    LET kind == IF offered \cap Ordinary # {} THEN offered \cap Ordinary
                ELSE IF offered \ Fresh # {} THEN offered \ Fresh ELSE offered
    IN  {p \in kind : \A q \in kind : p <= q}

\* One transaction writes objs on a slab page (None when there is nothing to write) and
\* the next metadata page.
Slabs(objs, offered) == IF objs = {} THEN {None} ELSE First(offered)
Writes(objs, slab, meta) ==
    /\ holds' = [p \in Pages |-> IF p = meta THEN {Node}
                                 ELSE IF p = slab THEN objs ELSE holds[p]]
    /\ pageCount' = Max({pageCount, slab + 1, meta + 1})
    /\ node' = meta

\* advance_captured_free_consumption_in_control_map
Advanced(taken) ==
    IF epoch.active /\ taken \cap epoch.captured # {}
    THEN [epoch EXCEPT !.through = Max({epoch.through} \cup {p + 1 : p \in taken \cap epoch.captured})]
    ELSE epoch

(* ---- foreground ---- *)

\* Content the snapshot of the epoch does not protect.
Unprotected(objs) ==
    IF ~epoch.active THEN {}
    ELSE {o \in objs : /\ o \notin Reach(epoch.roots)
                       /\ index[o] # None /\ index[o] < epoch.hwm /\ index[o] \notin Consumed}

\* commit_txn: objects the index knows are not written again.
Put(objs) ==
    LET fresh == objs \ Indexed
        offered == Ordinary \cup Captured \cup Fresh
    IN
    /\ Repeats \/ Unprotected(objs) = {}
    /\ \E slab \in Slabs(fresh, offered) : \E meta \in First(offered \ {slab}) :
        /\ Writes(fresh, slab, meta)
        /\ index' = [o \in Objects |-> IF o \in fresh THEN slab ELSE index[o]]
        /\ free' = (free \ {slab, meta}) \cup {node}
        /\ epoch' = Advanced({slab, meta})
    /\ ops' = ops + 1
    /\ UNCHANGED <<fence, reader, clearing, epochs, strays>>

\* put_batch_and_set_reference_root (save_loom): the objects a new state refers to, and the
\* state, in one transaction.
Commit(roots) ==
    /\ ~clearing /\ ops < MaxOps
    /\ Put(Reach(roots) \ Live)
    /\ tips' = roots

\* put_batch, and the operation ends before the state that refers to the objects is saved.
Abandon(roots) ==
    /\ ~clearing /\ ops < MaxOps
    /\ Put(Reach(roots) \ Live)
    /\ UNCHANGED tips

(* ---- mark epochs ---- *)

\* A maintenance transaction that changes no object.
Publish(meta) ==
    /\ Writes({}, None, meta)
    /\ free' = (free \ {meta}) \cup {node}

\* begin_loom_reachability_mark_epoch: the fence keeps the pages captured as free away
\* from the transaction that publishes the epoch.
BeginEpoch ==
    /\ ~clearing /\ ~epoch.active /\ epochs < MaxEpochs
    /\ \E meta \in First(Fresh) : Publish(meta)
    /\ epoch' = [active |-> TRUE, hwm |-> pageCount, captured |-> free, through |-> 0,
                  node |-> node, roots |-> tips, marked |-> {}, queue |-> tips, done |-> FALSE,
                  scanned |-> FALSE, candidates |-> {}, evidence |-> {}, validated |-> FALSE]
    /\ fence' = pageCount
    /\ epochs' = epochs + 1
    /\ UNCHANGED <<index, tips, reader, clearing, ops, strays>>

SaveEpoch(changed) ==
    /\ \E meta \in First(Ordinary \cup Captured \cup Fresh) :
        /\ Publish(meta)
        /\ epoch' = [changed EXCEPT !.through = Advanced({meta}).through]
    /\ fence' = epoch.hwm
    /\ UNCHANGED <<index, tips, reader, clearing, ops, epochs, strays>>

\* The executor steps the epoch until its object marking is done.
Marking == ~clearing /\ epoch.active /\ ~epoch.done

FaultyMark(o) ==
    /\ Marking /\ o \in epoch.queue /\ Stored(o)
    /\ SaveEpoch([epoch EXCEPT !.marked = @ \cup {o},
                               !.queue = @ \ {o}])

EndlessMark(o) ==
    /\ Marking /\ o \in epoch.queue /\ Stored(o)
    /\ SaveEpoch([epoch EXCEPT !.marked = @ \cup {o},
                               !.queue = @ \cup Children[o]])

\* step_live_object_mark, then save_reachability_mark_epoch
Mark(o) ==
    /\ Marking /\ o \in epoch.queue /\ Stored(o)
    /\ SaveEpoch([epoch EXCEPT !.marked = @ \cup {o},
                               !.queue = (@ \cup Children[o]) \ (epoch.marked \cup {o})])

\* The captured pages a publication of metadata evidence claims, used or not.
Claimed == {p \in Captured : Cardinality({q \in Captured : q < p}) < PublicationPages}

\* step_reachability_metadata_mark_epoch: metadata below the high-water mark that the
\* captured metadata roots do not reach is a candidate.
Classify ==
    /\ Marking /\ ~epoch.scanned
    /\ \E meta \in First(Ordinary \cup Claimed \cup Fresh) : Publish(meta)
    /\ epoch' = [epoch EXCEPT !.scanned = TRUE,
                     !.candidates = {p \in 0 .. epoch.hwm - 1 :
                                       holds[p] = {Node} /\ p # epoch.node} \ Claimed,
                     !.through = Advanced(Claimed).through]
    /\ fence' = epoch.hwm
    /\ UNCHANGED <<index, tips, reader, clearing, ops, epochs, strays>>

\* A slice ends with all objects marked and the metadata scan unfinished.
LeaveUnscanned ==
    /\ Marking /\ epoch.queue = {} /\ ~epoch.scanned
    /\ SaveEpoch([epoch EXCEPT !.done = TRUE])

\* blob_pages fails on an index entry whose page is not a record page.
Readable == \A o \in Indexed : holds[index[o]] # {Node}

PreSnapshot(o) == index[o] # None /\ index[o] < epoch.hwm

\* build_reachability_mark_reclaim_evidence
Evidence ==
    {index[o] : o \in {x \in Indexed \ epoch.marked : PreSnapshot(x)}}
        \ (Consumed \cup {index[o] : o \in {x \in Indexed : x \in epoch.marked \/ ~PreSnapshot(x)}})

\* complete_reachability_mark_epoch
Complete ==
    /\ Marking /\ epoch.queue = {} /\ epoch.scanned /\ Readable
    /\ \E meta \in First(Ordinary \cup Fresh) : Publish(meta)
    /\ epoch' = [epoch EXCEPT !.done = TRUE, !.evidence = Evidence, !.validated = TRUE]
    /\ UNCHANGED <<index, tips, fence, reader, clearing, ops, epochs, strays>>

(* ---- validated collection ---- *)

\* Evidence is missing: the epoch is cleared and the run reports a conflict.
Mismatch ==
    /\ ~clearing /\ epoch.active /\ epoch.done /\ ~epoch.validated
    /\ clearing' = TRUE
    /\ UNCHANGED <<pageCount, free, holds, node, index, tips, epoch, fence, reader, ops,
                   epochs, strays>>

\* reachability_mark_metadata_reclaim_candidate_pages
MetadataPages == {p \in epoch.candidates : p < epoch.hwm} \ Consumed

Segment(p) == p \div SegmentPages
In(pages, s) == {p \in pages : Segment(p) = s}

FaultyRecordLive(o) == o \in epoch.marked

\* alive(digest) || protected_by_epoch(pages)
RecordLive(o) ==
    o \in epoch.marked \/ index[o] >= epoch.hwm \/ index[o] \in Consumed

\* The segments choose_sparse_segments_bounded may take: those the maintenance status names
\* (touched, or with a free page) and those of the evidence.  Evidence pages that are still
\* indexed count twice in the total.
Sparse ==
    LET recorded == {index[o] : o \in Indexed}
        livePages == {index[o] : o \in {x \in Indexed : RecordLive(x)}}
        total(s) == Cardinality(In(recorded, s)) + Cardinality(In(epoch.evidence, s))
                    + Cardinality(In(MetadataPages, s))
    IN  {s \in {Segment(p) : p \in 0 .. pageCount - 1} :
            2 * Cardinality(In(livePages, s)) < total(s)}
Chosen == {s \in Sparse : Cardinality({t \in Sparse : t < s}) < MaxSegments}

\* gc_segments_inner found no sparse segment (or there was no candidate): nothing is
\* published, the epoch is cleared.
NothingToCollect ==
    /\ ~clearing /\ epoch.active /\ epoch.done /\ epoch.validated
    /\ Readable /\ Chosen = {}
    /\ clearing' = TRUE
    /\ UNCHANGED <<pageCount, free, holds, node, index, tips, epoch, fence, reader, ops,
                   epochs, strays>>

\* gc_segments_inner: relocate the survivors of the chosen segments, drop their dead
\* records, and free every page the evidence names.
Collect ==
    /\ ~clearing /\ epoch.active /\ epoch.done /\ epoch.validated /\ ~reader
    /\ Readable /\ Chosen # {}
    /\ LET touched == {o \in Indexed : Segment(index[o]) \in Chosen}
           survivors == {o \in touched : RecordLive(o) /\ Segment(index[o]) # Segment(pageCount - 1)}
           dropped == {o \in touched : ~RecordLive(o)}
           offered == Ordinary \cup Captured \cup Fresh
       IN  /\ \A o \in survivors : Stored(o)
           /\ \E slab \in Slabs(survivors, offered) : \E meta \in First(offered \ {slab}) :
                /\ Writes(survivors, slab, meta)
                /\ index' = [o \in Objects |-> IF o \in survivors THEN slab
                                               ELSE IF o \in dropped THEN None ELSE index[o]]
                /\ free' = (free \ {slab, meta}) \cup {node}
                           \cup ((epoch.evidence \cup MetadataPages) \ {slab, meta})
                /\ epoch' = Advanced({slab, meta})
    /\ strays' = strays \cup {o \in Objects : index'[o] # None /\ index'[o] \in free'}
    /\ clearing' = TRUE
    /\ UNCHANGED <<tips, fence, reader, ops, epochs>>

\* clear_reachability_mark_epoch: active readers make the call fail.
Clear ==
    /\ clearing
    /\ clearing' = FALSE
    /\ IF reader
       THEN UNCHANGED <<pageCount, free, holds, node, epoch, fence>>
       ELSE /\ \E meta \in First(free \cup Fresh) : Publish(meta)
            /\ epoch' = NoEpoch /\ fence' = None
    /\ UNCHANGED <<index, tips, reader, ops, epochs, strays>>

(* ---- readers and crashes ---- *)

OpenReader ==
    /\ ~reader /\ ops < MaxOps
    /\ reader' = TRUE /\ ops' = ops + 1
    /\ UNCHANGED <<pageCount, free, holds, node, index, tips, epoch, fence, clearing, epochs, strays>>

CloseReader ==
    /\ reader /\ reader' = FALSE
    /\ UNCHANGED <<pageCount, free, holds, node, index, tips, epoch, fence, clearing, ops, epochs, strays>>

FaultyReopen ==
    /\ ops < MaxOps /\ ops' = ops + 1
    /\ fence' = None
    /\ clearing' = FALSE
    /\ UNCHANGED <<pageCount, free, holds, node, index, tips, epoch, reader, epochs, strays>>

\* The process dies between transactions; open restores the fence from the control map.
Reopen ==
    /\ ops < MaxOps /\ ops' = ops + 1
    /\ fence' = IF epoch.active THEN epoch.hwm ELSE None
    /\ clearing' = FALSE
    /\ UNCHANGED <<pageCount, free, holds, node, index, tips, epoch, reader, epochs, strays>>

\* run_store_maintenance_once: a manual call runs whenever it is made.
Maintain ==
    \/ BeginEpoch \/ Classify \/ LeaveUnscanned \/ Complete
    \/ Mismatch \/ NothingToCollect \/ Collect \/ Clear
    \/ \E o \in Objects : Mark(o)

\* maintenance_eligibility_reason: a completed epoch is left alone while the free map is
\* small (candidate_dead_pages and reusable_free_pages both count it).
BelowDebt == epoch.active /\ epoch.done /\ Cardinality(free) < MinDebt

\* A call the daemon makes by itself; once it has collected it also clears the epoch.
Automatic == (clearing \/ ~BelowDebt) /\ Maintain

Next ==
    \/ Maintain
    \/ \E roots \in SUBSET Roots : Commit(roots) \/ Abandon(roots)
    \/ OpenReader \/ CloseReader \/ Reopen

Spec == Init /\ [][Next]_vars
FairSpec == Spec /\ WF_vars(Automatic) /\ WF_vars(CloseReader)

(* ---- properties ---- *)

\* No object the engine state reaches is lost to a collection: whatever was committed,
\* saved or crashed between the snapshot of an epoch and the collection it validates,
\* every live object is indexed on a page that is not free and still holds it (as long
\* as no collection has left an index entry behind, which StrayFree states).
LiveKept == strays = {} => \A o \in Live : Stored(o)

\* A collection leaves no index entry on a page it frees: "relocate survivors to fresh
\* pages, point-update their index entries, delete the dropped keys, and free the
\* reclaimed segments' pages" (gc_segments_inner).
StrayFree == strays = {}

\* A completed epoch has marked all its snapshot reaches, although the commits since
\* may have unlinked any of it (step_live_object_mark).
SnapshotMarked == epoch.active /\ epoch.done => Reach(epoch.roots) \subseteq epoch.marked

\* The captured metadata tree the scan walks is never written over while the epoch
\* lasts, across reopens (reclaim_fence_filter_reusable_free).
CapturedTreeKept ==
    epoch.active => node # epoch.node /\ holds[epoch.node] = {Node}

\* A foreground transaction finds the fence the durable epoch asks for, after any
\* sequence of saves, clears and reopens ("reachability mark foreground fence mismatch").
FenceAgrees == fence = IF epoch.active THEN epoch.hwm ELSE None

\* While a reader holds the reclamation lease no page of the file is written again, by
\* foreground, maintenance or collecting transactions.
ReaderPagesKept ==
    [][reader /\ reader' => \A p \in Pages : p < pageCount => holds'[p] = holds[p]]_vars

\* An epoch does not outlive the attention of the executor: it is collected or cleared,
\* whatever readers and crashes intervene, unless it is complete and the store has too few
\* free pages for an automatic run.
EpochEnds == epoch.active ~> (~epoch.active \/ BelowDebt \/ strays # {})
==============================================================================
