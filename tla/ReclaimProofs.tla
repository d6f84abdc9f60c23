---------------------------- MODULE ReclaimProofs ----------------------------
(* Proofs about Reclaim, for any object graph, any file and any segment size. *)
EXTENDS Reclaim, DataLemmas, TLAPS

\* The fields of an epoch that is active.
Fields == {"active", "hwm", "captured", "through", "node", "roots", "marked", "queue",
           "done", "scanned", "candidates", "evidence", "validated"}

\* The free map names pages of the file, and not the page of the current metadata.
FileInv ==
    /\ pageCount \in Nat /\ pageCount <= MaxPages
    /\ free \subseteq 0 .. pageCount - 1
    /\ node \in 0 .. pageCount - 1 /\ node \notin free /\ holds[node] = {Node}

NamesInv == index \in [Objects -> Pages \cup {None}] /\ tips \subseteq Objects

\* What an epoch captured lies below its high-water mark, and its metadata page was not free.
EpochInv ==
    /\ epoch.active => /\ DOMAIN epoch = Fields /\ epoch.active = TRUE
                       /\ epoch.hwm \in Nat /\ epoch.hwm <= pageCount
                       /\ epoch.node \in 0 .. epoch.hwm - 1 /\ epoch.node \notin epoch.captured
                       /\ epoch.candidates \subseteq 0 .. epoch.hwm - 1
                       /\ epoch.evidence \subseteq 0 .. epoch.hwm - 1
    /\ ~epoch.active => epoch = NoEpoch

\* The marking of a graph: what a marked object refers to is marked or queued.
MarkInv ==
    epoch.active => /\ epoch.marked \subseteq Objects /\ epoch.queue \subseteq Objects
                    /\ epoch.roots \subseteq epoch.marked \cup epoch.queue
                    /\ \A x \in epoch.marked : Children[x] \subseteq epoch.marked \cup epoch.queue
                    /\ epoch.done => epoch.queue = {}

Inv == FileInv /\ NamesInv /\ EpochInv /\ MarkInv /\ FenceAgrees /\ CapturedTreeKept

\* A page a transaction may write.
Writable(p) ==
    /\ p \in Pages /\ p # node /\ (epoch.active => p # epoch.node)
    /\ reader => p >= pageCount

------------------------------------------------------------------------------
\* The largest of three naturals.
LEMMA MaxOfThree ==
    ASSUME NEW i \in Int, NEW j \in Int, NEW k \in Int
    PROVE  Max({i, j, k}) \in {i, j, k} /\ \A x \in {i, j, k} : Max({i, j, k}) >= x
<1>1. \E x \in {i, j, k} : \A y \in {i, j, k} : x >= y
  OBVIOUS
<1> QED BY <1>1 DEF Max

\* The allocator gives out pages it was offered.
LEMMA FirstOffered == ASSUME NEW S PROVE First(S) \subseteq S
BY DEF First

\* The pages the allocator is offered spare the current and the captured metadata and,
\* while a reader holds its lease, the whole file.
LEMMA OfferedWritable ==
    ASSUME Inv, NEW p \in Ordinary \cup Captured \cup Fresh
    PROVE  Writable(p)
<1> USE PagesAssumption DEF Inv, FileInv, EpochInv, FenceAgrees, Writable, Pages, None
<1>1. CASE p \in Fresh
  BY <1>1 DEF Fresh
<1>2. CASE p \in Ordinary
  <2>1. ~reader /\ p \in free /\ (fence = None \/ p >= fence)
    BY <1>2 DEF Ordinary
  <2>2. p \in Pages /\ p # node
    BY <2>1
  <2>3. ASSUME epoch.active PROVE p # epoch.node
    BY <2>1, <2>3
  <2> QED BY <2>1, <2>2, <2>3
<1>3. CASE p \in Captured
  <2>1. ~reader /\ epoch.active /\ p \in free /\ p \in epoch.captured
    BY <1>3 DEF Captured
  <2> QED BY <2>1
<1> QED BY <1>1, <1>2, <1>3

\* The file grows to hold what a transaction writes.
LEMMA WritesLength ==
    ASSUME FileInv, NEW objs, NEW slab, NEW meta, Writes(objs, slab, meta),
           slab = None \/ slab \in Pages, meta \in Pages
    PROVE  /\ pageCount' \in Nat /\ pageCount <= pageCount' /\ pageCount' <= MaxPages
           /\ meta \in 0 .. pageCount' - 1
           /\ slab # None => slab \in 0 .. pageCount' - 1
<1> USE PagesAssumption DEF FileInv, Pages, None
<1>1. slab + 1 \in Int /\ meta + 1 \in Int /\ pageCount \in Int
  OBVIOUS
<1>2. pageCount' = Max({pageCount, slab + 1, meta + 1})
  BY DEF Writes
<1>3. /\ pageCount' \in {pageCount, slab + 1, meta + 1}
      /\ \A x \in {pageCount, slab + 1, meta + 1} : pageCount' >= x
  BY <1>1, <1>2, MaxOfThree
<1>4. pageCount' >= pageCount /\ pageCount' >= slab + 1 /\ pageCount' >= meta + 1
  BY <1>3
<1>5. CASE pageCount' = pageCount
  BY <1>4, <1>5
<1>6. CASE pageCount' = slab + 1
  BY <1>4, <1>6
<1>7. CASE pageCount' = meta + 1
  BY <1>4, <1>7
<1> QED BY <1>3, <1>5, <1>6, <1>7

\* What the writes of a transaction leave of the file.
LEMMA WritesKeep ==
    ASSUME Inv, NEW objs, NEW slab, NEW meta, Writes(objs, slab, meta),
           slab = None \/ Writable(slab), Writable(meta), slab # meta
    PROVE  /\ pageCount' \in Nat /\ pageCount <= pageCount' /\ pageCount' <= MaxPages
           /\ node' = meta /\ meta \in 0 .. pageCount' - 1 /\ holds'[meta] = {Node}
           /\ slab # None => slab \in 0 .. pageCount' - 1
           /\ meta # node
           /\ epoch.active => holds'[epoch.node] = {Node} /\ meta # epoch.node
           /\ reader => \A p \in Pages : p < pageCount => holds'[p] = holds[p]
<1> USE PagesAssumption DEF Inv, FileInv, EpochInv, Writable, Pages, None
<1>4. /\ pageCount' \in Nat /\ pageCount <= pageCount' /\ pageCount' <= MaxPages
      /\ meta \in 0 .. pageCount' - 1
      /\ slab # None => slab \in 0 .. pageCount' - 1
  BY WritesLength
<1>5. node' = meta /\ holds'[meta] = {Node}
  BY DEF Writes
<1>6. ASSUME epoch.active PROVE holds'[epoch.node] = {Node} /\ meta # epoch.node
  <2>1. epoch.node \in Pages /\ epoch.node # meta /\ epoch.node # slab
    BY <1>6
  <2>2. holds[epoch.node] = {Node}
    BY <1>6 DEF CapturedTreeKept
  <2> QED BY <2>1, <2>2 DEF Writes
<1>7. ASSUME reader, NEW p \in Pages, p < pageCount PROVE holds'[p] = holds[p]
  BY <1>7 DEF Writes
<1> QED BY <1>4, <1>5, <1>6, <1>7

\* e is the current epoch as far as its capture goes.
Carries(e) ==
    /\ DOMAIN e = Fields /\ e.active = TRUE /\ e.hwm = epoch.hwm /\ e.node = epoch.node
    /\ e.captured = epoch.captured /\ e.roots = epoch.roots

\* e is the current epoch as far as its marking goes.
Marks(e) == e.marked = epoch.marked /\ e.queue = epoch.queue /\ e.done = epoch.done

\* e is the current epoch as far as what it gathered goes.
Gathers(e) == e.candidates = epoch.candidates /\ e.evidence = epoch.evidence

\* The consumption cursor is all that an allocation changes of an epoch.
LEMMA AdvancedCarries ==
    ASSUME Inv, NEW S
    PROVE  /\ epoch.active => Carries(Advanced(S)) /\ Marks(Advanced(S)) /\ Gathers(Advanced(S))
           /\ ~epoch.active => Advanced(S) = epoch
BY DEF Inv, EpochInv, Advanced, Carries, Marks, Gathers, Fields

\* A transaction that allocates where it may, frees pages of the file and keeps what the
\* epoch captured preserves the invariant.
LEMMA Transaction ==
    ASSUME Inv, NEW objs, NEW slab, NEW meta, Writes(objs, slab, meta),
           slab = None \/ Writable(slab), Writable(meta), slab # meta,
           free' \subseteq 0 .. pageCount' - 1, meta \notin free',
           NamesInv', MarkInv', fence' = fence \/ (fence' = epoch.hwm /\ epoch.active),
           ~epoch.active => epoch' = epoch,
           epoch.active => /\ Carries(epoch')
                           /\ epoch'.candidates \subseteq 0 .. epoch.hwm - 1
                           /\ epoch'.evidence \subseteq 0 .. epoch.hwm - 1
    PROVE  Inv'
<1> USE DEF Inv
<1>1. FileInv'
  BY WritesKeep DEF FileInv
<1>2. EpochInv' /\ FenceAgrees'
  <2>1. CASE epoch.active
    BY <2>1, WritesKeep DEF FileInv, EpochInv, FenceAgrees, Carries
  <2>2. CASE ~epoch.active
    BY <2>2, WritesKeep DEF FileInv, EpochInv, FenceAgrees
  <2> QED BY <2>1, <2>2
<1>3. CapturedTreeKept'
  <2>1. CASE epoch.active
    BY <2>1, WritesKeep DEF CapturedTreeKept, Carries
  <2>2. CASE ~epoch.active
    BY <2>2 DEF CapturedTreeKept
  <2> QED BY <2>1, <2>2
<1> QED BY <1>1, <1>2, <1>3

\* The marking is untouched by a step that keeps it.
LEMMA MarksKept ==
    ASSUME Inv, epoch.active => Carries(epoch') /\ Marks(epoch'), ~epoch.active => epoch' = epoch
    PROVE  MarkInv'
BY DEF Inv, MarkInv, Carries, Marks

\* A longer file has the pages of a shorter one.
LEMMA LongerRange ==
    ASSUME NEW i \in Nat, NEW j \in Nat, i <= j PROVE 0 .. i - 1 \subseteq 0 .. j - 1
OBVIOUS

\* The pages of the file stay pages of the file.
LEMMA PagesStay ==
    ASSUME Inv, pageCount' \in Nat, pageCount <= pageCount'
    PROVE  free \cup {node} \subseteq 0 .. pageCount' - 1
<1>1. pageCount \in Nat /\ free \subseteq 0 .. pageCount - 1 /\ node \in 0 .. pageCount - 1
  BY DEF Inv, FileInv
<1>2. 0 .. pageCount - 1 \subseteq 0 .. pageCount' - 1
  BY <1>1, LongerRange
<1> QED BY <1>1, <1>2

\* A foreground transaction preserves the invariant.
LEMMA PutKeeps ==
    ASSUME Inv, NEW objs, Put(objs), tips' \subseteq Objects
    PROVE  Inv'
<1> DEFINE fresh == objs \ Indexed
           offered == Ordinary \cup Captured \cup Fresh
<1>0. PICK slab \in Slabs(fresh, offered) : \E meta \in First(offered \ {slab}) :
         /\ Writes(fresh, slab, meta)
         /\ index' = [o \in Objects |-> IF o \in fresh THEN slab ELSE index[o]]
         /\ free' = (free \ {slab, meta}) \cup {node}
         /\ epoch' = Advanced({slab, meta})
         /\ fence' = fence
  BY DEF Put
<1>1. PICK meta \in First(offered \ {slab}) :
         /\ Writes(fresh, slab, meta)
         /\ index' = [o \in Objects |-> IF o \in fresh THEN slab ELSE index[o]]
         /\ free' = (free \ {slab, meta}) \cup {node}
         /\ epoch' = Advanced({slab, meta})
         /\ fence' = fence
  BY <1>0
<1>2. slab = None \/ slab \in offered
  BY FirstOffered DEF Slabs
<1>3. meta \in offered /\ slab # meta
  BY FirstOffered
<1>4. (slab = None \/ Writable(slab)) /\ Writable(meta)
  BY <1>2, <1>3, OfferedWritable
<1>5. NamesInv'
  BY <1>1, <1>4 DEF Inv, NamesInv, Writable, Pages, None
<1>6. /\ epoch.active => Carries(epoch') /\ Marks(epoch') /\ Gathers(epoch')
      /\ ~epoch.active => epoch' = epoch
  BY <1>1, AdvancedCarries
<1>7. MarkInv'
  BY <1>6, MarksKept
<1>8. free' \subseteq 0 .. pageCount' - 1 /\ meta \notin free'
  <2>1. /\ pageCount' \in Nat /\ pageCount <= pageCount' /\ meta # node
    BY <1>1, <1>3, <1>4, WritesKeep
  <2>2. free \cup {node} \subseteq 0 .. pageCount' - 1
    BY <2>1, PagesStay
  <2> QED BY <1>1, <2>1, <2>2
<1>9. /\ ~epoch.active => epoch' = epoch
      /\ epoch.active => /\ Carries(epoch')
                         /\ epoch'.candidates \subseteq 0 .. epoch.hwm - 1
                         /\ epoch'.evidence \subseteq 0 .. epoch.hwm - 1
  BY <1>6 DEF Inv, EpochInv, Gathers
<1>10. Writes(fresh, slab, meta) /\ (fence' = fence \/ (fence' = epoch.hwm /\ epoch.active))
  BY <1>1
<1> HIDE DEF fresh, offered
<1> QED
  BY <1>3, <1>4, <1>5, <1>7, <1>8, <1>9, <1>10, Transaction

\* The pages of a maintenance transaction that changes no object.
Moves(offered) ==
    \E meta \in First(offered) : /\ Writes({}, None, meta)
                                 /\ free' = (free \ {meta}) \cup {node}

\* Such a transaction preserves the invariant.
LEMMA PublishKeeps ==
    ASSUME Inv, NEW offered, offered \subseteq Ordinary \cup Captured \cup Fresh,
           Moves(offered), index' = index, tips' = tips, MarkInv', epoch.active,
           fence' = fence \/ fence' = epoch.hwm, Carries(epoch'),
           epoch'.candidates \subseteq 0 .. epoch.hwm - 1,
           epoch'.evidence \subseteq 0 .. epoch.hwm - 1
    PROVE  Inv'
<1>1. PICK meta \in First(offered) :
         /\ Writes({}, None, meta)
         /\ free' = (free \ {meta}) \cup {node}
  BY DEF Moves
<1>2. Writable(meta)
  BY FirstOffered, OfferedWritable
<1>3. None # meta
  BY <1>2, PagesAssumption DEF Writable, Pages, None
<1>4. NamesInv'
  BY DEF Inv, NamesInv
<1>5. free' \subseteq 0 .. pageCount' - 1 /\ meta \notin free'
  <2>1. /\ pageCount' \in Nat /\ pageCount <= pageCount' /\ meta # node
    BY <1>1, <1>2, <1>3, WritesKeep
  <2>2. free \cup {node} \subseteq 0 .. pageCount' - 1
    BY <2>1, PagesStay
  <2> QED BY <1>1, <2>1, <2>2
<1> QED BY <1>1, <1>2, <1>3, <1>4, <1>5, Transaction

\* save_reachability_mark_epoch preserves the invariant.
LEMMA SaveKeeps ==
    ASSUME Inv, epoch.active, NEW changed, SaveEpoch(changed), Carries(changed), Gathers(changed),
           changed.queue \subseteq Objects, changed.marked \subseteq Objects,
           epoch.roots \subseteq changed.marked \cup changed.queue,
           \A x \in changed.marked : Children[x] \subseteq changed.marked \cup changed.queue,
           changed.done => changed.queue = {}
    PROVE  Inv'
<1>1. PICK meta \in First(Ordinary \cup Captured \cup Fresh) :
         /\ Writes({}, None, meta)
         /\ free' = (free \ {meta}) \cup {node}
         /\ epoch' = [changed EXCEPT !.through = Advanced({meta}).through]
  BY DEF SaveEpoch, Publish
<1>2. fence' = epoch.hwm /\ index' = index /\ tips' = tips
  BY DEF SaveEpoch
<1>3. /\ Carries(epoch') /\ Gathers(epoch')
      /\ epoch'.marked = changed.marked /\ epoch'.queue = changed.queue
      /\ epoch'.done = changed.done
  BY <1>1 DEF Carries, Gathers, Fields
<1>4. MarkInv'
  BY <1>3 DEF MarkInv, Carries
<1> QED BY <1>1, <1>2, <1>3, <1>4, PublishKeeps DEF Moves, Inv, EpochInv, Gathers

------------------------------------------------------------------------------
\* The invariant holds at the start.
LEMMA InitInv == Init => Inv
BY PagesAssumption DEF Init, Inv, FileInv, NamesInv, EpochInv, MarkInv, FenceAgrees,
   CapturedTreeKept, NoEpoch, Pages, None

\* The epoch begins where the file is: its capture is what was free, its fence the end.
LEMMA BeginEpochKeeps == ASSUME Inv, BeginEpoch PROVE Inv'
<1>1. PICK meta \in First(Fresh) :
         /\ Writes({}, None, meta)
         /\ free' = (free \ {meta}) \cup {node}
         /\ epoch' = [active |-> TRUE, hwm |-> pageCount, captured |-> free, through |-> 0,
              node |-> node, roots |-> tips, marked |-> {}, queue |-> tips, done |-> FALSE,
              scanned |-> FALSE, candidates |-> {}, evidence |-> {}, validated |-> FALSE]
  BY DEF BeginEpoch, Publish
<1>2. fence' = pageCount /\ index' = index /\ tips' = tips /\ ~epoch.active
  BY DEF BeginEpoch
<1>3. meta \in Fresh
  BY FirstOffered
<1>4. Writable(meta) /\ None # meta /\ meta >= pageCount
  BY <1>3, OfferedWritable, PagesAssumption DEF Fresh, Writable, Pages, None, Inv, FileInv
<1>5. /\ pageCount' \in Nat /\ pageCount <= pageCount' /\ pageCount' <= MaxPages
      /\ node' = meta /\ meta \in 0 .. pageCount' - 1 /\ holds'[meta] = {Node} /\ meta # node
  BY <1>1, <1>4, WritesKeep
<1>6. holds'[node] = {Node}
  BY <1>1, <1>4, <1>5, PagesAssumption DEF Writes, Inv, FileInv, Pages, None
<1>7. FileInv'
  <2>1. free \cup {node} \subseteq 0 .. pageCount' - 1
    BY <1>5, PagesStay
  <2> QED BY <1>1, <1>5, <2>1 DEF FileInv
<1>8. NamesInv' /\ MarkInv'
  BY <1>1, <1>2 DEF Inv, NamesInv, MarkInv
<1>9. EpochInv' /\ FenceAgrees'
  BY <1>1, <1>2, <1>5 DEF Inv, FileInv, EpochInv, FenceAgrees, Fields
<1>10. CapturedTreeKept'
  BY <1>1, <1>5, <1>6 DEF CapturedTreeKept
<1> QED BY <1>7, <1>8, <1>9, <1>10 DEF Inv

\* Marking an object queues what it refers to.
LEMMA MarkKeeps == ASSUME Inv, NEW o \in Objects, Mark(o) PROVE Inv'
<1> DEFINE changed == [epoch EXCEPT !.marked = @ \cup {o},
                          !.queue = (@ \cup Children[o]) \ (epoch.marked \cup {o})]
<1>1. epoch.active /\ ~epoch.done /\ o \in epoch.queue /\ SaveEpoch(changed)
  BY DEF Mark, Marking
<1>2. /\ Carries(changed) /\ Gathers(changed) /\ changed.done = epoch.done
      /\ changed.marked = epoch.marked \cup {o}
      /\ changed.queue = (epoch.queue \cup Children[o]) \ (epoch.marked \cup {o})
  BY <1>1 DEF Inv, EpochInv, Carries, Gathers, Fields
<1>3. /\ changed.queue \subseteq Objects /\ changed.marked \subseteq Objects
      /\ epoch.roots \subseteq changed.marked \cup changed.queue
      /\ \A x \in changed.marked : Children[x] \subseteq changed.marked \cup changed.queue
  BY <1>1, <1>2, ChildrenAssumption DEF Inv, MarkInv
<1> HIDE DEF changed
<1> QED BY <1>1, <1>2, <1>3, SaveKeeps

\* The epoch may stop with all objects marked and the metadata not scanned.
LEMMA LeaveUnscannedKeeps == ASSUME Inv, LeaveUnscanned PROVE Inv'
<1> DEFINE changed == [epoch EXCEPT !.done = TRUE]
<1>1. epoch.active /\ epoch.queue = {} /\ SaveEpoch(changed)
  BY DEF LeaveUnscanned, Marking
<1>2. /\ Carries(changed) /\ Gathers(changed) /\ changed.done = TRUE
      /\ changed.marked = epoch.marked /\ changed.queue = epoch.queue
  BY <1>1 DEF Inv, EpochInv, Carries, Gathers, Fields
<1> HIDE DEF changed
<1>3. /\ changed.queue \subseteq Objects /\ changed.marked \subseteq Objects
      /\ epoch.roots \subseteq changed.marked \cup changed.queue
      /\ \A x \in changed.marked : Children[x] \subseteq changed.marked \cup changed.queue
      /\ changed.queue = {}
  BY <1>1, <1>2 DEF Inv, MarkInv
<1> QED BY <1>1, <1>2, <1>3, SaveKeeps

\* The candidates of the metadata scan lie below the high-water mark.
LEMMA ClassifyKeeps == ASSUME Inv, Classify PROVE Inv'
<1> DEFINE offered == Ordinary \cup Claimed \cup Fresh
           found == {p \in 0 .. epoch.hwm - 1 : holds[p] = {Node} /\ p # epoch.node} \ Claimed
           after == Advanced(Claimed).through
<1>1. PICK meta \in First(offered) :
         /\ Writes({}, None, meta)
         /\ free' = (free \ {meta}) \cup {node}
         /\ epoch' = [epoch EXCEPT !.scanned = TRUE, !.candidates = found, !.through = after]
  BY DEF Classify, Publish
<1>2. epoch.active /\ fence' = epoch.hwm /\ index' = index /\ tips' = tips
  BY DEF Classify, Marking
<1>3. offered \subseteq Ordinary \cup Captured \cup Fresh
  BY DEF Claimed
<1>4. found \subseteq 0 .. epoch.hwm - 1
  OBVIOUS
<1>5. Moves(offered)
  BY <1>1 DEF Moves
<1> HIDE DEF offered, found, after
<1>6. Carries(epoch') /\ Marks(epoch') /\ epoch'.candidates = found
      /\ epoch'.evidence = epoch.evidence
  BY <1>1, <1>2 DEF Inv, EpochInv, Carries, Marks, Fields
<1>7. MarkInv'
  BY <1>2, <1>6, MarksKept
<1>8. epoch'.candidates \subseteq 0 .. epoch.hwm - 1 /\ epoch'.evidence \subseteq 0 .. epoch.hwm - 1
  BY <1>2, <1>4, <1>6 DEF Inv, EpochInv
<1> QED BY <1>2, <1>3, <1>5, <1>6, <1>7, <1>8, PublishKeeps

\* The evidence of a completed epoch lies below its high-water mark.
LEMMA CompleteKeeps == ASSUME Inv, Complete PROVE Inv'
<1> DEFINE offered == Ordinary \cup Fresh
           found == Evidence
<1>1. PICK meta \in First(offered) :
         /\ Writes({}, None, meta)
         /\ free' = (free \ {meta}) \cup {node}
         /\ epoch' = [epoch EXCEPT !.done = TRUE, !.evidence = found, !.validated = TRUE]
  BY DEF Complete, Publish
<1>2. epoch.active /\ epoch.queue = {} /\ fence' = fence /\ index' = index /\ tips' = tips
  BY DEF Complete, Marking
<1>3. offered \subseteq Ordinary \cup Captured \cup Fresh
  OBVIOUS
<1>4. found \subseteq 0 .. epoch.hwm - 1
  <2> SUFFICES ASSUME NEW o \in Indexed, PreSnapshot(o) PROVE index[o] \in 0 .. epoch.hwm - 1
    BY DEF Evidence
  <2> QED BY <1>2, PagesAssumption DEF Indexed, PreSnapshot, Inv, NamesInv, EpochInv, Pages, None
<1>5. Moves(offered)
  BY <1>1 DEF Moves
<1> HIDE DEF offered, found
<1>6. Carries(epoch') /\ epoch'.marked = epoch.marked /\ epoch'.queue = epoch.queue
      /\ epoch'.candidates = epoch.candidates /\ epoch'.evidence = found
  BY <1>1, <1>2 DEF Inv, EpochInv, Carries, Fields
<1>7. MarkInv'
  BY <1>2, <1>6 DEF Inv, MarkInv, Carries
<1>8. epoch'.candidates \subseteq 0 .. epoch.hwm - 1 /\ epoch'.evidence \subseteq 0 .. epoch.hwm - 1
  BY <1>2, <1>4, <1>6 DEF Inv, EpochInv
<1> QED BY <1>2, <1>3, <1>5, <1>6, <1>7, <1>8, PublishKeeps

\* A collection relocates to pages it may write and frees pages of the file.
LEMMA CollectKeeps == ASSUME Inv, Collect PROVE Inv'
<1> DEFINE touched == {o \in Indexed : Segment(index[o]) \in Chosen}
           survivors == {o \in touched : RecordLive(o) /\ Segment(index[o]) # Segment(pageCount - 1)}
           dropped == {o \in touched : ~RecordLive(o)}
           offered == Ordinary \cup Captured \cup Fresh
           reclaimed == epoch.evidence \cup MetadataPages
<1>0. PICK slab \in Slabs(survivors, offered) : \E meta \in First(offered \ {slab}) :
         /\ Writes(survivors, slab, meta)
         /\ index' = [o \in Objects |-> IF o \in survivors THEN slab
                                        ELSE IF o \in dropped THEN None ELSE index[o]]
         /\ free' = (free \ {slab, meta}) \cup {node} \cup (reclaimed \ {slab, meta})
         /\ epoch' = Advanced({slab, meta})
  BY DEF Collect
<1>1. PICK meta \in First(offered \ {slab}) :
         /\ Writes(survivors, slab, meta)
         /\ index' = [o \in Objects |-> IF o \in survivors THEN slab
                                        ELSE IF o \in dropped THEN None ELSE index[o]]
         /\ free' = (free \ {slab, meta}) \cup {node} \cup (reclaimed \ {slab, meta})
         /\ epoch' = Advanced({slab, meta})
  BY <1>0
<1>2. epoch.active /\ fence' = fence /\ tips' = tips
  BY DEF Collect
<1>3. (slab = None \/ slab \in offered) /\ meta \in offered /\ slab # meta
  BY FirstOffered DEF Slabs
<1>4. (slab = None \/ Writable(slab)) /\ Writable(meta)
  BY <1>3, OfferedWritable
<1>5. reclaimed \subseteq 0 .. epoch.hwm - 1 /\ epoch.hwm \in Nat /\ epoch.hwm <= pageCount
  BY <1>2 DEF MetadataPages, Inv, EpochInv
<1> HIDE DEF touched, survivors, dropped, offered, reclaimed
<1>6. NamesInv'
  BY <1>1, <1>2, <1>4 DEF Inv, NamesInv, Writable, Pages, None
<1>7. Carries(epoch') /\ Marks(epoch') /\ Gathers(epoch')
  BY <1>1, <1>2, AdvancedCarries
<1>8. MarkInv'
  BY <1>2, <1>7, MarksKept
<1>9. free' \subseteq 0 .. pageCount' - 1 /\ meta \notin free'
  <2>1. pageCount' \in Nat /\ pageCount <= pageCount' /\ meta # node
    BY <1>1, <1>3, <1>4, WritesKeep
  <2>2. free \cup {node} \subseteq 0 .. pageCount' - 1
    BY <2>1, PagesStay
  <2>3. epoch.hwm <= pageCount'
    BY <1>5, <2>1 DEF Inv, FileInv
  <2>4. reclaimed \subseteq 0 .. pageCount' - 1
    BY <1>5, <2>1, <2>3, LongerRange
  <2> QED BY <1>1, <2>1, <2>2, <2>4
<1>10. epoch.active => /\ Carries(epoch')
                       /\ epoch'.candidates \subseteq 0 .. epoch.hwm - 1
                       /\ epoch'.evidence \subseteq 0 .. epoch.hwm - 1
  BY <1>7 DEF Inv, EpochInv, Gathers
<1>11. Writes(survivors, slab, meta) /\ (fence' = fence \/ (fence' = epoch.hwm /\ epoch.active))
  BY <1>1, <1>2
<1> QED BY <1>2, <1>3, <1>4, <1>6, <1>8, <1>9, <1>10, <1>11, Transaction

\* Clearing an epoch may write anywhere but on the current metadata.
LEMMA ClearKeeps == ASSUME Inv, Clear PROVE Inv'
<1>1. index' = index /\ tips' = tips
  BY DEF Clear
<1>2. CASE reader
  <2>1. UNCHANGED <<pageCount, free, holds, node, epoch, fence>>
    BY <1>2 DEF Clear
  <2> QED
    BY <1>1, <2>1 DEF Inv, FileInv, NamesInv, EpochInv, MarkInv, FenceAgrees, CapturedTreeKept
<1>3. CASE ~reader
  <2>1. PICK meta \in First(free \cup Fresh) :
           Writes({}, None, meta) /\ free' = (free \ {meta}) \cup {node} /\ epoch' = NoEpoch
    BY <1>3 DEF Clear, Publish
  <2>2. fence' = None
    BY <1>3 DEF Clear
  <2>3. meta \in free \cup Fresh
    BY FirstOffered
  <2>4. meta \in Pages /\ meta # node /\ meta # None
    BY <2>3, PagesAssumption DEF Inv, FileInv, Fresh, Pages, None
  <2>5. /\ pageCount' \in Nat /\ pageCount <= pageCount' /\ pageCount' <= MaxPages
        /\ meta \in 0 .. pageCount' - 1
    BY <2>1, <2>4, WritesLength DEF Inv
  <2>6. node' = meta /\ holds'[meta] = {Node}
    BY <2>1, <2>4 DEF Writes
  <2>7. FileInv'
    <3>1. free \cup {node} \subseteq 0 .. pageCount' - 1
      BY <2>5, PagesStay
    <3>2. free' \subseteq 0 .. pageCount' - 1 /\ meta \notin free'
      BY <2>1, <2>4, <3>1
    <3> QED BY <2>5, <2>6, <3>2 DEF FileInv
  <2>8. NamesInv' /\ EpochInv' /\ MarkInv' /\ FenceAgrees' /\ CapturedTreeKept'
    BY <1>1, <2>1, <2>2 DEF Inv, NamesInv, EpochInv, MarkInv, FenceAgrees, CapturedTreeKept, NoEpoch
  <2> QED BY <2>7, <2>8 DEF Inv
<1> QED BY <1>2, <1>3

\* Every step preserves the invariant.
LEMMA StepInv == Inv /\ [Next]_vars => Inv'
<1> SUFFICES ASSUME Inv, [Next]_vars PROVE Inv'
  OBVIOUS
<1>1. ASSUME NEW roots \in SUBSET Roots, Commit(roots) PROVE Inv'
  <2>1. tips' \subseteq Objects /\ Put(Reach(roots) \ Live)
    BY <1>1, RootsAssumption DEF Commit
  <2> QED BY <2>1, PutKeeps
<1>2. ASSUME NEW roots \in SUBSET Roots, Abandon(roots) PROVE Inv'
  <2>1. tips' \subseteq Objects /\ Put(Reach(roots) \ Live)
    BY <1>2 DEF Abandon, Inv, NamesInv
  <2> QED BY <2>1, PutKeeps
<1>3. ASSUME UNCHANGED <<pageCount, free, holds, node, index, tips, epoch, fence>> PROVE Inv'
  BY <1>3 DEF Inv, FileInv, NamesInv, EpochInv, MarkInv, FenceAgrees, CapturedTreeKept
<1>4. ASSUME Mismatch \/ NothingToCollect \/ OpenReader \/ CloseReader \/ UNCHANGED vars PROVE Inv'
  BY <1>3, <1>4 DEF Mismatch, NothingToCollect, OpenReader, CloseReader, vars
<1>5. ASSUME Reopen PROVE Inv'
  <2>1. UNCHANGED <<pageCount, free, holds, node, index, tips, epoch>> /\ fence' = fence
    BY <1>5 DEF Reopen, Inv, FenceAgrees
  <2> QED BY <1>3, <2>1
<1> QED
  BY <1>1, <1>2, <1>4, <1>5, BeginEpochKeeps, MarkKeeps, LeaveUnscannedKeeps, ClassifyKeeps,
     CompleteKeeps, CollectKeeps, ClearKeeps
  DEF Next, Maintain

\* The invariant of reclamation holds throughout.
THEOREM Invariance == Spec => []Inv
BY InitInv, StepInv, PTL DEF Spec

\* Every foreground transaction finds the fence its epoch asks for.
THEOREM FencesAgree == Spec => []FenceAgrees
<1>1. Inv => FenceAgrees
  BY DEF Inv
<1> QED BY <1>1, Invariance, PTL

\* No transaction writes over the metadata an epoch captured.
THEOREM CapturedTreesKept == Spec => []CapturedTreeKept
<1>1. Inv => CapturedTreeKept
  BY DEF Inv
<1> QED BY <1>1, Invariance, PTL

LEMMA MarkedAll == ASSUME Inv PROVE SnapshotMarked
<1> SUFFICES ASSUME epoch.active, epoch.done, NEW o \in Reach(epoch.roots)
             PROVE  o \in epoch.marked
  BY DEF SnapshotMarked
<1>1. /\ epoch.marked \in SUBSET Objects /\ epoch.roots \subseteq epoch.marked
      /\ \A x \in epoch.marked : Children[x] \subseteq epoch.marked
  BY DEF Inv, MarkInv
<1> QED BY <1>1 DEF Reach

\* A marking that is done has marked all its snapshot reaches: the marked objects contain
\* the roots and, with an empty queue, all that their members refer to.
THEOREM SnapshotsMarked == Spec => []SnapshotMarked
<1>1. Inv => SnapshotMarked
  BY MarkedAll
<1> QED BY <1>1, Invariance, PTL

------------------------------------------------------------------------------
\* While a reader stays, allocation extends the file.
LEMMA PutSparesReader == ASSUME Inv, reader, NEW objs, Put(objs)
    PROVE \A p \in Pages : p < pageCount => holds'[p] = holds[p]
<1> DEFINE fresh == objs \ Indexed
           offered == Ordinary \cup Captured \cup Fresh
<1>1. PICK slab \in Slabs(fresh, offered) : \E meta \in First(offered \ {slab}) :
         Writes(fresh, slab, meta)
  BY DEF Put
<1>2. PICK meta \in First(offered \ {slab}) : Writes(fresh, slab, meta)
  BY <1>1
<1>3. (slab = None \/ slab \in offered) /\ meta \in offered /\ slab # meta
  BY FirstOffered DEF Slabs
<1>4. (slab = None \/ Writable(slab)) /\ Writable(meta)
  BY <1>3, OfferedWritable
<1> HIDE DEF fresh, offered
<1> QED BY <1>2, <1>3, <1>4, WritesKeep

\* The same of a maintenance transaction.
LEMMA MovesSpareReader ==
    ASSUME Inv, reader, NEW offered, offered \subseteq Ordinary \cup Captured \cup Fresh,
           Moves(offered)
    PROVE  \A p \in Pages : p < pageCount => holds'[p] = holds[p]
<1>1. PICK meta \in First(offered) : Writes({}, None, meta)
  BY DEF Moves
<1>2. Writable(meta)
  BY FirstOffered, OfferedWritable
<1>3. None # meta
  BY <1>2, PagesAssumption DEF Writable, Pages, None
<1> QED BY <1>1, <1>2, <1>3, WritesKeep

\* No page of the file is written again while a reader holds the reclamation lease.
THEOREM ReadersPagesKept == Spec => ReaderPagesKept
<1> DEFINE Kept == \A p \in Pages : p < pageCount => holds'[p] = holds[p]
<1>1. Inv /\ [Next]_vars => [reader /\ reader' => Kept]_vars
  <2> SUFFICES ASSUME Inv, reader, Next PROVE Kept
    OBVIOUS
  <2> DEFINE all == Ordinary \cup Captured \cup Fresh
  <2>1. ASSUME NEW objs, Put(objs) PROVE Kept
    BY <2>1, PutSparesReader
  <2>2. ASSUME NEW offered, offered \subseteq all, Moves(offered) PROVE Kept
    BY <2>2, MovesSpareReader
  <2>3. ASSUME NEW roots \in SUBSET Roots, Commit(roots) \/ Abandon(roots) PROVE Kept
    BY <2>1, <2>3 DEF Commit, Abandon
  <2>4. ASSUME NEW changed, SaveEpoch(changed) PROVE Kept
    <3>1. Moves(all)
      BY <2>4 DEF SaveEpoch, Publish, Moves
    <3> QED BY <2>2, <3>1
  <2>5. ASSUME NEW o \in Objects, Mark(o) PROVE Kept
    BY <2>4, <2>5 DEF Mark
  <2>6. ASSUME LeaveUnscanned PROVE Kept
    BY <2>4, <2>6 DEF LeaveUnscanned
  <2>7. ASSUME BeginEpoch PROVE Kept
    <3>1. Moves(Fresh)
      BY <2>7 DEF BeginEpoch, Publish, Moves
    <3> QED BY <2>2, <3>1
  <2>8. ASSUME Classify PROVE Kept
    <3>1. Moves(Ordinary \cup Claimed \cup Fresh)
      BY <2>8 DEF Classify, Publish, Moves
    <3>2. Ordinary \cup Claimed \cup Fresh \subseteq all
      BY DEF Claimed
    <3> QED BY <2>2, <3>1, <3>2
  <2>9. ASSUME Complete PROVE Kept
    <3>1. Moves(Ordinary \cup Fresh)
      BY <2>9 DEF Complete, Publish, Moves
    <3> QED BY <2>2, <3>1
  <2>10. ASSUME holds' = holds PROVE Kept
    BY <2>10
  <2>11. ASSUME \/ Mismatch \/ NothingToCollect \/ Collect \/ Clear
                \/ OpenReader \/ CloseReader \/ Reopen
         PROVE  Kept
    BY <2>10, <2>11 DEF Mismatch, NothingToCollect, Collect, Clear, OpenReader, CloseReader, Reopen
  <2> HIDE DEF Kept
  <2> QED BY <2>3, <2>5, <2>6, <2>7, <2>8, <2>9, <2>11 DEF Next, Maintain
<1> QED BY <1>1, Invariance, PTL DEF Spec, ReaderPagesKept
------------------------------------------------------------------------------
(* ---- live objects ---- *)

\* The cursor over the captured free pages.
CursorInv == epoch.active => epoch.through \in Nat /\ epoch.captured \subseteq Pages

\* An index entry names a page of the file that is in use and holds the object.
RecordsInv == \A o \in Objects : index[o] # None => index[o] \in 0 .. pageCount - 1 /\ Stored(o)

\* What is live is in the snapshot of the epoch, or on a page the epoch does not judge.
Spared(o) == o \in Reach(epoch.roots) \/ index[o] >= epoch.hwm \/ index[o] \in Consumed
LiveInv ==
    /\ Live \subseteq Indexed
    /\ epoch.active => \A o \in Live : Spared(o)

KeptInv == CursorInv /\ (strays = {} => RecordsInv /\ LiveInv)

\* The cursor only moves on, past every captured page a transaction takes.
LEMMA AdvancedThrough ==
    ASSUME Inv, CursorInv, epoch.active, NEW taken
    PROVE  /\ Advanced(taken).through \in Nat /\ epoch.through <= Advanced(taken).through
           /\ \A p \in taken \cap epoch.captured : p < Advanced(taken).through
<1>0. epoch.through \in Nat /\ epoch.captured \subseteq Pages /\ DOMAIN epoch = Fields
  BY DEF CursorInv, Inv, EpochInv
<1>1. CASE taken \cap epoch.captured = {}
  BY <1>0, <1>1 DEF Advanced
<1>2. CASE taken \cap epoch.captured # {}
  <2>1. PICK S : S = {epoch.through} \cup {p + 1 : p \in taken \cap epoch.captured}
    OBVIOUS
  <2>2. Advanced(taken).through = Max(S)
    BY <1>0, <1>2, <2>1 DEF Advanced, Fields
  <2>3. \A p \in taken \cap epoch.captured : p \in Nat /\ p + 1 <= MaxPages /\ p + 1 \in S
    BY <1>0, <2>1, PagesAssumption DEF Pages
  <2>4. S \in SUBSET Nat /\ S # {} /\ epoch.through \in S
    BY <1>0, <2>1, <2>3
  <2>5. S \in SUBSET Int /\ epoch.through + MaxPages \in Int
    BY <1>0, <2>4, PagesAssumption
  <2>6. \A x \in S : x <= epoch.through + MaxPages
    BY <1>0, <2>1, <2>3, PagesAssumption
  <2>7. Max(S) \in S /\ \A x \in S : x <= Max(S)
    BY <2>4, <2>5, <2>6, GreatestBelow
  <2>8. PICK m \in Nat : m = Max(S)
    BY <2>4, <2>7
  <2>9. \A p \in taken \cap epoch.captured : p < m
    BY <2>3, <2>7, <2>8
  <2> QED BY <2>2, <2>4, <2>7, <2>8, <2>9
<1> QED BY <1>1, <1>2

\* A page the allocator gives out during an epoch is beyond its capture, or consumed by it.
LEMMA OfferedBeyond ==
    ASSUME Inv, epoch.active, NEW p \in Ordinary \cup Captured \cup Fresh
    PROVE  p >= epoch.hwm \/ p \in epoch.captured
<1>1. fence = epoch.hwm /\ epoch.hwm \in Nat /\ epoch.hwm <= pageCount /\ pageCount \in Nat
  BY DEF Inv, FenceAgrees, EpochInv, FileInv
<1>2. CASE p \in Ordinary
  BY <1>1, <1>2 DEF Ordinary, None
<1>3. CASE p \in Captured
  BY <1>3 DEF Captured
<1>4. CASE p \in Fresh
  BY <1>1, <1>4, PagesAssumption DEF Fresh
<1> QED BY <1>2, <1>3, <1>4

\* Whatever is offered is free or beyond the file.
LEMMA OfferedUnused ==
    ASSUME NEW p \in Ordinary \cup Captured \cup Fresh
    PROVE  p \in free \cup Fresh
BY DEF Ordinary, Captured

LEMMA UnusedPages == ASSUME Inv PROVE free \cup Fresh \subseteq Pages /\ None \notin free \cup Fresh
<1>1. pageCount \in Nat /\ pageCount <= MaxPages /\ MaxPages \in Nat
      /\ free \subseteq 0 .. pageCount - 1
  BY PagesAssumption DEF Inv, FileInv
<1>2. Fresh \subseteq Pages
  BY <1>1 DEF Fresh, Pages
<1>3. 0 .. pageCount - 1 \subseteq Pages
  BY <1>1 DEF Pages
<1>4. None \notin Pages
  BY <1>1 DEF None, Pages
<1> QED BY <1>1, <1>2, <1>3, <1>4

\* No page of the index is free, beyond the file, or of the current metadata.
LEMMA RecordPages ==
    ASSUME Inv, RecordsInv, NEW o \in Objects, index[o] # None
    PROVE  /\ index[o] \in Pages /\ index[o] # node /\ index[o] \notin free \cup Fresh
           /\ o \in holds[index[o]]
<1>1. index[o] \in 0 .. pageCount - 1 /\ index[o] \notin free /\ o \in holds[index[o]]
  BY DEF RecordsInv, Stored
<1>2. pageCount \in Nat /\ pageCount <= MaxPages /\ MaxPages \in Nat /\ holds[node] = {Node}
  BY PagesAssumption DEF Inv, FileInv
<1>3. index[o] \in Pages /\ index[o] \notin Fresh
  BY <1>1, <1>2 DEF Pages, Fresh
<1>4. index[o] # node
  BY <1>1, <1>2, NodeAssumption
<1> QED BY <1>1, <1>3, <1>4

\* A transaction that writes on unused pages keeps the records it does not move.
LEMMA RecordStays ==
    ASSUME Inv, RecordsInv, NEW objs, NEW slab, NEW meta, Writes(objs, slab, meta),
           slab = None \/ slab \in free \cup Fresh, meta \in free \cup Fresh,
           NEW o \in Objects, index[o] # None, index'[o] = index[o], index[o] \notin free'
    PROVE  index'[o] \in 0 .. pageCount' - 1 /\ Stored(o)'
<1>1. /\ index[o] \in Pages /\ index[o] # node /\ index[o] \notin free \cup Fresh
      /\ o \in holds[index[o]] /\ index[o] \in 0 .. pageCount - 1
  BY RecordPages DEF RecordsInv
<1>2. meta \in Pages /\ (slab = None \/ slab \in Pages) /\ pageCount \in Nat
  BY UnusedPages DEF Inv, FileInv
<1>3. pageCount' \in Nat /\ pageCount <= pageCount'
  BY <1>2, WritesLength DEF Inv
<1>4. index[o] \in 0 .. pageCount' - 1
  BY <1>1, <1>2, <1>3
<1>5. holds'[index[o]] = holds[index[o]]
  <2>1. index[o] # meta /\ index[o] # slab
    BY <1>1
  <2> QED BY <1>1, <2>1 DEF Writes
<1> QED BY <1>1, <1>4, <1>5 DEF Stored

\* What an epoch spares stays spared while the cursor moves on and its record stays.
LEMMA SparedStays ==
    ASSUME Inv, CursorInv, epoch.active, epoch'.active, epoch'.hwm = epoch.hwm,
           epoch'.roots = epoch.roots, epoch'.captured = epoch.captured,
           epoch'.through \in Nat, epoch.through <= epoch'.through,
           NEW o \in Objects, index'[o] = index[o], Spared(o)
    PROVE  Spared(o)'
<1>1. epoch.through \in Nat /\ epoch.captured \subseteq Pages /\ Pages \subseteq Int
  BY DEF CursorInv, Pages
<1>2. Consumed \subseteq Consumed'
  <2> SUFFICES ASSUME NEW p \in epoch.captured, p < epoch.through PROVE p < epoch'.through
    BY DEF Consumed
  <2>1. p \in Int
    BY <1>1
  <2> QED BY <1>1, <2>1
<1> QED BY <1>2 DEF Spared, Reach

\* A transaction that writes no object keeps all records.
LEMMA MovesKeep ==
    ASSUME Inv, KeptInv, NEW meta \in free \cup Fresh, Writes({}, None, meta),
           free' = (free \ {meta}) \cup {node}, UNCHANGED <<index, tips, strays>>, CursorInv',
           strays = {} /\ epoch'.active => \A o \in Live : Spared(o)'
    PROVE  KeptInv'
<1> SUFFICES ASSUME strays = {} PROVE RecordsInv' /\ LiveInv'
  BY DEF KeptInv
<1>1. RecordsInv /\ LiveInv
  BY DEF KeptInv
<1>2. ASSUME NEW o \in Objects, index[o] # None
      PROVE  index'[o] \in 0 .. pageCount' - 1 /\ Stored(o)'
  <2>1. index[o] \notin free' /\ index'[o] = index[o]
    BY <1>1, <1>2, RecordPages
  <2> QED BY <1>1, <1>2, <2>1, RecordStays
<1>3. RecordsInv'
  BY <1>2 DEF RecordsInv
<1>4. Live' = Live /\ Indexed' = Indexed
  BY DEF Live, Reach, Indexed
<1> QED BY <1>1, <1>3, <1>4 DEF LiveInv

\* What a step of the marking carries over.
LEMMA CarriedSpared ==
    ASSUME Inv, KeptInv, epoch.active, Carries(epoch'), epoch'.through \in Nat,
           epoch.through <= epoch'.through, index' = index, strays = {}
    PROVE  CursorInv' /\ \A o \in Live : Spared(o)'
<1>1. CursorInv /\ LiveInv
  BY DEF KeptInv
<1>2. \A o \in Live : o \in Objects /\ Spared(o)
  BY <1>1 DEF LiveInv, Live, Reach
<1>3. /\ epoch'.active /\ epoch'.hwm = epoch.hwm /\ epoch'.roots = epoch.roots
      /\ epoch'.captured = epoch.captured
  BY DEF Carries
<1>4. CursorInv'
  BY <1>1, <1>3 DEF CursorInv
<1> QED BY <1>1, <1>2, <1>3, <1>4, SparedStays

LEMMA EpochStepKept ==
    ASSUME Inv, KeptInv, epoch.active, NEW offered,
           offered \subseteq Ordinary \cup Captured \cup Fresh, Moves(offered),
           Carries(epoch'), epoch'.through \in Nat, epoch.through <= epoch'.through,
           UNCHANGED <<index, tips, strays>>
    PROVE  KeptInv'
<1>1. PICK meta \in First(offered) : Writes({}, None, meta) /\ free' = (free \ {meta}) \cup {node}
  BY DEF Moves
<1>2. meta \in free \cup Fresh
  BY FirstOffered, OfferedUnused
<1>3. CursorInv'
  BY DEF KeptInv, CursorInv, Carries
<1>4. strays = {} => \A o \in Live : Spared(o)'
  BY CarriedSpared
<1> QED BY <1>1, <1>2, <1>3, <1>4, MovesKeep

LEMMA SaveKept ==
    ASSUME Inv, KeptInv, epoch.active, NEW changed, SaveEpoch(changed), Carries(changed)
    PROVE  KeptInv'
<1>1. PICK meta \in First(Ordinary \cup Captured \cup Fresh) :
         /\ Writes({}, None, meta)
         /\ free' = (free \ {meta}) \cup {node}
         /\ epoch' = [changed EXCEPT !.through = Advanced({meta}).through]
  BY DEF SaveEpoch, Publish
<1>2. UNCHANGED <<index, tips, strays>> /\ CursorInv
  BY DEF SaveEpoch, KeptInv
<1>3. Carries(epoch') /\ epoch'.through = Advanced({meta}).through
  BY <1>1 DEF Carries, Fields
<1>4. epoch'.through \in Nat /\ epoch.through <= epoch'.through
  BY <1>2, <1>3, AdvancedThrough
<1> QED BY <1>1, <1>2, <1>3, <1>4, EpochStepKept DEF Moves

LEMMA MarkingKept ==
    ASSUME Inv, KeptInv, Classify \/ LeaveUnscanned \/ Complete \/ \E o \in Objects : Mark(o)
    PROVE  KeptInv'
<1>0. epoch.active /\ DOMAIN epoch = Fields /\ epoch.active = TRUE /\ CursorInv
  BY DEF Classify, LeaveUnscanned, Complete, Mark, Marking, Inv, EpochInv, KeptInv
<1>1. CASE Classify
  <2> DEFINE found == {p \in 0 .. epoch.hwm - 1 : holds[p] = {Node} /\ p # epoch.node} \ Claimed
  <2>1. /\ Moves(Ordinary \cup Claimed \cup Fresh) /\ UNCHANGED <<index, tips, strays>>
        /\ epoch' = [epoch EXCEPT !.scanned = TRUE, !.candidates = found,
                                  !.through = Advanced(Claimed).through]
    BY <1>1 DEF Classify, Publish, Moves
  <2>2. Ordinary \cup Claimed \cup Fresh \subseteq Ordinary \cup Captured \cup Fresh
    BY DEF Claimed
  <2> HIDE DEF found
  <2>3. Carries(epoch') /\ epoch'.through = Advanced(Claimed).through
    BY <1>0, <2>1 DEF Carries, Fields
  <2>4. epoch'.through \in Nat /\ epoch.through <= epoch'.through
    BY <1>0, <2>3, AdvancedThrough
  <2> QED BY <1>0, <2>1, <2>2, <2>3, <2>4, EpochStepKept
<1>2. CASE LeaveUnscanned
  <2>1. PICK changed : changed = [epoch EXCEPT !.done = TRUE] /\ SaveEpoch(changed)
    BY <1>2 DEF LeaveUnscanned
  <2>2. Carries(changed)
    BY <1>0, <2>1 DEF Carries, Fields
  <2> QED BY <1>0, <2>1, <2>2, SaveKept
<1>3. CASE Complete
  <2>1. /\ Moves(Ordinary \cup Fresh) /\ UNCHANGED <<index, tips, strays>>
        /\ \E found : epoch' = [epoch EXCEPT !.done = TRUE, !.evidence = found, !.validated = TRUE]
    BY <1>3 DEF Complete, Publish, Moves
  <2>2. Carries(epoch') /\ epoch'.through = epoch.through
    BY <1>0, <2>1 DEF Carries, Fields
  <2>3. epoch'.through \in Nat /\ epoch.through <= epoch'.through
    BY <1>0, <2>2 DEF CursorInv
  <2> QED BY <1>0, <2>1, <2>2, <2>3, EpochStepKept
<1>4. ASSUME NEW o \in Objects, Mark(o) PROVE KeptInv'
  <2>1. PICK changed :
          /\ changed = [epoch EXCEPT !.marked = @ \cup {o},
                           !.queue = (@ \cup Children[o]) \ (epoch.marked \cup {o})]
          /\ SaveEpoch(changed)
    BY <1>4 DEF Mark
  <2>2. Carries(changed)
    BY <1>0, <2>1 DEF Carries, Fields
  <2> QED BY <1>0, <2>1, <2>2, SaveKept
<1> QED BY <1>1, <1>2, <1>3, <1>4

\* The snapshot of an epoch that begins has all that is live.
LEMMA BeginKept ==
    ASSUME Inv, KeptInv, BeginEpoch
    PROVE  KeptInv'
<1>1. PICK meta \in First(Fresh) : Writes({}, None, meta) /\ free' = (free \ {meta}) \cup {node}
  BY DEF BeginEpoch, Publish
<1>2. meta \in free \cup Fresh
  BY FirstOffered
<1>3. /\ epoch'.roots = tips /\ epoch'.captured = free /\ epoch'.through = 0
      /\ UNCHANGED <<index, tips, strays>>
  BY DEF BeginEpoch
<1>4. CursorInv'
  BY <1>3, UnusedPages DEF CursorInv
<1>5. \A o \in Live : Spared(o)'
  BY <1>3 DEF Live, Spared, Reach
<1> QED BY <1>1, <1>2, <1>3, <1>4, <1>5, MovesKeep

LEMMA ClearKept ==
    ASSUME Inv, KeptInv, Clear
    PROVE  KeptInv'
<1>1. UNCHANGED <<index, tips, strays>>
  BY DEF Clear
<1>2. CASE reader
  <2>1. UNCHANGED <<pageCount, free, holds, epoch>>
    BY <1>2 DEF Clear
  <2> QED BY <1>1, <2>1 DEF KeptInv, CursorInv, RecordsInv, LiveInv, Stored, Live, Reach, Indexed,
                            Spared, Consumed
<1>3. CASE ~reader
  <2>1. PICK meta \in First(free \cup Fresh) :
           Writes({}, None, meta) /\ free' = (free \ {meta}) \cup {node} /\ epoch' = NoEpoch
    BY <1>3 DEF Clear, Publish
  <2>2. ~epoch'.active /\ meta \in free \cup Fresh
    BY <2>1, FirstOffered DEF NoEpoch
  <2> QED BY <1>1, <2>1, <2>2, MovesKeep DEF CursorInv
<1> QED BY <1>2, <1>3

\* What a transaction writes during an epoch is spared by it.
LEMMA PlacedSpared ==
    ASSUME Inv, CursorInv, epoch.active, NEW slab \in Ordinary \cup Captured \cup Fresh, NEW taken,
           slab \in taken, epoch' = Advanced(taken), NEW o, index'[o] = slab
    PROVE  Spared(o)'
<1>1. Carries(epoch')
  BY AdvancedCarries
<1>2. epoch'.active /\ epoch'.hwm = epoch.hwm /\ epoch'.captured = epoch.captured
  BY <1>1 DEF Carries
<1>3. slab >= epoch.hwm \/ slab \in epoch.captured
  BY OfferedBeyond
<1>4. slab \in epoch.captured => slab < epoch'.through
  BY AdvancedThrough
<1> QED BY <1>2, <1>3, <1>4 DEF Spared, Consumed

\* The records a transaction writes are stored.
LEMMA RecordPlaced ==
    ASSUME Inv, NEW objs, NEW slab \in Pages, NEW meta \in Pages, slab # meta,
           Writes(objs, slab, meta), slab \notin free', NEW o \in objs, index'[o] = slab
    PROVE  index'[o] # None /\ index'[o] \in 0 .. pageCount' - 1 /\ Stored(o)'
<1>1. slab # None
  BY PagesAssumption DEF Pages, None
<1>2. slab \in 0 .. pageCount' - 1
  BY <1>1, WritesLength DEF Inv
<1>3. holds'[slab] = objs
  BY DEF Writes
<1> QED BY <1>1, <1>2, <1>3 DEF Stored

\* A foreground transaction stores what it makes live, where the epoch spares it.
LEMMA PutKept ==
    ASSUME Inv, KeptInv, ~Repeats, NEW objs \in SUBSET Objects, Put(objs), Live' \subseteq Live \cup objs
    PROVE  KeptInv'
<1> DEFINE fresh == objs \ Indexed
           offered == Ordinary \cup Captured \cup Fresh
<1>0. PICK slab \in Slabs(fresh, offered) : \E meta \in First(offered \ {slab}) :
         /\ Writes(fresh, slab, meta)
         /\ index' = [o \in Objects |-> IF o \in fresh THEN slab ELSE index[o]]
         /\ free' = (free \ {slab, meta}) \cup {node}
         /\ epoch' = Advanced({slab, meta})
  BY DEF Put
<1>1. PICK meta \in First(offered \ {slab}) :
         /\ Writes(fresh, slab, meta)
         /\ index' = [o \in Objects |-> IF o \in fresh THEN slab ELSE index[o]]
         /\ free' = (free \ {slab, meta}) \cup {node}
         /\ epoch' = Advanced({slab, meta})
  BY <1>0
<1>2. Unprotected(objs) = {} /\ strays' = strays
  BY DEF Put
<1>3. /\ slab = None \/ slab \in offered
      /\ fresh # {} => slab \in offered
      /\ meta \in offered /\ slab # meta
  BY FirstOffered DEF Slabs
<1>4. fresh \subseteq objs /\ \A o \in fresh : index[o] = None
  BY DEF Indexed
<1>5. \A o \in objs : o \notin fresh => index[o] # None
  BY DEF Indexed
<1>6. offered \subseteq free \cup Fresh
  BY OfferedUnused
<1>7. \A p \in offered : p \in Pages /\ p # node
  BY OfferedWritable DEF Writable
<1>8. offered = Ordinary \cup Captured \cup Fresh
  OBVIOUS
<1> HIDE DEF fresh, offered
<1>9. CursorInv /\ CursorInv' /\ (epoch'.active => epoch.active)
  <2>1. CursorInv
    BY DEF KeptInv
  <2>2. CASE epoch.active
    <3>1. Carries(epoch') /\ epoch'.through \in Nat
      BY <1>1, <2>1, <2>2, AdvancedCarries, AdvancedThrough
    <3> QED BY <2>1, <2>2, <3>1 DEF CursorInv, Carries
  <2>3. CASE ~epoch.active
    BY <1>1, <2>1, <2>3, AdvancedCarries DEF CursorInv
  <2> QED BY <2>2, <2>3
<1> SUFFICES ASSUME strays = {} PROVE RecordsInv' /\ LiveInv'
  BY <1>2, <1>9 DEF KeptInv
<1>10. RecordsInv /\ LiveInv
  BY DEF KeptInv
<1>11. ASSUME NEW o \in Objects, index'[o] # None
       PROVE  index'[o] \in 0 .. pageCount' - 1 /\ Stored(o)'
  <2>1. CASE o \in fresh
    <3>1. slab \in Pages /\ meta \in Pages /\ slab \notin free' /\ index'[o] = slab
      BY <1>1, <1>3, <1>7, <2>1
    <3> QED BY <1>1, <1>3, <2>1, <3>1, RecordPlaced
  <2>2. CASE o \notin fresh
    <3>1. index'[o] = index[o] /\ index[o] # None
      BY <1>1, <1>11, <2>2
    <3>2. index[o] \notin free'
      BY <1>1, <1>10, <3>1, RecordPages
    <3>3. (slab = None \/ slab \in free \cup Fresh) /\ meta \in free \cup Fresh
      BY <1>3, <1>6
    <3> QED BY <1>1, <1>10, <3>1, <3>2, <3>3, RecordStays
  <2> QED BY <2>1, <2>2
<1>12. RecordsInv'
  BY <1>11 DEF RecordsInv
<1>13. Live \subseteq Objects
  BY DEF Live, Reach
<1>14. Live' \subseteq Indexed'
  <2> SUFFICES ASSUME NEW o \in Live' PROVE o \in Objects /\ index'[o] # None
    BY DEF Indexed
  <2>1. o \in Objects
    BY <1>13
  <2>2. CASE o \in fresh
    BY <1>1, <1>3, <1>6, <2>1, <2>2, UnusedPages
  <2>3. CASE o \notin fresh
    <3>1. index[o] # None
      BY <1>5, <1>10, <2>3 DEF LiveInv, Indexed
    <3> QED BY <1>1, <2>1, <2>3, <3>1
  <2> QED BY <2>1, <2>2, <2>3
<1>15. ASSUME epoch.active, NEW o \in Live' PROVE Spared(o)'
  <2>0. o \in Objects
    BY <1>13
  <2>1. CASE o \in fresh
    <3>1. index'[o] = slab /\ slab \in Ordinary \cup Captured \cup Fresh /\ slab \in {slab, meta}
      BY <1>1, <1>3, <1>8, <2>0, <2>1
    <3> QED BY <1>1, <1>9, <1>15, <3>1, PlacedSpared
  <2>2. CASE o \notin fresh
    <3>1. Spared(o)
      <4>1. CASE o \in Live
        BY <1>10, <1>15, <4>1 DEF LiveInv
      <4>2. CASE o \in objs
        <5>1. index[o] \in Int /\ index[o] # None /\ epoch.hwm \in Int
          BY <1>5, <1>10, <1>15, <2>0, <2>2, <4>2, RecordPages DEF Pages, Inv, EpochInv
        <5> QED BY <1>2, <1>15, <4>2, <5>1 DEF Unprotected, Spared
      <4> QED BY <4>1, <4>2
    <3>2. Carries(epoch') /\ epoch'.through \in Nat /\ epoch.through <= epoch'.through
      BY <1>1, <1>9, <1>15, AdvancedCarries, AdvancedThrough
    <3>3. index'[o] = index[o]
      BY <1>1, <2>0, <2>2
    <3> QED BY <1>9, <1>15, <2>0, <3>1, <3>2, <3>3, SparedStays DEF Carries
  <2> QED BY <2>1, <2>2
<1> QED BY <1>9, <1>12, <1>14, <1>15 DEF LiveInv

\* A collection drops nothing live: what is live is marked, or spared where it is.
LEMMA CollectKept ==
    ASSUME Inv, KeptInv, Collect
    PROVE  KeptInv'
<1> DEFINE touched == {o \in Indexed : Segment(index[o]) \in Chosen}
           survivors == {o \in touched : RecordLive(o) /\ Segment(index[o]) # Segment(pageCount - 1)}
           dropped == {o \in touched : ~RecordLive(o)}
           offered == Ordinary \cup Captured \cup Fresh
<1>0. PICK slab \in Slabs(survivors, offered) : \E meta \in First(offered \ {slab}) :
         /\ Writes(survivors, slab, meta)
         /\ index' = [o \in Objects |-> IF o \in survivors THEN slab
                                        ELSE IF o \in dropped THEN None ELSE index[o]]
         /\ epoch' = Advanced({slab, meta})
  BY DEF Collect
<1>1. PICK meta \in First(offered \ {slab}) :
         /\ Writes(survivors, slab, meta)
         /\ index' = [o \in Objects |-> IF o \in survivors THEN slab
                                        ELSE IF o \in dropped THEN None ELSE index[o]]
         /\ epoch' = Advanced({slab, meta})
  BY <1>0
<1>2. /\ epoch.active /\ epoch.done /\ tips' = tips
      /\ strays' = strays \cup {o \in Objects : index'[o] # None /\ index'[o] \in free'}
  BY DEF Collect
<1>3. /\ slab = None \/ slab \in offered
      /\ survivors # {} => slab \in offered
      /\ meta \in offered /\ slab # meta
  BY FirstOffered DEF Slabs
<1>4. survivors \subseteq Objects /\ \A o \in dropped : ~RecordLive(o)
  BY DEF Indexed
<1>6. offered \subseteq free \cup Fresh
  BY OfferedUnused
<1>7. \A p \in offered : p \in Pages
  BY OfferedWritable DEF Writable
<1>8. offered = Ordinary \cup Captured \cup Fresh
  OBVIOUS
<1> HIDE DEF touched, survivors, dropped, offered
<1>9. /\ CursorInv /\ Carries(epoch')
      /\ epoch'.through \in Nat /\ epoch.through <= epoch'.through
  BY <1>1, <1>2, AdvancedCarries, AdvancedThrough DEF KeptInv
<1>10. CursorInv'
  BY <1>2, <1>9 DEF CursorInv, Carries
<1> SUFFICES ASSUME strays' = {} PROVE RecordsInv' /\ LiveInv'
  BY <1>10 DEF KeptInv
<1>11. /\ RecordsInv /\ LiveInv
       /\ \A o \in Objects : index'[o] # None => index'[o] \notin free'
  BY <1>2 DEF KeptInv
<1>12. ASSUME NEW o \in Objects, index'[o] # None
       PROVE  index'[o] \in 0 .. pageCount' - 1 /\ Stored(o)'
  <2>1. CASE o \in survivors
    <3>1. slab \in Pages /\ meta \in Pages /\ index'[o] = slab
      BY <1>1, <1>3, <1>7, <2>1
    <3>2. slab \notin free'
      BY <1>11, <1>12, <3>1
    <3> QED BY <1>1, <1>3, <2>1, <3>1, <3>2, RecordPlaced
  <2>2. CASE o \notin survivors
    <3>1. index'[o] = index[o] /\ index[o] # None /\ index[o] \notin free'
      BY <1>1, <1>11, <1>12, <2>2
    <3>2. (slab = None \/ slab \in free \cup Fresh) /\ meta \in free \cup Fresh
      BY <1>3, <1>6
    <3> QED BY <1>1, <1>11, <3>1, <3>2, RecordStays
  <2> QED BY <2>1, <2>2
<1>13. RecordsInv'
  BY <1>12 DEF RecordsInv
<1>14. Live' = Live /\ Live \subseteq Objects
  BY <1>2 DEF Live, Reach
<1>15. ASSUME NEW o \in Live PROVE Spared(o) /\ index[o] # None /\ o \notin dropped
  <2>1. Spared(o) /\ index[o] # None
    BY <1>2, <1>11 DEF LiveInv, Indexed
  <2>2. RecordLive(o)
    <3>1. Reach(epoch.roots) \subseteq epoch.marked
      BY <1>2, MarkedAll DEF SnapshotMarked
    <3> QED BY <2>1, <3>1 DEF Spared, RecordLive
  <2> QED BY <1>4, <2>1, <2>2
<1>16. ASSUME NEW o \in Live PROVE index'[o] # None /\ Spared(o)'
  <2>0. o \in Objects
    BY <1>14
  <2>1. CASE o \in survivors
    <3>1. index'[o] = slab /\ slab \in Ordinary \cup Captured \cup Fresh /\ slab \in {slab, meta}
      BY <1>1, <1>3, <1>8, <2>0, <2>1
    <3>2. slab # None
      BY <3>1, <1>6, <1>8, UnusedPages
    <3> QED BY <1>1, <1>2, <1>9, <3>1, <3>2, PlacedSpared
  <2>2. CASE o \notin survivors
    <3>1. index'[o] = index[o] /\ index[o] # None /\ Spared(o)
      BY <1>1, <1>15, <2>0, <2>2
    <3> QED BY <1>2, <1>9, <2>0, <3>1, SparedStays DEF Carries
  <2> QED BY <2>1, <2>2
<1> QED BY <1>13, <1>14, <1>16 DEF LiveInv, Indexed

LEMMA KeptStep == ASSUME ~Repeats PROVE Inv /\ KeptInv /\ [Next]_vars => KeptInv'
<1> SUFFICES ASSUME Inv, KeptInv, [Next]_vars PROVE KeptInv'
  OBVIOUS
<1>1. ASSUME NEW roots \in SUBSET Roots, Commit(roots) \/ Abandon(roots) PROVE KeptInv'
  <2>1. Put(Reach(roots) \ Live) /\ tips' \in {roots, tips}
    BY <1>1 DEF Commit, Abandon
  <2>2. PICK objs : objs = Reach(roots) \ Live
    OBVIOUS
  <2>3. objs \in SUBSET Objects /\ Put(objs)
    BY <2>1, <2>2 DEF Reach
  <2>4. Live' \subseteq Live \cup objs
    <3>1. Live' = Reach(tips')
      BY DEF Live, Reach
    <3>2. Reach(tips') \in {Reach(roots), Live}
      BY <2>1 DEF Live
    <3> QED BY <2>2, <3>1, <3>2
  <2> QED BY <2>3, <2>4, PutKept
<1>2. ASSUME UNCHANGED <<pageCount, free, holds, index, tips, epoch, strays>> PROVE KeptInv'
  BY <1>2 DEF KeptInv, CursorInv, RecordsInv, LiveInv, Stored, Live, Reach, Indexed, Spared, Consumed
<1>3. ASSUME \/ Mismatch \/ NothingToCollect \/ OpenReader \/ CloseReader \/ Reopen \/ UNCHANGED vars
      PROVE  KeptInv'
  BY <1>2, <1>3 DEF Mismatch, NothingToCollect, OpenReader, CloseReader, Reopen, vars
<1> QED BY <1>1, <1>3, BeginKept, MarkingKept, CollectKept, ClearKept DEF Next, Maintain

\* No object the engine state reaches is lost to a collection, whatever was committed or
\* abandoned between the snapshot of an epoch and the collection it validates
\* (build_reachability_mark_reclaim_evidence, gc_segments_inner), as long as content that
\* died before an epoch is not written again during it and no collection has left an index
\* entry behind on a page it freed.
THEOREM LiveObjectsKept ==
    ASSUME ~Repeats
    PROVE  Spec => []LiveKept
<1>1. Init => KeptInv
  <2> SUFFICES ASSUME Init PROVE KeptInv
    OBVIOUS
  <2>1. Live = {}
    <3> SUFFICES ASSUME NEW o \in Live PROVE FALSE
      OBVIOUS
    <3>1. tips = {} /\ {} \in SUBSET Objects
      BY DEF Init
    <3> QED BY <3>1 DEF Live, Reach
  <2> QED BY <2>1 DEF Init, KeptInv, CursorInv, RecordsInv, LiveInv, NoEpoch
<1>2. Inv /\ KeptInv /\ [Next]_vars => KeptInv'
  BY KeptStep
<1>3. KeptInv => LiveKept
  <2> SUFFICES ASSUME KeptInv, strays = {}, NEW o \in Live PROVE Stored(o)
    BY DEF LiveKept
  <2> QED BY DEF KeptInv, LiveInv, RecordsInv, Indexed
<1> QED BY <1>1, <1>2, <1>3, Invariance, PTL DEF Spec
==============================================================================
