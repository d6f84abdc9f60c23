----------------------------- MODULE StoreFormat -----------------------------
(* The on-disk root sets of a `.loom` file and the pure functions over them:    *)
(* where a root set is written, which one an open selects, and which pages a    *)
(* transaction may take (loom-store: superblock.rs, journal.rs, pagemap.rs and  *)
(* the open path of lib.rs).                                                    *)
(*                                                                              *)
(* A root set is named by a stamp, the identity of the transaction that wrote   *)
(* it.  A page holds the stamp of its last writer, and a root set records the   *)
(* stamp it expects of every page it references, so that a root set is intact   *)
(* exactly when its pages still hold what its transaction left there.           *)
EXTENDS Integers, FiniteSets

CONSTANTS
    RingSlots,          \* RING_SLOTS: commit records kept in the journal ring
    CheckpointInterval, \* CHECKPOINT_INTERVAL: commits between checkpoints
    RefillThreshold,    \* METADATA_BOOTSTRAP_REFILL_THRESHOLD_PAGES
    ReserveTarget,      \* METADATA_BOOTSTRAP_TARGET_PAGES
    MaxPages            \* bound: pages the file may grow to

ASSUME RingAssumption == RingSlots \in Nat /\ RingSlots > 1
ASSUME IntervalAssumption == CheckpointInterval \in Nat \ {0}
ASSUME ReserveAssumption ==
    /\ RefillThreshold \in Nat
    /\ ReserveTarget \in Nat
    /\ RefillThreshold < ReserveTarget
ASSUME MaxPagesAssumption == MaxPages \in Nat

Pages == 0 .. MaxPages - 1
Slots == 0 .. RingSlots - 1
SbSlots == {0, 1}

\* The stamp of a page nobody wrote, or whose write was torn.
Blank == 0

\* A root set: the generation and page count of the commit record, and what the
\* region table it points at leads to.  refs[p] is the stamp expected of page p
\* (Blank: not referenced), free[p] the generation that freed p (0: not free).
RootSet == [gen : Nat, stamp : Nat, count : 0 .. MaxPages,
            refs : [Pages -> Nat], free : [Pages -> Nat],
            reserve : SUBSET Pages]

EmptyRoot == [gen |-> 0, stamp |-> 0, count |-> 0,
              refs |-> [p \in Pages |-> Blank], free |-> [p \in Pages |-> 0],
              reserve |-> {}]

Referenced(root) == {p \in Pages : root.refs[p] # Blank}

FreeOf(root) == {p \in Pages : root.free[p] # 0}

\* A ring slot or superblock slot whose CRC does not decode.
NoRecord == [valid |-> FALSE, root |-> EmptyRoot]
NoSuperblock == [valid |-> FALSE, root |-> EmptyRoot, meta |-> 0]

Record(root) == [valid |-> TRUE, root |-> root]
Superblock(root, meta) == [valid |-> TRUE, root |-> root, meta |-> meta]

Records == [valid : BOOLEAN, root : RootSet]
Superblocks == [valid : BOOLEAN, root : RootSet, meta : Nat]

------------------------------------------------------------------------------
(* Slots *)

RingSlot(gen) == gen % RingSlots

CheckpointSlot(gen) == (gen \div CheckpointInterval) % 2

CheckpointDue(gen) == gen % CheckpointInterval = 0

------------------------------------------------------------------------------
(* Open: the checkpoint baseline, then the newest valid ring record             *)

FaultyBestSlot(sb) ==
    IF sb[1].valid /\ (sb[0].valid => sb[1].root.gen >= sb[0].root.gen) THEN 1 ELSE 0

\* The valid superblock with the highest generation; slot 0 when they tie.
BestSlot(sb) ==
    IF sb[1].valid /\ (sb[0].valid => sb[1].root.gen > sb[0].root.gen) THEN 1 ELSE 0

HasSuperblock(sb) == sb[0].valid \/ sb[1].valid

\* Slot s holds the newest valid record of the ring.
IsNewest(ring, s) ==
    /\ ring[s].valid
    /\ \A t \in Slots : ring[t].valid => ring[t].root.gen <= ring[s].root.gen

FaultySelected(sb, ring) == sb[BestSlot(sb)].root

\* The root set an open adopts: the newest ring record when it is ahead of the
\* checkpoint, the checkpoint otherwise.
Selected(sb, ring) ==
    LET base == sb[BestSlot(sb)].root
    IN  IF \E s \in Slots : IsNewest(ring, s) /\ ring[s].root.gen > base.gen
        THEN ring[CHOOSE s \in Slots : IsNewest(ring, s)].root
        ELSE base

\* The ring carries no encryption metadata: it comes from the checkpoint.
SelectedMeta(sb, ring) == sb[BestSlot(sb)].meta

\* Every page the root set references holds what its transaction wrote.
Intact(root, page) == \A p \in Pages : root.refs[p] # Blank => page[p] = root.refs[p]

------------------------------------------------------------------------------
(* Page allocation of one transaction *)

\* foreground_recovery_safe_reusable_free: with the reclamation lease, the runs
\* freed at or before the recovery horizon, which every publication moves to its
\* own generation; without the lease, nothing.
Reusable(root, lease) ==
    IF lease THEN {p \in FreeOf(root) : root.free[p] <= root.gen} ELSE {}

\* ensure_metadata_bootstrap_capacity: how many pages top up the metadata reserve.
RefillSize(root) ==
    IF Cardinality(root.reserve) > RefillThreshold THEN 0
    ELSE ReserveTarget - Cardinality(root.reserve)

\* The top-up lies past the pages extended so far, and nothing is written there yet.
Refill(root, end) == end .. end + RefillSize(root) - 1

FaultyNextFree(root, taken, freed, gen) ==
    [p \in Pages |-> IF p \in freed THEN gen ELSE root.free[p]]

\* snapshot_free: prior runs the transaction did not take, and the ones it freed.
NextFree(root, taken, freed, gen) ==
    [p \in Pages |-> IF p \in taken THEN 0
                     ELSE IF p \in freed THEN gen ELSE root.free[p]]

\* The pages a transaction writes: reusable pages, pages extended past the page
\* array, and reserve pages for the free map.
Taken(root, reused, ext, mapped) ==
    reused \cup (root.count .. root.count + ext - 1) \cup mapped

\* The root set a transaction prepares.  It drops some referenced pages and frees
\* all or some of them.
NextRoot(root, stamp, dropped, freed, reused, ext, mapped) ==
    LET taken == Taken(root, reused, ext, mapped)
        end == root.count + ext
    IN  [gen |-> root.gen + 1, stamp |-> stamp, count |-> end + RefillSize(root),
         refs |-> [p \in Pages |-> IF p \in taken THEN stamp
                                   ELSE IF p \in dropped THEN Blank ELSE root.refs[p]],
         free |-> NextFree(root, taken, freed, root.gen + 1),
         reserve |-> (root.reserve \cup Refill(root, end)) \ mapped]
==============================================================================
