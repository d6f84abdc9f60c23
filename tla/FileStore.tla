------------------------------ MODULE FileStore ------------------------------
(* One `.loom` file, the process that has it open for writing, and the          *)
(* processes that read it (loom-store: commit_txn and finish_txn_impl, the open  *)
(* path, rekey, and the reclamation lease).                                     *)
(*                                                                              *)
(* sb, ring, page and len are the file as reads and later writes see it; dsb,    *)
(* dring, dpage and dlen are what a power loss is certain to leave.  An fsync    *)
(* makes them equal.  A power loss keeps, loses or tears each write issued since *)
(* the last fsync on its own.                                                   *)
EXTENDS StoreFormat

CONSTANTS
    Readers,    \* processes that open the file read-only
    Rekeyers,   \* threads of the writer that change the encryption metadata
    MaxTxns,    \* bound: transactions begun
    MaxWrites,  \* bound: pages one transaction writes
    MaxMeta,    \* bound: encryption metadata changes
    MaxLosses,  \* bound: power losses
    Faults      \* the faults the environment may inject, see AllFaults

\* io: a write or an fsync of a transaction fails and the process goes on;
\* tornSlot: a power loss tears a superblock slot rather than keep or lose it;
\* foldKill: the process dies between the fold's write and its fsync at open.
AllFaults == {"io", "tornSlot", "foldKill"}

ASSUME FaultsAssumption == Faults \subseteq AllFaults
ASSUME BoundsAssumption == MaxTxns \in Nat /\ MaxWrites \in Nat /\ MaxLosses \in Nat

VARIABLES
    sb, ring, page, len,
    dsb, dring, dpage, dlen,
    pc,        \* what the writer is doing; "closed" and "refused": no writer
    inner,     \* Inner: the adopted root set and the encryption metadata
    txn,       \* the prepared root set, the pages still to write, the lease
    rekey,     \* per rekeying thread: its step and the superblock it encoded
    reader,    \* per reader: closed, holding its lease, or reading a root set
    stamps,    \* number of transactions begun
    losses,    \* number of power losses
    acked,     \* history: stamp of the root set last adopted
    offered,   \* history: stamps of the transactions begun since then
    ackedMeta  \* history: the newest metadata change that returned Ok

fileVars == <<sb, ring, page, len>>
mediumVars == <<dsb, dring, dpage, dlen>>
history == <<acked, offered, ackedMeta>>
vars == <<sb, ring, page, len, dsb, dring, dpage, dlen, pc, inner, txn, rekey,
          reader, stamps, losses, acked, offered, ackedMeta>>

NoTxn == [root |-> EmptyRoot, todo |-> {}, lease |-> FALSE]
NoInner == [root |-> EmptyRoot, meta |-> 0]
NoRekey == [step |-> "idle", image |-> NoSuperblock]
NoReader == [step |-> "closed", root |-> EmptyRoot]

\* A file just created: both slots hold generation 0, the ring is zeroed.
Init ==
    /\ sb = [s \in SbSlots |-> Superblock(EmptyRoot, 0)]
    /\ ring = [s \in Slots |-> NoRecord]
    /\ page = [p \in Pages |-> Blank]
    /\ len = 0
    /\ dsb = sb /\ dring = ring /\ dpage = page /\ dlen = len
    /\ pc = "idle"
    /\ inner = NoInner
    /\ txn = NoTxn
    /\ rekey = [k \in Rekeyers |-> NoRekey]
    /\ reader = [r \in Readers |-> NoReader]
    /\ stamps = 0 /\ losses = 0
    /\ acked = 0 /\ offered = {} /\ ackedMeta = 0

FileLocked == \E k \in Rekeyers : rekey[k].step = "sync"

Fsync == dsb' = sb /\ dring' = ring /\ dpage' = page /\ dlen' = len

------------------------------------------------------------------------------
(* A transaction: commit_txn holds the inner lock from Begin to Adopt *)

FaultyLeaseFree == TRUE

\* The reclamation lease is free unless a reader shares it.
LeaseFree == \A r \in Readers : reader[r].step = "closed"

Begin ==
    /\ pc = "idle" /\ ~FileLocked
    /\ stamps < MaxTxns
    /\ \E dropped \in SUBSET Referenced(inner.root), ext \in 0 .. MaxWrites :
       \E freed \in SUBSET dropped, reused \in SUBSET Reusable(inner.root, LeaseFree) :
       \E mapped \in SUBSET (inner.root.reserve \cup Refill(inner.root, inner.root.count + ext)) :
          /\ inner.root.count + ext + RefillSize(inner.root) <= MaxPages
          /\ Taken(inner.root, reused, ext, mapped) # {}
          /\ Cardinality(Taken(inner.root, reused, ext, mapped)) <= MaxWrites
          /\ txn' = [root |-> NextRoot(inner.root, stamps + 1, dropped, freed, reused, ext,
                                       mapped),
                     todo |-> Taken(inner.root, reused, ext, mapped),
                     lease |-> LeaseFree]
    /\ pc' = "write"
    /\ stamps' = stamps + 1
    /\ offered' = offered \cup {stamps + 1}
    /\ UNCHANGED <<fileVars, mediumVars, inner, rekey, reader, losses, acked, ackedMeta>>

WritePage(p) ==
    /\ pc = "write" /\ p \in txn.todo
    /\ page' = [page EXCEPT ![p] = txn.root.stamp]
    /\ len' = IF p >= len THEN p + 1 ELSE len
    /\ txn' = [txn EXCEPT !.todo = @ \ {p}]
    /\ UNCHANGED <<sb, ring, mediumVars, pc, inner, rekey, reader, stamps, losses, history>>

\* Every referenced page is durable before the commit point.
SyncPages ==
    /\ pc = "write" /\ txn.todo = {}
    /\ Fsync
    /\ pc' = "record"
    /\ UNCHANGED <<fileVars, inner, txn, rekey, reader, stamps, losses, history>>

WriteRecord ==
    /\ pc = "record"
    /\ ring' = [ring EXCEPT ![RingSlot(txn.root.gen)] = Record(txn.root)]
    /\ pc' = "commit"
    /\ UNCHANGED <<sb, page, len, mediumVars, inner, txn, rekey, reader, stamps, losses, history>>

FaultyCommit ==
    /\ pc = "commit"
    /\ pc' = "grow"
    /\ UNCHANGED <<fileVars, mediumVars, inner, txn, rekey, reader, stamps, losses, history>>

\* The commit point.
Commit ==
    /\ pc = "commit"
    /\ Fsync
    /\ pc' = "grow"
    /\ UNCHANGED <<fileVars, inner, txn, rekey, reader, stamps, losses, history>>

\* The page array is extended to the published page count, without an fsync.
Grow ==
    /\ pc = "grow"
    /\ len' = IF len < txn.root.count THEN txn.root.count ELSE len
    /\ pc' = IF CheckpointDue(txn.root.gen) THEN "checkpoint" ELSE "adopt"
    /\ UNCHANGED <<sb, ring, page, mediumVars, inner, txn, rekey, reader, stamps, losses, history>>

FaultyWriteCheckpoint ==
    /\ pc = "checkpoint"
    /\ sb' = [s \in SbSlots |-> Superblock(txn.root, inner.meta)]
    /\ pc' = "checkpointSync"
    /\ UNCHANGED <<ring, page, len, mediumVars, inner, txn, rekey, reader, stamps, losses, history>>

WriteCheckpoint ==
    /\ pc = "checkpoint"
    /\ sb' = [sb EXCEPT ![CheckpointSlot(txn.root.gen)] = Superblock(txn.root, inner.meta)]
    /\ pc' = "checkpointSync"
    /\ UNCHANGED <<ring, page, len, mediumVars, inner, txn, rekey, reader, stamps, losses, history>>

SyncCheckpoint ==
    /\ pc = "checkpointSync"
    /\ Fsync
    /\ pc' = "adopt"
    /\ UNCHANGED <<fileVars, inner, txn, rekey, reader, stamps, losses, history>>

\* adopt_committed_roots_locked: memory follows the disk, and the call returns Ok.
Adopt ==
    /\ pc = "adopt"
    /\ inner' = [root |-> txn.root, meta |-> inner.meta]
    /\ acked' = txn.root.stamp
    /\ offered' = {}
    /\ txn' = NoTxn
    /\ pc' = "idle"
    /\ UNCHANGED <<fileVars, mediumVars, rekey, reader, stamps, losses, ackedMeta>>

\* A write or an fsync fails: the call returns Err and memory keeps the old roots.
FailTxn ==
    /\ "io" \in Faults
    /\ pc \in {"write", "record", "commit", "grow", "checkpoint", "checkpointSync"}
    /\ txn' = NoTxn
    /\ pc' = "idle"
    /\ UNCHANGED <<fileVars, mediumVars, inner, rekey, reader, stamps, losses, history>>

------------------------------------------------------------------------------
(* rekey, add_wrap, remove_wrap: change the metadata in memory, encode a         *)
(* superblock under the inner lock, write it under the file lock only           *)

RekeySet(k) ==
    /\ rekey[k].step = "idle" /\ pc = "idle"
    /\ inner.meta < MaxMeta
    /\ inner' = [root |-> inner.root, meta |-> inner.meta + 1]
    /\ rekey' = [rekey EXCEPT ![k] = [step |-> "encode", image |-> NoSuperblock]]
    /\ UNCHANGED <<fileVars, mediumVars, pc, txn, reader, stamps, losses, history>>

RekeyEncode(k) ==
    /\ rekey[k].step = "encode" /\ pc = "idle"
    /\ rekey' = [rekey EXCEPT ![k] =
                    [step |-> "write", image |-> Superblock(inner.root, inner.meta)]]
    /\ UNCHANGED <<fileVars, mediumVars, pc, inner, txn, reader, stamps, losses, history>>

\* A transaction releases the file lock before memory adopts the new roots.
RekeyWrite(k) ==
    /\ rekey[k].step = "write" /\ pc \in {"idle", "adopt"} /\ ~FileLocked
    /\ LET image == rekey[k].image IN
       /\ sb' = [sb EXCEPT ![CheckpointSlot(image.root.gen)] = image]
       /\ rekey' = [rekey EXCEPT ![k] = [step |-> "sync", image |-> image]]
    /\ UNCHANGED <<ring, page, len, mediumVars, pc, inner, txn, reader, stamps, losses, history>>

RekeySync(k) ==
    /\ rekey[k].step = "sync"
    /\ Fsync
    /\ ackedMeta' = IF rekey[k].image.meta > ackedMeta THEN rekey[k].image.meta ELSE ackedMeta
    /\ rekey' = [rekey EXCEPT ![k] = NoRekey]
    /\ UNCHANGED <<fileVars, pc, inner, txn, reader, stamps, losses, acked, offered>>

------------------------------------------------------------------------------
(* The end of the writing process, and opening the file again *)

\* The process ends, cleanly or not; what it wrote stays in the file.
Exit ==
    /\ pc \notin {"closed", "refused"}
    /\ pc = "fold" => "foldKill" \in Faults
    /\ pc' = "closed"
    /\ inner' = NoInner /\ txn' = NoTxn
    /\ rekey' = [k \in Rekeyers |-> NoRekey]
    /\ UNCHANGED <<fileVars, mediumVars, reader, stamps, losses, history>>

DirtyPages == {p \in Pages : page[p] # dpage[p]}
DirtySlots == {s \in Slots : ring[s] # dring[s]}
DirtySbs == {s \in SbSlots : sb[s] # dsb[s]}

\* The machine loses power: every process ends, and each write since the last
\* fsync is kept, lost or torn.
PowerLoss ==
    /\ losses < MaxLosses
    /\ losses' = losses + 1
    /\ \E size \in {dlen, len}, kept \in SUBSET DirtyPages :
       \E torn \in SUBSET (DirtyPages \ kept) :
          /\ dlen' = size
          /\ dpage' = [p \in Pages |-> IF p \in torn \/ p >= size THEN Blank
                                       ELSE IF p \in kept THEN page[p] ELSE dpage[p]]
    /\ \E kept \in SUBSET DirtySlots : \E torn \in SUBSET (DirtySlots \ kept) :
          dring' = [s \in Slots |-> IF s \in torn THEN NoRecord
                                    ELSE IF s \in kept THEN ring[s] ELSE dring[s]]
    /\ \E kept \in SUBSET DirtySbs :
       \E torn \in (IF "tornSlot" \in Faults THEN SUBSET (DirtySbs \ kept) ELSE {{}}) :
          dsb' = [s \in SbSlots |-> IF s \in torn THEN NoSuperblock
                                    ELSE IF s \in kept THEN sb[s] ELSE dsb[s]]
    /\ sb' = dsb' /\ ring' = dring' /\ page' = dpage' /\ len' = dlen'
    /\ pc' = "closed"
    /\ inner' = NoInner /\ txn' = NoTxn
    /\ rekey' = [k \in Rekeyers |-> NoRekey]
    /\ reader' = [r \in Readers |-> NoReader]
    /\ UNCHANGED <<stamps, history>>

\* Open selects a root set; one ahead of the checkpoint is folded into its slot.
Open ==
    /\ pc = "closed" /\ HasSuperblock(sb)
    /\ LET root == Selected(sb, ring)
           meta == SelectedMeta(sb, ring)
       IN  /\ inner' = [root |-> root, meta |-> meta]
           /\ IF root.gen > sb[BestSlot(sb)].root.gen
              THEN /\ sb' = [sb EXCEPT ![CheckpointSlot(root.gen)] = Superblock(root, meta)]
                   /\ pc' = "fold"
              ELSE /\ pc' = "load"
                   /\ UNCHANGED sb
    /\ UNCHANGED <<ring, page, len, mediumVars, txn, rekey, reader, stamps, losses, history>>

SyncFold ==
    /\ pc = "fold"
    /\ Fsync
    /\ pc' = "load"
    /\ UNCHANGED <<fileVars, inner, txn, rekey, reader, stamps, losses, history>>

\* The committed page array must be wholly present.
Load ==
    /\ pc = "load"
    /\ len >= inner.root.count
    /\ pc' = "idle"
    /\ acked' = inner.root.stamp
    /\ offered' = {}
    /\ UNCHANGED <<fileVars, mediumVars, inner, txn, rekey, reader, stamps, losses, ackedMeta>>

Refuse ==
    /\ \/ pc = "closed" /\ ~HasSuperblock(sb)
       \/ pc = "load" /\ len < inner.root.count
    /\ pc' = "refused"
    /\ inner' = NoInner
    /\ UNCHANGED <<fileVars, mediumVars, txn, rekey, reader, stamps, losses, history>>

------------------------------------------------------------------------------
(* A reader: open_read takes the shared lease, selects a root set, reads pages *)

\* A transaction drops its lease before memory adopts the new roots.
LeaseHeld == txn.lease /\ pc # "adopt"

\* lock_shared blocks while a transaction holds the lease exclusively.
Lease(r) ==
    /\ reader[r].step = "closed"
    /\ ~LeaseHeld
    /\ reader' = [reader EXCEPT ![r] = [step |-> "leased", root |-> EmptyRoot]]
    /\ UNCHANGED <<fileVars, mediumVars, pc, inner, txn, rekey, stamps, losses, history>>

OpenRead(r) ==
    /\ reader[r].step = "leased"
    /\ HasSuperblock(sb)
    /\ len >= Selected(sb, ring).count
    /\ reader' = [reader EXCEPT ![r] = [step |-> "reading", root |-> Selected(sb, ring)]]
    /\ UNCHANGED <<fileVars, mediumVars, pc, inner, txn, rekey, stamps, losses, history>>

CloseRead(r) ==
    /\ reader[r].step # "closed"
    /\ reader' = [reader EXCEPT ![r] = NoReader]
    /\ UNCHANGED <<fileVars, mediumVars, pc, inner, txn, rekey, stamps, losses, history>>

------------------------------------------------------------------------------
Next ==
    \/ Begin
    \/ \E p \in Pages : WritePage(p)
    \/ SyncPages
    \/ WriteRecord
    \/ Commit
    \/ Grow
    \/ WriteCheckpoint
    \/ SyncCheckpoint
    \/ Adopt
    \/ FailTxn
    \/ \E k \in Rekeyers : RekeySet(k)
    \/ \E k \in Rekeyers : RekeyEncode(k)
    \/ \E k \in Rekeyers : RekeyWrite(k)
    \/ \E k \in Rekeyers : RekeySync(k)
    \/ Exit
    \/ PowerLoss
    \/ Open
    \/ SyncFold
    \/ Load
    \/ Refuse
    \/ \E r \in Readers : Lease(r)
    \/ \E r \in Readers : OpenRead(r)
    \/ \E r \in Readers : CloseRead(r)

Spec == Init /\ [][Next]_vars

------------------------------------------------------------------------------
Steps == {"idle", "write", "record", "commit", "grow", "checkpoint", "checkpointSync",
          "adopt", "closed", "refused", "fold", "load"}

\* Every variable holds a value of the kind FileStore keeps there.
TypeOK ==
    /\ sb \in [SbSlots -> Superblocks] /\ dsb \in [SbSlots -> Superblocks]
    /\ ring \in [Slots -> Records] /\ dring \in [Slots -> Records]
    /\ page \in [Pages -> Nat] /\ dpage \in [Pages -> Nat]
    /\ len \in Nat /\ dlen \in Nat
    /\ pc \in Steps
    /\ inner \in [root : RootSet, meta : Nat]
    /\ txn \in [root : RootSet, todo : SUBSET Pages, lease : BOOLEAN]
    /\ rekey \in [Rekeyers -> [step : {"idle", "encode", "write", "sync"},
                               image : Superblocks]]
    /\ reader \in [Readers -> [step : {"closed", "leased", "reading"}, root : RootSet]]
    /\ stamps \in Nat /\ losses \in Nat
    /\ acked \in Nat /\ offered \subseteq Nat /\ ackedMeta \in Nat

\* Whenever no process writes the file, the root set an open would select is the one
\* last adopted or one a later commit_txn was publishing, and every page it references
\* holds what that transaction wrote: a commit is kept whole or not at all, and an
\* acknowledged one is kept, whatever subset of the unsynced writes survived.
AllOrNothing ==
    pc = "closed" /\ HasSuperblock(sb) =>
        /\ Intact(Selected(sb, ring), page)
        /\ Selected(sb, ring).stamp \in {acked} \cup offered

\* A reader that has opened the file finds every page of the root set it selected
\* unchanged for as long as it holds its reclamation lease, whatever the writer commits.
ReaderSnapshot ==
    \A r \in Readers : reader[r].step = "reading" => Intact(reader[r].root, page)

\* No step of a transaction, successful, failed or retried, overwrites a page of the
\* root set that memory keeps reading from.
TxnSparesAdopted ==
    [][inner' = inner /\ Intact(inner.root, page) => Intact(inner.root, page')]_vars

\* The adopted root set references, frees and reserves disjoint pages, all of them
\* below its page count: PageAllocator never hands one page to two owners.
OneOwner ==
    pc = "idle" =>
        LET root == inner.root IN
        /\ Referenced(root) \cap FreeOf(root) = {}
        /\ root.reserve \cap (Referenced(root) \cup FreeOf(root)) = {}
        /\ \A p \in Referenced(root) \cup FreeOf(root) \cup root.reserve : p < root.count

\* Whenever no process writes the file, one superblock slot decodes: the alternating
\* checkpoint slots never leave both torn.
SuperblockSurvives == pc = "closed" => HasSuperblock(sb)

\* Whenever no process writes the file, the encryption metadata an open would adopt is
\* the newest one a successful rekey wrote, or one newer still.
RekeyDurable == pc = "closed" /\ HasSuperblock(sb) => SelectedMeta(sb, ring) >= ackedMeta

\* An open never refuses the file: a power loss leaves a generation that opens.
NeverRefused == pc # "refused"

------------------------------------------------------------------------------
\* The root set an image of the file stands for: its stamp when it is intact.
Torn == -1

Value(s, rg, pg) ==
    LET root == Selected(s, rg) IN IF Intact(root, pg) THEN root.stamp ELSE Torn

Cell == INSTANCE DurableCell
        WITH visible <- Value(sb, ring, page), durable <- Value(dsb, dring, dpage)

\* Every step of the file is a step of the durable cell: a commit becomes visible at
\* once and whole, is durable before it is acknowledged, and a power loss leaves the
\* durable value or the visible one.
ImplementsCell == Cell!Spec
==============================================================================
