--------------------------- MODULE FileStoreProofs ---------------------------
(* Proofs about FileStore for every number of pages, ring slots, readers,         *)
(* transactions and power losses.  Under every fault: types, one owner per page,  *)
(* memory's root set spared.  Under the faults of Tolerated: a commit is kept     *)
(* whole or not at all, an acknowledged one is kept, readers see a stable root    *)
(* set, and the file implements DurableCell.  SuperblockOutlivesOneLoss and       *)
(* RekeyIsDurable state their own hypotheses.                                     *)
EXTENDS FileStore, DataLemmas, FiniteSetTheorems, TLAPS

------------------------------------------------------------------------------
(* The inductive invariant *)

\* The entries of an image are older than root set T, or are T or U.
Entries(s, rg, T, U) ==
    /\ \A b \in SbSlots :
          /\ s[b].valid \/ s[b] = NoSuperblock
          /\ s[b].valid => s[b].root.gen < T.gen \/ s[b].root = T \/ s[b].root = U
    /\ \A i \in Slots : rg[i].valid =>
          /\ RingSlot(rg[i].root.gen) = i
          /\ rg[i].root.gen < T.gen \/ rg[i].root = T \/ rg[i].root = U

\* A ring record keeps T selected, whatever becomes of the superblocks.
Firm(rg, drg, T) ==
    T = EmptyRoot \/ (rg[RingSlot(T.gen)] = Record(T) /\ drg[RingSlot(T.gen)] = Record(T))

\* The entry that keeps T selected whatever a power loss keeps of the dirty slots.
Anchored(s, rg, ds, drg, T, U) ==
    \/ Firm(rg, drg, T)
    \/ \E b \in SbSlots : /\ ds[b].valid /\ ds[b].root = T
                           /\ s[b].valid /\ (s[b].root = T \/ s[b].root = U)

\* The medium selects T, the file selects U, and a mixture selects one of them.
Coherent(s, rg, ds, drg, T, U) ==
    /\ Entries(s, rg, T, U)
    /\ Entries(ds, drg, T, T)
    /\ T.gen = 0 => T = EmptyRoot
    /\ U = T \/ (T.gen < U.gen /\ rg[RingSlot(U.gen)] = Record(U))
    /\ Anchored(s, rg, ds, drg, T, U)

\* Every page the root set references is intact in the file and on the medium.
Safe(T, pg, dpg, dl) ==
    \A p \in Pages : T.refs[p] # Blank => pg[p] = T.refs[p] /\ dpg[p] = T.refs[p] /\ p < dl

\* Referenced, free and reserved pages are disjoint and lie below the page count.
WellFormed(T) ==
    \A p \in Pages :
        /\ T.refs[p] # Blank => T.free[p] = 0 /\ p \notin T.reserve /\ p < T.count
        /\ T.free[p] # 0 => p \notin T.reserve /\ p < T.count
        /\ p \in T.reserve => p < T.count

D == Selected(dsb, dring)
V == Selected(sb, ring)
O == inner.root
N == txn.root

DiskInv ==
    /\ Coherent(sb, ring, dsb, dring, D, V)
    /\ Safe(D, page, dpage, dlen) /\ Safe(V, page, dpage, dlen)
    /\ WellFormed(D) /\ WellFormed(V)
    /\ dlen <= len

BeforeRecord == {"write", "record"}
InTxn == {"write", "record", "commit", "grow", "checkpoint", "checkpointSync", "adopt"}
Committed == {"grow", "checkpoint", "checkpointSync", "adopt"}
Down == {"closed", "refused"}

\* Which root sets the file and the medium select, step by step.
PhaseInv ==
    /\ pc \in {"idle", "load"} \cup BeforeRecord => D = O /\ V = O
    /\ pc = "commit" => D = O /\ V = N
    /\ pc \in Committed => D = N /\ V = N
    /\ pc = "fold" => V = O
    /\ pc \in Down => V = D \/ sb = dsb
    /\ pc \in {"record", "commit"} => sb = dsb
    /\ pc \in {"commit"} \cup Committed => ring[RingSlot(N.gen)] = Record(N)
    /\ pc \in Committed => dring[RingSlot(N.gen)] = Record(N)

\* Root set U only adds to the reserve of T pages past the end of T.
Grows(T, U) ==
    /\ T.count <= U.count
    /\ \A p \in Pages : p \in U.reserve => p \in T.reserve \/ T.count <= p

\* What a transaction has prepared.
TxnInv ==
    /\ pc \in InTxn =>
         /\ N.gen = O.gen + 1 /\ O.stamp < N.stamp /\ N.stamp <= stamps
         /\ WellFormed(N) /\ Grows(O, N)
         /\ N.stamp # Blank
    /\ pc = "write" => \A p \in txn.todo : O.refs[p] = Blank
    /\ pc = "write" => \A p \in txn.todo : N.refs[p] = N.stamp
    /\ pc = "write" => \A p \in Pages : N.refs[p] # Blank /\ p \notin txn.todo =>
                                          page[p] = N.refs[p] /\ p < len
    /\ pc \in {"record", "commit"} => Safe(N, page, dpage, dlen)

StampInv ==
    /\ D.stamp <= stamps /\ V.stamp <= stamps
    /\ pc \in Down \cup {"fold", "load"} =>
         /\ D.stamp \in {acked} \cup offered
         /\ V.stamp \in {acked} \cup offered
    /\ pc \in {"idle"} \cup InTxn => O.stamp = acked
    /\ pc \in InTxn => N.stamp \in offered

RekeyInv ==
    \A k \in Rekeyers :
        /\ rekey[k].step # "idle" => pc \in {"idle"} \cup InTxn
        /\ rekey[k].step = "sync" => pc \in {"idle", "adopt"}
        /\ rekey[k].step \in {"write", "sync"} =>
             /\ rekey[k].image.valid
             /\ \/ rekey[k].image.root = O
                \/ /\ rekey[k].image.root.gen < O.gen
                   /\ ring[RingSlot(O.gen)] = Record(O)
                   /\ dring[RingSlot(O.gen)] = Record(O)

\* No page the root set Q references is one that a transaction on T takes without
\* the reclamation lease.
Clear(Q, T) == \A p \in Pages : Q.refs[p] # Blank => p < T.count /\ p \notin T.reserve

ReaderInv ==
    /\ LeaseHeld => \A r \in Readers : reader[r].step = "closed"
    /\ \A r \in Readers : reader[r].step = "reading" =>
         /\ Intact(reader[r].root, page)
         /\ Clear(reader[r].root, V)
         /\ pc = "write" => \A p \in txn.todo : reader[r].root.refs[p] = Blank

\* Until the first power loss the ring holds the medium's root set.
FirmInv == losses = 0 => Firm(ring, dring, D)

\* A power loss may tear a superblock slot when there is only one power loss; no write
\* fails and no open is killed.
Tolerated == Faults \subseteq {"tornSlot"} /\ ("tornSlot" \in Faults => MaxLosses <= 1)

IInv ==
    /\ TypeOK /\ DiskInv /\ PhaseInv /\ TxnInv /\ StampInv /\ RekeyInv /\ ReaderInv

------------------------------------------------------------------------------
(* Slots *)

\* A generation's ring slot is a slot, and the next generation has another one.
LEMMA RingSlotNext ==
    ASSUME NEW g \in Nat
    PROVE  /\ RingSlot(g) \in Slots
           /\ RingSlot(g + 1) # RingSlot(g)
<1> DEFINE R == RingSlots
           q == g \div R
           d == (g + 1) \div R
<1>1. R \in Nat /\ R > 1 /\ q \in Int /\ d \in Int /\ g % R \in 0 .. R - 1
  BY RingAssumption
<1>2. g = R * q + (g % R) /\ g + 1 = R * d + ((g + 1) % R)
  BY RingAssumption
<1>3. SUFFICES ASSUME (g + 1) % R = g % R PROVE FALSE
  BY <1>1 DEF RingSlot, Slots
<1>4. R * d = R * q + 1
  BY <1>1, <1>2, <1>3
<1>5. CASE d <= q
  <2>1. R * d <= R * q
    BY <1>1, <1>5
  <2> QED BY <2>1, <1>4, <1>1
<1>6. CASE d >= q + 1
  <2>1. R * d >= R * (q + 1)
    BY <1>1, <1>6
  <2>2. R * (q + 1) = R * q + R
    BY <1>1
  <2> QED BY <2>1, <2>2, <1>4, <1>1
<1> QED BY <1>1, <1>5, <1>6

\* Checkpoints go to one of the two superblock slots.
LEMMA CheckpointSlotType ==
    ASSUME NEW g \in Nat
    PROVE  CheckpointSlot(g) \in SbSlots
BY IntervalAssumption, SMT DEF CheckpointSlot, SbSlots

\* The empty root set, an invalid slot and the constructors are well typed.
LEMMA Constructors ==
    /\ EmptyRoot \in RootSet
    /\ NoRecord \in Records
    /\ NoSuperblock \in Superblocks
    /\ \A T \in RootSet : Record(T) \in Records /\ Record(T).valid /\ Record(T).root = T
    /\ \A T \in RootSet, m \in Nat :
          /\ Superblock(T, m) \in Superblocks
          /\ Superblock(T, m).valid /\ Superblock(T, m).root = T
BY MaxPagesAssumption
   DEF EmptyRoot, RootSet, NoRecord, NoSuperblock, Records, Superblocks, Record, Superblock, Blank

------------------------------------------------------------------------------
(* Selection *)

\* An image whose entries are T or older, and that holds T, selects T.
LEMMA SelectTop ==
    ASSUME NEW s \in [SbSlots -> Superblocks], NEW rg \in [Slots -> Records],
           NEW T \in RootSet, Entries(s, rg, T, T), T.gen = 0 => T = EmptyRoot,
           \/ rg[RingSlot(T.gen)] = Record(T)
           \/ T = EmptyRoot
           \/ \E b \in SbSlots : s[b].valid /\ s[b].root = T
    PROVE  Selected(s, rg) = T
<1> DEFINE base == s[BestSlot(s)].root
<1>0. NoSuperblock.root = EmptyRoot /\ EmptyRoot.gen = 0 /\ ~NoSuperblock.valid
  BY DEF NoSuperblock, EmptyRoot
<1>3. BestSlot(s) \in SbSlots /\ base.gen \in Nat /\ T.gen \in Nat
  BY DEF BestSlot, SbSlots, Superblocks, RootSet
<1>1. \A b \in SbSlots : s[b].valid => s[b].root.gen <= base.gen
  BY DEF BestSlot, SbSlots, Superblocks, RootSet
<1>2. base.gen < T.gen \/ base = T
  BY <1>0, <1>3 DEF Entries
<1>4. CASE base.gen < T.gen
  <2>1. rg[RingSlot(T.gen)] = Record(T)
    BY <1>0, <1>1, <1>3, <1>4
  <2>2. \A i \in Slots : rg[i].valid => rg[i].root.gen <= T.gen
    BY DEF Entries, Records, RootSet
  <2>3. RingSlot(T.gen) \in Slots
    BY <1>3, RingSlotNext
  <2>4. IsNewest(rg, RingSlot(T.gen))
    BY <2>1, <2>2, <2>3, Constructors DEF IsNewest
  <2>5. \A i \in Slots : IsNewest(rg, i) => rg[i].root = T
    <3> TAKE i \in Slots
    <3> HAVE IsNewest(rg, i)
    <3>1. T.gen <= rg[i].root.gen /\ rg[i].valid
      BY <2>1, <2>3, Constructors DEF IsNewest
    <3>2. rg[i].root.gen \in Nat
      BY DEF Records, RootSet
    <3> QED BY <3>1, <3>2, <1>3 DEF Entries
  <2>6. rg[RingSlot(T.gen)].root.gen > base.gen
    BY <2>1, <1>3, <1>4, Constructors
  <2>7. \E i \in Slots : IsNewest(rg, i) /\ rg[i].root.gen > base.gen
    BY <2>3, <2>4, <2>6
  <2>8. rg[CHOOSE i \in Slots : IsNewest(rg, i)].root = T
    BY <2>3, <2>4, <2>5
  <2> QED BY <2>7, <2>8 DEF Selected
<1>5. CASE base = T
  <2>1. ~ \E i \in Slots : IsNewest(rg, i) /\ rg[i].root.gen > base.gen
    BY <1>5, <1>3 DEF IsNewest, Entries, Records, RootSet
  <2> QED BY <1>5, <2>1 DEF Selected
<1> QED BY <1>2, <1>4, <1>5

\* Entries that are T, U or older than T are U or older, when U is not older than T.
LEMMA EntriesUp ==
    ASSUME NEW s \in [SbSlots -> Superblocks], NEW rg \in [Slots -> Records],
           NEW T \in RootSet, NEW U \in RootSet, Entries(s, rg, T, U),
           U = T \/ T.gen < U.gen
    PROVE  Entries(s, rg, U, U)
<1>1. T.gen \in Nat /\ U.gen \in Nat
  BY DEF RootSet
<1>2. /\ \A b \in SbSlots : s[b].root.gen \in Nat
      /\ \A i \in Slots : rg[i].root.gen \in Nat
  BY DEF Superblocks, Records, RootSet
<1> QED BY <1>1, <1>2 DEF Entries

\* Coherent says what it promises: the medium selects T and the file selects U.
LEMMA CoherentSelects ==
    ASSUME NEW s \in [SbSlots -> Superblocks], NEW rg \in [Slots -> Records],
           NEW ds \in [SbSlots -> Superblocks], NEW drg \in [Slots -> Records],
           NEW T \in RootSet, NEW U \in RootSet, Coherent(s, rg, ds, drg, T, U)
    PROVE  Selected(ds, drg) = T /\ Selected(s, rg) = U
<1>1. Selected(ds, drg) = T
  BY SelectTop DEF Coherent, Anchored, Firm
<1>2. Entries(s, rg, U, U)
  BY EntriesUp DEF Coherent
<1>3. \/ rg[RingSlot(U.gen)] = Record(U)
      \/ U = EmptyRoot
      \/ \E b \in SbSlots : s[b].valid /\ s[b].root = U
  BY DEF Coherent, Anchored, Firm
<1>5. U.gen = 0 => U = EmptyRoot
  BY DEF Coherent, RootSet
<1>4. Selected(s, rg) = U
  BY <1>2, <1>3, <1>5, SelectTop
<1> QED BY <1>1, <1>4

\* After an fsync the medium selects what the file selects.
LEMMA CoherentSync ==
    ASSUME NEW s \in [SbSlots -> Superblocks], NEW rg \in [Slots -> Records],
           NEW ds, NEW drg,
           NEW T \in RootSet, NEW U \in RootSet, Coherent(s, rg, ds, drg, T, U)
    PROVE  Coherent(s, rg, s, rg, U, U)
<1>1. Entries(s, rg, U, U)
  BY EntriesUp DEF Coherent
<1>2. Anchored(s, rg, s, rg, U, U)
  BY DEF Coherent, Anchored, Firm
<1>3. U.gen = 0 => U = EmptyRoot
  BY DEF Coherent, RootSet
<1> QED BY <1>1, <1>2, <1>3 DEF Coherent

\* Writing the record of the next generation leaves the medium's selection anchored.
LEMMA CoherentRecord ==
    ASSUME NEW s \in [SbSlots -> Superblocks], NEW rg \in [Slots -> Records],
           NEW ds, NEW drg,
           NEW T \in RootSet, NEW U \in RootSet, U.gen = T.gen + 1,
           Coherent(s, rg, ds, drg, T, T)
    PROVE  Coherent(s, [rg EXCEPT ![RingSlot(U.gen)] = Record(U)], ds, drg, T, U)
<1> DEFINE rg2 == [rg EXCEPT ![RingSlot(U.gen)] = Record(U)]
<1>1. /\ T.gen \in Nat /\ U.gen \in Nat
      /\ RingSlot(U.gen) \in Slots /\ RingSlot(T.gen) \in Slots
      /\ RingSlot(U.gen) # RingSlot(T.gen)
  BY RingSlotNext DEF RootSet
<1>2. /\ rg2[RingSlot(U.gen)] = Record(U)
      /\ \A i \in Slots : i # RingSlot(U.gen) => rg2[i] = rg[i]
  BY <1>1
<1>3. Entries(s, rg2, T, U)
  BY <1>1, <1>2, Constructors DEF Coherent, Entries
<1>4. Anchored(s, rg2, ds, drg, T, U)
  BY <1>1, <1>2 DEF Coherent, Anchored, Firm
<1> QED BY <1>1, <1>2, <1>3, <1>4 DEF Coherent

\* Writing the file's own selection into a superblock slot changes no selection.
LEMMA CoherentCheckpoint ==
    ASSUME NEW s \in [SbSlots -> Superblocks], NEW rg, NEW ds, NEW drg,
           NEW T \in RootSet, NEW U \in RootSet, NEW c \in SbSlots,
           NEW W \in Superblocks, W.valid, W.root = U,
           Coherent(s, rg, ds, drg, T, U)
    PROVE  Coherent([s EXCEPT ![c] = W], rg, ds, drg, T, U)
<1> DEFINE s2 == [s EXCEPT ![c] = W]
<1>1. s2[c] = W /\ \A b \in SbSlots : b # c => s2[b] = s[b]
  OBVIOUS
<1>2. Entries(s2, rg, T, U)
  BY <1>1 DEF Coherent, Entries
<1>3. Anchored(s2, rg, ds, drg, T, U)
  BY <1>1 DEF Coherent, Anchored
<1> QED BY <1>2, <1>3 DEF Coherent

\* So does writing an older root set there, once the ring holds the selected one.
LEMMA CoherentStale ==
    ASSUME NEW s \in [SbSlots -> Superblocks], NEW rg, NEW ds, NEW drg,
           NEW T \in RootSet, NEW c \in SbSlots,
           NEW W \in Superblocks, W.valid, W.root.gen < T.gen,
           rg[RingSlot(T.gen)] = Record(T), drg[RingSlot(T.gen)] = Record(T),
           Coherent(s, rg, ds, drg, T, T)
    PROVE  Coherent([s EXCEPT ![c] = W], rg, ds, drg, T, T)
<1> DEFINE s2 == [s EXCEPT ![c] = W]
<1>1. s2[c] = W /\ \A b \in SbSlots : b # c => s2[b] = s[b]
  OBVIOUS
<1>2. Entries(s2, rg, T, T)
  BY <1>1 DEF Coherent, Entries
<1>3. Anchored(s2, rg, ds, drg, T, T)
  BY DEF Anchored, Firm
<1> QED BY <1>2, <1>3 DEF Coherent

\* Whatever a power loss keeps of the dirty slots, the result selects the medium's
\* root set or the file's.
LEMMA CoherentLoss ==
    ASSUME NEW s \in [SbSlots -> Superblocks], NEW rg \in [Slots -> Records],
           NEW ds \in [SbSlots -> Superblocks], NEW drg \in [Slots -> Records],
           NEW T \in RootSet, NEW U \in RootSet, Coherent(s, rg, ds, drg, T, U),
           NEW ms \in [SbSlots -> Superblocks], NEW mr \in [Slots -> Records],
           \A b \in SbSlots : \/ ms[b] = s[b]
                              \/ ms[b] = ds[b]
                              \/ Firm(rg, drg, T) /\ ms[b] = NoSuperblock,
           \A i \in Slots : \/ mr[i] = rg[i]
                            \/ mr[i] = drg[i]
                            \/ rg[i] # drg[i] /\ mr[i] = NoRecord
    PROVE  Coherent(ms, mr, ms, mr, T, T) \/ Coherent(ms, mr, ms, mr, U, U)
<1>0. T.gen \in Nat /\ U.gen \in Nat /\ (U = T \/ T.gen < U.gen)
  BY DEF RootSet, Coherent
<1>2. Entries(ms, mr, T, U)
  <2>0. ~NoSuperblock.valid
    BY DEF NoSuperblock
  <2>1. \A b \in SbSlots :
          /\ ms[b].valid \/ ms[b] = NoSuperblock
          /\ ms[b].valid => ms[b].root.gen < T.gen \/ ms[b].root = T \/ ms[b].root = U
    BY <2>0 DEF Coherent, Entries
  <2>2. \A i \in Slots : mr[i].valid =>
          RingSlot(mr[i].root.gen) = i
          /\ (mr[i].root.gen < T.gen \/ mr[i].root = T \/ mr[i].root = U)
    BY DEF Coherent, Entries, NoRecord
  <2> QED BY <2>1, <2>2 DEF Entries
<1>3. Entries(ms, mr, U, U)
  BY <1>0, <1>2, EntriesUp
<1>7. U.gen = 0 => U = EmptyRoot
  BY <1>0 DEF Coherent
<1>4. CASE \E b \in SbSlots : ms[b].valid /\ ms[b].root = U
  BY <1>3, <1>4, <1>7 DEF Coherent, Anchored
<1>5. CASE \E i \in Slots : mr[i].valid /\ mr[i].root = U
  <2>1. PICK i \in Slots : mr[i].valid /\ mr[i].root = U
    BY <1>5
  <2>2. mr[i] = Record(U)
    BY <2>1 DEF Records, Record
  <2>3. RingSlot(U.gen) = i
    BY <2>1, <1>2 DEF Entries
  <2> QED BY <2>2, <2>3, <1>3, <1>7 DEF Coherent, Anchored, Firm
<1>6. CASE /\ ~ \E b \in SbSlots : ms[b].valid /\ ms[b].root = U
           /\ ~ \E i \in Slots : mr[i].valid /\ mr[i].root = U
  <2>1. Entries(ms, mr, T, T)
    BY <1>2, <1>6 DEF Entries
  <2>2. Anchored(ms, mr, ms, mr, T, T)
    <3>1. CASE Firm(rg, drg, T)
      <4>1. RingSlot(T.gen) \in Slots
        BY <1>0, RingSlotNext
      <4> QED BY <3>1, <4>1 DEF Anchored, Firm
    <3>2. CASE ~Firm(rg, drg, T) /\
               \E b \in SbSlots : /\ ds[b].valid /\ ds[b].root = T
                                  /\ s[b].valid /\ (s[b].root = T \/ s[b].root = U)
      BY <3>2, <1>6 DEF Anchored
    <3> QED BY <3>1, <3>2 DEF Coherent, Anchored
  <2>3. T.gen = 0 => T = EmptyRoot
    BY DEF Coherent
  <2> QED BY <2>1, <2>2, <2>3 DEF Coherent
<1> QED BY <1>4, <1>5, <1>6

------------------------------------------------------------------------------
(* Planning a transaction *)

\* The metadata reserve is topped up by some number of pages.
LEMMA RefillSizeType ==
    ASSUME NEW root \in RootSet
    PROVE  RefillSize(root) \in Nat
<1>1. IsFiniteSet(Pages)
  BY MaxPagesAssumption, FS_Interval DEF Pages
<1>2. root.reserve \subseteq Pages
  BY DEF RootSet
<1>3. Cardinality(root.reserve) \in Nat
  BY <1>1, <1>2, FS_Subset, FS_CardinalityType
<1> QED BY <1>3, ReserveAssumption DEF RefillSize

\* The pages a transaction may take exist once its page count is published, and the
\* root set it prepares is a root set.
LEMMA PlanType ==
    ASSUME NEW root \in RootSet, NEW stamp \in Nat, NEW lease \in BOOLEAN, NEW ext \in Nat,
           NEW dropped, NEW freed,
           NEW reused \in SUBSET Reusable(root, lease),
           root.count + ext + RefillSize(root) <= MaxPages,
           NEW mapped \in SUBSET (root.reserve \cup Refill(root, root.count + ext)),
           NEW taken, taken = Taken(root, reused, ext, mapped)
    PROVE  /\ taken \subseteq Pages
           /\ Refill(root, root.count + ext) \subseteq Pages
           /\ NextRoot(root, stamp, dropped, freed, reused, ext, mapped) \in RootSet
<1>1. RefillSize(root) \in Nat /\ root.count \in Nat /\ root.gen \in Nat /\ MaxPages \in Nat
  BY RefillSizeType, MaxPagesAssumption DEF RootSet
<1>2. /\ Refill(root, root.count + ext) \subseteq Pages
      /\ root.count .. root.count + ext - 1 \subseteq Pages
  BY <1>1 DEF Refill, Pages
<1>3. reused \subseteq Pages /\ root.reserve \subseteq Pages
  BY DEF Reusable, FreeOf, RootSet
<1>4. taken \subseteq Pages
  BY <1>2, <1>3 DEF Taken
<1>5. root.refs \in [Pages -> Nat] /\ root.free \in [Pages -> Nat]
  BY DEF RootSet
<1>6. NextFree(root, taken, freed, root.gen + 1) \in [Pages -> Nat]
  BY <1>1, <1>5 DEF NextFree
<1>7. [p \in Pages |-> IF p \in taken THEN stamp
                       ELSE IF p \in dropped THEN Blank ELSE root.refs[p]] \in [Pages -> Nat]
  BY <1>5 DEF Blank
<1>8. root.count + ext + RefillSize(root) \in 0 .. MaxPages /\ root.gen + 1 \in Nat
  BY <1>1
<1>9. (root.reserve \cup Refill(root, root.count + ext)) \ mapped \in SUBSET Pages
  BY <1>2, <1>3
<1> QED BY <1>2, <1>4, <1>6, <1>7, <1>8, <1>9 DEF NextRoot, RootSet

\* The prepared root set is well formed; the pages taken are referenced by no root set
\* that holds only old pages; and a page not taken is referenced as before or dropped.
Planned(root, stamp, lease, taken, new) ==
    /\ WellFormed(new) /\ Grows(root, new)
    /\ new.gen = root.gen + 1 /\ new.stamp = stamp
    /\ \A p \in taken : root.refs[p] = Blank /\ new.refs[p] = stamp
    /\ \A p \in Pages : p \notin taken /\ new.refs[p] # Blank => new.refs[p] = root.refs[p]
    /\ ~lease => \A Q \in RootSet : Clear(Q, root) => \A p \in taken : Q.refs[p] = Blank

\* What a transaction prepares from a well-formed root set is as Planned says.
LEMMA PlanSound ==
    ASSUME NEW root \in RootSet, WellFormed(root),
           NEW stamp \in Nat, stamp # Blank, NEW lease \in BOOLEAN, NEW ext \in Nat,
           NEW dropped \in SUBSET Referenced(root), NEW freed \in SUBSET dropped,
           NEW reused \in SUBSET Reusable(root, lease),
           root.count + ext + RefillSize(root) <= MaxPages,
           NEW mapped \in SUBSET (root.reserve \cup Refill(root, root.count + ext))
    PROVE  Planned(root, stamp, lease, Taken(root, reused, ext, mapped),
                   NextRoot(root, stamp, dropped, freed, reused, ext, mapped))
<1> SUFFICES ASSUME NEW taken, taken = Taken(root, reused, ext, mapped),
                    NEW new, new = NextRoot(root, stamp, dropped, freed, reused, ext, mapped)
             PROVE  Planned(root, stamp, lease, taken, new)
  OBVIOUS
<1>1. /\ RefillSize(root) \in Nat /\ root.count \in Nat /\ root.gen \in Nat
      /\ root.refs \in [Pages -> Nat] /\ root.free \in [Pages -> Nat]
      /\ root.reserve \subseteq Pages
  BY RefillSizeType DEF RootSet
<1>2. taken \subseteq Pages /\ Refill(root, root.count + ext) \subseteq Pages
  BY PlanType
<1>6a. /\ new.count = root.count + ext + RefillSize(root)
      /\ root.count <= new.count /\ root.count + ext <= new.count /\ new.count \in Nat
  BY <1>1 DEF NextRoot
<1>6b. new.reserve = (root.reserve \cup Refill(root, root.count + ext)) \ mapped
  BY DEF NextRoot
<1>3. /\ new.gen = root.gen + 1 /\ new.stamp = stamp
      /\ \A p \in Pages : new.refs[p] = IF p \in taken THEN stamp
                               ELSE IF p \in dropped THEN Blank ELSE root.refs[p]
      /\ \A p \in Pages : new.free[p] = IF p \in taken THEN 0
                               ELSE IF p \in freed THEN root.gen + 1 ELSE root.free[p]
  BY DEF NextRoot, NextFree
<1>4. \A p \in Refill(root, root.count + ext) :
         /\ p \in Nat /\ root.count + ext <= p /\ root.count <= p /\ p < new.count
         /\ ~(p < root.count) /\ p \notin root.count .. root.count + ext - 1
  BY <1>1, <1>6a DEF Refill
<1>9. \A p \in Nat : p < root.count => p < new.count
  BY <1>1, <1>6a
<1>6c. \A p \in root.reserve : /\ p \in Nat /\ p < root.count
                              /\ root.refs[p] = Blank /\ root.free[p] = 0
  BY <1>1 DEF WellFormed, Pages
<1>6d. \A p \in root.count .. root.count + ext - 1 :
         p \in Nat /\ root.count <= p /\ p < new.count /\ ~(p < root.count)
  BY <1>1, <1>6a
<1>5. \A p \in taken : p < new.count /\ root.refs[p] = Blank
  <2> TAKE p \in taken
  <2>1. p \in Pages /\ p \in Nat
    BY <1>2 DEF Pages
  <2>5. p < root.count \/ root.refs[p] = Blank
    BY <2>1 DEF WellFormed
  <2>2. CASE p \in reused
    <3>1. root.free[p] # 0
      BY <2>2 DEF Reusable, FreeOf
    <3>2. p < root.count /\ root.refs[p] = Blank
      BY <2>1, <3>1 DEF WellFormed
    <3> QED BY <3>2, <1>6a, <1>1, <2>1
  <2>3. CASE p \in root.count .. root.count + ext - 1
    BY <1>6d, <2>3, <2>5
  <2>4. CASE p \in mapped
    <3>1. CASE p \in root.reserve
      BY <3>1, <1>6c, <1>6a, <1>1
    <3>2. CASE p \in Refill(root, root.count + ext)
      BY <3>2, <1>4, <2>5
    <3> QED BY <2>4, <3>1, <3>2
  <2> QED BY <2>2, <2>3, <2>4 DEF Taken
<1>6. WellFormed(new)
  <2> SUFFICES ASSUME NEW p \in Pages
               PROVE  /\ new.refs[p] # Blank =>
                           new.free[p] = 0 /\ p \notin new.reserve /\ p < new.count
                      /\ new.free[p] # 0 => p \notin new.reserve /\ p < new.count
                      /\ p \in new.reserve => p < new.count
    BY DEF WellFormed
  <2>1. p \in Nat
    BY DEF Pages
  <2>2. p \in root.reserve => root.refs[p] = Blank /\ root.free[p] = 0 /\ p < root.count
    BY <1>6c
  <2>3. p \in dropped => root.refs[p] # Blank
    BY DEF Referenced
  <2>4. p \in new.reserve => p < new.count
    BY <1>6b, <1>4, <1>9, <2>1, <2>2
  <2>5. p \in new.reserve => p \notin taken
    <3> SUFFICES ASSUME p \in new.reserve, p \in taken PROVE FALSE
      OBVIOUS
    <3>1. p \notin mapped /\ (p \in root.reserve \/ p \in Refill(root, root.count + ext))
      BY <1>6b
    <3>2. CASE p \in reused
      <4>1. root.free[p] # 0 /\ p < root.count
        BY <3>2 DEF Reusable, FreeOf, WellFormed
      <4> QED BY <4>1, <3>1, <2>2, <1>4, <1>1, <2>1
    <3>3. CASE p \in root.count .. root.count + ext - 1
      BY <3>1, <3>3, <2>2, <1>4, <1>6d
    <3> QED BY <3>1, <3>2, <3>3 DEF Taken
  <2>6. p \notin taken /\ root.refs[p] # Blank => root.free[p] = 0 /\ p < new.count
                                                  /\ p \notin new.reserve
    BY <1>6b, <1>4, <1>9, <2>1, <2>2 DEF WellFormed
  <2>7. p \notin taken /\ root.free[p] # 0 => p < new.count /\ p \notin new.reserve
    BY <1>6b, <1>4, <1>9, <2>1, <2>2 DEF WellFormed
  <2>8. new.refs[p] # Blank => new.free[p] = 0 /\ p \notin new.reserve /\ p < new.count
    <3>1. CASE p \in taken
      BY <3>1, <1>3, <1>5, <2>5
    <3>2. CASE p \notin taken
      BY <3>2, <1>3, <2>6, <2>3
    <3> QED BY <3>1, <3>2
  <2>9. new.free[p] # 0 => p \notin new.reserve /\ p < new.count
    <3>1. CASE p \in taken
      BY <3>1, <1>3
    <3>2. CASE p \notin taken
      BY <3>2, <1>3, <2>3, <2>6, <2>7
    <3> QED BY <3>1, <3>2
  <2> QED BY <2>4, <2>8, <2>9
<1>7. Grows(root, new)
  BY <1>6a, <1>6b, <1>4 DEF Grows
<1>8. ~lease => \A Q \in RootSet : Clear(Q, root) => \A p \in taken : Q.refs[p] = Blank
  <2> SUFFICES ASSUME ~lease, NEW Q \in RootSet, Clear(Q, root), NEW p \in taken
               PROVE  Q.refs[p] = Blank
    OBVIOUS
  <2>1. p \in Pages /\ p \in Nat
    BY <1>2 DEF Pages
  <2>2. p \notin reused
    BY DEF Reusable
  <2>3. CASE p \in root.count .. root.count + ext - 1
    BY <2>1, <2>3, <1>1 DEF Clear
  <2>4. CASE p \in mapped
    BY <2>1, <2>4, <1>1, <1>4 DEF Clear
  <2> QED BY <2>2, <2>3, <2>4 DEF Taken
<1> QED BY <1>3, <1>5, <1>6, <1>7, <1>8, <1>2 DEF Planned

------------------------------------------------------------------------------
(* Type correctness, whatever the faults *)

\* What an open adopts is a root set and a metadata version.
LEMMA SelectedType ==
    ASSUME NEW s \in [SbSlots -> Superblocks], NEW rg \in [Slots -> Records]
    PROVE  /\ BestSlot(s) \in SbSlots
           /\ Selected(s, rg) \in RootSet
           /\ SelectedMeta(s, rg) \in Nat
<1>1. BestSlot(s) \in SbSlots
  BY DEF BestSlot, SbSlots
<1>2. s[BestSlot(s)].root \in RootSet /\ s[BestSlot(s)].meta \in Nat
  BY <1>1 DEF Superblocks
<1>3. CASE \E i \in Slots : IsNewest(rg, i) /\ rg[i].root.gen > s[BestSlot(s)].root.gen
  <2>1. (CHOOSE i \in Slots : IsNewest(rg, i)) \in Slots
    BY <1>3
  <2>2. rg[CHOOSE i \in Slots : IsNewest(rg, i)].root \in RootSet
    BY <2>1 DEF Records
  <2> QED BY <1>1, <1>2, <1>3, <2>2 DEF Selected, SelectedMeta
<1> QED BY <1>1, <1>2, <1>3 DEF Selected, SelectedMeta

\* Begin plans one transaction from the adopted root set.
LEMMA BeginPlan ==
    ASSUME Begin
    PROVE  \E dropped \in SUBSET Referenced(inner.root), ext \in 0 .. MaxWrites :
           \E freed \in SUBSET dropped, reused \in SUBSET Reusable(inner.root, LeaseFree) :
           \E mapped \in SUBSET (inner.root.reserve
                                   \cup Refill(inner.root, inner.root.count + ext)) :
              /\ inner.root.count + ext + RefillSize(inner.root) <= MaxPages
              /\ txn' = [root |-> NextRoot(inner.root, stamps + 1, dropped, freed, reused, ext,
                                           mapped),
                         todo |-> Taken(inner.root, reused, ext, mapped),
                         lease |-> LeaseFree]
BY Zenon DEF Begin

\* Begin prepares a well-typed transaction.
LEMMA TypeBegin == TypeOK /\ Begin => TypeOK'
<1> SUFFICES ASSUME TypeOK, Begin PROVE TypeOK'
  OBVIOUS
<1>1. PICK dropped \in SUBSET Referenced(inner.root), ext \in 0 .. MaxWrites :
         \E freed \in SUBSET dropped, reused \in SUBSET Reusable(inner.root, LeaseFree) :
         \E mapped \in SUBSET (inner.root.reserve
                                 \cup Refill(inner.root, inner.root.count + ext)) :
            /\ inner.root.count + ext + RefillSize(inner.root) <= MaxPages
            /\ txn' = [root |-> NextRoot(inner.root, stamps + 1, dropped, freed, reused, ext,
                                         mapped),
                       todo |-> Taken(inner.root, reused, ext, mapped),
                       lease |-> LeaseFree]
  BY BeginPlan
<1>2. PICK freed \in SUBSET dropped, reused \in SUBSET Reusable(inner.root, LeaseFree) :
         \E mapped \in SUBSET (inner.root.reserve
                                 \cup Refill(inner.root, inner.root.count + ext)) :
            /\ inner.root.count + ext + RefillSize(inner.root) <= MaxPages
            /\ txn' = [root |-> NextRoot(inner.root, stamps + 1, dropped, freed, reused, ext,
                                         mapped),
                       todo |-> Taken(inner.root, reused, ext, mapped),
                       lease |-> LeaseFree]
  BY <1>1
<1>3. PICK mapped \in SUBSET (inner.root.reserve
                                 \cup Refill(inner.root, inner.root.count + ext)) :
            /\ inner.root.count + ext + RefillSize(inner.root) <= MaxPages
            /\ txn' = [root |-> NextRoot(inner.root, stamps + 1, dropped, freed, reused, ext,
                                         mapped),
                       todo |-> Taken(inner.root, reused, ext, mapped),
                       lease |-> LeaseFree]
  BY <1>2
<1>4. inner.root \in RootSet /\ stamps + 1 \in Nat /\ ext \in Nat /\ LeaseFree \in BOOLEAN
  BY BoundsAssumption DEF TypeOK, LeaseFree
<1>5. /\ Taken(inner.root, reused, ext, mapped) \subseteq Pages
      /\ NextRoot(inner.root, stamps + 1, dropped, freed, reused, ext, mapped) \in RootSet
  BY <1>3, <1>4, PlanType
<1>6. txn' \in [root : RootSet, todo : SUBSET Pages, lease : BOOLEAN]
  BY <1>3, <1>4, <1>5
<1> QED BY <1>4, <1>6 DEF TypeOK, Begin, fileVars, mediumVars, Steps

\* A power loss leaves a well-typed file.
LEMMA TypePowerLoss == TypeOK /\ PowerLoss => TypeOK'
<1> SUFFICES ASSUME TypeOK, PowerLoss PROVE TypeOK'
  OBVIOUS
<1>1. dlen' \in Nat
  BY DEF TypeOK, PowerLoss
<1>2. dpage' \in [Pages -> Nat]
  BY DEF TypeOK, PowerLoss, Blank
<1>3. dring' \in [Slots -> Records]
  BY Constructors DEF TypeOK, PowerLoss
<1>4. dsb' \in [SbSlots -> Superblocks]
  BY Constructors DEF TypeOK, PowerLoss
<1>5. /\ sb' = dsb' /\ ring' = dring' /\ page' = dpage' /\ len' = dlen'
      /\ pc' = "closed"
      /\ inner' = NoInner /\ txn' = NoTxn
      /\ rekey' = [k \in Rekeyers |-> NoRekey]
      /\ reader' = [r \in Readers |-> NoReader]
      /\ losses' = losses + 1
      /\ UNCHANGED <<stamps, history>>
  BY DEF PowerLoss
<1>6. /\ inner' \in [root : RootSet, meta : Nat]
      /\ txn' \in [root : RootSet, todo : SUBSET Pages, lease : BOOLEAN]
      /\ rekey' \in [Rekeyers -> [step : {"idle", "encode", "write", "sync"},
                                  image : Superblocks]]
      /\ reader' \in [Readers -> [step : {"closed", "leased", "reading"}, root : RootSet]]
  BY <1>5, Constructors DEF NoInner, NoTxn, NoRekey, NoReader
<1> QED BY <1>1, <1>2, <1>3, <1>4, <1>5, <1>6 DEF TypeOK, Steps, history

\* Every step keeps the types.
LEMMA TypeStep == TypeOK /\ [Next]_vars => TypeOK'
<1> SUFFICES ASSUME TypeOK, [Next]_vars PROVE TypeOK'
  OBVIOUS
<1>1. CASE Begin
  BY <1>1, TypeBegin
<1>2. ASSUME NEW p \in Pages, WritePage(p) PROVE TypeOK'
  <2>1. txn.root.stamp \in Nat /\ p + 1 \in Nat
    BY DEF TypeOK, RootSet, Pages
  <2>2. page' \in [Pages -> Nat] /\ len' \in Nat
    BY <1>2, <2>1 DEF TypeOK, WritePage
  <2>3. txn' \in [root : RootSet, todo : SUBSET Pages, lease : BOOLEAN]
    BY <1>2 DEF TypeOK, WritePage
  <2> QED BY <1>2, <2>2, <2>3 DEF TypeOK, WritePage, mediumVars, history
<1>3. CASE SyncPages
  BY <1>3 DEF TypeOK, SyncPages, Steps, fileVars, mediumVars, history, Fsync
<1>4. CASE WriteRecord
  <2>1. txn.root \in RootSet /\ txn.root.gen \in Nat
    BY DEF TypeOK, RootSet
  <2>2. RingSlot(txn.root.gen) \in Slots /\ Record(txn.root) \in Records
    BY <2>1, RingSlotNext, Constructors
  <2> QED BY <1>4, <2>2 DEF TypeOK, WriteRecord, Steps, mediumVars, history
<1>5. CASE Commit
  BY <1>5 DEF TypeOK, Commit, Steps, fileVars, mediumVars, history, Fsync
<1>6. CASE Grow
  <2>1. txn.root.count \in Nat
    BY MaxPagesAssumption DEF TypeOK, RootSet
  <2> QED BY <1>6, <2>1 DEF TypeOK, Grow, Steps, mediumVars, history
<1>7. CASE WriteCheckpoint
  <2>1. txn.root \in RootSet /\ txn.root.gen \in Nat /\ inner.meta \in Nat
    BY DEF TypeOK, RootSet
  <2>2. /\ CheckpointSlot(txn.root.gen) \in SbSlots
        /\ Superblock(txn.root, inner.meta) \in Superblocks
    BY <2>1, CheckpointSlotType, Constructors
  <2> QED BY <1>7, <2>2 DEF TypeOK, WriteCheckpoint, Steps, mediumVars, history
<1>8. CASE SyncCheckpoint
  BY <1>8 DEF TypeOK, SyncCheckpoint, Steps, fileVars, mediumVars, history, Fsync
<1>9. CASE Adopt
  <2>1. txn.root \in RootSet /\ txn.root.stamp \in Nat /\ inner.meta \in Nat
    BY DEF TypeOK, RootSet
  <2>2. txn' \in [root : RootSet, todo : SUBSET Pages, lease : BOOLEAN]
    BY <1>9, Constructors DEF Adopt, NoTxn
  <2> QED BY <1>9, <2>1, <2>2 DEF TypeOK, Adopt, Steps, fileVars, mediumVars
<1>10. CASE FailTxn
  <2>1. txn' \in [root : RootSet, todo : SUBSET Pages, lease : BOOLEAN]
    BY <1>10, Constructors DEF FailTxn, NoTxn
  <2> QED BY <1>10, <2>1 DEF TypeOK, FailTxn, Steps, fileVars, mediumVars, history
<1>11. ASSUME NEW k \in Rekeyers, RekeySet(k) PROVE TypeOK'
  BY <1>11, Constructors DEF TypeOK, RekeySet, Steps, fileVars, mediumVars, history
<1>12. ASSUME NEW k \in Rekeyers, RekeyEncode(k) PROVE TypeOK'
  BY <1>12, Constructors DEF TypeOK, RekeyEncode, Steps, fileVars, mediumVars, history
<1>13. ASSUME NEW k \in Rekeyers, RekeyWrite(k) PROVE TypeOK'
  <2>1. rekey[k].image \in Superblocks /\ rekey[k].image.root.gen \in Nat
    BY DEF TypeOK, Superblocks, RootSet
  <2>2. CheckpointSlot(rekey[k].image.root.gen) \in SbSlots
    BY <2>1, CheckpointSlotType
  <2> QED BY <1>13, <2>1, <2>2 DEF TypeOK, RekeyWrite, Steps, mediumVars, history
<1>14. ASSUME NEW k \in Rekeyers, RekeySync(k) PROVE TypeOK'
  <2>1. NoRekey \in [step : {"idle", "encode", "write", "sync"}, image : Superblocks]
    BY Constructors DEF NoRekey
  <2>2. rekey[k].image.meta \in Nat
    BY DEF TypeOK, Superblocks
  <2> QED BY <1>14, <2>1, <2>2 DEF TypeOK, RekeySync, Fsync, Steps, fileVars
<1>15. CASE Exit
  <2>1. /\ inner' \in [root : RootSet, meta : Nat]
        /\ txn' \in [root : RootSet, todo : SUBSET Pages, lease : BOOLEAN]
        /\ rekey' \in [Rekeyers -> [step : {"idle", "encode", "write", "sync"},
                                    image : Superblocks]]
    BY <1>15, Constructors DEF Exit, NoInner, NoTxn, NoRekey
  <2> QED BY <1>15, <2>1 DEF TypeOK, Exit, Steps, fileVars, mediumVars, history
<1>16. CASE PowerLoss
  BY <1>16, TypePowerLoss
<1>17. CASE Open
  <2>1. /\ Selected(sb, ring) \in RootSet /\ SelectedMeta(sb, ring) \in Nat
        /\ Selected(sb, ring).gen \in Nat
    BY SelectedType DEF TypeOK, RootSet
  <2>2. /\ CheckpointSlot(Selected(sb, ring).gen) \in SbSlots
        /\ Superblock(Selected(sb, ring), SelectedMeta(sb, ring)) \in Superblocks
    BY <2>1, CheckpointSlotType, Constructors
  <2> QED BY <1>17, <2>1, <2>2 DEF TypeOK, Open, Steps, mediumVars, history
<1>18. CASE SyncFold
  BY <1>18 DEF TypeOK, SyncFold, Steps, fileVars, mediumVars, history, Fsync
<1>19. CASE Load
  <2>1. inner.root.stamp \in Nat
    BY DEF TypeOK, RootSet
  <2> QED BY <1>19, <2>1 DEF TypeOK, Load, Steps, fileVars, mediumVars
<1>20. CASE Refuse
  <2>1. inner' \in [root : RootSet, meta : Nat]
    BY <1>20, Constructors DEF Refuse, NoInner
  <2> QED BY <1>20, <2>1 DEF TypeOK, Refuse, Steps, fileVars, mediumVars, history
<1>21. ASSUME NEW r \in Readers, Lease(r) PROVE TypeOK'
  BY <1>21, Constructors DEF TypeOK, Lease, Steps, fileVars, mediumVars, history
<1>22. ASSUME NEW r \in Readers, OpenRead(r) PROVE TypeOK'
  <2>1. Selected(sb, ring) \in RootSet
    BY SelectedType DEF TypeOK
  <2> QED BY <1>22, <2>1 DEF TypeOK, OpenRead, Steps, fileVars, mediumVars, history
<1>23. ASSUME NEW r \in Readers, CloseRead(r) PROVE TypeOK'
  <2>1. NoReader \in [step : {"closed", "leased", "reading"}, root : RootSet]
    BY Constructors DEF NoReader
  <2> QED BY <1>23, <2>1 DEF TypeOK, CloseRead, Steps, fileVars, mediumVars, history
<1>24. CASE UNCHANGED vars
  BY <1>24 DEF TypeOK, vars
<1> QED BY <1>1, <1>2, <1>3, <1>4, <1>5, <1>6, <1>7, <1>8, <1>9, <1>10, <1>11, <1>12,
           <1>13, <1>14, <1>15, <1>16, <1>17, <1>18, <1>19, <1>20, <1>21, <1>22, <1>23,
           <1>24 DEF Next

\* A new file is well typed.
LEMMA TypeInit == Init => TypeOK
<1> SUFFICES ASSUME Init PROVE TypeOK
  OBVIOUS
<1>1. /\ sb \in [SbSlots -> Superblocks] /\ ring \in [Slots -> Records]
      /\ page \in [Pages -> Nat] /\ len \in Nat
  BY Constructors DEF Init, Blank
<1>2. /\ inner \in [root : RootSet, meta : Nat]
      /\ txn \in [root : RootSet, todo : SUBSET Pages, lease : BOOLEAN]
      /\ rekey \in [Rekeyers -> [step : {"idle", "encode", "write", "sync"},
                                 image : Superblocks]]
      /\ reader \in [Readers -> [step : {"closed", "leased", "reading"}, root : RootSet]]
  BY Constructors DEF Init, NoInner, NoTxn, NoRekey, NoReader
<1>3. dsb = sb /\ dring = ring /\ dpage = page /\ dlen = len
  BY DEF Init
<1>4. /\ pc \in Steps /\ stamps \in Nat /\ losses \in Nat
      /\ acked \in Nat /\ offered \subseteq Nat /\ ackedMeta \in Nat
  BY DEF Init, Steps
<1> QED BY <1>1, <1>2, <1>3, <1>4 DEF TypeOK

\* FileStore is type correct under every fault: a root set that a commit publishes, a
\* fold or rekey rewrites, or a power loss leaves is a well-formed record of the format.
THEOREM TypeCorrect == Spec => []TypeOK
<1>1. Init => TypeOK
  BY TypeInit
<1>2. TypeOK /\ [Next]_vars => TypeOK'
  BY TypeStep
<1> QED BY <1>1, <1>2, PTL DEF Spec

------------------------------------------------------------------------------
(* Page ownership, whatever the faults *)

\* Every root set in the file, on the medium or in memory gives a page one owner, and a
\* transaction writes no page that the adopted root set references.
ShapeInv ==
    /\ \A b \in SbSlots : WellFormed(sb[b].root) /\ WellFormed(dsb[b].root)
    /\ \A i \in Slots : WellFormed(ring[i].root) /\ WellFormed(dring[i].root)
    /\ WellFormed(inner.root) /\ WellFormed(txn.root)
    /\ \A k \in Rekeyers : WellFormed(rekey[k].image.root)
    /\ pc = "write" => \A p \in txn.todo : inner.root.refs[p] = Blank

LEMMA EmptyShape ==
    /\ WellFormed(EmptyRoot) /\ WellFormed(NoRecord.root) /\ WellFormed(NoSuperblock.root)
    /\ WellFormed(NoInner.root) /\ WellFormed(NoTxn.root) /\ WellFormed(NoRekey.image.root)
<1>1. WellFormed(EmptyRoot)
  BY DEF WellFormed, EmptyRoot
<1>2. /\ NoRecord.root = EmptyRoot /\ NoSuperblock.root = EmptyRoot /\ NoInner.root = EmptyRoot
      /\ NoTxn.root = EmptyRoot /\ NoRekey.image.root = EmptyRoot
  BY DEF NoRecord, NoSuperblock, NoInner, NoTxn, NoRekey
<1> QED BY <1>1, <1>2

\* What an open selects is one of the root sets of the image.
LEMMA SelectedFrom ==
    ASSUME NEW s, NEW rg
    PROVE  \/ \E b \in SbSlots : Selected(s, rg) = s[b].root
           \/ \E i \in Slots : rg[i].valid /\ Selected(s, rg) = rg[i].root
<1>1. BestSlot(s) \in SbSlots
  BY DEF BestSlot, SbSlots
<1>2. CASE \E i \in Slots : IsNewest(rg, i) /\ rg[i].root.gen > s[BestSlot(s)].root.gen
  <2>1. PICK j \in Slots : IsNewest(rg, j) /\ Selected(s, rg) = rg[j].root
    BY <1>2 DEF Selected
  <2> QED BY <2>1 DEF IsNewest
<1>3. CASE ~ \E i \in Slots : IsNewest(rg, i) /\ rg[i].root.gen > s[BestSlot(s)].root.gen
  BY <1>1, <1>3 DEF Selected
<1> QED BY <1>2, <1>3

LEMMA ShapeBegin ==
    ASSUME TypeOK, ShapeInv, Begin
    PROVE  ShapeInv'
<1>1. PICK dropped \in SUBSET Referenced(inner.root), ext \in 0 .. MaxWrites :
         \E freed \in SUBSET dropped, reused \in SUBSET Reusable(inner.root, LeaseFree) :
         \E mapped \in SUBSET (inner.root.reserve
                                 \cup Refill(inner.root, inner.root.count + ext)) :
            /\ inner.root.count + ext + RefillSize(inner.root) <= MaxPages
            /\ txn' = [root |-> NextRoot(inner.root, stamps + 1, dropped, freed, reused, ext,
                                         mapped),
                       todo |-> Taken(inner.root, reused, ext, mapped),
                       lease |-> LeaseFree]
  BY BeginPlan
<1>2. PICK freed \in SUBSET dropped, reused \in SUBSET Reusable(inner.root, LeaseFree) :
         \E mapped \in SUBSET (inner.root.reserve
                                 \cup Refill(inner.root, inner.root.count + ext)) :
            /\ inner.root.count + ext + RefillSize(inner.root) <= MaxPages
            /\ txn' = [root |-> NextRoot(inner.root, stamps + 1, dropped, freed, reused, ext,
                                         mapped),
                       todo |-> Taken(inner.root, reused, ext, mapped),
                       lease |-> LeaseFree]
  BY <1>1
<1>3. PICK mapped \in SUBSET (inner.root.reserve
                                 \cup Refill(inner.root, inner.root.count + ext)) :
            /\ inner.root.count + ext + RefillSize(inner.root) <= MaxPages
            /\ txn' = [root |-> NextRoot(inner.root, stamps + 1, dropped, freed, reused, ext,
                                         mapped),
                       todo |-> Taken(inner.root, reused, ext, mapped),
                       lease |-> LeaseFree]
  BY <1>2
<1>4. /\ inner.root \in RootSet /\ stamps + 1 \in Nat /\ stamps + 1 # Blank /\ ext \in Nat
      /\ LeaseFree \in BOOLEAN /\ WellFormed(inner.root)
  BY BoundsAssumption DEF TypeOK, LeaseFree, Blank, ShapeInv
<1>5. Planned(inner.root, stamps + 1, LeaseFree, txn'.todo, txn'.root)
  BY <1>3, <1>4, PlanSound
<1>6. WellFormed(txn'.root) /\ \A p \in txn'.todo : inner.root.refs[p] = Blank
  BY <1>5 DEF Planned
<1> QED BY <1>6 DEF ShapeInv, Begin, fileVars, mediumVars

LEMMA ShapePowerLoss ==
    ASSUME TypeOK, ShapeInv, PowerLoss
    PROVE  ShapeInv'
<1>1. \A i \in Slots : dring'[i] = ring[i] \/ dring'[i] = dring[i] \/ dring'[i] = NoRecord
  BY DEF PowerLoss
<1>2. \A b \in SbSlots : dsb'[b] = sb[b] \/ dsb'[b] = dsb[b] \/ dsb'[b] = NoSuperblock
  BY DEF PowerLoss
<1>3. /\ sb' = dsb' /\ ring' = dring' /\ pc' = "closed" /\ inner' = NoInner /\ txn' = NoTxn
      /\ rekey' = [k \in Rekeyers |-> NoRekey]
  BY DEF PowerLoss
<1>4. \A b \in SbSlots : WellFormed(dsb'[b].root)
  BY <1>2, EmptyShape DEF ShapeInv
<1>5. \A i \in Slots : WellFormed(dring'[i].root)
  BY <1>1, EmptyShape DEF ShapeInv
<1> QED BY <1>3, <1>4, <1>5, EmptyShape DEF ShapeInv

\* A superblock slot or a ring slot takes a well-formed root set.
LEMMA ShapePut ==
    ASSUME TypeOK, ShapeInv
    PROVE  /\ \A c \in SbSlots, W \in Superblocks : WellFormed(W.root) =>
                 \A b \in SbSlots : WellFormed([sb EXCEPT ![c] = W][b].root)
           /\ \A c \in Slots, W \in Records : WellFormed(W.root) =>
                 \A i \in Slots : WellFormed([ring EXCEPT ![c] = W][i].root)
           /\ WellFormed(Selected(sb, ring))
<1>1. WellFormed(Selected(sb, ring))
  BY SelectedFrom DEF ShapeInv
<1>2. /\ \A c \in SbSlots, W \in Superblocks : WellFormed(W.root) =>
            \A b \in SbSlots : WellFormed([sb EXCEPT ![c] = W][b].root)
  BY DEF TypeOK, ShapeInv
<1>3. /\ \A c \in Slots, W \in Records : WellFormed(W.root) =>
            \A i \in Slots : WellFormed([ring EXCEPT ![c] = W][i].root)
  BY DEF TypeOK, ShapeInv
<1> QED BY <1>1, <1>2, <1>3

LEMMA ShapeStep == TypeOK /\ ShapeInv /\ [Next]_vars => ShapeInv'
<1> SUFFICES ASSUME TypeOK, ShapeInv, [Next]_vars PROVE ShapeInv'
  OBVIOUS
<1>1. CASE Begin
  BY <1>1, ShapeBegin
<1>2. ASSUME NEW p \in Pages, WritePage(p) PROVE ShapeInv'
  <2>1. txn'.root = txn.root /\ txn'.todo \subseteq txn.todo
    BY <1>2 DEF WritePage, TypeOK
  <2> QED BY <1>2, <2>1 DEF ShapeInv, WritePage, mediumVars
<1>3. CASE SyncPages \/ Commit \/ SyncCheckpoint \/ SyncFold
  BY <1>3 DEF ShapeInv, SyncPages, Commit, SyncCheckpoint, SyncFold, Fsync, fileVars
<1>4. CASE WriteRecord
  <2>1. txn.root \in RootSet /\ txn.root.gen \in Nat
    BY DEF TypeOK, RootSet
  <2>2. /\ RingSlot(txn.root.gen) \in Slots /\ Record(txn.root) \in Records
        /\ Record(txn.root).root = txn.root
    BY <2>1, RingSlotNext, Constructors
  <2>3. \A i \in Slots : WellFormed(ring'[i].root)
    BY <1>4, <2>2, ShapePut DEF WriteRecord, ShapeInv
  <2> QED BY <1>4, <2>3 DEF ShapeInv, WriteRecord, mediumVars
<1>5. CASE Grow
  BY <1>5 DEF ShapeInv, Grow, mediumVars
<1>6. CASE WriteCheckpoint
  <2>1. txn.root \in RootSet /\ txn.root.gen \in Nat /\ inner.meta \in Nat
    BY DEF TypeOK, RootSet
  <2>2. /\ CheckpointSlot(txn.root.gen) \in SbSlots
        /\ Superblock(txn.root, inner.meta) \in Superblocks
        /\ Superblock(txn.root, inner.meta).root = txn.root
    BY <2>1, CheckpointSlotType, Constructors
  <2>3. \A b \in SbSlots : WellFormed(sb'[b].root)
    BY <1>6, <2>2, ShapePut DEF WriteCheckpoint, ShapeInv
  <2> QED BY <1>6, <2>3 DEF ShapeInv, WriteCheckpoint, mediumVars
<1>7. CASE Adopt
  <2>1. inner'.root = txn.root
    BY <1>7 DEF Adopt
  <2> QED BY <1>7, <2>1, EmptyShape DEF ShapeInv, Adopt, fileVars, mediumVars
<1>8. CASE FailTxn
  BY <1>8, EmptyShape DEF ShapeInv, FailTxn, fileVars, mediumVars
<1>9. ASSUME NEW k \in Rekeyers, RekeySet(k) PROVE ShapeInv'
  <2>1. inner'.root = inner.root /\ pc' = pc /\ pc = "idle"
    BY <1>9 DEF RekeySet
  <2>2. \A j \in Rekeyers : rekey'[j].image = NoSuperblock \/ rekey'[j] = rekey[j]
    BY <1>9 DEF RekeySet, TypeOK
  <2>3. \A j \in Rekeyers : WellFormed(rekey'[j].image.root)
    BY <2>2, EmptyShape DEF ShapeInv
  <2> QED BY <1>9, <2>1, <2>3 DEF ShapeInv, RekeySet, fileVars, mediumVars
<1>10. ASSUME NEW k \in Rekeyers, RekeyEncode(k) PROVE ShapeInv'
  <2>1. Superblock(inner.root, inner.meta).root = inner.root
    BY DEF Superblock
  <2>2. \A j \in Rekeyers : rekey'[j].image = Superblock(inner.root, inner.meta)
                             \/ rekey'[j] = rekey[j]
    BY <1>10 DEF RekeyEncode, TypeOK
  <2>3. \A j \in Rekeyers : WellFormed(rekey'[j].image.root)
    BY <2>1, <2>2 DEF ShapeInv
  <2> QED BY <1>10, <2>3 DEF ShapeInv, RekeyEncode, fileVars, mediumVars
<1>11. ASSUME NEW k \in Rekeyers, RekeyWrite(k) PROVE ShapeInv'
  <2> DEFINE W == rekey[k].image
  <2>1. W \in Superblocks /\ W.root.gen \in Nat /\ WellFormed(W.root)
    BY DEF TypeOK, Superblocks, RootSet, ShapeInv
  <2>2. sb' = [sb EXCEPT ![CheckpointSlot(W.root.gen)] = W]
    BY <1>11 DEF RekeyWrite
  <2>3. \A j \in Rekeyers : rekey'[j].image = rekey[j].image
    BY <1>11 DEF RekeyWrite, TypeOK
  <2> HIDE DEF W
  <2>4. \A b \in SbSlots : WellFormed(sb'[b].root)
    BY <2>1, <2>2, CheckpointSlotType, ShapePut
  <2> QED BY <1>11, <2>3, <2>4 DEF ShapeInv, RekeyWrite, mediumVars
<1>12. ASSUME NEW k \in Rekeyers, RekeySync(k) PROVE ShapeInv'
  <2>1. \A j \in Rekeyers : rekey'[j] = NoRekey \/ rekey'[j] = rekey[j]
    BY <1>12 DEF RekeySync, TypeOK
  <2>2. \A j \in Rekeyers : WellFormed(rekey'[j].image.root)
    BY <2>1, EmptyShape DEF ShapeInv
  <2> QED BY <1>12, <2>2 DEF ShapeInv, RekeySync, Fsync, fileVars
<1>13. CASE Exit
  BY <1>13, EmptyShape DEF ShapeInv, Exit, fileVars, mediumVars
<1>14. CASE PowerLoss
  BY <1>14, ShapePowerLoss
<1>15. CASE Open
  <2> DEFINE root == Selected(sb, ring)
             W == Superblock(root, SelectedMeta(sb, ring))
  <2>1. root \in RootSet /\ root.gen \in Nat /\ SelectedMeta(sb, ring) \in Nat /\ WellFormed(root)
    BY SelectedType, ShapePut DEF TypeOK, RootSet
  <2>2. W \in Superblocks /\ W.root = root /\ CheckpointSlot(root.gen) \in SbSlots
    BY <2>1, Constructors, CheckpointSlotType
  <2>3. sb' = sb \/ sb' = [sb EXCEPT ![CheckpointSlot(root.gen)] = W]
    BY <1>15 DEF Open
  <2>4. inner'.root = root /\ pc' # "write"
    BY <1>15 DEF Open
  <2> HIDE DEF root, W
  <2>5. \A b \in SbSlots : WellFormed(sb'[b].root)
    BY <2>1, <2>2, <2>3, ShapePut DEF ShapeInv
  <2> QED BY <1>15, <2>1, <2>4, <2>5 DEF ShapeInv, Open, mediumVars
<1>16. CASE Load
  BY <1>16 DEF ShapeInv, Load, fileVars, mediumVars
<1>17. CASE Refuse
  BY <1>17, EmptyShape DEF ShapeInv, Refuse, fileVars, mediumVars
<1>18. ASSUME NEW r \in Readers, Lease(r) \/ OpenRead(r) \/ CloseRead(r) PROVE ShapeInv'
  BY <1>18 DEF ShapeInv, Lease, OpenRead, CloseRead, fileVars, mediumVars
<1>19. CASE UNCHANGED vars
  BY <1>19 DEF ShapeInv, vars
<1> QED BY <1>1, <1>2, <1>3, <1>4, <1>5, <1>6, <1>7, <1>8, <1>9, <1>10, <1>11, <1>12,
           <1>13, <1>14, <1>15, <1>16, <1>17, <1>18, <1>19 DEF Next

THEOREM ShapeInvariant == Spec => []ShapeInv
<1>1. Init => ShapeInv
  <2> SUFFICES ASSUME Init PROVE ShapeInv
    OBVIOUS
  <2>1. \A b \in SbSlots : sb[b].root = EmptyRoot
    BY DEF Init, Superblock
  <2>2. \A i \in Slots : ring[i] = NoRecord
    BY DEF Init
  <2>3. /\ dsb = sb /\ dring = ring /\ pc = "idle" /\ inner = NoInner /\ txn = NoTxn
        /\ \A k \in Rekeyers : rekey[k] = NoRekey
    BY DEF Init
  <2> QED BY <2>1, <2>2, <2>3, EmptyShape DEF ShapeInv
<1> QED BY <1>1, ShapeStep, TypeCorrect, PTL DEF Spec

\* A page of the adopted root set is referenced, free or reserved, one of the three only,
\* and lies below the page count, also after failed writes, torn superblocks and killed
\* opens: PageAllocator never gives one page to two owners.
THEOREM PagesHaveOneOwner == Spec => []OneOwner
<1>1. TypeOK /\ ShapeInv => OneOwner
  <2> SUFFICES ASSUME TypeOK, ShapeInv
               PROVE  /\ Referenced(O) \cap FreeOf(O) = {}
                      /\ O.reserve \cap (Referenced(O) \cup FreeOf(O)) = {}
                      /\ \A p \in Referenced(O) \cup FreeOf(O) \cup O.reserve : p < O.count
    BY DEF OneOwner, O
  <2>1. WellFormed(O) /\ O.reserve \subseteq Pages
    BY DEF ShapeInv, TypeOK, RootSet, O
  <2> QED BY <2>1 DEF WellFormed, Referenced, FreeOf
<1> QED BY <1>1, ShapeInvariant, TypeCorrect, PTL

\* No step of a transaction, successful, failed or retried, overwrites a page of the root
\* set that memory keeps reading from, whatever faults occur (PageAllocator, commit_txn).
THEOREM TransactionsSpareAdopted == Spec => TxnSparesAdopted
<1>1. TypeOK /\ ShapeInv /\ [Next]_vars =>
          [inner' = inner /\ Intact(inner.root, page) => Intact(inner.root, page')]_vars
  <2> SUFFICES ASSUME TypeOK, ShapeInv, [Next]_vars, inner' = inner, Intact(inner.root, page)
               PROVE  Intact(inner.root, page')
    OBVIOUS
  <2>1. CASE page' = page
    BY <2>1
  <2>2. ASSUME NEW p \in Pages, WritePage(p) PROVE Intact(inner.root, page')
    <3>1. inner.root.refs[p] = Blank
      BY <2>2 DEF WritePage, ShapeInv
    <3>2. \A q \in Pages : q # p => page'[q] = page[q]
      BY <2>2 DEF WritePage, TypeOK
    <3> QED BY <3>1, <3>2 DEF Intact
  <2>3. CASE PowerLoss
    <3>1. inner.root = EmptyRoot
      BY <2>3 DEF PowerLoss, NoInner
    <3> QED BY <3>1 DEF Intact, EmptyRoot
  <2>4. page' = page \/ PowerLoss \/ \E p \in Pages : WritePage(p)
    BY DEF Next, vars, Begin, SyncPages, WriteRecord, Commit, Grow, WriteCheckpoint,
           SyncCheckpoint, Adopt, FailTxn, RekeySet, RekeyEncode, RekeyWrite, RekeySync, Exit,
           Open, SyncFold, Load, Refuse, Lease, OpenRead, CloseRead, fileVars
  <2> QED BY <2>1, <2>2, <2>3, <2>4
<1> QED BY <1>1, ShapeInvariant, TypeCorrect, PTL DEF Spec, TxnSparesAdopted

------------------------------------------------------------------------------
(* One superblock survives one power loss, when nobody changes the metadata *)

\* Until the power loss both slots decode, at most one of them is dirty, and a dirty one
\* is as new as the ring, so that no open folds another slot while it is dirty.
SurviveInv ==
    /\ HasSuperblock(sb)
    /\ losses = 0 =>
         /\ \A b \in SbSlots : sb[b].valid /\ dsb[b].valid
         /\ sb[0] = dsb[0] \/ sb[1] = dsb[1]
         /\ \A b \in SbSlots : sb[b] # dsb[b] =>
               \A i \in Slots : ring[i].valid => ring[i].root.gen <= sb[b].root.gen
         /\ pc \in {"record", "commit", "grow", "checkpoint"} => sb = dsb
         /\ pc \in {"idle", "fold", "load"} \cup InTxn =>
               \A i \in Slots : ring[i].valid => ring[i].root.gen <= inner.root.gen + 1
         /\ pc \in InTxn => txn.root.gen = inner.root.gen + 1

\* No valid record of the ring is newer than the root set an open selects.
LEMMA SelectedNewest ==
    ASSUME NEW s \in [SbSlots -> Superblocks], NEW rg \in [Slots -> Records]
    PROVE  /\ \A i \in Slots : rg[i].valid => rg[i].root.gen <= Selected(s, rg).gen
           /\ Selected(s, rg) = s[BestSlot(s)].root \/ Selected(s, rg).gen > s[BestSlot(s)].root.gen
<1> DEFINE base == s[BestSlot(s)].root
           T == {rg[i].root.gen : i \in {j \in Slots : rg[j].valid}}
<1>1. base.gen \in Nat /\ \A i \in Slots : rg[i].root.gen \in Nat
  BY SelectedType DEF Superblocks, Records, RootSet
<1>2. CASE \A i \in Slots : rg[i].valid => rg[i].root.gen <= base.gen
  <2>1. ~ \E i \in Slots : IsNewest(rg, i) /\ rg[i].root.gen > base.gen
    BY <1>1, <1>2 DEF IsNewest
  <2> QED BY <1>2, <2>1 DEF Selected
<1>3. ASSUME NEW i \in Slots, rg[i].valid, ~(rg[i].root.gen <= base.gen)
      PROVE  /\ \A j \in Slots : rg[j].valid => rg[j].root.gen <= Selected(s, rg).gen
             /\ Selected(s, rg).gen > base.gen
  <2>1. T \in SUBSET Int /\ T # {}
    BY <1>1, <1>3
  <2>2. IsFiniteSet(T)
    <3> DEFINE J == {j \in Slots : rg[j].valid}
               f == [j \in J |-> rg[j].root.gen]
    <3>1. IsFiniteSet(Slots)
      <4>1. 0 \in Int /\ RingSlots - 1 \in Int
        BY RingAssumption
      <4> QED BY <4>1, FS_Interval DEF Slots
    <3>2. IsFiniteSet(J)
      BY <3>1, FS_Subset
    <3>3. f \in [J -> T] /\ \A y \in T : \E j \in J : f[j] = y
      OBVIOUS
    <3> HIDE DEF f, J
    <3>4. f \in Surjection(J, T)
      BY <3>3 DEF Surjection
    <3> QED BY <3>2, <3>4, FS_Surjection
  <2>3. Max(T) \in T /\ \A y \in T : y <= Max(T)
    BY <2>1, <2>2, GreatestFinite
  <2>4. PICK m \in Slots : rg[m].valid /\ rg[m].root.gen = Max(T)
    BY <2>3
  <2>5. \A j \in Slots : rg[j].valid => rg[j].root.gen \in T
    OBVIOUS
  <2> HIDE DEF T
  <2>6. IsNewest(rg, m)
    BY <2>3, <2>4, <2>5 DEF IsNewest
  <2>7. rg[m].root.gen > base.gen
    BY <1>1, <1>3, <2>6 DEF IsNewest
  <2>8. PICK n \in Slots : IsNewest(rg, n) /\ Selected(s, rg) = rg[n].root
    BY <2>6, <2>7 DEF Selected
  <2>9. \A j \in Slots : rg[j].valid => rg[j].root.gen <= Selected(s, rg).gen
    BY <2>8 DEF IsNewest
  <2>10. rg[m].root.gen <= rg[n].root.gen
    BY <2>6, <2>8 DEF IsNewest
  <2> QED BY <1>1, <2>7, <2>8, <2>9, <2>10
<1> QED BY <1>2, <1>3

\* The best of two slots that decode is as new as both.
LEMMA BestIsNewest ==
    ASSUME NEW s \in [SbSlots -> Superblocks], \A b \in SbSlots : s[b].valid
    PROVE  \A b \in SbSlots : s[b].root.gen <= s[BestSlot(s)].root.gen
BY DEF BestSlot, SbSlots, Superblocks, RootSet

LEMMA SurviveOpen ==
    ASSUME TypeOK, SurviveInv, Open
    PROVE  SurviveInv'
<1> DEFINE root == Selected(sb, ring)
           base == sb[BestSlot(sb)].root
           c == CheckpointSlot(root.gen)
           W == Superblock(root, SelectedMeta(sb, ring))
<1>1. /\ sb \in [SbSlots -> Superblocks] /\ dsb \in [SbSlots -> Superblocks]
      /\ ring \in [Slots -> Records]
  BY DEF TypeOK
<1>2. root \in RootSet /\ root.gen \in Nat /\ SelectedMeta(sb, ring) \in Nat
  BY <1>1, SelectedType DEF RootSet
<1>3. c \in SbSlots /\ W \in Superblocks /\ W.valid /\ W.root = root
  BY <1>2, CheckpointSlotType, Constructors
<1>4. \A i \in Slots : ring[i].root.gen \in Nat
  BY <1>1 DEF Records, RootSet
<1>5. \A i \in Slots : ring[i].valid => ring[i].root.gen <= root.gen
  BY <1>1, SelectedNewest
<1>6. /\ inner'.root = root /\ ring' = ring /\ dsb' = dsb /\ losses' = losses
      /\ \/ root.gen > base.gen /\ sb' = [sb EXCEPT ![c] = W] /\ pc' = "fold"
         \/ sb' = sb /\ pc' = "load"
  BY DEF Open, mediumVars
<1>7. \A i \in Slots : ring[i].valid => ring[i].root.gen <= root.gen + 1
  <2> HIDE DEF root
  <2> QED BY <1>2, <1>4, <1>5
<1>8. ASSUME losses = 0, root.gen > base.gen PROVE sb = dsb
  <2> SUFFICES ASSUME NEW b \in SbSlots, sb[b] # dsb[b] PROVE FALSE
    BY <1>1
  <2>1. sb[b].root.gen <= base.gen /\ sb[b].root.gen \in Nat /\ base.gen \in Nat
    BY <1>1, <1>8, BestIsNewest, SelectedType DEF SurviveInv, Superblocks, RootSet
  <2>2. root # base
    BY <1>2, <1>8
  <2>3. PICK i \in Slots : ring[i].valid /\ root = ring[i].root
    <3>1. CASE \E i \in Slots : IsNewest(ring, i) /\ ring[i].root.gen > base.gen
      BY <3>1 DEF Selected, IsNewest
    <3> QED BY <2>2, <3>1 DEF Selected
  <2>4. ring[i].root.gen <= sb[b].root.gen
    BY <1>8, <2>3 DEF SurviveInv
  <2> HIDE DEF root, base
  <2> QED BY <1>2, <1>8, <2>1, <2>3, <2>4
<1> HIDE DEF root, base, c, W
<1>9. CASE sb' = sb /\ pc' = "load"
  BY <1>6, <1>7, <1>9 DEF SurviveInv, InTxn
<1>10. CASE root.gen > base.gen /\ sb' = [sb EXCEPT ![c] = W] /\ pc' = "fold"
  <2>1. sb'[c] = W /\ \A b \in SbSlots : b # c => sb'[b] = sb[b]
    BY <1>1, <1>3, <1>10
  <2>2. HasSuperblock(sb')
    BY <1>3, <2>1 DEF HasSuperblock, SbSlots
  <2>3. ASSUME losses = 0
        PROVE  /\ \A b \in SbSlots : sb'[b].valid /\ dsb'[b].valid
               /\ sb'[0] = dsb'[0] \/ sb'[1] = dsb'[1]
               /\ \A b \in SbSlots : sb'[b] # dsb'[b] =>
                     \A i \in Slots : ring'[i].valid => ring'[i].root.gen <= sb'[b].root.gen
    <3>1. sb = dsb
      BY <1>8, <1>10, <2>3
    <3>2. sb'[0] = dsb'[0] \/ sb'[1] = dsb'[1]
      BY <1>3, <1>6, <2>1, <3>1 DEF SbSlots
    <3>3. \A b \in SbSlots : sb'[b].valid /\ dsb'[b].valid
      BY <1>3, <1>6, <2>1, <2>3 DEF SurviveInv
    <3>4. ASSUME NEW b \in SbSlots, sb'[b] # dsb'[b], NEW i \in Slots, ring'[i].valid
          PROVE  ring'[i].root.gen <= sb'[b].root.gen
      BY <1>3, <1>5, <1>6, <2>1, <3>1, <3>4
    <3> QED BY <3>2, <3>3, <3>4
  <2> QED BY <1>6, <1>7, <1>10, <2>2, <2>3 DEF SurviveInv, InTxn
<1> QED BY <1>6, <1>9, <1>10

LEMMA SurviveStep ==
    ASSUME Rekeyers = {}, MaxLosses <= 1, TypeOK, TypeOK', SurviveInv, [Next]_vars
    PROVE  SurviveInv'
<1>1. CASE Begin
  <2>1. txn'.root.gen = inner.root.gen + 1
    BY <1>1, BeginPlan DEF NextRoot
  <2> QED BY <1>1, <2>1 DEF SurviveInv, Begin, fileVars, mediumVars, InTxn
<1>2. ASSUME NEW p \in Pages, WritePage(p) PROVE SurviveInv'
  <2>1. txn'.root = txn.root
    BY <1>2 DEF WritePage, TypeOK
  <2> QED BY <1>2, <2>1 DEF SurviveInv, WritePage, mediumVars, InTxn
<1>3. CASE SyncPages \/ Commit \/ SyncCheckpoint \/ SyncFold
  <2>1. /\ dsb' = sb /\ sb' = sb /\ ring' = ring /\ inner' = inner /\ txn' = txn
        /\ losses' = losses /\ (pc' \in InTxn => pc \in InTxn)
        /\ pc \in {"idle", "fold", "load"} \cup InTxn
    BY <1>3 DEF SyncPages, Commit, SyncCheckpoint, SyncFold, Fsync, fileVars, InTxn
  <2> QED BY <2>1 DEF SurviveInv
<1>4. CASE WriteRecord
  <2>1. txn.root \in RootSet /\ txn.root.gen \in Nat /\ inner.root.gen \in Nat
    BY DEF TypeOK, RootSet
  <2>2. RingSlot(txn.root.gen) \in Slots /\ Record(txn.root).root = txn.root
    BY <2>1, RingSlotNext, Constructors
  <2>3. \A i \in Slots : ring'[i] = ring[i] \/ ring'[i].root = txn.root
    BY <1>4, <2>2 DEF WriteRecord, TypeOK
  <2>4. /\ sb' = sb /\ dsb' = dsb /\ inner' = inner /\ txn' = txn /\ losses' = losses
        /\ pc = "record" /\ pc' = "commit"
    BY <1>4 DEF WriteRecord, mediumVars
  <2>5. ASSUME losses = 0
        PROVE  /\ sb = dsb /\ txn.root.gen = inner.root.gen + 1
               /\ \A i \in Slots : ring'[i].valid => ring'[i].root.gen <= inner.root.gen + 1
    <3>1. sb = dsb /\ txn.root.gen = inner.root.gen + 1
      BY <2>4, <2>5 DEF SurviveInv, InTxn
    <3>2. \A i \in Slots : ring[i].valid => ring[i].root.gen <= inner.root.gen + 1
      BY <2>4, <2>5 DEF SurviveInv, InTxn
    <3> QED BY <2>1, <2>3, <3>1, <3>2
  <2> QED BY <2>4, <2>5 DEF SurviveInv
<1>5. CASE Grow
  BY <1>5 DEF SurviveInv, Grow, mediumVars, InTxn
<1>6. CASE WriteCheckpoint
  <2> DEFINE c == CheckpointSlot(txn.root.gen)
             W == Superblock(txn.root, inner.meta)
  <2>1. txn.root \in RootSet /\ txn.root.gen \in Nat /\ inner.meta \in Nat
    BY DEF TypeOK, RootSet
  <2>2. c \in SbSlots /\ W.valid /\ W.root = txn.root
    BY <2>1, CheckpointSlotType, Constructors
  <2>3. /\ sb' = [sb EXCEPT ![c] = W] /\ ring' = ring /\ dsb' = dsb /\ inner' = inner
        /\ txn' = txn /\ losses' = losses /\ pc = "checkpoint" /\ pc' = "checkpointSync"
    BY <1>6 DEF WriteCheckpoint, mediumVars
  <2> HIDE DEF c, W
  <2>4. sb'[c] = W /\ \A b \in SbSlots : b # c => sb'[b] = sb[b]
    BY <2>2, <2>3 DEF TypeOK
  <2>5. HasSuperblock(sb')
    BY <2>2, <2>4 DEF HasSuperblock, SbSlots
  <2>6. ASSUME losses = 0
        PROVE  /\ sb = dsb /\ txn.root.gen = inner.root.gen + 1
               /\ \A i \in Slots : ring[i].valid => ring[i].root.gen <= inner.root.gen + 1
               /\ \A b \in SbSlots : sb[b].valid
    BY <2>3, <2>6 DEF SurviveInv, InTxn
  <2>7. sb = dsb => (sb'[0] = dsb[0] \/ sb'[1] = dsb[1])
    BY <2>2, <2>4 DEF SbSlots
  <2>8. ASSUME losses = 0, NEW b \in SbSlots, sb'[b] # dsb'[b]
        PROVE  \A i \in Slots : ring'[i].valid => ring'[i].root.gen <= sb'[b].root.gen
    BY <2>2, <2>3, <2>4, <2>6, <2>8
  <2>9. losses = 0 => \A b \in SbSlots : sb'[b].valid /\ dsb'[b].valid
    BY <2>2, <2>3, <2>4, <2>6
  <2> QED BY <2>3, <2>5, <2>6, <2>7, <2>8, <2>9 DEF SurviveInv, InTxn
<1>7. CASE Adopt
  <2>1. /\ sb' = sb /\ dsb' = dsb /\ ring' = ring /\ losses' = losses /\ inner'.root = txn.root
        /\ pc = "adopt" /\ pc' = "idle"
    BY <1>7 DEF Adopt, fileVars, mediumVars
  <2>2. \A i \in Slots : ring[i].root.gen \in Nat
    BY DEF TypeOK, Records, RootSet
  <2>3. txn.root.gen \in Nat /\ inner.root.gen \in Nat
    BY DEF TypeOK, RootSet
  <2>4. losses = 0 => \A i \in Slots : ring[i].valid => ring[i].root.gen <= txn.root.gen + 1
    BY <2>1, <2>2, <2>3 DEF SurviveInv, InTxn
  <2> QED BY <2>1, <2>4 DEF SurviveInv, InTxn
<1>8. CASE FailTxn
  BY <1>8 DEF SurviveInv, FailTxn, fileVars, mediumVars, InTxn
<1>9. CASE Exit
  BY <1>9 DEF SurviveInv, Exit, fileVars, mediumVars, InTxn
<1>10. CASE PowerLoss
  <2>1. losses = 0 /\ losses' # 0 /\ sb' = dsb'
    BY <1>10, BoundsAssumption DEF PowerLoss, TypeOK
  <2>2. \A b \in SbSlots : sb[b] = dsb[b] => dsb'[b] = dsb[b]
    BY <1>10 DEF PowerLoss, DirtySbs
  <2>3. HasSuperblock(sb')
    BY <2>1, <2>2 DEF SurviveInv, HasSuperblock, SbSlots
  <2> QED BY <2>1, <2>3 DEF SurviveInv
<1>11. CASE Open
  BY <1>11, SurviveOpen
<1>12. CASE Load
  BY <1>12 DEF SurviveInv, Load, fileVars, mediumVars, InTxn
<1>13. CASE Refuse
  BY <1>13 DEF SurviveInv, Refuse, fileVars, mediumVars, InTxn
<1>14. ASSUME NEW r \in Readers, Lease(r) \/ OpenRead(r) \/ CloseRead(r) PROVE SurviveInv'
  BY <1>14 DEF SurviveInv, Lease, OpenRead, CloseRead, fileVars, mediumVars
<1>15. CASE UNCHANGED vars
  BY <1>15 DEF SurviveInv, vars
<1> QED BY <1>1, <1>2, <1>3, <1>4, <1>5, <1>6, <1>7, <1>8, <1>9, <1>10, <1>11, <1>12,
           <1>13, <1>14, <1>15 DEF Next

\* While nobody changes the encryption metadata, one power loss leaves a superblock slot
\* that decodes, whatever tears, failed writes and killed opens come with it: the
\* alternating slots are never both unsynced (write_superblock, the fold at open).
THEOREM SuperblockOutlivesOneLoss ==
    ASSUME Rekeyers = {}, MaxLosses <= 1
    PROVE  Spec => []SuperblockSurvives
<1>1. Init => SurviveInv
  BY Constructors DEF Init, SurviveInv, HasSuperblock, SbSlots, Superblock, NoRecord, InTxn
<1>2. TypeOK /\ TypeOK' /\ SurviveInv /\ [Next]_vars => SurviveInv'
  BY SurviveStep
<1>3. SurviveInv => SuperblockSurvives
  BY DEF SurviveInv, SuperblockSurvives
<1> QED BY <1>1, <1>2, <1>3, TypeCorrect, PTL DEF Spec

------------------------------------------------------------------------------
(* What each kind of write does to the file and to the medium *)

\* The selected root sets are root sets.
LEMMA Selections == TypeOK => /\ D \in RootSet /\ D.gen \in Nat /\ D.stamp \in Nat
                              /\ V \in RootSet /\ V.gen \in Nat /\ V.stamp \in Nat
BY SelectedType DEF TypeOK, D, V, RootSet

\* A step that writes nothing.
LEMMA QuietDisk ==
    ASSUME DiskInv, UNCHANGED <<fileVars, mediumVars>>
    PROVE  DiskInv' /\ D' = D /\ V' = V
<1>1. D' = D /\ V' = V
  BY DEF D, V, fileVars, mediumVars
<1> QED BY <1>1 DEF DiskInv, fileVars, mediumVars

\* An fsync makes the file's selection the medium's.
LEMMA SyncDisk ==
    ASSUME TypeOK, DiskInv, Fsync, UNCHANGED fileVars
    PROVE  DiskInv' /\ D' = V /\ V' = V
<1>1. D' = V /\ V' = V
  BY DEF D, V, fileVars, Fsync
<1>2. D \in RootSet /\ V \in RootSet
  BY Selections
<1>3. Coherent(sb, ring, sb, ring, V, V)
  BY <1>2, CoherentSync DEF DiskInv, TypeOK
<1>4. Safe(V, page, page, len)
  <2> SUFFICES ASSUME NEW p \in Pages, V.refs[p] # Blank
               PROVE  page[p] = V.refs[p] /\ p < len
    BY DEF Safe
  <2>1. page[p] = V.refs[p] /\ p < dlen
    BY DEF Safe, DiskInv
  <2>2. p \in Nat /\ dlen \in Nat /\ len \in Nat /\ dlen <= len
    BY DEF Pages, DiskInv, TypeOK
  <2> QED BY <2>1, <2>2
<1>5. len <= len
  BY DEF TypeOK
<1> QED BY <1>1, <1>3, <1>4, <1>5 DEF DiskInv, fileVars, Fsync

\* Writing a page that neither selected root set references.
LEMMA PageDisk ==
    ASSUME TypeOK, DiskInv, NEW q \in Pages, D.refs[q] = Blank, V.refs[q] = Blank,
           page' = [page EXCEPT ![q] = txn.root.stamp],
           len' = IF q >= len THEN q + 1 ELSE len,
           UNCHANGED <<sb, ring, mediumVars>>
    PROVE  DiskInv' /\ D' = D /\ V' = V
<1>1. D' = D /\ V' = V
  BY DEF D, V, mediumVars
<1>2. \A p \in Pages : p # q => page'[p] = page[p]
  BY DEF TypeOK
<1>3. Safe(D, page', dpage, dlen) /\ Safe(V, page', dpage, dlen)
  BY <1>2 DEF DiskInv, Safe
<1>4. dlen <= len'
  BY DEF DiskInv, TypeOK, Pages
<1> QED BY <1>1, <1>3, <1>4 DEF DiskInv, mediumVars

\* Growing the file.
LEMMA GrowDisk ==
    ASSUME TypeOK, DiskInv, len' \in Nat, len <= len', UNCHANGED <<sb, ring, page, mediumVars>>
    PROVE  DiskInv' /\ D' = D /\ V' = V
<1>1. D' = D /\ V' = V
  BY DEF D, V, mediumVars
<1>2. dlen <= len'
  BY DEF DiskInv, TypeOK
<1> QED BY <1>1, <1>2 DEF DiskInv, mediumVars

\* Publishing the next root set in the ring.
LEMMA RecordDisk ==
    ASSUME TypeOK, DiskInv, D = V, NEW W \in RootSet, W.gen = V.gen + 1,
           WellFormed(W), Safe(W, page, dpage, dlen),
           ring' = [ring EXCEPT ![RingSlot(W.gen)] = Record(W)],
           UNCHANGED <<sb, page, len, mediumVars>>
    PROVE  /\ DiskInv' /\ D' = D /\ V' = W
           /\ ring'[RingSlot(W.gen)] = Record(W)
           /\ ring'[RingSlot(V.gen)] = ring[RingSlot(V.gen)]
<1>1. /\ D \in RootSet /\ V \in RootSet /\ V.gen \in Nat /\ W.gen \in Nat
      /\ RingSlot(W.gen) \in Slots /\ RingSlot(W.gen) # RingSlot(V.gen)
  BY Selections, RingSlotNext DEF RootSet
<1>2. Coherent(sb, ring', dsb, dring, V, W)
  BY <1>1, CoherentRecord DEF DiskInv, TypeOK
<1>3. Record(W) \in Records
  BY Constructors
<1>4. ring' \in [Slots -> Records]
  BY <1>3 DEF TypeOK
<1>5. Selected(dsb, dring) = V /\ Selected(sb, ring') = W
  <2>1. /\ sb \in [SbSlots -> Superblocks]
        /\ dsb \in [SbSlots -> Superblocks] /\ dring \in [Slots -> Records]
    BY DEF TypeOK
  <2> QED BY <1>1, <1>2, <1>4, <2>1, CoherentSelects
<1>6. D' = D /\ V' = W
  BY <1>5 DEF D, V, mediumVars
<1>7. /\ ring'[RingSlot(W.gen)] = Record(W)
      /\ ring'[RingSlot(V.gen)] = ring[RingSlot(V.gen)]
  BY <1>1 DEF TypeOK
<1> QED BY <1>2, <1>6, <1>7 DEF DiskInv, mediumVars

\* Writing the file's selection, or an older root set that the ring covers, into a
\* superblock slot.
LEMMA SuperblockDisk ==
    ASSUME TypeOK, DiskInv, NEW W \in Superblocks, NEW c \in SbSlots, W.valid,
           \/ W.root = V
           \/ /\ D = V /\ W.root.gen < V.gen
              /\ ring[RingSlot(V.gen)] = Record(V) /\ dring[RingSlot(V.gen)] = Record(V),
           sb' = [sb EXCEPT ![c] = W], UNCHANGED <<ring, page, len, mediumVars>>
    PROVE  DiskInv' /\ D' = D /\ V' = V
<1>1. D \in RootSet /\ V \in RootSet
  BY Selections
<1>2. sb' \in [SbSlots -> Superblocks]
  BY DEF TypeOK
<1>3. Coherent(sb', ring, dsb, dring, D, V)
  <2>1. sb \in [SbSlots -> Superblocks] /\ Coherent(sb, ring, dsb, dring, D, V)
    BY DEF TypeOK, DiskInv
  <2>2. CASE W.root = V
    BY <1>1, <2>1, <2>2, CoherentCheckpoint
  <2>3. CASE /\ D = V /\ W.root.gen < V.gen
             /\ ring[RingSlot(V.gen)] = Record(V) /\ dring[RingSlot(V.gen)] = Record(V)
    BY <1>1, <2>1, <2>3, CoherentStale
  <2> QED BY <2>2, <2>3
<1>4. Selected(dsb, dring) = D /\ Selected(sb', ring) = V
  BY <1>1, <1>2, <1>3, CoherentSelects DEF TypeOK
<1>5. D' = D /\ V' = V
  BY <1>4 DEF D, V, mediumVars
<1> QED BY <1>3, <1>5 DEF DiskInv, mediumVars

\* A power loss leaves the medium's root set or the file's, complete.
LEMMA LossDisk ==
    ASSUME TypeOK, TypeOK', DiskInv, FirmInv, Tolerated, PowerLoss
    PROVE  DiskInv' /\ V' = D' /\ (D' = D \/ D' = V)
<1>1. PICK size \in {dlen, len}, kept \in SUBSET DirtyPages :
         \E torn \in SUBSET (DirtyPages \ kept) :
          /\ dlen' = size
          /\ dpage' = [p \in Pages |-> IF p \in torn \/ p >= size THEN Blank
                                       ELSE IF p \in kept THEN page[p] ELSE dpage[p]]
  BY DEF PowerLoss
<1>2. PICK torn \in SUBSET (DirtyPages \ kept) :
          /\ dlen' = size
          /\ dpage' = [p \in Pages |-> IF p \in torn \/ p >= size THEN Blank
                                       ELSE IF p \in kept THEN page[p] ELSE dpage[p]]
  BY <1>1
<1>3. \A i \in Slots : \/ dring'[i] = ring[i]
                       \/ dring'[i] = dring[i]
                       \/ ring[i] # dring[i] /\ dring'[i] = NoRecord
  BY DEF PowerLoss, DirtySlots
<1>4. \A b \in SbSlots : \/ dsb'[b] = sb[b]
                         \/ dsb'[b] = dsb[b]
                         \/ Firm(ring, dring, D) /\ dsb'[b] = NoSuperblock
  <2>1. CASE "tornSlot" \in Faults
    <3>1. losses = 0
      BY <2>1, BoundsAssumption DEF PowerLoss, Tolerated, TypeOK
    <3> QED BY <3>1 DEF PowerLoss, FirmInv
  <2>2. CASE "tornSlot" \notin Faults
    BY <2>2 DEF PowerLoss
  <2> QED BY <2>1, <2>2
<1>5. D \in RootSet /\ V \in RootSet
  BY Selections
<1>6. Coherent(dsb', dring', dsb', dring', D, D) \/ Coherent(dsb', dring', dsb', dring', V, V)
  <2>1. /\ sb \in [SbSlots -> Superblocks] /\ ring \in [Slots -> Records]
        /\ dsb \in [SbSlots -> Superblocks] /\ dring \in [Slots -> Records]
        /\ dsb' \in [SbSlots -> Superblocks] /\ dring' \in [Slots -> Records]
    BY DEF TypeOK
  <2>2. Coherent(sb, ring, dsb, dring, D, V)
    BY DEF DiskInv
  <2> QED BY <1>3, <1>4, <1>5, <2>1, <2>2, CoherentLoss
<1>7. sb' = dsb' /\ ring' = dring' /\ page' = dpage' /\ len' = dlen'
  BY DEF PowerLoss
<1>8. ASSUME NEW T, Safe(T, page, dpage, dlen) PROVE Safe(T, page', dpage', dlen')
  <2> SUFFICES ASSUME NEW p \in Pages, T.refs[p] # Blank
               PROVE  dpage'[p] = T.refs[p] /\ p < dlen'
    BY <1>7 DEF Safe
  <2>1. page[p] = T.refs[p] /\ dpage[p] = T.refs[p] /\ p < dlen
    BY <1>8 DEF Safe
  <2>2. p \in Nat /\ dlen \in Nat /\ len \in Nat /\ dlen <= len
    BY DEF Pages, DiskInv, TypeOK
  <2>3. p < size /\ ~(p >= size)
    BY <2>1, <2>2
  <2>4. p \notin torn
    BY <2>1 DEF DirtyPages
  <2> QED BY <1>2, <2>1, <2>3, <2>4
<1>9. dlen' <= len'
  BY <1>7 DEF TypeOK
<1>10. ASSUME NEW T \in RootSet, T = D \/ T = V,
              Coherent(dsb', dring', dsb', dring', T, T)
       PROVE  DiskInv' /\ V' = D' /\ D' = T
  <2>1. Selected(dsb', dring') = T
    BY <1>10, CoherentSelects DEF TypeOK
  <2>2. D' = T /\ V' = T
    BY <2>1, <1>7 DEF D, V
  <2>3. Safe(T, page', dpage', dlen') /\ WellFormed(T)
    BY <1>8, <1>10 DEF DiskInv
  <2> QED BY <1>10, <2>2, <2>3, <1>7, <1>9 DEF DiskInv
<1> QED BY <1>5, <1>6, <1>10

------------------------------------------------------------------------------
(* The inductive step, action by action *)

\* How a step moves the root set the medium selects, the one the file selects and the
\* acknowledged one: not at all, or as the durable cell does.
CellMove ==
    \/ D' = D /\ V' = V /\ acked' = acked
    \/ D' = V /\ V' = V /\ acked' = acked
    \/ D' = D /\ V' = N /\ V.stamp < N.stamp /\ acked' = acked
    \/ V' = D' /\ (D' = D \/ D' = V) /\ acked' = acked
    \/ D' = D /\ V' = V /\ D = V /\ acked' = V.stamp

\* Begin takes only pages that no root set in use references.
LEMMA InvBegin ==
    ASSUME IInv, TypeOK', Begin
    PROVE  IInv' /\ CellMove
<1>1. DiskInv' /\ D' = D /\ V' = V
  BY QuietDisk DEF IInv, Begin
<1>2. /\ pc = "idle" /\ pc' = "write" /\ O' = O /\ stamps' = stamps + 1
      /\ offered' = offered \cup {stamps + 1}
      /\ UNCHANGED <<fileVars, mediumVars, inner, rekey, reader, losses, acked, ackedMeta>>
      /\ \A k \in Rekeyers : rekey[k].step # "sync"
  BY DEF Begin, O, FileLocked
<1>3. PICK dropped \in SUBSET Referenced(O), ext \in 0 .. MaxWrites :
         \E freed \in SUBSET dropped, reused \in SUBSET Reusable(O, LeaseFree) :
         \E mapped \in SUBSET (O.reserve \cup Refill(O, O.count + ext)) :
            /\ O.count + ext + RefillSize(O) <= MaxPages
            /\ txn' = [root |-> NextRoot(O, stamps + 1, dropped, freed, reused, ext, mapped),
                       todo |-> Taken(O, reused, ext, mapped), lease |-> LeaseFree]
  BY BeginPlan DEF O
<1>4. PICK freed \in SUBSET dropped, reused \in SUBSET Reusable(O, LeaseFree) :
         \E mapped \in SUBSET (O.reserve \cup Refill(O, O.count + ext)) :
            /\ O.count + ext + RefillSize(O) <= MaxPages
            /\ txn' = [root |-> NextRoot(O, stamps + 1, dropped, freed, reused, ext, mapped),
                       todo |-> Taken(O, reused, ext, mapped), lease |-> LeaseFree]
  BY <1>3
<1>5. PICK mapped \in SUBSET (O.reserve \cup Refill(O, O.count + ext)) :
            /\ O.count + ext + RefillSize(O) <= MaxPages
            /\ txn' = [root |-> NextRoot(O, stamps + 1, dropped, freed, reused, ext, mapped),
                       todo |-> Taken(O, reused, ext, mapped), lease |-> LeaseFree]
  BY <1>4
<1>6. /\ O \in RootSet /\ stamps + 1 \in Nat /\ ext \in Nat /\ LeaseFree \in BOOLEAN
      /\ stamps + 1 # Blank /\ D = O /\ V = O /\ WellFormed(O)
  BY <1>2, BoundsAssumption DEF IInv, TypeOK, LeaseFree, Blank, PhaseInv, DiskInv, O
<1>7. /\ N' = NextRoot(O, stamps + 1, dropped, freed, reused, ext, mapped)
      /\ txn'.todo = Taken(O, reused, ext, mapped) /\ txn'.lease = LeaseFree
  BY <1>5 DEF N
<1>8. /\ WellFormed(N') /\ Grows(O, N')
      /\ N'.gen = O.gen + 1 /\ N'.stamp = stamps + 1
      /\ \A p \in txn'.todo : O.refs[p] = Blank /\ N'.refs[p] = stamps + 1
      /\ \A p \in Pages : p \notin txn'.todo /\ N'.refs[p] # Blank => N'.refs[p] = O.refs[p]
      /\ ~LeaseFree => \A Q \in RootSet : Clear(Q, O) => \A p \in txn'.todo : Q.refs[p] = Blank
  <2>1. Planned(O, stamps + 1, LeaseFree, txn'.todo, N')
    BY <1>5, <1>6, <1>7, PlanSound
  <2> QED BY <2>1 DEF Planned
<1>9. PhaseInv'
  BY <1>1, <1>2, <1>6 DEF PhaseInv, BeforeRecord, Committed, Down
<1>10. TxnInv'
  <2>1. O.stamp <= stamps /\ O.stamp \in Nat /\ stamps \in Nat
    BY <1>6 DEF IInv, StampInv, TypeOK, RootSet
  <2>2. O.stamp < N'.stamp /\ N'.stamp <= stamps'
    BY <2>1, <1>8, <1>2
  <2>3. \A p \in Pages : N'.refs[p] # Blank /\ p \notin txn'.todo =>
                            page[p] = N'.refs[p] /\ p < len
    <3> TAKE p \in Pages
    <3> HAVE N'.refs[p] # Blank /\ p \notin txn'.todo
    <3>1. N'.refs[p] = O.refs[p] /\ page[p] = O.refs[p] /\ p < dlen
      BY <1>8, <1>6 DEF IInv, DiskInv, Safe
    <3>2. p \in Nat /\ dlen \in Nat /\ len \in Nat /\ dlen <= len
      BY DEF Pages, IInv, DiskInv, TypeOK
    <3> QED BY <3>1, <3>2
  <2> QED BY <1>2, <1>6, <1>8, <2>2, <2>3 DEF TxnInv, InTxn, fileVars
<1>11. StampInv'
  <2>1. D.stamp <= stamps' /\ V.stamp <= stamps'
    BY <1>2, <1>6 DEF IInv, StampInv, TypeOK, RootSet
  <2> QED BY <1>1, <1>2, <1>8, <2>1 DEF IInv, StampInv, InTxn, Down
<1>12. RekeyInv'
  BY <1>2 DEF IInv, RekeyInv, InTxn, fileVars, mediumVars
<1>13. ReaderInv'
  <2>1. LeaseHeld' => \A r \in Readers : reader'[r].step = "closed"
    BY <1>2, <1>7 DEF LeaseFree, LeaseHeld
  <2>2. ASSUME NEW r \in Readers, reader[r].step = "reading"
        PROVE  \A p \in txn'.todo : reader[r].root.refs[p] = Blank
    <3>1. ~LeaseFree
      BY <2>2 DEF LeaseFree
    <3>2. reader[r].root \in RootSet /\ Clear(reader[r].root, O)
      BY <2>2, <1>6 DEF IInv, TypeOK, ReaderInv, LeaseHeld
    <3> QED BY <3>1, <3>2, <1>8
  <2> QED BY <1>1, <1>2, <2>1, <2>2 DEF IInv, ReaderInv, LeaseHeld, fileVars
<1> QED BY <1>1, <1>2, <1>9, <1>10, <1>11, <1>12, <1>13 DEF IInv, CellMove, history

\* A page write touches neither the selected root sets nor a reader's.
LEMMA InvWritePage ==
    ASSUME IInv, TypeOK', NEW q \in Pages, WritePage(q)
    PROVE  IInv' /\ CellMove
<1>1. /\ pc = "write" /\ pc' = "write" /\ q \in txn.todo
      /\ page' = [page EXCEPT ![q] = txn.root.stamp]
      /\ len' = IF q >= len THEN q + 1 ELSE len
      /\ txn' = [txn EXCEPT !.todo = @ \ {q}]
      /\ UNCHANGED <<sb, ring, mediumVars, pc, inner, rekey, reader, stamps, losses, history>>
  BY DEF WritePage
<1>2. D = O /\ V = O /\ O.refs[q] = Blank /\ N.refs[q] = N.stamp
  BY <1>1 DEF IInv, PhaseInv, BeforeRecord, TxnInv
<1>3. DiskInv' /\ D' = D /\ V' = V
  BY <1>1, <1>2, PageDisk DEF IInv
<1>4. O' = O /\ N' = N /\ txn'.todo = txn.todo \ {q} /\ txn'.lease = txn.lease
  BY <1>1 DEF O, N, IInv, TypeOK
<1>5. page'[q] = N.stamp /\ \A p \in Pages : p # q => page'[p] = page[p]
  BY <1>1 DEF IInv, TypeOK, N
<1>6. q < len' /\ \A p \in Nat : p < len => p < len'
  <2>1. q \in Nat /\ len \in Nat
    BY DEF IInv, TypeOK, Pages
  <2>2. len' = IF q >= len THEN q + 1 ELSE len
    BY <1>1
  <2> QED BY <2>1, <2>2
<1>7. PhaseInv'
  BY <1>1, <1>2, <1>3, <1>4 DEF PhaseInv, BeforeRecord, Committed, Down
<1>8. TxnInv'
  <2>1. \A p \in Pages : N.refs[p] # Blank /\ p \notin txn'.todo =>
                            page'[p] = N.refs[p] /\ p < len'
    <3> TAKE p \in Pages
    <3>1. p \in Nat
      BY DEF Pages
    <3>2. CASE p = q
      BY <3>2, <1>2, <1>5, <1>6
    <3>3. CASE p # q
      BY <3>1, <3>3, <1>1, <1>4, <1>5, <1>6 DEF IInv, TxnInv
    <3> QED BY <3>2, <3>3
  <2> QED BY <1>1, <1>4, <2>1 DEF IInv, TxnInv, InTxn
<1>9. StampInv'
  BY <1>1, <1>3, <1>4 DEF IInv, StampInv, InTxn, Down, history
<1>10. RekeyInv'
  BY <1>1, <1>4 DEF IInv, RekeyInv, InTxn, mediumVars
<1>11. ReaderInv'
  <2>1. ASSUME NEW r \in Readers, reader[r].step = "reading"
        PROVE  Intact(reader[r].root, page')
    <3>1. Intact(reader[r].root, page) /\ reader[r].root.refs[q] = Blank
      BY <1>1, <2>1 DEF IInv, ReaderInv, LeaseHeld
    <3> QED BY <3>1, <1>5 DEF Intact
  <2> QED BY <1>1, <1>3, <1>4, <2>1 DEF IInv, ReaderInv, LeaseHeld
<1> QED BY <1>1, <1>3, <1>7, <1>8, <1>9, <1>10, <1>11 DEF IInv, CellMove, history

\* The first fsync makes every page of the prepared root set durable.
LEMMA InvSyncPages ==
    ASSUME IInv, TypeOK', SyncPages
    PROVE  IInv' /\ CellMove
<1>1. /\ pc = "write" /\ pc' = "record" /\ txn.todo = {} /\ Fsync
      /\ UNCHANGED <<fileVars, inner, txn, rekey, reader, stamps, losses, history>>
  BY DEF SyncPages
<1>2. DiskInv' /\ D' = V /\ V' = V
  BY <1>1, SyncDisk DEF IInv
<1>3. D = O /\ V = O /\ O' = O /\ N' = N
  BY <1>1 DEF IInv, PhaseInv, BeforeRecord, O, N
<1>4. PhaseInv'
  BY <1>1, <1>2, <1>3 DEF PhaseInv, BeforeRecord, Committed, Down, Fsync, fileVars
<1>5. Safe(N, page, page, len)
  BY <1>1 DEF IInv, TxnInv, Safe
<1>6. TxnInv'
  BY <1>1, <1>3, <1>5 DEF IInv, TxnInv, InTxn, Fsync, fileVars
<1>7. StampInv'
  BY <1>1, <1>2, <1>3 DEF IInv, StampInv, InTxn, Down, history
<1>8. RekeyInv'
  BY <1>1, <1>3 DEF IInv, RekeyInv, InTxn, Fsync, fileVars
<1>9. ReaderInv'
  BY <1>1, <1>2 DEF IInv, ReaderInv, LeaseHeld, fileVars
<1> QED BY <1>1, <1>2, <1>4, <1>6, <1>7, <1>8, <1>9 DEF IInv, CellMove, history

\* The ring record makes the prepared root set the file's selection.
LEMMA InvWriteRecord ==
    ASSUME IInv, TypeOK', WriteRecord
    PROVE  IInv' /\ CellMove
<1>1. /\ pc = "record" /\ pc' = "commit"
      /\ ring' = [ring EXCEPT ![RingSlot(N.gen)] = Record(N)]
      /\ UNCHANGED <<sb, page, len, mediumVars, inner, txn, rekey, reader, stamps, losses,
                     history>>
  BY DEF WriteRecord, N
<1>2. /\ D = O /\ V = O /\ O' = O /\ N' = N /\ sb = dsb
      /\ N \in RootSet /\ N.gen = V.gen + 1 /\ WellFormed(N)
      /\ Grows(O, N) /\ Safe(N, page, dpage, dlen)
      /\ N.stamp <= stamps /\ N.stamp \in offered /\ V.stamp < N.stamp
  BY <1>1 DEF IInv, PhaseInv, BeforeRecord, TxnInv, StampInv, InTxn, O, N, TypeOK
<1>3. /\ DiskInv' /\ D' = D /\ V' = N
      /\ ring'[RingSlot(N.gen)] = Record(N)
      /\ ring'[RingSlot(O.gen)] = ring[RingSlot(O.gen)]
  BY <1>1, <1>2, RecordDisk DEF IInv
<1>4. PhaseInv'
  BY <1>1, <1>2, <1>3 DEF PhaseInv, BeforeRecord, Committed, Down, mediumVars
<1>5. TxnInv'
  BY <1>1, <1>2 DEF IInv, TxnInv, InTxn, mediumVars
<1>6. StampInv'
  BY <1>1, <1>2, <1>3 DEF IInv, StampInv, InTxn, Down, history
<1>7. RekeyInv'
  BY <1>1, <1>2, <1>3 DEF IInv, RekeyInv, InTxn, mediumVars
<1>8. ReaderInv'
  <2>1. ASSUME NEW r \in Readers, reader[r].step = "reading"
        PROVE  Clear(reader[r].root, N)
    <3>1. Clear(reader[r].root, O)
      BY <2>1, <1>2 DEF IInv, ReaderInv, LeaseHeld
    <3>2. O.count \in Nat /\ N.count \in Nat /\ O.count <= N.count
      BY <1>2, MaxPagesAssumption DEF Grows, IInv, TypeOK, RootSet, O
    <3> SUFFICES ASSUME NEW p \in Pages, reader[r].root.refs[p] # Blank
                 PROVE  p < N.count /\ p \notin N.reserve
      BY DEF Clear
    <3>3. p \in Nat /\ p < O.count /\ p \notin O.reserve
      BY <3>1 DEF Clear, Pages
    <3>4. ~(O.count <= p) /\ p < N.count
      BY <3>2, <3>3
    <3> QED BY <3>3, <3>4, <1>2 DEF Grows
  <2> QED BY <1>1, <1>3, <2>1 DEF IInv, ReaderInv, LeaseHeld
<1> QED BY <1>1, <1>2, <1>3, <1>4, <1>5, <1>6, <1>7, <1>8 DEF IInv, CellMove, history

\* The commit point: the second fsync makes the prepared root set the medium's.
LEMMA InvCommit ==
    ASSUME IInv, TypeOK', Commit
    PROVE  IInv' /\ CellMove
<1>1. /\ pc = "commit" /\ pc' = "grow" /\ Fsync
      /\ UNCHANGED <<fileVars, inner, txn, rekey, reader, stamps, losses, history>>
  BY DEF Commit
<1>2. DiskInv' /\ D' = V /\ V' = V
  BY <1>1, SyncDisk DEF IInv
<1>3. V = N /\ O' = O /\ N' = N /\ ring[RingSlot(N.gen)] = Record(N)
  BY <1>1 DEF IInv, PhaseInv, Committed, O, N
<1>4. PhaseInv'
  BY <1>1, <1>2, <1>3 DEF PhaseInv, BeforeRecord, Committed, Down, Fsync, fileVars
<1>5. TxnInv'
  BY <1>1, <1>3 DEF IInv, TxnInv, InTxn
<1>6. StampInv'
  BY <1>1, <1>2, <1>3 DEF IInv, StampInv, InTxn, Down, history
<1>7. RekeyInv'
  BY <1>1, <1>3 DEF IInv, RekeyInv, InTxn, Fsync, fileVars
<1>8. ReaderInv'
  BY <1>1, <1>2 DEF IInv, ReaderInv, LeaseHeld, fileVars
<1> QED BY <1>1, <1>2, <1>4, <1>5, <1>6, <1>7, <1>8 DEF IInv, CellMove, history

\* Growing the page array changes no selection.
LEMMA InvGrow ==
    ASSUME IInv, TypeOK', Grow
    PROVE  IInv' /\ CellMove
<1>1. /\ pc = "grow" /\ pc' \in {"checkpoint", "adopt"}
      /\ len' = (IF len < txn.root.count THEN txn.root.count ELSE len)
      /\ UNCHANGED <<sb, ring, page, mediumVars, inner, txn, rekey, reader, stamps, losses,
                     history>>
  BY DEF Grow
<1>2. len \in Nat /\ txn.root.count \in Nat
  BY MaxPagesAssumption DEF IInv, TypeOK, RootSet
<1>3. len' \in Nat /\ len <= len'
  BY <1>1, <1>2
<1>4. DiskInv' /\ D' = D /\ V' = V
  BY <1>1, <1>3, GrowDisk DEF IInv
<1>5. D = N /\ V = N /\ O' = O /\ N' = N
  BY <1>1 DEF IInv, PhaseInv, Committed, O, N
<1>6. PhaseInv'
  BY <1>1, <1>4, <1>5 DEF IInv, PhaseInv, BeforeRecord, Committed, Down, mediumVars
<1>7. TxnInv'
  BY <1>1, <1>5 DEF IInv, TxnInv, InTxn
<1>8. StampInv'
  BY <1>1, <1>4, <1>5 DEF IInv, StampInv, InTxn, Down, history
<1>9. RekeyInv'
  BY <1>1, <1>5 DEF IInv, RekeyInv, InTxn, mediumVars
<1>10. ReaderInv'
  BY <1>1, <1>4 DEF IInv, ReaderInv, LeaseHeld
<1> QED BY <1>1, <1>4, <1>6, <1>7, <1>8, <1>9, <1>10 DEF IInv, CellMove, history

\* A checkpoint repeats the selected root set.
LEMMA InvWriteCheckpoint ==
    ASSUME IInv, TypeOK', WriteCheckpoint
    PROVE  IInv' /\ CellMove
<1>1. /\ pc = "checkpoint" /\ pc' = "checkpointSync"
      /\ sb' = [sb EXCEPT ![CheckpointSlot(N.gen)] = Superblock(N, inner.meta)]
      /\ UNCHANGED <<ring, page, len, mediumVars, inner, txn, rekey, reader, stamps, losses,
                     history>>
  BY DEF WriteCheckpoint, N
<1>2. D = N /\ V = N /\ O' = O /\ N' = N
  BY <1>1 DEF IInv, PhaseInv, Committed, O, N
<1>3. /\ N \in RootSet /\ N.gen \in Nat /\ inner.meta \in Nat
      /\ CheckpointSlot(N.gen) \in SbSlots
  BY CheckpointSlotType DEF IInv, TypeOK, RootSet, N
<1>4. /\ Superblock(N, inner.meta) \in Superblocks
      /\ Superblock(N, inner.meta).valid /\ Superblock(N, inner.meta).root = N
  BY <1>3, Constructors
<1>5. DiskInv' /\ D' = D /\ V' = V
  BY <1>1, <1>2, <1>3, <1>4, SuperblockDisk DEF IInv
<1>6. PhaseInv'
  BY <1>1, <1>2, <1>5 DEF IInv, PhaseInv, BeforeRecord, Committed, Down, mediumVars
<1>7. TxnInv'
  BY <1>1, <1>2 DEF IInv, TxnInv, InTxn
<1>8. StampInv'
  BY <1>1, <1>2, <1>5 DEF IInv, StampInv, InTxn, Down, history
<1>9. RekeyInv'
  BY <1>1, <1>2 DEF IInv, RekeyInv, InTxn, mediumVars
<1>10. ReaderInv'
  BY <1>1, <1>5 DEF IInv, ReaderInv, LeaseHeld
<1> QED BY <1>1, <1>5, <1>6, <1>7, <1>8, <1>9, <1>10 DEF IInv, CellMove, history

\* The checkpoint's fsync.
LEMMA InvSyncCheckpoint ==
    ASSUME IInv, TypeOK', SyncCheckpoint
    PROVE  IInv' /\ CellMove
<1>1. /\ pc = "checkpointSync" /\ pc' = "adopt" /\ Fsync
      /\ UNCHANGED <<fileVars, inner, txn, rekey, reader, stamps, losses, history>>
  BY DEF SyncCheckpoint
<1>2. DiskInv' /\ D' = V /\ V' = V
  BY <1>1, SyncDisk DEF IInv
<1>3. V = N /\ O' = O /\ N' = N /\ ring[RingSlot(N.gen)] = Record(N)
  BY <1>1 DEF IInv, PhaseInv, Committed, O, N
<1>4. PhaseInv'
  BY <1>1, <1>2, <1>3 DEF PhaseInv, BeforeRecord, Committed, Down, Fsync, fileVars
<1>5. TxnInv'
  BY <1>1, <1>3 DEF IInv, TxnInv, InTxn
<1>6. StampInv'
  BY <1>1, <1>2, <1>3 DEF IInv, StampInv, InTxn, Down, history
<1>7. RekeyInv'
  BY <1>1, <1>3 DEF IInv, RekeyInv, InTxn, Fsync, fileVars
<1>8. ReaderInv'
  BY <1>1, <1>2 DEF IInv, ReaderInv, LeaseHeld, fileVars
<1> QED BY <1>1, <1>2, <1>4, <1>5, <1>6, <1>7, <1>8 DEF IInv, CellMove, history

\* Memory adopts what the medium already selects.
LEMMA InvAdopt ==
    ASSUME IInv, TypeOK', Adopt
    PROVE  IInv' /\ CellMove
<1>1. /\ pc = "adopt" /\ pc' = "idle" /\ O' = N /\ txn' = NoTxn
      /\ acked' = N.stamp /\ offered' = {}
      /\ UNCHANGED <<fileVars, mediumVars, rekey, reader, stamps, losses, ackedMeta>>
  BY DEF Adopt, O, N
<1>2. DiskInv' /\ D' = D /\ V' = V
  BY <1>1, QuietDisk DEF IInv
<1>3. /\ D = N /\ V = N /\ N.gen = O.gen + 1
      /\ ring[RingSlot(N.gen)] = Record(N) /\ dring[RingSlot(N.gen)] = Record(N)
  BY <1>1 DEF IInv, PhaseInv, Committed, TxnInv, InTxn
<1>4. PhaseInv'
  BY <1>1, <1>2, <1>3 DEF PhaseInv, BeforeRecord, Committed, Down
<1>5. TxnInv'
  BY <1>1 DEF TxnInv, InTxn
<1>6. StampInv'
  BY <1>1, <1>2, <1>3 DEF IInv, StampInv, InTxn, Down
<1>7. RekeyInv'
  <2>1. ASSUME NEW k \in Rekeyers, rekey[k].step \in {"write", "sync"}
        PROVE  rekey[k].image.valid /\ rekey[k].image.root.gen < N.gen
    <3>1. /\ rekey[k].image.root.gen \in Nat /\ O.gen \in Nat
      BY DEF IInv, TypeOK, Superblocks, RootSet, O
    <3>2. rekey[k].image.valid /\ (rekey[k].image.root = O \/ rekey[k].image.root.gen < O.gen)
      BY <2>1 DEF IInv, RekeyInv
    <3> QED BY <3>1, <3>2, <1>3
  <2> QED BY <1>1, <1>3, <2>1 DEF RekeyInv, InTxn, fileVars, mediumVars
<1>8. ReaderInv'
  BY <1>1, <1>2 DEF IInv, ReaderInv, LeaseHeld, NoTxn, fileVars
<1> QED BY <1>1, <1>2, <1>3, <1>4, <1>5, <1>6, <1>7, <1>8 DEF IInv, CellMove, history

\* A rekey in memory.
LEMMA InvRekeySet ==
    ASSUME IInv, TypeOK', NEW k \in Rekeyers, RekeySet(k)
    PROVE  IInv' /\ CellMove
<1>1. /\ pc = "idle" /\ pc' = "idle" /\ O' = O /\ N' = N
      /\ rekey' = [rekey EXCEPT ![k] = [step |-> "encode", image |-> NoSuperblock]]
      /\ UNCHANGED <<fileVars, mediumVars, pc, txn, reader, stamps, losses, history>>
  BY DEF RekeySet, O, N
<1>2. DiskInv' /\ D' = D /\ V' = V
  BY <1>1, QuietDisk DEF IInv
<1>3. PhaseInv'
  BY <1>1, <1>2 DEF IInv, PhaseInv, BeforeRecord, Committed, Down
<1>4. TxnInv'
  BY <1>1 DEF TxnInv, InTxn
<1>5. StampInv'
  BY <1>1, <1>2 DEF IInv, StampInv, InTxn, Down, history
<1>6. RekeyInv'
  BY <1>1 DEF IInv, TypeOK, RekeyInv, fileVars, mediumVars
<1>7. ReaderInv'
  BY <1>1, <1>2 DEF IInv, ReaderInv, LeaseHeld, fileVars
<1> QED BY <1>1, <1>2, <1>3, <1>4, <1>5, <1>6, <1>7 DEF IInv, CellMove, history

\* A rekey encodes the root set adopted when it does.
LEMMA InvRekeyEncode ==
    ASSUME IInv, TypeOK', NEW k \in Rekeyers, RekeyEncode(k)
    PROVE  IInv' /\ CellMove
<1>1. /\ pc = "idle" /\ pc' = "idle" /\ O' = O /\ N' = N
      /\ rekey' = [rekey EXCEPT ![k] = [step |-> "write", image |-> Superblock(O, inner.meta)]]
      /\ UNCHANGED <<fileVars, mediumVars, pc, txn, reader, stamps, losses, history>>
  BY DEF RekeyEncode, O, N
<1>2. DiskInv' /\ D' = D /\ V' = V
  BY <1>1, QuietDisk DEF IInv
<1>3. PhaseInv'
  BY <1>1, <1>2 DEF IInv, PhaseInv, BeforeRecord, Committed, Down
<1>4. TxnInv'
  BY <1>1 DEF TxnInv, InTxn
<1>5. StampInv'
  BY <1>1, <1>2 DEF IInv, StampInv, InTxn, Down, history
<1>6. RekeyInv'
  <2>1. Superblock(O, inner.meta).valid /\ Superblock(O, inner.meta).root = O
    BY Constructors DEF IInv, TypeOK, O
  <2> QED BY <1>1, <2>1 DEF IInv, TypeOK, RekeyInv, fileVars, mediumVars
<1>7. ReaderInv'
  BY <1>1, <1>2 DEF IInv, ReaderInv, LeaseHeld, fileVars
<1> QED BY <1>1, <1>2, <1>3, <1>4, <1>5, <1>6, <1>7 DEF IInv, CellMove, history

\* A rekey writes its image, which commits may have overtaken: the ring covers them.
LEMMA InvRekeyWrite ==
    ASSUME IInv, TypeOK', NEW k \in Rekeyers, RekeyWrite(k)
    PROVE  IInv' /\ CellMove
<1> DEFINE W == rekey[k].image
<1>1. /\ pc \in {"idle", "adopt"} /\ O' = O /\ N' = N /\ rekey[k].step = "write"
      /\ sb' = [sb EXCEPT ![CheckpointSlot(W.root.gen)] = W]
      /\ rekey' = [rekey EXCEPT ![k] = [step |-> "sync", image |-> W]]
      /\ UNCHANGED <<ring, page, len, mediumVars, pc, inner, txn, reader, stamps, losses,
                     history>>
  BY DEF RekeyWrite, O, N
<1>2. D = V
  BY <1>1 DEF IInv, PhaseInv, Committed
<1>3. W \in Superblocks /\ CheckpointSlot(W.root.gen) \in SbSlots
  BY CheckpointSlotType DEF IInv, TypeOK, Superblocks, RootSet
<1>4. /\ W.valid
      /\ \/ W.root = O
         \/ /\ W.root.gen < O.gen
            /\ ring[RingSlot(O.gen)] = Record(O) /\ dring[RingSlot(O.gen)] = Record(O)
  BY <1>1 DEF IInv, RekeyInv
<1>11. \/ W.root = V
       \/ /\ W.root.gen < V.gen
          /\ ring[RingSlot(V.gen)] = Record(V) /\ dring[RingSlot(V.gen)] = Record(V)
  <2>1. CASE pc = "idle"
    BY <2>1, <1>4 DEF IInv, PhaseInv
  <2>2. CASE pc = "adopt"
    <3>1. /\ V = N /\ N.gen = O.gen + 1
          /\ ring[RingSlot(N.gen)] = Record(N) /\ dring[RingSlot(N.gen)] = Record(N)
      BY <2>2 DEF IInv, PhaseInv, Committed, TxnInv, InTxn
    <3>2. W.root.gen \in Nat /\ O.gen \in Nat /\ (W.root = O \/ W.root.gen < O.gen)
      BY <1>3, <1>4 DEF IInv, TypeOK, Superblocks, RootSet, O
    <3>3. W.root.gen < N.gen
      <4> HIDE DEF W
      <4> QED BY <3>1, <3>2
    <3> QED BY <3>1, <3>3
  <2> QED BY <1>1, <2>1, <2>2
<1>5. DiskInv' /\ D' = D /\ V' = V
  <2> HIDE DEF W
  <2> QED BY <1>1, <1>2, <1>3, <1>4, <1>11, SuperblockDisk DEF IInv
<1>6. PhaseInv'
  BY <1>1, <1>5 DEF IInv, PhaseInv, BeforeRecord, Committed, Down, mediumVars
<1>7. TxnInv'
  BY <1>1 DEF IInv, TxnInv, InTxn
<1>8. StampInv'
  BY <1>1, <1>5 DEF IInv, StampInv, InTxn, Down, history
<1>9. RekeyInv'
  BY <1>1, <1>4 DEF IInv, TypeOK, RekeyInv, InTxn, mediumVars
<1>10. ReaderInv'
  BY <1>1, <1>5 DEF IInv, ReaderInv, LeaseHeld
<1> QED BY <1>1, <1>5, <1>6, <1>7, <1>8, <1>9, <1>10 DEF IInv, CellMove, history

\* A rekey's fsync.
LEMMA InvRekeySync ==
    ASSUME IInv, TypeOK', NEW k \in Rekeyers, RekeySync(k)
    PROVE  IInv' /\ CellMove
<1>1. /\ Fsync /\ O' = O /\ N' = N /\ rekey[k].step = "sync"
      /\ rekey' = [rekey EXCEPT ![k] = NoRekey]
      /\ UNCHANGED <<fileVars, pc, inner, txn, reader, stamps, losses, acked, offered>>
  BY DEF RekeySync, O, N
<1>2. pc \in {"idle", "adopt"} /\ D = V
  BY <1>1 DEF IInv, RekeyInv, PhaseInv, Committed
<1>3. DiskInv' /\ D' = V /\ V' = V
  BY <1>1, SyncDisk DEF IInv
<1>4. PhaseInv'
  BY <1>1, <1>2, <1>3 DEF IInv, PhaseInv, BeforeRecord, Committed, Down, Fsync, fileVars
<1>5. TxnInv'
  BY <1>1, <1>2 DEF IInv, TxnInv, InTxn
<1>6. StampInv'
  BY <1>1, <1>2, <1>3 DEF IInv, StampInv, InTxn, Down
<1>7. RekeyInv'
  BY <1>1, <1>2 DEF IInv, TypeOK, RekeyInv, InTxn, NoRekey, Fsync, fileVars
<1>8. ReaderInv'
  BY <1>1, <1>3 DEF IInv, ReaderInv, LeaseHeld, fileVars
<1> QED BY <1>1, <1>3, <1>4, <1>5, <1>6, <1>7, <1>8 DEF IInv, CellMove, history

\* The process may end at any step but between the fold and its fsync.
LEMMA InvExit ==
    ASSUME IInv, TypeOK', Tolerated, Exit
    PROVE  IInv' /\ CellMove
<1>1. /\ pc \notin {"closed", "refused", "fold"} /\ pc' = "closed" /\ txn' = NoTxn
      /\ rekey' = [k \in Rekeyers |-> NoRekey]
      /\ UNCHANGED <<fileVars, mediumVars, reader, stamps, losses, history>>
  BY DEF Exit, Tolerated
<1>2. DiskInv' /\ D' = D /\ V' = V
  BY <1>1, QuietDisk DEF IInv
<1>3. pc \in {"idle", "load", "commit"} \cup BeforeRecord \cup Committed
  BY <1>1 DEF IInv, TypeOK, Steps, BeforeRecord, Committed
<1>4. V = D \/ sb = dsb
  BY <1>3 DEF IInv, PhaseInv
<1>5. PhaseInv'
  BY <1>1, <1>2, <1>4 DEF PhaseInv, BeforeRecord, Committed, Down, fileVars, mediumVars
<1>6. TxnInv'
  BY <1>1 DEF TxnInv, InTxn
<1>7. D.stamp \in {acked} \cup offered /\ V.stamp \in {acked} \cup offered
  BY <1>3 DEF IInv, PhaseInv, StampInv, InTxn, BeforeRecord, Committed
<1>8. StampInv'
  BY <1>1, <1>2, <1>7 DEF IInv, StampInv, InTxn, Down, history
<1>9. RekeyInv'
  BY <1>1 DEF RekeyInv, NoRekey
<1>10. ReaderInv'
  BY <1>1, <1>2 DEF IInv, ReaderInv, LeaseHeld, NoTxn, fileVars
<1> QED BY <1>1, <1>2, <1>5, <1>6, <1>8, <1>9, <1>10 DEF IInv, CellMove, history

\* A power loss at any step.
LEMMA InvPowerLoss ==
    ASSUME IInv, FirmInv, TypeOK', Tolerated, PowerLoss
    PROVE  IInv' /\ CellMove
<1>1. /\ pc' = "closed" /\ txn' = NoTxn
      /\ rekey' = [k \in Rekeyers |-> NoRekey]
      /\ reader' = [r \in Readers |-> NoReader]
      /\ UNCHANGED <<stamps, history>>
  BY DEF PowerLoss
<1>2. DiskInv' /\ V' = D' /\ (D' = D \/ D' = V)
  BY LossDisk DEF IInv
<1>3. PhaseInv'
  BY <1>1, <1>2 DEF PhaseInv, BeforeRecord, Committed, Down
<1>4. TxnInv'
  BY <1>1 DEF TxnInv, InTxn
<1>5. D.stamp \in {acked} \cup offered /\ V.stamp \in {acked} \cup offered
  <2>1. pc \in {"idle", "commit"} \cup Down \cup {"fold", "load"} \cup BeforeRecord \cup Committed
    BY DEF IInv, TypeOK, Steps, BeforeRecord, Committed, Down
  <2> QED BY <2>1 DEF IInv, PhaseInv, StampInv, InTxn, BeforeRecord, Committed, Down
<1>6. StampInv'
  BY <1>1, <1>2, <1>5 DEF IInv, StampInv, InTxn, Down, history
<1>7. RekeyInv'
  BY <1>1 DEF RekeyInv, NoRekey
<1>8. ReaderInv'
  BY <1>1 DEF ReaderInv, LeaseHeld, NoTxn, NoReader
<1> QED BY <1>1, <1>2, <1>3, <1>4, <1>6, <1>7, <1>8 DEF IInv, CellMove, history

\* An image whose selection is not ahead of its best superblock selects that superblock.
LEMMA SelectedBase ==
    ASSUME NEW s \in [SbSlots -> Superblocks], NEW rg \in [Slots -> Records],
           ~(Selected(s, rg).gen > s[BestSlot(s)].root.gen)
    PROVE  Selected(s, rg) = s[BestSlot(s)].root
<1> DEFINE base == s[BestSlot(s)].root
<1>1. SUFFICES ASSUME \E i \in Slots : IsNewest(rg, i) /\ rg[i].root.gen > base.gen PROVE FALSE
  BY DEF Selected
<1>2. PICK i \in Slots : IsNewest(rg, i) /\ rg[i].root.gen > base.gen
  BY <1>1
<1>3. PICK j \in Slots : IsNewest(rg, j) /\ Selected(s, rg) = rg[j].root
  BY <1>1 DEF Selected
<1>4. rg[i].root.gen <= rg[j].root.gen
  BY <1>2, <1>3 DEF IsNewest
<1>5. rg[i].root.gen \in Nat /\ rg[j].root.gen \in Nat /\ base.gen \in Nat
  BY SelectedType DEF Records, Superblocks, RootSet
<1> QED BY <1>2, <1>3, <1>4, <1>5

\* Open adopts the file's selection; when it does not fold, that is the medium's too.
LEMMA InvOpen ==
    ASSUME IInv, TypeOK', Open
    PROVE  IInv' /\ CellMove
<1> DEFINE base == sb[BestSlot(sb)].root
           meta == SelectedMeta(sb, ring)
<1>1. /\ pc = "closed" /\ O' = V
      /\ UNCHANGED <<ring, page, len, mediumVars, txn, rekey, reader, stamps, losses, history>>
      /\ \/ /\ V.gen > base.gen /\ pc' = "fold"
            /\ sb' = [sb EXCEPT ![CheckpointSlot(V.gen)] = Superblock(V, meta)]
         \/ ~(V.gen > base.gen) /\ pc' = "load" /\ sb' = sb
  BY DEF Open, O, V
<1>2. /\ V \in RootSet /\ V.gen \in Nat /\ D \in RootSet /\ D.gen \in Nat /\ meta \in Nat
      /\ BestSlot(sb) \in SbSlots /\ CheckpointSlot(V.gen) \in SbSlots
  BY Selections, SelectedType, CheckpointSlotType DEF IInv, TypeOK
<1>3. /\ Superblock(V, meta) \in Superblocks
      /\ Superblock(V, meta).valid /\ Superblock(V, meta).root = V
  BY <1>2, Constructors
<1>4. DiskInv' /\ D' = D /\ V' = V
  <2>1. CASE sb' = sb
    BY <1>1, <2>1, QuietDisk DEF IInv, fileVars
  <2>2. CASE sb' = [sb EXCEPT ![CheckpointSlot(V.gen)] = Superblock(V, meta)]
    <3> HIDE DEF meta
    <3> QED BY <1>1, <1>2, <1>3, <2>2, SuperblockDisk DEF IInv
  <2> QED BY <1>1, <2>1, <2>2
<1>5. pc' = "load" => D = V
  <2> SUFFICES ASSUME pc' = "load", D # V PROVE FALSE
    OBVIOUS
  <2>1. V = base
    BY <1>1, SelectedBase DEF IInv, TypeOK, V
  <2>2. sb = dsb
    BY <1>1 DEF IInv, PhaseInv, Down
  <2>3. V.gen < D.gen \/ V = D
    <3>1. NoSuperblock.root = EmptyRoot /\ EmptyRoot.gen = 0
      BY DEF NoSuperblock, EmptyRoot
    <3>2. D.gen = 0 => D = EmptyRoot
      BY DEF IInv, DiskInv, Coherent
    <3>3. CASE sb[BestSlot(sb)].valid
      BY <2>1, <2>2, <1>2, <3>3 DEF IInv, DiskInv, Coherent, Entries
    <3>4. CASE sb[BestSlot(sb)] = NoSuperblock
      BY <2>1, <1>2, <3>1, <3>2, <3>4
    <3>5. sb[BestSlot(sb)].valid \/ sb[BestSlot(sb)] = NoSuperblock
      BY <1>2 DEF IInv, DiskInv, Coherent, Entries
    <3> QED BY <3>3, <3>4, <3>5
  <2>4. V = D \/ D.gen < V.gen
    BY DEF IInv, DiskInv, Coherent
  <2> QED BY <2>3, <2>4, <1>2
<1>6. PhaseInv'
  BY <1>1, <1>4, <1>5 DEF PhaseInv, BeforeRecord, Committed, Down
<1>7. TxnInv'
  BY <1>1 DEF TxnInv, InTxn
<1>8. StampInv'
  BY <1>1, <1>4 DEF IInv, StampInv, InTxn, Down, history
<1>9. RekeyInv'
  BY <1>1 DEF IInv, RekeyInv, InTxn
<1>10. ReaderInv'
  BY <1>1, <1>4 DEF IInv, ReaderInv, LeaseHeld
<1> QED BY <1>1, <1>4, <1>6, <1>7, <1>8, <1>9, <1>10 DEF IInv, CellMove, history

\* The fold's fsync.
LEMMA InvSyncFold ==
    ASSUME IInv, TypeOK', SyncFold
    PROVE  IInv' /\ CellMove
<1>1. /\ pc = "fold" /\ pc' = "load" /\ Fsync /\ O' = O /\ N' = N
      /\ UNCHANGED <<fileVars, inner, txn, rekey, reader, stamps, losses, history>>
  BY DEF SyncFold, O, N
<1>2. DiskInv' /\ D' = V /\ V' = V
  BY <1>1, SyncDisk DEF IInv
<1>3. V = O
  BY <1>1 DEF IInv, PhaseInv
<1>4. PhaseInv'
  BY <1>1, <1>2, <1>3 DEF PhaseInv, BeforeRecord, Committed, Down
<1>5. TxnInv'
  BY <1>1 DEF TxnInv, InTxn
<1>6. StampInv'
  BY <1>1, <1>2 DEF IInv, StampInv, InTxn, Down, history
<1>7. RekeyInv'
  BY <1>1 DEF IInv, RekeyInv, InTxn
<1>8. ReaderInv'
  BY <1>1, <1>2 DEF IInv, ReaderInv, LeaseHeld, fileVars
<1> QED BY <1>1, <1>2, <1>4, <1>5, <1>6, <1>7, <1>8 DEF IInv, CellMove, history

\* Loading what was selected, or refusing it, writes nothing.
LEMMA InvLoadRefuse ==
    ASSUME IInv, TypeOK', Load \/ Refuse
    PROVE  IInv' /\ CellMove
<1>1. /\ UNCHANGED <<fileVars, mediumVars, txn, rekey, reader, stamps, losses, ackedMeta>>
      /\ \/ /\ pc = "load" /\ pc' = "idle" /\ O' = O
            /\ acked' = O.stamp /\ offered' = {}
         \/ pc \in {"closed", "load"} /\ pc' = "refused" /\ UNCHANGED <<acked, offered>>
  BY DEF Load, Refuse, O, history
<1>2. DiskInv' /\ D' = D /\ V' = V
  BY <1>1, QuietDisk DEF IInv
<1>3. PhaseInv'
  BY <1>1, <1>2 DEF IInv, PhaseInv, BeforeRecord, Committed, Down, fileVars, mediumVars
<1>4. TxnInv'
  BY <1>1 DEF TxnInv, InTxn
<1>5. StampInv'
  BY <1>1, <1>2 DEF IInv, StampInv, PhaseInv, InTxn, Down
<1>6. RekeyInv'
  <2>1. \A k \in Rekeyers : rekey[k].step = "idle"
    BY <1>1 DEF IInv, RekeyInv, InTxn
  <2> QED BY <1>1, <2>1 DEF RekeyInv
<1>7. ReaderInv'
  BY <1>1, <1>2 DEF IInv, ReaderInv, LeaseHeld, fileVars
<1>8. pc = "load" => D = O /\ V = O
  BY DEF IInv, PhaseInv
<1> QED BY <1>1, <1>2, <1>3, <1>4, <1>5, <1>6, <1>7, <1>8 DEF IInv, CellMove, history

\* A reader's steps: the root set it selects is intact and spared by a transaction
\* that is already writing.
LEMMA InvReader ==
    ASSUME IInv, TypeOK', NEW q \in Readers, Lease(q) \/ OpenRead(q) \/ CloseRead(q)
    PROVE  IInv' /\ CellMove
<1>1. /\ O' = O /\ N' = N
      /\ UNCHANGED <<fileVars, mediumVars, pc, inner, txn, rekey, stamps, losses, history>>
  BY DEF Lease, OpenRead, CloseRead, O, N
<1>2. DiskInv' /\ D' = D /\ V' = V
  BY <1>1, QuietDisk DEF IInv
<1>3. PhaseInv'
  BY <1>1, <1>2 DEF IInv, PhaseInv, fileVars, mediumVars
<1>4. TxnInv'
  BY <1>1 DEF IInv, TxnInv, fileVars, mediumVars
<1>5. StampInv'
  BY <1>1, <1>2 DEF IInv, StampInv, history
<1>6. RekeyInv'
  BY <1>1 DEF IInv, RekeyInv, fileVars, mediumVars
<1>7. ReaderInv'
  <2>1. \A r \in Readers : r # q => reader'[r] = reader[r]
    BY DEF Lease, OpenRead, CloseRead, IInv, TypeOK
  <2>2. LeaseHeld => reader'[q].step = "closed"
    BY DEF Lease, OpenRead, CloseRead, NoReader, IInv, TypeOK, ReaderInv, LeaseHeld
  <2>3. reader'[q].step = "reading" => reader'[q].root = V
    BY DEF Lease, OpenRead, CloseRead, NoReader, IInv, TypeOK, V
  <2>4. Intact(V, page) /\ Clear(V, V)
    BY DEF IInv, DiskInv, Safe, Intact, WellFormed, Clear
  <2>5. pc = "write" => \A p \in txn.todo : V.refs[p] = Blank
    BY DEF IInv, PhaseInv, TxnInv, BeforeRecord
  <2>6. ASSUME NEW r \in Readers, reader'[r].step = "reading"
        PROVE  /\ Intact(reader'[r].root, page) /\ Clear(reader'[r].root, V)
               /\ pc = "write" => \A p \in txn.todo : reader'[r].root.refs[p] = Blank
    <3>1. CASE r = q
      BY <3>1, <2>3, <2>4, <2>5, <2>6
    <3>2. CASE r # q
      BY <3>2, <2>1, <2>6 DEF IInv, ReaderInv, LeaseHeld
    <3> QED BY <3>1, <3>2
  <2>7. LeaseHeld => \A r \in Readers : reader'[r].step = "closed"
    BY <2>1, <2>2 DEF IInv, ReaderInv, LeaseHeld
  <2> QED BY <1>1, <1>2, <2>6, <2>7 DEF ReaderInv, LeaseHeld, fileVars
<1> QED BY <1>1, <1>2, <1>3, <1>4, <1>5, <1>6, <1>7 DEF IInv, CellMove, history

\* Every step, under the faults tolerated.
LEMMA InvStep ==
    ASSUME Tolerated, IInv, FirmInv, [Next]_vars
    PROVE  IInv' /\ CellMove
<1>1. TypeOK'
  BY TypeStep DEF IInv
<1>2. CASE Begin
  BY <1>1, <1>2, InvBegin
<1>3. CASE \E p \in Pages : WritePage(p)
  BY <1>1, <1>3, InvWritePage
<1>4. CASE SyncPages
  BY <1>1, <1>4, InvSyncPages
<1>5. CASE WriteRecord
  BY <1>1, <1>5, InvWriteRecord
<1>6. CASE Commit
  BY <1>1, <1>6, InvCommit
<1>7. CASE Grow
  BY <1>1, <1>7, InvGrow
<1>8. CASE WriteCheckpoint
  BY <1>1, <1>8, InvWriteCheckpoint
<1>9. CASE SyncCheckpoint
  BY <1>1, <1>9, InvSyncCheckpoint
<1>10. CASE Adopt
  BY <1>1, <1>10, InvAdopt
<1>11. CASE FailTxn
  BY <1>11 DEF FailTxn, Tolerated
<1>12. CASE \E k \in Rekeyers : RekeySet(k)
  BY <1>1, <1>12, InvRekeySet
<1>13. CASE \E k \in Rekeyers : RekeyEncode(k)
  BY <1>1, <1>13, InvRekeyEncode
<1>14. CASE \E k \in Rekeyers : RekeyWrite(k)
  BY <1>1, <1>14, InvRekeyWrite
<1>15. CASE \E k \in Rekeyers : RekeySync(k)
  BY <1>1, <1>15, InvRekeySync
<1>16. CASE Exit
  BY <1>1, <1>16, InvExit
<1>17. CASE PowerLoss
  BY <1>1, <1>17, InvPowerLoss
<1>18. CASE Open
  BY <1>1, <1>18, InvOpen
<1>19. CASE SyncFold
  BY <1>1, <1>19, InvSyncFold
<1>20. CASE Load \/ Refuse
  BY <1>1, <1>20, InvLoadRefuse
<1>21. CASE \E r \in Readers : Lease(r) \/ OpenRead(r) \/ CloseRead(r)
  BY <1>1, <1>21, InvReader
<1>22. CASE UNCHANGED vars
  <2>1. /\ UNCHANGED <<fileVars, mediumVars, pc, inner, txn, rekey, reader, stamps, losses,
                       history>>
        /\ O' = O /\ N' = N
    BY <1>22 DEF vars, fileVars, mediumVars, history, O, N
  <2>2. DiskInv' /\ D' = D /\ V' = V
    BY <2>1, QuietDisk DEF IInv
  <2>3. PhaseInv' /\ TxnInv'
    BY <2>1, <2>2 DEF IInv, PhaseInv, TxnInv, fileVars, mediumVars
  <2>4. StampInv' /\ RekeyInv' /\ ReaderInv'
    BY <2>1, <2>2 DEF IInv, StampInv, RekeyInv, ReaderInv, LeaseHeld, fileVars, mediumVars, history
  <2> QED BY <1>1, <2>1, <2>2, <2>3, <2>4 DEF IInv, CellMove, history
<1> QED BY <1>2, <1>3, <1>4, <1>5, <1>6, <1>7, <1>8, <1>9, <1>10, <1>11, <1>12,
           <1>13, <1>14, <1>15, <1>16, <1>17, <1>18, <1>19, <1>20, <1>21, <1>22 DEF Next

\* The ring keeps the medium's root set until the first power loss: a record goes to
\* another slot, and an fsync persists the one of the file's root set.
LEMMA FirmStep ==
    ASSUME IInv, FirmInv, [Next]_vars
    PROVE  FirmInv'
<1>1. CASE UNCHANGED <<ring, dring, dsb, losses>>
  BY <1>1 DEF FirmInv, Firm, D
<1>2. CASE Fsync /\ UNCHANGED <<sb, ring, losses>>
  <2>1. D' = V /\ dring' = ring /\ ring' = ring
    BY <1>2 DEF Fsync, D, V
  <2>2. losses = 0 => V = EmptyRoot \/ ring[RingSlot(V.gen)] = Record(V)
    BY DEF IInv, DiskInv, Coherent, FirmInv, Firm
  <2> QED BY <1>2, <2>1, <2>2 DEF FirmInv, Firm
<1>3. CASE WriteRecord
  <2>1. /\ D' = D /\ dring' = dring /\ losses' = losses
        /\ ring' = [ring EXCEPT ![RingSlot(N.gen)] = Record(N)]
    BY <1>3 DEF WriteRecord, D, N, mediumVars
  <2>2. N.gen = D.gen + 1
    BY <1>3 DEF IInv, PhaseInv, TxnInv, WriteRecord, BeforeRecord, InTxn
  <2>3. RingSlot(D.gen) \in Slots /\ RingSlot(N.gen) # RingSlot(D.gen)
    BY <2>2, Selections, RingSlotNext DEF IInv
  <2>4. ring'[RingSlot(D.gen)] = ring[RingSlot(D.gen)]
    BY <2>1, <2>3 DEF IInv, TypeOK
  <2> QED BY <2>1, <2>4 DEF FirmInv, Firm
<1>4. CASE PowerLoss
  BY <1>4 DEF PowerLoss, FirmInv, IInv, TypeOK
<1>5. \/ UNCHANGED <<ring, dring, dsb, losses>>
      \/ Fsync /\ UNCHANGED <<sb, ring, losses>>
      \/ WriteRecord \/ PowerLoss
  BY DEF Next, vars, Begin, WritePage, SyncPages, Commit, Grow, WriteCheckpoint,
         SyncCheckpoint, Adopt, FailTxn, RekeySet, RekeyEncode, RekeyWrite, RekeySync, Exit,
         Open, SyncFold, Load, Refuse, Lease, OpenRead, CloseRead, fileVars, mediumVars
<1> QED BY <1>1, <1>2, <1>3, <1>4, <1>5

\* A new file satisfies the invariant: both superblocks hold the empty root set.
LEMMA InvInit == Init => IInv /\ D = EmptyRoot /\ V = EmptyRoot
<1> SUFFICES ASSUME Init PROVE IInv /\ D = EmptyRoot /\ V = EmptyRoot
  OBVIOUS
<1>1. TypeOK
  BY TypeInit
<1>2. /\ dsb = sb /\ dring = ring /\ dpage = page /\ dlen = len
      /\ \A b \in SbSlots : sb[b].valid /\ sb[b].root = EmptyRoot
      /\ \A i \in Slots : ~ring[i].valid
  BY Constructors DEF Init, NoRecord
<1>3. Coherent(sb, ring, dsb, dring, EmptyRoot, EmptyRoot)
  <2>1. Entries(sb, ring, EmptyRoot, EmptyRoot)
    BY <1>2 DEF Entries
  <2>2. 0 \in SbSlots
    BY DEF SbSlots
  <2> QED BY <1>2, <2>1, <2>2 DEF Coherent, Anchored
<1>4. D = EmptyRoot /\ V = EmptyRoot
  <2>1. /\ sb \in [SbSlots -> Superblocks] /\ ring \in [Slots -> Records]
        /\ dsb \in [SbSlots -> Superblocks] /\ dring \in [Slots -> Records]
    BY <1>1 DEF TypeOK
  <2> QED BY <1>3, <2>1, CoherentSelects, Constructors DEF D, V
<1>5. \A p \in Pages : EmptyRoot.refs[p] = Blank /\ EmptyRoot.free[p] = 0
  BY DEF EmptyRoot
<1>6. EmptyRoot.reserve = {} /\ EmptyRoot.stamp = 0
  BY DEF EmptyRoot
<1>7. DiskInv
  BY <1>2, <1>3, <1>4, <1>5, <1>6, <1>1 DEF DiskInv, Safe, WellFormed, TypeOK
<1>8. PhaseInv
  BY <1>4 DEF Init, NoInner, O, PhaseInv, BeforeRecord, Committed, Down
<1>9. TxnInv /\ RekeyInv /\ ReaderInv
  BY DEF Init, TxnInv, InTxn, RekeyInv, ReaderInv, LeaseHeld, NoTxn, NoRekey, NoReader
<1>10. StampInv
  BY <1>4, <1>6 DEF Init, StampInv, InTxn, Down, NoInner, O
<1> QED BY <1>1, <1>4, <1>7, <1>8, <1>9, <1>10 DEF IInv

------------------------------------------------------------------------------
(* What the store promises under the faults tolerated *)

\* The inductive invariant holds.
THEOREM Invariant ==
    ASSUME Tolerated
    PROVE  Spec => [](IInv /\ FirmInv)
<1>1. Init => IInv /\ FirmInv
  BY InvInit DEF FirmInv, Firm
<1>2. IInv /\ FirmInv /\ [Next]_vars => IInv' /\ FirmInv'
  BY InvStep, FirmStep
<1> QED BY <1>1, <1>2, PTL DEF Spec

\* Whenever no process writes the file, an open would select the root set last adopted or
\* one a later commit_txn was publishing, with every page intact, whatever processes died
\* and whatever subset of the unsynced writes power losses kept.
THEOREM CommitAllOrNothing ==
    ASSUME Tolerated
    PROVE  Spec => []AllOrNothing
<1>1. IInv => AllOrNothing
  <2> SUFFICES ASSUME IInv, pc = "closed"
               PROVE  Intact(V, page) /\ V.stamp \in {acked} \cup offered
    BY DEF AllOrNothing, V
  <2>1. Intact(V, page)
    BY DEF IInv, DiskInv, Safe, Intact
  <2> QED BY <2>1 DEF IInv, StampInv, Down
<1> QED BY <1>1, Invariant, PTL

\* A reader finds every page of the root set it opened unchanged while it holds its
\* reclamation lease, whatever the writer commits, for any number of readers.
THEOREM ReadersSeeOneRootSet ==
    ASSUME Tolerated
    PROVE  Spec => []ReaderSnapshot
<1>1. IInv => ReaderSnapshot
  BY DEF IInv, ReaderInv, LeaseHeld, ReaderSnapshot
<1> QED BY <1>1, Invariant, PTL

\* The root sets the file and the medium stand for are the selected ones.
LEMMA CellValues ==
    IInv => Value(sb, ring, page) = V.stamp /\ Value(dsb, dring, dpage) = D.stamp
<1> SUFFICES ASSUME IInv
             PROVE  Value(sb, ring, page) = V.stamp /\ Value(dsb, dring, dpage) = D.stamp
  OBVIOUS
<1>1. Intact(V, page) /\ Intact(D, dpage)
  BY DEF IInv, DiskInv, Safe, Intact
<1> QED BY <1>1 DEF Value, V, D

\* The file implements the durable cell: a commit becomes visible at once and whole, is
\* durable before commit_txn acknowledges it, and a power loss leaves the durable value
\* or the visible one.
THEOREM FileImplementsCell ==
    ASSUME Tolerated
    PROVE  Spec => ImplementsCell
<1>1. Init => Cell!Init
  <2> SUFFICES ASSUME Init PROVE Cell!Init
    OBVIOUS
  <2>1. V.stamp = 0 /\ D.stamp = 0 /\ acked = 0
    BY InvInit DEF EmptyRoot, Init
  <2>2. Value(sb, ring, page) = 0 /\ Value(dsb, dring, dpage) = 0
    BY <2>1, InvInit, CellValues
  <2> QED BY <2>1, <2>2 DEF Cell!Init
<1>3. IInv' => Value(sb, ring, page)' = V'.stamp /\ Value(dsb, dring, dpage)' = D'.stamp
  <2>1. IInv' => (Value(sb, ring, page) = V.stamp /\ Value(dsb, dring, dpage) = D.stamp)'
    BY CellValues, PTL
  <2> QED BY <2>1
<1>4. TypeOK' => V'.stamp \in Nat
  <2>1. TypeOK => V.stamp \in Nat
    BY Selections
  <2>2. TypeOK' => (V.stamp \in Nat)'
    BY <2>1, PTL
  <2> QED BY <2>2
<1>2. IInv /\ FirmInv /\ [Next]_vars => [Cell!Next]_(Cell!cell)
  <2> SUFFICES ASSUME IInv, FirmInv, [Next]_vars PROVE [Cell!Next]_(Cell!cell)
    OBVIOUS
  <2>1. IInv' /\ CellMove
    BY InvStep
  <2>2. Value(sb, ring, page) = V.stamp /\ Value(dsb, dring, dpage) = D.stamp
    BY CellValues
  <2>3. Value(sb, ring, page)' = V'.stamp /\ Value(dsb, dring, dpage)' = D'.stamp
    BY <1>3, <2>1
  <2>4. V'.stamp \in Nat
    BY <1>4, <2>1 DEF IInv
  <2> QED BY <2>1, <2>2, <2>3, <2>4
          DEF CellMove, Cell!Next, Cell!Publish, Cell!Persist, Cell!Lose, Cell!Acknowledge,
              Cell!cell
<1> QED BY <1>1, <1>2, Invariant, PTL DEF Spec, ImplementsCell, Cell!Spec


------------------------------------------------------------------------------
(* What a successful rekey wrote is kept *)

\* Both slots decode, and each holds a generation that checkpoints there.
Slotted(s) ==
    \A b \in SbSlots :
        s[b].valid /\ (s[b].root.gen # 0 => CheckpointSlot(s[b].root.gen) = b)

\* The better of the two superblocks a and b, in slots 0 and 1, carries metadata m or newer.
Carries(a, b, m) ==
    /\ b.root.gen > a.root.gen => b.meta >= m
    /\ ~(b.root.gen > a.root.gen) => a.meta >= m

\* The slots newer than superblock x carry metadata that is as new.
Follow(s, x) == \A b \in SbSlots : s[b].root.gen > x.root.gen => s[b].meta >= x.meta

\* Whatever a power loss keeps of the dirty slots, the better one carries m or newer.
MetaKept(s, ds, m) ==
    \A a \in {s[0], ds[0]}, b \in {s[1], ds[1]} : Carries(a, b, m)

MetaInv ==
    /\ Slotted(sb) /\ Slotted(dsb)
    /\ pc \notin Down => ackedMeta <= inner.meta
    /\ MetaKept(sb, dsb, ackedMeta)
    /\ \A k \in Rekeyers : rekey[k].step \in {"write", "sync"} =>
          /\ rekey[k].image.meta = inner.meta
          /\ Follow(sb, rekey[k].image) /\ Follow(dsb, rekey[k].image)
    /\ \A k \in Rekeyers : rekey[k].step = "sync" => Carries(sb[0], sb[1], rekey[k].image.meta)

\* No slot, in the file or on the medium, is newer than the root set the file selects.
LEMMA SlotsBounded ==
    ASSUME IInv, Slotted(sb), Slotted(dsb), NEW b \in SbSlots
    PROVE  /\ sb[b] \in Superblocks /\ sb[b].root.gen \in Nat /\ sb[b].meta \in Nat
           /\ dsb[b] \in Superblocks /\ dsb[b].root.gen \in Nat /\ dsb[b].meta \in Nat
           /\ V.gen \in Nat /\ sb[b].root.gen <= V.gen /\ dsb[b].root.gen <= V.gen
<1>1. sb[b] \in Superblocks /\ dsb[b] \in Superblocks
  BY DEF IInv, TypeOK
<1>2. /\ sb[b].root.gen \in Nat /\ sb[b].meta \in Nat
      /\ dsb[b].root.gen \in Nat /\ dsb[b].meta \in Nat
  BY <1>1 DEF Superblocks, RootSet
<1>3. D.gen \in Nat /\ V.gen \in Nat
  BY Selections DEF IInv
<1>4. V = D \/ D.gen < V.gen
  BY DEF IInv, DiskInv, Coherent
<1>5. sb[b].valid /\ dsb[b].valid
  BY DEF Slotted
<1>6. /\ sb[b].root.gen < D.gen \/ sb[b].root = D \/ sb[b].root = V
      /\ dsb[b].root.gen < D.gen \/ dsb[b].root = D
  BY <1>5 DEF IInv, DiskInv, Coherent, Entries
<1> QED BY <1>1, <1>2, <1>3, <1>4, <1>6

\* A superblock written to its own slot, newer than the metadata m and not ahead of slots
\* that lack it, leaves m carried by every mixture of the slots.
LEMMA SlotWritten ==
    ASSUME NEW s \in [SbSlots -> Superblocks], NEW ds \in [SbSlots -> Superblocks],
           NEW e \in Superblocks, NEW m \in Nat,
           Slotted(s), Slotted(ds), MetaKept(s, ds, m),
           e.valid, e.meta >= m,
           \A b \in SbSlots : /\ s[b].root.gen > e.root.gen => s[b].meta >= m
                              /\ ds[b].root.gen > e.root.gen => ds[b].meta >= m
    PROVE  LET s2 == [s EXCEPT ![CheckpointSlot(e.root.gen)] = e]
           IN  Slotted(s2) /\ MetaKept(s2, ds, m) /\ Carries(s2[0], s2[1], m)
<1> DEFINE c == CheckpointSlot(e.root.gen)
           s2 == [s EXCEPT ![c] = e]
<1>1. e.root.gen \in Nat /\ e.meta \in Nat
  BY DEF Superblocks, RootSet
<1>2. c \in {0, 1}
  BY <1>1, CheckpointSlotType DEF SbSlots
<1>3. e.root.gen = 0 => c = 0
  BY IntervalAssumption, SMT DEF CheckpointSlot
<1>4. \A b \in {0, 1} : /\ s[b].root.gen \in Nat /\ s[b].meta \in Nat
                        /\ ds[b].root.gen \in Nat /\ ds[b].meta \in Nat
  BY DEF SbSlots, Superblocks, RootSet
<1>5. c = 1 => s[0].root.gen # e.root.gen /\ ds[0].root.gen # e.root.gen
  BY <1>3 DEF Slotted, SbSlots
<1>6. /\ c = 0 => s2[1] = s[1]
      /\ c = 1 => s2[0] = s[0]
  BY <1>2 DEF SbSlots
<1>7. s2[c] = e
  BY <1>2 DEF SbSlots
<1>8. Slotted(s2)
  BY <1>2, <1>6, <1>7 DEF Slotted, SbSlots
<1> HIDE DEF s2, c
<1>9. CASE c = 0
  <2>1. \A b \in {s[1], ds[1]} : Carries(e, b, m)
    BY <1>1, <1>4 DEF Carries, SbSlots
  <2>2. \A b \in {s[1], ds[1]} : Carries(ds[0], b, m)
    BY DEF MetaKept
  <2> QED BY <1>6, <1>7, <1>8, <1>9, <2>1, <2>2 DEF MetaKept, s2, c
<1>10. CASE c = 1
  <2>1. \A a \in {s[0], ds[0]} : Carries(a, e, m)
    BY <1>1, <1>4, <1>5, <1>10 DEF Carries, SbSlots
  <2>2. \A a \in {s[0], ds[0]} : Carries(a, ds[1], m)
    BY DEF MetaKept
  <2> QED BY <1>6, <1>7, <1>8, <1>10, <2>1, <2>2 DEF MetaKept, s2, c
<1> QED BY <1>2, <1>9, <1>10

\* A step that writes no superblock, keeps the metadata in memory and the rekeys.
LEMMA MetaQuiet ==
    ASSUME MetaInv, UNCHANGED <<sb, dsb, rekey, ackedMeta>>, inner'.meta = inner.meta,
           pc' \notin Down => pc \notin Down
    PROVE  MetaInv'
BY DEF MetaInv, Slotted, MetaKept, Carries, Follow

\* An fsync.
LEMMA MetaFsync ==
    ASSUME MetaInv, dsb' = sb, UNCHANGED <<sb, rekey, ackedMeta, inner>>,
           pc' \notin Down => pc \notin Down
    PROVE  MetaInv'
<1>1. MetaKept(sb, sb, ackedMeta)
  BY DEF MetaInv, MetaKept
<1> QED BY <1>1 DEF MetaInv, Slotted, Carries, Follow, MetaKept

\* The checkpoint carries the metadata memory holds, and no slot is newer than it.
LEMMA MetaWriteCheckpoint ==
    ASSUME IInv, MetaInv, WriteCheckpoint
    PROVE  MetaInv'
<1> DEFINE e == Superblock(N, inner.meta)
<1>1. /\ pc = "checkpoint" /\ pc' = "checkpointSync"
      /\ sb' = [sb EXCEPT ![CheckpointSlot(N.gen)] = e]
      /\ UNCHANGED <<dsb, inner, rekey, ackedMeta>>
  BY DEF WriteCheckpoint, N, mediumVars, history
<1>2. V = N
  BY <1>1 DEF IInv, PhaseInv, Committed
<1>3. N \in RootSet /\ inner.meta \in Nat /\ ackedMeta \in Nat
  BY DEF IInv, TypeOK, N
<1>4. e \in Superblocks /\ e.valid /\ e.root = N /\ e.meta = inner.meta
  BY <1>3, Constructors DEF Superblock
<1>5. e.meta >= ackedMeta
  BY <1>1, <1>3, <1>4 DEF MetaInv, Down
<1>6. \A b \in SbSlots : ~(sb[b].root.gen > N.gen) /\ ~(dsb[b].root.gen > N.gen)
  BY <1>2, SlotsBounded DEF MetaInv
<1> HIDE DEF e
<1>7. /\ sb \in [SbSlots -> Superblocks] /\ dsb \in [SbSlots -> Superblocks]
      /\ Slotted(sb) /\ Slotted(dsb) /\ MetaKept(sb, dsb, ackedMeta)
  BY DEF IInv, TypeOK, MetaInv
<1>8. Slotted(sb') /\ MetaKept(sb', dsb, ackedMeta)
  BY <1>1, <1>3, <1>4, <1>5, <1>6, <1>7, SlotWritten
<1>9. ASSUME NEW k \in Rekeyers, rekey[k].step \in {"write", "sync"}
      PROVE  Follow(sb', rekey[k].image)
  <2>1. rekey[k].image.meta = inner.meta /\ Follow(sb, rekey[k].image)
    BY <1>9 DEF MetaInv
  <2>2. ASSUME NEW b \in SbSlots, sb'[b].root.gen > rekey[k].image.root.gen
        PROVE  sb'[b].meta >= rekey[k].image.meta
    <3>1. CASE sb'[b] = e
      BY <2>1, <3>1, <1>3, <1>4
    <3>2. CASE sb'[b] = sb[b]
      BY <2>1, <2>2, <3>2 DEF Follow
    <3> QED BY <1>1, <1>7, <3>1, <3>2
  <2> QED BY <2>2 DEF Follow
<1>10. \A k \in Rekeyers : rekey[k].step # "sync"
  BY <1>1 DEF IInv, RekeyInv
<1>11. \A k \in Rekeyers : rekey[k].step \in {"write", "sync"} =>
          /\ rekey[k].image.meta = inner.meta
          /\ Follow(sb', rekey[k].image) /\ Follow(dsb, rekey[k].image)
  BY <1>9 DEF MetaInv
<1>12. Slotted(dsb)' /\ (pc \notin Down => ackedMeta <= inner.meta)'
  BY <1>1 DEF MetaInv, Slotted, Down
<1> QED BY <1>1, <1>8, <1>10, <1>11, <1>12 DEF MetaInv, Slotted, MetaKept, Carries, Follow

\* The fold carries the metadata of the superblock it replaces as the best one.
LEMMA MetaOpen ==
    ASSUME IInv, MetaInv, Open
    PROVE  MetaInv'
<1> DEFINE base == sb[BestSlot(sb)].root
           meta == SelectedMeta(sb, ring)
           e == Superblock(V, meta)
<1>1. /\ pc = "closed" /\ pc' \in {"fold", "load"} /\ inner'.meta = meta
      /\ UNCHANGED <<dsb, rekey, ackedMeta>>
      /\ sb' = [sb EXCEPT ![CheckpointSlot(V.gen)] = e] \/ sb' = sb
  BY DEF Open, V, mediumVars, history
<1>2. /\ sb \in [SbSlots -> Superblocks] /\ dsb \in [SbSlots -> Superblocks]
      /\ ring \in [Slots -> Records] /\ ackedMeta \in Nat
      /\ Slotted(sb) /\ Slotted(dsb) /\ MetaKept(sb, dsb, ackedMeta)
  BY DEF IInv, TypeOK, MetaInv
<1>3. V \in RootSet /\ meta \in Nat
  BY <1>2, SelectedType DEF V
<1>4. e \in Superblocks /\ e.valid /\ e.root = V /\ e.meta = meta
  BY <1>3, Constructors DEF Superblock
<1>5. meta >= ackedMeta
  <2>1. Carries(sb[0], sb[1], ackedMeta) /\ sb[0].valid /\ sb[1].valid
    BY <1>2 DEF MetaKept, Slotted, SbSlots
  <2> QED BY <2>1 DEF SelectedMeta, BestSlot, Carries
<1>6. \A b \in SbSlots : ~(sb[b].root.gen > V.gen) /\ ~(dsb[b].root.gen > V.gen)
  BY <1>2, SlotsBounded
<1> HIDE DEF e, meta
<1>7. Slotted(sb') /\ MetaKept(sb', dsb, ackedMeta)
  <2>1. CASE sb' = sb
    BY <1>2, <2>1
  <2>2. CASE sb' = [sb EXCEPT ![CheckpointSlot(V.gen)] = e]
    BY <1>2, <1>3, <1>4, <1>5, <1>6, <2>2, SlotWritten
  <2> QED BY <1>1, <2>1, <2>2
<1>8. \A k \in Rekeyers : rekey[k].step = "idle"
  BY <1>1 DEF IInv, RekeyInv, InTxn
<1>9. Slotted(dsb') /\ ackedMeta' <= inner'.meta
  BY <1>1, <1>2, <1>3, <1>5
<1> QED BY <1>1, <1>7, <1>8, <1>9 DEF MetaInv, Slotted, MetaKept, Carries, Follow

\* With one rekeying thread, a rekey under way is the only one.
OneRekeyer == \A j, k \in Rekeyers : j = k

\* A rekey makes its metadata the newest in memory before it encodes anything.
LEMMA MetaRekeySet ==
    ASSUME IInv, MetaInv, OneRekeyer, NEW k \in Rekeyers, RekeySet(k)
    PROVE  MetaInv'
<1>1. /\ UNCHANGED <<sb, dsb, pc, ackedMeta>> /\ inner'.meta = inner.meta + 1
      /\ rekey' = [rekey EXCEPT ![k] = [step |-> "encode", image |-> NoSuperblock]]
  BY DEF RekeySet, fileVars, mediumVars, history
<1>2. \A j \in Rekeyers : rekey'[j].step = "encode"
  BY <1>1 DEF OneRekeyer, IInv, TypeOK
<1>3. pc \notin Down => ackedMeta <= inner'.meta
  BY <1>1 DEF MetaInv, IInv, TypeOK
<1> QED BY <1>1, <1>2, <1>3 DEF MetaInv, Slotted, MetaKept, Carries, Follow

\* The encoded superblock holds the newest root set and the newest metadata.
LEMMA MetaRekeyEncode ==
    ASSUME IInv, MetaInv, OneRekeyer, NEW k \in Rekeyers, RekeyEncode(k)
    PROVE  MetaInv'
<1>1. /\ pc = "idle" /\ UNCHANGED <<sb, dsb, pc, inner, ackedMeta>>
      /\ rekey' = [rekey EXCEPT ![k] = [step |-> "write", image |-> Superblock(O, inner.meta)]]
  BY DEF RekeyEncode, fileVars, mediumVars, history, O
<1>2. V = O
  BY <1>1 DEF IInv, PhaseInv
<1>3. \A b \in SbSlots : ~(sb[b].root.gen > O.gen) /\ ~(dsb[b].root.gen > O.gen)
  BY <1>2, SlotsBounded DEF MetaInv
<1>4. \A j \in Rekeyers : rekey'[j] = [step |-> "write", image |-> Superblock(O, inner.meta)]
  BY <1>1 DEF OneRekeyer, IInv, TypeOK
<1>5. Superblock(O, inner.meta).root = O /\ Superblock(O, inner.meta).meta = inner.meta
  BY DEF Superblock
<1>6. Follow(sb, Superblock(O, inner.meta)) /\ Follow(dsb, Superblock(O, inner.meta))
  BY <1>3, <1>5 DEF Follow
<1>7. \A j \in Rekeyers : /\ rekey'[j].step = "write" /\ rekey'[j].image.meta = inner.meta
                          /\ Follow(sb, rekey'[j].image) /\ Follow(dsb, rekey'[j].image)
  BY <1>4, <1>5, <1>6
<1> QED BY <1>1, <1>7 DEF MetaInv, Slotted, MetaKept, Carries, Follow

\* What a transaction checkpointed since the rekey encoded carries the rekey's metadata, so a
\* stale image hides no slot that lacks it.
LEMMA MetaRekeyWrite ==
    ASSUME IInv, MetaInv, OneRekeyer, NEW k \in Rekeyers, RekeyWrite(k)
    PROVE  MetaInv'
<1> DEFINE e == rekey[k].image
<1>1. /\ rekey[k].step = "write" /\ pc \in {"idle", "adopt"}
      /\ sb' = [sb EXCEPT ![CheckpointSlot(e.root.gen)] = e]
      /\ rekey' = [rekey EXCEPT ![k] = [step |-> "sync", image |-> e]]
      /\ UNCHANGED <<dsb, pc, inner, ackedMeta>>
  BY DEF RekeyWrite, mediumVars, history
<1>2. /\ sb \in [SbSlots -> Superblocks] /\ dsb \in [SbSlots -> Superblocks]
      /\ ackedMeta \in Nat /\ inner.meta \in Nat
      /\ Slotted(sb) /\ Slotted(dsb) /\ MetaKept(sb, dsb, ackedMeta)
      /\ e \in Superblocks
  BY DEF IInv, TypeOK, MetaInv
<1>3. e.valid /\ e.meta = inner.meta /\ Follow(sb, e) /\ Follow(dsb, e)
  BY <1>1 DEF IInv, RekeyInv, MetaInv
<1>4. ackedMeta <= e.meta
  BY <1>1, <1>3 DEF MetaInv, Down
<1>5. \A j \in Rekeyers : rekey'[j] = [step |-> "sync", image |-> e]
  BY <1>1 DEF OneRekeyer, IInv, TypeOK
<1> HIDE DEF e
<1>6. \A b \in SbSlots : /\ sb[b].root.gen \in Nat /\ sb[b].meta \in Nat
                         /\ dsb[b].root.gen \in Nat /\ dsb[b].meta \in Nat
  BY <1>2 DEF Superblocks, RootSet
<1>7. Slotted(sb') /\ MetaKept(sb', dsb, ackedMeta)
  <2>1. e.meta >= ackedMeta /\ e.meta \in Nat
    BY <1>2, <1>3, <1>4
  <2>2. \A b \in SbSlots : /\ sb[b].root.gen > e.root.gen => sb[b].meta >= ackedMeta
                           /\ dsb[b].root.gen > e.root.gen => dsb[b].meta >= ackedMeta
    BY <1>2, <1>3, <1>4, <1>6, <2>1 DEF Follow
  <2> QED BY <1>1, <1>2, <1>3, <2>1, <2>2, SlotWritten
<1>8. Carries(sb'[0], sb'[1], e.meta)
  <2>1. e.root.gen \in Nat
    BY <1>2 DEF Superblocks, RootSet
  <2>2. CheckpointSlot(e.root.gen) \in {0, 1}
    BY <2>1, CheckpointSlotType DEF SbSlots
  <2>3. e.root.gen = 0 => CheckpointSlot(e.root.gen) = 0
    BY IntervalAssumption, SMT DEF CheckpointSlot
  <2>4. CASE CheckpointSlot(e.root.gen) = 0
    <3>1. sb'[0] = e /\ sb'[1] = sb[1]
      BY <1>1, <1>2, <2>4 DEF SbSlots
    <3> QED BY <3>1, <1>3, <1>2 DEF Carries, Follow, SbSlots
  <2>5. CASE CheckpointSlot(e.root.gen) = 1
    <3>1. sb'[1] = e /\ sb'[0] = sb[0]
      BY <1>1, <1>2, <2>5 DEF SbSlots
    <3>2. sb[0].root.gen # e.root.gen
      BY <1>2, <2>3, <2>5 DEF Slotted, SbSlots
    <3> QED BY <3>1, <3>2, <1>2, <1>3, <1>6, <2>1 DEF Carries, Follow, SbSlots
  <2> QED BY <2>2, <2>4, <2>5
<1>9. Follow(sb', e)
  <2>1. ASSUME NEW b \in SbSlots, sb'[b].root.gen > e.root.gen PROVE sb'[b].meta >= e.meta
    <3>1. e.root.gen \in Nat /\ e.meta \in Nat
      BY <1>2 DEF Superblocks, RootSet
    <3>2. CASE sb'[b] = e
      BY <2>1, <3>1, <3>2
    <3>3. CASE sb'[b] = sb[b]
      BY <2>1, <3>3, <1>3 DEF Follow
    <3> QED BY <1>1, <1>2, <3>2, <3>3
  <2> QED BY <2>1 DEF Follow
<1>10. \A j \in Rekeyers : /\ rekey'[j].step = "sync" /\ rekey'[j].image = e
                           /\ rekey'[j].image.meta = inner.meta
  BY <1>3, <1>5
<1>11. \A j \in Rekeyers : /\ Carries(sb'[0], sb'[1], rekey'[j].image.meta)
                           /\ Follow(sb', rekey'[j].image) /\ Follow(dsb, rekey'[j].image)
  BY <1>3, <1>8, <1>9, <1>10
<1>12. (pc \notin Down => ackedMeta <= inner.meta)'
  BY <1>1 DEF MetaInv, Down
<1> QED BY <1>1, <1>2, <1>7, <1>10, <1>11, <1>12
        DEF MetaInv, Slotted, MetaKept, Carries, Follow

\* The fsync makes the metadata durable, and the rekey is acknowledged.
LEMMA MetaRekeySync ==
    ASSUME IInv, MetaInv, OneRekeyer, NEW k \in Rekeyers, RekeySync(k)
    PROVE  MetaInv'
<1> DEFINE m == rekey[k].image.meta
<1>1. /\ rekey[k].step = "sync" /\ dsb' = sb /\ UNCHANGED <<sb, pc, inner>>
      /\ rekey' = [rekey EXCEPT ![k] = NoRekey]
      /\ ackedMeta' = m \/ ackedMeta' = ackedMeta
  BY DEF RekeySync, Fsync, fileVars
<1>2. /\ m = inner.meta /\ Carries(sb[0], sb[1], m) /\ Carries(sb[0], sb[1], ackedMeta)
      /\ pc \notin Down
  BY <1>1 DEF MetaInv, MetaKept, IInv, RekeyInv, Down
<1>3. ackedMeta' <= inner.meta
  BY <1>1, <1>2 DEF MetaInv, IInv, TypeOK
<1>4. MetaKept(sb, sb, ackedMeta')
  BY <1>1, <1>2 DEF MetaKept
<1>5. \A j \in Rekeyers : rekey'[j].step = "idle"
  BY <1>1 DEF OneRekeyer, IInv, TypeOK, NoRekey
<1> QED BY <1>1, <1>3, <1>4, <1>5 DEF MetaInv, Slotted, MetaKept, Carries, Follow

\* A power loss leaves a mixture of the slots of the file and of the medium.
LEMMA MetaPowerLoss ==
    ASSUME IInv, MetaInv, "tornSlot" \notin Faults, PowerLoss
    PROVE  MetaInv'
<1>1. /\ sb' = dsb' /\ pc' = "closed" /\ rekey' = [j \in Rekeyers |-> NoRekey]
      /\ UNCHANGED ackedMeta
  BY DEF PowerLoss, history
<1>2. PICK kept \in SUBSET DirtySbs :
         \E torn \in (IF "tornSlot" \in Faults THEN SUBSET (DirtySbs \ kept) ELSE {{}}) :
            dsb' = [b \in SbSlots |-> IF b \in torn THEN NoSuperblock
                                      ELSE IF b \in kept THEN sb[b] ELSE dsb[b]]
  BY DEF PowerLoss
<1>3. dsb' = [b \in SbSlots |-> IF b \in kept THEN sb[b] ELSE dsb[b]]
  BY <1>2
<1>4. \A b \in SbSlots : dsb'[b] \in {sb[b], dsb[b]}
  BY <1>3
<1>5. Slotted(dsb')
  BY <1>4 DEF MetaInv, Slotted
<1>6. MetaKept(dsb', dsb', ackedMeta)
  BY <1>4 DEF MetaInv, MetaKept, SbSlots
<1>7. \A j \in Rekeyers : rekey'[j].step = "idle"
  BY <1>1 DEF NoRekey
<1> QED BY <1>1, <1>5, <1>6, <1>7 DEF MetaInv, Slotted, MetaKept, Carries, Follow, Down

LEMMA MetaStep ==
    ASSUME Faults = {}, OneRekeyer, IInv, MetaInv, [Next]_vars
    PROVE  MetaInv'
<1>1. CASE WriteCheckpoint
  BY <1>1, MetaWriteCheckpoint
<1>2. CASE Open
  BY <1>2, MetaOpen
<1>3. CASE \E k \in Rekeyers : RekeySet(k)
  BY <1>3, MetaRekeySet
<1>4. CASE \E k \in Rekeyers : RekeyEncode(k)
  BY <1>4, MetaRekeyEncode
<1>5. CASE \E k \in Rekeyers : RekeyWrite(k)
  BY <1>5, MetaRekeyWrite
<1>6. CASE \E k \in Rekeyers : RekeySync(k)
  BY <1>6, MetaRekeySync
<1>7. CASE PowerLoss
  BY <1>7, MetaPowerLoss
<1>8. CASE SyncPages \/ Commit \/ SyncCheckpoint \/ SyncFold
  <2>1. /\ dsb' = sb /\ UNCHANGED <<sb, rekey, ackedMeta, inner>>
        /\ pc \notin Down
    BY <1>8 DEF SyncPages, Commit, SyncCheckpoint, SyncFold, Fsync, fileVars, history, Down
  <2> QED BY <2>1, MetaFsync
<1>9. CASE \/ Begin \/ \E p \in Pages : WritePage(p)
           \/ WriteRecord \/ Grow \/ Adopt \/ Load
  <2>1. UNCHANGED <<sb, dsb, rekey, ackedMeta>> /\ inner'.meta = inner.meta /\ pc \notin Down
    BY <1>9 DEF Begin, WritePage, WriteRecord, Grow, Adopt, Load,
                fileVars, mediumVars, history, Down
  <2> QED BY <2>1, MetaQuiet
<1>10. CASE \/ \E r \in Readers : Lease(r) \/ OpenRead(r) \/ CloseRead(r)
            \/ UNCHANGED vars
  <2>1. UNCHANGED <<sb, dsb, rekey, ackedMeta, inner, pc>>
    BY <1>10 DEF Lease, OpenRead, CloseRead, vars, fileVars, mediumVars, history
  <2> QED BY <2>1, MetaQuiet
<1>11. CASE Exit \/ Refuse
  <2>1. pc' \in Down /\ UNCHANGED <<sb, dsb, ackedMeta>>
    BY <1>11 DEF Exit, Refuse, fileVars, mediumVars, history, Down
  <2>2. \A k \in Rekeyers : rekey'[k].step = "idle"
    <3>1. CASE Exit
      BY <3>1 DEF Exit, NoRekey
    <3>2. CASE Refuse
      BY <3>2 DEF Refuse, IInv, RekeyInv, InTxn
    <3> QED BY <1>11, <3>1, <3>2
  <2> QED BY <2>1, <2>2 DEF MetaInv, Slotted, MetaKept, Carries, Follow
<1>12. ~FailTxn
  BY DEF FailTxn
<1> QED BY <1>1, <1>2, <1>3, <1>4, <1>5, <1>6, <1>7, <1>8, <1>9, <1>10, <1>11, <1>12 DEF Next

\* RekeyDurable: a rekey, add_wrap or remove_wrap that returned has its metadata, or newer
\* metadata, in the superblock an open selects, whatever transactions, checkpoints, process ends
\* and power losses came between or after, when the calls come from one thread and every write is
\* kept or lost as a whole.
THEOREM RekeyIsDurable ==
    ASSUME Faults = {}, OneRekeyer
    PROVE  Spec => []RekeyDurable
<1>1. Init => MetaInv
  <2> SUFFICES ASSUME Init PROVE MetaInv
    OBVIOUS
  <2>1. \A b \in SbSlots : /\ sb[b].valid /\ sb[b].root.gen = 0 /\ sb[b].meta = 0
                           /\ dsb[b] = sb[b]
    BY DEF Init, Superblock, EmptyRoot
  <2>2. ackedMeta = 0 /\ inner.meta = 0 /\ \A k \in Rekeyers : rekey[k].step = "idle"
    BY DEF Init, NoRekey, NoInner
  <2> QED BY <2>1, <2>2 DEF MetaInv, Slotted, MetaKept, Carries, Follow, SbSlots
<1>2. IInv /\ MetaInv /\ [Next]_vars => MetaInv'
  BY MetaStep
<1>3. MetaInv => RekeyDurable
  <2> SUFFICES ASSUME MetaInv PROVE sb[BestSlot(sb)].meta >= ackedMeta
    BY DEF RekeyDurable, SelectedMeta
  <2>1. Carries(sb[0], sb[1], ackedMeta) /\ sb[0].valid /\ sb[1].valid
    BY DEF MetaInv, MetaKept, Slotted, SbSlots
  <2> QED BY <2>1 DEF Carries, BestSlot
<1>4. Tolerated
  BY DEF Tolerated
<1>5. Spec => []IInv
  BY <1>4, Invariant, PTL
<1> QED BY <1>1, <1>2, <1>3, <1>5, PTL DEF Spec
==============================================================================
