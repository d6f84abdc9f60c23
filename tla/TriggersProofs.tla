---------------------------- MODULE TriggersProofs ----------------------------
(* Proofs about Triggers for any bindings, branches, schedules, policies, limit of *)
(* a plan and number of commits, edits, crashes and rewrites.                    *)
EXTENDS Triggers, DataLemmas, FiniteSetTheorems, SequenceTheorems, TLAPS

(* ---- the invariant ---- *)

Commits == [id : Nat \ {0}, hit : BOOLEAN]
Outcomes == {"done", "failed", "skipped", "seeded"}
Fires == [seq : Nat, stim : Nat \ {0}, outcome : Outcomes]
Planned == [binding : Bindings, stim : Nat \ {0}, seq : Nat]

\* The commits of a branch are numbered in the order of their creation.
LogInv ==
    /\ commits \in Nat /\ now \in Nat /\ DOMAIN log = Branches
    /\ \A r \in Branches :
          /\ log[r] \in Seq(Commits)
          /\ \A i \in DOMAIN log[r] : log[r][i].id <= commits
          /\ \A i, j \in DOMAIN log[r] : i < j => log[r][i].id < log[r][j].id

\* A stimulus has happened.
Happened(b, stim) == IF b \in Timed THEN stim <= now ELSE stim <= commits

\* A binding that does not fire for the first time by itself has a first record.
Late(b) == b \in Timed \/ b \notin CatchUp
Seeded(b) == \E f \in history[b] : f.outcome = "seeded"

HistoryInv ==
    /\ DOMAIN history = Bindings
    /\ \A b \in Bindings :
          /\ history[b] \in SUBSET Fires /\ IsFiniteSet(history[b])
          /\ \A f \in history[b] : Happened(b, f.stim)
          /\ \A f, g \in history[b] : f.seq = g.seq => f = g
          /\ Late(b) /\ history[b] # {} => Seeded(b)
PlannedInv ==
    /\ plan \cup queued \subseteq Planned
    /\ \A c \in plan \cup queued : Happened(c.binding, c.stim) /\ (Late(c.binding) => Seeded(c.binding))
    /\ \A c \in queued : c.binding \in Queueing

\* A binding is committed to what happened after s.
Since(b, s) == b \in Changed \cap CatchUp \/ \E f \in history[b] : f.stim < s

\* All that the binding has to fire up to stim is known.
Complete(b, stim, known) ==
    /\ b \in Changed => \A i \in Position(b, stim) : \A j \in 1 .. i :
          LET c == log[Watch[b]][j] IN c.hit /\ Since(b, c.id) => c.id \in known
    /\ b \in Timed \cap CatchUp \cap Backfill =>
          \A t \in Schedule[b] : Since(b, t) /\ t < stim => t \in known

Mine(b) == {c \in plan : c.binding = b}
Stims(b) == {c.stim : c \in Mine(b)}

\* Records and plan of a binding are in order, and neither passes anything.
Aligned(b) ==
    /\ \A f, g \in history[b] : f.seq < g.seq <=> f.stim < g.stim
    /\ \A c \in Mine(b), f \in history[b] : f.seq < c.seq /\ f.stim < c.stim
    /\ \A c, d \in Mine(b) : c.seq < d.seq <=> c.stim < d.stim
Covered(b) ==
    /\ \A f \in history[b] : Complete(b, f.stim, Recorded(b))
    /\ \A c \in Mine(b) : Complete(b, c.stim, Recorded(b) \cup Stims(b))
RunInv(b) == \A stim : <<b, stim>> \in executed => stim \in Recorded(b)

BindingInv(b) == Aligned(b) /\ Covered(b) /\ RunInv(b)
Inv ==
    /\ LogInv /\ HistoryInv /\ PlannedInv
    /\ \A b \in Bindings \ Queueing : BindingInv(b)
    /\ FiredOnce

------------------------------------------------------------------------------
(* ---- the operators ---- *)

\* The record of the highest sequence.
LEMMA LatestIs ==
    ASSUME HistoryInv, NEW b \in Bindings
    PROVE  /\ Seqs(b) \in SUBSET Nat /\ IsFiniteSet(Seqs(b))
           /\ history[b] # {} => /\ Latest(b) \in history[b]
                                 /\ \A f \in history[b] : f.seq <= Latest(b).seq
<1>1. history[b] \in SUBSET Fires /\ IsFiniteSet(history[b])
  BY DEF HistoryInv
<1>2. \A f \in history[b] : f.seq \in Nat
  BY <1>1 DEF Fires
<1>3. Seqs(b) \in SUBSET Nat
  BY <1>2 DEF Seqs
<1>4. IsFiniteSet(Seqs(b))
  <2>1. [f \in history[b] |-> f.seq] \in Surjection(history[b], Seqs(b))
    BY DEF Surjection, Seqs
  <2> QED BY <1>1, <2>1, FS_Surjection
<1>5. ASSUME history[b] # {}
      PROVE  Latest(b) \in history[b] /\ \A f \in history[b] : f.seq <= Latest(b).seq
  <2>1. Seqs(b) # {} /\ Seqs(b) \in SUBSET Int
    BY <1>3, <1>5 DEF Seqs
  <2>2. Max(Seqs(b)) \in Seqs(b) /\ \A n \in Seqs(b) : n <= Max(Seqs(b))
    BY <1>4, <2>1, GreatestFinite
  <2>3. \E f \in history[b] : f.seq = Max(Seqs(b))
    BY <2>2 DEF Seqs
  <2>4. Latest(b) \in history[b] /\ Latest(b).seq = Max(Seqs(b))
    BY <2>3 DEF Latest
  <2>5. \A f \in history[b] : f.seq \in Seqs(b)
    BY DEF Seqs
  <2> QED BY <2>2, <2>4, <2>5
<1> QED BY <1>3, <1>4, <1>5

LEMMA NextSeqIs ==
    ASSUME HistoryInv, NEW b \in Bindings
    PROVE  NextSeq(b) \in Nat /\ \A f \in history[b] : f.seq < NextSeq(b)
<1>1. Seqs(b) \in SUBSET Nat /\ IsFiniteSet(Seqs(b))
  BY LatestIs
<1>2. PICK S : S = {-1} \cup Seqs(b)
  OBVIOUS
<1>3. S \in SUBSET Int /\ S # {} /\ IsFiniteSet(S)
  BY <1>1, <1>2, FS_AddElement
<1>4. Max(S) \in S /\ \A n \in S : n <= Max(S)
  BY <1>3, GreatestFinite
<1>5. NextSeq(b) = Max(S) + 1 /\ Max(S) + 1 \in Nat
  BY <1>1, <1>2, <1>4 DEF NextSeq
<1>6. ASSUME NEW f \in history[b] PROVE f.seq < Max(S) + 1
  <2>1. f.seq \in S /\ f.seq \in Nat
    <3>1. f.seq \in Seqs(b)
      BY DEF Seqs
    <3> QED BY <1>1, <1>2, <3>1
  <2>2. PICK m \in Int : m = Max(S)
    BY <1>3, <1>4
  <2>3. f.seq <= m
    BY <1>4, <2>1, <2>2
  <2> QED BY <2>1, <2>2, <2>3
<1> QED BY <1>5, <1>6

\* Smaller numbers have fewer below them.
LEMMA FewerBelow ==
    ASSUME NEW S \in SUBSET Nat, IsFiniteSet(S), NEW s \in S, NEW u \in S
    PROVE  /\ Cardinality({x \in S : x < s}) \in Nat
           /\ u < s => Cardinality({x \in S : x < u}) < Cardinality({x \in S : x < s})
<1> DEFINE B(y) == {x \in S : x < y}
<1>1. \A y : B(y) \in SUBSET S /\ IsFiniteSet(B(y))
  BY FS_Subset
<1>2. \A y : Cardinality(B(y)) \in Nat
  BY <1>1, FS_CardinalityType
<1>3. ASSUME u < s PROVE Cardinality(B(u)) < Cardinality(B(s))
  <2>0. u \in Nat /\ s \in Nat /\ \A x \in S : x \in Nat
    OBVIOUS
  <2>1. B(u) \in SUBSET B(s) /\ u \in B(s) /\ u \notin B(u)
    <3>1. \A x \in S : x < u => x < s
      BY <1>3, <2>0
    <3>2. ~(u < u)
      BY <2>0
    <3> QED BY <1>3, <3>1, <3>2
  <2>2. B(u) # B(s)
    BY <2>1
  <2> HIDE DEF B
  <2>3. /\ Cardinality(B(u)) <= Cardinality(B(s))
        /\ Cardinality(B(u)) = Cardinality(B(s)) => B(u) = B(s)
    BY <1>1, <2>1, FS_Subset
  <2> QED BY <1>2, <2>2, <2>3
<1> QED BY <1>2, <1>3

\* The oldest of a set have all that are older.
LEMMA OldestIs ==
    ASSUME NEW S \in SUBSET Nat, IsFiniteSet(S), NEW n \in Int
    PROVE  /\ Oldest(S, n) \subseteq S
           /\ \A s \in Oldest(S, n), u \in S : u < s => u \in Oldest(S, n)
<1>1. ASSUME NEW s \in Oldest(S, n), NEW u \in S, u < s PROVE u \in Oldest(S, n)
  <2>1. s \in S /\ Cardinality({x \in S : x < s}) < n
    BY DEF Oldest
  <2>2. /\ Cardinality({x \in S : x < s}) \in Nat /\ Cardinality({x \in S : x < u}) \in Nat
        /\ Cardinality({x \in S : x < u}) < Cardinality({x \in S : x < s})
    BY <1>1, <2>1, FewerBelow
  <2>3. Cardinality({x \in S : x < u}) < n
    BY <2>1, <2>2
  <2> QED BY <2>3 DEF Oldest
<1> QED BY <1>1 DEF Oldest

\* The candidates for new stimuli are after all records, in order.
LEMMA NumberedIs ==
    ASSUME HistoryInv, NEW b \in Bindings, NEW new \in SUBSET (Nat \ {0}), IsFiniteSet(new)
    PROVE  /\ Numbered(b, new) \in SUBSET Planned /\ IsFiniteSet(Numbered(b, new))
           /\ \A c \in Numbered(b, new) : c.binding = b /\ c.stim \in new
           /\ {c.stim : c \in Numbered(b, new)} = new
           /\ \A c \in Numbered(b, new), f \in history[b] : f.seq < c.seq
           /\ \A c, d \in Numbered(b, new) : c.seq < d.seq <=> c.stim < d.stim
<1> DEFINE N(s) == Cardinality({u \in new : u < s})
           C(s) == [binding |-> b, stim |-> s, seq |-> NextSeq(b) + N(s)]
<1>1. NextSeq(b) \in Nat /\ \A f \in history[b] : f.seq < NextSeq(b) /\ f.seq \in Nat
  BY NextSeqIs DEF HistoryInv, Fires
<1>2. new \in SUBSET Nat /\ \A s \in new : N(s) \in Nat
  BY FewerBelow
<1>3. \A s, u \in new : u < s => N(u) < N(s)
  BY <1>2, FewerBelow
<1>4. Numbered(b, new) = {C(s) : s \in new}
  BY DEF Numbered
<1> HIDE DEF N
<1>5. \A s \in new : C(s) \in Planned
  <2> SUFFICES ASSUME NEW s \in new PROVE C(s) \in Planned
    OBVIOUS
  <2>1. NextSeq(b) + N(s) \in Nat /\ s \in Nat \ {0}
    BY <1>1, <1>2
  <2> QED BY <2>1 DEF Planned
<1>6. IsFiniteSet(Numbered(b, new))
  <2>1. [s \in new |-> C(s)] \in Surjection(new, Numbered(b, new))
    BY <1>4 DEF Surjection
  <2> QED BY <2>1, FS_Surjection
<1>7. \A s \in new, f \in history[b] : f.seq < C(s).seq
  BY <1>1, <1>2
<1>8. \A s, u \in new : C(s).seq < C(u).seq <=> C(s).stim < C(u).stim
  BY <1>1, <1>2, <1>3
<1>9. {c.stim : c \in Numbered(b, new)} = new
  <2>1. \A s \in new : C(s).stim = s
    OBVIOUS
  <2> HIDE DEF C
  <2>2. ASSUME NEW x \in {c.stim : c \in Numbered(b, new)} PROVE x \in new
    BY <1>4, <2>1
  <2>3. ASSUME NEW s \in new PROVE \E c \in Numbered(b, new) : s = c.stim
    <3>1. C(s) \in Numbered(b, new)
      BY <1>4
    <3> QED BY <2>1, <3>1
  <2> QED BY <2>2, <2>3
<1>10. \A s \in new : C(s).binding = b /\ C(s).stim = s
  OBVIOUS
<1> HIDE DEF C
<1> QED BY <1>4, <1>5, <1>6, <1>7, <1>8, <1>9, <1>10

\* Where the cursor of a change binding is: no commit from there on is known to its log.
LEMMA CursorIs ==
    ASSUME LogInv, HistoryInv, NEW b \in Changed, ~Gap(b), history[b] # {}
    PROVE  /\ Cursor(b) \in DOMAIN log[Watch[b]]
           /\ log[Watch[b]][Cursor(b)].id = Latest(b).stim
<1>1. Position(b, Latest(b).stim) # {} /\ Cursor(b) = Max(Position(b, Latest(b).stim))
  BY DEF Gap, Cursor
<1>2. b \in Bindings /\ Watch[b] \in Branches
  BY WatchAssumption DEF Changed, Timed
<1>3. log[Watch[b]] \in Seq(Commits)
  BY <1>2 DEF LogInv
<1>4. /\ Position(b, Latest(b).stim) \in SUBSET Int
      /\ \A i \in Position(b, Latest(b).stim) : i <= Len(log[Watch[b]])
      /\ Len(log[Watch[b]]) \in Int
  BY <1>3, LenProperties DEF Position
<1>5. Max(Position(b, Latest(b).stim)) \in Position(b, Latest(b).stim)
  BY <1>1, <1>4, GreatestBelow
<1> QED BY <1>1, <1>5 DEF Position

\* The stimuli watch_poll looks at.
Ahead(b) == {log[Watch[b]][i].id : i \in {j \in DOMAIN log[Watch[b]] :
                                              j > Cursor(b) /\ log[Watch[b]][j].hit}}
\* The instants evaluate_time_trigger looks at.
From(b) == IF history[b] = {} THEN now ELSE Latest(b).stim
Missed(b) == {t \in Schedule[b] : From(b) < t /\ t <= now}

LEMMA AheadIs ==
    ASSUME LogInv, HistoryInv, NEW b \in Changed, ~Gap(b)
    PROVE  /\ Ahead(b) \in SUBSET (Nat \ {0}) /\ IsFiniteSet(Ahead(b))
           /\ \A s \in Ahead(b) : s <= commits
           /\ Late(b) /\ Ahead(b) # {} => history[b] # {}
           /\ history[b] # {} => \A s \in Ahead(b) : Latest(b).stim < s
<1>1. b \in Bindings /\ Watch[b] \in Branches /\ b \notin Timed
  BY WatchAssumption DEF Changed, Timed
<1>2. PICK branch : branch = log[Watch[b]]
  OBVIOUS
<1>3. /\ branch \in Seq(Commits) /\ DOMAIN branch = 1 .. Len(branch) /\ Len(branch) \in Nat
      /\ \A i \in DOMAIN branch : branch[i].id <= commits /\ branch[i].id \in Nat \ {0}
      /\ \A i, j \in DOMAIN branch : i < j => branch[i].id < branch[j].id
  <2>1. branch \in Seq(Commits)
    BY <1>1, <1>2 DEF LogInv
  <2>2. \A i \in DOMAIN branch : branch[i] \in Commits
    BY <2>1
  <2> QED BY <1>1, <1>2, <2>1, <2>2 DEF LogInv, Commits
<1>4. \A s \in Ahead(b) : \E i \in DOMAIN branch : i > Cursor(b) /\ s = branch[i].id
  BY <1>2 DEF Ahead
<1>5. Ahead(b) \in SUBSET (Nat \ {0}) /\ \A s \in Ahead(b) : s <= commits
  BY <1>3, <1>4
<1>6. IsFiniteSet(Ahead(b))
  BY <1>5, FS_BoundedSetOfNaturals DEF LogInv
<1>7. ASSUME Late(b), Ahead(b) # {}, history[b] = {} PROVE FALSE
  <2>1. Cursor(b) = Len(branch)
    BY <1>1, <1>2, <1>7 DEF Late, Cursor
  <2> QED BY <1>3, <1>4, <1>7, <2>1
<1>8. ASSUME history[b] # {}, NEW s \in Ahead(b) PROVE Latest(b).stim < s
  <2>1. Cursor(b) \in DOMAIN branch /\ branch[Cursor(b)].id = Latest(b).stim
    BY <1>2, <1>8, CursorIs
  <2>2. PICK i \in DOMAIN branch : i > Cursor(b) /\ s = branch[i].id
    BY <1>4
  <2>3. Cursor(b) < i
    BY <1>3, <2>1, <2>2
  <2> QED BY <1>3, <2>1, <2>2, <2>3
<1> QED BY <1>5, <1>6, <1>7, <1>8

LEMMA MissedIs ==
    ASSUME LogInv, HistoryInv, NEW b \in Timed
    PROVE  /\ Missed(b) \in SUBSET (Nat \ {0}) /\ IsFiniteSet(Missed(b))
           /\ \A s \in Missed(b) : s <= now
           /\ Missed(b) # {} => history[b] # {}
           /\ history[b] # {} => \A s \in Missed(b) : Latest(b).stim < s
<1>1. Schedule[b] \in SUBSET (Nat \ {0}) /\ now \in Nat
  BY ScheduleAssumption DEF Timed, LogInv
<1>2. Missed(b) \in SUBSET (Nat \ {0}) /\ \A s \in Missed(b) : s <= now /\ From(b) < s
  BY <1>1 DEF Missed
<1>3. IsFiniteSet(Missed(b))
  BY <1>1, <1>2, FS_BoundedSetOfNaturals
<1>4. ASSUME history[b] = {}, Missed(b) # {} PROVE FALSE
  <2>1. PICK s \in Missed(b) : s <= now /\ now < s
    BY <1>2, <1>4 DEF From
  <2> QED BY <1>1, <1>2, <2>1
<1>5. ASSUME history[b] # {} PROVE \A s \in Missed(b) : Latest(b).stim < s
  BY <1>2, <1>5 DEF From
<1> QED BY <1>2, <1>3, <1>4, <1>5

\* What is due is new and has happened; a change binding, and one that backfills, leaves
\* nothing out.
Whole(b) == IF b \in Timed THEN Missed(b) ELSE Ahead(b)
Thorough(b) == b \in Changed \/ b \in CatchUp \cap Backfill

LEMMA DueForIs ==
    ASSUME LogInv, HistoryInv, NEW b \in Bindings, ~Gap(b), NEW room \in Int
    PROVE  /\ DueFor(b, room) \in SUBSET (Nat \ {0}) /\ IsFiniteSet(DueFor(b, room))
           /\ DueFor(b, room) \in SUBSET Whole(b)
           /\ \A s \in DueFor(b, room) : Happened(b, s)
           /\ Late(b) /\ DueFor(b, room) # {} => history[b] # {}
           /\ history[b] # {} => \A s \in DueFor(b, room) : Latest(b).stim < s
           /\ Thorough(b) => \A s \in DueFor(b, room), u \in Whole(b) :
                 u < s => u \in DueFor(b, room)
<1>1. /\ Whole(b) \in SUBSET (Nat \ {0}) /\ IsFiniteSet(Whole(b))
      /\ \A s \in Whole(b) : Happened(b, s)
      /\ Late(b) /\ Whole(b) # {} => history[b] # {}
      /\ history[b] # {} => \A s \in Whole(b) : Latest(b).stim < s
  <2>1. CASE b \in Timed
    BY <2>1, MissedIs DEF Whole, Happened
  <2>2. CASE b \notin Timed
    BY <2>2, AheadIs DEF Whole, Happened, Changed
  <2> QED BY <2>1, <2>2
<1>2. Whole(b) \in SUBSET Nat
  BY <1>1
<1>3. /\ Oldest(Whole(b), room) \subseteq Whole(b)
      /\ \A s \in Oldest(Whole(b), room), u \in Whole(b) : u < s => u \in Oldest(Whole(b), room)
  BY <1>1, <1>2, OldestIs
<1>4. /\ DueFor(b, room) \in SUBSET Oldest(Whole(b), room)
      /\ Thorough(b) => DueFor(b, room) = Oldest(Whole(b), room)
  <2>1. CASE b \in Timed
    BY <2>1 DEF DueFor, Instants, Whole, Missed, From, Thorough, Changed
  <2>2. CASE b \notin Timed
    BY <2>2 DEF DueFor, Poll, Whole, Ahead
  <2> QED BY <2>1, <2>2
<1>5. DueFor(b, room) \in SUBSET Whole(b)
  BY <1>3, <1>4
<1>6. IsFiniteSet(DueFor(b, room))
  BY <1>1, <1>5, FS_Subset
<1> QED BY <1>1, <1>3, <1>4, <1>5, <1>6

\* The candidates of a binding follow its records, and pass nothing.
LEMMA CandidatesAre ==
    ASSUME LogInv, HistoryInv, NEW b \in Bindings, ~Gap(b), NEW room \in Int
    PROVE  /\ Candidates(b, room) \in SUBSET Planned /\ IsFiniteSet(Candidates(b, room))
           /\ \A c \in Candidates(b, room) :
                 c.binding = b /\ Happened(b, c.stim) /\ (Late(b) => Seeded(b))
<1>1. /\ DueFor(b, room) \in SUBSET (Nat \ {0}) /\ IsFiniteSet(DueFor(b, room))
      /\ \A s \in DueFor(b, room) : Happened(b, s)
      /\ Late(b) /\ DueFor(b, room) # {} => history[b] # {}
  BY DueForIs
<1>2. PICK new : new = DueFor(b, room) \ Recorded(b)
  OBVIOUS
<1>3. new \in SUBSET (Nat \ {0}) /\ IsFiniteSet(new) /\ new \in SUBSET DueFor(b, room)
  BY <1>1, <1>2, FS_Subset
<1>4. Candidates(b, room) = Numbered(b, new)
  BY <1>2 DEF Candidates
<1>5. /\ Numbered(b, new) \in SUBSET Planned /\ IsFiniteSet(Numbered(b, new))
      /\ \A c \in Numbered(b, new) : c.binding = b /\ c.stim \in new
  BY <1>3, NumberedIs
<1> QED BY <1>1, <1>3, <1>4, <1>5 DEF HistoryInv

LEMMA CandidatesAligned ==
    ASSUME Inv, NEW b \in Bindings \ Queueing, ~Gap(b), NEW room \in Int,
           UNCHANGED <<log, now, commits, history>>, Mine(b)' = Candidates(b, room)
    PROVE  Aligned(b)' /\ Covered(b)'
<1> DEFINE due == DueFor(b, room)
<1>0. LogInv /\ HistoryInv /\ Aligned(b) /\ Covered(b)
  BY DEF Inv, BindingInv
<1>1. /\ due \in SUBSET (Nat \ {0}) /\ IsFiniteSet(due) /\ due \in SUBSET Whole(b)
      /\ Late(b) /\ due # {} => history[b] # {}
      /\ history[b] # {} => \A s \in due : Latest(b).stim < s
      /\ Thorough(b) => \A s \in due, u \in Whole(b) : u < s => u \in due
      /\ \A s \in due : Happened(b, s)
  BY <1>0, DueForIs
<1>2. PICK new : new = due \ Recorded(b)
  OBVIOUS
<1>3. new \in SUBSET (Nat \ {0}) /\ IsFiniteSet(new) /\ new \in SUBSET due
  BY <1>1, <1>2, FS_Subset
<1>4. Mine(b)' = Numbered(b, new)
  BY <1>2 DEF Candidates
<1>5. /\ \A c \in Numbered(b, new) : c.stim \in new
      /\ {c.stim : c \in Numbered(b, new)} = new
      /\ \A c \in Numbered(b, new), f \in history[b] : f.seq < c.seq
      /\ \A c, d \in Numbered(b, new) : c.seq < d.seq <=> c.stim < d.stim
  BY <1>0, <1>3, NumberedIs
<1> HIDE DEF due
<1>6. ASSUME history[b] # {}
      PROVE  /\ Latest(b) \in history[b] /\ Latest(b).stim \in Nat
             /\ \A f \in history[b] : f.stim <= Latest(b).stim /\ f.stim \in Nat
  <2>1. /\ Latest(b) \in history[b] /\ \A f \in history[b] : f.seq <= Latest(b).seq
        /\ \A f \in history[b] : f.seq \in Nat /\ f.stim \in Nat
    BY <1>0, <1>6, LatestIs DEF HistoryInv, Fires
  <2>2. ASSUME NEW f \in history[b] PROVE f.stim <= Latest(b).stim
    <3>1. ~(Latest(b).seq < f.seq)
      BY <2>1
    <3>2. ~(Latest(b).stim < f.stim)
      BY <1>0, <2>1, <3>1 DEF Aligned
    <3> QED BY <2>1, <3>2
  <2> QED BY <2>1, <2>2
<1>7. \A s \in new, f \in history[b] : f.stim < s
  <2> SUFFICES ASSUME NEW s \in new, NEW f \in history[b] PROVE f.stim < s
    OBVIOUS
  <2>1. f.stim <= Latest(b).stim /\ f.stim \in Nat /\ Latest(b).stim \in Nat
    BY <1>6
  <2>2. Latest(b).stim < s /\ s \in Nat
    BY <1>1, <1>3
  <2> QED BY <2>1, <2>2
<1>8. Aligned(b)'
  BY <1>0, <1>4, <1>5, <1>7 DEF Aligned
<1>9. /\ Recorded(b)' = Recorded(b) /\ Stims(b)' = new
      /\ \A s : (Since(b, s)' <=> Since(b, s)) /\ (Position(b, s)' = Position(b, s))
  BY <1>4, <1>5 DEF Recorded, Stims, Since, Position
<1>10. ASSUME NEW f \in history[b] PROVE Complete(b, f.stim, Recorded(b))'
  <2>1. Complete(b, f.stim, Recorded(b))
    BY <1>0 DEF Covered
  <2> QED BY <1>9, <2>1 DEF Complete
\* What is due up to s is recorded or planned.
<1>11. ASSUME NEW s \in new, Thorough(b), NEW u \in Whole(b), u <= s
       PROVE  u \in Recorded(b) \cup new
  <2>1. u \in Nat /\ s \in Nat /\ s \in due
    <3>1. u \in Nat
      BY <1>0, <1>11, MissedIs, AheadIs DEF Whole, Changed
    <3> QED BY <1>3, <3>1
  <2>2. u \in due
    BY <1>1, <1>11, <2>1
  <2> QED BY <1>2, <2>2
<1>12. ASSUME NEW s \in new, b \in Changed, NEW i \in Position(b, s), NEW j \in 1 .. i,
              log[Watch[b]][j].hit, Since(b, log[Watch[b]][j].id)
       PROVE  log[Watch[b]][j].id \in Recorded(b) \cup new
  <2>1. Watch[b] \in Branches /\ b \notin Timed
    BY <1>12, WatchAssumption DEF Changed, Timed
  <2>2. PICK branch : branch = log[Watch[b]]
    OBVIOUS
  <2>3. /\ branch \in Seq(Commits) /\ DOMAIN branch = 1 .. Len(branch) /\ Len(branch) \in Nat
        /\ \A m \in DOMAIN branch : branch[m].id \in Nat
        /\ \A m, n \in DOMAIN branch : m < n => branch[m].id < branch[n].id
    <3>1. branch \in Seq(Commits)
      BY <1>0, <2>1, <2>2 DEF LogInv
    <3>2. \A m \in DOMAIN branch : branch[m] \in Commits
      BY <3>1
    <3> QED BY <1>0, <2>1, <2>2, <3>1, <3>2 DEF LogInv, Commits
  <2>4. i \in DOMAIN branch /\ branch[i].id = s
    BY <2>2 DEF Position
  <2>5. j \in DOMAIN branch /\ j <= i
    BY <2>3, <2>4
  <2>6. branch[j].id <= s
    BY <2>3, <2>4, <2>5
  <2>7. CASE j > Cursor(b)
    <3>1. branch[j].id \in Ahead(b)
      BY <1>12, <2>2, <2>5, <2>7 DEF Ahead
    <3> QED BY <1>11, <1>12, <2>1, <2>2, <2>6, <3>1 DEF Whole, Thorough
  <2>8. CASE ~(j > Cursor(b))
    <3>1. history[b] # {}
      <4>1. ASSUME history[b] = {} PROVE FALSE
        <5>1. b \in CatchUp
          BY <1>1, <1>3, <4>1 DEF Late
        <5>2. Cursor(b) = 0
          BY <4>1, <5>1 DEF Cursor
        <5> QED BY <2>5, <2>3, <2>8, <5>2
      <4> QED BY <4>1
    <3>2. Cursor(b) \in DOMAIN branch /\ branch[Cursor(b)].id = Latest(b).stim
      BY <1>0, <1>12, <2>2, <3>1, CursorIs
    <3>3. Cursor(b) \in Position(b, Latest(b).stim) /\ j \in 1 .. Cursor(b)
      BY <2>2, <2>3, <2>5, <2>8, <3>2 DEF Position
    <3>4. Complete(b, Latest(b).stim, Recorded(b))
      BY <1>0, <1>6, <3>1 DEF Covered
    <3> QED BY <1>12, <3>3, <3>4 DEF Complete
  <2> QED BY <2>7, <2>8
<1>13. ASSUME NEW s \in new, b \in Timed \cap CatchUp \cap Backfill, NEW t \in Schedule[b],
              Since(b, t), t < s
       PROVE  t \in Recorded(b) \cup new
  <2>1. history[b] # {} /\ t \in Nat /\ s \in Nat
    BY <1>1, <1>3, <1>13, ScheduleAssumption DEF Late
  <2>2. Latest(b) \in history[b] /\ Latest(b).stim \in Nat
    BY <1>6, <2>1
  <2>3. CASE t < Latest(b).stim
    <3>1. Complete(b, Latest(b).stim, Recorded(b))
      BY <1>0, <2>2 DEF Covered
    <3> QED BY <1>13, <2>3, <3>1 DEF Complete
  <2>4. CASE t = Latest(b).stim
    BY <2>2, <2>4 DEF Recorded
  <2>5. CASE Latest(b).stim < t
    <3>1. s <= now /\ now \in Nat
      BY <1>0, <1>1, <1>3, <1>13 DEF Happened, LogInv
    <3>2. t \in Missed(b)
      BY <1>13, <2>1, <2>5, <3>1 DEF Missed, From
    <3> QED BY <1>11, <1>13, <2>1, <3>2 DEF Whole, Thorough
  <2> QED BY <2>1, <2>2, <2>3, <2>4, <2>5
<1>14. ASSUME NEW s \in new PROVE Complete(b, s, Recorded(b) \cup new)'
  <2>1. Complete(b, s, Recorded(b) \cup new)
    BY <1>12, <1>13 DEF Complete
  <2> QED BY <1>9, <2>1 DEF Complete
<1>15. Covered(b)'
  BY <1>4, <1>5, <1>9, <1>10, <1>14 DEF Covered, Complete
<1> QED BY <1>8, <1>15

(* ---- the due list ---- *)

Top == Max({0} \cup Bindings)
NoFires == [fires |-> {}, failed |-> FALSE]
Further(found, b) ==
    IF \/ b \notin Bindings \/ status[b] # "enabled"
       \/ found.failed \/ Cardinality(found.fires) = MaxFires THEN found
    ELSE IF Gap(b) THEN [found EXCEPT !.failed = TRUE]
    ELSE [found EXCEPT !.fires = @ \cup Candidates(b, MaxFires - Cardinality(@))]

LEMMA TopIs == Top \in Nat /\ \A b \in Bindings : b <= Top /\ b \in Nat \ {0}
<1>1. PICK S : S = {0} \cup Bindings
  OBVIOUS
<1>2. S \in SUBSET Int /\ S # {} /\ IsFiniteSet(S) /\ \A x \in S : x \in Nat
  BY <1>1, BindingsAssumption, FS_AddElement
<1>3. Max(S) \in S /\ \A x \in S : x <= Max(S)
  BY <1>2, GreatestFinite
<1> QED BY <1>1, <1>2, <1>3, BindingsAssumption DEF Top

\* The recursion over the bindings is well defined.
LEMMA UpToIs ==
    /\ UpTo[0] = NoFires
    /\ \A b \in 1 .. Top : UpTo[b] = Further(UpTo[b - 1], b)
<1> DEFINE Body(f, n) == [b \in 0 .. n |-> IF b = 0 THEN NoFires ELSE Further(f[b - 1], b)]
           N == {n \in Nat : \E f : f = Body(f, n)}
<1>1. 0 \in N
  <2>1. PICK f : f = [b \in 0 .. 0 |-> NoFires]
    OBVIOUS
  <2>2. \A b \in 0 .. 0 : b = 0
    OBVIOUS
  <2>3. f = Body(f, 0)
    BY <2>1, <2>2
  <2> QED BY <2>3
<1>2. ASSUME NEW n \in Nat, n \in N PROVE n + 1 \in N
  <2>1. PICK f : f = Body(f, n)
    BY <1>2
  <2>2. PICK g : g = [b \in 0 .. n + 1 |-> IF b <= n THEN f[b] ELSE Further(f[n], n + 1)]
    OBVIOUS
  <2>3. \A b \in 0 .. n : g[b] = f[b]
    BY <2>2
  <2>4. ASSUME NEW b \in 0 .. n + 1
        PROVE  g[b] = IF b = 0 THEN NoFires ELSE Further(g[b - 1], b)
    <3>1. CASE b <= n
      <4>1. g[b] = IF b = 0 THEN NoFires ELSE Further(f[b - 1], b)
        BY <2>1, <2>3, <3>1
      <4>2. b # 0 => g[b - 1] = f[b - 1]
        BY <2>3, <3>1
      <4> QED BY <4>1, <4>2
    <3>2. CASE ~(b <= n)
      <4>1. b = n + 1 /\ b # 0 /\ b - 1 = n /\ g[n] = f[n]
        BY <2>3, <3>2
      <4> QED BY <2>2, <3>2, <4>1
    <3> QED BY <3>1, <3>2
  <2>5. g = Body(g, n + 1)
    BY <2>2, <2>4
  <2> QED BY <2>5
<1>3. Nat \subseteq N
  BY <1>1, <1>2, Induction
<1>4. \E f : f = Body(f, Top)
  BY <1>3, TopIs
<1>5. UpTo = CHOOSE f : f = Body(f, Top)
  BY DEF UpTo, Top, NoFires, Further
<1>6. UpTo = Body(UpTo, Top)
  BY <1>4, <1>5
<1>7. 0 \in 0 .. Top /\ \A b \in 1 .. Top : b \in 0 .. Top /\ b # 0
  BY TopIs
<1> QED BY <1>6, <1>7

\* The fires found for the bindings up to n: each binding has its candidates, or none.
Listed(fires, n) ==
    /\ IsFiniteSet(fires) /\ \A c \in fires : c.binding \in Bindings /\ c.binding <= n
    /\ \A b \in Bindings :
          LET mine == {c \in fires : c.binding = b} IN
          mine = {} \/ (~Gap(b) /\ \E room \in Int : mine = Candidates(b, room))

LEMMA DueIs ==
    ASSUME LogInv, HistoryInv
    PROVE  Listed(Due.fires, Top)
<1> DEFINE Found(n) == \E fires, failed : /\ UpTo[n] = [fires |-> fires, failed |-> failed]
                                          /\ Listed(fires, n)
           N == {n \in Nat : n <= Top => Found(n)}
<1>1. 0 \in N
  <2>1. Listed({}, 0)
    BY FS_EmptySet DEF Listed
  <2> QED BY <2>1, UpToIs DEF NoFires
<1>2. ASSUME NEW m \in Nat, m \in N PROVE m + 1 \in N
  <2> SUFFICES ASSUME m + 1 <= Top PROVE Found(m + 1)
    OBVIOUS
  <2>1. PICK n : n = m + 1
    OBVIOUS
  <2>2. n \in 1 .. Top /\ n - 1 = m /\ m <= Top /\ n \in Nat /\ ~(n <= m)
    BY <2>1, TopIs
  <2>3. PICK fires, failed : /\ UpTo[m] = [fires |-> fires, failed |-> failed]
                             /\ Listed(fires, m)
    BY <1>2, <2>2
  <2>4. UpTo[n] = Further([fires |-> fires, failed |-> failed], n)
    BY <2>2, <2>3, UpToIs
  <2>5. /\ IsFiniteSet(fires) /\ \A c \in fires : c.binding \in Bindings /\ c.binding <= m
        /\ \A b \in Bindings : b \in Nat
    BY <2>3, TopIs DEF Listed
  <2>6. Listed(fires, n)
    <3>1. \A c \in fires : c.binding <= n
      BY <2>2, <2>5
    <3> QED BY <2>3, <3>1 DEF Listed
  <2>7. CASE UpTo[n] = [fires |-> fires, failed |-> failed]
    BY <2>1, <2>6, <2>7
  <2>8. CASE UpTo[n] = [fires |-> fires, failed |-> TRUE]
    BY <2>1, <2>6, <2>8
  <2>9. CASE /\ n \in Bindings /\ ~Gap(n)
             /\ UpTo[n] = [fires |-> fires \cup Candidates(n, MaxFires - Cardinality(fires)),
                           failed |-> failed]
    <3>1. PICK room \in Int : room = MaxFires - Cardinality(fires)
      BY <2>5, FS_CardinalityType, FiresAssumption
    <3>2. PICK cs : cs = Candidates(n, room)
      OBVIOUS
    <3>3. IsFiniteSet(cs) /\ \A c \in cs : c.binding = n
      BY <2>9, <3>1, <3>2, CandidatesAre
    <3>4. IsFiniteSet(fires \cup cs)
      BY <2>5, <3>3, FS_Union
    <3>5. \A c \in fires \cup cs : c.binding \in Bindings /\ c.binding <= n
      BY <2>2, <2>6, <2>9, <3>3 DEF Listed
    <3>6. ASSUME NEW b \in Bindings, b # n
          PROVE  {c \in fires \cup cs : c.binding = b} = {c \in fires : c.binding = b}
      BY <3>3, <3>6
    <3>7. {c \in fires \cup cs : c.binding = n} = cs
      BY <2>2, <2>5, <3>3
    <3>8. Listed(fires \cup cs, n)
      BY <2>3, <2>9, <3>1, <3>2, <3>4, <3>5, <3>6, <3>7 DEF Listed
    <3> QED BY <2>1, <2>9, <3>1, <3>2, <3>8
  <2> QED BY <2>4, <2>7, <2>8, <2>9 DEF Further
<1>3. Found(Top)
  <2>1. Nat \subseteq N
    BY <1>1, <1>2, Induction
  <2>2. Top \in Nat /\ Top <= Top
    BY TopIs
  <2> QED BY <2>1, <2>2
<1> QED BY <1>3 DEF Due, Top

(* ---- steps ---- *)

\* Branches grow, or lose what comes after some commit; time goes on.
Grown ==
    /\ LogInv' /\ commits <= commits' /\ now <= now'
    /\ \A r \in Branches : \A i \in DOMAIN log'[r] : log'[r][i].id <= commits =>
          \A j \in 1 .. i : j \in DOMAIN log[r] /\ log'[r][j] = log[r][j]

LEMMA SameLog ==
    ASSUME LogInv, UNCHANGED <<log, commits>>, now' \in Nat, now <= now'
    PROVE  Grown
<1>1. LogInv' /\ commits <= commits'
  BY DEF LogInv
<1>2. ASSUME NEW r \in Branches, NEW i \in DOMAIN log'[r], NEW j \in 1 .. i
      PROVE  j \in DOMAIN log[r] /\ log'[r][j] = log[r][j]
  <2>1. log[r] \in Seq(Commits) /\ log'[r] = log[r]
    BY DEF LogInv
  <2>2. DOMAIN log[r] = 1 .. Len(log[r]) /\ Len(log[r]) \in Nat
    BY <2>1, LenProperties
  <2> QED BY <2>1, <2>2
<1> QED BY <1>1, <1>2 DEF Grown

LEMMA NewCommit ==
    ASSUME LogInv, NEW r \in Branches, NEW n \in 0 .. Len(log[r]), NEW hit \in BOOLEAN,
           commits' = commits + 1, now' = now,
           log' = [log EXCEPT ![r] = Append(SubSeq(log[r], 1, n), [id |-> commits + 1, hit |-> hit])]
    PROVE  Grown
<1>0. commits \in Nat /\ now \in Nat /\ DOMAIN log = Branches
  BY DEF LogInv
<1>1. PICK s : s = log[r]
  OBVIOUS
<1>2. PICK x : x = [id |-> commits + 1, hit |-> hit]
  OBVIOUS
<1>3. PICK u : u = Append(SubSeq(s, 1, n), x)
  OBVIOUS
<1>4. /\ s \in Seq(Commits) /\ Len(s) \in Nat /\ DOMAIN s = 1 .. Len(s)
      /\ \A i \in DOMAIN s : s[i] \in Commits /\ s[i].id <= commits /\ s[i].id \in Nat
      /\ \A i, j \in DOMAIN s : i < j => s[i].id < s[j].id
  <2>1. s \in Seq(Commits)
    BY <1>1 DEF LogInv
  <2>2. \A i \in DOMAIN s : s[i] \in Commits
    BY <2>1
  <2> QED BY <1>1, <2>1, <2>2 DEF LogInv, Commits
<1>5. x \in Commits /\ x.id = commits + 1
  BY <1>0, <1>2 DEF Commits
<1>6. n \in Nat /\ n <= Len(s)
  BY <1>1, <1>4
<1>7. /\ SubSeq(s, 1, n) \in Seq(Commits) /\ Len(SubSeq(s, 1, n)) = n
      /\ \A i \in 1 .. n : SubSeq(s, 1, n)[i] = s[i]
  BY <1>4, <1>6
<1>8. /\ u \in Seq(Commits) /\ Len(u) = n + 1 /\ DOMAIN u = 1 .. n + 1
      /\ \A i \in 1 .. n : u[i] = s[i]
      /\ u[n + 1] = x
  BY <1>3, <1>5, <1>6, <1>7
<1>9. \A q \in Branches : log'[q] = IF q = r THEN u ELSE log[q]
  BY <1>0, <1>1, <1>2, <1>3
<1>10. \A i \in 1 .. n : i \in DOMAIN s
  BY <1>4, <1>6
<1>11. \A i \in DOMAIN u : u[i].id <= commits + 1
  BY <1>0, <1>4, <1>5, <1>6, <1>8, <1>10
<1>12. ASSUME NEW i \in DOMAIN u, NEW j \in DOMAIN u, i < j PROVE u[i].id < u[j].id
  <2>1. i \in 1 .. n /\ (j \in 1 .. n \/ j = n + 1)
    BY <1>6, <1>8, <1>12
  <2>2. CASE j \in 1 .. n
    BY <1>4, <1>8, <1>10, <1>12, <2>1, <2>2
  <2>3. CASE j = n + 1
    BY <1>0, <1>4, <1>5, <1>8, <1>10, <2>1, <2>3
  <2> QED BY <2>1, <2>2, <2>3
<1>13. LogInv'
  <2>1. commits' \in Nat /\ now' \in Nat /\ DOMAIN log' = Branches
    BY <1>0
  <2>2. ASSUME NEW q \in Branches
        PROVE  /\ log'[q] \in Seq(Commits)
               /\ \A i \in DOMAIN log'[q] : log'[q][i].id <= commits'
               /\ \A i, j \in DOMAIN log'[q] : i < j => log'[q][i].id < log'[q][j].id
    <3>1. CASE q = r
      BY <1>8, <1>9, <1>11, <1>12, <3>1
    <3>2. CASE q # r
      <4>1. /\ log'[q] = log[q] /\ log[q] \in Seq(Commits)
            /\ \A i \in DOMAIN log[q] : log[q][i].id <= commits
            /\ \A i, j \in DOMAIN log[q] : i < j => log[q][i].id < log[q][j].id
        BY <1>9, <3>2 DEF LogInv
      <4>2. \A i \in DOMAIN log[q] : log[q][i] \in Commits
        BY <4>1
      <4>3. \A i \in DOMAIN log[q] : log[q][i].id <= commits + 1
        BY <1>0, <4>1, <4>2 DEF Commits
      <4> QED BY <4>1, <4>3
    <3> QED BY <3>1, <3>2
  <2> QED BY <2>1, <2>2 DEF LogInv
<1>14. ASSUME NEW q \in Branches, NEW i \in DOMAIN log'[q], log'[q][i].id <= commits,
              NEW j \in 1 .. i
       PROVE  j \in DOMAIN log[q] /\ log'[q][j] = log[q][j]
  <2>1. CASE q = r
    <3>1. i # n + 1
      BY <1>0, <1>5, <1>8, <1>9, <1>14, <2>1
    <3>2. i \in 1 .. n /\ j \in 1 .. n
      BY <1>6, <1>8, <1>9, <2>1, <3>1
    <3> QED BY <1>1, <1>8, <1>9, <1>10, <2>1, <3>2
  <2>2. CASE q # r
    <3>1. log[q] \in Seq(Commits) /\ log'[q] = log[q]
      BY <1>9, <2>2 DEF LogInv
    <3>2. DOMAIN log[q] = 1 .. Len(log[q]) /\ Len(log[q]) \in Nat
      BY <3>1, LenProperties
    <3>3. i \in 1 .. Len(log[q])
      BY <3>1, <3>2
    <3>4. j \in 1 .. Len(log[q])
      BY <3>2, <3>3
    <3> QED BY <3>1, <3>2, <3>4
  <2> QED BY <2>1, <2>2
<1> QED BY <1>0, <1>13, <1>14 DEF Grown

\* What has happened stays so, and nothing new is before it.
LEMMA CompleteStays ==
    ASSUME Inv, Grown, NEW b \in Bindings, NEW s \in Nat, Happened(b, s), NEW K, NEW L,
           K \subseteq L, Complete(b, s, K), \A x \in Nat : Since(b, x)' => Since(b, x)
    PROVE  Complete(b, s, L)'
<1>1. ASSUME b \in Changed, NEW i \in Position(b, s)', NEW j \in 1 .. i,
             log'[Watch[b]][j].hit, Since(b, log[Watch[b]][j].id)'
      PROVE  log'[Watch[b]][j].id \in L
  <2>1. Watch[b] \in Branches /\ b \notin Timed
    BY <1>1, WatchAssumption DEF Changed, Timed
  <2>2. i \in DOMAIN log'[Watch[b]] /\ log'[Watch[b]][i].id = s /\ s <= commits
    BY <2>1 DEF Position, Happened
  <2>3. \A m \in 1 .. i : m \in DOMAIN log[Watch[b]] /\ log'[Watch[b]][m] = log[Watch[b]][m]
    BY <2>1, <2>2 DEF Grown
  <2>4. log'[Watch[b]] \in Seq(Commits) /\ log[Watch[b]] \in Seq(Commits)
    BY <2>1 DEF Grown, LogInv, Inv
  <2>5. i \in 1 .. i
    BY <2>2, <2>4
  <2>6. i \in Position(b, s)
    BY <2>2, <2>3, <2>5 DEF Position
  <2>7. PICK c : c = log[Watch[b]][j] /\ c = log'[Watch[b]][j]
    BY <2>3
  <2>8. c.id \in Nat
    <3>1. c \in Commits
      BY <2>3, <2>4, <2>7
    <3> QED BY <3>1 DEF Commits
  <2>9. c.hit /\ Since(b, c.id)
    <3>1. c.hit /\ Since(b, c.id)'
      BY <1>1, <2>7 DEF Since
    <3> QED BY <2>8, <3>1
  <2> QED BY <1>1, <2>6, <2>7, <2>9 DEF Complete
<1>2. ASSUME b \in Timed \cap CatchUp \cap Backfill, NEW t \in Schedule[b], Since(b, t)', t < s
      PROVE  t \in L
  <2>1. t \in Nat
    BY ScheduleAssumption
  <2> QED BY <1>2, <2>1 DEF Complete
<1> QED BY <1>1, <1>2 DEF Complete

LEMMA HappenedStays ==
    ASSUME LogInv, Grown, NEW b, NEW s \in Nat, Happened(b, s)
    PROVE  Happened(b, s)'
<1>1. commits \in Nat /\ now \in Nat /\ commits' \in Nat /\ now' \in Nat
  BY DEF LogInv, Grown
<1> QED BY <1>1 DEF Happened, Grown

\* A step that leaves the records and the runs of a binding, and keeps or drops its plan.
LEMMA KeepsBinding ==
    ASSUME Inv, Grown, NEW b \in Bindings \ Queueing, history'[b] = history[b],
           Mine(b)' \in {Mine(b), {}}, \A s : <<b, s>> \in executed' => <<b, s>> \in executed
    PROVE  BindingInv(b)'
<1>0. LogInv /\ HistoryInv /\ PlannedInv /\ Aligned(b) /\ Covered(b) /\ RunInv(b)
  BY DEF Inv, BindingInv
<1>1. PICK K : K = Recorded(b)
  OBVIOUS
<1>2. PICK M : M = K \cup Stims(b)
  OBVIOUS
<1>3. Recorded(b)' = K /\ \A x \in Nat : Since(b, x)' => Since(b, x)
  BY <1>1 DEF Recorded, Since
<1>4. Aligned(b)'
  BY <1>0 DEF Aligned
<1>5. ASSUME NEW f \in history[b] PROVE Complete(b, f.stim, K)'
  <2>1. f.stim \in Nat /\ Happened(b, f.stim) /\ Complete(b, f.stim, K)
    BY <1>0, <1>1 DEF HistoryInv, Fires, Covered
  <2> QED BY <1>3, <2>1, CompleteStays
<1>6. ASSUME NEW c \in Mine(b) PROVE Complete(b, c.stim, M)'
  <2>1. c \in Planned /\ Happened(b, c.stim) /\ Complete(b, c.stim, M)
    BY <1>0, <1>1, <1>2 DEF PlannedInv, Mine, Covered
  <2>2. c.stim \in Nat
    BY <2>1 DEF Planned
  <2> QED BY <1>3, <2>1, <2>2, CompleteStays
<1>7. Mine(b)' = Mine(b) => (Recorded(b) \cup Stims(b))' = M
  BY <1>1, <1>2, <1>3 DEF Stims
<1>8. Covered(b)'
  <2>1. \A f \in history'[b] : Complete(b, f.stim, Recorded(b))'
    BY <1>3, <1>5 DEF Complete
  <2>2. \A c \in Mine(b)' : Complete(b, c.stim, Recorded(b) \cup Stims(b))'
    BY <1>6, <1>7 DEF Complete
  <2> QED BY <2>1, <2>2 DEF Covered
<1>9. RunInv(b)'
  BY <1>0, <1>1, <1>3 DEF RunInv
<1> QED BY <1>4, <1>8, <1>9 DEF BindingInv

\* A record added to the log of a binding.
LEMMA RecordIs ==
    ASSUME LogInv, HistoryInv, Grown, NEW c \in Planned, Happened(c.binding, c.stim),
           NEW outcome \in Outcomes, Late(c.binding) => Seeded(c.binding) \/ outcome = "seeded",
           Record(c, outcome)
    PROVE  /\ HistoryInv'
           /\ \A b \in Bindings : history[b] \subseteq history'[b]
           /\ \A b \in Bindings \ {c.binding} : history'[b] = history[b]
           /\ c.seq \notin Seqs(c.binding) =>
                 history'[c.binding] = history[c.binding] \cup
                     {[seq |-> c.seq, stim |-> c.stim, outcome |-> outcome]}
<1>1. PICK f : f = [seq |-> c.seq, stim |-> c.stim, outcome |-> outcome]
  OBVIOUS
<1>2. PICK a \in Bindings : a = c.binding
  BY DEF Planned
<1>3. f \in Fires /\ f.seq = c.seq /\ f.stim = c.stim /\ f.outcome = outcome /\ c.stim \in Nat
  BY <1>1 DEF Fires, Planned
<1>4. DOMAIN history = Bindings
  BY DEF HistoryInv
<1>5. /\ \A b \in Bindings \ {a} : history'[b] = history[b]
      /\ history'[a] = IF c.seq \in Seqs(a) THEN history[a] ELSE history[a] \cup {f}
      /\ DOMAIN history' = Bindings
  BY <1>1, <1>2, <1>4 DEF Record
<1>6. ASSUME NEW b \in Bindings
      PROVE  /\ (history[b] \in SUBSET Fires /\ IsFiniteSet(history[b]))'
             /\ (\A g \in history[b] : Happened(b, g.stim))'
             /\ (\A g, h \in history[b] : g.seq = h.seq => g = h)'
             /\ (Late(b) /\ history[b] # {} => Seeded(b))'
  <2>1. /\ history[b] \in SUBSET Fires /\ IsFiniteSet(history[b])
        /\ \A g \in history[b] : Happened(b, g.stim)
        /\ \A g, h \in history[b] : g.seq = h.seq => g = h
        /\ Late(b) /\ history[b] # {} => Seeded(b)
    BY DEF HistoryInv
  <2>2. \A g \in history[b] : Happened(b, g.stim)'
    <3> SUFFICES ASSUME NEW g \in history[b] PROVE Happened(b, g.stim)'
      OBVIOUS
    <3>1. g.stim \in Nat
      BY <2>1 DEF Fires
    <3> QED BY <2>1, <3>1, HappenedStays
  <2>3. CASE history'[b] = history[b]
    BY <2>1, <2>2, <2>3 DEF Late, Seeded, Happened
  <2>4. CASE b = a /\ c.seq \notin Seqs(a) /\ history'[b] = history[b] \cup {f}
    <3>1. history'[b] \in SUBSET Fires /\ IsFiniteSet(history'[b])
      BY <1>3, <2>1, <2>4, FS_AddElement
    <3>2. Happened(b, f.stim)'
      BY <1>2, <1>3, <2>4, HappenedStays
    <3>3. \A g \in history[b] : g.seq # f.seq
      BY <1>3, <2>4 DEF Seqs
    <3>4. Late(b) => Seeded(b)'
      BY <1>2, <1>3, <2>4 DEF Seeded, Late
    <3>5. (\A g, h \in history[b] : g.seq = h.seq => g = h)'
      BY <2>1, <2>4, <3>3
    <3>6. (\A g \in history[b] : Happened(b, g.stim))'
      BY <2>2, <2>4, <3>2 DEF Happened
    <3> QED BY <3>1, <3>4, <3>5, <3>6 DEF Late
  <2> QED BY <1>5, <2>3, <2>4
<1>7. HistoryInv'
  BY <1>5, <1>6 DEF HistoryInv
<1>8. \A b \in Bindings : history[b] \subseteq history'[b]
  BY <1>5
<1> QED BY <1>1, <1>2, <1>5, <1>7, <1>8

LEMMA PlannedStays ==
    ASSUME LogInv, PlannedInv, Grown, \A b \in Bindings : history[b] \subseteq history'[b],
           plan' \cup queued' \subseteq plan \cup queued,
           \A c \in queued' : c.binding \in Queueing
    PROVE  PlannedInv'
<1>1. ASSUME NEW c \in plan' \cup queued'
      PROVE  /\ c \in Planned /\ Happened(c.binding, c.stim)'
             /\ Late(c.binding) => Seeded(c.binding)'
  <2>1. /\ c \in Planned /\ Happened(c.binding, c.stim)
        /\ Late(c.binding) => Seeded(c.binding)
    BY DEF PlannedInv
  <2>2. c.binding \in Bindings /\ c.stim \in Nat
    BY <2>1 DEF Planned
  <2>3. Seeded(c.binding) => Seeded(c.binding)'
    BY <2>2 DEF Seeded
  <2> QED BY <2>1, <2>2, <2>3, HappenedStays
<1> QED BY <1>1 DEF PlannedInv, Late, Happened, Seeded

LEMMA HistoryStays ==
    ASSUME LogInv, HistoryInv, Grown, history' = history
    PROVE  HistoryInv'
<1>1. ASSUME NEW b \in Bindings, NEW f \in history[b] PROVE Happened(b, f.stim)'
  <2>1. Happened(b, f.stim) /\ f.stim \in Nat
    BY DEF HistoryInv, Fires
  <2> QED BY <2>1, HappenedStays
<1> QED BY <1>1 DEF HistoryInv, Happened, Late, Seeded

\* The first candidate of the plan is recorded: its binding had nothing else to fire before.
LEMMA FiresBinding ==
    ASSUME Inv, Grown, NEW c \in plan, First(c), c.binding \notin Queueing,
           NEW outcome \in Outcomes, Record(c, outcome), plan' = plan \ {c},
           \A s : <<c.binding, s>> \in executed' => <<c.binding, s>> \in executed \/ s = c.stim
    PROVE  BindingInv(c.binding)'
<1>1. c \in Planned /\ Happened(c.binding, c.stim) /\ (Late(c.binding) => Seeded(c.binding))
  BY DEF Inv, PlannedInv
<1>2. PICK b \in Bindings \ Queueing : b = c.binding
  BY <1>1 DEF Planned
<1>3. /\ LogInv /\ HistoryInv /\ PlannedInv /\ Aligned(b) /\ Covered(b) /\ RunInv(b)
      /\ c \in Mine(b) /\ c.seq \in Nat /\ c.stim \in Nat
  BY <1>1, <1>2 DEF Inv, BindingInv, Mine, Planned
<1>4. \A f \in history[b] : /\ f.seq \in Nat /\ f.stim \in Nat /\ Happened(b, f.stim)
                            /\ f.seq < c.seq /\ f.stim < c.stim
  BY <1>3 DEF HistoryInv, Fires, Aligned
<1>5. c.seq \notin Seqs(b)
  BY <1>3, <1>4 DEF Seqs
<1>6. PICK r : r = [seq |-> c.seq, stim |-> c.stim, outcome |-> outcome]
  OBVIOUS
<1>7. history'[b] = history[b] \cup {r} /\ r.seq = c.seq /\ r.stim = c.stim
  BY <1>1, <1>2, <1>3, <1>5, <1>6, RecordIs
<1>8. Mine(b)' = Mine(b) \ {c}
  BY DEF Mine
<1>9. ASSUME NEW d \in Mine(b), d # c
      PROVE  c.seq < d.seq /\ c.stim < d.stim /\ d.stim \in Nat /\ d.seq \in Nat /\ Happened(b, d.stim)
  <2>1. d \in plan /\ d \in Planned /\ d.binding = b /\ Happened(b, d.stim)
    BY <1>3 DEF Mine, PlannedInv
  <2>2. d.seq \in Nat /\ d.stim \in Nat /\ b \in Nat
    BY <2>1, BindingsAssumption DEF Planned
  <2>3. c.seq <= d.seq
    BY <1>2, <2>1, <2>2 DEF First
  <2>4. (c.seq < d.seq <=> c.stim < d.stim) /\ (d.seq < c.seq <=> d.stim < c.stim)
    BY <1>3 DEF Aligned
  <2>5. c.seq # d.seq \/ c.stim # d.stim
    BY <1>1, <1>2, <1>9, <2>1 DEF Planned
  <2> QED BY <1>3, <2>1, <2>2, <2>3, <2>4, <2>5
<1>10. \A d \in Mine(b) : d.stim \in Nat /\ d.seq \in Nat
  BY <1>3, <1>9
<1>11. Aligned(b)'
  <2>1. \A f, g \in history'[b] : f.seq < g.seq <=> f.stim < g.stim
    <3>1. \A f, g \in history[b] : f.seq < g.seq <=> f.stim < g.stim
      BY <1>3 DEF Aligned
    <3> QED BY <1>3, <1>4, <1>7, <3>1
  <2>2. \A d \in Mine(b) \ {c}, f \in history'[b] : f.seq < d.seq /\ f.stim < d.stim
    BY <1>3, <1>7, <1>9 DEF Aligned
  <2>3. \A d, e \in Mine(b) : d.seq < e.seq <=> d.stim < e.stim
    BY <1>3 DEF Aligned
  <2> QED BY <1>8, <2>1, <2>2, <2>3 DEF Aligned
<1>12. ASSUME NEW x \in Nat, Since(b, x)' PROVE Since(b, x)
  <2>1. CASE b \in Changed \cap CatchUp
    BY <2>1 DEF Since
  <2>2. CASE b \notin Changed \cap CatchUp
    <3>1. PICK f \in history[b] : TRUE
      BY <1>1, <1>2, <2>2 DEF Late, Changed, Seeded
    <3>2. PICK g \in history'[b] : g.stim < x
      BY <1>12, <2>2 DEF Since
    <3>3. CASE g \in history[b]
      BY <3>2, <3>3 DEF Since
    <3>4. CASE g = r
      <4>1. f.stim < x
        BY <1>3, <1>4, <1>7, <3>2, <3>4
      <4> QED BY <4>1 DEF Since
    <3> QED BY <1>7, <3>2, <3>3, <3>4
  <2> QED BY <2>1, <2>2
<1>13. PICK K : K = Recorded(b)
  OBVIOUS
<1>14. PICK L : L = K \cup {c.stim}
  OBVIOUS
<1>15. PICK M : M = K \cup Stims(b)
  OBVIOUS
<1>16. Recorded(b)' = L
  <2>1. Recorded(b)' = {f.stim : f \in history[b] \cup {r}}
    BY <1>7 DEF Recorded
  <2> QED BY <1>7, <1>13, <1>14, <2>1 DEF Recorded
<1>17. (Recorded(b) \cup Stims(b))' = M
  <2>1. Stims(b)' = {d.stim : d \in Mine(b) \ {c}}
    BY <1>8 DEF Stims
  <2>2. Stims(b) = Stims(b)' \cup {c.stim}
    BY <1>3, <2>1 DEF Stims
  <2> QED BY <1>14, <1>15, <1>16, <2>2
<1>18. \A s \in M : s <= c.stim => s \in L
  <2> SUFFICES ASSUME NEW d \in Mine(b), d.stim <= c.stim PROVE d.stim \in L
    BY <1>14, <1>15 DEF Stims
  <2>1. d = c
    BY <1>3, <1>9, <1>10
  <2> QED BY <1>14, <2>1
<1>19. Complete(b, c.stim, L)
  <2>1. Complete(b, c.stim, M)
    BY <1>3, <1>13, <1>15 DEF Covered
  <2>2. ASSUME b \in Changed, NEW i \in Position(b, c.stim), NEW j \in 1 .. i,
               log[Watch[b]][j].hit, Since(b, log[Watch[b]][j].id)
        PROVE  log[Watch[b]][j].id \in L
    <3>1. Watch[b] \in Branches
      BY <2>2, WatchAssumption DEF Changed, Timed
    <3>2. PICK branch : branch = log[Watch[b]]
      OBVIOUS
    <3>3. /\ branch \in Seq(Commits) /\ DOMAIN branch = 1 .. Len(branch) /\ Len(branch) \in Nat
          /\ \A m \in DOMAIN branch : branch[m].id \in Nat
          /\ \A m, n \in DOMAIN branch : m < n => branch[m].id < branch[n].id
      <4>1. branch \in Seq(Commits)
        BY <1>3, <3>1, <3>2 DEF LogInv
      <4>2. \A m \in DOMAIN branch : branch[m] \in Commits
        BY <4>1
      <4> QED BY <1>3, <3>1, <3>2, <4>1, <4>2 DEF LogInv, Commits
    <3>4. i \in DOMAIN branch /\ branch[i].id = c.stim
      BY <3>2 DEF Position
    <3>5. j \in DOMAIN branch /\ j <= i
      BY <3>3, <3>4
    <3>6. branch[j].id <= c.stim
      BY <3>3, <3>4, <3>5
    <3>7. branch[j].id \in M
      BY <2>1, <2>2, <3>2 DEF Complete
    <3> QED BY <1>18, <3>2, <3>6, <3>7
  <2>3. ASSUME b \in Timed \cap CatchUp \cap Backfill, NEW t \in Schedule[b], Since(b, t), t < c.stim
        PROVE  t \in L
    <3>1. t \in M /\ t \in Nat
      BY <2>1, <2>3, ScheduleAssumption DEF Complete
    <3> QED BY <1>3, <1>18, <2>3, <3>1
  <2> QED BY <2>2, <2>3 DEF Complete
<1>20. ASSUME NEW f \in history'[b] PROVE Complete(b, f.stim, L)'
  <2>1. CASE f \in history[b]
    <3>1. Complete(b, f.stim, K) /\ K \subseteq L
      BY <1>3, <1>13, <1>14, <2>1 DEF Covered
    <3> QED BY <1>4, <1>12, <2>1, <3>1, CompleteStays
  <2>2. CASE f = r
    <3>1. Complete(b, c.stim, L)'
      BY <1>1, <1>2, <1>3, <1>12, <1>19, CompleteStays
    <3> QED BY <1>7, <2>2, <3>1
  <2> QED BY <1>7, <2>1, <2>2
<1>21. ASSUME NEW d \in Mine(b), d # c PROVE Complete(b, d.stim, M)'
  <2>1. Complete(b, d.stim, M)
    BY <1>3, <1>13, <1>15 DEF Covered
  <2> QED BY <1>9, <1>12, <1>21, <2>1, CompleteStays
<1>22. Covered(b)'
  <2>1. \A f \in history'[b] : Complete(b, f.stim, Recorded(b))'
    BY <1>16, <1>20 DEF Complete
  <2>2. \A d \in Mine(b)' : Complete(b, d.stim, Recorded(b) \cup Stims(b))'
    BY <1>8, <1>17, <1>21 DEF Complete
  <2> QED BY <2>1, <2>2 DEF Covered
<1>23. RunInv(b)'
  BY <1>2, <1>3, <1>13, <1>14, <1>16 DEF RunInv
<1> QED BY <1>2, <1>11, <1>22, <1>23 DEF BindingInv

\* A fire grows a branch or leaves all, and ends with the record of its outcome.
LEMMA ExecuteIs ==
    ASSUME LogInv, NEW c \in Planned, Execute(c), now' = now
    PROVE  /\ Grown
           /\ \E outcome \in Outcomes : Record(c, outcome)
           /\ executed' \subseteq executed \cup {<<c.binding, c.stim>>}
           /\ repeated' \subseteq repeated \cup ({<<c.binding, c.stim>>} \cap executed)
<1>1. /\ \E outcome \in Outcomes : Record(c, outcome)
      /\ executed' \subseteq executed \cup {<<c.binding, c.stim>>}
      /\ repeated' \subseteq repeated \cup ({<<c.binding, c.stim>>} \cap executed)
  <2>1. Record(c, "done") \/ Record(c, "failed")
    BY Zenon DEF Execute
  <2>2. /\ executed' \subseteq executed \cup {<<c.binding, c.stim>>}
        /\ repeated' \subseteq repeated \cup ({<<c.binding, c.stim>>} \cap executed)
    BY Zenon DEF Execute
  <2>3. "done" \in Outcomes /\ "failed" \in Outcomes
    BY DEF Outcomes
  <2> QED BY <2>1, <2>2, <2>3, Zenon
<1>2. CASE UNCHANGED <<log, commits>>
  <2>1. now' \in Nat /\ now <= now'
    BY DEF LogInv
  <2> QED BY <1>1, <1>2, <2>1, SameLog
<1>3. CASE /\ commits' = commits + 1
           /\ \E hit \in BOOLEAN : log' = [log EXCEPT ![Target[c.binding]] =
                                              Append(@, [id |-> commits + 1, hit |-> hit])]
  <2>1. PICK hit \in BOOLEAN : log' = [log EXCEPT ![Target[c.binding]] =
                                          Append(@, [id |-> commits + 1, hit |-> hit])]
    BY <1>3
  <2>2. PICK r \in Branches : r = Target[c.binding]
    BY TargetAssumption DEF Planned
  <2>3. log[r] \in Seq(Commits)
    BY DEF LogInv
  <2>4. Len(log[r]) \in 0 .. Len(log[r]) /\ SubSeq(log[r], 1, Len(log[r])) = log[r]
    BY <2>3, SubSeqFull, LenProperties
  <2>5. log' = [log EXCEPT ![r] = Append(SubSeq(log[r], 1, Len(log[r])), [id |-> commits + 1, hit |-> hit])]
    BY <2>1, <2>2, <2>4
  <2>6. PICK n \in 0 .. Len(log[r]) : n = Len(log[r])
    BY <2>4
  <2> QED BY <1>1, <1>3, <2>5, <2>6, NewCommit
<1>4. \/ UNCHANGED <<log, commits>>
      \/ /\ commits' = commits + 1
         /\ \E hit \in BOOLEAN : log' = [log EXCEPT ![Target[c.binding]] =
                                            Append(@, [id |-> commits + 1, hit |-> hit])]
  BY Zenon DEF Execute
<1> QED BY <1>2, <1>3, <1>4

\* Steps that record nothing.
LEMMA IdleStep ==
    ASSUME Inv, Grown, UNCHANGED <<history, executed, repeated>>,
           \A b \in Bindings \ Queueing : Mine(b)' \in {Mine(b), {}},
           plan' \cup queued' \subseteq plan \cup queued,
           \A c \in queued' : c.binding \in Queueing
    PROVE  Inv'
<1>1. LogInv' /\ HistoryInv'
  BY HistoryStays DEF Inv, Grown
<1>2. PlannedInv'
  BY PlannedStays DEF Inv
<1>3. \A b \in Bindings \ Queueing : BindingInv(b)'
  BY KeepsBinding
<1>4. FiredOnce'
  BY DEF Inv, FiredOnce
<1> QED BY <1>1, <1>2, <1>3, <1>4 DEF Inv

\* The first candidate of the plan gets its record.
LEMMA FireStep ==
    ASSUME Inv, Grown, NEW c \in plan, First(c), NEW outcome \in Outcomes, Record(c, outcome),
           plan' = plan \ {c}, queued' = queued,
           executed' \subseteq executed \cup {<<c.binding, c.stim>>},
           repeated' \subseteq repeated \cup ({<<c.binding, c.stim>>} \cap executed)
    PROVE  Inv'
<1>1. /\ LogInv /\ HistoryInv /\ PlannedInv /\ c \in Planned
      /\ Happened(c.binding, c.stim) /\ (Late(c.binding) => Seeded(c.binding))
  BY DEF Inv, PlannedInv
<1>2. /\ HistoryInv' /\ \A b \in Bindings : history[b] \subseteq history'[b]
      /\ \A b \in Bindings \ {c.binding} : history'[b] = history[b]
  BY <1>1, RecordIs
<1>3. PlannedInv'
  <2>1. plan' \cup queued' \subseteq plan \cup queued /\ \A d \in queued' : d.binding \in Queueing
    BY <1>1 DEF PlannedInv
  <2> QED BY <1>1, <1>2, <2>1, PlannedStays
<1>4. ASSUME NEW b \in Bindings \ Queueing PROVE BindingInv(b)'
  <2>1. CASE b = c.binding
    <3>1. BindingInv(c.binding)'
      BY <2>1, FiresBinding
    <3> QED BY <2>1, <3>1
  <2>2. CASE b # c.binding
    <3>1. Mine(b)' = Mine(b)
      BY <2>2 DEF Mine
    <3> QED BY <1>2, <2>2, <3>1, KeepsBinding
  <2> QED BY <2>1, <2>2
<1>5. ASSUME NEW f \in repeated', f[1] \notin Queueing PROVE FALSE
  <2>1. f = <<c.binding, c.stim>> /\ f \in executed
    BY <1>5 DEF Inv, FiredOnce
  <2>2. c.binding \in Bindings \ Queueing /\ c.stim \in Nat
    BY <1>1, <1>5, <2>1 DEF Planned
  <2>3. PICK g \in history[c.binding] : g.stim = c.stim
    BY <2>1, <2>2 DEF Inv, BindingInv, RunInv, Recorded
  <2>4. g.stim < c.stim
    BY <2>2 DEF Inv, BindingInv, Aligned, Mine
  <2> QED BY <2>2, <2>3, <2>4
<1> QED BY <1>2, <1>3, <1>4, <1>5 DEF Inv, FiredOnce, Grown

LEMMA PlanStep ==
    ASSUME Inv, Plan
    PROVE  Inv'
<1>1. /\ LogInv /\ HistoryInv /\ PlannedInv /\ plan' = Due.fires /\ Grown
      /\ UNCHANGED <<log, now, history, queued, commits, executed, repeated>>
  <2>1. /\ LogInv /\ HistoryInv /\ PlannedInv /\ plan' = Due.fires
        /\ UNCHANGED <<log, now, history, queued, commits, executed, repeated>>
    BY DEF Inv, Plan
  <2>2. now' \in Nat /\ now <= now'
    BY <2>1 DEF LogInv
  <2> QED BY <2>1, <2>2, SameLog
<1>2. Listed(plan', Top)
  BY <1>1, DueIs
<1>3. ASSUME NEW b \in Bindings
      PROVE  Mine(b)' = {} \/ (~Gap(b) /\ \E room \in Int : Mine(b)' = Candidates(b, room))
  BY <1>2 DEF Listed, Mine
<1>4. ASSUME NEW c \in plan'
      PROVE  c \in Planned /\ Happened(c.binding, c.stim) /\ (Late(c.binding) => Seeded(c.binding))
  <2>1. PICK b \in Bindings : b = c.binding
    BY <1>2 DEF Listed
  <2>2. c \in Mine(b)'
    BY <2>1 DEF Mine
  <2>3. PICK room \in Int : ~Gap(b) /\ c \in Candidates(b, room)
    BY <1>3, <2>2
  <2> QED BY <1>1, <2>1, <2>3, CandidatesAre
<1>5. PlannedInv'
  <2>1. \A c \in plan' \cup queued' :
            /\ c \in Planned /\ Happened(c.binding, c.stim)
            /\ Late(c.binding) => Seeded(c.binding)
    BY <1>1, <1>4 DEF PlannedInv
  <2>2. \A c \in queued' : c.binding \in Queueing
    BY <1>1 DEF PlannedInv
  <2> QED BY <1>1, <2>1, <2>2 DEF PlannedInv, Happened, Late, Seeded
<1>6. ASSUME NEW b \in Bindings \ Queueing PROVE BindingInv(b)'
  <2>1. CASE Mine(b)' = {}
    BY <1>1, <2>1, KeepsBinding
  <2>2. CASE Mine(b)' # {}
    <3>1. PICK room \in Int : ~Gap(b) /\ Mine(b)' = Candidates(b, room)
      BY <1>3, <2>2
    <3>2. Aligned(b)' /\ Covered(b)'
      BY <1>1, <3>1, CandidatesAligned
    <3>3. RunInv(b)'
      BY <1>1 DEF Inv, BindingInv, RunInv, Recorded
    <3> QED BY <3>2, <3>3 DEF BindingInv
  <2> QED BY <2>1, <2>2
<1>7. HistoryInv' /\ LogInv'
  BY <1>1, HistoryStays DEF Grown
<1>8. FiredOnce'
  BY <1>1 DEF Inv, FiredOnce
<1> QED BY <1>5, <1>6, <1>7, <1>8 DEF Inv

LEMMA SeedStep ==
    ASSUME Inv, NEW b \in Bindings, Seed(b)
    PROVE  Inv'
<1>1. /\ LogInv /\ HistoryInv /\ PlannedInv /\ history[b] = {} /\ Late(b) /\ Grown
      /\ UNCHANGED <<log, now, plan, queued, commits, executed, repeated>>
  <2>1. /\ LogInv /\ HistoryInv /\ PlannedInv /\ history[b] = {} /\ Late(b)
        /\ UNCHANGED <<log, now, plan, queued, commits, executed, repeated>>
    BY DEF Inv, Seed, Late
  <2>2. now' \in Nat /\ now <= now'
    BY <2>1 DEF LogInv
  <2> QED BY <2>1, <2>2, SameLog
<1>2. PICK stim \in IF b \in Timed THEN {now} \ {0}
                    ELSE {log[Watch[b]][i].id : i \in {Len(log[Watch[b]])} \ {0}} :
          Record([binding |-> b, stim |-> stim, seq |-> 0], "seeded")
  BY DEF Seed
<1>3. stim \in Nat \ {0} /\ Happened(b, stim)
  <2>1. CASE b \in Timed
    BY <1>1, <1>2, <2>1 DEF LogInv, Happened
  <2>2. CASE b \notin Timed
    <3>1. Watch[b] \in Branches
      BY <2>2, WatchAssumption DEF Timed
    <3>2. log[Watch[b]] \in Seq(Commits)
      BY <1>1, <3>1 DEF LogInv
    <3>3. PICK i : i = Len(log[Watch[b]]) /\ i # 0 /\ stim = log[Watch[b]][i].id
      BY <1>2, <2>2
    <3>4. i \in DOMAIN log[Watch[b]]
      BY <3>2, <3>3, LenProperties
    <3>5. log[Watch[b]][i] \in Commits /\ stim <= commits
      BY <1>1, <3>1, <3>2, <3>3, <3>4 DEF LogInv
    <3> QED BY <2>2, <3>3, <3>5 DEF Commits, Happened
  <2> QED BY <2>1, <2>2
<1>4. PICK c : c = [binding |-> b, stim |-> stim, seq |-> 0]
  OBVIOUS
<1>5. c \in Planned /\ c.binding = b /\ c.stim = stim /\ c.seq = 0 /\ Record(c, "seeded")
  BY <1>2, <1>3, <1>4 DEF Planned
<1>6. PICK r : r = [seq |-> 0, stim |-> stim, outcome |-> "seeded"]
  OBVIOUS
<1>7. /\ HistoryInv' /\ \A a \in Bindings : history[a] \subseteq history'[a]
      /\ \A a \in Bindings \ {b} : history'[a] = history[a]
      /\ history'[b] = {r}
  <2>1. "seeded" \in Outcomes
    BY DEF Outcomes
  <2>2. c.seq \notin Seqs(b)
    BY <1>1 DEF Seqs
  <2> QED BY <1>1, <1>3, <1>5, <1>6, <2>1, <2>2, RecordIs
<1>8. PlannedInv'
  BY <1>1, <1>7, PlannedStays DEF PlannedInv
<1>9. Mine(b) = {} /\ \A a : Mine(a)' = Mine(a)
  <2>1. ASSUME NEW d \in Mine(b) PROVE FALSE
    BY <1>1 DEF Mine, PlannedInv, Seeded
  <2> QED BY <1>1, <2>1 DEF Mine
<1>10. ASSUME b \notin Queueing PROVE BindingInv(b)'
  <2>1. r.stim = stim /\ Recorded(b)' = {stim}
    BY <1>6, <1>7 DEF Recorded
  <2>2. \A x \in Nat : Since(b, x)' => stim < x
    BY <1>1, <1>7, <2>1 DEF Since, Late, Changed
  <2>3. ASSUME b \in Changed, NEW i \in Position(b, stim)', NEW j \in 1 .. i,
               Since(b, log[Watch[b]][j].id)'
        PROVE  FALSE
    <3>1. Watch[b] \in Branches
      BY <2>3, WatchAssumption DEF Changed, Timed
    <3>2. PICK branch : branch = log[Watch[b]] /\ branch = log'[Watch[b]]
      BY <1>1
    <3>3. /\ branch \in Seq(Commits) /\ DOMAIN branch = 1 .. Len(branch) /\ Len(branch) \in Nat
          /\ \A m \in DOMAIN branch : branch[m].id \in Nat
          /\ \A m, n \in DOMAIN branch : m < n => branch[m].id < branch[n].id
      <4>1. branch \in Seq(Commits)
        BY <1>1, <3>1, <3>2 DEF LogInv
      <4>2. \A m \in DOMAIN branch : branch[m] \in Commits
        BY <4>1
      <4> QED BY <1>1, <3>1, <3>2, <4>1, <4>2 DEF LogInv, Commits
    <3>4. i \in DOMAIN branch /\ branch[i].id = stim
      BY <3>2 DEF Position
    <3>5. j \in DOMAIN branch /\ j <= i
      BY <3>3, <3>4
    <3>6. branch[j].id <= stim /\ branch[j].id \in Nat
      BY <3>3, <3>4, <3>5
    <3>7. PICK x \in Nat : x = branch[j].id
      BY <3>6
    <3>8. Since(b, x)'
      BY <2>3, <3>2, <3>7 DEF Since
    <3> QED BY <1>3, <2>2, <3>6, <3>7, <3>8
  <2>4. ASSUME b \in Timed, NEW t \in Schedule[b], Since(b, t)', t < stim PROVE FALSE
    <3>1. t \in Nat
      BY ScheduleAssumption
    <3> QED BY <1>3, <2>2, <2>4, <3>1
  <2>5. Complete(b, stim, {stim})'
    BY <2>3, <2>4 DEF Complete
  <2>6. Covered(b)'
    BY <1>7, <1>9, <2>1, <2>5 DEF Covered, Complete
  <2>7. Aligned(b)'
    <3>1. r.seq \in Nat /\ r.stim \in Nat
      BY <1>3, <1>6
    <3>2. ~(r.seq < r.seq) /\ ~(r.stim < r.stim)
      BY <3>1
    <3> QED BY <1>7, <1>9, <3>2 DEF Aligned
  <2>8. RunInv(b)'
    BY <1>1, <1>10 DEF Inv, BindingInv, RunInv, Recorded
  <2> QED BY <2>6, <2>7, <2>8 DEF BindingInv
<1>11. ASSUME NEW a \in Bindings \ Queueing PROVE BindingInv(a)'
  <2>1. CASE a = b
    BY <1>10, <2>1
  <2>2. CASE a # b
    <3>1. Mine(a)' \in {Mine(a), {}} /\ history'[a] = history[a]
      BY <1>7, <1>9, <2>2
    <3> QED BY <1>1, <3>1, KeepsBinding
  <2> QED BY <2>1, <2>2
<1>12. FiredOnce' /\ LogInv'
  BY <1>1 DEF Inv, FiredOnce, Grown
<1> QED BY <1>7, <1>8, <1>11, <1>12 DEF Inv

LEMMA FireQueuedStep ==
    ASSUME Inv, FireQueued
    PROVE  Inv'
<1>1. PICK c \in queued : queued' = queued \ {c} /\ Execute(c) /\ UNCHANGED <<now, plan>>
  BY DEF FireQueued
<1>2. /\ LogInv /\ HistoryInv /\ PlannedInv /\ c \in Planned /\ c.binding \in Queueing
      /\ Happened(c.binding, c.stim) /\ (Late(c.binding) => Seeded(c.binding))
  BY DEF Inv, PlannedInv
<1>3. /\ Grown /\ \E outcome \in Outcomes : Record(c, outcome)
      /\ executed' \subseteq executed \cup {<<c.binding, c.stim>>}
      /\ repeated' \subseteq repeated \cup ({<<c.binding, c.stim>>} \cap executed)
  BY <1>1, <1>2, ExecuteIs
<1>4. PICK outcome \in Outcomes : Record(c, outcome)
  BY <1>3
<1>5. /\ HistoryInv' /\ \A b \in Bindings : history[b] \subseteq history'[b]
      /\ \A b \in Bindings \ {c.binding} : history'[b] = history[b]
  BY <1>2, <1>3, <1>4, RecordIs
<1>6. PlannedInv'
  <2>1. plan' \cup queued' \subseteq plan \cup queued /\ \A d \in queued' : d.binding \in Queueing
    BY <1>1, <1>2 DEF PlannedInv
  <2> QED BY <1>2, <1>3, <1>5, <2>1, PlannedStays
<1>7. ASSUME NEW b \in Bindings \ Queueing PROVE BindingInv(b)'
  <2>1. b # c.binding /\ Mine(b)' \in {Mine(b), {}}
    BY <1>1, <1>2 DEF Mine
  <2>2. \A s : <<b, s>> \in executed' => <<b, s>> \in executed
    BY <1>3, <2>1
  <2> QED BY <1>3, <1>5, <2>1, <2>2, KeepsBinding
<1>8. FiredOnce'
  BY <1>2, <1>3 DEF Inv, FiredOnce
<1> QED BY <1>3, <1>5, <1>6, <1>7, <1>8 DEF Inv, Grown

LEMMA InitInv == Init => Inv
<1> SUFFICES ASSUME Init PROVE Inv
  OBVIOUS
<1>1. LogInv
  <2>1. \A r \in Branches : log[r] = <<>>
    BY DEF Init
  <2>2. \A r \in Branches : log[r] \in Seq(Commits) /\ DOMAIN log[r] = {}
    <3>1. <<>> \in Seq(Commits) /\ DOMAIN <<>> = {}
      BY EmptySeq
    <3> QED BY <2>1, <3>1, Zenon
  <2> QED BY <2>2 DEF Init, LogInv
<1>2. \A b \in Bindings : history[b] = {}
  BY DEF Init
<1>3. HistoryInv
  BY <1>2, FS_EmptySet DEF Init, HistoryInv
<1>4. PlannedInv /\ FiredOnce
  BY DEF Init, PlannedInv, FiredOnce
<1>5. \A b \in Bindings : BindingInv(b)
  BY <1>2 DEF Init, BindingInv, Aligned, Covered, RunInv, Mine
<1> QED BY <1>1, <1>3, <1>4, <1>5 DEF Inv

LEMMA NextInv == Inv /\ [Next]_vars => Inv'
<1> SUFFICES ASSUME Inv, [Next]_vars PROVE Inv'
  OBVIOUS
<1>0. LogInv /\ now \in Nat /\ commits \in Nat /\ \A c \in queued : c.binding \in Queueing
  BY DEF Inv, LogInv, PlannedInv
<1>1. CASE Plan
  BY <1>1, PlanStep
<1>2. CASE Fire
  <2>1. PICK c \in plan : First(c) /\ plan' = plan \ {c} /\ Execute(c) /\ UNCHANGED <<now, queued>>
    BY <1>2 DEF Fire
  <2>2. c \in Planned
    BY DEF Inv, PlannedInv
  <2>3. /\ Grown /\ \E outcome \in Outcomes : Record(c, outcome)
        /\ executed' \subseteq executed \cup {<<c.binding, c.stim>>}
        /\ repeated' \subseteq repeated \cup ({<<c.binding, c.stim>>} \cap executed)
    BY <1>0, <2>1, <2>2, ExecuteIs
  <2> QED BY <2>1, <2>3, FireStep
<1>3. CASE FireSkips
  <2>1. PICK c \in plan : /\ First(c) /\ plan' = plan \ {c} /\ Record(c, "skipped")
                          /\ UNCHANGED <<log, now, queued, commits, executed, repeated>>
    BY <1>3 DEF FireSkips
  <2>2. Grown /\ "skipped" \in Outcomes
    BY <1>0, <2>1, SameLog DEF Outcomes
  <2> QED BY <2>1, <2>2, FireStep
<1>4. CASE FireQueues
  <2>1. PICK c \in plan : /\ c.binding \in Queueing /\ plan' = plan \ {c} /\ queued' = queued \cup {c}
                          /\ UNCHANGED <<log, now, history, commits, executed, repeated>>
    BY <1>4 DEF FireQueues
  <2>2. Grown
    BY <1>0, <2>1, SameLog
  <2>3. \A b \in Bindings \ Queueing : Mine(b)' \in {Mine(b), {}}
    BY <2>1 DEF Mine
  <2> QED BY <1>0, <2>1, <2>2, <2>3, IdleStep
<1>5. CASE FireQueued
  BY <1>5, FireQueuedStep
<1>6. CASE Crash
  <2>1. /\ plan' = {} /\ queued' = {}
        /\ UNCHANGED <<log, now, history, commits, executed, repeated>>
    BY <1>6 DEF Crash
  <2>2. Grown
    BY <1>0, <2>1, SameLog
  <2>3. \A b \in Bindings \ Queueing : Mine(b)' \in {Mine(b), {}}
    BY <2>1 DEF Mine
  <2> QED BY <1>0, <2>1, <2>2, <2>3, IdleStep
<1>7. CASE Tick
  <2>1. now' = now + 1 /\ UNCHANGED <<log, history, plan, queued, commits, executed, repeated>>
    BY <1>7 DEF Tick
  <2>2. now' \in Nat /\ now <= now'
    BY <1>0, <2>1
  <2>3. Grown
    BY <1>0, <2>1, <2>2, SameLog
  <2>4. \A b \in Bindings \ Queueing : Mine(b)' \in {Mine(b), {}}
    BY <2>1 DEF Mine
  <2> QED BY <1>0, <2>1, <2>3, <2>4, IdleStep
<1>8. ASSUME NEW b \in Bindings, Delete(b) \/ \E to \in {"disabled", "enabled"} : Edit(b, to)
      PROVE  Inv'
  <2>1. UNCHANGED <<log, now, history, plan, queued, commits, executed, repeated>>
    BY <1>8 DEF Delete, Edit
  <2>2. Grown
    BY <1>0, <2>1, SameLog
  <2>3. \A a \in Bindings \ Queueing : Mine(a)' \in {Mine(a), {}}
    BY <2>1 DEF Mine
  <2> QED BY <1>0, <2>1, <2>2, <2>3, IdleStep
<1>9. ASSUME NEW b \in Bindings, Seed(b) PROVE Inv'
  BY <1>9, SeedStep
<1>10. ASSUME NEW r \in Branches, NEW n \in 0 .. Len(log[r]), NEW hit \in BOOLEAN, Commit(r, n, hit)
       PROVE  Inv'
  <2>1. /\ commits' = commits + 1
        /\ log' = [log EXCEPT ![r] = Append(SubSeq(log[r], 1, n), [id |-> commits + 1, hit |-> hit])]
        /\ UNCHANGED <<now, history, plan, queued, executed, repeated>>
    BY <1>10 DEF Commit
  <2>2. Grown
    BY <1>0, <2>1, NewCommit
  <2>3. \A b \in Bindings \ Queueing : Mine(b)' \in {Mine(b), {}}
    BY <2>1 DEF Mine
  <2> QED BY <1>0, <2>1, <2>2, <2>3, IdleStep
<1>11. CASE UNCHANGED vars
  <2>1. UNCHANGED <<log, now, history, plan, queued, commits, executed, repeated>>
    BY <1>11 DEF vars
  <2>2. Grown
    BY <1>0, <2>1, SameLog
  <2>3. \A a \in Bindings \ Queueing : Mine(a)' \in {Mine(a), {}}
    BY <2>1 DEF Mine
  <2> QED BY <1>0, <2>1, <2>2, <2>3, IdleStep
<1> QED BY <1>1, <1>2, <1>3, <1>4, <1>5, <1>6, <1>7, <1>8, <1>9, <1>10, <1>11 DEF Next, Keep

------------------------------------------------------------------------------
(* ---- theorems ---- *)

\* The fire log and the plan of a binding stay in order and pass nothing, through commits,
\* rewrites, edits, seeds and crashes of the host at any point.
THEOREM TriggersInvariant == Spec => []Inv
BY InitInv, NextInv, PTL DEF Spec

\* A binding that does not queue runs at most once to success for a stimulus, as
\* trigger_keeper_due leaves out the stimuli that have a record.
THEOREM FiresOnce == Spec => []FiredOnce
<1>1. Inv => FiredOnce
  BY DEF Inv
<1> QED BY <1>1, TriggersInvariant, PTL

\* The fire log of a binding that does not queue is in the order of what it fired for, as
\* its sequences are given out in that order and a plan cut short is made anew.
THEOREM LogIsOrdered == Spec => []LogOrdered
<1>1. Inv => LogOrdered
  BY DEF Inv, BindingInv, Aligned, LogOrdered
<1> QED BY <1>1, TriggersInvariant, PTL

\* The watermark change_trigger_cursor and evaluate_time_trigger start from never passes a
\* selected commit or an instant to backfill that has no record.
THEOREM PassesNothing == Spec => []NothingPassed
<1>1. ASSUME Inv, NEW b \in Bindings \ Queueing, history[b] # {}, NEW oldest,
             oldest = IF b \in Changed \cap CatchUp THEN 0 ELSE Min(Recorded(b))
      PROVE  /\ b \in Changed => \A i \in Position(b, Latest(b).stim) : \A j \in 1 .. i :
                   LET c == log[Watch[b]][j] IN c.hit /\ c.id > oldest => c.id \in Recorded(b)
             /\ b \in Timed \cap CatchUp \cap Backfill =>
                   \A t \in Schedule[b] : oldest < t /\ t < Latest(b).stim => t \in Recorded(b)
  <2>1. HistoryInv /\ Covered(b)
    BY <1>1 DEF Inv, BindingInv
  <2>2. Recorded(b) \in SUBSET Nat /\ Recorded(b) # {}
    BY <1>1, <2>1 DEF HistoryInv, Fires, Recorded
  <2>3. Min(Recorded(b)) \in Recorded(b)
    <3>1. Recorded(b) \in SUBSET Int /\ \E n \in Int : \A x \in Recorded(b) : n <= x
      BY <2>2
    <3> QED BY <2>2, <3>1, LeastAbove
  <2>4. ASSUME NEW s, oldest < s PROVE Since(b, s)
    <3>1. CASE b \in Changed \cap CatchUp
      BY <3>1 DEF Since
    <3>2. CASE b \notin Changed \cap CatchUp
      BY <1>1, <2>3, <2>4, <3>2 DEF Recorded, Since
    <3> QED BY <3>1, <3>2
  <2>5. Complete(b, Latest(b).stim, Recorded(b))
    BY <1>1, <2>1, LatestIs DEF Covered
  <2>6. ASSUME b \in Changed, NEW i \in Position(b, Latest(b).stim), NEW j \in 1 .. i,
               log[Watch[b]][j].hit, log[Watch[b]][j].id > oldest
        PROVE  log[Watch[b]][j].id \in Recorded(b)
    <3>1. Since(b, log[Watch[b]][j].id)
      <4>1. PICK s : s = log[Watch[b]][j].id
        OBVIOUS
      <4>2. oldest < s
        BY <2>6, <4>1
      <4> QED BY <2>4, <4>1, <4>2
    <3> QED BY <2>5, <2>6, <3>1 DEF Complete
  <2>7. ASSUME b \in Timed \cap CatchUp \cap Backfill, NEW t \in Schedule[b],
               oldest < t, t < Latest(b).stim
        PROVE  t \in Recorded(b)
    BY <2>4, <2>5, <2>7 DEF Complete
  <2> QED BY <2>6, <2>7
<1>2. Inv => NothingPassed
  BY <1>1 DEF NothingPassed
<1> QED BY <1>2, TriggersInvariant, PTL
==============================================================================
