----------------------------- MODULE GroupCommit -----------------------------
(* FileStore::group_commit (loom-store lib.rs): threads that put objects queue   *)
(* them under the group lock; one thread leads, commits the whole queue in one   *)
(* transaction and hands the outcome to every waiter of that batch.              *)
(*                                                                              *)
(* commit_txn is one step here; FileStore models what is inside it.             *)
EXTENDS Integers, FiniteSets

CONSTANTS
    Threads,      \* threads that share one FileStore
    Objects,      \* the objects they put, named by their digests
    EmptyBatches  \* whether a caller may submit no object at all

ASSUME EmptyBatchesAssumption == EmptyBatches \in BOOLEAN

VARIABLES
    pending,  \* GroupCommit.pending: objects queued for the next batch
    waiters,  \* GroupCommit.waiters: threads whose objects are queued
    leading,  \* GroupCommit.leader_active
    stored,   \* the objects the index holds
    pc,       \* what each thread is doing
    items,    \* per thread: the objects of its call
    slot,     \* per thread: Waiter.outcome
    batch,    \* per thread: the objects it took as leader
    owed,     \* per thread: the waiters it took as leader and has not answered
    outcome,  \* per thread: what its commit_txn returned
    acked     \* history: objects of the calls that returned Ok

vars == <<pending, waiters, leading, stored, pc, items, slot, batch, owed, outcome, acked>>

Nothing == "none"
Outcomes == {"ok", "err"}

Init ==
    /\ pending = {} /\ waiters = {} /\ leading = FALSE
    /\ stored = {}
    /\ pc = [t \in Threads |-> "idle"]
    /\ items = [t \in Threads |-> {}]
    /\ slot = [t \in Threads |-> Nothing]
    /\ batch = [t \in Threads |-> {}]
    /\ owed = [t \in Threads |-> {}]
    /\ outcome = [t \in Threads |-> Nothing]
    /\ acked = {}

\* What one call may submit: put one object, put_batch at least one,
\* put_batch_control_set_with_reference whatever its caller passes.
Submissions == IF EmptyBatches THEN SUBSET Objects ELSE (SUBSET Objects) \ {{}}

FaultyEnqueue(t) ==
    /\ pc[t] = "idle"
    /\ \E objs \in Submissions :
          /\ items' = [items EXCEPT ![t] = objs]
          /\ pending' = pending \cup objs
    /\ waiters' = waiters \cup {t}
    /\ pc' = [pc EXCEPT ![t] = IF pending = {} THEN "lead" ELSE "wait"]
    /\ leading' = TRUE
    /\ slot' = [slot EXCEPT ![t] = Nothing]
    /\ UNCHANGED <<stored, batch, owed, outcome, acked>>

\* Queue the objects and the waiter; lead when nobody does.
Enqueue(t) ==
    /\ pc[t] = "idle"
    /\ \E objs \in Submissions :
          /\ items' = [items EXCEPT ![t] = objs]
          /\ pending' = pending \cup objs
    /\ waiters' = waiters \cup {t}
    /\ pc' = [pc EXCEPT ![t] = IF leading THEN "wait" ELSE "lead"]
    /\ leading' = TRUE
    /\ slot' = [slot EXCEPT ![t] = Nothing]
    /\ UNCHANGED <<stored, batch, owed, outcome, acked>>

\* Objects and waiters leave the queue together, under the group lock.
TakeBatch(t) ==
    /\ pc[t] = "lead" /\ pending # {}
    /\ batch' = [batch EXCEPT ![t] = pending]
    /\ owed' = [owed EXCEPT ![t] = waiters]
    /\ pending' = {} /\ waiters' = {}
    /\ pc' = [pc EXCEPT ![t] = "commit"]
    /\ UNCHANGED <<leading, stored, items, slot, outcome, acked>>

FaultyResign(t) ==
    /\ pc[t] = "lead"
    /\ leading' = FALSE
    /\ pc' = [pc EXCEPT ![t] = "wait"]
    /\ UNCHANGED <<pending, waiters, stored, items, slot, batch, owed, outcome, acked>>

\* The queue is drained: a later arrival leads the next batch.
Resign(t) ==
    /\ pc[t] = "lead" /\ pending = {}
    /\ leading' = FALSE
    /\ pc' = [pc EXCEPT ![t] = "wait"]
    /\ UNCHANGED <<pending, waiters, stored, items, slot, batch, owed, outcome, acked>>

FaultyCommitTxn(t) ==
    /\ pc[t] = "commit"
    /\ \/ stored' = stored \cup batch[t] /\ outcome' = [outcome EXCEPT ![t] = "ok"]
       \/ /\ ~(batch[t] \subseteq stored)
          /\ stored' = stored /\ outcome' = [outcome EXCEPT ![t] = "err"]
    /\ owed' = [owed EXCEPT ![t] = @ \cup waiters]
    /\ waiters' = {}
    /\ pc' = [pc EXCEPT ![t] = "answer"]
    /\ UNCHANGED <<pending, leading, items, slot, batch, acked>>

\* One transaction stores the batch or fails.  A batch that holds nothing new
\* commits nothing and succeeds.
CommitTxn(t) ==
    /\ pc[t] = "commit"
    /\ \/ stored' = stored \cup batch[t] /\ outcome' = [outcome EXCEPT ![t] = "ok"]
       \/ /\ ~(batch[t] \subseteq stored)
          /\ stored' = stored /\ outcome' = [outcome EXCEPT ![t] = "err"]
    /\ pc' = [pc EXCEPT ![t] = "answer"]
    /\ UNCHANGED <<pending, waiters, leading, items, slot, batch, owed, acked>>

FaultyAnswer(t, w) ==
    /\ pc[t] = "answer" /\ w \in owed[t]
    /\ slot' = [slot EXCEPT ![w] = outcome[t]]
    /\ owed' = [owed EXCEPT ![t] = @ \ {w}]
    /\ UNCHANGED <<pending, waiters, leading, stored, pc, items, batch, outcome, acked>>

\* Fill the waiter's slot and notify it, under the slot's lock.
Answer(t, w) ==
    /\ pc[t] = "answer" /\ w \in owed[t]
    /\ slot' = [slot EXCEPT ![w] = outcome[t]]
    /\ owed' = [owed EXCEPT ![t] = @ \ {w}]
    /\ pc' = [pc EXCEPT ![w] = IF pc[w] = "asleep" THEN "wait" ELSE @]
    /\ UNCHANGED <<pending, waiters, leading, stored, items, batch, outcome, acked>>

NextBatch(t) ==
    /\ pc[t] = "answer" /\ owed[t] = {}
    /\ pc' = [pc EXCEPT ![t] = "lead"]
    /\ UNCHANGED <<pending, waiters, leading, stored, items, slot, batch, owed, outcome, acked>>

Return(t) ==
    /\ pc[t] = "wait" /\ slot[t] # Nothing
    /\ acked' = IF slot[t] = "ok" THEN acked \cup items[t] ELSE acked
    /\ slot' = [slot EXCEPT ![t] = Nothing]
    /\ pc' = [pc EXCEPT ![t] = "idle"]
    /\ UNCHANGED <<pending, waiters, leading, stored, items, batch, owed, outcome>>

\* Condvar::wait releases the slot's lock and sleeps in one step.
Sleep(t) ==
    /\ pc[t] = "wait" /\ slot[t] = Nothing
    /\ pc' = [pc EXCEPT ![t] = "asleep"]
    /\ UNCHANGED <<pending, waiters, leading, stored, items, slot, batch, owed, outcome, acked>>

SpuriousWake(t) ==
    /\ pc[t] = "asleep"
    /\ pc' = [pc EXCEPT ![t] = "wait"]
    /\ UNCHANGED <<pending, waiters, leading, stored, items, slot, batch, owed, outcome, acked>>

Lead(t) ==
    \/ TakeBatch(t)
    \/ Resign(t)
    \/ CommitTxn(t)
    \/ \E w \in Threads : Answer(t, w)
    \/ NextBatch(t)

Next ==
    \E t \in Threads :
        \/ Enqueue(t)
        \/ Lead(t)
        \/ Return(t)
        \/ Sleep(t)
        \/ SpuriousWake(t)

\* A running thread keeps running; whether a thread calls again, and whether it is
\* woken without a notification, is not assumed.
Fairness ==
    \A t \in Threads : WF_vars(Lead(t)) /\ WF_vars(Return(t)) /\ WF_vars(Sleep(t))

Spec == Init /\ [][Next]_vars

FairSpec == Spec /\ Fairness

------------------------------------------------------------------------------
Leaders == {t \in Threads : pc[t] \in {"lead", "commit", "answer"}}

\* Every variable holds a value of the kind group_commit keeps there.
TypeOK ==
    /\ pending \subseteq Objects /\ waiters \subseteq Threads /\ leading \in BOOLEAN
    /\ stored \subseteq Objects /\ acked \subseteq Objects
    /\ pc \in [Threads -> {"idle", "lead", "commit", "answer", "wait", "asleep"}]
    /\ items \in [Threads -> SUBSET Objects]
    /\ slot \in [Threads -> Outcomes \cup {Nothing}]
    /\ batch \in [Threads -> SUBSET Objects]
    /\ owed \in [Threads -> SUBSET Threads]
    /\ outcome \in [Threads -> Outcomes \cup {Nothing}]

\* The objects of every call that returned Ok are in the index, whichever thread
\* committed them and however many batches were under way: the leader never answers a
\* caller with the outcome of a batch that did not hold the caller's objects.
AckedStored == acked \subseteq stored

\* The leader flag is up exactly while one thread leads, so two leaders never commit
\* and answer side by side.
OneLeader ==
    /\ leading <=> Leaders # {}
    /\ \A t, u \in Leaders : t = u

\* A caller without an outcome is queued for a leader that is still going to look at
\* the queue, or is owed an answer by the leader: when the leader steps down nobody is
\* left behind.
NobodyStranded ==
    \A t \in Threads : pc[t] # "idle" /\ slot[t] = Nothing =>
        \E l \in Leaders : t \in owed[l] \/ t \in waiters

\* A sleeping caller has no outcome yet: the leader's notification is never lost
\* between the check of the slot and the wait.
NoLostWakeup == \A t \in Threads : pc[t] = "asleep" => slot[t] = Nothing

\* A caller that waits for its outcome gets it, however many calls keep arriving.
WaitersReturn == \A t \in Threads : pc[t] \in {"wait", "asleep"} ~> pc[t] = "idle"
==============================================================================
