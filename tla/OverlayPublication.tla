-------------------------- MODULE OverlayPublication --------------------------
(* Publication of mutable overlay records by a FileStore (loom-store lib.rs):      *)
(* workflow transactions with compare tokens and idempotency keys, puts with and    *)
(* without idempotency keys, the hot mutable commit queue with its leader, and the reopening of the    *)
(* overlay from its current records (loom-core mutable_overlay.rs).                *)
(*                                                                                 *)
(* overlay_publication (the guard) is held from the checks of a call to the queue  *)
(* (normal) or to the end of the commit (strict, relaxed, owner state); what runs   *)
(* under it is one step where no other step can come between.  The leader of the    *)
(* queue drains and commits without it.  A commit (commit_mutable_overlay_records)   *)
(* is one step, durable or failed without effect: FileStore models what is inside.   *)
(*                                                                                 *)
(* A token chains the payloads written to its key, so it is their sequence; a       *)
(* request stands for its payload, and carries its own idempotency key.             *)
EXTENDS Integers, Sequences, FiniteSets, FiniteSetsExt, SequencesExt

CONSTANTS
    Threads,      \* callers of the store
    Keys,         \* overlay keys
    Normal,       \* workflow transactions that resolve to normal durability
    Strict,       \* ... to strict durability
    Relaxed,      \* ... to relaxed durability
    OwnerState,   \* workflow transactions that carry owner state
    Puts,         \* put_mutable_overlay_values (put_mutable_overlay_tombstone) calls
    Keyed,        \* those that carry an idempotency key (put_mutable_overlay_value_idempotent)
    Guarded,      \* workflow transactions that carry an expected generation
    Targets,      \* the keys each request writes
    QueueLimit,   \* HOT_MUTABLE_QUEUE_MAX_TRANSACTIONS
    RecordLimit,  \* HOT_MUTABLE_QUEUE_MAX_RECORDS
    CommitFails,  \* whether a commit may fail
    MaxCalls,     \* bound: calls of the store
    MaxCrashes    \* bound: crashes

Workflows == Normal \cup Strict \cup Relaxed \cup OwnerState
Requests == Workflows \cup Puts

\* Requests that carry an idempotency key.
Idempotent == Workflows \cup Keyed

ASSUME TargetsAssumption == Targets \in [Requests -> SUBSET Keys]
ASSUME KeysAssumption == IsFiniteSet(Keys) /\ Keys # {}
ASSUME LimitAssumption == QueueLimit \in Nat \ {0} /\ RecordLimit \in Nat
ASSUME KindsAssumption == /\ Normal \cap (Strict \cup Relaxed \cup OwnerState \cup Puts) = {}
                          /\ Strict \cap (Relaxed \cup OwnerState \cup Puts) = {}
                          /\ Relaxed \cap (OwnerState \cup Puts) = {}
                          /\ OwnerState \cap Puts = {}
                          /\ Guarded \subseteq Workflows /\ Keyed \subseteq Puts
\* put_mutable_overlay_values gives every key a generation of its own: one key per call here.
ASSUME PutsAssumption == \A r \in Puts : \E k \in Keys : Targets[r] = {k}
ASSUME FailsAssumption == CommitFails \in BOOLEAN

None == "none"
ASSUME NoneAssumption == None \notin Threads \cup Requests

VARIABLES
    overlay,   \* mutable_overlay: its generation and the current entry of each key
    stored,    \* the current record of each key in the file
    receipts,  \* idempotency records: the compare tokens each request was committed with
    queue,     \* HotMutableCommitQueue::pending, with the waiters
    leading,   \* HotMutableCommitQueue::leader_active
    guard,     \* the thread that holds overlay_publication across steps, or None
    pending,   \* pending_workflow_idempotency, pending_mutable_idempotency: the thread that
               \* publishes a request, or None
    call,      \* the state of each thread
    calls, crashes,  \* counters for the bounds
    acked,     \* history: the tokens acknowledged for each key
    commits,   \* history: how often each request reached the file
    races      \* history: the races that have happened

vars == <<overlay, stored, receipts, queue, leading, guard, pending, call, calls, crashes,
          acked, commits, races>>

NoEntry == [gen |-> 0, token |-> <<>>]
Idle == [pc |-> "idle", req |-> None, expect |-> <<>>, gen |-> 0, before |-> <<>>,
         item |-> <<>>, batch |-> <<>>, on |-> None, outcome |-> None]

Init ==
    /\ overlay = [gen |-> 0, entries |-> [k \in Keys |-> NoEntry]]
    /\ stored = [k \in Keys |-> NoEntry]
    /\ receipts = [r \in Idempotent |-> {}]
    /\ queue = <<>> /\ leading = FALSE /\ guard = None
    /\ pending = [r \in Idempotent |-> None]
    /\ call = [t \in Threads |-> Idle]
    /\ calls = 0 /\ crashes = 0
    /\ acked = [k \in Keys |-> {}] /\ commits = [r \in Requests |-> 0] /\ races = {}

(* ---- the overlay ---- *)

\* put_entries_in_next_generation: all keys of a request, one generation.
Written(r) ==
    [gen |-> overlay.gen + 1,
     entries |-> [k \in Keys |->
         IF k \in Targets[r]
         THEN [gen |-> overlay.gen + 1, token |-> Append(overlay.entries[k].token, r)]
         ELSE overlay.entries[k]]]

\* The records of one request, with its compare tokens.
Item(t, expect, r) ==
    <<[by |-> t, req |-> r, expect |-> expect,
       entries |-> [k \in Targets[r] |-> Written(r).entries[k]]]>>

(* ---- commits ---- *)

FaultyLatest(items, k) ==
    LET writers == {i \in DOMAIN items : k \in DOMAIN items[i].entries}
    IN  IF writers = {} THEN 0 ELSE Min(writers)

\* The last item of a batch that writes k (the records are collected into one map).
Latest(items, k) == Max({0} \cup {i \in DOMAIN items : k \in DOMAIN items[i].entries})

FaultyCommit(items) ==
    /\ stored' = [k \in Keys |-> LET i == Latest(items, k)
                                 IN  IF i = 0 THEN stored[k] ELSE items[i].entries[k]]
    /\ commits' = [r \in Requests |->
            commits[r] + Cardinality({i \in DOMAIN items : items[i].req = r})]
    /\ UNCHANGED receipts

\* commit_mutable_overlay_records, commit_workflow_owner_state_records
Commit(items) ==
    /\ stored' = [k \in Keys |-> LET i == Latest(items, k)
                                 IN  IF i = 0 THEN stored[k] ELSE items[i].entries[k]]
    /\ receipts' = [r \in Idempotent |->
            LET mine == {i \in DOMAIN items : items[i].req = r}
            IN  IF mine = {} THEN receipts[r] ELSE {items[i].expect : i \in mine}]
    /\ commits' = [r \in Requests |->
            commits[r] + Cardinality({i \in DOMAIN items : items[i].req = r})]

\* A commit that fails returns before any root is adopted.
NotCommitted == UNCHANGED <<stored, receipts, commits>>

\* A commit overtakes records that were drained or queued before it.
Overtakes(t, direct) ==
    (\E u \in Threads \ {t} : call[u].batch # <<>>) \/ (direct /\ queue # <<>>)
Race(name, happened) == races' = IF happened THEN races \cup {name} ELSE races

\* Every waiter of a batch gets the outcome of its commit.
Notified(items, result) ==
    [u \in Threads |->
        IF call[u].outcome = None /\ \E i \in DOMAIN items : items[i].by = call[u].on
        THEN [call[u] EXCEPT !.outcome = result] ELSE call[u]]

Returned(c, result) == [c EXCEPT !.pc = "returned", !.outcome = result, !.on = None,
                                 !.before = <<>>, !.item = <<>>, !.batch = <<>>]
Return(t, result) == call' = [call EXCEPT ![t] = Returned(@, result)]

\* The tokens a request returns to its caller.
Acknowledge(r, expect) ==
    acked' = [k \in Keys |-> IF k \in Targets[r] THEN acked[k] \cup {Append(expect[k], r)}
                             ELSE acked[k]]

(* ---- admission: the first half of a call, under the guard ---- *)

\* open_workflow_planning_snapshot: the caller reads the tokens it will compare.
Plan(t, r) ==
    /\ call[t].pc = "idle" /\ guard = None /\ calls < MaxCalls
    /\ call' = [call EXCEPT ![t] = [Idle EXCEPT !.pc = "planned", !.req = r, !.gen = overlay.gen,
                    !.expect = [k \in Targets[r] |-> overlay.entries[k].token]]]
    /\ UNCHANGED <<overlay, stored, receipts, queue, leading, guard, pending, calls, crashes,
                   acked, commits, races>>

Submitted(t) ==
    /\ call[t].pc = "planned" /\ guard = None /\ calls < MaxCalls
    /\ calls' = calls + 1
Stale(t) == call[t].req \in Guarded /\ overlay.gen # call[t].gen
Matches(t) ==
    \A k \in Targets[call[t].req] : overlay.entries[k].token = call[t].expect[k]
Untouched == UNCHANGED <<overlay, stored, receipts, queue, leading, guard, pending, crashes,
                         commits, races>>

\* A call that is answered at once: a stale generation, the receipt of an earlier commit,
\* another request under the same idempotency key, a stale token.
Answer(t) ==
    LET r == call[t].req
        replayed == ~Stale(t) /\ call[t].expect \in receipts[r]
        refused == \/ Stale(t)
                   \/ receipts[r] # {} /\ call[t].expect \notin receipts[r]
                   \/ /\ receipts[r] = {} /\ pending[r] # None
                      /\ call[pending[r]].expect # call[t].expect
                   \/ receipts[r] = {} /\ pending[r] = None /\ ~Matches(t)
    IN
    /\ Submitted(t)
    /\ \/ replayed /\ Return(t, "ok") /\ Acknowledge(r, call[t].expect)
       \/ refused /\ Return(t, "err") /\ UNCHANGED acked
    /\ Untouched

\* The same request is being published by another call: wait for its outcome.
Join(t) ==
    LET r == call[t].req
        u == pending[r]
    IN
    /\ Submitted(t) /\ ~Stale(t) /\ receipts[r] = {}
    /\ u # None /\ call[u].expect = call[t].expect
    /\ call' = [call EXCEPT ![t].pc = "wait", ![t].on = u, ![t].outcome = call[u].outcome]
    /\ UNCHANGED acked /\ Untouched

FaultyAdmitted(t) ==
    /\ Submitted(t) /\ ~Stale(t)
    /\ pending[call[t].req] = None /\ Matches(t)

Admitted(t) ==
    /\ Submitted(t) /\ ~Stale(t) /\ receipts[call[t].req] = {}
    /\ pending[call[t].req] = None /\ Matches(t)

\* The records of a request: the entry and the owner token of each key, and the receipt.
Records(r) == 2 * Cardinality(Targets[r]) + (IF r \in Idempotent THEN 1 ELSE 0)

\* HotMutableCommitQueue::enqueue has room neither beyond its transactions nor its records.
Full(r) ==
    \/ Len(queue) >= QueueLimit
    \/ MapThenSumSet(LAMBDA i : Records(queue[i].req), DOMAIN queue) + Records(r) > RecordLimit

\* enqueue_normal_mutable_records.  A full queue fails the call with ?: the overlay keeps
\* the write.
Enqueue(t, c, r) ==
    IF Full(r)
    THEN /\ call' = [call EXCEPT ![t] = Returned(c, "err")]
         /\ UNCHANGED <<queue, leading>>
    ELSE /\ queue' = queue \o Item(t, c.expect, r)
         /\ leading' = TRUE
         /\ call' = [call EXCEPT ![t] = [c EXCEPT !.on = t, !.before = overlay,
                                                  !.pc = IF leading THEN "wait" ELSE "lead"]]

\* commit_workflow_transaction, normal durability: the guard is released once the records
\* are queued.
SubmitNormal(t) ==
    LET r == call[t].req IN
    /\ r \in Normal /\ Admitted(t)
    /\ overlay' = Written(r)
    /\ Enqueue(t, call[t], r)
    /\ pending' = IF queue' = queue THEN pending ELSE [pending EXCEPT ![r] = t]
    /\ UNCHANGED <<stored, receipts, guard, crashes, acked, commits, races>>

\* commit_workflow_transaction, other durabilities and owner state: the guard is held until
\* the records are committed; strict and owner state publish the queue first.
SubmitDirect(t) ==
    LET r == call[t].req IN
    /\ r \in Strict \cup Relaxed \cup OwnerState /\ Admitted(t)
    /\ overlay' = Written(r)
    /\ guard' = t
    /\ call' = [call EXCEPT ![t].pc = IF r \in Relaxed THEN "own" ELSE "flush",
                            ![t].before = overlay, ![t].item = Item(t, call[t].expect, r)]
    /\ UNCHANGED <<stored, receipts, queue, leading, pending, crashes, acked, commits, races>>

Called(t) ==
    /\ call[t].pc = "idle" /\ guard = None /\ calls < MaxCalls
    /\ calls' = calls + 1

\* put_mutable_overlay_values, put_mutable_overlay_tombstone: the current token is compared.
\* With an idempotency key only what was not published and is not being published is put.
PutValues(t, r) ==
    /\ Called(t)
    /\ r \in Keyed => receipts[r] = {} /\ pending[r] = None
    /\ overlay' = Written(r)
    /\ Enqueue(t, [Idle EXCEPT !.req = r,
                       !.expect = [k \in Targets[r] |-> overlay.entries[k].token]], r)
    /\ pending' = IF r \in Keyed /\ queue' # queue THEN [pending EXCEPT ![r] = t] ELSE pending
    /\ UNCHANGED <<stored, receipts, guard, crashes, acked, commits, races>>

\* put_mutable_overlay_value_idempotent of a key that has a receipt, or that another call is
\* publishing: its token, now or once that call has its outcome.
PutAgain(t, r) ==
    LET u == pending[r] IN
    /\ Called(t)
    /\ \/ \E expect \in receipts[r] :
            /\ call' = [call EXCEPT ![t] = Returned([Idle EXCEPT !.req = r, !.expect = expect], "ok")]
            /\ Acknowledge(r, expect)
       \/ /\ receipts[r] = {} /\ u # None
          /\ call' = [call EXCEPT ![t] = [Idle EXCEPT !.pc = "wait", !.req = r, !.on = u,
                           !.expect = call[u].expect, !.outcome = call[u].outcome]]
          /\ UNCHANGED acked
    /\ Untouched

\* flush_hot_mutable_commits
Flush(t) ==
    /\ Called(t)
    /\ guard' = t
    /\ call' = [call EXCEPT ![t].pc = "flush"]
    /\ UNCHANGED <<overlay, stored, receipts, queue, leading, pending, crashes, acked, commits,
                   races>>

(* ---- publication: the second half of a call ---- *)

\* The leader, or a call that flushes, takes all that is queued.
Drain(t) ==
    /\ call[t].pc \in {"lead", "flush"} /\ queue # <<>>
    /\ call' = [call EXCEPT ![t].batch = queue,
                            ![t].pc = IF @ = "lead" THEN "commit" ELSE "flushing"]
    /\ queue' = <<>>
    /\ UNCHANGED <<overlay, stored, receipts, leading, guard, pending, calls, crashes, acked,
                   commits, races>>

FaultyDrainEnds(t) ==
    /\ call[t].pc \in {"lead", "flush"} /\ queue = <<>>
    /\ call' = [call EXCEPT ![t] = IF @.pc = "lead" THEN [@ EXCEPT !.pc = "wait"]
                                   ELSE IF @.req = None THEN Idle ELSE [@ EXCEPT !.pc = "own"]]
    /\ guard' = IF call[t].req = None THEN None ELSE guard
    /\ UNCHANGED <<overlay, stored, receipts, queue, leading, pending, calls, crashes, acked,
                   commits, races>>

\* The queue is empty: no leader is active any more.
DrainEnds(t) ==
    /\ call[t].pc \in {"lead", "flush"} /\ queue = <<>>
    /\ leading' = FALSE
    /\ call' = [call EXCEPT ![t] = IF @.pc = "lead" THEN [@ EXCEPT !.pc = "wait"]
                                   ELSE IF @.req = None THEN Idle ELSE [@ EXCEPT !.pc = "own"]]
    /\ guard' = IF call[t].req = None THEN None ELSE guard
    /\ UNCHANGED <<overlay, stored, receipts, queue, pending, calls, crashes, acked, commits,
                   races>>

CommitBatch(t) ==
    /\ call[t].pc \in {"commit", "flushing"}
    /\ Commit(call[t].batch)
    /\ call' = [Notified(call[t].batch, "ok") EXCEPT ![t].batch = <<>>,
                    ![t].pc = IF call[t].pc = "commit" THEN "lead" ELSE "flush"]
    /\ Race("overtaken", Overtakes(t, FALSE))
    /\ UNCHANGED <<overlay, queue, leading, guard, pending, calls, crashes, acked>>

\* Back to the overlay of before the call, whatever other calls have written since.
Restored(t) ==
    /\ overlay' = call[t].before
    /\ Race("rolledBack", overlay.gen # call[t].before.gen + 1)

\* The commit of a batch fails.  The leader goes on; a flush ends its call, which restores
\* the overlay (strict) or not (owner state, flush).
FailBatch(t) ==
    LET after == Notified(call[t].batch, "err") IN
    /\ CommitFails
    /\ call[t].pc \in {"commit", "flushing"}
    /\ NotCommitted
    /\ IF call[t].pc = "commit"
       THEN /\ call' = [after EXCEPT ![t].batch = <<>>, ![t].pc = "lead"]
            /\ UNCHANGED <<overlay, guard, races>>
       ELSE /\ call' = [after EXCEPT ![t] = IF @.req = None THEN Idle ELSE Returned(@, "err")]
            /\ guard' = None
            /\ IF call[t].req \in Strict THEN Restored(t) ELSE UNCHANGED <<overlay, races>>
    /\ UNCHANGED <<queue, leading, pending, calls, crashes, acked>>

CommitOwn(t) ==
    /\ call[t].pc = "own"
    /\ guard' = None
    /\ \/ /\ Commit(call[t].item)
          /\ Return(t, "ok") /\ Acknowledge(call[t].req, call[t].expect)
          /\ Race("overtaken", Overtakes(t, TRUE))
          /\ UNCHANGED overlay
       \/ /\ CommitFails
          /\ NotCommitted /\ Return(t, "err") /\ Restored(t)
          /\ UNCHANGED acked
    /\ UNCHANGED <<queue, leading, pending, calls, crashes>>

\* The outcome has arrived: a request with an idempotency key takes the guard to be forgotten,
\* and a workflow transaction restores the overlay after it has released the guard.
Settle(t) ==
    LET c == call[t] IN
    /\ c.pc = "wait" /\ c.outcome # None
    /\ \/ /\ c.on = t /\ c.req \in Idempotent /\ guard = None
          /\ pending' = [pending EXCEPT ![c.req] = None]
       \/ (c.on # t \/ c.req \notin Idempotent) /\ UNCHANGED pending
    /\ IF c.outcome = "ok"
       THEN Return(t, "ok") /\ Acknowledge(c.req, c.expect)
       ELSE /\ UNCHANGED acked
            /\ IF c.on = t /\ c.req \in Normal
               THEN call' = [call EXCEPT ![t].pc = "restore"] ELSE Return(t, "err")
    /\ UNCHANGED <<overlay, stored, receipts, queue, leading, guard, calls, crashes, commits, races>>

Restore(t) ==
    /\ call[t].pc = "restore"
    /\ Restored(t) /\ Return(t, "err")
    /\ UNCHANGED <<stored, receipts, queue, leading, guard, pending, calls, crashes, acked, commits>>

(* ---- callers and crashes ---- *)

\* The caller did not get the answer, or did not like it, and sends the same request again.
Retry(t) ==
    /\ call[t].pc = "returned" /\ call[t].req \in Workflows /\ calls < MaxCalls
    /\ call' = [call EXCEPT ![t].pc = "planned", ![t].outcome = None]
    /\ UNCHANGED <<overlay, stored, receipts, queue, leading, guard, pending, calls, crashes,
                   acked, commits, races>>

Forget(t) ==
    /\ call[t].pc = "returned"
    /\ call' = [call EXCEPT ![t] = Idle]
    /\ UNCHANGED <<overlay, stored, receipts, queue, leading, guard, pending, calls, crashes,
                   acked, commits, races>>

FaultyLoaded ==
    [gen |-> Max({stored[k].gen : k \in Keys}), entries |-> [k \in Keys |-> NoEntry]]

\* load_mutable_overlay_from_storage
Loaded == [gen |-> Max({stored[k].gen : k \in Keys}), entries |-> stored]

\* The process dies and the store is opened again; callers keep the requests they had.
Crash ==
    /\ crashes < MaxCrashes /\ crashes' = crashes + 1
    /\ overlay' = Loaded
    /\ queue' = <<>> /\ leading' = FALSE /\ guard' = None
    /\ pending' = [r \in Idempotent |-> None]
    /\ call' = [t \in Threads |->
            IF call[t].req \in Workflows
            THEN [Idle EXCEPT !.pc = "planned", !.req = call[t].req, !.expect = call[t].expect,
                              !.gen = call[t].gen]
            ELSE Idle]
    /\ UNCHANGED <<stored, receipts, calls, acked, commits, races>>

\* A call goes on once it is admitted.
Proceed(t) ==
    \/ Drain(t) \/ DrainEnds(t) \/ CommitBatch(t) \/ FailBatch(t) \/ CommitOwn(t)
    \/ Settle(t) \/ Restore(t)

Enter(t) ==
    \/ \E r \in Workflows : Plan(t, r)
    \/ Answer(t) \/ Join(t) \/ SubmitNormal(t) \/ SubmitDirect(t)
    \/ \E r \in Puts : PutValues(t, r)
    \/ \E r \in Keyed : PutAgain(t, r)
    \/ Flush(t) \/ Retry(t) \/ Forget(t)

Next == Crash \/ \E t \in Threads : Enter(t) \/ Proceed(t)

Spec == Init /\ [][Next]_vars
FairSpec == Spec /\ \A t \in Threads : WF_vars(Proceed(t))

(* ---- properties ---- *)

\* A request with an idempotency key reaches the file at most once, however often and by
\* however many callers it is sent, across failed commits and crashes.
ExactlyOnce == \A r \in Idempotent : commits[r] <= 1

\* All that r returns when it is called with these compare tokens was returned before.
Acked(r, expect) ==
    Targets[r] # {} /\ \A k \in Targets[r] : Append(expect[k], r) \in acked[k]

\* A call that sends an acknowledged request of rs again, as it was, is answered with success.
Replays(rs) ==
    \A t \in Threads :
        (/\ call[t].pc = "planned" /\ call[t].req \in rs /\ Acked(call[t].req, call[t].expect)
         /\ call'[t].pc # "planned")
        => call'[t].pc = "returned" /\ call'[t].outcome = "ok"

\* A request without an expected generation that was acknowledged gets its answer again,
\* from whichever caller it is sent, whatever has been written since and across crashes ("A
\* retry with the same key and an identical write set returns the already-published commit
\* result", specs/0071).
AckedReplayed == [][Replays(Workflows \ Guarded)]_vars

\* The same of every request.  It does not hold: commit_workflow_transaction refuses an
\* expected generation as stale before it looks for the receipt.
EveryReplayed == [][Replays(Workflows)]_vars

\* The overlay in memory has every update the file has, for every key: a compare token
\* taken from it can only be stale against a write that is still on its way.
MemoryAhead ==
    "rolledBack" \notin races =>
        \A k \in Keys : IsPrefix(stored[k].token, overlay.entries[k].token)

\* Acknowledged writes are part of what the file holds for their key, unless one of the two
\* races has happened: a commit overtook an older batch, or a failed call put back an overlay
\* that others had written to since.
UpdatesKept ==
    races = {} => \A k \in Keys : \A token \in acked[k] : IsPrefix(token, stored[k].token)

\* "Recovered after process restart and after power loss" (OverlayDurabilityPolicy).
AckedKept == \A k \in Keys : \A token \in acked[k] : IsPrefix(token, stored[k].token)

\* A caller whose records are queued, or that waits for another one's, gets an outcome,
\* whoever leads, flushes or steps down meanwhile.
WaitersAnswered ==
    \A t \in Threads :
        call[t].pc = "wait" /\ call[t].outcome = None
            ~> call[t].pc # "wait" \/ call[t].outcome # None
=============================================================================
