-------------------------- MODULE GroupCommitProofs --------------------------
(* Proofs about GroupCommit, for any threads and any objects. *)
EXTENDS GroupCommit, TLAPS

\* A queued waiter is inside its call, unanswered, and its objects are queued with it.
QueueInv ==
    \A t \in waiters :
        /\ pc[t] # "idle" /\ slot[t] = Nothing
        /\ items[t] # {} /\ items[t] \subseteq pending

\* A waiter that is owed an answer is unanswered, no longer queued, and its objects
\* are in the batch of the thread that owes it.
OwedInv ==
    \A l \in Threads : \A t \in owed[l] :
        /\ pc[l] \in {"commit", "answer"}
        /\ pc[t] # "idle" /\ slot[t] = Nothing /\ t \notin waiters
        /\ items[t] \subseteq batch[l]

\* An outcome of "ok" stands for stored objects, in the leader's hands and in a slot.
OutcomeInv ==
    /\ \A l \in Threads : pc[l] = "answer" =>
          outcome[l] # Nothing /\ (outcome[l] = "ok" => batch[l] \subseteq stored)
    /\ \A t \in Threads : slot[t] = "ok" => items[t] \subseteq stored

IInv ==
    /\ TypeOK /\ QueueInv /\ OwedInv /\ OutcomeInv
    /\ AckedStored /\ OneLeader /\ NobodyStranded /\ NoLostWakeup

------------------------------------------------------------------------------
\* group_commit keeps every variable in its type.
THEOREM TypeCorrect == Spec => []TypeOK
<1>1. Init => TypeOK
  BY DEF Init, TypeOK, Outcomes, Nothing
<1>2. TypeOK /\ [Next]_vars => TypeOK'
  <2> SUFFICES ASSUME TypeOK, [Next]_vars PROVE TypeOK'
    OBVIOUS
  <2> USE DEF TypeOK, Outcomes, Nothing
  <2>1. ASSUME NEW t \in Threads, Enqueue(t) PROVE TypeOK'
    <3>1. Submissions \subseteq SUBSET Objects
      BY DEF Submissions
    <3> QED BY <2>1, <3>1 DEF Enqueue
  <2>2. ASSUME NEW t \in Threads, TakeBatch(t) PROVE TypeOK'
    BY <2>2 DEF TakeBatch
  <2>3. ASSUME NEW t \in Threads, Resign(t) PROVE TypeOK'
    BY <2>3 DEF Resign
  <2>4. ASSUME NEW t \in Threads, CommitTxn(t) PROVE TypeOK'
    BY <2>4 DEF CommitTxn
  <2>5. ASSUME NEW t \in Threads, NEW w \in Threads, Answer(t, w) PROVE TypeOK'
    BY <2>5 DEF Answer
  <2>6. ASSUME NEW t \in Threads, NextBatch(t) PROVE TypeOK'
    BY <2>6 DEF NextBatch
  <2>7. ASSUME NEW t \in Threads, Return(t) PROVE TypeOK'
    BY <2>7 DEF Return
  <2>8. ASSUME NEW t \in Threads, Sleep(t) PROVE TypeOK'
    BY <2>8 DEF Sleep
  <2>9. ASSUME NEW t \in Threads, SpuriousWake(t) PROVE TypeOK'
    BY <2>9 DEF SpuriousWake
  <2>10. ASSUME UNCHANGED vars PROVE TypeOK'
    BY <2>10 DEF vars
  <2> QED BY <2>1, <2>2, <2>3, <2>4, <2>5, <2>6, <2>7, <2>8, <2>9, <2>10 DEF Next, Lead
<1> QED BY <1>1, <1>2, PTL DEF Spec

------------------------------------------------------------------------------
LEMMA EnqueueStep ==
    ASSUME IInv, TypeOK', ~EmptyBatches, NEW t \in Threads, Enqueue(t)
    PROVE  IInv'
<1> USE DEF TypeOK, Outcomes, Nothing
<1>1. PICK objs \in Submissions : items' = [items EXCEPT ![t] = objs] /\ pending' = pending \cup objs
  BY DEF Enqueue
<1>2. objs # {} /\ objs \subseteq Objects
  BY DEF Submissions
<1>3. /\ pc[t] = "idle" /\ waiters' = waiters \cup {t} /\ leading' = TRUE
      /\ pc' = [pc EXCEPT ![t] = IF leading THEN "wait" ELSE "lead"]
      /\ slot' = [slot EXCEPT ![t] = Nothing]
      /\ stored' = stored /\ batch' = batch /\ owed' = owed
      /\ outcome' = outcome /\ acked' = acked
  BY DEF Enqueue
<1>4. t \notin waiters /\ owed[t] = {} /\ (\A l \in Threads : t \notin owed[l])
  BY <1>3 DEF IInv, QueueInv, OwedInv
<1>5. QueueInv'
  BY <1>1, <1>2, <1>3, <1>4 DEF IInv, QueueInv
<1>6. OwedInv'
  BY <1>1, <1>3, <1>4 DEF IInv, OwedInv
<1>7. OutcomeInv'
  BY <1>1, <1>3 DEF IInv, OutcomeInv
<1>8. Leaders' = IF leading THEN Leaders ELSE {t}
  <2>1. CASE leading
    BY <1>3, <2>1 DEF Leaders
  <2>2. CASE ~leading
    <3>1. Leaders = {}
      BY <2>2 DEF IInv, OneLeader
    <3> QED BY <1>3, <2>2, <3>1 DEF Leaders
  <2> QED BY <2>1, <2>2
<1>9. OneLeader'
  BY <1>3, <1>8 DEF IInv, OneLeader
<1>10. NobodyStranded'
  <2> SUFFICES ASSUME NEW u \in Threads, pc'[u] # "idle", slot'[u] = Nothing
               PROVE  \E l \in Leaders' : u \in owed'[l] \/ u \in waiters'
    BY DEF NobodyStranded
  <2>1. CASE u = t
    BY <1>3, <1>8, <2>1 DEF IInv, OneLeader
  <2>2. CASE u # t
    <3>1. \E l \in Leaders : u \in owed[l] \/ u \in waiters
      BY <1>3, <2>2 DEF IInv, NobodyStranded
    <3> QED BY <1>3, <1>8, <3>1 DEF IInv, OneLeader
  <2> QED BY <2>1, <2>2
<1>11. NoLostWakeup' /\ AckedStored'
  BY <1>3 DEF IInv, NoLostWakeup, AckedStored
<1> QED BY <1>5, <1>6, <1>7, <1>9, <1>10, <1>11 DEF IInv

LEMMA TakeBatchStep ==
    ASSUME IInv, TypeOK', NEW t \in Threads, TakeBatch(t)
    PROVE  IInv'
<1> USE DEF TypeOK, Outcomes, Nothing
<1>1. /\ pc[t] = "lead" /\ pending' = {} /\ waiters' = {}
      /\ batch' = [batch EXCEPT ![t] = pending] /\ owed' = [owed EXCEPT ![t] = waiters]
      /\ pc' = [pc EXCEPT ![t] = "commit"]
      /\ leading' = leading /\ stored' = stored /\ items' = items /\ slot' = slot
      /\ outcome' = outcome /\ acked' = acked
  BY DEF TakeBatch
<1>2. owed[t] = {}
  BY <1>1 DEF IInv, OwedInv
<1>3. QueueInv'
  BY <1>1 DEF QueueInv
<1>4. OwedInv'
  BY <1>1, <1>2 DEF IInv, OwedInv, QueueInv
<1>5. OutcomeInv'
  BY <1>1 DEF IInv, OutcomeInv
<1>6. Leaders' = Leaders /\ t \in Leaders
  BY <1>1 DEF Leaders
<1>7. OneLeader'
  BY <1>1, <1>6 DEF IInv, OneLeader
<1>8. NobodyStranded'
  <2> SUFFICES ASSUME NEW u \in Threads, pc'[u] # "idle", slot'[u] = Nothing
               PROVE  \E l \in Leaders' : u \in owed'[l] \/ u \in waiters'
    BY DEF NobodyStranded
  <2>1. PICK l \in Leaders : u \in owed[l] \/ u \in waiters
    BY <1>1 DEF IInv, NobodyStranded
  <2>2. l = t
    BY <1>6 DEF IInv, OneLeader
  <2> QED BY <1>1, <1>2, <1>6, <2>1, <2>2
<1>9. NoLostWakeup' /\ AckedStored'
  BY <1>1 DEF IInv, NoLostWakeup, AckedStored
<1> QED BY <1>3, <1>4, <1>5, <1>7, <1>8, <1>9 DEF IInv

LEMMA ResignStep ==
    ASSUME IInv, TypeOK', NEW t \in Threads, Resign(t)
    PROVE  IInv'
<1> USE DEF TypeOK, Outcomes, Nothing
<1>1. /\ pc[t] = "lead" /\ pending = {} /\ leading' = FALSE
      /\ pc' = [pc EXCEPT ![t] = "wait"]
      /\ pending' = pending /\ waiters' = waiters /\ stored' = stored /\ items' = items
      /\ slot' = slot /\ batch' = batch /\ owed' = owed /\ outcome' = outcome
      /\ acked' = acked
  BY DEF Resign
<1>2. waiters = {} /\ owed[t] = {}
  BY <1>1 DEF IInv, QueueInv, OwedInv
<1>3. Leaders = {t} /\ Leaders' = {}
  BY <1>1 DEF IInv, OneLeader, Leaders
<1>4. QueueInv' /\ OwedInv'
  BY <1>1, <1>2 DEF IInv, QueueInv, OwedInv
<1>5. OutcomeInv'
  BY <1>1 DEF IInv, OutcomeInv
<1>6. OneLeader'
  BY <1>1, <1>3 DEF OneLeader
<1>7. NobodyStranded'
  BY <1>1, <1>2, <1>3 DEF IInv, NobodyStranded
<1>8. NoLostWakeup' /\ AckedStored'
  BY <1>1 DEF IInv, NoLostWakeup, AckedStored
<1> QED BY <1>4, <1>5, <1>6, <1>7, <1>8 DEF IInv

LEMMA CommitTxnStep ==
    ASSUME IInv, TypeOK', NEW t \in Threads, CommitTxn(t)
    PROVE  IInv'
<1> USE DEF TypeOK, Outcomes, Nothing
<1>1. /\ pc[t] = "commit" /\ pc' = [pc EXCEPT ![t] = "answer"]
      /\ pending' = pending /\ waiters' = waiters /\ leading' = leading /\ items' = items
      /\ slot' = slot /\ batch' = batch /\ owed' = owed /\ acked' = acked
  BY DEF CommitTxn
<1>2. /\ stored \subseteq stored'
      /\ \/ outcome' = [outcome EXCEPT ![t] = "ok"] /\ batch[t] \subseteq stored'
         \/ outcome' = [outcome EXCEPT ![t] = "err"]
  BY DEF CommitTxn
<1>3. QueueInv' /\ OwedInv'
  BY <1>1 DEF IInv, QueueInv, OwedInv
<1>4. OutcomeInv'
  BY <1>1, <1>2 DEF IInv, OutcomeInv
<1>5. Leaders' = Leaders
  BY <1>1 DEF Leaders
<1>6. OneLeader' /\ NobodyStranded'
  BY <1>1, <1>5 DEF IInv, OneLeader, NobodyStranded
<1>7. NoLostWakeup' /\ AckedStored'
  BY <1>1, <1>2 DEF IInv, NoLostWakeup, AckedStored
<1> QED BY <1>3, <1>4, <1>6, <1>7 DEF IInv

LEMMA AnswerStep ==
    ASSUME IInv, TypeOK', NEW t \in Threads, NEW w \in Threads, Answer(t, w)
    PROVE  IInv'
<1> USE DEF TypeOK, Outcomes, Nothing
<1>1. /\ pc[t] = "answer" /\ w \in owed[t]
      /\ slot' = [slot EXCEPT ![w] = outcome[t]]
      /\ owed' = [owed EXCEPT ![t] = owed[t] \ {w}]
      /\ pc' = [pc EXCEPT ![w] = IF pc[w] = "asleep" THEN "wait" ELSE pc[w]]
      /\ pending' = pending /\ waiters' = waiters /\ leading' = leading
      /\ stored' = stored /\ items' = items /\ batch' = batch /\ outcome' = outcome
      /\ acked' = acked
  BY DEF Answer
<1>2. Leaders' = Leaders /\ t \in Leaders
  BY <1>1 DEF Leaders
<1>3. \A l \in Threads : w \in owed[l] => l = t
  BY <1>1, <1>2 DEF IInv, OwedInv, OneLeader, Leaders
<1>4. QueueInv'
  BY <1>1 DEF IInv, QueueInv, OwedInv
<1>5. OwedInv'
  <2> SUFFICES ASSUME NEW l \in Threads, NEW u \in owed'[l]
               PROVE  /\ pc'[l] \in {"commit", "answer"}
                      /\ pc'[u] # "idle" /\ slot'[u] = Nothing /\ u \notin waiters'
                      /\ items'[u] \subseteq batch'[l]
    BY DEF OwedInv
  <2>1. u \in owed[l] /\ u # w /\ u \in Threads
    BY <1>1, <1>3
  <2> QED BY <1>1, <2>1 DEF IInv, OwedInv
<1>6. OutcomeInv'
  BY <1>1 DEF IInv, OutcomeInv, OwedInv
<1>7. OneLeader'
  BY <1>1, <1>2 DEF IInv, OneLeader
<1>8. NobodyStranded'
  <2> SUFFICES ASSUME NEW u \in Threads, pc'[u] # "idle", slot'[u] = Nothing
               PROVE  \E l \in Leaders' : u \in owed'[l] \/ u \in waiters'
    BY DEF NobodyStranded
  <2>1. outcome[t] # Nothing
    BY <1>1 DEF IInv, OutcomeInv
  <2>2. u # w /\ pc[u] # "idle" /\ slot[u] = Nothing
    BY <1>1, <2>1
  <2>3. PICK l \in Leaders : u \in owed[l] \/ u \in waiters
    BY <2>2 DEF IInv, NobodyStranded
  <2>4. u \in owed'[l] \/ u \in waiters'
    BY <1>1, <2>2, <2>3 DEF Leaders
  <2> QED BY <1>2, <2>4
<1>9. NoLostWakeup' /\ AckedStored'
  BY <1>1 DEF IInv, NoLostWakeup, AckedStored
<1> QED BY <1>4, <1>5, <1>6, <1>7, <1>8, <1>9 DEF IInv

LEMMA NextBatchStep ==
    ASSUME IInv, TypeOK', NEW t \in Threads, NextBatch(t)
    PROVE  IInv'
<1> USE DEF TypeOK, Outcomes, Nothing
<1>1. /\ pc[t] = "answer" /\ owed[t] = {} /\ pc' = [pc EXCEPT ![t] = "lead"]
      /\ pending' = pending /\ waiters' = waiters /\ leading' = leading /\ stored' = stored
      /\ items' = items /\ slot' = slot /\ batch' = batch /\ owed' = owed
      /\ outcome' = outcome /\ acked' = acked
  BY DEF NextBatch
<1>2. QueueInv' /\ OwedInv'
  BY <1>1 DEF IInv, QueueInv, OwedInv
<1>3. OutcomeInv'
  BY <1>1 DEF IInv, OutcomeInv
<1>4. Leaders' = Leaders
  BY <1>1 DEF Leaders
<1>5. OneLeader' /\ NobodyStranded'
  BY <1>1, <1>4 DEF IInv, OneLeader, NobodyStranded
<1>6. NoLostWakeup' /\ AckedStored'
  BY <1>1 DEF IInv, NoLostWakeup, AckedStored
<1> QED BY <1>2, <1>3, <1>5, <1>6 DEF IInv

LEMMA ReturnStep ==
    ASSUME IInv, TypeOK', NEW t \in Threads, Return(t)
    PROVE  IInv'
<1> USE DEF TypeOK, Outcomes, Nothing
<1>1. /\ pc[t] = "wait" /\ slot[t] # Nothing
      /\ acked' = IF slot[t] = "ok" THEN acked \cup items[t] ELSE acked
      /\ slot' = [slot EXCEPT ![t] = Nothing] /\ pc' = [pc EXCEPT ![t] = "idle"]
      /\ pending' = pending /\ waiters' = waiters /\ leading' = leading /\ stored' = stored
      /\ items' = items /\ batch' = batch /\ owed' = owed /\ outcome' = outcome
  BY DEF Return
<1>2. t \notin waiters /\ (\A l \in Threads : t \notin owed[l]) /\ owed[t] = {}
  BY <1>1 DEF IInv, QueueInv, OwedInv
<1>3. QueueInv' /\ OwedInv'
  BY <1>1, <1>2 DEF IInv, QueueInv, OwedInv
<1>4. OutcomeInv' /\ AckedStored'
  BY <1>1 DEF IInv, OutcomeInv, AckedStored
<1>5. Leaders' = Leaders
  BY <1>1 DEF Leaders
<1>6. OneLeader' /\ NobodyStranded'
  BY <1>1, <1>5 DEF IInv, OneLeader, NobodyStranded
<1>7. NoLostWakeup'
  BY <1>1 DEF IInv, NoLostWakeup
<1> QED BY <1>3, <1>4, <1>6, <1>7 DEF IInv

\* Going to sleep and waking up change nothing but the thread's own step.
LEMMA SleepStep ==
    ASSUME IInv, TypeOK', NEW t \in Threads, Sleep(t) \/ SpuriousWake(t)
    PROVE  IInv'
<1> USE DEF TypeOK, Outcomes, Nothing
<1>1. /\ pc[t] \in {"wait", "asleep"} /\ slot[t] = Nothing
      /\ \/ pc' = [pc EXCEPT ![t] = "asleep"]
         \/ pc' = [pc EXCEPT ![t] = "wait"]
      /\ pending' = pending /\ waiters' = waiters /\ leading' = leading /\ stored' = stored
      /\ items' = items /\ slot' = slot /\ batch' = batch /\ owed' = owed
      /\ outcome' = outcome /\ acked' = acked
  BY DEF Sleep, SpuriousWake, IInv, NoLostWakeup
<1>2. QueueInv' /\ OwedInv'
  BY <1>1 DEF IInv, QueueInv, OwedInv
<1>3. OutcomeInv' /\ AckedStored'
  BY <1>1 DEF IInv, OutcomeInv, AckedStored
<1>4. Leaders' = Leaders
  BY <1>1 DEF Leaders
<1>5. OneLeader' /\ NobodyStranded'
  BY <1>1, <1>4 DEF IInv, OneLeader, NobodyStranded
<1>6. NoLostWakeup'
  BY <1>1 DEF IInv, NoLostWakeup
<1> QED BY <1>2, <1>3, <1>5, <1>6 DEF IInv

------------------------------------------------------------------------------
\* The inductive invariant holds when every submission carries an object.
THEOREM Invariant ==
    ASSUME ~EmptyBatches
    PROVE  Spec => []IInv
<1>1. Init => IInv
  <2> SUFFICES ASSUME Init PROVE IInv
    OBVIOUS
  <2>1. TypeOK
    BY DEF Init, TypeOK, Outcomes, Nothing
  <2>2. QueueInv /\ OwedInv /\ OutcomeInv
    BY DEF Init, QueueInv, OwedInv, OutcomeInv, Nothing
  <2>3. Leaders = {}
    BY DEF Init, Leaders
  <2>4. AckedStored /\ OneLeader /\ NobodyStranded /\ NoLostWakeup
    BY <2>3 DEF Init, AckedStored, OneLeader, NobodyStranded, NoLostWakeup
  <2> QED BY <2>1, <2>2, <2>4 DEF IInv
<1>2. IInv /\ TypeOK' /\ [Next]_vars => IInv'
  <2> SUFFICES ASSUME IInv, TypeOK', [Next]_vars PROVE IInv'
    OBVIOUS
  <2>1. ASSUME UNCHANGED vars PROVE IInv'
    BY <2>1 DEF vars, IInv, TypeOK, QueueInv, OwedInv, OutcomeInv, AckedStored,
                OneLeader, NobodyStranded, NoLostWakeup, Leaders
  <2> QED BY <2>1, EnqueueStep, TakeBatchStep, ResignStep, CommitTxnStep, AnswerStep,
             NextBatchStep, ReturnStep, SleepStep DEF Next, Lead
<1> QED BY <1>1, <1>2, TypeCorrect, PTL DEF Spec

\* Every object of a put that returned Ok is stored.
THEOREM PutsAreStored ==
    ASSUME ~EmptyBatches
    PROVE  Spec => []AckedStored
BY Invariant, PTL DEF IInv

\* When the leader of group_commit steps down, nobody is left waiting without an answer.
THEOREM NobodyIsStranded ==
    ASSUME ~EmptyBatches
    PROVE  Spec => []NobodyStranded
BY Invariant, PTL DEF IInv

\* One thread leads at a time, and the leader flag says so.
THEOREM LeaderIsUnique ==
    ASSUME ~EmptyBatches
    PROVE  Spec => []OneLeader
BY Invariant, PTL DEF IInv

\* The leader's notification never falls between a caller's check and its wait.
THEOREM WakeupsAreKept ==
    ASSUME ~EmptyBatches
    PROVE  Spec => []NoLostWakeup
BY Invariant, PTL DEF IInv
==============================================================================
