-------------------------- MODULE ControlPlaneProofs --------------------------
(* Proofs about ControlPlane for any threads, keys, values and number of         *)
(* operations, when the callers take turns as the daemon makes them.            *)
EXTENDS ControlPlane, DataLemmas, TLAPS

Maps == [Keys -> Values \cup {Absent}]
Marks == [seq : Int, id : Nat]
Working ==
    [step : {"hold", "lookup", "range", "next", "prev", "control", "commit"}, call : Calls,
     id : Nat, seq : Nat, prev : Nat, doomed : SUBSET Seqs, mark : Marks, migrate : BOOLEAN,
     map : Maps]

TypeOK ==
    /\ control \in Maps /\ last \in Maps
    /\ audit \in [rooted : BOOLEAN, next : Nat, entries : [Seqs -> [id : Nat, prev : Nat]],
                  mark : Marks, hold : BOOLEAN]
    /\ thread \in [Threads -> {Idle} \cup Working]
    /\ calls \in Nat
    /\ answered \subseteq [seq : Nat, id : Nat] /\ deleted \subseteq Nat

Busy(t) == thread[t].step # "idle"

\* The hash the next audit record has to name.
TailHash ==
    IF audit.mark.seq = audit.next - 1 THEN audit.mark.id ELSE audit.entries[audit.next - 1].id

\* The record it belongs to has not been deleted by its key.
TailHere == audit.mark.seq = audit.next - 1 \/ audit.next - 1 \in Present

\* The log is a chain from the checkpoint to the next sequence, and there is room for the
\* records of the operations begun.
LogInv ==
    /\ -1 <= audit.mark.seq /\ audit.mark.seq < audit.next
    /\ audit.next <= calls /\ calls <= MaxCalls
    /\ audit.mark.seq = -1 => audit.mark.id = 0
    /\ \A a \in answered : a.seq < audit.next /\ (a.seq = audit.mark.seq => a.id = audit.mark.id)
    /\ \A s \in deleted : s < audit.next

\* The records an operation removes are those up to its new checkpoint, and only a prune
\* removes any.
Dooms(th) ==
    th.doomed # {} =>
        /\ th.call.kind = "prune"
        /\ th.doomed \subseteq Present
        /\ th.mark.seq \in th.doomed /\ th.mark.id = audit.entries[th.mark.seq].id
        /\ \A s \in Present : s \in th.doomed <=> s <= th.mark.seq

\* What an operation has read is still so: nobody else has had a turn.
Reads(th) ==
    /\ th.id > 0
    /\ th.step = "range" => th.call.kind = "prune"
    /\ Dooms(th)
    /\ th.step = "hold" => th.call.kind = "prune"
    /\ th.step \in {"next", "prev"} => Audited(th.call)
    /\ th.step = "lookup" => th.call.kind \in {"delete", "deleteEntry"}
    /\ th.step \in {"control", "commit"} /\ th.call.kind = "deleteEntry" => th.call.seq \in Present
    /\ th.step \in {"prev", "control", "commit"} /\ Audited(th.call) => th.seq = audit.next
    /\ th.step \in {"control", "commit"} /\ Audited(th.call) => th.prev = TailHash /\ TailHere
    /\ th.step = "commit" => th.map = Edited(th.call, control)

TurnInv ==
    \A t \in Threads : Busy(t) =>
        /\ \A u \in Threads : Busy(u) => u = t
        /\ audit.next < calls
        /\ Reads(thread[t])

IInv == TypeOK /\ LogInv /\ TurnInv /\ AuditVerifies /\ AuditsKept /\ NoLostUpdate

------------------------------------------------------------------------------
\* An idle thread is not among the working ones.
LEMMA BusyWorking ==
    ASSUME TypeOK, NEW t \in Threads
    PROVE  /\ Busy(t) => thread[t] \in Working
           /\ ~Busy(t) => thread[t] = Idle
           /\ Idle.step = "idle"
BY DEF TypeOK, Busy, Idle, Working

\* Only a write changes the control map.
LEMMA EditedMaps ==
    ASSUME NEW call \in Calls, NEW map \in Maps
    PROVE  /\ Edited(call, map) \in Maps
           /\ ~Writes(call) => Edited(call, map) = map
BY DEF Edited, Maps, Calls, Writes

\* A step of thread t that leaves the log and the maps alone and keeps what t has read
\* preserves the invariant.
LEMMA ThreadStep ==
    ASSUME IInv, NEW t \in Threads, Busy(t), NEW th \in {Idle} \cup Working,
           thread' = [thread EXCEPT ![t] = th],
           th # Idle => Reads(th),
           UNCHANGED <<control, audit, calls, last, answered, deleted>>
    PROVE  IInv'
<1>1. TypeOK' /\ LogInv' /\ AuditVerifies' /\ AuditsKept' /\ NoLostUpdate'
  BY DEF IInv, TypeOK, LogInv, AuditVerifies, AuditsKept, NoLostUpdate, Present
<1>2. thread' = [u \in Threads |-> IF u = t THEN th ELSE thread[u]]
  BY DEF IInv, TypeOK
<1>3. ASSUME NEW u \in Threads, Busy(u)'
      PROVE  u = t /\ th # Idle
  <2>1. u = t
    BY <1>2, <1>3 DEF IInv, TurnInv, Busy
  <2>2. thread'[t] = th
    BY <1>2
  <2> QED BY <2>1, <2>2, <1>3 DEF Busy, Idle
<1>4. Reads(th)' <=> Reads(th)
  BY DEF Reads, Dooms, TailHash, TailHere, Present
<1>5. TurnInv'
  BY <1>2, <1>3, <1>4 DEF IInv, TurnInv
<1> QED BY <1>1, <1>5 DEF IInv

\* A working record stays one when its fields get values of their types.
LEMMA WorkingFields ==
    ASSUME NEW th \in Working, NEW step \in {"range", "next", "prev", "control", "commit"}
    PROVE  /\ [th EXCEPT !.step = step] \in Working
           /\ \A doomed \in SUBSET Seqs, mark \in Marks :
                 [th EXCEPT !.step = step, !.doomed = doomed, !.mark = mark] \in Working
           /\ \A n \in Nat : /\ [th EXCEPT !.step = step, !.seq = n] \in Working
                             /\ [th EXCEPT !.step = step, !.prev = n] \in Working
           /\ \A map \in Maps, migrate \in BOOLEAN :
                 [th EXCEPT !.step = step, !.map = map, !.migrate = migrate] \in Working
BY DEF Working

\* A new operation takes its turn: nobody else is busy, and its record will fit.
LEMMA BeginStep ==
    ASSUME IInv, Serialized, NEW t \in Threads, Begin(t)
    PROVE  IInv'
<1>1. PICK call \in Calls : thread' = [thread EXCEPT ![t] = Start(call)]
  BY DEF Begin
<1>2. \A u \in Threads : ~Busy(u)
  BY DEF Begin, Busy
<1>b. PICK th : th = Start(call)
  OBVIOUS
<1>3. th \in Working /\ th.step # "range" /\ th.step # "commit" /\ th.step # "prev"
  <2>1. call.kind \in {"set", "setAudited", "delete", "append", "config", "prune",
                       "deleteEntry", "setHold"}
    BY DEF Calls
  <2>2. th.step \in {"hold", "lookup", "next", "control"}
    BY <1>b, <2>1 DEF Start
  <2> QED BY <1>b, <2>2 DEF IInv, TypeOK, Start, Working, NoMark, Marks, Maps
<1>4. th.doomed = {} /\ th.id > 0
  BY <1>b DEF Start, IInv, TypeOK
<1>5. /\ th.step = "control" => ~Audited(call)
      /\ th.step = "next" => Audited(call)
      /\ th.step = "hold" => call.kind = "prune"
      /\ th.step = "lookup" => call.kind \in {"delete", "deleteEntry"}
      /\ th.step = "control" => call.kind # "deleteEntry"
  <2>1. CASE call.kind = "prune"
    BY <1>b, <2>1 DEF Start
  <2>2. CASE call.kind \in {"delete", "deleteEntry"}
    BY <1>b, <2>2 DEF Start
  <2>3. CASE call.kind \notin {"prune", "delete", "deleteEntry"} /\ Audited(call)
    BY <1>b, <2>3 DEF Start
  <2>4. CASE call.kind \notin {"prune", "delete", "deleteEntry"} /\ ~Audited(call)
    BY <1>b, <2>4 DEF Start
  <2> QED BY <2>1, <2>2, <2>3, <2>4
<1>6. th.call = call
  BY <1>b DEF Start
<1>7. thread' = [u \in Threads |-> IF u = t THEN th ELSE thread[u]]
  BY <1>1, <1>b DEF IInv, TypeOK
<1>8. UNCHANGED <<control, audit, last, answered, deleted>> /\ calls' = calls + 1 /\ calls < MaxCalls
  BY DEF Begin
<1>9. TypeOK' /\ AuditVerifies' /\ AuditsKept' /\ NoLostUpdate'
  BY <1>3, <1>7, <1>8 DEF IInv, TypeOK, AuditVerifies, AuditsKept, NoLostUpdate, Present
<1>10. LogInv'
  BY <1>8, MaxCallsAssumption DEF IInv, TypeOK, LogInv
<1>11. Reads(th)'
  BY <1>3, <1>4, <1>5, <1>6 DEF Reads, Dooms, Working
<1>12. ASSUME NEW u \in Threads, Busy(u)' PROVE u = t
  BY <1>2, <1>7, <1>12 DEF Busy
<1>13. TurnInv'
  BY <1>7, <1>8, <1>10, <1>11, <1>12 DEF TurnInv, IInv, LogInv, TypeOK
<1> QED BY <1>9, <1>10, <1>13 DEF IInv

\* What is known of a thread that takes a step of its operation.
LEMMA InTurn ==
    ASSUME IInv, NEW t \in Threads, thread[t].step # "idle"
    PROVE  Busy(t) /\ thread[t] \in Working /\ Reads(thread[t])
BY BusyWorking DEF Busy, IInv, TurnInv

\* control_delete looks for the key; without it the call ends.
LEMMA LookupStep ==
    ASSUME IInv, NEW t \in Threads, Lookup(t)
    PROVE  IInv'
<1> DEFINE th == thread[t]
           new == [th EXCEPT !.step = "control"]
<1>1. th.step = "lookup" /\ Busy(t) /\ th \in Working /\ Reads(th)
  BY InTurn DEF Lookup
<1>2. new \in Working
  BY <1>1, WorkingFields
<1>3. Found(th.call) => Reads(new)
  BY <1>1 DEF Reads, Dooms, Working, Audited, Found
<1>4. \/ thread' = [thread EXCEPT ![t] = Idle]
      \/ Found(th.call) /\ thread' = [thread EXCEPT ![t] = new]
  BY DEF Lookup
<1> HIDE DEF new
<1> QED BY <1>1, <1>2, <1>3, <1>4, ThreadStep DEF Lookup

\* audit_prune_through refuses while the legal hold is on.
LEMMA CheckHoldStep ==
    ASSUME IInv, NEW t \in Threads, CheckHold(t)
    PROVE  IInv'
<1> DEFINE th == thread[t]
           new == [th EXCEPT !.step = "range"]
<1>1. th.step = "hold" /\ Busy(t) /\ th \in Working /\ Reads(th)
  BY InTurn DEF CheckHold
<1>2. new \in Working
  BY <1>1, WorkingFields
<1>3. Reads(new)
  BY <1>1 DEF Reads, Dooms, Working
<1>4. \/ thread' = [thread EXCEPT ![t] = Idle]
      \/ thread' = [thread EXCEPT ![t] = new]
  BY DEF CheckHold
<1> HIDE DEF new
<1> QED BY <1>1, <1>2, <1>3, <1>4, ThreadStep DEF CheckHold

\* append_audit_record_delta reads the next sequence.
LEMMA ReadNextStep ==
    ASSUME IInv, NEW t \in Threads, ReadNext(t)
    PROVE  IInv'
<1> DEFINE th == thread[t]
           new == [th EXCEPT !.step = "prev", !.seq = audit.next]
<1>1. th.step = "next" /\ Busy(t) /\ th \in Working /\ Reads(th)
  BY InTurn DEF ReadNext
<1>2. new \in Working
  BY <1>1, WorkingFields DEF IInv, TypeOK
<1>3. Reads(new)
  BY <1>1 DEF Reads, Dooms, Working
<1>4. thread' = [thread EXCEPT ![t] = new]
  BY DEF ReadNext
<1> HIDE DEF new
<1> QED BY <1>1, <1>2, <1>3, <1>4, ThreadStep DEF ReadNext

\* The control map is copied and the copy edited.
LEMMA ReadControlStep ==
    ASSUME IInv, NEW t \in Threads, ReadControl(t)
    PROVE  IInv'
<1> DEFINE th == thread[t]
           map == Edited(th.call, control)
           migrate == Logged(th.call) /\ ~audit.rooted
           new == [th EXCEPT !.step = "commit", !.map = map, !.migrate = migrate]
<1>1. th.step = "control" /\ Busy(t) /\ th \in Working /\ Reads(th)
  BY InTurn DEF ReadControl
<1>2. map \in Maps /\ migrate \in BOOLEAN
  BY <1>1, EditedMaps DEF Working, IInv, TypeOK
<1>4. thread' = [thread EXCEPT ![t] = new]
  BY DEF ReadControl
<1> HIDE DEF map, migrate
<1>5. new \in Working
  BY <1>1, <1>2, WorkingFields
<1>6. new.call = th.call /\ new.map = map
  BY <1>1 DEF Working
<1>7. Reads(new)
  BY <1>1, <1>6 DEF Reads, Dooms, Working, map
<1> HIDE DEF new
<1> QED BY <1>1, <1>5, <1>7, <1>4, ThreadStep DEF ReadControl

\* audit_prune_through chooses the records that go, and the new checkpoint.
LEMMA ReadRangeStep ==
    ASSUME IInv, NEW t \in Threads, ReadRange(t)
    PROVE  IInv'
<1> DEFINE th == thread[t]
           doomed == {s \in Present : audit.mark.seq < s /\ s <= thread[t].call.through}
           mark == IF doomed = {} THEN NoMark
                   ELSE [seq |-> Max(doomed), id |-> audit.entries[Max(doomed)].id]
           new == [th EXCEPT !.step = "next", !.doomed = doomed, !.mark = mark]
<1>1. th.step = "range" /\ Busy(t) /\ th \in Working /\ Reads(th)
  BY InTurn DEF ReadRange
<1>2. doomed \in SUBSET Seqs /\ doomed \in SUBSET Int
  BY MaxCallsAssumption DEF Present, Seqs
<1>3. ASSUME doomed # {} PROVE Max(doomed) \in doomed /\ \A s \in doomed : s <= Max(doomed)
  <2>1. \A s \in doomed : s <= MaxCalls - 1
    BY MaxCallsAssumption DEF Present, Seqs
  <2>2. MaxCalls - 1 \in Int
    BY MaxCallsAssumption
  <2> HIDE DEF doomed
  <2> QED BY <1>2, <1>3, <2>1, <2>2, GreatestBelow
<1>4. mark \in Marks
  <2>1. CASE doomed = {}
    BY <2>1 DEF Marks, NoMark
  <2>2. CASE doomed # {}
    <3>1. Max(doomed) \in Seqs /\ Max(doomed) \in Int
      BY <1>2, <1>3, <2>2
    <3>2. audit.entries[Max(doomed)].id \in Nat
      BY <3>1 DEF IInv, TypeOK
    <3> QED BY <2>2, <3>1, <3>2 DEF Marks
  <2> QED BY <2>1, <2>2
<1>5. ASSUME doomed # {}
      PROVE  /\ mark.seq \in doomed /\ mark.id = audit.entries[mark.seq].id
             /\ \A s \in doomed : s <= mark.seq
  BY <1>3, <1>5
<1>6. ASSUME doomed # {}, NEW s \in Present PROVE s \in doomed <=> s <= mark.seq
  <2>1. th.call \in [kind : {"prune"}, through : Seqs]
    BY <1>1 DEF Reads, Working, Calls
  <2>2. mark.seq <= th.call.through /\ th.call.through \in Int /\ mark.seq \in Int
    <3>1. mark.seq \in doomed
      BY <1>5, <1>6
    <3>2. th.call.through \in Int
      BY <2>1, MaxCallsAssumption DEF Seqs
    <3> QED BY <1>2, <3>1, <3>2
  <2>3. audit.mark.seq < s /\ s \in Int
    <3>1. s \in audit.mark.seq + 1 .. audit.next - 1
      BY <1>6 DEF IInv, AuditVerifies
    <3>2. audit.mark.seq \in Int /\ audit.next \in Int
      BY DEF IInv, TypeOK, Marks
    <3> QED BY <3>1, <3>2
  <2> QED BY <1>5, <1>6, <2>2, <2>3
<1>7. doomed \subseteq Present
  OBVIOUS
<1>8. thread' = [thread EXCEPT ![t] = new]
  BY DEF ReadRange
<1> HIDE DEF doomed, mark
<1>9. new \in Working
  BY <1>1, <1>2, <1>4, WorkingFields
<1>10. /\ new.doomed = doomed /\ new.mark = mark /\ new.step = "next"
       /\ new.call = th.call /\ new.id = th.id
  BY <1>1 DEF Working
<1> HIDE DEF new
<1>11. Reads(new)
  <2>1. th.call.kind = "prune" /\ th.id > 0
    BY <1>1 DEF Reads
  <2>2. Dooms(new)
    BY <1>5, <1>6, <1>7, <1>10, <2>1 DEF Dooms
  <2>3. Audited(new.call)
    BY <1>10, <2>1 DEF Audited
  <2> QED BY <1>10, <2>1, <2>2, <2>3 DEF Reads
<1> QED BY <1>1, <1>9, <1>11, <1>8, ThreadStep DEF ReadRange

\* The previous hash is that of the last record; it is found, in the log or in the
\* checkpoint, unless that record was deleted by its key.
LEMMA PrevIsTail ==
    ASSUME IInv, NEW th \in Working, Dooms(th), th.seq = audit.next, PrevHashes(th) # {}
    PROVE  PrevHashes(th) = {TailHash} /\ TailHere
<1> DEFINE mark == IF th.doomed = {} THEN audit.mark ELSE th.mark
<1>1. /\ audit.next \in Nat /\ audit.mark.seq \in Int
      /\ -1 <= audit.mark.seq /\ audit.mark.seq < audit.next
      /\ audit.next <= calls /\ calls <= MaxCalls /\ calls \in Nat
      /\ audit.mark.seq = -1 => audit.mark.id = 0
  BY DEF IInv, TypeOK, LogInv, Marks
<1>2. Present \subseteq audit.mark.seq + 1 .. audit.next - 1
  BY DEF IInv, AuditVerifies
<1>3. CASE audit.next = 0
  BY <1>1, <1>3 DEF PrevHashes, TailHash, TailHere
<1>4. CASE audit.next # 0 /\ audit.next - 1 \in Present \ th.doomed
  BY <1>1, <1>2, <1>4 DEF PrevHashes, TailHash, TailHere
<1>5. CASE audit.next # 0 /\ audit.next - 1 \notin Present
  <2>1. mark.seq = audit.next - 1 /\ PrevHashes(th) = {mark.id}
    BY <1>5 DEF PrevHashes
  <2>2. th.doomed = {}
    BY <1>5, <2>1 DEF Dooms
  <2> QED BY <2>1, <2>2 DEF TailHash, TailHere
<1>6. CASE audit.next # 0 /\ audit.next - 1 \in Present /\ audit.next - 1 \in th.doomed
  <2>1. th.mark.seq \in Present /\ audit.next - 1 <= th.mark.seq
        /\ th.mark.id = audit.entries[th.mark.seq].id /\ th.doomed # {}
    BY <1>6 DEF Dooms
  <2>2. th.mark.seq = audit.next - 1
    <3>1. th.mark.seq \in audit.mark.seq + 1 .. audit.next - 1
      BY <1>2, <2>1
    <3> QED BY <1>1, <2>1, <3>1
  <2>3. audit.mark.seq # audit.next - 1
    BY <1>1, <1>2, <1>6
  <2> QED BY <1>1, <1>6, <2>1, <2>2, <2>3 DEF PrevHashes, TailHash, TailHere
<1> QED BY <1>3, <1>4, <1>5, <1>6

LEMMA ReadPrevStep ==
    ASSUME IInv, NEW t \in Threads, ReadPrev(t)
    PROVE  IInv'
<1> DEFINE th == thread[t]
           new == [th EXCEPT !.step = "control", !.prev = TailHash]
<1>1. th.step = "prev" /\ Busy(t) /\ th \in Working /\ Reads(th)
  BY InTurn DEF ReadPrev
<1>2. TailHash \in Nat
  <2>1. CASE audit.mark.seq = audit.next - 1
    BY <2>1 DEF TailHash, IInv, TypeOK, Marks
  <2>2. CASE audit.mark.seq # audit.next - 1
    <3>1. audit.next - 1 \in Seqs
      <4>1. /\ audit.mark.seq \in Int /\ audit.next \in Nat /\ calls \in Nat
            /\ -1 <= audit.mark.seq /\ audit.mark.seq < audit.next
            /\ audit.next <= calls /\ calls <= MaxCalls
        BY DEF IInv, LogInv, TypeOK, Marks
      <4> QED BY <2>2, <4>1, MaxCallsAssumption DEF Seqs
    <3> QED BY <2>2, <3>1 DEF TailHash, IInv, TypeOK
  <2> QED BY <2>1, <2>2
<1>3. new \in Working
  BY <1>1, <1>2, WorkingFields
<1>4. CASE PrevHashes(th) = {}
  <2>1. thread' = [thread EXCEPT ![t] = Idle]
    BY <1>4 DEF ReadPrev
  <2> QED BY <1>1, <2>1, ThreadStep DEF ReadPrev
<1>7. CASE PrevHashes(th) # {}
  <2>1. PrevHashes(th) = {TailHash} /\ TailHere
    BY <1>1, <1>7, PrevIsTail DEF Reads
  <2>2. thread' = [thread EXCEPT ![t] = new]
    BY <2>1 DEF ReadPrev
  <2>3. Reads(new)
    BY <1>1, <2>1 DEF Reads, Dooms, Working, Audited
  <2> HIDE DEF new
  <2> QED BY <1>1, <1>3, <2>2, <2>3, ThreadStep DEF ReadPrev
<1> QED BY <1>4, <1>7

------------------------------------------------------------------------------
\* The log after a commit is the chain it was, less the records up to the new checkpoint,
\* and with one more record at its end.
LEMMA CommitLog ==
    ASSUME IInv, NEW t \in Threads, Commit(t), Audited(thread[t].call)
    PROVE  /\ audit'.mark.seq \in Int /\ audit'.next = audit.next + 1
           /\ audit.mark.seq <= audit'.mark.seq /\ audit'.mark.seq < audit'.next
           /\ audit'.mark.seq = -1 => audit'.mark.id = 0
           /\ AuditVerifies'
           /\ \A s \in Present : s <= audit'.mark.seq \/ audit'.entries[s] = audit.entries[s]
           /\ audit'.mark.seq # audit.mark.seq =>
                 audit'.mark.seq \in Present /\ audit'.mark.id = audit.entries[audit'.mark.seq].id
           /\ audit'.mark.seq = audit.mark.seq => audit'.mark = audit.mark
           /\ audit'.entries[audit.next] = [id |-> thread[t].id, prev |-> TailHash]
<1> DEFINE th == thread[t]
<1>1. th.step = "commit" /\ Busy(t) /\ th \in Working /\ Reads(th)
  BY InTurn DEF Commit
<1>2. /\ th.seq = audit.next /\ th.prev = TailHash /\ TailHere
      /\ Dooms(th) /\ th.id \in Nat /\ th.id > 0
  BY <1>1 DEF Reads, Working
<1>3. /\ audit.next \in Nat /\ audit.mark.seq \in Int
      /\ -1 <= audit.mark.seq /\ audit.mark.seq < audit.next
      /\ audit.mark.seq = -1 => audit.mark.id = 0
  BY DEF IInv, TypeOK, LogInv, Marks
<1>4. audit.next \in Seqs
  BY <1>1, <1>3, MaxCallsAssumption DEF IInv, TurnInv, LogInv, TypeOK, Seqs
<1>5. /\ audit' = AuditAfter(th) /\ deleted' = deleted
      /\ answered' = answered \cup {[seq |-> audit.next, id |-> th.id]}
  BY <1>2 DEF Commit, Audited
<1>6. /\ audit'.next = audit.next + 1
      /\ audit'.mark = IF th.doomed = {} THEN audit.mark ELSE th.mark
      /\ audit'.entries = [s \in Seqs |-> IF s = audit.next THEN [id |-> th.id, prev |-> TailHash]
                              ELSE IF s \in th.doomed THEN NoEntry ELSE audit.entries[s]]
  BY <1>2, <1>5 DEF AuditAfter, IInv, TypeOK
<1>7. /\ Present = (audit.mark.seq + 1 .. audit.next - 1) \ deleted /\ Present \subseteq Seqs
      /\ \A s \in deleted : s \in Nat /\ s < audit.next
  BY DEF IInv, AuditVerifies, Present, TypeOK, LogInv
<1>8. /\ audit'.mark.seq \in Int /\ audit.mark.seq <= audit'.mark.seq
      /\ audit'.mark.seq < audit.next
      /\ audit'.mark.seq = -1 => audit'.mark.id = 0
      /\ audit'.mark.seq # audit.mark.seq =>
            audit'.mark.seq \in Present /\ audit'.mark.id = audit.entries[audit'.mark.seq].id
      /\ audit'.mark.seq = audit.mark.seq => audit'.mark = audit.mark
      /\ \A s \in Present : s \in th.doomed <=> s <= audit'.mark.seq
  <2>1. CASE th.doomed = {}
    BY <1>3, <1>6, <1>7, <2>1
  <2>2. CASE th.doomed # {}
    <3>1. /\ th.mark.seq \in Present /\ th.mark.id = audit.entries[th.mark.seq].id
          /\ \A s \in Present : s \in th.doomed <=> s <= th.mark.seq
      BY <1>2, <2>2 DEF Dooms
    <3>2. audit'.mark = th.mark
      BY <1>6, <2>2
    <3>3. th.mark.seq \in Int /\ audit.mark.seq < th.mark.seq /\ th.mark.seq < audit.next
      BY <1>3, <1>7, <3>1
    <3> QED BY <1>3, <3>1, <3>2, <3>3
  <2> QED BY <2>1, <2>2
<1>9. audit'.entries[audit.next] = [id |-> th.id, prev |-> TailHash]
  BY <1>4, <1>6
<1>10. ASSUME NEW s \in Seqs, s # audit.next
       PROVE  audit'.entries[s] = IF s \in th.doomed THEN NoEntry ELSE audit.entries[s]
  BY <1>6, <1>10
<1>11. Present' = (audit'.mark.seq + 1 .. audit.next) \ deleted
  <2>1. ASSUME NEW s \in Seqs, s # audit.next
        PROVE  s \in Present' <=> s \in (audit'.mark.seq + 1 .. audit.next) \ deleted
    <3>1. s \in Int
      BY MaxCallsAssumption DEF Seqs
    <3>2. s \in Present' <=> s \in Present /\ s \notin th.doomed
      BY <1>10, <2>1 DEF Present
    <3>3. s \in Present <=> audit.mark.seq < s /\ s < audit.next /\ s \notin deleted
      BY <1>3, <1>7, <3>1
    <3>4. s \in Present /\ s \notin th.doomed <=> s \in Present /\ audit'.mark.seq < s
      BY <1>8, <3>1
    <3> QED BY <1>3, <1>8, <2>1, <3>1, <3>2, <3>3, <3>4
  <2>2. audit.next \in Present'
    BY <1>2, <1>4, <1>9 DEF Present, NoEntry
  <2>3. audit.next \in (audit'.mark.seq + 1 .. audit.next) \ deleted
    BY <1>3, <1>7, <1>8
  <2>4. audit'.mark.seq + 1 .. audit.next \subseteq Seqs
    BY <1>3, <1>4, <1>8, MaxCallsAssumption DEF Seqs
  <2>5. Present' \subseteq Seqs
    BY DEF Present
  <2> QED BY <2>1, <2>2, <2>3, <2>4, <2>5
<1>t. TailHash =
          IF audit.mark.seq = audit.next - 1 THEN audit.mark.id ELSE audit.entries[audit.next - 1].id
  BY DEF TailHash
<1>a. ASSUME NEW a \in answered
      PROVE  /\ a.seq \in Nat /\ a.seq < audit.next
             /\ a.seq = audit.mark.seq => a.id = audit.mark.id
             /\ a.seq \in Present => a.id = audit.entries[a.seq].id
  BY <1>3, <1>7 DEF IInv, TypeOK, LogInv, AuditsKept
<1>o. ASSUME NEW s \in Present
      PROVE  /\ s = audit.mark.seq + 1 => audit.entries[s].prev = audit.mark.id
             /\ s - 1 \in Present => audit.entries[s].prev = audit.entries[s - 1].id
             /\ \A a \in answered : a.seq = s - 1 => audit.entries[s].prev = a.id
  BY DEF IInv, AuditVerifies
<1>b. ASSUME NEW s \in Present'
      PROVE  s = audit.next \/ (s \in Present /\ audit'.entries[s] = audit.entries[s])
  <2>1. CASE s # audit.next
    <3>1. s \in Int /\ audit'.mark.seq < s /\ s < audit.next /\ s \notin deleted
      BY <1>3, <1>8, <1>11, <2>1, <1>b
    <3>2. s \in Present /\ s \notin th.doomed
      BY <1>3, <1>7, <1>8, <3>1
    <3> QED BY <1>7, <1>10, <2>1, <3>2
  <2> QED BY <2>1
<1>12. ASSUME NEW s \in Present'
       PROVE  /\ s = audit'.mark.seq + 1 => audit'.entries[s].prev = audit'.mark.id
              /\ s - 1 \in Present' => audit'.entries[s].prev = audit'.entries[s - 1].id
              /\ \A a \in answered' : a.seq = s - 1 => audit'.entries[s].prev = a.id
  <2>s. s \in Int /\ audit'.mark.seq < s /\ s <= audit.next
    BY <1>3, <1>8, <1>11
  <2>1. CASE s = audit.next
    <3>1. audit'.entries[s].prev = TailHash
      BY <1>9, <2>1
    <3>2. ASSUME s = audit'.mark.seq + 1 PROVE TailHash = audit'.mark.id
      BY <1>t, <1>3, <1>8, <2>1, <3>2
    <3>3. ASSUME s - 1 \in Present' PROVE TailHash = audit'.entries[s - 1].id
      <4>1. s - 1 \in Present /\ audit'.entries[s - 1] = audit.entries[s - 1]
        BY <1>b, <1>3, <2>1, <3>3
      <4>2. audit.mark.seq # audit.next - 1
        BY <1>3, <1>7, <2>1, <4>1
      <4> QED BY <1>t, <2>1, <4>1, <4>2
    <3>4. ASSUME NEW a \in answered', a.seq = s - 1 PROVE TailHash = a.id
      <4>1. a \in answered
        BY <1>5, <1>3, <2>1, <3>4
      <4>2. CASE audit.mark.seq = audit.next - 1
        BY <1>t, <1>a, <2>1, <3>4, <4>1, <4>2
      <4>3. CASE audit.mark.seq # audit.next - 1
        BY <1>t, <1>a, <1>2, <2>1, <3>4, <4>1, <4>3 DEF TailHere
      <4> QED BY <4>2, <4>3
    <3> QED BY <3>1, <3>2, <3>3, <3>4
  <2>2. CASE s # audit.next
    <3>1. s \in Present /\ audit'.entries[s] = audit.entries[s]
      BY <1>b, <2>2
    <3>2. ASSUME s = audit'.mark.seq + 1 PROVE audit.entries[s].prev = audit'.mark.id
      <4>1. CASE audit'.mark.seq = audit.mark.seq
        BY <1>8, <1>o, <3>1, <3>2, <4>1
      <4>2. CASE audit'.mark.seq # audit.mark.seq
        <5>1. s - 1 \in Present /\ audit'.mark.id = audit.entries[s - 1].id
          BY <1>8, <3>2, <4>2
        <5> QED BY <1>o, <3>1, <5>1
      <4> QED BY <4>1, <4>2
    <3>3. ASSUME s - 1 \in Present' PROVE audit.entries[s].prev = audit'.entries[s - 1].id
      <4>1. s - 1 # audit.next
        BY <1>3, <2>s
      <4>2. s - 1 \in Present /\ audit'.entries[s - 1] = audit.entries[s - 1]
        BY <1>b, <3>3, <4>1
      <4> QED BY <1>o, <3>1, <4>2
    <3>4. ASSUME NEW a \in answered', a.seq = s - 1 PROVE audit.entries[s].prev = a.id
      <4>1. a \in answered
        BY <1>5, <1>3, <2>s, <3>4
      <4> QED BY <1>o, <3>1, <3>4, <4>1
    <3> QED BY <3>1, <3>2, <3>3, <3>4
  <2> QED BY <2>1, <2>2
<1>13. AuditVerifies'
  <2>1. audit'.next - 1 = audit.next
    BY <1>3, <1>6
  <2> QED BY <1>5, <1>11, <1>12, <2>1 DEF AuditVerifies
<1>14. ASSUME NEW s \in Present
       PROVE  s <= audit'.mark.seq \/ audit'.entries[s] = audit.entries[s]
  BY <1>3, <1>7, <1>8, <1>10
<1>15. audit'.next = audit.next + 1 /\ audit'.mark.seq < audit'.next
  BY <1>3, <1>6, <1>8
<1> QED BY <1>8, <1>9, <1>13, <1>14, <1>15

\* A call by key removes one record or sets the hold, and leaves the rest of the log.
LEMMA EditLog ==
    ASSUME IInv, NEW t \in Threads, Commit(t), ~Audited(thread[t].call), Logged(thread[t].call)
    PROVE  /\ audit'.mark = audit.mark /\ audit'.next = audit.next /\ answered' = answered
           /\ audit' \in [rooted : BOOLEAN, next : Nat, entries : [Seqs -> [id : Nat, prev : Nat]],
                          mark : Marks, hold : BOOLEAN]
           /\ deleted' \subseteq Nat /\ \A s \in deleted' : s < audit.next
           /\ AuditVerifies' /\ AuditsKept'
<1> DEFINE th == thread[t]
           call == th.call
<1>1. th.step = "commit" /\ Busy(t) /\ th \in Working /\ Reads(th)
  BY InTurn DEF Commit
<1>2. audit' = AuditEdited(call) /\ answered' = answered
  BY DEF Commit
<1>3. /\ audit.next \in Nat /\ audit.mark.seq \in Int /\ deleted \subseteq Nat
      /\ \A s \in deleted : s < audit.next
  BY DEF IInv, TypeOK, LogInv, Marks
<1>4. /\ Present = (audit.mark.seq + 1 .. audit.next - 1) \ deleted
      /\ Present \subseteq Seqs
  BY DEF IInv, AuditVerifies, Present
<1>5. CASE call.kind = "deleteEntry"
  <2>1. call.seq \in Present /\ deleted' = deleted \cup {call.seq}
    BY <1>1, <1>5 DEF Reads, Commit
  <2>2. /\ audit'.mark = audit.mark /\ audit'.next = audit.next /\ audit'.hold = audit.hold
        /\ audit'.entries = [audit.entries EXCEPT ![call.seq] = NoEntry] /\ audit'.rooted = TRUE
        /\ audit' = [audit EXCEPT !.rooted = TRUE, !.entries = audit'.entries]
    <3>1. /\ call.kind # "setHold"
          /\ audit' = [audit EXCEPT !.rooted = TRUE,
                !.entries = [audit.entries EXCEPT ![call.seq] = NoEntry], !.hold = audit.hold]
      BY <1>2, <1>5 DEF AuditEdited, IInv, TypeOK
    <3> QED BY <3>1 DEF IInv, TypeOK
  <2>3. audit'.entries \in [Seqs -> [id : Nat, prev : Nat]]
    <3>1. audit.entries \in [Seqs -> [id : Nat, prev : Nat]]
      BY DEF IInv, TypeOK
    <3>2. NoEntry \in [id : Nat, prev : Nat]
      BY DEF NoEntry
    <3> QED BY <2>2, <3>1, <3>2
  <2>4. ASSUME NEW s \in Seqs
        PROVE  audit'.entries[s] = IF s = call.seq THEN NoEntry ELSE audit.entries[s]
    BY <2>2 DEF IInv, TypeOK
  <2>5. Present' = Present \ {call.seq}
    BY <2>4 DEF Present
  <2>6. AuditVerifies'
    <3>1. Present' = (audit'.mark.seq + 1 .. audit'.next - 1) \ deleted'
      BY <1>4, <2>1, <2>2, <2>5
    <3>2. ASSUME NEW s \in Present'
          PROVE  s \in Present /\ audit'.entries[s] = audit.entries[s]
      BY <1>4, <2>4, <2>5
    <3> QED BY <1>2, <2>2, <3>1, <3>2 DEF IInv, AuditVerifies
  <2>7. AuditsKept'
    <3> SUFFICES ASSUME NEW a \in answered
                 PROVE  a.seq <= audit.mark.seq \/ a.seq \in deleted' \/ audit'.entries[a.seq].id = a.id
      BY <1>2, <2>2 DEF AuditsKept
    <3>1. a.seq <= audit.mark.seq \/ a.seq \in deleted \/ audit.entries[a.seq].id = a.id
      BY DEF IInv, AuditsKept
    <3>2. a.seq \in Nat /\ a.seq < audit.next
      BY DEF IInv, TypeOK, LogInv
    <3>3. a.seq \in Seqs
      BY <1>3, <3>2, MaxCallsAssumption DEF IInv, LogInv, TypeOK, Seqs
    <3> QED BY <2>1, <2>4, <3>1, <3>3
  <2>8. deleted' \subseteq Nat /\ \A s \in deleted' : s < audit.next
    <3>1. call.seq \in Nat /\ call.seq < audit.next
      BY <1>3, <1>4, <2>1, MaxCallsAssumption DEF Seqs
    <3> QED BY <1>3, <2>1, <3>1
  <2>9. audit' \in [rooted : BOOLEAN, next : Nat, entries : [Seqs -> [id : Nat, prev : Nat]],
                    mark : Marks, hold : BOOLEAN]
    BY <2>2, <2>3 DEF IInv, TypeOK
  <2> QED BY <1>2, <2>2, <2>6, <2>7, <2>8, <2>9
<1>6. CASE call.kind # "deleteEntry"
  <2>1. call.kind = "setHold" /\ deleted' = deleted
    BY <1>6 DEF Logged, Commit
  <2>2. call.hold \in BOOLEAN
    BY <1>1, <2>1 DEF Working, Calls
  <2>3. audit' = [audit EXCEPT !.rooted = TRUE, !.entries = audit.entries, !.hold = call.hold]
    BY <1>2, <2>1 DEF AuditEdited, IInv, TypeOK
  <2>4. audit'.mark = audit.mark /\ audit'.next = audit.next /\ audit'.entries = audit.entries
    BY <2>3 DEF IInv, TypeOK
  <2>5. audit' \in [rooted : BOOLEAN, next : Nat, entries : [Seqs -> [id : Nat, prev : Nat]],
                    mark : Marks, hold : BOOLEAN]
    BY <2>2, <2>3 DEF IInv, TypeOK
  <2>6. AuditVerifies' /\ AuditsKept'
    BY <1>2, <2>1, <2>4 DEF IInv, AuditVerifies, AuditsKept, Present
  <2> QED BY <1>2, <1>3, <2>1, <2>4, <2>5, <2>6
<1> QED BY <1>5, <1>6

\* The transaction of an operation publishes what follows from what it read.
LEMMA CommitStep ==
    ASSUME IInv, NEW t \in Threads, Commit(t)
    PROVE  IInv'
<1> DEFINE th == thread[t]
<1>1. th.step = "commit" /\ Busy(t) /\ th \in Working /\ Reads(th)
  BY InTurn DEF Commit
<1>2. thread' = [u \in Threads |-> Idle]
  <2>1. thread' = [thread EXCEPT ![t] = Idle]
    BY DEF Commit
  <2>2. ASSUME NEW u \in Threads, u # t PROVE thread[u] = Idle
    BY <1>1, <2>2, BusyWorking DEF IInv, TurnInv
  <2> QED BY <2>1, <2>2 DEF IInv, TypeOK
<1>3. TurnInv'
  BY <1>2 DEF TurnInv, Busy, Idle
<1>4. th.map = Edited(th.call, control) /\ th.call \in Calls
  BY <1>1 DEF Reads, Working
<1>5. control' = Edited(th.call, control) /\ last' = Edited(th.call, last)
  <2>1. CASE Writes(th.call) \/ th.migrate
    BY <1>4, <2>1 DEF Commit
  <2>2. CASE ~(Writes(th.call) \/ th.migrate)
    <3>1. Edited(th.call, control) = control
      BY <1>4, <2>2, EditedMaps DEF IInv, TypeOK
    <3> QED BY <2>2, <3>1 DEF Commit
  <2> QED BY <2>1, <2>2
<1>6. NoLostUpdate' /\ control' \in Maps /\ last' \in Maps
  BY <1>4, <1>5, EditedMaps DEF IInv, NoLostUpdate, TypeOK
<1>7. calls' = calls
  BY DEF Commit
<1>10. CASE ~Audited(th.call) /\ Logged(th.call)
  <2> HIDE DEF th
  <2>1. /\ audit'.mark = audit.mark /\ audit'.next = audit.next /\ answered' = answered
        /\ audit' \in [rooted : BOOLEAN, next : Nat, entries : [Seqs -> [id : Nat, prev : Nat]],
                       mark : Marks, hold : BOOLEAN]
        /\ deleted' \subseteq Nat /\ \A s \in deleted' : s < audit.next
        /\ AuditVerifies' /\ AuditsKept'
    BY <1>10, EditLog DEF th
  <2>2. TypeOK'
    BY <1>2, <1>6, <1>7, <2>1 DEF IInv, TypeOK
  <2>3. LogInv'
    BY <1>7, <2>1 DEF IInv, LogInv
  <2> QED BY <1>3, <1>6, <2>1, <2>2, <2>3 DEF IInv
<1>8. CASE ~Audited(th.call) /\ ~Logged(th.call)
  <2>1. UNCHANGED <<audit, answered, deleted>>
    BY <1>8 DEF Commit, Logged
  <2>2. TypeOK'
    BY <1>2, <1>6, <1>7, <2>1 DEF IInv, TypeOK
  <2>3. LogInv' /\ AuditVerifies' /\ AuditsKept'
    BY <1>7, <2>1 DEF IInv, LogInv, AuditVerifies, AuditsKept, Present
  <2> QED BY <1>3, <1>6, <2>2, <2>3 DEF IInv
<1>9. CASE Audited(th.call)
  <2>1. /\ audit'.mark.seq \in Int /\ audit'.next = audit.next + 1
        /\ audit.mark.seq <= audit'.mark.seq /\ audit'.mark.seq < audit'.next
        /\ audit'.mark.seq = -1 => audit'.mark.id = 0
        /\ AuditVerifies'
        /\ \A s \in Present : s <= audit'.mark.seq \/ audit'.entries[s] = audit.entries[s]
        /\ audit'.mark.seq # audit.mark.seq =>
              audit'.mark.seq \in Present /\ audit'.mark.id = audit.entries[audit'.mark.seq].id
        /\ audit'.mark.seq = audit.mark.seq => audit'.mark = audit.mark
        /\ audit'.entries[audit.next] = [id |-> thread[t].id, prev |-> TailHash]
    BY <1>9, CommitLog
  <2>2. /\ audit' = AuditAfter(th) /\ deleted' = deleted
        /\ answered' = answered \cup {[seq |-> th.seq, id |-> th.id]}
    BY <1>9 DEF Commit, Audited
  <2>3. th.seq = audit.next
    BY <1>1, <1>9 DEF Reads
  <2>4. TypeOK'
    <3>1. NoEntry \in [id : Nat, prev : Nat]
      BY DEF NoEntry
    <3>2. th.call.kind = "config" => th.call.hold \in BOOLEAN
      BY <1>4 DEF Calls
    <3>3. audit' \in [rooted : BOOLEAN, next : Nat, entries : [Seqs -> [id : Nat, prev : Nat]],
                      mark : Marks, hold : BOOLEAN]
      <4> DEFINE entries == [s \in Seqs |->
                     IF s = th.seq THEN [id |-> th.id, prev |-> th.prev]
                     ELSE IF s \in th.doomed THEN NoEntry ELSE audit.entries[s]]
                 mark == IF th.doomed = {} THEN audit.mark ELSE th.mark
                 hold == IF th.call.kind = "config" THEN th.call.hold ELSE audit.hold
      <4>1. entries \in [Seqs -> [id : Nat, prev : Nat]] /\ th.seq + 1 \in Nat
        BY <1>1, <3>1 DEF Working, IInv, TypeOK
      <4>2. mark \in Marks
        BY <1>1 DEF Working, IInv, TypeOK
      <4>3. hold \in BOOLEAN
        BY <3>2 DEF IInv, TypeOK
      <4>4. audit' = [rooted |-> TRUE, next |-> th.seq + 1, entries |-> entries,
                      mark |-> mark, hold |-> hold]
        BY <2>2 DEF AuditAfter, IInv, TypeOK
      <4> HIDE DEF entries, mark, hold
      <4> QED BY <4>1, <4>2, <4>3, <4>4
    <3>4. answered' \subseteq [seq : Nat, id : Nat]
      BY <1>1, <2>2 DEF Working, IInv, TypeOK
    <3> QED BY <1>2, <1>6, <1>7, <2>2, <3>3, <3>4 DEF IInv, TypeOK
  <2>5. audit.next < calls /\ audit.next \in Nat /\ calls \in Nat
    BY <1>1 DEF IInv, TurnInv, TypeOK
  <2>6. ASSUME NEW a \in answered'
        PROVE  /\ a.seq < audit'.next
               /\ a.seq = audit'.mark.seq => a.id = audit'.mark.id
               /\ a.seq <= audit'.mark.seq \/ a.seq \in deleted \/ audit'.entries[a.seq].id = a.id
    <3>1. CASE a = [seq |-> audit.next, id |-> th.id]
      <4>1. audit'.mark.seq # audit.next
        <5>1. CASE audit'.mark.seq = audit.mark.seq
          BY <2>5, <5>1 DEF IInv, LogInv
        <5>2. CASE audit'.mark.seq # audit.mark.seq
          BY <2>1, <2>5, <5>2 DEF IInv, AuditVerifies, TypeOK, Marks
        <5> QED BY <5>1, <5>2
      <4> QED BY <2>1, <2>5, <3>1, <4>1
    <3>2. CASE a \in answered
      <4>1. a.seq \in Nat /\ a.seq < audit.next /\ (a.seq = audit.mark.seq => a.id = audit.mark.id)
        BY <3>2 DEF IInv, TypeOK, LogInv
      <4>2. a.seq <= audit.mark.seq \/ a.seq \in deleted \/ audit.entries[a.seq].id = a.id
        BY <3>2 DEF IInv, AuditsKept
      <4>3. audit.mark.seq \in Int /\ Present = (audit.mark.seq + 1 .. audit.next - 1) \ deleted
        BY DEF IInv, AuditVerifies, TypeOK, Marks
      <4>6. a.seq \in Present => a.id = audit.entries[a.seq].id
        BY <4>1, <4>2, <4>3, <2>5
      <4>7. a.seq = audit'.mark.seq => a.id = audit'.mark.id
        BY <2>1, <4>1, <4>6
      <4>4. CASE a.seq <= audit.mark.seq
        BY <2>1, <2>5, <4>1, <4>3, <4>4, <4>7
      <4>5. CASE ~(a.seq <= audit.mark.seq)
        <5>1. a.seq \in Present \/ a.seq \in deleted
          BY <2>5, <4>1, <4>3, <4>5
        <5> QED BY <2>1, <2>5, <4>1, <4>2, <4>5, <4>6, <4>7, <5>1
      <4> QED BY <4>4, <4>5
    <3> QED BY <2>2, <2>3, <2>6, <3>1, <3>2
  <2>7. LogInv' /\ AuditsKept'
    <3>1. audit.mark.seq \in Int /\ -1 <= audit.mark.seq /\ calls <= MaxCalls
      BY DEF IInv, LogInv, TypeOK, Marks
    <3>2. ASSUME NEW s \in deleted PROVE s < audit'.next
      <4>1. s \in Nat /\ s < audit.next
        BY DEF IInv, LogInv, TypeOK
      <4> QED BY <2>1, <2>5, <4>1
    <3> QED BY <1>7, <2>1, <2>2, <2>5, <2>6, <3>1, <3>2 DEF LogInv, AuditsKept
  <2> QED BY <1>3, <1>6, <2>1, <2>4, <2>7 DEF IInv
<1> QED BY <1>8, <1>9, <1>10

\* Every step of callers that take turns keeps the log a chain and the map up to date.
THEOREM Invariant ==
    ASSUME Serialized
    PROVE  Spec => []IInv
<1>1. Init => IInv
  <2> SUFFICES ASSUME Init PROVE IInv
    OBVIOUS
  <2> USE MaxCallsAssumption DEF Init, EmptyAudit, NoEntry, NoMark
  <2>1. TypeOK
    BY DEF TypeOK, Maps, Marks, Seqs
  <2>2. LogInv /\ AuditsKept /\ NoLostUpdate
    BY DEF LogInv, AuditsKept, NoLostUpdate
  <2>3. TurnInv
    BY DEF TurnInv, Busy, Idle
  <2>4. AuditVerifies
    <3>1. Present = {}
      BY DEF Present
    <3> QED BY <3>1 DEF AuditVerifies
  <2> QED BY <2>1, <2>2, <2>3, <2>4 DEF IInv
<1>2. IInv /\ [Next]_vars => IInv'
  <2> SUFFICES ASSUME IInv, [Next]_vars PROVE IInv'
    OBVIOUS
  <2>1. ASSUME NEW t \in Threads, Fail(t) PROVE IInv'
    <3>1. Busy(t)
      BY <2>1, InTurn DEF Fail
    <3> QED BY <2>1, <3>1, ThreadStep DEF Fail
  <2>2. CASE Restart
    <3>1. TypeOK' /\ LogInv' /\ AuditVerifies' /\ AuditsKept' /\ NoLostUpdate'
      BY <2>2 DEF Restart, IInv, TypeOK, LogInv, AuditVerifies, AuditsKept, NoLostUpdate, Present
    <3>2. TurnInv'
      BY <2>2 DEF Restart, TurnInv, Busy, Idle
    <3> QED BY <3>1, <3>2 DEF IInv
  <2>3. CASE UNCHANGED vars
    BY <2>3 DEF vars, IInv, TypeOK, LogInv, TurnInv, Busy, Reads, Dooms, TailHash, TailHere,
                AuditVerifies, AuditsKept, NoLostUpdate, Present
  <2> QED BY <2>1, <2>2, <2>3, BeginStep, LookupStep, CheckHoldStep, ReadRangeStep,
             ReadNextStep, ReadPrevStep, ReadControlStep, CommitStep DEF Next
<1> QED BY <1>1, <1>2, PTL DEF Spec

\* verify_audit_chain accepts the log after any sequence of operations, prunes, failures and
\* restarts: it has no gap, and each record names the hash of the one before it.
THEOREM ChainVerifies ==
    ASSUME Serialized
    PROVE  Spec => []AuditVerifies
BY Invariant, PTL DEF IInv

\* The record of an acknowledged audited operation stays in the log until it is pruned.
THEOREM AuditRecordsKept ==
    ASSUME Serialized
    PROVE  Spec => []AuditsKept
BY Invariant, PTL DEF IInv

\* No control_set or control_delete is undone by the publication of another key.
THEOREM UpdatesSurvive ==
    ASSUME Serialized
    PROVE  Spec => []NoLostUpdate
BY Invariant, PTL DEF IInv
==============================================================================
