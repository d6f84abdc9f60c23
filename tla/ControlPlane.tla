----------------------------- MODULE ControlPlane -----------------------------
(* The durable-local control plane of a FileStore: a map of control records and  *)
(* the hash-chained audit log (loom-store lib.rs).                              *)
(*                                                                              *)
(* An operation reads what it needs, each read under the inner lock on its own,  *)
(* and publishes in one transaction at the end: the control map as a whole, the  *)
(* audit log as a delta.  The transaction is one step here; FileStore models     *)
(* what is inside it.                                                           *)
(*                                                                              *)
(* The hash of an audit record is an identity of its own: records differ in      *)
(* their principal, action or target.                                           *)
EXTENDS Integers, FiniteSets, FiniteSetsExt

CONSTANTS
    Threads,     \* threads that use one FileStore
    Keys,        \* control-plane keys outside the audit log
    Values,      \* control-plane values
    Serialized,  \* whether callers take turns (the daemon's engine lock)
    MaxCalls     \* bound: operations begun

ASSUME SerializedAssumption == Serialized \in BOOLEAN
ASSUME MaxCallsAssumption == MaxCalls \in Nat

VARIABLES
    control,  \* the control map
    audit,    \* the audit log: next sequence, entries, prune checkpoint, legal hold
    thread,   \* per thread: its operation, its step and what it has read
    calls,    \* number of operations begun
    last,     \* history: per key, what the last acknowledged operation left there
    answered, \* history: audit records whose operation was acknowledged
    deleted   \* history: sequences of audit records deleted by their key

vars == <<control, audit, thread, calls, last, answered, deleted>>

Absent == "absent"
Seqs == 0 .. MaxCalls - 1
NoEntry == [id |-> 0, prev |-> 0]
NoMark == [seq |-> -1, id |-> 0]

\* rooted: audit_retention_root is set; before the first audit write the log would be
\* looked for in the control map, where a new store has none.
EmptyAudit == [rooted |-> FALSE, next |-> 0, entries |-> [s \in Seqs |-> NoEntry],
               mark |-> NoMark, hold |-> FALSE]

\* control_set, control_set_audited, control_delete, audit_append,
\* save_audit_config_audited, audit_prune_through; and control_delete of the key of an audit
\* record and control_set of the key of the audit configuration, which go straight to the log.
Calls ==
         [kind : {"set", "setAudited"}, key : Keys, value : Values]
    \cup [kind : {"delete"}, key : Keys]
    \cup [kind : {"append"}]
    \cup [kind : {"config"}, hold : BOOLEAN]
    \cup [kind : {"prune"}, through : Seqs]
    \cup [kind : {"deleteEntry"}, seq : Seqs]
    \cup [kind : {"setHold"}, hold : BOOLEAN]

Audited(call) == call.kind \in {"setAudited", "append", "config", "prune"}
\* The calls that publish an audit delta.
Logged(call) == Audited(call) \/ call.kind \in {"deleteEntry", "setHold"}
Writes(call) == call.kind \in {"set", "setAudited", "delete"}

Idle == [step |-> "idle"]

Init ==
    /\ control = [k \in Keys |-> Absent]
    /\ audit = EmptyAudit
    /\ thread = [t \in Threads |-> Idle]
    /\ calls = 0
    /\ last = control
    /\ answered = {}
    /\ deleted = {}

Start(call) ==
    [step |-> CASE call.kind = "prune" -> "hold"
                [] call.kind \in {"delete", "deleteEntry"} -> "lookup"
                [] Audited(call) -> "next" [] OTHER -> "control",
     call |-> call, id |-> calls + 1, seq |-> 0, prev |-> 0, doomed |-> {},
     mark |-> NoMark, migrate |-> FALSE, map |-> control]

FaultyBegin(t) ==
    /\ thread[t].step = "idle" /\ calls < MaxCalls
    /\ \E call \in Calls : thread' = [thread EXCEPT ![t] = Start(call)]
    /\ calls' = calls + 1
    /\ UNCHANGED <<control, audit, last, answered, deleted>>

\* with_daemon_active_store holds the engine lock for the whole operation.
Begin(t) ==
    /\ thread[t].step = "idle" /\ calls < MaxCalls
    /\ Serialized => \A u \in Threads : thread[u].step = "idle"
    /\ \E call \in Calls : thread' = [thread EXCEPT ![t] = Start(call)]
    /\ calls' = calls + 1
    /\ UNCHANGED <<control, audit, last, answered, deleted>>

Present == {s \in Seqs : audit.entries[s] # NoEntry}

Found(call) ==
    IF call.kind = "deleteEntry" THEN call.seq \in Present ELSE control[call.key] # Absent

\* control_delete: an absent key is answered without a commit.
Lookup(t) ==
    /\ thread[t].step = "lookup"
    /\ thread' = [thread EXCEPT ![t] = IF Found(thread[t].call)
                                       THEN [@ EXCEPT !.step = "control"] ELSE Idle]
    /\ UNCHANGED <<control, audit, calls, last, answered, deleted>>

\* audit_prune_through: a legal hold refuses the call.
CheckHold(t) ==
    /\ thread[t].step = "hold"
    /\ thread' = [thread EXCEPT ![t] = IF audit.hold THEN Idle ELSE [@ EXCEPT !.step = "range"]]
    /\ UNCHANGED <<control, audit, calls, last, answered, deleted>>

FaultyReadRange(t) ==
    /\ thread[t].step = "range"
    /\ LET doomed == {s \in Present : audit.mark.seq < s /\ s <= thread[t].call.through}
           mark == IF doomed = {} THEN NoMark
                   ELSE [seq |-> Min(doomed), id |-> audit.entries[Min(doomed)].id]
       IN  thread' = [thread EXCEPT ![t] =
                         [@ EXCEPT !.step = "next", !.doomed = doomed, !.mark = mark]]
    /\ UNCHANGED <<control, audit, calls, last, answered, deleted>>

\* The records between the old checkpoint and through_seq go; the last of them
\* becomes the checkpoint.
ReadRange(t) ==
    /\ thread[t].step = "range"
    /\ LET doomed == {s \in Present : audit.mark.seq < s /\ s <= thread[t].call.through}
           mark == IF doomed = {} THEN NoMark
                   ELSE [seq |-> Max(doomed), id |-> audit.entries[Max(doomed)].id]
       IN  thread' = [thread EXCEPT ![t] =
                         [@ EXCEPT !.step = "next", !.doomed = doomed, !.mark = mark]]
    /\ UNCHANGED <<control, audit, calls, last, answered, deleted>>

\* append_audit_record_delta: the next sequence, ...
ReadNext(t) ==
    /\ thread[t].step = "next"
    /\ thread' = [thread EXCEPT ![t] = [@ EXCEPT !.step = "prev", !.seq = audit.next]]
    /\ UNCHANGED <<control, audit, calls, last, answered, deleted>>

\* ... and the hash of the entry before it, from the log or, when the entry is pruned,
\* from the checkpoint; the operation's own delta is looked at first.
PrevHashes(th) ==
    LET mark == IF th.doomed = {} THEN audit.mark ELSE th.mark
    IN  IF th.seq = 0 THEN {0}
        ELSE IF th.seq - 1 \in Present \ th.doomed THEN {audit.entries[th.seq - 1].id}
        ELSE IF mark.seq = th.seq - 1 THEN {mark.id} ELSE {}

ReadPrev(t) ==
    /\ thread[t].step = "prev"
    /\ LET hashes == PrevHashes(thread[t]) IN
       thread' = [thread EXCEPT ![t] =
                     IF hashes = {} THEN Idle
                     ELSE [@ EXCEPT !.step = "control", !.prev = CHOOSE h \in hashes : TRUE]]
    /\ UNCHANGED <<control, audit, calls, last, answered, deleted>>

\* commit_control_delta_and_audit_retention: copy the control map and edit the copy.
Edited(call, map) ==
    CASE call.kind \in {"set", "setAudited"} -> [map EXCEPT ![call.key] = call.value]
      [] call.kind = "delete" -> [map EXCEPT ![call.key] = Absent]
      [] OTHER -> map

ReadControl(t) ==
    /\ thread[t].step = "control"
    /\ LET call == thread[t].call IN
       thread' = [thread EXCEPT ![t] =
                     [@ EXCEPT !.step = "commit", !.map = Edited(call, control),
                               !.migrate = Logged(call) /\ ~audit.rooted]]
    /\ UNCHANGED <<control, audit, calls, last, answered, deleted>>

FaultyAuditAfter(th) ==
    [audit EXCEPT
        !.rooted = TRUE,
        !.entries = [s \in Seqs |-> IF s = th.seq THEN [id |-> th.id, prev |-> th.prev]
                                    ELSE IF s \in th.doomed THEN NoEntry ELSE @[s]],
        !.mark = IF th.doomed = {} THEN @ ELSE th.mark,
        !.hold = IF th.call.kind = "config" THEN th.call.hold ELSE @]

\* The audit log with the delta of an audited operation applied: its record is appended.
AuditAfter(th) ==
    [audit EXCEPT
        !.rooted = TRUE,
        !.next = th.seq + 1,
        !.entries = [s \in Seqs |-> IF s = th.seq THEN [id |-> th.id, prev |-> th.prev]
                                    ELSE IF s \in th.doomed THEN NoEntry ELSE @[s]],
        !.mark = IF th.doomed = {} THEN @ ELSE th.mark,
        !.hold = IF th.call.kind = "config" THEN th.call.hold ELSE @]

\* The audit log after a call by key: neither the legal hold nor the chain is consulted, and
\* no record is appended.
AuditEdited(call) ==
    [audit EXCEPT
        !.rooted = TRUE,
        !.entries = IF call.kind = "deleteEntry" THEN [@ EXCEPT ![call.seq] = NoEntry] ELSE @,
        !.hold = IF call.kind = "setHold" THEN call.hold ELSE @]

\* The transaction.  Without a copy of the control map it keeps the committed one.
Commit(t) ==
    LET th == thread[t] IN
    /\ th.step = "commit"
    /\ ~(th.migrate /\ audit.rooted)
    /\ control' = IF Writes(th.call) \/ th.migrate THEN th.map ELSE control
    /\ audit' = IF Audited(th.call) THEN AuditAfter(th)
                ELSE IF Logged(th.call) THEN AuditEdited(th.call) ELSE audit
    /\ last' = Edited(th.call, last)
    /\ answered' = IF Audited(th.call) THEN answered \cup {[seq |-> th.seq, id |-> th.id]}
                   ELSE answered
    /\ deleted' = IF th.call.kind = "deleteEntry" THEN deleted \cup {th.call.seq} ELSE deleted
    /\ thread' = [thread EXCEPT ![t] = Idle]
    /\ UNCHANGED calls

\* The transaction fails: always when the log was activated since it was planned
\* without one, and at any time for reasons of the file.
Fail(t) ==
    /\ thread[t].step = "commit"
    /\ thread' = [thread EXCEPT ![t] = Idle]
    /\ UNCHANGED <<control, audit, calls, last, answered, deleted>>

\* The process ends and the store is opened again.
Restart ==
    /\ \E t \in Threads : thread[t].step # "idle"
    /\ thread' = [t \in Threads |-> Idle]
    /\ UNCHANGED <<control, audit, calls, last, answered, deleted>>

Next ==
    \/ \E t \in Threads : Begin(t)
    \/ \E t \in Threads : Lookup(t)
    \/ \E t \in Threads : CheckHold(t)
    \/ \E t \in Threads : ReadRange(t)
    \/ \E t \in Threads : ReadNext(t)
    \/ \E t \in Threads : ReadPrev(t)
    \/ \E t \in Threads : ReadControl(t)
    \/ \E t \in Threads : Commit(t)
    \/ \E t \in Threads : Fail(t)
    \/ Restart

Spec == Init /\ [][Next]_vars

------------------------------------------------------------------------------
\* verify_audit_chain accepts the log, but for the records deleted by their key: the entries
\* follow the prune checkpoint without another gap up to the next sequence, and each names
\* the hash of the checkpoint or of the entry before it.  A record that is gone is still the
\* one its successor names: nothing is appended behind it under another hash.
AuditVerifies ==
    /\ Present = (audit.mark.seq + 1 .. audit.next - 1) \ deleted
    /\ \A s \in Present :
          /\ s = audit.mark.seq + 1 => audit.entries[s].prev = audit.mark.id
          /\ s - 1 \in Present => audit.entries[s].prev = audit.entries[s - 1].id
          /\ \A a \in answered : a.seq = s - 1 => audit.entries[s].prev = a.id

\* The record of every acknowledged audited operation is in the log under the sequence
\* its caller was given, or was pruned or deleted by its key: no append overwrites another
\* one's record.
AuditsKept ==
    \A a \in answered :
        a.seq <= audit.mark.seq \/ a.seq \in deleted \/ audit.entries[a.seq].id = a.id

\* Every key holds what the last acknowledged control_set or control_delete of that key
\* left there: publishing a whole map never undoes the update of another key.
NoLostUpdate == control = last
==============================================================================
