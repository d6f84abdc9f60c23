---------------------------- MODULE OverlayProofs ----------------------------
(* Proofs about OverlayPublication for any callers, keys, requests, queue limit   *)
(* and number of calls, failed commits and crashes.                             *)
EXTENDS OverlayPublication, DataLemmas, SequenceTheorems, TLAPS

(* ---- types ---- *)

Direct == Strict \cup Relaxed \cup OwnerState
Tokens == Seq(Requests)
Entry == [gen : Nat, token : Tokens]
Overlays == [gen : Nat, entries : [Keys -> Entry]]
Expects == UNION {[Targets[r] -> Tokens] : r \in Requests}
Items ==
    {it \in [by : Threads, req : Requests, expect : Expects,
             entries : UNION {[Targets[r] -> Entry] : r \in Requests}] :
        /\ it.expect \in [Targets[it.req] -> Tokens]
        /\ it.entries \in [Targets[it.req] -> Entry]
        /\ \A k \in Targets[it.req] : it.entries[k].token = Append(it.expect[k], it.req)}
Fields == {"pc", "req", "expect", "gen", "before", "item", "batch", "on", "outcome"}

\* A call has what its step needs.
CallOK(t, c) ==
    /\ DOMAIN c = Fields /\ c.gen \in Nat
    /\ c.batch \in Seq(Items) /\ c.req \in Requests \cup {None}
    /\ c.on \in Threads \cup {None} /\ c.outcome \in {None, "ok", "err"}
    /\ c.req # None => c.expect \in [Targets[c.req] -> Tokens]
    /\ c.pc \notin {"commit", "flushing"} => c.batch = <<>>
    /\ \/ c.pc = "idle" /\ c = Idle
       \/ c.pc = "planned" /\ c.req \in Workflows /\ c.on = None /\ c.outcome = None
       \/ /\ c.pc \in {"lead", "commit", "wait"} /\ c.on = t /\ c.req \in Normal \cup Puts
          /\ c.before \in Overlays
       \/ c.pc = "wait" /\ c.on \in Threads \ {t} /\ c.req \in Idempotent
       \/ c.pc \in {"flush", "flushing"} /\ c.req = None /\ c.on = None /\ c.outcome = None
       \/ /\ c.pc \in {"flush", "flushing", "own"} /\ c.req \in Direct /\ c.on = None
          /\ c.outcome = None /\ c.before \in Overlays
          /\ Len(c.item) = 1 /\ c.item \in Seq(Items)
          /\ c.item[1].by = t /\ c.item[1].req = c.req /\ c.item[1].expect = c.expect
       \/ /\ c.pc = "restore" /\ c.req \in Normal /\ c.on = t /\ c.outcome = "err"
          /\ c.before \in Overlays
       \/ /\ c.pc = "returned" /\ c.req \in Requests /\ c.on = None
          /\ c.outcome \in {"ok", "err"}

TypeOK ==
    /\ overlay \in Overlays /\ stored \in [Keys -> Entry]
    /\ DOMAIN receipts = Idempotent
    /\ \A r \in Idempotent : \A expect \in receipts[r] : expect \in [Targets[r] -> Tokens]
    /\ queue \in Seq(Items)
    /\ guard \in Threads \cup {None}
    /\ pending \in [Idempotent -> Threads \cup {None}]
    /\ DOMAIN call = Threads /\ \A t \in Threads : CallOK(t, call[t])
    /\ acked \in [Keys -> SUBSET Tokens] /\ commits \in [Requests -> Nat]

(* ---- who publishes what ---- *)

\* The queue, and the batches taken from it.
Places == Threads \cup {None}
Line(p) == IF p = None THEN queue ELSE call[p].batch

\* t publishes its request through the queue, and has no outcome yet.
Publishing(t) == call[t].pc \in {"lead", "commit", "wait"} /\ call[t].on = t
Open(t) == Publishing(t) /\ call[t].outcome = None

\* An item on its way belongs to a call that waits for it.
ItemOK(it) ==
    /\ Open(it.by) /\ call[it.by].req = it.req /\ call[it.by].expect = it.expect
    /\ it.req \in Idempotent => receipts[it.req] = {}
LineInv == \A p \in Places : \A i \in DOMAIN Line(p) : ItemOK(Line(p)[i])

\* A call has at most one item on its way.
OnceInv ==
    \A p, q \in Places : \A i \in DOMAIN Line(p), j \in DOMAIN Line(q) :
        Line(p)[i].by = Line(q)[j].by => p = q /\ i = j

\* A direct call holds the guard, and its request is neither published nor pending.
Held(t) == call[t].pc \in {"flush", "flushing", "own"}
HeldInv ==
    \A t \in Threads : Held(t) =>
        /\ guard = t
        /\ call[t].req # None => receipts[call[t].req] = {} /\ pending[call[t].req] = None

\* A call that joined another has its outcome when the other has.
JoinInv ==
    \A t \in Threads :
        call[t].pc = "wait" /\ call[t].on # t /\ call[t].outcome = None =>
            /\ Open(call[t].on)
            /\ call[call[t].on].req = call[t].req /\ call[call[t].on].expect = call[t].expect

\* A request with an idempotency key is registered while it is published.
PendingInv ==
    \A t \in Threads : \A r \in Idempotent :
        pending[r] = t <=> Publishing(t) /\ call[t].req = r

\* Receipts say which requests reached the file, and an outcome of "ok" or an acknowledgement
\* has its receipt.
CountInv == \A r \in Idempotent : commits[r] = IF receipts[r] = {} THEN 0 ELSE 1
OkInv ==
    \A t \in Threads :
        call[t].pc \in {"lead", "commit", "wait"} /\ call[t].outcome = "ok" =>
            (call[t].req \in Idempotent => receipts[call[t].req] # {})
AckInv ==
    \A k \in Keys : \A token \in acked[k] :
        /\ token # <<>>
        /\ token[Len(token)] \in Idempotent => receipts[token[Len(token)]] # {}

Inv ==
    /\ TypeOK /\ LineInv /\ OnceInv /\ HeldInv /\ JoinInv /\ PendingInv
    /\ CountInv /\ OkInv /\ AckInv

(* ---- what the records hold ---- *)

\* The record e of key k, of the call of thread by, is part of the overlay, and of what any
\* other call would restore unless it was written after that call.
Undoable(t) ==
    /\ call[t].pc \in {"lead", "commit", "wait", "flush", "flushing", "own", "restore"}
    /\ call[t].req # None /\ call[t].outcome # "ok"
    /\ call[t].pc = "wait" => call[t].on = t
Apart(t, k, e) ==
    \/ e.gen <= call[t].before.gen /\ IsPrefix(e.token, call[t].before.entries[k].token)
    \/ e.gen > call[t].before.gen + 1
RecordOK(k, e, by) ==
    /\ IsPrefix(e.token, overlay.entries[k].token) /\ e.gen <= overlay.gen
    /\ \A t \in Threads \ {by} : Undoable(t) => Apart(t, k, e)
DirectItem(t) == Held(t) /\ call[t].req # None
RecordInv ==
    /\ \A k \in Keys : RecordOK(k, stored[k], None)
    /\ \A p \in Places : \A i \in DOMAIN Line(p) : LET it == Line(p)[i] IN
          \A k \in Targets[it.req] : RecordOK(k, it.entries[k], it.by)
    /\ \A t \in Threads : DirectItem(t) =>
          \A k \in Targets[call[t].req] : RecordOK(k, call[t].item[1].entries[k], t)
UndoInv ==
    /\ \A t \in Threads : Undoable(t) => call[t].before.gen < overlay.gen
    /\ \A t, u \in Threads : Undoable(t) /\ Undoable(u) /\ t # u =>
          call[t].before.gen # call[u].before.gen

\* The records of a key are queued in the order of their tokens: those drained, those in
\* the queue, that of a direct call.
OrderInv ==
    /\ \A p \in Places : \A i, j \in DOMAIN Line(p) : i < j =>
          \A k \in Targets[Line(p)[i].req] \cap Targets[Line(p)[j].req] :
             IsPrefix(Line(p)[i].entries[k].token, Line(p)[j].entries[k].token)
    /\ \A t \in Threads : \A i \in DOMAIN call[t].batch, j \in DOMAIN queue :
          \A k \in Targets[call[t].batch[i].req] \cap Targets[queue[j].req] :
             IsPrefix(call[t].batch[i].entries[k].token, queue[j].entries[k].token)
    /\ \A t \in Threads, p \in Places : DirectItem(t) =>
          \A i \in DOMAIN Line(p) : \A k \in Targets[Line(p)[i].req] \cap Targets[call[t].req] :
             IsPrefix(Line(p)[i].entries[k].token, call[t].item[1].entries[k].token)

RollInv == "rolledBack" \notin races => RecordInv /\ UndoInv /\ OrderInv

\* The file is behind the records on their way, and has what was acknowledged or will be.
AheadInv ==
    /\ \A p \in Places : \A i \in DOMAIN Line(p) : \A k \in Targets[Line(p)[i].req] :
          IsPrefix(stored[k].token, Line(p)[i].entries[k].token)
    /\ \A t \in Threads : DirectItem(t) => \A k \in Targets[call[t].req] :
          IsPrefix(stored[k].token, call[t].item[1].entries[k].token)
InFile(expect, r) == \A k \in Targets[r] : IsPrefix(Append(expect[k], r), stored[k].token)
ReceiptInv == \A r \in Idempotent : \A expect \in receipts[r] : InFile(expect, r)
OkCall(t) == call[t].pc \in {"lead", "commit", "wait"} /\ call[t].outcome = "ok"
DoneInv == \A t \in Threads : OkCall(t) => InFile(call[t].expect, call[t].req)

Kept == AheadInv /\ ReceiptInv /\ DoneInv /\ AckedKept
KeptInv == races = {} => Kept

\* A request has one receipt, and whatever succeeded or was acknowledged has it for the compare
\* tokens it was sent with.
ReplayInv ==
    /\ \A r \in Idempotent : \A d, e \in receipts[r] : d = e
    /\ \A t \in Threads : OkCall(t) /\ call[t].req \in Idempotent =>
          call[t].expect \in receipts[call[t].req]
    /\ \A k \in Keys : \A token \in acked[k] : token[Len(token)] \in Idempotent =>
          /\ k \in Targets[token[Len(token)]]
          /\ \E e \in receipts[token[Len(token)]] : token = Append(e[k], token[Len(token)])

------------------------------------------------------------------------------
(* ---- sequences ---- *)

\* A prefix, element by element.
LEMMA PrefixIs ==
    ASSUME NEW S, NEW s \in Seq(S), NEW u \in Seq(S)
    PROVE  IsPrefix(s, u) <=> Len(s) <= Len(u) /\ \A i \in 1 .. Len(s) : s[i] = u[i]
<1>1. Len(s) \in Nat /\ Len(u) \in Nat /\ SubSeq(s, 1, Len(s)) = s
  BY LenProperties, SubSeqFull
<1>2. ASSUME Len(s) <= Len(u)
      PROVE  /\ SubSeq(u, 1, Len(s)) \in Seq(S) /\ Len(SubSeq(u, 1, Len(s))) = Len(s)
             /\ \A i \in 1 .. Len(s) : SubSeq(u, 1, Len(s))[i] = u[i]
  <2>1. \A i \in 1 .. Len(s) : u[i] \in S
    BY <1>1, <1>2
  <2>2. /\ SubSeq(u, 1, Len(s)) \in Seq(S)
        /\ Len(SubSeq(u, 1, Len(s))) = IF 1 <= Len(s) THEN Len(s) - 1 + 1 ELSE 0
        /\ \A i \in 1 .. Len(s) - 1 + 1 : SubSeq(u, 1, Len(s))[i] = u[1 + i - 1]
    BY <1>1, <2>1, SubSeqProperties
  <2> QED BY <1>1, <2>2
<1>3. ASSUME Len(s) <= Len(u)
      PROVE  s = SubSeq(u, 1, Len(s)) <=> \A i \in 1 .. Len(s) : s[i] = u[i]
  BY <1>2, <1>3, SeqEqual
<1> QED BY <1>1, <1>3 DEF IsPrefix

LEMMA PrefixSelf ==
    ASSUME NEW S, NEW s \in Seq(S)
    PROVE  IsPrefix(s, s)
<1>1. Len(s) \in Nat
  BY LenProperties
<1> QED BY <1>1, PrefixIs

LEMMA PrefixTrans ==
    ASSUME NEW S, NEW s \in Seq(S), NEW u \in Seq(S), NEW v \in Seq(S),
           IsPrefix(s, u), IsPrefix(u, v)
    PROVE  IsPrefix(s, v)
<1>1. Len(s) \in Nat /\ Len(u) \in Nat /\ Len(v) \in Nat
  BY LenProperties
<1>2. Len(s) <= Len(u) /\ \A i \in 1 .. Len(s) : s[i] = u[i]
  BY PrefixIs
<1>3. Len(u) <= Len(v) /\ \A i \in 1 .. Len(u) : u[i] = v[i]
  BY PrefixIs
<1>4. \A i \in 1 .. Len(s) : s[i] = v[i]
  BY <1>1, <1>2, <1>3
<1>5. Len(s) <= Len(v)
  BY <1>1, <1>2, <1>3
<1> QED BY <1>4, <1>5, PrefixIs

LEMMA PrefixAppend ==
    ASSUME NEW S, NEW s \in Seq(S), NEW u \in Seq(S), NEW x \in S, IsPrefix(s, u)
    PROVE  IsPrefix(s, Append(u, x)) /\ Append(u, x) \in Seq(S)
<1>1. Len(s) \in Nat /\ Len(u) \in Nat
  BY LenProperties
<1>2. Len(s) <= Len(u) /\ \A i \in 1 .. Len(s) : s[i] = u[i]
  BY PrefixIs
<1>3. Append(u, x) \in Seq(S) /\ Len(Append(u, x)) = Len(u) + 1
      /\ \A i \in 1 .. Len(u) : Append(u, x)[i] = u[i]
  OBVIOUS
<1>4. PICK a : a = Append(u, x)
  OBVIOUS
<1>5. a \in Seq(S) /\ Len(s) <= Len(a) /\ \A i \in 1 .. Len(s) : s[i] = a[i]
  BY <1>1, <1>2, <1>3, <1>4
<1>6. IsPrefix(s, a)
  BY <1>5, PrefixIs
<1> QED BY <1>4, <1>5, <1>6

LEMMA AppendLast ==
    ASSUME NEW S, NEW s \in Seq(S), NEW x \in S
    PROVE  /\ Append(s, x) \in Seq(S) /\ Append(s, x) # <<>>
           /\ Append(s, x)[Len(Append(s, x))] = x
<1>1. Len(s) \in Nat /\ Len(Append(s, x)) = Len(s) + 1 /\ Append(s, x)[Len(s) + 1] = x
  BY LenProperties
<1>2. Append(s, x) \in Seq(S) /\ Len(Append(s, x)) # 0
  BY <1>1
<1>3. ASSUME Append(s, x) = <<>> PROVE FALSE
  <2>1. Len(Append(s, x)) = Len(<<>>)
    BY <1>3
  <2> QED BY <1>1, <2>1
<1>4. Append(s, x)[Len(Append(s, x))] = x
  BY <1>1
<1> QED BY <1>2, <1>3, <1>4

(* ---- calls ---- *)

\* The kinds of requests are apart, and None is no request and no thread.
LEMMA Kinds ==
    /\ \A r \in Requests : r # None
    /\ \A t \in Threads : t # None
    /\ Normal \subseteq Workflows /\ Direct \subseteq Workflows /\ Keyed \subseteq Puts
    /\ Workflows \subseteq Idempotent /\ Idempotent \subseteq Requests
    /\ Normal \subseteq Requests /\ Direct \subseteq Requests /\ Puts \subseteq Requests
    /\ Normal \cap Direct = {} /\ Puts \cap Workflows = {}
BY KindsAssumption, NoneAssumption DEF Workflows, Requests, Idempotent, Direct

LEMMA IdleOK == ASSUME NEW t PROVE CallOK(t, Idle)
<1>1. <<>> \in Seq(Items)
  BY EmptySeq
<1> QED BY <1>1 DEF CallOK, Idle, Fields

\* What a step of a call keeps of the rest.  The call of t becomes c with the same batch;
\* when its item is on its way it stays so.
Follows(t, c) ==
    /\ CallOK(t, c)
    /\ Open(t) => /\ c.pc \in {"lead", "commit", "wait"} /\ c.on = t /\ c.outcome = None
                  /\ c.req = call[t].req /\ c.expect = call[t].expect
    /\ c.pc = "wait" /\ c.on # t /\ c.outcome = None =>
          Open(c.on) /\ call[c.on].req = c.req /\ call[c.on].expect = c.expect
    /\ c.pc \in {"lead", "commit", "wait"} /\ c.outcome = "ok" /\ c.req \in Idempotent =>
          receipts[c.req] # {}
Succeeds(t, c) == Follows(t, c) /\ c.batch = call[t].batch

LEMMA StaysOpen ==
    ASSUME Inv, NEW t \in Threads, NEW c, Follows(t, c), call' = [call EXCEPT ![t] = c],
           NEW u \in Threads, Open(u)
    PROVE  Open(u)' /\ call'[u].req = call[u].req /\ call'[u].expect = call[u].expect
<1>1. call' = [v \in Threads |-> IF v = t THEN c ELSE call[v]]
  BY DEF Inv, TypeOK
<1> QED BY <1>1 DEF Open, Publishing, Follows

LEMMA FollowStep ==
    ASSUME Inv, NEW t \in Threads, NEW c, Follows(t, c),
           call' = [call EXCEPT ![t] = c], UNCHANGED <<receipts, commits>>,
           overlay' \in Overlays, stored' \in [Keys -> Entry], queue' \in Seq(Items),
           guard' \in Threads \cup {None}, pending' \in [Idempotent -> Threads \cup {None}],
           acked' \in [Keys -> SUBSET Tokens], LineInv', OnceInv', HeldInv', PendingInv', AckInv'
    PROVE  Inv'
<1>1. call' = [u \in Threads |-> IF u = t THEN c ELSE call[u]]
  BY DEF Inv, TypeOK
<1>2. TypeOK'
  <2>1. \A u \in Threads : CallOK(u, call'[u])
    BY <1>1 DEF Inv, TypeOK, Follows
  <2> QED BY <1>1, <2>1 DEF Inv, TypeOK
<1>7. JoinInv'
  <2> SUFFICES ASSUME NEW u \in Threads, call'[u].pc = "wait", call'[u].on # u,
                      call'[u].outcome = None
               PROVE  /\ Open(call[u].on)' /\ call'[call'[u].on].req = call'[u].req
                      /\ call'[call'[u].on].expect = call'[u].expect
    BY DEF JoinInv
  <2>1. call'[u].on \in Threads
    BY <1>2 DEF TypeOK, CallOK, Idle
  <2>2. /\ Open(call'[u].on) /\ call[call'[u].on].req = call'[u].req
        /\ call[call'[u].on].expect = call'[u].expect
    <3>1. CASE u = t
      BY <1>1, <3>1 DEF Follows
    <3>2. CASE u # t
      BY <1>1, <3>2 DEF Inv, JoinInv
    <3> QED BY <3>1, <3>2
  <2> QED BY <2>1, <2>2, StaysOpen
<1>8. CountInv' /\ OkInv'
  BY <1>1 DEF Inv, CountInv, OkInv, Follows
<1> QED BY <1>2, <1>7, <1>8 DEF Inv

\* An item on its way is one.
LEMMA LineTyped ==
    ASSUME Inv, NEW p \in Places
    PROVE  /\ Line(p) \in Seq(Items)
           /\ \A i \in DOMAIN Line(p) : /\ Line(p)[i] \in Items /\ ItemOK(Line(p)[i])
                                       /\ Line(p)[i].by \in Threads /\ Line(p)[i].req \in Requests
<1>1. Line(p) \in Seq(Items)
  BY DEF Line, Places, Inv, TypeOK, CallOK
<1>2. ASSUME NEW i \in DOMAIN Line(p)
      PROVE  /\ Line(p)[i] \in Items /\ ItemOK(Line(p)[i])
             /\ Line(p)[i].by \in Threads /\ Line(p)[i].req \in Requests
  <2>1. Line(p)[i] \in Items
    BY <1>1
  <2> QED BY <2>1 DEF Inv, LineInv, Items
<1> QED BY <1>1, <1>2

LEMMA CallStep ==
    ASSUME Inv, NEW t \in Threads, NEW c, Succeeds(t, c),
           call' = [call EXCEPT ![t] = c], UNCHANGED <<queue, receipts, commits>>,
           overlay' \in Overlays, stored' \in [Keys -> Entry],
           guard' \in Threads \cup {None}, pending' \in [Idempotent -> Threads \cup {None}],
           acked' \in [Keys -> SUBSET Tokens], HeldInv', PendingInv', AckInv'
    PROVE  Inv'
<1>1. call' = [u \in Threads |-> IF u = t THEN c ELSE call[u]]
  BY DEF Inv, TypeOK
<1>2. \A p \in Places : Line(p)' = Line(p)
  BY <1>1 DEF Line, Places, Succeeds
<1>3. LineInv'
  <2> SUFFICES ASSUME NEW p \in Places, NEW i \in DOMAIN Line(p) PROVE ItemOK(Line(p)[i])'
    BY <1>2 DEF LineInv
  <2>1. ItemOK(Line(p)[i]) /\ Line(p)[i].by \in Threads
    BY LineTyped
  <2>2. PICK u \in Threads : u = Line(p)[i].by
    BY <2>1
  <2>3. Open(u)' /\ call'[u].req = call[u].req /\ call'[u].expect = call[u].expect
    BY <2>1, <2>2, StaysOpen DEF ItemOK, Succeeds
  <2> QED BY <1>2, <2>1, <2>2, <2>3 DEF ItemOK
<1>4. OnceInv'
  BY <1>2 DEF Inv, OnceInv
<1> QED BY <1>3, <1>4, FollowStep DEF Succeeds, Inv, TypeOK

\* The call of t goes on without entering or leaving the queue or the guard.
LEMMA QuietStep ==
    ASSUME Inv, NEW t \in Threads, NEW c, Succeeds(t, c), call' = [call EXCEPT ![t] = c],
           Publishing(t) <=> c.pc \in {"lead", "commit", "wait"} /\ c.on = t,
           Publishing(t) => c.req = call[t].req,
           ~Held(t), c.pc \notin {"flush", "flushing", "own"},
           UNCHANGED <<stored, receipts, queue, guard, pending, commits>>,
           overlay' \in Overlays, acked' \in [Keys -> SUBSET Tokens], AckInv'
    PROVE  Inv'
<1>1. call' = [u \in Threads |-> IF u = t THEN c ELSE call[u]]
  BY DEF Inv, TypeOK
<1>2. HeldInv'
  BY <1>1 DEF Inv, HeldInv, Held
<1>3. \A u \in Threads : /\ Publishing(u)' <=> Publishing(u)
                         /\ Publishing(u) => call'[u].req = call[u].req
  BY <1>1 DEF Publishing
<1>4. PendingInv'
  BY <1>3 DEF Inv, PendingInv
<1> QED BY <1>2, <1>4, CallStep DEF Inv, TypeOK

\* Acknowledging a request that has its receipt, or no idempotency key.
LEMMA Acknowledged ==
    ASSUME Inv, NEW r \in Requests, NEW expect \in [Targets[r] -> Tokens],
           r \in Idempotent => receipts[r] # {}, UNCHANGED receipts,
           Acknowledge(r, expect) \/ UNCHANGED acked
    PROVE  acked' \in [Keys -> SUBSET Tokens] /\ AckInv'
<1>1. CASE UNCHANGED acked
  BY <1>1 DEF Inv, TypeOK, AckInv
<1>2. CASE Acknowledge(r, expect)
  <2>1. Targets[r] \in SUBSET Keys
    BY TargetsAssumption
  <2>2. ASSUME NEW k \in Targets[r]
        PROVE  /\ Append(expect[k], r) \in Tokens /\ Append(expect[k], r) # <<>>
               /\ Append(expect[k], r)[Len(Append(expect[k], r))] = r
    BY AppendLast DEF Tokens
  <2>3. acked' \in [Keys -> SUBSET Tokens]
    BY <1>2, <2>2 DEF Acknowledge, Inv, TypeOK
  <2>4. ASSUME NEW k \in Keys, NEW token \in acked'[k]
        PROVE  /\ token # <<>>
               /\ token[Len(token)] \in Idempotent => receipts[token[Len(token)]] # {}
    <3>1. CASE token \in acked[k]
      BY <3>1 DEF Inv, AckInv
    <3>2. CASE k \in Targets[r] /\ token = Append(expect[k], r)
      BY <2>2, <3>2
    <3> QED BY <1>2, <3>1, <3>2 DEF Acknowledge
  <2> QED BY <2>3, <2>4 DEF AckInv
<1> QED BY <1>1, <1>2

\* A call is over: it has no batch and no item.
LEMMA ReturnedOK ==
    ASSUME NEW t \in Threads, NEW u \in Threads, NEW c, CallOK(u, c), c.req \in Requests,
           NEW result \in {"ok", "err"}
    PROVE  /\ CallOK(t, Returned(c, result))
           /\ Returned(c, result).pc = "returned" /\ Returned(c, result).batch = <<>>
<1>1. <<>> \in Seq(Items) /\ c.req # None /\ DOMAIN c = Fields
  BY EmptySeq, Kinds DEF CallOK
<1>2. c.expect \in [Targets[c.req] -> Tokens] /\ c.gen \in Nat
  BY <1>1 DEF CallOK
<1>3. PICK d : d = Returned(c, result)
  OBVIOUS
<1>4. /\ DOMAIN d = Fields /\ d.pc = "returned" /\ d.batch = <<>> /\ d.on = None
      /\ d.outcome = result /\ d.req = c.req /\ d.expect = c.expect /\ d.gen = c.gen
  BY <1>1, <1>3 DEF Returned, Fields
<1>5. CallOK(t, d)
  BY <1>1, <1>2, <1>4 DEF CallOK
<1> QED BY <1>3, <1>4, <1>5

\* What is known of a call at a step.
LEMMA CallFacts ==
    ASSUME Inv, NEW t \in Threads
    PROVE  /\ CallOK(t, call[t]) /\ DOMAIN call[t] = Fields
           /\ call[t].pc = "idle" => call[t] = Idle
           /\ call[t].pc = "planned" => /\ call[t].req \in Workflows /\ call[t].batch = <<>>
                                        /\ call[t].on = None /\ call[t].outcome = None
           /\ call[t].req # None => call[t].expect \in [Targets[call[t].req] -> Tokens]
           /\ call[t].pc \notin {"commit", "flushing"} => call[t].batch = <<>>
           /\ call[t].pc \notin {"idle", "flush", "flushing"} => call[t].req \in Requests
<1>1. CallOK(t, call[t])
  BY DEF Inv, TypeOK
<1>2. call[t].pc = "planned" => /\ call[t].req \in Workflows
                                /\ call[t].on = None /\ call[t].outcome = None
  BY <1>1 DEF CallOK
<1>3. call[t].pc \notin {"idle", "flush", "flushing"} => call[t].req \in Requests
  BY <1>1, Kinds DEF CallOK
<1>4. call[t].pc = "idle" => call[t] = Idle
  BY <1>1 DEF CallOK
<1> QED BY <1>1, <1>2, <1>3, <1>4 DEF CallOK

\* open_workflow_planning_snapshot, and the ends of calls.
LEMMA PlanStep ==
    ASSUME Inv, NEW t \in Threads, NEW r \in Workflows, Plan(t, r)
    PROVE  Inv'
<1> DEFINE c == [Idle EXCEPT !.pc = "planned", !.req = r, !.gen = overlay.gen,
                    !.expect = [k \in Targets[r] |-> overlay.entries[k].token]]
<1>1. call[t] = Idle /\ call' = [call EXCEPT ![t] = c]
  BY CallFacts DEF Plan
<1>2. /\ DOMAIN c = Fields /\ c.pc = "planned" /\ c.req = r /\ c.batch = <<>> /\ c.on = None
      /\ c.outcome = None /\ c.gen \in Nat /\ c.expect \in [Targets[r] -> Tokens]
  BY Kinds, TargetsAssumption DEF Idle, Fields, Inv, TypeOK, Overlays, Entry
<1> HIDE DEF c
<1>3. CallOK(t, c)
  BY <1>2, Kinds, EmptySeq DEF CallOK
<1>4. Succeeds(t, c)
  BY <1>1, <1>2, <1>3 DEF Succeeds, Follows, Open, Publishing, Idle
<1>5. ~Publishing(t) /\ ~Held(t)
  BY <1>1 DEF Publishing, Held, Idle
<1>6. AckInv'
  BY DEF Plan, Inv, AckInv
<1> QED BY <1>1, <1>2, <1>4, <1>5, <1>6, QuietStep DEF Plan, Inv, TypeOK

\* A call returns that neither publishes nor holds the guard.
LEMMA ReturnStep ==
    ASSUME Inv, NEW t \in Threads, ~Publishing(t), ~Held(t), call[t].batch = <<>>,
           NEW u \in Threads, NEW d, CallOK(u, d), d.req \in Requests,
           NEW result \in {"ok", "err"}, call' = [call EXCEPT ![t] = Returned(d, result)],
           UNCHANGED <<stored, receipts, queue, guard, pending, commits>>,
           overlay' \in Overlays, acked' \in [Keys -> SUBSET Tokens], AckInv'
    PROVE  Inv'
<1>1. PICK c : c = Returned(d, result)
  OBVIOUS
<1>2. CallOK(t, c) /\ c.pc = "returned" /\ c.batch = <<>>
  BY <1>1, ReturnedOK
<1>3. Succeeds(t, c)
  BY <1>2 DEF Succeeds, Follows, Open
<1> QED BY <1>1, <1>2, <1>3, QuietStep

LEMMA AnswerStep ==
    ASSUME Inv, NEW t \in Threads, Answer(t)
    PROVE  Inv'
<1>1. call[t].pc = "planned" /\ Untouched
  BY DEF Answer, Submitted
<1>2. /\ CallOK(t, call[t]) /\ call[t].req \in Workflows /\ call[t].batch = <<>>
      /\ call[t].on = None /\ call[t].req \in Requests
      /\ call[t].expect \in [Targets[call[t].req] -> Tokens] /\ call[t].req \in Idempotent
  BY <1>1, CallFacts, Kinds
<1>3. PICK result \in {"ok", "err"} : call' = [call EXCEPT ![t] = Returned(call[t], result)]
  BY DEF Answer, Return
<1>4. \/ Acknowledge(call[t].req, call[t].expect) /\ call[t].expect \in receipts[call[t].req]
      \/ UNCHANGED acked
  BY DEF Answer
<1>5. acked' \in [Keys -> SUBSET Tokens] /\ AckInv'
  <2>1. CASE UNCHANGED acked
    BY <1>1, <2>1 DEF Inv, TypeOK, AckInv, Untouched
  <2>2. CASE Acknowledge(call[t].req, call[t].expect) /\ receipts[call[t].req] # {}
    BY <1>1, <1>2, <2>2, Acknowledged DEF Untouched
  <2> QED BY <1>4, <2>1, <2>2
<1>6. ~Publishing(t) /\ ~Held(t)
  BY <1>1 DEF Publishing, Held
<1> QED BY <1>1, <1>2, <1>3, <1>5, <1>6, ReturnStep DEF Untouched, Inv, TypeOK

\* A call joins the one that publishes the same request.
LEMMA WaitStep ==
    ASSUME Inv, NEW t \in Threads, call[t].pc \in {"idle", "planned"},
           NEW r \in Idempotent, pending[r] # None, receipts[r] = {},
           NEW c, call' = [call EXCEPT ![t] = c],
           DOMAIN c = Fields, c.pc = "wait", c.on = pending[r], c.req = r, c.gen \in Nat,
           c.outcome = call[pending[r]].outcome, c.expect = call[pending[r]].expect,
           c.batch = <<>>, Untouched, UNCHANGED acked
    PROVE  Inv'
<1>1. pending[r] \in Threads
  BY DEF Inv, TypeOK
<1>2. Publishing(pending[r]) /\ call[pending[r]].req = r
  BY <1>1 DEF Inv, PendingInv
<1>3. pending[r] # t /\ ~Publishing(t) /\ ~Held(t) /\ call[t].batch = <<>>
  BY <1>2, CallFacts DEF Publishing, Held
<1>4. /\ CallOK(pending[r], call[pending[r]])
      /\ call[pending[r]].expect \in [Targets[r] -> Tokens]
      /\ call[pending[r]].outcome \in {None, "ok", "err"}
  BY <1>1, <1>2, CallFacts, Kinds DEF CallOK
<1>5. CallOK(t, c)
  BY <1>1, <1>3, <1>4, Kinds, EmptySeq DEF CallOK
<1>6. c.outcome # "ok"
  BY <1>1, <1>2 DEF Inv, OkInv, Publishing
<1>7. Succeeds(t, c)
  BY <1>2, <1>3, <1>5, <1>6 DEF Succeeds, Follows, Open
<1>8. AckInv'
  BY DEF Inv, AckInv, Untouched
<1> QED BY <1>3, <1>7, <1>8, QuietStep DEF Untouched, Inv, TypeOK

LEMMA JoinStep ==
    ASSUME Inv, NEW t \in Threads, Join(t)
    PROVE  Inv'
<1> DEFINE r == call[t].req
           c == [call[t] EXCEPT !.pc = "wait", !.on = pending[r],
                                !.outcome = call[pending[r]].outcome]
<1>1. /\ call[t].pc = "planned" /\ receipts[r] = {} /\ pending[r] # None
      /\ call[pending[r]].expect = call[t].expect /\ Untouched /\ UNCHANGED acked
  BY DEF Join, Submitted
<1>2. call' = [call EXCEPT ![t] = c]
  BY DEF Join
<1>3. r \in Idempotent /\ DOMAIN call[t] = Fields /\ call[t].batch = <<>> /\ call[t].gen \in Nat
  BY <1>1, CallFacts, Kinds DEF CallOK
<1>4. /\ DOMAIN c = Fields /\ c.pc = "wait" /\ c.on = pending[r] /\ c.req = r /\ c.gen \in Nat
      /\ c.outcome = call[pending[r]].outcome /\ c.expect = call[t].expect /\ c.batch = <<>>
  BY <1>3 DEF Fields
<1> HIDE DEF c
<1> QED BY <1>1, <1>2, <1>3, <1>4, WaitStep

LEMMA PutAgainStep ==
    ASSUME Inv, NEW t \in Threads, NEW r \in Keyed, PutAgain(t, r)
    PROVE  Inv'
<1>1. call[t].pc = "idle" /\ Untouched /\ r \in Idempotent /\ r \in Requests
  BY Kinds DEF PutAgain, Called, Idempotent
<1>2. call[t] = Idle /\ ~Publishing(t) /\ ~Held(t) /\ call[t].batch = <<>>
  BY <1>1, CallFacts DEF Publishing, Held, Idle
<1>3. ASSUME NEW expect \in receipts[r], Acknowledge(r, expect),
             call' = [call EXCEPT ![t] = Returned([Idle EXCEPT !.req = r, !.expect = expect], "ok")]
      PROVE  Inv'
  <2>1. PICK d : d = [Idle EXCEPT !.req = r, !.expect = expect]
    OBVIOUS
  <2>2. expect \in [Targets[r] -> Tokens]
    BY <1>1, <1>3 DEF Inv, TypeOK
  <2>3. acked' \in [Keys -> SUBSET Tokens] /\ AckInv'
    BY <1>1, <1>3, <2>2, Acknowledged DEF Untouched
  <2>4. PICK e : e = Returned(d, "ok")
    OBVIOUS
  <2>5. /\ DOMAIN e = Fields /\ e.pc = "returned" /\ e.req = r /\ e.expect = expect
        /\ e.batch = <<>> /\ e.on = None /\ e.outcome = "ok" /\ e.gen = 0
    BY <2>1, <2>4 DEF Returned, Idle, Fields
  <2>6. CallOK(t, e)
    BY <1>1, <2>2, <2>5, Kinds, EmptySeq DEF CallOK
  <2>7. Succeeds(t, e)
    BY <1>2, <2>5, <2>6 DEF Succeeds, Follows, Open
  <2> QED BY <1>1, <1>2, <1>3, <2>1, <2>3, <2>4, <2>5, <2>7, QuietStep DEF Untouched, Inv, TypeOK
<1>4. ASSUME receipts[r] = {}, pending[r] # None, UNCHANGED acked,
             call' = [call EXCEPT ![t] = [Idle EXCEPT !.pc = "wait", !.req = r, !.on = pending[r],
                          !.expect = call[pending[r]].expect, !.outcome = call[pending[r]].outcome]]
      PROVE  Inv'
  <2>1. PICK c : c = [Idle EXCEPT !.pc = "wait", !.req = r, !.on = pending[r],
                          !.expect = call[pending[r]].expect, !.outcome = call[pending[r]].outcome]
    OBVIOUS
  <2>2. /\ DOMAIN c = Fields /\ c.pc = "wait" /\ c.on = pending[r] /\ c.req = r /\ c.gen = 0
        /\ c.outcome = call[pending[r]].outcome /\ c.expect = call[pending[r]].expect
        /\ c.batch = <<>>
    BY <2>1 DEF Idle, Fields
  <2>3. call' = [call EXCEPT ![t] = c] /\ c.gen \in Nat
    BY <1>4, <2>1, <2>2
  <2> QED BY <1>1, <1>4, <2>2, <2>3, WaitStep
<1> QED BY <1>3, <1>4 DEF PutAgain

LEMMA RetryStep ==
    ASSUME Inv, NEW t \in Threads, Retry(t)
    PROVE  Inv'
<1>1. PICK c : c = [call[t] EXCEPT !.pc = "planned", !.outcome = None]
  OBVIOUS
<1>2. call[t].pc = "returned" /\ call[t].req \in Workflows /\ call' = [call EXCEPT ![t] = c]
  BY <1>1 DEF Retry, Inv, TypeOK
<1>3. /\ CallOK(t, call[t]) /\ DOMAIN call[t] = Fields /\ call[t].on = None
      /\ call[t].batch = <<>>
  BY <1>2, CallFacts DEF CallOK, Idle
<1>4. /\ DOMAIN c = Fields /\ c.pc = "planned" /\ c.outcome = None /\ c.req = call[t].req
      /\ c.on = None /\ c.batch = <<>> /\ c.gen = call[t].gen /\ c.expect = call[t].expect
  BY <1>1, <1>3 DEF Fields
<1>5. CallOK(t, c)
  BY <1>2, <1>3, <1>4 DEF CallOK
<1>6. ~Publishing(t) /\ ~Held(t)
  BY <1>2 DEF Publishing, Held
<1>7. Succeeds(t, c)
  BY <1>3, <1>4, <1>5, <1>6 DEF Succeeds, Follows, Open
<1>8. AckInv'
  BY DEF Retry, Inv, AckInv
<1> QED BY <1>2, <1>4, <1>6, <1>7, <1>8, QuietStep DEF Retry, Inv, TypeOK

LEMMA ForgetStep ==
    ASSUME Inv, NEW t \in Threads, Forget(t)
    PROVE  Inv'
<1>1. call[t].pc = "returned" /\ call' = [call EXCEPT ![t] = Idle] /\ call[t].batch = <<>>
  BY CallFacts DEF Forget
<1>2. ~Publishing(t) /\ ~Held(t)
  BY <1>1 DEF Publishing, Held
<1>3. Succeeds(t, Idle) /\ Idle.pc = "idle"
  BY <1>1, <1>2, IdleOK DEF Succeeds, Follows, Open, Idle
<1>4. AckInv'
  BY DEF Forget, Inv, AckInv
<1> QED BY <1>1, <1>2, <1>3, <1>4, QuietStep DEF Forget, Inv, TypeOK

\* What a call restores is an overlay.
LEMMA BeforeTyped ==
    ASSUME Inv, NEW t \in Threads,
           \/ call[t].pc \in {"lead", "commit", "own", "restore"} \/ Publishing(t)
           \/ Held(t) /\ call[t].req # None
    PROVE  call[t].before \in Overlays /\ call[t].req \in Requests
<1>1. CallOK(t, call[t])
  BY CallFacts
<1> QED BY <1>1, Kinds DEF CallOK, Publishing, Held, Idle

LEMMA RestoreStep ==
    ASSUME Inv, NEW t \in Threads, Restore(t)
    PROVE  Inv'
<1>1. /\ call[t].pc = "restore" /\ call' = [call EXCEPT ![t] = Returned(call[t], "err")]
      /\ overlay' = call[t].before
  BY DEF Restore, Restored, Return
<1>2. /\ CallOK(t, call[t]) /\ call[t].req \in Requests /\ call[t].batch = <<>>
      /\ overlay' \in Overlays
  BY <1>1, CallFacts, BeforeTyped
<1>3. ~Publishing(t) /\ ~Held(t)
  BY <1>1 DEF Publishing, Held
<1>4. AckInv'
  BY DEF Restore, Inv, AckInv
<1> QED BY <1>1, <1>2, <1>3, <1>4, ReturnStep DEF Restore, Inv, TypeOK

\* A call whose publication is over is forgotten, and returns or restores.
LEMMA SettleStep ==
    ASSUME Inv, NEW t \in Threads, Settle(t)
    PROVE  Inv'
<1>0. CallOK(t, call[t])
  BY CallFacts
<1>a. call[t].pc = "wait" /\ call[t].outcome # None
  BY DEF Settle
<1>b. call[t].outcome \in {None, "ok", "err"}
  BY <1>0 DEF CallOK
<1>1. call[t].pc = "wait" /\ call[t].outcome # None /\ call[t].outcome \in {"ok", "err"}
  BY <1>a, <1>b
<1>2. /\ CallOK(t, call[t]) /\ DOMAIN call[t] = Fields /\ call[t].req \in Requests
      /\ call[t].expect \in [Targets[call[t].req] -> Tokens] /\ call[t].batch = <<>>
      /\ ~Held(t) /\ ~Open(t)
  BY <1>1, CallFacts, Kinds DEF Held, Open
<1>3. PICK c : /\ call' = [call EXCEPT ![t] = c] /\ CallOK(t, c) /\ c.batch = <<>>
               /\ c.pc \in {"returned", "restore"}
  <2>1. CASE call' = [call EXCEPT ![t] = Returned(call[t], call[t].outcome)]
    <3>1. PICK d : d = Returned(call[t], call[t].outcome)
      OBVIOUS
    <3>2. CallOK(t, d) /\ d.pc = "returned" /\ d.batch = <<>>
      BY <1>1, <1>2, <3>1, ReturnedOK
    <3> QED BY <2>1, <3>1, <3>2
  <2>2. CASE /\ call[t].outcome # "ok" /\ call[t].on = t /\ call[t].req \in Normal
             /\ call' = [call EXCEPT ![t] = [call[t] EXCEPT !.pc = "restore"]]
    <3>1. PICK c : c = [call[t] EXCEPT !.pc = "restore"]
      OBVIOUS
    <3>2. /\ DOMAIN c = Fields /\ c.pc = "restore" /\ c.req = call[t].req /\ c.on = t
          /\ c.outcome = "err" /\ c.batch = <<>> /\ c.gen = call[t].gen
          /\ c.expect = call[t].expect /\ c.before = call[t].before
      BY <1>1, <1>2, <2>2, <3>1 DEF Fields
    <3>3. Publishing(t)
      BY <1>1, <2>2 DEF Publishing
    <3>5. c.before \in Overlays
      <4>1. call[t].before \in Overlays
        BY <3>3, BeforeTyped
      <4> QED BY <3>2, <4>1
    <3>4. CallOK(t, c)
      BY <1>2, <2>2, <3>2, <3>5 DEF CallOK
    <3> QED BY <2>2, <3>1, <3>2, <3>4
  <2> QED BY <1>1, <2>1, <2>2 DEF Settle, Return
<1>4. Succeeds(t, c)
  BY <1>2, <1>3 DEF Succeeds, Follows
<1>5. call' = [u \in Threads |-> IF u = t THEN c ELSE call[u]]
  BY <1>3 DEF Inv, TypeOK
<1>6. /\ \A u \in Threads \ {t} : Publishing(u)' <=> Publishing(u)
      /\ ~Publishing(t)' /\ \A u \in Threads \ {t} : call'[u] = call[u]
  BY <1>3, <1>5 DEF Publishing
<1>7. PendingInv' /\ pending' \in [Idempotent -> Threads \cup {None}]
  <2>1. CASE /\ call[t].on = t /\ call[t].req \in Idempotent
             /\ pending' = [pending EXCEPT ![call[t].req] = None]
    <3>1. pending[call[t].req] = t
      BY <1>1, <2>1 DEF Inv, PendingInv, Publishing
    <3>2. \A u \in Threads : \A r \in Idempotent :
             pending'[r] = u <=> pending[r] = u /\ u # t
      BY <1>1, <2>1, <3>1, Kinds DEF Inv, TypeOK, PendingInv, Publishing
    <3> QED BY <1>6, <2>1, <3>2 DEF Inv, TypeOK, PendingInv
  <2>2. CASE (call[t].on # t \/ call[t].req \notin Idempotent) /\ pending' = pending
    <3>1. \A r \in Idempotent : pending[r] # t
      BY <2>2 DEF Inv, PendingInv, Publishing
    <3> QED BY <1>6, <2>2, <3>1 DEF Inv, TypeOK, PendingInv
  <2> QED BY <2>1, <2>2 DEF Settle
<1>8. HeldInv'
  <2> SUFFICES ASSUME NEW u \in Threads, Held(u)'
               PROVE  /\ guard' = u
                      /\ call'[u].req # None =>
                            receipts'[call'[u].req] = {} /\ pending'[call'[u].req] = None
    BY DEF HeldInv
  <2>1. u # t /\ Held(u) /\ call'[u] = call[u] /\ guard = u
    BY <1>3, <1>5 DEF Held, Inv, HeldInv
  <2>2. guard # None /\ guard' = guard /\ receipts' = receipts
    BY <2>1, Kinds DEF Settle
  <2>3. pending' = pending
    BY <2>2 DEF Settle
  <2> QED BY <2>1, <2>2, <2>3 DEF Inv, HeldInv
<1>9. acked' \in [Keys -> SUBSET Tokens] /\ AckInv'
  <2>1. receipts' = receipts
    BY DEF Settle
  <2>2. CASE call[t].outcome # "ok"
    BY <2>1, <2>2 DEF Settle, Inv, TypeOK, AckInv
  <2>3. CASE call[t].outcome = "ok"
    <3>1. call[t].req \in Idempotent => receipts[call[t].req] # {}
      BY <1>1, <2>3 DEF Inv, OkInv
    <3>2. Acknowledge(call[t].req, call[t].expect)
      BY <2>3 DEF Settle
    <3> QED BY <1>2, <2>1, <3>1, <3>2, Acknowledged
  <2> QED BY <2>2, <2>3
<1> QED BY <1>3, <1>4, <1>7, <1>8, <1>9, CallStep DEF Settle, Inv, TypeOK
\* The queue is empty: the leader waits for its outcome, a flush ends or goes on.
LEMMA DrainEndsStep ==
    ASSUME Inv, NEW t \in Threads, DrainEnds(t)
    PROVE  Inv'
<1>1. call[t].pc \in {"lead", "flush"} /\ UNCHANGED <<stored, receipts, queue, pending, commits>>
      /\ UNCHANGED <<overlay, acked>> /\ guard' = IF call[t].req = None THEN None ELSE guard
  BY DEF DrainEnds
<1>2. /\ CallOK(t, call[t]) /\ DOMAIN call[t] = Fields /\ call[t].batch = <<>>
      /\ call[t].pc = "lead" => call[t].req \in Requests /\ call[t].req # None
  BY <1>1, CallFacts, Kinds
<1>3. PICK c : /\ call' = [call EXCEPT ![t] = c] /\ CallOK(t, c) /\ c.batch = <<>>
               /\ c.outcome = call[t].outcome /\ c.req = call[t].req
               /\ c.req # None => c.expect = call[t].expect
               /\ IF call[t].pc = "lead" THEN c.pc = "wait" /\ c.on = call[t].on
                  ELSE IF call[t].req = None THEN c.pc = "idle" ELSE c.pc = "own"
  <2>1. CASE call[t].pc = "lead"
    <3>1. PICK c : c = [call[t] EXCEPT !.pc = "wait"]
      OBVIOUS
    <3>2. call' = [call EXCEPT ![t] = c]
      BY <2>1, <3>1 DEF DrainEnds
    <3>3. /\ DOMAIN c = Fields /\ c.pc = "wait" /\ c.req = call[t].req /\ c.on = call[t].on
          /\ c.outcome = call[t].outcome /\ c.batch = call[t].batch /\ c.gen = call[t].gen
          /\ c.expect = call[t].expect /\ c.before = call[t].before
      BY <1>2, <3>1 DEF Fields
    <3>4. CallOK(t, c)
      BY <1>2, <2>1, <3>3 DEF CallOK
    <3> QED BY <1>2, <2>1, <3>2, <3>3, <3>4
  <2>2. CASE call[t].pc = "flush" /\ call[t].req = None
    <3>1. call' = [call EXCEPT ![t] = Idle]
      BY <2>2 DEF DrainEnds
    <3>2. call[t].outcome = None
      BY <1>2, <2>2, Kinds DEF CallOK
    <3>3. Idle.pc = "idle" /\ Idle.batch = <<>> /\ Idle.outcome = None /\ Idle.req = None
      BY DEF Idle
    <3> QED BY <2>2, <3>1, <3>2, <3>3, IdleOK
  <2>3. CASE call[t].pc = "flush" /\ call[t].req # None
    <3>1. PICK c : c = [call[t] EXCEPT !.pc = "own"]
      OBVIOUS
    <3>2. call' = [call EXCEPT ![t] = c]
      BY <2>3, <3>1 DEF DrainEnds
    <3>3. /\ DOMAIN c = Fields /\ c.pc = "own" /\ c.req = call[t].req /\ c.on = call[t].on
          /\ c.outcome = call[t].outcome /\ c.batch = call[t].batch /\ c.gen = call[t].gen
          /\ c.expect = call[t].expect /\ c.before = call[t].before /\ c.item = call[t].item
      BY <1>2, <3>1 DEF Fields
    <3>4. CallOK(t, c)
      BY <1>2, <2>3, <3>3 DEF CallOK
    <3> QED BY <1>2, <2>3, <3>2, <3>3, <3>4
  <2> QED BY <1>1, <2>1, <2>2, <2>3
<1>4. call' = [u \in Threads |-> IF u = t THEN c ELSE call[u]]
  BY <1>3 DEF Inv, TypeOK
<1>5. /\ Publishing(t) <=> c.pc \in {"lead", "commit", "wait"} /\ c.on = t
      /\ Publishing(t) => call[t].pc = "lead"
  BY <1>1, <1>3 DEF Publishing
<1>6. Succeeds(t, c)
  <2>1. c.pc = "wait" => c.on = t
    BY <1>1, <1>2, <1>3 DEF CallOK
  <2>2. c.pc \in {"lead", "commit", "wait"} /\ c.outcome = "ok" /\ c.req \in Idempotent =>
          receipts[c.req] # {}
    BY <1>1, <1>3 DEF Inv, OkInv
  <2> QED BY <1>2, <1>3, <1>5, <2>1, <2>2 DEF Succeeds, Follows, Open
<1>7. HeldInv'
  <2> SUFFICES ASSUME NEW u \in Threads, Held(u)'
               PROVE  /\ guard' = u
                      /\ call'[u].req # None =>
                            receipts'[call'[u].req] = {} /\ pending'[call'[u].req] = None
    BY DEF HeldInv
  <2>1. CASE u = t
    BY <1>1, <1>3, <1>4, <2>1 DEF Held, Inv, HeldInv
  <2>2. CASE u # t
    <3>1. guard = u /\ call'[u] = call[u] /\ Held(u)
      BY <1>4, <2>2 DEF Held, Inv, HeldInv
    <3>2. call[t].pc = "lead"
      BY <1>1, <2>2, <3>1 DEF Held, Inv, HeldInv
    <3> QED BY <1>1, <1>2, <3>1, <3>2 DEF Inv, HeldInv
  <2> QED BY <2>1, <2>2
<1>8. PendingInv'
  <2>1. \A u \in Threads : /\ Publishing(u)' <=> Publishing(u)
                           /\ call'[u].req = call[u].req
    BY <1>3, <1>4, <1>5 DEF Publishing
  <2> QED BY <1>1, <2>1 DEF Inv, PendingInv
<1>9. AckInv' /\ guard' \in Threads \cup {None}
  BY <1>1 DEF Inv, AckInv, TypeOK
<1> QED BY <1>1, <1>3, <1>6, <1>7, <1>8, <1>9, CallStep DEF Inv, TypeOK

\* A call takes the guard.
LEMMA HoldStep ==
    ASSUME Inv, NEW t \in Threads, call[t].pc \in {"idle", "planned"}, guard = None, guard' = t,
           NEW c, CallOK(t, c), c.batch = <<>>, call' = [call EXCEPT ![t] = c],
           c.pc \in {"flush", "own"},
           c.req # None => receipts[c.req] = {} /\ pending[c.req] = None,
           UNCHANGED <<stored, receipts, queue, pending, acked, commits>>, overlay' \in Overlays
    PROVE  Inv'
<1>1. call' = [u \in Threads |-> IF u = t THEN c ELSE call[u]]
  BY DEF Inv, TypeOK
<1>2. ~Publishing(t) /\ call[t].batch = <<>> /\ c.pc \notin {"lead", "commit", "wait"}
  BY CallFacts DEF Publishing
<1>3. Succeeds(t, c)
  BY <1>2 DEF Succeeds, Follows, Open
<1>4. \A u \in Threads : ~Held(u)
  BY Kinds DEF Inv, HeldInv
<1>5. HeldInv'
  BY <1>1, <1>4 DEF HeldInv, Held
<1>6. \A u \in Threads : /\ Publishing(u)' <=> Publishing(u)
                         /\ Publishing(u) => call'[u].req = call[u].req
  BY <1>1, <1>2 DEF Publishing
<1>7. PendingInv' /\ AckInv'
  BY <1>6 DEF Inv, PendingInv, AckInv
<1> QED BY <1>3, <1>5, <1>7, CallStep DEF Inv, TypeOK

LEMMA FlushStep ==
    ASSUME Inv, NEW t \in Threads, Flush(t)
    PROVE  Inv'
<1>1. PICK c : c = [Idle EXCEPT !.pc = "flush"]
  OBVIOUS
<1>2. call[t].pc = "idle" /\ guard = None /\ guard' = t /\ call[t] = Idle
  BY CallFacts DEF Flush, Called
<1>3. call' = [call EXCEPT ![t] = c]
  BY <1>1, <1>2 DEF Flush
<1>4. /\ DOMAIN c = Fields /\ c.pc = "flush" /\ c.req = None /\ c.on = None /\ c.outcome = None
      /\ c.batch = <<>> /\ c.gen = 0
  BY <1>1 DEF Idle, Fields
<1>5. CallOK(t, c)
  BY <1>4, EmptySeq DEF CallOK
<1> QED BY <1>2, <1>3, <1>4, <1>5, HoldStep DEF Flush, Inv, TypeOK

\* The overlay a request writes, and its item.
LEMMA WrittenIs ==
    ASSUME Inv, NEW r \in Requests
    PROVE  /\ Written(r) \in Overlays /\ Written(r).gen = overlay.gen + 1
           /\ \A k \in Keys : Written(r).entries[k] =
                 IF k \in Targets[r]
                 THEN [gen |-> overlay.gen + 1, token |-> Append(overlay.entries[k].token, r)]
                 ELSE overlay.entries[k]
<1>1. overlay.gen \in Nat /\ \A k \in Keys : overlay.entries[k] \in Entry
  BY DEF Inv, TypeOK, Overlays
<1>2. \A k \in Keys : Append(overlay.entries[k].token, r) \in Tokens
  BY <1>1 DEF Entry, Tokens
<1>3. Written(r).entries \in [Keys -> Entry]
  BY <1>1, <1>2 DEF Written, Entry
<1> QED BY <1>1, <1>3 DEF Written, Overlays

LEMMA ItemIs ==
    ASSUME Inv, NEW t \in Threads, NEW r \in Requests, NEW expect \in [Targets[r] -> Tokens],
           \A k \in Targets[r] : overlay.entries[k].token = expect[k]
    PROVE  \E it \in Items :
              /\ Item(t, expect, r) = <<it>> /\ it.by = t /\ it.req = r /\ it.expect = expect
              /\ \A k \in Targets[r] : it.entries[k] = Written(r).entries[k]
<1>1. PICK it : it = [by |-> t, req |-> r, expect |-> expect,
                      entries |-> [k \in Targets[r] |-> Written(r).entries[k]]]
  OBVIOUS
<1>2. Targets[r] \subseteq Keys /\ overlay.gen \in Nat
  BY TargetsAssumption DEF Inv, TypeOK, Overlays
<1>3. \A k \in Targets[r] : Written(r).entries[k] \in Entry
  BY <1>2, WrittenIs DEF Overlays
<1>4. ASSUME NEW k \in Targets[r] PROVE Written(r).entries[k].token = Append(expect[k], r)
  <2>1. k \in Keys /\ overlay.entries[k].token = expect[k]
    BY <1>2
  <2>2. Written(r).entries[k] =
          [gen |-> overlay.gen + 1, token |-> Append(overlay.entries[k].token, r)]
    BY <2>1, WrittenIs
  <2> QED BY <2>1, <2>2
<1>5. [k \in Targets[r] |-> Written(r).entries[k]] \in [Targets[r] -> Entry]
  BY <1>3
<1>8. expect \in Expects
  BY DEF Expects
<1>9. [k \in Targets[r] |-> Written(r).entries[k]] \in UNION {[Targets[q] -> Entry] : q \in Requests}
  BY <1>5
<1>10. PICK e : e = [k \in Targets[r] |-> Written(r).entries[k]]
  OBVIOUS
<1>11. \A k \in Targets[r] : e[k].token = Append(expect[k], r)
  BY <1>4, <1>10
<1>6. it \in Items
  BY <1>1, <1>5, <1>8, <1>9, <1>10, <1>11 DEF Items
<1>7. Item(t, expect, r) = <<it>>
  BY <1>1 DEF Item
<1> QED BY <1>1, <1>6, <1>7

\* A direct call holds the guard until its records are committed.
LEMMA SubmitDirectStep ==
    ASSUME Inv, NEW t \in Threads, SubmitDirect(t)
    PROVE  Inv'
<1>1. /\ call[t].pc = "planned" /\ guard = None /\ guard' = t
      /\ call[t].req \in Direct /\ receipts[call[t].req] = {} /\ pending[call[t].req] = None
      /\ Matches(t) /\ overlay' = Written(call[t].req)
      /\ UNCHANGED <<stored, receipts, queue, pending, acked, commits>>
  BY DEF SubmitDirect, Admitted, Submitted, Direct
<1>2. /\ CallOK(t, call[t]) /\ DOMAIN call[t] = Fields /\ call[t].req \in Requests
      /\ call[t].expect \in [Targets[call[t].req] -> Tokens] /\ call[t].batch = <<>>
      /\ call[t].on = None /\ call[t].outcome = None
  BY <1>1, CallFacts, Kinds
<1>3. PICK it \in Items : /\ Item(t, call[t].expect, call[t].req) = <<it>> /\ it.by = t
                          /\ it.req = call[t].req /\ it.expect = call[t].expect
  BY <1>1, <1>2, ItemIs DEF Matches
<1>4. PICK c : c = [call[t] EXCEPT !.pc = IF call[t].req \in Relaxed THEN "own" ELSE "flush",
                                   !.before = overlay, !.item = <<it>>]
  OBVIOUS
<1>5. call' = [call EXCEPT ![t] = c]
  BY <1>3, <1>4 DEF SubmitDirect
<1>6. /\ DOMAIN c = Fields /\ c.pc \in {"flush", "own"} /\ c.req = call[t].req /\ c.on = None
      /\ c.outcome = None /\ c.batch = <<>> /\ c.gen = call[t].gen
      /\ c.expect = call[t].expect /\ c.before = overlay /\ c.item = <<it>>
  BY <1>2, <1>4 DEF Fields
<1>7. CallOK(t, c)
  <2>1. overlay \in Overlays /\ <<it>> \in Seq(Items) /\ Len(<<it>>) = 1 /\ <<it>>[1] = it
    BY DEF Inv, TypeOK
  <2> QED BY <1>1, <1>2, <1>3, <1>6, <2>1 DEF CallOK
<1>8. overlay' \in Overlays
  BY <1>1, <1>2, WrittenIs
<1> QED BY <1>1, <1>5, <1>6, <1>7, <1>8, HoldStep

\* A batch is taken from the queue.
LEMMA DrainStep ==
    ASSUME Inv, NEW t \in Threads, Drain(t)
    PROVE  Inv'
<1>1. /\ call[t].pc \in {"lead", "flush"} /\ queue' = <<>>
      /\ UNCHANGED <<overlay, stored, receipts, guard, pending, acked, commits>>
  BY DEF Drain
<1>2. /\ CallOK(t, call[t]) /\ DOMAIN call[t] = Fields /\ call[t].batch = <<>>
      /\ queue \in Seq(Items)
  BY <1>1, CallFacts DEF Inv, TypeOK
<1>3. PICK c : c = [call[t] EXCEPT !.batch = queue,
                        !.pc = IF call[t].pc = "lead" THEN "commit" ELSE "flushing"]
  OBVIOUS
<1>4. call' = [call EXCEPT ![t] = c]
  BY <1>3 DEF Drain
<1>5. /\ DOMAIN c = Fields /\ c.pc = IF call[t].pc = "lead" THEN "commit" ELSE "flushing"
      /\ c.req = call[t].req /\ c.on = call[t].on /\ c.outcome = call[t].outcome
      /\ c.batch = queue /\ c.gen = call[t].gen /\ c.expect = call[t].expect
      /\ c.before = call[t].before /\ c.item = call[t].item
  BY <1>2, <1>3 DEF Fields
<1>6. CallOK(t, c)
  BY <1>1, <1>2, <1>5 DEF CallOK
<1>7. call' = [u \in Threads |-> IF u = t THEN c ELSE call[u]]
  BY <1>4 DEF Inv, TypeOK
<1>8. Follows(t, c)
  <2>1. c.pc \in {"lead", "commit", "wait"} /\ c.outcome = "ok" /\ c.req \in Idempotent =>
          receipts[c.req] # {}
    BY <1>1, <1>5 DEF Inv, OkInv
  <2> QED BY <1>1, <1>5, <1>6, <2>1 DEF Follows, Open, Publishing
<1>9. /\ Line(None)' = <<>> /\ Line(t)' = Line(None)
      /\ \A p \in Threads \ {t} : Line(p)' = Line(p)
  BY <1>1, <1>5, <1>7, Kinds DEF Line
<1>10. DOMAIN Line(None)' = {}
  BY <1>9
<1>11. None \in Places /\ t \in Places /\ \A p \in Places : p = None \/ p = t \/ p \in Threads \ {t}
  BY DEF Places
<1>12. LineInv'
  <2> SUFFICES ASSUME NEW p \in Places, NEW i \in DOMAIN Line(p)' PROVE ItemOK(Line(p)[i])'
    BY DEF LineInv
  <2>1. PICK q \in Places : Line(p)' = Line(q)
    BY <1>9, <1>10, <1>11
  <2>2. ItemOK(Line(q)[i]) /\ Line(q)[i].by \in Threads
    BY <2>1, LineTyped
  <2>3. PICK u \in Threads : u = Line(q)[i].by
    BY <2>2
  <2>4. Open(u)' /\ call'[u].req = call[u].req /\ call'[u].expect = call[u].expect
    BY <1>4, <1>8, <2>2, <2>3, StaysOpen DEF ItemOK
  <2>5. receipts' = receipts
    BY <1>1
  <2> QED BY <2>1, <2>2, <2>3, <2>4, <2>5 DEF ItemOK
<1>13. OnceInv'
  <2> SUFFICES ASSUME NEW p \in Places, NEW q \in Places,
                      NEW i \in DOMAIN Line(p)', NEW j \in DOMAIN Line(q)',
                      Line(p)'[i].by = Line(q)'[j].by
               PROVE  p = q /\ i = j
    BY DEF OnceInv
  <2>1. p # None /\ q # None
    BY <1>10
  <2>2. /\ Line(p)' = IF p = t THEN Line(None) ELSE Line(p)
        /\ Line(q)' = IF q = t THEN Line(None) ELSE Line(q)
    BY <1>9, <1>11, <2>1
  <2> QED BY <1>11, <2>1, <2>2 DEF Inv, OnceInv
<1>14. HeldInv'
  BY <1>1, <1>5, <1>7 DEF Inv, HeldInv, Held
<1>15. PendingInv'
  <2>1. \A u \in Threads : /\ Publishing(u)' <=> Publishing(u)
                           /\ call'[u].req = call[u].req
    BY <1>1, <1>5, <1>7 DEF Publishing
  <2> QED BY <1>1, <2>1 DEF Inv, PendingInv
<1>16. AckInv' /\ queue' \in Seq(Items)
  BY <1>1, EmptySeq DEF Inv, AckInv
<1> QED BY <1>1, <1>4, <1>8, <1>12, <1>13, <1>14, <1>15, <1>16, FollowStep DEF Inv, TypeOK

\* enqueue_normal_mutable_records: the call returns, or its item is the last of the queue.
Enters(t, c, r) ==
    /\ guard = None /\ call[t].pc \in {"idle", "planned"} /\ r \in Normal \cup Puts
    /\ DOMAIN c = Fields /\ c.req = r /\ c.expect \in [Targets[r] -> Tokens]
    /\ \A k \in Targets[r] : overlay.entries[k].token = c.expect[k]
    /\ c.batch = <<>> /\ c.outcome = None /\ c.gen \in Nat
    /\ r \in Idempotent => receipts[r] = {} /\ pending[r] = None
Queues(t, r, it, d) ==
    /\ queue' = Append(queue, it) /\ queue' # queue /\ call' = [call EXCEPT ![t] = d]
    /\ it \in Items /\ it.by = t /\ it.req = r /\ it.expect = d.expect
    /\ \A k \in Targets[r] : it.entries[k] = Written(r).entries[k]
    /\ CallOK(t, d) /\ d.pc \in {"lead", "wait"} /\ d.on = t /\ d.outcome = None /\ d.req = r
    /\ d.before = overlay /\ d.batch = <<>>

LEMMA EnqueueIs ==
    ASSUME Inv, NEW t \in Threads, NEW r \in Requests, NEW c, Enters(t, c, r), Enqueue(t, c, r)
    PROVE  \/ /\ queue' = queue /\ call' = [call EXCEPT ![t] = Returned(c, "err")]
              /\ CallOK(t, Returned(c, "err")) /\ Returned(c, "err").pc = "returned"
              /\ Returned(c, "err").batch = <<>>
           \/ \E it, d : Queues(t, r, it, d)
<1>1. r # None /\ <<>> \in Seq(Items) /\ overlay \in Overlays /\ queue \in Seq(Items)
  BY Kinds, EmptySeq DEF Inv, TypeOK
<1>2. CASE Full(r)
  <2>1. PICK d : d = Returned(c, "err")
    OBVIOUS
  <2>2. /\ DOMAIN d = Fields /\ d.pc = "returned" /\ d.batch = <<>> /\ d.on = None
        /\ d.outcome = "err" /\ d.req = r /\ d.expect = c.expect /\ d.gen = c.gen
    BY <2>1 DEF Returned, Fields, Enters
  <2>3. CallOK(t, d)
    BY <1>1, <2>2 DEF CallOK, Enters
  <2> QED BY <1>2, <2>1, <2>2, <2>3 DEF Enqueue
<1>3. CASE ~Full(r)
  <2>1. PICK it \in Items :
          /\ Item(t, c.expect, r) = <<it>> /\ it.by = t /\ it.req = r /\ it.expect = c.expect
          /\ \A k \in Targets[r] : it.entries[k] = Written(r).entries[k]
    BY ItemIs DEF Enters
  <2>2. PICK d : d = [c EXCEPT !.on = t, !.before = overlay,
                               !.pc = IF leading THEN "wait" ELSE "lead"]
    OBVIOUS
  <2>3. /\ DOMAIN d = Fields /\ d.pc \in {"lead", "wait"} /\ d.batch = <<>> /\ d.on = t
        /\ d.outcome = None /\ d.req = r /\ d.expect = c.expect /\ d.gen = c.gen
        /\ d.before = overlay
    BY <2>2 DEF Fields, Enters
  <2>4. CallOK(t, d)
    BY <1>1, <2>3 DEF CallOK, Enters
  <2>5. queue' = queue \o <<it>> /\ call' = [call EXCEPT ![t] = d]
    BY <1>3, <2>1, <2>2 DEF Enqueue
  <2>6. queue' = Append(queue, it)
    BY <1>1, <2>5, AppendIsConcat
  <2>7. queue' # queue
    <3>1. Len(queue') = Len(queue) + 1 /\ Len(queue) \in Nat
      BY <1>1, <2>6
    <3> QED BY <3>1
  <2>8. Queues(t, r, it, d)
    BY <2>1, <2>3, <2>4, <2>5, <2>6, <2>7 DEF Queues
  <2> QED BY <2>8
<1> QED BY <1>2, <1>3

\* The lines of a queue that has grown by an item.
LEMMA LongerQueue ==
    ASSUME Inv, NEW t \in Threads, NEW r, NEW it, NEW d, Queues(t, r, it, d),
           call[t].batch = <<>>
    PROVE  /\ \A p \in Threads : Line(p)' = Line(p)
           /\ queue \in Seq(Items) /\ Len(queue) \in Nat
           /\ Line(None)' = queue' /\ Line(None) = queue /\ None \in Places
           /\ DOMAIN queue' = 1 .. Len(queue) + 1 /\ DOMAIN queue = 1 .. Len(queue)
           /\ queue'[Len(queue) + 1] = it
           /\ \A i \in DOMAIN queue : i \in DOMAIN queue' /\ queue'[i] = queue[i]
<1>1. call' = [u \in Threads |-> IF u = t THEN d ELSE call[u]] /\ queue \in Seq(Items)
  BY DEF Inv, TypeOK, Queues
<1>2. /\ \A p \in Threads : Line(p)' = Line(p)
      /\ Line(None)' = queue' /\ Line(None) = queue /\ None \in Places
  BY <1>1, Kinds DEF Line, Places, Queues
<1>3. it \in Items /\ queue' = Append(queue, it)
  BY DEF Queues
<1>4. /\ Len(queue) \in Nat /\ DOMAIN queue = 1 .. Len(queue)
      /\ DOMAIN queue' = 1 .. Len(queue) + 1 /\ queue'[Len(queue) + 1] = it
      /\ \A i \in 1 .. Len(queue) : queue'[i] = queue[i]
  BY <1>1, <1>3
<1>5. \A i \in DOMAIN queue : i \in DOMAIN queue' /\ queue'[i] = queue[i]
  BY <1>4
<1> QED BY <1>1, <1>2, <1>4, <1>5

LEMMA EnqueueStep ==
    ASSUME Inv, NEW t \in Threads, NEW r \in Requests, NEW c, Enters(t, c, r), Enqueue(t, c, r),
           pending' = (IF r \in Idempotent /\ queue' # queue
                       THEN [pending EXCEPT ![r] = t] ELSE pending),
           overlay' \in Overlays, UNCHANGED <<stored, receipts, guard, acked, commits>>
    PROVE  Inv'
<1>1. /\ ~Publishing(t) /\ ~Held(t) /\ call[t].batch = <<>> /\ AckInv' /\ TypeOK
      /\ \A u \in Threads : ~Held(u)
  BY CallFacts, Kinds DEF Enters, Publishing, Held, Inv, AckInv, HeldInv
<1>2. CASE /\ queue' = queue /\ call' = [call EXCEPT ![t] = Returned(c, "err")]
           /\ CallOK(t, Returned(c, "err")) /\ Returned(c, "err").pc = "returned"
           /\ Returned(c, "err").batch = <<>>
  <2>1. PICK d : d = Returned(c, "err")
    OBVIOUS
  <2>2. Succeeds(t, d) /\ d.pc = "returned"
    BY <1>1, <1>2, <2>1 DEF Succeeds, Follows, Open
  <2>3. pending' = pending
    BY <1>2
  <2> QED BY <1>1, <1>2, <2>1, <2>2, <2>3, QuietStep DEF TypeOK
<1>3. ASSUME NEW it, NEW d, Queues(t, r, it, d) PROVE Inv'
  <2>1. /\ call' = [call EXCEPT ![t] = d] /\ d.pc \in {"lead", "wait"} /\ d.on = t
        /\ d.outcome = None /\ d.req = r /\ it.by = t /\ it.req = r /\ it.expect = d.expect
        /\ it \in Items /\ queue' = Append(queue, it) /\ CallOK(t, d) /\ queue' # queue
    BY <1>3 DEF Queues
  <2>2. Follows(t, d)
    BY <1>1, <2>1 DEF Follows, Open, None
  <2>3. call' = [u \in Threads |-> IF u = t THEN d ELSE call[u]]
    BY <1>1, <2>1 DEF TypeOK
  <2>4. /\ \A p \in Threads : Line(p)' = Line(p)
        /\ queue \in Seq(Items) /\ Len(queue) \in Nat
        /\ Line(None)' = queue' /\ Line(None) = queue /\ None \in Places
        /\ DOMAIN queue' = 1 .. Len(queue) + 1 /\ DOMAIN queue = 1 .. Len(queue)
        /\ queue'[Len(queue) + 1] = it
        /\ \A i \in DOMAIN queue : i \in DOMAIN queue' /\ queue'[i] = queue[i]
    BY <1>1, <1>3, LongerQueue
  <2>5. ASSUME NEW p \in Places, NEW i \in DOMAIN Line(p)'
        PROVE  \/ p = None /\ i = Len(queue) + 1 /\ Line(p)'[i] = it
               \/ i \in DOMAIN Line(p) /\ Line(p)'[i] = Line(p)[i] /\ Line(p)[i].by # t
    <3>1. CASE p = None /\ i = Len(queue) + 1
      BY <2>4, <3>1
    <3>2. CASE ~(p = None /\ i = Len(queue) + 1)
      <4>1. i \in DOMAIN Line(p) /\ Line(p)'[i] = Line(p)[i]
        BY <2>4, <3>2 DEF Places
      <4>2. Open(Line(p)[i].by)
        BY <4>1, LineTyped DEF ItemOK
      <4> QED BY <1>1, <4>1, <4>2 DEF Open
    <3> QED BY <3>1, <3>2
  <2>6. LineInv'
    <3> SUFFICES ASSUME NEW p \in Places, NEW i \in DOMAIN Line(p)' PROVE ItemOK(Line(p)[i])'
      BY DEF LineInv
    <3>1. CASE Line(p)'[i] = it
      BY <2>1, <2>3, <3>1 DEF ItemOK, Open, Publishing, Enters
    <3>2. CASE i \in DOMAIN Line(p) /\ Line(p)'[i] = Line(p)[i]
      <4>1. ItemOK(Line(p)[i]) /\ Line(p)[i].by \in Threads
        BY <3>2, LineTyped
      <4>2. PICK u \in Threads : u = Line(p)[i].by
        BY <4>1
      <4>3. Open(u)' /\ call'[u].req = call[u].req /\ call'[u].expect = call[u].expect
        BY <2>1, <2>2, <4>1, <4>2, StaysOpen DEF ItemOK
      <4> QED BY <3>2, <4>1, <4>2, <4>3 DEF ItemOK
    <3> QED BY <2>5, <3>1, <3>2
  <2>7. OnceInv'
    <3> SUFFICES ASSUME NEW p \in Places, NEW q \in Places,
                        NEW i \in DOMAIN Line(p)', NEW j \in DOMAIN Line(q)',
                        Line(p)'[i].by = Line(q)'[j].by
                 PROVE  p = q /\ i = j
      BY DEF OnceInv
    <3>1. /\ \/ p = None /\ i = Len(queue) + 1 /\ Line(p)'[i].by = t
             \/ i \in DOMAIN Line(p) /\ Line(p)'[i] = Line(p)[i] /\ Line(p)[i].by # t
          /\ \/ q = None /\ j = Len(queue) + 1 /\ Line(q)'[j].by = t
             \/ j \in DOMAIN Line(q) /\ Line(q)'[j] = Line(q)[j] /\ Line(q)[j].by # t
      BY <2>1, <2>5
    <3> QED BY <3>1 DEF Inv, OnceInv
  <2>8. HeldInv'
    BY <1>1, <2>1, <2>3 DEF HeldInv, Held
  <2>9. \A u \in Threads \ {t} : (Publishing(u)' <=> Publishing(u)) /\ call'[u] = call[u]
    BY <2>3 DEF Publishing
  <2>10. Publishing(t)' /\ call'[t].req = r
    BY <2>1, <2>3 DEF Publishing
  <2>11. pending' = IF r \in Idempotent THEN [pending EXCEPT ![r] = t] ELSE pending
    BY <2>1
  <2>12. PendingInv' /\ pending' \in [Idempotent -> Threads \cup {None}]
    <3>1. \A s \in Idempotent : \A u \in Threads :
             pending[s] = u <=> Publishing(u) /\ call[u].req = s
      BY DEF Inv, PendingInv
    <3>2. \A s \in Idempotent : pending[s] # t
      BY <1>1, <3>1
    <3>3. r \in Idempotent => pending[r] = None
      BY DEF Enters
    <3>4. pending \in [Idempotent -> Threads \cup {None}] /\ \A u \in Threads : u # None
      BY <1>1, Kinds DEF TypeOK
    <3>5. \A s \in Idempotent : \A u \in Threads \ {t} : pending'[s] = u <=> pending[s] = u
      BY <2>11, <3>3, <3>4
    <3>6. \A s \in Idempotent : pending'[s] = t <=> s = r
      BY <2>11, <3>2, <3>4
    <3>7. pending' \in [Idempotent -> Threads \cup {None}]
      BY <2>11, <3>4
    <3>8. ASSUME NEW s \in Idempotent, NEW u \in Threads
          PROVE  pending'[s] = u <=> Publishing(u)' /\ call'[u].req = s
      BY <2>9, <2>10, <3>1, <3>5, <3>6
    <3> QED BY <3>7, <3>8 DEF PendingInv
  <2>13. queue' \in Seq(Items)
    <3>1. queue \in Seq(Items) /\ it \in Items
      BY <2>1, <2>4
    <3>2. Append(queue, it) \in Seq(Items)
      BY <3>1, AppendProperties
    <3> QED BY <2>1, <3>2
  <2> QED BY <1>1, <2>1, <2>2, <2>6, <2>7, <2>8, <2>12, <2>13, FollowStep DEF TypeOK
<1> QED BY <1>2, <1>3, EnqueueIs

\* A workflow transaction and a put enter the queue in the same way.
LEMMA SubmitNormalEnters ==
    ASSUME Inv, NEW t \in Threads, SubmitNormal(t)
    PROVE  /\ call[t].req \in Requests /\ Enters(t, call[t], call[t].req)
           /\ Enqueue(t, call[t], call[t].req)
           /\ pending' = IF call[t].req \in Idempotent /\ queue' # queue
                         THEN [pending EXCEPT ![call[t].req] = t] ELSE pending
           /\ overlay' = Written(call[t].req) /\ call[t].pc = "planned"
<1>1. /\ call[t].pc = "planned" /\ guard = None /\ call[t].req \in Normal
      /\ receipts[call[t].req] = {} /\ pending[call[t].req] = None /\ Matches(t)
      /\ overlay' = Written(call[t].req) /\ Enqueue(t, call[t], call[t].req)
      /\ pending' = IF queue' = queue THEN pending ELSE [pending EXCEPT ![call[t].req] = t]
  BY DEF SubmitNormal, Admitted, Submitted
<1>2. /\ call[t].req \in Requests /\ call[t].req \in Idempotent
      /\ DOMAIN call[t] = Fields /\ call[t].expect \in [Targets[call[t].req] -> Tokens]
      /\ call[t].batch = <<>> /\ call[t].outcome = None /\ call[t].gen \in Nat
  BY <1>1, CallFacts, Kinds DEF CallOK
<1>3. Enters(t, call[t], call[t].req)
  BY <1>1, <1>2 DEF Enters, Matches
<1> QED BY <1>1, <1>2, <1>3

PutCall(r) == [Idle EXCEPT !.req = r,
                           !.expect = [k \in Targets[r] |-> overlay.entries[k].token]]

LEMMA PutEnters ==
    ASSUME Inv, NEW t \in Threads, NEW r \in Puts, PutValues(t, r)
    PROVE  /\ r \in Requests /\ Enters(t, PutCall(r), r) /\ Enqueue(t, PutCall(r), r)
           /\ pending' = IF r \in Idempotent /\ queue' # queue
                         THEN [pending EXCEPT ![r] = t] ELSE pending
           /\ overlay' = Written(r) /\ call[t].pc = "idle"
<1>1. /\ call[t].pc = "idle" /\ guard = None
      /\ r \in Keyed => receipts[r] = {} /\ pending[r] = None
      /\ overlay' = Written(r) /\ Enqueue(t, PutCall(r), r)
      /\ pending' = IF r \in Keyed /\ queue' # queue THEN [pending EXCEPT ![r] = t] ELSE pending
  BY DEF PutValues, Called, PutCall
<1>2. r \in Requests /\ (r \in Idempotent <=> r \in Keyed) /\ Targets[r] \subseteq Keys
  BY Kinds, TargetsAssumption DEF Idempotent
<1>3. PICK c : c = PutCall(r)
  OBVIOUS
<1>4. \A k \in Keys : overlay.entries[k].token \in Tokens
  BY DEF Inv, TypeOK, Overlays, Entry
<1>5. /\ DOMAIN c = Fields /\ c.req = r /\ c.batch = <<>> /\ c.outcome = None /\ c.gen = 0
      /\ c.expect = [k \in Targets[r] |-> overlay.entries[k].token]
  BY <1>3 DEF PutCall, Idle, Fields
<1>6. /\ c.expect \in [Targets[r] -> Tokens]
      /\ \A k \in Targets[r] : overlay.entries[k].token = c.expect[k]
  BY <1>2, <1>4, <1>5
<1>7. Enters(t, c, r)
  BY <1>1, <1>2, <1>5, <1>6 DEF Enters
<1> QED BY <1>1, <1>2, <1>3, <1>7

LEMMA SubmitNormalStep ==
    ASSUME Inv, NEW t \in Threads, SubmitNormal(t)
    PROVE  Inv'
<1>1. UNCHANGED <<stored, receipts, guard, acked, commits>>
  BY DEF SubmitNormal
<1> QED BY <1>1, SubmitNormalEnters, WrittenIs, EnqueueStep

LEMMA PutStep ==
    ASSUME Inv, NEW t \in Threads, NEW r \in Puts, PutValues(t, r)
    PROVE  Inv'
<1>1. UNCHANGED <<stored, receipts, guard, acked, commits>>
  BY DEF PutValues
<1>2. PICK c : c = PutCall(r)
  OBVIOUS
<1>3. r \in Requests /\ Enters(t, c, r) /\ Enqueue(t, c, r) /\ overlay' = Written(r)
      /\ pending' = IF r \in Idempotent /\ queue' # queue
                    THEN [pending EXCEPT ![r] = t] ELSE pending
  BY <1>2, PutEnters
<1> QED BY <1>1, <1>3, WrittenIs, EnqueueStep

\* The last item of a batch that writes a key.
LEMMA LatestIs ==
    ASSUME NEW items \in Seq(Items), NEW k
    PROVE  /\ Latest(items, k) \in {0} \cup {i \in DOMAIN items : k \in DOMAIN items[i].entries}
           /\ \A i \in DOMAIN items : k \in DOMAIN items[i].entries => i <= Latest(items, k)
           /\ 0 \notin DOMAIN items
<1> DEFINE W == {0} \cup {i \in DOMAIN items : k \in DOMAIN items[i].entries}
<1>1. DOMAIN items = 1 .. Len(items) /\ Len(items) \in Nat
  OBVIOUS
<1>2. W \subseteq Int /\ W # {} /\ \A i \in W : i <= Len(items)
  BY <1>1
<1>3. Max(W) \in W /\ \A i \in W : i <= Max(W)
  <2> HIDE DEF W
  <2>1. W \in SUBSET Int /\ W # {} /\ Len(items) \in Int /\ \A i \in W : i <= Len(items)
    BY <1>1, <1>2
  <2> QED BY <2>1, GreatestBelow
<1>4. Latest(items, k) = Max(W)
  BY DEF Latest
<1>5. 0 \notin DOMAIN items
  BY <1>1
<1> QED BY <1>3, <1>4, <1>5

\* A commit of items of which no two have the same idempotency key, nor one that has a receipt.
Fresh(items) ==
    /\ items \in Seq(Items)
    /\ \A i, j \in DOMAIN items :
          items[i].req = items[j].req /\ items[i].req \in Idempotent => i = j
    /\ \A i \in DOMAIN items : items[i].req \in Idempotent => receipts[items[i].req] = {}

LEMMA CommitIs ==
    ASSUME Inv, NEW items, Fresh(items), Commit(items)
    PROVE  /\ stored' \in [Keys -> Entry] /\ commits' \in [Requests -> Nat]
           /\ DOMAIN receipts' = Idempotent /\ CountInv'
           /\ \A r \in Idempotent : \A expect \in receipts'[r] : expect \in [Targets[r] -> Tokens]
           /\ \A r \in Idempotent : receipts[r] # {} => receipts'[r] = receipts[r]
           /\ \A r \in Idempotent : (\A i \in DOMAIN items : items[i].req # r) =>
                 receipts'[r] = receipts[r]
           /\ \A i \in DOMAIN items : items[i].req \in Idempotent =>
                 receipts'[items[i].req] = {items[i].expect}
<1> DEFINE Mine(r) == {i \in DOMAIN items : items[i].req = r}
<1>1. /\ items \in Seq(Items) /\ DOMAIN items = 1 .. Len(items) /\ Len(items) \in Nat
      /\ \A i \in DOMAIN items : items[i] \in Items
  BY DEF Fresh
<1>2. \A i \in DOMAIN items : items[i].req \in Requests
         /\ items[i].expect \in [Targets[items[i].req] -> Tokens]
         /\ items[i].entries \in [Targets[items[i].req] -> Entry]
  BY <1>1 DEF Items
<1>3. stored' \in [Keys -> Entry]
  <2>1. ASSUME NEW k \in Keys PROVE stored'[k] \in Entry
    <3>1. PICK i : i = Latest(items, k)
      OBVIOUS
    <3>2. stored'[k] = IF i = 0 THEN stored[k] ELSE items[i].entries[k]
      BY <3>1 DEF Commit
    <3>3. \/ i = 0
          \/ i \in DOMAIN items /\ k \in DOMAIN items[i].entries
      <4>1. items \in Seq(Items)
        BY <1>1
      <4>2. i \in {0} \cup {j \in DOMAIN items : k \in DOMAIN items[j].entries}
        BY <3>1, <4>1, LatestIs
      <4> QED BY <4>2
    <3>4. i # 0 => items[i].entries[k] \in Entry
      BY <1>2, <3>3
    <3>5. stored[k] \in Entry
      BY DEF Inv, TypeOK
    <3> QED BY <3>2, <3>4, <3>5
  <2>2. stored' = [k \in Keys |-> stored'[k]]
    BY DEF Commit
  <2> QED BY <2>1, <2>2
<1>4. \A r \in Requests : commits'[r] = commits[r] + Cardinality(Mine(r))
  BY DEF Commit
<1>5. \A r : IsFiniteSet(Mine(r)) /\ Cardinality(Mine(r)) \in Nat
  <2>1. IsFiniteSet(1 .. Len(items))
    BY <1>1, FS_Interval
  <2>2. \A r : Mine(r) \subseteq 1 .. Len(items)
    BY <1>1
  <2>3. \A r : IsFiniteSet(Mine(r))
    BY <2>1, <2>2, FS_Subset
  <2> QED BY <2>3, FS_CardinalityType
<1>6. commits' \in [Requests -> Nat]
  <2>1. \A r \in Requests : commits[r] \in Nat
    BY DEF Inv, TypeOK
  <2>2. DOMAIN commits' = Requests /\ commits' = [r \in Requests |-> commits'[r]]
    BY DEF Commit
  <2> HIDE DEF Mine
  <2>3. \A r \in Requests : commits'[r] \in Nat
    BY <1>4, <1>5, <2>1
  <2> QED BY <2>2, <2>3
<1>7. \A r \in Idempotent :
         receipts'[r] = IF Mine(r) = {} THEN receipts[r] ELSE {items[i].expect : i \in Mine(r)}
  BY DEF Commit
<1>8. DOMAIN receipts' = Idempotent
  BY DEF Commit
<1>9. ASSUME NEW r \in Idempotent
      PROVE  \/ Mine(r) = {} /\ receipts'[r] = receipts[r]
             \/ \E i \in DOMAIN items : /\ Mine(r) = {i} /\ receipts[r] = {}
                                        /\ receipts'[r] = {items[i].expect} /\ items[i].req = r
  <2>1. CASE Mine(r) = {}
    BY <1>7, <2>1
  <2>2. CASE Mine(r) # {}
    <3>1. PICK i \in Mine(r) : TRUE
      BY <2>2
    <3>2. i \in DOMAIN items /\ items[i].req = r /\ receipts[r] = {}
      BY <3>1 DEF Fresh
    <3>4. \A j \in Mine(r) : j = i
      BY <3>2 DEF Fresh
    <3>5. Mine(r) = {i}
      BY <3>1, <3>4
    <3>3. receipts'[r] = {items[j].expect : j \in {i}}
      BY <1>7, <2>2, <3>5
    <3> QED BY <3>2, <3>3, <3>5
  <2> QED BY <2>1, <2>2
<1>10. CountInv'
  <2> SUFFICES ASSUME NEW r \in Idempotent
               PROVE  commits'[r] = IF receipts'[r] = {} THEN 0 ELSE 1
    BY DEF CountInv
  <2>1. r \in Requests /\ commits[r] = (IF receipts[r] = {} THEN 0 ELSE 1)
    BY Kinds DEF Inv, CountInv
  <2>2. CASE Mine(r) = {} /\ receipts'[r] = receipts[r]
    BY <1>4, <2>1, <2>2, FS_EmptySet
  <2>3. ASSUME NEW i \in DOMAIN items, Mine(r) = {i}, receipts[r] = {},
               receipts'[r] = {items[i].expect}
        PROVE  commits'[r] = IF receipts'[r] = {} THEN 0 ELSE 1
    <3>1. Cardinality({i}) = 1
      BY FS_Singleton
    <3> QED BY <1>4, <2>1, <2>3, <3>1
  <2> QED BY <1>9, <2>2, <2>3
<1>11. ASSUME NEW r \in Idempotent, NEW expect \in receipts'[r]
       PROVE  expect \in [Targets[r] -> Tokens]
  <2>1. CASE receipts'[r] = receipts[r]
    BY <2>1 DEF Inv, TypeOK
  <2>2. ASSUME NEW i \in DOMAIN items, receipts'[r] = {items[i].expect}, items[i].req = r
        PROVE  expect \in [Targets[r] -> Tokens]
    BY <1>2, <2>2
  <2> QED BY <1>9, <2>1, <2>2
<1>12. ASSUME NEW i \in DOMAIN items, items[i].req \in Idempotent
       PROVE  receipts'[items[i].req] = {items[i].expect}
  <2>1. i \in Mine(items[i].req)
    OBVIOUS
  <2> QED BY <1>9, <1>12, <2>1
<1>13. ASSUME NEW r \in Idempotent, \A i \in DOMAIN items : items[i].req # r
       PROVE  receipts'[r] = receipts[r]
  BY <1>9, <1>13
<1>14. ASSUME NEW r \in Idempotent, receipts[r] # {} PROVE receipts'[r] = receipts[r]
  BY <1>9, <1>14
<1> QED BY <1>3, <1>6, <1>8, <1>10, <1>11, <1>12, <1>13, <1>14

\* The end of the commit of a batch: its waiters have their outcome, and the call of t becomes c.
Notify(t, u) ==
    call[u].outcome = None /\ \E i \in DOMAIN call[t].batch : call[t].batch[i].by = call[u].on
Batched(t, c, result) ==
    /\ call[t].pc \in {"commit", "flushing"} /\ result \in {"ok", "err"}
    /\ call' = [u \in Threads |-> IF u = t THEN c
                                  ELSE IF Notify(t, u) THEN [call[u] EXCEPT !.outcome = result]
                                  ELSE call[u]]
    /\ CallOK(t, c) /\ c.batch = <<>>
    /\ call[t].pc = "commit" =>
          /\ c.pc = "lead" /\ c.on = t /\ c.req = call[t].req /\ c.expect = call[t].expect
          /\ c.before = call[t].before /\ guard' = guard
          /\ c.outcome = IF Notify(t, t) THEN result ELSE call[t].outcome
    /\ call[t].pc = "flushing" =>
          \/ /\ c.pc = "flush" /\ c.req = call[t].req /\ c.before = call[t].before
             /\ c.item = call[t].item /\ c.expect = call[t].expect /\ guard' = guard
             /\ c.outcome = None
          \/ c.pc \in {"idle", "returned"} /\ guard' = None /\ result = "err"
    /\ IF result = "ok" THEN Commit(call[t].batch) ELSE UNCHANGED <<stored, receipts, commits>>
    /\ UNCHANGED <<queue, pending, acked>>

\* Only calls that wait are notified, and the call that flushes is not.
LEMMA NotifyIs ==
    ASSUME Inv, NEW t \in Threads, NEW u \in Threads, Notify(t, u)
    PROVE  call[u].pc \in {"lead", "commit", "wait"} /\ call[u].on \in Threads
<1>1. PICK i \in DOMAIN call[t].batch : call[t].batch[i].by = call[u].on
  BY DEF Notify
<1>2. Line(t) = call[t].batch /\ t \in Places
  BY Kinds DEF Line, Places
<1>3. call[u].on \in Threads
  BY <1>1, <1>2, LineTyped
<1>4. CallOK(u, call[u]) /\ call[u].on # None /\ call[u].outcome = None
  BY <1>3, CallFacts, Kinds DEF Notify
<1> QED BY <1>3, <1>4 DEF CallOK, Idle, None

LEMMA CommitBatchIs ==
    ASSUME Inv, NEW t \in Threads, CommitBatch(t)
    PROVE  \E c : Batched(t, c, "ok")
<1>1. /\ call[t].pc \in {"commit", "flushing"} /\ Commit(call[t].batch)
      /\ UNCHANGED <<overlay, queue, guard, pending, acked>>
  BY DEF CommitBatch
<1>2. CallOK(t, call[t]) /\ DOMAIN call[t] = Fields /\ <<>> \in Seq(Items)
  BY CallFacts, EmptySeq
<1>3. PICK n : n = IF Notify(t, t) THEN [call[t] EXCEPT !.outcome = "ok"] ELSE call[t]
  OBVIOUS
<1>4. PICK c : c = [n EXCEPT !.batch = <<>>, !.pc = IF call[t].pc = "commit" THEN "lead" ELSE "flush"]
  OBVIOUS
<1>5. Notified(call[t].batch, "ok") =
         [u \in Threads |-> IF Notify(t, u) THEN [call[u] EXCEPT !.outcome = "ok"] ELSE call[u]]
  BY DEF Notified, Notify
<1>6. call' = [u \in Threads |-> IF u = t THEN c
                                 ELSE IF Notify(t, u) THEN [call[u] EXCEPT !.outcome = "ok"]
                                 ELSE call[u]]
  BY <1>3, <1>4, <1>5 DEF CommitBatch
<1>7. /\ DOMAIN n = Fields /\ n.req = call[t].req /\ n.on = call[t].on /\ n.gen = call[t].gen
      /\ n.expect = call[t].expect /\ n.before = call[t].before /\ n.item = call[t].item
      /\ n.outcome = IF Notify(t, t) THEN "ok" ELSE call[t].outcome
  BY <1>2, <1>3 DEF Fields
<1>8. /\ DOMAIN c = Fields /\ c.req = call[t].req /\ c.on = call[t].on /\ c.gen = call[t].gen
      /\ c.expect = call[t].expect /\ c.before = call[t].before /\ c.item = call[t].item
      /\ c.outcome = IF Notify(t, t) THEN "ok" ELSE call[t].outcome
      /\ c.batch = <<>> /\ c.pc = IF call[t].pc = "commit" THEN "lead" ELSE "flush"
  BY <1>4, <1>7 DEF Fields
<1>9. call[t].pc = "flushing" => ~Notify(t, t) /\ call[t].outcome = None
  <2>1. call[t].pc = "flushing" => call[t].outcome = None
    BY <1>2 DEF CallOK
  <2> QED BY <2>1, NotifyIs
<1>10. call[t].pc = "commit" => call[t].on = t
  BY <1>2 DEF CallOK
<1>11. CallOK(t, c)
  BY <1>1, <1>2, <1>8, <1>9 DEF CallOK
<1>12. Batched(t, c, "ok")
  BY <1>1, <1>6, <1>8, <1>9, <1>10, <1>11 DEF Batched
<1> QED BY <1>12

LEMMA FailBatchIs ==
    ASSUME Inv, NEW t \in Threads, FailBatch(t)
    PROVE  /\ \E c : Batched(t, c, "err")
           /\ \/ overlay' = overlay /\ races' = races
              \/ /\ Restored(t) /\ call[t].req \in Strict /\ call[t].pc = "flushing"
                 /\ call'[t].pc \in {"idle", "returned"}
<1>1. /\ call[t].pc \in {"commit", "flushing"} /\ UNCHANGED <<stored, receipts, commits>>
      /\ UNCHANGED <<queue, pending, acked>>
  BY DEF FailBatch, NotCommitted
<1>2. CallOK(t, call[t]) /\ DOMAIN call[t] = Fields /\ <<>> \in Seq(Items)
  BY CallFacts, EmptySeq
<1>3. PICK n : n = IF Notify(t, t) THEN [call[t] EXCEPT !.outcome = "err"] ELSE call[t]
  OBVIOUS
<1>5. Notified(call[t].batch, "err") =
         [u \in Threads |-> IF Notify(t, u) THEN [call[u] EXCEPT !.outcome = "err"] ELSE call[u]]
  BY DEF Notified, Notify
<1>7. /\ DOMAIN n = Fields /\ n.req = call[t].req /\ n.on = call[t].on /\ n.gen = call[t].gen
      /\ n.expect = call[t].expect /\ n.before = call[t].before /\ n.item = call[t].item
      /\ n.outcome = IF Notify(t, t) THEN "err" ELSE call[t].outcome
  BY <1>2, <1>3 DEF Fields
<1>9. call[t].pc = "flushing" => ~Notify(t, t)
  BY NotifyIs
<1>10. call[t].pc = "commit" => call[t].on = t
  BY <1>2 DEF CallOK
<1>11. CASE call[t].pc = "commit"
  <2>1. PICK c : c = [n EXCEPT !.batch = <<>>, !.pc = "lead"]
    OBVIOUS
  <2>2. call' = [u \in Threads |-> IF u = t THEN c
                                   ELSE IF Notify(t, u) THEN [call[u] EXCEPT !.outcome = "err"]
                                   ELSE call[u]]
    BY <1>3, <1>5, <1>11, <2>1 DEF FailBatch
  <2>3. /\ DOMAIN c = Fields /\ c.req = call[t].req /\ c.on = call[t].on /\ c.gen = call[t].gen
        /\ c.expect = call[t].expect /\ c.before = call[t].before
        /\ c.outcome = IF Notify(t, t) THEN "err" ELSE call[t].outcome
        /\ c.batch = <<>> /\ c.pc = "lead"
    BY <1>7, <2>1 DEF Fields
  <2>4. CallOK(t, c)
    BY <1>2, <1>11, <2>3 DEF CallOK
  <2>5. UNCHANGED <<overlay, guard, races>>
    BY <1>11 DEF FailBatch
  <2>6. Batched(t, c, "err")
    BY <1>1, <1>10, <1>11, <2>2, <2>3, <2>4, <2>5 DEF Batched
  <2> QED BY <2>5, <2>6
<1>12. CASE call[t].pc = "flushing"
  <2>0. n = call[t]
    BY <1>3, <1>9, <1>12
  <2>1. PICK c : c = IF call[t].req = None THEN Idle ELSE Returned(call[t], "err")
    OBVIOUS
  <2>2. call' = [u \in Threads |-> IF u = t THEN c
                                   ELSE IF Notify(t, u) THEN [call[u] EXCEPT !.outcome = "err"]
                                   ELSE call[u]]
    BY <1>3, <1>5, <1>12, <2>0, <2>1 DEF FailBatch
  <2>3. CallOK(t, c) /\ c.batch = <<>> /\ c.pc \in {"idle", "returned"}
    <3>1. CASE call[t].req = None
      BY <2>1, <3>1, IdleOK DEF Idle
    <3>2. CASE call[t].req # None
      <4>1. call[t].req \in Requests
        BY <1>2, <3>2 DEF CallOK
      <4> QED BY <1>2, <2>1, <3>2, <4>1, ReturnedOK
    <3> QED BY <3>1, <3>2
  <2>4. guard' = None
    BY <1>12 DEF FailBatch
  <2>5. \/ overlay' = overlay /\ races' = races
        \/ Restored(t) /\ call[t].req \in Strict
    BY <1>12 DEF FailBatch
  <2>6. Batched(t, c, "err")
    BY <1>1, <1>12, <2>2, <2>3, <2>4 DEF Batched
  <2>7. call'[t] = c
    BY <2>2
  <2> QED BY <1>12, <2>3, <2>5, <2>6, <2>7
<1> QED BY <1>1, <1>11, <1>12

\* A request with an idempotency key is on its way at most once, and not while a direct call
\* publishes it.
LEMMA OneItem ==
    ASSUME Inv, NEW p \in Places, NEW i \in DOMAIN Line(p), Line(p)[i].req \in Idempotent
    PROVE  /\ pending[Line(p)[i].req] = Line(p)[i].by /\ Line(p)[i].by \in Threads
           /\ \A q \in Places : \A j \in DOMAIN Line(q) :
                 Line(q)[j].req = Line(p)[i].req => p = q /\ i = j
           /\ \A t \in Threads : DirectItem(t) => call[t].req # Line(p)[i].req
<1>1. ASSUME NEW q \in Places, NEW j \in DOMAIN Line(q), Line(q)[j].req = Line(p)[i].req
      PROVE  pending[Line(p)[i].req] = Line(q)[j].by /\ Line(q)[j].by \in Threads
  <2>1. ItemOK(Line(q)[j]) /\ Line(q)[j].by \in Threads
    BY LineTyped
  <2>2. Publishing(Line(q)[j].by) /\ call[Line(q)[j].by].req = Line(p)[i].req
    BY <1>1, <2>1 DEF ItemOK, Open
  <2> QED BY <2>1, <2>2 DEF Inv, PendingInv
<1>2. pending[Line(p)[i].req] = Line(p)[i].by /\ Line(p)[i].by \in Threads
  BY <1>1
<1>3. ASSUME NEW q \in Places, NEW j \in DOMAIN Line(q), Line(q)[j].req = Line(p)[i].req
      PROVE  p = q /\ i = j
  <2>1. Line(q)[j].by = Line(p)[i].by
    BY <1>1, <1>2, <1>3
  <2> QED BY <2>1 DEF Inv, OnceInv
<1>4. ASSUME NEW t \in Threads, DirectItem(t) PROVE call[t].req # Line(p)[i].req
  <2>1. pending[call[t].req] = None
    BY <1>4 DEF DirectItem, Inv, HeldInv
  <2> QED BY <1>2, <2>1, Kinds
<1> QED BY <1>2, <1>3, <1>4

LEMMA BatchFresh ==
    ASSUME Inv, NEW t \in Threads
    PROVE  Fresh(call[t].batch) /\ t \in Places /\ Line(t) = call[t].batch
<1>1. t \in Places /\ Line(t) = call[t].batch
  BY Kinds DEF Places, Line
<1>2. Line(t) \in Seq(Items) /\ \A i \in DOMAIN Line(t) : ItemOK(Line(t)[i])
  BY <1>1, LineTyped
<1>3. \A i, j \in DOMAIN Line(t) :
          Line(t)[i].req = Line(t)[j].req /\ Line(t)[i].req \in Idempotent => i = j
  BY <1>1, OneItem
<1> QED BY <1>1, <1>2, <1>3 DEF Fresh, ItemOK

LEMMA BatchStep ==
    ASSUME Inv, NEW t \in Threads, NEW c, NEW result, Batched(t, c, result),
           overlay' \in Overlays
    PROVE  Inv'
<1> DEFINE B == call[t].batch
<1>0. /\ call[t].pc \in {"commit", "flushing"} /\ result \in {"ok", "err"}
      /\ call' = [u \in Threads |-> IF u = t THEN c
                                    ELSE IF Notify(t, u) THEN [call[u] EXCEPT !.outcome = result]
                                    ELSE call[u]]
      /\ CallOK(t, c) /\ c.batch = <<>> /\ UNCHANGED <<queue, pending, acked>>
  BY DEF Batched
<1>1. /\ Fresh(B) /\ t \in Places /\ Line(t) = B
      /\ \A i \in DOMAIN B : ItemOK(B[i]) /\ B[i].by \in Threads /\ B[i].req \in Requests
  BY BatchFresh, LineTyped
<1>2. /\ stored' \in [Keys -> Entry] /\ commits' \in [Requests -> Nat]
      /\ DOMAIN receipts' = Idempotent /\ CountInv'
      /\ \A r \in Idempotent : \A expect \in receipts'[r] : expect \in [Targets[r] -> Tokens]
      /\ \A r \in Idempotent : receipts[r] # {} => receipts'[r] # {}
      /\ \A r \in Idempotent : (\A i \in DOMAIN B : B[i].req # r) => receipts'[r] = receipts[r]
      /\ result = "ok" => \A i \in DOMAIN B : B[i].req \in Idempotent => receipts'[B[i].req] # {}
  <2>1. CASE result = "ok"
    <3>1. Commit(B)
      BY <2>1 DEF Batched
    <3> HIDE DEF B
    <3>2. /\ stored' \in [Keys -> Entry] /\ commits' \in [Requests -> Nat]
          /\ DOMAIN receipts' = Idempotent /\ CountInv'
          /\ \A r \in Idempotent : \A expect \in receipts'[r] : expect \in [Targets[r] -> Tokens]
          /\ \A r \in Idempotent : receipts[r] # {} => receipts'[r] = receipts[r]
          /\ \A r \in Idempotent : (\A i \in DOMAIN B : B[i].req # r) => receipts'[r] = receipts[r]
          /\ \A i \in DOMAIN B : B[i].req \in Idempotent => receipts'[B[i].req] = {B[i].expect}
      BY <1>1, <3>1, CommitIs
    <3> QED BY <3>2
  <2>2. CASE result # "ok"
    BY <2>2 DEF Batched, Inv, TypeOK, CountInv
  <2> QED BY <2>1, <2>2
<1> HIDE DEF B
<1>3. ASSUME NEW u \in Threads \ {t}
      PROVE  /\ CallOK(u, call'[u]) /\ call'[u].pc = call[u].pc /\ call'[u].req = call[u].req
             /\ call'[u].on = call[u].on /\ call'[u].expect = call[u].expect
             /\ call'[u].batch = call[u].batch
             /\ call'[u].outcome = IF Notify(t, u) THEN result ELSE call[u].outcome
  <2>1. CallOK(u, call[u]) /\ DOMAIN call[u] = Fields
    BY CallFacts
  <2>2. CASE ~Notify(t, u)
    BY <1>0, <2>1, <2>2
  <2>3. CASE Notify(t, u)
    <3>1. PICK d : d = [call[u] EXCEPT !.outcome = result]
      OBVIOUS
    <3>2. call'[u] = d
      BY <1>0, <2>3, <3>1
    <3>3. /\ DOMAIN d = Fields /\ d.pc = call[u].pc /\ d.req = call[u].req
          /\ d.on = call[u].on /\ d.expect = call[u].expect /\ d.batch = call[u].batch
          /\ d.outcome = result /\ d.gen = call[u].gen /\ d.before = call[u].before
          /\ d.item = call[u].item
      BY <2>1, <3>1 DEF Fields
    <3>4. call[u].pc \in {"lead", "commit", "wait"}
      BY <2>3, NotifyIs
    <3>5. CallOK(u, d)
      BY <1>0, <2>1, <3>3, <3>4 DEF CallOK
    <3> QED BY <2>3, <3>2, <3>3, <3>5
  <2> QED BY <2>2, <2>3
<1>4. call'[t] = c /\ DOMAIN call' = Threads
  BY <1>0
<1>5. guard' \in Threads \cup {None} /\ TypeOK'
  <2>1. guard' \in Threads \cup {None}
    BY DEF Batched, Inv, TypeOK
  <2>2. \A u \in Threads : CallOK(u, call'[u])
    BY <1>0, <1>3, <1>4
  <2>3. /\ queue' \in Seq(Items) /\ pending' \in [Idempotent -> Threads \cup {None}]
        /\ acked' \in [Keys -> SUBSET Tokens]
    BY <1>0 DEF Inv, TypeOK
  <2> QED BY <1>2, <1>4, <2>1, <2>2, <2>3 DEF TypeOK
<1>6. /\ Line(t)' = <<>> /\ DOMAIN Line(t)' = {}
      /\ \A p \in Places \ {t} : Line(p)' = Line(p)
  BY <1>0, <1>3, <1>4, Kinds DEF Line, Places
\* A call that is not notified goes on as before.
<1>7. ASSUME NEW u \in Threads, Open(u), \A i \in DOMAIN B : B[i].by # u
      PROVE  Open(u)' /\ call'[u].req = call[u].req /\ call'[u].expect = call[u].expect
  <2>1. ~Notify(t, u)
    BY <1>7 DEF Notify, Open, Publishing, B
  <2>2. CASE u = t
    BY <1>0, <1>4, <1>7, <2>1, <2>2 DEF Batched, Open, Publishing
  <2>3. CASE u # t
    BY <1>3, <1>7, <2>1, <2>3 DEF Open, Publishing
  <2> QED BY <2>2, <2>3
<1>8. LineInv'
  <2> SUFFICES ASSUME NEW p \in Places, NEW i \in DOMAIN Line(p)' PROVE ItemOK(Line(p)[i])'
    BY DEF LineInv
  <2>1. p # t /\ Line(p)' = Line(p) /\ i \in DOMAIN Line(p)
    BY <1>6
  <2>2. PICK it : it = Line(p)[i]
    OBVIOUS
  <2>3. ItemOK(it) /\ it.by \in Threads /\ it.req \in Requests
    BY <2>1, <2>2, LineTyped
  <2>4. \A j \in DOMAIN B : B[j].by # it.by
    BY <1>1, <2>1, <2>2 DEF Inv, OnceInv
  <2>5. it.req \in Idempotent => \A j \in DOMAIN B : B[j].req # it.req
    BY <1>1, <2>1, <2>2, OneItem
  <2>6. it.req \in Idempotent => receipts'[it.req] = {}
    BY <1>2, <2>3, <2>5 DEF ItemOK
  <2>7. /\ Open(it.by)' /\ call'[it.by].req = call[it.by].req
        /\ call'[it.by].expect = call[it.by].expect
    BY <1>7, <2>3, <2>4 DEF ItemOK
  <2> QED BY <2>1, <2>2, <2>3, <2>6, <2>7 DEF ItemOK
<1>9. OnceInv'
  <2> SUFFICES ASSUME NEW p \in Places, NEW q \in Places,
                      NEW i \in DOMAIN Line(p)', NEW j \in DOMAIN Line(q)',
                      Line(p)'[i].by = Line(q)'[j].by
               PROVE  p = q /\ i = j
    BY DEF OnceInv
  <2>1. Line(p)' = Line(p) /\ Line(q)' = Line(q)
    BY <1>6
  <2> QED BY <2>1 DEF Inv, OnceInv
<1>10. \A r \in Idempotent : pending[r] = None => receipts'[r] = receipts[r]
  <2> SUFFICES ASSUME NEW r \in Idempotent, pending[r] = None, NEW i \in DOMAIN B, B[i].req = r
               PROVE  FALSE
    BY <1>2
  <2>1. pending[r] \in Threads
    BY <1>1, OneItem
  <2> QED BY <2>1, Kinds
<1>11. HeldInv'
  <2> SUFFICES ASSUME NEW u \in Threads, Held(u)'
               PROVE  /\ guard' = u
                      /\ call'[u].req # None =>
                            receipts'[call'[u].req] = {} /\ pending'[call'[u].req] = None
    BY DEF HeldInv
  <2>1. Held(u) /\ call'[u].req = call[u].req /\ guard' = guard
    <3>1. CASE u = t
      BY <1>0, <1>4, <3>1 DEF Held, Batched
    <3>2. CASE u # t
      <4>1. Held(u) /\ call'[u].req = call[u].req
        BY <1>3, <3>2 DEF Held
      <4>2. call[t].pc = "commit"
        BY <1>0, <3>2, <4>1 DEF Held, Inv, HeldInv
      <4> QED BY <4>1, <4>2 DEF Batched
    <3> QED BY <3>1, <3>2
  <2>2. call[u].req # None => receipts[call[u].req] = {} /\ pending[call[u].req] = None
    BY <2>1 DEF Inv, HeldInv
  <2>3. call[u].req # None => call[u].req \in Idempotent
    <3>1. CallOK(u, call[u])
      BY CallFacts
    <3> QED BY <2>1, <3>1, Kinds DEF CallOK, Held
  <2>4. guard = u
    BY <2>1 DEF Inv, HeldInv
  <2> QED BY <1>0, <1>10, <2>1, <2>2, <2>3, <2>4
<1>12. JoinInv'
  <2> SUFFICES ASSUME NEW u \in Threads, call'[u].pc = "wait", call'[u].on # u,
                      call'[u].outcome = None
               PROVE  /\ Open(call[u].on)' /\ call'[call'[u].on].req = call'[u].req
                      /\ call'[call'[u].on].expect = call'[u].expect
    BY DEF JoinInv
  <2>1. u # t
    BY <1>0, <1>4 DEF Batched
  <2>2. ~Notify(t, u)
    BY <1>0, <1>3, <2>1 DEF None
  <2>3. /\ call[u].pc = "wait" /\ call[u].on # u /\ call[u].outcome = None
        /\ call'[u].on = call[u].on /\ call'[u].req = call[u].req
        /\ call'[u].expect = call[u].expect
    BY <1>3, <2>1, <2>2
  <2>4. /\ Open(call[u].on) /\ call[call[u].on].req = call[u].req
        /\ call[call[u].on].expect = call[u].expect
    BY <2>3 DEF Inv, JoinInv
  <2>5. call[u].on \in Threads
    <3>1. CallOK(u, call[u])
      BY CallFacts
    <3> QED BY <2>3, <3>1 DEF CallOK
  <2>6. \A i \in DOMAIN B : B[i].by # call[u].on
    BY <2>2, <2>3 DEF Notify, B
  <2> QED BY <1>7, <2>3, <2>4, <2>5, <2>6
<1>13. PendingInv'
  <2>1. ASSUME NEW u \in Threads
        PROVE  /\ Publishing(u)' <=> Publishing(u)
               /\ Publishing(u) => call'[u].req = call[u].req
    <3>1. CASE u # t
      BY <1>3, <3>1 DEF Publishing
    <3>2. CASE u = t
      <4>1. CallOK(t, call[t])
        BY CallFacts
      <4>2. call[t].pc = "commit" => call[t].on = t
        BY <4>1 DEF CallOK
      <4> QED BY <1>0, <1>4, <3>2, <4>2 DEF Publishing, Batched
    <3> QED BY <3>1, <3>2
  <2> QED BY <1>0, <2>1 DEF Inv, PendingInv
<1>14. OkInv'
  <2> SUFFICES ASSUME NEW u \in Threads, call'[u].pc \in {"lead", "commit", "wait"},
                      call'[u].outcome = "ok", call'[u].req \in Idempotent
               PROVE  receipts'[call'[u].req] # {}
    BY DEF OkInv
  <2>1. /\ call[u].pc \in {"lead", "commit", "wait"} /\ call'[u].req = call[u].req
        /\ call'[u].outcome = IF Notify(t, u) THEN result ELSE call[u].outcome
    <3>1. CASE u # t
      BY <1>3, <3>1
    <3>2. CASE u = t
      BY <1>0, <1>4, <3>2 DEF Batched
    <3> QED BY <3>1, <3>2
  <2>2. CASE ~Notify(t, u)
    BY <1>2, <2>1, <2>2 DEF Inv, OkInv
  <2>3. CASE Notify(t, u)
    <3>1. PICK i \in DOMAIN B : B[i].by = call[u].on
      BY <2>3 DEF Notify, B
    <3>2. call[call[u].on].req = B[i].req
      BY <1>1, <3>1 DEF ItemOK
    <3>3. call[u].req = B[i].req
      <4>1. CASE call[u].on = u
        BY <3>2, <4>1
      <4>2. CASE call[u].on # u
        <5>1. call[u].pc = "wait"
          <6>1. CallOK(u, call[u])
            BY CallFacts
          <6> QED BY <2>1, <4>2, <6>1 DEF CallOK
        <5> QED BY <2>3, <3>2, <4>2, <5>1 DEF Notify, Inv, JoinInv
      <4> QED BY <4>1, <4>2
    <3>4. result = "ok"
      BY <2>1, <2>3
    <3> QED BY <1>2, <2>1, <3>1, <3>3, <3>4
  <2> QED BY <2>2, <2>3
<1>15. AckInv'
  BY <1>0, <1>2 DEF Inv, AckInv
<1> QED BY <1>2, <1>5, <1>8, <1>9, <1>11, <1>12, <1>13, <1>14, <1>15 DEF Inv

LEMMA CommitBatchStep ==
    ASSUME Inv, NEW t \in Threads, CommitBatch(t)
    PROVE  Inv'
<1>1. overlay' \in Overlays
  BY DEF CommitBatch, Inv, TypeOK
<1> QED BY <1>1, CommitBatchIs, BatchStep

LEMMA FailBatchStep ==
    ASSUME Inv, NEW t \in Threads, FailBatch(t)
    PROVE  Inv'
<1>1. overlay' \in Overlays
  <2>1. CASE overlay' = overlay
    BY <2>1 DEF Inv, TypeOK
  <2>2. CASE Restored(t) /\ call[t].req \in Strict /\ call[t].pc = "flushing"
    <3>1. call[t].req # None /\ Held(t) /\ overlay' = call[t].before
      BY <2>2, Kinds DEF Direct, Held, Restored
    <3> QED BY <3>1, BeforeTyped
  <2> QED BY <2>1, <2>2, FailBatchIs
<1> QED BY <1>1, FailBatchIs, BatchStep

\* A direct call commits its own item.
LEMMA OwnItem ==
    ASSUME Inv, NEW t \in Threads, DirectItem(t)
    PROVE  \E it \in Items :
              /\ call[t].item = <<it>> /\ it.by = t /\ it.req = call[t].req
              /\ it.expect = call[t].expect /\ call[t].req \in Direct
              /\ call[t].item[1] = it /\ call[t].before \in Overlays
<1>1. CallOK(t, call[t])
  BY CallFacts
<1>2. /\ call[t].req \in Direct /\ Len(call[t].item) = 1 /\ call[t].item \in Seq(Items)
      /\ call[t].item[1].by = t /\ call[t].item[1].req = call[t].req
      /\ call[t].item[1].expect = call[t].expect /\ call[t].before \in Overlays
  BY <1>1 DEF CallOK, DirectItem, Held
<1>3. PICK s \in Seq(Items) : s = call[t].item
  BY <1>2
<1>4. s[1] \in Items /\ s = <<s[1]>>
  BY <1>2, <1>3
<1> QED BY <1>2, <1>3, <1>4

LEMMA OwnFresh ==
    ASSUME Inv, NEW t \in Threads, DirectItem(t)
    PROVE  Fresh(call[t].item)
<1>1. PICK it \in Items :
        /\ call[t].item = <<it>> /\ it.req = call[t].req /\ call[t].req \in Direct
  BY OwnItem
<1>2. receipts[it.req] = {} /\ it.req \in Idempotent
  BY <1>1, Kinds DEF DirectItem, Inv, HeldInv
<1>3. PICK s : s = <<it>>
  OBVIOUS
<1>4. s \in Seq(Items) /\ \A i \in DOMAIN s : i = 1 /\ s[i] = it
  BY <1>3
<1>5. Fresh(s)
  BY <1>2, <1>4 DEF Fresh
<1> QED BY <1>1, <1>3, <1>5

LEMMA CommitOwnStep ==
    ASSUME Inv, NEW t \in Threads, CommitOwn(t)
    PROVE  Inv'
<1>1. /\ call[t].pc = "own" /\ guard' = None /\ UNCHANGED <<queue, pending>>
      /\ DirectItem(t) /\ ~Publishing(t)
  <2>1. call[t].pc = "own" /\ guard' = None /\ UNCHANGED <<queue, pending>>
    BY DEF CommitOwn
  <2> QED BY <2>1, CallFacts, Kinds DEF DirectItem, Held, Publishing
<1>2. PICK it \in Items :
        /\ call[t].item = <<it>> /\ it.by = t /\ it.req = call[t].req
        /\ it.expect = call[t].expect /\ call[t].req \in Direct /\ call[t].before \in Overlays
  BY <1>1, OwnItem
<1>3. /\ CallOK(t, call[t]) /\ call[t].batch = <<>> /\ call[t].req \in Idempotent
      /\ call[t].req \in Requests /\ call[t].expect \in [Targets[call[t].req] -> Tokens]
  BY <1>1, <1>2, CallFacts, Kinds
<1>4. PICK result \in {"ok", "err"} : call' = [call EXCEPT ![t] = Returned(call[t], result)]
  BY DEF CommitOwn, Return
<1>5. PICK c : c = Returned(call[t], result)
  OBVIOUS
<1>6. /\ CallOK(t, c) /\ c.pc = "returned" /\ c.batch = <<>>
      /\ call' = [u \in Threads |-> IF u = t THEN c ELSE call[u]]
  <2>1. CallOK(t, c) /\ c.pc = "returned" /\ c.batch = <<>>
    BY <1>3, <1>5, ReturnedOK
  <2>2. DOMAIN call = Threads /\ call' = [call EXCEPT ![t] = c]
    BY <1>4, <1>5 DEF Inv, TypeOK
  <2> QED BY <2>1, <2>2
<1>7. /\ \A u \in Threads \ {t} : ~Held(u)
      /\ \A u \in Threads : ~Held(u)' /\ (Publishing(u)' <=> Publishing(u))
      /\ \A u \in Threads : Open(u) => Open(u)' /\ call'[u] = call[u]
  <2>1. guard = t
    BY <1>1 DEF Inv, HeldInv, Held
  <2>2. \A u \in Threads \ {t} : ~Held(u)
    BY <2>1 DEF Inv, HeldInv
  <2> QED BY <1>1, <1>6, <2>2 DEF Held, Publishing, Open
<1>8. HeldInv' /\ PendingInv'
  <2>1. \A u \in Threads : Publishing(u) => call'[u].req = call[u].req
    BY <1>1, <1>6
  <2> QED BY <1>1, <1>7, <2>1 DEF HeldInv, Inv, PendingInv
<1>9. CASE Commit(call[t].item) /\ Acknowledge(call[t].req, call[t].expect) /\ UNCHANGED overlay
  <2> DEFINE s == call[t].item
  <2>1. Fresh(s) /\ Commit(s)
    BY <1>1, <1>9, OwnFresh
  <2>2. DOMAIN s = {1} /\ s[1] = it
    <3>1. DOMAIN <<it>> = {1} /\ <<it>>[1] = it
      OBVIOUS
    <3> QED BY <1>2, <3>1
  <2> HIDE DEF s
  <2>3. /\ stored' \in [Keys -> Entry] /\ commits' \in [Requests -> Nat]
        /\ DOMAIN receipts' = Idempotent /\ CountInv'
        /\ \A r \in Idempotent : \A expect \in receipts'[r] : expect \in [Targets[r] -> Tokens]
        /\ \A r \in Idempotent : receipts[r] # {} => receipts'[r] = receipts[r]
        /\ \A r \in Idempotent : (\A i \in DOMAIN s : s[i].req # r) => receipts'[r] = receipts[r]
        /\ \A i \in DOMAIN s : s[i].req \in Idempotent => receipts'[s[i].req] = {s[i].expect}
    BY <2>1, CommitIs
  <2>4. /\ \A r \in Idempotent : receipts[r] # {} => receipts'[r] # {}
        /\ \A r \in Idempotent : r # call[t].req => receipts'[r] = receipts[r]
        /\ receipts'[call[t].req] # {}
    <3>1. \A r \in Idempotent : r # call[t].req => receipts'[r] = receipts[r]
      BY <1>2, <2>2, <2>3
    <3>2. receipts'[it.req] = {it.expect}
      BY <1>2, <1>3, <2>2, <2>3
    <3> QED BY <1>2, <2>3, <3>1, <3>2
  <2>5. acked' \in [Keys -> SUBSET Tokens] /\ AckInv'
    <3>1. ASSUME NEW k \in Targets[call[t].req]
          PROVE  /\ k \in Keys /\ Append(call[t].expect[k], call[t].req) \in Tokens
                 /\ Append(call[t].expect[k], call[t].req) # <<>>
                 /\ Append(call[t].expect[k], call[t].req)[Len(Append(call[t].expect[k], call[t].req))]
                       = call[t].req
      <4>1. Targets[call[t].req] \in SUBSET Keys
        BY <1>3, TargetsAssumption
      <4>2. call[t].expect[k] \in Tokens
        BY <1>3
      <4> QED BY <1>3, <4>1, <4>2, AppendLast DEF Tokens
    <3>2. acked' = [k \in Keys |-> IF k \in Targets[call[t].req]
                                   THEN acked[k] \cup {Append(call[t].expect[k], call[t].req)}
                                   ELSE acked[k]]
      BY <1>9 DEF Acknowledge
    <3>3. acked' \in [Keys -> SUBSET Tokens]
      BY <3>1, <3>2 DEF Inv, TypeOK
    <3>4. ASSUME NEW k \in Keys, NEW token \in acked'[k]
          PROVE  /\ token # <<>>
                 /\ token[Len(token)] \in Idempotent => receipts'[token[Len(token)]] # {}
      <4>1. CASE token \in acked[k]
        BY <2>4, <4>1 DEF Inv, AckInv
      <4>2. CASE k \in Targets[call[t].req] /\ token = Append(call[t].expect[k], call[t].req)
        BY <2>4, <3>1, <4>2
      <4> QED BY <3>2, <4>1, <4>2
    <3> QED BY <3>3, <3>4 DEF AckInv
  <2>6. TypeOK'
    <3>1. \A u \in Threads : CallOK(u, call'[u])
      BY <1>6 DEF Inv, TypeOK
    <3> QED BY <1>1, <1>6, <1>9, <2>3, <2>5, <3>1 DEF Inv, TypeOK
  <2>7. \A p \in Places : Line(p)' = Line(p)
    BY <1>1, <1>3, <1>6, Kinds DEF Line, Places
  <2>8. LineInv'
    <3> SUFFICES ASSUME NEW p \in Places, NEW i \in DOMAIN Line(p) PROVE ItemOK(Line(p)[i])'
      BY <2>7 DEF LineInv
    <3>1. ItemOK(Line(p)[i]) /\ Line(p)[i].by \in Threads /\ Line(p)[i].req \in Requests
      BY LineTyped
    <3>2. Line(p)[i].req \in Idempotent => receipts'[Line(p)[i].req] = {}
      <4>1. Line(p)[i].req \in Idempotent => Line(p)[i].req # call[t].req
        BY <1>1, OneItem
      <4> QED BY <2>4, <3>1, <4>1 DEF ItemOK
    <3> QED BY <1>7, <2>7, <3>1, <3>2 DEF ItemOK
  <2>9. OnceInv'
    BY <2>7 DEF Inv, OnceInv
  <2>10. JoinInv'
    <3> SUFFICES ASSUME NEW u \in Threads, call'[u].pc = "wait", call'[u].on # u,
                        call'[u].outcome = None
                 PROVE  /\ Open(call[u].on)' /\ call'[call'[u].on].req = call'[u].req
                        /\ call'[call'[u].on].expect = call'[u].expect
      BY DEF JoinInv
    <3>1. u # t /\ call'[u] = call[u]
      BY <1>6
    <3>2. CallOK(u, call[u])
      BY CallFacts
    <3>3. call[u].on \in Threads
      BY <3>1, <3>2 DEF CallOK, Idle
    <3> QED BY <1>7, <3>1, <3>3 DEF Inv, JoinInv
  <2>11. OkInv'
    BY <1>6, <2>4 DEF Inv, OkInv
  <2> QED BY <1>8, <2>3, <2>5, <2>6, <2>8, <2>9, <2>10, <2>11 DEF Inv
<1>10. CASE NotCommitted /\ Restored(t) /\ UNCHANGED acked
  <2>1. Succeeds(t, c)
    BY <1>3, <1>6, <1>1 DEF Succeeds, Follows, Open
  <2>2. AckInv' /\ overlay' \in Overlays
    BY <1>2, <1>10 DEF NotCommitted, Restored, Inv, AckInv
  <2> QED BY <1>1, <1>4, <1>5, <1>8, <1>10, <2>1, <2>2, CallStep DEF NotCommitted, Inv, TypeOK
<1> QED BY <1>9, <1>10 DEF CommitOwn

\* The file is loaded: the greatest generation of its records is that of the overlay.
LEMMA LoadedIs ==
    ASSUME TypeOK
    PROVE  /\ Loaded \in Overlays /\ Loaded.entries = stored
           /\ \A k \in Keys : stored[k].gen <= Loaded.gen
<1> DEFINE G == {stored[k].gen : k \in Keys}
           f == [k \in Keys |-> stored[k].gen]
<1>1. \A k \in Keys : stored[k] \in Entry /\ stored[k].gen \in Nat
  BY DEF TypeOK, Entry
<1>2. f \in Surjection(Keys, G)
  BY DEF Surjection
<1>3. IsFiniteSet(G)
  <2> HIDE DEF f, G
  <2> QED BY <1>2, KeysAssumption, FS_Surjection
<1>4. G \in SUBSET Nat /\ G \in SUBSET Int /\ G # {}
  BY <1>1, KeysAssumption
<1>5. Max(G) \in G /\ \A y \in G : y <= Max(G)
  <2> HIDE DEF G
  <2> QED BY <1>3, <1>4, GreatestFinite
<1>6. Max(G) \in Nat /\ \A k \in Keys : stored[k].gen <= Max(G)
  BY <1>4, <1>5
<1>7. Loaded = [gen |-> Max(G), entries |-> stored]
  BY DEF Loaded
<1> HIDE DEF G
<1> QED BY <1>6, <1>7 DEF Overlays, TypeOK

LEMMA CrashStep ==
    ASSUME Inv, Crash
    PROVE  Inv'
<1>1. /\ overlay' = Loaded /\ queue' = <<>> /\ guard' = None
      /\ pending' = [r \in Idempotent |-> None]
      /\ UNCHANGED <<stored, receipts, acked, commits>>
  BY DEF Crash
<1>2. ASSUME NEW t \in Threads
      PROVE  /\ CallOK(t, call'[t]) /\ call'[t].pc \in {"idle", "planned"}
             /\ call'[t].on = None /\ call'[t].batch = <<>>
  <2>1. CallOK(t, call[t]) /\ <<>> \in Seq(Items) /\ call[t].gen \in Nat
    BY CallFacts, EmptySeq DEF CallOK
  <2>2. CASE call[t].req \in Workflows
    <3>1. PICK c : c = [Idle EXCEPT !.pc = "planned", !.req = call[t].req,
                           !.expect = call[t].expect, !.gen = call[t].gen]
      OBVIOUS
    <3>2. call'[t] = c
      BY <2>2, <3>1 DEF Crash
    <3>3. /\ DOMAIN c = Fields /\ c.pc = "planned" /\ c.req = call[t].req
          /\ c.expect = call[t].expect /\ c.gen = call[t].gen /\ c.on = None /\ c.outcome = None
          /\ c.batch = <<>>
      BY <3>1 DEF Idle, Fields
    <3>4. CallOK(t, c)
      BY <2>1, <2>2, <3>3, Kinds DEF CallOK
    <3> QED BY <3>2, <3>3, <3>4
  <2>3. CASE call[t].req \notin Workflows
    BY <2>3, IdleOK DEF Crash, Idle
  <2> QED BY <2>2, <2>3
<1>3. \A p \in Places : Line(p)' = <<>>
  BY <1>1, <1>2 DEF Line, Places
<1>4. \A t \in Threads : ~Publishing(t)' /\ ~Held(t)'
  BY <1>2 DEF Publishing, Held
<1>5. TypeOK'
  <2>1. DOMAIN call' = Threads
    BY DEF Crash
  <2>2. overlay' \in Overlays
    BY <1>1, LoadedIs DEF Inv
  <2>3. queue' \in Seq(Items) /\ pending' \in [Idempotent -> Threads \cup {None}]
    BY <1>1, EmptySeq
  <2> QED BY <1>1, <1>2, <2>1, <2>2, <2>3 DEF TypeOK, Inv
<1>6. LineInv' /\ OnceInv'
  <2>1. \A p \in Places : DOMAIN Line(p)' = {}
    BY <1>3
  <2> QED BY <2>1 DEF LineInv, OnceInv
<1>7. HeldInv' /\ JoinInv' /\ OkInv'
  BY <1>2, <1>4 DEF HeldInv, JoinInv, OkInv
<1>8. PendingInv'
  BY <1>1, <1>4, Kinds DEF PendingInv
<1>9. CountInv' /\ AckInv'
  BY <1>1 DEF Inv, CountInv, AckInv
<1> QED BY <1>5, <1>6, <1>7, <1>8, <1>9 DEF Inv

LEMMA InitInv == Init => Inv
<1> SUFFICES ASSUME Init PROVE Inv
  OBVIOUS
<1>1. \A t \in Threads : call[t] = Idle /\ CallOK(t, call[t])
  BY IdleOK DEF Init
<1>2. TypeOK
  <2>1. NoEntry \in Entry
    BY EmptySeq DEF NoEntry, Entry, Tokens
  <2>2. overlay \in Overlays /\ stored \in [Keys -> Entry]
    BY <2>1 DEF Init, Overlays
  <2>3. queue \in Seq(Items)
    BY EmptySeq DEF Init
  <2> QED BY <1>1, <2>2, <2>3 DEF Init, TypeOK
<1>3. \A t \in Threads : ~Publishing(t) /\ ~Held(t) /\ call[t].pc = "idle" /\ call[t].batch = <<>>
  BY <1>1 DEF Idle, Publishing, Held
<1>4. \A p \in Places : DOMAIN Line(p) = {}
  <2>1. \A p \in Places : Line(p) = <<>>
    BY <1>3 DEF Line, Places, Init
  <2> QED BY <2>1
<1>5. LineInv /\ OnceInv
  BY <1>4 DEF LineInv, OnceInv
<1>6. HeldInv /\ JoinInv /\ OkInv
  BY <1>3 DEF HeldInv, JoinInv, OkInv
<1>7. PendingInv
  BY <1>3, Kinds DEF PendingInv, Init
<1>8. CountInv /\ AckInv
  BY Kinds DEF CountInv, AckInv, Init
<1> QED BY <1>2, <1>5, <1>6, <1>7, <1>8 DEF Inv

LEMMA NextInv == Inv /\ [Next]_vars => Inv'
<1> SUFFICES ASSUME Inv, [Next]_vars PROVE Inv'
  OBVIOUS
<1>1. CASE Crash
  BY <1>1, CrashStep
<1>2. ASSUME NEW t \in Threads, Enter(t) PROVE Inv'
  BY <1>2, PlanStep, AnswerStep, JoinStep, SubmitNormalStep, SubmitDirectStep, PutStep,
     PutAgainStep, FlushStep, RetryStep, ForgetStep DEF Enter
<1>3. ASSUME NEW t \in Threads, Proceed(t) PROVE Inv'
  BY <1>3, DrainStep, DrainEndsStep, CommitBatchStep, FailBatchStep, CommitOwnStep, SettleStep,
     RestoreStep DEF Proceed
<1>4. CASE UNCHANGED vars
  <2>1. /\ UNCHANGED <<overlay, stored, receipts, queue, guard, pending, call>>
        /\ UNCHANGED <<acked, commits>>
    BY <1>4 DEF vars
  <2>2. \A p \in Places : Line(p)' = Line(p)
    BY <2>1 DEF Line
  <2>3. /\ \A t : (Publishing(t)' <=> Publishing(t)) /\ (Open(t)' <=> Open(t))
        /\ \A t : Held(t)' <=> Held(t)
    BY <2>1 DEF Publishing, Open, Held
  <2>4. \A it : ItemOK(it)' <=> ItemOK(it)
    BY <2>1 DEF ItemOK, Open, Publishing
  <2>5. TypeOK'
    BY <2>1 DEF Inv, TypeOK
  <2>6. LineInv' /\ OnceInv'
    BY <2>2, <2>4 DEF Inv, LineInv, OnceInv
  <2>7. HeldInv' /\ JoinInv' /\ PendingInv'
    BY <2>1, <2>3 DEF Inv, HeldInv, JoinInv, PendingInv
  <2>8. CountInv' /\ OkInv' /\ AckInv'
    BY <2>1 DEF Inv, CountInv, OkInv, AckInv
  <2> QED BY <2>5, <2>6, <2>7, <2>8 DEF Inv
<1> QED BY <1>1, <1>2, <1>3, <1>4 DEF Next

\* The bookkeeping of the queue, the guard and the waiters is inductive.
THEOREM Invariant == Spec => []Inv
BY InitInv, NextInv, PTL DEF Spec

\* A request with an idempotency key reaches the file at most once, for any number of callers,
\* keys, requests, calls, failed commits and crashes: receipts and pending registrations keep
\* commit_workflow_transaction and put_mutable_overlay_value_idempotent from doing it again.
THEOREM OnceOnly == Spec => []ExactlyOnce
<1>1. Inv => ExactlyOnce
  BY Kinds DEF Inv, CountInv, ExactlyOnce
<1> QED BY <1>1, Invariant, PTL

------------------------------------------------------------------------------
(* ---- records ---- *)

\* e is a record of k: on its way or of a direct call, or in the file.
Moving(k, e, by) ==
    \/ \E p \in Places : \E i \in DOMAIN Line(p) :
          k \in Targets[Line(p)[i].req] /\ e = Line(p)[i].entries[k] /\ by = Line(p)[i].by
    \/ /\ by \in Threads /\ DirectItem(by) /\ k \in Targets[call[by].req]
       /\ e = call[by].item[1].entries[k]
Rec(k, e, by) == Moving(k, e, by) \/ (k \in Keys /\ e = stored[k] /\ by = None)

LEMMA RecordsAre ==
    /\ RecordInv <=> \A k, e, by : Rec(k, e, by) => RecordOK(k, e, by)
    /\ AheadInv <=> \A k, e, by : Moving(k, e, by) => IsPrefix(stored[k].token, e.token)
BY DEF RecordInv, AheadInv, Rec, Moving

LEMMA RecordsWillBe ==
    /\ RecordInv' <=> \A k, e, by : Rec(k, e, by)' => RecordOK(k, e, by)'
    /\ AheadInv' <=> \A k, e, by : Moving(k, e, by)' => IsPrefix(stored'[k].token, e.token)
BY DEF RecordInv, AheadInv, Rec, Moving

LEMMA RecTyped ==
    ASSUME Inv, NEW k, NEW e, NEW by, Rec(k, e, by)
    PROVE  e \in Entry /\ k \in Keys /\ e.gen \in Nat /\ e.token \in Seq(Requests)
<1>1. ASSUME NEW it \in Items, k \in Targets[it.req]
      PROVE  it.entries[k] \in Entry /\ k \in Keys
  <2>1. it.req \in Requests /\ it.entries \in [Targets[it.req] -> Entry]
    BY DEF Items
  <2> QED BY <1>1, <2>1, TargetsAssumption
<1>2. CASE k \in Keys /\ e = stored[k]
  BY <1>2 DEF Inv, TypeOK, Entry, Tokens
<1>3. ASSUME NEW p \in Places, NEW i \in DOMAIN Line(p), k \in Targets[Line(p)[i].req],
             e = Line(p)[i].entries[k]
      PROVE  e \in Entry /\ k \in Keys
  BY <1>1, <1>3, LineTyped
<1>4. ASSUME by \in Threads, DirectItem(by), k \in Targets[call[by].req],
             e = call[by].item[1].entries[k]
      PROVE  e \in Entry /\ k \in Keys
  BY <1>1, <1>4, OwnItem
<1>5. e \in Entry /\ k \in Keys
  BY <1>2, <1>3, <1>4 DEF Rec, Moving
<1> QED BY <1>5 DEF Entry, Tokens

LEMMA OverlayTyped ==
    ASSUME Inv
    PROVE  /\ overlay.gen \in Nat
           /\ \A k \in Keys : overlay.entries[k] \in Entry /\ overlay.entries[k].token \in Seq(Requests)
           /\ \A t \in Threads : Undoable(t) =>
                 /\ call[t].before \in Overlays /\ call[t].before.gen \in Nat
                 /\ \A k \in Keys : call[t].before.entries[k].token \in Seq(Requests)
<1>1. overlay \in Overlays
  BY DEF Inv, TypeOK
<1>2. ASSUME NEW t \in Threads, Undoable(t) PROVE call[t].before \in Overlays
  BY <1>2, BeforeTyped DEF Undoable, Publishing, Held
<1> QED BY <1>1, <1>2 DEF Overlays, Entry, Tokens

\* A step that takes nothing new on its way: lines stay, go, or become a batch.
Calm ==
    /\ \/ queue' = <<>> /\ \A p \in Places : Line(p)' = <<>> \/ \E q \in Places : Line(p)' = Line(q)
       \/ queue' = queue /\ \A t \in Threads : Line(t)' = <<>> \/ Line(t)' = Line(t)
    /\ \A t \in Threads : DirectItem(t)' => /\ DirectItem(t) /\ call'[t].req = call[t].req
                                            /\ call'[t].item = call[t].item
    /\ \A t \in Threads : Undoable(t)' => Undoable(t) /\ call'[t].before = call[t].before

LEMMA CalmLines ==
    ASSUME Calm
    PROVE  /\ \A p \in Places : Line(p)' = <<>> \/ \E q \in Places : Line(p)' = Line(q)
           /\ queue' = <<>> \/ queue' = queue
<1>1. Line(None)' = queue' /\ Line(None) = queue /\ None \in Places /\ Places = Threads \cup {None}
  BY DEF Line, Places
<1> QED BY <1>1 DEF Calm

LEMMA CalmRecords ==
    ASSUME Calm, NEW k, NEW e, NEW by, Moving(k, e, by)'
    PROVE  Moving(k, e, by)
<1>1. ASSUME NEW p \in Places, NEW i \in DOMAIN Line(p)', k \in Targets[Line(p)'[i].req],
             e = Line(p)'[i].entries[k], by = Line(p)'[i].by
      PROVE  Moving(k, e, by)
  <2>1. Line(p)' # <<>>
    BY <1>1
  <2>2. PICK q \in Places : Line(p)' = Line(q)
    BY <2>1, CalmLines
  <2> QED BY <1>1, <2>2 DEF Moving
<1>2. ASSUME by \in Threads, DirectItem(by)', k \in Targets[call'[by].req],
             e = call'[by].item[1].entries[k]
      PROVE  Moving(k, e, by)
  BY <1>2 DEF Calm, Moving
<1> QED BY <1>1, <1>2 DEF Moving

LEMMA CalmOrder ==
    ASSUME OrderInv, Calm
    PROVE  OrderInv'
<1>1. ASSUME NEW p \in Places, NEW i \in DOMAIN Line(p)', NEW j \in DOMAIN Line(p)', i < j,
             NEW k \in Targets[Line(p)'[i].req] \cap Targets[Line(p)'[j].req]
      PROVE  IsPrefix(Line(p)'[i].entries[k].token, Line(p)'[j].entries[k].token)
  <2>1. PICK q \in Places : Line(p)' = Line(q)
    BY CalmLines
  <2> QED BY <1>1, <2>1 DEF OrderInv
<1>2. ASSUME NEW t \in Threads, NEW i \in DOMAIN call'[t].batch, NEW j \in DOMAIN queue',
             NEW k \in Targets[call'[t].batch[i].req] \cap Targets[queue'[j].req]
      PROVE  IsPrefix(call'[t].batch[i].entries[k].token, queue'[j].entries[k].token)
  <2>1. queue' # <<>> /\ call'[t].batch # <<>>
    OBVIOUS
  <2>2. Line(t)' = call'[t].batch /\ Line(t) = call[t].batch
    BY Kinds DEF Line
  <2>3. queue' = queue /\ call'[t].batch = call[t].batch
    BY <2>1, <2>2 DEF Calm
  <2> QED BY <2>3 DEF OrderInv
<1>3. ASSUME NEW t \in Threads, NEW p \in Places, DirectItem(t)', NEW i \in DOMAIN Line(p)',
             NEW k \in Targets[Line(p)'[i].req] \cap Targets[call'[t].req]
      PROVE  IsPrefix(Line(p)'[i].entries[k].token, call'[t].item[1].entries[k].token)
  <2>1. PICK q \in Places : Line(p)' = Line(q)
    BY CalmLines
  <2>2. DirectItem(t) /\ call'[t].req = call[t].req /\ call'[t].item = call[t].item
    BY <1>3 DEF Calm
  <2> QED BY <2>1, <2>2 DEF OrderInv
<1> QED BY <1>1, <1>2, <1>3 DEF OrderInv

\* Records stay, or those of calls that are over are in the file.
LEMMA SameRecords ==
    ASSUME RecordInv, UndoInv, Calm, overlay' = overlay,
           \A k \in Keys : \/ stored'[k] = stored[k]
                           \/ \E b \in Threads : Rec(k, stored'[k], b) /\ ~Undoable(b)'
    PROVE  RecordInv' /\ UndoInv'
<1>1. UndoInv'
  BY DEF UndoInv, Calm
<1>2. ASSUME NEW k, NEW e, NEW by, Rec(k, e, by)' PROVE RecordOK(k, e, by)'
  <2>1. PICK b : Rec(k, e, b) /\ (b = by \/ (b \in Threads /\ ~Undoable(b)'))
    <3>1. CASE Moving(k, e, by)'
      BY <3>1, CalmRecords DEF Rec
    <3>2. CASE k \in Keys /\ e = stored'[k] /\ by = None
      BY <3>2 DEF Rec
    <3> QED BY <1>2, <3>1, <3>2 DEF Rec
  <2>2. RecordOK(k, e, b)
    BY <2>1, RecordsAre
  <2>3. ASSUME NEW t \in Threads \ {by}, Undoable(t)' PROVE Apart(t, k, e)'
    <3>1. t # b /\ Undoable(t) /\ call'[t].before = call[t].before
      BY <2>1, <2>3 DEF Calm
    <3> QED BY <2>2, <3>1 DEF RecordOK, Apart
  <2> QED BY <2>2, <2>3 DEF RecordOK
<1> QED BY <1>1, <1>2, RecordsWillBe

\* A call puts back the overlay that it has found, and that no other call has written to.
LEMMA RestoredRecords ==
    ASSUME Inv, RecordInv, UndoInv, Calm, UNCHANGED stored, NEW t \in Threads, Undoable(t),
           ~Undoable(t)', overlay' = call[t].before, overlay.gen = call[t].before.gen + 1,
           \A k, e : ~Moving(k, e, t)'
    PROVE  RecordInv' /\ UndoInv'
<1>0. call[t].before.gen \in Nat /\ overlay.gen \in Nat
  BY OverlayTyped
<1>1. UndoInv'
  <2>1. ASSUME NEW u \in Threads, Undoable(u)' PROVE call'[u].before.gen < overlay'.gen
    <3>1. Undoable(u) /\ call'[u].before = call[u].before /\ u # t
      BY <2>1 DEF Calm
    <3>2. call[u].before.gen \in Nat
      BY <3>1, OverlayTyped
    <3>3. call[u].before.gen < overlay.gen /\ call[u].before.gen # call[t].before.gen
      BY <3>1 DEF UndoInv
    <3> QED BY <1>0, <3>1, <3>2, <3>3
  <2>2. ASSUME NEW u \in Threads, NEW v \in Threads, Undoable(u)', Undoable(v)', u # v
        PROVE  call'[u].before.gen # call'[v].before.gen
    BY <2>2 DEF UndoInv, Calm
  <2> QED BY <2>1, <2>2 DEF UndoInv
<1>2. ASSUME NEW k, NEW e, NEW by, Rec(k, e, by)' PROVE RecordOK(k, e, by)'
  <2>1. Rec(k, e, by) /\ by # t
    <3>1. CASE Moving(k, e, by)'
      BY <3>1, CalmRecords DEF Rec
    <3>2. CASE k \in Keys /\ e = stored'[k] /\ by = None
      BY <3>2, Kinds DEF Rec
    <3> QED BY <1>2, <3>1, <3>2 DEF Rec
  <2>2. RecordOK(k, e, by) /\ e.gen \in Nat
    BY <2>1, RecordsAre, RecTyped
  <2>3. Apart(t, k, e) /\ e.gen <= overlay.gen
    BY <2>1, <2>2 DEF RecordOK
  <2>4. e.gen <= call[t].before.gen /\ IsPrefix(e.token, call[t].before.entries[k].token)
    BY <1>0, <2>2, <2>3 DEF Apart
  <2>5. ASSUME NEW u \in Threads \ {by}, Undoable(u)' PROVE Apart(u, k, e)'
    <3>1. Undoable(u) /\ call'[u].before = call[u].before
      BY <2>5 DEF Calm
    <3> QED BY <2>2, <3>1 DEF RecordOK, Apart
  <2> QED BY <2>4, <2>5 DEF RecordOK
<1> QED BY <1>1, <1>2, RecordsWillBe

\* A request writes to the overlay: its records extend all others.
LEMMA WrittenRecords ==
    ASSUME Inv, RecordInv, UndoInv, UNCHANGED stored, NEW t \in Threads, NEW r \in Requests,
           overlay' = Written(r),
           \A k, e, by : Moving(k, e, by)' =>
              \/ Moving(k, e, by)
              \/ by = t /\ k \in Targets[r] /\ e = Written(r).entries[k],
           \A u \in Threads : Undoable(u)' =>
              \/ u # t /\ Undoable(u) /\ call'[u].before = call[u].before
              \/ u = t /\ call'[u].before = overlay
    PROVE  RecordInv' /\ UndoInv'
<1>0. overlay.gen \in Nat /\ overlay'.gen = overlay.gen + 1
  BY OverlayTyped, WrittenIs
<1>1. ASSUME NEW u \in Threads, Undoable(u)'
      PROVE  /\ call'[u].before.gen \in Nat /\ call'[u].before.gen <= overlay.gen
             /\ call'[u].before.gen = overlay.gen <=> u = t
  <2>1. CASE u = t
    BY <1>0, <1>1, <2>1
  <2>2. CASE u # t
    <3>1. Undoable(u) /\ call'[u].before = call[u].before
      BY <1>1, <2>2
    <3>2. call[u].before.gen \in Nat /\ call[u].before.gen < overlay.gen
      BY <3>1, OverlayTyped DEF UndoInv
    <3> QED BY <1>0, <2>2, <3>1, <3>2
  <2> QED BY <2>1, <2>2
<1>2. UndoInv'
  <2>1. ASSUME NEW u \in Threads, Undoable(u)' PROVE call'[u].before.gen < overlay'.gen
    BY <1>0, <1>1, <2>1
  <2>2. ASSUME NEW u \in Threads, NEW v \in Threads, Undoable(u)', Undoable(v)', u # v
        PROVE  call'[u].before.gen # call'[v].before.gen
    BY <1>1, <2>2 DEF UndoInv
  <2> QED BY <2>1, <2>2 DEF UndoInv
<1>3. ASSUME NEW k \in Keys
      PROVE  /\ IsPrefix(overlay.entries[k].token, overlay'.entries[k].token)
             /\ overlay.entries[k].token \in Seq(Requests)
             /\ overlay'.entries[k].token \in Seq(Requests)
             /\ k \in Targets[r] => overlay'.entries[k].gen = overlay.gen + 1
  <2>1. overlay.entries[k].token \in Seq(Requests)
    BY OverlayTyped
  <2>2. IsPrefix(overlay.entries[k].token, overlay.entries[k].token)
    BY <2>1, PrefixSelf
  <2>3. /\ IsPrefix(overlay.entries[k].token, Append(overlay.entries[k].token, r))
        /\ Append(overlay.entries[k].token, r) \in Seq(Requests)
    BY <2>1, <2>2, PrefixAppend
  <2>4. overlay'.entries[k] = IF k \in Targets[r]
          THEN [gen |-> overlay.gen + 1, token |-> Append(overlay.entries[k].token, r)]
          ELSE overlay.entries[k]
    BY WrittenIs
  <2>5. CASE k \in Targets[r]
    BY <2>1, <2>3, <2>4, <2>5
  <2>6. CASE k \notin Targets[r]
    BY <2>1, <2>2, <2>4, <2>6
  <2> QED BY <2>5, <2>6
<1>4. ASSUME NEW k, NEW e, NEW by, Rec(k, e, by) PROVE RecordOK(k, e, by)'
  <2>1. /\ RecordOK(k, e, by) /\ k \in Keys /\ e.gen \in Nat /\ e.token \in Seq(Requests)
        /\ IsPrefix(e.token, overlay.entries[k].token) /\ e.gen <= overlay.gen
    BY <1>4, RecordsAre, RecTyped DEF RecordOK
  <2>2. IsPrefix(e.token, overlay'.entries[k].token)
    BY <1>3, <2>1, PrefixTrans
  <2>3. e.gen <= overlay'.gen
    BY <1>0, <2>1
  <2>4. ASSUME NEW u \in Threads \ {by}, Undoable(u)' PROVE Apart(u, k, e)'
    <3>1. CASE u = t
      <4>1. call'[u].before = overlay
        BY <2>4, <3>1
      <4> QED BY <2>1, <4>1 DEF Apart
    <3>2. CASE u # t
      <4>1. Undoable(u) /\ call'[u].before = call[u].before
        BY <2>4, <3>2
      <4> QED BY <2>1, <4>1 DEF RecordOK, Apart
    <3> QED BY <3>1, <3>2
  <2> QED BY <2>2, <2>3, <2>4 DEF RecordOK
<1>5. ASSUME NEW k \in Targets[r], NEW e, e = Written(r).entries[k] PROVE RecordOK(k, e, t)'
  <2>1. k \in Keys
    BY TargetsAssumption
  <2>3. e = overlay'.entries[k] /\ e.gen = overlay.gen + 1 /\ e.token \in Seq(Requests)
    BY <1>3, <1>5, <2>1
  <2>4. IsPrefix(e.token, overlay'.entries[k].token) /\ e.gen <= overlay'.gen
    BY <1>0, <2>3, PrefixSelf
  <2>5. ASSUME NEW u \in Threads \ {t}, Undoable(u)' PROVE Apart(u, k, e)'
    <3>1. call[u].before.gen \in Nat /\ call[u].before.gen < overlay.gen
          /\ call'[u].before = call[u].before
      BY <2>5, OverlayTyped DEF UndoInv
    <3>2. e.gen > call'[u].before.gen + 1
      BY <1>0, <2>3, <3>1
    <3> QED BY <3>2 DEF Apart
  <2> QED BY <2>4, <2>5 DEF RecordOK
<1>6. ASSUME NEW k, NEW e, NEW by, Rec(k, e, by)' PROVE RecordOK(k, e, by)'
  <2>1. CASE Moving(k, e, by)'
    BY <1>4, <1>5, <2>1 DEF Rec
  <2>2. CASE k \in Keys /\ e = stored'[k] /\ by = None
    BY <1>4, <2>2 DEF Rec
  <2> QED BY <1>6, <2>1, <2>2 DEF Rec
<1> QED BY <1>2, <1>6, RecordsWillBe

(* ---- the two invariants, step by step ---- *)

Layer == RollInv /\ KeptInv

\* A step that does not change the file, and acknowledges what it has.
LEMMA CalmKept ==
    ASSUME Kept, Calm, UNCHANGED <<stored, receipts>>,
           \A t \in Threads : OkCall(t)' =>
              \/ OkCall(t) /\ call'[t].expect = call[t].expect /\ call'[t].req = call[t].req
              \/ InFile(call'[t].expect, call'[t].req),
           \A k \in Keys : \A token \in acked'[k] :
              token \in acked[k] \/ IsPrefix(token, stored[k].token)
    PROVE  Kept'
<1>1. AheadInv'
  <2>1. \A k, e, by : Moving(k, e, by)' => IsPrefix(stored[k].token, e.token)
    BY CalmRecords, RecordsAre DEF Kept
  <2>2. stored' = stored
    OBVIOUS
  <2> QED BY <2>1, <2>2, RecordsWillBe
<1>2. ReceiptInv' /\ DoneInv'
  BY DEF Kept, ReceiptInv, DoneInv, InFile
<1>3. AckedKept'
  BY DEF Kept, AckedKept
<1> QED BY <1>1, <1>2, <1>3 DEF Kept

LEMMA QuietLayer ==
    ASSUME Inv, Layer, Calm, UNCHANGED <<overlay, stored, receipts, races>>,
           KeptInv /\ races = {} =>
              /\ \A t \in Threads : OkCall(t)' =>
                    \/ OkCall(t) /\ call'[t].expect = call[t].expect /\ call'[t].req = call[t].req
                    \/ InFile(call'[t].expect, call'[t].req)
              /\ \A k \in Keys : \A token \in acked'[k] :
                    token \in acked[k] \/ IsPrefix(token, stored[k].token)
    PROVE  Layer'
<1>1. RollInv'
  BY SameRecords, CalmOrder DEF Layer, RollInv
<1>2. ASSUME races = {} PROVE Kept'
  <2>1. KeptInv /\ Kept
    BY <1>2 DEF Layer, KeptInv
  <2> QED BY <1>2, <2>1, CalmKept
<1> QED BY <1>1, <1>2 DEF Layer, KeptInv

\* One call changes, and neither publishes nor holds more than before.
LEMMA CalmCall ==
    ASSUME Inv, NEW t \in Threads, NEW c, call' = [call EXCEPT ![t] = c],
           c.batch = call[t].batch, UNCHANGED queue,
           DirectItem(t)' => /\ DirectItem(t) /\ c.req = call[t].req /\ c.item = call[t].item,
           Undoable(t)' => Undoable(t) /\ c.before = call[t].before
    PROVE  /\ Calm /\ call' = [u \in Threads |-> IF u = t THEN c ELSE call[u]]
           /\ \A u \in Threads \ {t} : OkCall(u)' => OkCall(u) /\ call'[u] = call[u]
<1>1. call' = [u \in Threads |-> IF u = t THEN c ELSE call[u]]
  BY DEF Inv, TypeOK
<1>2. \A u \in Threads : Line(u)' = Line(u)
  BY <1>1, Kinds DEF Line
<1>3. \A u \in Threads \ {t} : /\ DirectItem(u)' <=> DirectItem(u)
                               /\ Undoable(u)' <=> Undoable(u)
                               /\ OkCall(u)' <=> OkCall(u)
                               /\ call'[u] = call[u]
  BY <1>1 DEF DirectItem, Held, Undoable, OkCall
<1>4. call'[t] = c
  BY <1>1
<1>5. Calm
  BY <1>2, <1>3, <1>4 DEF Calm
<1> QED BY <1>1, <1>3, <1>5

LEMMA PassiveLayer ==
    ASSUME Inv, Layer, NEW t \in Threads, NEW c, call' = [call EXCEPT ![t] = c],
           c.batch = call[t].batch,
           \/ c.pc \in {"idle", "planned", "returned"}
           \/ c.pc = "wait" /\ c.on # t /\ c.outcome # "ok"
           \/ c.pc = "flush" /\ c.req = None,
           UNCHANGED <<overlay, stored, receipts, queue, races>>,
           KeptInv /\ races = {} => \A k \in Keys : \A token \in acked'[k] :
                    token \in acked[k] \/ IsPrefix(token, stored[k].token)
    PROVE  Layer'
<1>1. call'[t] = c
  BY DEF Inv, TypeOK
<1>2. ~DirectItem(t)' /\ ~Undoable(t)' /\ ~OkCall(t)'
  BY <1>1 DEF DirectItem, Held, Undoable, OkCall
<1>3. Calm /\ \A u \in Threads \ {t} : OkCall(u)' => OkCall(u) /\ call'[u] = call[u]
  BY <1>2, CalmCall
<1> QED BY <1>2, <1>3, QuietLayer

\* What is acknowledged is in the file.
LEMMA AckedInFile ==
    ASSUME NEW r \in Requests, NEW expect, Acknowledge(r, expect), InFile(expect, r)
    PROVE  \A k \in Keys : \A token \in acked'[k] :
              token \in acked[k] \/ IsPrefix(token, stored[k].token)
BY DEF Acknowledge, InFile

LEMMA PlanLayer ==
    ASSUME Inv, Layer, NEW t \in Threads, NEW r \in Workflows, Plan(t, r)
    PROVE  Layer'
<1>1. PICK c : c = [Idle EXCEPT !.pc = "planned", !.req = r, !.gen = overlay.gen,
                    !.expect = [k \in Targets[r] |-> overlay.entries[k].token]]
  OBVIOUS
<1>2. /\ call[t] = Idle /\ call' = [call EXCEPT ![t] = c]
      /\ UNCHANGED <<overlay, stored, receipts, queue, races, acked>>
  BY <1>1, CallFacts DEF Plan
<1>3. c.pc = "planned" /\ c.batch = call[t].batch
  BY <1>1, <1>2 DEF Idle
<1> QED BY <1>2, <1>3, PassiveLayer

LEMMA AnswerLayer ==
    ASSUME Inv, Layer, NEW t \in Threads, Answer(t)
    PROVE  Layer'
<1>1. /\ call[t].pc = "planned" /\ UNCHANGED <<overlay, stored, receipts, queue, races>>
  BY DEF Answer, Submitted, Untouched
<1>2. /\ CallOK(t, call[t]) /\ call[t].batch = <<>> /\ call[t].req \in Requests
      /\ call[t].req \in Idempotent
  BY <1>1, CallFacts, Kinds
<1>3. PICK result \in {"ok", "err"} : call' = [call EXCEPT ![t] = Returned(call[t], result)]
  BY DEF Answer, Return
<1>4. PICK c : c = Returned(call[t], result)
  OBVIOUS
<1>5. c.pc = "returned" /\ c.batch = <<>>
  BY <1>2, <1>4, ReturnedOK
<1>6. \/ Acknowledge(call[t].req, call[t].expect) /\ call[t].expect \in receipts[call[t].req]
      \/ UNCHANGED acked
  BY DEF Answer
<1>7. ASSUME KeptInv, races = {}, NEW k \in Keys, NEW token \in acked'[k]
      PROVE  token \in acked[k] \/ IsPrefix(token, stored[k].token)
  <2>1. ASSUME call[t].expect \in receipts[call[t].req] PROVE InFile(call[t].expect, call[t].req)
    BY <1>2, <1>7, <2>1 DEF KeptInv, Kept, ReceiptInv
  <2> QED BY <1>2, <1>6, <2>1, AckedInFile
<1> QED BY <1>1, <1>2, <1>3, <1>4, <1>5, <1>7, PassiveLayer

\* The call that another joins has no outcome "ok" as long as there is no receipt.
LEMMA NotYetOk ==
    ASSUME Inv, NEW r \in Idempotent, receipts[r] = {}, pending[r] # None
    PROVE  /\ pending[r] \in Threads /\ call[pending[r]].outcome # "ok"
           /\ call[pending[r]].pc \in {"lead", "commit", "wait"}
<1>1. pending[r] \in Threads
  BY DEF Inv, TypeOK
<1>2. Publishing(pending[r]) /\ call[pending[r]].req = r
  BY <1>1 DEF Inv, PendingInv
<1> QED BY <1>1, <1>2 DEF Inv, OkInv, Publishing

LEMMA JoinLayer ==
    ASSUME Inv, Layer, NEW t \in Threads, Join(t)
    PROVE  Layer'
<1> DEFINE u == pending[call[t].req]
<1>1. /\ call[t].pc = "planned" /\ receipts[call[t].req] = {} /\ u # None
      /\ UNCHANGED <<overlay, stored, receipts, queue, races, acked>>
  BY DEF Join, Submitted, Untouched
<1>2. call[t].req \in Idempotent /\ DOMAIN call[t] = Fields
  BY <1>1, CallFacts, Kinds
<1>3. u \in Threads /\ call[u].outcome # "ok" /\ u # t
  BY <1>1, <1>2, NotYetOk
<1>4. PICK c : c = [call[t] EXCEPT !.pc = "wait", !.on = u, !.outcome = call[u].outcome]
  OBVIOUS
<1>5. call' = [call EXCEPT ![t] = c]
  BY <1>4 DEF Join
<1>6. c.pc = "wait" /\ c.on = u /\ c.outcome = call[u].outcome /\ c.batch = call[t].batch
  BY <1>2, <1>4 DEF Fields
<1> QED BY <1>1, <1>3, <1>5, <1>6, PassiveLayer

LEMMA PutAgainLayer ==
    ASSUME Inv, Layer, NEW t \in Threads, NEW r \in Keyed, PutAgain(t, r)
    PROVE  Layer'
<1>1. /\ call[t] = Idle /\ call[t].pc = "idle" /\ r \in Idempotent /\ r \in Requests
      /\ UNCHANGED <<overlay, stored, receipts, queue, races>> /\ call[t].batch = <<>>
  BY CallFacts, Kinds DEF PutAgain, Called, Idempotent, Untouched, Idle
<1>2. ASSUME NEW expect \in receipts[r], Acknowledge(r, expect),
             call' = [call EXCEPT ![t] = Returned([Idle EXCEPT !.req = r, !.expect = expect], "ok")]
      PROVE  Layer'
  <2>1. PICK d : d = [Idle EXCEPT !.req = r, !.expect = expect]
    OBVIOUS
  <2>2. PICK c : c = Returned(d, "ok")
    OBVIOUS
  <2>3. c.pc = "returned" /\ c.batch = <<>>
    BY <2>1, <2>2 DEF Returned, Idle
  <2>4. ASSUME KeptInv, races = {}, NEW k \in Keys, NEW token \in acked'[k]
        PROVE  token \in acked[k] \/ IsPrefix(token, stored[k].token)
    <3>1. InFile(expect, r)
      BY <1>1, <1>2, <2>4 DEF KeptInv, Kept, ReceiptInv
    <3> QED BY <1>1, <1>2, <3>1, AckedInFile
  <2> QED BY <1>1, <1>2, <2>1, <2>2, <2>3, <2>4, PassiveLayer
<1>3. ASSUME receipts[r] = {}, pending[r] # None, UNCHANGED acked,
             call' = [call EXCEPT ![t] = [Idle EXCEPT !.pc = "wait", !.req = r, !.on = pending[r],
                          !.expect = call[pending[r]].expect, !.outcome = call[pending[r]].outcome]]
      PROVE  Layer'
  <2>1. PICK c : c = [Idle EXCEPT !.pc = "wait", !.req = r, !.on = pending[r],
                          !.expect = call[pending[r]].expect, !.outcome = call[pending[r]].outcome]
    OBVIOUS
  <2>2. /\ c.pc = "wait" /\ c.on = pending[r] /\ c.outcome = call[pending[r]].outcome
        /\ c.batch = <<>>
    BY <2>1 DEF Idle
  <2>3. pending[r] # t /\ call[pending[r]].outcome # "ok"
    BY <1>1, <1>3, NotYetOk
  <2> QED BY <1>1, <1>3, <2>1, <2>2, <2>3, PassiveLayer
<1> QED BY <1>2, <1>3 DEF PutAgain

LEMMA FlushLayer ==
    ASSUME Inv, Layer, NEW t \in Threads, Flush(t)
    PROVE  Layer'
<1>1. PICK c : c = [Idle EXCEPT !.pc = "flush"]
  OBVIOUS
<1>2. /\ call[t] = Idle /\ UNCHANGED <<overlay, stored, receipts, queue, races, acked>>
  BY CallFacts DEF Flush, Called
<1>3. call' = [call EXCEPT ![t] = c]
  BY <1>1, <1>2 DEF Flush
<1>4. c.pc = "flush" /\ c.req = None /\ c.batch = call[t].batch
  BY <1>1, <1>2 DEF Idle
<1> QED BY <1>2, <1>3, <1>4, PassiveLayer

LEMMA RetryLayer ==
    ASSUME Inv, Layer, NEW t \in Threads, Retry(t)
    PROVE  Layer'
<1>1. PICK c : c = [call[t] EXCEPT !.pc = "planned", !.outcome = None]
  OBVIOUS
<1>2. call' = [call EXCEPT ![t] = c] /\ UNCHANGED <<overlay, stored, receipts, queue, races, acked>>
  BY <1>1 DEF Retry
<1>3. c.pc = "planned" /\ c.batch = call[t].batch
  BY <1>1, CallFacts DEF Fields
<1> QED BY <1>2, <1>3, PassiveLayer

LEMMA ForgetLayer ==
    ASSUME Inv, Layer, NEW t \in Threads, Forget(t)
    PROVE  Layer'
<1>1. /\ call[t].pc = "returned" /\ call' = [call EXCEPT ![t] = Idle] /\ call[t].batch = <<>>
      /\ UNCHANGED <<overlay, stored, receipts, queue, races, acked>>
  BY CallFacts DEF Forget
<1>2. Idle.pc = "idle" /\ Idle.batch = <<>>
  BY DEF Idle
<1> QED BY <1>1, <1>2, PassiveLayer

LEMMA DrainEndsLayer ==
    ASSUME Inv, Layer, NEW t \in Threads, DrainEnds(t)
    PROVE  Layer'
<1>1. /\ call[t].pc \in {"lead", "flush"} /\ call[t].batch = <<>> /\ CallOK(t, call[t])
      /\ UNCHANGED <<overlay, stored, receipts, queue, races, acked>> /\ DOMAIN call[t] = Fields
  BY CallFacts DEF DrainEnds
<1>2. CASE call[t].pc = "flush" /\ call[t].req = None
  <2>1. call' = [call EXCEPT ![t] = Idle] /\ Idle.pc = "idle" /\ Idle.batch = <<>>
    BY <1>2 DEF DrainEnds, Idle
  <2> QED BY <1>1, <2>1, PassiveLayer
<1>3. CASE ~(call[t].pc = "flush" /\ call[t].req = None)
  <2>1. PICK c : c = [call[t] EXCEPT !.pc = IF call[t].pc = "lead" THEN "wait" ELSE "own"]
    OBVIOUS
  <2>2. call' = [call EXCEPT ![t] = c]
    BY <1>1, <1>3, <2>1 DEF DrainEnds
  <2>3. /\ c.pc = IF call[t].pc = "lead" THEN "wait" ELSE "own"
        /\ c.req = call[t].req /\ c.batch = call[t].batch /\ c.item = call[t].item
        /\ c.before = call[t].before /\ c.outcome = call[t].outcome /\ c.expect = call[t].expect
    BY <1>1, <2>1 DEF Fields
  <2>4. call'[t] = c
    BY <2>2 DEF Inv, TypeOK
  <2>5. /\ DirectItem(t)' => DirectItem(t)
        /\ Undoable(t)' => Undoable(t)
        /\ OkCall(t)' => OkCall(t)
    BY <1>1, <2>3, <2>4 DEF DirectItem, Held, Undoable, OkCall
  <2>6. Calm /\ \A u \in Threads \ {t} : OkCall(u)' => OkCall(u) /\ call'[u] = call[u]
    BY <2>2, <2>3, <2>5, <1>1, CalmCall
  <2> QED BY <1>1, <2>3, <2>4, <2>5, <2>6, QuietLayer
<1> QED BY <1>2, <1>3

LEMMA DrainLayer ==
    ASSUME Inv, Layer, NEW t \in Threads, Drain(t)
    PROVE  Layer'
<1>1. /\ call[t].pc \in {"lead", "flush"} /\ queue' = <<>>
      /\ UNCHANGED <<overlay, stored, receipts, races, acked>> /\ DOMAIN call[t] = Fields
  BY CallFacts DEF Drain
<1>2. PICK c : c = [call[t] EXCEPT !.batch = queue,
                        !.pc = IF call[t].pc = "lead" THEN "commit" ELSE "flushing"]
  OBVIOUS
<1>3. call' = [u \in Threads |-> IF u = t THEN c ELSE call[u]]
  BY <1>2 DEF Drain, Inv, TypeOK
<1>4. /\ c.pc = IF call[t].pc = "lead" THEN "commit" ELSE "flushing"
      /\ c.req = call[t].req /\ c.batch = queue /\ c.item = call[t].item
      /\ c.before = call[t].before /\ c.outcome = call[t].outcome /\ c.expect = call[t].expect
  BY <1>1, <1>2 DEF Fields
<1>5. \A u \in Threads : /\ DirectItem(u)' => DirectItem(u)
                         /\ Undoable(u)' => Undoable(u)
                         /\ OkCall(u)' => OkCall(u)
                         /\ call'[u].req = call[u].req /\ call'[u].item = call[u].item
                         /\ call'[u].before = call[u].before /\ call'[u].expect = call[u].expect
  BY <1>1, <1>3, <1>4 DEF DirectItem, Held, Undoable, OkCall
<1>6. \A p \in Places : Line(p)' = <<>> \/ \E q \in Places : Line(p)' = Line(q)
  <2>1. Line(None)' = <<>> /\ Line(t)' = Line(None) /\ None \in Places
    BY <1>1, <1>3, <1>4, Kinds DEF Line, Places
  <2>2. \A p \in Threads \ {t} : Line(p)' = Line(p)
    BY <1>3, Kinds DEF Line
  <2>3. \A p \in Places : p = None \/ p = t \/ p \in Threads \ {t}
    BY DEF Places
  <2> QED BY <2>1, <2>2, <2>3
<1>7. Calm
  BY <1>1, <1>5, <1>6 DEF Calm
<1> QED BY <1>1, <1>5, <1>7, QuietLayer

LEMMA SettleLayer ==
    ASSUME Inv, Layer, NEW t \in Threads, Settle(t)
    PROVE  Layer'
<1>1. /\ call[t].pc = "wait" /\ call[t].outcome # None
      /\ UNCHANGED <<overlay, stored, receipts, queue, races>>
  BY DEF Settle
<1>2. /\ CallOK(t, call[t]) /\ call[t].batch = <<>> /\ DOMAIN call[t] = Fields
      /\ call[t].req \in Requests
  BY <1>1, CallFacts
<1>3. call[t].outcome \in {"ok", "err"}
  <2>1. call[t].outcome \in {None, "ok", "err"}
    BY <1>2 DEF CallOK
  <2> QED BY <1>1, <2>1
<1>4. ASSUME NEW result \in {"ok", "err"},
             call' = [call EXCEPT ![t] = Returned(call[t], result)],
             \/ UNCHANGED acked
             \/ call[t].outcome = "ok" /\ Acknowledge(call[t].req, call[t].expect)
      PROVE  Layer'
  <2>1. PICK c : c = Returned(call[t], result)
    OBVIOUS
  <2>2. c.pc = "returned" /\ c.batch = <<>>
    BY <1>2, <2>1, ReturnedOK
  <2>3. ASSUME KeptInv, races = {}, NEW k \in Keys, NEW token \in acked'[k]
        PROVE  token \in acked[k] \/ IsPrefix(token, stored[k].token)
    <3>1. ASSUME call[t].outcome = "ok" PROVE InFile(call[t].expect, call[t].req)
      BY <1>1, <2>3, <3>1 DEF KeptInv, Kept, DoneInv, OkCall
    <3> QED BY <1>2, <1>4, <3>1, AckedInFile
  <2> QED BY <1>1, <1>2, <1>4, <2>1, <2>2, <2>3, PassiveLayer
<1>5. ASSUME UNCHANGED acked, call[t].on = t, call[t].outcome # "ok",
             call' = [call EXCEPT ![t].pc = "restore"]
      PROVE  Layer'
  <2>1. PICK c : c = [call[t] EXCEPT !.pc = "restore"]
    OBVIOUS
  <2>2. call' = [call EXCEPT ![t] = c]
    BY <1>5, <2>1
  <2>3. /\ c.pc = "restore" /\ c.req = call[t].req /\ c.batch = call[t].batch
        /\ c.before = call[t].before /\ c.outcome = call[t].outcome
    BY <1>2, <2>1 DEF Fields
  <2>4. call'[t] = c
    BY <2>2 DEF Inv, TypeOK
  <2>5. ~DirectItem(t)' /\ ~OkCall(t)' /\ (Undoable(t)' => Undoable(t))
    BY <1>1, <1>5, <2>3, <2>4 DEF DirectItem, Held, OkCall, Undoable
  <2>6. Calm /\ \A u \in Threads \ {t} : OkCall(u)' => OkCall(u) /\ call'[u] = call[u]
    BY <1>1, <2>2, <2>3, <2>5, CalmCall
  <2> QED BY <1>1, <1>5, <2>5, <2>6, QuietLayer
<1>6. CASE call[t].outcome = "ok"
  <2>1. Acknowledge(call[t].req, call[t].expect) /\ call' = [call EXCEPT ![t] = Returned(call[t], "ok")]
    BY <1>6 DEF Settle, Return
  <2> QED BY <1>4, <1>6, <2>1
<1>7. CASE call[t].outcome # "ok"
  <2>1. /\ UNCHANGED acked
        /\ \/ call[t].on = t /\ call' = [call EXCEPT ![t].pc = "restore"]
           \/ call' = [call EXCEPT ![t] = Returned(call[t], "err")]
    BY <1>7 DEF Settle, Return
  <2> QED BY <1>4, <1>5, <1>7, <2>1
<1> QED BY <1>6, <1>7

\* A step that puts back the overlay of before the call: with the race "rolledBack" nothing is
\* claimed any more.
LEMMA RestoredLayer ==
    ASSUME Inv, Layer, Calm, UNCHANGED <<stored, receipts, acked>>, NEW t \in Threads, Restored(t),
           Undoable(t), ~Undoable(t)', \A k, e : ~Moving(k, e, t)',
           \A u \in Threads : OkCall(u)' =>
              OkCall(u) /\ call'[u].expect = call[u].expect /\ call'[u].req = call[u].req
    PROVE  Layer'
<1>1. overlay' = call[t].before
  BY DEF Restored
<1>2. CASE overlay.gen # call[t].before.gen + 1
  <2>1. "rolledBack" \in races'
    BY <1>2 DEF Restored, Race
  <2> QED BY <2>1 DEF Layer, RollInv, KeptInv
<1>3. CASE overlay.gen = call[t].before.gen + 1
  <2>1. races' = races
    BY <1>3 DEF Restored, Race
  <2>2. RollInv'
    BY <1>1, <1>3, <2>1, RestoredRecords, CalmOrder DEF Layer, RollInv
  <2>3. ASSUME races = {} PROVE Kept'
    <3>1. Kept
      BY <2>3 DEF Layer, KeptInv
    <3> QED BY <3>1, CalmKept
  <2> QED BY <2>1, <2>2, <2>3 DEF Layer, KeptInv
<1> QED BY <1>2, <1>3

\* A call whose request is not on its way has no records but those of a direct call.
LEMMA NothingMoves ==
    ASSUME Inv, NEW t \in Threads, ~Open(t)
    PROVE  \A k, e : Moving(k, e, t) => DirectItem(t)
<1>1. \A p \in Places : \A i \in DOMAIN Line(p) : Line(p)[i].by # t
  BY LineTyped DEF ItemOK
<1> QED BY <1>1 DEF Moving

LEMMA RestoreLayer ==
    ASSUME Inv, Layer, NEW t \in Threads, Restore(t)
    PROVE  Layer'
<1>1. /\ call[t].pc = "restore" /\ call' = [call EXCEPT ![t] = Returned(call[t], "err")]
      /\ Restored(t) /\ UNCHANGED <<stored, receipts, queue, acked>>
  BY DEF Restore, Return
<1>2. /\ CallOK(t, call[t]) /\ call[t].req \in Requests /\ call[t].batch = <<>>
      /\ call[t].req # None /\ call[t].outcome = "err"
  <2>1. CallOK(t, call[t]) /\ call[t].req \in Requests /\ call[t].batch = <<>>
    BY <1>1, CallFacts
  <2> QED BY <1>1, <2>1, Kinds DEF CallOK
<1>3. PICK c : c = Returned(call[t], "err")
  OBVIOUS
<1>4. c.pc = "returned" /\ c.batch = <<>> /\ call' = [call EXCEPT ![t] = c]
  BY <1>1, <1>2, <1>3, ReturnedOK
<1>5. call'[t] = c
  BY <1>4 DEF Inv, TypeOK
<1>6. ~DirectItem(t)' /\ ~OkCall(t)' /\ ~Undoable(t)' /\ Undoable(t) /\ ~Open(t) /\ ~DirectItem(t)
  BY <1>1, <1>2, <1>4, <1>5 DEF DirectItem, Held, OkCall, Undoable, Open, Publishing
<1>7. Calm /\ \A u \in Threads \ {t} : OkCall(u)' => OkCall(u) /\ call'[u] = call[u]
  BY <1>1, <1>2, <1>4, <1>6, CalmCall
<1>8. \A k, e : ~Moving(k, e, t)'
  BY <1>6, <1>7, CalmRecords, NothingMoves
<1> QED BY <1>1, <1>6, <1>7, <1>8, RestoredLayer

\* The records a request writes extend all that there are.
LEMMA NewExtends ==
    ASSUME Inv, RecordInv, NEW r \in Requests, NEW k \in Targets[r], NEW e, NEW by, Rec(k, e, by)
    PROVE  IsPrefix(e.token, Written(r).entries[k].token)
<1>1. /\ IsPrefix(e.token, overlay.entries[k].token) /\ k \in Keys /\ e.token \in Seq(Requests)
      /\ overlay.entries[k].token \in Seq(Requests)
  BY RecordsAre, RecTyped, OverlayTyped DEF RecordOK
<1>2. IsPrefix(e.token, Append(overlay.entries[k].token, r))
  BY <1>1, PrefixAppend
<1>3. Written(r).entries[k].token = Append(overlay.entries[k].token, r)
  <2>1. Written(r).entries[k] =
          [gen |-> overlay.gen + 1, token |-> Append(overlay.entries[k].token, r)]
    BY <1>1, WrittenIs
  <2> QED BY <2>1
<1> QED BY <1>2, <1>3

LEMMA EnqueueLayer ==
    ASSUME Inv, Layer, NEW t \in Threads, NEW r \in Requests, NEW c, Enters(t, c, r),
           Enqueue(t, c, r), overlay' = Written(r), UNCHANGED <<stored, receipts, acked, races>>
    PROVE  Layer'
<1>1. /\ ~DirectItem(t) /\ ~Undoable(t) /\ call[t].batch = <<>>
      /\ \A u \in Threads : ~DirectItem(u)
  BY CallFacts, Kinds DEF Enters, DirectItem, Held, Undoable, Inv, HeldInv
<1>2. CASE /\ queue' = queue /\ call' = [call EXCEPT ![t] = Returned(c, "err")]
           /\ Returned(c, "err").pc = "returned" /\ Returned(c, "err").batch = <<>>
  <2>1. PICK d : d = Returned(c, "err")
    OBVIOUS
  <2>2. call'[t] = d /\ d.pc = "returned" /\ d.batch = <<>>
    BY <1>2, <2>1 DEF Inv, TypeOK
  <2>3. ~DirectItem(t)' /\ ~Undoable(t)' /\ ~OkCall(t)'
    BY <2>2 DEF DirectItem, Held, Undoable, OkCall
  <2>4. Calm /\ \A u \in Threads \ {t} : OkCall(u)' => OkCall(u) /\ call'[u] = call[u]
    BY <1>1, <1>2, <2>1, <2>2, <2>3, CalmCall
  <2>5. ASSUME RecordInv, UndoInv PROVE RecordInv' /\ UndoInv'
    <3>1. \A k, e, by : Moving(k, e, by)' => Moving(k, e, by)
      BY <2>4, CalmRecords
    <3>2. \A u \in Threads : Undoable(u)' =>
             u # t /\ Undoable(u) /\ call'[u].before = call[u].before
      BY <2>3, <2>4 DEF Calm
    <3> QED BY <2>5, <3>1, <3>2, WrittenRecords
  <2>6. RollInv'
    BY <2>4, <2>5, CalmOrder DEF Layer, RollInv
  <2>7. ASSUME races = {} PROVE Kept'
    <3>1. Kept
      BY <2>7 DEF Layer, KeptInv
    <3> QED BY <2>3, <2>4, <3>1, CalmKept
  <2> QED BY <2>6, <2>7 DEF Layer, KeptInv
<1>3. ASSUME NEW it, NEW d, Queues(t, r, it, d) PROVE Layer'
  <2>1. /\ call' = [call EXCEPT ![t] = d] /\ d.pc \in {"lead", "wait"} /\ d.on = t
        /\ d.outcome = None /\ d.req = r /\ it.by = t /\ it.req = r /\ d.before = overlay
        /\ \A k \in Targets[r] : it.entries[k] = Written(r).entries[k]
    BY <1>3 DEF Queues
  <2>2. call' = [u \in Threads |-> IF u = t THEN d ELSE call[u]]
    BY <2>1 DEF Inv, TypeOK
  <2>3. /\ \A p \in Threads : Line(p)' = Line(p)
        /\ queue \in Seq(Items) /\ Len(queue) \in Nat
        /\ Line(None)' = queue' /\ Line(None) = queue /\ None \in Places
        /\ DOMAIN queue' = 1 .. Len(queue) + 1 /\ DOMAIN queue = 1 .. Len(queue)
        /\ queue'[Len(queue) + 1] = it
        /\ \A i \in DOMAIN queue : i \in DOMAIN queue' /\ queue'[i] = queue[i]
    BY <1>1, <1>3, LongerQueue
  <2>4. ASSUME NEW p \in Places, NEW i \in DOMAIN Line(p)'
        PROVE  \/ p = None /\ i = Len(queue) + 1 /\ Line(p)'[i] = it
               \/ i \in DOMAIN Line(p) /\ Line(p)'[i] = Line(p)[i]
    <3>1. CASE p = None /\ i = Len(queue) + 1
      BY <2>3, <3>1
    <3>2. CASE ~(p = None /\ i = Len(queue) + 1)
      BY <2>3, <3>2 DEF Places
    <3> QED BY <3>1, <3>2
  <2>5. \A u \in Threads : ~DirectItem(u)'
    BY <1>1, <2>1, <2>2 DEF DirectItem, Held
  <2>6. ASSUME NEW k, NEW e, NEW by, Moving(k, e, by)'
        PROVE  \/ Moving(k, e, by)
               \/ by = t /\ k \in Targets[r] /\ e = Written(r).entries[k]
    <3>0. PICK p \in Places : \E i \in DOMAIN Line(p)' :
            /\ k \in Targets[Line(p)'[i].req] /\ e = Line(p)'[i].entries[k]
            /\ by = Line(p)'[i].by
      BY <2>5, <2>6 DEF Moving
    <3>1. PICK i \in DOMAIN Line(p)' :
            /\ k \in Targets[Line(p)'[i].req] /\ e = Line(p)'[i].entries[k]
            /\ by = Line(p)'[i].by
      BY <3>0
    <3>2. CASE Line(p)'[i] = it
      BY <2>1, <3>1, <3>2
    <3>3. CASE i \in DOMAIN Line(p) /\ Line(p)'[i] = Line(p)[i]
      BY <3>1, <3>3 DEF Moving
    <3> QED BY <2>4, <3>2, <3>3
  <2>7. \A u \in Threads : Undoable(u)' =>
           \/ u # t /\ Undoable(u) /\ call'[u].before = call[u].before
           \/ u = t /\ call'[u].before = overlay
    BY <2>1, <2>2 DEF Undoable
  <2>8. ASSUME RecordInv, OrderInv PROVE OrderInv'
    <3>1. ASSUME NEW p \in Places, NEW i \in DOMAIN Line(p), NEW k \in Targets[Line(p)[i].req],
                 k \in Targets[r]
          PROVE  IsPrefix(Line(p)[i].entries[k].token, it.entries[k].token)
      <4>1. Rec(k, Line(p)[i].entries[k], Line(p)[i].by)
        BY DEF Rec, Moving
      <4> QED BY <2>1, <2>8, <3>1, <4>1, NewExtends
    <3>2. ASSUME NEW p \in Places, NEW i \in DOMAIN Line(p)', NEW j \in DOMAIN Line(p)', i < j,
                 NEW k \in Targets[Line(p)'[i].req] \cap Targets[Line(p)'[j].req]
          PROVE  IsPrefix(Line(p)'[i].entries[k].token, Line(p)'[j].entries[k].token)
      <4>1. i \in DOMAIN Line(p) /\ Line(p)'[i] = Line(p)[i]
        <5>1. ~(p = None /\ i = Len(queue) + 1)
          BY <2>3, <3>2
        <5> QED BY <2>4, <5>1
      <4>2. CASE Line(p)'[j] = it
        BY <2>1, <3>1, <4>1, <4>2
      <4>3. CASE j \in DOMAIN Line(p) /\ Line(p)'[j] = Line(p)[j]
        BY <2>8, <3>2, <4>1, <4>3 DEF OrderInv
      <4> QED BY <2>4, <4>2, <4>3
    <3>3. ASSUME NEW u \in Threads, NEW i \in DOMAIN call'[u].batch, NEW j \in DOMAIN queue',
                 NEW k \in Targets[call'[u].batch[i].req] \cap Targets[queue'[j].req]
          PROVE  IsPrefix(call'[u].batch[i].entries[k].token, queue'[j].entries[k].token)
      <4>1. call'[u].batch = call[u].batch /\ Line(u) = call[u].batch /\ u \in Places
        BY <2>3, Kinds DEF Line, Places
      <4>2. CASE j = Len(queue) + 1
        BY <2>1, <2>3, <3>1, <4>1, <4>2
      <4>3. CASE j # Len(queue) + 1
        <5>1. j \in DOMAIN queue /\ queue'[j] = queue[j]
          BY <2>3, <4>3
        <5> QED BY <2>8, <4>1, <5>1 DEF OrderInv
      <4> QED BY <4>2, <4>3
    <3> QED BY <2>5, <3>2, <3>3 DEF OrderInv
  <2>9. RollInv'
    <3> SUFFICES ASSUME "rolledBack" \notin races PROVE RecordInv' /\ UndoInv' /\ OrderInv'
      BY DEF RollInv
    <3>1. RecordInv /\ UndoInv /\ OrderInv
      BY DEF Layer, RollInv
    <3>2. RecordInv' /\ UndoInv'
      BY <2>6, <2>7, <3>1, WrittenRecords
    <3> QED BY <2>8, <3>1, <3>2
  <2>10. ASSUME races = {} PROVE Kept'
    <3>1. Kept /\ RecordInv
      BY <2>10 DEF Layer, KeptInv, RollInv
    <3>2. ASSUME NEW k, NEW e, NEW by, Moving(k, e, by)' PROVE IsPrefix(stored'[k].token, e.token)
      <4>1. CASE Moving(k, e, by)
        BY <3>1, <4>1, RecordsAre DEF Kept
      <4>2. CASE k \in Targets[r] /\ e = Written(r).entries[k]
        <5>1. k \in Keys
          BY <4>2, TargetsAssumption
        <5>2. Rec(k, stored[k], None)
          BY <5>1 DEF Rec
        <5> QED BY <3>1, <4>2, <5>2, NewExtends
      <4> QED BY <2>6, <3>2, <4>1, <4>2
    <3>3. AheadInv'
      BY <3>2, RecordsWillBe
    <3>4. \A u \in Threads : OkCall(u)' => OkCall(u) /\ call'[u] = call[u]
      BY <2>1, <2>2 DEF OkCall, None
    <3>5. ReceiptInv' /\ DoneInv' /\ AckedKept'
      BY <3>1, <3>4 DEF Kept, ReceiptInv, DoneInv, AckedKept, InFile
    <3> QED BY <3>3, <3>5 DEF Kept
  <2> QED BY <2>9, <2>10 DEF Layer, KeptInv
<1> QED BY <1>2, <1>3, EnqueueIs

LEMMA SubmitNormalLayer ==
    ASSUME Inv, Layer, NEW t \in Threads, SubmitNormal(t)
    PROVE  Layer'
<1>1. UNCHANGED <<stored, receipts, acked, races>>
  BY DEF SubmitNormal
<1> QED BY <1>1, SubmitNormalEnters, EnqueueLayer

LEMMA PutLayer ==
    ASSUME Inv, Layer, NEW t \in Threads, NEW r \in Puts, PutValues(t, r)
    PROVE  Layer'
<1>1. UNCHANGED <<stored, receipts, acked, races>>
  BY DEF PutValues
<1>2. PICK c : c = PutCall(r)
  OBVIOUS
<1>3. r \in Requests /\ Enters(t, c, r) /\ Enqueue(t, c, r) /\ overlay' = Written(r)
  BY <1>2, PutEnters
<1> QED BY <1>1, <1>3, EnqueueLayer

LEMMA SubmitDirectLayer ==
    ASSUME Inv, Layer, NEW t \in Threads, SubmitDirect(t)
    PROVE  Layer'
<1> DEFINE r == call[t].req
<1>1. /\ call[t].pc = "planned" /\ guard = None /\ r \in Direct /\ Matches(t)
      /\ overlay' = Written(r) /\ UNCHANGED <<stored, receipts, queue, acked, races>>
  BY DEF SubmitDirect, Admitted, Submitted, Direct
<1>2. /\ DOMAIN call[t] = Fields /\ r \in Requests /\ call[t].expect \in [Targets[r] -> Tokens]
      /\ call[t].batch = <<>>
  BY <1>1, CallFacts, Kinds
<1>3. PICK it \in Items : /\ Item(t, call[t].expect, r) = <<it>> /\ it.by = t
                          /\ \A k \in Targets[r] : it.entries[k] = Written(r).entries[k]
  BY <1>1, <1>2, ItemIs DEF Matches
<1>4. PICK c : c = [call[t] EXCEPT !.pc = IF r \in Relaxed THEN "own" ELSE "flush",
                                   !.before = overlay, !.item = <<it>>]
  OBVIOUS
<1>5. call' = [u \in Threads |-> IF u = t THEN c ELSE call[u]]
  BY <1>3, <1>4 DEF SubmitDirect, Inv, TypeOK
<1>6. /\ c.pc \in {"flush", "own"} /\ c.req = r /\ c.batch = <<>> /\ c.before = overlay
      /\ c.item = <<it>> /\ c.item[1] = it
  BY <1>2, <1>4 DEF Fields
<1>7. \A p \in Places : Line(p)' = Line(p)
  BY <1>1, <1>2, <1>5, <1>6, Kinds DEF Line, Places
<1>8. \A u \in Threads : DirectItem(u)' => u = t
  BY <1>1, <1>5, Kinds DEF DirectItem, Held, Inv, HeldInv
<1>9. PICK q \in Requests : q = r
  BY <1>2
<1> HIDE DEF r
<1>10. ASSUME NEW k, NEW e, NEW by, Moving(k, e, by)'
       PROVE  \/ Moving(k, e, by)
              \/ by = t /\ k \in Targets[q] /\ e = Written(q).entries[k]
  <2>1. CASE \E p \in Places : \E i \in DOMAIN Line(p)' :
                k \in Targets[Line(p)'[i].req] /\ e = Line(p)'[i].entries[k] /\ by = Line(p)'[i].by
    BY <1>7, <2>1 DEF Moving
  <2>2. CASE /\ by \in Threads /\ DirectItem(by)' /\ k \in Targets[call'[by].req]
             /\ e = call'[by].item[1].entries[k]
    BY <1>3, <1>5, <1>6, <1>8, <1>9, <2>2
  <2> QED BY <1>10, <2>1, <2>2 DEF Moving
<1>11. \A u \in Threads : Undoable(u)' =>
          \/ u # t /\ Undoable(u) /\ call'[u].before = call[u].before
          \/ u = t /\ call'[u].before = overlay
  BY <1>5, <1>6 DEF Undoable
<1>12. ASSUME RecordInv, OrderInv PROVE OrderInv'
  <2>1. ASSUME NEW u \in Threads, NEW p \in Places, DirectItem(u)', NEW i \in DOMAIN Line(p),
               NEW k \in Targets[Line(p)[i].req] \cap Targets[call'[u].req]
        PROVE  IsPrefix(Line(p)[i].entries[k].token, call'[u].item[1].entries[k].token)
    <3>1. u = t /\ k \in Targets[q] /\ call'[u].item[1].entries[k] = Written(q).entries[k]
      BY <1>3, <1>5, <1>6, <1>8, <1>9, <2>1
    <3>2. Rec(k, Line(p)[i].entries[k], Line(p)[i].by)
      BY DEF Rec, Moving
    <3> QED BY <1>12, <3>1, <3>2, NewExtends
  <2>2. \A u \in Threads : call'[u].batch = call[u].batch
    BY <1>2, <1>5, <1>6
  <2> QED BY <1>1, <1>7, <1>12, <2>1, <2>2 DEF OrderInv
<1>13. RollInv'
  <2> SUFFICES ASSUME "rolledBack" \notin races PROVE RecordInv' /\ UndoInv' /\ OrderInv'
    BY <1>1 DEF RollInv
  <2>1. RecordInv /\ UndoInv /\ OrderInv
    BY DEF Layer, RollInv
  <2>2. RecordInv' /\ UndoInv'
    BY <1>1, <1>9, <1>10, <1>11, <2>1, WrittenRecords
  <2> QED BY <1>12, <2>1, <2>2
<1>14. ASSUME races = {} PROVE Kept'
  <2>1. Kept /\ RecordInv
    BY <1>14 DEF Layer, KeptInv, RollInv
  <2>2. ASSUME NEW k, NEW e, NEW by, Moving(k, e, by)' PROVE IsPrefix(stored'[k].token, e.token)
    <3>1. CASE Moving(k, e, by)
      BY <1>1, <2>1, <3>1, RecordsAre DEF Kept
    <3>2. CASE k \in Targets[q] /\ e = Written(q).entries[k]
      <4>1. k \in Keys
        BY <3>2, TargetsAssumption
      <4>2. Rec(k, stored[k], None)
        BY <4>1 DEF Rec
      <4> QED BY <1>1, <2>1, <3>2, <4>2, NewExtends
    <3> QED BY <1>10, <2>2, <3>1, <3>2
  <2>3. AheadInv'
    BY <2>2, RecordsWillBe
  <2>4. \A u \in Threads : OkCall(u)' => OkCall(u) /\ call'[u] = call[u]
    BY <1>5, <1>6 DEF OkCall
  <2>5. ReceiptInv' /\ DoneInv' /\ AckedKept'
    BY <1>1, <2>1, <2>4 DEF Kept, ReceiptInv, DoneInv, AckedKept, InFile
  <2> QED BY <2>3, <2>5 DEF Kept
<1> QED BY <1>1, <1>13, <1>14 DEF Layer, KeptInv

\* The overlay is loaded from the file; no call has anything to undo.
LEMMA CrashLayer ==
    ASSUME Inv, Layer, Crash
    PROVE  Layer'
<1>1. /\ overlay' = Loaded /\ queue' = <<>> /\ UNCHANGED <<stored, receipts, acked, races>>
  BY DEF Crash
<1>2. \A t \in Threads : call'[t].pc \in {"idle", "planned"} /\ call'[t].batch = <<>>
  BY DEF Crash, Idle
<1>3. \A t \in Threads : ~DirectItem(t)' /\ ~Undoable(t)' /\ ~OkCall(t)'
  BY <1>2 DEF DirectItem, Held, Undoable, OkCall
<1>4. \A p \in Places : Line(p)' = <<>>
  BY <1>1, <1>2 DEF Line, Places
<1>5. Calm
  BY <1>1, <1>3, <1>4 DEF Calm
<1>6. \A k, e, by : ~Moving(k, e, by)'
  <2>1. \A p \in Places : DOMAIN Line(p)' = {}
    BY <1>4
  <2> QED BY <1>3, <2>1 DEF Moving
<1>7. ASSUME NEW k, NEW e, NEW by, Rec(k, e, by)' PROVE RecordOK(k, e, by)'
  <2>1. k \in Keys /\ e = stored[k]
    BY <1>1, <1>6, <1>7 DEF Rec
  <2>2. e.token \in Seq(Requests) /\ overlay'.entries[k] = e /\ e.gen <= overlay'.gen
    BY <1>1, <2>1, LoadedIs DEF Inv, TypeOK, Entry, Tokens
  <2>3. IsPrefix(e.token, e.token)
    BY <2>2, PrefixSelf
  <2> QED BY <1>3, <2>2, <2>3 DEF RecordOK
<1>8. RecordInv' /\ UndoInv'
  BY <1>3, <1>7, RecordsWillBe DEF UndoInv
<1>9. RollInv'
  BY <1>1, <1>5, <1>8, CalmOrder DEF Layer, RollInv
<1>10. ASSUME races = {} PROVE Kept'
  <2>1. Kept
    BY <1>10 DEF Layer, KeptInv
  <2> QED BY <1>1, <1>3, <1>5, <2>1, CalmKept
<1> QED BY <1>1, <1>9, <1>10 DEF Layer, KeptInv

(* ---- commits ---- *)

\* What a commit stores: for each key the last record of its items, or what there was.
LEMMA StoredIs ==
    ASSUME NEW items \in Seq(Items), Commit(items), NEW k \in Keys
    PROVE  \/ /\ stored'[k] = stored[k]
              /\ \A i \in DOMAIN items : k \notin Targets[items[i].req]
           \/ \E m \in DOMAIN items :
                /\ k \in Targets[items[m].req] /\ stored'[k] = items[m].entries[k]
                /\ \A i \in DOMAIN items : k \in Targets[items[i].req] => i <= m
<1>1. \A i \in DOMAIN items : DOMAIN items[i].entries = Targets[items[i].req]
  <2>1. \A i \in DOMAIN items : items[i] \in Items
    OBVIOUS
  <2> QED BY <2>1 DEF Items
<1>2. PICK m : m = Latest(items, k)
  OBVIOUS
<1>3. stored'[k] = IF m = 0 THEN stored[k] ELSE items[m].entries[k]
  BY <1>2 DEF Commit
<1>4. /\ m \in {0} \cup {i \in DOMAIN items : k \in DOMAIN items[i].entries}
      /\ \A i \in DOMAIN items : k \in DOMAIN items[i].entries => i <= m
      /\ 0 \notin DOMAIN items
  BY <1>2, LatestIs
<1>5. CASE m = 0
  <2>1. \A i \in DOMAIN items : ~(i <= 0)
    OBVIOUS
  <2> QED BY <1>1, <1>3, <1>4, <1>5, <2>1
<1>6. CASE m # 0
  BY <1>1, <1>3, <1>4, <1>6
<1> QED BY <1>5, <1>6

\* The file grows by a commit of items that are ahead of it, in the order of their tokens, and
\* then has what they wrote.
Ordered(items) ==
    /\ items \in Seq(Items)
    /\ \A i, j \in DOMAIN items : i < j =>
          \A k \in Targets[items[i].req] \cap Targets[items[j].req] :
             IsPrefix(items[i].entries[k].token, items[j].entries[k].token)
    /\ \A i \in DOMAIN items : \A k \in Targets[items[i].req] :
          IsPrefix(stored[k].token, items[i].entries[k].token)

LEMMA Grows ==
    ASSUME Inv, NEW items, Ordered(items), Commit(items)
    PROVE  /\ \A k \in Keys : IsPrefix(stored[k].token, stored'[k].token)
           /\ \A i \in DOMAIN items : InFile(items[i].expect, items[i].req)'
<1>1. items \in Seq(Items) /\ \A i \in DOMAIN items : items[i] \in Items /\ i \in Int
  BY DEF Ordered
<1>2. \A i \in DOMAIN items :
         /\ items[i].req \in Requests /\ items[i].entries \in [Targets[items[i].req] -> Entry]
         /\ \A k \in Targets[items[i].req] :
               items[i].entries[k].token = Append(items[i].expect[k], items[i].req)
  BY <1>1 DEF Items
<1>3. ASSUME NEW k \in Keys PROVE IsPrefix(stored[k].token, stored'[k].token)
  <2>1. CASE stored'[k] = stored[k]
    <3>1. stored[k].token \in Seq(Requests)
      BY DEF Inv, TypeOK, Entry, Tokens
    <3> QED BY <2>1, <3>1, PrefixSelf
  <2>2. ASSUME NEW m \in DOMAIN items, k \in Targets[items[m].req],
               stored'[k] = items[m].entries[k]
        PROVE  IsPrefix(stored[k].token, stored'[k].token)
    BY <2>2 DEF Ordered
  <2> QED BY <1>1, <2>1, <2>2, StoredIs
<1>4. ASSUME NEW i \in DOMAIN items, NEW k \in Targets[items[i].req]
      PROVE  IsPrefix(Append(items[i].expect[k], items[i].req), stored'[k].token)
  <2>1. k \in Keys
    BY <1>2, TargetsAssumption
  <2>2. PICK m \in DOMAIN items :
          /\ k \in Targets[items[m].req] /\ stored'[k] = items[m].entries[k] /\ i <= m
    BY <1>1, <2>1, StoredIs
  <2>3. CASE i = m
    <3>1. items[i].entries[k].token \in Seq(Requests)
      BY <1>2 DEF Entry, Tokens
    <3> QED BY <1>2, <2>2, <2>3, <3>1, PrefixSelf
  <2>4. CASE i # m
    <3>1. i < m
      BY <1>1, <2>2, <2>4
    <3>2. IsPrefix(items[i].entries[k].token, items[m].entries[k].token)
      BY <2>2, <3>1 DEF Ordered
    <3> QED BY <1>2, <2>2, <3>2
  <2> QED BY <2>3, <2>4
<1> QED BY <1>3, <1>4 DEF InFile

LEMMA InFileStays ==
    ASSUME Inv, stored' \in [Keys -> Entry],
           \A k \in Keys : IsPrefix(stored[k].token, stored'[k].token),
           NEW r \in Requests, NEW expect \in [Targets[r] -> Tokens], InFile(expect, r)
    PROVE  InFile(expect, r)'
<1>1. ASSUME NEW k \in Targets[r] PROVE IsPrefix(Append(expect[k], r), stored'[k].token)
  <2>1. k \in Keys
    BY TargetsAssumption
  <2>2. stored[k].token \in Seq(Requests) /\ stored'[k].token \in Seq(Requests)
    BY <2>1 DEF Inv, TypeOK, Entry, Tokens
  <2>3. Append(expect[k], r) \in Seq(Requests)
    BY AppendLast DEF Tokens
  <2>4. IsPrefix(Append(expect[k], r), stored[k].token)
    BY DEF InFile
  <2> QED BY <2>1, <2>2, <2>3, <2>4, PrefixTrans
<1> QED BY <1>1 DEF InFile

\* After a commit what was in the file is still there, and with it what the items wrote.
LEMMA GrownKept ==
    ASSUME Inv, Kept, NEW items, Fresh(items), Ordered(items), Commit(items), AheadInv',
           \A t \in Threads : OkCall(t)' =>
              \/ OkCall(t) /\ call'[t].expect = call[t].expect /\ call'[t].req = call[t].req
              \/ \E i \in DOMAIN items :
                    call'[t].expect = items[i].expect /\ call'[t].req = items[i].req,
           \A k \in Keys : \A token \in acked'[k] :
              \/ token \in acked[k]
              \/ \E i \in DOMAIN items : /\ k \in Targets[items[i].req]
                                         /\ token = Append(items[i].expect[k], items[i].req)
    PROVE  Kept'
<1>1. /\ \A k \in Keys : IsPrefix(stored[k].token, stored'[k].token)
      /\ \A i \in DOMAIN items : InFile(items[i].expect, items[i].req)'
  BY Grows
<1>2. /\ stored' \in [Keys -> Entry]
      /\ \A r \in Idempotent : (\A i \in DOMAIN items : items[i].req # r) =>
            receipts'[r] = receipts[r]
      /\ \A i \in DOMAIN items : items[i].req \in Idempotent =>
            receipts'[items[i].req] = {items[i].expect}
  BY CommitIs
<1>3. ReceiptInv'
  <2> SUFFICES ASSUME NEW r \in Idempotent, NEW expect \in receipts'[r] PROVE InFile(expect, r)'
    BY DEF ReceiptInv
  <2>1. CASE \A i \in DOMAIN items : items[i].req # r
    <3>1. expect \in receipts[r] /\ r \in Requests
      BY <1>2, <2>1, Kinds
    <3>2. expect \in [Targets[r] -> Tokens] /\ InFile(expect, r)
      BY <3>1 DEF Inv, TypeOK, Kept, ReceiptInv
    <3> QED BY <1>1, <1>2, <3>1, <3>2, InFileStays
  <2>2. CASE \E i \in DOMAIN items : items[i].req = r
    BY <1>1, <1>2, <2>2 DEF InFile
  <2> QED BY <2>1, <2>2
<1>4. DoneInv'
  <2> SUFFICES ASSUME NEW t \in Threads, OkCall(t)' PROVE InFile(call[t].expect, call[t].req)'
    BY DEF DoneInv
  <2>1. CASE OkCall(t) /\ call'[t].expect = call[t].expect /\ call'[t].req = call[t].req
    <3>1. PICK r, expect : r = call[t].req /\ expect = call[t].expect
      OBVIOUS
    <3>2. /\ r \in Requests /\ expect \in [Targets[r] -> Tokens] /\ InFile(expect, r)
      <4>1. call[t].req \in Requests /\ call[t].req # None
        BY <2>1, CallFacts, Kinds DEF OkCall
      <4>2. call[t].expect \in [Targets[call[t].req] -> Tokens]
        BY <4>1, CallFacts
      <4>3. InFile(call[t].expect, call[t].req)
        BY <2>1 DEF Kept, DoneInv
      <4> QED BY <3>1, <4>1, <4>2, <4>3
    <3>3. InFile(expect, r)'
      BY <1>1, <1>2, <3>2, InFileStays
    <3> QED BY <2>1, <3>1, <3>3 DEF InFile
  <2>2. CASE \E i \in DOMAIN items :
                call'[t].expect = items[i].expect /\ call'[t].req = items[i].req
    BY <1>1, <2>2 DEF InFile
  <2> QED BY <2>1, <2>2
<1>5. AckedKept'
  <2> SUFFICES ASSUME NEW k \in Keys, NEW token \in acked'[k]
               PROVE  IsPrefix(token, stored'[k].token)
    BY DEF AckedKept
  <2>1. CASE token \in acked[k]
    <3>1. token \in Seq(Requests) /\ stored[k].token \in Seq(Requests)
          /\ stored'[k].token \in Seq(Requests)
      BY <1>2, <2>1 DEF Inv, TypeOK, Entry, Tokens
    <3>2. IsPrefix(token, stored[k].token)
      BY <2>1 DEF Kept, AckedKept
    <3> QED BY <1>1, <3>1, <3>2, PrefixTrans
  <2>2. CASE \E i \in DOMAIN items : /\ k \in Targets[items[i].req]
                                     /\ token = Append(items[i].expect[k], items[i].req)
    BY <1>1, <2>2 DEF InFile
  <2> QED BY <2>1, <2>2
<1> QED BY <1>3, <1>4, <1>5 DEF Kept

\* The end of a batch is calm, and says "ok" only to those whose records were committed.
LEMMA BatchCalm ==
    ASSUME Inv, NEW t \in Threads, NEW c, NEW result, Batched(t, c, result)
    PROVE  /\ Calm
           /\ c.pc \notin {"lead", "flush"} => ~Undoable(t)' /\ ~DirectItem(t)'
           /\ \A p \in Places \ {t} : Line(p)' = Line(p)
           /\ Line(t)' = <<>>
           /\ \A u \in Threads :
                 OkCall(u)' =>
                    /\ call'[u].expect = call[u].expect /\ call'[u].req = call[u].req
                    /\ OkCall(u) \/ (result = "ok" /\ Notify(t, u))
           /\ result = "ok" =>
                 \A b \in Threads : (\E i \in DOMAIN call[t].batch : call[t].batch[i].by = b)
                                     => ~Undoable(b)'
<1>0. /\ call[t].pc \in {"commit", "flushing"} /\ result \in {"ok", "err"}
      /\ call' = [u \in Threads |-> IF u = t THEN c
                                    ELSE IF Notify(t, u) THEN [call[u] EXCEPT !.outcome = result]
                                    ELSE call[u]]
      /\ CallOK(t, c) /\ c.batch = <<>> /\ UNCHANGED <<queue, pending, acked>>
  BY DEF Batched
<1>1. ASSUME NEW u \in Threads \ {t}
      PROVE  /\ call'[u].pc = call[u].pc /\ call'[u].req = call[u].req
             /\ call'[u].on = call[u].on /\ call'[u].expect = call[u].expect
             /\ call'[u].batch = call[u].batch /\ call'[u].before = call[u].before
             /\ call'[u].item = call[u].item
             /\ call'[u].outcome = IF Notify(t, u) THEN result ELSE call[u].outcome
  <2>1. DOMAIN call[u] = Fields
    BY CallFacts
  <2>2. CASE ~Notify(t, u)
    BY <1>0, <2>2
  <2>3. CASE Notify(t, u)
    <3>1. PICK d : d = [call[u] EXCEPT !.outcome = result]
      OBVIOUS
    <3>2. call'[u] = d
      BY <1>0, <2>3, <3>1
    <3>3. /\ d.pc = call[u].pc /\ d.req = call[u].req
          /\ d.on = call[u].on /\ d.expect = call[u].expect /\ d.batch = call[u].batch
          /\ d.outcome = result /\ d.before = call[u].before /\ d.item = call[u].item
      BY <2>1, <3>1 DEF Fields
    <3> QED BY <2>3, <3>2, <3>3
  <2> QED BY <2>2, <2>3
<1>2. call'[t] = c
  BY <1>0
<1>3. Line(t)' = <<>> /\ \A p \in Places \ {t} : Line(p)' = Line(p)
  BY <1>0, <1>1, <1>2, Kinds DEF Line, Places
<1>4. c.pc \notin {"lead", "flush"} => c.pc \in {"idle", "returned"}
  BY <1>0 DEF Batched
<1>5. CallOK(t, call[t]) /\ (call[t].pc = "flushing" => call[t].outcome = None)
  <2>1. CallOK(t, call[t])
    BY CallFacts
  <2> QED BY <2>1 DEF CallOK
<1>6. ASSUME NEW u \in Threads
      PROVE  /\ DirectItem(u)' => /\ DirectItem(u) /\ call'[u].req = call[u].req
                                  /\ call'[u].item = call[u].item
             /\ Undoable(u)' => Undoable(u) /\ call'[u].before = call[u].before
             /\ OkCall(u)' =>
                   /\ call'[u].expect = call[u].expect /\ call'[u].req = call[u].req
                   /\ OkCall(u) \/ (result = "ok" /\ Notify(t, u))
  <2>1. CASE u # t
    <3>1. Notify(t, u) => call[u].outcome = None
      BY DEF Notify
    <3> QED BY <1>0, <1>1, <2>1, <3>1 DEF DirectItem, Held, Undoable, OkCall, None
  <2>2. CASE u = t
    <3>1. CASE call[t].pc = "commit"
      <4>1. /\ c.pc = "lead" /\ c.on = t /\ c.req = call[t].req /\ c.expect = call[t].expect
            /\ c.before = call[t].before
            /\ c.outcome = IF Notify(t, t) THEN result ELSE call[t].outcome
        BY <3>1 DEF Batched
      <4>2. Notify(t, t) => call[t].outcome = None
        BY DEF Notify
      <4> QED BY <1>0, <1>2, <2>2, <3>1, <4>1, <4>2 DEF DirectItem, Held, Undoable, OkCall, None
    <3>2. CASE call[t].pc = "flushing"
      <4>1. \/ /\ c.pc = "flush" /\ c.req = call[t].req /\ c.before = call[t].before
               /\ c.item = call[t].item /\ c.outcome = None
            \/ c.pc \in {"idle", "returned"}
        BY <3>2 DEF Batched
      <4> QED BY <1>2, <1>5, <2>2, <3>2, <4>1 DEF DirectItem, Held, Undoable, OkCall, None
    <3> QED BY <1>0, <3>1, <3>2
  <2> QED BY <2>1, <2>2
<1>7. Calm
  <2>1. \A u \in Threads : Line(u)' = <<>> \/ Line(u)' = Line(u)
    BY <1>3 DEF Places
  <2> QED BY <1>0, <1>6, <2>1 DEF Calm
<1>8. ASSUME result = "ok", NEW b \in Threads,
             \E i \in DOMAIN call[t].batch : call[t].batch[i].by = b
      PROVE  ~Undoable(b)'
  <2>1. PICK i \in DOMAIN call[t].batch : call[t].batch[i].by = b
    BY <1>8
  <2>2. Line(t) = call[t].batch /\ t \in Places
    BY Kinds DEF Line, Places
  <2>3. b \in Threads /\ Open(b)
    BY <2>1, <2>2, LineTyped DEF ItemOK
  <2>4. Notify(t, b)
    BY <2>1, <2>3 DEF Notify, Open, Publishing
  <2>5. call'[b].outcome = "ok"
    <3>1. CASE b # t
      BY <1>1, <1>8, <2>3, <2>4, <3>1
    <3>2. CASE b = t
      <4>1. call[t].pc = "commit"
        BY <1>0, <2>3, <3>2 DEF Open, Publishing
      <4> QED BY <1>2, <1>8, <2>4, <3>2, <4>1 DEF Batched
    <3> QED BY <3>1, <3>2
  <2> QED BY <2>5 DEF Undoable
<1>9. c.pc \notin {"lead", "flush"} => ~Undoable(t)' /\ ~DirectItem(t)'
  BY <1>2, <1>4 DEF Undoable, DirectItem, Held
<1> QED BY <1>3, <1>6, <1>7, <1>8, <1>9

\* A waiter that is told of the commit of a batch waits for an item of it.
LEMMA NotifiedItem ==
    ASSUME Inv, NEW t \in Threads, NEW u \in Threads, Notify(t, u)
    PROVE  \E i \in DOMAIN call[t].batch :
              call[u].expect = call[t].batch[i].expect /\ call[u].req = call[t].batch[i].req
<1>1. PICK i \in DOMAIN call[t].batch : call[t].batch[i].by = call[u].on
  BY DEF Notify
<1>2. ItemOK(call[t].batch[i]) /\ call[u].outcome = None
  BY <1>1, BatchFresh, LineTyped DEF Notify
<1>3. call[u].pc \in {"lead", "commit", "wait"} /\ CallOK(u, call[u])
  BY NotifyIs, CallFacts
<1>4. CASE call[u].on = u
  BY <1>1, <1>2, <1>4 DEF ItemOK
<1>5. CASE call[u].on # u
  <2>1. call[u].pc = "wait"
    BY <1>3, <1>5 DEF CallOK
  <2>2. call[call[u].on].req = call[u].req /\ call[call[u].on].expect = call[u].expect
    BY <1>2, <1>5, <2>1 DEF Inv, JoinInv
  <2> QED BY <1>1, <1>2, <2>2 DEF ItemOK
<1> QED BY <1>4, <1>5

LEMMA CommitBatchLayer ==
    ASSUME Inv, Layer, NEW t \in Threads, CommitBatch(t)
    PROVE  Layer'
<1>1. PICK c : Batched(t, c, "ok")
  BY CommitBatchIs
<1>2. /\ overlay' = overlay /\ acked' = acked /\ queue' = queue
      /\ Race("overtaken", Overtakes(t, FALSE))
  BY DEF CommitBatch
<1>3. PICK items : items = call[t].batch
  OBVIOUS
<1>4. /\ items \in Seq(Items) /\ Fresh(items) /\ Commit(items) /\ Line(t) = items
      /\ t \in Places
      /\ \A i \in DOMAIN items : items[i].by \in Threads /\ items[i].req \in Requests
  <2>1. Fresh(call[t].batch) /\ Line(t) = call[t].batch /\ t \in Places
    BY BatchFresh
  <2>2. Commit(items)
    BY <1>3 DEF CommitBatch
  <2> QED BY <1>3, <2>1, <2>2, LineTyped DEF Fresh
<1>5. /\ Calm
      /\ \A p \in Places \ {t} : Line(p)' = Line(p)
      /\ Line(t)' = <<>>
      /\ \A u \in Threads :
            OkCall(u)' =>
               /\ call'[u].expect = call[u].expect /\ call'[u].req = call[u].req
               /\ OkCall(u) \/ Notify(t, u)
      /\ \A b \in Threads : (\E i \in DOMAIN items : items[i].by = b) => ~Undoable(b)'
  BY <1>1, <1>3, BatchCalm
<1>6. RollInv'
  <2> SUFFICES ASSUME "rolledBack" \notin races' PROVE RecordInv' /\ UndoInv' /\ OrderInv'
    BY DEF RollInv
  <2>1. RecordInv /\ UndoInv /\ OrderInv
    BY <1>2 DEF Race, Layer, RollInv
  <2>2. ASSUME NEW k \in Keys
        PROVE  \/ stored'[k] = stored[k]
               \/ \E b \in Threads : Rec(k, stored'[k], b) /\ ~Undoable(b)'
    <3>1. ASSUME NEW m \in DOMAIN items, k \in Targets[items[m].req],
                 stored'[k] = items[m].entries[k]
          PROVE  \E b \in Threads : Rec(k, stored'[k], b) /\ ~Undoable(b)'
      <4>1. PICK b \in Threads : b = items[m].by
        BY <1>4
      <4>2. Rec(k, stored'[k], b)
        BY <1>4, <3>1, <4>1 DEF Rec, Moving
      <4> QED BY <1>5, <4>1, <4>2
    <3> QED BY <1>4, <3>1, StoredIs
  <2> QED BY <1>2, <1>5, <2>1, <2>2, SameRecords, CalmOrder
<1>7. ASSUME races' = {} PROVE Kept'
  <2>1. races = {} /\ \A u \in Threads \ {t} : call[u].batch = <<>>
    BY <1>2, <1>7 DEF Race, Overtakes
  <2>2. Kept /\ OrderInv
    BY <2>1 DEF Layer, RollInv, KeptInv
  <2>3. Ordered(items)
    BY <1>4, <2>2 DEF Ordered, OrderInv, Kept, AheadInv
  <2>4. ASSUME NEW k, NEW e, NEW by, Moving(k, e, by)'
        PROVE  IsPrefix(stored'[k].token, e.token)
    <3>1. Moving(k, e, by)
      BY <1>5, <2>4, CalmRecords
    <3>2. k \in Keys
      BY <3>1, RecTyped DEF Rec
    <3>3. CASE stored'[k] = stored[k]
      BY <2>2, <3>1, <3>3, RecordsAre DEF Kept
    <3>4. ASSUME NEW m \in DOMAIN items, k \in Targets[items[m].req],
                 stored'[k] = items[m].entries[k]
          PROVE  IsPrefix(stored'[k].token, e.token)
      <4>1. ASSUME NEW p \in Places, NEW i \in DOMAIN Line(p)', k \in Targets[Line(p)'[i].req],
                   e = Line(p)'[i].entries[k]
            PROVE  IsPrefix(stored'[k].token, e.token)
        <5>1. Line(p)' # <<>>
          OBVIOUS
        <5>2. p # t /\ Line(p)' = Line(p)
          BY <1>5, <5>1
        <5>3. p = None
          BY <2>1, <5>1, <5>2 DEF Places, Line
        <5>4. Line(p)' = queue
          BY <5>2, <5>3 DEF Line
        <5> QED BY <1>3, <2>2, <3>4, <4>1, <5>4 DEF OrderInv
      <4>2. ASSUME by \in Threads, DirectItem(by)', k \in Targets[call'[by].req],
                   e = call'[by].item[1].entries[k]
            PROVE  IsPrefix(stored'[k].token, e.token)
        <5>1. DirectItem(by) /\ call'[by].req = call[by].req /\ call'[by].item = call[by].item
          BY <1>5, <4>2 DEF Calm
        <5> QED BY <1>4, <2>2, <3>4, <4>2, <5>1 DEF OrderInv
      <4> QED BY <2>4, <4>1, <4>2 DEF Moving
    <3> QED BY <1>4, <3>2, <3>3, <3>4, StoredIs
  <2>5. AheadInv'
    BY <2>4, RecordsWillBe
  <2>6. ASSUME NEW u \in Threads, OkCall(u)'
        PROVE  \/ OkCall(u) /\ call'[u].expect = call[u].expect /\ call'[u].req = call[u].req
               \/ \E i \in DOMAIN items :
                     call'[u].expect = items[i].expect /\ call'[u].req = items[i].req
    BY <1>3, <1>5, <2>6, NotifiedItem
  <2> QED BY <1>2, <1>4, <2>2, <2>3, <2>5, <2>6, GrownKept
<1> QED BY <1>6, <1>7 DEF Layer, KeptInv

LEMMA FailBatchLayer ==
    ASSUME Inv, Layer, NEW t \in Threads, FailBatch(t)
    PROVE  Layer'
<1>1. PICK c : Batched(t, c, "err")
  BY FailBatchIs
<1>2. /\ UNCHANGED <<stored, receipts>> /\ acked' = acked
      /\ call[t].pc \in {"commit", "flushing"}
  BY <1>1 DEF Batched
<1>3. /\ Calm
      /\ c.pc \notin {"lead", "flush"} => ~Undoable(t)' /\ ~DirectItem(t)'
      /\ \A u \in Threads : OkCall(u)' =>
            OkCall(u) /\ call'[u].expect = call[u].expect /\ call'[u].req = call[u].req
  BY <1>1, BatchCalm
<1>4. CASE overlay' = overlay /\ races' = races
  BY <1>2, <1>3, <1>4, QuietLayer
<1>5. CASE /\ Restored(t) /\ call[t].req \in Strict /\ call[t].pc = "flushing"
           /\ call'[t].pc \in {"idle", "returned"}
  <2>1. CallOK(t, call[t]) /\ call[t].req # None
    BY <1>5, CallFacts, Kinds DEF Direct
  <2>2. Undoable(t) /\ ~Open(t)
    <3>1. call[t].outcome = None
      BY <1>5, <2>1 DEF CallOK
    <3> QED BY <1>5, <2>1, <3>1 DEF Undoable, Open, Publishing, None
  <2>4. ~Undoable(t)' /\ ~DirectItem(t)'
    BY <1>5 DEF Undoable, DirectItem, Held
  <2>5. \A k, e : ~Moving(k, e, t)'
    <3>1. \A p \in Places : \A i \in DOMAIN Line(p) : Line(p)[i].by # t
      BY <2>2, LineTyped DEF ItemOK
    <3>2. ASSUME NEW p \in Places, NEW i \in DOMAIN Line(p)' PROVE Line(p)'[i].by # t
      <4>1. PICK q \in Places : Line(p)' = Line(q)
        BY <1>3, CalmLines
      <4> QED BY <3>1, <4>1
    <3> QED BY <2>4, <3>2 DEF Moving
  <2> QED BY <1>2, <1>3, <1>5, <2>2, <2>4, <2>5, RestoredLayer
<1> QED BY <1>4, <1>5, FailBatchIs

LEMMA CommitOwnLayer ==
    ASSUME Inv, Layer, NEW t \in Threads, CommitOwn(t)
    PROVE  Layer'
<1>1. call[t].pc = "own" /\ UNCHANGED queue /\ DirectItem(t) /\ ~Open(t)
  <2>1. call[t].pc = "own" /\ UNCHANGED queue
    BY DEF CommitOwn
  <2> QED BY <2>1, CallFacts, Kinds DEF DirectItem, Held, Open, Publishing
<1>2. PICK it \in Items :
        /\ call[t].item = <<it>> /\ it.by = t /\ it.req = call[t].req
        /\ it.expect = call[t].expect /\ call[t].item[1] = it
  BY <1>1, OwnItem
<1>3. /\ CallOK(t, call[t]) /\ call[t].batch = <<>> /\ call[t].req \in Requests
      /\ call[t].req # None /\ call[t].outcome = None
  <2>1. CallOK(t, call[t]) /\ call[t].batch = <<>> /\ call[t].req \in Requests
    BY <1>1, CallFacts
  <2> QED BY <1>1, <2>1, Kinds DEF CallOK
<1>4. PICK result \in {"ok", "err"} : call' = [call EXCEPT ![t] = Returned(call[t], result)]
  BY DEF CommitOwn, Return
<1>5. PICK c : c = Returned(call[t], result)
  OBVIOUS
<1>6. c.pc = "returned" /\ c.batch = <<>> /\ call' = [call EXCEPT ![t] = c]
  BY <1>3, <1>4, <1>5, ReturnedOK
<1>7. call'[t] = c
  BY <1>6 DEF Inv, TypeOK
<1>8. ~DirectItem(t)' /\ ~OkCall(t)' /\ ~Undoable(t)' /\ Undoable(t)
  BY <1>1, <1>3, <1>6, <1>7 DEF DirectItem, Held, OkCall, Undoable, None
<1>9. /\ Calm /\ call' = [u \in Threads |-> IF u = t THEN c ELSE call[u]]
      /\ \A u \in Threads \ {t} : OkCall(u)' => OkCall(u) /\ call'[u] = call[u]
  BY <1>1, <1>3, <1>6, <1>8, CalmCall
<1>10. \A k, e : ~Moving(k, e, t)'
  <2>1. \A p \in Places : \A i \in DOMAIN Line(p) : Line(p)[i].by # t
    BY <1>1, LineTyped DEF ItemOK
  <2>2. ASSUME NEW p \in Places, NEW i \in DOMAIN Line(p)' PROVE Line(p)'[i].by # t
    <3>1. PICK q \in Places : Line(p)' = Line(q)
      BY <1>9, CalmLines
    <3> QED BY <2>1, <3>1
  <2> QED BY <1>8, <2>2 DEF Moving
<1>11. CASE NotCommitted /\ Restored(t) /\ UNCHANGED acked
  BY <1>8, <1>9, <1>10, <1>11, RestoredLayer DEF NotCommitted
<1>12. CASE /\ Commit(call[t].item) /\ Acknowledge(call[t].req, call[t].expect)
            /\ Race("overtaken", Overtakes(t, TRUE)) /\ UNCHANGED overlay
  <2>1. PICK items : items = call[t].item
    OBVIOUS
  <2>2. Fresh(items) /\ Commit(items)
    BY <1>1, <1>12, <2>1, OwnFresh
  <2>3. items \in Seq(Items) /\ DOMAIN items = {1} /\ items[1] = it
    <3>1. DOMAIN <<it>> = {1} /\ <<it>>[1] = it /\ <<it>> \in Seq(Items)
      OBVIOUS
    <3> QED BY <1>2, <2>1, <3>1
  <2>4. RollInv'
    <3> SUFFICES ASSUME "rolledBack" \notin races' PROVE RecordInv' /\ UndoInv' /\ OrderInv'
      BY DEF RollInv
    <3>1. RecordInv /\ UndoInv /\ OrderInv
      BY <1>12 DEF Race, Layer, RollInv
    <3>2. ASSUME NEW k \in Keys
          PROVE  \/ stored'[k] = stored[k]
                 \/ \E b \in Threads : Rec(k, stored'[k], b) /\ ~Undoable(b)'
      <4>1. ASSUME k \in Targets[it.req], stored'[k] = it.entries[k]
            PROVE  Rec(k, stored'[k], t)
        BY <1>1, <1>2, <4>1 DEF Rec, Moving
      <4> QED BY <1>8, <2>2, <2>3, <4>1, StoredIs
    <3> QED BY <1>9, <1>12, <3>1, <3>2, SameRecords, CalmOrder
  <2>5. ASSUME races' = {} PROVE Kept'
    <3>1. races = {} /\ queue = <<>> /\ \A u \in Threads : call[u].batch = <<>>
      BY <1>3, <1>12, <2>5 DEF Race, Overtakes
    <3>2. Kept
      BY <3>1 DEF Layer, KeptInv
    <3>3. Ordered(items)
      <4>1. \A k \in Targets[it.req] : IsPrefix(stored[k].token, it.entries[k].token)
        BY <1>1, <1>2, <3>2 DEF Kept, AheadInv
      <4> QED BY <2>3, <4>1 DEF Ordered
    <3>4. ASSUME NEW k, NEW e, NEW by, Moving(k, e, by)' PROVE FALSE
      <4>1. Moving(k, e, by) /\ by # t
        BY <1>9, <1>10, <3>4, CalmRecords
      <4>2. \A p \in Places : DOMAIN Line(p) = {}
        <5>1. \A p \in Places : Line(p) = <<>>
          BY <3>1 DEF Line, Places
        <5> QED BY <5>1
      <4>3. by \in Threads /\ Held(by)
        BY <4>1, <4>2 DEF Moving, DirectItem
      <4> QED BY <1>1, <4>1, <4>3 DEF Inv, HeldInv, DirectItem
    <3>5. AheadInv'
      BY <3>4, RecordsWillBe
    <3>6. \A u \in Threads : OkCall(u)' =>
             OkCall(u) /\ call'[u].expect = call[u].expect /\ call'[u].req = call[u].req
      BY <1>8, <1>9
    <3>7. \A k \in Keys : \A token \in acked'[k] :
             \/ token \in acked[k]
             \/ k \in Targets[it.req] /\ token = Append(it.expect[k], it.req)
      BY <1>2, <1>12 DEF Acknowledge
    <3>8. \A k \in Keys : \A token \in acked'[k] :
             \/ token \in acked[k]
             \/ \E i \in DOMAIN items : /\ k \in Targets[items[i].req]
                                        /\ token = Append(items[i].expect[k], items[i].req)
      BY <2>3, <3>7
    <3> QED BY <2>2, <3>2, <3>3, <3>5, <3>6, <3>8, GrownKept
  <2> QED BY <2>4, <2>5 DEF Layer, KeptInv
<1> QED BY <1>11, <1>12 DEF CommitOwn

LEMMA InitLayer == Init => Layer
<1> SUFFICES ASSUME Init PROVE Layer
  OBVIOUS
<1>1. \A t \in Threads : call[t].pc = "idle" /\ call[t].batch = <<>>
  BY DEF Init, Idle
<1>2. \A t \in Threads : ~DirectItem(t) /\ ~Undoable(t) /\ ~OkCall(t)
  BY <1>1 DEF DirectItem, Held, Undoable, OkCall
<1>3. queue = <<>> /\ \A p \in Places : DOMAIN Line(p) = {}
  <2>1. queue = <<>> /\ \A p \in Places : Line(p) = <<>>
    BY <1>1 DEF Line, Places, Init
  <2> QED BY <2>1
<1>4. ASSUME NEW k \in Keys PROVE RecordOK(k, stored[k], None)
  <2>1. stored[k] = NoEntry /\ overlay.entries[k] = NoEntry /\ overlay.gen = 0
    BY DEF Init
  <2>2. <<>> \in Seq(Requests)
    BY EmptySeq
  <2>3. IsPrefix(<<>>, <<>>)
    BY <2>2, PrefixSelf
  <2> QED BY <1>2, <2>1, <2>3 DEF RecordOK, NoEntry
<1>5. RecordInv /\ UndoInv /\ OrderInv
  <2>1. \A t \in Threads : DOMAIN call[t].batch = {}
    BY <1>1
  <2> QED BY <1>2, <1>3, <1>4, <2>1 DEF RecordInv, UndoInv, OrderInv
<1>6. Kept
  BY <1>2, <1>3 DEF Kept, AheadInv, ReceiptInv, DoneInv, AckedKept, Init
<1> QED BY <1>5, <1>6 DEF Layer, RollInv, KeptInv

LEMMA NextLayer == Inv /\ Layer /\ [Next]_vars => Layer'
<1> SUFFICES ASSUME Inv, Layer, [Next]_vars PROVE Layer'
  OBVIOUS
<1>1. CASE Crash
  BY <1>1, CrashLayer
<1>2. ASSUME NEW t \in Threads, Enter(t) PROVE Layer'
  BY <1>2, PlanLayer, AnswerLayer, JoinLayer, SubmitNormalLayer, SubmitDirectLayer, PutLayer,
     PutAgainLayer, FlushLayer, RetryLayer, ForgetLayer DEF Enter
<1>3. ASSUME NEW t \in Threads, Proceed(t) PROVE Layer'
  BY <1>3, DrainLayer, DrainEndsLayer, CommitBatchLayer, FailBatchLayer, CommitOwnLayer,
     SettleLayer, RestoreLayer DEF Proceed
<1>4. CASE UNCHANGED vars
  <2>1. /\ UNCHANGED <<overlay, stored, receipts, queue, call>>
        /\ UNCHANGED <<acked, races>>
    BY <1>4 DEF vars
  <2>2. \A p \in Places : Line(p)' = Line(p)
    BY <2>1 DEF Line
  <2>3. \A t \in Threads : /\ DirectItem(t)' <=> DirectItem(t)
                           /\ Undoable(t)' <=> Undoable(t)
                           /\ OkCall(t)' <=> OkCall(t)
    BY <2>1 DEF DirectItem, Held, Undoable, OkCall
  <2>4. Calm
    BY <2>1, <2>2, <2>3 DEF Calm, Places
  <2> QED BY <2>1, <2>3, <2>4, QuietLayer
<1> QED BY <1>1, <1>2, <1>3, <1>4 DEF Next

\* Every record, on its way or in the file, is part of the overlay and of what a call that has
\* not succeeded would put back; the file is behind the records on their way.
THEOREM RecordsInvariant == Spec => []Layer
BY Invariant, InitLayer, NextLayer, PTL DEF Spec

\* The overlay in memory has every update the file has, until a failed call puts back an overlay
\* that others have written to (fork_from_snapshot after a failed commit).
THEOREM MemoryIsAhead == Spec => []MemoryAhead
<1>1. Layer => MemoryAhead
  BY DEF Layer, RollInv, RecordInv, RecordOK, MemoryAhead
<1> QED BY <1>1, RecordsInvariant, PTL

\* Acknowledged writes stay part of what the file holds, through any number of batches, direct
\* commits, failed commits and crashes, as long as neither race has happened.
THEOREM AcknowledgedKept == Spec => []UpdatesKept
<1>1. Layer => UpdatesKept
  BY DEF Layer, KeptInv, Kept, AckedKept, UpdatesKept
<1> QED BY <1>1, RecordsInvariant, PTL

------------------------------------------------------------------------------
(* ---- what is answered again ---- *)

\* The receipts of a step are those of before it, or one for a request that had none.
Recorded ==
    \A r \in Idempotent : /\ receipts[r] \subseteq receipts'[r]
                          /\ receipts'[r] = receipts[r] \/ \E expect : receipts'[r] = {expect}

\* The request r may be acknowledged with these compare tokens.
Ackable(r, expect) ==
    /\ r \in Requests /\ expect \in [Targets[r] -> Tokens]
    /\ r \in Idempotent => expect \in receipts'[r]

LEMMA ReplayFrame ==
    ASSUME Inv, ReplayInv, Recorded,
           \A t \in Threads : OkCall(t)' =>
              \/ OkCall(t) /\ call'[t].expect = call[t].expect /\ call'[t].req = call[t].req
              \/ call'[t].req \in Idempotent => call'[t].expect \in receipts'[call'[t].req],
           UNCHANGED acked \/ \E r, expect : Ackable(r, expect) /\ Acknowledge(r, expect)
    PROVE  ReplayInv'
<1>1. \A r \in Idempotent : \A d, e \in receipts'[r] : d = e
  BY DEF Recorded, ReplayInv
<1>2. ASSUME NEW t \in Threads, OkCall(t)', call'[t].req \in Idempotent
      PROVE  call'[t].expect \in receipts'[call'[t].req]
  BY <1>2 DEF Recorded, ReplayInv
<1>3. ASSUME NEW k \in Keys, NEW token \in acked'[k], token[Len(token)] \in Idempotent
      PROVE  /\ k \in Targets[token[Len(token)]]
             /\ \E e \in receipts'[token[Len(token)]] : token = Append(e[k], token[Len(token)])
  <2>1. CASE token \in acked[k]
    BY <1>3, <2>1 DEF Recorded, ReplayInv
  <2>2. CASE token \notin acked[k]
    <3>1. PICK r, expect : Ackable(r, expect) /\ Acknowledge(r, expect)
      BY <1>3, <2>2
    <3>2. k \in Targets[r] /\ token = Append(expect[k], r)
      BY <1>3, <2>2, <3>1 DEF Acknowledge
    <3>3. r \in Requests /\ expect[k] \in Seq(Requests)
      BY <3>1, <3>2 DEF Ackable, Tokens
    <3>4. token[Len(token)] = r
      BY <3>2, <3>3, AppendLast
    <3> QED BY <1>3, <3>1, <3>2, <3>4 DEF Ackable
  <2> QED BY <2>1, <2>2
<1> QED BY <1>1, <1>2, <1>3 DEF ReplayInv

\* One call changes and nothing reaches the file.
LEMMA ReplayCall ==
    ASSUME Inv, ReplayInv, NEW t \in Threads, NEW c, call' = [call EXCEPT ![t] = c],
           UNCHANGED receipts,
           \/ c.pc \notin {"lead", "commit", "wait"} \/ c.outcome # "ok"
           \/ OkCall(t) /\ c.expect = call[t].expect /\ c.req = call[t].req,
           UNCHANGED acked \/ \E r, expect : Ackable(r, expect) /\ Acknowledge(r, expect)
    PROVE  ReplayInv'
<1>1. call' = [u \in Threads |-> IF u = t THEN c ELSE call[u]]
  BY DEF Inv, TypeOK
<1>2. Recorded
  BY DEF Recorded
<1>3. ASSUME NEW u \in Threads, OkCall(u)'
      PROVE  OkCall(u) /\ call'[u].expect = call[u].expect /\ call'[u].req = call[u].req
  BY <1>1, <1>3 DEF OkCall
<1> QED BY <1>2, <1>3, ReplayFrame

\* Steps of calls that acknowledge nothing.
LEMMA QuietReplay ==
    ASSUME Inv, ReplayInv, NEW t \in Threads,
           \/ \E r \in Workflows : Plan(t, r)
           \/ Join(t) \/ SubmitNormal(t) \/ SubmitDirect(t) \/ Flush(t) \/ Retry(t) \/ Forget(t)
           \/ Drain(t) \/ DrainEnds(t) \/ Restore(t)
           \/ \E r \in Puts : PutValues(t, r)
    PROVE  ReplayInv'
<1>0. DOMAIN call[t] = Fields
  BY CallFacts
<1>1. CASE \E r \in Workflows : Plan(t, r)
  <2>1. PICK r \in Workflows : Plan(t, r)
    BY <1>1
  <2>2. PICK c : c = [Idle EXCEPT !.pc = "planned", !.req = r, !.gen = overlay.gen,
                      !.expect = [k \in Targets[r] |-> overlay.entries[k].token]]
    OBVIOUS
  <2>3. call' = [call EXCEPT ![t] = c] /\ c.pc = "planned" /\ UNCHANGED <<receipts, acked>>
    BY <2>1, <2>2 DEF Plan, Idle
  <2> QED BY <2>3, ReplayCall
<1>2. CASE Join(t)
  <2>1. /\ call[t].pc = "planned" /\ receipts[call[t].req] = {} /\ pending[call[t].req] # None
        /\ UNCHANGED <<receipts, acked>>
    BY <1>2 DEF Join, Submitted, Untouched
  <2>2. call[pending[call[t].req]].outcome # "ok"
    BY <2>1, CallFacts, Kinds, NotYetOk
  <2>3. PICK c : c = [call[t] EXCEPT !.pc = "wait", !.on = pending[call[t].req],
                                     !.outcome = call[pending[call[t].req]].outcome]
    OBVIOUS
  <2>4. call' = [call EXCEPT ![t] = c] /\ c.outcome # "ok"
    BY <1>0, <1>2, <2>2, <2>3 DEF Join, Fields
  <2> QED BY <2>1, <2>4, ReplayCall
<1>3. ASSUME NEW r \in Requests, NEW c, Enters(t, c, r), Enqueue(t, c, r),
             UNCHANGED <<receipts, acked>>
      PROVE  ReplayInv'
  <2>1. CASE \E it, d : Queues(t, r, it, d)
    <3>1. PICK it, d : Queues(t, r, it, d)
      BY <2>1
    <3>2. call' = [call EXCEPT ![t] = d] /\ d.outcome # "ok"
      BY <3>1 DEF Queues, None
    <3> QED BY <1>3, <3>2, ReplayCall
  <2>2. CASE call' = [call EXCEPT ![t] = Returned(c, "err")] /\ Returned(c, "err").pc = "returned"
    BY <1>3, <2>2, ReplayCall
  <2> QED BY <1>3, <2>1, <2>2, EnqueueIs
<1>4. CASE SubmitNormal(t)
  <2>1. UNCHANGED <<receipts, acked>>
    BY <1>4 DEF SubmitNormal
  <2> QED BY <1>3, <1>4, <2>1, SubmitNormalEnters
<1>5. CASE \E r \in Puts : PutValues(t, r)
  <2>1. PICK r \in Puts : PutValues(t, r)
    BY <1>5
  <2>2. UNCHANGED <<receipts, acked>>
    BY <2>1 DEF PutValues
  <2> QED BY <1>3, <2>1, <2>2, PutEnters
<1>6. CASE SubmitDirect(t)
  <2>1. PICK c : c = [call[t] EXCEPT !.pc = IF call[t].req \in Relaxed THEN "own" ELSE "flush",
                          !.before = overlay, !.item = Item(t, call[t].expect, call[t].req)]
    OBVIOUS
  <2>2. call' = [call EXCEPT ![t] = c] /\ UNCHANGED <<receipts, acked>>
    BY <1>6, <2>1 DEF SubmitDirect
  <2>3. c.pc \in {"own", "flush"}
    BY <1>0, <2>1 DEF Fields
  <2> QED BY <2>2, <2>3, ReplayCall
<1>7. CASE Flush(t) \/ Retry(t) \/ Forget(t)
  <2>1. PICK c : call' = [call EXCEPT ![t] = c] /\ c.pc \in {"flush", "planned", "idle"}
    <3>1. CASE Flush(t)
      <4>1. PICK c : c = [call[t] EXCEPT !.pc = "flush"]
        OBVIOUS
      <4>2. call' = [call EXCEPT ![t] = c] /\ c.pc = "flush"
        BY <1>0, <3>1, <4>1 DEF Flush, Fields
      <4> QED BY <4>2
    <3>2. CASE Retry(t)
      <4>1. PICK c : c = [call[t] EXCEPT !.pc = "planned", !.outcome = None]
        OBVIOUS
      <4>2. call' = [call EXCEPT ![t] = c] /\ c.pc = "planned"
        BY <1>0, <3>2, <4>1 DEF Retry, Fields
      <4> QED BY <4>2
    <3>3. CASE Forget(t)
      <4>1. call' = [call EXCEPT ![t] = Idle]
        BY <3>3 DEF Forget
      <4>2. Idle.pc = "idle"
        BY DEF Idle
      <4> QED BY <4>1, <4>2
    <3> QED BY <1>7, <3>1, <3>2, <3>3
  <2>2. UNCHANGED <<receipts, acked>>
    BY <1>7 DEF Flush, Retry, Forget
  <2> QED BY <2>1, <2>2, ReplayCall
<1>8. CASE Drain(t)
  <2>1. PICK c : c = [call[t] EXCEPT !.batch = queue,
                          !.pc = IF call[t].pc = "lead" THEN "commit" ELSE "flushing"]
    OBVIOUS
  <2>2. /\ call' = [call EXCEPT ![t] = c] /\ UNCHANGED <<receipts, acked>>
        /\ call[t].pc \in {"lead", "flush"}
    BY <1>8, <2>1 DEF Drain
  <2>3. /\ c.pc = IF call[t].pc = "lead" THEN "commit" ELSE "flushing"
        /\ c.outcome = call[t].outcome /\ c.expect = call[t].expect /\ c.req = call[t].req
    BY <1>0, <2>1 DEF Fields
  <2> QED BY <2>2, <2>3, ReplayCall DEF OkCall
<1>9. CASE DrainEnds(t)
  <2>1. UNCHANGED <<receipts, acked>> /\ call[t].pc \in {"lead", "flush"}
    BY <1>9 DEF DrainEnds
  <2>2. CASE call[t].pc = "flush" /\ call[t].req = None
    <3>1. call' = [call EXCEPT ![t] = Idle] /\ Idle.pc = "idle"
      BY <1>9, <2>2 DEF DrainEnds, Idle
    <3> QED BY <2>1, <3>1, ReplayCall
  <2>3. CASE ~(call[t].pc = "flush" /\ call[t].req = None)
    <3>1. PICK c : c = [call[t] EXCEPT !.pc = IF call[t].pc = "lead" THEN "wait" ELSE "own"]
      OBVIOUS
    <3>2. call' = [call EXCEPT ![t] = c]
      BY <1>9, <2>1, <2>3, <3>1 DEF DrainEnds
    <3>3. /\ c.pc = IF call[t].pc = "lead" THEN "wait" ELSE "own"
          /\ c.outcome = call[t].outcome /\ c.expect = call[t].expect /\ c.req = call[t].req
      BY <1>0, <3>1 DEF Fields
    <3> QED BY <2>1, <3>2, <3>3, ReplayCall DEF OkCall
  <2> QED BY <2>2, <2>3
<1>10. CASE Restore(t)
  <2>1. PICK c : c = Returned(call[t], "err")
    OBVIOUS
  <2>2. call' = [call EXCEPT ![t] = c] /\ UNCHANGED <<receipts, acked>>
    BY <1>10, <2>1 DEF Restore, Return
  <2>3. c.pc = "returned"
    BY <1>0, <2>1 DEF Returned, Fields
  <2> QED BY <2>2, <2>3, ReplayCall
<1> QED BY <1>1, <1>2, <1>4, <1>5, <1>6, <1>7, <1>8, <1>9, <1>10

\* Calls that are answered: from a receipt, or with the outcome that has arrived.
LEMMA AnswerReplay ==
    ASSUME Inv, ReplayInv, NEW t \in Threads, Answer(t)
    PROVE  ReplayInv'
<1>1. /\ call[t].pc = "planned" /\ UNCHANGED receipts
  BY DEF Answer, Submitted, Untouched
<1>2. /\ CallOK(t, call[t]) /\ call[t].req \in Requests
      /\ call[t].expect \in [Targets[call[t].req] -> Tokens]
  BY <1>1, CallFacts, Kinds
<1>3. PICK result \in {"ok", "err"} : call' = [call EXCEPT ![t] = Returned(call[t], result)]
  BY DEF Answer, Return
<1>4. Returned(call[t], result).pc = "returned"
  BY <1>2, ReturnedOK
<1>5. \/ Acknowledge(call[t].req, call[t].expect) /\ call[t].expect \in receipts[call[t].req]
      \/ UNCHANGED acked
  BY DEF Answer
<1>6. UNCHANGED acked \/ \E r, expect : Ackable(r, expect) /\ Acknowledge(r, expect)
  BY <1>1, <1>2, <1>5 DEF Ackable
<1> QED BY <1>1, <1>3, <1>4, <1>6, ReplayCall

LEMMA PutAgainReplay ==
    ASSUME Inv, ReplayInv, NEW t \in Threads, NEW r \in Keyed, PutAgain(t, r)
    PROVE  ReplayInv'
<1>1. r \in Idempotent /\ r \in Requests /\ UNCHANGED receipts
  BY Kinds DEF PutAgain, Idempotent, Untouched
<1>2. ASSUME NEW expect \in receipts[r], Acknowledge(r, expect),
             call' = [call EXCEPT ![t] = Returned([Idle EXCEPT !.req = r, !.expect = expect], "ok")]
      PROVE  ReplayInv'
  <2>1. PICK c : c = Returned([Idle EXCEPT !.req = r, !.expect = expect], "ok")
    OBVIOUS
  <2>2. c.pc = "returned"
    BY <2>1 DEF Returned, Idle
  <2>3. Ackable(r, expect)
    BY <1>1 DEF Ackable, Inv, TypeOK
  <2> QED BY <1>1, <1>2, <2>1, <2>2, <2>3, ReplayCall
<1>3. ASSUME receipts[r] = {}, pending[r] # None, UNCHANGED acked,
             call' = [call EXCEPT ![t] = [Idle EXCEPT !.pc = "wait", !.req = r, !.on = pending[r],
                          !.expect = call[pending[r]].expect, !.outcome = call[pending[r]].outcome]]
      PROVE  ReplayInv'
  <2>1. PICK c : c = [Idle EXCEPT !.pc = "wait", !.req = r, !.on = pending[r],
                          !.expect = call[pending[r]].expect, !.outcome = call[pending[r]].outcome]
    OBVIOUS
  <2>2. c.outcome = call[pending[r]].outcome
    BY <2>1 DEF Idle
  <2>3. c.outcome # "ok"
    BY <1>1, <1>3, <2>2, NotYetOk
  <2> QED BY <1>1, <1>3, <2>1, <2>3, ReplayCall
<1> QED BY <1>2, <1>3 DEF PutAgain

LEMMA SettleReplay ==
    ASSUME Inv, ReplayInv, NEW t \in Threads, Settle(t)
    PROVE  ReplayInv'
<1>1. call[t].pc = "wait" /\ call[t].outcome # None /\ UNCHANGED receipts
  BY DEF Settle
<1>2. /\ CallOK(t, call[t]) /\ DOMAIN call[t] = Fields /\ call[t].req \in Requests
      /\ call[t].expect \in [Targets[call[t].req] -> Tokens]
  BY <1>1, CallFacts, Kinds
<1>3. CASE call[t].outcome = "ok"
  <2>1. /\ call' = [call EXCEPT ![t] = Returned(call[t], "ok")]
        /\ Acknowledge(call[t].req, call[t].expect)
    BY <1>3 DEF Settle, Return
  <2>2. Returned(call[t], "ok").pc = "returned"
    BY <1>2, ReturnedOK
  <2>3. OkCall(t)
    BY <1>1, <1>3 DEF OkCall
  <2>4. Ackable(call[t].req, call[t].expect)
    BY <1>1, <1>2, <2>3 DEF Ackable, ReplayInv
  <2> QED BY <1>1, <2>1, <2>2, <2>4, ReplayCall
<1>4. CASE call[t].outcome # "ok"
  <2>1. UNCHANGED acked
    BY <1>4 DEF Settle
  <2>2. CASE call' = [call EXCEPT ![t] = Returned(call[t], "err")]
    <3>1. Returned(call[t], "err").pc = "returned"
      BY <1>2, ReturnedOK
    <3> QED BY <1>1, <2>1, <2>2, <3>1, ReplayCall
  <2>3. CASE call' = [call EXCEPT ![t].pc = "restore"]
    <3>1. PICK c : c = [call[t] EXCEPT !.pc = "restore"]
      OBVIOUS
    <3>2. call' = [call EXCEPT ![t] = c] /\ c.pc = "restore"
      BY <1>2, <2>3, <3>1 DEF Fields
    <3> QED BY <1>1, <2>1, <3>2, ReplayCall
  <2> QED BY <1>4, <2>2, <2>3 DEF Settle, Return
<1> QED BY <1>3, <1>4

\* A commit gives each of its requests the receipt of the compare tokens it was sent with.
LEMMA CommitRecords ==
    ASSUME Inv, NEW items, Fresh(items), Commit(items)
    PROVE  Recorded
<1>1. ASSUME NEW r \in Idempotent
      PROVE  /\ receipts[r] \subseteq receipts'[r]
             /\ receipts'[r] = receipts[r] \/ \E expect : receipts'[r] = {expect}
  <2>1. CASE \E i \in DOMAIN items : items[i].req = r
    <3>1. PICK i \in DOMAIN items : items[i].req = r
      BY <2>1
    <3>2. receipts'[r] = {items[i].expect} /\ receipts[r] = {}
      BY <3>1, CommitIs DEF Fresh
    <3> QED BY <3>2
  <2>2. CASE \A i \in DOMAIN items : items[i].req # r
    BY <2>2, CommitIs
  <2> QED BY <2>1, <2>2
<1> QED BY <1>1 DEF Recorded

LEMMA BatchReplay ==
    ASSUME Inv, ReplayInv, NEW t \in Threads, NEW c, NEW result, Batched(t, c, result)
    PROVE  ReplayInv'
<1>1. /\ call' = [u \in Threads |-> IF u = t THEN c
                                    ELSE IF Notify(t, u) THEN [call[u] EXCEPT !.outcome = result]
                                    ELSE call[u]]
      /\ result \in {"ok", "err"} /\ UNCHANGED acked
      /\ IF result = "ok" THEN Commit(call[t].batch) ELSE UNCHANGED <<stored, receipts, commits>>
  BY DEF Batched
<1>2. ASSUME NEW u \in Threads, OkCall(u)'
      PROVE  /\ call'[u].expect = call[u].expect /\ call'[u].req = call[u].req
             /\ OkCall(u) \/ (Notify(t, u) /\ result = "ok")
  <2>0. DOMAIN call[u] = Fields
    BY CallFacts
  <2>1. CASE u = t
    <3>1. call'[t] = c
      BY <1>1
    <3>2. c.pc \in {"lead", "commit", "wait"} /\ c.outcome = "ok"
      BY <1>2, <2>1, <3>1 DEF OkCall
    <3>3. CASE call[t].pc = "commit"
      BY <2>1, <3>1, <3>2, <3>3 DEF Batched, OkCall
    <3>4. CASE call[t].pc = "flushing"
      BY <3>2, <3>4 DEF Batched
    <3> QED BY <3>3, <3>4 DEF Batched
  <2>2. CASE u # t /\ Notify(t, u)
    <3>1. PICK d : d = [call[u] EXCEPT !.outcome = result]
      OBVIOUS
    <3>2. call'[u] = d
      BY <1>1, <2>2, <3>1
    <3>3. d.expect = call[u].expect /\ d.req = call[u].req /\ d.outcome = result
      BY <2>0, <3>1 DEF Fields
    <3> QED BY <1>2, <2>2, <3>2, <3>3 DEF OkCall
  <2>3. CASE u # t /\ ~Notify(t, u)
    <3>1. call'[u] = call[u]
      BY <1>1, <2>3
    <3> QED BY <1>2, <3>1 DEF OkCall
  <2> QED BY <2>1, <2>2, <2>3
<1>3. CASE result = "ok"
  <2>1. Fresh(call[t].batch) /\ Commit(call[t].batch)
    BY <1>1, <1>3, BatchFresh
  <2>2. Recorded
    BY <2>1, CommitRecords
  <2>3. ASSUME NEW u \in Threads, Notify(t, u), call[u].req \in Idempotent
        PROVE  call[u].expect \in receipts'[call[u].req]
    <3>1. PICK i \in DOMAIN call[t].batch :
            call[u].expect = call[t].batch[i].expect /\ call[u].req = call[t].batch[i].req
      BY <2>3, NotifiedItem
    <3> QED BY <2>1, <2>3, <3>1, CommitIs
  <2> QED BY <1>1, <1>2, <2>2, <2>3, ReplayFrame
<1>4. CASE result = "err"
  <2>1. Recorded
    BY <1>1, <1>4 DEF Recorded
  <2> QED BY <1>1, <1>2, <1>4, <2>1, ReplayFrame
<1> QED BY <1>1, <1>3, <1>4

LEMMA CommitOwnReplay ==
    ASSUME Inv, ReplayInv, NEW t \in Threads, CommitOwn(t)
    PROVE  ReplayInv'
<1>1. call[t].pc = "own" /\ DirectItem(t)
  BY CallFacts, Kinds DEF CommitOwn, DirectItem, Held
<1>2. PICK it \in Items :
        /\ call[t].item = <<it>> /\ it.req = call[t].req /\ it.expect = call[t].expect
        /\ call[t].req \in Direct
  BY <1>1, OwnItem
<1>3. /\ CallOK(t, call[t]) /\ call[t].req \in Idempotent /\ call[t].req \in Requests
      /\ call[t].expect \in [Targets[call[t].req] -> Tokens]
  BY <1>1, <1>2, CallFacts, Kinds
<1>4. PICK result \in {"ok", "err"} : call' = [call EXCEPT ![t] = Returned(call[t], result)]
  BY DEF CommitOwn, Return
<1>5. Returned(call[t], result).pc = "returned"
  BY <1>3, ReturnedOK
<1>6. CASE NotCommitted /\ UNCHANGED acked
  <2>1. UNCHANGED receipts
    BY <1>6 DEF NotCommitted
  <2> QED BY <1>4, <1>5, <1>6, <2>1, ReplayCall
<1>7. CASE Commit(call[t].item) /\ Acknowledge(call[t].req, call[t].expect)
  <2>1. PICK items : items = call[t].item
    OBVIOUS
  <2>2. Fresh(items) /\ Commit(items) /\ items = <<it>>
    BY <1>1, <1>2, <1>7, <2>1, OwnFresh
  <2>3. Recorded
    BY <2>2, CommitRecords
  <2>4. 1 \in DOMAIN items /\ items[1] = it
    BY <2>2
  <2>5. receipts'[call[t].req] = {call[t].expect}
    BY <1>2, <1>3, <2>2, <2>4, CommitIs
  <2>6. Ackable(call[t].req, call[t].expect)
    BY <1>3, <2>5 DEF Ackable
  <2>7. ASSUME NEW u \in Threads, OkCall(u)'
        PROVE  OkCall(u) /\ call'[u].expect = call[u].expect /\ call'[u].req = call[u].req
    <3>1. call'[u] = IF u = t THEN Returned(call[t], result) ELSE call[u]
      BY <1>4 DEF Inv, TypeOK
    <3> QED BY <1>5, <2>7, <3>1 DEF OkCall
  <2> QED BY <1>7, <2>3, <2>6, <2>7, ReplayFrame
<1> QED BY <1>6, <1>7 DEF CommitOwn

LEMMA CrashReplay ==
    ASSUME Inv, ReplayInv, Crash
    PROVE  ReplayInv'
<1>1. UNCHANGED <<receipts, acked>>
  BY DEF Crash
<1>2. ASSUME NEW t \in Threads PROVE call'[t].pc \in {"idle", "planned"}
  BY DEF Crash, Idle
<1>3. Recorded /\ \A t \in Threads : ~OkCall(t)'
  BY <1>1, <1>2 DEF Recorded, OkCall
<1> QED BY <1>1, <1>3, ReplayFrame

LEMMA InitReplay == Init => ReplayInv
<1> SUFFICES ASSUME Init PROVE ReplayInv
  OBVIOUS
<1>1. \A t \in Threads : ~OkCall(t)
  BY DEF Init, Idle, OkCall
<1> QED BY <1>1 DEF Init, ReplayInv

LEMMA NextReplay == Inv /\ ReplayInv /\ [Next]_vars => ReplayInv'
<1> SUFFICES ASSUME Inv, ReplayInv, [Next]_vars PROVE ReplayInv'
  OBVIOUS
<1>1. CASE Crash
  BY <1>1, CrashReplay
<1>2. ASSUME NEW t \in Threads, Enter(t) PROVE ReplayInv'
  BY <1>2, QuietReplay, AnswerReplay, PutAgainReplay DEF Enter
<1>3. ASSUME NEW t \in Threads, Proceed(t) PROVE ReplayInv'
  BY <1>3, QuietReplay, CommitBatchIs, FailBatchIs, BatchReplay, CommitOwnReplay, SettleReplay
     DEF Proceed
<1>4. CASE UNCHANGED vars
  BY <1>4 DEF vars, ReplayInv, OkCall
<1> QED BY <1>1, <1>2, <1>3, <1>4 DEF Next

\* Every acknowledgement has the receipt of the compare tokens it was given for, and a request
\* has one receipt.
THEOREM ReceiptsInvariant == Spec => []ReplayInv
BY Invariant, InitReplay, NextReplay, PTL DEF Spec

\* What was acknowledged for these compare tokens has them in its receipt.
LEMMA AckedHasReceipt ==
    ASSUME Inv, ReplayInv, NEW r \in Idempotent, NEW expect \in [Targets[r] -> Tokens],
           Acked(r, expect)
    PROVE  expect \in receipts[r]
<1>1. r \in Requests /\ Targets[r] \subseteq Keys
  BY Kinds, TargetsAssumption
<1>2. ASSUME NEW k \in Targets[r]
      PROVE  \E e \in receipts[r] : e \in [Targets[r] -> Tokens] /\ expect[k] = e[k]
  <2>1. PICK token : token = Append(expect[k], r)
    OBVIOUS
  <2>2. expect[k] \in Seq(Requests)
    BY DEF Tokens
  <2>3. token[Len(token)] = r /\ token \in acked[k]
    BY <1>1, <2>1, <2>2, AppendLast DEF Acked
  <2>4. PICK e \in receipts[r] : token = Append(e[k], r)
    BY <1>1, <2>3 DEF ReplayInv
  <2>5. e \in [Targets[r] -> Tokens] /\ e[k] \in Seq(Requests)
    BY DEF Inv, TypeOK, Tokens
  <2>6. expect[k] = e[k]
    <3>1. PICK a, b \in Seq(Requests) : a = expect[k] /\ b = e[k]
      BY <2>2, <2>5
    <3>2. r \in Requests /\ Append(a, r) = Append(b, r)
      BY <1>1, <2>1, <2>4, <3>1
    <3>3. a = b
      BY <3>2, AppendInjective
    <3> QED BY <3>1, <3>3
  <2> QED BY <2>5, <2>6
<1>3. PICK k0 \in Targets[r] : TRUE
  BY DEF Acked
<1>4. PICK e \in receipts[r] : e \in [Targets[r] -> Tokens]
  BY <1>2, <1>3
<1>5. \A k \in Targets[r] : expect[k] = e[k]
  BY <1>2, <1>4 DEF ReplayInv
<1>6. expect = e
  BY <1>4, <1>5
<1> QED BY <1>4, <1>6

\* Only its own caller moves a planned call.
LEMMA OthersKeepPlanned ==
    ASSUME Inv, NEW t \in Threads, NEW u \in Threads, t # u, Enter(u) \/ Proceed(u),
           call[t].pc = "planned"
    PROVE  call'[t].pc = "planned"
<1>0. DOMAIN call = Threads /\ DOMAIN call[t] = Fields
  BY CallFacts DEF Inv, TypeOK
<1>1. CASE Enter(u)
  <2>1. PICK c : call' = [call EXCEPT ![u] = c]
    BY <1>1 DEF Enter, Plan, Answer, Return, Join, SubmitNormal, SubmitDirect, Enqueue,
       PutValues, PutAgain, Flush, Retry, Forget
  <2> QED BY <1>0, <2>1
<1>2. CASE Drain(u) \/ DrainEnds(u) \/ CommitOwn(u) \/ Settle(u) \/ Restore(u)
  <2>1. PICK c : call' = [call EXCEPT ![u] = c]
    BY <1>2 DEF Drain, DrainEnds, CommitOwn, Settle, Restore, Return
  <2> QED BY <1>0, <2>1
<1>3. ASSUME NEW c, NEW result, Batched(u, c, result) PROVE call'[t].pc = "planned"
  <2>1. ~Notify(u, t)
    BY NotifyIs
  <2>2. call'[t] = call[t]
    BY <1>3, <2>1 DEF Batched
  <2> QED BY <2>2
<1>4. CASE CommitBatch(u) \/ FailBatch(u)
  BY <1>3, <1>4, CommitBatchIs, FailBatchIs
<1> QED BY <1>1, <1>2, <1>4 DEF Proceed

\* An acknowledged request without an expected generation is answered with success, whoever
\* sends it again, for any number of callers, keys, calls, failed commits and crashes:
\* commit_workflow_transaction finds the receipt before it compares tokens.
THEOREM Replayable == Spec => AckedReplayed
<1>1. ASSUME Inv, ReplayInv, [Next]_vars, NEW t \in Threads, call[t].pc = "planned",
             call[t].req \in Workflows \ Guarded, Acked(call[t].req, call[t].expect),
             call'[t].pc # "planned"
      PROVE  call'[t].pc = "returned" /\ call'[t].outcome = "ok"
  <2>1. /\ CallOK(t, call[t]) /\ call[t].req \in Idempotent /\ call[t].req \in Requests
        /\ call[t].expect \in [Targets[call[t].req] -> Tokens] /\ DOMAIN call[t] = Fields
        /\ DOMAIN call = Threads
    BY <1>1, CallFacts, Kinds DEF Inv, TypeOK
  <2>2. call[t].expect \in receipts[call[t].req]
    BY <1>1, <2>1, AckedHasReceipt
  <2>3. ~Crash /\ ~UNCHANGED vars
    <3>1. ASSUME Crash PROVE FALSE
      BY <1>1, <3>1 DEF Crash, Idle
    <3>2. ASSUME UNCHANGED vars PROVE FALSE
      BY <1>1, <3>2 DEF vars
    <3> QED BY <3>1, <3>2
  <2>4. Enter(t) \/ Proceed(t)
    BY <1>1, <2>3, OthersKeepPlanned DEF Next
  <2>5. ~Proceed(t)
    BY <1>1 DEF Proceed, Drain, DrainEnds, CommitBatch, FailBatch, CommitOwn, Settle, Restore
  <2>6. Answer(t)
    BY <1>1, <2>2, <2>4, <2>5 DEF Enter, Plan, Join, SubmitNormal, SubmitDirect, Admitted,
       PutValues, PutAgain, Called, Flush, Retry, Forget
  <2>7. ~Stale(t)
    BY <1>1 DEF Stale
  <2>8. Return(t, "ok")
    BY <2>2, <2>6, <2>7 DEF Answer
  <2>9. PICK c : c = Returned(call[t], "ok")
    OBVIOUS
  <2>10. c.pc = "returned" /\ c.outcome = "ok"
    BY <2>1, <2>9 DEF Returned, Fields
  <2>11. call'[t] = c
    BY <2>1, <2>8, <2>9 DEF Return
  <2> QED BY <2>10, <2>11
<1>2. Inv /\ ReplayInv /\ [Next]_vars => [Replays(Workflows \ Guarded)]_vars
  BY <1>1 DEF Replays
<1> QED BY <1>2, Invariant, ReceiptsInvariant, PTL DEF Spec, AckedReplayed
==============================================================================
