-------------------------- MODULE LockCoordinator --------------------------
(***************************************************************************)
(* The embedded lock register of loom-core (lock.rs): leased, reentrant,   *)
(* fenced locks under one linearization authority.                         *)
(*                                                                         *)
(* The register is a value: a record of the three maps the Rust struct     *)
(* holds.  Every method is an operator that takes the register and returns *)
(* the register it leaves behind together with its outcome, because the    *)
(* caller (LocksAuthority) compares the two and may roll back to the old   *)
(* one.  A Vec of holders becomes a set: the code looks holders up by      *)
(* owner and never by position.                                            *)
(***************************************************************************)
EXTENDS Integers, FiniteSets, FiniteSetsExt

CONSTANTS
    Keys,           \* lock keys
    Owners,         \* authenticated (principal, session) pairs
    Modes,          \* the LockMode values clients request
    FenceMax,       \* u64::MAX of the fence counter
    TimeMax,        \* u64::MAX of a millisecond deadline
    ReentrancyMax   \* u32::MAX of the reentrancy count

Exclusive == [kind |-> "exclusive", permits |-> 0, capacity |-> 0]
Shared    == [kind |-> "shared",    permits |-> 0, capacity |-> 0]
Semaphore(p, c) == [kind |-> "semaphore", permits |-> p, capacity |-> c]

LockMode == [kind : {"exclusive", "shared", "semaphore"}, permits : Nat, capacity : Nat]

ASSUME ModesAssumption ==
    \A m \in Modes : m \in LockMode /\ (m.kind = "exclusive" => m = Exclusive)
                                    /\ (m.kind = "shared" => m = Shared)
ASSUME BoundsAssumption ==
    FenceMax \in Nat \ {0} /\ TimeMax \in Nat /\ ReentrancyMax \in Nat \ {0}

-----------------------------------------------------------------------------
(* State *)

Holder == [owner : Owners, mode : Modes, fence : 1..FenceMax,
           deadline : 0..TimeMax, reentrancy : 1..ReentrancyMax]

\* The deadline a LockToken also carries is never read back by the register.
Token == [key : Keys, owner : Owners, mode : Modes, fence : 1..FenceMax]

Register == [locks : [Keys -> SUBSET Holder],
             next : [Keys -> 0..FenceMax], applied : [Keys -> 0..FenceMax]]

EmptyRegister == [locks |-> [k \in Keys |-> {}],
                  next |-> [k \in Keys |-> 0], applied |-> [k \in Keys |-> 0]]

RestoreOnlyApplied(next, applied) ==
    [locks |-> [k \in Keys |-> {}], next |-> [k \in Keys |-> 0], applied |-> applied]

\* restore_fences: counters survive, holders do not.
RestoreFences(next, applied) ==
    [locks |-> [k \in Keys |-> {}], next |-> next, applied |-> applied]

-----------------------------------------------------------------------------
(* Helpers *)

ValidMode(m) ==
    m.kind = "semaphore" => m.permits > 0 /\ m.capacity > 0 /\ m.permits <= m.capacity

UsedPermits(holders) == MapThenSumSet(LAMBDA h : h.mode.permits, holders)

\* Faulty variants of an operator, used by the mutation runs, stand before it.
CompatibleIgnoringExclusive(holders, m) ==
    \/ m.kind = "exclusive" /\ holders = {}
    \/ m.kind = "shared"
    \/ m.kind = "semaphore" /\ UsedPermits(holders) + m.permits <= m.capacity

CompatibleWithoutRequest(holders, m) ==
    \/ m.kind = "exclusive" /\ holders = {}
    \/ m.kind = "shared" /\ \A h \in holders : h.mode = Shared
    \/ /\ m.kind = "semaphore"
       /\ \A h \in holders : h.mode.kind = "semaphore" /\ h.mode.capacity = m.capacity
       /\ UsedPermits(holders) <= m.capacity

Compatible(holders, m) ==
    \/ m.kind = "exclusive" /\ holders = {}
    \/ m.kind = "shared" /\ \A h \in holders : h.mode = Shared
    \/ /\ m.kind = "semaphore"
       /\ \A h \in holders : h.mode.kind = "semaphore" /\ h.mode.capacity = m.capacity
       /\ UsedPermits(holders) + m.permits <= m.capacity

Unexpired(holders, now) == {h \in holders : h.deadline > now}

ExpireKey(r, k, now) == [r EXCEPT !.locks[k] = Unexpired(@, now)]

IssueFenceUnbounded(r, k) == r.next[k] + 1

\* saturating_add(1)
IssueFence(r, k) == IF r.next[k] < FenceMax THEN r.next[k] + 1 ELSE FenceMax

Matches(h, tok) == h.owner = tok.owner /\ h.mode = tok.mode /\ h.fence = tok.fence

HoldersFor(r, tok) == {h \in r.locks[tok.key] : Matches(h, tok)}

RemoveHolder(r, tok) == [r EXCEPT !.locks[tok.key] = {h \in @ : ~Matches(h, tok)}]

ReplaceHolder(r, k, old, new) == [r EXCEPT !.locks[k] = (@ \ {old}) \cup {new}]

-----------------------------------------------------------------------------
(* Methods.  Each returns the register it leaves and its outcome; a grant  *)
(* also returns the fence of the token.                                    *)

Outcome(r, out) == [reg |-> r, out |-> out, fence |-> 0]
Granted(r, f)   == [reg |-> r, out |-> "ok", fence |-> f]

\* The owner already holds the key: one more hold on the same fence.
Reenter(r, k, held, m, deadline) ==
    IF held.mode # m
    THEN Outcome(r, "locked")
    ELSE IF held.reentrancy = ReentrancyMax
         THEN Outcome(r, "invalid")
         ELSE LET again == [owner |-> held.owner, mode |-> held.mode, fence |-> held.fence,
                            deadline |-> deadline, reentrancy |-> held.reentrancy + 1]
              IN  Granted(ReplaceHolder(r, k, held, again), held.fence)

Grant(r, k, o, m, deadline) ==
    LET fence == IssueFence(r, k)
        fresh == [owner |-> o, mode |-> m, fence |-> fence, deadline |-> deadline,
                  reentrancy |-> 1]
    IN  Granted([locks |-> [r.locks EXCEPT ![k] = @ \cup {fresh}],
                 next |-> [r.next EXCEPT ![k] = fence], applied |-> r.applied], fence)

\* The caller has already rejected an invalid mode and a zero lease.
TryAcquire(r, k, o, m, lease, now) ==
    LET e    == ExpireKey(r, k, now)
        mine == {h \in e.locks[k] : h.owner = o}
    IN  IF now + lease > TimeMax THEN Outcome(e, "invalid")
        ELSE IF mine # {} THEN Reenter(e, k, CHOOSE h \in mine : TRUE, m, now + lease)
        ELSE IF Compatible(e.locks[k], m) THEN Grant(e, k, o, m, now + lease)
        ELSE Outcome(e, "locked")

\* The outcome of a call that needs a live holder: `live' when it has one.
WithLiveHolder(r, tok, now, live) ==
    IF HoldersFor(r, tok) = {}
    THEN Outcome(r, "not_held")
    ELSE IF \E h \in HoldersFor(r, tok) : h.deadline <= now
         THEN Outcome(RemoveHolder(r, tok), "expired")
         ELSE live

Refresh(r, tok, lease, now) ==
    LET h == CHOOSE x \in HoldersFor(r, tok) : TRUE
    IN  IF now + lease > TimeMax
        THEN Outcome(r, "invalid")
        ELSE WithLiveHolder(r, tok, now,
               Outcome(ReplaceHolder(r, tok.key, h, [h EXCEPT !.deadline = now + lease]), "ok"))

Release(r, tok, now) ==
    LET h == CHOOSE x \in HoldersFor(r, tok) : TRUE
    IN  WithLiveHolder(r, tok, now,
          IF h.reentrancy > 1
          THEN Outcome(ReplaceHolder(r, tok.key, h, [h EXCEPT !.reentrancy = @ - 1]), "ok")
          ELSE Outcome(RemoveHolder(r, tok), "ok"))

BreakKey(r, k) == Outcome([r EXCEPT !.locks[k] = {}], "ok")

ReleaseOwner(r, o, now) ==
    Outcome([r EXCEPT !.locks =
               [k \in Keys |-> {h \in Unexpired(r.locks[k], now) : h.owner # o}]], "ok")

ApplyFence(r, k, fence) ==
    IF fence < r.applied[k]
    THEN Outcome(r, "stale")
    ELSE Outcome([r EXCEPT !.applied[k] = fence], "ok")

ApplyFencedWrite(r, tok, now) ==
    WithLiveHolder(r, tok, now, ApplyFence(r, tok.key, tok.fence))

\* earliest_live_lease_deadline is the least of these, if there is one.
LiveDeadlines(holders, now) == {h.deadline : h \in Unexpired(holders, now)}
=============================================================================
