--------------------------- MODULE LocksAuthority ---------------------------
(***************************************************************************)
(* The in-process lock authority (loom-client locks.rs) around the lock    *)
(* register, with the daemon's durable fence publisher (loom-store         *)
(* save_lock_coordinator / lock_coordinator) behind it.                    *)
(*                                                                         *)
(* One mutex guards the register, so the section of a call between taking  *)
(* and dropping it is one action.  acquire drops it to sleep on the        *)
(* condition variable `changed'; a sleeping acquire is a state of its      *)
(* thread.  Every call that changed the register publishes the fence       *)
(* counters durably before it answers, and restores the old register when  *)
(* publication fails.  A crash loses the register and the threads; the     *)
(* clients keep their tokens.                                              *)
(***************************************************************************)
EXTENDS LockCoordinator

CONSTANTS
    Threads,        \* server threads that may be inside acquire
    Leases,         \* lease_ms values clients ask for
    Waits,          \* wait_ms values clients ask for
    Horizon,        \* bound: the clock stops here
    MaxSkew         \* bound: clock ticks between the two clock reads of one acquire loop

ASSUME AuthorityAssumption ==
    /\ Leases \subseteq Nat /\ Waits \subseteq Nat
    /\ Horizon \in Nat /\ MaxSkew \in Nat

VARIABLES
    register,       \* coordinator: Mutex<LockCoordinator>
    durable,        \* fence counters in the control root of the store
    call,           \* thread -> the acquire it is executing, or Idle
    now,            \* the clock
    tokens,         \* every token a client was handed
    acked           \* key -> fence of the last fenced write a client was acknowledged

vars == <<register, durable, call, now, tokens, acked>>

Idle == [pc |-> "idle"]
Acquiring == [pc : {"trying", "sleeping"}, owner : Owners, key : Keys, mode : Modes,
              lease : Leases, waits : BOOLEAN, giveup : Nat, wakeAt : Nat, notified : BOOLEAN]

Counters(r) == [next |-> r.next, applied |-> r.applied]

\* The register, the published counters, the calls and the tokens keep their types; in
\* particular a fence counter never leaves its width (issue_fence).
TypeOK ==
    /\ register \in Register
    /\ durable \in [next : [Keys -> 0..FenceMax], applied : [Keys -> 0..FenceMax]]
    /\ call \in [Threads -> Acquiring \cup {Idle}]
    /\ now \in Nat
    /\ tokens \subseteq Token
    /\ acked \in [Keys -> 0..FenceMax]

Init ==
    /\ register = EmptyRegister
    /\ durable = Counters(EmptyRegister)
    /\ call = [t \in Threads |-> Idle]
    /\ now = 0
    /\ tokens = {}
    /\ acked = [k \in Keys |-> 0]

-----------------------------------------------------------------------------
(* publish_outcome and the notify_all every caller issues after it: a      *)
(* changed register is persisted and every sleeper notified, an unchanged  *)
(* one is neither.                                                         *)

PublishWithoutPersist(r) == register' = r /\ UNCHANGED durable

Publish(r) ==
    /\ register' = r
    /\ durable' = IF r # register THEN Counters(r) ELSE durable

NotifyNobody(r) == call

NotifyAll(r) ==
    [t \in Threads |->
        IF r # register /\ call[t].pc = "sleeping" THEN [call[t] EXCEPT !.notified = TRUE]
                                                   ELSE call[t]]

\* persist returned an error: the old register is back.  The error does not
\* tell whether the commit reached the disk.
PublishFails(r) ==
    /\ r # register
    /\ durable' \in {durable, Counters(r)}
    /\ UNCHANGED register

\* A call of a client that holds the mutex from start to end.
Served(result) ==
    /\ Publish(result.reg)
    /\ call' = NotifyAll(result.reg)
    /\ UNCHANGED <<now, tokens>>

Failed(result) == PublishFails(result.reg) /\ UNCHANGED <<call, now, tokens, acked>>

Answered(result) == (Served(result) /\ UNCHANGED acked) \/ Failed(result)

-----------------------------------------------------------------------------
(* acquire *)

\* A client calls acquire.  An invalid mode or a zero lease is refused with
\* no effect.
StartAcquire(t, o, k, m, lease, wait) ==
    /\ call[t] = Idle
    /\ ValidMode(m) /\ lease > 0
    /\ now + wait < Horizon
    /\ call' = [call EXCEPT ![t] =
                  [pc |-> "trying", owner |-> o, key |-> k, mode |-> m, lease |-> lease,
                   waits |-> wait > 0, giveup |-> now + wait, wakeAt |-> 0, notified |-> FALSE]]
    /\ UNCHANGED <<register, durable, now, tokens, acked>>

Attempt(t) ==
    LET c == call[t] IN TryAcquire(register, c.key, c.owner, c.mode, c.lease, now)

\* The loop body ends with an answer.
AcquireReturns(t) ==
    LET result == Attempt(t)
        token  == [key |-> call[t].key, owner |-> call[t].owner, mode |-> call[t].mode,
                   fence |-> result.fence]
    IN  /\ call[t].pc = "trying"
        /\ result.out = "locked" => ~call[t].waits \/ now > call[t].giveup
        /\ Publish(result.reg)
        /\ call' = [NotifyAll(result.reg) EXCEPT ![t] = Idle]
        /\ tokens' = IF result.out = "ok" THEN tokens \cup {token} ELSE tokens
        /\ UNCHANGED <<now, acked>>

Asleep(c, wake) == [[c EXCEPT !.pc = "sleeping"] EXCEPT !.wakeAt = wake]

\* The loop body ends asleep.  The clock is read again, up to MaxSkew ticks
\* later, to find the earliest lease that could free the lock.
AcquireSleeps(t) ==
    LET result    == Attempt(t)
        remaining == call[t].giveup - now
    IN  /\ call[t].pc = "trying"
        /\ result.out = "locked" /\ call[t].waits /\ now <= call[t].giveup
        /\ now' \in now..(now + MaxSkew) /\ now' <= Horizon
        /\ LET wakes == {now' + remaining} \cup LiveDeadlines(result.reg.locks[call[t].key], now')
           IN  \E wake \in wakes :
                  /\ \A x \in wakes : wake <= x
                  /\ call' = [NotifyAll(result.reg) EXCEPT ![t] = Asleep(@, wake)]
        /\ Publish(result.reg)
        /\ UNCHANGED <<tokens, acked>>

AcquireFails(t) ==
    /\ call[t].pc = "trying"
    /\ PublishFails(Attempt(t).reg)
    /\ call' = [call EXCEPT ![t] = Idle]
    /\ UNCHANGED <<now, tokens, acked>>

\* wait_timeout returns: notified, timed out, or spuriously.
Retrying(c) == [[[c EXCEPT !.pc = "trying"] EXCEPT !.wakeAt = 0] EXCEPT !.notified = FALSE]

WakeOnlyWhenNotified(t) ==
    /\ call[t].pc = "sleeping" /\ call[t].notified
    /\ call' = [call EXCEPT ![t] = Retrying(@)]
    /\ UNCHANGED <<register, durable, now, tokens, acked>>

Wake(t) ==
    /\ call[t].pc = "sleeping"
    /\ call[t].notified \/ now >= call[t].wakeAt
    /\ call' = [call EXCEPT ![t] = Retrying(@)]
    /\ UNCHANGED <<register, durable, now, tokens, acked>>

SpuriousWake(t) ==
    /\ call[t].pc = "sleeping"
    /\ call' = [call EXCEPT ![t] = Retrying(@)]
    /\ UNCHANGED <<register, durable, now, tokens, acked>>

-----------------------------------------------------------------------------
(* The other calls.  require_token_owner refuses a token of another        *)
(* session, so a client only ever presents its own.                        *)

RefreshCall(tok, lease) ==
    LET result == Refresh(register, tok, lease, now)
    IN  lease > 0 /\ Answered(result)

ReleaseCall(tok) ==
    LET result == Release(register, tok, now)
    IN  Answered(result)

BreakKeyCall(k) ==
    LET result == BreakKey(register, k)
    IN  Answered(result)

CloseOwnerCall(o) ==
    LET result == ReleaseOwner(register, o, now)
    IN  Answered(result)

ApplyFencedWriteCall(tok) ==
    LET result == ApplyFencedWrite(register, tok, now)
    IN  \/ /\ Served(result)
           /\ acked' = IF result.out = "ok" THEN [acked EXCEPT ![tok.key] = tok.fence] ELSE acked
        \/ Failed(result)

-----------------------------------------------------------------------------
(* Environment *)

Tick ==
    /\ now < Horizon
    /\ now' = now + 1
    /\ UNCHANGED <<register, durable, call, tokens, acked>>

\* The daemon dies and is restarted on the same store.
Restart ==
    /\ register' = RestoreFences(durable.next, durable.applied)
    /\ call' = [t \in Threads |-> Idle]
    /\ UNCHANGED <<durable, now, tokens, acked>>

Next ==
    \/ \E t \in Threads, o \in Owners, k \in Keys, m \in Modes, lease \in Leases, wait \in Waits :
          StartAcquire(t, o, k, m, lease, wait)
    \/ \E t \in Threads : AcquireReturns(t)
    \/ \E t \in Threads : AcquireSleeps(t)
    \/ \E t \in Threads : AcquireFails(t)
    \/ \E t \in Threads : Wake(t)
    \/ \E t \in Threads : SpuriousWake(t)
    \/ \E tok \in tokens, lease \in Leases : RefreshCall(tok, lease)
    \/ \E tok \in tokens : ReleaseCall(tok)
    \/ \E k \in Keys : BreakKeyCall(k)
    \/ \E o \in Owners : CloseOwnerCall(o)
    \/ \E tok \in tokens : ApplyFencedWriteCall(tok)
    \/ Tick
    \/ Restart

Spec == Init /\ [][Next]_vars

\* Time passes, a runnable thread gets the mutex, and a wait that is due
\* returns: the operating system owes the code nothing more.
Fairness ==
    /\ WF_vars(Tick)
    /\ \A t \in Threads :
          WF_vars(Wake(t)) /\ WF_vars(AcquireReturns(t) \/ AcquireSleeps(t))

FairSpec == Spec /\ Fairness
-----------------------------------------------------------------------------
(* Properties *)

\* Holders recorded for one key never conflict: an exclusive holder is alone
\* and shared holders share only with shared ones (LockCoordinator::compatible).
HoldersCompatible ==
    \A k \in Keys : \A g, h \in register.locks[k] :
        g # h => /\ g.owner # h.owner
                 /\ g.mode.kind # "exclusive"
                 /\ g.mode.kind = h.mode.kind

\* Semaphore holders of a key agree on the capacity and never hold more than it.
SemaphoreWithinCapacity ==
    \A k \in Keys : \A h \in register.locks[k] :
        h.mode.kind = "semaphore" =>
            /\ \A g \in register.locks[k] : g.mode.capacity = h.mode.capacity
            /\ UsedPermits(register.locks[k]) <= h.mode.capacity

\* A fence below saturation names one acquisition of a key for ever, across
\* failed publications and restarts (issue_fence, publish_outcome, restore_fences).
FenceNamesOneHolder ==
    \A s, t \in tokens : s.key = t.key /\ s.fence = t.fence /\ s.fence < FenceMax => s = t

\* An exclusive holder still in the register has the newest fence of its key,
\* so its fenced write is never refused as stale (apply_fence).
ExclusiveHolderIsNewest ==
    \A k \in Keys : \A h \in register.locks[k] :
        h.mode.kind = "exclusive" => h.fence = register.next[k] /\ register.applied[k] <= h.fence

\* Once a fenced write is acknowledged no write with a lower fence is, not even
\* after a restart (apply_fence and the durable high-water).
AckedWritesNeverRegress == [][\A k \in Keys : acked'[k] >= acked[k]]_vars

\* A sleeper nobody has notified is still blocked by the recorded holders: no
\* call that unblocks it forgets notify_all (publish_outcome, changed).
StillBlocked(c) ==
    LET mine == {h \in register.locks[c.key] : h.owner = c.owner}
    IN  \/ mine # {} /\ \A h \in mine : h.mode # c.mode
        \/ mine = {} /\ ~Compatible(register.locks[c.key], c.mode)

NoMissedNotification ==
    \A t \in Threads :
        call[t].pc = "sleeping" /\ ~call[t].notified => StillBlocked(call[t])

\* acquire answers: a bounded wait really is bounded, whatever the other
\* sessions do (the wait_ms budget of the acquire loop).
AcquireReturnsEventually == \A t \in Threads : call[t] # Idle ~> call[t] = Idle

\* A waiter retries when the lease that blocks it expires: while it sleeps
\* un-notified with its timer running, an attempt now would still be refused.
SleeperIsBlocked ==
    \A t \in Threads :
        call[t].pc = "sleeping" /\ ~call[t].notified /\ now < call[t].wakeAt =>
            Attempt(t).out = "locked"
=============================================================================
