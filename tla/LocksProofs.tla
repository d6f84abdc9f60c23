---------------------------- MODULE LocksProofs ----------------------------
(***************************************************************************)
(* Proofs about the lock register and the lock authority, for every number *)
(* of keys, sessions, threads, modes and for every fence width.            *)
(***************************************************************************)
EXTENDS LocksAuthority, DataLemmas, FiniteSetTheorems, TLAPS

\* Holders of one key do not conflict (the register-level HoldersCompatible).
NoConflict(r) ==
    \A k \in Keys : \A g, h \in r.locks[k] :
        /\ g.owner = h.owner => g = h
        /\ g # h => g.mode.kind # "exclusive" /\ g.mode.kind = h.mode.kind

\* The fence counter of a key is at or above every fence in use on it, and an
\* exclusive holder has the counter's own value.
FencesOrdered(r) ==
    \A k \in Keys :
        /\ r.applied[k] <= r.next[k]
        /\ \A h \in r.locks[k] : h.fence <= r.next[k]
        /\ \A h \in r.locks[k] : h.mode.kind = "exclusive" => h.fence = r.next[k]

RegisterInv(r) == r \in Register /\ NoConflict(r) /\ FencesOrdered(r)

\* s keeps the counters of r and has no holder that r did not have.
Weakens(r, s) ==
    /\ s.next = r.next /\ s.applied = r.applied
    /\ \A k \in Keys : \A h \in s.locks[k] : \E g \in r.locks[k] :
          g.owner = h.owner /\ g.mode = h.mode /\ g.fence = h.fence

-----------------------------------------------------------------------------
(* A register that only loses holders keeps its invariant. *)

LEMMA SetLocksFields ==
    ASSUME NEW r \in Register, NEW k \in Keys, NEW S \in SUBSET Holder
    PROVE  LET s == [r EXCEPT !.locks[k] = S]
           IN  /\ s \in Register /\ s.next = r.next /\ s.applied = r.applied
               /\ s.locks[k] = S /\ \A j \in Keys : j # k => s.locks[j] = r.locks[j]
BY DEF Register

LEMMA ShrinkingPreserves ==
    ASSUME NEW r, RegisterInv(r), NEW s \in Register,
           s.next = r.next, s.applied = r.applied,
           \A k \in Keys : s.locks[k] \subseteq r.locks[k]
    PROVE  RegisterInv(s) /\ Weakens(r, s)
BY DEF RegisterInv, Weakens, NoConflict, FencesOrdered, Register

LEMMA ExpireKeyPreserves ==
    ASSUME NEW r, RegisterInv(r), NEW k \in Keys, NEW t \in Nat
    PROVE  RegisterInv(ExpireKey(r, k, t)) /\ Weakens(r, ExpireKey(r, k, t))
<1> DEFINE S == Unexpired(r.locks[k], t)
<1> r \in Register BY DEF RegisterInv
<1>1. S \in SUBSET Holder /\ S \subseteq r.locks[k]
  BY DEF Register, Unexpired
<1>2. ExpireKey(r, k, t) = [r EXCEPT !.locks[k] = S]
  BY DEF ExpireKey
<1> HIDE DEF S
<1>3. LET s == ExpireKey(r, k, t)
      IN  /\ s \in Register /\ s.next = r.next /\ s.applied = r.applied
          /\ \A j \in Keys : s.locks[j] \subseteq r.locks[j]
  BY <1>1, <1>2, SetLocksFields
<1> QED BY <1>3, ShrinkingPreserves

LEMMA RemoveHolderPreserves ==
    ASSUME NEW r, RegisterInv(r), NEW tok \in Token
    PROVE  RegisterInv(RemoveHolder(r, tok)) /\ Weakens(r, RemoveHolder(r, tok))
<1> DEFINE S == {h \in r.locks[tok.key] : ~Matches(h, tok)}
<1> r \in Register /\ tok.key \in Keys BY DEF RegisterInv, Token
<1>1. S \in SUBSET Holder /\ S \subseteq r.locks[tok.key]
  BY DEF Register
<1>2. RemoveHolder(r, tok) = [r EXCEPT !.locks[tok.key] = S]
  BY DEF RemoveHolder
<1> HIDE DEF S
<1>3. LET s == RemoveHolder(r, tok)
      IN  /\ s \in Register /\ s.next = r.next /\ s.applied = r.applied
          /\ \A j \in Keys : s.locks[j] \subseteq r.locks[j]
  BY <1>1, <1>2, SetLocksFields
<1> QED BY <1>3, ShrinkingPreserves

\* A holder may be replaced by one with the same identity (lease or reentrancy).
LEMMA ReplaceHolderPreserves ==
    ASSUME NEW r, RegisterInv(r), NEW k \in Keys, NEW old \in r.locks[k], NEW new \in Holder,
           new.owner = old.owner, new.mode = old.mode, new.fence = old.fence
    PROVE  RegisterInv(ReplaceHolder(r, k, old, new)) /\ Weakens(r, ReplaceHolder(r, k, old, new))
<1> DEFINE S == (r.locks[k] \ {old}) \cup {new}
           s == ReplaceHolder(r, k, old, new)
<1> r \in Register BY DEF RegisterInv
<1>1. S \in SUBSET Holder BY DEF Register
<1>2. s = [r EXCEPT !.locks[k] = S] BY DEF ReplaceHolder
<1> HIDE DEF S, s
<1>3. /\ s \in Register /\ s.next = r.next /\ s.applied = r.applied
      /\ s.locks[k] = S /\ \A j \in Keys : j # k => s.locks[j] = r.locks[j]
  BY <1>1, <1>2, SetLocksFields
<1> USE DEF S
<1>4. NoConflict(s)
  <2> SUFFICES ASSUME NEW j \in Keys, NEW a \in s.locks[j], NEW b \in s.locks[j]
               PROVE  /\ a.owner = b.owner => a = b
                      /\ a # b => a.mode.kind # "exclusive" /\ a.mode.kind = b.mode.kind
    BY DEF NoConflict
  <2>1. CASE j # k
    BY <1>3, <2>1 DEF RegisterInv, NoConflict
  <2>2. CASE j = k
    <3>1. NoConflict(r) BY DEF RegisterInv
    <3>2. \A g \in r.locks[k] : g # old =>
             g.owner # new.owner /\ g.mode.kind # "exclusive" /\ new.mode.kind # "exclusive"
             /\ g.mode.kind = new.mode.kind
      BY <3>1 DEF NoConflict
    <3> QED BY <1>3, <2>2, <3>1, <3>2 DEF NoConflict
  <2> QED BY <2>1, <2>2
<1>5. FencesOrdered(s)
  BY <1>3 DEF RegisterInv, FencesOrdered
<1>6. Weakens(r, s)
  BY <1>3 DEF Weakens
<1> QED BY <1>3, <1>4, <1>5, <1>6 DEF RegisterInv, s

-----------------------------------------------------------------------------
(* What each method may do to the register. *)

LEMMA LiveHolderCases ==
    ASSUME NEW r, NEW tok, NEW t, NEW live
    PROVE  LET w == WithLiveHolder(r, tok, t, live)
               hs == HoldersFor(r, tok)
           IN  \/ w = Outcome(r, "not_held")
               \/ w = Outcome(RemoveHolder(r, tok), "expired")
               \/ hs # {} /\ w = live
BY DEF WithLiveHolder

LEMMA RefreshPreserves ==
    ASSUME NEW r, RegisterInv(r), NEW tok \in Token, NEW lease \in Nat, NEW t \in Nat
    PROVE  LET s == Refresh(r, tok, lease, t).reg IN RegisterInv(s) /\ Weakens(r, s)
<1> DEFINE h == CHOOSE x \in HoldersFor(r, tok) : TRUE
           g == [h EXCEPT !.deadline = t + lease]
           new == ReplaceHolder(r, tok.key, h, g)
<1>1. RegisterInv(r) /\ Weakens(r, r) BY DEF Weakens
<1>2. HoldersFor(r, tok) # {} =>
         /\ h \in r.locks[tok.key] /\ h \in Holder /\ tok.key \in Keys
  BY DEF HoldersFor, RegisterInv, Register, Token
<1>3. ASSUME HoldersFor(r, tok) # {}, t + lease <= TimeMax
      PROVE  RegisterInv(new) /\ Weakens(r, new)
  <2> HIDE DEF h
  <2>1. g \in Holder /\ g.owner = h.owner /\ g.mode = h.mode /\ g.fence = h.fence
    BY <1>2, <1>3, BoundsAssumption DEF Holder
  <2> HIDE DEF g
  <2> QED BY <1>2, <1>3, <2>1, ReplaceHolderPreserves
<1>4. Refresh(r, tok, lease, t) =
        IF t + lease > TimeMax THEN Outcome(r, "invalid")
        ELSE WithLiveHolder(r, tok, t, Outcome(new, "ok"))
  BY DEF Refresh
<1> HIDE DEF new
<1>5. CASE t + lease > TimeMax
  BY <1>1, <1>4, <1>5 DEF Outcome
<1>6. CASE ~(t + lease > TimeMax)
  <2>1. t + lease <= TimeMax BY <1>6, BoundsAssumption
  <2> QED BY <1>1, <1>3, <1>4, <1>6, <2>1, RemoveHolderPreserves, LiveHolderCases DEF Outcome
<1> QED BY <1>5, <1>6

LEMMA ReleasePreserves ==
    ASSUME NEW r, RegisterInv(r), NEW tok \in Token, NEW t \in Nat
    PROVE  LET s == Release(r, tok, t).reg IN RegisterInv(s) /\ Weakens(r, s)
<1> DEFINE h == CHOOSE x \in HoldersFor(r, tok) : TRUE
           g == [h EXCEPT !.reentrancy = @ - 1]
           new == ReplaceHolder(r, tok.key, h, g)
<1>1. RegisterInv(r) /\ Weakens(r, r) BY DEF Weakens
<1>2. HoldersFor(r, tok) # {} =>
         /\ h \in r.locks[tok.key] /\ h \in Holder /\ tok.key \in Keys
  BY DEF HoldersFor, RegisterInv, Register, Token
<1>3. ASSUME HoldersFor(r, tok) # {}, h.reentrancy > 1
      PROVE  RegisterInv(new) /\ Weakens(r, new)
  <2> HIDE DEF h
  <2>1. g \in Holder /\ g.owner = h.owner /\ g.mode = h.mode /\ g.fence = h.fence
    BY <1>2, <1>3, BoundsAssumption DEF Holder
  <2> HIDE DEF g
  <2> QED BY <1>2, <1>3, <2>1, ReplaceHolderPreserves
<1> DEFINE live == IF h.reentrancy > 1 THEN Outcome(new, "ok")
                                       ELSE Outcome(RemoveHolder(r, tok), "ok")
<1>4. Release(r, tok, t) = WithLiveHolder(r, tok, t, live)
  BY DEF Release
<1> HIDE DEF new, h
<1>5. HoldersFor(r, tok) # {} => RegisterInv(live.reg) /\ Weakens(r, live.reg)
  BY <1>3, RemoveHolderPreserves DEF Outcome
<1> HIDE DEF live
<1> QED BY <1>1, <1>4, <1>5, RemoveHolderPreserves, LiveHolderCases DEF Outcome

LEMMA BreakKeyPreserves ==
    ASSUME NEW r, RegisterInv(r), NEW k \in Keys
    PROVE  LET s == BreakKey(r, k).reg IN RegisterInv(s) /\ Weakens(r, s)
<1> DEFINE s == [r EXCEPT !.locks[k] = {}]
<1> r \in Register BY DEF RegisterInv
<1>1. /\ s \in Register /\ s.next = r.next /\ s.applied = r.applied
      /\ \A j \in Keys : s.locks[j] \subseteq r.locks[j]
  BY SetLocksFields
<1>2. BreakKey(r, k).reg = s BY DEF BreakKey, Outcome
<1> HIDE DEF s
<1> QED BY <1>1, <1>2, ShrinkingPreserves

LEMMA ReleaseOwnerPreserves ==
    ASSUME NEW r, RegisterInv(r), NEW o \in Owners, NEW t \in Nat
    PROVE  LET s == ReleaseOwner(r, o, t).reg IN RegisterInv(s) /\ Weakens(r, s)
<1> DEFINE L == [k \in Keys |-> {h \in Unexpired(r.locks[k], t) : h.owner # o}]
           s == [r EXCEPT !.locks = L]
<1> r \in Register BY DEF RegisterInv
<1>1. /\ L \in [Keys -> SUBSET Holder] /\ \A k \in Keys : L[k] \subseteq r.locks[k]
  BY DEF Unexpired, Register
<1>2. ReleaseOwner(r, o, t).reg = s BY DEF ReleaseOwner, Outcome
<1> HIDE DEF L
<1>3. s \in Register /\ s.next = r.next /\ s.applied = r.applied /\ s.locks = L
  BY <1>1 DEF Register
<1> HIDE DEF s
<1> QED BY <1>1, <1>2, <1>3, ShrinkingPreserves

\* A fenced write moves the applied fence of its key up to the token's own, or
\* leaves the counters alone.
LEMMA ApplyFencedWritePreserves ==
    ASSUME NEW r, RegisterInv(r), NEW tok \in Token, NEW t \in Nat
    PROVE  LET w == ApplyFencedWrite(r, tok, t)
           IN  /\ RegisterInv(w.reg)
               /\ \/ w.out # "ok" /\ Weakens(r, w.reg)
                  \/ /\ w.out = "ok" /\ r.applied[tok.key] <= tok.fence
                     /\ w.reg.next = r.next /\ w.reg.locks = r.locks
                     /\ w.reg.applied = [r.applied EXCEPT ![tok.key] = tok.fence]
<1> DEFINE live == ApplyFence(r, tok.key, tok.fence)
           s == [r EXCEPT !.applied[tok.key] = tok.fence]
<1>1. RegisterInv(r) /\ Weakens(r, r) BY DEF Weakens
<1>2. r \in Register /\ tok.key \in Keys /\ tok.fence \in 1..FenceMax
  BY DEF RegisterInv, Token
<1>3. /\ s \in Register /\ s.locks = r.locks /\ s.next = r.next
      /\ s.applied = [r.applied EXCEPT ![tok.key] = tok.fence]
  BY <1>2, BoundsAssumption DEF Register
<1>4. live = IF tok.fence < r.applied[tok.key] THEN Outcome(r, "stale") ELSE Outcome(s, "ok")
  BY DEF ApplyFence
<1>5. /\ r.applied[tok.key] \in Nat /\ tok.fence \in Nat
  BY <1>2, BoundsAssumption DEF Register
<1> HIDE DEF s, live
<1>6. ASSUME HoldersFor(r, tok) # {} PROVE RegisterInv(s)
  <2>1. tok.fence <= r.next[tok.key]
    BY <1>2, <1>6 DEF HoldersFor, Matches, RegisterInv, FencesOrdered
  <2>2. FencesOrdered(s)
    BY <1>2, <1>3, <2>1 DEF RegisterInv, FencesOrdered, Register
  <2>3. NoConflict(s)
    BY <1>3 DEF RegisterInv, NoConflict
  <2> QED BY <1>3, <2>2, <2>3 DEF RegisterInv
<1>7. ApplyFencedWrite(r, tok, t) = WithLiveHolder(r, tok, t, live)
  BY DEF ApplyFencedWrite, live
<1>8. CASE ApplyFencedWrite(r, tok, t) = Outcome(r, "not_held")
  BY <1>1, <1>8 DEF Outcome
<1>9. CASE ApplyFencedWrite(r, tok, t) = Outcome(RemoveHolder(r, tok), "expired")
  BY <1>9, RemoveHolderPreserves DEF Outcome
<1>10. CASE HoldersFor(r, tok) # {} /\ ApplyFencedWrite(r, tok, t) = live
  BY <1>1, <1>3, <1>4, <1>5, <1>6, <1>10 DEF Outcome
<1> QED BY <1>7, <1>8, <1>9, <1>10, LiveHolderCases

LEMMA ReenterPreserves ==
    ASSUME NEW r, RegisterInv(r), NEW k \in Keys, NEW held \in r.locks[k], NEW m \in Modes,
           NEW d \in 0..TimeMax
    PROVE  LET w == Reenter(r, k, held, m, d)
           IN  /\ RegisterInv(w.reg) /\ Weakens(r, w.reg)
               /\ w.out = "ok" => held.mode = m /\ held.fence = w.fence
<1> DEFINE g == [owner |-> held.owner, mode |-> held.mode, fence |-> held.fence,
                 deadline |-> d, reentrancy |-> held.reentrancy + 1]
           s == ReplaceHolder(r, k, held, g)
<1>1. RegisterInv(r) /\ Weakens(r, r) BY DEF Weakens
<1>2. held \in Holder BY DEF RegisterInv, Register
<1>3. ASSUME held.reentrancy # ReentrancyMax PROVE RegisterInv(s) /\ Weakens(r, s)
  <2>1. held.reentrancy + 1 \in 1..ReentrancyMax
    BY <1>2, <1>3, BoundsAssumption DEF Holder
  <2>2. /\ g \in Holder
        /\ g.owner = held.owner /\ g.mode = held.mode /\ g.fence = held.fence
    BY <1>2, <2>1 DEF Holder
  <2> HIDE DEF g
  <2> QED BY <2>2, ReplaceHolderPreserves
<1>4. Reenter(r, k, held, m, d) =
        IF held.mode # m THEN Outcome(r, "locked")
        ELSE IF held.reentrancy = ReentrancyMax THEN Outcome(r, "invalid")
        ELSE Granted(s, held.fence)
  BY DEF Reenter
<1> HIDE DEF s
<1> QED BY <1>1, <1>3, <1>4 DEF Outcome, Granted

\* A fresh grant takes the next fence and adds one holder that fits the others.
LEMMA GrantPreserves ==
    ASSUME NEW r, RegisterInv(r), NEW k \in Keys, NEW o \in Owners, NEW m \in Modes,
           NEW d \in 0..TimeMax,
           Compatible(r.locks[k], m), \A h \in r.locks[k] : h.owner # o
    PROVE  LET w == Grant(r, k, o, m, d)
           IN  /\ RegisterInv(w.reg) /\ w.out = "ok" /\ w.fence = IssueFence(r, k)
               /\ w.reg.applied = r.applied
               /\ w.reg.next = [r.next EXCEPT ![k] = w.fence]
               /\ \A j \in Keys : \A h \in w.reg.locks[j] :
                     \/ h \in r.locks[j]
                     \/ j = k /\ h.owner = o /\ h.mode = m /\ h.fence = w.fence
<1> DEFINE f == IssueFence(r, k)
           fresh == [owner |-> o, mode |-> m, fence |-> f, deadline |-> d, reentrancy |-> 1]
           S == r.locks[k] \cup {fresh}
           s == [locks |-> [r.locks EXCEPT ![k] = S], next |-> [r.next EXCEPT ![k] = f],
                 applied |-> r.applied]
<1>1. r \in Register /\ NoConflict(r) /\ FencesOrdered(r) BY DEF RegisterInv
<1>2. r.next[k] \in 0..FenceMax BY <1>1 DEF Register
<1>3. f \in 1..FenceMax /\ r.next[k] <= f
  BY <1>2, BoundsAssumption DEF IssueFence
<1>4. Grant(r, k, o, m, d) = Granted(s, f)
  BY DEF Grant
<1> HIDE DEF f
<1>5. /\ fresh \in Holder /\ fresh.owner = o /\ fresh.mode = m /\ fresh.fence = f
  BY <1>3, BoundsAssumption DEF Holder
<1>6. S \in SUBSET Holder BY <1>1, <1>5 DEF Register
<1> HIDE DEF S
<1>7. /\ s \in Register /\ s.applied = r.applied /\ s.next = [r.next EXCEPT ![k] = f]
      /\ s.locks = [r.locks EXCEPT ![k] = S]
  <2>1. [r.locks EXCEPT ![k] = S] \in [Keys -> SUBSET Holder]
    BY <1>1, <1>6 DEF Register
  <2>2. [r.next EXCEPT ![k] = f] \in [Keys -> 0..FenceMax]
    BY <1>1, <1>3, BoundsAssumption DEF Register
  <2> QED BY <1>1, <2>1, <2>2 DEF Register
<1>8. r.locks \in [Keys -> SUBSET Holder] /\ r.next \in [Keys -> 0..FenceMax]
  BY <1>1 DEF Register
<1> HIDE DEF s, fresh
<1>9. s.locks[k] = S /\ \A j \in Keys : j # k => s.locks[j] = r.locks[j]
  BY <1>7, <1>8
<1>10. s.next[k] = f /\ \A j \in Keys : j # k => s.next[j] = r.next[j]
  BY <1>7, <1>8
<1>11. \A h \in r.locks[k] :
         /\ h.owner # o
         /\ h.mode.kind # "exclusive" /\ m.kind # "exclusive" /\ h.mode.kind = m.kind
  BY DEF Compatible, Shared
<1>12. NoConflict(s)
  <2> SUFFICES ASSUME NEW j \in Keys, NEW a \in s.locks[j], NEW b \in s.locks[j]
               PROVE  /\ a.owner = b.owner => a = b
                      /\ a # b => a.mode.kind # "exclusive" /\ a.mode.kind = b.mode.kind
    BY DEF NoConflict
  <2>1. CASE j # k
    BY <1>1, <1>9, <2>1 DEF NoConflict
  <2>2. CASE j = k
    BY <1>1, <1>5, <1>9, <1>11, <2>2 DEF NoConflict, S
  <2> QED BY <2>1, <2>2
<1>13. FencesOrdered(s)
  <2> SUFFICES ASSUME NEW j \in Keys
               PROVE  /\ s.applied[j] <= s.next[j]
                      /\ \A h \in s.locks[j] : h.fence <= s.next[j]
                      /\ \A h \in s.locks[j] : h.mode.kind = "exclusive" => h.fence = s.next[j]
    BY DEF FencesOrdered
  <2>1. CASE j # k
    BY <1>1, <1>7, <1>9, <1>10, <2>1 DEF FencesOrdered
  <2>2. CASE j = k
    <3>1. \A h \in r.locks[k] : h.fence \in Nat /\ h.fence <= r.next[k]
      BY <1>1, <1>8, BoundsAssumption DEF FencesOrdered, Holder
    <3>2. r.applied[k] <= r.next[k] /\ r.applied[k] \in Nat /\ f \in Nat
      BY <1>1, <1>3, BoundsAssumption DEF FencesOrdered, Register
    <3> QED BY <1>2, <1>3, <1>5, <1>7, <1>9, <1>10, <1>11, <2>2, <3>1, <3>2 DEF S
  <2> QED BY <2>1, <2>2
<1>14. \A j \in Keys : \A h \in s.locks[j] :
          h \in r.locks[j] \/ (j = k /\ h.owner = o /\ h.mode = m /\ h.fence = f)
  BY <1>5, <1>9 DEF S
<1>15. RegisterInv(s) BY <1>7, <1>12, <1>13 DEF RegisterInv
<1>16. LET w == Grant(r, k, o, m, d) IN w.reg = s /\ w.out = "ok" /\ w.fence = f
  BY <1>4 DEF Granted
<1> QED BY <1>7, <1>14, <1>15, <1>16 DEF f

\* try_acquire refuses, adds a hold to an existing holder, or grants afresh.
LEMMA TryAcquirePreserves ==
    ASSUME NEW r, RegisterInv(r), NEW k \in Keys, NEW o \in Owners, NEW m \in Modes,
           NEW lease \in Nat, NEW t \in Nat
    PROVE  LET w == TryAcquire(r, k, o, m, lease, t)
           IN  /\ RegisterInv(w.reg)
               /\ \/ Weakens(r, w.reg) /\ w.out # "ok"
                  \/ /\ Weakens(r, w.reg)
                     /\ \E g \in r.locks[k] : g.owner = o /\ g.mode = m /\ g.fence = w.fence
                  \/ /\ w.out = "ok" /\ w.fence = IssueFence(r, k)
                     /\ w.reg.applied = r.applied
                     /\ w.reg.next = [r.next EXCEPT ![k] = w.fence]
                     /\ \A j \in Keys : \A h \in w.reg.locks[j] :
                           \/ \E g \in r.locks[j] :
                                 g.owner = h.owner /\ g.mode = h.mode /\ g.fence = h.fence
                           \/ j = k /\ h.owner = o /\ h.mode = m /\ h.fence = w.fence
<1> DEFINE w == TryAcquire(r, k, o, m, lease, t)
           e == ExpireKey(r, k, t)
           mine == {h \in e.locks[k] : h.owner = o}
           held == CHOOSE h \in mine : TRUE
<1>1. RegisterInv(e) /\ Weakens(r, e) BY ExpireKeyPreserves
<1>2. w = IF t + lease > TimeMax THEN Outcome(e, "invalid")
          ELSE IF mine # {} THEN Reenter(e, k, held, m, t + lease)
          ELSE IF Compatible(e.locks[k], m) THEN Grant(e, k, o, m, t + lease)
          ELSE Outcome(e, "locked")
  BY DEF TryAcquire
<1> HIDE DEF w, e
<1>3. CASE t + lease > TimeMax
  BY <1>1, <1>2, <1>3 DEF Outcome, w
<1>4. CASE ~(t + lease > TimeMax) /\ mine # {}
  <2>1. t + lease \in 0..TimeMax /\ held \in e.locks[k] /\ held.owner = o
    BY <1>4, BoundsAssumption
  <2>2. w = Reenter(e, k, held, m, t + lease)
    BY <1>2, <1>4
  <2> HIDE DEF held
  <2>3. RegisterInv(w.reg) /\ Weakens(e, w.reg)
        /\ (w.out = "ok" => held.mode = m /\ held.fence = w.fence)
    BY <1>1, <2>1, <2>2, ReenterPreserves
  <2>4. Weakens(r, w.reg)
    BY <1>1, <2>3 DEF Weakens
  <2>5. \E g \in r.locks[k] : g.owner = held.owner /\ g.mode = held.mode /\ g.fence = held.fence
    BY <1>1, <2>1 DEF Weakens
  <2> QED BY <2>1, <2>3, <2>4, <2>5 DEF w
<1>5. CASE ~(t + lease > TimeMax) /\ mine = {} /\ Compatible(e.locks[k], m)
  <2>1. t + lease \in 0..TimeMax /\ \A h \in e.locks[k] : h.owner # o
    BY <1>5, BoundsAssumption
  <2>2. w = Grant(e, k, o, m, t + lease)
    BY <1>2, <1>5
  <2>3. /\ RegisterInv(w.reg) /\ w.out = "ok" /\ w.fence = IssueFence(e, k)
        /\ w.reg.applied = e.applied /\ w.reg.next = [e.next EXCEPT ![k] = w.fence]
        /\ \A j \in Keys : \A h \in w.reg.locks[j] :
              h \in e.locks[j] \/ (j = k /\ h.owner = o /\ h.mode = m /\ h.fence = w.fence)
    BY <1>1, <1>5, <2>1, <2>2, GrantPreserves
  <2>4. IssueFence(e, k) = IssueFence(r, k)
    BY <1>1 DEF Weakens, IssueFence
  <2> QED BY <1>1, <2>3, <2>4 DEF Weakens, w
<1>6. CASE ~(t + lease > TimeMax) /\ mine = {} /\ ~Compatible(e.locks[k], m)
  BY <1>1, <1>2, <1>6 DEF Outcome, w
<1> QED BY <1>3, <1>4, <1>5, <1>6

-----------------------------------------------------------------------------
(* The inductive invariant of the authority. *)

\* What a client was handed or acknowledged is below the published counters.
CountersDurable ==
    \A k \in Keys :
        /\ register.next[k] <= durable.next[k]
        /\ register.applied[k] <= durable.applied[k]
        /\ durable.applied[k] <= durable.next[k]

TokensBelowCounter == \A tok \in tokens : tok.fence <= register.next[tok.key]

HoldersIssued ==
    \A k \in Keys : \A h \in register.locks[k] :
        [key |-> k, owner |-> h.owner, mode |-> h.mode, fence |-> h.fence] \in tokens

AckedApplied == \A k \in Keys : acked[k] <= register.applied[k]

IInv ==
    /\ TypeOK /\ RegisterInv(register) /\ CountersDurable
    /\ TokensBelowCounter /\ HoldersIssued /\ FenceNamesOneHolder /\ AckedApplied

\* No counter of s is below its value in r.
Advances(r, s) ==
    \A k \in Keys : r.next[k] <= s.next[k] /\ r.applied[k] <= s.applied[k]

LEMMA WeakensAdvances ==
    ASSUME NEW r \in Register, NEW s \in Register, Weakens(r, s)
    PROVE  Advances(r, s)
BY BoundsAssumption DEF Weakens, Advances, Register

LEMMA InitIInv == Init => IInv
BY BoundsAssumption
   DEF Init, IInv, TypeOK, RegisterInv, Register, EmptyRegister, Counters, NoConflict,
       FencesOrdered, CountersDurable, TokensBelowCounter, HoldersIssued,
       FenceNamesOneHolder, AckedApplied

LEMMA NotifyAllType ==
    ASSUME TypeOK, NEW r PROVE NotifyAll(r) \in [Threads -> Acquiring \cup {Idle}]
BY DEF TypeOK, NotifyAll, Acquiring, Idle

\* Publishing a register that weakens the current one.
LEMMA PublishWeakerPreserves ==
    ASSUME IInv, NEW r, RegisterInv(r), Weakens(register, r), Publish(r),
           call' \in [Threads -> Acquiring \cup {Idle}], now' \in Nat,
           tokens' = tokens, acked' = acked
    PROVE  IInv'
<1>1. r \in Register /\ register \in Register BY DEF RegisterInv, IInv
<1>2. register' = r /\ durable'.next \in [Keys -> 0..FenceMax]
      /\ durable' \in [next : [Keys -> 0..FenceMax], applied : [Keys -> 0..FenceMax]]
      /\ (durable' = durable \/ durable' = Counters(r))
  BY <1>1 DEF Publish, Counters, Register, IInv, TypeOK
<1>3. TypeOK' BY <1>1, <1>2 DEF IInv, TypeOK
<1>4. RegisterInv(register)' BY <1>2 DEF RegisterInv, NoConflict, FencesOrdered
<1>5. CountersDurable'
  <2> SUFFICES ASSUME NEW k \in Keys
               PROVE  /\ r.next[k] <= durable'.next[k] /\ r.applied[k] <= durable'.applied[k]
                      /\ durable'.applied[k] <= durable'.next[k]
    BY <1>2 DEF CountersDurable
  <2>1. CASE durable' = durable
    BY <2>1 DEF IInv, CountersDurable, Weakens
  <2>2. CASE durable' = Counters(r)
    BY <1>1, <2>2, BoundsAssumption DEF Counters, RegisterInv, FencesOrdered, Register
  <2> QED BY <1>2, <2>1, <2>2
<1>6. TokensBelowCounter' BY <1>2 DEF IInv, TokensBelowCounter, Weakens
<1>7. HoldersIssued' BY <1>2 DEF IInv, HoldersIssued, Weakens
<1>8. FenceNamesOneHolder' BY DEF IInv, FenceNamesOneHolder
<1>9. AckedApplied' BY <1>2 DEF IInv, AckedApplied, Weakens
<1> QED BY <1>3, <1>4, <1>5, <1>6, <1>7, <1>8, <1>9 DEF IInv

\* A failed publication restores the register whatever reached the disk.
LEMMA PublishFailsPreserves ==
    ASSUME IInv, NEW r, RegisterInv(r), Advances(register, r), PublishFails(r),
           call' \in [Threads -> Acquiring \cup {Idle}],
           now' = now, tokens' = tokens, acked' = acked
    PROVE  IInv'
<1>1. r \in Register /\ register \in Register BY DEF RegisterInv, IInv
<1>2. /\ register' = register
      /\ durable' \in [next : [Keys -> 0..FenceMax], applied : [Keys -> 0..FenceMax]]
      /\ (durable' = durable \/ durable' = Counters(r))
  BY <1>1 DEF PublishFails, Counters, Register, IInv, TypeOK
<1>3. TypeOK' BY <1>2 DEF IInv, TypeOK
<1>4. CountersDurable'
  <2> SUFFICES ASSUME NEW k \in Keys
               PROVE  /\ register.next[k] <= durable'.next[k]
                      /\ register.applied[k] <= durable'.applied[k]
                      /\ durable'.applied[k] <= durable'.next[k]
    BY <1>2 DEF CountersDurable
  <2>1. CASE durable' = durable
    BY <2>1 DEF IInv, CountersDurable
  <2>2. CASE durable' = Counters(r)
    BY <2>2 DEF Counters, Advances, RegisterInv, FencesOrdered
  <2> QED BY <1>2, <2>1, <2>2
<1> QED BY <1>2, <1>3, <1>4
        DEF IInv, RegisterInv, NoConflict, FencesOrdered, TokensBelowCounter, HoldersIssued,
            FenceNamesOneHolder, AckedApplied

\* A call that holds the mutex throughout and only weakens the register.
LEMMA AnsweredPreserves ==
    ASSUME IInv, NEW w, RegisterInv(w.reg), Weakens(register, w.reg), Answered(w)
    PROVE  IInv'
<1>1. w.reg \in Register /\ register \in Register BY DEF RegisterInv, IInv
<1>2. CASE Served(w) /\ UNCHANGED acked
  BY <1>2, NotifyAllType, PublishWeakerPreserves DEF Served, IInv, TypeOK
<1>3. CASE Failed(w)
  BY <1>1, <1>3, WeakensAdvances, PublishFailsPreserves DEF Failed, IInv, TypeOK
<1> QED BY <1>2, <1>3 DEF Answered

LEMMA AcquiringFields ==
    ASSUME TypeOK, NEW t \in Threads, call[t].pc \in {"trying", "sleeping"}
    PROVE  /\ call[t] \in Acquiring
           /\ call[t].key \in Keys /\ call[t].owner \in Owners /\ call[t].mode \in Modes
           /\ call[t].lease \in Nat /\ call[t].giveup \in Nat
<1>1. call[t] \in Acquiring BY DEF TypeOK, Idle
<1> QED BY <1>1, AuthorityAssumption DEF Acquiring

LEMMA AcquireReturnsPreserves ==
    ASSUME IInv, NEW t \in Threads, AcquireReturns(t)
    PROVE  IInv'
<1> DEFINE c == call[t]
           w == Attempt(t)
           tok == [key |-> c.key, owner |-> c.owner, mode |-> c.mode, fence |-> w.fence]
<1>1. /\ c.key \in Keys /\ c.owner \in Owners /\ c.mode \in Modes /\ c.lease \in Nat
      /\ now \in Nat /\ register \in Register
  <2>1. call[t].pc = "trying" BY DEF AcquireReturns
  <2> QED BY <2>1, AcquiringFields DEF IInv, TypeOK
<1>2. w = TryAcquire(register, c.key, c.owner, c.mode, c.lease, now)
  BY DEF Attempt
<1>3. /\ Publish(w.reg) /\ now' = now /\ acked' = acked
      /\ call' = [NotifyAll(w.reg) EXCEPT ![t] = Idle]
      /\ tokens' = IF w.out = "ok" THEN tokens \cup {tok} ELSE tokens
  BY DEF AcquireReturns
<1> HIDE DEF w
<1>4. call' \in [Threads -> Acquiring \cup {Idle}]
  BY <1>3, NotifyAllType DEF IInv
<1> HIDE DEF c
<1>5. RegisterInv(w.reg) BY <1>1, <1>2, TryAcquirePreserves DEF IInv
<1>6. CASE Weakens(register, w.reg) /\ w.out # "ok"
  BY <1>1, <1>3, <1>4, <1>5, <1>6, PublishWeakerPreserves
<1>7. CASE /\ Weakens(register, w.reg)
           /\ \E g \in register.locks[c.key] :
                  g.owner = c.owner /\ g.mode = c.mode /\ g.fence = w.fence
  <2>1. tok \in tokens BY <1>1, <1>7 DEF IInv, HoldersIssued
  <2>2. tokens' = tokens BY <1>3, <2>1
  <2> QED BY <1>1, <1>3, <1>4, <1>5, <1>7, <2>2, PublishWeakerPreserves
<1>8. CASE /\ w.out = "ok" /\ w.fence = IssueFence(register, c.key)
           /\ w.reg.applied = register.applied
           /\ w.reg.next = [register.next EXCEPT ![c.key] = w.fence]
           /\ \A j \in Keys : \A h \in w.reg.locks[j] :
                 \/ \E g \in register.locks[j] :
                       g.owner = h.owner /\ g.mode = h.mode /\ g.fence = h.fence
                 \/ j = c.key /\ h.owner = c.owner /\ h.mode = c.mode /\ h.fence = w.fence
  <2> DEFINE k == c.key
             r == w.reg
  <2>1. r \in Register BY <1>5 DEF RegisterInv
  <2>2. register.next \in [Keys -> 0..FenceMax] BY <1>1 DEF Register
  <2>3. /\ w.fence \in 1..FenceMax /\ register.next[k] <= w.fence
        /\ (w.fence < FenceMax => register.next[k] < w.fence)
    BY <1>1, <1>8, <2>2, BoundsAssumption DEF IssueFence
  <2>4. r.next[k] = w.fence /\ \A j \in Keys : j # k => r.next[j] = register.next[j]
    BY <1>1, <1>8, <2>2
  <2>5. tok \in Token BY <1>1, <2>3 DEF Token
  <2>6. /\ register' = r /\ tokens' = tokens \cup {tok}
        /\ durable' \in [next : [Keys -> 0..FenceMax], applied : [Keys -> 0..FenceMax]]
        /\ (durable' = durable /\ r = register) \/ durable' = Counters(r)
    BY <1>3, <1>8, <2>1 DEF Publish, IInv, TypeOK, Register, Counters
  <2>7. TypeOK' BY <1>3, <1>4, <2>1, <2>5, <2>6 DEF IInv, TypeOK
  <2>8. RegisterInv(register)' BY <1>5, <2>6 DEF RegisterInv, NoConflict, FencesOrdered
  <2>9. CountersDurable'
    <3>1. CASE durable' = durable /\ r = register
      BY <2>6, <3>1 DEF IInv, CountersDurable
    <3>2. CASE durable' = Counters(r)
      <4>1. \A j \in Keys : r.next[j] \in Nat /\ r.applied[j] \in Nat /\ r.applied[j] <= r.next[j]
        BY <1>5, <2>1, BoundsAssumption DEF Register, RegisterInv, FencesOrdered
      <4> QED BY <2>6, <3>2, <4>1 DEF Counters, CountersDurable
    <3> QED BY <2>6, <3>1, <3>2
  <2>10. \A s \in tokens : s.fence \in Nat /\ s.key \in Keys /\ s.fence <= register.next[s.key]
    BY BoundsAssumption DEF IInv, TypeOK, Token, TokensBelowCounter
  <2>11. TokensBelowCounter'
    <3> SUFFICES ASSUME NEW s \in tokens \cup {tok} PROVE s.fence <= r.next[s.key]
      BY <2>6 DEF TokensBelowCounter
    <3>1. CASE s = tok BY <2>3, <2>4, <3>1
    <3>2. CASE s \in tokens /\ s.key = k
      BY <2>2, <2>3, <2>4, <2>10, <3>2, BoundsAssumption
    <3>3. CASE s \in tokens /\ s.key # k
      BY <2>4, <2>10, <3>3
    <3> QED BY <3>1, <3>2, <3>3
  <2>12. HoldersIssued'
    <3> SUFFICES ASSUME NEW j \in Keys, NEW h \in r.locks[j]
                 PROVE  [key |-> j, owner |-> h.owner, mode |-> h.mode, fence |-> h.fence]
                           \in tokens \cup {tok}
      BY <2>6 DEF HoldersIssued
    <3>1. CASE \E g \in register.locks[j] :
                  g.owner = h.owner /\ g.mode = h.mode /\ g.fence = h.fence
      BY <3>1 DEF IInv, HoldersIssued
    <3>2. CASE j = c.key /\ h.owner = c.owner /\ h.mode = c.mode /\ h.fence = w.fence
      BY <3>2
    <3> QED BY <1>8, <3>1, <3>2
  <2>13. FenceNamesOneHolder'
    <3>1. \A s \in tokens : s.key = k /\ s.fence = w.fence => ~(w.fence < FenceMax)
      BY <1>1, <2>2, <2>3, <2>10, BoundsAssumption
    <3> QED BY <2>6, <3>1 DEF IInv, FenceNamesOneHolder
  <2>14. AckedApplied' BY <1>3, <1>8, <2>6 DEF IInv, AckedApplied
  <2> QED BY <2>7, <2>8, <2>9, <2>11, <2>12, <2>13, <2>14 DEF IInv
<1> QED BY <1>1, <1>2, <1>5, <1>6, <1>7, <1>8, TryAcquirePreserves DEF IInv

\* Every register an attempt could publish advances the counters.
LEMMA AttemptAdvances ==
    ASSUME IInv, NEW t \in Threads, call[t].pc = "trying"
    PROVE  /\ RegisterInv(Attempt(t).reg) /\ Advances(register, Attempt(t).reg)
           /\ Attempt(t).out # "ok" => Weakens(register, Attempt(t).reg)
<1> DEFINE c == call[t]
           w == Attempt(t)
<1>1. /\ c.key \in Keys /\ c.owner \in Owners /\ c.mode \in Modes /\ c.lease \in Nat
      /\ now \in Nat /\ register \in Register
  BY AcquiringFields DEF IInv, TypeOK
<1>2. w = TryAcquire(register, c.key, c.owner, c.mode, c.lease, now)
  BY DEF Attempt
<1> HIDE DEF c, w
<1>3. RegisterInv(w.reg) BY <1>1, <1>2, TryAcquirePreserves DEF IInv
<1>4. \/ Weakens(register, w.reg)
      \/ /\ w.out = "ok" /\ w.fence = IssueFence(register, c.key)
         /\ w.reg.applied = register.applied
         /\ w.reg.next = [register.next EXCEPT ![c.key] = w.fence]
  BY <1>1, <1>2, TryAcquirePreserves DEF IInv
<1>5. CASE Weakens(register, w.reg)
  BY <1>1, <1>3, <1>5, WeakensAdvances DEF RegisterInv, w
<1>6. CASE /\ w.out = "ok" /\ w.fence = IssueFence(register, c.key)
           /\ w.reg.applied = register.applied
           /\ w.reg.next = [register.next EXCEPT ![c.key] = w.fence]
  <2>1. register.next \in [Keys -> 0..FenceMax] /\ register.applied \in [Keys -> 0..FenceMax]
    BY <1>1 DEF Register
  <2>2. register.next[c.key] <= w.fence
    BY <1>1, <1>6, <2>1, BoundsAssumption DEF IssueFence
  <2>3. Advances(register, w.reg)
    BY <1>1, <1>6, <2>1, <2>2, BoundsAssumption DEF Advances
  <2> QED BY <1>3, <1>6, <2>3 DEF w
<1> QED BY <1>4, <1>5, <1>6

LEMMA AcquireSleepsPreserves ==
    ASSUME IInv, NEW t \in Threads, AcquireSleeps(t)
    PROVE  IInv'
<1> DEFINE w == Attempt(t)
<1>1. call[t].pc = "trying" /\ w.out = "locked" /\ Publish(w.reg)
      /\ tokens' = tokens /\ acked' = acked
  BY DEF AcquireSleeps
<1>2. RegisterInv(w.reg) /\ Weakens(register, w.reg)
  BY <1>1, AttemptAdvances
<1>3. now \in Nat /\ now' \in Nat /\ call[t].giveup \in Nat /\ now <= call[t].giveup
  BY <1>1, AcquiringFields, AuthorityAssumption DEF IInv, TypeOK, AcquireSleeps
<1>4. call' \in [Threads -> Acquiring \cup {Idle}]
  <2> DEFINE wakes == {now' + (call[t].giveup - now)}
                         \cup LiveDeadlines(w.reg.locks[call[t].key], now')
  <2>1. PICK wake \in wakes : call' = [NotifyAll(w.reg) EXCEPT ![t] = Asleep(@, wake)]
    BY DEF AcquireSleeps
  <2>2. wakes \subseteq Nat
    <3>1. w.reg.locks[call[t].key] \subseteq Holder
      BY <1>1, <1>2, AcquiringFields DEF RegisterInv, Register, IInv
    <3>2. \A h \in Holder : h.deadline \in Nat BY BoundsAssumption DEF Holder
    <3> QED BY <1>3, <3>1, <3>2 DEF LiveDeadlines, Unexpired
  <2>3. wake \in Nat BY <2>2
  <2> HIDE DEF wakes, w
  <2>4. \A r : NotifyAll(r) \in [Threads -> Acquiring \cup {Idle}] /\ NotifyAll(r)[t] = call[t]
    BY <1>1, NotifyAllType DEF IInv, NotifyAll
  <2>5. Asleep(call[t], wake) \in Acquiring
    BY <1>1, <2>3, AcquiringFields DEF IInv, Acquiring, Asleep
  <2> QED BY <2>1, <2>4, <2>5
<1> HIDE DEF w
<1> QED BY <1>1, <1>2, <1>3, <1>4, PublishWeakerPreserves

LEMMA AcquireFailsPreserves ==
    ASSUME IInv, NEW t \in Threads, AcquireFails(t)
    PROVE  IInv'
<1>1. call' \in [Threads -> Acquiring \cup {Idle}]
  BY DEF AcquireFails, IInv, TypeOK
<1> QED BY <1>1, AttemptAdvances, PublishFailsPreserves DEF AcquireFails

LEMMA ApplyFencedWriteCallPreserves ==
    ASSUME IInv, NEW tok \in tokens, ApplyFencedWriteCall(tok)
    PROVE  IInv'
<1> DEFINE w == ApplyFencedWrite(register, tok, now)
<1>1. tok \in Token /\ now \in Nat /\ register \in Register /\ tok.key \in Keys
      /\ tok.fence \in Nat
  BY BoundsAssumption DEF IInv, TypeOK, Token
<1>2. \/ /\ Served(w)
         /\ acked' = IF w.out = "ok" THEN [acked EXCEPT ![tok.key] = tok.fence] ELSE acked
      \/ Failed(w)
  BY DEF ApplyFencedWriteCall
<1> HIDE DEF w
<1>3. RegisterInv(w.reg) BY <1>1, ApplyFencedWritePreserves DEF IInv, w
<1>4. CASE w.out # "ok" /\ Weakens(register, w.reg)
  BY <1>2, <1>3, <1>4, AnsweredPreserves DEF Answered
<1>5. CASE /\ w.out = "ok" /\ register.applied[tok.key] <= tok.fence
           /\ w.reg.next = register.next /\ w.reg.locks = register.locks
           /\ w.reg.applied = [register.applied EXCEPT ![tok.key] = tok.fence]
  <2> DEFINE r == w.reg
  <2>1. r \in Register BY <1>3 DEF RegisterInv
  <2>2. register.applied \in [Keys -> 0..FenceMax] BY <1>1 DEF Register
  <2>3. r.applied[tok.key] = tok.fence
        /\ \A k \in Keys : k # tok.key => r.applied[k] = register.applied[k]
    BY <1>1, <1>5, <2>2
  <2>4. Advances(register, r)
    BY <1>1, <1>5, <2>2, <2>3, BoundsAssumption DEF Advances, Register
  <2>5. CASE Failed(w)
    BY <1>3, <2>4, <2>5, PublishFailsPreserves DEF Failed, IInv, TypeOK
  <2>6. CASE Served(w) /\ acked' = [acked EXCEPT ![tok.key] = tok.fence]
    <3>1. /\ register' = r /\ tokens' = tokens /\ now' = now /\ call' = NotifyAll(r)
          /\ durable' \in [next : [Keys -> 0..FenceMax], applied : [Keys -> 0..FenceMax]]
          /\ (durable' = durable /\ r = register) \/ durable' = Counters(r)
      BY <2>1, <2>6 DEF Served, Publish, IInv, TypeOK, Register, Counters
    <3>2. acked' \in [Keys -> 0..FenceMax]
      BY <1>1, <2>6, BoundsAssumption DEF IInv, TypeOK, Token
    <3>3. TypeOK' BY <1>1, <2>1, <3>1, <3>2, NotifyAllType DEF IInv, TypeOK
    <3>4. RegisterInv(register)' BY <1>3, <3>1 DEF RegisterInv, NoConflict, FencesOrdered
    <3>5. CountersDurable'
      <4>1. \A j \in Keys : r.next[j] \in Nat /\ r.applied[j] \in Nat /\ r.applied[j] <= r.next[j]
        BY <1>3, <2>1, BoundsAssumption DEF Register, RegisterInv, FencesOrdered
      <4>2. CASE durable' = durable /\ r = register
        BY <3>1, <4>2 DEF IInv, CountersDurable
      <4>3. CASE durable' = Counters(r)
        BY <3>1, <4>1, <4>3 DEF Counters, CountersDurable
      <4> QED BY <3>1, <4>2, <4>3
    <3>6. TokensBelowCounter' /\ HoldersIssued' /\ FenceNamesOneHolder'
      BY <1>5, <3>1 DEF IInv, TokensBelowCounter, HoldersIssued, FenceNamesOneHolder
    <3>7. AckedApplied'
      <4>1. acked \in [Keys -> 0..FenceMax] BY DEF IInv, TypeOK
      <4> QED BY <1>1, <2>3, <2>6, <3>1, <4>1 DEF IInv, AckedApplied
    <3> QED BY <3>3, <3>4, <3>5, <3>6, <3>7 DEF IInv
  <2> QED BY <1>2, <1>5, <2>5, <2>6
<1> QED BY <1>1, <1>4, <1>5, ApplyFencedWritePreserves DEF IInv, w

LEMMA RestartPreserves ==
    ASSUME IInv, Restart
    PROVE  IInv'
<1>1. /\ register'.locks = [k \in Keys |-> {}] /\ register'.next = durable.next
      /\ register'.applied = durable.applied /\ register' \in Register
      /\ call' \in [Threads -> Acquiring \cup {Idle}]
      /\ durable' = durable /\ now' = now /\ tokens' = tokens /\ acked' = acked
  BY DEF Restart, RestoreFences, IInv, TypeOK, Register
<1>2. TypeOK' BY <1>1 DEF IInv, TypeOK
<1>3. RegisterInv(register)'
  BY <1>1 DEF IInv, CountersDurable, RegisterInv, NoConflict, FencesOrdered
<1>4. CountersDurable'
  BY <1>1, BoundsAssumption DEF IInv, TypeOK, CountersDurable
<1>5. TokensBelowCounter'
  <2>1. \A tok \in tokens : tok.key \in Keys /\ tok.fence \in Nat
    BY BoundsAssumption DEF IInv, TypeOK, Token
  <2>2. \A k \in Keys : register.next[k] \in Nat /\ durable.next[k] \in Nat
    BY BoundsAssumption DEF IInv, TypeOK, Register
  <2> QED BY <1>1, <2>1, <2>2 DEF IInv, TokensBelowCounter, CountersDurable
<1>6. HoldersIssued' /\ FenceNamesOneHolder'
  BY <1>1 DEF IInv, HoldersIssued, FenceNamesOneHolder
<1>7. AckedApplied'
  <2>1. \A k \in Keys : register.applied[k] \in Nat /\ durable.applied[k] \in Nat /\ acked[k] \in Nat
    BY BoundsAssumption DEF IInv, TypeOK, Register
  <2> QED BY <1>1, <2>1 DEF IInv, AckedApplied, CountersDurable
<1> QED BY <1>2, <1>3, <1>4, <1>5, <1>6, <1>7 DEF IInv

\* Steps that touch only threads and the clock.
LEMMA ThreadStepPreserves ==
    ASSUME IInv, UNCHANGED <<register, durable, tokens, acked>>,
           call' \in [Threads -> Acquiring \cup {Idle}], now' \in Nat
    PROVE  IInv'
BY DEF IInv, TypeOK, RegisterInv, NoConflict, FencesOrdered, CountersDurable,
       TokensBelowCounter, HoldersIssued, FenceNamesOneHolder, AckedApplied

LEMMA RetryingType ==
    ASSUME TypeOK, NEW t \in Threads, call[t].pc = "sleeping"
    PROVE  [call EXCEPT ![t] = Retrying(@)] \in [Threads -> Acquiring \cup {Idle}]
<1>1. call[t] \in Acquiring BY AcquiringFields
<1>2. Retrying(call[t]) \in Acquiring BY <1>1 DEF Acquiring, Retrying
<1> QED BY <1>2 DEF TypeOK

LEMMA StepIInv == IInv /\ [Next]_vars => IInv'
<1> SUFFICES ASSUME IInv, [Next]_vars PROVE IInv'
  OBVIOUS
<1> USE DEF IInv
<1>0. TypeOK /\ now \in Nat /\ call \in [Threads -> Acquiring \cup {Idle}] /\ RegisterInv(register)
  BY DEF TypeOK
<1>1. ASSUME NEW t \in Threads, NEW o \in Owners, NEW k \in Keys, NEW m \in Modes,
             NEW lease \in Leases, NEW wait \in Waits, StartAcquire(t, o, k, m, lease, wait)
      PROVE  IInv'
  <2>1. call' \in [Threads -> Acquiring \cup {Idle}]
    BY <1>0, <1>1, AuthorityAssumption DEF StartAcquire, Acquiring
  <2> QED BY <1>0, <1>1, <2>1, ThreadStepPreserves DEF StartAcquire
<1>2. ASSUME NEW t \in Threads, AcquireReturns(t) PROVE IInv'
  BY <1>2, AcquireReturnsPreserves
<1>3. ASSUME NEW t \in Threads, AcquireSleeps(t) PROVE IInv'
  BY <1>3, AcquireSleepsPreserves
<1>4. ASSUME NEW t \in Threads, AcquireFails(t) PROVE IInv'
  BY <1>4, AcquireFailsPreserves
<1>5. ASSUME NEW t \in Threads, Wake(t) PROVE IInv'
  BY <1>0, <1>5, RetryingType, ThreadStepPreserves DEF Wake
<1>6. ASSUME NEW t \in Threads, SpuriousWake(t) PROVE IInv'
  BY <1>0, <1>6, RetryingType, ThreadStepPreserves DEF SpuriousWake
<1>7. ASSUME NEW tok \in tokens, NEW lease \in Leases, RefreshCall(tok, lease) PROVE IInv'
  <2>1. tok \in Token /\ lease \in Nat BY AuthorityAssumption DEF TypeOK
  <2> QED BY <1>0, <1>7, <2>1, RefreshPreserves, AnsweredPreserves DEF RefreshCall
<1>8. ASSUME NEW tok \in tokens, ReleaseCall(tok) PROVE IInv'
  <2>1. tok \in Token BY DEF TypeOK
  <2> QED BY <1>0, <1>8, <2>1, ReleasePreserves, AnsweredPreserves DEF ReleaseCall
<1>9. ASSUME NEW k \in Keys, BreakKeyCall(k) PROVE IInv'
  BY <1>0, <1>9, BreakKeyPreserves, AnsweredPreserves DEF BreakKeyCall
<1>10. ASSUME NEW o \in Owners, CloseOwnerCall(o) PROVE IInv'
  BY <1>0, <1>10, ReleaseOwnerPreserves, AnsweredPreserves DEF CloseOwnerCall
<1>11. ASSUME NEW tok \in tokens, ApplyFencedWriteCall(tok) PROVE IInv'
  BY <1>11, ApplyFencedWriteCallPreserves
<1>12. ASSUME Tick PROVE IInv'
  <2>1. now' \in Nat BY <1>0, <1>12 DEF Tick
  <2> QED BY <1>0, <1>12, <2>1, ThreadStepPreserves DEF Tick
<1>13. ASSUME Restart PROVE IInv'
  BY <1>13, RestartPreserves
<1>14. ASSUME UNCHANGED vars PROVE IInv'
  BY <1>0, <1>14, ThreadStepPreserves DEF vars
<1> QED BY <1>1, <1>2, <1>3, <1>4, <1>5, <1>6, <1>7, <1>8, <1>9, <1>10, <1>11, <1>12,
           <1>13, <1>14 DEF Next

THEOREM Invariance == Spec => []IInv
BY InitIInv, StepIInv, PTL DEF Spec

\* The register, the published counters, the threads and the tokens keep their
\* types: in particular no fence ever leaves the range of its counter.
THEOREM TypeCorrect == Spec => []TypeOK
<1>1. IInv => TypeOK BY DEF IInv
<1> QED BY <1>1, Invariance, PTL

\* Mutual exclusion: conflicting holders never coexist on a key, whatever
\* expires, is broken, fails to publish or restarts (LockCoordinator::compatible).
THEOREM MutualExclusion == Spec => []HoldersCompatible
<1>1. IInv => HoldersCompatible
  BY DEF IInv, RegisterInv, NoConflict, HoldersCompatible
<1> QED BY <1>1, Invariance, PTL

\* A fence below saturation is handed to one acquisition only, across restarts
\* (issue_fence, publish_outcome, restore_fences).
THEOREM FencesUnique == Spec => []FenceNamesOneHolder
<1>1. IInv => FenceNamesOneHolder BY DEF IInv
<1> QED BY <1>1, Invariance, PTL

\* A recorded exclusive holder is the newest, so its write is never stale
\* (apply_fence).
THEOREM ExclusiveNewest == Spec => []ExclusiveHolderIsNewest
<1>1. IInv => ExclusiveHolderIsNewest
  BY DEF IInv, RegisterInv, FencesOrdered, ExclusiveHolderIsNewest
<1> QED BY <1>1, Invariance, PTL

\* Acknowledged fenced writes carry non-decreasing fences for ever (apply_fence
\* against the durable high-water).
THEOREM FencedWritesOrdered == Spec => AckedWritesNeverRegress
<1>1. IInv /\ [Next]_vars => [\A k \in Keys : acked'[k] >= acked[k]]_vars
  <2> SUFFICES ASSUME IInv, Next, NEW k \in Keys PROVE acked'[k] >= acked[k]
    OBVIOUS
  <2>1. acked \in [Keys -> 0..FenceMax] /\ acked[k] \in Nat
    BY BoundsAssumption DEF IInv, TypeOK
  <2>2. CASE acked' = acked BY <2>1, <2>2
  <2>3. ASSUME NEW tok \in tokens, ApplyFencedWriteCall(tok) PROVE acked'[k] >= acked[k]
    <3> DEFINE w == ApplyFencedWrite(register, tok, now)
    <3>1. tok \in Token /\ now \in Nat /\ tok.key \in Keys /\ tok.fence \in Nat
      BY BoundsAssumption DEF IInv, TypeOK, Token
    <3>2. \/ acked' = acked
          \/ w.out = "ok" /\ acked' = [acked EXCEPT ![tok.key] = tok.fence]
      BY <2>3 DEF ApplyFencedWriteCall, Failed
    <3> HIDE DEF w
    <3>3. w.out = "ok" => register.applied[tok.key] <= tok.fence
      BY <3>1, ApplyFencedWritePreserves DEF IInv, w
    <3>4. acked[tok.key] <= register.applied[tok.key] BY <3>1 DEF IInv, AckedApplied
    <3>5. register.applied[tok.key] \in Nat /\ acked[tok.key] \in Nat
      BY <3>1, BoundsAssumption DEF IInv, TypeOK, Register
    <3> QED BY <2>1, <3>1, <3>2, <3>3, <3>4, <3>5
  <2>4. CASE ~\E tok \in tokens : ApplyFencedWriteCall(tok)
    <3>1. acked' = acked
      BY <2>4 DEF Next, StartAcquire, AcquireReturns, AcquireSleeps, AcquireFails, Wake,
                  SpuriousWake, RefreshCall, ReleaseCall, BreakKeyCall, CloseOwnerCall,
                  Answered, Failed, Tick, Restart
    <3> QED BY <2>2, <3>1
  <2> QED BY <2>3, <2>4
<1> QED BY <1>1, Invariance, PTL DEF Spec, AckedWritesNeverRegress

-----------------------------------------------------------------------------
(* Sleepers *)

\* A thread that tries has no notification pending; one that sleeps without a
\* notification is still blocked.
WaitsWell(t) ==
    /\ call[t].pc = "trying" => call[t].notified = FALSE
    /\ call[t].pc = "sleeping" /\ ~call[t].notified => StillBlocked(call[t])
WaitInv == \A t \in Threads : WaitsWell(t)

\* Whoever else publishes a change notifies the sleeper.
LEMMA OtherPublishes ==
    ASSUME TypeOK, WaitInv, NEW t \in Threads, NEW r, register' = r, call'[t] = NotifyAll(r)[t]
    PROVE  WaitsWell(t)'
<1>1. CASE r = register
  <2>1. call'[t] = call[t]
    BY <1>1 DEF NotifyAll
  <2> QED BY <1>1, <2>1 DEF WaitInv, WaitsWell, StillBlocked
<1>2. CASE r # register
  <2>1. CASE call[t].pc = "sleeping"
    <3>1. call[t] \in Acquiring
      BY <2>1, AcquiringFields
    <3>2. call'[t].pc = "sleeping" /\ call'[t].notified
      BY <1>2, <2>1, <3>1 DEF NotifyAll, Acquiring
    <3> QED BY <3>2 DEF WaitsWell
  <2>2. CASE call[t].pc # "sleeping"
    <3>1. call'[t] = call[t]
      BY <1>2, <2>2 DEF NotifyAll
    <3> QED BY <2>2, <3>1 DEF WaitInv, WaitsWell
  <2> QED BY <2>1, <2>2
<1> QED BY <1>1, <1>2

\* The thread that goes to sleep is blocked by the holders it leaves in the register.
LEMMA SleeperBlocked ==
    ASSUME IInv, NEW t \in Threads, call[t].pc = "trying", Attempt(t).out = "locked",
           register' = Attempt(t).reg, NEW c, c.key = call[t].key, c.owner = call[t].owner,
           c.mode = call[t].mode
    PROVE  StillBlocked(c)'
<1> DEFINE e == ExpireKey(register, c.key, now)
           mine == {h \in e.locks[c.key] : h.owner = c.owner}
           held == CHOOSE h \in mine : TRUE
           d == now + call[t].lease
<1>0. c.key \in Keys /\ now \in Nat /\ RegisterInv(register)
  BY AcquiringFields DEF IInv, TypeOK
<1>1. Attempt(t) = IF d > TimeMax THEN Outcome(e, "invalid")
                   ELSE IF mine # {} THEN Reenter(e, c.key, held, c.mode, d)
                   ELSE IF Compatible(e.locks[c.key], c.mode) THEN Grant(e, c.key, c.owner, c.mode, d)
                   ELSE Outcome(e, "locked")
  BY DEF Attempt, TryAcquire
<1>2. RegisterInv(e)
  BY <1>0, ExpireKeyPreserves
<1> HIDE DEF e, d
<1>3. CASE mine # {}
  <2>1. held \in mine
    BY <1>3
  <2>2. Attempt(t) = Reenter(e, c.key, held, c.mode, d)
    BY <1>1, <1>3 DEF Outcome
  <2> HIDE DEF held
  <2>3. held.mode # c.mode /\ register' = e
    BY <2>2 DEF Reenter, Outcome, Granted
  <2>4. \A h \in mine : h = held
    BY <1>0, <1>2, <2>1 DEF RegisterInv, NoConflict
  <2> QED BY <1>3, <2>3, <2>4 DEF StillBlocked
<1>4. CASE mine = {}
  <2>1. ~Compatible(e.locks[c.key], c.mode) /\ register' = e
    BY <1>1, <1>4 DEF Outcome, Grant, Granted
  <2> QED BY <1>4, <2>1 DEF StillBlocked
<1> QED BY <1>3, <1>4

LEMMA StepWaits == IInv /\ WaitInv /\ [Next]_vars => WaitInv'
<1> SUFFICES ASSUME IInv, WaitInv, [Next]_vars, NEW u \in Threads PROVE WaitsWell(u)'
  BY DEF WaitInv
<1>0. TypeOK /\ call \in [Threads -> Acquiring \cup {Idle}]
  BY DEF IInv, TypeOK
<1>1. ASSUME register' = register, call'[u] = call[u] PROVE WaitsWell(u)'
  BY <1>1 DEF WaitInv, WaitsWell, StillBlocked
<1>2. ASSUME call'[u] = Idle PROVE WaitsWell(u)'
  BY <1>2 DEF WaitsWell, Idle
<1>3. ASSUME call'[u].pc = "trying", call'[u].notified = FALSE PROVE WaitsWell(u)'
  BY <1>3 DEF WaitsWell
<1>4. ASSUME NEW w, Answered(w) PROVE WaitsWell(u)'
  <2>1. CASE Served(w)
    BY <1>0, <2>1, OtherPublishes DEF Served, Publish
  <2>2. CASE Failed(w)
    BY <1>1, <2>2 DEF Failed, PublishFails
  <2> QED BY <1>4, <2>1, <2>2 DEF Answered
<1>5. ASSUME NEW t \in Threads, NEW o \in Owners, NEW k \in Keys, NEW m \in Modes,
             NEW lease \in Leases, NEW wait \in Waits, StartAcquire(t, o, k, m, lease, wait)
      PROVE  WaitsWell(u)'
  <2>1. CASE u = t
    <3>1. call'[u].pc = "trying" /\ call'[u].notified = FALSE
      BY <1>0, <1>5, <2>1 DEF StartAcquire
    <3> QED BY <1>3, <3>1
  <2>2. CASE u # t
    BY <1>0, <1>1, <1>5, <2>2 DEF StartAcquire
  <2> QED BY <2>1, <2>2
<1>6. ASSUME NEW t \in Threads, AcquireReturns(t) PROVE WaitsWell(u)'
  <2>1. PICK r : register' = r /\ call' = [NotifyAll(r) EXCEPT ![t] = Idle]
    BY <1>6 DEF AcquireReturns, Publish
  <2>2. CASE u = t
    BY <1>2, <2>1, <2>2 DEF NotifyAll
  <2>3. CASE u # t
    <3>1. call'[u] = NotifyAll(r)[u]
      BY <2>1, <2>3 DEF NotifyAll
    <3> QED BY <1>0, <2>1, <3>1, OtherPublishes
  <2> QED BY <2>2, <2>3
<1>7. ASSUME NEW t \in Threads, AcquireSleeps(t) PROVE WaitsWell(u)'
  <2>1. /\ call[t].pc = "trying" /\ Attempt(t).out = "locked" /\ register' = Attempt(t).reg
        /\ \E wake : call' = [NotifyAll(Attempt(t).reg) EXCEPT ![t] = Asleep(@, wake)]
    BY <1>7 DEF AcquireSleeps, Publish
  <2>2. PICK wake : call' = [NotifyAll(Attempt(t).reg) EXCEPT ![t] = Asleep(@, wake)]
    BY <2>1
  <2>3. CASE u = t
    <3>1. call'[t] = Asleep(call[t], wake)
      BY <2>1, <2>2 DEF NotifyAll
    <3>2. PICK c : c = Asleep(call[t], wake)
      OBVIOUS
    <3>3. call[t] \in Acquiring
      BY <1>0, <2>1, AcquiringFields
    <3>4. c.key = call[t].key /\ c.owner = call[t].owner /\ c.mode = call[t].mode /\ c.pc = "sleeping"
      BY <3>2, <3>3 DEF Asleep, Acquiring
    <3>5. StillBlocked(c)'
      BY <2>1, <3>4, SleeperBlocked
    <3> QED BY <2>3, <3>1, <3>2, <3>4, <3>5 DEF WaitsWell, StillBlocked
  <2>4. CASE u # t
    <3>1. call'[u] = NotifyAll(Attempt(t).reg)[u]
      BY <2>2, <2>4 DEF NotifyAll
    <3> QED BY <1>0, <2>1, <3>1, OtherPublishes
  <2> QED BY <2>3, <2>4
<1>8. ASSUME NEW t \in Threads, AcquireFails(t) PROVE WaitsWell(u)'
  <2>1. register' = register /\ call' = [call EXCEPT ![t] = Idle]
    BY <1>8 DEF AcquireFails, PublishFails
  <2> QED BY <1>0, <1>1, <1>2, <2>1
<1>9. ASSUME NEW t \in Threads, Wake(t) \/ SpuriousWake(t) PROVE WaitsWell(u)'
  <2>1. /\ call[t].pc = "sleeping" /\ register' = register
        /\ call' = [call EXCEPT ![t] = Retrying(@)]
    BY <1>9 DEF Wake, SpuriousWake
  <2>2. call[t] \in Acquiring
    BY <1>0, <2>1, AcquiringFields
  <2>3. CASE u = t
    <3>1. call'[u].pc = "trying" /\ call'[u].notified = FALSE
      BY <1>0, <2>1, <2>2, <2>3 DEF Retrying, Acquiring
    <3> QED BY <1>3, <3>1
  <2>4. CASE u # t
    BY <1>0, <1>1, <2>1, <2>4
  <2> QED BY <2>3, <2>4
<1>10. ASSUME NEW tok \in tokens, NEW lease \in Leases, RefreshCall(tok, lease) PROVE WaitsWell(u)'
  BY <1>4, <1>10 DEF RefreshCall
<1>11. ASSUME NEW tok \in tokens, ReleaseCall(tok) PROVE WaitsWell(u)'
  BY <1>4, <1>11 DEF ReleaseCall
<1>12. ASSUME NEW k \in Keys, BreakKeyCall(k) PROVE WaitsWell(u)'
  BY <1>4, <1>12 DEF BreakKeyCall
<1>13. ASSUME NEW o \in Owners, CloseOwnerCall(o) PROVE WaitsWell(u)'
  BY <1>4, <1>13 DEF CloseOwnerCall
<1>14. ASSUME NEW tok \in tokens, ApplyFencedWriteCall(tok) PROVE WaitsWell(u)'
  <2>1. PICK w : Served(w) \/ Failed(w)
    BY <1>14 DEF ApplyFencedWriteCall
  <2>2. CASE Served(w)
    BY <1>0, <2>2, OtherPublishes DEF Served, Publish
  <2>3. CASE Failed(w)
    BY <1>1, <2>3 DEF Failed, PublishFails
  <2> QED BY <2>1, <2>2, <2>3
<1>15. CASE Tick
  BY <1>1, <1>15 DEF Tick
<1>16. CASE Restart
  BY <1>2, <1>16 DEF Restart
<1>17. CASE UNCHANGED vars
  BY <1>1, <1>17 DEF vars
<1> QED BY <1>5, <1>6, <1>7, <1>8, <1>9, <1>10, <1>11, <1>12, <1>13, <1>14, <1>15, <1>16, <1>17
        DEF Next

\* No call that unblocks a sleeping acquire forgets to notify it: a sleeper without a
\* notification is blocked by the holders recorded (publish_outcome, changed.notify_all).
THEOREM SleepersAreNotified == Spec => []NoMissedNotification
<1>1. Init => WaitInv
  BY DEF Init, WaitInv, WaitsWell, Idle
<1>2. WaitInv => NoMissedNotification
  BY DEF WaitInv, WaitsWell, NoMissedNotification
<1> QED BY <1>1, <1>2, StepWaits, Invariance, PTL DEF Spec

-----------------------------------------------------------------------------
(* Sums of permits: the fold of UsedPermits may take the holders in any order. *)

Picked(s) == CHOOSE x \in s : TRUE

Summed(D, it) ==
    [s \in D |-> IF s = {} THEN 0 ELSE Picked(s).mode.permits + it[s \ {Picked(s)}]]

IsSum(S, it) == it = Summed(SUBSET S, it)

LEMMA UsedPermitsFold == \A S : UsedPermits(S) = (CHOOSE it : IsSum(S, it))[S]
BY DEF UsedPermits, MapThenSumSet, MapThenFoldSet, IsSum, Summed, Picked

\* A fold over the subsets of a finite set exists.
LEMMA SumExists ==
    ASSUME NEW S, IsFiniteSet(S)
    PROVE  \E it : IsSum(S, it)
<1> DEFINE D(n) == {s \in SUBSET S : Cardinality(s) <= n}
           P(n) == \E it : it = Summed(D(n), it)
           N == {n \in Nat : P(n)}
<1>1. \A s \in SUBSET S : IsFiniteSet(s) /\ Cardinality(s) \in Nat /\ Cardinality(s) <= Cardinality(S)
  BY FS_Subset, FS_CardinalityType
<1>2. \A s \in SUBSET S : s # {} =>
          /\ Picked(s) \in s /\ s \ {Picked(s)} \in SUBSET S
          /\ Cardinality(s \ {Picked(s)}) = Cardinality(s) - 1
  BY <1>1, FS_RemoveElement DEF Picked
<1>3. 0 \in N
  <2> DEFINE it == [s \in D(0) |-> 0]
  <2>1. \A s \in D(0) : s = {}
    BY <1>1, FS_EmptySet
  <2>2. it = Summed(D(0), it)
    BY <2>1 DEF Summed
  <2> QED BY <2>2
<1>4. ASSUME NEW n \in Nat, n \in N PROVE n + 1 \in N
  <2>1. PICK f : f = Summed(D(n), f)
    BY <1>4
  <2> DEFINE g == Summed(D(n + 1), f)
  <2>2. \A s \in D(n) : s \in D(n + 1)
    BY <1>1
  <2>3. \A s \in D(n + 1) : s # {} => s \ {Picked(s)} \in D(n)
    BY <1>1, <1>2
  <2>4. \A s \in D(n) : f[s] = IF s = {} THEN 0 ELSE Picked(s).mode.permits + f[s \ {Picked(s)}]
    BY <2>1 DEF Summed
  <2>5. \A s \in D(n + 1) : g[s] = IF s = {} THEN 0 ELSE Picked(s).mode.permits + f[s \ {Picked(s)}]
    BY DEF Summed
  <2> HIDE DEF D
  <2>6. \A s \in D(n) : g[s] = f[s]
    BY <2>2, <2>4, <2>5
  <2>7. g = Summed(D(n + 1), f)
    OBVIOUS
  <2> HIDE DEF g
  <2>8. g = Summed(D(n + 1), g)
    BY <2>3, <2>6, <2>7 DEF Summed
  <2> QED BY <2>8
<1> HIDE DEF N
<1>5. Nat \subseteq N
  BY <1>3, <1>4, Induction
<1>6. Cardinality(S) \in N
  BY <1>5, FS_CardinalityType
<1>7. D(Cardinality(S)) = SUBSET S
  BY <1>1
<1> HIDE DEF D
<1> QED BY <1>6, <1>7 DEF N, IsSum

\* Folds over two sets agree on the subsets they share.
LEMMA SumUnique ==
    ASSUME NEW S, IsFiniteSet(S), NEW T \in SUBSET S, NEW f, NEW g, IsSum(S, f), IsSum(T, g)
    PROVE  \A s \in SUBSET T : f[s] = g[s]
<1> DEFINE P(n) == \A s \in SUBSET T : Cardinality(s) = n => f[s] = g[s]
           N == {n \in Nat : P(n)}
<1>1. \A s \in SUBSET T : s \in SUBSET S /\ IsFiniteSet(s) /\ Cardinality(s) \in Nat
  BY FS_Subset, FS_CardinalityType
<1>2. \A s \in SUBSET T : s # {} =>
          s \ {Picked(s)} \in SUBSET T /\ Cardinality(s \ {Picked(s)}) = Cardinality(s) - 1
  BY <1>1, FS_RemoveElement DEF Picked
<1>3. \A s \in SUBSET T :
          /\ f[s] = IF s = {} THEN 0 ELSE Picked(s).mode.permits + f[s \ {Picked(s)}]
          /\ g[s] = IF s = {} THEN 0 ELSE Picked(s).mode.permits + g[s \ {Picked(s)}]
  BY <1>1 DEF IsSum, Summed
<1>4. 0 \in N
  <2>1. \A s \in SUBSET T : Cardinality(s) = 0 => s = {}
    BY <1>1, FS_EmptySet
  <2> QED BY <1>3, <2>1
<1>5. ASSUME NEW n \in Nat, n \in N PROVE n + 1 \in N
  <2>1. ASSUME NEW s \in SUBSET T, Cardinality(s) = n + 1 PROVE f[s] = g[s]
    <3>1. CASE s = {}
      BY <1>3, <3>1
    <3>2. CASE s # {}
      <4>1. s \ {Picked(s)} \in SUBSET T /\ Cardinality(s \ {Picked(s)}) = n
        BY <1>2, <2>1, <3>2
      <4>2. f[s \ {Picked(s)}] = g[s \ {Picked(s)}]
        BY <1>5, <4>1
      <4> QED BY <1>3, <3>2, <4>2
    <3> QED BY <3>1, <3>2
  <2> QED BY <2>1
<1> HIDE DEF N
<1>6. Nat \subseteq N
  BY <1>4, <1>5, Induction
<1>7. \A n \in Nat : P(n)
  BY <1>6 DEF N
<1> QED BY <1>1, <1>7

LEMMA UsedPermitsPicked ==
    ASSUME NEW S, IsFiniteSet(S)
    PROVE  UsedPermits(S) = IF S = {} THEN 0 ELSE Picked(S).mode.permits + UsedPermits(S \ {Picked(S)})
<1> DEFINE T == S \ {Picked(S)}
           f == CHOOSE it : IsSum(S, it)
           g == CHOOSE it : IsSum(T, it)
<1>1. T \in SUBSET S /\ IsFiniteSet(T)
  BY FS_Subset
<1>2. IsSum(S, f) /\ IsSum(T, g)
  BY <1>1, SumExists
<1>3. UsedPermits(S) = f[S] /\ UsedPermits(T) = g[T]
  BY UsedPermitsFold
<1> HIDE DEF f, g
<1>4. f[S] = IF S = {} THEN 0 ELSE Picked(S).mode.permits + f[T]
  BY <1>2 DEF IsSum, Summed
<1>5. f[T] = g[T]
  BY <1>1, <1>2, SumUnique
<1> QED BY <1>3, <1>4, <1>5

LEMMA HolderPermits == \A h \in Holder : h.mode.permits \in Nat /\ h.mode.capacity \in Nat
BY ModesAssumption DEF Holder, LockMode

LEMMA OneFewer ==
    ASSUME NEW s \in SUBSET Holder, IsFiniteSet(s), NEW x \in s
    PROVE  /\ s \ {x} \in SUBSET Holder /\ IsFiniteSet(s \ {x})
           /\ \A n \in Nat : Cardinality(s) = n + 1 => Cardinality(s \ {x}) = n
<1>1. IsFiniteSet(s \ {x}) /\ Cardinality(s \ {x}) = Cardinality(s) - 1
  BY FS_RemoveElement
<1>2. s \ {x} \in SUBSET Holder
  OBVIOUS
<1>3. ASSUME NEW n \in Nat, Cardinality(s) = n + 1 PROVE Cardinality(s \ {x}) = n
  BY <1>1, <1>3
<1> QED BY <1>1, <1>2, <1>3

LEMMA UsedPermitsNat ==
    ASSUME NEW S \in SUBSET Holder, IsFiniteSet(S)
    PROVE  UsedPermits(S) \in Nat
<1> DEFINE P(n) == \A s \in SUBSET Holder :
                      IsFiniteSet(s) /\ Cardinality(s) = n => UsedPermits(s) \in Nat
           N == {n \in Nat : P(n)}
<1>1. 0 \in N
  <2>1. ASSUME NEW s, IsFiniteSet(s), Cardinality(s) = 0 PROVE UsedPermits(s) = 0
    BY <2>1, FS_EmptySet, UsedPermitsPicked
  <2> QED BY <2>1
<1>2. ASSUME NEW n \in Nat, n \in N PROVE n + 1 \in N
  <2>1. ASSUME NEW s \in SUBSET Holder, IsFiniteSet(s), Cardinality(s) = n + 1
        PROVE  UsedPermits(s) \in Nat
    <3>1. s # {}
      BY <2>1, FS_EmptySet
    <3>2. Picked(s) \in s
      BY <3>1 DEF Picked
    <3>3. s \ {Picked(s)} \in SUBSET Holder /\ IsFiniteSet(s \ {Picked(s)})
          /\ Cardinality(s \ {Picked(s)}) = n
      BY <2>1, <3>2, OneFewer
    <3>4. UsedPermits(s \ {Picked(s)}) \in Nat
      BY <1>2, <3>3
    <3>5. Picked(s).mode.permits \in Nat
      BY <3>2, HolderPermits
    <3> QED BY <2>1, <3>1, <3>4, <3>5, UsedPermitsPicked
  <2> QED BY <2>1
<1> HIDE DEF N
<1>3. Nat \subseteq N
  BY <1>1, <1>2, Induction
<1>4. P(Cardinality(S))
  BY <1>3, FS_CardinalityType DEF N
<1> QED BY <1>4

\* Whichever holder is taken first, the sum is the same.
LEMMA UsedPermitsRemove ==
    ASSUME NEW S \in SUBSET Holder, IsFiniteSet(S), NEW x \in S
    PROVE  UsedPermits(S) = x.mode.permits + UsedPermits(S \ {x})
<1> DEFINE P(n) == \A s \in SUBSET Holder : IsFiniteSet(s) /\ Cardinality(s) = n =>
                      \A y \in s : UsedPermits(s) = y.mode.permits + UsedPermits(s \ {y})
           N == {n \in Nat : P(n)}
<1>1. 0 \in N
  <2>1. ASSUME NEW s, IsFiniteSet(s), Cardinality(s) = 0 PROVE s = {}
    BY <2>1, FS_EmptySet
  <2> QED BY <2>1
<1>2. ASSUME NEW n \in Nat, n \in N PROVE n + 1 \in N
  <2>1. ASSUME NEW s \in SUBSET Holder, IsFiniteSet(s), Cardinality(s) = n + 1, NEW y \in s
        PROVE  UsedPermits(s) = y.mode.permits + UsedPermits(s \ {y})
    <3> DEFINE p == Picked(s)
    <3>1. p \in s /\ s # {}
      BY DEF Picked
    <3>2. UsedPermits(s) = p.mode.permits + UsedPermits(s \ {p})
      BY <2>1, <3>1, UsedPermitsPicked
    <3> HIDE DEF p
    <3>3. CASE p = y
      BY <3>2, <3>3
    <3>4. CASE p # y
      <4> DEFINE rest == (s \ {p}) \ {y}
      <4>1. /\ s \ {p} \in SUBSET Holder /\ IsFiniteSet(s \ {p}) /\ Cardinality(s \ {p}) = n
            /\ s \ {y} \in SUBSET Holder /\ IsFiniteSet(s \ {y}) /\ Cardinality(s \ {y}) = n
        BY <2>1, <3>1, OneFewer
      <4>2. y \in s \ {p} /\ p \in s \ {y} /\ (s \ {y}) \ {p} = rest
        BY <3>1, <3>4
      <4>3. UsedPermits(s \ {p}) = y.mode.permits + UsedPermits(rest)
        BY <1>2, <4>1, <4>2
      <4>4. UsedPermits(s \ {y}) = p.mode.permits + UsedPermits(rest)
        BY <1>2, <4>1, <4>2
      <4>5. rest \in SUBSET Holder /\ IsFiniteSet(rest)
        BY <4>1, FS_RemoveElement
      <4>6. UsedPermits(rest) \in Nat
        BY <4>5, UsedPermitsNat
      <4>7. p.mode.permits \in Nat /\ y.mode.permits \in Nat
        BY <3>1, HolderPermits
      <4> QED BY <3>2, <4>3, <4>4, <4>6, <4>7
    <3> QED BY <3>3, <3>4
  <2> QED BY <2>1
<1> HIDE DEF N
<1>3. Nat \subseteq N
  BY <1>1, <1>2, Induction
<1>4. P(Cardinality(S))
  BY <1>3, FS_CardinalityType DEF N
<1> QED BY <1>4

\* Every holder of S has the owner and the mode of a holder of T; the owners in S differ.
Within(S, T) ==
    /\ \A g, h \in S : g.owner = h.owner => g = h
    /\ \A h \in S : \E g \in T : g.owner = h.owner /\ g.mode = h.mode

LEMMA WithinFinite ==
    ASSUME NEW S, NEW T, Within(S, T), IsFiniteSet(T)
    PROVE  IsFiniteSet(S)
<1> DEFINE f == [h \in S |-> CHOOSE g \in T : g.owner = h.owner]
<1>1. \A h \in S : f[h] \in T /\ f[h].owner = h.owner
  BY DEF Within
<1>2. f \in [S -> T]
  BY <1>1
<1>3. ASSUME NEW a \in S, NEW b \in S, f[a] = f[b] PROVE a = b
  BY <1>1, <1>3 DEF Within
<1> HIDE DEF f
<1>4. f \in Injection(S, T)
  BY <1>2, <1>3 DEF Injection, IsInjective
<1> QED BY <1>4, FS_Injection

LEMMA WithinPermits ==
    ASSUME NEW S \in SUBSET Holder, NEW T \in SUBSET Holder, Within(S, T), IsFiniteSet(T)
    PROVE  UsedPermits(S) <= UsedPermits(T)
<1> DEFINE P(n) == \A s, t \in SUBSET Holder :
                      IsFiniteSet(t) /\ IsFiniteSet(s) /\ Cardinality(s) = n /\ Within(s, t) =>
                          UsedPermits(s) <= UsedPermits(t)
           N == {n \in Nat : P(n)}
<1>1. 0 \in N
  <2>1. ASSUME NEW s, IsFiniteSet(s), Cardinality(s) = 0 PROVE UsedPermits(s) = 0
    BY <2>1, FS_EmptySet, UsedPermitsPicked
  <2>2. ASSUME NEW t \in SUBSET Holder, IsFiniteSet(t) PROVE 0 <= UsedPermits(t)
    BY <2>2, UsedPermitsNat
  <2> QED BY <2>1, <2>2
<1>2. ASSUME NEW n \in Nat, n \in N PROVE n + 1 \in N
  <2>1. ASSUME NEW s \in SUBSET Holder, NEW t \in SUBSET Holder, IsFiniteSet(t), IsFiniteSet(s),
               Cardinality(s) = n + 1, Within(s, t)
        PROVE  UsedPermits(s) <= UsedPermits(t)
    <3>1. PICK x \in s : TRUE
      <4>1. n + 1 # 0
        OBVIOUS
      <4> QED BY <2>1, <4>1, FS_EmptySet
    <3>2. PICK g \in t : g.owner = x.owner /\ g.mode = x.mode
      BY <2>1 DEF Within
    <3>3. Within(s \ {x}, t \ {g})
      BY <2>1, <3>2 DEF Within
    <3>4. /\ s \ {x} \in SUBSET Holder /\ IsFiniteSet(s \ {x}) /\ Cardinality(s \ {x}) = n
          /\ t \ {g} \in SUBSET Holder /\ IsFiniteSet(t \ {g})
      BY <2>1, OneFewer
    <3>5. UsedPermits(s \ {x}) <= UsedPermits(t \ {g})
      BY <1>2, <3>3, <3>4
    <3>6. UsedPermits(s) = x.mode.permits + UsedPermits(s \ {x})
      BY <2>1, UsedPermitsRemove
    <3>7. UsedPermits(t) = x.mode.permits + UsedPermits(t \ {g})
      BY <2>1, <3>2, UsedPermitsRemove
    <3>8. UsedPermits(s \ {x}) \in Nat /\ UsedPermits(t \ {g}) \in Nat /\ x.mode.permits \in Nat
      BY <3>4, UsedPermitsNat, HolderPermits
    <3> QED BY <3>5, <3>6, <3>7, <3>8
  <2> QED BY <2>1
<1> HIDE DEF N
<1>3. Nat \subseteq N
  BY <1>1, <1>2, Induction
<1>4. IsFiniteSet(S)
  BY WithinFinite
<1>5. P(Cardinality(S))
  BY <1>3, <1>4, FS_CardinalityType DEF N
<1> QED BY <1>4, <1>5

\* Finitely many holders, agreed on the capacity and within it.
PermitsInv(r) ==
    \A k \in Keys :
        /\ IsFiniteSet(r.locks[k])
        /\ \A h \in r.locks[k] : h.mode.kind = "semaphore" =>
              /\ \A g \in r.locks[k] : g.mode.capacity = h.mode.capacity
              /\ UsedPermits(r.locks[k]) <= h.mode.capacity

LEMMA WeakensPermits ==
    ASSUME NEW r, RegisterInv(r), PermitsInv(r), NEW s, RegisterInv(s), Weakens(r, s)
    PROVE  PermitsInv(s)
<1> SUFFICES ASSUME NEW k \in Keys
             PROVE  /\ IsFiniteSet(s.locks[k])
                    /\ \A h \in s.locks[k] : h.mode.kind = "semaphore" =>
                          /\ \A g \in s.locks[k] : g.mode.capacity = h.mode.capacity
                          /\ UsedPermits(s.locks[k]) <= h.mode.capacity
  BY DEF PermitsInv
<1> DEFINE S == s.locks[k]
           T == r.locks[k]
<1>1. S \in SUBSET Holder /\ T \in SUBSET Holder /\ IsFiniteSet(T)
  BY DEF RegisterInv, Register, PermitsInv
<1>2. \A h \in S : \E g \in T : g.owner = h.owner /\ g.mode = h.mode
  BY DEF Weakens
<1>3. Within(S, T)
  BY <1>2 DEF Within, RegisterInv, NoConflict
<1>4. \A h \in T : h.mode.kind = "semaphore" =>
          (\A g \in T : g.mode.capacity = h.mode.capacity) /\ UsedPermits(T) <= h.mode.capacity
  BY DEF PermitsInv
<1> HIDE DEF S, T
<1>5. IsFiniteSet(S)
  BY <1>1, <1>3, WithinFinite
<1>6. UsedPermits(S) <= UsedPermits(T) /\ UsedPermits(S) \in Nat /\ UsedPermits(T) \in Nat
  BY <1>1, <1>3, <1>5, WithinPermits, UsedPermitsNat
<1>7. ASSUME NEW h \in S, h.mode.kind = "semaphore"
      PROVE  (\A g \in S : g.mode.capacity = h.mode.capacity) /\ UsedPermits(S) <= h.mode.capacity
  <2>1. PICK x \in T : x.mode = h.mode
    BY <1>2
  <2>2. UsedPermits(T) <= h.mode.capacity /\ \A g \in T : g.mode.capacity = h.mode.capacity
    BY <1>4, <1>7, <2>1
  <2>3. h.mode.capacity \in Nat
    BY <1>1, HolderPermits
  <2>4. \A g \in S : g.mode.capacity = h.mode.capacity
    BY <1>2, <2>2
  <2> QED BY <1>6, <2>2, <2>3, <2>4
<1> QED BY <1>5, <1>7 DEF S

LEMMA GrantPermits ==
    ASSUME NEW r, RegisterInv(r), PermitsInv(r), NEW k \in Keys, NEW o \in Owners, NEW m \in Modes,
           NEW d \in 0..TimeMax, Compatible(r.locks[k], m), \A h \in r.locks[k] : h.owner # o
    PROVE  PermitsInv(Grant(r, k, o, m, d).reg)
<1> DEFINE f == IssueFence(r, k)
           fresh == [owner |-> o, mode |-> m, fence |-> f, deadline |-> d, reentrancy |-> 1]
           H == r.locks[k]
           S == H \cup {fresh}
           s == Grant(r, k, o, m, d).reg
<1>1. r.locks \in [Keys -> SUBSET Holder] /\ r.next[k] \in 0..FenceMax
  BY DEF RegisterInv, Register
<1>2. s.locks = [r.locks EXCEPT ![k] = S]
  BY DEF Grant, Granted
<1>3. fresh \in Holder /\ fresh.mode = m /\ fresh \notin H
  <2>1. f \in 1..FenceMax
    BY <1>1, BoundsAssumption DEF IssueFence
  <2> HIDE DEF f
  <2> QED BY <2>1, BoundsAssumption DEF Holder
<1>4. s.locks[k] = S /\ \A j \in Keys : j # k => s.locks[j] = r.locks[j]
  BY <1>1, <1>2
<1>5. IsFiniteSet(H) /\ H \in SUBSET Holder /\ Compatible(H, m)
  BY <1>1 DEF PermitsInv
<1> HIDE DEF fresh, H, s
<1>6. IsFiniteSet(S) /\ S \in SUBSET Holder /\ S \ {fresh} = H /\ fresh \in S
  BY <1>3, <1>5, FS_AddElement
<1>7. UsedPermits(S) = m.permits + UsedPermits(H)
  BY <1>3, <1>6, UsedPermitsRemove
<1>8. UsedPermits(H) \in Nat /\ m.permits \in Nat /\ m.capacity \in Nat
  BY <1>3, <1>5, UsedPermitsNat, HolderPermits
<1>9. ASSUME NEW h \in S, h.mode.kind = "semaphore"
      PROVE  (\A g \in S : g.mode.capacity = h.mode.capacity) /\ UsedPermits(S) <= h.mode.capacity
  <2>1. CASE m.kind = "semaphore"
    <3>1. (\A g \in H : g.mode.capacity = m.capacity) /\ UsedPermits(H) + m.permits <= m.capacity
      BY <1>5, <2>1 DEF Compatible
    <3>2. \A g \in S : g.mode.capacity = m.capacity
      BY <1>3, <3>1
    <3> QED BY <1>7, <1>8, <3>1, <3>2
  <2>2. CASE m.kind # "semaphore"
    <3>1. h \in H
      BY <1>3, <1>9, <2>2
    <3>2. h.mode = Shared
      BY <1>5, <2>2, <3>1 DEF Compatible
    <3> QED BY <1>9, <3>2 DEF Shared
  <2> QED BY <2>1, <2>2
<1> HIDE DEF S
<1>10. PermitsInv(s)
  <2> SUFFICES ASSUME NEW j \in Keys
               PROVE  /\ IsFiniteSet(s.locks[j])
                      /\ \A h \in s.locks[j] : h.mode.kind = "semaphore" =>
                            /\ \A g \in s.locks[j] : g.mode.capacity = h.mode.capacity
                            /\ UsedPermits(s.locks[j]) <= h.mode.capacity
    BY DEF PermitsInv
  <2>1. CASE j = k
    BY <1>4, <1>6, <1>9, <2>1
  <2>2. CASE j # k
    BY <1>4, <2>2 DEF PermitsInv
  <2> QED BY <2>1, <2>2
<1> QED BY <1>10 DEF s

LEMMA TryAcquirePermits ==
    ASSUME NEW r, RegisterInv(r), PermitsInv(r), NEW k \in Keys, NEW o \in Owners, NEW m \in Modes,
           NEW lease \in Nat, NEW t \in Nat
    PROVE  PermitsInv(TryAcquire(r, k, o, m, lease, t).reg)
<1> DEFINE w == TryAcquire(r, k, o, m, lease, t)
           e == ExpireKey(r, k, t)
           mine == {h \in e.locks[k] : h.owner = o}
           held == CHOOSE h \in mine : TRUE
<1>1. RegisterInv(e) /\ Weakens(r, e)
  BY ExpireKeyPreserves
<1>2. PermitsInv(e)
  BY <1>1, WeakensPermits
<1>3. w = IF t + lease > TimeMax THEN Outcome(e, "invalid")
          ELSE IF mine # {} THEN Reenter(e, k, held, m, t + lease)
          ELSE IF Compatible(e.locks[k], m) THEN Grant(e, k, o, m, t + lease)
          ELSE Outcome(e, "locked")
  BY DEF TryAcquire
<1> HIDE DEF w, e
<1>4. CASE w = Outcome(e, "invalid") \/ w = Outcome(e, "locked")
  BY <1>2, <1>4 DEF Outcome, w
<1>5. CASE ~(t + lease > TimeMax) /\ mine # {}
  <2>1. t + lease \in 0..TimeMax /\ held \in e.locks[k] /\ w = Reenter(e, k, held, m, t + lease)
    BY <1>3, <1>5, BoundsAssumption
  <2> HIDE DEF held
  <2>2. RegisterInv(w.reg) /\ Weakens(e, w.reg)
    BY <1>1, <2>1, ReenterPreserves
  <2> QED BY <1>1, <1>2, <2>2, WeakensPermits DEF w
<1>6. CASE ~(t + lease > TimeMax) /\ mine = {} /\ Compatible(e.locks[k], m)
  <2>1. t + lease \in 0..TimeMax /\ \A h \in e.locks[k] : h.owner # o
    BY <1>6, BoundsAssumption
  <2>2. w = Grant(e, k, o, m, t + lease)
    BY <1>3, <1>6
  <2>3. PermitsInv(Grant(e, k, o, m, t + lease).reg)
    BY <1>1, <1>2, <1>6, <2>1, GrantPermits
  <2> QED BY <2>2, <2>3 DEF w
<1> QED BY <1>3, <1>4, <1>5, <1>6

LEMMA AttemptPermits ==
    ASSUME IInv, PermitsInv(register), NEW t \in Threads, call[t].pc = "trying"
    PROVE  PermitsInv(Attempt(t).reg)
<1>1. /\ call[t].key \in Keys /\ call[t].owner \in Owners /\ call[t].mode \in Modes
      /\ call[t].lease \in Nat /\ now \in Nat /\ RegisterInv(register)
  BY AcquiringFields DEF IInv, TypeOK
<1> QED BY <1>1, TryAcquirePermits DEF Attempt

\* A step publishes a register within its permits, or keeps the one it had.
LEMMA StepPermits ==
    ASSUME IInv, PermitsInv(register), [Next]_vars
    PROVE  PermitsInv(register)'
<1> SUFFICES \E r : PermitsInv(r) /\ register' = r
  <2>1. PICK r : PermitsInv(r) /\ register' = r
    OBVIOUS
  <2> QED BY <2>1 DEF PermitsInv
<1>0. TypeOK /\ now \in Nat /\ RegisterInv(register) /\ PermitsInv(register)
  BY DEF IInv, TypeOK
<1>a. ASSUME NEW w, RegisterInv(w.reg), Weakens(register, w.reg), Answered(w)
      PROVE  \E r : PermitsInv(r) /\ register' = r
  <2>1. PermitsInv(w.reg)
    BY <1>0, <1>a, WeakensPermits
  <2> QED BY <1>0, <1>a, <2>1 DEF Answered, Served, Failed, Publish, PublishFails
<1>1. CASE register' = register
  BY <1>0, <1>1
<1>2. ASSUME NEW t \in Threads, AcquireReturns(t) \/ AcquireSleeps(t)
      PROVE  \E r : PermitsInv(r) /\ register' = r
  <2>1. call[t].pc = "trying" /\ register' = Attempt(t).reg
    BY <1>2 DEF AcquireReturns, AcquireSleeps, Publish
  <2> QED BY <1>0, <2>1, AttemptPermits
<1>3. ASSUME NEW tok \in tokens, NEW lease \in Leases, RefreshCall(tok, lease)
      PROVE  \E r : PermitsInv(r) /\ register' = r
  <2>1. tok \in Token /\ lease \in Nat
    BY AuthorityAssumption DEF IInv, TypeOK
  <2> QED BY <1>0, <1>3, <1>a, <2>1, RefreshPreserves DEF RefreshCall
<1>4. ASSUME NEW tok \in tokens, ReleaseCall(tok) PROVE \E r : PermitsInv(r) /\ register' = r
  <2>1. tok \in Token
    BY DEF IInv, TypeOK
  <2> QED BY <1>0, <1>4, <1>a, <2>1, ReleasePreserves DEF ReleaseCall
<1>5. ASSUME NEW k \in Keys, BreakKeyCall(k) PROVE \E r : PermitsInv(r) /\ register' = r
  BY <1>0, <1>5, <1>a, BreakKeyPreserves DEF BreakKeyCall
<1>6. ASSUME NEW o \in Owners, CloseOwnerCall(o) PROVE \E r : PermitsInv(r) /\ register' = r
  BY <1>0, <1>6, <1>a, ReleaseOwnerPreserves DEF CloseOwnerCall
<1>7. ASSUME NEW tok \in tokens, ApplyFencedWriteCall(tok)
      PROVE  \E r : PermitsInv(r) /\ register' = r
  <2> DEFINE w == ApplyFencedWrite(register, tok, now)
  <2>1. tok \in Token
    BY DEF IInv, TypeOK
  <2>2. RegisterInv(w.reg) /\ (Weakens(register, w.reg) \/ w.reg.locks = register.locks)
    BY <1>0, <2>1, ApplyFencedWritePreserves
  <2>3. register' = w.reg \/ register' = register
    BY <1>7 DEF ApplyFencedWriteCall, Served, Failed, Publish, PublishFails
  <2> HIDE DEF w
  <2>4. PermitsInv(w.reg)
    <3>1. CASE Weakens(register, w.reg)
      BY <1>0, <2>2, <3>1, WeakensPermits
    <3>2. CASE w.reg.locks = register.locks
      BY <1>0, <3>2 DEF PermitsInv
    <3> QED BY <2>2, <3>1, <3>2
  <2> QED BY <1>0, <2>3, <2>4
<1>8. ASSUME Restart PROVE \E r : PermitsInv(r) /\ register' = r
  <2> DEFINE r == RestoreFences(durable.next, durable.applied)
  <2>1. \A k \in Keys : r.locks[k] = {}
    BY DEF RestoreFences
  <2>2. register' = r
    BY <1>8 DEF Restart
  <2> HIDE DEF r
  <2>3. PermitsInv(r)
    BY <2>1, FS_EmptySet DEF PermitsInv
  <2> QED BY <2>2, <2>3
<1>9. \/ register' = register
      \/ \E t \in Threads : AcquireReturns(t) \/ AcquireSleeps(t)
      \/ \E tok \in tokens, lease \in Leases : RefreshCall(tok, lease)
      \/ \E tok \in tokens : ReleaseCall(tok)
      \/ \E k \in Keys : BreakKeyCall(k)
      \/ \E o \in Owners : CloseOwnerCall(o)
      \/ \E tok \in tokens : ApplyFencedWriteCall(tok)
      \/ Restart
  BY DEF Next, vars, StartAcquire, AcquireFails, PublishFails, Wake, SpuriousWake, Tick
<1> QED BY <1>1, <1>2, <1>3, <1>4, <1>5, <1>6, <1>7, <1>8, <1>9

\* The holders of a semaphore agree on its capacity and together never hold more
\* permits than it has, for any number of sessions (LockCoordinator::compatible).
THEOREM SemaphoreNeverOversubscribed == Spec => []SemaphoreWithinCapacity
<1>1. Init => PermitsInv(register)
  BY FS_EmptySet DEF Init, EmptyRegister, PermitsInv
<1>2. IInv /\ PermitsInv(register) /\ [Next]_vars => PermitsInv(register)'
  BY StepPermits
<1>3. PermitsInv(register) => SemaphoreWithinCapacity
  BY DEF PermitsInv, SemaphoreWithinCapacity
<1> QED BY <1>1, <1>2, <1>3, Invariance, PTL DEF Spec
==============================================================================
