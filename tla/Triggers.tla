------------------------------- MODULE Triggers -------------------------------
(* Triggers on branch changes and on schedules: the bindings and fire records    *)
(* (loom-core triggers.rs), the watch feed change bindings poll (watch.rs), the   *)
(* evaluation of schedules (loom-triggers) and the execution of a fire            *)
(* (loom-compute trigger_exec.rs), driven by the one keeper of an opened Loom.    *)
(*                                                                               *)
(* Every call works on the engine alone (it borrows the Loom) and its result is   *)
(* saved before the next, so a call is one step; what the host keeps between calls *)
(* (the rest of a plan, queued candidates) is lost when its process dies.         *)
(*                                                                               *)
(* A commit is a number and whether the watch selects it; a schedule is a set of  *)
(* instants; a stimulus is the number of a commit or an instant.  Authorization    *)
(* is left out.                                                                   *)
EXTENDS Integers, Sequences, FiniteSets, FiniteSetsExt

CONSTANTS
    Bindings,    \* trigger ids, numbers: the keeper goes through them in order
    Branches,
    Watch,       \* TriggerKind: the branch a change binding watches, or Clock
    Clock,
    Schedule,    \* the instants of a time binding
    Target,      \* TriggerBinding::branch, the branch a fire runs on
    Direct,      \* bindings that commit to their target (the others propose on a fork)
    CatchUp,     \* bindings with TriggerOptions::catch_up
    Backfill,    \* bindings with MissedFirePolicy::Backfill (the others Skip or Collapse)
    Skipping,    \* bindings with OverlapPolicy::SkipIfRunning
    Queueing,    \* bindings with OverlapPolicy::Queue (the others Allow)
    MaxFires,    \* max_fires of trigger_keeper_due
    MaxCommits,  \* bound: commits
    MaxTime,     \* bound: instants
    MaxEdits,    \* bound: edits of bindings, seeds and host crashes
    MaxRewrites  \* bound: branches rewritten

ASSUME BindingsAssumption == Bindings \subseteq Nat \ {0} /\ IsFiniteSet(Bindings)
ASSUME WatchAssumption == Watch \in [Bindings -> Branches \cup {Clock}] /\ Clock \notin Branches
ASSUME ScheduleAssumption == Schedule \in [Bindings -> SUBSET (Nat \ {0})]
ASSUME TargetAssumption == Target \in [Bindings -> Branches]
ASSUME OverlapAssumption == Skipping \cap Queueing = {}
ASSUME FiresAssumption == MaxFires \in Nat \ {0}

Timed == {b \in Bindings : Watch[b] = Clock}
Changed == Bindings \ Timed

VARIABLES
    log,       \* the first-parent history of each branch, oldest commit first
    now,       \* the instant the host passes to the keeper
    status,    \* each binding: absent, disabled or enabled
    history,   \* the fire records of each binding
    plan,      \* candidates the keeper returned and the host has not fired
    queued,    \* candidates a fire returned to the host
    commits, edits, rewrites,  \* counters for the bounds
    executed,  \* history: the fires that ran to success
    repeated   \* history: those that did so again

vars == <<log, now, status, history, plan, queued, commits, edits, rewrites, executed, repeated>>

Init ==
    /\ log = [r \in Branches |-> <<>>] /\ now = 0
    /\ status = [b \in Bindings |-> "absent"]
    /\ history = [b \in Bindings |-> {}]
    /\ plan = {} /\ queued = {}
    /\ commits = 0 /\ edits = 0 /\ rewrites = 0
    /\ executed = {} /\ repeated = {}

(* ---- the fire log ---- *)

Seqs(b) == {f.seq : f \in history[b]}

\* The sequence after the last one recorded.
NextSeq(b) == Max({-1} \cup Seqs(b)) + 1

Recorded(b) == {f.stim : f \in history[b]}

FaultyLatest(b) == CHOOSE f \in history[b] : f.seq = Min(Seqs(b))

\* The record of the highest sequence: the watermark.
Latest(b) == CHOOSE f \in history[b] : f.seq = Max(Seqs(b))

(* ---- due fires ---- *)

\* Where a commit is on the branch a binding watches (nowhere, once a rewrite has dropped it).
Position(b, stim) == {i \in DOMAIN log[Watch[b]] : log[Watch[b]][i].id = stim}

\* change_trigger_cursor: after the last commit fired; before the first commit or, without
\* catch_up, after the tip when none was.
Cursor(b) ==
    IF history[b] # {} THEN Max(Position(b, Latest(b).stim))
    ELSE IF b \in CatchUp THEN 0 ELSE Len(log[Watch[b]])

\* watch_poll fails: the commit of the cursor is not on the branch.
Gap(b) == b \in Changed /\ history[b] # {} /\ Position(b, Latest(b).stim) = {}

FaultyOldest(S, n) == {s \in S : Cardinality({u \in S : u > s}) < n}

\* The oldest stimuli first, as many as there is room for.
Oldest(S, n) == {s \in S : Cardinality({u \in S : u < s}) < n}

\* watch_poll: the selected commits after the cursor, on the first-parent history.
Poll(b, room) ==
    LET branch == log[Watch[b]]
    IN  Oldest({branch[i].id : i \in {j \in DOMAIN branch : j > Cursor(b) /\ branch[j].hit}}, room)

\* evaluate_time_trigger: the instants after the last one fired, or after now when none was.
Instants(b, room) ==
    LET from == IF history[b] = {} THEN now ELSE Latest(b).stim
        due == Oldest({t \in Schedule[b] : from < t /\ t <= now}, room)
    IN  IF b \in CatchUp \cap Backfill THEN due ELSE {t \in due : \A u \in due : u <= t}

DueFor(b, room) == IF b \in Timed THEN Instants(b, room) ELSE Poll(b, room)

\* A candidate for each new stimulus, with the sequences after the last one recorded.
FaultyNumbered(b, new) ==
    {[binding |-> b, stim |-> s, seq |-> NextSeq(b) + Cardinality({u \in new : u > s})] : s \in new}

Numbered(b, new) ==
    {[binding |-> b, stim |-> s, seq |-> NextSeq(b) + Cardinality({u \in new : u < s})] : s \in new}

\* The candidates of one binding, less the stimuli its log has.
Candidates(b, room) == Numbered(b, DueFor(b, room) \ Recorded(b))

\* trigger_keeper_due, for the bindings up to b in the order of their ids: a poll that fails
\* fails the call.
UpTo[b \in 0 .. Max({0} \cup Bindings)] ==
    IF b = 0 THEN [fires |-> {}, failed |-> FALSE]
    ELSE LET found == UpTo[b - 1] IN
         IF \/ b \notin Bindings \/ status[b] # "enabled"
            \/ found.failed \/ Cardinality(found.fires) = MaxFires THEN found
         ELSE IF Gap(b) THEN [found EXCEPT !.failed = TRUE]
         ELSE [found EXCEPT !.fires = @ \cup Candidates(b, MaxFires - Cardinality(@))]

Due == UpTo[Max({0} \cup Bindings)]

\* The host asks for the next plan once it is through with the last one.
Plan ==
    /\ plan = {}
    /\ LET due == Due IN ~due.failed /\ due.fires # {} /\ plan' = due.fires
    /\ UNCHANGED <<log, now, status, history, queued, commits, edits, rewrites, executed, repeated>>

(* ---- fires ---- *)

\* trigger_append_fire_record: an existing sequence fails the call.
Record(c, outcome) ==
    history' = [history EXCEPT ![c.binding] =
        IF c.seq \in Seqs(c.binding) THEN @
        ELSE @ \cup {[seq |-> c.seq, stim |-> c.stim, outcome |-> outcome]}]

\* The target must have a commit; a proposal needs a fork of that name not to exist.
Runs(c) ==
    /\ log[Target[c.binding]] # <<>>
    /\ c.binding \in Direct \/ c.seq \notin Seqs(c.binding)

\* execute_trigger_candidate, and the record of its outcome: applied or proposed, or
\* denied, out of budget, failed.
Execute(c) ==
    \/ /\ Runs(c)
       /\ IF c.binding \in Direct
          THEN /\ commits < MaxCommits /\ commits' = commits + 1
               /\ \E hit \in BOOLEAN :
                    log' = [log EXCEPT ![Target[c.binding]] =
                                Append(@, [id |-> commits + 1, hit |-> hit])]
          ELSE UNCHANGED <<log, commits>>
       /\ executed' = executed \cup {<<c.binding, c.stim>>}
       /\ repeated' = repeated \cup ({<<c.binding, c.stim>>} \cap executed)
       /\ Record(c, "done")
    \/ /\ Record(c, "failed")
       /\ UNCHANGED <<log, commits, executed, repeated>>

\* The host goes through its plan in the order of the list: by binding, then by sequence.
First(c) ==
    /\ c \in plan
    /\ \A d \in plan : c.binding < d.binding \/ (c.binding = d.binding /\ c.seq <= d.seq)

FaultyFire ==
    \E c \in plan :
        /\ First(c) /\ plan' \in {plan, plan \ {c}}
        /\ Execute(c)
        /\ UNCHANGED <<now, status, queued, edits, rewrites>>

\* fire_trigger_candidate: the binding is not running, or may overlap.
Fire ==
    \E c \in plan :
        /\ First(c) /\ plan' = plan \ {c}
        /\ Execute(c)
        /\ UNCHANGED <<now, status, queued, edits, rewrites>>

\* fire_trigger_candidate_with_state: the host says that the binding is running.
FireSkips ==
    \E c \in plan :
        /\ First(c) /\ c.binding \in Skipping
        /\ plan' = plan \ {c}
        /\ Record(c, "skipped")
        /\ UNCHANGED <<log, now, status, queued, commits, edits, rewrites, executed, repeated>>

FireQueues ==
    \E c \in plan :
        /\ First(c) /\ c.binding \in Queueing
        /\ plan' = plan \ {c}
        /\ queued' = queued \cup {c}
        /\ UNCHANGED <<log, now, status, history, commits, edits, rewrites, executed, repeated>>

\* The host fires a candidate it had queued.
FireQueued ==
    \E c \in queued :
        /\ queued' = queued \ {c}
        /\ Execute(c)
        /\ UNCHANGED <<now, status, plan, edits, rewrites>>

(* ---- the host, the owners of bindings and of branches ---- *)

Edited == edits < MaxEdits /\ edits' = edits + 1

\* trigger_put (of an enabled or a disabled binding), trigger_enable
Edit(b, to) ==
    /\ Edited /\ status[b] # to
    /\ status' = [status EXCEPT ![b] = to]
    /\ UNCHANGED <<log, now, history, plan, queued, commits, rewrites, executed, repeated>>

\* trigger_remove: the fire log stays.
Delete(b) ==
    /\ Edited /\ status[b] # "absent"
    /\ status' = [status EXCEPT ![b] = "absent"]
    /\ UNCHANGED <<log, now, history, plan, queued, commits, rewrites, executed, repeated>>

\* A caller other than the keeper appends a first fire record (trigger_append_fire_record),
\* of this instant or of the tip.
Seed(b) ==
    /\ Edited /\ history[b] = {} /\ (b \in Timed \/ b \notin CatchUp)
    /\ \E stim \in IF b \in Timed THEN {now} \ {0}
                   ELSE {log[Watch[b]][i].id : i \in {Len(log[Watch[b]])} \ {0}} :
           Record([binding |-> b, stim |-> stim, seq |-> 0], "seeded")
    /\ UNCHANGED <<log, now, status, plan, queued, commits, rewrites, executed, repeated>>

\* The process of the host dies: it keeps nothing but the Loom.
Crash ==
    /\ Edited /\ (plan # {} \/ queued # {})
    /\ plan' = {} /\ queued' = {}
    /\ UNCHANGED <<log, now, status, history, commits, rewrites, executed, repeated>>

Tick ==
    /\ now < MaxTime /\ now' = now + 1
    /\ UNCHANGED <<log, status, history, plan, queued, commits, edits, rewrites, executed, repeated>>

\* A commit on the branch, after the first n of its commits: the rest is dropped by a squash,
\* a rebase or a fast-forward to a history that has it behind a second parent.
Commit(r, n, hit) ==
    /\ commits < MaxCommits /\ commits' = commits + 1
    /\ \/ n = Len(log[r]) /\ UNCHANGED rewrites
       \/ n < Len(log[r]) /\ rewrites < MaxRewrites /\ rewrites' = rewrites + 1
    /\ log' = [log EXCEPT ![r] = Append(SubSeq(@, 1, n), [id |-> commits + 1, hit |-> hit])]
    /\ UNCHANGED <<now, status, history, plan, queued, edits, executed, repeated>>

\* One step of the host's loop.
Keep == Plan \/ Fire \/ FireSkips \/ FireQueues

Next ==
    \/ Keep \/ FireQueued \/ Crash \/ Tick
    \/ \E b \in Bindings : Delete(b) \/ Seed(b) \/ \E to \in {"disabled", "enabled"} : Edit(b, to)
    \/ \E r \in Branches : \E n \in 0 .. Len(log[r]), hit \in BOOLEAN : Commit(r, n, hit)

Spec == Init /\ [][Next]_vars
FairSpec == Spec /\ WF_vars(Keep)

(* ---- properties ---- *)

\* A binding that does not queue runs at most once to success for a commit or an instant,
\* whatever plans are dropped by crashes, edits and rewrites ("deduplicates by stimulus
\* digest", trigger_keeper_due).
FiredOnce == \A f \in repeated : f[1] \in Queueing

\* The fire log of a binding that does not queue names commits and instants in the order
\* they happened, also when a crash cut a plan short or a rewrite dropped commits.
LogOrdered ==
    \A b \in Bindings \ Queueing : \A f, g \in history[b] : f.seq < g.seq <=> f.stim < g.stim

\* The watermark of a binding that does not queue never passes a selected commit, or an
\* instant it has to backfill, that has no record, however the plan was cut short: after its
\* first record, or from the first commit on when it catches up.
NothingPassed ==
    \A b \in Bindings \ Queueing : history[b] # {} =>
        LET oldest == IF b \in Changed \cap CatchUp THEN 0 ELSE Min(Recorded(b)) IN
        /\ b \in Changed => \A i \in Position(b, Latest(b).stim) : \A j \in 1 .. i :
               LET c == log[Watch[b]][j] IN c.hit /\ c.id > oldest => c.id \in Recorded(b)
        /\ b \in Timed \cap CatchUp \cap Backfill =>
               \A t \in Schedule[b] : oldest < t /\ t < Latest(b).stim => t \in Recorded(b)

\* An enabled binding catches up once commits and time stand still: no selected commit and
\* no instant to backfill stays after its watermark, unless the keeper is stuck on any
\* binding whose last commit fired a rewrite has dropped.
Stuck == \E b \in Bindings : status[b] = "enabled" /\ Gap(b)
Backlog(b) ==
    IF b \in Timed
    THEN {t \in Schedule[b] : /\ b \in CatchUp \cap Backfill /\ history[b] # {}
                              /\ Latest(b).stim < t /\ t <= now}
    ELSE {i \in DOMAIN log[Watch[b]] : i > Cursor(b) /\ log[Watch[b]][i].hit}
CatchesUp ==
    \A b \in Bindings \ Queueing :
        []<>(status[b] # "enabled" \/ Stuck \/ Backlog(b) = {})

\* "With `catch_up = false`, a change binding starts from the current branch tip" (specs/0029):
\* a selected commit made while the binding stays enabled leads to a fire record.
ChangesFire ==
    \A b \in Changed : \A n \in 1 .. MaxCommits :
        [](/\ Len(log[Watch[b]]) = n /\ [](status[b] = "enabled")
           /\ <>(\E i \in n + 1 .. Len(log[Watch[b]]) : log[Watch[b]][i].hit)
           => <>(history[b] # {}))

\* "The keeper targets the exact next instant" (specs/0029): an instant of the schedule that
\* comes while the binding stays enabled leads to a fire record.
InstantsFire ==
    \A b \in Timed : \A t \in 1 .. MaxTime :
        [](/\ t \in Schedule[b] /\ now < t /\ [](status[b] = "enabled")
           /\ <>(t <= now)
           => <>(history[b] # {}))
==============================================================================
