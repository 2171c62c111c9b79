------------------------- MODULE SubscriptionRefresh -------------------------
(***************************************************************************)
(* The refresh of URL subscriptions.  RefreshSubscription reads the row    *)
(* and downloads the source without a lock, then takes Service.mu, reads   *)
(* the row again and records the outcome only if updated_at_ms is still    *)
(* the one it has read.  A change is published and, when that fails,       *)
(* undone before the lock is released; the undo puts the old stamp back.   *)
(* RefreshDue does this for every due subscription, one after the other,   *)
(* while administrators refresh, enable, disable, create and delete.       *)
(*                                                                         *)
(* publish is one step with three outcomes (RulePublication has the rest). *)
(* The clock counts milliseconds: it may stand still between two local     *)
(* steps, is not set back, and has moved on when a download or an attempt  *)
(* to publish has ended; were it not so, a stamp that was undone could be  *)
(* given to another change.  Service.bindings is always taken together     *)
(* with Service.mu here and not modelled, and the binding of a route       *)
(* subscription is not part of the row.                                    *)
(***************************************************************************)
EXTENDS Integers

CONSTANTS
    Subs,      \* ids of rule_subscriptions (AUTOINCREMENT: an id is used once)
    Bodies,    \* what a source may answer with, and what the row then holds
    Requests,  \* concurrent refresh requests of administrators
    Timer,     \* the goroutine of refreshSubscriptionsPeriodically
    Interval,  \* refresh_interval_seconds
    Absent,    \* no row
    Failure,   \* a download or its parsing failed
    MaxTicks,  \* bound on idle ticks of the clock
    MaxOps,    \* bound on administrator operations
    MaxFaults  \* bound on failed or unknown publications and crashes

\* attempt: history, the attempt whose outcome the row shows.
Row == [enabled: BOOLEAN, content: Bodies, error: BOOLEAN, checked: Nat, stamp: Nat, attempt: Nat]

ASSUME RefreshAssumption ==
    /\ Timer \notin Requests
    /\ Bodies # {} /\ Failure \notin Bodies
    /\ Absent \notin Row
    /\ Interval \in Nat \ {0}
    /\ {MaxTicks, MaxOps, MaxFaults} \subseteq Nat

VARIABLES
    row,      \* rule_subscriptions
    created,  \* ids that were given out
    mu,       \* Service.mu: the operation being published, if any
    call,     \* call[r]: a RefreshSubscription in progress
    todo,     \* what the running RefreshDue has left
    clock,    \* time.Now().UnixMilli()
    attempts, \* history: numbers the calls of RefreshSubscription and creations
    ticks, ops, faults

bounds == <<ticks, ops, faults>>
vars   == <<row, created, mu, call, todo, clock, attempts, bounds>>

Refreshers == Requests \cup {Timer}

NoCall == [pc |-> "idle"]
Free   == [kind |-> "free"]

\* What a call has learned so far: the row's stamp, then the outcome of the download.
DownloadCall == [pc: {"download"}, sub: Subs, stamp: Nat, attempt: Nat]
FailureCall  == [pc: {"failure"}, sub: Subs, stamp: Nat, attempt: Nat, body: {Failure}]
StoreCall    == [pc: {"store", "publish"}, sub: Subs, stamp: Nat, attempt: Nat, body: Bodies]
Call         == {NoCall} \cup DownloadCall \cup FailureCall \cup StoreCall

\* An operation that holds the lock: the row it found and the one it has stored, and
\* the call, if any, that waits for it.
Kinds  == {"create", "delete", "enabled", "refresh"}
Holder == [kind: Kinds, sub: Subs, by: SUBSET Refreshers, before: Row \cup {Absent},
           stored: Row \cup {Absent}]

\* Some subscriptions may have been created before.
Init ==
    /\ row \in [Subs -> {Absent, [enabled |-> TRUE, content |-> CHOOSE b \in Bodies : TRUE,
                                 error |-> FALSE, checked |-> 1, stamp |-> 1, attempt |-> 0]}]
    /\ created = {s \in Subs : row[s] # Absent}
    /\ mu = Free
    /\ call = [r \in Refreshers |-> NoCall]
    /\ todo = {}
    /\ clock = 1 /\ attempts = 0
    /\ ticks = 0 /\ ops = 0 /\ faults = 0

Exists(s) == row[s] # Absent

\* A stamp later than the row's: the time, or the next millisecond.
Renewed(s) == IF clock <= row[s].stamp THEN row[s].stamp + 1 ELSE clock

Operation == ops < MaxOps /\ ops' = ops + 1
Fault     == faults < MaxFaults /\ faults' = faults + 1

\* Mutant: mu is not taken.
LockNothing == TRUE

Lock == mu = Free

----------------------------------------------------------------------------
(* RefreshSubscription                                                     *)

\* The unlocked read; the row may belong to an operation not yet published.
Begin(r, s) ==
    /\ call' = [call EXCEPT ![r] =
         [pc |-> "download", sub |-> s, stamp |-> row[s].stamp, attempt |-> attempts + 1]]
    /\ attempts' = attempts + 1

\* An administrator asks for a refresh; an unknown id is an error.
AdminRefresh(r, s) ==
    /\ Operation
    /\ call[r] = NoCall /\ Exists(s)
    /\ Begin(r, s)
    /\ UNCHANGED <<row, created, mu, todo, clock, ticks, faults>>

\* downloadSubscription and parseSubscription.
Download(r, body) ==
    /\ call[r].pc = "download"
    /\ call' = [call EXCEPT ![r] =
         [pc |-> IF body = Failure THEN "failure" ELSE "store", sub |-> call[r].sub,
          stamp |-> call[r].stamp, attempt |-> call[r].attempt, body |-> body]]
    /\ clock' = clock + 1
    /\ UNCHANGED <<row, created, mu, todo, attempts, bounds>>

\* Mutant: the stamp is not compared.
CurrentAlways(r) == Exists(call[r].sub)

Current(r) == Exists(call[r].sub) /\ row[call[r].sub].stamp = call[r].stamp

\* Under the lock: the row is gone or was changed meanwhile.
Conflict(r) ==
    /\ call[r].pc \in {"store", "failure"}
    /\ Lock /\ ~Current(r)
    /\ call' = [call EXCEPT ![r] = NoCall]
    /\ UNCHANGED <<row, created, mu, todo, clock, attempts, bounds>>

FailedRow(r, s) ==
    [row[s] EXCEPT !.checked = Renewed(s), !.stamp = Renewed(s), !.error = TRUE,
                   !.attempt = call[r].attempt]

\* Mutant: subscriptionFailure without mu.
FailureLockNothing == TRUE

FailureLock == Lock

\* The failure is recorded, without a publication.
subscriptionFailure(r) ==
    /\ call[r].pc = "failure"
    /\ FailureLock /\ Current(r)
    /\ row' = [row EXCEPT ![call[r].sub] = FailedRow(r, call[r].sub)]
    /\ call' = [call EXCEPT ![r] = NoCall]
    /\ UNCHANGED <<created, mu, todo, clock, attempts, bounds>>

CheckedRow(r, s) ==
    [row[s] EXCEPT !.checked = Renewed(s), !.stamp = Renewed(s), !.error = FALSE,
                   !.content = call[r].body, !.attempt = call[r].attempt]

\* The checksum is the stored one: nothing is published.
StoreSame(r) ==
    /\ call[r].pc = "store"
    /\ Lock /\ Current(r)
    /\ row[call[r].sub].content = call[r].body
    /\ row' = [row EXCEPT ![call[r].sub] = CheckedRow(r, call[r].sub)]
    /\ call' = [call EXCEPT ![r] = NoCall]
    /\ UNCHANGED <<created, mu, todo, clock, attempts, bounds>>

\* An operation has written row s and publishes; before is the row it found.
Publishing(kind, s, by) ==
    mu' = [kind |-> kind, sub |-> s, by |-> by, before |-> row[s], stored |-> row'[s]]

StoreNew(r) ==
    /\ call[r].pc = "store"
    /\ Lock /\ Current(r)
    /\ row[call[r].sub].content # call[r].body
    /\ row' = [row EXCEPT ![call[r].sub] = CheckedRow(r, call[r].sub)]
    /\ Publishing("refresh", call[r].sub, {r})
    /\ call' = [call EXCEPT ![r].pc = "publish"]
    /\ UNCHANGED <<created, todo, clock, attempts, bounds>>

----------------------------------------------------------------------------
(* RefreshDue                                                              *)

\* Mutant: a subscription whose last attempt failed is left alone.
DueUnfailed(s) ==
    Exists(s) /\ row[s].enabled /\ ~row[s].error /\ clock >= row[s].checked + Interval

Due(s) == Exists(s) /\ row[s].enabled /\ clock >= row[s].checked + Interval

\* The list is read once, without a lock.
RefreshDue ==
    /\ call[Timer] = NoCall /\ todo = {}
    /\ \E s \in Subs : Due(s)
    /\ todo' = {s \in Subs : Due(s)}
    /\ UNCHANGED <<row, created, mu, call, clock, attempts, bounds>>

\* The next one of the list, as it is now.
RefreshNext(s) ==
    /\ call[Timer] = NoCall /\ s \in todo
    /\ todo' = todo \ {s}
    /\ IF Exists(s) THEN Begin(Timer, s) ELSE UNCHANGED <<call, attempts>>
    /\ UNCHANGED <<row, created, mu, clock, bounds>>

----------------------------------------------------------------------------
(* Operations of the administrator                                         *)

\* The content was uploaded, or downloaded, before.
createSubscription(s, body, enabled) ==
    /\ Operation /\ Lock
    /\ s \notin created /\ created' = created \cup {s}
    /\ attempts' = attempts + 1
    /\ row' = [row EXCEPT ![s] =
         [enabled |-> enabled, content |-> body, error |-> FALSE, checked |-> clock,
          stamp |-> clock, attempt |-> attempts + 1]]
    /\ Publishing("create", s, {})
    /\ UNCHANGED <<call, todo, clock, ticks, faults>>

SetSubscriptionEnabled(s) ==
    /\ Operation /\ Lock /\ Exists(s)
    /\ row' = [row EXCEPT ![s].enabled = ~@, ![s].stamp = Renewed(s)]
    /\ Publishing("enabled", s, {})
    /\ UNCHANGED <<created, call, todo, clock, attempts, ticks, faults>>

DeleteSubscription(s) ==
    /\ Operation /\ Lock /\ Exists(s)
    /\ row' = [row EXCEPT ![s] = Absent]
    /\ Publishing("delete", s, {})
    /\ UNCHANGED <<created, call, todo, clock, attempts, ticks, faults>>

----------------------------------------------------------------------------
(* The end of an operation that publishes                                  *)

Unlock ==
    /\ mu' = Free
    /\ call' = [r \in Refreshers |-> IF r \in mu.by THEN NoCall ELSE call[r]]

\* The change stays: it was published, or its outcome is unknown, or undoing it failed.
Published ==
    /\ mu # Free
    /\ Unlock
    /\ clock' = clock + 1
    /\ UNCHANGED <<row, created, todo, attempts, bounds>>

\* restoreSubscriptionMutation: each operation puts back the columns it has written.
restore ==
    CASE mu.kind = "create"  -> Absent
      [] mu.kind = "delete"  -> mu.before
      [] mu.kind = "enabled" -> [row[mu.sub] EXCEPT !.enabled = mu.before.enabled,
                                                    !.stamp = mu.before.stamp]
      [] mu.kind = "refresh" -> [mu.before EXCEPT !.enabled = row[mu.sub].enabled]

\* publish fails and the change is undone.
PublishFails ==
    /\ mu # Free
    /\ Fault
    /\ row' = [row EXCEPT ![mu.sub] = restore]
    /\ Unlock
    /\ clock' = clock + 1
    /\ UNCHANGED <<created, todo, attempts, ticks, ops>>

\* A new process; what was written stays.
Crash ==
    /\ Fault
    /\ mu' = Free
    /\ call' = [r \in Refreshers |-> NoCall]
    /\ todo' = {}
    /\ clock' = clock + 1
    /\ UNCHANGED <<row, created, attempts, ticks, ops>>

Tick ==
    /\ ticks < MaxTicks /\ ticks' = ticks + 1
    /\ clock' = clock + 1
    /\ UNCHANGED <<row, created, mu, call, todo, attempts, ops, faults>>

RefreshStep(r) ==
    \/ \E body \in Bodies \cup {Failure} : Download(r, body)
    \/ Conflict(r) \/ subscriptionFailure(r) \/ StoreSame(r) \/ StoreNew(r)

TimerStep == RefreshDue \/ (\E s \in Subs : RefreshNext(s)) \/ RefreshStep(Timer)

PublishStep == Published \/ PublishFails

Next ==
    \/ TimerStep
    \/ \E r \in Requests : (\E s \in Subs : AdminRefresh(r, s)) \/ RefreshStep(r)
    \/ \E s \in Subs :
          \/ \E body \in Bodies, enabled \in BOOLEAN : createSubscription(s, body, enabled)
          \/ SetSubscriptionEnabled(s)
          \/ DeleteSubscription(s)
    \/ PublishStep
    \/ Crash
    \/ Tick

Spec == Init /\ [][Next]_vars

\* The ticker of the refresh goroutine fires for ever, downloads and calls to mosdns
\* have timeouts, and a sync.Mutex is not withheld for ever from one that waits for it.
FairSpec ==
    /\ Spec
    /\ SF_vars(TimerStep)
    /\ \A r \in Requests : WF_vars(RefreshStep(r))
    /\ WF_vars(PublishStep)

----------------------------------------------------------------------------
(* Properties                                                              *)

\* Rows, calls and the lock have their shapes; a call that publishes is the one that
\* holds Service.mu, and while an operation holds it the row is the one it has stored.
TypeOK ==
    /\ row \in [Subs -> Row \cup {Absent}]
    /\ created \subseteq Subs /\ \A s \in Subs : Exists(s) => s \in created
    /\ todo \subseteq created
    /\ clock \in Nat /\ attempts \in Nat
    /\ call \in [Refreshers -> Call]
    /\ mu \in Holder \cup {Free}
    /\ \A r \in Refreshers : call[r].pc = "publish" <=> mu # Free /\ r \in mu.by
    /\ mu # Free => row[mu.sub] = mu.stored

\* RefreshSubscription's comparison of updated_at_ms: the outcome of an attempt, good or
\* bad, never replaces that of an attempt that began later.  A row only goes back to an
\* earlier attempt when the operation that stored the later one is undone.
NewestAttemptStays ==
    [][\A s \in Subs :
        Exists(s) /\ row'[s] # Absent /\ row'[s].attempt < row[s].attempt
            => mu # Free /\ mu.kind = "refresh" /\ mu.sub = s /\ mu.stored = row[s]]_vars

\* restoreSubscriptionMutation's comment: a change whose publication failed is compensated.
\* The row is the one the operation found, to the last column; nothing recorded
\* meanwhile is lost with it, and a refresh that failed to publish is due again.
FailedLeavesNoTrace == [][PublishFails => row'[mu.sub] = mu.before /\ row[mu.sub] = mu.stored]_vars

Overdue(s) == row[s] # Absent /\ row[s].enabled /\ clock - row[s].checked >= Interval

\* An enabled subscription that is due is eventually checked, disabled or deleted,
\* though its source may fail on every download and calls end in conflicts.
DueIsChecked == \A s \in Subs : Overdue(s) ~> ~Overdue(s)
=============================================================================
