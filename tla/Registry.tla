------------------------------ MODULE Registry ------------------------------
(***************************************************************************)
(* The upstream registry and the system settings.  mosdns keeps the        *)
(* registry (upstream groups, the default group, the cache) and the        *)
(* address family; the controller keeps what an administrator asked for in *)
(* system_state, and names groups in rules and subscription bindings.      *)
(*                                                                         *)
(* Every HTTP request is a process, and so is the periodic SyncSettings.   *)
(* A process reads the registry, computes a new one and sends it with the  *)
(* version it read: mosdns takes it only if that is still its version.     *)
(* Group updates and deletions and all writers of rules and bindings hold  *)
(* the lock UpstreamBindings; group creations, settings and Reconcile do   *)
(* not.  Publication of rules is reduced to its outcomes: how the row of   *)
(* the new version ends and what becomes of the request to mosdns, each of *)
(* the combinations that module RulePublication has.  A version is served  *)
(* or late by its number, which determines its content.                    *)
(***************************************************************************)
EXTENDS Naturals, FiniteSets

CONSTANTS
    Groups,          \* upstream group ids
    Caches,          \* cache configurations
    Families,        \* address family modes
    Requests,        \* concurrent administrator requests
    Periodic,        \* the goroutine that runs SyncSettings
    None,
    GroupLimit,      \* 32 in the code
    MaxOperations,   \* bound on requests, syncs and publications by Reconcile
    MaxCrashes       \* bound on crashes of the controller and restarts of mosdns

Processes == Requests \cup {Periodic}

Snapshot == [version: Nat, groups: [Groups -> {"absent", "enabled", "disabled"}],
             default: Groups, cache: Caches]
Settings == [default: Groups \cup {None}, cache: Caches, family: Families]
Rule     == [group: Groups, enabled: BOOLEAN]
Version  == [number: Nat, rule: Rule \cup {None}, bound: Groups \cup {None}]

ASSUME RegistryAssumption ==
    /\ Periodic \notin Requests
    /\ None \notin Groups \cup Rule \cup Settings \cup Processes
    /\ {GroupLimit, MaxOperations, MaxCrashes} \subseteq Nat
    /\ GroupLimit > 0

VARIABLES
    registry,   \* mosdns: the upstream registry
    family,     \* mosdns: the address family mode
    delayed,    \* registries sent by requests that got no answer
    overtaken,  \* a delayed registry was taken after all
    db,         \* system_state: the persisted settings
    binding,    \* subscription_bindings: the group of the route subscription
    active,     \* rule_versions: the active version; its rule is domain_rules
    candidates, \* rule_versions: the pending and unknown versions
    serving,    \* mosdns: number of the rule version being served, 0 without one
    late,       \* numbers of versions sent by requests that got no answer
    last,       \* MAX(version) of rule_versions
    lock,       \* holder of UpstreamBindings
    job,        \* job[p]: where process p is
    stored,     \* settings of the last undisturbed UpdateSettings
    operations, \* operations begun
    crashes

mosdns    == <<registry, family, delayed, overtaken>>
rules     == <<binding, active, candidates, serving, late, last>>
vars      == <<mosdns, rules, db, lock, job, stored, operations, crashes>>

Idle == [pc |-> "idle"]

\* Groups of a registry, and those that queries can be routed to.
Present(snapshot) == {g \in Groups : snapshot.groups[g] # "absent"}

enabledGroup(snapshot, g) == g \in Groups /\ snapshot.groups[g] = "enabled"

\* mosdns runs with some registry; the database is empty: databaseSettings
\* answers its defaults and no default group.
Init ==
    /\ \E on \in SUBSET Groups : \E d \in on, c \in Caches :
         /\ Cardinality(on) <= GroupLimit
         /\ registry = [version |-> 1, default |-> d, cache |-> c,
                        groups |-> [g \in Groups |-> IF g \in on THEN "enabled" ELSE "absent"]]
    /\ family \in Families
    /\ delayed = {} /\ overtaken = FALSE
    /\ db \in [default: {None}, cache: Caches, family: Families]
    /\ binding = None
    /\ active = [number |-> 0, rule |-> None, bound |-> None]
    /\ candidates = {} /\ serving = 0 /\ late = {} /\ last = 0
    /\ lock = None
    /\ job = [p \in Processes |-> Idle]
    /\ stored = None
    /\ operations = 0 /\ crashes = 0

----------------------------------------------------------------------------
(* Processes and the lock                                                  *)

Operation == operations < MaxOperations /\ operations' = operations + 1

Go(p, next) == job' = [job EXCEPT ![p] = next]

\* Return of an operation; a deferred Unlock releases UpstreamBindings.
Finish(p) ==
    /\ Go(p, Idle)
    /\ lock' = IF lock = p THEN None ELSE lock

\* Mutant: no lock.
LockNothing(p) == UNCHANGED lock

Lock(p) == lock = None /\ lock' = p

IsSettings(p) == job[p].pc # "idle" /\ job[p].op \in {"settings", "sync"}

\* A settings operation begins: it is undisturbed as long as no other one runs.
GoSettings(p, next) ==
    job' = [q \in Processes |->
              IF q = p THEN [next EXCEPT !.alone = ~\E r \in Processes : IsSettings(r)]
              ELSE IF IsSettings(q) THEN [job[q] EXCEPT !.alone = FALSE]
              ELSE job[q]]

----------------------------------------------------------------------------
(* applyRegistry                                                           *)

\* The registry that p sends: cloneRegistry of the one it read, changed.
Desired(current, groups, default, cache) ==
    [version |-> current.version + 1, groups |-> groups, default |-> default, cache |-> cache]

\* registryEqual: nothing to send.
registryEqual(current, desired) ==
    [current EXCEPT !.version = 0] = [desired EXCEPT !.version = 0]

\* mosdns takes a registry based on its own version.
Takes(snapshot) == snapshot.version = registry.version + 1

\* validAppliedRegistry: judged by its number, not by its content.
validAppliedRegistry(snapshot, version) ==
    snapshot.version = version /\ enabledGroup(snapshot, snapshot.default)

\* The settings that were really applied are the ones to persist.
AsApplied(settings, applied) ==
    [settings EXCEPT !.default = applied.default, !.cache = applied.cache]

\* applyRegistry returned a registry.  applyGroupChange only audits it.
Applied(p, applied) ==
    IF job[p].op = "group" THEN Finish(p)
    ELSE /\ Go(p, [pc |-> "family", op |-> job[p].op, alone |-> job[p].alone,
                   before |-> job[p].before, settings |-> AsApplied(job[p].settings, applied)])
         /\ UNCHANGED lock

ApplyEqual(p) ==
    /\ job[p].pc = "apply"
    /\ registryEqual(job[p].current, job[p].desired)
    /\ Applied(p, job[p].current)
    /\ UNCHANGED <<mosdns, rules, db, stored, operations, crashes>>

\* Mutant: the expected version is read again just before the registry is sent.
SentOnLatest(p) == [job[p].desired EXCEPT !.version = registry.version + 1]

\* The registry sent expects the version that it was computed from.
Sent(p) == job[p].desired

Send(p) ==
    /\ job[p].pc = "apply"
    /\ ~registryEqual(job[p].current, job[p].desired)

ApplyAnswered(p) ==
    /\ Send(p)
    /\ Takes(Sent(p))
    /\ registry' = Sent(p)
    /\ Applied(p, Sent(p))
    /\ UNCHANGED <<family, delayed, overtaken, rules, db, stored, operations, crashes>>

\* A conflict, or any other definite error.
ApplyRefused(p) ==
    /\ Send(p)
    /\ Finish(p)
    /\ UNCHANGED <<mosdns, rules, db, stored, operations, crashes>>

\* ErrUnknown: taken, lost, or to be taken later.
ApplyUnanswered(p) ==
    /\ Send(p)
    /\ \/ Takes(Sent(p)) /\ registry' = Sent(p) /\ UNCHANGED delayed
       \/ delayed' = delayed \cup {Sent(p)} /\ UNCHANGED registry
       \/ UNCHANGED <<registry, delayed>>
    /\ Go(p, [job[p] EXCEPT !.pc = "query"])
    /\ UNCHANGED <<family, overtaken, rules, db, lock, stored, operations, crashes>>

\* RegistryStatus after ErrUnknown.
ApplyQuery(p) ==
    /\ job[p].pc = "query"
    /\ \/ validAppliedRegistry(registry, job[p].desired.version) /\ Applied(p, registry)
       \/ Finish(p)
    /\ UNCHANGED <<mosdns, rules, db, stored, operations, crashes>>

\* mosdns executes a request whose sender has stopped waiting.
TakeDelayed(snapshot) ==
    /\ snapshot \in delayed
    /\ Takes(snapshot)
    /\ registry' = snapshot
    /\ delayed' = delayed \ {snapshot}
    /\ overtaken' = TRUE
    /\ UNCHANGED <<family, rules, db, lock, job, stored, operations, crashes>>

----------------------------------------------------------------------------
(* Upstream groups.  expected_current_version is the version just read:    *)
(* any other is answered with ErrConflict.                                 *)

BelowLimit(snapshot) == Cardinality(Present(snapshot)) < GroupLimit

\* Mutant: the default group is not protected.
ProtectedNever(snapshot, g, state) == FALSE

\* ErrProtectedGroup: the default group is neither deleted nor disabled.
Protected(snapshot, g, state) == g = snapshot.default /\ state # "enabled"

Change(g, state) ==
    [pc |-> "apply", op |-> "group", current |-> registry, group |-> g,
     desired |-> Desired(registry, [registry.groups EXCEPT ![g] = state],
                         registry.default, registry.cache)]

CreateUpstreamGroup(p, g, state) ==
    /\ Operation /\ job[p] = Idle
    /\ BelowLimit(registry)
    /\ g \notin Present(registry)
    /\ Go(p, Change(g, state))
    /\ UNCHANGED <<mosdns, rules, db, lock, stored, crashes>>

\* Only a group that stops being usable needs a reference check.
UpdateUpstreamGroup(p, g, state) ==
    /\ Operation /\ job[p] = Idle
    /\ Lock(p)
    /\ g \in Present(registry)
    /\ ~Protected(registry, g, state)
    /\ Go(p, [Change(g, state) EXCEPT !.pc =
                IF enabledGroup(registry, g) /\ state = "disabled" THEN "references" ELSE "apply"])
    /\ UNCHANGED <<mosdns, rules, db, stored, crashes>>

DeleteUpstreamGroup(p, g) ==
    /\ Operation /\ job[p] = Idle
    /\ Lock(p)
    /\ ~Protected(registry, g, "absent")
    /\ g \in Present(registry)
    /\ Go(p, [Change(g, "absent") EXCEPT !.pc = "references"])
    /\ UNCHANGED <<mosdns, rules, db, stored, crashes>>

\* snapshot_json: the enabled rules and the subscription sets.
Names(version, g) ==
    \/ version.rule # None /\ version.rule.enabled /\ version.rule.group = g
    \/ version.bound = g

\* Mutant: pending and unknown versions are not looked at.
ReferencedByActive(g) ==
    \/ binding = g
    \/ active.rule # None /\ active.rule.group = g
    \/ Names(active, g)

upstreamGroupReferencedBySubscriptions(g) ==
    \/ binding = g
    \/ active.rule # None /\ active.rule.group = g
    \/ \E version \in candidates \cup {active} : Names(version, g)

\* ErrGroupReferenced, or the database fails.
CheckReferences(p) ==
    /\ job[p].pc = "references"
    /\ \/ /\ ~upstreamGroupReferencedBySubscriptions(job[p].group)
          /\ Go(p, [job[p] EXCEPT !.pc = "apply"])
          /\ UNCHANGED lock
       \/ Finish(p)
    /\ UNCHANGED <<mosdns, rules, db, stored, operations, crashes>>

----------------------------------------------------------------------------
(* Settings                                                                *)

\* UpdateSettings: settings loaded with the registry version that mosdns still
\* has.  Its two reads are one step: a registry read earlier would be refused.
UpdateSettings(p, settings) ==
    /\ Operation /\ job[p] = Idle
    /\ enabledGroup(registry, settings.default)
    /\ GoSettings(p, [pc |-> "apply", op |-> "settings", alone |-> TRUE,
                      before |-> db, settings |-> settings, current |-> registry,
                      desired |-> Desired(registry, registry.groups, settings.default, settings.cache)])
    /\ stored' = None
    /\ UNCHANGED <<mosdns, rules, db, lock, crashes>>

\* SyncSettings reads the database first ...
SyncSettings ==
    /\ Operation /\ job[Periodic] = Idle
    /\ GoSettings(Periodic, [pc |-> "sync", op |-> "sync", alone |-> TRUE,
                             before |-> db, settings |-> db])
    /\ UNCHANGED <<mosdns, rules, db, lock, stored, crashes>>

\* ... and then the registry.  Without a persisted default it keeps mosdns's.
SyncDefault(settings) ==
    IF settings.default = None THEN registry.default ELSE settings.default

SyncRegistry(p) ==
    /\ job[p].pc = "sync"
    /\ LET settings == job[p].settings
           default  == SyncDefault(settings)
       IN  \/ /\ enabledGroup(registry, default)
              /\ Go(p, [pc |-> "apply", op |-> "sync", alone |-> job[p].alone,
                        before |-> job[p].before, settings |-> settings, current |-> registry,
                        desired |-> Desired(registry, registry.groups, default, settings.cache)])
              /\ UNCHANGED lock
           \/ Finish(p)
    /\ UNCHANGED <<mosdns, rules, db, stored, operations, crashes>>

\* UpdateSettings leaves the address family alone if the database has it already.
FamilyKept(p) ==
    /\ job[p].pc = "family"
    /\ job[p].op = "settings" /\ job[p].settings.family = job[p].before.family
    /\ Go(p, [job[p] EXCEPT !.pc = "persist"])
    /\ UNCHANGED <<mosdns, rules, db, lock, stored, operations, crashes>>

FamilyWanted(p) ==
    /\ job[p].pc = "family"
    /\ job[p].op = "sync" \/ job[p].settings.family # job[p].before.family

\* applyAddressFamilyMode: a status, and a compare-and-set if the mode differs.
FamilyApplied(p) ==
    /\ FamilyWanted(p)
    /\ family' = job[p].settings.family
    /\ Go(p, [job[p] EXCEPT !.pc = "persist"])
    /\ UNCHANGED <<registry, delayed, overtaken, rules, db, lock, stored, operations, crashes>>

\* It fails, whether or not mosdns took the mode.  UpdateSettings goes on with
\* the mode that mosdns reports, or else the old one; SyncSettings gives up.
FamilyFails(p) ==
    /\ FamilyWanted(p)
    /\ family' \in {family, job[p].settings.family}
    /\ IF job[p].op = "sync" THEN Finish(p)
       ELSE /\ \E actual \in {family', job[p].before.family} :
                 Go(p, [job[p] EXCEPT !.pc = "persist", !.settings.family = actual])
            /\ UNCHANGED lock
    /\ UNCHANGED <<registry, delayed, overtaken, rules, db, stored, operations, crashes>>

\* persistSettings, in one transaction.
Persist(p) ==
    /\ job[p].pc = "persist"
    /\ db' = job[p].settings
    /\ Finish(p)
    /\ stored' = IF job[p].op = "settings" /\ job[p].alone THEN job[p].settings ELSE stored
    /\ UNCHANGED <<mosdns, rules, operations, crashes>>

PersistFails(p) ==
    /\ job[p].pc = "persist"
    /\ Finish(p)
    /\ UNCHANGED <<mosdns, rules, db, stored, operations, crashes>>

----------------------------------------------------------------------------
(* Writers of rules and bindings                                           *)

\* validateRouteTargets: disabled rules need a usable group too.
validateRouteTargets(rule) == rule # None => enabledGroup(registry, rule.group)

\* Create, Update, Batch, Delete and Rollback replace the rule.
WriteRule(p, rule) ==
    /\ Operation /\ job[p] = Idle
    /\ Lock(p)
    /\ validateRouteTargets(rule)
    /\ Go(p, [pc |-> "publish", op |-> "rules", rule |-> rule, restore |-> binding])
    /\ UNCHANGED <<mosdns, rules, db, stored, crashes>>

\* Creation, binding and deletion of the route subscription write its row first.
WriteBinding(p, g) ==
    /\ Operation /\ job[p] = Idle
    /\ Lock(p)
    /\ g # None => enabledGroup(registry, g)
    /\ g # binding
    /\ binding' = g
    /\ Go(p, [pc |-> "publish", op |-> "rules", rule |-> active.rule, restore |-> binding])
    /\ UNCHANGED <<mosdns, active, candidates, serving, late, last, db, stored, crashes>>

\* publish(rule): the version it inserts, ...
Publication(rule, bound) == [number |-> last + 1, rule |-> rule, bound |-> bound]

\* ... answered and finalized, ...
Finalized(version) ==
    /\ active' = version /\ serving' = version.number
    /\ UNCHANGED <<candidates, late>>

\* ... or left pending or unknown: an answer or the commit was lost after mosdns took
\* it, it is still under way, or mosdns never got it and the row could not be updated, ...
Unsettled(version) ==
    /\ candidates' = candidates \cup {version}
    /\ \/ serving' = version.number /\ UNCHANGED late
       \/ late' = late \cup {version.number} /\ UNCHANGED serving
       \/ UNCHANGED <<serving, late>>
    /\ UNCHANGED active

\* ... or judged failed: APPLY_RESPONSE_INVALID, perhaps taken; APPLY_TIMEOUT_NOT_APPLIED,
\* perhaps under way, since mosdns still served the active version; or refused.
Failed(version) ==
    /\ \/ serving' = version.number /\ UNCHANGED late
       \/ serving = active.number /\ late' = late \cup {version.number} /\ UNCHANGED serving
       \/ UNCHANGED <<serving, late>>
    /\ UNCHANGED <<active, candidates>>

\* restoreSubscriptionMutation: a version that mosdns serves is not undone, and the undo
\* of another may fail.
restoreSubscriptionMutation(version, old) ==
    \/ UNCHANGED binding
    \/ serving' # version.number /\ binding' = old

\* publish, with the binding that an undo brings back.
publish(rule, old) ==
    /\ validateRouteTargets(rule)
    /\ last' = last + 1
    /\ LET version == Publication(rule, binding)
       IN  \/ Finalized(version) /\ UNCHANGED binding
           \/ /\ Unsettled(version) \/ Failed(version)
              /\ restoreSubscriptionMutation(version, old)

Publish(p) ==
    /\ job[p].pc = "publish"
    /\ publish(job[p].rule, job[p].restore)
    /\ Finish(p)
    /\ UNCHANGED <<mosdns, db, stored, operations, crashes>>

\* publish is refused before its INSERT; the row is written back unless that fails too.
PublishRefused(p) ==
    /\ job[p].pc = "publish"
    /\ binding' \in {binding, job[p].restore}
    /\ Finish(p)
    /\ UNCHANGED <<mosdns, active, candidates, serving, late, last, db, stored, operations, crashes>>

\* mosdns gets to a version whose sender has stopped waiting, whatever its row says.
Adopt(number) ==
    /\ number \in late
    /\ number > serving
    /\ serving' = number
    /\ late' = late \ {number}
    /\ UNCHANGED <<mosdns, binding, active, candidates, last, db, lock, job, stored, operations, crashes>>

\* mosdns restarts: requests under way are gone, and it serves no version or one that was
\* activated before; here any number up to the active one's, which is more than that.
\* The registry and the address family are on its disk.
RuntimeRestarts ==
    /\ crashes < MaxCrashes /\ crashes' = crashes + 1
    /\ serving' \in {number \in 0..active.number : number < serving}
    /\ late' = {} /\ delayed' = {}
    /\ UNCHANGED <<registry, family, overtaken, binding, active, candidates, last, db, lock, job,
                   stored, operations>>

\* Reconcile holds the rule service's mutex, not UpstreamBindings: it waits for
\* writers of rules and runs beside group changes.
RulesFree == \A p \in Processes : job[p].pc # "publish"

\* A pending or unknown version is served.  If it does not carry the binding, Reconcile
\* goes on with ReconcileRepublish, or fails there before the INSERT.
ReconcileCandidate ==
    /\ RulesFree
    /\ \E version \in candidates :
         /\ version.number = serving
         /\ active' = version
         /\ candidates' = candidates \ {version}
    /\ UNCHANGED <<mosdns, binding, serving, late, last, db, lock, job, stored, operations, crashes>>

\* Nothing was published yet, mosdns has fallen behind the active version, or that
\* version does not carry the binding.  Ahead of it, mosdns is left alone.
ReconcileRepublish ==
    /\ Operation /\ RulesFree
    /\ ~\E version \in candidates : version.number = serving
    /\ \/ active.number = 0 /\ serving = 0
       \/ serving < active.number
       \/ serving = active.number /\ active.bound # binding
    /\ publish(active.rule, binding)
    /\ UNCHANGED <<mosdns, db, lock, job, stored, crashes>>

----------------------------------------------------------------------------

\* The process dies and is started again; the lock dies with it.
Crash ==
    /\ crashes < MaxCrashes /\ \E p \in Processes : job[p] # Idle
    /\ crashes' = crashes + 1
    /\ job' = [p \in Processes |-> Idle]
    /\ lock' = None
    /\ UNCHANGED <<mosdns, rules, db, stored, operations>>

GroupRequest(p) ==
    \E g \in Groups :
        \/ \E state \in {"enabled", "disabled"} :
             CreateUpstreamGroup(p, g, state) \/ UpdateUpstreamGroup(p, g, state)
        \/ DeleteUpstreamGroup(p, g)

RuleRequest(p) ==
    \/ \E rule \in Rule \cup {None} : WriteRule(p, rule)
    \/ \E g \in Groups \cup {None} : WriteBinding(p, g)

SettingsRequest(p) ==
    \E settings \in [default: Groups, cache: Caches, family: Families] :
        UpdateSettings(p, settings)

Step(p) ==
    \/ ApplyEqual(p) \/ ApplyAnswered(p) \/ ApplyRefused(p) \/ ApplyUnanswered(p) \/ ApplyQuery(p)
    \/ CheckReferences(p) \/ SyncRegistry(p)
    \/ FamilyKept(p) \/ FamilyApplied(p) \/ FamilyFails(p) \/ Persist(p) \/ PersistFails(p)
    \/ Publish(p) \/ PublishRefused(p)

Next ==
    \/ \E p \in Requests : GroupRequest(p) \/ RuleRequest(p) \/ SettingsRequest(p)
    \/ SyncSettings
    \/ \E p \in Processes : Step(p)
    \/ \E snapshot \in delayed : TakeDelayed(snapshot)
    \/ \E number \in late : Adopt(number)
    \/ ReconcileCandidate \/ ReconcileRepublish
    \/ Crash \/ RuntimeRestarts

Spec == Init /\ [][Next]_vars

----------------------------------------------------------------------------
(* Properties                                                              *)

\* Values have the shape of the tables and messages they stand for, rule versions that
\* are recorded, served or under way have numbers up to the last one, and a process that
\* checks references or publishes holds UpstreamBindings.
TypeOK ==
    /\ registry \in Snapshot /\ delayed \subseteq Snapshot /\ family \in Families
    /\ db \in Settings /\ stored \in Settings \cup {None}
    /\ \A version \in candidates \cup {active} : version \in Version /\ version.number <= last
    /\ {serving} \cup late \subseteq 0..last
    /\ binding \in Groups \cup {None}
    /\ lock \in Processes \cup {None}
    /\ \A p \in Processes : job[p].pc \in {"references", "publish"} => lock = p

\* Whatever group changes, settings and delayed requests come together, the default
\* group of the registry exists and is enabled: ErrProtectedGroup and the checks of
\* enabledGroup are made on a registry that may be outdated when the change is sent.
DefaultUsable == enabledGroup(registry, registry.default)

\* No group that the binding, the active version or a version that Reconcile may still
\* activate names is deleted or disabled, whatever becomes of publications, undos and
\* restarts: upstreamGroupReferencedBySubscriptions sees every reference that is there or
\* may come, and UpstreamBindings keeps new ones out.  Two things it does not see: a group
\* change that mosdns executes after its sender gave up, and the lock with it (overtaken),
\* and the groups of a version that mosdns serves although it was judged failed.
ReferencesUsable ==
    overtaken \/ \A g \in Groups :
        binding = g \/ (\E version \in candidates \cup {active} : Names(version, g))
            => enabledGroup(registry, g)

\* Settings that UpdateSettings stored while no other settings operation ran stay in
\* the database and the registry until the next UpdateSettings: later syncs, concurrent
\* group changes, lost answers and crashes do not bring older settings back.
StoredSettingsStay ==
    overtaken \/ stored = None \/
        /\ db = stored
        /\ registry.default = stored.default /\ registry.cache = stored.cache
=============================================================================
