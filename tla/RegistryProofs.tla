--------------------------- MODULE RegistryProofs ---------------------------
(***************************************************************************)
(* Proofs about Registry, for any groups, caches, families and requests    *)
(* and any bounds.  First the shapes of tables and processes, with the     *)
(* lock and the default group; then what a process knows of the registry   *)
(* it has read; on these rest the references and the settings.             *)
(***************************************************************************)
EXTENDS Registry, TLAPS

----------------------------------------------------------------------------
(* Shapes                                                                  *)

\* Registries whose default group can be used.
Usable == {s \in Snapshot : enabledGroup(s, s.default)}

GroupStates == {"absent", "enabled", "disabled"}

GroupJob == [pc: {"references", "apply", "query"}, op: {"group"}, current: Usable,
             group: Groups, desired: Usable]
ApplyJob == [pc: {"apply", "query"}, op: {"settings", "sync"}, alone: BOOLEAN,
             before: Settings, settings: Settings, current: Usable, desired: Usable]
PlainJob == [pc: {"sync", "family", "persist"}, op: {"settings", "sync"}, alone: BOOLEAN,
             before: Settings, settings: Settings]
RuleJob  == [pc: {"publish"}, op: {"rules"}, rule: Rule \cup {None},
             restore: Groups \cup {None}]

Job == GroupJob \cup ApplyJob \cup PlainJob \cup RuleJob \cup {Idle}

\* Tables and messages have their shapes; every registry, also one that is delayed,
\* has a usable default group.
Tables ==
    /\ registry \in Usable /\ delayed \subseteq Usable /\ family \in Families
    /\ db \in Settings /\ stored \in Settings \cup {None}
    /\ active \in Version /\ candidates \subseteq Version
    /\ \A v \in candidates \cup {active} : v.number <= last
    /\ serving \in 0..last /\ late \subseteq 0..last
    /\ binding \in Groups \cup {None} /\ last \in Nat

Jobs == job \in [Processes -> Job]

Locked(x) == x.pc \in {"references", "publish"}

Locks ==
    /\ lock \in Processes \cup {None}
    /\ \A p \in Processes : Locked(job[p]) => lock = p

Shapes == Tables /\ Jobs /\ Locks

----------------------------------------------------------------------------
(* Processes                                                               *)

\* The pc tells which fields a process has.
LEMMA JobKinds ==
    ASSUME Jobs, NEW p \in Processes
    PROVE  /\ job[p].pc = "references" => job[p] \in GroupJob
           /\ job[p].pc \in {"apply", "query"} => job[p] \in GroupJob \cup ApplyJob
           /\ job[p].pc \in {"apply", "query"} /\ job[p].op = "group" => job[p] \in GroupJob
           /\ job[p].pc \in {"apply", "query"} /\ job[p].op # "group" => job[p] \in ApplyJob
           /\ job[p].pc \in {"sync", "family", "persist"} => job[p] \in PlainJob
           /\ job[p].pc = "publish" => job[p] \in RuleJob
  BY DEF Jobs, Job, GroupJob, ApplyJob, PlainJob, RuleJob, Idle

\* A process that sends a registry has one.
LEMMA SentUsable ==
    ASSUME Jobs, NEW p \in Processes, job[p].pc \in {"references", "apply", "query"}
    PROVE  job[p].desired \in Usable /\ job[p].current \in Usable
  BY JobKinds DEF GroupJob, ApplyJob

\* One process goes on; the others keep the lock if they have it.
LEMMA GoKeeps ==
    ASSUME Jobs, Locks, NEW p \in Processes, NEW x \in Job, Go(p, x),
           \/ UNCHANGED lock /\ (Locked(x) => Locked(job[p]))
           \/ lock = None /\ lock' = p
    PROVE  Jobs' /\ Locks'
  <1>1. /\ job' \in [Processes -> Job] /\ job'[p] = x
        /\ \A q \in Processes \ {p} : job'[q] = job[q]
    BY DEF Jobs, Go
  <1>2. \A q \in Processes : q # None
    BY RegistryAssumption DEF RegistryAssumption
  <1> QED BY <1>1, <1>2 DEF Jobs, Locks

\* One process is done.
LEMMA FinishKeeps ==
    ASSUME Jobs, Locks, NEW p \in Processes, Finish(p)
    PROVE  Jobs' /\ Locks'
  <1>1. /\ job' \in [Processes -> Job] /\ job'[p] = Idle
        /\ \A q \in Processes \ {p} : job'[q] = job[q]
    BY DEF Jobs, Finish, Go, Job
  <1>2. lock' = IF lock = p THEN None ELSE lock BY DEF Finish
  <1>3. ~Locked(Idle) BY DEF Locked, Idle
  <1> QED BY <1>1, <1>2, <1>3 DEF Jobs, Locks

\* A registry that differs from a usable one in groups, default or cache.
LEMMA DesiredUsable ==
    ASSUME NEW current \in Usable, NEW groups \in [Groups -> GroupStates],
           NEW d \in Groups, NEW c \in Caches, groups[d] = "enabled"
    PROVE  /\ Desired(current, groups, d, c) \in Usable
           /\ Desired(current, groups, d, c).version = current.version + 1
           /\ Desired(current, groups, d, c).groups = groups
           /\ Desired(current, groups, d, c).default = d
           /\ Desired(current, groups, d, c).cache = c
  <1>1. current.version \in Nat BY DEF Usable, Snapshot
  <1> QED BY <1>1 DEF Desired, Usable, Snapshot, enabledGroup, GroupStates

\* The fields of a usable registry.
LEMMA UsableFields ==
    ASSUME NEW s \in Usable
    PROVE  /\ s.version \in Nat /\ s.groups \in [Groups -> GroupStates]
           /\ s.default \in Groups /\ s.cache \in Caches /\ s.groups[s.default] = "enabled"
  BY DEF Usable, Snapshot, enabledGroup, GroupStates

\* A change of one group that is not the default, or that leaves it enabled.
LEMMA ChangeShape ==
    ASSUME Tables, NEW g \in Groups, NEW state \in GroupStates,
           g # registry.default \/ state = "enabled"
    PROVE  /\ Change(g, state) \in GroupJob /\ Change(g, state).pc = "apply"
           /\ [Change(g, state) EXCEPT !.pc = "references"] \in GroupJob
           /\ [Change(g, state) EXCEPT !.pc = "apply"] = Change(g, state)
           /\ Change(g, state).desired.version = registry.version + 1
           /\ Change(g, state).desired.groups = [registry.groups EXCEPT ![g] = state]
           /\ Change(g, state).desired.default = registry.default
           /\ Change(g, state).desired.cache = registry.cache
  <1> DEFINE groups == [registry.groups EXCEPT ![g] = state]
             d == Desired(registry, groups, registry.default, registry.cache)
  <1>1. registry \in Usable BY DEF Tables
  <1>2. groups \in [Groups -> GroupStates] /\ groups[registry.default] = "enabled"
    BY <1>1, UsableFields
  <1>3. /\ d \in Usable /\ d.version = registry.version + 1 /\ d.groups = groups
        /\ d.default = registry.default /\ d.cache = registry.cache
    BY <1>1, <1>2, DesiredUsable, UsableFields
  <1>4. Change(g, state) = [pc |-> "apply", op |-> "group", current |-> registry,
                            group |-> g, desired |-> d]
    BY DEF Change
  <1> HIDE DEF d
  <1> QED BY <1>1, <1>3, <1>4 DEF GroupJob

\* What applyRegistry returned is what will be persisted.
LEMMA AsAppliedShape ==
    ASSUME NEW settings \in Settings, NEW applied \in Usable
    PROVE  /\ AsApplied(settings, applied) \in Settings
           /\ AsApplied(settings, applied).default = applied.default
           /\ AsApplied(settings, applied).cache = applied.cache
           /\ AsApplied(settings, applied).family = settings.family
  BY UsableFields DEF AsApplied, Settings

\* applyRegistry returned: a group change is done, settings go on.
LEMMA AppliedKeeps ==
    ASSUME Jobs, Locks, NEW p \in Processes, NEW applied \in Usable,
           job[p].pc \in {"apply", "query"}, Applied(p, applied)
    PROVE  Jobs' /\ Locks'
  <1>1. CASE job[p].op = "group" BY <1>1, FinishKeeps DEF Applied
  <1>2. CASE job[p].op # "group"
    <2> DEFINE x == [pc |-> "family", op |-> job[p].op, alone |-> job[p].alone,
                     before |-> job[p].before,
                     settings |-> AsApplied(job[p].settings, applied)]
    <2>1. job[p] \in ApplyJob BY <1>2, JobKinds
    <2>2. x \in PlainJob /\ ~Locked(x)
      BY <2>1, AsAppliedShape DEF ApplyJob, PlainJob, Locked
    <2>3. Go(p, x) /\ UNCHANGED lock BY <1>2 DEF Applied
    <2> HIDE DEF x
    <2> QED BY <2>2, <2>3, GoKeeps DEF Job
  <1> QED BY <1>1, <1>2

----------------------------------------------------------------------------
(* What a step does                                                        *)

\* The process has computed a registry.
HasDesired(x) == x.pc \in {"references", "apply", "query"}

\* The change takes a usable group away.
Disables(x) ==
    /\ x.op = "group"
    /\ x.current.groups[x.group] = "enabled" /\ x.desired.groups[x.group] # "enabled"

\* How a computed registry differs from the one that was read.
Derived(x) ==
    /\ x.desired.version = x.current.version + 1
    /\ IF x.op = "group"
       THEN /\ x.desired.default = x.current.default /\ x.desired.cache = x.current.cache
            /\ \A g \in Groups \ {x.group} : x.desired.groups[g] = x.current.groups[g]
       ELSE x.desired.groups = x.current.groups

Carries(x, y) ==
    /\ y.op = x.op /\ y.current = x.current /\ y.desired = x.desired
    /\ x.op = "group" => y.group = x.group

\* A process keeps the registry it has computed, or computes one from the registry as it
\* is now; it sends one that takes a group away only after the check, with the lock.
JobMoves(q) ==
    \/ ~HasDesired(job'[q])
    \/ /\ HasDesired(job[q]) /\ Carries(job[q], job'[q])
       /\ job'[q].pc = "apply" =>
            \/ job[q].pc = "apply"
            \/ lock = q /\ ~upstreamGroupReferencedBySubscriptions(job[q].group)
       /\ lock = q => lock' = q
    \/ /\ HasDesired(job'[q]) /\ job'[q].current = registry /\ Derived(job'[q])
       /\ registry' = registry
       /\ Disables(job'[q]) => job'[q].pc = "references" /\ lock' = q

\* mosdns takes a registry from a process that waits, or one that nobody waits for.
RegistryMoves ==
    \/ UNCHANGED <<registry, overtaken>>
    \/ /\ UNCHANGED overtaken
       /\ \E p \in Processes :
            job[p].pc = "apply" /\ Takes(job[p].desired) /\ registry' = job[p].desired
    \/ overtaken' /\ registry'.version = registry.version + 1

\* The groups that are named, or will be when a publication is undone.
Referenced(g) ==
    \/ binding = g
    \/ \E v \in candidates \cup {active} : Names(v, g)
    \/ \E p \in Processes : job[p].pc = "publish" /\ job[p].restore = g

\* A new reference is to a usable group and comes from a holder of the lock.
ReferenceMoves ==
    \A g \in Groups : Referenced(g)' =>
        \/ Referenced(g)
        \/ /\ registry.groups[g] = "enabled" /\ UNCHANGED registry
           /\ \E p \in Processes : lock' \in {p, None} /\ ~HasDesired(job'[p])

Moves == RegistryMoves /\ ReferenceMoves /\ \A q \in Processes : JobMoves(q)

\* Tables that no rule writer touches.
SameRules == UNCHANGED <<binding, active, candidates>>

\* A process that goes on without a computed registry, or with the one it had.
LEMMA JobMovesGo ==
    ASSUME Jobs, NEW p \in Processes, NEW x \in Job, Go(p, x),
           lock' = lock \/ lock = None,
           \/ ~HasDesired(x)
           \/ /\ HasDesired(job[p]) /\ Carries(job[p], x) /\ UNCHANGED lock
              /\ x.pc = "apply" => \/ job[p].pc = "apply"
                                  \/ /\ lock = p
                                     /\ ~upstreamGroupReferencedBySubscriptions(job[p].group)
           \/ /\ HasDesired(x) /\ x.current = registry /\ Derived(x) /\ UNCHANGED registry
              /\ Disables(x) => x.pc = "references" /\ lock' = p
    PROVE  /\ \A q \in Processes : JobMoves(q)
           /\ job'[p] = x /\ \A q \in Processes \ {p} : job'[q] = job[q]
  <1>1. /\ job'[p] = x /\ \A q \in Processes \ {p} : job'[q] = job[q]
    BY DEF Jobs, Go
  <1>2. \A q \in Processes : q # None
    BY RegistryAssumption DEF RegistryAssumption
  <1>3. ASSUME NEW q \in Processes \ {p} PROVE JobMoves(q)
    BY <1>1, <1>2 DEF JobMoves, Carries
  <1>4. JobMoves(p) BY <1>1 DEF JobMoves
  <1> QED BY <1>1, <1>3, <1>4

\* A process that ends.
LEMMA JobMovesFinish ==
    ASSUME Jobs, NEW p \in Processes, Finish(p)
    PROVE  /\ \A q \in Processes : JobMoves(q)
           /\ job'[p] = Idle /\ \A q \in Processes \ {p} : job'[q] = job[q]
  <1>1. /\ job'[p] = Idle /\ \A q \in Processes \ {p} : job'[q] = job[q]
    BY DEF Jobs, Finish, Go
  <1>2. ~HasDesired(Idle) BY DEF HasDesired, Idle
  <1>3. ASSUME NEW q \in Processes \ {p} PROVE JobMoves(q)
    BY <1>1 DEF JobMoves, Carries, Finish
  <1>4. JobMoves(p) BY <1>1, <1>2 DEF JobMoves
  <1> QED BY <1>1, <1>3, <1>4

\* No rule table changes and nobody begins to publish.
LEMMA NoNewReferences ==
    ASSUME SameRules,
           \A q \in Processes : job'[q].pc = "publish" => job'[q] = job[q]
    PROVE  ReferenceMoves
  BY DEF SameRules, ReferenceMoves, Referenced, Names

\* A process that goes on and writes no rule table.
LEMMA GoStep ==
    ASSUME Shapes, Tables', RegistryMoves, SameRules,
           NEW p \in Processes, NEW x \in Job, Go(p, x), x.pc # "publish",
           \/ UNCHANGED lock /\ (Locked(x) => Locked(job[p]))
           \/ lock = None /\ lock' = p,
           \/ ~HasDesired(x)
           \/ /\ HasDesired(job[p]) /\ Carries(job[p], x) /\ UNCHANGED lock
              /\ x.pc = "apply" => \/ job[p].pc = "apply"
                                  \/ /\ lock = p
                                     /\ ~upstreamGroupReferencedBySubscriptions(job[p].group)
           \/ /\ HasDesired(x) /\ x.current = registry /\ Derived(x) /\ UNCHANGED registry
              /\ Disables(x) => x.pc = "references" /\ lock' = p
    PROVE  Shapes' /\ Moves
  <1>1. Jobs' /\ Locks' BY GoKeeps DEF Shapes
  <1>2. /\ \A q \in Processes : JobMoves(q)
        /\ job'[p] = x /\ \A q \in Processes \ {p} : job'[q] = job[q]
    BY JobMovesGo DEF Shapes
  <1>3. ReferenceMoves BY <1>2, NoNewReferences
  <1> QED BY <1>1, <1>2, <1>3 DEF Shapes, Moves

\* A process that ends and writes no rule table.
LEMMA FinishStep ==
    ASSUME Shapes, Tables', RegistryMoves, SameRules, NEW p \in Processes, Finish(p)
    PROVE  Shapes' /\ Moves
  <1>1. Jobs' /\ Locks' BY FinishKeeps DEF Shapes
  <1>2. /\ \A q \in Processes : JobMoves(q)
        /\ job'[p] = Idle /\ \A q \in Processes \ {p} : job'[q] = job[q]
    BY JobMovesFinish DEF Shapes
  <1>3. Idle.pc # "publish" BY DEF Idle
  <1>4. ReferenceMoves BY <1>2, <1>3, NoNewReferences
  <1> QED BY <1>1, <1>2, <1>4 DEF Shapes, Moves

\* No table changes.
LEMMA SameTables ==
    ASSUME Tables, UNCHANGED <<mosdns, rules, db, stored>>
    PROVE  Tables' /\ RegistryMoves /\ SameRules
  BY DEF Tables, mosdns, rules, RegistryMoves, SameRules

----------------------------------------------------------------------------
(* Group requests                                                          *)

\* A change of a group is computed from the registry as it is.
LEMMA ChangeDerived ==
    ASSUME Tables, NEW g \in Groups, NEW state \in GroupStates,
           g # registry.default \/ state = "enabled", NEW pc \in {"apply", "references"}
    PROVE  LET x == [Change(g, state) EXCEPT !.pc = pc]
           IN  /\ x \in Job /\ x.pc = pc /\ HasDesired(x) /\ x.current = registry /\ Derived(x)
               /\ Disables(x) => registry.groups[g] = "enabled" /\ state # "enabled"
  <1> DEFINE x == [Change(g, state) EXCEPT !.pc = pc]
  <1>1. /\ Change(g, state) \in GroupJob
        /\ [Change(g, state) EXCEPT !.pc = "references"] \in GroupJob
        /\ [Change(g, state) EXCEPT !.pc = "apply"] = Change(g, state)
        /\ Change(g, state).desired.version = registry.version + 1
        /\ Change(g, state).desired.groups = [registry.groups EXCEPT ![g] = state]
        /\ Change(g, state).desired.default = registry.default
        /\ Change(g, state).desired.cache = registry.cache
    BY ChangeShape
  <1>2. registry.groups \in [Groups -> GroupStates] BY UsableFields DEF Tables
  <1>3. /\ Change(g, state).current = registry /\ Change(g, state).op = "group"
        /\ Change(g, state).group = g
    BY DEF Change
  <1>4. /\ x \in GroupJob /\ x.pc = pc /\ x.op = "group" /\ x.group = g
        /\ x.current = registry /\ x.desired = Change(g, state).desired
    BY <1>1, <1>3 DEF GroupJob
  <1> HIDE DEF x
  <1>5. x \in Job /\ HasDesired(x) BY <1>4 DEF Job, HasDesired
  <1>6. Derived(x) BY <1>1, <1>2, <1>4 DEF Derived
  <1>7. Disables(x) => registry.groups[g] = "enabled" /\ state # "enabled"
    BY <1>1, <1>2, <1>4 DEF Disables
  <1> QED BY <1>4, <1>5, <1>6, <1>7 DEF x

\* CreateUpstreamGroup, UpdateUpstreamGroup and DeleteUpstreamGroup.
LEMMA GroupRequestStep ==
    ASSUME Shapes, NEW p \in Processes, GroupRequest(p)
    PROVE  Shapes' /\ Moves
  <1> USE DEF Shapes
  <1>0. /\ {"enabled", "disabled"} \subseteq GroupStates /\ "absent" \in GroupStates
        /\ registry.groups \in [Groups -> GroupStates]
        /\ registry.groups[registry.default] = "enabled"
    BY UsableFields DEF GroupStates, Tables
  <1>1. ASSUME NEW g \in Groups, NEW state \in {"enabled", "disabled"},
               CreateUpstreamGroup(p, g, state)
        PROVE  Shapes' /\ Moves
    <2>1. g # registry.default /\ registry.groups[g] # "enabled"
      BY <1>0, <1>1 DEF CreateUpstreamGroup, Present
    <2> DEFINE x == [Change(g, state) EXCEPT !.pc = "apply"]
    <2>2. x = Change(g, state) BY <1>0, <2>1, ChangeShape
    <2>3. x \in Job /\ x.pc = "apply" /\ HasDesired(x) /\ x.current = registry /\ Derived(x)
          /\ ~Disables(x)
      BY <1>0, <2>1, ChangeDerived
    <2>4. Go(p, x) /\ UNCHANGED <<mosdns, rules, db, stored, lock>>
      BY <1>1, <2>2 DEF CreateUpstreamGroup
    <2> HIDE DEF x
    <2>5. ~Locked(x) /\ x.pc # "publish" BY <2>3 DEF Locked
    <2>6. Tables' /\ RegistryMoves /\ SameRules /\ UNCHANGED registry
      BY <2>4, SameTables DEF mosdns
    <2> QED BY <2>3, <2>4, <2>5, <2>6, GoStep
  <1>2. ASSUME NEW g \in Groups, NEW state \in GroupStates, NEW pc \in {"apply", "references"},
               g # registry.default \/ state = "enabled",
               registry.groups[g] = "enabled" /\ state # "enabled" => pc = "references",
               Lock(p), Go(p, [Change(g, state) EXCEPT !.pc = pc]),
               UNCHANGED <<mosdns, rules, db, stored>>
        PROVE  Shapes' /\ Moves
    <2> DEFINE x == [Change(g, state) EXCEPT !.pc = pc]
    <2>1. x \in Job /\ x.pc = pc /\ HasDesired(x) /\ x.current = registry /\ Derived(x)
          /\ (Disables(x) => registry.groups[g] = "enabled" /\ state # "enabled")
      BY <1>2, ChangeDerived
    <2>2. Go(p, x) BY <1>2
    <2> HIDE DEF x
    <2>3. x.pc # "publish" /\ lock = None /\ lock' = p BY <1>2, <2>1 DEF Lock
    <2>4. Tables' /\ RegistryMoves /\ SameRules /\ UNCHANGED registry
      BY <1>2, SameTables DEF mosdns
    <2> QED BY <1>2, <2>1, <2>2, <2>3, <2>4, GoStep
  <1>3. ASSUME NEW g \in Groups, NEW state \in {"enabled", "disabled"},
               UpdateUpstreamGroup(p, g, state)
        PROVE  Shapes' /\ Moves
    <2> DEFINE pc == IF enabledGroup(registry, g) /\ state = "disabled" THEN "references" ELSE "apply"
    <2>1. /\ g # registry.default \/ state = "enabled"
          /\ pc \in {"apply", "references"} /\ state \in GroupStates
          /\ registry.groups[g] = "enabled" /\ state # "enabled" => pc = "references"
      BY <1>0, <1>3 DEF UpdateUpstreamGroup, Protected, enabledGroup
    <2>2. /\ Lock(p) /\ Go(p, [Change(g, state) EXCEPT !.pc = pc])
          /\ UNCHANGED <<mosdns, rules, db, stored>>
      BY <1>3 DEF UpdateUpstreamGroup
    <2> HIDE DEF pc
    <2> QED BY <1>2, <2>1, <2>2
  <1>4. ASSUME NEW g \in Groups, DeleteUpstreamGroup(p, g)
        PROVE  Shapes' /\ Moves
    <2>1. /\ g # registry.default /\ Lock(p) /\ UNCHANGED <<mosdns, rules, db, stored>>
          /\ Go(p, [Change(g, "absent") EXCEPT !.pc = "references"])
      BY <1>4 DEF DeleteUpstreamGroup, Protected
    <2> QED BY <1>0, <1>2, <2>1
  <1> QED BY <1>1, <1>3, <1>4 DEF GroupRequest

----------------------------------------------------------------------------
(* applyRegistry                                                           *)

\* applyRegistry returned a registry.
LEMMA AppliedStep ==
    ASSUME Shapes, Tables', RegistryMoves, SameRules, NEW p \in Processes,
           NEW applied \in Usable, job[p].pc \in {"apply", "query"}, Applied(p, applied)
    PROVE  Shapes' /\ Moves
  <1>1. CASE job[p].op = "group" BY <1>1, FinishStep DEF Applied
  <1>2. CASE job[p].op # "group"
    <2> DEFINE x == [pc |-> "family", op |-> job[p].op, alone |-> job[p].alone,
                     before |-> job[p].before,
                     settings |-> AsApplied(job[p].settings, applied)]
    <2>1. job[p] \in ApplyJob BY <1>2, JobKinds DEF Shapes
    <2>2. x \in PlainJob /\ x.pc = "family"
      BY <2>1, AsAppliedShape DEF ApplyJob, PlainJob
    <2>3. Go(p, x) /\ UNCHANGED lock BY <1>2 DEF Applied
    <2> HIDE DEF x
    <2>4. x \in Job /\ ~Locked(x) /\ ~HasDesired(x) /\ x.pc # "publish"
      BY <2>2 DEF Job, Locked, HasDesired
    <2> QED BY <2>3, <2>4, GoStep
  <1> QED BY <1>1, <1>2

\* mosdns takes the registry of a process that waits.
LEMMA TakenTables ==
    ASSUME Tables, NEW p \in Processes, job[p].pc = "apply", job[p].desired \in Usable,
           Takes(Sent(p)), registry' = Sent(p),
           UNCHANGED <<family, delayed, overtaken, rules, db, stored>>
    PROVE  Tables' /\ RegistryMoves /\ SameRules
  BY DEF Tables, rules, RegistryMoves, SameRules, Sent

\* A registry is sent or need not be.
LEMMA ApplyStep ==
    ASSUME Shapes, NEW p \in Processes,
           \/ ApplyEqual(p) \/ ApplyAnswered(p) \/ ApplyRefused(p)
           \/ ApplyUnanswered(p) \/ ApplyQuery(p)
    PROVE  Shapes' /\ Moves
  <1> USE DEF Shapes
  <1>0. job[p].pc \in {"apply", "query"} /\ job[p].desired \in Usable /\ job[p].current \in Usable
    BY SentUsable DEF ApplyEqual, ApplyAnswered, ApplyRefused, ApplyUnanswered, ApplyQuery, Send
  <1>1. CASE ApplyEqual(p)
    BY <1>0, <1>1, SameTables, AppliedStep DEF ApplyEqual
  <1>2. CASE ApplyAnswered(p)
    <2>1. Tables' /\ RegistryMoves /\ SameRules
      BY <1>0, <1>2, TakenTables DEF ApplyAnswered, Send
    <2> QED BY <1>0, <1>2, <2>1, AppliedStep DEF ApplyAnswered, Sent
  <1>3. CASE ApplyRefused(p)
    BY <1>3, SameTables, FinishStep DEF ApplyRefused
  <1>4. CASE ApplyUnanswered(p)
    <2> DEFINE x == [job[p] EXCEPT !.pc = "query"]
    <2>1. job[p].pc = "apply" /\ Go(p, x) /\ UNCHANGED lock
      BY <1>4 DEF ApplyUnanswered, Send
    <2>2. job[p] \in GroupJob \cup ApplyJob BY <2>1, JobKinds
    <2>3. x \in Job /\ x.pc = "query" /\ Carries(job[p], x)
      <3>1. CASE job[p] \in GroupJob BY <3>1 DEF GroupJob, Job, Carries
      <3>2. CASE job[p] \in ApplyJob BY <3>2 DEF ApplyJob, Job, Carries
      <3> QED BY <2>2, <3>1, <3>2
    <2> HIDE DEF x
    <2>4. Tables' /\ RegistryMoves /\ SameRules
      <3>1. CASE UNCHANGED delayed /\ registry' # registry
        BY <1>0, <1>4, <2>1, <3>1, TakenTables DEF ApplyUnanswered
      <3>2. CASE UNCHANGED registry
        BY <1>0, <1>4, <3>2 DEF ApplyUnanswered, Tables, rules, RegistryMoves, SameRules, Sent
      <3> QED BY <1>4, <3>1, <3>2 DEF ApplyUnanswered
    <2>5. HasDesired(job[p]) /\ ~Locked(x) BY <2>1, <2>3 DEF HasDesired, Locked
    <2> QED BY <2>1, <2>3, <2>4, <2>5, GoStep
  <1>5. CASE ApplyQuery(p)
    <2>1. Tables' /\ RegistryMoves /\ SameRules /\ registry \in Usable
      BY <1>5, SameTables DEF ApplyQuery, Tables
    <2> QED BY <1>0, <1>5, <2>1, AppliedStep, FinishStep DEF ApplyQuery
  <1> QED BY <1>1, <1>2, <1>3, <1>4, <1>5

\* mosdns executes a request that nobody waits for.
LEMMA TakeDelayedStep ==
    ASSUME Shapes, NEW snapshot \in delayed, TakeDelayed(snapshot)
    PROVE  Shapes' /\ Moves
  <1>1. Tables' /\ RegistryMoves /\ SameRules
    BY DEF Shapes, TakeDelayed, Takes, Tables, rules, RegistryMoves, SameRules
  <1>2. Jobs' /\ Locks' BY DEF Shapes, TakeDelayed, Jobs, Locks
  <1>3. \A q \in Processes : JobMoves(q) BY DEF TakeDelayed, JobMoves, Carries
  <1>4. ReferenceMoves BY <1>1, NoNewReferences DEF TakeDelayed
  <1> QED BY <1>1, <1>2, <1>3, <1>4 DEF Shapes, Moves

\* The check of references.
LEMMA CheckReferencesStep ==
    ASSUME Shapes, NEW p \in Processes, CheckReferences(p)
    PROVE  Shapes' /\ Moves
  <1>1. Tables' /\ RegistryMoves /\ SameRules BY SameTables DEF Shapes, CheckReferences
  <1>2. CASE Finish(p) BY <1>1, <1>2, FinishStep
  <1>3. CASE /\ ~upstreamGroupReferencedBySubscriptions(job[p].group)
             /\ Go(p, [job[p] EXCEPT !.pc = "apply"])
             /\ UNCHANGED lock
    <2> DEFINE x == [job[p] EXCEPT !.pc = "apply"]
    <2>1. job[p].pc = "references" /\ job[p] \in GroupJob
      BY JobKinds DEF Shapes, CheckReferences
    <2>2. x \in GroupJob /\ x.pc = "apply" /\ Carries(job[p], x) BY <2>1 DEF GroupJob, Carries
    <2>3. Go(p, x) BY <1>3
    <2> HIDE DEF x
    <2>4. x \in Job /\ ~Locked(x) /\ HasDesired(job[p]) /\ x.pc # "publish" /\ lock = p
      BY <2>1, <2>2 DEF Job, Locked, HasDesired, Shapes, Locks
    <2> QED BY <1>1, <1>3, <2>2, <2>3, <2>4, GoStep
  <1> QED BY <1>2, <1>3 DEF CheckReferences

----------------------------------------------------------------------------
(* Settings                                                                *)

\* What GoSettings leaves of the other processes.
LEMMA GoSettingsOthers ==
    ASSUME Jobs, NEW p \in Processes, NEW x, GoSettings(p, x)
    PROVE  /\ job' = [q \in Processes |-> job'[q]]
           /\ job'[p] = [x EXCEPT !.alone = ~\E r \in Processes : IsSettings(r)]
           /\ \A q \in Processes \ {p} :
                /\ job'[q] \in Job /\ job'[q].pc = job[q].pc
                /\ HasDesired(job[q]) => Carries(job[q], job'[q])
                /\ job'[q] = IF IsSettings(q) THEN [job[q] EXCEPT !.alone = FALSE] ELSE job[q]
  <1>1. /\ job' = [q \in Processes |-> job'[q]]
        /\ job'[p] = [x EXCEPT !.alone = ~\E r \in Processes : IsSettings(r)]
        /\ \A q \in Processes \ {p} :
             job'[q] = IF IsSettings(q) THEN [job[q] EXCEPT !.alone = FALSE] ELSE job[q]
    BY DEF GoSettings
  <1>2. ASSUME NEW q \in Processes \ {p}
        PROVE  /\ job'[q] \in Job /\ job'[q].pc = job[q].pc
               /\ HasDesired(job[q]) => Carries(job[q], job'[q])
    <2>1. CASE ~IsSettings(q) BY <1>1, <2>1 DEF Jobs, Carries
    <2>2. CASE IsSettings(q)
      <3>1. job[q] \in ApplyJob \cup PlainJob
        BY <2>2 DEF IsSettings, Jobs, Job, GroupJob, RuleJob, Idle
      <3>2. job'[q] = [job[q] EXCEPT !.alone = FALSE] BY <1>1, <2>2
      <3>3. CASE job[q] \in ApplyJob BY <3>2, <3>3 DEF ApplyJob, Job, Carries
      <3>4. CASE job[q] \in PlainJob BY <3>2, <3>4 DEF PlainJob, Job, HasDesired
      <3> QED BY <3>1, <3>3, <3>4
    <2> QED BY <2>1, <2>2
  <1> QED BY <1>1, <1>2

\* A settings operation begins.
LEMMA GoSettingsStep ==
    ASSUME Shapes, Tables', RegistryMoves, SameRules, UNCHANGED <<registry, lock>>,
           NEW p \in Processes, job[p] = Idle, NEW x, GoSettings(p, x),
           \A b \in BOOLEAN :
             LET y == [x EXCEPT !.alone = b]
             IN  /\ y \in Job /\ ~Locked(y)
                 /\ HasDesired(y) => y.current = registry /\ Derived(y) /\ ~Disables(y)
    PROVE  Shapes' /\ Moves
  <1> DEFINE b == ~\E r \in Processes : IsSettings(r)
             y == [x EXCEPT !.alone = b]
  <1>1. /\ job' = [q \in Processes |-> job'[q]] /\ job'[p] = y
        /\ \A q \in Processes \ {p} :
             /\ job'[q] \in Job /\ job'[q].pc = job[q].pc
             /\ HasDesired(job[q]) => Carries(job[q], job'[q])
             /\ job'[q] = IF IsSettings(q) THEN [job[q] EXCEPT !.alone = FALSE] ELSE job[q]
    BY GoSettingsOthers DEF Shapes
  <1>2. b \in BOOLEAN OBVIOUS
  <1> HIDE DEF b
  <1>3. /\ y \in Job /\ ~Locked(y)
        /\ HasDesired(y) => y.current = registry /\ Derived(y) /\ ~Disables(y)
    BY <1>2
  <1> HIDE DEF y
  <1>4. Jobs' BY <1>1, <1>3 DEF Jobs
  <1>5. Locks' BY <1>1, <1>3 DEF Shapes, Locks, Locked
  <1>6. ASSUME NEW q \in Processes PROVE JobMoves(q)
    <2>1. CASE q = p BY <1>1, <1>3, <2>1 DEF JobMoves
    <2>2. CASE q # p BY <1>1, <2>2 DEF JobMoves, HasDesired
    <2> QED BY <2>1, <2>2
  <1>7. ASSUME NEW q \in Processes, job'[q].pc = "publish" PROVE job'[q] = job[q]
    <2>1. q # p BY <1>1, <1>3, <1>7 DEF Locked
    <2>2. job[q].pc = "publish" BY <1>1, <1>7, <2>1
    <2>3. job[q].op = "rules" BY <2>2, JobKinds DEF Shapes, RuleJob
    <2> QED BY <1>1, <2>1, <2>3 DEF IsSettings
  <1>8. ReferenceMoves BY <1>7, NoNewReferences
  <1> QED BY <1>4, <1>5, <1>6, <1>8 DEF Shapes, Moves

\* The job of UpdateSettings and of SyncSettings once it has read the registry.
LEMMA SettingsJob ==
    ASSUME Tables, NEW o \in {"settings", "sync"}, NEW a \in BOOLEAN, NEW before \in Settings,
           NEW settings \in Settings, NEW d \in Groups, NEW c \in Caches,
           enabledGroup(registry, d)
    PROVE  LET x == [pc |-> "apply", op |-> o, alone |-> a, before |-> before,
                     settings |-> settings, current |-> registry,
                     desired |-> Desired(registry, registry.groups, d, c)]
           IN  /\ x \in ApplyJob /\ x \in Job /\ x.pc = "apply" /\ ~Locked(x) /\ HasDesired(x)
               /\ x.current = registry /\ Derived(x) /\ ~Disables(x)
               /\ x.op = o /\ x.alone = a /\ x.before = before /\ x.settings = settings
               /\ x.desired.default = d /\ x.desired.cache = c
  <1> DEFINE r == Desired(registry, registry.groups, d, c)
             x == [pc |-> "apply", op |-> o, alone |-> a, before |-> before,
                   settings |-> settings, current |-> registry, desired |-> r]
  <1>1. /\ registry \in Usable /\ registry.groups \in [Groups -> GroupStates]
        /\ registry.groups[d] = "enabled"
    BY UsableFields DEF Tables, enabledGroup
  <1>2. /\ r \in Usable /\ r.version = registry.version + 1 /\ r.groups = registry.groups
        /\ r.default = d /\ r.cache = c
    BY <1>1, DesiredUsable
  <1> HIDE DEF r
  <1>3. /\ x.pc = "apply" /\ x.op = o /\ x.alone = a /\ x.before = before
        /\ x.settings = settings /\ x.current = registry /\ x.desired = r
    OBVIOUS
  <1>4. x \in ApplyJob BY <1>1, <1>2 DEF ApplyJob
  <1> HIDE DEF x
  <1>5. Derived(x) /\ ~Disables(x) BY <1>2, <1>3 DEF Derived, Disables
  <1>6. x \in Job /\ ~Locked(x) /\ HasDesired(x) BY <1>3, <1>4 DEF Job, Locked, HasDesired
  <1>7. x.desired.default = d /\ x.desired.cache = c BY <1>2, <1>3
  <1> QED BY <1>3, <1>4, <1>5, <1>6, <1>7 DEF x, r

\* UpdateSettings.
LEMMA UpdateSettingsStep ==
    ASSUME Shapes, NEW p \in Processes,
           NEW settings \in [default: Groups, cache: Caches, family: Families],
           UpdateSettings(p, settings)
    PROVE  Shapes' /\ Moves
  <1>1. Tables' /\ RegistryMoves /\ SameRules /\ UNCHANGED <<registry, lock>>
    BY DEF UpdateSettings, Shapes, Tables, mosdns, rules, RegistryMoves, SameRules
  <1> DEFINE r == Desired(registry, registry.groups, settings.default, settings.cache)
             x == [pc |-> "apply", op |-> "settings", alone |-> TRUE, before |-> db,
                   settings |-> settings, current |-> registry, desired |-> r]
             y(b) == [pc |-> "apply", op |-> "settings", alone |-> b, before |-> db,
                      settings |-> settings, current |-> registry, desired |-> r]
  <1>2. settings \in Settings /\ settings.default \in Groups /\ settings.cache \in Caches
    BY DEF Settings
  <1>3. ASSUME NEW b \in BOOLEAN
        PROVE  /\ y(b) \in Job /\ ~Locked(y(b)) /\ y(b).current = registry
               /\ Derived(y(b)) /\ ~Disables(y(b))
    BY <1>2, SettingsJob DEF UpdateSettings, Shapes, Tables
  <1>4. GoSettings(p, x) /\ job[p] = Idle BY DEF UpdateSettings
  <1>5. \A b \in BOOLEAN : [x EXCEPT !.alone = b] = y(b) OBVIOUS
  <1> HIDE DEF x, y
  <1> QED BY <1>1, <1>3, <1>4, <1>5, GoSettingsStep

\* SyncSettings reads the database.
LEMMA SyncSettingsStep ==
    ASSUME Shapes, SyncSettings
    PROVE  Shapes' /\ Moves
  <1>1. Tables' /\ RegistryMoves /\ SameRules /\ UNCHANGED <<registry, lock>>
    BY SameTables DEF SyncSettings, Shapes, mosdns
  <1> DEFINE x == [pc |-> "sync", op |-> "sync", alone |-> TRUE, before |-> db, settings |-> db]
  <1>2. ASSUME NEW b \in BOOLEAN
        PROVE  LET y == [x EXCEPT !.alone = b]
               IN  y \in Job /\ ~Locked(y) /\ ~HasDesired(y)
    BY DEF Shapes, Tables, PlainJob, Job, Locked, HasDesired
  <1>3. GoSettings(Periodic, x) /\ job[Periodic] = Idle /\ Periodic \in Processes
    BY DEF SyncSettings, Processes
  <1> HIDE DEF x
  <1> QED BY <1>1, <1>2, <1>3, GoSettingsStep

\* ... and the registry.
LEMMA SyncRegistryStep ==
    ASSUME Shapes, NEW p \in Processes, SyncRegistry(p)
    PROVE  Shapes' /\ Moves
  <1>1. Tables' /\ RegistryMoves /\ SameRules /\ UNCHANGED registry
    BY SameTables DEF SyncRegistry, Shapes, mosdns
  <1>2. CASE Finish(p) BY <1>1, <1>2, FinishStep
  <1>3. CASE ~Finish(p)
    <2> DEFINE settings == job[p].settings
               d == SyncDefault(settings)
               x == [pc |-> "apply", op |-> "sync", alone |-> job[p].alone,
                     before |-> job[p].before, settings |-> settings, current |-> registry,
                     desired |-> Desired(registry, registry.groups, d, settings.cache)]
    <2>1. job[p] \in PlainJob BY JobKinds DEF SyncRegistry, Shapes
    <2>2. enabledGroup(registry, d) /\ Go(p, x) /\ UNCHANGED lock
      BY <1>3 DEF SyncRegistry
    <2>3. /\ job[p].alone \in BOOLEAN /\ job[p].before \in Settings /\ settings \in Settings
          /\ d \in Groups /\ settings.cache \in Caches
      BY <2>1, <2>2 DEF PlainJob, Settings, enabledGroup
    <2>4. x \in Job /\ ~Locked(x) /\ HasDesired(x) /\ x.current = registry /\ Derived(x)
          /\ ~Disables(x) /\ x.pc = "apply"
      BY <2>2, <2>3, SettingsJob DEF Shapes
    <2> HIDE DEF x
    <2> QED BY <1>1, <2>2, <2>4, GoStep
  <1> QED BY <1>2, <1>3

\* The address family and persistSettings.
LEMMA FamilyStep ==
    ASSUME Shapes, NEW p \in Processes,
           \/ FamilyKept(p) \/ FamilyApplied(p) \/ FamilyFails(p)
           \/ Persist(p) \/ PersistFails(p)
    PROVE  Shapes' /\ Moves
  <1>1. /\ job[p] \in PlainJob /\ job[p].settings \in Settings /\ job[p].settings.family \in Families
        /\ job[p].before.family \in Families
    <2>1. job[p] \in PlainJob
      BY JobKinds DEF Shapes, FamilyKept, FamilyApplied, FamilyFails, FamilyWanted, Persist, PersistFails
    <2> QED BY <2>1 DEF PlainJob, Settings
  <1>2. Tables' /\ RegistryMoves /\ SameRules
    BY <1>1 DEF Shapes, Tables, mosdns, rules, RegistryMoves, SameRules,
                FamilyKept, FamilyApplied, FamilyFails, Persist, PersistFails
  <1>3. ASSUME NEW x \in PlainJob, x.pc = "persist", Go(p, x), UNCHANGED lock
        PROVE  Shapes' /\ Moves
    <2>1. x \in Job /\ ~Locked(x) /\ ~HasDesired(x) /\ x.pc # "publish"
      BY <1>3 DEF Job, Locked, HasDesired
    <2> QED BY <1>2, <1>3, <2>1, GoStep
  <1>4. CASE Finish(p) BY <1>2, <1>4, FinishStep
  <1>5. CASE FamilyKept(p) \/ FamilyApplied(p)
    <2>1. [job[p] EXCEPT !.pc = "persist"] \in PlainJob
          /\ [job[p] EXCEPT !.pc = "persist"].pc = "persist"
      BY <1>1 DEF PlainJob
    <2> QED BY <1>3, <1>5, <2>1 DEF FamilyKept, FamilyApplied
  <1>6. CASE FamilyFails(p) /\ ~Finish(p)
    <2>1. PICK actual \in {family', job[p].before.family} :
            Go(p, [job[p] EXCEPT !.pc = "persist", !.settings.family = actual])
      BY <1>6 DEF FamilyFails
    <2>2. actual \in Families BY <1>1, <1>2 DEF Tables
    <2> DEFINE x == [job[p] EXCEPT !.pc = "persist", !.settings.family = actual]
    <2>3. x \in PlainJob /\ x.pc = "persist"
      BY <1>1, <2>2 DEF PlainJob, Settings
    <2>4. UNCHANGED lock BY <1>6 DEF FamilyFails
    <2>5. Go(p, x) BY <2>1
    <2> HIDE DEF x
    <2> QED BY <1>3, <2>3, <2>4, <2>5
  <1> QED BY <1>4, <1>5, <1>6 DEF Persist, PersistFails

----------------------------------------------------------------------------
(* Rules and bindings                                                      *)

\* A rule or a binding is about to be published.
LEMMA WriteStep ==
    ASSUME Shapes, NEW p \in Processes, RuleRequest(p)
    PROVE  Shapes' /\ Moves
  <1>1. ASSUME NEW rule \in Rule \cup {None}, NEW new \in Groups \cup {None},
               Lock(p), new # binding /\ new # None => enabledGroup(registry, new),
               binding' = new,
               Go(p, [pc |-> "publish", op |-> "rules", rule |-> rule, restore |-> binding]),
               UNCHANGED <<mosdns, active, candidates, serving, late, last, db, stored>>
        PROVE  Shapes' /\ Moves
    <2> DEFINE x == [pc |-> "publish", op |-> "rules", rule |-> rule, restore |-> binding]
    <2>1. x \in Job /\ x.pc = "publish" /\ ~HasDesired(x) /\ x.restore = binding
      BY DEF Shapes, Tables, Job, RuleJob, HasDesired
    <2>2. Go(p, x) /\ lock = None /\ lock' = p BY <1>1 DEF Lock
    <2> HIDE DEF x
    <2>3. Tables' BY <1>1 DEF Shapes, Tables, mosdns
    <2>4. Jobs' /\ Locks' BY <2>1, <2>2, GoKeeps DEF Shapes
    <2>5. /\ \A q \in Processes : JobMoves(q)
          /\ job'[p] = x /\ \A q \in Processes \ {p} : job'[q] = job[q]
      BY <2>1, <2>2, JobMovesGo DEF Shapes
    <2>6. RegistryMoves /\ UNCHANGED registry BY <1>1 DEF mosdns, RegistryMoves
    <2>7. ReferenceMoves
      <3> SUFFICES ASSUME NEW g \in Groups, Referenced(g)', ~Referenced(g)
                   PROVE  registry.groups[g] = "enabled"
        BY <2>1, <2>2, <2>5, <2>6 DEF ReferenceMoves
      <3>1. binding' = g /\ binding # g
        BY <1>1, <2>1, <2>5 DEF Referenced, Names
      <3>2. g # None BY RegistryAssumption DEF RegistryAssumption
      <3> QED BY <1>1, <3>1, <3>2 DEF enabledGroup
    <2> QED BY <2>3, <2>4, <2>5, <2>6, <2>7 DEF Shapes, Moves
  <1>2. active.rule \in Rule \cup {None} /\ binding \in Groups \cup {None}
    BY DEF Shapes, Tables, Version
  <1>3. ASSUME NEW rule \in Rule \cup {None}, WriteRule(p, rule) PROVE Shapes' /\ Moves
    BY <1>1, <1>2, <1>3 DEF WriteRule, rules
  <1>4. ASSUME NEW g \in Groups \cup {None}, WriteBinding(p, g) PROVE Shapes' /\ Moves
    BY <1>1, <1>2, <1>4 DEF WriteBinding
  <1> QED BY <1>3, <1>4 DEF RuleRequest

\* A publication: the tables keep their shape, what it names is named already or by the
\* rule, whose group is usable, and an undo brings the old binding back.
LEMMA publishTables ==
    ASSUME Tables, NEW rule \in Rule \cup {None}, NEW old \in Groups \cup {None},
           publish(rule, old), UNCHANGED <<mosdns, db, stored>>
    PROVE  /\ Tables' /\ RegistryMoves /\ binding' \in {binding, old}
           /\ \A g \in Groups :
                (\E v \in candidates' \cup {active'} : Names(v, g)) =>
                  \/ binding = g \/ \E v \in candidates \cup {active} : Names(v, g)
                  \/ /\ rule # None /\ rule.enabled /\ rule.group = g
                     /\ registry.groups[g] = "enabled"
  <1> DEFINE version == Publication(rule, binding)
  <1>1. /\ version \in Version /\ version.rule = rule /\ version.bound = binding
        /\ version.number = last + 1
    BY DEF Publication, Tables, Version
  <1>2. /\ validateRouteTargets(rule) /\ last' = last + 1 /\ binding' \in {binding, old}
        /\ Finalized(version) \/ Unsettled(version) \/ Failed(version)
    BY DEF publish, restoreSubscriptionMutation
  <1> HIDE DEF version
  <1>3. /\ active' \in {active, version} /\ candidates' \subseteq candidates \cup {version}
        /\ serving' \in {serving, version.number} /\ late' \subseteq late \cup {version.number}
    BY <1>2 DEF Finalized, Unsettled, Failed
  <1>4. /\ last' \in Nat /\ last <= last' /\ version.number \in 0..last'
        /\ serving' \in 0..last' /\ late' \subseteq 0..last'
    BY <1>1, <1>2, <1>3 DEF Tables
  <1>5. \A v \in candidates' \cup {active'} : v \in Version /\ v.number <= last'
    BY <1>1, <1>2, <1>3, <1>4 DEF Tables, Version
  <1>6. Tables' BY <1>2, <1>4, <1>5 DEF Tables, mosdns
  <1>7. RegistryMoves BY DEF RegistryMoves, mosdns
  <1>8. \A g \in Groups : Names(version, g) =>
          \/ binding = g
          \/ rule # None /\ rule.enabled /\ rule.group = g /\ registry.groups[g] = "enabled"
    BY <1>1, <1>2 DEF Names, validateRouteTargets, enabledGroup
  <1> QED BY <1>2, <1>3, <1>6, <1>7, <1>8

\* The end of a publication, sent or refused.
LEMMA PublishStep ==
    ASSUME Shapes, NEW p \in Processes, Publish(p) \/ PublishRefused(p)
    PROVE  Shapes' /\ Moves
  <1>1. /\ job[p].pc = "publish" /\ Finish(p) /\ UNCHANGED mosdns
        /\ job[p].rule \in Rule \cup {None} /\ job[p].restore \in Groups \cup {None}
    BY JobKinds DEF Shapes, Publish, PublishRefused, RuleJob
  <1>2. Jobs' /\ Locks' BY <1>1, FinishKeeps DEF Shapes
  <1>3. /\ \A q \in Processes : JobMoves(q)
        /\ job'[p] = Idle /\ \A q \in Processes \ {p} : job'[q] = job[q]
    BY <1>1, JobMovesFinish DEF Shapes
  <1>4. lock' = None /\ ~HasDesired(job'[p]) /\ job'[p].pc # "publish"
    BY <1>1, <1>3 DEF Shapes, Locks, Locked, Finish, Idle, HasDesired
  <1>5. /\ Tables' /\ RegistryMoves /\ binding' \in {binding, job[p].restore}
        /\ \A g \in Groups :
             (\E v \in candidates' \cup {active'} : Names(v, g)) =>
               \/ binding = g \/ \E v \in candidates \cup {active} : Names(v, g)
               \/ registry.groups[g] = "enabled"
    <2>1. CASE Publish(p)
      BY <1>1, <2>1, publishTables DEF Publish, Shapes
    <2>2. CASE PublishRefused(p)
      <3>1. /\ binding' \in {binding, job[p].restore}
            /\ UNCHANGED <<mosdns, active, candidates, serving, late, last, db, stored>>
        BY <2>2 DEF PublishRefused
      <3>2. Tables' /\ RegistryMoves
        BY <1>1, <3>1 DEF Shapes, Tables, mosdns, RegistryMoves
      <3> QED BY <3>1, <3>2 DEF Names
    <2> QED BY <2>1, <2>2
  <1>6. UNCHANGED registry BY <1>1 DEF mosdns
  <1>7. ReferenceMoves
    <2> SUFFICES ASSUME NEW g \in Groups, Referenced(g)', ~Referenced(g)
                 PROVE  registry.groups[g] = "enabled"
      BY <1>4, <1>6 DEF ReferenceMoves
    <2>1. ~\E q \in Processes : job'[q].pc = "publish" /\ job'[q].restore = g
      BY <1>3, <1>4 DEF Referenced
    <2>2. binding # g /\ job[p].restore # g BY <1>1 DEF Referenced
    <2>3. \E v \in candidates' \cup {active'} : Names(v, g)
      BY <1>5, <2>1, <2>2 DEF Referenced, Names
    <2> QED BY <1>5, <2>2, <2>3 DEF Referenced
  <1> QED BY <1>2, <1>3, <1>5, <1>7 DEF Shapes, Moves

\* Steps that leave all processes and the lock alone.
LEMMA TableStep ==
    ASSUME Shapes, Tables', RegistryMoves, UNCHANGED <<job, lock, binding>>,
           \A g \in Groups : (\E v \in candidates' \cup {active'} : Names(v, g)) =>
             binding = g \/ \E v \in candidates \cup {active} : Names(v, g)
    PROVE  Shapes' /\ Moves
  <1>1. Jobs' /\ Locks' BY DEF Shapes, Jobs, Locks
  <1>2. \A q \in Processes : JobMoves(q) BY DEF JobMoves, Carries
  <1>3. ReferenceMoves BY DEF ReferenceMoves, Referenced, Names
  <1> QED BY <1>1, <1>2, <1>3 DEF Shapes, Moves

\* mosdns takes a version or restarts, and Reconcile.
LEMMA ReconcileStep ==
    ASSUME Shapes,
           \/ \E number \in late : Adopt(number)
           \/ ReconcileCandidate \/ ReconcileRepublish \/ RuntimeRestarts
    PROVE  Shapes' /\ Moves
  <1>1. UNCHANGED <<registry, family, overtaken, job, lock, db, stored>> /\ delayed' \subseteq delayed
    BY DEF Adopt, ReconcileCandidate, ReconcileRepublish, RuntimeRestarts, mosdns
  <1>2. RegistryMoves BY <1>1 DEF RegistryMoves
  <1>3. CASE (\E number \in late : Adopt(number)) \/ RuntimeRestarts
    <2>1. /\ SameRules /\ UNCHANGED last /\ serving' \in 0..last /\ late' \subseteq late
      <3>1. CASE \E number \in late : Adopt(number)
        BY <3>1 DEF Adopt, Shapes, Tables, SameRules
      <3>2. CASE RuntimeRestarts
        BY <3>2 DEF RuntimeRestarts, Shapes, Tables, SameRules, Version
      <3> QED BY <1>3, <3>1, <3>2
    <2>2. Tables' BY <1>1, <2>1 DEF Shapes, Tables, SameRules
    <2> QED BY <1>1, <1>2, <2>1, <2>2, TableStep DEF SameRules, Names
  <1>4. CASE ReconcileCandidate
    <2>1. /\ active' \in candidates /\ candidates' \subseteq candidates
          /\ UNCHANGED <<binding, serving, late, last>>
      BY <1>4 DEF ReconcileCandidate
    <2>2. Tables' BY <1>1, <2>1 DEF Shapes, Tables
    <2> QED BY <1>1, <1>2, <2>1, <2>2, TableStep
  <1>5. CASE ReconcileRepublish
    <2>1. /\ publish(active.rule, binding) /\ UNCHANGED <<mosdns, db, stored>>
          /\ active.rule \in Rule \cup {None} /\ binding \in Groups \cup {None}
      BY <1>5 DEF ReconcileRepublish, Shapes, Tables, Version
    <2>2. /\ Tables' /\ binding' = binding
          /\ \A g \in Groups :
               (\E v \in candidates' \cup {active'} : Names(v, g)) =>
                 \/ binding = g \/ \E v \in candidates \cup {active} : Names(v, g)
                 \/ active.rule # None /\ active.rule.enabled /\ active.rule.group = g
      BY <2>1, publishTables DEF Shapes
    <2>3. \A g \in Groups :
            active.rule # None /\ active.rule.enabled /\ active.rule.group = g => Names(active, g)
      BY DEF Names
    <2> QED BY <1>1, <1>2, <2>2, <2>3, TableStep
  <1> QED BY <1>3, <1>4, <1>5

\* A crash ends all processes.
LEMMA CrashStep ==
    ASSUME Shapes, Crash
    PROVE  Shapes' /\ Moves
  <1>1. Tables' /\ RegistryMoves /\ SameRules BY SameTables DEF Shapes, Crash
  <1>2. \A q \in Processes : job'[q] = Idle BY DEF Crash
  <1>3. ~HasDesired(Idle) /\ ~Locked(Idle) /\ Idle \in Job /\ Idle.pc # "publish"
    BY DEF HasDesired, Locked, Job, Idle
  <1>4. Jobs' /\ Locks' BY <1>2, <1>3 DEF Crash, Jobs, Locks
  <1>5. \A q \in Processes : JobMoves(q) BY <1>2, <1>3 DEF JobMoves
  <1>6. ReferenceMoves BY <1>1, <1>2, <1>3, NoNewReferences
  <1> QED BY <1>1, <1>4, <1>5, <1>6 DEF Shapes, Moves

----------------------------------------------------------------------------
(* Types and the default group                                             *)

\* Every step keeps the shapes and is one of the moves described above.
LEMMA ShapesStep ==
    ASSUME Shapes, [Next]_vars
    PROVE  Shapes' /\ Moves
  <1>0. Requests \subseteq Processes BY DEF Processes
  <1>1. ASSUME NEW p \in Requests, GroupRequest(p) \/ RuleRequest(p) \/ SettingsRequest(p)
        PROVE  Shapes' /\ Moves
    BY <1>0, <1>1, GroupRequestStep, WriteStep, UpdateSettingsStep DEF SettingsRequest
  <1>2. ASSUME NEW p \in Processes, Step(p) PROVE Shapes' /\ Moves
    BY <1>2, ApplyStep, CheckReferencesStep, SyncRegistryStep, FamilyStep, PublishStep DEF Step
  <1>3. CASE UNCHANGED vars
    <2>1. Tables' /\ RegistryMoves /\ SameRules /\ UNCHANGED <<job, lock>>
      BY <1>3, SameTables DEF vars, Shapes
    <2> QED BY <2>1, TableStep DEF SameRules, Names
  <1> QED BY <1>1, <1>2, <1>3, SyncSettingsStep, TakeDelayedStep, ReconcileStep, CrashStep DEF Next

\* The initial state.
LEMMA ShapesInit ==
    ASSUME Init PROVE Shapes
  <1>1. registry \in Usable
    <2>1. PICK on \in SUBSET Groups : \E d \in on, c \in Caches :
            registry = [version |-> 1, default |-> d, cache |-> c,
                        groups |-> [g \in Groups |-> IF g \in on THEN "enabled" ELSE "absent"]]
      BY DEF Init
    <2> QED BY <2>1 DEF Usable, Snapshot, enabledGroup
  <1>2. /\ active \in Version /\ active.number = 0 /\ candidates = {} /\ last = 0
        /\ serving = 0 /\ late = {}
    BY DEF Init, Version
  <1>3. Tables BY <1>1, <1>2 DEF Init, Tables, Settings
  <1>4. Jobs /\ Locks BY DEF Init, Jobs, Job, Locks, Locked, Idle
  <1> QED BY <1>3, <1>4 DEF Shapes

\* Shapes is inductive.
LEMMA ShapesAlways == Spec => []Shapes
  <1>1. Init => Shapes BY ShapesInit
  <1>2. Shapes /\ [Next]_vars => Shapes' BY ShapesStep
  <1> QED BY <1>1, <1>2, PTL DEF Spec

\* Tables and messages have their shapes, no version number is above the last one, and who
\* checks references or publishes holds UpstreamBindings.
THEOREM RegistryTypeCorrect == Spec => []TypeOK
  <1>1. Shapes => TypeOK
    BY DEF Shapes, Tables, Locks, Locked, TypeOK, Usable
  <1> QED BY <1>1, ShapesAlways, PTL

\* Whatever registries are computed from outdated ones, delayed or lost, the registry that
\* mosdns has always routes by default to a group that exists and is enabled.
THEOREM DefaultAlwaysUsable == Spec => []DefaultUsable
  <1>1. Shapes => DefaultUsable
    BY DEF Shapes, Tables, Usable, DefaultUsable
  <1> QED BY <1>1, ShapesAlways, PTL

----------------------------------------------------------------------------
(* The registry that a process has read                                    *)

\* What a process has read is the registry or an older one, its version tells which, and
\* a change that takes a group away is made with the lock.
KnownTo(p) ==
    LET x == job[p]
    IN  HasDesired(x) =>
          /\ Derived(x)
          /\ x.current.version <= registry.version
          /\ x.current.version = registry.version => x.current = registry
          /\ Disables(x) => lock = p

Known == \A p \in Processes : KnownTo(p)

\* A registry that is taken is newer than whatever was read before.
LEMMA TakenKnown ==
    ASSUME Shapes, Moves, NEW p \in Processes, HasDesired(job[p]), KnownTo(p)
    PROVE  /\ job[p].current.version <= registry'.version
           /\ job[p].current.version = registry'.version => job[p].current = registry'
  <1>0. job[p].current.version \in Nat /\ registry.version \in Nat
    BY SentUsable, UsableFields DEF Shapes, Tables, HasDesired
  <1>1. CASE UNCHANGED registry BY <1>1 DEF KnownTo
  <1>2. CASE registry'.version = registry.version + 1
    BY <1>0, <1>2 DEF KnownTo
  <1> QED BY <1>1, <1>2 DEF Moves, RegistryMoves, Takes

\* What processes know stays true.
LEMMA KnownStep ==
    ASSUME Shapes, Known, Moves, Shapes'
    PROVE  Known'
  <1> SUFFICES ASSUME NEW q \in Processes, HasDesired(job'[q]) PROVE KnownTo(q)'
    BY DEF Known, KnownTo
  <1>1. JobMoves(q) BY DEF Moves
  <1>2. CASE HasDesired(job[q]) /\ Carries(job[q], job'[q]) /\ (lock = q => lock' = q)
    <2>1. KnownTo(q) BY DEF Known
    <2>2. /\ job[q].current.version <= registry'.version
          /\ job[q].current.version = registry'.version => job[q].current = registry'
      BY <1>2, <2>1, TakenKnown
    <2>3. Derived(job[q]) /\ (Disables(job[q]) => lock = q) BY <1>2, <2>1 DEF KnownTo
    <2>4. Derived(job'[q]) BY <1>2, <2>3 DEF Derived, Carries
    <2>5. Disables(job'[q]) => Disables(job[q]) BY <1>2 DEF Disables, Carries
    <2> QED BY <1>2, <2>2, <2>3, <2>4, <2>5 DEF KnownTo, Carries
  <1>3. CASE /\ job'[q].current = registry /\ Derived(job'[q]) /\ registry' = registry
             /\ Disables(job'[q]) => lock' = q
    <2>1. registry.version \in Nat BY UsableFields DEF Shapes, Tables
    <2> QED BY <1>3, <2>1 DEF KnownTo
  <1> QED BY <1>1, <1>2, <1>3 DEF JobMoves

----------------------------------------------------------------------------
(* References                                                              *)

\* Groups that are or may be named are usable, and nobody is about to send a registry
\* without them.
References ==
    \A g \in Groups : Referenced(g) =>
        /\ registry.groups[g] = "enabled"
        /\ \A p \in Processes : job[p].pc = "apply" /\ Disables(job[p]) => job[p].group # g

\* A registry that a process sends and mosdns takes keeps the groups that are named.
LEMMA TakenReferences ==
    ASSUME Shapes, Known, References, NEW g \in Groups, Referenced(g),
           RegistryMoves, ~overtaken'
    PROVE  registry'.groups[g] = "enabled"
  <1>1. registry.groups[g] = "enabled" BY DEF References
  <1>2. ASSUME NEW p \in Processes, job[p].pc = "apply", Takes(job[p].desired),
               registry' = job[p].desired
        PROVE  registry'.groups[g] = "enabled"
    <2>1. HasDesired(job[p]) /\ KnownTo(p) BY <1>2 DEF HasDesired, Known
    <2>2. /\ Derived(job[p]) /\ job[p].current.version \in Nat /\ registry.version \in Nat
      BY <2>1, SentUsable, UsableFields DEF KnownTo, Shapes, Tables, HasDesired
    <2>3. job[p].current = registry
      BY <1>2, <2>1, <2>2 DEF Takes, Derived, KnownTo
    <2>4. ~(Disables(job[p]) /\ job[p].group = g) BY <1>2 DEF References
    <2>5. CASE job[p].op = "group" /\ job[p].group = g
      BY <1>1, <1>2, <2>3, <2>4, <2>5 DEF Disables
    <2>6. CASE ~(job[p].op = "group" /\ job[p].group = g)
      BY <1>1, <1>2, <2>2, <2>3, <2>6 DEF Derived
    <2> QED BY <2>5, <2>6
  <1> QED BY <1>1, <1>2 DEF RegistryMoves

\* The check of references sees all that is or may be named.
LEMMA CheckSeesAll ==
    ASSUME Shapes, NEW q \in Processes, job[q].pc # "publish", lock = q, NEW g \in Groups,
           ~upstreamGroupReferencedBySubscriptions(g)
    PROVE  ~Referenced(g)
  <1>1. \A p \in Processes : job[p].pc # "publish" BY DEF Shapes, Locks, Locked
  <1> QED BY <1>1 DEF Referenced, upstreamGroupReferencedBySubscriptions

\* References stay usable, as long as no delayed registry is taken.
LEMMA ReferencesStep ==
    ASSUME Shapes, Known, References, Moves, Shapes', Known', ~overtaken'
    PROVE  References'
  <1> SUFFICES ASSUME NEW g \in Groups, Referenced(g)'
               PROVE  /\ registry'.groups[g] = "enabled"
                      /\ \A q \in Processes :
                           job'[q].pc = "apply" /\ Disables(job'[q]) => job'[q].group # g
    BY DEF References
  <1>1. registry'.groups[g] = "enabled"
    BY TakenReferences DEF Moves, ReferenceMoves
  <1>2. ASSUME NEW q \in Processes, job'[q].pc = "apply", Disables(job'[q]), job'[q].group = g
        PROVE  FALSE
    <2>1. HasDesired(job'[q]) /\ job'[q].op = "group" /\ JobMoves(q)
      BY <1>2 DEF HasDesired, Disables, Moves
    <2>2. /\ HasDesired(job[q]) /\ Carries(job[q], job'[q])
          /\ \/ job[q].pc = "apply"
             \/ lock = q /\ ~upstreamGroupReferencedBySubscriptions(job[q].group)
      BY <1>2, <2>1 DEF JobMoves
    <2>3. Disables(job[q]) /\ job[q].group = g BY <1>2, <2>1, <2>2 DEF Carries, Disables
    <2>4. lock = q /\ lock' = q
      BY <1>2, <2>1, <2>2, <2>3 DEF Known, KnownTo
    <2>5. ~Referenced(g)
      <3>1. CASE job[q].pc = "apply" BY <2>3, <3>1 DEF References
      <3>2. CASE ~upstreamGroupReferencedBySubscriptions(g)
        BY <2>2, <2>4, <3>2, CheckSeesAll DEF HasDesired
      <3> QED BY <2>2, <2>3, <3>1, <3>2
    <2>6. PICK p \in Processes : lock' \in {p, None} /\ ~HasDesired(job'[p])
      BY <2>5 DEF Moves, ReferenceMoves
    <2>7. q # None BY RegistryAssumption DEF RegistryAssumption
    <2> QED BY <2>1, <2>4, <2>6, <2>7
  <1> QED BY <1>1, <1>2

\* Once a delayed registry is taken, this is recorded for good.
LEMMA OvertakenStep ==
    ASSUME Moves, overtaken PROVE overtaken'
  BY DEF Moves, RegistryMoves

\* Nothing is named or known at first.
LEMMA KnownInit ==
    ASSUME Init PROVE Known /\ References
  <1>1. \A p \in Processes : job[p] = Idle BY DEF Init
  <1>2. Idle.pc = "idle" BY DEF Idle
  <1>3. Known BY <1>1, <1>2 DEF Known, KnownTo, HasDesired
  <1>4. ASSUME NEW g \in Groups PROVE ~Referenced(g)
    <2>1. g # None BY RegistryAssumption DEF RegistryAssumption
    <2> QED BY <1>1, <1>2, <2>1 DEF Init, Referenced, Names
  <1> QED BY <1>3, <1>4 DEF References

\* Shapes, knowledge and references together.
RegistryInv == Shapes /\ Known /\ (overtaken \/ References)

\* RegistryInv is inductive.
LEMMA RegistryInvAlways == Spec => []RegistryInv
  <1>1. Init => RegistryInv BY ShapesInit, KnownInit DEF RegistryInv
  <1>2. RegistryInv /\ [Next]_vars => RegistryInv'
    BY ShapesStep, KnownStep, ReferencesStep, OvertakenStep DEF RegistryInv
  <1> QED BY <1>1, <1>2, PTL DEF Spec

\* As long as mosdns executes no group change whose sender gave up, what the binding, the
\* active version and every version that Reconcile may still activate name can be routed
\* to, however publications end, are undone or arrive late and whenever mosdns restarts:
\* the check of references, made under UpstreamBindings before the registry is sent, sees
\* all of them.
THEOREM ReferencesStayUsable == Spec => []ReferencesUsable
  <1>1. RegistryInv => ReferencesUsable
    <2> SUFFICES ASSUME RegistryInv, ~overtaken, NEW g \in Groups,
                        binding = g \/ \E v \in candidates \cup {active} : Names(v, g)
                 PROVE  enabledGroup(registry, g)
      BY DEF ReferencesUsable
    <2>1. Referenced(g) BY DEF Referenced
    <2> QED BY <2>1 DEF RegistryInv, References, enabledGroup
  <1> QED BY <1>1, RegistryInvAlways, PTL

----------------------------------------------------------------------------
(* Settings                                                                *)

Agrees(snapshot, settings) ==
    snapshot.default = settings.default /\ snapshot.cache = settings.cache

\* A settings operation that nobody disturbs works on the registry's settings; while there
\* are stored settings, every operation is a sync that brings these.
Settled(x, snapshot, kept) ==
    x.pc # "idle" /\ x.op \in {"settings", "sync"} =>
      /\ x.op = "settings" /\ x.alone /\ x.pc = "apply" => Agrees(snapshot, x.current)
      /\ x.op = "settings" /\ x.alone /\ x.pc \in {"family", "persist"} =>
           Agrees(snapshot, x.settings)
      /\ kept # None =>
           /\ x.op = "sync" /\ x.settings = kept
           /\ HasDesired(x) => Agrees(x.desired, kept)

Undisturbed ==
    \A p, q \in Processes : p # q /\ IsSettings(p) /\ IsSettings(q) => ~job[p].alone

SettingsStay ==
    /\ Undisturbed
    /\ \A p \in Processes : Settled(job[p], registry, stored)
    /\ stored # None => db = stored /\ Agrees(registry, stored)

\* What mosdns takes from a group change has the settings it had.
LEMMA GroupChangeAgrees ==
    ASSUME Shapes, Known, NEW p \in Processes, job[p].pc = "apply", job[p].op = "group",
           Takes(job[p].desired), registry' = job[p].desired
    PROVE  Agrees(registry', registry)
  <1>1. HasDesired(job[p]) /\ KnownTo(p) BY DEF HasDesired, Known
  <1>2. Derived(job[p]) /\ job[p].current.version \in Nat /\ registry.version \in Nat
    BY <1>1, SentUsable, UsableFields DEF KnownTo, Shapes, Tables, HasDesired
  <1>3. job[p].current = registry BY <1>1, <1>2 DEF Takes, Derived, KnownTo
  <1> QED BY <1>2, <1>3 DEF Derived, Agrees

\* Steps without settings: settings operations end or stay as they are.
LEMMA QuietStep ==
    ASSUME SettingsStay, UNCHANGED <<db, stored>>, Agrees(registry', registry),
           \A q \in Processes : job'[q] = job[q] \/ ~IsSettings(q)'
    PROVE  SettingsStay'
  <1>1. \A q \in Processes : IsSettings(q)' => job'[q] = job[q] /\ IsSettings(q)
    BY DEF IsSettings
  <1>2. Undisturbed' BY <1>1 DEF SettingsStay, Undisturbed
  <1>3. ASSUME NEW q \in Processes PROVE Settled(job'[q], registry', stored')
    <2>1. CASE IsSettings(q)'
      BY <1>1, <2>1 DEF SettingsStay, Settled, Agrees
    <2>2. CASE ~IsSettings(q)' BY <2>2 DEF IsSettings, Settled
    <2> QED BY <2>1, <2>2
  <1>4. stored' # None => db' = stored' /\ Agrees(registry', stored')
    BY DEF SettingsStay, Agrees
  <1> QED BY <1>2, <1>3, <1>4 DEF SettingsStay

\* A settings operation goes on, and nobody else does.
LEMMA OwnStep ==
    ASSUME SettingsStay, NEW p \in Processes, IsSettings(p),
           \A q \in Processes \ {p} : job'[q] = job[q],
           job'[p].alone => job[p].alone,
           UNCHANGED <<db, stored>>, stored # None => Agrees(registry', stored),
           Settled(job'[p], registry', stored)
    PROVE  SettingsStay'
  <1>1. \A q \in Processes \ {p} : IsSettings(q)' <=> IsSettings(q) BY DEF IsSettings
  <1>2. Undisturbed'
    <2> SUFFICES ASSUME NEW a \in Processes, NEW b \in Processes, a # b,
                        IsSettings(a)', IsSettings(b)', job'[a].alone
                 PROVE  FALSE
      BY DEF Undisturbed
    <2>1. IsSettings(a) /\ IsSettings(b) BY <1>1
    <2>2. job[a].alone OBVIOUS
    <2> QED BY <2>1, <2>2 DEF SettingsStay, Undisturbed
  <1>3. ASSUME NEW q \in Processes \ {p} PROVE Settled(job[q], registry', stored)
    <2>1. Settled(job[q], registry, stored) BY DEF SettingsStay
    <2>2. IsSettings(q) => ~job[q].alone BY DEF SettingsStay, Undisturbed
    <2> QED BY <2>1, <2>2 DEF Settled, IsSettings
  <1>4. \A q \in Processes : Settled(job'[q], registry', stored') BY <1>3
  <1> QED BY <1>2, <1>4 DEF SettingsStay

\* applyRegistry returned settings that the registry has.
LEMMA AppliedSettled ==
    ASSUME Shapes, SettingsStay, NEW p \in Processes, NEW applied \in Usable,
           job[p].pc \in {"apply", "query"}, job[p].op # "group", Applied(p, applied),
           UNCHANGED <<db, stored>>,
           job[p].op = "settings" /\ job[p].alone => Agrees(registry', applied),
           stored # None => Agrees(applied, stored) /\ Agrees(registry', stored)
    PROVE  SettingsStay'
  <1> DEFINE x == [pc |-> "family", op |-> job[p].op, alone |-> job[p].alone,
                   before |-> job[p].before,
                   settings |-> AsApplied(job[p].settings, applied)]
  <1>1. job[p] \in ApplyJob BY JobKinds DEF Shapes
  <1>2. job' = [job EXCEPT ![p] = x] BY DEF Applied, Go
  <1>3. job'[p] = x /\ \A q \in Processes \ {p} : job'[q] = job[q]
    BY <1>2 DEF Shapes, Jobs
  <1>4. IsSettings(p) BY <1>1 DEF ApplyJob, IsSettings
  <1>5. x.pc = "family" /\ x.op = job[p].op /\ x.alone = job[p].alone
        /\ x.settings = AsApplied(job[p].settings, applied)
    OBVIOUS
  <1> HIDE DEF x
  <1>6. /\ AsApplied(job[p].settings, applied) \in Settings
        /\ AsApplied(job[p].settings, applied).default = applied.default
        /\ AsApplied(job[p].settings, applied).cache = applied.cache
        /\ AsApplied(job[p].settings, applied).family = job[p].settings.family
    BY <1>1, AsAppliedShape DEF ApplyJob
  <1>7. stored # None => /\ job[p].op = "sync" /\ job[p].settings = stored
                         /\ AsApplied(job[p].settings, applied) = stored
    <2> SUFFICES ASSUME stored # None
                 PROVE  /\ job[p].op = "sync" /\ job[p].settings = stored
                        /\ AsApplied(job[p].settings, applied) = stored
      OBVIOUS
    <2>1. job[p].op = "sync" /\ job[p].settings = stored
      BY <1>4 DEF SettingsStay, Settled, IsSettings
    <2>2. stored \in Settings BY DEF Shapes, Tables
    <2> QED BY <1>6, <2>1, <2>2 DEF Settings, Agrees
  <1>8. Settled(x, registry', stored)
    BY <1>5, <1>6, <1>7 DEF Settled, Agrees, HasDesired
  <1> QED BY <1>3, <1>4, <1>5, <1>8, OwnStep

\* Sending a registry, or not.
LEMMA ApplySettled ==
    ASSUME Shapes, Known, SettingsStay, NEW p \in Processes,
           \/ ApplyEqual(p) \/ ApplyAnswered(p) \/ ApplyRefused(p)
           \/ ApplyUnanswered(p) \/ ApplyQuery(p)
    PROVE  SettingsStay'
  <1>0. /\ job[p].pc \in {"apply", "query"} /\ UNCHANGED <<db, stored>>
        /\ job[p].desired \in Usable /\ job[p].current \in Usable /\ registry \in Usable
    BY SentUsable
       DEF Shapes, Tables, ApplyEqual, ApplyAnswered, ApplyRefused, ApplyUnanswered, ApplyQuery, Send
  <1>1. Agrees(registry, registry) BY DEF Agrees
  <1>2. ASSUME Finish(p), Agrees(registry', registry) PROVE SettingsStay'
    <2>1. job'[p] = Idle /\ \A q \in Processes \ {p} : job'[q] = job[q]
      BY <1>2 DEF Finish, Go, Shapes, Jobs
    <2>2. ~IsSettings(p)' BY <2>1 DEF IsSettings, Idle
    <2> QED BY <1>0, <1>2, <2>1, <2>2, QuietStep
  <1>3. CASE job[p].op = "group"
    <2>1. CASE registry' = registry
      <3>1. CASE ApplyUnanswered(p)
        <4>1. job'[p] = [job[p] EXCEPT !.pc = "query"] /\ \A q \in Processes \ {p} : job'[q] = job[q]
          BY <3>1 DEF ApplyUnanswered, Go, Shapes, Jobs
        <4>2. job[p] \in GroupJob BY <1>0, <1>3, JobKinds DEF Shapes
        <4>3. ~IsSettings(p)' BY <4>1, <4>2 DEF IsSettings, GroupJob
        <4> QED BY <1>0, <1>1, <2>1, <4>1, <4>3, QuietStep
      <3>2. CASE ~ApplyUnanswered(p)
        <4>1. Finish(p)
          BY <1>3, <3>2 DEF ApplyEqual, ApplyAnswered, ApplyRefused, ApplyQuery, Applied
        <4> QED BY <1>1, <1>2, <2>1, <4>1
      <3> QED BY <3>1, <3>2
    <2>2. CASE registry' # registry
      <3>1. /\ job[p].pc = "apply" /\ Takes(job[p].desired) /\ registry' = job[p].desired
            /\ ApplyAnswered(p) \/ ApplyUnanswered(p)
        BY <2>2 DEF ApplyEqual, ApplyAnswered, ApplyRefused, ApplyUnanswered, ApplyQuery, Send,
                    Sent, mosdns
      <3>2. Agrees(registry', registry) BY <1>3, <3>1, GroupChangeAgrees
      <3>3. CASE ApplyAnswered(p) BY <1>2, <1>3, <3>2, <3>3 DEF ApplyAnswered, Applied
      <3>4. CASE ApplyUnanswered(p)
        <4>1. job'[p] = [job[p] EXCEPT !.pc = "query"] /\ \A q \in Processes \ {p} : job'[q] = job[q]
          BY <3>4 DEF ApplyUnanswered, Go, Shapes, Jobs
        <4>2. job[p] \in GroupJob BY <1>0, <1>3, JobKinds DEF Shapes
        <4>3. ~IsSettings(p)' BY <4>1, <4>2 DEF IsSettings, GroupJob
        <4> QED BY <1>0, <3>2, <4>1, <4>3, QuietStep
      <3> QED BY <3>1, <3>3, <3>4
    <2> QED BY <2>1, <2>2
  <1>4. CASE job[p].op # "group"
    <2>0. job[p] \in ApplyJob BY <1>0, <1>4, JobKinds DEF Shapes
    <2>1. /\ IsSettings(p) /\ Settled(job[p], registry, stored) /\ HasDesired(job[p])
          /\ stored # None => Agrees(registry, stored) /\ Agrees(job[p].desired, stored)
      BY <1>0, <2>0 DEF ApplyJob, IsSettings, SettingsStay, Settled, HasDesired
    <2>2. CASE ApplyEqual(p)
      <3>1. /\ job[p].pc = "apply" /\ registryEqual(job[p].current, job[p].desired)
            /\ Applied(p, job[p].current) /\ registry' = registry
        BY <2>2 DEF ApplyEqual, mosdns
      <3>2. Agrees(job[p].current, job[p].desired)
        BY <1>0, <3>1 DEF registryEqual, Agrees, Usable, Snapshot
      <3>3. stored # None => Agrees(job[p].current, stored) /\ job[p].op = "sync"
        BY <2>1, <3>2 DEF Agrees, Settled, IsSettings
      <3>4. CASE job[p].op = "settings"
        <4>1. job[p].alone => Agrees(registry', job[p].current)
          BY <2>1, <3>1, <3>4 DEF Settled
        <4> QED BY <1>0, <1>4, <2>1, <3>1, <3>3, <4>1, AppliedSettled
      <3>5. CASE job[p].op = "sync"
        BY <1>0, <1>4, <2>1, <3>1, <3>3, <3>5, AppliedSettled
      <3> QED BY <2>0, <3>4, <3>5 DEF ApplyJob
    <2>3. CASE ApplyAnswered(p)
      BY <1>0, <1>4, <2>1, <2>3, AppliedSettled DEF ApplyAnswered, Sent, Agrees
    <2>4. CASE ApplyRefused(p) BY <1>1, <1>2, <2>4 DEF ApplyRefused, mosdns
    <2>5. CASE ApplyUnanswered(p)
      <3> DEFINE x == [job[p] EXCEPT !.pc = "query"]
      <3>1. job'[p] = x /\ \A q \in Processes \ {p} : job'[q] = job[q]
        BY <2>5 DEF ApplyUnanswered, Go, Shapes, Jobs
      <3>2. /\ x.pc = "query" /\ x.op = job[p].op /\ x.alone = job[p].alone
            /\ x.settings = job[p].settings /\ x.desired = job[p].desired
        BY <2>0 DEF ApplyJob
      <3> HIDE DEF x
      <3>3. Settled(x, registry', stored)
        BY <2>1, <3>2 DEF Settled, IsSettings
      <3>4. registry' \in {registry, job[p].desired} BY <2>5 DEF ApplyUnanswered, Sent
      <3>5. stored # None => Agrees(registry', stored) BY <2>1, <3>4
      <3> QED BY <1>0, <2>1, <3>1, <3>2, <3>3, <3>5, OwnStep
    <2>6. CASE ApplyQuery(p)
      <3>1. registry' = registry BY <2>6 DEF ApplyQuery, mosdns
      <3>2. CASE Finish(p) BY <1>1, <1>2, <3>1, <3>2
      <3>3. CASE Applied(p, registry)
        BY <1>0, <1>1, <1>4, <2>1, <3>1, <3>3, AppliedSettled
      <3> QED BY <2>6, <3>2, <3>3 DEF ApplyQuery
    <2> QED BY <2>2, <2>3, <2>4, <2>5, <2>6
  <1> QED BY <1>3, <1>4

\* A settings operation begins: the others are disturbed, and stored settings are either
\* forgotten, by UpdateSettings, or the ones that SyncSettings has read.
LEMMA BeginSettled ==
    ASSUME Shapes, SettingsStay, NEW p \in Processes, job[p] = Idle, NEW x, GoSettings(p, x),
           UNCHANGED <<db, registry>>, stored' \in {stored, None},
           LET y == [x EXCEPT !.alone = ~\E r \in Processes : IsSettings(r)]
           IN  /\ y.alone = ~\E r \in Processes : IsSettings(r)
               /\ Settled(y, registry, stored')
    PROVE  SettingsStay'
  <1> DEFINE b == ~\E r \in Processes : IsSettings(r)
             y == [x EXCEPT !.alone = b]
  <1>1. /\ job'[p] = y
        /\ \A q \in Processes \ {p} :
             /\ job'[q].pc = job[q].pc
             /\ job'[q] = IF IsSettings(q) THEN [job[q] EXCEPT !.alone = FALSE] ELSE job[q]
    BY GoSettingsOthers DEF Shapes
  <1>2. y.alone = b /\ Settled(y, registry, stored') OBVIOUS
  <1> HIDE DEF y
  <1>3. ASSUME NEW q \in Processes \ {p}
        PROVE  /\ IsSettings(q)' => IsSettings(q) /\ ~job'[q].alone
               /\ Settled(job'[q], registry', stored')
    <2>1. CASE IsSettings(q)
      <3>1. job[q] \in ApplyJob \cup PlainJob
        BY <2>1 DEF IsSettings, Shapes, Jobs, Job, GroupJob, RuleJob, Idle
      <3>2. job'[q] = [job[q] EXCEPT !.alone = FALSE] BY <1>1, <2>1
      <3>3. /\ ~job'[q].alone /\ job'[q].op = job[q].op /\ job'[q].settings = job[q].settings
            /\ HasDesired(job[q]) => job'[q].desired = job[q].desired
        <4>1. CASE job[q] \in ApplyJob BY <3>2, <4>1 DEF ApplyJob
        <4>2. CASE job[q] \in PlainJob BY <3>2, <4>2 DEF PlainJob, HasDesired
        <4> QED BY <3>1, <4>1, <4>2
      <3>4. Settled(job[q], registry, stored) BY DEF SettingsStay
      <3>5. HasDesired(job'[q]) <=> HasDesired(job[q]) BY <1>1 DEF HasDesired
      <3>6. Settled(job'[q], registry', stored')
        BY <1>1, <3>3, <3>4, <3>5 DEF Settled
      <3> QED BY <2>1, <3>3, <3>6
    <2>2. CASE ~IsSettings(q)
      BY <1>1, <2>2 DEF IsSettings, Settled
    <2> QED BY <2>1, <2>2
  <1>4. Undisturbed'
    <2> SUFFICES ASSUME NEW a \in Processes, NEW c \in Processes, a # c,
                        IsSettings(a)', IsSettings(c)', job'[a].alone
                 PROVE  FALSE
      BY DEF Undisturbed
    <2>1. a = p BY <1>3
    <2>2. b /\ IsSettings(c) BY <1>1, <1>2, <1>3, <2>1
    <2> QED BY <2>2
  <1>5. \A q \in Processes : Settled(job'[q], registry', stored')
    BY <1>1, <1>2, <1>3
  <1>6. stored' # None => db' = stored' /\ Agrees(registry', stored') BY DEF SettingsStay
  <1> QED BY <1>4, <1>5, <1>6 DEF SettingsStay

\* UpdateSettings begins.
LEMMA UpdateSettled ==
    ASSUME Shapes, SettingsStay, NEW p \in Processes,
           NEW settings \in [default: Groups, cache: Caches, family: Families],
           UpdateSettings(p, settings)
    PROVE  SettingsStay'
  <1> DEFINE b == ~\E r \in Processes : IsSettings(r)
             d == Desired(registry, registry.groups, settings.default, settings.cache)
             x == [pc |-> "apply", op |-> "settings", alone |-> TRUE, before |-> db,
                   settings |-> settings, current |-> registry, desired |-> d]
             y == [pc |-> "apply", op |-> "settings", alone |-> b, before |-> db,
                   settings |-> settings, current |-> registry, desired |-> d]
  <1>1. /\ job[p] = Idle /\ GoSettings(p, x) /\ UNCHANGED <<db, registry>> /\ stored' = None
    BY DEF UpdateSettings, mosdns
  <1>2. [x EXCEPT !.alone = b] = y OBVIOUS
  <1>3. y.alone = b /\ y.pc = "apply" /\ y.current = registry OBVIOUS
  <1> HIDE DEF x, y, b
  <1>4. Settled(y, registry, stored') BY <1>1, <1>3 DEF Settled, Agrees
  <1> QED BY <1>1, <1>2, <1>3, <1>4, BeginSettled DEF b

\* SyncSettings begins with what is in the database.
LEMMA SyncSettled ==
    ASSUME Shapes, SettingsStay, SyncSettings
    PROVE  SettingsStay'
  <1> DEFINE b == ~\E r \in Processes : IsSettings(r)
             x == [pc |-> "sync", op |-> "sync", alone |-> TRUE, before |-> db, settings |-> db]
             y == [pc |-> "sync", op |-> "sync", alone |-> b, before |-> db, settings |-> db]
  <1>1. /\ job[Periodic] = Idle /\ GoSettings(Periodic, x) /\ Periodic \in Processes
        /\ UNCHANGED <<db, registry, stored>>
    BY DEF SyncSettings, mosdns, Processes
  <1>2. [x EXCEPT !.alone = b] = y OBVIOUS
  <1>3. y.alone = b /\ y.pc = "sync" /\ y.op = "sync" /\ y.settings = db OBVIOUS
  <1> HIDE DEF x, y, b
  <1>4. Settled(y, registry, stored')
    BY <1>1, <1>3 DEF Settled, SettingsStay, HasDesired
  <1> QED BY <1>1, <1>2, <1>3, <1>4, BeginSettled DEF b

\* SyncSettings, the address family and persistSettings go on.
LEMMA PlainSettled ==
    ASSUME Shapes, SettingsStay, NEW p \in Processes,
           \/ SyncRegistry(p) \/ FamilyKept(p) \/ FamilyApplied(p) \/ FamilyFails(p)
           \/ PersistFails(p)
    PROVE  SettingsStay'
  <1>0. /\ job[p] \in PlainJob /\ UNCHANGED <<db, stored, registry>> /\ IsSettings(p)
        /\ Settled(job[p], registry, stored)
        /\ stored # None => Agrees(registry', stored)
    <2>1. job[p] \in PlainJob
      BY JobKinds DEF Shapes, SyncRegistry, FamilyKept, FamilyApplied, FamilyFails, FamilyWanted, PersistFails
    <2>2. UNCHANGED <<db, stored, registry>>
      BY DEF SyncRegistry, FamilyKept, FamilyApplied, FamilyFails, PersistFails, mosdns
    <2> QED BY <2>1, <2>2 DEF PlainJob, IsSettings, SettingsStay
  <1>1. CASE Finish(p)
    <2>1. job'[p] = Idle /\ \A q \in Processes \ {p} : job'[q] = job[q]
      BY <1>1 DEF Finish, Go, Shapes, Jobs
    <2>2. ~IsSettings(p)' BY <2>1 DEF IsSettings, Idle
    <2>3. Agrees(registry', registry) BY <1>0 DEF Agrees
    <2> QED BY <1>0, <2>1, <2>2, <2>3, QuietStep
  <1>2. ASSUME NEW x, Go(p, x), x.alone = job[p].alone, Settled(x, registry, stored)
        PROVE  SettingsStay'
    <2>1. job'[p] = x /\ \A q \in Processes \ {p} : job'[q] = job[q]
      BY <1>2 DEF Go, Shapes, Jobs
    <2> QED BY <1>0, <1>2, <2>1, OwnStep
  <1>3. CASE SyncRegistry(p) /\ ~Finish(p)
    <2> DEFINE settings == job[p].settings
               d == SyncDefault(settings)
               x == [pc |-> "apply", op |-> "sync", alone |-> job[p].alone,
                     before |-> job[p].before, settings |-> settings, current |-> registry,
                     desired |-> Desired(registry, registry.groups, d, settings.cache)]
    <2>1. enabledGroup(registry, d) /\ Go(p, x) BY <1>3 DEF SyncRegistry
    <2>2. /\ job[p].alone \in BOOLEAN /\ job[p].before \in Settings /\ settings \in Settings
          /\ d \in Groups /\ settings.cache \in Caches
      BY <1>0, <2>1 DEF PlainJob, Settings, enabledGroup
    <2>3. /\ x.pc = "apply" /\ x.op = "sync" /\ x.alone = job[p].alone /\ x.settings = settings
          /\ x.desired.default = d /\ x.desired.cache = settings.cache
      BY <2>1, <2>2, SettingsJob DEF Shapes
    <2>4. stored # None => settings = stored /\ d = stored.default
      <3> SUFFICES ASSUME stored # None PROVE settings = stored /\ d = stored.default
        OBVIOUS
      <3>1. settings = stored BY <1>0 DEF Settled, IsSettings
      <3>2. stored.default = registry.default BY DEF SettingsStay, Agrees
      <3> QED BY <3>1, <3>2 DEF SyncDefault
    <2> HIDE DEF x, d, settings
    <2>5. Settled(x, registry, stored) BY <2>3, <2>4 DEF Settled, Agrees
    <2> QED BY <1>2, <2>1, <2>3, <2>5
  <1>4. CASE FamilyKept(p) \/ FamilyApplied(p)
    <2> DEFINE x == [job[p] EXCEPT !.pc = "persist"]
    <2>1. Go(p, x) /\ job[p].pc = "family" BY <1>4 DEF FamilyKept, FamilyApplied, FamilyWanted
    <2>2. x.pc = "persist" /\ x.op = job[p].op /\ x.alone = job[p].alone
          /\ x.settings = job[p].settings
      BY <1>0 DEF PlainJob
    <2> HIDE DEF x
    <2>3. Settled(x, registry, stored) BY <1>0, <2>1, <2>2 DEF Settled, HasDesired
    <2> QED BY <1>2, <2>1, <2>2, <2>3
  <1>5. CASE FamilyFails(p) /\ ~Finish(p)
    <2>1. PICK actual \in {family', job[p].before.family} :
            Go(p, [job[p] EXCEPT !.pc = "persist", !.settings.family = actual])
      BY <1>5 DEF FamilyFails
    <2> DEFINE x == [job[p] EXCEPT !.pc = "persist", !.settings.family = actual]
    <2>2. job[p].pc = "family" /\ job[p].op = "settings" /\ Go(p, x)
      BY <1>0, <1>5, <2>1 DEF FamilyFails, FamilyWanted, PlainJob
    <2>3. /\ x.pc = "persist" /\ x.op = job[p].op /\ x.alone = job[p].alone
          /\ x.settings.default = job[p].settings.default
          /\ x.settings.cache = job[p].settings.cache
      BY <1>0 DEF PlainJob, Settings
    <2> HIDE DEF x
    <2>4. Settled(x, registry, stored) BY <1>0, <2>2, <2>3 DEF Settled, Agrees
    <2> QED BY <1>2, <2>2, <2>3, <2>4
  <1> QED BY <1>1, <1>3, <1>4, <1>5 DEF PersistFails

\* persistSettings.
LEMMA PersistSettled ==
    ASSUME Shapes, SettingsStay, NEW p \in Processes, Persist(p)
    PROVE  SettingsStay'
  <1>0. /\ job[p] \in PlainJob /\ job[p].pc = "persist" /\ Finish(p) /\ db' = job[p].settings
        /\ stored' = (IF job[p].op = "settings" /\ job[p].alone THEN job[p].settings ELSE stored)
        /\ registry' = registry /\ IsSettings(p) /\ Settled(job[p], registry, stored)
    <2>1. job[p] \in PlainJob BY JobKinds DEF Shapes, Persist
    <2> QED BY <2>1 DEF Persist, mosdns, PlainJob, IsSettings, SettingsStay
  <1>1. job'[p] = Idle /\ ~IsSettings(p)' /\ \A q \in Processes \ {p} : job'[q] = job[q]
    BY <1>0 DEF Finish, Go, Shapes, Jobs, IsSettings, Idle
  <1>2. CASE job[p].op = "settings" /\ job[p].alone
    <2>1. \A q \in Processes : ~IsSettings(q)'
      BY <1>0, <1>1, <1>2 DEF SettingsStay, Undisturbed, IsSettings
    <2>2. Undisturbed' /\ \A q \in Processes : Settled(job'[q], registry', stored')
      BY <2>1 DEF Undisturbed, Settled, IsSettings
    <2>3. db' = stored' /\ Agrees(registry', stored')
      BY <1>0, <1>2 DEF Settled
    <2> QED BY <2>2, <2>3 DEF SettingsStay
  <1>3. CASE ~(job[p].op = "settings" /\ job[p].alone)
    <2>1. UNCHANGED stored BY <1>0, <1>3
    <2>2. CASE stored = None
      <3>1. \A q \in Processes : IsSettings(q)' => job'[q] = job[q] /\ IsSettings(q)
        BY <1>1 DEF IsSettings
      <3>2. Undisturbed' BY <3>1 DEF SettingsStay, Undisturbed
      <3>3. ASSUME NEW q \in Processes PROVE Settled(job'[q], registry', stored')
        BY <1>0, <2>1, <3>1 DEF SettingsStay, Settled, IsSettings
      <3> QED BY <2>1, <2>2, <3>2, <3>3 DEF SettingsStay
    <2>3. CASE stored # None
      <3>1. UNCHANGED db BY <1>0, <2>3 DEF Settled, IsSettings, SettingsStay
      <3>2. Agrees(registry', registry) BY <1>0 DEF Agrees
      <3> QED BY <1>1, <2>1, <3>1, <3>2, QuietStep
    <2> QED BY <2>2, <2>3
  <1> QED BY <1>2, <1>3

\* Requests for groups and rules, publications, Reconcile, a crash and a restart of mosdns.
LEMMA OtherSettled ==
    ASSUME Shapes, SettingsStay,
           \/ \E p \in Processes : \/ GroupRequest(p) \/ RuleRequest(p) \/ CheckReferences(p)
                                  \/ Publish(p) \/ PublishRefused(p)
           \/ \E number \in late : Adopt(number)
           \/ ReconcileCandidate \/ ReconcileRepublish \/ Crash \/ RuntimeRestarts \/ UNCHANGED vars
    PROVE  SettingsStay'
  <1>1. Agrees(registry, registry) BY DEF Agrees
  <1>2. ASSUME NEW p \in Processes, UNCHANGED <<db, stored, registry>>,
               Finish(p) \/ \E x : Go(p, x) /\ x.op \notin {"settings", "sync"}
        PROVE  SettingsStay'
    <2>1. \A q \in Processes \ {p} : job'[q] = job[q]
      BY <1>2 DEF Finish, Go, Shapes, Jobs
    <2>2. ~IsSettings(p)' BY <1>2 DEF Finish, Go, Shapes, Jobs, IsSettings, Idle
    <2> QED BY <1>1, <1>2, <2>1, <2>2, QuietStep
  <1>3. ASSUME NEW p \in Processes, GroupRequest(p) PROVE SettingsStay'
    <2>1. UNCHANGED <<db, stored, registry>>
      BY <1>3 DEF GroupRequest, CreateUpstreamGroup, UpdateUpstreamGroup, DeleteUpstreamGroup, mosdns
    <2>2. \A g, state, pc : /\ Change(g, state).op = "group"
                            /\ [Change(g, state) EXCEPT !.pc = pc].op = "group"
      BY DEF Change
    <2>3. \E g, state : Go(p, Change(g, state)) \/ \E pc : Go(p, [Change(g, state) EXCEPT !.pc = pc])
      BY <1>3 DEF GroupRequest, CreateUpstreamGroup, UpdateUpstreamGroup, DeleteUpstreamGroup
    <2> QED BY <1>2, <2>1, <2>2, <2>3
  <1>4. ASSUME NEW p \in Processes, RuleRequest(p) PROVE SettingsStay'
    <2>1. UNCHANGED <<db, stored, registry>>
      BY <1>4 DEF RuleRequest, WriteRule, WriteBinding, mosdns
    <2> DEFINE x(rule) == [pc |-> "publish", op |-> "rules", rule |-> rule, restore |-> binding]
    <2>2. \A rule : x(rule).op = "rules" OBVIOUS
    <2>3. \E rule : Go(p, x(rule)) BY <1>4 DEF RuleRequest, WriteRule, WriteBinding
    <2> HIDE DEF x
    <2> QED BY <1>2, <2>1, <2>2, <2>3
  <1>5. ASSUME NEW p \in Processes, CheckReferences(p) PROVE SettingsStay'
    <2>1. job[p] \in GroupJob BY <1>5, JobKinds DEF CheckReferences, Shapes
    <2>2. [job[p] EXCEPT !.pc = "apply"].op = "group" BY <2>1 DEF GroupJob
    <2>3. UNCHANGED <<db, stored, registry>> BY <1>5 DEF CheckReferences, mosdns
    <2> QED BY <1>2, <1>5, <2>2, <2>3 DEF CheckReferences
  <1>6. ASSUME NEW p \in Processes, Publish(p) \/ PublishRefused(p) PROVE SettingsStay'
    <2>1. UNCHANGED <<db, stored, registry>> /\ Finish(p)
      BY <1>6 DEF Publish, PublishRefused, mosdns
    <2> QED BY <1>2, <2>1
  <1>7. CASE \/ \E number \in late : Adopt(number)
             \/ ReconcileCandidate \/ ReconcileRepublish \/ RuntimeRestarts \/ UNCHANGED vars
    <2>1. UNCHANGED <<db, stored, registry, job>>
      BY <1>7 DEF Adopt, ReconcileCandidate, ReconcileRepublish, RuntimeRestarts, vars, mosdns
    <2> QED BY <1>1, <2>1, QuietStep
  <1>8. CASE Crash
    <2>1. UNCHANGED <<db, stored, registry>> /\ \A q \in Processes : job'[q] = Idle
      BY <1>8 DEF Crash, mosdns
    <2>2. \A q \in Processes : ~IsSettings(q)' BY <2>1 DEF IsSettings, Idle
    <2> QED BY <1>1, <2>1, <2>2, QuietStep
  <1> QED BY <1>3, <1>4, <1>5, <1>6, <1>7, <1>8

\* Stored settings stay, as long as no delayed registry is taken.
LEMMA SettingsStayStep ==
    ASSUME Shapes, Known, SettingsStay, [Next]_vars, ~overtaken'
    PROVE  SettingsStay'
  <1>0. Requests \subseteq Processes BY DEF Processes
  <1>1. ASSUME NEW p \in Requests, SettingsRequest(p) PROVE SettingsStay'
    BY <1>0, <1>1, UpdateSettled DEF SettingsRequest
  <1>2. ASSUME NEW p \in Processes, Step(p) PROVE SettingsStay'
    BY <1>2, ApplySettled, PlainSettled, PersistSettled, OtherSettled DEF Step
  <1>3. ASSUME NEW p \in Requests, GroupRequest(p) \/ RuleRequest(p) PROVE SettingsStay'
    BY <1>0, <1>3, OtherSettled
  <1>4. ASSUME NEW snapshot \in delayed, TakeDelayed(snapshot) PROVE SettingsStay'
    BY <1>4 DEF TakeDelayed
  <1> QED BY <1>1, <1>2, <1>3, <1>4, SyncSettled, OtherSettled DEF Next

\* Everything together.
SettingsInv == RegistryInv /\ (overtaken \/ SettingsStay)

\* As long as mosdns executes no registry whose sender gave up, settings stored by an
\* UpdateSettings that no other settings operation disturbed stay in the database and in
\* the registry until the next one: no sync, group change or crash brings older ones back.
THEOREM StoredSettingsAlwaysStay == Spec => []StoredSettingsStay
  <1>1. Init => SettingsInv
    <2> SUFFICES ASSUME Init PROVE SettingsInv
      OBVIOUS
    <2>1. \A p \in Processes : job[p] = Idle BY DEF Init
    <2>2. stored = None BY DEF Init
    <2>3. SettingsStay
      BY <2>1, <2>2 DEF SettingsStay, Undisturbed, Settled, IsSettings, Idle
    <2> QED BY <2>3, ShapesInit, KnownInit DEF SettingsInv, RegistryInv
  <1>2. SettingsInv /\ [Next]_vars => SettingsInv'
    <2> SUFFICES ASSUME SettingsInv, [Next]_vars PROVE SettingsInv'
      OBVIOUS
    <2>1. Shapes /\ Known /\ Shapes' /\ Moves BY ShapesStep DEF SettingsInv, RegistryInv
    <2>2. RegistryInv'
      BY <2>1, KnownStep, ReferencesStep, OvertakenStep DEF SettingsInv, RegistryInv
    <2>3. overtaken' \/ SettingsStay'
      BY <2>1, SettingsStayStep, OvertakenStep DEF SettingsInv
    <2> QED BY <2>2, <2>3 DEF SettingsInv
  <1>3. SettingsInv => StoredSettingsStay
    BY DEF SettingsInv, SettingsStay, Agrees, StoredSettingsStay
  <1> QED BY <1>1, <1>2, <1>3, PTL DEF Spec
=============================================================================
