-------------------------- MODULE RulePublication --------------------------
(***************************************************************************)
(* The publication pipeline of the controller's rule service: how a change *)
(* to the domain rules or to the subscription tables becomes a numbered    *)
(* version, is sent to the mosdns runtime, and is activated, failed, left  *)
(* in doubt, compensated or picked up again by Reconcile.                  *)
(*                                                                         *)
(* Service.mu is held over every operation modelled here, so there is one  *)
(* worker; it walks through `pc' one database write or one call to mosdns  *)
(* at a time.  Between two of its steps the runtime may adopt a request    *)
(* the client gave up on, lose or regress its snapshot, and the controller *)
(* may crash.  Database reads made under the lock see the tables as the    *)
(* worker left them, so a read, and the decision taken on it, belong to    *)
(* the step of the write or call that follows.                             *)
(*                                                                         *)
(* Data.  A rule list says of each rule whether it is absent, disabled or  *)
(* enabled; a subscription row is its enabled flag, its parsed content and *)
(* the upstream group and priority (target) it is bound to.  A snapshot's  *)
(* checksum is a hash of the whole snapshot, the version included, and is  *)
(* modelled by the snapshot itself.                                        *)
(***************************************************************************)
EXTENDS Naturals, Sequences, FiniteSets

CONSTANTS
    Rules,       \* identities of domain rules
    Subs,        \* identities of subscriptions
    RouteSubs,   \* the ones of category "route", which need a binding
    Contents,    \* parsed domain lists a subscription can carry
    Targets,     \* (upstream group, priority) pairs of a binding
    NoBinding,   \* target of a subscription without a row in subscription_bindings
    Absent,      \* no row in rule_subscriptions
    ChecksExpected, \* whether mosdns compares expected_current_version
    FaultKinds,  \* the faults this instance admits
    MaxVersion,  \* bound on rule_versions
    MaxOps,      \* bound on administrator operations
    MaxFaults    \* bound on faults

AllFaultKinds ==
    {"db", "call", "lost_reply", "late", "invalid", "binding", "crash",
     "lose", "regress"}

SubState == [enabled: BOOLEAN, content: Contents, target: Targets \cup {NoBinding}]

ASSUME ConstantsAssumption ==
    /\ RouteSubs \subseteq Subs
    /\ NoBinding \notin Targets
    /\ Absent \notin SubState
    /\ ChecksExpected \in BOOLEAN
    /\ FaultKinds \subseteq AllFaultKinds
    /\ MaxVersion \in Nat /\ MaxOps \in Nat /\ MaxFaults \in Nat

VARIABLES
    versions,    \* rule_versions: row v is versions[v], rows are never deleted
    domainRules, \* domain_rules
    subs,        \* rule_subscriptions joined with subscription_bindings
    pc,          \* where the holder of Service.mu is
    job,         \* the operation it runs
    cand,        \* the version it is publishing, 0 before there is one
    errCode,     \* the error code fail() is about to record
    runtime,     \* mosdns: the snapshot being served
    inflight,    \* apply requests mosdns may still execute
    adopted,     \* history: every version mosdns ever served
    ops,         \* administrator operations started
    faults       \* faults that have happened

db     == <<versions, domainRules, subs>>
worker == <<pc, job, cand, errCode>>
mosdns == <<runtime, inflight, adopted>>
vars   == <<db, worker, mosdns, ops, faults>>

----------------------------------------------------------------------------
(* Rows, snapshots and what is read from the tables                        *)

RuleList == [Rules -> {"absent", "disabled", "enabled"}]
NoRules  == [r \in Rules |-> "absent"]

\* toWire is applied to enabled rules only; the disabled ones live in rules_json.
Wire(rules) == {r \in Rules : rules[r] = "enabled"}

SubscriptionSet == [source: Subs, content: Contents, target: Targets \cup {NoBinding}]

\* subscriptionSets: one set for every enabled source.
SetsOf(table) ==
    {[source |-> s, content |-> table[s].content, target |-> table[s].target] :
        s \in {t \in Subs : table[t] # Absent /\ table[t].enabled}}

\* subscriptionSets fails on an enabled route subscription without a binding.
SetsReadable(table) ==
    \A s \in RouteSubs :
        table[s] # Absent /\ table[s].enabled => table[s].target # NoBinding

\* buildSnapshot: what is sent to mosdns for a version.
Snapshot(v, row) ==
    [version |-> v, expected |-> row.prev, wire |-> Wire(row.rules), sets |-> row.sets]

SnapshotType ==
    [version: Nat, expected: Nat, wire: SUBSET Rules, sets: SUBSET SubscriptionSet]

NoSnapshot == [version |-> 0, expected |-> 0, wire |-> {}, sets |-> {}]

\* Mutant: a failed version can still be matched.
CandidatesWithFailed ==
    {v \in DOMAIN versions : versions[v].status \in {"pending", "unknown", "failed"}}

Candidates == {v \in DOMAIN versions : versions[v].status \in {"pending", "unknown"}}
Actives    == {v \in DOMAIN versions : versions[v].status = "active"}

\* activeVersion: 0 when no row is active.
ActiveVersion == IF Actives = {} THEN 0 ELSE CHOOSE v \in Actives : TRUE

\* Mutant: off by one.
nextVersionSkips == Len(versions) + 2

nextVersion == Len(versions) + 1

----------------------------------------------------------------------------
(* The worker: bookkeeping                                                 *)

NoJob == [kind |-> "none", rules |-> NoRules, undo |-> <<>>]

Init ==
    /\ versions = <<>>
    /\ domainRules = NoRules
    /\ subs = [s \in Subs |-> Absent]
    /\ pc = "idle" /\ job = NoJob /\ cand = 0 /\ errCode = ""
    /\ runtime = NoSnapshot /\ inflight = {} /\ adopted = {}
    /\ ops = 0 /\ faults = 0

Fault(kind) == kind \in FaultKinds /\ faults < MaxFaults /\ faults' = faults + 1

\* The operation returns and Service.mu is released.
Return == pc' = "idle" /\ job' = NoJob /\ cand' = 0 /\ errCode' = ""

\* publish returned an error: the subscription operations go on to
\* restoreSubscriptionMutation, the others return the error.
PublishError ==
    IF job.kind \in {"mutate", "delete"}
    THEN pc' = "restore" /\ errCode' = "" /\ UNCHANGED <<job, cand>>
    ELSE Return

Goto(label) == pc' = label /\ UNCHANGED <<job, cand, errCode>>

Start(kind, rules, undo) ==
    /\ pc = "idle"
    /\ Len(versions) < MaxVersion
    /\ pc' = "prepare"
    /\ job' = [kind |-> kind, rules |-> rules, undo |-> undo]
    /\ UNCHANGED <<cand, errCode, mosdns, faults>>

Operation == ops < MaxOps /\ ops' = ops + 1

----------------------------------------------------------------------------
(* Administrator operations                                                *)

\* Create, Update, Delete, Batch and Import publish a list derived from
\* domain_rules; nothing is written before publish.
EditRules(rules) ==
    /\ Operation
    /\ Start("edit", rules, <<>>)
    /\ UNCHANGED db

\* Rollback publishes the rules_json of any recorded version.
Rollback(from) ==
    /\ Operation
    /\ Start("edit", versions[from].rules, <<>>)
    /\ UNCHANGED db

\* The subscription operations commit their change to the source tables first
\* and publish the unchanged rules; `undo' is what their restore closure writes.
WriteSource(kind, s, row) ==
    /\ Operation
    /\ Start(kind, domainRules, [t \in {s} |-> subs[t]])
    /\ subs' = [subs EXCEPT ![s] = row]
    /\ UNCHANGED <<versions, domainRules>>

createSubscription(s, content, target, enabled) ==
    /\ subs[s] = Absent
    /\ (target = NoBinding) <=> (s \notin RouteSubs)
    /\ WriteSource("mutate", s, [enabled |-> enabled, content |-> content, target |-> target])

RefreshSubscription(s, content) ==
    /\ subs[s] # Absent
    /\ content # subs[s].content
    /\ WriteSource("mutate", s, [subs[s] EXCEPT !.content = content])

SetSubscriptionEnabled(s, enabled) ==
    /\ subs[s] # Absent
    /\ enabled # subs[s].enabled
    /\ WriteSource("mutate", s, [subs[s] EXCEPT !.enabled = enabled])

UpdateSubscriptionBinding(s, target) ==
    /\ s \in RouteSubs /\ subs[s] # Absent
    /\ subs[s].target # NoBinding
    /\ target # subs[s].target
    /\ WriteSource("mutate", s, [subs[s] EXCEPT !.target = target])

DeleteSubscription(s) ==
    /\ subs[s] # Absent
    /\ WriteSource("delete", s, Absent)

----------------------------------------------------------------------------
(* Reconcile                                                               *)

\* Mutant: Reconcile does not compare the sources with the active version.
ReconcileOutcomeIgnoresSources ==
    LET v == runtime.version
        active == ActiveVersion
    IN  IF v \in Candidates /\ Snapshot(v, versions[v]) = runtime THEN "matched_candidate"
        ELSE IF active = 0 THEN IF v = 0 THEN "republished" ELSE "error"
        ELSE IF v > active THEN "degraded"
        ELSE IF v < active THEN "republished"
        ELSE "unchanged"

\* Mutant: a runtime that fell behind is only reported.
ReconcileOutcomeReportsLoss ==
    LET v == runtime.version
        active == ActiveVersion
    IN  IF v \in Candidates /\ Snapshot(v, versions[v]) = runtime THEN "matched_candidate"
        ELSE IF active = 0 THEN IF v = 0 THEN "republished" ELSE "error"
        ELSE IF v # active \/ Snapshot(active, versions[active]) # runtime THEN "degraded"
        ELSE IF versions[active].sets # SetsOf(subs) THEN "republished"
        ELSE "unchanged"

\* What Reconcile decides from one Status answer and the tables.
ReconcileOutcome ==
    LET v == runtime.version
        active == ActiveVersion
    IN  IF v \in Candidates /\ Snapshot(v, versions[v]) = runtime
        THEN IF SetsReadable(subs) THEN "matched_candidate" ELSE "error"
        ELSE IF active = 0 THEN IF v = 0 THEN "republished" ELSE "error"
        ELSE IF v > active THEN "degraded"
        ELSE IF v < active THEN "republished"
        ELSE IF Snapshot(active, versions[active]) # runtime THEN "degraded"
        ELSE IF ~SetsReadable(subs) THEN "error"
        ELSE IF versions[active].sets # SetsOf(subs) THEN "republished"
        ELSE "unchanged"

\* Mutant: the rules are taken from snapshot_json, which has no disabled ones.
ReconcileMatchFromSnapshot ==
    /\ pc = "idle"
    /\ Len(versions) < MaxVersion
    /\ ReconcileOutcome = "matched_candidate"
    /\ pc' = "finalize"
    /\ cand' = runtime.version
    /\ job' = [NoJob EXCEPT !.kind = "match",
         !.rules = [r \in Rules |-> IF r \in runtime.wire THEN "enabled" ELSE "absent"]]
    /\ UNCHANGED <<db, errCode, mosdns, ops, faults>>

\* The runtime serves a candidate: finalize it, then look at the sources.
ReconcileMatch ==
    /\ pc = "idle"
    /\ Len(versions) < MaxVersion
    /\ ReconcileOutcome = "matched_candidate"
    /\ pc' = "finalize"
    /\ cand' = runtime.version
    /\ job' = [NoJob EXCEPT !.kind = "match", !.rules = versions[runtime.version].rules]
    /\ UNCHANGED <<db, errCode, mosdns, ops, faults>>

\* Publish the rules of domain_rules again as a new version.
ReconcileRepublish ==
    /\ ReconcileOutcome = "republished"
    /\ Start("reconcile", domainRules, <<>>)
    /\ UNCHANGED <<db, ops>>

\* Reconcile reports unchanged, degraded or an error and does nothing (or the
\* instance has no version number left).
ReconcileRest ==
    /\ pc = "idle"
    /\ \/ ReconcileOutcome \in {"unchanged", "degraded", "error"}
       \/ Len(versions) = MaxVersion
    /\ UNCHANGED vars

----------------------------------------------------------------------------
(* publish                                                                 *)

\* Mutant: the number of a failed version is used again.
PublishInsertReuses ==
    LET row == [status |-> "pending", code |-> "", prev |-> ActiveVersion,
                rules |-> job.rules, sets |-> SetsOf(subs)]
        last == Len(versions)
    IN  /\ pc = "prepare"
        /\ SetsReadable(subs)
        /\ versions' = IF last > 0 /\ versions[last].status = "failed"
                       THEN [versions EXCEPT ![last] = row]
                       ELSE Append(versions, row)
        /\ cand' = Len(versions')
        /\ pc' = "validate"
        /\ UNCHANGED <<domainRules, subs, job, errCode, mosdns, ops, faults>>

\* publish up to and including the INSERT of the pending row.
PublishInsert ==
    /\ pc = "prepare"
    /\ SetsReadable(subs)
    /\ versions' = Append(versions,
         [status |-> "pending", code |-> "", prev |-> ActiveVersion,
          rules |-> job.rules, sets |-> SetsOf(subs)])
    /\ cand' = nextVersion
    /\ pc' = "validate"
    /\ UNCHANGED <<domainRules, subs, job, errCode, mosdns, ops, faults>>

\* A read, validateRules, validateRouteTargets or the INSERT fails: Version{}.
PublishRefused ==
    /\ pc = "prepare"
    /\ \/ SetsReadable(subs) /\ Fault("db")
       \/ ~SetsReadable(subs) /\ UNCHANGED faults
    /\ PublishError
    /\ UNCHANGED <<db, mosdns, ops>>

PublishValidated ==
    /\ pc = "validate"
    /\ Goto("apply")
    /\ UNCHANGED <<db, mosdns, ops, faults>>

\* Leave publish through fail(ctx, version, code, ...).
FailWith(code) == pc' = "fail" /\ errCode' = code /\ UNCHANGED <<job, cand>>

\* Validate errs, rejects the snapshot, or answers with another checksum.
PublishInvalid ==
    /\ pc = "validate"
    /\ Fault("call")
    /\ \E code \in {"VALIDATION_FAILED", "CHECKSUM_MISMATCH"} : FailWith(code)
    /\ UNCHANGED <<db, mosdns, ops>>

\* The snapshot publish sends.
Sent == Snapshot(cand, versions[cand])

\* PUT /snapshot on the mosdns side: versions only grow, and a runtime that
\* checks expected_current_version compares it with what it serves.
Accepts(snapshot) ==
    /\ snapshot.version > runtime.version
    /\ ChecksExpected => snapshot.expected = runtime.version

Adopt(snapshot) ==
    /\ runtime' = snapshot
    /\ adopted' = adopted \cup {snapshot.version}

PublishApplied ==
    /\ pc = "apply"
    /\ Accepts(Sent)
    /\ Adopt(Sent)
    /\ Goto("finalize")
    /\ UNCHANGED <<db, inflight, ops, faults>>

\* Mutant: the error of Apply is dropped.
PublishRejectedIgnored ==
    /\ pc = "apply"
    /\ \/ ~Accepts(Sent) /\ UNCHANGED faults
       \/ Accepts(Sent) /\ Fault("call")
    /\ Goto("finalize")
    /\ UNCHANGED <<db, mosdns, ops>>

\* 409 (ErrConflict) or another 4xx (ErrRejected).
PublishRejected ==
    /\ pc = "apply"
    /\ \/ ~Accepts(Sent) /\ UNCHANGED faults
       \/ Accepts(Sent) /\ Fault("call")
    /\ FailWith("APPLY_FAILED")
    /\ UNCHANGED <<db, mosdns, ops>>

\* Mutant: a lost answer is taken for a failure.
PublishReplyLostFails ==
    /\ pc = "apply"
    /\ Accepts(Sent)
    /\ Fault("lost_reply")
    /\ Adopt(Sent)
    /\ FailWith("APPLY_FAILED")
    /\ UNCHANGED <<db, inflight, ops>>

\* ErrUnknown after the runtime took the snapshot: the answer was lost.
PublishReplyLost ==
    /\ pc = "apply"
    /\ Accepts(Sent)
    /\ Fault("lost_reply")
    /\ Adopt(Sent)
    /\ Goto("unknown")
    /\ UNCHANGED <<db, inflight, ops>>

\* ErrUnknown before the runtime executed the request: with "late" mosdns may
\* still execute it, otherwise the request is gone.
PublishUnanswered ==
    /\ pc = "apply"
    /\ \/ Fault("late") /\ inflight' = inflight \cup {Sent}
       \/ Fault("call") /\ UNCHANGED inflight
    /\ Goto("unknown")
    /\ UNCHANGED <<db, runtime, adopted, ops>>

\* A 200 whose body is not the expected acknowledgement; the runtime may or may
\* not have taken the snapshot.
PublishBadReply ==
    /\ pc = "apply"
    /\ Fault("invalid")
    /\ \/ Accepts(Sent) /\ Adopt(Sent)
       \/ UNCHANGED <<runtime, adopted>>
    /\ FailWith("APPLY_RESPONSE_INVALID")
    /\ UNCHANGED <<db, inflight, ops>>

SetStatus(v, status, code) ==
    versions' = [versions EXCEPT ![v] = [@ EXCEPT !.status = status, !.code = code]]

\* The UPDATE to 'unknown'; its error is ignored.
PublishMarkUnknown ==
    /\ pc = "unknown"
    /\ \/ SetStatus(cand, "unknown", "PUBLISH_UNKNOWN") /\ UNCHANGED faults
       \/ UNCHANGED versions /\ Fault("db")
    /\ Goto("query")
    /\ UNCHANGED <<domainRules, subs, mosdns, ops>>

\* Mutant: any move of the runtime counts as success.
PublishQueryAnyVersion ==
    /\ pc = "query"
    /\ IF runtime.version # versions[cand].prev THEN Goto("finalize")
       ELSE FailWith("APPLY_TIMEOUT_NOT_APPLIED")
    /\ UNCHANGED <<db, mosdns, ops, faults>>

\* The Status query after ErrUnknown: finalize, fail, or stay in doubt.
PublishQuery ==
    /\ pc = "query"
    /\ IF runtime = Sent THEN Goto("finalize")
       ELSE IF runtime.version = versions[cand].prev
            THEN FailWith("APPLY_TIMEOUT_NOT_APPLIED")
            ELSE PublishError
    /\ UNCHANGED <<db, mosdns, ops, faults>>

PublishQueryFails ==
    /\ pc = "query"
    /\ Fault("call")
    /\ PublishError
    /\ UNCHANGED <<db, mosdns, ops>>

\* finalizeWithRules, one transaction.
Activate(v, rules) ==
    /\ versions' = [w \in DOMAIN versions |->
         IF w = v THEN [versions[w] EXCEPT !.status = "active", !.code = ""]
         ELSE IF versions[w].status = "active"
              THEN [versions[w] EXCEPT !.status = "superseded"]
              ELSE versions[w]]
    /\ domainRules' = rules

\* After the commit publish returns; Reconcile, having matched a candidate,
\* publishes once more when the candidate does not carry the current sources.
Finalize ==
    /\ pc = "finalize"
    /\ Activate(cand, job.rules)
    /\ IF job.kind = "match" /\ versions[cand].sets # SetsOf(subs)
       THEN /\ pc' = "prepare" /\ cand' = 0
            /\ job' = [job EXCEPT !.kind = "reconcile"]
            /\ UNCHANGED errCode
       ELSE Return
    /\ UNCHANGED <<subs, mosdns, ops, faults>>

FinalizeFails ==
    /\ pc = "finalize"
    /\ Fault("db")
    /\ PublishError
    /\ UNCHANGED <<db, mosdns, ops>>

\* fail: the UPDATE to 'failed', which may itself fail.
Fail ==
    /\ pc = "fail"
    /\ \/ SetStatus(cand, "failed", errCode) /\ UNCHANGED faults
       \/ UNCHANGED versions /\ Fault("db")
    /\ PublishError
    /\ UNCHANGED <<domainRules, subs, mosdns, ops>>

----------------------------------------------------------------------------
(* restoreSubscriptionMutation                                             *)

FailedBeforeApply(row) ==
    /\ row.status = "failed"
    /\ row.code \in {"VALIDATION_FAILED", "CHECKSUM_MISMATCH", "APPLY_FAILED",
                     "APPLY_TIMEOUT_NOT_APPLIED"}

\* Mutant: every failed publish is compensated.
MayUndoAlways(v) == v = cand

\* Whether the Status answer allows compensation of version v.
MayUndo(v) ==
    /\ runtime # Snapshot(v, versions[v])
    /\ FailedBeforeApply(versions[v]) \/ runtime.version = versions[v].prev

\* Without a version nothing was sent; otherwise the row and Status decide.
Restore ==
    /\ pc = "restore"
    /\ IF cand = 0 \/ MayUndo(cand) THEN Goto("undo") ELSE Return
    /\ UNCHANGED <<db, mosdns, ops, faults>>

\* Status fails: only a version that failed before apply is compensated.
RestoreBlind ==
    /\ pc = "restore" /\ cand # 0
    /\ Fault("call")
    /\ IF FailedBeforeApply(versions[cand]) THEN Goto("undo") ELSE Return
    /\ UNCHANGED <<db, mosdns, ops>>

\* The row of rule_versions cannot be read: the outcome counts as unknown.
RestoreUnread ==
    /\ pc = "restore" /\ cand # 0
    /\ Fault("db")
    /\ Return
    /\ UNCHANGED <<db, mosdns, ops>>

WriteBack(rows) ==
    subs' = [s \in Subs |-> IF s \in DOMAIN rows THEN rows[s] ELSE subs[s]]

Bound(rows) == \E s \in DOMAIN rows : rows[s] # Absent /\ rows[s].target # NoBinding

Unbound(row) == IF row = Absent THEN Absent ELSE [row EXCEPT !.target = NoBinding]

\* The restore closure.  Re-inserting a deleted route subscription takes two
\* statements, the subscription and then its binding.
Undo ==
    /\ pc = "undo"
    /\ IF job.kind = "delete" /\ Bound(job.undo)
       THEN /\ WriteBack([s \in DOMAIN job.undo |-> Unbound(job.undo[s])])
            /\ Goto("undo_binding")
       ELSE WriteBack(job.undo) /\ Return
    /\ UNCHANGED <<versions, domainRules, mosdns, ops, faults>>

UndoBinding ==
    /\ pc = "undo_binding"
    /\ WriteBack(job.undo)
    /\ Return
    /\ UNCHANGED <<versions, domainRules, mosdns, ops, faults>>

UndoFails ==
    /\ \/ pc = "undo" /\ Fault("db")
       \/ pc = "undo_binding" /\ Fault("binding")
    /\ Return
    /\ UNCHANGED <<db, mosdns, ops>>

----------------------------------------------------------------------------
(* The controller process and the mosdns runtime                           *)

\* The process dies; the database keeps what was committed.  A death between the
\* two statements of Undo belongs to the instances that admit "binding".
Crash ==
    /\ pc # "idle"
    /\ pc = "undo_binding" => "binding" \in FaultKinds
    /\ Fault("crash")
    /\ Return
    /\ UNCHANGED <<db, mosdns, ops>>

\* mosdns gets to a request whose client has given up.
LateApply(request) ==
    /\ inflight' = inflight \ {request}
    /\ IF Accepts(request) THEN Adopt(request) ELSE UNCHANGED <<runtime, adopted>>
    /\ UNCHANGED <<db, worker, ops, faults>>

\* mosdns restarts: its connections are gone, and it serves no snapshot or one
\* that an earlier activation made it persist.
RuntimeLoses ==
    /\ Fault("lose")
    /\ runtime.version # 0
    /\ runtime' = NoSnapshot /\ inflight' = {}
    /\ UNCHANGED <<db, worker, adopted, ops>>

RuntimeRegresses ==
    /\ Fault("regress")
    /\ \E v \in DOMAIN versions :
         /\ versions[v].status = "superseded" /\ v < runtime.version
         /\ runtime' = Snapshot(v, versions[v])
    /\ inflight' = {}
    /\ UNCHANGED <<db, worker, adopted, ops>>

----------------------------------------------------------------------------

AdminOperation ==
    \/ \E rules \in RuleList : EditRules(rules)
    \/ \E from \in DOMAIN versions : Rollback(from)
    \/ \E s \in Subs, content \in Contents, target \in Targets \cup {NoBinding},
          enabled \in BOOLEAN : createSubscription(s, content, target, enabled)
    \/ \E s \in Subs, content \in Contents : RefreshSubscription(s, content)
    \/ \E s \in Subs, enabled \in BOOLEAN : SetSubscriptionEnabled(s, enabled)
    \/ \E s \in Subs, target \in Targets : UpdateSubscriptionBinding(s, target)
    \/ \E s \in Subs : DeleteSubscription(s)

Reconcile == ReconcileMatch \/ ReconcileRepublish \/ ReconcileRest

\* The steps of the operation that holds Service.mu.
WorkerStep ==
    \/ PublishInsert \/ PublishRefused
    \/ PublishValidated \/ PublishInvalid
    \/ PublishApplied \/ PublishRejected \/ PublishReplyLost
    \/ PublishUnanswered \/ PublishBadReply
    \/ PublishMarkUnknown \/ PublishQuery \/ PublishQueryFails
    \/ Finalize \/ FinalizeFails \/ Fail
    \/ Restore \/ RestoreBlind \/ RestoreUnread
    \/ Undo \/ UndoBinding \/ UndoFails

Runtime ==
    \/ \E request \in inflight : LateApply(request)
    \/ RuntimeLoses
    \/ RuntimeRegresses

Next == AdminOperation \/ Reconcile \/ WorkerStep \/ Crash \/ Runtime

Spec == Init /\ [][Next]_vars

\* An operation that holds the lock runs on; Reconcile runs every minute; mosdns
\* ends every request it has received.
Fairness ==
    /\ WF_vars(WorkerStep)
    /\ WF_vars(ReconcileMatch \/ ReconcileRepublish)
    /\ WF_vars(\E request \in inflight : LateApply(request))

FairSpec == Spec /\ Fairness

----------------------------------------------------------------------------
(* Properties                                                              *)

Labels == {"idle", "prepare", "validate", "apply", "unknown", "query", "finalize",
           "fail", "restore", "undo", "undo_binding"}
Statuses == {"pending", "unknown", "active", "superseded", "failed"}
FailCodes == {"VALIDATION_FAILED", "CHECKSUM_MISMATCH", "APPLY_FAILED",
              "APPLY_TIMEOUT_NOT_APPLIED", "APPLY_RESPONSE_INVALID"}
Codes == FailCodes \cup {"", "PUBLISH_UNKNOWN"}
Row == [status: Statuses, code: Codes, prev: Nat, rules: RuleList,
        sets: SUBSET SubscriptionSet]
Job == [kind: {"none", "edit", "mutate", "delete", "reconcile", "match"},
        rules: RuleList,
        undo: UNION {[S -> SubState \cup {Absent}] : S \in SUBSET Subs}]

\* Labels between the INSERT of the candidate and the end of publish.
Publishing == {"validate", "apply", "unknown", "query", "finalize", "fail"}

\* Every variable has the shape of the table, the local or the runtime state it
\* stands for, and the worker's candidate is none, 0, or a recorded version.
TypeOK ==
    /\ versions \in Seq(Row)
    /\ domainRules \in RuleList
    /\ subs \in [Subs -> SubState \cup {Absent}]
    /\ pc \in Labels /\ job \in Job /\ errCode \in Codes
    /\ cand \in 0..Len(versions)
    /\ runtime \in SnapshotType
    /\ inflight \in SUBSET SnapshotType
    /\ adopted \in SUBSET DOMAIN versions
    /\ ops \in Nat /\ faults \in Nat

Recorded(snapshot) ==
    /\ snapshot.version \in DOMAIN versions
    /\ snapshot = Snapshot(snapshot.version, versions[snapshot.version])

\* mosdns never serves a snapshot the controller has no row for: publish records
\* a version before it sends it and never reuses a number, so that a crash
\* anywhere leaves Reconcile able to recognise what is being served.
ServedIsRecorded == runtime # NoSnapshot => Recorded(runtime)

\* finalizeWithRules keeps domain_rules the rule list, disabled rules included,
\* of the one active version.
ActiveOwnsRules ==
    /\ \A v, w \in Actives : v = w
    /\ \A v \in Actives : domainRules = versions[v].rules
    /\ Actives = {} => domainRules = NoRules

\* A version judged failed or superseded keeps that verdict.
VerdictsAreFinal ==
    [][\A v \in DOMAIN versions :
         versions[v].status \in {"failed", "superseded"} => versions'[v] = versions[v]]_vars

Contract ==
    INSTANCE PublicationContract WITH
        RuleList <- RuleList,
        NoRules <- NoRules,
        proposed <- [v \in DOMAIN versions |-> versions[v].rules],
        served <- adopted,
        published <- [version |-> ActiveVersion, rules |-> domainRules]

\* The pipeline keeps the service's promise: the visible rules change only in
\* finalizeWithRules, to the list recorded under a version that the runtime
\* served, and the active version never goes back, whatever arrives late and
\* however Reconcile picks candidates up.
KeepsContract == Contract!Spec

\* Between operations, what mosdns serves ahead of the active version is still
\* an open candidate, so Reconcile will activate it: no outcome of Apply was
\* misjudged as a failure.
ServedIsOpen ==
    pc = "idle" /\ runtime.version > ActiveVersion => runtime.version \in Candidates

\* restoreSubscriptionMutation undoes a source change only while the runtime
\* does not serve the candidate that carries it.
UndoneIsNotServed ==
    pc \in {"undo", "undo_binding"} /\ cand # 0 => runtime.version # cand

----------------------------------------------------------------------------
(* The inductive invariant behind ServedIsRecorded and KeepsContract       *)

\* While publish runs, its version is an open candidate above the active one
\* that records the job's rules.
CandidateIsOpen ==
    pc \in Publishing =>
        /\ cand \in Candidates /\ cand > ActiveVersion
        /\ versions[cand].rules = job.rules

\* What was activated, what is served and what is about to be activated was
\* adopted by the runtime.
ActivatedWasServed ==
    /\ runtime.version # 0 => runtime.version \in adopted
    /\ pc = "finalize" => cand \in adopted
    /\ \A v \in DOMAIN versions :
         versions[v].status \in {"active", "superseded"} => v \in adopted

\* The version the controller has committed to, or is about to.
Floor == IF pc = "finalize" THEN cand ELSE ActiveVersion

\* The runtime serves at least the floor, or it was restarted onto nothing or
\* onto a superseded version; then no old request can reach it any more.
RuntimeAtFloor ==
    \/ runtime.version >= Floor
    \/ /\ runtime.version # 0 => versions[runtime.version].status = "superseded"
       /\ \A request \in inflight : request.version > Floor

IInv ==
    /\ TypeOK
    /\ ServedIsRecorded
    /\ \A request \in inflight : Recorded(request)
    /\ ActiveOwnsRules
    /\ CandidateIsOpen
    /\ ActivatedWasServed
    /\ RuntimeAtFloor

----------------------------------------------------------------------------

Converged ==
    /\ pc = "idle"
    /\ runtime.version = ActiveVersion
    /\ runtime.wire = Wire(domainRules)
    /\ runtime.sets = SetsOf(subs)

\* Once administrators and faults are quiet, periodic reconciliation brings the
\* runtime, the active version and the source tables together for good.
EventuallyConverged == <>[]Converged

\* The comment in publish: "only when it is clearly still the old version can
\* it be finally judged failed".
NotAppliedIsNotServed ==
    runtime.version # 0 =>
        versions[runtime.version].code # "APPLY_TIMEOUT_NOT_APPLIED"

\* subscriptionSets treats an enabled route subscription without a binding as
\* an error: outside an operation there is none.
RouteSubscriptionsBound == pc = "idle" => SetsReadable(subs)

\* The comment on Reconcile: it settles PENDING and UNKNOWN versions from the
\* runtime's status.
CandidatesSettle == \A v \in 1..MaxVersion : v \in Candidates ~> v \notin Candidates

=============================================================================
