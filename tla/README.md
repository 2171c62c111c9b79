# Formal models of mosdns-controller

TLA+ specifications, model-checking instances and proofs for the control plane of a
managed mosdns resolver (`src/controller`, Go). The controller keeps domain rules and
subscriptions in SQLite, turns them into numbered snapshots, applies them to a running
mosdns over HTTP, and has to end up with the same state on both sides although calls
time out, the process dies and mosdns restarts on its own. Beside that it keeps the
upstream groups and settings of mosdns in step with its database, stores the query
events that mosdns sends, and lets administrators log in.

- [Inventory](#inventory)
- [Modules](#modules)
- [Rule publication: state and actions](#rule-publication-state-and-actions)
- [Rule edits: state and actions](#rule-edits-state-and-actions)
- [Subscription refresh: state and actions](#subscription-refresh-state-and-actions)
- [Registry and settings: state and actions](#registry-and-settings-state-and-actions)
- [Query ingest: state and actions](#query-ingest-state-and-actions)
- [Authentication: state and actions](#authentication-state-and-actions)
- [Runs](#runs)
- [Bounds](#bounds)
- [Fairness](#fairness)
- [Proofs](#proofs)
- [What the models found](#what-the-models-found)
- [Not modelled](#not-modelled)
- [Plan](#plan)

## Inventory

| Component | State | Operations | Interaction | Hard behaviour | Correct when |
|---|---|---|---|---|---|
| rule service (`rules/service.go`) | `rule_versions`, `domain_rules`, `Service.mu` | Create, Update, Delete, Batch, Import, Rollback, Reconcile, publish | Validate/Apply/Status calls to mosdns; `UpstreamBindings` lock shared with operations | a write whose outcome is unknown, a crash between Apply and finalize, late execution | the rules that administrators see are the ones mosdns served last; versions only grow; a quiet system converges |
| subscriptions (`rules/subscriptions.go`) | `rule_subscriptions`, `subscription_bindings` | create, refresh, enable, bind, delete, RefreshDue | commit the source tables, then publish, then compensate on failure | compensation racing the runtime; two-statement compensation; unlocked download | a source change is undone only if the runtime does not serve it |
| upstream registry (`operations/service.go`) | registry inside mosdns, audit rows | create/update/delete/flush group | compare-and-set on the registry version; reference checks over the rule tables | check then act across two systems | no referenced group disappears |
| settings (`operations/service.go`) | `system_state` settings, mosdns audit and address-family state | Settings, SyncSettings, UpdateSettings | periodic sync against administrator changes | several calls, one of which fails | the database and mosdns agree after a sync |
| query ingest (`queryingest/service.go`) | bounded queue, `dns_queries`, hourly aggregates, subscribers | Enqueue, writer, retain, Subscribe, ClearQueryHistory | mosdns posts batches and retries | full queue, retried batch, retention, slow stream client | an event is stored once and counted once |
| authentication (`auth/`) | `admins`, `sessions`, login limiter | bootstrap, login, session, change/reset password | HTTP middleware | races between login and reset, limiter at capacity | a reset leaves no session of the old password |
| mosdns client (`mosdnsclient/client.go`) | none | one HTTP call per operation | classifies results as ok, conflict, rejected, unknown | an error after the effect | unknown whenever the effect is possible |
| storage (`storage/`) | SQLite handle, schema | open, migrate | one connection for everybody | durability after power loss | constraints of the schema hold |
| process (`cmd/controller/main.go`) | none | startup and periodic Reconcile and SyncSettings, RefreshDue, shutdown | calls the services | overlap with administrator requests | every minute one attempt |
| HTTP application (`app/`), configuration, web console, deployment | none of their own | routing, decoding, rendering | | | |

`PROJECT.json` lists the hazards of this code line by line, with the property that
would catch each.

## Modules

| Module | Role |
|---|---|
| `RulePublication` | the publication pipeline: rule service, subscriptions, the snapshot endpoint of mosdns |
| `PublicationContract` | what the pipeline promises: proposals get consecutive numbers, only proposals are served, what is published was served, published numbers grow |
| `MCRulePublication` | instance for TLC; each `Publication*.cfg` chooses sets, faults and properties |
| `RulePublicationProofs` | TLAPS proofs: the inductive invariant, the safety theorems, the refinement, and what holds without late execution |
| `RuleEdits` | what the list operations compute: rows, ids, stamps and the stale-update check, over `PublicationContract` |
| `MCRuleEdits` | instance for TLC with `EditsSafety.cfg` and `EditsStaleFlag.cfg` |
| `RuleEditsProofs` | TLAPS proofs about ids and stamps |
| `SubscriptionRefresh` | the unlocked download, the comparison of `updated_at_ms`, recorded failures and `RefreshDue` |
| `MCSubscriptionRefresh` | instance for TLC with `RefreshSafety.cfg` |
| `SubscriptionRefreshProofs` | TLAPS proofs about the undo and the order of attempts |
| `Registry` | upstream groups, settings, the reference check and the lock `UpstreamBindings`, composed with the outcomes of rule publication |
| `MCRegistry` | instance for TLC with `RegistrySafety.cfg` |
| `RegistryProofs` | TLAPS proofs about the default group, references and settings |
| `QueryIngest` | queue, writer, aggregates, answer diagnostics, live streams, retention, stop and crash |
| `MCQueryIngest` | instance for TLC with `IngestSafety.cfg` |
| `QueryIngestProofs` | TLAPS proofs about the queue, the stop, the tables, the diagnostics and the streams |
| `Auth` | bootstrap, login, password change, commands of another process, login limiter |
| `MCAuth` | instance for TLC with `AuthSafety.cfg` |
| `AuthProofs` | TLAPS proofs about administrators, sessions, the limiter and the password memory |

Definitions that a mutation of the code would produce (`nextVersionSkips`,
`PublishInsertReuses`, ...) stand next to the definition they vary. They are not part of
`Spec`; replacing the original by one of them must make TLC report the property
that `PROJECT.json` pairs it with.

## Rule publication: state and actions

`Service.mu` is held over every operation, so there is one worker. It walks through
`pc`, one database write or one mosdns call per step:

```
idle -> prepare -> validate -> apply -> finalize -> idle
                      |          |  \-> unknown -> query -> finalize | fail | (in doubt)
                      |          v
                      +-------> fail -> idle, or for subscriptions
                                restore -> undo (-> undo_binding) -> idle
```

| Variable | Code |
|---|---|
| `versions` | `rule_versions`: status, error code, `previous_version`, `rules_json`, subscription sets of `snapshot_json`; row *v* is `versions[v]` |
| `domainRules` | `domain_rules` |
| `subs` | `rule_subscriptions` joined with `subscription_bindings` |
| `pc`, `job`, `cand`, `errCode` | the locals of the running operation and where it is |
| `runtime`, `inflight` | mosdns (external): the served snapshot, and requests whose client is gone |
| `adopted` | history: versions that were ever served |

A database read under the lock belongs to the step of the write or call that follows it:
nobody else can change the tables in between. Rule contents, domain lists and
(group, priority) pairs are elements of small sets. The checksum covers the whole
snapshot, version, `expected_current_version` and generation time included, and is
modelled by the snapshot.

Administrator operations: `EditRules` (Create, Update, Delete, Batch, Import: any list),
`Rollback`, `createSubscription`, `RefreshSubscription`, `SetSubscriptionEnabled`,
`UpdateSubscriptionBinding`, `DeleteSubscription`. A refresh is allowed to bring any new
content at any time: the unlocked download and its conflict check only make fewer
refreshes succeed.

`ReconcileOutcome` is the decision of `Reconcile`; `ReconcileMatch`, `ReconcileRepublish`
and `ReconcileRest` carry it out. Periodic and manual reconciliation are the same
operation.

Faults are disjuncts of their own, admitted per instance by `FaultKinds`: `db` (a
statement fails, e.g. on an expired context), `call` (a mosdns call fails without
effect), `lost_reply` (the effect happened, the answer did not arrive), `late` (the
effect may happen any time later), `invalid` (a 200 with a wrong body), `binding` (the
second statement of the deletion's compensation fails), `crash`, `lose` and `regress`
(mosdns restarts on nothing or on a superseded snapshot).

mosdns is external. It is modelled from the requests the client sends and the contract
in `docs/mosdns-v5.3.4-compatibility.md`: versions increase; whether
`expected_current_version` is compared is the constant `ChecksExpected`. The restarts of
mosdns drop the requests it had received.

## Rule edits: state and actions

`RulePublication` publishes any list; `RuleEdits` says which one. It is built on the
contract that `RulePublication` implements: an operation records a list
(`Contract!Propose`), mosdns serves it at once, late or never (`Served`), and
`finalizeWithRules` makes it `domain_rules` then or in a later `Reconcile`
(`Activated`). So an operation may start from a list that is about to be replaced by
an earlier one whose outcome was open.

| Variable | Code |
|---|---|
| `proposed`, `served`, `published` | `rules_json` of each version; what mosdns has served; the active version with `domain_rules` |
| `lastId` | `next_rule_id` in `system_state` |
| `clock` | wall-clock time, counted in operations |
| `form` | the rule that an administrator's browser has loaded and may submit |

`Create`, `Import`, `Update`, `Delete`, `Batch`, `Rollback` are the methods of the same
name; `Republish` stands for `Reconcile` and the subscription operations, which publish
the list unchanged. `publish` refuses lists with a duplicate pattern and may refuse any
list (unreadable sources, unknown upstream group, other field checks, database error);
reserved ids are then lost. A pattern stands for category, match type and normalised
pattern, the key of the duplicate check; the enabled flag is kept because the
operations treat it differently.

Assumption on time: each operation gets a later `time.Now().UnixMilli()` than the one
before. Operations are serialised and each does at least two commits, and mosdns calls if
it publishes; a clock set back is outside the model. With equal or decreasing
times the step "old stamp plus one" in `Update` does not suffice: update, rollback,
update could produce the same stamp for two patterns.

## Subscription refresh: state and actions

`RulePublication` lets a refresh bring any content at any time. `SubscriptionRefresh` says
when it may: `RefreshSubscription` reads the row (`AdminRefresh`, `RefreshNext`), downloads
without a lock (`Download`), takes `Service.mu` and compares `updated_at_ms` (`Current`).
Then it ends in a conflict, records an error (`subscriptionFailure`), stores a check without
a change (`StoreSame`) or stores new content and publishes it (`StoreNew`). Creation,
enabling and deletion write their row and publish in the same way; `Published` and
`PublishFails` end the operation, the latter with the `restore` closure of its kind.

| Variable | Code |
|---|---|
| `row` | `rule_subscriptions`: enabled, content, `last_error`, `last_checked_at_ms`, `updated_at_ms`; `attempt` is a history |
| `created` | ids given out (AUTOINCREMENT) |
| `mu` | `Service.mu` while a publication runs: the operation, the row it found and the row it stored |
| `call` | the calls of `RefreshSubscription` in progress |
| `todo` | what the running `RefreshDue` has left of its list |
| `clock` | `time.Now().UnixMilli()` |

Assumption on time: the clock is not set back, and a download and an attempt to publish
take at least a millisecond each. It is needed: the undo restores the old stamp, so the
next change may get the stamp that was undone, `max(now, old + 1)`, and a refresh that read
the row in between would pass the comparison.

## Registry and settings: state and actions

mosdns holds the registry (groups, default group, cache) and the address family; the
database holds the settings an administrator asked for; rules and bindings name groups.
Each HTTP request and the periodic `SyncSettings` is a process `job[p]`:

```
group change:  (references ->) apply (-> query) -> idle
settings:      apply (-> query) -> family -> persist -> idle
sync:          sync -> apply (-> query) -> family -> persist -> idle
rule, binding: publish -> idle
```

| Variable | Code |
|---|---|
| `registry`, `family` | mosdns (external): upstream registry and address family mode |
| `delayed`, `overtaken` | requests that got no answer and may be executed later; whether one was |
| `db` | the settings in `system_state` |
| `binding` | `subscription_bindings` |
| `active`, `candidates`, `last` | `rule_versions`: the active version, the pending and unknown ones, the largest number |
| `serving`, `late` | mosdns (external): the number of the rule version it serves, and of those it may still get to although their sender has stopped waiting |
| `lock` | `UpstreamBindings` |
| `stored` | history: the settings of the last `UpdateSettings` beside which no other settings operation ran |

`ApplyAnswered`, `ApplyRefused`, `ApplyUnanswered` and `ApplyQuery` are `applyRegistry`;
mosdns takes a registry only if it is based on its current version. Group updates and
deletions and all writers of rules and bindings hold the lock; creations, settings and
`Reconcile` do not. The version of the registry that an administrator's form carries is the
one just read, any other is a conflict without effect.

Publication is one step here, with the outcomes that `RulePublication` has step by step. Two
things matter, how the row ends and what becomes of the request:

| Row | Served at once | Under way (`late`) | Never |
|---|---|---|---|
| active (`Finalized`) | yes | | |
| pending or unknown (`Unsettled`) | lost answer, failed commit | lost answer | row could not be updated |
| failed (`Failed`) | `APPLY_RESPONSE_INVALID` | `APPLY_TIMEOUT_NOT_APPLIED`, if mosdns still served the active version | `VALIDATION_FAILED`, `APPLY_FAILED`, ... |
| none (`PublishRefused`) | | | refused before the INSERT |

and after all but the first `restoreSubscriptionMutation` may write the old binding back,
unless mosdns serves the version. `Adopt` is mosdns getting to a late version, whatever its
row says; `RuntimeRestarts` takes it back to an earlier version or none and loses what was
under way. `ReconcileCandidate` activates an open version that is served;
`ReconcileRepublish` publishes again when nothing was published yet, when mosdns has fallen
behind or when the version does not carry the binding; a version ahead of the active one
that is not open is left alone (degraded). That mosdns keeps its registry and its address
family over a restart is an assumption about a program outside this repository: without
it no property about the registry could hold.

## Query ingest: state and actions

`Enqueue` holds `enqueueMu`, checks the capacity for the whole batch and then sends event by
event (`EnqueueEvent`) while the writer receives. The writer collects (`WriterReceive`) and
flushes a full batch or on a tick:

```
collect -> flush -> keep -> publish -> collect
drain   -> flush -> keep -> publish -> closing -> stopped      after Close
```

`flush` is one transaction that inserts event by event (`InsertEvent`; a repeated event is
not new) and ends with aggregates and commit (`Persist`) or with nothing (`PersistFails`).
Then the new events go to the diagnostics (`cacheAnswerDiagnostics`) and after that to
the streams (`publish`), one event per step. The database has one connection, so
retention and clearing wait for the transaction (`InTransaction`), and subscribing and
unsubscribing wait for `publish`, which holds the subscribers' mutex (`MuFree`). Clients read
at any moment. `Close` comes after the HTTP servers have shut down; `Restart` is the
start after a stop or a crash.

| Variable | Code |
|---|---|
| `queue`, `enqueueMu`, `sender` | the channel, its mutex, the handlers inside `Enqueue` |
| `batch`, `writer`, `done` | the writer goroutine's batch, its place, and whether `Close` has been called |
| `inserted`, `stored` | the events that the flush has inserted: what the diagnostics, and what the streams, have not taken yet |
| `raw`, `counted` | `dns_queries`; how often an event is in `dns_stats_hourly_global` |
| `retention` | where a running `retain` is between its statements |
| `forgotten` | history: events of which retention has deleted the row alone or the count alone |
| `diagnostics` | `answerDiagnosticsOrder` and the keys of `answerDiagnostics` |
| `stream` | subscribers: channel, filter, and as histories what was due and what was read |

An event is its `event_id`. mosdns may send any batch at any time, which covers batches that
are repeated after a lost answer. The aggregate tables are written by the
same statement pattern in the same transaction, and one stands for all. `counted` may be read
as any of them.

`retain` is a sequence of autocommitted statements, and other transactions may come between
any two. First it deletes the aggregates of whole hours before a limit, 90 days ago for
`dns_stats_hourly_client_domain` and a year for the others (`retain`); then rows before the
retention days, and the oldest rows if the file is near its limit (`retainRows`, once for
each). The limits have nothing to do with each other: with 365 days of retention an hour's
aggregates go before the rows of its second half. So each step deletes any events of its
table, and `forgotten` records those of which one of the two is left.

## Authentication: state and actions

A request walks from the limiter over the database read to the single slot of
`passwordWork` and only then writes:

```
login:      read -> wait -> work -> insert
bootstrap:  needed -> wait -> work -> create -> read -> wait -> work -> insert
change:     read -> wait -> work -> waitnext -> worknext -> commit
```

each with `failed` as the way out. `CreateAdmin` and `ResetPassword` are the commands of the
binary: another process on the same database, outside the slot and the limiter.

| Variable | Code |
|---|---|
| `admins`, `sessions`, `expired` | the tables; `expired` are the tokens whose time is over |
| `failures` | `LoginLimiter.failures`: count, block and age of each client |
| `slot`, `req` | requests inside `withPasswordMemory`, and where every request is |
| `generation`, `initial`, `first` | histories: how often a password was set, who was created by `CreateInitialAdmin`, who was created when there was nobody |

A password stands for its hash; blocks end (`BlockEnds`), entries age (`Age`) and sessions
expire at any moment. `Cancel` is every error on the way: a client that disconnects while it
waits, credentials that `validateCredentials` refuses, a statement that fails. `login` counts
all of them in the limiter, `bootstrap` those before the administrator exists.

## Runs

| Run | Expectation | What it shows |
|---|---|---|
| `pub_safety` | pass | all faults, a runtime that compares `expected_current_version`: `ServedIsRecorded`, `ActiveOwnsRules`, `RuntimeAtFloor`, `VerdictsAreFinal`, and `KeepsContract` (refinement of `PublicationContract`) |
| `pub_recovery` | pass | without late execution and restarts of mosdns: no outcome is misjudged (`ServedIsOpen`), compensation does not undo what is served (`UndoneIsNotServed`), and `EventuallyConverged` after database errors, lost answers and crashes |
| `pub_restart` | pass | a runtime that accepts any higher version is brought back after losing or regressing its snapshot |
| `pub_late_apply` | violation | `NotAppliedIsNotServed`: see findings |
| `pub_unsettled` | violation | `CandidatesSettle`: see findings |
| `pub_half_undo` | violation | `RouteSubscriptionsBound`: see findings |
| `edits_safety` | pass | the list operations start from is the active version's (`TypeOK`), ids name one rule for ever (`IdNamesOneRule`) and a form that the stale-update check accepts shows the current pattern (`AcceptedFormIsCurrent`), across refusals, late activations and rollbacks |
| `edits_stale_flag` | violation | `AcceptedFlagIsCurrent`: see findings |
| `refresh_safety` | pass | the outcome of a refresh never replaces that of one begun later (`NewestAttemptStays`), an operation that failed to publish leaves the row exactly as it found it (`FailedLeavesNoTrace`), and a due subscription is eventually checked (`DueIsChecked`) |
| `registry_safety` | pass | the default group stays usable (`DefaultUsable`), no group that the binding or an enabled rule of the active or an open version names disappears (`ReferencesUsable`), and settings stored by an undisturbed update stay (`StoredSettingsStay`), with lost answers, delayed registries, rule versions that fail or are executed late, and a crash or a restart of mosdns |
| `ingest_safety` | pass | a batch is taken whole or not at all (`RefusedIsWhole`), an event is counted once if and only if its row is there, unless retention has deleted one of the two (`CountedOnce`), streams have no gaps (`StreamHasNoGaps`), the diagnostics stay bounded (`DiagnosticsAgree`), an ordinary stop leaves nothing in memory (`StopLosesNothing`), and accepted events leave the queue (`EventuallyDrained`) |
| `auth_safety` | pass | of overlapping bootstraps and a command one creates the first administrator (`OneInitialAdmin`), and no session is older than its user's password (`SessionsAreCurrent`); limiter and password memory keep their bounds (`TypeOK`) |

## Bounds

`MaxOps` administrator operations, `MaxFaults` faults and `MaxVersion` rows. Two
operations are one to leave something behind and one to meet it; two faults are one
to leave the outcome open and one to disturb its repair. `MaxVersion` is at
least what the operations and the repairs of the faults need: in the liveness runs a
bound that is met too early would leave the system short of convergence and be reported.
One rule suffices because the properties tell apart only absent, disabled and enabled;
one route subscription suffices because sources do not interact. Two contents and two
targets let a set differ in each field.

`RuleEdits`: `MaxTime` = 4 operations reach create, update, rollback, update, the
shortest history in which an old stamp comes back and is followed by a new one;
`MaxRuleId` = 2 reaches create, delete, create and an import of two rules; one
administrator's form is enough because forms only read. The theorems have no such bounds.
Deadlock is not checked in `RuleEdits` and the modules below: the system stops when the
bounded operations are used up.

`SubscriptionRefresh`: one subscription, because rows do not interact; three administrator
operations, the timer's own refresh and one failure reach a refresh that reads a row in the
middle of an operation that is then undone, with another change before it has the lock. One idle tick and
`Interval` = 2 make rows due by themselves.

`Registry`: two requests beside the sync, three operations and one crash of the controller or
restart of mosdns; `GroupLimit` = 2 with
three group ids, so the limit is met and a group can be deleted and created again. Two
address families let the registry and the family step of an update succeed separately; one cache
is enough because default and cache travel together.

`QueryIngest`: queue and batch of two with batches of up to two events, so that a second
batch meets a queue that is full, half full and being drained; two sends repeat an event;
one cleaning is a clearing or a complete retention, between whose statements batches are
stored; a stream buffer and a diagnostics cache of one overflow with the second event.

`Auth`: two of everything, four requests, of which two overlap, a command and an event;
`LimiterEntries` = 1 so that the second client evicts the first, `FailuresToBlock` = 2.
Users, passwords, clients and requests are symmetric, as are groups and requests of
`Registry`.

## Fairness

`FairSpec` assumes weak fairness of the worker's steps (a goroutine that holds the lock
runs on; database and HTTP calls end, the client has a timeout), of
`ReconcileMatch \/ ReconcileRepublish` (`reconcilePeriodically` runs every minute and
waits for the lock), and of the execution of received requests by mosdns. Nothing is
assumed of administrators or of faults; both are bounded, which expresses "once they
are quiet".

`SubscriptionRefresh` assumes weak fairness of publications and of the requests of
administrators (downloads and calls have timeouts), and strong fairness of the timer's
goroutine: it may find the mutex taken again and again, and a `sync.Mutex` does not withhold
itself for ever from a goroutine that waits. `QueryIngest` assumes weak fairness of the writer,
whose ticker fires and whose transactions end, and of the handlers inside `Enqueue`. Nothing is
assumed of mosdns, of clients or of the sync; `Registry` and `Auth` state safety only.

## Proofs

`RulePublicationProofs` proves for arbitrary sets of rules, subscriptions, contents and
targets, any choice of admitted faults and any bounds, from `ConstantsAssumption` alone:

| Theorem | Statement |
|---|---|
| `TypeCorrect` | `Spec => []TypeOK` |
| `ServedAlwaysRecorded` | `Spec => []ServedIsRecorded` |
| `ActiveAlwaysOwnsRules` | `Spec => []ActiveOwnsRules` |
| `FloorHolds` | `Spec => []RuntimeAtFloor` |
| `VerdictsStay` | `Spec => VerdictsAreFinal` |
| `PipelineKeepsContract` | `Spec => KeepsContract` |
| `UndoneNeverServed` | `Spec => []UndoneIsNotServed`, if `"late" \notin FaultKinds` |
| `ServedStaysOpen` | `Spec => []ServedIsOpen`, if neither `"late"` nor `"invalid"` is in `FaultKinds` |

None of the properties is inductive alone. `IInv` adds:

- every request in flight is recorded too, since it may become what is served;
- `CandidateIsOpen`: while publish runs, its row is pending or unknown, above the active
  version, and holds the job's rules. Finalize needs all three;
- `ActivatedWasServed`: finalizing follows the runtime's adoption, so
  the contract's `Publish` is enabled;
- `RuntimeAtFloor`: without it Reconcile could match a candidate *below* the
  active version (an old pending row that a late request brings back) and publish a smaller
  number. The argument: a request below the floor is refused by a runtime at or
  above it, and a restart that takes the runtime below the floor drops the requests
  and lands on nothing or on a superseded version, never on an open candidate.

The step lemmas are grouped by what an action touches: only the worker (`WorkerOnlyStep`),
the log (`LogStep`, `MarkStep`, `InsertStep`, `FinalizeStep`) or the runtime
(`RuntimeStep`, `AdoptSent`, `RuntimeOnlyStep`). `LogWrites` lists the only
ways a step changes the log; `VerdictsStay` and the refinement follow from it.

The last two theorems are conditional because the code does not keep them otherwise: a
request that is executed after its sender gave up (finding 1) may activate a version
already judged failed, and an answer that is not the expected acknowledgement is judged as a
failure even if the snapshot was taken. All other faults, restarts of mosdns included, are
admitted, which `pub_recovery` does not do. `CompensationInv` says where the worker has
judged that its candidate is not being served (`JudgedUnserved`: before Apply, in `fail`
with a code of `failedBeforeApply`, in the compensation of a version that failed so) and
that the judgement is right. It needs that a candidate under compensation was never
activated, so that no restart of mosdns can land on it, and, from `ServedIsRecorded`, that a
runtime with the candidate's number serves the candidate's snapshot, so that comparing
checksums and comparing numbers is the same. `OpenInv` says `ServedIsOpen` of
every moment and not only between operations, that only such codes reach `fail`, and that
superseded versions lie below the active one.

`RuleEditsProofs` proves, for any administrators, patterns and bounds, from
`EditsAssumption`:

| Theorem | Statement |
|---|---|
| `EditsTypeCorrect` | `Spec => []TypeOK` |
| `IdsNameOneRule` | `Spec => []IdNamesOneRule` |
| `AcceptedFormsAreCurrent` | `Spec => []AcceptedFormIsCurrent` |

`TypeOK` says beside the shapes that the published list is the one recorded under the active
number. The inductive invariant (`IInv` of `RuleEdits`) speaks of all recorded versions, not of
the published one: any of them may come back by a rollback or a late activation.
Stamps are never in the future, ids never above the counter, and two versions that have
the same id and stamp have the same pattern (`StampNamesPattern`). `Fits` collects what a
list must satisfy to be recorded next; `PublishStep` shows that recording a list that
fits keeps the invariant, and each operation's lemma shows that its list fits.

`AuthProofs` proves, for any users, passwords, clients, requests and bounds, from
`AuthAssumption`:

| Theorem | Statement |
|---|---|
| `OneInitialAdminAlways` | `Spec => []OneInitialAdmin` |
| `SessionsAlwaysCurrent` | `Spec => []SessionsAreCurrent` |
| `TypeAlwaysOK` | `Spec => []TypeOK` |

The invariant says of the tables that `first` is empty or the one user who was created when
there was nobody (`FirstAdmin`), and of requests that one which will insert a session or set
a password is about an administrator who exists (`UserExists`): otherwise a
password change could create the first administrator unnoticed. `Tokens` says that the token
of a login is nobody else's and that a token names sessions of one user: otherwise
the session that a change keeps could be somebody else's. `Moves` collects what a step
does to requests; `MovesKeep` shows once that it is harmless, and the lemmas about the tables
(`QuietStep`, `NewAdminStep`, `SetPasswordStep`, `InsertSessionStep`) use it. The limiter needs
no more than that `evict` makes room for one entry (`EvictMakesRoom`).

`QueryIngestProofs` proves, for any events, senders, streams and capacities, from
`IngestAssumption`:

| Theorem | Statement |
|---|---|
| `IngestTypeCorrect` | `Spec => []TypeOK` |
| `BatchesAreWhole` | `Spec => []RefusedIsWhole` |
| `StopsAreClean` | `Spec => []StopLosesNothing` |
| `EventsAreCountedOnce` | `Spec => []CountedOnce` |
| `DiagnosticsAlwaysAgree` | `Spec => []DiagnosticsAgree` |
| `StreamsHaveNoGaps` | `Spec => []StreamHasNoGaps` |

The invariant adds that whoever is inside `Enqueue` holds `enqueueMu` alone (`Holds`) and that
the queue has room for the rest of its batch (`Room`), which the writer can only enlarge;
that nobody sends to a writer that stops (`Stopped`), and what each part of the flush leaves to
the next (`Flushing`). `CountedOnce` needs `Uncommitted`: what the open transaction has
inserted is not in the table and has no event twice, so that the aggregates count each once;
it holds because the one connection keeps retention and clearing out. Nothing is assumed of
the order in which rows and counts expire; an event leaves `forgotten` when neither is left, and
from then on counts like a new one. `Kept` says that the
order of the diagnostics has no event twice and is the set of keys, which one
insertion with eviction preserves.

`RegistryProofs` proves, for any groups, requests, crashes and bounds, from
`RegistryAssumption`:

| Theorem | Statement |
|---|---|
| `RegistryTypeCorrect` | `Spec => []TypeOK` |
| `DefaultAlwaysUsable` | `Spec => []DefaultUsable` |
| `ReferencesStayUsable` | `Spec => []ReferencesUsable` |
| `StoredSettingsAlwaysStay` | `Spec => []StoredSettingsStay` |

`Shapes` says that every registry that is anywhere - in mosdns, computed, delayed - has an
enabled default group; that is why an outdated one does no harm to the default. `Known` says
that a process which has computed a registry has derived it from one that mosdns had, that the
version number tells whether mosdns still has it, and that a process which takes a group
away holds `UpstreamBindings`. `References` says that a group which the binding, the
active or an open version names is enabled, and that nobody past the reference
check is about to take it away: nobody can begin to name it either, for that takes the lock,
and `Reconcile`, which does not take it, only publishes and activates what is named already.
What mosdns serves, late or after a restart, does not enter: only a version's row makes it a
reference.
`SettingsStay` says that a settings operation beside which no other ran works on the
registry's current settings, and that while there are stored settings every other operation
is a sync that brings these. `Moves` lists what a step can do to the registry, to references
and to processes; the invariants are shown to be kept by `Moves` rather than by every action.
Both conditional properties are stated with `overtaken`, the history variable that tells that
mosdns executed a registry whose sender had given up (see the limits below).

`SubscriptionRefreshProofs` proves, for any subscriptions, requests, bodies, intervals and
bounds, from `RefreshAssumption` (the timer is no request, a failure is no body, there is a
body, no row is absent):

| Theorem | Statement |
|---|---|
| `RefreshTypeCorrect` | `Spec => []TypeOK` |
| `FailedAlwaysLeavesNoTrace` | `Spec => FailedLeavesNoTrace` |
| `NewestAttemptAlwaysStays` | `Spec => NewestAttemptStays` |

The first two need only `Shapes`: what is published is what the holder of `Service.mu` stored,
and no step without the lock writes a row that is being published. The third needs
`Stamps`. A row may be the one that is there or the one a failing operation will put back
(`Bases`). For each of them, a call that has read it or a later one is a later
attempt, and if a call may still be recorded over it then no stamp that was read
or written since can be given out again (`BaseOk`). This is where the assumption on time is
used: the undo puts an old stamp back, and only a clock that has moved on since
keeps the next operation from reusing the undone one.

With these, every safety property of the passing runs is a theorem. Liveness
(`EventuallyConverged`, `DueIsChecked`, `EventuallyDrained`) is out of the prover's
reach and rests on TLC's instances. The findings (`NotAppliedIsNotServed`,
`RouteSubscriptionsBound`, `CandidatesSettle`, `AcceptedFlagIsCurrent`) are counterexamples.

## What the models found

1. *Late execution* (`pub_late_apply`). After a timed-out Apply, one Status query that
   still shows the old version makes the failure final
   (`APPLY_TIMEOUT_NOT_APPLIED`), and a subscription's change is undone. If mosdns
   executes the request afterwards it serves a version that is no candidate any more:
   `Reconcile` reports degraded from then on, and with an `expected_current_version`
   check no later publication is accepted.
2. *Unsettled candidates* (`pub_unsettled`). `Reconcile` looks only at the candidate the
   runtime reports. A row left pending by a crash or by a failing UPDATE stays so for
   ever, and blocks the deletion of the upstream groups it names.
3. *Half an undo* (`pub_half_undo`). Restoring a deleted route subscription inserts the
   subscription and its binding separately. If the second INSERT fails, `subscriptionSets`
   fails on every later publish and Reconcile until the subscription is disabled or
   deleted by hand.
4. *Stale flag* (`edits_stale_flag`). `Batch` enable and disable keep `updated_at_ms`, so
   an edit form that was open meanwhile passes the stale-update check and reverts
   the flag.

A case that depends on mosdns: if it compares `expected_current_version` for rule
snapshots, the republication after a lost snapshot (`service.go:386-393`) expects the
active version, the runtime reports 0, and the request is refused every minute.
`pub_restart` therefore sets `ChecksExpected = FALSE`.

### Limits of what the code guarantees

The properties of the passing runs are stated as strongly as the code allows. Each
exemption in them stands for a behaviour that was seen in the model and is worth knowing:

- *Registry.* `upstreamGroupReferencedBySubscriptions` reads pending and unknown versions by
  their `snapshot_json`, which has no disabled rules. The group of a disabled rule in such a
  version can be deleted; if `Reconcile` activates the version, `validateRouteTargets` refuses
  every later publication. `ReferencesUsable` therefore speaks of enabled rules.
- *Registry.* The same check reads no failed version. mosdns may serve one, after late execution
  (finding 1) or an acknowledgement that was not understood, and the groups it names can be
  deleted under it; `Reconcile` reports degraded. `ReferencesUsable` therefore speaks of the
  active and the open versions, and of the served one only if it is one of these.
- *Registry.* A deletion that mosdns executes after its sender gave up, and released the lock,
  may hit a group that is referenced by then (`overtaken`).
- *Settings.* `SyncSettings` reads the database before the registry. An `UpdateSettings` that
  completes in between is taken back, and two updates may persist in the other order than they
  were applied. `StoredSettingsStay` speaks of updates beside which no other settings operation
  ran.
- *Settings.* `validAppliedRegistry` recognises a registry by its number: after a lost answer
  another writer's registry may be taken for one's own and its values be persisted.
- *Settings.* After a crash between `applyRegistry` and `persistSettings` the database names
  the old default group, which mosdns no longer protects. If it is deleted, every later sync
  fails until settings are saved again.
- *Refresh.* A stamp may be used twice when an operation begins and fails within one millisecond (see
  the assumption on time). A refresh that fails to publish restores the row completely,
  so nothing in it tells of the failure and the source is downloaded again every minute.
- *Ingest.* `retain` deletes counts and rows by separate statements with separate limits, and
  may stop between them. An event may be stored without being counted, or counted without its
  row, and in the second case a repetition counts it again (`forgotten`). A failed transaction throws away events that were answered as accepted. A
  handler that is still in `Enqueue` when the shutdown of the servers times out after ten
  seconds, which an open live stream makes it do, may add to a queue that nobody reads; `Close`
  is modelled for shutdowns in which the handlers of `Enqueue` finish.
- *Authentication.* A login that verified the old password before a reset may store its
  session after it; `SessionsAreCurrent` speaks of sessions that exist when the password is
  set. Two overlapping password changes both succeed, and the last commit wins.

## Not modelled

Parsing and normalisation of domain lists, validation limits, paging and filters, HTTP
decoding and error texts, configuration, migrations, the web console and deployment. Devices
and the audit log are single statements, system status and query history only read.
CSRF tokens and the encoding of password hashes carry no state that a property could relate
to another. A power loss that loses committed transactions (`synchronous=NORMAL`) is outside
the fault model. The form an administrator has open is modelled for rules only: a settings
form is guarded by the registry version alone, so fields kept only in the database
(retention, size limit, address family) of an older form overwrite newer ones.

## Plan

Done: all components with state that several actors change, and a theorem for each of their
safety properties. Left:

1. A theorem that relates `Registry`'s reduced publication to `RulePublication`, as `RuleEdits`
   is related to `PublicationContract`; today the reduction is the table in the section on
   the registry.
2. Lemmas that liveness rests on, as far as they are safety: in every state short of
   convergence `Reconcile` or the worker has something to do.
