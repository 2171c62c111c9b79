----------------------- MODULE RulePublicationProofs -----------------------
(***************************************************************************)
(* Proofs about RulePublication for every set of rules, subscriptions,     *)
(* contents and targets, every choice of admitted faults and every bound.  *)
(***************************************************************************)
EXTENDS RulePublication, TLAPS

----------------------------------------------------------------------------
(* Rows and the three ways rule_versions is written                        *)

\* The domain of rule_versions is an initial segment of the positive numbers.
LEMMA RowsDomain ==
    ASSUME NEW seq \in Seq(Row)
    PROVE  /\ DOMAIN seq = 1..Len(seq) /\ Len(seq) \in Nat
           /\ \A v \in DOMAIN seq : v \in Nat /\ v # 0 /\ v <= Len(seq) /\ seq[v] \in Row
  OBVIOUS

\* PublishInsert: the log grows by one row and keeps the others.
LEMMA InsertedRow ==
    ASSUME versions \in Seq(Row), NEW row \in Row, versions' = Append(versions, row)
    PROVE  /\ versions' \in Seq(Row)
           /\ Len(versions') = Len(versions) + 1
           /\ DOMAIN versions' = DOMAIN versions \cup {Len(versions) + 1}
           /\ \A v \in DOMAIN versions : versions'[v] = versions[v]
           /\ versions'[Len(versions) + 1] = row
  OBVIOUS

\* SetStatus: one row gets another status and code, its content stays.
LEMMA UpdatedRow ==
    ASSUME versions \in Seq(Row), NEW v \in DOMAIN versions, NEW status \in Statuses,
           NEW code \in Codes, SetStatus(v, status, code)
    PROVE  /\ versions' \in Seq(Row)
           /\ Len(versions') = Len(versions)
           /\ DOMAIN versions' = DOMAIN versions
           /\ \A w \in DOMAIN versions : w # v => versions'[w] = versions[w]
           /\ versions'[v].status = status /\ versions'[v].code = code
           /\ versions'[v].prev = versions[v].prev
           /\ versions'[v].rules = versions[v].rules
           /\ versions'[v].sets = versions[v].sets
  <1> DEFINE row == [versions[v] EXCEPT !.status = status, !.code = code]
  <1>1. versions[v] \in Row
    BY RowsDomain
  <1>2. /\ row \in Row /\ row.status = status /\ row.code = code
        /\ row.prev = versions[v].prev /\ row.rules = versions[v].rules /\ row.sets = versions[v].sets
    BY <1>1 DEF Row
  <1>3. versions' = [versions EXCEPT ![v] = row]
    BY DEF SetStatus
  <1> HIDE DEF row
  <1> QED
    BY <1>2, <1>3

\* Activate: the activated row becomes active, an active one superseded.
LEMMA ActivatedRows ==
    ASSUME versions \in Seq(Row), NEW v \in DOMAIN versions, NEW rules, Activate(v, rules)
    PROVE  /\ versions' \in Seq(Row)
           /\ Len(versions') = Len(versions)
           /\ DOMAIN versions' = DOMAIN versions
           /\ versions'[v].status = "active"
           /\ \A w \in DOMAIN versions :
                /\ w # v => versions'[w].status =
                     IF versions[w].status = "active" THEN "superseded" ELSE versions[w].status
                /\ versions'[w].prev = versions[w].prev
                /\ versions'[w].rules = versions[w].rules
                /\ versions'[w].sets = versions[w].sets
  <1> DEFINE row(w) == IF w = v THEN [versions[w] EXCEPT !.status = "active", !.code = ""]
                       ELSE IF versions[w].status = "active"
                            THEN [versions[w] EXCEPT !.status = "superseded"]
                            ELSE versions[w]
  <1>1. \A w \in DOMAIN versions : versions[w] \in Row
    BY RowsDomain
  <1>2. \A w \in DOMAIN versions :
          /\ row(w) \in Row
          /\ row(w).prev = versions[w].prev
          /\ row(w).rules = versions[w].rules
          /\ row(w).sets = versions[w].sets
          /\ row(w).status = IF w = v THEN "active"
               ELSE IF versions[w].status = "active" THEN "superseded" ELSE versions[w].status
    BY <1>1 DEF Row, Statuses, Codes
  <1>3. versions' = [w \in 1..Len(versions) |-> row(w)]
    BY RowsDomain DEF Activate
  <1> HIDE DEF row
  <1>4. \A w \in 1..Len(versions) : row(w) \in Row
    BY <1>2, RowsDomain
  <1>5. versions' \in Seq(Row) /\ Len(versions') = Len(versions)
    BY <1>3, <1>4
  <1> QED
    BY <1>2, <1>3, <1>5, RowsDomain

----------------------------------------------------------------------------
(* The active version as a function of the log                             *)

ActivesOf(log) == {v \in DOMAIN log : log[v].status = "active"}
ActiveOf(log)  == IF ActivesOf(log) = {} THEN 0 ELSE CHOOSE v \in ActivesOf(log) : TRUE

\* ActiveVersion is ActiveOf of the current log, and of the next one when primed.
LEMMA ActiveVersionIs ==
    /\ ActiveVersion = ActiveOf(versions) /\ Actives = ActivesOf(versions)
    /\ ActiveVersion' = ActiveOf(versions') /\ Actives' = ActivesOf(versions')
  BY DEF ActiveVersion, Actives, ActiveOf, ActivesOf

\* With at most one active row, ActiveOf finds it.
LEMMA ActiveOfUnique ==
    ASSUME NEW log, NEW a \in ActivesOf(log), \A v \in ActivesOf(log) : v = a
    PROVE  ActiveOf(log) = a
  BY DEF ActiveOf

\* Logs with the same active rows have the same active version.
LEMMA ActiveOfSame ==
    ASSUME NEW log1, NEW log2, ActivesOf(log1) = ActivesOf(log2)
    PROVE  ActiveOf(log1) = ActiveOf(log2)
  BY DEF ActiveOf

\* The active version is 0 or the number of the active row.
LEMMA ActiveVersionRange ==
    ASSUME versions \in Seq(Row)
    PROVE  /\ ActiveVersion \in 0..Len(versions)
           /\ ActiveVersion # 0 => ActiveVersion \in Actives
           /\ Actives # {} => ActiveVersion \in Actives
  <1>1. Actives \subseteq 1..Len(versions)
    BY RowsDomain DEF Actives
  <1>2. Actives # {} => ActiveVersion \in Actives
    BY DEF ActiveVersion
  <1>3. Actives = {} => ActiveVersion = 0
    BY DEF ActiveVersion
  <1>4. Len(versions) \in Nat
    BY RowsDomain
  <1>5. ActiveVersion \in 0..Len(versions)
    <2>1. CASE Actives = {}
      BY <1>3, <1>4, <2>1
    <2>2. CASE Actives # {}
      <3>1. ActiveVersion \in 1..Len(versions)
        BY <1>1, <1>2, <2>2
      <3> QED
        BY <1>4, <3>1
    <2> QED
      BY <2>1, <2>2
  <1> QED
    BY <1>2, <1>3, <1>5

----------------------------------------------------------------------------
(* Type correctness                                                        *)

\* Snapshots of recorded rows are snapshots.
LEMMA SnapshotTyped ==
    ASSUME NEW v \in Nat, NEW row \in Row
    PROVE  /\ Snapshot(v, row) \in SnapshotType
           /\ Snapshot(v, row).version = v
  BY DEF Snapshot, SnapshotType, Row, Wire

\* The sets read from the subscription tables.
LEMMA SetsTyped ==
    ASSUME NEW table \in [Subs -> SubState \cup {Absent}]
    PROVE  SetsOf(table) \subseteq SubscriptionSet
  BY DEF SetsOf, SubscriptionSet, SubState

\* The values Init and Return put into the worker's locals.
LEMMA NoJobTyped == NoJob \in Job /\ NoRules \in RuleList
  <1>1. NoRules \in RuleList
    BY DEF NoRules, RuleList
  <1>2. {} \in SUBSET Subs
    OBVIOUS
  <1>3. <<>> \in [{} -> SubState \cup {Absent}]
    OBVIOUS
  <1>4. <<>> \in UNION {[S -> SubState \cup {Absent}] : S \in SUBSET Subs}
    BY <1>2, <1>3
  <1> QED
    BY <1>1, <1>4 DEF NoJob, Job

\* Return, PublishError, Goto and FailWith keep the worker's locals typed.
LEMMA WorkerTyped ==
    ASSUME TypeOK, Len(versions') >= Len(versions), versions' \in Seq(Row),
           \/ Return
           \/ PublishError
           \/ \E label \in Labels : Goto(label)
           \/ \E code \in FailCodes : FailWith(code)
    PROVE  /\ pc' \in Labels /\ job' \in Job /\ errCode' \in Codes
           /\ cand' \in 0..Len(versions')
  <1>1. Len(versions) \in Nat /\ Len(versions') \in Nat
    BY RowsDomain DEF TypeOK
  <1>2. cand \in 0..Len(versions') /\ 0 \in 0..Len(versions')
    BY <1>1 DEF TypeOK
  <1>3. CASE Return
    BY <1>2, <1>3, NoJobTyped DEF Return, Labels, Codes
  <1>4. CASE PublishError
    BY <1>2, <1>3, <1>4 DEF PublishError, TypeOK, Labels, Codes
  <1>5. CASE \E label \in Labels : Goto(label)
    BY <1>2, <1>5 DEF Goto, TypeOK
  <1>6. CASE \E code \in FailCodes : FailWith(code)
    BY <1>2, <1>6 DEF FailWith, TypeOK, Labels, Codes
  <1> QED
    BY <1>3, <1>4, <1>5, <1>6

\* Starting an operation keeps the worker's locals typed.
LEMMA StartTyped ==
    ASSUME TypeOK, NEW kind \in {"edit", "mutate", "delete", "reconcile"}, NEW rules \in RuleList,
           NEW undo \in UNION {[S -> SubState \cup {Absent}] : S \in SUBSET Subs},
           Start(kind, rules, undo), versions' = versions, domainRules' = domainRules,
           subs' \in [Subs -> SubState \cup {Absent}], ops' \in Nat
    PROVE  TypeOK'
  <1>1. pc' \in Labels /\ job' \in Job /\ errCode' \in Codes /\ cand' \in 0..Len(versions')
    BY DEF Start, TypeOK, Labels, Job
  <1> QED
    BY <1>1 DEF Start, TypeOK, mosdns

\* Writing rows back into the subscription tables.
LEMMA WriteBackTyped ==
    ASSUME TypeOK, NEW rows \in UNION {[S -> SubState \cup {Absent}] : S \in SUBSET Subs},
           WriteBack(rows)
    PROVE  subs' \in [Subs -> SubState \cup {Absent}]
  <1>1. PICK S \in SUBSET Subs : rows \in [S -> SubState \cup {Absent}]
    OBVIOUS
  <1> QED
    BY <1>1 DEF TypeOK, WriteBack

\* Every step of an administrator operation keeps TypeOK.
LEMMA AdminTyped == TypeOK /\ AdminOperation => TypeOK'
  <1> SUFFICES ASSUME TypeOK, AdminOperation PROVE TypeOK'
    OBVIOUS
  <1>1. ASSUME NEW kind \in {"mutate", "delete"}, NEW s \in Subs,
               NEW row \in SubState \cup {Absent}, WriteSource(kind, s, row)
        PROVE  TypeOK'
    <2> DEFINE undo == [t \in {s} |-> subs[t]]
    <2>1. undo \in [{s} -> SubState \cup {Absent}]
      BY DEF TypeOK
    <2>2. undo \in UNION {[S -> SubState \cup {Absent}] : S \in SUBSET Subs}
      BY <2>1
    <2>3. Start(kind, domainRules, undo) /\ versions' = versions /\ domainRules' = domainRules
      BY <1>1 DEF WriteSource
    <2>4. subs' \in [Subs -> SubState \cup {Absent}] /\ ops' \in Nat
      BY <1>1 DEF WriteSource, Operation, TypeOK
    <2>5. domainRules \in RuleList
      BY DEF TypeOK
    <2> HIDE DEF undo
    <2> QED
      BY <2>2, <2>3, <2>4, <2>5, StartTyped
  <1>2. ASSUME NEW rules \in RuleList, Operation, Start("edit", rules, <<>>), UNCHANGED db
        PROVE  TypeOK'
    <2>1. <<>> \in UNION {[S -> SubState \cup {Absent}] : S \in SUBSET Subs}
      BY NoJobTyped DEF NoJob, Job
    <2>2. subs' \in [Subs -> SubState \cup {Absent}] /\ ops' \in Nat
      BY <1>2 DEF db, Operation, TypeOK
    <2> QED
      BY <1>2, <2>1, <2>2, StartTyped DEF db
  <1>3. CASE \E rules \in RuleList : EditRules(rules)
    BY <1>2, <1>3 DEF EditRules
  <1>4. CASE \E from \in DOMAIN versions : Rollback(from)
    <2>1. \A from \in DOMAIN versions : versions[from].rules \in RuleList
      BY RowsDomain DEF TypeOK, Row
    <2> QED
      BY <1>2, <1>4, <2>1 DEF Rollback
  <1>5. CASE \E s \in Subs, content \in Contents, target \in Targets \cup {NoBinding},
                enabled \in BOOLEAN : createSubscription(s, content, target, enabled)
    <2>1. PICK s \in Subs, content \in Contents, target \in Targets \cup {NoBinding},
               enabled \in BOOLEAN : createSubscription(s, content, target, enabled)
      BY <1>5
    <2>2. [enabled |-> enabled, content |-> content, target |-> target] \in SubState
      BY DEF SubState
    <2> QED
      BY <1>1, <2>1, <2>2 DEF createSubscription
  <1>6. CASE \E s \in Subs, content \in Contents : RefreshSubscription(s, content)
    <2>1. PICK s \in Subs, content \in Contents : RefreshSubscription(s, content)
      BY <1>6
    <2>2. [subs[s] EXCEPT !.content = content] \in SubState
      BY <2>1 DEF RefreshSubscription, TypeOK, SubState
    <2> QED
      BY <1>1, <2>1, <2>2 DEF RefreshSubscription
  <1>7. CASE \E s \in Subs, enabled \in BOOLEAN : SetSubscriptionEnabled(s, enabled)
    <2>1. PICK s \in Subs, enabled \in BOOLEAN : SetSubscriptionEnabled(s, enabled)
      BY <1>7
    <2>2. [subs[s] EXCEPT !.enabled = enabled] \in SubState
      BY <2>1 DEF SetSubscriptionEnabled, TypeOK, SubState
    <2> QED
      BY <1>1, <2>1, <2>2 DEF SetSubscriptionEnabled
  <1>8. CASE \E s \in Subs, target \in Targets : UpdateSubscriptionBinding(s, target)
    <2>1. PICK s \in Subs, target \in Targets : UpdateSubscriptionBinding(s, target)
      BY <1>8
    <2>2. [subs[s] EXCEPT !.target = target] \in SubState
      BY <2>1 DEF UpdateSubscriptionBinding, TypeOK, SubState
    <2> QED
      BY <1>1, <2>1, <2>2 DEF UpdateSubscriptionBinding
  <1>9. CASE \E s \in Subs : DeleteSubscription(s)
    BY <1>1, <1>9 DEF DeleteSubscription
  <1> QED
    BY <1>3, <1>4, <1>5, <1>6, <1>7, <1>8, <1>9 DEF AdminOperation

\* The row PublishInsert records.
LEMMA NewRowTyped ==
    ASSUME TypeOK
    PROVE  [status |-> "pending", code |-> "", prev |-> ActiveVersion,
            rules |-> job.rules, sets |-> SetsOf(subs)] \in Row
  <1>1. ActiveVersion \in Nat
    BY ActiveVersionRange, RowsDomain DEF TypeOK
  <1>2. SetsOf(subs) \in SUBSET SubscriptionSet
    BY SetsTyped DEF TypeOK
  <1>3. job.rules \in RuleList
    BY DEF TypeOK, Job
  <1> QED
    BY <1>1, <1>2, <1>3 DEF Row, Statuses, Codes

\* The steps of the worker that leave the log and the runtime alone.
WorkerOnly ==
    /\ UNCHANGED <<versions, domainRules, mosdns, ops>>
    /\ faults' \in Nat
    /\ subs' \in [Subs -> SubState \cup {Absent}]
    /\ \/ Return
       \/ PublishError
       \/ \E label \in Labels \ {"finalize"} :
            Goto(label) /\ (pc \in Publishing \/ label \notin Publishing)
       \/ (\E code \in FailCodes : FailWith(code)) /\ pc \in Publishing

\* They keep TypeOK.
LEMMA WorkerOnlyTyped == TypeOK /\ WorkerOnly => TypeOK'
  <1> SUFFICES ASSUME TypeOK, WorkerOnly PROVE TypeOK'
    OBVIOUS
  <1>1. versions' = versions /\ versions' \in Seq(Row) /\ Len(versions') >= Len(versions)
    BY RowsDomain DEF WorkerOnly, TypeOK
  <1>2. /\ pc' \in Labels /\ job' \in Job /\ errCode' \in Codes
        /\ cand' \in 0..Len(versions')
    BY <1>1, WorkerTyped DEF WorkerOnly
  <1> QED
    BY <1>1, <1>2 DEF WorkerOnly, TypeOK, mosdns

\* The actions of that kind.
LEMMA WorkerOnlySteps ==
    ASSUME TypeOK,
           \/ PublishRefused \/ PublishValidated \/ PublishInvalid \/ PublishRejected
           \/ PublishQuery /\ runtime # Sent
           \/ PublishQueryFails \/ FinalizeFails
           \/ Restore \/ RestoreBlind \/ RestoreUnread
           \/ Undo \/ UndoBinding \/ UndoFails \/ Crash
    PROVE  WorkerOnly
  <1> USE DEF WorkerOnly, Publishing, Labels, FailCodes, Fault, db, mosdns
  <1>0. faults \in Nat /\ subs \in [Subs -> SubState \cup {Absent}] /\ job \in Job
    BY DEF TypeOK
  <1>1. CASE PublishRefused
    BY <1>0, <1>1 DEF PublishRefused
  <1>2. CASE PublishValidated
    BY <1>0, <1>2 DEF PublishValidated
  <1>3. CASE PublishInvalid
    BY <1>0, <1>3 DEF PublishInvalid
  <1>4. CASE PublishRejected
    BY <1>0, <1>4 DEF PublishRejected
  <1>5. CASE PublishQuery /\ runtime # Sent
    BY <1>0, <1>5 DEF PublishQuery
  <1>6. CASE PublishQueryFails
    BY <1>0, <1>6 DEF PublishQueryFails
  <1>7. CASE FinalizeFails
    BY <1>0, <1>7 DEF FinalizeFails
  <1>8. CASE Restore
    BY <1>0, <1>8 DEF Restore
  <1>9. CASE RestoreBlind
    BY <1>0, <1>9 DEF RestoreBlind
  <1>10. CASE RestoreUnread
    BY <1>0, <1>10 DEF RestoreUnread
  <1>11. CASE Undo
    <2> DEFINE stripped == [s \in DOMAIN job.undo |-> Unbound(job.undo[s])]
    <2>1. PICK S \in SUBSET Subs : job.undo \in [S -> SubState \cup {Absent}]
      BY <1>0 DEF Job
    <2>2. \A s \in S : Unbound(job.undo[s]) \in SubState \cup {Absent}
      BY <2>1 DEF Unbound, SubState
    <2>3. stripped \in [S -> SubState \cup {Absent}]
      BY <2>1, <2>2
    <2>4. stripped \in UNION {[T -> SubState \cup {Absent}] : T \in SUBSET Subs}
      BY <2>3
    <2>5. job.undo \in UNION {[T -> SubState \cup {Absent}] : T \in SUBSET Subs}
      BY <2>1
    <2>6. WriteBack(stripped) \/ WriteBack(job.undo)
      BY <1>11 DEF Undo
    <2> HIDE DEF stripped
    <2>7. subs' \in [Subs -> SubState \cup {Absent}]
      BY <2>4, <2>5, <2>6, WriteBackTyped
    <2> QED
      BY <1>0, <1>11, <2>7 DEF Undo
  <1>12. CASE UndoBinding
    <2>1. job.undo \in UNION {[T -> SubState \cup {Absent}] : T \in SUBSET Subs}
      BY <1>0 DEF Job
    <2>2. subs' \in [Subs -> SubState \cup {Absent}]
      BY <1>12, <2>1, WriteBackTyped DEF UndoBinding
    <2> QED
      BY <1>0, <1>12, <2>2 DEF UndoBinding
  <1>13. CASE UndoFails
    BY <1>0, <1>13 DEF UndoFails
  <1>14. CASE Crash
    BY <1>0, <1>14 DEF Crash
  <1> QED
    BY <1>1, <1>2, <1>3, <1>4, <1>5, <1>6, <1>7, <1>8, <1>9, <1>10, <1>11, <1>12, <1>13, <1>14

----------------------------------------------------------------------------
(* The inductive invariant                                                 *)

\* The type invariant's facts about the log that the steps below need.
LEMMA LogFacts ==
    ASSUME TypeOK
    PROVE  /\ versions \in Seq(Row) /\ Len(versions) \in Nat
           /\ DOMAIN versions = 1..Len(versions)
           /\ ActiveVersion \in Nat /\ ActiveVersion <= Len(versions)
           /\ \A v \in DOMAIN versions : v \in Nat /\ versions[v] \in Row
  <1>1. versions \in Seq(Row)
    BY DEF TypeOK
  <1>2. ActiveVersion \in 0..Len(versions)
    BY <1>1, ActiveVersionRange
  <1> QED
    BY <1>1, <1>2, RowsDomain

\* A step that leaves the log and the runtime alone, and does not start
\* finalizing, keeps the invariant.
LEMMA QuietStep ==
    ASSUME IInv, TypeOK', UNCHANGED <<versions, domainRules, runtime, inflight, adopted>>,
           pc' # "finalize",
           pc' \in Publishing => pc \in Publishing /\ cand' = cand /\ job' = job
    PROVE  IInv'
  <1>1. ServedIsRecorded' /\ (\A request \in inflight : Recorded(request))'
    BY DEF IInv, ServedIsRecorded, Recorded
  <1>2. ActiveVersion' = ActiveVersion /\ Actives' = Actives /\ Candidates' = Candidates
    BY DEF ActiveVersion, Actives, Candidates
  <1>3. ActiveOwnsRules'
    BY <1>2 DEF IInv, ActiveOwnsRules
  <1>4. CandidateIsOpen'
    BY <1>2 DEF IInv, CandidateIsOpen
  <1>5. ActivatedWasServed'
    BY DEF IInv, ActivatedWasServed
  <1>6. RuntimeAtFloor'
    <2>1. Floor' = ActiveVersion /\ Floor \in Nat /\ ActiveVersion \in Nat /\ ActiveVersion <= Floor
      BY <1>2, LogFacts DEF Floor, IInv, CandidateIsOpen, Publishing, Candidates
    <2>2. runtime.version \in Nat /\ \A request \in inflight : request.version \in Nat
      BY DEF IInv, TypeOK, SnapshotType
    <2> QED
      BY <2>1, <2>2 DEF IInv, RuntimeAtFloor
  <1> QED
    BY <1>1, <1>3, <1>4, <1>5, <1>6 DEF IInv

\* Steps of the worker that leave the log and the runtime alone.
LEMMA WorkerOnlyStep == IInv /\ WorkerOnly => IInv'
  <1> SUFFICES ASSUME IInv, WorkerOnly PROVE IInv'
    OBVIOUS
  <1>1. TypeOK'
    BY WorkerOnlyTyped DEF IInv
  <1>2. UNCHANGED <<versions, domainRules, runtime, inflight, adopted>>
    BY DEF WorkerOnly, mosdns
  <1>3. CASE Return
    BY <1>1, <1>2, <1>3, QuietStep DEF Return, Publishing
  <1>4. CASE PublishError
    BY <1>1, <1>2, <1>3, <1>4, QuietStep DEF PublishError, Publishing
  <1>5. CASE \E label \in Labels \ {"finalize"} :
               Goto(label) /\ (pc \in Publishing \/ label \notin Publishing)
    BY <1>1, <1>2, <1>5, QuietStep DEF Goto
  <1>6. CASE (\E code \in FailCodes : FailWith(code)) /\ pc \in Publishing
    BY <1>1, <1>2, <1>6, QuietStep DEF FailWith
  <1> QED
    BY <1>3, <1>4, <1>5, <1>6 DEF WorkerOnly

\* Administrator operations.
LEMMA AdminStep == IInv /\ AdminOperation => IInv'
  <1> SUFFICES ASSUME IInv, AdminOperation PROVE IInv'
    OBVIOUS
  <1>1. TypeOK'
    BY AdminTyped DEF IInv
  <1>2. UNCHANGED <<versions, domainRules, runtime, inflight, adopted>> /\ pc' = "prepare"
    BY DEF AdminOperation, EditRules, Rollback, createSubscription, RefreshSubscription,
           SetSubscriptionEnabled, UpdateSubscriptionBinding, DeleteSubscription,
           WriteSource, Start, db, mosdns
  <1> QED
    BY <1>1, <1>2, QuietStep DEF Publishing

\* Reconcile.
LEMMA ReconcileStep == IInv /\ Reconcile => IInv'
  <1> SUFFICES ASSUME IInv, Reconcile PROVE IInv'
    OBVIOUS
  <1>1. CASE ReconcileRest
    BY <1>1 DEF ReconcileRest, vars, db, worker, mosdns, IInv, TypeOK, ServedIsRecorded, Recorded,
                ActiveOwnsRules, Actives, CandidateIsOpen, Candidates, ActiveVersion,
                ActivatedWasServed, RuntimeAtFloor, Floor
  <1>2. CASE ReconcileRepublish
    <2>1. <<>> \in UNION {[S -> SubState \cup {Absent}] : S \in SUBSET Subs}
      BY NoJobTyped DEF NoJob, Job
    <2>2. domainRules \in RuleList /\ subs' \in [Subs -> SubState \cup {Absent}] /\ ops' \in Nat
      BY <1>2 DEF ReconcileRepublish, db, IInv, TypeOK
    <2>3. TypeOK'
      BY <1>2, <2>1, <2>2, StartTyped DEF ReconcileRepublish, db, IInv
    <2> QED
      BY <1>2, <2>3, QuietStep DEF ReconcileRepublish, Start, db, mosdns, Publishing
  <1>3. CASE ReconcileMatch
    <2>1. /\ UNCHANGED <<versions, domainRules, subs, errCode, runtime, inflight, adopted, ops, faults>>
          /\ pc' = "finalize" /\ cand' = runtime.version
          /\ job' = [NoJob EXCEPT !.kind = "match", !.rules = versions[runtime.version].rules]
      BY <1>3 DEF ReconcileMatch, db, mosdns
    <2>2. runtime.version \in Candidates
      BY <1>3 DEF ReconcileMatch, ReconcileOutcome
    <2>3. runtime.version > ActiveVersion
      <3>1. versions[runtime.version].status \in {"pending", "unknown"}
        BY <2>2 DEF Candidates
      <3>2. runtime.version # 0
        BY <2>2, LogFacts DEF Candidates, IInv
      <3>3. pc = "idle" /\ Floor = ActiveVersion
        BY <1>3 DEF ReconcileMatch, Floor
      <3>4. runtime.version >= ActiveVersion
        BY <3>1, <3>2, <3>3 DEF IInv, RuntimeAtFloor
      <3>5. runtime.version # ActiveVersion
        BY <3>1, <3>2, ActiveVersionRange DEF IInv, TypeOK, Actives
      <3> QED
        BY <3>4, <3>5, LogFacts DEF IInv, TypeOK, SnapshotType
    <2>4. runtime.version \in 1..Len(versions) /\ versions[runtime.version] \in Row
      BY <2>2, LogFacts DEF Candidates, IInv
    <2>5. job' \in Job /\ job'.rules = versions[runtime.version].rules
      BY <2>1, <2>4, NoJobTyped DEF Job, Row
    <2>6. TypeOK'
      BY <2>1, <2>4, <2>5 DEF IInv, TypeOK, Labels
    <2>7. ActiveVersion' = ActiveVersion /\ Actives' = Actives /\ Candidates' = Candidates
      BY <2>1 DEF ActiveVersion, Actives, Candidates
    <2>8. ServedIsRecorded' /\ (\A request \in inflight : Recorded(request))' /\ ActiveOwnsRules'
      BY <2>1, <2>7 DEF IInv, ServedIsRecorded, Recorded, ActiveOwnsRules
    <2>9. CandidateIsOpen'
      BY <2>1, <2>2, <2>3, <2>5, <2>7 DEF CandidateIsOpen
    <2>10. ActivatedWasServed'
      BY <2>1, <2>4 DEF IInv, ActivatedWasServed
    <2>11. RuntimeAtFloor'
      BY <2>1, <2>4 DEF RuntimeAtFloor, Floor
    <2> QED
      BY <2>6, <2>8, <2>9, <2>10, <2>11 DEF IInv
  <1> QED
    BY <1>1, <1>2, <1>3 DEF Reconcile

\* Recorded, as a relation between a snapshot and a log.
RecordedIn(snapshot, log) ==
    /\ snapshot.version \in DOMAIN log
    /\ snapshot = Snapshot(snapshot.version, log[snapshot.version])

\* A log that keeps the rows of another and their content.
Keeps(log1, log2) ==
    \A v \in DOMAIN log1 :
        /\ v \in DOMAIN log2
        /\ log2[v].prev = log1[v].prev
        /\ log2[v].rules = log1[v].rules
        /\ log2[v].sets = log1[v].sets

\* What is recorded stays recorded when rows keep their content.
LEMMA StaysRecorded ==
    ASSUME NEW log1, NEW log2, Keeps(log1, log2), NEW snapshot, RecordedIn(snapshot, log1)
    PROVE  RecordedIn(snapshot, log2)
  BY DEF Keeps, RecordedIn, Snapshot

\* A snapshot of a recorded row is recorded.
LEMMA SentIsRecorded ==
    ASSUME TypeOK, NEW v \in DOMAIN versions
    PROVE  /\ Recorded(Snapshot(v, versions[v]))
           /\ Snapshot(v, versions[v]).version = v
           /\ Snapshot(v, versions[v]) \in SnapshotType
  <1>1. v \in Nat /\ versions[v] \in Row
    BY LogFacts
  <1> QED
    BY <1>1, SnapshotTyped DEF Recorded

\* A step of the runtime, alone or with the worker, that leaves the log alone.
LEMMA RuntimeStep ==
    ASSUME IInv, TypeOK', UNCHANGED <<versions, domainRules>>,
           runtime' # NoSnapshot => Recorded(runtime'),
           \A request \in inflight' : Recorded(request),
           adopted \subseteq adopted',
           runtime'.version # 0 => runtime'.version \in adopted',
           pc' \in Publishing => pc \in Publishing /\ cand' = cand /\ job' = job,
           pc' = "finalize" => cand' \in adopted',
           RuntimeAtFloor'
    PROVE  IInv'
  <1>1. ServedIsRecorded' /\ (\A request \in inflight : Recorded(request))'
    BY DEF ServedIsRecorded, Recorded
  <1>2. ActiveVersion' = ActiveVersion /\ Actives' = Actives /\ Candidates' = Candidates
    BY DEF ActiveVersion, Actives, Candidates
  <1>3. ActiveOwnsRules'
    BY <1>2 DEF IInv, ActiveOwnsRules
  <1>4. CandidateIsOpen'
    BY <1>2 DEF IInv, CandidateIsOpen
  <1>5. ActivatedWasServed'
    BY DEF IInv, ActivatedWasServed
  <1> QED
    BY <1>1, <1>3, <1>4, <1>5 DEF IInv

\* Facts about the candidate while publish runs.
LEMMA CandidateFacts ==
    ASSUME IInv, pc \in Publishing
    PROVE  /\ cand \in DOMAIN versions /\ cand \in Nat /\ cand # 0
           /\ cand > ActiveVersion /\ ActiveVersion \in Nat
           /\ versions[cand].status \in {"pending", "unknown"}
           /\ versions[cand].rules = job.rules
           /\ Recorded(Sent) /\ Sent.version = cand /\ Sent \in SnapshotType
  <1>1. cand \in DOMAIN versions /\ cand > ActiveVersion /\ versions[cand].rules = job.rules
        /\ versions[cand].status \in {"pending", "unknown"}
    BY DEF IInv, CandidateIsOpen, Candidates
  <1>2. cand \in Nat /\ cand # 0 /\ ActiveVersion \in Nat
    BY <1>1, LogFacts DEF IInv
  <1> QED
    BY <1>1, <1>2, SentIsRecorded DEF IInv, Sent

\* The runtime adopts the snapshot publish sends, with or without an answer.
LEMMA AdoptSent ==
    ASSUME IInv, pc \in Publishing, pc # "finalize", Adopt(Sent), UNCHANGED <<db, inflight, ops>>,
           faults' \in Nat,
           Goto("finalize") \/ Goto("unknown") \/ FailWith("APPLY_RESPONSE_INVALID")
    PROVE  IInv'
  <1>1. runtime' = Sent /\ adopted' = adopted \cup {cand} /\ runtime'.version = cand
    BY CandidateFacts DEF Adopt
  <1>2. versions' = versions /\ versions' \in Seq(Row) /\ Len(versions') >= Len(versions)
    BY LogFacts DEF db, IInv
  <1>3. pc' \in Labels /\ job' \in Job /\ errCode' \in Codes /\ cand' \in 0..Len(versions')
    BY <1>2, WorkerTyped DEF IInv, Labels, FailCodes
  <1>4. TypeOK'
    BY <1>1, <1>2, <1>3, CandidateFacts DEF IInv, TypeOK, db
  <1>5. cand' = cand /\ job' = job
    BY DEF Goto, FailWith
  <1>6. RuntimeAtFloor'
    <2>1. Floor' = cand \/ Floor' = ActiveVersion
      BY <1>2, <1>5 DEF Floor, ActiveVersion, Actives
    <2> QED
      BY <1>1, <2>1, CandidateFacts DEF RuntimeAtFloor
  <1>7. runtime' # NoSnapshot => Recorded(runtime')
    BY <1>1, CandidateFacts
  <1>8. \A request \in inflight' : Recorded(request)
    BY DEF IInv
  <1> QED
    BY <1>1, <1>2, <1>4, <1>5, <1>6, <1>7, <1>8, RuntimeStep DEF db, Publishing, IInv, ActivatedWasServed

\* PublishApplied, PublishReplyLost, PublishBadReply.
LEMMA ApplyStep ==
    ASSUME IInv, PublishApplied \/ PublishReplyLost \/ PublishBadReply
    PROVE  IInv'
  <1>0. pc = "apply" /\ pc \in Publishing /\ faults \in Nat
    BY DEF PublishApplied, PublishReplyLost, PublishBadReply, Publishing, IInv, TypeOK
  <1>1. CASE PublishApplied
    BY <1>0, <1>1, AdoptSent DEF PublishApplied
  <1>2. CASE PublishReplyLost
    BY <1>0, <1>2, AdoptSent DEF PublishReplyLost, Fault
  <1>3. CASE PublishBadReply /\ Adopt(Sent)
    BY <1>0, <1>3, AdoptSent DEF PublishBadReply, Fault
  <1>4. CASE PublishBadReply /\ UNCHANGED <<runtime, adopted>>
    <2>1. WorkerOnly
      BY <1>0, <1>4 DEF PublishBadReply, Fault, WorkerOnly, db, mosdns, IInv, TypeOK, FailCodes
    <2> QED
      BY <2>1, WorkerOnlyStep
  <1> QED
    BY <1>1, <1>2, <1>3, <1>4 DEF PublishBadReply

\* PublishUnanswered: the request may stay in flight.
LEMMA UnansweredStep == IInv /\ PublishUnanswered => IInv'
  <1> SUFFICES ASSUME IInv, PublishUnanswered PROVE IInv'
    OBVIOUS
  <1>0. /\ pc = "apply" /\ pc \in Publishing /\ faults' \in Nat
        /\ UNCHANGED <<versions, domainRules, subs, runtime, adopted, ops>> /\ Goto("unknown")
    BY DEF PublishUnanswered, Publishing, IInv, TypeOK, Fault, db
  <1>1. CASE UNCHANGED inflight
    <2>1. WorkerOnly
      BY <1>0, <1>1 DEF WorkerOnly, mosdns, IInv, TypeOK, Labels
    <2> QED
      BY <2>1, WorkerOnlyStep
  <1>2. CASE inflight' = inflight \cup {Sent}
    <2>1. PICK q : q = Sent
      OBVIOUS
    <2>2. Recorded(q) /\ q.version = cand /\ q \in SnapshotType /\ cand > ActiveVersion
      BY <1>0, <2>1, CandidateFacts
    <2>3. versions' = versions /\ versions' \in Seq(Row) /\ Len(versions') >= Len(versions)
      BY <1>0, LogFacts DEF IInv
    <2>4. pc' \in Labels /\ job' \in Job /\ errCode' \in Codes /\ cand' \in 0..Len(versions')
      BY <1>0, <2>3, WorkerTyped DEF IInv, Labels
    <2>5. TypeOK'
      BY <1>0, <1>2, <2>1, <2>2, <2>4 DEF IInv, TypeOK
    <2>6. pc' = "unknown" /\ cand' = cand /\ job' = job
      BY <1>0 DEF Goto
    <2>7. Floor' = ActiveVersion /\ Floor = ActiveVersion
      BY <1>0, <2>6 DEF Floor, ActiveVersion, Actives
    <2>8. RuntimeAtFloor'
      BY <1>0, <1>2, <2>1, <2>2, <2>7 DEF IInv, RuntimeAtFloor
    <2>9. \A request \in inflight' : Recorded(request)
      BY <1>2, <2>1, <2>2 DEF IInv
    <2>10. runtime' # NoSnapshot => Recorded(runtime')
      BY <1>0 DEF IInv, ServedIsRecorded
    <2>11. runtime'.version # 0 => runtime'.version \in adopted'
      BY <1>0 DEF IInv, ActivatedWasServed
    <2> QED
      BY <1>0, <2>5, <2>6, <2>8, <2>9, <2>10, <2>11, RuntimeStep DEF IInv
  <1> QED
    BY <1>1, <1>2 DEF PublishUnanswered

\* The Status query finds the candidate being served.
LEMMA QueryStep == IInv /\ PublishQuery => IInv'
  <1> SUFFICES ASSUME IInv, PublishQuery PROVE IInv'
    OBVIOUS
  <1>1. CASE runtime # Sent
    BY <1>1, WorkerOnlySteps, WorkerOnlyStep DEF IInv
  <1>2. CASE runtime = Sent
    <2>1. /\ pc = "query" /\ pc \in Publishing /\ Goto("finalize")
          /\ UNCHANGED <<versions, domainRules, subs, runtime, inflight, adopted, ops, faults>>
      BY <1>2 DEF PublishQuery, Publishing, db, mosdns
    <2>2. versions' = versions /\ versions' \in Seq(Row) /\ Len(versions') >= Len(versions)
      BY <2>1, LogFacts DEF IInv
    <2>3. pc' \in Labels /\ job' \in Job /\ errCode' \in Codes /\ cand' \in 0..Len(versions')
      BY <2>1, <2>2, WorkerTyped DEF IInv, Labels
    <2>4. TypeOK'
      BY <2>1, <2>3 DEF IInv, TypeOK
    <2>5. pc' = "finalize" /\ cand' = cand /\ job' = job
      BY <2>1 DEF Goto
    <2>6. runtime.version = cand /\ cand # 0 /\ cand \in Nat
      BY <1>2, <2>1, CandidateFacts
    <2>7. RuntimeAtFloor'
      BY <2>1, <2>5, <2>6 DEF RuntimeAtFloor, Floor
    <2>8. cand' \in adopted' /\ (runtime'.version # 0 => runtime'.version \in adopted')
      BY <2>1, <2>5, <2>6 DEF IInv, ActivatedWasServed
    <2>9. runtime' # NoSnapshot => Recorded(runtime')
      BY <2>1 DEF IInv, ServedIsRecorded
    <2>10. \A request \in inflight' : Recorded(request)
      BY <2>1 DEF IInv
    <2> QED
      BY <2>1, <2>4, <2>5, <2>7, <2>8, <2>9, <2>10, RuntimeStep DEF IInv
  <1> QED
    BY <1>1, <1>2

\* The runtime on its own: a late apply, a restart onto nothing or onto an
\* earlier version.
LEMMA RuntimeOnlyStep == IInv /\ Runtime => IInv'
  <1> SUFFICES ASSUME IInv, Runtime PROVE IInv'
    OBVIOUS
  <1>0. /\ UNCHANGED <<versions, domainRules, subs, pc, job, cand, errCode, ops>>
        /\ faults' \in Nat
    BY DEF Runtime, LateApply, RuntimeLoses, RuntimeRegresses, Fault, db, worker, IInv, TypeOK
  <1>1. Floor' = Floor /\ Floor \in Nat
    BY <1>0, LogFacts, CandidateFacts DEF Floor, ActiveVersion, Actives, IInv, Publishing
  <1>2. runtime.version \in Nat /\ \A request \in inflight : request.version \in Nat
    BY DEF IInv, TypeOK, SnapshotType
  <1>3. ASSUME NEW request \in inflight, LateApply(request), Accepts(request)
        PROVE  IInv'
    <2>1. /\ runtime' = request /\ adopted' = adopted \cup {request.version}
          /\ inflight' = inflight \ {request} /\ request.version > runtime.version
      BY <1>3 DEF LateApply, Accepts, Adopt
    <2>2. Recorded(request) /\ request.version \in DOMAIN versions
      BY DEF IInv, Recorded
    <2>3. TypeOK'
      BY <1>0, <2>1, <2>2 DEF IInv, TypeOK
    <2>4. RuntimeAtFloor'
      BY <1>1, <1>2, <2>1 DEF IInv, RuntimeAtFloor
    <2>5. \A r \in inflight' : Recorded(r)
      BY <2>1 DEF IInv
    <2>6. pc' = "finalize" => cand' \in adopted'
      BY <1>0, <2>1 DEF IInv, ActivatedWasServed
    <2> QED
      BY <1>0, <2>1, <2>2, <2>3, <2>4, <2>5, <2>6, RuntimeStep DEF IInv
  <1>4. ASSUME NEW request \in inflight, LateApply(request), ~Accepts(request)
        PROVE  IInv'
    <2>1. UNCHANGED <<runtime, adopted>> /\ inflight' = inflight \ {request}
      BY <1>4 DEF LateApply
    <2>2. TypeOK'
      BY <1>0, <2>1 DEF IInv, TypeOK
    <2>3. RuntimeAtFloor'
      BY <1>0, <1>1, <2>1 DEF IInv, RuntimeAtFloor
    <2>4. (runtime' # NoSnapshot => Recorded(runtime')) /\ \A r \in inflight' : Recorded(r)
      BY <2>1 DEF IInv, ServedIsRecorded
    <2>5. /\ runtime'.version # 0 => runtime'.version \in adopted'
          /\ pc' = "finalize" => cand' \in adopted'
      BY <1>0, <2>1 DEF IInv, ActivatedWasServed
    <2> QED
      BY <1>0, <2>1, <2>2, <2>3, <2>4, <2>5, RuntimeStep DEF IInv
  <1>5. CASE RuntimeLoses
    <2>1. runtime' = NoSnapshot /\ runtime'.version = 0 /\ inflight' = {} /\ adopted' = adopted
      BY <1>5 DEF RuntimeLoses, NoSnapshot
    <2>2. NoSnapshot \in SnapshotType
      BY DEF NoSnapshot, SnapshotType
    <2>3. TypeOK'
      BY <1>0, <2>1, <2>2 DEF IInv, TypeOK
    <2>4. RuntimeAtFloor'
      BY <2>1 DEF RuntimeAtFloor
    <2>5. pc' = "finalize" => cand' \in adopted'
      BY <1>0, <2>1 DEF IInv, ActivatedWasServed
    <2> QED
      BY <1>0, <2>1, <2>3, <2>4, <2>5, RuntimeStep DEF IInv
  <1>6. CASE RuntimeRegresses
    <2>1. PICK v \in DOMAIN versions :
            versions[v].status = "superseded" /\ runtime' = Snapshot(v, versions[v])
      BY <1>6 DEF RuntimeRegresses
    <2>2. inflight' = {} /\ adopted' = adopted
      BY <1>6 DEF RuntimeRegresses
    <2>3. Recorded(runtime') /\ runtime'.version = v /\ runtime' \in SnapshotType
      BY <2>1, SentIsRecorded DEF IInv
    <2>4. TypeOK'
      BY <1>0, <2>2, <2>3 DEF IInv, TypeOK
    <2>5. RuntimeAtFloor'
      BY <1>0, <2>1, <2>2, <2>3 DEF RuntimeAtFloor
    <2>6. v \in adopted /\ (pc' = "finalize" => cand' \in adopted')
      BY <1>0, <2>1, <2>2 DEF IInv, ActivatedWasServed
    <2> QED
      BY <1>0, <2>2, <2>3, <2>4, <2>5, <2>6, RuntimeStep DEF IInv
  <1> QED
    BY <1>3, <1>4, <1>5, <1>6 DEF Runtime

\* A step that writes rule_versions without touching the active version.
LEMMA LogStep ==
    ASSUME IInv, TypeOK', Keeps(versions, versions'),
           UNCHANGED <<domainRules, runtime, inflight, adopted>>,
           ActivesOf(versions') = ActivesOf(versions),
           \A v \in DOMAIN versions' : versions'[v].status = "superseded" =>
               v \in DOMAIN versions /\ versions[v].status = "superseded",
           \A v \in DOMAIN versions : versions[v].status = "superseded" =>
               v \in DOMAIN versions' /\ versions'[v].status = "superseded",
           pc' # "finalize", CandidateIsOpen'
    PROVE  IInv'
  <1>1. \A snapshot : Recorded(snapshot) => RecordedIn(snapshot, versions')
    BY StaysRecorded DEF Recorded, RecordedIn
  <1>2. ServedIsRecorded' /\ (\A request \in inflight : Recorded(request))'
    BY <1>1 DEF IInv, ServedIsRecorded, Recorded, RecordedIn
  <1>3. ActiveVersion' = ActiveVersion /\ Actives' = Actives
    BY ActiveVersionIs, ActiveOfSame
  <1>4. ActiveOwnsRules'
    <2>1. \A v \in Actives : v \in DOMAIN versions /\ versions'[v].rules = versions[v].rules
      BY DEF Actives, Keeps
    <2> QED
      BY <1>3, <2>1 DEF IInv, ActiveOwnsRules
  <1>5. ActivatedWasServed'
    <2>1. \A v \in DOMAIN versions' : versions'[v].status = "active" =>
             v \in DOMAIN versions /\ versions[v].status = "active"
      BY DEF ActivesOf
    <2> QED
      BY <2>1 DEF IInv, ActivatedWasServed
  <1>6. RuntimeAtFloor'
    <2>1. Floor' = ActiveVersion /\ Floor \in Nat /\ ActiveVersion \in Nat /\ ActiveVersion <= Floor
      BY <1>3, LogFacts, CandidateFacts DEF Floor, IInv, Publishing
    <2>2. runtime.version \in Nat /\ \A request \in inflight : request.version \in Nat
      BY DEF IInv, TypeOK, SnapshotType
    <2>3. runtime.version # 0 => runtime.version \in DOMAIN versions
      BY DEF IInv, ActivatedWasServed, TypeOK
    <2> QED
      BY <2>1, <2>2, <2>3 DEF IInv, RuntimeAtFloor
  <1> QED
    BY <1>2, <1>4, <1>5, <1>6 DEF IInv

\* PublishInsert.
LEMMA InsertStep == IInv /\ PublishInsert => IInv'
  <1> SUFFICES ASSUME IInv, PublishInsert PROVE IInv'
    OBVIOUS
  <1>1. PICK row : row = [status |-> "pending", code |-> "", prev |-> ActiveVersion,
                          rules |-> job.rules, sets |-> SetsOf(subs)]
    OBVIOUS
  <1>2. row \in Row /\ row.status = "pending" /\ row.rules = job.rules
    BY <1>1, NewRowTyped DEF IInv
  <1>3. /\ versions' = Append(versions, row) /\ cand' = Len(versions) + 1 /\ pc' = "validate"
        /\ UNCHANGED <<domainRules, subs, job, errCode, runtime, inflight, adopted, ops, faults>>
    BY <1>1 DEF PublishInsert, nextVersion, mosdns
  <1>4. /\ versions' \in Seq(Row) /\ Len(versions') = Len(versions) + 1
        /\ DOMAIN versions' = DOMAIN versions \cup {Len(versions) + 1}
        /\ \A v \in DOMAIN versions : versions'[v] = versions[v]
        /\ versions'[Len(versions) + 1] = row
    BY <1>2, <1>3, InsertedRow DEF IInv, TypeOK
  <1>5. Len(versions) \in Nat /\ Len(versions) + 1 \notin DOMAIN versions
    BY LogFacts DEF IInv
  <1>6. TypeOK'
    <2>1. cand' \in 0..Len(versions')
      BY <1>3, <1>4, <1>5
    <2> QED
      BY <1>3, <1>4, <2>1 DEF IInv, TypeOK, Labels
  <1>7. Keeps(versions, versions')
    BY <1>4 DEF Keeps
  <1>8. ActivesOf(versions') = ActivesOf(versions)
    BY <1>2, <1>4 DEF ActivesOf
  <1>9. CandidateIsOpen'
    <2>1. ActiveVersion' = ActiveVersion /\ ActiveVersion \in Nat /\ ActiveVersion <= Len(versions)
      BY <1>8, ActiveVersionIs, ActiveOfSame, LogFacts DEF IInv
    <2>2. cand' > ActiveVersion'
      BY <1>3, <1>5, <2>1
    <2>3. cand' \in Candidates'
      BY <1>2, <1>3, <1>4 DEF Candidates
    <2>4. versions'[cand'].rules = job'.rules
      BY <1>2, <1>3, <1>4
    <2> QED
      BY <2>2, <2>3, <2>4 DEF CandidateIsOpen
  <1> QED
    BY <1>2, <1>3, <1>4, <1>6, <1>7, <1>8, <1>9, LogStep

\* The UPDATE of the candidate's row to 'unknown' or 'failed'.
LEMMA MarkStep ==
    ASSUME IInv, pc \in Publishing, NEW status \in {"unknown", "failed"},
           SetStatus(cand, status, IF status = "failed" THEN errCode ELSE "PUBLISH_UNKNOWN"),
           UNCHANGED <<domainRules, subs, mosdns, ops>>, faults' \in Nat,
           PublishError \/ (status = "unknown" /\ Goto("query"))
    PROVE  IInv'
  <1>1. cand \in DOMAIN versions /\ versions[cand].status \in {"pending", "unknown"}
    BY CandidateFacts
  <1>2. (IF status = "failed" THEN errCode ELSE "PUBLISH_UNKNOWN") \in Codes /\ status \in Statuses
    BY DEF IInv, TypeOK, Codes, Statuses
  <1>3. /\ versions' \in Seq(Row) /\ Len(versions') = Len(versions)
        /\ DOMAIN versions' = DOMAIN versions
        /\ \A w \in DOMAIN versions : w # cand => versions'[w] = versions[w]
        /\ versions'[cand].status = status
        /\ versions'[cand].prev = versions[cand].prev
        /\ versions'[cand].rules = versions[cand].rules
        /\ versions'[cand].sets = versions[cand].sets
    BY <1>1, <1>2, UpdatedRow DEF IInv, TypeOK
  <1>4. pc' \in Labels /\ job' \in Job /\ errCode' \in Codes /\ cand' \in 0..Len(versions')
    <2>1. Len(versions') >= Len(versions)
      BY <1>3, LogFacts DEF IInv
    <2> QED
      BY <1>3, <2>1, WorkerTyped DEF IInv, Labels
  <1>5. TypeOK'
    BY <1>3, <1>4 DEF IInv, TypeOK, mosdns
  <1>6. Keeps(versions, versions')
    BY <1>3 DEF Keeps
  <1>7. ActivesOf(versions') = ActivesOf(versions)
    BY <1>1, <1>3 DEF ActivesOf
  <1>8. /\ \A v \in DOMAIN versions' : versions'[v].status = "superseded" =>
             v \in DOMAIN versions /\ versions[v].status = "superseded"
        /\ \A v \in DOMAIN versions : versions[v].status = "superseded" =>
             v \in DOMAIN versions' /\ versions'[v].status = "superseded"
    BY <1>1, <1>3
  <1>9. pc' # "finalize" /\ CandidateIsOpen'
    <2>1. CASE PublishError
      BY <2>1 DEF PublishError, Return, CandidateIsOpen, Publishing
    <2>2. CASE status = "unknown" /\ Goto("query")
      <3>1. ActiveVersion' = ActiveVersion
        BY <1>7, ActiveVersionIs, ActiveOfSame
      <3>2. cand' = cand /\ job' = job /\ pc' = "query"
        BY <2>2 DEF Goto
      <3>3. cand' \in Candidates'
        BY <1>1, <1>3, <2>2, <3>2 DEF Candidates
      <3>4. versions'[cand'].rules = job'.rules /\ cand' > ActiveVersion'
        BY <1>3, <3>1, <3>2, CandidateFacts
      <3> QED
        BY <3>2, <3>3, <3>4 DEF CandidateIsOpen
    <2> QED
      BY <2>1, <2>2
  <1> QED
    BY <1>5, <1>6, <1>7, <1>8, <1>9, LogStep DEF mosdns

\* PublishMarkUnknown and Fail, whose UPDATE may have no effect.
LEMMA VerdictStep == IInv /\ (PublishMarkUnknown \/ Fail) => IInv'
  <1> SUFFICES ASSUME IInv, PublishMarkUnknown \/ Fail PROVE IInv'
    OBVIOUS
  <1>1. pc \in Publishing /\ faults' \in Nat /\ UNCHANGED <<domainRules, subs, mosdns, ops>>
    BY DEF PublishMarkUnknown, Fail, Publishing, Fault, IInv, TypeOK
  <1>2. CASE UNCHANGED versions
    <2>1. WorkerOnly
      BY <1>1, <1>2 DEF WorkerOnly, PublishMarkUnknown, Fail, mosdns, IInv, TypeOK, Labels
    <2> QED
      BY <2>1, WorkerOnlyStep
  <1>3. CASE PublishMarkUnknown /\ SetStatus(cand, "unknown", "PUBLISH_UNKNOWN")
    BY <1>1, <1>3, MarkStep DEF PublishMarkUnknown
  <1>4. CASE Fail /\ SetStatus(cand, "failed", errCode)
    BY <1>1, <1>4, MarkStep DEF Fail
  <1> QED
    BY <1>2, <1>3, <1>4 DEF PublishMarkUnknown, Fail

\* Finalize: the candidate becomes the one active version and owns the rules.
LEMMA FinalizeStep == IInv /\ Finalize => IInv'
  <1> SUFFICES ASSUME IInv, Finalize PROVE IInv'
    OBVIOUS
  <1>1. /\ pc = "finalize" /\ pc \in Publishing /\ Activate(cand, job.rules)
        /\ UNCHANGED <<subs, runtime, inflight, adopted, ops, faults>>
    BY DEF Finalize, Publishing, mosdns
  <1>2. /\ cand \in DOMAIN versions /\ cand \in Nat /\ cand # 0 /\ cand > ActiveVersion
        /\ versions[cand].status \in {"pending", "unknown"} /\ versions[cand].rules = job.rules
    BY <1>1, CandidateFacts
  <1>3. /\ versions' \in Seq(Row) /\ Len(versions') = Len(versions)
        /\ DOMAIN versions' = DOMAIN versions
        /\ versions'[cand].status = "active"
        /\ \A w \in DOMAIN versions :
             /\ w # cand => versions'[w].status =
                  IF versions[w].status = "active" THEN "superseded" ELSE versions[w].status
             /\ versions'[w].prev = versions[w].prev
             /\ versions'[w].rules = versions[w].rules
             /\ versions'[w].sets = versions[w].sets
    BY <1>1, <1>2, ActivatedRows DEF IInv, TypeOK
  <1>4. domainRules' = job.rules /\ job.rules \in RuleList
    BY <1>1 DEF Activate, IInv, TypeOK, Job
  <1>5. /\ pc' \in Labels /\ job' \in Job /\ errCode' \in Codes /\ cand' \in 0..Len(versions')
        /\ pc' \notin Publishing
    <2>1. CASE Return
      <3>1. Len(versions') >= Len(versions)
        BY <1>3, LogFacts DEF IInv
      <3> QED
        BY <1>3, <2>1, <3>1, WorkerTyped DEF IInv, Return, Publishing
    <2>2. CASE ~Return
      <3>1. /\ pc' = "prepare" /\ cand' = 0 /\ errCode' = errCode
            /\ job' = [job EXCEPT !.kind = "reconcile"]
        BY <2>2 DEF Finalize
      <3>2. job' \in Job
        BY <3>1 DEF IInv, TypeOK, Job
      <3> QED
        BY <1>3, <3>1, <3>2, LogFacts DEF IInv, TypeOK, Labels, Publishing
    <2> QED
      BY <2>1, <2>2
  <1>6. TypeOK'
    BY <1>1, <1>3, <1>4, <1>5 DEF IInv, TypeOK
  <1>7. ActivesOf(versions') = {cand}
    BY <1>2, <1>3 DEF ActivesOf
  <1>8. ActiveVersion' = cand /\ Actives' = {cand}
    BY <1>7, ActiveVersionIs, ActiveOfUnique
  <1>9. ServedIsRecorded' /\ (\A request \in inflight : Recorded(request))'
    <2>1. Keeps(versions, versions')
      BY <1>3 DEF Keeps
    <2>2. \A snapshot : Recorded(snapshot) => RecordedIn(snapshot, versions')
      BY <2>1, StaysRecorded DEF Recorded, RecordedIn
    <2> QED
      BY <1>1, <2>2 DEF IInv, ServedIsRecorded, Recorded, RecordedIn
  <1>10. ActiveOwnsRules'
    BY <1>2, <1>3, <1>4, <1>8 DEF ActiveOwnsRules
  <1>11. CandidateIsOpen'
    BY <1>5 DEF CandidateIsOpen
  <1>12. ActivatedWasServed'
    <2>1. cand \in adopted
      BY <1>1 DEF IInv, ActivatedWasServed
    <2>2. \A v \in DOMAIN versions' :
            versions'[v].status \in {"active", "superseded"} => v \in adopted
      BY <1>3, <2>1 DEF IInv, ActivatedWasServed
    <2> QED
      BY <1>1, <1>5, <2>2 DEF IInv, ActivatedWasServed, Publishing
  <1>13. RuntimeAtFloor'
    <2>1. Floor = cand /\ Floor' = cand
      BY <1>1, <1>5, <1>8 DEF Floor, Publishing
    <2>2. runtime.version # 0 => runtime.version \in DOMAIN versions
      BY DEF IInv, ActivatedWasServed, TypeOK
    <2>3. runtime.version # 0 /\ versions[runtime.version].status = "superseded" =>
            versions'[runtime.version].status = "superseded"
      BY <1>2, <1>3, <2>2
    <2> QED
      BY <1>1, <2>1, <2>3 DEF IInv, RuntimeAtFloor
  <1> QED
    BY <1>6, <1>9, <1>10, <1>11, <1>12, <1>13 DEF IInv

\* The initial state.
LEMMA InitInv == Init => IInv
  <1> SUFFICES ASSUME Init PROVE IInv
    OBVIOUS
  <1>1. versions = <<>> /\ versions \in Seq(Row) /\ Len(versions) = 0 /\ DOMAIN versions = {}
    <2>1. <<>> \in Seq(Row)
      OBVIOUS
    <2>2. Len(<<>>) = 0 /\ DOMAIN <<>> = {}
      OBVIOUS
    <2> QED
      BY <2>1, <2>2 DEF Init
  <1>2. NoSnapshot \in SnapshotType /\ NoSnapshot.version = 0
    BY DEF NoSnapshot, SnapshotType
  <1>3. TypeOK
    <2>1. subs \in [Subs -> SubState \cup {Absent}]
      BY DEF Init
    <2>2. cand \in 0..Len(versions) /\ ops \in Nat /\ faults \in Nat
      <3>1. cand = 0 /\ ops = 0 /\ faults = 0 /\ Len(versions) = 0
        BY <1>1 DEF Init
      <3> QED
        BY <3>1
    <2>3. pc \in Labels /\ job \in Job /\ errCode \in Codes /\ domainRules \in RuleList
      BY NoJobTyped DEF Init, Labels, Codes
    <2>4. runtime \in SnapshotType /\ inflight = {} /\ adopted = {}
      BY <1>2 DEF Init
    <2> QED
      BY <1>1, <2>1, <2>2, <2>3, <2>4 DEF TypeOK
  <1>4. Actives = {} /\ ActiveVersion = 0
    BY <1>1 DEF Actives, ActiveVersion
  <1>5. ServedIsRecorded /\ ActiveOwnsRules /\ CandidateIsOpen /\ ActivatedWasServed
    BY <1>1, <1>2, <1>4 DEF Init, ServedIsRecorded, ActiveOwnsRules, CandidateIsOpen,
                            ActivatedWasServed, Publishing
  <1>6. RuntimeAtFloor
    BY <1>2, <1>4 DEF Init, RuntimeAtFloor, Floor
  <1> QED
    BY <1>3, <1>5, <1>6 DEF IInv, Init

\* Every step, stuttering included, keeps the inductive invariant.
LEMMA NextInv == IInv /\ [Next]_vars => IInv'
  <1> SUFFICES ASSUME IInv, [Next]_vars PROVE IInv'
    OBVIOUS
  <1>1. CASE AdminOperation
    BY <1>1, AdminStep
  <1>2. CASE Reconcile
    BY <1>2, ReconcileStep
  <1>3. CASE PublishInsert
    BY <1>3, InsertStep
  <1>4. CASE PublishApplied \/ PublishReplyLost \/ PublishBadReply
    BY <1>4, ApplyStep
  <1>5. CASE PublishUnanswered
    BY <1>5, UnansweredStep
  <1>6. CASE PublishMarkUnknown \/ Fail
    BY <1>6, VerdictStep
  <1>7. CASE PublishQuery
    BY <1>7, QueryStep
  <1>8. CASE Finalize
    BY <1>8, FinalizeStep
  <1>9. CASE \/ PublishRefused \/ PublishValidated \/ PublishInvalid \/ PublishRejected
             \/ PublishQueryFails \/ FinalizeFails
             \/ Restore \/ RestoreBlind \/ RestoreUnread
             \/ Undo \/ UndoBinding \/ UndoFails \/ Crash
    <2>1. WorkerOnly
      BY <1>9, WorkerOnlySteps DEF IInv
    <2> QED
      BY <2>1, WorkerOnlyStep
  <1>10. CASE Runtime
    BY <1>10, RuntimeOnlyStep
  <1>11. CASE UNCHANGED vars
    BY <1>11 DEF vars, db, worker, mosdns, IInv, TypeOK, ServedIsRecorded, Recorded,
                 ActiveOwnsRules, Actives, CandidateIsOpen, Candidates, ActiveVersion,
                 ActivatedWasServed, RuntimeAtFloor, Floor
  <1> QED
    BY <1>1, <1>2, <1>3, <1>4, <1>5, <1>6, <1>7, <1>8, <1>9, <1>10, <1>11 DEF Next, WorkerStep

\* The inductive invariant holds in every behaviour of the pipeline.
THEOREM Inductive == Spec => []IInv
  BY InitInv, NextInv, PTL DEF Spec

\* Tables, the worker's locals and the runtime keep their shape through every
\* operation, failure and restart, and the worker's candidate is a recorded row.
THEOREM TypeCorrect == Spec => []TypeOK
  <1>1. IInv => TypeOK
    BY DEF IInv
  <1> QED
    BY <1>1, Inductive, PTL

\* Whatever calls fail, arrive late or are interrupted by a crash, mosdns never
\* serves a snapshot that rule_versions does not record.
THEOREM ServedAlwaysRecorded == Spec => []ServedIsRecorded
  <1>1. IInv => ServedIsRecorded
    BY DEF IInv
  <1> QED
    BY <1>1, Inductive, PTL

\* There is at most one active version, and domain_rules is its rule list.
THEOREM ActiveAlwaysOwnsRules == Spec => []ActiveOwnsRules
  <1>1. IInv => ActiveOwnsRules
    BY DEF IInv
  <1> QED
    BY <1>1, Inductive, PTL

\* What the controller has activated, or is about to, was not overtaken by an
\* older request: the runtime is at that version or above unless it restarted.
THEOREM FloorHolds == Spec => []RuntimeAtFloor
  <1>1. IInv => RuntimeAtFloor
    BY DEF IInv
  <1> QED
    BY <1>1, Inductive, PTL

----------------------------------------------------------------------------
(* Verdicts and the contract                                               *)

\* A step that leaves the log and the rules alone; the runtime may adopt a
\* recorded version in it.
LogUntouched ==
    /\ UNCHANGED <<versions, domainRules>>
    /\ \/ UNCHANGED adopted
       \/ \E v \in DOMAIN versions : adopted' = adopted \cup {v}

\* The UPDATE of the candidate's row in PublishMarkUnknown and Fail.
CandidateMarked ==
    /\ pc \in Publishing
    /\ UNCHANGED <<domainRules, adopted>>
    /\ \E status \in {"unknown", "failed"}, code \in Codes : SetStatus(cand, status, code)

\* What a step does to the log: nothing, or one of its three writes.
LEMMA LogWrites ==
    ASSUME IInv, [Next]_vars
    PROVE  LogUntouched \/ PublishInsert \/ CandidateMarked \/ Finalize
  <1>1. CASE AdminOperation
    BY <1>1 DEF AdminOperation, EditRules, Rollback, createSubscription, RefreshSubscription,
                SetSubscriptionEnabled, UpdateSubscriptionBinding, DeleteSubscription,
                WriteSource, Start, db, mosdns, LogUntouched
  <1>2. CASE Reconcile
    BY <1>2 DEF Reconcile, ReconcileMatch, ReconcileRepublish, ReconcileRest, Start,
                vars, db, worker, mosdns, LogUntouched
  <1>3. CASE PublishApplied \/ PublishReplyLost \/ PublishBadReply
    <2>1. pc \in Publishing
      BY <1>3 DEF PublishApplied, PublishReplyLost, PublishBadReply, Publishing
    <2>2. cand \in DOMAIN versions /\ Sent.version = cand
      BY <2>1, CandidateFacts
    <2>3. Adopt(Sent) \/ UNCHANGED adopted
      BY <1>3 DEF PublishApplied, PublishReplyLost, PublishBadReply
    <2>4. UNCHANGED <<versions, domainRules>>
      BY <1>3 DEF PublishApplied, PublishReplyLost, PublishBadReply, db
    <2> QED
      BY <2>2, <2>3, <2>4 DEF Adopt, LogUntouched
  <1>4. CASE PublishUnanswered
    BY <1>4 DEF PublishUnanswered, db, LogUntouched
  <1>5. CASE PublishMarkUnknown \/ Fail
    <2>1. pc \in Publishing /\ UNCHANGED <<domainRules, adopted>> /\ errCode \in Codes
      BY <1>5 DEF PublishMarkUnknown, Fail, mosdns, Publishing, IInv, TypeOK
    <2>2. CASE UNCHANGED versions
      BY <2>1, <2>2 DEF LogUntouched
    <2>3. CASE PublishMarkUnknown /\ SetStatus(cand, "unknown", "PUBLISH_UNKNOWN")
      BY <2>1, <2>3 DEF CandidateMarked, Codes
    <2>4. CASE Fail /\ SetStatus(cand, "failed", errCode)
      BY <2>1, <2>4 DEF CandidateMarked
    <2> QED
      BY <1>5, <2>2, <2>3, <2>4 DEF PublishMarkUnknown, Fail
  <1>6. CASE PublishQuery
    BY <1>6 DEF PublishQuery, db, mosdns, LogUntouched
  <1>7. CASE \/ PublishRefused \/ PublishValidated \/ PublishInvalid \/ PublishRejected
             \/ PublishQueryFails \/ FinalizeFails
             \/ Restore \/ RestoreBlind \/ RestoreUnread
             \/ Undo \/ UndoBinding \/ UndoFails \/ Crash
    <2>1. WorkerOnly
      BY <1>7, WorkerOnlySteps DEF IInv
    <2> QED
      BY <2>1 DEF WorkerOnly, mosdns, LogUntouched
  <1>8. CASE Runtime
    <2>1. UNCHANGED <<versions, domainRules>>
      BY <1>8 DEF Runtime, LateApply, RuntimeLoses, RuntimeRegresses, db
    <2>2. \A request \in inflight : request.version \in DOMAIN versions
      BY DEF IInv, Recorded
    <2>3. UNCHANGED adopted \/ \E request \in inflight : Adopt(request)
      BY <1>8 DEF Runtime, LateApply, RuntimeLoses, RuntimeRegresses
    <2> QED
      BY <2>1, <2>2, <2>3 DEF Adopt, LogUntouched
  <1>9. CASE UNCHANGED vars
    BY <1>9 DEF vars, db, mosdns, LogUntouched
  <1> QED
    BY <1>1, <1>2, <1>3, <1>4, <1>5, <1>6, <1>7, <1>8, <1>9 DEF Next, WorkerStep

\* A step never touches a row that is failed or superseded.
LEMMA VerdictsKept ==
    ASSUME IInv, [Next]_vars, NEW v \in DOMAIN versions,
           versions[v].status \in {"failed", "superseded"}
    PROVE  versions'[v] = versions[v]
  <1>1. CASE LogUntouched
    BY <1>1 DEF LogUntouched
  <1>2. CASE PublishInsert
    <2>1. PICK row : row = [status |-> "pending", code |-> "", prev |-> ActiveVersion,
                            rules |-> job.rules, sets |-> SetsOf(subs)]
      OBVIOUS
    <2>2. row \in Row /\ versions' = Append(versions, row)
      BY <1>2, <2>1, NewRowTyped DEF IInv, PublishInsert
    <2> QED
      BY <2>2, InsertedRow DEF IInv, TypeOK
  <1>3. CASE CandidateMarked
    <2>1. cand \in DOMAIN versions /\ cand # v
      BY <1>3, CandidateFacts DEF CandidateMarked
    <2> QED
      BY <1>3, <2>1 DEF CandidateMarked, SetStatus
  <1>4. CASE Finalize
    <2>1. cand # v
      BY <1>4, CandidateFacts DEF Finalize, Publishing
    <2> QED
      BY <1>4, <2>1 DEF Finalize, Activate
  <1> QED
    BY <1>1, <1>2, <1>3, <1>4, LogWrites

\* No later event - a late apply, a retry, Reconcile - rewrites the verdict on a
\* version that was judged failed or was superseded.
THEOREM VerdictsStay == Spec => VerdictsAreFinal
  <1>1. IInv /\ [Next]_vars =>
          [\A v \in DOMAIN versions :
             versions[v].status \in {"failed", "superseded"} => versions'[v] = versions[v]]_vars
    BY VerdictsKept
  <1> QED
    BY <1>1, Inductive, PTL DEF Spec, VerdictsAreFinal

\* The refinement mapping sends the log to the sequence of proposed lists.
LEMMA ProposedIs ==
    ASSUME NEW log1 \in Seq(Row), NEW log2 \in Seq(Row), NEW row \in Row
    PROVE  LET Lists(log) == [v \in DOMAIN log |-> log[v].rules] IN
           /\ Lists(log1) \in Seq(RuleList)
           /\ Len(log1) = Len(log2) /\ Keeps(log1, log2) => Lists(log2) = Lists(log1)
           /\ Lists(Append(log1, row)) = Append(Lists(log1), row.rules)
  <1> DEFINE Lists(log) == [v \in DOMAIN log |-> log[v].rules]
  <1>1. \A log \in Seq(Row) : DOMAIN log = 1..Len(log) /\ \A v \in DOMAIN log : log[v].rules \in RuleList
    BY RowsDomain DEF Row
  <1>2. Lists(log1) \in Seq(RuleList) /\ Len(Lists(log1)) = Len(log1)
    BY <1>1
  <1>3. Len(log1) = Len(log2) /\ Keeps(log1, log2) => Lists(log2) = Lists(log1)
    BY <1>1 DEF Keeps
  <1>4. Lists(Append(log1, row)) = Append(Lists(log1), row.rules)
    <2>1. row.rules \in RuleList
      BY DEF Row
    <2>2. /\ DOMAIN Append(log1, row) = 1..(Len(log1) + 1)
          /\ \A v \in 1..Len(log1) : Append(log1, row)[v] = log1[v]
          /\ Append(log1, row)[Len(log1) + 1] = row
      BY RowsDomain
    <2>3. Append(Lists(log1), row.rules) =
            [v \in 1..(Len(log1) + 1) |-> IF v = Len(log1) + 1 THEN row.rules ELSE Lists(log1)[v]]
      BY <1>2, <2>1
    <2> QED
      BY <1>1, <2>2, <2>3, RowsDomain
  <1> QED
    BY <1>2, <1>3, <1>4

\* The initial state of the pipeline maps to the contract's.
LEMMA ContractInit == Init => Contract!Init
  <1> SUFFICES ASSUME Init PROVE Contract!Init
    OBVIOUS
  <1>1. versions = <<>> /\ DOMAIN versions = {} /\ adopted = {} /\ domainRules = NoRules
    <2>1. DOMAIN <<>> = {}
      OBVIOUS
    <2> QED
      BY <2>1 DEF Init
  <1>2. ActiveVersion = 0
    BY <1>1 DEF ActiveVersion, Actives
  <1>3. [v \in DOMAIN versions |-> versions[v].rules] = <<>>
    BY <1>1
  <1> QED
    BY <1>1, <1>2, <1>3 DEF Contract!Init

\* Every step of the pipeline maps to a step of the contract or to a stutter.
LEMMA ContractStep == IInv /\ [Next]_vars => [Contract!Next]_(Contract!vars)
  <1> SUFFICES ASSUME IInv, [Next]_vars PROVE [Contract!Next]_(Contract!vars)
    OBVIOUS
  <1> DEFINE proposed == [v \in DOMAIN versions |-> versions[v].rules]
             published == [version |-> ActiveVersion, rules |-> domainRules]
  <1>0. versions \in Seq(Row) /\ DOMAIN proposed = DOMAIN versions
    BY DEF IInv, TypeOK
  <1>1. CASE LogUntouched
    <2>1. proposed' = proposed /\ published' = published
      BY <1>1 DEF LogUntouched, ActiveVersion, Actives
    <2>2. CASE UNCHANGED adopted
      BY <2>1, <2>2 DEF Contract!vars
    <2>3. CASE \E v \in DOMAIN versions : adopted' = adopted \cup {v}
      BY <1>0, <2>1, <2>3 DEF Contract!Next, Contract!Serve
    <2> QED
      BY <1>1, <2>2, <2>3 DEF LogUntouched
  <1>2. CASE PublishInsert
    <2>1. PICK row : row = [status |-> "pending", code |-> "", prev |-> ActiveVersion,
                            rules |-> job.rules, sets |-> SetsOf(subs)]
      OBVIOUS
    <2>2. /\ row \in Row /\ row.status = "pending" /\ row.rules = job.rules
          /\ versions' = Append(versions, row) /\ UNCHANGED <<domainRules, adopted>>
      BY <1>2, <2>1, NewRowTyped DEF IInv, PublishInsert, mosdns
    <2>3. proposed' = Append(proposed, job.rules) /\ job.rules \in RuleList
      BY <1>0, <2>2, ProposedIs DEF Row
    <2>4. ActivesOf(versions') = ActivesOf(versions)
      BY <1>0, <2>2, InsertedRow DEF ActivesOf
    <2>5. published' = published
      BY <2>2, <2>4, ActiveVersionIs, ActiveOfSame
    <2> QED
      BY <2>2, <2>3, <2>5 DEF Contract!Next, Contract!Propose
  <1>3. CASE CandidateMarked
    <2>1. PICK status \in {"unknown", "failed"}, code \in Codes : SetStatus(cand, status, code)
      BY <1>3 DEF CandidateMarked
    <2>2. cand \in DOMAIN versions /\ versions[cand].status \in {"pending", "unknown"}
      BY <1>3, CandidateFacts DEF CandidateMarked
    <2>3. /\ versions' \in Seq(Row) /\ Len(versions') = Len(versions)
          /\ DOMAIN versions' = DOMAIN versions
          /\ \A w \in DOMAIN versions : w # cand => versions'[w] = versions[w]
          /\ versions'[cand].status = status
          /\ versions'[cand].rules = versions[cand].rules
      BY <1>0, <2>1, <2>2, UpdatedRow DEF Statuses
    <2>4. proposed' = proposed
      BY <2>3
    <2>5. ActivesOf(versions') = ActivesOf(versions)
      BY <2>2, <2>3 DEF ActivesOf
    <2>6. published' = published /\ adopted' = adopted
      BY <1>3, <2>5, ActiveVersionIs, ActiveOfSame DEF CandidateMarked
    <2> QED
      BY <2>4, <2>6 DEF Contract!vars
  <1>4. CASE Finalize
    <2>1. pc \in Publishing /\ Activate(cand, job.rules) /\ adopted' = adopted /\ cand \in adopted
      BY <1>4 DEF Finalize, Publishing, mosdns, IInv, ActivatedWasServed
    <2>2. /\ cand \in DOMAIN versions /\ cand > ActiveVersion
          /\ versions[cand].status \in {"pending", "unknown"} /\ versions[cand].rules = job.rules
      BY <2>1, CandidateFacts
    <2>3. /\ DOMAIN versions' = DOMAIN versions
          /\ versions'[cand].status = "active"
          /\ \A w \in DOMAIN versions :
               /\ w # cand => versions'[w].status =
                    IF versions[w].status = "active" THEN "superseded" ELSE versions[w].status
               /\ versions'[w].rules = versions[w].rules
      BY <1>0, <2>1, <2>2, ActivatedRows
    <2>4. proposed' = proposed
      BY <2>3
    <2>5. ActivesOf(versions') = {cand}
      BY <2>2, <2>3 DEF ActivesOf
    <2>6. ActiveVersion' = cand
      BY <2>5, ActiveVersionIs, ActiveOfUnique
    <2>7. published' = [version |-> cand, rules |-> proposed[cand]]
      BY <2>1, <2>2, <2>6 DEF Activate
    <2>8. cand > published.version
      BY <2>2
    <2> QED
      BY <1>0, <2>1, <2>2, <2>4, <2>7, <2>8 DEF Contract!Next, Contract!Publish
  <1> QED
    BY <1>1, <1>2, <1>3, <1>4, LogWrites

\* The pipeline implements the contract of PublicationContract: administrators
\* see only rule lists the runtime has served, under numbers that only grow.
THEOREM PipelineKeepsContract == Spec => KeepsContract
  <1>1. Contract!Spec <=> Contract!Init /\ [][Contract!Next]_(Contract!vars)
    BY DEF Contract!Spec
  <1> QED
    BY <1>1, ContractInit, ContractStep, Inductive, PTL DEF Spec, KeepsContract
----------------------------------------------------------------------------
(* Compensation, when mosdns executes no request its client gave up on     *)

BeforeApply == {"VALIDATION_FAILED", "CHECKSUM_MISMATCH", "APPLY_FAILED",
                "APPLY_TIMEOUT_NOT_APPLIED"}

\* Where the worker has judged, or is bound to judge, that its candidate is not
\* being served.
JudgedUnserved ==
    \/ pc \in {"validate", "apply", "undo", "undo_binding"}
    \/ pc = "fail" /\ errCode \in BeforeApply
    \/ pc = "restore" /\ FailedBeforeApply(versions[cand])

\* No request is left behind, an operation that has no version yet has no
\* candidate, a candidate under compensation was never activated, and the
\* worker's judgement is right.
CompensationInv ==
    /\ inflight = {}
    /\ pc \in {"idle", "prepare"} => cand = 0
    /\ pc \in {"restore", "undo", "undo_binding"} /\ cand # 0 =>
         versions[cand].status \in {"pending", "unknown", "failed"}
    /\ JudgedUnserved /\ cand # 0 => runtime.version # cand

\* A runtime that serves the candidate's number serves the candidate's snapshot.
LEMMA ServedCandidate ==
    ASSUME IInv, cand # 0, runtime.version = cand
    PROVE  cand \in DOMAIN versions /\ runtime = Sent
  <1>1. runtime # NoSnapshot
    BY DEF NoSnapshot
  <1> QED
    BY <1>1 DEF IInv, ServedIsRecorded, Recorded, Sent

\* The worker's steps after the INSERT that leave the log and the runtime alone.
LEMMA CompensationQuiet ==
    ASSUME IInv, CompensationInv,
           \/ PublishRefused \/ PublishValidated \/ PublishInvalid \/ PublishRejected
           \/ PublishQuery /\ runtime # Sent
           \/ PublishQueryFails \/ FinalizeFails
           \/ Restore \/ RestoreBlind \/ RestoreUnread
           \/ Undo \/ UndoBinding \/ UndoFails \/ Crash
    PROVE  CompensationInv'
  <1>0. UNCHANGED <<versions, runtime, inflight>>
    BY WorkerOnlySteps DEF WorkerOnly, mosdns, IInv
  <1>1. CASE Return
    BY <1>0, <1>1 DEF Return, CompensationInv
  <1>2. pc \in {"query", "finalize"} => versions[cand].status \in {"pending", "unknown"}
    BY CandidateFacts DEF Publishing
  <1>3. CASE PublishRefused /\ ~Return
    BY <1>0, <1>3 DEF PublishRefused, PublishError, CompensationInv, JudgedUnserved
  <1>4. CASE PublishValidated
    BY <1>0, <1>4 DEF PublishValidated, Goto, CompensationInv, JudgedUnserved
  <1>5. CASE PublishInvalid
    BY <1>0, <1>5 DEF PublishInvalid, FailWith, CompensationInv, JudgedUnserved
  <1>6. CASE PublishRejected
    BY <1>0, <1>6 DEF PublishRejected, FailWith, CompensationInv, JudgedUnserved
  <1>7. CASE PublishQuery /\ runtime # Sent /\ ~Return
    <2>1. cand # 0 => runtime.version # cand
      BY <1>7, ServedCandidate
    <2> QED
      BY <1>0, <1>2, <1>7, <2>1 DEF PublishQuery, FailWith, PublishError, FailedBeforeApply,
                                    CompensationInv, JudgedUnserved
  <1>8. CASE (PublishQueryFails \/ FinalizeFails) /\ ~Return
    BY <1>0, <1>2, <1>8 DEF PublishQueryFails, FinalizeFails, PublishError, FailedBeforeApply,
                            CompensationInv, JudgedUnserved
  <1>9. CASE Restore /\ ~Return
    <2>1. cand # 0 => runtime # Sent
      BY <1>9 DEF Restore, MayUndo, Sent
    <2>2. cand # 0 => runtime.version # cand
      BY <2>1, ServedCandidate
    <2> QED
      BY <1>0, <1>9, <2>2 DEF Restore, Goto, CompensationInv, JudgedUnserved
  <1>10. CASE RestoreBlind /\ ~Return
    BY <1>0, <1>10 DEF RestoreBlind, Goto, CompensationInv, JudgedUnserved
  <1>11. CASE Undo /\ ~Return
    BY <1>0, <1>11 DEF Undo, Goto, CompensationInv, JudgedUnserved
  <1> QED
    BY <1>1, <1>3, <1>4, <1>5, <1>6, <1>7, <1>8, <1>9, <1>10, <1>11
       DEF RestoreUnread, UndoBinding, UndoFails, Crash

\* The writes of rule_versions: the new candidate's number is above everything
\* served, and a candidate is marked failed with the code it was judged by.
LEMMA CompensationWrites ==
    ASSUME IInv, CompensationInv,
           PublishInsert \/ PublishMarkUnknown \/ Finalize \/ Fail
    PROVE  CompensationInv'
  <1>0. UNCHANGED <<runtime, inflight>>
    BY DEF PublishInsert, PublishMarkUnknown, Finalize, Fail, mosdns
  <1>1. CASE PublishInsert
    <2>1. runtime.version # Len(versions) + 1
      <3>1. runtime.version = 0 \/ runtime.version \in DOMAIN versions
        BY DEF IInv, ServedIsRecorded, Recorded, NoSnapshot
      <3> QED
        BY <3>1, LogFacts DEF IInv
    <2>2. cand' = Len(versions) + 1 /\ pc' = "validate"
      BY <1>1 DEF PublishInsert, nextVersion
    <2> QED
      BY <1>0, <2>1, <2>2 DEF CompensationInv
  <1>2. CASE PublishMarkUnknown
    <2>1. pc' = "query"
      BY <1>2 DEF PublishMarkUnknown, Goto
    <2> QED
      BY <1>0, <2>1 DEF CompensationInv, JudgedUnserved
  <1>3. CASE Finalize
    <2>1. pc' \in {"idle", "prepare"} /\ cand' = 0
      BY <1>3 DEF Finalize, Return
    <2> QED
      BY <1>0, <2>1 DEF CompensationInv, JudgedUnserved
  <1>4. CASE Fail
    <2>1. CASE Return
      BY <1>0, <2>1 DEF Return, CompensationInv
    <2>2. CASE ~Return
      <3>1. pc = "fail" /\ pc' = "restore" /\ cand' = cand
        BY <1>4, <2>2 DEF Fail, PublishError
      <3>2. /\ cand \in DOMAIN versions /\ versions[cand].status \in {"pending", "unknown"}
            /\ errCode \in Codes /\ versions \in Seq(Row)
        BY <3>1, CandidateFacts DEF Publishing, IInv, TypeOK
      <3>3. CASE SetStatus(cand, "failed", errCode)
        <4>1. versions'[cand].status = "failed" /\ versions'[cand].code = errCode
          BY <3>2, <3>3, UpdatedRow DEF Statuses
        <4>2. JudgedUnserved' => errCode \in BeforeApply
          BY <3>1, <4>1 DEF JudgedUnserved, FailedBeforeApply, BeforeApply
        <4> QED
          BY <1>0, <3>1, <4>1, <4>2 DEF CompensationInv, JudgedUnserved
      <3>4. CASE UNCHANGED versions
        BY <1>0, <3>1, <3>2, <3>4 DEF CompensationInv, JudgedUnserved, FailedBeforeApply
      <3> QED
        BY <1>4, <3>3, <3>4 DEF Fail
    <2> QED
      BY <2>1, <2>2
  <1> QED
    BY <1>1, <1>2, <1>3, <1>4

\* The steps in which the runtime moves: it adopts what is being sent, or it
\* restarts onto nothing or onto a superseded version.
LEMMA CompensationRuntime ==
    ASSUME "late" \notin FaultKinds, IInv, CompensationInv,
           \/ PublishApplied \/ PublishReplyLost \/ PublishBadReply \/ PublishUnanswered
           \/ PublishQuery /\ runtime = Sent
           \/ Runtime
    PROVE  CompensationInv'
  <1>1. CASE PublishApplied \/ PublishReplyLost \/ (PublishQuery /\ runtime = Sent)
    <2>1. pc' \in {"finalize", "unknown"} /\ inflight' = inflight
      BY <1>1 DEF PublishApplied, PublishReplyLost, PublishQuery, Goto, mosdns
    <2> QED
      BY <2>1 DEF CompensationInv, JudgedUnserved
  <1>2. CASE PublishUnanswered
    <2>1. pc' = "unknown" /\ inflight' = inflight
      BY <1>2 DEF PublishUnanswered, Goto, Fault
    <2> QED
      BY <2>1 DEF CompensationInv, JudgedUnserved
  <1>3. CASE PublishBadReply
    <2>1. pc' = "fail" /\ errCode' = "APPLY_RESPONSE_INVALID" /\ inflight' = inflight
      BY <1>3 DEF PublishBadReply, FailWith
    <2> QED
      BY <2>1 DEF CompensationInv, JudgedUnserved, BeforeApply
  <1>4. CASE Runtime
    <2>1. /\ UNCHANGED <<versions, pc, cand, errCode>> /\ inflight' = {}
          /\ RuntimeLoses \/ RuntimeRegresses
      BY <1>4 DEF Runtime, RuntimeLoses, RuntimeRegresses, db, worker, CompensationInv
    <2>2. JudgedUnserved /\ cand # 0 =>
            cand \in DOMAIN versions /\ versions[cand].status \in {"pending", "unknown", "failed"}
      <3>1. cand # 0 => cand \in DOMAIN versions
        BY LogFacts DEF IInv, TypeOK
      <3>2. pc \in {"validate", "apply", "fail"} => versions[cand].status \in {"pending", "unknown"}
        BY CandidateFacts DEF Publishing
      <3> QED
        BY <3>1, <3>2 DEF JudgedUnserved, CompensationInv
    <2>3. CASE RuntimeLoses
      <3>1. runtime'.version = 0
        BY <2>3 DEF RuntimeLoses, NoSnapshot
      <3> QED
        BY <2>1, <3>1 DEF CompensationInv, JudgedUnserved
    <2>4. CASE RuntimeRegresses
      <3>1. PICK v \in DOMAIN versions :
              versions[v].status = "superseded" /\ runtime' = Snapshot(v, versions[v])
        BY <2>4 DEF RuntimeRegresses
      <3>2. runtime'.version = v
        BY <3>1 DEF Snapshot
      <3> QED
        BY <2>1, <2>2, <3>1, <3>2 DEF CompensationInv, JudgedUnserved
    <2> QED
      BY <2>1, <2>3, <2>4
  <1> QED
    BY <1>1, <1>2, <1>3, <1>4

\* Every step keeps the compensation invariant.
LEMMA CompensationStep ==
    ASSUME "late" \notin FaultKinds, IInv, CompensationInv, [Next]_vars
    PROVE  CompensationInv'
  <1>1. CASE AdminOperation \/ ReconcileRepublish
    <2>1. pc = "idle" /\ pc' = "prepare" /\ cand' = cand /\ inflight' = inflight
      BY <1>1 DEF AdminOperation, EditRules, Rollback, createSubscription, RefreshSubscription,
                  SetSubscriptionEnabled, UpdateSubscriptionBinding, DeleteSubscription,
                  WriteSource, ReconcileRepublish, Start, mosdns
    <2> QED
      BY <2>1 DEF CompensationInv, JudgedUnserved
  <1>2. CASE ReconcileMatch
    BY <1>2 DEF ReconcileMatch, mosdns, CompensationInv, JudgedUnserved
  <1>3. CASE ReconcileRest \/ UNCHANGED vars
    BY <1>3 DEF ReconcileRest, vars, db, worker, mosdns, CompensationInv, JudgedUnserved
  <1>4. CASE PublishQuery
    BY <1>4, CompensationQuiet, CompensationRuntime
  <1> QED
    BY <1>1, <1>2, <1>3, <1>4, CompensationQuiet, CompensationWrites, CompensationRuntime
       DEF Next, WorkerStep, Reconcile

\* A runtime that never executes a request its client gave up on, but may lose
\* answers, reject, restart or answer nonsense: restoreSubscriptionMutation
\* never undoes the source change of a version that is being served.
THEOREM UndoneNeverServed ==
    ASSUME "late" \notin FaultKinds
    PROVE  Spec => []UndoneIsNotServed
  <1>1. Init => CompensationInv
    BY DEF Init, CompensationInv, JudgedUnserved
  <1>2. IInv /\ CompensationInv /\ [Next]_vars => CompensationInv'
    BY CompensationStep
  <1>3. CompensationInv => UndoneIsNotServed
    BY DEF CompensationInv, JudgedUnserved, UndoneIsNotServed
  <1> QED
    BY <1>1, <1>2, <1>3, Inductive, PTL DEF Spec

----------------------------------------------------------------------------
(* What is served ahead of the active version, when moreover every 200 of  *)
(* mosdns carries the acknowledgement the client expects                   *)

\* At every moment, inside an operation too, a version served ahead of the
\* active one is an open candidate; fail() is reached only with a code that
\* tells the candidate was not applied; superseded versions are behind.
OpenInv ==
    /\ runtime.version > ActiveVersion => runtime.version \in Candidates
    /\ pc = "fail" => errCode \in BeforeApply
    /\ \A v \in DOMAIN versions : versions[v].status = "superseded" => v < ActiveVersion

\* A step that leaves the log and what is served alone.
LEMMA OpenQuiet ==
    ASSUME OpenInv, UNCHANGED <<versions, runtime>>,
           pc' = "fail" => errCode' \in BeforeApply
    PROVE  OpenInv'
  <1>1. ActiveVersion' = ActiveVersion /\ Candidates' = Candidates
    BY DEF ActiveVersion, Actives, Candidates
  <1> QED
    BY <1>1 DEF OpenInv

\* The steps of that kind.
LEMMA OpenQuietSteps ==
    ASSUME IInv, OpenInv,
           \/ AdminOperation \/ Reconcile
           \/ PublishRefused \/ PublishValidated \/ PublishInvalid \/ PublishRejected
           \/ PublishUnanswered \/ PublishQuery \/ PublishQueryFails \/ FinalizeFails
           \/ Restore \/ RestoreBlind \/ RestoreUnread
           \/ Undo \/ UndoBinding \/ UndoFails \/ Crash
           \/ UNCHANGED vars
    PROVE  OpenInv'
  <1>1. UNCHANGED <<versions, runtime>>
    <2>1. CASE \/ PublishRefused \/ PublishValidated \/ PublishInvalid \/ PublishRejected
               \/ PublishQueryFails \/ FinalizeFails
               \/ Restore \/ RestoreBlind \/ RestoreUnread
               \/ Undo \/ UndoBinding \/ UndoFails \/ Crash
      BY <2>1, WorkerOnlySteps DEF WorkerOnly, mosdns, IInv
    <2>2. CASE AdminOperation
      BY <2>2 DEF AdminOperation, EditRules, Rollback, createSubscription, RefreshSubscription,
                  SetSubscriptionEnabled, UpdateSubscriptionBinding, DeleteSubscription,
                  WriteSource, Start, db, mosdns
    <2>3. CASE Reconcile
      BY <2>3 DEF Reconcile, ReconcileMatch, ReconcileRepublish, ReconcileRest, Start,
                  vars, db, mosdns
    <2>4. CASE PublishUnanswered \/ PublishQuery \/ UNCHANGED vars
      BY <2>4 DEF PublishUnanswered, PublishQuery, vars, db, mosdns
    <2> QED
      BY <2>1, <2>2, <2>3, <2>4
  <1>2. pc' = "fail" => errCode' \in BeforeApply
    <2>1. CASE AdminOperation \/ Reconcile
      BY <2>1 DEF AdminOperation, EditRules, Rollback, createSubscription, RefreshSubscription,
                  SetSubscriptionEnabled, UpdateSubscriptionBinding, DeleteSubscription,
                  WriteSource, Start, Reconcile, ReconcileMatch, ReconcileRepublish,
                  ReconcileRest, vars, worker
    <2>2. CASE PublishInvalid \/ PublishRejected \/ PublishQuery
      BY <2>2 DEF PublishInvalid, PublishRejected, PublishQuery, FailWith, Goto, PublishError,
                  Return, BeforeApply
    <2>3. CASE \/ PublishRefused \/ PublishValidated \/ PublishUnanswered
               \/ PublishQueryFails \/ FinalizeFails
               \/ Restore \/ RestoreBlind \/ RestoreUnread
               \/ Undo \/ UndoBinding \/ UndoFails \/ Crash
      BY <2>3 DEF PublishRefused, PublishValidated, PublishUnanswered, PublishQueryFails,
                  FinalizeFails, Restore, RestoreBlind, RestoreUnread, Undo, UndoBinding,
                  UndoFails, Crash, Goto, PublishError, Return
    <2>4. CASE UNCHANGED vars
      BY <2>4 DEF vars, worker, OpenInv
    <2> QED
      BY <2>1, <2>2, <2>3, <2>4
  <1> QED
    BY <1>1, <1>2, OpenQuiet

\* A step that gives one row that is not active, new or the candidate's, the
\* status of an open candidate or, when it is not served, failed.
LEMMA OpenWrite ==
    ASSUME TypeOK, OpenInv, runtime' = runtime, pc' # "fail", NEW v,
           DOMAIN versions' = DOMAIN versions \cup {v},
           \A w \in DOMAIN versions : w # v => versions'[w] = versions[w],
           v \in DOMAIN versions => versions[v].status # "active",
           \/ versions'[v].status \in {"pending", "unknown"}
           \/ versions'[v].status = "failed" /\ runtime.version # v
    PROVE  OpenInv'
  <1>1. ActivesOf(versions') = ActivesOf(versions)
    BY DEF ActivesOf
  <1>2. ActiveVersion' = ActiveVersion
    BY <1>1, ActiveVersionIs, ActiveOfSame
  <1>3. runtime.version \in Candidates => runtime.version \in Candidates'
    BY DEF Candidates
  <1>4. \A w \in DOMAIN versions' : versions'[w].status = "superseded" =>
          w \in DOMAIN versions /\ versions[w].status = "superseded"
    OBVIOUS
  <1> QED
    BY <1>2, <1>3, <1>4 DEF OpenInv

\* PublishInsert, PublishMarkUnknown and Fail.
LEMMA OpenMarks ==
    ASSUME IInv, CompensationInv, OpenInv, PublishInsert \/ PublishMarkUnknown \/ Fail
    PROVE  OpenInv'
  <1>0. TypeOK /\ versions \in Seq(Row)
    BY DEF IInv, TypeOK
  <1>1. runtime' = runtime /\ pc' # "fail"
    BY DEF PublishInsert, PublishMarkUnknown, Fail, Goto, PublishError, Return, mosdns
  <1>2. CASE PublishInsert
    <2>1. PICK row : row = [status |-> "pending", code |-> "", prev |-> ActiveVersion,
                            rules |-> job.rules, sets |-> SetsOf(subs)]
      OBVIOUS
    <2>2. row \in Row /\ row.status = "pending" /\ versions' = Append(versions, row)
      BY <1>0, <1>2, <2>1, NewRowTyped DEF PublishInsert
    <2>3. /\ DOMAIN versions' = DOMAIN versions \cup {Len(versions) + 1}
          /\ \A v \in DOMAIN versions : versions'[v] = versions[v]
          /\ versions'[Len(versions) + 1] = row
      BY <1>0, <2>2, InsertedRow
    <2>4. Len(versions) + 1 \notin DOMAIN versions
      BY <1>0, LogFacts
    <2>5. PICK v : v = Len(versions) + 1
      OBVIOUS
    <2> QED
      BY <1>0, <1>1, <2>2, <2>3, <2>4, <2>5, OpenWrite
  <1>3. CASE (PublishMarkUnknown \/ Fail) /\ versions' = versions
    BY <1>1, <1>3, OpenQuiet
  <1>4. ASSUME NEW status \in {"unknown", "failed"}, NEW code \in Codes,
               SetStatus(cand, status, code), pc \in Publishing,
               status = "failed" => runtime.version # cand
        PROVE  OpenInv'
    <2>1. PICK v : v = cand
      OBVIOUS
    <2>2. v \in DOMAIN versions /\ versions[v].status \in {"pending", "unknown"}
      BY <1>4, <2>1, CandidateFacts
    <2>3. /\ DOMAIN versions' = DOMAIN versions
          /\ \A w \in DOMAIN versions : w # v => versions'[w] = versions[w]
          /\ versions'[v].status = status
      BY <1>0, <1>4, <2>1, <2>2, UpdatedRow DEF Statuses
    <2>4. DOMAIN versions' = DOMAIN versions \cup {v}
      BY <2>2, <2>3
    <2> QED
      BY <1>0, <1>1, <1>4, <2>1, <2>2, <2>3, <2>4, OpenWrite
  <1>5. CASE PublishMarkUnknown /\ versions' # versions
    BY <1>4, <1>5 DEF PublishMarkUnknown, Publishing, Codes
  <1>6. CASE Fail /\ versions' # versions
    <2>1. pc = "fail" /\ errCode \in BeforeApply /\ errCode \in Codes /\ pc \in Publishing
      BY <1>0, <1>6 DEF Fail, OpenInv, TypeOK, Publishing
    <2>2. runtime.version # cand
      BY <2>1, CandidateFacts DEF CompensationInv, JudgedUnserved
    <2> QED
      BY <1>4, <1>6, <2>1, <2>2 DEF Fail
  <1> QED
    BY <1>2, <1>3, <1>5, <1>6

\* Finalize: what is served beyond the version being activated stays open.
LEMMA OpenFinalize ==
    ASSUME IInv, OpenInv, Finalize
    PROVE  OpenInv'
  <1>1. pc \in Publishing /\ Activate(cand, job.rules) /\ runtime' = runtime /\ pc' # "fail"
    BY DEF Finalize, Publishing, Return, mosdns
  <1>2. /\ cand \in DOMAIN versions /\ cand \in Nat /\ cand > ActiveVersion
        /\ ActiveVersion \in Nat /\ versions[cand].status \in {"pending", "unknown"}
    BY <1>1, CandidateFacts
  <1>3. /\ DOMAIN versions' = DOMAIN versions
        /\ versions'[cand].status = "active"
        /\ \A w \in DOMAIN versions : w # cand => versions'[w].status =
             IF versions[w].status = "active" THEN "superseded" ELSE versions[w].status
    BY <1>1, <1>2, ActivatedRows DEF IInv, TypeOK
  <1>4. ActivesOf(versions') = {cand}
    BY <1>2, <1>3 DEF ActivesOf
  <1>5. ActiveVersion' = cand
    BY <1>4, ActiveVersionIs, ActiveOfUnique
  <1>6. runtime.version \in Nat
    BY DEF IInv, TypeOK, SnapshotType
  <1>7. runtime.version > cand => runtime.version \in Candidates'
    <2> SUFFICES ASSUME runtime.version > cand PROVE runtime.version \in Candidates'
      OBVIOUS
    <2>1. runtime.version \in Candidates /\ runtime.version # cand
      BY <1>2, <1>6 DEF OpenInv
    <2> QED
      BY <1>3, <2>1 DEF Candidates
  <1>8. ASSUME NEW v \in DOMAIN versions, versions'[v].status = "superseded"
        PROVE  v < cand
    <2>1. v # cand /\ v \in Nat
      BY <1>3, <1>8, LogFacts DEF IInv
    <2>2. CASE versions[v].status = "superseded"
      BY <1>2, <2>1, <2>2 DEF OpenInv
    <2>3. CASE versions[v].status = "active"
      <3>1. v \in Actives /\ ActiveVersion \in Actives
        BY <2>3, ActiveVersionRange DEF Actives, IInv, TypeOK
      <3>2. v = ActiveVersion
        BY <3>1 DEF IInv, ActiveOwnsRules
      <3> QED
        BY <1>2, <3>2
    <2> QED
      BY <1>3, <1>8, <2>1, <2>2, <2>3
  <1> QED
    BY <1>1, <1>3, <1>5, <1>7, <1>8 DEF OpenInv

\* The steps in which the runtime moves.
LEMMA OpenRuntime ==
    ASSUME "invalid" \notin FaultKinds, IInv, CompensationInv, OpenInv,
           PublishApplied \/ PublishReplyLost \/ PublishBadReply \/ Runtime
    PROVE  OpenInv'
  <1>1. versions' = versions
    BY DEF PublishApplied, PublishReplyLost, PublishBadReply, Runtime, LateApply, RuntimeLoses,
           RuntimeRegresses, db
  <1>2. ActiveVersion' = ActiveVersion /\ Candidates' = Candidates /\ ActiveVersion \in Nat
    BY <1>1, LogFacts DEF ActiveVersion, Actives, Candidates, IInv
  <1>3. CASE PublishApplied \/ PublishReplyLost
    <2>1. pc \in Publishing /\ runtime' = Sent /\ pc' # "fail"
      BY <1>3 DEF PublishApplied, PublishReplyLost, Adopt, Goto, Publishing
    <2>2. runtime'.version = cand /\ cand \in Candidates
      BY <2>1, CandidateFacts DEF Candidates
    <2> QED
      BY <1>1, <1>2, <2>1, <2>2 DEF OpenInv
  <1>4. CASE PublishBadReply
    BY <1>4 DEF PublishBadReply, Fault
  <1>5. CASE Runtime
    <2>1. pc' = pc /\ errCode' = errCode /\ (RuntimeLoses \/ RuntimeRegresses)
      BY <1>5 DEF Runtime, RuntimeLoses, RuntimeRegresses, worker, CompensationInv
    <2>2. ~(runtime'.version > ActiveVersion)
      <3>1. CASE RuntimeLoses
        BY <1>2, <3>1 DEF RuntimeLoses, NoSnapshot
      <3>2. CASE RuntimeRegresses
        <4>1. PICK v \in DOMAIN versions :
                versions[v].status = "superseded" /\ runtime' = Snapshot(v, versions[v])
          BY <3>2 DEF RuntimeRegresses
        <4>2. runtime'.version = v /\ v < ActiveVersion /\ v \in Nat
          BY <4>1, LogFacts DEF Snapshot, OpenInv, IInv
        <4> QED
          BY <1>2, <4>2
      <3> QED
        BY <2>1, <3>1, <3>2
    <2> QED
      BY <1>1, <1>2, <2>1, <2>2 DEF OpenInv
  <1> QED
    BY <1>3, <1>4, <1>5

\* Under these assumptions no outcome of Apply is misjudged as a failure:
\* whatever mosdns serves ahead of the active version between operations is a
\* candidate that Reconcile will match.
THEOREM ServedStaysOpen ==
    ASSUME "late" \notin FaultKinds, "invalid" \notin FaultKinds
    PROVE  Spec => []ServedIsOpen
  <1>1. Init => CompensationInv /\ OpenInv
    <2> SUFFICES ASSUME Init PROVE CompensationInv /\ OpenInv
      OBVIOUS
    <2>1. versions = <<>> /\ DOMAIN versions = {} /\ runtime.version = 0
      <3>1. DOMAIN <<>> = {}
        OBVIOUS
      <3> QED
        BY <3>1 DEF Init, NoSnapshot
    <2>2. ActiveVersion = 0 /\ ~(0 > 0)
      BY <2>1 DEF ActiveVersion, Actives
    <2>3. OpenInv
      BY <2>1, <2>2 DEF Init, OpenInv
    <2>4. CompensationInv
      BY DEF Init, CompensationInv, JudgedUnserved
    <2> QED
      BY <2>3, <2>4
  <1>2. IInv /\ CompensationInv /\ [Next]_vars => CompensationInv'
    BY CompensationStep
  <1>3. IInv /\ CompensationInv /\ OpenInv /\ [Next]_vars => OpenInv'
    BY OpenQuietSteps, OpenMarks, OpenFinalize, OpenRuntime DEF Next, WorkerStep
  <1>4. OpenInv => ServedIsOpen
    BY DEF OpenInv, ServedIsOpen
  <1> QED
    BY <1>1, <1>2, <1>3, <1>4, Inductive, PTL DEF Spec

=============================================================================
