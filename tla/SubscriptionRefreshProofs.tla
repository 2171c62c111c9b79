---------------------- MODULE SubscriptionRefreshProofs ----------------------
(***************************************************************************)
(* Proofs about SubscriptionRefresh, for any subscriptions, bodies,        *)
(* requests and bounds.  First shapes, with the row that is being          *)
(* published; then the stamps, which tell an attempt whether the row is    *)
(* still the one it has read.                                              *)
(***************************************************************************)
EXTENDS SubscriptionRefresh, TLAPS

----------------------------------------------------------------------------
(* Shapes                                                                  *)

\* What an operation has written over what it found.
Wrote(m) ==
    /\ m.kind = "create" => m.before = Absent /\ m.stored \in Row
    /\ m.kind = "delete" => m.before \in Row /\ m.stored = Absent
    /\ m.kind = "enabled" =>
         /\ m.before \in Row /\ m.stored \in Row
         /\ m.before = [m.stored EXCEPT !.enabled = m.before.enabled, !.stamp = m.before.stamp]
    /\ m.kind = "refresh" => /\ m.before \in Row /\ m.stored \in Row
                             /\ m.stored.enabled = m.before.enabled
    /\ m.kind # "refresh" => m.by = {}

Tables ==
    /\ row \in [Subs -> Row \cup {Absent}]
    /\ created \subseteq Subs /\ \A s \in Subs : Exists(s) => s \in created
    /\ todo \subseteq created
    /\ clock \in Nat /\ attempts \in Nat

Calls == call \in [Refreshers -> Call]

\* Whoever publishes holds the lock, and the row is the one that was stored.
Held ==
    /\ mu \in Holder \cup {Free}
    /\ \A r \in Refreshers : call[r].pc = "publish" <=> mu # Free /\ r \in mu.by
    /\ mu # Free => Wrote(mu) /\ row[mu.sub] = mu.stored /\ mu.sub \in created

Shapes == Tables /\ Calls /\ Held

\* The pc tells which fields a call has.
LEMMA CallKinds ==
    ASSUME Calls, NEW r \in Refreshers
    PROVE  /\ call[r].pc = "download" => call[r] \in DownloadCall
           /\ call[r].pc = "failure" => call[r] \in FailureCall
           /\ call[r].pc \in {"store", "publish"} => call[r] \in StoreCall
           /\ call[r].pc = "idle" => call[r] = NoCall
           /\ call[r].pc \in {"idle", "download", "store", "failure", "publish"}
           /\ call[r].pc # "idle" =>
                call[r].sub \in Subs /\ call[r].stamp \in Nat /\ call[r].attempt \in Nat
  BY DEF Calls, Call, NoCall, DownloadCall, FailureCall, StoreCall

\* The free lock is not held by anyone.
LEMMA FreeOrHeld ==
    ASSUME Held
    PROVE  /\ mu # Free => mu \in Holder
           /\ mu = Free => \A r \in Refreshers : call[r].pc # "publish"
           /\ \A m \in Holder : m # Free
  BY DEF Held, Holder, Free, Kinds

\* The stamp of a changed row.
LEMMA RenewedStamp ==
    ASSUME Tables, NEW s \in Subs, Exists(s)
    PROVE  /\ row[s] \in Row /\ row[s].stamp \in Nat /\ row[s].attempt \in Nat
           /\ Renewed(s) \in Nat /\ Renewed(s) > row[s].stamp /\ Renewed(s) >= clock
           /\ Renewed(s) = IF clock <= row[s].stamp THEN row[s].stamp + 1 ELSE clock
  <1>1. row[s] \in Row /\ clock \in Nat BY DEF Tables, Exists
  <1>2. row[s].stamp \in Nat /\ row[s].attempt \in Nat BY <1>1 DEF Row
  <1> QED BY <1>1, <1>2 DEF Renewed

\* The rows that an attempt writes.
LEMMA WrittenRows ==
    ASSUME Tables, Calls, NEW r \in Refreshers, NEW s \in Subs, Exists(s)
    PROVE  /\ call[r].pc = "failure" =>
                /\ FailedRow(r, s) \in Row /\ FailedRow(r, s).stamp = Renewed(s)
                /\ FailedRow(r, s).attempt = call[r].attempt
           /\ call[r].pc = "store" =>
                /\ CheckedRow(r, s) \in Row /\ CheckedRow(r, s).stamp = Renewed(s)
                /\ CheckedRow(r, s).attempt = call[r].attempt
                /\ CheckedRow(r, s).enabled = row[s].enabled
  <1>1. row[s] \in Row /\ Renewed(s) \in Nat BY RenewedStamp
  <1>2. CASE call[r].pc = "failure"
    <2>1. call[r].attempt \in Nat BY <1>2, CallKinds
    <2> QED BY <1>1, <1>2, <2>1 DEF FailedRow, Row
  <1>3. CASE call[r].pc = "store"
    <2>1. call[r].attempt \in Nat /\ call[r].body \in Bodies BY <1>3, CallKinds DEF StoreCall
    <2> QED BY <1>1, <1>3, <2>1 DEF CheckedRow, Row
  <1> QED BY <1>2, <1>3

----------------------------------------------------------------------------
(* What a step does                                                        *)

\* One call goes on; nothing is written.
LEMMA CallStep ==
    ASSUME Shapes, NEW r \in Refreshers, NEW c \in Call,
           call' = [call EXCEPT ![r] = c], c.pc # "publish", call[r].pc # "publish",
           clock' \in {clock, clock + 1}, attempts' \in {attempts, attempts + 1},
           todo' \subseteq todo, UNCHANGED <<row, created, mu>>
    PROVE  Shapes'
  <1>1. Tables' BY DEF Shapes, Tables, Exists
  <1>2. Calls' BY DEF Shapes, Calls
  <1>3. call'[r] = c /\ \A q \in Refreshers \ {r} : call'[q] = call[q] BY DEF Shapes, Calls
  <1>4. Held' BY <1>3 DEF Shapes, Held
  <1> QED BY <1>1, <1>2, <1>4 DEF Shapes

\* One row is written with the lock free, and the call that did it ends.
LEMMA RecordStep ==
    ASSUME Shapes, NEW r \in Refreshers, mu = Free, NEW s \in Subs, Exists(s),
           NEW x \in Row, row' = [row EXCEPT ![s] = x],
           call' = [call EXCEPT ![r] = NoCall],
           UNCHANGED <<created, mu, todo, clock, attempts>>
    PROVE  Shapes'
  <1>1. Tables' BY RefreshAssumption DEF Shapes, Tables, Exists, RefreshAssumption
  <1>2. NoCall \in Call /\ NoCall.pc # "publish" BY DEF Call, NoCall
  <1>3. Calls' BY <1>2 DEF Shapes, Calls
  <1>4. call'[r] = NoCall /\ \A q \in Refreshers \ {r} : call'[q] = call[q]
    BY DEF Shapes, Calls
  <1>5. Held' BY <1>2, <1>4 DEF Shapes, Held
  <1> QED BY <1>1, <1>3, <1>5 DEF Shapes

\* One row is written and is going to be published.
LEMMA PublishingStep ==
    ASSUME Shapes, mu = Free, NEW kind \in Kinds, NEW s \in Subs, NEW by \in SUBSET Refreshers,
           NEW x \in Row \cup {Absent}, row' = [row EXCEPT ![s] = x], Publishing(kind, s, by),
           created \subseteq created', created' \subseteq Subs, s \in created',
           UNCHANGED todo, clock' = clock, attempts' \in Nat,
           Calls', \A r \in Refreshers : call'[r].pc = "publish" <=> r \in by,
           Wrote([kind |-> kind, sub |-> s, by |-> by, before |-> row[s], stored |-> x])
    PROVE  Shapes'
  <1>1. row'[s] = x /\ \A t \in Subs \ {s} : row'[t] = row[t] BY DEF Shapes, Tables
  <1>2. Tables' BY <1>1 DEF Shapes, Tables, Exists
  <1> DEFINE m == [kind |-> kind, sub |-> s, by |-> by, before |-> row[s], stored |-> x]
  <1>3. mu' = m BY <1>1 DEF Publishing
  <1>4. m \in Holder /\ m.sub = s /\ m.by = by /\ m.stored = x BY DEF Shapes, Tables, Holder
  <1> HIDE DEF m
  <1>5. m # Free BY <1>4, FreeOrHeld DEF Shapes
  <1>6. Wrote(m) BY DEF m
  <1>7. Held' BY <1>1, <1>3, <1>4, <1>5, <1>6 DEF Held
  <1> QED BY <1>2, <1>7 DEF Shapes

\* The lock is given back.
LEMMA UnlockStep ==
    ASSUME Shapes, row' \in [Subs -> Row \cup {Absent}],
           \A s \in Subs : row'[s] # Absent => s \in created,
           UNCHANGED <<created, attempts>>, todo' \in {todo, {}}, clock' = clock + 1, mu' = Free,
           \/ call' = [r \in Refreshers |-> NoCall]
           \/ mu # Free /\ call' = [r \in Refreshers |-> IF r \in mu.by THEN NoCall ELSE call[r]]
    PROVE  Shapes'
  <1>1. Tables' BY DEF Shapes, Tables, Exists
  <1>2. NoCall \in Call /\ NoCall.pc # "publish" BY DEF Call, NoCall
  <1>3. Calls' BY <1>2 DEF Shapes, Calls
  <1>4. \A r \in Refreshers : call'[r].pc # "publish" BY <1>2 DEF Shapes, Held
  <1>5. Held' BY <1>4 DEF Held
  <1> QED BY <1>1, <1>3, <1>5 DEF Shapes

----------------------------------------------------------------------------
(* Every step keeps the shapes                                             *)

\* A refresh begins.
LEMMA BeginShapes ==
    ASSUME Shapes, NEW r \in Refreshers, NEW s \in Subs, call[r] = NoCall, Exists(s),
           Begin(r, s), UNCHANGED <<row, created, mu, clock>>, todo' \subseteq todo
    PROVE  Shapes'
  <1> DEFINE c == [pc |-> "download", sub |-> s, stamp |-> row[s].stamp, attempt |-> attempts + 1]
  <1>1. c \in Call /\ c.pc # "publish" BY RenewedStamp DEF Call, DownloadCall, Shapes, Tables
  <1>2. call' = [call EXCEPT ![r] = c] /\ attempts' = attempts + 1 BY DEF Begin
  <1>3. call[r].pc # "publish" BY DEF NoCall
  <1> HIDE DEF c
  <1> QED BY <1>1, <1>2, <1>3, CallStep

\* A download ends.
LEMMA DownloadShapes ==
    ASSUME Shapes, NEW r \in Refreshers, NEW body \in Bodies \cup {Failure}, Download(r, body)
    PROVE  Shapes'
  <1> DEFINE c == [pc |-> IF body = Failure THEN "failure" ELSE "store", sub |-> call[r].sub,
                   stamp |-> call[r].stamp, attempt |-> call[r].attempt, body |-> body]
  <1>1. call[r].pc = "download" /\ call' = [call EXCEPT ![r] = c] BY DEF Download
  <1>2. call[r].sub \in Subs /\ call[r].stamp \in Nat /\ call[r].attempt \in Nat
    BY <1>1, CallKinds DEF Shapes
  <1>3. c \in Call /\ c.pc # "publish"
    <2>1. CASE body = Failure BY <1>2, <2>1 DEF Call, FailureCall
    <2>2. CASE body # Failure BY <1>2, <2>2 DEF Call, StoreCall
    <2> QED BY <2>1, <2>2
  <1> HIDE DEF c
  <1> QED BY <1>1, <1>3, CallStep DEF Download

\* An attempt ends in a conflict or is recorded.
LEMMA RecordShapes ==
    ASSUME Shapes, NEW r \in Refreshers,
           Conflict(r) \/ subscriptionFailure(r) \/ StoreSame(r)
    PROVE  Shapes'
  <1>1. CASE Conflict(r)
    <2>1. NoCall \in Call /\ NoCall.pc # "publish" BY DEF Call, NoCall
    <2> QED BY <1>1, <2>1, CallStep DEF Conflict
  <1>2. CASE subscriptionFailure(r)
    <2>1. call[r].sub \in Subs /\ Exists(call[r].sub) /\ call[r].pc = "failure" /\ mu = Free
      BY <1>2, CallKinds DEF subscriptionFailure, Current, Shapes, FailureLock, Lock
    <2>2. FailedRow(r, call[r].sub) \in Row BY <2>1, WrittenRows DEF Shapes
    <2> QED BY <1>2, <2>1, <2>2, RecordStep DEF subscriptionFailure
  <1>3. CASE StoreSame(r)
    <2>1. call[r].sub \in Subs /\ Exists(call[r].sub) /\ call[r].pc = "store" /\ mu = Free
      BY <1>3, CallKinds DEF StoreSame, Current, Shapes, Lock
    <2>2. CheckedRow(r, call[r].sub) \in Row BY <2>1, WrittenRows DEF Shapes
    <2> QED BY <1>3, <2>1, <2>2, RecordStep DEF StoreSame
  <1> QED BY <1>1, <1>2, <1>3

\* A changed source is stored and published.
LEMMA StoreNewShapes ==
    ASSUME Shapes, NEW r \in Refreshers, StoreNew(r)
    PROVE  Shapes'
  <1> DEFINE s == call[r].sub
             x == CheckedRow(r, s)
  <1>1. s \in Subs /\ Exists(s) /\ call[r].pc = "store" /\ mu = Free /\ call[r] \in StoreCall
    BY CallKinds DEF StoreNew, Current, Shapes, Lock
  <1>2. x \in Row /\ x.enabled = row[s].enabled /\ row[s] \in Row
    BY <1>1, WrittenRows, RenewedStamp DEF Shapes
  <1>3. /\ row' = [row EXCEPT ![s] = x] /\ Publishing("refresh", s, {r})
        /\ call' = [call EXCEPT ![r].pc = "publish"]
        /\ UNCHANGED <<created, todo, clock, attempts>>
    BY DEF StoreNew
  <1>4. [call[r] EXCEPT !.pc = "publish"] \in StoreCall
        /\ [call[r] EXCEPT !.pc = "publish"].pc = "publish"
    BY <1>1 DEF StoreCall
  <1>5. /\ call' \in [Refreshers -> Call] /\ call'[r].pc = "publish"
        /\ \A q \in Refreshers \ {r} : call'[q] = call[q]
    BY <1>3, <1>4 DEF Shapes, Calls, Call
  <1>6. \A q \in Refreshers : call'[q].pc = "publish" <=> q \in {r}
    BY <1>1, <1>5, FreeOrHeld DEF Shapes
  <1> HIDE DEF x, s
  <1> DEFINE m == [kind |-> "refresh", sub |-> s, by |-> {r}, before |-> row[s], stored |-> x]
  <1>7. Wrote(m) BY <1>2 DEF Wrote
  <1> HIDE DEF m
  <1>8. "refresh" \in Kinds /\ s \in created /\ {r} \in SUBSET Refreshers
    BY <1>1 DEF Kinds, Shapes, Tables
  <1>9. attempts' \in Nat /\ Calls' /\ created \subseteq Subs
    BY <1>3, <1>5 DEF Calls, Shapes, Tables
  <1> QED BY <1>1, <1>2, <1>3, <1>6, <1>7, <1>8, <1>9, PublishingStep DEF m

\* Operations of the administrator.
LEMMA AdminShapes ==
    ASSUME Shapes, NEW s \in Subs,
           \/ \E body \in Bodies, enabled \in BOOLEAN : createSubscription(s, body, enabled)
           \/ SetSubscriptionEnabled(s) \/ DeleteSubscription(s)
    PROVE  Shapes'
  <1>0. /\ mu = Free /\ {} \in SUBSET Refreshers /\ created \subseteq Subs /\ Calls
        /\ \A r \in Refreshers : call[r].pc # "publish"
    BY FreeOrHeld DEF createSubscription, SetSubscriptionEnabled, DeleteSubscription, Lock, Shapes,
                      Tables
  <1>1. ASSUME NEW kind \in Kinds, NEW x \in Row \cup {Absent}, row' = [row EXCEPT ![s] = x],
               Publishing(kind, s, {}), created' \in {created, created \cup {s}},
               s \in created', attempts' \in {attempts, attempts + 1},
               Wrote([kind |-> kind, sub |-> s, by |-> {}, before |-> row[s], stored |-> x]),
               UNCHANGED <<call, todo, clock>>
        PROVE  Shapes'
    <2>1. Calls' /\ \A r \in Refreshers : call'[r].pc = "publish" <=> r \in {}
      BY <1>0, <1>1 DEF Calls
    <2>2. attempts' \in Nat /\ created \subseteq created' /\ created' \subseteq Subs
      BY <1>0, <1>1 DEF Shapes, Tables
    <2> QED BY <1>0, <1>1, <2>1, <2>2, PublishingStep
  <1>2. ASSUME NEW body \in Bodies, NEW enabled \in BOOLEAN, createSubscription(s, body, enabled)
        PROVE  Shapes'
    <2> DEFINE x == [enabled |-> enabled, content |-> body, error |-> FALSE, checked |-> clock,
                     stamp |-> clock, attempt |-> attempts + 1]
               m == [kind |-> "create", sub |-> s, by |-> {}, before |-> row[s], stored |-> x]
    <2>1. x \in Row BY DEF Row, Shapes, Tables
    <2>2. row[s] = Absent BY <1>2 DEF createSubscription, Shapes, Tables, Exists
    <2>3. /\ row' = [row EXCEPT ![s] = x] /\ Publishing("create", s, {})
          /\ created' = created \cup {s} /\ attempts' = attempts + 1
          /\ UNCHANGED <<call, todo, clock>>
      BY <1>2 DEF createSubscription
    <2> HIDE DEF x
    <2>4. Wrote(m) BY <2>1, <2>2 DEF Wrote
    <2> HIDE DEF m
    <2> QED BY <1>1, <2>1, <2>3, <2>4 DEF m, Kinds
  <1>3. CASE SetSubscriptionEnabled(s)
    <2> DEFINE x == [row[s] EXCEPT !.enabled = ~@, !.stamp = Renewed(s)]
               m == [kind |-> "enabled", sub |-> s, by |-> {}, before |-> row[s], stored |-> x]
    <2>1. row[s] \in Row /\ Renewed(s) \in Nat /\ Exists(s)
      BY <1>3, RenewedStamp DEF SetSubscriptionEnabled, Shapes
    <2>2. x \in Row /\ row[s] = [x EXCEPT !.enabled = row[s].enabled, !.stamp = row[s].stamp]
      BY <2>1 DEF Row
    <2>3. /\ row' = [row EXCEPT ![s] = x] /\ Publishing("enabled", s, {})
          /\ UNCHANGED <<created, attempts, call, todo, clock>>
      BY <1>3 DEF SetSubscriptionEnabled
    <2>4. s \in created BY <2>1 DEF Shapes, Tables
    <2> HIDE DEF x
    <2>5. Wrote(m) BY <2>1, <2>2 DEF Wrote
    <2> HIDE DEF m
    <2> QED BY <1>1, <2>2, <2>3, <2>4, <2>5 DEF m, Kinds
  <1>4. CASE DeleteSubscription(s)
    <2> DEFINE m == [kind |-> "delete", sub |-> s, by |-> {}, before |-> row[s], stored |-> Absent]
    <2>1. row[s] \in Row /\ s \in created
      BY <1>4, RenewedStamp DEF DeleteSubscription, Shapes, Tables
    <2>2. Wrote(m) BY <2>1 DEF Wrote
    <2>3. /\ row' = [row EXCEPT ![s] = Absent] /\ Publishing("delete", s, {})
          /\ UNCHANGED <<created, attempts, call, todo, clock>>
      BY <1>4 DEF DeleteSubscription
    <2> HIDE DEF m
    <2> QED BY <1>1, <2>1, <2>2, <2>3 DEF m, Kinds
  <1> QED BY <1>2, <1>3, <1>4

\* The undo writes what the operation has found.
LEMMA RestoreIsBefore ==
    ASSUME Shapes, mu # Free
    PROVE  restore = mu.before /\ mu.before \in Row \cup {Absent} /\ mu.sub \in Subs
           /\ row[mu.sub] = mu.stored
  <1>1. mu \in Holder /\ Wrote(mu) /\ row[mu.sub] = mu.stored
    BY FreeOrHeld DEF Shapes, Held
  <1>2. mu.sub \in Subs /\ mu.before \in Row \cup {Absent} /\ mu.kind \in Kinds
    BY <1>1 DEF Holder
  <1>3. CASE mu.kind = "create" BY <1>1, <1>2, <1>3 DEF restore, Wrote
  <1>4. CASE mu.kind = "delete" BY <1>1, <1>2, <1>4 DEF restore, Wrote
  <1>5. CASE mu.kind = "enabled" BY <1>1, <1>2, <1>5 DEF restore, Wrote
  <1>6. CASE mu.kind = "refresh"
    <2>1. restore = [mu.before EXCEPT !.enabled = row[mu.sub].enabled] BY <1>6 DEF restore
    <2>2. mu.before \in Row /\ row[mu.sub].enabled = mu.before.enabled BY <1>1, <1>6 DEF Wrote
    <2> QED BY <1>1, <1>2, <2>1, <2>2 DEF Row
  <1> QED BY <1>1, <1>2, <1>3, <1>4, <1>5, <1>6 DEF Kinds

\* The end of an operation, and a crash.
LEMMA EndShapes ==
    ASSUME Shapes, Published \/ PublishFails \/ Crash
    PROVE  Shapes'
  <1>0. /\ row \in [Subs -> Row \cup {Absent}] /\ \A s \in Subs : row[s] # Absent => s \in created
    BY DEF Shapes, Tables, Exists
  <1>1. CASE Published BY <1>0, <1>1, UnlockStep DEF Published, Unlock
  <1>2. CASE PublishFails
    <2>1. /\ mu # Free /\ row' = [row EXCEPT ![mu.sub] = restore] /\ Unlock /\ clock' = clock + 1
          /\ UNCHANGED <<created, todo, attempts>>
      BY <1>2 DEF PublishFails
    <2>2. restore = mu.before /\ mu.before \in Row \cup {Absent} /\ mu.sub \in Subs
      BY <2>1, RestoreIsBefore
    <2>3. row' \in [Subs -> Row \cup {Absent}] BY <1>0, <2>1, <2>2
    <2>4. mu.sub \in created BY <2>1 DEF Shapes, Held
    <2> QED BY <1>0, <2>1, <2>2, <2>3, <2>4, UnlockStep DEF Unlock
  <1>3. CASE Crash BY <1>0, <1>3, UnlockStep DEF Crash
  <1> QED BY <1>1, <1>2, <1>3

\* Every step keeps the shapes.
LEMMA ShapesStep ==
    ASSUME Shapes, [Next]_vars
    PROVE  Shapes'
  <1>0. Timer \in Refreshers /\ Requests \subseteq Refreshers BY DEF Refreshers
  <1>1. ASSUME NEW r \in Refreshers, RefreshStep(r) PROVE Shapes'
    BY <1>1, DownloadShapes, RecordShapes, StoreNewShapes DEF RefreshStep
  <1>2. ASSUME NEW s \in Subs, NEW r \in Requests, AdminRefresh(r, s) PROVE Shapes'
    BY <1>0, <1>2, BeginShapes DEF AdminRefresh
  <1>3. CASE RefreshDue
    BY <1>3 DEF RefreshDue, Shapes, Tables, Calls, Held, Due, Exists
  <1>4. ASSUME NEW s \in Subs, RefreshNext(s) PROVE Shapes'
    <2>1. CASE Exists(s) BY <1>0, <1>4, <2>1, BeginShapes DEF RefreshNext
    <2>2. CASE ~Exists(s)
      BY <1>4, <2>2 DEF RefreshNext, Shapes, Tables, Calls, Held, Exists
    <2> QED BY <2>1, <2>2
  <1>5. CASE Tick BY <1>5 DEF Tick, Shapes, Tables, Calls, Held, Exists
  <1>6. CASE UNCHANGED vars BY <1>6 DEF vars, Shapes, Tables, Calls, Held, Exists
  <1> QED BY <1>0, <1>1, <1>2, <1>3, <1>4, <1>5, <1>6, AdminShapes, EndShapes
          DEF Next, TimerStep, PublishStep

\* The initial state.
LEMMA ShapesInit ==
    ASSUME Init PROVE Shapes
  <1> DEFINE b == CHOOSE b \in Bodies : TRUE
             x == [enabled |-> TRUE, content |-> b, error |-> FALSE, checked |-> 1, stamp |-> 1,
                   attempt |-> 0]
  <1>1. b \in Bodies BY RefreshAssumption DEF RefreshAssumption
  <1> HIDE DEF b
  <1>2. x \in Row BY <1>1 DEF Row
  <1>3. row \in [Subs -> {Absent, x}] BY DEF Init, b
  <1> HIDE DEF x
  <1>4. Tables BY <1>2, <1>3 DEF Init, Tables, Exists
  <1>5. Calls BY DEF Init, Calls, Call
  <1>6. Held BY DEF Init, Held, NoCall
  <1> QED BY <1>4, <1>5, <1>6 DEF Shapes

\* Shapes is inductive.
LEMMA ShapesAlways == Spec => []Shapes
  <1>1. Init => Shapes BY ShapesInit
  <1>2. Shapes /\ [Next]_vars => Shapes' BY ShapesStep
  <1> QED BY <1>1, <1>2, PTL DEF Spec

\* Rows, calls and the lock have their shapes; whoever publishes holds Service.mu, and until
\* it releases it the row is the one it has stored.
THEOREM RefreshTypeCorrect == Spec => []TypeOK
  <1>1. Shapes => TypeOK
    BY DEF Shapes, Tables, Calls, Held, TypeOK
  <1> QED BY <1>1, ShapesAlways, PTL

\* restoreSubscriptionMutation: the undo of a failed publication leaves the row that the
\* operation has found, and the row it overwrites is the one that the operation stored:
\* reads without the lock and attempts that end meanwhile have changed nothing.
THEOREM FailedAlwaysLeavesNoTrace == Spec => FailedLeavesNoTrace
  <1>1. Shapes /\ [Next]_vars =>
          [PublishFails => row'[mu.sub] = mu.before /\ row[mu.sub] = mu.stored]_vars
    <2> SUFFICES ASSUME Shapes, PublishFails
                 PROVE  row'[mu.sub] = mu.before /\ row[mu.sub] = mu.stored
      OBVIOUS
    <2>1. mu # Free /\ row' = [row EXCEPT ![mu.sub] = restore] BY DEF PublishFails
    <2>2. restore = mu.before /\ mu.sub \in Subs /\ row[mu.sub] = mu.stored
      BY <2>1, RestoreIsBefore
    <2> QED BY <2>1, <2>2 DEF Shapes, Tables
  <1> QED BY <1>1, ShapesAlways, PTL DEF Spec, FailedLeavesNoTrace

----------------------------------------------------------------------------
(* Stamps                                                                  *)

\* r has not yet recorded its attempt on s.
On(r, s) == call[r].pc \in {"download", "store", "failure"} /\ call[r].sub = s

\* ... and has nothing left to do before that.
Ready(r) == call[r].pc \in {"store", "failure"}

Busy(s) == mu # Free /\ mu.sub = s

\* Stamps of s are at most this: an operation may take the next millisecond, which has
\* begun when its publication ends.
Time(s) == clock + IF Busy(s) THEN 1 ELSE 0

\* What the row of s is or may be once more.
Bases(s) == ({row[s]} \cup IF Busy(s) THEN {mu.before} ELSE {}) \ {Absent}

\* A call that has read base or something later is a later attempt.  If a call may be
\* recorded over base, then the time is beyond all stamps that other calls have read.
BaseOk(s, base) ==
    /\ base.attempt <= attempts
    /\ \A q \in Refreshers :
          On(q, s) /\ base.stamp <= call[q].stamp => base.attempt <= call[q].attempt
    /\ (\E r \in Refreshers : On(r, s) /\ Ready(r) /\ call[r].stamp = base.stamp) =>
          /\ \A q \in Refreshers : On(q, s) => call[q].stamp < Time(s)
          /\ Exists(s) => row[s].stamp < Time(s)

StampsAt(s) ==
    /\ Exists(s) => row[s].stamp <= Time(s)
    /\ Busy(s) /\ mu.before # Absent => mu.before.stamp < Time(s)
    /\ \A q \in Refreshers : On(q, s) =>
          /\ s \in created /\ call[q].stamp <= Time(s) /\ call[q].attempt <= attempts
          /\ Ready(q) => call[q].stamp < Time(s)
    /\ \A base \in Bases(s) : BaseOk(s, base)

Stamps == \A s \in Subs : StampsAt(s)

Numbers(s) ==
    /\ Time(s) \in Nat /\ clock \in Nat /\ attempts \in Nat
    /\ Exists(s) => row[s] \in Row /\ row[s].stamp \in Nat /\ row[s].attempt \in Nat
    /\ \A base \in Bases(s) : base \in Row /\ base.stamp \in Nat /\ base.attempt \in Nat
    /\ \A q \in Refreshers : On(q, s) => call[q].stamp \in Nat /\ call[q].attempt \in Nat

AllNumbers == \A s \in Subs : Numbers(s)

\* Times and stamps are numbers.
LEMMA StampTypes == Shapes => AllNumbers
  <1> SUFFICES ASSUME Shapes, NEW s \in Subs PROVE Numbers(s)
    BY DEF AllNumbers
  <1>1. clock \in Nat /\ attempts \in Nat /\ row[s] \in Row \cup {Absent}
    BY DEF Shapes, Tables
  <1>2. Busy(s) => mu.before \in Row \cup {Absent}
    BY FreeOrHeld DEF Shapes, Busy, Holder
  <1>3. \A x \in Row : x.stamp \in Nat /\ x.attempt \in Nat BY DEF Row
  <1>4. Time(s) \in Nat BY <1>1 DEF Time
  <1>5. \A base \in Bases(s) : base \in Row BY <1>1, <1>2 DEF Bases
  <1>6. \A q \in Refreshers : On(q, s) => call[q].stamp \in Nat /\ call[q].attempt \in Nat
    BY CallKinds DEF Shapes, On
  <1> QED BY <1>1, <1>3, <1>4, <1>5, <1>6 DEF Exists, Numbers

\* ... also after a step.
LEMMA StampTypesNext == Shapes' => AllNumbers'
  BY StampTypes, PTL

\* Nothing new is written to s: time goes on, calls begin with the row as it is, become
\* ready as time goes on, or end, and an operation ends.
LEMMA StampsKept ==
    ASSUME Shapes, Shapes', NEW s \in Subs, StampsAt(s),
           attempts <= attempts', Time(s) <= Time(s)', created \subseteq created',
           row'[s] = row[s] \/ (Busy(s) /\ row'[s] = mu.before),
           Busy(s)' => Busy(s) /\ mu' = mu /\ row'[s] = row[s],
           \A q \in Refreshers : On(q, s)' =>
             \/ /\ On(q, s) /\ call'[q].stamp = call[q].stamp /\ call'[q].attempt = call[q].attempt
                /\ Ready(q)' => Ready(q) \/ Time(s) < Time(s)'
             \/ /\ Exists(s) /\ ~Ready(q)' /\ call'[q].stamp = row[s].stamp /\ row'[s] = row[s]
                /\ call'[q].attempt = attempts + 1 /\ attempts' = attempts + 1
    PROVE  StampsAt(s)'
  <1>1. /\ Time(s) \in Nat /\ Time(s)' \in Nat /\ attempts \in Nat /\ attempts' \in Nat
        /\ Exists(s) => row[s].stamp \in Nat
        /\ \A base \in Bases(s) : base.stamp \in Nat /\ base.attempt \in Nat
        /\ \A q \in Refreshers : On(q, s) => call[q].stamp \in Nat /\ call[q].attempt \in Nat
    BY StampTypes, StampTypesNext DEF AllNumbers, Numbers
  <1>1a. \A q \in Refreshers : On(q, s)' => call'[q].stamp \in Nat /\ call'[q].attempt \in Nat
    BY StampTypesNext DEF AllNumbers, Numbers
  <1>2. Bases(s)' \subseteq Bases(s) BY DEF Bases
  <1>3. Exists(s) => s \in created /\ row[s].stamp <= Time(s)
    BY DEF StampsAt, Shapes, Tables
  <1>4. Busy(s) /\ mu.before # Absent => mu.before.stamp < Time(s) /\ mu.before.stamp \in Nat
    BY <1>1 DEF StampsAt, Bases
  <1>5. Exists(s)' => row'[s].stamp <= Time(s) BY <1>1, <1>3, <1>4 DEF Exists
  <1>6. ASSUME NEW q \in Refreshers, On(q, s)'
        PROVE  /\ s \in created' /\ call'[q].stamp <= Time(s) /\ call'[q].attempt <= attempts'
               /\ Ready(q)' => call'[q].stamp < Time(s)'
    BY <1>1, <1>1a, <1>3, <1>6 DEF StampsAt
  <1>7. ASSUME NEW base \in Bases(s)' PROVE BaseOk(s, base)'
    <2>0. base \in Bases(s) /\ BaseOk(s, base) BY <1>2 DEF StampsAt
    <2>1. base.attempt <= attempts' BY <1>1, <2>0 DEF BaseOk
    <2>2. ASSUME NEW q \in Refreshers, On(q, s)', base.stamp <= call'[q].stamp
          PROVE  base.attempt <= call'[q].attempt
      BY <1>1, <1>1a, <2>0, <2>2 DEF BaseOk
    <2>3. ASSUME NEW r \in Refreshers, On(r, s)', Ready(r)', call'[r].stamp = base.stamp
          PROVE  /\ \A q \in Refreshers : On(q, s)' => call'[q].stamp < Time(s)'
                 /\ Exists(s)' => row'[s].stamp < Time(s)'
      <3>1. CASE Time(s) < Time(s)'
        <4>1. \A q \in Refreshers : On(q, s)' => call'[q].stamp < Time(s)'
          BY <1>1, <1>1a, <1>6, <3>1
        <4>2. Exists(s)' => row'[s].stamp \in Nat BY StampTypesNext DEF AllNumbers, Numbers
        <4> QED BY <1>1, <1>5, <3>1, <4>1, <4>2
      <3>2. CASE ~(Time(s) < Time(s)')
        <4>1. On(r, s) /\ Ready(r) /\ call[r].stamp = base.stamp BY <2>3, <3>2
        <4>2. /\ \A q \in Refreshers : On(q, s) => call[q].stamp < Time(s)
              /\ Exists(s) => row[s].stamp < Time(s)
          BY <2>0, <4>1 DEF BaseOk
        <4>3. \A q \in Refreshers : On(q, s)' => call'[q].stamp < Time(s)'
          BY <1>1, <1>1a, <4>2
        <4>4. Exists(s)' => row'[s].stamp < Time(s)'
          BY <1>1, <1>4, <4>2 DEF Exists
        <4> QED BY <4>3, <4>4
      <3> QED BY <3>1, <3>2
    <2> QED BY <2>1, <2>2, <2>3 DEF BaseOk
  <1>8. Exists(s)' => row'[s].stamp <= Time(s)'
    BY <1>1, <1>5, StampTypesNext DEF AllNumbers, Numbers
  <1>9. Busy(s)' /\ mu'.before # Absent => mu'.before.stamp < Time(s)'
    BY <1>1, <1>4
  <1>10. \A q \in Refreshers : On(q, s)' =>
          /\ s \in created' /\ call'[q].stamp <= Time(s)' /\ call'[q].attempt <= attempts'
          /\ Ready(q)' => call'[q].stamp < Time(s)'
    BY <1>1, <1>1a, <1>6
  <1> QED BY <1>7, <1>8, <1>9, <1>10 DEF StampsAt

\* A row is written by a ready call that has read it: its stamp is later than all.
LEMMA StampsRecorded ==
    ASSUME Shapes, Shapes', NEW s \in Subs, StampsAt(s), mu = Free, Exists(s),
           NEW r \in Refreshers, On(r, s), Ready(r), call[r].stamp = row[s].stamp,
           row'[s] # Absent, row'[s].stamp = Renewed(s), row'[s].attempt = call[r].attempt,
           UNCHANGED <<clock, attempts, created>>,
           Busy(s)' => mu'.before = row[s],
           \A q \in Refreshers : On(q, s)' => On(q, s) /\ call'[q] = call[q]
    PROVE  StampsAt(s)'
  <1>1. /\ Time(s) = clock /\ clock \in Nat /\ attempts \in Nat /\ row[s].stamp \in Nat
        /\ row[s].attempt \in Nat
        /\ \A q \in Refreshers : On(q, s) => call[q].stamp \in Nat /\ call[q].attempt \in Nat
    BY StampTypes DEF AllNumbers, Numbers, Time, Busy
  <1>2. row[s] \in Bases(s) /\ BaseOk(s, row[s]) BY DEF Bases, Exists, StampsAt
  <1>3. /\ \A q \in Refreshers : On(q, s) => call[q].stamp < clock
        /\ row[s].stamp < clock
    BY <1>1, <1>2 DEF BaseOk
  <1>4. Renewed(s) = clock BY <1>1, <1>3 DEF Renewed
  <1>5. Time(s)' \in {clock, clock + 1} /\ (Busy(s)' => Time(s)' = clock + 1)
    BY <1>1 DEF Time
  <1>6. \A q \in Refreshers : On(q, s)' => call'[q].stamp < clock /\ call'[q].stamp \in Nat
                                           /\ s \in created'
    BY <1>1, <1>3 DEF Shapes, Tables
  <1>6a. \A q \in Refreshers : On(q, s) => call[q].attempt <= attempts BY DEF StampsAt
  <1>7. ASSUME NEW base, base = row'[s] PROVE BaseOk(s, base)'
    BY <1>1, <1>4, <1>6a, <1>6, <1>7 DEF BaseOk
  <1>8. ASSUME NEW base, base = row[s], Busy(s)' PROVE BaseOk(s, base)'
    <2>1. Time(s)' = clock + 1 BY <1>5, <1>8
    <2>2. \A q \in Refreshers : On(q, s)' => call'[q].stamp < Time(s)' BY <1>1, <1>6, <2>1
    <2>3. row'[s].stamp < Time(s)' BY <1>1, <1>4, <2>1
    <2> QED BY <1>1, <1>2, <1>8, <2>2, <2>3 DEF BaseOk
  <1>9. \A base \in Bases(s)' : BaseOk(s, base)' BY <1>7, <1>8 DEF Bases
  <1>10. row'[s].stamp <= Time(s)' BY <1>1, <1>4, <1>5
  <1>11. Busy(s)' => mu'.before.stamp < Time(s)' BY <1>1, <1>3, <1>5
  <1>12. \A q \in Refreshers : On(q, s)' =>
          /\ s \in created' /\ call'[q].stamp <= Time(s)' /\ call'[q].attempt <= attempts'
          /\ Ready(q)' => call'[q].stamp < Time(s)'
    BY <1>1, <1>5, <1>6, <1>6a
  <1> QED BY <1>9, <1>10, <1>11, <1>12 DEF StampsAt

\* An administrator writes a row.
LEMMA StampsWritten ==
    ASSUME Shapes, Shapes', NEW s \in Subs, StampsAt(s), mu = Free,
           Busy(s)', mu'.before = row[s], UNCHANGED <<clock, call>>,
           created \subseteq created', attempts' \in {attempts, attempts + 1},
           \/ row'[s] = Absent
           \/ /\ Exists(s) /\ row'[s].stamp = Renewed(s) /\ row'[s].attempt = row[s].attempt
           \/ /\ s \notin created /\ row'[s].stamp = clock /\ row'[s].attempt = attempts'
    PROVE  StampsAt(s)'
  <1>1. /\ Time(s) = clock /\ clock \in Nat /\ attempts \in Nat /\ Time(s)' = clock + 1
        /\ Exists(s) => row[s].stamp \in Nat /\ row[s].attempt \in Nat
        /\ \A q \in Refreshers : On(q, s) => call[q].stamp \in Nat /\ call[q].attempt \in Nat
    BY StampTypes DEF AllNumbers, Numbers, Time, Busy
  <1>2. Exists(s) => row[s].stamp <= clock /\ BaseOk(s, row[s])
    BY <1>1 DEF Bases, Exists, StampsAt
  <1>3. Exists(s)' => /\ row'[s].stamp >= clock /\ row'[s].stamp <= clock + 1
                      /\ row'[s].stamp \in Nat
    BY <1>1, <1>2 DEF Renewed, Exists
  <1>4. \A q \in Refreshers : On(q, s)' <=> On(q, s) BY DEF On
  <1>5. \A q \in Refreshers : On(q, s) =>
          /\ s \in created /\ call[q].stamp <= clock /\ call[q].attempt <= attempts
          /\ Ready(q) => call[q].stamp < clock
    BY <1>1 DEF StampsAt
  <1>6. \A q \in Refreshers : Ready(q)' <=> Ready(q) BY DEF Ready
  <1>7. ASSUME NEW base, base = row'[s], Exists(s)' PROVE BaseOk(s, base)'
    <2>1. row'[s].attempt <= attempts' BY <1>1, <1>2, <1>7 DEF BaseOk, Exists
    <2>2. ASSUME NEW q \in Refreshers, On(q, s), row'[s].stamp <= call[q].stamp
          PROVE  row'[s].attempt <= call[q].attempt
      <3>1. Exists(s) /\ row'[s].stamp = Renewed(s) /\ row'[s].attempt = row[s].attempt
        BY <1>5, <1>7, <2>2 DEF Exists
      <3>2. row[s].stamp <= call[q].stamp
        BY <1>1, <2>2, <3>1, RenewedStamp DEF Shapes
      <3> QED BY <1>2, <2>2, <3>1, <3>2 DEF BaseOk
    <2>3. \A r \in Refreshers : On(r, s) /\ Ready(r) => call[r].stamp # row'[s].stamp
      BY <1>1, <1>3, <1>5, <1>7
    <2> QED BY <1>4, <1>6, <1>7, <2>1, <2>2, <2>3 DEF BaseOk
  <1>8. ASSUME NEW base, base = row[s], Exists(s) PROVE BaseOk(s, base)'
    <2>1. row[s].attempt <= attempts' BY <1>1, <1>2, <1>8 DEF BaseOk
    <2>2. ASSUME NEW r \in Refreshers, On(r, s), Ready(r), call[r].stamp = row[s].stamp
          PROVE  Exists(s)' => row'[s].stamp < clock + 1
      <3>1. row[s].stamp < clock /\ s \in created BY <1>5, <2>2
      <3> QED BY <1>1, <1>8, <3>1 DEF Exists, Renewed
    <2>3. \A q \in Refreshers : On(q, s) => call[q].stamp < clock + 1 BY <1>1, <1>5
    <2> QED BY <1>1, <1>2, <1>4, <1>6, <1>8, <2>1, <2>2, <2>3 DEF BaseOk
  <1>9. \A base \in Bases(s)' : BaseOk(s, base)' BY <1>7, <1>8 DEF Bases, Exists
  <1>10. Exists(s)' => row'[s].stamp <= Time(s)' BY <1>1, <1>3
  <1>11. Exists(s) => row[s].stamp < Time(s)' BY <1>1, <1>2
  <1>12. \A q \in Refreshers : On(q, s)' =>
          /\ s \in created' /\ call'[q].stamp <= Time(s)' /\ call'[q].attempt <= attempts'
          /\ Ready(q)' => call'[q].stamp < Time(s)'
    BY <1>1, <1>4, <1>5, <1>6
  <1> QED BY <1>9, <1>10, <1>11, <1>12 DEF StampsAt, Exists

\* A step that writes no row, or only that of another subscription.
LEMMA StampsElsewhere ==
    ASSUME Shapes, Shapes', NEW s \in Subs, StampsAt(s), UNCHANGED clock,
           created \subseteq created', attempts' \in {attempts, attempts + 1},
           row'[s] = row[s], ~Busy(s), ~Busy(s)',
           \A q \in Refreshers : On(q, s)' => On(q, s) /\ call'[q] = call[q]
    PROVE  StampsAt(s)'
  <1>1. attempts \in Nat /\ clock \in Nat BY DEF Shapes, Tables
  <1>2. attempts <= attempts' /\ Time(s)' = Time(s) /\ Time(s) <= Time(s)'
    BY <1>1 DEF Time
  <1>3. \A q \in Refreshers : On(q, s)' =>
          /\ On(q, s) /\ call'[q].stamp = call[q].stamp /\ call'[q].attempt = call[q].attempt
          /\ Ready(q)' => Ready(q)
    BY DEF Ready
  <1> QED BY <1>2, <1>3, StampsKept

\* An attempt is recorded.
LEMMA RecordStamps ==
    ASSUME Shapes, Shapes', Stamps, NEW r \in Refreshers,
           subscriptionFailure(r) \/ StoreSame(r) \/ StoreNew(r)
    PROVE  Stamps' /\ row[call[r].sub].attempt <= call[r].attempt
  <1>0. PICK s \in Subs : s = call[r].sub
    BY CallKinds DEF subscriptionFailure, StoreSame, StoreNew, Shapes
  <1>1. /\ call[r].pc \in {"store", "failure"} /\ mu = Free /\ Exists(s)
        /\ row[s].stamp = call[r].stamp
        /\ UNCHANGED <<clock, attempts, created>>
    BY <1>0 DEF subscriptionFailure, StoreSame, StoreNew, FailureLock, Lock, Current
  <1>2. PICK x \in Row : /\ row' = [row EXCEPT ![s] = x] /\ x.stamp = Renewed(s)
                         /\ x.attempt = call[r].attempt
    <2>1. CASE subscriptionFailure(r)
      BY <1>0, <1>1, <2>1, WrittenRows DEF subscriptionFailure, Shapes
    <2>2. CASE StoreSame(r) \/ StoreNew(r)
      BY <1>0, <1>1, <2>2, WrittenRows DEF StoreSame, StoreNew, Shapes
    <2> QED BY <2>1, <2>2
  <1>3. row'[s] = x /\ x # Absent /\ \A t \in Subs \ {s} : row'[t] = row[t]
    BY <1>1, <1>2, RefreshAssumption DEF Shapes, Tables, RefreshAssumption
  <1>4. /\ call'[r].pc \notin {"download", "store", "failure"}
        /\ \A q \in Refreshers \ {r} : call'[q] = call[q]
    <2>1. CASE subscriptionFailure(r) \/ StoreSame(r)
      BY <2>1 DEF subscriptionFailure, StoreSame, Shapes, Calls, NoCall
    <2>2. CASE StoreNew(r)
      <3>1. call[r] \in StoreCall BY <2>2, CallKinds DEF StoreNew, Shapes
      <3> QED BY <2>2, <3>1 DEF StoreNew, Shapes, Calls, StoreCall
    <2> QED BY <2>1, <2>2
  <1>5. \A q \in Refreshers, t \in Subs : On(q, t)' => On(q, t) /\ call'[q] = call[q]
    BY <1>4 DEF On
  <1>6. mu' = Free \/ (mu'.sub = s /\ mu'.before = row[s])
    BY <1>0, <1>1 DEF subscriptionFailure, StoreSame, StoreNew, Publishing
  <1>7. On(r, s) /\ Ready(r) BY <1>0, <1>1 DEF On, Ready
  <1>8. StampsAt(s)'
    <2>1. StampsAt(s) BY <1>1 DEF Stamps
    <2>2. Busy(s)' => mu'.before = row[s] BY <1>6 DEF Busy
    <2> QED BY <1>1, <1>2, <1>3, <1>5, <1>7, <2>1, <2>2, StampsRecorded
  <1>9. ASSUME NEW t \in Subs \ {s} PROVE StampsAt(t)'
    <2>1. StampsAt(t) /\ ~Busy(t) /\ ~Busy(t)' BY <1>1, <1>6 DEF Stamps, Busy
    <2> QED BY <1>1, <1>3, <1>5, <2>1, StampsElsewhere
  <1>10. row[s].attempt <= call[r].attempt
    <2>1. row[s] \in Bases(s) BY <1>1 DEF Bases, Exists
    <2>2. BaseOk(s, row[s]) /\ row[s].stamp \in Nat
      BY <1>1, <2>1, StampTypes DEF Stamps, StampsAt, AllNumbers, Numbers
    <2> QED BY <1>1, <1>7, <2>2 DEF BaseOk
  <1> QED BY <1>8, <1>9, <1>10, <1>0 DEF Stamps

\* Operations of the administrator.
LEMMA AdminStamps ==
    ASSUME Shapes, Shapes', Stamps, NEW s \in Subs,
           \/ \E body \in Bodies, enabled \in BOOLEAN : createSubscription(s, body, enabled)
           \/ SetSubscriptionEnabled(s) \/ DeleteSubscription(s)
    PROVE  /\ Stamps'
           /\ \A t \in Subs : Exists(t) /\ row'[t] # Absent => row'[t].attempt = row[t].attempt
  <1>1. /\ mu = Free /\ UNCHANGED <<clock, call>> /\ created \subseteq created'
        /\ attempts' \in {attempts, attempts + 1}
        /\ \E x : row' = [row EXCEPT ![s] = x]
        /\ \E kind \in Kinds : Publishing(kind, s, {})
    BY DEF createSubscription, SetSubscriptionEnabled, DeleteSubscription, Lock, Kinds
  <1>2. \A t \in Subs \ {s} : row'[t] = row[t] BY <1>1 DEF Shapes, Tables
  <1>3. mu'.sub = s /\ mu'.before = row[s] /\ mu' # Free
    BY <1>1 DEF Publishing, Free, Kinds
  <1>4. \/ row'[s] = Absent
        \/ Exists(s) /\ row'[s].stamp = Renewed(s) /\ row'[s].attempt = row[s].attempt
        \/ /\ s \notin created /\ ~Exists(s)
           /\ row'[s].stamp = clock /\ row'[s].attempt = attempts'
    <2>1. CASE \E body \in Bodies, enabled \in BOOLEAN : createSubscription(s, body, enabled)
      BY <2>1 DEF createSubscription, Shapes, Tables
    <2>2. CASE SetSubscriptionEnabled(s)
      <3>1. Exists(s) /\ row[s] \in Row
        BY <2>2, RenewedStamp DEF SetSubscriptionEnabled, Shapes
      <3>2. row'[s] = [row[s] EXCEPT !.enabled = ~@, !.stamp = Renewed(s)]
        BY <2>2 DEF SetSubscriptionEnabled, Shapes, Tables
      <3> QED BY <3>1, <3>2 DEF Row
    <2>3. CASE DeleteSubscription(s) BY <2>3 DEF DeleteSubscription, Shapes, Tables
    <2> QED BY <2>1, <2>2, <2>3
  <1>5. StampsAt(s)'
    <2>1. StampsAt(s) /\ Busy(s)' BY <1>3 DEF Stamps, Busy
    <2> QED BY <1>1, <1>3, <1>4, <2>1, StampsWritten
  <1>6. ASSUME NEW t \in Subs \ {s} PROVE StampsAt(t)'
    <2>1. StampsAt(t) /\ ~Busy(t) /\ ~Busy(t)' BY <1>1, <1>3 DEF Stamps, Busy
    <2>2. \A q \in Refreshers : On(q, t)' => On(q, t) /\ call'[q] = call[q] BY <1>1 DEF On
    <2> QED BY <1>1, <1>2, <2>1, <2>2, StampsElsewhere
  <1> QED BY <1>2, <1>4, <1>5, <1>6 DEF Stamps

\* Time passes with the clock while no operation begins or ends.
LEMMA TimePasses ==
    ASSUME NEW s \in Subs, clock \in Nat, clock' \in {clock, clock + 1}, Busy(s)' <=> Busy(s)
    PROVE  Time(s) <= Time(s)' /\ (clock' = clock + 1 => Time(s) < Time(s)')
  <1>1. PICK n \in {0, 1} : Time(s) = clock + n /\ Time(s)' = clock' + n BY DEF Time
  <1>2. CASE clock' = clock BY <1>1, <1>2
  <1>3. CASE clock' = clock + 1 BY <1>1, <1>3
  <1> QED BY <1>2, <1>3

\* Refreshes begin and go on, and time passes.
LEMMA CallStamps ==
    ASSUME Shapes, Shapes', Stamps, UNCHANGED <<row, created, mu>>,
           clock' \in {clock, clock + 1}, attempts' \in {attempts, attempts + 1},
           \A q \in Refreshers :
             \/ call'[q] = call[q]
             \/ call'[q] = NoCall
             \/ /\ call'[q].pc = "download" /\ Exists(call'[q].sub)
                /\ call'[q].stamp = row[call'[q].sub].stamp
                /\ call'[q].attempt = attempts + 1 /\ attempts' = attempts + 1
             \/ /\ call[q].pc = "download" /\ call'[q].sub = call[q].sub
                /\ call'[q].stamp = call[q].stamp /\ call'[q].attempt = call[q].attempt
                /\ clock' = clock + 1
    PROVE  Stamps'
  <1> SUFFICES ASSUME NEW s \in Subs PROVE StampsAt(s)'
    BY DEF Stamps
  <1>1. attempts \in Nat /\ clock \in Nat /\ StampsAt(s) BY DEF Shapes, Tables, Stamps
  <1>1a. Busy(s)' <=> Busy(s) BY DEF Busy
  <1>2. /\ attempts <= attempts' /\ Time(s) <= Time(s)'
        /\ clock' = clock + 1 => Time(s) < Time(s)'
    BY <1>1, <1>1a, TimePasses
  <1>3. ASSUME NEW q \in Refreshers, On(q, s)'
        PROVE  \/ /\ On(q, s) /\ call'[q].stamp = call[q].stamp
                  /\ call'[q].attempt = call[q].attempt
                  /\ Ready(q)' => Ready(q) \/ Time(s) < Time(s)'
               \/ /\ Exists(s) /\ ~Ready(q)' /\ call'[q].stamp = row[s].stamp
                  /\ call'[q].attempt = attempts + 1 /\ attempts' = attempts + 1
    BY <1>2, <1>3 DEF On, Ready, NoCall
  <1> QED BY <1>1, <1>1a, <1>2, <1>3, StampsKept

\* The end of an operation, and a crash.
LEMMA EndStamps ==
    ASSUME Shapes, Shapes', Stamps, Published \/ PublishFails \/ Crash
    PROVE  Stamps'
  <1> SUFFICES ASSUME NEW s \in Subs PROVE StampsAt(s)'
    BY DEF Stamps
  <1>1. attempts \in Nat /\ clock \in Nat /\ StampsAt(s) BY DEF Shapes, Tables, Stamps
  <1>2. clock' = clock + 1 /\ mu' = Free /\ UNCHANGED <<created, attempts>>
    BY DEF Published, PublishFails, Crash, Unlock
  <1>3. Time(s) <= Time(s)' /\ ~Busy(s)' /\ attempts <= attempts'
    BY <1>1, <1>2 DEF Time, Busy
  <1>4. \A q \in Refreshers : call'[q] \in {call[q], NoCall}
    BY DEF Published, PublishFails, Crash, Unlock
  <1>5. \A q \in Refreshers : On(q, s)' =>
          /\ On(q, s) /\ call'[q].stamp = call[q].stamp /\ call'[q].attempt = call[q].attempt
          /\ Ready(q)' => Ready(q)
    BY <1>4 DEF On, Ready, NoCall
  <1>6. row'[s] = row[s] \/ (Busy(s) /\ row'[s] = mu.before)
    <2>1. CASE PublishFails
      BY <2>1, RestoreIsBefore DEF PublishFails, Busy, Shapes, Tables
    <2> QED BY <2>1 DEF Published, Crash
  <1> QED BY <1>1, <1>2, <1>3, <1>5, <1>6, StampsKept

\* The stamps stay in order, and no step brings an earlier attempt back, an undo apart.
NoEarlierAttempt ==
    \A s \in Subs :
        Exists(s) /\ row'[s] # Absent /\ row'[s].attempt < row[s].attempt
            => mu # Free /\ mu.kind = "refresh" /\ mu.sub = s /\ mu.stored = row[s]

\* One step.
LEMMA StampsStep ==
    ASSUME Shapes, Shapes', Stamps, [Next]_vars
    PROVE  Stamps' /\ NoEarlierAttempt
  <1>0. /\ Timer \in Refreshers /\ Requests \subseteq Refreshers
        /\ attempts \in Nat /\ clock \in Nat
        /\ \A s \in Subs : Exists(s) => row[s].attempt \in Nat
    BY StampTypes DEF Refreshers, Shapes, Tables, AllNumbers, Numbers
  <1>1. UNCHANGED row => NoEarlierAttempt BY <1>0 DEF NoEarlierAttempt
  <1>2. ASSUME NEW r \in Refreshers, NEW s \in Subs, Exists(s), Begin(r, s),
               UNCHANGED <<row, created, mu, clock>>
        PROVE  Stamps'
    <2>1. /\ call'[r] = [pc |-> "download", sub |-> s, stamp |-> row[s].stamp,
                         attempt |-> attempts + 1]
          /\ \A q \in Refreshers \ {r} : call'[q] = call[q]
          /\ attempts' = attempts + 1
      BY <1>2 DEF Begin, Shapes, Calls
    <2> QED BY <1>2, <2>1, CallStamps
  <1>3. ASSUME NEW r \in Refreshers, NEW body \in Bodies \cup {Failure}, Download(r, body)
        PROVE  Stamps' /\ NoEarlierAttempt
    <2>1. /\ call[r].pc = "download" /\ clock' = clock + 1
          /\ call'[r].sub = call[r].sub /\ call'[r].stamp = call[r].stamp
          /\ call'[r].attempt = call[r].attempt
          /\ \A q \in Refreshers \ {r} : call'[q] = call[q]
      BY <1>3 DEF Download, Shapes, Calls
    <2>2. UNCHANGED <<row, created, mu, attempts>> BY <1>3 DEF Download
    <2> QED BY <1>1, <2>1, <2>2, CallStamps
  <1>4. ASSUME NEW r \in Refreshers, Conflict(r) PROVE Stamps' /\ NoEarlierAttempt
    <2>1. /\ UNCHANGED <<row, created, mu, attempts, clock>> /\ call'[r] = NoCall
          /\ \A q \in Refreshers \ {r} : call'[q] = call[q]
      BY <1>4 DEF Conflict, Shapes, Calls
    <2> QED BY <1>1, <2>1, CallStamps
  <1>5. ASSUME NEW r \in Refreshers, subscriptionFailure(r) \/ StoreSame(r) \/ StoreNew(r)
        PROVE  Stamps' /\ NoEarlierAttempt
    <2>1. Stamps' /\ row[call[r].sub].attempt <= call[r].attempt BY <1>5, RecordStamps
    <2>2. /\ call[r].pc \in {"store", "failure"} /\ Exists(call[r].sub) /\ call[r].sub \in Subs
          /\ call[r].attempt \in Nat
      BY <1>5, CallKinds DEF subscriptionFailure, StoreSame, StoreNew, Current, Shapes
    <2>3. row'[call[r].sub].attempt = call[r].attempt
      <3>1. CASE subscriptionFailure(r)
        BY <2>2, <3>1, WrittenRows DEF subscriptionFailure, Shapes, Tables
      <3>2. CASE StoreSame(r) \/ StoreNew(r)
        BY <2>2, <3>2, WrittenRows DEF StoreSame, StoreNew, Shapes, Tables
      <3> QED BY <1>5, <3>1, <3>2
    <2>4. \A t \in Subs \ {call[r].sub} : row'[t] = row[t]
      BY <1>5, <2>2 DEF subscriptionFailure, StoreSame, StoreNew, Shapes, Tables
    <2> QED BY <1>0, <2>1, <2>2, <2>3, <2>4 DEF NoEarlierAttempt
  <1>6. ASSUME NEW r \in Refreshers, RefreshStep(r) PROVE Stamps' /\ NoEarlierAttempt
    BY <1>3, <1>4, <1>5, <1>6 DEF RefreshStep
  <1>7. ASSUME NEW s \in Subs, NEW r \in Requests, AdminRefresh(r, s)
        PROVE  Stamps' /\ NoEarlierAttempt
    BY <1>0, <1>1, <1>2, <1>7 DEF AdminRefresh
  <1>8. ASSUME RefreshDue \/ Tick \/ UNCHANGED vars PROVE Stamps' /\ NoEarlierAttempt
    <2>1. /\ UNCHANGED <<row, created, mu, call, attempts>> /\ clock' \in {clock, clock + 1}
      BY <1>8 DEF RefreshDue, Tick, vars
    <2> QED BY <1>1, <2>1, CallStamps
  <1>9. ASSUME NEW s \in Subs, RefreshNext(s) PROVE Stamps' /\ NoEarlierAttempt
    <2>1. UNCHANGED <<row, created, mu, clock>> BY <1>9 DEF RefreshNext
    <2>2. CASE Exists(s) BY <1>0, <1>1, <1>2, <1>9, <2>1, <2>2 DEF RefreshNext
    <2>3. CASE ~Exists(s)
      <3>1. UNCHANGED <<call, attempts>> BY <1>9, <2>3 DEF RefreshNext
      <3> QED BY <1>1, <2>1, <3>1, CallStamps
    <2> QED BY <2>2, <2>3
  <1>10. ASSUME NEW s \in Subs,
               \/ \E body \in Bodies, enabled \in BOOLEAN : createSubscription(s, body, enabled)
               \/ SetSubscriptionEnabled(s) \/ DeleteSubscription(s)
        PROVE  Stamps' /\ NoEarlierAttempt
    BY <1>0, <1>10, AdminStamps DEF NoEarlierAttempt
  <1>11. ASSUME Published \/ Crash PROVE Stamps' /\ NoEarlierAttempt
    BY <1>1, <1>11, EndStamps DEF Published, Crash
  <1>12. ASSUME PublishFails PROVE Stamps' /\ NoEarlierAttempt
    <2>1. /\ mu # Free /\ row' = [row EXCEPT ![mu.sub] = mu.before] /\ mu.sub \in Subs
          /\ row[mu.sub] = mu.stored /\ Wrote(mu) /\ mu.kind \in Kinds
      BY <1>12, RestoreIsBefore, FreeOrHeld DEF PublishFails, Shapes, Held, Holder
    <2>2. \A t \in Subs \ {mu.sub} : row'[t] = row[t] BY <2>1 DEF Shapes, Tables
    <2>3. row'[mu.sub] = mu.before BY <2>1 DEF Shapes, Tables
    <2>4. mu.kind = "enabled" => mu.before.attempt = mu.stored.attempt
      BY <2>1 DEF Wrote, Row
    <2>5. mu.kind \in {"create", "delete"} => mu.before = Absent \/ mu.stored = Absent
      BY <2>1 DEF Wrote
    <2>6. NoEarlierAttempt
      BY <1>0, <2>1, <2>2, <2>3, <2>4, <2>5 DEF NoEarlierAttempt, Kinds, Exists
    <2> QED BY <1>12, <2>6, EndStamps
  <1> QED BY <1>0, <1>6, <1>7, <1>8, <1>9, <1>10, <1>11, <1>12 DEF Next, TimerStep, PublishStep

\* The initial state.
LEMMA StampsInit ==
    ASSUME Init PROVE Stamps
  <1>1. \A q \in Refreshers, s \in Subs : ~On(q, s) BY DEF Init, On, NoCall
  <1>2. \A s \in Subs : Exists(s) => row[s].stamp = 1 /\ row[s].attempt = 0
    BY DEF Init, Exists
  <1>3. \A s \in Subs : ~Busy(s) /\ Time(s) = 1 BY DEF Init, Busy, Time
  <1>4. attempts = 0 BY DEF Init
  <1> SUFFICES ASSUME NEW s \in Subs PROVE StampsAt(s)
    BY DEF Stamps
  <1>5. \A base \in Bases(s) : Exists(s) /\ base = row[s] BY <1>3 DEF Bases, Exists
  <1>6. \A base \in Bases(s) : BaseOk(s, base) BY <1>1, <1>2, <1>4, <1>5 DEF BaseOk
  <1> QED BY <1>1, <1>2, <1>3, <1>6 DEF StampsAt

\* Shapes and stamps together.
RefreshInv == Shapes /\ Stamps

\* RefreshSubscription compares updated_at_ms only: whatever calls overlap, fail, are
\* undone and stamped again, the outcome of an attempt never replaces that of a later one.
THEOREM NewestAttemptAlwaysStays == Spec => NewestAttemptStays
  <1>1. Init => RefreshInv BY ShapesInit, StampsInit DEF RefreshInv
  <1>2. RefreshInv /\ [Next]_vars => RefreshInv' BY ShapesStep, StampsStep DEF RefreshInv
  <1>3. RefreshInv /\ [Next]_vars => [NoEarlierAttempt]_vars
    BY ShapesStep, StampsStep DEF RefreshInv
  <1>4. Spec => [][NoEarlierAttempt]_vars BY <1>1, <1>2, <1>3, PTL DEF Spec
  <1> QED BY <1>4 DEF NewestAttemptStays, NoEarlierAttempt
=============================================================================
