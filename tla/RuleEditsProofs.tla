-------------------------- MODULE RuleEditsProofs --------------------------
(***************************************************************************)
(* Proofs about RuleEdits: ids and stamps identify rules and patterns      *)
(* across all recorded versions, for any number of administrators and      *)
(* operations.                                                             *)
(***************************************************************************)
EXTENDS RuleEdits, TLAPS

\* A list that may be recorded next: its rows agree with every recorded row
\* that has the same id, or the same id and stamp.
Fits(table) ==
    /\ table \in Table
    /\ \A i \in Rows(table) :
         /\ i <= lastId'
         /\ table[i].created <= clock' /\ table[i].updated <= clock'
    /\ \A v \in DOMAIN proposed : \A i \in Rows(table) \cap Rows(proposed[v]) :
         /\ table[i].created = proposed[v][i].created
         /\ table[i].updated = proposed[v][i].updated =>
              table[i].pattern = proposed[v][i].pattern

----------------------------------------------------------------------------
(* Lists                                                                   *)

\* What a row is.
LEMMA RowFacts ==
    ASSUME NEW table \in Table, NEW i \in Rows(table)
    PROVE  /\ i \in Ids /\ i \in Nat /\ table[i] \in Rule
           /\ table[i].pattern \in Patterns /\ table[i].enabled \in BOOLEAN
           /\ table[i].created \in Nat /\ table[i].updated \in Nat
BY EditsAssumption DEF Rows, Table, Rule, Ids

\* Before anything is published there is a list without rows.
LEMMA EmptyTableFacts == EmptyTable \in Table /\ Rows(EmptyTable) = {}
BY DEF EmptyTable, Table, Rows, Ids

\* Operations start from nothing or from a recorded list.
LEMMA CurrentIsProposed ==
    ASSUME IInv
    PROVE  published.rules = EmptyTable \/ \E v \in DOMAIN proposed : published.rules = proposed[v]
<1>1. CASE published.version = 0
  BY <1>1 DEF IInv, PublishedIsProposed
<1>2. CASE published.version # 0
  <2>1. published.version \in DOMAIN proposed BY <1>2 DEF IInv, Tables
  <2>2. QED BY <1>2, <2>1 DEF IInv, PublishedIsProposed
<1>3. QED BY <1>1, <1>2

\* The published list fits: what an operation does not touch can be kept.
LEMMA CurrentFits ==
    ASSUME IInv, lastId <= lastId', lastId' \in Nat, clock' = clock + 1
    PROVE  Fits(current)
<1>1. current \in Table BY DEF IInv, Tables, current
<1>2. CASE published.rules = EmptyTable
  BY <1>1, <1>2, EmptyTableFacts DEF Fits, current
<1>3. CASE \E v \in DOMAIN proposed : published.rules = proposed[v]
  <2>1. PICK v \in DOMAIN proposed : current = proposed[v] BY <1>3 DEF current
  <2>2. \A i \in Rows(current) :
          /\ i <= lastId'
          /\ current[i].created <= clock' /\ current[i].updated <= clock'
    <3>1. TAKE i \in Rows(current)
    <3>2. i \in 1..lastId BY <2>1, <3>1 DEF IInv, Tables
    <3>3. current[i].created <= clock /\ current[i].updated <= clock
      BY <2>1, <3>1 DEF IInv, StampsPast
    <3>4. current[i].created \in Nat /\ current[i].updated \in Nat /\ i \in Nat
      BY <1>1, <3>1, RowFacts
    <3>5. clock \in Nat /\ lastId \in Nat BY EditsAssumption DEF IInv, Tables
    <3>6. QED BY <3>2, <3>3, <3>4, <3>5
  <2>3. \A w \in DOMAIN proposed : \A i \in Rows(current) \cap Rows(proposed[w]) :
          /\ current[i].created = proposed[w][i].created
          /\ current[i].updated = proposed[w][i].updated =>
               current[i].pattern = proposed[w][i].pattern
    BY <2>1 DEF IInv, IdNamesOneRule, StampNamesPattern
  <2>4. QED BY <1>1, <2>2, <2>3 DEF Fits
<1>4. QED BY <1>2, <1>3, CurrentIsProposed

----------------------------------------------------------------------------
(* Recording a list, and steps that record nothing                         *)

\* publish keeps the invariant if the list it is given fits.
LEMMA PublishStep ==
    ASSUME IInv, NEW table, Fits(table), publish(table), Operation,
           lastId' \in 0..MaxRuleId, lastId <= lastId', UNCHANGED form
    PROVE  IInv'
<1> USE DEF IInv
<1>1. clock \in Nat /\ lastId \in Nat /\ lastId' \in Nat /\ clock' = clock + 1
      /\ clock' \in 0..MaxTime
  BY EditsAssumption DEF Tables, Operation, now
<1>2. served' = served /\ published' = published
  BY DEF publish, Contract!Propose
<1>3. CASE proposed' = proposed
  <2>1. Tables'
    BY <1>1, <1>2, <1>3 DEF Tables
  <2>2. StampsPast'
    <3>1. SUFFICES ASSUME NEW v \in DOMAIN proposed, NEW i \in Rows(proposed[v])
                   PROVE  proposed[v][i].created <= clock + 1
                          /\ proposed[v][i].updated <= clock + 1
      BY <1>1, <1>3 DEF StampsPast
    <3>2. proposed[v] \in Table BY DEF Tables
    <3>3. proposed[v][i].created \in Nat /\ proposed[v][i].updated \in Nat
      BY <3>2, RowFacts
    <3>4. proposed[v][i].created <= clock /\ proposed[v][i].updated <= clock
      BY DEF StampsPast
    <3>5. QED BY <1>1, <3>3, <3>4
  <2>3. PublishedIsProposed' /\ IdNamesOneRule' /\ StampNamesPattern' /\ FormsAreProposed'
    BY <1>2, <1>3
       DEF PublishedIsProposed, IdNamesOneRule, StampNamesPattern, FormsAreProposed
  <2>4. QED BY <2>1, <2>2, <2>3
<1>4. CASE proposed' = Append(proposed, table)
  <2>1. table \in Table /\ proposed \in Seq(Table) /\ Len(proposed) \in Nat
    BY DEF Fits, Tables
  <2>2. /\ proposed' \in Seq(Table) /\ Len(proposed') = Len(proposed) + 1
        /\ DOMAIN proposed' = DOMAIN proposed \cup {Len(proposed) + 1}
        /\ DOMAIN proposed = 1..Len(proposed)
    BY <1>4, <2>1
  <2>3. \A v \in DOMAIN proposed : proposed'[v] = proposed[v]
    BY <1>4, <2>1
  <2>4. proposed'[Len(proposed) + 1] = table
    BY <1>4, <2>1
  <2>5. \A v \in DOMAIN proposed' : proposed'[v] = table \/ v \in DOMAIN proposed
    BY <2>2, <2>4
  <2>6. \A v \in DOMAIN proposed : \A i \in Rows(proposed[v]) :
          /\ i <= lastId' /\ i \in Nat \ {0}
          /\ proposed[v][i].created <= clock' /\ proposed[v][i].updated <= clock'
    <3> TAKE v \in DOMAIN proposed
    <3> TAKE i \in Rows(proposed[v])
    <3>2. proposed[v] \in Table BY <2>1
    <3>3. proposed[v][i].created \in Nat /\ proposed[v][i].updated \in Nat
      BY <3>2, RowFacts
    <3>4. proposed[v][i].created <= clock /\ proposed[v][i].updated <= clock
      BY DEF StampsPast
    <3>5. i \in 1..lastId BY DEF Tables
    <3>6. QED BY <1>1, <3>3, <3>4, <3>5
  <2>7. Tables'
    <3>1. \A v \in DOMAIN proposed' : Rows(proposed'[v]) \subseteq 1..lastId'
      <4>1. Rows(table) \subseteq 1..lastId'
        BY <1>1 DEF Fits, Rows, Ids
      <4>2. \A v \in DOMAIN proposed : Rows(proposed[v]) \subseteq 1..lastId'
        BY <1>1, <2>6
      <4>3. QED BY <2>3, <2>5, <4>1, <4>2
    <3>2. served' \subseteq DOMAIN proposed' BY <1>2, <2>2 DEF Tables
    <3>3. published' \in [version: 0..Len(proposed'), rules: Table]
      BY <1>2, <2>1, <2>2 DEF Tables
    <3>4. QED BY <1>1, <2>2, <3>1, <3>2, <3>3 DEF Tables
  <2>8. PublishedIsProposed'
    <3>1. published.version # 0 => published.version \in DOMAIN proposed BY <2>2 DEF Tables
    <3>2. QED BY <1>2, <2>3, <3>1 DEF PublishedIsProposed
  <2>9. StampsPast'
    BY <2>3, <2>5, <2>6 DEF StampsPast, Fits
  <2>10. IdNamesOneRule'
    BY <2>3, <2>5 DEF IdNamesOneRule, Fits
  <2>11. StampNamesPattern'
    BY <2>3, <2>5 DEF StampNamesPattern, Fits
  <2>12. FormsAreProposed'
    BY <2>2, <2>3 DEF FormsAreProposed
  <2>13. QED BY <2>7, <2>8, <2>9, <2>10, <2>11, <2>12
<1>5. QED BY <1>3, <1>4 DEF publish, Contract!Propose

----------------------------------------------------------------------------
(* Operations: the list that each one publishes fits                       *)

\* Create and Import: a reserved id is above every recorded one.
LEMMA ImportStep ==
    ASSUME IInv, NEW incoming \in Seq(Patch), Import(incoming)
    PROVE  IInv'
<1> DEFINE n == Len(incoming)
           ids == reserveRuleIDs(n)
           table == Extended(current, ids, incoming)
<1>1. /\ n \in Nat /\ lastId \in Nat /\ clock \in Nat /\ MaxRuleId \in Nat
      /\ clock' = clock + 1 /\ lastId' = lastId + n /\ lastId' <= MaxRuleId
  BY EditsAssumption DEF IInv, Tables, Import, Operation, now, counterAfter
<1>2. Fits(current) BY <1>1, CurrentFits
<1>3. DOMAIN ids = 1..n /\ \A k \in 1..n : ids[k] = lastId + k
  BY DEF reserveRuleIDs
<1>4. ASSUME NEW i \in Ids, \E k \in DOMAIN ids : ids[k] = i
      PROVE  /\ i \in lastId + 1 .. lastId'
             /\ table[i] \in Rule /\ table[i].created = clock' /\ table[i].updated = clock'
  <2>1. PICK k \in DOMAIN ids : k = CHOOSE m \in DOMAIN ids : ids[m] = i
    BY <1>4
  <2>2. incoming[k] \in Patch BY <1>3, <2>1
  <2>3. table[i] = New(incoming[k]) BY <1>4, <2>1 DEF Extended
  <2>4. \E m \in 1..n : i = lastId + m BY <1>3, <1>4
  <2>5. QED BY <1>1, <2>2, <2>3, <2>4 DEF New, Rule, Patch, now
<1>5. ASSUME NEW i \in Ids, ~ \E k \in DOMAIN ids : ids[k] = i
      PROVE  table[i] = current[i]
  BY <1>5 DEF Extended
<1>6. table \in Table
  <2>1. \A i \in Ids : table[i] \in Rule \cup {Absent}
    BY <1>2, <1>4, <1>5 DEF Fits, Table
  <2>2. QED BY <2>1 DEF Extended, Table
<1>7. \A i \in Rows(table) :
        /\ i <= lastId'
        /\ table[i].created <= clock' /\ table[i].updated <= clock'
  <2> TAKE i \in Rows(table)
  <2>1. i \in Ids BY DEF Rows
  <2>2. CASE \E k \in DOMAIN ids : ids[k] = i
    BY <1>1, <1>4, <2>1, <2>2
  <2>3. CASE ~ \E k \in DOMAIN ids : ids[k] = i
    <3>1. table[i] = current[i] BY <1>5, <2>1, <2>3
    <3>2. i \in Rows(current) BY <2>1, <3>1 DEF Rows
    <3>3. QED BY <1>2, <3>1, <3>2 DEF Fits
  <2>4. QED BY <2>2, <2>3
<1>8. ASSUME NEW v \in DOMAIN proposed, NEW i \in Rows(table) \cap Rows(proposed[v])
      PROVE  /\ table[i].created = proposed[v][i].created
             /\ table[i].updated = proposed[v][i].updated =>
                  table[i].pattern = proposed[v][i].pattern
  <2>1. i \in Ids /\ i \in 1..lastId BY DEF Rows, IInv, Tables
  <2>2. ~ \E k \in DOMAIN ids : ids[k] = i BY <1>1, <1>4, <2>1
  <2>3. table[i] = current[i] BY <1>5, <2>1, <2>2
  <2>4. i \in Rows(current) BY <2>1, <2>3 DEF Rows
  <2>5. QED BY <1>2, <2>3, <2>4 DEF Fits
<1>9. Fits(table) BY <1>6, <1>7, <1>8 DEF Fits
<1>10. QED BY <1>1, <1>9, PublishStep DEF Import

\* Update: the new stamp is in no recorded version yet.
LEMMA UpdateStep ==
    ASSUME IInv, NEW a \in Admins, NEW patch \in Patch, Update(a, patch)
    PROVE  IInv'
<1> DEFINE id == form[a].id
           rule == [pattern |-> patch.pattern, enabled |-> patch.enabled,
                    created |-> current[id].created,
                    updated |-> renewed(current[id].updated)]
           table == [current EXCEPT ![id] = rule]
<1>1. /\ lastId \in Nat /\ clock \in Nat /\ clock' = clock + 1
      /\ lastId' = lastId /\ lastId \in 0..MaxRuleId
  BY EditsAssumption DEF IInv, Tables, Update, Operation, now
<1>2. Fits(current) BY <1>1, CurrentFits
<1>3. id \in Rows(current) /\ current \in Table
  BY <1>2 DEF Update, Fits
<1>4. current[id].created \in Nat /\ current[id].updated \in Nat /\ id \in Ids
  BY <1>3, RowFacts
<1>5. current[id].updated <= clock
  <2>1. current # EmptyTable BY <1>3, EmptyTableFacts
  <2>2. PICK v \in DOMAIN proposed : current = proposed[v]
    BY <2>1, CurrentIsProposed DEF current
  <2>3. QED BY <1>3, <2>2 DEF IInv, StampsPast
<1>6. renewed(current[id].updated) = clock'
  BY <1>1, <1>4, <1>5 DEF renewed, now
<1>7. rule \in Rule /\ rule.created = current[id].created /\ rule.updated = clock'
  BY <1>1, <1>4, <1>6 DEF Rule, Patch
<1>8. table[id] = rule /\ \A i \in Ids : i # id => table[i] = current[i]
  BY <1>3, <1>4 DEF Table
<1>9. table \in Table BY <1>3, <1>4, <1>7 DEF Table
<1>10. Rows(table) \subseteq Rows(current)
  BY <1>3, <1>8 DEF Rows
<1>11. \A i \in Rows(table) :
         /\ i <= lastId'
         /\ table[i].created <= clock' /\ table[i].updated <= clock'
  <2> TAKE i \in Rows(table)
  <2>1. i \in Rows(current) /\ i \in Ids BY <1>10 DEF Rows
  <2>2. CASE i = id BY <1>1, <1>2, <1>7, <1>8, <2>1, <2>2 DEF Fits
  <2>3. CASE i # id BY <1>2, <1>8, <2>1, <2>3 DEF Fits
  <2>4. QED BY <2>2, <2>3
<1>12. ASSUME NEW v \in DOMAIN proposed, NEW i \in Rows(table) \cap Rows(proposed[v])
       PROVE  /\ table[i].created = proposed[v][i].created
              /\ table[i].updated = proposed[v][i].updated =>
                   table[i].pattern = proposed[v][i].pattern
  <2>1. i \in Rows(current) /\ i \in Ids BY <1>10 DEF Rows
  <2>2. CASE i = id
    <3>1. proposed[v] \in Table BY DEF IInv, Tables
    <3>2. proposed[v][i].updated \in Nat BY <3>1, RowFacts
    <3>3. proposed[v][i].updated <= clock BY DEF IInv, StampsPast
    <3>4. table[i].updated # proposed[v][i].updated
      BY <1>1, <1>7, <1>8, <2>2, <3>2, <3>3
    <3>5. table[i].created = proposed[v][i].created
      BY <1>2, <1>7, <1>8, <2>1, <2>2 DEF Fits
    <3>6. QED BY <3>4, <3>5
  <2>3. CASE i # id BY <1>2, <1>8, <2>1, <2>3 DEF Fits
  <2>4. QED BY <2>2, <2>3
<1>13. Fits(table) BY <1>9, <1>11, <1>12 DEF Fits
<1>14. publish(table) BY DEF Update
<1>15. QED BY <1>1, <1>13, <1>14, PublishStep DEF Update

\* Batch and Delete: rows disappear or change their flag, stamp and pattern stay.
LEMMA BatchStep ==
    ASSUME IInv, NEW operation, NEW ids, Batch(operation, ids)
    PROVE  IInv'
<1> DEFINE table == [i \in Ids |->
                       IF i \notin ids THEN current[i]
                       ELSE IF operation = "delete" THEN Absent
                       ELSE [current[i] EXCEPT !.enabled = (operation = "enable")]]
<1>1. /\ lastId \in Nat /\ clock \in Nat /\ clock' = clock + 1
      /\ lastId' = lastId /\ lastId \in 0..MaxRuleId
  BY EditsAssumption DEF IInv, Tables, Batch, Operation, now
<1>2. Fits(current) BY <1>1, CurrentFits
<1>3. ids \subseteq Rows(current) /\ current \in Table BY <1>2 DEF Batch, Fits
<1>4. ASSUME NEW i \in Ids
      PROVE  \/ table[i] = Absent
             \/ /\ i \in Rows(current) /\ table[i] \in Rule
                /\ table[i].created = current[i].created
                /\ table[i].updated = current[i].updated
                /\ table[i].pattern = current[i].pattern
  <2>1. CASE i \in ids /\ operation # "delete"
    <3>1. i \in Rows(current) /\ current[i] \in Rule BY <1>3, <2>1, RowFacts
    <3>2. table[i] = [current[i] EXCEPT !.enabled = (operation = "enable")]
      BY <2>1
    <3>3. (operation = "enable") \in BOOLEAN OBVIOUS
    <3>4. QED BY <3>1, <3>2, <3>3 DEF Rule
  <2>2. CASE i \in ids /\ operation = "delete" BY <2>2
  <2>3. CASE i \notin ids
    BY <1>3, <2>3 DEF Rows, Table
  <2>4. QED BY <2>1, <2>2, <2>3
<1>5. table \in Table BY <1>4 DEF Table
<1>6. Fits(table)
  <2>1. \A i \in Rows(table) :
          /\ i \in Rows(current)
          /\ table[i].created = current[i].created
          /\ table[i].updated = current[i].updated
          /\ table[i].pattern = current[i].pattern
    BY <1>4 DEF Rows
  <2>2. QED BY <1>2, <1>5, <2>1 DEF Fits
<1>7. publish(table) BY DEF Batch
<1>8. QED BY <1>1, <1>6, <1>7, PublishStep DEF Batch

\* Rollback: a recorded list agrees with all the others already.
LEMMA RollbackStep ==
    ASSUME IInv, NEW from \in DOMAIN proposed, Rollback(from)
    PROVE  IInv'
<1>1. /\ lastId \in Nat /\ clock \in Nat /\ clock' = clock + 1
      /\ lastId' = lastId /\ lastId \in 0..MaxRuleId
  BY EditsAssumption DEF IInv, Tables, Rollback, Operation, now
<1>2. proposed[from] \in Table BY DEF IInv, Tables
<1>3. \A i \in Rows(proposed[from]) :
        /\ i <= lastId'
        /\ proposed[from][i].created <= clock' /\ proposed[from][i].updated <= clock'
  <2> TAKE i \in Rows(proposed[from])
  <2>1. i \in 1..lastId BY DEF IInv, Tables
  <2>2. proposed[from][i].created <= clock /\ proposed[from][i].updated <= clock
    BY DEF IInv, StampsPast
  <2>3. proposed[from][i].created \in Nat /\ proposed[from][i].updated \in Nat
    BY <1>2, RowFacts
  <2>4. QED BY <1>1, <2>1, <2>2, <2>3
<1>4. Fits(proposed[from])
  BY <1>2, <1>3 DEF Fits, IInv, IdNamesOneRule, StampNamesPattern
<1>5. QED BY <1>1, <1>4, PublishStep DEF Rollback

\* Republication of the list as it is.
LEMMA RepublishStep ==
    ASSUME IInv, Republish
    PROVE  IInv'
<1>1. /\ lastId \in Nat /\ clock \in Nat /\ clock' = clock + 1
      /\ lastId' = lastId /\ lastId \in 0..MaxRuleId
  BY EditsAssumption DEF IInv, Tables, Republish, Operation, now
<1>2. Fits(current) BY <1>1, CurrentFits
<1>3. QED BY <1>1, <1>2, PublishStep DEF Republish

----------------------------------------------------------------------------
(* Steps that record nothing                                               *)

\* List: the form shows a recorded rule.
LEMMA ListStep ==
    ASSUME IInv, NEW a \in Admins, NEW id \in Rows(current), List(a, id)
    PROVE  IInv'
<1>1. UNCHANGED <<proposed, served, published, lastId, clock>> BY DEF List
<1>2. current \in Table BY DEF IInv, Tables, current
<1>3. id \in Ids /\ current[id] \in Rule BY <1>2, RowFacts
<1>4. PICK v \in DOMAIN proposed : current = proposed[v]
  <2>1. current # EmptyTable BY EmptyTableFacts
  <2>2. QED BY <2>1, CurrentIsProposed DEF current
<1>5. form' = [form EXCEPT ![a] = [id |-> id, rule |-> current[id]]]
      /\ form \in [Admins -> Form \cup {NoForm}]
  BY DEF List, IInv, Tables
<1>6. form' \in [Admins -> Form \cup {NoForm}] BY <1>3, <1>5 DEF Form
<1>7. Tables' BY <1>1, <1>6 DEF IInv, Tables
<1>8. FormsAreProposed'
  <2>1. SUFFICES ASSUME NEW b \in Admins, form'[b] # NoForm
                 PROVE  \E w \in DOMAIN proposed : /\ form'[b].id \in Rows(proposed[w])
                                                   /\ proposed[w][form'[b].id] = form'[b].rule
    BY <1>1 DEF FormsAreProposed
  <2>2. CASE b = a
    <3>1. form'[b].id = id /\ form'[b].rule = current[id] BY <1>5, <2>2
    <3>2. QED BY <1>4, <3>1
  <2>3. CASE b # a
    <3>1. form'[b] = form[b] BY <1>5, <2>3
    <3>2. QED BY <2>1, <3>1 DEF IInv, FormsAreProposed
  <2>4. QED BY <2>2, <2>3
<1>9. PublishedIsProposed' /\ StampsPast' /\ IdNamesOneRule' /\ StampNamesPattern'
  BY <1>1
     DEF IInv, PublishedIsProposed, StampsPast, IdNamesOneRule, StampNamesPattern
<1>10. QED BY <1>7, <1>8, <1>9 DEF IInv

\* The runtime adopts a version; the controller activates one.
LEMMA RuntimeStep ==
    ASSUME IInv, NEW v \in DOMAIN proposed, Served(v) \/ Activated(v)
    PROVE  IInv'
<1>1. UNCHANGED <<proposed, lastId, clock, form>>
  BY DEF Served, Activated, Contract!Serve, Contract!Publish
<1>2. proposed[v] \in Table /\ v \in 0..Len(proposed) BY DEF IInv, Tables
<1>3. served' \subseteq DOMAIN proposed
  BY DEF Served, Activated, Contract!Serve, Contract!Publish, IInv, Tables
<1>4. \/ published' = published
      \/ published' = [version |-> v, rules |-> proposed[v]]
  BY DEF Served, Activated, Contract!Serve, Contract!Publish
<1>5. Tables' BY <1>1, <1>2, <1>3, <1>4 DEF IInv, Tables
<1>6. PublishedIsProposed' BY <1>1, <1>2, <1>4 DEF IInv, Tables, PublishedIsProposed
<1>7. StampsPast' /\ IdNamesOneRule' /\ StampNamesPattern' /\ FormsAreProposed'
  BY <1>1
     DEF IInv, StampsPast, IdNamesOneRule, StampNamesPattern, FormsAreProposed
<1>8. QED BY <1>5, <1>6, <1>7 DEF IInv

----------------------------------------------------------------------------
(* Theorems                                                                *)

\* The invariant holds in every reachable state.
THEOREM Inductive == Spec => []IInv
<1>1. Init => IInv
  <2>1. SUFFICES ASSUME Init PROVE IInv OBVIOUS
  <2>2. proposed = <<>> /\ served = {} /\ published = [version |-> 0, rules |-> EmptyTable]
    BY <2>1 DEF Init, Contract!Init
  <2>3. Tables
    BY <2>1, <2>2, EditsAssumption, EmptyTableFacts DEF Init, Tables
  <2>4. QED
    BY <2>1, <2>2, <2>3
       DEF IInv, PublishedIsProposed, StampsPast, IdNamesOneRule, StampNamesPattern,
           FormsAreProposed, Init
<1>2. IInv /\ [Next]_vars => IInv'
  <2>1. SUFFICES ASSUME IInv, [Next]_vars PROVE IInv' OBVIOUS
  <2>2. CASE \E rule \in Patch : Create(rule)
    <3>1. PICK rule \in Patch : Create(rule) BY <2>2
    <3>2. <<rule>> \in Seq(Patch) OBVIOUS
    <3>3. QED BY <2>1, <3>1, <3>2, ImportStep DEF Create
  <2>3. CASE \E first, second \in Patch : Import(<<first, second>>)
    <3>1. PICK first, second \in Patch : Import(<<first, second>>) BY <2>3
    <3>2. <<first, second>> \in Seq(Patch) OBVIOUS
    <3>3. QED BY <2>1, <3>1, <3>2, ImportStep
  <2>4. CASE \E a \in Admins, id \in Rows(current) : List(a, id)
    BY <2>1, <2>4, ListStep
  <2>5. CASE \E a \in Admins, patch \in Patch : Update(a, patch)
    BY <2>1, <2>5, UpdateStep
  <2>6. CASE \E operation \in {"enable", "disable", "delete"}, ids \in SUBSET Rows(current) :
               Batch(operation, ids)
    BY <2>1, <2>6, BatchStep
  <2>7. CASE \E id \in Rows(current) : Delete(id)
    BY <2>1, <2>7, BatchStep DEF Delete
  <2>8. CASE \E from \in DOMAIN proposed : Rollback(from)
    BY <2>1, <2>8, RollbackStep
  <2>9. CASE \E v \in DOMAIN proposed : Served(v) \/ Activated(v)
    BY <2>1, <2>9, RuntimeStep
  <2>10. CASE Republish
    BY <2>1, <2>10, RepublishStep
  <2>11. CASE UNCHANGED vars
    BY <2>1, <2>11
       DEF vars, IInv, Tables, PublishedIsProposed, StampsPast, IdNamesOneRule,
           StampNamesPattern, FormsAreProposed
  <2>12. QED
    BY <2>1, <2>2, <2>3, <2>4, <2>5, <2>6, <2>7, <2>8, <2>9, <2>10, <2>11 DEF Next
<1>3. QED BY <1>1, <1>2, PTL DEF Spec

\* Recorded lists are tables of rules under ids that were given out, and the list that
\* operations start from is the one recorded under the active version's number, through
\* imports of any length, batches, rollbacks and late activations.
THEOREM EditsTypeCorrect == Spec => []TypeOK
<1>1. IInv => TypeOK BY DEF IInv, TypeOK
<1>2. QED BY <1>1, Inductive, PTL

\* reserveRuleIDs never reuses an id of any version, for any number of operations.
THEOREM IdsNameOneRule == Spec => []IdNamesOneRule
<1>1. IInv => IdNamesOneRule BY DEF IInv
<1>2. QED BY <1>1, Inductive, PTL

\* The conflict check of Update lets no form pass whose pattern is out of date.
THEOREM AcceptedFormsAreCurrent == Spec => []AcceptedFormIsCurrent
<1>1. IInv => AcceptedFormIsCurrent
  <2>1. SUFFICES ASSUME IInv, NEW a \in Admins, form[a] # NoForm,
                        form[a].id \in Rows(current),
                        current[form[a].id].updated = form[a].rule.updated
                 PROVE  current[form[a].id].pattern = form[a].rule.pattern
    BY DEF AcceptedFormIsCurrent
  <2>2. PICK v \in DOMAIN proposed : /\ form[a].id \in Rows(proposed[v])
                                    /\ proposed[v][form[a].id] = form[a].rule
    BY <2>1 DEF IInv, FormsAreProposed
  <2>3. PICK w \in DOMAIN proposed : current = proposed[w]
    <3>1. current # EmptyTable BY <2>1, EmptyTableFacts
    <3>2. QED BY <2>1, <3>1, CurrentIsProposed DEF current
  <2>4. QED BY <2>1, <2>2, <2>3 DEF IInv, StampNamesPattern
<1>2. QED BY <1>1, Inductive, PTL

=============================================================================
