----------------------------- MODULE RuleEdits -----------------------------
(***************************************************************************)
(* The operations on the rule list: Create, Import, Update, Delete, Batch  *)
(* and Rollback derive a new list from domain_rules and publish it.  How   *)
(* publication goes is RulePublication's business; here it is the contract *)
(* that RulePublication is shown to implement: a list is recorded under    *)
(* the next number, and any recorded number above the published one may,   *)
(* at once or after a reconciliation, become the published one.            *)
(*                                                                         *)
(* Ids come from the counter next_rule_id in system_state.  Update is      *)
(* guarded by the updated_at_ms that the administrator's form was loaded   *)
(* with.  Time is counted in operations: every one publishes, with two     *)
(* commits and two calls to mosdns, so that the next one is later.         *)
(***************************************************************************)
EXTENDS Naturals, Sequences, FiniteSets

CONSTANTS
    Admins,    \* administrators with a rule form open
    Patterns,  \* category, match type and normalised pattern of a rule
    NoForm,    \* no rule loaded
    Absent,    \* no row under an id
    MaxTime,   \* bound on operations
    MaxRuleId  \* bound on rule ids

Ids  == 1..MaxRuleId
Rule == [pattern: Patterns, enabled: BOOLEAN, created: Nat, updated: Nat]
Form == [id: Ids, rule: Rule]

\* What a request says of a rule: the fields the service does not fill in.
Patch == [pattern: Patterns, enabled: BOOLEAN]

ASSUME EditsAssumption ==
    /\ MaxTime \in Nat /\ MaxRuleId \in Nat
    /\ Absent \notin Rule /\ NoForm \notin Form

VARIABLES
    proposed,  \* rules_json of the recorded versions
    served,    \* versions mosdns has served
    published, \* the active version and domain_rules
    lastId,    \* system_state next_rule_id: the last id given out
    clock,     \* time of the last operation
    form       \* form[a]: the rule administrator a has loaded, as it was then

vars == <<proposed, served, published, lastId, clock, form>>

\* domain_rules and rules_json: the row under each id.
Table == [Ids -> Rule \cup {Absent}]

EmptyTable == [i \in Ids |-> Absent]

Rows(table) == {i \in Ids : table[i] # Absent}

Contract == INSTANCE PublicationContract WITH RuleList <- Table, NoRules <- EmptyTable

Init ==
    /\ Contract!Init
    /\ lastId = 0 /\ clock = 0
    /\ form = [a \in Admins |-> NoForm]

----------------------------------------------------------------------------
(* Helpers                                                                 *)

\* allRules: what an operation starts from.
current == published.rules

\* time.Now() of the operation that is being executed.
now == clock + 1

Operation == clock < MaxTime /\ clock' = now

\* validateRules: no two rules of a category have the same pattern.
validateRules(table) ==
    \A i, j \in Rows(table) : table[i].pattern = table[j].pattern => i = j

\* publish: a list is recorded unless validateRules refuses it.  It may be
\* refused in any case: subscriptionSets, validateRouteTargets, the INSERT.
publish(table) ==
    \/ validateRules(table) /\ Contract!Propose(table)
    \/ UNCHANGED <<proposed, served, published>>

\* Mutant: ids follow the largest one in domain_rules.
reserveAfterLargest(n) ==
    LET largest == CHOOSE m \in 0..MaxRuleId :
                     /\ \A i \in Rows(current) : i <= m
                     /\ m = 0 \/ m \in Rows(current)
    IN  [k \in 1..n |-> largest + k]

\* reserveRuleIDs: the n ids after the last one given out ...
reserveRuleIDs(n) == [k \in 1..n |-> lastId + k]

\* Mutant: the counter is advanced once, whatever the number of ids.
counterAfterOne(n) == lastId + 1

\* ... and the value that it leaves in next_rule_id.
counterAfter(n) == lastId + n

\* Mutant: the stamp of the loaded rule is kept.
renewedKeeps(stamp) == stamp

\* The updated_at_ms of an updated rule.
renewed(stamp) == IF now <= stamp THEN stamp + 1 ELSE now

----------------------------------------------------------------------------
(* Operations                                                              *)

\* A rule that is new now.
New(patch) ==
    [pattern |-> patch.pattern, enabled |-> patch.enabled,
     created |-> now, updated |-> now]

\* table with the incoming rules under the given ids.
Extended(table, ids, incoming) ==
    [i \in Ids |->
        IF \E k \in DOMAIN ids : ids[k] = i
        THEN New(incoming[CHOOSE k \in DOMAIN ids : ids[k] = i])
        ELSE table[i]]

\* Create and Import: new rows under reserved ids.  The ids are gone even if
\* publish refuses the list.
Import(incoming) ==
    /\ Operation
    /\ lastId + Len(incoming) <= MaxRuleId
    /\ publish(Extended(current, reserveRuleIDs(Len(incoming)), incoming))
    /\ lastId' = counterAfter(Len(incoming))
    /\ UNCHANGED form

Create(rule) == Import(<<rule>>)

\* List: an administrator opens a rule.
List(a, id) ==
    /\ id \in Rows(current)
    /\ form' = [form EXCEPT ![a] = [id |-> id, rule |-> current[id]]]
    /\ UNCHANGED <<proposed, served, published, lastId, clock>>

\* Update: refused (ErrNoRows, ErrRuleConflict) unless the rule still has the
\* stamp it was loaded with; the patch replaces everything but id and creation.
Update(a, patch) ==
    /\ Operation
    /\ form[a] # NoForm
    /\ form[a].id \in Rows(current)
    /\ form[a].rule.updated = current[form[a].id].updated
    /\ publish([current EXCEPT ![form[a].id] =
         [pattern |-> patch.pattern, enabled |-> patch.enabled,
          created |-> current[form[a].id].created,
          updated |-> renewed(current[form[a].id].updated)]])
    /\ UNCHANGED <<lastId, form>>

\* Batch on known ids; enable and disable keep the stamp.
Batch(operation, ids) ==
    /\ Operation
    /\ ids # {} /\ ids \subseteq Rows(current)
    /\ publish(
         [i \in Ids |->
            IF i \notin ids THEN current[i]
            ELSE IF operation = "delete" THEN Absent
            ELSE [current[i] EXCEPT !.enabled = (operation = "enable")]])
    /\ UNCHANGED <<lastId, form>>

Delete(id) == Batch("delete", {id})

\* Rollback to any recorded version.
Rollback(from) ==
    /\ Operation
    /\ publish(proposed[from])
    /\ UNCHANGED <<lastId, form>>

\* Reconcile, and every subscription operation, publishes the list as it is.
Republish ==
    /\ Operation
    /\ publish(current)
    /\ UNCHANGED <<lastId, form>>

\* mosdns takes a recorded version; the controller activates it.
Served(v) ==
    /\ v \notin served
    /\ Contract!Serve(v)
    /\ UNCHANGED <<lastId, clock, form>>

Activated(v) ==
    /\ Contract!Publish(v)
    /\ UNCHANGED <<lastId, clock, form>>

Next ==
    \/ \E rule \in Patch : Create(rule)
    \/ \E first, second \in Patch : Import(<<first, second>>)
    \/ \E a \in Admins, id \in Rows(current) : List(a, id)
    \/ \E a \in Admins, patch \in Patch : Update(a, patch)
    \/ \E operation \in {"enable", "disable", "delete"}, ids \in SUBSET Rows(current) :
         Batch(operation, ids)
    \/ \E id \in Rows(current) : Delete(id)
    \/ \E from \in DOMAIN proposed : Rollback(from)
    \/ Republish
    \/ \E v \in DOMAIN proposed : Served(v) \/ Activated(v)

Spec == Init /\ [][Next]_vars

----------------------------------------------------------------------------
(* Properties                                                              *)

\* Recorded lists are tables of rules under ids that were given out.
Tables ==
    /\ proposed \in Seq(Table)
    /\ \A v \in DOMAIN proposed : Rows(proposed[v]) \subseteq 1..lastId
    /\ served \subseteq DOMAIN proposed
    /\ published \in [version: 0..Len(proposed), rules: Table]
    /\ lastId \in 0..MaxRuleId
    /\ clock \in 0..MaxTime
    /\ form \in [Admins -> Form \cup {NoForm}]

\* domain_rules is the rules_json of the active version, and empty before there is one.
PublishedIsProposed ==
    published.rules = IF published.version = 0 THEN EmptyTable
                      ELSE proposed[published.version]

\* Recorded lists are tables of rules under ids that were given out, forms show
\* rules, and the list that operations start from, allRules, is the one recorded
\* under the active version's number, or empty as long as there is none.
TypeOK == Tables /\ PublishedIsProposed

\* An id names one rule for ever: through deletions, failed publications and
\* rollbacks reserveRuleIDs never gives out an id that some version, which a
\* rollback or a reconciliation may bring back, uses for another rule.
IdNamesOneRule ==
    \A v, w \in DOMAIN proposed : \A i \in Rows(proposed[v]) \cap Rows(proposed[w]) :
        proposed[v][i].created = proposed[w][i].created

\* A form that the conflict check of Update lets pass shows the pattern of the rule
\* as it is now: no update, rollback or late activation has replaced it.
AcceptedFormIsCurrent ==
    \A a \in Admins :
        form[a] # NoForm /\ form[a].id \in Rows(current) =>
            LET rule == current[form[a].id] IN
            rule.updated = form[a].rule.updated => rule.pattern = form[a].rule.pattern

\* ErrRuleConflict, "rule changed since it was loaded", protects the whole rule:
\* a form that passes the check shows the rule's enabled flag too.
AcceptedFlagIsCurrent ==
    \A a \in Admins :
        form[a] # NoForm /\ form[a].id \in Rows(current) =>
            LET rule == current[form[a].id] IN
            rule.updated = form[a].rule.updated => rule.enabled = form[a].rule.enabled

----------------------------------------------------------------------------
(* The inductive invariant                                                 *)

\* No stamp is in the future.
StampsPast ==
    \A v \in DOMAIN proposed : \A i \in Rows(proposed[v]) :
        proposed[v][i].created <= clock /\ proposed[v][i].updated <= clock

\* In all versions together, a stamp belongs to one pattern of a rule.
StampNamesPattern ==
    \A v, w \in DOMAIN proposed : \A i \in Rows(proposed[v]) \cap Rows(proposed[w]) :
        proposed[v][i].updated = proposed[w][i].updated =>
            proposed[v][i].pattern = proposed[w][i].pattern

\* A form was loaded from a recorded list.
FormsAreProposed ==
    \A a \in Admins : form[a] # NoForm =>
        \E v \in DOMAIN proposed : /\ form[a].id \in Rows(proposed[v])
                                   /\ proposed[v][form[a].id] = form[a].rule

IInv ==
    /\ Tables
    /\ PublishedIsProposed
    /\ StampsPast
    /\ IdNamesOneRule
    /\ StampNamesPattern
    /\ FormsAreProposed

=============================================================================
