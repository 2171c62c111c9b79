------------------------ MODULE PublicationContract ------------------------
(***************************************************************************)
(* What the rule service promises to everything above it, without the      *)
(* database, the worker or the calls to mosdns: rule lists are proposed    *)
(* under consecutive numbers, the runtime serves only proposed numbers,    *)
(* and the published rules change only to a list the runtime has served,   *)
(* under a higher number than before.                                      *)
(***************************************************************************)
EXTENDS Naturals, Sequences

CONSTANTS
    RuleList,  \* the rule lists that can be proposed
    NoRules    \* what is published before the first publication

VARIABLES
    proposed,  \* proposed[v] is the list recorded under version v
    served,    \* the versions the runtime has served
    published  \* the version and the list that administrators see

vars == <<proposed, served, published>>

Init ==
    /\ proposed = <<>>
    /\ served = {}
    /\ published = [version |-> 0, rules |-> NoRules]

Propose(rules) ==
    /\ proposed' = Append(proposed, rules)
    /\ UNCHANGED <<served, published>>

Serve(v) ==
    /\ served' = served \cup {v}
    /\ UNCHANGED <<proposed, published>>

Publish(v) ==
    /\ v \in served
    /\ v > published.version
    /\ published' = [version |-> v, rules |-> proposed[v]]
    /\ UNCHANGED <<proposed, served>>

Next ==
    \/ \E rules \in RuleList : Propose(rules)
    \/ \E v \in DOMAIN proposed : Serve(v)
    \/ \E v \in DOMAIN proposed : Publish(v)

Spec == Init /\ [][Next]_vars

=============================================================================
