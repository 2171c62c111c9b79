---------------------------- MODULE MCRuleEdits ----------------------------
EXTENDS RuleEdits
=============================================================================
