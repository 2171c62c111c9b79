------------------------- MODULE MCRulePublication -------------------------
EXTENDS RulePublication
=============================================================================
