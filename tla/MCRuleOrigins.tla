---------------------------- MODULE MCRuleOrigins ----------------------------
EXTENDS RuleOrigins

\* The file changes, or it is resolved again for another reason.
OneCause == asked.refreshes + file.now <= 1
=============================================================================
