------------------------- MODULE MCOutcomeReporting -------------------------
EXTENDS OutcomeReporting

\* The forms of the eligibility checks and of the choice; the forms that tell
\* NOMIS a status while a decision is sought and given, once with the choice
\* and once with the postponement.
AllScopes == { {"excluded", "suitability", "exceptional", "choice"},
               {"postpone", "refuse", "release", "refuseReason"},
               {"choice", "refuse", "release"} }
Postponing == { {"postpone"} }
=============================================================================
