SPECIFICATION Spec
CONSTANTS
    MaxPredicateDepth = 3
    MaxPredicateNodes = 5
    Expressions <- MCExpressions
    MaxCallbacks = 1
    Contract <- MCContract
    Host <- MCHost
    Packages <- MCBasePackage
    Revisions <- MCRevisions
    MaxEdits = 3
    Arguments <- MCArguments
    Filters <- MCFilters
    Profiles <- MCDefaultProfile
    Rows <- MCRows
INVARIANT RestrictedPlansAdmitted
CHECK_DEADLOCK FALSE
