SPECIFICATION Spec
CONSTANTS
    MaxPredicateDepth = 3
    MaxPredicateNodes = 5
    Expressions <- MCExpressions
    MaxCallbacks = 2
    Contract <- MCContract
    Host <- MCHost
    Packages <- MCPackages
    Revisions <- MCRevisions
    MaxEdits = 3
    Arguments <- MCArguments
    Filters <- MCFilters
    Profiles <- MCProfiles
    Rows <- MCRows
INVARIANTS
    PushdownSound
    SelectionJustified
    AdmittedNeverWidens
    TranslationFits
    AcquiredWhole
CHECK_DEADLOCK FALSE
