\* Three messages, pages of one row.
SPECIFICATION Spec
CONSTANTS
    MaxId = 3
    Limit = 1
INVARIANTS
    TypeOK
    SettledRows
    WalkComplete
    ListMatches
    PagedInOrder
