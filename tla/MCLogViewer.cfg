SPECIFICATION FairSpec
CONSTANTS
    Filter <- OneFilter
    Datasource <- TwoDatasources
    Listed <- OneListed
    TimeRange <- TwoRanges
    MaxRows = 2
    MaxPage = 1
    MaxOps = 3
    MaxEdits = 1
INVARIANTS
    TypeOK
    OneLiveTail
    RowsOfOneOrigin
    ShownTogether
    FieldsAreCurrent
PROPERTY LoadingEnds
CHECK_DEADLOCK FALSE
