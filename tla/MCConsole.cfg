SPECIFICATION Spec
CONSTANTS
    Width = 32
    MaxY = 45
INVARIANTS
    OnGrid
    RightMargin
    RowsNeverInvented
PROPERTIES
    TextNeverCovered
