SPECIFICATION PlacementSpec
CONSTANTS
    NoVar = NoVar
    Bound = {a, b, c}
    Assigned = {x}
    Intervals = {0, 1, 2}
    MaxLength = 5
INVARIANTS PlacedAsDriven OncePerEpoch SourceOrder
\* A block that is long enough is finished.
CHECK_DEADLOCK FALSE
