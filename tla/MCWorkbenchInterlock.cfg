SPECIFICATION TimelineSpec
CONSTANTS
    a1 = a1
    a2 = a2
    Editable = Editable
    Speakers = {a1}
    MaxRuns = 1
    MaxTexts = 1
    MaxKept = 1
    MaxFaults = 1
    MaxMounts = 2
    MaxWire = 2
INVARIANT InterlockReleased
CHECK_DEADLOCK FALSE
