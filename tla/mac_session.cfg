SPECIFICATION FairSpec
CONSTANTS
    MaxStarts = 2
    MaxPlugs = 3
    MaxEvents = 5
INVARIANTS
    TypeOK
    StoppedHoldsNothing
    DeviceIsOpened
PROPERTIES
    CallsReturn
