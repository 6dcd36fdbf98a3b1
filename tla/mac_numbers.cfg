SPECIFICATION Spec
CONSTANTS
    MaxStarts = 1
    MaxPlugs = 1
    MaxEvents = 3
PROPERTIES
    NumbersIncrease
