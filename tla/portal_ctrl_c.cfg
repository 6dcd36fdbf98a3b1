SPECIFICATION FairSpec
CONSTANTS
    MaxPictures = 1
PROPERTIES
    CtrlCStops
