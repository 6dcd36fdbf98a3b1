SPECIFICATION FairSpec
CONSTANTS
    MaxPictures = 2
INVARIANTS
    TypeOK
    StreamsOutliveCallbacks
    NothingLeft
PROPERTIES
    PicturesAdvance
