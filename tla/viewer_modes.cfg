SPECIFICATION FairSpec
CONSTANTS
    ModesUsed = {"demo", "portal", "pan", "two", "grid"}
    TickModulus = 6
    MaxLag = 1
    Angles <- HeadAngles
    Debounce = 1
    Cooldown = 2
    Retry = 2
    CalibrationLength = 3
    StillLength = 1
    MaxPictures = 2
    CapturedModes = {"pan"}
    Buttons = {"left"}
    Width = 2
    Views = {1, 3}
INVARIANTS
    TypeOK
    PointerIsOwned
    ButtonsAgree
    LeavesNothing
    DesktopIsKnown
    CalibrationIsStill
PROPERTIES
    SwitchIsDeliberate
    RestSwitchesOnce
    PictureGoesForward
    StoppedViewerExits
    HeldPoseIsReached
    PictureCatchesUp
CHECK_DEADLOCK FALSE
