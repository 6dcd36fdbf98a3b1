SPECIFICATION Spec
CONSTANTS
    ModesUsed = {"grid"}
    TickModulus = 5
    MaxLag = 1
    Angles <- HeadAngles
    Debounce = 1
    Cooldown = 2
    Retry = 2
    CalibrationLength = 3
    StillLength = 1
    MaxPictures = 2
    CapturedModes = {"pan"}
    Buttons = {"left"}
    Width = 2
    Views = {1, 3}
PROPERTIES
    RightIsRight
CHECK_DEADLOCK FALSE
