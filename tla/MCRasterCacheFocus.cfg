SPECIFICATION Spec
CONSTANTS
    Nodes = {"panel", "knob"}
    Parent <- InPanel
    None = "none"
    Boundaries = {"panel"}
    Places <- OnePlace
    ShowsFocus = {"knob"}
    TellsFocus = {}
    HasEffects = {}
    MaxGeneration = 2
    MaxLives = 2
    MaxImages = 1
INVARIANT ReusedIsCurrent
CHECK_DEADLOCK FALSE
