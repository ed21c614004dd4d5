SPECIFICATION Spec
CONSTANTS
    desk = desk
    laptop = laptop
    Devices = {desk, laptop}
    Habits <- LookedAt
    RemovesOnSave = TRUE
    None = None
    MaxEdits = 2
    MaxOpens = 2
    MaxVersion = 3
    MaxBirths = 2
    MaxNet = 2
CHECK_DEADLOCK FALSE
PROPERTIES ReplacesOnlyDecided
