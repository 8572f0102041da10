CONSTANTS
    Slots = {0, 1}
    Configs <- NamesAndDevices
    Lines = {l1}
    MaxFail = 1
    MaxCrash = 1
SPECIFICATION MCSpec
INVARIANTS CoresSound DataOwned FlushSound
PROPERTIES ManagementEnds
CHECK_DEADLOCK FALSE
