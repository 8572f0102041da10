SPECIFICATION MCSpec
CONSTANTS
    Epp <- const_Epp
    CleanerDisabled = FALSE
    DeviceLines <- const_DeviceLines
    Align = 4
    FixedPages = 6
    LinePages = 2
    DiffMax = 12
INVARIANTS LayoutSound SettlesEarly SuperblockSound PagesSound
PROPERTIES AtomicConfig
CHECK_DEADLOCK FALSE
