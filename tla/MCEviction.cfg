SPECIFICATION MCSpec
INVARIANTS LruSound LfuSound SpaceSound StreamsSound
PROPERTIES EvictionFair
CHECK_DEADLOCK FALSE
