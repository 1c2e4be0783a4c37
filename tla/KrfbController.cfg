SPECIFICATION FairSpec
CONSTANT MaxQueue = 2
INVARIANTS ReferenceKeepsClient UserIsToldFirst BackgroundRestored
PROPERTY SessionEnds
CHECK_DEADLOCK FALSE
