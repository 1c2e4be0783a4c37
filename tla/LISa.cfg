\* Two hosts with clients of their own.  A server whose child never reported
\* may stop for good.
SPECIFICATION FairSpec
CONSTANTS
    Hosts = {a, b}
    Users = {a, b}
    NoHost = none
INVARIANTS OneChild EverybodyIsServed
PROPERTIES ScanEnds SomebodyScans
CHECK_DEADLOCK FALSE
