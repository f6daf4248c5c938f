SPECIFICATION FairStartup
CONSTANTS
    Starts = {1, 2, 3}
    Absent = Absent
    Torn = Torn
CHECK_DEADLOCK FALSE
INVARIANT PinsAreReadyToUse
PROPERTIES StoredIdentityStays EveryStartSettles
