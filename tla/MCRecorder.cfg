SPECIFICATION Spec
CONSTANTS
 None = None
 QueueBlocks = 1
 QueueBytes = 2
 MaxFill = 1
 MaxAway = 2
 Threads = {t1,t2,t3,t4}
 MaxMishaps = 1
 MaxCaptures = 1
 MaxRecordings = 1
 MaxSaves <- SavesOf
 MaxCrashes = 1
 MaxBlocks <- BlocksOf
INVARIANT OpenedOnce ServedIsWhole
PROPERTIES NoReaderIsDeaf EndedIsOver
CHECK_DEADLOCK FALSE
