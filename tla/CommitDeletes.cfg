\* A delete has no key to be retried under.
CONSTANTS
    Callers = {c1}
    Batches = {put, delete, batch}
    Puts = {put}
    Deletes = {delete}
    Keys = {k1}
    KeyArgs = {k1, none}
    NoKey = none
    Empty = empty
    MaxLog = 2
    MaxCrashes = 1
SPECIFICATION Spec
CHECK_DEADLOCK FALSE
INVARIANT DeletesApplyOnce
