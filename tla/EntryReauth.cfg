\* One rotation of the key, no restart.
CONSTANTS MaxKey = 1
          MaxRestarts = 0
SPECIFICATION Safety
INVARIANT FailedEntryHasAWayOut
