\* Two rotations of the key, one restart.
CONSTANTS MaxKey = 2
          MaxRestarts = 1
SPECIFICATION Spec
INVARIANTS TypeOK RunsOnWhatIsStored
PROPERTIES StoredKeyNeverGoesBack KeyComesIntoForce
