\* Three runs of the tests and the restore, in any order, and two edits in the menu.
CONSTANTS MaxRuns = 3
          MaxMenuEdits = 2
SPECIFICATION Spec
INVARIANTS TypeOK VerdictIsTrue
\* The session ends.
CHECK_DEADLOCK FALSE
