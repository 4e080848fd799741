\* Two calls, either of which is tried twice, and an edit in the menu.
CONSTANTS
    call1 = call1
    call2 = call2
    Calls = {call1, call2}
    Days = {"monday", "tuesday"}
    EventsPerDay = 4
    Requests <- MCRequests
    Programs <- MCPrograms
    MenuDays <- MCMenuDays
    MaxMenuEdits = 1
    MaxAttempts = 2
SPECIFICATION Spec
SYMMETRY CallSymmetry
INVARIANTS TypeOK AcknowledgedDaysSurvive ValidEditIsNotRefused ResponseCanBePastedBack
PROPERTY WritesOnlyWhatIsAsked
\* All calls may have returned.
CHECK_DEADLOCK FALSE
