\* Two edits, a scheduled and a settle poll, and an edit in the menu.
CONSTANTS
    poll1 = poll1
    poll2 = poll2
    room = room
    floor = floor
    Axes = {room, floor}
    MaxReloads = 1
    MaxEdits = 2
    MaxMenuEdits = 1
    Polls = {poll1, poll2}
    Options = {"language"}
    MaxAttempts = 2
SPECIFICATION Spec
SYMMETRY Symmetry
INVARIANTS TypeOK SettledDataIsCurrent
