\* Two edits in a row and no poll in between.
CONSTANTS
    poll1 = poll1
    poll2 = poll2
    room = room
    floor = floor
    Axes = {room, floor}
    MaxReloads = 0
    MaxEdits = 2
    MaxMenuEdits = 0
    Polls = {poll1}
    Options = {"language"}
    MaxAttempts = 2
SPECIFICATION Spec
PROPERTY EditLeavesOtherAxisAlone
