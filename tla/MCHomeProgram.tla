--------------------------- MODULE MCHomeProgram ---------------------------
(* Instances of HomeProgramWrite for TLC.                                  *)
EXTENDS HomeProgramWrite, TLC

CONSTANTS call1, call2

At(active, hour, minute, temperature) ==
    [active |-> active, hour |-> hour, minute |-> minute, temperature |-> temperature]

Given(hour, temperature) ==
    [time |-> <<hour, 0, 0>>, temperature |-> temperature, active |-> TRUE]

CallSymmetry == Permutations(Calls)

-----------------------------------------------------------------------------
\* The slots of a day on the device: early, late, and beyond midnight, where the
\* last slots are often off.
MCDays ==
    {<<At(TRUE, 6, 0, 220), At(FALSE, 8, 0, 170), At(FALSE, 23, 0, 170), At(FALSE, 1, 50, 170)>>,
     <<At(TRUE, 2, 0, 50), At(TRUE, 2, 0, 350), At(TRUE, 9, 30, 205), At(TRUE, 0, 0, 190)>>}
MCPrograms == {[d \in {"monday", "tuesday"} |-> day] : day \in MCDays}
MCMenuDays == {<<At(TRUE, 7, 30, 205), At(TRUE, 1, 0, 50), At(FALSE, 1, 0, 200), At(FALSE, 1, 0, 50)>>}

\* Fewer events than slots, some later than the slots that follow; a full day;
\* both days at once; and what the service refuses: a day named twice, events
\* out of order, an hour, a temperature and a half degree that do not exist.
MCRequests ==
    {[monday |-> <<Given(1, 2100)>>],
     [monday |-> <<Given(3, 2052), Given(8, 500), Given(23, 2150), Given(1, 3500)>>],
     [tuesday |-> <<Given(8, 1800), Given(23, 1850)>>],
     [tuesday |-> <<>>],
     [days |-> {"monday", "tuesday"}, events |-> <<Given(5, 2000), Given(9, 2050)>>],
     [days |-> {"monday"}, events |-> <<Given(5, 2000)>>, monday |-> <<Given(9, 2000)>>],
     [tuesday |-> <<Given(1, 2000), Given(6, 2000)>>],
     [monday |-> <<Given(24, 2000)>>],
     [monday |-> <<Given(6, 3550)>>],
     [monday |-> <<Given(6, 2030)>>]}
=============================================================================
