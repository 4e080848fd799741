--------------------------- MODULE MCSettingWrites ---------------------------
(* Instances of SettingWrites for TLC.                                     *)
EXTENDS SettingWrites, TLC

CONSTANTS poll1, poll2, room, floor

\* The polls are alike, and the axes.  Safety runs only.
Symmetry == Permutations(Polls) \cup Permutations(Axes)
=============================================================================
