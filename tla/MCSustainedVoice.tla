--------------------------- MODULE MCSustainedVoice ---------------------------
(* Model-checking values for SustainedVoice.                               *)
EXTENDS SustainedVoice

AllOn == [speaker |-> TRUE, weapons |-> TRUE, vehicle |-> TRUE, policy |-> 0]

\* The master switch, the weapons category and a policy change, one at a time.
SettingsMenu == {AllOn, [AllOn EXCEPT !.speaker = FALSE],
                 [AllOn EXCEPT !.weapons = FALSE], [AllOn EXCEPT !.policy = 1]}

\* The master switch only, for the runs about links.
MasterSwitch == {AllOn, [AllOn EXCEPT !.speaker = FALSE]}

FixedSettings == {AllOn}
=============================================================================
