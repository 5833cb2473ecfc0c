---------------------------- MODULE HeartbeatMC ----------------------------
(* Two frequencies, and quiet hours that are off, within a day, or over    *)
(* midnight.                                                               *)
EXTENDS Heartbeat
TwoFrequencies == {"high", "low"}
Gaps == [high |-> 2, low |-> 3]
Never == -3
Hours == {<<0, 0>>, <<1, 2>>, <<3, 1>>}
=============================================================================
