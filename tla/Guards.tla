------------------------------- MODULE Guards -------------------------------
(***************************************************************************)
(* When the pet may speak of its own accord: the gate of                   *)
(* packages/harness/src/scheduler/guards.ts, the state it is asked about,  *)
(* and what it promises of every bubble.  Heartbeat has the steps.         *)
(***************************************************************************)
EXTENDS Integers

CONSTANTS
  Frequency,       \* PROACTIVE_MIN_GAP, but for "off"
  MinGap,          \* of each frequency, in steps of the clock
  QuietHours,      \* the pairs of times of day the user may set
  DayLength

Config == [frequency : Frequency \cup {"off"}, quietHours : QuietHours, fullscreenMute : BOOLEAN]

VARIABLES
  clock,
  cfg,                \* proactive, in the configuration
  latestFullscreen,
  saving,             \* memory: a bubble has gone out and save() is to come
  bubbleAt,           \* history: when the last bubble went out, in any life
  forgotten           \* history: the last bubble's time never reached the disk

\* inQuietHours(): the same time twice is no quiet hours; otherwise they may go
\* over midnight.
QuietNow(quiet) ==
  LET start == quiet[1]
      end == quiet[2]
      time == clock % DayLength
  IN /\ start # end
     /\ IF start < end THEN start <= time /\ time < end ELSE start <= time \/ time < end

\* p02Gate(): the configuration, the screen and the last bubble as its caller
\* knows them.
P02Gate(c, fullscreen, lastProactiveAt) ==
  /\ c.frequency # "off"
  /\ ~(c.fullscreenMute /\ fullscreen)
  /\ ~QuietNow(c.quietHours)
  /\ clock - lastProactiveAt >= MinGap[c.frequency]
-----------------------------------------------------------------------------
(***************************************************************************)
(* Properties                                                              *)
(***************************************************************************)
Speaks == ~saving /\ saving'

\* Whatever the decision was begun with, and over a death and a start too: when
\* the bubble goes out the user has not turned the pet off, the screen last
\* reported does not mute it, it is not in the quiet hours set now, and it is as
\* far from the bubble before as the frequency set now asks for, unless that
\* one's time never reached the disk.
BubbleIsWelcome ==
  [][Speaks =>
       /\ cfg.frequency # "off"
       /\ ~(cfg.fullscreenMute /\ latestFullscreen)
       /\ ~QuietNow(cfg.quietHours)
       /\ ~forgotten => clock - bubbleAt >= MinGap[cfg.frequency]]_saving
=============================================================================
