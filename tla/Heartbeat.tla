----------------------------- MODULE Heartbeat -----------------------------
(***************************************************************************)
(* The pet speaks of its own accord                                        *)
(* (packages/harness/src/scheduler/heartbeat.ts, guards.ts,                *)
(* persona/proactive.ts and their wiring in main.ts).                      *)
(*                                                                         *)
(* The shell reports the idle time and the full screen once a minute. A    *)
(* report may start a decision, two calls to a model that take their time: *)
(* meanwhile reports go on, the user changes the configuration, and quiet  *)
(* hours begin. Only when the last bubble was is kept on disk.             *)
(***************************************************************************)
EXTENDS Guards

CONSTANTS
  DecisionRetry,   \* DECISION_RETRY_MS
  LongAgo,         \* the code's time 0, long ago on its clock
  MaxNow           \* bound

GapsFit ==
  /\ "off" \notin Frequency
  /\ MinGap \in [Frequency -> Nat \ {0}]
  /\ DecisionRetry \in Nat \ {0} /\ DayLength \in Nat \ {0} /\ MaxNow \in Nat
  /\ QuietHours \subseteq (0..DayLength - 1) \X (0..DayLength - 1)
  /\ LongAgo \in Int /\ LongAgo + DecisionRetry <= 0
  /\ LongAgo < 0 /\ \A f \in Frequency : LongAgo + MinGap[f] <= 0

ASSUME GapAssumption == GapsFit

Time == 0..MaxNow
MaybeTime == Time \cup {LongAgo}

\* A decision under way, with what its first check saw.
NoDecision == [step |-> "none"]
Decision == [step : {"deciding", "comparing"}, cfg : Config, fullscreen : BOOLEAN]

VARIABLES
  lastDecisionAt,
  inFlight,           \* the decision under way
  state,              \* memory: when the last bubble was, and if there was one
  file                \* what loads from proactive.json, a damaged one included

vars == <<clock, cfg, latestFullscreen, lastDecisionAt, inFlight, state, file, saving,
          bubbleAt, forgotten>>
heard == <<bubbleAt, forgotten>>

Silent == [lastProactiveAt |-> LongAgo, recent |-> FALSE]
Spoken(t) == [lastProactiveAt |-> t, recent |-> TRUE]

TypeOK ==
  /\ clock \in Time /\ cfg \in Config /\ latestFullscreen \in BOOLEAN
  /\ {lastDecisionAt, bubbleAt} \subseteq MaybeTime
  /\ inFlight \in {NoDecision} \cup Decision
  /\ state \in {Silent} \cup {Spoken(t) : t \in Time}
  /\ file \in {Silent} \cup {Spoken(t) : t \in Time}
  /\ saving \in BOOLEAN /\ forgotten \in BOOLEAN

Init ==
  /\ clock = 0
  /\ cfg \in Config
  /\ latestFullscreen = FALSE
  /\ lastDecisionAt = LongAgo
  /\ inFlight = NoDecision
  /\ state = Silent
  /\ file = Silent
  /\ saving = FALSE
  /\ bubbleAt = LongAgo /\ forgotten = FALSE
-----------------------------------------------------------------------------
\* What a report must find to start a decision.
MayDecide(idle, fullscreen) ==
  /\ inFlight = NoDecision
  /\ cfg.frequency # "off"
  /\ idle >= MinGap[cfg.frequency]
  /\ clock - lastDecisionAt >= DecisionRetry
  /\ P02Gate(cfg, fullscreen, state.lastProactiveAt)

\* onIdle() until its first await. What is noted of the screen is noted by
\* every report.
OnIdle(idle, fullscreen) ==
  /\ ~saving
  /\ latestFullscreen' = fullscreen
  /\ IF MayDecide(idle, fullscreen)
       THEN /\ lastDecisionAt' = clock
            /\ inFlight' = [step |-> "deciding", cfg |-> cfg, fullscreen |-> fullscreen]
       ELSE UNCHANGED <<lastDecisionAt, inFlight>>
  /\ UNCHANGED <<clock, cfg, state, file, saving, heard>>

\* The finally of onIdle(); EndedWithText if the flag were reset on the way with
\* a text only.
EndedWithText ==
  IF inFlight.step = "comparing" THEN NoDecision ELSE [inFlight EXCEPT !.step = "left"]

Ended == NoDecision

\* decideProactive() has no text: the model would not speak, or the call or the
\* reading of its answer failed.
DecidesNot ==
  /\ inFlight.step = "deciding"
  /\ inFlight' = Ended
  /\ UNCHANGED <<clock, cfg, latestFullscreen, lastDecisionAt, state, file, saving, heard>>

Decides ==
  /\ inFlight.step = "deciding"
  /\ inFlight' = [inFlight EXCEPT !.step = "comparing"]
  /\ UNCHANGED <<clock, cfg, latestFullscreen, lastDecisionAt, state, file, saving, heard>>

SecondGateStale == P02Gate(inFlight.cfg, inFlight.fullscreen, state.lastProactiveAt)
SecondGate == P02Gate(cfg, latestFullscreen, state.lastProactiveAt)

\* isSimilarToRecent() says yes, or fails, which counts as yes; or the gate, asked
\* once more, is closed by now.
KeepsSilent ==
  /\ inFlight.step = "comparing" /\ ~saving
  /\ state.recent \/ ~SecondGate
  /\ inFlight' = Ended
  /\ UNCHANGED <<clock, cfg, latestFullscreen, lastDecisionAt, state, file, saving, heard>>

\* With nothing said before there is nothing to compare. The bubble goes out
\* and into the hot turns.
Speak ==
  /\ inFlight.step = "comparing" /\ ~saving
  /\ SecondGate
  /\ state' = Spoken(clock)
  /\ saving' = TRUE
  /\ bubbleAt' = clock /\ forgotten' = TRUE
  /\ UNCHANGED <<clock, cfg, latestFullscreen, lastDecisionAt, inFlight, file>>

\* What save() writes; SavedTooEarly if it came before the assignment.
SavedTooEarly == file

Saved == state

\* save(), whose failure is logged and forgotten.
Save ==
  /\ saving
  /\ \/ file' = Saved /\ forgotten' = FALSE
     \/ UNCHANGED <<file, forgotten>>
  /\ saving' = FALSE
  /\ inFlight' = Ended
  /\ UNCHANGED <<clock, cfg, latestFullscreen, lastDecisionAt, state, bubbleAt>>

SetConfig(c) ==
  /\ ~saving
  /\ cfg' = c
  /\ UNCHANGED <<clock, latestFullscreen, lastDecisionAt, inFlight, state, file, saving, heard>>

Tick ==
  /\ ~saving
  /\ clock < MaxNow
  /\ clock' = clock + 1
  /\ UNCHANGED <<cfg, latestFullscreen, lastDecisionAt, inFlight, state, file, saving, heard>>

\* The harness dies, in the middle of save() perhaps, whose writeFileSync() has
\* emptied the file by then; its next start loads what it finds, and of a
\* damaged file nothing.
Restart ==
  /\ file' \in IF saving THEN {file, Silent} ELSE {file}
  /\ state' = file'
  /\ latestFullscreen' = FALSE
  /\ lastDecisionAt' = LongAgo
  /\ inFlight' = NoDecision
  /\ saving' = FALSE
  /\ UNCHANGED <<clock, cfg, heard>>

Answer == DecidesNot \/ Decides \/ KeepsSilent \/ Speak \/ Save

Next ==
  \/ \E idle \in 0..MaxNow, fullscreen \in BOOLEAN : OnIdle(idle, fullscreen)
  \/ Answer
  \/ \E c \in Config : SetConfig(c)
  \/ Tick
  \/ Restart

\* The calls to the model return: an answer, an error, or a broken connection.
Spec == Init /\ [][Next]_vars /\ WF_vars(Answer)
-----------------------------------------------------------------------------
(***************************************************************************)
(* Properties                                                              *)
(***************************************************************************)
\* However a decision ends, the pet can decide again: no path leaves it in
\* flight.
DecisionEnds == inFlight # NoDecision ~> inFlight = NoDecision
=============================================================================
