-------------------------------- MODULE Chat --------------------------------
(***************************************************************************)
(* A chat from end to end: the windows that show it (ui/lib/useChat.ts over *)
(* ui/lib/ipc.ts), the lines the shell relays and the process it restarts  *)
(* (src-tauri/src/bridge.rs), and the harness that answers a request and   *)
(* then speaks in events (ipc/router.ts, loop/companion.ts).               *)
(*                                                                         *)
(* A request is answered by a line with its id; what a turn says comes in  *)
(* lines of its own, which every window hears.  The two kinds meet in a    *)
(* list of bubbles, where a placeholder stands for a turn whose id the     *)
(* window does not know yet, and where the history, asked for when the     *)
(* window was mounted, replaces all that came before its answer.           *)
(***************************************************************************)
EXTENDS Bubbles, FiniteSets

CONSTANTS SeedWindow, \* the one the home page hands a first message to
          MaxLines,   \* bound: lines of a turn before its last one
          MaxDeaths   \* bound: deaths of the harness

BoundsFit ==
    /\ SeedWindow \in Windows
    /\ {MaxSends, MaxMounts, MaxLines, MaxDeaths} \subseteq Nat

ASSUME ChatAssumption == BoundsFit

VARIABLES shown,   \* the windows in which the chat is mounted
          mounts,  \* how often a chat was mounted
          sends,   \* how many messages were sent
          last,    \* the number of the latest request
          up,      \* the harness lives
          deaths,
          pipe,    \* its standard input: requests not yet handled
          out,     \* its standard output: lines the shell has not yet read
          turn,    \* the turn that keeps the loop busy
          stored   \* the turns in its database, oldest first

ui == <<shown, view, mounts, sends, last, waiting, told>>
harness == <<up, deaths, turn, stored>>
vars == <<ui, harness, pipe, out>>

\* A turn is named by the request it came with.
NoTurn == [of |-> 0, step |-> "idle", lines |-> 0]
Turn == [of : Ids, step : {"pre", "stream"}, lines : 0..MaxLines] \cup {NoTurn}

Init ==
    /\ shown = {} /\ view = [w \in Windows |-> <<>>] /\ told = [w \in Windows |-> {}]
    /\ mounts = 0 /\ sends = 0 /\ last = 0 /\ waiting = {}
    /\ up = TRUE /\ deaths = 0 /\ turn = NoTurn /\ stored = <<>>
    /\ pipe = <<>> /\ out = <<>>

-----------------------------------------------------------------------------
(* The window: requests, and the bubbles they leave *)

\* Written to a dead process a line is lost.  The error of the bridge is not
\* looked at: deliver() does not await invoke().
Deliver(reqs) == pipe' = IF up THEN pipe \o reqs ELSE pipe

HistoryRequest(w) == [id |-> last + 1, win |-> w, kind |-> "history"]
SendRequest(w, id) == [id |-> id, win |-> w, kind |-> "send"]

\* useChat is mounted: it listens, and asks for the history.
Mount(w) ==
    /\ mounts < MaxMounts /\ w \notin shown
    /\ shown' = shown \cup {w}
    /\ mounts' = mounts + 1 /\ last' = last + 1
    /\ waiting' = waiting \cup {HistoryRequest(w)}
    /\ Deliver(<<HistoryRequest(w)>>)
    /\ UNCHANGED <<view, told, sends, harness, out>>

\* The user leaves the page or closes the window: the list is gone, and what
\* was waited for reaches nobody.
Unmount(w) ==
    /\ w \in shown
    /\ shown' = shown \ {w}
    /\ view' = [view EXCEPT ![w] = <<>>] /\ told' = [told EXCEPT ![w] = {}]
    /\ waiting' = {r \in waiting : r.win # w}
    /\ UNCHANGED <<mounts, sends, last, harness, pipe, out>>

\* The chat page is mounted with a message the home page left: the page's
\* effect sends it right after the hook's effect has asked for the history.
MountWithSeed ==
    LET w == SeedWindow
        seed == SendRequest(w, last + 2)
    IN /\ mounts < MaxMounts /\ sends < MaxSends /\ w \notin shown
       /\ shown' = shown \cup {w}
       /\ view' = [view EXCEPT ![w] = Sent(last + 2)]
       /\ mounts' = mounts + 1 /\ sends' = sends + 1 /\ last' = last + 2
       /\ waiting' = waiting \cup {HistoryRequest(w), seed}
       /\ Deliver(<<HistoryRequest(w), seed>>)
       /\ UNCHANGED <<told, harness, out>>

\* The user sends a message: it and a placeholder appear at once.
Send(w) ==
    /\ sends < MaxSends /\ w \in shown
    /\ view' = [view EXCEPT ![w] = @ \o Sent(last + 1)]
    /\ sends' = sends + 1 /\ last' = last + 1
    /\ waiting' = waiting \cup {SendRequest(w, last + 1)}
    /\ Deliver(<<SendRequest(w, last + 1)>>)
    /\ UNCHANGED <<shown, mounts, told, harness, out>>

\* The 15 seconds of a request are over: the placeholder becomes an error, a
\* history that does not come is done without.
Timeout(r) ==
    /\ waiting' = waiting \ {r}
    /\ view' = IF r.kind = "history" THEN view
               ELSE [view EXCEPT ![r.win] = TimedOut(@, r.id)]
    /\ UNCHANGED <<shown, mounts, sends, last, told, harness, pipe, out>>

\* The shell's reader thread relays a line to all windows.
Relay(kinds) == out # <<>> /\ Head(out).kind \in kinds /\ out' = Tail(out)

\* An answer: the window whose request still waits for it takes it, for the
\* others it is late or not theirs.
ReadAnswer ==
    /\ Relay({"res"})
    /\ LET line == Head(out)
           asked == {r \in waiting : r.id = line.of}
       IN /\ waiting' = waiting \ asked
          /\ view' = [w \in Windows |->
                        IF \E r \in asked : r.win = w /\ r.kind = "history"
                        THEN History(line.turns)
                        ELSE IF \E r \in asked : r.win = w /\ r.kind = "send"
                        THEN Named(view[w], line.of) ELSE view[w]]
    /\ UNCHANGED <<shown, mounts, sends, last, told, harness, pipe>>

\* An event of a turn, heard by every window that shows the chat.
ReadEvent ==
    /\ Relay({"progress", "done", "error"})
    /\ view' = [w \in Windows |-> IF w \in shown THEN Upserted(view[w], Head(out))
                                   ELSE view[w]]
    /\ told' = [w \in Windows |-> IF w \in shown /\ Head(out).kind = "done"
                                   THEN told[w] \cup {Head(out).of} ELSE told[w]]
    /\ UNCHANGED <<shown, mounts, sends, last, waiting, harness, pipe>>

-----------------------------------------------------------------------------
(* The harness: one request after the other, and one turn at a time *)

Says(kind, id) == [kind |-> kind, of |-> id]
Answers(id, turns) == [kind |-> "res", of |-> id, turns |-> turns]

\* The router takes a line and calls the handler of its type.
Take(kind) == pipe # <<>> /\ Head(pipe).kind = kind /\ pipe' = Tail(pipe)

HandleHistory ==
    /\ Take("history")
    /\ out' = Append(out, Answers(Head(pipe).id, stored))
    /\ UNCHANGED <<ui, harness>>

\* A message during a turn is refused with an event, which is out before the
\* answer; otherwise the turn begins and the answer does not wait for it.
HandleSend ==
    /\ Take("send")
    /\ LET id == Head(pipe).id IN
         \/ /\ turn # NoTurn
            /\ out' = out \o <<Says("error", id), Answers(id, <<>>)>>
            /\ UNCHANGED turn
         \/ /\ turn = NoTurn
            /\ turn' = [of |-> id, step |-> "pre", lines |-> 0]
            /\ out' = Append(out, Answers(id, <<>>))
    /\ UNCHANGED <<ui, up, deaths, stored>>

\* The hooks before a turn let it pass, and what the user said is stored.
PreTurn ==
    /\ turn.step = "pre"
    /\ turn' = [turn EXCEPT !.step = "stream"]
    /\ stored' = Append(stored, [role |-> "user", of |-> turn.of])
    /\ UNCHANGED <<ui, up, deaths, pipe, out>>

\* A piece of text or of reasoning, or a tool at work.
Stream ==
    /\ turn.step = "stream" /\ turn.lines < MaxLines
    /\ out' = Append(out, Says("progress", turn.of))
    /\ turn' = [turn EXCEPT !.lines = @ + 1]
    /\ UNCHANGED <<ui, up, deaths, stored, pipe>>

\* The reply is stored and said in full, and the loop is free.
TurnDone ==
    /\ turn.step = "stream"
    /\ stored' = Append(stored, [role |-> "pet", of |-> turn.of])
    /\ out' = Append(out, Says("done", turn.of))
    /\ turn' = NoTurn
    /\ UNCHANGED <<ui, up, deaths, pipe>>

\* A hook rejects the message, or something throws: one error is said.
Fails(step) ==
    /\ turn.step = step
    /\ out' = Append(out, Says("error", turn.of))
    /\ turn' = NoTurn
    /\ UNCHANGED <<ui, up, deaths, stored, pipe>>

Rejected == Fails("pre")

\* Mutant of StreamFails: the loop is freed and nothing is said.
StreamFailsSilently ==
    /\ turn.step = "stream"
    /\ turn' = NoTurn
    /\ UNCHANGED <<ui, up, deaths, stored, pipe, out>>

\* No first byte within 12 seconds, a refusal of the gateway, an error frame,
\* or an end without a last frame.
StreamFails == Fails("stream")

-----------------------------------------------------------------------------
(* The watchdog *)

\* The process dies.  What it wrote is still read, what it was sent is lost.
Die ==
    /\ up /\ deaths < MaxDeaths
    /\ up' = FALSE /\ deaths' = deaths + 1 /\ turn' = NoTurn /\ pipe' = <<>>
    /\ UNCHANGED <<ui, stored, out>>

\* The watchdog launches it again; what is stored is there.
Relaunch ==
    /\ ~up /\ up' = TRUE
    /\ UNCHANGED <<ui, deaths, turn, stored, pipe, out>>

-----------------------------------------------------------------------------
Next ==
    \/ \E w \in Windows : Mount(w) \/ Unmount(w) \/ Send(w)
    \/ MountWithSeed
    \/ \E r \in waiting : Timeout(r)
    \/ ReadAnswer \/ ReadEvent
    \/ HandleHistory \/ HandleSend
    \/ PreTurn \/ Rejected \/ Stream \/ TurnDone \/ StreamFails
    \/ Die \/ Relaunch

Spec == Init /\ [][Next]_vars

\* The reader thread relays, the timers fire, the harness takes line after
\* line, and a turn's awaits end in a frame, an error or a time limit.
Fairness ==
    /\ WF_vars(ReadAnswer \/ ReadEvent)
    /\ WF_vars(\E r \in waiting : Timeout(r))
    /\ WF_vars(HandleHistory \/ HandleSend)
    /\ WF_vars(PreTurn \/ Rejected \/ Stream \/ TurnDone \/ StreamFails)
    /\ WF_vars(Relaunch)

FairSpec == Spec /\ Fairness

-----------------------------------------------------------------------------
(* Properties *)

TypeOK ==
    /\ shown \subseteq Windows /\ view \in [Windows -> Seq(Bubble)] /\ told \in [Windows -> SUBSET Ids]
    /\ mounts \in 0..MaxMounts /\ sends \in 0..MaxSends /\ last \in 0..(MaxSends + MaxMounts)
    /\ waiting \subseteq Request
    /\ up \in BOOLEAN /\ deaths \in 0..MaxDeaths
    /\ pipe \in Seq(Request) /\ out \in Seq(Event \cup Answer)
    /\ turn \in Turn /\ stored \in Seq(Stored)

\* As long as the harness does not die, what moves comes to rest: every turn
\* ends in a reply or an error for whoever heard of it, and every request is
\* answered or times out.
BubblesSettle == ~AtRest ~> (AtRest \/ deaths > 0)
=============================================================================
