------------------------------- MODULE Bubbles -------------------------------
(***************************************************************************)
(* What a chat shows: the list of bubbles of ui/lib/useChat.ts, what a     *)
(* message, its answer, the events of a turn and the history make of it,   *)
(* and what the list promises over all of them.  Chat has the steps.       *)
(***************************************************************************)
EXTENDS Naturals, Sequences, SequencesExt

CONSTANTS Windows,    \* the windows with a chat: the panel's page, the float
          MaxSends,   \* bound: messages the user sends
          MaxMounts   \* bound: times a chat is mounted

VARIABLES view,    \* the bubbles of each window, oldest first
          waiting, \* requests that wait for their answer (pending in ipc.ts)
          told     \* history: the turns a window saw end well since its mount

Ids == 1..(MaxSends + MaxMounts)
Request == [id : Ids, win : Windows, kind : {"history", "send"}]

\* A stored turn is named by its side and by the request it came with.
Stored == [role : {"user", "pet"}, of : Ids]

\* Progress is a chunk of text or of reasoning, or a tool at work.
Event == [kind : {"progress", "done", "error"}, of : Ids]
Answer == [kind : {"res"}, of : Ids, turns : Seq(Stored)]

\* A bubble: what the user wrote, a placeholder of a turn, a turn, or a line
\* of the history.  Its text is the user's own, the whole reply, an error, or
\* what has come in so far; it moves while it shows a cursor, the loading line
\* or the note of a tool (streaming, reasoning, tooling).
Bubble == [kind : {"user", "wait", "turn", "histUser", "histPet"}, of : Ids,
           text : {"own", "sofar", "reply", "sorry"}, moving : BOOLEAN]

-----------------------------------------------------------------------------
(* The list *)

\* A message that was sent leaves two bubbles.
Placeholder(id) == [kind |-> "wait", of |-> id, text |-> "sofar", moving |-> TRUE]
Sent(id) == <<[kind |-> "user", of |-> id, text |-> "own", moving |-> FALSE],
              Placeholder(id)>>

\* The bubbles of a list with a change to those that satisfy Of(_).
Mapped(bubbles, Of(_), To(_)) ==
    [i \in DOMAIN bubbles |-> IF Of(bubbles[i]) THEN To(bubbles[i]) ELSE bubbles[i]]

\* The placeholder of a message that timed out becomes an error.
TimedOut(bubbles, id) ==
    Mapped(bubbles, LAMBDA b : b.kind = "wait" /\ b.of = id,
                    LAMBDA b : [b EXCEPT !.text = "sorry", !.moving = FALSE])

\* The answer to the history replaces the list.
History(turns) ==
    [i \in DOMAIN turns |->
        [kind |-> IF turns[i].role = "user" THEN "histUser" ELSE "histPet",
         of |-> turns[i].of, text |-> IF turns[i].role = "user" THEN "own" ELSE "reply",
         moving |-> FALSE]]

IsTurn(b, id) == b.kind = "turn" /\ b.of = id

\* Mutant of Named: a turn that is there already leaves its placeholder.
NamedKeeping(bubbles, id) ==
    IF \E i \in DOMAIN bubbles : IsTurn(bubbles[i], id) THEN bubbles
    ELSE Mapped(bubbles, LAMBDA b : b.kind = "wait" /\ b.of = id,
                         LAMBDA b : [b EXCEPT !.kind = "turn"])

\* The answer to a message names its turn: the placeholder, the only one of the
\* message, takes that name, or goes if events of the turn were faster.
Named(bubbles, id) ==
    IF \E i \in DOMAIN bubbles : IsTurn(bubbles[i], id)
    THEN RemoveFirstMatch(bubbles, LAMBDA b : b.kind = "wait" /\ b.of = id)
    ELSE Mapped(bubbles, LAMBDA b : b.kind = "wait" /\ b.of = id,
                         LAMBDA b : [b EXCEPT !.kind = "turn"])

\* What a line does to the bubble of its turn.
Patched(b, line) ==
    [b EXCEPT !.text = [progress |-> "sofar", done |-> "reply", error |-> "sorry"][line.kind],
              !.moving = line.kind = "progress"]

\* Mutant of Upserted: every line of a turn gets a bubble of its own.
UpsertedAppending(bubbles, line) ==
    Append(bubbles, Patched([kind |-> "turn", of |-> line.of, text |-> "sofar",
                             moving |-> FALSE], line))

\* ... which it creates when there is none.
Upserted(bubbles, line) ==
    IF \E i \in DOMAIN bubbles : IsTurn(bubbles[i], line.of)
    THEN Mapped(bubbles, LAMBDA b : IsTurn(b, line.of), LAMBDA b : Patched(b, line))
    ELSE Append(bubbles, Patched([kind |-> "turn", of |-> line.of, text |-> "sofar",
                                  moving |-> FALSE], line))

-----------------------------------------------------------------------------
(* Promises *)

\* A placeholder that still moves belongs to a request that is still waited
\* for: whatever comes first, the answer, an event of the turn, the history,
\* the timeout or the death of the harness, none is left behind to spin.
NoOrphanPlaceholder ==
    \A w \in Windows : \A i \in DOMAIN view[w] :
        view[w][i].kind = "wait" /\ view[w][i].moving
            => \E r \in waiting : r.id = view[w][i].of /\ r.win = w

\* A reply a window was told of is in its list, whole and once: as the turn
\* that ended or in the history, although the history replaces the list and
\* was read at another moment than the events were sent.
ReplyShownOnce ==
    \A w \in Windows : \A id \in told[w] :
        \E i \in DOMAIN view[w] :
            /\ view[w][i].of = id /\ view[w][i].text = "reply" /\ ~view[w][i].moving
            /\ \A j \in DOMAIN view[w] :
                 view[w][j].of = id /\ view[w][j].kind \in {"turn", "histPet"} => j = i

\* Nothing shows a cursor, the loading line or the note of a tool.
AtRest == \A w \in Windows : \A i \in DOMAIN view[w] : ~view[w][i].moving
=============================================================================
