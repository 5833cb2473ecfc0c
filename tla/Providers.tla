----------------------------- MODULE Providers -----------------------------
(***************************************************************************)
(* What becomes of one call to a model (apps/gateway/src/providers/):      *)
(* which provider serves it, what it makes of the answer of the service    *)
(* behind it, and what it says the call cost. Tools, the reasoning and the *)
(* wording of errors are left out: nothing is charged for them, and the    *)
(* gateway treats every error alike.                                       *)
(***************************************************************************)
EXTENDS Naturals, Sequences, SequencesExt, FiniteSets

CONSTANTS
  MaxFrames   \* bound: the frames of an answer

\* said: whether text was streamed, and by whose word it costs what it costs:
\* "counted" by the provider itself where the service does not report it,
\* "reported" by the service alone. use: tokens in and out.
Said == {"nothing", "counted", "reported"}

Done(said, use) == [end |-> "done", said |-> said, use |-> use]
Thrown == [end |-> "error", said |-> "nothing", use |-> 0]

Frames(F) == UNION {[1..n -> F] : n \in 0..MaxFrames}
Has(frames, kind) == \E i \in DOMAIN frames : frames[i].kind = kind

\* The last frame of these kinds, or the one given for none.
LastOf(frames, kinds, none) ==
  LET i == SelectLastInSeq(frames, LAMBDA x : x.kind \in kinds)
  IN IF i = 0 THEN none ELSE frames[i]

\* What was read before the first frame of this kind.
Before(frames, kind) ==
  LET i == SelectInSeq(frames, LAMBDA x : x.kind = kind)
  IN IF i = 0 THEN frames ELSE SubSeq(frames, 1, i - 1)

\* How a body that began to arrive ends: the service closes it, or the
\* connection is lost or too slow, which throws.
BodyEnds == {"closed", "broken"}
-----------------------------------------------------------------------------
\* createProvider(): the user's own key is for one service only, whose
\* constructor throws without a model; a service without the gateway's key or
\* a model is played by the mock.
CreateProvider(name, key, model, userKey) ==
  IF name = "openai" /\ userKey
    THEN IF model THEN "openai" ELSE "none"
    ELSE IF name \in {"openai", "anthropic"} /\ key /\ model THEN name ELSE "mock"

(***************************************************************************)
(* Services that speak like OpenAI's                                       *)
(***************************************************************************)
OaiFrame ==
  [kind : {"text", "stop", "filter", "[DONE]"}] \cup
  [kind : {"usage"}, in : 0..1, out : 0..1]

\* Two characters are taken for a token when none is reported for the text.
Unestimated(out, chars) == out

Estimated(out, chars) == IF out = 0 /\ chars > 0 THEN (chars + 1) \div 2 ELSE out

\* Nothing is read after "[DONE]"; a body that closes without it has ended too.
OaiStream(frames, ends) ==
  LET read == Before(frames, "[DONE]")
      usage == LastOf(read, {"usage"}, [in |-> 0, out |-> 0])
      finish == LastOf(read, {"stop", "filter"}, [kind |-> "none"]).kind
      chars == Cardinality({i \in DOMAIN read : read[i].kind = "text"})
  IN IF (read = frames /\ ends = "broken") \/ finish = "filter"
       THEN Thrown
       ELSE Done(IF chars > 0 THEN "counted" ELSE "nothing",
                 usage.in + Estimated(usage.out, chars))

(***************************************************************************)
(* Anthropic's, and services that speak like it: an event at the start may *)
(* report the tokens in, one towards the end those out. Nothing is         *)
(* estimated when they do not.                                             *)
(***************************************************************************)
AnthropicEvent ==
  [kind : {"text", "stop", "refusal", "error"}] \cup
  [kind : {"message_start", "out"}, tokens : 0..1]

AnthropicStream(events, ends) ==
  LET read == Before(events, "error")
      in == LastOf(read, {"message_start"}, [tokens |-> 0]).tokens
      out == LastOf(read, {"out"}, [tokens |-> 0]).tokens
      stop == LastOf(read, {"stop", "refusal"}, [kind |-> "none"]).kind
  IN IF read # events \/ ends = "broken" \/ stop = "refusal"
       THEN Thrown
       ELSE Done(IF Has(read, "text") THEN "reported" ELSE "nothing", in + out)

(***************************************************************************)
(* The mock counts what it is asked and what it says                       *)
(***************************************************************************)
MockStream(tokensIn, chars) ==
  Done(IF chars > 0 THEN "counted" ELSE "nothing", tokensIn + (chars + 1) \div 2)
-----------------------------------------------------------------------------
\* post(): the service refuses, cannot be reached or takes too long. Thrown
\* before anything was said.
Refused == Thrown

\* Without a stream there is one body; what it does not report counts as nothing,
\* whichever the service.
Body == [odd : BOOLEAN, filtered : BOOLEAN, in : 0..1, out : 0..1]

Once(body) == IF body.odd \/ body.filtered THEN Thrown ELSE Done("nothing", body.in + body.out)

Streams(provider) ==
  CASE provider = "openai" ->
         {Refused} \cup {OaiStream(f, e) : f \in Frames(OaiFrame), e \in BodyEnds}
    [] provider = "anthropic" ->
         {Refused} \cup {AnthropicStream(f, e) : f \in Frames(AnthropicEvent), e \in BodyEnds}
    [] provider = "mock" -> {Refused} \cup {MockStream(1, chars) : chars \in 0..2}
    [] provider = "none" -> {Refused}

Onces(provider) ==
  CASE provider \in {"openai", "anthropic"} -> {Refused} \cup {Once(b) : b \in Body}
    [] provider = "mock" -> {Refused} \cup {Done("nothing", use) : use \in 1..2}
    [] provider = "none" -> {Refused}

Built == {CreateProvider(name, key, model, userKey) :
            name \in {"openai", "anthropic", "mock"}, key, model, userKey \in BOOLEAN}

\* What may become of a call, whatever the environment of the gateway and
\* whether the user has a key.
StreamResults == UNION {Streams(p) : p \in Built}
OnceResults == UNION {Onces(p) : p \in Built}
=============================================================================
