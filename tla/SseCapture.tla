----------------------------- MODULE SseCapture -----------------------------
(* Reading token usage off a reply (usage_capture.go): from a JSON body, or by  *)
(* sseUsageCapture from the lines of an event stream that arrives in chunks.    *)
(*                                                                              *)
(* A text is a sequence of symbols: NL, and the two halves of each line that is *)
(* not blank, so that a chunk can end within a line.  A line is a record with a *)
(* "kind": "event" with its name, "data" with what its payload holds, "other"   *)
(* for comments, [DONE] and the like.                                           *)
(* An optional value is a sequence of at most one element.                      *)
EXTENDS Integers, Sequences, SequencesExt

Blank == [kind |-> "blank"]

Optional(S) == {<<>>} \union {v \in Seq(S) : Len(v) = 1}

\* The fields of a usage object, and the two places an envelope may have one in.
Counts ==
    [input : Optional(Int), cached : Optional(Int), output : Optional(Int),
     detail : Optional(Int), reasoning : Optional(Int)]

Envelopes == [usage : Optional(Counts), response : Optional(Counts)]

\* The events that matter, and any other.
EventNames == {"completed", "failed", "error", "other"}

LineSet ==
    {Blank} \union [kind : {"event"}, name : EventNames]
    \union [kind : {"data"}, envelope : Envelopes, limit : BOOLEAN]
    \union [kind : {"other"}]

NL == [line |-> Blank, half |-> 0]
Half(line, n) == [line |-> line, half |-> n]

Symbols(line) == IF line = Blank THEN <<NL>> ELSE <<Half(line, 1), Half(line, 2), NL>>
Text(lines) == FlattenSeq([i \in DOMAIN lines |-> Symbols(lines[i])])

----------------------------------------------------------------------------
(* usageFromEnvelope: one usage object with optional counts.                    *)

derefInt64(v) == IF v = <<>> THEN 0 ELSE v[1]
NonNegative(n) == IF n < 0 THEN 0 ELSE n

\* The usage object at the top goes before the one of the response.
UsageObject(envelope) ==
    IF envelope.usage # <<>> THEN envelope.usage ELSE envelope.response

\* Reasoning tokens alone are not usage.
HasUsageField(u) == u.input # <<>> \/ u.cached # <<>> \/ u.output # <<>> \/ u.detail # <<>>

\* cached_input_tokens, or input_tokens_details.cached_tokens where that is zero.
CachedTokens(u) ==
    NonNegative(IF derefInt64(u.cached) = 0 THEN derefInt64(u.detail) ELSE derefInt64(u.cached))

\* input_tokens counts the cached ones; if it cannot, it is taken as it is.
InputTokens(u) ==
    LET total == derefInt64(u.input) rest == total - CachedTokens(u)
    IN NonNegative(IF rest < 0 THEN total ELSE rest)

usageFromEnvelope(envelope) ==
    LET object == UsageObject(envelope) IN
    IF object = <<>> \/ ~HasUsageField(object[1]) THEN <<>>
    ELSE LET u == object[1] IN
         <<[input     |-> InputTokens(u),
            cached    |-> CachedTokens(u),
            output    |-> NonNegative(derefInt64(u.output)),
            reasoning |-> NonNegative(derefInt64(u.reasoning))]>>

----------------------------------------------------------------------------
(* sseUsageCapture                                                              *)

newSSEUsageCapture ==
    [buffer |-> <<>>, currentEvent |-> "none", usage |-> <<>>,
     limitFound |-> FALSE, onLimitCalls |-> 0]

\* What the symbols between two line ends say.
LineOf(text) ==
    CASE text = <<>> -> Blank
      [] Len(text) = 2 /\ text = <<Half(text[1].line, 1), Half(text[1].line, 2)>> -> text[1].line
      [] OTHER -> [kind |-> "other"]

shouldInspectLimitPayload(event) == event \in {"failed", "error"}

\* Mutant: the callback runs for each line about a limit.
MarkEachTime(c) == [c EXCEPT !.limitFound = TRUE, !.onLimitCalls = @ + 1]

markLimit(c) ==
    IF c.limitFound THEN c ELSE [c EXCEPT !.limitFound = TRUE, !.onLimitCalls = @ + 1]

ReadData(c, line) ==
    LET limit == shouldInspectLimitPayload(c.currentEvent) /\ line.limit
        usage == IF c.currentEvent = "completed" THEN usageFromEnvelope(line.envelope) ELSE <<>>
    IN [(IF limit THEN markLimit(c) ELSE c)
        EXCEPT !.usage = IF usage = <<>> THEN @ ELSE usage]

ReadLine(c, line) ==
    CASE line = Blank -> [c EXCEPT !.currentEvent = "none"]
      [] line.kind = "event" -> [c EXCEPT !.currentEvent = line.name]
      [] line.kind = "data"  -> ReadData(c, line)
      [] OTHER -> c

\* One symbol: the end of a line has the line read, and the rest waits for its end.
ReadSymbol(c, symbol) ==
    IF symbol = NL THEN [ReadLine(c, LineOf(c.buffer)) EXCEPT !.buffer = <<>>]
    ELSE [c EXCEPT !.buffer = Append(@, symbol)]

\* Mutant: the beginning of a line is forgotten with its chunk.
WriteDropsTail(c, chunk) == [FoldLeft(ReadSymbol, c, chunk) EXCEPT !.buffer = <<>>]

\* sseUsageCapture.Write: ReadBytes takes lines off the buffer while one is complete.
WriteChunk(c, chunk) == FoldLeft(ReadSymbol, c, chunk)

----------------------------------------------------------------------------
\* A body is [json, envelope, lines]: an object with an envelope, or lines of text.
\* No line of a JSON text is an event's: one would begin outside of any string.
Bodies ==
    {body \in [json : BOOLEAN, envelope : Envelopes, lines : Seq(LineSet)] :
        body.json => body.lines = <<>>}

\* extractTokenUsageFromBody: as JSON, else as an event stream in one chunk.
extractTokenUsageFromBody(body) ==
    LET usage == IF body.json THEN usageFromEnvelope(body.envelope) ELSE <<>>
    IN IF usage # <<>> THEN usage ELSE WriteChunk(newSSEUsageCapture, Text(body.lines)).usage
----------------------------------------------------------------------------
\* What is charged for a usage object u, whichever of its counts are there: no
\* count is negative; cached input is found in either place it may be reported;
\* and input is split into cached and other input without losing or repeating
\* any, unless upstream reports more cached input than input.
ChargedSoundly(u, charged) ==
    LET total == derefInt64(u.input) IN
    /\ \A field \in DOMAIN charged : charged[field] >= 0
    /\ IF total >= charged.cached THEN charged.input + charged.cached = total
       ELSE charged.input = NonNegative(total)
    /\ LET said == {derefInt64(u.cached), derefInt64(u.detail)} \ {0} IN
       charged.cached > 0 => charged.cached \in said
    /\ derefInt64(u.cached) > 0 => charged.cached = derefInt64(u.cached)
    /\ derefInt64(u.cached) = 0 /\ derefInt64(u.detail) > 0 =>
            charged.cached = derefInt64(u.detail)
    /\ charged.output = NonNegative(derefInt64(u.output))
=============================================================================
