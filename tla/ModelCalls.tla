----------------------------- MODULE ModelCalls -----------------------------
(***************************************************************************)
(* One call of a model back end (src/internal/llm/zen.go, openai.go and     *)
(* src/internal/vision/vision.go): what is asked again after which failure, *)
(* and what is taken for the answer when the server's stream is complete,   *)
(* cut off, broken or ends in an error.  A word of an answer is <<attempt,  *)
(* number, type>>; a "chat" answer comes in one piece.                      *)
(***************************************************************************)
EXTENDS Naturals, Sequences, FiniteSets

CONSTANTS
  Clients,    \* of "zen", "vision", "chat", "chat_stream", "responses"
  Attempts,   \* zenMaxAttempts, and the vision client's setting
  Words       \* the words of a whole answer

VARIABLES
  client,     \* the back end called
  step,       \* "prepare", "ask", "asked", "stream", "retry" or "done"
  attempt,    \* requests sent
  got,        \* the words this attempt has brought
  complained, \* this attempt's stream held an error payload
  finished,   \* it ended with the marker of a whole answer
  shown,      \* the words passed to onDelta
  answer,     \* the words of the message returned
  result,     \* "none", "ok" or "error"
  cancelled,  \* the caller's context is
  spent,      \* zenBudget has passed
  refused     \* history: the server refused in a way that will not change

callvars == <<client, step, attempt, got, complained, finished, shown, answer, result,
              cancelled, spent, refused>>

Init ==
  /\ client \in Clients /\ step = "prepare" /\ attempt = 0
  /\ got = <<>> /\ shown = <<>> /\ answer = <<>> /\ result = "none"
  /\ complained = FALSE /\ finished = FALSE
  /\ cancelled = FALSE /\ spent = FALSE /\ refused = FALSE

Ends(what, words) ==
  /\ step' = "done" /\ result' = what /\ answer' = words

NoText(words) == \A i \in 1..Len(words) : words[i][3] # "text"

\* How far this attempt's stream has come.
Brought == Cardinality({i \in 1..Len(got) : got[i][1] = attempt})

\* Streams whose words are forwarded as they come.
Forwards == client \in {"zen", "chat_stream"}

\* The answer comes whole, unless the server of "responses" wants to stream it.
Whole == client = "chat" \/ (client = "responses" /\ attempt = 1)

----------------------------------------------------------------------------
(* The request                                                             *)

\* buildZenTurn finds nothing to answer; loadImage no image.
Unfit ==
  /\ step = "prepare" /\ client \in {"zen", "vision"}
  /\ Ends("error", <<>>)
  /\ UNCHANGED <<client, attempt, got, complained, finished, shown, cancelled, spent, refused>>

Prepared ==
  /\ step = "prepare" /\ step' = "ask"
  /\ UNCHANGED <<client, attempt, got, complained, finished, shown, answer, result,
                 cancelled, spent, refused>>

\* Variant: the words of earlier attempts are kept.
AskKeepsWords ==
  /\ step = "ask" /\ step' = "asked"
  /\ attempt' = attempt + 1
  /\ complained' = FALSE /\ finished' = FALSE
  /\ UNCHANGED <<client, got, shown, answer, result, cancelled, spent, refused>>

Ask ==
  /\ step = "ask" /\ step' = "asked"
  /\ attempt' = attempt + 1
  /\ got' = <<>> /\ complained' = FALSE /\ finished' = FALSE
  /\ UNCHANGED <<client, shown, answer, result, cancelled, spent, refused>>

\* What follows an attempt that failed.  A context that is cancelled ends it.
Failed(retriable) ==
  IF \/ client = "zen" /\ retriable /\ ~cancelled /\ attempt < Attempts /\ ~spent
     \/ client = "vision" /\ ~cancelled /\ attempt < Attempts
  THEN step' = "retry" /\ UNCHANGED <<answer, result>>
  ELSE Ends("error", <<>>)

\* 400, 401, 404: zenRetriable.
Refused ==
  /\ step = "asked"
  /\ refused' = TRUE
  /\ Failed(FALSE)
  /\ UNCHANGED <<client, attempt, got, complained, finished, shown, cancelled, spent>>

\* 403, 408, 429, 5xx, no connection, no stream where one was asked for, the
\* time limit of the attempt, a stream that breaks.
Fails ==
  /\ step \in {"asked", "stream"}
  /\ Failed(TRUE)
  /\ UNCHANGED <<client, attempt, got, complained, finished, shown, cancelled, spent, refused>>

\* A server that only supports streaming is asked for a stream.
OnlyStreams ==
  /\ step = "asked" /\ client = "responses" /\ attempt = 1
  /\ step' = "ask"
  /\ UNCHANGED <<client, attempt, got, complained, finished, shown, answer, result,
                 cancelled, spent, refused>>

\* The back-off passes, or the caller goes away.  The budget is looked at
\* before it.
Retry ==
  /\ step = "retry"
  /\ IF cancelled THEN Ends("error", <<>>)
                  ELSE step' = "ask" /\ UNCHANGED <<answer, result>>
  /\ UNCHANGED <<client, attempt, got, complained, finished, shown, cancelled, spent, refused>>

----------------------------------------------------------------------------
(* The answer                                                              *)

\* The body of a request that is not streamed: an answer, or none in it.
Body ==
  /\ step = "asked" /\ Whole
  /\ \/ Ends("ok", [k \in 1..Words |-> <<attempt, k, "text">>])
     \/ Ends("error", <<>>)
  /\ UNCHANGED <<client, attempt, got, complained, finished, shown, cancelled, spent, refused>>

Opens ==
  /\ step = "asked" /\ ~Whole
  /\ step' = "stream"
  /\ UNCHANGED <<client, attempt, got, complained, finished, shown, answer, result,
                 cancelled, spent, refused>>

\* The vision client reads no thoughts, so its server's words are text.
Word(type) ==
  /\ step = "stream" /\ Brought < Words /\ ~finished
  /\ client \in {"vision", "responses"} => type = "text"
  /\ LET w == <<attempt, Brought + 1, type>>
     IN  /\ got' = Append(got, w)
         /\ shown' = IF Forwards THEN Append(shown, w) ELSE shown
  /\ UNCHANGED <<client, step, attempt, complained, finished, answer, result,
                 cancelled, spent, refused>>

\* An error payload.  decodeResponsesStream gives up, the others read on, and
\* StreamChat does not see it.
Complaint ==
  /\ step = "stream" /\ ~complained /\ ~finished
  /\ complained' = TRUE
  /\ IF client = "responses" THEN Failed(TRUE) ELSE UNCHANGED <<step, answer, result>>
  /\ UNCHANGED <<client, attempt, got, finished, shown, cancelled, spent, refused>>

\* [DONE], or response.completed with the answer in it.
Marker ==
  /\ step = "stream" /\ ~finished
  /\ complained \/ Brought = Words
  /\ finished' = TRUE
  /\ UNCHANGED <<client, step, attempt, got, complained, shown, answer, result,
                 cancelled, spent, refused>>

\* The end of the stream, with the marker or without it.
StreamEnds ==
  /\ step = "stream"
  /\ CASE client = "zen" ->
            IF NoText(got) /\ (complained \/ got = <<>>) THEN Failed(TRUE)
                                                          ELSE Ends("ok", got)
       [] client = "vision" ->
            IF got = <<>> THEN Failed(TRUE) ELSE Ends("ok", got)
       [] client = "chat_stream" -> Ends("ok", got)
       [] client = "responses" ->
            IF finished THEN Ends("ok", got) ELSE Failed(TRUE)
  /\ UNCHANGED <<client, attempt, got, complained, finished, shown, cancelled, spent, refused>>

Cancel ==
  /\ step # "done" /\ ~cancelled /\ cancelled' = TRUE
  /\ UNCHANGED <<client, step, attempt, got, complained, finished, shown, answer, result,
                 spent, refused>>

BudgetPasses ==
  /\ client = "zen" /\ attempt > 0 /\ step # "done" /\ ~spent /\ spent' = TRUE
  /\ UNCHANGED <<client, step, attempt, got, complained, finished, shown, answer, result,
                 cancelled, refused>>

Next ==
  \/ Unfit \/ Prepared \/ Ask \/ Refused \/ Fails \/ OnlyStreams \/ Retry
  \/ Body \/ Opens \/ Complaint \/ Marker \/ StreamEnds \/ Cancel \/ BudgetPasses
  \/ \E type \in {"text", "thought"} : Word(type)

Spec == Init /\ [][Next]_callvars

----------------------------------------------------------------------------
Told == Nat \X (1..Words) \X {"text", "thought"}

\* Every variable keeps its type.
TypeOK ==
  /\ client \in Clients
  /\ step \in {"prepare", "ask", "asked", "stream", "retry", "done"}
  /\ attempt \in Nat
  /\ got \in Seq(Told) /\ shown \in Seq(Told) /\ answer \in Seq(Told)
  /\ result \in {"none", "ok", "error"}
  /\ complained \in BOOLEAN /\ finished \in BOOLEAN /\ cancelled \in BOOLEAN
  /\ spent \in BOOLEAN /\ refused \in BOOLEAN

\* A text is the end of another.
AtTheEnd(s, t) == s = SubSeq(t, (Len(t) + 1) - Len(s), Len(t))

\* The answer is the words of the last attempt, from the first on, and of no
\* other.  Words are missing at its end only in a stream that stopped without
\* its marker or brought an error payload, and never in one of "responses".
\* An answer without a word of text is taken from a chat stream, or from a zen
\* stream of thoughts that brought no error.  So text beside an error payload is
\* an answer, and thoughts alone are; the comments at zen.go:241-242 and
\* vision.go:315-316 say that these are errors, the code does not.
AnswerIsOneAttempts ==
  result = "ok" =>
    /\ \A i \in 1..Len(answer) : answer[i][1] = attempt /\ answer[i][2] = i
    /\ Len(answer) < Words => ~Whole /\ client # "responses" /\ (complained \/ ~finished)
    /\ NoText(answer) =>
         client = "chat_stream" \/ (client = "zen" /\ ~complained /\ answer # <<>>)
    /\ Forwards => AtTheEnd(answer, shown)

\* No back end is asked more often than its limit, a refusing zen server and
\* the others' servers only once, but that a stream may be asked for instead.
AskedWithinReason ==
  /\ attempt =< (IF client \in {"zen", "vision"} THEN Attempts
                 ELSE IF client = "responses" THEN 2 ELSE 1)
  /\ refused /\ client # "vision" => step = "done"

\* Both together: what is taken for an answer, and how often it is asked for.
CallsAreSound == AnswerIsOneAttempts /\ AskedWithinReason
=============================================================================
