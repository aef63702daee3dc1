----------------------------- MODULE LiveMessage -----------------------------
(***************************************************************************)
(* The message that shows a turn at work and is replaced by its answer:     *)
(* src/internal/discordbot/thinking.go, renderThinkingEdits and             *)
(* feedStreamSignals of src/internal/bridge/streaming.go, and the dots that *)
(* agentRun of src/internal/bridge/service.go shows on Messenger.  The turn *)
(* feeds signals to a renderer of its own and closes a channel to stop it;  *)
(* it does not wait for the renderer, whose select may prefer another       *)
(* channel to the closed one, and whose edit may be under way.              *)
(*                                                                         *)
(* A piece of text is the number of the model call it comes from.           *)
(***************************************************************************)
EXTENDS Integers, Sequences

CONSTANTS
  Scripts,    \* bound: what a turn may report, sequences of "delta" and "tool"
  Platforms,  \* "discord", "whatsapp", "messenger"
  QueueSize,  \* capacity of the channel of signals
  MaxDots     \* edits of the dots on Messenger

VARIABLES
  platform,
  script,    \* what the turn has yet to report
  call,      \* the model call it is in
  turn,      \* where the turn is
  reply,     \* what it has to say in the end
  signals,
  renderer,
  preview,   \* the text of the next edit
  justReset,
  edit,      \* the text of the edit under way
  dots,      \* edits left to the dots
  shown,     \* what the chat shows at the place of the message
  lostReset, \* a tool's signal was dropped
  late       \* history: an edit was under way with the answer's, or began after it

lmvars == <<platform, script, call, turn, reply, signals, renderer, preview, justReset,
            edit, dots, shown, lostReset, late>>

\* What is shown that is no text of a call.
Only(what) == {[kind |-> what, call |-> 0]}

Streams == platform # "messenger"

\* startThinking: the placeholder is up and the renderer runs.
Init ==
  /\ platform \in Platforms
  /\ script \in IF Streams THEN Scripts ELSE {<<>>}
  /\ call = 1
  /\ turn = "running" /\ reply = "none"
  /\ signals = <<>>
  /\ renderer = "select"
  /\ preview = {} /\ justReset = FALSE /\ edit = {}
  /\ dots = IF Streams THEN 0 ELSE MaxDots
  /\ shown = Only("placeholder")
  /\ lostReset = FALSE /\ late = FALSE

----------------------------------------------------------------------------
(* The turn                                                                *)

\* feed: what does not fit is dropped, the turn never waits.
Feed ==
  /\ turn = "running" /\ script # <<>>
  /\ LET s == [kind |-> Head(script), call |-> call]
     IN  /\ IF Len(signals) < QueueSize
              THEN signals' = Append(signals, s) /\ UNCHANGED lostReset
              ELSE lostReset' = (lostReset \/ s.kind = "tool") /\ UNCHANGED signals
         /\ call' = IF s.kind = "tool" THEN call + 1 ELSE call
  /\ script' = Tail(script)
  /\ UNCHANGED <<platform, turn, reply, renderer, preview, justReset, edit, dots, shown, late>>

\* The run is over, early if it was stopped or failed.  The reply fits one
\* message, or does not, or there is none.  Then the renderer is stopped.
Stop ==
  /\ turn = "running"
  /\ reply' \in {"short", "long", "none"}
  /\ turn' = CASE reply' = "short" -> "replace"
               [] reply' = "long"  -> IF platform = "discord" THEN "delete" ELSE "replace"
               [] reply' = "none"  -> IF platform = "discord" THEN "delete" ELSE "over"
  /\ script' = <<>>
  /\ UNCHANGED <<platform, call, signals, renderer, preview, justReset, edit, dots, shown,
                 lostReset, late>>

\* What an edit makes of the message: a deleted one does not come back.
Edited(text) == IF shown = Only("deleted") THEN shown ELSE text

\* The last edit.  One that has failed may have arrived; on Discord the
\* message is deleted then, elsewhere the answer is sent beside it.
Replace ==
  /\ turn = "replace"
  /\ \/ shown # Only("deleted") /\ shown' = Only("answer") /\ turn' = "replaced"
     \/ /\ shown' \in {shown, Edited(Only("answer"))}
        /\ turn' = IF platform = "discord" THEN "delete" ELSE "resend"
  /\ late' = (renderer = "editing")
  /\ UNCHANGED <<platform, script, call, reply, signals, renderer, preview, justReset, edit,
                 dots, lostReset>>

\* discard, and finish where the answer cannot take the message's place.  That
\* it cannot be deleted is ignored.
Delete ==
  /\ turn = "delete"
  /\ shown' \in {shown, Only("deleted")}
  /\ turn' = IF reply = "none" THEN "over" ELSE "resend"
  /\ UNCHANGED <<platform, script, call, reply, signals, renderer, preview, justReset, edit,
                 dots, lostReset, late>>

\* sendReply, as messages of their own.
Resend ==
  /\ turn = "resend"
  /\ turn' \in {"resent", "over"}
  /\ UNCHANGED <<platform, script, call, reply, signals, renderer, preview, justReset, edit,
                 dots, shown, lostReset, late>>

----------------------------------------------------------------------------
(* The renderer: one turn of its select after the other                    *)

Selects == renderer = "select"

\* An edit begins, and the answer may already be there.
EditBegins(text) ==
  /\ renderer' = "editing" /\ edit' = text
  /\ late' = (late \/ turn = "replaced")

\* flush: nothing to show is no edit.
Flush(text) ==
  IF text = {} THEN UNCHANGED <<renderer, edit, late>> ELSE EditBegins(text)

\* Variant: the text of a call is appended to what a tool has left.
RenderAppending ==
  /\ Selects /\ Streams /\ signals # <<>>
  /\ signals' = Tail(signals)
  /\ preview' = preview \cup {Head(signals)} /\ UNCHANGED justReset
  /\ UNCHANGED <<renderer, edit, platform, script, call, turn, reply, dots, shown, lostReset,
                 late>>

\* A tool's signal takes the place of the text and is shown at once; the first
\* text after it takes its place.  Other text waits for its time.
Render ==
  /\ Selects /\ Streams /\ signals # <<>>
  /\ signals' = Tail(signals)
  /\ LET s == Head(signals)
     IN  IF s.kind = "tool"
           THEN preview' = {s} /\ justReset' = TRUE /\ Flush({s})
           ELSE /\ preview' = (IF justReset THEN {} ELSE preview) \cup {s}
                /\ justReset' = FALSE
                /\ (Flush(preview') \/ UNCHANGED <<renderer, edit, late>>)
  /\ UNCHANGED <<platform, script, call, turn, reply, dots, shown, lostReset>>

Tick ==
  /\ Selects /\ Streams
  /\ Flush(preview)
  /\ UNCHANGED <<platform, script, call, turn, reply, signals, preview, justReset, dots, shown,
                 lostReset>>

\* Messenger: a few edits that show dots.
Dot ==
  /\ Selects /\ ~Streams /\ dots > 0
  /\ dots' = dots - 1
  /\ EditBegins(Only("dots"))
  /\ UNCHANGED <<platform, script, call, turn, reply, signals, preview, justReset, shown,
                 lostReset>>

\* The edit arrives or not, and if it has failed the renderer gives up, except
\* for the dots, which go on to their last.
EditReturns ==
  /\ renderer = "editing"
  /\ \/ /\ shown' = Edited(edit)
        /\ renderer' = IF ~Streams /\ dots = 0 THEN "gone" ELSE "select"
     \/ /\ shown' \in {shown, Edited(edit)}
        /\ renderer' = IF Streams \/ dots = 0 THEN "gone" ELSE "select"
  /\ edit' = {}
  /\ UNCHANGED <<platform, script, call, turn, reply, signals, preview, justReset, dots,
                 lostReset, late>>

StopSeen ==
  /\ Selects /\ turn # "running"
  /\ renderer' = "gone"
  /\ UNCHANGED <<platform, script, call, turn, reply, signals, preview, justReset, edit, dots,
                 shown, lostReset, late>>

Next ==
  \/ Feed \/ Stop \/ Replace \/ Delete \/ Resend
  \/ Render \/ Tick \/ Dot \/ EditReturns \/ StopSeen

Spec == Init /\ [][Next]_lmvars

----------------------------------------------------------------------------
(* Properties                                                              *)

Signals == [kind : {"delta", "tool"}, call : Nat]

\* Every variable keeps its type.
TypeOK ==
  /\ platform \in Platforms
  /\ script \in Seq({"delta", "tool"}) /\ call \in Nat
  /\ turn \in {"running", "replace", "delete", "resend", "replaced", "resent", "over"}
  /\ reply \in {"short", "long", "none"}
  /\ signals \in Seq(Signals) /\ Len(signals) =< QueueSize
  /\ renderer \in {"select", "editing", "gone"}
  /\ justReset \in BOOLEAN /\ lostReset \in BOOLEAN /\ late \in BOOLEAN
  /\ dots \in 0..MaxDots

\* The preview never shows the text of one model call together with that of
\* another, or with the note of a tool, unless that tool's signal did not fit.
PreviewIsOneCall ==
  lostReset \/ \A a, b \in preview : a = b

\* When the turn counts its answer as given in the place of the message, the
\* chat shows the answer, and goes on to show it until the renderer has an edit
\* under way beside the answer's or begins one after it.  That this can happen
\* to a renderer that was told to stop, so that the answer is covered for good,
\* is what the code does, not what its comments promise.
AnswerStays ==
  turn = "replaced" /\ ~late => shown = Only("answer")
=============================================================================
