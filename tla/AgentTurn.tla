----------------------------- MODULE AgentTurn -----------------------------
(***************************************************************************)
(* The turns of one conversation (src/internal/agent, and the part of      *)
(* src/internal/discordbot/service.go that settles a turn): the loop that  *)
(* asks the model and runs the tools it calls, the retries of a request,   *)
(* the history that goes into a request and the one that is kept, and what *)
(* the user is told in the end.                                            *)
(*                                                                         *)
(* A message keeps its role, whether it has text, the calls it makes or    *)
(* the call it answers, its size in tokens and the turn it belongs to.     *)
(***************************************************************************)
EXTENDS Integers, Sequences, FiniteSetsExt, SequencesExt

CONSTANTS
  MaxRounds,    \* app.max_agent_loops
  MaxCalls,     \* app.max_tool_calls_per_turn
  MaxAttempts,  \* llm.request_max_attempts
  Streams,      \* the turn is shown live and the backend has a chat stream
  Trigger,      \* history compaction: trigger_tokens ...
  Preserve,     \* ... and preserve_recent_messages
  Rooms,        \* what a system prompt may leave of the token budget
  Sizes,        \* sizes of the user's messages and of the tools' results
  ToolLists,    \* the tools a response may call, in order
  MaxTurns      \* bound on the turns

\* Tools of isParallelSafeTool, compact_context, and the others.
Tools == {"safe", "compact", "other"}

ASSUME TurnAssumption ==
  /\ MaxRounds \in Nat \ {0} /\ MaxCalls \in Nat \ {0} /\ MaxAttempts \in Nat \ {0}
  /\ Streams \in BOOLEAN
  /\ Trigger \in Nat \ {0} /\ Preserve \in Nat \ {0}
  /\ Rooms \subseteq Int /\ Sizes \subseteq Nat \ {0}
  /\ ToolLists \subseteq Seq(Tools) /\ <<>> \in ToolLists
  /\ MaxTurns \in Nat

VARIABLES
  stored,     \* sessionState.History
  hist,       \* workingHistory
  pc,
  turn,       \* history: the number of the turn
  rounds, attempts,
  sent,       \* the messages of the request under way, after the system prompt
  gave,       \* history: what the model answered last
  todo,       \* the calls whose results are not yet in the history
  finished,   \* positions in todo of the calls that have been run
  cancelled,  \* the context of the session
  squeezed,   \* history: the working history has been compacted in this turn
  told        \* what became of the turn, as the user sees it

vars == <<stored, hist, pc, turn, rounds, attempts, sent, gave, todo, finished,
          cancelled, squeezed, told>>

Texts == {"none", "reply", "noReply"}
Answers == [text : Texts, tools : ToolLists]
NoAnswer == [text |-> "none", tools |-> <<>>]

\* A call is known by the turn, the round and its place in the response.
CallIds == Nat \X Nat \X Nat
Calls == [id : CallIds, tool : Tools]
NoCall == <<>>

\* Only results have a call they answer, and only the model has something to say.
Messages ==
  {m \in [role : {"system", "user", "assistant", "tool"}, text : Texts, calls : Seq(Calls),
          call : CallIds \cup {NoCall}, size : Nat \ {0}, turn : 0..MaxTurns] :
     /\ (m.role = "tool") <=> (m.call # NoCall)
     /\ m.role # "assistant" => m.text = "none" /\ m.calls = <<>>}

Message(role, text, calls, call, size) ==
  [role |-> role, text |-> text, calls |-> calls, call |-> call, size |-> size, turn |-> turn]

Ids(m) == {c.id : c \in ToSet(m.calls)}

Init ==
  /\ stored = <<>> /\ hist = <<>> /\ pc = "idle"
  /\ turn = 0 /\ rounds = 0 /\ attempts = 0
  /\ sent = <<>> /\ gave = NoAnswer
  /\ todo = <<>> /\ finished = {}
  /\ cancelled = FALSE /\ squeezed = FALSE /\ told = <<"nothing">>

----------------------------------------------------------------------------
(* Histories                                                               *)

Tokens(h) == FoldLeft(LAMBDA n, m : n + m.size, 0, h)

From(h, i) == SubSeq(h, i, Len(h))

Tail1(h, n) == IF n >= Len(h) THEN h ELSE From(h, Len(h) - n + 1)

\* The numbers of a set in increasing order.
InOrder[K \in SUBSET Nat] ==
  [n \in 1..Cardinality(K) |-> CHOOSE i \in K : Cardinality({j \in K : j <= i}) = n]

\* normalizeToolCallHistory: calls without results and results without calls
\* are left out.  Both are looked up in h, not in what is left of it.
Normalize[h \in Seq(Messages)] ==
  LET called   == UNION {Ids(h[i]) : i \in DOMAIN h}
      answered == {h[i].call : i \in {j \in DOMAIN h : h[j].role = "tool"}}
      kept     == InOrder[{i \in DOMAIN h : /\ Ids(h[i]) \subseteq answered
                                            /\ h[i].role = "tool" => h[i].call \in called}]
  IN  [n \in DOMAIN kept |-> h[kept[n]]]

\* Variant: a newest message that does not fit is left out, too.
TrimStrictly(h, room) ==
  Normalize[From(h, Min({Len(h) + 1} \cup {i \in DOMAIN h : Tokens(From(h, i)) <= room}))]

\* trimHistoryForContext: the newest messages that fit, at least one.
Trim(h, room) ==
  LET fit  == From(h, Min({Len(h)} \cup {i \in DOMAIN h : Tokens(From(h, i)) <= room}))
      kept == Normalize[fit]
  IN  IF room <= 0 \/ kept = <<>> THEN Tail1(h, 1) ELSE kept

\* resolveCompactionTailStart, as the number of messages before the tail: the
\* tail begins neither with a result nor behind a message with calls.
HeadLength(h) ==
  LET start == Max({1, Len(h) - Preserve})
      back  == Max({0} \cup {i \in 1..start : h[i + 1].role # "tool"})
  IN  Max({0} \cup {i \in 1..back : h[i].calls = <<>>})

\* compactHistoryForStorage; the summary is never empty.
Compacted(h) ==
  IF Tokens(h) <= Trigger \/ Len(h) <= Preserve THEN h
  ELSE IF HeadLength(h) \in {0, Len(h)} THEN Tail1(h, Preserve)
  ELSE Normalize[<<Message("system", "none", <<>>, NoCall, 1)>> \o From(h, HeadLength(h) + 1)]

----------------------------------------------------------------------------
(* The turn begins                                                         *)

\* The images of the prompt are described first.  The turns of a session follow
\* each other.
Begin(size) ==
  /\ pc = "idle" /\ turn < MaxTurns /\ ~cancelled
  /\ turn' = turn + 1
  /\ hist' = Append(stored, [Message("user", "none", <<>>, NoCall, size) EXCEPT !.turn = turn + 1])
  /\ pc' = "round" /\ rounds' = 0 /\ squeezed' = FALSE /\ told' = <<"nothing">>
  /\ gave' = NoAnswer
  /\ UNCHANGED <<stored, attempts, sent, todo, finished, cancelled>>

\* An image that cannot be described ends the turn; the error is shown.
DescribeFails ==
  /\ pc = "idle" /\ turn < MaxTurns /\ ~cancelled
  /\ turn' = turn + 1 /\ hist' = <<>>
  /\ pc' = "failed" /\ rounds' = 0 /\ squeezed' = FALSE /\ told' = <<"nothing">>
  /\ gave' = NoAnswer
  /\ UNCHANGED <<stored, attempts, sent, todo, finished, cancelled>>

\* /stop and /new.
Cancel ==
  /\ pc # "idle" /\ ~cancelled
  /\ cancelled' = TRUE
  /\ UNCHANGED <<stored, hist, pc, turn, rounds, attempts, sent, gave, todo, finished,
                 squeezed, told>>

----------------------------------------------------------------------------
(* Asking the model                                                        *)

\* The top of the loop; the system prompt is built anew for each request.
Ask(room) ==
  /\ pc = "round" /\ rounds < MaxRounds
  /\ sent' = Trim(hist, room)
  /\ pc' = IF Streams THEN "stream" ELSE "attempt"
  /\ attempts' = 1
  /\ UNCHANGED <<stored, hist, turn, rounds, gave, todo, finished, cancelled, squeezed, told>>

RoundLimit ==
  /\ pc = "round" /\ rounds >= MaxRounds
  /\ pc' = "failed"
  /\ UNCHANGED <<stored, hist, turn, rounds, attempts, sent, gave, todo, finished,
                 cancelled, squeezed, told>>

CallsOf(tools) == [i \in DOMAIN tools |-> [id |-> <<turn, rounds, i>>, tool |-> tools[i]]]

Result(c, size) == Message("tool", "none", <<>>, c.id, size)

\* A response enters the history, with a result for each call over the limit.
Receive(text, tools) ==
  LET calls   == CallsOf(tools)
      limit   == Min({MaxCalls, Len(calls)})
      skipped == [i \in 1..(Len(calls) - limit) |-> Result(calls[limit + i], 1)]
  IN  /\ hist' = Append(hist, Message("assistant", text, calls, NoCall, 1)) \o skipped
      /\ todo' = SubSeq(calls, 1, limit)
      /\ finished' = {} /\ rounds' = rounds + 1 /\ attempts' = 0 /\ sent' = <<>>
      /\ pc' = IF calls = <<>> THEN "ended" ELSE "tools"

\* StreamChat collects the text of the stream, and only the text.
Stream(a) ==
  /\ pc = "stream" /\ ~cancelled
  /\ gave' = a /\ Receive(a.text, <<>>)
  /\ UNCHANGED <<stored, turn, cancelled, squeezed, told>>

\* A broken stream is followed by plain requests.
StreamFails ==
  /\ pc = "stream"
  /\ pc' = "attempt"
  /\ UNCHANGED <<stored, hist, turn, rounds, attempts, sent, gave, todo, finished,
                 cancelled, squeezed, told>>

Chat(a) ==
  /\ pc = "attempt" /\ ~cancelled
  /\ gave' = a /\ Receive(a.text, a.tools)
  /\ UNCHANGED <<stored, turn, cancelled, squeezed, told>>

\* Fatal, the last attempt, or cancelled.
ChatFails ==
  /\ pc \in {"attempt", "backoff"}
  /\ pc = "backoff" => cancelled
  /\ pc' = "failed" /\ sent' = <<>> /\ attempts' = 0
  /\ UNCHANGED <<stored, hist, turn, rounds, gave, todo, finished, cancelled, squeezed, told>>

\* A timeout, a throttle, a server error: once more after a while.
ChatRetriable ==
  /\ pc = "attempt" /\ ~cancelled /\ attempts < MaxAttempts
  /\ pc' = "backoff"
  /\ UNCHANGED <<stored, hist, turn, rounds, attempts, sent, gave, todo, finished,
                 cancelled, squeezed, told>>

\* Variant: the attempts are not counted.
RetryForever ==
  /\ pc = "backoff" /\ pc' = "attempt"
  /\ UNCHANGED <<stored, hist, turn, rounds, attempts, sent, gave, todo, finished,
                 cancelled, squeezed, told>>

Retry ==
  /\ pc = "backoff" /\ pc' = "attempt"
  /\ attempts' = attempts + 1
  /\ UNCHANGED <<stored, hist, turn, rounds, sent, gave, todo, finished,
                 cancelled, squeezed, told>>

----------------------------------------------------------------------------
(* Running the tools                                                       *)

Parallel == Len(todo) >= 2 /\ \A i \in DOMAIN todo : todo[i].tool = "safe"

\* One after the other, or all at once if all are safe.  A failure is a result,
\* and so is a panic of a parallel call.
RunTool(i) ==
  /\ pc = "tools" /\ i \in DOMAIN todo \ finished
  /\ Parallel \/ 1..(i - 1) \subseteq finished
  /\ finished' = finished \cup {i}
  /\ UNCHANGED <<stored, hist, pc, turn, rounds, attempts, sent, gave, todo, cancelled,
                 squeezed, told>>

\* A panic of a call on the turn's own goroutine ends the turn, with an error.
Panic ==
  /\ pc = "tools" /\ ~Parallel /\ finished # DOMAIN todo
  /\ pc' = "idle" /\ told' = <<"error">> /\ todo' = <<>> /\ finished' = {}
  /\ UNCHANGED <<stored, hist, turn, rounds, attempts, sent, gave, cancelled, squeezed>>

Ready == pc = "tools" /\ finished = DOMAIN todo

\* The results enter the history in the order of the calls; compact_context
\* compacts the history at its place in that order.
Collect(size) ==
  /\ Ready /\ todo # <<>>
  /\ LET c    == Head(todo)
         more == Append(hist, Result(c, size))
     IN  /\ hist' = IF c.tool = "compact" THEN Compacted(more) ELSE more
         /\ squeezed' = (squeezed \/ (c.tool = "compact" /\ Compacted(more) # more))
  /\ todo' = Tail(todo)
  /\ finished' = 1..(Len(todo) - 1)
  /\ pc' = IF Len(todo) = 1 THEN "round" ELSE pc
  /\ UNCHANGED <<stored, turn, rounds, attempts, sent, gave, cancelled, told>>

----------------------------------------------------------------------------
(* Settling the turn (processPrompt)                                             *)

Texted(h, first) == {i \in first..Len(h) : h[i].role = "assistant" /\ h[i].text # "none"}

\* Variant: the first text of the turn is taken for its reply.
FirstChoice(h, first) == IF Texted(h, first) # {} THEN Min(Texted(h, first)) ELSE 0

\* turnAssistantReply over h[first..]: the last message with text that either
\* declines to reply or calls nothing decides; without one the last with text.
Choice(h, first) ==
  LET plain == {i \in Texted(h, first) : h[i].text = "noReply" \/ h[i].calls = <<>>}
  IN  IF plain # {} THEN Max(plain) ELSE Max(Texted(h, first) \cup {0})

\* Variant: the reply is looked for in the whole history.
ReplyAnywhere == Choice(hist, 1)

\* The reply of the turn is looked for behind what the history was before it.
Reply == Choice(hist, Len(stored) + 1)

\* clearNoReplyToken: the last token of the turn.
Cleared(h) ==
  LET tokens == {i \in (Len(stored) + 1)..Len(h) : h[i].role = "assistant" /\ h[i].text = "noReply"}
  IN  IF tokens = {} THEN h ELSE [h EXCEPT ![Max(tokens)].text = "none"]

Settle ==
  /\ pc = "ended" /\ ~cancelled
  /\ IF Reply # 0 /\ hist[Reply].text = "noReply"
       THEN told' = <<"silence">> /\ stored' = Compacted(Cleared(hist))
       ELSE /\ told' = IF Reply = 0 THEN <<"emptyNotice">> ELSE <<"reply", hist[Reply]>>
            /\ stored' = Compacted(hist)
  /\ pc' = "idle"
  /\ UNCHANGED <<hist, turn, rounds, attempts, sent, gave, todo, finished, cancelled, squeezed>>

\* What the turn did until it failed is kept.
SettleFailed ==
  /\ pc = "failed" /\ ~cancelled
  /\ stored' = IF hist = <<>> THEN stored ELSE Compacted(hist)
  /\ told' = <<"error">> /\ pc' = "idle"
  /\ UNCHANGED <<hist, turn, rounds, attempts, sent, gave, todo, finished, cancelled, squeezed>>

\* A cancelled turn leaves no trace.
Abandon ==
  /\ pc \in {"ended", "failed"} /\ cancelled
  /\ pc' = "idle"
  /\ UNCHANGED <<stored, hist, turn, rounds, attempts, sent, gave, todo, finished,
                 cancelled, squeezed, told>>

Model ==
  \/ \E r \in Rooms : Ask(r)
  \/ RoundLimit \/ StreamFails \/ ChatFails \/ ChatRetriable \/ Retry
  \/ \E a \in Answers : Stream(a) \/ Chat(a)

Run ==
  \/ Model
  \/ \E i \in DOMAIN todo : RunTool(i)
  \/ \E s \in Sizes : Collect(s)
  \/ Panic \/ Settle \/ SettleFailed \/ Abandon

Next == Run \/ Cancel \/ DescribeFails \/ \E s \in Sizes : Begin(s)

Spec == Init /\ [][Next]_vars

\* A turn goes on: the requests and the tools have timeouts of their own.
Fairness == WF_vars(Run)

FairSpec == Spec /\ Fairness

----------------------------------------------------------------------------
(* Properties                                                              *)

\* Every variable keeps its type, no limit of the configuration is passed, and
\* a turn that has not failed knows at least the message it began with.
TypeOK ==
  /\ stored \in Seq(Messages) /\ hist \in Seq(Messages) /\ sent \in Seq(Messages)
  /\ pc \in {"idle", "round", "stream", "attempt", "backoff", "tools", "ended", "failed"}
  /\ turn \in 0..MaxTurns /\ rounds \in 0..MaxRounds /\ attempts \in 0..MaxAttempts
  /\ gave \in Answers
  /\ todo \in Seq(Calls) /\ Len(todo) <= MaxCalls
  /\ (pc = "tools" => todo # <<>> /\ finished \subseteq DOMAIN todo)
  /\ cancelled \in BOOLEAN /\ squeezed \in BOOLEAN
  /\ Head(told) \in {"nothing", "reply", "silence", "emptyNotice", "error"}
  /\ pc \notin {"idle", "failed"} => hist # <<>>

Answered(h) == \A i \in DOMAIN h : \A id \in Ids(h[i]) :
                 \E j \in i + 1..Len(h) : h[j].role = "tool" /\ h[j].call = id

Called(h) == \A i \in DOMAIN h : h[i].role = "tool" =>
               \E j \in 1..i - 1 : h[i].call \in Ids(h[j])

\* No history that a request is made of, or that is kept for the next turn,
\* has a call without its result.
NoOpenCall == Answered(stored) /\ (pc \in {"round", "ended"} => Answered(hist))

\* A request has a result for each call and a call for each result, but for one
\* that is only the newest message because nothing more fits.
RequestIsPaired == Len(sent) > 1 => Answered(sent) /\ Called(sent)

\* The model is shown the newest message, so the result of a tool it has just
\* called, unless the turn has compacted its history.
NewestIsShown ==
  pc \in {"stream", "attempt", "backoff"} /\ ~squeezed
    => sent # <<>> /\ sent[Len(sent)] = hist[Len(hist)]

\* A request can be answered: within the limits, every call with its result and
\* every result with its call, the newest message in it; and what is kept for
\* the next turn is of the same kind.
RequestIsSound == TypeOK /\ NoOpenCall /\ RequestIsPaired /\ NewestIsShown

\* A reply is one of the turn it answers.
ReplyIsOwn == Head(told) = "reply" => told[2].turn = turn

\* What the model has said in the end is told, if there was neither a stream
\* that lost its calls nor a compaction in the turn.
LastWordIsTold ==
  Head(told) \in {"reply", "emptyNotice"} /\ gave.text = "reply" /\ ~squeezed
    => Head(told) = "reply" /\ told[2] = hist[Len(hist)]

\* A turn comes to its end, whatever the model and the tools do.
TurnEnds == pc # "idle" ~> pc = "idle"

\* The message that StreamChat returns "is the fully accumulated response": a
\* turn ends without a reply only if the model gave none.
NoticeIsTrue == Head(told) = "emptyNotice" => gave.text = "none" /\ gave.tools = <<>>
=============================================================================
