-------------------------- MODULE MessengerSending --------------------------
(***************************************************************************)
(* Sending, editing and posting images in one Messenger thread              *)
(* (src/internal/messenger/messenger.go: SendText, SendImage,               *)
(* EditMessageWithContinuation, retryLSTable).  Every piece of a text is    *)
(* one task with one stamp, the millisecond at which it was made; the       *)
(* server drops a task whose stamp it has seen in the thread.  A request    *)
(* whose answer is late may land, or not, after the caller has given it up. *)
(***************************************************************************)
EXTENDS Naturals, Sequences, FiniteSets

CONSTANTS
  Calls,      \* calls that are made side by side
  Mixes,      \* what the calls are, each "text", "image" or "edit"
  Pieces,     \* of a text; piece 0 is the notice for a failed upload
  Tries,      \* attempts of a task, len(sendRetryBackoffs) + 1
  LastMs      \* bound on the clock

VARIABLES
  kind,       \* per call: a member of Mixes
  thread,     \* the messages that stand in the thread, oldest first
  flight,     \* requests that may still land
  at,         \* per call: the step it is at
  piece,      \* per call: the piece it is sending
  stamps,     \* per call and piece: the stamp of its task
  try,        \* per call: attempts made with the current task
  sent,       \* per call: the last piece of which it knows the id
  result,     \* per call: what it told its caller
  cancelled,  \* calls whose context is cancelled
  now         \* the clock, in milliseconds

sendvars == <<kind, thread, flight, at, piece, stamps, try, sent, result, cancelled, now>>

Old == 0      \* the stamp of the message that is edited

PiecesOf(c) == IF kind[c] = "image" THEN 1 ELSE Pieces

Init ==
  /\ kind \in Mixes
  /\ thread = IF \A c \in Calls : kind[c] # "edit" THEN <<>>
              ELSE <<[stamp |-> Old, text |-> <<CHOOSE c \in Calls : kind[c] = "edit", 0>>]>>
  /\ flight = {}
  /\ at = [c \in Calls |-> "idle"]
  /\ piece = [c \in Calls |-> 0]
  /\ stamps = [c \in Calls |-> [k \in 0..PiecesOf(c) |-> Old]]
  /\ try = [c \in Calls |-> 0]
  /\ sent = [c \in Calls |-> 0]
  /\ result = [c \in Calls |-> "none"]
  /\ cancelled = {} /\ now = 1

\* A task is made for piece k and sent for the first time.
Make(c, k) ==
  LET stamp == IF kind[c] = "edit" /\ k = 1 THEN Old ELSE now
  IN  /\ piece' = [piece EXCEPT ![c] = k]
      /\ stamps' = [stamps EXCEPT ![c][k] = stamp]
      /\ try' = [try EXCEPT ![c] = 1]
      /\ flight' = flight \cup {[stamp |-> stamp, text |-> <<c, k>>]}
      /\ at' = [at EXCEPT ![c] = "waits"]

Returns(c, what) ==
  /\ at' = [at EXCEPT ![c] = "done"]
  /\ result' = [result EXCEPT ![c] = what]

\* SendText and EditMessageWithContinuation begin with the first piece.
Begin(c) ==
  /\ at[c] = "idle" /\ kind[c] # "image"
  /\ Make(c, 1)
  /\ UNCHANGED <<kind, thread, sent, result, cancelled, now>>

\* SendImage uploads the picture first, and tells the thread when it cannot.
UploadReturns(c) ==
  /\ at[c] = "idle" /\ kind[c] = "image"
  /\ \E k \in {0, 1} : Make(c, k)
  /\ UNCHANGED <<kind, thread, sent, result, cancelled, now>>

Cancel(c) ==
  /\ at[c] \in {"waits", "nudged"} /\ c \notin cancelled
  /\ cancelled' = cancelled \cup {c}
  /\ UNCHANGED <<kind, thread, flight, at, piece, stamps, try, sent, result, now>>

----------------------------------------------------------------------------
(* The server and the network                                              *)

Stamps == {thread[i].stamp : i \in 1..Len(thread)}

Lands(r) ==
  /\ r \in flight
  /\ flight' = flight \ {r}
  /\ thread' = IF r.stamp = Old
               THEN [i \in 1..Len(thread) |-> IF thread[i].stamp = Old THEN r ELSE thread[i]]
               ELSE IF r.stamp \in Stamps THEN thread
               ELSE Append(thread, r)
  /\ UNCHANGED <<kind, at, piece, stamps, try, sent, result, cancelled, now>>

Dropped(r) ==
  /\ r \in flight /\ flight' = flight \ {r}
  /\ UNCHANGED <<kind, thread, at, piece, stamps, try, sent, result, cancelled, now>>

Tick ==
  /\ now < LastMs /\ now' = now + 1
  /\ UNCHANGED <<kind, thread, flight, at, piece, stamps, try, sent, result, cancelled>>

----------------------------------------------------------------------------
(* The caller                                                              *)

Stands(c, k) == \E i \in 1..Len(thread) : thread[i].text = <<c, k>>

\* Another task with the same stamp was there first.
Swallowed(c, k) ==
  /\ stamps[c][k] # Old
  /\ \E i \in 1..Len(thread) : thread[i].stamp = stamps[c][k] /\ thread[i].text # <<c, k>>

\* The answer, a millisecond later at least, names the message with this stamp.
Answered(c) ==
  /\ at[c] = "waits"
  /\ Stands(c, piece[c]) \/ Swallowed(c, piece[c])
  /\ now > stamps[c][piece[c]]
  /\ IF piece[c] \in 1..(PiecesOf(c) - 1)
     THEN Make(c, piece[c] + 1) /\ UNCHANGED result
     ELSE /\ Returns(c, IF piece[c] = 0 THEN "failed" ELSE "ok")
          /\ UNCHANGED <<kind, flight, piece, stamps, try>>
  /\ sent' = [sent EXCEPT ![c] = piece[c]]
  /\ UNCHANGED <<kind, thread, cancelled, now>>

\* Variant: one attempt too many.
FailsOnceMore(c) ==
  /\ at[c] = "waits"
  /\ IF c \in cancelled \/ try[c] > Tries
     THEN Returns(c, IF kind[c] = "text" /\ sent[c] > 0 THEN "ok" ELSE "failed")
     ELSE at' = [at EXCEPT ![c] = "nudged"] /\ UNCHANGED result
  /\ UNCHANGED <<kind, thread, flight, piece, stamps, try, sent, cancelled, now>>

\* No answer in time, or an error.  SendText then returns the id it has, if
\* any: its caller takes that for sent.
Fails(c) ==
  /\ at[c] = "waits"
  /\ IF c \in cancelled \/ try[c] = Tries
     THEN Returns(c, IF kind[c] = "text" /\ sent[c] > 0 THEN "ok" ELSE "failed")
     ELSE at' = [at EXCEPT ![c] = "nudged"] /\ UNCHANGED result
  /\ UNCHANGED <<kind, thread, flight, piece, stamps, try, sent, cancelled, now>>

\* Variant: every attempt makes its task anew.
RetryAnew(c) ==
  /\ at[c] = "nudged" /\ c \notin cancelled
  /\ Make(c, piece[c])
  /\ UNCHANGED <<kind, thread, sent, result, cancelled, now>>

\* The socket is up again, or the back-off has passed: the same task again.
Retry(c) ==
  /\ at[c] = "nudged" /\ c \notin cancelled
  /\ flight' = flight \cup {[stamp |-> stamps[c][piece[c]], text |-> <<c, piece[c]>>]}
  /\ try' = [try EXCEPT ![c] = @ + 1]
  /\ at' = [at EXCEPT ![c] = "waits"]
  /\ UNCHANGED <<kind, thread, piece, stamps, sent, result, cancelled, now>>

GivesUp(c) ==
  /\ at[c] = "nudged" /\ c \in cancelled
  /\ Returns(c, IF kind[c] = "text" /\ sent[c] > 0 THEN "ok" ELSE "failed")
  /\ UNCHANGED <<kind, thread, flight, piece, stamps, try, sent, cancelled, now>>

Next ==
  \/ \E c \in Calls :
       Begin(c) \/ UploadReturns(c) \/ Cancel(c) \/ Answered(c) \/ Fails(c)
         \/ Retry(c) \/ GivesUp(c)
  \/ \E r \in flight : Lands(r) \/ Dropped(r)
  \/ Tick

Spec == Init /\ [][Next]_sendvars

----------------------------------------------------------------------------
Texts == Calls \X (0..Pieces)
Messages == [stamp : Old..LastMs, text : Texts]

\* Every variable keeps its type.
TypeOK ==
  /\ kind \in Mixes
  /\ thread \in Seq(Messages) /\ flight \subseteq Messages
  /\ at \in [Calls -> {"idle", "waits", "nudged", "done"}]
  /\ piece \in [Calls -> 0..Pieces] /\ sent \in [Calls -> 0..Pieces]
  /\ DOMAIN stamps = Calls
  /\ \A c \in Calls : piece[c] =< PiecesOf(c) /\ stamps[c] \in [0..PiecesOf(c) -> Old..LastMs]
  /\ try \in [Calls -> 0..Tries]
  /\ result \in [Calls -> {"none", "ok", "failed"}]
  /\ cancelled \subseteq Calls /\ now \in 1..LastMs

\* However often a send is repeated, and whenever its requests land, a piece
\* stands in the thread once, and the pieces of a text in their order.
PiecesStandOnce ==
  \A i, j \in 1..Len(thread) :
    i < j => \/ thread[i].text[1] # thread[j].text[1]
             \/ thread[i].text[2] < thread[j].text[2]

\* A caller that is told a success finds the pieces known to have been sent in
\* the thread, but for one that shares its millisecond with another send; an
\* edit that reports success has put up all of its text.
SuccessIsTrue ==
  \A c \in Calls :
    result[c] = "ok" =>
      /\ sent[c] > 0
      /\ kind[c] # "text" => sent[c] = PiecesOf(c)
      /\ \A k \in 1..sent[c] : Stands(c, k) \/ Swallowed(c, k)

\* Both together: what a send leaves in a thread, and what its caller is told.
SendsAreSound == PiecesStandOnce /\ SuccessIsTrue
=============================================================================
