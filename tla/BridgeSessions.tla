--------------------------- MODULE BridgeSessions ---------------------------
(***************************************************************************)
(* The text threads of Messenger and WhatsApp (src/internal/bridge/         *)
(* service.go, commands.go): agent runs on the history of a thread, /new,   *)
(* /stop, /compact, notifications that are recorded in the history, the     *)
(* overlays of /allow, /block, /mute and /unmute, and the three files these *)
(* are saved in.  There is no run lock: a run copies the history and writes *)
(* its own back.  What serialises is the lane an event comes in on: one     *)
(* goroutine calls the handler for message after message.                   *)
(*                                                                         *)
(* A history is a sequence of the events that put something in it.          *)
(***************************************************************************)
EXTENDS Integers, Sequences, Functions

CONSTANTS
  Events,       \* records [id, kind, lane, thread, target, feed]
  Lanes,        \* goroutines of the clients that call the handlers
  Detaching,    \* lanes whose library goes on while a handler is still busy
  Threads,
  Open,         \* threads that the configuration allows
  Admins,       \* bridge.admin_threads
  Feeds,        \* notification sources
  CfgMuted,     \* thread -> feeds that the configuration mutes
  Keep,         \* entries a history keeps when a notification is recorded
  Plans,        \* bound: the sets of events that may happen in one behaviour
  MaxRestarts,  \* bound
  Nobody, NoOverlay, Torn

VARIABLES
  plan,      \* events still to come
  waiting,   \* per lane, the messages waiting for the handler (dispatchQ)
  current,   \* per lane, the event whose handler it waits for
  pc,
  hist,      \* Service.sessions
  allow,     \* Service.allowlist
  mutes,     \* Service.disabledNotifs
  cancels,   \* Service.runCancels
  newest,    \* per thread, the run with the highest runSeq
  stopped,   \* runs whose context is cancelled
  held,      \* the copy of the history that a run or /compact works on, the run
             \* that /stop has taken, the turns that /new has deleted
  blob,      \* what a save has marshalled and is about to write
  file,      \* the three files in the session directory
  clean,     \* saves that no other save of the same file overlaps
  trusted,   \* files whose last save was clean and did not fail
  synced,    \* the copies of the files in the snapshot (internal/persist)
  cleared,   \* history: what /new has reported as gone; of that, what a clean save
             \* has taken from the file, and what was synced since
  restarts

tvars == <<hist, allow, mutes>>
runvars == <<cancels, newest, stopped, held>>
filevars == <<blob, file, clean, trusted, synced>>
lanevars == <<plan, waiting, current>>
vars == <<plan, waiting, current, pc, hist, allow, mutes, cancels, newest, stopped,
          held, blob, file, clean, trusted, synced, cleared, restarts>>

Files == {"history", "allowlist", "notifs"}
Runs == {e \in Events : e.kind \in {"message", "reaction"}}
Elems(s) == {s[i] : i \in 1..Len(s)}

\* The file an event's handler saves.
FileOf(e) ==
  CASE e.kind \in {"allow", "block"} -> "allowlist"
    [] e.kind \in {"mute", "unmute"} -> "notifs"
    [] OTHER -> "history"

\* What a file stands for, in memory.
Memory == [history |-> hist, allowlist |-> allow, notifs |-> mutes]

Empty == [history |-> [t \in Threads |-> <<>>], allowlist |-> {},
          notifs |-> [t \in Threads |-> NoOverlay]]

Init ==
  /\ plan \in Plans
  /\ waiting = [l \in Lanes |-> <<>>]
  /\ current = [l \in Lanes |-> Nobody]
  /\ pc = [e \in Events |-> "absent"]
  /\ hist = Empty.history /\ allow = Empty.allowlist /\ mutes = Empty.notifs
  /\ cancels = [t \in Threads |-> Nobody]
  /\ newest = [t \in Threads |-> Nobody]
  /\ stopped = {}
  /\ held = [e \in Events |-> <<>>]
  /\ blob = [e \in Events |-> Torn]
  /\ file = Empty /\ synced = Empty
  /\ clean = {}
  /\ trusted = Files
  /\ cleared = [place \in {"memory", "file", "snapshot"} |-> [t \in Threads |-> {}]]
  /\ restarts = 0

----------------------------------------------------------------------------
(* Arrival: relay, the dispatcher, the gates                               *)

\* A notification comes in on a goroutine of its own, everything else queues.
Arrive(e) ==
  /\ e \in plan /\ e.kind # "sync"
  /\ plan' = plan \ {e}
  /\ IF e.lane \in Lanes
       THEN /\ waiting' = [waiting EXCEPT ![e.lane] = Append(@, e)]
            /\ pc' = [pc EXCEPT ![e] = "waiting"]
       ELSE /\ pc' = [pc EXCEPT ![e] = "enter"]
            /\ UNCHANGED waiting
  /\ UNCHANGED <<current, tvars, runvars, filevars, cleared, restarts>>

\* dispatchLoop: the next message in arrival order, one at a time.
Take(l) ==
  /\ current[l] = Nobody /\ waiting[l] # <<>>
  /\ current' = [current EXCEPT ![l] = Head(waiting[l])]
  /\ waiting' = [waiting EXCEPT ![l] = Tail(@)]
  /\ pc' = [pc EXCEPT ![Head(waiting[l])] = "enter"]
  /\ UNCHANGED <<plan, tvars, runvars, filevars, cleared, restarts>>

\* The library has waited long enough for a handler and goes on without it.
Detach(l) ==
  /\ l \in Detaching /\ current[l] # Nobody
  /\ current' = [current EXCEPT ![l] = Nobody]
  /\ UNCHANGED <<plan, waiting, pc, tvars, runvars, filevars, cleared, restarts>>

threadAllowed(t) == t \in Open \/ t \in allow

\* The handler returns; its lane is free for the next message.
Freed(e) == [l \in Lanes |-> IF current[l] = e THEN Nobody ELSE current[l]]

\* A command for another thread needs an admin, and so do /allow and /block.
Permitted(e) ==
  /\ e.kind \in {"allow", "block"} => e.thread \in Admins
  /\ e.kind \in {"mute", "unmute"} => e.target = e.thread \/ e.thread \in Admins

Muted(t, f) ==
  LET L == IF mutes[t] = NoOverlay THEN CfgMuted[t] ELSE mutes[t]
  IN  "*" \in L \/ f \in L

\* The thread is not allowed, the command not permitted, the feed muted.
Refuse(e) ==
  /\ pc[e] = "enter"
  /\ IF e.kind = "note" THEN Muted(e.thread, e.feed)
                        ELSE ~threadAllowed(e.thread) \/ ~Permitted(e)
  /\ pc' = [pc EXCEPT ![e] = "done"]
  /\ current' = Freed(e)
  /\ UNCHANGED <<plan, waiting, tvars, runvars, filevars, cleared, restarts>>

Enters(e, kinds) ==
  /\ pc[e] = "enter" /\ e.kind \in kinds
  /\ threadAllowed(e.thread) /\ Permitted(e)

----------------------------------------------------------------------------
(* agentRun                                                                *)

Register(e) ==
  /\ Enters(e, {"message", "reaction"})
  /\ cancels' = [cancels EXCEPT ![e.thread] = e]
  /\ newest' = [newest EXCEPT ![e.thread] = e]
  /\ pc' = [pc EXCEPT ![e] = "start"]
  /\ UNCHANGED <<lanevars, tvars, stopped, held, filevars, cleared, restarts>>

CloneHistory(e) ==
  /\ pc[e] = "start"
  /\ held' = [held EXCEPT ![e] = hist[e.thread]]
  /\ pc' = [pc EXCEPT ![e] = "running"]
  /\ UNCHANGED <<lanevars, tvars, cancels, newest, stopped, filevars, cleared, restarts>>

\* CompactHistoryForStorage: all of it, or a summary and the end of it.
Kept(h) == {h} \cup {SubSeq(h, i, Len(h)) : i \in 2..Len(h)}

\* The run is over with an answer or silence.  Nobody asks whether it was
\* stopped in the meantime.
RunReturns(e) ==
  /\ pc[e] = "running"
  /\ pc' = [pc EXCEPT ![e] = "back"]
  /\ UNCHANGED <<lanevars, tvars, runvars, filevars, cleared, restarts>>

\* It has failed, or noticed that it is stopped: nothing is written.
RunFails(e) ==
  /\ pc[e] = "running"
  /\ pc' = [pc EXCEPT ![e] = "end"]
  /\ UNCHANGED <<lanevars, tvars, runvars, filevars, cleared, restarts>>

WriteBack(e) ==
  /\ pc[e] = "back"
  /\ \E h \in Kept(Append(held[e], e)) : hist' = [hist EXCEPT ![e.thread] = h]
  /\ pc' = [pc EXCEPT ![e] = "save"]
  /\ UNCHANGED <<lanevars, allow, mutes, runvars, filevars, cleared, restarts>>

\* Variant: a run that ends takes whatever entry its thread has.
ClearAnyEntry(e) ==
  [cancels EXCEPT ![e.thread] = Nobody]

\* clearRunCancel: only the entry that is still its own.
ClearRunCancel(e) ==
  IF cancels[e.thread] = e THEN [cancels EXCEPT ![e.thread] = Nobody] ELSE cancels

----------------------------------------------------------------------------
(* Commands                                                                *)

\* Those who have copied the history of a thread and will put it back.
Holding(t) == {e \in Events : e.thread = t /\ pc[e] \in {"running", "back", "compacting"}}

\* What a run or /compact has copied it puts back; the rest is gone.
New(e) ==
  /\ Enters(e, {"new"})
  /\ held' = [held EXCEPT ![e] =
                {x \in Elems(hist[e.thread]) : \A h \in Holding(e.thread) : x \notin Elems(held[h])}]
  /\ hist' = [hist EXCEPT ![e.thread] = <<>>]
  /\ pc' = [pc EXCEPT ![e] = "save"]
  /\ UNCHANGED <<lanevars, allow, mutes, cancels, newest, stopped, filevars, cleared, restarts>>

\* /stop takes the entry under the lock and cancels it afterwards.
StopLook(e) ==
  /\ Enters(e, {"stop"})
  /\ IF cancels[e.thread] = Nobody
       THEN pc' = [pc EXCEPT ![e] = "end"] /\ UNCHANGED <<cancels, held>>
       ELSE /\ cancels' = [cancels EXCEPT ![e.thread] = Nobody]
            /\ held' = [held EXCEPT ![e] = <<cancels[e.thread]>>]
            /\ pc' = [pc EXCEPT ![e] = "stopping"]
  /\ UNCHANGED <<lanevars, tvars, newest, stopped, filevars, cleared, restarts>>

StopCancel(e) ==
  /\ pc[e] = "stopping"
  /\ stopped' = stopped \cup Elems(held[e])
  /\ pc' = [pc EXCEPT ![e] = "end"]
  /\ UNCHANGED <<lanevars, tvars, cancels, newest, held, filevars, cleared, restarts>>

Compact(e) ==
  /\ Enters(e, {"compact"})
  /\ held' = [held EXCEPT ![e] = hist[e.thread]]
  /\ pc' = [pc EXCEPT ![e] = IF hist[e.thread] = <<>> THEN "end" ELSE "compacting"]
  /\ UNCHANGED <<lanevars, tvars, cancels, newest, stopped, filevars, cleared, restarts>>

\* Variant: /compact changes the history in memory only.
CompactUnsaved(e) ==
  /\ pc[e] = "compacting"
  /\ \E h \in Kept(held[e]) : hist' = [hist EXCEPT ![e.thread] = h]
  /\ pc' = [pc EXCEPT ![e] = "end"]
  /\ UNCHANGED <<lanevars, allow, mutes, runvars, filevars, cleared, restarts>>

CompactDone(e) ==
  /\ pc[e] = "compacting"
  /\ \E h \in Kept(held[e]) : hist' = [hist EXCEPT ![e.thread] = h]
  /\ pc' = [pc EXCEPT ![e] = "save"]
  /\ UNCHANGED <<lanevars, allow, mutes, runvars, filevars, cleared, restarts>>

\* The overlay of the allowed threads of the platform the command came from.
SetAllowed(e) ==
  /\ Enters(e, {"allow", "block"})
  /\ allow' = IF e.kind = "allow" THEN allow \cup {e.target} ELSE allow \ {e.target}
  /\ pc' = [pc EXCEPT ![e] = "save"]
  /\ UNCHANGED <<lanevars, hist, mutes, runvars, filevars, cleared, restarts>>

\* What a list of muted feeds becomes when one feed, or all, is muted or not.
MutedAfter(L, f, on) ==
  CASE on /\ f = "*"  -> {"*"}
    [] on /\ f # "*"  -> L \cup {f}
    [] ~on /\ f = "*" -> {}
    [] ~on /\ f # "*" -> L \ {f, "*"}

\* setNotificationDisabled: the overlay begins as what the configuration says.
SetMuted(e) ==
  /\ Enters(e, {"mute", "unmute"})
  /\ LET L == IF mutes[e.target] = NoOverlay THEN CfgMuted[e.target] ELSE mutes[e.target]
     IN  mutes' = [mutes EXCEPT ![e.target] = MutedAfter(L, e.feed, e.kind = "mute")]
  /\ pc' = [pc EXCEPT ![e] = "save"]
  /\ UNCHANGED <<lanevars, hist, allow, runvars, filevars, cleared, restarts>>

\* recordNotificationInSession, after the text was sent.
Record(e) ==
  /\ pc[e] = "enter" /\ e.kind = "note" /\ ~Muted(e.thread, e.feed)
  /\ LET h == Append(hist[e.thread], e)
     IN  hist' = [hist EXCEPT ![e.thread] =
                    SubSeq(h, IF Len(h) > Keep THEN Len(h) - Keep + 1 ELSE 1, Len(h))]
  /\ pc' = [pc EXCEPT ![e] = "save"]
  /\ UNCHANGED <<lanevars, allow, mutes, runvars, filevars, cleared, restarts>>

----------------------------------------------------------------------------
(* saveHistory, saveAllowlist, saveDisabledNotifs                          *)

\* Saves that have marshalled this file and not yet written it.
Saving(f) == {e \in Events : FileOf(e) = f /\ pc[e] \in {"marshalled", "truncated"}}

\* Under the lock.
Marshal(e) ==
  /\ pc[e] = "save"
  /\ blob' = [blob EXCEPT ![e] = Memory[FileOf(e)]]
  /\ clean' = IF Saving(FileOf(e)) = {} THEN clean \cup {e}
                                        ELSE clean \ (Saving(FileOf(e)) \cup {e})
  /\ pc' = [pc EXCEPT ![e] = "marshalled"]
  /\ UNCHANGED <<lanevars, tvars, runvars, file, trusted, synced, cleared, restarts>>

\* os.WriteFile, outside of the lock: it opens and truncates the file ...
Truncate(e) ==
  /\ pc[e] = "marshalled"
  /\ file' = [file EXCEPT ![FileOf(e)] = Torn]
  /\ trusted' = trusted \ {FileOf(e)}
  /\ pc' = [pc EXCEPT ![e] = "truncated"]
  /\ UNCHANGED <<lanevars, tvars, runvars, blob, clean, synced, cleared, restarts>>

\* ... and writes from its beginning.  If another save has written meanwhile
\* and was longer, its end stays behind this one's text.
Write(e) ==
  /\ pc[e] = "truncated"
  /\ \E c \in {blob[e]} \cup (IF file[FileOf(e)] = Torn THEN {} ELSE {Torn}) :
       file' = [file EXCEPT ![FileOf(e)] = c]
  /\ trusted' = IF e \in clean THEN trusted \cup {FileOf(e)} ELSE trusted \ {FileOf(e)}
  /\ blob' = [blob EXCEPT ![e] = Torn]
  /\ pc' = [pc EXCEPT ![e] = "end"]
  /\ UNCHANGED <<lanevars, tvars, runvars, clean, synced, cleared, restarts>>

\* The directory or the file cannot be written: logged, and that is all.
SaveFails(e) ==
  /\ pc[e] = "marshalled"
  /\ trusted' = trusted \ {FileOf(e)}
  /\ clean' = clean \ {e}
  /\ blob' = [blob EXCEPT ![e] = Torn]
  /\ pc' = [pc EXCEPT ![e] = "end"]
  /\ UNCHANGED <<lanevars, tvars, runvars, file, synced, cleared, restarts>>

----------------------------------------------------------------------------
\* The reply is sent, the deferred clearRunCancel done, the handler returns.
End(e) ==
  /\ pc[e] = "end"
  /\ cancels' = IF e \in Runs THEN ClearRunCancel(e) ELSE cancels
  /\ cleared' =
       IF e.kind # "new" THEN cleared
       ELSE [place \in DOMAIN cleared |->
               IF place = "memory" \/ (place = "file" /\ e \in clean)
                 THEN [cleared[place] EXCEPT ![e.thread] = @ \cup held[e]]
                 ELSE cleared[place]]
  /\ held' = [held EXCEPT ![e] = <<>>]
  /\ clean' = clean \ {e}
  /\ pc' = [pc EXCEPT ![e] = "done"]
  /\ current' = Freed(e)
  /\ UNCHANGED <<plan, waiting, tvars, newest, stopped, blob, file, trusted, synced, restarts>>

----------------------------------------------------------------------------
(* The snapshot, and a new process                                         *)

\* The store reads the file e.feed for the snapshot.  A sync to which the
\* file looks as the snapshot has it, or that fails, is none.
Sync(e) ==
  /\ e \in plan /\ e.kind = "sync" /\ e.feed \in Files
  /\ plan' = plan \ {e}
  /\ synced' = [synced EXCEPT ![e.feed] = file[e.feed]]
  /\ cleared' = IF e.feed = "history" THEN [cleared EXCEPT !["snapshot"] = cleared["file"]]
                                      ELSE cleared
  /\ UNCHANGED <<waiting, current, pc, tvars, runvars, blob, file, clean, trusted, restarts>>

\* The process begins anew with what is on the disk.  What cannot be parsed is
\* taken for empty.
Boot(disk, place) ==
  /\ restarts < MaxRestarts
  /\ restarts' = restarts + 1
  /\ file' = disk
  /\ LET read == [f \in Files |-> IF disk[f] = Torn THEN Empty[f] ELSE disk[f]]
     IN  hist' = read.history /\ allow' = read.allowlist /\ mutes' = read.notifs
  /\ pc' = [e \in Events |-> IF pc[e] = "absent" THEN "absent" ELSE "done"]
  /\ waiting' = [l \in Lanes |-> <<>>] /\ current' = [l \in Lanes |-> Nobody]
  /\ cancels' = [t \in Threads |-> Nobody] /\ newest' = [t \in Threads |-> Nobody]
  /\ stopped' = {}
  /\ held' = [e \in Events |-> <<>>] /\ blob' = [e \in Events |-> Torn]
  /\ clean' = {} /\ trusted' = {f \in Files : disk[f] # Torn}
  /\ cleared' = [cleared EXCEPT !["memory"] = cleared[place], !["file"] = cleared[place]]
  /\ UNCHANGED <<plan, synced>>

\* On the same disk the local files win.
Restart == Boot(file, "file")

\* In a new container they are those of the snapshot, one file after the other
\* as far as the restore gets.
Replace ==
  \E restored \in {{}, {"allowlist"}, {"allowlist", "notifs"}, Files} :
    Boot([f \in Files |-> IF f \in restored THEN synced[f] ELSE Empty[f]], "snapshot")

Next ==
  \/ \E l \in Lanes : Take(l) \/ Detach(l)
  \/ \E e \in Events :
       \/ Arrive(e) \/ Sync(e) \/ Refuse(e)
       \/ Register(e) \/ CloneHistory(e) \/ RunReturns(e) \/ RunFails(e) \/ WriteBack(e)
       \/ New(e) \/ StopLook(e) \/ StopCancel(e) \/ Compact(e) \/ CompactDone(e)
       \/ SetAllowed(e) \/ SetMuted(e) \/ Record(e)
       \/ Marshal(e) \/ Truncate(e) \/ Write(e) \/ SaveFails(e) \/ End(e)
  \/ Restart \/ Replace

Spec == Init /\ [][Next]_vars

----------------------------------------------------------------------------
(* Properties                                                              *)

Phases == {"absent", "waiting", "enter", "start", "running", "back", "stopping",
           "compacting", "save", "marshalled", "truncated", "end", "done"}

Histories == {h \in Seq(Events) : IsInjective(h)}

\* Every variable keeps its type; no history holds an event twice.
TypeOK ==
  /\ plan \subseteq Events /\ stopped \subseteq Runs /\ clean \subseteq Events
  /\ pc \in [Events -> Phases]
  /\ \A l \in Lanes : current[l] \in Events \cup {Nobody} /\ waiting[l] \in Histories
  /\ \A t \in Threads :
       /\ hist[t] \in Histories
       /\ {cancels[t], newest[t]} \subseteq Runs \cup {Nobody}
       /\ mutes[t] = NoOverlay \/ mutes[t] \subseteq Feeds \cup {"*"}
  /\ allow \subseteq Threads /\ trusted \subseteq Files
  /\ restarts \in 0..MaxRestarts

\* Runs that have registered and not yet ended.
Active == {e \in Runs : pc[e] \in {"start", "running", "back", "save", "marshalled",
                                   "truncated", "end"}}

\* /stop finds the newest run of its thread as long as that is at work, and
\* finds nothing else: a run that ends never takes away the entry of a newer
\* one, and leaves none of its own behind.
StopReachesNewest ==
  \A t \in Threads :
    /\ cancels[t] # Nobody => cancels[t] \in Active \ stopped
    /\ \A e \in Active \ stopped :
         (newest[t] = e /\ \A s \in Events : pc[s] = "stopping" => held[s] # <<e>>)
           => cancels[t] = e

\* When all who changed something have saved it, a file holds what memory does,
\* unless two saves of it overlapped or one failed: what a restart finds is
\* the conversation, the allowed threads and the mutes as they were.
FilesAreCurrent ==
  \A f \in trusted :
    (\A e \in Events : FileOf(e) = f => pc[e] \notin {"save", "marshalled", "truncated"})
      => file[f] = Memory[f]

\* What /new has reported as gone does not come back.  Its own overlaps are
\* the exceptions, and they are narrow: a run or /compact that was at work
\* puts back what it had copied before and nothing else; after a restart the
\* promise is for what a clean save has taken from the file, and in a new
\* container for what was synced after such a save.
ClearedStaysCleared ==
  \A t \in Threads : cleared["memory"][t] \cap Elems(hist[t]) = {}
=============================================================================
