------------------------------ MODULE Sandboxes ------------------------------
(***************************************************************************)
(* The sandbox manager (src/internal/sandbox/nspawn.go) for one name: calls *)
(* that create, start, stop and delete it, each a sequence of external      *)
(* commands, the processes they start, and the book of active processes,    *)
(* which is all that the manager locks.                                     *)
(***************************************************************************)
CONSTANTS
  Users,     \* calls at work at the same time: the tools, and the workers
  Procs,     \* bound: the processes that are started, in all
  NoProc

VARIABLES
  sudo,      \* use_sudo: the process is root's, and Kill may be refused
  rootfs,    \* the directory of the root file system has entries
  active,    \* Manager.active[name]
  proc,      \* the systemd-nspawn of each start, and the goroutine that waits for it
  call,      \* each call: what it is, its flag and where it is
  own,       \* the process it has started, and is not done with
  seen,      \* history: what the book held when its StopSandbox acted
  ended,     \* history: processes that a call has said, or must see to it, are stopped
  crowded    \* history: processes that were there while another one was

sandboxvars == <<sudo, rootfs, active, proc, call, own, seen, ended, crowded>>

Jobs == {"create", "createAndStart", "start", "stop", "delete"}
Places == {"idle", "bootstrapping", "starting", "launched", "waiting",
           "terminating", "killing", "settling", "removing"}
Alive == {p \in Procs : proc[p] \in {"booting", "up"}}

At(c, place) == call[c].at = place
NoCall == [job |-> "none", force |-> FALSE, at |-> "idle"]

Init ==
  /\ sudo \in BOOLEAN /\ rootfs \in BOOLEAN
  /\ active = NoProc
  /\ proc = [p \in Procs |-> "unused"]
  /\ call = [c \in Users |-> NoCall]
  /\ own = [c \in Users |-> NoProc]
  /\ seen = [c \in Users |-> NoProc]
  /\ ended = {} /\ crowded = {}

Goes(c, place) == call' = [call EXCEPT ![c].at = place]
Returns(c) == call' = [call EXCEPT ![c] = NoCall]
Becomes(p, state) == proc' = [proc EXCEPT ![p] = state]

\* CreateSandbox looks at the directory first: only an empty or missing one
\* needsBootstrap, and with any other it is done, but for the start.
Call(c, what, forced) ==
  /\ At(c, "idle") /\ ~(what = "create" /\ rootfs)
  /\ call' = [call EXCEPT ![c] =
       [job |-> what, force |-> forced,
        at |-> CASE what \in {"stop", "delete"} -> "terminating"
                 [] what = "start" \/ rootfs -> "starting"
                 [] OTHER -> "bootstrapping"]]
  /\ UNCHANGED <<sudo, rootfs, active, proc, own, seen, ended, crowded>>

----------------------------------------------------------------------------
(* CreateSandbox                                                           *)

\* debootstrap unpacks: from here on the directory has entries.
Unpacks(c) ==
  /\ At(c, "bootstrapping") /\ ~rootfs
  /\ rootfs' = TRUE
  /\ UNCHANGED <<sudo, active, proc, call, own, seen, ended, crowded>>

Bootstrapped(c) ==
  /\ At(c, "bootstrapping") /\ rootfs
  /\ IF call[c].job = "create" THEN Returns(c) ELSE Goes(c, "starting")
  /\ UNCHANGED <<sudo, rootfs, active, proc, own, seen, ended, crowded>>

\* It fails, or setup_timeout is over: what it has unpacked by then stays.
BootstrapFails(c) ==
  /\ At(c, "bootstrapping")
  /\ Returns(c)
  /\ UNCHANGED <<sudo, rootfs, active, proc, own, seen, ended, crowded>>

----------------------------------------------------------------------------
(* StartSandbox                                                            *)

\* No root file system, or the book says that it is running; or the log cannot
\* be opened.
StartReturns(c) ==
  /\ At(c, "starting") /\ Returns(c)
  /\ UNCHANGED <<sudo, rootfs, active, proc, own, seen, ended, crowded>>

FindsNoneActive(c) ==
  /\ At(c, "starting") /\ rootfs /\ active = NoProc
  /\ Goes(c, "launched")
  /\ UNCHANGED <<sudo, rootfs, active, proc, own, seen, ended, crowded>>

Unbooked(p) == \E c \in Users : At(c, "launched") /\ own[c] = p
Company == {p \in Procs : proc[p] \notin {"unused", "cleared"} \/ Unbooked(p)}

Launch(c) ==
  /\ At(c, "launched") /\ own[c] = NoProc
  /\ \E q \in Procs : proc[q] = "unused"
  /\ LET p == CHOOSE q \in Procs : proc[q] = "unused"
     IN  /\ Becomes(p, "booting")
         /\ own' = [own EXCEPT ![c] = p]
         /\ crowded' = IF Company = {} THEN crowded ELSE crowded \cup Company \cup {p}
  /\ UNCHANGED <<sudo, rootfs, active, call, seen, ended>>

LaunchFails(c) ==
  /\ At(c, "launched") /\ own[c] = NoProc
  /\ Returns(c)
  /\ UNCHANGED <<sudo, rootfs, active, proc, own, seen, ended, crowded>>

\* setActive, whatever has become of the process by now.
Book(c) ==
  /\ At(c, "launched") /\ own[c] # NoProc
  /\ active' = own[c]
  /\ Goes(c, "waiting")
  /\ UNCHANGED <<sudo, rootfs, proc, own, seen, ended, crowded>>

Registered == {p \in Procs : proc[p] \in {"up", "ending"}}

\* waitForRunning: machinectl show finds a machine of the name, whosever it is.
Ready(c) ==
  /\ At(c, "waiting") /\ Registered # {}
  /\ Returns(c) /\ own' = [own EXCEPT ![c] = NoProc]
  /\ UNCHANGED <<sudo, rootfs, active, proc, seen, ended, crowded>>

\* Variant: a start that fails stops its machine politely.
NotReadyPolitely(c) ==
  /\ At(c, "waiting")
  /\ call' = [call EXCEPT ![c] = [job |-> "start", force |-> FALSE, at |-> "terminating"]]
  /\ UNCHANGED <<sudo, rootfs, active, proc, own, seen, ended, crowded>>

\* done is closed, the context is cancelled or 20 s are over: StopSandbox, by force.
NotReady(c) ==
  /\ At(c, "waiting")
  /\ call' = [call EXCEPT ![c] = [job |-> "start", force |-> TRUE, at |-> "terminating"]]
  /\ UNCHANGED <<sudo, rootfs, active, proc, own, seen, ended, crowded>>

----------------------------------------------------------------------------
(* StopSandbox, and what its callers do next                               *)

Looks(c) == seen' = [seen EXCEPT ![c] = active]

\* StopSandbox returns: to DeleteSandbox, which goes on after an error only by
\* force, or to StartSandbox, which answers with the error that it has.
StopReturns(c, ok) ==
  LET removes == call[c].job = "delete" /\ (ok \/ call[c].force)
      told == {own[c]} \cup (IF ok THEN {seen[c]} ELSE {})
  IN  /\ IF removes
           THEN Goes(c, "removing") /\ UNCHANGED seen
           ELSE Returns(c) /\ seen' = [seen EXCEPT ![c] = NoProc]
      /\ ended' = ended \cup (told \ {NoProc})
      /\ own' = [own EXCEPT ![c] = NoProc]
      /\ UNCHANGED <<sudo, rootfs, active, proc, crowded>>

\* machinectl terminate: the machine of the name is told to end.
Terminate(c) ==
  /\ At(c, "terminating") /\ Looks(c)
  /\ \E p \in Registered : Becomes(p, "ending")
  /\ Goes(c, "settling")
  /\ UNCHANGED <<sudo, rootfs, active, own, ended, crowded>>

\* There is none, or machinectl does not get through.
TerminateFails(c) ==
  /\ At(c, "terminating")
  /\ IF call[c].force
       THEN /\ Goes(c, "killing")
            /\ UNCHANGED <<sudo, rootfs, active, proc, own, seen, ended, crowded>>
       ELSE StopReturns(c, FALSE)

\* The error of Kill is left out, so that nobody hears when it is refused.
Kill(c) ==
  /\ At(c, "killing") /\ active # NoProc /\ Looks(c)
  /\ \/ active \in Alive /\ Becomes(active, "ending")
     \/ (sudo \/ active \notin Alive) /\ UNCHANGED proc
  /\ Goes(c, "settling")
  /\ UNCHANGED <<sudo, rootfs, active, own, ended, crowded>>

NothingToKill(c) ==
  At(c, "killing") /\ active = NoProc /\ StopReturns(c, FALSE)

\* Nothing is left in the book to wait for, or it has ended, or 5 s are over.
Settled(c) ==
  At(c, "settling") /\ StopReturns(c, TRUE)

\* The context of a tool call is cancelled meanwhile; that of NotReady cannot be.
StopCancelled(c) ==
  At(c, "settling") /\ active # NoProc /\ call[c].job # "start" /\ StopReturns(c, FALSE)

\* DeleteSandbox takes the directory away, or part of it.
Remove(c) ==
  /\ At(c, "removing")
  /\ rootfs' \in BOOLEAN
  /\ ended' = ended \cup ({seen[c]} \ {NoProc})
  /\ Returns(c) /\ seen' = [seen EXCEPT ![c] = NoProc]
  /\ UNCHANGED <<sudo, active, proc, own, crowded>>

----------------------------------------------------------------------------
(* systemd-nspawn, and the goroutine that waits for it                     *)

\* Only one machine of a name can be registered.
Boots(p) ==
  /\ proc[p] = "booting" /\ \A q \in Procs : proc[q] # "up"
  /\ Becomes(p, "up")
  /\ UNCHANGED <<sudo, rootfs, active, call, own, seen, ended, crowded>>

\* On its own, or because it was told to.
Exits(p) ==
  /\ proc[p] \in {"booting", "up", "ending"} /\ Becomes(p, "dead")
  /\ UNCHANGED <<sudo, rootfs, active, call, own, seen, ended, crowded>>

\* done is written and closed, and clearActive forgets whatever the book has.
Clear(p) ==
  /\ proc[p] = "dead" /\ Becomes(p, "cleared")
  /\ active' = NoProc
  /\ UNCHANGED <<sudo, rootfs, call, own, seen, ended, crowded>>

Next ==
  \/ \E c \in Users :
       \/ \E what \in Jobs : Call(c, what, FALSE)
       \/ \E what \in {"stop", "delete"} : Call(c, what, TRUE)
       \/ Unpacks(c) \/ Bootstrapped(c) \/ BootstrapFails(c)
       \/ StartReturns(c) \/ FindsNoneActive(c) \/ Launch(c) \/ LaunchFails(c) \/ Book(c)
       \/ Ready(c) \/ NotReady(c)
       \/ Terminate(c) \/ TerminateFails(c) \/ Kill(c) \/ NothingToKill(c)
       \/ Settled(c) \/ StopCancelled(c) \/ Remove(c)
  \/ \E p \in Procs : Boots(p) \/ Exits(p) \/ Clear(p)

Spec == Init /\ [][Next]_sandboxvars

----------------------------------------------------------------------------
\* Every variable keeps its type.
TypeOK ==
  /\ sudo \in BOOLEAN /\ rootfs \in BOOLEAN
  /\ active \in Procs \cup {NoProc}
  /\ proc \in [Procs -> {"unused", "booting", "up", "ending", "dead", "cleared"}]
  /\ call \in [Users -> [job : Jobs \cup {"none"}, force : BOOLEAN, at : Places]]
  /\ own \in [Users -> Procs \cup {NoProc}] /\ seen \in [Users -> Procs \cup {NoProc}]
  /\ ended \subseteq Procs /\ crowded \subseteq Procs

\* A process that is there is in the book from the end of setActive on, where
\* later calls find it to say that it runs and to kill it, unless another one
\* was there with it: entries are set and cleared by name.
BookIsTrue ==
  \A p \in Procs \ crowded :
    proc[p] \notin {"unused", "cleared"} /\ ~Unbooked(p) => active = p

\* A process that a stop has found and reported as stopped, that was the one of a
\* start that failed, or whose directory was removed, is on its way out, unless
\* another one was there with it or Kill may be refused: no worker's clean-up
\* leaves its machine behind.
StoppedIsTrue ==
  \A p \in (ended \cap Alive) \ crowded : sudo
=============================================================================
