------------------------------ MODULE Session ------------------------------
(***************************************************************************)
(* The session of the launcher (launcher/internal/core/start.go and the     *)
(* backend of the screens, launcher/internal/wire/wire.go): a start that    *)
(* spawns the server, waits until it is ready, restores, warms up and       *)
(* checks it; a stop; a watch that looks for the server's own end; each a   *)
(* goroutine, and each able to tear the session down.  A session that was   *)
(* torn down is ended, and only then may the next one start.                *)
(*                                                                         *)
(* Two clients: the backend of the screens, which cancels a start until its *)
(* final event and stops it afterwards, and a caller of the package, as its *)
(* tests are, which may ask for a stop whenever the session accepts one.    *)
(*                                                                         *)
(* What a stop saves and a start restores is WarmStart; here a slot only is *)
(* known or, after a restore and an erase that both failed, unknown.        *)
(*                                                                         *)
(* A definition that no other one uses, right before the one it varies, is  *)
(* a mutant of PROJECT.json: a bug the named property has to find.          *)
(***************************************************************************)
EXTENDS Integers, FiniteSets

CONSTANTS MaxSessions,   \* bound: sessions of a behaviour
          Uses           \* ways it is used: [direct |-> the package's Stop is called
                         \* by others than the backend, restores |-> a stored
                         \* state is eligible and the start restores it]

ASSUME SessionAssumption == /\ MaxSessions \in Nat \ {0}
                            /\ Uses \subseteq [direct : BOOLEAN, restores : BOOLEAN]

Sessions   == 1..MaxSessions
Actors     == {"start", "stop", "watch"}  \* the goroutines of a session
Servers    == Sessions \X {1, 2}          \* 2 is the server of the recovery restart

VARIABLES
  use,       \* the way of this behaviour, fixed
  sess,      \* the launcher's session, 0 for none; the backend's run
  ready, stopping, ended, child,          \* the session's fields, under s.mu
  locks,     \* sessions holding the launcher's locks
  alive,     \* server processes
  starter,   \* runStart: where it is
  mine,      \* its local child
  final,     \* the event it ended with, as the backend keeps it
  watcher,   \* watch
  tear,      \* the teardown each goroutine is in
  saving,    \* the stop's save
  cancelled, \* the context of the start
  reports,   \* the backend's goroutine that follows a cancel or a stop
  stopped,   \* run.stopped: the backend has told the screen that it is over
  unknown,   \* servers whose slot holds nobody knows what
  tainted,   \* ghost: such a slot was saved
  panicked   \* ghost: s.done was closed twice

fields  == <<ready, stopping, ended, child>>
backend == <<cancelled, reports, stopped>>
ghosts  == <<unknown, tainted, panicked>>
vars == <<use, sess, fields, locks, alive, starter, mine, final, watcher, tear, saving, backend,
          ghosts>>

Of(s)   == <<s, child[s]>>      \* s.child
Own(s)  == <<s, mine[s]>>
Waiting == "restore"            \* the restore holds saveMu

Init ==
  /\ use \in Uses
  /\ sess = 0
  /\ ready = [s \in Sessions |-> FALSE] /\ stopping = [s \in Sessions |-> FALSE]
  /\ ended = [s \in Sessions |-> FALSE] /\ child = [s \in Sessions |-> 0]
  /\ locks = {} /\ alive = {}
  /\ starter = [s \in Sessions |-> "none"] /\ mine = [s \in Sessions |-> 0]
  /\ final = [s \in Sessions |-> "none"]
  /\ watcher = [s \in Sessions |-> "off"]
  /\ tear = [s \in Sessions |-> [a \in Actors |-> "no"]]
  /\ saving = [s \in Sessions |-> "no"]
  /\ cancelled = [s \in Sessions |-> FALSE] /\ reports = [s \in Sessions |-> "no"]
  /\ stopped = [s \in Sessions |-> FALSE]
  /\ unknown = {} /\ tainted = FALSE /\ panicked = FALSE

At(s, p)       == starter[s] = p
Goto(s, p)     == starter' = [starter EXCEPT ![s] = p]
Tearing(s, a, p) == tear' = [tear EXCEPT ![s][a] = p]

-----------------------------------------------------------------------------
(* The teardown of whoever decided to end the session: the server stopped,  *)
(* its handles closed (closing the job ends what is still in it), the locks *)
(* released, the session ended.  The start works on the child it knows, the *)
(* others on s.child, which they read without the mutex.                    *)
Target(s, a) == IF a = "start" THEN Own(s) ELSE Of(s)

Kill(s, a) ==
  /\ tear[s][a] = "kill" /\ Tearing(s, a, "close")
  /\ \/ alive' = alive \ {Target(s, a)}
     \/ UNCHANGED alive                  \* it resists, and the status says so
  /\ UNCHANGED <<use, sess, fields, locks, starter, mine, final, watcher, saving, backend, ghosts>>

CloseHandleOnly(s, a) ==
  /\ tear[s][a] = "close" /\ Tearing(s, a, "release")
  /\ UNCHANGED <<use, sess, fields, locks, alive, starter, mine, final, watcher, saving, backend,
                 ghosts>>
Close(s, a) ==
  /\ tear[s][a] = "close" /\ Tearing(s, a, "release")
  /\ alive' = alive \ {Target(s, a)}
  /\ UNCHANGED <<use, sess, fields, locks, starter, mine, final, watcher, saving, backend, ghosts>>

Release(s, a) ==
  /\ tear[s][a] = "release" /\ Tearing(s, a, "end")
  /\ locks' = locks \ {s}
  /\ UNCHANGED <<use, sess, fields, alive, starter, mine, final, watcher, saving, backend, ghosts>>

(* s.ended, and s.done closed: the second close is a panic, and the end of  *)
(* the launcher, which takes every server with it.                          *)
EndIt(s) ==
  /\ ended' = [ended EXCEPT ![s] = TRUE]
  /\ panicked' = (panicked \/ ended[s])
Ended(s, a) ==
  /\ tear[s][a] = "end" /\ Tearing(s, a, "done")
  /\ EndIt(s)
  /\ IF a = "start" THEN final' = [final EXCEPT ![s] = "failed"] /\ Goto(s, "done")
                    ELSE UNCHANGED <<final, starter>>
  /\ UNCHANGED <<use, sess, ready, stopping, child, locks, alive, mine, watcher, saving, backend,
                 unknown, tainted>>

-----------------------------------------------------------------------------
(* The start.                                                               *)
Start ==
  /\ sess < MaxSessions /\ (sess # 0 => ended[sess])      \* else ErrBusy
  /\ sess' = sess + 1
  /\ starter' = [starter EXCEPT ![sess'] = "prepare"]
  /\ UNCHANGED <<use, fields, locks, alive, mine, final, watcher, tear, saving, backend, ghosts>>

StartVars == <<use, sess, watcher, saving, backend, tainted, panicked>>

(* The bundle check and prepare; the locks are the launcher's, one holder.  *)
Prepare(s) ==
  /\ At(s, "prepare")
  /\ \/ /\ locks = {} /\ locks' = {s} /\ Goto(s, "spawn")
        /\ UNCHANGED tear
     \/ /\ Goto(s, "tear") /\ Tearing(s, "start", "end")
        /\ UNCHANGED locks
  /\ UNCHANGED <<StartVars, fields, alive, mine, final, unknown>>

Spawned(s, i) ==
  /\ alive' = alive \cup {<<s, i>>}
  /\ child' = [child EXCEPT ![s] = i] /\ mine' = [mine EXCEPT ![s] = i]
Spawn(s) ==
  /\ At(s, "spawn")
  /\ \/ Spawned(s, 1) /\ Goto(s, "await") /\ UNCHANGED tear
     \/ /\ Goto(s, "tear") /\ Tearing(s, "start", "release")
        /\ UNCHANGED <<alive, child, mine>>
  /\ UNCHANGED <<StartVars, ready, stopping, ended, locks, final, unknown>>

(* waitForServerReady: the child answers and owns the port, or it has ended,*)
(* or the context is cancelled, or the time is over.  A cancel that comes   *)
(* between the answer and the return is a cancel after it.                  *)
AwaitUncancelled(s) ==
  /\ At(s, "await")
  /\ \/ /\ alive = {Own(s)}
        /\ ready' = [ready EXCEPT ![s] = TRUE]
        /\ Goto(s, IF use.restores THEN "restore" ELSE "warmup")
        /\ UNCHANGED tear
     \/ /\ Goto(s, "tear") /\ Tearing(s, "start", "kill")
        /\ UNCHANGED ready
  /\ UNCHANGED <<StartVars, stopping, ended, child, locks, alive, mine, final, unknown>>
Await(s) ==
  /\ At(s, "await")
  /\ \/ /\ alive = {Own(s)} /\ ~cancelled[s]
        /\ ready' = [ready EXCEPT ![s] = TRUE]
        /\ Goto(s, IF use.restores THEN "restore" ELSE "warmup")
        /\ UNCHANGED tear
     \/ /\ Goto(s, "tear") /\ Tearing(s, "start", "kill")
        /\ UNCHANGED ready
  /\ UNCHANGED <<StartVars, stopping, ended, child, locks, alive, mine, final, unknown>>

(* warmRestore and its ladder, under saveMu: restored, or erased, or neither.*)
Restored(s) ==
  /\ At(s, "restore")
  /\ \/ Own(s) \in alive /\ Goto(s, "warmup") /\ UNCHANGED unknown
     \/ unknown' = unknown \cup {Own(s)} /\ Goto(s, "look")
  /\ UNCHANGED <<StartVars, fields, locks, alive, mine, final, tear>>

(* A stop that arrived during the restore owns the end.                     *)
Look(s) ==
  /\ At(s, "look")
  /\ Goto(s, IF stopping[s] THEN "join" ELSE "recover")
  /\ UNCHANGED <<StartVars, fields, locks, alive, mine, final, tear, unknown>>

(* warmRecoveryRestart: not ready any more, so that a stop is a cancel; the *)
(* server stopped and closed, a new one spawned, awaited.                   *)
Recover(s) ==
  /\ At(s, "recover") /\ Goto(s, "recoverStop")
  /\ ready' = [ready EXCEPT ![s] = FALSE]
  /\ UNCHANGED <<StartVars, stopping, ended, child, locks, alive, mine, final, tear, unknown>>

RecoverStop(s) ==
  /\ At(s, "recoverStop")
  /\ alive' = alive \ {Own(s)}
  /\ \/ Goto(s, "respawn") /\ UNCHANGED tear
     \/ Goto(s, "tear") /\ Tearing(s, "start", "release")
  /\ UNCHANGED <<StartVars, fields, locks, mine, final, unknown>>

Respawn(s) ==
  /\ At(s, "respawn")
  /\ \/ Spawned(s, 2) /\ Goto(s, "reawait") /\ UNCHANGED tear
     \/ /\ Goto(s, "tear") /\ Tearing(s, "start", "release")
        /\ UNCHANGED <<alive, child, mine>>
  /\ UNCHANGED <<StartVars, ready, stopping, ended, locks, final, unknown>>

Reawait(s) ==
  /\ At(s, "reawait")
  /\ \/ /\ alive = {Own(s)} /\ ~cancelled[s]
        /\ ready' = [ready EXCEPT ![s] = TRUE] /\ Goto(s, "warmup")
        /\ UNCHANGED tear
     \/ /\ Goto(s, "tear") /\ Tearing(s, "start", "kill")
        /\ UNCHANGED ready
  /\ UNCHANGED <<StartVars, stopping, ended, child, locks, alive, mine, final, unknown>>

(* The end of a start that succeeds: the final event, and the watch.        *)
Serves(s) ==
  /\ final' = [final EXCEPT ![s] = "ready"] /\ Goto(s, "done")
  /\ watcher' = [watcher EXCEPT ![s] = "look"]

(* stoppedDuring after the warmup: the teardown of the stop owns the end.   *)
Warmup(s) ==
  /\ At(s, "warmup")
  /\ \/ stopping[s] /\ Goto(s, "join") /\ UNCHANGED <<final, watcher>>
     \/ ~stopping[s] /\ Goto(s, "smoke") /\ UNCHANGED <<final, watcher>>
     \/ ~stopping[s] /\ Serves(s)
  /\ UNCHANGED <<use, sess, fields, locks, alive, mine, tear, saving, backend, ghosts>>

(* The check run: a failure ends the session, unless a stop is ending it.   *)
SmokeUnasked(s) ==
  /\ At(s, "smoke")
  /\ \/ stopping[s] /\ Goto(s, "join") /\ UNCHANGED <<stopping, tear, final, watcher>>
     \/ ~stopping[s] /\ Own(s) \in alive /\ ~cancelled[s] /\ Serves(s)
        /\ UNCHANGED <<stopping, tear>>
     \/ /\ Goto(s, "tear") /\ Tearing(s, "start", "kill")
        /\ stopping' = [stopping EXCEPT ![s] = TRUE]
        /\ UNCHANGED <<final, watcher>>
  /\ UNCHANGED <<use, sess, ready, ended, child, locks, alive, mine, saving, backend, ghosts>>
Smoke(s) ==
  /\ At(s, "smoke")
  /\ \/ stopping[s] /\ Goto(s, "join") /\ UNCHANGED <<stopping, tear, final, watcher>>
     \/ ~stopping[s] /\ Own(s) \in alive /\ ~cancelled[s] /\ Serves(s)
        /\ UNCHANGED <<stopping, tear>>
     \/ /\ ~stopping[s] /\ Goto(s, "tear") /\ Tearing(s, "start", "kill")
        /\ stopping' = [stopping EXCEPT ![s] = TRUE]
        /\ UNCHANGED <<final, watcher>>
  /\ UNCHANGED <<use, sess, ready, ended, child, locks, alive, mine, saving, backend, ghosts>>

(* The start reports the end that another goroutine brought about.          *)
Join(s) ==
  /\ At(s, "join") /\ ended[s]
  /\ final' = [final EXCEPT ![s] = "failed"] /\ Goto(s, "done")
  /\ UNCHANGED <<use, sess, fields, locks, alive, mine, watcher, tear, saving, backend, ghosts>>

-----------------------------------------------------------------------------
(* The watch: once a second.                                                *)
WatchLook(s) ==
  /\ watcher[s] = "look"
  /\ watcher' = [watcher EXCEPT ![s] = IF stopping[s] \/ ended[s] THEN "off" ELSE "wait"]
  /\ UNCHANGED <<use, sess, fields, locks, alive, starter, mine, final, tear, saving, backend,
                 ghosts>>
Watch(s) ==
  /\ watcher[s] = "wait"
  /\ IF Of(s) \in alive
     THEN watcher' = [watcher EXCEPT ![s] = "look"] /\ UNCHANGED <<stopping, tear>>
     ELSE /\ watcher' = [watcher EXCEPT ![s] = "off"]
          /\ IF stopping[s] \/ ended[s]
             THEN UNCHANGED <<stopping, tear>>
             ELSE stopping' = [stopping EXCEPT ![s] = TRUE] /\ Tearing(s, "watch", "kill")
  /\ UNCHANGED <<use, sess, ready, ended, child, locks, alive, starter, mine, final, saving,
                 backend, ghosts>>

-----------------------------------------------------------------------------
(* Stop and StopNoSave: refused unless the session is ready and no stop is  *)
(* on its way; an ended session answers with its end.                       *)
Accepts(s) == ready[s] /\ ~stopping[s] /\ ~ended[s]
AskedToStop(s, save) ==
  /\ stopping' = [stopping EXCEPT ![s] = TRUE]
  /\ saving' = [saving EXCEPT ![s] = IF save THEN "ask" ELSE "no"]
  /\ tear' = IF save THEN tear ELSE [tear EXCEPT ![s]["stop"] = "kill"]

DirectStop(save) ==
  /\ use.direct /\ sess # 0 /\ Accepts(sess)
  /\ AskedToStop(sess, save)
  /\ UNCHANGED <<use, sess, ready, ended, child, locks, alive, starter, mine, final, watcher,
                 backend, ghosts>>

(* warmStopSave: allowed for a ready, living child; then it waits for the   *)
(* mutex and asks the server that is there.                                 *)
StopAsksReturns(s) ==
  /\ saving[s] = "ask"
  /\ saving' = [saving EXCEPT ![s] = IF ready[s] /\ Of(s) \in alive THEN "save" ELSE "no"]
  /\ UNCHANGED <<use, sess, fields, locks, alive, starter, mine, final, watcher, tear, backend,
                 ghosts>>
StopAsks(s) ==
  /\ saving[s] = "ask"
  /\ IF ready[s] /\ Of(s) \in alive
     THEN saving' = [saving EXCEPT ![s] = "save"] /\ UNCHANGED tear
     ELSE saving' = [saving EXCEPT ![s] = "no"] /\ Tearing(s, "stop", "kill")
  /\ UNCHANGED <<use, sess, fields, locks, alive, starter, mine, final, watcher, backend, ghosts>>
StopSaves(s) ==
  /\ saving[s] = "save" /\ ~At(s, Waiting)
  /\ saving' = [saving EXCEPT ![s] = "no"] /\ Tearing(s, "stop", "kill")
  /\ tainted' = (tainted \/ Of(s) \in alive \cap unknown)
  /\ UNCHANGED <<use, sess, fields, locks, alive, starter, mine, final, watcher, backend,
                 unknown, panicked>>

-----------------------------------------------------------------------------
(* The backend of the screens: until the start's final event a stop is a    *)
(* cancel of its context, later the package's Stop or StopNoSave.           *)
CancelsUnready(s, mode) == ~ready[s] \/ (mode = "cancel" /\ final[s] # "ready")
Cancels(s, mode) == final[s] = "none" \/ (mode = "cancel" /\ final[s] # "ready")
Cancel(mode) ==
  /\ sess # 0 /\ Cancels(sess, mode) /\ reports[sess] = "no"
  /\ cancelled' = [cancelled EXCEPT ![sess] = TRUE]
  /\ reports' = [reports EXCEPT ![sess] = "cancel"]
  /\ UNCHANGED <<use, sess, fields, locks, alive, starter, mine, final, watcher, tear, saving,
                 stopped, ghosts>>
BackendStop(mode) ==
  /\ sess # 0 /\ ~Cancels(sess, mode) /\ Accepts(sess)
  /\ AskedToStop(sess, mode # "force")
  /\ reports' = [reports EXCEPT ![sess] = "stop"]
  /\ UNCHANGED <<use, sess, ready, ended, child, locks, alive, starter, mine, final, watcher,
                 cancelled, stopped, ghosts>>

(* The cancel waits for the final event, the stop for the teardown's end.   *)
Reported(s) ==
  /\ \/ reports[s] = "cancel" /\ final[s] # "none"
     \/ reports[s] = "stop" /\ tear[s]["stop"] = "done"
  /\ reports' = [reports EXCEPT ![s] = "no"] /\ stopped' = [stopped EXCEPT ![s] = TRUE]
  /\ UNCHANGED <<use, sess, fields, locks, alive, starter, mine, final, watcher, tear, saving,
                 cancelled, ghosts>>

ServerDies ==
  /\ \E c \in alive : alive' = alive \ {c}
  /\ UNCHANGED <<use, sess, fields, locks, starter, mine, final, watcher, tear, saving, backend,
                 ghosts>>

-----------------------------------------------------------------------------
Starting(s) == \/ Prepare(s) \/ Spawn(s) \/ Await(s) \/ Restored(s) \/ Look(s)
               \/ Recover(s) \/ RecoverStop(s) \/ Respawn(s) \/ Reawait(s)
               \/ Warmup(s) \/ Smoke(s) \/ Join(s)
Teardown(s, a) == Kill(s, a) \/ Close(s, a) \/ Release(s, a) \/ Ended(s, a)
Watching(s) == WatchLook(s) \/ Watch(s)
Stopping(s) == StopAsks(s) \/ StopSaves(s)
Asked == \/ \E save \in BOOLEAN : DirectStop(save)
         \/ \E mode \in {"cancel", "unload", "force"} : Cancel(mode) \/ BackendStop(mode)

Next ==
  \/ Start \/ Asked \/ ServerDies
  \/ \E s \in Sessions :
       \/ Starting(s) \/ Watching(s) \/ Stopping(s) \/ Reported(s)
       \/ \E a \in Actors : Teardown(s, a)

Spec == Init /\ [][Next]_vars

(* The goroutines of a session run; the calls they wait in end, by their    *)
(* own time-outs.                                                           *)
FairSpec ==
  /\ Spec
  /\ \A s \in Sessions :
       /\ WF_vars(Starting(s)) /\ WF_vars(Watching(s))
       /\ WF_vars(Stopping(s)) /\ WF_vars(Reported(s))
       /\ \A a \in Actors : WF_vars(Teardown(s, a))

-----------------------------------------------------------------------------
(* Every variable has its type.                                             *)
TypeOK ==
  /\ use \in Uses /\ sess \in 0..MaxSessions
  /\ {ready, stopping, ended, cancelled, stopped} \subseteq [Sessions -> BOOLEAN]
  /\ {child, mine} \subseteq [Sessions -> 0..2]
  /\ locks \subseteq Sessions /\ alive \subseteq Servers
  /\ starter \in [Sessions -> {"none", "prepare", "spawn", "await", "restore", "look",
                               "recover", "recoverStop", "respawn", "reawait", "warmup",
                               "smoke", "join", "tear", "done"}]
  /\ final \in [Sessions -> {"none", "ready", "failed"}]
  /\ watcher \in [Sessions -> {"off", "look", "wait"}]
  /\ tear \in [Sessions -> [Actors -> {"no", "kill", "close", "release", "end", "done"}]]
  /\ saving \in [Sessions -> {"no", "ask", "save"}]
  /\ reports \in [Sessions -> {"no", "cancel", "stop"}]
  /\ unknown \subseteq Servers /\ {tainted, panicked} \subseteq BOOLEAN

(* A session that has ended left nothing behind: no server process, no lock.*)
EndedMeansStopped ==
  \A s \in Sessions :
    ended[s] => s \notin locks /\ \A c \in alive : c[1] # s

(* A server runs under the locks of its session, so that no other launcher  *)
(* starts a second one beside it.                                           *)
LocksCoverServers == \A c \in alive : c[1] \in locks

(* One goroutine tears a session down: the start, the stop or the watch.    *)
OneTeardown ==
  \A s \in Sessions : Cardinality({a \in Actors : tear[s][a] # "no"}) <= 1
(* The session's end is announced once; the second time is a panic.         *)
EndedOnce == ~panicked

(* What a stop saves is what the session restored or computed, never a slot *)
(* that a restore and an erase have left in between.                        *)
SavedSlotKnown == ~tainted

(* The backend tells the screen that it is over only when it is: after a    *)
(* cancel the start has ended.                                              *)
StoppedMeansEnded == \A s \in Sessions : stopped[s] => ended[s]

(* A stop that was accepted ends the session.                               *)
StopEnds == \A s \in Sessions : stopping[s] ~> ended[s]
(* A start that is cancelled before its server is ready ends.               *)
CancelEnds == \A s \in Sessions : (cancelled[s] /\ ~ready[s]) ~> ended[s]
=============================================================================
