---------------------------- MODULE ControlQueue ----------------------------
(***************************************************************************)
(* How the dispatcher thread is woken (ggml-moe-direct-dispatch.cpp): a     *)
(* bounded pool of command slots, a ring of submitted commands, one         *)
(* manual-reset event that commands, intents and the stop share, and one    *)
(* event per I/O channel.  The queue has its own mutex; the intent queue    *)
(* has another one, so an intent can arrive while the dispatcher, holding   *)
(* the first, is about to reset the event.                                  *)
(*                                                                         *)
(* A definition that no other one uses, right before the one it varies, is  *)
(* a mutant of PROJECT.json: a bug the named property has to find.          *)
(*                                                                         *)
(* What a command does to the cache is the module Dispatcher; here it is    *)
(* answered at once or when a read completes, and may have to be deferred.  *)
(***************************************************************************)
EXTENDS Integers, Sequences, FiniteSets

CONSTANTS Producers,   \* threads that issue commands
          Cmds,        \* command slots (MOE_DIRECT_CONTROL_Q_CAP of them)
          Pool,        \* commands that may wait for reads at the same time
          MaxIntents,  \* bound: intents in a behaviour
          MaxCommands, \* bound: commands in a behaviour
          NoCmd

ASSUME QueueAssumption == /\ Pool \in Nat \ {0} /\ NoCmd \notin Cmds
                          /\ MaxIntents \in Nat /\ MaxCommands \in Nat

VARIABLES
  prod,      \* each producer: [pc, cmd]
  asleep,    \* producers waiting on q_free_cv and not notified
  free,      \* q_free
  ring,      \* q_ring from q_head on
  done,      \* cmds[..].done
  reading,   \* commands whose reads are in flight
  signaled,  \* of these, the ones whose channel event is set
  event,     \* command_event
  intents,   \* depth of the intent queue
  published, \* intents so far (for the bound)
  issued,    \* commands so far (for the bound)
  cut,       \* the capture latch
  drained,   \* the predictor has finished
  stopping,  \* q_stopping
  disp       \* the dispatcher thread

prodVars == <<prod, asleep, free, issued>>
workVars == <<ring, done, reading, signaled>>
wakeVars == <<event, intents, published, cut, drained, stopping>>
vars == <<prodVars, workVars, wakeVars, disp>>

Init ==
  /\ prod = [p \in Producers |-> [pc |-> "idle", cmd |-> NoCmd]]
  /\ asleep = {} /\ free = Cmds /\ ring = <<>> /\ issued = 0
  /\ done = [c \in Cmds |-> FALSE]
  /\ reading = {} /\ signaled = {}
  /\ event = FALSE /\ intents = 0 /\ published = 0
  /\ cut = FALSE /\ drained = FALSE /\ stopping = FALSE
  /\ disp = [pc |-> "top", pass |-> 1, stop |-> FALSE, progressed |-> FALSE,
             deferred |-> FALSE]

(* disp_peek holds q_mutex from the look at the ring to its last SetEvent.  *)
QMutexFree == disp.pc \notin {"depth", "reset", "rearm"}

At(p, s)    == prod[p].pc = s
Move(p, s)  == prod' = [prod EXCEPT ![p].pc = s]
TakeStale(p) == \E c \in free : /\ free' = free \ {c}
                               /\ prod' = [prod EXCEPT ![p] = [pc |-> "filled", cmd |-> c]]
                               /\ UNCHANGED done
Take(p)     == \E c \in free : /\ free' = free \ {c}
                               /\ done' = [done EXCEPT ![c] = FALSE]
                               /\ prod' = [prod EXCEPT ![p] = [pc |-> "filled", cmd |-> c]]

SetNoEvent      == UNCHANGED event
SetCommandEvent == event' = TRUE

-----------------------------------------------------------------------------
(* cq_alloc: refused once the latch or q_stopping is set; a producer that   *)
(* finds no free slot sleeps until one is freed or the queue stops.         *)
PassLatch(p) ==
  /\ At(p, "idle") /\ ~cut /\ issued < MaxCommands
  /\ issued' = issued + 1
  /\ Move(p, "alloc")
  /\ UNCHANGED <<asleep, free, workVars, wakeVars, disp>>

AllocRefused(p) ==
  /\ prod[p].pc \in {"alloc", "waitFree"} /\ p \notin asleep /\ QMutexFree /\ stopping
  /\ Move(p, "idle")
  /\ UNCHANGED <<asleep, free, issued, workVars, wakeVars, disp>>

AllocTakes(p) ==
  /\ prod[p].pc \in {"alloc", "waitFree"} /\ p \notin asleep /\ QMutexFree /\ ~stopping
  /\ Take(p)
  /\ UNCHANGED <<asleep, issued, ring, reading, signaled, wakeVars, disp>>

AllocSleeps(p) ==
  /\ prod[p].pc \in {"alloc", "waitFree"} /\ p \notin asleep /\ QMutexFree /\ ~stopping
  /\ free = {}
  /\ Move(p, "waitFree")
  /\ asleep' = asleep \cup {p}
  /\ UNCHANGED <<free, issued, workVars, wakeVars, disp>>

(* cq_submit_and_wait.                                                      *)
Refusing == stopping

Submit(p) ==
  /\ At(p, "filled") /\ QMutexFree
  /\ IF Refusing
       THEN /\ Move(p, "returned")
            /\ done' = [done EXCEPT ![prod[p].cmd] = TRUE]
            /\ UNCHANGED <<ring, event>>
       ELSE /\ Move(p, "waiting")
            /\ ring' = Append(ring, prod[p].cmd)
            /\ SetCommandEvent
            /\ UNCHANGED done
  /\ UNCHANGED <<asleep, free, issued, reading, signaled, intents, published, cut, drained,
                 stopping, disp>>

Wake(p) ==
  /\ At(p, "waiting") /\ QMutexFree /\ done[prod[p].cmd]
  /\ Move(p, "returned")
  /\ UNCHANGED <<asleep, free, issued, workVars, wakeVars, disp>>

(* cq_free notifies one sleeping producer, if there is one.                 *)
NotifyOne    == \/ asleep = {} /\ UNCHANGED asleep
                \/ \E q \in asleep : asleep' = asleep \ {q}

Free(p) ==
  /\ At(p, "returned") /\ QMutexFree
  /\ free' = free \cup {prod[p].cmd}
  /\ prod' = [prod EXCEPT ![p] = [pc |-> "idle", cmd |-> NoCmd]]
  /\ NotifyOne
  /\ UNCHANGED <<issued, workVars, wakeVars, disp>>

Producer(p) == \/ AllocRefused(p) \/ AllocTakes(p) \/ AllocSleeps(p)
               \/ Submit(p) \/ Wake(p) \/ Free(p)

-----------------------------------------------------------------------------
(* The predictor appends an intent and sets the event under the mutex of    *)
(* the intent queue only; the device sets the event of a channel.           *)
PublishIntent ==
  /\ ~drained /\ published < MaxIntents
  /\ intents' = intents + 1 /\ published' = published + 1
  /\ SetCommandEvent
  /\ UNCHANGED <<prodVars, workVars, cut, drained, stopping, disp>>

ReadCompletes ==
  /\ \E c \in reading \ signaled : signaled' = signaled \cup {c}
  /\ UNCHANGED <<prodVars, ring, done, reading, wakeVars, disp>>

(* The stop: latch, predictor, then q_stopping with the one SetEvent of it. *)
CloseLatch ==
  /\ ~cut /\ cut' = TRUE
  /\ UNCHANGED <<prodVars, workVars, event, intents, published, drained, stopping, disp>>

PredictorDrained ==
  /\ cut /\ ~drained /\ drained' = TRUE
  /\ UNCHANGED <<prodVars, workVars, event, intents, published, cut, stopping, disp>>

StopRequest ==
  /\ drained /\ ~stopping /\ QMutexFree
  /\ stopping' = TRUE /\ SetCommandEvent /\ asleep' = {}
  /\ UNCHANGED <<prod, free, issued, workVars, intents, published, cut, drained, disp>>

-----------------------------------------------------------------------------
(* The dispatcher (dispatcher_main, disp_pass_locked, disp_peek).           *)
Goto(pc) == disp' = [disp EXCEPT !.pc = pc]

Top ==
  /\ disp.pc = "top"
  /\ disp' = [pc |-> "peek", pass |-> 1, stop |-> stopping, progressed |-> FALSE,
              deferred |-> FALSE]
  /\ UNCHANGED <<prodVars, workVars, wakeVars>>

PeekEmpty ==
  /\ disp.pc = "peek" /\ ring = <<>>
  /\ Goto(IF stopping THEN "peeked" ELSE "depth")
  /\ UNCHANGED <<prodVars, workVars, wakeVars>>

(* A command is popped and answered at once, or when its reads are in; one  *)
(* the pool has no room for stays where it is and ends the pass.            *)
Handle ==
  /\ disp.pc = "peek" /\ ring # <<>>
  /\ ring' = Tail(ring)
  /\ disp' = [disp EXCEPT !.progressed = TRUE]
  /\ \/ done' = [done EXCEPT ![Head(ring)] = TRUE] /\ UNCHANGED reading
     \/ /\ Cardinality(reading) < Pool
        /\ reading' = reading \cup {Head(ring)} /\ UNCHANGED done
  /\ UNCHANGED <<prodVars, signaled, wakeVars>>

Defer ==
  /\ disp.pc = "peek" /\ ring # <<>> /\ Cardinality(reading) = Pool
  /\ disp' = [disp EXCEPT !.pc = "peeked", !.deferred = TRUE]
  /\ UNCHANGED <<prodVars, workVars, wakeVars>>

(* Empty ring, mutex held: look at the intents, reset, look again.          *)
LookAtDepth ==
  /\ disp.pc = "depth"
  /\ Goto(IF intents = 0 THEN "reset" ELSE "peeked")
  /\ UNCHANGED <<prodVars, workVars, wakeVars>>

ResetEvent ==
  /\ disp.pc = "reset"
  /\ event' = FALSE
  /\ Goto("rearm")
  /\ UNCHANGED <<prodVars, workVars, intents, published, cut, drained, stopping>>

RearmBlind ==
  /\ disp.pc = "rearm"
  /\ Goto("peeked")
  /\ UNCHANGED <<prodVars, workVars, wakeVars>>

Rearm ==
  /\ disp.pc = "rearm"
  /\ event' = (event \/ intents # 0)
  /\ Goto("peeked")
  /\ UNCHANGED <<prodVars, workVars, intents, published, cut, drained, stopping>>

(* First pass: retire what has completed, admit one intent, look at the     *)
(* commands again unless one is deferred.                                   *)
ChannelsFreed == signaled' = {}

Service ==
  /\ disp.pc = "peeked" /\ disp.pass = 1
  /\ done' = [c \in Cmds |-> done[c] \/ c \in signaled]
  /\ reading' = reading \ signaled /\ ChannelsFreed
  /\ intents' = IF intents = 0 THEN 0 ELSE intents - 1
  /\ disp' = [disp EXCEPT !.pass = 2, !.pc = IF disp.deferred THEN "peeked" ELSE "peek",
                !.progressed = @ \/ signaled # {} \/ intents # 0]
  /\ UNCHANGED <<prodVars, ring, event, published, cut, drained, stopping>>

(* After the pass: a stop that was seen disposes of the intents that are    *)
(* left and ends the thread when nothing else is; a pass that got somewhere *)
(* is repeated at once.                                                     *)
PassEnd ==
  /\ disp.pc = "peeked" /\ disp.pass = 2
  /\ intents' = IF disp.stop THEN 0 ELSE intents
  /\ LET again == disp.progressed \/ (disp.stop /\ intents # 0)
         over  == disp.stop /\ drained /\ ring = <<>> /\ reading = {}
     IN  Goto(CASE over -> "exited"
                [] ~over /\ again -> "top"
                [] ~over /\ ~again /\ disp.deferred -> "sleepDeferred"
                [] OTHER -> "chooseSleep")
  /\ UNCHANGED <<prodVars, workVars, event, published, cut, drained, stopping>>

ChooseSleep ==
  /\ disp.pc = "chooseSleep"
  /\ Goto(IF stopping THEN "doze" ELSE "sleep")
  /\ UNCHANGED <<prodVars, workVars, wakeVars>>

(* Asleep without a timeout: the command event or a channel event wakes it. *)
WakeUp ==
  /\ disp.pc = "sleep" /\ (event \/ signaled # {})
  /\ Goto("top")
  /\ UNCHANGED <<prodVars, workVars, wakeVars>>

(* The other two waits end by themselves (20 ms while stopping, 50 ms while *)
(* a command is deferred).                                                  *)
TimedWake ==
  /\ disp.pc \in {"doze", "sleepDeferred"}
  /\ Goto("top")
  /\ UNCHANGED <<prodVars, workVars, wakeVars>>

DispatcherThread ==
  \/ Top \/ PeekEmpty \/ Handle \/ Defer \/ LookAtDepth \/ ResetEvent \/ Rearm
  \/ Service \/ PassEnd \/ ChooseSleep \/ WakeUp \/ TimedWake

-----------------------------------------------------------------------------
Next ==
  \/ \E p \in Producers : PassLatch(p) \/ Producer(p)
  \/ PublishIntent \/ ReadCompletes
  \/ CloseLatch \/ PredictorDrained \/ StopRequest
  \/ DispatcherThread

Spec == Init /\ [][Next]_vars

(* Threads that can run do, reads complete, a stop that was begun is gone   *)
(* through with.  Nobody has to issue a command or to stop.                 *)
FairSpec == /\ Spec
            /\ WF_vars(DispatcherThread)
            /\ \A p \in Producers : WF_vars(Producer(p))
            /\ WF_vars(ReadCompletes)
            /\ WF_vars(PredictorDrained) /\ WF_vars(StopRequest)

-----------------------------------------------------------------------------
(* Types of the queue's state.                                              *)
TypeOK ==
  /\ prod \in [Producers -> [pc : {"idle", "alloc", "waitFree", "filled", "waiting", "returned"},
                            cmd : Cmds \cup {NoCmd}]]
  /\ asleep \subseteq Producers /\ free \subseteq Cmds
  /\ ring \in Seq(Cmds) /\ done \in [Cmds -> BOOLEAN]
  /\ reading \subseteq Cmds /\ signaled \subseteq reading
  /\ event \in BOOLEAN /\ intents \in Nat /\ published \in Nat /\ issued \in Nat
  /\ cut \in BOOLEAN /\ drained \in BOOLEAN /\ stopping \in BOOLEAN
  /\ disp \in [pc : {"top", "peek", "depth", "reset", "rearm", "peeked", "chooseSleep",
                    "sleep", "doze", "sleepDeferred", "exited"},
              pass : {1, 2}, stop : BOOLEAN, progressed : BOOLEAN, deferred : BOOLEAN]

(* No wake-up is lost: a dispatcher that sleeps without a timeout, and whose *)
(* event is down, has no command, no intent and no stop to look at.         *)
SleepIsJustified ==
  disp.pc = "sleep" /\ ~event => ring = <<>> /\ intents = 0 /\ ~stopping

Holders(c) == {p \in Producers : prod[p].cmd = c}
InRing(c)  == {i \in DOMAIN ring : ring[i] = c}

(* A command slot is free, or belongs to one producer; a slot that is in    *)
(* the ring or waits for reads belongs to a producer that waits for it, and *)
(* is in one of the two places until it is done: none is answered twice,    *)
(* forgotten, or reused under the dispatcher.                               *)
CommandsExact ==
  \A c \in Cmds :
    /\ Cardinality(Holders(c)) = IF c \in free THEN 0 ELSE 1
    /\ \A p \in Holders(c) :
         Cardinality(InRing(c)) + (IF c \in reading THEN 1 ELSE 0)
           = IF At(p, "waiting") /\ ~done[c] THEN 1 ELSE 0
    /\ c \in free => InRing(c) = {} /\ c \notin reading

(* When the thread has ended, nobody waits for it.                          *)
NobodyLeftWaiting ==
  disp.pc = "exited" => /\ \A p \in Producers : At(p, "waiting") => done[prod[p].cmd]
                        /\ ring = <<>> /\ reading = {} /\ intents = 0 /\ asleep = {}

(* Every submitted command returns, every intent is looked at, and a stop   *)
(* ends the thread.  The first two need a stream of commands that pauses    *)
(* (MaxCommands): the command loop of a pass runs until the ring is empty.  *)
CommandsReturn == \A p \in Producers : At(p, "waiting") ~> ~At(p, "waiting")
-----------------------------------------------------------------------------
(* The inductive invariant behind the safety properties, part by part.      *)
(* The event is down only when there is nothing to look at, except between  *)
(* the reset and the re-arm, when an intent may have come in; the ring and  *)
(* the stop are out of reach as long as disp_peek holds the mutex.          *)
EventTellsAll ==
  /\ ~event => ring = <<>> /\ ~stopping
  /\ ~event /\ disp.pc # "rearm" => intents = 0
  /\ ~QMutexFree => ring = <<>> /\ ~stopping

(* Command slots are free or owned by the one producer that works on them,  *)
(* and are fresh when they are submitted.                                   *)
SlotsOwned ==
  /\ \A p \in Producers : prod[p].cmd # NoCmd <=> prod[p].pc \in {"filled", "waiting", "returned"}
  /\ \A p, q \in Producers : prod[p].cmd = prod[q].cmd /\ prod[p].cmd # NoCmd => p = q
  /\ \A c \in Cmds : c \in free <=> \A p \in Producers : prod[p].cmd # c
  /\ \A p \in Producers : At(p, "filled") => ~done[prod[p].cmd]

Unanswered(c) == \E p \in Producers : At(p, "waiting") /\ prod[p].cmd = c /\ ~done[c]

(* The commands in the ring and those that wait for reads are, without      *)
(* repetition, the ones that were submitted and not answered yet.           *)
CommandsPlaced ==
  /\ \A i, j \in DOMAIN ring : ring[i] = ring[j] => i = j
  /\ \A i \in DOMAIN ring : ring[i] \notin reading /\ Unanswered(ring[i])
  /\ \A c \in reading : Unanswered(c)
  /\ \A c \in Cmds : Unanswered(c) => c \in reading \/ \E i \in DOMAIN ring : ring[i] = c

(* What a stop has behind it.                                               *)
StopInOrder ==
  /\ disp.stop => stopping
  /\ stopping => drained /\ asleep = {}
  /\ disp.pc = "exited" => disp.stop /\ ring = <<>> /\ reading = {} /\ intents = 0

QueueInv == TypeOK /\ EventTellsAll /\ SlotsOwned /\ CommandsPlaced /\ StopInOrder
=============================================================================
