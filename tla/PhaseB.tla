------------------------------- MODULE PhaseB -------------------------------
(***************************************************************************)
(* The predictor (ggml-moe-phaseb.cpp).  The compute thread copies the      *)
(* input of a layer into a capture slot; one worker guesses from it which   *)
(* experts the next layer needs and queues an intent; the dispatcher takes  *)
(* the intents.  A shutdown closes the captures, lets the worker finish,    *)
(* stops the dispatcher and writes the rows that tell, for each layer of    *)
(* each graph, what became of its guess.  Three mutexes (cap_mu, int_mu,    *)
(* tm_mu) and the dispatcher's own one keep the parts apart.                *)
(*                                                                         *)
(* The mode is trace: it is the one in which rows exist.  A definition that *)
(* no other one uses, right before the one it varies, is a mutant of        *)
(* PROJECT.json: a bug the named property has to find.                      *)
(***************************************************************************)
EXTENDS Integers, Sequences, FiniteSets

CONSTANTS Layers,      \* managed layers, in the order of a graph
          Parts,       \* calls of the hook per layer (gate, up and down)
          Slots,       \* capture slots
          IntentCap,   \* GGML_MOE_PHASEB_INTENT_SLOTS
          StatusCap,   \* STATUS_RING
          PendingCap,  \* PB_PENDING_STATUS_MAX
          RowCap,      \* rows that fit in the buffer
          MaxGraphs,   \* bound: graphs in a behaviour
          MaxRequests, \* bound: requests in a behaviour
          NoSlot

ASSUME PhaseBAssumption ==
  /\ {Layers, Parts, IntentCap, StatusCap, PendingCap, RowCap} \subseteq Nat \ {0}
  /\ {MaxGraphs, MaxRequests} \subseteq Nat
  /\ IsFiniteSet(Slots) /\ NoSlot \notin Slots

VARIABLES
  request,    \* request_index, 0 before the first
  disabled,   \* disabled_request, 0 for none
  graph,      \* cur_graph_seq, 0 between graphs
  graphs,     \* graphs begun
  hook,       \* the compute thread: [pc, layer, part, req, gs]
  seen,       \* cap_layer_seen
  free,       \* cap_free
  ring,       \* cap_ring from cap_head on
  content,    \* the captures in the slots
  worker,     \* the predictor thread: [pc, slot]
  intents,    \* int_slots from int_head on
  ordinal,    \* intent_ordinal_next
  mailbox,    \* skip_by_target, ovf_by_target and mailbox_graph
  status,     \* status_q from status_head on
  row,        \* pb_samples
  pending,    \* pb_pending_status
  incomplete, \* incomplete_mask (complete is that it is empty)
  ctr,        \* INTENT_CAPTURED, INTENT_PREDICTED, INTENT_OVERFLOW, NONFINITE
  cut,        \* cut_closed
  workerStop, \* worker_stop
  running,    \* worker_running
  latch,      \* predictor_drained
  closer,     \* the thread that shuts down: [pc, bounded]
  timedOut,   \* disp_stop_timed_out
  stopping,   \* q_stopping
  disp,       \* the dispatcher: [pc, predDone]
  fate,       \* ghost: what became of the capture of each layer of each graph
  owner       \* ghost: the request of each graph

ghosts     == <<fate, owner>>
epochVars  == <<request, disabled, graph, graphs>>
capVars    == <<seen, free, ring, content>>
intentVars == <<intents, ordinal>>
tellVars   == <<mailbox, status, incomplete>>
rowVars    == <<row, pending>>
stopVars   == <<cut, workerStop, running, latch, closer, timedOut, stopping>>
vars == <<epochVars, hook, capVars, worker, intentVars, tellVars, rowVars, ctr,
          stopVars, disp, ghosts>>

Graphs  == 1..MaxGraphs
Targets == 1..Layers
Keys    == Graphs \X Targets        \* a row per graph and layer

(* pb_row_locked before anything is known of the layer, and the reasons.    *)
Reasons == {"none", "noSource", "sourceRange", "ineligible", "disabled",
            "queueFull", "nonfinite"}
NoRow   == [made |-> FALSE, intent |-> FALSE, reason |-> "none", overflow |-> FALSE]
NoNote  == [held |-> FALSE, reason |-> "none", overflow |-> FALSE]
NoCapture == [req |-> 0, gs |-> 0, layer |-> 0]
Blank   == [t \in Targets |-> NoNote]

Init ==
  /\ request = 0 /\ disabled = 0 /\ graph = 0 /\ graphs = 0
  /\ hook = [pc |-> "between", layer |-> 1, part |-> 1, req |-> 0, gs |-> 0]
  /\ seen = {} /\ free = Slots /\ ring = <<>>
  /\ content = [s \in Slots |-> NoCapture]
  /\ worker = [pc |-> "wait", slot |-> NoSlot]
  /\ intents = <<>> /\ ordinal = 0
  /\ mailbox = [gs |-> 0, note |-> Blank] /\ status = <<>>
  /\ row = [k \in Keys |-> NoRow] /\ pending = [k \in Keys |-> NoNote]
  /\ incomplete = {}
  /\ ctr = [captured |-> 0, predicted |-> 0, overflow |-> 0, nonfinite |-> 0]
  /\ cut = FALSE /\ workerStop = FALSE /\ running = TRUE /\ latch = FALSE
  /\ closer = [pc |-> "open", bounded |-> FALSE] /\ timedOut = FALSE
  /\ stopping = FALSE /\ disp = [pc |-> "run", predDone |-> FALSE]
  /\ fate = [k \in Keys |-> "none"] /\ owner = [g \in Graphs |-> 0]

Count(c) == ctr' = [ctr EXCEPT ![c] = @ + 1]

(* cap_mu: the hook holds it from the look at the latch to its return.      *)
CapMuFree == hook.pc \notin {"decide", "register"}

-----------------------------------------------------------------------------
(* pb_note_target_status, under tm_mu: the mailbox of the current graph and *)
(* the ring that keeps the notes of all graphs; a full ring is reported.    *)
Marked(n, r, ovf) == [n EXCEPT !.reason = IF r = "none" THEN @ ELSE r,
                               !.overflow = @ \/ ovf]
NoteMailboxOnly(g, t, r, ovf) ==
  /\ mailbox' = IF mailbox.gs = g /\ t \in Targets
                THEN [mailbox EXCEPT !.note[t] = Marked(@, r, ovf)]
                ELSE mailbox
  /\ UNCHANGED <<status, incomplete>>
Note(g, t, r, ovf) ==
  /\ mailbox' = IF mailbox.gs = g /\ t \in Targets
                THEN [mailbox EXCEPT !.note[t] = Marked(@, r, ovf)]
                ELSE mailbox
  /\ IF Len(status) >= StatusCap
     THEN incomplete' = incomplete \cup {"RING_OVERFLOW"} /\ UNCHANGED status
     ELSE /\ status' = Append(status, [gs |-> g, target |-> t, reason |-> r, overflow |-> ovf])
          /\ UNCHANGED incomplete

-----------------------------------------------------------------------------
(* run_begin: the index first, then the switch.                             *)
RunBegin ==
  /\ hook.pc = "between" /\ request < MaxRequests
  /\ request' = request + 1
  /\ hook' = [hook EXCEPT !.pc = "enable"]
  /\ UNCHANGED <<disabled, graph, graphs, capVars, worker, intentVars, tellVars,
                 rowVars, ctr, stopVars, disp, ghosts>>

Enable ==
  /\ hook.pc = "enable"
  /\ disabled' = 0
  /\ hook' = [hook EXCEPT !.pc = "between"]
  /\ UNCHANGED <<request, graph, graphs, capVars, worker, intentVars, tellVars,
                 rowVars, ctr, stopVars, disp, ghosts>>

(* graph_begin: a new mailbox and no layer seen.                            *)
GraphBegin ==
  /\ hook.pc = "between" /\ request > 0 /\ graphs < MaxGraphs
  /\ graphs' = graphs + 1 /\ graph' = graphs'
  /\ mailbox' = [gs |-> graphs', note |-> Blank]
  /\ seen' = {}
  /\ hook' = [hook EXCEPT !.pc = "hook", !.layer = 1, !.part = 1]
  /\ owner' = [owner EXCEPT ![graphs'] = request]
  /\ UNCHANGED <<request, disabled, free, ring, content, worker, intentVars, status,
                 incomplete, rowVars, ctr, stopVars, disp, fate>>

(* capture, before cap_mu: the request and the graph are read.              *)
HookRead ==
  /\ hook.pc = "hook"
  /\ hook' = [hook EXCEPT !.pc = "enter", !.req = request, !.gs = graph]
  /\ UNCHANGED <<epochVars, capVars, worker, intentVars, tellVars, rowVars, ctr,
                 stopVars, disp, ghosts>>

(* The hook returns; the first call of a layer is followed by the acquire   *)
(* that makes the row, and that by the next part or layer.                  *)
At(p, layer, part) == [pc |-> p, layer |-> layer, part |-> part, req |-> 0, gs |-> 0]
Onward == IF hook.part < Parts THEN At("hook", hook.layer, hook.part + 1)
          ELSE IF hook.layer < Layers THEN At("hook", hook.layer + 1, 1)
          ELSE At("end", 1, 1)
Returned == IF hook.part = 1 THEN At("acquire", hook.layer, 1) ELSE Onward

(* Under cap_mu: the latch, then one capture per graph and layer.           *)
HookEnter ==
  /\ hook.pc = "enter"
  /\ IF cut \/ hook.layer \in seen
     THEN hook' = Returned /\ UNCHANGED seen
     ELSE hook' = [hook EXCEPT !.pc = "decide"] /\ seen' = seen \cup {hook.layer}
  /\ UNCHANGED <<epochVars, free, ring, content, worker, intentVars, tellVars,
                 rowVars, ctr, stopVars, disp, ghosts>>

Skip(reason) ==
  /\ Note(hook.gs, hook.layer + 1, reason, FALSE)
  /\ fate' = [fate EXCEPT ![<<hook.gs, hook.layer>>] = reason]
  /\ hook' = Returned

(* Still under cap_mu: is the capture eligible?  The type, the shape and    *)
(* the adapter of the tensor are the environment's choice.                  *)
HookDecide ==
  /\ hook.pc = "decide"
  /\ \/ disabled # 0 /\ disabled = hook.req /\ Skip("disabled")
     \/ disabled # hook.req /\ Skip("ineligible")
     \/ disabled # hook.req /\ hook.layer = Layers /\ Skip("sourceRange")
     \/ /\ disabled # hook.req /\ hook.layer < Layers
        /\ hook' = [hook EXCEPT !.pc = "register"]
        /\ UNCHANGED <<tellVars, fate>>
  /\ UNCHANGED <<epochVars, capVars, worker, intentVars, rowVars, ctr, stopVars, disp,
                 owner>>

(* A slot is filled and queued, or the capture is refused.                  *)
HookRegister ==
  /\ hook.pc = "register"
  /\ \/ free = {} /\ Skip("queueFull") /\ UNCHANGED <<free, ring, content, ctr>>
     \/ \E s \in free :
          /\ free' = free \ {s}
          /\ content' = [content EXCEPT ![s] =
                           [req |-> hook.req, gs |-> hook.gs, layer |-> hook.layer]]
          /\ ring' = Append(ring, s)
          /\ Count("captured")
          /\ fate' = [fate EXCEPT ![<<hook.gs, hook.layer>>] = "queued"]
          /\ hook' = Returned
          /\ UNCHANGED tellVars
  /\ UNCHANGED <<epochVars, seen, worker, intentVars, rowVars, stopVars, disp, owner>>

GraphEnd ==
  /\ hook.pc = "end"
  /\ hook' = [hook EXCEPT !.pc = "between"] /\ graph' = 0
  /\ UNCHANGED <<request, disabled, graphs, capVars, worker, intentVars, tellVars,
                 rowVars, ctr, stopVars, disp, ghosts>>

(* Once the latch refuses the command of an acquire the computation ends.   *)
AcquireRefused ==
  /\ hook.pc = "acquire" /\ cut
  /\ hook' = [hook EXCEPT !.pc = "off"]
  /\ UNCHANGED <<epochVars, capVars, worker, intentVars, tellVars, rowVars, ctr,
                 stopVars, disp, ghosts>>

-----------------------------------------------------------------------------
(* The worker takes the oldest capture; it ends only with an empty ring.    *)
WorkerTake ==
  /\ worker.pc = "wait" /\ CapMuFree /\ ring # <<>>
  /\ worker' = [pc |-> "judge", slot |-> Head(ring)]
  /\ ring' = Tail(ring)
  /\ UNCHANGED <<epochVars, hook, seen, free, content, intentVars, tellVars, rowVars,
                 ctr, stopVars, disp, ghosts>>

WorkerEnd ==
  /\ worker.pc = "wait" /\ CapMuFree /\ ring = <<>> /\ workerStop
  /\ worker' = [worker EXCEPT !.pc = "ended"]
  /\ UNCHANGED <<epochVars, hook, capVars, intentVars, tellVars, rowVars, ctr,
                 stopVars, disp, ghosts>>

Mine      == content[worker.slot]
MyKey     == <<Mine.gs, Mine.layer>>
Step(s)   == worker' = [worker EXCEPT !.pc = s]

(* Without a mutex: the guess is computed, or is not a number.              *)
Judge ==
  /\ worker.pc = "judge"
  /\ \/ Step("publish") /\ UNCHANGED <<tellVars, ctr, fate>>
     \/ /\ Count("nonfinite")
        /\ Note(Mine.gs, Mine.layer + 1, "nonfinite", FALSE)
        /\ fate' = [fate EXCEPT ![MyKey] = "nonfinite"]
        /\ Step("return")
  /\ UNCHANGED <<epochVars, hook, capVars, intentVars, rowVars, stopVars, disp, owner>>

Enqueue ==
  /\ intents' = Append(intents, [ordinal |-> ordinal, gs |-> Mine.gs,
                                 target |-> Mine.layer + 1])
  /\ ordinal' = ordinal + 1
  /\ fate' = [fate EXCEPT ![MyKey] = "predicted"]
  /\ Step("count")
  /\ UNCHANGED <<disabled, ctr>>

(* Under int_mu: the guess gets its number with its place in the queue; a   *)
(* full queue switches prefetching off for the request the guess is of.     *)
PublishUncounted ==
  /\ worker.pc = "publish"
  /\ \/ Len(intents) < IntentCap /\ Enqueue
     \/ /\ Len(intents) >= IntentCap
        /\ disabled' = Mine.req
        /\ fate' = [fate EXCEPT ![MyKey] = "overflow"]
        /\ Step("tell") /\ UNCHANGED <<intentVars, ctr>>
  /\ UNCHANGED <<request, graph, graphs, hook, capVars, tellVars, rowVars, stopVars, disp,
                 owner>>
PublishBlamesCurrent ==
  /\ worker.pc = "publish"
  /\ \/ Len(intents) < IntentCap /\ Enqueue
     \/ /\ Len(intents) >= IntentCap
        /\ disabled' = request
        /\ Count("overflow") /\ fate' = [fate EXCEPT ![MyKey] = "overflow"]
        /\ Step("tell") /\ UNCHANGED intentVars
  /\ UNCHANGED <<request, graph, graphs, hook, capVars, tellVars, rowVars, stopVars, disp,
                 owner>>
Publish ==
  /\ worker.pc = "publish"
  /\ \/ Len(intents) < IntentCap /\ Enqueue
     \/ /\ Len(intents) >= IntentCap
        /\ disabled' = Mine.req
        /\ Count("overflow") /\ fate' = [fate EXCEPT ![MyKey] = "overflow"]
        /\ Step("tell") /\ UNCHANGED intentVars
  /\ UNCHANGED <<request, graph, graphs, hook, capVars, tellVars, rowVars, stopVars, disp,
                 owner>>

(* After int_mu: the counter, or the note of the overflow.                  *)
CountPredicted ==
  /\ worker.pc = "count" /\ Count("predicted") /\ Step("return")
  /\ UNCHANGED <<epochVars, hook, capVars, intentVars, tellVars, rowVars, stopVars,
                 disp, ghosts>>
TellOverflow ==
  /\ worker.pc = "tell"
  /\ Note(Mine.gs, Mine.layer + 1, "none", TRUE)
  /\ Step("return")
  /\ UNCHANGED <<epochVars, hook, capVars, intentVars, rowVars, ctr, stopVars, disp, ghosts>>

(* What a free slot still holds is of no interest.                          *)
ReturnSlot ==
  /\ worker.pc = "return" /\ CapMuFree
  /\ free' = free \cup {worker.slot}
  /\ content' = [content EXCEPT ![worker.slot] = NoCapture]
  /\ worker' = [pc |-> "wait", slot |-> NoSlot]
  /\ UNCHANGED <<epochVars, hook, seen, ring, intentVars, tellVars, rowVars,
                 ctr, stopVars, disp, ghosts>>

-----------------------------------------------------------------------------
(* pb_row_locked: the row of a layer is made by its acquire or by its       *)
(* intent, whichever comes first, and takes up what was noted before.       *)
Made      == {k \in Keys : row[k].made}
MailNote(k) == IF mailbox.gs = k[1] THEN mailbox.note[k[2]] ELSE NoNote
NewRow(k) ==
  LET r == IF pending[k].held /\ pending[k].reason # "none" THEN pending[k].reason
           ELSE MailNote(k).reason
  IN [made |-> TRUE, intent |-> FALSE,
      reason |-> IF k[2] = 1 THEN "noSource" ELSE IF r # "none" THEN r ELSE "sourceRange",
      overflow |-> MailNote(k).overflow \/ pending[k].overflow]
TheRow(k) == IF row[k].made THEN row[k] ELSE NewRow(k)

(* The caller writes r into the row; without room nothing is made and the   *)
(* run is told to be incomplete.                                            *)
WithRow(k, r) ==
  IF ~row[k].made /\ Cardinality(Made) >= RowCap
  THEN incomplete' = incomplete \cup {"RECORD_DROP"} /\ UNCHANGED rowVars
  ELSE /\ row' = [row EXCEPT ![k] = r]
       /\ pending' = IF row[k].made THEN pending ELSE [pending EXCEPT ![k] = NoNote]
       /\ UNCHANGED incomplete

DispatcherOn == disp.pc # "exited"

(* The canonical acquire of a layer.                                        *)
AcquireRow ==
  /\ DispatcherOn /\ hook.pc = "acquire"
  /\ WithRow(<<graph, hook.layer>>, TheRow(<<graph, hook.layer>>))
  /\ hook' = Onward
  /\ UNCHANGED <<epochVars, capVars, worker, intentVars, mailbox, status, ctr,
                 stopVars, disp, ghosts>>

(* pb_admit_locked: the oldest intent is popped and bound to its row.       *)
TakeIntent ==
  /\ intents # <<>>
  /\ intents' = Tail(intents)
  /\ LET k == <<Head(intents).gs, Head(intents).target>>
     IN WithRow(k, [TheRow(k) EXCEPT !.intent = TRUE, !.reason = "none"])
  /\ UNCHANGED <<epochVars, hook, capVars, worker, ordinal, mailbox, status, ctr,
                 stopVars, ghosts>>
Admit == disp.pc = "run" /\ TakeIntent /\ UNCHANGED disp

(* pb_drain_status_locked, one note: into the row, or kept for it; a note   *)
(* for a target that is no layer is dropped.                                *)
PopStatus ==
  /\ status # <<>>
  /\ status' = Tail(status)
  /\ LET e == Head(status)
         k == <<e.gs, e.target>>
     IN IF e.target \notin Targets THEN UNCHANGED <<rowVars, incomplete>>
        ELSE IF row[k].made
        THEN /\ row' = [row EXCEPT ![k].reason =
                          IF e.reason # "none" /\ ~row[k].intent THEN e.reason ELSE @,
                        ![k].overflow = @ \/ e.overflow]
             /\ UNCHANGED <<pending, incomplete>>
        ELSE IF ~pending[k].held /\ Cardinality({p \in Keys : pending[p].held}) >= PendingCap
        THEN incomplete' = incomplete \cup {"PENDING_CAP"} /\ UNCHANGED rowVars
        ELSE /\ pending' = [pending EXCEPT ![k] =
                  [held |-> TRUE, reason |-> IF e.reason # "none" THEN e.reason ELSE @.reason,
                   overflow |-> @.overflow \/ e.overflow]]
             /\ UNCHANGED <<row, incomplete>>
  /\ UNCHANGED <<epochVars, hook, capVars, worker, intentVars, mailbox, ctr, stopVars,
                 disp, ghosts>>
DrainStatus == DispatcherOn /\ PopStatus

(* The graceful tail of a turn: has the predictor finished?  Then all       *)
(* intents that are left, then the end, if it had finished before.          *)
PredictorDrained == ~running \/ latch
SeeDrained ==
  /\ disp.pc = "run" /\ stopping
  /\ disp' = [pc |-> "tail", predDone |-> PredictorDrained]
  /\ UNCHANGED <<epochVars, hook, capVars, worker, intentVars, tellVars, rowVars,
                 ctr, stopVars, ghosts>>
CutAdmit == disp.pc = "tail" /\ TakeIntent /\ UNCHANGED disp
DispatcherLeaveUnasked ==
  /\ disp.pc = "tail" /\ intents = <<>>
  /\ disp' = [disp EXCEPT !.pc = "exited"]
  /\ UNCHANGED <<epochVars, hook, capVars, worker, intentVars, tellVars, rowVars,
                 ctr, stopVars, ghosts>>
DispatcherLeave ==
  /\ disp.pc = "tail" /\ intents = <<>>
  /\ disp' = [disp EXCEPT !.pc = IF disp.predDone THEN "exited" ELSE "run"]
  /\ UNCHANGED <<epochVars, hook, capVars, worker, intentVars, tellVars, rowVars,
                 ctr, stopVars, ghosts>>

-----------------------------------------------------------------------------
(* A bounded drain of the store, or finalize, which waits for the worker    *)
(* without a bound; both close the captures under cap_mu first.             *)
CloseUnlocked(bounded) ==
  /\ closer.pc = "open" \/ (closer.pc \in {"gaveUp", "drained"} /\ ~bounded)
  /\ cut' = TRUE
  /\ closer' = [pc |-> IF bounded THEN "idle" ELSE "askDisp", bounded |-> bounded]
  /\ UNCHANGED <<epochVars, hook, capVars, worker, intentVars, tellVars, rowVars, ctr,
                 workerStop, running, latch, timedOut, stopping, disp, ghosts>>
CloseCapture(bounded) ==
  /\ closer.pc = "open" \/ (closer.pc \in {"gaveUp", "drained"} /\ ~bounded)
  /\ CapMuFree
  /\ cut' = TRUE
  /\ closer' = [pc |-> IF bounded THEN "idle" ELSE "askDisp", bounded |-> bounded]
  /\ UNCHANGED <<epochVars, hook, capVars, worker, intentVars, tellVars, rowVars, ctr,
                 workerStop, running, latch, timedOut, stopping, disp, ghosts>>

CloserStep(from, to) == closer.pc = from /\ closer' = [closer EXCEPT !.pc = to]
BystandersOfStop == UNCHANGED <<epochVars, hook, capVars, worker, intentVars, tellVars,
                                rowVars, ctr, disp, ghosts, cut>>

(* finalize asks the dispatcher to stop before it drains the predictor.     *)
AskDispatcher ==
  /\ CloserStep("askDisp", "idle") /\ stopping' = TRUE
  /\ BystandersOfStop /\ UNCHANGED <<workerStop, running, latch, timedOut>>

(* The wait for idle captures ends with them or after 10 s: the outcome is  *)
(* not looked at.                                                           *)
IdleWaitEnds ==
  /\ CloserStep("idle", "stop") /\ CapMuFree
  /\ BystandersOfStop /\ UNCHANGED <<workerStop, running, latch, timedOut, stopping>>

(* pb_worker_stop_join_until; nothing is tidied up after a time-out.        *)
StopWorker ==
  /\ CloserStep("stop", IF running THEN "join" ELSE "joined")
  /\ running => CapMuFree
  /\ workerStop' = (workerStop \/ running)
  /\ BystandersOfStop /\ UNCHANGED <<running, latch, timedOut, stopping>>
JoinWorker ==
  /\ CloserStep("join", "joined") /\ worker.pc = "ended"
  /\ running' = FALSE
  /\ BystandersOfStop /\ UNCHANGED <<workerStop, latch, timedOut, stopping>>
JoinTimesOut ==
  /\ CloserStep("join", "gaveUp") /\ closer.bounded
  /\ timedOut' = TRUE
  /\ BystandersOfStop /\ UNCHANGED <<workerStop, running, latch, stopping>>
SetLatch ==
  /\ CloserStep("joined", "stopDisp") /\ latch' = TRUE
  /\ BystandersOfStop /\ UNCHANGED <<workerStop, running, timedOut, stopping>>

(* dispatcher_stop_and_join_until: not entered again after a time-out, and  *)
(* finite in finalize, too.                                                 *)
StopDispatcher ==
  /\ CloserStep("stopDisp", IF timedOut THEN "patch" ELSE "joinDisp")
  /\ stopping' = (stopping \/ ~timedOut)
  /\ BystandersOfStop /\ UNCHANGED <<workerStop, running, latch, timedOut>>
JoinDispatcher ==
  /\ disp.pc = "exited"
  /\ CloserStep("joinDisp", IF closer.bounded THEN "drained" ELSE "patch")
  /\ BystandersOfStop /\ UNCHANGED <<workerStop, running, latch, timedOut, stopping>>
JoinDispatcherTimesOut ==
  /\ CloserStep("joinDisp", IF closer.bounded THEN "gaveUp" ELSE "patch")
  /\ disp.pc # "exited"
  /\ timedOut' = TRUE
  /\ BystandersOfStop /\ UNCHANGED <<workerStop, running, latch, stopping>>

(* finalize: the last notes reach their rows, then the rows are written.    *)
Patch == closer.pc = "patch" /\ PopStatus
EncodeUnpatched ==
  /\ CloserStep("patch", "encoded")
  /\ BystandersOfStop /\ UNCHANGED <<workerStop, running, latch, timedOut, stopping>>
Encode ==
  /\ CloserStep("patch", "encoded") /\ status = <<>>
  /\ BystandersOfStop /\ UNCHANGED <<workerStop, running, latch, timedOut, stopping>>

-----------------------------------------------------------------------------
Compute    == \/ Enable \/ HookRead \/ HookEnter \/ HookDecide \/ HookRegister
              \/ GraphEnd \/ AcquireRefused
Predictor  == \/ WorkerTake \/ WorkerEnd \/ Judge \/ Publish \/ CountPredicted
              \/ TellOverflow \/ ReturnSlot
Dispatcher == \/ AcquireRow \/ Admit \/ DrainStatus \/ SeeDrained \/ CutAdmit
              \/ DispatcherLeave
Closer     == \/ AskDispatcher \/ IdleWaitEnds \/ StopWorker \/ JoinWorker \/ JoinTimesOut
              \/ SetLatch \/ StopDispatcher \/ JoinDispatcher \/ JoinDispatcherTimesOut
              \/ Patch \/ Encode
Next == \/ RunBegin \/ GraphBegin \/ Compute \/ Predictor \/ Dispatcher
        \/ (\E b \in BOOLEAN : CloseCapture(b)) \/ Closer

Spec == Init /\ [][Next]_vars

-----------------------------------------------------------------------------
(* Every variable has its type.                                             *)
Notes == [held : BOOLEAN, reason : Reasons, overflow : BOOLEAN]
TypeOK ==
  /\ request \in 0..MaxRequests /\ disabled \in 0..MaxRequests
  /\ graph \in 0..MaxGraphs /\ graphs \in 0..MaxGraphs
  /\ hook \in [pc : {"between", "enable", "hook", "enter", "decide", "register",
                     "acquire", "end", "off"},
               layer : Targets, part : 1..Parts, req : 0..MaxRequests, gs : 0..MaxGraphs]
  /\ seen \subseteq Targets /\ free \subseteq Slots /\ ring \in Seq(Slots)
  /\ content \in [Slots -> [req : 0..MaxRequests, gs : 0..MaxGraphs, layer : 0..Layers]]
  /\ worker \in [pc : {"wait", "judge", "publish", "count", "tell", "return", "ended"},
                 slot : Slots \cup {NoSlot}]
  /\ intents \in Seq([ordinal : Nat, gs : Graphs, target : Targets]) /\ ordinal \in Nat
  /\ mailbox \in [gs : 0..MaxGraphs, note : [Targets -> Notes]]
  /\ status \in Seq([gs : Graphs, target : 1..(Layers + 1), reason : Reasons,
                     overflow : BOOLEAN])
  /\ row \in [Keys -> [made : BOOLEAN, intent : BOOLEAN, reason : Reasons,
                       overflow : BOOLEAN]]
  /\ pending \in [Keys -> Notes]
  /\ incomplete \subseteq {"RING_OVERFLOW", "RECORD_DROP", "PENDING_CAP"}
  /\ ctr \in [{"captured", "predicted", "overflow", "nonfinite"} -> Nat]
  /\ {cut, workerStop, running, latch, timedOut, stopping} \subseteq BOOLEAN
  /\ closer \in [pc : {"open", "askDisp", "idle", "stop", "join", "joined", "gaveUp",
                       "stopDisp", "joinDisp", "drained", "patch", "encoded"},
                 bounded : BOOLEAN]
  /\ disp \in [pc : {"run", "tail", "exited"}, predDone : BOOLEAN]
  /\ fate \in [Keys -> Reasons \cup {"queued", "predicted", "overflow"}]
  /\ owner \in [Graphs -> 0..MaxRequests]

Queued == {ring[i] : i \in DOMAIN ring}
Busy   == IF worker.slot = NoSlot THEN {} ELSE {worker.slot}

(* The counters of the wire agree at every moment with where the captures   *)
(* are: guessed, not a number, refused by a full queue, waiting or with the *)
(* worker.  No capture is lost, also not by a shutdown.                     *)
CapturesAccounted ==
  ctr.captured = ctr.predicted + ctr.overflow + ctr.nonfinite + Len(ring)
                 + (IF worker.pc \in {"judge", "publish", "count"} THEN 1 ELSE 0)

(* The cut is where the observations end: a hook that wakes up after it     *)
(* captures nothing, counts nothing and notes nothing.                      *)
CutIsFinal ==
  [][cut => /\ ctr'.captured = ctr.captured /\ seen' \subseteq seen
            /\ \A k \in Keys : fate[k] = "none" => fate'[k] = "none"]_vars

(* Prefetching is off for the current request exactly if the worker could   *)
(* not queue a guess of it: a late guess of an earlier request does not     *)
(* switch off this one, and the switch is not forgotten while it runs.      *)
DisabledIsOwn ==
  request # 0 =>
    (disabled = request <=> \E k \in Keys : fate[k] = "overflow" /\ owner[k[1]] = request)

(* The dispatcher leaves no guess behind: when it has exited none is queued *)
(* and the predictor cannot queue another.                                  *)
NoIntentLeftBehind ==
  disp.pc = "exited" => intents = <<>> /\ worker.pc = "ended" /\ ring = <<>>

(* What a row has to say, given what became of the capture one layer        *)
(* before.                                                                  *)
Truthful(r, f) ==
  CASE f = "predicted" -> r.intent /\ r.reason = "none"
    [] f = "overflow"  -> ~r.intent /\ r.overflow /\ r.reason = "sourceRange"
    [] f = "none"      -> ~r.intent /\ ~r.overflow /\ r.reason = "sourceRange"
    [] OTHER           -> ~r.intent /\ ~r.overflow /\ r.reason = f

(* The rows that are written are complete or say that they are not: every   *)
(* guess has its row, and every row gives the reason why there is no guess, *)
(* however late the worker found out and whatever graph was current then.   *)
RowsTellTheTruth ==
  closer.pc = "encoded" /\ ~timedOut /\ incomplete = {} =>
    \A g \in Graphs, t \in 2..Layers :
      /\ fate[<<g, t - 1>>] = "predicted" => row[<<g, t>>].made
      /\ row[<<g, t>>].made => Truthful(row[<<g, t>>], fate[<<g, t - 1>>])

=============================================================================
