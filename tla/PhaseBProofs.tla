---------------------------- MODULE PhaseBProofs ----------------------------
(***************************************************************************)
(* The predictor, proved for every number of layers, parts, slots, graphs   *)
(* and requests and every size of its queues: first the captures, the       *)
(* switch and the shutdown, then what the rows say.                         *)
(***************************************************************************)
EXTENDS PhaseB, TLAPS

(* The captures the worker has not judged yet.                              *)
Unjudged == Queued \cup IF worker.pc \in {"judge", "publish"} THEN {worker.slot} ELSE {}
KeyOf(s) == <<content[s].gs, content[s].layer>>
InGraph  == {"hook", "enter", "decide", "register", "acquire", "end", "off"}

(* Where the slots are, and what the captures in them are about.            *)
SlotsApart ==
  /\ worker.pc \in {"wait", "ended"} <=> worker.slot = NoSlot
  /\ worker.slot \notin free /\ worker.slot \notin Queued
  /\ free \cap Queued = {}
  /\ \A i, j \in DOMAIN ring : ring[i] = ring[j] => i = j
CapturesKnown ==
  /\ \A s \in Queued \cup Busy : /\ content[s].gs \in 1..graphs
                                 /\ content[s].layer \in 1..(Layers - 1)
                                 /\ content[s].req = owner[content[s].gs]
  /\ \A s \in Unjudged : fate[KeyOf(s)] = "queued"
  /\ \A s, t \in Unjudged : KeyOf(s) = KeyOf(t) => s = t

(* What the hook knows, and that a layer is observed once.                  *)
HookKnows ==
  /\ graph # 0 <=> hook.pc \in InGraph
  /\ graph <= graphs /\ (graph # 0 => owner[graph] = request)
  /\ hook.pc \in {"enter", "decide", "register"} => hook.gs = graph /\ hook.req = request
  /\ hook.pc = "register" => hook.layer < Layers
  /\ hook.pc \in {"decide", "register"} =>
       hook.layer \in seen /\ fate[<<graph, hook.layer>>] = "none"
  /\ hook.pc = "enable" => request # 0 /\ \A g \in Graphs : owner[g] # request
FateKnown ==
  /\ \A t \in Targets : graph # 0 /\ t \notin seen => fate[<<graph, t>>] = "none"
  /\ \A g \in Graphs : owner[g] <= request
  /\ \A g \in Graphs, t \in Targets : g > graphs => fate[<<g, t>>] = "none"

(* The worker judges the captures in the order of their requests, and once  *)
(* prefetching is off for the current one no earlier one is left to judge.  *)
SwitchInOrder ==
  /\ disabled <= request
  /\ \A i, j \in DOMAIN ring : i < j => content[ring[i]].req <= content[ring[j]].req
  /\ worker.pc \in {"judge", "publish"} =>
       \A i \in DOMAIN ring : content[worker.slot].req <= content[ring[i]].req
  /\ disabled = request /\ request # 0 => \A s \in Unjudged : content[s].req = request

(* The order of a shutdown: the cut, the end of the worker, the latch, the  *)
(* exit of the dispatcher.                                                  *)
StopInOrder ==
  /\ cut => CapMuFree
  /\ closer.pc # "open" => cut
  /\ workerStop => cut
  /\ worker.pc = "ended" => ring = <<>> /\ workerStop
  /\ ~running => worker.pc = "ended"
  /\ closer.pc = "joined" => ~running
  /\ latch => ~running
  /\ disp.predDone => worker.pc = "ended"
  /\ disp.pc = "exited" => intents = <<>> /\ disp.predDone

NoteType == [gs : Graphs, target : 1..(Layers + 1), reason : Reasons, overflow : BOOLEAN]
RowType  == [made : BOOLEAN, intent : BOOLEAN, reason : Reasons, overflow : BOOLEAN]
HookType == [pc : {"between", "enable", "hook", "enter", "decide", "register",
                   "acquire", "end", "off"},
             layer : Targets, part : 1..Parts, req : 0..MaxRequests, gs : 0..MaxGraphs]

(* The type invariant, in parts.                                            *)
EpochTypes ==
  /\ request \in 0..MaxRequests /\ disabled \in 0..MaxRequests
  /\ graph \in 0..MaxGraphs /\ graphs \in 0..MaxGraphs
  /\ hook \in HookType /\ seen \subseteq Targets
  /\ fate \in [Keys -> Reasons \cup {"queued", "predicted", "overflow"}]
  /\ owner \in [Graphs -> 0..MaxRequests]
SlotTypes ==
  /\ free \subseteq Slots /\ ring \in Seq(Slots)
  /\ content \in [Slots -> [req : 0..MaxRequests, gs : 0..MaxGraphs, layer : 0..Layers]]
  /\ worker \in [pc : {"wait", "judge", "publish", "count", "tell", "return", "ended"},
                 slot : Slots \cup {NoSlot}]
  /\ ctr \in [{"captured", "predicted", "overflow", "nonfinite"} -> Nat]
TellTypes ==
  /\ intents \in Seq([ordinal : Nat, gs : Graphs, target : Targets]) /\ ordinal \in Nat
  /\ mailbox \in [gs : 0..MaxGraphs, note : [Targets -> Notes]]
  /\ status \in Seq(NoteType)
  /\ row \in [Keys -> RowType] /\ pending \in [Keys -> Notes]
  /\ incomplete \subseteq {"RING_OVERFLOW", "RECORD_DROP", "PENDING_CAP"}
StopTypes ==
  /\ {cut, workerStop, running, latch, timedOut, stopping} \subseteq BOOLEAN
  /\ closer \in [pc : {"open", "askDisp", "idle", "stop", "join", "joined", "gaveUp",
                       "stopDisp", "joinDisp", "drained", "patch", "encoded"},
                 bounded : BOOLEAN]
  /\ disp \in [pc : {"run", "tail", "exited"}, predDone : BOOLEAN]

obsVars == <<epochVars, hook, capVars, worker, ctr, ghosts>>
ObservationInv ==
  /\ EpochTypes /\ SlotTypes /\ SlotsApart /\ CapturesKnown /\ HookKnows /\ FateKnown
  /\ SwitchInOrder /\ DisabledIsOwn /\ CapturesAccounted
PredictorInv == ObservationInv /\ TellTypes /\ StopTypes /\ StopInOrder

-----------------------------------------------------------------------------
(* What a capture or an intent does to the places of a queue.               *)
LEMMA QueueGrows ==
  ASSUME NEW S, NEW s \in Seq(S), NEW c \in S
  PROVE  /\ Append(s, c) \in Seq(S) /\ Len(Append(s, c)) = Len(s) + 1
         /\ DOMAIN Append(s, c) = DOMAIN s \cup {Len(s) + 1}
         /\ \A i \in DOMAIN s : i < Len(s) + 1 /\ Append(s, c)[i] = s[i]
         /\ Append(s, c)[Len(s) + 1] = c
OBVIOUS

(* What taking the oldest one does to them.                                 *)
LEMMA QueueShrinks ==
  ASSUME NEW S, NEW s \in Seq(S), s # <<>>
  PROVE  /\ Tail(s) \in Seq(S) /\ Len(s) = Len(Tail(s)) + 1
         /\ Head(s) = s[1] /\ Head(s) \in S /\ 1 \in DOMAIN s
         /\ \A i \in DOMAIN Tail(s) : /\ i + 1 \in DOMAIN s /\ 1 < i + 1
                                       /\ Tail(s)[i] = s[i + 1]
         /\ \A i, j \in DOMAIN Tail(s) : (i < j => i + 1 < j + 1) /\ (i + 1 = j + 1 => i = j)
OBVIOUS

(* The types of what a note changes.                                        *)
LEMMA NoteTypes ==
  ASSUME TypeOK, NEW g \in Graphs, NEW t \in 1..(Layers + 1), NEW r \in Reasons,
         NEW o \in BOOLEAN, Note(g, t, r, o)
  PROVE  /\ mailbox' \in [gs : 0..MaxGraphs, note : [Targets -> Notes]]
         /\ status' \in Seq(NoteType)
         /\ incomplete' \subseteq {"RING_OVERFLOW", "RECORD_DROP", "PENDING_CAP"}
<1>1. mailbox' \in [gs : 0..MaxGraphs, note : [Targets -> Notes]]
  <2>1. CASE mailbox.gs = g /\ t \in Targets
    <3> DEFINE n == Marked(mailbox.note[t], r, o)
    <3>1. mailbox.note[t] \in Notes
      BY <2>1 DEF TypeOK
    <3>2. n \in Notes
      BY <3>1 DEF Notes, Marked
    <3>3. mailbox' = [mailbox EXCEPT !.note[t] = n]
      BY <2>1 DEF Note
    <3> QED
      BY <3>2, <3>3 DEF TypeOK
  <2>2. CASE ~(mailbox.gs = g /\ t \in Targets)
    BY <2>2 DEF Note, TypeOK
  <2> QED
    BY <2>1, <2>2
<1>2. status' \in Seq(NoteType)
  <2> DEFINE n == [gs |-> g, target |-> t, reason |-> r, overflow |-> o]
  <2>1. n \in NoteType /\ status \in Seq(NoteType)
    BY DEF NoteType, TypeOK
  <2>2. status' = Append(status, n) \/ status' = status
    BY DEF Note
  <2> HIDE DEF n
  <2> QED
    BY <2>1, <2>2, QueueGrows
<1>3. incomplete' \subseteq {"RING_OVERFLOW", "RECORD_DROP", "PENDING_CAP"}
  BY SMTT(30) DEF Note, TypeOK
<1> QED
  BY <1>1, <1>2, <1>3

(* A row that is looked up, or made, is a row.                              *)
LEMMA RowLookedUp ==
  ASSUME TypeOK, NEW k \in Keys
  PROVE  TheRow(k) \in RowType
<1>1. MailNote(k) \in Notes /\ pending[k] \in Notes /\ row[k] \in RowType
  BY DEF MailNote, TypeOK, Keys, NoNote, Notes, Reasons, RowType
<1>2. NewRow(k) \in RowType
  BY <1>1 DEF NewRow, Notes, RowType, Reasons
<1> QED
  BY <1>1, <1>2 DEF TheRow

(* The types of what the write of a row changes.                            *)
LEMMA RowTypes ==
  ASSUME TypeOK, NEW k \in Keys, NEW r \in RowType, WithRow(k, r)
  PROVE  /\ row' \in [Keys -> RowType] /\ pending' \in [Keys -> Notes]
         /\ incomplete' \subseteq {"RING_OVERFLOW", "RECORD_DROP", "PENDING_CAP"}
<1>1. NoNote \in Notes
  BY DEF NoNote, Notes, Reasons
<1>2. row \in [Keys -> RowType] /\ pending \in [Keys -> Notes]
  BY DEF TypeOK, RowType
<1>3. CASE ~row[k].made /\ Cardinality(Made) >= RowCap
  BY ZenonT(40), <1>2, <1>3 DEF WithRow, rowVars, TypeOK
<1>4. CASE ~(~row[k].made /\ Cardinality(Made) >= RowCap)
  <2>1. row' = [row EXCEPT ![k] = r] /\ incomplete' = incomplete
    BY <1>4 DEF WithRow
  <2>2. pending' = pending \/ pending' = [pending EXCEPT ![k] = NoNote]
    BY <1>4 DEF WithRow
  <2>3. row' \in [Keys -> RowType]
    BY <1>2, <2>1
  <2>4. pending' \in [Keys -> Notes]
    BY <1>1, <1>2, <2>2
  <2> QED
    BY <2>1, <2>3, <2>4 DEF TypeOK
<1> QED
  BY <1>3, <1>4

(* The types of what becomes of a note that is taken from the ring.         *)
LEMMA PopTypes ==
  ASSUME TypeOK, PopStatus
  PROVE  /\ row' \in [Keys -> RowType] /\ pending' \in [Keys -> Notes]
         /\ status' \in Seq(NoteType)
         /\ incomplete' \subseteq {"RING_OVERFLOW", "RECORD_DROP", "PENDING_CAP"}
<1> DEFINE e == Head(status)
           k == <<e.gs, e.target>>
<1>1. e \in NoteType /\ status' \in Seq(NoteType)
  <2>1. status \in Seq(NoteType)
    BY DEF NoteType, TypeOK
  <2> QED
    BY <2>1, QueueShrinks DEF PopStatus
<1>0. row \in [Keys -> RowType] /\ pending \in [Keys -> Notes]
  BY DEF TypeOK, RowType
<1>2. CASE e.target \notin Targets
  BY ZenonT(40), <1>0, <1>1, <1>2 DEF PopStatus, rowVars, TypeOK
<1>3. CASE e.target \in Targets
  <2>1. k \in Keys
    BY <1>1, <1>3 DEF Keys, NoteType
  <2>2. row[k] \in RowType /\ pending[k] \in Notes
    BY <2>1 DEF TypeOK, RowType
  <2>3. CASE row[k].made
    <3> DEFINE new == [row[k] EXCEPT !.reason = IF e.reason # "none" /\ ~row[k].intent
                                                THEN e.reason ELSE @,
                                     !.overflow = @ \/ e.overflow]
    <3>1. new \in RowType
      BY <1>1, <2>2 DEF RowType, NoteType
    <3>2. /\ row' = [row EXCEPT ![k].reason =
                       IF e.reason # "none" /\ ~row[k].intent THEN e.reason ELSE @,
                     ![k].overflow = @ \/ e.overflow]
          /\ UNCHANGED <<pending, incomplete>>
      BY <1>3, <2>3 DEF PopStatus
    <3>3. row' = [row EXCEPT ![k] = new]
      BY <2>1, <2>2, <3>2 DEF TypeOK, RowType
    <3>4. incomplete' \subseteq {"RING_OVERFLOW", "RECORD_DROP", "PENDING_CAP"}
      BY <3>2 DEF TypeOK
    <3> HIDE DEF new
    <3>5. row' \in [Keys -> RowType]
      BY <1>0, <2>1, <3>1, <3>3
    <3> QED
      BY <1>0, <1>1, <3>2, <3>4, <3>5
  <2>4. CASE ~row[k].made
    <3> DEFINE new == [held |-> TRUE,
                       reason |-> IF e.reason # "none" THEN e.reason ELSE pending[k].reason,
                       overflow |-> pending[k].overflow \/ e.overflow]
    <3>1. new \in Notes
      BY <1>1, <2>2 DEF Notes, NoteType
    <3>2. \/ incomplete' = incomplete \cup {"PENDING_CAP"} /\ UNCHANGED rowVars
          \/ pending' = [pending EXCEPT ![k] = new] /\ UNCHANGED <<row, incomplete>>
      BY <1>3, <2>1, <2>4 DEF PopStatus, TypeOK
    <3>3. incomplete' \subseteq {"RING_OVERFLOW", "RECORD_DROP", "PENDING_CAP"}
      BY ZenonT(40), <3>2 DEF TypeOK
    <3> HIDE DEF new
    <3>4. pending' \in [Keys -> Notes] /\ row' = row
      BY <1>0, <2>1, <3>1, <3>2 DEF rowVars
    <3> QED
      BY <1>0, <1>1, <3>3, <3>4
  <2> QED
    BY <2>3, <2>4
<1> QED
  BY <1>2, <1>3

(* The parts are the type invariant.                                        *)
LEMMA TypesInParts == TypeOK <=> EpochTypes /\ SlotTypes /\ TellTypes /\ StopTypes
BY DEF TypeOK, EpochTypes, SlotTypes, TellTypes, StopTypes, HookType, NoteType, RowType

(* A step that leaves the observations alone keeps what is known of them.   *)
LEMMA ObservationsUntouched ==
  ASSUME ObservationInv, UNCHANGED obsVars
  PROVE  ObservationInv'
<1> USE DEF ObservationInv, obsVars, epochVars, capVars, ghosts
<1>1. EpochTypes' /\ SlotTypes'
  BY DEF EpochTypes, SlotTypes
<1>2. SlotsApart' /\ CapturesKnown'
  BY DEF SlotsApart, CapturesKnown, Queued, Busy, Unjudged, KeyOf
<1>3. HookKnows' /\ FateKnown'
  BY DEF HookKnows, FateKnown
<1>4. SwitchInOrder' /\ DisabledIsOwn' /\ CapturesAccounted'
  BY DEF SwitchInOrder, DisabledIsOwn, CapturesAccounted, Unjudged, Queued
<1> QED
  BY <1>1, <1>2, <1>3, <1>4

(* The hook goes on to another call, or ends.                               *)
LEMMA HookGoesOn ==
  ASSUME ObservationInv, hook' \in HookType, graph # 0,
         hook'.pc \in {"hook", "acquire", "end", "off"},
         UNCHANGED <<epochVars, capVars, worker, ctr, ghosts>>
  PROVE  ObservationInv'
<1> USE DEF ObservationInv, epochVars, capVars, ghosts
<1>1. EpochTypes' /\ SlotTypes'
  BY DEF EpochTypes, SlotTypes
<1>2. SlotsApart' /\ CapturesKnown'
  BY DEF SlotsApart, CapturesKnown, Queued, Busy, Unjudged, KeyOf
<1>3. HookKnows' /\ FateKnown'
  BY DEF HookKnows, FateKnown, InGraph
<1>4. SwitchInOrder' /\ DisabledIsOwn' /\ CapturesAccounted'
  BY DEF SwitchInOrder, DisabledIsOwn, CapturesAccounted, Unjudged, Queued
<1> QED
  BY <1>1, <1>2, <1>3, <1>4

(* The places the hook can return to are places of the hook.                *)
LEMMA HookPlaces ==
  ASSUME hook \in HookType
  PROVE  /\ Onward \in HookType /\ Onward.pc \in {"hook", "end"}
         /\ Returned \in HookType /\ Returned.pc \in {"acquire", "hook", "end"}
<1> USE PhaseBAssumption DEF HookType, Targets
<1>1. Onward \in HookType /\ Onward.pc \in {"hook", "end"}
  BY DEF Onward, At
<1> QED
  BY <1>1 DEF Returned, At

(* A step that leaves the queues and the rows alone keeps their types.      *)
LEMMA TellUntouched ==
  ASSUME TellTypes, UNCHANGED <<intentVars, tellVars, rowVars>>
  PROVE  TellTypes'
BY DEF TellTypes, intentVars, tellVars, rowVars

(* The initial state satisfies the invariant.                               *)
LEMMA PredictorInit == Init => PredictorInv
<1> SUFFICES ASSUME Init PROVE PredictorInv
  OBVIOUS
<1> USE PhaseBAssumption DEF Init
<1>1. EpochTypes
  BY DEF EpochTypes, HookType, Targets, Reasons
<1>2. SlotTypes
  BY DEF SlotTypes, NoCapture
<1>3. TellTypes
  BY DEF TellTypes, Blank, NoNote, NoRow, Notes, RowType, Reasons
<1>4. StopTypes /\ StopInOrder
  BY DEF StopTypes, StopInOrder
<1>5. SlotsApart /\ CapturesKnown
  BY DEF SlotsApart, CapturesKnown, Queued, Busy, Unjudged
<1>6. HookKnows /\ FateKnown
  BY DEF HookKnows, FateKnown, InGraph, Keys
<1>7. SwitchInOrder /\ DisabledIsOwn /\ CapturesAccounted
  BY DEF SwitchInOrder, DisabledIsOwn, CapturesAccounted
<1> QED
  BY <1>1, <1>2, <1>3, <1>4, <1>5, <1>6, <1>7 DEF PredictorInv, ObservationInv

(* The captures in the slots are of layers of graphs that have begun.       *)
LEMMA KeysOfCaptures ==
  ASSUME ObservationInv
  PROVE  /\ Unjudged \subseteq Queued \cup Busy /\ Queued \cup Busy \subseteq Slots
         /\ \A s \in Queued \cup Busy :
              content[s].gs \in Graphs /\ content[s].layer \in Targets /\ KeyOf(s) \in Keys
<1> USE PhaseBAssumption DEF ObservationInv
<1>1. Unjudged \subseteq Queued \cup Busy
  BY DEF Unjudged, Busy, SlotsApart
<1>2. Queued \cup Busy \subseteq Slots
  BY SMTT(30) DEF Queued, Busy, SlotTypes
<1>3. \A s \in Queued \cup Busy : content[s].gs \in Graphs /\ content[s].layer \in Targets
  BY SMTT(30) DEF CapturesKnown, EpochTypes, Graphs, Targets
<1> QED
  BY <1>1, <1>2, <1>3 DEF KeyOf, Keys

(* The order of a shutdown survives the steps of the hook.                  *)
LEMMA StopDespiteHook ==
  ASSUME StopTypes, StopInOrder, UNCHANGED <<stopVars, disp, intents, worker, ring>>,
         hook'.pc \notin {"decide", "register"} \/ ~cut
  PROVE  StopTypes' /\ StopInOrder'
BY DEF StopTypes, StopInOrder, stopVars, CapMuFree

(* The hook refuses a capture and says why.                                 *)
LEMMA SkipStep ==
  ASSUME PredictorInv, hook.pc \in {"decide", "register"},
         NEW r \in {"disabled", "ineligible", "sourceRange", "queueFull"}, Skip(r),
         UNCHANGED <<epochVars, capVars, worker, intentVars, rowVars, ctr, stopVars, disp,
                     owner>>
  PROVE  PredictorInv'
<1> USE PhaseBAssumption DEF PredictorInv, ObservationInv, epochVars, capVars
<1> DEFINE key == <<hook.gs, hook.layer>>
<1>1. /\ hook.gs = graph /\ graph \in Graphs /\ key \in Keys /\ hook.layer \in Targets
      /\ fate[key] = "none" /\ hook.layer \in seen
  <2>1. hook.gs = graph /\ graph # 0 /\ fate[<<graph, hook.layer>>] = "none" /\ hook.layer \in seen
    BY DEF HookKnows, InGraph
  <2>2. graph \in Graphs /\ hook.layer \in Targets
    BY <2>1 DEF EpochTypes, HookType, Graphs
  <2> QED
    BY <2>1, <2>2 DEF Keys
<1>2. /\ hook' \in HookType /\ hook'.pc \in {"acquire", "hook", "end"}
      /\ fate' = [fate EXCEPT ![key] = r]
  BY HookPlaces DEF Skip, EpochTypes
<1>3. fate'[key] = r /\ \A k \in Keys : k # key => fate'[k] = fate[k]
  BY <1>1, <1>2 DEF EpochTypes
<1>4. EpochTypes' /\ SlotTypes'
  BY <1>1, <1>2 DEF EpochTypes, SlotTypes, Reasons
<1>5. TellTypes'
  <2>1. Note(hook.gs, hook.layer + 1, r, FALSE)
    BY DEF Skip
  <2>2. hook.layer + 1 \in 1..(Layers + 1) /\ r \in Reasons
    BY <1>1 DEF Targets, Reasons
  <2> QED
    BY <1>1, <2>1, <2>2, NoteTypes, TypesInParts DEF TellTypes, intentVars, rowVars
<1>6. StopTypes' /\ StopInOrder'
  BY <1>2, StopDespiteHook DEF intentVars
<1>7. SlotsApart' /\ CapturesAccounted'
  BY DEF SlotsApart, Queued, CapturesAccounted
<1>8. CapturesKnown'
  <2>1. /\ Unjudged' = Unjudged /\ Queued' = Queued /\ Busy' = Busy
        /\ \A s : KeyOf(s)' = KeyOf(s)
    BY DEF Unjudged, Queued, Busy, KeyOf
  <2>2. \A s \in Unjudged : KeyOf(s) \in Keys
    BY KeysOfCaptures
  <2>3. \A s \in Unjudged : fate'[KeyOf(s)] = "queued"
    BY <1>1, <1>3, <2>2 DEF CapturesKnown
  <2> QED
    BY <2>1, <2>3 DEF CapturesKnown
<1>9. HookKnows'
  BY <1>1, <1>2 DEF HookKnows, InGraph
<1>10. FateKnown'
  <2>1. \A g \in Graphs, t \in Targets : <<g, t>> \in Keys
    BY DEF Keys
  <2>2. graph <= graphs
    BY DEF HookKnows
  <2>3. \A g \in Graphs, t \in Targets : <<g, t>> # key => fate'[<<g, t>>] = fate[<<g, t>>]
    BY <1>3, <2>1
  <2>4. \A t \in Targets : t \notin seen => <<graph, t>> # key
    BY <1>1
  <2>5. \A g \in Graphs, t \in Targets : g > graphs => <<g, t>> # key
    BY <1>1, <2>2 DEF EpochTypes, Graphs
  <2> QED
    BY <1>1, <2>3, <2>4, <2>5 DEF FateKnown
<1>11. SwitchInOrder'
  BY DEF SwitchInOrder, Unjudged, Queued
<1>12. DisabledIsOwn'
  BY <1>1, <1>3 DEF DisabledIsOwn
<1> QED
  BY <1>4, <1>5, <1>6, <1>7, <1>8, <1>9, <1>10, <1>11, <1>12

Counters == {"captured", "predicted", "overflow", "nonfinite"}

(* What counting does to the counters.                                      *)
LEMMA CountTypes ==
  ASSUME ctr \in [Counters -> Nat], NEW c \in Counters, Count(c)
  PROVE  /\ ctr' \in [Counters -> Nat] /\ ctr'[c] = ctr[c] + 1
         /\ \A d \in Counters : d # c => ctr'[d] = ctr[d]
BY DEF Count, Counters

(* The hook fills a free slot and queues it.                                *)
LEMMA RegisterStep ==
  ASSUME PredictorInv, hook.pc = "register", NEW s \in free,
         free' = free \ {s},
         content' = [content EXCEPT ![s] =
                       [req |-> hook.req, gs |-> hook.gs, layer |-> hook.layer]],
         ring' = Append(ring, s), Count("captured"),
         fate' = [fate EXCEPT ![<<hook.gs, hook.layer>>] = "queued"],
         hook' = Returned,
         UNCHANGED <<epochVars, seen, worker, intentVars, tellVars, rowVars, stopVars, disp,
                     owner>>
  PROVE  PredictorInv'
<1> USE PhaseBAssumption DEF PredictorInv, ObservationInv, epochVars
<1> DEFINE key == <<hook.gs, hook.layer>>
<1>1. /\ hook.gs = graph /\ graph \in 1..graphs /\ graph \in Graphs /\ key \in Keys
      /\ hook.layer \in Targets /\ hook.layer \in 1..(Layers - 1) /\ hook.layer \in seen
      /\ fate[key] = "none" /\ hook.req = request /\ owner[graph] = request
  <2>1. /\ hook.gs = graph /\ graph # 0 /\ fate[<<graph, hook.layer>>] = "none"
        /\ hook.layer \in seen /\ hook.req = request /\ owner[graph] = request
        /\ hook.layer < Layers /\ graph <= graphs
    BY DEF HookKnows, InGraph
  <2>2. graph \in Graphs /\ graph \in 1..graphs /\ hook.layer \in Targets
    BY <2>1 DEF EpochTypes, HookType, Graphs
  <2> QED
    BY <2>1, <2>2 DEF Keys, Targets
<1>2. /\ hook' \in HookType /\ hook'.pc \in {"acquire", "hook", "end"}
  BY HookPlaces DEF EpochTypes
<1>3. fate'[key] = "queued" /\ \A k \in Keys : k # key => fate'[k] = fate[k]
  BY <1>1 DEF EpochTypes
<1>4. s \in Slots /\ s # NoSlot /\ s \notin Queued /\ s # worker.slot /\ s \notin Busy
  BY DEF SlotsApart, SlotTypes, Busy
<1>5. /\ ring' \in Seq(Slots) /\ Len(ring') = Len(ring) + 1
      /\ DOMAIN ring' = DOMAIN ring \cup {Len(ring) + 1}
      /\ \A i \in DOMAIN ring : i < Len(ring) + 1 /\ ring'[i] = ring[i]
      /\ ring'[Len(ring) + 1] = s
  <2>1. ring \in Seq(Slots) /\ s \in Slots /\ ring' = Append(ring, s)
    BY <1>4 DEF SlotTypes
  <2> QED
    BY ONLY <2>1, QueueGrows
<1>6. Queued' = Queued \cup {s} /\ Busy' = Busy /\ Unjudged' = Unjudged \cup {s}
  <2>1. Queued' = Queued \cup {s}
    BY <1>5 DEF Queued
  <2> QED
    BY <2>1 DEF Busy, Unjudged
<1>7. /\ content'[s] = [req |-> hook.req, gs |-> hook.gs, layer |-> hook.layer]
      /\ \A t \in Slots \ {s} : content'[t] = content[t]
  BY <1>4 DEF SlotTypes
<1>8. /\ Unjudged \subseteq Queued \cup Busy /\ Queued \cup Busy \subseteq Slots
      /\ \A t \in Queued \cup Busy : t # s /\ content'[t] = content[t] /\ KeyOf(t) \in Keys
  BY <1>4, <1>7, KeysOfCaptures
<1>9. EpochTypes' /\ SlotTypes'
  <2>1. content'[s] \in [req : 0..MaxRequests, gs : 0..MaxGraphs, layer : 0..Layers]
    BY SMTT(30), <1>1, <1>7 DEF EpochTypes, HookType, Targets, Graphs
  <2>2. content' \in [Slots -> [req : 0..MaxRequests, gs : 0..MaxGraphs, layer : 0..Layers]]
    BY <1>4, <1>7, <2>1 DEF SlotTypes
  <2>3. ctr' \in [{"captured", "predicted", "overflow", "nonfinite"} -> Nat]
    BY CountTypes DEF SlotTypes, Counters
  <2>4. SlotTypes'
    BY <1>5, <2>2, <2>3 DEF SlotTypes
  <2> QED
    BY <1>1, <1>2, <2>4 DEF EpochTypes
<1>10. TellTypes'
  BY TellUntouched
<1>11. StopTypes' /\ StopInOrder'
  <2>1. ~cut /\ worker.pc # "ended"
    BY DEF StopInOrder, CapMuFree
  <2> QED
    BY <1>2, <2>1 DEF StopTypes, StopInOrder, stopVars, intentVars, CapMuFree
<1>12. SlotsApart'
  <2>1. \A i, j \in DOMAIN ring' : ring'[i] = ring'[j] => i = j
    BY <1>4, <1>5 DEF SlotsApart, Queued
  <2> QED
    BY <1>4, <1>6, <2>1 DEF SlotsApart
<1>13. CapturesAccounted'
  <2>1. /\ ctr'.captured = ctr.captured + 1 /\ ctr'.predicted = ctr.predicted
        /\ ctr'.overflow = ctr.overflow /\ ctr'.nonfinite = ctr.nonfinite
        /\ ctr.captured \in Nat /\ ctr.predicted \in Nat /\ ctr.overflow \in Nat
        /\ ctr.nonfinite \in Nat
    BY CountTypes DEF SlotTypes, Counters
  <2>2. Len(ring) \in Nat
    BY DEF SlotTypes
  <2>3. ctr.captured = ctr.predicted + ctr.overflow + ctr.nonfinite + Len(ring)
                       + (IF worker.pc \in {"judge", "publish", "count"} THEN 1 ELSE 0)
    BY DEF CapturesAccounted
  <2>4. Len(ring') = Len(ring) + 1 /\ worker' = worker
    BY <1>5
  <2> QED
    BY ONLY <2>1, <2>2, <2>3, <2>4 DEF CapturesAccounted
<1>14. CapturesKnown'
  <2>1. /\ content'[s].gs \in 1..graphs /\ content'[s].layer \in 1..(Layers - 1)
        /\ content'[s].req = owner[content'[s].gs]
    BY SMTT(30), <1>1, <1>7
  <2>2. \A t \in Unjudged : KeyOf(t)' = KeyOf(t) /\ KeyOf(t) \in Keys
    BY <1>8 DEF KeyOf
  <2>3. \A t \in Unjudged : fate[KeyOf(t)] = "queued" /\ KeyOf(t) # key
    BY <1>1 DEF CapturesKnown
  <2>4. KeyOf(s)' = key
    BY <1>7 DEF KeyOf
  <2>5. (\A t \in Unjudged : fate[KeyOf(t)] = "queued")'
    BY <1>3, <1>6, <2>2, <2>3, <2>4
  <2>6. (\A t, u \in Unjudged : KeyOf(t) = KeyOf(u) => t = u)'
    BY <1>6, <2>2, <2>3, <2>4 DEF CapturesKnown
  <2>7. (\A t \in Queued \cup Busy : /\ content[t].gs \in 1..graphs
                                   /\ content[t].layer \in 1..(Layers - 1)
                                   /\ content[t].req = owner[content[t].gs])'
    BY SMTT(30), <1>6, <1>8, <2>1 DEF CapturesKnown
  <2> QED
    BY <2>5, <2>6, <2>7 DEF CapturesKnown
<1>15. HookKnows'
  BY <1>1, <1>2 DEF HookKnows, InGraph
<1>16. FateKnown'
  <2>1. \A g \in Graphs, t \in Targets : <<g, t>> \in Keys
    BY DEF Keys
  <2>2. \A g \in Graphs, t \in Targets : <<g, t>> # key => fate'[<<g, t>>] = fate[<<g, t>>]
    BY <1>3, <2>1
  <2>3. \A t \in Targets : t \notin seen => <<graph, t>> # key
    BY <1>1
  <2>4. \A g \in Graphs, t \in Targets : g > graphs => <<g, t>> # key
    BY <1>1 DEF EpochTypes, Graphs
  <2> QED
    BY SMTT(30), <1>1, <2>2, <2>3, <2>4 DEF FateKnown
<1>17. content'[s].req = request /\ \A t \in Queued \cup Busy : content'[t].req <= request
  <2>1. \A t \in Queued \cup Busy : content[t].gs \in Graphs /\ content[t].req = owner[content[t].gs]
    BY KeysOfCaptures DEF CapturesKnown
  <2>2. \A t \in Queued \cup Busy : content'[t].req = owner[content[t].gs]
    BY <1>8, <2>1
  <2>3. \A g \in Graphs : owner[g] <= request
    BY DEF FateKnown
  <2>4. content'[s].req = request
    BY <1>1, <1>7
  <2> QED
    BY <2>1, <2>2, <2>3, <2>4
<1>18. SwitchInOrder'
  <2>1. \A i \in DOMAIN ring : ring[i] \in Queued
    BY DEF Queued
  <2>2. worker.pc \in {"judge", "publish"} => worker.slot \in Busy
    BY DEF SlotsApart, Busy
  <2>3. \A i, j \in DOMAIN ring' : i < j => content'[ring'[i]].req <= content'[ring'[j]].req
    <3> SUFFICES ASSUME NEW i \in DOMAIN ring', NEW j \in DOMAIN ring', i < j
                 PROVE  content'[ring'[i]].req <= content'[ring'[j]].req
      OBVIOUS
    <3>1. i \in DOMAIN ring /\ ring'[i] = ring[i]
      <4>1. DOMAIN ring = 1..Len(ring) /\ Len(ring) \in Nat
        BY DEF SlotTypes
      <4> QED
        BY <1>5, <4>1
    <3>2. CASE j = Len(ring) + 1
      BY <1>5, <1>17, <2>1, <3>1, <3>2
    <3>3. CASE j # Len(ring) + 1
      <4>1. j \in DOMAIN ring /\ ring'[j] = ring[j]
        BY <1>5, <3>3
      <4> QED
        BY <1>8, <2>1, <3>1, <4>1 DEF SwitchInOrder
    <3> QED
      BY <3>2, <3>3
  <2>4. worker.pc \in {"judge", "publish"} =>
          \A i \in DOMAIN ring' : content'[worker.slot].req <= content'[ring'[i]].req
    <3> SUFFICES ASSUME worker.pc \in {"judge", "publish"}, NEW i \in DOMAIN ring'
                 PROVE  content'[worker.slot].req <= content'[ring'[i]].req
      OBVIOUS
    <3>1. CASE i = Len(ring) + 1
      BY <1>5, <1>17, <2>2, <3>1
    <3>2. CASE i # Len(ring) + 1
      <4>1. i \in DOMAIN ring /\ ring'[i] = ring[i]
        BY <1>5, <3>2
      <4> QED
        BY <1>8, <2>1, <2>2, <4>1 DEF SwitchInOrder
    <3> QED
      BY <3>1, <3>2
  <2>5. disabled = request /\ request # 0 => \A t \in Unjudged' : content'[t].req = request
    BY <1>6, <1>8, <1>17 DEF SwitchInOrder
  <2> QED
    BY <2>3, <2>4, <2>5 DEF SwitchInOrder
<1>19. DisabledIsOwn'
  BY <1>1, <1>3 DEF DisabledIsOwn
<1> QED
  BY <1>9, <1>10, <1>11, <1>12, <1>13, <1>14, <1>15, <1>16, <1>18, <1>19

(* A step that leaves the captures and their graphs alone keeps what is     *)
(* known of them.                                                           *)
LEMMA CapturesUntouched ==
  ASSUME SlotTypes, SlotsApart, CapturesKnown, CapturesAccounted,
         UNCHANGED <<free, ring, content, worker, ctr, fate, owner, graphs>>
  PROVE  SlotTypes' /\ SlotsApart' /\ CapturesKnown' /\ CapturesAccounted'
<1>1. SlotTypes' /\ CapturesAccounted'
  BY DEF SlotTypes, CapturesAccounted
<1>2. SlotsApart' /\ CapturesKnown'
  BY DEF SlotsApart, CapturesKnown, Queued, Busy, Unjudged, KeyOf
<1> QED
  BY <1>1, <1>2

(* A request begins.                                                        *)
LEMMA RunBeginStep ==
  ASSUME PredictorInv, RunBegin
  PROVE  PredictorInv'
<1> USE PhaseBAssumption DEF PredictorInv, ObservationInv, RunBegin
<1>1. EpochTypes'
  BY DEF EpochTypes, HookType, capVars, ghosts
<1>2. SlotTypes' /\ SlotsApart' /\ CapturesKnown' /\ CapturesAccounted'
  BY CapturesUntouched DEF capVars, ghosts
<1>3. TellTypes'
  BY TellUntouched
<1>4. hook'.pc = "enable"
  BY DEF EpochTypes, HookType
<1>5. StopTypes' /\ StopInOrder'
  BY <1>4, StopDespiteHook DEF intentVars, capVars
<1>6. request \in Nat /\ request' = request + 1 /\ graph = 0
  BY DEF EpochTypes, HookKnows, InGraph
<1>7. \A g \in Graphs : owner'[g] <= request /\ owner'[g] # request'
  BY <1>6 DEF FateKnown, EpochTypes, ghosts
<1>8. HookKnows'
  BY <1>4, <1>6, <1>7 DEF HookKnows, InGraph
<1>9. FateKnown'
  BY <1>6, <1>7 DEF FateKnown, EpochTypes, ghosts, capVars
<1>10. disabled' <= request /\ disabled' # request'
  BY <1>6 DEF SwitchInOrder, EpochTypes
<1>11. SwitchInOrder'
  BY <1>6, <1>10 DEF SwitchInOrder, capVars, Unjudged, Queued, EpochTypes
<1>12. DisabledIsOwn'
  BY <1>7, <1>10 DEF DisabledIsOwn, Keys
<1> QED
  BY <1>1, <1>2, <1>3, <1>5, <1>8, <1>9, <1>11, <1>12

(* Prefetching is switched on for it.                                       *)
LEMMA EnableStep ==
  ASSUME PredictorInv, Enable
  PROVE  PredictorInv'
<1> USE PhaseBAssumption DEF PredictorInv, ObservationInv, Enable
<1>1. EpochTypes' /\ hook'.pc = "between"
  BY DEF EpochTypes, HookType, capVars, ghosts
<1>2. SlotTypes' /\ SlotsApart' /\ CapturesKnown' /\ CapturesAccounted'
  BY CapturesUntouched DEF capVars, ghosts
<1>3. TellTypes'
  BY TellUntouched
<1>4. StopTypes' /\ StopInOrder'
  BY <1>1, StopDespiteHook DEF intentVars, capVars
<1>5. HookKnows'
  BY <1>1 DEF HookKnows, InGraph, ghosts
<1>6. FateKnown'
  BY DEF FateKnown, ghosts, capVars
<1>7. request # 0 /\ disabled' = 0 /\ \A g \in Graphs : owner[g] # request
  BY DEF HookKnows
<1>8. SwitchInOrder'
  BY <1>7 DEF SwitchInOrder, capVars, Unjudged, Queued, EpochTypes
<1>9. DisabledIsOwn'
  BY <1>7 DEF DisabledIsOwn, Keys, ghosts
<1> QED
  BY <1>1, <1>2, <1>3, <1>4, <1>5, <1>6, <1>8, <1>9

(* A graph of the current request begins.                                   *)
LEMMA GraphBeginStep ==
  ASSUME PredictorInv, GraphBegin
  PROVE  PredictorInv'
<1> USE PhaseBAssumption DEF PredictorInv, ObservationInv, GraphBegin
<1>1. /\ graphs' = graphs + 1 /\ graph' = graphs' /\ graphs' \in Graphs /\ graphs \in Nat
      /\ request' = request /\ request \in Nat /\ request # 0
      /\ owner'[graphs'] = request
      /\ \A g \in Graphs : g # graphs' => owner'[g] = owner[g]
  BY DEF EpochTypes, Graphs
<1>2. EpochTypes' /\ hook'.pc = "hook"
  <2>1. hook' \in HookType /\ hook'.pc = "hook"
    <3>1. 1 \in Targets /\ 1 \in 1..Parts
      BY DEF Targets
    <3> QED
      BY <3>1 DEF EpochTypes, HookType
  <2> QED
    BY <1>1, <2>1 DEF EpochTypes, Graphs
<1>3. SlotTypes' /\ CapturesAccounted' /\ SlotsApart'
  <2>1. UNCHANGED <<free, ring, content, worker, ctr>>
    OBVIOUS
  <2>2. SlotTypes' /\ SlotsApart'
    BY SMTT(30), <2>1 DEF SlotTypes, SlotsApart, Queued
  <2> QED
    BY <2>1, <2>2 DEF CapturesAccounted
<1>4. /\ Unjudged' = Unjudged /\ Queued' = Queued /\ Busy' = Busy
      /\ \A s : KeyOf(s)' = KeyOf(s)
  BY DEF Unjudged, Queued, Busy, KeyOf
<1>5. CapturesKnown'
  <2>1. \A s \in Queued \cup Busy :
          /\ content[s].gs \in 1..graphs' /\ content[s].req = owner'[content[s].gs]
          /\ content[s].layer \in 1..(Layers - 1)
    <3>1. \A s \in Queued \cup Busy : content[s].gs \in Graphs
      BY KeysOfCaptures
    <3> QED
      BY <1>1, <3>1 DEF CapturesKnown
  <2> QED
    BY <1>4, <2>1 DEF CapturesKnown
<1>6. TellTypes'
  <2>1. Blank \in [Targets -> Notes]
    BY DEF Blank, NoNote, Notes, Reasons
  <2> QED
    BY SMTT(30), <1>1, <2>1 DEF TellTypes, intentVars, rowVars, Graphs
<1>7. StopTypes' /\ StopInOrder'
  BY <1>2, StopDespiteHook DEF intentVars
<1>8. HookKnows'
  BY <1>1, <1>2 DEF HookKnows, InGraph, Graphs
<1>9. FateKnown'
  <2>1. \A t \in Targets : fate[<<graphs', t>>] = "none"
    BY <1>1 DEF FateKnown
  <2>2. \A g \in Graphs : owner'[g] <= request
    BY <1>1 DEF FateKnown
  <2>3. \A g \in Graphs : g > graphs' => g > graphs
    BY <1>1 DEF Graphs
  <2> QED
    BY <1>1, <2>1, <2>2, <2>3 DEF FateKnown
<1>10. SwitchInOrder'
  BY <1>4 DEF SwitchInOrder
<1>11. DisabledIsOwn'
  <2>1. \A k \in Keys : fate[k] = "overflow" => k[1] \in Graphs /\ k[1] # graphs'
    BY <1>1 DEF Keys, FateKnown
  <2> QED
    BY <1>1, <2>1 DEF DisabledIsOwn
<1> QED
  BY <1>2, <1>3, <1>5, <1>6, <1>7, <1>8, <1>9, <1>10, <1>11

(* A call of the hook reads the request and the graph.                      *)
LEMMA HookReadStep ==
  ASSUME PredictorInv, HookRead
  PROVE  PredictorInv'
<1> USE PhaseBAssumption DEF PredictorInv, ObservationInv, HookRead
<1>1. /\ hook' \in HookType /\ hook'.pc = "enter" /\ hook'.gs = graph
      /\ hook'.req = request
  BY DEF EpochTypes, HookType
<1>2. EpochTypes'
  BY <1>1 DEF EpochTypes, epochVars, capVars, ghosts
<1>3. SlotTypes' /\ SlotsApart' /\ CapturesKnown' /\ CapturesAccounted'
  BY CapturesUntouched DEF capVars, ghosts, epochVars
<1>4. TellTypes'
  BY TellUntouched
<1>5. StopTypes' /\ StopInOrder'
  BY <1>1, StopDespiteHook DEF intentVars, capVars
<1>6. HookKnows'
  BY <1>1 DEF HookKnows, InGraph, ghosts, epochVars
<1>7. FateKnown' /\ DisabledIsOwn'
  BY DEF FateKnown, DisabledIsOwn, ghosts, capVars, epochVars
<1>8. SwitchInOrder'
  BY DEF SwitchInOrder, capVars, epochVars, Unjudged, Queued
<1> QED
  BY <1>2, <1>3, <1>4, <1>5, <1>6, <1>7, <1>8

(* It looks at the latch and at the layers it has seen.                     *)
LEMMA HookEnterStep ==
  ASSUME PredictorInv, HookEnter
  PROVE  PredictorInv'
<1> USE PhaseBAssumption DEF PredictorInv, HookEnter
<1>1. graph # 0
  BY DEF ObservationInv, HookKnows, InGraph
<1>2. TellTypes'
  BY TellUntouched
<1>3. CASE cut \/ hook.layer \in seen
  <2>1. hook' \in HookType /\ hook'.pc \in {"acquire", "hook", "end"}
    BY <1>3, HookPlaces DEF ObservationInv, EpochTypes
  <2>2. ObservationInv'
    BY <1>1, <1>3, <2>1, HookGoesOn DEF capVars
  <2>3. StopTypes' /\ StopInOrder'
    BY <2>1, StopDespiteHook DEF intentVars
  <2> QED
    BY <1>2, <2>2, <2>3
<1>4. CASE ~(cut \/ hook.layer \in seen)
  <2> USE DEF ObservationInv
  <2>1. /\ hook' \in HookType /\ hook'.pc = "decide" /\ hook'.layer = hook.layer
        /\ hook'.gs = hook.gs /\ hook'.req = hook.req
        /\ seen' = seen \cup {hook.layer} /\ hook.layer \in Targets
    BY <1>4 DEF EpochTypes, HookType
  <2>2. EpochTypes'
    BY <2>1 DEF EpochTypes, epochVars, ghosts
  <2>3. SlotTypes' /\ SlotsApart' /\ CapturesKnown' /\ CapturesAccounted'
    BY CapturesUntouched DEF ghosts, epochVars
  <2>4. StopTypes' /\ StopInOrder'
    BY <1>4, StopDespiteHook DEF intentVars
  <2>5. fate[<<graph, hook.layer>>] = "none"
    BY <1>1, <1>4, <2>1 DEF FateKnown
  <2>6. HookKnows'
    BY <1>1, <2>1, <2>5 DEF HookKnows, InGraph, ghosts, epochVars
  <2>7. FateKnown' /\ DisabledIsOwn'
    BY <2>1 DEF FateKnown, DisabledIsOwn, ghosts, epochVars
  <2>8. SwitchInOrder'
    BY DEF SwitchInOrder, epochVars, Unjudged, Queued
  <2> QED
    BY <1>2, <2>2, <2>3, <2>4, <2>6, <2>7, <2>8
<1> QED
  BY <1>3, <1>4

(* It decides whether the capture is eligible.                              *)
LEMMA HookDecideStep ==
  ASSUME PredictorInv, HookDecide
  PROVE  PredictorInv'
<1> USE PhaseBAssumption DEF HookDecide
<1>1. CASE \E r \in {"disabled", "ineligible", "sourceRange"} : Skip(r)
  <2>1. PICK r \in {"disabled", "ineligible", "sourceRange"} : Skip(r)
    BY <1>1
  <2> QED
    BY <2>1, SkipStep
<1>2. CASE /\ hook.layer < Layers /\ hook' = [hook EXCEPT !.pc = "register"]
           /\ UNCHANGED <<tellVars, fate>>
  <2> USE DEF PredictorInv, ObservationInv
  <2>1. /\ hook' \in HookType /\ hook'.pc = "register" /\ hook'.layer = hook.layer
        /\ hook'.gs = hook.gs /\ hook'.req = hook.req
    BY <1>2 DEF EpochTypes, HookType
  <2>2. EpochTypes'
    BY <1>2, <2>1 DEF EpochTypes, epochVars, capVars
  <2>3. SlotTypes' /\ SlotsApart' /\ CapturesKnown' /\ CapturesAccounted'
    BY <1>2, CapturesUntouched DEF capVars, epochVars
  <2>4. StopTypes' /\ StopInOrder'
    <3>1. ~cut
      BY DEF StopInOrder, CapMuFree
    <3> QED
      BY <3>1, StopDespiteHook DEF intentVars, capVars
  <2>5. HookKnows'
    BY <1>2, <2>1 DEF HookKnows, InGraph, epochVars, capVars
  <2>6. FateKnown' /\ DisabledIsOwn'
    BY <1>2 DEF FateKnown, DisabledIsOwn, capVars, epochVars
  <2>7. SwitchInOrder'
    BY DEF SwitchInOrder, capVars, epochVars, Unjudged, Queued
  <2>8. TellTypes'
    BY <1>2, TellUntouched
  <2> QED
    BY <2>2, <2>3, <2>4, <2>5, <2>6, <2>7, <2>8
<1> QED
  BY <1>1, <1>2

(* A graph ends.                                                            *)
LEMMA GraphEndStep ==
  ASSUME PredictorInv, GraphEnd
  PROVE  PredictorInv'
<1> USE PhaseBAssumption DEF PredictorInv, ObservationInv, GraphEnd
<1>1. hook' \in HookType /\ hook'.pc = "between"
  BY DEF EpochTypes, HookType
<1>2. EpochTypes'
  BY <1>1 DEF EpochTypes, capVars, ghosts
<1>3. SlotTypes' /\ SlotsApart' /\ CapturesKnown' /\ CapturesAccounted'
  BY CapturesUntouched DEF capVars, ghosts
<1>4. TellTypes'
  BY TellUntouched
<1>5. StopTypes' /\ StopInOrder'
  BY <1>1, StopDespiteHook DEF intentVars, capVars
<1>6. HookKnows'
  BY <1>1 DEF HookKnows, InGraph, ghosts, EpochTypes
<1>7. FateKnown' /\ DisabledIsOwn'
  BY DEF FateKnown, DisabledIsOwn, ghosts, capVars
<1>8. SwitchInOrder'
  BY DEF SwitchInOrder, capVars, Unjudged, Queued
<1> QED
  BY <1>2, <1>3, <1>4, <1>5, <1>6, <1>7, <1>8

(* The row of an acquire is made, or the acquire is refused.                *)
LEMMA AcquireStep ==
  ASSUME PredictorInv, AcquireRow \/ AcquireRefused
  PROVE  PredictorInv'
<1> USE PhaseBAssumption DEF PredictorInv
<1>1. hook.pc = "acquire" /\ graph # 0 /\ hook.layer \in Targets /\ graph \in Graphs
  BY SMTT(30) DEF AcquireRow, AcquireRefused, ObservationInv, HookKnows, InGraph, EpochTypes, HookType,
         Graphs
<1>2. /\ hook' \in HookType /\ hook'.pc \in {"hook", "end", "off"}
      /\ UNCHANGED <<epochVars, capVars, worker, ctr, ghosts>>
  <2>1. CASE AcquireRow
    BY <2>1, HookPlaces DEF AcquireRow, ObservationInv, EpochTypes
  <2>2. CASE AcquireRefused
    BY <2>2 DEF AcquireRefused, ObservationInv, EpochTypes, HookType
  <2> QED
    BY <2>1, <2>2
<1>3. ObservationInv'
  BY <1>1, <1>2, HookGoesOn
<1>4. UNCHANGED <<stopVars, disp, intents, ordinal, mailbox, status>>
  BY DEF AcquireRow, AcquireRefused, intentVars, tellVars
<1>5. StopTypes' /\ StopInOrder'
  BY <1>2, <1>4, StopDespiteHook DEF capVars
<1>6. TellTypes'
  <2>1. CASE AcquireRow
    <3> DEFINE k == <<graph, hook.layer>>
    <3>1. k \in Keys /\ TypeOK
      BY <1>1, TypesInParts DEF Keys, ObservationInv
    <3>2. WithRow(k, TheRow(k))
      BY <2>1 DEF AcquireRow
    <3> QED
      BY <1>4, <3>1, <3>2, RowLookedUp, RowTypes DEF TellTypes
  <2>2. CASE AcquireRefused
    BY <2>2, TellUntouched DEF AcquireRefused
  <2> QED
    BY <2>1, <2>2
<1> QED
  BY <1>3, <1>5, <1>6

(* Every step of the computation preserves the invariant.                   *)
LEMMA ComputeStep ==
  ASSUME PredictorInv, RunBegin \/ GraphBegin \/ Compute \/ AcquireRow
  PROVE  PredictorInv'
<1>1. CASE HookRegister
  <2>1. CASE free = {} /\ Skip("queueFull") /\ UNCHANGED <<free, ring, content, ctr>>
    BY <1>1, <2>1, SkipStep DEF HookRegister, capVars
  <2>2. CASE ~(free = {} /\ Skip("queueFull") /\ UNCHANGED <<free, ring, content, ctr>>)
    BY <1>1, <2>2, RegisterStep DEF HookRegister
  <2> QED
    BY <2>1, <2>2
<1> QED
  BY <1>1, RunBeginStep, EnableStep, GraphBeginStep, HookReadStep, HookEnterStep,
     HookDecideStep, GraphEndStep, AcquireStep DEF Compute

-----------------------------------------------------------------------------
(* The worker is done with a capture: it is no number, queued or refused.   *)
LEMMA CaptureJudged ==
  ASSUME ObservationInv, worker.pc \in {"judge", "publish"},
         NEW s \in {"count", "tell", "return"}, worker' = [worker EXCEPT !.pc = s],
         NEW f \in {"nonfinite", "predicted", "overflow"},
         fate' = [fate EXCEPT ![MyKey] = f],
         disabled' = IF f = "overflow" THEN Mine.req ELSE disabled,
         UNCHANGED <<request, graph, graphs, hook, capVars, owner>>
  PROVE  /\ EpochTypes' /\ SlotsApart' /\ CapturesKnown' /\ HookKnows' /\ FateKnown'
         /\ SwitchInOrder' /\ DisabledIsOwn'
<1> USE PhaseBAssumption DEF ObservationInv, capVars
<1> DEFINE w == worker.slot
<1>1. /\ w \in Unjudged /\ w \in Slots /\ w \notin Queued /\ w # NoSlot /\ MyKey = KeyOf(w)
      /\ worker'.pc = s /\ worker'.slot = w /\ Unjudged = Queued \cup {w} /\ Busy = {w}
  BY KeysOfCaptures DEF Unjudged, SlotsApart, SlotTypes, MyKey, Mine, KeyOf, Busy
<1>2. Unjudged' = Queued /\ Queued' = Queued /\ Busy' = Busy /\ \A t : KeyOf(t)' = KeyOf(t)
  BY <1>1 DEF Unjudged, Queued, Busy, KeyOf
<1>3. /\ KeyOf(w) \in Keys /\ content[w].gs \in Graphs /\ content[w].layer \in Targets
      /\ content[w].gs <= graphs /\ content[w].req = owner[content[w].gs]
      /\ fate[KeyOf(w)] = "queued"
  BY <1>1, KeysOfCaptures DEF CapturesKnown, EpochTypes
<1>4. fate'[KeyOf(w)] = f /\ \A k \in Keys : k # KeyOf(w) => fate'[k] = fate[k]
  BY <1>1, <1>3 DEF EpochTypes
<1>5. \A t \in Queued : KeyOf(t) # KeyOf(w) /\ KeyOf(t) \in Keys
  BY <1>1, KeysOfCaptures DEF CapturesKnown
<1>6. Mine.req = content[w].req /\ content[w].req \in 0..request
  BY <1>3 DEF Mine, FateKnown, EpochTypes
<1>7. EpochTypes'
  <2>1. disabled' \in 0..MaxRequests
    BY <1>6 DEF EpochTypes
  <2>2. fate' \in [Keys -> Reasons \cup {"queued", "predicted", "overflow"}]
    BY <1>1, <1>3 DEF EpochTypes, Reasons
  <2> QED
    BY <2>1, <2>2 DEF EpochTypes
<1>8. SlotsApart'
  BY <1>1, <1>2 DEF SlotsApart
<1>9. CapturesKnown'
  <2>1. (\A t \in Unjudged : fate[KeyOf(t)] = "queued")'
    BY <1>1, <1>2, <1>4, <1>5 DEF CapturesKnown
  <2>2. (\A t, u \in Unjudged : KeyOf(t) = KeyOf(u) => t = u)'
    BY <1>1, <1>2 DEF CapturesKnown
  <2> QED
    BY <1>2, <2>1, <2>2 DEF CapturesKnown
<1>10. HookKnows'
  <2>1. hook.pc \in {"decide", "register"} => <<graph, hook.layer>> \in Keys
    BY SMTT(30) DEF HookKnows, InGraph, EpochTypes, HookType, Keys, Graphs
  <2>2. hook.pc \in {"decide", "register"} => fate'[<<graph, hook.layer>>] = "none"
    BY <1>3, <1>4, <2>1 DEF HookKnows
  <2> QED
    BY <2>2 DEF HookKnows
<1>11. FateKnown'
  <2>1. \A k \in Keys : fate[k] = "none" => fate'[k] = "none"
    BY <1>3, <1>4
  <2>2. graph # 0 => graph \in Graphs
    BY DEF EpochTypes, Graphs
  <2>3. \A g \in Graphs, t \in Targets : <<g, t>> \in Keys
    BY DEF Keys
  <2> QED
    BY <2>1, <2>2, <2>3 DEF FateKnown
<1>12. \A t \in Queued : content[w].req <= content[t].req /\ content[t].req \in 0..request
  <2>1. \A t \in Queued : content[w].req <= content[t].req
    BY <1>1 DEF SwitchInOrder, Queued
  <2>2. \A t \in Queued : content[t].gs \in Graphs /\ content[t].req = owner[content[t].gs]
    BY KeysOfCaptures DEF CapturesKnown
  <2>3. \A g \in Graphs : owner[g] \in 0..request
    BY DEF FateKnown, EpochTypes
  <2> QED
    BY <2>1, <2>2, <2>3
<1>13. SwitchInOrder'
  <2>1. disabled' <= request
    BY <1>6 DEF SwitchInOrder, EpochTypes
  <2>2. disabled' = request /\ request # 0 => \A t \in Queued : content[t].req = request
    BY <1>1, <1>6, <1>12 DEF SwitchInOrder, EpochTypes
  <2>3. \A i, j \in DOMAIN ring : i < j => content[ring[i]].req <= content[ring[j]].req
    BY DEF SwitchInOrder
  <2> QED
    BY <1>1, <1>2, <2>1, <2>2, <2>3 DEF SwitchInOrder
<1>14. DisabledIsOwn'
  <2> SUFFICES ASSUME request # 0
               PROVE  disabled' = request
                        <=> \E k \in Keys : fate'[k] = "overflow" /\ owner[k[1]] = request
    BY DEF DisabledIsOwn
  <2>1. disabled = request
          <=> \E k \in Keys : fate[k] = "overflow" /\ owner[k[1]] = request
    BY DEF DisabledIsOwn
  <2>2. KeyOf(w)[1] = content[w].gs
    BY DEF KeyOf
  <2>3. CASE f # "overflow"
    BY <1>3, <1>4, <2>1, <2>3
  <2>4. CASE f = "overflow" /\ content[w].req = request
    BY <1>3, <1>4, <1>6, <2>2, <2>4
  <2>5. CASE f = "overflow" /\ content[w].req # request
    <3>1. disabled # request
      BY <1>1, <2>5 DEF SwitchInOrder
    <3>2. ~\E k \in Keys : fate'[k] = "overflow" /\ owner[k[1]] = request
      BY <1>3, <1>4, <2>1, <2>2, <2>5, <3>1
    <3> QED
      BY <1>6, <2>5, <3>2
  <2> QED
    BY <2>3, <2>4, <2>5
<1> QED
  BY <1>7, <1>8, <1>9, <1>10, <1>11, <1>13, <1>14

(* The steps of the worker between two captures do not undo a shutdown.     *)
LEMMA StopDespiteWorker ==
  ASSUME StopTypes, StopInOrder, UNCHANGED <<stopVars, disp, hook, ring>>,
         worker.pc # "ended", worker'.pc # "ended"
  PROVE  StopTypes' /\ StopInOrder'
BY DEF StopTypes, StopInOrder, stopVars, CapMuFree

(* The worker takes the oldest capture.                                     *)
LEMMA WorkerTakeStep ==
  ASSUME PredictorInv, WorkerTake
  PROVE  PredictorInv'
<1> USE PhaseBAssumption DEF PredictorInv, ObservationInv, WorkerTake, epochVars, ghosts
<1> DEFINE w == Head(ring)
<1>1. /\ ring \in Seq(Slots) /\ ring # <<>> /\ ring' = Tail(ring)
      /\ worker'.pc = "judge" /\ worker'.slot = w
  BY DEF SlotTypes
<1>2. /\ Tail(ring) \in Seq(Slots) /\ Len(ring) = Len(Tail(ring)) + 1
      /\ w = ring[1] /\ w \in Slots /\ 1 \in DOMAIN ring
      /\ \A i \in DOMAIN Tail(ring) : /\ i + 1 \in DOMAIN ring /\ 1 < i + 1
                                      /\ Tail(ring)[i] = ring[i + 1]
      /\ \A i, j \in DOMAIN Tail(ring) : (i < j => i + 1 < j + 1) /\ (i + 1 = j + 1 => i = j)
  BY ONLY <1>1, QueueShrinks
<1>3. w # NoSlot /\ worker.slot = NoSlot /\ Busy = {} /\ Unjudged = Queued /\ w \in Queued
  BY <1>2 DEF SlotsApart, Busy, Unjudged, Queued
<1>4. Queued' \subseteq Queued /\ w \notin Queued'
  <2>1. \A i \in DOMAIN Tail(ring) : ring[i + 1] # w
    BY <1>2 DEF SlotsApart
  <2> QED
    BY <1>1, <1>2, <2>1 DEF Queued
<1>5. Busy' = {w} /\ Unjudged' = Queued' \cup {w} /\ \A t : KeyOf(t)' = KeyOf(t)
  BY <1>1, <1>3 DEF Busy, Unjudged, KeyOf
<1>6. EpochTypes' /\ TellTypes'
  BY TellUntouched DEF EpochTypes
<1>7. SlotTypes'
  BY <1>1, <1>2 DEF SlotTypes
<1>8. SlotsApart'
  <2>1. \A i, j \in DOMAIN ring' : ring'[i] = ring'[j] => i = j
    BY SMTT(30), <1>1, <1>2 DEF SlotsApart
  <2> QED
    BY <1>1, <1>3, <1>4, <2>1 DEF SlotsApart
<1>9. CapturesKnown'
  BY SMTT(30), <1>3, <1>4, <1>5 DEF CapturesKnown
<1>10. HookKnows' /\ FateKnown' /\ DisabledIsOwn'
  BY DEF HookKnows, FateKnown, DisabledIsOwn
<1>11. SwitchInOrder'
  <2>1. \A i, j \in DOMAIN ring' : i < j => content[ring'[i]].req <= content[ring'[j]].req
    BY SMTT(30), <1>1, <1>2 DEF SwitchInOrder
  <2>2. \A i \in DOMAIN ring' : content[w].req <= content[ring'[i]].req
    BY ZenonT(40), <1>1, <1>2 DEF SwitchInOrder
  <2> QED
    BY <1>1, <1>3, <1>4, <1>5, <2>1, <2>2 DEF SwitchInOrder
<1>12. CapturesAccounted'
  <2>1. /\ ctr.captured \in Nat /\ ctr.predicted \in Nat /\ ctr.overflow \in Nat
        /\ ctr.nonfinite \in Nat /\ Len(ring) \in Nat /\ Len(ring') \in Nat
    BY <1>1, <1>2 DEF SlotTypes
  <2>2. ctr.captured = ctr.predicted + ctr.overflow + ctr.nonfinite + Len(ring)
    BY SMTT(30), <2>1 DEF CapturesAccounted
  <2> QED
    BY SMTT(30), <1>1, <1>2, <2>1, <2>2 DEF CapturesAccounted
<1>13. StopTypes' /\ StopInOrder'
  BY <1>1 DEF StopTypes, StopInOrder, stopVars, intentVars, CapMuFree
<1> QED
  BY <1>6, <1>7, <1>8, <1>9, <1>10, <1>11, <1>12, <1>13

(* The worker ends.                                                         *)
LEMMA WorkerEndStep ==
  ASSUME PredictorInv, WorkerEnd
  PROVE  PredictorInv'
<1> USE PhaseBAssumption DEF PredictorInv, ObservationInv, WorkerEnd, epochVars, capVars, ghosts
<1>1. worker'.pc = "ended" /\ worker'.slot = worker.slot
  BY DEF SlotTypes
<1>2. Queued' = Queued /\ Busy' = Busy /\ Unjudged' = Unjudged /\ \A t : KeyOf(t)' = KeyOf(t)
  BY <1>1 DEF Queued, Busy, Unjudged, KeyOf
<1>3. EpochTypes' /\ TellTypes' /\ SlotTypes'
  BY TellUntouched DEF EpochTypes, SlotTypes
<1>4. SlotsApart' /\ CapturesKnown'
  BY <1>1, <1>2 DEF SlotsApart, CapturesKnown
<1>5. HookKnows' /\ FateKnown' /\ DisabledIsOwn'
  BY DEF HookKnows, FateKnown, DisabledIsOwn
<1>6. SwitchInOrder' /\ CapturesAccounted'
  BY <1>1, <1>2 DEF SwitchInOrder, CapturesAccounted
<1>7. StopTypes' /\ StopInOrder'
  BY <1>1 DEF StopTypes, StopInOrder, stopVars, intentVars, CapMuFree
<1> QED
  BY <1>3, <1>4, <1>5, <1>6, <1>7

(* The slot of a capture is free again.                                     *)
LEMMA ReturnSlotStep ==
  ASSUME PredictorInv, ReturnSlot
  PROVE  PredictorInv'
<1> USE PhaseBAssumption DEF PredictorInv, ObservationInv, ReturnSlot, epochVars, ghosts
<1> DEFINE w == worker.slot
<1>1. w \in Slots /\ w \notin Queued /\ worker'.pc = "wait" /\ worker'.slot = NoSlot
  BY DEF SlotsApart, SlotTypes
<1>2. content'[w] = NoCapture /\ \A t \in Slots \ {w} : content'[t] = content[t]
  BY <1>1 DEF SlotTypes
<1>3. Queued' = Queued /\ Busy' = {} /\ Unjudged' = Queued /\ Unjudged = Queued
  BY <1>1 DEF Queued, Busy, Unjudged
<1>4. Queued \subseteq Slots /\ \A t \in Queued : content'[t] = content[t] /\ KeyOf(t)' = KeyOf(t)
  BY <1>1, <1>2, KeysOfCaptures DEF KeyOf
<1>5. EpochTypes' /\ TellTypes'
  BY TellUntouched DEF EpochTypes
<1>6. SlotTypes'
  <2>1. content' \in [Slots -> [req : 0..MaxRequests, gs : 0..MaxGraphs, layer : 0..Layers]]
    <3>1. NoCapture \in [req : 0..MaxRequests, gs : 0..MaxGraphs, layer : 0..Layers]
      BY DEF NoCapture
    <3> QED
      BY <3>1 DEF SlotTypes
  <2> QED
    BY <1>1, <2>1 DEF SlotTypes
<1>7. SlotsApart'
  BY SMTT(30), <1>1, <1>3 DEF SlotsApart, SlotTypes, Queued
<1>8. CapturesKnown'
  BY <1>3, <1>4 DEF CapturesKnown
<1>9. HookKnows' /\ FateKnown' /\ DisabledIsOwn'
  BY DEF HookKnows, FateKnown, DisabledIsOwn
<1>10. SwitchInOrder'
  BY <1>1, <1>3, <1>4 DEF SwitchInOrder, Queued
<1>11. CapturesAccounted'
  BY <1>1 DEF CapturesAccounted
<1>12. StopTypes' /\ StopInOrder'
  BY <1>1, StopDespiteWorker
<1> QED
  BY <1>5, <1>6, <1>7, <1>8, <1>9, <1>10, <1>11, <1>12

(* The worker goes on with the capture it has.                              *)
LEMMA WorkerGoesOn ==
  ASSUME ObservationInv, NEW s \in {"publish", "return"}, worker' = [worker EXCEPT !.pc = s],
         \/ worker.pc = "judge" /\ s = "publish"
         \/ worker.pc \in {"count", "tell"} /\ s = "return",
         UNCHANGED <<epochVars, hook, capVars, ghosts>>
  PROVE  /\ EpochTypes' /\ SlotsApart' /\ CapturesKnown' /\ HookKnows' /\ FateKnown'
         /\ SwitchInOrder' /\ DisabledIsOwn' /\ worker'.pc = s
<1> USE DEF ObservationInv, epochVars, capVars, ghosts
<1>1. worker'.pc = s /\ worker'.slot = worker.slot
  BY DEF SlotTypes
<1>2. Queued' = Queued /\ Busy' = Busy /\ Unjudged' = Unjudged /\ \A t : KeyOf(t)' = KeyOf(t)
  BY <1>1 DEF Queued, Busy, Unjudged, KeyOf
<1>3. SlotsApart' /\ CapturesKnown'
  BY <1>1, <1>2 DEF SlotsApart, CapturesKnown
<1>4. EpochTypes' /\ HookKnows' /\ FateKnown' /\ DisabledIsOwn'
  BY DEF EpochTypes, HookKnows, FateKnown, DisabledIsOwn
<1>5. SwitchInOrder'
  BY <1>1, <1>2 DEF SwitchInOrder
<1> QED
  BY <1>1, <1>3, <1>4, <1>5

(* The types of the slots and the balance of the captures, when the worker  *)
(* moves and may count.                                                     *)
LEMMA WorkerCounts ==
  ASSUME SlotTypes, CapturesAccounted, UNCHANGED capVars,
         NEW s \in {"publish", "count", "tell", "return"}, worker' = [worker EXCEPT !.pc = s],
         \/ UNCHANGED ctr /\ (worker.pc \in {"judge", "publish", "count"}
                             <=> s \in {"publish", "count"})
         \/ /\ worker.pc \in {"judge", "publish", "count"} /\ s \in {"tell", "return"}
            /\ \E c \in {"predicted", "overflow", "nonfinite"} : Count(c)
  PROVE  SlotTypes' /\ CapturesAccounted'
<1> USE DEF capVars
<1>1. worker'.pc = s
  BY DEF SlotTypes
<1>2. /\ ctr.captured \in Nat /\ ctr.predicted \in Nat /\ ctr.overflow \in Nat
      /\ ctr.nonfinite \in Nat /\ Len(ring) \in Nat
  BY DEF SlotTypes
<1>3. CASE UNCHANGED ctr
  <2>1. worker.pc \in {"judge", "publish", "count"} <=> s \in {"publish", "count"}
    BY <1>2, <1>3 DEF Count, SlotTypes
  <2> QED
    BY <1>1, <1>3, <2>1 DEF SlotTypes, CapturesAccounted
<1>4. CASE ~UNCHANGED ctr
  <2>1. PICK c \in {"predicted", "overflow", "nonfinite"} : Count(c)
    BY <1>4
  <2>2. /\ ctr' \in [Counters -> Nat] /\ ctr'[c] = ctr[c] + 1
        /\ \A d \in Counters : d # c => ctr'[d] = ctr[d]
    BY <2>1, CountTypes DEF SlotTypes, Counters
  <2>3. /\ ctr'.captured = ctr.captured
        /\ ctr'.predicted + ctr'.overflow + ctr'.nonfinite
             = ctr.predicted + ctr.overflow + ctr.nonfinite + 1
    <3>1. CASE c = "predicted"
      BY ONLY <1>2, <2>2, <3>1 DEF Counters
    <3>2. CASE c = "overflow"
      BY ONLY <1>2, <2>2, <3>2 DEF Counters
    <3>3. CASE c = "nonfinite"
      BY ONLY <1>2, <2>2, <3>3 DEF Counters
    <3> QED
      BY <3>1, <3>2, <3>3
  <2>4. worker.pc \in {"judge", "publish", "count"} /\ s \in {"tell", "return"}
    BY <1>4
  <2>5. SlotTypes'
    BY <2>2 DEF SlotTypes, Counters
  <2>6. /\ ctr'.predicted \in Nat /\ ctr'.overflow \in Nat /\ ctr'.nonfinite \in Nat
    BY <2>2 DEF Counters
  <2> QED
    BY SMTT(30), <1>1, <1>2, <2>3, <2>4, <2>5, <2>6 DEF CapturesAccounted
<1> QED
  BY <1>3, <1>4

(* A note of the worker about its capture keeps the types.                  *)
LEMMA WorkerNotes ==
  ASSUME PredictorInv, worker.slot # NoSlot, NEW r \in {"none", "nonfinite"}, NEW o \in BOOLEAN,
         Note(Mine.gs, Mine.layer + 1, r, o), UNCHANGED <<intentVars, rowVars>>
  PROVE  TellTypes'
<1> USE PhaseBAssumption DEF PredictorInv
<1>1. TypeOK
  BY TypesInParts DEF ObservationInv
<1>2. Mine.gs \in Graphs /\ Mine.layer \in Targets
  BY KeysOfCaptures DEF Busy, Mine
<1>3. Mine.layer + 1 \in 1..(Layers + 1) /\ r \in Reasons
  BY <1>2 DEF Targets, Reasons
<1> QED
  BY SMTT(30), <1>1, <1>2, <1>3, NoteTypes DEF TellTypes, intentVars, rowVars

(* The guess is computed, or is no number.                                  *)
LEMMA JudgeStep ==
  ASSUME PredictorInv, Judge
  PROVE  PredictorInv'
<1> USE PhaseBAssumption DEF PredictorInv, Judge
<1>1. worker.slot # NoSlot
  BY DEF ObservationInv, SlotsApart
<1>2. CASE Step("publish") /\ UNCHANGED <<tellVars, ctr, fate>>
  <2>1. worker' = [worker EXCEPT !.pc = "publish"]
    BY <1>2 DEF Step
  <2>2. SlotTypes' /\ CapturesAccounted'
    BY <1>2, <2>1, WorkerCounts DEF ObservationInv
  <2>3. /\ EpochTypes' /\ SlotsApart' /\ CapturesKnown' /\ HookKnows' /\ FateKnown'
        /\ SwitchInOrder' /\ DisabledIsOwn' /\ worker'.pc = "publish"
    BY <1>2, <2>1, WorkerGoesOn DEF ghosts
  <2>4. TellTypes'
    BY <1>2, TellUntouched
  <2>5. StopTypes' /\ StopInOrder'
    BY <2>3, StopDespiteWorker DEF capVars
  <2> QED
    BY <2>2, <2>3, <2>4, <2>5 DEF ObservationInv
<1>3. CASE /\ Count("nonfinite") /\ Note(Mine.gs, Mine.layer + 1, "nonfinite", FALSE)
           /\ fate' = [fate EXCEPT ![MyKey] = "nonfinite"] /\ Step("return")
  <2>1. worker' = [worker EXCEPT !.pc = "return"] /\ worker'.pc = "return"
    BY <1>3 DEF Step, ObservationInv, SlotTypes
  <2>2. SlotTypes' /\ CapturesAccounted'
    BY <1>3, <2>1, WorkerCounts DEF ObservationInv
  <2>3. /\ EpochTypes' /\ SlotsApart' /\ CapturesKnown' /\ HookKnows' /\ FateKnown'
        /\ SwitchInOrder' /\ DisabledIsOwn'
    BY <1>3, <2>1, CaptureJudged DEF epochVars
  <2>4. TellTypes'
    BY <1>1, <1>3, WorkerNotes
  <2>5. StopTypes' /\ StopInOrder'
    BY <2>1, StopDespiteWorker DEF capVars
  <2> QED
    BY <2>2, <2>3, <2>4, <2>5 DEF ObservationInv
<1> QED
  BY <1>2, <1>3

(* The guess is queued, or finds the queue full.                            *)
LEMMA PublishStep ==
  ASSUME PredictorInv, Publish
  PROVE  PredictorInv'
<1> USE PhaseBAssumption DEF PredictorInv, Publish
<1>1. worker.slot # NoSlot
  BY DEF ObservationInv, SlotsApart
<1>2. CASE Len(intents) < IntentCap /\ Enqueue
  <2>1. worker' = [worker EXCEPT !.pc = "count"] /\ worker'.pc = "count"
    BY <1>2 DEF Enqueue, Step, ObservationInv, SlotTypes
  <2>2. SlotTypes' /\ CapturesAccounted'
    BY <1>2, <2>1, WorkerCounts DEF ObservationInv, Enqueue
  <2>3. /\ EpochTypes' /\ SlotsApart' /\ CapturesKnown' /\ HookKnows' /\ FateKnown'
        /\ SwitchInOrder' /\ DisabledIsOwn'
    BY <1>2, <2>1, CaptureJudged DEF Enqueue
  <2>4. TellTypes'
    <3> DEFINE T == [ordinal : Nat, gs : Graphs, target : Targets]
               i == [ordinal |-> ordinal, gs |-> Mine.gs, target |-> Mine.layer + 1]
    <3>1. Mine.gs \in Graphs /\ Mine.layer \in 1..(Layers - 1)
      BY <1>1, KeysOfCaptures DEF Busy, Mine, ObservationInv, CapturesKnown
    <3>2. i \in T
      BY SMTT(30), <3>1 DEF Targets, TellTypes
    <3>3. intents \in Seq(T) /\ intents' = Append(intents, i) /\ ordinal' \in Nat
      BY <1>2 DEF Enqueue, TellTypes
    <3> HIDE DEF T, i
    <3>4. intents' \in Seq(T)
      BY <3>2, <3>3, QueueGrows
    <3> QED
      BY <3>3, <3>4 DEF TellTypes, T, tellVars, rowVars
  <2>5. StopTypes' /\ StopInOrder'
    BY <2>1, StopDespiteWorker DEF capVars
  <2> QED
    BY <2>2, <2>3, <2>4, <2>5 DEF ObservationInv
<1>3. CASE /\ disabled' = Mine.req /\ Count("overflow")
           /\ fate' = [fate EXCEPT ![MyKey] = "overflow"]
           /\ Step("tell") /\ UNCHANGED intentVars
  <2>1. worker' = [worker EXCEPT !.pc = "tell"] /\ worker'.pc = "tell"
    BY <1>3 DEF Step, ObservationInv, SlotTypes
  <2>2. SlotTypes' /\ CapturesAccounted'
    BY <1>3, <2>1, WorkerCounts DEF ObservationInv
  <2>3. /\ EpochTypes' /\ SlotsApart' /\ CapturesKnown' /\ HookKnows' /\ FateKnown'
        /\ SwitchInOrder' /\ DisabledIsOwn'
    BY <1>3, <2>1, CaptureJudged
  <2>4. TellTypes'
    BY <1>3, TellUntouched
  <2>5. StopTypes' /\ StopInOrder'
    BY <2>1, StopDespiteWorker DEF capVars
  <2> QED
    BY <2>2, <2>3, <2>4, <2>5 DEF ObservationInv
<1> QED
  BY <1>2, <1>3

(* Afterwards it is counted, or the overflow is noted.                      *)
LEMMA AfterwardsStep ==
  ASSUME PredictorInv, CountPredicted \/ TellOverflow
  PROVE  PredictorInv'
<1> USE PhaseBAssumption DEF PredictorInv
<1>1. /\ worker.slot # NoSlot /\ worker.pc \in {"count", "tell"}
      /\ worker' = [worker EXCEPT !.pc = "return"]
      /\ UNCHANGED <<epochVars, hook, capVars, ghosts, intentVars, rowVars, stopVars, disp>>
  BY DEF CountPredicted, TellOverflow, ObservationInv, SlotsApart, Step
<1>2. /\ EpochTypes' /\ SlotsApart' /\ CapturesKnown' /\ HookKnows' /\ FateKnown'
      /\ SwitchInOrder' /\ DisabledIsOwn' /\ worker'.pc = "return"
  BY <1>1, WorkerGoesOn
<1>3. StopTypes' /\ StopInOrder'
  BY <1>1, <1>2, StopDespiteWorker DEF capVars
<1>4. CASE CountPredicted
  <2>1. SlotTypes' /\ CapturesAccounted'
    BY <1>1, <1>4, WorkerCounts DEF CountPredicted, ObservationInv
  <2>2. TellTypes'
    BY <1>4, TellUntouched DEF CountPredicted
  <2> QED
    BY <1>2, <1>3, <2>1, <2>2 DEF ObservationInv
<1>5. CASE TellOverflow
  <2>1. SlotTypes' /\ CapturesAccounted'
    BY <1>1, <1>5, WorkerCounts DEF TellOverflow, ObservationInv
  <2>2. TellTypes'
    BY <1>1, <1>5, WorkerNotes DEF TellOverflow
  <2> QED
    BY <1>2, <1>3, <2>1, <2>2 DEF ObservationInv
<1> QED
  BY <1>4, <1>5

(* Every step of the worker preserves the invariant.                        *)
LEMMA PredictorStep ==
  ASSUME PredictorInv, Predictor
  PROVE  PredictorInv'
BY WorkerTakeStep, WorkerEndStep, JudgeStep, PublishStep, AfterwardsStep, ReturnSlotStep
   DEF Predictor

-----------------------------------------------------------------------------
(* An intent is taken and bound to its row.                                 *)
LEMMA TakeIntentTypes ==
  ASSUME PredictorInv, TakeIntent
  PROVE  TellTypes' /\ (intents' = <<>> \/ intents # <<>>)
<1> USE PhaseBAssumption DEF PredictorInv, TakeIntent
<1> DEFINE T == [ordinal : Nat, gs : Graphs, target : Targets]
           k == <<Head(intents).gs, Head(intents).target>>
           r == [TheRow(k) EXCEPT !.intent = TRUE, !.reason = "none"]
<1>1. intents' \in Seq(T) /\ Head(intents) \in T
  <2>1. intents \in Seq(T) /\ intents # <<>> /\ intents' = Tail(intents)
    BY DEF TellTypes
  <2> HIDE DEF T
  <2> QED
    BY <2>1, QueueShrinks
<1>2. k \in Keys /\ TypeOK
  BY <1>1, TypesInParts DEF Keys, ObservationInv
<1>3. r \in RowType
  BY <1>2, RowLookedUp DEF RowType, Reasons
<1>4. WithRow(k, r) /\ UNCHANGED <<ordinal, mailbox, status>>
  OBVIOUS
<1> HIDE DEF k, r
<1> QED
  BY <1>1, <1>2, <1>3, <1>4, RowTypes DEF TellTypes

(* Every step of the dispatcher preserves the invariant.                    *)
LEMMA DispatcherStep ==
  ASSUME PredictorInv, Admit \/ CutAdmit \/ DrainStatus \/ SeeDrained \/ DispatcherLeave
  PROVE  PredictorInv'
<1> USE DEF PredictorInv
<1>1. UNCHANGED <<obsVars, stopVars>>
  BY DEF Admit, CutAdmit, TakeIntent, DrainStatus, PopStatus, SeeDrained, DispatcherLeave, obsVars
<1>2. ObservationInv' /\ UNCHANGED <<hook, worker, ring>>
  BY <1>1, ObservationsUntouched DEF obsVars, capVars
<1>3. CASE Admit \/ CutAdmit
  <2>1. TellTypes'
    BY <1>3, TakeIntentTypes DEF Admit, CutAdmit
  <2>2. UNCHANGED disp /\ disp.pc # "exited"
    BY <1>3 DEF Admit, CutAdmit
  <2>3. StopTypes' /\ StopInOrder'
    BY <1>1, <1>2, <2>2 DEF StopTypes, StopInOrder, stopVars, CapMuFree
  <2> QED
    BY <1>2, <2>1, <2>3
<1>4. CASE DrainStatus
  <2>1. PopStatus /\ UNCHANGED <<intents, ordinal, mailbox, disp>>
    BY <1>4 DEF DrainStatus, PopStatus, intentVars
  <2>2. TypeOK
    BY TypesInParts DEF ObservationInv
  <2>3. TellTypes'
    BY <2>1, <2>2, PopTypes DEF TellTypes
  <2>4. StopTypes' /\ StopInOrder'
    BY <1>1, <1>2, <2>1 DEF StopTypes, StopInOrder, stopVars, CapMuFree
  <2> QED
    BY <1>2, <2>3, <2>4
<1>5. CASE SeeDrained
  <2>1. TellTypes' /\ intents' = intents
    BY <1>5, TellUntouched DEF SeeDrained, intentVars
  <2>2. PredictorDrained => worker.pc = "ended"
    BY DEF StopInOrder, PredictorDrained
  <2>3. disp' = [pc |-> "tail", predDone |-> PredictorDrained]
    BY <1>5 DEF SeeDrained
  <2>4. StopTypes'
    BY <1>1, <2>3 DEF StopTypes, stopVars, PredictorDrained
  <2>5. StopInOrder'
    BY <1>1, <1>2, <2>1, <2>2, <2>3 DEF StopInOrder, stopVars, CapMuFree
  <2> QED
    BY <1>2, <2>1, <2>4, <2>5
<1>6. CASE DispatcherLeave
  <2>1. TellTypes' /\ intents' = intents /\ intents = <<>>
    BY <1>6, TellUntouched DEF DispatcherLeave, intentVars
  <2>2. /\ disp'.pc \in {"run", "exited"} /\ (disp'.pc = "exited" => disp.predDone)
        /\ disp'.predDone = disp.predDone /\ StopTypes'
    BY <1>1, <1>6 DEF DispatcherLeave, StopTypes, stopVars
  <2>3. StopInOrder'
    BY <1>1, <1>2, <2>1, <2>2 DEF StopInOrder, stopVars, CapMuFree
  <2> QED
    BY <1>2, <2>1, <2>2, <2>3
<1> QED
  BY <1>3, <1>4, <1>5, <1>6

(* Every step of the thread that shuts down preserves the invariant.        *)
LEMMA CloserSteps ==
  ASSUME PredictorInv, Closer \/ \E b \in BOOLEAN : CloseCapture(b)
  PROVE  PredictorInv'
<1> USE DEF PredictorInv
<1>1. CASE Patch
  <2>1. PopStatus /\ UNCHANGED <<intents, ordinal, mailbox, disp, stopVars, obsVars>>
    BY <1>1 DEF Patch, PopStatus, intentVars, obsVars
  <2>2. ObservationInv' /\ TypeOK
    BY <2>1, ObservationsUntouched, TypesInParts DEF ObservationInv
  <2>3. TellTypes'
    BY <2>1, <2>2, PopTypes DEF TellTypes
  <2>4. StopTypes' /\ StopInOrder'
    BY <2>1 DEF StopTypes, StopInOrder, stopVars, obsVars, capVars, CapMuFree
  <2> QED
    BY <2>2, <2>3, <2>4
<1>2. CASE ~Patch
  <2>1. UNCHANGED <<obsVars, intentVars, tellVars, rowVars, disp>>
    BY <1>2 DEF Closer, CloseCapture, AskDispatcher, IdleWaitEnds, StopWorker, JoinWorker,
       JoinTimesOut, SetLatch, StopDispatcher, JoinDispatcher, JoinDispatcherTimesOut, Encode,
       BystandersOfStop, obsVars
  <2>2. ObservationInv' /\ TellTypes'
    BY <2>1, ObservationsUntouched, TellUntouched
  <2>3. UNCHANGED <<hook, worker, ring, intents, disp>>
    BY <2>1 DEF obsVars, capVars, intentVars
  <2>4. CASE \E b \in BOOLEAN : CloseCapture(b)
    <3>1. /\ CapMuFree /\ cut' = TRUE /\ closer'.pc \in {"idle", "askDisp"}
          /\ UNCHANGED <<workerStop, running, latch, timedOut, stopping>>
      BY <2>4 DEF CloseCapture
    <3>2. StopTypes'
      BY <2>3, <2>4 DEF CloseCapture, StopTypes
    <3> QED
      BY <2>2, <2>3, <3>1, <3>2 DEF StopInOrder, CapMuFree
  <2>5. CASE AskDispatcher \/ IdleWaitEnds \/ StopDispatcher \/ JoinDispatcher
             \/ JoinDispatcherTimesOut \/ Encode
    <3>1. /\ closer'.pc \in {"idle", "stop", "patch", "joinDisp", "drained", "gaveUp", "encoded"}
          /\ closer.pc # "open" /\ UNCHANGED <<cut, workerStop, running, latch>>
      BY <2>5 DEF AskDispatcher, IdleWaitEnds, StopDispatcher, JoinDispatcher,
         JoinDispatcherTimesOut, Encode, CloserStep, BystandersOfStop, StopTypes
    <3>2. StopTypes'
      BY ZenonT(40), <2>3, <2>5 DEF AskDispatcher, IdleWaitEnds, StopDispatcher, JoinDispatcher,
         JoinDispatcherTimesOut, Encode, CloserStep, BystandersOfStop, StopTypes
    <3> QED
      BY <2>2, <2>3, <3>1, <3>2 DEF StopInOrder, CapMuFree
  <2>6. CASE StopWorker
    <3>1. /\ closer.pc = "stop" /\ closer'.pc = IF running THEN "join" ELSE "joined"
          /\ UNCHANGED <<cut, running, latch>> /\ workerStop' = (workerStop \/ running)
      BY <2>6 DEF StopWorker, CloserStep, BystandersOfStop, StopTypes
    <3>2. StopTypes'
      BY <2>3, <2>6 DEF StopWorker, CloserStep, BystandersOfStop, StopTypes
    <3>3. cut
      BY <3>1 DEF StopInOrder
    <3> QED
      BY <2>2, <2>3, <3>1, <3>2, <3>3 DEF StopInOrder, CapMuFree
  <2>7. CASE JoinWorker \/ JoinTimesOut \/ SetLatch
    <3>1. /\ closer.pc # "open" /\ UNCHANGED <<cut, workerStop>>
          /\ \/ /\ worker.pc = "ended" /\ ~running' /\ latch' = latch
             \/ closer'.pc # "joined" /\ running' = running /\ latch' = latch
             \/ closer.pc = "joined" /\ closer'.pc # "joined" /\ running' = running
      BY <2>7 DEF JoinWorker, JoinTimesOut, SetLatch, CloserStep, BystandersOfStop, StopTypes
    <3>2. StopTypes'
      BY <2>3, <2>7 DEF JoinWorker, JoinTimesOut, SetLatch, CloserStep, BystandersOfStop,
         StopTypes
    <3>3. closer'.pc # "open" /\ closer.pc # "open"
      BY <2>7 DEF JoinWorker, JoinTimesOut, SetLatch, CloserStep, StopTypes
    <3> QED
      BY <2>2, <2>3, <3>1, <3>2, <3>3 DEF StopInOrder, CapMuFree
  <2> QED
    BY <1>2, <2>4, <2>5, <2>6, <2>7 DEF Closer
<1> QED
  BY <1>1, <1>2

(* The invariant of the predictor.                                          *)
THEOREM PredictorSafe == Spec => []PredictorInv
<1>1. PredictorInv /\ [Next]_vars => PredictorInv'
  <2> SUFFICES ASSUME PredictorInv, [Next]_vars PROVE PredictorInv'
    OBVIOUS
  <2>1. CASE UNCHANGED vars
    <3>1. ObservationInv'
      BY <2>1, ObservationsUntouched DEF vars, obsVars, PredictorInv
    <3>2. TellTypes' /\ StopTypes' /\ StopInOrder'
      BY <2>1, TellUntouched DEF vars, PredictorInv, StopTypes, StopInOrder, stopVars, capVars,
         intentVars, CapMuFree
    <3> QED
      BY <3>1, <3>2 DEF PredictorInv
  <2>2. CASE Next
    BY <2>2, ComputeStep, PredictorStep, DispatcherStep, CloserSteps DEF Next, Dispatcher
  <2> QED
    BY <2>1, <2>2
<1> QED
  BY <1>1, PredictorInit, PTL DEF Spec

-----------------------------------------------------------------------------
(* Every variable of the predictor keeps its type.                          *)
THEOREM TypeCorrect == Spec => []TypeOK
<1>1. PredictorInv => TypeOK
  BY TypesInParts DEF PredictorInv, ObservationInv
<1> QED
  BY <1>1, PredictorSafe, PTL

(* The hook never fills a slot that is queued or that the worker reads, and *)
(* no slot is queued twice.                                                 *)
THEOREM SlotsNeverShared == Spec => []SlotsApart
<1>1. PredictorInv => SlotsApart
  BY DEF PredictorInv, ObservationInv
<1> QED
  BY <1>1, PredictorSafe, PTL

(* The counters of the wire balance with the captures at every moment, also *)
(* through a shutdown.                                                      *)
THEOREM EveryCaptureAccounted == Spec => []CapturesAccounted
<1>1. PredictorInv => CapturesAccounted
  BY DEF PredictorInv, ObservationInv
<1> QED
  BY <1>1, PredictorSafe, PTL

(* Prefetching is off for the current request exactly if a guess of it      *)
(* found the queue full: the worker judges in the order of the requests, so *)
(* that a late guess cannot take the switch from a newer request.           *)
THEOREM SwitchIsOwn == Spec => []DisabledIsOwn
<1>1. PredictorInv => DisabledIsOwn
  BY DEF PredictorInv, ObservationInv
<1> QED
  BY <1>1, PredictorSafe, PTL

(* The dispatcher exits only when the worker can queue nothing any more.    *)
THEOREM ExitAfterWorker == Spec => []NoIntentLeftBehind
<1>1. PredictorInv => NoIntentLeftBehind
  BY DEF PredictorInv, StopInOrder, NoIntentLeftBehind
<1> QED
  BY <1>1, PredictorSafe, PTL

(* A step of the hook or of the worker after the cut observes nothing new.  *)
LEMMA NothingAfterCut ==
  ASSUME PredictorInv, Next, cut
  PROVE  /\ ctr'.captured = ctr.captured /\ seen' \subseteq seen
         /\ \A k \in Keys : fate[k] = "none" => fate'[k] = "none"
<1> USE DEF PredictorInv, ObservationInv
<1>1. ctr \in [Counters -> Nat] /\ fate \in [Keys -> Reasons \cup {"queued", "predicted", "overflow"}]
  BY DEF SlotTypes, EpochTypes, Counters
<1>2. ASSUME NEW c \in {"predicted", "overflow", "nonfinite"}, Count(c)
      PROVE  ctr'.captured = ctr.captured
  BY <1>1, <1>2, CountTypes DEF Counters
<1>3. CASE RunBegin \/ GraphBegin \/ Compute
  <2>1. hook.pc \notin {"decide", "register"}
    BY DEF StopInOrder, CapMuFree
  <2>2. UNCHANGED <<ctr, fate>> /\ seen' \subseteq seen
    BY <1>3, <2>1 DEF RunBegin, GraphBegin, Compute, Enable, HookRead, HookEnter, HookDecide,
       HookRegister, GraphEnd, AcquireRefused, capVars, ghosts
  <2> QED
    BY <2>2
<1>4. CASE Predictor
  <2>1. seen' = seen
    BY <1>4 DEF Predictor, WorkerTake, WorkerEnd, Judge, Publish, CountPredicted, TellOverflow,
       ReturnSlot, capVars
  <2>2. ctr'.captured = ctr.captured
    BY <1>2, <1>4 DEF Predictor, WorkerTake, WorkerEnd, Judge, Publish, Enqueue, CountPredicted,
       TellOverflow, ReturnSlot
  <2>3. ASSUME Judge \/ Publish
        PROVE  \A k \in Keys : fate[k] = "none" => fate'[k] = "none"
    <3>1. worker.slot \in Unjudged /\ MyKey = KeyOf(worker.slot)
      BY <2>3 DEF Judge, Publish, Unjudged, MyKey, Mine, KeyOf
    <3>2. fate[MyKey] = "queued"
      BY <3>1 DEF CapturesKnown
    <3>3. \A k \in Keys : k # MyKey => fate'[k] = fate[k]
      BY <1>1, <2>3 DEF Judge, Publish, Enqueue
    <3> QED
      BY <3>2, <3>3
  <2>4. CASE ~(Judge \/ Publish)
    BY <1>4, <2>1, <2>2, <2>4 DEF Predictor, WorkerTake, WorkerEnd, CountPredicted, TellOverflow, ReturnSlot,
       ghosts
  <2> QED
    BY <2>1, <2>2, <2>3, <2>4
<1>5. CASE Dispatcher \/ Closer \/ \E b \in BOOLEAN : CloseCapture(b)
  <2>1. UNCHANGED <<capVars, ctr, ghosts>>
    BY <1>5 DEF Dispatcher, AcquireRow, Admit, CutAdmit, TakeIntent, DrainStatus, PopStatus,
       SeeDrained, DispatcherLeave, Closer, CloseCapture, AskDispatcher, IdleWaitEnds,
       StopWorker, JoinWorker, JoinTimesOut, SetLatch, StopDispatcher, JoinDispatcher,
       JoinDispatcherTimesOut, Patch, Encode, BystandersOfStop
  <2> QED
    BY <2>1 DEF capVars, ghosts
<1> QED
  BY <1>3, <1>4, <1>5 DEF Next

(* The cut is where the observations end.                                   *)
THEOREM CutEndsObservations == Spec => CutIsFinal
<1>1. PredictorInv /\ [Next]_vars =>
        [cut => /\ ctr'.captured = ctr.captured /\ seen' \subseteq seen
                /\ \A k \in Keys : fate[k] = "none" => fate'[k] = "none"]_vars
  BY NothingAfterCut
<1> QED
  BY <1>1, PredictorSafe, PTL DEF Spec, CutIsFinal

-----------------------------------------------------------------------------
(* What the rows say.                                                       *)

(* The rows that tell of a guess, and the layer it was made from.           *)
Guessed   == {k \in Keys : k[2] # 1}
Source(k) == <<k[1], k[2] - 1>>
FateOf(k) == fate[Source(k)]

(* The note a row is owed: the reason why there is no guess, or the         *)
(* overflow once the worker has told of it.                                 *)
Untold  == IF worker.pc = "tell" THEN {MyKey} ELSE {}
Owed(k) == [reason   |-> IF FateOf(k) \in Reasons THEN FateOf(k) ELSE "none",
            overflow |-> FateOf(k) = "overflow" /\ Source(k) \notin Untold]
Says(n, o)  == n.reason = o.reason /\ n.overflow = o.overflow
Silent(n)   == n.reason = "none" /\ ~n.overflow
NoteKey(n)  == <<n.gs, n.target>>
InRing(k)   == \E i \in DOMAIN status : NoteKey(status[i]) = k
InQueue(k)  == \E i \in DOMAIN intents : NoteKey(intents[i]) = k

(* What is under way to a row, and what has arrived, is what it is owed:    *)
(* the mailbox of the current graph, the notes in the ring, those kept for  *)
(* a row that is not made, the rows themselves and the intents.             *)
MailTells ==
  /\ mailbox.gs = graphs
  /\ \A k \in Guessed : mailbox.gs = k[1] => Says(mailbox.note[k[2]], Owed(k))
RingTells ==
  \A i \in DOMAIN status : status[i].target \in Targets =>
    /\ NoteKey(status[i]) \in Guessed
    /\ Says(status[i], Owed(NoteKey(status[i]))) /\ ~Silent(status[i])
PendingTells ==
  \A k \in Guessed :
    IF pending[k].held THEN ~row[k].made /\ Says(pending[k], Owed(k)) /\ ~Silent(pending[k])
                       ELSE Silent(pending[k])
RowTells ==
  \A k \in Guessed : row[k].made =>
    IF row[k].intent
    THEN FateOf(k) = "predicted" /\ Silent(row[k])
    ELSE /\ row[k].reason = "sourceRange" \/ (row[k].reason = Owed(k).reason /\ row[k].reason # "none")
         /\ row[k].overflow => Owed(k).overflow
IntentsTell ==
  \A i \in DOMAIN intents :
    NoteKey(intents[i]) \in Guessed /\ FateOf(NoteKey(intents[i])) = "predicted"

(* As long as nothing was dropped, nothing is missing.                      *)
RowHas(k) ==
  /\ row[k].made /\ row[k].overflow = Owed(k).overflow
  /\ row[k].reason = IF Owed(k).reason = "none" THEN "sourceRange" ELSE Owed(k).reason
Delivered ==
  incomplete = {} => \A k \in Guessed :
    /\ Silent(Owed(k)) \/ InRing(k) \/ pending[k].held \/ RowHas(k)
    /\ FateOf(k) = "predicted" => InQueue(k) \/ (row[k].made /\ row[k].intent)
Tells == MailTells /\ RingTells /\ PendingTells /\ RowTells /\ IntentsTell /\ Delivered

(* A capture without a verdict is still in the hands of the worker.         *)
Outstanding ==
  /\ \A k \in Keys : fate[k] = "queued" => \E s \in Unjudged : KeyOf(s) = k
  /\ worker.pc = "tell" => fate[MyKey] = "overflow"

(* The rows are written after the dispatcher has left and all notes have    *)
(* been taken.                                                              *)
WrittenLast ==
  ~timedOut => /\ closer.pc \in {"patch", "encoded"} => disp.pc = "exited"
               /\ closer.pc = "encoded" => status = <<>>
RowsInv == Tells /\ Outstanding /\ WrittenLast

-----------------------------------------------------------------------------
(* A row that tells of a guess belongs to a layer that has a layer before   *)
(* it, and no two of them to the same one.                                  *)
LEMMA GuessedKeys ==
  /\ \A k \in Guessed : /\ k \in Keys /\ Source(k) \in Keys
                        /\ k[1] \in Graphs /\ k[2] \in Targets /\ k = <<k[1], k[2]>>
                        /\ Source(k)[2] < Layers
  /\ \A g \in Graphs, t \in Targets :
       /\ t + 1 \in Targets <=> <<g, t + 1>> \in Guessed
       /\ Source(<<g, t + 1>>) = <<g, t>>
       /\ \A k \in Guessed : Source(k) = <<g, t>> <=> k = <<g, t + 1>>
<1> USE PhaseBAssumption DEF Guessed, Keys, Source, Targets
<1>1. ASSUME NEW k \in Guessed
      PROVE  /\ k \in Keys /\ Source(k) \in Keys
             /\ k[1] \in Graphs /\ k[2] \in Targets /\ k = <<k[1], k[2]>>
             /\ Source(k)[2] < Layers
  <2>1. PICK g \in Graphs, t \in Targets : k = <<g, t>>
    BY <1>1
  <2>2. t # 1 /\ t - 1 \in Targets /\ t - 1 < Layers
    BY <1>1, <2>1
  <2> QED
    BY <2>1, <2>2
<1>2. ASSUME NEW g \in Graphs, NEW t \in Targets
      PROVE  /\ t + 1 \in Targets <=> <<g, t + 1>> \in Guessed
             /\ Source(<<g, t + 1>>) = <<g, t>>
  BY <1>2
<1>3. ASSUME NEW g \in Graphs, NEW t \in Targets, NEW k \in Guessed
      PROVE  Source(k) = <<g, t>> <=> k = <<g, t + 1>>
  <2>1. PICK h \in Graphs, u \in Targets : k = <<h, u>>
    BY <1>3
  <2>2. Source(k) = <<h, u - 1>> /\ u \in Int /\ t \in Int
    BY <2>1
  <2> QED
    BY <2>1, <2>2
<1> QED
  BY <1>1, <1>2, <1>3

(* A step that gives one layer of a graph a fate leaves what the others'    *)
(* rows are owed.                                                           *)
LEMMA OwedElsewhere ==
  ASSUME NEW key, \A j \in Keys : j # key => fate'[j] = fate[j],
         \A j \in Keys : j # key => (j \in Untold' <=> j \in Untold)
  PROVE  \A k \in Guessed : Source(k) # key => Owed(k)' = Owed(k) /\ FateOf(k)' = FateOf(k)
<1> SUFFICES ASSUME NEW k \in Guessed, Source(k) # key
             PROVE  Owed(k)' = Owed(k) /\ FateOf(k)' = FateOf(k)
  OBVIOUS
<1>1. Source(k) \in Keys
  BY GuessedKeys
<1>2. FateOf(k)' = FateOf(k) /\ (Source(k) \in Untold' <=> Source(k) \in Untold)
  BY <1>1 DEF FateOf, Source
<1> QED
  BY <1>2 DEF Owed, Source

(* What every row is owed stays, and so does which guesses were queued.     *)
OwedKept == \A k \in Guessed : /\ Owed(k)' = Owed(k)
                               /\ FateOf(k)' = "predicted" <=> FateOf(k) = "predicted"

(* A step that neither owes nor tells anything.                             *)
LEMMA QuietStep ==
  ASSUME Tells, OwedKept, graphs' = graphs, UNCHANGED <<tellVars, rowVars, intents>>
  PROVE  Tells'
<1> USE DEF Tells, OwedKept, tellVars, rowVars
<1>1. MailTells'
  BY DEF MailTells, Says
<1>2. RingTells'
  BY DEF RingTells, Says, Silent, NoteKey
<1>3. PendingTells' /\ RowTells'
  BY DEF PendingTells, RowTells, Says, Silent
<1>4. IntentsTell'
  BY DEF IntentsTell, NoteKey
<1>5. Delivered'
  BY DEF Delivered, Silent, InRing, InQueue, RowHas
<1> QED
  BY <1>1, <1>2, <1>3, <1>4, <1>5

(* A guess joins the queue of the dispatcher.                               *)
LEMMA IntentQueued ==
  ASSUME TellTypes, EpochTypes, Tells,
         NEW g \in Graphs, NEW t \in Targets, t < Layers,
         NEW i \in [ordinal : Nat, gs : Graphs, target : Targets],
         i.gs = g, i.target = t + 1, intents' = Append(intents, i),
         fate[<<g, t>>] = "queued", fate' = [fate EXCEPT ![<<g, t>>] = "predicted"],
         Untold' = Untold, graphs' = graphs, UNCHANGED <<tellVars, rowVars>>
  PROVE  Tells'
<1> USE PhaseBAssumption DEF Tells, tellVars, rowVars
<1> DEFINE T == [ordinal : Nat, gs : Graphs, target : Targets]
           k0 == <<g, t + 1>>
<1>1. /\ intents \in Seq(T) /\ DOMAIN intents' = DOMAIN intents \cup {Len(intents) + 1}
      /\ \A j \in DOMAIN intents : intents'[j] = intents[j]
      /\ intents'[Len(intents) + 1] = i
  <2>1. intents \in Seq(T) /\ i \in T /\ intents' = Append(intents, i)
    BY DEF TellTypes
  <2> HIDE DEF T
  <2> QED
    BY ONLY <2>1, QueueGrows
<1>2. /\ k0 \in Guessed /\ Source(k0) = <<g, t>> /\ <<g, t>> \in Keys
      /\ \A k \in Guessed : Source(k) = <<g, t>> <=> k = k0
  <2>1. t + 1 \in Targets
    BY DEF Targets
  <2> QED
    BY <2>1, GuessedKeys DEF Keys
<1>3. fate'[<<g, t>>] = "predicted" /\ \A j \in Keys : j # <<g, t>> => fate'[j] = fate[j]
  BY <1>2 DEF EpochTypes
<1>4. \A k \in Guessed : k # k0 => Owed(k)' = Owed(k) /\ FateOf(k)' = FateOf(k)
  BY <1>2, <1>3, OwedElsewhere
<1>5. /\ FateOf(k0) = "queued" /\ FateOf(k0)' = "predicted"
      /\ Owed(k0)' = Owed(k0) /\ Silent(Owed(k0))
  BY <1>2, <1>3 DEF FateOf, Owed, Silent, Reasons, Source
<1> HIDE DEF k0
<1>6. MailTells'
  BY <1>4, <1>5 DEF MailTells, Says
<1>7. RingTells'
  <2>1. \A k \in Guessed : Owed(k)' = Owed(k)
    BY <1>4, <1>5
  <2> QED
    BY <2>1 DEF RingTells, Says, Silent, NoteKey
<1>8. PendingTells'
  BY <1>4, <1>5 DEF PendingTells, Says, Silent
<1>9. RowTells'
  BY <1>4, <1>5 DEF RowTells, Silent
<1>10. NoteKey(i) = k0
  BY DEF NoteKey, k0
<1>11. IntentsTell'
  <2>1. \A k \in Guessed : FateOf(k) = "predicted" => fate'[Source(k)] = "predicted"
    BY <1>4, <1>5 DEF FateOf, Source
  <2>2. ASSUME NEW j \in DOMAIN intents'
        PROVE  NoteKey(intents'[j]) \in Guessed /\ fate'[Source(NoteKey(intents'[j]))] = "predicted"
    <3>1. CASE j \in DOMAIN intents
      BY <1>1, <2>1, <3>1 DEF IntentsTell
    <3>2. CASE j = Len(intents) + 1
      BY <1>1, <1>2, <1>3, <1>10, <3>2
    <3> QED
      BY <1>1, <2>2, <3>1, <3>2
  <2> QED
    BY <2>2 DEF IntentsTell, NoteKey, FateOf, Source
<1>12. \A k : InQueue(k) => InQueue(k)'
  BY <1>1 DEF InQueue, NoteKey
<1>13. InQueue(k0)'
  BY <1>1, <1>10 DEF InQueue, NoteKey
<1>14. Delivered'
  BY <1>4, <1>5, <1>12, <1>13 DEF Delivered, InRing, RowHas, Silent
<1> QED
  BY <1>6, <1>7, <1>8, <1>9, <1>11, <1>14

(* The hook or the worker notes why there is no guess for the layer after   *)
(* this one.                                                                *)
LEMMA NoteTold ==
  ASSUME TellTypes, EpochTypes, Tells,
         NEW g \in Graphs, NEW t \in Targets, NEW r \in Reasons, NEW o \in BOOLEAN,
         r # "none" \/ o, Note(g, t + 1, r, o),
         FateOf(<<g, t + 1>>) # "predicted", Silent(Owed(<<g, t + 1>>)),
         fate'[<<g, t>>] = IF o THEN "overflow" ELSE r, o => r = "none", <<g, t>> \notin Untold',
         \A j \in Keys : j # <<g, t>> => fate'[j] = fate[j] /\ (j \in Untold' <=> j \in Untold),
         graphs' = graphs, UNCHANGED <<rowVars, intents>>
  PROVE  Tells'
<1> USE PhaseBAssumption DEF Tells, rowVars
<1> DEFINE k0 == <<g, t + 1>>
           n  == [gs |-> g, target |-> t + 1, reason |-> r, overflow |-> o]
           w  == [reason |-> r, overflow |-> o]
<1>1. /\ k0 \in Guessed <=> t + 1 \in Targets
      /\ Source(k0) = <<g, t>> /\ <<g, t>> \in Keys
      /\ \A k \in Guessed : Source(k) = <<g, t>> <=> k = k0
  BY GuessedKeys DEF Keys
<1>2. \A k \in Guessed : k # k0 => Owed(k)' = Owed(k) /\ FateOf(k)' = FateOf(k)
  BY <1>1, OwedElsewhere
<1>3. Owed(k0)' = w /\ FateOf(k0)' # "predicted" /\ FateOf(k0) # "predicted" /\ Silent(Owed(k0))
  <2>1. FateOf(k0)' = IF o THEN "overflow" ELSE r
    BY <1>1 DEF FateOf, Source
  <2>2. Owed(k0)' = [reason |-> IF FateOf(k0)' \in Reasons THEN FateOf(k0)' ELSE "none",
                     overflow |-> FateOf(k0)' = "overflow"]
    BY <1>1 DEF Owed, Source
  <2> QED
    BY <2>1, <2>2 DEF Reasons
<1>4. /\ NoteKey(n) = k0 /\ n.target = t + 1 /\ n.reason = r /\ n.overflow = o /\ ~Silent(n)
      /\ ~Silent(w) /\ w.reason = r /\ w.overflow = o /\ Says(n, w)
  BY DEF NoteKey, Silent, Says
<1>5. /\ status \in Seq(NoteType) /\ n \in NoteType
      /\ mailbox \in [gs : 0..MaxGraphs, note : [Targets -> Notes]]
  BY DEF TellTypes, NoteType, Targets
<1> HIDE DEF n, w
<1>6. \/ incomplete' # {} /\ status' = status
      \/ incomplete' = incomplete /\ status' = Append(status, n)
  BY DEF Note, n
<1>7. status' = Append(status, n) =>
        /\ DOMAIN status' = DOMAIN status \cup {Len(status) + 1}
        /\ \A j \in DOMAIN status : status'[j] = status[j]
        /\ status'[Len(status) + 1] = n
  <2>1. /\ DOMAIN Append(status, n) = DOMAIN status \cup {Len(status) + 1}
        /\ \A j \in DOMAIN status : Append(status, n)[j] = status[j]
        /\ Append(status, n)[Len(status) + 1] = n
    BY ONLY <1>5, QueueGrows
  <2> QED
    BY <2>1
<1>8. MailTells'
  <2>1. mailbox'.gs = mailbox.gs /\ mailbox.gs = graphs
    BY DEF Note, MailTells
  <2>2. \A k \in Guessed : mailbox.gs = k[1] /\ k # k0 => mailbox'.note[k[2]] = mailbox.note[k[2]]
    <3> SUFFICES ASSUME NEW k \in Guessed, mailbox.gs = k[1], k # k0
                 PROVE  mailbox'.note[k[2]] = mailbox.note[k[2]]
      OBVIOUS
    <3>1. k[2] \in Targets /\ k = <<k[1], k[2]>>
      BY GuessedKeys
    <3>2. mailbox.gs = g => k[2] # t + 1
      BY <3>1
    <3> QED
      BY <1>5, <3>1, <3>2 DEF Note
  <2>3. k0 \in Guessed /\ mailbox.gs = g => Says(mailbox'.note[t + 1], w)
    <3> SUFFICES ASSUME k0 \in Guessed, mailbox.gs = g
                 PROVE  Says(mailbox'.note[t + 1], w)
      OBVIOUS
    <3>1. t + 1 \in Targets /\ Says(mailbox.note[t + 1], Owed(k0))
      BY <1>1 DEF MailTells
    <3>2. mailbox'.note[t + 1] = Marked(mailbox.note[t + 1], r, o)
      BY <1>5, <3>1 DEF Note
    <3>3. mailbox.note[t + 1] \in Notes
      BY <1>5, <3>1
    <3> QED
      BY <1>3, <1>4, <3>1, <3>2, <3>3 DEF Marked, Says, Silent, Notes
  <2>4. \A k \in Guessed : mailbox.gs = k[1] => Says(mailbox'.note[k[2]], Owed(k)')
    <3> SUFFICES ASSUME NEW k \in Guessed, mailbox.gs = k[1]
                 PROVE  Says(mailbox'.note[k[2]], Owed(k)')
      OBVIOUS
    <3>1. CASE k = k0
      BY <1>3, <2>3, <3>1
    <3>2. CASE k # k0
      BY <1>2, <2>2, <3>2 DEF MailTells
    <3> QED
      BY <3>1, <3>2
  <2> QED
    BY <2>1, <2>4 DEF MailTells, Says
<1>9. RingTells'
  <2>1. \A j \in DOMAIN status : \A k : status[j].target \in Targets /\ k = NoteKey(status[j]) =>
          k \in Guessed /\ Says(status[j], Owed(k)') /\ ~Silent(status[j])
    <3> SUFFICES ASSUME NEW j \in DOMAIN status, status[j].target \in Targets, NEW k,
                        k = NoteKey(status[j])
                 PROVE  k \in Guessed /\ Says(status[j], Owed(k)') /\ ~Silent(status[j])
      OBVIOUS
    <3>1. k \in Guessed /\ Says(status[j], Owed(k)) /\ ~Silent(status[j])
      BY DEF RingTells
    <3>2. k # k0
      BY <1>3, <3>1 DEF Says, Silent
    <3> QED
      BY <1>2, <3>1, <3>2
  <2>2. t + 1 \in Targets => k0 \in Guessed /\ Says(n, Owed(k0)') /\ ~Silent(n)
    BY <1>1, <1>3, <1>4
  <2>3. CASE status' = status
    BY <2>1, <2>3 DEF RingTells, Says, Silent, NoteKey
  <2>4. CASE status' = Append(status, n)
    <3> SUFFICES ASSUME NEW j \in DOMAIN status', status'[j].target \in Targets, NEW k,
                        k = NoteKey(status'[j])
                 PROVE  k \in Guessed /\ Says(status'[j], Owed(k)') /\ ~Silent(status'[j])
      BY DEF RingTells, Says, Silent, NoteKey
    <3>1. CASE j \in DOMAIN status
      BY <1>7, <2>1, <2>4, <3>1
    <3>2. CASE j = Len(status) + 1
      BY <1>4, <1>7, <2>2, <2>4, <3>2
    <3> QED
      BY <1>7, <2>4, <3>1, <3>2
  <2> QED
    BY <1>6, <2>3, <2>4
<1>10. PendingTells' /\ RowTells'
  <2>1. \A k \in Guessed : k # k0 => Owed(k)' = Owed(k) /\ FateOf(k)' = FateOf(k)
    BY <1>2
  <2>2. k0 \in Guessed => ~pending[k0].held /\ Silent(pending[k0])
    BY <1>3 DEF PendingTells, Says, Silent
  <2>3. k0 \in Guessed /\ row[k0].made => ~row[k0].intent /\ row[k0].reason = "sourceRange" /\ ~row[k0].overflow
    BY <1>3 DEF RowTells, Silent
  <2> HIDE DEF k0
  <2>4. PendingTells'
    BY <2>1, <2>2 DEF PendingTells, Says, Silent
  <2>5. RowTells'
    BY <2>1, <2>3 DEF RowTells, Silent
  <2> QED
    BY <2>4, <2>5
<1>11. \A k \in Guessed : (FateOf(k)' = "predicted") <=> (FateOf(k) = "predicted")
  BY <1>2, <1>3
<1>12. IntentsTell'
  <2>1. \A k \in Guessed : FateOf(k) = "predicted" => fate'[Source(k)] = "predicted"
    BY <1>11 DEF FateOf, Source
  <2> QED
    BY <2>1 DEF IntentsTell, NoteKey, FateOf, Source
<1>13. Delivered'
  <2> SUFFICES ASSUME incomplete' = {}, NEW k \in Guessed
               PROVE  /\ Silent(Owed(k)') \/ InRing(k)' \/ pending[k].held \/ RowHas(k)'
                      /\ (FateOf(k)' = "predicted") => InQueue(k) \/ (row[k].made /\ row[k].intent)
    BY DEF Delivered, InQueue, NoteKey, Silent
  <2>1. status' = Append(status, n) /\ incomplete = {}
    BY <1>6
  <2>2. (FateOf(k)' = "predicted") => InQueue(k) \/ (row[k].made /\ row[k].intent)
    BY <1>11, <2>1 DEF Delivered
  <2>3. CASE k = k0
    <3>1. InRing(k)'
      BY <1>4, <1>7, <2>1, <2>3 DEF InRing, NoteKey
    <3> QED
      BY <2>2, <3>1
  <2>4. CASE k # k0
    <3>1. Owed(k)' = Owed(k)
      BY <1>2, <2>4
    <3>2. InRing(k) => InRing(k)'
      BY <1>7, <2>1 DEF InRing, NoteKey
    <3>3. RowHas(k) => RowHas(k)'
      BY <3>1 DEF RowHas
    <3> QED
      BY <2>1, <2>2, <3>1, <3>2, <3>3 DEF Delivered
  <2> QED
    BY <2>3, <2>4
<1> QED
  BY <1>8, <1>9, <1>10, <1>12, <1>13

(* A row that is not made takes up what was noted before: the note it is    *)
(* owed, or nothing yet if that is still in the ring.                       *)
LEMMA RowTakesUp ==
  ASSUME TellTypes, Tells, NEW k \in Guessed
  PROVE  /\ TheRow(k).made /\ (row[k].made => TheRow(k) = row[k])
         /\ ~row[k].made => ~TheRow(k).intent
         /\ ~TheRow(k).intent =>
              /\ \/ TheRow(k).reason = "sourceRange"
                 \/ TheRow(k).reason = Owed(k).reason /\ TheRow(k).reason # "none"
              /\ TheRow(k).overflow => Owed(k).overflow
         /\ TheRow(k).intent => FateOf(k) = "predicted" /\ Silent(TheRow(k))
         /\ pending[k].held \/ RowHas(k) =>
              /\ TheRow(k).overflow = Owed(k).overflow
              /\ TheRow(k).reason = IF Owed(k).reason = "none" THEN "sourceRange" ELSE Owed(k).reason
<1> USE DEF Tells
<1>1. /\ k \in Keys /\ k[2] # 1 /\ k[2] \in Targets
      /\ pending[k] \in Notes /\ row[k] \in RowType /\ mailbox.note[k[2]] \in Notes
  BY GuessedKeys DEF TellTypes, Guessed
<1>2. CASE row[k].made
  BY <1>1, <1>2 DEF TheRow, RowTells, PendingTells, RowHas
<1>3. CASE ~row[k].made
  <2>1. MailNote(k) \in Notes /\ (Says(MailNote(k), Owed(k)) \/ Silent(MailNote(k)))
    BY <1>1 DEF MailNote, MailTells, Says, Silent, NoNote, Notes, Reasons
  <2>2. IF pending[k].held THEN Says(pending[k], Owed(k)) ELSE Silent(pending[k])
    BY <1>3 DEF PendingTells
  <2>3. Owed(k).reason \in Reasons /\ Owed(k).overflow \in BOOLEAN
    BY DEF Owed, Reasons
  <2>4. TheRow(k) = NewRow(k) /\ ~RowHas(k)
    BY <1>3 DEF TheRow, RowHas
  <2> DEFINE r == IF pending[k].held /\ pending[k].reason # "none" THEN pending[k].reason
                  ELSE MailNote(k).reason
  <2>5. NewRow(k) = [made |-> TRUE, intent |-> FALSE,
                     reason |-> IF r # "none" THEN r ELSE "sourceRange",
                     overflow |-> MailNote(k).overflow \/ pending[k].overflow]
    BY <1>1 DEF NewRow
  <2>6. r = "none" \/ r = Owed(k).reason
    BY <2>1, <2>2 DEF Says, Silent
  <2>7. pending[k].held => r = Owed(k).reason
    BY <2>1, <2>2 DEF Says, Silent
  <2> HIDE DEF r
  <2>8. /\ MailNote(k).overflow \/ pending[k].overflow => Owed(k).overflow
        /\ pending[k].held => (MailNote(k).overflow \/ pending[k].overflow) = Owed(k).overflow
    BY <1>1, <2>1, <2>2, <2>3 DEF Says, Silent, Notes
  <2>9. /\ TheRow(k).made /\ TheRow(k).intent = FALSE
        /\ TheRow(k).reason = IF r # "none" THEN r ELSE "sourceRange"
        /\ TheRow(k).overflow = (MailNote(k).overflow \/ pending[k].overflow)
    BY <2>4, <2>5
  <2>10. /\ \/ TheRow(k).reason = "sourceRange"
            \/ TheRow(k).reason = Owed(k).reason /\ TheRow(k).reason # "none"
         /\ TheRow(k).overflow => Owed(k).overflow
    BY <2>6, <2>8, <2>9
  <2>11. pending[k].held =>
           /\ TheRow(k).overflow = Owed(k).overflow
           /\ TheRow(k).reason = IF Owed(k).reason = "none" THEN "sourceRange" ELSE Owed(k).reason
    BY <2>7, <2>8, <2>9
  <2> QED
    BY <1>3, <2>4, <2>9, <2>10, <2>11
<1> QED
  BY <1>2, <1>3

(* The write of a row leaves the other rows.                                *)
LEMMA RowWritten ==
  ASSUME TellTypes, NEW k \in Keys, NEW r, WithRow(k, r)
  PROVE  \/ incomplete' # {} /\ UNCHANGED <<row, pending>>
         \/ /\ row'[k] = r /\ incomplete' = incomplete
            /\ row[k].made \/ pending'[k] = NoNote
            /\ row[k].made => pending'[k] = pending[k]
            /\ \A j \in Keys : j # k => row'[j] = row[j] /\ pending'[j] = pending[j]
BY DEF WithRow, rowVars, TellTypes

(* An acquire or an intent makes the row of a layer.                        *)
LEMMA RowMade ==
  ASSUME TypeOK, TellTypes, Tells, NEW k \in Keys, NEW taken \in BOOLEAN,
         WithRow(k, IF taken THEN [TheRow(k) EXCEPT !.intent = TRUE, !.reason = "none"]
                    ELSE TheRow(k)),
         taken => k \in Guessed /\ FateOf(k) = "predicted",
         UNCHANGED <<fate, Untold, mailbox, status, graphs>>,
         \A i \in DOMAIN intents' : \E j \in DOMAIN intents : intents'[i] = intents[j],
         \A j \in Keys : InQueue(j) => InQueue(j)' \/ (taken /\ j = k)
  PROVE  Tells'
<1> USE DEF Tells
<1> DEFINE r == IF taken THEN [TheRow(k) EXCEPT !.intent = TRUE, !.reason = "none"]
                ELSE TheRow(k)
<1>1. \A j \in Guessed : Owed(j)' = Owed(j) /\ FateOf(j)' = FateOf(j) /\ j \in Keys
  BY GuessedKeys DEF Owed, FateOf, Source
<1>2. MailTells' /\ RingTells'
  BY <1>1 DEF MailTells, RingTells, Says, Silent, NoteKey
<1>3. IntentsTell'
  BY <1>1 DEF IntentsTell, NoteKey, FateOf, Source
<1>4. \/ incomplete' # {} /\ UNCHANGED <<row, pending>>
      \/ /\ row'[k] = r /\ incomplete' = incomplete
         /\ row[k].made \/ pending'[k] = NoNote
         /\ row[k].made => pending'[k] = pending[k]
         /\ \A j \in Keys : j # k => row'[j] = row[j] /\ pending'[j] = pending[j]
  BY RowWritten
<1>5. CASE incomplete' # {} /\ UNCHANGED <<row, pending>>
  BY <1>1, <1>2, <1>3, <1>5 DEF PendingTells, RowTells, Delivered, Says, Silent
<1>6. CASE ~(incomplete' # {} /\ UNCHANGED <<row, pending>>)
  <2>1. \A j \in Guessed : j # k => row'[j] = row[j] /\ pending'[j] = pending[j]
    BY <1>1, <1>4, <1>6
  <2>2. ASSUME k \in Guessed
        PROVE  /\ row'[k].made
               /\ IF row'[k].intent THEN FateOf(k) = "predicted" /\ Silent(row'[k])
                  ELSE /\ \/ row'[k].reason = "sourceRange"
                          \/ row'[k].reason = Owed(k).reason /\ row'[k].reason # "none"
                       /\ row'[k].overflow => Owed(k).overflow
               /\ ~pending'[k].held /\ Silent(pending'[k])
               /\ taken \/ (row[k].made /\ row[k].intent) => row'[k].intent
               /\ pending[k].held \/ RowHas(k) => Silent(Owed(k)) \/ RowHas(k)'
    <3>1. row'[k] = r
      BY <1>4, <1>6
    <3>2. ~pending'[k].held /\ Silent(pending'[k])
      BY <1>4, <1>6, <2>2 DEF NoNote, PendingTells, Silent
    <3>3. TheRow(k) \in RowType
      BY RowLookedUp
    <3>4. CASE taken
      <4>1. Silent(Owed(k))
        BY <3>4 DEF Owed, Silent, Reasons
      <4>2. TheRow(k).made /\ ~TheRow(k).overflow
        BY <2>2, <4>1, RowTakesUp DEF Silent
      <4>3. row'[k].made /\ row'[k].intent /\ row'[k].reason = "none" /\ ~row'[k].overflow
        BY <3>1, <3>3, <3>4, <4>2 DEF RowType
      <4> QED
        BY <3>2, <3>4, <4>1, <4>3 DEF Silent
    <3>5. CASE ~taken
      <4>1. row'[k] = TheRow(k)
        BY <3>1, <3>5
      <4>2. /\ row'[k].made
            /\ IF row'[k].intent THEN FateOf(k) = "predicted" /\ Silent(row'[k])
               ELSE /\ \/ row'[k].reason = "sourceRange"
                       \/ row'[k].reason = Owed(k).reason /\ row'[k].reason # "none"
                    /\ row'[k].overflow => Owed(k).overflow
            /\ row[k].made /\ row[k].intent => row'[k].intent
        BY <2>2, <4>1, RowTakesUp DEF Silent
      <4>3. Owed(k)' = Owed(k)
        BY <1>1, <2>2
      <4>4. pending[k].held \/ RowHas(k) =>
              /\ row'[k].overflow = Owed(k).overflow
              /\ row'[k].reason = IF Owed(k).reason = "none" THEN "sourceRange" ELSE Owed(k).reason
        BY <2>2, <4>1, RowTakesUp
      <4>5. pending[k].held \/ RowHas(k) => RowHas(k)'
        BY <4>2, <4>3, <4>4 DEF RowHas
      <4> QED
        BY <3>2, <3>5, <4>2, <4>5
    <3> QED
      BY <3>4, <3>5
  <2>3. PendingTells'
    BY <1>1, <2>1, <2>2 DEF PendingTells, Says, Silent
  <2>4. RowTells'
    BY <1>1, <2>1, <2>2 DEF RowTells, Silent
  <2>5. Delivered'
    <3> SUFFICES ASSUME incomplete' = {}, NEW j \in Guessed
                 PROVE  /\ Silent(Owed(j)') \/ InRing(j)' \/ pending'[j].held \/ RowHas(j)'
                        /\ (FateOf(j)' = "predicted") => InQueue(j)' \/ (row'[j].made /\ row'[j].intent)
      BY DEF Delivered, Silent
    <3>1. /\ Silent(Owed(j)) \/ InRing(j) \/ pending[j].held \/ RowHas(j)
          /\ FateOf(j) = "predicted" => InQueue(j) \/ (row[j].made /\ row[j].intent)
      BY <1>4, <1>6 DEF Delivered
    <3>2. InRing(j) => InRing(j)'
      BY DEF InRing, NoteKey
    <3>3. CASE j = k
      BY <1>1, <2>2, <3>1, <3>2, <3>3
    <3>4. CASE j # k
      <4>1. RowHas(j) => RowHas(j)'
        BY <1>1, <2>1, <3>4 DEF RowHas
      <4> QED
        BY <1>1, <2>1, <3>1, <3>2, <3>4, <4>1
    <3> QED
      BY <3>3, <3>4
  <2> QED
    BY <1>2, <1>3, <2>3, <2>4, <2>5
<1> QED
  BY <1>5, <1>6

(* The oldest note is taken from the ring and reaches its row, or is kept   *)
(* for it.                                                                  *)
LEMMA PopTells ==
  ASSUME TypeOK, TellTypes, Tells, PopStatus
  PROVE  Tells'
<1> USE DEF Tells
<1>0. PICK e : e = Head(status)
  OBVIOUS
<1>1. /\ e \in NoteType /\ status' = Tail(status) /\ 1 \in DOMAIN status /\ status[1] = e
      /\ \A i \in DOMAIN status' : i + 1 \in DOMAIN status /\ status'[i] = status[i + 1]
      /\ \A i \in DOMAIN status : i = 1 \/ (i - 1 \in DOMAIN status' /\ status'[i - 1] = status[i])
  <2>1. status \in Seq(NoteType) /\ status # <<>> /\ status' = Tail(status)
    BY DEF PopStatus, TellTypes
  <2>2. /\ Head(status) \in NoteType /\ 1 \in DOMAIN status /\ Head(status) = status[1]
        /\ \A i \in DOMAIN Tail(status) : i + 1 \in DOMAIN status /\ Tail(status)[i] = status[i + 1]
    BY ONLY <2>1, QueueShrinks
  <2>3. \A i \in DOMAIN status : i = 1 \/ (i - 1 \in DOMAIN Tail(status) /\ Tail(status)[i - 1] = status[i])
    BY <2>1
  <2> QED
    BY <1>0, <2>1, <2>2, <2>3
<1>2. UNCHANGED <<fate, worker, content, graphs, mailbox, intents>>
  BY DEF PopStatus, epochVars, capVars, intentVars, ghosts
<1>3. \A j \in Guessed : Owed(j)' = Owed(j) /\ FateOf(j)' = FateOf(j) /\ j \in Keys /\ j[2] \in Targets
  BY <1>2, GuessedKeys DEF Owed, FateOf, Source, Untold, MyKey, Mine
<1>4. MailTells'
  BY <1>2, <1>3 DEF MailTells, Says
<1>5. RingTells'
  <2>1. \A i \in DOMAIN status : \A k : status[i].target \in Targets /\ k = NoteKey(status[i]) =>
          k \in Guessed /\ Says(status[i], Owed(k)') /\ ~Silent(status[i])
    BY <1>3 DEF RingTells
  <2>2. \A i \in DOMAIN status' : \A k : status'[i].target \in Targets /\ k = NoteKey(status'[i]) =>
          k \in Guessed /\ Says(status'[i], Owed(k)') /\ ~Silent(status'[i])
    BY <1>1, <2>1
  <2> QED
    BY <2>2 DEF RingTells, Says, Silent, NoteKey
<1>6. IntentsTell'
  BY <1>2, <1>3 DEF IntentsTell, NoteKey, FateOf, Source
<1>7. \A k : InRing(k) => InRing(k)' \/ k = NoteKey(e)
  BY <1>1 DEF InRing, NoteKey
<1>8. \A k : InQueue(k)' = InQueue(k)
  BY <1>2 DEF InQueue, NoteKey
<1>9. CASE UNCHANGED <<row, pending>> /\ (incomplete' # {} \/ (e.target \notin Targets /\ incomplete' = incomplete))
  <2>1. e.target \notin Targets => \A j \in Guessed : j # NoteKey(e)
    BY <1>3 DEF NoteKey
  <2>2. PendingTells' /\ RowTells'
    BY <1>3, <1>9 DEF PendingTells, RowTells, Says, Silent
  <2>3. \A j \in Guessed : RowHas(j) => RowHas(j)'
    BY <1>3, <1>9 DEF RowHas
  <2>4. Delivered'
    BY <1>3, <1>7, <1>8, <1>9, <2>1, <2>3 DEF Delivered, Silent
  <2> QED
    BY <1>4, <1>5, <1>6, <2>2, <2>4
<1>10. CASE /\ e.target \in Targets /\ ~(UNCHANGED <<row, pending>> /\ incomplete' # {})
  <2>1. PICK k : k = NoteKey(e)
    OBVIOUS
  <2>2. /\ k \in Guessed /\ Says(e, Owed(k)) /\ ~Silent(e) /\ k \in Keys /\ k = <<e.gs, e.target>>
        /\ FateOf(k) # "predicted" /\ e.reason \in Reasons /\ e.overflow \in BOOLEAN
    <3>1. k \in Guessed /\ Says(e, Owed(k)) /\ ~Silent(e)
      BY <1>1, <1>10, <2>1 DEF RingTells
    <3>2. FateOf(k) # "predicted"
      BY <3>1 DEF Says, Silent, Owed, Reasons
    <3> QED
      BY <1>1, <1>3, <2>1, <3>1, <3>2 DEF NoteKey, NoteType
  <2>3. row[k] \in RowType /\ pending[k] \in Notes /\ row \in [Keys -> RowType] /\ pending \in [Keys -> Notes]
    BY <2>2 DEF TellTypes
  <2>4. /\ incomplete' = incomplete
        /\ \A j \in Keys : j # k => row'[j] = row[j] /\ pending'[j] = pending[j]
        /\ row'[k].made = row[k].made
        /\ \/ /\ row[k].made /\ pending'[k] = pending[k] /\ row'[k].intent = row[k].intent
              /\ row'[k].reason = IF e.reason # "none" /\ ~row[k].intent THEN e.reason
                                  ELSE row[k].reason
              /\ row'[k].overflow = (row[k].overflow \/ e.overflow)
           \/ /\ ~row[k].made /\ pending'[k].held /\ row'[k] = row[k]
              /\ pending'[k].reason = IF e.reason # "none" THEN e.reason ELSE pending[k].reason
              /\ pending'[k].overflow = (pending[k].overflow \/ e.overflow)
    <3>1. CASE row[k].made
      <4> DEFINE x == [row[k] EXCEPT !.reason = IF e.reason # "none" /\ ~row[k].intent
                                                THEN e.reason ELSE @,
                                     !.overflow = @ \/ e.overflow]
      <4>1. row' = [row EXCEPT ![k].reason =
                      IF e.reason # "none" /\ ~row[k].intent THEN e.reason ELSE @,
                    ![k].overflow = @ \/ e.overflow]
            /\ UNCHANGED <<pending, incomplete>>
        BY <1>0, <1>10, <2>2, <3>1 DEF PopStatus
      <4>2. row' = [row EXCEPT ![k] = x]
        BY <2>2, <2>3, <4>1 DEF RowType
      <4>3. /\ x.made = row[k].made /\ x.intent = row[k].intent
            /\ x.reason = IF e.reason # "none" /\ ~row[k].intent THEN e.reason ELSE row[k].reason
            /\ x.overflow = (row[k].overflow \/ e.overflow)
        BY <2>3 DEF RowType
      <4> HIDE DEF x
      <4> QED
        BY <2>2, <2>3, <3>1, <4>1, <4>2, <4>3
    <3>2. CASE ~row[k].made
      <4> DEFINE x == [held |-> TRUE,
                       reason |-> IF e.reason # "none" THEN e.reason ELSE pending[k].reason,
                       overflow |-> pending[k].overflow \/ e.overflow]
      <4>1. pending' = [pending EXCEPT ![k] = x] /\ UNCHANGED <<row, incomplete>>
        BY <1>0, <1>10, <2>2, <2>3, <3>2 DEF PopStatus, rowVars
      <4>2. /\ x.held /\ x.reason = IF e.reason # "none" THEN e.reason ELSE pending[k].reason
            /\ x.overflow = (pending[k].overflow \/ e.overflow)
        OBVIOUS
      <4> HIDE DEF x
      <4> QED
        BY <2>2, <2>3, <3>2, <4>1, <4>2
    <3> QED
      BY <3>1, <3>2
  <2>5. Owed(k).reason = e.reason /\ Owed(k).overflow = e.overflow /\ (e.reason # "none" \/ e.overflow)
    BY <2>2 DEF Says, Silent
  <2>6. IF pending[k].held THEN ~row[k].made /\ pending[k].reason = e.reason /\ pending[k].overflow = e.overflow
                           ELSE pending[k].reason = "none" /\ ~pending[k].overflow
    BY <2>2, <2>5 DEF PendingTells, Says, Silent
  <2>7. row[k].made =>
          /\ ~row[k].intent
          /\ row[k].reason = "sourceRange" \/ (row[k].reason = e.reason /\ row[k].reason # "none")
          /\ row[k].overflow => e.overflow
    BY <2>2, <2>5 DEF RowTells
  <2>8. \/ /\ row'[k].made /\ ~row'[k].intent /\ row'[k].overflow = e.overflow
           /\ row'[k].reason = IF e.reason = "none" THEN "sourceRange" ELSE e.reason
           /\ pending'[k] = pending[k] /\ ~pending[k].held
        \/ /\ ~row'[k].made /\ pending'[k].held
           /\ pending'[k].reason = e.reason /\ pending'[k].overflow = e.overflow
    <3>1. CASE row[k].made
      BY <2>2, <2>3, <2>4, <2>5, <2>6, <2>7, <3>1 DEF RowType
    <3>2. CASE ~row[k].made
      BY <2>2, <2>3, <2>4, <2>5, <2>6, <3>2 DEF Notes
    <3> QED
      BY <3>1, <3>2
  <2>9. PendingTells'
    <3>1. IF pending'[k].held
          THEN ~row'[k].made /\ Says(pending'[k], Owed(k)) /\ ~Silent(pending'[k])
          ELSE Silent(pending'[k])
      BY <2>5, <2>6, <2>8 DEF Says, Silent
    <3> QED
      BY <1>3, <2>4, <3>1 DEF PendingTells, Says, Silent
  <2>10. RowTells'
    <3>1. row'[k].made =>
            /\ ~row'[k].intent
            /\ \/ row'[k].reason = "sourceRange"
               \/ row'[k].reason = Owed(k).reason /\ row'[k].reason # "none"
            /\ row'[k].overflow => Owed(k).overflow
      BY <2>5, <2>8
    <3> QED
      BY <1>3, <2>4, <3>1 DEF RowTells, Silent
  <2>11. Delivered'
    <3>1. RowHas(k)' \/ pending'[k].held
      <4>1. Owed(k)' = Owed(k)
        BY <1>3, <2>2
      <4> QED
        BY <2>5, <2>8, <4>1 DEF RowHas
    <3>2. \A j \in Guessed : j # k => (RowHas(j) => RowHas(j)')
      BY <1>3, <2>4 DEF RowHas
    <3>3. \A j \in Guessed : InRing(j) => InRing(j)' \/ j = k
      BY <1>7, <2>1
    <3> QED
      BY <1>3, <1>8, <2>2, <2>4, <3>1, <3>2, <3>3 DEF Delivered, Silent
  <2> QED
    BY <1>4, <1>5, <1>6, <2>9, <2>10, <2>11
<1>11. \/ UNCHANGED <<row, pending>> /\ (incomplete' # {} \/ (e.target \notin Targets /\ incomplete' = incomplete))
       \/ e.target \in Targets /\ ~(UNCHANGED <<row, pending>> /\ incomplete' # {})
  <2>1. CASE e.target \notin Targets
    BY <1>0, <2>1 DEF PopStatus, rowVars
  <2>2. CASE e.target \in Targets
    BY <2>2
  <2> QED
    BY <2>1, <2>2
<1> QED
  BY <1>9, <1>10, <1>11

(* A graph begins with a mailbox of its own; nothing is owed in it yet.     *)
LEMMA GraphBeginTells ==
  ASSUME PredictorInv, Tells, GraphBegin
  PROVE  Tells'
<1> USE PhaseBAssumption DEF Tells, PredictorInv, ObservationInv
<1>1. /\ graphs' = graphs + 1 /\ graphs \in Nat /\ graphs < MaxGraphs
      /\ mailbox' = [gs |-> graphs + 1, note |-> Blank]
      /\ UNCHANGED <<fate, worker, content, status, incomplete, row, pending, intents>>
  BY DEF GraphBegin, EpochTypes, capVars, rowVars, intentVars
<1>2. \A k \in Guessed : Owed(k)' = Owed(k) /\ FateOf(k)' = FateOf(k) /\ k[2] \in Targets
  BY <1>1, GuessedKeys DEF Owed, FateOf, Source, Untold, MyKey, Mine
<1>3. MailTells'
  <2> SUFFICES ASSUME NEW k \in Guessed, k[1] = graphs + 1
               PROVE  Says(Blank[k[2]], Owed(k))
    BY <1>1, <1>2 DEF MailTells, Says
  <2>1. FateOf(k) = "none"
    <3>1. k[1] \in Graphs /\ Source(k) \in Keys /\ Source(k) = <<k[1], k[2] - 1>>
      BY GuessedKeys DEF Source
    <3>2. k[2] - 1 \in Targets /\ k[1] > graphs
      BY <1>1, <3>1 DEF Keys
    <3> QED
      BY <3>1, <3>2 DEF FateOf, FateKnown
  <2> QED
    BY <1>2, <2>1 DEF Says, Owed, Blank, NoNote, Reasons
<1>4. RingTells'
  BY <1>1, <1>2 DEF RingTells, Says, Silent, NoteKey
<1>5. PendingTells' /\ RowTells'
  BY <1>1, <1>2 DEF PendingTells, RowTells, Says, Silent
<1>6. IntentsTell'
  BY <1>1, <1>2 DEF IntentsTell, NoteKey, FateOf, Source
<1>7. Delivered'
  BY <1>1, <1>2 DEF Delivered, Silent, InRing, InQueue, RowHas
<1> QED
  BY <1>3, <1>4, <1>5, <1>6, <1>7

-----------------------------------------------------------------------------
(* The steps of the threads.                                                *)

(* Where no fate changes and the worker does not come to tell, or has told, *)
(* of an overflow, nothing more is owed; nor by a capture that is queued or *)
(* an overflow of which the worker has not told.                            *)
LEMMA NothingOwed ==
  ASSUME NEW key, \A j \in Keys : j # key => fate'[j] = fate[j],
         \A j \in Keys : j # key => (j \in Untold' <=> j \in Untold),
         \/ fate'[key] = fate[key] /\ (key \in Untold' <=> key \in Untold)
         \/ /\ fate[key] \in {"none", "queued"}
            /\ fate'[key] = "queued" \/ (fate'[key] = "overflow" /\ key \in Untold')
  PROVE  OwedKept
<1> SUFFICES ASSUME NEW k \in Guessed
             PROVE  /\ Owed(k)' = Owed(k)
                    /\ FateOf(k)' = "predicted" <=> FateOf(k) = "predicted"
  BY DEF OwedKept
<1>1. CASE Source(k) # key
  BY <1>1, OwedElsewhere
<1>2. CASE Source(k) = key
  BY <1>2 DEF Owed, FateOf, Source, Reasons
<1> QED
  BY <1>1, <1>2

(* Steps that neither judge nor note nor take anything.                     *)
QuietHook   == RunBegin \/ Enable \/ HookRead \/ HookEnter \/ GraphEnd \/ AcquireRefused
QuietWorker == WorkerTake \/ WorkerEnd \/ CountPredicted \/ ReturnSlot
QuietStop   == SeeDrained \/ DispatcherLeave \/ (Closer /\ ~Patch) \/ \E b \in BOOLEAN : CloseCapture(b)

(* None of them changes what is owed or what was said.                      *)
LEMMA QuietTells ==
  ASSUME PredictorInv, Tells, QuietHook \/ QuietWorker \/ QuietStop
  PROVE  Tells'
<1>1. UNCHANGED <<fate, graphs, tellVars, rowVars, intents>>
  BY DEF QuietHook, QuietWorker, QuietStop, RunBegin, Enable, HookRead, HookEnter, GraphEnd,
     AcquireRefused, WorkerTake, WorkerEnd, CountPredicted, ReturnSlot, SeeDrained,
     DispatcherLeave, Closer, CloseCapture, AskDispatcher, IdleWaitEnds, StopWorker, JoinWorker,
     JoinTimesOut, SetLatch, StopDispatcher, JoinDispatcher, JoinDispatcherTimesOut, Encode,
     BystandersOfStop, CloserStep, epochVars, intentVars, ghosts
<1>2. Untold' = Untold
  <2>1. CASE QuietHook
    BY <2>1 DEF QuietHook, RunBegin, Enable, HookRead, HookEnter, GraphEnd, AcquireRefused,
       capVars, Untold, MyKey, Mine
  <2>2. CASE QuietWorker
    <3>1. worker.pc # "tell" /\ worker'.pc # "tell"
      BY <2>2 DEF QuietWorker, WorkerTake, WorkerEnd, CountPredicted, ReturnSlot, Step,
         PredictorInv, ObservationInv, SlotTypes
    <3> QED
      BY <3>1 DEF Untold
  <2>3. CASE QuietStop
    <3>1. UNCHANGED <<worker, content>>
      BY <2>3 DEF QuietStop, SeeDrained, DispatcherLeave, Closer, CloseCapture, AskDispatcher,
         IdleWaitEnds, StopWorker, JoinWorker, JoinTimesOut, SetLatch, StopDispatcher,
         JoinDispatcher, JoinDispatcherTimesOut, Encode, BystandersOfStop, capVars
    <3> QED
      BY <3>1 DEF Untold, MyKey, Mine
  <2> QED
    BY <2>1, <2>2, <2>3
<1>3. OwedKept
  BY <1>1, <1>2, NothingOwed
<1> QED
  BY <1>1, <1>3, QuietStep

(* What the worker has in hand while it judges: a capture that is queued,   *)
(* for a layer that is not the last.                                        *)
LEMMA InHand ==
  ASSUME PredictorInv, Outstanding, worker.pc \in {"judge", "publish", "count", "tell"}
  PROVE  \E g \in Graphs, t \in Targets :
           /\ t < Layers /\ MyKey = <<g, t>> /\ <<g, t>> \in Keys /\ Mine.gs = g /\ Mine.layer = t
           /\ worker.pc \in {"judge", "publish"} => fate[<<g, t>>] = "queued"
           /\ worker.pc = "tell" => fate[<<g, t>>] = "overflow"
<1> USE PhaseBAssumption DEF PredictorInv, ObservationInv
<1>1. worker.slot # NoSlot /\ worker.slot \in Queued \cup Busy
  BY DEF SlotsApart, Busy
<1>2. Mine.gs \in Graphs /\ Mine.layer \in Targets /\ Mine.layer \in 1..(Layers - 1)
  BY <1>1, KeysOfCaptures DEF CapturesKnown, Mine
<1>3. worker.pc \in {"judge", "publish"} => fate[MyKey] = "queued"
  BY DEF Unjudged, CapturesKnown, MyKey, Mine, KeyOf
<1>4. Mine.layer < Layers /\ <<Mine.gs, Mine.layer>> \in Keys
  BY <1>2 DEF Keys, Targets
<1> QED
  BY <1>2, <1>3, <1>4 DEF Outstanding, MyKey

(* A layer that is observed for the first time owes nothing yet.            *)
LEMMA NotOwedYet ==
  ASSUME NEW g \in Graphs, NEW t \in Targets,
         \/ fate[<<g, t>>] \in {"none", "queued"}
         \/ fate[<<g, t>>] = "overflow" /\ <<g, t>> \in Untold
  PROVE  FateOf(<<g, t + 1>>) # "predicted" /\ Silent(Owed(<<g, t + 1>>))
<1>1. Source(<<g, t + 1>>) = <<g, t>>
  BY GuessedKeys
<1> QED
  BY <1>1 DEF FateOf, Owed, Silent, Reasons

(* The hook refuses a capture.                                              *)
LEMMA SkipTells ==
  ASSUME PredictorInv, Tells, Outstanding, hook.pc \in {"decide", "register"},
         NEW r \in {"disabled", "ineligible", "sourceRange", "queueFull"}, Skip(r),
         UNCHANGED <<graphs, worker, content, rowVars, intents>>
  PROVE  Tells'
<1> USE DEF PredictorInv, ObservationInv
<1>1. PICK g \in Graphs, t \in Targets :
        g = hook.gs /\ t = hook.layer /\ fate[<<g, t>>] = "none" /\ <<g, t>> \in Keys
  <2>1. hook.gs = graph /\ graph # 0 /\ fate[<<graph, hook.layer>>] = "none"
    BY DEF HookKnows, InGraph
  <2>2. graph \in Graphs /\ hook.layer \in Targets
    BY <2>1 DEF EpochTypes, HookType, Graphs
  <2> QED
    BY <2>1, <2>2 DEF Keys
<1>2. FateOf(<<g, t + 1>>) # "predicted" /\ Silent(Owed(<<g, t + 1>>))
  BY <1>1, NotOwedYet
<1>3. Note(g, t + 1, r, FALSE) /\ fate' = [fate EXCEPT ![<<g, t>>] = r]
  BY <1>1 DEF Skip
<1>4. fate'[<<g, t>>] = r /\ \A j \in Keys : j # <<g, t>> => fate'[j] = fate[j]
  BY <1>1, <1>3 DEF EpochTypes
<1>5. Untold' = Untold
  BY DEF Untold, MyKey, Mine
<1>6. <<g, t>> \notin Untold'
  BY <1>1, <1>5 DEF Untold, Outstanding
<1>7. r \in Reasons /\ r # "none"
  BY DEF Reasons
<1> QED
  BY <1>1, <1>2, <1>3, <1>4, <1>5, <1>6, <1>7, NoteTold

(* The hook queues a capture.                                               *)
LEMMA RegisterTells ==
  ASSUME PredictorInv, Tells, Outstanding, HookRegister
  PROVE  Tells'
<1> USE DEF PredictorInv, ObservationInv
<1>1. UNCHANGED <<graphs, worker, rowVars, intents>> /\ hook.pc = "register"
  BY DEF HookRegister, epochVars, intentVars
<1>2. CASE free = {} /\ Skip("queueFull") /\ UNCHANGED content
  BY <1>1, <1>2, SkipTells
<1>3. CASE \E s \in free : /\ content' = [content EXCEPT ![s] =
                                [req |-> hook.req, gs |-> hook.gs, layer |-> hook.layer]]
                           /\ fate' = [fate EXCEPT ![<<hook.gs, hook.layer>>] = "queued"]
                           /\ UNCHANGED tellVars
  <2>1. PICK g \in Graphs, t \in Targets :
          g = hook.gs /\ t = hook.layer /\ fate[<<g, t>>] = "none" /\ <<g, t>> \in Keys
    <3>1. hook.gs = graph /\ graph # 0 /\ fate[<<graph, hook.layer>>] = "none"
      BY <1>1 DEF HookKnows, InGraph
    <3> QED
      BY <3>1 DEF EpochTypes, HookType, Graphs, Keys
  <2>2. fate'[<<g, t>>] = "queued" /\ \A j \in Keys : j # <<g, t>> => fate'[j] = fate[j]
    BY <1>3, <2>1 DEF EpochTypes
  <2>3. content'[worker.slot] = content[worker.slot]
    BY <1>3 DEF SlotsApart, SlotTypes
  <2>4. Untold' = Untold
    BY <1>1, <2>3 DEF Untold, MyKey, Mine
  <2>5. OwedKept
    BY <2>1, <2>2, <2>4, NothingOwed
  <2> QED
    BY <1>1, <1>3, <2>5, QuietStep
<1> QED
  BY <1>2, <1>3 DEF HookRegister

(* The worker judges a capture.                                             *)
LEMMA JudgeTells ==
  ASSUME PredictorInv, Tells, Outstanding, Judge
  PROVE  Tells'
<1> USE DEF PredictorInv, ObservationInv
<1>1. PICK g \in Graphs, t \in Targets :
        /\ t < Layers /\ MyKey = <<g, t>> /\ <<g, t>> \in Keys /\ Mine.gs = g /\ Mine.layer = t
        /\ fate[<<g, t>>] = "queued"
  BY InHand DEF Judge
<1>2. UNCHANGED <<graphs, rowVars, intents>> /\ worker.pc = "judge" /\ worker'.pc \in {"publish", "return"}
  BY DEF Judge, Step, SlotTypes, epochVars, intentVars
<1>3. Untold = {} /\ Untold' = {}
  BY <1>2 DEF Untold
<1>4. CASE UNCHANGED <<tellVars, fate>>
  <2>1. OwedKept
    BY <1>3, <1>4, NothingOwed
  <2> QED
    BY <1>2, <1>4, <2>1, QuietStep
<1>5. CASE /\ Note(Mine.gs, Mine.layer + 1, "nonfinite", FALSE)
           /\ fate' = [fate EXCEPT ![MyKey] = "nonfinite"]
  <2>1. Note(g, t + 1, "nonfinite", FALSE) /\ fate' = [fate EXCEPT ![<<g, t>>] = "nonfinite"]
    BY <1>1, <1>5
  <2>2. fate'[<<g, t>>] = "nonfinite" /\ \A j \in Keys : j # <<g, t>> => fate'[j] = fate[j]
    BY <1>1, <2>1 DEF EpochTypes
  <2>3. FateOf(<<g, t + 1>>) # "predicted" /\ Silent(Owed(<<g, t + 1>>))
    BY <1>1, NotOwedYet
  <2>4. "nonfinite" \in Reasons
    BY DEF Reasons
  <2> QED
    BY <1>2, <1>3, <2>1, <2>2, <2>3, <2>4, NoteTold
<1> QED
  BY <1>4, <1>5 DEF Judge

(* The worker queues its guess, or finds the queue full.                    *)
LEMMA PublishTells ==
  ASSUME PredictorInv, Tells, Outstanding, Publish
  PROVE  Tells'
<1> USE PhaseBAssumption DEF PredictorInv, ObservationInv
<1>1. PICK g \in Graphs, t \in Targets :
        /\ t < Layers /\ MyKey = <<g, t>> /\ <<g, t>> \in Keys /\ Mine.gs = g /\ Mine.layer = t
        /\ fate[<<g, t>>] = "queued"
  BY InHand DEF Publish
<1>2. /\ UNCHANGED <<graphs, content, tellVars, rowVars>>
      /\ worker.pc = "publish" /\ worker'.pc \in {"count", "tell"} /\ worker'.slot = worker.slot
  BY DEF Publish, Enqueue, Step, SlotTypes, capVars
<1>3. Untold = {}
  BY <1>2 DEF Untold
<1>4. CASE Enqueue
  <2> DEFINE i == [ordinal |-> ordinal, gs |-> g, target |-> t + 1]
  <2>1. intents' = Append(intents, i) /\ fate' = [fate EXCEPT ![<<g, t>>] = "predicted"] /\ worker'.pc = "count"
    BY <1>1, <1>4 DEF Enqueue, Step, SlotTypes
  <2>2. t + 1 \in Targets /\ ordinal \in Nat
    BY <1>1 DEF Targets, TellTypes
  <2>3. i \in [ordinal : Nat, gs : Graphs, target : Targets] /\ i.gs = g /\ i.target = t + 1
    BY <2>2
  <2>4. Untold' = Untold
    BY <1>3, <2>1 DEF Untold
  <2> HIDE DEF i
  <2> QED
    BY <1>1, <1>2, <2>1, <2>3, <2>4, IntentQueued
<1>5. CASE fate' = [fate EXCEPT ![MyKey] = "overflow"] /\ Step("tell") /\ UNCHANGED intentVars
  <2>1. fate' = [fate EXCEPT ![<<g, t>>] = "overflow"] /\ worker'.pc = "tell"
    BY <1>1, <1>5 DEF Step, SlotTypes
  <2>2. fate'[<<g, t>>] = "overflow" /\ \A j \in Keys : j # <<g, t>> => fate'[j] = fate[j]
    BY <1>1, <2>1 DEF EpochTypes
  <2>3. Untold' = {<<g, t>>}
    <3>1. MyKey' = MyKey
      BY <1>2 DEF MyKey, Mine
    <3> QED
      BY <1>1, <2>1, <3>1 DEF Untold
  <2>4. OwedKept
    BY <1>1, <1>3, <2>2, <2>3, NothingOwed
  <2> QED
    BY <1>2, <1>5, <2>4, QuietStep DEF intentVars
<1> QED
  BY <1>4, <1>5 DEF Publish

(* The worker tells of the overflow.                                        *)
LEMMA OverflowTells ==
  ASSUME PredictorInv, Tells, Outstanding, TellOverflow
  PROVE  Tells'
<1> USE DEF PredictorInv, ObservationInv
<1>1. PICK g \in Graphs, t \in Targets :
        /\ t < Layers /\ MyKey = <<g, t>> /\ <<g, t>> \in Keys /\ Mine.gs = g /\ Mine.layer = t
        /\ fate[<<g, t>>] = "overflow"
  BY InHand DEF TellOverflow
<1>2. UNCHANGED <<graphs, fate, rowVars, intents>> /\ worker.pc = "tell" /\ worker'.pc = "return"
  BY DEF TellOverflow, Step, SlotTypes, epochVars, intentVars, ghosts
<1>3. Untold = {<<g, t>>} /\ Untold' = {}
  BY <1>1, <1>2 DEF Untold
<1>4. Note(g, t + 1, "none", TRUE)
  BY <1>1 DEF TellOverflow
<1>5. FateOf(<<g, t + 1>>) # "predicted" /\ Silent(Owed(<<g, t + 1>>))
  BY <1>1, <1>3, NotOwedYet
<1>6. "none" \in Reasons
  BY DEF Reasons
<1> QED
  BY <1>1, <1>2, <1>3, <1>4, <1>5, <1>6, NoteTold

(* The dispatcher makes the row of an acquire, or binds an intent to its    *)
(* row.                                                                     *)
LEMMA AcquireTells ==
  ASSUME PredictorInv, Tells, AcquireRow
  PROVE  Tells'
<1> USE DEF PredictorInv
<1>1. TypeOK
  BY TypesInParts DEF ObservationInv
<1>2. PICK k \in Keys : k = <<graph, hook.layer>>
  <2>1. graph # 0
    BY DEF AcquireRow, ObservationInv, HookKnows, InGraph
  <2>2. graph \in Graphs /\ hook.layer \in Targets
    BY <2>1 DEF ObservationInv, EpochTypes, HookType, Graphs
  <2> QED
    BY <2>2 DEF Keys
<1>3. WithRow(k, TheRow(k)) /\ UNCHANGED <<fate, worker, content, graphs, mailbox, status, intents>>
  BY <1>2 DEF AcquireRow, epochVars, capVars, intentVars, ghosts
<1>4. Untold' = Untold
  BY <1>3 DEF Untold, MyKey, Mine
<1>5. \A j : InQueue(j)' = InQueue(j)
  BY <1>3 DEF InQueue, NoteKey
<1>6. WithRow(k, IF FALSE THEN [TheRow(k) EXCEPT !.intent = TRUE, !.reason = "none"] ELSE TheRow(k))
  BY <1>3
<1> QED
  BY <1>1, <1>3, <1>4, <1>5, <1>6, RowMade

(* A guess arrives at its row, which forgets a reason it was made with.      *)
LEMMA TakeTells ==
  ASSUME PredictorInv, Tells, TakeIntent
  PROVE  Tells'
<1> USE DEF PredictorInv
<1> DEFINE T == [ordinal : Nat, gs : Graphs, target : Targets]
<1>1. TypeOK
  BY TypesInParts DEF ObservationInv
<1>2. /\ intents' = Tail(intents) /\ 1 \in DOMAIN intents /\ Head(intents) = intents[1]
      /\ intents[1] \in T
      /\ \A i \in DOMAIN intents' : i + 1 \in DOMAIN intents /\ intents'[i] = intents[i + 1]
      /\ \A i \in DOMAIN intents : i = 1 \/ (i - 1 \in DOMAIN intents' /\ intents'[i - 1] = intents[i])
  <2>1. intents \in Seq(T) /\ intents # <<>> /\ intents' = Tail(intents)
    BY DEF TakeIntent, TellTypes
  <2> HIDE DEF T
  <2>2. /\ Head(intents) \in T /\ 1 \in DOMAIN intents /\ Head(intents) = intents[1]
        /\ \A i \in DOMAIN Tail(intents) : i + 1 \in DOMAIN intents /\ Tail(intents)[i] = intents[i + 1]
    BY ONLY <2>1, QueueShrinks
  <2>3. \A i \in DOMAIN intents : i = 1 \/ (i - 1 \in DOMAIN Tail(intents) /\ Tail(intents)[i - 1] = intents[i])
    BY <2>1
  <2> QED
    BY <2>1, <2>2, <2>3
<1>3. PICK k : k = NoteKey(intents[1])
  OBVIOUS
<1>4. k \in Guessed /\ FateOf(k) = "predicted" /\ k \in Keys
  BY <1>2, <1>3, GuessedKeys DEF Tells, IntentsTell
<1>5. /\ WithRow(k, [TheRow(k) EXCEPT !.intent = TRUE, !.reason = "none"])
      /\ UNCHANGED <<fate, worker, content, graphs, mailbox, status>>
  BY <1>2, <1>3 DEF TakeIntent, NoteKey, epochVars, capVars, ghosts
<1>6. WithRow(k, IF TRUE THEN [TheRow(k) EXCEPT !.intent = TRUE, !.reason = "none"] ELSE TheRow(k))
  BY <1>5
<1>7. Untold' = Untold
  BY <1>5 DEF Untold, MyKey, Mine
<1>8. \A j \in Keys : InQueue(j) => InQueue(j)' \/ j = k
  BY <1>2, <1>3 DEF InQueue, NoteKey
<1>9. \A i \in DOMAIN intents' : \E j \in DOMAIN intents : intents'[i] = intents[j]
  BY <1>2
<1> QED
  BY <1>1, <1>4, <1>5, <1>6, <1>7, <1>8, <1>9, RowMade

(* Every step keeps what the rows say.                                      *)
LEMMA TellsStep ==
  ASSUME PredictorInv, Tells, Outstanding, [Next]_vars
  PROVE  Tells'
<1>1. TypeOK /\ TellTypes
  BY TypesInParts DEF PredictorInv, ObservationInv
<1>2. CASE UNCHANGED vars
  <2>1. /\ UNCHANGED <<tellVars, rowVars, intents>> /\ graphs' = graphs /\ fate' = fate
        /\ Untold' = Untold
    BY <1>2 DEF vars, epochVars, capVars, intentVars, ghosts, Untold, MyKey, Mine
  <2>2. OwedKept
    BY <2>1, NothingOwed
  <2> QED
    BY <2>1, <2>2, QuietStep
<1>3. CASE QuietHook \/ QuietWorker \/ QuietStop
  BY <1>3, QuietTells
<1>4. CASE GraphBegin
  BY <1>4, GraphBeginTells
<1>5. CASE HookDecide
  <2>1. UNCHANGED <<graphs, worker, content, rowVars, intents>> /\ hook.pc = "decide"
    BY <1>5 DEF HookDecide, epochVars, capVars, intentVars
  <2>2. CASE \E r \in {"disabled", "ineligible", "sourceRange"} : Skip(r)
    BY <2>1, <2>2, SkipTells
  <2>3. CASE UNCHANGED <<tellVars, fate>>
    <3>1. OwedKept
      BY <2>1, <2>3, NothingOwed DEF Untold, MyKey, Mine
    <3> QED
      BY <2>1, <2>3, <3>1, QuietStep
  <2> QED
    BY <1>5, <2>2, <2>3 DEF HookDecide
<1>6. CASE HookRegister \/ Judge \/ Publish \/ TellOverflow
  BY <1>6, RegisterTells, JudgeTells, PublishTells, OverflowTells
<1>7. CASE AcquireRow \/ Admit \/ CutAdmit
  BY <1>7, AcquireTells, TakeTells DEF Admit, CutAdmit
<1>8. CASE DrainStatus \/ Patch
  BY <1>1, <1>8, PopTells DEF DrainStatus, Patch
<1> QED
  BY <1>2, <1>3, <1>4, <1>5, <1>6, <1>7, <1>8
     DEF Next, Compute, Predictor, Dispatcher, QuietHook, QuietWorker, QuietStop, Closer

(* A capture stays in the hands of the worker until it has a fate.          *)
LEMMA OutstandingStep ==
  ASSUME PredictorInv, Outstanding, [Next]_vars
  PROVE  Outstanding'
<1> USE DEF PredictorInv, ObservationInv
<1>0. ring \in Seq(Slots) /\ fate \in [Keys -> Reasons \cup {"queued", "predicted", "overflow"}]
  BY DEF SlotTypes, EpochTypes
<1>1. CASE UNCHANGED <<fate, ring, content, worker>>
  BY <1>1 DEF Outstanding, Unjudged, Queued, KeyOf, MyKey, Mine
<1>2. CASE \E r \in {"disabled", "ineligible", "sourceRange", "queueFull"} :
             Skip(r) /\ hook.pc \in {"decide", "register"} /\ UNCHANGED <<ring, content, worker>>
  <2>1. PICK r \in {"disabled", "ineligible", "sourceRange", "queueFull"} :
          fate' = [fate EXCEPT ![<<hook.gs, hook.layer>>] = r]
    BY <1>2 DEF Skip
  <2>2. \A k \in Keys : fate'[k] = "queued" => fate[k] = "queued"
    BY <1>0, <2>1
  <2>3. worker.pc = "tell" => fate'[MyKey] = "overflow"
    <3> SUFFICES ASSUME worker.pc = "tell" PROVE fate'[MyKey] = "overflow"
      OBVIOUS
    <3>1. fate[MyKey] = "overflow" /\ MyKey \in Keys
      BY InHand DEF Outstanding
    <3>2. fate[<<hook.gs, hook.layer>>] = "none"
      BY <1>2 DEF HookKnows, InGraph
    <3> QED
      BY <1>0, <2>1, <3>1, <3>2
  <2> QED
    BY <1>2, <2>2, <2>3 DEF Outstanding, Unjudged, Queued, KeyOf, MyKey, Mine
<1>3. CASE HookRegister /\ ~UNCHANGED ring
  <2>1. PICK s \in free : /\ content' = [content EXCEPT ![s] =
                                [req |-> hook.req, gs |-> hook.gs, layer |-> hook.layer]]
                          /\ ring' = Append(ring, s)
                          /\ fate' = [fate EXCEPT ![<<hook.gs, hook.layer>>] = "queued"]
                          /\ worker' = worker
    BY <1>3 DEF HookRegister
  <2>2. /\ s \in Slots /\ s # worker.slot /\ s \notin Queued /\ content \in [Slots -> [req : 0..MaxRequests, gs : 0..MaxGraphs, layer : 0..Layers]]
    BY DEF SlotTypes, SlotsApart
  <2>3. Queued' = Queued \cup {s}
    <3>1. /\ DOMAIN Append(ring, s) = DOMAIN ring \cup {Len(ring) + 1}
          /\ \A i \in DOMAIN ring : Append(ring, s)[i] = ring[i]
          /\ Append(ring, s)[Len(ring) + 1] = s
      BY ONLY <1>0, <2>2, QueueGrows
    <3> QED
      BY <2>1, <3>1 DEF Queued
  <2>4. Unjudged' = Unjudged \cup {s}
    BY <2>1, <2>3 DEF Unjudged
  <2>5. \A u \in Unjudged : KeyOf(u)' = KeyOf(u)
    <3>1. s \notin Unjudged
      BY <2>2 DEF Unjudged
    <3> QED
      BY <2>1, <2>2, <3>1 DEF KeyOf
  <2>6. KeyOf(s)' = <<hook.gs, hook.layer>>
    BY <2>1, <2>2 DEF KeyOf
  <2>7. \A k \in Keys : k # <<hook.gs, hook.layer>> => fate'[k] = fate[k]
    BY <1>0, <2>1
  <2>8. worker'.pc = "tell" => fate'[MyKey'] = "overflow"
    <3> SUFFICES ASSUME worker.pc = "tell" PROVE fate'[MyKey'] = "overflow"
      BY <2>1
    <3>1. fate[MyKey] = "overflow" /\ MyKey \in Keys
      BY InHand DEF Outstanding
    <3>2. fate[<<hook.gs, hook.layer>>] = "none"
      BY <1>3 DEF HookRegister, HookKnows, InGraph
    <3>3. MyKey' = MyKey
      BY <2>1, <2>2 DEF MyKey, Mine
    <3> QED
      BY <2>7, <3>1, <3>2, <3>3
  <2>9. \A k \in Keys : fate'[k] = "queued" => \E u \in Unjudged' : KeyOf(u)' = k
    BY <2>4, <2>5, <2>6, <2>7 DEF Outstanding
  <2> QED
    BY <2>8, <2>9 DEF Outstanding, KeyOf, MyKey, Mine
<1>4. CASE WorkerTake
  <2>1. /\ Queued = Queued' \cup {Head(ring)} /\ worker.pc = "wait"
        /\ worker'.pc = "judge" /\ worker'.slot = Head(ring) /\ UNCHANGED <<content, fate>>
    <3>1. ring # <<>> /\ ring' = Tail(ring)
      BY <1>4 DEF WorkerTake
    <3>2. Head(ring) = ring[1] /\ 1 \in DOMAIN ring
          /\ \A i \in DOMAIN Tail(ring) : i + 1 \in DOMAIN ring /\ Tail(ring)[i] = ring[i + 1]
      BY ONLY <1>0, <3>1, QueueShrinks
    <3>3. \A i \in DOMAIN ring : i = 1 \/ (i - 1 \in DOMAIN Tail(ring) /\ Tail(ring)[i - 1] = ring[i])
      BY <1>0, <3>1
    <3>4. Queued = Queued' \cup {Head(ring)}
      <4>1. \A s : s \in Queued <=> \E i \in DOMAIN ring : s = ring[i]
        BY DEF Queued
      <4>2. \A s : s \in Queued' <=> \E i \in DOMAIN Tail(ring) : s = Tail(ring)[i]
        BY <3>1 DEF Queued
      <4>3. \A s : s \in Queued <=> s \in Queued' \/ s = Head(ring)
        <5> SUFFICES ASSUME NEW s PROVE s \in Queued <=> s \in Queued' \/ s = Head(ring)
          OBVIOUS
        <5>1. ASSUME s \in Queued PROVE s \in Queued' \/ s = Head(ring)
          <6>1. PICK i \in DOMAIN ring : s = ring[i]
            BY <4>1, <5>1
          <6>2. CASE i = 1
            BY <3>2, <6>1, <6>2
          <6>3. CASE i - 1 \in DOMAIN Tail(ring) /\ Tail(ring)[i - 1] = ring[i]
            BY <4>2, <6>1, <6>3
          <6> QED
            BY <3>3, <6>2, <6>3
        <5>2. ASSUME s \in Queued' PROVE s \in Queued
          <6>1. PICK i \in DOMAIN Tail(ring) : s = Tail(ring)[i]
            BY <4>2, <5>2
          <6> QED
            BY <3>2, <4>1, <6>1
        <5>3. Head(ring) \in Queued
          BY <3>2, <4>1
        <5> QED
          BY <5>1, <5>2, <5>3
      <4> QED
        BY <4>3
    <3> QED
      BY <1>4, <3>4 DEF WorkerTake, capVars, ghosts
  <2>2. Unjudged \subseteq Unjudged'
    BY <2>1 DEF Unjudged
  <2> QED
    BY <2>1, <2>2 DEF Outstanding, KeyOf
<1>5. CASE Judge \/ Publish
  <2>1. PICK g \in Graphs, t \in Targets :
          /\ MyKey = <<g, t>> /\ <<g, t>> \in Keys /\ fate[<<g, t>>] = "queued"
          /\ worker.pc \in {"judge", "publish"}
    BY <1>5, InHand DEF Judge, Publish
  <2>2. UNCHANGED <<ring, content>> /\ worker'.slot = worker.slot
        /\ worker'.pc \in {"publish", "return", "count", "tell"}
    BY <1>5 DEF Judge, Publish, Enqueue, Step, capVars, SlotTypes
  <2>3. CASE UNCHANGED fate /\ worker'.pc = "publish"
    <3>1. Unjudged' = Unjudged
      BY <2>1, <2>2, <2>3 DEF Unjudged, Queued
    <3> QED
      BY <2>2, <2>3, <3>1 DEF Outstanding, KeyOf
  <2>4. CASE \E f \in {"nonfinite", "predicted", "overflow"} :
               /\ fate' = [fate EXCEPT ![<<g, t>>] = f]
               /\ worker'.pc = "tell" => f = "overflow"
    <3>1. PICK f \in {"nonfinite", "predicted", "overflow"} :
               /\ fate' = [fate EXCEPT ![<<g, t>>] = f]
               /\ worker'.pc = "tell" => f = "overflow"
      BY <2>4
    <3>2. fate'[<<g, t>>] = f /\ \A k \in Keys : k # <<g, t>> => fate'[k] = fate[k]
      BY <1>0, <2>1, <3>1
    <3>3. Unjudged \subseteq Unjudged' \cup {worker.slot} /\ KeyOf(worker.slot) = <<g, t>>
      BY <2>1, <2>2 DEF Unjudged, Queued, KeyOf, MyKey, Mine
    <3>4. MyKey' = <<g, t>> /\ \A u : KeyOf(u)' = KeyOf(u)
      BY <2>1, <2>2 DEF MyKey, Mine, KeyOf
    <3>5. \A k \in Keys : fate'[k] = "queued" => \E u \in Unjudged' : KeyOf(u)' = k
      BY <3>2, <3>3, <3>4 DEF Outstanding
    <3> QED
      BY <3>1, <3>2, <3>4, <3>5 DEF Outstanding, KeyOf, MyKey, Mine
  <2> QED
    <3>1. CASE Judge
      BY <2>1, <2>3, <2>4, <3>1 DEF Judge, Step, SlotTypes
    <3>2. CASE Publish
      BY <2>1, <2>3, <2>4, <3>2 DEF Publish, Enqueue, Step, SlotTypes
    <3> QED
      BY <1>5, <3>1, <3>2
<1>6. CASE WorkerEnd \/ CountPredicted \/ TellOverflow
  <2>1. /\ UNCHANGED <<fate, ring, content>> /\ worker'.pc \in {"ended", "return"}
        /\ worker.pc \in {"wait", "count", "tell"}
    BY <1>6 DEF WorkerEnd, CountPredicted, TellOverflow, Step, SlotTypes, capVars, ghosts
  <2>2. Unjudged' = Unjudged
    BY <2>1 DEF Unjudged, Queued
  <2> QED
    BY <2>1, <2>2 DEF Outstanding, KeyOf
<1>7. CASE ReturnSlot
  <2>1. /\ UNCHANGED <<fate, ring>> /\ worker'.pc = "wait" /\ worker.pc = "return"
        /\ content' = [content EXCEPT ![worker.slot] = NoCapture]
    BY <1>7 DEF ReturnSlot, ghosts
  <2>2. Unjudged' = Unjudged /\ worker.slot \notin Unjudged /\ Unjudged \subseteq Slots
    BY <2>1, KeysOfCaptures DEF Unjudged, Queued, SlotsApart
  <2>3. \A u \in Unjudged : KeyOf(u)' = KeyOf(u)
    BY <2>1, <2>2 DEF KeyOf, SlotTypes
  <2> QED
    BY <2>1, <2>2, <2>3 DEF Outstanding, KeyOf
<1>8. CASE RunBegin \/ Enable \/ GraphBegin \/ HookRead \/ HookEnter \/ GraphEnd \/ AcquireRefused
           \/ Dispatcher \/ Closer \/ (\E b \in BOOLEAN : CloseCapture(b)) \/ UNCHANGED vars
  BY <1>1, <1>8 DEF RunBegin, Enable, GraphBegin, HookRead, HookEnter, GraphEnd, AcquireRefused,
     Dispatcher, AcquireRow, Admit, CutAdmit, TakeIntent, DrainStatus, PopStatus, SeeDrained,
     DispatcherLeave, Closer, CloseCapture, AskDispatcher, IdleWaitEnds, StopWorker, JoinWorker,
     JoinTimesOut, SetLatch, StopDispatcher, JoinDispatcher, JoinDispatcherTimesOut, Patch,
     Encode, BystandersOfStop, vars, capVars, ghosts
<1>9. CASE HookDecide
  <2>1. UNCHANGED <<ring, content, worker>> /\ hook.pc = "decide"
    BY <1>9 DEF HookDecide, capVars
  <2> QED
    BY <1>1, <1>2, <1>9, <2>1 DEF HookDecide, ghosts
<1>10. CASE HookRegister /\ UNCHANGED ring
  <2>1. UNCHANGED worker /\ hook.pc = "register"
    BY <1>10 DEF HookRegister
  <2>2. \A s : Append(ring, s) # ring
    BY <1>0
  <2> QED
    BY <1>2, <1>10, <2>1, <2>2 DEF HookRegister
<1> QED
  BY <1>3, <1>4, <1>5, <1>6, <1>7, <1>8, <1>9, <1>10 DEF Next, Compute, Predictor

(* Nothing is noted any more when the rows are written.                     *)
LEMMA WrittenLastStep ==
  ASSUME PredictorInv, WrittenLast, [Next]_vars
  PROVE  WrittenLast'
<1> USE DEF PredictorInv
<1>1. CASE UNCHANGED vars
  BY <1>1 DEF vars, tellVars, stopVars, WrittenLast
<1>2. CASE Closer \/ \E b \in BOOLEAN : CloseCapture(b)
  <2>1. disp' = disp /\ (timedOut => timedOut')
    BY <1>2 DEF Closer, CloseCapture, AskDispatcher, IdleWaitEnds, StopWorker, JoinWorker,
       JoinTimesOut, SetLatch, StopDispatcher, JoinDispatcher, JoinDispatcherTimesOut, Patch,
       PopStatus, Encode, BystandersOfStop, stopVars
  <2>2. closer'.pc \in {"patch", "encoded"} =>
          disp.pc = "exited" \/ timedOut' \/ closer.pc \in {"patch", "encoded"}
    BY <1>2 DEF Closer, CloseCapture, AskDispatcher, IdleWaitEnds, StopWorker, JoinWorker,
       JoinTimesOut, SetLatch, StopDispatcher, JoinDispatcher, JoinDispatcherTimesOut, Patch,
       PopStatus, Encode, BystandersOfStop, CloserStep, stopVars, StopTypes
  <2>3. closer'.pc = "encoded" => status' = <<>>
    BY <1>2 DEF Closer, CloseCapture, AskDispatcher, IdleWaitEnds, StopWorker, JoinWorker,
       JoinTimesOut, SetLatch, StopDispatcher, JoinDispatcher, JoinDispatcherTimesOut, Patch,
       PopStatus, Encode, BystandersOfStop, CloserStep, stopVars, tellVars, StopTypes
  <2> QED
    BY <2>1, <2>2, <2>3 DEF WrittenLast
<1>3. CASE RunBegin \/ GraphBegin \/ Compute \/ Predictor \/ Dispatcher
  <2>1. UNCHANGED <<closer, timedOut>>
    BY <1>3 DEF RunBegin, GraphBegin, Compute, Enable, HookRead, HookEnter, HookDecide,
       HookRegister, GraphEnd, AcquireRefused, Predictor, WorkerTake, WorkerEnd, Judge, Publish,
       CountPredicted, TellOverflow, ReturnSlot, Dispatcher, AcquireRow, Admit, CutAdmit,
       TakeIntent, DrainStatus, PopStatus, SeeDrained, DispatcherLeave, stopVars
  <2>2. disp.pc = "exited" => disp'.pc = "exited"
    BY <1>3 DEF RunBegin, GraphBegin, Compute, Enable, HookRead, HookEnter, HookDecide,
       HookRegister, GraphEnd, AcquireRefused, Predictor, WorkerTake, WorkerEnd, Judge, Publish,
       CountPredicted, TellOverflow, ReturnSlot, Dispatcher, AcquireRow, Admit, CutAdmit,
       TakeIntent, DrainStatus, PopStatus, SeeDrained, DispatcherLeave
  <2>3. closer.pc = "encoded" /\ disp.pc = "exited" => hook.pc \notin {"decide", "register"} /\ worker.pc = "ended"
    BY DEF StopInOrder, CapMuFree
  <2>4. hook.pc \notin {"decide", "register"} /\ worker.pc = "ended" /\ disp.pc = "exited" => status' = status
    BY <1>3 DEF RunBegin, GraphBegin, Compute, Enable, HookRead, HookEnter, HookDecide,
       HookRegister, GraphEnd, AcquireRefused, Predictor, WorkerTake, WorkerEnd, Judge, Publish,
       CountPredicted, TellOverflow, ReturnSlot, Dispatcher, AcquireRow, Admit, CutAdmit,
       DrainStatus, DispatcherOn, SeeDrained, DispatcherLeave, tellVars
  <2> QED
    BY <2>1, <2>2, <2>3, <2>4 DEF WrittenLast
<1> QED
  BY <1>1, <1>2, <1>3 DEF Next

(* Nothing is owed and nothing is noted at the start.                       *)
LEMMA RowsInit == Init => RowsInv
<1> SUFFICES ASSUME Init PROVE RowsInv
  OBVIOUS
<1> USE DEF Init
<1>1. \A k \in Guessed : /\ k \in Keys /\ Silent(Owed(k)) /\ Owed(k).reason = "none"
                         /\ FateOf(k) = "none" /\ k[1] \in Graphs
  BY GuessedKeys DEF Owed, FateOf, Silent, Reasons
<1>2. MailTells
  BY <1>1 DEF MailTells, Graphs
<1>3. RingTells /\ IntentsTell
  BY DEF RingTells, IntentsTell
<1>4. PendingTells /\ RowTells
  BY <1>1 DEF PendingTells, RowTells, NoNote, NoRow, Silent
<1>5. Delivered
  BY <1>1 DEF Delivered
<1>6. Outstanding /\ WrittenLast
  BY DEF Outstanding, WrittenLast
<1> QED
  BY <1>2, <1>3, <1>4, <1>5, <1>6 DEF RowsInv, Tells

(* A row is owed one note, and the note has reached it when the rows are    *)
(* written.                                                                 *)
LEMMA RowsAreTrue == PredictorInv /\ RowsInv => RowsTellTheTruth
<1> SUFFICES ASSUME PredictorInv, RowsInv, closer.pc = "encoded", ~timedOut, incomplete = {},
                    NEW g \in Graphs, NEW t \in 2..Layers
             PROVE  /\ fate[<<g, t - 1>>] = "predicted" => row[<<g, t>>].made
                    /\ row[<<g, t>>].made => Truthful(row[<<g, t>>], fate[<<g, t - 1>>])
  BY DEF RowsTellTheTruth
<1> USE PhaseBAssumption DEF PredictorInv, RowsInv, Tells
<1>1. PICK k \in Guessed : k = <<g, t>> /\ Source(k) = <<g, t - 1>> /\ k \in Keys /\ Source(k) \in Keys
  <2>1. t \in Targets /\ t - 1 \in Targets /\ t # 1
    BY DEF Targets
  <2>2. <<g, t>> \in Guessed /\ Source(<<g, t>>) = <<g, t - 1>>
    BY <2>1 DEF Guessed, Keys, Source
  <2>3. <<g, t>> \in Keys /\ <<g, t - 1>> \in Keys
    BY <2>1 DEF Keys
  <2> QED
    BY <2>2, <2>3
<1>2. disp.pc = "exited" /\ status = <<>> /\ intents = <<>> /\ worker.pc = "ended" /\ ring = <<>>
  BY DEF WrittenLast, StopInOrder
<1>3. Untold = {} /\ Unjudged = {}
  BY <1>2 DEF Untold, Unjudged, Queued
<1>4. FateOf(k) # "queued"
  BY <1>1, <1>3 DEF Outstanding, FateOf
<1>5. /\ Silent(Owed(k)) \/ pending[k].held \/ RowHas(k)
      /\ FateOf(k) = "predicted" => row[k].made /\ row[k].intent
      /\ row[k].made => ~pending[k].held
  BY <1>2 DEF Delivered, InRing, InQueue, PendingTells
<1>6. ASSUME row[k].made PROVE Truthful(row[k], FateOf(k))
  <2>1. Silent(Owed(k)) \/ RowHas(k)
    BY <1>5, <1>6
  <2>2. row[k] \in RowType /\ FateOf(k) \in Reasons \cup {"queued", "predicted", "overflow"}
    BY <1>1 DEF TellTypes, ObservationInv, EpochTypes, FateOf
  <2>3. /\ Owed(k).reason = IF FateOf(k) \in Reasons THEN FateOf(k) ELSE "none"
        /\ Owed(k).overflow <=> FateOf(k) = "overflow"
    BY <1>3 DEF Owed
  <2>4. CASE FateOf(k) = "predicted"
    BY <1>5, <1>6, <2>4 DEF Truthful, RowTells, Silent
  <2>5. CASE FateOf(k) # "predicted"
    <3>1. /\ ~row[k].intent
          /\ row[k].reason = "sourceRange" \/ (row[k].reason = Owed(k).reason /\ row[k].reason # "none")
          /\ row[k].overflow => Owed(k).overflow
      BY <1>6, <2>5 DEF RowTells
    <3>2. CASE FateOf(k) = "overflow"
      <4>1. Owed(k).reason = "none" /\ Owed(k).overflow
        BY <2>3, <3>2 DEF Reasons
      <4> QED
        BY <2>1, <3>1, <3>2, <4>1 DEF Truthful, Silent, RowHas
    <3>3. CASE FateOf(k) = "none"
      <4>1. Owed(k).reason = "none" /\ ~Owed(k).overflow
        BY <2>3, <3>3 DEF Reasons
      <4> QED
        BY <3>1, <3>3, <4>1 DEF Truthful
    <3>4. CASE FateOf(k) \in Reasons \ {"none"}
      <4>1. Owed(k).reason = FateOf(k) /\ Owed(k).reason # "none" /\ ~Owed(k).overflow
        BY <2>3, <3>4 DEF Reasons
      <4>2. row[k].reason = FateOf(k) /\ ~row[k].overflow
        BY <2>1, <3>1, <4>1 DEF Silent, RowHas
      <4>3. FateOf(k) \notin {"predicted", "overflow", "none"}
        BY <3>4 DEF Reasons
      <4> QED
        BY <3>1, <4>2, <4>3 DEF Truthful
    <3> QED
      BY <1>4, <2>2, <2>5, <3>2, <3>3, <3>4
  <2> QED
    BY <2>4, <2>5
<1> QED
  BY <1>1, <1>5, <1>6 DEF FateOf

(* The rows that are written are complete or say that they are not: every   *)
(* guess has its row, and every row gives the reason why there is none, in  *)
(* whatever order the acquire, the notes and the intents came.              *)
THEOREM RowsAreTruthful == Spec => []RowsTellTheTruth
<1>1. PredictorInv /\ RowsInv /\ [Next]_vars => RowsInv'
  BY TellsStep, OutstandingStep, WrittenLastStep DEF RowsInv
<1> QED
  BY <1>1, RowsInit, RowsAreTrue, PredictorSafe, PTL DEF Spec

=============================================================================
