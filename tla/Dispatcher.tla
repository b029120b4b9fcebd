----------------------------- MODULE Dispatcher -----------------------------
(***************************************************************************)
(* The persistent dispatcher of the expert store (ggml-moe-direct-         *)
(* dispatch.cpp, mode=bin): compute threads enqueue acquire and release    *)
(* commands, one dispatcher thread plans them against the slot cache,      *)
(* submits one asynchronous read per record, publishes what arrived and    *)
(* admits at most one speculative read per turn from the intent queue.     *)
(*                                                                         *)
(* Every handler of the dispatcher runs under g_mod.mutex and is one       *)
(* action.  Between two of them clients enqueue, reads complete and the    *)
(* predictor publishes intents, exactly where the code lets them in (the   *)
(* queue has its own lock, the device needs none).  `disp' is the          *)
(* dispatcher's program counter inside one turn.                           *)
(* A definition that no other one uses, right before the one it varies, is *)
(* a mutant of PROJECT.json: a bug the named property has to find.         *)
(***************************************************************************)
EXTENDS SlotCache

CONSTANTS Clients,       \* holders of leases: a thread, or one token of it
          Qd,            \* I/O channels (qd_effective)
          NUsed,         \* n_expert_used: the admission reserve
          PrefetchN,     \* N stamped on an intent: speculative reads in flight
          Requests,      \* requests a client may make: [layer, ids]
          Guesses,       \* experts the predictor may name: [layer, ids]
          MaxAcquires,   \* bound: acquires in a behaviour
          MaxIntents,    \* bound: intents in a behaviour
          MaxGraphs,     \* bound: compute graphs in a behaviour
          DemandFaults,  \* may a demand read fail (fail-stop)?
          GuessFaults,   \* may a speculative read or its submission fail?
          Stops          \* ways the dispatcher may be stopped

ASSUME ClientsAssumption == IsFiniteSet(Clients)

ASSUME DispatcherAssumption ==
  /\ Qd \in Nat \ {0} /\ NUsed \in Nat \ {0} /\ PrefetchN \in Nat \ {0}
  /\ MaxAcquires \in Nat /\ MaxIntents \in Nat /\ MaxGraphs \in Nat \ {0}
  /\ DemandFaults \in BOOLEAN /\ GuessFaults \in BOOLEAN
  /\ Requests \subseteq [layer : Layers, ids : Seq(Experts)]
  /\ Guesses \subseteq [layer : Layers, ids : Seq(Experts)]
  /\ \A q \in Requests \cup Guesses : q.ids # <<>>
  /\ Stops \subseteq {"graceful", "abort"}

(* A token's experts fit into the cache: the start-up check refuses fewer   *)
(* slots than a layer has experts, of which a token uses some.              *)
ASSUME ReserveAssumption == NUsed <= NSlots

Ops      == Slots            \* the pending pool is as large as the cache
NoOp     == -1
Channels == 1 .. Qd

VARIABLES
  op,        \* g_mod.pending_ops: the pool of reads planned or in flight
  byRec,     \* g_mod.pending_by_record
  pinned,    \* g_mod.slot_pending
  submitQ,   \* g_mod.submit_q from submit_head on
  chan,      \* g_mod.channels: the op a channel serves and its read
  memory,    \* what the bytes of each slot are: a record or garbage (ghost)
  cmdQ,      \* the control queue: clients whose command is not handled yet
  client,    \* each client and its command
  intents,   \* the intent queue
  cursor,    \* g_mod.pb_cur_intent, pb_cur_rank (<<>> when not active)
  served,    \* g_mod.pb_served_graph (0 is NA)
  curGraph,  \* g_mod.pb_cur_graph_seq (0 is NA)
  graph,     \* the compute graph the clients are in
  life,      \* shutdown: capture latch, predictor drained, q_stopping
  disp,      \* the dispatcher's place in its turn
  count,     \* acquires and intents so far (for the bounds)
  fatal      \* "none", or why the process aborted

vars == <<slot, table, tick, op, byRec, pinned, submitQ, chan, memory, cmdQ,
          client, intents, cursor, served, curGraph, graph, life, disp, count,
          fatal>>

ioVars     == <<op, byRec, pinned, submitQ, chan, memory>>
clientVars == <<cmdQ, client>>
guessVars  == <<intents, cursor, served, curGraph>>
envVars    == <<graph, life, count>>

NullOp == [inUse |-> FALSE, rec |-> NoRec, slot |-> NoSlot, gen |-> 0,
           mult |-> 0, tick |-> 0, origin |-> "demand", retry |-> FALSE,
           waiters |-> {}, pf |-> NoPf]

NoRequest == [layer |-> CHOOSE l \in Layers : TRUE, ids |-> <<>>]
IdleClient == [pc |-> "idle", req |-> NoRequest, graph |-> 0, deps |-> 0]
IdleChannel == [op |-> NoOp, read |-> "none"]

Init ==
  /\ CacheInit
  /\ op = [o \in Ops |-> NullOp]
  /\ byRec = [r \in Records |-> NoOp]
  /\ pinned = [s \in Slots |-> FALSE]
  /\ submitQ = <<>>
  /\ chan = [c \in Channels |-> IdleChannel]
  /\ memory = [s \in Slots |-> NoRec]
  /\ cmdQ = <<>>
  /\ client = [c \in Clients |-> IdleClient]
  /\ intents = <<>> /\ cursor = <<>>
  /\ served = [l \in Layers |-> 0] /\ curGraph = 0 /\ graph = 1
  /\ life = [cut |-> FALSE, drained |-> FALSE, stop |-> "no"]
  /\ disp = [pc |-> "wait", chan |-> 1, deferred |-> FALSE, stop |-> "no"]
  /\ count = [acquires |-> 0, intents |-> 0]
  /\ fatal = "none"

-----------------------------------------------------------------------------
(* Reads of the state that several handlers share.                          *)
FreeOps     == {o \in Ops : ~op[o].inUse}
Pins        == {s \in Slots : pinned[s]}
InFlight    == {r \in Records : byRec[r] # NoOp}
Busy        == {c \in Channels : chan[c].op # NoOp}
BusyWith(w) == {c \in Busy : op[chan[c].op].origin = w}
Signaled    == {c \in Busy : chan[c].read \notin {"none", "reading"}}
Planned     == {c \in Clients : client[c].pc = "planned"}

(* pio_alloc_locked pops any free entry; which one is immaterial, here the  *)
(* lowest come first.                                                       *)
FirstFree(o) == \A k \in DOMAIN o : Cardinality({p \in FreeOps : p < o[k]}) = k - 1
Entry(o)     == o \in FreeOps /\ \A p \in FreeOps : o <= p

Alive    == fatal = "none"      \* abort() ends every thread of the process
At(pcs)  == Alive /\ disp.pc \in pcs
Goto(pc) == disp' = [disp EXCEPT !.pc = pc]

-----------------------------------------------------------------------------
(* Clients.  An acquire or release is filled, enqueued and waited for.  It  *)
(* is refused without a trace once q_stopping is set, or the capture latch; *)
(* a caller that had passed the latch when it was closed still gets in.     *)
Acquire(c, q) ==
  /\ Alive /\ client[c].pc = "idle" /\ life.stop = "no"
  /\ count.acquires < MaxAcquires
  /\ count' = [count EXCEPT !.acquires = @ + 1]
  /\ client' = [client EXCEPT ![c] =
                  [pc |-> "queued", req |-> q, graph |-> graph, deps |-> 0]]
  /\ cmdQ' = Append(cmdQ, c)
  /\ UNCHANGED <<cacheVars, ioVars, guessVars, graph, life, disp, fatal>>

(* A release refused at shutdown returns to a caller that cannot tell: the  *)
(* units it held stay granted ("lost").                                     *)
Release(c) ==
  /\ Alive /\ client[c].pc = "holding"
  /\ \/ /\ life.cut \/ life.stop # "no"
        /\ client' = [client EXCEPT ![c].pc = "lost"]
        /\ UNCHANGED cmdQ
     \/ /\ life.stop = "no"
        /\ client' = [client EXCEPT ![c].pc = "releasing"]
        /\ cmdQ' = Append(cmdQ, c)
  /\ UNCHANGED <<cacheVars, ioVars, guessVars, envVars, disp, fatal>>

(* The compute side moves to the next graph; the predictor names experts of *)
(* a later layer of the graph it is in.                                     *)
NextGraph ==
  /\ Alive /\ graph < MaxGraphs /\ \A c \in Clients : client[c].pc \in {"idle", "lost"}
  /\ graph' = graph + 1
  /\ UNCHANGED <<cacheVars, ioVars, clientVars, guessVars, life, count, disp, fatal>>

PublishIntent(g) ==
  /\ Alive /\ ~life.drained /\ count.intents < MaxIntents
  /\ count' = [count EXCEPT !.intents = @ + 1]
  /\ intents' = Append(intents, [ord |-> count.intents + 1, graph |-> graph,
                                 layer |-> g.layer, ids |-> g.ids])
  /\ UNCHANGED <<cacheVars, ioVars, clientVars, cursor, served, curGraph, graph,
                 life, disp, fatal>>

(* The device: a read in flight ends, having written all of the slot or     *)
(* only part of it.                                                         *)
IoComplete(ch, result) ==
  LET o == op[chan[ch].op] IN
  /\ Alive /\ chan[ch].op # NoOp /\ chan[ch].read = "reading"
  /\ result # "ok" => IF o.origin = "demand" THEN DemandFaults ELSE GuessFaults
  /\ chan' = [chan EXCEPT ![ch].read = result]
  /\ memory' = [memory EXCEPT ![o.slot] = IF result = "ok" THEN o.rec ELSE NoRec]
  /\ UNCHANGED <<cacheVars, op, byRec, pinned, submitQ, clientVars, guessVars,
                 envVars, disp, fatal>>

-----------------------------------------------------------------------------
(* The end of one read (disp_op_terminal_locked), in its four outcomes.     *)
(* None of them touches a channel, the caller has freed it already; q is    *)
(* what the caller leaves of the submit queue.                              *)
UnlinkStillPinned(o) ==
  /\ op' = [op EXCEPT ![o] = NullOp]
  /\ byRec' = [byRec EXCEPT ![op[o].rec] = IF @ = o THEN NoOp ELSE @]
  /\ UNCHANGED pinned
Unlink(o) ==
  /\ op' = [op EXCEPT ![o] = NullOp]
  /\ pinned' = [pinned EXCEPT ![op[o].slot] = FALSE]
  /\ byRec' = [byRec EXCEPT ![op[o].rec] = IF @ = o THEN NoOp ELSE @]

(* The read succeeded: grant its lease units, publish the record, let every *)
(* command that waited for nothing else return.                             *)
Publish(o, q) ==
  LET x == op[o]
      speculative == x.waiters = {}
  IN
  /\ slot' = [slot EXCEPT ![x.slot].lease = @ + x.mult,
                          ![x.slot].lastUsed = x.tick,
                          ![x.slot].class = IF speculative THEN "probation" ELSE "demand",
                          ![x.slot].pf = IF speculative THEN x.pf ELSE NoPf]
  /\ table' = [table EXCEPT ![x.rec] = [slot |-> x.slot, gen |-> x.gen]]
  /\ client' = [c \in Clients |->
                  IF c \in x.waiters
                    THEN [client[c] EXCEPT !.deps = @ - 1,
                            !.pc = IF client[c].deps = 1 THEN "holding" ELSE @]
                    ELSE client[c]]
  /\ Unlink(o)
  /\ submitQ' = q
  /\ UNCHANGED <<tick, fatal>>

(* The read did not produce a usable record: the slot is empty again and    *)
(* the commands that waited for it fail, once.                              *)
Discard(o, q) ==
  LET x == op[o] IN
  /\ slot' = [slot EXCEPT ![x.slot].owner = IF @ = x.rec THEN NoRec ELSE @,
                          ![x.slot].class = "none", ![x.slot].pf = NoPf]
  /\ client' = [c \in Clients |->
                  IF c \in x.waiters /\ client[c].deps # 0
                    THEN IdleClient
                    ELSE client[c]]
  /\ Unlink(o)
  /\ submitQ' = q
  /\ UNCHANGED <<table, tick, fatal>>

Die(why, q) == /\ fatal' = why
               /\ submitQ' = q
               /\ UNCHANGED <<slot, table, tick, op, byRec, pinned, client>>

(* A failed speculative read a demand had joined is read again, once, as a  *)
(* demand: same slot, new generation, the waiters and their units move over.*)
Reread(x) == [x EXCEPT !.gen = slot[x.slot].gen + 1, !.origin = "demand",
                       !.retry = TRUE, !.pf = NoPf]

Retry(o, q) ==
  LET x == op[o] IN
  \/ FreeOps = {} /\ Die("pool", q)
  \/ \E n \in Ops :
       /\ Entry(n)
       /\ slot' = [slot EXCEPT ![x.slot].gen = @ + 1,
                               ![x.slot].class = "none", ![x.slot].pf = NoPf]
       /\ op' = [op EXCEPT ![o] = NullOp, ![n] = Reread(x)]
       /\ byRec' = [byRec EXCEPT ![x.rec] = n]
       /\ submitQ' = Append(q, n)
       /\ UNCHANGED <<table, tick, pinned, client, fatal>>

(* A read that was not cancelled ends with the given result.                *)
Terminal(o, result, q) ==
  CASE result = "ok"                                        -> Publish(o, q)
    [] result # "ok" /\ op[o].origin = "demand"             -> Die("io", q)
    [] result # "ok" /\ op[o].origin = "prefetch"
                     /\ op[o].waiters # {} /\ ~op[o].retry  -> Retry(o, q)
    [] OTHER                                                -> Discard(o, q)

-----------------------------------------------------------------------------
(* A turn of the dispatcher (disp_pass_locked inside dispatcher_main).      *)
HasWorkNoCommands == Signaled # {} \/ intents # <<>> \/ cursor # <<>> \/ life.stop # "no"
HasWorkNoStop     == cmdQ # <<>> \/ Signaled # {} \/ intents # <<>> \/ cursor # <<>>
HasWork == \/ cmdQ # <<>> \/ Signaled # {} \/ intents # <<>> \/ cursor # <<>>
           \/ submitQ # <<>> /\ Busy # Channels
           \/ life.stop # "no"

Turn ==
  /\ At({"wait"}) /\ HasWork
  /\ disp' = [disp EXCEPT !.pc = IF life.stop = "abort" THEN "abort" ELSE "commands",
                          !.deferred = FALSE, !.stop = life.stop]
  /\ UNCHANGED <<cacheVars, ioVars, clientVars, guessVars, envVars, fatal>>

(* After admission the queue is looked at once more, unless a command of    *)
(* this turn was deferred.                                                  *)
AfterTurn      == IF disp.stop = "no" THEN "wait" ELSE "cutAdmit"
AfterAdmission == IF disp.deferred THEN AfterTurn ELSE "recheck"

CanPlanMissesOnly(c) ==                          \* wrong: joins need an entry, too
  Cardinality(Misses(client[c].req, InFlight)) <= Cardinality(FreeOps)
CanPlanStrictly(c) ==                            \* wrong: one entry is left over
  Len(client[c].req.ids) < Cardinality(FreeOps)
CanPlan(c) == Len(client[c].req.ids) <= Cardinality(FreeOps)

Commands == At({"commands", "recheck"}) /\ cmdQ # <<>>

(* The next command is an acquire the pool has room for.                    *)
AcquireNext == Commands /\ client[Head(cmdQ)].pc = "queued" /\ CanPlan(Head(cmdQ))
NextFits    == Fits(client[Head(cmdQ)].req, Pins, InFlight)

(* An acquire the cache has no room for is refused before anything changes. *)
RefuseAcquire ==
  /\ AcquireNext /\ ~NextFits
  /\ cmdQ' = Tail(cmdQ)
  /\ curGraph' = client[Head(cmdQ)].graph
  /\ client' = [client EXCEPT ![Head(cmdQ)] = IdleClient]
  /\ UNCHANGED <<cacheVars, ioVars, intents, cursor, served, envVars, disp, fatal>>

(* A read planned for record r into slot s, and one that request q joins.   *)
PlannedRead(q, c, r, s) ==
  [NullOp EXCEPT !.inUse = TRUE, !.rec = r, !.slot = s, !.gen = slot[s].gen + 1,
                 !.mult = Units(q, r), !.tick = tick + LastAt(q, r), !.waiters = {c}]
JoinedReadWithoutUnits(q, c, x) ==                \* wrong: a join adds no units
  [x EXCEPT !.waiters = @ \cup {c}]
JoinedRead(q, c, x) ==
  [x EXCEPT !.mult = @ + Units(q, x.rec), !.tick = tick + LastAt(q, x.rec),
            !.waiters = @ \cup {c}]

(* Otherwise the plan is applied in one go: hits are leased, reads already  *)
(* in flight are joined, every miss claims a victim and becomes a pending   *)
(* read.  A request fully resident returns at once.                         *)
PlanAcquire ==
  LET c == Head(cmdQ)
      q == client[c].req
      joins == Joins(q, InFlight)
      misses == Misses(q, InFlight)
      victims == Evictable(Pins \cup HitSlots(q))
      places == 1 .. Cardinality(misses)
      leasedBy(s) == CHOOSE r \in Hits(q) : table[r].slot = s
  IN
  /\ AcquireNext /\ NextFits
  /\ \E rec \in [places -> misses] :
      /\ InRequestOrder(q, rec)
      /\ \E s \in [places -> victims] :
          /\ BestFirst(victims, s)
          /\ table' = Detached({s[k] : k \in places})
          /\ slot' = [t \in Slots |->
               IF \E k \in places : s[k] = t
                 THEN LET r == rec[CHOOSE k \in places : s[k] = t]
                      IN Claimed(t, r, tick + LastAt(q, r))
                 ELSE IF t \in HitSlots(q)
                        THEN Leased(t, Units(q, leasedBy(t)), tick + LastAt(q, leasedBy(t)))
                        ELSE slot[t]]
          /\ pinned' = [t \in Slots |-> pinned[t] \/ \E k \in places : s[k] = t]
          /\ \E o \in [places -> FreeOps] :
              /\ FirstFree(o)
              /\ op' = [p \in Ops |->
                   IF \E k \in places : o[k] = p
                     THEN LET k == CHOOSE k \in places : o[k] = p
                          IN PlannedRead(q, c, rec[k], s[k])
                     ELSE IF op[p].inUse /\ op[p].rec \in joins /\ byRec[op[p].rec] = p
                            THEN JoinedRead(q, c, op[p])
                            ELSE op[p]]
              /\ byRec' = [r \in Records |->
                   IF \E k \in places : rec[k] = r
                     THEN o[CHOOSE k \in places : rec[k] = r] ELSE byRec[r]]
              /\ submitQ' = submitQ \o o
  /\ tick' = tick + Len(q.ids)
  /\ cmdQ' = Tail(cmdQ)
  /\ curGraph' = client[c].graph
  /\ served' = [served EXCEPT ![q.layer] = client[c].graph]
  /\ client' = [client EXCEPT
       ![c].deps = Cardinality(misses) + Cardinality(joins),
       ![c].pc = IF misses \cup joins = {} THEN "holding" ELSE "planned"]
  /\ UNCHANGED <<chan, memory, intents, cursor, envVars, disp, fatal>>

(* A release gives back one unit per place of the request, where the record *)
(* still lives; a unit that was never granted is not taken below zero.      *)
HandleRelease ==
  LET c == Head(cmdQ)
      q == client[c].req
      back(s) == Cardinality({i \in DOMAIN q.ids : table[<<q.layer, q.ids[i]>>].slot = s})
  IN
  /\ Commands /\ client[c].pc = "releasing"
  /\ cmdQ' = Tail(cmdQ)
  /\ slot' = [s \in Slots |-> GivenBack(s, back(s))]
  /\ client' = [client EXCEPT ![c] = IdleClient]
  /\ UNCHANGED <<table, tick, ioVars, guessVars, envVars, disp, fatal>>

(* The command loop ends on an empty queue, or in front of an acquire the   *)
(* pending pool has no room for: that one and all behind it are deferred.   *)
CommandsDone ==
  /\ At({"commands", "recheck"})
  /\ cmdQ # <<>> => client[Head(cmdQ)].pc = "queued" /\ ~CanPlan(Head(cmdQ))
  /\ disp' = [disp EXCEPT !.deferred = cmdQ # <<>>,
                          !.pc = IF @ = "commands" THEN "retire" ELSE AfterTurn]
  /\ UNCHANGED <<cacheVars, ioVars, clientVars, guessVars, envVars, fatal>>

(* Channels are retired in index order, whatever order they completed in.   *)
Retire ==
  /\ At({"retire"})
  /\ \E ch \in Signaled :
       /\ ch >= disp.chan
       /\ \A other \in Signaled : other >= disp.chan => ch <= other
       /\ disp' = [disp EXCEPT !.chan = ch + 1]
       /\ chan' = [chan EXCEPT ![ch] = IdleChannel]
       /\ Terminal(chan[ch].op, chan[ch].read, submitQ)
  /\ UNCHANGED <<memory, cmdQ, guessVars, envVars>>

RetireDone ==
  /\ At({"retire"}) /\ \A ch \in Signaled : ch < disp.chan
  /\ disp' = [disp EXCEPT !.pc = "pump", !.chan = 1]
  /\ UNCHANGED <<cacheVars, ioVars, clientVars, guessVars, envVars, fatal>>

(* The pump hands queued reads to free channels in order.  A submission may *)
(* be refused (fatal for a demand, harmless for a guess), be accepted, or   *)
(* complete on the spot.                                                    *)
Pumping   == At({"pump", "pumpIssued"}) /\ submitQ # <<>> /\ Busy # Channels
FreeChannel == CHOOSE ch \in Channels \ Busy : \A o \in Channels \ Busy : ch <= o

SubmitPending ==
  /\ Pumping
  /\ submitQ' = Tail(submitQ)
  /\ chan' = [chan EXCEPT ![FreeChannel] = [op |-> Head(submitQ), read |-> "reading"]]
  /\ memory' = [memory EXCEPT ![op[Head(submitQ)].slot] = NoRec]
  /\ UNCHANGED <<cacheVars, op, byRec, pinned, clientVars, guessVars, envVars, disp, fatal>>

SubmitSync(result) ==
  LET o == Head(submitQ) IN
  /\ Pumping
  /\ result # "ok" => IF op[o].origin = "demand" THEN DemandFaults ELSE GuessFaults
  /\ memory' = [memory EXCEPT ![op[o].slot] = IF result = "ok" THEN op[o].rec ELSE NoRec]
  /\ Terminal(o, result, Tail(submitQ))
  /\ UNCHANGED <<chan, cmdQ, guessVars, envVars, disp>>

(* A refused submission of a guess empties the slot and forgets the read;   *)
(* it does not look at waiters.                                             *)
SubmitRefused ==
  LET o == Head(submitQ)  x == op[o] IN
  /\ Pumping
  /\ IF x.origin = "demand"
       THEN DemandFaults /\ Die("io", Tail(submitQ))
       ELSE /\ GuessFaults
            /\ slot' = [slot EXCEPT ![x.slot].owner = IF @ = x.rec THEN NoRec ELSE @,
                                    ![x.slot].class = "none", ![x.slot].pf = NoPf]
            /\ Unlink(o)
            /\ submitQ' = Tail(submitQ)
            /\ UNCHANGED <<table, tick, client, fatal>>
  /\ UNCHANGED <<chan, memory, cmdQ, guessVars, envVars, disp>>

PumpDoneAtOnce ==                     \* wrong: no pump after an admission
  /\ At({"pump", "pumpIssued"})
  /\ disp.pc = "pumpIssued" \/ submitQ = <<>> \/ Busy = Channels
  /\ Goto(IF disp.pc = "pump" THEN "admit" ELSE AfterAdmission)
  /\ UNCHANGED <<cacheVars, ioVars, clientVars, guessVars, envVars, fatal>>
PumpDone ==
  /\ At({"pump", "pumpIssued"}) /\ (submitQ = <<>> \/ Busy = Channels)
  /\ Goto(IF disp.pc = "pump" THEN "admit" ELSE AfterAdmission)
  /\ UNCHANGED <<cacheVars, ioVars, clientVars, guessVars, envVars, fatal>>

-----------------------------------------------------------------------------
(* Admission (pb_admit_locked): one rank of the intent at the head of the   *)
(* queue per turn.  It is dropped when it comes too late, is stale, already *)
(* resident or in flight, when the channels are taken, when the owner's N   *)
(* is used up, or when claiming a slot would leave less than a token's      *)
(* worth of experts evictable.                                              *)
Rank0(it) == [it |-> it, rank |-> 1]
NextRank == IF cursor = <<>> THEN Rank0(Head(intents)) ELSE cursor
HasRank  == cursor # <<>> \/ intents # <<>>
TakeRank ==     \* consume the rank: pop the intent, move or clear the cursor
  /\ intents' = IF cursor = <<>> THEN Tail(intents) ELSE intents
  /\ cursor' = IF NextRank.rank = Len(NextRank.it.ids) THEN <<>>
                ELSE [NextRank EXCEPT !.rank = @ + 1]
Guess == <<NextRank.it.layer, NextRank.it.ids[NextRank.rank]>>

Served(it) == served[it.layer] # 0 /\ it.graph <= served[it.layer]
Stale(it)  == curGraph # 0 /\ it.graph # curGraph
Spare      == Evictable(Pins)

ChannelLeft(cap) == Cardinality(Busy) < cap

(* What is evictable once the guess has its slot suffices for a token.      *)
KeepsReserveBefore == Cardinality(Spare) >= NUsed  \* wrong: before it has its slot
KeepsReserve == Cardinality(Spare) - 1 >= NUsed
Admits ==
  /\ ~Served(NextRank.it) /\ ~Stale(NextRank.it)
  /\ ~Resident(Guess) /\ byRec[Guess] = NoOp
  /\ ChannelLeft(Qd)
  /\ Cardinality(BusyWith("prefetch")) < PrefetchN
  /\ KeepsReserve

AdmitClaim ==
  /\ At({"admit"}) /\ HasRank /\ Admits
  /\ TakeRank
  /\ \E s \in Spare, o \in Ops :
       /\ BestFirst(Spare, <<s>>) /\ Entry(o)
       /\ table' = Detached({s})
       /\ slot' = [slot EXCEPT ![s] = Claimed(s, Guess, tick)]
       /\ op' = [op EXCEPT ![o] = [NullOp EXCEPT
                    !.inUse = TRUE, !.rec = Guess, !.slot = s, !.gen = slot[s].gen + 1,
                    !.tick = tick, !.origin = "prefetch",
                    !.pf = <<NextRank.it.ord, NextRank.rank>>]]
       /\ byRec' = [byRec EXCEPT ![Guess] = o]
       /\ pinned' = [pinned EXCEPT ![s] = TRUE]
       /\ submitQ' = Append(submitQ, o)
  /\ Goto("pumpIssued")
  /\ UNCHANGED <<tick, chan, memory, clientVars, served, curGraph, envVars, fatal>>

AdmitDrop ==
  /\ At({"admit"}) /\ HasRank /\ ~(Admits /\ FreeOps # {})
  /\ TakeRank
  /\ Goto(AfterAdmission)
  /\ UNCHANGED <<cacheVars, ioVars, clientVars, served, curGraph, envVars, fatal>>

AdmitNothing ==
  /\ At({"admit"}) /\ ~HasRank
  /\ Goto(AfterAdmission)
  /\ UNCHANGED <<cacheVars, ioVars, clientVars, guessVars, envVars, fatal>>


-----------------------------------------------------------------------------
(* Shutdown (dispatcher_stop_and_join_until): close the capture latch, wait *)
(* for the predictor to finish, only then tell the dispatcher to stop.      *)
Cut ==
  /\ Alive /\ Stops # {} /\ ~life.cut
  /\ life' = [life EXCEPT !.cut = TRUE]
  /\ UNCHANGED <<cacheVars, ioVars, clientVars, guessVars, graph, count, disp, fatal>>

PredictorDrained ==
  /\ Alive /\ life.cut /\ ~life.drained
  /\ life' = [life EXCEPT !.drained = TRUE]
  /\ UNCHANGED <<cacheVars, ioVars, clientVars, guessVars, graph, count, disp, fatal>>

StopRequest(mode) ==
  /\ Alive /\ life.drained /\ life.stop = "no"
  /\ life' = [life EXCEPT !.stop = mode]
  /\ UNCHANGED <<cacheVars, ioVars, clientVars, guessVars, graph, count, disp, fatal>>

(* The graceful tail of a turn: dispose of every rank that is left, cancel  *)
(* the guesses in flight once no demand is left, exit once nothing is.      *)
CutAdmit ==
  /\ At({"cutAdmit"}) /\ HasRank
  /\ TakeRank
  /\ UNCHANGED <<cacheVars, ioVars, clientVars, served, curGraph, envVars, disp, fatal>>

DemandsDoneNoQueue == submitQ = <<>> /\ BusyWith("demand") = {} /\ Planned = {}
DemandsDone == /\ cmdQ = <<>> /\ submitQ = <<>>
               /\ BusyWith("demand") = {} /\ Planned = {}

CutAdmitDone ==
  /\ At({"cutAdmit"}) /\ ~HasRank
  /\ disp' = [disp EXCEPT !.pc = IF DemandsDone THEN "cancel" ELSE "wait"]
  /\ UNCHANGED <<cacheVars, ioVars, clientVars, guessVars, envVars, fatal>>

(* A cancelled read is never published, even if it succeeded in time; a     *)
(* read that failed for a reason of its own aborts the process.             *)
DropRead(ch) ==
  /\ chan' = [chan EXCEPT ![ch] = IdleChannel]
  /\ IF chan[ch].read = "error" THEN Die("cancel", submitQ)
                                ELSE Discard(chan[ch].op, submitQ)
  /\ UNCHANGED <<memory, cmdQ, guessVars, envVars, disp>>

CancelGuess ==
  /\ At({"cancel"})
  /\ \E ch \in BusyWith("prefetch") :
       /\ op[chan[ch].op].waiters = {}
       /\ \A other \in BusyWith("prefetch") : ch <= other
       /\ DropRead(ch)

Exit ==
  /\ At({"cancel"}) /\ BusyWith("prefetch") = {}
  /\ Goto(IF Busy = {} THEN "exited" ELSE "wait")
  /\ UNCHANGED <<cacheVars, ioVars, clientVars, guessVars, envVars, fatal>>

(* Abort: every read in flight is cancelled and its waiters fail, then the  *)
(* reads still queued, then the commands nobody has looked at.              *)
AbortRead ==
  /\ At({"abort"})
  /\ \E ch \in Busy : /\ \A other \in Busy : ch <= other
                      /\ DropRead(ch)

AbortQueued ==
  /\ At({"abort"}) /\ Busy = {} /\ submitQ # <<>>
  /\ Discard(Head(submitQ), Tail(submitQ))
  /\ UNCHANGED <<chan, memory, cmdQ, guessVars, envVars, disp>>

AbortCommand ==
  /\ At({"abort"}) /\ Busy = {} /\ submitQ = <<>> /\ cmdQ # <<>>
  /\ cmdQ' = Tail(cmdQ)
  /\ client' = [client EXCEPT ![Head(cmdQ)].pc =
                  IF @ = "releasing" THEN "lost" ELSE "idle"]
  /\ UNCHANGED <<cacheVars, ioVars, guessVars, envVars, disp, fatal>>

AbortDone ==
  /\ At({"abort"}) /\ Busy = {} /\ submitQ = <<>> /\ cmdQ = <<>>
  /\ Goto("exited")
  /\ UNCHANGED <<cacheVars, ioVars, clientVars, guessVars, envVars, fatal>>

-----------------------------------------------------------------------------
DispatcherStep ==
  \/ Turn \/ RefuseAcquire \/ PlanAcquire \/ HandleRelease \/ CommandsDone
  \/ Retire \/ RetireDone
  \/ SubmitPending \/ (\E x \in {"ok", "short"} : SubmitSync(x)) \/ SubmitRefused
  \/ PumpDone \/ AdmitClaim \/ AdmitDrop \/ AdmitNothing
  \/ CutAdmit \/ CutAdmitDone \/ CancelGuess \/ Exit
  \/ AbortRead \/ AbortQueued \/ AbortCommand \/ AbortDone

IoStep(ch) == \E x \in {"ok", "short", "error"} : IoComplete(ch, x)

Environment ==
  \/ \E c \in Clients : Release(c) \/ \E q \in Requests : Acquire(c, q)
  \/ NextGraph \/ \E g \in Guesses : PublishIntent(g)
  \/ \E ch \in Channels : IoStep(ch)
  \/ Cut \/ PredictorDrained \/ \E m \in Stops : StopRequest(m)

Next == DispatcherStep \/ Environment

Spec == Init /\ [][Next]_vars

(* The dispatcher thread runs, reads end, holders give back what they hold, *)
(* the predictor works off its captures; nobody is obliged to ask for       *)
(* anything or to stop the program.                                         *)
Fairness ==
  /\ WF_vars(DispatcherStep)
  /\ \A ch \in Channels : WF_vars(IoStep(ch))
  /\ \A c \in Clients : WF_vars(Release(c))
  /\ WF_vars(PredictorDrained)
  /\ WF_vars(\E m \in Stops : StopRequest(m))

FairSpec == Spec /\ Fairness

-----------------------------------------------------------------------------
OpType == [inUse : BOOLEAN, rec : Records \cup {NoRec}, slot : Slots \cup {NoSlot},
           gen : Nat, mult : Nat, tick : Nat, origin : {"demand", "prefetch"},
           retry : BOOLEAN, waiters : SUBSET Clients, pf : Nat \X Nat]
ClientType == [pc : {"idle", "queued", "planned", "holding", "releasing", "lost"},
               req : Requests \cup {NoRequest}, graph : Nat, deps : Nat]
IntentType == [ord : Nat, graph : Nat, layer : Layers, ids : Seq(Experts)]
TurnPc == {"wait", "commands", "retire", "pump", "admit", "pumpIssued",
           "recheck", "cutAdmit", "cancel", "abort", "exited"}

(* Types of the dispatcher's state.                                         *)
TypeOK ==
  /\ CacheTypeOK
  /\ op \in [Ops -> OpType]
  /\ byRec \in [Records -> Ops \cup {NoOp}]
  /\ pinned \in [Slots -> BOOLEAN]
  /\ submitQ \in Seq(Ops)
  /\ chan \in [Channels -> [op : Ops \cup {NoOp},
                           read : {"none", "reading", "ok", "short", "error"}]]
  /\ memory \in [Slots -> Records \cup {NoRec}]
  /\ cmdQ \in Seq(Clients)
  /\ client \in [Clients -> ClientType]
  /\ intents \in Seq(IntentType)
  /\ cursor \in {<<>>} \cup [it : IntentType, rank : Nat \ {0}]
  /\ served \in [Layers -> Nat] /\ curGraph \in Nat /\ graph \in Nat
  /\ life \in [cut : BOOLEAN, drained : BOOLEAN, stop : {"no", "graceful", "abort"}]
  /\ disp \in [pc : TurnPc, chan : Nat, deferred : BOOLEAN,
              stop : {"no", "graceful", "abort"}]
  /\ count \in [acquires : Nat, intents : Nat]
  /\ fatal \in {"none", "io", "pool", "cancel"}
=============================================================================
