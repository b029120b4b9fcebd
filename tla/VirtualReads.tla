--------------------------- MODULE VirtualReads ---------------------------
(* The read engine of mode=virtual (ggml-moe-direct-dispatch.cpp): a record *)
(* lies in several parts of the original model files, each part is a read   *)
(* of its own, and the parts are sent in waves. A part whose place in the   *)
(* file is not aligned is read into a staging cell and copied to the slot   *)
(* by another thread. Reads that nobody waits for yet (prefetch) have a     *)
(* budget of their own.                                                     *)
(*                                                                          *)
(* A turn of the dispatcher holds the mutex from end to end; it is taken    *)
(* apart into the steps of its loops, and the copy thread, which needs the  *)
(* same mutex, comes in between turns. `closing' is the read a completion   *)
(* has just touched: it is judged (v3_maybe_terminal_locked) before         *)
(* anything else happens.                                                   *)
(*                                                                          *)
(* A definition that no other one uses, right before the one it varies, is  *)
(* a mutant of PROJECT.json: a bug the named property has to find.          *)
EXTENDS Integers, Sequences, FiniteSets, FiniteSetsExt, SequencesExt

CONSTANTS Pool,       \* indices of pending_ops
          QD,         \* io_qd_total: channels
          Reserve,    \* io_qd_demand_reserve
          ChildMax,   \* io_qd_prefetch_child_max
          Parallel,   \* io_part_parallelism
          Parts,      \* parts of a record
          Bounced,    \* the parts that go through staging
          Staging,    \* staging cells
          CopyCap,    \* io_bounce_copy_qd
          Guesses,    \* the N of an intent: reads guessed at a time
          MaxAsks,    \* bound: demands of a behaviour
          MaxIntents, \* bound: guesses of a behaviour
          MaxFaults   \* bound: reads that fail

ASSUME VirtualReadsAssumption ==
  /\ {Pool, QD, Reserve, ChildMax, Parallel, Parts} \subseteq Nat \ {0}
  /\ {Staging, CopyCap, Guesses, MaxAsks, MaxIntents, MaxFaults} \subseteq Nat
  /\ Bounced \subseteq 1..Parts
  /\ QD >= Parallel \/ QD >= Parts
  /\ Staging >= Cardinality(Bounced) /\ CopyCap >= Staging

Ops      == 1..Pool
Channels == 1..QD
Cells    == 1..Staging
Pieces   == 1..Parts

VARIABLES
  turn,      \* pc: the step of the turn, at: its cursor, deferred: a demand is put off,
             \* stopping: what the turn has seen of q_stopping
  closing,   \* the read to be judged, or 0
  op,        \* pending_ops
  free,      \* pending_free, a stack
  queue,     \* submit_q without its holes
  child,     \* v3_child: the waves of a read and what is left of them
  rec,       \* pbv_rec: what a guessed read has reserved
  chan,      \* the channels: which part of which read, and how far the disk is
  busy,      \* v3_staging_busy
  copies,    \* the ring of the copy thread, the copy under way at its head
  counts,    \* v3_inflight_*, pbv_child_reserved, pbv_rec_active, v3_copy_outstanding
  cont,      \* pbv_cont_deferred
  asked,     \* demands in the command ring
  intents,   \* guesses in the intent ring
  stop,      \* "no", "asked" (q_stopping) or "drained" (the predictor is, too)
  fatal,     \* fatal_abort
  landed,    \* ghost: the parts that are in the slot of a read
  fate,      \* ghost: how the last read of an index ended
  spent      \* bounds: demands, guesses and faults so far

sides   == <<cont, asked, intents, stop, fatal, spent>>
ghosts  == <<landed, fate>>
vars    == <<turn, closing, op, free, queue, child, rec, chan, busy, copies,
             counts, sides, ghosts>>

FreeOp  == [use |-> FALSE, origin |-> "demand", waiters |-> 0, retry |-> FALSE]
NoChild == [active |-> FALSE, next |-> 0, remaining |-> 0, copies |-> 0, ok |-> 0,
            latch |-> FALSE, cancel |-> FALSE, cancelled |-> FALSE]
NoRec   == [active |-> FALSE, reserved |-> 0]
IdleChan == [op |-> 0, part |-> 0, cell |-> 0, io |-> "idle", cut |-> FALSE]

Init ==
  /\ turn = [pc |-> "idle", at |-> 1, deferred |-> FALSE, stopping |-> FALSE]
  /\ closing = 0
  /\ op = [i \in Ops |-> FreeOp]
  /\ free = [n \in Ops |-> Pool + 1 - n]
  /\ queue = <<>>
  /\ child = [i \in Ops |-> NoChild]
  /\ rec = [i \in Ops |-> NoRec]
  /\ chan = [c \in Channels |-> IdleChan]
  /\ busy = {}
  /\ copies = <<>>
  /\ counts = [demand |-> 0, prefetch |-> 0, reserved |-> 0, active |-> 0, copy |-> 0]
  /\ cont = FALSE /\ asked = 0 /\ intents = 0 /\ stop = "no" /\ fatal = FALSE
  /\ landed = [i \in Ops |-> {}]
  /\ fate = [i \in Ops |-> "none"]
  /\ spent = [asks |-> 0, intents |-> 0, faults |-> 0]

At(pc)  == turn.pc = pc /\ closing = 0 /\ ~fatal
Goto(pc) == turn' = [turn EXCEPT !.pc = pc, !.at = 1]
Stay(at) == turn' = [turn EXCEPT !.at = at]

-----------------------------------------------------------------------------
(* The callers, the predictor and the disk. What they do is seen only where *)
(* the dispatcher looks for it: there it may come first.                    *)
Ask ==
  /\ turn.pc \in {"idle", "admit", "commandsAgain"}
  /\ stop = "no" /\ spent.asks < MaxAsks
  /\ asked' = asked + 1
  /\ spent' = [spent EXCEPT !.asks = @ + 1]
  /\ UNCHANGED <<turn, closing, op, free, queue, child, rec, chan, busy, copies,
                 counts, cont, intents, stop, fatal, ghosts>>

Guess ==
  /\ turn.pc \in {"idle", "ending"}
  /\ stop # "drained" /\ spent.intents < MaxIntents
  /\ intents' = intents + 1
  /\ spent' = [spent EXCEPT !.intents = @ + 1]
  /\ UNCHANGED <<turn, closing, op, free, queue, child, rec, chan, busy, copies,
                 counts, cont, asked, stop, fatal, ghosts>>

AskToStop ==
  /\ turn.pc \in {"idle", "ending"}
  /\ \/ stop = "no" /\ stop' = "asked"
     \/ stop = "asked" /\ stop' = "drained"
  /\ UNCHANGED <<turn, closing, op, free, queue, child, rec, chan, busy, copies,
                 counts, cont, asked, intents, fatal, spent, ghosts>>

Complete(c) ==
  /\ turn.pc \in {"retire", "retireAgain", "drain"} /\ closing = 0
  /\ chan[c].io = "pending"
  /\ \/ chan' = [chan EXCEPT ![c].io = "ok"] /\ UNCHANGED spent
     \/ chan[c].cut /\ chan' = [chan EXCEPT ![c].io = "aborted"] /\ UNCHANGED spent
     \/ /\ spent.faults < MaxFaults
        /\ chan' = [chan EXCEPT ![c].io = "fail"]
        /\ spent' = [spent EXCEPT !.faults = @ + 1]
  /\ UNCHANGED <<turn, closing, op, free, queue, child, rec, busy, copies,
                 counts, cont, asked, intents, stop, fatal, ghosts>>

-----------------------------------------------------------------------------
(* v3_child_retire_locked: one part of a read is over.                      *)
Ended(c)  == chan[c].io \in {"ok", "fail", "aborted"}
Busy(c)   == Ended(c) \/ chan[c].io \in {"pending", "syncOk"}
Serving(i) == {c \in Channels : chan[c].op = i /\ Busy(c)}
Cut(cs, f) == [c \in Channels |-> IF c \in cs THEN [f[c] EXCEPT !.cut = TRUE] ELSE f[c]]

(* All of the part is there: no error, and the length that was asked for.   *)
DeliveredSome(c) == chan[c].io # "aborted"
Delivered(c)     == chan[c].io \in {"ok", "syncOk"}

Retire(c, ok, cancel) ==
  LET i    == chan[c].op
      k    == chan[c].cell
      was  == child[i]
      idle == [chan EXCEPT ![c] = IdleChan]
      bad  == was.latch \/ was.cancel \/ cancel
      base == [was EXCEPT !.remaining = Max({0, @ - 1}), !.cancel = @ \/ cancel]
      copy == ok /\ k # 0 /\ ~bad
  IN /\ closing' = i
     /\ counts' = [counts EXCEPT ![op[i].origin] = Max({0, @ - 1}),
                                 !.copy = IF k # 0 /\ ~copy THEN Max({0, @ - 1}) ELSE @]
     /\ busy' = IF copy THEN busy ELSE busy \ {k}
     /\ copies' = IF copy THEN Append(copies, [op |-> i, part |-> chan[c].part, cell |-> k])
                  ELSE copies
     /\ landed' = IF chan[c].io \in {"ok", "syncOk"} /\ k = 0 THEN [landed EXCEPT ![i] = @ \cup {chan[c].part}] ELSE landed
     /\ child' = [child EXCEPT ![i] =
          IF ~ok THEN [base EXCEPT !.latch = TRUE, !.cancelled = TRUE]
          ELSE IF k = 0 THEN [base EXCEPT !.ok = @ + 1]
          ELSE IF copy THEN [base EXCEPT !.copies = @ + 1]
          ELSE base]
     /\ chan' = IF ~ok /\ ~was.latch /\ ~was.cancelled
                THEN Cut(Serving(i) \ {c}, idle) ELSE idle

(* disp_retire_signaled_locked: the channels in their order.                *)
Signaled == {c \in Channels : c >= turn.at /\ Ended(c)}
RetireSignaled ==
  /\ At("retire") \/ At("retireAgain")
  /\ Signaled # {}
  /\ LET c == Min(Signaled)
     IN Retire(c, Delivered(c), FALSE) /\ Stay(c + 1)
  /\ UNCHANGED <<op, free, queue, rec, sides, fate>>
RetireEnd ==
  /\ At("retire") \/ At("retireAgain")
  /\ Signaled = {}
  /\ Goto(IF turn.pc = "retire" THEN "commands" ELSE "pump")
  /\ cont' = IF turn.pc = "retire" THEN cont ELSE FALSE
  /\ UNCHANGED <<closing, op, free, queue, child, rec, chan, busy, copies, counts,
                 asked, intents, stop, fatal, spent, ghosts>>

-----------------------------------------------------------------------------
(* v3_maybe_terminal_locked and disp_op_terminal_locked: a read with parts  *)
(* out, copies out or, unless it has failed, waves to come is not over.     *)
UnfinishedReads(i) ==
  \/ child[i].remaining > 0
  \/ /\ child[i].active /\ child[i].next < Parts
     /\ ~child[i].latch /\ ~child[i].cancel
Unfinished(i) ==
  \/ child[i].remaining > 0 \/ child[i].copies > 0
  \/ /\ child[i].active /\ child[i].next < Parts
     /\ ~child[i].latch /\ ~child[i].cancel
Clean(i) == ~child[i].latch /\ child[i].ok = Parts

(* pio_release_locked, with what is left of a reservation.                  *)
NothingReturned(i) == counts
Returned(i) ==
  IF rec[i].active
  THEN [counts EXCEPT !.reserved = Max({0, @ - rec[i].reserved}), !.active = Max({0, @ - 1})]
  ELSE counts

KeepOpen ==
  /\ closing # 0 /\ Unfinished(closing)
  /\ closing' = 0
  /\ UNCHANGED <<turn, op, free, queue, child, rec, chan, busy, copies, counts,
                 sides, ghosts>>

(* Over at once: published, cancelled, or failed with nobody waiting.       *)
Retryable(i) == op[i].waiters > 0 /\ ~op[i].retry /\ op[i].origin = "prefetch"
Finish ==
  /\ closing # 0 /\ ~Unfinished(closing)
  /\ \/ child[closing].cancel
     \/ Clean(closing)
     \/ op[closing].origin = "prefetch" /\ ~Retryable(closing)
  /\ fate' = [fate EXCEPT ![closing] =
       IF Clean(closing) /\ ~child[closing].cancel THEN "published" ELSE "unpublished"]
  /\ child' = [child EXCEPT ![closing] = NoChild]
  /\ op' = [op EXCEPT ![closing] = FreeOp]
  /\ free' = Append(free, closing)
  /\ rec' = [rec EXCEPT ![closing] = NoRec]
  /\ counts' = Returned(closing)
  /\ closing' = 0
  /\ UNCHANGED <<turn, queue, chan, busy, copies, sides, landed>>

(* A guess somebody has come to wait for is read once more, as a demand.    *)
Retry ==
  /\ closing # 0 /\ ~Unfinished(closing) /\ ~child[closing].cancel /\ ~Clean(closing)
  /\ Retryable(closing) /\ free # <<>>
  /\ LET r == Last(free)
     IN /\ op' = [op EXCEPT ![r] = [use |-> TRUE, origin |-> "demand",
                                    waiters |-> op[closing].waiters, retry |-> TRUE],
                            ![closing] = FreeOp]
        /\ free' = Append(Front(free), closing)
        /\ queue' = Append(queue, r)
        /\ landed' = [landed EXCEPT ![r] = {}]
        /\ fate' = [fate EXCEPT ![closing] = "retried", ![r] = "none"]
        /\ rec' = [rec EXCEPT ![closing] = NoRec, ![r] = NoRec]
  /\ counts' = Returned(closing)
  /\ child' = [child EXCEPT ![closing] = NoChild]
  /\ closing' = 0
  /\ UNCHANGED <<turn, chan, busy, copies, sides>>

(* A demand that fails, or a retry that fails or finds no index, ends the   *)
(* process.                                                                 *)
FailStop ==
  /\ closing # 0 /\ ~Unfinished(closing) /\ ~child[closing].cancel /\ ~Clean(closing)
  /\ op[closing].origin = "demand" \/ (Retryable(closing) /\ free = <<>>)
  /\ fatal' = TRUE /\ closing' = 0
  /\ UNCHANGED <<turn, op, free, queue, child, rec, chan, busy, copies, counts,
                 cont, asked, intents, stop, spent, ghosts>>

-----------------------------------------------------------------------------
(* The commands: a demand finds its record there, joins a read of it under  *)
(* way, or starts one; without an index to spare it is put off.             *)
StartTurn ==
  /\ At("idle")
  /\ turn' = [pc |-> "retire", at |-> 1, deferred |-> FALSE, stopping |-> stop # "no"]
  /\ UNCHANGED <<closing, op, free, queue, child, rec, chan, busy, copies, counts,
                 sides, ghosts>>

Taking == (At("commands") \/ At("commandsAgain")) /\ asked > 0 /\ free # <<>>
Demand ==
  /\ Taking
  /\ asked' = asked - 1
  /\ \/ UNCHANGED <<op, free, queue, landed, fate>>
     \/ \E i \in Ops :
          /\ op[i].use
          /\ op' = [op EXCEPT ![i].waiters = @ + 1]
          /\ UNCHANGED <<free, queue, landed, fate>>
     \/ LET i == Last(free)
        IN /\ op' = [op EXCEPT ![i] = [FreeOp EXCEPT !.use = TRUE, !.waiters = 1]]
           /\ free' = Front(free)
           /\ queue' = Append(queue, i)
           /\ landed' = [landed EXCEPT ![i] = {}]
           /\ fate' = [fate EXCEPT ![i] = "none"]
  /\ UNCHANGED <<turn, closing, child, rec, chan, busy, copies, counts, cont,
                 intents, stop, fatal, spent>>

AfterTurn == IF turn.stopping THEN "ending" ELSE "idle"
CommandsEnd ==
  /\ At("commands") \/ At("commandsAgain")
  /\ asked = 0 \/ free = <<>>
  /\ turn' = [turn EXCEPT !.pc = IF turn.pc = "commands" THEN "retireAgain" ELSE AfterTurn,
                            !.at = 1, !.deferred = @ \/ asked > 0]
  /\ UNCHANGED <<closing, op, free, queue, child, rec, chan, busy, copies, counts,
                 sides, ghosts>>

-----------------------------------------------------------------------------
(* disp_pump_locked: the queue from its head, a wave of a read at a time.   *)
Width    == Min({Parallel, Parts})
Slot     == queue[turn.at]
From     == IF child[Slot].active THEN child[Slot].next ELSE 0
Need     == Min({Width, Parts - From})
Wave     == (From + 1)..(From + Need)
Without(q, n) == SubSeq(q, 1, n - 1) \o SubSeq(q, n + 1, Len(q))
Limit    == Min({ChildMax, QD - Reserve})
CreditOk(w) ==
  /\ w > 0
  /\ QD - counts.demand - counts.prefetch - counts.reserved >= w
  /\ counts.prefetch + counts.reserved + w <= Limit

Pumping == (At("pump") \/ At("pumpAgain")) /\ turn.at <= Len(queue)
PumpEndsAt == IF turn.pc = "pump" THEN "admit" ELSE IF turn.deferred THEN AfterTurn ELSE "commandsAgain"

(* An index whose read is over by now, or that has nothing left to send: the *)
(* slot is dropped. (Of an index that is over the code reads the layer at   *)
(* -1; its wave has width 0 whatever that read returns.)                    *)
Spent ==
  /\ Pumping
  /\ ~op[Slot].use \/ Need <= 0
  /\ queue' = Without(queue, turn.at)
  /\ UNCHANGED <<turn, closing, op, free, child, rec, chan, busy, copies, counts,
                 sides, ghosts>>

Crowded == From > 0 /\ child[Slot].remaining + Need > Parallel
Unpaid  == From > 0 /\ op[Slot].origin = "prefetch" /\ ~CreditOk(Need)
Live    == Pumping /\ op[Slot].use /\ Need > 0
(* A guess whose next wave has to wait lets those behind it pass.           *)
PassOver ==
  /\ Live /\ op[Slot].origin = "prefetch"
  /\ Crowded \/ Unpaid
  /\ cont' = (cont \/ (~Crowded /\ Unpaid))
  /\ Stay(turn.at + 1)
  /\ UNCHANGED <<closing, op, free, queue, child, rec, chan, busy, copies, counts,
                 asked, intents, stop, fatal, spent, ghosts>>

FreeChannels == {c \in Channels : ~Busy(c)}
ToStage == Wave \cap Bounced
Room ==
  /\ Cardinality(FreeChannels) >= Need
  /\ Cardinality(Cells \ busy) >= Cardinality(ToStage)
  /\ ToStage # {} => counts.copy + Cardinality(ToStage) <= CopyCap
PumpEnd ==
  /\ At("pump") \/ At("pumpAgain")
  /\ IF turn.at > Len(queue) THEN TRUE
     ELSE /\ Live
          /\ \/ op[Slot].origin = "demand" /\ Crowded
             \/ ~Crowded /\ ~Unpaid /\ ~Room
  /\ Goto(PumpEndsAt)
  /\ UNCHANGED <<closing, op, free, queue, child, rec, chan, busy, copies, counts,
                 sides, ghosts>>

(* A wave goes out: the first turns the reservation into reads in flight. A *)
(* read is taken by the disk, done at once, or refused.                     *)
Opened(i, from) == IF from = 0 THEN [NoChild EXCEPT !.active = TRUE] ELSE child[i]
Nth(S, n) == CHOOSE x \in S : Cardinality({y \in S : y < x}) = n - 1
Issue ==
  /\ Live /\ ~Crowded /\ ~Unpaid /\ Room
  /\ LET i    == Slot
         on   == [p \in Wave |-> Nth(FreeChannels, p - From)]
         cell == [p \in ToStage |-> Nth(Cells \ busy, Cardinality({y \in ToStage : y <= p}))]
     IN \E io \in [Wave -> {"pending", "syncOk", "refused"}] :
          LET faults == Cardinality({p \in Wave : io[p] = "refused"})
          IN /\ spent.faults + faults <= MaxFaults
             /\ spent' = [spent EXCEPT !.faults = @ + faults]
             /\ chan' = [c \in Channels |->
                  IF \E p \in Wave : on[p] = c
                  THEN LET p == CHOOSE p \in Wave : on[p] = c
                       IN [op |-> i, part |-> p, io |-> io[p], cut |-> FALSE,
                           cell |-> IF p \in ToStage THEN cell[p] ELSE 0]
                  ELSE chan[c]]
             /\ busy' = busy \cup {cell[p] : p \in ToStage}
             /\ child' = [child EXCEPT ![i] =
                  [Opened(i, From) EXCEPT !.remaining = @ + Need, !.next = From + Need]]
             /\ rec' = IF From = 0 THEN [rec EXCEPT ![i].reserved = 0] ELSE rec
             /\ counts' = [counts EXCEPT
                  ![op[i].origin] = @ + Need,
                  !.copy = @ + Cardinality(ToStage),
                  !.reserved = IF From = 0 THEN Max({0, @ - rec[i].reserved}) ELSE @]
  /\ turn' = [turn EXCEPT !.pc = IF turn.pc = "pump" THEN "settle" ELSE "settleAgain"]
  /\ UNCHANGED <<closing, op, free, queue, copies, cont, asked, intents, stop,
                 fatal, ghosts>>

(* What was done at once or refused is retired on the spot; then the queue  *)
(* keeps the read only if it has waves to come.                             *)
AtOnce   == {c \in Channels : chan[c].io \in {"syncOk", "refused"}}
Settling == At("settle") \/ At("settleAgain")
AllOutAtOnce == TRUE
AllOut       == ~child[Slot].active \/ child[Slot].next >= Parts
SettleOne ==
  /\ Settling /\ AtOnce # {}
  /\ LET c == CHOOSE c \in AtOnce : \A d \in AtOnce : chan[c].part <= chan[d].part
     IN Retire(c, Delivered(c), FALSE)
  /\ UNCHANGED <<turn, op, free, queue, rec, sides, fate>>
Settled ==
  /\ Settling /\ AtOnce = {}
  /\ queue' = IF AllOut THEN Without(queue, turn.at) ELSE queue
  /\ turn' = [turn EXCEPT !.pc = IF turn.pc = "settle" THEN "pump" ELSE "pumpAgain",
                          !.at = IF AllOut THEN @ ELSE @ + 1]
  /\ UNCHANGED <<closing, op, free, child, rec, chan, busy, copies, counts, sides,
                 ghosts>>

-----------------------------------------------------------------------------
(* pb_admit_locked in mode=virtual: one guess a turn, and none while a      *)
(* demand is put off, waits, or has joined a guess.                         *)
NCap == Min({Guesses, ChildMax \div Width, IF QD > Reserve THEN (QD - Reserve) \div Width ELSE 0})
Blocked ==
  \/ turn.deferred \/ asked > 0
  \/ \E n \in DOMAIN queue : op[queue[n]].origin = "demand"
  \/ \E i \in Ops : op[i].use /\ op[i].origin = "prefetch" /\ op[i].waiters > 0
MayAdmit == At("admit") /\ ~Blocked /\ ~cont /\ intents > 0
AfterAdmit == IF turn.deferred THEN AfterTurn ELSE "commandsAgain"

(* No guess is looked at, or its wave finds no credit and it stays.         *)
AdmitNothing ==
  /\ At("admit")
  /\ ~MayAdmit \/ (counts.active + 1 <= NCap /\ ~CreditOk(Width))
  /\ Goto(AfterAdmit)
  /\ UNCHANGED <<closing, op, free, queue, child, rec, chan, busy, copies, counts,
                 sides, ghosts>>
(* The record is there, is being read, is out of date, or there are guesses *)
(* or slots enough.                                                         *)
Dispose ==
  /\ MayAdmit
  /\ intents' = intents - 1
  /\ Goto(AfterAdmit)
  /\ UNCHANGED <<closing, op, free, queue, child, rec, chan, busy, copies, counts,
                 cont, asked, stop, fatal, spent, ghosts>>
Claim ==
  /\ MayAdmit /\ free # <<>>
  /\ counts.active + 1 <= NCap /\ CreditOk(Width)
  /\ intents' = intents - 1
  /\ LET i == Last(free)
     IN /\ op' = [op EXCEPT ![i] = [FreeOp EXCEPT !.use = TRUE, !.origin = "prefetch"]]
        /\ free' = Front(free)
        /\ rec' = [rec EXCEPT ![i] = [active |-> TRUE, reserved |-> Width]]
        /\ queue' = Append(queue, i)
        /\ landed' = [landed EXCEPT ![i] = {}]
        /\ fate' = [fate EXCEPT ![i] = "none"]
  /\ counts' = [counts EXCEPT !.reserved = @ + Width, !.active = @ + 1]
  /\ turn' = [turn EXCEPT !.pc = "pumpAgain", !.at = 1]
  /\ UNCHANGED <<closing, child, chan, busy, copies, cont, asked, stop, fatal, spent>>

-----------------------------------------------------------------------------
(* The copy thread, v3_copy_complete_locked.                                *)
EndCopy ==
  /\ copies # <<>>
  /\ turn.pc \in {"idle", "exited"} /\ closing = 0 /\ ~fatal
  /\ LET i == Head(copies).op
     IN /\ child' = [child EXCEPT ![i].ok = @ + 1, ![i].copies = Max({0, @ - 1})]
        /\ landed' = [landed EXCEPT ![i] = @ \cup {Head(copies).part}]
        /\ closing' = i
  /\ busy' = busy \ {Head(copies).cell}
  /\ counts' = [counts EXCEPT !.copy = Max({0, @ - 1})]
  /\ copies' = Tail(copies)
  /\ UNCHANGED <<turn, op, free, queue, rec, chan, sides, fate>>

-----------------------------------------------------------------------------
(* The end of a turn when the store stops: what is left of the guesses is   *)
(* dropped; with the demands served, the reads nobody waits for are         *)
(* cancelled and waited for.                                                *)
Waiting == FoldSet(LAMBDA i, n : n + op[i].waiters, 0, Ops)
Served  == stop = "drained" /\ asked = 0 /\ queue = <<>> /\ Waiting = 0
Chosen  == {c \in Channels : Busy(c) /\ op[chan[c].op].origin = "prefetch"
                                     /\ op[chan[c].op].waiters = 0}
CutIntents ==
  /\ At("ending") /\ intents > 0
  /\ intents' = 0
  /\ UNCHANGED <<turn, closing, op, free, queue, child, rec, chan, busy, copies,
                 counts, cont, asked, stop, fatal, spent, ghosts>>
CancelGuesses ==
  /\ At("ending") /\ intents = 0 /\ Served /\ Chosen # {}
  /\ LET who == {chan[c].op : c \in Chosen}
         new == {i \in who : ~child[i].cancelled}
     IN /\ chan' = Cut(UNION {Serving(i) : i \in new}, chan)
        /\ child' = [i \in Ops |-> IF i \in who THEN [child[i] EXCEPT !.cancelled = TRUE]
                                   ELSE child[i]]
  /\ Goto("drain")
  /\ UNCHANGED <<closing, op, free, queue, rec, busy, copies, counts, sides, ghosts>>
(* Blocked on the channel until the disk is through with it. A read that    *)
(* fails for another reason than the cancellation ends the process; one     *)
(* that came short is not told from a whole one, but nothing is published.  *)
DrainFails ==
  /\ At("drain") /\ Chosen # {} /\ chan[Min(Chosen)].io = "fail"
  /\ fatal' = TRUE
  /\ UNCHANGED <<turn, closing, op, free, queue, child, rec, chan, busy, copies,
                 counts, cont, asked, intents, stop, spent, ghosts>>
DrainOne ==
  /\ At("drain") /\ Chosen # {}
  /\ LET c == Min(Chosen)
     IN chan[c].io # "pending" /\ Retire(c, chan[c].io # "aborted", TRUE)
  /\ UNCHANGED <<turn, op, free, queue, rec, sides, fate>>
EndTurn ==
  /\ \/ At("ending") /\ intents = 0 /\ ~(Served /\ Chosen # {})
     \/ At("drain") /\ Chosen = {}
  /\ Goto(IF Served /\ \A c \in Channels : ~Busy(c) THEN "exited" ELSE "idle")
  /\ UNCHANGED <<closing, op, free, queue, child, rec, chan, busy, copies, counts,
                 sides, ghosts>>
(* dispatcher_cleanup_locked, once the thread has ended: the tables of the  *)
(* reads are cleared.                                                       *)
CleanUp ==
  /\ At("exited")
  /\ Goto("gone")
  /\ op' = [i \in Ops |-> FreeOp] /\ child' = [i \in Ops |-> NoChild]
  /\ rec' = [i \in Ops |-> NoRec] /\ chan' = [c \in Channels |-> IdleChan]
  /\ free' = <<>> /\ queue' = <<>>
  /\ counts' = [counts EXCEPT !.reserved = 0, !.active = 0]
  /\ UNCHANGED <<closing, busy, copies, sides, ghosts>>

-----------------------------------------------------------------------------
Over == fatal \/ turn.pc = "gone"
Done == Over /\ UNCHANGED vars

Judge == KeepOpen \/ Finish \/ Retry \/ FailStop
Turn ==
  \/ StartTurn \/ RetireSignaled \/ RetireEnd \/ Demand \/ CommandsEnd
  \/ Spent \/ PassOver \/ PumpEnd \/ Issue \/ SettleOne \/ Settled
  \/ AdmitNothing \/ Dispose \/ Claim
  \/ CutIntents \/ CancelGuesses \/ DrainFails \/ DrainOne \/ EndTurn
Disk == \E c \in Channels : Complete(c)

Next == Ask \/ Guess \/ AskToStop \/ Disk \/ Judge \/ Turn \/ EndCopy \/ CleanUp \/ Done

Spec == Init /\ [][Next]_vars

(* The dispatcher goes on with its turns, the copy thread with its ring,    *)
(* and the disk with the reads it has (their number is bounded, so it       *)
(* answers each). Nobody has to ask, guess or stop.                         *)
FairSpec ==
  /\ Spec
  /\ WF_vars(Turn) /\ WF_vars(Judge)
  /\ SF_vars(EndCopy)
  /\ SF_vars(Disk)

-----------------------------------------------------------------------------
(* Type correctness.                                                        *)
TypeOK ==
  /\ closing \in 0..Pool
  /\ \A i \in Ops : /\ op[i].origin \in {"demand", "prefetch"} /\ op[i].waiters \in 0..MaxAsks
                    /\ child[i].next \in 0..Parts /\ child[i].ok \in 0..Parts
  /\ \A n \in DOMAIN queue : queue[n] \in Ops
  /\ busy \subseteq Cells
  /\ stop \in {"no", "asked", "drained"} /\ {fatal, cont} \subseteq BOOLEAN

Held(c)     == chan[c].io # "idle"
HeldBy(o)   == {c \in Channels : Held(c) /\ op[chan[c].op].origin = o}
StagedReads == {c \in Channels : Held(c) /\ chan[c].cell # 0}

(* The gauges admission and the pump decide by are what is really under way: *)
(* each part in flight counts once, for its origin; a reservation counts    *)
(* until its first wave, a record until its index is returned; a unit of    *)
(* copy credit and a staging cell belong to one staged read or copy. The    *)
(* guesses stay within their budget, of which a reserve wider than the      *)
(* channels leaves nothing, and a record within its parts at a time.        *)
Budget    == Max({0, Limit})
CellsHeld == {chan[c].cell : c \in StagedReads} \cup {copies[n].cell : n \in DOMAIN copies}
BudgetExact ==
  turn.pc # "gone" =>
    /\ counts.demand = Cardinality(HeldBy("demand"))
    /\ counts.prefetch = Cardinality(HeldBy("prefetch"))
    /\ \A i \in Ops : rec[i].reserved \in {0, Width}
    /\ counts.reserved = Width * Cardinality({i \in Ops : rec[i].reserved # 0})
    /\ counts.active = Cardinality({i \in Ops : rec[i].active})
    /\ counts.copy = Cardinality(busy)
    /\ busy = CellsHeld \ {0}
    /\ Cardinality(busy) = Cardinality(StagedReads) + Len(copies)
    /\ counts.prefetch + counts.reserved <= Budget
    /\ \A i \in Ops : Cardinality({c \in Channels : chan[c].op = i /\ Held(c)}) <= Parallel

(* An index that is returned to the pool has nothing under way any more: no *)
(* part that the disk may still write to the slot, none in the ring of the  *)
(* copy thread, none being copied. The next read of that index would take   *)
(* them for its own, and the slot may by then belong to another record.     *)
FreedIsQuiet ==
  turn.pc # "gone" =>
    \A i \in Ops : ~op[i].use =>
      /\ \A c \in Channels : chan[c].op # i
      /\ \A n \in DOMAIN copies : copies[n].op # i
      /\ ~child[i].active

(* A record is published only with every part of it in the slot: not after  *)
(* its first wave, not with a copy outstanding, not with a failed part.     *)
PublishedWhole == \A i \in Ops : fate[i] = "published" => landed[i] = Pieces

(* Every read that was claimed is over at some time, published or not, and  *)
(* every demand of the ring is taken, unless the process ends: no wave      *)
(* waits for ever for a channel, a cell or a credit that others hold.       *)
(* (Demands and guesses are bounded, so there comes a time without any.)    *)
AtRest   == asked = 0 /\ \A i \in Ops : ~op[i].use
ReadsEnd == ~AtRest ~> (AtRest \/ Over)

(* dispatcher_main ends with nothing left, with nothing to drain: no copy is under way    *)
(* whose tables the clean-up takes away.                                    *)
CopiesFindTheirTables == turn.pc = "gone" => copies = <<>>

=============================================================================
