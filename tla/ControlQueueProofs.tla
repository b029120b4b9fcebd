------------------------- MODULE ControlQueueProofs -------------------------
(***************************************************************************)
(* The control queue, proved for every set of producers, every set of      *)
(* command slots, every pool and every bound.                              *)
(***************************************************************************)
EXTENDS ControlQueue, FiniteSetTheorems, TLAPS

(* What a submission does to the places of the ring.                        *)
LEMMA RingGrows ==
  ASSUME NEW s \in Seq(Cmds), NEW c \in Cmds
  PROVE  /\ Append(s, c) \in Seq(Cmds)
         /\ DOMAIN Append(s, c) = DOMAIN s \cup {Len(s) + 1}
         /\ \A i \in DOMAIN s : i # Len(s) + 1 /\ Append(s, c)[i] = s[i]
         /\ Append(s, c)[Len(s) + 1] = c
OBVIOUS

(* What popping a command does to the places of the ring.                   *)
LEMMA RingShrinks ==
  ASSUME NEW s \in Seq(Cmds), s # <<>>
  PROVE  /\ Tail(s) \in Seq(Cmds) /\ Head(s) = s[1] /\ Head(s) \in Cmds
         /\ 1 \in DOMAIN s
         /\ \A i \in DOMAIN Tail(s) : i + 1 \in DOMAIN s /\ i + 1 # 1 /\ Tail(s)[i] = s[i + 1]
         /\ \A i \in DOMAIN s : i # 1 => i - 1 \in DOMAIN Tail(s) /\ Tail(s)[i - 1] = s[i]
         /\ \A i, j \in DOMAIN Tail(s) : i + 1 = j + 1 => i = j
OBVIOUS

(* The initial state satisfies the invariant.                               *)
LEMMA QueueInit == Init => QueueInv
<1> SUFFICES ASSUME Init PROVE QueueInv
  OBVIOUS
<1> USE QueueAssumption DEF Init
<1>1. TypeOK
  <2>1. ring \in Seq(Cmds)
    OBVIOUS
  <2>2. prod \in [Producers -> [pc : {"idle", "alloc", "waitFree", "filled", "waiting", "returned"},
                               cmd : Cmds \cup {NoCmd}]]
    OBVIOUS
  <2>3. done \in [Cmds -> BOOLEAN]
    OBVIOUS
  <2> QED
    BY <2>1, <2>2, <2>3 DEF TypeOK
<1>2. EventTellsAll /\ StopInOrder
  BY DEF EventTellsAll, QMutexFree, StopInOrder
<1>3. SlotsOwned
  BY DEF SlotsOwned, At
<1>4. CommandsPlaced
  BY DEF CommandsPlaced, Unanswered, At
<1> QED
  BY <1>1, <1>2, <1>3, <1>4 DEF QueueInv

(* The two conjuncts about commands see only these variables.               *)
LEMMA CommandsUntouched ==
  ASSUME SlotsOwned, CommandsPlaced, UNCHANGED <<prod, free, ring, done, reading>>
  PROVE  SlotsOwned' /\ CommandsPlaced'
BY DEF SlotsOwned, CommandsPlaced, Unanswered, At

(* A producer that moves from one state to another without a command, or    *)
(* returns with its answer, disturbs nobody's command.                      *)
LEMMA ProducerMoves ==
  ASSUME QueueInv, NEW p \in Producers, NEW s \in {"idle", "alloc", "waitFree", "returned"},
         prod' = [prod EXCEPT ![p].pc = s], UNCHANGED <<free, ring, done, reading>>,
         \/ prod[p].pc \in {"idle", "alloc", "waitFree"} /\ s # "returned"
         \/ At(p, "waiting") /\ done[prod[p].cmd] /\ s = "returned"
  PROVE  /\ prod' \in [Producers -> [pc : {"idle", "alloc", "waitFree", "filled", "waiting", "returned"},
                                    cmd : Cmds \cup {NoCmd}]]
         /\ SlotsOwned' /\ CommandsPlaced'
<1> USE DEF QueueInv, TypeOK, At
<1>1. prod' \in [Producers -> [pc : {"idle", "alloc", "waitFree", "filled", "waiting", "returned"},
                              cmd : Cmds \cup {NoCmd}]]
  OBVIOUS
<1>2. \A q \in Producers : /\ prod'[q].cmd = prod[q].cmd
                           /\ prod'[q].pc = IF q = p THEN s ELSE prod[q].pc
  OBVIOUS
<1>3. SlotsOwned'
  BY <1>2 DEF SlotsOwned
<1>4. \A c \in Cmds : Unanswered(c)' <=> Unanswered(c)
  BY <1>2 DEF Unanswered
<1>5. CommandsPlaced'
  BY <1>4 DEF CommandsPlaced
<1> QED
  BY <1>1, <1>3, <1>5

(* Every step of a producer preserves the invariant.                        *)
LEMMA ProducerStep ==
  ASSUME QueueInv, NEW p \in Producers, PassLatch(p) \/ Producer(p)
  PROVE  QueueInv'
<1> USE QueueAssumption DEF QueueInv, prodVars, workVars, wakeVars, Move
<1>1. CASE PassLatch(p)
  <2> USE <1>1 DEF PassLatch, At
  <2>1. /\ prod' = [prod EXCEPT ![p].pc = "alloc"] /\ UNCHANGED <<free, ring, done, reading>>
        /\ prod[p].pc = "idle"
    OBVIOUS
  <2>2. /\ prod' \in [Producers -> [pc : {"idle", "alloc", "waitFree", "filled", "waiting", "returned"},
                                   cmd : Cmds \cup {NoCmd}]]
        /\ SlotsOwned' /\ CommandsPlaced'
    BY <2>1, ProducerMoves DEF At
  <2>3. TypeOK'
    BY <2>2 DEF TypeOK
  <2>4. EventTellsAll' /\ StopInOrder'
    BY DEF EventTellsAll, QMutexFree, StopInOrder
  <2> QED
    BY <2>2, <2>3, <2>4
<1>2. CASE AllocRefused(p)
  <2> USE <1>2 DEF AllocRefused
  <2>1. /\ prod' = [prod EXCEPT ![p].pc = "idle"] /\ UNCHANGED <<free, ring, done, reading>>
        /\ prod[p].pc \in {"alloc", "waitFree"}
    OBVIOUS
  <2>2. /\ prod' \in [Producers -> [pc : {"idle", "alloc", "waitFree", "filled", "waiting", "returned"},
                                   cmd : Cmds \cup {NoCmd}]]
        /\ SlotsOwned' /\ CommandsPlaced'
    BY <2>1, ProducerMoves DEF At
  <2>3. TypeOK'
    BY <2>2 DEF TypeOK
  <2>4. EventTellsAll' /\ StopInOrder'
    BY DEF EventTellsAll, QMutexFree, StopInOrder
  <2> QED
    BY <2>2, <2>3, <2>4
<1>3. CASE AllocTakes(p)
  <2> USE <1>3 DEF AllocTakes
  <2>1. PICK c \in free : /\ free' = free \ {c}
                          /\ done' = [done EXCEPT ![c] = FALSE]
                          /\ prod' = [prod EXCEPT ![p] = [pc |-> "filled", cmd |-> c]]
    BY DEF Take
  <2>2. c \in Cmds /\ c # NoCmd /\ \A q \in Producers : prod[q].cmd # c
    BY DEF TypeOK, SlotsOwned
  <2>3. TypeOK'
    BY <2>1, <2>2 DEF TypeOK
  <2>4. /\ prod'[p].cmd = c /\ prod'[p].pc = "filled" /\ done'[c] = FALSE
        /\ \A q \in Producers \ {p} : prod'[q] = prod[q]
        /\ \A d \in Cmds \ {c} : done'[d] = done[d]
    BY <2>1, <2>2 DEF TypeOK
  <2>5. prod[p].cmd = NoCmd
    BY DEF SlotsOwned, TypeOK
  <2>6. SlotsOwned'
    BY <2>1, <2>2, <2>4, <2>5 DEF SlotsOwned, At, TypeOK
  <2>7. \A d \in Cmds : Unanswered(d)' <=> Unanswered(d)
    BY <2>2, <2>4, <2>5 DEF Unanswered, At
  <2>8. CommandsPlaced'
    BY <2>7 DEF CommandsPlaced, TypeOK
  <2>9. EventTellsAll' /\ StopInOrder'
    BY DEF EventTellsAll, QMutexFree, StopInOrder
  <2> QED
    BY <2>3, <2>6, <2>8, <2>9
<1>4. CASE AllocSleeps(p)
  <2> USE <1>4 DEF AllocSleeps
  <2>1. /\ prod' = [prod EXCEPT ![p].pc = "waitFree"] /\ UNCHANGED <<free, ring, done, reading>>
        /\ prod[p].pc \in {"alloc", "waitFree"}
    OBVIOUS
  <2>2. /\ prod' \in [Producers -> [pc : {"idle", "alloc", "waitFree", "filled", "waiting", "returned"},
                                   cmd : Cmds \cup {NoCmd}]]
        /\ SlotsOwned' /\ CommandsPlaced'
    BY <2>1, ProducerMoves DEF At
  <2>3. TypeOK'
    BY <2>2 DEF TypeOK
  <2>4. EventTellsAll' /\ StopInOrder'
    BY DEF EventTellsAll, QMutexFree, StopInOrder
  <2> QED
    BY <2>2, <2>3, <2>4
<1>5. CASE Submit(p)
  <2> USE <1>5 DEF Submit, SetCommandEvent, At
  <2>0. PICK c \in Cmds : c = prod[p].cmd
    BY DEF SlotsOwned, TypeOK
  <2> USE <2>0
  <2>1. c \in Cmds /\ ~done[c] /\ \A q \in Producers : prod[q].cmd = c => q = p
    BY DEF SlotsOwned, TypeOK
  <2>2. ~Unanswered(c)
    BY <2>1 DEF Unanswered
  <2>3. c \notin reading /\ \A i \in DOMAIN ring : ring[i] # c
    BY <2>2 DEF CommandsPlaced
  <2>4. /\ prod' = [prod EXCEPT ![p].pc = IF Refusing THEN "returned" ELSE "waiting"]
        /\ \A q \in Producers : /\ prod'[q].cmd = prod[q].cmd
                                /\ q # p => prod'[q] = prod[q]
    BY DEF TypeOK
  <2>5. CASE Refusing
    <3>1. /\ prod'[p].pc = "returned"
          /\ \A d \in Cmds \ {c} : done'[d] = done[d]
      BY <2>1, <2>4, <2>5 DEF TypeOK
    <3>2. TypeOK'
      <4>1. prod' = [prod EXCEPT ![p].pc = "returned"] /\ done' = [done EXCEPT ![c] = TRUE]
        BY <2>4, <2>5
      <4> QED
        BY <2>1, <2>5, <4>1 DEF TypeOK
    <3>3. SlotsOwned'
      BY <2>1, <2>4, <2>5, <3>1 DEF SlotsOwned, TypeOK
    <3>4. \A d \in Cmds : Unanswered(d)' <=> Unanswered(d)
      BY <2>1, <2>2, <2>4, <3>1 DEF Unanswered, TypeOK
    <3>5. CommandsPlaced'
      BY <2>5, <3>4 DEF CommandsPlaced, TypeOK
    <3>6. EventTellsAll' /\ StopInOrder'
      BY <2>5 DEF EventTellsAll, QMutexFree, StopInOrder, TypeOK
    <3> QED
      BY <3>2, <3>3, <3>5, <3>6
  <2>6. CASE ~Refusing
    <3>1. prod'[p].pc = "waiting" /\ ring' = Append(ring, c) /\ done' = done /\ event' = TRUE
      BY <2>4, <2>6 DEF TypeOK
    <3>2. /\ ring' \in Seq(Cmds)
          /\ DOMAIN ring' = DOMAIN ring \cup {Len(ring) + 1}
          /\ \A i \in DOMAIN ring : i # Len(ring) + 1 /\ ring'[i] = ring[i]
          /\ ring'[Len(ring) + 1] = c
      BY <2>1, <3>1, RingGrows DEF TypeOK
    <3>3. TypeOK'
      BY <2>1, <2>4, <2>6, <3>1, <3>2 DEF TypeOK
    <3>4. SlotsOwned'
      BY <2>1, <2>4, <3>1 DEF SlotsOwned, TypeOK
    <3>5. /\ Unanswered(c)'
          /\ \A d \in Cmds \ {c} : Unanswered(d)' <=> Unanswered(d)
      BY <2>1, <2>4, <3>1 DEF Unanswered, TypeOK
    <3>6. CommandsPlaced'
      <4>1. (\A i, j \in DOMAIN ring : ring[i] = ring[j] => i = j)'
        BY <2>3, <3>2 DEF CommandsPlaced
      <4>2. (\A i \in DOMAIN ring : ring[i] \notin reading /\ Unanswered(ring[i]))'
        <5> SUFFICES ASSUME NEW i \in DOMAIN ring'
                     PROVE  ring'[i] \notin reading /\ (Unanswered(ring[i]))'
          BY <2>3, <3>1
        <5>1. CASE i = Len(ring) + 1
          BY <2>3, <3>2, <3>5, <5>1 DEF Unanswered
        <5>2. CASE i # Len(ring) + 1
          <6>1. i \in DOMAIN ring /\ ring'[i] = ring[i]
            BY <3>2, <5>2
          <6>2. ring[i] \notin reading /\ Unanswered(ring[i]) /\ ring[i] \in Cmds \ {c}
            BY <2>3, <6>1 DEF CommandsPlaced, TypeOK
          <6> QED
            BY <3>5, <6>1, <6>2 DEF Unanswered
        <5> QED
          BY <5>1, <5>2
      <4>3. (\A d \in reading : Unanswered(d))'
        BY <2>3, <3>5 DEF CommandsPlaced, TypeOK
      <4>4. (\A d \in Cmds : Unanswered(d) => d \in reading \/ \E i \in DOMAIN ring : ring[i] = d)'
        BY <3>2, <3>5 DEF CommandsPlaced
      <4> QED
        BY <4>1, <4>2, <4>3, <4>4 DEF CommandsPlaced
    <3>7. EventTellsAll' /\ StopInOrder'
      BY <2>6, <3>1 DEF Refusing, EventTellsAll, QMutexFree, StopInOrder
    <3> QED
      BY <3>3, <3>4, <3>6, <3>7
  <2> QED
    BY <2>5, <2>6
<1>6. CASE Wake(p)
  <2> USE <1>6 DEF Wake, At
  <2>1. /\ prod' = [prod EXCEPT ![p].pc = "returned"] /\ UNCHANGED <<free, ring, done, reading>>
        /\ prod[p].pc = "waiting" /\ done[prod[p].cmd]
    OBVIOUS
  <2>2. /\ prod' \in [Producers -> [pc : {"idle", "alloc", "waitFree", "filled", "waiting", "returned"},
                                   cmd : Cmds \cup {NoCmd}]]
        /\ SlotsOwned' /\ CommandsPlaced'
    BY <2>1, ProducerMoves DEF At
  <2>3. TypeOK'
    BY <2>2 DEF TypeOK
  <2>4. EventTellsAll' /\ StopInOrder'
    BY DEF EventTellsAll, QMutexFree, StopInOrder
  <2> QED
    BY <2>2, <2>3, <2>4
<1>7. CASE Free(p)
  <2> USE <1>7 DEF Free, At
  <2> DEFINE c == prod[p].cmd
  <2>1. c \in Cmds /\ \A q \in Producers : prod[q].cmd = c => q = p
    BY DEF SlotsOwned, TypeOK
  <2>2. /\ prod'[p] = [pc |-> "idle", cmd |-> NoCmd]
        /\ \A q \in Producers \ {p} : prod'[q] = prod[q]
        /\ free' = free \cup {c} /\ asleep' \subseteq asleep
    BY DEF TypeOK, NotifyOne
  <2>3. TypeOK'
    BY <2>1, <2>2 DEF TypeOK
  <2>4. SlotsOwned'
    BY <2>1, <2>2 DEF SlotsOwned, TypeOK
  <2>5. \A d \in Cmds : Unanswered(d)' <=> Unanswered(d)
    BY <2>2 DEF Unanswered
  <2>6. CommandsPlaced'
    BY <2>5 DEF CommandsPlaced, TypeOK
  <2>7. EventTellsAll' /\ StopInOrder'
    BY <2>2 DEF EventTellsAll, QMutexFree, StopInOrder
  <2> QED
    BY <2>3, <2>4, <2>6, <2>7
<1> QED
  BY <1>1, <1>2, <1>3, <1>4, <1>5, <1>6, <1>7 DEF Producer

(* The predictor, the device and the thread that stops preserve it.         *)
LEMMA EnvironmentStep ==
  ASSUME QueueInv,
         PublishIntent \/ ReadCompletes \/ CloseLatch \/ PredictorDrained \/ StopRequest
  PROVE  QueueInv'
<1> USE QueueAssumption DEF QueueInv, prodVars, workVars, wakeVars, SetCommandEvent
<1>1. CASE PublishIntent
  <2> USE <1>1 DEF PublishIntent
  <2>1. TypeOK' /\ EventTellsAll' /\ StopInOrder'
    BY DEF TypeOK, EventTellsAll, QMutexFree, StopInOrder
  <2> QED
    BY <2>1, CommandsUntouched
<1>2. CASE ReadCompletes
  <2> USE <1>2 DEF ReadCompletes
  <2>1. TypeOK' /\ EventTellsAll' /\ StopInOrder'
    BY DEF TypeOK, EventTellsAll, QMutexFree, StopInOrder
  <2> QED
    BY <2>1, CommandsUntouched
<1>3. CASE CloseLatch
  <2> USE <1>3 DEF CloseLatch
  <2>1. TypeOK' /\ EventTellsAll' /\ StopInOrder'
    BY DEF TypeOK, EventTellsAll, QMutexFree, StopInOrder
  <2> QED
    BY <2>1, CommandsUntouched
<1>4. CASE PredictorDrained
  <2> USE <1>4 DEF PredictorDrained
  <2>1. TypeOK' /\ EventTellsAll' /\ StopInOrder'
    BY DEF TypeOK, EventTellsAll, QMutexFree, StopInOrder
  <2> QED
    BY <2>1, CommandsUntouched
<1>5. CASE StopRequest
  <2> USE <1>5 DEF StopRequest
  <2>1. TypeOK' /\ EventTellsAll' /\ StopInOrder'
    BY DEF TypeOK, EventTellsAll, QMutexFree, StopInOrder
  <2> QED
    BY <2>1, CommandsUntouched
<1> QED
  BY <1>1, <1>2, <1>3, <1>4, <1>5

(* The steps of the dispatcher that look and decide but touch no command.   *)
LEMMA LookingStep ==
  ASSUME QueueInv,
         \/ Top \/ PeekEmpty \/ Defer \/ LookAtDepth \/ ResetEvent \/ Rearm
         \/ PassEnd \/ ChooseSleep \/ WakeUp \/ TimedWake
  PROVE  QueueInv'
<1> USE DEF QueueInv, prodVars, workVars, wakeVars, Goto
<1>1. CASE Top
  <2> USE <1>1 DEF Top
  <2>1. TypeOK' /\ EventTellsAll' /\ StopInOrder'
    BY DEF TypeOK, EventTellsAll, QMutexFree, StopInOrder
  <2> QED
    BY <2>1, CommandsUntouched
<1>2. CASE PeekEmpty
  <2> USE <1>2 DEF PeekEmpty
  <2>1. TypeOK' /\ EventTellsAll' /\ StopInOrder'
    BY DEF TypeOK, EventTellsAll, QMutexFree, StopInOrder
  <2> QED
    BY <2>1, CommandsUntouched
<1>3. CASE Defer
  <2> USE <1>3 DEF Defer
  <2>1. TypeOK' /\ EventTellsAll' /\ StopInOrder'
    BY DEF TypeOK, EventTellsAll, QMutexFree, StopInOrder
  <2> QED
    BY <2>1, CommandsUntouched
<1>4. CASE LookAtDepth
  <2> USE <1>4 DEF LookAtDepth
  <2>1. TypeOK' /\ EventTellsAll' /\ StopInOrder'
    BY DEF TypeOK, EventTellsAll, QMutexFree, StopInOrder
  <2> QED
    BY <2>1, CommandsUntouched
<1>5. CASE ResetEvent
  <2> USE <1>5 DEF ResetEvent
  <2>1. TypeOK' /\ EventTellsAll' /\ StopInOrder'
    BY DEF TypeOK, EventTellsAll, QMutexFree, StopInOrder
  <2> QED
    BY <2>1, CommandsUntouched
<1>6. CASE Rearm
  <2> USE <1>6 DEF Rearm
  <2>1. TypeOK' /\ EventTellsAll' /\ StopInOrder'
    BY DEF TypeOK, EventTellsAll, QMutexFree, StopInOrder
  <2> QED
    BY <2>1, CommandsUntouched
<1>7. CASE PassEnd
  <2> USE <1>7 DEF PassEnd
  <2>1. /\ disp' = [disp EXCEPT !.pc = disp'.pc]
        /\ disp'.pc \in {"exited", "top", "sleepDeferred", "chooseSleep"}
        /\ disp'.pc = "exited" => disp.stop /\ drained /\ ring = <<>> /\ reading = {}
    BY DEF TypeOK
  <2>2. intents' \in Nat /\ (intents = 0 => intents' = 0) /\ (disp.stop => intents' = 0)
    BY DEF TypeOK
  <2>3. TypeOK' /\ EventTellsAll' /\ StopInOrder'
    BY <2>1, <2>2 DEF TypeOK, EventTellsAll, QMutexFree, StopInOrder
  <2> QED
    BY <2>3, CommandsUntouched
<1>8. CASE ChooseSleep
  <2> USE <1>8 DEF ChooseSleep
  <2>1. TypeOK' /\ EventTellsAll' /\ StopInOrder'
    BY DEF TypeOK, EventTellsAll, QMutexFree, StopInOrder
  <2> QED
    BY <2>1, CommandsUntouched
<1>9. CASE WakeUp
  <2> USE <1>9 DEF WakeUp
  <2>1. TypeOK' /\ EventTellsAll' /\ StopInOrder'
    BY DEF TypeOK, EventTellsAll, QMutexFree, StopInOrder
  <2> QED
    BY <2>1, CommandsUntouched
<1>10. CASE TimedWake
  <2> USE <1>10 DEF TimedWake
  <2>1. TypeOK' /\ EventTellsAll' /\ StopInOrder'
    BY DEF TypeOK, EventTellsAll, QMutexFree, StopInOrder
  <2> QED
    BY <2>1, CommandsUntouched
<1> QED
  BY <1>1, <1>2, <1>3, <1>4, <1>5, <1>6, <1>7, <1>8, <1>9, <1>10

(* Popping a command and retiring completed reads.                          *)
LEMMA CommandStep ==
  ASSUME QueueInv, Handle \/ Service
  PROVE  QueueInv'
<1> USE DEF QueueInv, prodVars, workVars, wakeVars
<1>1. CASE Handle
  <2> USE <1>1 DEF Handle
  <2>1. PICK c \in Cmds : c = Head(ring)
    BY RingShrinks DEF TypeOK
  <2>2. /\ ring' \in Seq(Cmds) /\ 1 \in DOMAIN ring /\ ring[1] = c
        /\ \A i \in DOMAIN ring' : i + 1 \in DOMAIN ring /\ i + 1 # 1 /\ ring'[i] = ring[i + 1]
        /\ \A i \in DOMAIN ring : i # 1 => i - 1 \in DOMAIN ring' /\ ring'[i - 1] = ring[i]
        /\ \A i, j \in DOMAIN ring' : i + 1 = j + 1 => i = j
    BY <2>1, RingShrinks DEF TypeOK
  <2>3. /\ c \notin reading /\ Unanswered(c)
        /\ \A i \in DOMAIN ring : i # 1 => ring[i] # c
    BY <2>2 DEF CommandsPlaced
  <2>4. /\ \A d \in Cmds \ {c} : done'[d] = done[d] /\ (d \in reading' <=> d \in reading)
        /\ \/ done'[c] = TRUE /\ reading' = reading
           \/ done' = done /\ reading' = reading \cup {c}
        /\ done' \in [Cmds -> BOOLEAN]
    BY <2>1 DEF TypeOK
  <2>5. TypeOK'
    BY <2>2, <2>4 DEF TypeOK
  <2>6. EventTellsAll' /\ StopInOrder'
    BY DEF TypeOK, EventTellsAll, QMutexFree, StopInOrder
  <2>7. SlotsOwned'
    BY <2>3, <2>4 DEF SlotsOwned, Unanswered, At, TypeOK
  <2>8. \A d \in Cmds \ {c} : (\E p \in Producers : At(p, "waiting")' /\ prod'[p].cmd = d /\ ~done'[d])
                              <=> Unanswered(d)
    BY <2>4 DEF Unanswered, At
  <2>9. (\E p \in Producers : At(p, "waiting")' /\ prod'[p].cmd = c /\ ~done'[c]) <=> c \in reading'
    BY <2>3, <2>4 DEF Unanswered, At
  <2>10. CommandsPlaced'
    <3>1. (\A i, j \in DOMAIN ring : ring[i] = ring[j] => i = j)'
      BY <2>2 DEF CommandsPlaced
    <3>2. (\A i \in DOMAIN ring : ring[i] \notin reading /\ Unanswered(ring[i]))'
      <4> SUFFICES ASSUME NEW i \in DOMAIN ring'
                   PROVE  ring'[i] \notin reading' /\ (Unanswered(ring[i]))'
        OBVIOUS
      <4>1. ring'[i] \in Cmds \ {c} /\ ring'[i] \notin reading /\ Unanswered(ring[i + 1])
        BY <2>2, <2>3 DEF CommandsPlaced, TypeOK
      <4> QED
        BY <2>2, <2>4, <2>8, <4>1 DEF Unanswered
    <3>3. (\A d \in reading : Unanswered(d))'
      BY <2>4, <2>8, <2>9 DEF CommandsPlaced, Unanswered, TypeOK
    <3>4. (\A d \in Cmds : Unanswered(d) => d \in reading \/ \E i \in DOMAIN ring : ring[i] = d)'
      <4> SUFFICES ASSUME NEW d \in Cmds, Unanswered(d)', d \notin reading'
                   PROVE  \E i \in DOMAIN ring' : ring'[i] = d
        OBVIOUS
      <4>1. d # c /\ d \notin reading /\ Unanswered(d)
        BY <2>4, <2>8, <2>9 DEF Unanswered
      <4>2. PICK i \in DOMAIN ring : ring[i] = d
        BY <4>1 DEF CommandsPlaced
      <4> QED
        BY <2>2, <4>1, <4>2
    <3> QED
      BY <3>1, <3>2, <3>3, <3>4 DEF CommandsPlaced
  <2> QED
    BY <2>5, <2>6, <2>7, <2>10
<1>2. CASE Service
  <2> USE <1>2 DEF Service, ChannelsFreed
  <2>1. TypeOK'
    <3>1. done' \in [Cmds -> BOOLEAN] /\ intents' \in Nat
      BY DEF TypeOK
    <3>2. disp' = [pc |-> disp'.pc, pass |-> 2, stop |-> disp.stop,
                   progressed |-> disp'.progressed, deferred |-> disp.deferred]
      BY DEF TypeOK
    <3>3. disp'.pc \in {"peek", "peeked"} /\ disp'.progressed \in BOOLEAN
      BY DEF TypeOK
    <3> QED
      BY <3>1, <3>2, <3>3 DEF TypeOK
  <2>2. EventTellsAll' /\ StopInOrder'
    BY DEF TypeOK, EventTellsAll, QMutexFree, StopInOrder
  <2>3. \A c \in Cmds : done'[c] <=> (done[c] \/ c \in signaled)
    BY DEF TypeOK
  <2>4. SlotsOwned'
    BY <2>3 DEF TypeOK, SlotsOwned, CommandsPlaced, Unanswered, At
  <2>5. \A c \in Cmds : (\E p \in Producers : At(p, "waiting")' /\ prod'[p].cmd = c /\ ~done'[c])
                        <=> (Unanswered(c) /\ c \notin signaled)
    BY <2>3 DEF Unanswered, At
  <2>6. CommandsPlaced'
    <3>1. (\A i, j \in DOMAIN ring : ring[i] = ring[j] => i = j)'
      BY DEF CommandsPlaced
    <3>2. (\A i \in DOMAIN ring : ring[i] \notin reading /\ Unanswered(ring[i]))'
      <4> SUFFICES ASSUME NEW i \in DOMAIN ring
                   PROVE  ring[i] \notin reading' /\ (Unanswered(ring[i]))'
        OBVIOUS
      <4>1. ring[i] \in Cmds /\ ring[i] \notin reading /\ Unanswered(ring[i])
        BY DEF CommandsPlaced, TypeOK
      <4> QED
        BY <2>5, <4>1 DEF Unanswered, TypeOK
    <3>3. (\A d \in reading : Unanswered(d))'
      BY <2>5 DEF CommandsPlaced, Unanswered, TypeOK
    <3>4. (\A d \in Cmds : Unanswered(d) => d \in reading \/ \E i \in DOMAIN ring : ring[i] = d)'
      BY <2>5 DEF CommandsPlaced, Unanswered, TypeOK
    <3> QED
      BY <3>1, <3>2, <3>3, <3>4 DEF CommandsPlaced
  <2> QED
    BY <2>1, <2>2, <2>4, <2>6
<1> QED
  BY <1>1, <1>2

(* The invariant holds in every reachable state.                            *)
THEOREM QueueSafe == Spec => []QueueInv
<1>1. Init => QueueInv
  BY QueueInit
<1>2. QueueInv /\ [Next]_vars => QueueInv'
  <2> SUFFICES ASSUME QueueInv, [Next]_vars PROVE QueueInv'
    OBVIOUS
  <2>1. CASE \E p \in Producers : PassLatch(p) \/ Producer(p)
    BY <2>1, ProducerStep
  <2>2. CASE PublishIntent \/ ReadCompletes \/ CloseLatch \/ PredictorDrained \/ StopRequest
    BY <2>2, EnvironmentStep
  <2>3. CASE DispatcherThread
    BY <2>3, LookingStep, CommandStep DEF DispatcherThread
  <2>4. CASE UNCHANGED vars
    <3> USE <2>4 DEF vars, prodVars, workVars, wakeVars, QueueInv
    <3>1. TypeOK' /\ EventTellsAll' /\ StopInOrder'
      BY DEF TypeOK, EventTellsAll, QMutexFree, StopInOrder
    <3> QED
      BY <3>1, CommandsUntouched
  <2> QED
    BY <2>1, <2>2, <2>3, <2>4 DEF Next
<1> QED
  BY <1>1, <1>2, PTL DEF Spec

(* Every variable keeps its type, for any number of threads and commands.   *)
THEOREM QueueTypes == Spec => []TypeOK
<1>1. QueueInv => TypeOK
  BY DEF QueueInv
<1> QED
  BY <1>1, QueueSafe, PTL

(* disp_peek and dispatcher_main: the dispatcher never sleeps without a     *)
(* timeout on an event that is down while a command, an intent or the stop  *)
(* is there to be seen.                                                     *)
THEOREM NoLostWakeUp == Spec => []SleepIsJustified
<1>1. QueueInv => SleepIsJustified
  BY DEF QueueInv, EventTellsAll, SleepIsJustified
<1> QED
  BY <1>1, QueueSafe, PTL

(* cq_submit_and_wait and cq_free: a command slot has one owner or is free, *)
(* and a submitted command is in exactly one place until it is answered.    *)
THEOREM CommandsNeverLost == Spec => []CommandsExact
<1>1. QueueInv => CommandsExact
  <2> SUFFICES ASSUME QueueInv, NEW c \in Cmds
               PROVE  /\ Cardinality(Holders(c)) = IF c \in free THEN 0 ELSE 1
                      /\ \A p \in Holders(c) :
                           Cardinality(InRing(c)) + (IF c \in reading THEN 1 ELSE 0)
                             = IF At(p, "waiting") /\ ~done[c] THEN 1 ELSE 0
                      /\ c \in free => InRing(c) = {} /\ c \notin reading
    BY DEF CommandsExact
  <2> USE DEF QueueInv
  <2>1. /\ c \in free => Holders(c) = {}
        /\ c \notin free => \E p \in Producers : Holders(c) = {p}
    <3>1. c \in free => Holders(c) = {}
      BY DEF Holders, SlotsOwned
    <3>2. ASSUME NEW p \in Producers, prod[p].cmd = c
          PROVE  Holders(c) = {p}
      BY <3>2, QueueAssumption DEF Holders, SlotsOwned
    <3> QED
      BY <3>1, <3>2 DEF SlotsOwned
  <2>2. Cardinality(Holders(c)) = IF c \in free THEN 0 ELSE 1
    BY <2>1, FS_EmptySet, FS_Singleton
  <2>3. c \in reading \/ ~Unanswered(c) => InRing(c) = {}
    BY DEF InRing, CommandsPlaced
  <2>4. c \notin reading /\ Unanswered(c) => \E i \in DOMAIN ring : InRing(c) = {i}
    <3> SUFFICES ASSUME c \notin reading, Unanswered(c)
                 PROVE  \E i \in DOMAIN ring : InRing(c) = {i}
      OBVIOUS
    <3>1. PICK i \in DOMAIN ring : ring[i] = c
      BY DEF CommandsPlaced
    <3>2. InRing(c) = {i}
      BY <3>1 DEF InRing, CommandsPlaced
    <3> QED
      BY <3>2
  <2>5. c \in reading => Unanswered(c)
    BY DEF CommandsPlaced
  <2>6. Cardinality(InRing(c)) + (IF c \in reading THEN 1 ELSE 0) = IF Unanswered(c) THEN 1 ELSE 0
    <3>1. CASE InRing(c) = {}
      BY <2>3, <2>4, <2>5, <3>1, FS_EmptySet
    <3>2. CASE InRing(c) # {}
      BY <2>3, <2>4, <2>5, <3>2, FS_Singleton
    <3> QED
      BY <3>1, <3>2
  <2>7. \A p \in Holders(c) : Unanswered(c) <=> At(p, "waiting") /\ ~done[c]
    BY QueueAssumption DEF Holders, Unanswered, SlotsOwned
  <2>8. c \in free => ~Unanswered(c)
    BY DEF Unanswered, SlotsOwned
  <2> QED
    BY <2>2, <2>3, <2>5, <2>6, <2>7, <2>8
<1> QED
  BY <1>1, QueueSafe, PTL

(* dispatcher_main returns only when nobody waits for it any more.          *)
THEOREM ExitLeavesNobody == Spec => []NobodyLeftWaiting
<1>1. QueueInv => NobodyLeftWaiting
  <2> SUFFICES ASSUME QueueInv, disp.pc = "exited"
               PROVE  /\ \A p \in Producers : At(p, "waiting") => done[prod[p].cmd]
                      /\ ring = <<>> /\ reading = {} /\ intents = 0 /\ asleep = {}
    BY DEF NobodyLeftWaiting
  <2> USE DEF QueueInv
  <2>1. ring = <<>> /\ reading = {} /\ intents = 0 /\ asleep = {}
    BY DEF StopInOrder
  <2>2. \A c \in Cmds : ~Unanswered(c)
    BY <2>1 DEF CommandsPlaced
  <2>3. \A p \in Producers : At(p, "waiting") => prod[p].cmd \in Cmds
    BY DEF SlotsOwned, TypeOK, At
  <2> QED
    BY <2>1, <2>2, <2>3 DEF Unanswered
<1> QED
  BY <1>1, QueueSafe, PTL
=============================================================================
