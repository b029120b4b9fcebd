---------------------------- MODULE SessionProofs ----------------------------
(***************************************************************************)
(* The session of the launcher, proved for every number of sessions, for    *)
(* every use but one: a caller that stops a session while its start         *)
(* restores and restarts a server (start.go looks at the stop only once,    *)
(* before the recovery).                                                    *)
(***************************************************************************)
EXTENDS Session, FiniteSetTheorems, TLAPS

NoStopInRecovery == \A u \in Uses : ~(u.direct /\ u.restores)

Unready    == {"none", "prepare", "spawn", "await"}
Recovering == {"recoverStop", "respawn", "reawait"}
Restoring  == {"restore", "look", "recover"} \cup Recovering
NoServer(s) == \A c \in alive : c[1] # s

(* Where the start is tells what the fields and the goroutines can be.      *)
StartKnows(s) ==
  /\ starter[s] \in Unready => ~ready[s] /\ ~stopping[s] /\ <<s, 1>> \notin unknown
  /\ starter[s] \in Recovering => ~ready[s]
  /\ starter[s] \in Restoring => use.restores /\ ~stopping[s]
  /\ starter[s] # "done" => watcher[s] = "off" /\ final[s] = "none"
  /\ s > sess => starter[s] = "none"

(* A goroutine that tears the session down has taken the right to do so:    *)
(* the start before the session is ready, everyone by `stopping'.           *)
OneTakesIt(s) ==
  /\ tear[s]["start"] # "no" => /\ starter[s] \in {"tear", "done"} /\ watcher[s] = "off"
                                /\ saving[s] = "no"
                                /\ tear[s]["stop"] = "no" /\ tear[s]["watch"] = "no"
                                /\ (ready[s] => stopping[s])
  /\ tear[s]["stop"] # "no" => tear[s]["watch"] = "no"
  /\ saving[s] # "no" => tear[s]["stop"] = "no" /\ tear[s]["watch"] = "no"
  /\ ~stopping[s] => saving[s] = "no" /\ tear[s]["stop"] = "no" /\ tear[s]["watch"] = "no"

(* What is left of the session at each point of a teardown.                 *)
WhatIsLeft(s) ==
  /\ ended[s] => \E a \in Actors : tear[s][a] = "done"
  /\ \A a \in Actors : tear[s][a] \in {"release", "end", "done"} => NoServer(s)
  /\ \A a \in Actors : tear[s][a] \in {"end", "done"} => s \notin locks
  /\ starter[s] \in {"none", "prepare"} => s \notin locks
  /\ starter[s] \in {"none", "prepare", "spawn", "respawn"} => NoServer(s)
  /\ starter[s] \notin {"none", "prepare"} /\ (\A a \in Actors : tear[s][a] \notin {"end", "done"})
       => s \in locks
  /\ \A c \in alive : c[1] = s => c = Own(s) /\ s \in locks
  /\ child[s] = mine[s]

(* The server whose slot nobody knows is the one the recovery replaces.     *)
SlotKnown(s) ==
  /\ Own(s) \in unknown /\ Own(s) \in alive => starter[s] \in {"look", "recover", "recoverStop"}
  /\ starter[s] \in {"await", "restore", "look", "recover", "recoverStop"} => mine[s] = 1
  /\ starter[s] = "reawait" => mine[s] = 2
  /\ <<s, 2>> \notin unknown

Facts(s) == StartKnows(s) /\ OneTakesIt(s) /\ WhatIsLeft(s) /\ SlotKnown(s)
SessionInv == /\ TypeOK /\ SavedSlotKnown /\ ~panicked
              /\ \A s \in Sessions : Facts(s)

(* A step of session s leaves the others alone; their servers may only die. *)
OnlyIn(s) ==
  /\ use' = use /\ sess' \in Int /\ sess' >= sess
  /\ \A t \in Sessions \ {s} :
       /\ ready'[t] = ready[t] /\ stopping'[t] = stopping[t] /\ ended'[t] = ended[t]
       /\ child'[t] = child[t] /\ mine'[t] = mine[t] /\ starter'[t] = starter[t]
       /\ final'[t] = final[t] /\ watcher'[t] = watcher[t] /\ tear'[t] = tear[t]
       /\ saving'[t] = saving[t]
       /\ t \in locks' <=> t \in locks
       /\ \A c \in alive' : c[1] = t => c \in alive
       /\ \A i \in {0, 1, 2} : <<t, i>> \in unknown' <=> <<t, i>> \in unknown

StarterAt  == {"none", "prepare", "spawn", "await", "restore", "look", "recover",
               "recoverStop", "respawn", "reawait", "warmup", "smoke", "join", "tear", "done"}
TearAt     == {"no", "kill", "close", "release", "end", "done"}

-----------------------------------------------------------------------------
(* What the move of one goroutine of a teardown does.                       *)
LEMMA TearMoves ==
  ASSUME tear \in [Sessions -> [Actors -> TearAt]], NEW s \in Sessions, NEW a \in Actors,
         NEW p \in TearAt, Tearing(s, a, p)
  PROVE  /\ tear' \in [Sessions -> [Actors -> TearAt]]
         /\ tear'[s][a] = p /\ \A b \in Actors : b # a => tear'[s][b] = tear[s][b]
         /\ \A t \in Sessions : t # s => tear'[t] = tear[t]
BY DEF Tearing

(* What the move of a start does.                                           *)
LEMMA StarterMoves ==
  ASSUME starter \in [Sessions -> StarterAt], NEW s \in Sessions, NEW p \in StarterAt, Goto(s, p)
  PROVE  /\ starter' \in [Sessions -> StarterAt] /\ starter'[s] = p
         /\ \A t \in Sessions : t # s => starter'[t] = starter[t]
BY DEF Goto

(* The sessions a step leaves alone keep what is known of them.             *)
LEMMA OthersKept ==
  ASSUME SessionInv, NEW s \in Sessions, OnlyIn(s), NEW t \in Sessions, t # s
  PROVE  Facts(t)'
<1>1. Facts(t) /\ TypeOK
  BY DEF SessionInv
<1>0. t > sess' => t > sess
  <2>1. sess \in Nat /\ t \in Nat /\ sess' \in Int /\ sess' >= sess
    BY SessionAssumption, <1>1 DEF TypeOK, OnlyIn, Sessions
  <2> QED
    BY <2>1
<1>2. /\ ready'[t] = ready[t] /\ stopping'[t] = stopping[t] /\ ended'[t] = ended[t]
      /\ child'[t] = child[t] /\ mine'[t] = mine[t] /\ starter'[t] = starter[t]
      /\ final'[t] = final[t] /\ watcher'[t] = watcher[t] /\ tear'[t] = tear[t]
      /\ saving'[t] = saving[t] /\ use' = use /\ (t > sess' => t > sess)
      /\ t \in locks' <=> t \in locks
      /\ \A c \in alive' : c[1] = t => c \in alive
      /\ \A i \in {0, 1, 2} : <<t, i>> \in unknown' <=> <<t, i>> \in unknown
  BY <1>0 DEF OnlyIn
<1>3. StartKnows(t)' /\ OneTakesIt(t)'
  BY <1>1, <1>2 DEF Facts, StartKnows, OneTakesIt
<1>4. NoServer(t) => NoServer(t)'
  BY <1>2 DEF NoServer
<1>5. WhatIsLeft(t)'
  BY <1>1, <1>2, <1>4 DEF Facts, WhatIsLeft, Own
<1>6. SlotKnown(t)'
  <2>1. Own(t)' = Own(t) /\ mine[t] \in {0, 1, 2}
    BY <1>1, <1>2 DEF Own, TypeOK
  <2>2. Own(t) \in alive' => Own(t) \in alive
    BY <1>2 DEF Own
  <2>3. Own(t) \in unknown' <=> Own(t) \in unknown
    BY <1>2, <2>1 DEF Own
  <2> QED
    BY <1>1, <1>2, <2>1, <2>2, <2>3 DEF Facts, SlotKnown
<1> QED
  BY <1>3, <1>5, <1>6 DEF Facts

(* The initial state satisfies the invariant.                               *)
LEMMA SessionInit == Init => SessionInv
<1> SUFFICES ASSUME Init PROVE SessionInv
  OBVIOUS
<1> USE SessionAssumption DEF Init
<1>1. TypeOK
  <2>1. {ready, stopping, ended, cancelled, stopped} \subseteq [Sessions -> BOOLEAN]
    OBVIOUS
  <2>2. {child, mine} \subseteq [Sessions -> 0..2] /\ sess \in 0..MaxSessions
    OBVIOUS
  <2>3. tear \in [Sessions -> [Actors -> {"no", "kill", "close", "release", "end", "done"}]]
    OBVIOUS
  <2>4. {tainted, panicked} \subseteq BOOLEAN
    OBVIOUS
  <2> QED
    BY <2>1, <2>2, <2>3, <2>4 DEF TypeOK
<1>2. SavedSlotKnown /\ ~panicked
  BY DEF SavedSlotKnown
<1>3. ASSUME NEW s \in Sessions
      PROVE  Facts(s)
  <2>1. StartKnows(s) /\ OneTakesIt(s)
    BY DEF StartKnows, OneTakesIt, Unready, Recovering, Restoring, Actors
  <2>2. WhatIsLeft(s)
    BY DEF WhatIsLeft, NoServer
  <2>3. SlotKnown(s)
    BY DEF SlotKnown
  <2> QED
    BY <2>1, <2>2, <2>3 DEF Facts
<1> QED
  BY <1>1, <1>2, <1>3 DEF SessionInv

(* A step keeps the invariant if it keeps what is known of its session.     *)
LEMMA StepKeeps ==
  ASSUME SessionInv, NEW s \in Sessions, OnlyIn(s), TypeOK', SavedSlotKnown', ~panicked',
         Facts(s)'
  PROVE  SessionInv'
<1>1. \A t \in Sessions : Facts(t)'
  BY OthersKept
<1> QED
  BY <1>1 DEF SessionInv

-----------------------------------------------------------------------------
(* The server of a session under teardown is stopped.                       *)
LEMMA KillStep ==
  ASSUME SessionInv, NEW s \in Sessions, NEW a \in Actors, Kill(s, a)
  PROVE  SessionInv'
<1> USE SessionAssumption DEF SessionInv, Kill, fields, backend, ghosts
<1>1. /\ tear' \in [Sessions -> [Actors -> TearAt]]
      /\ tear'[s][a] = "close" /\ \A b \in Actors : b # a => tear'[s][b] = tear[s][b]
      /\ \A t \in Sessions : t # s => tear'[t] = tear[t]
  BY TearMoves DEF TypeOK, TearAt
<1>2. alive' \subseteq alive
  OBVIOUS
<1>3. TypeOK'
  BY <1>1, <1>2 DEF TypeOK, TearAt
<1>4. OnlyIn(s)
  BY <1>1, <1>2 DEF OnlyIn, TypeOK
<1>5. Facts(s)
  OBVIOUS
<1>6. StartKnows(s)' /\ OneTakesIt(s)'
  BY <1>1, <1>5 DEF Facts, StartKnows, OneTakesIt, Actors
<1>7. WhatIsLeft(s)'
  <2>1. NoServer(s) => NoServer(s)'
    BY <1>2 DEF NoServer
  <2> QED
    BY <1>1, <1>2, <1>5, <2>1 DEF Facts, WhatIsLeft, Own
<1>8. SlotKnown(s)'
  BY <1>2, <1>5 DEF Facts, SlotKnown, Own
<1>9. SavedSlotKnown' /\ ~panicked'
  BY DEF SavedSlotKnown
<1> QED
  BY <1>3, <1>4, <1>6, <1>7, <1>8, <1>9, StepKeeps DEF Facts

(* Its handles are closed, and with them the job: nothing of it runs on.    *)
LEMMA CloseStep ==
  ASSUME SessionInv, NEW s \in Sessions, NEW a \in Actors, Close(s, a)
  PROVE  SessionInv'
<1> USE SessionAssumption DEF SessionInv, Close, fields, backend, ghosts
<1>1. /\ tear' \in [Sessions -> [Actors -> TearAt]]
      /\ tear'[s][a] = "release" /\ \A b \in Actors : b # a => tear'[s][b] = tear[s][b]
      /\ \A t \in Sessions : t # s => tear'[t] = tear[t]
  BY TearMoves DEF TypeOK, TearAt
<1>2. alive' \subseteq alive
  OBVIOUS
<1>3. TypeOK'
  BY <1>1, <1>2 DEF TypeOK, TearAt
<1>4. OnlyIn(s)
  BY <1>1, <1>2 DEF OnlyIn, TypeOK
<1>5. Facts(s)
  OBVIOUS
<1>6. StartKnows(s)' /\ OneTakesIt(s)'
  BY <1>1, <1>5 DEF Facts, StartKnows, OneTakesIt, Actors
<1>7. NoServer(s)'
  <2>1. \A c \in alive : c[1] = s => c = Target(s, a)
    BY <1>5 DEF Facts, WhatIsLeft, Target, Own, Of
  <2> QED
    BY <2>1 DEF NoServer
<1>8. WhatIsLeft(s)'
  BY <1>1, <1>2, <1>5, <1>7 DEF Facts, WhatIsLeft, Own
<1>9. SlotKnown(s)'
  BY <1>2, <1>5 DEF Facts, SlotKnown, Own
<1>10. SavedSlotKnown' /\ ~panicked'
  BY DEF SavedSlotKnown
<1> QED
  BY <1>3, <1>4, <1>6, <1>8, <1>9, <1>10, StepKeeps DEF Facts

(* The locks are released.                                                  *)
LEMMA ReleaseStep ==
  ASSUME SessionInv, NEW s \in Sessions, NEW a \in Actors, Release(s, a)
  PROVE  SessionInv'
<1> USE SessionAssumption DEF SessionInv, Release, fields, backend, ghosts
<1>1. /\ tear' \in [Sessions -> [Actors -> TearAt]]
      /\ tear'[s][a] = "end" /\ \A b \in Actors : b # a => tear'[s][b] = tear[s][b]
      /\ \A t \in Sessions : t # s => tear'[t] = tear[t]
  BY TearMoves DEF TypeOK, TearAt
<1>2. TypeOK'
  BY <1>1 DEF TypeOK, TearAt
<1>3. OnlyIn(s)
  BY <1>1 DEF OnlyIn, TypeOK
<1>4. Facts(s)
  OBVIOUS
<1>5. StartKnows(s)' /\ OneTakesIt(s)'
  BY <1>1, <1>4 DEF Facts, StartKnows, OneTakesIt, Actors
<1>6. NoServer(s) /\ NoServer(s)'
  BY <1>4 DEF Facts, WhatIsLeft, NoServer
<1>7. WhatIsLeft(s)'
  BY <1>1, <1>4, <1>6 DEF Facts, WhatIsLeft, NoServer, Own
<1>8. SlotKnown(s)'
  BY <1>4 DEF Facts, SlotKnown, Own
<1>9. SavedSlotKnown' /\ ~panicked'
  BY DEF SavedSlotKnown
<1> QED
  BY <1>2, <1>3, <1>5, <1>7, <1>8, <1>9, StepKeeps DEF Facts

(* The session has ended; nobody has announced it before.                   *)
LEMMA EndedStep ==
  ASSUME SessionInv, NEW s \in Sessions, NEW a \in Actors, Ended(s, a)
  PROVE  SessionInv'
<1> USE SessionAssumption DEF SessionInv, Ended, EndIt, backend
<1>1. /\ tear' \in [Sessions -> [Actors -> TearAt]]
      /\ tear'[s][a] = "done" /\ \A b \in Actors : b # a => tear'[s][b] = tear[s][b]
      /\ \A t \in Sessions : t # s => tear'[t] = tear[t]
  BY TearMoves DEF TypeOK, TearAt
<1>2. Facts(s)
  OBVIOUS
<1>3. /\ starter' \in [Sessions -> StarterAt]
      /\ starter'[s] = IF a = "start" THEN "done" ELSE starter[s]
      /\ \A t \in Sessions : t # s => starter'[t] = starter[t]
  BY StarterMoves DEF TypeOK, StarterAt
<1>4. /\ final' \in [Sessions -> {"none", "ready", "failed"}]
      /\ (a # "start" => final' = final)
      /\ \A t \in Sessions : t # s => final'[t] = final[t]
  BY DEF TypeOK
<1>5. /\ ended' \in [Sessions -> BOOLEAN] /\ ended'[s]
      /\ \A t \in Sessions : t # s => ended'[t] = ended[t]
  BY DEF TypeOK
<1>6. ~ended[s]
  <2>1. \A b \in Actors : tear[s][b] # "done"
    BY <1>2 DEF Facts, OneTakesIt, Actors
  <2> QED
    BY <1>2, <2>1 DEF Facts, WhatIsLeft
<1>7. TypeOK'
  BY <1>1, <1>3, <1>4, <1>5, <1>6 DEF TypeOK, TearAt, StarterAt
<1>8. OnlyIn(s)
  BY <1>1, <1>3, <1>4, <1>5 DEF OnlyIn, TypeOK
<1>9. a = "start" => starter[s] = "tear" \/ starter[s] = "done"
  BY <1>2 DEF Facts, OneTakesIt
<1>10. StartKnows(s)'
  BY <1>2, <1>3, <1>4, <1>9 DEF Facts, StartKnows, Unready, Recovering, Restoring
<1>11. OneTakesIt(s)'
  BY <1>1, <1>2, <1>3 DEF Facts, OneTakesIt, Actors
<1>12. WhatIsLeft(s)'
  <2>1. NoServer(s) /\ NoServer(s)' /\ s \notin locks
    BY <1>2 DEF Facts, WhatIsLeft, NoServer
  <2> QED
    BY <1>1, <1>2, <1>3, <1>5, <2>1 DEF Facts, WhatIsLeft, NoServer, Own
<1>13. SlotKnown(s)'
  BY <1>2, <1>3, <1>9 DEF Facts, SlotKnown, Own
<1>14. SavedSlotKnown' /\ ~panicked'
  BY <1>6 DEF SavedSlotKnown
<1> QED
  BY <1>7, <1>8, <1>10, <1>11, <1>12, <1>13, <1>14, StepKeeps DEF Facts

(* Every step of a teardown preserves the invariant.                        *)
LEMMA TeardownStep ==
  ASSUME SessionInv, NEW s \in Sessions, NEW a \in Actors, Teardown(s, a)
  PROVE  SessionInv'
BY KillStep, CloseStep, ReleaseStep, EndedStep DEF Teardown

-----------------------------------------------------------------------------
(* A new session begins when the last one has ended.                        *)
LEMMA StartStep ==
  ASSUME SessionInv, Start
  PROVE  SessionInv'
<1> USE SessionAssumption DEF SessionInv, Start, fields, backend, ghosts
<1>1. PICK s \in Sessions : s = sess + 1 /\ sess' = s
  BY DEF TypeOK, Sessions
<1>2. Facts(s) /\ starter[s] = "none"
  BY <1>1 DEF Facts, StartKnows, TypeOK
<1>3. /\ starter' \in [Sessions -> StarterAt] /\ starter'[s] = "prepare"
      /\ \A t \in Sessions : t # s => starter'[t] = starter[t]
  BY <1>1 DEF TypeOK, StarterAt
<1>4. TypeOK'
  BY <1>1, <1>3 DEF TypeOK, StarterAt, Sessions
<1>5. OnlyIn(s)
  BY <1>1, <1>3 DEF OnlyIn, TypeOK
<1>6. StartKnows(s)' /\ OneTakesIt(s)'
  BY <1>1, <1>2, <1>3 DEF Facts, StartKnows, OneTakesIt, Unready, Recovering, Restoring, Sessions
<1>7. NoServer(s) /\ NoServer(s)'
  BY <1>2 DEF Facts, WhatIsLeft, NoServer
<1>8. WhatIsLeft(s)'
  BY <1>2, <1>3, <1>7 DEF Facts, WhatIsLeft, Own
<1>9. SlotKnown(s)'
  BY <1>2, <1>3, <1>7 DEF Facts, SlotKnown, Own, NoServer
<1>10. SavedSlotKnown' /\ ~panicked'
  BY DEF SavedSlotKnown
<1> QED
  BY <1>4, <1>5, <1>6, <1>8, <1>9, <1>10, StepKeeps DEF Facts

(* The locks are taken, or the start ends before anything was begun.        *)
LEMMA PrepareStep ==
  ASSUME SessionInv, NEW s \in Sessions, Prepare(s)
  PROVE  SessionInv'
<1> USE SessionAssumption DEF SessionInv, Prepare, fields, backend, StartVars, At
<1>1. Facts(s) /\ NoServer(s) /\ NoServer(s)'
  BY DEF Facts, WhatIsLeft, NoServer
<1>2. CASE locks = {} /\ locks' = {s} /\ Goto(s, "spawn") /\ UNCHANGED tear
  <2>1. /\ starter' \in [Sessions -> StarterAt] /\ starter'[s] = "spawn"
        /\ \A t \in Sessions : t # s => starter'[t] = starter[t]
    BY <1>2, StarterMoves DEF TypeOK, StarterAt
  <2>2. TypeOK'
    BY <1>2, <2>1 DEF TypeOK, StarterAt
  <2>3. OnlyIn(s)
    BY <1>2, <2>1 DEF OnlyIn, TypeOK
  <2>4. StartKnows(s)' /\ OneTakesIt(s)'
    BY <1>1, <1>2, <2>1 DEF Facts, StartKnows, OneTakesIt, Unready, Recovering, Restoring
  <2>5. \A a \in Actors : tear[s][a] = "no"
    BY <1>1 DEF Facts, StartKnows, OneTakesIt, Unready, Actors
  <2>6. WhatIsLeft(s)'
    BY <1>1, <1>2, <2>1, <2>5 DEF Facts, WhatIsLeft, NoServer, Own
  <2>7. SlotKnown(s)'
    BY <1>1, <2>1 DEF Facts, SlotKnown, Own, NoServer
  <2>8. SavedSlotKnown' /\ ~panicked'
    BY DEF SavedSlotKnown
  <2> QED
    BY <2>2, <2>3, <2>4, <2>6, <2>7, <2>8, StepKeeps DEF Facts
<1>3. CASE Goto(s, "tear") /\ Tearing(s, "start", "end") /\ UNCHANGED locks
  <2>1. /\ starter' \in [Sessions -> StarterAt] /\ starter'[s] = "tear"
        /\ \A t \in Sessions : t # s => starter'[t] = starter[t]
    BY <1>3, StarterMoves DEF TypeOK, StarterAt
  <2>2. /\ tear' \in [Sessions -> [Actors -> TearAt]]
        /\ tear'[s]["start"] = "end"
        /\ \A b \in Actors : b # "start" => tear'[s][b] = tear[s][b]
        /\ \A t \in Sessions : t # s => tear'[t] = tear[t]
    BY <1>3, TearMoves DEF TypeOK, TearAt, Actors
  <2>3. TypeOK'
    BY <1>3, <2>1, <2>2 DEF TypeOK, StarterAt, TearAt
  <2>4. OnlyIn(s)
    BY <1>3, <2>1, <2>2 DEF OnlyIn, TypeOK
  <2>5. StartKnows(s)' /\ OneTakesIt(s)'
    BY <1>1, <2>1, <2>2 DEF Facts, StartKnows, OneTakesIt, Unready, Recovering, Restoring, Actors
  <2>6. WhatIsLeft(s)'
    <3>1. ~ended[s] /\ s \notin locks /\ child[s] = mine[s]
      BY <1>1 DEF Facts, WhatIsLeft, StartKnows, OneTakesIt, Unready, Actors
    <3>2. "start" \in Actors
      BY DEF Actors
    <3> QED
      BY <1>1, <1>3, <2>1, <2>2, <3>1, <3>2 DEF WhatIsLeft, NoServer
  <2>7. SlotKnown(s)'
    BY <1>1, <2>1 DEF Facts, SlotKnown, Own, NoServer
  <2>8. SavedSlotKnown' /\ ~panicked'
    BY DEF SavedSlotKnown
  <2> QED
    BY <2>3, <2>4, <2>5, <2>6, <2>7, <2>8, StepKeeps DEF Facts
<1> QED
  BY <1>2, <1>3

(* A server is spawned, the first one or that of the recovery.              *)
LEMMA SpawnedStep ==
  ASSUME SessionInv, NEW s \in Sessions, NEW i \in {1, 2}, Spawned(s, i),
         \/ starter[s] = "spawn" /\ i = 1 /\ Goto(s, "await")
         \/ starter[s] = "respawn" /\ i = 2 /\ Goto(s, "reawait"),
         UNCHANGED <<StartVars, ready, stopping, ended, locks, final, unknown, tear>>
  PROVE  SessionInv'
<1> USE SessionAssumption DEF SessionInv, Spawned, backend, StartVars
<1>1. Facts(s) /\ NoServer(s)
  BY DEF Facts, WhatIsLeft
<1>2. /\ starter' \in [Sessions -> StarterAt]
      /\ starter'[s] = IF i = 1 THEN "await" ELSE "reawait"
      /\ \A t \in Sessions : t # s => starter'[t] = starter[t]
  BY StarterMoves DEF TypeOK, StarterAt
<1>3. /\ child' \in [Sessions -> 0..2] /\ mine' \in [Sessions -> 0..2]
      /\ child'[s] = i /\ mine'[s] = i
      /\ \A t \in Sessions : t # s => child'[t] = child[t] /\ mine'[t] = mine[t]
  BY DEF TypeOK
<1>4. alive' = alive \cup {<<s, i>>} /\ <<s, i>> \in Servers
  BY DEF Servers
<1>5. TypeOK'
  BY <1>2, <1>3, <1>4 DEF TypeOK, StarterAt
<1>6. OnlyIn(s)
  <2>1. \A c \in alive' : c[1] # s => c \in alive
    BY <1>4
  <2> QED
    BY <1>2, <1>3, <2>1 DEF OnlyIn, TypeOK
<1>7. StartKnows(s)' /\ OneTakesIt(s)'
  BY <1>1, <1>2 DEF Facts, StartKnows, OneTakesIt, Unready, Recovering, Restoring
<1>8. \A a \in Actors : tear[s][a] = "no"
  BY <1>1 DEF Facts, StartKnows, OneTakesIt, Unready, Restoring, Recovering, Actors
<1>9. WhatIsLeft(s)'
  <2>1. \A c \in alive' : c[1] = s => c = <<s, i>>
    BY <1>1, <1>4 DEF NoServer
  <2>2. Own(s)' = <<s, i>> /\ s \in locks
    BY <1>1, <1>3, <1>8 DEF Own, Facts, WhatIsLeft
  <2>3. ~ended[s]
    BY <1>1, <1>8 DEF Facts, WhatIsLeft
  <2> QED
    BY <1>2, <1>3, <1>8, <2>1, <2>2, <2>3 DEF WhatIsLeft
<1>10. SlotKnown(s)'
  BY <1>1, <1>2, <1>3 DEF Facts, SlotKnown, StartKnows, Own, Unready
<1>11. SavedSlotKnown' /\ ~panicked'
  BY DEF SavedSlotKnown
<1> QED
  BY <1>5, <1>6, <1>7, <1>9, <1>10, <1>11, StepKeeps DEF Facts

(* A start that gives up before the session is ready tears it down itself.  *)
LEMMA GiveUpStep ==
  ASSUME SessionInv, NEW s \in Sessions, Goto(s, "tear"),
         starter[s] \in {"spawn", "await", "respawn", "reawait", "recoverStop"},
         NEW p \in {"kill", "release"}, starter[s] = "recoverStop" => p = "release",
         Tearing(s, "start", p),
         alive' \subseteq alive, p = "release" => \A c \in alive' : c[1] # s,
         UNCHANGED <<StartVars, fields, locks, mine, final, unknown>>
  PROVE  SessionInv'
<1> USE SessionAssumption DEF SessionInv, fields, backend, StartVars
<1>1. Facts(s)
  OBVIOUS
<1>2. /\ starter' \in [Sessions -> StarterAt] /\ starter'[s] = "tear"
      /\ \A t \in Sessions : t # s => starter'[t] = starter[t]
  BY StarterMoves DEF TypeOK, StarterAt
<1>3. /\ tear' \in [Sessions -> [Actors -> TearAt]]
      /\ tear'[s]["start"] = p
      /\ \A b \in Actors : b # "start" => tear'[s][b] = tear[s][b]
      /\ \A t \in Sessions : t # s => tear'[t] = tear[t]
  BY TearMoves DEF TypeOK, TearAt, Actors
<1>4. TypeOK'
  BY <1>2, <1>3 DEF TypeOK, StarterAt, TearAt
<1>5. OnlyIn(s)
  BY <1>2, <1>3 DEF OnlyIn, TypeOK
<1>6. ~ready[s] /\ ~stopping[s] /\ watcher[s] = "off" /\ final[s] = "none" /\ ~(s > sess)
  BY <1>1 DEF Facts, StartKnows, Unready, Restoring, Recovering
<1>7. \A a \in Actors : tear[s][a] = "no"
  BY <1>1, <1>6 DEF Facts, OneTakesIt, Actors
<1>8. StartKnows(s)' /\ OneTakesIt(s)'
  BY <1>1, <1>2, <1>3, <1>6, <1>7 DEF Facts, StartKnows, OneTakesIt, Unready, Recovering,
     Restoring, Actors
<1>9. WhatIsLeft(s)'
  <2>1. p = "release" => NoServer(s)'
    BY DEF NoServer
  <2>2. ~ended[s] /\ s \in locks
    BY <1>1, <1>7 DEF Facts, WhatIsLeft
  <2>3. \A c \in alive' : c[1] = s => c = Own(s)
    BY <1>1 DEF Facts, WhatIsLeft
  <2>4. \A a \in Actors : tear'[s][a] \in {"release", "end", "done"} => p = "release"
    BY <1>3, <1>7 DEF Actors
  <2>5. \A a \in Actors : tear'[s][a] \notin {"end", "done"}
    BY <1>3, <1>7 DEF Actors
  <2>6. Own(s)' = Own(s) /\ child'[s] = mine'[s] /\ ~ended'[s] /\ s \in locks'
    BY <1>1, <2>2 DEF Facts, WhatIsLeft, Own
  <2> QED
    BY <1>2, <2>1, <2>3, <2>4, <2>5, <2>6 DEF WhatIsLeft
<1>10. SlotKnown(s)'
  <2>1. ~(Own(s) \in unknown /\ Own(s) \in alive')
    BY <1>1 DEF Facts, SlotKnown, Own
  <2> QED
    BY <1>1, <1>2, <2>1 DEF Facts, SlotKnown, Own
<1>11. SavedSlotKnown' /\ ~panicked'
  BY DEF SavedSlotKnown
<1> QED
  BY <1>4, <1>5, <1>8, <1>9, <1>10, <1>11, StepKeeps DEF Facts

(* A start that goes on, or ends well, touches no teardown.                 *)
LEMMA StartGoesOn ==
  ASSUME SessionInv, NEW s \in Sessions,
         starter[s] \in {"await", "restore", "look", "recover", "recoverStop", "reawait",
                         "warmup", "smoke", "join"},
         NEW p \in {"restore", "look", "recover", "recoverStop", "respawn", "warmup",
                    "smoke", "join", "done"},
         Goto(s, p), alive' \subseteq alive, p = "respawn" => \A c \in alive' : c[1] # s,
         ready' \in [Sessions -> BOOLEAN], \A t \in Sessions : t # s => ready'[t] = ready[t],
         final' \in [Sessions -> {"none", "ready", "failed"}],
         \A t \in Sessions : t # s => final'[t] = final[t],
         watcher' \in [Sessions -> {"off", "look", "wait"}],
         \A t \in Sessions : t # s => watcher'[t] = watcher[t],
         unknown' \subseteq Servers, unknown' \subseteq unknown \cup {Own(s)},
         unknown \subseteq unknown',
         UNCHANGED <<use, sess, stopping, ended, child, locks, mine, tear, saving, backend,
                     tainted, panicked>>,
         StartKnows(s)', SlotKnown(s)'
  PROVE  SessionInv'
<1> USE SessionAssumption DEF SessionInv, backend
<1>1. Facts(s)
  OBVIOUS
<1>2. /\ starter' \in [Sessions -> StarterAt] /\ starter'[s] = p
      /\ \A t \in Sessions : t # s => starter'[t] = starter[t]
  BY StarterMoves DEF TypeOK, StarterAt
<1>4. TypeOK'
  BY <1>2 DEF TypeOK, StarterAt
<1>5. OnlyIn(s)
  <2>1. \A t \in Sessions \ {s}, i \in {0, 1, 2} : <<t, i>> \in unknown' <=> <<t, i>> \in unknown
    BY DEF Own
  <2> QED
    BY <1>2, <2>1 DEF OnlyIn, TypeOK
<1>6. OneTakesIt(s)'
  BY <1>1, <1>2 DEF Facts, OneTakesIt
<1>7. WhatIsLeft(s)'
  <2>1. NoServer(s) => NoServer(s)'
    BY DEF NoServer
  <2>2. p = "respawn" => NoServer(s)'
    BY DEF NoServer
  <2> QED
    BY <1>1, <1>2, <2>1, <2>2 DEF Facts, WhatIsLeft, Own
<1>8. SavedSlotKnown' /\ ~panicked'
  BY DEF SavedSlotKnown
<1> QED
  BY <1>4, <1>5, <1>6, <1>7, <1>8, StepKeeps DEF Facts

(* The server answers, or the start gives up; the same for the recovery's.  *)
LEMMA AwaitStep ==
  ASSUME SessionInv, NEW s \in Sessions, Await(s) \/ Reawait(s)
  PROVE  SessionInv'
<1> USE SessionAssumption DEF SessionInv, At, StartVars, backend
<1>1. Facts(s) /\ starter[s] \in {"await", "reawait"}
  BY DEF Await, Reawait
<1>2. CASE Goto(s, "tear") /\ Tearing(s, "start", "kill") /\ UNCHANGED ready
  <2>1. UNCHANGED <<StartVars, fields, locks, mine, final, unknown, alive>>
    BY <1>2 DEF Await, Reawait, fields
  <2> QED
    BY <1>1, <1>2, <2>1, GiveUpStep
<1>3. CASE ~(Goto(s, "tear") /\ Tearing(s, "start", "kill") /\ UNCHANGED ready)
  <2>1. PICK p \in {"restore", "warmup"} :
          /\ Goto(s, p) /\ (p = "restore" => use.restores /\ starter[s] = "await")
          /\ ready' = [ready EXCEPT ![s] = TRUE]
          /\ UNCHANGED <<StartVars, tear, stopping, ended, child, locks, alive, mine, final, unknown>>
    BY <1>3 DEF Await, Reawait
  <2>2. /\ starter'[s] = p /\ ready'[s]
        /\ ready' \in [Sessions -> BOOLEAN]
        /\ \A t \in Sessions : t # s => ready'[t] = ready[t]
    BY <2>1 DEF Goto, TypeOK
  <2>3. ~stopping[s] /\ watcher[s] = "off" /\ final[s] = "none" /\ ~(s > sess)
    BY <1>1 DEF Facts, StartKnows, Unready, Restoring, Recovering
  <2>4. StartKnows(s)'
    BY <2>1, <2>2, <2>3 DEF StartKnows, Unready, Restoring, Recovering
  <2>5. Own(s) \notin unknown
    BY <1>1, <2>1 DEF Facts, StartKnows, SlotKnown, Own, Unready, TypeOK
  <2>6. SlotKnown(s)'
    BY <1>1, <2>1, <2>2, <2>5 DEF Facts, SlotKnown, Own
  <2>7. /\ final' \in [Sessions -> {"none", "ready", "failed"}]
        /\ watcher' \in [Sessions -> {"off", "look", "wait"}]
        /\ unknown' \subseteq Servers /\ unknown' = unknown /\ alive' = alive
        /\ UNCHANGED <<final, watcher>>
    BY <2>1 DEF TypeOK
  <2> QED
    BY <1>1, <2>1, <2>2, <2>4, <2>6, <2>7, StartGoesOn
<1> QED
  BY <1>2, <1>3

(* The restore, its ladder, and the look at a stop.                         *)
LEMMA RestoreStep ==
  ASSUME SessionInv, NEW s \in Sessions, Restored(s) \/ Look(s) \/ Recover(s)
  PROVE  SessionInv'
<1> USE SessionAssumption DEF SessionInv, At, StartVars, backend, fields
<1>1. Facts(s) /\ starter[s] \in {"restore", "look", "recover"} /\ ~stopping[s]
  BY DEF Restored, Look, Recover, Facts, StartKnows, Restoring
<1>2. watcher[s] = "off" /\ final[s] = "none" /\ ~(s > sess) /\ use.restores
      /\ mine[s] = 1 /\ Own(s) = <<s, 1>> /\ Own(s) \in Servers
  BY <1>1 DEF Facts, StartKnows, SlotKnown, Own, Servers, Restoring
<1>3. CASE Restored(s)
  <2>1. PICK p \in {"warmup", "look"} :
          /\ Goto(s, p) /\ (p = "warmup" => Own(s) \in alive /\ UNCHANGED unknown)
          /\ (p = "look" => unknown' = unknown \cup {Own(s)})
          /\ UNCHANGED <<StartVars, fields, locks, alive, mine, final, tear>>
    BY <1>3 DEF Restored
  <2>2. starter'[s] = p /\ starter[s] = "restore"
    BY <1>3, <2>1 DEF Goto, TypeOK, Restored
  <2>3. StartKnows(s)'
    BY <1>1, <1>2, <2>1, <2>2 DEF StartKnows, Unready, Restoring, Recovering
  <2>4. SlotKnown(s)'
    BY <1>1, <1>2, <2>1, <2>2 DEF Facts, SlotKnown, Own
  <2>5. unknown' \subseteq Servers /\ unknown' \subseteq unknown \cup {Own(s)}
        /\ unknown \subseteq unknown'
    BY <1>2, <2>1 DEF TypeOK
  <2> QED
    BY <1>1, <2>1, <2>3, <2>4, <2>5, StartGoesOn DEF TypeOK
<1>4. CASE Look(s)
  <2>1. Goto(s, "recover") /\ UNCHANGED <<StartVars, fields, locks, alive, mine, final, tear, unknown>>
    BY <1>1, <1>4 DEF Look
  <2>2. starter'[s] = "recover" /\ starter[s] = "look"
    BY <1>4, <2>1 DEF Goto, TypeOK, Look
  <2>3. StartKnows(s)'
    BY <1>1, <1>2, <2>1, <2>2 DEF StartKnows, Unready, Restoring, Recovering
  <2>4. SlotKnown(s)'
    BY <1>1, <1>2, <2>1, <2>2 DEF Facts, SlotKnown, Own
  <2> QED
    BY <1>1, <2>1, <2>3, <2>4, StartGoesOn DEF TypeOK
<1>5. CASE Recover(s)
  <2>1. /\ Goto(s, "recoverStop") /\ ready' = [ready EXCEPT ![s] = FALSE]
        /\ UNCHANGED <<StartVars, stopping, ended, child, locks, alive, mine, final, tear, unknown>>
    BY <1>5 DEF Recover
  <2>2. /\ starter'[s] = "recoverStop" /\ starter[s] = "recover" /\ ~ready'[s]
        /\ ready' \in [Sessions -> BOOLEAN] /\ \A t \in Sessions : t # s => ready'[t] = ready[t]
    BY <1>5, <2>1 DEF Goto, TypeOK, Recover
  <2>3. StartKnows(s)'
    BY <1>1, <1>2, <2>1, <2>2 DEF StartKnows, Unready, Restoring, Recovering
  <2>4. SlotKnown(s)'
    BY <1>1, <1>2, <2>1, <2>2 DEF Facts, SlotKnown, Own
  <2> QED
    BY <1>1, <2>1, <2>2, <2>3, <2>4, StartGoesOn DEF TypeOK
<1> QED
  BY <1>3, <1>4, <1>5

(* The recovery stops the server and has another one spawned.               *)
LEMMA RecoverStopStep ==
  ASSUME SessionInv, NEW s \in Sessions, RecoverStop(s)
  PROVE  SessionInv'
<1> USE SessionAssumption DEF SessionInv, At, StartVars, backend, fields, RecoverStop
<1>1. Facts(s) /\ ~ready[s] /\ ~stopping[s] /\ use.restores /\ watcher[s] = "off"
      /\ final[s] = "none" /\ ~(s > sess)
  BY DEF Facts, StartKnows, Restoring, Recovering
<1>2. \A c \in alive' : c[1] # s
  BY <1>1 DEF Facts, WhatIsLeft
<1>3. CASE Goto(s, "respawn") /\ UNCHANGED tear
  <2>1. starter'[s] = "respawn"
    BY <1>3 DEF Goto, TypeOK
  <2>2. StartKnows(s)'
    BY <1>1, <2>1 DEF StartKnows, Unready, Restoring, Recovering
  <2>3. SlotKnown(s)'
    BY <1>1, <1>2, <2>1 DEF Facts, SlotKnown, Own
  <2> QED
    BY <1>2, <1>3, <2>2, <2>3, StartGoesOn DEF TypeOK
<1>4. CASE Goto(s, "tear") /\ Tearing(s, "start", "release")
  BY <1>2, <1>4, GiveUpStep
<1> QED
  BY <1>3, <1>4

(* A server is spawned, or cannot be.                                       *)
LEMMA SpawnStep ==
  ASSUME SessionInv, NEW s \in Sessions, Spawn(s) \/ Respawn(s)
  PROVE  SessionInv'
<1>1. starter[s] \in {"spawn", "respawn"} /\ \A c \in alive : c[1] # s
  BY DEF SessionInv, Facts, WhatIsLeft, NoServer, Spawn, Respawn, At
<1>2. CASE Goto(s, "tear") /\ Tearing(s, "start", "release") /\ UNCHANGED <<alive, child, mine>>
  <2>1. UNCHANGED <<StartVars, fields, locks, mine, final, unknown>>
    BY <1>2 DEF Spawn, Respawn, fields
  <2> QED
    BY <1>1, <1>2, <2>1, GiveUpStep
<1>3. CASE Spawned(s, 1) /\ Goto(s, "await") /\ UNCHANGED tear /\ Spawn(s)
  BY <1>3, SpawnedStep DEF Spawn, At
<1>4. CASE Spawned(s, 2) /\ Goto(s, "reawait") /\ UNCHANGED tear /\ Respawn(s)
  BY <1>4, SpawnedStep DEF Respawn, At
<1> QED
  BY <1>2, <1>3, <1>4 DEF Spawn, Respawn

(* The warmup, and a start that reports what another goroutine ended.       *)
LEMMA WarmupStep ==
  ASSUME SessionInv, NEW s \in Sessions, Warmup(s) \/ Join(s)
  PROVE  SessionInv'
<1> USE SessionAssumption DEF SessionInv, At, backend, fields, ghosts
<1>1. Facts(s) /\ starter[s] \in {"warmup", "join"} /\ ~(s > sess)
  BY DEF Warmup, Join, Facts, StartKnows
<1>2. watcher[s] = "off" /\ final[s] = "none"
  BY <1>1 DEF Facts, StartKnows
<1>3. PICK p \in {"join", "smoke", "done"} :
        /\ Goto(s, p)
        /\ p # "done" => UNCHANGED <<final, watcher>>
        /\ UNCHANGED <<use, sess, fields, locks, alive, mine, tear, saving, backend, ghosts>>
  BY DEF Warmup, Join, Serves
<1>4. /\ final' \in [Sessions -> {"none", "ready", "failed"}]
      /\ \A t \in Sessions : t # s => final'[t] = final[t]
      /\ watcher' \in [Sessions -> {"off", "look", "wait"}]
      /\ \A t \in Sessions : t # s => watcher'[t] = watcher[t]
  <2>1. \E f \in {"none", "ready", "failed"} : final' = final \/ final' = [final EXCEPT ![s] = f]
    BY DEF Warmup, Join, Serves
  <2>2. watcher' = watcher \/ watcher' = [watcher EXCEPT ![s] = "look"]
    BY DEF Warmup, Join, Serves
  <2>3. /\ final \in [Sessions -> {"none", "ready", "failed"}]
        /\ watcher \in [Sessions -> {"off", "look", "wait"}]
    BY DEF TypeOK
  <2>4. /\ final' \in [Sessions -> {"none", "ready", "failed"}]
        /\ \A t \in Sessions : t # s => final'[t] = final[t]
    BY ONLY <2>1, <2>3, s \in Sessions
  <2>5. /\ watcher' \in [Sessions -> {"off", "look", "wait"}]
        /\ \A t \in Sessions : t # s => watcher'[t] = watcher[t]
    BY ONLY <2>2, <2>3, s \in Sessions
  <2> QED
    BY <2>4, <2>5
<1>5. starter'[s] = p
  BY <1>3 DEF Goto, TypeOK
<1>6. StartKnows(s)'
  BY <1>1, <1>2, <1>3, <1>5 DEF StartKnows, Unready, Restoring, Recovering
<1>7. SlotKnown(s)'
  BY <1>1, <1>3, <1>5 DEF Facts, SlotKnown, Own
<1> QED
  BY ZenonT(40), <1>1, <1>3, <1>4, <1>6, <1>7, StartGoesOn DEF TypeOK

(* The check run: the start goes on, or ends the session if nobody else is. *)
LEMMA SmokeStep ==
  ASSUME SessionInv, NEW s \in Sessions, Smoke(s)
  PROVE  SessionInv'
<1> USE SessionAssumption DEF SessionInv, At, backend, fields, ghosts, Smoke
<1>1. Facts(s) /\ starter[s] = "smoke" /\ ~(s > sess) /\ watcher[s] = "off" /\ final[s] = "none"
  BY DEF Facts, StartKnows
<1>2. CASE ~(~stopping[s] /\ Goto(s, "tear") /\ Tearing(s, "start", "kill")
              /\ stopping' = [stopping EXCEPT ![s] = TRUE])
  <2>1. PICK p \in {"join", "done"} :
          /\ Goto(s, p)
          /\ p # "done" => UNCHANGED <<final, watcher>>
          /\ UNCHANGED <<use, sess, fields, locks, alive, mine, tear, saving, backend, ghosts>>
    BY <1>2 DEF Serves
  <2>2. /\ final' \in [Sessions -> {"none", "ready", "failed"}]
        /\ \A t \in Sessions : t # s => final'[t] = final[t]
        /\ watcher' \in [Sessions -> {"off", "look", "wait"}]
        /\ \A t \in Sessions : t # s => watcher'[t] = watcher[t]
    <3>1. final' = final \/ final' = [final EXCEPT ![s] = "ready"]
      BY <1>2 DEF Serves
    <3>2. watcher' = watcher \/ watcher' = [watcher EXCEPT ![s] = "look"]
      BY <1>2 DEF Serves
    <3>3. /\ final \in [Sessions -> {"none", "ready", "failed"}]
          /\ watcher \in [Sessions -> {"off", "look", "wait"}]
      BY DEF TypeOK
    <3>4. /\ final' \in [Sessions -> {"none", "ready", "failed"}]
          /\ \A t \in Sessions : t # s => final'[t] = final[t]
      BY ONLY <3>1, <3>3, s \in Sessions
    <3>5. /\ watcher' \in [Sessions -> {"off", "look", "wait"}]
          /\ \A t \in Sessions : t # s => watcher'[t] = watcher[t]
      BY ONLY <3>2, <3>3, s \in Sessions
    <3> QED
      BY <3>4, <3>5
  <2>3. starter'[s] = p
    BY <2>1 DEF Goto, TypeOK
  <2>4. StartKnows(s)'
    BY <1>1, <2>1, <2>3 DEF StartKnows, Unready, Restoring, Recovering
  <2>5. SlotKnown(s)'
    BY <1>1, <2>1, <2>3 DEF Facts, SlotKnown, Own
  <2> QED
    BY ZenonT(40), <1>1, <2>1, <2>2, <2>4, <2>5, StartGoesOn DEF TypeOK
<1>3. CASE ~stopping[s] /\ Goto(s, "tear") /\ Tearing(s, "start", "kill")
           /\ stopping' = [stopping EXCEPT ![s] = TRUE]
  <2>1. UNCHANGED <<use, sess, ready, ended, child, locks, alive, mine, saving, cancelled,
                    reports, stopped, unknown, tainted, panicked, final, watcher>>
    BY <1>3 DEF Serves, Goto, TypeOK
  <2>2. /\ starter' \in [Sessions -> StarterAt] /\ starter'[s] = "tear"
        /\ \A t \in Sessions : t # s => starter'[t] = starter[t]
    BY <1>3, StarterMoves DEF TypeOK, StarterAt
  <2>3. /\ tear' \in [Sessions -> [Actors -> TearAt]]
        /\ tear'[s]["start"] = "kill"
        /\ \A b \in Actors : b # "start" => tear'[s][b] = tear[s][b]
        /\ \A t \in Sessions : t # s => tear'[t] = tear[t]
    BY <1>3, TearMoves DEF TypeOK, TearAt, Actors
  <2>4. /\ stopping' \in [Sessions -> BOOLEAN] /\ stopping'[s]
        /\ \A t \in Sessions : t # s => stopping'[t] = stopping[t]
    BY <1>3 DEF TypeOK
  <2>5. TypeOK'
    BY <2>1, <2>2, <2>3, <2>4 DEF TypeOK, StarterAt, TearAt
  <2>6. OnlyIn(s)
    BY <2>1, <2>2, <2>3, <2>4 DEF OnlyIn, TypeOK
  <2>7. (\A a \in Actors : tear[s][a] = "no") /\ saving[s] = "no"
    BY <1>1, <1>3 DEF Facts, OneTakesIt, Actors
  <2>8. StartKnows(s)' /\ OneTakesIt(s)'
    BY <1>1, <2>1, <2>2, <2>3, <2>4, <2>7 DEF Facts, StartKnows, OneTakesIt, Unready, Recovering,
       Restoring, Actors
  <2>9. WhatIsLeft(s)'
    <3>1. ~ended[s] /\ s \in locks
      BY <1>1, <2>7 DEF Facts, WhatIsLeft
    <3>2. \A a \in Actors : tear'[s][a] \notin {"release", "end", "done"}
      BY <2>3, <2>7 DEF Actors
    <3> QED
      BY <1>1, <2>1, <2>2, <3>1, <3>2 DEF Facts, WhatIsLeft, Own
  <2>10. SlotKnown(s)'
    BY <1>1, <2>1, <2>2 DEF Facts, SlotKnown, Own
  <2>11. SavedSlotKnown' /\ ~panicked'
    BY <2>1 DEF SavedSlotKnown
  <2> QED
    BY <2>5, <2>6, <2>8, <2>9, <2>10, <2>11, StepKeeps DEF Facts
<1> QED
  BY <1>2, <1>3

(* Every step of a start preserves the invariant.                           *)
LEMMA StartingStep ==
  ASSUME SessionInv, NEW s \in Sessions, Starting(s)
  PROVE  SessionInv'
BY PrepareStep, SpawnStep, AwaitStep, RestoreStep, RecoverStopStep, WarmupStep, SmokeStep
   DEF Starting

-----------------------------------------------------------------------------
(* The watch ends a session that nobody else ends, its start long over.     *)
LEMMA WatchStep ==
  ASSUME SessionInv, NEW s \in Sessions, Watching(s)
  PROVE  SessionInv'
<1> USE SessionAssumption DEF SessionInv, backend, fields, ghosts
<1>1. Facts(s) /\ starter[s] = "done" /\ ~(s > sess) /\ watcher[s] # "off"
  BY DEF Facts, StartKnows, Watching, WatchLook, Watch
<1>2. /\ watcher' \in [Sessions -> {"off", "look", "wait"}]
      /\ \A t \in Sessions : t # s => watcher'[t] = watcher[t]
      /\ UNCHANGED <<use, sess, ready, ended, child, locks, alive, starter, mine, final,
                     saving, cancelled, reports, stopped, unknown, tainted, panicked>>
  BY ZenonT(40) DEF TypeOK, Watching, WatchLook, Watch
<1>3. SlotKnown(s)' /\ SavedSlotKnown' /\ ~panicked'
  BY <1>1, <1>2 DEF Facts, SlotKnown, Own, SavedSlotKnown
<1>4. CASE UNCHANGED <<stopping, tear>>
  <2>1. TypeOK'
    BY <1>2, <1>4 DEF TypeOK
  <2>2. OnlyIn(s)
    BY <1>2, <1>4 DEF OnlyIn, TypeOK
  <2>3. StartKnows(s)' /\ OneTakesIt(s)' /\ WhatIsLeft(s)'
    BY <1>1, <1>2, <1>4 DEF Facts, StartKnows, OneTakesIt, WhatIsLeft, NoServer, Own,
       Unready, Restoring, Recovering
  <2> QED
    BY <1>3, <2>1, <2>2, <2>3, StepKeeps DEF Facts
<1>5. CASE ~UNCHANGED <<stopping, tear>>
  <2>1. ~stopping[s] /\ ~ended[s] /\ stopping' = [stopping EXCEPT ![s] = TRUE]
        /\ Tearing(s, "watch", "kill")
    BY <1>5 DEF Watching, WatchLook, Watch
  <2>2. /\ tear' \in [Sessions -> [Actors -> TearAt]]
        /\ tear'[s]["watch"] = "kill"
        /\ \A b \in Actors : b # "watch" => tear'[s][b] = tear[s][b]
        /\ \A t \in Sessions : t # s => tear'[t] = tear[t]
    BY <2>1, TearMoves DEF TypeOK, TearAt, Actors
  <2>3. /\ stopping' \in [Sessions -> BOOLEAN] /\ stopping'[s]
        /\ \A t \in Sessions : t # s => stopping'[t] = stopping[t]
    BY <2>1 DEF TypeOK
  <2>4. TypeOK'
    BY <1>2, <2>2, <2>3 DEF TypeOK, TearAt
  <2>5. OnlyIn(s)
    BY <1>2, <2>2, <2>3 DEF OnlyIn, TypeOK
  <2>6. (\A a \in Actors : tear[s][a] = "no") /\ saving[s] = "no"
    BY <1>1, <2>1 DEF Facts, OneTakesIt, Actors
  <2>7. StartKnows(s)' /\ OneTakesIt(s)'
    BY <1>1, <1>2, <2>2, <2>3, <2>6 DEF Facts, StartKnows, OneTakesIt, Unready, Recovering,
       Restoring, Actors
  <2>8. WhatIsLeft(s)'
    <3>1. s \in locks
      BY <1>1, <2>6 DEF Facts, WhatIsLeft
    <3>2. \A a \in Actors : tear'[s][a] \notin {"release", "end", "done"}
      BY <2>2, <2>6 DEF Actors
    <3> QED
      BY <1>1, <1>2, <2>1, <3>1, <3>2 DEF Facts, WhatIsLeft, Own
  <2> QED
    BY <1>3, <2>4, <2>5, <2>7, <2>8, StepKeeps DEF Facts
<1> QED
  BY <1>4, <1>5

(* A stop that is accepted takes the session, when no restore is under way. *)
LEMMA AskedStep ==
  ASSUME SessionInv, NEW s \in Sessions, NEW save \in BOOLEAN,
         Accepts(s), AskedToStop(s, save), starter[s] \notin Restoring,
         reports' \in [Sessions -> {"no", "cancel", "stop"}],
         UNCHANGED <<use, sess, ready, ended, child, locks, alive, starter, mine, final, watcher,
                     cancelled, stopped, ghosts>>
  PROVE  SessionInv'
<1> USE SessionAssumption DEF SessionInv, ghosts, Accepts, AskedToStop
<1>1. Facts(s) /\ starter[s] \notin Unready
  BY DEF Facts, StartKnows
<1>2. (\A a \in Actors : tear[s][a] = "no") /\ saving[s] = "no"
  BY <1>1 DEF Facts, OneTakesIt, Actors
<1>3. /\ stopping' \in [Sessions -> BOOLEAN] /\ stopping'[s]
      /\ \A t \in Sessions : t # s => stopping'[t] = stopping[t]
  BY DEF TypeOK
<1>4. /\ saving' \in [Sessions -> {"no", "ask", "save"}]
      /\ saving'[s] = IF save THEN "ask" ELSE "no"
      /\ \A t \in Sessions : t # s => saving'[t] = saving[t]
  BY DEF TypeOK
<1>5. /\ tear' \in [Sessions -> [Actors -> TearAt]]
      /\ tear'[s]["start"] = "no" /\ tear'[s]["watch"] = "no"
      /\ tear'[s]["stop"] = IF save THEN "no" ELSE "kill"
      /\ \A t \in Sessions : t # s => tear'[t] = tear[t]
  BY <1>2 DEF TypeOK, TearAt, Actors
<1>6. TypeOK'
  BY <1>3, <1>4, <1>5 DEF TypeOK, TearAt
<1>7. OnlyIn(s)
  BY <1>3, <1>4, <1>5 DEF OnlyIn, TypeOK
<1>8. StartKnows(s)' /\ OneTakesIt(s)'
  BY <1>1, <1>3, <1>4, <1>5 DEF Facts, StartKnows, OneTakesIt, Recovering, Restoring, Actors
<1>9. WhatIsLeft(s)'
  <2>1. \A a \in Actors : tear'[s][a] \notin {"release", "end", "done"}
    BY <1>5 DEF Actors
  <2>2. s \in locks
    BY <1>1, <1>2 DEF Facts, WhatIsLeft, Unready
  <2> QED
    BY <1>1, <2>1, <2>2 DEF Facts, WhatIsLeft, Own, NoServer
<1>10. SlotKnown(s)' /\ SavedSlotKnown' /\ ~panicked'
  BY <1>1 DEF Facts, SlotKnown, Own, SavedSlotKnown
<1> QED
  BY <1>6, <1>7, <1>8, <1>9, <1>10, StepKeeps DEF Facts

(* Both clients ask when no restore is under way: the backend after the     *)
(* final event, another caller because its session restores nothing.        *)
LEMMA AskedKeeps ==
  ASSUME NoStopInRecovery, SessionInv, Asked
  PROVE  SessionInv'
<1> USE SessionAssumption DEF SessionInv, backend, fields, ghosts
<1>1. sess \in 0..MaxSessions
  BY DEF TypeOK
<1>2. sess # 0 => sess \in Sessions
  BY <1>1 DEF Sessions
<1>3. ASSUME NEW save \in BOOLEAN, DirectStop(save)
      PROVE  SessionInv'
  <2>1. sess \in Sessions /\ use.direct /\ use \in Uses
    BY <1>2, <1>3 DEF DirectStop, TypeOK
  <2>2. ~use.restores
    BY <2>1 DEF NoStopInRecovery
  <2>3. starter[sess] \notin Restoring
    BY <2>1, <2>2 DEF Facts, StartKnows
  <2>4. reports' \in [Sessions -> {"no", "cancel", "stop"}]
    BY <1>3 DEF DirectStop, TypeOK
  <2> QED
    BY <1>3, <2>1, <2>3, <2>4, AskedStep DEF DirectStop
<1>4. ASSUME NEW mode \in {"cancel", "unload", "force"}, BackendStop(mode)
      PROVE  SessionInv'
  <2>1. sess \in Sessions /\ final[sess] # "none"
    BY <1>2, <1>4 DEF BackendStop, Cancels
  <2>2. starter[sess] \notin Restoring
    BY <2>1 DEF Facts, StartKnows, Restoring, Recovering
  <2>3. reports' \in [Sessions -> {"no", "cancel", "stop"}]
    BY <1>4 DEF BackendStop, TypeOK
  <2>4. (mode # "force") \in BOOLEAN
    OBVIOUS
  <2> QED
    BY <1>4, <2>1, <2>2, <2>3, <2>4, AskedStep DEF BackendStop
<1>5. ASSUME NEW mode \in {"cancel", "unload", "force"}, Cancel(mode)
      PROVE  SessionInv'
  <2>1. sess \in Sessions
    BY <1>2, <1>5 DEF Cancel
  <2>2. TypeOK'
    BY <1>5, <2>1 DEF Cancel, TypeOK
  <2>3. ASSUME NEW s \in Sessions
        PROVE  Facts(s)'
    <3>1. UNCHANGED <<use, sess, ready, stopping, ended, child, locks, alive, starter, mine,
                      final, watcher, tear, saving, unknown>>
      BY <1>5 DEF Cancel
    <3>2. Facts(s)
      OBVIOUS
    <3>3. StartKnows(s)' /\ OneTakesIt(s)' /\ SlotKnown(s)'
      BY ONLY <3>1, <3>2 DEF Facts, StartKnows, OneTakesIt, SlotKnown, Own, Unready,
         Restoring, Recovering
    <3>4. WhatIsLeft(s)'
      BY ONLY <3>1, <3>2 DEF Facts, WhatIsLeft, NoServer, Own
    <3> QED
      BY <3>3, <3>4 DEF Facts
  <2>4. SavedSlotKnown' /\ ~panicked'
    BY <1>5 DEF Cancel, SavedSlotKnown
  <2> QED
    BY <2>2, <2>3, <2>4
<1> QED
  BY <1>3, <1>4, <1>5 DEF Asked

(* The stop saves first, what it saves is known, and then it tears down.    *)
LEMMA StoppingStep ==
  ASSUME SessionInv, NEW s \in Sessions, Stopping(s)
  PROVE  SessionInv'
<1> USE SessionAssumption DEF SessionInv, backend, fields, ghosts
<1>1. Facts(s) /\ saving[s] # "no"
  BY DEF Stopping, StopAsks, StopSaves
<1>2. stopping[s] /\ \A a \in Actors : tear[s][a] = "no"
  BY <1>1 DEF Facts, OneTakesIt, Actors
<1>3. UNCHANGED <<use, sess, ready, stopping, ended, child, locks, alive, starter, mine, final,
                  watcher, cancelled, reports, stopped, unknown, panicked>>
  BY DEF Stopping, StopAsks, StopSaves
<1>4. ~(Of(s) \in alive \cap unknown)
  <2>1. Of(s) = Own(s)
    BY <1>1 DEF Facts, WhatIsLeft, Of, Own
  <2>2. starter[s] \notin {"look", "recover", "recoverStop"}
    BY <1>1, <1>2 DEF Facts, StartKnows, Restoring, Recovering
  <2> QED
    BY <1>1, <2>1, <2>2 DEF Facts, SlotKnown
<1>5. ~tainted /\ tainted' = tainted
  <2>1. CASE StopAsks(s)
    BY <2>1 DEF StopAsks, SavedSlotKnown
  <2>2. CASE StopSaves(s)
    <3>1. tainted' = (tainted \/ Of(s) \in alive \cap unknown)
      BY <2>2 DEF StopSaves
    <3>2. ~tainted /\ tainted \in BOOLEAN
      BY DEF SavedSlotKnown, TypeOK
    <3> QED
      BY <1>4, <3>1, <3>2
  <2> QED
    BY <2>1, <2>2 DEF Stopping
<1>6. PICK p \in {"no", "save"} :
        /\ saving' = [saving EXCEPT ![s] = p]
        /\ IF p = "save" THEN tear' = tear ELSE Tearing(s, "stop", "kill")
  BY DEF Stopping, StopAsks, StopSaves
<1>7. /\ saving' \in [Sessions -> {"no", "ask", "save"}] /\ saving'[s] = p
      /\ \A t \in Sessions : t # s => saving'[t] = saving[t]
  BY <1>6 DEF TypeOK
<1>8. /\ tear' \in [Sessions -> [Actors -> TearAt]]
      /\ tear'[s]["start"] = "no" /\ tear'[s]["watch"] = "no"
      /\ tear'[s]["stop"] = IF p = "save" THEN "no" ELSE "kill"
      /\ \A t \in Sessions : t # s => tear'[t] = tear[t]
  BY <1>2, <1>6, TearMoves DEF TypeOK, TearAt, Actors
<1>9. TypeOK'
  BY <1>3, <1>5, <1>7, <1>8 DEF TypeOK, TearAt
<1>10. OnlyIn(s)
  BY <1>3, <1>7, <1>8 DEF OnlyIn, TypeOK
<1>11. StartKnows(s)' /\ OneTakesIt(s)'
  BY <1>1, <1>2, <1>3, <1>7, <1>8 DEF Facts, StartKnows, OneTakesIt, Actors
<1>12. WhatIsLeft(s)'
  <2>1. \A a \in Actors : tear'[s][a] \notin {"release", "end", "done"}
    BY <1>8 DEF Actors
  <2>2. ~ended[s]
    BY <1>1, <1>2 DEF Facts, WhatIsLeft
  <2>3. starter[s] \notin Unready
    BY <1>1, <1>2 DEF Facts, StartKnows
  <2>4. s \in locks
    BY <1>1, <1>2, <2>3 DEF Facts, WhatIsLeft, Unready
  <2> QED
    BY <1>1, <1>3, <2>1, <2>2, <2>4 DEF Facts, WhatIsLeft, Own, NoServer
<1>13. SlotKnown(s)' /\ SavedSlotKnown' /\ ~panicked'
  BY <1>1, <1>3, <1>5 DEF Facts, SlotKnown, Own, SavedSlotKnown
<1> QED
  BY <1>9, <1>10, <1>11, <1>12, <1>13, StepKeeps DEF Facts

(* A report to the screen, and a server that ends by itself.                *)
LEMMA ReportedStep ==
  ASSUME SessionInv, NEW s \in Sessions, Reported(s)
  PROVE  SessionInv'
<1> USE SessionAssumption DEF SessionInv, Reported, fields, ghosts
<1>1. TypeOK'
  BY DEF TypeOK
<1>2. OnlyIn(s)
  BY DEF OnlyIn, TypeOK
<1>3. Facts(s)'
  BY DEF Facts, StartKnows, OneTakesIt, WhatIsLeft, SlotKnown, NoServer, Own
<1>4. SavedSlotKnown' /\ ~panicked'
  BY DEF SavedSlotKnown
<1> QED
  BY <1>1, <1>2, <1>3, <1>4, StepKeeps

LEMMA ServerDiesStep ==
  ASSUME SessionInv, ServerDies
  PROVE  SessionInv'
<1> USE SessionAssumption DEF SessionInv, ServerDies, fields, backend, ghosts
<1>1. alive' \subseteq alive
  OBVIOUS
<1>2. TypeOK'
  BY <1>1 DEF TypeOK
<1>3. ASSUME NEW s \in Sessions
      PROVE  Facts(s)'
  <2>1. Facts(s) /\ (NoServer(s) => NoServer(s)')
    BY <1>1 DEF NoServer
  <2>2. StartKnows(s)' /\ OneTakesIt(s)' /\ SlotKnown(s)'
    BY <1>1, <2>1 DEF Facts, StartKnows, OneTakesIt, SlotKnown, Own
  <2>3. WhatIsLeft(s)'
    BY <1>1, <2>1 DEF Facts, WhatIsLeft, Own
  <2> QED
    BY <2>2, <2>3 DEF Facts
<1>4. SavedSlotKnown' /\ ~panicked'
  BY DEF SavedSlotKnown
<1> QED
  BY <1>2, <1>3, <1>4

-----------------------------------------------------------------------------
(* The invariant holds in every state of every behaviour.                   *)
THEOREM SessionSafe ==
  ASSUME NoStopInRecovery
  PROVE  Spec => []SessionInv
<1>1. SessionInv /\ [Next]_vars => SessionInv'
  <2> SUFFICES ASSUME SessionInv, [Next]_vars PROVE SessionInv'
    OBVIOUS
  <2>1. CASE Start
    BY <2>1, StartStep
  <2>2. CASE Asked
    BY <2>2, AskedKeeps
  <2>3. CASE ServerDies
    BY <2>3, ServerDiesStep
  <2>4. ASSUME NEW s \in Sessions,
               \/ Starting(s) \/ Watching(s) \/ Stopping(s) \/ Reported(s)
               \/ \E a \in Actors : Teardown(s, a)
        PROVE  SessionInv'
    BY <2>4, StartingStep, WatchStep, StoppingStep, ReportedStep, TeardownStep
  <2>5. CASE UNCHANGED vars
    BY <2>5 DEF vars, fields, backend, ghosts, SessionInv, TypeOK, SavedSlotKnown, Facts,
       StartKnows, OneTakesIt, WhatIsLeft, SlotKnown, NoServer, Own
  <2> QED
    BY <2>1, <2>2, <2>3, <2>4, <2>5 DEF Next
<1> QED
  BY <1>1, SessionInit, PTL DEF Spec

(* Type correctness.                                                        *)
THEOREM TypeCorrect ==
  ASSUME NoStopInRecovery
  PROVE  Spec => []TypeOK
<1>1. SessionInv => TypeOK
  BY DEF SessionInv
<1> QED
  BY <1>1, SessionSafe, PTL

(* A session that has ended left no server and no lock behind, whoever tore *)
(* it down and however the steps fell.                                      *)
THEOREM NothingLeft ==
  ASSUME NoStopInRecovery
  PROVE  Spec => []EndedMeansStopped
<1>1. SessionInv => EndedMeansStopped
  <2> SUFFICES ASSUME SessionInv, NEW s \in Sessions, ended[s]
               PROVE  s \notin locks /\ \A c \in alive : c[1] # s
    BY DEF EndedMeansStopped
  <2>1. Facts(s)
    BY DEF SessionInv
  <2>2. PICK a \in Actors : tear[s][a] = "done"
    BY <2>1 DEF Facts, WhatIsLeft
  <2> QED
    BY <2>1, <2>2 DEF Facts, WhatIsLeft, NoServer
<1> QED
  BY <1>1, SessionSafe, PTL

(* No server outlives its session's locks: a second launcher never starts   *)
(* one beside it.                                                           *)
THEOREM ServersCovered ==
  ASSUME NoStopInRecovery
  PROVE  Spec => []LocksCoverServers
<1>1. SessionInv => LocksCoverServers
  <2> SUFFICES ASSUME SessionInv, NEW c \in alive
               PROVE  c[1] \in locks
    BY DEF LocksCoverServers
  <2>1. c \in Servers
    BY DEF SessionInv, TypeOK
  <2>2. c[1] \in Sessions
    BY <2>1 DEF Servers
  <2> QED
    BY <2>2 DEF SessionInv, Facts, WhatIsLeft
<1> QED
  BY <1>1, SessionSafe, PTL

(* A start, a stop and a watch never tear the same session down.            *)
THEOREM OneTearsDown ==
  ASSUME NoStopInRecovery
  PROVE  Spec => []OneTeardown
<1>1. SessionInv => OneTeardown
  <2> SUFFICES ASSUME SessionInv, NEW s \in Sessions
               PROVE  Cardinality({a \in Actors : tear[s][a] # "no"}) <= 1
    BY DEF OneTeardown
  <2> DEFINE T == {a \in Actors : tear[s][a] # "no"}
  <2>1. Facts(s)
    BY DEF SessionInv
  <2>2. \A a, b \in T : a = b
    BY <2>1 DEF Facts, OneTakesIt, Actors
  <2>3. CASE T = {}
    BY <2>3, FS_EmptySet
  <2>4. CASE T # {}
    <3>1. PICK a \in T : T = {a}
      BY <2>2, <2>4
    <3>2. Cardinality({a}) = 1
      BY FS_Singleton
    <3> QED
      BY <3>1, <3>2
  <2> QED
    BY <2>3, <2>4
<1> QED
  BY <1>1, SessionSafe, PTL

(* The end of a session is announced once: the second would be a panic.     *)
THEOREM AnnouncedOnce ==
  ASSUME NoStopInRecovery
  PROVE  Spec => []EndedOnce
<1>1. SessionInv => EndedOnce
  BY DEF SessionInv, EndedOnce
<1> QED
  BY <1>1, SessionSafe, PTL

(* A stop never saves a slot that a restore and an erase left in between.   *)
THEOREM KnownIsSaved ==
  ASSUME NoStopInRecovery
  PROVE  Spec => []SavedSlotKnown
<1>1. SessionInv => SavedSlotKnown
  BY DEF SessionInv
<1> QED
  BY <1>1, SessionSafe, PTL

=============================================================================
