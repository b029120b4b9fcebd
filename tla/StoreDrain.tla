----------------------------- MODULE StoreDrain -----------------------------
(***************************************************************************)
(* The lifecycle gate of the expert store (ggml-moe-direct.cpp): acquires   *)
(* and releases of two surfaces (a tensor, or a key that mints a token)     *)
(* against the graceful drain RUNNING -> DRAINING -> STOPPED.  None of the  *)
(* atomics involved is read under a common lock, so every atomic access is  *)
(* a step of its own.                                                      *)
(*                                                                         *)
(* The two counters are sets here: an admission is the XStoreAdmission     *)
(* object that counts it, a lease unit is its identity, and the ledger's   *)
(* two totals are the cardinalities of `granted' and `returned'.           *)
(*                                                                         *)
(* A definition that no other one uses, right before the one it varies, is *)
(* a mutant of PROJECT.json: a bug the named property has to find.         *)
(***************************************************************************)
EXTENDS Integers, FiniteSets

CONSTANTS Threads,     \* callers of the store
          Units        \* lease units that can ever be granted (the bound)

ASSUME UnitsAssumption == IsFiniteSet(Units)

VARIABLES
  pc,          \* where each caller is
  surface,     \* "tensor" or "token", while a call is under way or a lease held
  units,       \* units the caller has been granted and not given back
  token,       \* store epoch captured in the caller's token (0: no token)
  admissions,  \* g_xs_admit: the admission objects alive
  granted,     \* g_xs_units_granted
  returned,    \* g_xs_units_returned
  state,       \* g_xs_state
  epoch,       \* g_xs_epoch (0: none)
  anchored,    \* g_xs_drain_t0_ms is set
  expired,     \* the deadline measured from the anchor has passed
  dispatcher,  \* "running", "stopped", or "timedout" (disp_stop_timed_out)
  drain,       \* the drain thread: [pc, check, budget, seen]
  fatal        \* "none", or why the process aborted

callerVars == <<pc, surface, units, token>>
ledgerVars == <<granted, returned>>
storeVars  == <<state, epoch, anchored, expired, dispatcher>>
vars == <<callerVars, admissions, ledgerVars, storeVars, drain, fatal>>

Levels     == {"outer", "inner"}
Admissions == Threads \X Levels
Surfaces   == {"tensor", "token"}
Budgets    == {"none", "some"}      \* deadline_ms <= 0, or > 0

(* A sealed store, nothing under way (xstore_publish_epoch_locked).         *)
Init ==
  /\ pc = [t \in Threads |-> "idle"]
  /\ surface = [t \in Threads |-> "tensor"]
  /\ units = [t \in Threads |-> {}]
  /\ token = [t \in Threads |-> 0]
  /\ admissions = {} /\ granted = {} /\ returned = {}
  /\ state = "running" /\ epoch = 1 /\ anchored = FALSE /\ expired = FALSE
  /\ dispatcher = "running"
  /\ drain = [pc |-> "idle", check |-> 1, budget |-> "some", seen |-> {}]
  /\ fatal = "none"

Alive           == fatal = "none"    \* abort() ends every thread of the process
At(t, s)        == Alive /\ pc[t] = s
Go(t, from, to) == At(t, from) /\ pc' = [pc EXCEPT ![t] = to]
DrainAt(s)      == Alive /\ drain.pc = s

-----------------------------------------------------------------------------
(* XStoreAdmission: count first, look at the state after.  The token        *)
(* surface holds an admission of its own around the one of the primitive.   *)
Admit(t, level) == admissions' = admissions \cup {<<t, level>>}

MayEnterDraining == state # "stopped"
MayEnter         == state = "running"

Call(t, s) ==
  /\ Go(t, "idle", IF s = "token" THEN "checkOuter" ELSE "checkInner")
  /\ surface' = [surface EXCEPT ![t] = s]
  /\ Admit(t, IF s = "token" THEN "outer" ELSE "inner")
  /\ UNCHANGED <<units, token, ledgerVars, storeVars, drain, fatal>>

CheckOuter(t) ==
  /\ Go(t, "checkOuter", IF MayEnter THEN "enterInner" ELSE "leaveOuter")
  /\ UNCHANGED <<surface, units, token, admissions, ledgerVars, storeVars, drain, fatal>>

EnterInner(t) ==
  /\ Go(t, "enterInner", "checkInner")
  /\ Admit(t, "inner")
  /\ UNCHANGED <<surface, units, token, ledgerVars, storeVars, drain, fatal>>

CheckInner(t) ==
  /\ Go(t, "checkInner", IF MayEnter THEN "acquiring" ELSE "leaveInner")
  /\ UNCHANGED <<surface, units, token, admissions, ledgerVars, storeVars, drain, fatal>>

(* The units of one acquire are granted one by one: hits when it is         *)
(* planned, misses as their reads arrive.                                   *)
Grant(t) ==
  /\ At(t, "acquiring") /\ dispatcher # "stopped"
  /\ \E u \in Units \ granted :
       /\ units' = [units EXCEPT ![t] = @ \cup {u}]
       /\ granted' = granted \cup {u}
  /\ UNCHANGED <<pc, surface, token, admissions, returned, storeVars, drain, fatal>>

(* The primitive returns: with every unit it wanted, or with none because   *)
(* the request was refused.                                                 *)
Acquired(t) ==
  /\ Go(t, "acquiring", "leaveInner")
  /\ UNCHANGED <<surface, units, token, admissions, ledgerVars, storeVars, drain, fatal>>

LeaveInner(t) ==
  /\ Go(t, "leaveInner",
        CASE surface[t] = "token" /\ units[t] # {} -> "issue"
          [] surface[t] = "token" /\ units[t] = {} -> "leaveOuter"
          [] surface[t] = "tensor" /\ units[t] # {} -> "holding"
          [] OTHER -> "idle")
  /\ admissions' = admissions \ {<<t, "inner">>}
  /\ UNCHANGED <<surface, units, token, ledgerVars, storeVars, drain, fatal>>

(* xstore_token_issue_locked captures the live epoch, whatever it is.       *)
IssueToken(t) ==
  /\ Go(t, "issue", "leaveOuter")
  /\ token' = [token EXCEPT ![t] = epoch]
  /\ UNCHANGED <<surface, units, admissions, ledgerVars, storeVars, drain, fatal>>

LeaveOuter(t) ==
  /\ Go(t, "leaveOuter", IF units[t] = {} THEN "idle" ELSE "holding")
  /\ admissions' = admissions \ {<<t, "outer">>}
  /\ UNCHANGED <<surface, units, token, ledgerVars, storeVars, drain, fatal>>

(* A release is accepted in every state of the store.  A token is checked   *)
(* against the live epoch and freed before its units go back.               *)
Release(t) ==
  /\ Go(t, "holding", "returning")
  /\ token' = [token EXCEPT ![t] = 0]
  /\ fatal' = IF surface[t] = "token" /\ (epoch = 0 \/ token[t] # epoch)
                THEN "handle" ELSE fatal
  /\ UNCHANGED <<surface, units, admissions, ledgerVars, storeVars, drain>>

(* The dispatcher gives the units back one by one.  One that is told to     *)
(* stop, or has been, takes no new command: the units stay granted.         *)
ReturnUnit(t) ==
  /\ At(t, "returning") /\ units[t] # {} /\ dispatcher # "stopped"
  /\ \E u \in units[t] :
       /\ units' = [units EXCEPT ![t] = @ \ {u}]
       /\ returned' = returned \cup {u}
  /\ UNCHANGED <<pc, surface, token, admissions, granted, storeVars, drain, fatal>>

Returned(t) ==
  /\ Go(t, "returning", IF units[t] = {} THEN "idle" ELSE "lost")
  /\ units[t] # {} => drain.pc = "stop" \/ dispatcher # "running"
  /\ UNCHANGED <<surface, units, token, admissions, ledgerVars, storeVars, drain, fatal>>

Caller(t) ==
  \/ CheckOuter(t) \/ EnterInner(t) \/ CheckInner(t)
  \/ Grant(t) \/ Acquired(t) \/ LeaveInner(t) \/ IssueToken(t) \/ LeaveOuter(t)
  \/ Release(t) \/ ReturnUnit(t) \/ Returned(t)

-----------------------------------------------------------------------------
(* drain_begin: one compare-and-swap, then the anchor of the one deadline.  *)
DrainBegin ==
  /\ DrainAt("idle") /\ state = "running"
  /\ state' = "draining"
  /\ drain' = [drain EXCEPT !.pc = "anchor"]
  /\ UNCHANGED <<callerVars, admissions, ledgerVars, epoch, anchored, expired, dispatcher, fatal>>

DrainAnchor ==
  /\ DrainAt("anchor")
  /\ anchored' = TRUE
  /\ drain' = [drain EXCEPT !.pc = "begun"]
  /\ UNCHANGED <<callerVars, admissions, ledgerVars, state, epoch, expired, dispatcher, fatal>>

(* The clock passes the deadline.                                           *)
Expire ==
  /\ Alive /\ anchored /\ ~expired
  /\ expired' = TRUE
  /\ UNCHANGED <<callerVars, admissions, ledgerVars, state, epoch, anchored, dispatcher,
                 drain, fatal>>

TimeLeftTimeless  == drain.budget = "some"
TimeLeft == drain.budget = "some" /\ anchored /\ ~expired

(* drain_finish; xstore_drain_zero reads the admissions, then the two       *)
(* totals of the ledger one after the other: the operands of a C++ minus    *)
(* are read in either order.                                                *)
DrainFinish(budget) ==
  /\ DrainAt("begun") /\ state = "draining"
  /\ drain' = [drain EXCEPT !.pc = "readAdmit", !.check = 1, !.budget = budget]
  /\ UNCHANGED <<callerVars, admissions, ledgerVars, storeVars, fatal>>

NobodyAdmittedUnread == TRUE
NobodyAdmitted       == admissions = {}

ReadAdmissions ==
  /\ DrainAt("readAdmit")
  /\ drain' = [drain EXCEPT !.pc = IF NobodyAdmitted THEN "readLedger" ELSE "notZero"]
  /\ UNCHANGED <<callerVars, admissions, ledgerVars, storeVars, fatal>>

ReadOneTotal ==
  /\ DrainAt("readLedger")
  /\ \/ drain' = [drain EXCEPT !.pc = "readReturned", !.seen = granted]
     \/ drain' = [drain EXCEPT !.pc = "readGranted", !.seen = returned]
  /\ UNCHANGED <<callerVars, admissions, ledgerVars, storeVars, fatal>>

SeenOutstanding ==
  IF drain.pc = "readReturned" THEN Cardinality(drain.seen) - Cardinality(returned)
                               ELSE Cardinality(granted) - Cardinality(drain.seen)

(* Zero is confirmed twice: once in the waiting loop, once on the near side *)
(* of the steps that cannot be taken back.                                  *)
ReadOtherTotal ==
  /\ DrainAt("readReturned") \/ DrainAt("readGranted")
  /\ drain' = IF SeenOutstanding # 0
                THEN [drain EXCEPT !.pc = "notZero"]
                ELSE IF drain.check = 1
                       THEN [drain EXCEPT !.pc = "readAdmit", !.check = 2]
                       ELSE [drain EXCEPT !.pc = "stop"]
  /\ UNCHANGED <<callerVars, admissions, ledgerVars, storeVars, fatal>>

(* The first check waits while there is time; the second one aborts.        *)
NotZero ==
  /\ DrainAt("notZero")
  /\ IF drain.check = 1 /\ TimeLeft
       THEN drain' = [drain EXCEPT !.pc = "readAdmit"] /\ UNCHANGED fatal
       ELSE /\ fatal' = IF drain.check = 1 THEN "residual" ELSE "late"
            /\ UNCHANGED drain
  /\ UNCHANGED <<callerVars, admissions, ledgerVars, storeVars>>

(* dispatcher_stop_and_join_until: it stops in time, or the latch is set,   *)
(* drain_finish returns -1 and the store stays DRAINING for good.           *)
StopDispatcher ==
  /\ DrainAt("stop") /\ dispatcher = "running"
  /\ dispatcher' = "stopped"
  /\ drain' = [drain EXCEPT !.pc = "invalidate"]
  /\ UNCHANGED <<callerVars, admissions, ledgerVars, state, epoch, anchored, expired, fatal>>

StopTimesOutGoesOn ==
  /\ DrainAt("stop") /\ (dispatcher = "running" => ~TimeLeft)
  /\ dispatcher' = "timedout"
  /\ drain' = [drain EXCEPT !.pc = "invalidate"]
  /\ UNCHANGED <<callerVars, admissions, ledgerVars, state, epoch, anchored, expired, fatal>>

StopTimesOut ==
  /\ DrainAt("stop") /\ (dispatcher = "running" => ~TimeLeft)
  /\ dispatcher' = "timedout"
  /\ drain' = [drain EXCEPT !.pc = "begun"]
  /\ UNCHANGED <<callerVars, admissions, ledgerVars, state, epoch, anchored, expired, fatal>>

InvalidateEpoch ==
  /\ DrainAt("invalidate")
  /\ epoch' = 0
  /\ drain' = [drain EXCEPT !.pc = "publish"]
  /\ UNCHANGED <<callerVars, admissions, ledgerVars, state, anchored, expired, dispatcher, fatal>>

PublishStopped ==
  /\ DrainAt("publish")
  /\ state' = "stopped"
  /\ drain' = [drain EXCEPT !.pc = "done"]
  /\ UNCHANGED <<callerVars, admissions, ledgerVars, epoch, anchored, expired, dispatcher, fatal>>

Drainer ==
  \/ DrainAnchor \/ \E b \in Budgets : DrainFinish(b)
  \/ ReadAdmissions \/ ReadOneTotal \/ ReadOtherTotal \/ NotZero
  \/ StopDispatcher \/ StopTimesOut \/ InvalidateEpoch \/ PublishStopped

-----------------------------------------------------------------------------
Next == \/ \E t \in Threads : Caller(t) \/ \E s \in Surfaces : Call(t, s)
        \/ DrainBegin \/ Drainer \/ Expire

Spec == Init /\ [][Next]_vars

(* Callers finish what they began and give back what they hold, the drain   *)
(* thread runs and time passes; nobody has to call or to drain.  Callers    *)
(* may also call, and be refused, for ever.                                 *)
FairSpec == /\ Spec
            /\ \A t \in Threads : WF_vars(Caller(t))
            /\ WF_vars(Drainer)
            /\ WF_vars(Expire)

-----------------------------------------------------------------------------
CallerPc == {"idle", "checkOuter", "enterInner", "checkInner", "acquiring",
             "leaveInner", "issue", "leaveOuter", "holding", "returning", "lost"}
DrainPc  == {"idle", "anchor", "begun", "readAdmit", "readLedger", "readReturned",
             "readGranted", "notZero", "stop", "invalidate", "publish", "done"}

(* Types of the gate's state.                                               *)
TypeOK ==
  /\ pc \in [Threads -> CallerPc]
  /\ surface \in [Threads -> Surfaces]
  /\ units \in [Threads -> SUBSET Units]
  /\ token \in [Threads -> {0, 1}]
  /\ admissions \subseteq Admissions
  /\ granted \subseteq Units /\ returned \subseteq Units
  /\ state \in {"running", "draining", "stopped"}
  /\ epoch \in {0, 1} /\ anchored \in BOOLEAN /\ expired \in BOOLEAN
  /\ dispatcher \in {"running", "stopped", "timedout"}
  /\ drain \in [pc : DrainPc, check : {1, 2}, budget : Budgets, seen : SUBSET Units]
  /\ fatal \in {"none", "handle", "residual", "late"}

(* The drain has seen zero admissions and, after that, zero lease units.    *)
Confirmed == drain.check = 2 \/ dispatcher = "timedout"

(* A caller that passed the gate and may be granted units, or owes some.    *)
Inside(t) == pc[t] = "acquiring" \/ units[t] # {}

(* From the moment the drain has seen zero once, no caller is inside: the   *)
(* second check, the stop of the dispatcher and the end of the epoch happen *)
(* under nobody, and an abort of the second check is a false alarm.         *)
NobodyInside == Confirmed => \A t \in Threads : ~Inside(t)

(* A token is never used outside the epoch it was minted in, and no release *)
(* finds the dispatcher gone.                                               *)
TokensDieFirst == fatal # "handle" /\ \A t \in Threads : pc[t] # "lost"

(* A drain that still has time does not abort: leases that are outstanding  *)
(* only make it wait.                                                       *)
AbortOnlyOutOfTime == fatal = "residual" => drain.budget = "none" \/ expired

(* The reason the zero check reads the admissions first: with none left in  *)
(* a store that no longer runs, the granted total is final.                 *)
LedgerSettles ==
  [][admissions = {} /\ state # "running" => granted' = granted]_vars

(* The lifecycle only moves forward, STOPPED comes after the epoch is gone  *)
(* and the epoch goes after the dispatcher has stopped.                     *)
OrderIsTheContract ==
  [][/\ state' # state => <<state, state'>> \in {<<"running", "draining">>, <<"draining", "stopped">>}
     /\ state' = "stopped" => epoch' = 0
     /\ epoch' # epoch => dispatcher = "stopped"]_vars

(* A drain that was begun ends: the store is stopped, the process aborted,  *)
(* or the stop timed out.                                                   *)
DrainEnds == state = "draining" ~> state = "stopped" \/ fatal # "none" \/ dispatcher = "timedout"

-----------------------------------------------------------------------------
(* The inductive invariant behind the properties above, part by part.       *)
(* Where a caller has an admission counted.                                 *)
AdmissionsExact ==
  \A t \in Threads :
    /\ <<t, "outer">> \in admissions <=>
         surface[t] = "token" /\ pc[t] \in {"checkOuter", "enterInner", "checkInner",
                                            "acquiring", "leaveInner", "issue", "leaveOuter"}
    /\ <<t, "inner">> \in admissions <=> pc[t] \in {"checkInner", "acquiring", "leaveInner"}

(* Outstanding units are held by exactly one caller, at a place where it    *)
(* will give them back.                                                     *)
UnitsExact ==
  /\ returned \subseteq granted
  /\ \A u \in granted \ returned : \E t \in Threads : u \in units[t]
  /\ \A t \in Threads :
       /\ units[t] \subseteq granted \ returned
       /\ \A s \in Threads \ {t} : units[t] \cap units[s] = {}
       /\ units[t] # {} => pc[t] \in {"acquiring", "leaveInner", "issue", "leaveOuter",
                                      "holding", "returning"}
       /\ pc[t] \in {"issue", "holding"} => units[t] # {}
       /\ pc[t] = "issue" => surface[t] = "token"

TokensExact ==
  \A t \in Threads :
    surface[t] = "token" /\ units[t] # {} /\ pc[t] \in {"leaveOuter", "holding"} => token[t] = 1

(* What each place of the drain thread knows.                               *)
DrainKnows ==
  /\ state = "running" <=> drain.pc = "idle"
  /\ state = "stopped" <=> drain.pc = "done"
  /\ drain.pc \in {"readLedger", "readReturned", "readGranted"} =>
       \A t \in Threads : pc[t] # "acquiring"
  /\ drain.pc = "readReturned" => drain.seen = granted
  /\ drain.pc = "readGranted" => drain.seen \subseteq returned
  /\ drain.pc \in {"stop", "invalidate", "publish", "done"} => drain.check = 2
  /\ drain.pc \in {"idle", "anchor", "begun"} => drain.check = 1 \/ dispatcher = "timedout"
  /\ drain.pc \in {"idle", "anchor"} => dispatcher = "running"
  /\ dispatcher = "stopped" <=> drain.pc \in {"invalidate", "publish", "done"}
  /\ drain.pc \notin {"idle", "anchor"} => anchored
  /\ epoch = 0 <=> drain.pc \in {"publish", "done"}

DrainInv == /\ TypeOK /\ AdmissionsExact /\ UnitsExact /\ TokensExact /\ DrainKnows
            /\ NobodyInside /\ TokensDieFirst /\ AbortOnlyOutOfTime

-----------------------------------------------------------------------------
(* The store behaves like a gate: open until drain_begin, closed from the   *)
(* first confirmation of zero on.                                           *)
Gate == INSTANCE StoreGate WITH
  busy  <- {t \in Threads : Inside(t)},
  phase <- CASE state = "running" -> "open"
             [] state # "running" /\ Confirmed -> "closed"
             [] OTHER -> "closing"

(* Every behaviour of the store is one of the abstract gate.                *)
ImplementsGate == Gate!GateSpec
=============================================================================
