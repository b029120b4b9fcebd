------------------------------ MODULE StoreGate ------------------------------
(***************************************************************************)
(* What the drain of the expert store promises: callers come and go while  *)
(* the store is open; once it is closing nobody comes in any more; it is   *)
(* closed only after everybody has left, and stays closed.                 *)
(***************************************************************************)
CONSTANTS Threads

VARIABLES phase,    \* "open", "closing" or "closed"
          busy      \* callers inside: acquiring, or owing a lease unit

gateVars == <<phase, busy>>

GateInit == phase = "open" /\ busy = {}

ComeIn(t) == /\ phase = "open" /\ t \notin busy
             /\ busy' = busy \cup {t}
             /\ UNCHANGED phase

GoOut(t) == /\ t \in busy
            /\ busy' = busy \ {t}
            /\ UNCHANGED phase

StartClosing == phase = "open" /\ phase' = "closing" /\ UNCHANGED busy
Close        == phase = "closing" /\ busy = {} /\ phase' = "closed" /\ UNCHANGED busy

GateNext == \/ \E t \in Threads : ComeIn(t) \/ GoOut(t)
            \/ StartClosing \/ Close

GateSpec == GateInit /\ [][GateNext]_gateVars
=============================================================================
