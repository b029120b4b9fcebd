----------------------------- MODULE MCSession -----------------------------
(* Instances of Session for TLC; the bounds are in the configurations.      *)
EXTENDS Session

Screens == [direct |-> FALSE, restores |-> TRUE]   \* the shipped program
Callers == [direct |-> TRUE,  restores |-> FALSE]  \* a user of the package

EitherUse   == {Screens, Callers}
ScreensOnly == {Screens}
=============================================================================
