---------------------------- MODULE MCDispatcher ----------------------------
(* Small instances of Dispatcher for TLC. *)
EXTENDS DispatcherProperties, TLC

CONSTANTS l1, l2, e1, e2, c1, c2

Req(l, ids) == [layer |-> l, ids |-> ids]

(* Single experts, pairs in either order and a repeated id.                 *)
AskPairs    == {Req(l1, <<e1, e2>>), Req(l1, <<e1, e1>>), Req(l2, <<e2>>), Req(l2, <<e2, e1>>)}
AskSecond   == {Req(l2, <<e1, e2>>)}
AskWhole    == {Req(l2, <<e1, e2, e1, e2>>), Req(l2, <<e2>>)}
GuessSecond == {Req(l2, <<e1, e2>>), Req(l2, <<e2>>)}
GuessPair   == {Req(l2, <<e1, e2>>)}

(* Nothing tells the callers apart: ids, priorities and channels do not      *)
(* name them.                                                               *)
Callers == Permutations(Clients)
=============================================================================
