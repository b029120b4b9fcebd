----------------------------- MODULE SlotCache -----------------------------
(***************************************************************************)
(* The slot cache of the expert store (src/engine/ggml/src/                *)
(* ggml-moe-direct.cpp): a fixed array of host slots, each holding the     *)
(* weights of at most one record (one expert of one layer), and the record *)
(* table that says where a published record lives.  This module holds the  *)
(* state of the cache and the pure part of it: who is resident, which slot *)
(* is the next victim, and how a demand for several experts is planned.    *)
(* The dispatcher that changes the state is the module Dispatcher.         *)
(*                                                                         *)
(* A slot's pf_rank and pf_intent_ordinal (written together, cleared       *)
(* together) are one field `pf' = <<ordinal, rank>>; NoPf is the value     *)
(* both NA constants stand for.  The cache class NONE and "no class" are   *)
(* the same value "none".                                                  *)
(***************************************************************************)
EXTENDS Integers, Sequences, FiniteSets

CONSTANTS Layers,      \* the MoE layers (mlpos)
          Experts,     \* the experts of a layer
          NSlots,      \* slots in the cache (g_mod.n_slots)
          NoRec        \* owner_record = -1

Slots   == 0 .. NSlots - 1
NoSlot  == -1
Records == Layers \X Experts

ASSUME NSlotsAssumption == NSlots \in Nat \ {0}
ASSUME NoRecAssumption  == NoRec \notin Records

VARIABLES slot,        \* g_mod.slots
          table,       \* g_mod.record_table
          tick         \* g_mod.tick, the logical LRU clock

cacheVars == <<slot, table, tick>>

NoPf  == <<0, 0>>
Class == {"none", "probation", "demand"}

SlotType  == [owner : Records \cup {NoRec}, gen : Nat, lease : Nat,
              lastUsed : Nat, class : Class, pf : Nat \X Nat]
EntryType == [slot : Slots \cup {NoSlot}, gen : Nat]

EmptySlot == [owner |-> NoRec, gen |-> 0, lease |-> 0, lastUsed |-> 0,
              class |-> "none", pf |-> NoPf]

CacheInit == /\ slot  = [s \in Slots |-> EmptySlot]
             /\ table = [r \in Records |-> [slot |-> NoSlot, gen |-> 0]]
             /\ tick  = 0

CacheTypeOK == /\ slot  \in [Slots -> SlotType]
               /\ table \in [Records -> EntryType]
               /\ tick  \in Nat

-----------------------------------------------------------------------------
(* A record is resident when the table, the generation and the owner agree. *)
Resident(r) ==
  /\ table[r].slot # NoSlot
  /\ slot[table[r].slot].gen = table[r].gen
  /\ slot[table[r].slot].owner = r

(* Victim order: empty slots, then speculative ones nobody asked for yet    *)
(* (oldest intent, then lowest rank), then the least recently used; ties go *)
(* to the lower index.                                                      *)
VictimRank(s) == CASE slot[s].owner = NoRec -> 0
                   [] slot[s].owner # NoRec /\ slot[s].class = "probation" -> 1
                   [] OTHER -> 2

VictimKey(s) == IF VictimRank(s) = 1
                  THEN <<1, slot[s].pf[1], slot[s].pf[2], s>>
                  ELSE <<VictimRank(s), slot[s].lastUsed, 0, s>>

Better(a, b) ==
  LET ka == VictimKey(a)  kb == VictimKey(b)
  IN  \E i \in 1 .. 4 : ka[i] < kb[i] /\ \A j \in 1 .. i - 1 : ka[j] = kb[j]

(* The slots the claim loop takes from the set E, one after the other: each *)
(* claim excludes its slot from the next scan and leaves the keys of the    *)
(* others alone, so the k-th is the one that k-1 others are better than.    *)
BestFirst(E, s) ==
  \A k \in DOMAIN s : Cardinality({t \in E : Better(t, s[k])}) = k - 1

-----------------------------------------------------------------------------
(* A request names one layer and a sequence of experts, repeats allowed.    *)
Wanted(q)   == {<<q.layer, q.ids[i]>> : i \in DOMAIN q.ids}
Places(q, r) == {i \in DOMAIN q.ids : <<q.layer, q.ids[i]>> = r}
Units(q, r) == Cardinality(Places(q, r))
FirstAt(q, r) == CHOOSE i \in Places(q, r) : \A j \in Places(q, r) : i <= j
LastAt(q, r)  == CHOOSE i \in Places(q, r) : \A j \in Places(q, r) : j <= i

(* The plan of a request, given the slots pinned by reads in flight and the *)
(* records those reads are for: every wanted record is a hit, a join of a   *)
(* read already in flight, or a miss that needs a slot of its own.          *)
Hits(q)             == {r \in Wanted(q) : Resident(r)}
HitSlots(q)         == {table[r].slot : r \in Hits(q)}
Joins(q, inFlight)  == (Wanted(q) \ Hits(q)) \cap inFlight
Misses(q, inFlight) == (Wanted(q) \ Hits(q)) \ inFlight

EvictableLeased(excluded) == Slots \ excluded    \* wrong: leased slots too
Evictable(excluded) == {s \in Slots \ excluded : slot[s].lease = 0}
Fits(q, pins, inFlight) ==
  Cardinality(Misses(q, inFlight)) <= Cardinality(Evictable(pins \cup HitSlots(q)))

(* The misses are claimed in the order the request first names them.        *)
InRequestOrder(q, rec) ==
  \A j, k \in DOMAIN rec : j < k => FirstAt(q, rec[j]) < FirstAt(q, rec[k])

(* Unpublishing the previous owner of every slot of a set that is claimed.  *)
Detached(S) ==
  [r \in Records |-> IF \E s \in S : slot[s].owner = r
                       THEN [table[r] EXCEPT !.slot = NoSlot] ELSE table[r]]

(* A claimed slot: new generation, new owner, no class until it publishes.  *)
Claimed(s, r, t) ==
  [slot[s] EXCEPT !.owner = r, !.gen = @ + 1, !.lastUsed = t,
                  !.class = "none", !.pf = NoPf]

LeasedOnce(s, n, t) ==                           \* wrong: one unit per record
  [slot[s] EXCEPT !.lease = @ + 1, !.lastUsed = t, !.class = "demand", !.pf = NoPf]

(* A hit takes one lease unit per place of the request and ends probation.  *)
Leased(s, n, t) ==
  [slot[s] EXCEPT !.lease = @ + n, !.lastUsed = t,
                  !.class = IF @ = "probation" THEN "demand" ELSE @,
                  !.pf = IF slot[s].class = "probation" THEN NoPf ELSE @]

(* A release gives back n units, never more than there are.                 *)
GivenBack(s, n) == [slot[s] EXCEPT !.lease = IF @ > n THEN @ - n ELSE 0]

=============================================================================
