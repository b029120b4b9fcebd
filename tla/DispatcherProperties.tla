------------------------ MODULE DispatcherProperties ------------------------
(***************************************************************************)
(* What the dispatcher must get right.                                     *)
(***************************************************************************)
EXTENDS Dispatcher

(* The clients that have been granted what their request asks of a record:  *)
(* all of it once they hold the request (or tried in vain to give it back), *)
(* and while they wait, what was resident or has arrived.                   *)
Holders(r) ==
  {c \in Clients : \/ client[c].pc \in {"holding", "releasing", "lost"}
                   \/ client[c].pc = "planned" /\ byRec[r] = NoOp}

(* The lease units the clients C, as cl has them, ask of a record: a unit   *)
(* is a place of the request of one of them.                                *)
UnitsOf(cl, C, r) == UNION {{c} \X Places(cl[c].req, r) : c \in C}

Readable(r) == Resident(r) /\ memory[table[r].slot] = r

(* A record a client has lease units on is resident and its slot holds the  *)
(* bytes of that record, from the moment the units are granted (which for a *)
(* hit is long before the acquire returns) until they are given back: no    *)
(* claim, retry, cancel or late read touches a leased slot.                 *)
GrantedIsReadable ==
  \A r \in Records : \A c \in Holders(r) : r \in Wanted(client[c].req) => Readable(r)

(* The lease of a slot is exactly the number of units clients hold on the   *)
(* record in it: a repeated id counts twice in the grant and in the return, *)
(* joins grant the units of every waiter, nothing is granted to a pending   *)
(* read.                                                                    *)
LeaseExact ==
  \A s \in Slots :
    slot[s].lease = IF slot[s].owner = NoRec THEN 0
                    ELSE Cardinality(UnitsOf(client, Holders(slot[s].owner), slot[s].owner))

(* Where a pending read is: in the submit queue or on a channel.            *)
PlacesOf(o) == {i \in DOMAIN submitQ : submitQ[i] = o}
ServedBy(o) == {ch \in Channels : chan[ch].op = o}

(* The four indices of the reads in flight agree: the pool, the record      *)
(* index, the pinned slots and the place a read waits in.  A record has one *)
(* read at most, a slot is the target of one read at most, that slot is     *)
(* owned by the record at the generation the read will publish, nobody has  *)
(* a lease on it, and the table does not point at it yet.                   *)
PendingExact ==
  Alive =>
    /\ \A o \in Ops : op[o].inUse =>
         LET x == op[o] IN
         /\ byRec[x.rec] = o /\ pinned[x.slot]
         /\ slot[x.slot].owner = x.rec /\ slot[x.slot].gen = x.gen
         /\ slot[x.slot].lease = 0 /\ ~Resident(x.rec)
         /\ Cardinality(PlacesOf(o)) + Cardinality(ServedBy(o)) = 1
    /\ \A o \in Ops : ~op[o].inUse => PlacesOf(o) = {} /\ ServedBy(o) = {}
    /\ \A r \in InFlight : op[byRec[r]].inUse /\ op[byRec[r]].rec = r
    /\ \A s \in Slots : pinned[s] <=> \E o \in Ops : op[o].inUse /\ op[o].slot = s

(* A command that waits is woken exactly when the last read it depends on   *)
(* ends: its dependency count is the number of reads that list it, a read   *)
(* lists only commands that wait, and it carries the units of all of them.  *)
WaitersExact ==
  /\ \A c \in Clients :
       /\ client[c].deps = Cardinality({o \in Ops : c \in op[o].waiters})
       /\ client[c].deps > 0 <=> client[c].pc = "planned"
  /\ \A o \in Ops : op[o].inUse =>
       op[o].mult = Cardinality(UnitsOf(client, op[o].waiters, op[o].rec))

(* A joined guess that fails can be read again: the retry finds a free      *)
(* entry in the pending pool.  (The header lets one caller acquire at a     *)
(* time; when two wait for reads the pool can be empty.)                    *)
RetryFindsAnEntry ==
  fatal = "pool" => Cardinality({c \in Clients : client[c].pc = "planned"}) > 1

(* A guess that waits to be submitted has no waiter yet.  The refused       *)
(* submission of a guess forgets the read without waking anybody.           *)
RefusalStrandsNobody ==
  \A i \in DOMAIN submitQ :
    op[submitQ[i]].origin = "prefetch" => op[submitQ[i]].waiters = {}

(* Guesses never make a token's worth of experts wait.  While nobody else   *)
(* holds or asks for anything, and until an abort is asked for, an acquire  *)
(* of up to n_expert_used ids finds an entry of the pool for each of them   *)
(* and a slot for each record it misses, however many guesses are planned,  *)
(* in flight or finished.  A larger one may be deferred behind guesses, but *)
(* once the pool check lets it pass it is not turned down                   *)
(* (pb_demand_preflight_reject stays 0).                                    *)
GuessesLeaveRoom ==
  life.stop # "abort" =>
    \A c \in Clients :
      client[c].pc = "queued" /\ (\A d \in Clients \ {c} : client[d].pc = "idle") =>
        /\ Len(client[c].req.ids) <= NUsed => CanPlan(c)
        /\ CanPlan(c) => Fits(client[c].req, Pins, InFlight)

(* At the end of a graceful stop nothing is left over: no command, no read, *)
(* no intent, no pinned slot and no client that waits.                      *)
CleanExit ==
  disp.pc = "exited" /\ life.stop = "graceful" =>
    /\ cmdQ = <<>> /\ submitQ = <<>> /\ FreeOps = Ops /\ Busy = {} /\ ~HasRank
    /\ Pins = {} /\ InFlight = {}
    /\ \A c \in Clients : client[c].pc \notin {"queued", "planned", "releasing"}

(* The dispatcher of the process never aborts it because a guess failed.    *)
GuessesAreHarmless == fatal = "none"

-----------------------------------------------------------------------------
(* Every command that was enqueued is answered, an acquire and a release    *)
(* alike, unless the process aborts.                                        *)
CommandsReturn ==
  LET waits(c) == client[c].pc \in {"queued", "planned", "releasing"}
  IN  \A c \in Clients : waits(c) ~> ~waits(c) \/ fatal # "none"

(* A stop that was asked for ends the dispatcher thread.                    *)
StopEnds == life.stop # "no" ~> disp.pc = "exited" \/ fatal # "none"

-----------------------------------------------------------------------------
(* The store keeps the promise of ExpertLease.  A client holds its grant    *)
(* from the completion of its acquire to its call of release.               *)
Lease == INSTANCE ExpertLease WITH
  readable <- {r \in Records : Readable(r)},
  ask <- [c \in Clients |->
            CASE client[c].pc \in {"queued", "planned"} ->
                   [st |-> "asking", want |-> Wanted(client[c].req)]
              [] client[c].pc = "holding" ->
                   [st |-> "holding", want |-> Wanted(client[c].req)]
              [] OTHER -> [st |-> "idle", want |-> {}]]

(* Every behaviour of the dispatcher is one of the abstract lease store.    *)
ImplementsLease == Lease!LeaseSpec
=============================================================================
