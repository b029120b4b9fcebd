-------------------------- MODULE DispatcherProofs --------------------------
(****************************************************************************)
(* The dispatcher, proved for every set of layers, experts and clients,     *)
(* every number of slots and channels, and every bound.                     *)
(*                                                                          *)
(* The inductive invariant DispatcherInv is the conjunction of the types    *)
(* and of what each part of the dispatcher relies on: that the indices of   *)
(* the reads in flight agree (Indexed), that each of these reads waits in   *)
(* exactly one place (Placed), that the table points at slots that have     *)
(* been read (Published) and a read that ended well has filled its slot     *)
(* (Arrived), that only a read in flight has waiters and a second try is a  *)
(* demand read (Listed), that a command's count of reads is the number of   *)
(* reads that list it (Counted), and what the places of a turn know of the  *)
(* queues (IntentsNamed, CommandsQueued, GuessFresh, TailKnows).            *)
(****************************************************************************)
EXTENDS DispatcherProperties, FiniteSetTheorems, SequenceTheorems,
        WellFoundedInduction, TLAPS

(* The entries of the pool that are in use.                                 *)
Used == {o \in Ops : op[o].inUse}

(* What the pool says of a read, and the other indices say the same.        *)
OpsExact ==
  \A o \in Used :
    /\ op[o].rec \in Records /\ op[o].slot \in Slots
    /\ byRec[op[o].rec] = o /\ pinned[op[o].slot]
    /\ slot[op[o].slot].owner = op[o].rec /\ slot[op[o].slot].gen = op[o].gen
    /\ slot[op[o].slot].lease = 0 /\ table[op[o].rec].slot = NoSlot

RecsExact == \A r \in Records : byRec[r] # NoOp => byRec[r] \in Used /\ op[byRec[r]].rec = r

PinsExact == \A s \in Slots : pinned[s] => \E o \in Used : op[o].slot = s

(* A table entry that points at a slot points at its record's slot.         *)
TableExact ==
  \A r \in Records : table[r].slot # NoSlot =>
    slot[table[r].slot].owner = r /\ slot[table[r].slot].gen = table[r].gen

Indexed == OpsExact /\ RecsExact /\ PinsExact /\ TableExact

(* The reads U are in the queue q or on a channel, each in one place.       *)
PlacedIn(U, q, ch) ==
  /\ \A i, j \in DOMAIN q : q[i] = q[j] => i = j
  /\ \A i \in DOMAIN q : q[i] \in U
  /\ \A c \in Channels : ch[c].op # NoOp => ch[c].op \in U
  /\ \A c, d \in Channels : ch[c].op # NoOp /\ ch[c].op = ch[d].op => c = d
  /\ \A i \in DOMAIN q, c \in Channels : ch[c].op # q[i]
  /\ \A o \in U : (\E i \in DOMAIN q : q[i] = o) \/ (\E c \in Channels : ch[c].op = o)

Placed == Alive => PlacedIn(Used, submitQ, chan)

(* What the table points at has been read, and what a channel has read well *)
(* is in its slot.                                                          *)
Published == \A r \in Records : table[r].slot # NoSlot => memory[table[r].slot] = r
Arrived ==
  \A c \in Channels : Alive /\ chan[c].op # NoOp /\ chan[c].read = "ok" =>
    memory[op[chan[c].op].slot] = op[chan[c].op].rec

(* Who waits for a read has planned it, and counts the reads that list it;  *)
(* the abort drops the reads one by one and fails their waiters at once.    *)
ListedBy(c) == {o \in Ops : c \in op[o].waiters}
Listed ==
  /\ \A o \in Ops : ~op[o].inUse => op[o].waiters = {}
  /\ \A o \in Ops : op[o].retry => op[o].origin = "demand"
Counted ==
  disp.pc \notin {"abort", "exited"} =>
    \A c \in Clients : /\ client[c].deps = Cardinality(ListedBy(c))
                       /\ client[c].pc # "planned" => ListedBy(c) = {}

(* An intent names an expert, and the cursor is at one of them.             *)
IntentsNamed ==
  /\ \A i \in DOMAIN intents : intents[i].ids # <<>>
  /\ cursor # <<>> => cursor.rank \in 1 .. Len(cursor.it.ids)

CommandsQueued ==
  \A c \in Clients : client[c].pc \in {"queued", "releasing"} =>
    \E i \in DOMAIN cmdQ : cmdQ[i] = c

(* A guess is in the submit queue only between its admission and the pump   *)
(* that follows at once: the queue was empty and a channel free.            *)
GuessFresh ==
  /\ disp.pc = "admit" => submitQ = <<>> \/ Busy = Channels
  /\ disp.pc = "pumpIssued" => submitQ = <<>> \/ (Len(submitQ) = 1 /\ Busy # Channels)
  /\ \A i \in DOMAIN submitQ : op[submitQ[i]].origin = "prefetch" =>
       disp.pc = "pumpIssued" /\ op[submitQ[i]].waiters = {}

(* What the tail of the last turns knows, and what is left when it is over. *)
Quiet == cmdQ = <<>> /\ submitQ = <<>> /\ Planned = {} /\ ~HasRank
TailKnows ==
  /\ life.stop # "no" => life.drained
  /\ disp.stop \in {"no", life.stop}
  /\ disp.pc \in {"cutAdmit", "cancel"} => disp.stop # "no"
  /\ disp.pc = "abort" => life.stop = "abort"
  /\ disp.pc = "exited" => Alive /\ life.stop # "no"
  /\ disp.pc = "cancel" => Quiet
  /\ disp.pc = "exited" /\ life.stop = "graceful" => Quiet /\ Busy = {}

DispatcherInv ==
  /\ TypeOK /\ Indexed /\ Placed /\ Published /\ Arrived
  /\ Listed /\ Counted /\ IntentsNamed /\ CommandsQueued /\ GuessFresh /\ TailKnows

-----------------------------------------------------------------------------
(* Sets that are finite, and the constants' types.                          *)
LEMMA FiniteSlots == IsFiniteSet(Slots) /\ Cardinality(Slots) = NSlots /\ NoOp \notin Ops /\ NoSlot \notin Slots
<1>1. 0 \in Int /\ NSlots - 1 \in Int
  BY NSlotsAssumption
<1>2. IsFiniteSet(0 .. NSlots - 1) /\ Cardinality(0 .. NSlots - 1) = NSlots
  BY <1>1, FS_Interval, NSlotsAssumption
<1> QED
  BY <1>2 DEF Slots, Ops, NoOp, NoSlot

(* A set of pool entries is finite.                                         *)
LEMMA CardOfOps ==
  ASSUME NEW S, S \subseteq Ops
  PROVE  IsFiniteSet(S) /\ Cardinality(S) \in Nat
BY FiniteSlots, FS_Subset, FS_CardinalityType DEF Ops

(* A request names a finite number of places, each one record.              *)
LEMMA RequestType ==
  ASSUME NEW q \in Requests \cup {NoRequest}
  PROVE  /\ q.ids \in Seq(Experts) /\ Len(q.ids) \in Nat
         /\ DOMAIN q.ids = 1 .. Len(q.ids) /\ Wanted(q) \subseteq Records
         /\ \A r \in Wanted(q) : Places(q, r) # {}
<1>1. q.ids \in Seq(Experts) /\ (q.layer \in Layers \/ q.ids = <<>>)
  <2>1. CASE q = NoRequest
    <3>1. q.ids = <<>>
      BY <2>1 DEF NoRequest
    <3> QED
      BY <3>1
  <2>2. CASE q \in Requests
    <3>1. q \in [layer : Layers, ids : Seq(Experts)]
      BY <2>2, DispatcherAssumption
    <3> QED
      BY <3>1
  <2> QED
    BY <2>1, <2>2
<1>2. Len(q.ids) \in Nat /\ DOMAIN q.ids = 1 .. Len(q.ids) /\ q.ids \in [1 .. Len(q.ids) -> Experts]
  BY <1>1, LenProperties
<1>3. Wanted(q) \subseteq Records
  BY <1>1, <1>2 DEF Wanted, Records
<1>4. \A r \in Wanted(q) : Places(q, r) # {}
  BY DEF Wanted, Places
<1> QED
  BY <1>1, <1>2, <1>3, <1>4

(* The lease units a request asks of a record are a number.                 *)
LEMMA UnitsType ==
  ASSUME NEW q \in Requests \cup {NoRequest}, NEW r
  PROVE  Units(q, r) \in Nat
<1>1. Places(q, r) \subseteq 1 .. Len(q.ids)
  BY RequestType DEF Places
<1>2. 1 \in Int /\ Len(q.ids) \in Int
  BY RequestType
<1>3. IsFiniteSet(1 .. Len(q.ids))
  BY ONLY <1>2, FS_Interval
<1> QED
  BY <1>1, <1>3, FS_Subset, FS_CardinalityType DEF Units

(* A set of places that is not empty has a first and a last one.            *)
LEMMA FirstAtType ==
  ASSUME NEW q \in Requests \cup {NoRequest}, NEW r, Places(q, r) # {}
  PROVE  FirstAt(q, r) \in Nat
<1>1. Places(q, r) \subseteq Nat
  BY RequestType DEF Places
<1>2. PICK i \in Places(q, r) : \A j \in Places(q, r) : <<j, i>> \notin OpToRel(<, Nat)
  BY Zenon, <1>1, WFMin, NatLessThanWellFounded
<1>3. \A j \in Places(q, r) : i <= j
  <2> SUFFICES ASSUME NEW j \in Places(q, r) PROVE i <= j
    OBVIOUS
  <2>1. j \in Nat /\ i \in Nat /\ ~(j < i)
    BY <1>1, <1>2 DEF OpToRel
  <2> QED
    BY <2>1
<1> QED
  BY <1>1, <1>3 DEF FirstAt

(* The last place of a record in a request is a number.                     *)
LEMMA LastAtType ==
  ASSUME NEW q \in Requests \cup {NoRequest}, NEW r, Places(q, r) # {}
  PROVE  LastAt(q, r) \in Nat
<1>1. Places(q, r) \subseteq 1 .. Len(q.ids) /\ Len(q.ids) \in Nat
  BY RequestType DEF Places
<1> DEFINE T == {Len(q.ids) - i : i \in Places(q, r)}
<1>2. T \subseteq Nat /\ T # {}
  BY <1>1
<1>3. PICK t \in T : \A u \in T : <<u, t>> \notin OpToRel(<, Nat)
  BY Zenon, <1>2, WFMin, NatLessThanWellFounded
<1>4. PICK i \in Places(q, r) : t = Len(q.ids) - i
  OBVIOUS
<1>5. \A j \in Places(q, r) : j <= i
  <2> SUFFICES ASSUME NEW j \in Places(q, r) PROVE j <= i
    OBVIOUS
  <2>1. Len(q.ids) - j \in T
    OBVIOUS
  <2>2. ~(Len(q.ids) - j < Len(q.ids) - i)
    BY <1>2, <1>3, <1>4, <2>1 DEF OpToRel
  <2> QED
    BY <1>1, <2>2
<1> QED
  BY <1>1, <1>5 DEF LastAt

(* The initial state satisfies the invariant.                               *)
LEMMA DispatcherInit == Init => DispatcherInv
<1> SUFFICES ASSUME Init PROVE DispatcherInv
  OBVIOUS
<1> USE DEF Init, CacheInit
<1>1. TypeOK
  <2>1. CacheTypeOK
    BY DEF CacheTypeOK, SlotType, EntryType, EmptySlot, Class, NoPf
  <2>2. op \in [Ops -> OpType]
    BY DEF OpType, NullOp, NoPf
  <2>3. client \in [Clients -> ClientType]
    BY DEF ClientType, IdleClient
  <2>4. /\ byRec \in [Records -> Ops \cup {NoOp}] /\ pinned \in [Slots -> BOOLEAN]
        /\ submitQ \in Seq(Ops) /\ memory \in [Slots -> Records \cup {NoRec}]
        /\ chan \in [Channels -> [op : Ops \cup {NoOp},
                                 read : {"none", "reading", "ok", "short", "error"}]]
    BY DEF IdleChannel
  <2>5. /\ cmdQ \in Seq(Clients) /\ intents \in Seq(IntentType)
        /\ cursor \in {<<>>} \cup [it : IntentType, rank : Nat \ {0}]
        /\ served \in [Layers -> Nat] /\ curGraph \in Nat /\ graph \in Nat
    OBVIOUS
  <2>6. /\ life \in [cut : BOOLEAN, drained : BOOLEAN, stop : {"no", "graceful", "abort"}]
        /\ disp \in [pc : TurnPc, chan : Nat, deferred : BOOLEAN,
                    stop : {"no", "graceful", "abort"}]
        /\ count \in [acquires : Nat, intents : Nat]
        /\ fatal \in {"none", "io", "pool", "cancel"}
    BY DEF TurnPc
  <2> QED
    BY <2>1, <2>2, <2>3, <2>4, <2>5, <2>6 DEF TypeOK
<1>2. Used = {}
  BY DEF Used, NullOp
<1>3. Indexed
  BY <1>2 DEF Indexed, OpsExact, RecsExact, PinsExact, TableExact
<1>4. Placed /\ Published /\ Arrived
  BY <1>2 DEF Placed, PlacedIn, Published, Arrived, IdleChannel
<1>5. Listed /\ IntentsNamed /\ CommandsQueued /\ GuessFresh
  BY DEF Listed, NullOp, IntentsNamed, CommandsQueued, IdleClient, GuessFresh
<1>6. \A c \in Clients : ListedBy(c) = {}
  BY DEF ListedBy, NullOp
<1>7. Counted
  BY <1>6, FS_EmptySet DEF Counted, IdleClient
<1>8. TailKnows
  BY DEF TailKnows
<1> QED
  BY <1>1, <1>3, <1>4, <1>5, <1>7, <1>8 DEF DispatcherInv
-----------------------------------------------------------------------------
(* Moving a read from one place to another.                                 *)
LEMMA TakenFromQueue ==
  ASSUME NEW U, NEW q \in Seq(Ops), NEW ch, PlacedIn(U, q, ch), q # <<>>
  PROVE  /\ Head(q) \in U /\ Head(q) \in Ops /\ Tail(q) \in Seq(Ops) /\ Head(q) = q[1]
         /\ 1 \in DOMAIN q
         /\ \A i \in DOMAIN Tail(q) : i + 1 \in DOMAIN q /\ Tail(q)[i] = q[i + 1]
         /\ \A i \in DOMAIN Tail(q) : Tail(q)[i] # Head(q)
         /\ \A c \in Channels : ch[c].op # Head(q)
         /\ PlacedIn(U \ {Head(q)}, Tail(q), ch)
<1>1. /\ Head(q) \in Ops /\ Tail(q) \in Seq(Ops) /\ Head(q) = q[1] /\ 1 \in DOMAIN q
      /\ \A i \in DOMAIN Tail(q) : i + 1 \in DOMAIN q /\ Tail(q)[i] = q[i + 1] /\ i + 1 # 1
      /\ \A i \in DOMAIN q : i # 1 => i - 1 \in DOMAIN Tail(q) /\ Tail(q)[i - 1] = q[i]
      /\ \A i, j \in DOMAIN Tail(q) : i + 1 = j + 1 => i = j
  OBVIOUS
<1>2. \A i \in DOMAIN Tail(q) : Tail(q)[i] # Head(q)
  BY <1>1 DEF PlacedIn
<1>3. PlacedIn(U \ {Head(q)}, Tail(q), ch)
  <2>1. /\ \A i, j \in DOMAIN Tail(q) : Tail(q)[i] = Tail(q)[j] => i = j
        /\ \A i \in DOMAIN Tail(q) : Tail(q)[i] \in U \ {Head(q)}
    BY <1>1, <1>2 DEF PlacedIn
  <2>2. /\ \A c \in Channels : ch[c].op # NoOp => ch[c].op \in U \ {Head(q)}
        /\ \A i \in DOMAIN Tail(q), c \in Channels : ch[c].op # Tail(q)[i]
    BY <1>1 DEF PlacedIn
  <2>3. ASSUME NEW o \in U \ {Head(q)}
        PROVE  (\E i \in DOMAIN Tail(q) : Tail(q)[i] = o) \/ (\E c \in Channels : ch[c].op = o)
    <3>1. CASE \E i \in DOMAIN q : q[i] = o
      BY Zenon, <1>1, <3>1
    <3>2. CASE \E c \in Channels : ch[c].op = o
      BY <3>2
    <3> QED
      BY <3>1, <3>2 DEF PlacedIn
  <2> QED
    BY <2>1, <2>2, <2>3 DEF PlacedIn
<1> QED
  BY <1>1, <1>2, <1>3 DEF PlacedIn

(* A read that leaves its channel is in no other place, and the other reads *)
(* stay where they are.                                                     *)
LEMMA TakenFromChannel ==
  ASSUME NEW U, NEW q, NEW ch, NEW ch2, NEW c \in Channels, PlacedIn(U, q, ch),
         ch[c].op # NoOp, ch2[c].op = NoOp, NoOp \notin U,
         \A d \in Channels \ {c} : ch2[d] = ch[d]
  PROVE  /\ ch[c].op \in U /\ \A i \in DOMAIN q : q[i] # ch[c].op
         /\ \A d \in Channels \ {c} : ch[d].op # ch[c].op
         /\ PlacedIn(U \ {ch[c].op}, q, ch2)
BY DEF PlacedIn

(* A new read at the end of the submit queue is in one place.               *)
LEMMA PutInQueue ==
  ASSUME NEW U, NEW q \in Seq(Ops), NEW ch, NEW o \in Ops, PlacedIn(U, q, ch), o \notin U,
         o # NoOp
  PROVE  /\ Append(q, o) \in Seq(Ops)
         /\ \A i \in DOMAIN Append(q, o) : Append(q, o)[i] = o \/ (i \in DOMAIN q /\ Append(q, o)[i] = q[i])
         /\ PlacedIn(U \cup {o}, Append(q, o), ch)
<1>1. /\ Append(q, o) \in Seq(Ops)
      /\ DOMAIN Append(q, o) = DOMAIN q \cup {Len(q) + 1} /\ Len(q) + 1 \notin DOMAIN q
      /\ Append(q, o)[Len(q) + 1] = o
      /\ \A i \in DOMAIN q : Append(q, o)[i] = q[i]
  OBVIOUS
<1>2. PlacedIn(U \cup {o}, Append(q, o), ch)
  BY <1>1 DEF PlacedIn
<1> QED
  BY <1>1, <1>2

(* A read that no place holds is put on a free channel.                     *)
LEMMA PutOnChannel ==
  ASSUME NEW U, NEW q, NEW ch, NEW ch2, NEW c \in Channels, NEW o, PlacedIn(U, q, ch),
         ch[c].op = NoOp, ch2[c].op = o, o \notin U, o # NoOp, NoOp \notin U,
         \A d \in Channels \ {c} : ch2[d] = ch[d]
  PROVE  PlacedIn(U \cup {o}, q, ch2)
<1>1. \A d \in Channels : ch[d].op # o
  BY DEF PlacedIn
<1>2. \A i \in DOMAIN q : q[i] # o
  BY DEF PlacedIn
<1>3. \A i \in DOMAIN q, d \in Channels : ch2[d].op # q[i]
  BY <1>2 DEF PlacedIn
<1>4. \A d, e \in Channels : ch2[d].op # NoOp /\ ch2[d].op = ch2[e].op => d = e
  BY <1>1 DEF PlacedIn
<1>5. ASSUME NEW p \in U \cup {o}
      PROVE  (\E i \in DOMAIN q : q[i] = p) \/ (\E d \in Channels : ch2[d].op = p)
  <2>1. CASE p = o
    BY <2>1
  <2>2. CASE \E i \in DOMAIN q : q[i] = p
    BY <2>2
  <2>3. CASE \E d \in Channels : ch[d].op = p /\ p # o
    <3>1. PICK d \in Channels : ch[d].op = p /\ p # o
      BY <2>3
    <3>2. d # c
      BY <3>1, <1>5
    <3> QED
      BY <3>1, <3>2
  <2> QED
    BY <2>1, <2>2, <2>3 DEF PlacedIn
<1>6. /\ \A i, j \in DOMAIN q : q[i] = q[j] => i = j
      /\ \A i \in DOMAIN q : q[i] \in U \cup {o}
      /\ \A d \in Channels : ch2[d].op # NoOp => ch2[d].op \in U \cup {o}
  BY DEF PlacedIn
<1> QED
  BY <1>3, <1>4, <1>5, <1>6 DEF PlacedIn

(* The reads of a plan, in order, at the end of the submit queue.           *)
LEMMA PutManyInQueue ==
  ASSUME NEW U, NEW q \in Seq(Ops), NEW ch, PlacedIn(U, q, ch), NoOp \notin Ops,
         NEW o \in Seq(Ops),
         \A k \in DOMAIN o : o[k] \notin U,
         \A j, k \in DOMAIN o : o[j] = o[k] => j = k,
         NEW W, U \subseteq W, \A k \in DOMAIN o : o[k] \in W,
         \A p \in W : p \in U \/ \E k \in DOMAIN o : o[k] = p
  PROVE  /\ q \o o \in Seq(Ops)
         /\ \A i \in DOMAIN (q \o o) : \/ i \in DOMAIN q /\ (q \o o)[i] = q[i]
                                       \/ \E k \in DOMAIN o : (q \o o)[i] = o[k]
         /\ PlacedIn(W, q \o o, ch)
<1> DEFINE n == Len(o)
<1>0. Len(o) = n
  OBVIOUS
<1>1. o \in Seq(Ops) /\ n \in Nat /\ DOMAIN o = 1 .. n
  BY LenProperties
<1> HIDE DEF n
<1>2. /\ q \o o \in Seq(Ops) /\ Len(q \o o) = Len(q) + n
      /\ \A i \in 1 .. Len(q) + n : (q \o o)[i] = IF i <= Len(q) THEN q[i] ELSE o[i - Len(q)]
  BY ONLY <1>0, <1>1, q \in Seq(Ops), ConcatProperties
<1>3. DOMAIN (q \o o) = 1 .. Len(q) + n /\ DOMAIN q = 1 .. Len(q) /\ Len(q) \in Nat
  BY <1>2, LenProperties
<1>4. /\ \A i \in DOMAIN q : i \in DOMAIN (q \o o) /\ (q \o o)[i] = q[i]
      /\ \A i \in DOMAIN (q \o o) :
           i \in DOMAIN q \/ (i - Len(q) \in 1 .. n /\ (q \o o)[i] = o[i - Len(q)])
      /\ \A k \in 1 .. n : Len(q) + k \in DOMAIN (q \o o) /\ (q \o o)[Len(q) + k] = o[k]
      /\ \A i, j \in DOMAIN (q \o o) : i - Len(q) = j - Len(q) => i = j
  BY ONLY <1>1, <1>2, <1>3
<1>5. \A i, j \in DOMAIN (q \o o) : (q \o o)[i] = (q \o o)[j] => i = j
  BY <1>1, <1>4 DEF PlacedIn
<1>6. \A p \in U \cup {o[k] : k \in 1 .. n} :
        (\E i \in DOMAIN (q \o o) : (q \o o)[i] = p) \/ (\E c \in Channels : ch[c].op = p)
  <2> SUFFICES ASSUME NEW p \in U \cup {o[k] : k \in 1 .. n}, \A c \in Channels : ch[c].op # p
               PROVE  \E i \in DOMAIN (q \o o) : (q \o o)[i] = p
    OBVIOUS
  <2>1. CASE p \in U
    <3>1. PICK i \in DOMAIN q : q[i] = p
      BY <2>1 DEF PlacedIn
    <3> QED
      BY <1>1, <1>4, <3>1
  <2>2. CASE p \in {o[k] : k \in 1 .. n}
    <3>1. PICK k \in 1 .. n : o[k] = p
      BY <1>1, <2>2
    <3> QED
      BY <1>1, <1>4, <3>1
  <2> QED
    BY <2>1, <2>2
<1>7. \A i \in DOMAIN (q \o o), c \in Channels : ch[c].op # (q \o o)[i]
  <2> SUFFICES ASSUME NEW i \in DOMAIN (q \o o), NEW c \in Channels PROVE ch[c].op # (q \o o)[i]
    OBVIOUS
  <2>1. \A k \in 1 .. n : ch[c].op # o[k]
    BY <1>1 DEF PlacedIn
  <2>2. CASE i \in DOMAIN q
    <3>1. (q \o o)[i] = q[i]
      BY <1>1, <1>4, <2>2
    <3> QED
      BY <2>2, <3>1 DEF PlacedIn
  <2>3. CASE i - Len(q) \in 1 .. n /\ (q \o o)[i] = o[i - Len(q)]
    BY <1>1, <2>1, <2>3
  <2> QED
    BY <1>1, <1>4, <2>2, <2>3
<1>8. \A i \in DOMAIN (q \o o) : (q \o o)[i] \in U \cup {o[k] : k \in 1 .. n}
  BY <1>1, <1>4 DEF PlacedIn
<1>9. PlacedIn(W, q \o o, ch)
  <2>1. W = U \cup {o[k] : k \in 1 .. n}
    BY <1>1
  <2>2. PlacedIn(U \cup {o[k] : k \in 1 .. n}, q \o o, ch)
    BY <1>5, <1>6, <1>7, <1>8 DEF PlacedIn
  <2> QED
    BY ONLY <2>1, <2>2
<1> QED
  BY <1>1, <1>2, <1>4, <1>9

-----------------------------------------------------------------------------
(* Reads in flight have records and slots of their own.                     *)
LEMMA ReadsApart ==
  ASSUME Indexed, NEW o \in Used, NEW p \in Used, o # p
  PROVE  op[o].rec # op[p].rec /\ op[o].slot # op[p].slot
BY DEF Indexed, OpsExact

(* A record of the table never points at the slot of a read in flight.      *)
LEMMA TableElsewhere ==
  ASSUME Indexed, NEW o \in Used, NEW r \in Records
  PROVE  table[r].slot # op[o].slot
<1>1. op[o].slot \in Slots /\ slot[op[o].slot].owner = op[o].rec /\ table[op[o].rec].slot = NoSlot
  BY DEF Indexed, OpsExact
<1>2. op[o].slot # NoSlot
  BY <1>1, FiniteSlots
<1> QED
  BY <1>1, <1>2 DEF Indexed, TableExact

(* A null entry has the type of a read.                                     *)
LEMMA NullOpType == NullOp \in OpType /\ NullOp.inUse = FALSE /\ NullOp.waiters = {}
                    /\ NullOp.origin = "demand" /\ NullOp.retry = FALSE /\ NullOp.mult = 0
BY DEF NullOp, OpType, NoPf

(* What forgetting a read does to the pool and its two indices.             *)
LEMMA Unlinked ==
  ASSUME TypeOK, Indexed, NEW o \in Used, Unlink(o)
  PROVE  /\ op' \in [Ops -> OpType] /\ byRec' \in [Records -> Ops \cup {NoOp}]
         /\ pinned' \in [Slots -> BOOLEAN]
         /\ op'[o] = NullOp /\ \A p \in Ops \ {o} : op'[p] = op[p]
         /\ Used' = Used \ {o}
         /\ \A r \in Records : byRec'[r] = IF r = op[o].rec THEN NoOp ELSE byRec[r]
         /\ \A s \in Slots : pinned'[s] = IF s = op[o].slot THEN FALSE ELSE pinned[s]
<1> USE DEF Unlink
<1>1. o \in Ops /\ op[o].rec \in Records /\ op[o].slot \in Slots /\ byRec[op[o].rec] = o
  BY DEF Used, Indexed, OpsExact
<1>2. op \in [Ops -> OpType] /\ byRec \in [Records -> Ops \cup {NoOp}] /\ pinned \in [Slots -> BOOLEAN]
  BY DEF TypeOK
<1>3. op' \in [Ops -> OpType] /\ op'[o] = NullOp /\ \A p \in Ops \ {o} : op'[p] = op[p]
  BY <1>1, <1>2, NullOpType
<1>4. /\ byRec' \in [Records -> Ops \cup {NoOp}]
      /\ \A r \in Records : byRec'[r] = IF r = op[o].rec THEN NoOp ELSE byRec[r]
  BY <1>1, <1>2
<1>5. /\ pinned' \in [Slots -> BOOLEAN]
      /\ \A s \in Slots : pinned'[s] = IF s = op[o].slot THEN FALSE ELSE pinned[s]
  BY <1>1, <1>2
<1>6. Used' = Used \ {o}
  BY <1>1, <1>3, NullOpType DEF Used
<1> QED
  BY <1>3, <1>4, <1>5, <1>6

(* When a read ends, the indices of the others still agree, whether its     *)
(* record is published in its slot or not.                                  *)
LEMMA IndexedAfterEnd ==
  ASSUME TypeOK, Indexed, NEW o \in Used, Unlink(o),
         \A s \in Slots \ {op[o].slot} : slot'[s] = slot[s],
         \A r \in Records \ {op[o].rec} : table'[r] = table[r],
         \/ table'[op[o].rec] = table[op[o].rec]
         \/ /\ table'[op[o].rec] = [slot |-> op[o].slot, gen |-> op[o].gen]
            /\ slot'[op[o].slot].owner = op[o].rec /\ slot'[op[o].slot].gen = op[o].gen
  PROVE  Indexed'
<1>1. /\ \A p \in Ops \ {o} : op'[p] = op[p]
      /\ Used' = Used \ {o}
      /\ \A r \in Records : byRec'[r] = IF r = op[o].rec THEN NoOp ELSE byRec[r]
      /\ \A s \in Slots : pinned'[s] = IF s = op[o].slot THEN FALSE ELSE pinned[s]
  BY Unlinked
<1>2. /\ o \in Ops /\ op[o].rec \in Records /\ op[o].slot \in Slots
      /\ table[op[o].rec].slot = NoSlot
  BY DEF Used, Indexed, OpsExact
<1>3. OpsExact'
  <2> SUFFICES ASSUME NEW p \in Used \ {o}
               PROVE  /\ op[p].rec \in Records /\ op[p].slot \in Slots
                      /\ byRec'[op[p].rec] = p /\ pinned'[op[p].slot]
                      /\ slot'[op[p].slot].owner = op[p].rec /\ slot'[op[p].slot].gen = op[p].gen
                      /\ slot'[op[p].slot].lease = 0 /\ table'[op[p].rec].slot = NoSlot
    BY <1>1 DEF OpsExact, Used
  <2>1. op[o].rec # op[p].rec /\ op[o].slot # op[p].slot
    BY ReadsApart
  <2>2. /\ op[p].rec \in Records /\ op[p].slot \in Slots
        /\ byRec[op[p].rec] = p /\ pinned[op[p].slot]
        /\ slot[op[p].slot].owner = op[p].rec /\ slot[op[p].slot].gen = op[p].gen
        /\ slot[op[p].slot].lease = 0 /\ table[op[p].rec].slot = NoSlot
    BY DEF Indexed, OpsExact
  <2>3. byRec'[op[p].rec] = p /\ pinned'[op[p].slot]
    BY <1>1, <2>1, <2>2
  <2>4. slot'[op[p].slot] = slot[op[p].slot] /\ table'[op[p].rec] = table[op[p].rec]
    BY <2>1, <2>2
  <2> QED
    BY <2>2, <2>3, <2>4
<1>4. RecsExact'
  BY <1>1, <1>2 DEF Indexed, RecsExact, Used
<1>5. PinsExact'
  <2> SUFFICES ASSUME NEW s \in Slots, pinned'[s] PROVE \E p \in Used' : op'[p].slot = s
    BY DEF PinsExact
  <2>1. s # op[o].slot /\ pinned[s]
    BY <1>1
  <2>2. PICK p \in Used : op[p].slot = s
    BY <2>1 DEF Indexed, PinsExact
  <2> QED
    BY <1>1, <2>1, <2>2 DEF Used
<1>6. TableExact'
  <2> SUFFICES ASSUME NEW r \in Records, table'[r].slot # NoSlot
               PROVE  slot'[table'[r].slot].owner = r /\ slot'[table'[r].slot].gen = table'[r].gen
    BY DEF TableExact
  <2>1. CASE table'[r] = table[r]
    <3>1. table[r].slot \in Slots /\ table[r].slot # op[o].slot
      BY <2>1, TableElsewhere DEF TypeOK, CacheTypeOK, EntryType
    <3> QED
      BY <2>1, <3>1 DEF Indexed, TableExact
  <2>2. CASE r = op[o].rec /\ table'[r] # table[r]
    BY <2>2
  <2> QED
    BY <2>1, <2>2
<1> QED
  BY <1>3, <1>4, <1>5, <1>6 DEF Indexed

(* The fields of a slot that the end of a read writes.                      *)
LEMMA SlotWritten ==
  ASSUME NEW v \in SlotType, NEW l \in Nat, NEW t \in Nat, NEW cl \in Class, NEW pf \in Nat \X Nat
  PROVE  [v EXCEPT !.lease = l, !.lastUsed = t, !.class = cl, !.pf = pf] \in SlotType
BY DEF SlotType

(* A published read: types and indices.                                     *)
LEMMA PublishKeeps ==
  ASSUME TypeOK, Indexed, NEW o \in Used, NEW q, Publish(o, q)
  PROVE  /\ CacheTypeOK' /\ Indexed'
         /\ table'[op[o].rec].slot = op[o].slot
         /\ \A r \in Records \ {op[o].rec} : table'[r] = table[r]
<1> DEFINE x  == op[o]
           cl == IF x.waiters = {} THEN "probation" ELSE "demand"
           pf == IF x.waiters = {} THEN x.pf ELSE NoPf
           v  == [slot[x.slot] EXCEPT !.lease = @ + x.mult, !.lastUsed = x.tick,
                                      !.class = cl, !.pf = pf]
<1>1. /\ o \in Ops /\ x.rec \in Records /\ x.slot \in Slots
      /\ slot[x.slot].owner = x.rec /\ slot[x.slot].gen = x.gen
  BY DEF Used, Indexed, OpsExact
<1>2. slot \in [Slots -> SlotType] /\ table \in [Records -> EntryType] /\ tick \in Nat
  BY DEF TypeOK, CacheTypeOK
<1>3. x.mult \in Nat /\ x.tick \in Nat /\ x.gen \in Nat /\ x.pf \in Nat \X Nat
  BY <1>1 DEF TypeOK, OpType
<1>4. /\ slot' = [slot EXCEPT ![x.slot] = v] /\ Unlink(o) /\ tick' = tick
      /\ table' = [table EXCEPT ![x.rec] = [slot |-> x.slot, gen |-> x.gen]]
  BY Zenon DEF Publish
<1>5. slot[x.slot] \in SlotType
  BY <1>1, <1>2
<1>6. v.owner = x.rec /\ v.gen = x.gen
  BY <1>1, <1>5 DEF SlotType
<1>7. v \in SlotType
  <2>1. slot[x.slot].lease + x.mult \in Nat
    BY <1>3, <1>5 DEF SlotType
  <2>2. cl \in Class
    BY DEF Class
  <2>3. pf \in Nat \X Nat
    BY <1>3 DEF NoPf
  <2> QED
    BY ONLY Zenon, <1>3, <1>5, <2>1, <2>2, <2>3, SlotWritten
<1> HIDE DEF v
<1>8. /\ slot' \in [Slots -> SlotType] /\ \A s \in Slots \ {x.slot} : slot'[s] = slot[s]
      /\ slot'[x.slot].owner = x.rec /\ slot'[x.slot].gen = x.gen
  BY <1>1, <1>2, <1>4, <1>6, <1>7
<1>9. /\ table' \in [Records -> EntryType]
      /\ \A r \in Records \ {x.rec} : table'[r] = table[r]
      /\ table'[x.rec] = [slot |-> x.slot, gen |-> x.gen]
  BY <1>1, <1>2, <1>3, <1>4 DEF EntryType
<1>10. Indexed'
  BY <1>4, <1>8, <1>9, IndexedAfterEnd
<1> QED
  BY <1>2, <1>4, <1>8, <1>9, <1>10 DEF CacheTypeOK

(* A discarded read: types and indices.                                     *)
LEMMA DiscardKeeps ==
  ASSUME TypeOK, Indexed, NEW o \in Used, Unlink(o), UNCHANGED <<table, tick>>,
         slot' = [slot EXCEPT ![op[o].slot].owner = IF @ = op[o].rec THEN NoRec ELSE @,
                              ![op[o].slot].class = "none", ![op[o].slot].pf = NoPf]
  PROVE  CacheTypeOK' /\ Indexed'
<1>1. o \in Ops /\ op[o].slot \in Slots
  BY DEF Used, Indexed, OpsExact
<1>2. slot \in [Slots -> SlotType] /\ table \in [Records -> EntryType] /\ tick \in Nat
  BY <1>1 DEF TypeOK, CacheTypeOK
<1>3. slot' \in [Slots -> SlotType] /\ \A s \in Slots \ {op[o].slot} : slot'[s] = slot[s]
  BY <1>1, <1>2 DEF SlotType, Class, NoPf
<1>4. Indexed'
  BY <1>3, IndexedAfterEnd
<1> QED
  BY <1>2, <1>3, <1>4 DEF CacheTypeOK

(* The fields of a slot and of a read that a retry writes.                  *)
LEMMA SlotReread ==
  ASSUME NEW v \in SlotType
  PROVE  /\ [v EXCEPT !.gen = @ + 1, !.class = "none", !.pf = NoPf] \in SlotType
         /\ [v EXCEPT !.gen = @ + 1, !.class = "none", !.pf = NoPf].gen = v.gen + 1
         /\ [v EXCEPT !.gen = @ + 1, !.class = "none", !.pf = NoPf].owner = v.owner
         /\ [v EXCEPT !.gen = @ + 1, !.class = "none", !.pf = NoPf].lease = v.lease
<1>1. v.gen + 1 \in Nat
  BY DEF SlotType
<1>2. "none" \in Class /\ NoPf \in Nat \X Nat
  BY DEF Class, NoPf
<1> QED
  BY <1>1, <1>2 DEF SlotType

(* What the second try of a guess changes of its pool entry.                *)
LEMMA OpReread ==
  ASSUME NEW x \in OpType, NEW g \in Nat
  PROVE  LET y == [x EXCEPT !.gen = g, !.origin = "demand", !.retry = TRUE, !.pf = NoPf]
         IN  /\ y \in OpType /\ y.gen = g /\ y.rec = x.rec /\ y.slot = x.slot
             /\ y.waiters = x.waiters /\ y.origin = "demand" /\ y.inUse = x.inUse /\ y.mult = x.mult
BY DEF OpType, NoPf

(* A read that is tried again: types and indices.                           *)
LEMMA RetryKeeps ==
  ASSUME TypeOK, Indexed, NEW o \in Used, NEW n \in Ops, Entry(n),
         slot' = [slot EXCEPT ![op[o].slot].gen = @ + 1,
                              ![op[o].slot].class = "none", ![op[o].slot].pf = NoPf],
         op' = [op EXCEPT ![o] = NullOp, ![n] = Reread(op[o])],
         byRec' = [byRec EXCEPT ![op[o].rec] = n],
         UNCHANGED <<table, tick, pinned>>
  PROVE  /\ CacheTypeOK' /\ op' \in [Ops -> OpType] /\ byRec' \in [Records -> Ops \cup {NoOp}]
         /\ Indexed'
         /\ n \notin Used /\ Used' = (Used \ {o}) \cup {n}
         /\ op'[o] = NullOp /\ \A p \in Ops \ {o, n} : op'[p] = op[p]
         /\ op'[n].waiters = op[o].waiters /\ op'[n].origin = "demand"
<1> DEFINE x == op[o]
<1>1. /\ o \in Ops /\ x.rec \in Records /\ x.slot \in Slots /\ x.inUse
      /\ byRec[x.rec] = o /\ pinned[x.slot] /\ slot[x.slot].owner = x.rec
      /\ slot[x.slot].lease = 0 /\ table[x.rec].slot = NoSlot
  BY DEF Used, Indexed, OpsExact
<1>2. /\ slot \in [Slots -> SlotType] /\ table \in [Records -> EntryType] /\ tick \in Nat
      /\ op \in [Ops -> OpType] /\ byRec \in [Records -> Ops \cup {NoOp}]
  BY DEF TypeOK, CacheTypeOK
<1>3. n \notin Used /\ n # o /\ n # NoOp
  BY FiniteSlots DEF Entry, FreeOps, Used
<1>4. /\ slot' \in [Slots -> SlotType] /\ \A s \in Slots \ {x.slot} : slot'[s] = slot[s]
      /\ slot'[x.slot].owner = x.rec /\ slot'[x.slot].lease = 0
      /\ slot'[x.slot].gen = slot[x.slot].gen + 1 /\ slot[x.slot].gen + 1 \in Nat
  <2> DEFINE v == [slot[x.slot] EXCEPT !.gen = @ + 1, !.class = "none", !.pf = NoPf]
  <2>1. slot[x.slot] \in SlotType
    BY <1>1, <1>2
  <2>2. /\ v \in SlotType /\ v.gen = slot[x.slot].gen + 1 /\ v.owner = x.rec /\ v.lease = 0
        /\ v.gen \in Nat
    <3>1. /\ v \in SlotType /\ v.gen = slot[x.slot].gen + 1
          /\ v.owner = slot[x.slot].owner /\ v.lease = slot[x.slot].lease
      BY ONLY Zenon, <2>1, SlotReread
    <3>2. v.gen \in Nat
      BY ONLY <3>1 DEF SlotType
    <3> QED
      BY <1>1, <3>1, <3>2
  <2>3. slot' = [slot EXCEPT ![x.slot] = v]
    OBVIOUS
  <2> HIDE DEF v
  <2> QED
    BY <1>1, <1>2, <2>2, <2>3
<1>5. /\ Reread(x) \in OpType /\ Reread(x).gen = slot[x.slot].gen + 1 /\ Reread(x).rec = x.rec
      /\ Reread(x).slot = x.slot /\ Reread(x).waiters = x.waiters /\ Reread(x).origin = "demand"
      /\ Reread(x).inUse
  <2>1. x \in OpType
    BY <1>1, <1>2
  <2>2. slot[x.slot].gen + 1 \in Nat
    BY <1>4
  <2> HIDE DEF x
  <2>3. /\ Reread(x) \in OpType /\ Reread(x).gen = slot[x.slot].gen + 1 /\ Reread(x).rec = x.rec
        /\ Reread(x).slot = x.slot /\ Reread(x).waiters = x.waiters /\ Reread(x).origin = "demand"
        /\ Reread(x).inUse = x.inUse
    BY ONLY Zenon, <2>1, <2>2, OpReread DEF Reread
  <2> QED
    BY <1>1, <2>3
<1>6. /\ op' \in [Ops -> OpType] /\ op'[o] = NullOp /\ op'[n] = Reread(x)
      /\ \A p \in Ops \ {o, n} : op'[p] = op[p]
  BY <1>1, <1>2, <1>3, <1>5, NullOpType
<1>7. /\ byRec' \in [Records -> Ops \cup {NoOp}]
      /\ \A r \in Records : byRec'[r] = IF r = x.rec THEN n ELSE byRec[r]
  BY <1>1, <1>2
<1>8. Used' = (Used \ {o}) \cup {n}
  BY <1>1, <1>3, <1>5, <1>6, NullOpType DEF Used
<1>9. OpsExact'
  <2> SUFFICES ASSUME NEW p \in Used'
               PROVE  /\ op'[p].rec \in Records /\ op'[p].slot \in Slots
                      /\ byRec'[op'[p].rec] = p /\ pinned[op'[p].slot]
                      /\ slot'[op'[p].slot].owner = op'[p].rec /\ slot'[op'[p].slot].gen = op'[p].gen
                      /\ slot'[op'[p].slot].lease = 0 /\ table[op'[p].rec].slot = NoSlot
    BY DEF OpsExact
  <2>1. CASE p = n
    BY <1>1, <1>4, <1>5, <1>6, <1>7, <2>1
  <2>2. CASE p # n
    <3>1. p \in Used /\ p # o /\ p \in Ops
      BY <1>8, <2>2 DEF Used
    <3>2. op[o].rec # op[p].rec /\ op[o].slot # op[p].slot
      BY <3>1, ReadsApart
    <3>3. /\ op[p].rec \in Records /\ op[p].slot \in Slots
          /\ byRec[op[p].rec] = p /\ pinned[op[p].slot]
          /\ slot[op[p].slot].owner = op[p].rec /\ slot[op[p].slot].gen = op[p].gen
          /\ slot[op[p].slot].lease = 0 /\ table[op[p].rec].slot = NoSlot
      BY <3>1 DEF Indexed, OpsExact
    <3>4. op'[p] = op[p]
      BY <1>6, <2>2, <3>1
    <3>5. byRec'[op[p].rec] = p /\ slot'[op[p].slot] = slot[op[p].slot]
      BY <1>4, <1>7, <3>2, <3>3
    <3> QED
      BY <3>3, <3>4, <3>5
  <2> QED
    BY <2>1, <2>2
<1>10. RecsExact'
  <2> SUFFICES ASSUME NEW r \in Records, byRec'[r] # NoOp
               PROVE  byRec'[r] \in Used' /\ op'[byRec'[r]].rec = r
    BY DEF RecsExact
  <2>1. CASE r = x.rec
    BY <1>5, <1>6, <1>7, <1>8, <2>1
  <2>2. CASE r # x.rec
    <3>1. byRec'[r] = byRec[r] /\ byRec[r] \in Used /\ op[byRec[r]].rec = r
      BY <1>7, <2>2 DEF Indexed, RecsExact
    <3>2. byRec[r] # o /\ byRec[r] # n /\ byRec[r] \in Ops
      BY <1>3, <2>2, <3>1 DEF Used
    <3> QED
      BY <1>6, <1>8, <3>1, <3>2
  <2> QED
    BY <2>1, <2>2
<1>11. PinsExact'
  <2> SUFFICES ASSUME NEW s \in Slots, pinned[s] PROVE \E p \in Used' : op'[p].slot = s
    BY DEF PinsExact
  <2>1. PICK p \in Used : op[p].slot = s
    BY DEF Indexed, PinsExact
  <2>2. CASE p = o
    BY <1>5, <1>6, <1>8, <2>1, <2>2
  <2>3. CASE p # o
    BY <1>3, <1>6, <1>8, <2>1, <2>3 DEF Used
  <2> QED
    BY <2>2, <2>3
<1>12. TableExact'
  <2> SUFFICES ASSUME NEW r \in Records, table[r].slot # NoSlot
               PROVE  slot'[table[r].slot].owner = r /\ slot'[table[r].slot].gen = table[r].gen
    BY DEF TableExact
  <2>1. table[r].slot \in Slots /\ table[r].slot # x.slot
    BY <1>2, TableElsewhere DEF EntryType
  <2> QED
    BY <1>4, <2>1 DEF Indexed, TableExact
<1>13. CacheTypeOK'
  BY <1>2, <1>4 DEF CacheTypeOK
<1> QED
  BY <1>3, <1>5, <1>6, <1>7, <1>8, <1>9, <1>10, <1>11, <1>12, <1>13 DEF Indexed

-----------------------------------------------------------------------------
(* The end of one read, whoever found it: Ended says what the callers of    *)
(* Publish, Retry, Discard and Die have in common, o being out of its place *)
(* already.                                                                 *)
RetryWith(o, n, q) ==
  /\ Entry(n)
  /\ slot' = [slot EXCEPT ![op[o].slot].gen = @ + 1,
                          ![op[o].slot].class = "none", ![op[o].slot].pf = NoPf]
  /\ op' = [op EXCEPT ![o] = NullOp, ![n] = Reread(op[o])]
  /\ byRec' = [byRec EXCEPT ![op[o].rec] = n]
  /\ submitQ' = Append(q, n)
  /\ UNCHANGED <<table, tick, pinned, client, fatal>>

DiscardWith(o, q) ==
  /\ slot' = [slot EXCEPT ![op[o].slot].owner = IF @ = op[o].rec THEN NoRec ELSE @,
                          ![op[o].slot].class = "none", ![op[o].slot].pf = NoPf]
  /\ Unlink(o)
  /\ submitQ' = q
  /\ UNCHANGED <<table, tick, fatal>>

Forgotten(o, q) ==
  \/ Publish(o, q) /\ memory'[op[o].slot] = op[o].rec /\ disp.pc \notin {"abort", "exited"}
  \/ op[o].waiters = {} /\ DiscardWith(o, q) /\ client' = client
  \/ disp.pc = "abort" /\ Discard(o, q)

Ended(o, q) ==
  \/ Forgotten(o, q)
  \/ \E why \in {"io", "pool", "cancel"} : Die(why, q)
  \/ op[o].waiters # {} /\ \E n \in Ops : RetryWith(o, n, q)

(* A read that ended was in flight, and is in no place any more.            *)
Frame(o, q) ==
  /\ o \in Used /\ q \in Seq(Ops) /\ PlacedIn(Used \ {o}, q, chan')
  /\ \A i \in DOMAIN q : \E j \in DOMAIN submitQ : q[i] = submitQ[j]
  /\ \A c \in Channels : chan'[c].op # NoOp => chan'[c] = chan[c]
  /\ \A s \in Slots \ {op[o].slot} : memory'[s] = memory[s]
  /\ disp'.pc = disp.pc /\ cmdQ' = cmdQ

(* The outcomes of a read that was not cancelled are among those of Ended.  *)
LEMMA TerminalEnds ==
  ASSUME TypeOK, Listed, NEW o \in Used, NEW result, NEW q, Terminal(o, result, q),
         result = "ok" => memory'[op[o].slot] = op[o].rec,
         disp.pc \notin {"abort", "exited"}
  PROVE  Ended(o, q)
<1>1. o \in Ops /\ op[o].origin \in {"demand", "prefetch"} /\ op[o].waiters \subseteq Clients
  BY DEF TypeOK, OpType, Used
<1>2. CASE result = "ok"
  BY <1>2 DEF Terminal, Forgotten, Ended
<1>3. CASE result # "ok" /\ op[o].origin = "demand"
  <2>1. Die("io", q)
    BY <1>3 DEF Terminal
  <2> QED
    BY <2>1 DEF Ended
<1>4. CASE result # "ok" /\ op[o].origin = "prefetch" /\ op[o].waiters # {} /\ ~op[o].retry
  <2>1. Retry(o, q)
    BY <1>4 DEF Terminal
  <2> QED
    BY <1>4, <2>1 DEF Retry, RetryWith, Ended
<1>5. CASE result # "ok" /\ op[o].origin = "prefetch" /\ (op[o].waiters = {} \/ op[o].retry)
  <2>1. ~op[o].retry
    BY <1>1, <1>5 DEF Listed
  <2>2. op[o].waiters = {}
    BY <1>5, <2>1
  <2>3. Discard(o, q)
    BY <1>5, <2>2 DEF Terminal
  <2>4. client' = client
    BY <2>2, <2>3 DEF Discard, TypeOK
  <2> QED
    BY <2>2, <2>3, <2>4 DEF Ended, Forgotten, Discard, DiscardWith
<1> QED
  BY <1>1, <1>2, <1>3, <1>4, <1>5

(* The types after the end of a read, but for those the callers write.      *)
LEMMA EndTypes ==
  ASSUME DispatcherInv, NEW o, NEW q, Frame(o, q), Ended(o, q)
  PROVE  /\ CacheTypeOK' /\ op' \in [Ops -> OpType] /\ byRec' \in [Records -> Ops \cup {NoOp}]
         /\ pinned' \in [Slots -> BOOLEAN] /\ submitQ' \in Seq(Ops) /\ Indexed'
         /\ fatal' \in {"none", "io", "pool", "cancel"}
<1> USE DEF DispatcherInv, Frame
<1>1. CASE Publish(o, q)
  <2>1. CacheTypeOK' /\ Indexed'
    BY <1>1, PublishKeeps
  <2>2. Unlink(o) /\ submitQ' = q /\ fatal' = fatal
    BY Zenon, <1>1 DEF Publish
  <2> QED
    BY <2>1, <2>2, Unlinked DEF TypeOK
<1>2. ASSUME NEW why \in {"io", "pool", "cancel"}, Die(why, q)
      PROVE  /\ CacheTypeOK' /\ op' \in [Ops -> OpType] /\ byRec' \in [Records -> Ops \cup {NoOp}]
             /\ pinned' \in [Slots -> BOOLEAN] /\ submitQ' \in Seq(Ops) /\ Indexed'
             /\ fatal' \in {"none", "io", "pool", "cancel"}
  <2>1. UNCHANGED <<slot, table, tick, op, byRec, pinned>> /\ submitQ' = q /\ fatal' = why
    BY <1>2 DEF Die
  <2>2. Indexed'
    BY <2>1 DEF Indexed, OpsExact, RecsExact, PinsExact, TableExact, Used
  <2> QED
    BY <2>1, <2>2 DEF TypeOK, CacheTypeOK
<1>3. ASSUME NEW n \in Ops, RetryWith(o, n, q)
      PROVE  /\ CacheTypeOK' /\ op' \in [Ops -> OpType] /\ byRec' \in [Records -> Ops \cup {NoOp}]
             /\ pinned' \in [Slots -> BOOLEAN] /\ submitQ' \in Seq(Ops) /\ Indexed'
             /\ fatal' \in {"none", "io", "pool", "cancel"}
  <2>1. /\ CacheTypeOK' /\ op' \in [Ops -> OpType] /\ byRec' \in [Records -> Ops \cup {NoOp}]
        /\ Indexed'
    BY <1>3, RetryKeeps DEF RetryWith
  <2>2. submitQ' = Append(q, n) /\ pinned' = pinned /\ fatal' = fatal
    BY <1>3 DEF RetryWith
  <2>3. Append(q, n) \in Seq(Ops)
    OBVIOUS
  <2> QED
    BY <2>1, <2>2, <2>3 DEF TypeOK
<1>4. CASE DiscardWith(o, q)
  <2>1. CacheTypeOK' /\ Indexed'
    BY <1>4, DiscardKeeps DEF DiscardWith
  <2> QED
    BY Zenon, <1>4, <2>1, Unlinked DEF DiscardWith, TypeOK
<1>5. CASE Discard(o, q)
  BY <1>4, <1>5 DEF Discard, DiscardWith
<1> QED
  BY <1>1, <1>2, <1>3, <1>4, <1>5 DEF Ended, Forgotten

(* What the end of a read does to the pool: the process dies, or the entry  *)
(* is null again, and at most one other, free until then, has its waiters.  *)
Dead(o, q)     == fatal' # "none" /\ submitQ' = q /\ UNCHANGED <<table, op, client>>
Gone(o, q)     == /\ op'[o] = NullOp /\ \A p \in Ops \ {o} : op'[p] = op[p]
                  /\ Used' = Used \ {o} /\ submitQ' = q
Moved(o, n, q) == /\ op'[o] = NullOp /\ \A p \in Ops \ {o, n} : op'[p] = op[p]
                  /\ op'[n].waiters = op[o].waiters /\ op'[n].origin = "demand"
                  /\ Used' = (Used \ {o}) \cup {n} /\ submitQ' = Append(q, n)
                  /\ op[o].waiters # {} /\ UNCHANGED <<table, client>>

(* A read that ends leaves the indices agreeing, in each of the three ways  *)
(* it may end.                                                              *)
LEMMA EndPool ==
  ASSUME DispatcherInv, NEW o, NEW q, Frame(o, q), Ended(o, q)
  PROVE  \/ Dead(o, q)
         \/ Gone(o, q) /\ Forgotten(o, q)
         \/ \E n \in Ops \ Used : Moved(o, n, q)
<1> USE DEF DispatcherInv, Frame
<1>1. CASE Forgotten(o, q)
  <2>1. Unlink(o) /\ submitQ' = q
    BY <1>1 DEF Forgotten, Publish, Discard, DiscardWith
  <2> QED
    BY Zenon, <1>1, <2>1, Unlinked DEF Gone
<1>2. CASE \E why \in {"io", "pool", "cancel"} : Die(why, q)
  BY <1>2 DEF Die, Dead
<1>3. ASSUME NEW n \in Ops, RetryWith(o, n, q), op[o].waiters # {}
      PROVE  n \notin Used /\ Moved(o, n, q)
  <2>1. /\ n \notin Used /\ Used' = (Used \ {o}) \cup {n} /\ op'[o] = NullOp
        /\ \A p \in Ops \ {o, n} : op'[p] = op[p]
        /\ op'[n].waiters = op[o].waiters /\ op'[n].origin = "demand"
    BY <1>3, RetryKeeps DEF RetryWith
  <2> QED
    BY Zenon, <1>3, <2>1 DEF RetryWith, Moved
<1> QED
  BY <1>1, <1>2, <1>3 DEF Ended

(* The reads that are left are each in one place.                           *)
LEMMA EndPlaced ==
  ASSUME DispatcherInv, NEW o, NEW q, Frame(o, q), Ended(o, q)
  PROVE  Placed'
<1> USE DEF DispatcherInv, Frame
<1>1. CASE Dead(o, q)
  BY <1>1 DEF Dead, Placed, Alive
<1>2. CASE Gone(o, q)
  BY <1>2 DEF Gone, Placed
<1>3. ASSUME NEW n \in Ops \ Used, Moved(o, n, q) PROVE Placed'
  <2>1. n # NoOp /\ n \notin Used \ {o} /\ PlacedIn(Used \ {o}, q, chan')
    BY <1>3, FiniteSlots
  <2>2. PlacedIn((Used \ {o}) \cup {n}, Append(q, n), chan')
    BY <2>1, PutInQueue
  <2> QED
    BY <1>3, <2>2 DEF Moved, Placed
<1> QED
  BY <1>1, <1>2, <1>3, EndPool

(* Published records are in their slots, and so is what the channels read.  *)
LEMMA EndBytes ==
  ASSUME DispatcherInv, NEW o, NEW q, Frame(o, q), Ended(o, q)
  PROVE  Published' /\ Arrived'
<1> USE DEF DispatcherInv, Frame
<1>1. /\ \A r \in Records : table[r].slot # op[o].slot
      /\ o \in Ops /\ op[o].rec \in Records /\ op[o].slot \in Slots
      /\ table \in [Records -> EntryType]
  BY TableElsewhere DEF Used, Indexed, OpsExact, TypeOK, CacheTypeOK
<1>2. \A r \in Records : table[r].slot # NoSlot => memory'[table[r].slot] = r
  <2> SUFFICES ASSUME NEW r \in Records, table[r].slot # NoSlot
               PROVE  memory'[table[r].slot] = r
    OBVIOUS
  <2>1. table[r].slot \in Slots \ {op[o].slot}
    BY <1>1 DEF EntryType
  <2> QED
    BY <2>1 DEF Published
<1>3. Published'
  <2>1. CASE table' = table
    BY <1>2, <2>1 DEF Published
  <2>2. CASE Publish(o, q) /\ memory'[op[o].slot] = op[o].rec
    <3>1. /\ table'[op[o].rec].slot = op[o].slot
          /\ \A r \in Records \ {op[o].rec} : table'[r] = table[r]
      BY <2>2, PublishKeeps
    <3> QED
      BY <1>2, <2>2, <3>1 DEF Published
  <2> QED
    BY <2>1, <2>2 DEF Ended, Forgotten, Die, RetryWith, DiscardWith, Discard
<1>4. Arrived'
  <2> SUFFICES ASSUME NEW c \in Channels, Alive', chan'[c].op # NoOp, chan'[c].read = "ok"
               PROVE  memory'[op'[chan'[c].op].slot] = op'[chan'[c].op].rec
    BY DEF Arrived
  <2> DEFINE p == chan[c].op
  <2>1. chan'[c] = chan[c] /\ p \in Used \ {o} /\ p \in Ops
    BY DEF PlacedIn, Used
  <2>2. Alive
    BY DEF Ended, Forgotten, Publish, Die, RetryWith, DiscardWith, Discard, Alive
  <2>3. memory[op[p].slot] = op[p].rec
    BY <2>1, <2>2 DEF Arrived
  <2>4. op[p].slot \in Slots \ {op[o].slot}
    BY <2>1, ReadsApart DEF Indexed, OpsExact
  <2>5. op'[p] = op[p]
    <3>1. CASE Gone(o, q)
      BY <2>1, <3>1 DEF Gone
    <3>2. ASSUME NEW n \in Ops \ Used, Moved(o, n, q) PROVE op'[p] = op[p]
      BY <2>1, <3>2 DEF Moved
    <3>3. CASE Dead(o, q)
      BY <3>3 DEF Dead, Alive
    <3> QED
      BY <3>1, <3>2, <3>3, EndPool
  <2> QED
    BY <2>1, <2>3, <2>4, <2>5
<1> QED
  BY <1>3, <1>4

(* Free entries have no waiters.                                            *)
LEMMA EndListed ==
  ASSUME DispatcherInv, NEW o, NEW q, Frame(o, q), Ended(o, q)
  PROVE  Listed'
<1> USE DEF DispatcherInv, Frame
<1>1. CASE Dead(o, q)
  BY <1>1 DEF Dead, Listed
<1>2. CASE Gone(o, q)
  BY <1>2, NullOpType DEF Gone, Listed
<1>3. ASSUME NEW n \in Ops \ Used, Moved(o, n, q) PROVE Listed'
  <2>1. op'[n].inUse
    BY <1>3 DEF Moved, Used
  <2> QED
    BY <1>3, <2>1, NullOpType DEF Moved, Listed
<1> QED
  BY <1>1, <1>2, <1>3, EndPool

(* A client that waits for nothing.                                         *)
LEMMA IdleClientType == IdleClient \in ClientType /\ IdleClient.pc = "idle" /\ IdleClient.deps = 0
BY DEF IdleClient, ClientType

(* The commands that waited for the read count one read less, or the same   *)
(* number if it is tried again; the last one lets the command return.       *)
LEMMA EndWaiters ==
  ASSUME DispatcherInv, NEW o, NEW q, Frame(o, q), Ended(o, q)
  PROVE  client' \in [Clients -> ClientType] /\ Counted' /\ CommandsQueued'
<1> USE DEF DispatcherInv, Frame
<1>1. client \in [Clients -> ClientType] /\ o \in Ops
  BY DEF TypeOK, Used
<1>2. CASE Dead(o, q)
  <2>1. op' = op /\ client' = client
    BY <1>2 DEF Dead
  <2>2. \A c \in Clients : ListedBy(c)' = ListedBy(c)
    BY <2>1 DEF ListedBy
  <2> QED
    BY <1>1, <2>1, <2>2 DEF Counted, CommandsQueued
<1>3. ASSUME NEW n \in Ops \ Used, Moved(o, n, q)
      PROVE  client' \in [Clients -> ClientType] /\ Counted' /\ CommandsQueued'
  <2>1. CommandsQueued'
    BY <1>3 DEF Moved, CommandsQueued
  <2>2. ASSUME NEW c \in Clients
        PROVE  /\ Cardinality(ListedBy(c)') = Cardinality(ListedBy(c))
               /\ ListedBy(c) = {} => ListedBy(c)' = {}
    <3>1. n \notin ListedBy(c) /\ n # o
      BY <1>3 DEF ListedBy, Listed, Used
    <3>2. CASE c \in op[o].waiters
      <4>1. ListedBy(c)' = (ListedBy(c) \ {o}) \cup {n} /\ o \in ListedBy(c)
        BY <1>1, <1>3, <3>1, <3>2, NullOpType DEF Moved, ListedBy
      <4>2. IsFiniteSet(ListedBy(c)) /\ Cardinality(ListedBy(c)) \in Nat
        BY CardOfOps DEF ListedBy
      <4>3. /\ IsFiniteSet(ListedBy(c) \ {o})
            /\ Cardinality(ListedBy(c) \ {o}) = Cardinality(ListedBy(c)) - 1
        BY <4>1, <4>2, FS_RemoveElement
      <4>4. Cardinality(ListedBy(c)') = Cardinality(ListedBy(c) \ {o}) + 1
        BY <3>1, <4>1, <4>3, FS_AddElement
      <4> QED
        BY <4>1, <4>2, <4>3, <4>4
    <3>3. CASE c \notin op[o].waiters
      <4>1. ListedBy(c)' = ListedBy(c)
        BY <1>1, <1>3, <3>1, <3>3, NullOpType DEF Moved, ListedBy
      <4> QED
        BY <4>1
    <3> QED
      BY <3>2, <3>3
  <2>3. client' = client
    BY <1>3 DEF Moved
  <2>4. Counted'
    BY <2>2, <2>3 DEF Counted
  <2> QED
    BY <1>1, <2>1, <2>3, <2>4
<1>4. CASE Gone(o, q) /\ Publish(o, q) /\ disp.pc \notin {"abort", "exited"}
  <2> DEFINE x == op[o]
             w(c) == [client[c] EXCEPT !.deps = @ - 1,
                        !.pc = IF client[c].deps = 1 THEN "holding" ELSE @]
  <2>1. client' = [c \in Clients |-> IF c \in x.waiters THEN w(c) ELSE client[c]]
    BY Zenon, <1>4 DEF Publish
  <2>2. \A c \in Clients : ListedBy(c)' = ListedBy(c) \ {o}
    BY <1>1, <1>4, NullOpType DEF Gone, ListedBy
  <2>3. ASSUME NEW c \in Clients, c \in x.waiters
        PROVE  /\ w(c) \in ClientType
               /\ w(c).deps = Cardinality(ListedBy(c)') /\ w(c).deps \in Nat
               /\ w(c).pc = IF client[c].deps = 1 THEN "holding" ELSE client[c].pc
               /\ client[c].pc = "planned"
               /\ w(c).deps = 0 => ListedBy(c)' = {} /\ client[c].deps = 1
               /\ client[c].deps = 1 => ListedBy(c)' = {}
    <3>1. o \in ListedBy(c) /\ IsFiniteSet(ListedBy(c)) /\ Cardinality(ListedBy(c)) \in Nat
      BY <1>1, <2>3, CardOfOps DEF ListedBy
    <3>2. /\ IsFiniteSet(ListedBy(c)') /\ Cardinality(ListedBy(c)') \in Nat
          /\ Cardinality(ListedBy(c)') = Cardinality(ListedBy(c)) - 1
      BY <2>2, <3>1, FS_RemoveElement, FS_CardinalityType
    <3>3. client[c].deps = Cardinality(ListedBy(c)) /\ client[c].pc = "planned"
      BY <1>4, <3>1 DEF Counted
    <3>4. client[c].deps - 1 \in Nat /\ client[c] \in ClientType
      BY <1>1, <3>2, <3>3
    <3>5. (IF client[c].deps = 1 THEN "holding" ELSE client[c].pc)
             \in {"idle", "queued", "planned", "holding", "releasing", "lost"}
      BY <3>3
    <3>6. /\ w(c) \in ClientType /\ w(c).deps = client[c].deps - 1
          /\ w(c).pc = IF client[c].deps = 1 THEN "holding" ELSE client[c].pc
      <4>1. PICK d \in Nat : d = client[c].deps - 1
        BY <3>4
      <4>2. PICK p \in {"idle", "queued", "planned", "holding", "releasing", "lost"} :
              p = IF client[c].deps = 1 THEN "holding" ELSE client[c].pc
        BY <3>5
      <4>3. w(c) = [client[c] EXCEPT !.deps = d, !.pc = p]
        BY <4>1, <4>2
      <4> HIDE DEF w
      <4>4. w(c) \in ClientType /\ w(c).deps = d /\ w(c).pc = p
        <5>1. client[c] \in ClientType
          BY <3>4
        <5>2. /\ [client[c] EXCEPT !.deps = d, !.pc = p] \in ClientType
              /\ [client[c] EXCEPT !.deps = d, !.pc = p].deps = d
              /\ [client[c] EXCEPT !.deps = d, !.pc = p].pc = p
          BY ONLY <5>1 DEF ClientType
        <5> QED
          BY <4>3, <5>2
      <4> QED
        BY <4>1, <4>2, <4>4
    <3>7. Cardinality(ListedBy(c)') = 0 => ListedBy(c)' = {}
      BY <3>2, FS_EmptySet
    <3> HIDE DEF w
    <3> QED
      BY <3>1, <3>2, <3>3, <3>4, <3>6, <3>7
  <2> HIDE DEF w
  <2>4. client' \in [Clients -> ClientType]
    BY <1>1, <2>1, <2>3
  <2>5. ASSUME NEW c \in Clients
        PROVE  /\ client'[c].deps = Cardinality(ListedBy(c)')
               /\ client'[c].pc # "planned" => ListedBy(c)' = {}
               /\ client'[c].pc \in {"queued", "releasing"} => client[c].pc = client'[c].pc
    <3>1. CASE c \in x.waiters
      BY <2>1, <2>3, <3>1
    <3>2. CASE c \notin x.waiters
      <4>1. o \notin ListedBy(c) /\ client'[c] = client[c]
        BY <2>1, <3>2 DEF ListedBy
      <4>2. ListedBy(c)' = ListedBy(c)
        BY <2>2, <4>1
      <4> QED
        BY <1>4, <4>1, <4>2 DEF Counted
    <3> QED
      BY <3>1, <3>2
  <2> QED
    BY <2>4, <2>5 DEF Counted, CommandsQueued
<1>5. CASE Gone(o, q) /\ op[o].waiters = {} /\ client' = client
  <2>1. \A c \in Clients : ListedBy(c)' = ListedBy(c)
    BY <1>1, <1>5, NullOpType DEF Gone, ListedBy
  <2> QED
    BY <1>1, <1>5, <2>1 DEF Counted, CommandsQueued
<1>6. CASE disp.pc = "abort" /\ Discard(o, q)
  <2>1. client' = [c \in Clients |-> IF c \in op[o].waiters /\ client[c].deps # 0
                                       THEN IdleClient ELSE client[c]]
    BY <1>6 DEF Discard
  <2>2. client' \in [Clients -> ClientType]
    BY <1>1, <2>1, IdleClientType
  <2>3. \A c \in Clients : client'[c].pc \in {"queued", "releasing"} => client'[c].pc = client[c].pc
    BY <2>1, IdleClientType
  <2> QED
    BY <1>6, <2>2, <2>3 DEF Counted, CommandsQueued
<1> QED
  BY <1>2, <1>3, <1>4, <1>5, <1>6, EndPool DEF Forgotten

(* All of the invariant but the two parts that look at the place of the     *)
(* turn survives the end of a read.                                         *)
LEMMA EndOfRead ==
  ASSUME DispatcherInv, NEW o, NEW q, Frame(o, q), Ended(o, q), UNCHANGED <<guessVars, envVars>>,
         chan' \in [Channels -> [op : Ops \cup {NoOp},
                                read : {"none", "reading", "ok", "short", "error"}]],
         memory' \in [Slots -> Records \cup {NoRec}],
         disp' \in [pc : TurnPc, chan : Nat, deferred : BOOLEAN,
                   stop : {"no", "graceful", "abort"}]
  PROVE  /\ TypeOK' /\ Indexed' /\ Placed' /\ Published' /\ Arrived' /\ Listed' /\ Counted'
         /\ IntentsNamed' /\ CommandsQueued'
<1>1. /\ CacheTypeOK' /\ op' \in [Ops -> OpType] /\ byRec' \in [Records -> Ops \cup {NoOp}]
      /\ pinned' \in [Slots -> BOOLEAN] /\ submitQ' \in Seq(Ops) /\ Indexed'
      /\ fatal' \in {"none", "io", "pool", "cancel"}
  BY EndTypes
<1>2. client' \in [Clients -> ClientType] /\ Counted' /\ CommandsQueued'
  BY EndWaiters
<1>3. TypeOK'
  BY <1>1, <1>2 DEF DispatcherInv, TypeOK, Frame, guessVars, envVars
<1>4. IntentsNamed'
  BY DEF DispatcherInv, IntentsNamed, guessVars
<1> QED
  BY <1>1, <1>2, <1>3, <1>4, EndPlaced, EndBytes, EndListed

-----------------------------------------------------------------------------
(* Steps that leave the cache and the reads alone.                          *)
LEMMA QuietStep ==
  ASSUME DispatcherInv, UNCHANGED <<cacheVars, ioVars, fatal>>
  PROVE  /\ CacheTypeOK' /\ op' \in [Ops -> OpType] /\ byRec' \in [Records -> Ops \cup {NoOp}]
         /\ pinned' \in [Slots -> BOOLEAN] /\ submitQ' \in Seq(Ops)
         /\ chan' \in [Channels -> [op : Ops \cup {NoOp},
                                   read : {"none", "reading", "ok", "short", "error"}]]
         /\ memory' \in [Slots -> Records \cup {NoRec}]
         /\ fatal' \in {"none", "io", "pool", "cancel"}
         /\ Indexed' /\ Placed' /\ Published' /\ Arrived' /\ Listed'
         /\ \A c \in Clients : ListedBy(c)' = ListedBy(c)
         /\ Busy' = Busy /\ submitQ' = submitQ /\ op' = op
<1> USE DEF DispatcherInv, cacheVars, ioVars
<1>1. /\ CacheTypeOK' /\ op' \in [Ops -> OpType] /\ byRec' \in [Records -> Ops \cup {NoOp}]
      /\ pinned' \in [Slots -> BOOLEAN] /\ submitQ' \in Seq(Ops)
      /\ chan' \in [Channels -> [op : Ops \cup {NoOp},
                                read : {"none", "reading", "ok", "short", "error"}]]
      /\ memory' \in [Slots -> Records \cup {NoRec}]
      /\ fatal' \in {"none", "io", "pool", "cancel"}
  BY DEF TypeOK, CacheTypeOK
<1>2. Used' = Used
  BY DEF Used
<1>3. Indexed'
  BY <1>2 DEF Indexed, OpsExact, RecsExact, PinsExact, TableExact
<1>4. Placed'
  BY <1>2 DEF Placed, Alive, PlacedIn
<1>5. Published' /\ Arrived' /\ Listed'
  BY DEF Published, Arrived, Listed, Alive
<1>6. /\ \A c \in Clients : ListedBy(c)' = ListedBy(c)
      /\ Busy' = Busy
  BY DEF ListedBy, Busy
<1> QED
  BY <1>1, <1>3, <1>4, <1>5, <1>6

(* The dispatcher moves to another place of its turn.                       *)
TurnMoves == Turn \/ CommandsDone \/ RetireDone \/ PumpDone \/ AdmitNothing \/ CutAdmitDone
             \/ Exit \/ AbortDone

(* The steps that only move the dispatcher within its turn keep the         *)
(* invariant.                                                               *)
LEMMA TurnStep ==
  ASSUME DispatcherInv, TurnMoves
  PROVE  DispatcherInv'
<1> USE DEF DispatcherInv
<1>1. /\ UNCHANGED <<cacheVars, ioVars, clientVars, guessVars, envVars, fatal>>
      /\ disp.pc \notin {"exited"} /\ (disp.pc = "abort" => disp'.pc \in {"abort", "exited"})
      /\ Alive
  BY DEF TurnMoves, Turn, CommandsDone, RetireDone, PumpDone, AdmitNothing, CutAdmitDone, Exit,
         AbortDone, At, Goto, TypeOK, TurnPc
<1>2. /\ CacheTypeOK' /\ op' \in [Ops -> OpType] /\ byRec' \in [Records -> Ops \cup {NoOp}]
      /\ pinned' \in [Slots -> BOOLEAN] /\ submitQ' \in Seq(Ops)
      /\ chan' \in [Channels -> [op : Ops \cup {NoOp},
                                read : {"none", "reading", "ok", "short", "error"}]]
      /\ memory' \in [Slots -> Records \cup {NoRec}]
      /\ fatal' \in {"none", "io", "pool", "cancel"}
      /\ Indexed' /\ Placed' /\ Published' /\ Arrived' /\ Listed'
      /\ \A c \in Clients : ListedBy(c)' = ListedBy(c)
      /\ Busy' = Busy /\ submitQ' = submitQ /\ op' = op
  BY <1>1, QuietStep
<1>3. /\ UNCHANGED <<cmdQ, client, intents, cursor, served, curGraph, graph, life, count>>
      /\ fatal' = fatal
  BY <1>1 DEF clientVars, guessVars, envVars
<1>4. disp' \in [pc : TurnPc, chan : Nat, deferred : BOOLEAN, stop : {"no", "graceful", "abort"}]
  <2>1. /\ disp \in [pc : TurnPc, chan : Nat, deferred : BOOLEAN, stop : {"no", "graceful", "abort"}]
        /\ life.stop \in {"no", "graceful", "abort"}
    BY DEF TypeOK
  <2>2. AfterTurn \in TurnPc /\ AfterAdmission \in TurnPc
    BY DEF AfterTurn, AfterAdmission, TurnPc
  <2>3. disp'.pc \in TurnPc /\ disp'.chan \in Nat /\ disp'.deferred \in BOOLEAN
        /\ disp'.stop \in {"no", "graceful", "abort"}
        /\ disp' = [disp EXCEPT !.pc = disp'.pc, !.chan = disp'.chan,
                                !.deferred = disp'.deferred, !.stop = disp'.stop]
    <3>1. CASE Turn
      BY <2>1, <2>2, <3>1 DEF Turn, Goto, TurnPc
    <3>2. CASE CommandsDone
      BY <2>1, <2>2, <3>2 DEF CommandsDone, Goto, TurnPc
    <3>3. CASE RetireDone
      BY <2>1, <2>2, <3>3 DEF RetireDone, Goto, TurnPc
    <3>4. CASE PumpDone
      BY <2>1, <2>2, <3>4 DEF PumpDone, Goto, TurnPc
    <3>5. CASE AdmitNothing
      BY <2>1, <2>2, <3>5 DEF AdmitNothing, Goto, TurnPc
    <3>6. CASE CutAdmitDone
      BY <2>1, <2>2, <3>6 DEF CutAdmitDone, Goto, TurnPc
    <3>7. CASE Exit
      BY <2>1, <2>2, <3>7 DEF Exit, Goto, TurnPc
    <3>8. CASE AbortDone
      BY <2>1, <2>2, <3>8 DEF AbortDone, Goto, TurnPc
    <3> QED
      BY <3>1, <3>2, <3>3, <3>4, <3>5, <3>6, <3>7, <3>8 DEF TurnMoves
  <2> QED
    BY <2>1, <2>3
<1>5. TypeOK'
  BY <1>2, <1>3, <1>4 DEF TypeOK
<1>6. Counted'
  BY <1>1, <1>2, <1>3 DEF Counted
<1>7. IntentsNamed' /\ CommandsQueued'
  BY <1>3 DEF IntentsNamed, CommandsQueued
<1>8. GuessFresh'
  <2>1. /\ disp'.pc # "pumpIssued"
        /\ disp'.pc = "admit" => submitQ = <<>> \/ Busy = Channels
        /\ disp.pc = "pumpIssued" => submitQ = <<>> \/ Busy = Channels
    <3>1. CASE Turn
      BY <1>4, <3>1 DEF Turn, At, Goto, AfterTurn, AfterAdmission, TypeOK
    <3>2. CASE CommandsDone
      BY <1>4, <3>2 DEF CommandsDone, At, Goto, AfterTurn, AfterAdmission, TypeOK
    <3>3. CASE RetireDone
      BY <1>4, <3>3 DEF RetireDone, At, Goto, AfterTurn, AfterAdmission, TypeOK
    <3>4. CASE PumpDone
      BY <1>4, <3>4 DEF PumpDone, At, Goto, AfterTurn, AfterAdmission, TypeOK
    <3>5. CASE AdmitNothing
      BY <1>4, <3>5 DEF AdmitNothing, At, Goto, AfterTurn, AfterAdmission, TypeOK
    <3>6. CASE CutAdmitDone
      BY <1>4, <3>6 DEF CutAdmitDone, At, Goto, AfterTurn, AfterAdmission, TypeOK
    <3>7. CASE Exit
      BY <1>4, <3>7 DEF Exit, At, Goto, AfterTurn, AfterAdmission, TypeOK
    <3>8. CASE AbortDone
      BY <1>4, <3>8 DEF AbortDone, At, Goto, AfterTurn, AfterAdmission, TypeOK
    <3> QED
      BY <3>1, <3>2, <3>3, <3>4, <3>5, <3>6, <3>7, <3>8 DEF TurnMoves
  <2>2. disp.pc # "pumpIssued" \/ submitQ = <<>>
    BY <2>1 DEF GuessFresh, TypeOK
  <2>3. \A i \in DOMAIN submitQ : op[submitQ[i]].origin # "prefetch"
    BY <2>2 DEF GuessFresh
  <2> QED
    BY <1>2, <2>1, <2>3 DEF GuessFresh
<1>9. TailKnows'
  <2>1. (Quiet' <=> Quiet) /\ life' = life /\ Alive'
    BY <1>1, <1>2, <1>3 DEF Quiet, Planned, HasRank, Alive
  <2>2. CASE Turn
    BY <1>2, <2>1, <2>2 DEF TailKnows, Turn, At, TypeOK
  <2>3. CASE CommandsDone
    BY <1>2, <2>1, <2>3 DEF TailKnows, CommandsDone, At, TypeOK, AfterTurn
  <2>4. CASE RetireDone
    BY <1>2, <2>1, <2>4 DEF TailKnows, RetireDone, At, TypeOK
  <2>5. CASE PumpDone
    BY <1>2, <2>1, <2>5 DEF TailKnows, PumpDone, At, Goto, TypeOK, AfterTurn, AfterAdmission
  <2>6. CASE AdmitNothing
    BY <1>2, <2>1, <2>6 DEF TailKnows, AdmitNothing, At, Goto, TypeOK, AfterTurn, AfterAdmission
  <2>7. CASE CutAdmitDone
    <3>1. DemandsDone /\ ~HasRank => Quiet
      BY DEF DemandsDone, Quiet
    <3> QED
      BY <1>2, <2>1, <2>7, <3>1 DEF TailKnows, CutAdmitDone, At, TypeOK
  <2>8. CASE Exit
    BY <1>2, <2>1, <2>8 DEF TailKnows, Exit, At, Goto, TypeOK
  <2>9. CASE AbortDone
    BY <1>2, <2>1, <2>9 DEF TailKnows, AbortDone, At, Goto, TypeOK
  <2> QED
    BY <2>2, <2>3, <2>4, <2>5, <2>6, <2>7, <2>8, <2>9 DEF TurnMoves
<1> QED
  BY <1>2, <1>5, <1>6, <1>7, <1>8, <1>9

-----------------------------------------------------------------------------
(* The rank at hand names an expert, and consuming it leaves the cursor at  *)
(* the next one of the same intent, or nowhere.                             *)
LEMMA RankTaken ==
  ASSUME TypeOK, IntentsNamed, HasRank
  PROVE  /\ NextRank \in [it : IntentType, rank : Nat \ {0}]
         /\ NextRank.rank \in 1 .. Len(NextRank.it.ids)
         /\ Guess \in Records
         /\ TakeRank => /\ intents' \in Seq(IntentType) /\ IntentsNamed'
                        /\ cursor' \in {<<>>} \cup [it : IntentType, rank : Nat \ {0}]
<1>1. /\ intents \in Seq(IntentType)
      /\ cursor \in {<<>>} \cup [it : IntentType, rank : Nat \ {0}]
  BY DEF TypeOK
<1>2. NextRank \in [it : IntentType, rank : Nat \ {0}] /\ NextRank.rank \in 1 .. Len(NextRank.it.ids)
  <2>1. CASE cursor = <<>>
    <3>1. intents # <<>>
      BY <2>1 DEF HasRank
    <3>2. Head(intents) \in IntentType /\ Head(intents) = intents[1] /\ 1 \in DOMAIN intents
      BY <1>1, <3>1
    <3>3. Head(intents).ids # <<>>
      BY <3>2 DEF IntentsNamed
    <3>4. Head(intents).ids \in Seq(Experts)
      BY <3>2 DEF IntentType
    <3>5. 1 \in 1 .. Len(Head(intents).ids)
      BY <3>3, <3>4, EmptySeq
    <3>6. NextRank = [it |-> Head(intents), rank |-> 1]
      BY <2>1 DEF NextRank, Rank0
    <3> QED
      BY <3>2, <3>5, <3>6
  <2>2. CASE cursor # <<>>
    BY <1>1, <2>2 DEF NextRank, IntentsNamed
  <2> QED
    BY <2>1, <2>2
<1>3. /\ NextRank.it \in IntentType /\ NextRank.it.ids \in Seq(Experts) /\ NextRank.it.layer \in Layers
      /\ Len(NextRank.it.ids) \in Nat /\ NextRank.rank \in Nat
  BY <1>2 DEF IntentType
<1>4. Guess \in Records
  BY <1>2, <1>3, ElementOfSeq DEF Guess, Records
<1>5. ASSUME TakeRank
      PROVE  /\ intents' \in Seq(IntentType) /\ IntentsNamed'
             /\ cursor' \in {<<>>} \cup [it : IntentType, rank : Nat \ {0}]
  <2>1. /\ intents' \in Seq(IntentType)
        /\ \A i \in DOMAIN intents' : intents'[i].ids # <<>>
    <3>1. CASE cursor = <<>>
      <4>1. intents' = Tail(intents) /\ intents # <<>>
        BY <1>5, <3>1 DEF TakeRank, HasRank
      <4>2. /\ Tail(intents) \in Seq(IntentType)
            /\ \A i \in DOMAIN Tail(intents) : i + 1 \in DOMAIN intents /\ Tail(intents)[i] = intents[i + 1]
        BY <1>1, <4>1
      <4> QED
        BY <4>1, <4>2 DEF IntentsNamed
    <3>2. CASE cursor # <<>>
      BY <1>1, <1>5, <3>2 DEF TakeRank, IntentsNamed
    <3> QED
      BY <3>1, <3>2
  <2>2. CASE NextRank.rank = Len(NextRank.it.ids)
    BY <1>5, <2>1, <2>2 DEF TakeRank, IntentsNamed
  <2>3. CASE NextRank.rank # Len(NextRank.it.ids)
    <3>1. cursor' = [NextRank EXCEPT !.rank = @ + 1]
      BY <1>5, <2>3 DEF TakeRank
    <3>2. NextRank.rank + 1 \in 1 .. Len(NextRank.it.ids) /\ NextRank.rank + 1 \in Nat \ {0}
      BY <1>2, <1>3, <2>3
    <3>3. cursor' = [it |-> NextRank.it, rank |-> NextRank.rank + 1]
      BY <1>2, <3>1
    <3> QED
      BY <1>3, <2>1, <3>2, <3>3 DEF IntentsNamed
  <2> QED
    BY <2>2, <2>3
<1> QED
  BY <1>2, <1>4, <1>5

(* A rank is dropped.                                                       *)
LEMMA DropStep ==
  ASSUME DispatcherInv, AdmitDrop \/ CutAdmit
  PROVE  DispatcherInv'
<1> USE DEF DispatcherInv
<1>1. /\ UNCHANGED <<cacheVars, ioVars, clientVars, served, curGraph, envVars, fatal>>
      /\ TakeRank /\ HasRank /\ disp.pc \in {"admit", "cutAdmit"} /\ Alive
      /\ disp' = [disp EXCEPT !.pc = disp'.pc]
      /\ disp'.pc \in {AfterAdmission, "cutAdmit"} \cap TurnPc
      /\ disp'.pc = AfterAdmission \/ disp' = disp
  BY DEF AdmitDrop, CutAdmit, At, Goto, TypeOK, AfterAdmission, AfterTurn, TurnPc
<1>2. /\ CacheTypeOK' /\ op' \in [Ops -> OpType] /\ byRec' \in [Records -> Ops \cup {NoOp}]
      /\ pinned' \in [Slots -> BOOLEAN] /\ submitQ' \in Seq(Ops)
      /\ chan' \in [Channels -> [op : Ops \cup {NoOp},
                                read : {"none", "reading", "ok", "short", "error"}]]
      /\ memory' \in [Slots -> Records \cup {NoRec}]
      /\ fatal' \in {"none", "io", "pool", "cancel"}
      /\ Indexed' /\ Placed' /\ Published' /\ Arrived' /\ Listed'
      /\ \A c \in Clients : ListedBy(c)' = ListedBy(c)
      /\ Busy' = Busy /\ submitQ' = submitQ /\ op' = op
  BY <1>1, QuietStep
<1>3. UNCHANGED <<cmdQ, client, served, curGraph, graph, life, count>>
  BY <1>1 DEF clientVars, envVars
<1>4. /\ intents' \in Seq(IntentType) /\ IntentsNamed'
      /\ cursor' \in {<<>>} \cup [it : IntentType, rank : Nat \ {0}]
  BY <1>1, RankTaken
<1>5. TypeOK'
  BY <1>1, <1>2, <1>3, <1>4 DEF TypeOK
<1>6. Counted' /\ CommandsQueued'
  BY <1>1, <1>2, <1>3 DEF Counted, CommandsQueued
<1>7. disp'.pc \notin {"admit", "pumpIssued", "cancel", "exited", "abort"}
  BY <1>1 DEF AfterAdmission, AfterTurn
<1>8. GuessFresh'
  BY <1>1, <1>2, <1>7 DEF GuessFresh
<1>9. TailKnows'
  <2>1. disp'.stop = disp.stop /\ (disp'.pc = "cutAdmit" => disp.stop # "no")
    BY <1>1 DEF TypeOK, TailKnows, AfterAdmission, AfterTurn
  <2> QED
    BY <1>3, <1>7, <2>1 DEF TailKnows
<1> QED
  BY <1>2, <1>4, <1>5, <1>6, <1>8, <1>9

(* Steps that only the shutdown, the graph or the predictor takes.          *)
EnvMoves == NextGraph \/ (\E g \in Guesses : PublishIntent(g)) \/ Cut \/ PredictorDrained
            \/ \E m \in Stops : StopRequest(m)

(* The steps of the compute side, the predictor and the stop keep the       *)
(* invariant.                                                               *)
LEMMA EnvStep ==
  ASSUME DispatcherInv, EnvMoves
  PROVE  DispatcherInv'
<1> USE DEF DispatcherInv
<1>1. /\ UNCHANGED <<cacheVars, ioVars, clientVars, cursor, served, curGraph, disp, fatal>> /\ Alive
  BY DEF EnvMoves, NextGraph, PublishIntent, Cut, PredictorDrained, StopRequest, guessVars
<1>2. /\ CacheTypeOK' /\ op' \in [Ops -> OpType] /\ byRec' \in [Records -> Ops \cup {NoOp}]
      /\ pinned' \in [Slots -> BOOLEAN] /\ submitQ' \in Seq(Ops)
      /\ chan' \in [Channels -> [op : Ops \cup {NoOp},
                                read : {"none", "reading", "ok", "short", "error"}]]
      /\ memory' \in [Slots -> Records \cup {NoRec}]
      /\ fatal' \in {"none", "io", "pool", "cancel"}
      /\ Indexed' /\ Placed' /\ Published' /\ Arrived' /\ Listed'
      /\ \A c \in Clients : ListedBy(c)' = ListedBy(c)
      /\ Busy' = Busy /\ submitQ' = submitQ /\ op' = op
  BY <1>1, QuietStep
<1>3. UNCHANGED <<cmdQ, client, cursor, served, curGraph, disp, fatal>>
  BY <1>1 DEF clientVars
<1>4. Counted' /\ CommandsQueued' /\ GuessFresh'
  BY <1>2, <1>3 DEF Counted, CommandsQueued, GuessFresh
<1>5. ASSUME NEW g \in Guesses, PublishIntent(g) PROVE TypeOK' /\ IntentsNamed' /\ TailKnows'
  <2> DEFINE it == [ord |-> count.intents + 1, graph |-> graph, layer |-> g.layer, ids |-> g.ids]
  <2>1. /\ intents' = Append(intents, it) /\ ~life.drained /\ graph' = graph /\ life' = life
        /\ count' = [count EXCEPT !.intents = @ + 1]
    BY <1>5 DEF PublishIntent
  <2>2. it \in IntentType /\ it.ids # <<>>
    BY DispatcherAssumption DEF IntentType, TypeOK
  <2>3. intents \in Seq(IntentType) /\ count \in [acquires : Nat, intents : Nat]
    BY DEF TypeOK
  <2> HIDE DEF it
  <2>4. intents' \in Seq(IntentType) /\ \A i \in DOMAIN intents' : intents'[i] = it \/ (i \in DOMAIN intents /\ intents'[i] = intents[i])
    BY <2>1, <2>2, <2>3
  <2>5. IntentsNamed'
    BY <1>3, <2>2, <2>4 DEF IntentsNamed
  <2>6. TypeOK'
    <3>1. count' \in [acquires : Nat, intents : Nat]
      BY ONLY <2>1, <2>3
    <3> QED
      BY <1>2, <1>3, <2>1, <2>4, <3>1 DEF TypeOK
  <2>7. TailKnows'
    BY <1>3, <2>1 DEF TailKnows, TypeOK
  <2> QED
    BY <2>5, <2>6, <2>7
<1>6. ASSUME NextGraph \/ Cut \/ PredictorDrained \/ (\E m \in Stops : StopRequest(m))
      PROVE  TypeOK' /\ IntentsNamed' /\ TailKnows'
  <2>1. intents' = intents /\ count' = count
    BY <1>6 DEF NextGraph, Cut, PredictorDrained, StopRequest, guessVars
  <2>2. graph' \in Nat /\ life' \in [cut : BOOLEAN, drained : BOOLEAN, stop : {"no", "graceful", "abort"}]
    <3>1. graph \in Nat /\ life \in [cut : BOOLEAN, drained : BOOLEAN, stop : {"no", "graceful", "abort"}]
      BY DEF TypeOK
    <3>2. CASE NextGraph
      BY <3>1, <3>2 DEF NextGraph
    <3>3. CASE Cut \/ PredictorDrained
      BY <3>1, <3>3 DEF Cut, PredictorDrained
    <3>4. ASSUME NEW m \in Stops, StopRequest(m)
          PROVE  graph' \in Nat /\ life' \in [cut : BOOLEAN, drained : BOOLEAN, stop : {"no", "graceful", "abort"}]
      <4>1. m \in {"no", "graceful", "abort"}
        BY DispatcherAssumption
      <4> QED
        BY <3>1, <3>4, <4>1 DEF StopRequest
    <3> QED
      BY <1>6, <3>2, <3>3, <3>4
  <2>3. TypeOK'
    BY <1>2, <1>3, <2>1, <2>2 DEF TypeOK
  <2>4. IntentsNamed'
    BY <1>3, <2>1 DEF IntentsNamed
  <2>5. Quiet' <=> Quiet
    BY <1>2, <1>3, <2>1 DEF Quiet, Planned, HasRank
  <2>6. TailKnows'
    <3>1. \/ life'.stop = life.stop /\ (life.drained => life'.drained)
          \/ life.stop = "no" /\ life'.stop # "no" /\ life'.drained = life.drained /\ life.drained
      BY <1>6, DispatcherAssumption DEF NextGraph, Cut, PredictorDrained, StopRequest, TypeOK
    <3>2. Alive' <=> Alive
      BY <1>3 DEF Alive
    <3> QED
      BY <1>2, <1>3, <2>5, <3>1, <3>2 DEF TailKnows
  <2> QED
    BY <2>3, <2>4, <2>6
<1>7. TypeOK' /\ IntentsNamed' /\ TailKnows'
  BY <1>5, <1>6 DEF EnvMoves
<1> QED
  BY <1>2, <1>4, <1>7

-----------------------------------------------------------------------------
(* A command enters the queue, or leaves it.                                *)
LEMMA CommandEnters ==
  ASSUME cmdQ \in Seq(Clients), CommandsQueued, NEW c \in Clients, cmdQ' = Append(cmdQ, c),
         \A d \in Clients \ {c} : client'[d] = client[d]
  PROVE  cmdQ' \in Seq(Clients) /\ CommandsQueued'
<1>1. /\ cmdQ' \in Seq(Clients)
      /\ Len(cmdQ) + 1 \in DOMAIN cmdQ' /\ cmdQ'[Len(cmdQ) + 1] = c
      /\ \A i \in DOMAIN cmdQ : i \in DOMAIN cmdQ' /\ cmdQ'[i] = cmdQ[i]
  OBVIOUS
<1>2. ASSUME NEW d \in Clients, client'[d].pc \in {"queued", "releasing"}
      PROVE  \E i \in DOMAIN cmdQ' : cmdQ'[i] = d
  <2>1. CASE d = c
    BY <1>1, <2>1
  <2>2. CASE d # c
    <3>1. PICK i \in DOMAIN cmdQ : cmdQ[i] = d
      BY <1>2, <2>2 DEF CommandsQueued
    <3> QED
      BY <1>1, <3>1
  <2> QED
    BY <2>1, <2>2
<1> QED
  BY <1>1, <1>2 DEF CommandsQueued

(* The head of the control queue leaves it when its client waits for an     *)
(* answer no more.                                                          *)
LEMMA CommandLeaves ==
  ASSUME cmdQ \in Seq(Clients), CommandsQueued, cmdQ # <<>>, cmdQ' = Tail(cmdQ),
         client'[Head(cmdQ)].pc \notin {"queued", "releasing"},
         \A d \in Clients \ {Head(cmdQ)} : client'[d].pc = client[d].pc
  PROVE  Head(cmdQ) \in Clients /\ cmdQ' \in Seq(Clients) /\ CommandsQueued'
<1>1. /\ Head(cmdQ) \in Clients /\ Head(cmdQ) = cmdQ[1] /\ cmdQ' \in Seq(Clients)
      /\ \A i \in DOMAIN cmdQ : i # 1 => i - 1 \in DOMAIN cmdQ' /\ cmdQ'[i - 1] = cmdQ[i]
  OBVIOUS
<1>2. ASSUME NEW d \in Clients, client'[d].pc \in {"queued", "releasing"}
      PROVE  \E i \in DOMAIN cmdQ' : cmdQ'[i] = d
  <2>1. d # Head(cmdQ)
    BY <1>2
  <2>2. PICK i \in DOMAIN cmdQ : cmdQ[i] = d
    BY <1>2, <2>1 DEF CommandsQueued
  <2> QED
    BY <1>1, <2>1, <2>2
<1> QED
  BY <1>1, <1>2 DEF CommandsQueued

(* A client that waits for no read changes its state to another such one.   *)
LEMMA CountedStays ==
  ASSUME DispatcherInv, NEW c \in Clients, NEW v \in ClientType, client' = [client EXCEPT ![c] = v],
         client[c].pc # "planned", v.pc # "planned", v.deps \in {0, client[c].deps},
         op' = op, disp'.pc = disp.pc
  PROVE  /\ client' \in [Clients -> ClientType] /\ client'[c] = v
         /\ \A d \in Clients \ {c} : client'[d] = client[d]
         /\ Counted' /\ Planned' = Planned
<1>1. client \in [Clients -> ClientType]
  BY DEF DispatcherInv, TypeOK
<1>2. /\ client' \in [Clients -> ClientType] /\ client'[c] = v
      /\ \A d \in Clients \ {c} : client'[d] = client[d]
  BY <1>1
<1>3. \A d \in Clients : ListedBy(d)' = ListedBy(d)
  BY DEF ListedBy
<1>4. Counted'
  <2> SUFFICES ASSUME disp.pc \notin {"abort", "exited"}, NEW d \in Clients
               PROVE  /\ client'[d].deps = Cardinality(ListedBy(d))
                      /\ client'[d].pc # "planned" => ListedBy(d) = {}
    BY <1>3 DEF Counted
  <2>1. /\ client[d].deps = Cardinality(ListedBy(d))
        /\ client[d].pc # "planned" => ListedBy(d) = {}
    BY DEF DispatcherInv, Counted
  <2>2. CASE d = c
    BY <1>2, <2>1, <2>2, FS_EmptySet
  <2>3. CASE d # c
    BY <1>2, <2>1, <2>3
  <2> QED
    BY <2>2, <2>3
<1>5. Planned' = Planned
  BY <1>2 DEF Planned
<1> QED
  BY <1>2, <1>4, <1>5

(* What the steps of clients and of the command loop leave to be shown.     *)
LEMMA ClientStepRest ==
  ASSUME DispatcherInv, UNCHANGED <<disp, life, intents, cursor, fatal, op, chan, submitQ>>,
         Planned' = Planned, (disp.pc \in {"cancel", "exited"} /\ cmdQ = <<>>) => cmdQ' = <<>>
  PROVE  IntentsNamed' /\ GuessFresh' /\ TailKnows'
<1> USE DEF DispatcherInv
<1>1. Busy' = Busy /\ (HasRank' <=> HasRank) /\ (Alive' <=> Alive)
  BY DEF Busy, HasRank, Alive
<1>2. IntentsNamed' /\ GuessFresh'
  BY <1>1 DEF IntentsNamed, GuessFresh
<1>3. TailKnows'
  BY <1>1 DEF TailKnows, Quiet
<1> QED
  BY <1>2, <1>3

(* A caller that enqueues an acquire keeps the invariant.                   *)
LEMMA AcquireStep ==
  ASSUME DispatcherInv, NEW c \in Clients, NEW q \in Requests, Acquire(c, q)
  PROVE  DispatcherInv'
<1> USE DEF DispatcherInv
<1> DEFINE v == [pc |-> "queued", req |-> q, graph |-> graph, deps |-> 0]
<1>1. /\ UNCHANGED <<cacheVars, ioVars, guessVars, graph, life, disp, fatal>>
      /\ client[c].pc = "idle" /\ life.stop = "no" /\ cmdQ' = Append(cmdQ, c)
      /\ count' = [count EXCEPT !.acquires = @ + 1] /\ client' = [client EXCEPT ![c] = v]
  BY DEF Acquire
<1>2. v \in ClientType /\ v.pc = "queued" /\ v.deps = 0
  BY DEF ClientType, TypeOK
<1> HIDE DEF v
<1>3. /\ client' \in [Clients -> ClientType]
      /\ \A d \in Clients \ {c} : client'[d] = client[d]
      /\ Counted' /\ Planned' = Planned
  BY <1>1, <1>2, CountedStays DEF ioVars
<1>4. cmdQ' \in Seq(Clients) /\ CommandsQueued'
  BY <1>1, <1>3, CommandEnters DEF TypeOK
<1>5. disp.pc \notin {"cancel", "exited"}
  BY <1>1 DEF TailKnows
<1>6. IntentsNamed' /\ GuessFresh' /\ TailKnows'
  BY <1>1, <1>3, <1>5, ClientStepRest DEF ioVars, guessVars
<1>7. TypeOK' /\ Indexed' /\ Placed' /\ Published' /\ Arrived' /\ Listed'
  <2>1. count \in [acquires : Nat, intents : Nat]
    BY DEF TypeOK
  <2>2. count' \in [acquires : Nat, intents : Nat]
    BY ONLY <1>1, <2>1
  <2> QED
    BY <1>1, <1>3, <1>4, <2>2, QuietStep DEF TypeOK, guessVars
<1> QED
  BY <1>3, <1>4, <1>6, <1>7

(* A caller that enqueues a release, or is refused, keeps the invariant.    *)
LEMMA ReleaseStep ==
  ASSUME DispatcherInv, NEW c \in Clients, Release(c)
  PROVE  DispatcherInv'
<1> USE DEF DispatcherInv
<1>1. PICK p \in {"lost", "releasing"} :
        /\ client' = [client EXCEPT ![c].pc = p] /\ client[c].pc = "holding"
        /\ \/ p = "lost" /\ cmdQ' = cmdQ
           \/ p = "releasing" /\ cmdQ' = Append(cmdQ, c) /\ life.stop = "no"
        /\ UNCHANGED <<cacheVars, ioVars, guessVars, envVars, disp, fatal>>
  BY DEF Release
<1> DEFINE v == [client[c] EXCEPT !.pc = p]
<1>2. client[c] \in ClientType /\ client' = [client EXCEPT ![c] = v]
  BY <1>1 DEF TypeOK
<1>3. v \in ClientType /\ v.pc = p /\ v.deps = client[c].deps
  BY ONLY <1>2, p \in {"lost", "releasing"} DEF ClientType
<1> HIDE DEF v
<1>4. /\ client' \in [Clients -> ClientType] /\ client'[c] = v
      /\ \A d \in Clients \ {c} : client'[d] = client[d]
      /\ Counted' /\ Planned' = Planned
  BY <1>1, <1>2, <1>3, CountedStays DEF ioVars
<1>5. cmdQ' \in Seq(Clients) /\ CommandsQueued'
  <2>1. CASE p = "lost" /\ cmdQ' = cmdQ
    BY <1>3, <1>4, <2>1 DEF CommandsQueued, TypeOK
  <2>2. CASE cmdQ' = Append(cmdQ, c)
    BY <1>4, <2>2, CommandEnters DEF TypeOK
  <2> QED
    BY <1>1, <2>1, <2>2
<1>6. disp.pc \in {"cancel", "exited"} => cmdQ' = cmdQ
  BY <1>1 DEF TailKnows
<1>7. IntentsNamed' /\ GuessFresh' /\ TailKnows'
  BY <1>1, <1>4, <1>6, ClientStepRest DEF ioVars, guessVars, envVars
<1>8. TypeOK' /\ Indexed' /\ Placed' /\ Published' /\ Arrived' /\ Listed'
  BY <1>1, <1>4, <1>5, QuietStep DEF TypeOK, guessVars, envVars
<1> QED
  BY <1>4, <1>5, <1>7, <1>8

(* A command is answered without a change of the cache or the reads.        *)
LEMMA AnswerStep ==
  ASSUME DispatcherInv, RefuseAcquire \/ AbortCommand
  PROVE  DispatcherInv'
<1> USE DEF DispatcherInv
<1> DEFINE c == Head(cmdQ)
<1>1. /\ cmdQ # <<>> /\ cmdQ' = Tail(cmdQ) /\ disp.pc \notin {"cancel", "exited"}
      /\ UNCHANGED <<cacheVars, ioVars, intents, cursor, served, envVars, disp, fatal>>
      /\ curGraph' \in {curGraph, client[c].graph}
  BY DEF RefuseAcquire, AbortCommand, AcquireNext, Commands, At, guessVars
<1>2. c \in Clients /\ cmdQ \in Seq(Clients) /\ client \in [Clients -> ClientType] /\ client[c] \in ClientType
  BY <1>1 DEF TypeOK
<1> HIDE DEF c
<1>3. /\ client' \in [Clients -> ClientType] /\ client'[c].pc \notin {"queued", "releasing"}
      /\ \A d \in Clients \ {c} : client'[d] = client[d]
      /\ Counted'
  <2>1. CASE RefuseAcquire
    <3>1. client' = [client EXCEPT ![c] = IdleClient] /\ client[c].pc = "queued"
      BY <2>1 DEF RefuseAcquire, AcquireNext, c
    <3> QED
      BY <1>1, <1>2, <3>1, IdleClientType, CountedStays DEF ioVars
  <2>2. CASE AbortCommand
    <3>1. PICK p \in {"lost", "idle"} : client' = [client EXCEPT ![c].pc = p]
      BY <2>2 DEF AbortCommand, c
    <3>2. [client[c] EXCEPT !.pc = p] \in ClientType /\ [client[c] EXCEPT !.pc = p].pc = p
      BY ONLY <1>2, p \in {"lost", "idle"} DEF ClientType
    <3>3. client' = [client EXCEPT ![c] = [client[c] EXCEPT !.pc = p]]
      BY <1>2, <3>1
    <3>4. disp'.pc = "abort"
      BY <2>2 DEF AbortCommand, At
    <3>5. client' \in [Clients -> ClientType] /\ client'[c].pc = p
      BY <1>2, <3>2, <3>3
    <3> QED
      BY <1>2, <3>3, <3>4, <3>5 DEF Counted
  <2> QED
    BY <2>1, <2>2
<1>4. cmdQ' \in Seq(Clients) /\ CommandsQueued'
  BY <1>1, <1>2, <1>3, CommandLeaves DEF c
<1>5. IntentsNamed' /\ GuessFresh' /\ TailKnows'
  <2>1. Busy' = Busy /\ (Alive' <=> Alive) /\ submitQ' = submitQ /\ op' = op /\ life' = life
    BY <1>1 DEF Busy, Alive, ioVars, envVars
  <2> QED
    BY <1>1, <2>1 DEF IntentsNamed, GuessFresh, TailKnows
<1>6. TypeOK' /\ Indexed' /\ Placed' /\ Published' /\ Arrived' /\ Listed'
  <2>1. curGraph' \in Nat
    BY <1>1, <1>2 DEF TypeOK, ClientType
  <2> QED
    BY <1>1, <1>3, <1>4, <2>1, QuietStep DEF TypeOK, envVars
<1> QED
  BY <1>3, <1>4, <1>5, <1>6

(* Giving units back takes a lease nowhere but down, and not below zero.    *)
LEMMA GivenBackType ==
  ASSUME NEW s \in Slots, slot[s] \in SlotType, NEW n \in Nat
  PROVE  /\ GivenBack(s, n) \in SlotType
         /\ GivenBack(s, n).owner = slot[s].owner /\ GivenBack(s, n).gen = slot[s].gen
         /\ slot[s].lease = 0 => GivenBack(s, n).lease = 0
<1> DEFINE l == IF slot[s].lease > n THEN slot[s].lease - n ELSE 0
<1>1. l \in Nat /\ (slot[s].lease = 0 => l = 0)
  BY DEF SlotType
<1>2. GivenBack(s, n) = [slot[s] EXCEPT !.lease = l]
  BY DEF GivenBack
<1> HIDE DEF l
<1> QED
  BY <1>1, <1>2 DEF SlotType

(* The handler of a release keeps the invariant: it lowers leases and       *)
(* touches nothing else of a slot.                                          *)
LEMMA ReleaseHandled ==
  ASSUME DispatcherInv, HandleRelease
  PROVE  DispatcherInv'
<1> USE DEF DispatcherInv
<1> DEFINE c == Head(cmdQ)
           q == client[c].req
           back(s) == Cardinality({i \in DOMAIN q.ids : table[<<q.layer, q.ids[i]>>].slot = s})
<1>1. /\ cmdQ # <<>> /\ cmdQ' = Tail(cmdQ) /\ disp.pc \in {"commands", "recheck"}
      /\ slot' = [s \in Slots |-> GivenBack(s, back(s))]
      /\ client[c].pc = "releasing" /\ client' = [client EXCEPT ![c] = IdleClient]
      /\ UNCHANGED <<table, tick, ioVars, guessVars, envVars, disp, fatal>>
  BY DEF HandleRelease, Commands, At
<1>2. /\ c \in Clients /\ cmdQ \in Seq(Clients) /\ client[c] \in ClientType
      /\ slot \in [Slots -> SlotType]
  BY <1>1 DEF TypeOK, CacheTypeOK
<1>3. \A s : back(s) \in Nat
  <2>1. q.ids \in Seq(Experts)
    <3>1. NoRequest.ids \in Seq(Experts)
      BY DEF NoRequest
    <3> QED
      BY <1>2, <3>1, RequestType DEF ClientType
  <2>2. DOMAIN q.ids = 1 .. Len(q.ids) /\ 1 \in Int /\ Len(q.ids) \in Int
    BY <2>1
  <2>3. IsFiniteSet(DOMAIN q.ids)
    <3>1. IsFiniteSet(1 .. Len(q.ids))
      BY ONLY <2>2, FS_Interval
    <3> QED
      BY <2>2, <3>1
  <2> HIDE DEF q
  <2> SUFFICES ASSUME NEW s PROVE back(s) \in Nat
    OBVIOUS
  <2>4. {i \in DOMAIN q.ids : table[<<q.layer, q.ids[i]>>].slot = s} \subseteq DOMAIN q.ids
    OBVIOUS
  <2> QED
    BY <2>3, <2>4, FS_Subset, FS_CardinalityType
<1> HIDE DEF back, c
<1>4. /\ slot' \in [Slots -> SlotType]
      /\ \A s \in Slots : /\ slot'[s].owner = slot[s].owner /\ slot'[s].gen = slot[s].gen
                          /\ slot[s].lease = 0 => slot'[s].lease = 0
  BY <1>1, <1>2, <1>3, GivenBackType
<1>5. /\ client' \in [Clients -> ClientType] /\ client'[c] = IdleClient
      /\ \A d \in Clients \ {c} : client'[d] = client[d]
      /\ Counted' /\ Planned' = Planned
  BY <1>1, <1>2, IdleClientType, CountedStays DEF ioVars
<1>6. cmdQ' \in Seq(Clients) /\ CommandsQueued'
  BY <1>1, <1>2, <1>5, IdleClientType, CommandLeaves DEF c
<1>7. IntentsNamed' /\ GuessFresh' /\ TailKnows'
  BY <1>1, <1>5, ClientStepRest DEF ioVars, guessVars, envVars
<1>8. TypeOK'
  BY <1>1, <1>4, <1>5, <1>6 DEF TypeOK, CacheTypeOK, ioVars, guessVars, envVars
<1>9. Indexed'
  <2>1. Used' = Used
    BY <1>1 DEF Used, ioVars
  <2>2. OpsExact'
    BY <1>1, <1>4, <2>1 DEF Indexed, OpsExact, ioVars
  <2>3. RecsExact' /\ PinsExact'
    BY <1>1, <2>1 DEF Indexed, RecsExact, PinsExact, ioVars
  <2>4. TableExact'
    <3>1. /\ table' = table
          /\ \A r \in Records : table[r].slot # NoSlot =>
               /\ table[r].slot \in Slots
               /\ slot[table[r].slot].owner = r /\ slot[table[r].slot].gen = table[r].gen
      <4>1. \A r \in Records : table[r].slot # NoSlot => table[r].slot \in Slots
        BY DEF TypeOK, CacheTypeOK, EntryType
      <4> QED
        BY <1>1, <4>1 DEF Indexed, TableExact
    <3> QED
      BY ONLY <1>4, <3>1 DEF TableExact
  <2> QED
    BY <2>2, <2>3, <2>4 DEF Indexed
<1>10. Placed' /\ Published' /\ Arrived' /\ Listed'
  <2>1. UNCHANGED <<op, submitQ, chan, memory, table, fatal>> /\ Used' = Used
    BY <1>1 DEF ioVars, Used
  <2>2. Placed'
    BY <2>1 DEF Placed, PlacedIn, Alive
  <2> QED
    BY <2>1, <2>2 DEF Published, Arrived, Listed, Alive
<1> QED
  BY <1>5, <1>6, <1>7, <1>8, <1>9, <1>10

-----------------------------------------------------------------------------
(* A read in flight ends on the device.                                     *)
LEMMA IoKeeps ==
  ASSUME DispatcherInv, NEW ch \in Channels, NEW result \in {"ok", "short", "error"},
         IoComplete(ch, result)
  PROVE  DispatcherInv'
<1> USE DEF DispatcherInv
<1> DEFINE o == chan[ch].op
<1>1. /\ Alive /\ o # NoOp /\ chan' = [chan EXCEPT ![ch].read = result]
      /\ memory' = [memory EXCEPT ![op[o].slot] = IF result = "ok" THEN op[o].rec ELSE NoRec]
      /\ UNCHANGED <<cacheVars, op, byRec, pinned, submitQ, clientVars, guessVars, envVars, disp, fatal>>
  BY DEF IoComplete
<1>2. /\ o \in Used /\ op[o].slot \in Slots /\ op[o].rec \in Records
      /\ chan \in [Channels -> [op : Ops \cup {NoOp}, read : {"none", "reading", "ok", "short", "error"}]]
      /\ memory \in [Slots -> Records \cup {NoRec}]
  BY <1>1 DEF Placed, PlacedIn, Indexed, OpsExact, TypeOK
<1>3. /\ chan' \in [Channels -> [op : Ops \cup {NoOp}, read : {"none", "reading", "ok", "short", "error"}]]
      /\ \A c \in Channels : chan'[c].op = chan[c].op
      /\ \A c \in Channels \ {ch} : chan'[c] = chan[c]
      /\ chan'[ch].read = result
  BY <1>1, <1>2
<1>4. /\ memory' \in [Slots -> Records \cup {NoRec}]
      /\ \A s \in Slots \ {op[o].slot} : memory'[s] = memory[s]
      /\ result = "ok" => memory'[op[o].slot] = op[o].rec
  BY <1>1, <1>2
<1>5. UNCHANGED <<slot, table, tick, op, byRec, pinned, submitQ, cmdQ, client, intents, cursor, served,
                  curGraph, graph, life, count, disp, fatal>>
  BY <1>1 DEF cacheVars, clientVars, guessVars, envVars
<1>6. TypeOK'
  BY <1>3, <1>4, <1>5 DEF TypeOK, CacheTypeOK
<1>7. Used' = Used /\ (Alive' <=> Alive) /\ Busy' = Busy /\ Planned' = Planned /\ (HasRank' <=> HasRank)
  BY <1>3, <1>5 DEF Used, Alive, Busy, Planned, HasRank
<1>8. Indexed'
  BY <1>5, <1>7 DEF Indexed, OpsExact, RecsExact, PinsExact, TableExact
<1>9. Placed'
  BY <1>3, <1>5, <1>7 DEF Placed, PlacedIn
<1>10. Published'
  BY <1>2, <1>4, <1>5, TableElsewhere DEF Published, TypeOK, CacheTypeOK, EntryType
<1>11. Arrived'
  <2> SUFFICES ASSUME NEW c \in Channels, chan'[c].op # NoOp, chan'[c].read = "ok"
               PROVE  memory'[op[chan[c].op].slot] = op[chan[c].op].rec
    BY <1>3, <1>5 DEF Arrived
  <2>1. CASE c = ch
    BY <1>3, <1>4, <2>1
  <2>2. CASE c # ch
    <3>1. chan[c].op \in Used /\ chan[c].op # o /\ chan[c].op # NoOp /\ chan[c].read = "ok"
      BY <1>1, <1>3, <2>2 DEF Placed, PlacedIn
    <3>2. op[chan[c].op].slot \in Slots \ {op[o].slot}
      BY <1>2, <3>1, ReadsApart DEF Indexed, OpsExact
    <3> QED
      BY <1>1, <1>4, <3>1, <3>2 DEF Arrived
  <2> QED
    BY <2>1, <2>2
<1>12. Listed' /\ IntentsNamed' /\ CommandsQueued'
  BY <1>5 DEF Listed, IntentsNamed, CommandsQueued
<1>13. Counted'
  <2>1. \A c \in Clients : ListedBy(c)' = ListedBy(c)
    BY <1>5 DEF ListedBy
  <2> QED
    BY <1>5, <2>1 DEF Counted
<1>14. GuessFresh' /\ TailKnows'
  BY <1>5, <1>7 DEF GuessFresh, TailKnows, Quiet
<1> QED
  BY <1>6, <1>8, <1>9, <1>10, <1>11, <1>12, <1>13, <1>14

-----------------------------------------------------------------------------
(* The pump takes the lowest free channel.                                  *)
LEMMA FreeChannelType ==
  ASSUME Busy # Channels
  PROVE  FreeChannel \in Channels /\ chan[FreeChannel].op = NoOp
<1>1. Channels \ Busy # {} /\ Channels \ Busy \subseteq Nat
  BY DispatcherAssumption DEF Busy, Channels
<1>2. PICK c \in Channels \ Busy : \A d \in Channels \ Busy : <<d, c>> \notin OpToRel(<, Nat)
  BY Zenon, <1>1, WFMin, NatLessThanWellFounded
<1>3. \A d \in Channels \ Busy : c <= d
  <2> SUFFICES ASSUME NEW d \in Channels \ Busy PROVE c <= d
    OBVIOUS
  <2>1. d \in Nat /\ c \in Nat /\ ~(d < c)
    BY <1>1, <1>2 DEF OpToRel
  <2> QED
    BY <2>1
<1>4. FreeChannel \in Channels \ Busy
  BY <1>3 DEF FreeChannel
<1> QED
  BY <1>4 DEF Busy

(* A submission puts the read on a channel, or ends it, and keeps the       *)
(* invariant.                                                               *)
LEMMA SubmitStep ==
  ASSUME DispatcherInv, SubmitPending
  PROVE  DispatcherInv'
<1> USE DEF DispatcherInv
<1> DEFINE o == Head(submitQ)
           f == FreeChannel
<1>1. /\ Alive /\ disp.pc \in {"pump", "pumpIssued"} /\ submitQ # <<>> /\ Busy # Channels
      /\ submitQ' = Tail(submitQ)
      /\ chan' = [chan EXCEPT ![f] = [op |-> o, read |-> "reading"]]
      /\ memory' = [memory EXCEPT ![op[o].slot] = NoRec]
      /\ UNCHANGED <<cacheVars, op, byRec, pinned, clientVars, guessVars, envVars, disp, fatal>>
  BY DEF SubmitPending, Pumping, At
<1>2. f \in Channels /\ chan[f].op = NoOp
  BY <1>1, FreeChannelType
<1>3. submitQ \in Seq(Ops) /\ PlacedIn(Used, submitQ, chan)
  BY <1>1 DEF TypeOK, Placed
<1>4. /\ o \in Used /\ o \in Ops /\ submitQ' \in Seq(Ops)
      /\ \A i \in DOMAIN submitQ' : i + 1 \in DOMAIN submitQ /\ submitQ'[i] = submitQ[i + 1]
      /\ PlacedIn(Used \ {o}, submitQ', chan)
  BY <1>1, <1>3, TakenFromQueue
<1>5. /\ op[o].slot \in Slots /\ o # NoOp /\ NoOp \notin Used
      /\ chan \in [Channels -> [op : Ops \cup {NoOp}, read : {"none", "reading", "ok", "short", "error"}]]
      /\ memory \in [Slots -> Records \cup {NoRec}]
  BY <1>4, FiniteSlots DEF Indexed, OpsExact, TypeOK, Used
<1> HIDE DEF o, f
<1>6. /\ chan' \in [Channels -> [op : Ops \cup {NoOp}, read : {"none", "reading", "ok", "short", "error"}]]
      /\ chan'[f] = [op |-> o, read |-> "reading"]
      /\ \A c \in Channels \ {f} : chan'[c] = chan[c]
  BY <1>1, <1>2, <1>4, <1>5
<1>7. /\ memory' \in [Slots -> Records \cup {NoRec}]
      /\ \A s \in Slots \ {op[o].slot} : memory'[s] = memory[s]
  BY <1>1, <1>5
<1>8. UNCHANGED <<slot, table, tick, op, byRec, pinned, cmdQ, client, intents, cursor, served,
                  curGraph, graph, life, count, disp, fatal>>
  BY <1>1 DEF cacheVars, clientVars, guessVars, envVars
<1>9. TypeOK'
  BY <1>4, <1>6, <1>7, <1>8 DEF TypeOK, CacheTypeOK
<1>10. Used' = Used /\ (Alive' <=> Alive)
  BY <1>8 DEF Used, Alive
<1>11. Indexed'
  BY <1>8, <1>10 DEF Indexed, OpsExact, RecsExact, PinsExact, TableExact
<1>12. Placed'
  <2>1. PlacedIn((Used \ {o}) \cup {o}, submitQ', chan')
    BY <1>2, <1>4, <1>5, <1>6, PutOnChannel
  <2>2. (Used \ {o}) \cup {o} = Used
    BY <1>4
  <2> QED
    BY <1>10, <2>1, <2>2 DEF Placed
<1>13. Published'
  <2> SUFFICES ASSUME NEW r \in Records, table[r].slot # NoSlot PROVE memory'[table[r].slot] = r
    BY <1>8 DEF Published
  <2>1. table[r].slot \in Slots /\ table[r].slot # op[o].slot
    BY <1>4, TableElsewhere DEF TypeOK, CacheTypeOK, EntryType
  <2> QED
    BY <1>7, <2>1 DEF Published
<1>14. Arrived'
  <2> SUFFICES ASSUME NEW c \in Channels, chan'[c].op # NoOp, chan'[c].read = "ok"
               PROVE  memory'[op[chan'[c].op].slot] = op[chan'[c].op].rec
    BY <1>8 DEF Arrived
  <2>1. c # f /\ chan'[c] = chan[c]
    BY <1>6
  <2>2. chan[c].op \in Used \ {o}
    BY <1>4, <2>1 DEF PlacedIn
  <2>3. op[chan[c].op].slot \in Slots \ {op[o].slot}
    BY <1>4, <2>2, ReadsApart DEF Indexed, OpsExact
  <2> QED
    BY <1>1, <1>7, <2>1, <2>3 DEF Arrived
<1>15. Listed' /\ IntentsNamed' /\ CommandsQueued'
  BY <1>8 DEF Listed, IntentsNamed, CommandsQueued
<1>16. Counted'
  <2>1. \A c \in Clients : ListedBy(c)' = ListedBy(c)
    BY <1>8 DEF ListedBy
  <2> QED
    BY <1>8, <2>1 DEF Counted
<1>17. GuessFresh'
  <2>1. disp.pc = "pumpIssued" => submitQ' = <<>>
    BY <1>1, <1>3 DEF GuessFresh
  <2> QED
    BY <1>1, <1>4, <1>8, <2>1 DEF GuessFresh
<1>18. TailKnows'
  BY <1>1, <1>8 DEF TailKnows
<1> QED
  BY <1>9, <1>11, <1>12, <1>13, <1>14, <1>15, <1>16, <1>17, <1>18

-----------------------------------------------------------------------------
(* Reads that are tried again wait as demands.                              *)
LEMMA EndFresh ==
  ASSUME DispatcherInv, NEW o, NEW q, Frame(o, q), Ended(o, q),
         \A i \in DOMAIN q : op[q[i]].origin # "prefetch"
  PROVE  /\ \A i \in DOMAIN submitQ' : op'[submitQ'[i]].origin # "prefetch"
         /\ submitQ' = q \/ \E n \in Ops : submitQ' = Append(q, n)
<1> USE DEF Frame
<1>1. CASE Dead(o, q)
  BY <1>1 DEF Dead
<1>2. CASE Gone(o, q)
  <2>1. \A i \in DOMAIN q : q[i] \in Ops \ {o}
    BY DEF PlacedIn, Used
  <2> QED
    BY <1>2, <2>1 DEF Gone
<1>3. ASSUME NEW n \in Ops \ Used, Moved(o, n, q)
      PROVE  /\ \A i \in DOMAIN submitQ' : op'[submitQ'[i]].origin # "prefetch"
             /\ submitQ' = Append(q, n)
  <2>1. \A i \in DOMAIN q : q[i] \in Ops \ {o, n}
    BY <1>3 DEF PlacedIn, Used
  <2>2. \A i \in DOMAIN Append(q, n) : Append(q, n)[i] = n \/ (i \in DOMAIN q /\ Append(q, n)[i] = q[i])
    BY <1>3
  <2>3. \A p \in Ops \ {o, n} : op'[p] = op[p]
    BY <1>3 DEF Moved
  <2>4. submitQ' = Append(q, n) /\ op'[n].origin = "demand"
    BY <1>3 DEF Moved
  <2> QED
    BY <2>1, <2>2, <2>3, <2>4
<1>4. Dead(o, q) \/ Gone(o, q) => submitQ' = q
  BY DEF Dead, Gone
<1> QED
  BY <1>1, <1>2, <1>3, <1>4, EndPool

(* A read is taken off its channel.                                         *)
LEMMA OffChannel ==
  ASSUME DispatcherInv, Alive, NEW ch \in Channels, chan[ch].op # NoOp,
         chan' = [chan EXCEPT ![ch] = IdleChannel],
         memory' = memory, disp'.pc = disp.pc, cmdQ' = cmdQ
  PROVE  /\ Frame(chan[ch].op, submitQ)
         /\ chan' \in [Channels -> [op : Ops \cup {NoOp},
                                   read : {"none", "reading", "ok", "short", "error"}]]
<1> USE DEF DispatcherInv
<1>1. chan \in [Channels -> [op : Ops \cup {NoOp}, read : {"none", "reading", "ok", "short", "error"}]]
  BY DEF TypeOK
<1>2. /\ chan' \in [Channels -> [op : Ops \cup {NoOp}, read : {"none", "reading", "ok", "short", "error"}]]
      /\ chan'[ch].op = NoOp /\ \A d \in Channels \ {ch} : chan'[d] = chan[d]
  BY <1>1 DEF IdleChannel
<1>3. PlacedIn(Used, submitQ, chan) /\ NoOp \notin Used /\ submitQ \in Seq(Ops)
  BY FiniteSlots DEF Placed, Used, TypeOK
<1>4. chan[ch].op \in Used /\ PlacedIn(Used \ {chan[ch].op}, submitQ, chan')
  <2>1. chan[ch].op \in Used
    BY <1>3 DEF PlacedIn
  <2> QED
    BY ONLY <1>2, <1>3, <2>1, chan[ch].op # NoOp, ch \in Channels, TakenFromChannel
<1> QED
  BY <1>2, <1>3, <1>4 DEF Frame

(* A read is taken off the submit queue.                                    *)
LEMMA OffQueue ==
  ASSUME DispatcherInv, Alive, submitQ # <<>>, chan' = chan, disp'.pc = disp.pc, cmdQ' = cmdQ,
         memory' = memory \/ \E m \in {op[Head(submitQ)].rec, NoRec} :
                                memory' = [memory EXCEPT ![op[Head(submitQ)].slot] = m]
  PROVE  /\ Frame(Head(submitQ), Tail(submitQ)) /\ memory' \in [Slots -> Records \cup {NoRec}]
         /\ \A i \in DOMAIN Tail(submitQ) : i + 1 \in DOMAIN submitQ
                                            /\ Tail(submitQ)[i] = submitQ[i + 1]
         /\ Head(submitQ) = submitQ[1] /\ 1 \in DOMAIN submitQ
         /\ op[Head(submitQ)].slot \in Slots
<1> USE DEF DispatcherInv
<1>1. submitQ \in Seq(Ops) /\ PlacedIn(Used, submitQ, chan)
  BY DEF TypeOK, Placed
<1>2. /\ Head(submitQ) \in Used /\ Tail(submitQ) \in Seq(Ops)
      /\ \A i \in DOMAIN Tail(submitQ) : i + 1 \in DOMAIN submitQ /\ Tail(submitQ)[i] = submitQ[i + 1]
      /\ PlacedIn(Used \ {Head(submitQ)}, Tail(submitQ), chan)
      /\ Head(submitQ) = submitQ[1] /\ 1 \in DOMAIN submitQ
  BY <1>1, TakenFromQueue
<1>3. op[Head(submitQ)].slot \in Slots /\ op[Head(submitQ)].rec \in Records
      /\ memory \in [Slots -> Records \cup {NoRec}]
  BY <1>2 DEF Indexed, OpsExact, TypeOK
<1>4. /\ memory' \in [Slots -> Records \cup {NoRec}]
      /\ \A s \in Slots \ {op[Head(submitQ)].slot} : memory'[s] = memory[s]
  BY <1>3
<1>5. Frame(Head(submitQ), Tail(submitQ))
  BY <1>2, <1>4 DEF Frame
<1> QED
  BY <1>2, <1>3, <1>4, <1>5

(* A channel whose read has ended is freed, and the end of the read keeps   *)
(* the invariant.                                                           *)
LEMMA RetireStep ==
  ASSUME DispatcherInv, Retire
  PROVE  DispatcherInv'
<1> USE DEF DispatcherInv
<1>1. PICK ch \in Signaled : /\ disp' = [disp EXCEPT !.chan = ch + 1]
                             /\ chan' = [chan EXCEPT ![ch] = IdleChannel]
                             /\ Terminal(chan[ch].op, chan[ch].read, submitQ)
  BY DEF Retire
<1> DEFINE o == chan[ch].op
<1>2. Alive /\ disp.pc = "retire" /\ UNCHANGED <<memory, cmdQ, guessVars, envVars>>
  BY DEF Retire, At
<1>3. ch \in Channels /\ o # NoOp /\ ch \in Nat /\ ch + 1 \in Nat
  BY DispatcherAssumption DEF Signaled, Busy, Channels
<1>4. /\ disp' \in [pc : TurnPc, chan : Nat, deferred : BOOLEAN, stop : {"no", "graceful", "abort"}]
      /\ disp'.pc = disp.pc /\ disp'.stop = disp.stop
  <2>1. disp \in [pc : TurnPc, chan : Nat, deferred : BOOLEAN, stop : {"no", "graceful", "abort"}]
    BY DEF TypeOK
  <2>2. PICK n \in Nat : disp' = [disp EXCEPT !.chan = n]
    BY <1>1, <1>3
  <2> QED
    BY ONLY <2>1, <2>2
<1>5. /\ Frame(o, submitQ)
      /\ chan' \in [Channels -> [op : Ops \cup {NoOp},
                                read : {"none", "reading", "ok", "short", "error"}]]
  BY <1>1, <1>2, <1>3, <1>4, OffChannel
<1>6. Ended(o, submitQ)
  <2>1. o \in Used /\ (chan[ch].read = "ok" => memory'[op[o].slot] = op[o].rec)
    BY <1>2, <1>3, <1>5 DEF Frame, Arrived
  <2> QED
    BY <1>1, <1>2, <2>1, TerminalEnds
<1> HIDE DEF o
<1>7. /\ TypeOK' /\ Indexed' /\ Placed' /\ Published' /\ Arrived' /\ Listed' /\ Counted'
      /\ IntentsNamed' /\ CommandsQueued'
  <2>1. memory' \in [Slots -> Records \cup {NoRec}]
    BY <1>2 DEF TypeOK
  <2> QED
    BY <1>2, <1>4, <1>5, <1>6, <2>1, EndOfRead
<1>8. GuessFresh'
  <2>1. \A i \in DOMAIN submitQ : op[submitQ[i]].origin # "prefetch"
    BY <1>2 DEF GuessFresh
  <2> QED
    BY <1>2, <1>4, <1>5, <1>6, <2>1, EndFresh DEF GuessFresh
<1>9. TailKnows'
  BY <1>2, <1>4 DEF TailKnows, envVars
<1> QED
  BY <1>7, <1>8, <1>9

(* The submit queue after a read at its head ended without a channel.       *)
LEMMA HeadEnds ==
  ASSUME DispatcherInv, Alive, submitQ # <<>>, Frame(Head(submitQ), Tail(submitQ)),
         Ended(Head(submitQ), Tail(submitQ)), chan' = chan, disp' = disp,
         disp.pc \in {"pump", "pumpIssued", "abort"}
  PROVE  GuessFresh'
<1> USE DEF DispatcherInv
<1>1. submitQ \in Seq(Ops)
  BY DEF TypeOK
<1>2. /\ \A i \in DOMAIN Tail(submitQ) : i + 1 \in DOMAIN submitQ /\ Tail(submitQ)[i] = submitQ[i + 1]
      /\ Len(submitQ) = 1 => Tail(submitQ) = <<>>
  <2>1. \A i \in DOMAIN Tail(submitQ) : i + 1 \in DOMAIN submitQ /\ Tail(submitQ)[i] = submitQ[i + 1]
    BY <1>1
  <2>2. Tail(submitQ) \in Seq(Ops) /\ Len(Tail(submitQ)) = Len(submitQ) - 1
    BY <1>1, HeadTailProperties
  <2>3. ASSUME Len(submitQ) = 1 PROVE Tail(submitQ) = <<>>
    <3>1. Len(Tail(submitQ)) = 0 /\ Tail(submitQ) \in Seq(Ops)
      BY <2>2, <2>3
    <3>2. \A t \in Seq(Ops) : t # <<>> => Len(t) \in Nat \ {0}
      BY EmptySeq
    <3> QED
      BY ONLY <3>1, <3>2
  <2> QED
    BY <2>1, <2>3
<1>3. disp.pc = "pumpIssued" => Tail(submitQ) = <<>> /\ Busy # Channels
  BY <1>2 DEF GuessFresh
<1>4. \A i \in DOMAIN Tail(submitQ) : op[Tail(submitQ)[i]].origin # "prefetch"
  BY <1>2, <1>3 DEF GuessFresh
<1>5. /\ \A i \in DOMAIN submitQ' : op'[submitQ'[i]].origin # "prefetch"
      /\ submitQ' = Tail(submitQ) \/ \E n \in Ops : submitQ' = Append(Tail(submitQ), n)
  BY <1>4, EndFresh
<1>6. disp.pc = "pumpIssued" => submitQ' = <<>> \/ Len(submitQ') = 1
  <2>1. \A n \in Ops : Len(Append(<<>>, n)) = 1
    OBVIOUS
  <2> QED
    BY <1>3, <1>5, <2>1
<1>7. Busy' = Busy
  BY DEF Busy
<1> QED
  BY <1>3, <1>5, <1>6, <1>7 DEF GuessFresh

(* A submission completes on the spot, or is refused.                       *)
LEMMA SyncStep ==
  ASSUME DispatcherInv, (\E result \in {"ok", "short"} : SubmitSync(result)) \/ SubmitRefused
  PROVE  DispatcherInv'
<1> USE DEF DispatcherInv
<1> DEFINE o == Head(submitQ)
<1>1. /\ Alive /\ disp.pc \in {"pump", "pumpIssued"} /\ submitQ # <<>>
      /\ UNCHANGED <<chan, cmdQ, guessVars, envVars, disp>>
      /\ memory' = memory \/ \E m \in {op[o].rec, NoRec} : memory' = [memory EXCEPT ![op[o].slot] = m]
  BY DEF SubmitSync, SubmitRefused, Pumping, At
<1>2. /\ Frame(o, Tail(submitQ)) /\ memory' \in [Slots -> Records \cup {NoRec}]
      /\ o = submitQ[1] /\ 1 \in DOMAIN submitQ /\ op[o].slot \in Slots
  BY <1>1, OffQueue
<1>3. o \in Used /\ o \in Ops /\ memory \in [Slots -> Records \cup {NoRec}]
  BY <1>2 DEF Frame, Used, TypeOK
<1>4. Ended(o, Tail(submitQ))
  <2>1. ASSUME NEW result \in {"ok", "short"}, SubmitSync(result)
        PROVE  Ended(o, Tail(submitQ))
    <3>1. /\ Terminal(o, result, Tail(submitQ))
          /\ memory' = [memory EXCEPT ![op[o].slot] = IF result = "ok" THEN op[o].rec ELSE NoRec]
      BY <2>1 DEF SubmitSync
    <3>2. result = "ok" => memory'[op[o].slot] = op[o].rec
      BY <1>2, <1>3, <3>1
    <3> HIDE DEF o
    <3> QED
      BY <1>1, <1>3, <3>1, <3>2, TerminalEnds
  <2>2. CASE SubmitRefused
    <3>1. CASE op[o].origin = "demand"
      BY <2>2, <3>1 DEF SubmitRefused, Ended
    <3>2. CASE op[o].origin # "demand"
      <4>1. op[o].origin = "prefetch"
        BY <1>3, <3>2 DEF TypeOK, OpType
      <4>2. op[o].waiters = {}
        BY <1>2, <4>1 DEF GuessFresh
      <4>3. DiscardWith(o, Tail(submitQ)) /\ client' = client
        BY <2>2, <3>2 DEF SubmitRefused, DiscardWith
      <4> QED
        BY <4>2, <4>3 DEF Ended, Forgotten
    <3> QED
      BY <3>1, <3>2
  <2> QED
    BY <2>1, <2>2
<1>5. GuessFresh'
  BY <1>1, <1>2, <1>4, HeadEnds
<1> HIDE DEF o
<1>6. /\ TypeOK' /\ Indexed' /\ Placed' /\ Published' /\ Arrived' /\ Listed' /\ Counted'
      /\ IntentsNamed' /\ CommandsQueued'
  BY <1>1, <1>2, <1>4, EndOfRead DEF TypeOK
<1>7. TailKnows'
  BY <1>1 DEF TailKnows, envVars
<1> QED
  BY <1>5, <1>6, <1>7

(* A read in flight is cancelled, at the graceful end or by the abort.      *)
LEMMA CancelStep ==
  ASSUME DispatcherInv, CancelGuess \/ AbortRead
  PROVE  DispatcherInv'
<1> USE DEF DispatcherInv
<1>1. PICK ch \in Busy : /\ DropRead(ch)
                         /\ \/ disp.pc = "abort"
                            \/ disp.pc = "cancel" /\ op[chan[ch].op].waiters = {}
  BY DEF CancelGuess, AbortRead, BusyWith, At
<1> DEFINE o == chan[ch].op
<1>2. /\ Alive /\ ch \in Channels /\ o # NoOp
      /\ UNCHANGED <<memory, cmdQ, guessVars, envVars, disp>>
      /\ chan' = [chan EXCEPT ![ch] = IdleChannel]
      /\ Die("cancel", submitQ) \/ Discard(o, submitQ)
  BY <1>1 DEF CancelGuess, AbortRead, At, Busy, DropRead
<1>3. /\ Frame(o, submitQ)
      /\ chan' \in [Channels -> [op : Ops \cup {NoOp},
                                read : {"none", "reading", "ok", "short", "error"}]]
  BY Zenon, <1>2, OffChannel
<1>4. disp.pc = "cancel" => client' = client
  <2>1. CASE Die("cancel", submitQ)
    BY <2>1 DEF Die
  <2>2. CASE Discard(o, submitQ)
    BY <1>1, <2>2 DEF Discard, TypeOK
  <2> QED
    BY <1>2, <2>1, <2>2
<1>5. Ended(o, submitQ) /\ submitQ' = submitQ
  BY <1>1, <1>2, <1>4 DEF Ended, Forgotten, Die, Discard, DiscardWith
<1> HIDE DEF o
<1>6. /\ TypeOK' /\ Indexed' /\ Placed' /\ Published' /\ Arrived' /\ Listed' /\ Counted'
      /\ IntentsNamed' /\ CommandsQueued'
  BY <1>2, <1>3, <1>5, EndOfRead DEF TypeOK
<1>7. GuessFresh'
  <2>1. \A i \in DOMAIN submitQ : op[submitQ[i]].origin # "prefetch"
    BY <1>1 DEF GuessFresh
  <2> QED
    BY <1>1, <1>2, <1>3, <1>5, <2>1, EndFresh DEF GuessFresh
<1>8. TailKnows'
  <2>1. disp.pc = "cancel" => Quiet'
    BY <1>2, <1>4, <1>5 DEF TailKnows, Quiet, Planned, HasRank, guessVars
  <2> QED
    BY <1>1, <1>2, <2>1 DEF TailKnows, envVars
<1> QED
  BY <1>6, <1>7, <1>8

(* The abort drops a read that was not submitted yet.                       *)
LEMMA AbortQueuedStep ==
  ASSUME DispatcherInv, AbortQueued
  PROVE  DispatcherInv'
<1> USE DEF DispatcherInv
<1> DEFINE o == Head(submitQ)
<1>1. /\ Alive /\ disp.pc = "abort" /\ submitQ # <<>> /\ Discard(o, Tail(submitQ))
      /\ UNCHANGED <<chan, memory, cmdQ, guessVars, envVars, disp>>
  BY DEF AbortQueued, At
<1>2. Frame(o, Tail(submitQ)) /\ memory' \in [Slots -> Records \cup {NoRec}]
  BY <1>1, OffQueue
<1>3. Ended(o, Tail(submitQ))
  BY <1>1 DEF Ended, Forgotten
<1>4. GuessFresh'
  BY <1>1, <1>2, <1>3, HeadEnds
<1> HIDE DEF o
<1>5. /\ TypeOK' /\ Indexed' /\ Placed' /\ Published' /\ Arrived' /\ Listed' /\ Counted'
      /\ IntentsNamed' /\ CommandsQueued'
  BY <1>1, <1>2, <1>3, EndOfRead DEF TypeOK
<1>6. TailKnows'
  BY <1>1 DEF TailKnows, envVars
<1> QED
  BY <1>4, <1>5, <1>6

-----------------------------------------------------------------------------
(* Claiming the slots s for the records rec, to be read by the entries o:   *)
(* the victims are neither pinned nor leased, the records neither resident  *)
(* nor in flight, the entries free.                                         *)
Claims(P, rec, s, o) ==
  /\ rec \in [P -> Records] /\ s \in [P -> Slots] /\ o \in [P -> Ops]
  /\ \A j, k \in P : rec[j] = rec[k] \/ s[j] = s[k] \/ o[j] = o[k] => j = k
  /\ \A k \in P : /\ ~Resident(rec[k]) /\ byRec[rec[k]] = NoOp
                  /\ ~pinned[s[k]] /\ slot[s[k]].lease = 0 /\ o[k] \notin Used
  /\ table' = Detached({s[k] : k \in P})
  /\ \A k \in P : /\ slot'[s[k]].owner = rec[k] /\ slot'[s[k]].gen = slot[s[k]].gen + 1
                  /\ slot'[s[k]].lease = 0
  /\ \A t \in Slots : (\A k \in P : s[k] # t) =>
       /\ slot'[t].owner = slot[t].owner /\ slot'[t].gen = slot[t].gen
       /\ pinned[t] => slot'[t].lease = slot[t].lease
  /\ \A t \in Slots : pinned'[t] <=> pinned[t] \/ \E k \in P : s[k] = t
  /\ \A k \in P : /\ op'[o[k]].inUse /\ op'[o[k]].rec = rec[k] /\ op'[o[k]].slot = s[k]
                  /\ op'[o[k]].gen = slot[s[k]].gen + 1
  /\ \A p \in Ops : (\A k \in P : o[k] # p) =>
       /\ op'[p].inUse = op[p].inUse /\ op'[p].rec = op[p].rec /\ op'[p].slot = op[p].slot
       /\ op'[p].gen = op[p].gen
  /\ \A k \in P : byRec'[rec[k]] = o[k]
  /\ \A r \in Records : (\A k \in P : rec[k] # r) => byRec'[r] = byRec[r]

(* A record that is not resident has no place in the table.                 *)
LEMMA NotResident ==
  ASSUME TypeOK, Indexed, NEW r \in Records
  PROVE  Resident(r) <=> table[r].slot # NoSlot
BY DEF Indexed, TableExact, Resident

(* The slots a plan claims, and the pool entries it fills, keep the indices *)
(* agreeing.                                                                *)
LEMMA ClaimKeeps ==
  ASSUME DispatcherInv, NEW P, NEW rec, NEW s, NEW o, Claims(P, rec, s, o),
         memory' = memory, chan' = chan, fatal' = fatal
  PROVE  /\ table' \in [Records -> EntryType] /\ Used' = Used \cup {o[k] : k \in P}
         /\ Indexed' /\ Published' /\ Arrived'
<1> USE DEF DispatcherInv
<1>1. /\ rec \in [P -> Records] /\ s \in [P -> Slots] /\ o \in [P -> Ops]
      /\ \A j, k \in P : rec[j] = rec[k] \/ s[j] = s[k] \/ o[j] = o[k] => j = k
      /\ \A k \in P : /\ ~Resident(rec[k]) /\ byRec[rec[k]] = NoOp
                      /\ ~pinned[s[k]] /\ slot[s[k]].lease = 0 /\ o[k] \notin Used
  BY DEF Claims
<1>2. /\ \A k \in P : /\ slot'[s[k]].owner = rec[k] /\ slot'[s[k]].gen = slot[s[k]].gen + 1
                      /\ slot'[s[k]].lease = 0
      /\ \A t \in Slots : (\A k \in P : s[k] # t) =>
           /\ slot'[t].owner = slot[t].owner /\ slot'[t].gen = slot[t].gen
           /\ pinned[t] => slot'[t].lease = slot[t].lease
  BY DEF Claims
<1>3. \A t \in Slots : pinned'[t] <=> pinned[t] \/ \E k \in P : s[k] = t
  BY DEF Claims
<1>4. /\ \A k \in P : /\ op'[o[k]].inUse /\ op'[o[k]].rec = rec[k] /\ op'[o[k]].slot = s[k]
                      /\ op'[o[k]].gen = slot[s[k]].gen + 1
      /\ \A p \in Ops : (\A k \in P : o[k] # p) =>
           /\ op'[p].inUse = op[p].inUse /\ op'[p].rec = op[p].rec /\ op'[p].slot = op[p].slot
           /\ op'[p].gen = op[p].gen
  BY DEF Claims
<1>5. /\ \A k \in P : byRec'[rec[k]] = o[k]
      /\ \A r \in Records : (\A k \in P : rec[k] # r) => byRec'[r] = byRec[r]
  BY DEF Claims
<1>6. /\ table \in [Records -> EntryType] /\ table' \in [Records -> EntryType]
      /\ \A r \in Records : /\ table[r].slot = NoSlot => table'[r].slot = NoSlot
                            /\ table'[r].slot # NoSlot =>
                                 table'[r] = table[r] /\ \A k \in P : slot[s[k]].owner # r
  <2>1. table \in [Records -> EntryType]
    BY DEF TypeOK, CacheTypeOK
  <2>2. table' = [r \in Records |-> IF \E k \in P : slot[s[k]].owner = r
                                     THEN [table[r] EXCEPT !.slot = NoSlot] ELSE table[r]]
    <3>1. table' = Detached({s[k] : k \in P})
      BY DEF Claims
    <3> QED
      BY <3>1 DEF Detached
  <2>3. \A r \in Records : /\ table[r] \in EntryType
                           /\ [table[r] EXCEPT !.slot = NoSlot] \in EntryType
                           /\ [table[r] EXCEPT !.slot = NoSlot].slot = NoSlot
    BY <2>1 DEF EntryType
  <2> QED
    BY <2>1, <2>2, <2>3
<1>7. \A k \in P : table[rec[k]].slot = NoSlot
  BY <1>1, NotResident
<1>8. Used' = Used \cup {o[k] : k \in P}
  BY <1>1, <1>4 DEF Used
<1>9. ASSUME NEW p \in Used
      PROVE  /\ \A k \in P : o[k] # p /\ rec[k] # op[p].rec /\ s[k] # op[p].slot
             /\ op'[p].rec = op[p].rec /\ op'[p].slot = op[p].slot /\ op'[p].gen = op[p].gen
             /\ op[p].rec \in Records /\ op[p].slot \in Slots
             /\ byRec[op[p].rec] = p /\ pinned[op[p].slot]
             /\ slot[op[p].slot].owner = op[p].rec /\ slot[op[p].slot].gen = op[p].gen
             /\ slot[op[p].slot].lease = 0 /\ table[op[p].rec].slot = NoSlot
  <2>1. /\ op[p].rec \in Records /\ op[p].slot \in Slots
        /\ byRec[op[p].rec] = p /\ pinned[op[p].slot]
        /\ slot[op[p].slot].owner = op[p].rec /\ slot[op[p].slot].gen = op[p].gen
        /\ slot[op[p].slot].lease = 0 /\ table[op[p].rec].slot = NoSlot
    BY DEF Indexed, OpsExact
  <2>2. p # NoOp /\ p \in Ops
    BY FiniteSlots DEF Used
  <2>3. \A k \in P : o[k] # p /\ rec[k] # op[p].rec /\ s[k] # op[p].slot
    BY <1>1, <2>1, <2>2
  <2> QED
    BY <1>4, <2>1, <2>2, <2>3
<1>10. OpsExact'
  <2> SUFFICES ASSUME NEW p \in Used'
               PROVE  /\ op'[p].rec \in Records /\ op'[p].slot \in Slots
                      /\ byRec'[op'[p].rec] = p /\ pinned'[op'[p].slot]
                      /\ slot'[op'[p].slot].owner = op'[p].rec /\ slot'[op'[p].slot].gen = op'[p].gen
                      /\ slot'[op'[p].slot].lease = 0 /\ table'[op'[p].rec].slot = NoSlot
    BY DEF OpsExact
  <2>1. ASSUME NEW k \in P, p = o[k]
        PROVE  /\ op'[p].rec \in Records /\ op'[p].slot \in Slots
               /\ byRec'[op'[p].rec] = p /\ pinned'[op'[p].slot]
               /\ slot'[op'[p].slot].owner = op'[p].rec /\ slot'[op'[p].slot].gen = op'[p].gen
               /\ slot'[op'[p].slot].lease = 0 /\ table'[op'[p].rec].slot = NoSlot
    <3>1. /\ op'[p].rec = rec[k] /\ op'[p].slot = s[k] /\ op'[p].gen = slot[s[k]].gen + 1
          /\ rec[k] \in Records /\ s[k] \in Slots
      BY <1>1, <1>4, <2>1
    <3> QED
      BY <1>2, <1>3, <1>5, <1>6, <1>7, <2>1, <3>1
  <2>2. CASE p \in Used
    <3>1. byRec'[op[p].rec] = p /\ pinned'[op[p].slot]
      BY <1>3, <1>5, <1>9, <2>2
    <3>2. /\ slot'[op[p].slot].owner = op[p].rec /\ slot'[op[p].slot].gen = op[p].gen
          /\ slot'[op[p].slot].lease = 0 /\ table'[op[p].rec].slot = NoSlot
      BY <1>2, <1>6, <1>9, <2>2
    <3> QED
      BY <1>9, <2>2, <3>1, <3>2
  <2> QED
    BY <1>8, <2>1, <2>2
<1>11. RecsExact'
  <2> SUFFICES ASSUME NEW r \in Records, byRec'[r] # NoOp
               PROVE  byRec'[r] \in Used' /\ op'[byRec'[r]].rec = r
    BY DEF RecsExact
  <2>1. ASSUME NEW k \in P, rec[k] = r PROVE byRec'[r] \in Used' /\ op'[byRec'[r]].rec = r
    BY <1>4, <1>5, <1>8, <2>1
  <2>2. CASE \A k \in P : rec[k] # r
    <3>1. byRec'[r] = byRec[r] /\ byRec[r] \in Used /\ op[byRec[r]].rec = r
      BY <1>5, <2>2 DEF Indexed, RecsExact
    <3> QED
      BY <1>8, <1>9, <3>1
  <2> QED
    BY <2>1, <2>2
<1>12. PinsExact'
  <2> SUFFICES ASSUME NEW t \in Slots, pinned'[t] PROVE \E p \in Used' : op'[p].slot = t
    BY DEF PinsExact
  <2>1. ASSUME NEW k \in P, s[k] = t PROVE \E p \in Used' : op'[p].slot = t
    BY <1>4, <1>8, <2>1
  <2>2. CASE pinned[t]
    <3>1. PICK p \in Used : op[p].slot = t
      BY <2>2 DEF Indexed, PinsExact
    <3> QED
      BY <1>8, <1>9, <3>1
  <2> QED
    BY <1>3, <2>1, <2>2
<1>13. ASSUME NEW r \in Records, table'[r].slot # NoSlot
       PROVE  /\ table'[r] = table[r] /\ table[r].slot \in Slots
              /\ \A k \in P : s[k] # table[r].slot
              /\ slot[table[r].slot].owner = r /\ slot[table[r].slot].gen = table[r].gen
  <2>1. /\ table'[r] = table[r] /\ table[r].slot # NoSlot /\ \A k \in P : slot[s[k]].owner # r
    BY <1>6, <1>13
  <2>2. slot[table[r].slot].owner = r /\ slot[table[r].slot].gen = table[r].gen
    BY <2>1 DEF Indexed, TableExact
  <2> QED
    BY <1>6, <2>1, <2>2 DEF EntryType
<1>14. TableExact'
  BY <1>2, <1>13 DEF TableExact
<1>15. Published'
  BY <1>13 DEF Published
<1>16. Arrived'
  <2> SUFFICES ASSUME NEW c \in Channels, Alive, chan[c].op # NoOp, chan[c].read = "ok"
               PROVE  memory[op'[chan[c].op].slot] = op'[chan[c].op].rec
    BY DEF Arrived, Alive
  <2>1. chan[c].op \in Used
    BY DEF Placed, PlacedIn
  <2> QED
    BY <1>9, <2>1 DEF Arrived
<1> QED
  BY <1>6, <1>8, <1>10, <1>11, <1>12, <1>14, <1>15, <1>16 DEF Indexed

(* A claimed slot has the new owner at the next generation.                 *)
LEMMA ClaimedType ==
  ASSUME NEW s, slot[s] \in SlotType, NEW r \in Records, NEW t \in Nat
  PROVE  /\ Claimed(s, r, t) \in SlotType /\ Claimed(s, r, t).owner = r
         /\ Claimed(s, r, t).gen = slot[s].gen + 1 /\ Claimed(s, r, t).lease = slot[s].lease
         /\ slot[s].gen + 1 \in Nat
<1>1. PICK g \in Nat : g = slot[s].gen + 1
  BY DEF SlotType
<1>2. "none" \in Class /\ NoPf \in Nat \X Nat
  BY DEF Class, NoPf
<1>3. Claimed(s, r, t) = [slot[s] EXCEPT !.owner = r, !.gen = g, !.lastUsed = t,
                                        !.class = "none", !.pf = NoPf]
  BY <1>1 DEF Claimed
<1>4. /\ Claimed(s, r, t) \in SlotType /\ Claimed(s, r, t).owner = r
      /\ Claimed(s, r, t).gen = g /\ Claimed(s, r, t).lease = slot[s].lease
  BY <1>2, <1>3 DEF SlotType
<1> QED
  BY <1>1, <1>4

(* The channels are finite, and there are qd of them.                       *)
LEMMA ChannelsFinite == IsFiniteSet(Channels) /\ Cardinality(Channels) = Qd
<1>1. 1 \in Int /\ Qd \in Int /\ Qd > 0
  BY DispatcherAssumption
<1>2. IsFiniteSet(1 .. Qd) /\ Cardinality(1 .. Qd) = Qd
  BY ONLY <1>1, FS_Interval
<1> QED
  BY <1>2 DEF Channels

(* What an admitted guess does to the cache and the pool: it claims the     *)
(* slot s for a read of its own, the entry o, that nobody waits for.        *)
AdmitFacts(s, o, x) ==
  /\ Claims({1}, [k \in {1} |-> Guess], [k \in {1} |-> s], [k \in {1} |-> o])
  /\ ~op[o].inUse /\ x.waiters = {} /\ ~x.retry /\ x.mult = 0
  /\ op' \in [Ops -> OpType] /\ op'[o] = x /\ \A p \in Ops \ {o} : op'[p] = op[p]
  /\ slot' \in [Slots -> SlotType] /\ \A t \in Slots \ {s} : slot'[t] = slot[t]
  /\ byRec' \in [Records -> Ops \cup {NoOp}] /\ byRec'[Guess] = o
  /\ \A r \in Records \ {Guess} : byRec'[r] = byRec[r]
  /\ pinned' \in [Slots -> BOOLEAN] /\ submitQ' = Append(submitQ, o)

(* An admission claims one slot and one entry for the guess it took up.     *)
LEMMA AdmitShape ==
  ASSUME DispatcherInv, AdmitClaim
  PROVE  \E s \in Slots, o \in Ops, x \in OpType : AdmitFacts(s, o, x)
<1> USE DEF DispatcherInv
<1>1. PICK s \in Spare, o \in Ops :
        /\ Entry(o)
        /\ table' = Detached({s})
        /\ slot' = [slot EXCEPT ![s] = Claimed(s, Guess, tick)]
        /\ op' = [op EXCEPT ![o] = [NullOp EXCEPT
                     !.inUse = TRUE, !.rec = Guess, !.slot = s, !.gen = slot[s].gen + 1,
                     !.tick = tick, !.origin = "prefetch",
                     !.pf = <<NextRank.it.ord, NextRank.rank>>]]
        /\ byRec' = [byRec EXCEPT ![Guess] = o]
        /\ pinned' = [pinned EXCEPT ![s] = TRUE]
        /\ submitQ' = Append(submitQ, o)
  BY Zenon DEF AdmitClaim
<1>2. /\ Alive /\ disp.pc = "admit" /\ HasRank /\ Admits /\ TakeRank
      /\ disp' = [disp EXCEPT !.pc = "pumpIssued"]
      /\ UNCHANGED <<tick, chan, memory, clientVars, served, curGraph, envVars, fatal>>
  BY DEF AdmitClaim, At, Goto
<1>3. /\ NextRank \in [it : IntentType, rank : Nat \ {0}] /\ Guess \in Records
      /\ intents' \in Seq(IntentType) /\ IntentsNamed'
      /\ cursor' \in {<<>>} \cup [it : IntentType, rank : Nat \ {0}]
  BY <1>2, RankTaken
<1>4. /\ s \in Slots /\ ~pinned[s] /\ slot[s].lease = 0 /\ slot[s] \in SlotType /\ tick \in Nat
      /\ o \notin Used /\ ~op[o].inUse /\ ~Resident(Guess) /\ byRec[Guess] = NoOp
      /\ op \in [Ops -> OpType] /\ slot \in [Slots -> SlotType]
      /\ byRec \in [Records -> Ops \cup {NoOp}] /\ pinned \in [Slots -> BOOLEAN]
      /\ submitQ \in Seq(Ops)
  BY <1>1, <1>2 DEF Spare, Evictable, Pins, Entry, FreeOps, Used, Admits, TypeOK, CacheTypeOK
<1> DEFINE x == [NullOp EXCEPT !.inUse = TRUE, !.rec = Guess, !.slot = s, !.gen = slot[s].gen + 1,
                               !.tick = tick, !.origin = "prefetch",
                               !.pf = <<NextRank.it.ord, NextRank.rank>>]
<1>5. /\ Claimed(s, Guess, tick) \in SlotType /\ Claimed(s, Guess, tick).owner = Guess
      /\ Claimed(s, Guess, tick).gen = slot[s].gen + 1 /\ Claimed(s, Guess, tick).lease = 0
      /\ slot[s].gen + 1 \in Nat
  BY <1>3, <1>4, ClaimedType
<1>6. /\ x \in OpType /\ x.inUse /\ x.rec = Guess /\ x.slot = s /\ x.gen = slot[s].gen + 1
      /\ x.waiters = {} /\ ~x.retry /\ x.mult = 0
  <2>1. PICK g \in Nat, pf \in Nat \X Nat :
          g = slot[s].gen + 1 /\ pf = <<NextRank.it.ord, NextRank.rank>>
    BY <1>3, <1>5 DEF IntentType
  <2>2. x = [NullOp EXCEPT !.inUse = TRUE, !.rec = Guess, !.slot = s, !.gen = g,
                           !.tick = tick, !.origin = "prefetch", !.pf = pf]
    BY <2>1
  <2> HIDE DEF x
  <2>3. /\ x \in OpType /\ x.inUse /\ x.rec = Guess /\ x.slot = s /\ x.gen = g
        /\ x.waiters = {} /\ ~x.retry /\ x.mult = 0
    BY <1>3, <1>4, <2>2, NullOpType DEF OpType
  <2> QED
    BY <2>1, <2>3
<1> HIDE DEF x
<1>7. /\ slot' \in [Slots -> SlotType] /\ slot'[s] = Claimed(s, Guess, tick)
      /\ \A t \in Slots \ {s} : slot'[t] = slot[t]
  BY <1>1, <1>4, <1>5
<1>8. op' \in [Ops -> OpType] /\ op'[o] = x /\ \A p \in Ops \ {o} : op'[p] = op[p]
  BY <1>1, <1>4, <1>6 DEF x
<1>9. /\ byRec' \in [Records -> Ops \cup {NoOp}] /\ byRec'[Guess] = o
      /\ \A r \in Records \ {Guess} : byRec'[r] = byRec[r]
      /\ pinned' \in [Slots -> BOOLEAN]
      /\ \A t \in Slots : pinned'[t] <=> pinned[t] \/ t = s
  BY <1>1, <1>3, <1>4
<1> DEFINE rec1 == [k \in {1} |-> Guess]
           s1   == [k \in {1} |-> s]
           o1   == [k \in {1} |-> o]
<1>10. Claims({1}, rec1, s1, o1)
  <2>2. /\ rec1 \in [{1} -> Records] /\ s1 \in [{1} -> Slots] /\ o1 \in [{1} -> Ops]
        /\ rec1[1] = Guess /\ s1[1] = s /\ o1[1] = o
    BY <1>3, <1>4
  <2> HIDE DEF rec1, s1, o1
  <2>3. \A k \in {1} : k = 1
    OBVIOUS
  <2>4. \A j, k \in {1} : rec1[j] = rec1[k] \/ s1[j] = s1[k] \/ o1[j] = o1[k] => j = k
    BY <2>3
  <2>5. \A k \in {1} : /\ ~Resident(rec1[k]) /\ byRec[rec1[k]] = NoOp
                       /\ ~pinned[s1[k]] /\ slot[s1[k]].lease = 0 /\ o1[k] \notin Used
    <3> SUFFICES ASSUME NEW k \in {1}
                 PROVE  /\ ~Resident(rec1[k]) /\ byRec[rec1[k]] = NoOp
                        /\ ~pinned[s1[k]] /\ slot[s1[k]].lease = 0 /\ o1[k] \notin Used
      OBVIOUS
    <3>1. rec1[k] = Guess /\ s1[k] = s /\ o1[k] = o
      BY <2>2, <2>3
    <3> QED
      BY <1>4, <3>1
  <2>6. table' = Detached({s1[k] : k \in {1}})
    <3>1. {s1[k] : k \in {1}} = {s}
      BY <2>2, <2>3
    <3> QED
      BY <1>1, <3>1
  <2>7. \A k \in {1} : /\ slot'[s1[k]].owner = rec1[k] /\ slot'[s1[k]].gen = slot[s1[k]].gen + 1
                       /\ slot'[s1[k]].lease = 0
    <3> SUFFICES ASSUME NEW k \in {1}
                 PROVE  /\ slot'[s1[k]].owner = rec1[k] /\ slot'[s1[k]].gen = slot[s1[k]].gen + 1
                        /\ slot'[s1[k]].lease = 0
      OBVIOUS
    <3>1. rec1[k] = Guess /\ s1[k] = s
      BY <2>2, <2>3
    <3> QED
      BY <1>5, <1>7, <3>1
  <2>8. \A t \in Slots : (\A k \in {1} : s1[k] # t) =>
          /\ slot'[t].owner = slot[t].owner /\ slot'[t].gen = slot[t].gen
          /\ pinned[t] => slot'[t].lease = slot[t].lease
    <3> SUFFICES ASSUME NEW t \in Slots, t # s PROVE slot'[t] = slot[t]
      BY <2>2
    <3> QED
      BY <1>7
  <2>9. \A t \in Slots : pinned'[t] <=> pinned[t] \/ \E k \in {1} : s1[k] = t
    BY <1>9, <2>2, <2>3
  <2>10. \A k \in {1} : /\ op'[o1[k]].inUse /\ op'[o1[k]].rec = rec1[k] /\ op'[o1[k]].slot = s1[k]
                        /\ op'[o1[k]].gen = slot[s1[k]].gen + 1
    <3> SUFFICES ASSUME NEW k \in {1}
                 PROVE  /\ op'[o1[k]].inUse /\ op'[o1[k]].rec = rec1[k] /\ op'[o1[k]].slot = s1[k]
                        /\ op'[o1[k]].gen = slot[s1[k]].gen + 1
      OBVIOUS
    <3>1. rec1[k] = Guess /\ s1[k] = s /\ o1[k] = o
      BY <2>2, <2>3
    <3> QED
      BY <1>6, <1>8, <3>1
  <2>11. \A p \in Ops : (\A k \in {1} : o1[k] # p) => op'[p] = op[p]
    BY <1>8, <2>2
  <2>12. /\ \A k \in {1} : byRec'[rec1[k]] = o1[k]
         /\ \A r \in Records : (\A k \in {1} : rec1[k] # r) => byRec'[r] = byRec[r]
    <3> SUFFICES ASSUME NEW k \in {1}
                 PROVE  /\ byRec'[rec1[k]] = o1[k]
                        /\ \A r \in Records : rec1[k] # r => byRec'[r] = byRec[r]
      BY <2>3
    <3>1. rec1[k] = Guess /\ o1[k] = o
      BY <2>2, <2>3
    <3> QED
      BY <1>9, <3>1
  <2> QED
    BY <2>2, <2>4, <2>5, <2>6, <2>7, <2>8, <2>9, <2>10, <2>11, <2>12 DEF Claims
<1> HIDE DEF rec1, s1, o1
<1>11. AdmitFacts(s, o, x)
  BY <1>1, <1>4, <1>6, <1>7, <1>8, <1>9, <1>10 DEF AdmitFacts, rec1, s1, o1
<1> QED
  BY <1>4, <1>6, <1>11

(* A guess is admitted: it claims one slot and is the only read queued.     *)
LEMMA AdmitStep ==
  ASSUME DispatcherInv, AdmitClaim
  PROVE  DispatcherInv'
<1> USE DEF DispatcherInv
<1>1. PICK s \in Slots, o \in Ops, x \in OpType : AdmitFacts(s, o, x)
  BY AdmitShape
<1>2. /\ Alive /\ disp.pc = "admit" /\ HasRank /\ Admits /\ TakeRank
      /\ disp' = [disp EXCEPT !.pc = "pumpIssued"]
      /\ UNCHANGED <<tick, chan, memory, clientVars, served, curGraph, envVars, fatal>>
  BY DEF AdmitClaim, At, Goto
<1>3. /\ Guess \in Records /\ intents' \in Seq(IntentType) /\ IntentsNamed'
      /\ cursor' \in {<<>>} \cup [it : IntentType, rank : Nat \ {0}]
  BY <1>2, RankTaken
<1>4. /\ submitQ \in Seq(Ops) /\ submitQ' = Append(submitQ, o) /\ o \notin Used /\ ~op[o].inUse
  BY <1>1 DEF AdmitFacts, Used, TypeOK
<1>5. x.waiters = {} /\ ~x.retry
  BY <1>1 DEF AdmitFacts
<1>6. op' \in [Ops -> OpType] /\ op'[o] = x /\ \A p \in Ops \ {o} : op'[p] = op[p]
  BY <1>1 DEF AdmitFacts
<1>7. /\ slot' \in [Slots -> SlotType] /\ byRec' \in [Records -> Ops \cup {NoOp}]
      /\ pinned' \in [Slots -> BOOLEAN]
  BY <1>1 DEF AdmitFacts
<1> DEFINE o1 == [k \in {1} |-> o]
<1>8. Claims({1}, [k \in {1} |-> Guess], [k \in {1} |-> s], o1)
  BY <1>1 DEF AdmitFacts
<1>9. /\ table' \in [Records -> EntryType] /\ Used' = Used \cup {o}
       /\ Indexed' /\ Published' /\ Arrived'
  <2>1. /\ table' \in [Records -> EntryType] /\ Used' = Used \cup {o1[k] : k \in {1}}
        /\ Indexed' /\ Published' /\ Arrived'
    BY <1>2, <1>8, ClaimKeeps
  <2> QED
    BY <2>1
<1>10. /\ submitQ' \in Seq(Ops) /\ PlacedIn(Used \cup {o}, submitQ', chan)
  BY <1>2, <1>4, FiniteSlots, PutInQueue DEF Placed
<1>11. TypeOK'
  <2>1. disp' \in [pc : TurnPc, chan : Nat, deferred : BOOLEAN, stop : {"no", "graceful", "abort"}]
    BY <1>2 DEF TypeOK, TurnPc
  <2>2. UNCHANGED <<tick, chan, memory, cmdQ, client, served, curGraph, graph, life, count, fatal>>
    BY <1>2 DEF clientVars, envVars
  <2> QED
    BY <1>3, <1>6, <1>7, <1>9, <1>10, <2>1, <2>2 DEF TypeOK, CacheTypeOK
<1>12. Placed'
  BY <1>2, <1>9, <1>10 DEF Placed
<1>13. Listed'
  BY <1>5, <1>6 DEF Listed
<1>14. Counted'
  <2>1. \A c \in Clients : ListedBy(c)' = ListedBy(c)
    BY <1>4, <1>5, <1>6 DEF ListedBy, Listed
  <2> QED
    BY <1>2, <2>1 DEF Counted, clientVars
<1>15. CommandsQueued'
  BY <1>2 DEF CommandsQueued, clientVars
<1>16. disp'.pc = "pumpIssued" /\ disp'.stop = disp.stop
  BY <1>2 DEF TypeOK
<1>17. GuessFresh'
  <2>1. Busy # Channels
    BY <1>2, ChannelsFinite, DispatcherAssumption DEF Admits, ChannelLeft
  <2>2. submitQ = <<>>
    BY <1>2, <2>1 DEF GuessFresh
  <2>3. submitQ' = Append(<<>>, o)
    BY <1>4, <2>2
  <2>4. Len(Append(<<>>, o)) = 1 /\ \A i \in DOMAIN Append(<<>>, o) : Append(<<>>, o)[i] = o
    OBVIOUS
  <2>5. Busy' = Busy
    BY <1>2 DEF Busy
  <2> QED
    BY <1>5, <1>6, <1>16, <2>1, <2>3, <2>4, <2>5 DEF GuessFresh
<1>18. TailKnows'
  BY <1>2, <1>16 DEF TailKnows, envVars
<1> QED
  BY <1>3, <1>9, <1>11, <1>12, <1>13, <1>14, <1>15, <1>17, <1>18

-----------------------------------------------------------------------------
(* A request wants finitely many records.                                   *)
LEMMA WantedFinite ==
  ASSUME NEW q \in Requests \cup {NoRequest}, NEW M, M \subseteq Wanted(q)
  PROVE  IsFiniteSet(M) /\ Cardinality(M) \in Nat
<1>1. DOMAIN q.ids = 1 .. Len(q.ids) /\ 1 \in Int /\ Len(q.ids) \in Int
  BY RequestType
<1>2. IsFiniteSet(DOMAIN q.ids)
  <2>1. IsFiniteSet(1 .. Len(q.ids))
    BY ONLY <1>1, FS_Interval
  <2> QED
    BY <1>1, <2>1
<1> DEFINE f == [i \in DOMAIN q.ids |-> <<q.layer, q.ids[i]>>]
<1>3. f \in Surjection(DOMAIN q.ids, Wanted(q))
  BY DEF Surjection, Wanted
<1> HIDE DEF f
<1>4. IsFiniteSet(Wanted(q))
  BY <1>2, <1>3, FS_Surjection
<1> QED
  BY <1>4, FS_Subset, FS_CardinalityType

(* The records a request misses are each claimed once, in its order.        *)
LEMMA MissesClaimed ==
  ASSUME NEW q \in Requests \cup {NoRequest}, NEW M, M \subseteq Wanted(q),
         NEW rec \in [1 .. Cardinality(M) -> M], InRequestOrder(q, rec)
  PROVE  /\ \A j, k \in 1 .. Cardinality(M) : rec[j] = rec[k] => j = k
         /\ \A r \in M : \E k \in 1 .. Cardinality(M) : rec[k] = r
<1>1. IsFiniteSet(M) /\ Cardinality(M) \in Nat
  BY WantedFinite
<1> DEFINE P == 1 .. Cardinality(M)
<1>2. \A k \in P : FirstAt(q, rec[k]) \in Nat
  BY RequestType, FirstAtType
<1>3. \A j, k \in P : j < k => rec[j] # rec[k]
  <2> SUFFICES ASSUME NEW j \in P, NEW k \in P, j < k, rec[j] = rec[k] PROVE FALSE
    OBVIOUS
  <2>1. FirstAt(q, rec[j]) < FirstAt(q, rec[k])
    BY DEF InRequestOrder
  <2> QED
    BY <1>2, <2>1
<1>4. \A j, k \in P : rec[j] = rec[k] => j = k
  <2> SUFFICES ASSUME NEW j \in P, NEW k \in P, rec[j] = rec[k] PROVE j = k
    OBVIOUS
  <2>1. ~(j < k) /\ ~(k < j)
    BY <1>3
  <2> QED
    BY <1>1, <2>1
<1>5. IsFiniteSet(P) /\ Cardinality(P) = Cardinality(M)
  <2>1. 1 \in Int /\ Cardinality(M) \in Int
    BY <1>1
  <2>2. /\ IsFiniteSet(1 .. Cardinality(M))
        /\ Cardinality(1 .. Cardinality(M)) =
             IF 1 > Cardinality(M) THEN 0 ELSE Cardinality(M) - 1 + 1
    BY ONLY <2>1, FS_Interval
  <2> QED
    BY <1>1, <2>2
<1>6. rec \in Injection(P, M)
  BY <1>4 DEF Injection, IsInjective
<1>7. rec \in Surjection(P, M)
  BY <1>1, <1>5, <1>6, FS_Injection
<1> QED
  BY <1>4, <1>7 DEF Surjection

(* The places of a plan: slots best first, entries lowest first.            *)
LEMMA PlacesApart ==
  ASSUME NEW n \in Nat, NEW E, NEW s \in [1 .. n -> E], BestFirst(E, s),
         NEW o \in [1 .. n -> FreeOps], FirstFree(o)
  PROVE  \A j, k \in 1 .. n : s[j] = s[k] \/ o[j] = o[k] => j = k
<1> SUFFICES ASSUME NEW j \in 1 .. n, NEW k \in 1 .. n, s[j] = s[k] \/ o[j] = o[k] PROVE j = k
  OBVIOUS
<1>1. CASE s[j] = s[k]
  <2>1. /\ Cardinality({t \in E : Better(t, s[j])}) = j - 1
        /\ Cardinality({t \in E : Better(t, s[k])}) = k - 1
    BY DEF BestFirst
  <2>2. j - 1 = k - 1
    BY <1>1, <2>1
  <2> QED
    BY <2>2
<1>2. CASE o[j] = o[k]
  <2>1. /\ Cardinality({p \in FreeOps : p < o[j]}) = j - 1
        /\ Cardinality({p \in FreeOps : p < o[k]}) = k - 1
    BY DEF FirstFree
  <2>2. j - 1 = k - 1
    BY <1>2, <2>1
  <2> QED
    BY <2>2
<1> QED
  BY <1>1, <1>2

(* A hit changes neither the owner of a slot nor its generation.            *)
LEMMA LeasedType ==
  ASSUME NEW s, slot[s] \in SlotType, NEW n \in Nat, NEW t \in Nat
  PROVE  /\ Leased(s, n, t) \in SlotType
         /\ Leased(s, n, t).owner = slot[s].owner /\ Leased(s, n, t).gen = slot[s].gen
         /\ Leased(s, n, t).lease = slot[s].lease + n
<1>1. PICK l \in Nat : l = slot[s].lease + n
  BY DEF SlotType
<1>2. PICK k \in Class : k = IF slot[s].class = "probation" THEN "demand" ELSE slot[s].class
  BY DEF SlotType, Class
<1>3. PICK pf \in Nat \X Nat : pf = IF slot[s].class = "probation" THEN NoPf ELSE slot[s].pf
  BY DEF SlotType, NoPf
<1>4. Leased(s, n, t) = [slot[s] EXCEPT !.lease = l, !.lastUsed = t, !.class = k, !.pf = pf]
  BY <1>1, <1>2, <1>3 DEF Leased, SlotType
<1>5. /\ Leased(s, n, t) \in SlotType /\ Leased(s, n, t).lease = l
      /\ Leased(s, n, t).owner = slot[s].owner /\ Leased(s, n, t).gen = slot[s].gen
  BY <1>4 DEF SlotType
<1> QED
  BY <1>1, <1>5

(* The read planned for a miss, and the one a demand joins.                 *)
LEMMA PlannedType ==
  ASSUME NEW q \in Requests \cup {NoRequest}, NEW c \in Clients, NEW r \in Wanted(q),
         NEW s \in Slots, slot[s] \in SlotType, tick \in Nat,
         NEW x, x = PlannedRead(q, c, r, s)
  PROVE  /\ x \in OpType /\ x.inUse /\ x.rec = r /\ x.slot = s /\ x.gen = slot[s].gen + 1
         /\ x.origin = "demand" /\ ~x.retry /\ x.waiters = {c} /\ x.mult = Units(q, r)
<1>1. /\ r \in Records /\ Units(q, r) \in Nat /\ LastAt(q, r) \in Nat
  BY RequestType, UnitsType, LastAtType
<1>2. PICK g \in Nat, u \in Nat, t \in Nat :
        g = slot[s].gen + 1 /\ u = Units(q, r) /\ t = tick + LastAt(q, r)
  BY <1>1 DEF SlotType
<1>3. x = [NullOp EXCEPT !.inUse = TRUE, !.rec = r, !.slot = s, !.gen = g,
                         !.mult = u, !.tick = t, !.waiters = {c}]
  BY <1>2 DEF PlannedRead
<1>4. NullOp \in OpType /\ NullOp.origin = "demand" /\ NullOp.retry = FALSE
  BY NullOpType
<1>5. /\ x \in OpType /\ x.inUse /\ x.rec = r /\ x.slot = s /\ x.gen = g
      /\ x.origin = "demand" /\ ~x.retry /\ x.waiters = {c} /\ x.mult = u
  BY ONLY <1>1, <1>3, <1>4, s \in Slots, c \in Clients DEF OpType
<1> QED
  BY <1>2, <1>5

(* A read that one more command joins keeps its record, slot and            *)
(* generation.                                                              *)
LEMMA JoinedType ==
  ASSUME NEW q \in Requests \cup {NoRequest}, NEW c \in Clients, NEW x \in OpType,
         x.rec \in Wanted(q), tick \in Nat
  PROVE  LET y == JoinedRead(q, c, x) IN
         /\ y \in OpType /\ y.inUse = x.inUse /\ y.rec = x.rec /\ y.slot = x.slot
         /\ y.gen = x.gen /\ y.origin = x.origin /\ y.retry = x.retry
         /\ y.waiters = x.waiters \cup {c} /\ y.mult = x.mult + Units(q, x.rec)
<1>1. /\ Units(q, x.rec) \in Nat /\ LastAt(q, x.rec) \in Nat
  BY RequestType, UnitsType, LastAtType
<1>2. PICK u \in Nat, t \in Nat : u = x.mult + Units(q, x.rec) /\ t = tick + LastAt(q, x.rec)
  BY <1>1 DEF OpType
<1>3. PICK w \in SUBSET Clients : w = x.waiters \cup {c}
  BY DEF OpType
<1> DEFINE y == JoinedRead(q, c, x)
<1>4. y = [x EXCEPT !.mult = u, !.tick = t, !.waiters = w]
  BY <1>2, <1>3 DEF JoinedRead, OpType
<1> HIDE DEF y
<1>5. /\ y \in OpType /\ y.inUse = x.inUse /\ y.rec = x.rec /\ y.slot = x.slot
      /\ y.gen = x.gen /\ y.origin = x.origin /\ y.retry = x.retry /\ y.waiters = w
      /\ y.mult = u
  BY ONLY <1>4, x \in OpType, w \in SUBSET Clients, u \in Nat, t \in Nat DEF OpType
<1> QED
  BY <1>2, <1>3, <1>5 DEF y

(* Every read a request joins is one read in flight, and the new ones are   *)
(* as many as the misses.                                                   *)
LEMMA DependsOn ==
  ASSUME Indexed, NEW J, J \subseteq InFlight, IsFiniteSet(J),
         NEW n \in Nat, NEW o \in [1 .. n -> Ops \ Used],
         \A j, k \in 1 .. n : o[j] = o[k] => j = k
  PROVE  Cardinality({o[k] : k \in 1 .. n} \cup {p \in Used : op[p].rec \in J})
           = n + Cardinality(J)
<1> DEFINE New == {o[k] : k \in 1 .. n}
           Joined == {p \in Used : op[p].rec \in J}
           f == [r \in J |-> byRec[r]]
<1>1. IsFiniteSet(1 .. n) /\ Cardinality(1 .. n) = n
  <2>1. 1 \in Int /\ n \in Int
    OBVIOUS
  <2>2. IsFiniteSet(1 .. n) /\ Cardinality(1 .. n) = IF 1 > n THEN 0 ELSE n - 1 + 1
    BY ONLY <2>1, FS_Interval
  <2> QED
    BY <2>2
<1>2. IsFiniteSet(New) /\ Cardinality(New) = n
  <2>1. o \in Surjection(1 .. n, New) /\ o \in Injection(1 .. n, New)
    BY DEF Surjection, Injection, IsInjective
  <2> HIDE DEF New
  <2> QED
    BY <1>1, <2>1, FS_Surjection
<1>3. IsFiniteSet(Joined) /\ Cardinality(Joined) = Cardinality(J)
  <2>1. \A r \in J : byRec[r] \in Joined /\ op[byRec[r]].rec = r
    BY DEF InFlight, Indexed, RecsExact
  <2>2. \A p \in Joined : op[p].rec \in J /\ byRec[op[p].rec] = p
    BY DEF Indexed, OpsExact
  <2> HIDE DEF Joined
  <2>3. f \in Surjection(J, Joined)
    BY <2>1, <2>2 DEF Surjection
  <2>4. f \in Injection(J, Joined)
    BY <2>1 DEF Injection, IsInjective
  <2> HIDE DEF f
  <2> QED
    BY <2>3, <2>4, FS_Surjection
<1>4. New \cap Joined = {}
  OBVIOUS
<1> HIDE DEF New, Joined
<1>5. Cardinality(New \cup Joined) = n + Cardinality(J) - 0
  <2>1. Cardinality(New \cap Joined) = 0
    BY <1>4, FS_EmptySet
  <2> QED
    BY <1>2, <1>3, <2>1, FS_Union
<1>6. Cardinality(J) \in Nat
  BY FS_CardinalityType
<1>7. Cardinality(New \cup Joined) = n + Cardinality(J)
  BY <1>5, <1>6
<1> QED
  BY <1>7 DEF New, Joined

(* An acquire is planned: its hits are leased, the reads in flight that it  *)
(* needs are joined, each miss claims a slot and queues a read.             *)
PlanFacts(c, q, n, rec, s, o) ==
  /\ Claims(1 .. n, rec, s, o)
  /\ slot' \in [Slots -> SlotType] /\ op' \in [Ops -> OpType]
  /\ \A k \in 1 .. n : /\ op'[o[k]].origin = "demand" /\ ~op'[o[k]].retry
                       /\ op'[o[k]].waiters = {c} /\ op'[o[k]].mult = Units(q, rec[k])
                       /\ s[k] \notin HitSlots(q)
  /\ \A p \in Ops : (\A k \in 1 .. n : o[k] # p) =>
       /\ op'[p].origin = op[p].origin /\ op'[p].retry = op[p].retry
       /\ op'[p].waiters = IF op[p].inUse /\ op[p].rec \in Joins(q, InFlight)
                             THEN op[p].waiters \cup {c} ELSE op[p].waiters
       /\ op'[p].mult = IF op[p].inUse /\ op[p].rec \in Joins(q, InFlight)
                          THEN op[p].mult + Units(q, op[p].rec) ELSE op[p].mult
  /\ \A t \in Slots : (\A k \in 1 .. n : s[k] # t) =>
       /\ t \notin HitSlots(q) => slot'[t].lease = slot[t].lease
       /\ \A r \in Hits(q) : table[r].slot = t => slot'[t].lease = slot[t].lease + Units(q, r)
  /\ \A r \in Misses(q, InFlight) : \E k \in 1 .. n : rec[k] = r
  /\ byRec' \in [Records -> Ops \cup {NoOp}] /\ pinned' \in [Slots -> BOOLEAN]

(* The command a plan answers, what it asks for and how much of it misses.  *)
Caller  == Head(cmdQ)
Asked   == client[Caller].req
Missing == Cardinality(Misses(Asked, InFlight))

(* What the plan of an acquire does to the cache and the pool.              *)
LEMMA PlanShape ==
  ASSUME DispatcherInv, PlanAcquire, Caller \in Clients, Asked \in Requests \cup {NoRequest},
         Missing \in Nat
  PROVE  \E rec \in [1 .. Missing -> Misses(Asked, InFlight)], s \in [1 .. Missing -> Slots],
           o \in [1 .. Missing -> Ops \ Used] :
             PlanFacts(Caller, Asked, Missing, rec, s, o) /\ submitQ' = submitQ \o o
<1> USE DEF DispatcherInv
<1> DEFINE M == Misses(Asked, InFlight)
           V == Evictable(Pins \cup HitSlots(Asked))
           leasedBy(t) == CHOOSE r \in Hits(Asked) : table[r].slot = t
<1>1. PICK rec \in [1 .. Missing -> M] :
        /\ InRequestOrder(Asked, rec)
        /\ \E s \in [1 .. Missing -> V] :
          /\ BestFirst(V, s)
          /\ table' = Detached({s[k] : k \in 1 .. Missing})
          /\ slot' = [t \in Slots |->
               IF \E k \in 1 .. Missing : s[k] = t
                 THEN LET r == rec[CHOOSE k \in 1 .. Missing : s[k] = t]
                      IN Claimed(t, r, tick + LastAt(Asked, r))
                 ELSE IF t \in HitSlots(Asked)
                        THEN Leased(t, Units(Asked, leasedBy(t)), tick + LastAt(Asked, leasedBy(t)))
                        ELSE slot[t]]
          /\ pinned' = [t \in Slots |-> pinned[t] \/ \E k \in 1 .. Missing : s[k] = t]
          /\ \E o \in [1 .. Missing -> FreeOps] :
              /\ FirstFree(o)
              /\ op' = [p \in Ops |->
                   IF \E k \in 1 .. Missing : o[k] = p
                     THEN LET k == CHOOSE k \in 1 .. Missing : o[k] = p
                          IN PlannedRead(Asked, Caller, rec[k], s[k])
                     ELSE IF op[p].inUse /\ op[p].rec \in Joins(Asked, InFlight) /\ byRec[op[p].rec] = p
                            THEN JoinedRead(Asked, Caller, op[p])
                            ELSE op[p]]
              /\ byRec' = [r \in Records |->
                   IF \E k \in 1 .. Missing : rec[k] = r
                     THEN o[CHOOSE k \in 1 .. Missing : rec[k] = r] ELSE byRec[r]]
              /\ submitQ' = submitQ \o o
  BY DEF PlanAcquire, Caller, Asked, Missing
<1>2. PICK s \in [1 .. Missing -> V] :
        /\ BestFirst(V, s)
        /\ table' = Detached({s[k] : k \in 1 .. Missing})
        /\ slot' = [t \in Slots |->
             IF \E k \in 1 .. Missing : s[k] = t
               THEN LET r == rec[CHOOSE k \in 1 .. Missing : s[k] = t]
                    IN Claimed(t, r, tick + LastAt(Asked, r))
               ELSE IF t \in HitSlots(Asked)
                      THEN Leased(t, Units(Asked, leasedBy(t)), tick + LastAt(Asked, leasedBy(t)))
                      ELSE slot[t]]
        /\ pinned' = [t \in Slots |-> pinned[t] \/ \E k \in 1 .. Missing : s[k] = t]
        /\ \E o \in [1 .. Missing -> FreeOps] :
            /\ FirstFree(o)
            /\ op' = [p \in Ops |->
                 IF \E k \in 1 .. Missing : o[k] = p
                   THEN LET k == CHOOSE k \in 1 .. Missing : o[k] = p
                        IN PlannedRead(Asked, Caller, rec[k], s[k])
                   ELSE IF op[p].inUse /\ op[p].rec \in Joins(Asked, InFlight) /\ byRec[op[p].rec] = p
                          THEN JoinedRead(Asked, Caller, op[p])
                          ELSE op[p]]
            /\ byRec' = [r \in Records |->
                 IF \E k \in 1 .. Missing : rec[k] = r
                   THEN o[CHOOSE k \in 1 .. Missing : rec[k] = r] ELSE byRec[r]]
            /\ submitQ' = submitQ \o o
  BY <1>1
<1>3. PICK o \in [1 .. Missing -> FreeOps] :
        /\ FirstFree(o)
        /\ op' = [p \in Ops |->
             IF \E k \in 1 .. Missing : o[k] = p
               THEN LET k == CHOOSE k \in 1 .. Missing : o[k] = p
                    IN PlannedRead(Asked, Caller, rec[k], s[k])
               ELSE IF op[p].inUse /\ op[p].rec \in Joins(Asked, InFlight) /\ byRec[op[p].rec] = p
                      THEN JoinedRead(Asked, Caller, op[p])
                      ELSE op[p]]
        /\ byRec' = [r \in Records |->
             IF \E k \in 1 .. Missing : rec[k] = r
               THEN o[CHOOSE k \in 1 .. Missing : rec[k] = r] ELSE byRec[r]]
        /\ submitQ' = submitQ \o o
  BY <1>2
<1>4. /\ M \subseteq Wanted(Asked) /\ Hits(Asked) \subseteq Wanted(Asked) /\ Joins(Asked, InFlight) \subseteq Wanted(Asked)
      /\ Wanted(Asked) \subseteq Records
      /\ \A r \in M : r \in Records /\ ~Resident(r) /\ byRec[r] = NoOp
      /\ \A t \in V : t \in Slots /\ ~pinned[t] /\ slot[t].lease = 0 /\ t \notin HitSlots(Asked)
      /\ \A p \in FreeOps : p \in Ops \ Used
      /\ \A p \in Ops \ Used : ~op[p].inUse
  BY RequestType DEF Misses, Hits, Joins, InFlight, Evictable, Pins, FreeOps, Used
<1>5. /\ slot \in [Slots -> SlotType] /\ op \in [Ops -> OpType] /\ tick \in Nat
      /\ byRec \in [Records -> Ops \cup {NoOp}] /\ pinned \in [Slots -> BOOLEAN]
  BY DEF TypeOK, CacheTypeOK
<1>6. /\ \A j, k \in 1 .. Missing : rec[j] = rec[k] => j = k
      /\ \A j, k \in 1 .. Missing : s[j] = s[k] \/ o[j] = o[k] => j = k
  <2>1. rec \in [1 .. Cardinality(M) -> M] /\ InRequestOrder(Asked, rec) /\ M \subseteq Wanted(Asked)
    BY <1>1, <1>4 DEF Missing
  <2>2. \A j, k \in 1 .. Cardinality(M) : rec[j] = rec[k] => j = k
    BY <2>1, MissesClaimed
  <2>3. \A j, k \in 1 .. Missing : rec[j] = rec[k] => j = k
    BY <2>2 DEF Missing
  <2>4. /\ s \in [1 .. Missing -> V] /\ BestFirst(V, s)
        /\ o \in [1 .. Missing -> FreeOps] /\ FirstFree(o)
    BY <1>2, <1>3
  <2> HIDE DEF V, M
  <2>5. \A j, k \in 1 .. Missing : s[j] = s[k] \/ o[j] = o[k] => j = k
    BY <2>4, PlacesApart
  <2> QED
    BY <2>3, <2>5
<1>6a. \A r \in M : \E k \in 1 .. Missing : rec[k] = r
  <2>1. rec \in [1 .. Cardinality(M) -> M] /\ InRequestOrder(Asked, rec) /\ M \subseteq Wanted(Asked)
    BY <1>1, <1>4 DEF Missing
  <2>2. \A r \in M : \E k \in 1 .. Cardinality(M) : rec[k] = r
    BY <2>1, MissesClaimed
  <2> QED
    BY <2>2 DEF Missing
<1> HIDE DEF M, V
<1>7. /\ rec \in [1 .. Missing -> Records] /\ s \in [1 .. Missing -> Slots] /\ o \in [1 .. Missing -> Ops \ Used]
      /\ \A k \in 1 .. Missing : rec[k] \in Wanted(Asked)
  BY <1>4
<1>8. ASSUME NEW k \in 1 .. Missing
      PROVE  /\ slot'[s[k]] \in SlotType /\ slot'[s[k]].owner = rec[k]
             /\ slot'[s[k]].gen = slot[s[k]].gen + 1 /\ slot'[s[k]].lease = 0
  <2>1. (CHOOSE j \in 1 .. Missing : s[j] = s[k]) = k
    BY <1>6
  <2>2. slot'[s[k]] = Claimed(s[k], rec[k], tick + LastAt(Asked, rec[k]))
    BY <1>2, <1>7, <2>1
  <2>3. /\ LastAt(Asked, rec[k]) \in Nat
    BY <1>7, RequestType, LastAtType
  <2>4. PICK t \in Nat : t = tick + LastAt(Asked, rec[k])
    BY <1>5, <2>3
  <2>5. rec[k] \in Records /\ s[k] \in Slots /\ slot[s[k]] \in SlotType /\ slot[s[k]].lease = 0
    BY <1>4, <1>5, <1>7
  <2> QED
    BY <2>2, <2>4, <2>5, ClaimedType
<1>9. ASSUME NEW t \in Slots, \A k \in 1 .. Missing : s[k] # t
      PROVE  /\ slot'[t] \in SlotType
             /\ slot'[t].owner = slot[t].owner /\ slot'[t].gen = slot[t].gen
             /\ pinned[t] => slot'[t].lease = slot[t].lease
             /\ t \notin HitSlots(Asked) => slot'[t].lease = slot[t].lease
             /\ \A r \in Hits(Asked) :
                  table[r].slot = t => slot'[t].lease = slot[t].lease + Units(Asked, r)
  <2>1. CASE t \notin HitSlots(Asked)
    <3>1. \A r \in Hits(Asked) : table[r].slot # t
      BY <2>1 DEF HitSlots
    <3> QED
      BY <1>2, <1>5, <1>9, <2>1, <3>1
  <2>2. CASE t \in HitSlots(Asked)
    <3>1. leasedBy(t) \in Hits(Asked) /\ table[leasedBy(t)].slot = t
      BY <2>2 DEF HitSlots
    <3> HIDE DEF leasedBy
    <3>2. slot'[t] = Leased(t, Units(Asked, leasedBy(t)), tick + LastAt(Asked, leasedBy(t)))
      BY <1>2, <1>9, <2>2 DEF leasedBy
    <3>3. leasedBy(t) \in Wanted(Asked) /\ leasedBy(t) \in Records
      BY <1>4, <3>1
    <3>4. /\ Units(Asked, leasedBy(t)) \in Nat /\ LastAt(Asked, leasedBy(t)) \in Nat
      BY <3>3, RequestType, UnitsType, LastAtType
    <3>5. PICK u \in Nat, l \in Nat : u = Units(Asked, leasedBy(t)) /\ l = tick + LastAt(Asked, leasedBy(t))
      BY <1>5, <3>4
    <3>6. slot'[t] = Leased(t, u, l) /\ slot[t] \in SlotType
      BY <1>5, <3>2, <3>5
    <3>7. ~pinned[t]
      <4> SUFFICES ASSUME pinned[t] PROVE FALSE
        OBVIOUS
      <4>1. PICK p \in Used : op[p].slot = t
        BY DEF Indexed, PinsExact
      <4> QED
        BY <3>1, <3>3, <4>1, TableElsewhere
    <3>8. \A r \in Hits(Asked) : table[r].slot = t => r = leasedBy(t)
      <4>1. \A r \in Records : table[r].slot = t => slot[t].owner = r
        <5>1. t # NoSlot
          BY FiniteSlots
        <5> QED
          BY <5>1 DEF Indexed, TableExact
      <4>2. Hits(Asked) \subseteq Records
        BY <1>4
      <4> QED
        BY <3>1, <3>3, <4>1, <4>2
    <3>9. /\ slot'[t] \in SlotType /\ slot'[t].lease = slot[t].lease + u
          /\ slot'[t].owner = slot[t].owner /\ slot'[t].gen = slot[t].gen
      BY ONLY <3>6, LeasedType
    <3> QED
      BY <2>2, <3>5, <3>7, <3>8, <3>9
  <2> QED
    BY <2>1, <2>2
<1>10. ASSUME NEW k \in 1 .. Missing
       PROVE  /\ op'[o[k]] \in OpType /\ op'[o[k]].inUse /\ op'[o[k]].rec = rec[k]
              /\ op'[o[k]].slot = s[k] /\ op'[o[k]].gen = slot[s[k]].gen + 1
              /\ op'[o[k]].origin = "demand" /\ ~op'[o[k]].retry
              /\ op'[o[k]].waiters = {Caller} /\ op'[o[k]].mult = Units(Asked, rec[k])
  <2>1. (CHOOSE j \in 1 .. Missing : o[j] = o[k]) = k
    BY <1>6
  <2>2. op'[o[k]] = PlannedRead(Asked, Caller, rec[k], s[k])
    BY <1>3, <1>7, <2>1
  <2>3. s[k] \in Slots /\ slot[s[k]] \in SlotType /\ rec[k] \in Wanted(Asked)
    BY <1>5, <1>7
  <2>4. Caller \in Clients /\ Asked \in Requests \cup {NoRequest} /\ tick \in Nat
    BY <1>5
  <2>5. PICK r \in Wanted(Asked), u \in Slots, x \in {op'[o[k]]} : r = rec[k] /\ u = s[k]
    BY <2>3
  <2>6. slot[u] \in SlotType /\ x = PlannedRead(Asked, Caller, r, u)
    BY <2>2, <2>3, <2>5
  <2>7. /\ x \in OpType /\ x.inUse /\ x.rec = r /\ x.slot = u /\ x.gen = slot[u].gen + 1
        /\ x.origin = "demand" /\ ~x.retry /\ x.waiters = {Caller} /\ x.mult = Units(Asked, r)
    BY ONLY <2>4, <2>6, PlannedType
  <2> QED
    BY <2>5, <2>7
<1>11. ASSUME NEW p \in Ops, \A k \in 1 .. Missing : o[k] # p
       PROVE  /\ op'[p] \in OpType /\ op'[p].inUse = op[p].inUse /\ op'[p].rec = op[p].rec
              /\ op'[p].slot = op[p].slot /\ op'[p].gen = op[p].gen
              /\ op'[p].origin = op[p].origin /\ op'[p].retry = op[p].retry
              /\ op'[p].waiters = IF op[p].inUse /\ op[p].rec \in Joins(Asked, InFlight)
                                    THEN op[p].waiters \cup {Caller} ELSE op[p].waiters
              /\ op'[p].mult = IF op[p].inUse /\ op[p].rec \in Joins(Asked, InFlight)
                                 THEN op[p].mult + Units(Asked, op[p].rec) ELSE op[p].mult
  <2>1. op[p].inUse => byRec[op[p].rec] = p
    BY DEF Indexed, OpsExact, Used
  <2>2. op'[p] = IF op[p].inUse /\ op[p].rec \in Joins(Asked, InFlight)
                   THEN JoinedRead(Asked, Caller, op[p]) ELSE op[p]
    BY <1>3, <1>11, <2>1
  <2>3. CASE op[p].inUse /\ op[p].rec \in Joins(Asked, InFlight)
    <3>1. op'[p] = JoinedRead(Asked, Caller, op[p]) /\ op[p] \in OpType /\ op[p].rec \in Wanted(Asked)
      BY <1>4, <1>5, <2>2, <2>3
    <3> DEFINE y == JoinedRead(Asked, Caller, op[p])
    <3>2. /\ y \in OpType /\ y.inUse = op[p].inUse /\ y.rec = op[p].rec /\ y.slot = op[p].slot
          /\ y.gen = op[p].gen /\ y.origin = op[p].origin /\ y.retry = op[p].retry
          /\ y.waiters = op[p].waiters \cup {Caller}
          /\ y.mult = op[p].mult + Units(Asked, op[p].rec)
      BY <1>5, <3>1, JoinedType
    <3> HIDE DEF y
    <3>3. op'[p] = y
      BY <3>1 DEF y
    <3> QED
      BY <2>3, <3>2, <3>3
  <2>4. CASE ~(op[p].inUse /\ op[p].rec \in Joins(Asked, InFlight))
    BY <1>5, <2>2, <2>4
  <2> QED
    BY <2>3, <2>4
<1>12. slot' \in [Slots -> SlotType] /\ op' \in [Ops -> OpType]
  <2>1. \A t \in Slots : slot'[t] \in SlotType
    <3> SUFFICES ASSUME NEW t \in Slots PROVE slot'[t] \in SlotType
      OBVIOUS
    <3>1. CASE \E k \in 1 .. Missing : s[k] = t
      BY <1>8, <3>1
    <3> QED
      BY <1>9, <3>1
  <2>2. \A p \in Ops : op'[p] \in OpType
    <3> SUFFICES ASSUME NEW p \in Ops PROVE op'[p] \in OpType
      OBVIOUS
    <3>1. CASE \E k \in 1 .. Missing : o[k] = p
      BY <1>10, <3>1
    <3> QED
      BY <1>11, <3>1
  <2>3. DOMAIN slot' = Slots /\ slot' = [t \in Slots |-> slot'[t]]
    BY <1>2
  <2>4. DOMAIN op' = Ops /\ op' = [p \in Ops |-> op'[p]]
    BY <1>3
  <2> QED
    BY <2>1, <2>2, <2>3, <2>4
<1>13. /\ byRec' \in [Records -> Ops \cup {NoOp}] /\ pinned' \in [Slots -> BOOLEAN]
       /\ \A k \in 1 .. Missing : byRec'[rec[k]] = o[k]
       /\ \A r \in Records : (\A k \in 1 .. Missing : rec[k] # r) => byRec'[r] = byRec[r]
  <2>1. \A k \in 1 .. Missing : byRec'[rec[k]] = o[k]
    <3> SUFFICES ASSUME NEW k \in 1 .. Missing PROVE byRec'[rec[k]] = o[k]
      OBVIOUS
    <3>1. (CHOOSE j \in 1 .. Missing : rec[j] = rec[k]) = k
      BY <1>6
    <3> QED
      BY <1>3, <1>7, <3>1
  <2>2. \A r \in Records : (\A k \in 1 .. Missing : rec[k] # r) => byRec'[r] = byRec[r]
    BY <1>3
  <2>3. \A r \in Records : byRec'[r] \in Ops \cup {NoOp}
    <3> SUFFICES ASSUME NEW r \in Records PROVE byRec'[r] \in Ops \cup {NoOp}
      OBVIOUS
    <3>1. CASE \E k \in 1 .. Missing : rec[k] = r
      BY <1>7, <2>1, <3>1
    <3> QED
      BY <1>5, <2>2, <3>1
  <2>4. byRec' = [r \in Records |-> byRec'[r]]
    BY <1>3
  <2>5. pinned' \in [Slots -> BOOLEAN]
    <3>1. \A t \in Slots : (pinned[t] \/ \E k \in 1 .. Missing : s[k] = t) \in BOOLEAN
      OBVIOUS
    <3> QED
      BY <1>2, <3>1
  <2> QED
    BY <2>1, <2>2, <2>3, <2>4, <2>5
<1>14. \A t \in Slots : pinned'[t] <=> pinned[t] \/ \E k \in 1 .. Missing : s[k] = t
  BY <1>2
<1>15. \A k \in 1 .. Missing : /\ ~Resident(rec[k]) /\ byRec[rec[k]] = NoOp
                         /\ ~pinned[s[k]] /\ slot[s[k]].lease = 0 /\ o[k] \notin Used
  BY <1>4
<1>16. /\ \A k \in 1 .. Missing : /\ slot'[s[k]].owner = rec[k] /\ slot'[s[k]].gen = slot[s[k]].gen + 1
                            /\ slot'[s[k]].lease = 0
       /\ \A k \in 1 .. Missing : /\ op'[o[k]].inUse /\ op'[o[k]].rec = rec[k] /\ op'[o[k]].slot = s[k]
                            /\ op'[o[k]].gen = slot[s[k]].gen + 1
  BY <1>8, <1>10
<1>17. o \in [1 .. Missing -> Ops]
  BY <1>7
<1>18. Claims(1 .. Missing, rec, s, o)
  <2>1. /\ rec \in [1 .. Missing -> Records] /\ s \in [1 .. Missing -> Slots]
        /\ \A j, k \in 1 .. Missing : rec[j] = rec[k] \/ s[j] = s[k] \/ o[j] = o[k] => j = k
        /\ table' = Detached({s[k] : k \in 1 .. Missing})
    BY <1>2, <1>6, <1>7
  <2>2. \A t \in Slots : (\A k \in 1 .. Missing : s[k] # t) =>
          /\ slot'[t].owner = slot[t].owner /\ slot'[t].gen = slot[t].gen
          /\ pinned[t] => slot'[t].lease = slot[t].lease
    BY <1>9
  <2>3. \A p \in Ops : (\A k \in 1 .. Missing : o[k] # p) =>
          /\ op'[p].inUse = op[p].inUse /\ op'[p].rec = op[p].rec /\ op'[p].slot = op[p].slot
          /\ op'[p].gen = op[p].gen
    BY <1>11
  <2> QED
    BY <1>13, <1>14, <1>15, <1>16, <1>17, <2>1, <2>2, <2>3 DEF Claims
<1>19. \A k \in 1 .. Missing : /\ op'[o[k]].origin = "demand" /\ ~op'[o[k]].retry
                         /\ op'[o[k]].waiters = {Caller} /\ op'[o[k]].mult = Units(Asked, rec[k])
                         /\ s[k] \notin HitSlots(Asked)
  BY <1>4, <1>10
<1>20. PlanFacts(Caller, Asked, Missing, rec, s, o)
  <2>1. \A p \in Ops : (\A k \in 1 .. Missing : o[k] # p) =>
          /\ op'[p].origin = op[p].origin /\ op'[p].retry = op[p].retry
          /\ op'[p].waiters = IF op[p].inUse /\ op[p].rec \in Joins(Asked, InFlight)
                                THEN op[p].waiters \cup {Caller} ELSE op[p].waiters
          /\ op'[p].mult = IF op[p].inUse /\ op[p].rec \in Joins(Asked, InFlight)
                             THEN op[p].mult + Units(Asked, op[p].rec) ELSE op[p].mult
    BY <1>11
  <2>2. \A t \in Slots : (\A k \in 1 .. Missing : s[k] # t) =>
          /\ t \notin HitSlots(Asked) => slot'[t].lease = slot[t].lease
          /\ \A r \in Hits(Asked) :
               table[r].slot = t => slot'[t].lease = slot[t].lease + Units(Asked, r)
    BY <1>9
  <2>3. \A r \in Misses(Asked, InFlight) : \E k \in 1 .. Missing : rec[k] = r
    BY <1>6a DEF M
  <2> QED
    BY <1>12, <1>13, <1>18, <1>19, <2>1, <2>2, <2>3 DEF PlanFacts
<1> QED
  BY Zenon, <1>3, <1>7, <1>20 DEF M

(* The plan of an acquire, refused, served at once or left waiting, keeps   *)
(* the invariant.                                                           *)
LEMMA PlanStep ==
  ASSUME DispatcherInv, PlanAcquire
  PROVE  DispatcherInv'
<1> USE DEF DispatcherInv
<1>1. /\ cmdQ # <<>> /\ cmdQ' = Tail(cmdQ) /\ disp.pc \in {"commands", "recheck"}
      /\ client[Caller].pc = "queued" /\ tick' = tick + Len(Asked.ids)
      /\ curGraph' = client[Caller].graph
      /\ served' = [served EXCEPT ![Asked.layer] = client[Caller].graph]
      /\ client' = [client EXCEPT
           ![Caller].deps = Cardinality(Misses(Asked, InFlight)) + Cardinality(Joins(Asked, InFlight)),
           ![Caller].pc = IF Misses(Asked, InFlight) \cup Joins(Asked, InFlight) = {}
                            THEN "holding" ELSE "planned"]
      /\ UNCHANGED <<chan, memory, intents, cursor, envVars, disp, fatal>>
  BY DEF PlanAcquire, AcquireNext, Commands, At, Asked, Caller
<1>2. /\ Caller \in Clients /\ cmdQ \in Seq(Clients) /\ client \in [Clients -> ClientType]
      /\ client[Caller] \in ClientType /\ Asked \in Requests \cup {NoRequest}
  <2>1. Caller \in Clients /\ client \in [Clients -> ClientType] /\ cmdQ \in Seq(Clients)
    BY <1>1 DEF TypeOK, Caller
  <2> QED
    BY <2>1 DEF Asked, ClientType
<1> DEFINE J == Joins(Asked, InFlight)
           M == Misses(Asked, InFlight)
<1>3. /\ M \subseteq Wanted(Asked) /\ J \subseteq Wanted(Asked) /\ J \subseteq InFlight
      /\ Wanted(Asked) \subseteq Records /\ Len(Asked.ids) \in Nat
  BY <1>2, RequestType DEF Misses, Joins, Hits
<1>4. /\ IsFiniteSet(J) /\ Cardinality(J) \in Nat /\ IsFiniteSet(M)
      /\ Missing = Cardinality(M) /\ Missing \in Nat
  BY <1>2, <1>3, WantedFinite DEF Missing
<1>5. PICK rec \in [1 .. Missing -> M], s \in [1 .. Missing -> Slots],
           o \in [1 .. Missing -> Ops \ Used] :
             PlanFacts(Caller, Asked, Missing, rec, s, o) /\ submitQ' = submitQ \o o
  BY <1>2, <1>4, PlanShape
<1>6. /\ slot' \in [Slots -> SlotType] /\ op' \in [Ops -> OpType]
      /\ byRec' \in [Records -> Ops \cup {NoOp}] /\ pinned' \in [Slots -> BOOLEAN]
      /\ \A k \in 1 .. Missing : /\ op'[o[k]].origin = "demand" /\ ~op'[o[k]].retry
                                 /\ op'[o[k]].waiters = {Caller}
      /\ \A p \in Ops : (\A k \in 1 .. Missing : o[k] # p) =>
           /\ op'[p].origin = op[p].origin /\ op'[p].retry = op[p].retry
           /\ op'[p].waiters = IF op[p].inUse /\ op[p].rec \in J
                                 THEN op[p].waiters \cup {Caller} ELSE op[p].waiters
  BY <1>5 DEF PlanFacts
<1>7. /\ \A j, k \in 1 .. Missing : o[j] = o[k] => j = k
      /\ o \in [1 .. Missing -> Ops] /\ \A k \in 1 .. Missing : o[k] \notin Used
      /\ \A p \in Ops : (\A k \in 1 .. Missing : o[k] # p) => op'[p].inUse = op[p].inUse
      /\ \A k \in 1 .. Missing : op'[o[k]].inUse
  <2>1. Claims(1 .. Missing, rec, s, o)
    BY <1>5 DEF PlanFacts
  <2> QED
    BY <2>1 DEF Claims
<1>8. /\ table' \in [Records -> EntryType] /\ Used' = Used \cup {o[k] : k \in 1 .. Missing}
      /\ Indexed' /\ Published' /\ Arrived'
  <2>1. Claims(1 .. Missing, rec, s, o)
    BY <1>5 DEF PlanFacts
  <2> QED
    BY <1>1, <2>1, ClaimKeeps
<1>9. /\ submitQ' \in Seq(Ops) /\ Placed'
      /\ \A i \in DOMAIN submitQ' : \/ i \in DOMAIN submitQ /\ submitQ'[i] = submitQ[i]
                                    \/ \E k \in 1 .. Missing : submitQ'[i] = o[k]
  <2>1. Alive
    BY DEF PlanAcquire, AcquireNext, Commands, At
  <2>2. PlacedIn(Used, submitQ, chan) /\ submitQ \in Seq(Ops)
    BY <2>1 DEF Placed, TypeOK
  <2>3. NoOp \notin Ops
    BY FiniteSlots
  <2>4. /\ submitQ' \in Seq(Ops)
        /\ \A i \in DOMAIN submitQ' : \/ i \in DOMAIN submitQ /\ submitQ'[i] = submitQ[i]
                                      \/ \E k \in 1 .. Missing : submitQ'[i] = o[k]
        /\ PlacedIn(Used', submitQ', chan)
    <3>1. Missing \in Nat /\ submitQ' = submitQ \o o
      BY <1>4, <1>5
    <3>2. /\ o \in [1 .. Missing -> Ops] /\ \A k \in 1 .. Missing : o[k] \notin Used
          /\ \A j, k \in 1 .. Missing : o[j] = o[k] => j = k
      BY <1>7
    <3>3. /\ o \in Seq(Ops) /\ DOMAIN o = 1 .. Missing
      BY ONLY <3>1, <3>2, SeqDef
    <3>4. PICK W : W = Used'
      OBVIOUS
    <3>5. /\ Used \subseteq W /\ \A k \in DOMAIN o : o[k] \in W
          /\ \A p \in W : p \in Used \/ \E k \in DOMAIN o : o[k] = p
      BY <1>8, <3>3, <3>4
    <3>6. /\ \A k \in DOMAIN o : o[k] \notin Used
          /\ \A j, k \in DOMAIN o : o[j] = o[k] => j = k
      BY ONLY <3>2, <3>3
    <3>7. /\ submitQ \o o \in Seq(Ops)
          /\ \A i \in DOMAIN (submitQ \o o) : \/ i \in DOMAIN submitQ /\ (submitQ \o o)[i] = submitQ[i]
                                              \/ \E k \in DOMAIN o : (submitQ \o o)[i] = o[k]
          /\ PlacedIn(W, submitQ \o o, chan)
      BY ONLY <2>2, <2>3, <3>3, <3>5, <3>6, PutManyInQueue
    <3> QED
      BY ONLY <3>1, <3>3, <3>4, <3>7
  <2> QED
    BY <1>1, <1>8, <2>4 DEF Placed
<1> HIDE DEF J, M
<1>10. /\ client' \in [Clients -> ClientType]
       /\ client'[Caller].deps = Missing + Cardinality(J)
       /\ client'[Caller].pc = IF M \cup J = {} THEN "holding" ELSE "planned"
       /\ \A d \in Clients \ {Caller} : client'[d] = client[d]
  <2>1. PICK n \in Nat, p \in {"holding", "planned"} :
          /\ n = Missing + Cardinality(J)
          /\ p = IF M \cup J = {} THEN "holding" ELSE "planned"
    BY <1>4
  <2>2. client' = [client EXCEPT ![Caller] = [client[Caller] EXCEPT !.deps = n, !.pc = p]]
    <3>1. client' = [client EXCEPT ![Caller].deps = n, ![Caller].pc = p]
      BY <1>1, <1>4, <2>1 DEF J, M
    <3> QED
      BY <1>2, <3>1
  <2>3. LET v == [client[Caller] EXCEPT !.deps = n, !.pc = p] IN
        v \in ClientType /\ v.deps = n /\ v.pc = p
    BY ONLY <1>2, n \in Nat, p \in {"holding", "planned"} DEF ClientType
  <2> QED
    BY <1>2, <2>1, <2>2, <2>3
<1>11. cmdQ' \in Seq(Clients) /\ CommandsQueued'
  BY <1>1, <1>2, <1>10, CommandLeaves DEF Caller
<1>12. Counted'
  <2>0. PICK c \in Clients : c = Caller
    BY <1>2
  <2>1. disp.pc \notin {"abort", "exited"}
    BY <1>1
  <2>2. /\ \A d \in Clients : /\ client[d].deps = Cardinality(ListedBy(d))
                              /\ client[d].pc # "planned" => ListedBy(d) = {}
    BY <2>1 DEF Counted
  <2>3. ListedBy(c) = {}
    BY <1>1, <2>2, <2>0
  <2>4. ListedBy(c)' = {o[k] : k \in 1 .. Missing} \cup {p \in Used : op[p].rec \in J}
    <3>1. \A p \in Ops : c \notin op[p].waiters
      BY <2>3 DEF ListedBy
    <3>2. \A p \in Ops : c \in op'[p].waiters <=>
            (\E k \in 1 .. Missing : o[k] = p) \/ (op[p].inUse /\ op[p].rec \in J)
      <4> SUFFICES ASSUME NEW p \in Ops
                   PROVE c \in op'[p].waiters <=>
                           (\E k \in 1 .. Missing : o[k] = p) \/ (op[p].inUse /\ op[p].rec \in J)
        OBVIOUS
      <4>1. CASE \E k \in 1 .. Missing : o[k] = p
        BY <1>6, <2>0, <4>1
      <4>2. CASE \A k \in 1 .. Missing : o[k] # p
        BY <1>6, <2>0, <3>1, <4>2
      <4> QED
        BY <4>1, <4>2
    <3>3. \A k \in 1 .. Missing : o[k] \in Ops
      BY <1>7
    <3>4. ListedBy(c)' = {p \in Ops : c \in op'[p].waiters}
      BY DEF ListedBy
    <3>5. \A p : p \in Used <=> p \in Ops /\ op[p].inUse
      BY DEF Used
    <3> QED
      BY ONLY <3>2, <3>3, <3>4, <3>5
  <2>5. Cardinality(ListedBy(c)') = Missing + Cardinality(J)
    <3>1. Indexed /\ J \subseteq InFlight /\ IsFiniteSet(J) /\ Missing \in Nat
      BY <1>3, <1>4 DEF J
    <3>2. o \in [1 .. Missing -> Ops \ Used] /\ \A j, k \in 1 .. Missing : o[j] = o[k] => j = k
      BY <1>5, <1>7
    <3>3. Cardinality({o[k] : k \in 1 .. Missing} \cup {p \in Used : op[p].rec \in J})
            = Missing + Cardinality(J)
      BY ONLY <3>1, <3>2, DependsOn
    <3> QED
      BY <2>4, <3>3
  <2>6. ASSUME NEW d \in Clients, d # c PROVE ListedBy(d)' = ListedBy(d)
    <3>1. \A p \in Ops : d \in op'[p].waiters <=> d \in op[p].waiters
      <4> SUFFICES ASSUME NEW p \in Ops PROVE d \in op'[p].waiters <=> d \in op[p].waiters
        OBVIOUS
      <4>1. CASE \E k \in 1 .. Missing : o[k] = p
        <5>1. ~op[p].inUse
          BY <1>7, <4>1 DEF Used
        <5>2. op[p].waiters = {}
          BY <5>1 DEF Listed
        <5> QED
          BY <1>6, <2>0, <2>6, <4>1, <5>2
      <4>2. CASE \A k \in 1 .. Missing : o[k] # p
        BY Zenon, <1>6, <2>0, <2>6, <4>2
      <4> QED
        BY <4>1, <4>2
    <3> QED
      BY <3>1 DEF ListedBy
  <2>7. client'[c].pc # "planned" => ListedBy(c)' = {}
    <3> SUFFICES ASSUME M \cup J = {} PROVE ListedBy(c)' = {}
      BY <1>10, <2>0
    <3>1. Missing = 0
      BY <1>4, FS_EmptySet
    <3> QED
      BY <2>4, <3>1
  <2> SUFFICES ASSUME NEW d \in Clients
               PROVE  /\ client'[d].deps = Cardinality(ListedBy(d)')
                      /\ client'[d].pc # "planned" => ListedBy(d)' = {}
    BY DEF Counted
  <2>8. CASE d = c
    BY <1>10, <2>0, <2>5, <2>7, <2>8
  <2>9. CASE d # c
    BY <1>10, <2>0, <2>2, <2>6, <2>9
  <2> QED
    BY <2>8, <2>9
<1>13. Listed'
  <2> SUFFICES ASSUME NEW p \in Ops
               PROVE  /\ ~op'[p].inUse => op'[p].waiters = {}
                      /\ op'[p].retry => op'[p].origin = "demand"
    BY DEF Listed
  <2>1. CASE \E k \in 1 .. Missing : o[k] = p
    BY <1>6, <1>7, <2>1
  <2>2. CASE \A k \in 1 .. Missing : o[k] # p
    BY <1>6, <1>7, <2>2 DEF Listed
  <2> QED
    BY <2>1, <2>2
<1>14. GuessFresh'
  <2>1. \A i \in DOMAIN submitQ : op[submitQ[i]].origin # "prefetch" /\ submitQ[i] \in Used
    <3>1. Alive
      BY DEF PlanAcquire, AcquireNext, Commands, At
    <3> QED
      BY <1>1, <3>1 DEF GuessFresh, Placed, PlacedIn
  <2>2. \A i \in DOMAIN submitQ' : op'[submitQ'[i]].origin # "prefetch"
    <3> SUFFICES ASSUME NEW i \in DOMAIN submitQ' PROVE op'[submitQ'[i]].origin # "prefetch"
      OBVIOUS
    <3>1. CASE i \in DOMAIN submitQ /\ submitQ'[i] = submitQ[i]
      <4>1. submitQ'[i] \in Ops /\ \A k \in 1 .. Missing : o[k] # submitQ'[i]
        BY <1>7, <2>1, <3>1 DEF Used
      <4> QED
        BY <1>6, <2>1, <3>1, <4>1
    <3>2. CASE \E k \in 1 .. Missing : submitQ'[i] = o[k]
      BY <1>6, <3>2
    <3> QED
      BY <1>9, <3>1, <3>2
  <2> QED
    BY <1>1, <2>2 DEF GuessFresh
<1>15. TailKnows' /\ IntentsNamed'
  <2>1. Busy' = Busy /\ (Alive' <=> Alive)
    BY <1>1 DEF Busy, Alive
  <2> QED
    BY <1>1, <2>1 DEF TailKnows, IntentsNamed, envVars
<1>16. TypeOK'
  <2>1. /\ tick' \in Nat /\ curGraph' \in Nat
    <3>1. tick \in Nat /\ client[Caller].graph \in Nat
      BY <1>2 DEF TypeOK, CacheTypeOK, ClientType
    <3> QED
      BY ONLY <1>1, <1>3, <3>1
  <2>2. served' \in [Layers -> Nat]
    <3>1. served \in [Layers -> Nat] /\ client[Caller].graph \in Nat
      BY <1>2 DEF TypeOK, ClientType
    <3> QED
      BY <1>1, <3>1
  <2>3. UNCHANGED <<chan, memory, intents, cursor, graph, life, count, disp, fatal>>
    BY <1>1 DEF envVars
  <2> QED
    BY <1>6, <1>8, <1>9, <1>10, <1>11, <2>1, <2>2, <2>3 DEF TypeOK, CacheTypeOK
<1> QED
  BY <1>8, <1>9, <1>11, <1>12, <1>13, <1>14, <1>15, <1>16

-----------------------------------------------------------------------------
(* Every step keeps the invariant.                                          *)
LEMMA DispatcherStepInv == DispatcherInv /\ [Next]_vars => DispatcherInv'
<1> SUFFICES ASSUME DispatcherInv, [Next]_vars PROVE DispatcherInv'
  OBVIOUS
<1>1. CASE TurnMoves
  BY <1>1, TurnStep
<1>2. CASE RefuseAcquire \/ AbortCommand
  BY <1>2, AnswerStep
<1>3. CASE PlanAcquire
  BY <1>3, PlanStep
<1>4. CASE HandleRelease
  BY <1>4, ReleaseHandled
<1>5. CASE Retire
  BY <1>5, RetireStep
<1>6. CASE SubmitPending
  BY <1>6, SubmitStep
<1>7. CASE (\E x \in {"ok", "short"} : SubmitSync(x)) \/ SubmitRefused
  BY <1>7, SyncStep
<1>8. CASE AdmitClaim
  BY <1>8, AdmitStep
<1>9. CASE AdmitDrop \/ CutAdmit
  BY <1>9, DropStep
<1>10. CASE CancelGuess \/ AbortRead
  BY <1>10, CancelStep
<1>11. CASE AbortQueued
  BY <1>11, AbortQueuedStep
<1>12. ASSUME NEW c \in Clients, Release(c) PROVE DispatcherInv'
  BY <1>12, ReleaseStep
<1>13. ASSUME NEW c \in Clients, NEW q \in Requests, Acquire(c, q) PROVE DispatcherInv'
  BY <1>13, AcquireStep
<1>14. ASSUME NEW ch \in Channels, IoStep(ch) PROVE DispatcherInv'
  BY <1>14, IoKeeps DEF IoStep
<1>15. CASE EnvMoves
  BY <1>15, EnvStep
<1>16. CASE UNCHANGED vars
  <2>1. UNCHANGED <<cacheVars, ioVars, fatal>>
    BY <1>16 DEF vars, cacheVars, ioVars
  <2>2. /\ Indexed' /\ Placed' /\ Published' /\ Arrived' /\ Listed'
        /\ \A c \in Clients : ListedBy(c)' = ListedBy(c)
        /\ Busy' = Busy
    BY <2>1, QuietStep
  <2>3. TypeOK'
    BY <1>16 DEF vars, DispatcherInv, TypeOK, CacheTypeOK
  <2>4. Counted' /\ IntentsNamed' /\ CommandsQueued'
    BY <1>16, <2>2 DEF vars, DispatcherInv, Counted, IntentsNamed, CommandsQueued
  <2>5. GuessFresh'
    BY <1>16, <2>2 DEF vars, DispatcherInv, GuessFresh
  <2>6. TailKnows'
    <3>1. Planned' = Planned /\ (HasRank' <=> HasRank) /\ (Alive' <=> Alive)
      BY <1>16 DEF vars, Planned, HasRank, Alive
    <3> QED
      BY <1>16, <2>2, <3>1 DEF vars, DispatcherInv, TailKnows, Quiet
  <2> QED
    BY <2>2, <2>3, <2>4, <2>5, <2>6 DEF DispatcherInv
<1>17. CASE DispatcherStep
  BY <1>1, <1>2, <1>3, <1>4, <1>5, <1>6, <1>7, <1>8, <1>9, <1>10, <1>11, <1>17
  DEF DispatcherStep, TurnMoves
<1>18. CASE Environment
  BY <1>12, <1>13, <1>14, <1>15, <1>18 DEF Environment, EnvMoves
<1> QED
  BY <1>16, <1>17, <1>18 DEF Next

(* Every state of the dispatcher satisfies the invariant.                   *)
THEOREM DispatcherInvariant == Spec => []DispatcherInv
<1> QED
  BY DispatcherInit, DispatcherStepInv, PTL DEF Spec

(* The types of the dispatcher's state.                                     *)
THEOREM DispatcherTypes == Spec => []TypeOK
<1>1. DispatcherInv => TypeOK
  BY DEF DispatcherInv
<1> QED
  BY <1>1, DispatcherInvariant, PTL

(* The pool, the record index, the pinned slots and the places reads wait   *)
(* in agree with each other in every state of a process that has not died   *)
(* (pio_alloc_locked, disp_op_terminal_locked, disp_pump_submit_locked).    *)
THEOREM PendingIsExact == Spec => []PendingExact
<1>1. DispatcherInv => PendingExact
  <2> SUFFICES ASSUME DispatcherInv, Alive
               PROVE  /\ \A o \in Ops : op[o].inUse =>
                           /\ byRec[op[o].rec] = o /\ pinned[op[o].slot]
                           /\ slot[op[o].slot].owner = op[o].rec /\ slot[op[o].slot].gen = op[o].gen
                           /\ slot[op[o].slot].lease = 0 /\ ~Resident(op[o].rec)
                           /\ Cardinality(PlacesOf(o)) + Cardinality(ServedBy(o)) = 1
                      /\ \A o \in Ops : ~op[o].inUse => PlacesOf(o) = {} /\ ServedBy(o) = {}
                      /\ \A r \in InFlight : op[byRec[r]].inUse /\ op[byRec[r]].rec = r
                      /\ \A s \in Slots : pinned[s] <=> \E o \in Ops : op[o].inUse /\ op[o].slot = s
    BY DEF PendingExact
  <2> USE DEF DispatcherInv
  <2>1. PlacedIn(Used, submitQ, chan) /\ NoOp \notin Ops /\ \A o \in Ops : op[o].inUse <=> o \in Used
    BY FiniteSlots DEF Placed, Used
  <2>2. ASSUME NEW o \in Used
        PROVE  Cardinality(PlacesOf(o)) + Cardinality(ServedBy(o)) = 1
    <3>1. CASE \E i \in DOMAIN submitQ : submitQ[i] = o
      <4>1. PICK i \in DOMAIN submitQ : submitQ[i] = o
        BY <3>1
      <4>2. PlacesOf(o) = {i} /\ ServedBy(o) = {}
        BY <2>1, <4>1 DEF PlacesOf, ServedBy, PlacedIn
      <4>3. Cardinality(PlacesOf(o)) = 1 /\ Cardinality(ServedBy(o)) = 0
        BY <4>2, FS_Singleton, FS_EmptySet
      <4> QED
        BY <4>3
    <3>2. CASE \A i \in DOMAIN submitQ : submitQ[i] # o
      <4>1. PICK c \in Channels : chan[c].op = o
        BY <2>1, <3>2 DEF PlacedIn
      <4>2. o # NoOp
        BY <2>1 DEF Used
      <4>3. PlacesOf(o) = {} /\ ServedBy(o) = {c}
        BY <2>1, <3>2, <4>1, <4>2 DEF PlacesOf, ServedBy, PlacedIn
      <4>4. Cardinality(PlacesOf(o)) = 0 /\ Cardinality(ServedBy(o)) = 1
        BY <4>3, FS_Singleton, FS_EmptySet
      <4> QED
        BY <4>4
    <3> QED
      BY <3>1, <3>2
  <2>3. ASSUME NEW o \in Ops, ~op[o].inUse PROVE PlacesOf(o) = {} /\ ServedBy(o) = {}
    BY <2>1, <2>3 DEF PlacesOf, ServedBy, PlacedIn
  <2>4. \A r \in InFlight : op[byRec[r]].inUse /\ op[byRec[r]].rec = r
    BY DEF InFlight, Indexed, RecsExact, Used
  <2>5. \A s \in Slots : pinned[s] <=> \E o \in Ops : op[o].inUse /\ op[o].slot = s
    BY DEF Indexed, PinsExact, OpsExact, Used
  <2>6. \A o \in Used : /\ byRec[op[o].rec] = o /\ pinned[op[o].slot]
                        /\ slot[op[o].slot].owner = op[o].rec /\ slot[op[o].slot].gen = op[o].gen
                        /\ slot[op[o].slot].lease = 0 /\ ~Resident(op[o].rec)
    BY DEF Indexed, OpsExact, Resident
  <2> QED
    BY <2>1, <2>2, <2>3, <2>4, <2>5, <2>6
<1> QED
  BY <1>1, DispatcherInvariant, PTL

(* A guess whose submission is refused has nobody waiting for it: it is in  *)
(* the submit queue only between its admission and the pump that follows    *)
(* (disp_pump_submit_locked forgets a refused guess without a look at its   *)
(* waiters).                                                                *)
THEOREM RefusedGuessStrandsNobody == Spec => []RefusalStrandsNobody
<1>1. DispatcherInv => RefusalStrandsNobody
  BY DEF DispatcherInv, GuessFresh, RefusalStrandsNobody
<1> QED
  BY <1>1, DispatcherInvariant, PTL

(* After a graceful stop nothing is left over: no command, no read, no      *)
(* intent, no pinned slot and no caller that waits.                         *)
THEOREM GracefulExitIsClean == Spec => []CleanExit
<1>1. DispatcherInv => CleanExit
  <2> SUFFICES ASSUME DispatcherInv, disp.pc = "exited", life.stop = "graceful"
               PROVE  /\ cmdQ = <<>> /\ submitQ = <<>> /\ FreeOps = Ops /\ Busy = {} /\ ~HasRank
                      /\ Pins = {} /\ InFlight = {}
                      /\ \A c \in Clients : client[c].pc \notin {"queued", "planned", "releasing"}
    BY DEF CleanExit
  <2> USE DEF DispatcherInv
  <2>1. Alive /\ cmdQ = <<>> /\ submitQ = <<>> /\ Planned = {} /\ ~HasRank /\ Busy = {}
    BY DEF TailKnows, Quiet
  <2>2. Used = {}
    <3> SUFFICES ASSUME NEW o \in Used PROVE FALSE
      OBVIOUS
    <3>1. PlacedIn(Used, submitQ, chan) /\ DOMAIN submitQ = {} /\ o # NoOp
      BY <2>1, FiniteSlots DEF Placed, Used
    <3>2. PICK c \in Channels : chan[c].op = o
      BY <3>1 DEF PlacedIn
    <3> QED
      BY <2>1, <3>1, <3>2 DEF Busy
  <2>3. FreeOps = Ops /\ Pins = {} /\ InFlight = {}
    BY <2>2 DEF FreeOps, Used, Pins, InFlight, Indexed, PinsExact, RecsExact
  <2>4. \A c \in Clients : client[c].pc \notin {"queued", "planned", "releasing"}
    <3>1. DOMAIN cmdQ = {}
      BY <2>1
    <3> QED
      BY <2>1, <3>1 DEF CommandsQueued, Planned
  <2> QED
    BY <2>1, <2>3, <2>4
<1> QED
  BY <1>1, DispatcherInvariant, PTL

-----------------------------------------------------------------------------
(****************************************************************************)
(* The leases of the dispatcher, proved for every set of layers and         *)
(* experts, any finite set of callers and any number of slots and channels. *)
(*                                                                          *)
(* LedgerInv says who owns a slot (Owned), that whoever has a claim on a    *)
(* record finds it resident or waits for its read (Covered), that a read    *)
(* carries the units of its waiters (Carried) and that the lease of a slot  *)
(* is the units its record has been asked for (Leases).  The abort drops    *)
(* reads with their waiters' other leases, so the two accounts speak of     *)
(* orderly states only; who may read what holds through the abort, too.     *)
(* The last part counts the entries of the pool against the slots: PoolRoom *)
(* and AloneFits say who always finds one.                                  *)
(****************************************************************************)

-----------------------------------------------------------------------------
(* Units: pairs of a client and a place of its request.                     *)

(* The requests of the clients, as cl has them.                             *)
Asking(cl) == \A c \in Clients : cl[c].req \in Requests \cup {NoRequest}

(* The places at which a request names a record are finitely many, and      *)
(* there is one if the request wants the record.                            *)
LEMMA PlacesFinite ==
  ASSUME NEW q \in Requests \cup {NoRequest}, NEW r
  PROVE  IsFiniteSet(Places(q, r)) /\ (r \in Wanted(q) <=> Places(q, r) # {})
<1>1. Places(q, r) \subseteq 1 .. Len(q.ids) /\ 1 \in Int /\ Len(q.ids) \in Int
  BY RequestType DEF Places
<1>2. IsFiniteSet(1 .. Len(q.ids))
  BY ONLY <1>1, FS_Interval
<1>3. IsFiniteSet(Places(q, r))
  BY <1>1, <1>2, FS_Subset
<1>4. r \in Wanted(q) <=> Places(q, r) # {}
  BY DEF Wanted, Places
<1> QED
  BY <1>3, <1>4

(* The units of a set of clients are finitely many.                         *)
LEMMA UnitsOfType ==
  ASSUME NEW cl, Asking(cl), NEW C, C \subseteq Clients, NEW r
  PROVE  IsFiniteSet(UnitsOf(cl, C, r)) /\ Cardinality(UnitsOf(cl, C, r)) \in Nat
<1> DEFINE T == {{c} \X Places(cl[c].req, r) : c \in C}
           f == [c \in C |-> {c} \X Places(cl[c].req, r)]
<1>1. IsFiniteSet(C)
  BY ClientsAssumption, FS_Subset
<1>2. f \in Surjection(C, T)
  BY DEF Surjection
<1> HIDE DEF f
<1>3. IsFiniteSet(T)
  BY <1>1, <1>2, FS_Surjection
<1>4. \A t \in T : IsFiniteSet(t)
  <2> SUFFICES ASSUME NEW c \in C PROVE IsFiniteSet({c} \X Places(cl[c].req, r))
    BY DEF T
  <2>1. IsFiniteSet(Places(cl[c].req, r)) /\ IsFiniteSet({c})
    BY PlacesFinite, FS_Singleton DEF Asking
  <2> QED
    BY <2>1, FS_Product
<1> HIDE DEF T
<1>5. IsFiniteSet(UNION T)
  BY <1>3, <1>4, FS_UNION
<1>6. UnitsOf(cl, C, r) = UNION T
  BY DEF T, UnitsOf
<1> QED
  BY <1>5, <1>6, FS_CardinalityType

(* One more client brings the units of its request.                         *)
LEMMA UnitsOfOneMore ==
  ASSUME NEW cl, Asking(cl), NEW C, C \subseteq Clients, NEW c \in Clients, c \notin C, NEW r
  PROVE  Cardinality(UnitsOf(cl, C \cup {c}, r))
           = Cardinality(UnitsOf(cl, C, r)) + Units(cl[c].req, r)
<1> DEFINE X == {c} \X Places(cl[c].req, r)
           Y == UnitsOf(cl, C, r)
<1>1. /\ IsFiniteSet({c}) /\ Cardinality({c}) = 1
      /\ IsFiniteSet(Places(cl[c].req, r)) /\ Cardinality(Places(cl[c].req, r)) \in Nat
  BY PlacesFinite, FS_Singleton, FS_CardinalityType DEF Asking
<1>2. IsFiniteSet(X) /\ Cardinality(X) = Cardinality({c}) * Cardinality(Places(cl[c].req, r))
  BY <1>1, FS_Product
<1>3. Cardinality(X) = Units(cl[c].req, r) /\ Units(cl[c].req, r) \in Nat
  BY <1>1, <1>2 DEF Units
<1>4. IsFiniteSet(Y) /\ Cardinality(Y) \in Nat
  BY UnitsOfType
<1>5. UnitsOf(cl, C \cup {c}, r) = Y \cup X
  BY DEF UnitsOf
<1>6. Y \cap X = {}
  BY DEF UnitsOf
<1> HIDE DEF X, Y
<1>7. Cardinality(Y \cup X) = Cardinality(Y) + Cardinality(X) - Cardinality(Y \cap X)
  BY <1>2, <1>4, FS_Union
<1>8. Cardinality(Y \cap X) = 0
  BY <1>6, FS_EmptySet
<1>9. Cardinality(Y \cup X) = Cardinality(Y) + Cardinality(X)
  BY <1>3, <1>4, <1>7, <1>8
<1> QED
  BY <1>3, <1>5, <1>9 DEF Y

(* Only the clients that want the record count, and only their requests.    *)
LEMMA UnitsOfSame ==
  ASSUME NEW cl, Asking(cl), NEW C, C \subseteq Clients,
         NEW cl2, Asking(cl2), NEW D, D \subseteq Clients, NEW r,
         \A c \in C : r \in Wanted(cl[c].req) => c \in D /\ cl2[c].req = cl[c].req,
         \A c \in D : r \in Wanted(cl2[c].req) => c \in C /\ cl2[c].req = cl[c].req
  PROVE  UnitsOf(cl, C, r) = UnitsOf(cl2, D, r)
<1>1. /\ \A c \in C : Places(cl[c].req, r) # {} => c \in D /\ cl2[c].req = cl[c].req
      /\ \A c \in D : Places(cl2[c].req, r) # {} => c \in C /\ cl2[c].req = cl[c].req
  BY PlacesFinite DEF Asking
<1>2. ASSUME NEW u PROVE u \in UnitsOf(cl, C, r) <=> u \in UnitsOf(cl2, D, r)
  BY <1>1 DEF UnitsOf
<1> QED
  BY <1>2

(* Nobody's units are none, and a client that wants the record has some.    *)
LEMMA UnitsOfNone ==
  ASSUME NEW cl, Asking(cl), NEW C, C \subseteq Clients, NEW r,
         \A c \in C : r \notin Wanted(cl[c].req)
  PROVE  Cardinality(UnitsOf(cl, C, r)) = 0
<1>1. \A c \in C : Places(cl[c].req, r) = {}
  BY PlacesFinite DEF Asking
<1>2. UnitsOf(cl, C, r) = {}
  BY <1>1 DEF UnitsOf
<1> QED
  BY <1>2, FS_EmptySet

(* A client that wants the record has a unit of it.                         *)
LEMMA UnitsOfSome ==
  ASSUME NEW cl, Asking(cl), NEW C, C \subseteq Clients, NEW r, NEW c \in C,
         r \in Wanted(cl[c].req)
  PROVE  Cardinality(UnitsOf(cl, C, r)) > 0
<1>1. PICK i : i \in Places(cl[c].req, r)
  BY PlacesFinite DEF Asking
<1>2. <<c, i>> \in UnitsOf(cl, C, r)
  BY <1>1 DEF UnitsOf
<1>3. Cardinality(UnitsOf(cl, C, r)) # 0 /\ Cardinality(UnitsOf(cl, C, r)) \in Nat
  BY <1>2, UnitsOfType, FS_EmptySet
<1> QED
  BY <1>3

-----------------------------------------------------------------------------
(* The clients that have claims on records: they wait for reads, hold what  *)
(* they asked for, or could not give it back.                               *)
Active  == {c \in Clients : client[c].pc \in {"planned", "holding", "releasing", "lost"}}

(* No abort has started.                                                    *)
Orderly == disp.pc = "abort" \/ disp.pc = "exited" => life.stop = "graceful"

DepsTell == \A c \in Clients : client[c].deps > 0 <=> client[c].pc = "planned"

(* A slot with an owner is the owner's place or the target of its read.     *)
Owned ==
  /\ \A s \in Slots : slot[s].owner = NoRec => slot[s].lease = 0
  /\ \A s \in Slots : slot[s].owner # NoRec =>
       table[slot[s].owner].slot = s \/ \E o \in Used : op[o].slot = s

WaitsFor(c, r) ==
  client[c].pc = "planned" /\ byRec[r] # NoOp /\ c \in op[byRec[r]].waiters
Covered == \A c \in Active : \A r \in Wanted(client[c].req) : Resident(r) \/ WaitsFor(c, r)

Carried ==
  Orderly => \A o \in Used :
    /\ \A c \in op[o].waiters : op[o].rec \in Wanted(client[c].req)
    /\ op[o].mult = Cardinality(UnitsOf(client, op[o].waiters, op[o].rec))
Leases ==
  Orderly => \A r \in Records : Resident(r) =>
    slot[table[r].slot].lease = Cardinality(UnitsOf(client, Active, r))

LedgerInv == DepsTell /\ Owned /\ Covered /\ Carried /\ Leases

(* An abort that has started never becomes orderly again.                   *)
LEMMA OrderlyBefore ==
  ASSUME DispatcherInv, [Next]_vars, Orderly'
  PROVE  Orderly
<1> SUFFICES ASSUME disp.pc \in {"abort", "exited"}, life.stop # "graceful" PROVE FALSE
  BY DEF Orderly
<1>1. life.stop = "abort"
  BY DEF DispatcherInv, TailKnows, TypeOK
<1>2. CASE DispatcherStep
  <2>1. CASE AbortDone \/ AbortCommand \/ AbortQueued \/ AbortRead
    BY <1>1, <2>1 DEF AbortDone, AbortCommand, AbortQueued, AbortRead, DropRead, At, Goto, Orderly,
                      DispatcherInv, TypeOK, envVars
  <2>2. ~(AbortDone \/ AbortCommand \/ AbortQueued \/ AbortRead)
        => disp.pc \notin {"abort", "exited"}
    BY <1>2 DEF DispatcherStep, Turn, RefuseAcquire, PlanAcquire, AcquireNext, Commands,
       HandleRelease, CommandsDone, Retire, RetireDone, Pumping, SubmitPending, SubmitSync,
       SubmitRefused, PumpDone, AdmitClaim, AdmitDrop, AdmitNothing, CutAdmit, CutAdmitDone,
       CancelGuess, Exit, At
  <2> QED
    BY <2>1, <2>2
<1>3. CASE Environment
  <2>1. disp' = disp /\ life'.stop = life.stop
    BY <1>1, <1>3 DEF Environment, Release, Acquire, NextGraph, PublishIntent, IoStep, IoComplete,
       Cut, PredictorDrained, StopRequest, envVars, DispatcherInv, TypeOK
  <2> QED
    BY <1>1, <2>1 DEF Orderly
<1>4. CASE UNCHANGED vars
  BY <1>1, <1>4 DEF vars, Orderly
<1> QED
  BY <1>2, <1>3, <1>4 DEF Next

(* After a graceful stop no read is left.                                   *)
LEMMA NothingInFlight ==
  ASSUME DispatcherInv, disp.pc = "exited", life.stop = "graceful"
  PROVE  Used = {}
<1> SUFFICES ASSUME NEW o \in Used PROVE FALSE
  OBVIOUS
<1>1. Alive /\ submitQ = <<>> /\ Busy = {}
  BY DEF DispatcherInv, TailKnows, Quiet
<1>2. PlacedIn(Used, submitQ, chan) /\ DOMAIN submitQ = {} /\ o # NoOp
  BY <1>1, FiniteSlots DEF DispatcherInv, Placed, Used
<1>3. PICK c \in Channels : chan[c].op = o
  BY <1>2 DEF PlacedIn
<1> QED
  BY <1>1, <1>2, <1>3 DEF Busy

(* Who is listed by a read waits for it.                                    *)
LEMMA WaitersWait ==
  ASSUME DispatcherInv, Orderly, NEW o \in Used
  PROVE  /\ op[o].waiters \subseteq Clients
         /\ \A c \in op[o].waiters : client[c].pc = "planned" /\ client[c].deps > 0
<1>1. op[o].waiters \subseteq Clients
  BY DEF DispatcherInv, TypeOK, OpType, Used
<1> SUFFICES ASSUME NEW c \in op[o].waiters PROVE client[c].pc = "planned" /\ client[c].deps > 0
  BY <1>1
<1>2. disp.pc \notin {"abort", "exited"}
  <2>1. disp.pc # "abort"
    BY DEF Orderly, DispatcherInv, TailKnows
  <2> QED
    BY <2>1, NothingInFlight DEF Orderly
<1>3. c \in Clients /\ o \in ListedBy(c)
  BY <1>1 DEF ListedBy, Used
<1>4. IsFiniteSet(ListedBy(c)) /\ Cardinality(ListedBy(c)) \in Nat
  BY CardOfOps DEF ListedBy
<1>5. client[c].deps = Cardinality(ListedBy(c)) /\ client[c].pc = "planned"
  BY <1>2, <1>3 DEF DispatcherInv, Counted
<1>6. Cardinality(ListedBy(c)) # 0
  BY <1>3, <1>4, FS_EmptySet
<1> QED
  BY <1>4, <1>5, <1>6

(* Clients ask for records of the model.                                    *)
LEMMA AskingClients ==
  ASSUME TypeOK
  PROVE  /\ Asking(client) /\ Active \subseteq Clients
         /\ \A c \in Clients : client[c].req \in Requests \cup {NoRequest}
                               /\ Wanted(client[c].req) \subseteq Records
<1>1. \A c \in Clients : client[c].req \in Requests \cup {NoRequest}
  BY DEF TypeOK, ClientType
<1>2. \A c \in Clients : Wanted(client[c].req) \subseteq Records
  BY <1>1, RequestType
<1> QED
  BY <1>1, <1>2 DEF Asking, Active

(* A resident record somebody has a claim on is leased.                     *)
LEMMA ClaimsLease ==
  ASSUME DispatcherInv, LedgerInv, Orderly, NEW c \in Active, NEW r \in Wanted(client[c].req),
         Resident(r)
  PROVE  r \in Records /\ slot[table[r].slot].lease > 0
<1>1. TypeOK /\ c \in Clients
  BY DEF DispatcherInv, Active
<1>2. r \in Records
  BY <1>1, AskingClients
<1>3. slot[table[r].slot].lease = Cardinality(UnitsOf(client, Active, r))
  BY <1>2 DEF LedgerInv, Leases
<1> QED
  BY <1>1, <1>2, <1>3, AskingClients, UnitsOfSome

(* A step that changes clients alone, and neither who has claims on what    *)
(* nor who waits, keeps the ledger.                                         *)
LEMMA ClientLedger ==
  ASSUME DispatcherInv, LedgerInv, client' \in [Clients -> ClientType], Orderly' => Orderly,
         UNCHANGED <<slot, table, op, byRec>>, Active' = Active,
         \A d \in Clients : /\ client'[d].pc = "planned" <=> client[d].pc = "planned"
                            /\ client'[d].deps > 0 <=> client[d].deps > 0,
         \A d \in Active : client'[d].req = client[d].req
  PROVE  LedgerInv'
<1>1. Asking(client) /\ Active \subseteq Clients /\ Asking(client') /\ Used' = Used
  BY AskingClients DEF DispatcherInv, Asking, ClientType, Used
<1>2. \A r : Resident(r)' <=> Resident(r)
  BY DEF Resident
<1>3. DepsTell'
  BY DEF LedgerInv, DepsTell
<1>4. Owned'
  BY <1>1 DEF LedgerInv, Owned
<1>5. Covered'
  <2> SUFFICES ASSUME NEW c \in Active, NEW r \in Wanted(client[c].req)
               PROVE  Resident(r)' \/ WaitsFor(c, r)'
    BY DEF Covered
  <2>1. c \in Clients
    BY <1>1
  <2>2. Resident(r) \/ WaitsFor(c, r)
    BY DEF LedgerInv, Covered
  <2> QED
    BY <1>2, <2>1, <2>2 DEF WaitsFor
<1>6. Carried'
  <2> SUFFICES ASSUME Orderly', NEW o \in Used
               PROVE  /\ \A c \in op[o].waiters : op[o].rec \in Wanted(client'[c].req)
                      /\ op[o].mult = Cardinality(UnitsOf(client', op[o].waiters, op[o].rec))
    BY <1>1 DEF Carried
  <2>1. /\ \A c \in op[o].waiters : op[o].rec \in Wanted(client[c].req)
        /\ op[o].mult = Cardinality(UnitsOf(client, op[o].waiters, op[o].rec))
    BY DEF LedgerInv, Carried
  <2>2. op[o].waiters \subseteq Clients /\ \A c \in op[o].waiters : client[c].pc = "planned"
    BY WaitersWait
  <2>3. \A c \in op[o].waiters : client'[c].req = client[c].req
    BY <2>2 DEF Active
  <2>4. UnitsOf(client', op[o].waiters, op[o].rec) = UnitsOf(client, op[o].waiters, op[o].rec)
    BY <1>1, <2>2, <2>3, UnitsOfSame
  <2> QED
    BY <2>1, <2>3, <2>4
<1>7. Leases'
  <2> SUFFICES ASSUME Orderly', NEW r \in Records, Resident(r)'
               PROVE  slot[table[r].slot].lease = Cardinality(UnitsOf(client', Active, r))
    BY DEF Leases
  <2>1. slot[table[r].slot].lease = Cardinality(UnitsOf(client, Active, r))
    BY <1>2 DEF LedgerInv, Leases
  <2>2. UnitsOf(client', Active, r) = UnitsOf(client, Active, r)
    BY <1>1, UnitsOfSame
  <2> QED
    BY <2>1, <2>2
<1> QED
  BY <1>3, <1>4, <1>5, <1>6, <1>7 DEF LedgerInv

(* A step that leaves slots, reads and clients alone keeps the ledger.      *)
LEMMA LedgerUntouched ==
  ASSUME DispatcherInv, LedgerInv, Orderly' => Orderly, UNCHANGED <<slot, table, op, byRec, client>>
  PROVE  LedgerInv'
<1>1. client' \in [Clients -> ClientType] /\ Active' = Active
  BY DEF DispatcherInv, TypeOK, Active
<1> QED
  BY <1>1, ClientLedger

(* The steps in which one client changes its place without a claim gained   *)
(* or lost: an acquire is enqueued or refused, a release is enqueued or     *)
(* refused, an abort answers a command.                                     *)
LEMMA OneClientLedger ==
  ASSUME DispatcherInv, LedgerInv, Orderly' => Orderly, UNCHANGED <<slot, table, op, byRec>>,
         NEW c \in Clients, NEW v \in ClientType, client' = [client EXCEPT ![c] = v],
         v.deps = 0, v.pc # "planned", client[c].pc # "planned",
         \/ v.pc \in {"idle", "queued"} /\ client[c].pc \in {"idle", "queued"}
         \/ /\ v.req = client[c].req
            /\ v.pc \in {"releasing", "lost"} /\ client[c].pc \in {"holding", "releasing", "lost"}
  PROVE  LedgerInv'
<1>1. client \in [Clients -> ClientType]
  BY DEF DispatcherInv, TypeOK
<1>2. /\ client' \in [Clients -> ClientType] /\ client'[c] = v
      /\ \A d \in Clients \ {c} : client'[d] = client[d]
  BY <1>1
<1>3. ~(client[c].deps > 0)
  BY DEF LedgerInv, DepsTell
<1>4. Active' = Active
  <2>1. \A d \in Clients \ {c} : d \in Active' <=> d \in Active
    BY <1>2 DEF Active
  <2>2. c \in Active' <=> c \in Active
    BY <1>2 DEF Active
  <2> QED
    BY <2>1, <2>2 DEF Active
<1>5. \A d \in Clients : /\ client'[d].pc = "planned" <=> client[d].pc = "planned"
                         /\ client'[d].deps > 0 <=> client[d].deps > 0
  <2>1. ~(v.deps > 0)
    OBVIOUS
  <2> QED
    BY <1>2, <1>3, <2>1
<1>6. \A d \in Active : client'[d].req = client[d].req
  BY <1>2 DEF Active
<1> QED
  BY <1>2, <1>4, <1>5, <1>6, ClientLedger

-----------------------------------------------------------------------------
(* A slot the table points at for a record gives back the units of that     *)
(* record and of no other.                                                  *)
LEMMA GivenBackUnits ==
  ASSUME DispatcherInv, NEW q \in Requests \cup {NoRequest}, NEW r \in Records, table[r].slot # NoSlot
  PROVE  Cardinality({i \in DOMAIN q.ids : table[<<q.layer, q.ids[i]>>].slot = table[r].slot})
           = Units(q, r)
<1>1. \A i \in DOMAIN q.ids : <<q.layer, q.ids[i]>> \in Records
  BY RequestType DEF Wanted
<1>2. \A p \in Records : table[p].slot # NoSlot => slot[table[p].slot].owner = p
  BY DEF DispatcherInv, Indexed, TableExact
<1>3. {i \in DOMAIN q.ids : table[<<q.layer, q.ids[i]>>].slot = table[r].slot} = Places(q, r)
  BY <1>1, <1>2 DEF Places
<1> QED
  BY <1>3 DEF Units

(* A release that is handled lowers each lease by what its client held.     *)
LEMMA ReleaseLedger ==
  ASSUME DispatcherInv, LedgerInv, HandleRelease
  PROVE  LedgerInv'
<1> DEFINE c == Head(cmdQ)
           q == client[c].req
           back(s) == Cardinality({i \in DOMAIN q.ids : table[<<q.layer, q.ids[i]>>].slot = s})
<1>1. /\ cmdQ # <<>> /\ disp.pc \in {"commands", "recheck"} /\ disp' = disp /\ life' = life
      /\ client[c].pc = "releasing" /\ slot' = [s \in Slots |-> GivenBack(s, back(s))]
      /\ client' = [client EXCEPT ![c] = IdleClient]
      /\ UNCHANGED <<table, op, byRec>>
  BY DEF HandleRelease, Commands, At, ioVars, envVars
<1>2. /\ TypeOK /\ c \in Clients /\ client \in [Clients -> ClientType]
      /\ slot \in [Slots -> SlotType] /\ q \in Requests \cup {NoRequest}
  <2>1. TypeOK /\ cmdQ \in Seq(Clients)
    BY DEF DispatcherInv, TypeOK
  <2>2. c \in Clients
    BY <1>1, <2>1
  <2> HIDE DEF c
  <2> QED
    BY <2>1, <2>2, AskingClients DEF TypeOK, CacheTypeOK
<1>3. \A s \in Slots : back(s) \in Nat
  <2> SUFFICES ASSUME NEW s \in Slots PROVE back(s) \in Nat
    OBVIOUS
  <2>1. DOMAIN q.ids = 1 .. Len(q.ids) /\ 1 \in Int /\ Len(q.ids) \in Int
    BY <1>2, RequestType
  <2>2. IsFiniteSet(1 .. Len(q.ids))
    BY ONLY <2>1, FS_Interval
  <2>3. IsFiniteSet(DOMAIN q.ids)
    BY <2>1, <2>2
  <2>4. {i \in DOMAIN q.ids : table[<<q.layer, q.ids[i]>>].slot = s} \subseteq DOMAIN q.ids
    OBVIOUS
  <2> QED
    BY <2>3, <2>4, FS_Subset, FS_CardinalityType
<1>4. \A r \in Records : table[r].slot # NoSlot => back(table[r].slot) = Units(q, r)
  BY <1>2, GivenBackUnits
<1> HIDE DEF back, c
<1>5. \A s \in Slots : /\ slot'[s].owner = slot[s].owner /\ slot'[s].gen = slot[s].gen
                       /\ slot[s].lease = 0 => slot'[s].lease = 0
                       /\ slot'[s].lease = IF slot[s].lease > back(s) THEN slot[s].lease - back(s)
                                                                      ELSE 0
  <2> SUFFICES ASSUME NEW s \in Slots
               PROVE  /\ slot'[s].owner = slot[s].owner /\ slot'[s].gen = slot[s].gen
                      /\ slot[s].lease = 0 => slot'[s].lease = 0
                      /\ slot'[s].lease = IF slot[s].lease > back(s) THEN slot[s].lease - back(s)
                                                                     ELSE 0
    OBVIOUS
  <2>1. slot'[s] = GivenBack(s, back(s)) /\ slot[s] \in SlotType /\ back(s) \in Nat
    BY <1>1, <1>2, <1>3
  <2>2. GivenBack(s, back(s)).lease = IF slot[s].lease > back(s) THEN slot[s].lease - back(s)
                                                                 ELSE 0
    BY <2>1 DEF GivenBack, SlotType
  <2> QED
    BY <2>1, <2>2, GivenBackType
<1>6. \A r \in Records : /\ Resident(r) <=> table[r].slot # NoSlot
                         /\ table[r].slot # NoSlot => table[r].slot \in Slots
                         /\ Resident(r)' <=> Resident(r)
  <2> SUFFICES ASSUME NEW r \in Records
               PROVE  /\ Resident(r) <=> table[r].slot # NoSlot
                      /\ table[r].slot # NoSlot => table[r].slot \in Slots
                      /\ Resident(r)' <=> Resident(r)
    OBVIOUS
  <2>1. table[r].slot # NoSlot => table[r].slot \in Slots
    BY <1>2 DEF TypeOK, CacheTypeOK, EntryType
  <2>2. Resident(r) <=> table[r].slot # NoSlot
    BY <1>2, NotResident DEF DispatcherInv
  <2>3. Resident(r)' <=> Resident(r)
    BY <1>1, <1>5, <2>1 DEF Resident
  <2> QED
    BY <2>1, <2>2, <2>3
<1>7. /\ client' \in [Clients -> ClientType] /\ client'[c] = IdleClient
      /\ \A d \in Clients \ {c} : client'[d] = client[d]
  BY <1>1, <1>2, IdleClientType
<1>8. /\ Used' = Used /\ Asking(client) /\ Asking(client') /\ Orderly
      /\ c \in Active /\ Active' = Active \ {c} /\ Active \subseteq Clients
  <2>1. Used' = Used /\ Orderly
    BY <1>1 DEF Used, Orderly
  <2>2. Asking(client) /\ Asking(client')
    BY <1>2, <1>7, AskingClients DEF Asking, ClientType
  <2>3. c \in Active /\ c \notin Active'
    BY <1>1, <1>2, <1>7, IdleClientType DEF Active
  <2>4. \A d \in Clients \ {c} : d \in Active' <=> d \in Active
    BY <1>7 DEF Active
  <2>5. Active \subseteq Clients /\ Active' \subseteq Clients
    BY DEF Active
  <2> QED
    BY <2>1, <2>2, <2>3, <2>4, <2>5
<1>9. DepsTell'
  BY <1>7, IdleClientType DEF LedgerInv, DepsTell
<1>10. Owned'
  <2>1. \A s \in Slots : slot[s].owner = NoRec => slot[s].lease = 0
    BY DEF LedgerInv, Owned
  <2> QED
    BY <1>1, <1>5, <1>8, <2>1 DEF LedgerInv, Owned
<1>11. Covered'
  <2> SUFFICES ASSUME NEW d \in Active, d # c, NEW r \in Wanted(client[d].req)
               PROVE  Resident(r)' \/ WaitsFor(d, r)'
    BY <1>7, <1>8 DEF Covered
  <2>1. d \in Clients /\ r \in Records
    BY <1>2, <1>8, AskingClients
  <2>2. Resident(r) \/ WaitsFor(d, r)
    BY DEF LedgerInv, Covered
  <2> QED
    BY <1>1, <1>6, <1>7, <2>1, <2>2 DEF WaitsFor
<1>12. Carried'
  <2> SUFFICES ASSUME NEW o \in Used
               PROVE  /\ \A d \in op[o].waiters : op[o].rec \in Wanted(client'[d].req)
                      /\ op[o].mult = Cardinality(UnitsOf(client', op[o].waiters, op[o].rec))
    BY <1>1, <1>8 DEF Carried
  <2>1. /\ \A d \in op[o].waiters : op[o].rec \in Wanted(client[d].req)
        /\ op[o].mult = Cardinality(UnitsOf(client, op[o].waiters, op[o].rec))
    BY <1>8 DEF LedgerInv, Carried
  <2>2. op[o].waiters \subseteq Clients /\ \A d \in op[o].waiters : client'[d] = client[d]
    BY <1>1, <1>7, <1>8, WaitersWait
  <2>3. UnitsOf(client', op[o].waiters, op[o].rec) = UnitsOf(client, op[o].waiters, op[o].rec)
    BY <1>8, <2>2, UnitsOfSame
  <2> QED
    BY <2>1, <2>2, <2>3
<1>13. Leases'
  <2> SUFFICES ASSUME NEW r \in Records, Resident(r)
               PROVE  slot'[table[r].slot].lease = Cardinality(UnitsOf(client', Active \ {c}, r))
    BY <1>1, <1>6, <1>8 DEF Leases
  <2>1. slot[table[r].slot].lease = Cardinality(UnitsOf(client, Active, r))
    BY <1>8 DEF LedgerInv, Leases
  <2>2. UnitsOf(client', Active \ {c}, r) = UnitsOf(client, Active \ {c}, r)
    <3>1. Active \ {c} \subseteq Clients /\ \A d \in Active \ {c} : client'[d] = client[d]
      BY <1>7, <1>8
    <3> QED
      BY <1>8, <3>1, UnitsOfSame
  <2>3. Cardinality(UnitsOf(client, Active, r))
          = Cardinality(UnitsOf(client, Active \ {c}, r)) + Units(q, r)
    <3>1. (Active \ {c}) \cup {c} = Active /\ Active \ {c} \subseteq Clients /\ c \notin Active \ {c}
      BY <1>8
    <3> QED
      BY <1>2, <1>8, <3>1, UnitsOfOneMore
  <2>4. Cardinality(UnitsOf(client, Active \ {c}, r)) \in Nat /\ Units(q, r) \in Nat
    <3>1. Active \ {c} \subseteq Clients
      BY <1>8
    <3> QED
      BY <1>2, <1>8, <3>1, UnitsOfType, UnitsType
  <2>5. /\ table[r].slot \in Slots /\ back(table[r].slot) = Units(q, r)
    BY <1>4, <1>6
  <2>6. PICK a \in Nat, u \in Nat : /\ a = Cardinality(UnitsOf(client, Active \ {c}, r))
                                    /\ u = Units(q, r)
    BY <2>4
  <2>7. slot[table[r].slot].lease = a + u /\ back(table[r].slot) = u
    BY <2>1, <2>3, <2>5, <2>6
  <2>8. slot'[table[r].slot].lease = IF a + u > u THEN a + u - u ELSE 0
    BY <1>5, <2>5, <2>7
  <2>9. slot'[table[r].slot].lease = a
    BY <2>8
  <2> QED
    BY <2>2, <2>6, <2>9
<1> QED
  BY <1>9, <1>10, <1>11, <1>12, <1>13 DEF LedgerInv

-----------------------------------------------------------------------------
(* A claim evicts the records of the claimed slots, and no other becomes    *)
(* resident or moves; a claimed slot is owned for its new read.             *)
LEMMA ClaimResident ==
  ASSUME DispatcherInv, LedgerInv, NEW P, NEW rec, NEW s, NEW o, Claims(P, rec, s, o)
  PROVE  /\ \A r \in Records : Resident(r)' <=> Resident(r) /\ \A k \in P : s[k] # table[r].slot
         /\ \A r \in Records : Resident(r)' => table'[r] = table[r] /\ table[r].slot \in Slots
         /\ \A t \in Slots : slot'[t].owner # NoRec =>
              table'[slot'[t].owner].slot = t \/ \E p \in Used' : op'[p].slot = t
<1>1. /\ TypeOK /\ Indexed /\ Owned /\ NoRec \notin Records
      /\ slot \in [Slots -> SlotType] /\ table \in [Records -> EntryType]
  <2>1. NoRec \notin Records
    BY NoRecAssumption
  <2> QED
    BY <2>1 DEF DispatcherInv, LedgerInv, TypeOK, CacheTypeOK
<1>2. /\ \A k \in P : s[k] \in Slots /\ ~pinned[s[k]] /\ o[k] \in Ops /\ o[k] \notin Used
      /\ table' = Detached({s[k] : k \in P})
      /\ \A k \in P : op'[o[k]].inUse /\ op'[o[k]].slot = s[k]
      /\ \A p \in Ops : (\A k \in P : o[k] # p) =>
           op'[p].inUse = op[p].inUse /\ op'[p].slot = op[p].slot
  BY DEF Claims
<1>3. \A t \in Slots : (\A k \in P : s[k] # t) =>
        slot'[t].owner = slot[t].owner /\ slot'[t].gen = slot[t].gen
  BY DEF Claims
<1>4. \A r \in Records : Resident(r) <=> table[r].slot # NoSlot
  BY <1>1, NotResident
<1>5. ASSUME NEW r \in Records
      PROVE  /\ table'[r].slot # NoSlot => /\ table'[r] = table[r]
                                           /\ \A k \in P : slot[s[k]].owner # r
             /\ (\A k \in P : slot[s[k]].owner # r) => table'[r] = table[r]
  <2>1. table'[r] = IF \E k \in P : slot[s[k]].owner = r
                      THEN [table[r] EXCEPT !.slot = NoSlot] ELSE table[r]
    BY <1>2 DEF Detached
  <2>2. [table[r] EXCEPT !.slot = NoSlot].slot = NoSlot
    BY <1>1 DEF EntryType
  <2> QED
    BY <2>1, <2>2
<1>6. ASSUME NEW r \in Records, Resident(r)'
      PROVE  /\ Resident(r) /\ table'[r] = table[r] /\ table[r].slot \in Slots
             /\ \A k \in P : s[k] # table[r].slot
  <2>1. /\ table[r].slot # NoSlot /\ table'[r] = table[r] /\ \A k \in P : slot[s[k]].owner # r
    BY <1>5, <1>6 DEF Resident
  <2>2. table[r].slot \in Slots /\ slot[table[r].slot].owner = r
    BY <1>1, <2>1 DEF EntryType, Indexed, TableExact
  <2> QED
    BY <1>4, <2>1, <2>2
<1>7. ASSUME NEW r \in Records, Resident(r), \A k \in P : s[k] # table[r].slot
      PROVE  Resident(r)' /\ table'[r] = table[r]
  <2>1. /\ table[r].slot # NoSlot /\ table[r].slot \in Slots
        /\ slot[table[r].slot].owner = r /\ slot[table[r].slot].gen = table[r].gen
    BY <1>1, <1>4, <1>7 DEF EntryType, Indexed, TableExact
  <2>2. ASSUME NEW k \in P, slot[s[k]].owner = r PROVE FALSE
    <3>1. s[k] \in Slots /\ slot[s[k]].owner # NoRec
      BY <1>1, <1>2, <2>2
    <3>2. PICK p \in Used : op[p].slot = s[k]
      BY <1>1, <1>7, <2>2, <3>1 DEF Owned
    <3>3. pinned[s[k]]
      BY <1>1, <3>2 DEF Indexed, OpsExact
    <3> QED
      BY <1>2, <3>3
  <2>3. table'[r] = table[r]
    BY <1>5, <2>2
  <2>4. slot'[table[r].slot].owner = r /\ slot'[table[r].slot].gen = table[r].gen
    BY <1>3, <1>7, <2>1
  <2> QED
    BY <2>1, <2>3, <2>4 DEF Resident
<1>8. ASSUME NEW t \in Slots, slot'[t].owner # NoRec
      PROVE  table'[slot'[t].owner].slot = t \/ \E p \in Used' : op'[p].slot = t
  <2>1. ASSUME NEW k \in P, s[k] = t PROVE \E p \in Used' : op'[p].slot = t
    <3>1. o[k] \in Used' /\ op'[o[k]].slot = t
      BY <1>2, <2>1 DEF Used
    <3> QED
      BY <3>1
  <2>2. CASE \A k \in P : s[k] # t
    <3>1. /\ slot'[t].owner = slot[t].owner /\ slot[t].owner \in Records
      BY <1>1, <1>3, <1>8, <2>2 DEF SlotType
    <3>2. CASE table[slot[t].owner].slot = t
      <4>1. t # NoSlot
        BY FiniteSlots
      <4>2. Resident(slot[t].owner)
        BY <1>4, <3>1, <3>2, <4>1
      <4> QED
        BY <1>7, <2>2, <3>1, <3>2, <4>2
    <3>3. ASSUME NEW p \in Used, op[p].slot = t PROVE \E n \in Used' : op'[n].slot = t
      <4>1. p \in Ops /\ \A k \in P : o[k] # p
        BY <1>2 DEF Used
      <4> QED
        BY <1>2, <3>3, <4>1 DEF Used
    <3> QED
      BY <1>1, <1>8, <3>1, <3>2, <3>3 DEF Owned
  <2> QED
    BY <2>1, <2>2
<1> QED
  BY <1>6, <1>7, <1>8

(* What a client has a claim on is not evicted, and the read it waits for   *)
(* stays its record's read.                                                 *)
LEMMA ClaimSparesHolders ==
  ASSUME DispatcherInv, LedgerInv, Orderly,
         NEW P, NEW rec, NEW s, NEW o, Claims(P, rec, s, o),
         NEW c \in Active, NEW r \in Wanted(client[c].req)
  PROVE  /\ r \in Records
         /\ Resident(r) => Resident(r)'
         /\ byRec[r] # NoOp => /\ byRec'[r] = byRec[r] /\ byRec[r] \in Used
                               /\ \A k \in P : o[k] # byRec[r]
<1>1. /\ \A k \in P : byRec[rec[k]] = NoOp /\ slot[s[k]].lease = 0 /\ o[k] \notin Used
      /\ \A x \in Records : (\A k \in P : rec[k] # x) => byRec'[x] = byRec[x]
  BY DEF Claims
<1>2. r \in Records
  BY AskingClients DEF DispatcherInv
<1>3. ASSUME Resident(r) PROVE Resident(r)'
  <2>1. slot[table[r].slot].lease > 0
    BY <1>3, ClaimsLease
  <2>2. \A k \in P : s[k] # table[r].slot
    BY <1>1, <2>1
  <2> QED
    BY <1>2, <1>3, <2>2, ClaimResident
<1>4. byRec[r] # NoOp => byRec[r] \in Used
  BY <1>2 DEF DispatcherInv, Indexed, RecsExact
<1> QED
  BY <1>1, <1>2, <1>3, <1>4

(* An admitted guess evicts nobody's record and carries nobody's units.     *)
LEMMA AdmitLedger ==
  ASSUME DispatcherInv, LedgerInv, AdmitClaim
  PROVE  LedgerInv'
<1>1. PICK s \in Slots, o \in Ops, x \in OpType : AdmitFacts(s, o, x)
  BY AdmitShape
<1>2. /\ disp.pc = "admit" /\ client' = client /\ TypeOK /\ Asking(client)
      /\ Active' = Active /\ Active \subseteq Clients
  BY AskingClients DEF AdmitClaim, At, clientVars, DispatcherInv, Active
<1>3. Orderly
  BY <1>2 DEF Orderly
<1> DEFINE rec1 == [k \in {1} |-> Guess]
           s1   == [k \in {1} |-> s]
           o1   == [k \in {1} |-> o]
<1>4. /\ Claims({1}, rec1, s1, o1)
      /\ ~op[o].inUse /\ x.waiters = {} /\ x.mult = 0
      /\ op'[o] = x /\ \A p \in Ops \ {o} : op'[p] = op[p]
      /\ \A t \in Slots \ {s} : slot'[t] = slot[t]
  BY <1>1 DEF AdmitFacts
<1>5. o1[1] = o /\ s1[1] = s /\ 1 \in {1} /\ \A k \in {1} : k = 1
  OBVIOUS
<1> HIDE DEF rec1, s1, o1
<1>6. slot'[s].lease = 0
  BY <1>4, <1>5 DEF Claims
<1>7. /\ \A r \in Records : Resident(r)' => Resident(r) /\ s # table[r].slot
      /\ \A r \in Records : Resident(r)' => table'[r] = table[r] /\ table[r].slot \in Slots
      /\ \A t \in Slots : slot'[t].owner # NoRec =>
           table'[slot'[t].owner].slot = t \/ \E p \in Used' : op'[p].slot = t
  BY <1>4, <1>5, ClaimResident
<1>8. DepsTell'
  BY <1>2 DEF LedgerInv, DepsTell
<1>9. Owned'
  <2>1. \A t \in Slots : slot'[t].owner = NoRec => slot'[t].lease = 0
    BY <1>4, <1>6 DEF LedgerInv, Owned
  <2> QED
    BY <1>7, <2>1 DEF Owned
<1>10. Covered'
  <2> SUFFICES ASSUME NEW c \in Active, NEW r \in Wanted(client[c].req)
               PROVE  Resident(r)' \/ WaitsFor(c, r)'
    BY <1>2 DEF Covered
  <2>1. /\ Resident(r) => Resident(r)'
        /\ byRec[r] # NoOp => byRec'[r] = byRec[r] /\ byRec[r] \in Used /\ byRec[r] # o
    BY <1>3, <1>4, <1>5, ClaimSparesHolders
  <2>2. Resident(r) \/ WaitsFor(c, r)
    BY DEF LedgerInv, Covered
  <2> QED
    BY <1>2, <1>4, <2>1, <2>2 DEF WaitsFor, Used
<1>11. Carried'
  <2> SUFFICES ASSUME NEW p \in Used'
               PROVE  /\ \A c \in op'[p].waiters : op'[p].rec \in Wanted(client[c].req)
                      /\ op'[p].mult = Cardinality(UnitsOf(client, op'[p].waiters, op'[p].rec))
    BY <1>2 DEF Carried
  <2>1. CASE p = o
    <3>1. Cardinality(UnitsOf(client, {}, op'[p].rec)) = 0
      BY <1>2, UnitsOfNone
    <3> QED
      BY <1>4, <2>1, <3>1
  <2>2. CASE p # o
    BY <1>3, <1>4, <2>2 DEF Used, LedgerInv, Carried
  <2> QED
    BY <2>1, <2>2
<1>12. Leases'
  <2> SUFFICES ASSUME NEW r \in Records, Resident(r)'
               PROVE  slot'[table'[r].slot].lease = Cardinality(UnitsOf(client, Active, r))
    BY <1>2 DEF Leases
  <2>1. Resident(r) /\ s # table[r].slot /\ table'[r] = table[r] /\ table[r].slot \in Slots
    BY <1>7
  <2> QED
    BY <1>3, <1>4, <2>1 DEF LedgerInv, Leases
<1> QED
  BY <1>8, <1>9, <1>10, <1>11, <1>12 DEF LedgerInv

(* One client's units.                                                      *)
LEMMA UnitsOfOne ==
  ASSUME NEW cl, Asking(cl), NEW c \in Clients, NEW r
  PROVE  Cardinality(UnitsOf(cl, {c}, r)) = Units(cl[c].req, r)
<1>1. Cardinality(UnitsOf(cl, {} \cup {c}, r))
        = Cardinality(UnitsOf(cl, {}, r)) + Units(cl[c].req, r)
  BY UnitsOfOneMore
<1>2. Cardinality(UnitsOf(cl, {}, r)) = 0
  BY UnitsOfNone
<1>3. Units(cl[c].req, r) \in Nat
  BY PlacesFinite, FS_CardinalityType DEF Asking, Units
<1>4. {} \cup {c} = {c}
  OBVIOUS
<1> QED
  BY <1>1, <1>2, <1>3, <1>4

(* What the plan of an acquire does to the command it answers.              *)
PlanAnswers(c, q) ==
  /\ client[c].pc = "queued" /\ client[c].req = q /\ c = Caller
  /\ Len(q.ids) <= Cardinality(FreeOps)
  /\ disp.pc \in {"commands", "recheck"} /\ disp' = disp
  /\ client' \in [Clients -> ClientType] /\ client'[c].req = q
  /\ client'[c].pc = IF Misses(q, InFlight) \cup Joins(q, InFlight) = {}
                       THEN "holding" ELSE "planned"
  /\ client'[c].deps > 0 <=> client'[c].pc = "planned"
  /\ \A d \in Clients \ {c} : client'[d] = client[d]

(* A plan answers the head of the queue and claims its slots in order.      *)
LEMMA PlanParts ==
  ASSUME DispatcherInv, PlanAcquire
  PROVE  \E c \in Clients, q \in Requests \cup {NoRequest}, n \in Nat :
           /\ PlanAnswers(c, q)
           /\ \E rec \in [1 .. n -> Misses(q, InFlight)], s \in [1 .. n -> Slots],
                 o \in [1 .. n -> Ops \ Used] : PlanFacts(c, q, n, rec, s, o)
<1>1. /\ cmdQ # <<>> /\ disp.pc \in {"commands", "recheck"} /\ disp' = disp
      /\ client[Caller].pc = "queued" /\ Len(Asked.ids) <= Cardinality(FreeOps)
      /\ client' = [client EXCEPT
           ![Caller].deps = Cardinality(Misses(Asked, InFlight)) + Cardinality(Joins(Asked, InFlight)),
           ![Caller].pc = IF Misses(Asked, InFlight) \cup Joins(Asked, InFlight) = {}
                            THEN "holding" ELSE "planned"]
  BY DEF PlanAcquire, AcquireNext, Commands, At, CanPlan, Asked, Caller
<1>2. PICK c \in Clients : c = Caller
  BY <1>1 DEF DispatcherInv, TypeOK, Caller
<1>3. PICK q \in Requests \cup {NoRequest} : q = Asked
  BY <1>2 DEF DispatcherInv, TypeOK, ClientType, Asked
<1> DEFINE M == Misses(q, InFlight)
           J == Joins(q, InFlight)
<1>4. M \subseteq Wanted(q) /\ J \subseteq Wanted(q)
  BY DEF Misses, Joins, Hits
<1>5. /\ IsFiniteSet(M) /\ Cardinality(M) \in Nat /\ (Cardinality(M) = 0 <=> M = {})
      /\ IsFiniteSet(J) /\ Cardinality(J) \in Nat /\ (Cardinality(J) = 0 <=> J = {})
  BY <1>4, WantedFinite, FS_EmptySet
<1>6. PICK n \in Nat : n = Missing /\ n = Cardinality(M)
  BY <1>3, <1>5 DEF Missing
<1>7. \E rec \in [1 .. n -> M], s \in [1 .. n -> Slots], o \in [1 .. n -> Ops \ Used] :
        PlanFacts(c, q, n, rec, s, o)
  BY <1>2, <1>3, <1>6, PlanShape
<1>8. client[c].req = q /\ client[c].pc = "queued" /\ client \in [Clients -> ClientType]
  BY <1>1, <1>2, <1>3 DEF Asked, DispatcherInv, TypeOK
<1>9. PICK m \in Nat, p \in {"holding", "planned"} :
        /\ m = n + Cardinality(J)
        /\ p = IF M \cup J = {} THEN "holding" ELSE "planned"
  BY <1>5
<1>10. m > 0 <=> p = "planned"
  BY <1>5, <1>6, <1>9
<1>11. client' = [client EXCEPT ![c] = [client[c] EXCEPT !.deps = m, !.pc = p]]
  <2>1. client' = [client EXCEPT ![c].deps = m, ![c].pc = p]
    BY <1>1, <1>2, <1>3, <1>6, <1>9
  <2> QED
    BY <1>8, <2>1
<1> HIDE DEF M, J
<1>12. LET v == [client[c] EXCEPT !.deps = m, !.pc = p] IN
       v \in ClientType /\ v.deps = m /\ v.pc = p /\ v.req = client[c].req
  <2>1. client[c] \in ClientType
    BY <1>8
  <2> QED
    BY ONLY <2>1, m \in Nat, p \in {"holding", "planned"} DEF ClientType
<1>13. /\ client' \in [Clients -> ClientType] /\ client'[c].deps = m /\ client'[c].pc = p
       /\ client'[c].req = q /\ \A d \in Clients \ {c} : client'[d] = client[d]
  BY <1>8, <1>11, <1>12
<1>14. PlanAnswers(c, q)
  BY <1>1, <1>2, <1>3, <1>8, <1>9, <1>10, <1>13 DEF PlanAnswers, M, J
<1> QED
  BY <1>7, <1>14 DEF M

(* A plan leases its hits, joins reads in flight and starts reads for its   *)
(* misses: each unit its client asks for is granted or carried by a read.   *)
LEMMA PlanLedger ==
  ASSUME DispatcherInv, LedgerInv, PlanAcquire
  PROVE  LedgerInv'
<1>1. PICK c \in Clients, q \in Requests \cup {NoRequest}, n \in Nat :
        /\ PlanAnswers(c, q)
        /\ \E rec \in [1 .. n -> Misses(q, InFlight)], s \in [1 .. n -> Slots],
              o \in [1 .. n -> Ops \ Used] : PlanFacts(c, q, n, rec, s, o)
  BY PlanParts
<1>2. PICK rec \in [1 .. n -> Misses(q, InFlight)], s \in [1 .. n -> Slots],
           o \in [1 .. n -> Ops \ Used] : PlanFacts(c, q, n, rec, s, o)
  BY <1>1
<1> DEFINE M == Misses(q, InFlight)
           J == Joins(q, InFlight)
           H == HitSlots(q)
<1>3. /\ client[c].pc = "queued" /\ client[c].req = q /\ client'[c].req = q
      /\ client' \in [Clients -> ClientType] /\ \A d \in Clients \ {c} : client'[d] = client[d]
      /\ client'[c].pc = IF M \cup J = {} THEN "holding" ELSE "planned"
      /\ client'[c].deps > 0 <=> client'[c].pc = "planned"
  BY <1>1 DEF PlanAnswers
<1>4. /\ TypeOK /\ Asking(client) /\ Asking(client') /\ Orderly
      /\ c \notin Active /\ Active' = Active \cup {c} /\ Active \subseteq Clients
  <2>1. TypeOK /\ Asking(client) /\ Asking(client') /\ Active \subseteq Clients
    BY <1>3, AskingClients DEF DispatcherInv, Asking, ClientType
  <2>2. Orderly
    BY <1>1 DEF PlanAnswers, Orderly
  <2>3. c \notin Active /\ c \in Active' /\ \A d \in Clients \ {c} : d \in Active' <=> d \in Active
    BY <1>3 DEF Active
  <2>4. Active' \subseteq Clients
    BY DEF Active
  <2> QED
    BY <2>1, <2>2, <2>3, <2>4
<1>5. /\ Claims(1 .. n, rec, s, o)
      /\ \A k \in 1 .. n : /\ op'[o[k]].waiters = {c} /\ op'[o[k]].mult = Units(q, rec[k])
                           /\ s[k] \notin H
      /\ \A p \in Ops : (\A k \in 1 .. n : o[k] # p) =>
           /\ op'[p].waiters = IF op[p].inUse /\ op[p].rec \in J
                                 THEN op[p].waiters \cup {c} ELSE op[p].waiters
           /\ op'[p].mult = IF op[p].inUse /\ op[p].rec \in J
                              THEN op[p].mult + Units(q, op[p].rec) ELSE op[p].mult
      /\ \A t \in Slots : (\A k \in 1 .. n : s[k] # t) =>
           /\ t \notin H => slot'[t].lease = slot[t].lease
           /\ \A r \in Hits(q) : table[r].slot = t => slot'[t].lease = slot[t].lease + Units(q, r)
      /\ \A r \in M : \E k \in 1 .. n : rec[k] = r
  BY <1>2 DEF PlanFacts
<1>6. /\ \A k \in 1 .. n : slot'[s[k]].lease = 0
      /\ \A t \in Slots : (\A k \in 1 .. n : s[k] # t) => slot'[t].owner = slot[t].owner
      /\ \A k \in 1 .. n : op'[o[k]].rec = rec[k] /\ byRec'[rec[k]] = o[k] /\ byRec[rec[k]] = NoOp
      /\ \A p \in Ops : (\A k \in 1 .. n : o[k] # p) => op'[p].inUse = op[p].inUse /\ op'[p].rec = op[p].rec
      /\ \A r \in Records : (\A k \in 1 .. n : rec[k] # r) => byRec'[r] = byRec[r]
  BY <1>5 DEF Claims
<1>7. /\ \A r \in Records : Resident(r)' <=> Resident(r) /\ \A k \in 1 .. n : s[k] # table[r].slot
      /\ \A r \in Records : Resident(r)' => table'[r] = table[r] /\ table[r].slot \in Slots
      /\ \A t \in Slots : slot'[t].owner # NoRec =>
           table'[slot'[t].owner].slot = t \/ \E p \in Used' : op'[p].slot = t
  BY <1>5, ClaimResident
<1>8. /\ M \subseteq Wanted(q) /\ J \subseteq Wanted(q) /\ Hits(q) \subseteq Wanted(q)
      /\ Wanted(q) \subseteq Records /\ Wanted(q) \subseteq Hits(q) \cup J \cup M
      /\ \A r \in J : byRec[r] # NoOp
      /\ \A r \in Hits(q) : Resident(r) /\ table[r].slot \in H
      /\ \A t \in H : \E r \in Hits(q) : table[r].slot = t /\ slot[t].owner = r
      /\ H = HitSlots(q)
  <2>1. \A r \in Hits(q) : Resident(r) /\ slot[table[r].slot].owner = r
    BY DEF Hits, Resident
  <2>2. Wanted(q) \subseteq Records
    BY RequestType
  <2> QED
    BY <2>1, <2>2 DEF Misses, Joins, Hits, HitSlots, InFlight
<1> HIDE DEF M, J, H
<1>9. DepsTell'
  BY <1>3 DEF LedgerInv, DepsTell
<1>10. Owned'
  <2>1. ASSUME NEW t \in Slots, slot'[t].owner = NoRec PROVE slot'[t].lease = 0
    <3>1. CASE \E k \in 1 .. n : s[k] = t
      BY <1>6, <3>1
    <3>2. CASE \A k \in 1 .. n : s[k] # t
      <4>1. slot[t].owner = NoRec
        BY <1>6, <2>1, <3>2
      <4>2. slot[t].lease = 0
        BY <4>1 DEF LedgerInv, Owned
      <4>3. t \notin H
        BY <1>8, <4>1, NoRecAssumption
      <4> QED
        BY <1>5, <3>2, <4>2, <4>3
    <3> QED
      BY <3>1, <3>2
  <2> QED
    BY <1>7, <2>1 DEF Owned
<1>11. Covered'
  <2>1. ASSUME NEW d \in Active, NEW r \in Wanted(client[d].req)
        PROVE  Resident(r)' \/ WaitsFor(d, r)'
    <3>1. /\ r \in Records
          /\ Resident(r) => Resident(r)'
          /\ byRec[r] # NoOp => /\ byRec'[r] = byRec[r] /\ byRec[r] \in Used
                                /\ \A k \in 1 .. n : o[k] # byRec[r]
      BY <1>4, <1>5, ClaimSparesHolders
    <3>2. Resident(r) \/ WaitsFor(d, r)
      BY DEF LedgerInv, Covered
    <3>3. client'[d] = client[d]
      BY <1>3, <1>4
    <3>4. ASSUME WaitsFor(d, r) PROVE WaitsFor(d, r)'
      <4>1. byRec[r] # NoOp /\ d \in op[byRec[r]].waiters /\ client[d].pc = "planned"
        BY <3>4 DEF WaitsFor
      <4>2. byRec[r] \in Ops /\ \A k \in 1 .. n : o[k] # byRec[r]
        BY <3>1, <4>1 DEF Used
      <4>3. d \in op'[byRec[r]].waiters
        BY <1>5, <4>1, <4>2
      <4> QED
        BY <3>1, <3>3, <4>1, <4>3 DEF WaitsFor
    <3> QED
      BY <3>1, <3>2, <3>4
  <2>2. ASSUME NEW r \in Wanted(q) PROVE Resident(r)' \/ WaitsFor(c, r)'
    <3>1. CASE r \in Hits(q)
      <4>1. Resident(r) /\ \A k \in 1 .. n : s[k] # table[r].slot
        BY <1>5, <1>8, <3>1
      <4> QED
        BY <1>7, <1>8, <4>1
    <3>2. CASE r \in J
      <4>1. byRec[r] # NoOp /\ byRec[r] \in Used /\ op[byRec[r]].rec = r
        BY <1>8, <3>2 DEF DispatcherInv, Indexed, RecsExact
      <4>2. byRec'[r] = byRec[r] /\ byRec[r] \in Ops /\ \A k \in 1 .. n : o[k] # byRec[r]
        BY <1>2, <1>6, <1>8, <4>1 DEF Used
      <4>3. c \in op'[byRec[r]].waiters
        BY <1>5, <3>2, <4>1, <4>2 DEF Used
      <4>4. client'[c].pc = "planned"
        BY <1>3, <3>2
      <4> QED
        BY <4>1, <4>2, <4>3, <4>4 DEF WaitsFor
    <3>3. CASE r \in M
      <4>1. PICK k \in 1 .. n : rec[k] = r
        BY <1>5, <3>3
      <4>2. byRec'[r] = o[k] /\ o[k] \in Ops /\ c \in op'[o[k]].waiters
        BY <1>2, <1>5, <1>6, <4>1
      <4>3. client'[c].pc = "planned"
        BY <1>3, <3>3
      <4>4. o[k] # NoOp
        BY <4>2, FiniteSlots
      <4> QED
        BY <4>2, <4>3, <4>4 DEF WaitsFor
    <3> QED
      BY <1>8, <3>1, <3>2, <3>3
  <2> SUFFICES ASSUME NEW d \in Active', NEW r \in Wanted(client'[d].req)
               PROVE  Resident(r)' \/ WaitsFor(d, r)'
    BY DEF Covered
  <2>3. CASE d = c
    BY <1>3, <2>2, <2>3
  <2>4. CASE d # c
    <3>1. d \in Active /\ client'[d] = client[d]
      BY <1>3, <1>4, <2>4
    <3> QED
      BY <2>1, <3>1
  <2> QED
    BY <2>3, <2>4
<1>12. Carried'
  <2> SUFFICES ASSUME NEW p \in Used'
               PROVE  /\ \A d \in op'[p].waiters : op'[p].rec \in Wanted(client'[d].req)
                      /\ op'[p].mult = Cardinality(UnitsOf(client', op'[p].waiters, op'[p].rec))
    BY DEF Carried
  <2>0. p \in Ops
    BY DEF Used
  <2>1. ASSUME NEW k \in 1 .. n, p = o[k]
        PROVE  /\ \A d \in op'[p].waiters : op'[p].rec \in Wanted(client'[d].req)
               /\ op'[p].mult = Cardinality(UnitsOf(client', op'[p].waiters, op'[p].rec))
    <3>1. op'[p].waiters = {c} /\ op'[p].rec = rec[k] /\ op'[p].mult = Units(q, rec[k])
      BY <1>5, <1>6, <2>1
    <3>2. rec[k] \in Wanted(q)
      BY <1>8 DEF M
    <3>3. Cardinality(UnitsOf(client', {c}, rec[k])) = Units(q, rec[k])
      BY <1>3, <1>4, UnitsOfOne
    <3> QED
      BY <1>3, <3>1, <3>2, <3>3
  <2>2. CASE \A k \in 1 .. n : o[k] # p
    <3>1. p \in Used /\ op'[p].rec = op[p].rec
      BY <1>6, <2>0, <2>2 DEF Used
    <3>2. /\ \A d \in op[p].waiters : op[p].rec \in Wanted(client[d].req)
          /\ op[p].mult = Cardinality(UnitsOf(client, op[p].waiters, op[p].rec))
      BY <1>4, <3>1 DEF LedgerInv, Carried
    <3>3. /\ op[p].waiters \subseteq Clients /\ c \notin op[p].waiters
          /\ \A d \in op[p].waiters : client'[d] = client[d]
      BY <1>3, <1>4, <3>1, WaitersWait
    <3>4. UnitsOf(client', op[p].waiters, op[p].rec) = UnitsOf(client, op[p].waiters, op[p].rec)
      BY <1>4, <3>3, UnitsOfSame
    <3>5. CASE op[p].rec \in J
      <4>1. op'[p].waiters = op[p].waiters \cup {c} /\ op'[p].mult = op[p].mult + Units(q, op[p].rec)
        BY <1>5, <2>0, <2>2, <3>1, <3>5 DEF Used
      <4>2. Cardinality(UnitsOf(client', op[p].waiters \cup {c}, op[p].rec))
              = Cardinality(UnitsOf(client', op[p].waiters, op[p].rec)) + Units(q, op[p].rec)
        BY <1>3, <1>4, <3>3, UnitsOfOneMore
      <4>3. op[p].rec \in Wanted(q)
        BY <1>8, <3>5
      <4>4. \A d \in op'[p].waiters : op'[p].rec \in Wanted(client'[d].req)
        BY <1>3, <3>1, <3>2, <3>3, <4>1, <4>3
      <4>5. op'[p].mult = Cardinality(UnitsOf(client', op'[p].waiters, op'[p].rec))
        BY <3>1, <3>2, <3>4, <4>1, <4>2
      <4> QED
        BY <4>4, <4>5
    <3>6. CASE op[p].rec \notin J
      <4>1. op'[p].waiters = op[p].waiters /\ op'[p].mult = op[p].mult
        BY <1>5, <2>0, <2>2, <3>6
      <4> QED
        BY <3>1, <3>2, <3>3, <3>4, <4>1
    <3> QED
      BY <3>5, <3>6
  <2> QED
    BY <2>1, <2>2
<1>13. Leases'
  <2> SUFFICES ASSUME NEW r \in Records, Resident(r)'
               PROVE  slot'[table'[r].slot].lease = Cardinality(UnitsOf(client', Active \cup {c}, r))
    BY <1>4 DEF Leases
  <2>1. /\ Resident(r) /\ table'[r] = table[r] /\ table[r].slot \in Slots
        /\ \A k \in 1 .. n : s[k] # table[r].slot
    BY <1>7
  <2>2. slot[table[r].slot].lease = Cardinality(UnitsOf(client, Active, r))
    BY <1>4, <2>1 DEF LedgerInv, Leases
  <2>3. UnitsOf(client', Active, r) = UnitsOf(client, Active, r)
    <3>1. \A d \in Active : client'[d] = client[d]
      BY <1>3, <1>4
    <3> QED
      BY <1>4, <3>1, UnitsOfSame
  <2>4. CASE r \in Wanted(q)
    <3>1. r \in Hits(q)
      BY <2>1, <2>4 DEF Hits
    <3>2. slot'[table[r].slot].lease = slot[table[r].slot].lease + Units(q, r)
      BY <1>5, <2>1, <3>1
    <3>3. Cardinality(UnitsOf(client', Active \cup {c}, r))
            = Cardinality(UnitsOf(client', Active, r)) + Units(q, r)
      BY <1>3, <1>4, UnitsOfOneMore
    <3> QED
      BY <2>1, <2>2, <2>3, <3>2, <3>3
  <2>5. CASE r \notin Wanted(q)
    <3>1. table[r].slot \notin H
      BY <1>8, <2>1, <2>5 DEF Resident
    <3>2. slot'[table[r].slot].lease = slot[table[r].slot].lease
      BY <1>5, <2>1, <3>1
    <3>3. UnitsOf(client', Active \cup {c}, r) = UnitsOf(client', Active, r)
      <4>1. r \notin Wanted(client'[c].req) /\ Active \cup {c} \subseteq Clients
        BY <1>3, <1>4, <2>5
      <4> QED
        BY <1>4, <4>1, UnitsOfSame
    <3> QED
      BY <2>1, <2>2, <2>3, <3>2, <3>3
  <2> QED
    BY <2>4, <2>5
<1> QED
  BY <1>9, <1>10, <1>11, <1>12, <1>13 DEF LedgerInv

-----------------------------------------------------------------------------
(* A record that keeps its table entry stays where it is when a read ends:  *)
(* the slot of the read is no record's place.                               *)
LEMMA ResidentElsewhere ==
  ASSUME DispatcherInv, NEW o \in Used, NEW r \in Records, table'[r] = table[r],
         \A s \in Slots \ {op[o].slot} : slot'[s] = slot[s]
  PROVE  /\ Resident(r)' <=> Resident(r)
         /\ Resident(r) => slot'[table[r].slot] = slot[table[r].slot]
<1>1. table[r].slot # op[o].slot /\ table[r].slot \in Slots \cup {NoSlot}
  BY TableElsewhere DEF DispatcherInv, TypeOK, CacheTypeOK, EntryType
<1>2. table[r].slot # NoSlot => slot'[table[r].slot] = slot[table[r].slot]
  BY <1>1
<1> QED
  BY <1>1, <1>2 DEF Resident

(* A slot the ended read did not fill is owned by whom it was.              *)
LEMMA OwnedElsewhere ==
  ASSUME DispatcherInv, LedgerInv, NEW o \in Used, NEW t \in Slots \ {op[o].slot},
         slot'[t] = slot[t], slot'[t].owner # NoRec,
         \A r \in Records \ {op[o].rec} : table'[r] = table[r],
         \A p \in Used \ {o} : p \in Used' /\ op'[p].slot = op[p].slot
  PROVE  table'[slot'[t].owner].slot = t \/ \E p \in Used' : op'[p].slot = t
<1> DEFINE r == slot[t].owner
<1>1. r \in Records /\ t # NoSlot
  BY FiniteSlots DEF DispatcherInv, TypeOK, CacheTypeOK, SlotType
<1>2. table[op[o].rec].slot = NoSlot
  BY DEF DispatcherInv, Indexed, OpsExact
<1>3. table[r].slot = t \/ \E p \in Used : op[p].slot = t
  BY DEF LedgerInv, Owned
<1>4. CASE table[r].slot = t
  BY <1>1, <1>2, <1>4
<1>5. ASSUME NEW p \in Used, op[p].slot = t PROVE p \in Used' /\ op'[p].slot = t
  BY <1>5
<1> QED
  BY <1>3, <1>4, <1>5

(* The commands that waited for a published read count one less, and the    *)
(* one that waited for nothing else holds what it asked for.                *)
LEMMA PublishClients ==
  ASSUME DispatcherInv, LedgerInv, NEW o \in Used, NEW q, Publish(o, q),
         disp.pc \notin {"abort", "exited"}, client' \in [Clients -> ClientType]
  PROVE  /\ Active' = Active /\ DepsTell'
         /\ \A c \in Clients : client'[c].req = client[c].req
         /\ \A c \in Clients : client[c].pc = "planned" =>
              client'[c].pc = "planned" \/ ListedBy(c) = {o}
<1> DEFINE w(c) == [client[c] EXCEPT !.deps = @ - 1,
                      !.pc = IF client[c].deps = 1 THEN "holding" ELSE @]
<1>1. client' = [c \in Clients |-> IF c \in op[o].waiters THEN w(c) ELSE client[c]]
  BY Zenon DEF Publish
<1>2. Orderly /\ o \in Ops /\ client \in [Clients -> ClientType]
  BY DEF Orderly, Used, DispatcherInv, TypeOK
<1>3. ASSUME NEW c \in Clients, c \in op[o].waiters
      PROVE  /\ client[c].pc = "planned" /\ client'[c].req = client[c].req
             /\ client'[c].pc = IF client[c].deps = 1 THEN "holding" ELSE "planned"
             /\ client'[c].deps > 0 <=> client[c].deps # 1
             /\ client[c].deps = 1 => ListedBy(c) = {o}
  <2>1. client[c].pc = "planned" /\ client[c].deps > 0 /\ client[c] \in ClientType
    BY <1>2, <1>3, WaitersWait
  <2>2. PICK d \in Nat, p \in {"holding", "planned"} :
          d = client[c].deps - 1 /\ p = IF client[c].deps = 1 THEN "holding" ELSE "planned"
    BY <2>1 DEF ClientType
  <2>3. w(c) = [client[c] EXCEPT !.deps = d, !.pc = p]
    BY <2>1, <2>2
  <2>4. /\ [client[c] EXCEPT !.deps = d, !.pc = p].deps = d
        /\ [client[c] EXCEPT !.deps = d, !.pc = p].pc = p
        /\ [client[c] EXCEPT !.deps = d, !.pc = p].req = client[c].req
    BY ONLY <2>1 DEF ClientType
  <2>5. client'[c] = w(c)
    BY Zenon, <1>1, <1>3
  <2> HIDE DEF w
  <2>6. client'[c].deps = d /\ client'[c].pc = p /\ client'[c].req = client[c].req
    BY <2>3, <2>4, <2>5
  <2>7. client[c].deps \in Nat
    BY <2>1 DEF ClientType
  <2>8. ASSUME client[c].deps = 1 PROVE ListedBy(c) = {o}
    <3>1. o \in ListedBy(c) /\ IsFiniteSet(ListedBy(c)) /\ Cardinality(ListedBy(c)) = 1
      BY <1>2, <1>3, <2>8, CardOfOps DEF ListedBy, DispatcherInv, Counted
    <3>2. IsFiniteSet(ListedBy(c) \ {o}) /\ Cardinality(ListedBy(c) \ {o}) = 0
      BY <3>1, FS_RemoveElement
    <3>3. ListedBy(c) \ {o} = {}
      BY <3>2, FS_EmptySet
    <3> QED
      BY <3>1, <3>3
  <2> QED
    BY <2>1, <2>2, <2>6, <2>7, <2>8
<1>4. \A c \in Clients : c \notin op[o].waiters => client'[c] = client[c]
  BY Zenon, <1>1
<1> HIDE DEF w
<1>5. Active' = Active
  <2>1. \A c \in Clients : c \in Active' <=> c \in Active
    BY <1>3, <1>4 DEF Active
  <2> QED
    BY <2>1 DEF Active
<1>6. DepsTell'
  <2> SUFFICES ASSUME NEW c \in Clients PROVE client'[c].deps > 0 <=> client'[c].pc = "planned"
    BY DEF DepsTell
  <2>1. CASE c \in op[o].waiters
    BY <1>3, <2>1
  <2>2. CASE c \notin op[o].waiters
    BY <1>4, <2>2 DEF LedgerInv, DepsTell
  <2> QED
    BY <2>1, <2>2
<1>7. ASSUME NEW c \in Clients
      PROVE  /\ client'[c].req = client[c].req
             /\ client[c].pc = "planned" => client'[c].pc = "planned" \/ ListedBy(c) = {o}
  BY <1>3, <1>4
<1> QED
  BY <1>5, <1>6, <1>7

(* A published read grants the units it carried: those of all that have a   *)
(* claim on its record, for they all waited for it.                         *)
LEMMA PublishLedger ==
  ASSUME DispatcherInv, LedgerInv, NEW o \in Used, NEW q, Publish(o, q),
         disp.pc \notin {"abort", "exited"}, client' \in [Clients -> ClientType]
  PROVE  LedgerInv'
<1>0. PICK x : x = op[o]
  OBVIOUS
<1>1. /\ x.rec \in Records /\ x.slot \in Slots /\ byRec[x.rec] = o
      /\ slot[x.slot].owner = x.rec /\ slot[x.slot].gen = x.gen
      /\ slot[x.slot].lease = 0 /\ table[x.rec].slot = NoSlot
      /\ o \in Ops /\ x.mult \in Nat /\ x.gen \in Nat
  BY <1>0 DEF DispatcherInv, Indexed, OpsExact, Used, TypeOK, OpType
<1>2. /\ Orderly /\ TypeOK /\ Indexed
      /\ slot \in [Slots -> SlotType] /\ table \in [Records -> EntryType]
      /\ Asking(client) /\ Asking(client') /\ Active \subseteq Clients
  BY AskingClients DEF Orderly, DispatcherInv, TypeOK, CacheTypeOK, Asking, ClientType
<1>3. /\ Active' = Active /\ DepsTell'
      /\ \A c \in Clients : client'[c].req = client[c].req
      /\ \A c \in Clients : client[c].pc = "planned" =>
           client'[c].pc = "planned" \/ ListedBy(c) = {o}
  BY PublishClients
<1>4. /\ op' \in [Ops -> OpType] /\ Used' = Used \ {o}
      /\ \A p \in Ops \ {o} : op'[p] = op[p]
      /\ \A r \in Records : byRec'[r] = IF r = x.rec THEN NoOp ELSE byRec[r]
  <2>1. Unlink(o)
    BY Zenon DEF Publish
  <2> QED
    BY <1>0, <1>2, <2>1, Unlinked
<1>5. /\ table'[x.rec] = [slot |-> x.slot, gen |-> x.gen]
      /\ \A r \in Records \ {x.rec} : table'[r] = table[r]
  <2>1. table' = [table EXCEPT ![x.rec] = [slot |-> x.slot, gen |-> x.gen]]
    BY Zenon, <1>0 DEF Publish
  <2> QED
    BY <1>1, <1>2, <2>1
<1>6. /\ \A s \in Slots \ {x.slot} : slot'[s] = slot[s]
      /\ slot'[x.slot].owner = x.rec /\ slot'[x.slot].gen = x.gen /\ slot'[x.slot].lease = x.mult
  <2> DEFINE spec == x.waiters = {}
  <2>1. slot' = [slot EXCEPT ![x.slot].lease = @ + x.mult, ![x.slot].lastUsed = x.tick,
                             ![x.slot].class = IF spec THEN "probation" ELSE "demand",
                             ![x.slot].pf = IF spec THEN x.pf ELSE NoPf]
    BY Zenon, <1>0 DEF Publish
  <2> HIDE DEF spec
  <2>2. slot[x.slot] \in SlotType
    BY <1>1, <1>2
  <2>3. /\ slot'[x.slot].owner = slot[x.slot].owner /\ slot'[x.slot].gen = slot[x.slot].gen
        /\ slot'[x.slot].lease = slot[x.slot].lease + x.mult
        /\ \A s \in Slots \ {x.slot} : slot'[s] = slot[s]
    BY <1>1, <1>2, <2>1, <2>2 DEF SlotType
  <2> QED
    BY <1>1, <2>3
<1>7. /\ Resident(x.rec)' /\ ~Resident(x.rec)
      /\ \A r \in Records \ {x.rec} : /\ Resident(r)' <=> Resident(r)
                                      /\ Resident(r) => slot'[table[r].slot] = slot[table[r].slot]
  <2>1. Resident(x.rec)'
    <3>1. x.slot # NoSlot
      BY <1>1, FiniteSlots
    <3> QED
      BY <1>5, <1>6, <3>1 DEF Resident
  <2>2. ~Resident(x.rec)
    BY <1>1 DEF Resident
  <2> QED
    BY <1>5, <1>6, <2>1, <2>2, <1>0, ResidentElsewhere
<1>8. Owned'
  <2>1. \A t \in Slots : slot'[t].owner = NoRec => slot'[t].lease = 0
    BY <1>1, <1>6, NoRecAssumption DEF LedgerInv, Owned
  <2>2. ASSUME NEW t \in Slots, slot'[t].owner # NoRec
        PROVE  table'[slot'[t].owner].slot = t \/ \E p \in Used' : op'[p].slot = t
    <3>1. CASE t = x.slot
      BY <1>5, <1>6, <3>1
    <3>2. CASE t # x.slot
      <4>1. \A p \in Used \ {o} : p \in Used' /\ op'[p].slot = op[p].slot
        BY <1>4 DEF Used
      <4> QED
        BY <1>5, <1>6, <2>2, <3>2, <4>1, <1>0, OwnedElsewhere
    <3> QED
      BY <3>1, <3>2
  <2> QED
    BY <2>1, <2>2 DEF Owned
<1>9. Covered'
  <2> SUFFICES ASSUME NEW c \in Active, NEW r \in Wanted(client[c].req)
               PROVE  Resident(r)' \/ WaitsFor(c, r)'
    BY <1>2, <1>3 DEF Covered
  <2>1. c \in Clients /\ r \in Records
    BY <1>2, AskingClients
  <2>2. CASE r = x.rec
    BY <1>7, <2>2
  <2>3. CASE r # x.rec /\ Resident(r)
    BY <1>7, <2>1, <2>3
  <2>4. CASE r # x.rec /\ WaitsFor(c, r)
    <3>1. /\ client[c].pc = "planned" /\ byRec[r] # NoOp /\ c \in op[byRec[r]].waiters
      BY <2>4 DEF WaitsFor
    <3>2. byRec[r] \in Used /\ op[byRec[r]].rec = r
      BY <1>2, <2>1, <3>1 DEF Indexed, RecsExact
    <3>3. byRec[r] # o /\ byRec[r] \in Ops /\ byRec[r] \in ListedBy(c)
      BY <1>0, <2>1, <2>4, <3>1, <3>2 DEF Used, ListedBy
    <3>4. client'[c].pc = "planned"
      BY <1>3, <2>1, <3>1, <3>3
    <3>5. byRec'[r] = byRec[r] /\ op'[byRec[r]] = op[byRec[r]]
      BY <1>4, <2>1, <2>4, <3>3
    <3> QED
      BY <3>1, <3>4, <3>5 DEF WaitsFor
  <2> QED
    BY <2>2, <2>3, <2>4 DEF LedgerInv, Covered
<1>10. Carried'
  <2> SUFFICES ASSUME NEW p \in Used \ {o}
               PROVE  /\ \A c \in op[p].waiters : op[p].rec \in Wanted(client'[c].req)
                      /\ op[p].mult = Cardinality(UnitsOf(client', op[p].waiters, op[p].rec))
    BY <1>4 DEF Carried, Used
  <2>1. /\ \A c \in op[p].waiters : op[p].rec \in Wanted(client[c].req)
        /\ op[p].mult = Cardinality(UnitsOf(client, op[p].waiters, op[p].rec))
    BY <1>2 DEF LedgerInv, Carried
  <2>2. op[p].waiters \subseteq Clients
    BY <1>2, WaitersWait
  <2>3. \A c \in op[p].waiters : client'[c].req = client[c].req
    BY <1>3, <2>2
  <2>4. UnitsOf(client', op[p].waiters, op[p].rec) = UnitsOf(client, op[p].waiters, op[p].rec)
    BY <1>2, <2>2, <2>3, UnitsOfSame
  <2> QED
    BY <2>1, <2>3, <2>4
<1>11. Leases'
  <2> SUFFICES ASSUME NEW r \in Records, Resident(r)'
               PROVE  slot'[table'[r].slot].lease = Cardinality(UnitsOf(client', Active, r))
    BY <1>3 DEF Leases
  <2>0. \A c \in Active : client'[c].req = client[c].req
    BY <1>2, <1>3
  <2>1. CASE r = x.rec
    <3>1. slot'[table'[r].slot].lease = x.mult
      BY <1>5, <1>6, <2>1
    <3>2. /\ \A c \in x.waiters : x.rec \in Wanted(client[c].req)
          /\ x.mult = Cardinality(UnitsOf(client, x.waiters, x.rec))
      BY <1>0, <1>2 DEF LedgerInv, Carried
    <3>3. x.waiters \subseteq Clients /\ \A c \in x.waiters : client[c].pc = "planned"
      BY <1>0, <1>2, WaitersWait
    <3>4. \A c \in x.waiters : c \in Active
      BY <3>3 DEF Active
    <3>5. \A c \in Active : x.rec \in Wanted(client[c].req) => c \in x.waiters
      BY <1>0, <1>1, <1>7 DEF LedgerInv, Covered, WaitsFor
    <3>6. UnitsOf(client, x.waiters, x.rec) = UnitsOf(client', Active, x.rec)
      <4>1. /\ \A c \in x.waiters : x.rec \in Wanted(client[c].req) =>
                 c \in Active /\ client'[c].req = client[c].req
            /\ \A c \in Active : x.rec \in Wanted(client'[c].req) =>
                 c \in x.waiters /\ client'[c].req = client[c].req
        BY <2>0, <3>4, <3>5
      <4> QED
        BY <1>2, <3>3, <4>1, UnitsOfSame
    <3> QED
      BY <2>1, <3>1, <3>2, <3>6
  <2>2. CASE r # x.rec
    <3>1. /\ Resident(r) /\ slot'[table[r].slot] = slot[table[r].slot] /\ table'[r] = table[r]
      BY <1>5, <1>7, <2>2
    <3>2. slot[table[r].slot].lease = Cardinality(UnitsOf(client, Active, r))
      BY <1>2, <3>1 DEF LedgerInv, Leases
    <3>3. UnitsOf(client', Active, r) = UnitsOf(client, Active, r)
      BY <1>2, <2>0, UnitsOfSame
    <3> QED
      BY <3>1, <3>2, <3>3
  <2> QED
    BY <2>1, <2>2
<1> QED
  BY <1>3, <1>8, <1>9, <1>10, <1>11 DEF LedgerInv

(* A read that is tried again keeps its record, its slot, its waiters and   *)
(* their units.                                                             *)
LEMMA RetryLedger ==
  ASSUME DispatcherInv, LedgerInv, NEW o \in Used, NEW q, NEW n \in Ops, RetryWith(o, n, q),
         Orderly' => Orderly
  PROVE  LedgerInv'
<1>0. PICK x : x = op[o]
  OBVIOUS
<1>1. /\ x.rec \in Records /\ x.slot \in Slots /\ byRec[x.rec] = o
      /\ slot[x.slot] \in SlotType /\ o \in Ops /\ x \in OpType /\ x.inUse
  BY <1>0 DEF DispatcherInv, Indexed, OpsExact, Used, TypeOK, CacheTypeOK
<1>2. /\ TypeOK /\ Indexed /\ client' = client /\ table' = table /\ Active' = Active
      /\ slot \in [Slots -> SlotType] /\ byRec \in [Records -> Ops \cup {NoOp}]
      /\ op \in [Ops -> OpType] /\ Active \subseteq Clients
  BY AskingClients DEF DispatcherInv, TypeOK, CacheTypeOK, RetryWith, Active
<1>3. /\ n \notin Used /\ Used' = (Used \ {o}) \cup {n}
      /\ \A p \in Ops \ {o, n} : op'[p] = op[p]
  <2>1. /\ Entry(n) /\ UNCHANGED <<table, tick, pinned>>
        /\ slot' = [slot EXCEPT ![op[o].slot].gen = @ + 1,
                                ![op[o].slot].class = "none", ![op[o].slot].pf = NoPf]
        /\ op' = [op EXCEPT ![o] = NullOp, ![n] = Reread(op[o])]
        /\ byRec' = [byRec EXCEPT ![op[o].rec] = n]
    BY DEF RetryWith
  <2> QED
    BY <1>2, <2>1, RetryKeeps
<1>4. /\ op'[n].rec = x.rec /\ op'[n].slot = x.slot /\ op'[n].waiters = x.waiters
      /\ op'[n].mult = x.mult
  <2>1. PICK g \in Nat : g = slot[x.slot].gen + 1
    BY <1>1 DEF SlotType
  <2>2. op'[n] = [x EXCEPT !.gen = g, !.origin = "demand", !.retry = TRUE, !.pf = NoPf]
    BY <1>0, <1>2, <2>1 DEF RetryWith, Reread
  <2>3. x \in OpType /\ NoPf \in Nat \X Nat
    BY <1>1 DEF NoPf
  <2> QED
    BY ONLY <2>2, <2>3, g \in Nat DEF OpType
<1>5. /\ byRec'[x.rec] = n /\ \A r \in Records \ {x.rec} : byRec'[r] = byRec[r]
  BY <1>0, <1>1, <1>2 DEF RetryWith
<1>6. /\ \A s \in Slots \ {x.slot} : slot'[s] = slot[s]
      /\ \A s \in Slots : slot'[s].owner = slot[s].owner /\ slot'[s].lease = slot[s].lease
  <2> DEFINE v == [slot[x.slot] EXCEPT !.gen = @ + 1, !.class = "none", !.pf = NoPf]
  <2>1. slot' = [slot EXCEPT ![x.slot].gen = @ + 1, ![x.slot].class = "none", ![x.slot].pf = NoPf]
    BY <1>0 DEF RetryWith
  <2>2. slot' = [slot EXCEPT ![x.slot] = v]
    BY <1>1, <1>2, <2>1
  <2>3. v.owner = slot[x.slot].owner /\ v.lease = slot[x.slot].lease
    BY Zenon, <1>1, SlotReread
  <2> HIDE DEF v
  <2>4. slot'[x.slot] = v /\ \A s \in Slots \ {x.slot} : slot'[s] = slot[s]
    BY <1>1, <1>2, <2>2
  <2> QED
    BY <2>3, <2>4
<1>7. \A r \in Records : /\ Resident(r)' <=> Resident(r)
                         /\ Resident(r) => slot'[table[r].slot] = slot[table[r].slot]
  BY <1>0, <1>2, <1>6, ResidentElsewhere
<1>8. DepsTell'
  BY <1>2 DEF LedgerInv, DepsTell
<1>9. Owned'
  <2>1. \A t \in Slots : slot'[t].owner = NoRec => slot'[t].lease = 0
    BY <1>6 DEF LedgerInv, Owned
  <2>2. ASSUME NEW t \in Slots, slot'[t].owner # NoRec
        PROVE  table'[slot'[t].owner].slot = t \/ \E p \in Used' : op'[p].slot = t
    <3>1. CASE t = x.slot
      BY <1>3, <1>4, <3>1
    <3>2. CASE t # x.slot
      <4>1. \A p \in Used \ {o} : p \in Used' /\ op'[p].slot = op[p].slot
        BY <1>3 DEF Used
      <4> QED
        BY <1>0, <1>2, <1>6, <2>2, <3>2, <4>1, OwnedElsewhere
    <3> QED
      BY <3>1, <3>2
  <2> QED
    BY <2>1, <2>2 DEF Owned
<1>10. Covered'
  <2> SUFFICES ASSUME NEW c \in Active, NEW r \in Wanted(client[c].req)
               PROVE  Resident(r)' \/ WaitsFor(c, r)'
    BY <1>2 DEF Covered
  <2>1. c \in Clients /\ r \in Records
    BY <1>2, AskingClients
  <2>2. ASSUME WaitsFor(c, r) PROVE WaitsFor(c, r)'
    <3>1. client[c].pc = "planned" /\ byRec[r] # NoOp /\ c \in op[byRec[r]].waiters
      BY <2>2 DEF WaitsFor
    <3>2. CASE r = x.rec
      <4>1. n # NoOp
        BY FiniteSlots
      <4> QED
        BY <1>0, <1>1, <1>2, <1>4, <1>5, <3>1, <3>2, <4>1 DEF WaitsFor
    <3>3. CASE r # x.rec
      <4>1. byRec[r] \in Used /\ op[byRec[r]].rec = r
        BY <1>2, <2>1, <3>1 DEF Indexed, RecsExact
      <4>2. byRec[r] \in Ops \ {o, n}
        BY <1>0, <1>3, <3>3, <4>1 DEF Used
      <4> QED
        BY <1>2, <1>3, <1>5, <2>1, <3>1, <3>3, <4>2 DEF WaitsFor
    <3> QED
      BY <3>2, <3>3
  <2> QED
    BY <1>7, <2>1, <2>2 DEF LedgerInv, Covered
<1>11. Carried'
  <2> SUFFICES ASSUME Orderly', NEW p \in Used'
               PROVE  /\ \A c \in op'[p].waiters : op'[p].rec \in Wanted(client[c].req)
                      /\ op'[p].mult = Cardinality(UnitsOf(client, op'[p].waiters, op'[p].rec))
    BY <1>2 DEF Carried
  <2>1. \A y \in Used : /\ \A c \in op[y].waiters : op[y].rec \in Wanted(client[c].req)
                        /\ op[y].mult = Cardinality(UnitsOf(client, op[y].waiters, op[y].rec))
    BY DEF LedgerInv, Carried
  <2>2. CASE p = n
    BY <1>0, <1>4, <2>1, <2>2
  <2>3. CASE p # n
    <3>1. p \in Used /\ p \in Ops \ {o, n}
      BY <1>3, <2>3 DEF Used
    <3> QED
      BY <1>3, <2>1, <3>1
  <2> QED
    BY <2>2, <2>3
<1>12. Leases'
  <2> SUFFICES ASSUME Orderly', NEW r \in Records, Resident(r)'
               PROVE  slot'[table[r].slot].lease = Cardinality(UnitsOf(client, Active, r))
    BY <1>2 DEF Leases
  <2> QED
    BY <1>7 DEF LedgerInv, Leases
<1> QED
  BY <1>8, <1>9, <1>10, <1>11, <1>12 DEF LedgerInv

(* A read that is dropped leaves its slot empty: nobody waited for it, or   *)
(* those who did have lost their claims.                                    *)
LEMMA DiscardLedger ==
  ASSUME DispatcherInv, LedgerInv, NEW o \in Used, NEW q, DiscardWith(o, q),
         client' \in [Clients -> ClientType],
         client' = [c \in Clients |-> IF c \in op[o].waiters /\ client[c].deps # 0
                                        THEN IdleClient ELSE client[c]],
         Orderly' => Orderly /\ op[o].waiters = {}
  PROVE  LedgerInv'
<1>0. PICK x : x = op[o]
  OBVIOUS
<1>1. /\ x.rec \in Records /\ x.slot \in Slots /\ byRec[x.rec] = o
      /\ slot[x.slot].owner = x.rec /\ slot[x.slot].lease = 0
      /\ slot[x.slot] \in SlotType /\ o \in Ops
  BY <1>0 DEF DispatcherInv, Indexed, OpsExact, Used, TypeOK, CacheTypeOK
<1>2. /\ TypeOK /\ Indexed /\ table' = table
      /\ slot \in [Slots -> SlotType] /\ Active \subseteq Clients
      /\ client \in [Clients -> ClientType] /\ Asking(client) /\ Asking(client')
  BY AskingClients DEF DispatcherInv, TypeOK, CacheTypeOK, DiscardWith, Asking, ClientType
<1>3. /\ Used' = Used \ {o} /\ \A p \in Ops \ {o} : op'[p] = op[p]
      /\ \A r \in Records : byRec'[r] = IF r = x.rec THEN NoOp ELSE byRec[r]
  <2>1. Unlink(o)
    BY DEF DiscardWith
  <2> QED
    BY <1>0, <1>2, <2>1, Unlinked
<1>4. /\ \A s \in Slots \ {x.slot} : slot'[s] = slot[s]
      /\ slot'[x.slot].owner = NoRec /\ slot'[x.slot].lease = 0
  BY <1>0, <1>1, <1>2 DEF DiscardWith, SlotType
<1>5. \A r \in Records : /\ Resident(r)' <=> Resident(r)
                         /\ Resident(r) => slot'[table[r].slot] = slot[table[r].slot]
  BY <1>0, <1>2, <1>4, ResidentElsewhere
<1>6. \A c \in Clients : client'[c] = IF c \in op[o].waiters /\ client[c].deps # 0
                                        THEN IdleClient ELSE client[c]
  OBVIOUS
<1>7. DepsTell'
  BY <1>6, IdleClientType DEF LedgerInv, DepsTell
<1>8. Owned'
  <2>1. \A t \in Slots : slot'[t].owner = NoRec => slot'[t].lease = 0
    BY <1>4 DEF LedgerInv, Owned
  <2>2. ASSUME NEW t \in Slots, slot'[t].owner # NoRec
        PROVE  table'[slot'[t].owner].slot = t \/ \E p \in Used' : op'[p].slot = t
    <3>1. t # x.slot
      BY <1>4, <2>2
    <3>2. \A p \in Used \ {o} : p \in Used' /\ op'[p].slot = op[p].slot
      BY <1>3 DEF Used
    <3> QED
      BY <1>0, <1>2, <1>4, <2>2, <3>1, <3>2, OwnedElsewhere
  <2> QED
    BY <2>1, <2>2 DEF Owned
<1>9. \A c \in Active' : /\ c \in Active /\ c \in Clients /\ client'[c] = client[c]
                         /\ c \notin op[o].waiters \/ client[c].deps = 0
  BY <1>6, IdleClientType DEF Active
<1>10. Covered'
  <2> SUFFICES ASSUME NEW c \in Active', NEW r \in Wanted(client[c].req)
               PROVE  Resident(r)' \/ WaitsFor(c, r)'
    BY <1>9 DEF Covered
  <2>1. /\ c \in Clients /\ c \in Active /\ r \in Records /\ client'[c] = client[c]
    BY <1>2, <1>9, AskingClients
  <2>2. ASSUME WaitsFor(c, r) PROVE WaitsFor(c, r)'
    <3>1. client[c].pc = "planned" /\ byRec[r] # NoOp /\ c \in op[byRec[r]].waiters
      BY <2>2 DEF WaitsFor
    <3>2. client[c].deps > 0 /\ client[c].deps # 0
      BY <2>1, <3>1 DEF LedgerInv, DepsTell
    <3>3. byRec[r] # o
      BY <1>9, <3>1, <3>2
    <3>4. byRec[r] \in Used /\ op[byRec[r]].rec = r
      BY <1>2, <2>1, <3>1 DEF Indexed, RecsExact
    <3>5. byRec[r] \in Ops \ {o} /\ r # x.rec
      BY <1>1, <3>3, <3>4 DEF Used
    <3> QED
      BY <1>3, <2>1, <3>1, <3>5 DEF WaitsFor
  <2> QED
    BY <1>5, <2>1, <2>2 DEF LedgerInv, Covered
<1>11. Orderly' => client' = client /\ Active' = Active /\ Orderly
  <2> SUFFICES ASSUME Orderly' PROVE client' = client /\ Active' = Active /\ Orderly
    OBVIOUS
  <2>1. client' = client
    BY <1>2
  <2> QED
    BY <2>1 DEF Active
<1>12. Carried'
  <2> SUFFICES ASSUME Orderly', NEW p \in Used \ {o}
               PROVE  /\ \A c \in op[p].waiters : op[p].rec \in Wanted(client[c].req)
                      /\ op[p].mult = Cardinality(UnitsOf(client, op[p].waiters, op[p].rec))
    BY <1>3, <1>11 DEF Carried, Used
  <2> QED
    BY <1>11 DEF LedgerInv, Carried
<1>13. Leases'
  <2> SUFFICES ASSUME Orderly', NEW r \in Records, Resident(r)'
               PROVE  slot'[table[r].slot].lease = Cardinality(UnitsOf(client, Active, r))
    BY <1>2, <1>11 DEF Leases
  <2> QED
    BY <1>5, <1>11 DEF LedgerInv, Leases
<1> QED
  BY <1>7, <1>8, <1>10, <1>12, <1>13 DEF LedgerInv

(* The end of a read, whoever found it.                                     *)
LEMMA EndLedger ==
  ASSUME DispatcherInv, LedgerInv, NEW o, NEW q, Frame(o, q), Ended(o, q),
         Orderly' => Orderly
  PROVE  LedgerInv'
<1>1. o \in Used /\ client' \in [Clients -> ClientType]
  BY EndWaiters DEF Frame
<1>2. CASE Publish(o, q) /\ disp.pc \notin {"abort", "exited"}
  BY <1>1, <1>2, PublishLedger
<1>3. CASE op[o].waiters = {} /\ DiscardWith(o, q) /\ client' = client
  <2>1. client' = [c \in Clients |-> IF c \in op[o].waiters /\ client[c].deps # 0
                                       THEN IdleClient ELSE client[c]]
    BY <1>3 DEF DispatcherInv, TypeOK
  <2> QED
    BY <1>1, <1>3, <2>1, DiscardLedger
<1>4. CASE disp.pc = "abort" /\ Discard(o, q)
  <2>1. DiscardWith(o, q)
    BY <1>4 DEF Discard, DiscardWith
  <2>2. client' = [c \in Clients |-> IF c \in op[o].waiters /\ client[c].deps # 0
                                       THEN IdleClient ELSE client[c]]
    BY <1>4 DEF Discard
  <2>3. ~Orderly
    BY <1>4 DEF Orderly, DispatcherInv, TailKnows
  <2> QED
    BY <1>1, <2>1, <2>2, <2>3, DiscardLedger
<1>5. ASSUME NEW why \in {"io", "pool", "cancel"}, Die(why, q) PROVE LedgerInv'
  BY <1>5, LedgerUntouched DEF Die
<1>6. ASSUME NEW n \in Ops, RetryWith(o, n, q) PROVE LedgerInv'
  BY <1>1, <1>6, RetryLedger
<1> QED
  BY <1>2, <1>3, <1>4, <1>5, <1>6 DEF Ended, Forgotten

-----------------------------------------------------------------------------
(* A command in the queue is one its client waits for, once.                *)
QueueAsks ==
  /\ \A i \in DOMAIN cmdQ : client[cmdQ[i]].pc \in {"queued", "releasing"}
  /\ \A i, j \in DOMAIN cmdQ : cmdQ[i] = cmdQ[j] => i = j

(* The queue stays, and so do the clients in it.                            *)
LEMMA QueueKept ==
  ASSUME DispatcherInv, QueueAsks, cmdQ' = cmdQ,
         \A c \in Clients : client[c].pc \in {"queued", "releasing"} =>
           client'[c].pc \in {"queued", "releasing"}
  PROVE  QueueAsks'
<1>1. \A i \in DOMAIN cmdQ : cmdQ[i] \in Clients
  BY DEF DispatcherInv, TypeOK
<1> QED
  BY <1>1 DEF QueueAsks

(* A client that does not wait for a command enqueues one.                  *)
LEMMA QueueGrows ==
  ASSUME DispatcherInv, QueueAsks, NEW c \in Clients, cmdQ' = Append(cmdQ, c),
         client[c].pc \notin {"queued", "releasing"}, client'[c].pc \in {"queued", "releasing"},
         \A d \in Clients \ {c} : client'[d] = client[d]
  PROVE  QueueAsks'
<1>1. cmdQ \in Seq(Clients)
  BY DEF DispatcherInv, TypeOK
<1>2. /\ DOMAIN cmdQ' = 1 .. Len(cmdQ) + 1 /\ DOMAIN cmdQ = 1 .. Len(cmdQ) /\ Len(cmdQ) \in Nat
      /\ cmdQ'[Len(cmdQ) + 1] = c /\ \A i \in 1 .. Len(cmdQ) : cmdQ'[i] = cmdQ[i]
  BY <1>1
<1>3. \A i \in 1 .. Len(cmdQ) : cmdQ[i] \in Clients \ {c}
  BY <1>1, <1>2 DEF QueueAsks
<1>4. \A i \in DOMAIN cmdQ' : i = Len(cmdQ) + 1 \/ i \in 1 .. Len(cmdQ)
  BY <1>2
<1> QED
  BY <1>2, <1>3, <1>4 DEF QueueAsks

(* The command at the head is taken; the others stay as they are.           *)
LEMMA QueueShrinks ==
  ASSUME DispatcherInv, QueueAsks, cmdQ # <<>>, cmdQ' = Tail(cmdQ),
         NEW c \in Clients, c = Head(cmdQ),
         \A d \in Clients \ {c} : client'[d] = client[d]
  PROVE  QueueAsks'
<1>1. cmdQ \in Seq(Clients)
  BY DEF DispatcherInv, TypeOK
<1>2. /\ c = cmdQ[1] /\ 1 \in DOMAIN cmdQ
      /\ \A i \in DOMAIN cmdQ' : i + 1 \in DOMAIN cmdQ /\ cmdQ'[i] = cmdQ[i + 1]
                                 /\ i + 1 # 1 /\ i \in Nat
  BY <1>1
<1>3. \A i \in DOMAIN cmdQ' : cmdQ'[i] \in Clients \ {c}
  BY <1>1, <1>2 DEF QueueAsks
<1>4. \A i \in DOMAIN cmdQ' : client'[cmdQ'[i]].pc \in {"queued", "releasing"}
  BY <1>2, <1>3 DEF QueueAsks
<1>5. \A i, j \in DOMAIN cmdQ' : cmdQ'[i] = cmdQ'[j] => i = j
  <2> SUFFICES ASSUME NEW i \in DOMAIN cmdQ', NEW j \in DOMAIN cmdQ', cmdQ'[i] = cmdQ'[j]
               PROVE  i = j
    OBVIOUS
  <2>1. i + 1 = j + 1
    BY <1>2 DEF QueueAsks
  <2> QED
    BY <1>2, <2>1
<1> QED
  BY <1>4, <1>5 DEF QueueAsks

(* The head of the queue.                                                   *)
LEMMA QueueHead ==
  ASSUME DispatcherInv, QueueAsks, cmdQ # <<>>
  PROVE  Head(cmdQ) \in Clients /\ client[Head(cmdQ)].pc \in {"queued", "releasing"}
<1>1. cmdQ \in Seq(Clients)
  BY DEF DispatcherInv, TypeOK
<1>2. 1 \in DOMAIN cmdQ /\ Head(cmdQ) = cmdQ[1] /\ Head(cmdQ) \in Clients
  BY <1>1
<1> QED
  BY <1>2 DEF QueueAsks

(* No read that ends touches a client in the queue.                         *)
LEMMA EndQueue ==
  ASSUME DispatcherInv, LedgerInv, QueueAsks, NEW o, NEW q, Frame(o, q), Ended(o, q)
  PROVE  QueueAsks'
<1>1. o \in Used /\ cmdQ' = cmdQ
  BY DEF Frame
<1>2. CASE Publish(o, q) /\ disp.pc \notin {"abort", "exited"}
  <2>1. \A c \in op[o].waiters : client[c].pc = "planned"
    BY <1>1, <1>2, WaitersWait DEF Orderly
  <2>2. \A c \in Clients : c \notin op[o].waiters => client'[c] = client[c]
    BY Zenon, <1>2 DEF Publish
  <2> QED
    BY <1>1, <2>1, <2>2, QueueKept
<1>3. CASE Discard(o, q)
  <2>1. \A c \in Clients : client[c].pc # "planned" => client'[c] = client[c]
    <3> SUFFICES ASSUME NEW c \in Clients, client[c].pc # "planned" PROVE client'[c] = client[c]
      OBVIOUS
    <3>1. ~(client[c].deps > 0) /\ client[c].deps \in Nat
      BY DEF LedgerInv, DepsTell, DispatcherInv, TypeOK, ClientType
    <3>2. client[c].deps = 0
      BY <3>1
    <3> QED
      BY <1>3, <3>2 DEF Discard
  <2> QED
    BY <1>1, <2>1, QueueKept
<1>4. CASE client' = client
  BY <1>1, <1>4, QueueKept
<1> QED
  BY <1>2, <1>3, <1>4 DEF Ended, Forgotten, Die, RetryWith

-----------------------------------------------------------------------------
(* The steps in which a read ends, each in one of the ways of Ended.        *)
EndsRead == \/ Retire \/ (\E x \in {"ok", "short"} : SubmitSync(x)) \/ SubmitRefused
            \/ CancelGuess \/ AbortRead \/ AbortQueued

(* Each of these steps takes one read from its place and ends it.           *)
LEMMA ReadEnds ==
  ASSUME DispatcherInv, EndsRead
  PROVE  \E o, q : Frame(o, q) /\ Ended(o, q)
<1> USE DEF DispatcherInv
<1>1. CASE Retire
  <2>1. PICK ch \in Signaled : /\ disp' = [disp EXCEPT !.chan = ch + 1]
                               /\ chan' = [chan EXCEPT ![ch] = IdleChannel]
                               /\ Terminal(chan[ch].op, chan[ch].read, submitQ)
    BY <1>1 DEF Retire
  <2>2. Alive /\ disp.pc = "retire" /\ UNCHANGED <<memory, cmdQ>>
    BY <1>1 DEF Retire, At
  <2>3. ch \in Channels /\ chan[ch].op # NoOp /\ disp'.pc = disp.pc
    BY <2>1 DEF Signaled, Busy, TypeOK
  <2>4. Frame(chan[ch].op, submitQ)
    BY <2>1, <2>2, <2>3, OffChannel
  <2>5. chan[ch].op \in Used /\ (chan[ch].read = "ok" => memory'[op[chan[ch].op].slot] = op[chan[ch].op].rec)
    BY <2>2, <2>3, <2>4 DEF Frame, Arrived
  <2>6. Ended(chan[ch].op, submitQ)
    BY <2>1, <2>2, <2>5, TerminalEnds
  <2> QED
    BY <2>4, <2>6
<1>2. ASSUME NEW x \in {"ok", "short"}, SubmitSync(x)
      PROVE  \E o, q : Frame(o, q) /\ Ended(o, q)
  <2>0. PICK o : o = Head(submitQ)
    OBVIOUS
  <2>1. /\ Alive /\ disp.pc \in {"pump", "pumpIssued"} /\ submitQ # <<>>
        /\ UNCHANGED <<chan, cmdQ, disp>> /\ Terminal(o, x, Tail(submitQ))
        /\ memory' = [memory EXCEPT ![op[o].slot] = IF x = "ok" THEN op[o].rec ELSE NoRec]
    BY <1>2, <2>0 DEF SubmitSync, Pumping, At
  <2>2. Frame(o, Tail(submitQ)) /\ op[o].slot \in Slots
    BY <2>0, <2>1, OffQueue
  <2>3. o \in Used /\ memory \in [Slots -> Records \cup {NoRec}]
    BY <2>2 DEF Frame, TypeOK
  <2>4. x = "ok" => memory'[op[o].slot] = op[o].rec
    BY <2>1, <2>2, <2>3
  <2>5. Ended(o, Tail(submitQ))
    BY <2>1, <2>3, <2>4, TerminalEnds
  <2> QED
    BY <2>2, <2>5
<1>3. CASE SubmitRefused
  <2>0. PICK o : o = Head(submitQ)
    OBVIOUS
  <2>1. /\ Alive /\ disp.pc \in {"pump", "pumpIssued"} /\ submitQ # <<>>
        /\ UNCHANGED <<chan, memory, cmdQ, disp>>
    BY <1>3 DEF SubmitRefused, Pumping, At
  <2>2. Frame(o, Tail(submitQ)) /\ o = submitQ[1] /\ 1 \in DOMAIN submitQ
    BY <2>0, <2>1, OffQueue
  <2>3. CASE op[o].origin = "demand"
    BY <1>3, <2>0, <2>2, <2>3 DEF SubmitRefused, Ended
  <2>4. CASE op[o].origin # "demand"
    <3>1. o \in Ops /\ op[o].origin = "prefetch"
      BY <2>2, <2>4 DEF Frame, Used, TypeOK, OpType
    <3>2. op[o].waiters = {}
      BY <2>2, <3>1 DEF GuessFresh
    <3>3. DiscardWith(o, Tail(submitQ)) /\ client' = client
      BY <1>3, <2>0, <2>4 DEF SubmitRefused, DiscardWith
    <3>4. Ended(o, Tail(submitQ))
      BY <3>2, <3>3 DEF Ended, Forgotten
    <3> QED
      BY <2>2, <3>4
  <2> QED
    BY <2>3, <2>4
<1>4. CASE CancelGuess \/ AbortRead
  <2>1. PICK ch \in Busy : /\ DropRead(ch)
                           /\ \/ disp.pc = "abort"
                              \/ disp.pc = "cancel" /\ op[chan[ch].op].waiters = {}
    BY <1>4 DEF CancelGuess, AbortRead, BusyWith, At
  <2>2. /\ Alive /\ ch \in Channels /\ chan[ch].op # NoOp
        /\ UNCHANGED <<memory, cmdQ, disp>> /\ chan' = [chan EXCEPT ![ch] = IdleChannel]
        /\ Die("cancel", submitQ) \/ Discard(chan[ch].op, submitQ)
    BY <1>4, <2>1 DEF CancelGuess, AbortRead, At, Busy, DropRead
  <2>3. Frame(chan[ch].op, submitQ)
    BY Zenon, <2>2, OffChannel
  <2>4. ASSUME disp.pc = "cancel", Discard(chan[ch].op, submitQ) PROVE client' = client
    <3>1. op[chan[ch].op].waiters = {}
      BY <2>1, <2>4
    <3> QED
      BY <2>4, <3>1 DEF Discard, TypeOK
  <2>5. Ended(chan[ch].op, submitQ)
    BY <2>1, <2>2, <2>4 DEF Ended, Forgotten, Discard, DiscardWith
  <2> QED
    BY <2>3, <2>5
<1>5. CASE AbortQueued
  <2>1. /\ Alive /\ disp.pc = "abort" /\ submitQ # <<>> /\ Discard(Head(submitQ), Tail(submitQ))
        /\ UNCHANGED <<chan, memory, cmdQ, disp>>
    BY <1>5 DEF AbortQueued, At
  <2>2. Frame(Head(submitQ), Tail(submitQ))
    BY <2>1, OffQueue
  <2>3. Ended(Head(submitQ), Tail(submitQ))
    BY <2>1 DEF Ended, Forgotten
  <2> QED
    BY <2>2, <2>3
<1> QED
  BY <1>1, <1>2, <1>3, <1>4, <1>5 DEF EndsRead

(* The steps that leave slots, reads, clients and the queue of commands.    *)
Aside == \/ TurnMoves \/ SubmitPending \/ AdmitDrop \/ CutAdmit \/ Exit \/ AbortDone
         \/ EnvMoves \/ (\E ch \in Channels : IoStep(ch)) \/ UNCHANGED vars

(* They keep the ledger.                                                    *)
LEMMA AsideStep ==
  ASSUME DispatcherInv, LedgerInv, QueueAsks, Orderly' => Orderly, Aside
  PROVE  LedgerInv' /\ QueueAsks'
<1>1. UNCHANGED <<slot, table, op, byRec, client, cmdQ>>
  <2>1. CASE TurnMoves \/ SubmitPending \/ AdmitDrop \/ CutAdmit \/ Exit \/ AbortDone
    BY <2>1 DEF TurnMoves, Turn, CommandsDone, RetireDone, PumpDone, AdmitNothing, CutAdmitDone,
       SubmitPending, AdmitDrop, CutAdmit, Exit, AbortDone, cacheVars, ioVars, clientVars
  <2>2. CASE EnvMoves \/ UNCHANGED vars
    BY <2>2 DEF EnvMoves, NextGraph, PublishIntent, Cut, PredictorDrained, StopRequest, vars,
       cacheVars, ioVars, clientVars
  <2>3. CASE \E ch \in Channels : IoStep(ch)
    BY <2>3 DEF IoStep, IoComplete, cacheVars, clientVars
  <2> QED
    BY <2>1, <2>2, <2>3 DEF Aside
<1> QED
  BY <1>1, LedgerUntouched, QueueKept

-----------------------------------------------------------------------------
(* The head of the queue is answered: an acquire is refused, or an abort    *)
(* answers whatever it is.                                                  *)
LEMMA AnsweredLedger ==
  ASSUME DispatcherInv, LedgerInv, QueueAsks, Orderly' => Orderly, RefuseAcquire \/ AbortCommand
  PROVE  LedgerInv' /\ QueueAsks'
<1>1. PICK c \in Clients : c = Head(cmdQ)
  BY QueueHead DEF RefuseAcquire, AcquireNext, Commands, AbortCommand
<1>2. /\ cmdQ # <<>> /\ cmdQ' = Tail(cmdQ) /\ UNCHANGED <<slot, table, op, byRec>>
      /\ client[c].pc \in {"queued", "releasing"}
      /\ client \in [Clients -> ClientType]
  BY <1>1, QueueHead DEF RefuseAcquire, AcquireNext, Commands, AbortCommand, cacheVars, ioVars,
     DispatcherInv, TypeOK
<1>3. client[c].deps = 0
  <2>1. ~(client[c].deps > 0) /\ client[c].deps \in Nat
    BY <1>2 DEF LedgerInv, DepsTell, ClientType
  <2> QED
    BY <2>1
<1>4. CASE client' = [client EXCEPT ![c] = IdleClient] /\ client[c].pc = "queued"
  BY <1>1, <1>2, <1>4, IdleClientType, OneClientLedger, QueueShrinks
<1>5. CASE AbortCommand
  <2> DEFINE p == IF client[c].pc = "releasing" THEN "lost" ELSE "idle"
             v == [client[c] EXCEPT !.pc = p]
  <2>1. client' = [client EXCEPT ![c] = v]
    BY <1>1, <1>2, <1>5 DEF AbortCommand
  <2>2. /\ v \in ClientType /\ v.deps = 0 /\ v.req = client[c].req /\ v.pc = p
    BY <1>2, <1>3 DEF ClientType
  <2>3. \/ v.pc \in {"idle", "queued"} /\ client[c].pc \in {"idle", "queued"}
        \/ /\ v.req = client[c].req
           /\ v.pc \in {"releasing", "lost"} /\ client[c].pc \in {"holding", "releasing", "lost"}
    BY <1>2, <2>2
  <2>4. v.pc # "planned" /\ client[c].pc # "planned"
    BY <1>2, <2>2
  <2> HIDE DEF p, v
  <2>5. LedgerInv'
    BY <1>2, <2>1, <2>2, <2>3, <2>4, OneClientLedger
  <2>6. \A d \in Clients \ {c} : client'[d] = client[d]
    BY <1>2, <2>1
  <2> QED
    BY <1>1, <1>2, <2>5, <2>6, QueueShrinks
<1>6. RefuseAcquire => client' = [client EXCEPT ![c] = IdleClient] /\ client[c].pc = "queued"
  BY <1>1 DEF RefuseAcquire, AcquireNext
<1> QED
  BY <1>4, <1>5, <1>6

(* A command enters the queue, or a release is refused at the door.         *)
LEMMA EnqueuedLedger ==
  ASSUME DispatcherInv, LedgerInv, QueueAsks, Orderly' => Orderly,
         NEW c \in Clients, Release(c) \/ \E q \in Requests : Acquire(c, q)
  PROVE  LedgerInv' /\ QueueAsks'
<1>1. /\ UNCHANGED <<slot, table, op, byRec>> /\ client \in [Clients -> ClientType]
      /\ client[c].pc \in {"idle", "holding"}
  BY DEF Release, Acquire, cacheVars, ioVars, DispatcherInv, TypeOK
<1>2. client[c].deps = 0
  <2>1. ~(client[c].deps > 0) /\ client[c].deps \in Nat
    BY <1>1 DEF LedgerInv, DepsTell, ClientType
  <2> QED
    BY <2>1
<1>3. ASSUME NEW q \in Requests, Acquire(c, q) PROVE LedgerInv' /\ QueueAsks'
  <2>1. PICK v : v = [pc |-> "queued", req |-> q, graph |-> graph, deps |-> 0]
    OBVIOUS
  <2>2. /\ v \in ClientType /\ v.deps = 0 /\ v.pc = "queued"
    BY <2>1 DEF ClientType, DispatcherInv, TypeOK
  <2>3. /\ client' = [client EXCEPT ![c] = v] /\ cmdQ' = Append(cmdQ, c) /\ client[c].pc = "idle"
    BY <1>3, <2>1 DEF Acquire
  <2>4. LedgerInv'
    BY <1>1, <2>2, <2>3, OneClientLedger
  <2>5. client'[c] = v /\ \A d \in Clients \ {c} : client'[d] = client[d]
    BY <1>1, <2>3
  <2> QED
    BY <2>2, <2>3, <2>4, <2>5, QueueGrows
<1>4. CASE Release(c)
  <2>1. PICK p \in {"lost", "releasing"} :
          /\ client' = [client EXCEPT ![c].pc = p]
          /\ cmdQ' = IF p = "lost" THEN cmdQ ELSE Append(cmdQ, c)
    <3>1. CASE client' = [client EXCEPT ![c].pc = "lost"] /\ cmdQ' = cmdQ
      BY <3>1
    <3>2. CASE client' = [client EXCEPT ![c].pc = "releasing"] /\ cmdQ' = Append(cmdQ, c)
      BY <3>2
    <3> QED
      BY <1>4, <3>1, <3>2 DEF Release
  <2>2. client[c].pc = "holding"
    BY <1>4 DEF Release
  <2>3. PICK v : v = [client[c] EXCEPT !.pc = p]
    OBVIOUS
  <2>4. /\ v \in ClientType /\ v.deps = 0 /\ v.req = client[c].req /\ v.pc = p
    BY <1>1, <1>2, <2>3 DEF ClientType
  <2>5. client' = [client EXCEPT ![c] = v]
    BY <1>1, <2>1, <2>3
  <2>6. LedgerInv'
    BY <1>1, <2>2, <2>4, <2>5, OneClientLedger
  <2>7. client'[c] = v /\ \A d \in Clients \ {c} : client'[d] = client[d]
    BY <1>1, <2>5
  <2>8. QueueAsks'
    <3>1. CASE p = "lost"
      <4>1. \A d \in Clients : client[d].pc \in {"queued", "releasing"} => client'[d] = client[d]
        BY <2>2, <2>7
      <4> QED
        BY <2>1, <3>1, <4>1, QueueKept
    <3>2. CASE p = "releasing"
      BY <2>1, <2>2, <2>4, <2>7, <3>2, QueueGrows
    <3> QED
      BY <3>1, <3>2
  <2> QED
    BY <2>6, <2>8
<1> QED
  BY <1>3, <1>4

(* Every step keeps the ledger.                                             *)
LEMMA LedgerStep == DispatcherInv /\ LedgerInv /\ QueueAsks /\ [Next]_vars => LedgerInv' /\ QueueAsks'
<1> SUFFICES ASSUME DispatcherInv, LedgerInv, QueueAsks, [Next]_vars
             PROVE  LedgerInv' /\ QueueAsks'
  OBVIOUS
<1>1. Orderly' => Orderly
  BY OrderlyBefore
<1>2. CASE Aside
  BY <1>1, <1>2, AsideStep
<1>3. CASE EndsRead
  <2>1. PICK o, q : Frame(o, q) /\ Ended(o, q)
    BY <1>3, ReadEnds
  <2> QED
    BY <1>1, <2>1, EndLedger, EndQueue
<1>4. CASE RefuseAcquire \/ AbortCommand
  BY <1>1, <1>4, AnsweredLedger
<1>5. CASE PlanAcquire
  <2>1. LedgerInv'
    BY <1>5, PlanLedger
  <2>2. PICK c \in Clients : c = Head(cmdQ)
    BY <1>5, QueueHead DEF PlanAcquire, AcquireNext, Commands
  <2>3. cmdQ # <<>> /\ cmdQ' = Tail(cmdQ) /\ \A d \in Clients \ {c} : client'[d] = client[d]
    BY <1>5, <2>2 DEF PlanAcquire, AcquireNext, Commands, DispatcherInv, TypeOK
  <2> QED
    BY <2>1, <2>2, <2>3, QueueShrinks
<1>6. CASE HandleRelease
  <2>1. LedgerInv'
    BY <1>6, ReleaseLedger
  <2>2. PICK c \in Clients : c = Head(cmdQ)
    BY <1>6, QueueHead DEF HandleRelease, Commands
  <2>3. cmdQ # <<>> /\ cmdQ' = Tail(cmdQ) /\ \A d \in Clients \ {c} : client'[d] = client[d]
    BY <1>6, <2>2 DEF HandleRelease, Commands, DispatcherInv, TypeOK
  <2> QED
    BY <2>1, <2>2, <2>3, QueueShrinks
<1>7. CASE AdmitClaim
  <2>1. cmdQ' = cmdQ /\ client' = client
    BY <1>7 DEF AdmitClaim, clientVars
  <2> QED
    BY <1>7, <2>1, AdmitLedger, QueueKept
<1>8. ASSUME NEW c \in Clients, Release(c) \/ \E q \in Requests : Acquire(c, q)
      PROVE  LedgerInv' /\ QueueAsks'
  BY <1>1, <1>8, EnqueuedLedger
<1>9. CASE DispatcherStep
  BY <1>2, <1>3, <1>4, <1>5, <1>6, <1>7, <1>9 DEF DispatcherStep, Aside, TurnMoves, EndsRead
<1>10. CASE Environment
  BY <1>2, <1>8, <1>10 DEF Environment, Aside, EnvMoves
<1>11. CASE UNCHANGED vars
  BY <1>2, <1>11 DEF Aside
<1> QED
  BY <1>9, <1>10, <1>11 DEF Next

(* Nothing is leased, waited for or owned when the store starts.            *)
LEMMA LedgerInit == Init => LedgerInv /\ QueueAsks
<1> SUFFICES ASSUME Init PROVE LedgerInv /\ QueueAsks
  OBVIOUS
<1> USE DEF Init, CacheInit
<1>1. Used = {} /\ Active = {}
  BY DEF Used, NullOp, Active, IdleClient
<1>2. DepsTell /\ QueueAsks
  BY DEF DepsTell, IdleClient, QueueAsks
<1>3. Owned
  BY DEF Owned, EmptySlot
<1>4. Covered /\ Carried
  BY <1>1 DEF Covered, Carried
<1>5. \A r \in Records : ~Resident(r)
  BY FiniteSlots DEF Resident
<1>6. Leases
  BY <1>5 DEF Leases
<1> QED
  BY <1>2, <1>3, <1>4, <1>6 DEF LedgerInv

-----------------------------------------------------------------------------
(* All the dispatcher keeps: its own books, and the ledger of the leases.   *)
StoreInv == DispatcherInv /\ LedgerInv /\ QueueAsks

(* The pool, the slots, the table, the commands and the ledger of leases    *)
(* agree in every state (disp_handle_acquire_locked,                        *)
(* disp_op_terminal_locked, disp_handle_release_locked).                    *)
THEOREM StoreInvariant == Spec => []StoreInv
<1>1. Init => StoreInv
  BY DispatcherInit, LedgerInit DEF StoreInv
<1>2. StoreInv /\ [Next]_vars => StoreInv'
  BY DispatcherStepInv, LedgerStep DEF StoreInv
<1> QED
  BY <1>1, <1>2, PTL DEF Spec

(* A record that is in the table has no read pending.                       *)
LEMMA ResidentIsSettled ==
  ASSUME StoreInv, NEW r \in Records, Resident(r)
  PROVE  byRec[r] = NoOp /\ Holders(r) = Active
<1>1. byRec[r] = NoOp
  BY DEF StoreInv, DispatcherInv, Indexed, OpsExact, RecsExact, Resident
<1> QED
  BY <1>1 DEF Holders, Active

(* What is granted is on its slot: it is resident, and has been read.       *)
LEMMA GrantsReadable == StoreInv => GrantedIsReadable
<1> SUFFICES ASSUME StoreInv, NEW r \in Records, NEW c \in Holders(r), r \in Wanted(client[c].req)
             PROVE  Readable(r)
  BY DEF GrantedIsReadable
<1>1. c \in Active /\ ~WaitsFor(c, r)
  BY DEF Holders, Active, WaitsFor
<1>2. Resident(r)
  BY <1>1 DEF StoreInv, LedgerInv, Covered
<1>3. memory[table[r].slot] = r
  BY <1>2 DEF StoreInv, DispatcherInv, Published, Resident
<1> QED
  BY <1>2, <1>3 DEF Readable

(* What is granted is readable, and stays so until it is given back: no     *)
(* claim, retry, cancel or late read touches a slot with a lease on it.     *)
(* This also holds through an abort and after it.                           *)
THEOREM GrantsAreReadable == Spec => []GrantedIsReadable
<1> QED
  BY GrantsReadable, StoreInvariant, PTL

(* The accounts of the ledger amount to the number of units held.           *)
LEMMA LeaseIsExact == StoreInv => (Orderly => LeaseExact)
<1> SUFFICES ASSUME StoreInv, Orderly, NEW s \in Slots
             PROVE  slot[s].lease = IF slot[s].owner = NoRec THEN 0
                      ELSE Cardinality(UnitsOf(client, Holders(slot[s].owner), slot[s].owner))
  BY DEF LeaseExact
<1>1. CASE slot[s].owner = NoRec
  BY <1>1 DEF StoreInv, LedgerInv, Owned
<1>2. CASE slot[s].owner # NoRec
  <2>1. PICK r \in Records : r = slot[s].owner
    BY <1>2 DEF StoreInv, DispatcherInv, TypeOK, CacheTypeOK, SlotType
  <2>2. CASE table[r].slot = s
    <3>1. Resident(r)
      BY <2>1, <2>2, FiniteSlots DEF Resident, StoreInv, DispatcherInv, Indexed, TableExact
    <3>2. slot[s].lease = Cardinality(UnitsOf(client, Active, r))
      BY <2>2, <3>1 DEF StoreInv, LedgerInv, Leases
    <3> QED
      BY <1>2, <2>1, <3>1, <3>2, ResidentIsSettled
  <2>3. ASSUME NEW o \in Used, op[o].slot = s
        PROVE  slot[s].lease = Cardinality(UnitsOf(client, Holders(r), r))
    <3>1. op[o].rec = r /\ slot[s].lease = 0 /\ table[r].slot = NoSlot
      BY <2>1, <2>3 DEF StoreInv, DispatcherInv, Indexed, OpsExact
    <3>2. Asking(client) /\ Holders(r) \subseteq Clients
      BY AskingClients DEF StoreInv, DispatcherInv, Holders
    <3>3. ASSUME NEW c \in Holders(r), r \in Wanted(client[c].req) PROVE FALSE
      <4>1. c \in Active /\ ~WaitsFor(c, r) /\ ~Resident(r)
        BY <3>1 DEF Holders, Active, WaitsFor, Resident
      <4> QED
        BY <3>3, <4>1 DEF StoreInv, LedgerInv, Covered
    <3>4. Cardinality(UnitsOf(client, Holders(r), r)) = 0
      BY <3>2, <3>3, UnitsOfNone
    <3> QED
      BY <3>1, <3>4
  <2>4. table[r].slot = s \/ \E o \in Used : op[o].slot = s
    BY <1>2, <2>1 DEF StoreInv, LedgerInv, Owned
  <2> QED
    BY <1>2, <2>1, <2>2, <2>3, <2>4
<1> QED
  BY <1>1, <1>2

(* As long as no abort has started, the lease of a slot is exactly the      *)
(* number of units clients hold on its record.  (An abort forgets the       *)
(* commands that waited, and with them the units they had been granted:     *)
(* nobody returns those any more.)                                          *)
THEOREM LeasesAreExact == Spec => [](Orderly => LeaseExact)
<1> QED
  BY LeaseIsExact, StoreInvariant, PTL

(* As long as no abort has started, a command waits for exactly the reads   *)
(* that list it, and a read carries exactly the units of those it lists.    *)
THEOREM WaitersAreExact == Spec => [](Orderly => WaitersExact)
<1>1. StoreInv => (Orderly => WaitersExact)
  <2> SUFFICES ASSUME StoreInv, Orderly PROVE WaitersExact
    OBVIOUS
  <2> USE DEF StoreInv
  <2>1. \A c \in Clients : client[c].deps > 0 <=> client[c].pc = "planned"
    BY DEF LedgerInv, DepsTell
  <2>2. \A o \in Ops : op[o].inUse =>
          op[o].mult = Cardinality(UnitsOf(client, op[o].waiters, op[o].rec))
    BY DEF LedgerInv, Carried, Used
  <2>3. ASSUME NEW c \in Clients
        PROVE  client[c].deps = Cardinality({o \in Ops : c \in op[o].waiters})
    <3>1. CASE disp.pc \notin {"abort", "exited"}
      BY <3>1 DEF DispatcherInv, Counted, ListedBy
    <3>2. CASE disp.pc = "exited"
      <4>1. life.stop = "graceful"
        BY <3>2 DEF Orderly
      <4>2. Used = {} /\ Planned = {}
        BY <3>2, <4>1, NothingInFlight DEF DispatcherInv, TailKnows, Quiet
      <4>3. {o \in Ops : c \in op[o].waiters} = {}
        BY <4>2 DEF Used, DispatcherInv, Listed
      <4>4. client[c].deps = 0
        <5>1. ~(client[c].deps > 0) /\ client[c].deps \in Nat
          BY <2>1, <4>2 DEF Planned, DispatcherInv, TypeOK, ClientType
        <5> QED
          BY <5>1
      <4> QED
        BY <4>3, <4>4, FS_EmptySet
    <3>3. disp.pc # "abort"
      BY DEF Orderly, DispatcherInv, TailKnows
    <3> QED
      BY <3>1, <3>2, <3>3
  <2> QED
    BY <2>1, <2>2, <2>3 DEF WaitersExact
<1> QED
  BY <1>1, StoreInvariant, PTL

-----------------------------------------------------------------------------
(* A program that is never told to abort keeps its ledger exact.            *)
StopsAsked == life.stop \in {"no"} \cup Stops

(* The dispatcher is stopped only in the ways the program stops it.         *)
LEMMA StopsAskedStep == DispatcherInv /\ StopsAsked /\ [Next]_vars => StopsAsked'
<1> SUFFICES ASSUME DispatcherInv, StopsAsked, [Next]_vars PROVE StopsAsked'
  OBVIOUS
<1>1. CASE Environment
  BY Zenon, <1>1 DEF Environment, Release, Acquire, NextGraph, PublishIntent, IoStep, IoComplete, Cut,
     PredictorDrained, StopRequest, envVars, StopsAsked, DispatcherInv, TypeOK
<1>2. CASE DispatcherStep
  <2>1. UNCHANGED envVars
    BY <1>2 DEF DispatcherStep, Turn, RefuseAcquire, PlanAcquire, HandleRelease, CommandsDone,
       Retire, RetireDone, SubmitPending, SubmitSync, SubmitRefused, PumpDone, AdmitClaim,
       AdmitDrop, AdmitNothing, CutAdmit, CutAdmitDone, CancelGuess, Exit, AbortRead, DropRead,
       AbortQueued, AbortCommand, AbortDone
  <2> QED
    BY <2>1 DEF envVars, StopsAsked
<1> QED
  BY <1>1, <1>2 DEF Next, vars, StopsAsked

(* Where nobody aborts the dispatcher, leases and dependency counts are     *)
(* exact in every state, up to the end of the graceful stop and after it.   *)
THEOREM UndisturbedLedger ==
  ASSUME "abort" \notin Stops
  PROVE  Spec => [](LeaseExact /\ WaitersExact)
<1>1. Init => StopsAsked
  BY DEF Init, StopsAsked
<1>2. DispatcherInv /\ StopsAsked => Orderly
  BY DEF StopsAsked, Orderly, DispatcherInv, TailKnows, TypeOK
<1> QED
  BY <1>1, <1>2, StopsAskedStep, DispatcherInvariant, LeasesAreExact, WaitersAreExact, PTL DEF Spec

-----------------------------------------------------------------------------
(* How a step that is neither a call of acquire nor of release may change a *)
(* client: who waits is granted what it asked for, turned down or waits on; *)
(* who holds keeps its grant; nobody else gets one.                         *)
Settles(c) ==
  /\ client[c].pc \in {"queued", "planned"} =>
       \/ client'[c].pc = "idle"
       \/ client'[c].pc \in {"queued", "planned", "holding"} /\ client'[c].req = client[c].req
  /\ client[c].pc = "holding" => client'[c] = client[c]
  /\ client[c].pc \in {"idle", "releasing", "lost"} =>
       client'[c].pc \in {"idle", "releasing", "lost"}

(* The end of a read settles its waiters.                                   *)
LEMMA EndSettles ==
  ASSUME StoreInv, NEW o, NEW q, Frame(o, q), Ended(o, q), NEW c \in Clients
  PROVE  Settles(c)
<1> USE DEF StoreInv
<1>1. o \in Used /\ client \in [Clients -> ClientType] /\ client[c] \in ClientType
  BY DEF Frame, DispatcherInv, TypeOK
<1>2. CASE Publish(o, q) /\ disp.pc \notin {"abort", "exited"}
  <2>1. CASE c \in op[o].waiters
    <3>1. client[c].pc = "planned"
      BY <1>1, <1>2, <2>1, WaitersWait DEF Orderly
    <3>2. PICK d, p : d = client[c].deps - 1 /\ p = IF client[c].deps = 1 THEN "holding" ELSE "planned"
      OBVIOUS
    <3>3. client'[c] = [client[c] EXCEPT !.deps = d, !.pc = p]
      BY Zenon, <1>1, <1>2, <2>1, <3>1, <3>2 DEF Publish, ClientType
    <3> QED
      BY <1>1, <3>1, <3>2, <3>3 DEF Settles, ClientType
  <2>2. CASE c \notin op[o].waiters
    BY Zenon, <1>1, <1>2, <2>2 DEF Publish, Settles, ClientType
  <2> QED
    BY <2>1, <2>2
<1>3. CASE Discard(o, q)
  <2>1. CASE client[c].pc = "planned"
    BY <1>1, <1>3, <2>1 DEF Discard, Settles, IdleClient
  <2>2. CASE client[c].pc # "planned"
    <3>1. ~(client[c].deps > 0) /\ client[c].deps \in Nat
      BY <1>1, <2>2 DEF LedgerInv, DepsTell, ClientType
    <3>2. client[c].deps = 0
      BY <3>1
    <3> QED
      BY <1>1, <1>3, <2>2, <3>2 DEF Discard, Settles, ClientType
  <2> QED
    BY <2>1, <2>2
<1>4. CASE client' = client
  BY <1>1, <1>4 DEF Settles, ClientType
<1> QED
  BY <1>2, <1>3, <1>4 DEF Ended, Forgotten, Die, RetryWith

(* So does every step that is no call.                                      *)
LEMMA StepSettles ==
  ASSUME StoreInv, [Next]_vars, NEW c \in Clients
  PROVE  \/ Settles(c)
         \/ \E d \in Clients : Release(d) \/ \E q \in Requests : Acquire(d, q)
<1> USE DEF StoreInv
<1>1. client \in [Clients -> ClientType] /\ client[c] \in ClientType
  BY DEF DispatcherInv, TypeOK
<1>2. CASE client' = client
  BY <1>1, <1>2 DEF Settles, ClientType
<1>3. CASE EndsRead
  BY <1>3, ReadEnds, EndSettles
<1>4. CASE RefuseAcquire \/ AbortCommand \/ HandleRelease
  <2>1. PICK h \in Clients : h = Head(cmdQ) /\ client[h].pc \in {"queued", "releasing"}
    BY <1>4, QueueHead DEF RefuseAcquire, AcquireNext, Commands, AbortCommand, HandleRelease
  <2>2. CASE c = h
    <3>1. CASE client' = [client EXCEPT ![h] = IdleClient]
      BY <1>1, <2>1, <2>2, <3>1, IdleClientType DEF Settles
    <3>2. CASE client' = [client EXCEPT ![h].pc = IF @ = "releasing" THEN "lost" ELSE "idle"]
      <4>1. client'[h] = [client[h] EXCEPT !.pc = IF @ = "releasing" THEN "lost" ELSE "idle"]
        BY <1>1, <3>2
      <4> QED
        BY <1>1, <2>1, <2>2, <4>1 DEF Settles, ClientType
    <3> QED
      BY <1>4, <2>1, <3>1, <3>2 DEF RefuseAcquire, AbortCommand, HandleRelease
  <2>3. CASE c # h
    BY <1>1, <1>4, <2>1, <2>3 DEF RefuseAcquire, AbortCommand, HandleRelease, Settles, ClientType
  <2> QED
    BY <2>2, <2>3
<1>5. CASE PlanAcquire
  <2>1. PICK h \in Clients, q \in Requests \cup {NoRequest} : PlanAnswers(h, q)
    BY <1>5, PlanParts
  <2>2. CASE c = h
    BY <2>1, <2>2 DEF PlanAnswers, Settles
  <2>3. CASE c # h
    BY <1>1, <2>1, <2>3 DEF PlanAnswers, Settles, ClientType
  <2> QED
    BY <2>2, <2>3
<1>6. CASE AdmitClaim
  BY <1>2, <1>6 DEF AdmitClaim, clientVars
<1>7. CASE Aside
  <2>1. client' = client
    <3>1. CASE TurnMoves \/ SubmitPending \/ AdmitDrop \/ CutAdmit \/ Exit \/ AbortDone
      BY <3>1 DEF TurnMoves, Turn, CommandsDone, RetireDone, PumpDone, AdmitNothing, CutAdmitDone,
         SubmitPending, AdmitDrop, CutAdmit, Exit, AbortDone, clientVars
    <3>2. CASE EnvMoves \/ UNCHANGED vars \/ \E ch \in Channels : IoStep(ch)
      BY <3>2 DEF EnvMoves, NextGraph, PublishIntent, Cut, PredictorDrained, StopRequest, vars,
         IoStep, IoComplete, clientVars
    <3> QED
      BY <1>7, <3>1, <3>2 DEF Aside
  <2> QED
    BY <1>2, <2>1
<1>8. CASE DispatcherStep
  BY <1>3, <1>4, <1>5, <1>6, <1>7, <1>8 DEF DispatcherStep, Aside, TurnMoves, EndsRead
<1>9. CASE Environment
  BY <1>7, <1>9 DEF Environment, Aside, EnvMoves
<1> QED
  BY <1>2, <1>8, <1>9 DEF Next, vars

-----------------------------------------------------------------------------
(* What the mapping makes of a state: the records a reader finds, and what  *)
(* each client is told.                                                     *)
Shown == {r \in Records : Readable(r)}
Told  == [c \in Clients |->
            CASE client[c].pc \in {"queued", "planned"} ->
                   [st |-> "asking", want |-> Wanted(client[c].req)]
              [] client[c].pc = "holding" ->
                   [st |-> "holding", want |-> Wanted(client[c].req)]
              [] OTHER -> [st |-> "idle", want |-> {}]]

(* The mapping, client by client, now and after a step.                     *)
LEMMA ToldAs ==
  ASSUME NEW c \in Clients
  PROVE  /\ client[c].pc \in {"queued", "planned"} =>
              Told[c] = [st |-> "asking", want |-> Wanted(client[c].req)]
         /\ client[c].pc = "holding" =>
              Told[c] = [st |-> "holding", want |-> Wanted(client[c].req)]
         /\ client[c].pc \notin {"queued", "planned", "holding"} =>
              Told[c] = [st |-> "idle", want |-> {}]
BY DEF Told

(* The same, field by field.                                                *)
LEMMA ToldFields ==
  ASSUME NEW c \in Clients
  PROVE  /\ Told[c].st = "asking" <=> client[c].pc \in {"queued", "planned"}
         /\ Told[c].st = "holding" <=> client[c].pc = "holding"
         /\ client[c].pc \in {"queued", "planned", "holding"} => Told[c].want = Wanted(client[c].req)
<1>1. CASE client[c].pc \in {"queued", "planned"}
  <2>1. Told[c] = [st |-> "asking", want |-> Wanted(client[c].req)]
    BY <1>1, ToldAs
  <2> QED
    BY <1>1, <2>1
<1>2. CASE client[c].pc = "holding"
  <2>1. Told[c] = [st |-> "holding", want |-> Wanted(client[c].req)]
    BY <1>2, ToldAs
  <2> QED
    BY <1>2, <2>1
<1>3. CASE client[c].pc \notin {"queued", "planned", "holding"}
  <2>1. Told[c] = [st |-> "idle", want |-> {}]
    BY <1>3, ToldAs
  <2> QED
    BY <1>3, <2>1
<1> QED
  BY <1>1, <1>2, <1>3

(* What a client is told after the step.                                    *)
LEMMA ToldNext ==
  ASSUME NEW c \in Clients
  PROVE  /\ client'[c].pc \in {"queued", "planned"} =>
              Told'[c] = [st |-> "asking", want |-> Wanted(client'[c].req)]
         /\ client'[c].pc = "holding" =>
              Told'[c] = [st |-> "holding", want |-> Wanted(client'[c].req)]
         /\ client'[c].pc \notin {"queued", "planned", "holding"} =>
              Told'[c] = [st |-> "idle", want |-> {}]
BY DEF Told

(* What a client that holds is told it wants is readable.                   *)
LEMMA HeldIsShown ==
  ASSUME StoreInv, NEW c \in Clients, client[c].pc = "holding"
  PROVE  Wanted(client[c].req) \subseteq Shown
<1> SUFFICES ASSUME NEW r \in Wanted(client[c].req) PROVE r \in Shown
  OBVIOUS
<1>1. r \in Records
  BY AskingClients DEF StoreInv, DispatcherInv
<1>2. c \in Holders(r)
  BY DEF Holders
<1> QED
  BY <1>1, <1>2, GrantsReadable DEF GrantedIsReadable, Shown

(* A step in which nobody calls is the store's own work: it grants whole    *)
(* requests that are readable, turns others down, and keeps what is held.   *)
LEMMA SettledIsWork ==
  ASSUME StoreInv, StoreInv', \A c \in Clients : Settles(c)
  PROVE  \E granted, refused \in SUBSET Clients :
           /\ granted \cap refused = {}
           /\ \A c \in granted \cup refused : Told[c].st = "asking"
           /\ Shown' \in SUBSET Records
           /\ UNION {Told[c].want : c \in {d \in Clients : Told[d].st = "holding"}} \subseteq Shown'
           /\ \A c \in granted : Told[c].want \subseteq Shown'
           /\ Told' = [c \in Clients |->
                CASE c \in granted -> [Told[c] EXCEPT !.st = "holding"]
                  [] c \in refused -> [st |-> "idle", want |-> {}]
                  [] OTHER -> Told[c]]
<1>1. \A c \in Clients : client'[c].pc = "holding" => Wanted(client'[c].req) \subseteq Shown'
  <2> SUFFICES ASSUME NEW c \in Clients, client'[c].pc = "holding"
               PROVE  Wanted(client'[c].req) \subseteq Shown'
    OBVIOUS
  <2> SUFFICES ASSUME NEW r \in Wanted(client'[c].req) PROVE r \in Shown'
    OBVIOUS
  <2>1. r \in Records
    <3>1. client'[c].req \in Requests \cup {NoRequest}
      BY DEF StoreInv, DispatcherInv, TypeOK, ClientType
    <3> QED
      BY <3>1, RequestType
  <2>2. c \in Holders(r)'
    BY DEF Holders
  <2>3. GrantedIsReadable'
    BY GrantsReadable, PTL
  <2> QED
    BY <2>1, <2>2, <2>3 DEF GrantedIsReadable, Shown
<1> DEFINE G == {c \in Clients : client[c].pc \in {"queued", "planned"} /\ client'[c].pc = "holding"}
           R == {c \in Clients : client[c].pc \in {"queued", "planned"} /\ client'[c].pc = "idle"}
<1>2. G \in SUBSET Clients /\ R \in SUBSET Clients /\ G \cap R = {}
  OBVIOUS
<1>3. \A c \in G \cup R : Told[c].st = "asking"
  BY ToldFields
<1>4. Shown' \in SUBSET Records
  BY DEF Shown
<1>5. \A c \in Clients : Told[c].st = "holding" => Told[c].want \subseteq Shown'
  <2> SUFFICES ASSUME NEW c \in Clients, Told[c].st = "holding" PROVE Told[c].want \subseteq Shown'
    OBVIOUS
  <2>1. client[c].pc = "holding" /\ Told[c].want = Wanted(client[c].req)
    BY ToldFields
  <2>2. client'[c] = client[c]
    BY <2>1 DEF Settles
  <2> QED
    BY <1>1, <2>1, <2>2
<1>6. \A c \in G : Told[c].want \subseteq Shown'
  <2> SUFFICES ASSUME NEW c \in G PROVE Told[c].want \subseteq Shown'
    OBVIOUS
  <2>1. Told[c].want = Wanted(client[c].req)
    BY ToldFields
  <2>2. client'[c].req = client[c].req /\ client'[c].pc = "holding"
    BY DEF Settles
  <2> QED
    BY <1>1, <2>1, <2>2
<1>7. Told' = [c \in Clients |->
        CASE c \in G -> [Told[c] EXCEPT !.st = "holding"]
          [] c \in R -> [st |-> "idle", want |-> {}]
          [] OTHER -> Told[c]]
  <2> DEFINE T(c) == CASE c \in G -> [Told[c] EXCEPT !.st = "holding"]
                       [] c \in R -> [st |-> "idle", want |-> {}]
                       [] OTHER -> Told[c]
  <2>1. ASSUME NEW c \in Clients PROVE Told'[c] = T(c)
    <3>1. Settles(c) /\ client[c] \in ClientType /\ client'[c] \in ClientType
      BY DEF StoreInv, DispatcherInv, TypeOK
    <3>2. CASE c \in G
      <4>1. /\ Told[c] = [st |-> "asking", want |-> Wanted(client[c].req)]
            /\ Told'[c] = [st |-> "holding", want |-> Wanted(client'[c].req)]
            /\ client'[c].req = client[c].req
        BY <3>1, <3>2, ToldAs, ToldNext DEF Settles
      <4> QED
        BY <3>2, <4>1
    <3>3. CASE c \in R
      BY <3>3, ToldNext
    <3>4. CASE c \notin G /\ c \notin R
      <4>1. T(c) = Told[c]
        BY <3>4
      <4> HIDE DEF T
      <4>2. CASE client[c].pc \in {"queued", "planned"}
        <5>1. client'[c].pc \in {"queued", "planned"} /\ client'[c].req = client[c].req
          BY <3>1, <3>4, <4>2 DEF Settles
        <5> QED
          BY <4>1, <4>2, <5>1, ToldAs, ToldNext
      <4>3. CASE client[c].pc = "holding"
        BY <3>1, <4>1, <4>3, ToldAs, ToldNext DEF Settles
      <4>4. CASE client[c].pc \in {"idle", "releasing", "lost"}
        BY <3>1, <4>1, <4>4, ToldAs, ToldNext DEF Settles
      <4> QED
        BY <3>1, <4>2, <4>3, <4>4 DEF ClientType
    <3> QED
      BY <3>2, <3>3, <3>4
  <2>2. Told' = [c \in Clients |-> Told'[c]]
    BY DEF Told
  <2> QED
    BY <2>1, <2>2
<1>8. UNION {Told[c].want : c \in {d \in Clients : Told[d].st = "holding"}} \subseteq Shown'
  BY <1>5
<1> HIDE DEF G, R
<1> USE <1>2
<1> WITNESS G \in SUBSET Clients, R \in SUBSET Clients
<1> QED
  BY <1>2, <1>3, <1>4, <1>6, <1>7, <1>8

(* A call changes what its client is told, and nothing that is shown.       *)
LEMMA CallTells ==
  ASSUME StoreInv, NEW c \in Clients, NEW v \in ClientType, client' = [client EXCEPT ![c] = v],
         UNCHANGED <<slot, table, memory>>
  PROVE  Shown' = Shown /\ Told' = [Told EXCEPT ![c] = Told'[c]]
<1>1. Shown' = Shown
  BY DEF Shown, Readable, Resident
<1>2. client'[c] = v /\ \A d \in Clients \ {c} : client'[d] = client[d]
  BY DEF StoreInv, DispatcherInv, TypeOK
<1>3. \A d \in Clients \ {c} : Told'[d] = Told[d]
  <2> SUFFICES ASSUME NEW d \in Clients \ {c} PROVE Told'[d] = Told[d]
    OBVIOUS
  <2>1. client'[d] = client[d] /\ d \in Clients
    BY <1>2
  <2> QED
    BY Zenon, <2>1, ToldAs, ToldNext
<1>4. Told = [d \in Clients |-> Told[d]] /\ Told' = [d \in Clients |-> Told'[d]]
  BY DEF Told
<1> HIDE DEF Told
<1>5. [Told EXCEPT ![c] = Told'[c]] = [d \in Clients |-> IF d = c THEN Told'[c] ELSE Told[d]]
  BY <1>4
<1>6. \A d \in Clients : Told'[d] = IF d = c THEN Told'[c] ELSE Told[d]
  BY <1>3
<1> QED
  BY <1>1, <1>4, <1>5, <1>6

(* Every step of the dispatcher is a step of the abstract store: acquire    *)
(* asks, release gives back, and the rest is the store's own work.          *)
LEMMA LeaseStep ==
  ASSUME StoreInv, StoreInv', [Next]_vars
  PROVE  Lease!LeaseNext
<1>1. ASSUME NEW c \in Clients, NEW q \in Requests, Acquire(c, q) PROVE Lease!Ask(c)
  <2>1. PICK v : v = [pc |-> "queued", req |-> q, graph |-> graph, deps |-> 0]
    OBVIOUS
  <2>2. v \in ClientType /\ v.pc = "queued" /\ v.req = q
    BY <2>1 DEF ClientType, StoreInv, DispatcherInv, TypeOK
  <2>3. /\ client' = [client EXCEPT ![c] = v] /\ UNCHANGED <<slot, table, memory>>
        /\ client[c].pc = "idle"
    BY <1>1, <2>1 DEF Acquire, cacheVars, ioVars
  <2>4. Shown' = Shown /\ Told' = [Told EXCEPT ![c] = Told'[c]]
    BY <2>2, <2>3, CallTells
  <2>5. client'[c] = v
    BY <2>3 DEF StoreInv, DispatcherInv, TypeOK
  <2>6. Told[c] = [st |-> "idle", want |-> {}] /\ Told'[c] = [st |-> "asking", want |-> Wanted(q)]
    BY <2>2, <2>3, <2>5, ToldAs, ToldNext
  <2>7. Wanted(q) \in (SUBSET Records) \ {{}}
    <3>1. Wanted(q) \subseteq Records /\ q.ids \in Seq(Experts) /\ q.ids # <<>>
      BY RequestType, DispatcherAssumption
    <3>2. 1 \in DOMAIN q.ids
      BY <3>1
    <3>3. Wanted(q) # {}
      BY <3>2 DEF Wanted
    <3> QED
      BY <3>1, <3>3
  <2> QED
    BY <2>4, <2>6, <2>7 DEF Lease!Ask, Lease!Idle, Shown, Told
<1>2. ASSUME NEW c \in Clients, Release(c) PROVE Lease!GiveBack(c)
  <2>1. PICK p \in {"lost", "releasing"} : client' = [client EXCEPT ![c].pc = p]
    <3>1. CASE client' = [client EXCEPT ![c].pc = "lost"]
      BY <3>1
    <3>2. CASE client' = [client EXCEPT ![c].pc = "releasing"]
      BY <3>2
    <3> QED
      BY <1>2, <3>1, <3>2 DEF Release
  <2>2. PICK v : v = [client[c] EXCEPT !.pc = p]
    OBVIOUS
  <2>3. /\ client \in [Clients -> ClientType] /\ v \in ClientType /\ v.pc = p
        /\ client' = [client EXCEPT ![c] = v] /\ client'[c] = v
    <3>1. client \in [Clients -> ClientType] /\ client[c] \in ClientType
      BY DEF StoreInv, DispatcherInv, TypeOK
    <3>2. v \in ClientType /\ v.pc = p
      BY <2>2, <3>1 DEF ClientType
    <3> QED
      BY <2>1, <2>2, <3>1, <3>2
  <2>4. client[c].pc = "holding" /\ UNCHANGED <<slot, table, memory>>
    BY <1>2 DEF Release, cacheVars, ioVars
  <2>5. Shown' = Shown /\ Told' = [Told EXCEPT ![c] = Told'[c]]
    BY <2>3, <2>4, CallTells
  <2>6. Told[c].st = "holding" /\ Told'[c] = [st |-> "idle", want |-> {}]
    BY <2>3, <2>4, ToldFields, ToldNext
  <2> QED
    BY <2>5, <2>6 DEF Lease!GiveBack, Lease!Holding, Lease!Idle, Shown, Told
<1>3. CASE \A c \in Clients : Settles(c)
  <2>1. \E granted, refused \in SUBSET Clients :
           /\ granted \cap refused = {}
           /\ \A c \in granted \cup refused : Told[c].st = "asking"
           /\ Shown' \in SUBSET Records
           /\ UNION {Told[c].want : c \in {d \in Clients : Told[d].st = "holding"}} \subseteq Shown'
           /\ \A c \in granted : Told[c].want \subseteq Shown'
           /\ Told' = [c \in Clients |->
                CASE c \in granted -> [Told[c] EXCEPT !.st = "holding"]
                  [] c \in refused -> [st |-> "idle", want |-> {}]
                  [] OTHER -> Told[c]]
    BY <1>3, SettledIsWork
  <2>2. \E granted, refused \in SUBSET Clients : Lease!Work(granted, refused)
    BY <2>1 DEF Lease!Work, Lease!Asking, Lease!Held, Lease!Holding, Lease!Idle, Shown, Told
  <2> QED
    BY <2>2 DEF Lease!LeaseNext
<1>4. CASE \E d \in Clients : Release(d) \/ \E q \in Requests : Acquire(d, q)
  BY <1>1, <1>2, <1>4 DEF Lease!LeaseNext
<1> QED
  BY <1>3, <1>4, StepSettles

(* The dispatcher implements the abstract lease store: whatever slots,      *)
(* reads, guesses, faults and stops do, a client that asks is granted all   *)
(* of its records or none, and can read them until it calls release.        *)
THEOREM DispatcherImplementsLease == Spec => ImplementsLease
<1>1. Init => Lease!LeaseInit
  <2> SUFFICES ASSUME Init PROVE Lease!LeaseInit
    OBVIOUS
  <2>1. Shown = {}
    BY FiniteSlots DEF Init, CacheInit, Shown, Readable, Resident
  <2>2. Told = [c \in Clients |-> [st |-> "idle", want |-> {}]]
    BY DEF Init, Told, IdleClient
  <2> QED
    BY <2>1, <2>2 DEF Lease!LeaseInit, Lease!Idle, Shown, Told
<1>2. StoreInv /\ StoreInv' /\ [Next]_vars => [Lease!LeaseNext]_Lease!leaseVars
  BY LeaseStep
<1> QED
  BY <1>1, <1>2, StoreInvariant, PTL DEF Spec, ImplementsLease, Lease!LeaseSpec

-----------------------------------------------------------------------------
(* The room in the pool.  Reads and pinned slots are the same in number, so *)
(* there are as many free entries as slots no read writes into.             *)
LEMMA RoomIsSlots ==
  DispatcherInv => /\ IsFiniteSet(FreeOps) /\ IsFiniteSet(Slots \ Pins)
                   /\ Cardinality(FreeOps) \in Nat
                   /\ Cardinality(Slots \ Pins) = Cardinality(FreeOps)
<1> SUFFICES ASSUME DispatcherInv
             PROVE  /\ IsFiniteSet(FreeOps) /\ IsFiniteSet(Slots \ Pins)
                    /\ Cardinality(FreeOps) \in Nat
                    /\ Cardinality(Slots \ Pins) = Cardinality(FreeOps)
  OBVIOUS
<1>1. Used \subseteq Ops /\ Pins \subseteq Slots /\ Ops = Slots /\ IsFiniteSet(Slots)
  BY FiniteSlots DEF Used, Pins, Ops
<1>2. IsFiniteSet(Used) /\ IsFiniteSet(Pins)
  BY <1>1, FS_Subset
<1>3. Cardinality(Pins) = Cardinality(Used)
  <2> DEFINE f == [o \in Used |-> op[o].slot]
  <2>1. \A o \in Used : op[o].slot \in Pins
    BY DEF DispatcherInv, Indexed, OpsExact, Pins
  <2>2. \A s \in Pins : \E o \in Used : op[o].slot = s
    BY DEF DispatcherInv, Indexed, PinsExact, Pins
  <2>3. \A o, p \in Used : op[o].slot = op[p].slot => o = p
    BY DEF DispatcherInv, Indexed, OpsExact
  <2>4. f \in Surjection(Used, Pins)
    BY <2>1, <2>2 DEF Surjection
  <2>5. f \in Injection(Used, Pins)
    BY <2>1, <2>3 DEF Injection, IsInjective
  <2> HIDE DEF f
  <2> QED
    BY <1>2, <2>4, <2>5, FS_Surjection
<1>4. FreeOps = Slots \ Used /\ Slots \cap Used = Used /\ Slots \cap Pins = Pins
  BY <1>1 DEF FreeOps, Used
<1>5. /\ IsFiniteSet(Slots \ Used) /\ IsFiniteSet(Slots \ Pins)
      /\ Cardinality(Slots \ Used) = Cardinality(Slots) - Cardinality(Slots \cap Used)
      /\ Cardinality(Slots \ Pins) = Cardinality(Slots) - Cardinality(Slots \cap Pins)
  BY <1>1, FS_Difference
<1> QED
  BY <1>3, <1>4, <1>5, FS_CardinalityType

(* The records of two kinds a request wants are no more than its places.    *)
LEMMA RequestRoom ==
  ASSUME NEW q \in Requests \cup {NoRequest}, NEW A, NEW B,
         A \subseteq Wanted(q), B \subseteq Wanted(q), A \cap B = {}
  PROVE  /\ IsFiniteSet(A) /\ IsFiniteSet(B)
         /\ Cardinality(A) \in Nat /\ Cardinality(B) \in Nat /\ Len(q.ids) \in Nat
         /\ Cardinality(A) + Cardinality(B) <= Len(q.ids)
<1>1. /\ IsFiniteSet(A) /\ Cardinality(A) \in Nat /\ IsFiniteSet(B) /\ Cardinality(B) \in Nat
      /\ IsFiniteSet(Wanted(q)) /\ Cardinality(Wanted(q)) \in Nat
  BY WantedFinite
<1>2. IsFiniteSet(DOMAIN q.ids) /\ Cardinality(DOMAIN q.ids) = Len(q.ids) /\ Len(q.ids) \in Nat
  <2>1. DOMAIN q.ids = 1 .. Len(q.ids) /\ 1 \in Int /\ Len(q.ids) \in Int /\ Len(q.ids) \in Nat
    BY RequestType
  <2>2. /\ IsFiniteSet(1 .. Len(q.ids))
        /\ Cardinality(1 .. Len(q.ids)) = IF 1 > Len(q.ids) THEN 0 ELSE Len(q.ids) - 1 + 1
    BY ONLY <2>1, FS_Interval
  <2> QED
    BY <2>1, <2>2
<1> DEFINE f == [i \in DOMAIN q.ids |-> <<q.layer, q.ids[i]>>]
<1>3. f \in Surjection(DOMAIN q.ids, Wanted(q))
  BY DEF Surjection, Wanted
<1> HIDE DEF f
<1>4. Cardinality(Wanted(q)) <= Len(q.ids)
  BY <1>2, <1>3, FS_Surjection
<1>5. Cardinality(A \cup B) = Cardinality(A) + Cardinality(B) - Cardinality(A \cap B)
  BY <1>1, FS_Union
<1>6. Cardinality(A \cap B) = 0 /\ Cardinality(A \cup B) <= Cardinality(Wanted(q))
  BY <1>1, FS_EmptySet, FS_Subset
<1> QED
  BY <1>1, <1>2, <1>4, <1>5, <1>6

(* A process that has died does nothing.                                    *)
LEMMA DeadIsStill ==
  ASSUME [Next]_vars, ~Alive
  PROVE  UNCHANGED vars
<1>1. ~Environment
  BY Zenon DEF Environment, Release, Acquire, NextGraph, PublishIntent, IoStep, IoComplete, Cut,
     PredictorDrained, StopRequest
<1>2. ~DispatcherStep
  BY DEF DispatcherStep, Turn, RefuseAcquire, PlanAcquire, AcquireNext, HandleRelease, Commands,
     CommandsDone, Retire, RetireDone, SubmitPending, SubmitSync, SubmitRefused, Pumping,
     PumpDone, AdmitClaim, AdmitDrop, AdmitNothing, CutAdmit, CutAdmitDone, CancelGuess, Exit,
     AbortRead, AbortQueued, AbortCommand, AbortDone, At
<1> QED
  BY <1>1, <1>2 DEF Next

(* An end of a read touches no command but those that wait for reads.       *)
LEMMA EndSpares ==
  ASSUME StoreInv, NEW o, NEW q, Frame(o, q), Ended(o, q), NEW c \in Clients,
         client[c].pc # "planned"
  PROVE  client'[c] = client[c]
<1> USE DEF StoreInv
<1>1. o \in Used /\ client \in [Clients -> ClientType]
  BY DEF Frame, DispatcherInv, TypeOK
<1>2. CASE Publish(o, q) /\ disp.pc \notin {"abort", "exited"}
  <2>1. c \notin op[o].waiters
    BY <1>1, <1>2, WaitersWait DEF Orderly
  <2> QED
    BY Zenon, <1>2, <2>1 DEF Publish
<1>3. CASE Discard(o, q)
  <2>1. ~(client[c].deps > 0) /\ client[c].deps \in Nat
    BY <1>1 DEF LedgerInv, DepsTell, ClientType
  <2>2. client[c].deps = 0
    BY <2>1
  <2> QED
    BY <1>3, <2>2 DEF Discard
<1>4. CASE client' = client
  BY <1>4
<1> QED
  BY <1>2, <1>3, <1>4 DEF Ended, Forgotten, Die, RetryWith

(* The end of a read frees its entry, unless the process dies of it.        *)
LEMMA EndFrees ==
  ASSUME DispatcherInv, NEW o, NEW q, Frame(o, q), Ended(o, q)
  PROVE  o \in FreeOps' \/ UNCHANGED <<op, client>>
<1>1. o \in Ops /\ op[o].inUse /\ op \in [Ops -> OpType]
  BY DEF Frame, Used, DispatcherInv, TypeOK
<1>2. CASE op' = [op EXCEPT ![o] = NullOp]
  BY <1>1, <1>2 DEF FreeOps, NullOp
<1>3. ASSUME NEW n \in Ops, RetryWith(o, n, q) PROVE o \in FreeOps'
  <2>1. n # o /\ op' = [op EXCEPT ![o] = NullOp, ![n] = Reread(op[o])]
    BY <1>1, <1>3 DEF RetryWith, Entry, FreeOps
  <2> QED
    BY <1>1, <2>1 DEF FreeOps, NullOp
<1> QED
  BY <1>2, <1>3 DEF Ended, Forgotten, Die, Publish, Discard, DiscardWith, Unlink

-----------------------------------------------------------------------------
(* The pool is full only while the plan that took its last entries waits:   *)
(* that plan had room for a read of every record it wanted and needed all   *)
(* of it, so its command has joined no guess.                               *)
PoolRoom ==
  FreeOps = {} => \E c \in Planned : \A o \in Used : c \in op[o].waiters => op[o].origin = "demand"

(* Steps that leave the pool and the commands that wait for reads.          *)
LEMMA PoolRoomKept ==
  ASSUME PoolRoom, op' = op, \A c \in Planned : client'[c].pc = "planned"
  PROVE  PoolRoom'
<1>1. FreeOps' = FreeOps /\ Used' = Used /\ Planned \subseteq Planned'
  BY DEF FreeOps, Used, Planned
<1> QED
  BY <1>1 DEF PoolRoom

(* An admission leaves a token's worth of slots unpinned, hence as many     *)
(* entries.                                                                 *)
LEMMA AdmitRoom ==
  ASSUME DispatcherInv, DispatcherInv', AdmitClaim
  PROVE  FreeOps' # {} /\ Cardinality(FreeOps') >= NUsed
<1>1. PICK s \in Slots, o \in Ops, x \in OpType : AdmitFacts(s, o, x)
  BY AdmitShape
<1>2. \A t \in Slots \ {s} : pinned'[t] <=> pinned[t]
  BY <1>1 DEF AdmitFacts, Claims
<1>3. IsFiniteSet(Spare) /\ Cardinality(Spare) \in Nat /\ Spare \subseteq Slots \ Pins
  <2>1. Spare \subseteq Slots /\ Spare \subseteq Slots \ Pins
    BY DEF Spare, Evictable
  <2> QED
    BY <2>1, FiniteSlots, FS_Subset, FS_CardinalityType
<1>4. Cardinality(Spare) - 1 >= NUsed /\ NUsed \in Nat \ {0}
  BY DispatcherAssumption DEF AdmitClaim, Admits, KeepsReserve
<1> DEFINE L == Spare \ {s}
<1>5. IsFiniteSet(L) /\ Cardinality(L) \in Nat /\ Cardinality(L) >= Cardinality(Spare) - 1
  <2>1. IsFiniteSet(L) /\ Cardinality(L) = IF s \in Spare THEN Cardinality(Spare) - 1
                                                         ELSE Cardinality(Spare)
    BY <1>3, FS_RemoveElement
  <2> QED
    BY <1>3, <2>1, FS_CardinalityType
<1>6. L \subseteq Slots \ Pins'
  BY <1>2, <1>3 DEF Pins
<1>7. /\ IsFiniteSet(FreeOps') /\ IsFiniteSet(Slots \ Pins') /\ Cardinality(FreeOps') \in Nat
      /\ Cardinality(Slots \ Pins') = Cardinality(FreeOps')
  <2>1. (/\ IsFiniteSet(FreeOps) /\ IsFiniteSet(Slots \ Pins)
         /\ Cardinality(FreeOps) \in Nat
         /\ Cardinality(Slots \ Pins) = Cardinality(FreeOps))'
    BY RoomIsSlots, PTL
  <2> QED
    BY <2>1
<1> HIDE DEF L
<1>8. Cardinality(L) <= Cardinality(Slots \ Pins')
  BY <1>6, <1>7, FS_Subset
<1>9. Cardinality(FreeOps') >= NUsed /\ Cardinality(FreeOps') # 0
  BY ONLY <1>3, <1>4, <1>5, <1>7, <1>8
<1> QED
  BY <1>7, <1>9, FS_EmptySet

(* A plan that takes the last entries joins nothing.                        *)
LEMMA PlanTakesAll ==
  ASSUME DispatcherInv, NEW c \in Clients, NEW q \in Requests \cup {NoRequest}, NEW n \in Nat,
         PlanAnswers(c, q),
         NEW rec \in [1 .. n -> Misses(q, InFlight)], NEW s \in [1 .. n -> Slots],
         NEW o \in [1 .. n -> Ops \ Used], PlanFacts(c, q, n, rec, s, o),
         FreeOps # {}, FreeOps' = {}
  PROVE  Joins(q, InFlight) = {} /\ Misses(q, InFlight) # {}
<1> DEFINE M == Misses(q, InFlight)
           J == Joins(q, InFlight)
           P == 1 .. n
<1>1. Claims(1 .. n, rec, s, o) /\ Len(q.ids) <= Cardinality(FreeOps)
  BY DEF PlanFacts, PlanAnswers
<1>2. IsFiniteSet(P) /\ Cardinality(P) = n
  <2>1. 1 \in Int /\ n \in Int
    OBVIOUS
  <2>2. IsFiniteSet(1 .. n) /\ Cardinality(1 .. n) = IF 1 > n THEN 0 ELSE n - 1 + 1
    BY ONLY <2>1, FS_Interval
  <2> QED
    BY <2>2
<1>3. /\ IsFiniteSet(M) /\ IsFiniteSet(J)
      /\ Cardinality(M) \in Nat /\ Cardinality(J) \in Nat /\ Len(q.ids) \in Nat
      /\ Cardinality(M) + Cardinality(J) <= Len(q.ids)
  <2>1. M \subseteq Wanted(q) /\ J \subseteq Wanted(q) /\ M \cap J = {}
    BY DEF Misses, Joins, Hits
  <2> HIDE DEF M, J
  <2> QED
    BY <2>1, RequestRoom
<1>4. n <= Cardinality(M)
  <2>1. rec \in Injection(P, M)
    BY <1>1 DEF Claims, Injection, IsInjective
  <2> HIDE DEF M, P
  <2> QED
    BY <1>2, <1>3, <2>1, FS_Injection
<1>5. FreeOps \subseteq {o[k] : k \in P}
  <2> SUFFICES ASSUME NEW p \in FreeOps, \A k \in P : o[k] # p PROVE FALSE
    OBVIOUS
  <2>1. op'[p].inUse = op[p].inUse /\ p \in Ops
    BY <1>1 DEF Claims, FreeOps
  <2> QED
    BY <2>1 DEF FreeOps
<1>6. Cardinality(FreeOps) <= n
  <2> DEFINE N == {o[k] : k \in P}
  <2>1. o \in Surjection(P, N)
    BY DEF Surjection
  <2> HIDE DEF N, P
  <2>2. IsFiniteSet(N) /\ Cardinality(N) <= n
    BY <1>2, <2>1, FS_Surjection
  <2>3. Cardinality(FreeOps) <= Cardinality(N) /\ Cardinality(N) \in Nat
    BY <1>5, <2>2, FS_Subset, FS_CardinalityType DEF N
  <2> QED
    BY <2>2, <2>3, RoomIsSlots
<1>7. Cardinality(FreeOps) \in Nat /\ Cardinality(FreeOps) # 0
  BY RoomIsSlots, FS_EmptySet
<1>8. Cardinality(J) = 0 /\ Cardinality(M) # 0
  BY <1>1, <1>3, <1>4, <1>6, <1>7
<1> QED
  BY <1>3, <1>8, FS_EmptySet

(* So the command of such a plan is the one that has joined no guess.       *)
LEMMA PlanRoom ==
  ASSUME StoreInv, PoolRoom, PlanAcquire
  PROVE  PoolRoom'
<1> USE DEF StoreInv
<1>1. PICK c \in Clients, q \in Requests \cup {NoRequest}, n \in Nat :
        /\ PlanAnswers(c, q)
        /\ \E rec \in [1 .. n -> Misses(q, InFlight)], s \in [1 .. n -> Slots],
              o \in [1 .. n -> Ops \ Used] : PlanFacts(c, q, n, rec, s, o)
  BY PlanParts
<1>2. PICK rec \in [1 .. n -> Misses(q, InFlight)], s \in [1 .. n -> Slots],
           o \in [1 .. n -> Ops \ Used] : PlanFacts(c, q, n, rec, s, o)
  BY <1>1
<1>3. /\ client[c].pc = "queued" /\ \A d \in Clients \ {c} : client'[d] = client[d]
      /\ Misses(q, InFlight) # {} => client'[c].pc = "planned"
      /\ disp.pc \in {"commands", "recheck"}
  BY <1>1 DEF PlanAnswers
<1>4. /\ \A k \in 1 .. n : op'[o[k]].origin = "demand"
      /\ \A p \in Ops : (\A k \in 1 .. n : o[k] # p) =>
           /\ op'[p].origin = op[p].origin /\ op'[p].inUse = op[p].inUse
           /\ op'[p].waiters = IF op[p].inUse /\ op[p].rec \in Joins(q, InFlight)
                                 THEN op[p].waiters \cup {c} ELSE op[p].waiters
  BY <1>2 DEF PlanFacts, Claims
<1> SUFFICES ASSUME FreeOps' = {}
             PROVE  \E d \in Planned' : \A p \in Used' : d \in op'[p].waiters => op'[p].origin = "demand"
  BY DEF PoolRoom
<1>5. CASE FreeOps = {}
  <2>1. PICK d \in Planned : \A p \in Used : d \in op[p].waiters => op[p].origin = "demand"
    BY <1>5 DEF PoolRoom
  <2>2. d # c /\ d \in Planned'
    BY <1>3, <2>1 DEF Planned
  <2>3. \A p \in Used' : d \in op'[p].waiters => op'[p].origin = "demand"
    <3> SUFFICES ASSUME NEW p \in Used', d \in op'[p].waiters, \A k \in 1 .. n : o[k] # p
                 PROVE  op'[p].origin = "demand"
      BY <1>4
    <3>1. p \in Used /\ d \in op[p].waiters /\ op'[p].origin = op[p].origin
      BY Zenon, <1>4, <2>2 DEF Used
    <3> QED
      BY <2>1, <3>1
  <2> QED
    BY <2>2, <2>3
<1>6. CASE FreeOps # {}
  <2>1. Joins(q, InFlight) = {} /\ Misses(q, InFlight) # {}
    BY <1>1, <1>2, <1>6, PlanTakesAll
  <2>2. c \in Planned'
    BY <1>3, <2>1 DEF Planned
  <2>3. \A p \in Ops : c \notin op[p].waiters
    BY <1>3 DEF DispatcherInv, Counted, ListedBy
  <2>4. \A p \in Used' : c \in op'[p].waiters => op'[p].origin = "demand"
    <3> SUFFICES ASSUME NEW p \in Used', c \in op'[p].waiters, \A k \in 1 .. n : o[k] # p
                 PROVE  FALSE
      BY <1>4
    <3>1. p \in Ops /\ op'[p].waiters = op[p].waiters
      BY <1>4, <2>1 DEF Used
    <3> QED
      BY <2>3, <3>1
  <2> QED
    BY <2>2, <2>4
<1> QED
  BY <1>5, <1>6

-----------------------------------------------------------------------------
(* Only a retry dies of a full pool: of a guess that commands have joined.  *)
LEMMA TerminalDies ==
  ASSUME DispatcherInv, Alive, NEW o, NEW result, NEW q, Terminal(o, result, q), fatal' = "pool"
  PROVE  /\ FreeOps = {} /\ op[o].origin = "prefetch" /\ op[o].waiters # {}
         /\ UNCHANGED <<op, client>>
<1>1. fatal = "none"
  BY DEF Alive
<1>2. CASE result = "ok"
  BY <1>1, <1>2 DEF Terminal, Publish
<1>3. CASE result # "ok" /\ op[o].origin = "demand"
  BY <1>3 DEF Terminal, Die
<1>4. CASE result # "ok" /\ op[o].origin = "prefetch" /\ op[o].waiters # {} /\ ~op[o].retry
  <2>1. Retry(o, q)
    BY <1>4 DEF Terminal
  <2> QED
    BY <1>1, <1>4, <2>1 DEF Retry, Die
<1>5. CASE result # "ok" /\ op[o].origin # "demand"
           /\ ~(op[o].origin = "prefetch" /\ op[o].waiters # {} /\ ~op[o].retry)
  <2>1. Discard(o, q)
    BY <1>5 DEF Terminal
  <2> QED
    BY <1>1, <2>1 DEF Discard
<1> QED
  BY <1>2, <1>3, <1>4, <1>5

(* A process dies of a full pool in a retire step or in the pump.           *)
LEMMA PoolDeath ==
  ASSUME DispatcherInv, [Next]_vars, Alive, fatal' = "pool"
  PROVE  \E o \in Used : /\ FreeOps = {} /\ op[o].origin = "prefetch" /\ op[o].waiters # {}
                         /\ UNCHANGED <<op, client>> /\ disp.pc \notin {"abort", "exited"}
<1>1. fatal = "none"
  BY DEF Alive
<1>2. CASE Retire
  <2>1. PICK ch \in Signaled : /\ disp' = [disp EXCEPT !.chan = ch + 1]
                               /\ chan' = [chan EXCEPT ![ch] = IdleChannel]
                               /\ Terminal(chan[ch].op, chan[ch].read, submitQ)
    BY <1>2 DEF Retire
  <2>2. disp.pc = "retire" /\ UNCHANGED <<memory, cmdQ>>
    BY <1>2 DEF Retire, At
  <2>3. ch \in Channels /\ chan[ch].op # NoOp /\ disp'.pc = disp.pc
    BY <2>1 DEF Signaled, Busy, DispatcherInv, TypeOK
  <2>4. chan[ch].op \in Used
    BY <2>3 DEF DispatcherInv, Placed, PlacedIn
  <2> QED
    BY <2>1, <2>2, <2>4, TerminalDies
<1>3. ASSUME NEW x \in {"ok", "short"}, SubmitSync(x)
      PROVE  \E o \in Used : /\ FreeOps = {} /\ op[o].origin = "prefetch" /\ op[o].waiters # {}
                             /\ UNCHANGED <<op, client>> /\ disp.pc \notin {"abort", "exited"}
  <2>1. PICK o : o = Head(submitQ)
    OBVIOUS
  <2>2. /\ disp.pc \in {"pump", "pumpIssued"} /\ submitQ # <<>>
        /\ Terminal(o, x, Tail(submitQ))
    BY <1>3, <2>1 DEF SubmitSync, Pumping, At
  <2>3. 1 \in DOMAIN submitQ /\ o = submitQ[1]
    BY <2>1, <2>2 DEF DispatcherInv, TypeOK
  <2>4. o \in Used
    BY <2>3 DEF DispatcherInv, Placed, PlacedIn
  <2> QED
    BY <2>2, <2>4, TerminalDies
<1>4. ~SubmitRefused
  BY <1>1 DEF SubmitRefused, Die
<1>5. ~(CancelGuess \/ AbortRead \/ AbortQueued)
  BY <1>1 DEF CancelGuess, AbortRead, AbortQueued, DropRead, Die, Discard
<1>6. ~(Environment \/ UNCHANGED vars)
  BY <1>1 DEF Environment, Release, Acquire, NextGraph, PublishIntent, IoStep, IoComplete, Cut,
     PredictorDrained, StopRequest, vars
<1>7. ~(\/ Turn \/ RefuseAcquire \/ PlanAcquire \/ HandleRelease \/ CommandsDone \/ RetireDone
        \/ SubmitPending \/ PumpDone \/ AdmitClaim \/ AdmitDrop \/ AdmitNothing \/ CutAdmit
        \/ CutAdmitDone \/ Exit \/ AbortCommand \/ AbortDone)
  BY <1>1 DEF Turn, RefuseAcquire, PlanAcquire, HandleRelease, CommandsDone, RetireDone,
     SubmitPending, PumpDone, AdmitClaim, AdmitDrop, AdmitNothing, CutAdmit, CutAdmitDone,
     Exit, AbortCommand, AbortDone
<1> QED
  BY <1>2, <1>3, <1>4, <1>5, <1>6, <1>7 DEF Next, DispatcherStep

(* Every step keeps the room in the pool.                                   *)
LEMMA PoolRoomStep ==
  ASSUME StoreInv, StoreInv', PoolRoom, [Next]_vars
  PROVE  PoolRoom'
<1> USE DEF StoreInv
<1>1. client \in [Clients -> ClientType]
  BY DEF DispatcherInv, TypeOK
<1>2. CASE Aside
  <2>1. op' = op /\ client' = client
    <3>1. CASE TurnMoves \/ SubmitPending \/ AdmitDrop \/ CutAdmit \/ Exit \/ AbortDone
      BY <3>1 DEF TurnMoves, Turn, CommandsDone, RetireDone, PumpDone, AdmitNothing, CutAdmitDone,
         SubmitPending, AdmitDrop, CutAdmit, Exit, AbortDone, ioVars, clientVars
    <3>2. CASE EnvMoves \/ UNCHANGED vars \/ \E ch \in Channels : IoStep(ch)
      BY <3>2 DEF EnvMoves, NextGraph, PublishIntent, Cut, PredictorDrained, StopRequest, vars,
         IoStep, IoComplete, ioVars, clientVars
    <3> QED
      BY <1>2, <3>1, <3>2 DEF Aside
  <2> QED
    BY <2>1, PoolRoomKept DEF Planned
<1>3. CASE EndsRead
  <2>1. PICK o, q : Frame(o, q) /\ Ended(o, q)
    BY <1>3, ReadEnds
  <2>2. CASE o \in FreeOps'
    BY <2>2 DEF PoolRoom
  <2>3. CASE UNCHANGED <<op, client>>
    BY <2>3, PoolRoomKept DEF Planned
  <2> QED
    BY <2>1, <2>2, <2>3, EndFrees
<1>4. CASE RefuseAcquire \/ AbortCommand \/ HandleRelease
  <2>1. PICK h \in Clients : h = Head(cmdQ) /\ client[h].pc \in {"queued", "releasing"}
    BY <1>4, QueueHead DEF RefuseAcquire, AcquireNext, Commands, AbortCommand, HandleRelease
  <2>2. op' = op /\ \A d \in Clients \ {h} : client'[d] = client[d]
    BY <1>1, <1>4, <2>1 DEF RefuseAcquire, AbortCommand, HandleRelease, ioVars
  <2> QED
    BY <2>1, <2>2, PoolRoomKept DEF Planned
<1>5. CASE PlanAcquire
  BY <1>5, PlanRoom
<1>6. CASE AdmitClaim
  <2>1. FreeOps' # {}
    BY <1>6, AdmitRoom
  <2> QED
    BY <2>1 DEF PoolRoom
<1>7. ASSUME NEW c \in Clients, Release(c) \/ \E q \in Requests : Acquire(c, q)
      PROVE  PoolRoom'
  <2>1. op' = op /\ client[c].pc \in {"idle", "holding"}
    BY <1>7 DEF Release, Acquire, ioVars
  <2>2. \A d \in Clients \ {c} : client'[d] = client[d]
    BY <1>1, <1>7 DEF Release, Acquire
  <2> QED
    BY <2>1, <2>2, PoolRoomKept DEF Planned
<1>8. CASE DispatcherStep
  BY <1>2, <1>3, <1>4, <1>5, <1>6, <1>8 DEF DispatcherStep, Aside, TurnMoves, EndsRead
<1>9. CASE Environment
  BY <1>2, <1>7, <1>9 DEF Environment, Aside, EnvMoves
<1>10. CASE UNCHANGED vars
  BY <1>2, <1>10 DEF Aside
<1> QED
  BY <1>8, <1>9, <1>10 DEF Next

(* Where a retry finds no entry, a command of the guess waits, and so does  *)
(* another one that holds the last entries.                                 *)
LEMMA RetryRoomStep ==
  ASSUME StoreInv, PoolRoom, RetryFindsAnEntry, [Next]_vars
  PROVE  RetryFindsAnEntry'
<1> USE DEF StoreInv
<1> SUFFICES ASSUME fatal' = "pool"
             PROVE  Cardinality({c \in Clients : client'[c].pc = "planned"}) > 1
  BY DEF RetryFindsAnEntry
<1>1. CASE ~Alive
  <2>1. fatal = "pool" /\ client' = client
    BY <1>1, DeadIsStill DEF vars
  <2> QED
    BY <2>1 DEF RetryFindsAnEntry
<1>2. CASE Alive
  <2>1. PICK o \in Used : /\ FreeOps = {} /\ op[o].origin = "prefetch" /\ op[o].waiters # {}
                          /\ UNCHANGED <<op, client>> /\ disp.pc \notin {"abort", "exited"}
    BY <1>2, PoolDeath
  <2>2. PICK w \in op[o].waiters : TRUE
    BY <2>1
  <2>3. w \in Clients /\ client[w].pc = "planned"
    BY <2>1, <2>2, WaitersWait DEF Orderly
  <2>4. PICK c \in Planned : \A p \in Used : c \in op[p].waiters => op[p].origin = "demand"
    BY <2>1 DEF PoolRoom
  <2>5. c # w
    BY <2>1, <2>2, <2>4
  <2> DEFINE W == {d \in Clients : client'[d].pc = "planned"}
  <2>6. c \in W /\ w \in W /\ W \subseteq Clients
    BY <2>1, <2>3, <2>4 DEF Planned
  <2> HIDE DEF W
  <2>7. IsFiniteSet(W) /\ Cardinality(W) \in Nat
    BY <2>6, ClientsAssumption, FS_Subset, FS_CardinalityType
  <2>8. IsFiniteSet({c}) /\ Cardinality({c}) = 1 /\ Cardinality({c} \cup {w}) = 2
    <3>1. IsFiniteSet({c}) /\ Cardinality({c}) = 1
      BY FS_Singleton
    <3>2. Cardinality({c} \cup {w}) = IF w \in {c} THEN Cardinality({c}) ELSE Cardinality({c}) + 1
      BY <3>1, FS_AddElement
    <3> QED
      BY <2>5, <3>1, <3>2
  <2>9. Cardinality({c} \cup {w}) <= Cardinality(W)
    BY <2>6, <2>7, FS_Subset
  <2>10. Cardinality(W) > 1
    BY ONLY <2>7, <2>8, <2>9
  <2> QED
    BY ONLY <2>10 DEF W
<1> QED
  BY <1>1, <1>2

(* A joined guess that fails can be read again: the pool is empty only when *)
(* two commands wait for reads (disp_op_terminal_locked's fail-stop at the  *)
(* reservation of the retry).                                               *)
THEOREM RetriesFindAnEntry == Spec => []RetryFindsAnEntry
<1>1. Init => PoolRoom /\ RetryFindsAnEntry
  <2> SUFFICES ASSUME Init PROVE PoolRoom /\ RetryFindsAnEntry
    OBVIOUS
  <2>1. FreeOps = Ops
    BY DEF Init, FreeOps, NullOp
  <2>2. 0 \in Ops
    BY NSlotsAssumption DEF Ops, Slots
  <2> QED
    BY <2>1, <2>2 DEF Init, PoolRoom, RetryFindsAnEntry
<1>2. StoreInv /\ StoreInv' /\ PoolRoom /\ RetryFindsAnEntry /\ [Next]_vars
        => PoolRoom' /\ RetryFindsAnEntry'
  BY PoolRoomStep, RetryRoomStep
<1> QED
  BY <1>1, <1>2, StoreInvariant, PTL DEF Spec

-----------------------------------------------------------------------------
(* While everybody else is idle no slot has a lease, so all that a read in  *)
(* flight does not write into can be claimed, and a request the pool has    *)
(* room for fits.                                                           *)
LEMMA AloneFits ==
  ASSUME StoreInv, Orderly, NEW c \in Clients, client[c].pc = "queued",
         \A d \in Clients \ {c} : client[d].pc = "idle",
         NEW q \in Requests \cup {NoRequest}, Len(q.ids) <= Cardinality(FreeOps)
  PROVE  Fits(q, Pins, InFlight)
<1> DEFINE M == Misses(q, InFlight)
           H == HitSlots(q)
           E == Evictable(Pins \cup H)
<1>1. \A s \in Slots : slot[s].lease = 0
  <2>1. \A r : Holders(r) = {}
    BY DEF Holders
  <2>2. \A r : UnitsOf(client, {}, r) = {}
    BY DEF UnitsOf
  <2>3. LeaseExact
    BY LeaseIsExact
  <2>4. Cardinality({}) = 0
    BY FS_EmptySet
  <2> QED
    BY <2>1, <2>2, <2>3, <2>4 DEF LeaseExact
<1>2. E = (Slots \ Pins) \ H
  BY <1>1 DEF Evictable
<1>3. /\ IsFiniteSet(Slots \ Pins) /\ Cardinality(Slots \ Pins) = Cardinality(FreeOps)
      /\ Cardinality(FreeOps) \in Nat
  BY RoomIsSlots DEF StoreInv
<1>4. /\ IsFiniteSet(Hits(q)) /\ Cardinality(Hits(q)) \in Nat /\ Cardinality(M) \in Nat
      /\ Len(q.ids) \in Nat /\ Cardinality(M) + Cardinality(Hits(q)) <= Len(q.ids)
  <2>1. M \subseteq Wanted(q) /\ Hits(q) \subseteq Wanted(q) /\ M \cap Hits(q) = {}
    BY DEF Misses, Hits
  <2> HIDE DEF M
  <2> QED
    BY <2>1, RequestRoom
<1>5. IsFiniteSet(H) /\ Cardinality(H) \in Nat /\ Cardinality(H) <= Cardinality(Hits(q))
  <2> DEFINE f == [r \in Hits(q) |-> table[r].slot]
  <2>1. f \in Surjection(Hits(q), H)
    BY DEF Surjection, HitSlots
  <2> HIDE DEF f, H
  <2> QED
    BY <1>4, <2>1, FS_Surjection, FS_CardinalityType
<1> HIDE DEF H, E, M
<1>6. /\ IsFiniteSet(E)
      /\ Cardinality(E) = Cardinality(Slots \ Pins) - Cardinality((Slots \ Pins) \cap H)
  BY <1>2, <1>3, FS_Difference
<1>7. /\ Cardinality((Slots \ Pins) \cap H) <= Cardinality(H)
      /\ Cardinality((Slots \ Pins) \cap H) \in Nat
  BY <1>5, FS_Intersection, FS_CardinalityType
<1>8. Cardinality(M) <= Cardinality(E)
  BY <1>3, <1>4, <1>5, <1>6, <1>7
<1> QED
  BY <1>8 DEF Fits, M, E, H

-----------------------------------------------------------------------------
(* The guesses nobody has joined.  Admission is the one step that adds to   *)
(* them, and it leaves a token's worth of entries: with the reserve they    *)
(* can never take the rest of the pool.                                     *)
Unawaited == {o \in Used : op[o].waiters = {}}
GuessRoom == Cardinality(Unawaited) + NUsed <= NSlots

LEMMA UnawaitedFinite ==
  /\ IsFiniteSet(Unawaited) /\ Cardinality(Unawaited) \in Nat
  /\ NUsed \in Nat /\ NSlots \in Nat
<1>1. Unawaited \subseteq Ops
  BY DEF Unawaited, Used
<1> QED
  BY <1>1, CardOfOps, DispatcherAssumption, NSlotsAssumption

(* A step that adds no guess keeps the room.                                *)
LEMMA GuessRoomKept ==
  ASSUME GuessRoom, Unawaited' \subseteq Unawaited
  PROVE  GuessRoom'
<1>1. Cardinality(Unawaited') <= Cardinality(Unawaited) /\ Cardinality(Unawaited') \in Nat
  BY UnawaitedFinite, FS_Subset, FS_CardinalityType
<1> QED
  BY <1>1, UnawaitedFinite DEF GuessRoom

(* The entries are free or in use.                                          *)
LEMMA PoolSplits ==
  /\ IsFiniteSet(FreeOps) /\ IsFiniteSet(Used)
  /\ Cardinality(FreeOps) \in Nat /\ Cardinality(Used) \in Nat
  /\ Cardinality(FreeOps) + Cardinality(Used) = NSlots
<1>1. Used \subseteq Ops /\ FreeOps = Ops \ Used /\ Ops \cap Used = Used
  BY DEF Used, FreeOps
<1>2. IsFiniteSet(Ops) /\ Cardinality(Ops) = NSlots
  BY FiniteSlots DEF Ops
<1>3. IsFiniteSet(Used) /\ Cardinality(Used) \in Nat
  BY <1>1, CardOfOps
<1>4. IsFiniteSet(Ops \ Used) /\ Cardinality(Ops \ Used) = Cardinality(Ops) - Cardinality(Ops \cap Used)
  BY <1>2, FS_Difference
<1>5. IsFiniteSet(FreeOps) /\ Cardinality(FreeOps) = NSlots - Cardinality(Used)
  BY <1>1, <1>2, <1>4
<1>6. Cardinality(FreeOps) \in Nat /\ NSlots \in Nat
  BY <1>5, FS_CardinalityType, NSlotsAssumption
<1> QED
  BY ONLY <1>3, <1>5, <1>6

(* A read that ends, and one that begins again, is no new guess.            *)
LEMMA EndAddsNone ==
  ASSUME DispatcherInv, NEW o, NEW q, Frame(o, q), Ended(o, q)
  PROVE  Unawaited' \subseteq Unawaited
<1>1. o \in Ops /\ op \in [Ops -> OpType] /\ ~NullOp.inUse
  BY DEF Frame, Used, DispatcherInv, TypeOK, NullOp
<1>2. CASE op' = [op EXCEPT ![o] = NullOp]
  BY <1>1, <1>2 DEF Unawaited, Used
<1>3. ASSUME NEW n \in Ops, RetryWith(o, n, q), op[o].waiters # {}
      PROVE  Unawaited' \subseteq Unawaited
  <2>1. Reread(op[o]).waiters = op[o].waiters
    BY <1>1 DEF Reread, OpType
  <2>2. op' = [op EXCEPT ![o] = NullOp, ![n] = Reread(op[o])]
    BY <1>3 DEF RetryWith
  <2>3. op'[n].waiters # {} /\ \A p \in Ops \ {n} : op'[p] = IF p = o THEN NullOp ELSE op[p]
    BY <1>1, <1>3, <2>1, <2>2
  <2> QED
    BY <1>1, <2>3 DEF Unawaited, Used
<1>4. CASE op' = op
  BY <1>4 DEF Unawaited, Used
<1> QED
  BY <1>2, <1>3, <1>4 DEF Ended, Forgotten, Die, Publish, Discard, DiscardWith, Unlink

(* What a plan reads it waits for, and what it joins it waits for, too.     *)
LEMMA PlanAddsNone ==
  ASSUME StoreInv, PlanAcquire
  PROVE  Unawaited' \subseteq Unawaited
<1> USE DEF StoreInv
<1>1. PICK c \in Clients, q \in Requests \cup {NoRequest}, n \in Nat :
        /\ PlanAnswers(c, q)
        /\ \E rec \in [1 .. n -> Misses(q, InFlight)], s \in [1 .. n -> Slots],
              o \in [1 .. n -> Ops \ Used] : PlanFacts(c, q, n, rec, s, o)
  BY PlanParts
<1>2. PICK rec \in [1 .. n -> Misses(q, InFlight)], s \in [1 .. n -> Slots],
           o \in [1 .. n -> Ops \ Used] : PlanFacts(c, q, n, rec, s, o)
  BY <1>1
<1> SUFFICES ASSUME NEW p \in Ops, op'[p].inUse, op'[p].waiters = {}
             PROVE  op[p].inUse /\ op[p].waiters = {}
  BY DEF Unawaited, Used
<1>3. \A k \in 1 .. n : o[k] # p
  BY <1>2 DEF PlanFacts
<1>4. op'[p].inUse = op[p].inUse
  BY <1>2, <1>3 DEF PlanFacts, Claims
<1>5. op'[p].waiters = IF op[p].inUse /\ op[p].rec \in Joins(q, InFlight)
                         THEN op[p].waiters \cup {c} ELSE op[p].waiters
  BY <1>2, <1>3 DEF PlanFacts
<1> QED
  BY <1>4, <1>5

(* Every step leaves the room.                                              *)
LEMMA GuessRoomStep ==
  ASSUME StoreInv, StoreInv', GuessRoom, [Next]_vars
  PROVE  GuessRoom'
<1> USE DEF StoreInv
<1>1. CASE op' = op
  <2>1. Unawaited' = Unawaited
    BY <1>1 DEF Unawaited, Used
  <2> QED
    BY <2>1, GuessRoomKept
<1>2. CASE Aside
  <2>1. CASE TurnMoves \/ SubmitPending \/ AdmitDrop \/ CutAdmit \/ Exit \/ AbortDone
    BY <1>1, <2>1 DEF TurnMoves, Turn, CommandsDone, RetireDone, PumpDone, AdmitNothing,
       CutAdmitDone, SubmitPending, AdmitDrop, CutAdmit, Exit, AbortDone, ioVars
  <2>2. CASE EnvMoves \/ UNCHANGED vars \/ \E ch \in Channels : IoStep(ch)
    BY <1>1, <2>2 DEF EnvMoves, NextGraph, PublishIntent, Cut, PredictorDrained, StopRequest, vars,
       IoStep, IoComplete, ioVars
  <2> QED
    BY <1>2, <2>1, <2>2 DEF Aside
<1>3. CASE EndsRead
  BY <1>3, ReadEnds, EndAddsNone, GuessRoomKept
<1>4. CASE RefuseAcquire \/ AbortCommand \/ HandleRelease
  BY <1>1, <1>4 DEF RefuseAcquire, AbortCommand, HandleRelease, ioVars
<1>5. CASE PlanAcquire
  BY <1>5, PlanAddsNone, GuessRoomKept
<1>6. CASE AdmitClaim
  <2>1. Cardinality(FreeOps') >= NUsed
    BY <1>6, AdmitRoom
  <2>2. /\ IsFiniteSet(Used') /\ Cardinality(Used') \in Nat /\ Cardinality(FreeOps') \in Nat
        /\ Cardinality(FreeOps') + Cardinality(Used') = NSlots
    <3>1. (/\ IsFiniteSet(FreeOps) /\ IsFiniteSet(Used)
           /\ Cardinality(FreeOps) \in Nat /\ Cardinality(Used) \in Nat
           /\ Cardinality(FreeOps) + Cardinality(Used) = NSlots)'
      BY PoolSplits, PTL
    <3> QED
      BY <3>1
  <2>3. Unawaited' \subseteq Used'
    BY DEF Unawaited
  <2>4. Cardinality(Unawaited') <= Cardinality(Used') /\ Cardinality(Unawaited') \in Nat
    BY <2>2, <2>3, FS_Subset, FS_CardinalityType
  <2> QED
    BY <2>1, <2>2, <2>4, UnawaitedFinite DEF GuessRoom
<1>7. ASSUME NEW c \in Clients, Release(c) \/ \E q \in Requests : Acquire(c, q)
      PROVE  GuessRoom'
  BY <1>1, <1>7 DEF Release, Acquire, ioVars
<1>8. CASE DispatcherStep
  BY <1>2, <1>3, <1>4, <1>5, <1>6, <1>8 DEF DispatcherStep, Aside, TurnMoves, EndsRead
<1>9. CASE Environment
  BY <1>2, <1>7, <1>9 DEF Environment, Aside, EnvMoves
<1>10. CASE UNCHANGED vars
  BY <1>2, <1>10 DEF Aside
<1> QED
  BY <1>8, <1>9, <1>10 DEF Next

(* While nobody else asks, every read in flight is a guess nobody has       *)
(* joined, so the free entries are at least a token's worth.                *)
LEMMA AloneHasRoom ==
  ASSUME StoreInv, Orderly, GuessRoom, NEW c \in Clients, client[c].pc = "queued",
         \A d \in Clients \ {c} : client[d].pc = "idle",
         Len(client[c].req.ids) \in Nat, Len(client[c].req.ids) <= NUsed
  PROVE  CanPlan(c)
<1>1. Unawaited = Used
  <2> SUFFICES ASSUME NEW o \in Used, NEW d \in op[o].waiters PROVE FALSE
    BY DEF Unawaited
  <2>1. d \in Clients /\ client[d].pc = "planned"
    BY WaitersWait DEF StoreInv
  <2> QED
    BY <2>1
<1>2. Cardinality(Used) + NUsed <= NSlots
  BY <1>1 DEF GuessRoom
<1>3. NUsed <= Cardinality(FreeOps)
  BY <1>2, PoolSplits, UnawaitedFinite
<1> QED
  BY <1>3, PoolSplits, UnawaitedFinite DEF CanPlan

(* Guesses leave a lone acquire of a token's worth of experts the entries   *)
(* and slots it needs, and any lone acquire that passes the pool check the  *)
(* slots (the reserve of pb_admit_locked, and the pool being as large as    *)
(* the cache).                                                              *)
THEOREM GuessesLeaveDemandsRoom == Spec => []GuessesLeaveRoom
<1>1. Init => GuessRoom
  <2> SUFFICES ASSUME Init PROVE GuessRoom
    OBVIOUS
  <2>1. Unawaited = {}
    BY DEF Init, Unawaited, Used, NullOp
  <2>2. Cardinality(Unawaited) = 0
    BY <2>1, FS_EmptySet
  <2> QED
    BY <2>2, ReserveAssumption, UnawaitedFinite DEF GuessRoom
<1>2. StoreInv /\ StoreInv' /\ GuessRoom /\ [Next]_vars => GuessRoom'
  BY GuessRoomStep
<1>3. StoreInv /\ GuessRoom => GuessesLeaveRoom
  <2> SUFFICES ASSUME StoreInv, GuessRoom, life.stop # "abort", NEW c \in Clients,
                      client[c].pc = "queued", \A d \in Clients \ {c} : client[d].pc = "idle"
               PROVE  /\ Len(client[c].req.ids) <= NUsed => CanPlan(c)
                      /\ CanPlan(c) => Fits(client[c].req, Pins, InFlight)
    BY DEF GuessesLeaveRoom
  <2>1. life.stop \in {"no", "graceful"}
    BY DEF StoreInv, DispatcherInv, TypeOK
  <2>2. Orderly
    BY <2>1 DEF Orderly, StoreInv, DispatcherInv, TailKnows
  <2>3. client[c].req \in Requests \cup {NoRequest}
    BY DEF StoreInv, DispatcherInv, TypeOK, ClientType
  <2>4. Len(client[c].req.ids) \in Nat
    BY <2>3, RequestType
  <2>5. Len(client[c].req.ids) <= NUsed => CanPlan(c)
    BY <2>2, <2>4, AloneHasRoom
  <2>6. CanPlan(c) => Fits(client[c].req, Pins, InFlight)
    BY <2>2, <2>3, AloneFits DEF CanPlan
  <2> QED
    BY <2>5, <2>6
<1> QED
  BY <1>1, <1>2, <1>3, StoreInvariant, PTL DEF Spec

=============================================================================
