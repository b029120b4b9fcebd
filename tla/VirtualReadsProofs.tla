------------------------- MODULE VirtualReadsProofs -------------------------
(****************************************************************************)
(* The read engine of mode=virtual, proved for every pool, number of        *)
(* channels, of parts and of staging cells, and every budget.               *)
(****************************************************************************)
EXTENDS VirtualReads, FiniteSetTheorems, SequenceTheorems, WellFoundedInduction, TLAPS

-----------------------------------------------------------------------------
(* The values of the state.                                                 *)

Pcs == {"idle", "retire", "retireAgain", "commands", "commandsAgain", "pump", "pumpAgain",
        "settle", "settleAgain", "admit", "ending", "drain", "exited", "gone"}
Gauges     == {"demand", "prefetch", "reserved", "active", "copy"}
CountsType == [demand : Nat, prefetch : Nat, reserved : Nat, active : Nat, copy : Nat]
OpType    == [use : BOOLEAN, origin : {"demand", "prefetch"}, waiters : Nat, retry : BOOLEAN]
ChildType == [active : BOOLEAN, next : 0..Parts, remaining : Nat, copies : Nat, ok : Nat,
              latch : BOOLEAN, cancel : BOOLEAN, cancelled : BOOLEAN]
RecType   == [active : BOOLEAN, reserved : {0, Width}]
ChanType  == [op : 0..Pool, part : 0..Parts, cell : 0..Staging, cut : BOOLEAN,
              io : {"idle", "pending", "syncOk", "refused", "ok", "fail", "aborted"}]
CopyType  == [op : Ops, part : Pieces, cell : Cells]
TurnType  == [pc : Pcs, at : Nat \ {0}, deferred : BOOLEAN, stopping : BOOLEAN]
SpentType == [asks : 0..MaxAsks, intents : 0..MaxIntents, faults : 0..MaxFaults]
Tables ==
  /\ op \in [Ops -> OpType] /\ child \in [Ops -> ChildType] /\ rec \in [Ops -> RecType]
  /\ free \in Seq(Ops)
  /\ chan \in [Channels -> ChanType]
  /\ busy \subseteq Cells /\ copies \in Seq(CopyType)
  /\ counts \in CountsType
  /\ landed \in [Ops -> SUBSET Pieces]
  /\ fate \in [Ops -> {"none", "published", "unpublished", "retried"}]
Scalars ==
  /\ closing \in 0..Pool
  /\ asked \in Nat /\ intents \in Nat /\ cont \in BOOLEAN /\ fatal \in BOOLEAN
  /\ stop \in {"no", "asked", "drained"}
  /\ spent \in SpentType
Types == Tables /\ Scalars /\ turn \in TurnType /\ queue \in Seq(Ops)

-----------------------------------------------------------------------------
(* Where the parts of a read are.                                           *)

Ring     == {copies[n] : n \in DOMAIN copies}
Under(i) == {c \in Channels : chan[c].op = i}
Copied(i) == {x \in Ring : x.op = i}

(* A part that is out belongs to a read in use, of a wave that was sent,    *)
(* and is not in the slot yet.                                              *)
OutOf(i, p) ==
  op[i].use /\ child[i].active /\ p \in 1..child[i].next /\ p \notin landed[i]
PartsOut ==
  /\ \A c \in Channels : IF chan[c].op = 0 THEN chan[c] = IdleChan
                         ELSE chan[c].io # "idle" /\ OutOf(chan[c].op, chan[c].part)
  /\ \A x \in Ring : OutOf(x.op, x.part)

(* It is out once.                                                          *)
PartsApart ==
  /\ \A c, d \in Channels :
       chan[c].op # 0 /\ chan[c].op = chan[d].op /\ chan[c].part = chan[d].part => c = d
  /\ \A x, y \in Ring : x.op = y.op /\ x.part = y.part => x = y
  /\ \A c \in Channels, x \in Ring : ~(chan[c].op = x.op /\ chan[c].part = x.part)
  /\ \A m, n \in DOMAIN copies : copies[m] = copies[n] => m = n

(* A staging cell has one user.                                             *)
CellsApart ==
  /\ \A c, d \in Channels : chan[c].cell # 0 /\ chan[c].cell = chan[d].cell => c = d
  /\ \A x, y \in Ring : x.cell = y.cell => x = y
  /\ \A c \in Channels, x \in Ring : chan[c].cell # x.cell
  /\ \A k \in Cells : k \in busy <=> \/ \E c \in Channels : chan[c].cell = k
                                     \/ \E x \in Ring : x.cell = k

(* What a read counts of itself.                                            *)
Tallies ==
  \A i \in Ops :
    /\ child[i].remaining = Cardinality(Under(i)) /\ child[i].copies = Cardinality(Copied(i))
    /\ child[i].ok + child[i].remaining + child[i].copies <= child[i].next
    /\ op[i].use => child[i].cancel \/ child[i].ok = Cardinality(landed[i])

(* The indices: what is free has nothing, and what is in use is not over.   *)
Indices ==
  /\ \A i \in Ops : ~op[i].use => op[i] = FreeOp /\ child[i] = NoChild /\ rec[i] = NoRec
  /\ \A i \in Ops : op[i].use => fate[i] = "none" /\ landed[i] \subseteq 1..child[i].next
  /\ \A i \in Ops : IF child[i].active THEN child[i].next # 0 ELSE child[i] = NoChild
  /\ \A n \in DOMAIN free : ~op[free[n]].use
  /\ \A m, n \in DOMAIN free : free[m] = free[n] => m = n
  /\ closing # 0 => op[closing].use /\ child[closing].active

(* What is over at once is settled at once.                                 *)
AtOnceSettled ==
  /\ AtOnce # {} => turn.pc \in {"settle", "settleAgain"}
  /\ turn.pc \in {"settle", "settleAgain"} => turn.at \in DOMAIN queue

-----------------------------------------------------------------------------
(* The budget.                                                              *)

(* A reservation is one wave wide and stands until that wave is sent.       *)
Records ==
  \A i \in Ops : /\ rec[i].active <=> op[i].use /\ op[i].origin = "prefetch"
                 /\ rec[i].reserved = IF rec[i].active /\ ~child[i].active THEN Width ELSE 0
                 /\ child[i].remaining <= Parallel
Gauged ==
  /\ counts.demand = Cardinality(HeldBy("demand"))
  /\ counts.prefetch = Cardinality(HeldBy("prefetch"))
  /\ counts.copy = Cardinality(busy)
  /\ Cardinality(busy) = Cardinality(StagedReads) + Len(copies)
Guessed ==
  /\ counts.reserved = Width * Cardinality({i \in Ops : rec[i].reserved # 0})
  /\ counts.active = Cardinality({i \in Ops : rec[i].active})
  /\ counts.prefetch + counts.reserved <= Budget

Core == PartsOut /\ PartsApart /\ CellsApart /\ Tallies /\ Indices /\ Records /\ Gauged /\ Guessed

(* The demands that wait for a read were asked.                             *)
AskedFor == \A i \in Ops : op[i].waiters + asked <= spent.asks

VirtualInv ==
  /\ Types /\ PublishedWhole /\ AskedFor
  /\ IF turn.pc = "gone" THEN closing = 0 /\ child = [i \in Ops |-> NoChild] ELSE Core /\ AtOnceSettled

-----------------------------------------------------------------------------
(* Sequences.                                                               *)

LEMMA LastOne ==
  ASSUME NEW S, NEW q \in Seq(S), q # <<>>
  PROVE  /\ Len(q) \in Nat \ {0} /\ DOMAIN q = 1..Len(q)
         /\ Last(q) \in S /\ Last(q) = q[Len(q)]
         /\ Front(q) \in Seq(S) /\ Len(Front(q)) = Len(q) - 1
         /\ \A n \in 1..(Len(q) - 1) : Front(q)[n] = q[n]
<1>1. Len(q) \in Nat \ {0} /\ DOMAIN q = 1..Len(q)
  BY EmptySeq, LenProperties
<1>2. Front(q) = SubSeq(q, 1, Len(q) - 1) /\ Last(q) = q[Len(q)]
  BY DEF Front, Last
<1>3. \A k \in 1..Len(q) : q[k] \in S
  BY ElementOfSeq
<1>4. /\ SubSeq(q, 1, Len(q) - 1) \in Seq(S)
      /\ Len(SubSeq(q, 1, Len(q) - 1)) = IF 1 <= Len(q) - 1 THEN Len(q) - 1 - 1 + 1 ELSE 0
      /\ \A k \in 1..(Len(q) - 1 - 1 + 1) : SubSeq(q, 1, Len(q) - 1)[k] = q[1 + k - 1]
  <2>1. 1 \in Int /\ Len(q) - 1 \in Int /\ \A k \in 1..(Len(q) - 1) : q[k] \in S
    BY <1>1, <1>3
  <2> QED
    BY ONLY <2>1, SubSeqProperties
<1>5. \A k \in 1..(Len(q) - 1) : k \in 1..(Len(q) - 1 - 1 + 1) /\ 1 + k - 1 = k
  BY <1>1
<1>6. \A k \in 1..(Len(q) - 1) : Front(q)[k] = q[k]
  BY <1>2, <1>4, <1>5
<1> QED
  BY <1>1, <1>2, <1>3, <1>4, <1>6

LEMMA FirstOne ==
  ASSUME NEW S, NEW q \in Seq(S), q # <<>>
  PROVE  /\ Len(q) \in Nat \ {0} /\ DOMAIN q = 1..Len(q) /\ Head(q) = q[1] /\ Head(q) \in S
         /\ Tail(q) \in Seq(S) /\ Len(Tail(q)) = Len(q) - 1
         /\ \A n \in 1..(Len(q) - 1) : Tail(q)[n] = q[n + 1]
<1>1. Len(q) \in Nat \ {0} /\ DOMAIN q = 1..Len(q)
  BY EmptySeq, LenProperties
<1> QED
  BY <1>1, HeadTailProperties

(* A sequence without one of its elements.                                  *)
LEMMA WithoutOne ==
  ASSUME NEW S, NEW q \in Seq(S), NEW n \in 1..Len(q)
  PROVE  Without(q, n) \in Seq(S)
<1>1. Len(q) \in Nat /\ n \in Nat /\ n <= Len(q) /\ 1 <= n
  BY LenProperties
<1>2. \A k \in 1..Len(q) : q[k] \in S
  BY ElementOfSeq
<1>3. SubSeq(q, 1, n - 1) \in Seq(S)
  <2>1. 1 \in Int /\ n - 1 \in Int /\ \A k \in 1..(n - 1) : q[k] \in S
    BY <1>1, <1>2
  <2> QED
    BY ONLY <2>1, SubSeqProperties
<1>4. SubSeq(q, n + 1, Len(q)) \in Seq(S)
  <2>1. n + 1 \in Int /\ Len(q) \in Int /\ \A k \in (n + 1)..Len(q) : q[k] \in S
    BY <1>1, <1>2
  <2> QED
    BY ONLY <2>1, SubSeqProperties
<1> QED
  BY <1>3, <1>4, ConcatProperties DEF Without

-----------------------------------------------------------------------------
(* Numbers and sets.                                                        *)

USE VirtualReadsAssumption DEF Ops, Channels, Cells, Pieces

(* A set of numbers that is not empty has a smallest one.                   *)
LEMMA SmallestOne ==
  ASSUME NEW S, S \subseteq Nat, S # {}
  PROVE  \E m \in S : \A n \in S : m <= n
<1>1. PICK m \in S : \A n \in S : <<n, m>> \notin OpToRel(<, Nat)
  BY WFMin, NatLessThanWellFounded
<1>2. \A n \in S : m <= n
  <2> SUFFICES ASSUME NEW n \in S PROVE m <= n
    OBVIOUS
  <2>1. n \in Nat /\ m \in Nat /\ ~(n < m)
    BY <1>1 DEF OpToRel
  <2> QED
    BY <2>1
<1> QED
  BY <1>2

LEMMA MinOfSet ==
  ASSUME NEW S, S \subseteq Nat, S # {}
  PROVE  Min(S) \in S /\ \A n \in S : Min(S) <= n
<1>1. PICK m \in S : \A n \in S : m <= n
  BY SmallestOne
<1> QED
  BY <1>1 DEF Min

LEMMA MinOfTwo ==
  ASSUME NEW a \in Int, NEW b \in Int
  PROVE  /\ Min({a, b}) \in {a, b} /\ Min({a, b}) <= a /\ Min({a, b}) <= b
  BY DEF Min

LEMMA OneLess ==
  ASSUME NEW n \in Nat
  PROVE  /\ Max({0, n - 1}) \in Nat
         /\ n # 0 => Max({0, n - 1}) = n - 1
  BY DEF Max

LEMMA LessReserved ==
  ASSUME NEW n \in Nat, NEW m \in Nat
  PROVE  /\ Max({0, n - m}) \in Nat
         /\ n >= m => Max({0, n - m}) = n - m
  BY DEF Max

LEMMA WidthIs == Width \in Nat \ {0} /\ Width <= Parallel /\ Width <= Parts
  BY MinOfTwo DEF Width

(* A set and its image under a map that takes no value twice.               *)
LEMMA SameCount ==
  ASSUME NEW S, NEW T, IsFiniteSet(T), NEW f \in [S -> T],
         \A x, y \in S : f[x] = f[y] => x = y,
         \A t \in T : \E x \in S : f[x] = t
  PROVE  IsFiniteSet(S) /\ Cardinality(S) = Cardinality(T)
<1>1. f \in Injection(S, T) /\ f \in Surjection(S, T)
  BY DEF Injection, IsInjective, Surjection
<1> QED
  BY <1>1, FS_Injection

(* The sets the counters speak of are finite.                               *)
LEMMA FiniteSets ==
  /\ IsFiniteSet(Ops) /\ IsFiniteSet(Channels) /\ IsFiniteSet(Cells) /\ IsFiniteSet(Pieces)
  /\ \A S : S \subseteq Ops \/ S \subseteq Channels \/ S \subseteq Cells \/ S \subseteq Pieces
            => IsFiniteSet(S) /\ Cardinality(S) \in Nat
<1>1. \A n \in Nat : IsFiniteSet(1..n)
  <2> SUFFICES ASSUME NEW n \in Nat PROVE IsFiniteSet(1..n)
    OBVIOUS
  <2>1. 1 \in Int /\ n \in Int
    OBVIOUS
  <2> QED
    BY ONLY <2>1, FS_Interval
<1>2. IsFiniteSet(Ops) /\ IsFiniteSet(Channels) /\ IsFiniteSet(Cells) /\ IsFiniteSet(Pieces)
  BY <1>1
<1>3. \A S, T : IsFiniteSet(T) /\ S \subseteq T => IsFiniteSet(S) /\ Cardinality(S) \in Nat
  BY FS_Subset, FS_CardinalityType
<1> HIDE DEF Ops, Channels, Cells, Pieces
<1> QED
  BY <1>2, <1>3

(* One element more, and one less.                                          *)
LEMMA OneMore ==
  ASSUME NEW S, IsFiniteSet(S), NEW x, x \notin S
  PROVE  IsFiniteSet(S \cup {x}) /\ Cardinality(S \cup {x}) = Cardinality(S) + 1
  BY FS_AddElement
LEMMA OneFewer ==
  ASSUME NEW S, IsFiniteSet(S), NEW x \in S
  PROVE  /\ IsFiniteSet(S \ {x}) /\ Cardinality(S \ {x}) = Cardinality(S) - 1
         /\ Cardinality(S) \in Nat \ {0}
<1>1. IsFiniteSet(S \ {x}) /\ Cardinality(S \ {x}) = Cardinality(S) - 1
  BY FS_RemoveElement
<1>2. Cardinality(S) \in Nat /\ Cardinality(S \ {x}) \in Nat
  BY <1>1, FS_CardinalityType
<1> QED
  BY <1>1, <1>2

LEMMA NoneIsZero ==
  ASSUME NEW S, IsFiniteSet(S)
  PROVE  Cardinality(S) = 0 <=> S = {}
  BY FS_EmptySet

(* The n-th of a set of numbers, from the smallest.                         *)
Below(S, x) == {y \in S : y < x}
LEMMA NthIs ==
  ASSUME NEW S, S \subseteq Nat, IsFiniteSet(S), NEW n \in 1..Cardinality(S)
  PROVE  Nth(S, n) \in S /\ Cardinality(Below(S, Nth(S, n))) = n - 1
<1> DEFINE T == {x \in S : Cardinality(Below(S, x)) >= n - 1}
<1>1. \A x : IsFiniteSet(Below(S, x)) /\ Cardinality(Below(S, x)) \in Nat
  BY FS_Subset, FS_CardinalityType DEF Below
<1>2. \A R : R \subseteq S /\ R # {} => \E m \in R : \A x \in R : x <= m
  <2> SUFFICES ASSUME NEW R, R \subseteq S, R # {} PROVE \E m \in R : \A x \in R : x <= m
    OBVIOUS
  <2>1. IsFiniteSet(R)
    BY FS_Subset
  <2> DEFINE Above(x) == {y \in R : y > x}
             C == {Cardinality(Above(x)) : x \in R}
  <2>2. \A x : IsFiniteSet(Above(x)) /\ Cardinality(Above(x)) \in Nat
    BY <2>1, FS_Subset, FS_CardinalityType
  <2>3. PICK m \in R : \A x \in R : Cardinality(Above(m)) <= Cardinality(Above(x))
    <3>1. C \subseteq Nat /\ C # {}
      BY <2>2
    <3>2. PICK c \in C : \A d \in C : c <= d
      BY <3>1, SmallestOne
    <3> QED
      BY <3>2
  <2>4. \A x \in R : x <= m
    <3> SUFFICES ASSUME NEW x \in R, ~(x <= m) PROVE FALSE
      OBVIOUS
    <3>0. x > m /\ \A y \in R : y \in Nat
      OBVIOUS
    <3>1. Above(x) \subseteq Above(m) \ {x} /\ x \in Above(m)
      <4>1. x \in Above(m)
        BY <3>0
      <4>2. ASSUME NEW y \in Above(x) PROVE y \in Above(m) /\ y # x
        <5>1. y \in R /\ y > x /\ y \in Nat /\ x \in Nat /\ m \in Nat
          BY <3>0
        <5> QED
          BY <3>0, <5>1
      <4> QED
        BY <4>1, <4>2
    <3> HIDE DEF Above
    <3>2. Cardinality(Above(m) \ {x}) = Cardinality(Above(m)) - 1 /\ IsFiniteSet(Above(m) \ {x})
      BY <2>2, <3>1, OneFewer
    <3>3. Cardinality(Above(x)) <= Cardinality(Above(m) \ {x})
      BY <3>1, <3>2, FS_Subset
    <3> QED
      BY <2>2, <2>3, <3>2, <3>3
  <2> QED
    BY <2>4
<1>3. T # {}
  <2>1. S # {}
    BY FS_EmptySet
  <2>2. PICK m \in S : \A x \in S : x <= m
    BY <1>2, <2>1
  <2>3. Below(S, m) = S \ {m}
    <3>1. \A y \in S : y < m <=> y # m
      BY <2>2
    <3> QED
      BY <3>1 DEF Below
  <2>4. Cardinality(Below(S, m)) = Cardinality(S) - 1 /\ Cardinality(S) \in Nat
    BY <2>3, OneFewer
  <2> QED
    BY <2>4
<1>4. PICK x \in T : \A y \in T : x <= y
  BY <1>3, SmallestOne
<1>5. Cardinality(Below(S, x)) = n - 1
  <2> SUFFICES ASSUME Cardinality(Below(S, x)) # n - 1 PROVE FALSE
    OBVIOUS
  <2>1. Cardinality(Below(S, x)) > n - 1 /\ n - 1 >= 0 /\ n \in Nat
    BY <1>1, FS_CardinalityType
  <2>2. Below(S, x) # {}
    BY <2>1, FS_EmptySet
  <2>3. PICK z \in Below(S, x) : \A y \in Below(S, x) : y <= z
    BY <1>2, <2>2 DEF Below
  <2>4. Below(S, z) = Below(S, x) \ {z}
    <3>1. z \in S /\ z < x /\ \A y \in S : y < x => y <= z
      BY <2>3 DEF Below
    <3>2. \A y \in S : y < z <=> (y < x /\ y # z)
      <4> TAKE y \in S
      <4>1. y \in Nat /\ z \in Nat /\ x \in Nat
        BY <3>1
      <4> QED
        BY <3>1, <4>1
    <3> QED
      BY <3>2 DEF Below
  <2>5. Cardinality(Below(S, z)) = Cardinality(Below(S, x)) - 1
    BY <1>1, <2>3, <2>4, OneFewer
  <2>6. z \in T
    BY <1>1, <2>1, <2>3, <2>5 DEF Below
  <2> QED
    BY <1>4, <2>3, <2>6 DEF Below
<1>6. \E z \in S : Cardinality({y \in S : y < z}) = n - 1
  BY <1>5 DEF Below
<1> QED
  BY <1>6 DEF Nth, Below

-----------------------------------------------------------------------------
(* What follows at once.                                                    *)

(* A channel that is not idle has a part of a read.                         *)
LEMMA ChannelKnows ==
  ASSUME Types, PartsOut, NEW c \in Channels
  PROVE  /\ chan[c].op \in 0..Pool /\ (chan[c].op = 0 <=> chan[c].io = "idle")
         /\ chan[c].op = 0 => chan[c].cell = 0
         /\ chan[c].op # 0 => /\ chan[c].op \in Ops /\ op[chan[c].op].use /\ child[chan[c].op].active
                              /\ chan[c].part \in Pieces
<1>1. chan[c] \in ChanType
  BY DEF Types, Tables, Scalars
<1>2. CASE chan[c].op = 0
  BY <1>2 DEF PartsOut, IdleChan
<1>3. CASE chan[c].op # 0
  <2>1. chan[c].op \in Ops /\ chan[c].io # "idle" /\ OutOf(chan[c].op, chan[c].part)
    BY <1>1, <1>3 DEF ChanType, PartsOut
  <2>2. child[chan[c].op].next \in 0..Parts
    BY <2>1 DEF Types, Tables, Scalars, ChildType
  <2> QED
    BY <1>1, <1>3, <2>1, <2>2 DEF OutOf, ChanType
<1> QED
  BY <1>2, <1>3

(* A copy has a part of a read and a cell.                                  *)
LEMMA RingKnows ==
  ASSUME Types, NEW x \in Ring
  PROVE  x \in CopyType /\ x.op \in Ops /\ x.part \in Pieces /\ x.cell \in Cells
<1>1. x \in CopyType
  <2>1. PICK n \in DOMAIN copies : x = copies[n]
    BY DEF Ring
  <2>2. copies \in Seq(CopyType)
    BY DEF Types, Tables, Scalars
  <2> QED
    BY ONLY <2>1, <2>2
<1> QED
  BY <1>1 DEF CopyType

(* An index that is not in use has nothing.                                 *)
LEMMA FreeHasNothing ==
  ASSUME Types, PartsOut, NEW i \in Ops, ~op[i].use
  PROVE  Under(i) = {} /\ Copied(i) = {}
<1>1. \A c \in Channels : chan[c].op # i
  BY ChannelKnows
<1>2. \A x \in Ring : x.op # i
  BY DEF PartsOut, OutOf
<1> QED
  BY <1>1, <1>2 DEF Under, Copied

(* Nor has a read that is over.                                             *)
LEMMA OverHasNothing ==
  ASSUME Types, Tallies, NEW i \in Ops, ~Unfinished(i)
  PROVE  Under(i) = {} /\ Copied(i) = {}
<1>1. child[i] \in ChildType
  BY DEF Types, Tables, Scalars
<1>2. child[i].remaining = 0 /\ child[i].copies = 0
  BY <1>1 DEF Unfinished, ChildType
<1>3. IsFiniteSet(Under(i))
  BY FiniteSets DEF Under
<1>4. IsFiniteSet(Ring)
  <2>1. copies \in Seq(CopyType) /\ Len(copies) \in Nat
    BY DEF Types, Tables, Scalars
  <2>2. IsFiniteSet(1..Len(copies))
    <3>1. 1 \in Int /\ Len(copies) \in Int
      BY <2>1
    <3> QED
      BY ONLY <3>1, FS_Interval
  <2>3. copies \in Surjection(1..Len(copies), Ring)
    <3>1. DOMAIN copies = 1..Len(copies)
      BY <2>1
    <3> QED
      BY <2>1, <3>1 DEF Ring, Surjection
  <2> QED
    BY <2>2, <2>3, FS_Surjection
<1>5. IsFiniteSet(Copied(i))
  BY <1>4, FS_Subset DEF Copied
<1> QED
  BY <1>2, <1>3, <1>5, NoneIsZero DEF Tallies

-----------------------------------------------------------------------------
(* Steps that move no part.                                                 *)

Still ==
  /\ UNCHANGED <<op, rec, free, copies, busy, counts, landed, fate>>
  /\ closing' \in {closing, 0}
  /\ \A c \in Channels :
       /\ chan'[c].op = chan[c].op /\ chan'[c].part = chan[c].part /\ chan'[c].cell = chan[c].cell
       /\ chan'[c].io = "idle" <=> chan[c].io = "idle"
       /\ chan[c].op = 0 => chan'[c] = chan[c]
  /\ \A i \in Ops :
       /\ child'[i].active = child[i].active /\ child'[i].next = child[i].next
       /\ child'[i].remaining = child[i].remaining /\ child'[i].copies = child[i].copies
       /\ child'[i].ok = child[i].ok /\ child'[i].cancel = child[i].cancel
       /\ ~child[i].active => child'[i] = child[i]

(* They keep what is known.                                                 *)
LEMMA StillKeeps ==
  ASSUME Types, Core, Still
  PROVE  Core'
<1> USE DEF Core
<1>1. Ring' = Ring /\ \A i : Copied(i)' = Copied(i)
  BY DEF Still, Ring, Copied
<1>2. \A i : Under(i)' = Under(i)
  BY DEF Still, Under
<1>3. \A c \in Channels : chan[c].op = 0 \/ chan[c].op \in Ops
  BY ChannelKnows
<1>4. PartsOut'
  <2>1. ASSUME NEW c \in Channels
        PROVE  IF chan'[c].op = 0 THEN chan'[c] = IdleChan
               ELSE chan'[c].io # "idle" /\ OutOf(chan[c].op, chan[c].part)'
    BY <1>3 DEF Still, PartsOut, OutOf
  <2>2. ASSUME NEW x \in Ring PROVE OutOf(x.op, x.part)'
    BY RingKnows DEF Still, PartsOut, OutOf
  <2> QED
    BY <1>1, <2>1, <2>2 DEF PartsOut, OutOf, Still
<1>5. PartsApart'
  BY <1>1 DEF Still, PartsApart
<1>6. CellsApart'
  BY <1>1 DEF Still, CellsApart
<1>7. Tallies'
  BY <1>1, <1>2 DEF Still, Tallies
<1>8. Indices'
  <2>1. \A i \in Ops : child[i] = NoChild => ~child[i].active
    BY DEF NoChild
  <2>2. \A i \in Ops : child[i] = NoChild => child'[i] = NoChild
    BY <2>1 DEF Still
  <2>3. \A i \in Ops : ~op'[i].use => op'[i] = FreeOp /\ child'[i] = NoChild /\ rec'[i] = NoRec
    BY <2>2 DEF Still, Indices
  <2>4. \A i \in Ops : op'[i].use => fate'[i] = "none" /\ landed'[i] \subseteq 1..child'[i].next
    BY DEF Still, Indices
  <2>5. \A i \in Ops : IF child'[i].active THEN child'[i].next # 0 ELSE child'[i] = NoChild
    BY <2>2 DEF Still, Indices
  <2>6. /\ \A n \in DOMAIN free' : ~op'[free'[n]].use
        /\ \A m, n \in DOMAIN free' : free'[m] = free'[n] => m = n
    BY DEF Still, Indices
  <2>7. closing' # 0 => op'[closing'].use /\ child'[closing'].active
    <3> SUFFICES ASSUME closing' # 0 PROVE op'[closing'].use /\ child'[closing'].active
      OBVIOUS
    <3>1. closing' = closing /\ closing \in Ops
      BY DEF Still, Types, Tables, Scalars
    <3>2. op[closing].use /\ child[closing].active
      BY <3>1 DEF Indices
    <3>3. op'[closing].use /\ child'[closing].active
      BY <3>1, <3>2 DEF Still
    <3> QED
      BY <3>1, <3>3
  <2> QED
    BY <2>3, <2>4, <2>5, <2>6, <2>7 DEF Indices
<1>9. Records'
  BY DEF Still, Records
<1>10. Gauged' /\ Guessed'
  <2>1. HeldBy("demand")' = HeldBy("demand") /\ HeldBy("prefetch")' = HeldBy("prefetch")
        /\ StagedReads' = StagedReads
    BY DEF Still, HeldBy, StagedReads, Held
  <2> QED
    BY <2>1 DEF Still, Gauged, Guessed
<1> QED
  BY <1>4, <1>5, <1>6, <1>7, <1>8, <1>9, <1>10

-----------------------------------------------------------------------------
(* Steps of an index: what was over is returned, what was free is taken.    *)

(* An index that has no part out changes hands.                             *)
Turned(i) ==
  /\ Under(i) = {} /\ Copied(i) = {}
  /\ child'[i] = NoChild
  /\ IF op'[i].use THEN landed'[i] = {} /\ fate'[i] = "none"
     ELSE op'[i] = FreeOp /\ rec'[i] = NoRec
  /\ rec'[i].active <=> op'[i].use /\ op'[i].origin = "prefetch"
  /\ rec'[i].reserved = IF rec'[i].active THEN Width ELSE 0
KeptOn(i) ==
  /\ op'[i].use = op[i].use /\ op'[i].origin = op[i].origin
  /\ ~op[i].use => op'[i] = op[i]
  /\ child'[i] = child[i] /\ rec'[i] = rec[i] /\ landed'[i] = landed[i] /\ fate'[i] = fate[i]
Stack ==
  /\ \A n \in DOMAIN free : ~op[free[n]].use
  /\ \A m, n \in DOMAIN free : free[m] = free[n] => m = n

LEMMA IndexStep ==
  ASSUME Types, Types', Core, UNCHANGED <<chan, busy, copies>>, closing' = 0,
         \A i \in Ops : Turned(i) \/ KeptOn(i),
         counts'.demand = counts.demand /\ counts'.prefetch = counts.prefetch /\ counts'.copy = counts.copy,
         Stack', Guessed'
  PROVE  Core'
<1> USE DEF Core
<1>1. Ring' = Ring /\ \A i : Copied(i)' = Copied(i) /\ Under(i)' = Under(i)
  BY DEF Ring, Copied, Under
<1>2. \A c \in Channels : chan[c].op # 0 => KeptOn(chan[c].op) /\ chan[c].op \in Ops
  <2> SUFFICES ASSUME NEW c \in Channels, chan[c].op # 0
               PROVE  KeptOn(chan[c].op) /\ chan[c].op \in Ops
    OBVIOUS
  <2>1. chan[c].op \in Ops /\ c \in Under(chan[c].op)
    BY ChannelKnows DEF Under
  <2> QED
    BY <2>1 DEF Turned
<1>3. \A x \in Ring : KeptOn(x.op) /\ x.op \in Ops
  <2> SUFFICES ASSUME NEW x \in Ring PROVE KeptOn(x.op) /\ x.op \in Ops
    OBVIOUS
  <2>1. x.op \in Ops /\ x \in Copied(x.op)
    BY RingKnows DEF Copied
  <2> QED
    BY <2>1 DEF Turned
<1>4. PartsOut'
  <2>1. \A i \in Ops : \A p : KeptOn(i) /\ OutOf(i, p) => OutOf(i, p)'
    BY DEF KeptOn, OutOf
  <2>2. \A c \in Channels : IF chan[c].op = 0 THEN chan[c] = IdleChan
                            ELSE chan[c].io # "idle" /\ OutOf(chan[c].op, chan[c].part)'
    BY <1>2, <2>1 DEF PartsOut
  <2>3. \A x \in Ring : OutOf(x.op, x.part)'
    BY <1>3, <2>1 DEF PartsOut
  <2> QED
    BY <1>1, <2>2, <2>3 DEF PartsOut, OutOf
<1>5. PartsApart'
  BY <1>1 DEF PartsApart
<1>6. CellsApart'
  BY <1>1 DEF CellsApart
<1>7. Tallies'
  <2> SUFFICES ASSUME NEW i \in Ops
               PROVE  /\ child'[i].remaining = Cardinality(Under(i)) /\ child'[i].copies = Cardinality(Copied(i))
                      /\ child'[i].ok + child'[i].remaining + child'[i].copies <= child'[i].next
                      /\ op'[i].use => child'[i].cancel \/ child'[i].ok = Cardinality(landed'[i])
    BY <1>1 DEF Tallies
  <2>1. CASE Turned(i)
    <3>1. Cardinality({}) = 0
      BY FS_EmptySet
    <3>2. child'[i].remaining = 0 /\ child'[i].copies = 0 /\ child'[i].ok = 0 /\ child'[i].next = 0
      BY <2>1 DEF Turned, NoChild
    <3>3. Under(i) = {} /\ Copied(i) = {} /\ (op'[i].use => landed'[i] = {})
      BY <2>1 DEF Turned
    <3> QED
      BY <3>1, <3>2, <3>3
  <2>2. CASE KeptOn(i)
    BY <2>2 DEF KeptOn, Tallies
  <2> QED
    BY <2>1, <2>2
<1>8. Indices'
  <2>1. \A i \in Ops : ~op'[i].use => op'[i] = FreeOp /\ child'[i] = NoChild /\ rec'[i] = NoRec
    BY DEF Turned, KeptOn, Indices
  <2>2. \A i \in Ops : op'[i].use => fate'[i] = "none" /\ landed'[i] \subseteq 1..child'[i].next
    BY DEF Turned, KeptOn, Indices
  <2>3. \A i \in Ops : IF child'[i].active THEN child'[i].next # 0 ELSE child'[i] = NoChild
    BY DEF Turned, KeptOn, Indices, NoChild
  <2> QED
    BY <2>1, <2>2, <2>3 DEF Indices, Stack
<1>9. Records'
  <2> SUFFICES ASSUME NEW i \in Ops
               PROVE  /\ rec'[i].active <=> op'[i].use /\ op'[i].origin = "prefetch"
                      /\ rec'[i].reserved = IF rec'[i].active /\ ~child'[i].active THEN Width ELSE 0
                      /\ child'[i].remaining <= Parallel
    BY DEF Records
  <2>1. CASE Turned(i)
    BY <2>1 DEF Turned, NoChild
  <2>2. CASE KeptOn(i)
    BY <2>2 DEF KeptOn, Records
  <2> QED
    BY <2>1, <2>2
<1>10. Gauged'
  <2>1. \A c \in Channels : Held(c) => op'[chan[c].op].origin = op[chan[c].op].origin
    BY <1>2, ChannelKnows DEF Held, KeptOn
  <2>2. HeldBy("demand")' = HeldBy("demand") /\ HeldBy("prefetch")' = HeldBy("prefetch")
        /\ StagedReads' = StagedReads
    BY <2>1 DEF HeldBy, StagedReads, Held
  <2> QED
    BY <2>2 DEF Gauged
<1> QED
  BY <1>4, <1>5, <1>6, <1>7, <1>8, <1>9, <1>10

-----------------------------------------------------------------------------
(* The values of the state stay what they are.                              *)

HIDE VirtualReadsAssumption DEF Ops, Channels, Cells, Pieces

LEMMA FieldsOf ==
  ASSUME Types
  PROVE  /\ turn.pc \in Pcs /\ turn.at \in Nat \ {0} /\ turn.deferred \in BOOLEAN /\ turn.stopping \in BOOLEAN
         /\ spent.asks \in 0..MaxAsks /\ spent.intents \in 0..MaxIntents /\ spent.faults \in 0..MaxFaults
         /\ counts.demand \in Nat /\ counts.prefetch \in Nat /\ counts.reserved \in Nat
         /\ counts.active \in Nat /\ counts.copy \in Nat
         /\ \A i \in Ops : op[i] \in OpType /\ child[i] \in ChildType /\ rec[i] \in RecType
         /\ \A c \in Channels : chan[c] \in ChanType
  BY DEF Types, Tables, Scalars, CountsType, TurnType, SpentType

LEMMA Blank == FreeOp \in OpType /\ NoChild \in ChildType /\ NoRec \in RecType /\ IdleChan \in ChanType
  BY WidthIs, VirtualReadsAssumption DEF FreeOp, NoChild, NoRec, IdleChan, OpType, ChildType, RecType, ChanType

Around ==
  \/ Ask \/ Guess \/ AskToStop \/ StartTurn \/ RetireEnd \/ CommandsEnd \/ Spent \/ PassOver
  \/ PumpEnd \/ Settled \/ AdmitNothing \/ Dispose \/ CutIntents \/ DrainFails \/ EndTurn
  \/ KeepOpen \/ FailStop
LEMMA TurnWith ==
  ASSUME NEW t \in TurnType, NEW pc \in Pcs, NEW n \in Nat \ {0}, NEW d \in BOOLEAN
  PROVE  [t EXCEPT !.pc = pc, !.at = n] \in TurnType /\ [t EXCEPT !.pc = pc, !.at = n, !.deferred = d] \in TurnType
  BY DEF TurnType

LEMMA TurnMoves ==
  ASSUME Types
  PROVE  /\ \A pc \in Pcs : Goto(pc) => turn' \in TurnType
         /\ \A n \in Nat \ {0} : Stay(n) => turn' \in TurnType
         /\ AfterTurn \in Pcs /\ AfterAdmit \in Pcs /\ PumpEndsAt \in Pcs
<1>1. turn \in TurnType
  BY DEF Types
<1>2. \A pc \in Pcs : [turn EXCEPT !.pc = pc, !.at = 1] \in TurnType
  <2>1. 1 \in Nat \ {0}
    OBVIOUS
  <2> QED
    BY <1>1, <2>1, TurnWith
<1>3. \A n \in Nat \ {0} : [turn EXCEPT !.at = n] \in TurnType
  BY <1>1 DEF TurnType
<1>4. AfterTurn \in Pcs /\ AfterAdmit \in Pcs /\ PumpEndsAt \in Pcs
  BY DEF AfterTurn, AfterAdmit, PumpEndsAt, Pcs
<1> QED
  BY <1>2, <1>3, <1>4 DEF Goto, Stay

LEMMA TypesAround ==
  ASSUME Types, AtOnceSettled, Around
  PROVE  Types'
<1>1. UNCHANGED <<op, rec, free, copies, busy, counts, landed, fate, chan, child>>
  BY DEF Around, Ask, Guess, AskToStop, StartTurn, RetireEnd, CommandsEnd, Spent, PassOver, PumpEnd, Settled,
         AdmitNothing, Dispose, CutIntents, DrainFails, EndTurn, KeepOpen, FailStop, ghosts, sides
<1>2. Tables'
  BY <1>1 DEF Types, Tables
<1>3. Scalars'
  <2>1. UNCHANGED spent \/ (Ask /\ spent' = [spent EXCEPT !.asks = @ + 1])
        \/ (Guess /\ spent' = [spent EXCEPT !.intents = @ + 1])
    BY DEF Around, Ask, Guess, AskToStop, StartTurn, RetireEnd, CommandsEnd, Spent, PassOver, PumpEnd, Settled,
         AdmitNothing, Dispose, CutIntents, DrainFails, EndTurn, KeepOpen, FailStop, ghosts, sides
  <2>2. spent \in SpentType
    BY DEF Types, Scalars
  <2>3. spent' \in SpentType
    <3>1. spent.asks \in 0..MaxAsks /\ spent.intents \in 0..MaxIntents /\ MaxAsks \in Nat /\ MaxIntents \in Nat
      BY <2>2, VirtualReadsAssumption DEF SpentType
    <3>2. CASE Ask /\ spent' = [spent EXCEPT !.asks = @ + 1]
      <4>1. spent.asks + 1 \in 0..MaxAsks
        BY <3>1, <3>2 DEF Ask
      <4> QED
        BY <2>2, <3>2, <4>1 DEF SpentType
    <3>3. CASE Guess /\ spent' = [spent EXCEPT !.intents = @ + 1]
      <4>1. spent.intents + 1 \in 0..MaxIntents
        BY <3>1, <3>3 DEF Guess
      <4> QED
        BY <2>2, <3>3, <4>1 DEF SpentType
    <3> QED
      BY <2>1, <2>2, <3>2, <3>3
  <2>4. /\ closing' \in {closing, 0} /\ asked' \in {asked, asked + 1}
        /\ intents' \in {intents, intents + 1, 0} \/ (intents > 0 /\ intents' = intents - 1)
        /\ cont' = cont \/ cont' \in BOOLEAN
        /\ fatal' \in {fatal, TRUE} /\ stop' \in {stop, "asked", "drained"}
    BY DEF Around, Ask, Guess, AskToStop, StartTurn, RetireEnd, CommandsEnd, Spent, PassOver, PumpEnd, Settled,
         AdmitNothing, Dispose, MayAdmit, CutIntents, DrainFails, EndTurn, KeepOpen, FailStop, ghosts, sides
  <2>5. closing \in 0..Pool /\ asked \in Nat /\ intents \in Nat /\ cont \in BOOLEAN /\ fatal \in BOOLEAN
        /\ stop \in {"no", "asked", "drained"} /\ Pool \in Nat
    BY VirtualReadsAssumption DEF Types, Scalars
  <2>6. closing' \in 0..Pool /\ asked' \in Nat /\ stop' \in {"no", "asked", "drained"}
    BY <2>4, <2>5
  <2>7. intents' \in Nat
    BY <2>4, <2>5
  <2>8. cont' \in BOOLEAN /\ fatal' \in BOOLEAN
    BY <2>4, <2>5
  <2> QED
    BY <2>3, <2>6, <2>7, <2>8 DEF Scalars
<1>4. turn' \in TurnType
  <2>1. CASE StartTurn
    BY <2>1 DEF StartTurn, TurnType, Pcs
  <2>2. CASE RetireEnd
    BY <2>2, TurnMoves DEF RetireEnd, Pcs
  <2>3. CASE CommandsEnd
    <3>1. turn \in TurnType /\ asked \in Nat
      BY DEF Types, Scalars
    <3>2. AfterTurn \in Pcs /\ "retireAgain" \in Pcs
      BY DEF AfterTurn, Pcs
    <3>3. PICK pc \in Pcs, d \in BOOLEAN : turn' = [turn EXCEPT !.pc = pc, !.at = 1, !.deferred = d]
      <4>1. turn.deferred \in BOOLEAN /\ (turn.deferred \/ asked > 0) \in BOOLEAN
        BY <3>1 DEF TurnType
      <4>2. (IF turn.pc = "commands" THEN "retireAgain" ELSE AfterTurn) \in Pcs
        BY <3>2
      <4>3. turn' = [turn EXCEPT !.pc = IF turn.pc = "commands" THEN "retireAgain" ELSE AfterTurn,
                                 !.at = 1, !.deferred = turn.deferred \/ asked > 0]
        BY <2>3 DEF CommandsEnd
      <4> QED
        BY <4>1, <4>2, <4>3
    <3>4. 1 \in Nat \ {0}
      OBVIOUS
    <3> QED
      BY <3>1, <3>3, <3>4, TurnWith
  <2>4. CASE PassOver
    BY <2>4, TurnMoves, FieldsOf DEF PassOver
  <2>5. CASE PumpEnd
    BY <2>5, TurnMoves DEF PumpEnd
  <2>6. CASE Settled
    <3>1. turn \in TurnType
      BY DEF Types
    <3>2. PICK pc \in Pcs, n \in Nat \ {0} : turn' = [turn EXCEPT !.pc = pc, !.at = n]
      <4>1. turn.at \in Nat \ {0} /\ turn.at + 1 \in Nat \ {0}
        BY <3>1 DEF TurnType
      <4>2. (IF turn.pc = "settle" THEN "pump" ELSE "pumpAgain") \in Pcs
        BY DEF Pcs
      <4>3. turn' = [turn EXCEPT !.pc = IF turn.pc = "settle" THEN "pump" ELSE "pumpAgain",
                                 !.at = IF AllOut THEN turn.at ELSE turn.at + 1]
        BY <2>6 DEF Settled
      <4> QED
        BY <4>1, <4>2, <4>3
    <3> QED
      BY <3>1, <3>2 DEF TurnType
  <2>7. CASE AdmitNothing \/ Dispose
    BY <2>7, TurnMoves DEF AdmitNothing, Dispose
  <2>8. CASE EndTurn
    BY <2>8, TurnMoves DEF EndTurn, Pcs
  <2>9. CASE Ask \/ Guess \/ AskToStop \/ Spent \/ CutIntents \/ DrainFails \/ KeepOpen \/ FailStop
    BY <2>9 DEF Ask, Guess, AskToStop, Spent, CutIntents, DrainFails, KeepOpen, FailStop, Types
  <2> QED
    BY <2>1, <2>2, <2>3, <2>4, <2>5, <2>6, <2>7, <2>8, <2>9 DEF Around
<1>5. queue' \in Seq(Ops)
  <2>0. queue \in Seq(Ops) /\ Len(queue) \in Nat /\ DOMAIN queue = 1..Len(queue) /\ turn.at \in Nat \ {0}
    BY FieldsOf, LenProperties DEF Types
  <2>1. CASE Spent
    <3>1. turn.at \in 1..Len(queue)
      BY <2>0, <2>1 DEF Spent, Pumping
    <3> QED
      BY <2>0, <2>1, <3>1, WithoutOne DEF Spent
  <2>2. CASE Settled
    <3>1. turn.at \in 1..Len(queue)
      BY <2>0, <2>2 DEF Settled, Settling, At, AtOnceSettled
    <3> QED
      BY <2>0, <2>2, <3>1, WithoutOne DEF Settled
  <2>3. CASE ~Spent /\ ~Settled
    <3>1. queue' = queue
      BY <2>3 DEF Around, Ask, Guess, AskToStop, StartTurn, RetireEnd, CommandsEnd, PassOver, PumpEnd,
         AdmitNothing, Dispose, CutIntents, DrainFails, EndTurn, KeepOpen, FailStop, ghosts, sides
    <3> QED
      BY <2>0, <3>1
  <2> QED
    BY <2>1, <2>2, <2>3
<1> QED
  BY <1>2, <1>3, <1>4, <1>5 DEF Types

(* None of these moves a part.                                              *)
LEMMA StillAround ==
  ASSUME Types, Around
  PROVE  Still
<1>1. /\ UNCHANGED <<op, rec, free, copies, busy, counts, landed, fate, chan, child>>
      /\ closing' \in {closing, 0}
  BY DEF Around, Ask, Guess, AskToStop, StartTurn, RetireEnd, CommandsEnd, Spent, PassOver, PumpEnd, Settled,
         AdmitNothing, Dispose, CutIntents, DrainFails, EndTurn, KeepOpen, FailStop, ghosts, sides
<1> QED
  BY <1>1 DEF Still

-----------------------------------------------------------------------------
(* The steps around the reads keep the invariant.                           *)

NotGone == turn.pc # "gone"
Settlers == {"settle", "settleAgain"}

LEMMA OneStep ==
  ASSUME Types, AtOnceSettled, Around, NotGone
  PROVE  NotGone' /\ AtOnceSettled' /\ (AskedFor => AskedFor') /\ (PublishedWhole => PublishedWhole')
<1>1. UNCHANGED <<op, chan, landed, fate>>
  BY DEF Around, Ask, Guess, AskToStop, StartTurn, RetireEnd, CommandsEnd, Spent, PassOver, PumpEnd, Settled,
         AdmitNothing, Dispose, CutIntents, DrainFails, EndTurn, KeepOpen, FailStop, ghosts, sides
<1>2. AtOnce' = AtOnce
  BY <1>1 DEF AtOnce
<1>3. ASSUME Ask \/ Guess \/ AskToStop \/ CutIntents \/ DrainFails \/ KeepOpen \/ FailStop
      PROVE  NotGone' /\ AtOnceSettled'
  <2>1. UNCHANGED <<turn, queue>>
    BY <1>3 DEF Ask, Guess, AskToStop, CutIntents, DrainFails, KeepOpen, FailStop
  <2> QED
    BY <2>1, <1>2 DEF AtOnceSettled, NotGone
<1>4. ASSUME StartTurn \/ RetireEnd \/ CommandsEnd \/ Spent \/ PassOver \/ PumpEnd \/ Settled
             \/ AdmitNothing \/ Dispose \/ EndTurn
      PROVE  NotGone' /\ AtOnceSettled'
  <2>1. AtOnce = {}
    BY <1>4 DEF StartTurn, RetireEnd, CommandsEnd, Spent, PassOver, PumpEnd, Settled, AdmitNothing, Dispose,
                EndTurn, At, Pumping, Live, MayAdmit, AtOnceSettled
  <2>2. turn'.pc \notin Settlers /\ turn'.pc # "gone"
    <3>0. turn \in TurnType
      BY DEF Types
    <3>1. CASE StartTurn
      BY <3>1 DEF StartTurn, Settlers
    <3>2. CASE RetireEnd
      BY <3>0, <3>2 DEF RetireEnd, Goto, TurnType, Settlers
    <3>3. CASE CommandsEnd
      BY <3>0, <3>3 DEF CommandsEnd, AfterTurn, TurnType, Settlers
    <3>4. CASE Spent
      BY <3>0, <3>4 DEF Spent, Pumping, At, Settlers
    <3>5. CASE PassOver
      BY <3>0, <3>5 DEF PassOver, Live, Pumping, At, Stay, TurnType, Settlers
    <3>6. CASE PumpEnd
      BY <3>0, <3>6 DEF PumpEnd, PumpEndsAt, AfterTurn, Goto, TurnType, Settlers
    <3>7. CASE Settled
      BY <3>0, <3>7 DEF Settled, TurnType, Settlers
    <3>8. CASE AdmitNothing \/ Dispose
      <4>1. Goto(AfterAdmit)
        BY <3>8 DEF AdmitNothing, Dispose
      <4> QED
        BY <3>0, <4>1 DEF AfterAdmit, AfterTurn, Goto, TurnType, Settlers
    <3>9. CASE EndTurn
      BY <3>0, <3>9 DEF EndTurn, Goto, TurnType, Settlers
    <3> QED
      BY <1>4, <3>1, <3>2, <3>3, <3>4, <3>5, <3>6, <3>7, <3>8, <3>9
  <2> QED
    BY <1>2, <2>1, <2>2 DEF AtOnceSettled, NotGone, Settlers
<1>5. AskedFor => AskedFor'
  <2>1. \/ asked' = asked /\ spent'.asks = spent.asks
        \/ asked' = asked + 1 /\ spent'.asks = spent.asks + 1
    <3>1. spent \in SpentType
      BY DEF Types, Scalars
    <3>2. CASE Ask
      BY <3>1, <3>2 DEF Ask, SpentType
    <3>3. CASE ~Ask
      <4>1. asked' = asked /\ (spent' = spent \/ spent' = [spent EXCEPT !.intents = @ + 1])
        BY <3>3 DEF Around, Guess, AskToStop, StartTurn, RetireEnd, CommandsEnd, Spent, PassOver, PumpEnd, Settled,
           AdmitNothing, Dispose, CutIntents, DrainFails, EndTurn, KeepOpen, FailStop, sides
      <4> QED
        BY <3>1, <4>1 DEF SpentType
    <3> QED
      BY <3>2, <3>3
  <2>2. \A i \in Ops : op[i].waiters \in Nat
    BY FieldsOf DEF OpType
  <2>3. asked \in Nat /\ spent.asks \in Int
    <3>1. spent.asks \in 0..MaxAsks /\ MaxAsks \in Nat
      BY FieldsOf, VirtualReadsAssumption
    <3> QED
      BY <3>1 DEF Types, Scalars
  <2> QED
    BY <1>1, <2>1, <2>2, <2>3 DEF AskedFor
<1>6. PublishedWhole => PublishedWhole'
  BY <1>1 DEF PublishedWhole
<1> QED
  BY <1>3, <1>4, <1>5, <1>6 DEF Around

(* A step of this kind, all told.                                           *)
Alright == VirtualInv /\ NotGone
LEMMA AllTold ==
  ASSUME Types', PublishedWhole', AskedFor', Core', AtOnceSettled', NotGone'
  PROVE  Alright'
  BY DEF Alright, VirtualInv, NotGone
LEMMA Told ==
  ASSUME Alright
  PROVE  Types /\ PublishedWhole /\ AskedFor /\ Core /\ AtOnceSettled /\ NotGone
  BY DEF Alright, VirtualInv, NotGone

LEMMA AroundStep == ASSUME Alright, Around PROVE Alright'
  BY Told, AllTold, OneStep, TypesAround, StillAround, StillKeeps

(* The disk completes a read, or a cancellation is sent to it.              *)
LEMMA CompleteStep ==
  ASSUME Alright, NEW d \in Channels, Complete(d)
  PROVE  Alright'
<1> USE Told, FieldsOf
<1>1. PICK io \in {"ok", "aborted", "fail"} : chan' = [chan EXCEPT ![d].io = io]
  BY DEF Complete
<1>2. chan[d].io = "pending" /\ chan \in [Channels -> ChanType]
  BY DEF Complete, Types, Tables
<1>3. /\ chan' \in [Channels -> ChanType]
      /\ \A c \in Channels : c # d => chan'[c] = chan[c]
      /\ chan'[d] = [chan[d] EXCEPT !.io = io]
  BY <1>1, <1>2 DEF ChanType
<1>4. /\ chan'[d].io = io /\ chan'[d].op = chan[d].op /\ chan'[d].part = chan[d].part
      /\ chan'[d].cell = chan[d].cell
  BY <1>2, <1>3 DEF ChanType
<1>5. UNCHANGED <<turn, closing, op, free, queue, child, rec, busy, copies,
                 counts, cont, asked, intents, stop, fatal, landed, fate>>
  BY DEF Complete, ghosts
<1>6. spent' \in SpentType /\ spent'.asks = spent.asks
  <2>1. spent \in SpentType /\ MaxFaults \in Nat
    BY VirtualReadsAssumption DEF Types, Scalars
  <2>2. spent' = spent \/ (spent.faults < MaxFaults /\ spent' = [spent EXCEPT !.faults = @ + 1])
    BY DEF Complete
  <2>3. CASE spent.faults < MaxFaults /\ spent' = [spent EXCEPT !.faults = @ + 1]
    <3>1. spent.faults + 1 \in 0..MaxFaults
      BY <2>1, <2>3
    <3> QED
      BY <2>1, <2>3, <3>1 DEF SpentType
  <2> QED
    BY <2>1, <2>2, <2>3
<1>7. Types'
  BY <1>3, <1>5, <1>6 DEF Types, Tables, Scalars
<1>8. Still
  <2>1. chan[d].op # 0
    BY <1>2 DEF Core, PartsOut, IdleChan
  <2> QED
    BY <1>2, <1>3, <1>4, <1>5, <2>1 DEF Still
<1>9. AtOnce' \subseteq AtOnce
  BY <1>2, <1>3, <1>4 DEF AtOnce
<1>10. AtOnceSettled' /\ NotGone' /\ AskedFor' /\ PublishedWhole'
  BY <1>5, <1>6, <1>9 DEF AtOnceSettled, NotGone, AskedFor, PublishedWhole
<1> QED
  BY <1>7, <1>8, <1>10, AllTold, StillKeeps

LEMMA CancelGuessesStep == ASSUME Alright, CancelGuesses PROVE Alright'
<1> USE Told, FieldsOf
<1> DEFINE who == {chan[c].op : c \in Chosen}
           cs == UNION {Serving(i) : i \in {j \in who : ~child[j].cancelled}}
<1>1. /\ chan' = Cut(cs, chan)
      /\ child' = [i \in Ops |-> IF i \in who THEN [child[i] EXCEPT !.cancelled = TRUE] ELSE child[i]]
      /\ UNCHANGED <<closing, op, free, queue, rec, busy, copies, counts, cont, asked, intents,
                     stop, fatal, spent, landed, fate>>
      /\ At("ending") /\ Goto("drain")
  BY DEF CancelGuesses, sides, ghosts
<1>2. \A c \in Channels : chan'[c] = chan[c] \/ (chan[c].op # 0 /\ chan'[c] = [chan[c] EXCEPT !.cut = TRUE])
  <2>1. ASSUME NEW c \in cs, c \in Channels PROVE chan[c].op # 0
    BY <2>1 DEF Serving, Busy, Ended, Core, PartsOut, IdleChan
  <2> QED
    BY <1>1, <2>1 DEF Cut
<1>3. \A i \in Ops : child'[i] = child[i]
                     \/ (child[i].active /\ child'[i] = [child[i] EXCEPT !.cancelled = TRUE])
  <2>1. ASSUME NEW i \in Ops, i \in who PROVE child[i].active
    <3>1. PICK c \in Chosen : chan[c].op = i
      BY <2>1
    <3>2. c \in Channels /\ chan[c].op # 0
      BY <3>1 DEF Chosen, Ops
    <3> QED
      BY <3>1, <3>2, ChannelKnows DEF Core
  <2> QED
    BY <1>1, <2>1
<1> HIDE DEF who, cs
<1>4. chan' \in [Channels -> ChanType] /\ child' \in [Ops -> ChildType]
  <2>1. DOMAIN chan' = Channels /\ DOMAIN child' = Ops /\ chan' = [c \in Channels |-> chan'[c]]
        /\ child' = [i \in Ops |-> child'[i]]
    BY <1>1 DEF Cut
  <2>2. \A c \in Channels : chan'[c] \in ChanType
    BY <1>2 DEF ChanType
  <2>3. \A i \in Ops : child'[i] \in ChildType
    <3> SUFFICES ASSUME NEW i \in Ops PROVE child'[i] \in ChildType
      OBVIOUS
    <3>1. child[i] \in ChildType
      OBVIOUS
    <3>2. [child[i] EXCEPT !.cancelled = TRUE] \in ChildType
      BY <3>1 DEF ChildType
    <3> QED
      BY <1>3, <3>1, <3>2
  <2> QED
    BY <2>1, <2>2, <2>3
<1>5. Types'
  <2>1. turn' \in TurnType
    BY <1>1, TurnMoves DEF Pcs
  <2> QED
    BY <1>1, <1>4, <2>1 DEF Types, Tables, Scalars
<1>6. Still
  <2>1. \A c \in Channels : chan'[c].op = chan[c].op /\ chan'[c].part = chan[c].part
          /\ chan'[c].cell = chan[c].cell /\ chan'[c].io = chan[c].io
          /\ (chan[c].op = 0 => chan'[c] = chan[c])
    BY <1>2 DEF ChanType
  <2>2. \A i \in Ops : /\ child'[i].active = child[i].active /\ child'[i].next = child[i].next
       /\ child'[i].remaining = child[i].remaining /\ child'[i].copies = child[i].copies
       /\ child'[i].ok = child[i].ok /\ child'[i].cancel = child[i].cancel
       /\ ~child[i].active => child'[i] = child[i]
    BY <1>3 DEF ChildType
  <2> QED
    BY <1>1, <2>1, <2>2 DEF Still
<1>7. AtOnceSettled' /\ NotGone'
  <2>1. AtOnce = {}
    BY <1>1 DEF At, AtOnceSettled
  <2>2. \A c \in Channels : chan'[c].io = chan[c].io
    BY <1>2 DEF ChanType
  <2>3. AtOnce' = {}
    BY <2>1, <2>2 DEF AtOnce
  <2>4. turn'.pc = "drain"
    BY <1>1 DEF Goto, Types, TurnType
  <2> QED
    BY <2>3, <2>4 DEF AtOnceSettled, NotGone
<1>8. AskedFor' /\ PublishedWhole'
  BY <1>1 DEF AskedFor, PublishedWhole
<1> QED
  BY <1>5, <1>6, <1>7, <1>8, AllTold, StillKeeps

-----------------------------------------------------------------------------
(* The stack of free indices and the counts of the guesses.                 *)

Apart(q) == \A m, n \in DOMAIN q : q[m] = q[n] => m = n
In(q)    == {q[n] : n \in DOMAIN q}

LEMMA Pushed ==
  ASSUME NEW S, NEW q \in Seq(S), Apart(q), NEW i \in S, i \notin In(q)
  PROVE  Append(q, i) \in Seq(S) /\ Apart(Append(q, i)) /\ In(Append(q, i)) = In(q) \cup {i}
<1>1. Len(q) \in Nat /\ DOMAIN q = 1..Len(q)
  BY LenProperties
<1>2. /\ Append(q, i) \in Seq(S) /\ Len(Append(q, i)) = Len(q) + 1
      /\ \A n \in 1..Len(q) : Append(q, i)[n] = q[n]
      /\ Append(q, i)[Len(q) + 1] = i
  BY AppendProperties
<1>3. DOMAIN Append(q, i) = 1..(Len(q) + 1)
  BY <1>2, LenProperties
<1>4. \A n \in 1..Len(q) : q[n] # i
  BY <1>1 DEF In
<1>5. \A n \in 1..(Len(q) + 1) : n \in 1..Len(q) \/ n = Len(q) + 1
  BY <1>1
<1>6. Apart(Append(q, i))
  BY <1>1, <1>2, <1>3, <1>4, <1>5 DEF Apart
<1>7. Len(q) + 1 \in 1..(Len(q) + 1) /\ \A n \in 1..Len(q) : n \in 1..(Len(q) + 1)
  BY <1>1
<1>8. In(Append(q, i)) = In(q) \cup {i}
  BY <1>1, <1>2, <1>3, <1>5, <1>7 DEF In
<1> QED
  BY <1>2, <1>6, <1>8

LEMMA Popped ==
  ASSUME NEW q \in Seq(Ops), Apart(q), q # <<>>
  PROVE  /\ Front(q) \in Seq(Ops) /\ Apart(Front(q)) /\ Last(q) \in Ops
         /\ Last(q) \in In(q) /\ In(Front(q)) \subseteq In(q) \ {Last(q)}
<1>1. /\ Len(q) \in Nat \ {0} /\ DOMAIN q = 1..Len(q)
      /\ Last(q) \in Ops /\ Last(q) = q[Len(q)]
      /\ Front(q) \in Seq(Ops) /\ Len(Front(q)) = Len(q) - 1
      /\ \A n \in 1..(Len(q) - 1) : Front(q)[n] = q[n]
  BY LastOne
<1>2. DOMAIN Front(q) = 1..(Len(q) - 1)
  BY <1>1, LenProperties
<1>3. /\ \A n \in 1..(Len(q) - 1) : n \in 1..Len(q) /\ n # Len(q)
      /\ Len(q) \in 1..Len(q)
  <2>1. Len(q) \in Nat \ {0}
    BY <1>1
  <2> QED
    BY ONLY <2>1
<1>4. Apart(Front(q))
  BY <1>1, <1>2, <1>3 DEF Apart
<1>5. \A n \in 1..(Len(q) - 1) : q[n] # q[Len(q)]
  BY <1>1, <1>3 DEF Apart
<1>6. In(Front(q)) \subseteq In(q) \ {Last(q)}
  BY <1>1, <1>2, <1>3, <1>5 DEF In
<1> QED
  BY <1>1, <1>3, <1>4, <1>6 DEF In

LEMMA StackIs ==
  /\ Stack <=> (\A i \in In(free) : ~op[i].use) /\ Apart(free)
  /\ Stack' <=> (\A i \in In(free)' : ~op'[i].use) /\ Apart(free)'
  BY DEF Stack, In, Apart

(* The budget of the guesses.                                               *)
LEMMA LimitIs == Limit \in Int /\ Budget \in Nat /\ Limit <= Budget
<1>1. ChildMax \in Int /\ QD - Reserve \in Int
  BY VirtualReadsAssumption
<1>2. Limit \in Int
  BY <1>1, MinOfTwo DEF Limit
<1>3. \A n \in Int : Max({0, n}) \in Nat /\ n <= Max({0, n})
  BY DEF Max
<1> QED
  BY <1>2, <1>3 DEF Budget

(* The guesses under way and those with a reservation.                      *)
Guessing  == {i \in Ops : rec[i].active}
Reserving == {i \in Ops : rec[i].reserved # 0}
LEMMA GuessedIs ==
  /\ Guessed <=> /\ counts.reserved = Width * Cardinality(Reserving)
                 /\ counts.active = Cardinality(Guessing)
                 /\ counts.prefetch + counts.reserved <= Budget
  /\ Guessed' <=> /\ counts'.reserved = Width * Cardinality(Reserving')
                  /\ counts'.active = Cardinality(Guessing')
                  /\ counts'.prefetch + counts'.reserved <= Budget
  BY DEF Guessed, Guessing, Reserving, Budget, Limit

LEMMA OneTimeMore == \A w, n \in Nat : w * (n + 1) = w * n + w
  OBVIOUS

(* An index that is over gives back its record.                             *)
LEMMA GivenBack ==
  ASSUME Types, Core, NEW i \in Ops, op[i].use, child[i].active,
         rec' \in [Ops -> RecType], counts' = Returned(i), rec'[i] = NoRec,
         \A j \in Ops : j # i => rec'[j] = rec[j]
  PROVE  Guessed' /\ counts' \in CountsType /\ counts'.demand = counts.demand
         /\ counts'.prefetch = counts.prefetch /\ counts'.copy = counts.copy
<1>1. rec[i].reserved = 0
  BY DEF Core, Records
<1>2. Reserving' = Reserving
  BY <1>1 DEF Reserving, NoRec
<1>3. Guessing' = Guessing \ {i}
  BY DEF Guessing, NoRec
<1>4. counts \in CountsType
  BY DEF Types, Tables
<1>5. Max({0, counts.reserved - rec[i].reserved}) = counts.reserved
  <2>1. counts.reserved \in Nat /\ 0 \in Nat
    BY FieldsOf
  <2>2. counts.reserved - rec[i].reserved = counts.reserved
    BY <1>1, <2>1
  <2>3. Max({0, counts.reserved}) = counts.reserved
    BY <2>1 DEF Max
  <2> QED
    BY <2>2, <2>3
<1>6. CASE rec[i].active
  <2>1. IsFiniteSet(Guessing) /\ i \in Guessing
    BY <1>6, FiniteSets DEF Guessing
  <2>2. Cardinality(Guessing \ {i}) = Cardinality(Guessing) - 1 /\ Cardinality(Guessing) \in Nat \ {0}
    BY <2>1, OneFewer
  <2>3. Max({0, counts.active - 1}) = counts.active - 1 /\ Max({0, counts.active - 1}) \in Nat
    BY <2>2, FieldsOf, OneLess, GuessedIs DEF Core
  <2>4. counts' = [counts EXCEPT !.reserved = counts.reserved, !.active = counts.active - 1]
    BY <1>5, <1>6, <2>3 DEF Returned
  <2>5. counts' \in CountsType /\ counts'.active = counts.active - 1 /\ counts'.reserved = counts.reserved
        /\ counts'.demand = counts.demand /\ counts'.prefetch = counts.prefetch /\ counts'.copy = counts.copy
    BY <1>4, <2>3, <2>4 DEF CountsType
  <2> QED
    BY <1>2, <1>3, <2>2, <2>5, GuessedIs DEF Core
<1>7. CASE ~rec[i].active
  <2>1. Guessing' = Guessing
    BY <1>3, <1>7 DEF Guessing
  <2>2. counts' = counts
    BY <1>7 DEF Returned
  <2> QED
    BY <1>2, <1>4, <2>1, <2>2, GuessedIs DEF Core
<1> QED
  BY <1>6, <1>7

(* An index that is taken for a guess reserves a wave.                      *)
LEMMA Reserved ==
  ASSUME Types, Core, NEW i \in Ops, rec[i] = NoRec, CreditOk(Width),
         rec' = [rec EXCEPT ![i] = [active |-> TRUE, reserved |-> Width]],
         counts' = [counts EXCEPT !.reserved = @ + Width, !.active = @ + 1]
  PROVE  Guessed' /\ counts' \in CountsType /\ counts'.demand = counts.demand
         /\ counts'.prefetch = counts.prefetch /\ counts'.copy = counts.copy
<1>0. rec \in [Ops -> RecType] /\ counts \in CountsType
  BY DEF Types, Tables
<1>1. /\ \A j \in Ops : j # i => rec'[j] = rec[j]
      /\ rec'[i].active = TRUE /\ rec'[i].reserved = Width
  BY <1>0
<1>2. Reserving' = Reserving \cup {i} /\ Guessing' = Guessing \cup {i}
  BY <1>1, WidthIs DEF Reserving, Guessing
<1>3. i \notin Reserving /\ i \notin Guessing /\ IsFiniteSet(Reserving) /\ IsFiniteSet(Guessing)
  BY FiniteSets DEF Reserving, Guessing, NoRec
<1>4. Cardinality(Reserving') = Cardinality(Reserving) + 1 /\ Cardinality(Guessing') = Cardinality(Guessing) + 1
  BY <1>2, <1>3, OneMore
<1>5. Width * (Cardinality(Reserving) + 1) = Width * Cardinality(Reserving) + Width
  <2>1. Cardinality(Reserving) \in Nat /\ Width \in Nat
    BY WidthIs, FiniteSets DEF Reserving
  <2> QED
    BY <2>1, OneTimeMore
<1>6. counts.reserved + Width \in Nat /\ counts.active + 1 \in Nat
  BY WidthIs, FieldsOf
<1>7. counts' \in CountsType /\ counts'.active = counts.active + 1 /\ counts'.reserved = counts.reserved + Width
      /\ counts'.demand = counts.demand /\ counts'.prefetch = counts.prefetch /\ counts'.copy = counts.copy
  BY <1>0, <1>6 DEF CountsType
<1>8. counts.prefetch + counts.reserved + Width <= Limit
  BY DEF CreditOk
<1>9. counts'.reserved = Width * Cardinality(Reserving') /\ counts'.active = Cardinality(Guessing')
  BY <1>4, <1>5, <1>7, GuessedIs DEF Core
<1>10. counts'.prefetch + counts'.reserved <= Budget
  <2>1. counts.prefetch \in Nat /\ counts.reserved \in Nat /\ Width \in Nat
    BY WidthIs, FieldsOf
  <2>2. Limit \in Int /\ Budget \in Int /\ Limit <= Budget
    BY LimitIs
  <2> QED
    BY <1>7, <1>8, <2>1, <2>2
<1> QED
  BY <1>7, <1>9, <1>10, GuessedIs

-----------------------------------------------------------------------------
(* A read is over, and a read begins.                                       *)

LEMMA Closed ==
  ASSUME Types, Core, closing # 0
  PROVE  closing \in Ops /\ op[closing].use /\ child[closing].active /\ fate[closing] = "none"
         /\ closing \notin In(free)
<1>1. closing \in Ops
  BY DEF Types, Scalars, Ops
<1>2. op[closing].use /\ child[closing].active /\ fate[closing] = "none"
  BY <1>1 DEF Core, Indices
<1> QED
  BY <1>1, <1>2 DEF Core, Indices, In

LEMMA StackBefore ==
  ASSUME Types, Core
  PROVE  (\A i \in In(free) : ~op[i].use) /\ Apart(free) /\ free \in Seq(Ops)
         /\ \A i \in Ops : ~op[i].use => op[i] = FreeOp /\ child[i] = NoChild /\ rec[i] = NoRec
                                         /\ Under(i) = {} /\ Copied(i) = {}
  BY FreeHasNothing, StackIs DEF Core, Indices, Stack, Types, Tables

(* The parts a read counted are in the slot when it counted all of them.    *)
LEMMA AllThere ==
  ASSUME Types, Core, NEW i \in Ops, op[i].use, Clean(i), ~child[i].cancel
  PROVE  landed[i] = Pieces
<1>1. landed[i] \subseteq Pieces
  BY DEF Types, Tables
<1>2. IsFiniteSet(Pieces) /\ Cardinality(Pieces) = Parts
  <2>1. 1 \in Int /\ Parts \in Int /\ 1 <= Parts /\ Parts - 1 + 1 = Parts
    BY VirtualReadsAssumption
  <2>2. IsFiniteSet(1..Parts) /\ Cardinality(1..Parts) = IF 1 > Parts THEN 0 ELSE Parts - 1 + 1
    BY ONLY <2>1, FS_Interval
  <2> QED
    BY <2>1, <2>2 DEF Pieces
<1>3. Cardinality(landed[i]) = Parts
  BY DEF Clean, Core, Tallies
<1> QED
  BY <1>1, <1>2, <1>3, FS_Subset

LEMMA FinishStep == ASSUME Alright, Finish PROVE Alright'
<1> USE Told
<1>1. closing \in Ops /\ op[closing].use /\ child[closing].active /\ fate[closing] = "none"
      /\ closing \notin In(free)
  BY Closed DEF Finish
<1>2. PICK i \in Ops : i = closing
  BY <1>1
<1>3. /\ fate' = [fate EXCEPT ![i] =
           IF Clean(i) /\ ~child[i].cancel THEN "published" ELSE "unpublished"]
      /\ child' = [child EXCEPT ![i] = NoChild] /\ op' = [op EXCEPT ![i] = FreeOp]
      /\ rec' = [rec EXCEPT ![i] = NoRec]
      /\ free' = Append(free, i) /\ counts' = Returned(i) /\ closing' = 0
      /\ UNCHANGED <<turn, queue, chan, busy, copies, cont, asked, intents, stop, fatal, spent, landed>>
  BY <1>2 DEF Finish, sides
<1>4. /\ fate \in [Ops -> {"none", "published", "unpublished", "retried"}]
      /\ child \in [Ops -> ChildType] /\ op \in [Ops -> OpType] /\ rec \in [Ops -> RecType]
  BY DEF Types, Tables
<1>5. Under(i) = {} /\ Copied(i) = {}
  BY <1>2, OverHasNothing DEF Finish, Core
<1>6. Turned(i)
  <2>1. child'[i] = NoChild /\ op'[i] = FreeOp /\ rec'[i] = NoRec
    BY <1>3, <1>4
  <2> QED
    BY <1>5, <2>1 DEF Turned, FreeOp, NoRec
<1>7. \A j \in Ops : j # i => KeptOn(j)
  BY <1>3, <1>4 DEF KeptOn
<1>8. /\ Guessed' /\ counts' \in CountsType /\ counts'.demand = counts.demand
      /\ counts'.prefetch = counts.prefetch /\ counts'.copy = counts.copy
  BY <1>1, <1>2, <1>3, <1>4, Blank, GivenBack
<1>9. free' \in Seq(Ops) /\ Stack'
  <2>1. free' \in Seq(Ops) /\ Apart(free') /\ In(free') = In(free) \cup {i}
    BY <1>1, <1>2, <1>3, StackBefore, Pushed
  <2>2. \A j \in In(free') : ~op'[j].use
    <3>1. ~op'[i].use
      BY <1>3, <1>4 DEF FreeOp
    <3>2. \A j \in In(free) : j \in Ops /\ ~op[j].use
      BY StackBefore, LenProperties, ElementOfSeq DEF In
    <3> QED
      BY <1>3, <1>4, <2>1, <3>1, <3>2
  <2> QED
    BY <2>1, <2>2, StackIs DEF In, Apart
<1>10. Types'
  <2>1. /\ fate' \in [Ops -> {"none", "published", "unpublished", "retried"}]
        /\ child' \in [Ops -> ChildType] /\ op' \in [Ops -> OpType] /\ rec' \in [Ops -> RecType]
    BY <1>3, <1>4, Blank
  <2>2. closing' \in 0..Pool
    BY <1>3, VirtualReadsAssumption
  <2> QED
    BY <1>3, <1>8, <1>9, <2>1, <2>2 DEF Types, Tables, Scalars
<1>11. Core'
  BY <1>3, <1>6, <1>7, <1>8, <1>9, <1>10, IndexStep
<1>12. AskedFor'
  <2>1. \A j \in Ops : op'[j].waiters <= op[j].waiters
    BY <1>3, <1>4 DEF FreeOp, OpType
  <2>2. \A j \in Ops : op'[j].waiters \in Nat /\ op[j].waiters \in Nat
    BY <1>4, <1>10 DEF Types, Tables, OpType
  <2>3. asked \in Nat /\ spent.asks \in 0..MaxAsks /\ MaxAsks \in Nat
    BY FieldsOf, VirtualReadsAssumption DEF Types, Scalars
  <2> QED
    BY <1>3, <2>1, <2>2, <2>3 DEF AskedFor
<1>13. PublishedWhole'
  <2>1. fate'[i] = "published" => landed[i] = Pieces
    BY <1>1, <1>2, <1>3, <1>4, AllThere
  <2>2. \A j \in Ops : j # i => fate'[j] = fate[j]
    BY <1>3, <1>4
  <2> QED
    BY <1>3, <2>1, <2>2 DEF PublishedWhole
<1>14. AtOnceSettled' /\ NotGone'
  BY <1>3 DEF AtOnceSettled, NotGone, AtOnce
<1> QED
  BY <1>10, <1>11, <1>12, <1>13, <1>14, AllTold

(* An index taken from the stack.                                           *)
LEMMA Taken ==
  ASSUME Types, Core, free # <<>>
  PROVE  /\ Last(free) \in Ops /\ ~op[Last(free)].use /\ Last(free) \in In(free)
         /\ Front(free) \in Seq(Ops) /\ Apart(Front(free)) /\ Last(free) \notin In(Front(free))
         /\ In(Front(free)) \subseteq In(free)
         /\ \A i \in In(free) : i \in Ops /\ ~op[i].use
<1>1. free \in Seq(Ops) /\ Apart(free) /\ \A i \in In(free) : ~op[i].use
  BY StackBefore
<1>2. \A i \in In(free) : i \in Ops
  BY <1>1, LenProperties, ElementOfSeq DEF In
<1> QED
  BY <1>1, <1>2, Popped

LEMMA RetryStep == ASSUME Alright, Retry PROVE Alright'
<1> USE Told
<1>1. closing \in Ops /\ op[closing].use /\ child[closing].active /\ fate[closing] = "none"
      /\ closing \notin In(free)
  BY Closed DEF Retry
<1>2. PICK i \in Ops : i = closing
  BY <1>1
<1>3. free # <<>>
  BY DEF Retry
<1>4. PICK r \in Ops : r = Last(free) /\ r # i /\ r \in In(free) /\ ~op[r].use
  BY <1>1, <1>2, <1>3, Taken
<1>5. /\ op' = [op EXCEPT ![r] = [use |-> TRUE, origin |-> "demand",
                                   waiters |-> op[i].waiters, retry |-> TRUE],
                          ![i] = FreeOp]
      /\ free' = Append(Front(free), i) /\ queue' = Append(queue, r)
      /\ landed' = [landed EXCEPT ![r] = {}]
      /\ fate' = [fate EXCEPT ![i] = "retried", ![r] = "none"]
      /\ rec' = [rec EXCEPT ![i] = NoRec, ![r] = NoRec]
      /\ counts' = Returned(i) /\ child' = [child EXCEPT ![i] = NoChild] /\ closing' = 0
      /\ UNCHANGED <<turn, chan, busy, copies, cont, asked, intents, stop, fatal, spent>>
  BY <1>2, <1>4 DEF Retry, sides
<1>6. /\ fate \in [Ops -> {"none", "published", "unpublished", "retried"}]
      /\ child \in [Ops -> ChildType] /\ op \in [Ops -> OpType] /\ rec \in [Ops -> RecType]
      /\ landed \in [Ops -> SUBSET Pieces] /\ queue \in Seq(Ops)
  BY DEF Types, Tables
<1>7. /\ op'[i] = FreeOp /\ child'[i] = NoChild /\ rec'[i] = NoRec
      /\ op'[r] = [use |-> TRUE, origin |-> "demand", waiters |-> op[i].waiters, retry |-> TRUE]
      /\ rec'[r] = NoRec /\ landed'[r] = {} /\ fate'[r] = "none" /\ fate'[i] = "retried"
      /\ child'[r] = NoChild /\ rec[r] = NoRec
      /\ Under(r) = {} /\ Copied(r) = {}
      /\ \A j \in Ops : j # i /\ j # r => /\ op'[j] = op[j] /\ child'[j] = child[j] /\ rec'[j] = rec[j]
                                          /\ landed'[j] = landed[j] /\ fate'[j] = fate[j]
  <2>1. child[r] = NoChild /\ rec[r] = NoRec /\ Under(r) = {} /\ Copied(r) = {}
    BY <1>4, StackBefore
  <2> QED
    BY <1>4, <1>5, <1>6, <2>1
<1>8. Under(i) = {} /\ Copied(i) = {}
  BY <1>2, OverHasNothing DEF Retry, Core
<1>9. \A j \in Ops : Turned(j) \/ KeptOn(j)
  <2>1. Turned(i)
    BY <1>7, <1>8 DEF Turned, FreeOp, NoRec
  <2>2. Turned(r)
    BY <1>7 DEF Turned, NoRec
  <2>3. \A j \in Ops : j # i /\ j # r => KeptOn(j)
    BY <1>7 DEF KeptOn
  <2> QED
    BY <2>1, <2>2, <2>3
<1>10. rec' \in [Ops -> RecType]
  BY <1>5, <1>6, Blank
<1>11. /\ Guessed' /\ counts' \in CountsType /\ counts'.demand = counts.demand
       /\ counts'.prefetch = counts.prefetch /\ counts'.copy = counts.copy
  BY <1>1, <1>2, <1>5, <1>7, <1>10, GivenBack
<1>12. free' \in Seq(Ops) /\ Stack'
  <2>1. i \notin In(Front(free))
    BY <1>1, <1>2, <1>3, Taken
  <2>2. free' \in Seq(Ops) /\ Apart(free') /\ In(free') = In(Front(free)) \cup {i}
    BY <1>3, <1>5, <2>1, Taken, Pushed
  <2>3. \A j \in In(free') : ~op'[j].use
    <3>1. ~op'[i].use
      BY <1>7 DEF FreeOp
    <3>2. \A j \in In(Front(free)) : j \in Ops /\ ~op[j].use /\ j # r /\ j # i
      BY <1>3, <1>4, <2>1, Taken
    <3> QED
      BY <1>7, <2>2, <3>1, <3>2
  <2> QED
    BY <2>2, <2>3, StackIs DEF In, Apart
<1>13. Types'
  <2>1. op[i].waiters \in Nat
    BY <1>6 DEF OpType
  <2>2. [use |-> TRUE, origin |-> "demand", waiters |-> op[i].waiters, retry |-> TRUE] \in OpType
    BY <2>1 DEF OpType
  <2>3. fate' \in [Ops -> {"none", "published", "unpublished", "retried"}]
    BY <1>5, <1>6
  <2>4. child' \in [Ops -> ChildType] /\ op' \in [Ops -> OpType] /\ landed' \in [Ops -> SUBSET Pieces]
    BY <1>5, <1>6, <2>2, Blank
  <2>5. closing' \in 0..Pool
    BY <1>5, VirtualReadsAssumption
  <2>6. queue' \in Seq(Ops)
    BY <1>5, <1>6, AppendProperties
  <2> QED
    BY <1>5, <1>10, <1>11, <1>12, <2>3, <2>4, <2>5, <2>6 DEF Types, Tables, Scalars
<1>14. Core'
  BY <1>5, <1>9, <1>11, <1>12, <1>13, IndexStep
<1>15. AskedFor'
  <2>1. \A j \in Ops : op'[j].waiters \in {op[j].waiters, op[i].waiters, 0}
    BY <1>7 DEF FreeOp
  <2>2. \A j \in Ops : op'[j].waiters \in Nat /\ op[j].waiters \in Nat
    BY <1>6, <1>13 DEF Types, Tables, OpType
  <2>3. asked \in Nat /\ spent.asks \in 0..MaxAsks /\ MaxAsks \in Nat
    BY FieldsOf, VirtualReadsAssumption DEF Types, Scalars
  <2>4. op[i].waiters + asked <= spent.asks /\ asked <= spent.asks
    BY <2>2, <2>3 DEF AskedFor
  <2>5. ASSUME NEW j \in Ops PROVE op'[j].waiters + asked <= spent.asks
    <3>1. op[j].waiters + asked <= spent.asks
      BY DEF AskedFor
    <3> QED
      BY <2>1, <2>3, <2>4, <3>1
  <2> QED
    BY <1>5, <2>5 DEF AskedFor
<1>16. PublishedWhole'
  BY <1>7 DEF PublishedWhole
<1>17. AtOnceSettled' /\ NotGone'
  <2>1. Len(queue') = Len(queue) + 1 /\ Len(queue) \in Nat /\ DOMAIN queue = 1..Len(queue)
        /\ DOMAIN queue' = 1..Len(queue')
    BY <1>5, <1>6, <1>13, AppendProperties, LenProperties DEF Types
  <2>2. turn.at \in DOMAIN queue => turn.at \in DOMAIN queue'
    BY <2>1
  <2> QED
    BY <1>5, <2>2 DEF AtOnceSettled, NotGone, AtOnce
<1> QED
  BY <1>13, <1>14, <1>15, <1>16, <1>17, AllTold

(* A demand finds its record there, joins a read of it, or starts one.      *)
LEMMA DemandStep == ASSUME Alright, Demand PROVE Alright'
<1> USE Told
<1>1. /\ closing = 0 /\ asked > 0 /\ free # <<>> /\ turn.pc \in {"commands", "commandsAgain"}
      /\ asked' = asked - 1
      /\ UNCHANGED <<turn, closing, child, rec, chan, busy, copies, counts, cont,
                     intents, stop, fatal, spent>>
  BY DEF Demand, Taking, At
<1>2. /\ fate \in [Ops -> {"none", "published", "unpublished", "retried"}]
      /\ op \in [Ops -> OpType] /\ rec \in [Ops -> RecType] /\ free \in Seq(Ops)
      /\ landed \in [Ops -> SUBSET Pieces] /\ queue \in Seq(Ops)
  BY DEF Types, Tables
<1>3. asked \in Nat /\ asked' \in Nat /\ spent.asks \in Int
  <2>1. spent.asks \in 0..MaxAsks /\ MaxAsks \in Nat /\ asked \in Nat
    BY FieldsOf, VirtualReadsAssumption DEF Types, Scalars
  <2> QED
    BY <1>1, <2>1
<1>4. Guessed'
  BY <1>1, GuessedIs DEF Core, Reserving, Guessing
<1>5. ASSUME /\ op' \in [Ops -> OpType] /\ free' \in Seq(Ops) /\ queue' \in Seq(Ops)
             /\ landed' \in [Ops -> SUBSET Pieces]
             /\ fate' \in [Ops -> {"none", "published", "unpublished", "retried"}]
             /\ Stack'
             /\ \A i \in Ops : Turned(i) \/ KeptOn(i)
             /\ \A i \in Ops : \/ op'[i].waiters \in {op[i].waiters, op[i].waiters + 1}
                               \/ op'[i].waiters \in {0, 1}
             /\ \A i \in Ops : fate'[i] = "none" \/ (fate'[i] = fate[i] /\ landed'[i] = landed[i])
      PROVE  Alright'
  <2>1. Types'
    BY <1>1, <1>3, <1>5 DEF Types, Tables, Scalars
  <2>2. Core'
    BY <1>1, <1>4, <1>5, <2>1, IndexStep
  <2>3. AskedFor'
    <3>1. \A i \in Ops : op[i].waiters \in Nat /\ op'[i].waiters \in Nat
      BY <1>2, <1>5 DEF OpType
    <3>2. \A i \in Ops : op[i].waiters + asked <= spent.asks
      BY DEF AskedFor
    <3>3. \A i \in Ops : op'[i].waiters <= op[i].waiters + 1
      BY <1>5, <3>1
    <3>4. \A i \in Ops : op'[i].waiters + asked' <= spent.asks
      BY <1>1, <1>3, <3>1, <3>2, <3>3
    <3> QED
      BY <1>1, <3>4 DEF AskedFor
  <2>4. PublishedWhole'
    BY <1>5 DEF PublishedWhole
  <2>5. AtOnceSettled' /\ NotGone'
    BY <1>1 DEF AtOnceSettled, NotGone, AtOnce
  <2> QED
    BY <2>1, <2>2, <2>3, <2>4, <2>5, AllTold
<1>6. CASE UNCHANGED <<op, free, queue, landed, fate>>
  <2>1. \A i \in Ops : KeptOn(i)
    BY <1>1, <1>6 DEF KeptOn
  <2>2. Stack'
    BY <1>6, StackBefore DEF Stack, Apart, In
  <2> QED
    BY <1>2, <1>5, <1>6, <2>1, <2>2
<1>7. ASSUME NEW k \in Ops, op[k].use, op' = [op EXCEPT ![k].waiters = @ + 1],
             UNCHANGED <<free, queue, landed, fate>>
      PROVE  Alright'
  <2>1. op[k] \in OpType /\ op[k].waiters + 1 \in Nat
    BY <1>2 DEF OpType
  <2>2. /\ op'[k] = [op[k] EXCEPT !.waiters = op[k].waiters + 1]
        /\ \A j \in Ops : j # k => op'[j] = op[j]
    BY <1>2, <1>7
  <2>3. op'[k] \in OpType /\ op'[k].use = op[k].use /\ op'[k].origin = op[k].origin
        /\ op'[k].waiters = op[k].waiters + 1
    BY <2>1, <2>2 DEF OpType
  <2>4. op' \in [Ops -> OpType]
    <3>1. op' = [op EXCEPT ![k] = op'[k]]
      BY <1>2, <1>7
    <3> QED
      BY <1>2, <2>3, <3>1
  <2>5. \A i \in Ops : KeptOn(i)
    BY <1>1, <1>7, <2>2, <2>3 DEF KeptOn
  <2>6. Stack'
    <3>1. \A i \in Ops : op'[i].use = op[i].use
      BY <2>2, <2>3
    <3>2. \A i \in In(free) : i \in Ops /\ ~op[i].use
      BY <1>1, Taken
    <3> QED
      BY <1>7, <3>1, <3>2, StackBefore, StackIs DEF In, Apart
  <2>7. \A i \in Ops : op'[i].waiters \in {op[i].waiters, op[i].waiters + 1}
    BY <2>2, <2>3
  <2> QED
    BY <1>2, <1>5, <1>7, <2>4, <2>5, <2>6, <2>7
<1>8. ASSUME NEW i \in Ops, i = Last(free),
             op' = [op EXCEPT ![i] = [FreeOp EXCEPT !.use = TRUE, !.waiters = 1]],
             free' = Front(free), queue' = Append(queue, i),
             landed' = [landed EXCEPT ![i] = {}], fate' = [fate EXCEPT ![i] = "none"]
      PROVE  Alright'
  <2>1. ~op[i].use /\ i \notin In(free') /\ Apart(free') /\ free' \in Seq(Ops) /\ In(free') \subseteq In(free)
        /\ \A j \in In(free) : j \in Ops /\ ~op[j].use
    BY <1>1, <1>8, Taken
  <2>2. op'[i] \in OpType /\ op'[i].use = TRUE /\ op'[i].origin = "demand" /\ op'[i].waiters = 1
    <3>1. op'[i] = [FreeOp EXCEPT !.use = TRUE, !.waiters = 1]
      BY <1>2, <1>8
    <3>2. op'[i] = [use |-> TRUE, origin |-> "demand", waiters |-> 1, retry |-> FALSE]
      BY <3>1 DEF FreeOp
    <3> QED
      BY <3>2 DEF OpType
  <2>3. /\ \A j \in Ops : j # i => op'[j] = op[j] /\ landed'[j] = landed[j] /\ fate'[j] = fate[j]
        /\ landed'[i] = {} /\ fate'[i] = "none"
    BY <1>2, <1>8
  <2>4. op' \in [Ops -> OpType]
    <3>1. op' = [op EXCEPT ![i] = op'[i]]
      BY <1>2, <1>8
    <3> QED
      BY <1>2, <2>2, <3>1
  <2>5. landed' \in [Ops -> SUBSET Pieces] /\ queue' \in Seq(Ops)
        /\ fate' \in [Ops -> {"none", "published", "unpublished", "retried"}]
    BY <1>2, <1>8, AppendProperties
  <2>6. Turned(i)
    <3>1. child[i] = NoChild /\ rec[i] = NoRec /\ Under(i) = {} /\ Copied(i) = {}
      BY <2>1, StackBefore
    <3>2. child'[i] = NoChild /\ rec'[i] = NoRec
      BY <1>1, <3>1
    <3> QED
      BY <2>2, <2>3, <3>1, <3>2 DEF Turned, NoRec
  <2>7. \A j \in Ops : j # i => KeptOn(j)
    BY <1>1, <2>3 DEF KeptOn
  <2>8. Stack'
    <3>1. \A j \in In(free') : ~op'[j].use
      BY <2>1, <2>3
    <3> QED
      BY <2>1, <3>1, StackIs DEF In, Apart
  <2>9. \A j \in Ops : op'[j].waiters \in {op[j].waiters, 1}
    BY <2>2, <2>3
  <2> QED
    BY <1>5, <2>1, <2>3, <2>4, <2>5, <2>6, <2>7, <2>8, <2>9
<1>9. Last(free) \in Ops
  BY <1>1, Taken
<1> QED
  BY <1>6, <1>7, <1>8, <1>9 DEF Demand

(* A guess is admitted: an index, and a reservation for its first wave.     *)
LEMMA ClaimStep == ASSUME Alright, Claim PROVE Alright'
<1> USE Told
<1>1. free # <<>> /\ closing = 0 /\ turn.pc = "admit" /\ CreditOk(Width) /\ intents > 0
  BY DEF Claim, MayAdmit, At
<1>2. PICK i \in Ops : i = Last(free) /\ ~op[i].use /\ i \notin In(Front(free))
  BY <1>1, Taken
<1>3. /\ op' = [op EXCEPT ![i] = [FreeOp EXCEPT !.use = TRUE, !.origin = "prefetch"]]
      /\ free' = Front(free)
      /\ rec' = [rec EXCEPT ![i] = [active |-> TRUE, reserved |-> Width]]
      /\ queue' = Append(queue, i)
      /\ landed' = [landed EXCEPT ![i] = {}]
      /\ fate' = [fate EXCEPT ![i] = "none"]
      /\ counts' = [counts EXCEPT !.reserved = @ + Width, !.active = @ + 1]
      /\ turn' = [turn EXCEPT !.pc = "pumpAgain", !.at = 1]
      /\ intents' = intents - 1
      /\ UNCHANGED <<closing, child, chan, busy, copies, cont, asked, stop, fatal, spent>>
  BY <1>2 DEF Claim
<1>4. /\ fate \in [Ops -> {"none", "published", "unpublished", "retried"}]
      /\ op \in [Ops -> OpType] /\ rec \in [Ops -> RecType] /\ intents \in Nat
      /\ landed \in [Ops -> SUBSET Pieces] /\ queue \in Seq(Ops) /\ turn \in TurnType
  BY DEF Types, Tables, Scalars
<1>5. child[i] = NoChild /\ rec[i] = NoRec /\ Under(i) = {} /\ Copied(i) = {}
  BY <1>2, StackBefore
<1>6. op'[i] \in OpType /\ op'[i].use = TRUE /\ op'[i].origin = "prefetch" /\ op'[i].waiters = 0
  <2>1. op'[i] = [FreeOp EXCEPT !.use = TRUE, !.origin = "prefetch"]
    BY <1>3, <1>4
  <2>2. op'[i] = [use |-> TRUE, origin |-> "prefetch", waiters |-> 0, retry |-> FALSE]
    BY <2>1 DEF FreeOp
  <2> QED
    BY <2>2 DEF OpType
<1>7. /\ \A j \in Ops : j # i => op'[j] = op[j] /\ landed'[j] = landed[j] /\ fate'[j] = fate[j] /\ rec'[j] = rec[j]
      /\ landed'[i] = {} /\ fate'[i] = "none" /\ rec'[i].active = TRUE /\ rec'[i].reserved = Width
  BY <1>3, <1>4
<1>8. op' \in [Ops -> OpType]
  <2>1. op' = [op EXCEPT ![i] = op'[i]]
    BY <1>3, <1>4
  <2> QED
    BY <1>4, <1>6, <2>1
<1>9. \A j \in Ops : Turned(j) \/ KeptOn(j)
  <2>1. Turned(i)
    BY <1>3, <1>5, <1>6, <1>7 DEF Turned
  <2>2. \A j \in Ops : j # i => KeptOn(j)
    BY <1>3, <1>7 DEF KeptOn
  <2> QED
    BY <2>1, <2>2
<1>10. /\ Guessed' /\ counts' \in CountsType /\ counts'.demand = counts.demand
       /\ counts'.prefetch = counts.prefetch /\ counts'.copy = counts.copy
  BY <1>1, <1>3, <1>5, Reserved
<1>11. free' \in Seq(Ops) /\ Stack'
  <2>1. i \notin In(free') /\ Apart(free') /\ free' \in Seq(Ops) /\ In(free') \subseteq In(free)
        /\ \A j \in In(free) : j \in Ops /\ ~op[j].use
    BY <1>1, <1>2, <1>3, Taken
  <2>2. \A j \in In(free') : ~op'[j].use
    BY <1>7, <2>1
  <2> QED
    BY <2>1, <2>2, StackIs DEF In, Apart
<1>12. Types'
  <2>1. landed' \in [Ops -> SUBSET Pieces] /\ queue' \in Seq(Ops)
        /\ fate' \in [Ops -> {"none", "published", "unpublished", "retried"}]
    BY <1>3, <1>4, AppendProperties
  <2>2. [active |-> TRUE, reserved |-> Width] \in RecType
    BY DEF RecType
  <2>3. rec' \in [Ops -> RecType] /\ intents' \in Nat
    BY <1>1, <1>3, <1>4, <2>2
  <2>4. turn' \in TurnType
    <3>1. "pumpAgain" \in Pcs /\ 1 \in Nat \ {0}
      BY DEF Pcs
    <3> QED
      BY <1>3, <1>4, <3>1, TurnWith
  <2> QED
    BY <1>3, <1>8, <1>10, <1>11, <2>1, <2>3, <2>4 DEF Types, Tables, Scalars
<1>13. Core'
  BY <1>1, <1>3, <1>9, <1>10, <1>11, <1>12, IndexStep
<1>14. AskedFor'
  <2>1. asked \in Nat /\ spent.asks \in 0..MaxAsks /\ MaxAsks \in Nat
    BY FieldsOf, VirtualReadsAssumption DEF Types, Scalars
  <2>2. op[i].waiters \in Nat /\ op[i].waiters + asked <= spent.asks
    BY <1>4 DEF AskedFor, OpType
  <2>3. asked <= spent.asks
    BY <2>1, <2>2
  <2>4. ASSUME NEW j \in Ops PROVE op'[j].waiters + asked <= spent.asks
    BY <1>6, <1>7, <2>1, <2>3 DEF AskedFor
  <2> QED
    BY <1>3, <2>4 DEF AskedFor
<1>15. PublishedWhole'
  BY <1>7 DEF PublishedWhole
<1>16. AtOnceSettled' /\ NotGone'
  <2>1. AtOnce = {} /\ AtOnce' = AtOnce
    BY <1>1, <1>3 DEF AtOnceSettled, AtOnce
  <2>2. turn'.pc = "pumpAgain"
    BY <1>3, <1>4 DEF TurnType
  <2> QED
    BY <2>1, <2>2 DEF AtOnceSettled, NotGone
<1> QED
  BY <1>12, <1>13, <1>14, <1>15, <1>16, AllTold

-----------------------------------------------------------------------------
(* A part of a read is over.                                                *)

LEMMA RingIs ==
  ASSUME copies \in Seq(CopyType)
  PROVE  /\ Ring = In(copies) /\ Ring' = In(copies') /\ IsFiniteSet(Ring) /\ Len(copies) \in Nat
         /\ DOMAIN copies = 1..Len(copies) /\ Apart(copies) <=> (\A m, n \in DOMAIN copies : copies[m] = copies[n] => m = n)
<1>1. Len(copies) \in Nat /\ DOMAIN copies = 1..Len(copies)
  BY LenProperties
<1>2. IsFiniteSet(1..Len(copies))
  <2>1. 1 \in Int /\ Len(copies) \in Int
    BY <1>1
  <2> QED
    BY ONLY <2>1, FS_Interval
<1>3. copies \in Surjection(1..Len(copies), Ring)
  BY <1>1, LenProperties DEF Ring, Surjection
<1>4. IsFiniteSet(Ring)
  BY <1>2, <1>3, FS_Surjection
<1> QED
  BY <1>1, <1>4 DEF Ring, In, Apart

LEMMA SomeFinite ==
  ASSUME Types
  PROVE  /\ IsFiniteSet(Ring) /\ Cardinality(Ring) \in Nat
         /\ \A i : IsFiniteSet(Under(i)) /\ IsFiniteSet(Copied(i))
                   /\ Cardinality(Under(i)) \in Nat /\ Cardinality(Copied(i)) \in Nat
         /\ \A o : IsFiniteSet(HeldBy(o)) /\ Cardinality(HeldBy(o)) \in Nat
         /\ IsFiniteSet(StagedReads) /\ Cardinality(StagedReads) \in Nat
         /\ IsFiniteSet(busy) /\ Cardinality(busy) \in Nat
         /\ \A i \in Ops : IsFiniteSet(landed[i]) /\ Cardinality(landed[i]) \in Nat
<1>1. IsFiniteSet(Ring)
  BY RingIs DEF Types, Tables
<1>2. \A i : IsFiniteSet(Copied(i))
  BY <1>1, FS_Subset DEF Copied
<1>3. \A i : Under(i) \subseteq Channels
  BY DEF Under
<1>4. \A o : HeldBy(o) \subseteq Channels
  BY DEF HeldBy
<1>5. StagedReads \subseteq Channels
  BY DEF StagedReads
<1>6. busy \subseteq Cells /\ \A i \in Ops : landed[i] \subseteq Pieces
  BY DEF Types, Tables
<1> QED
  BY <1>1, <1>2, <1>3, <1>4, <1>5, <1>6, FiniteSets, FS_CardinalityType

(* What one part leaves behind when the disk is through with it.            *)
LEMMA RetireKeeps ==
  ASSUME Types, Core, NEW c \in Channels, NEW ok \in BOOLEAN, NEW cancel \in BOOLEAN,
         chan[c].op # 0, closing = 0,
         Retire(c, ok, cancel), UNCHANGED <<op, free, rec, fate>>,
         ok => Delivered(c) \/ cancel, Delivered(c) => ok
  PROVE  /\ Tables' /\ Core' /\ closing' \in Ops
         /\ \A d \in Channels : chan'[d].io \in {chan[d].io, "idle"}
         /\ \A i \in Ops : fate[i] # "none" => landed'[i] = landed[i]
<1> USE FieldsOf DEF Core
<1>1. PICK i \in Ops, p \in Pieces, k \in 0..Staging :
        i = chan[c].op /\ p = chan[c].part /\ k = chan[c].cell
  BY ChannelKnows DEF ChanType
<1>2. op[i].use /\ child[i].active /\ p \in 1..child[i].next /\ p \notin landed[i] /\ fate[i] = "none"
      /\ chan[c].io # "idle"
  BY <1>1 DEF PartsOut, OutOf, Indices
<1> DEFINE bad  == child[i].latch \/ child[i].cancel \/ cancel
           copy == ok /\ k # 0 /\ ~bad
           base == [child[i] EXCEPT !.remaining = Max({0, @ - 1}), !.cancel = @ \/ cancel]
           idle == [chan EXCEPT ![c] = IdleChan]
           x0   == [op |-> i, part |-> p, cell |-> k]
<1>3. /\ closing' = i
      /\ counts' = [counts EXCEPT ![op[i].origin] = Max({0, @ - 1}),
                                  !.copy = IF k # 0 /\ ~copy THEN Max({0, @ - 1}) ELSE @]
      /\ busy' = IF copy THEN busy ELSE busy \ {k}
      /\ copies' = IF copy THEN Append(copies, x0) ELSE copies
      /\ landed' = IF Delivered(c) /\ k = 0 THEN [landed EXCEPT ![i] = @ \cup {p}] ELSE landed
      /\ child' = [child EXCEPT ![i] =
           IF ~ok THEN [base EXCEPT !.latch = TRUE, !.cancelled = TRUE]
           ELSE IF k = 0 THEN [base EXCEPT !.ok = @ + 1]
           ELSE IF copy THEN [base EXCEPT !.copies = @ + 1]
           ELSE base]
      /\ chan' = IF ~ok /\ ~child[i].latch /\ ~child[i].cancelled
                 THEN Cut(Serving(i) \ {c}, idle) ELSE idle
  BY <1>1 DEF Retire, Delivered
<1>4. /\ op \in [Ops -> OpType] /\ child \in [Ops -> ChildType] /\ chan \in [Channels -> ChanType]
      /\ copies \in Seq(CopyType) /\ busy \subseteq Cells /\ counts \in CountsType
      /\ landed \in [Ops -> SUBSET Pieces]
  BY DEF Types, Tables
(* The channels.                                                            *)
<1>5. /\ chan' \in [Channels -> ChanType] /\ chan'[c] = IdleChan
      /\ \A d \in Channels : d # c => /\ chan'[d].op = chan[d].op /\ chan'[d].part = chan[d].part
                                      /\ chan'[d].cell = chan[d].cell /\ chan'[d].io = chan[d].io
                                      /\ chan[d].op = 0 => chan'[d] = chan[d]
  <2>1. idle \in [Channels -> ChanType] /\ idle[c] = IdleChan /\ \A d \in Channels : d # c => idle[d] = chan[d]
    BY <1>4, Blank
  <2>2. \A d \in Channels : d \in Serving(i) => chan[d].op # 0
    BY <1>1 DEF Serving, Ops
  <2> HIDE DEF idle
  <2>3. CASE chan' = idle
    BY <2>1, <2>3
  <2>4. CASE chan' = Cut(Serving(i) \ {c}, idle)
    <3>1. /\ chan' = [d \in Channels |-> chan'[d]]
          /\ \A d \in Channels : chan'[d] = idle[d]
               \/ (d # c /\ chan[d].op # 0 /\ chan'[d] = [idle[d] EXCEPT !.cut = TRUE])
          /\ chan'[c] = idle[c]
      BY <2>2, <2>4 DEF Cut
    <3>2. \A d \in Channels : /\ [idle[d] EXCEPT !.cut = TRUE] \in ChanType
                              /\ [idle[d] EXCEPT !.cut = TRUE].op = idle[d].op
                              /\ [idle[d] EXCEPT !.cut = TRUE].part = idle[d].part
                              /\ [idle[d] EXCEPT !.cut = TRUE].cell = idle[d].cell
                              /\ [idle[d] EXCEPT !.cut = TRUE].io = idle[d].io
      BY <2>1 DEF ChanType
    <3>3. \A d \in Channels : chan'[d] \in ChanType
      BY <2>1, <3>1, <3>2
    <3>4. chan' \in [Channels -> ChanType]
      BY <3>1, <3>3
    <3> QED
      BY <2>1, <3>1, <3>2, <3>4
  <2> QED
    BY <1>3, <2>3, <2>4
<1>6. chan'[c].op = 0 /\ chan'[c].cell = 0 /\ chan'[c].io = "idle"
  BY <1>5 DEF IdleChan
(* The read.                                                                *)
<1>7. c \in Under(i) /\ child[i].remaining = Cardinality(Under(i)) /\ child[i].remaining \in Nat \ {0}
      /\ Cardinality(Under(i) \ {c}) = child[i].remaining - 1
  <2>1. c \in Under(i)
    BY <1>1 DEF Under
  <2> QED
    BY <2>1, OneFewer, SomeFinite DEF Tallies
<1>8. /\ base \in ChildType /\ base.active = child[i].active /\ base.next = child[i].next
      /\ base.remaining = child[i].remaining - 1 /\ base.copies = child[i].copies /\ base.ok = child[i].ok
      /\ base.cancel = (child[i].cancel \/ cancel)
  <2>1. Max({0, child[i].remaining - 1}) = child[i].remaining - 1 /\ child[i].remaining - 1 \in Nat
    BY <1>7, OneLess
  <2>2. child[i] \in ChildType /\ (child[i].cancel \/ cancel) \in BOOLEAN
    BY DEF ChildType
  <2>3. base = [child[i] EXCEPT !.remaining = child[i].remaining - 1, !.cancel = child[i].cancel \/ cancel]
    BY <2>1
  <2> HIDE DEF base
  <2> QED
    BY <2>1, <2>2, <2>3 DEF ChildType
<1> HIDE DEF base, copy, idle
<1>9. /\ child'[i] \in ChildType /\ child'[i].active = child[i].active /\ child'[i].next = child[i].next
      /\ child'[i].remaining = child[i].remaining - 1
      /\ child'[i].copies = IF copy THEN child[i].copies + 1 ELSE child[i].copies
      /\ child'[i].ok = IF ok /\ k = 0 THEN child[i].ok + 1 ELSE child[i].ok
      /\ child'[i].cancel = (child[i].cancel \/ cancel)
  <2>0. copy => ok /\ k # 0
    BY DEF copy
  <2>1. child'[i] = IF ~ok THEN [base EXCEPT !.latch = TRUE, !.cancelled = TRUE]
                    ELSE IF k = 0 THEN [base EXCEPT !.ok = @ + 1]
                    ELSE IF copy THEN [base EXCEPT !.copies = @ + 1] ELSE base
    BY <1>3, <1>4
  <2>2. CASE ~ok
    <3>1. child'[i] = [base EXCEPT !.latch = TRUE, !.cancelled = TRUE]
      BY <2>1, <2>2
    <3> QED
      BY <1>8, <2>0, <2>2, <3>1 DEF ChildType
  <2>3. CASE ok /\ k = 0
    <3>1. child'[i] = [base EXCEPT !.ok = base.ok + 1] /\ base.ok + 1 \in Nat
      BY <1>8, <2>1, <2>3 DEF ChildType
    <3> QED
      BY <1>8, <2>0, <2>3, <3>1 DEF ChildType
  <2>4. CASE ok /\ k # 0 /\ copy
    <3>1. child'[i] = [base EXCEPT !.copies = base.copies + 1] /\ base.copies + 1 \in Nat
      BY <1>8, <2>1, <2>4 DEF ChildType
    <3> QED
      BY <1>8, <2>0, <2>4, <3>1 DEF ChildType
  <2>5. CASE ok /\ k # 0 /\ ~copy
    BY <1>8, <2>1, <2>5
  <2> QED
    BY <2>2, <2>3, <2>4, <2>5
<1>10. \A j \in Ops : j # i => child'[j] = child[j]
  BY <1>3, <1>4
<1>11. child' \in [Ops -> ChildType]
  <2>1. child' = [child EXCEPT ![i] = child'[i]]
    BY <1>3, <1>4
  <2> QED
    BY <1>4, <1>9, <2>1
<1>12. /\ landed' \in [Ops -> SUBSET Pieces]
       /\ landed'[i] = (IF Delivered(c) /\ k = 0 THEN landed[i] \cup {p} ELSE landed[i])
       /\ \A j \in Ops : j # i => landed'[j] = landed[j]
  BY <1>3, <1>4
(* The ring.                                                                *)
<1>13. /\ x0 \in CopyType \/ ~copy
       /\ x0.op = i /\ x0.part = p /\ x0.cell = k
       /\ copy => k \in Cells
  BY DEF CopyType, copy, Cells
<1>14. x0 \notin Ring
  BY <1>1, <1>13 DEF PartsApart
<1>15. Apart(copies) /\ Ring = In(copies) /\ Ring' = In(copies') /\ Len(copies) \in Nat
  BY <1>4, RingIs DEF PartsApart
<1> HIDE DEF x0
<1>16. /\ copies' \in Seq(CopyType) /\ Apart(copies') /\ Ring' = IF copy THEN Ring \cup {x0} ELSE Ring
       /\ Len(copies') = IF copy THEN Len(copies) + 1 ELSE Len(copies)
  <2>1. CASE copy
    <3>1. copies' = Append(copies, x0) /\ x0 \in CopyType
      BY <1>3, <1>13, <2>1
    <3> QED
      BY <1>4, <1>14, <1>15, <2>1, <3>1, Pushed, AppendProperties
  <2>2. CASE ~copy
    BY <1>3, <1>4, <1>15, <2>2
  <2> QED
    BY <2>1, <2>2
(* The gauges.                                                              *)
<1>17. /\ \A o \in {"demand", "prefetch"} :
            Cardinality(HeldBy(o)') = IF o = op[i].origin THEN Cardinality(HeldBy(o)) - 1 ELSE Cardinality(HeldBy(o))
       /\ Cardinality(HeldBy(op[i].origin)) \in Nat \ {0}
  <2>1. \A o : HeldBy(o)' = HeldBy(o) \ {c}
    BY <1>5, <1>6 DEF HeldBy, Held
  <2>2. \A o : c \in HeldBy(o) <=> o = op[i].origin
    BY <1>1, <1>2 DEF HeldBy, Held
  <2>3. \A o : c \in HeldBy(o) => Cardinality(HeldBy(o) \ {c}) = Cardinality(HeldBy(o)) - 1
                                  /\ Cardinality(HeldBy(o)) \in Nat \ {0}
    BY SomeFinite, OneFewer
  <2>4. \A o : c \notin HeldBy(o) => HeldBy(o) \ {c} = HeldBy(o)
    OBVIOUS
  <2> QED
    BY <2>1, <2>2, <2>3, <2>4
<1>18. /\ k # 0 => k \in busy /\ Cardinality(busy \ {k}) = Cardinality(busy) - 1 /\ Cardinality(busy) \in Nat \ {0}
       /\ k = 0 => k \notin busy
       /\ Cardinality(StagedReads') = IF k # 0 THEN Cardinality(StagedReads) - 1 ELSE Cardinality(StagedReads)
       /\ k # 0 => Cardinality(StagedReads) \in Nat \ {0}
  <2>1. StagedReads' = StagedReads \ {c}
    BY <1>5, <1>6 DEF StagedReads, Held
  <2>2. c \in StagedReads <=> k # 0
    BY <1>1, <1>2 DEF StagedReads, Held
  <2>3. k # 0 => k \in Cells
    BY DEF Cells
  <2>4. k # 0 => k \in busy
    BY <1>1, <2>3 DEF CellsApart
  <2>5. k = 0 => k \notin busy
    BY <1>4 DEF Cells
  <2>6. k \in busy => Cardinality(busy \ {k}) = Cardinality(busy) - 1 /\ Cardinality(busy) \in Nat \ {0}
    BY SomeFinite, OneFewer
  <2>7. c \in StagedReads => Cardinality(StagedReads \ {c}) = Cardinality(StagedReads) - 1
                             /\ Cardinality(StagedReads) \in Nat \ {0}
    BY SomeFinite, OneFewer
  <2>8. c \notin StagedReads => StagedReads \ {c} = StagedReads
    OBVIOUS
  <2> QED
    BY <2>1, <2>2, <2>4, <2>5, <2>6, <2>7, <2>8
<1>19. /\ counts' \in CountsType
       /\ counts'.demand = IF op[i].origin = "demand" THEN counts.demand - 1 ELSE counts.demand
       /\ counts'.prefetch = IF op[i].origin = "prefetch" THEN counts.prefetch - 1 ELSE counts.prefetch
       /\ counts'.copy = IF k # 0 /\ ~copy THEN counts.copy - 1 ELSE counts.copy
       /\ counts'.reserved = counts.reserved /\ counts'.active = counts.active
  <2>1. op[i].origin \in {"demand", "prefetch"}
    BY DEF OpType
  <2>2. counts.demand = Cardinality(HeldBy("demand")) /\ counts.prefetch = Cardinality(HeldBy("prefetch"))
        /\ counts.copy = Cardinality(busy)
    BY DEF Gauged
  <2>3. PICK y : y = IF k # 0 /\ ~copy THEN Max({0, counts.copy - 1}) ELSE counts.copy
    OBVIOUS
  <2>4. y \in Nat /\ y = IF k # 0 /\ ~copy THEN counts.copy - 1 ELSE counts.copy
    <3>1. CASE k # 0 /\ ~copy
      BY <1>18, <2>2, <2>3, <3>1, OneLess
    <3>2. CASE ~(k # 0 /\ ~copy)
      BY <2>3, <3>2
    <3> QED
      BY <3>1, <3>2
  <2>5. CASE op[i].origin = "demand"
    <3>1. Max({0, counts.demand - 1}) = counts.demand - 1 /\ counts.demand - 1 \in Nat
      BY <1>17, <2>2, <2>5, OneLess
    <3>2. counts' = [counts EXCEPT !.demand = counts.demand - 1, !.copy = y]
      BY <1>3, <1>4, <2>3, <2>5, <3>1 DEF CountsType
    <3> QED
      BY <1>4, <2>4, <2>5, <3>1, <3>2 DEF CountsType
  <2>6. CASE op[i].origin = "prefetch"
    <3>1. Max({0, counts.prefetch - 1}) = counts.prefetch - 1 /\ counts.prefetch - 1 \in Nat
      BY <1>17, <2>2, <2>6, OneLess
    <3>2. counts' = [counts EXCEPT !.prefetch = counts.prefetch - 1, !.copy = y]
      BY <1>3, <1>4, <2>3, <2>6, <3>1 DEF CountsType
    <3> QED
      BY <1>4, <2>4, <2>6, <3>1, <3>2 DEF CountsType
  <2> QED
    BY <2>1, <2>5, <2>6
<1>20. busy' \subseteq Cells
  BY <1>3, <1>4
<1>21. Tables'
  BY <1>5, <1>11, <1>12, <1>16, <1>19, <1>20 DEF Types, Tables
(* The parts that are still out.                                            *)
<1>22. PartsOut'
  <2>1. \A j \in Ops : \A q : OutOf(j, q) /\ ~(j = i /\ q = p) => OutOf(j, q)'
    BY <1>9, <1>10, <1>12 DEF OutOf
  <2>2. copy => OutOf(i, p)'
    <3>1. copy => landed'[i] = landed[i]
      BY <1>12 DEF copy
    <3> QED
      BY <1>2, <1>9, <3>1 DEF OutOf
  <2>3. \A d \in Channels : d # c /\ chan[d].op # 0 =>
          chan[d].op \in Ops /\ ~(chan[d].op = i /\ chan[d].part = p) /\ OutOf(chan[d].op, chan[d].part)
    BY <1>1, ChannelKnows DEF PartsOut, PartsApart
  <2>4. \A x \in Ring : x.op \in Ops /\ ~(x.op = i /\ x.part = p) /\ OutOf(x.op, x.part)
    BY <1>1, RingKnows DEF PartsOut, PartsApart
  <2>5. ASSUME NEW d \in Channels
        PROVE  IF chan'[d].op = 0 THEN chan'[d] = IdleChan
               ELSE chan'[d].io # "idle" /\ OutOf(chan[d].op, chan[d].part)'
    <3>1. CASE d = c
      BY <1>5, <1>6, <3>1
    <3>2. CASE d # c /\ chan[d].op = 0
      BY <1>5, <3>2 DEF PartsOut
    <3>3. CASE d # c /\ chan[d].op # 0
      <4>2. chan'[d].op = chan[d].op /\ chan'[d].part = chan[d].part /\ chan'[d].io = chan[d].io
            /\ chan[d].io # "idle"
        BY <1>5, <3>3 DEF PartsOut
      <4>3. chan[d].op \in Ops /\ OutOf(chan[d].op, chan[d].part) /\ ~(chan[d].op = i /\ chan[d].part = p)
        BY <2>3, <3>3
      <4>4. \A j \in Ops : \A q : OutOf(j, q) /\ ~(j = i /\ q = p) =>
              op'[j].use /\ child'[j].active /\ q \in 1..child'[j].next /\ q \notin landed'[j]
        BY <2>1 DEF OutOf
      <4>5. op'[chan[d].op].use /\ child'[chan[d].op].active /\ chan[d].part \in 1..child'[chan[d].op].next
            /\ chan[d].part \notin landed'[chan[d].op]
        BY <4>3, <4>4
      <4> QED
        BY <3>3, <4>2, <4>5 DEF OutOf
    <3> QED
      BY <3>1, <3>2, <3>3
  <2>6. ASSUME NEW x \in Ring' PROVE OutOf(x.op, x.part)'
    <3>1. CASE x \in Ring
      BY <2>1, <2>4, <3>1 DEF OutOf
    <3>2. CASE copy /\ x = x0
      BY <1>13, <2>2, <3>2 DEF OutOf
    <3> QED
      BY <1>16, <3>1, <3>2
  <2> QED
    BY <2>5, <2>6 DEF PartsOut, OutOf
<1>23. PartsApart'
  <2>1. ASSUME NEW d \in Channels, NEW e \in Channels, chan'[d].op # 0, chan'[d].op = chan'[e].op,
               chan'[d].part = chan'[e].part
        PROVE  d = e
    <3>1. d # c /\ e # c
      BY <1>6, <2>1
    <3>2. chan[d].op # 0 /\ chan[d].op = chan[e].op /\ chan[d].part = chan[e].part
      BY <1>5, <2>1, <3>1
    <3> QED
      BY <3>2 DEF PartsApart
  <2>2. ASSUME NEW x \in Ring', NEW y \in Ring', x.op = y.op, x.part = y.part PROVE x = y
    <3>1. \A z \in Ring : ~(z.op = i /\ z.part = p)
      BY <1>1 DEF PartsApart
    <3>2. (x \in Ring \/ x = x0) /\ (y \in Ring \/ y = x0)
      BY <1>16
    <3> QED
      BY <1>13, <2>2, <3>1, <3>2 DEF PartsApart
  <2>3. ASSUME NEW d \in Channels, NEW x \in Ring' PROVE ~(chan'[d].op = x.op /\ chan'[d].part = x.part)
    <3>1. x.op # 0
      <4>1. x.op \in Ops
        BY <1>13, <1>16, RingKnows
      <4> QED
        BY <4>1 DEF Ops
    <3>2. CASE d = c
      BY <1>6, <3>1, <3>2
    <3>3. CASE d # c /\ x \in Ring
      BY <1>5, <3>3 DEF PartsApart
    <3>4. CASE d # c /\ x = x0
      <4>1. chan[d].op = i /\ chan[d].part = p => d = c
        BY <1>1, <3>1, <3>4, <1>13 DEF PartsApart
      <4> QED
        BY <1>5, <1>13, <3>4, <4>1
    <3> QED
      BY <1>16, <3>2, <3>3, <3>4
  <2>4. \A m, n \in DOMAIN copies' : copies'[m] = copies'[n] => m = n
    BY <1>16 DEF Apart
  <2> QED
    BY <2>1, <2>2, <2>3, <2>4 DEF PartsApart
<1>24. CellsApart'
  <2>0. /\ \A d \in Channels : d # c /\ chan[d].cell # 0 => chan[d].cell # k
        /\ \A x \in Ring : x.cell # k /\ x.cell \in Cells /\ x.cell # 0
        /\ k # 0 => k \in Cells
    BY <1>1, RingKnows DEF CellsApart, Cells
  <2>1. ASSUME NEW d \in Channels, NEW e \in Channels, chan'[d].cell # 0, chan'[d].cell = chan'[e].cell
        PROVE  d = e
    <3>1. d # c /\ e # c
      BY <1>6, <2>1
    <3>2. chan[d].cell # 0 /\ chan[d].cell = chan[e].cell
      BY <1>5, <2>1, <3>1
    <3> QED
      BY <3>2 DEF CellsApart
  <2>2. ASSUME NEW x \in Ring', NEW y \in Ring', x.cell = y.cell PROVE x = y
    <3>1. (x \in Ring \/ x = x0) /\ (y \in Ring \/ y = x0)
      BY <1>16
    <3> QED
      BY <1>13, <2>0, <2>2, <3>1 DEF CellsApart
  <2>3. ASSUME NEW d \in Channels, NEW x \in Ring' PROVE chan'[d].cell # x.cell
    <3>1. x \in Ring \/ (copy /\ x = x0)
      BY <1>16
    <3>2. copy => k # 0
      BY DEF copy
    <3>3. CASE d = c
      BY <1>6, <1>13, <2>0, <3>1, <3>2, <3>3
    <3>4. CASE d # c
      BY <1>5, <1>13, <2>0, <3>1, <3>2, <3>4 DEF CellsApart
    <3> QED
      BY <3>3, <3>4
  <2>4. ASSUME NEW m \in Cells
        PROVE  m \in busy' <=> \/ \E d \in Channels : chan'[d].cell = m
                               \/ \E x \in Ring' : x.cell = m
    <3>0. m # 0
      BY DEF Cells
    <3>1. m \in busy <=> (\E d \in Channels : chan[d].cell = m) \/ (\E x \in Ring : x.cell = m)
      BY DEF CellsApart
    <3>2. \A d \in Channels : chan'[d].cell = m <=> (d # c /\ chan[d].cell = m)
      BY <1>5, <1>6, <3>0
    <3>3. CASE m = k
      <4>1. ~\E d \in Channels : chan'[d].cell = m
        BY <2>0, <3>0, <3>2, <3>3
      <4>2. CASE copy
        <5>1. m \in busy /\ busy' = busy
          BY <1>3, <1>18, <3>0, <3>3, <4>2
        <5>2. x0 \in Ring' /\ x0.cell = m
          BY <1>13, <1>16, <3>3, <4>2
        <5> QED
          BY <5>1, <5>2
      <4>3. CASE ~copy
        <5>1. m \notin busy' /\ Ring' = Ring
          BY <1>3, <1>16, <3>3, <4>3
        <5> QED
          BY <2>0, <3>3, <4>1, <5>1
      <4> QED
        BY <4>2, <4>3
    <3>4. CASE m # k
      <4>1. m \in busy' <=> m \in busy
        BY <1>3, <3>4
      <4>2. (\E d \in Channels : chan'[d].cell = m) <=> (\E d \in Channels : chan[d].cell = m)
        BY <1>1, <3>2, <3>4
      <4>3. (\E x \in Ring' : x.cell = m) <=> (\E x \in Ring : x.cell = m)
        BY <1>13, <1>16, <3>4
      <4> QED
        BY <3>1, <4>1, <4>2, <4>3
    <3> QED
      BY <3>3, <3>4
  <2> QED
    BY <2>1, <2>2, <2>3, <2>4 DEF CellsApart
(* What the read counts of itself.                                          *)
<1>25. Tallies'
  <2>1. /\ Under(i)' = Under(i) \ {c}
        /\ \A j : j # i /\ j # 0 => Under(j)' = Under(j)
    BY <1>1, <1>5, <1>6 DEF Under, Ops
  <2>2. /\ Copied(i)' = IF copy THEN Copied(i) \cup {x0} ELSE Copied(i)
        /\ \A j : j # i => Copied(j)' = Copied(j)
    BY <1>13, <1>16 DEF Copied
  <2>3. \A j \in Ops : j # 0
    BY DEF Ops
  <2>4. ASSUME NEW j \in Ops, j # i
        PROVE  /\ child'[j].remaining = Cardinality(Under(j)') /\ child'[j].copies = Cardinality(Copied(j)')
               /\ child'[j].ok + child'[j].remaining + child'[j].copies <= child'[j].next
               /\ op'[j].use => child'[j].cancel \/ child'[j].ok = Cardinality(landed'[j])
    BY <1>10, <1>12, <2>1, <2>2, <2>3, <2>4 DEF Tallies
  <2>5. child'[i].remaining = Cardinality(Under(i)')
    BY <1>7, <1>9, <2>1
  <2>6. child'[i].copies = Cardinality(Copied(i)')
    <3>1. child[i].copies = Cardinality(Copied(i)) /\ x0 \notin Copied(i)
      BY <1>14 DEF Tallies, Copied
    <3>2. Cardinality(Copied(i) \cup {x0}) = Cardinality(Copied(i)) + 1
      BY <3>1, SomeFinite, OneMore
    <3> QED
      BY <1>9, <2>2, <3>1, <3>2
  <2>7. child'[i].ok + child'[i].remaining + child'[i].copies <= child'[i].next
    <3>1. child[i].ok \in Nat /\ child[i].copies \in Nat /\ child[i].next \in 0..Parts
      BY DEF ChildType
    <3>2. child[i].ok + child[i].remaining + child[i].copies <= child[i].next
      BY DEF Tallies
    <3>3. copy => k # 0
      BY DEF copy
    <3>4. child[i].next \in Nat
      BY <3>1, VirtualReadsAssumption
    <3> QED
      BY <1>7, <1>9, <3>1, <3>2, <3>3, <3>4
  <2>8. child'[i].cancel \/ child'[i].ok = Cardinality(landed'[i])
    <3>1. child[i].cancel \/ child[i].ok = Cardinality(landed[i])
      BY <1>2 DEF Tallies
    <3>2. Cardinality(landed[i] \cup {p}) = Cardinality(landed[i]) + 1
      BY <1>2, SomeFinite, OneMore
    <3> QED
      BY <1>9, <1>12, <3>1, <3>2
  <2> QED
    BY <2>4, <2>5, <2>6, <2>7, <2>8 DEF Tallies
<1>26. Indices'
  <2>1. \A j \in Ops : ~op'[j].use => op'[j] = FreeOp /\ child'[j] = NoChild /\ rec'[j] = NoRec
    BY <1>2, <1>10 DEF Indices
  <2>2. \A j \in Ops : op'[j].use => fate'[j] = "none" /\ landed'[j] \subseteq 1..child'[j].next
    <3>1. landed[i] \subseteq 1..child[i].next
      BY <1>2 DEF Indices
    <3>2. landed'[i] \subseteq 1..child'[i].next
      BY <1>2, <1>9, <1>12, <3>1
    <3> QED
      BY <1>10, <1>12, <3>2 DEF Indices
  <2>3. \A j \in Ops : IF child'[j].active THEN child'[j].next # 0 ELSE child'[j] = NoChild
    <3>1. child'[i].active /\ child'[i].next # 0
      BY <1>2, <1>9 DEF Indices
    <3>2. \A j \in Ops : j # i => IF child'[j].active THEN child'[j].next # 0 ELSE child'[j] = NoChild
      BY <1>10 DEF Indices
    <3> QED
      BY <3>1, <3>2
  <2>4. closing' # 0 => op'[closing'].use /\ child'[closing'].active
    BY <1>2, <1>3, <1>9
  <2>5. /\ \A n \in DOMAIN free' : ~op'[free'[n]].use
        /\ \A m, n \in DOMAIN free' : free'[m] = free'[n] => m = n
    BY DEF Indices
  <2> QED
    BY <2>1, <2>2, <2>3, <2>4, <2>5 DEF Indices
<1>27. Records'
  <2>1. \A j \in Ops : child'[j].active = child[j].active
    BY <1>9, <1>10
  <2>2. Parallel \in Nat /\ \A j \in Ops : child[j].remaining <= Parallel
    BY VirtualReadsAssumption DEF Records
  <2>3. \A j \in Ops : child'[j].remaining <= Parallel
    BY <1>7, <1>9, <1>10, <2>2
  <2> QED
    BY <2>1, <2>3 DEF Records
<1>28. Gauged'
  <2>1. op[i].origin \in {"demand", "prefetch"} /\ Cardinality(busy) \in Nat /\ Cardinality(StagedReads) \in Nat
    BY SomeFinite DEF OpType
  <2>2. copy => k # 0
    BY DEF copy
  <2>3. counts'.demand = Cardinality(HeldBy("demand")') /\ counts'.prefetch = Cardinality(HeldBy("prefetch")')
    BY <1>17, <1>19, <2>1 DEF Gauged
  <2>4. Cardinality(busy') = IF k # 0 /\ ~copy THEN Cardinality(busy) - 1 ELSE Cardinality(busy)
    <3>1. k = 0 => busy \ {k} = busy
      BY <1>18
    <3> QED
      BY <1>3, <1>18, <2>2, <3>1
  <2>5. counts'.copy = Cardinality(busy')
    BY <1>19, <2>4 DEF Gauged
  <2>6. Cardinality(busy') = Cardinality(StagedReads') + Len(copies')
    BY <1>15, <1>16, <1>18, <2>1, <2>2, <2>4 DEF Gauged
  <2> QED
    BY <2>3, <2>5, <2>6 DEF Gauged
<1>29. Guessed'
  <2>1. Reserving' = Reserving /\ Guessing' = Guessing
    BY DEF Reserving, Guessing
  <2>2. counts'.prefetch + counts'.reserved <= Budget
    <3>1. Budget \in Nat
      BY LimitIs
    <3>2. counts.prefetch + counts.reserved <= Budget /\ counts.prefetch \in Nat /\ counts.reserved \in Nat
      BY DEF Guessed
    <3> QED
      BY <1>19, <3>1, <3>2
  <2> QED
    BY <1>19, <2>1, <2>2, GuessedIs
<1>30. closing' \in Ops
  BY <1>3
<1>31. \A d \in Channels : chan'[d].io \in {chan[d].io, "idle"}
  BY <1>5, <1>6
<1>32. \A j \in Ops : fate[j] # "none" => landed'[j] = landed[j]
  BY <1>2, <1>12
<1> QED
  BY <1>21, <1>22, <1>23, <1>24, <1>25, <1>26, <1>27, <1>28, <1>29, <1>30, <1>31, <1>32

(* The steps that retire a part.                                            *)
LEMMA AfterRetire ==
  ASSUME Alright, Tables', Core', closing' \in Ops, UNCHANGED <<op, queue, fate, sides>>,
         \A d \in Channels : chan'[d].io \in {chan[d].io, "idle"},
         \A i \in Ops : fate[i] # "none" => landed'[i] = landed[i],
         \/ turn' = turn
         \/ turn.pc \notin Settlers /\ turn'.pc = turn.pc /\ turn' \in TurnType
  PROVE  Alright'
<1> USE Told
<1>1. Types'
  <2>1. closing' \in 0..Pool
    BY DEF Ops
  <2>2. turn' \in TurnType
    BY DEF Types
  <2> QED
    BY <2>1, <2>2 DEF Types, Scalars, sides
<1>2. AtOnce' \subseteq AtOnce
  BY DEF AtOnce
<1>3. AtOnceSettled' /\ NotGone'
  <2>1. CASE turn' = turn
    BY <1>2, <2>1 DEF AtOnceSettled, NotGone
  <2>2. CASE turn.pc \notin Settlers /\ turn'.pc = turn.pc
    <3>1. AtOnce' = {} /\ turn'.pc \notin Settlers /\ turn'.pc # "gone"
      BY <1>2, <2>2 DEF AtOnceSettled, Settlers, NotGone
    <3> QED
      BY <3>1 DEF AtOnceSettled, Settlers, NotGone
  <2> QED
    BY <2>1, <2>2
<1>4. AskedFor' /\ PublishedWhole'
  BY DEF AskedFor, PublishedWhole, sides
<1> QED
  BY <1>1, <1>3, <1>4, AllTold

LEMMA HasRead ==
  ASSUME Types, Core, NEW c \in Channels, chan[c].io # "idle"
  PROVE  chan[c].op # 0
  BY ChannelKnows DEF Core

LEMMA RetireSignaledStep == ASSUME Alright, RetireSignaled PROVE Alright'
<1> USE Told
<1>1. Signaled \subseteq Channels /\ Signaled \subseteq Nat /\ Signaled # {}
  BY VirtualReadsAssumption DEF RetireSignaled, Signaled, Channels
<1>2. PICK c \in Channels : c = Min(Signaled) /\ c \in Signaled
  BY <1>1, MinOfSet
<1>3. Retire(c, Delivered(c), FALSE) /\ Stay(c + 1)
      /\ UNCHANGED <<op, free, queue, rec, sides, fate>> /\ closing = 0 /\ turn.pc \notin Settlers
  BY <1>2 DEF RetireSignaled, At, Settlers
<1>4. chan[c].op # 0
  BY <1>2, HasRead DEF Signaled, Ended
<1>5. Delivered(c) \in BOOLEAN
  BY DEF Delivered
<1>6. /\ Tables' /\ Core' /\ closing' \in Ops
      /\ \A d \in Channels : chan'[d].io \in {chan[d].io, "idle"}
      /\ \A i \in Ops : fate[i] # "none" => landed'[i] = landed[i]
  BY <1>3, <1>4, <1>5, RetireKeeps
<1>7. turn'.pc = turn.pc /\ turn' \in TurnType
  <2>1. c + 1 \in Nat \ {0}
    BY VirtualReadsAssumption DEF Channels
  <2> QED
    BY <1>3, <2>1, TurnMoves DEF Stay, Types, TurnType
<1> QED
  BY <1>3, <1>6, <1>7, AfterRetire

LEMMA SettleOneStep == ASSUME Alright, SettleOne PROVE Alright'
<1> USE Told
<1>1. AtOnce # {} /\ AtOnce \subseteq Channels
  BY DEF SettleOne, AtOnce
<1>2. \E c \in AtOnce : \A d \in AtOnce : chan[c].part <= chan[d].part
  <2> DEFINE Ps == {chan[c].part : c \in AtOnce}
  <2>1. \A c \in AtOnce : chan[c].part \in Pieces
    BY HasRead, ChannelKnows DEF AtOnce, Core
  <2>2. Ps \subseteq Nat /\ Ps # {}
    BY <1>1, <2>1, VirtualReadsAssumption DEF Pieces
  <2>3. PICK m \in Ps : \A n \in Ps : m <= n
    BY <2>2, SmallestOne
  <2> QED
    BY <2>3
<1>3. PICK c \in Channels : c \in AtOnce /\ Retire(c, Delivered(c), FALSE)
  BY <1>1, <1>2 DEF SettleOne
<1>4. UNCHANGED <<turn, op, free, queue, rec, sides, fate>> /\ closing = 0
  BY DEF SettleOne, Settling, At
<1>5. chan[c].op # 0
  BY <1>3, HasRead DEF AtOnce
<1>6. Delivered(c) \in BOOLEAN
  BY DEF Delivered
<1>7. /\ Tables' /\ Core' /\ closing' \in Ops
      /\ \A d \in Channels : chan'[d].io \in {chan[d].io, "idle"}
      /\ \A i \in Ops : fate[i] # "none" => landed'[i] = landed[i]
  BY <1>3, <1>4, <1>5, <1>6, RetireKeeps
<1> QED
  BY <1>4, <1>7, AfterRetire

LEMMA DrainOneStep == ASSUME Alright, DrainOne PROVE Alright'
<1> USE Told
<1>1. Chosen # {} /\ Chosen \subseteq Channels /\ Chosen \subseteq Nat
  <2>1. Chosen # {} /\ Chosen \subseteq Channels
    BY DEF DrainOne, Chosen
  <2>2. Channels \subseteq Nat
    BY VirtualReadsAssumption DEF Channels
  <2> QED
    BY <2>1, <2>2
<1>2. PICK c \in Channels : c = Min(Chosen) /\ c \in Chosen
  BY <1>1, MinOfSet
<1>3. Retire(c, chan[c].io # "aborted", TRUE) /\ UNCHANGED <<turn, op, free, queue, rec, sides, fate>>
      /\ closing = 0
  BY <1>2 DEF DrainOne, At
<1>4. chan[c].op # 0
  BY <1>2, HasRead DEF Chosen, Busy, Ended
<1>5. (chan[c].io # "aborted") \in BOOLEAN /\ (Delivered(c) => chan[c].io # "aborted")
  BY DEF Delivered
<1>6. /\ Tables' /\ Core' /\ closing' \in Ops
      /\ \A d \in Channels : chan'[d].io \in {chan[d].io, "idle"}
      /\ \A i \in Ops : fate[i] # "none" => landed'[i] = landed[i]
  BY <1>3, <1>4, <1>5, RetireKeeps
<1> QED
  BY <1>3, <1>6, AfterRetire

(* The copy thread puts a part into the slot.                               *)
LEMMA Dequeued ==
  ASSUME NEW S, NEW q \in Seq(S), Apart(q), q # <<>>
  PROVE  Tail(q) \in Seq(S) /\ Apart(Tail(q)) /\ Head(q) \in In(q) /\ In(Tail(q)) = In(q) \ {Head(q)}
         /\ Len(Tail(q)) = Len(q) - 1
<1>1. /\ Len(q) \in Nat \ {0} /\ DOMAIN q = 1..Len(q) /\ Head(q) = q[1] /\ Head(q) \in S
      /\ Tail(q) \in Seq(S) /\ Len(Tail(q)) = Len(q) - 1
      /\ \A n \in 1..(Len(q) - 1) : Tail(q)[n] = q[n + 1]
  BY FirstOne
<1>2. DOMAIN Tail(q) = 1..(Len(q) - 1)
  BY <1>1, LenProperties
<1>3. /\ 1 \in 1..Len(q)
      /\ \A n \in 1..(Len(q) - 1) : n + 1 \in 1..Len(q) /\ n + 1 # 1
      /\ \A n \in 1..Len(q) : n = 1 \/ (n - 1 \in 1..(Len(q) - 1) /\ (n - 1) + 1 = n)
      /\ \A m, n \in 1..(Len(q) - 1) : m + 1 = n + 1 => m = n
  <2>1. Len(q) \in Nat \ {0}
    BY <1>1
  <2> QED
    BY ONLY <2>1
<1>4. Apart(Tail(q))
  BY <1>1, <1>2, <1>3 DEF Apart
<1>5. \A y \in In(Tail(q)) : y \in In(q) /\ y # Head(q)
  <2> SUFFICES ASSUME NEW n \in 1..(Len(q) - 1) PROVE Tail(q)[n] \in In(q) /\ Tail(q)[n] # Head(q)
    BY <1>2 DEF In
  <2>1. Tail(q)[n] = q[n + 1] /\ n + 1 \in 1..Len(q) /\ n + 1 # 1
    BY <1>1, <1>3
  <2> QED
    BY <1>1, <1>3, <2>1 DEF In, Apart
<1>6. \A y \in In(q) : y = Head(q) \/ y \in In(Tail(q))
  <2> SUFFICES ASSUME NEW n \in 1..Len(q) PROVE q[n] = Head(q) \/ q[n] \in In(Tail(q))
    BY <1>1 DEF In
  <2>1. CASE n = 1
    BY <1>1, <2>1
  <2>2. CASE n # 1
    <3>1. n - 1 \in 1..(Len(q) - 1) /\ (n - 1) + 1 = n
      BY <1>3, <2>2
    <3>2. Tail(q)[n - 1] = q[n]
      BY <1>1, <3>1
    <3> QED
      BY <1>2, <3>1, <3>2 DEF In
  <2> QED
    BY <2>1, <2>2
<1>7. Head(q) \in In(q)
  BY <1>1, <1>3 DEF In
<1> QED
  BY <1>1, <1>4, <1>5, <1>6, <1>7

LEMMA EndCopyStep == ASSUME Alright, EndCopy PROVE Alright'
<1> USE Told, FieldsOf DEF Core
<1>1. copies \in Seq(CopyType) /\ copies # <<>> /\ Apart(copies) /\ Ring = In(copies) /\ Ring' = In(copies')
      /\ Len(copies) \in Nat
  BY RingIs DEF EndCopy, Types, Tables, PartsApart
<1>2. /\ copies' = Tail(copies) /\ copies' \in Seq(CopyType) /\ Apart(copies') /\ Head(copies) \in Ring
      /\ Ring' = Ring \ {Head(copies)} /\ Len(copies') = Len(copies) - 1
  BY <1>1, Dequeued DEF EndCopy
<1>3. PICK x0 \in Ring : x0 = Head(copies)
  BY <1>2
<1>4. PICK i \in Ops, p \in Pieces, k \in Cells : i = x0.op /\ p = x0.part /\ k = x0.cell
  BY RingKnows
<1>5. op[i].use /\ child[i].active /\ p \in 1..child[i].next /\ p \notin landed[i] /\ fate[i] = "none"
  BY <1>4 DEF PartsOut, OutOf, Indices
<1>6. /\ child' = [child EXCEPT ![i].ok = @ + 1, ![i].copies = Max({0, @ - 1})]
      /\ landed' = [landed EXCEPT ![i] = @ \cup {p}]
      /\ closing' = i /\ busy' = busy \ {k} /\ counts' = [counts EXCEPT !.copy = Max({0, @ - 1})]
      /\ UNCHANGED <<turn, op, free, queue, rec, chan, sides, fate>>
  BY <1>3, <1>4 DEF EndCopy
<1>7. /\ op \in [Ops -> OpType] /\ child \in [Ops -> ChildType] /\ chan \in [Channels -> ChanType]
      /\ busy \subseteq Cells /\ counts \in CountsType /\ landed \in [Ops -> SUBSET Pieces]
  BY DEF Types, Tables
<1>8. x0 \in Copied(i) /\ child[i].copies = Cardinality(Copied(i)) /\ child[i].copies \in Nat \ {0}
      /\ Cardinality(Copied(i) \ {x0}) = child[i].copies - 1
  <2>1. x0 \in Copied(i)
    BY <1>4 DEF Copied
  <2> QED
    BY <2>1, OneFewer, SomeFinite DEF Tallies
<1>9. /\ child'[i] \in ChildType /\ child'[i].active = child[i].active /\ child'[i].next = child[i].next
      /\ child'[i].remaining = child[i].remaining /\ child'[i].copies = child[i].copies - 1
      /\ child'[i].ok = child[i].ok + 1 /\ child'[i].cancel = child[i].cancel
  <2>1. Max({0, child[i].copies - 1}) = child[i].copies - 1 /\ child[i].copies - 1 \in Nat
    BY <1>8, OneLess
  <2>2. child[i].ok + 1 \in Nat
    BY DEF ChildType
  <2>3. child'[i] = [child[i] EXCEPT !.ok = child[i].ok + 1, !.copies = child[i].copies - 1]
    BY <1>6, <1>7, <2>1 DEF ChildType
  <2> QED
    BY <2>1, <2>2, <2>3 DEF ChildType
<1>10. \A j \in Ops : j # i => child'[j] = child[j]
  BY <1>6, <1>7
<1>11. child' \in [Ops -> ChildType]
  <2>1. child' = [child EXCEPT ![i] = child'[i]]
    BY <1>6, <1>7
  <2> QED
    BY <1>7, <1>9, <2>1
<1>12. /\ landed' \in [Ops -> SUBSET Pieces] /\ landed'[i] = landed[i] \cup {p}
       /\ \A j \in Ops : j # i => landed'[j] = landed[j]
  BY <1>6, <1>7
<1>13. k \in busy /\ Cardinality(busy \ {k}) = Cardinality(busy) - 1 /\ Cardinality(busy) \in Nat \ {0}
  <2>1. k \in busy
    BY <1>4 DEF CellsApart
  <2> QED
    BY <2>1, SomeFinite, OneFewer
<1>14. /\ counts' \in CountsType /\ counts'.copy = counts.copy - 1
       /\ counts'.demand = counts.demand /\ counts'.prefetch = counts.prefetch
       /\ counts'.reserved = counts.reserved /\ counts'.active = counts.active
  <2>1. counts.copy = Cardinality(busy)
    BY DEF Gauged
  <2>2. Max({0, counts.copy - 1}) = counts.copy - 1 /\ counts.copy - 1 \in Nat
    BY <1>13, <2>1, OneLess
  <2> QED
    BY <1>6, <1>7, <2>2 DEF CountsType
<1>15. Tables'
  <2>1. busy' \subseteq Cells
    BY <1>6, <1>7
  <2> QED
    BY <1>2, <1>6, <1>11, <1>12, <1>14, <2>1 DEF Types, Tables
<1>16. PartsOut'
  <2>1. \A j \in Ops : \A q : OutOf(j, q) /\ ~(j = i /\ q = p) => OutOf(j, q)'
    BY <1>6, <1>9, <1>10, <1>12 DEF OutOf
  <2>2. ASSUME NEW d \in Channels
        PROVE  IF chan[d].op = 0 THEN chan[d] = IdleChan
               ELSE chan[d].io # "idle" /\ OutOf(chan[d].op, chan[d].part)'
    <3>1. CASE chan[d].op = 0
      BY <3>1 DEF PartsOut
    <3>2. CASE chan[d].op # 0
      <4>1. chan[d].op \in Ops /\ OutOf(chan[d].op, chan[d].part) /\ ~(chan[d].op = i /\ chan[d].part = p)
            /\ chan[d].io # "idle"
        BY <1>4, <3>2, ChannelKnows DEF PartsOut, PartsApart
      <4>2. \A j \in Ops : \A q : OutOf(j, q) /\ ~(j = i /\ q = p) =>
              op'[j].use /\ child'[j].active /\ q \in 1..child'[j].next /\ q \notin landed'[j]
        BY <2>1 DEF OutOf
      <4>3. op'[chan[d].op].use /\ child'[chan[d].op].active /\ chan[d].part \in 1..child'[chan[d].op].next
            /\ chan[d].part \notin landed'[chan[d].op]
        BY <4>1, <4>2
      <4> QED
        BY <1>6, <3>2, <4>1, <4>3 DEF OutOf
    <3> QED
      BY <3>1, <3>2
  <2>3. ASSUME NEW x \in Ring' PROVE OutOf(x.op, x.part)'
    <3>1. x \in Ring /\ x # x0
      BY <1>2, <1>3
    <3>2. x.op \in Ops /\ OutOf(x.op, x.part) /\ ~(x.op = i /\ x.part = p)
      BY <1>4, <3>1, RingKnows DEF PartsOut, PartsApart
    <3> QED
      BY <2>1, <3>2 DEF OutOf
  <2> QED
    BY <1>6, <2>2, <2>3 DEF PartsOut, OutOf
<1>17. PartsApart'
  <2>1. \A m, n \in DOMAIN copies' : copies'[m] = copies'[n] => m = n
    BY <1>2 DEF Apart
  <2>2. Ring' \subseteq Ring
    BY <1>2
  <2> QED
    BY <1>6, <2>1, <2>2 DEF PartsApart
<1>18. CellsApart'
  <2>1. Ring' \subseteq Ring
    BY <1>2
  <2>2. ASSUME NEW m \in Cells
        PROVE  m \in busy' <=> (\E d \in Channels : chan[d].cell = m) \/ (\E x \in Ring' : x.cell = m)
    <3>1. m \in busy <=> (\E d \in Channels : chan[d].cell = m) \/ (\E x \in Ring : x.cell = m)
      BY DEF CellsApart
    <3>2. CASE m = k
      <4>1. \A d \in Channels : chan[d].cell # k
        BY <1>4 DEF CellsApart
      <4>2. \A x \in Ring : x.cell = k => x = x0
        BY <1>4 DEF CellsApart
      <4> QED
        BY <1>2, <1>3, <1>6, <3>2, <4>1, <4>2
    <3>3. CASE m # k
      BY <1>2, <1>3, <1>4, <1>6, <3>1, <3>3
    <3> QED
      BY <3>2, <3>3
  <2> QED
    BY <1>6, <2>1, <2>2 DEF CellsApart
<1>19. Tallies'
  <2>1. \A j : Under(j)' = Under(j)
    BY <1>6 DEF Under
  <2>2. /\ Copied(i)' = Copied(i) \ {x0}
        /\ \A j : j # i => Copied(j)' = Copied(j)
    BY <1>2, <1>3, <1>4 DEF Copied
  <2>3. ASSUME NEW j \in Ops, j # i
        PROVE  /\ child'[j].remaining = Cardinality(Under(j)') /\ child'[j].copies = Cardinality(Copied(j)')
               /\ child'[j].ok + child'[j].remaining + child'[j].copies <= child'[j].next
               /\ op'[j].use => child'[j].cancel \/ child'[j].ok = Cardinality(landed'[j])
    BY <1>6, <1>10, <1>12, <2>1, <2>2, <2>3 DEF Tallies
  <2>4. child'[i].remaining = Cardinality(Under(i)') /\ child'[i].copies = Cardinality(Copied(i)')
    BY <1>8, <1>9, <2>1, <2>2 DEF Tallies
  <2>5. child'[i].ok + child'[i].remaining + child'[i].copies <= child'[i].next
    <3>1. child[i].ok \in Nat /\ child[i].remaining \in Nat /\ child[i].next \in 0..Parts /\ Parts \in Nat
      BY VirtualReadsAssumption DEF ChildType
    <3>2. child[i].ok + child[i].remaining + child[i].copies <= child[i].next
      BY DEF Tallies
    <3> QED
      BY <1>8, <1>9, <3>1, <3>2
  <2>6. child'[i].cancel \/ child'[i].ok = Cardinality(landed'[i])
    <3>1. child[i].cancel \/ child[i].ok = Cardinality(landed[i])
      BY <1>5 DEF Tallies
    <3>2. Cardinality(landed[i] \cup {p}) = Cardinality(landed[i]) + 1
      BY <1>5, SomeFinite, OneMore
    <3> QED
      BY <1>9, <1>12, <3>1, <3>2
  <2> QED
    BY <2>3, <2>4, <2>5, <2>6 DEF Tallies
<1>20. Indices'
  <2>1. \A j \in Ops : ~op'[j].use => op'[j] = FreeOp /\ child'[j] = NoChild /\ rec'[j] = NoRec
    BY <1>5, <1>6, <1>10 DEF Indices
  <2>2. \A j \in Ops : op'[j].use => fate'[j] = "none" /\ landed'[j] \subseteq 1..child'[j].next
    <3>1. landed[i] \subseteq 1..child[i].next
      BY <1>5 DEF Indices
    <3>2. landed'[i] \subseteq 1..child'[i].next
      BY <1>5, <1>9, <1>12, <3>1
    <3> QED
      BY <1>6, <1>10, <1>12, <3>2 DEF Indices
  <2>3. \A j \in Ops : IF child'[j].active THEN child'[j].next # 0 ELSE child'[j] = NoChild
    <3>1. child'[i].active /\ child'[i].next # 0
      BY <1>5, <1>9 DEF Indices
    <3>2. \A j \in Ops : j # i => IF child'[j].active THEN child'[j].next # 0 ELSE child'[j] = NoChild
      BY <1>10 DEF Indices
    <3> QED
      BY <3>1, <3>2
  <2>4. closing' # 0 => op'[closing'].use /\ child'[closing'].active
    BY <1>5, <1>6, <1>9
  <2>5. /\ \A n \in DOMAIN free' : ~op'[free'[n]].use
        /\ \A m, n \in DOMAIN free' : free'[m] = free'[n] => m = n
    BY <1>6 DEF Indices
  <2> QED
    BY <2>1, <2>2, <2>3, <2>4, <2>5 DEF Indices
<1>21. Records'
  <2>1. \A j \in Ops : child'[j].active = child[j].active /\ child'[j].remaining = child[j].remaining
    BY <1>9, <1>10
  <2> QED
    BY <1>6, <2>1 DEF Records
<1>22. Gauged' /\ Guessed'
  <2>1. HeldBy("demand")' = HeldBy("demand") /\ HeldBy("prefetch")' = HeldBy("prefetch")
        /\ StagedReads' = StagedReads
    BY <1>6 DEF HeldBy, StagedReads, Held
  <2>2. Reserving' = Reserving /\ Guessing' = Guessing
    BY <1>6 DEF Reserving, Guessing
  <2>3. Cardinality(busy') = Cardinality(StagedReads') + Len(copies')
    BY <1>1, <1>2, <1>6, <1>13, <2>1, SomeFinite DEF Gauged
  <2>4. Gauged'
    BY <1>6, <1>13, <1>14, <2>1, <2>3 DEF Gauged
  <2>5. Guessed'
    BY <1>14, <2>2, GuessedIs
  <2> QED
    BY <2>4, <2>5
<1>23. closing' \in Ops /\ turn' = turn
  BY <1>6
<1>24. \A d \in Channels : chan'[d].io \in {chan[d].io, "idle"}
  BY <1>6
<1>25. \A j \in Ops : fate[j] # "none" => landed'[j] = landed[j]
  BY <1>5, <1>12
<1>26. Core'
  BY <1>16, <1>17, <1>18, <1>19, <1>20, <1>21, <1>22
<1> QED
  BY <1>6, <1>15, <1>23, <1>24, <1>25, <1>26, AfterRetire

(* The clean-up leaves nothing.                                             *)
LEMMA CleanUpStep == ASSUME Alright, CleanUp PROVE VirtualInv'
<1> USE Told
<1>1. /\ closing = 0 /\ Goto("gone")
      /\ op' = [i \in Ops |-> FreeOp] /\ child' = [i \in Ops |-> NoChild]
      /\ rec' = [i \in Ops |-> NoRec] /\ chan' = [c \in Channels |-> IdleChan]
      /\ free' = <<>> /\ queue' = <<>>
      /\ counts' = [counts EXCEPT !.reserved = 0, !.active = 0]
      /\ UNCHANGED <<closing, busy, copies, cont, asked, intents, stop, fatal, spent, landed, fate>>
  BY DEF CleanUp, At, sides, ghosts
<1>2. counts' \in CountsType
  <2>1. counts \in CountsType /\ 0 \in Nat
    BY DEF Types, Tables
  <2> QED
    BY <1>1, <2>1 DEF CountsType
<1>3. turn' \in TurnType /\ turn'.pc = "gone"
  <2>1. "gone" \in Pcs
    BY DEF Pcs
  <2> QED
    BY <1>1, <2>1, TurnMoves DEF Goto, Types, TurnType
<1>4. Types'
  <2>1. op' \in [Ops -> OpType] /\ child' \in [Ops -> ChildType] /\ rec' \in [Ops -> RecType]
        /\ chan' \in [Channels -> ChanType]
    BY <1>1, Blank
  <2>2. free' \in Seq(Ops) /\ queue' \in Seq(Ops)
    BY <1>1, EmptySeq
  <2> QED
    BY <1>1, <1>2, <1>3, <2>1, <2>2 DEF Types, Tables, Scalars
<1>5. AskedFor'
  <2>1. 1 \in Ops
    BY VirtualReadsAssumption DEF Ops
  <2>2. asked \in Nat /\ spent.asks \in 0..MaxAsks /\ MaxAsks \in Nat /\ op[1].waiters \in Nat
    BY <2>1, FieldsOf, VirtualReadsAssumption DEF Types, Scalars, OpType
  <2>3. op[1].waiters + asked <= spent.asks
    BY <2>1 DEF AskedFor
  <2>4. asked <= spent.asks
    BY <2>2, <2>3
  <2>5. \A j \in Ops : op'[j].waiters + asked <= spent.asks
    BY <1>1, <2>2, <2>4 DEF FreeOp
  <2> QED
    BY <1>1, <2>5 DEF AskedFor
<1>6. PublishedWhole'
  BY <1>1 DEF PublishedWhole
<1> QED
  BY <1>1, <1>3, <1>4, <1>5, <1>6 DEF VirtualInv

-----------------------------------------------------------------------------
(* A wave goes out.                                                         *)

LEMMA WaveIs ==
  ASSUME Types, Core, Live
  PROVE  /\ Slot \in Ops /\ op[Slot].use /\ turn.at \in DOMAIN queue
         /\ From \in Nat /\ Need \in Nat \ {0} /\ Need <= Width /\ From + Need <= Parts
         /\ (From = 0 <=> ~child[Slot].active) /\ From = child[Slot].next
         /\ From = 0 => child[Slot] = NoChild
         /\ Wave = (From + 1)..(From + Need) /\ Wave \subseteq Pieces
<1>1. queue \in Seq(Ops) /\ turn.at \in Nat \ {0} /\ turn.at <= Len(queue) /\ op[Slot].use
  BY FieldsOf DEF Live, Pumping, Types
<1>2. turn.at \in DOMAIN queue /\ Slot \in Ops
  <2>1. Len(queue) \in Nat /\ DOMAIN queue = 1..Len(queue)
    BY <1>1, LenProperties
  <2>2. turn.at \in 1..Len(queue)
    BY <1>1, <2>1
  <2> QED
    BY <1>1, <2>1, <2>2, ElementOfSeq DEF Slot
<1>3. child[Slot].next \in 0..Parts /\ Parts \in Nat
  BY <1>2, FieldsOf, VirtualReadsAssumption DEF ChildType
<1>4. IF child[Slot].active THEN child[Slot].next # 0 ELSE child[Slot] = NoChild
  BY <1>2 DEF Core, Indices
<1>5. /\ From \in Nat /\ From <= Parts /\ (From = 0 <=> ~child[Slot].active) /\ From = child[Slot].next
      /\ From = 0 => child[Slot] = NoChild
  BY <1>3, <1>4 DEF From, NoChild
<1>6. Width \in Int /\ Parts - From \in Int
  BY <1>3, <1>5, WidthIs
<1>7. Need \in {Width, Parts - From} /\ Need <= Width /\ Need <= Parts - From
  BY <1>6, MinOfTwo DEF Need
<1>8. Need > 0
  BY DEF Live
<1>9. Need \in Nat \ {0} /\ From + Need <= Parts
  BY <1>3, <1>5, <1>6, <1>7, <1>8
<1>10. Wave = (From + 1)..(From + Need)
  BY DEF Wave
<1>11. Wave \subseteq Pieces
  BY <1>3, <1>5, <1>9, <1>10 DEF Pieces
<1> QED
  BY <1>1, <1>2, <1>5, <1>7, <1>9, <1>10, <1>11

(* Each part of the wave gets a channel of its own.                         *)
LEMMA ChannelsPicked ==
  ASSUME Types, Core, AtOnceSettled, Live, Room,
         NEW on, on = [p \in Wave |-> Nth(FreeChannels, p - From)]
  PROVE  /\ on \in [Wave -> Channels]
         /\ \A p \in Wave : chan[on[p]].op = 0
         /\ \A p, q \in Wave : on[p] = on[q] => p = q
<1>1. AtOnce = {}
  BY DEF Live, Pumping, At, AtOnceSettled
<1>2. \A c \in FreeChannels : c \in Channels /\ chan[c].op = 0
  <2> SUFFICES ASSUME NEW c \in FreeChannels PROVE c \in Channels /\ chan[c].op = 0
    OBVIOUS
  <2>1. c \in Channels /\ chan[c].io \notin {"ok", "fail", "aborted", "pending", "syncOk"}
    BY DEF FreeChannels, Busy, Ended
  <2>2. chan[c].io # "refused"
    BY <1>1, <2>1 DEF AtOnce
  <2>3. chan[c].io = "idle"
    BY <2>1, <2>2, FieldsOf DEF ChanType
  <2> QED
    BY <2>1, <2>3, ChannelKnows DEF Core
<1>3. FreeChannels \subseteq Nat /\ IsFiniteSet(FreeChannels) /\ Cardinality(FreeChannels) \in Nat
  <2>1. FreeChannels \subseteq Channels
    BY <1>2
  <2>2. Channels \subseteq Nat
    BY VirtualReadsAssumption DEF Channels
  <2> QED
    BY <2>1, <2>2, FiniteSets
<1>4. From \in Nat /\ Need \in Nat \ {0} /\ Wave = (From + 1)..(From + Need)
  BY WaveIs
<1>5. Cardinality(FreeChannels) >= Need
  BY DEF Room
<1>6. ASSUME NEW p \in Wave
      PROVE  on[p] \in FreeChannels /\ Cardinality(Below(FreeChannels, on[p])) = p - From - 1
  <2>1. p - From \in 1..Cardinality(FreeChannels)
    BY <1>3, <1>4, <1>5
  <2>2. on[p] = Nth(FreeChannels, p - From)
    OBVIOUS
  <2> QED
    BY <1>3, <2>1, <2>2, NthIs
<1>7. \A p, q \in Wave : on[p] = on[q] => p = q
  <2> SUFFICES ASSUME NEW p \in Wave, NEW q \in Wave, on[p] = on[q] PROVE p = q
    OBVIOUS
  <2>1. p - From - 1 = q - From - 1
    BY <1>6
  <2>2. p \in Nat /\ q \in Nat
    BY <1>4
  <2> QED
    BY <1>4, <2>1, <2>2
<1> QED
  BY <1>2, <1>6, <1>7

(* Each part that is not aligned gets a staging cell of its own.            *)
LEMMA CellsPicked ==
  ASSUME Types, Core, Live, Room,
         NEW cell, cell = [p \in ToStage |-> Nth(Cells \ busy, Cardinality({y \in ToStage : y <= p}))]
  PROVE  /\ cell \in [ToStage -> Cells] /\ ToStage \subseteq Wave
         /\ \A p \in ToStage : cell[p] \notin busy
         /\ \A p, q \in ToStage : cell[p] = cell[q] => p = q
<1>1. ToStage \subseteq Wave /\ Wave \subseteq Pieces /\ Pieces \subseteq Nat
  BY WaveIs, VirtualReadsAssumption DEF ToStage, Pieces
<1>2. ToStage \subseteq Nat /\ IsFiniteSet(ToStage) /\ \A S \in SUBSET ToStage :
        IsFiniteSet(S) /\ Cardinality(S) \in Nat /\ Cardinality(S) <= Cardinality(ToStage)
  BY <1>1, FiniteSets, FS_Subset
<1>3. (Cells \ busy) \subseteq Nat /\ IsFiniteSet(Cells \ busy) /\ Cardinality(Cells \ busy) \in Nat
  <2>1. (Cells \ busy) \subseteq Cells
    OBVIOUS
  <2>2. Cells \subseteq Nat
    BY VirtualReadsAssumption DEF Cells
  <2> QED
    BY <2>1, <2>2, FiniteSets
<1>4. Cardinality(Cells \ busy) >= Cardinality(ToStage)
  BY DEF Room
<1> DEFINE UpTo(p) == {y \in ToStage : y <= p}
<1>5. \A p \in ToStage : p \in UpTo(p) /\ UpTo(p) \in SUBSET ToStage
  BY <1>2
<1>6. \A p \in ToStage : Cardinality(UpTo(p)) \in 1..Cardinality(Cells \ busy)
  <2> SUFFICES ASSUME NEW p \in ToStage PROVE Cardinality(UpTo(p)) \in 1..Cardinality(Cells \ busy)
    OBVIOUS
  <2>1. IsFiniteSet(UpTo(p)) /\ Cardinality(UpTo(p)) \in Nat /\ Cardinality(UpTo(p)) <= Cardinality(ToStage)
        /\ p \in UpTo(p)
    BY <1>2, <1>5
  <2> HIDE DEF UpTo
  <2>2. Cardinality(UpTo(p)) # 0
    BY <2>1, NoneIsZero
  <2>3. Cardinality(ToStage) \in Nat
    BY <1>2
  <2> QED
    BY <1>3, <1>4, <2>1, <2>2, <2>3
<1>7. ASSUME NEW p \in ToStage
      PROVE  cell[p] \in Cells \ busy /\ Cardinality(Below(Cells \ busy, cell[p])) = Cardinality(UpTo(p)) - 1
  <2>1. cell[p] = Nth(Cells \ busy, Cardinality(UpTo(p)))
    OBVIOUS
  <2> HIDE DEF UpTo
  <2> QED
    BY <1>3, <1>6, <2>1, NthIs
<1>8. \A p, q \in ToStage : cell[p] = cell[q] => ~(p < q)
  <2> SUFFICES ASSUME NEW p \in ToStage, NEW q \in ToStage, cell[p] = cell[q], p < q PROVE FALSE
    OBVIOUS
  <2>0. p \in Nat /\ q \in Nat
    BY <1>2
  <2>1. Cardinality(UpTo(p)) \in Nat /\ Cardinality(UpTo(q)) \in Nat
    BY <1>2, <1>5
  <2>2. Cardinality(UpTo(p)) = Cardinality(UpTo(q))
    <3>1. Cardinality(UpTo(p)) - 1 = Cardinality(UpTo(q)) - 1
      BY <1>7
    <3> HIDE DEF UpTo
    <3> QED
      BY <2>1, <3>1
  <2>3. UpTo(p) \subseteq UpTo(q) \ {q}
    <3> SUFFICES ASSUME NEW y \in ToStage, y <= p PROVE y <= q /\ y # q
      OBVIOUS
    <3>1. y \in Nat
      BY <1>2
    <3> QED
      BY <2>0, <3>1
  <2>4. q \in UpTo(q) /\ IsFiniteSet(UpTo(q))
    BY <1>2, <1>5
  <2> HIDE DEF UpTo
  <2>5. Cardinality(UpTo(q) \ {q}) = Cardinality(UpTo(q)) - 1 /\ IsFiniteSet(UpTo(q) \ {q})
    BY <2>4, OneFewer
  <2>6. Cardinality(UpTo(p)) <= Cardinality(UpTo(q) \ {q})
    BY <2>3, <2>5, FS_Subset
  <2> QED
    BY <2>1, <2>2, <2>5, <2>6
<1>9. \A p, q \in ToStage : cell[p] = cell[q] => p = q
  <2> SUFFICES ASSUME NEW p \in ToStage, NEW q \in ToStage, cell[p] = cell[q] PROVE p = q
    OBVIOUS
  <2>1. ~(p < q) /\ ~(q < p)
    BY <1>8
  <2>2. p \in Nat /\ q \in Nat
    BY <1>2
  <2> QED
    BY <2>1, <2>2
<1>10. cell \in [ToStage -> Cells] /\ \A p \in ToStage : cell[p] \notin busy
  BY <1>7
<1> QED
  BY <1>1, <1>9, <1>10

(* The wave W of read i: its parts, their channels, and the staging cells   *)
(* of those in T.                                                           *)
Numbers(i, from, need) ==
  /\ op[i].use
  /\ from \in Nat /\ need \in Nat \ {0} /\ need <= Width /\ from + need <= Parts
  /\ from = child[i].next /\ (from = 0 <=> ~child[i].active) /\ (from = 0 => child[i] = NoChild)
Allowed(i, from, need) ==
  /\ from > 0 => child[i].remaining + need <= Parallel
  /\ from > 0 /\ op[i].origin = "prefetch" => counts.prefetch + counts.reserved + need <= Limit
Picked(W, on) ==
  /\ on \in [W -> Channels]
  /\ \A p \in W : chan[on[p]].op = 0
  /\ \A p, q \in W : on[p] = on[q] => p = q
CellsOf(T, cell) ==
  /\ cell \in [T -> Cells]
  /\ \A p \in T : cell[p] \notin busy
  /\ \A p, q \in T : cell[p] = cell[q] => p = q
ChanSent(i, W, on, T, cell, io) ==
  chan' = [c \in Channels |->
             IF \E p \in W : on[p] = c
             THEN LET p == CHOOSE p \in W : on[p] = c
                  IN [op |-> i, part |-> p, io |-> io[p], cut |-> FALSE,
                      cell |-> IF p \in T THEN cell[p] ELSE 0]
             ELSE chan[c]]
ChildSent(i, from, need) ==
  child' = [child EXCEPT ![i] = [Opened(i, from) EXCEPT !.remaining = Opened(i, from).remaining + need,
                                                        !.next = from + need]]
RecSent(i, from) == rec' = IF from = 0 THEN [rec EXCEPT ![i].reserved = 0] ELSE rec
CountsSent(i, from, need, T) ==
  counts' = [counts EXCEPT ![op[i].origin] = @ + need,
                           !.copy = @ + Cardinality(T),
                           !.reserved = IF from = 0 THEN Max({0, @ - rec[i].reserved}) ELSE @]

(* What a wave takes.                                                       *)
WaveTakes(i, from, need, W, on, T, cell, io) ==
  /\ i \in Ops /\ from \in Nat /\ need \in Nat \ {0}
  /\ W = (from + 1)..(from + need) /\ W \subseteq Pieces /\ Picked(W, on)
  /\ T \subseteq W /\ CellsOf(T, cell)
  /\ io \in [W -> {"pending", "syncOk", "refused"}]

(* The channels of the wave.                                                *)
LEMMA OnChannels ==
  ASSUME Types, Core, NEW i, NEW from, NEW need, NEW W, NEW on, NEW T, NEW cell, NEW io,
         WaveTakes(i, from, need, W, on, T, cell, io), ChanSent(i, W, on, T, cell, io)
  PROVE  /\ \A p \in W : /\ on[p] \in Channels
                         /\ chan'[on[p]].op = i /\ chan'[on[p]].part = p /\ chan'[on[p]].io # "idle"
                         /\ chan'[on[p]].cell = IF p \in T THEN cell[p] ELSE 0
                         /\ chan[on[p]] = IdleChan /\ chan[on[p]].op = 0 /\ chan[on[p]].io = "idle" /\ chan[on[p]].cell = 0
         /\ \A c \in Channels : (\E p \in W : on[p] = c) \/ chan'[c] = chan[c]
         /\ chan' \in [Channels -> ChanType]
<1>0. i \in Ops /\ W \subseteq Pieces /\ Picked(W, on) /\ CellsOf(T, cell) /\ io \in [W -> {"pending", "syncOk", "refused"}]
  BY DEF WaveTakes
<1>1. chan \in [Channels -> ChanType]
  BY DEF Types, Tables
<1>2. ASSUME NEW p \in W
      PROVE  /\ on[p] \in Channels /\ chan'[on[p]].op = i /\ chan'[on[p]].part = p /\ chan'[on[p]].io = io[p]
             /\ chan'[on[p]].cell = IF p \in T THEN cell[p] ELSE 0
             /\ chan'[on[p]] \in ChanType
  <2>1. on[p] \in Channels /\ \A q \in W : on[q] = on[p] <=> q = p
    BY <1>0 DEF Picked
  <2>2. (CHOOSE q \in W : on[q] = on[p]) = p
    BY <2>1
  <2>3. chan'[on[p]] = [op |-> i, part |-> p, io |-> io[p], cut |-> FALSE,
                        cell |-> IF p \in T THEN cell[p] ELSE 0]
    BY <2>1, <2>2 DEF ChanSent
  <2>4. i \in 0..Pool /\ p \in 0..Parts
    BY <1>0, VirtualReadsAssumption DEF Ops, Pieces
  <2>5. io[p] \in {"idle", "pending", "syncOk", "refused", "ok", "fail", "aborted"}
    <3>1. io[p] \in {"pending", "syncOk", "refused"}
      BY <1>0
    <3> QED
      BY <3>1
  <2>6. (IF p \in T THEN cell[p] ELSE 0) \in 0..Staging
    <3>1. p \in T => cell[p] \in Cells
      BY <1>0 DEF CellsOf
    <3> QED
      BY <3>1, VirtualReadsAssumption DEF Cells
  <2> QED
    BY <2>1, <2>3, <2>4, <2>5, <2>6 DEF ChanType
<1>3. \A c \in Channels : (\E p \in W : on[p] = c) \/ chan'[c] = chan[c]
  BY DEF ChanSent
<1>4. ASSUME NEW p \in W
      PROVE  chan[on[p]] = IdleChan /\ chan[on[p]].op = 0 /\ chan[on[p]].io = "idle" /\ chan[on[p]].cell = 0
  <2>1. chan[on[p]].op = 0 /\ on[p] \in Channels
    BY <1>0 DEF Picked
  <2>2. chan[on[p]] = IdleChan
    BY <2>1 DEF Core, PartsOut
  <2> QED
    BY <2>2 DEF IdleChan
<1>5. chan' \in [Channels -> ChanType]
  <2>1. \A c \in Channels : chan'[c] \in ChanType
    BY <1>1, <1>2, <1>3
  <2>2. chan' = [c \in Channels |-> chan'[c]]
    BY DEF ChanSent
  <2> HIDE DEF ChanType
  <2> QED
    BY ONLY <2>1, <2>2
<1>6. \A p \in W : io[p] # "idle"
  <2> SUFFICES ASSUME NEW p \in W PROVE io[p] # "idle"
    OBVIOUS
  <2>1. io[p] \in {"pending", "syncOk", "refused"}
    BY <1>0
  <2> QED
    BY <2>1
<1> QED
  BY <1>2, <1>3, <1>4, <1>5, <1>6

(* The read it belongs to, and its reservation.                             *)
LEMMA ReadSent ==
  ASSUME Types, Core, NEW i \in Ops, NEW from, NEW need, Numbers(i, from, need), ChildSent(i, from, need), RecSent(i, from)
  PROVE  /\ child'[i].active = TRUE /\ child'[i].next = from + need
         /\ child'[i].remaining = child[i].remaining + need /\ child'[i].copies = child[i].copies
         /\ child'[i].ok = child[i].ok /\ child'[i].cancel = child[i].cancel
         /\ \A j \in Ops : j # i => child'[j] = child[j] /\ rec'[j] = rec[j]
         /\ child' \in [Ops -> ChildType] /\ rec' \in [Ops -> RecType]
         /\ rec'[i].active = rec[i].active /\ rec'[i].reserved = 0
<1>1. child \in [Ops -> ChildType] /\ rec \in [Ops -> RecType] /\ child[i] \in ChildType /\ rec[i] \in RecType
  BY DEF Types, Tables
<1>2. from \in Nat /\ need \in Nat \ {0} /\ from + need <= Parts
      /\ (from = 0 <=> ~child[i].active) /\ (from = 0 => child[i] = NoChild)
  BY DEF Numbers
<1>3. child[i].remaining + need \in Nat /\ from + need \in 0..Parts
  BY <1>1, <1>2, VirtualReadsAssumption DEF ChildType
<1>4. /\ child'[i] \in ChildType /\ child'[i].active = TRUE /\ child'[i].next = from + need
      /\ child'[i].remaining = child[i].remaining + need /\ child'[i].copies = child[i].copies
      /\ child'[i].ok = child[i].ok /\ child'[i].cancel = child[i].cancel
  <2>1. CASE from = 0
    <3>1. child[i] = NoChild
      BY <1>2, <2>1
    <3>2. child'[i] = [[NoChild EXCEPT !.active = TRUE] EXCEPT !.remaining = @ + need, !.next = from + need]
      BY <1>1, <2>1 DEF ChildSent, Opened
    <3>3. child'[i] = [active |-> TRUE, next |-> from + need, remaining |-> 0 + need, copies |-> 0, ok |-> 0,
                       latch |-> FALSE, cancel |-> FALSE, cancelled |-> FALSE]
      BY <3>2 DEF NoChild
    <3>4. 0 + need \in Nat
      BY <1>2
    <3> QED
      BY <1>3, <3>1, <3>3, <3>4 DEF ChildType, NoChild
  <2>2. CASE from # 0
    <3>1. child'[i] = [child[i] EXCEPT !.remaining = child[i].remaining + need, !.next = from + need]
      <4>1. child' = [child EXCEPT ![i] = [child[i] EXCEPT !.remaining = child[i].remaining + need, !.next = from + need]]
        <5>1. Opened(i, from) = child[i]
          BY <2>2 DEF Opened
        <5> QED
          BY <5>1 DEF ChildSent
      <4> QED
        BY <1>1, <4>1
    <3>2. child[i].active = TRUE
      BY <1>1, <1>2, <2>2 DEF ChildType
    <3> QED
      BY <1>1, <1>3, <3>1, <3>2 DEF ChildType
  <2> QED
    BY <2>1, <2>2
<1>5. (\A j \in Ops : j # i => child'[j] = child[j]) /\ child' = [child EXCEPT ![i] = child'[i]]
  BY <1>1 DEF ChildSent
<1>6. child' \in [Ops -> ChildType]
  BY <1>1, <1>4, <1>5
<1>7. /\ rec' \in [Ops -> RecType] /\ rec'[i].active = rec[i].active /\ rec'[i].reserved = 0
      /\ \A j \in Ops : j # i => rec'[j] = rec[j]
  <2>1. from # 0 => rec[i].reserved = 0
    BY <1>2 DEF Core, Records
  <2>2. CASE from = 0
    <3>1. rec' = [rec EXCEPT ![i] = [rec[i] EXCEPT !.reserved = 0]]
      BY <1>1, <2>2 DEF RecSent
    <3>2. [rec[i] EXCEPT !.reserved = 0] \in RecType /\ [rec[i] EXCEPT !.reserved = 0].active = rec[i].active
          /\ [rec[i] EXCEPT !.reserved = 0].reserved = 0
      BY <1>1 DEF RecType
    <3> QED
      BY <1>1, <3>1, <3>2
  <2>3. CASE from # 0
    BY <1>1, <2>1, <2>3 DEF RecSent
  <2> QED
    BY <2>2, <2>3
<1> QED
  BY <1>4, <1>5, <1>6, <1>7

LEMMA TwoSets ==
  ASSUME NEW A, NEW B, IsFiniteSet(A), IsFiniteSet(B), A \cap B = {}
  PROVE  Cardinality(A \cup B) = Cardinality(A) + Cardinality(B)
<1>1. Cardinality(A \cup B) = Cardinality(A) + Cardinality(B) - Cardinality(A \cap B)
  BY FS_Union
<1>2. Cardinality(A \cap B) = 0 /\ Cardinality(A) \in Nat /\ Cardinality(B) \in Nat
  BY FS_EmptySet, FS_CardinalityType
<1> QED
  BY <1>1, <1>2

(* How many channels and cells it takes.                                    *)
Images(f, S) == {f[x] : x \in S}
LEMMA ImageCount ==
  ASSUME NEW S, NEW R, NEW f, \A x \in S : f[x] \in R, IsFiniteSet(R), \A x, y \in S : f[x] = f[y] => x = y
  PROVE  IsFiniteSet(Images(f, S)) /\ Cardinality(Images(f, S)) = Cardinality(S) /\ Images(f, S) \subseteq R
<1> DEFINE g == [x \in S |-> f[x]]
<1>1. Images(f, S) \subseteq R /\ \A t \in Images(f, S) : \E x \in S : g[x] = t
  BY DEF Images
<1>2. g \in [S -> Images(f, S)]
  BY DEF Images
<1>3. \A x, y \in S : g[x] = g[y] => x = y
  OBVIOUS
<1>4. IsFiniteSet(Images(f, S))
  BY <1>1, FS_Subset
<1> HIDE DEF g
<1> QED
  BY <1>1, <1>2, <1>3, <1>4, SameCount

LEMMA WaveCount ==
  ASSUME Types, Core, NEW i, NEW from, NEW need, NEW W, NEW on, NEW T, NEW cell, NEW io,
         WaveTakes(i, from, need, W, on, T, cell, io)
  PROVE  /\ Cardinality(Images(on, W)) = need /\ IsFiniteSet(Images(on, W)) /\ Images(on, W) \subseteq Channels
         /\ Cardinality(Images(on, T)) = Cardinality(T) /\ IsFiniteSet(Images(on, T))
         /\ Cardinality(Images(cell, T)) = Cardinality(T) /\ IsFiniteSet(Images(cell, T))
         /\ Images(cell, T) \subseteq Cells /\ Images(cell, T) \cap busy = {}
         /\ Cardinality(T) \in Nat
<1>0. /\ from \in Nat /\ need \in Nat \ {0} /\ W = (from + 1)..(from + need)
      /\ W \subseteq Pieces /\ Picked(W, on) /\ T \subseteq W /\ CellsOf(T, cell)
  BY DEF WaveTakes
<1>1. Cardinality(W) = need
  <2>1. from + 1 \in Int /\ from + need \in Int /\ ~(from + 1 > from + need) /\ from + need - (from + 1) + 1 = need
    BY <1>0
  <2>2. \A a, b \in Int : Cardinality(a..b) = IF a > b THEN 0 ELSE b - a + 1
    BY ONLY FS_Interval
  <2> QED
    BY <1>0, <2>1, <2>2
<1>2. T \subseteq Pieces /\ IsFiniteSet(Channels) /\ IsFiniteSet(Cells)
  BY <1>0, FiniteSets
<1>3. Cardinality(T) \in Nat
  BY <1>2, FiniteSets
<1>4. (\A p \in W : on[p] \in Channels) /\ \A p, q \in W : on[p] = on[q] => p = q
  BY <1>0 DEF Picked
<1>5. (\A p \in T : cell[p] \in Cells) /\ \A p, q \in T : cell[p] = cell[q] => p = q
  BY <1>0 DEF CellsOf
<1>6. Cardinality(Images(on, W)) = need /\ IsFiniteSet(Images(on, W)) /\ Images(on, W) \subseteq Channels
  BY <1>1, <1>2, <1>4, ImageCount
<1>7. Cardinality(Images(on, T)) = Cardinality(T) /\ IsFiniteSet(Images(on, T))
  <2>1. (\A p \in T : on[p] \in Channels) /\ \A p, q \in T : on[p] = on[q] => p = q
    BY <1>0, <1>4
  <2> QED
    BY ONLY <1>2, <2>1, ImageCount
<1>8. Cardinality(Images(cell, T)) = Cardinality(T) /\ IsFiniteSet(Images(cell, T)) /\ Images(cell, T) \subseteq Cells
  BY <1>2, <1>5, ImageCount
<1>9. Images(cell, T) \cap busy = {}
  BY <1>0 DEF Images, CellsOf
<1> QED
  BY <1>3, <1>6, <1>7, <1>8, <1>9

(* The reservation becomes parts in flight.                                 *)
LEMMA ReservationSent ==
  ASSUME Types, Core, NEW i \in Ops, NEW from, NEW need, Numbers(i, from, need), ChildSent(i, from, need), RecSent(i, from)
  PROVE  \E r \in Nat :
           /\ r = IF from = 0 THEN Max({0, counts.reserved - rec[i].reserved}) ELSE counts.reserved
           /\ r = IF from = 0 /\ rec[i].active THEN counts.reserved - Width ELSE counts.reserved
           /\ r = Width * Cardinality(Reserving')
<1>1. /\ rec'[i].reserved = 0 /\ \A j \in Ops : j # i => rec'[j] = rec[j]
      /\ counts.reserved \in Nat
  BY ReadSent, FieldsOf
<1>2. (from = 0 <=> ~child[i].active)
  BY DEF Numbers
<1>3. rec[i].reserved = IF rec[i].active /\ from = 0 THEN Width ELSE 0
  BY <1>2 DEF Core, Records
<1>4. Reserving' = Reserving \ {i}
  BY <1>1 DEF Reserving
<1>5. counts.reserved = Width * Cardinality(Reserving) /\ IsFiniteSet(Reserving)
  BY GuessedIs, FiniteSets DEF Reserving, Core
<1>6. CASE from = 0 /\ rec[i].active
  <2>1. i \in Reserving
    BY <1>3, <1>6, WidthIs DEF Reserving
  <2>2. Cardinality(Reserving \ {i}) = Cardinality(Reserving) - 1 /\ Cardinality(Reserving) \in Nat \ {0}
    BY <1>5, <2>1, OneFewer
  <2>3. PICK n \in Nat : n = Cardinality(Reserving) - 1 /\ Cardinality(Reserving) = n + 1
    BY <2>2
  <2>4. PICK m \in Nat : m = Width * n
    BY WidthIs
  <2>5. Width * (n + 1) = Width * n + Width /\ Width \in Nat
    BY WidthIs, OneTimeMore
  <2>6. counts.reserved = m + Width /\ m = Width * Cardinality(Reserving')
    BY <1>4, <1>5, <2>2, <2>3, <2>4, <2>5
  <2>7. Max({0, counts.reserved - rec[i].reserved}) = m
    <3>1. counts.reserved - rec[i].reserved = m
      BY <1>3, <1>6, <2>4, <2>5, <2>6
    <3>2. Max({0, m}) = m
      BY <2>4 DEF Max
    <3> QED
      BY <3>1, <3>2
  <2>8. counts.reserved - Width = m
    BY <2>5, <2>6
  <2> QED
    BY <1>6, <2>6, <2>7, <2>8
<1>7. CASE ~(from = 0 /\ rec[i].active)
  <2>1. rec[i].reserved = 0 /\ i \notin Reserving
    BY <1>3, <1>7 DEF Reserving
  <2>2. Reserving' = Reserving
    BY <1>4, <2>1
  <2>3. counts.reserved - rec[i].reserved = counts.reserved
    BY <1>1, <2>1
  <2>4. Max({0, counts.reserved}) = counts.reserved
    BY <1>1 DEF Max
  <2> QED
    BY <1>1, <1>5, <1>7, <2>2, <2>3, <2>4
<1> QED
  BY <1>6, <1>7

(* The gauges.                                                              *)
LEMMA GaugesSent ==
  ASSUME Types, Core, NEW i \in Ops, NEW from, NEW need \in Nat \ {0}, Numbers(i, from, need),
         NEW T, Cardinality(T) \in Nat, CountsSent(i, from, need, T),
         NEW r \in Nat, r = IF from = 0 THEN Max({0, counts.reserved - rec[i].reserved}) ELSE counts.reserved
  PROVE  /\ counts' \in CountsType
         /\ counts'.demand = IF op[i].origin = "demand" THEN counts.demand + need ELSE counts.demand
         /\ counts'.prefetch = IF op[i].origin = "prefetch" THEN counts.prefetch + need ELSE counts.prefetch
         /\ counts'.copy = counts.copy + Cardinality(T)
         /\ counts'.reserved = r /\ counts'.active = counts.active
<1>0. counts \in CountsType /\ op[i].origin \in {"demand", "prefetch"}
  BY FieldsOf DEF Types, Tables, OpType
<1>1. counts.copy + Cardinality(T) \in Nat /\ counts.demand + need \in Nat /\ counts.prefetch + need \in Nat
  BY FieldsOf
<1>2. CASE op[i].origin = "demand"
  <2>1. counts' = [counts EXCEPT !.demand = counts.demand + need, !.copy = counts.copy + Cardinality(T), !.reserved = r]
    BY <1>0, <1>2 DEF CountsSent, CountsType
  <2> QED
    BY <1>0, <1>1, <1>2, <2>1 DEF CountsType
<1>3. CASE op[i].origin = "prefetch"
  <2>1. counts' = [counts EXCEPT !.prefetch = counts.prefetch + need, !.copy = counts.copy + Cardinality(T), !.reserved = r]
    BY <1>0, <1>3 DEF CountsSent, CountsType
  <2> QED
    BY <1>0, <1>1, <1>3, <2>1 DEF CountsType
<1> QED
  BY <1>0, <1>2, <1>3

(* What was in flight stays so, and the wave comes to it.                   *)
LEMMA SendKeeps ==
  ASSUME Types, Core, NEW i, NEW from, NEW need, NEW W, NEW on, NEW T, NEW cell, NEW io,
         WaveTakes(i, from, need, W, on, T, cell, io),
         Numbers(i, from, need), Allowed(i, from, need),
         ChanSent(i, W, on, T, cell, io), busy' = busy \cup Images(cell, T),
         ChildSent(i, from, need), RecSent(i, from), CountsSent(i, from, need, T),
         UNCHANGED <<closing, op, free, copies, landed, fate>>, closing = 0
  PROVE  Tables' /\ Core'
<1>3. /\ \A p \in W : /\ on[p] \in Channels
                      /\ chan'[on[p]].op = i /\ chan'[on[p]].part = p /\ chan'[on[p]].io # "idle"
                      /\ chan'[on[p]].cell = IF p \in T THEN cell[p] ELSE 0
                      /\ chan[on[p]] = IdleChan /\ chan[on[p]].op = 0 /\ chan[on[p]].io = "idle" /\ chan[on[p]].cell = 0
      /\ \A c \in Channels : (\E p \in W : on[p] = c) \/ chan'[c] = chan[c]
      /\ chan' \in [Channels -> ChanType]
  BY OnChannels
<1>5. /\ Cardinality(Images(on, W)) = need /\ IsFiniteSet(Images(on, W)) /\ Images(on, W) \subseteq Channels
      /\ Cardinality(Images(on, T)) = Cardinality(T) /\ IsFiniteSet(Images(on, T))
      /\ Cardinality(Images(cell, T)) = Cardinality(T) /\ IsFiniteSet(Images(cell, T))
      /\ Images(cell, T) \subseteq Cells /\ Images(cell, T) \cap busy = {} /\ Cardinality(T) \in Nat
  BY WaveCount
<1>0. /\ i \in Ops /\ from \in Nat /\ need \in Nat \ {0} /\ W = (from + 1)..(from + need) /\ W \subseteq Pieces
      /\ Picked(W, on) /\ T \subseteq W /\ CellsOf(T, cell)
  BY DEF WaveTakes
<1> USE <1>0 DEF Core
<1>1. /\ op[i].use /\ need <= Width /\ from + need <= Parts /\ from = child[i].next
      /\ (from = 0 <=> ~child[i].active) /\ (from = 0 => child[i] = NoChild) /\ fate[i] = "none"
      /\ landed[i] \subseteq 1..from /\ op[i].origin \in {"demand", "prefetch"}
  BY FieldsOf DEF Numbers, Indices, OpType
<1>2. /\ \A p \in W : p \in Nat /\ p > from /\ p <= from + need
      /\ 0 \notin Ops /\ 0 \notin Cells
  BY DEF Ops, Cells
<1>4. /\ child'[i].active = TRUE /\ child'[i].next = from + need
      /\ child'[i].remaining = child[i].remaining + need /\ child'[i].copies = child[i].copies
      /\ child'[i].ok = child[i].ok /\ child'[i].cancel = child[i].cancel
      /\ \A j \in Ops : j # i => child'[j] = child[j] /\ rec'[j] = rec[j]
      /\ child' \in [Ops -> ChildType] /\ rec' \in [Ops -> RecType]
      /\ rec'[i].active = rec[i].active /\ rec'[i].reserved = 0
  BY ReadSent
<1> DEFINE Sent == Images(on, W)
           Staged == Images(on, T)
           Given == Images(cell, T)
<1>6. PICK r \in Nat :
           /\ r = IF from = 0 THEN Max({0, counts.reserved - rec[i].reserved}) ELSE counts.reserved
           /\ r = IF from = 0 /\ rec[i].active THEN counts.reserved - Width ELSE counts.reserved
           /\ r = Width * Cardinality(Reserving')
  BY ReservationSent
<1>7. /\ counts' \in CountsType
      /\ counts'.demand = IF op[i].origin = "demand" THEN counts.demand + need ELSE counts.demand
      /\ counts'.prefetch = IF op[i].origin = "prefetch" THEN counts.prefetch + need ELSE counts.prefetch
      /\ counts'.copy = counts.copy + Cardinality(T)
      /\ counts'.reserved = r /\ counts'.active = counts.active
  BY <1>5, <1>6, GaugesSent
<1>8. Tables'
  <2>1. busy' \subseteq Cells
    BY <1>5 DEF Types, Tables
  <2> QED
    BY <1>3, <1>4, <1>7, <2>1 DEF Types, Tables
<1>9. /\ \A p \in W : on[p] \in Sent /\ (on[p] \in Staged <=> p \in T)
      /\ \A c \in Sent : \E p \in W : c = on[p]
      /\ \A c \in Staged : \E p \in T : c = on[p]
      /\ \A p \in T : p \in W /\ cell[p] \in Given /\ cell[p] \in Cells /\ cell[p] \notin busy
      /\ \A k \in Given : \E p \in T : k = cell[p]
      /\ \A p, q \in W : on[p] = on[q] => p = q
      /\ \A p, q \in T : cell[p] = cell[q] => p = q
  BY DEF Images, Picked, CellsOf
<1>5a. /\ Cardinality(Sent) = need /\ IsFiniteSet(Sent) /\ Sent \subseteq Channels
       /\ Cardinality(Staged) = Cardinality(T) /\ IsFiniteSet(Staged)
       /\ Cardinality(Given) = Cardinality(T) /\ IsFiniteSet(Given)
       /\ Given \subseteq Cells /\ Given \cap busy = {} /\ Cardinality(T) \in Nat
  BY <1>5
<1> HIDE DEF Sent, Staged, Given
<1>10. /\ \A c \in Channels : c \notin Sent => chan'[c] = chan[c]
       /\ \A c \in Sent : /\ chan'[c].op = i /\ chan'[c].part \in W /\ c = on[chan'[c].part] /\ chan'[c].io # "idle"
                          /\ chan'[c].cell = IF c \in Staged THEN cell[chan'[c].part] ELSE 0
                          /\ c \in Staged <=> chan'[c].part \in T
                          /\ chan[c].op = 0 /\ chan[c].io = "idle" /\ chan[c].cell = 0
                          /\ c \in Channels
  <2>1. \A c \in Channels : c \notin Sent => chan'[c] = chan[c]
    BY <1>3, <1>9
  <2>2. ASSUME NEW c \in Sent
        PROVE  /\ chan'[c].op = i /\ chan'[c].part \in W /\ c = on[chan'[c].part] /\ chan'[c].io # "idle"
               /\ chan'[c].cell = IF c \in Staged THEN cell[chan'[c].part] ELSE 0
               /\ c \in Staged <=> chan'[c].part \in T
               /\ chan[c].op = 0 /\ chan[c].io = "idle" /\ chan[c].cell = 0
               /\ c \in Channels
    <3>1. PICK p \in W : c = on[p]
      BY <1>9
    <3>2. chan'[c].part = p
      BY <1>3, <3>1
    <3> QED
      BY <1>3, <1>9, <3>1, <3>2
  <2> QED
    BY <2>1, <2>2
<1>11. Ring' = Ring /\ \A j : Copied(j)' = Copied(j)
  BY DEF Ring, Copied
(* The counts of the sets.                                                  *)
<1>12. Cardinality(busy') = Cardinality(busy) + Cardinality(T)
  <2>1. busy' = busy \cup Given /\ busy \cap Given = {}
    BY <1>5 DEF Given
  <2> QED
    BY <1>5a, <2>1, TwoSets, SomeFinite
<1>13. Under(i)' = Under(i) \cup Sent /\ Under(i) \cap Sent = {} /\ \A j : j # i /\ j # 0 => Under(j)' = Under(j)
  BY <1>2, <1>10 DEF Under
<1>14. Cardinality(Under(i)') = Cardinality(Under(i)) + need
  BY <1>5a, <1>13, TwoSets, SomeFinite
<1>15. /\ HeldBy(op[i].origin)' = HeldBy(op[i].origin) \cup Sent /\ HeldBy(op[i].origin) \cap Sent = {}
       /\ \A o : o # op[i].origin => HeldBy(o)' = HeldBy(o)
  BY <1>10 DEF HeldBy, Held
<1>16. Cardinality(HeldBy(op[i].origin)') = Cardinality(HeldBy(op[i].origin)) + need
  BY <1>5a, <1>15, TwoSets, SomeFinite
<1>17. Cardinality(StagedReads') = Cardinality(StagedReads) + Cardinality(T)
  <2>1. \A c \in Sent : chan'[c].cell # 0 <=> c \in Staged
    BY <1>2, <1>9, <1>10
  <2>2. Staged \subseteq Sent /\ StagedReads \cap Staged = {}
    <3>1. Staged \subseteq Sent
      BY <1>9
    <3> QED
      BY <3>1, <1>10 DEF StagedReads
  <2>3. StagedReads' = StagedReads \cup Staged
    BY <1>10, <2>1, <2>2 DEF StagedReads, Held
  <2> QED
    BY <1>5a, <2>2, <2>3, TwoSets, SomeFinite
(* The parts.                                                               *)
<1>18. PartsOut'
  <2>1. \A j \in Ops : \A q : OutOf(j, q) => OutOf(j, q)'
    <3>1. \A q : q \in 1..from => q \in 1..(from + need)
      OBVIOUS
    <3> QED
      BY <1>1, <1>4, <3>1 DEF OutOf
  <2>2. \A p \in W : OutOf(i, p)'
    <3>1. \A p \in W : p \in 1..(from + need) /\ p \notin landed[i]
      BY <1>1, <1>2
    <3> QED
      BY <1>1, <1>4, <3>1 DEF OutOf
  <2>3. ASSUME NEW c \in Channels
        PROVE  IF chan'[c].op = 0 THEN chan'[c] = IdleChan
               ELSE chan'[c].io # "idle" /\ OutOf(chan[c].op, chan[c].part)'
    <3>1. CASE c \in Sent
      <4>1. chan'[c].op = i /\ chan'[c].part \in W /\ chan'[c].io # "idle"
        BY <1>10, <3>1
      <4>2. op'[i].use /\ child'[i].active /\ chan'[c].part \in 1..child'[i].next /\ chan'[c].part \notin landed'[i]
        BY <2>2, <4>1 DEF OutOf
      <4> QED
        BY <1>2, <4>1, <4>2 DEF OutOf
    <3>2. CASE c \notin Sent /\ chan[c].op = 0
      BY <1>10, <3>2 DEF PartsOut
    <3>3. CASE c \notin Sent /\ chan[c].op # 0
      <4>1. chan[c].op \in Ops /\ OutOf(chan[c].op, chan[c].part) /\ chan[c].io # "idle" /\ chan'[c] = chan[c]
        BY <1>10, <3>3, ChannelKnows DEF PartsOut
      <4>2. \A j \in Ops : \A q : OutOf(j, q) =>
              op'[j].use /\ child'[j].active /\ q \in 1..child'[j].next /\ q \notin landed'[j]
        BY <2>1 DEF OutOf
      <4>3. op'[chan[c].op].use /\ child'[chan[c].op].active /\ chan[c].part \in 1..child'[chan[c].op].next
            /\ chan[c].part \notin landed'[chan[c].op]
        BY <4>1, <4>2
      <4> QED
        BY <3>3, <4>1, <4>3 DEF OutOf
    <3> QED
      BY <3>1, <3>2, <3>3
  <2>4. ASSUME NEW x \in Ring PROVE OutOf(x.op, x.part)'
    BY <2>1, RingKnows DEF PartsOut
  <2> QED
    BY <1>11, <2>3, <2>4 DEF PartsOut, OutOf
<1>19. \A c \in Channels : chan[c].op = i => chan[c].part \in Nat /\ chan[c].part <= from
  <2> SUFFICES ASSUME NEW c \in Channels, chan[c].op = i PROVE chan[c].part \in Nat /\ chan[c].part <= from
    OBVIOUS
  <2>1. chan[c].part \in 1..child[i].next
    BY <1>2 DEF PartsOut, OutOf
  <2> QED
    BY <1>1, <2>1
<1>20. \A x \in Ring : x.op = i => x.part \in Nat /\ x.part <= from
  <2> SUFFICES ASSUME NEW x \in Ring, x.op = i PROVE x.part \in Nat /\ x.part <= from
    OBVIOUS
  <2>1. x.part \in 1..child[i].next
    BY DEF PartsOut, OutOf
  <2> QED
    BY <1>1, <2>1
<1>21. PartsApart'
  <2>1. ASSUME NEW c \in Channels, NEW d \in Channels, chan'[c].op # 0, chan'[c].op = chan'[d].op,
               chan'[c].part = chan'[d].part
        PROVE  c = d
    <3>1. CASE c \in Sent /\ d \in Sent
      BY <1>10, <2>1, <3>1
    <3>2. CASE c \in Sent /\ d \notin Sent
      BY <1>2, <1>10, <1>19, <2>1, <3>2
    <3>3. CASE c \notin Sent /\ d \in Sent
      BY <1>2, <1>10, <1>19, <2>1, <3>3
    <3>4. CASE c \notin Sent /\ d \notin Sent
      BY <1>10, <2>1, <3>4 DEF PartsApart
    <3> QED
      BY <3>1, <3>2, <3>3, <3>4
  <2>2. ASSUME NEW c \in Channels, NEW x \in Ring PROVE ~(chan'[c].op = x.op /\ chan'[c].part = x.part)
    <3>1. CASE c \in Sent
      BY <1>2, <1>10, <1>20, <3>1
    <3>2. CASE c \notin Sent
      BY <1>10, <3>2 DEF PartsApart
    <3> QED
      BY <3>1, <3>2
  <2> QED
    BY <1>11, <2>1, <2>2 DEF PartsApart
<1>22. CellsApart'
  <2>0. /\ \A c \in Channels : chan[c].cell # 0 => chan[c].cell \in busy
        /\ \A x \in Ring : x.cell \in busy /\ x.cell \in Cells
        /\ \A c \in Sent : chan'[c].cell # 0 <=> c \in Staged
        /\ \A c \in Sent : c \in Staged => chan'[c].cell = cell[chan'[c].part] /\ chan'[c].part \in T
                                           /\ chan'[c].cell \notin busy
    <3>1. ASSUME NEW c \in Channels, chan[c].cell # 0 PROVE chan[c].cell \in busy
      <4>1. chan[c].cell \in Cells
        BY <3>1, FieldsOf DEF ChanType, Cells
      <4> QED
        BY <4>1 DEF CellsApart
    <3>2. \A x \in Ring : x.cell \in busy /\ x.cell \in Cells
      BY RingKnows DEF CellsApart
    <3>3. \A c \in Sent : (chan'[c].cell # 0 <=> c \in Staged)
        /\ (c \in Staged => chan'[c].cell = cell[chan'[c].part] /\ chan'[c].part \in T /\ chan'[c].cell \notin busy)
      BY <1>2, <1>9, <1>10
    <3> QED
      BY <3>1, <3>2, <3>3
  <2>1. ASSUME NEW c \in Channels, NEW d \in Channels, chan'[c].cell # 0, chan'[c].cell = chan'[d].cell
        PROVE  c = d
    <3>1. CASE c \in Sent /\ d \in Sent
      <4>1. chan'[c].part \in T /\ chan'[d].part \in T /\ cell[chan'[c].part] = cell[chan'[d].part]
        BY <2>0, <2>1, <3>1
      <4>2. chan'[c].part = chan'[d].part
        BY <1>9, <4>1
      <4> QED
        BY <1>10, <3>1, <4>2
    <3>2. CASE c \in Sent /\ d \notin Sent
      BY <1>10, <2>0, <2>1, <3>2
    <3>3. CASE c \notin Sent /\ d \in Sent
      BY <1>10, <2>0, <2>1, <3>3
    <3>4. CASE c \notin Sent /\ d \notin Sent
      BY <1>10, <2>1, <3>4 DEF CellsApart
    <3> QED
      BY <3>1, <3>2, <3>3, <3>4
  <2>2. ASSUME NEW c \in Channels, NEW x \in Ring PROVE chan'[c].cell # x.cell
    <3>1. CASE c \in Sent
      BY <1>2, <2>0, <3>1
    <3>2. CASE c \notin Sent
      BY <1>10, <3>2 DEF CellsApart
    <3> QED
      BY <3>1, <3>2
  <2>3. ASSUME NEW m \in Cells
        PROVE  m \in busy' <=> (\E c \in Channels : chan'[c].cell = m) \/ (\E x \in Ring : x.cell = m)
    <3>0. m # 0 /\ (m \in busy <=> (\E c \in Channels : chan[c].cell = m) \/ (\E x \in Ring : x.cell = m))
      BY <1>2 DEF CellsApart
    <3>1. busy' = busy \cup Given
      BY DEF Given
    <3>2. \A c \in Channels : chan[c].cell = m => chan'[c].cell = m
      BY <1>10, <3>0
    <3>3. m \in Given => \E c \in Channels : chan'[c].cell = m
      <4> SUFFICES ASSUME m \in Given PROVE \E c \in Channels : chan'[c].cell = m
        OBVIOUS
      <4>1. PICK p \in T : m = cell[p] /\ p \in W
        BY <1>9
      <4> QED
        BY <1>3, <4>1
    <3>4. \A c \in Channels : chan'[c].cell = m => chan[c].cell = m \/ m \in Given
      <4> SUFFICES ASSUME NEW c \in Channels, chan'[c].cell = m PROVE chan[c].cell = m \/ m \in Given
        OBVIOUS
      <4>1. CASE c \in Sent
        <5>1. c \in Staged
          BY <2>0, <3>0, <4>1
        <5>2. chan'[c].part \in T /\ m = cell[chan'[c].part]
          BY <2>0, <4>1, <5>1
        <5>3. cell[chan'[c].part] \in Given
          BY <1>9, <5>2
        <5> QED
          BY <5>2, <5>3
      <4>2. CASE c \notin Sent
        BY <1>10, <4>2
      <4> QED
        BY <4>1, <4>2
    <3> QED
      BY <3>0, <3>1, <3>2, <3>3, <3>4
  <2> QED
    BY <1>11, <2>1, <2>2, <2>3 DEF CellsApart
(* The tables of the read.                                                  *)
<1>23. Tallies'
  <2>1. ASSUME NEW j \in Ops, j # i
        PROVE  /\ child'[j].remaining = Cardinality(Under(j)') /\ child'[j].copies = Cardinality(Copied(j)')
               /\ child'[j].ok + child'[j].remaining + child'[j].copies <= child'[j].next
               /\ op'[j].use => child'[j].cancel \/ child'[j].ok = Cardinality(landed'[j])
    <3>1. j # 0
      BY <1>2
    <3> QED
      BY <1>4, <1>11, <1>13, <2>1, <3>1 DEF Tallies
  <2>2. child'[i].remaining = Cardinality(Under(i)') /\ child'[i].copies = Cardinality(Copied(i)')
    BY <1>4, <1>11, <1>14 DEF Tallies
  <2>3. child'[i].ok + child'[i].remaining + child'[i].copies <= child'[i].next
    <3>1. child[i].ok \in Nat /\ child[i].copies \in Nat /\ child[i].remaining \in Nat
      BY FieldsOf DEF ChildType
    <3>2. child[i].ok + child[i].remaining + child[i].copies <= from
      BY <1>1 DEF Tallies
    <3>3. \A o, c, m, f, n \in Nat : o + c + m <= f => o + (c + n) + m <= f + n
      OBVIOUS
    <3>4. /\ child'[i].ok = child[i].ok /\ child'[i].remaining = child[i].remaining + need
          /\ child'[i].copies = child[i].copies /\ child'[i].next = from + need
          /\ from \in Nat /\ need \in Nat
      BY <1>0, <1>4
    <3> QED
      BY ONLY <3>1, <3>2, <3>3, <3>4
  <2>4. child'[i].cancel \/ child'[i].ok = Cardinality(landed'[i])
    BY <1>1, <1>4 DEF Tallies
  <2> QED
    BY <2>1, <2>2, <2>3, <2>4 DEF Tallies
<1>24. Indices'
  <2>1. \A j \in Ops : ~op'[j].use => op'[j] = FreeOp /\ child'[j] = NoChild /\ rec'[j] = NoRec
    BY <1>1, <1>4 DEF Indices
  <2>2. \A j \in Ops : op'[j].use => fate'[j] = "none" /\ landed'[j] \subseteq 1..child'[j].next
    <3>1. landed'[i] \subseteq 1..child'[i].next
      BY <1>1, <1>4
    <3> QED
      BY <1>4, <3>1 DEF Indices
  <2>3. \A j \in Ops : IF child'[j].active THEN child'[j].next # 0 ELSE child'[j] = NoChild
    <3>1. child'[i].active /\ child'[i].next # 0
      BY <1>4
    <3>2. \A j \in Ops : j # i => IF child'[j].active THEN child'[j].next # 0 ELSE child'[j] = NoChild
      BY <1>4 DEF Indices
    <3> QED
      BY <3>1, <3>2
  <2>4. /\ \A n \in DOMAIN free' : ~op'[free'[n]].use
        /\ \A m, n \in DOMAIN free' : free'[m] = free'[n] => m = n
    BY DEF Indices
  <2> QED
    BY <2>1, <2>2, <2>3, <2>4 DEF Indices
<1>25. Records'
  <2>1. child'[i].remaining <= Parallel
    <3>1. CASE from = 0
      <4>1. child'[i].remaining = need
        BY <1>1, <1>4, <3>1 DEF NoChild
      <4> QED
        BY <1>1, <4>1, WidthIs, VirtualReadsAssumption
    <3>2. CASE from # 0
      BY <1>4, <3>2 DEF Allowed
    <3> QED
      BY <3>1, <3>2
  <2>2. \A j \in Ops : j # i => child'[j].active = child[j].active /\ child'[j].remaining = child[j].remaining
    BY <1>4
  <2>3. \A j \in Ops : rec'[j].active = rec[j].active
    BY <1>4
  <2> QED
    BY <1>4, <2>1, <2>2, <2>3 DEF Records
<1>26. Gauged'
  <2>1. counts'.demand = Cardinality(HeldBy("demand")') /\ counts'.prefetch = Cardinality(HeldBy("prefetch")')
    BY <1>1, <1>7, <1>15, <1>16 DEF Gauged
  <2>2. counts'.copy = Cardinality(busy')
    BY <1>7, <1>12 DEF Gauged
  <2>3. Cardinality(busy') = Cardinality(StagedReads') + Len(copies')
    <3>1. Cardinality(busy) = Cardinality(StagedReads) + Len(copies)
      BY DEF Gauged
    <3>2. Cardinality(busy) \in Nat /\ Cardinality(StagedReads) \in Nat /\ Len(copies) \in Nat
      BY SomeFinite, LenProperties DEF Types, Tables
    <3> QED
      BY <1>5, <1>12, <1>17, <3>1, <3>2
  <2> QED
    BY <2>1, <2>2, <2>3 DEF Gauged
<1>27. Guessed'
  <2>1. Guessing' = Guessing
    BY <1>4 DEF Guessing
  <2>2. counts'.prefetch + counts'.reserved <= Budget
    <3>1. counts.prefetch + counts.reserved <= Budget /\ Budget \in Nat /\ Limit <= Budget /\ Limit \in Int /\ Width \in Nat
          /\ counts.prefetch \in Nat /\ counts.reserved \in Nat
      BY FieldsOf, LimitIs, WidthIs DEF Guessed
    <3>2. rec[i].active <=> op[i].origin = "prefetch"
      BY <1>1 DEF Records
    <3>3. CASE op[i].origin = "prefetch" /\ from = 0
      <4>1. r = counts.reserved - Width
        BY <1>6, <3>2, <3>3
      <4>2. counts'.prefetch = counts.prefetch + need /\ counts'.reserved = r /\ need <= Width
        BY <1>1, <1>7, <3>3
      <4> QED
        BY <3>1, <4>1, <4>2
    <3>4. CASE op[i].origin = "prefetch" /\ from # 0
      BY <1>6, <1>7, <3>1, <3>4 DEF Allowed
    <3>5. CASE op[i].origin = "demand"
      BY <1>6, <1>7, <3>1, <3>2, <3>5
    <3> QED
      BY <1>1, <3>3, <3>4, <3>5
  <2> QED
    BY <1>6, <1>7, <2>1, <2>2, GuessedIs
<1> QED
  BY <1>8, <1>18, <1>21, <1>22, <1>23, <1>24, <1>25, <1>26, <1>27

(* A wave goes out.                                                         *)
LEMMA IssueStep == ASSUME Alright, Issue PROVE Alright'
<1> USE Told
<1> DEFINE i    == Slot
           on   == [p \in Wave |-> Nth(FreeChannels, p - From)]
           cell == [p \in ToStage |-> Nth(Cells \ busy, Cardinality({y \in ToStage : y <= p}))]
<1>1. PICK io \in [Wave -> {"pending", "syncOk", "refused"}] :
        LET faults == Cardinality({p \in Wave : io[p] = "refused"})
        IN /\ spent.faults + faults <= MaxFaults
           /\ spent' = [spent EXCEPT !.faults = @ + faults]
           /\ chan' = [c \in Channels |->
                IF \E p \in Wave : on[p] = c
                THEN LET p == CHOOSE p \in Wave : on[p] = c
                     IN [op |-> i, part |-> p, io |-> io[p], cut |-> FALSE,
                         cell |-> IF p \in ToStage THEN cell[p] ELSE 0]
                ELSE chan[c]]
           /\ busy' = busy \cup {cell[p] : p \in ToStage}
           /\ child' = [child EXCEPT ![i] =
                [Opened(i, From) EXCEPT !.remaining = @ + Need, !.next = From + Need]]
           /\ rec' = IF From = 0 THEN [rec EXCEPT ![i].reserved = 0] ELSE rec
           /\ counts' = [counts EXCEPT
                ![op[i].origin] = @ + Need,
                !.copy = @ + Cardinality(ToStage),
                !.reserved = IF From = 0 THEN Max({0, @ - rec[i].reserved}) ELSE @]
  BY DEF Issue
<1>2. /\ Live /\ ~Crowded /\ ~Unpaid /\ Room
      /\ turn' = [turn EXCEPT !.pc = IF turn.pc = "pump" THEN "settle" ELSE "settleAgain"]
      /\ UNCHANGED <<closing, op, free, queue, copies, cont, asked, intents, stop, fatal, landed, fate>>
  BY DEF Issue, ghosts
<1>3. closing = 0 /\ turn.pc \in {"pump", "pumpAgain"}
  BY <1>2 DEF Live, Pumping, At
<1>4. /\ i \in Ops /\ op[i].use /\ turn.at \in DOMAIN queue
      /\ From \in Nat /\ Need \in Nat \ {0} /\ Need <= Width /\ From + Need <= Parts
      /\ (From = 0 <=> ~child[i].active) /\ From = child[i].next
      /\ From = 0 => child[i] = NoChild
      /\ Wave = (From + 1)..(From + Need) /\ Wave \subseteq Pieces
  BY <1>2, WaveIs
<1>5. Picked(Wave, on) /\ ToStage \subseteq Wave /\ CellsOf(ToStage, cell)
  BY <1>2, ChannelsPicked, CellsPicked DEF Picked, CellsOf
<1>6. ChanSent(i, Wave, on, ToStage, cell, io) /\ busy' = busy \cup Images(cell, ToStage)
      /\ RecSent(i, From) /\ CountsSent(i, From, Need, ToStage)
  BY <1>1 DEF ChanSent, Images, RecSent, CountsSent
<1>7. ChildSent(i, From, Need)
  BY <1>1 DEF ChildSent
<1>8. Numbers(i, From, Need)
  BY <1>4 DEF Numbers
<1>9. Allowed(i, From, Need)
  <2>1. child[i].remaining \in Nat /\ Parallel \in Nat /\ op[i].origin \in {"demand", "prefetch"}
    BY <1>4, FieldsOf, VirtualReadsAssumption DEF ChildType, OpType
  <2>2. From > 0 => child[i].remaining + Need <= Parallel
    BY <1>2, <1>4, <2>1 DEF Crowded
  <2>3. From > 0 /\ op[i].origin = "prefetch" => counts.prefetch + counts.reserved + Need <= Limit
    BY <1>2 DEF Unpaid, CreditOk
  <2> QED
    BY <2>2, <2>3 DEF Allowed
<1>10. WaveTakes(i, From, Need, Wave, on, ToStage, cell, io)
  BY <1>4, <1>5 DEF WaveTakes
<1>11. spent' \in SpentType /\ spent'.asks = spent.asks
  <2>1. PICK n \in Nat : n = Cardinality({p \in Wave : io[p] = "refused"})
    <3>1. {p \in Wave : io[p] = "refused"} \subseteq Pieces
      BY <1>4
    <3> QED
      BY <3>1, FiniteSets
  <2>2. spent.faults + n <= MaxFaults /\ spent' = [spent EXCEPT !.faults = spent.faults + n]
    BY <1>1, <2>1
  <2>3. spent.faults \in 0..MaxFaults /\ MaxFaults \in Nat /\ spent \in SpentType
    BY FieldsOf, VirtualReadsAssumption DEF Types, Scalars
  <2>4. spent.faults + n \in 0..MaxFaults
    BY <2>2, <2>3
  <2> QED
    BY <2>2, <2>3, <2>4 DEF SpentType
<1> HIDE DEF i, on, cell
<1>12. Tables' /\ Core'
  BY <1>2, <1>3, <1>6, <1>7, <1>8, <1>9, <1>10, SendKeeps
<1>13. turn' \in TurnType /\ turn'.pc \in Settlers /\ turn'.at = turn.at
  <2>1. turn \in TurnType
    BY DEF Types
  <2> QED
    BY <1>2, <2>1 DEF TurnType, Pcs, Settlers
<1>14. Types'
  <2>1. Scalars'
    BY <1>2, <1>11 DEF Types, Scalars
  <2> QED
    BY <1>2, <1>12, <1>13, <2>1 DEF Types
<1>15. AtOnceSettled' /\ NotGone'
  BY <1>2, <1>4, <1>13 DEF AtOnceSettled, NotGone, Settlers
<1>16. AskedFor' /\ PublishedWhole'
  BY <1>2, <1>11 DEF AskedFor, PublishedWhole
<1> QED
  BY <1>12, <1>14, <1>15, <1>16, AllTold

-----------------------------------------------------------------------------
(* The invariant.                                                           *)

LEMMA NoneYet ==
  ASSUME Init
  PROVE  /\ Ring = {} /\ (\A i : Copied(i) = {}) /\ (\A i \in Ops : Under(i) = {})
         /\ HeldBy("demand") = {} /\ HeldBy("prefetch") = {} /\ StagedReads = {} /\ AtOnce = {}
<1>1. /\ copies = <<>> /\ \A c \in Channels : chan[c] = IdleChan
  BY DEF Init
<1>2. Ring = {}
  <2>1. DOMAIN copies = {}
    BY <1>1
  <2> QED
    BY <2>1 DEF Ring
<1>3. \A c \in Channels : chan[c].op = 0 /\ chan[c].io = "idle"
  BY <1>1 DEF IdleChan
<1>4. \A i \in Ops : i # 0
  BY DEF Ops
<1> QED
  BY <1>2, <1>3, <1>4 DEF Copied, Under, HeldBy, StagedReads, Held, AtOnce

LEMMA InvInit == Init => VirtualInv
<1> SUFFICES ASSUME Init PROVE VirtualInv
  OBVIOUS
<1>1. /\ turn = [pc |-> "idle", at |-> 1, deferred |-> FALSE, stopping |-> FALSE] /\ closing = 0
      /\ op = [i \in Ops |-> FreeOp] /\ free = [n \in Ops |-> Pool + 1 - n] /\ queue = <<>>
      /\ child = [i \in Ops |-> NoChild] /\ rec = [i \in Ops |-> NoRec] /\ chan = [c \in Channels |-> IdleChan]
      /\ busy = {} /\ copies = <<>>
      /\ counts = [demand |-> 0, prefetch |-> 0, reserved |-> 0, active |-> 0, copy |-> 0]
      /\ cont = FALSE /\ asked = 0 /\ intents = 0 /\ stop = "no" /\ fatal = FALSE
      /\ landed = [i \in Ops |-> {}] /\ fate = [i \in Ops |-> "none"]
      /\ spent = [asks |-> 0, intents |-> 0, faults |-> 0]
  BY DEF Init
<1>2. /\ \A i \in Ops : /\ op[i].use = FALSE /\ op[i].waiters = 0 /\ child[i].active = FALSE /\ child[i].remaining = 0
                        /\ child[i].copies = 0 /\ child[i].ok = 0 /\ child[i].next = 0
                        /\ rec[i].active = FALSE /\ rec[i].reserved = 0
      /\ \A c \in Channels : chan[c].op = 0 /\ chan[c].cell = 0 /\ chan[c] = IdleChan
  BY <1>1 DEF FreeOp, NoChild, NoRec, IdleChan
<1>3. Cardinality({}) = 0
  BY FS_EmptySet
<1>4. free \in Seq(Ops) /\ Stack
  <2>1. Pool \in Nat
    BY VirtualReadsAssumption
  <2>2. \A n \in 1..Pool : Pool + 1 - n \in 1..Pool
    BY <2>1
  <2>3. free \in [1..Pool -> Ops]
    BY <1>1, <2>2 DEF Ops
  <2>4. free \in Seq(Ops)
    BY <2>1, <2>3, SeqDef
  <2>5. \A m, n \in 1..Pool : free[m] = free[n] => m = n
    <3> SUFFICES ASSUME NEW m \in 1..Pool, NEW n \in 1..Pool, free[m] = free[n] PROVE m = n
      OBVIOUS
    <3>1. Pool + 1 - m = Pool + 1 - n
      BY <1>1 DEF Ops
    <3> QED
      BY <2>1, <3>1
  <2>6. DOMAIN free = 1..Pool /\ \A n \in 1..Pool : free[n] \in Ops
    BY <2>3
  <2> QED
    BY <1>2, <2>4, <2>5, <2>6 DEF Stack
<1>5. Types
  <2>1. Tables
    <3>1. op \in [Ops -> OpType] /\ child \in [Ops -> ChildType] /\ rec \in [Ops -> RecType] /\ chan \in [Channels -> ChanType]
      BY <1>1, Blank
    <3>2. counts \in CountsType /\ copies \in Seq(CopyType) /\ busy \subseteq Cells
      BY <1>1, EmptySeq DEF CountsType
    <3>3. landed \in [Ops -> SUBSET Pieces] /\ fate \in [Ops -> {"none", "published", "unpublished", "retried"}]
      BY <1>1
    <3> QED
      BY <1>4, <3>1, <3>2, <3>3 DEF Tables
  <2>2. Scalars
    <3>1. 0 \in 0..Pool /\ 0 \in 0..MaxAsks /\ 0 \in 0..MaxIntents /\ 0 \in 0..MaxFaults
      BY VirtualReadsAssumption
    <3> QED
      BY <1>1, <3>1 DEF Scalars, SpentType
  <2>3. turn \in TurnType /\ queue \in Seq(Ops)
    <3>1. "idle" \in Pcs /\ 1 \in Nat \ {0}
      BY DEF Pcs
    <3> QED
      BY <1>1, <3>1, EmptySeq DEF TurnType
  <2> QED
    BY <2>1, <2>2, <2>3 DEF Types
<1>6. PartsOut /\ PartsApart
  <2>1. DOMAIN copies = {}
    BY <1>1
  <2> QED
    BY <1>2, <2>1, NoneYet DEF PartsOut, PartsApart
<1>7. CellsApart
  <2>1. 0 \notin Cells
    BY DEF Cells
  <2> QED
    BY <1>1, <1>2, <2>1, NoneYet DEF CellsApart
<1>8. Tallies
  <2> SUFFICES ASSUME NEW i \in Ops
               PROVE  /\ child[i].remaining = Cardinality(Under(i)) /\ child[i].copies = Cardinality(Copied(i))
                      /\ child[i].ok + child[i].remaining + child[i].copies <= child[i].next
                      /\ op[i].use => child[i].cancel \/ child[i].ok = Cardinality(landed[i])
    BY DEF Tallies
  <2>1. Under(i) = {} /\ Copied(i) = {}
    BY NoneYet
  <2> QED
    BY <1>2, <1>3, <2>1
<1>9. Indices
  BY <1>1, <1>2, <1>4 DEF Indices, Stack
<1>10. Records
  <2>1. Parallel \in Nat
    BY VirtualReadsAssumption
  <2> QED
    BY <1>2, <2>1 DEF Records
<1>11. Gauged
  <2>1. Len(copies) = 0
    BY <1>1, EmptySeq
  <2>2. HeldBy("demand") = {} /\ HeldBy("prefetch") = {} /\ StagedReads = {}
    BY NoneYet
  <2>3. counts.demand = 0 /\ counts.prefetch = 0 /\ counts.copy = 0
    BY <1>1
  <2>4. Cardinality(HeldBy("demand")) = 0 /\ Cardinality(HeldBy("prefetch")) = 0 /\ Cardinality(StagedReads) = 0
        /\ Cardinality(busy) = 0
    BY <1>1, <1>3, <2>2
  <2>5. 0 = 0 + 0
    OBVIOUS
  <2> QED
    BY ONLY <2>1, <2>3, <2>4, <2>5 DEF Gauged
<1>12. Guessed
  <2>1. Reserving = {} /\ Guessing = {}
    BY <1>2 DEF Reserving, Guessing
  <2>2. Width * 0 = 0
    BY WidthIs
  <2>3. counts.prefetch + counts.reserved <= Budget
    BY <1>1, LimitIs
  <2> QED
    BY <1>1, <1>3, <2>1, <2>2, <2>3, GuessedIs
<1>13. AskedFor /\ PublishedWhole /\ AtOnceSettled
  BY <1>1, <1>2, NoneYet DEF AskedFor, PublishedWhole, AtOnceSettled
<1> QED
  BY <1>1, <1>5, <1>6, <1>7, <1>8, <1>9, <1>10, <1>11, <1>12, <1>13 DEF VirtualInv, Core

(* Once the tables are cleared nothing moves.                               *)
LEMMA GoneStays ==
  ASSUME VirtualInv, Next, ~NotGone
  PROVE  UNCHANGED vars
<1>1. turn.pc = "gone" /\ closing = 0
  BY DEF VirtualInv, NotGone
<1>2. ~(Ask \/ Guess \/ AskToStop \/ EndCopy)
  BY <1>1 DEF Ask, Guess, AskToStop, EndCopy
<1>3. \A c \in Channels : ~Complete(c)
  BY <1>1 DEF Complete
<1>4. ~Judge
  BY <1>1 DEF Judge, KeepOpen, Finish, Retry, FailStop
<1>5. ~Turn /\ ~CleanUp
  BY <1>1 DEF Turn, CleanUp, StartTurn, RetireSignaled, RetireEnd, Demand, Taking, CommandsEnd, Spent, PassOver, Live,
     Pumping, PumpEnd, Issue, SettleOne, Settled, Settling, AdmitNothing, Dispose, Claim, MayAdmit, CutIntents,
     CancelGuesses, DrainFails, DrainOne, EndTurn, At
<1> QED
  BY <1>2, <1>3, <1>4, <1>5 DEF Next, Disk, Done

LEMMA InvStill ==
  ASSUME VirtualInv, UNCHANGED vars
  PROVE  VirtualInv'
<1>1. UNCHANGED <<turn, closing, op, free, queue, child, rec, chan, busy, copies, counts, cont, asked, intents, stop,
                  fatal, spent, landed, fate>>
  BY DEF vars, sides, ghosts
<1>2. Types' /\ PublishedWhole' /\ AskedFor'
  BY <1>1 DEF VirtualInv, Types, Tables, Scalars, PublishedWhole, AskedFor
<1>3. CASE turn.pc = "gone"
  BY <1>1, <1>2, <1>3 DEF VirtualInv
<1>4. CASE turn.pc # "gone"
  <2>1. Types /\ Core /\ AtOnceSettled
    BY <1>4 DEF VirtualInv
  <2>2. Still
    BY <1>1 DEF Still
  <2>3. Core'
    BY <2>1, <2>2, StillKeeps
  <2>4. AtOnceSettled'
    BY <1>1, <2>1 DEF AtOnceSettled, AtOnce
  <2> QED
    BY <1>1, <1>2, <1>4, <2>3, <2>4 DEF VirtualInv
<1> QED
  BY <1>3, <1>4

LEMMA InvNext == VirtualInv /\ [Next]_vars => VirtualInv'
<1> SUFFICES ASSUME VirtualInv, [Next]_vars PROVE VirtualInv'
  OBVIOUS
<1>1. CASE UNCHANGED vars
  BY <1>1, InvStill
<1>2. CASE Next /\ ~NotGone
  BY <1>2, GoneStays, InvStill
<1>3. CASE Next /\ NotGone
  <2>1. Alright
    BY <1>3 DEF Alright
  <2>2. Alright' => VirtualInv'
    BY DEF Alright
  <2>3. CASE Around
    BY <2>1, <2>2, <2>3, AroundStep
  <2>4. CASE Disk
    <3>1. PICK c \in Channels : Complete(c)
      BY <2>4 DEF Disk
    <3> QED
      BY <2>1, <2>2, <3>1, CompleteStep
  <2>5. CASE Finish
    BY <2>1, <2>2, <2>5, FinishStep
  <2>6. CASE Retry
    BY <2>1, <2>2, <2>6, RetryStep
  <2>7. CASE RetireSignaled
    BY <2>1, <2>2, <2>7, RetireSignaledStep
  <2>8. CASE Demand
    BY <2>1, <2>2, <2>8, DemandStep
  <2>9. CASE Issue
    BY <2>1, <2>2, <2>9, IssueStep
  <2>10. CASE SettleOne
    BY <2>1, <2>2, <2>10, SettleOneStep
  <2>11. CASE Claim
    BY <2>1, <2>2, <2>11, ClaimStep
  <2>12. CASE CancelGuesses
    BY <2>1, <2>2, <2>12, CancelGuessesStep
  <2>13. CASE DrainOne
    BY <2>1, <2>2, <2>13, DrainOneStep
  <2>14. CASE EndCopy
    BY <2>1, <2>2, <2>14, EndCopyStep
  <2>15. CASE CleanUp
    BY <2>1, <2>15, CleanUpStep
  <2>16. CASE Done
    BY <2>16, InvStill DEF Done
  <2> QED
    BY <1>3, <2>3, <2>4, <2>5, <2>6, <2>7, <2>8, <2>9, <2>10, <2>11, <2>12, <2>13, <2>14, <2>15, <2>16
       DEF Next, Judge, Turn, Around
<1> QED
  BY <1>1, <1>2, <1>3

(* The invariant the others rest on: where the parts of every read are,     *)
(* what it counts of itself, and what the budget counts of all of them.     *)
THEOREM VirtualInvariant == Spec => []VirtualInv
<1>1. Init => VirtualInv
  BY InvInit
<1>2. VirtualInv /\ [Next]_vars => VirtualInv'
  BY InvNext
<1> QED
  BY <1>1, <1>2, PTL DEF Spec

-----------------------------------------------------------------------------
(* What follows from it.                                                    *)

LEMMA TypeFollows == VirtualInv => TypeOK
<1> SUFFICES ASSUME VirtualInv PROVE TypeOK
  OBVIOUS
<1>1. Types /\ AskedFor
  BY DEF VirtualInv
<1>2. closing \in 0..Pool /\ busy \subseteq Cells /\ stop \in {"no", "asked", "drained"}
      /\ fatal \in BOOLEAN /\ cont \in BOOLEAN /\ queue \in Seq(Ops)
  BY <1>1 DEF Types, Tables, Scalars
<1>3. \A n \in DOMAIN queue : queue[n] \in Ops
  <2>1. \A n \in 1..Len(queue) : queue[n] \in Ops
    BY <1>2, ElementOfSeq
  <2> QED
    BY <1>2, <2>1, LenProperties
<1>4. ASSUME NEW i \in Ops
      PROVE  op[i].origin \in {"demand", "prefetch"} /\ op[i].waiters \in 0..MaxAsks /\ child[i].next \in 0..Parts
  <2>1. op[i] \in OpType /\ child[i] \in ChildType
    BY <1>1, FieldsOf
  <2>2. op[i].waiters \in Nat /\ asked \in Nat /\ spent.asks \in 0..MaxAsks /\ MaxAsks \in Nat
    BY <1>1, <2>1, FieldsOf, VirtualReadsAssumption DEF OpType, Types, Scalars
  <2>3. op[i].waiters + asked <= spent.asks
    BY <1>1 DEF AskedFor
  <2> QED
    BY <2>1, <2>2, <2>3 DEF OpType, ChildType
<1>5. ASSUME NEW i \in Ops PROVE child[i].ok \in 0..Parts
  <2>1. child[i] \in ChildType /\ Parts \in Nat
    BY <1>1, FieldsOf, VirtualReadsAssumption
  <2>2. CASE turn.pc = "gone"
    <3>1. child[i].ok = 0
      BY <2>2 DEF VirtualInv, NoChild
    <3> QED
      BY <2>1, <3>1
  <2>3. CASE turn.pc # "gone"
    <3>1. child[i].ok + child[i].remaining + child[i].copies <= child[i].next
      BY <2>3 DEF VirtualInv, Core, Tallies
    <3>2. child[i].ok \in Nat /\ child[i].remaining \in Nat /\ child[i].copies \in Nat /\ child[i].next \in 0..Parts
      BY <2>1 DEF ChildType
    <3> QED
      BY <2>1, <3>1, <3>2
  <2> QED
    BY <2>2, <2>3
<1> QED
  BY <1>2, <1>3, <1>4, <1>5 DEF TypeOK

LEMMA QuietFollows == VirtualInv => FreedIsQuiet
<1> SUFFICES ASSUME VirtualInv, turn.pc # "gone", NEW i \in Ops, ~op[i].use
             PROVE  /\ \A c \in Channels : chan[c].op # i
                    /\ \A n \in DOMAIN copies : copies[n].op # i
                    /\ ~child[i].active
  BY DEF FreedIsQuiet
<1>1. Types /\ Core
  BY DEF VirtualInv
<1>2. Under(i) = {} /\ Copied(i) = {}
  BY <1>1, FreeHasNothing DEF Core
<1>3. child[i] = NoChild
  BY <1>1 DEF Core, Indices
<1> QED
  BY <1>2, <1>3 DEF Under, Copied, Ring, NoChild

LEMMA BudgetFollows == VirtualInv => BudgetExact
<1> SUFFICES ASSUME VirtualInv, turn.pc # "gone"
             PROVE  /\ counts.demand = Cardinality(HeldBy("demand"))
                    /\ counts.prefetch = Cardinality(HeldBy("prefetch"))
                    /\ \A i \in Ops : rec[i].reserved \in {0, Width}
                    /\ counts.reserved = Width * Cardinality({i \in Ops : rec[i].reserved # 0})
                    /\ counts.active = Cardinality({i \in Ops : rec[i].active})
                    /\ counts.copy = Cardinality(busy)
                    /\ busy = CellsHeld \ {0}
                    /\ Cardinality(busy) = Cardinality(StagedReads) + Len(copies)
                    /\ counts.prefetch + counts.reserved <= Budget
                    /\ \A i \in Ops : Cardinality({c \in Channels : chan[c].op = i /\ Held(c)}) <= Parallel
  BY DEF BudgetExact
<1>1. Types /\ Core
  BY DEF VirtualInv
<1>2. \A i \in Ops : rec[i].reserved \in {0, Width}
  BY <1>1 DEF Core, Records
<1>3. \A i \in Ops : Cardinality({c \in Channels : chan[c].op = i /\ Held(c)}) <= Parallel
  <2> SUFFICES ASSUME NEW i \in Ops
               PROVE  Cardinality({c \in Channels : chan[c].op = i /\ Held(c)}) <= Parallel
    OBVIOUS
  <2>1. i # 0
    BY DEF Ops
  <2>2. \A c \in Channels : chan[c].op = i => Held(c)
    BY <1>1, <2>1 DEF Core, PartsOut, Held
  <2>3. {c \in Channels : chan[c].op = i /\ Held(c)} = Under(i)
    BY <2>2 DEF Under
  <2> QED
    BY <1>1, <2>3 DEF Core, Tallies, Records
<1>4. busy = CellsHeld \ {0}
  <2>1. busy \subseteq Cells /\ 0 \notin Cells
    BY <1>1 DEF Types, Tables, Cells
  <2>2. ASSUME NEW k \in busy PROVE k \in CellsHeld \ {0}
    <3>1. k \in Cells /\ k # 0
      BY <2>1
    <3>2. (\E c \in Channels : chan[c].cell = k) \/ (\E x \in Ring : x.cell = k)
      BY <1>1, <3>1 DEF Core, CellsApart
    <3>3. \A c \in Channels : chan[c].cell # 0 => Held(c)
      BY <1>1, ChannelKnows DEF Core, Held
    <3> QED
      BY <3>1, <3>2, <3>3 DEF CellsHeld, StagedReads, Ring
  <2>3. ASSUME NEW k \in CellsHeld, k # 0 PROVE k \in busy
    <3>1. (\E c \in Channels : chan[c].cell = k) \/ (\E x \in Ring : x.cell = k)
      BY DEF CellsHeld, StagedReads, Ring
    <3>2. k \in Cells
      <4>1. \A c \in Channels : chan[c].cell \in 0..Staging
        BY <1>1, FieldsOf DEF ChanType
      <4>2. \A x \in Ring : x.cell \in Cells
        BY <1>1, RingKnows
      <4>3. \A n \in 0..Staging : n # 0 => n \in Cells
        BY VirtualReadsAssumption DEF Cells
      <4> QED
        BY <2>3, <3>1, <4>1, <4>2, <4>3
    <3> QED
      BY <1>1, <3>1, <3>2 DEF Core, CellsApart
  <2> QED
    BY <2>2, <2>3
<1> QED
  BY <1>1, <1>2, <1>3, <1>4 DEF Core, Gauged, Guessed

(* The values of the tables, from the pool to the bounds of a behaviour.    *)
THEOREM VirtualTypes == Spec => []TypeOK
  BY VirtualInvariant, TypeFollows, PTL

(* A record is published only with every part of it in the slot: not after  *)
(* its first wave, with a copy outstanding or with a failed part.           *)
THEOREM OnlyWholeIsPublished == Spec => []PublishedWhole
<1>1. VirtualInv => PublishedWhole
  BY DEF VirtualInv
<1> QED
  BY <1>1, VirtualInvariant, PTL

(* An index that is returned to the pool has no part with the disk, none in *)
(* the ring of the copy thread, none being copied.                          *)
THEOREM ReturnedIsQuiet == Spec => []FreedIsQuiet
  BY VirtualInvariant, QuietFollows, PTL

(* What admission and the pump decide by is what is under way, and the      *)
(* guesses stay within their budget.                                        *)
THEOREM BudgetIsExact == Spec => []BudgetExact
  BY VirtualInvariant, BudgetFollows, PTL

=============================================================================
