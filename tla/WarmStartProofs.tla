-------------------------- MODULE WarmStartProofs --------------------------
(***************************************************************************)
(* The stored slot states of the launcher, proved for every number of       *)
(* starts, saves, states and faults: whatever ends between two steps, what  *)
(* is restored is whole, the generation a session can fall back on stays    *)
(* whole, and every temporary file has somebody who removes it.             *)
(***************************************************************************)
EXTENDS WarmStart, SequenceTheorems, TLAPS

Launching == {"sweep", "order", "judge", "spawn", "restore"}
Saving    == {"api", "dataAway", "dataIn", "metaTmp", "metaAway", "metaIn"}
Autosaving == {"api", "meta", "sidecar"}

(* The mutex tells who saves, and a start is alone.                         *)
MutexKnown ==
  /\ saveMu = "stop" <=> pc \in Saving
  /\ saveMu = "auto" <=> auto.pc \in Autosaving
  /\ pc \in Launching => auto.pc = "idle"

(* What a start has elected is whole, and it judges nothing twice.          *)
SelectionKnown ==
  /\ pc \in {"sweep", "order"} => selected = None
  /\ pc \in {"judge", "spawn", "restore"} /\ selected # None => Whole(selected)
  /\ pc = "restore" => selected # None
  /\ pc = "judge" => /\ todo # <<>>
                     /\ \A i, j \in DOMAIN todo : todo[i] = todo[j] => i = j
                     /\ \A i \in DOMAIN todo : todo[i] # selected

(* The autosave writes into one generation, never into the fallback, and    *)
(* gives up when it no longer knows who writes.                             *)
AutoKnown ==
  /\ auto.pc \in Autosaving => auto.gen \in Autos /\ autoNext = auto.gen
  /\ auto.pc \in {"meta", "sidecar"} =>
       Data(auto.gen) \in DOMAIN dir /\ dir[Data(auto.gen)].of # 0
  /\ auto.pc \in {"want", "api"} /\ server.up => server.state # 0
  /\ mine # None /\ (auto.pc # "idle" \/ pc \in {"restore", "serve"}) => autoNext = Other(mine)
  /\ later \cap Finals # {} => autoStopped /\ auto.pc \in {"idle", "armed"}
  /\ mine # None => Pair(mine) \cap later = {}

(* The temporary files of the save in progress, by the step it is at.       *)
SaveFiles ==
  /\ pc \in {"dataAway", "dataIn"} => Tmp("data") \in DOMAIN dir
  /\ pc = "metaTmp" => Data("canonical") \in DOMAIN dir
  /\ pc \in {"metaAway", "metaIn"} => Tmp("meta") \in DOMAIN dir
  /\ pc \in {"metaTmp", "metaAway", "metaIn"} => Tmp("data") \notin DOMAIN dir
  /\ pc \in {"api", "dataAway", "dataIn", "metaTmp"} => Tmp("meta") \notin DOMAIN dir

(* No temporary file is of a save to come; a start finds what it may remove *)
(* of an earlier session's already removed or forgotten.                    *)
FilesKnown ==
  /\ \A f \in Leftovers : f[3] <= clock
  /\ pc \in Saving => clock # 0
  /\ SaveFiles
  /\ pc = "down" => stales = {} /\ later \cap Temporaries = {}
  /\ pc \in Launching => stales = {} /\ later = {}

(* Type correctness in two parts, the directory and the rest.               *)
Content == [of : 0..MaxStates, at : 0..MaxSaves]
DirType == DOMAIN dir \subseteq Names /\ \A f \in DOMAIN dir : dir[f] \in Content
RestType ==
  /\ server \in [up : BOOLEAN, state : 0..MaxStates]
  /\ pc \in {"down", "sweep", "order", "judge", "spawn", "restore", "serve", "wantSave",
             "api", "dataAway", "dataIn", "metaTmp", "metaAway", "metaIn", "signal",
             "cleanup"}
  /\ todo \in Seq(Generations) /\ selected \in Generations \cup {None}
  /\ auto \in [pc : {"idle", "armed", "want", "api", "meta", "sidecar"},
               gen : Autos \cup {None}]
  /\ saveMu \in {"free", "auto", "stop"}
  /\ autoNext \in Autos \cup {None} /\ known \in 0..MaxStates /\ autoStopped \in BOOLEAN
  /\ later \subseteq Names /\ stales \subseteq Temporaries
  /\ clock \in 0..MaxSaves /\ states \in 0..MaxStates /\ starts \in 0..MaxStarts
  /\ faults \in 0..MaxFaults
  /\ refused \subseteq Generations /\ orphans \subseteq Temporaries
  /\ mine \in Autos \cup {None}

WarmInv == /\ DirType /\ RestType /\ MutexKnown /\ SelectionKnown /\ AutoKnown
           /\ FilesKnown /\ PreviousSurvives /\ TemporariesAccounted

-----------------------------------------------------------------------------
LEMMA Bounds == MaxStarts \in Nat /\ MaxSaves \in Nat /\ MaxStates \in Nat /\ MaxFaults \in Nat
BY WarmStartAssumption

LEMMA TypeParts == TypeOK <=> DirType /\ RestType
BY DEF TypeOK, DirType, RestType, Content

(* Files of different generations, kinds and saves have different names.    *)
LEMMA NamesApart ==
  /\ Finals \cap Temporaries = {}
  /\ \A g \in Generations : Pair(g) \subseteq Finals /\ Data(g) # Meta(g)
  /\ \A g, h \in Generations : g # h => Pair(g) \cap Pair(h) = {}
  /\ \A p, q \in {"data", "meta"}, n \in 1..MaxSaves :
       /\ <<"tmp", p, n>> \in Temporaries /\ <<"stale", q, n>> \in Temporaries
       /\ <<"tmp", p, n>> # <<"stale", q, n>>
<1>1. Finals \cap Temporaries = {}
  <2>1. \A f \in Finals : f[1] \in {"canonical", "a", "b"}
    BY DEF Finals, Pair, Data, Meta, Generations
  <2>2. \A f \in Temporaries : f[1] \in {"tmp", "stale"}
    BY DEF Temporaries
  <2> QED
    BY <2>1, <2>2
<1>2. \A g \in Generations : Pair(g) \subseteq Finals /\ Data(g) # Meta(g)
  BY DEF Finals, Pair, Data, Meta
<1>3. \A g, h \in Generations : g # h => Pair(g) \cap Pair(h) = {}
  BY DEF Pair, Data, Meta, Generations
<1>4. \A p, q \in {"data", "meta"}, n \in 1..MaxSaves :
       /\ <<"tmp", p, n>> \in Temporaries /\ <<"stale", q, n>> \in Temporaries
       /\ <<"tmp", p, n>> # <<"stale", q, n>>
  BY DEF Temporaries
<1> QED
  BY <1>1, <1>2, <1>3, <1>4

(* A generation none of whose files is touched stays whole.                 *)
LEMMA WholeKept ==
  ASSUME NEW g,
         \A f \in Pair(g) : f \in DOMAIN dir => f \in DOMAIN dir' /\ dir'[f] = dir[f]
  PROVE  Whole(g) => Whole(g)'
BY DEF Whole, Pair

LEMMA DirUntouched ==
  ASSUME dir' = dir
  PROVE  /\ Leftovers' = Leftovers /\ (DirType => DirType')
         /\ \A g \in Generations : Whole(g)' <=> Whole(g)
BY DEF Leftovers, DirType, Whole, Content, Names

LEMMA DirPut ==
  ASSUME DirType, NEW f \in Names, NEW c \in Content, dir' = Put(dir, f, c)
  PROVE  DirType'
BY DEF DirType, Content, Names, Put

LEMMA DirWithout ==
  ASSUME DirType, NEW fs, dir' = Without(dir, fs)
  PROVE  DirType'
BY DEF DirType, Content, Names, Without

LEMMA DirRenamed ==
  ASSUME DirType, NEW f \in DOMAIN dir, NEW t \in Names, f # t, dir' = Renamed(dir, f, t)
  PROVE  DirType'
BY DEF DirType, Content, Names, Renamed, Put, Without

(* What a removal, which may fail, leaves behind.                           *)
LEMMA RemovalDoes ==
  ASSUME DirType, RestType, NEW fs, Removal(fs)
  PROVE  /\ DirType' /\ faults' \in 0..MaxFaults /\ orphans' \subseteq Temporaries
         /\ DOMAIN dir' \subseteq DOMAIN dir /\ DOMAIN dir \ fs \subseteq DOMAIN dir'
         /\ \A f \in DOMAIN dir' : dir'[f] = dir[f]
         /\ orphans \cap DOMAIN dir' \subseteq orphans'
         /\ fs \cap Leftovers' \subseteq orphans'
<1>1. PICK stay \in SUBSET (fs \cap DOMAIN dir) :
        /\ IF stay = {} THEN NoFault ELSE Fault
        /\ dir' = Without(dir, fs \ stay)
        /\ orphans' = (orphans \cap DOMAIN dir') \cup (stay \cap Temporaries)
  BY DEF Removal
<1>2. /\ DOMAIN dir' = DOMAIN dir \ (fs \ stay)
      /\ \A n \in DOMAIN dir' : dir'[n] = dir[n]
  BY <1>1 DEF Without
<1>3. faults' \in 0..MaxFaults
  BY <1>1, Bounds DEF NoFault, Fault, RestType
<1>4. DirType'
  BY <1>1, DirWithout
<1>5. fs \cap Leftovers' \subseteq stay \cap Temporaries
  BY <1>2 DEF Leftovers, Temporaries
<1> QED
  BY <1>1, <1>2, <1>3, <1>4, <1>5 DEF RestType

-----------------------------------------------------------------------------
(* The initial state satisfies the invariant.                               *)
LEMMA WarmInit == Init => WarmInv
<1> SUFFICES ASSUME Init PROVE WarmInv
  OBVIOUS
<1> USE Bounds DEF Init
<1>1. DOMAIN dir = {}
  OBVIOUS
<1>2. DirType
  BY <1>1 DEF DirType
<1>3. RestType
  <2>1. todo \in Seq(Generations)
    BY EmptySeq
  <2>2. autoStopped \in BOOLEAN
    OBVIOUS
  <2>3. server \in [up : BOOLEAN, state : 0..MaxStates]
    OBVIOUS
  <2>4. auto \in [pc : {"idle", "armed", "want", "api", "meta", "sidecar"},
                  gen : Autos \cup {None}]
    OBVIOUS
  <2> QED
    BY <2>1, <2>2, <2>3, <2>4 DEF RestType
<1>4. MutexKnown /\ SelectionKnown
  BY DEF MutexKnown, SelectionKnown, Saving, Autosaving, Launching
<1>5. AutoKnown /\ PreviousSurvives
  BY DEF AutoKnown, PreviousSurvives, Autosaving
<1>6. FilesKnown /\ TemporariesAccounted
  BY <1>1 DEF FilesKnown, SaveFiles, TemporariesAccounted, Leftovers, Saving, Launching
<1> QED
  BY <1>2, <1>3, <1>4, <1>5, <1>6 DEF WarmInv

(* A start begins with nothing to remove of an earlier session.             *)
LEMMA StartStep ==
  ASSUME WarmInv, Start
  PROVE  WarmInv'
<1> USE Bounds DEF WarmInv, Start
<1>0. dir' = dir /\ DirType
  OBVIOUS
<1>1. DirType' /\ Leftovers' = Leftovers /\ \A g \in Generations : Whole(g)' <=> Whole(g)
  BY <1>0, DirUntouched
<1>2. RestType'
  <2>1. starts' \in 0..MaxStarts
    BY DEF RestType
  <2>2. autoStopped' \in BOOLEAN
    OBVIOUS
  <2> QED
    BY <2>1, <2>2 DEF RestType
<1>3. MutexKnown'
  BY DEF MutexKnown, Saving, Launching
<1>4. SelectionKnown'
  BY DEF SelectionKnown
<1>5. AutoKnown'
  BY DEF AutoKnown, Autosaving
<1>6. PreviousSurvives'
  BY <1>1 DEF PreviousSurvives, RestType, Autos, Generations
<1>7. FilesKnown'
  BY <1>1 DEF FilesKnown, SaveFiles, Saving
<1>8. TemporariesAccounted'
  <2>1. InProgress = {} /\ Leftovers \subseteq Temporaries
    BY DEF MutexKnown, Saving, InProgress, Leftovers
  <2>2. Leftovers \subseteq orphans
    BY <2>1 DEF FilesKnown, SaveFiles, TemporariesAccounted
  <2> QED
    BY <1>1, <2>2 DEF TemporariesAccounted
<1> QED
  BY <1>1, <1>2, <1>3, <1>4, <1>5, <1>6, <1>7, <1>8

(* The sweep removes temporary files only.                                  *)
LEMMA SweepStep ==
  ASSUME WarmInv, Sweep
  PROVE  WarmInv'
<1> USE Bounds DEF WarmInv, Sweep
<1>1. /\ DirType' /\ faults' \in 0..MaxFaults /\ orphans' \subseteq Temporaries
      /\ DOMAIN dir' \subseteq DOMAIN dir /\ DOMAIN dir \ Leftovers \subseteq DOMAIN dir'
      /\ \A f \in DOMAIN dir' : dir'[f] = dir[f]
      /\ Leftovers \cap Leftovers' \subseteq orphans'
  BY RemovalDoes
<1>2. Leftovers' \subseteq Leftovers /\ Leftovers \subseteq Temporaries
  BY <1>1 DEF Leftovers, Temporaries
<1>3. RestType'
  BY <1>1 DEF RestType, sessionVars, boundVars
<1>4. MutexKnown' /\ SelectionKnown'
  BY DEF MutexKnown, SelectionKnown, Saving, Launching, sessionVars
<1>5. AutoKnown'
  BY DEF AutoKnown, MutexKnown, Autosaving, Launching, sessionVars
<1>6. PreviousSurvives'
  <2>1. ASSUME NEW g \in Generations
        PROVE  Whole(g) => Whole(g)'
    BY <1>1, <1>2, NamesApart, WholeKept
  <2> QED
    BY <2>1 DEF PreviousSurvives, RestType, Autos, Generations
<1>7. FilesKnown'
  BY <1>2 DEF FilesKnown, SaveFiles, Saving, Launching, boundVars
<1>8. TemporariesAccounted'
  BY <1>1, <1>2 DEF TemporariesAccounted
<1> QED
  BY <1>1, <1>3, <1>4, <1>5, <1>6, <1>7, <1>8

(* The order of the candidates names every generation once.                 *)
LEMMA OrderIsOne ==
  ASSUME DirType
  PROVE  /\ CandidateOrder \in [1..3 -> Generations]
         /\ \A i, j \in 1..3 : CandidateOrder[i] = CandidateOrder[j] => i = j
<1> USE Bounds
<1> DEFINE Sorted(s) == \A i, j \in 1..3 : i < j => Before(s[i], s[j])
<1>1. SavedAt("canonical") \in Nat /\ SavedAt("a") \in Nat /\ SavedAt("b") \in Nat
  BY DEF SavedAt, Exists, DirType, Content
<1>2. /\ Before("canonical", "a") <=> SavedAt("canonical") >= SavedAt("a")
      /\ Before("canonical", "b") <=> SavedAt("canonical") >= SavedAt("b")
      /\ Before("a", "b") <=> SavedAt("a") >= SavedAt("b")
      /\ Before("a", "canonical") <=> SavedAt("a") > SavedAt("canonical")
      /\ Before("b", "canonical") <=> SavedAt("b") > SavedAt("canonical")
      /\ Before("b", "a") <=> SavedAt("b") > SavedAt("a")
  BY <1>1 DEF Before, Place
<1>3. \A g \in Generations : ~Before(g, g)
  <2>1. ASSUME NEW g \in Generations
        PROVE  ~Before(g, g)
    <3>1. SavedAt(g) \in Nat /\ Place(g) \in Nat
      BY <1>1 DEF Place, Generations
    <3> QED
      BY <3>1 DEF Before
  <2> QED
    BY <2>1
<1>4. \A x, y, z \in Generations :
        Before(x, y) /\ Before(y, z) /\ Before(x, z) => Sorted(<<x, y, z>>)
  OBVIOUS
<1>5. \E s \in [1..3 -> Generations] : Sorted(s)
  <2> DEFINE C == "canonical"
             Order3(x, y, z) == Before(x, y) /\ Before(y, z) /\ Before(x, z)
  <2>1. \/ Order3(C, "a", "b") \/ Order3(C, "b", "a") \/ Order3("a", C, "b")
        \/ Order3("a", "b", C) \/ Order3("b", C, "a") \/ Order3("b", "a", C)
    BY <1>1, <1>2
  <2>2. PICK x \in Generations, y \in Generations, z \in Generations : Order3(x, y, z)
    BY <2>1 DEF Generations
  <2>3. <<x, y, z>> \in [1..3 -> Generations]
    BY <2>2
  <2> QED
    BY <1>4, <2>2, <2>3
<1>6. CandidateOrder \in [1..3 -> Generations] /\ Sorted(CandidateOrder)
  BY <1>5 DEF CandidateOrder
<1>7. \A i, j \in 1..3 : i < j => CandidateOrder[i] # CandidateOrder[j]
  BY <1>3, <1>6
<1> QED
  BY <1>6, <1>7

LEMMA OrderStep ==
  ASSUME WarmInv, Order
  PROVE  WarmInv'
<1> USE Bounds DEF WarmInv, Order
<1>0. dir' = dir /\ DirType
  OBVIOUS
<1>1. DirType' /\ Leftovers' = Leftovers /\ \A g \in Generations : Whole(g)' <=> Whole(g)
  BY <1>0, DirUntouched
<1>2. /\ todo' \in [1..3 -> Generations]
      /\ \A i, j \in 1..3 : todo'[i] = todo'[j] => i = j
  BY OrderIsOne
<1>3. todo' \in Seq(Generations) /\ todo' # <<>>
  <2>1. Seq(Generations) = UNION {[1..n -> Generations] : n \in Nat}
    BY SeqDef
  <2>2. todo' \in Seq(Generations)
    BY <1>2, <2>1
  <2>3. 1..Len(todo') = 1..3 /\ Len(todo') \in Nat
    BY <1>2, <2>2, LenProperties
  <2>4. Len(todo') # 0
    BY <2>3
  <2> QED
    BY <2>2, <2>4, EmptySeq
<1>4. RestType'
  BY <1>3 DEF RestType, sessionVars, boundVars
<1>5. MutexKnown'
  BY DEF MutexKnown, Saving, Launching, sessionVars
<1>6. SelectionKnown'
  <2>1. selected' = None
    BY DEF SelectionKnown, sessionVars
  <2>2. \A i \in DOMAIN todo' : todo'[i] # None
    BY <1>2 DEF Generations, None
  <2> QED
    BY <1>2, <1>3, <2>1, <2>2 DEF SelectionKnown
<1>7. AutoKnown'
  BY DEF AutoKnown, MutexKnown, Autosaving, Launching, sessionVars
<1>8. PreviousSurvives'
  BY <1>1 DEF PreviousSurvives, RestType, Autos, Generations
<1>9. FilesKnown'
  BY <1>1 DEF FilesKnown, SaveFiles, Saving, Launching, boundVars
<1>10. TemporariesAccounted'
  BY <1>1 DEF TemporariesAccounted, InProgress, Tmp, boundVars
<1> QED
  BY <1>1, <1>4, <1>5, <1>6, <1>7, <1>8, <1>9, <1>10

(* The rest of the candidates is again without repetition, and without the  *)
(* one just judged.                                                         *)
LEMMA TailDoes ==
  ASSUME NEW s \in Seq(Generations), s # <<>>,
         \A i, j \in DOMAIN s : s[i] = s[j] => i = j
  PROVE  /\ Head(s) \in Generations /\ Tail(s) \in Seq(Generations)
         /\ \E j \in DOMAIN s : s[j] = Head(s)
         /\ Len(s) # 1 => Tail(s) # <<>>
         /\ \A i, j \in DOMAIN Tail(s) : Tail(s)[i] = Tail(s)[j] => i = j
         /\ \A i \in DOMAIN Tail(s) : /\ \E j \in DOMAIN s : Tail(s)[i] = s[j]
                                      /\ Tail(s)[i] # Head(s)
<1>1. /\ Len(s) \in Nat /\ Len(s) # 0 /\ DOMAIN s = 1..Len(s)
      /\ Head(s) = s[1] /\ s[1] \in Generations
  BY LenProperties, HeadTailProperties, EmptySeq
<1>2. /\ Tail(s) \in Seq(Generations) /\ Len(Tail(s)) = Len(s) - 1
      /\ DOMAIN Tail(s) = 1..(Len(s) - 1)
      /\ \A i \in 1..(Len(s) - 1) : Tail(s)[i] = s[i + 1]
  BY <1>1, HeadTailProperties, LenProperties
<1>3. Len(s) # 1 => Tail(s) # <<>>
  BY <1>1, <1>2, EmptySeq
<1>4. \A i \in DOMAIN Tail(s) : i + 1 \in DOMAIN s /\ Tail(s)[i] = s[i + 1] /\ i + 1 # 1
  BY <1>1, <1>2
<1>5. \A i, j \in DOMAIN Tail(s) : Tail(s)[i] = Tail(s)[j] => i = j
  BY <1>1, <1>2, <1>4
<1>6. 1 \in DOMAIN s
  BY <1>1
<1> QED
  BY <1>1, <1>2, <1>3, <1>4, <1>5, <1>6

(* What is removed while the generations are judged is neither the elected  *)
(* one nor the fallback: those are whole.                                   *)
LEMMA JudgeStep ==
  ASSUME WarmInv, Judge
  PROVE  WarmInv'
<1> USE Bounds DEF WarmInv
<1> DEFINE g == Head(todo)
<1>0. /\ pc = "judge" /\ JudgeOrderDone /\ todo' = Tail(todo)
      /\ UNCHANGED <<server, autoNext, known, autoStopped, auto, saveMu, later, stales,
                     boundVars, mine>>
  BY DEF Judge
<1>1. /\ todo \in Seq(Generations) /\ todo # <<>>
      /\ \A i, j \in DOMAIN todo : todo[i] = todo[j] => i = j
      /\ \A i \in DOMAIN todo : todo[i] # selected
  BY <1>0 DEF RestType, SelectionKnown
<1>2. /\ g \in Generations /\ todo' \in Seq(Generations) /\ g # selected
      /\ Len(todo) # 1 => todo' # <<>>
      /\ \A i, j \in DOMAIN todo' : todo'[i] = todo'[j] => i = j
      /\ \A i \in DOMAIN todo' : todo'[i] # selected /\ todo'[i] # g
  BY <1>0, <1>1, TailDoes
<1>3. pc' \in {"judge", "spawn"} /\ (pc' = "judge" => todo' # <<>>)
  BY <1>0, <1>2 DEF JudgeOrderDone
<1>4. /\ DirType' /\ faults' \in 0..MaxFaults /\ orphans' \subseteq Temporaries
      /\ Leftovers' \subseteq Leftovers /\ orphans \cap DOMAIN dir' \subseteq orphans'
      /\ refused' \subseteq Generations
      /\ \A h \in Generations : Whole(h) /\ (h # g \/ Whole(g)) => Whole(h)'
      /\ selected' = selected \/ (selected' = g /\ Whole(g))
  <2>1. CASE dir' = dir /\ orphans' = orphans /\ (NoFault \/ Fault)
             /\ (refused' = refused \/ refused' = refused \cup {g})
             /\ (selected' = selected \/ (selected' = g /\ Whole(g)))
    <3>1. DirType' /\ Leftovers' = Leftovers /\ \A h \in Generations : Whole(h)' <=> Whole(h)
      BY <2>1, DirUntouched
    <3>2. faults' \in 0..MaxFaults
      BY <2>1 DEF NoFault, Fault, RestType
    <3> QED
      BY <1>2, <2>1, <3>1, <3>2 DEF RestType
  <2>2. CASE Damaged(g) /\ Removal(Pair(g)) /\ UNCHANGED <<selected, refused>>
    <3>1. /\ DirType' /\ faults' \in 0..MaxFaults /\ orphans' \subseteq Temporaries
          /\ DOMAIN dir' \subseteq DOMAIN dir /\ DOMAIN dir \ Pair(g) \subseteq DOMAIN dir'
          /\ \A f \in DOMAIN dir' : dir'[f] = dir[f]
          /\ orphans \cap DOMAIN dir' \subseteq orphans'
      BY <2>2, RemovalDoes
    <3>2. ASSUME NEW h \in Generations, h # g
          PROVE  Whole(h) => Whole(h)'
      <4>1. Pair(h) \cap Pair(g) = {}
        BY <1>2, <3>2, NamesApart
      <4> QED
        BY <3>1, <4>1, WholeKept
    <3>3. ~Whole(g)
      BY <2>2 DEF Damaged
    <3> QED
      BY <2>2, <3>1, <3>2, <3>3 DEF RestType, Leftovers
  <2>3. ~Incomplete(g) /\ ~Damaged(g) => Whole(g)
    BY DEF Damaged
  <2> QED
    BY <2>1, <2>2, <2>3 DEF Judge, NoFault
<1>5. RestType'
  <2>1. selected' \in Generations \cup {None}
    BY <1>2, <1>4 DEF RestType
  <2> QED
    BY <1>0, <1>2, <1>3, <1>4, <2>1 DEF RestType, boundVars
<1>6. MutexKnown'
  BY <1>0, <1>3 DEF MutexKnown, Saving, Launching
<1>7. SelectionKnown'
  <2>1. (selected # None => Whole(selected))'
    <3>1. ASSUME selected' # None
          PROVE  \E h \in Generations : h = selected' /\ Whole(h)'
      <4>1. CASE selected' = selected
        BY <1>0, <1>2, <1>4, <3>1, <4>1 DEF SelectionKnown, RestType
      <4>2. CASE selected' = g /\ Whole(g)
        BY <1>2, <1>4, <4>2
      <4> QED
        BY <1>4, <4>1, <4>2
    <3> QED
      BY <3>1 DEF Whole, Pair, Data, Meta
  <2>2. \A i \in DOMAIN todo' : todo'[i] # selected'
    BY <1>2, <1>4
  <2> QED
    BY <1>2, <1>3, <2>1, <2>2 DEF SelectionKnown
<1>8. AutoKnown'
  BY <1>0, <1>3 DEF AutoKnown, MutexKnown, Autosaving, Launching
<1>9. PreviousSurvives'
  <2>1. mine # None => Whole(mine) /\ mine \in Generations
    BY DEF PreviousSurvives, RestType, Autos, Generations
  <2> QED
    BY <1>0, <1>4, <2>1 DEF PreviousSurvives
<1>10. FilesKnown'
  BY <1>0, <1>3, <1>4 DEF FilesKnown, SaveFiles, Saving, Launching, boundVars
<1>11. TemporariesAccounted'
  <2>1. InProgress' = InProgress
    BY <1>0 DEF InProgress, Tmp, boundVars
  <2>2. Leftovers' \subseteq DOMAIN dir'
    BY DEF Leftovers
  <2> QED
    BY <1>0, <1>4, <2>1, <2>2 DEF TemporariesAccounted
<1> QED
  BY <1>4, <1>5, <1>6, <1>7, <1>8, <1>9, <1>10, <1>11

LEMMA SpawnStep ==
  ASSUME WarmInv, Spawn
  PROVE  WarmInv'
<1> USE Bounds DEF WarmInv, Spawn, NoFault, Fault
<1>0. dir' = dir /\ DirType
  OBVIOUS
<1>1. DirType' /\ Leftovers' = Leftovers /\ \A g \in Generations : Whole(g)' <=> Whole(g)
  BY <1>0, DirUntouched
<1>2. RestType'
  <2>1. server' \in [up : BOOLEAN, state : 0..MaxStates]
    <3>1. \A b \in BOOLEAN : [up |-> b, state |-> 0] \in [up : BOOLEAN, state : 0..MaxStates]
      OBVIOUS
    <3>2. \/ server' = server \/ server' = [up |-> TRUE, state |-> 0]
          \/ server' = [up |-> FALSE, state |-> 0]
      OBVIOUS
    <3> QED
      BY <3>1, <3>2, Zenon DEF RestType
  <2>2. faults' \in 0..MaxFaults
    BY DEF RestType
  <2> QED
    BY <2>1, <2>2 DEF RestType, sessionVars, boundVars
<1>3. MutexKnown'
  BY DEF MutexKnown, Saving, Launching, Autosaving, sessionVars
<1>4. SelectionKnown'
  BY <1>1 DEF SelectionKnown, RestType, sessionVars
<1>5. AutoKnown'
  BY DEF AutoKnown, MutexKnown, RestType, Autosaving, Launching, sessionVars, boundVars
<1>6. PreviousSurvives'
  BY DEF PreviousSurvives
<1>7. FilesKnown'
  BY <1>1 DEF FilesKnown, SaveFiles, Saving, Launching, Tmp, boundVars
<1>8. TemporariesAccounted'
  BY <1>1 DEF TemporariesAccounted, InProgress, Tmp, boundVars
<1> QED
  BY <1>1, <1>2, <1>3, <1>4, <1>5, <1>6, <1>7, <1>8

(* What is restored becomes the fallback, when it is an autosave.            *)
LEMMA RestoreStep ==
  ASSUME WarmInv, Restore
  PROVE  WarmInv'
<1> USE Bounds DEF WarmInv, Restore
<1>0. dir' = dir /\ DirType
  OBVIOUS
<1>1. DirType' /\ Leftovers' = Leftovers /\ \A g \in Generations : Whole(g)' <=> Whole(g)
  BY <1>0, DirUntouched
<1>2. RestType'
  <2>1. selected \in Generations /\ Data(selected) \in DOMAIN dir
    BY DEF SelectionKnown, RestType, Whole, Pair
  <2>2. dir[Data(selected)].of \in 0..MaxStates
    BY <2>1 DEF DirType, Content
  <2>3. autoNext' \in Autos \cup {None} /\ mine' \in Autos \cup {None}
    BY DEF RestType, Other, Autos
  <2> QED
    BY <2>2, <2>3 DEF RestType, boundVars
<1>3. MutexKnown'
  BY DEF MutexKnown, Saving, Launching, Autosaving, sessionVars
<1>4. SelectionKnown'
  BY <1>1 DEF SelectionKnown, RestType, sessionVars
<1>5. AutoKnown'
  <2>1. auto.pc = "idle" /\ later = {}
    BY DEF MutexKnown, FilesKnown, SaveFiles, Launching
  <2>2. mine' # None => autoNext' = Other(mine')
    OBVIOUS
  <2> QED
    BY <2>1, <2>2 DEF AutoKnown, Autosaving
<1>6. PreviousSurvives'
  BY <1>1 DEF PreviousSurvives, SelectionKnown, RestType, Whole, Pair, Data, Meta
<1>7. FilesKnown'
  BY <1>1 DEF FilesKnown, SaveFiles, Saving, Launching, Tmp, boundVars
<1>8. TemporariesAccounted'
  BY <1>1 DEF TemporariesAccounted, InProgress, Tmp, boundVars
<1> QED
  BY <1>1, <1>2, <1>3, <1>4, <1>5, <1>6, <1>7, <1>8

LEMMA RestoreFailsStep ==
  ASSUME WarmInv, RestoreFails
  PROVE  WarmInv'
<1> USE Bounds DEF WarmInv, RestoreFails, Fault
<1>0. dir' = dir /\ DirType
  OBVIOUS
<1>1. DirType' /\ Leftovers' = Leftovers /\ \A g \in Generations : Whole(g)' <=> Whole(g)
  BY <1>0, DirUntouched
<1>2. RestType'
  <2>1. server' \in [up : BOOLEAN, state : 0..MaxStates]
    <3>1. \A b \in BOOLEAN : [up |-> b, state |-> 0] \in [up : BOOLEAN, state : 0..MaxStates]
      OBVIOUS
    <3>2. \/ server' = server \/ server' = [up |-> TRUE, state |-> 0]
          \/ server' = [up |-> FALSE, state |-> 0]
      OBVIOUS
    <3> QED
      BY <3>1, <3>2, Zenon DEF RestType
  <2>2. faults' \in 0..MaxFaults
    BY DEF RestType
  <2> QED
    BY <2>1, <2>2 DEF RestType, sessionVars, boundVars
<1>3. MutexKnown'
  BY DEF MutexKnown, Saving, Launching, Autosaving, sessionVars
<1>4. SelectionKnown'
  BY <1>1 DEF SelectionKnown, RestType, sessionVars
<1>5. AutoKnown'
  BY DEF AutoKnown, MutexKnown, RestType, Autosaving, Launching, sessionVars, boundVars
<1>6. PreviousSurvives'
  BY <1>1 DEF PreviousSurvives, RestType, Autos, Generations
<1>7. FilesKnown'
  BY <1>1 DEF FilesKnown, SaveFiles, Saving, Launching, Tmp, boundVars
<1>8. TemporariesAccounted'
  BY <1>1 DEF TemporariesAccounted, InProgress, Tmp, boundVars
<1> QED
  BY <1>1, <1>2, <1>3, <1>4, <1>5, <1>6, <1>7, <1>8

LEMMA ServeStep ==
  ASSUME WarmInv, Serve
  PROVE  WarmInv'
<1> USE Bounds DEF WarmInv, Serve
<1>0. dir' = dir /\ DirType
  OBVIOUS
<1>1. DirType' /\ Leftovers' = Leftovers /\ \A g \in Generations : Whole(g)' <=> Whole(g)
  BY <1>0, DirUntouched
<1>2. RestType'
  BY SMTT(30) DEF RestType, sessionVars, boundVars
<1>3. MutexKnown'
  BY DEF MutexKnown, Saving, Launching, Autosaving, sessionVars
<1>4. SelectionKnown'
  BY <1>1 DEF SelectionKnown, RestType, sessionVars
<1>5. AutoKnown'
  <2>1. server'.state # 0
    <3>1. states + 1 # 0
      BY DEF RestType
    <3> QED
      BY <3>1 DEF RestType
  <2> QED
    BY <2>1 DEF AutoKnown, MutexKnown, Autosaving, sessionVars
<1>6. PreviousSurvives'
  BY <1>1 DEF PreviousSurvives, RestType, Autos, Generations
<1>7. FilesKnown'
  BY <1>1 DEF FilesKnown, SaveFiles, Saving, Launching, Tmp, boundVars
<1>8. TemporariesAccounted'
  BY <1>1 DEF TemporariesAccounted, InProgress, Tmp, boundVars
<1> QED
  BY <1>1, <1>2, <1>3, <1>4, <1>5, <1>6, <1>7, <1>8

LEMMA WatchStep ==
  ASSUME WarmInv, Watch
  PROVE  WarmInv'
<1> USE Bounds DEF WarmInv, Watch, AutoAt, AutoVars
<1>0. dir' = dir /\ DirType
  OBVIOUS
<1>1. DirType' /\ Leftovers' = Leftovers /\ \A g \in Generations : Whole(g)' <=> Whole(g)
  BY <1>0, DirUntouched
<1>2. RestType'
  BY DEF RestType, sessionVars, boundVars
<1>3. MutexKnown'
  BY DEF MutexKnown, Saving, Launching, Autosaving, sessionVars
<1>4. SelectionKnown'
  BY <1>1 DEF SelectionKnown, RestType, sessionVars
<1>5. AutoKnown'
  BY DEF AutoKnown, MutexKnown, RestType, Autosaving, Launching, sessionVars, boundVars
<1>6. PreviousSurvives'
  BY <1>1 DEF PreviousSurvives, RestType, Autos, Generations
<1>7. FilesKnown'
  BY <1>1 DEF FilesKnown, SaveFiles, Saving, Launching, Tmp, boundVars
<1>8. TemporariesAccounted'
  BY <1>1 DEF TemporariesAccounted, InProgress, Tmp, boundVars
<1> QED
  BY <1>1, <1>2, <1>3, <1>4, <1>5, <1>6, <1>7, <1>8

LEMMA TickStep ==
  ASSUME WarmInv, Tick
  PROVE  WarmInv'
<1> USE Bounds DEF WarmInv, Tick, AutoAt, AutoVars, WorthSaving
<1>0. dir' = dir /\ DirType
  OBVIOUS
<1>1. DirType' /\ Leftovers' = Leftovers /\ \A g \in Generations : Whole(g)' <=> Whole(g)
  BY <1>0, DirUntouched
<1>2. RestType'
  BY SMTT(30) DEF RestType, sessionVars, boundVars
<1>3. MutexKnown'
  BY DEF MutexKnown, Saving, Launching, Autosaving, sessionVars
<1>4. SelectionKnown'
  BY <1>1 DEF SelectionKnown, RestType, sessionVars
<1>5. AutoKnown'
  BY DEF AutoKnown, MutexKnown, RestType, Autosaving, Launching, sessionVars, boundVars
<1>6. PreviousSurvives'
  BY <1>1 DEF PreviousSurvives, RestType, Autos, Generations
<1>7. FilesKnown'
  BY <1>1 DEF FilesKnown, SaveFiles, Saving, Launching, Tmp, boundVars
<1>8. TemporariesAccounted'
  BY <1>1 DEF TemporariesAccounted, InProgress, Tmp, boundVars
<1> QED
  BY <1>1, <1>2, <1>3, <1>4, <1>5, <1>6, <1>7, <1>8

LEMMA RequestStopStep ==
  ASSUME WarmInv, NEW save \in BOOLEAN, RequestStop(save)
  PROVE  WarmInv'
<1> USE Bounds DEF WarmInv, RequestStop, StopVars
<1>0. dir' = dir /\ DirType
  OBVIOUS
<1>1. DirType' /\ Leftovers' = Leftovers /\ \A g \in Generations : Whole(g)' <=> Whole(g)
  BY <1>0, DirUntouched
<1>2. RestType'
  BY DEF RestType, sessionVars, boundVars
<1>3. MutexKnown'
  BY DEF MutexKnown, Saving, Launching, Autosaving, sessionVars
<1>4. SelectionKnown'
  BY <1>1 DEF SelectionKnown, RestType, sessionVars
<1>5. AutoKnown'
  BY DEF AutoKnown, MutexKnown, RestType, Autosaving, Launching, sessionVars, boundVars
<1>6. PreviousSurvives'
  BY <1>1 DEF PreviousSurvives, RestType, Autos, Generations
<1>7. FilesKnown'
  BY <1>1 DEF FilesKnown, SaveFiles, Saving, Launching, Tmp, boundVars
<1>8. TemporariesAccounted'
  BY <1>1 DEF TemporariesAccounted, InProgress, Tmp, boundVars
<1> QED
  BY <1>1, <1>2, <1>3, <1>4, <1>5, <1>6, <1>7, <1>8

LEMMA NoSaveStep ==
  ASSUME WarmInv, NoSave
  PROVE  WarmInv'
<1> USE Bounds DEF WarmInv, NoSave, NoFault, Fault, StopVars
<1>0. dir' = dir /\ DirType
  OBVIOUS
<1>1. DirType' /\ Leftovers' = Leftovers /\ \A g \in Generations : Whole(g)' <=> Whole(g)
  BY <1>0, DirUntouched
<1>2. RestType'
  BY DEF RestType, sessionVars, boundVars
<1>3. MutexKnown'
  BY DEF MutexKnown, Saving, Launching, Autosaving, sessionVars
<1>4. SelectionKnown'
  BY <1>1 DEF SelectionKnown, RestType, sessionVars
<1>5. AutoKnown'
  BY DEF AutoKnown, MutexKnown, RestType, Autosaving, Launching, sessionVars, boundVars
<1>6. PreviousSurvives'
  BY <1>1 DEF PreviousSurvives, RestType, Autos, Generations
<1>7. FilesKnown'
  BY <1>1 DEF FilesKnown, SaveFiles, Saving, Launching, Tmp, boundVars
<1>8. TemporariesAccounted'
  BY <1>1 DEF TemporariesAccounted, InProgress, Tmp, boundVars
<1> QED
  BY <1>1, <1>2, <1>3, <1>4, <1>5, <1>6, <1>7, <1>8

(* The temporary file of a save without an answer is for the cleanup.       *)
LEMMA SaveLostAnswerStep ==
  ASSUME WarmInv, SaveLostAnswer
  PROVE  WarmInv'
<1> USE Bounds DEF WarmInv, SaveLostAnswer, EndSave, NoFault, Fault, StopVars
<1>0. dir' = dir /\ DirType
  OBVIOUS
<1>1. DirType' /\ Leftovers' = Leftovers /\ \A g \in Generations : Whole(g)' <=> Whole(g)
  BY <1>0, DirUntouched
<1>10. /\ Tmp("data") \in Temporaries /\ Tmp("data") \notin Finals
       /\ mine # None => Tmp("data") \notin Pair(mine)
  <2>1. clock \in 1..MaxSaves
    BY DEF FilesKnown, SaveFiles, RestType, Saving
  <2>2. Tmp("data") \in Temporaries /\ Tmp("data") \notin Finals
    BY <2>1, NamesApart DEF Tmp
  <2>3. mine # None => Pair(mine) \subseteq Finals
    BY NamesApart DEF RestType, Autos, Generations
  <2> QED
    BY <2>2, <2>3
<1>2. RestType'
  <2>1. faults' \in 0..MaxFaults
    BY DEF RestType
  <2>2. later' \subseteq Names
    BY <1>10 DEF RestType, Names
  <2> QED
    BY <2>1, <2>2 DEF RestType, sessionVars
<1>3. MutexKnown'
  BY DEF MutexKnown, Saving, Launching, Autosaving, sessionVars
<1>4. SelectionKnown'
  BY <1>1 DEF SelectionKnown, RestType, sessionVars
<1>5. AutoKnown'
  BY <1>10 DEF AutoKnown, MutexKnown, RestType, Autosaving, Launching, sessionVars, boundVars
<1>6. PreviousSurvives'
  BY <1>1 DEF PreviousSurvives, RestType, Autos, Generations
<1>7. FilesKnown'
  BY <1>1 DEF FilesKnown, SaveFiles, Saving, Launching, Tmp, boundVars
<1>8. TemporariesAccounted'
  <2>1. InProgress = {Tmp("data"), Tmp("meta")} /\ Tmp("meta") \notin DOMAIN dir
    BY DEF InProgress, MutexKnown, Saving, FilesKnown, SaveFiles
  <2>2. Leftovers \subseteq later' \cup stales \cup orphans
    BY <2>1 DEF TemporariesAccounted, Leftovers
  <2> QED
    BY <1>1, <2>2 DEF TemporariesAccounted
<1> QED
  BY <1>1, <1>2, <1>3, <1>4, <1>5, <1>6, <1>7, <1>8

LEMMA SignalStep ==
  ASSUME WarmInv, Signal
  PROVE  WarmInv'
<1> USE Bounds DEF WarmInv, Signal, StopVars
<1>0. dir' = dir /\ DirType
  OBVIOUS
<1>1. DirType' /\ Leftovers' = Leftovers /\ \A g \in Generations : Whole(g)' <=> Whole(g)
  BY <1>0, DirUntouched
<1>2. RestType'
  BY DEF RestType, sessionVars, boundVars
<1>3. MutexKnown'
  BY DEF MutexKnown, Saving, Launching, Autosaving, sessionVars
<1>4. SelectionKnown'
  BY <1>1 DEF SelectionKnown, RestType, sessionVars
<1>5. AutoKnown'
  BY DEF AutoKnown, MutexKnown, RestType, Autosaving, Launching, sessionVars, boundVars
<1>6. PreviousSurvives'
  BY <1>1 DEF PreviousSurvives, RestType, Autos, Generations
<1>7. FilesKnown'
  BY <1>1 DEF FilesKnown, SaveFiles, Saving, Launching, Tmp, boundVars
<1>8. TemporariesAccounted'
  BY <1>1 DEF TemporariesAccounted, InProgress, Tmp, boundVars
<1> QED
  BY <1>1, <1>2, <1>3, <1>4, <1>5, <1>6, <1>7, <1>8

LEMMA ServerDiesStep ==
  ASSUME WarmInv, ServerDies
  PROVE  WarmInv'
<1> USE Bounds DEF WarmInv, ServerDies, Fault
<1>0. dir' = dir /\ DirType
  OBVIOUS
<1>1. DirType' /\ Leftovers' = Leftovers /\ \A g \in Generations : Whole(g)' <=> Whole(g)
  BY <1>0, DirUntouched
<1>2. RestType'
  BY DEF RestType, sessionVars, boundVars
<1>3. MutexKnown'
  BY DEF MutexKnown, Saving, Launching, Autosaving, sessionVars
<1>4. SelectionKnown'
  BY <1>1 DEF SelectionKnown, RestType, sessionVars
<1>5. AutoKnown'
  BY DEF AutoKnown, MutexKnown, RestType, Autosaving, Launching, sessionVars, boundVars
<1>6. PreviousSurvives'
  BY <1>1 DEF PreviousSurvives, RestType, Autos, Generations
<1>7. FilesKnown'
  BY <1>1 DEF FilesKnown, SaveFiles, Saving, Launching, Tmp, boundVars
<1>8. TemporariesAccounted'
  BY <1>1 DEF TemporariesAccounted, InProgress, Tmp, boundVars
<1> QED
  BY <1>1, <1>2, <1>3, <1>4, <1>5, <1>6, <1>7, <1>8

LEMMA WatchSeesStep ==
  ASSUME WarmInv, WatchSees
  PROVE  WarmInv'
<1> USE Bounds DEF WarmInv, WatchSees, AutoAt
<1>0. dir' = dir /\ DirType
  OBVIOUS
<1>1. DirType' /\ Leftovers' = Leftovers /\ \A g \in Generations : Whole(g)' <=> Whole(g)
  BY <1>0, DirUntouched
<1>2. RestType'
  BY DEF RestType, sessionVars, boundVars
<1>3. MutexKnown'
  BY DEF MutexKnown, Saving, Launching, Autosaving, sessionVars
<1>4. SelectionKnown'
  BY <1>1 DEF SelectionKnown, RestType, sessionVars
<1>5. AutoKnown'
  BY DEF AutoKnown, MutexKnown, RestType, Autosaving, Launching, sessionVars, boundVars
<1>6. PreviousSurvives'
  BY <1>1 DEF PreviousSurvives, RestType, Autos, Generations
<1>7. FilesKnown'
  BY <1>1 DEF FilesKnown, SaveFiles, Saving, Launching, Tmp, boundVars
<1>8. TemporariesAccounted'
  BY <1>1 DEF TemporariesAccounted, InProgress, Tmp, boundVars
<1> QED
  BY <1>1, <1>2, <1>3, <1>4, <1>5, <1>6, <1>7, <1>8

(* After a crash all temporary files wait for the next sweep.               *)
LEMMA CrashStep ==
  ASSUME WarmInv, Crash
  PROVE  WarmInv'
<1> USE Bounds DEF WarmInv, Crash, Fault
<1>0. dir' = dir /\ DirType
  OBVIOUS
<1>1. DirType' /\ Leftovers' = Leftovers /\ \A g \in Generations : Whole(g)' <=> Whole(g)
  BY <1>0, DirUntouched
<1>2. RestType'
  <2>1. server' \in [up : BOOLEAN, state : 0..MaxStates]
    BY DEF RestType
  <2>2. faults' \in 0..MaxFaults
    BY DEF RestType
  <2>3. todo' \in Seq(Generations) /\ orphans' \subseteq Temporaries
    BY EmptySeq DEF Leftovers
  <2>4. auto' \in [pc : {"idle", "armed", "want", "api", "meta", "sidecar"},
                   gen : Autos \cup {None}]
    OBVIOUS
  <2> QED
    BY <2>1, <2>2, <2>3, <2>4 DEF RestType, sessionVars, boundVars
<1>3. MutexKnown'
  BY DEF MutexKnown, Saving, Launching, Autosaving, sessionVars
<1>4. SelectionKnown'
  BY <1>1 DEF SelectionKnown, RestType, sessionVars
<1>5. AutoKnown'
  BY DEF AutoKnown, MutexKnown, RestType, Autosaving, Launching, sessionVars, boundVars
<1>6. PreviousSurvives'
  BY <1>1 DEF PreviousSurvives, RestType, Autos, Generations
<1>7. FilesKnown'
  BY <1>1 DEF FilesKnown, SaveFiles, Saving, Launching, Tmp, boundVars
<1>8. TemporariesAccounted'
  BY <1>1 DEF TemporariesAccounted, InProgress, Tmp, boundVars
<1> QED
  BY <1>1, <1>2, <1>3, <1>4, <1>5, <1>6, <1>7, <1>8

-----------------------------------------------------------------------------
(* An autosave touches one generation, which is not the fallback; no start  *)
(* and no save of a stop is under way.                                      *)
LEMMA AutoFrame ==
  ASSUME WarmInv, NEW g \in Autos, mine # g,
         auto.pc # "idle", saveMu # "stop", saveMu' # "stop",
         saveMu' = "auto" <=> auto'.pc \in Autosaving,
         UNCHANGED <<AutoVars, stales, orphans>>,
         later \subseteq later', later' \subseteq later \cup Pair(g),
         clock' \in Nat, clock <= clock',
         DOMAIN dir \ Pair(g) \subseteq DOMAIN dir', DOMAIN dir' \subseteq DOMAIN dir \cup Pair(g),
         \A f \in DOMAIN dir \ Pair(g) : dir'[f] = dir[f]
  PROVE  /\ MutexKnown' /\ SelectionKnown' /\ FilesKnown' /\ TemporariesAccounted'
         /\ mine' = mine => PreviousSurvives'
<1> USE Bounds DEF WarmInv, AutoVars
<1>1. pc \notin Saving /\ pc \notin Launching
  BY DEF MutexKnown
<1>2. Pair(g) \subseteq Finals /\ Pair(g) \cap Temporaries = {}
  BY NamesApart DEF Autos, Generations
<1>3. Leftovers' = Leftovers
  <2>1. DOMAIN dir' \cap Temporaries = DOMAIN dir \cap Temporaries
    BY <1>2
  <2> QED
    BY <2>1 DEF Leftovers, Temporaries
<1>4. MutexKnown'
  BY <1>1 DEF MutexKnown
<1>5. SelectionKnown'
  BY <1>1 DEF SelectionKnown, Launching
<1>6. FilesKnown'
  <2>1. \A f \in Leftovers' : f[3] <= clock'
    <3>1. clock \in Nat
      BY DEF RestType
    <3>2. \A f \in Leftovers : f[3] \in Nat /\ f[3] <= clock
      BY DEF FilesKnown, SaveFiles, Leftovers, Temporaries
    <3> QED
      BY <1>3, <3>1, <3>2
  <2>2. (pc = "down" => stales = {} /\ later \cap Temporaries = {})'
    BY <1>2 DEF FilesKnown, SaveFiles
  <2> QED
    BY <1>1, <2>1, <2>2 DEF FilesKnown, SaveFiles, Saving, Launching
<1>7. TemporariesAccounted'
  <2>1. InProgress = {}
    BY DEF InProgress
  <2> QED
    BY <1>3, <2>1 DEF TemporariesAccounted
<1>8. mine' = mine => PreviousSurvives'
  <2>1. ASSUME mine # None
        PROVE  Whole(mine) /\ \A f \in Pair(mine) : f \in DOMAIN dir' /\ dir'[f] = dir[f]
    <3>1. Pair(mine) \cap Pair(g) = {}
      BY <2>1, NamesApart DEF RestType, Autos, Generations
    <3> QED
      BY <2>1, <3>1 DEF PreviousSurvives, Whole
  <2> QED
    BY <2>1 DEF PreviousSurvives, Whole, Pair, Data, Meta
<1> QED
  BY <1>4, <1>5, <1>6, <1>7, <1>8

(* The generation an autosave is about to write into is not the fallback.   *)
LEMMA TargetApart ==
  ASSUME WarmInv, auto.pc # "idle"
  PROVE  /\ Target \in Autos
         /\ mine # None => Target = Other(mine) /\ mine # Target
<1>1. Target \in Autos
  BY DEF Target, OlderOne, WarmInv, RestType, Autos
<1>2. mine # None => autoNext = Other(mine) /\ Other(mine) # None /\ Other(mine) # mine
  BY DEF WarmInv, AutoKnown, RestType, Other, Autos, None
<1> QED
  BY <1>1, <1>2 DEF Target

LEMMA AutoBeginStep ==
  ASSUME WarmInv, AutoBegin
  PROVE  WarmInv'
<1> USE Bounds
<1>0. /\ auto.pc = "want" /\ saveMu = "free" /\ clock < MaxSaves /\ autoNext' = Target
      /\ UNCHANGED <<AutoVars, known, stales, orphans, mine>>
  BY DEF AutoBegin
<1>1. Target \in Autos /\ mine # Target /\ (mine # None => Target = Other(mine))
  BY <1>0, TargetApart DEF Autos, None
<1>2. clock \in Nat /\ faults \in 0..MaxFaults /\ DirType
  BY DEF WarmInv, RestType
<1>3. /\ Pair(Target) \subseteq Finals /\ Pair(Target) \subseteq Names
      /\ mine # None => Pair(mine) \cap Pair(Target) = {}
  BY <1>1, NamesApart DEF WarmInv, RestType, Autos, Generations, Names
<1>4. later \cap Finals = {}
  BY <1>0 DEF WarmInv, AutoKnown
<1>5. CASE /\ server.up /\ saveMu' = "auto" /\ clock' = clock + 1
           /\ auto' = [pc |-> "api", gen |-> Target]
           /\ dir' = Put(dir, Data(Target), Torn)
           /\ NoFault /\ UNCHANGED <<autoStopped, later>>
  <2>1. /\ DOMAIN dir' = DOMAIN dir \cup {Data(Target)}
        /\ \A f \in DOMAIN dir : f # Data(Target) => dir'[f] = dir[f]
    BY <1>5 DEF Put
  <2>2. DirType'
    <3>1. Torn \in Content /\ Data(Target) \in Names
      BY <1>3 DEF Torn, Content, Pair
    <3> QED
      BY <1>2, <1>5, <3>1, DirPut
  <2>3. RestType'
    <3>1. auto' \in [pc : {"idle", "armed", "want", "api", "meta", "sidecar"},
                     gen : Autos \cup {None}]
      BY <1>1, <1>5
    <3>2. clock' \in 0..MaxSaves
      BY <1>0, <1>2, <1>5
    <3> QED
      BY <1>0, <1>1, <1>5, <3>1, <3>2 DEF WarmInv, RestType, AutoVars, NoFault
  <2>4. AutoKnown'
    BY <1>0, <1>1, <1>4, <1>5 DEF WarmInv, AutoKnown, AutoVars, Autosaving
  <2>5. /\ MutexKnown' /\ SelectionKnown' /\ FilesKnown' /\ TemporariesAccounted'
        /\ PreviousSurvives'
    <3>1. clock' \in Nat /\ clock <= clock' /\ saveMu' # "stop"
      BY <1>2, <1>5
    <3>2. Data(Target) \in Pair(Target)
      BY DEF Pair
    <3>3. saveMu' = "auto" <=> auto'.pc \in Autosaving
      BY <1>5 DEF Autosaving
    <3> QED
      BY <1>0, <1>1, <1>5, <2>1, <3>1, <3>2, <3>3, AutoFrame
  <2> QED
    BY <2>2, <2>3, <2>4, <2>5 DEF WarmInv
<1>6. CASE /\ AutoEnd /\ UNCHANGED <<dir, clock>> /\ faults' \in 0..MaxFaults
           /\ \/ AutoLost(Target) /\ ~server.up
              \/ UNCHANGED <<autoStopped, later>>
  <2>1. /\ auto' = [pc |-> "idle", gen |-> None] /\ saveMu' = "free"
        /\ autoStopped' \in BOOLEAN
        /\ later \subseteq later' /\ later' \subseteq later \cup Pair(Target)
        /\ later' # later => autoStopped'
    BY <1>6 DEF AutoEnd, AutoLost, WarmInv, RestType
  <2>2. DirType'
    BY <1>2, <1>6, DirUntouched
  <2>3. RestType'
    <3>1. auto' \in [pc : {"idle", "armed", "want", "api", "meta", "sidecar"},
                     gen : Autos \cup {None}]
      BY <2>1
    <3>2. later' \subseteq Names
      BY <1>3, <2>1 DEF WarmInv, RestType
    <3> QED
      BY <1>0, <1>1, <1>6, <2>1, <3>1, <3>2 DEF WarmInv, RestType, AutoVars
  <2>4. AutoKnown'
    <3>1. mine # None => Pair(mine) \cap later' = {}
      BY <1>3, <2>1 DEF WarmInv, AutoKnown
    <3>2. later' \cap Finals # {} => autoStopped'
      BY <1>4, <2>1
    <3> QED
      BY <1>0, <1>1, <2>1, <3>1, <3>2 DEF AutoKnown, Autosaving
  <2>5. /\ MutexKnown' /\ SelectionKnown' /\ FilesKnown' /\ TemporariesAccounted'
        /\ PreviousSurvives'
    <3>1. clock' \in Nat /\ clock <= clock' /\ saveMu' # "stop"
      BY <1>2, <1>6, <2>1
    <3>2. saveMu' = "auto" <=> auto'.pc \in Autosaving
      BY <2>1 DEF Autosaving
    <3> QED
      BY <1>0, <1>1, <1>6, <2>1, <3>1, <3>2, AutoFrame
  <2> QED
    BY <2>2, <2>3, <2>4, <2>5 DEF WarmInv
<1>7. (NoFault \/ Fault) => faults' \in 0..MaxFaults
  BY <1>2 DEF NoFault, Fault
<1> QED
  BY <1>5, <1>6, <1>7 DEF AutoBegin, AutoLost

(* What is known while an autosave is under way.                            *)
LEMMA AutoUnderWay ==
  ASSUME WarmInv, auto.pc \in Autosaving
  PROVE  /\ auto.gen \in Autos /\ autoNext = auto.gen /\ saveMu = "auto"
         /\ mine # auto.gen /\ clock \in Nat /\ DirType
         /\ mine # None => autoNext = Other(mine) /\ Pair(mine) \cap Pair(auto.gen) = {}
         /\ later \cap Finals = {}
         /\ Pair(auto.gen) \subseteq Finals /\ Pair(auto.gen) \subseteq Names
         /\ Data(auto.gen) # Meta(auto.gen) /\ auto.pc # "idle"
         /\ auto = [pc |-> auto.pc, gen |-> auto.gen]
<1>1. /\ auto.gen \in Autos /\ autoNext = auto.gen /\ saveMu = "auto" /\ auto.pc # "idle"
      /\ later \cap Finals = {} /\ clock \in Nat /\ DirType
      /\ auto = [pc |-> auto.pc, gen |-> auto.gen]
  BY DEF WarmInv, AutoKnown, MutexKnown, Autosaving, RestType
<1>2. mine # None => autoNext = Other(mine) /\ Other(mine) # mine
  BY <1>1 DEF WarmInv, AutoKnown, RestType, Other, Autos, None
<1>3. mine # auto.gen
  BY <1>1, <1>2 DEF Autos, None
<1>4. /\ Pair(auto.gen) \subseteq Finals /\ Pair(auto.gen) \subseteq Names
      /\ Data(auto.gen) # Meta(auto.gen)
  BY <1>1, NamesApart DEF Autos, Generations, Names
<1>5. mine # None => Pair(mine) \cap Pair(auto.gen) = {}
  BY <1>1, <1>3, NamesApart DEF WarmInv, RestType, Autos, Generations
<1> QED
  BY <1>1, <1>2, <1>3, <1>4, <1>5

LEMMA AutoWrittenStep ==
  ASSUME WarmInv, AutoWritten
  PROVE  WarmInv'
<1> USE Bounds
<1> DEFINE g == auto.gen
<1>0. /\ auto.pc = "api" /\ auto.pc \in Autosaving /\ server.up
      /\ dir' = Put(dir, Data(g), [of |-> server.state, at |-> 0])
      /\ auto' = [auto EXCEPT !.pc = "meta"]
      /\ UNCHANGED <<AutoVars, saveMu, autoNext, known, autoStopped, later, stales, clock,
                     faults, orphans, mine>>
  BY DEF AutoWritten, AutoAt, Autosaving
<1>1. /\ g \in Autos /\ autoNext = g /\ saveMu = "auto" /\ mine # g /\ clock \in Nat /\ DirType
      /\ later \cap Finals = {} /\ Pair(g) \subseteq Names /\ auto.pc # "idle"
      /\ mine # None => autoNext = Other(mine)
      /\ auto = [pc |-> auto.pc, gen |-> g]
  BY <1>0, AutoUnderWay
<1>2. server.state \in 0..MaxStates /\ server.state # 0
  BY <1>0 DEF WarmInv, RestType, AutoKnown
<1>3. /\ DOMAIN dir' = DOMAIN dir \cup {Data(g)} /\ Data(g) \in Pair(g)
      /\ \A f \in DOMAIN dir : f # Data(g) => dir'[f] = dir[f]
      /\ dir'[Data(g)].of = server.state
  BY <1>0 DEF Put, Pair
<1>4. auto' = [pc |-> "meta", gen |-> g]
  BY <1>0, <1>1
<1>5. DirType'
  <2>1. [of |-> server.state, at |-> 0] \in Content /\ Data(g) \in Names
    BY <1>1, <1>2, <1>3 DEF Content
  <2> QED
    BY <1>0, <1>1, <2>1, DirPut
<1>6. RestType'
  BY <1>0, <1>1, <1>4 DEF WarmInv, RestType, AutoVars
<1>7. AutoKnown'
  BY <1>0, <1>1, <1>2, <1>3, <1>4 DEF WarmInv, AutoKnown, AutoVars, Autosaving
<1>8. /\ MutexKnown' /\ SelectionKnown' /\ FilesKnown' /\ TemporariesAccounted'
      /\ PreviousSurvives'
  <2>1. saveMu' = "auto" <=> auto'.pc \in Autosaving
    BY <1>0, <1>1, <1>4 DEF Autosaving
  <2>2. clock' \in Nat /\ clock <= clock' /\ saveMu' # "stop" /\ saveMu # "stop"
    BY <1>0, <1>1
  <2> QED
    BY <1>0, <1>1, <1>3, <2>1, <2>2, AutoFrame
<1> QED
  BY <1>5, <1>6, <1>7, <1>8 DEF WarmInv

(* An autosave that is given up: what it wrote may go, all or part of it.   *)
LEMMA AutoGivenUp ==
  ASSUME WarmInv, auto.pc \in Autosaving, AutoEnd, faults' \in 0..MaxFaults, DirType',
         DOMAIN dir \ Pair(auto.gen) \subseteq DOMAIN dir',
         DOMAIN dir' \subseteq DOMAIN dir \cup Pair(auto.gen),
         \A f \in DOMAIN dir \ Pair(auto.gen) : dir'[f] = dir[f],
         UNCHANGED <<AutoVars, autoNext, known, stales, clock, orphans, mine>>,
         \/ UNCHANGED <<autoStopped, later>>
         \/ autoStopped' = TRUE /\ later' = later \cup Pair(auto.gen)
  PROVE  WarmInv'
<1> USE Bounds
<1> DEFINE g == auto.gen
<1>1. /\ g \in Autos /\ autoNext = g /\ saveMu = "auto" /\ mine # g /\ clock \in Nat
      /\ later \cap Finals = {} /\ Pair(g) \subseteq Names /\ auto.pc # "idle"
      /\ mine # None => autoNext = Other(mine) /\ Pair(mine) \cap Pair(g) = {}
  BY AutoUnderWay
<1>2. /\ auto' = [pc |-> "idle", gen |-> None] /\ saveMu' = "free"
      /\ autoStopped' \in BOOLEAN
      /\ later \subseteq later' /\ later' \subseteq later \cup Pair(g)
      /\ later' # later => autoStopped'
  BY DEF AutoEnd, WarmInv, RestType
<1>3. RestType'
  <2>1. auto' \in [pc : {"idle", "armed", "want", "api", "meta", "sidecar"},
                   gen : Autos \cup {None}]
    BY <1>2
  <2>2. later' \subseteq Names
    BY <1>1, <1>2 DEF WarmInv, RestType
  <2> QED
    BY <1>1, <1>2, <2>1, <2>2 DEF WarmInv, RestType, AutoVars
<1>4. AutoKnown'
  <2>1. mine # None => Pair(mine) \cap later' = {}
    BY <1>1, <1>2 DEF WarmInv, AutoKnown
  <2>2. later' \cap Finals # {} => autoStopped'
    BY <1>1, <1>2
  <2> QED
    BY <1>1, <1>2, <2>1, <2>2 DEF AutoKnown, Autosaving
<1>5. /\ MutexKnown' /\ SelectionKnown' /\ FilesKnown' /\ TemporariesAccounted'
      /\ PreviousSurvives'
  <2>1. saveMu' = "auto" <=> auto'.pc \in Autosaving
    BY <1>2 DEF Autosaving
  <2>2. clock' \in Nat /\ clock <= clock' /\ saveMu' # "stop" /\ saveMu # "stop"
    BY <1>1, <1>2
  <2> QED
    BY <1>1, <1>2, <2>1, <2>2, AutoFrame
<1> QED
  BY <1>3, <1>4, <1>5 DEF WarmInv

LEMMA AutoRefusedStep ==
  ASSUME WarmInv, AutoRefused \/ AutoMetaFails
  PROVE  WarmInv'
<1> USE Bounds
<1> DEFINE g == auto.gen
<1>0. /\ auto.pc \in Autosaving /\ AutoEnd /\ faults < MaxFaults /\ faults' = faults + 1
      /\ \E fs \in SUBSET Pair(g) : dir' = Without(dir, fs)
      /\ UNCHANGED <<AutoVars, autoNext, known, autoStopped, later, stales, clock, orphans,
                     mine>>
  BY DEF AutoRefused, AutoMetaFails, Autosaving
<1>1. PICK fs \in SUBSET Pair(g) : dir' = Without(dir, fs)
  BY <1>0
<1>2. DirType' /\ faults' \in 0..MaxFaults
  BY <1>0, <1>1, DirWithout DEF WarmInv, RestType
<1>3. DOMAIN dir' = DOMAIN dir \ fs /\ \A f \in DOMAIN dir' : dir'[f] = dir[f]
  BY <1>1 DEF Without
<1> QED
  BY <1>0, <1>2, <1>3, AutoGivenUp

LEMMA AutoLostAnswerStep ==
  ASSUME WarmInv, AutoLostAnswer
  PROVE  WarmInv'
<1> USE Bounds
<1> DEFINE g == auto.gen
<1>0. /\ auto.pc = "api" /\ auto.pc \in Autosaving /\ AutoEnd /\ (NoFault \/ Fault)
      /\ autoStopped' = TRUE /\ later' = later \cup Pair(g)
      /\ dir' = dir \/ (server.up /\ dir' = Put(dir, Data(g), [of |-> server.state, at |-> 0]))
      /\ UNCHANGED <<AutoVars, autoNext, known, stales, clock, orphans, mine>>
  BY DEF AutoLostAnswer, AutoLost, Autosaving
<1>1. DirType /\ Pair(g) \subseteq Names /\ server.state \in 0..MaxStates
  BY <1>0, AutoUnderWay DEF WarmInv, RestType
<1>2. faults' \in 0..MaxFaults
  BY <1>0 DEF NoFault, Fault, WarmInv, RestType
<1>3. Data(g) \in Pair(g) /\ Data(g) \in Names /\ [of |-> server.state, at |-> 0] \in Content
  BY <1>1 DEF Pair, Content
<1>4. DirType'
  BY <1>0, <1>1, <1>3, DirPut, DirUntouched
<1>5. /\ DOMAIN dir \subseteq DOMAIN dir' /\ DOMAIN dir' \subseteq DOMAIN dir \cup {Data(g)}
      /\ \A f \in DOMAIN dir : f # Data(g) => dir'[f] = dir[f]
  BY <1>0 DEF Put
<1> QED
  BY <1>0, <1>2, <1>3, <1>4, <1>5, AutoGivenUp

LEMMA AutoMetaStep ==
  ASSUME WarmInv, AutoMeta
  PROVE  WarmInv'
<1> USE Bounds
<1> DEFINE g == auto.gen
<1>0. /\ auto.pc = "meta" /\ auto.pc \in Autosaving
      /\ dir' = Put(dir, Meta(g), Torn) /\ auto' = [auto EXCEPT !.pc = "sidecar"]
      /\ UNCHANGED <<AutoVars, saveMu, autoNext, known, autoStopped, later, stales, clock,
                     faults, orphans, mine>>
  BY DEF AutoMeta, AutoAt, Autosaving
<1>1. /\ g \in Autos /\ autoNext = g /\ saveMu = "auto" /\ mine # g /\ clock \in Nat /\ DirType
      /\ later \cap Finals = {} /\ Pair(g) \subseteq Names /\ auto.pc # "idle"
      /\ mine # None => autoNext = Other(mine)
      /\ Data(g) # Meta(g) /\ auto = [pc |-> auto.pc, gen |-> g]
  BY <1>0, AutoUnderWay
<1>2. /\ DOMAIN dir' = DOMAIN dir \cup {Meta(g)} /\ Meta(g) \in Pair(g)
      /\ \A f \in DOMAIN dir : f # Meta(g) => dir'[f] = dir[f]
  BY <1>0 DEF Put, Pair
<1>3. auto' = [pc |-> "sidecar", gen |-> g]
  BY <1>0, <1>1
<1>4. DirType'
  <2>1. Torn \in Content /\ Meta(g) \in Names
    BY <1>1, <1>2 DEF Content, Torn
  <2> QED
    BY <1>0, <1>1, <2>1, DirPut
<1>5. RestType'
  BY <1>0, <1>1, <1>3 DEF WarmInv, RestType, AutoVars
<1>6. AutoKnown'
  <2>1. Data(g) \in DOMAIN dir' /\ dir'[Data(g)].of # 0
    BY <1>0, <1>1, <1>2 DEF WarmInv, AutoKnown
  <2> QED
    BY <1>0, <1>1, <1>3, <2>1 DEF WarmInv, AutoKnown, AutoVars, Autosaving
<1>7. /\ MutexKnown' /\ SelectionKnown' /\ FilesKnown' /\ TemporariesAccounted'
      /\ PreviousSurvives'
  <2>1. saveMu' = "auto" <=> auto'.pc \in Autosaving
    BY <1>0, <1>1, <1>3 DEF Autosaving
  <2>2. clock' \in Nat /\ clock <= clock' /\ saveMu' # "stop" /\ saveMu # "stop"
    BY <1>0, <1>1
  <2> QED
    BY <1>0, <1>1, <1>2, <2>1, <2>2, AutoFrame
<1> QED
  BY <1>4, <1>5, <1>6, <1>7 DEF WarmInv

(* A complete autosave is the new fallback.                                 *)
LEMMA AutoDoneStep ==
  ASSUME WarmInv, AutoDone
  PROVE  WarmInv'
<1> USE Bounds
<1> DEFINE g == auto.gen
           n == dir[Data(g)].of
<1>0. /\ auto.pc = "sidecar" /\ auto.pc \in Autosaving
      /\ dir' = Put(dir, Meta(g), [of |-> n, at |-> clock]) /\ known' = n
      /\ autoNext' = Other(g) /\ mine' = g
      /\ auto' = [pc |-> "idle", gen |-> None] /\ saveMu' = "free"
      /\ UNCHANGED <<AutoVars, autoStopped, later, stales, clock, faults, orphans>>
  BY DEF AutoDone, AutoEnd, Autosaving
<1>1. /\ g \in Autos /\ saveMu = "auto" /\ mine # g /\ clock \in 0..MaxSaves /\ DirType
      /\ later \cap Finals = {} /\ Pair(g) \subseteq Names /\ Pair(g) \subseteq Finals
      /\ auto.pc # "idle" /\ Data(g) # Meta(g)
  BY <1>0, AutoUnderWay DEF WarmInv, RestType
<1>2. Data(g) \in DOMAIN dir /\ n # 0 /\ n \in 0..MaxStates
  BY <1>0 DEF WarmInv, AutoKnown, DirType, Content
<1>3. /\ DOMAIN dir' = DOMAIN dir \cup {Meta(g)} /\ Meta(g) \in Pair(g)
      /\ \A f \in DOMAIN dir : f # Meta(g) => dir'[f] = dir[f]
      /\ dir'[Meta(g)].of = n
  BY <1>0 DEF Put, Pair
<1>4. DirType'
  <2>1. [of |-> n, at |-> clock] \in Content /\ Meta(g) \in Names
    BY <1>1, <1>2, <1>3 DEF Content
  <2> QED
    BY <1>0, <1>1, <2>1, DirPut
<1>5. RestType'
  <2>1. auto' \in [pc : {"idle", "armed", "want", "api", "meta", "sidecar"},
                   gen : Autos \cup {None}]
    BY <1>0
  <2>2. autoNext' \in Autos \cup {None} /\ mine' \in Autos \cup {None}
    BY <1>0, <1>1 DEF Other, Autos
  <2> QED
    BY <1>0, <1>1, <1>2, <2>1, <2>2 DEF WarmInv, RestType, AutoVars
<1>6. AutoKnown'
  BY <1>0, <1>1 DEF AutoKnown, Autosaving
<1>7. PreviousSurvives'
  <2>1. Pair(g) \subseteq DOMAIN dir' /\ dir'[Data(g)] = dir[Data(g)]
    BY <1>1, <1>2, <1>3 DEF Pair
  <2> QED
    BY <1>0, <1>2, <1>3, <2>1 DEF PreviousSurvives, Whole, Pair, Data, Meta
<1>8. MutexKnown' /\ SelectionKnown' /\ FilesKnown' /\ TemporariesAccounted'
  <2>1. saveMu' = "auto" <=> auto'.pc \in Autosaving
    BY <1>0 DEF Autosaving
  <2>2. clock' \in Nat /\ clock <= clock' /\ saveMu' # "stop" /\ saveMu # "stop"
    BY <1>0, <1>1
  <2> QED
    BY <1>0, <1>1, <1>3, <2>1, <2>2, AutoFrame
<1> QED
  BY <1>4, <1>5, <1>6, <1>7, <1>8 DEF WarmInv

-----------------------------------------------------------------------------
(* The save of a stop touches the canonical generation and its own          *)
(* temporary files; no autosave is under way.                               *)
Touched == Pair("canonical") \cup {Tmp("data"), Tmp("meta"), Stale("data"), Stale("meta")}

LEMMA SaveFrame ==
  ASSUME WarmInv, pc \in Saving \/ (pc = "wantSave" /\ saveMu = "free"),
         pc' \in Saving \cup {"signal"},
         saveMu' = IF pc' = "signal" THEN "free" ELSE "stop",
         UNCHANGED <<StopVars, server, later>>,
         clock' \in 1..MaxSaves, clock <= clock', faults' \in 0..MaxFaults,
         stales' \subseteq Temporaries, orphans' \subseteq Temporaries, DirType',
         DOMAIN dir' \ Touched' = DOMAIN dir \ Touched',
         \A f \in DOMAIN dir \ Touched' : dir'[f] = dir[f],
         SaveFiles', TemporariesAccounted'
  PROVE  WarmInv'
<1> USE Bounds DEF WarmInv, StopVars, sessionVars
<1>1. auto.pc \notin Autosaving /\ pc \notin Launching /\ pc' \notin Launching
  BY DEF MutexKnown, Saving, Launching
<1>2. clock \in Nat
  BY DEF RestType
<1>3. RestType'
  <2>1. pc' \in {"api", "dataAway", "dataIn", "metaTmp", "metaAway", "metaIn", "signal"}
    BY DEF Saving
  <2>2. saveMu' \in {"free", "stop"}
    OBVIOUS
  <2> QED
    BY <2>1, <2>2 DEF RestType
<1>4. MutexKnown'
  BY <1>1 DEF MutexKnown, Saving
<1>5. SelectionKnown'
  BY <1>1 DEF SelectionKnown, Launching
<1>6. AutoKnown'
  <2>1. pc' \notin {"restore", "serve"}
    BY DEF Saving
  <2> QED
    BY <1>1, <2>1 DEF AutoKnown, Autosaving
<1>7. PreviousSurvives'
  <2>1. ASSUME mine # None
        PROVE  Pair(mine) \cap Touched' = {}
    <3>1. Pair(mine) \cap Pair("canonical") = {} /\ Pair(mine) \subseteq Finals
      BY <2>1, NamesApart DEF RestType, Autos, Generations, None
    <3>2. {Tmp("data"), Tmp("meta"), Stale("data"), Stale("meta")}' \subseteq Temporaries
      BY DEF Tmp, Stale, Temporaries
    <3> QED
      BY <3>1, <3>2, NamesApart DEF Touched, Pair, Data, Meta
  <2> QED
    BY <2>1 DEF PreviousSurvives, Whole, Pair, Data, Meta
<1>8. FilesKnown'
  <2>1. \A f \in Leftovers' : f[3] <= clock'
    <3>1. \A f \in Leftovers' \cap Touched' : f[3] = clock'
      <4>1. Leftovers' \cap Pair("canonical") = {}
        BY NamesApart DEF Leftovers, Generations, Temporaries
      <4> QED
        BY <4>1 DEF Touched, Tmp, Stale, Pair, Data, Meta
    <3>2. \A f \in Leftovers' : f \notin Touched' => f \in Leftovers
      BY DEF Leftovers, Temporaries
    <3>3. \A f \in Leftovers : f[3] \in Nat /\ f[3] <= clock
      BY DEF FilesKnown, Leftovers, Temporaries
    <3> QED
      BY <1>2, <3>1, <3>2, <3>3
  <2> QED
    BY <1>1, <2>1 DEF FilesKnown, Saving
<1> QED
  BY <1>3, <1>4, <1>5, <1>6, <1>7, <1>8

(* What is known while the save of a stop is under way.                     *)
LEMMA SaveUnderWay ==
  ASSUME WarmInv, pc \in Saving
  PROVE  /\ clock \in 1..MaxSaves /\ clock <= clock /\ saveMu = "stop" /\ DirType /\ SaveFiles
         /\ faults \in 0..MaxFaults /\ stales \subseteq Temporaries /\ orphans \subseteq Temporaries
         /\ server.state \in 0..MaxStates
         /\ Leftovers \subseteq later \cup stales \cup orphans \cup {Tmp("data"), Tmp("meta")}
<1> USE Bounds DEF WarmInv
<1>1. clock \in 1..MaxSaves /\ SaveFiles
  BY DEF FilesKnown, RestType
<1>2. saveMu = "stop"
  BY DEF MutexKnown
<1>3. Leftovers \subseteq later \cup stales \cup orphans \cup {Tmp("data"), Tmp("meta")}
  BY <1>2 DEF TemporariesAccounted, InProgress
<1> QED
  BY <1>1, <1>2, <1>3 DEF RestType

(* The names a save touches are names, and differ from each other.          *)
LEMMA SaveNames ==
  ASSUME clock \in 1..MaxSaves
  PROVE  /\ \A p \in {"data", "meta"} :
              /\ {Tmp(p), Stale(p)} \subseteq Temporaries /\ {Tmp(p), Stale(p)} \subseteq Names
              /\ <<"canonical", p>> \in Names /\ <<"canonical", p>> \notin Temporaries
              /\ {<<"canonical", p>>, Tmp(p), Stale(p)} \subseteq Touched
         /\ Tmp("data") # Tmp("meta")
         /\ \A p, q \in {"data", "meta"} :
              /\ <<"canonical", p>> # Tmp(q) /\ <<"canonical", p>> # Stale(q)
              /\ Tmp(p) # Stale(q)
<1>1. \A p \in {"data", "meta"} :
        /\ {Tmp(p), Stale(p)} \subseteq Temporaries
        /\ {<<"canonical", p>>, Tmp(p), Stale(p)} \subseteq Touched
  BY DEF Tmp, Stale, Temporaries, Touched, Pair, Data, Meta
<1>2. \A p \in {"data", "meta"} : <<"canonical", p>> \in Finals
  BY DEF Finals, Generations, Pair, Data, Meta
<1>3. Tmp("data") # Tmp("meta") /\ \A p, q \in {"data", "meta"} : Tmp(p) # Stale(q)
  BY DEF Tmp, Stale
<1>4. \A p \in {"data", "meta"} : <<"canonical", p>> \notin Temporaries
  BY <1>2, NamesApart
<1> QED
  BY <1>1, <1>2, <1>3, <1>4 DEF Names

LEMMA SaveBeginStep ==
  ASSUME WarmInv, SaveBegin
  PROVE  WarmInv'
<1> USE Bounds
<1> DEFINE f == <<"tmp", "data", clock + 1>>
<1>0. /\ pc = "wantSave" /\ saveMu = "free" /\ clock < MaxSaves
      /\ pc' = "api" /\ saveMu' = "stop" /\ clock' = clock + 1 /\ dir' = Put(dir, f, Torn)
      /\ UNCHANGED <<StopVars, server, later, stales, faults, orphans>>
  BY DEF SaveBegin
<1>1. /\ clock \in 0..MaxSaves /\ DirType /\ faults \in 0..MaxFaults
      /\ stales \subseteq Temporaries /\ orphans \subseteq Temporaries
  BY DEF WarmInv, RestType
<1>2. clock' \in 1..MaxSaves /\ clock <= clock'
  BY <1>0, <1>1
<1>3. f = Tmp("data")' /\ f \in Touched' /\ f \in Temporaries /\ f \in Names
  BY <1>0, <1>2 DEF Tmp, Touched, Temporaries, Names
<1>4. DOMAIN dir' = DOMAIN dir \cup {f} /\ \A n \in DOMAIN dir : n # f => dir'[n] = dir[n]
  BY <1>0 DEF Put
<1>5. DirType'
  <2>1. Torn \in Content
    BY DEF Torn, Content
  <2> QED
    BY <1>0, <1>1, <1>3, <2>1, DirPut
<1>6. SaveFiles'
  <2>1. Tmp("meta")' \notin DOMAIN dir
    <3>1. \A n \in Leftovers : n[3] # clock + 1
      BY <1>1 DEF WarmInv, FilesKnown, Leftovers, Temporaries
    <3>2. Tmp("meta")' \in Temporaries /\ Tmp("meta")' = <<"tmp", "meta", clock + 1>>
      BY <1>0, <1>2 DEF Tmp, Temporaries
    <3> QED
      BY <3>1, <3>2 DEF Leftovers
  <2>2. Tmp("meta")' # f
    BY DEF Tmp
  <2> QED
    BY <1>0, <1>4, <2>1, <2>2 DEF SaveFiles
<1>7. TemporariesAccounted'
  <2>1. Leftovers \subseteq later \cup stales \cup orphans
    BY <1>0 DEF WarmInv, TemporariesAccounted, InProgress
  <2>2. Leftovers' = Leftovers \cup {f}
    BY <1>3, <1>4 DEF Leftovers, Temporaries
  <2>3. f \in InProgress'
    BY <1>0, <1>3 DEF InProgress
  <2> QED
    BY <1>0, <2>1, <2>2, <2>3 DEF TemporariesAccounted
<1> QED
  BY <1>0, <1>1, <1>2, <1>3, <1>4, <1>5, <1>6, <1>7, SaveFrame DEF Saving

(* A step of the save that writes one of its temporary files.               *)
LEMMA SaveWrittenStep ==
  ASSUME WarmInv, SaveWritten \/ MetaWritten
  PROVE  WarmInv'
<1> USE Bounds
<1>0. /\ pc \in Saving /\ pc' \in Saving /\ pc' # "signal"
      /\ UNCHANGED <<StopVars, server, saveMu, later, stales, clock, faults, orphans>>
  BY DEF SaveWritten, MetaWritten, Saving
<1>1. /\ clock \in 1..MaxSaves /\ clock <= clock /\ saveMu = "stop" /\ DirType /\ SaveFiles
      /\ faults \in 0..MaxFaults /\ stales \subseteq Temporaries /\ orphans \subseteq Temporaries
      /\ server.state \in 0..MaxStates
      /\ Leftovers \subseteq later \cup stales \cup orphans \cup {Tmp("data"), Tmp("meta")}
  BY <1>0, SaveUnderWay
<1>2. PICK p \in {"data", "meta"}, c \in Content :
        /\ dir' = Put(dir, Tmp(p), c)
        /\ p = "data" => pc = "api" /\ pc' = "dataAway"
        /\ p = "meta" => pc = "metaTmp" /\ pc' = "metaAway"
  <2>1. CASE SaveWritten
    <3>1. [of |-> server.state, at |-> 0] \in Content
      BY <1>1 DEF Content
    <3> QED
      BY <2>1, <3>1 DEF SaveWritten
  <2>2. CASE MetaWritten
    <3>1. dir[Data("canonical")] \in Content
      BY <1>1, <2>2 DEF MetaWritten, SaveFiles, DirType
    <3>2. [of |-> dir[Data("canonical")].of, at |-> clock] \in Content
      BY <1>1, <3>1 DEF Content
    <3> QED
      BY <2>2, <3>2 DEF MetaWritten
  <2> QED
    BY <2>1, <2>2
<1> DEFINE f == Tmp(p)
<1>3. /\ f \in Temporaries /\ f \in Names /\ f \in Touched
      /\ Tmp("data") # Tmp("meta") /\ Touched' = Touched
      /\ Tmp("data")' = Tmp("data") /\ Tmp("meta")' = Tmp("meta")
  BY <1>0, <1>1, SaveNames DEF Touched, Tmp, Stale
<1>4. DOMAIN dir' = DOMAIN dir \cup {f} /\ \A n \in DOMAIN dir : n # f => dir'[n] = dir[n]
  BY <1>2 DEF Put
<1>5. DirType'
  BY <1>1, <1>2, <1>3, DirPut
<1>6. SaveFiles'
  BY <1>1, <1>2, <1>3, <1>4 DEF SaveFiles
<1>7. TemporariesAccounted'
  <2>1. Leftovers' \subseteq Leftovers \cup {f}
    BY <1>4 DEF Leftovers, Temporaries
  <2>2. InProgress' = {Tmp("data"), Tmp("meta")}
    BY <1>0, <1>1, <1>3 DEF InProgress
  <2> QED
    BY <1>0, <1>1, <1>2, <2>1, <2>2 DEF TemporariesAccounted
<1> QED
  BY <1>0, <1>1, <1>3, <1>4, <1>5, <1>6, <1>7, SaveFrame

(* The end of a save, whichever: what is left of its temporary file is an   *)
(* orphan, and of the other half there is none.                             *)
LEMMA SaveEnds ==
  ASSUME WarmInv, pc \in Saving, EndSave, NEW p \in {"data", "meta"},
         UNCHANGED <<StopVars, server, later, stales, clock>>,
         faults' \in 0..MaxFaults, DirType',
         \A q \in {"data", "meta"} \ {p} : Tmp(q) \notin DOMAIN dir,
         DOMAIN dir' \ Touched = DOMAIN dir \ Touched,
         \A f \in DOMAIN dir \ Touched : dir'[f] = dir[f],
         Leftovers' \subseteq Leftovers \cup {Tmp(p)},
         \/ orphans' = orphans /\ Tmp(p) \notin DOMAIN dir'
         \/ orphans' = orphans \cup {Tmp(p)}
  PROVE  WarmInv'
<1> USE Bounds
<1>1. /\ clock \in 1..MaxSaves /\ clock <= clock /\ saveMu = "stop" /\ DirType /\ SaveFiles
      /\ faults \in 0..MaxFaults /\ stales \subseteq Temporaries /\ orphans \subseteq Temporaries
      /\ Leftovers \subseteq later \cup stales \cup orphans \cup {Tmp("data"), Tmp("meta")}
  BY SaveUnderWay
<1>2. Tmp(p) \in Temporaries /\ Touched' = Touched
  BY <1>1, SaveNames DEF Touched, Tmp, Stale
<1>3. pc' = "signal" /\ saveMu' = "free"
  BY DEF EndSave
<1>4. TemporariesAccounted'
  <2>1. Leftovers \subseteq later \cup stales \cup orphans \cup {Tmp(p)}
    BY <1>1 DEF Leftovers
  <2>2. Leftovers' \subseteq DOMAIN dir'
    BY DEF Leftovers
  <2>3. Leftovers' \subseteq later \cup stales \cup orphans'
    BY <2>1, <2>2
  <2> QED
    BY <2>3 DEF TemporariesAccounted
<1>5. SaveFiles'
  BY <1>3 DEF SaveFiles
<1>6. orphans' \subseteq Temporaries
  BY <1>1, <1>2
<1> QED
  BY <1>1, <1>2, <1>3, <1>4, <1>5, <1>6, SaveFrame

LEMMA SaveRefusedStep ==
  ASSUME WarmInv, SaveRefused
  PROVE  WarmInv'
<1> USE Bounds
<1>0. /\ pc \in {"api", "dataAway"} /\ pc \in Saving /\ EndSave /\ faults' = faults + 1
      /\ faults < MaxFaults
      /\ \/ dir' = Without(dir, {Tmp("data")}) /\ orphans' = orphans
         \/ orphans' = orphans \cup {Tmp("data")} /\ dir' = dir
      /\ UNCHANGED <<StopVars, server, later, stales, clock>>
  BY DEF SaveRefused, Fault, Saving
<1>1. /\ clock \in 1..MaxSaves /\ DirType /\ SaveFiles /\ faults \in 0..MaxFaults
  BY <1>0, SaveUnderWay
<1>2. Tmp("data") \in Touched
  BY <1>1, SaveNames
<1>3. DirType'
  BY <1>0, <1>1, DirWithout, DirUntouched
<1>4. \/ DOMAIN dir' = DOMAIN dir \ {Tmp("data")} /\ orphans' = orphans
      \/ DOMAIN dir' = DOMAIN dir /\ orphans' = orphans \cup {Tmp("data")}
  BY <1>0 DEF Without
<1>5. \A f \in DOMAIN dir' : dir'[f] = dir[f]
  BY <1>0 DEF Without
<1>6. Tmp("meta") \notin DOMAIN dir
  BY <1>0, <1>1 DEF SaveFiles
<1>7. Leftovers' \subseteq Leftovers
  BY <1>4 DEF Leftovers, Temporaries
<1>8. \A q \in {"data", "meta"} \ {"data"} : Tmp(q) \notin DOMAIN dir
  BY <1>6
<1>9. /\ DOMAIN dir' \ Touched = DOMAIN dir \ Touched
      /\ \A f \in DOMAIN dir \ Touched : dir'[f] = dir[f]
  BY <1>2, <1>4, <1>5
<1>10. \/ orphans' = orphans /\ Tmp("data") \notin DOMAIN dir'
       \/ orphans' = orphans \cup {Tmp("data")}
  BY <1>4
<1>11. faults' \in 0..MaxFaults
  BY <1>0, <1>1
<1> QED
  BY <1>0, <1>3, <1>7, <1>8, <1>9, <1>10, <1>11, SaveEnds

LEMMA MetaNotWrittenStep ==
  ASSUME WarmInv, MetaNotWritten
  PROVE  WarmInv'
<1> USE Bounds
<1>0. /\ pc = "metaTmp" /\ pc \in Saving /\ EndSave /\ faults' = faults + 1
      /\ faults < MaxFaults
      /\ \/ dir' = dir /\ orphans' = orphans
         \/ dir' = Put(dir, Tmp("meta"), Torn) /\ orphans' = orphans \cup {Tmp("meta")}
      /\ UNCHANGED <<StopVars, server, later, stales, clock>>
  BY DEF MetaNotWritten, Fault, Saving
<1>1. /\ clock \in 1..MaxSaves /\ DirType /\ SaveFiles /\ faults \in 0..MaxFaults
  BY <1>0, SaveUnderWay
<1>2. Tmp("meta") \in Touched /\ Tmp("meta") \in Names
  BY <1>1, SaveNames
<1>3. DirType'
  <2>1. Torn \in Content
    BY DEF Torn, Content
  <2> QED
    BY <1>0, <1>1, <1>2, <2>1, DirPut, DirUntouched
<1>4. \/ dir' = dir /\ orphans' = orphans
      \/ /\ DOMAIN dir' = DOMAIN dir \cup {Tmp("meta")} /\ orphans' = orphans \cup {Tmp("meta")}
         /\ \A f \in DOMAIN dir : f # Tmp("meta") => dir'[f] = dir[f]
  BY <1>0 DEF Put
<1>5. Tmp("meta") \notin DOMAIN dir /\ \A q \in {"data", "meta"} \ {"meta"} : Tmp(q) \notin DOMAIN dir
  BY <1>0, <1>1 DEF SaveFiles
<1>6. Leftovers' \subseteq Leftovers \cup {Tmp("meta")}
  BY <1>4 DEF Leftovers, Temporaries
<1>7. /\ DOMAIN dir' \ Touched = DOMAIN dir \ Touched
      /\ \A f \in DOMAIN dir \ Touched : dir'[f] = dir[f]
  BY <1>2, <1>4
<1>8. \/ orphans' = orphans /\ Tmp("meta") \notin DOMAIN dir'
      \/ orphans' = orphans \cup {Tmp("meta")}
  BY <1>4, <1>5
<1>9. faults' \in 0..MaxFaults
  BY <1>0, <1>1
<1> QED
  BY <1>0, <1>3, <1>5, <1>6, <1>7, <1>8, <1>9, SaveEnds

(* The previous file makes way under a name the cleanup knows.              *)
LEMMA AwayStep ==
  ASSUME WarmInv, DataAway \/ MetaAway
  PROVE  WarmInv'
<1> USE Bounds
<1>0. PICK p \in {"data", "meta"} :
        /\ p = "data" => pc = "dataAway" /\ pc' = "dataIn"
        /\ p = "meta" => pc = "metaAway" /\ pc' = "metaIn"
        /\ \/ /\ <<"canonical", p>> \in DOMAIN dir /\ stales' = stales \cup {Stale(p)}
              /\ dir' = Renamed(dir, <<"canonical", p>>, Stale(p))
           \/ dir' = dir /\ stales' = stales
        /\ UNCHANGED <<StopVars, server, saveMu, later, clock, faults, orphans>>
  BY DEF DataAway, MetaAway, Away, Exists
<1>1. pc \in Saving /\ pc' \in Saving /\ pc' # "signal"
  BY <1>0 DEF Saving
<1>2. /\ clock \in 1..MaxSaves /\ clock <= clock /\ saveMu = "stop" /\ DirType /\ SaveFiles
      /\ faults \in 0..MaxFaults /\ stales \subseteq Temporaries /\ orphans \subseteq Temporaries
      /\ Leftovers \subseteq later \cup stales \cup orphans \cup {Tmp("data"), Tmp("meta")}
  BY <1>1, SaveUnderWay
<1> DEFINE c == <<"canonical", p>>
           f == Stale(p)
<1>3. /\ f \in Temporaries /\ f \in Names /\ f \in Touched /\ c \in Touched /\ c # f
      /\ c # Tmp("data") /\ c # Tmp("meta") /\ f # Tmp("data") /\ f # Tmp("meta")
      /\ c \notin Temporaries
  BY <1>2, SaveNames
<1>4. /\ Touched' = Touched /\ Tmp("data")' = Tmp("data") /\ Tmp("meta")' = Tmp("meta")
  BY <1>0 DEF Touched, Tmp, Stale
<1>5. \/ dir' = dir /\ stales' = stales
      \/ /\ DOMAIN dir' = (DOMAIN dir \cup {f}) \ {c} /\ stales' = stales \cup {f}
         /\ \A n \in DOMAIN dir : n # c /\ n # f => dir'[n] = dir[n]
  BY <1>0, <1>3 DEF Renamed, Put, Without
<1>6. DirType'
  <2>1. CASE c \in DOMAIN dir /\ dir' = Renamed(dir, c, f)
    BY <1>2, <1>3, <2>1, DirRenamed
  <2>2. CASE dir' = dir
    BY <1>2, <2>2, DirUntouched
  <2> QED
    BY <1>0, <2>1, <2>2
<1>7. SaveFiles'
  BY <1>0, <1>2, <1>3, <1>4, <1>5 DEF SaveFiles
<1>8. TemporariesAccounted'
  <2>1. \/ Leftovers' \subseteq Leftovers /\ stales' = stales
        \/ Leftovers' \subseteq Leftovers \cup {f} /\ stales' = stales \cup {f}
    BY <1>5 DEF Leftovers, Temporaries
  <2>2. InProgress' = {Tmp("data"), Tmp("meta")}
    BY <1>0, <1>2, <1>4 DEF InProgress
  <2> QED
    BY <1>0, <1>2, <2>1, <2>2 DEF TemporariesAccounted
<1> QED
  BY <1>0, <1>1, <1>2, <1>3, <1>4, <1>5, <1>6, <1>7, <1>8, SaveFrame

LEMMA DataInStep ==
  ASSUME WarmInv, DataIn
  PROVE  WarmInv'
<1> USE Bounds
<1> DEFINE c == <<"canonical", "data">>
           f == Tmp("data")
<1>0. /\ pc = "dataIn" /\ pc' = "metaTmp" /\ pc \in Saving /\ pc' \in Saving /\ pc' # "signal"
      /\ dir' = Renamed(dir, f, c)
      /\ UNCHANGED <<StopVars, server, saveMu, later, stales, clock, faults, orphans>>
  BY DEF DataIn, InPlace, Saving
<1>1. /\ clock \in 1..MaxSaves /\ clock <= clock /\ saveMu = "stop" /\ DirType /\ SaveFiles
      /\ faults \in 0..MaxFaults /\ stales \subseteq Temporaries /\ orphans \subseteq Temporaries
      /\ Leftovers \subseteq later \cup stales \cup orphans \cup {Tmp("data"), Tmp("meta")}
  BY <1>0, SaveUnderWay
<1>2. /\ f \in Touched /\ c \in Touched /\ c # f /\ c # Tmp("meta") /\ f # Tmp("meta")
      /\ c \in Names /\ c \notin Temporaries
  BY <1>1, SaveNames
<1>3. /\ Touched' = Touched /\ Tmp("data")' = f /\ Tmp("meta")' = Tmp("meta")
  BY <1>0 DEF Touched, Tmp, Stale
<1>4. /\ DOMAIN dir' = (DOMAIN dir \cup {c}) \ {f}
      /\ \A n \in DOMAIN dir : n # c /\ n # f => dir'[n] = dir[n]
  BY <1>0, <1>2 DEF Renamed, Put, Without
<1>5. DirType'
  <2>1. f \in DOMAIN dir
    BY <1>0, <1>1 DEF SaveFiles
  <2> QED
    BY <1>0, <1>1, <1>2, <2>1, DirRenamed
<1>6. SaveFiles'
  BY <1>0, <1>1, <1>2, <1>3, <1>4 DEF SaveFiles, Data
<1>7. TemporariesAccounted'
  <2>1. Leftovers' \subseteq Leftovers
    BY <1>2, <1>4 DEF Leftovers, Temporaries
  <2>2. InProgress' = {Tmp("data"), Tmp("meta")}
    BY <1>0, <1>1, <1>3 DEF InProgress
  <2> QED
    BY <1>0, <1>1, <2>1, <2>2 DEF TemporariesAccounted
<1> QED
  BY <1>0, <1>1, <1>2, <1>3, <1>4, <1>5, <1>6, <1>7, SaveFrame

LEMMA MetaInStep ==
  ASSUME WarmInv, MetaIn
  PROVE  WarmInv'
<1> USE Bounds
<1> DEFINE c == <<"canonical", "meta">>
           f == Tmp("meta")
<1>0. /\ pc = "metaIn" /\ pc \in Saving /\ EndSave /\ dir' = Renamed(dir, f, c)
      /\ UNCHANGED <<StopVars, server, later, stales, clock, faults, orphans>>
  BY DEF MetaIn, InPlace, Saving, EndSave
<1>1. clock \in 1..MaxSaves /\ DirType /\ SaveFiles /\ faults \in 0..MaxFaults
  BY <1>0, SaveUnderWay
<1>2. f \in Touched /\ c \in Touched /\ c # f /\ c \in Names /\ c \notin Temporaries
  BY <1>1, SaveNames
<1>3. f \in DOMAIN dir /\ \A q \in {"data", "meta"} \ {"meta"} : Tmp(q) \notin DOMAIN dir
  BY <1>0, <1>1 DEF SaveFiles
<1>4. /\ DOMAIN dir' = (DOMAIN dir \cup {c}) \ {f}
      /\ \A n \in DOMAIN dir : n # c /\ n # f => dir'[n] = dir[n]
  BY <1>0, <1>2 DEF Renamed, Put, Without
<1>5. DirType'
  BY <1>0, <1>1, <1>2, <1>3, DirRenamed
<1>6. Leftovers' \subseteq Leftovers \cup {f}
  BY <1>2, <1>4 DEF Leftovers, Temporaries
<1>7. /\ DOMAIN dir' \ Touched = DOMAIN dir \ Touched
      /\ \A n \in DOMAIN dir \ Touched : dir'[n] = dir[n]
      /\ orphans' = orphans /\ f \notin DOMAIN dir' /\ faults' \in 0..MaxFaults
  BY <1>0, <1>1, <1>2, <1>4
<1> QED
  BY <1>0, <1>3, <1>5, <1>6, <1>7, SaveEnds

(* A rename that fails: the previous file comes back or stays away, the new *)
(* one goes or is an orphan.                                                *)
LEMMA SaveFailsStep ==
  ASSUME WarmInv, SaveFails
  PROVE  WarmInv'
<1> USE Bounds
<1>0. PICK p \in {"data", "meta"}, back \in BOOLEAN, gone \in BOOLEAN :
        /\ p = "data" => pc \in {"dataAway", "dataIn"}
        /\ p = "meta" => pc \in {"metaAway", "metaIn"}
        /\ faults < MaxFaults /\ faults' = faults + 1 /\ EndSave
        /\ LET d == IF back /\ Exists(Stale(p)) /\ ~Exists(<<"canonical", p>>)
                    THEN Renamed(dir, Stale(p), <<"canonical", p>>) ELSE dir
           IN /\ dir' = IF gone THEN Without(d, {Tmp(p)}) ELSE d
              /\ orphans' = IF gone THEN orphans ELSE orphans \cup {Tmp(p)}
        /\ UNCHANGED <<StopVars, server, later, stales, clock>>
  BY DEF SaveFails, PublishFails
<1> DEFINE c == <<"canonical", p>>
           f == Tmp(p)
           s == Stale(p)
<1>1. pc \in Saving
  BY <1>0 DEF Saving
<1>2. clock \in 1..MaxSaves /\ DirType /\ SaveFiles /\ faults \in 0..MaxFaults
  BY <1>1, SaveUnderWay
<1>3. /\ f \in Touched /\ c \in Touched /\ s \in Touched /\ c # s /\ c # f /\ f # s
      /\ c \in Names /\ c \notin Temporaries /\ f \in Temporaries
  BY <1>2, SaveNames
<1>4. PICK d : /\ \/ d = dir
                  \/ s \in DOMAIN dir /\ d = Renamed(dir, s, c)
               /\ dir' = IF gone THEN Without(d, {f}) ELSE d
               /\ orphans' = IF gone THEN orphans ELSE orphans \cup {f}
  BY <1>0 DEF Exists
<1>5. /\ DOMAIN d \subseteq DOMAIN dir \cup {c} /\ DOMAIN d \ Touched = DOMAIN dir \ Touched
      /\ \A n \in DOMAIN d : d[n] = dir[n] \/ (s \in DOMAIN dir /\ d[n] = dir[s])
      /\ \A n \in DOMAIN dir \ Touched : d[n] = dir[n]
  <2>1. CASE d = dir
    BY <2>1
  <2>2. CASE s \in DOMAIN dir /\ d = Renamed(dir, s, c)
    <3>1. /\ DOMAIN d = (DOMAIN dir \cup {c}) \ {s} /\ d[c] = dir[s]
          /\ \A n \in DOMAIN d : n # c => d[n] = dir[n] /\ n \in DOMAIN dir
      BY <1>3, <2>2 DEF Renamed, Put, Without
    <3> QED
      BY <1>3, <2>2, <3>1
  <2> QED
    BY <1>4, <2>1, <2>2
<1>6. /\ DOMAIN dir' = (IF gone THEN DOMAIN d \ {f} ELSE DOMAIN d)
      /\ \A n \in DOMAIN dir' : dir'[n] = d[n]
  BY <1>4 DEF Without
<1>7. DirType'
  <2>1. \A n \in DOMAIN d : d[n] \in Content
    <3>1. CASE d = dir
      BY <1>2, <3>1 DEF DirType
    <3>2. CASE s \in DOMAIN dir /\ d = Renamed(dir, s, c)
      <4>1. \A n \in DOMAIN d : n = c \/ n \in DOMAIN dir
        BY <1>5
      <4>2. d[c] = dir[s] /\ \A n \in DOMAIN d : n # c => d[n] = dir[n]
        BY <1>3, <3>2 DEF Renamed, Put, Without
      <4> QED
        BY <1>2, <3>2, <4>1, <4>2 DEF DirType
    <3> QED
      BY <1>4, <3>1, <3>2
  <2>2. DOMAIN dir' \subseteq Names
    BY <1>2, <1>3, <1>5, <1>6 DEF DirType
  <2> QED
    BY <1>6, <2>1, <2>2 DEF DirType, Names, Content
<1>8. \A q \in {"data", "meta"} \ {p} : Tmp(q) \notin DOMAIN dir
  BY <1>0, <1>2 DEF SaveFiles
<1>9. Leftovers' \subseteq Leftovers \cup {f}
  BY <1>3, <1>5, <1>6 DEF Leftovers, Temporaries
<1>10. /\ DOMAIN dir' \ Touched = DOMAIN dir \ Touched
       /\ \A n \in DOMAIN dir \ Touched : dir'[n] = dir[n]
  BY <1>3, <1>5, <1>6
<1>11. \/ orphans' = orphans /\ f \notin DOMAIN dir'
       \/ orphans' = orphans \cup {f}
  BY <1>4, <1>6
<1>12. faults' \in 0..MaxFaults
  BY <1>0, <1>2
<1> QED
  BY <1>0, <1>1, <1>7, <1>8, <1>9, <1>10, <1>11, <1>12, SaveEnds

(* The cleanup removes what a save left, and the generation an autosave     *)
(* without an answer was writing into: never the fallback.                  *)
LEMMA CleanupStep ==
  ASSUME WarmInv, Cleanup
  PROVE  WarmInv'
<1> USE Bounds DEF WarmInv, StopVars, sessionVars
<1>0. /\ pc = "cleanup" /\ pc' = "down" /\ later' = {} /\ stales' = {}
      /\ Removal(later \cup stales) /\ UNCHANGED <<StopVars, server, saveMu, clock>>
  BY DEF Cleanup
<1>1. /\ DirType' /\ faults' \in 0..MaxFaults /\ orphans' \subseteq Temporaries
      /\ DOMAIN dir' \subseteq DOMAIN dir
      /\ DOMAIN dir \ (later \cup stales) \subseteq DOMAIN dir'
      /\ \A f \in DOMAIN dir' : dir'[f] = dir[f]
      /\ orphans \cap DOMAIN dir' \subseteq orphans'
      /\ (later \cup stales) \cap Leftovers' \subseteq orphans'
  BY <1>0, RemovalDoes
<1>2. Leftovers' \subseteq Leftovers /\ Leftovers' \subseteq DOMAIN dir'
  BY <1>1 DEF Leftovers, Temporaries
<1>3. RestType'
  BY <1>0, <1>1 DEF RestType
<1>4. MutexKnown' /\ SelectionKnown'
  BY <1>0 DEF MutexKnown, SelectionKnown, Saving, Launching
<1>5. AutoKnown'
  <2>1. ASSUME auto.pc \in {"meta", "sidecar"}
        PROVE  Data(auto.gen) \in DOMAIN dir' /\ dir'[Data(auto.gen)] = dir[Data(auto.gen)]
    <3>1. /\ later \cap Finals = {} /\ Pair(auto.gen) \subseteq Finals
          /\ Data(auto.gen) \in DOMAIN dir
      BY <2>1, AutoUnderWay DEF AutoKnown, Autosaving
    <3>2. Data(auto.gen) \notin later \cup stales
      BY <3>1, NamesApart DEF RestType, Pair
    <3> QED
      BY <1>1, <3>1, <3>2
  <2> QED
    BY <1>0, <2>1 DEF AutoKnown, Autosaving
<1>6. PreviousSurvives'
  <2>1. ASSUME mine # None
        PROVE  \A f \in Pair(mine) : f \in DOMAIN dir => f \in DOMAIN dir' /\ dir'[f] = dir[f]
    <3>1. Pair(mine) \subseteq Finals /\ Pair(mine) \cap later = {}
      BY <2>1, NamesApart DEF RestType, AutoKnown, Autos, Generations, None
    <3>2. Pair(mine) \cap stales = {}
      BY <3>1, NamesApart DEF RestType
    <3> QED
      BY <1>1, <3>1, <3>2
  <2> QED
    BY <1>0, <2>1 DEF PreviousSurvives, Whole, Pair, Data, Meta
<1>7. FilesKnown'
  BY <1>0, <1>2 DEF FilesKnown, SaveFiles, Saving, Launching
<1>8. TemporariesAccounted'
  <2>1. InProgress = {}
    BY <1>0 DEF MutexKnown, InProgress, Saving
  <2>2. Leftovers \subseteq later \cup stales \cup orphans
    BY <2>1 DEF TemporariesAccounted
  <2> QED
    BY <1>1, <1>2, <2>2 DEF TemporariesAccounted
<1> QED
  BY <1>1, <1>3, <1>4, <1>5, <1>6, <1>7, <1>8

-----------------------------------------------------------------------------
LEMMA WarmStutter ==
  ASSUME WarmInv, UNCHANGED vars
  PROVE  WarmInv'
<1> USE DEF vars, sessionVars, boundVars
<1>1. dir' = dir
  OBVIOUS
<1>2. DirType' /\ Leftovers' = Leftovers /\ \A g \in Generations : Whole(g)' <=> Whole(g)
  BY <1>1, DirUntouched DEF WarmInv
<1>3. RestType' /\ MutexKnown' /\ AutoKnown' /\ FilesKnown'
  BY <1>2 DEF WarmInv, RestType, MutexKnown, AutoKnown, FilesKnown, SaveFiles, Tmp
<1>4. SelectionKnown' /\ PreviousSurvives'
  BY <1>2 DEF WarmInv, RestType, SelectionKnown, PreviousSurvives, Autos, Generations
<1>5. TemporariesAccounted'
  BY <1>2 DEF WarmInv, TemporariesAccounted, InProgress, Tmp
<1> QED
  BY <1>2, <1>3, <1>4, <1>5 DEF WarmInv

(* Every step of the launcher, of the server and of whatever ends them      *)
(* preserves the invariant.                                                 *)
LEMMA WarmStep == WarmInv /\ [Next]_vars => WarmInv'
<1> SUFFICES ASSUME WarmInv, [Next]_vars PROVE WarmInv'
  OBVIOUS
<1>1. CASE Starting
  BY <1>1, StartStep, SweepStep, OrderStep, JudgeStep, SpawnStep, RestoreStep,
     RestoreFailsStep DEF Starting
<1>2. CASE Autosave
  BY <1>2, WatchStep, TickStep, AutoBeginStep, AutoWrittenStep, AutoRefusedStep,
     AutoLostAnswerStep, AutoMetaStep, AutoDoneStep DEF Autosave
<1>3. CASE Stopping
  BY <1>3, SaveBeginStep, NoSaveStep, SaveWrittenStep, SaveRefusedStep, SaveLostAnswerStep,
     AwayStep, DataInStep, MetaNotWrittenStep, MetaInStep, SaveFailsStep, SignalStep,
     CleanupStep DEF Stopping
<1>4. CASE \E save \in BOOLEAN : RequestStop(save)
  BY <1>4, RequestStopStep
<1>5. CASE Serve \/ ServerDies \/ WatchSees \/ Crash
  BY <1>5, ServeStep, ServerDiesStep, WatchSeesStep, CrashStep
<1>6. CASE UNCHANGED vars
  BY <1>6, WarmStutter
<1> QED
  BY <1>1, <1>2, <1>3, <1>4, <1>5, <1>6 DEF Next

(* The invariant holds in every reachable state.                            *)
THEOREM WarmSafe == Spec => []WarmInv
BY WarmInit, WarmStep, PTL DEF Spec

(* Every variable has its type.                                             *)
THEOREM TypeCorrect == Spec => []TypeOK
<1>1. WarmInv => TypeOK
  BY TypeParts DEF WarmInv
<1> QED
  BY <1>1, WarmSafe, PTL

(* What warmRestore hands to the server is a pair whose sidecar describes   *)
(* its data, whatever the step between which the launcher, the server or    *)
(* the machine stopped.                                                     *)
THEOREM Restored == Spec => []RestoredIsWhole
<1>1. WarmInv => RestoredIsWhole
  BY DEF WarmInv, SelectionKnown, RestoredIsWhole
<1> QED
  BY <1>1, WarmSafe, PTL

(* No crash, lost answer or failed save damages the generation the session  *)
(* can fall back on.                                                        *)
THEOREM Fallback == Spec => []PreviousSurvives
<1>1. WarmInv => PreviousSurvives
  BY DEF WarmInv
<1> QED
  BY <1>1, WarmSafe, PTL

(* Every temporary file has somebody who removes it: the save it belongs to,*)
(* the cleanup of the stop, or the sweep of the next start.                 *)
THEOREM Accounted == Spec => []TemporariesAccounted
<1>1. WarmInv => TemporariesAccounted
  BY DEF WarmInv
<1> QED
  BY <1>1, WarmSafe, PTL

(* The save of a stop and an autosave never write at the same time (saveMu).*)
THEOREM SavesApart == Spec => [](pc \in Saving => auto.pc \notin Autosaving)
<1>1. WarmInv => (pc \in Saving => auto.pc \notin Autosaving)
  BY DEF WarmInv, MutexKnown
<1> QED
  BY <1>1, WarmSafe, PTL

=============================================================================
