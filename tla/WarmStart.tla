----------------------------- MODULE WarmStart -----------------------------
(***************************************************************************)
(* The stored slot states of the launcher (launcher/internal/core/          *)
(* warmstart.go).  A stop saves into the canonical generation: under a      *)
(* temporary name, then two renames for the data and two for the sidecar.   *)
(* While it serves, the launcher saves every few minutes into one of two    *)
(* other generations, in place.  A start sweeps the temporary files, judges *)
(* every generation by its sidecar and restores the newest eligible one.    *)
(* Anything may end between two steps: the machine, the launcher, the       *)
(* server; and a file operation may fail.                                   *)
(*                                                                         *)
(* A state of the slot is a number, 0 the empty one; the token count by     *)
(* which the launcher tells two states apart is taken to do so.  A file     *)
(* holds the state it was written from, or is torn.                         *)
(*                                                                         *)
(* A definition that no other one uses, right before the one it varies, is  *)
(* a mutant of PROJECT.json: a bug the named property has to find.          *)
(***************************************************************************)
EXTENDS Integers, Sequences, FiniteSets

CONSTANTS MaxStarts,   \* bound: starts in a behaviour
          MaxSaves,    \* bound: saves in a behaviour
          MaxStates,   \* bound: states of the slot
          MaxFaults    \* bound: crashes and failed operations

ASSUME WarmStartAssumption == {MaxStarts, MaxSaves, MaxStates, MaxFaults} \subseteq Nat

VARIABLES
  dir,       \* the profile's directory: the files that exist and what they hold
  server,    \* the server: [up, state]
  pc,        \* the start and, later, the stop
  todo,      \* generations not judged yet
  selected,  \* the elected generation
  auto,      \* the watch with its autosave: [pc, gen]
  saveMu,    \* who holds it
  autoNext, known, autoStopped, \* autoNext, autoTokens, autoStopped
  later,     \* tmpAfterJoin
  stales,    \* staleAfterStop
  clock,     \* saves begun: generation id and saved_at
  states, starts, faults,       \* counters for the bounds
  refused,   \* ghost: whole generations this start did not find eligible
  orphans,   \* ghost: temporary files nobody will remove before the next sweep
  mine       \* ghost: the autosave generation this session can fall back on

sessionVars == <<selected, autoNext, known, autoStopped>>
boundVars   == <<clock, states, starts>>
vars == <<dir, server, pc, todo, sessionVars, auto, saveMu, later, stales, boundVars,
          faults, refused, orphans, mine>>

Autos       == {"a", "b"}
Generations == {"canonical", "a", "b"}
None        == "none"
Other(g)    == IF g = "a" THEN "b" ELSE "a"

Data(g)     == <<g, "data">>
Meta(g)     == <<g, "meta">>
Pair(g)     == {Data(g), Meta(g)}
Finals      == UNION {Pair(g) : g \in Generations}
Tmp(p)      == <<"tmp", p, clock>>
Stale(p)    == <<"stale", p, clock>>
Temporaries == {"tmp", "stale"} \X {"data", "meta"} \X (1..MaxSaves)

Torn        == [of |-> 0, at |-> 0]
Exists(f)   == f \in DOMAIN dir
Put(d, f, c)    == [n \in DOMAIN d \cup {f} |-> IF n = f THEN c ELSE d[n]]
Without(d, fs)  == [n \in DOMAIN d \ fs |-> d[n]]
Renamed(d, f, t) == Without(Put(d, t, d[f]), {f})

(* A generation is whole: both halves, and the hash in the sidecar is that  *)
(* of the data.                                                             *)
Whole(g) == /\ Pair(g) \subseteq DOMAIN dir
            /\ dir[Meta(g)].of = dir[Data(g)].of /\ dir[Data(g)].of # 0
(* An absent or unreadable sidecar is older than any.                       *)
SavedAt(g) == IF Exists(Meta(g)) THEN dir[Meta(g)].at ELSE 0

Init ==
  /\ dir = <<>>
  /\ server = [up |-> FALSE, state |-> 0]
  /\ pc = "down" /\ todo = <<>> /\ selected = None
  /\ auto = [pc |-> "idle", gen |-> None] /\ saveMu = "free"
  /\ autoNext = None /\ known = 0 /\ autoStopped = FALSE
  /\ later = {} /\ stales = {}
  /\ clock = 0 /\ states = 0 /\ starts = 0 /\ faults = 0
  /\ refused = {} /\ orphans = {} /\ mine = None

Fault   == faults < MaxFaults /\ faults' = faults + 1
NoFault == UNCHANGED faults

(* A removal that may fail: some of fs stay, which costs a fault.           *)
Removal(fs) ==
  \E stay \in SUBSET (fs \cap DOMAIN dir) :
    /\ IF stay = {} THEN NoFault ELSE Fault
    /\ dir' = Without(dir, fs \ stay)
    /\ orphans' = (orphans \cap DOMAIN dir') \cup (stay \cap Temporaries)

-----------------------------------------------------------------------------
(* A start: the sweep of the temporary files, of every profile.             *)
Start ==
  /\ pc = "down" /\ auto.pc = "idle" /\ starts < MaxStarts
  /\ starts' = starts + 1
  /\ pc' = "sweep"
  /\ selected' = None /\ autoNext' = None /\ known' = 0 /\ autoStopped' = FALSE
  /\ later' = {} /\ stales' = {} /\ refused' = {}
  /\ UNCHANGED <<dir, server, todo, auto, saveMu, clock, states, faults, orphans, mine>>

Leftovers == DOMAIN dir \cap Temporaries
Sweep ==
  /\ pc = "sweep" /\ pc' = "order"
  /\ Removal(Leftovers)
  /\ UNCHANGED <<server, todo, sessionVars, auto, saveMu, later, stales, boundVars,
                 refused, mine>>

(* kvCandidateOrder: newest first, ties as canonical, a, b.                 *)
Place(g)     == CASE g = "canonical" -> 1 [] g = "a" -> 2 [] g = "b" -> 3
Before(g, h) == SavedAt(g) > SavedAt(h) \/ (SavedAt(g) = SavedAt(h) /\ Place(g) < Place(h))
CandidateOrder ==
  CHOOSE s \in [1..3 -> Generations] : \A i, j \in 1..3 : i < j => Before(s[i], s[j])

Order ==
  /\ pc = "order" /\ pc' = "judge"
  /\ todo' = CandidateOrder
  /\ UNCHANGED <<dir, server, sessionVars, auto, saveMu, later, stales, boundVars, faults,
                 refused, orphans, mine>>

(* measureKvFileFacts and kvCompareBinding: what is damaged is removed,     *)
(* what is incomplete, cannot be read or belongs to another configuration   *)
(* is kept, and the first eligible one is elected.                          *)
Incomplete(g) == ~(Pair(g) \subseteq DOMAIN dir)
DamagedShort(g) == ~Incomplete(g) /\ (dir[Meta(g)] = Torn \/ dir[Data(g)] = Torn)
Damaged(g)    == ~Incomplete(g) /\ ~Whole(g)
JudgeOrderDone == pc' = IF Len(todo) = 1 THEN "spawn" ELSE "judge"

Judge ==
  /\ pc = "judge"
  /\ JudgeOrderDone /\ todo' = Tail(todo)
  /\ LET g == Head(todo) IN
       \/ /\ Incomplete(g)
          /\ UNCHANGED <<dir, selected, faults, refused, orphans>>
       \/ /\ Damaged(g) /\ Removal(Pair(g))
          /\ UNCHANGED <<selected, refused>>
       \/ /\ ~Incomplete(g) /\ ~Damaged(g)
          /\ selected' = IF selected = None THEN g ELSE selected
          /\ UNCHANGED <<dir, faults, refused, orphans>>
       \/ /\ ~Incomplete(g) /\ Fault
          /\ refused' = refused \cup {g}
          /\ UNCHANGED <<dir, selected, orphans>>
  /\ UNCHANGED <<server, autoNext, known, autoStopped, auto, saveMu, later, stales,
                 boundVars, mine>>

Spawn ==
  /\ pc = "spawn"
  /\ \/ /\ server' = [up |-> TRUE, state |-> 0] /\ NoFault
        /\ pc' = IF selected = None THEN "serve" ELSE "restore"
     \/ Fault /\ pc' = "cleanup" /\ UNCHANGED server
  /\ mine' = None
  /\ UNCHANGED <<dir, todo, sessionVars, auto, saveMu, later, stales, boundVars, refused,
                 orphans>>

(* warmRestore: the next autosave goes into the other generation.           *)
Restore ==
  /\ pc = "restore" /\ pc' = "serve"
  /\ server' = [server EXCEPT !.state = dir[Data(selected)].of]
  /\ known' = dir[Data(selected)].of
  /\ autoNext' = IF selected \in Autos THEN Other(selected) ELSE autoNext
  /\ mine' = IF selected \in Autos THEN selected ELSE None
  /\ UNCHANGED <<dir, todo, selected, autoStopped, auto, saveMu, later, stales, boundVars,
                 faults, refused, orphans>>

(* The ladder: the erase, or a new server, both with an empty slot; or the  *)
(* start fails.                                                             *)
RestoreFails ==
  /\ pc = "restore" /\ Fault
  /\ \/ pc' = "serve" /\ server' = [up |-> TRUE, state |-> 0]
     \/ pc' = "cleanup" /\ server' = [up |-> FALSE, state |-> 0]
  /\ UNCHANGED <<dir, todo, sessionVars, auto, saveMu, later, stales, boundVars, refused,
                 orphans, mine>>

(* A request of a client.                                                   *)
Serve ==
  /\ pc = "serve" /\ server.up /\ states < MaxStates
  /\ auto.pc # "api"
  /\ states' = states + 1
  /\ server' = [server EXCEPT !.state = states']
  /\ UNCHANGED <<dir, pc, todo, sessionVars, auto, saveMu, later, stales, clock, starts,
                 faults, refused, orphans, mine>>

-----------------------------------------------------------------------------
(* The watch: no stop at the top of the loop, then an autosave if the slot  *)
(* has changed; a stop may come in between.                                 *)
AutoVars == <<server, pc, todo, selected, states, starts, refused>>
AutoAt(p) == auto' = [auto EXCEPT !.pc = p]

Watch ==
  /\ auto.pc = "idle" /\ pc = "serve"
  /\ AutoAt("armed")
  /\ UNCHANGED <<AutoVars, dir, saveMu, autoNext, known, autoStopped, later, stales, clock,
                 faults, orphans, mine>>

WorthSavingOnce == server.up /\ ~autoStopped /\ server.state # 0 /\ known = 0
WorthSaving == server.up /\ ~autoStopped /\ server.state # 0 /\ server.state # known
Tick ==
  /\ auto.pc = "armed"
  /\ AutoAt(IF WorthSaving THEN "want" ELSE "idle")
  /\ UNCHANGED <<AutoVars, dir, saveMu, autoNext, known, autoStopped, later, stales, clock,
                 faults, orphans, mine>>

(* selectAutoGeneration: the pinned one, or the older one.                  *)
OlderOne == IF SavedAt("b") < SavedAt("a") THEN "b" ELSE "a"
TargetUnpinned == OlderOne
Target   == IF autoNext # None THEN autoNext ELSE OlderOne

AutoEnd       == auto' = [pc |-> "idle", gen |-> None] /\ saveMu' = "free"
(* The answer of the server got lost: both halves go when it is joined.     *)
AutoLost(g) ==
  /\ later' = later \cup Pair(g) /\ autoStopped' = TRUE
  /\ AutoEnd

(* autosaveWrite: the server writes the file under its final name.          *)
AutoBegin ==
  /\ auto.pc = "want" /\ saveMu = "free" /\ clock < MaxSaves
  /\ autoNext' = Target
  /\ \/ /\ server.up
        /\ saveMu' = "auto" /\ clock' = clock + 1
        /\ auto' = [pc |-> "api", gen |-> Target]
        /\ dir' = Put(dir, Data(Target), Torn)
        /\ NoFault /\ UNCHANGED <<autoStopped, later>>
     \/ /\ ~server.up
        /\ AutoLost(Target)
        /\ NoFault /\ UNCHANGED <<dir, clock>>
     \/ /\ Fault                          \* no room on the disk
        /\ AutoEnd
        /\ UNCHANGED <<dir, clock, autoStopped, later>>
  /\ UNCHANGED <<AutoVars, known, stales, orphans, mine>>

AutoWritten ==
  /\ auto.pc = "api" /\ server.up
  /\ dir' = Put(dir, Data(auto.gen), [of |-> server.state, at |-> 0])
  /\ AutoAt("meta")
  /\ UNCHANGED <<AutoVars, saveMu, autoNext, known, autoStopped, later, stales, clock,
                 faults, orphans, mine>>

(* The answer says no, or the file cannot be verified: both halves go.      *)
AutoRefused ==
  /\ auto.pc \in {"api", "meta"} /\ faults < MaxFaults
  /\ auto.pc = "api" => server.up
  /\ \E stay \in SUBSET (Pair(auto.gen) \cap DOMAIN dir) :
        dir' = Without(dir, Pair(auto.gen) \ stay)
  /\ faults' = faults + 1
  /\ AutoEnd
  /\ UNCHANGED <<AutoVars, autoNext, known, autoStopped, later, stales, clock, orphans,
                 mine>>

AutoLostAnswer ==
  /\ auto.pc = "api"
  /\ IF server.up THEN Fault ELSE NoFault
  /\ AutoLost(auto.gen)
  /\ \/ UNCHANGED dir
     \/ server.up /\ dir' = Put(dir, Data(auto.gen), [of |-> server.state, at |-> 0])
  /\ UNCHANGED <<AutoVars, autoNext, known, stales, clock, orphans, mine>>

(* The sidecar, in place; then this generation is the one to keep.          *)
AutoMeta ==
  /\ auto.pc = "meta"
  /\ dir' = Put(dir, Meta(auto.gen), Torn)
  /\ AutoAt("sidecar")
  /\ UNCHANGED <<AutoVars, saveMu, autoNext, known, autoStopped, later, stales, clock,
                 faults, orphans, mine>>
AutoDone ==
  /\ auto.pc = "sidecar"
  /\ dir' = Put(dir, Meta(auto.gen), [of |-> dir[Data(auto.gen)].of, at |-> clock])
  /\ known' = dir[Data(auto.gen)].of
  /\ autoNext' = Other(auto.gen) /\ mine' = auto.gen
  /\ AutoEnd
  /\ UNCHANGED <<AutoVars, autoStopped, later, stales, clock, faults, orphans>>
AutoMetaFails ==
  /\ auto.pc = "sidecar" /\ faults < MaxFaults
  /\ \E stay \in SUBSET Pair(auto.gen) : dir' = Without(dir, Pair(auto.gen) \ stay)
  /\ faults' = faults + 1
  /\ AutoEnd
  /\ UNCHANGED <<AutoVars, autoNext, known, autoStopped, later, stales, clock, orphans,
                 mine>>

-----------------------------------------------------------------------------
(* A stop, with the save or without.                                        *)
StopVars == <<todo, sessionVars, auto, states, starts, refused, mine>>

RequestStop(save) ==
  /\ pc = "serve"
  /\ pc' = IF save THEN "wantSave" ELSE "signal"
  /\ UNCHANGED <<StopVars, dir, server, saveMu, later, stales, clock, faults, orphans>>

EndSave == pc' = "signal" /\ saveMu' = "free"

(* warmSave: the server writes the file under a temporary name.             *)
SaveBegin ==
  /\ pc = "wantSave" /\ saveMu = "free" /\ server.up /\ clock < MaxSaves
  /\ pc' = "api" /\ saveMu' = "stop" /\ clock' = clock + 1
  /\ dir' = Put(dir, <<"tmp", "data", clock'>>, Torn)
  /\ UNCHANGED <<StopVars, server, later, stales, faults, orphans>>
(* The server has exited, or there is no room on the disk.                  *)
NoSave ==
  /\ pc = "wantSave"
  /\ \/ (~server.up \/ clock = MaxSaves) /\ NoFault
     \/ saveMu = "free" /\ Fault
  /\ pc' = "signal"
  /\ UNCHANGED <<StopVars, dir, server, saveMu, later, stales, clock, orphans>>

SaveWritten ==
  /\ pc = "api" /\ server.up
  /\ dir' = Put(dir, Tmp("data"), [of |-> server.state, at |-> 0])
  /\ pc' = "dataAway"
  /\ UNCHANGED <<StopVars, server, saveMu, later, stales, clock, faults, orphans>>
(* The answer says no, or the file cannot be verified; then: no answer came,*)
(* and the file may still be written until the server has exited.           *)
SaveRefused ==
  /\ pc \in {"api", "dataAway"} /\ Fault
  /\ pc = "api" => server.up
  /\ EndSave
  /\ \/ dir' = Without(dir, {Tmp("data")}) /\ UNCHANGED orphans
     \/ orphans' = orphans \cup {Tmp("data")} /\ UNCHANGED dir
  /\ UNCHANGED <<StopVars, server, later, stales, clock>>
SaveLostAnswer ==
  /\ pc = "api"
  /\ IF server.up THEN Fault ELSE NoFault
  /\ EndSave
  /\ later' = later \cup {Tmp("data")}
  /\ UNCHANGED <<StopVars, dir, server, stales, clock, orphans>>

(* kvPublish, first rename: the previous file makes way.                    *)
Away(p, from, to) ==
  /\ pc = from /\ pc' = to
  /\ IF Exists(<<"canonical", p>>)
     THEN /\ dir' = Renamed(dir, <<"canonical", p>>, Stale(p))
          /\ stales' = stales \cup {Stale(p)}
     ELSE UNCHANGED <<dir, stales>>
  /\ UNCHANGED <<StopVars, server, saveMu, later, clock, faults, orphans>>
(* Second rename: the new one takes its place.                              *)
InPlace(p, from, to) ==
  /\ pc = from /\ pc' = to
  /\ dir' = Renamed(dir, Tmp(p), <<"canonical", p>>)
  /\ saveMu' = IF to = "signal" THEN "free" ELSE saveMu
  /\ UNCHANGED <<StopVars, server, later, stales, clock, faults, orphans>>
(* A rename fails: the previous file comes back, the new one goes.          *)
PublishFails(p, from) ==
  /\ pc = from /\ faults < MaxFaults /\ faults' = faults + 1
  /\ EndSave
  /\ \E back, gone \in BOOLEAN :
       LET d == IF back /\ Exists(Stale(p)) /\ ~Exists(<<"canonical", p>>)
                THEN Renamed(dir, Stale(p), <<"canonical", p>>) ELSE dir
       IN /\ dir' = IF gone THEN Without(d, {Tmp(p)}) ELSE d
          /\ orphans' = IF gone THEN orphans ELSE orphans \cup {Tmp(p)}
  /\ UNCHANGED <<StopVars, server, later, stales, clock>>

DataAway     == Away("data", "dataAway", "dataIn")
DataIn       == InPlace("data", "dataIn", "metaTmp")
MetaWritten ==
  /\ pc = "metaTmp" /\ pc' = "metaAway"
  /\ dir' = Put(dir, Tmp("meta"), [of |-> dir[Data("canonical")].of, at |-> clock])
  /\ UNCHANGED <<StopVars, server, saveMu, later, stales, clock, faults, orphans>>
MetaNotWritten ==
  /\ pc = "metaTmp" /\ Fault /\ EndSave
  /\ \/ UNCHANGED <<dir, orphans>>
     \/ dir' = Put(dir, Tmp("meta"), Torn) /\ orphans' = orphans \cup {Tmp("meta")}
  /\ UNCHANGED <<StopVars, server, later, stales, clock>>
MetaAway     == Away("meta", "metaAway", "metaIn")
MetaIn       == InPlace("meta", "metaIn", "signal")
SaveFails    == \/ \E from \in {"dataAway", "dataIn"} : PublishFails("data", from)
                \/ \E from \in {"metaAway", "metaIn"} : PublishFails("meta", from)

(* stopOwnedChildGraceful, then warmTeardownCleanup.                        *)
Signal ==
  /\ pc = "signal" /\ pc' = "cleanup"
  /\ server' = [up |-> FALSE, state |-> 0]
  /\ UNCHANGED <<StopVars, dir, saveMu, later, stales, clock, faults, orphans>>
CleanupForgetsTmp ==
  /\ pc = "cleanup" /\ pc' = "down"
  /\ Removal(stales)
  /\ later' = {} /\ stales' = {}
  /\ UNCHANGED <<StopVars, server, saveMu, clock>>
Cleanup ==
  /\ pc = "cleanup" /\ pc' = "down"
  /\ Removal(later \cup stales)
  /\ later' = {} /\ stales' = {}
  /\ UNCHANGED <<StopVars, server, saveMu, clock>>

-----------------------------------------------------------------------------
(* The server dies; the watch sees it, unless a stop is on its way.         *)
ServerDies ==
  /\ server.up /\ Fault
  /\ pc \in {"serve", "wantSave", "api"}
  /\ server' = [up |-> FALSE, state |-> 0]
  /\ UNCHANGED <<dir, pc, todo, sessionVars, auto, saveMu, later, stales, boundVars,
                 refused, orphans, mine>>
WatchSees ==
  /\ auto.pc \in {"idle", "armed"} /\ pc = "serve" /\ ~server.up
  /\ pc' = "cleanup" /\ AutoAt("idle")
  /\ UNCHANGED <<dir, server, todo, sessionVars, saveMu, later, stales, boundVars, faults,
                 refused, orphans, mine>>

(* The machine or the launcher dies, and the server with it: the files stay.*)
Crash ==
  /\ pc # "down" /\ Fault
  /\ pc' = "down" /\ server' = [up |-> FALSE, state |-> 0]
  /\ todo' = <<>> /\ auto' = [pc |-> "idle", gen |-> None] /\ saveMu' = "free"
  /\ later' = {} /\ stales' = {}
  /\ orphans' = Leftovers
  /\ UNCHANGED <<dir, sessionVars, boundVars, refused, mine>>

Starting == Start \/ Sweep \/ Order \/ Judge \/ Spawn \/ Restore \/ RestoreFails
Autosave == \/ Watch \/ Tick \/ AutoBegin \/ AutoWritten \/ AutoRefused \/ AutoLostAnswer
            \/ AutoMeta \/ AutoDone \/ AutoMetaFails
Stopping == \/ SaveBegin \/ NoSave \/ SaveWritten \/ SaveRefused \/ SaveLostAnswer \/ DataAway \/ DataIn
            \/ MetaWritten \/ MetaNotWritten \/ MetaAway \/ MetaIn \/ SaveFails
            \/ Signal \/ Cleanup
Next == \/ Starting \/ Serve \/ Autosave \/ (\E save \in BOOLEAN : RequestStop(save))
        \/ Stopping \/ ServerDies \/ WatchSees \/ Crash

Spec == Init /\ [][Next]_vars

(* The launcher's goroutines run; a call to the server ends, one way or     *)
(* another.  A mutex handed over to whoever waits: the two contenders are   *)
(* the last autosave and the stop.                                          *)
FairSpec ==
  /\ Spec
  /\ WF_vars(Watch) /\ WF_vars(Tick) /\ WF_vars(WatchSees)
  /\ WF_vars(AutoBegin) /\ WF_vars(AutoWritten \/ AutoLostAnswer)
  /\ WF_vars(AutoMeta) /\ WF_vars(AutoDone)
  /\ WF_vars(Stopping) /\ SF_vars(SaveBegin)

-----------------------------------------------------------------------------
(* Every variable has its type.                                             *)
Names == Finals \cup Temporaries
TypeOK ==
  /\ DOMAIN dir \subseteq Names
  /\ \A f \in DOMAIN dir : dir[f] \in [of : 0..MaxStates, at : 0..MaxSaves]
  /\ server \in [up : BOOLEAN, state : 0..MaxStates]
  /\ pc \in {"down", "sweep", "order", "judge", "spawn", "restore", "serve", "wantSave",
             "api", "dataAway", "dataIn", "metaTmp", "metaAway", "metaIn", "signal",
             "cleanup"}
  /\ todo \in Seq(Generations) /\ selected \in Generations \cup {None}
  /\ auto \in [pc : {"idle", "armed", "want", "api", "meta", "sidecar"},
               gen : Autos \cup {None}]
  /\ saveMu \in {"free", "auto", "stop"}
  /\ autoNext \in Autos \cup {None} /\ known \in 0..MaxStates /\ autoStopped \in BOOLEAN
  /\ later \subseteq Names /\ stales \subseteq Temporaries
  /\ clock \in 0..MaxSaves /\ states \in 0..MaxStates /\ starts \in 0..MaxStarts
  /\ faults \in 0..MaxFaults
  /\ refused \subseteq Generations /\ orphans \subseteq Temporaries
  /\ mine \in Autos \cup {None}

(* What is restored is whole: the state its own sidecar describes, whatever *)
(* the step between which the launcher, the server or the machine stopped.  *)
RestoredIsWhole == pc = "restore" => Whole(selected)

(* The generation this session was restored from or has last autosaved into *)
(* stays whole until the next autosave is complete, also across a crash, a  *)
(* lost answer, a failed save and the next start: a crash during a save     *)
(* damages only the generation being written.                               *)
PreviousSurvives == mine # None => Whole(mine)

(* A temporary file belongs to the save in progress, or the cleanup will    *)
(* remove it, or a crash or a failed removal has left it for the next sweep.*)
InProgress == IF saveMu = "stop" THEN {Tmp("data"), Tmp("meta")} ELSE {}
TemporariesAccounted == Leftovers \subseteq later \cup stales \cup orphans \cup InProgress

(* A state the server stays in is saved, unless the autosave has given up.  *)
Stored(n) == \E g \in Generations : Whole(g) /\ dir[Data(g)].of = n
ChangesAreSaved ==
  \A n \in 1..MaxStates :
    (pc = "serve" /\ server.state = n /\ clock < MaxSaves)
      ~> (Stored(n) \/ pc # "serve" \/ server.state # n \/ autoStopped \/ clock = MaxSaves)

=============================================================================
