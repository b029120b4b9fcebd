---------------------------- MODULE RepackProofs ----------------------------
(***************************************************************************)
(* What the engine accepts is whole, for every number of layers, versions, *)
(* deaths, stuck deletions and repackers started by hand, as long as a run *)
(* of the launcher and a repacker started by hand do not overlap.          *)
(*                                                                         *)
(* The argument is one of versions.  The model file only gets newer, so a  *)
(* layer copied after a manifest was built is at least as new as that      *)
(* manifest says.  A report that passed for the manifest in place has seen *)
(* layers at least as new (it compared them with the model file), and      *)
(* whatever overwrites experts.bin later copies from a newer file still.   *)
(* If the engine finds the manifest's time stamp to be that of the model   *)
(* file, every layer is as old and as new as that.  That the report is for *)
(* the manifest in place, and not for one an older run left, is what the   *)
(* time stamp in the manifest's bytes is for; that no layer is a hole needs *)
(* one writer at a time.                                                   *)
(*                                                                         *)
(* The last part is about a folder that nobody touches by hand: what the   *)
(* launcher's own gate passes, and what a cancel leaves.                   *)
(***************************************************************************)
EXTENDS Repack, TLAPS

Live(p) == proc[p].pc # "none"

\* one repacker at a time, and none while the launcher deletes
OneAtATime ==
    /\ setup.pc # "run" => ~Live("child")
    /\ setup.pc \notin {"idle", "planned"} => ~Live("hand")

\* a writer is at a layer
AtLayer == \A p \in Procs : proc[p].pc = "write" => proc[p].at # 0

\* the layers are written in order, from a model file that is never newer
\* than the one in place
InOrder ==
    /\ \A i \in 1..Len(bin.body) : bin.body[i] \in 1..src
    /\ \A p \in Procs : proc[p].pc = "write" => Len(bin.body) = proc[p].at - 1 /\ proc[p].at \in 1..Layers

\* every layer is at least as new as the manifest says
NoOlder == \A i \in 1..Len(bin.body) : manifest.src <= bin.body[i]

ManifestIsOld ==
    /\ manifest.src <= src
    /\ \A p \in Procs : proc[p].ver <= src

\* a run that has not written its manifest yet has a name no report has
NamesFresh ==
    \A p \in Procs :
        proc[p].pc \in {"mark", "open", "write", "seal", "dump"} => proc[p].id # 0 /\ proc[p].id # report.run

Verified ==
    /\ Bound => NoOlder
    /\ \A p \in Procs : proc[p].pc = "append" /\ proc[p].pass => NoOlder

IInv == TypeOK /\ OneAtATime /\ InOrder /\ ManifestIsOld /\ NamesFresh /\ Verified

USE DEF Procs

-----------------------------------------------------------------------------
(* Helpers. *)

\* seven names are enough for six that may be taken
LEMMA SevenNames ==
    \A a, b, c, d, e, f : \E r \in Run : r \notin {a, b, c, d, e, f}
<1> SUFFICES ASSUME NEW a, NEW b, NEW c, NEW d, NEW e, NEW f,
                    \A r \in Run : r \in {a, b, c, d, e, f}
             PROVE  FALSE
    OBVIOUS
<1>1. 1 \in Run /\ 2 \in Run /\ 3 \in Run /\ 4 \in Run /\ 5 \in Run /\ 6 \in Run /\ 7 \in Run
    BY DEF Run
<1>2. /\ 1 \in {a, b, c, d, e, f} /\ 2 \in {a, b, c, d, e, f} /\ 3 \in {a, b, c, d, e, f}
      /\ 4 \in {a, b, c, d, e, f} /\ 5 \in {a, b, c, d, e, f} /\ 6 \in {a, b, c, d, e, f}
      /\ 7 \in {a, b, c, d, e, f}
    BY <1>1
<1> QED
    BY <1>2, SMTT(60)

LEMMA FreshIsFree ==
    /\ Fresh \in Run
    /\ Fresh # manifest.run /\ Fresh # report.run
<1> DEFINE Taken == {manifest.run, report.run} \cup {proc[p].id : p \in Procs} \cup {proc[p].seen : p \in Procs}
<1>1. \E r \in Run : r \notin {manifest.run, report.run, proc["child"].id, proc["hand"].id,
                              proc["child"].seen, proc["hand"].seen}
    BY SevenNames
<1>2. \E r \in Run : r \notin Taken
    BY <1>1
<1>3. Fresh = CHOOSE r \in Run : r \notin Taken
    BY DEF Fresh
<1>4. manifest.run \in Taken /\ report.run \in Taken
    OBVIOUS
<1>5. (CHOOSE r \in Run : r \notin Taken) \in {r \in Run : r \notin Taken}
  <2> HIDE DEF Taken
  <2> QED
    BY <1>2
<1> HIDE DEF Taken
<1> QED
    BY <1>3, <1>4, <1>5

\* a layer more, with nothing before it missing
LEMMA WrittenNext ==
    ASSUME NEW S, NEW body \in Seq(S), NEW v \in S
    PROVE  /\ Len(Written(body, Len(body) + 1, v)) = Len(body) + 1
           /\ \A i \in 1..Len(body) : Written(body, Len(body) + 1, v)[i] = body[i]
           /\ Written(body, Len(body) + 1, v)[Len(body) + 1] = v
    BY DEF Written

\* a layer written anywhere
LEMMA WrittenType ==
    ASSUME NEW n \in Nat, NEW body \in Seq(0..n), NEW i \in Nat \ {0}, NEW v \in 0..n
    PROVE  Written(body, i, v) \in Seq(0..n)
<1> DEFINE l == IF Len(body) < i THEN i ELSE Len(body)
<1>1. l \in Nat
    OBVIOUS
<1>2. \A j \in 1..l : (IF j = i THEN v ELSE IF j <= Len(body) THEN body[j] ELSE 0) \in 0..n
    OBVIOUS
<1> HIDE DEF l
<1>3. [j \in 1..l |-> IF j = i THEN v ELSE IF j <= Len(body) THEN body[j] ELSE 0] \in Seq(0..n)
    BY <1>1, <1>2
<1> QED
    BY <1>3 DEF Written, l

LEMMA PresentType == Present \in Seq(Files) /\ PackedArtifactSet \in Seq(Files)
<1>1. PackedArtifactSet \in Seq(Files)
    BY DEF Files, PackedArtifactSet
<1>2. \A f \in Files : Listed(f) \in Seq(Files)
    BY DEF Listed
<1>3. \A s, t \in Seq(Files) : s \o t \in Seq(Files)
    OBVIOUS
<1>4. "marker" \in Files /\ "bin" \in Files /\ "manifest" \in Files /\ "report" \in Files
    BY DEF Files
<1> HIDE DEF Procs
<1>5. Present \in Seq(Files)
    BY <1>2, <1>3, <1>4 DEF Present
<1> QED
    BY <1>1, <1>5

-----------------------------------------------------------------------------
(* The values the state takes. *)

LEMMA NoProcType ==
    /\ NoProc \in ProcType
    /\ \A c \in {"none", "ok", "failed", "exists"} : [NoProc EXCEPT !.code = c] \in ProcType
    /\ \A o, f \in BOOLEAN : [NoProc EXCEPT !.pc = "check", !.only = o, !.force = f] \in ProcType
<1>1. 0 \in 0..Layers /\ 0 \in 0..MaxVersions /\ 0 \in Run \cup {0}
    BY BoundsAssumption
<1> QED
    BY <1>1 DEF NoProc, ProcType

\* the start and the end of a repacker
LEMMA StartedEnded ==
    ASSUME proc \in [Procs -> ProcType], NEW p \in Procs
    PROVE  /\ [proc EXCEPT ![p] = NoProc] \in [Procs -> ProcType]
           /\ \A c \in {"none", "ok", "failed", "exists"} : Ended(p, c) => proc' \in [Procs -> ProcType]
           /\ \A o, f \in BOOLEAN : Started(p, o, f) => proc' \in [Procs -> ProcType]
<1>1. \A r \in ProcType : [proc EXCEPT ![p] = r] \in [Procs -> ProcType]
    OBVIOUS
<1> QED
    BY <1>1, NoProcType DEF Ended, Started

\* the files as the launcher leaves them
LEMMA NoFileType == NoBin \in BinType /\ NoManifest \in ManifestType /\ NoReport \in ReportType
<1>1. 0 \in 0..MaxVersions /\ <<>> \in Seq(0..MaxVersions)
    BY BoundsAssumption
<1> QED
    BY <1>1 DEF NoBin, NoManifest, NoReport, BinType, ManifestType, ReportType

LEMMA TodoType ==
    ASSUME setup \in SetupType
    PROVE  /\ setup.todo # <<>> => Tail(setup.todo) \in Seq(Files)
           /\ <<>> \in Seq(Files)
    BY DEF SetupType

\* Every record of the repackers has its type.
LEMMA RepackerType ==
    ASSUME TypeOK, NEW p \in Procs, Repacker(p) \/ Dies(p),
           AtLayer
    PROVE  TypeOK'
<1> USE DEF TypeOK
<1> p \in {"child", "hand"}
    OBVIOUS
<1>1. CASE Check(p)
  <2>1. CASE proc[p].only
    BY <1>1, <2>1, StartedEnded DEF Check, Moves, ProcType
  <2>2. CASE ~proc[p].only /\ Ended(p, "exists")
    BY <1>1, <2>2, StartedEnded DEF Check
  <2>3. CASE proc' = [proc EXCEPT ![p].pc = "mark", ![p].id = Fresh]
    BY <1>1, <2>3, FreshIsFree DEF Check, ProcType
  <2> QED
    BY <1>1, <2>1, <2>2, <2>3 DEF Check
<1>2. CASE Mark(p)
    BY <1>2 DEF Mark, Moves, ProcType
<1>3. CASE Open(p)
  <2>1. bin' \in BinType
    BY <1>3 DEF Open, BinType
  <2>2. 1 \in 0..Layers
    BY BoundsAssumption
  <2>3. proc' \in [Procs -> ProcType]
    BY <1>3, <2>2 DEF Open, ProcType
  <2> QED
    BY <1>3, <2>1, <2>3 DEF Open
<1>4. CASE WriteLayer(p)
  <2>1. bin' \in BinType
    <3>1. MaxVersions \in Nat /\ src \in 0..MaxVersions /\ bin.body \in Seq(0..MaxVersions)
        BY BoundsAssumption DEF Version, BinType
    <3>2. proc[p].at \in Nat
        BY BoundsAssumption DEF ProcType
    <3>3. CASE proc[p].at = 0
      <4>1. FALSE
        BY <1>4, <3>3 DEF WriteLayer, AtLayer
      <4> QED
        BY <4>1
    <3>4. CASE proc[p].at # 0
      <4>1. Written(bin.body, proc[p].at, src) \in Seq(0..MaxVersions)
        BY <3>1, <3>2, <3>4, WrittenType
      <4> QED
        BY <1>4, <4>1 DEF WriteLayer, BinType
    <3> QED
        BY <3>3, <3>4
  <2>2. proc' \in [Procs -> ProcType]
    BY <1>4, BoundsAssumption DEF WriteLayer, ProcType
  <2> QED
    BY <1>4, <2>1, <2>2 DEF WriteLayer
<1>5. CASE Seal(p)
    BY <1>5, BoundsAssumption DEF Seal, ManifestType, Version, ProcType
<1>6. CASE Dump(p)
    BY <1>6, BoundsAssumption DEF Dump, ManifestType, ProcType
<1>7. CASE Verify(p)
  <2>1. manifest.run \in Run \cup {0}
    BY DEF ManifestType
  <2>2. \A c \in {"compare", "append"}, r \in Run \cup {0} :
            [proc EXCEPT ![p].pc = c, ![p].seen = r, ![p].pass = FALSE] \in [Procs -> ProcType]
    <3> TAKE c \in {"compare", "append"}, r \in Run \cup {0}
    <3>1. [proc[p] EXCEPT !.pc = c, !.seen = r, !.pass = FALSE] \in ProcType
      <4>1. proc[p] \in ProcType
        OBVIOUS
      <4> HIDE DEF TypeOK
      <4> QED
        BY <4>1 DEF ProcType
    <3>2. [proc EXCEPT ![p].pc = c, ![p].seen = r, ![p].pass = FALSE]
            = [proc EXCEPT ![p] = [proc[p] EXCEPT !.pc = c, !.seen = r, !.pass = FALSE]]
        OBVIOUS
    <3> QED
        BY <3>1, <3>2
  <2>3. proc' \in [Procs -> ProcType]
    BY <1>7, <2>1, <2>2 DEF Verify
  <2> QED
    BY <1>7, <2>3 DEF Verify
<1>8. CASE Compare(p)
  <2>1. (bin.exists /\ bin.body = [i \in 1..Layers |-> src]) \in BOOLEAN
    BY DEF BinType
  <2> HIDE DEF TypeOK
  <2> DEFINE b == bin.exists /\ bin.body = [i \in 1..Layers |-> src]
  <2> HIDE DEF b
  <2>2. b \in BOOLEAN => [proc EXCEPT ![p].pc = "append", ![p].pass = b] \in [Procs -> ProcType]
    BY DEF ProcType, TypeOK
  <2> QED
    BY <1>8, <2>1, <2>2 DEF Compare, b, TypeOK
<1>9. CASE Record(p)
    BY <1>9 DEF Record, ReportType, Moves, ProcType
<1>10. CASE Unmark(p)
  <2>1. proc' \in [Procs -> ProcType]
    BY <1>10, StartedEnded DEF Unmark
  <2>2. marker' \in BOOLEAN
    BY <1>10 DEF Unmark
  <2> QED
    BY <1>10, <2>1, <2>2 DEF Unmark
<1>11. CASE Dies(p)
  <2>1. proc' \in [Procs -> ProcType]
    BY <1>11, StartedEnded DEF Dies
  <2>2. count' \in CountType
    BY <1>11, BoundsAssumption DEF Dies, CountType
  <2> QED
    BY <1>11, <2>1, <2>2 DEF Dies
<1> QED
    BY <1>1, <1>2, <1>3, <1>4, <1>5, <1>6, <1>7, <1>8, <1>9, <1>10, <1>11 DEF Repacker

LEMMA LauncherType ==
    ASSUME TypeOK,
           \/ ByHand \/ (\E force \in BOOLEAN : Plan(force)) \/ Launcher \/ Decline
           \/ RemovePartialSetup \/ Cancel \/ Crash \/ Replaced
    PROVE  TypeOK'
<1> USE DEF TypeOK
<1>1. CASE ByHand
  <2>1. proc' \in [Procs -> ProcType]
    BY <1>1, StartedEnded DEF ByHand
  <2>2. count' \in CountType
    BY <1>1, BoundsAssumption DEF ByHand, CountType
  <2> QED
    BY <1>1, <2>1, <2>2 DEF ByHand
<1>2. CASE \E force \in BOOLEAN : Plan(force)
    BY <1>2, PresentType DEF Plan, SetupType
<1>3. CASE Consent
    BY <1>3 DEF Consent, SetupType
<1>4. CASE RemoveOne
  <2>1. setup' \in SetupType
    BY <1>4, TodoType DEF RemoveOne, SetupType
  <2> QED
    BY <1>4, <2>1, NoFileType DEF RemoveOne
<1>5. CASE CannotRemove
  <2>1. setup' \in SetupType
    BY <1>5, TodoType DEF CannotRemove, SetupType
  <2>2. count' \in CountType
    BY <1>5, BoundsAssumption DEF CannotRemove, CountType
  <2> QED
    BY <1>5, <2>1, <2>2 DEF CannotRemove
<1>6. CASE RemoveDone
    BY <1>6 DEF RemoveDone, Removing, SetupType
<1>7. CASE Spawn
  <2>1. proc' \in [Procs -> ProcType]
    BY <1>7, StartedEnded DEF Spawn
  <2> QED
    BY <1>7, <2>1 DEF Spawn, SetupType
<1>8. CASE Collect
  <2>1. proc' \in [Procs -> ProcType]
    BY <1>8, StartedEnded DEF Collect
  <2> QED
    BY <1>8, <2>1 DEF Collect, SetupType
<1>9. CASE Decline
    BY <1>9, TodoType DEF Decline, SetupType
<1>10. CASE RemovePartialSetup
    BY <1>10, PresentType DEF RemovePartialSetup, SetupType
<1>11. CASE Cancel
  <2>1. proc' \in [Procs -> ProcType]
    BY <1>11, StartedEnded DEF Cancel
  <2>2. count' \in CountType
    BY <1>11, BoundsAssumption DEF Cancel, CountType
  <2> QED
    BY <1>11, <2>1, <2>2, PresentType DEF Cancel, SetupType
<1>12. CASE Crash
  <2>1. proc' \in [Procs -> ProcType]
    BY <1>12, StartedEnded DEF Crash
  <2>2. count' \in CountType
    BY <1>12, BoundsAssumption DEF Crash, CountType
  <2> QED
    BY <1>12, <2>1, <2>2, TodoType DEF Crash, SetupType
<1>13. CASE Replaced
    BY <1>13, BoundsAssumption DEF Replaced, Version
<1> QED
    BY <1>1, <1>2, <1>3, <1>4, <1>5, <1>6, <1>7, <1>8, <1>9, <1>10, <1>11, <1>12, <1>13 DEF Launcher

-----------------------------------------------------------------------------
(* What a step leaves of the repackers. *)

Others(p) == \A q \in Procs : q # p => proc'[q] = proc[q]

LEMMA StepOf ==
    ASSUME TypeOK, NEW p \in Procs
    PROVE  /\ Mark(p) => Others(p) /\ proc'[p].pc = "open" /\ proc'[p].ver = proc[p].ver /\ proc'[p].id = proc[p].id
           /\ Open(p) => /\ Others(p) /\ proc'[p].pc = "write" /\ proc'[p].at = 1
                         /\ proc'[p].ver = proc[p].ver /\ proc'[p].id = proc[p].id
           /\ Seal(p) => Others(p) /\ proc'[p].pc = "dump" /\ proc'[p].ver = src /\ proc'[p].id = proc[p].id
           /\ Dump(p) => Others(p) /\ proc'[p].pc = "verify" /\ proc'[p].ver = 0
           /\ Record(p) => Others(p) /\ proc'[p].pc = "unmark" /\ proc'[p].ver = proc[p].ver
    BY DEF TypeOK, Others, Mark, Open, Seal, Dump, Record, Moves, ProcType

LEMMA StepOfWrite ==
    ASSUME TypeOK, NEW p \in Procs, WriteLayer(p)
    PROVE  /\ Others(p) /\ proc'[p].ver = proc[p].ver /\ proc'[p].id = proc[p].id
           /\ proc[p].at = Layers => proc'[p].pc = "seal"
           /\ proc[p].at # Layers => proc'[p].pc = "write" /\ proc'[p].at = proc[p].at + 1
           /\ proc[p].at \in 0..Layers
    BY DEF TypeOK, Others, WriteLayer, ProcType

LEMMA StepOfVerify ==
    ASSUME TypeOK, NEW p \in Procs
    PROVE  /\ Verify(p) => /\ Others(p) /\ proc'[p].pc \in {"compare", "append"}
                           /\ proc'[p].pass = FALSE /\ proc'[p].ver = proc[p].ver
           /\ Compare(p) => /\ Others(p) /\ proc'[p].pc = "append" /\ proc'[p].ver = proc[p].ver
                            /\ proc'[p].pass = (bin.exists /\ bin.body = [i \in 1..Layers |-> src])
    BY DEF TypeOK, Others, Verify, Compare, ProcType

LEMMA StepOfEnd ==
    ASSUME TypeOK, NEW p \in Procs
    PROVE  /\ Unmark(p) \/ Dies(p) => Others(p) /\ proc'[p].pc = "none" /\ proc'[p].ver = 0
           /\ \A c : Ended(p, c) => Others(p) /\ proc'[p].pc = "none" /\ proc'[p].ver = 0
           /\ \A o, f : Started(p, o, f) => Others(p) /\ proc'[p].pc = "check" /\ proc'[p].ver = 0
           /\ proc' = [proc EXCEPT ![p] = NoProc] => Others(p) /\ proc'[p].pc = "none" /\ proc'[p].ver = 0
<1>1. \A c : Ended(p, c) => Others(p) /\ proc'[p].pc = "none" /\ proc'[p].ver = 0
    BY DEF TypeOK, Others, Ended, NoProc
<1>2. \A o, f : Started(p, o, f) => Others(p) /\ proc'[p].pc = "check" /\ proc'[p].ver = 0
    BY DEF TypeOK, Others, Started, NoProc
<1>3. proc' = [proc EXCEPT ![p] = NoProc] => Others(p) /\ proc'[p].pc = "none" /\ proc'[p].ver = 0
    BY DEF TypeOK, Others, NoProc
<1> QED
    BY <1>1, <1>2, <1>3 DEF Unmark, Dies

LEMMA StepOfCheck ==
    ASSUME TypeOK, NEW p \in Procs, Check(p)
    PROVE  /\ Others(p)
           /\ \/ proc'[p].pc = "none" /\ proc'[p].ver = 0
              \/ proc'[p].pc = "verify" /\ proc'[p].ver = proc[p].ver
              \/ proc'[p].pc = "mark" /\ proc'[p].ver = proc[p].ver /\ proc'[p].id = Fresh
<1>1. CASE proc[p].only
    BY <1>1, StepOfEnd DEF Check, Moves, Others, TypeOK, ProcType
<1>2. CASE ~proc[p].only /\ Ended(p, "exists")
    BY <1>2, StepOfEnd
<1>3. CASE proc' = [proc EXCEPT ![p].pc = "mark", ![p].id = Fresh]
    BY <1>3 DEF Others, TypeOK, ProcType
<1> QED
    BY <1>1, <1>2, <1>3 DEF Check

\* the steps of the launcher and of the user
LEMMA LauncherStep ==
    ASSUME TypeOK
    PROVE  /\ ByHand => Others("hand") /\ proc'["hand"].pc = "check" /\ proc'["hand"].ver = 0
           /\ Spawn => Others("child") /\ proc'["child"].pc = "check" /\ proc'["child"].ver = 0
           /\ Collect \/ Cancel \/ Crash => Others("child") /\ proc'["child"].pc = "none" /\ proc'["child"].ver = 0
           /\ \/ (\E force \in BOOLEAN : Plan(force)) \/ Consent \/ Decline \/ RemovePartialSetup \/ RemoveOne
              \/ CannotRemove \/ RemoveDone \/ Replaced
              => proc' = proc
<1>1. ByHand => Others("hand") /\ proc'["hand"].pc = "check" /\ proc'["hand"].ver = 0
    BY StepOfEnd DEF ByHand
<1>2. Spawn => Others("child") /\ proc'["child"].pc = "check" /\ proc'["child"].ver = 0
    BY StepOfEnd DEF Spawn
<1>3. Collect \/ Cancel \/ Crash => Others("child") /\ proc'["child"].pc = "none" /\ proc'["child"].ver = 0
    BY StepOfEnd DEF Collect, Cancel, Crash
<1>4. \/ (\E force \in BOOLEAN : Plan(force)) \/ Consent \/ Decline \/ RemovePartialSetup \/ RemoveOne
      \/ CannotRemove \/ RemoveDone \/ Replaced
      => proc' = proc
    BY DEF Plan, Consent, Decline, RemovePartialSetup, RemoveOne, CannotRemove, RemoveDone, Replaced
<1> QED
    BY <1>1, <1>2, <1>3, <1>4

LEMMA InitType == Init => TypeOK /\ AtLayer
<1> SUFFICES ASSUME Init PROVE TypeOK /\ AtLayer
    OBVIOUS
<1>1. proc \in [Procs -> ProcType]
    BY NoProcType DEF Init
<1>2. count \in CountType /\ setup \in SetupType /\ src \in Version
    BY BoundsAssumption DEF Init, CountType, SetupType, Version
<1>3. AtLayer
    BY DEF Init, NoProc, AtLayer
<1> QED
    BY <1>1, <1>2, <1>3, NoFileType DEF Init, TypeOK

LEMMA StaysAtLayer == TypeOK /\ AtLayer /\ [Next]_vars => AtLayer'
<1> SUFFICES ASSUME TypeOK, AtLayer, [Next]_vars PROVE AtLayer'
    OBVIOUS
<1>1. ASSUME NEW p \in Procs, Repacker(p) \/ Dies(p) PROVE AtLayer'
  <2>1. Others(p) /\ (proc'[p].pc = "write" => proc'[p].at # 0)
    <3>1. CASE Check(p)
        BY <3>1, StepOfCheck
    <3>2. CASE Mark(p) \/ Open(p) \/ Seal(p) \/ Dump(p) \/ Record(p)
        BY <3>2, StepOf
    <3>3. CASE Verify(p) \/ Compare(p)
        BY <3>3, StepOfVerify
    <3>4. CASE Unmark(p) \/ Dies(p)
        BY <3>4, StepOfEnd
    <3>5. CASE WriteLayer(p)
        BY <3>5, StepOfWrite, BoundsAssumption
    <3> QED
        BY <1>1, <3>1, <3>2, <3>3, <3>4, <3>5 DEF Repacker
  <2> QED
    BY <2>1 DEF AtLayer, Others
<1>2. CASE UNCHANGED proc
    BY <1>2 DEF AtLayer
<1>3. CASE ByHand \/ Spawn \/ Collect \/ Cancel \/ Crash
    BY <1>3, LauncherStep DEF AtLayer, Others
<1>4. CASE \/ (\E force \in BOOLEAN : Plan(force)) \/ Consent \/ Decline \/ RemovePartialSetup \/ RemoveOne
           \/ CannotRemove \/ RemoveDone \/ Replaced
    BY <1>2, <1>4, LauncherStep
<1> QED
    BY <1>1, <1>2, <1>3, <1>4 DEF Next, Launcher, vars

\* Every variable keeps its type: the state of the folder, the run of the
\* launcher and the repackers stay what the code can tell apart.
THEOREM TypeCorrect == Spec => [](TypeOK /\ AtLayer)
<1>1. TypeOK /\ AtLayer /\ [Next]_vars => TypeOK'
  <2>1. ASSUME TypeOK, AtLayer, Next PROVE TypeOK'
    BY <2>1, RepackerType, LauncherType DEF Next
  <2>2. ASSUME TypeOK, UNCHANGED vars PROVE TypeOK'
    BY <2>2 DEF vars, TypeOK
  <2> QED
    BY <2>1, <2>2
<1> QED
    BY InitType, StaysAtLayer, <1>1, PTL DEF Spec

-----------------------------------------------------------------------------
(* One repacker at a time. *)

\* when a repacker is at work there is no other, and the launcher deletes nothing
LEMMA LiveAlone ==
    ASSUME TypeOK, OneAtATime, NEW p \in Procs, Live(p)
    PROVE  /\ \A q \in Procs : q # p => ~Live(q)
           /\ ~Removing
    BY DEF OneAtATime, Live, Removing

LEMMA RepackerAlone ==
    ASSUME TypeOK, OneAtATime, NEW p \in Procs, Repacker(p) \/ Dies(p)
    PROVE  /\ Live(p) /\ setup' = setup
           /\ Others(p) /\ src' = src
<1>1. CASE Check(p)
    BY <1>1, StepOfCheck DEF Check, Live
<1>2. CASE Mark(p) \/ Open(p) \/ Seal(p) \/ Dump(p) \/ Record(p)
    BY <1>2, StepOf DEF Mark, Open, Seal, Dump, Record, Live
<1>3. CASE Verify(p) \/ Compare(p)
    BY <1>3, StepOfVerify DEF Verify, Compare, Live
<1>4. CASE Unmark(p) \/ Dies(p)
    BY <1>4, StepOfEnd DEF Unmark, Dies, Live
<1>5. CASE WriteLayer(p)
    BY <1>5, StepOfWrite DEF WriteLayer, Live
<1> QED
    BY <1>1, <1>2, <1>3, <1>4, <1>5 DEF Repacker

LEMMA StaysOneAtATime ==
    ASSUME ~Together, TypeOK, OneAtATime, [Next]_vars
    PROVE  OneAtATime'
<1>1. ASSUME NEW p \in Procs, Repacker(p) \/ Dies(p) PROVE OneAtATime'
    BY <1>1, RepackerAlone DEF OneAtATime, Live, Others
<1>2. CASE ByHand
    BY <1>2, LauncherStep DEF ByHand, OneAtATime, Live, Others
<1>3. CASE \E force \in BOOLEAN : Plan(force)
    BY <1>3, LauncherStep DEF Plan, OneAtATime, Live
<1>4. CASE Consent
    BY <1>4, LauncherStep DEF Consent, Alone, OneAtATime, Live, TypeOK, SetupType
<1>5. CASE RemovePartialSetup
    BY <1>5, LauncherStep DEF RemovePartialSetup, Alone, OneAtATime, Live, TypeOK, SetupType
<1>6. CASE Decline
    BY <1>6, LauncherStep DEF Decline, OneAtATime, Live, TypeOK, SetupType
<1>7. CASE RemoveOne \/ CannotRemove
    BY <1>7, LauncherStep DEF RemoveOne, CannotRemove, OneAtATime, Live, TypeOK, SetupType
<1>8. CASE RemoveDone
    BY <1>8, LauncherStep DEF RemoveDone, Removing, OneAtATime, Live, TypeOK, SetupType
<1>9. CASE Spawn
    BY <1>9, LauncherStep DEF Spawn, OneAtATime, Live, Others, TypeOK, SetupType
<1>10. CASE Collect
    BY <1>10, LauncherStep DEF Collect, OneAtATime, Live, Others, TypeOK, SetupType
<1>11. CASE Cancel
    BY <1>11, LauncherStep DEF Cancel, OneAtATime, Live, Others, TypeOK, SetupType
<1>12. CASE Crash
    BY <1>12, LauncherStep DEF Crash, OneAtATime, Live, Others, TypeOK, SetupType
<1>13. CASE Replaced
    BY <1>13 DEF Replaced, OneAtATime, Live
<1>14. CASE UNCHANGED vars
    BY <1>14 DEF vars, OneAtATime, Live
<1> QED
    BY <1>1, <1>2, <1>3, <1>4, <1>5, <1>6, <1>7, <1>8, <1>9, <1>10, <1>11, <1>12, <1>13, <1>14
       DEF Next, Launcher

\* a deletion happens while no repacker is at work
LEMMA NobodyLives ==
    ASSUME TypeOK, OneAtATime, RemoveOne
    PROVE  /\ \A p \in Procs : ~Live(p)
           /\ proc' = proc /\ src' = src
           /\ \/ UNCHANGED <<bin, manifest, report>>
              \/ bin' = NoBin /\ UNCHANGED <<manifest, report>>
              \/ manifest' = NoManifest /\ UNCHANGED <<bin, report>>
              \/ report' = NoReport /\ UNCHANGED <<bin, manifest>>
    BY DEF OneAtATime, Live, Removing, RemoveOne

\* the steps that leave the files, and the repackers at work, as they are
LEMMA FilesKept ==
    ASSUME TypeOK
    PROVE  /\ \/ ByHand \/ (\E force \in BOOLEAN : Plan(force)) \/ Consent \/ Decline \/ RemovePartialSetup
              \/ CannotRemove \/ RemoveDone \/ Spawn \/ Collect \/ Cancel \/ Crash
              => /\ UNCHANGED <<src, bin, manifest, report>>
                 /\ \A p \in Procs : proc'[p] = proc[p] \/ (proc'[p].pc \in {"none", "check"} /\ proc'[p].ver = 0)
<1>1. CASE ByHand
    BY <1>1, LauncherStep DEF ByHand, Others
<1>2. CASE Spawn \/ Collect \/ Cancel \/ Crash
    BY <1>2, LauncherStep DEF Spawn, Collect, Cancel, Crash, Others
<1>3. CASE \/ (\E force \in BOOLEAN : Plan(force)) \/ Consent \/ Decline \/ RemovePartialSetup
           \/ CannotRemove \/ RemoveDone
    BY <1>3, LauncherStep DEF Plan, Consent, Decline, RemovePartialSetup, CannotRemove, RemoveDone
<1> QED
    BY <1>1, <1>2, <1>3

-----------------------------------------------------------------------------
(* The layers of experts.bin. *)

\* a step of a repacker that is not WriteLayer or Open leaves experts.bin alone
\* and does not begin to write
LEMMA NotWriting ==
    ASSUME TypeOK, NEW p \in Procs,
           \/ Check(p) \/ Mark(p) \/ Seal(p) \/ Dump(p) \/ Verify(p) \/ Compare(p)
           \/ Record(p) \/ Unmark(p) \/ Dies(p)
    PROVE  bin' = bin /\ proc'[p].pc # "write"
<1>1. CASE Check(p)
    BY <1>1, StepOfCheck DEF Check
<1>2. CASE Mark(p) \/ Seal(p) \/ Dump(p) \/ Record(p)
    BY <1>2, StepOf DEF Mark, Seal, Dump, Record
<1>3. CASE Verify(p) \/ Compare(p)
    BY <1>3, StepOfVerify DEF Verify, Compare
<1>4. CASE Unmark(p) \/ Dies(p)
    BY <1>4, StepOfEnd DEF Unmark, Dies
<1> QED
    BY <1>1, <1>2, <1>3, <1>4

\* what one more layer leaves
LEMMA LayerWritten ==
    ASSUME TypeOK, InOrder, NEW p \in Procs, WriteLayer(p)
    PROVE  /\ Len(bin'.body) = Len(bin.body) + 1 /\ Len(bin.body) \in Nat
           /\ \A i \in 1..Len(bin.body) : bin'.body[i] = bin.body[i]
           /\ bin'.body[Len(bin.body) + 1] = src
           /\ proc[p].at = Len(bin.body) + 1 /\ proc[p].at \in 1..Layers
<1>1. bin.body \in Seq(0..MaxVersions) /\ src \in 0..MaxVersions
    BY BoundsAssumption DEF TypeOK, BinType, Version
<1>2. proc[p].at = Len(bin.body) + 1 /\ proc[p].at \in 1..Layers
  <2>1. Len(bin.body) = proc[p].at - 1 /\ proc[p].at \in 1..Layers
    BY DEF InOrder, WriteLayer
  <2> QED
    BY <2>1, BoundsAssumption
<1>3. bin'.body = Written(bin.body, Len(bin.body) + 1, src)
    BY <1>2 DEF WriteLayer, TypeOK, BinType
<1>4. /\ Len(Written(bin.body, Len(bin.body) + 1, src)) = Len(bin.body) + 1
      /\ \A i \in 1..Len(bin.body) : Written(bin.body, Len(bin.body) + 1, src)[i] = bin.body[i]
      /\ Written(bin.body, Len(bin.body) + 1, src)[Len(bin.body) + 1] = src
    BY <1>1, WrittenNext
<1>5. Len(bin.body) \in Nat
    BY <1>1
<1> QED
    BY <1>2, <1>3, <1>4, <1>5, Zenon

LEMMA StaysInOrder ==
    ASSUME TypeOK, OneAtATime, InOrder, [Next]_vars
    PROVE  InOrder'
<1>0. src \in Nat /\ Layers \in Nat \ {0} /\ bin.body \in Seq(0..MaxVersions)
    BY BoundsAssumption DEF TypeOK, Version, BinType
<1>1. ASSUME NEW p \in Procs, Repacker(p) \/ Dies(p) PROVE InOrder'
  <2>0. src' = src /\ \A q \in Procs : q # p => proc'[q].pc = proc[q].pc /\ proc'[q].pc # "write"
    BY <1>1, RepackerAlone, LiveAlone DEF Others, Live
  <2>1. CASE WriteLayer(p)
    <3>1. \A i \in 1..Len(bin'.body) : bin'.body[i] \in 1..src
      <4> TAKE i \in 1..Len(bin'.body)
      <4>1. i \in 1..Len(bin.body) \/ i = Len(bin.body) + 1
        BY <2>1, LayerWritten
      <4>2. src \in 1..src
        BY BoundsAssumption DEF TypeOK, Version
      <4>3. CASE i \in 1..Len(bin.body)
        BY <2>1, <4>3, LayerWritten DEF InOrder
      <4>4. CASE i = Len(bin.body) + 1
        BY <2>1, <4>2, <4>4, LayerWritten
      <4> QED
        BY <4>1, <4>3, <4>4
    <3>2. proc'[p].pc = "write" => Len(bin'.body) = proc'[p].at - 1 /\ proc'[p].at \in 1..Layers
      <4>1. /\ proc[p].at = Len(bin.body) + 1 /\ Len(bin'.body) = Len(bin.body) + 1
            /\ Len(bin.body) \in Nat /\ proc[p].at \in 1..Layers
        BY <2>1, LayerWritten
      <4>2. proc'[p].pc = "write" => proc[p].at # Layers /\ proc'[p].at = proc[p].at + 1
        BY <2>1, StepOfWrite
      <4> QED
        BY <1>0, <4>1, <4>2
    <3> QED
        BY <2>0, <3>1, <3>2 DEF InOrder
  <2>2. CASE Open(p)
    <3>1. bin'.body = <<>> /\ proc'[p].at = 1
        BY <2>2, StepOf DEF Open
    <3> QED
        BY <1>0, <2>0, <3>1 DEF InOrder
  <2>3. CASE ~WriteLayer(p) /\ ~Open(p)
    <3>1. bin' = bin /\ proc'[p].pc # "write"
        BY <1>1, <2>3, NotWriting DEF Repacker
    <3> QED
        BY <2>0, <3>1 DEF InOrder
  <2> QED
    BY <2>1, <2>2, <2>3
<1>2. CASE RemoveOne
  <2>1. bin'.body = <<>> \/ bin' = bin
    BY <1>2, NobodyLives DEF NoBin
  <2>2. src' = src /\ \A p \in Procs : proc'[p].pc # "write"
    BY <1>2, NobodyLives DEF Live
  <2> QED
    BY <1>0, <2>1, <2>2 DEF InOrder
<1>3. CASE Replaced
    BY <1>3, <1>0 DEF Replaced, InOrder
<1>4. CASE UNCHANGED vars
    BY <1>4 DEF vars, InOrder
<1>5. CASE \/ ByHand \/ (\E force \in BOOLEAN : Plan(force)) \/ Consent \/ Decline \/ RemovePartialSetup
           \/ CannotRemove \/ RemoveDone \/ Spawn \/ Collect \/ Cancel \/ Crash
    BY <1>5, FilesKept DEF InOrder
<1> QED
    BY <1>1, <1>2, <1>3, <1>4, <1>5 DEF Next, Launcher

-----------------------------------------------------------------------------
(* The names of the runs, and how old a manifest may be. *)

LEMMA StaysOld ==
    ASSUME TypeOK, OneAtATime, ManifestIsOld, [Next]_vars
    PROVE  ManifestIsOld'
<1>0. src \in Nat /\ src # 0
    BY BoundsAssumption DEF TypeOK, Version
<1>1. ASSUME NEW p \in Procs, Repacker(p) \/ Dies(p) PROVE ManifestIsOld'
  <2>0. src' = src /\ \A q \in Procs : q # p => proc'[q].ver = proc[q].ver
    BY <1>1, RepackerAlone DEF Others
  <2>1. manifest'.src <= src /\ proc'[p].ver <= src
    <3>1. CASE Check(p)
        BY <3>1, <1>0, StepOfCheck DEF Check, ManifestIsOld
    <3>2. CASE Mark(p) \/ Open(p) \/ Record(p)
        BY <3>2, StepOf DEF Mark, Open, Record, ManifestIsOld
    <3>3. CASE Seal(p) \/ Dump(p)
        BY <3>3, <1>0, StepOf DEF Seal, Dump, ManifestIsOld
    <3>4. CASE Verify(p) \/ Compare(p)
        BY <3>4, StepOfVerify DEF Verify, Compare, ManifestIsOld
    <3>5. CASE Unmark(p) \/ Dies(p)
        BY <3>5, <1>0, StepOfEnd DEF Unmark, Dies, ManifestIsOld
    <3>6. CASE WriteLayer(p)
        BY <3>6, StepOfWrite DEF WriteLayer, ManifestIsOld
    <3> QED
        BY <1>1, <3>1, <3>2, <3>3, <3>4, <3>5, <3>6 DEF Repacker
  <2> QED
    BY <2>0, <2>1 DEF ManifestIsOld
<1>2. CASE RemoveOne
    BY <1>2, <1>0, NobodyLives DEF ManifestIsOld, NoManifest
<1>3. CASE Replaced
  <2>1. manifest.src \in Nat /\ \A p \in Procs : proc[p].ver \in Nat
    BY BoundsAssumption DEF TypeOK, ManifestType, ProcType
  <2> QED
    BY <1>3, <1>0, <2>1 DEF Replaced, ManifestIsOld
<1>4. CASE UNCHANGED vars
    BY <1>4 DEF vars, ManifestIsOld
<1>5. CASE \/ ByHand \/ (\E force \in BOOLEAN : Plan(force)) \/ Consent \/ Decline \/ RemovePartialSetup
           \/ CannotRemove \/ RemoveDone \/ Spawn \/ Collect \/ Cancel \/ Crash
    BY <1>5, <1>0, FilesKept DEF ManifestIsOld
<1> QED
    BY <1>1, <1>2, <1>3, <1>4, <1>5 DEF Next, Launcher

LEMMA StaysFresh ==
    ASSUME TypeOK, OneAtATime, NamesFresh, [Next]_vars
    PROVE  NamesFresh'
<1> DEFINE Early == {"mark", "open", "write", "seal", "dump"}
<1>1. ASSUME NEW p \in Procs, Repacker(p) \/ Dies(p) PROVE NamesFresh'
  <2>0. \A q \in Procs : q # p => proc'[q].pc \notin Early
    BY <1>1, RepackerAlone, LiveAlone DEF Others, Live
  <2>1. proc'[p].pc \in Early => proc'[p].id # 0 /\ proc'[p].id # report'.run
    <3>1. CASE Check(p)
      <4>1. proc'[p].pc \in Early => proc'[p].id = Fresh
        BY <3>1, StepOfCheck
      <4>2. Fresh \in Run /\ Fresh # report.run
        BY FreshIsFree
      <4>3. Fresh # 0
        BY <4>2 DEF Run
      <4> QED
        BY <3>1, <4>1, <4>2, <4>3 DEF Check
    <3>2. CASE Mark(p) \/ Open(p) \/ Seal(p)
        BY <3>2, StepOf DEF Mark, Open, Seal, NamesFresh
    <3>3. CASE Dump(p) \/ Record(p)
        BY <3>3, StepOf
    <3>4. CASE Verify(p) \/ Compare(p)
        BY <3>4, StepOfVerify
    <3>5. CASE Unmark(p) \/ Dies(p)
        BY <3>5, StepOfEnd
    <3>6. CASE WriteLayer(p)
        BY <3>6, StepOfWrite DEF WriteLayer, NamesFresh
    <3> QED
        BY <1>1, <3>1, <3>2, <3>3, <3>4, <3>5, <3>6 DEF Repacker
  <2> QED
    BY <2>0, <2>1 DEF NamesFresh
<1>2. CASE RemoveOne
    BY <1>2, NobodyLives DEF NamesFresh, Live
<1>3. CASE Replaced
    BY <1>3 DEF Replaced, NamesFresh
<1>4. CASE UNCHANGED vars
    BY <1>4 DEF vars, NamesFresh
<1>5. CASE \/ ByHand \/ (\E force \in BOOLEAN : Plan(force)) \/ Consent \/ Decline \/ RemovePartialSetup
           \/ CannotRemove \/ RemoveDone \/ Spawn \/ Collect \/ Cancel \/ Crash
    BY <1>5, FilesKept DEF NamesFresh
<1> QED
    BY <1>1, <1>2, <1>3, <1>4, <1>5 DEF Next, Launcher

-----------------------------------------------------------------------------
(* What a passed verification stands for. *)

LEMMA StaysVerified ==
    ASSUME TypeOK, OneAtATime, InOrder, ManifestIsOld, NamesFresh, Verified, [Next]_vars
    PROVE  Verified'
<1>0. src \in Nat /\ Layers \in Nat \ {0} /\ bin.body \in Seq(0..MaxVersions) /\ manifest.src \in Nat
    BY BoundsAssumption DEF TypeOK, Version, BinType, ManifestType
<1>1. ASSUME NEW p \in Procs, Repacker(p) \/ Dies(p) PROVE Verified'
  <2>0. src' = src /\ \A q \in Procs : q # p => proc'[q].pc # "append"
    BY <1>1, RepackerAlone, LiveAlone DEF Others, Live
  <2>1. CASE Check(p)
    <3>1. UNCHANGED <<bin, manifest, report>>
        BY <2>1 DEF Check
    <3> QED
        BY <2>0, <2>1, <3>1, StepOfCheck DEF Verified, Bound, NoOlder
  <2>2. CASE Mark(p)
    <3>1. UNCHANGED <<bin, manifest, report>>
        BY <2>2 DEF Mark
    <3> QED
        BY <2>0, <2>2, <3>1, StepOf DEF Verified, Bound, NoOlder
  <2>3. CASE Open(p)
    <3>1. bin'.body = <<>>
        BY <2>3 DEF Open
    <3> QED
        BY <3>1 DEF Verified, NoOlder
  <2>4. CASE WriteLayer(p)
    <3>1. UNCHANGED <<manifest, report>>
        BY <2>4 DEF WriteLayer
    <3>2. NoOlder => NoOlder'
      <4> SUFFICES ASSUME NoOlder, NEW i \in 1..Len(bin'.body) PROVE manifest.src <= bin'.body[i]
        BY <3>1 DEF NoOlder
      <4>1. i \in 1..Len(bin.body) \/ i = Len(bin.body) + 1
        BY <2>4, LayerWritten
      <4>2. CASE i \in 1..Len(bin.body)
        BY <2>4, <4>2, LayerWritten DEF NoOlder
      <4> QED
        BY <2>4, <4>1, <4>2, LayerWritten DEF ManifestIsOld
    <3>3. proc'[p].pc # "append"
        BY <2>4, StepOfWrite
    <3> QED
        BY <2>0, <3>1, <3>2, <3>3 DEF Verified, Bound
  <2>5. CASE Seal(p)
    <3>1. manifest'.run = 0
        BY <2>5 DEF Seal
    <3> QED
        BY <2>0, <2>5, <3>1, StepOf DEF Verified, Bound
  <2>6. CASE Dump(p)
    <3>1. manifest'.run = proc[p].id /\ report' = report
        BY <2>6 DEF Dump
    <3>2. proc[p].id # report.run
        BY <2>6 DEF Dump, NamesFresh
    <3> QED
        BY <2>0, <2>6, <3>1, <3>2, StepOf DEF Verified, Bound
  <2>7. CASE Verify(p)
    <3>1. UNCHANGED <<bin, manifest, report>>
        BY <2>7 DEF Verify
    <3> QED
        BY <2>0, <2>7, <3>1, StepOfVerify DEF Verified, Bound, NoOlder
  <2>8. CASE Compare(p)
    <3>1. UNCHANGED <<bin, manifest, report>>
        BY <2>8 DEF Compare
    <3>2. proc'[p].pass => NoOlder
      <4>1. proc'[p].pass => bin.body = [i \in 1..Layers |-> src]
        BY <2>8, StepOfVerify
      <4>2. manifest.src <= src
        BY DEF ManifestIsOld
      <4> QED
        BY <1>0, <4>1, <4>2 DEF NoOlder
    <3> QED
        BY <2>0, <3>1, <3>2 DEF Verified, Bound, NoOlder
  <2>9. CASE Record(p)
    <3>1. UNCHANGED <<bin, manifest>> /\ report'.pass = proc[p].pass /\ proc[p].pc = "append"
        BY <2>9 DEF Record
    <3>2. proc'[p].pc = "unmark"
        BY <2>9, StepOf
    <3> QED
        BY <2>0, <3>1, <3>2 DEF Verified, Bound, NoOlder
  <2>10. CASE Unmark(p) \/ Dies(p)
    <3>1. UNCHANGED <<bin, manifest, report>>
        BY <2>10 DEF Unmark, Dies
    <3> QED
        BY <2>0, <2>10, <3>1, StepOfEnd DEF Verified, Bound, NoOlder
  <2> QED
    BY <1>1, <2>1, <2>2, <2>3, <2>4, <2>5, <2>6, <2>7, <2>8, <2>9, <2>10 DEF Repacker
<1>2. CASE RemoveOne
  <2>1. \A p \in Procs : proc'[p].pc # "append"
    BY <1>2, NobodyLives DEF Live
  <2>2. Bound' => NoOlder'
    <3>1. CASE UNCHANGED <<bin, manifest, report>>
        BY <3>1 DEF Verified, Bound, NoOlder
    <3>2. CASE bin' = NoBin
        BY <3>2 DEF NoOlder, NoBin
    <3>3. CASE manifest' = NoManifest \/ report' = NoReport
        BY <3>3 DEF Bound, NoManifest, NoReport
    <3> QED
        BY <1>2, <3>1, <3>2, <3>3, NobodyLives
  <2> QED
    BY <2>1, <2>2 DEF Verified
<1>3. CASE Replaced
    BY <1>3 DEF Replaced, Verified, Bound, NoOlder
<1>4. CASE UNCHANGED vars
    BY <1>4 DEF vars, Verified, Bound, NoOlder
<1>5. CASE \/ ByHand \/ (\E force \in BOOLEAN : Plan(force)) \/ Consent \/ Decline \/ RemovePartialSetup
           \/ CannotRemove \/ RemoveDone \/ Spawn \/ Collect \/ Cancel \/ Crash
  <2>1. UNCHANGED <<bin, manifest, report>>
    BY <1>5, FilesKept
  <2> QED
    BY <1>5, <2>1, FilesKept DEF Verified, Bound, NoOlder
<1> QED
    BY <1>1, <1>2, <1>3, <1>4, <1>5 DEF Next, Launcher

-----------------------------------------------------------------------------
(* The theorem. *)

LEMMA InitIInv == Init => IInv
<1> SUFFICES ASSUME Init PROVE IInv
    OBVIOUS
<1>1. TypeOK
    BY InitType
<1>2. /\ bin.body = <<>> /\ src = 1 /\ manifest.src = 0 /\ ~Bound
      /\ \A p \in Procs : proc[p].pc = "none" /\ proc[p].ver = 0
    BY DEF Init, NoBin, NoManifest, NoReport, NoProc, Bound
<1>3. InOrder
    BY <1>2 DEF InOrder
<1>4. ManifestIsOld /\ NamesFresh /\ Verified /\ OneAtATime
    BY <1>2 DEF ManifestIsOld, NamesFresh, Verified, OneAtATime, Live
<1> QED
    BY <1>1, <1>3, <1>4 DEF IInv

\* the time stamp the engine compares leaves one version for every layer
LEMMA WholeFile == IInv => ServesWholeFile
<1> SUFFICES ASSUME IInv, EngineAccepts PROVE bin.body = [i \in 1..Layers |-> src]
    BY DEF ServesWholeFile
<1>0. src \in Nat /\ Layers \in Nat \ {0} /\ bin.body \in Seq(0..MaxVersions)
    BY BoundsAssumption DEF IInv, TypeOK, Version, BinType
<1>1. Len(bin.body) = Layers /\ manifest.src = src /\ NoOlder
    BY DEF EngineAccepts, GatePasses, IInv, Verified
<1>2. \A i \in 1..Layers : bin.body[i] = src
    BY <1>0, <1>1 DEF NoOlder, IInv, InOrder
<1> QED
    BY <1>0, <1>1, <1>2

\* What the engine accepts holds every layer of the model file in place, for
\* every number of layers, of versions, of crashes, cancels and deletions that
\* fail: provided that nobody starts a repacker while a run of the launcher is
\* under way.
THEOREM WholeFileServed ==
    ASSUME ~Together
    PROVE  Spec => []ServesWholeFile
<1>1. TypeOK /\ AtLayer /\ IInv /\ [Next]_vars => IInv'
  <2> SUFFICES ASSUME TypeOK, AtLayer, IInv, [Next]_vars PROVE IInv'
    OBVIOUS
  <2>1. TypeOK'
    <3>1. CASE Next
        BY <3>1, RepackerType, LauncherType DEF Next
    <3>2. CASE UNCHANGED vars
        BY <3>2 DEF vars, TypeOK
    <3> QED
        BY <3>1, <3>2
  <2>2. OneAtATime' /\ InOrder' /\ ManifestIsOld' /\ NamesFresh' /\ Verified'
    BY StaysOneAtATime, StaysInOrder, StaysOld, StaysFresh, StaysVerified DEF IInv
  <2> QED
    BY <2>1, <2>2 DEF IInv
<1> QED
    BY InitIInv, WholeFile, TypeCorrect, <1>1, PTL DEF Spec

-----------------------------------------------------------------------------
(* What the gate of the launcher passes.  As long as nobody runs the repacker *)
(* by hand, experts.bin is written by the launcher's child alone, and the     *)
(* child begins only where there is no manifest: the file does not change     *)
(* while a report vouches for it, so it is what the verification saw.  This   *)
(* half needs nothing of the order in which a run deletes the files.          *)

Whole == \E v \in Version : bin.body = [i \in 1..Layers |-> v]

\* the child never replaces a manifest
NeverReplaces ==
    /\ ~proc["child"].force
    /\ proc["child"].pc \in {"mark", "open", "write", "seal"} => ~manifest.exists

\* who vouches for experts.bin has seen it as it is
Attested ==
    /\ Bound /\ bin.exists => Whole
    /\ proc["child"].pc = "append" /\ proc["child"].pass => Whole

\* the deletions after a cancel have all that exists before them
AllListed ==
    setup.pc = "cleanup" /\ ~setup.failed =>
        \A f \in Files : Exists(f) => \E i \in DOMAIN setup.todo : setup.todo[i] = f

NoHand == ~Live("hand") /\ OneAtATime /\ NamesFresh /\ NeverReplaces /\ Attested /\ AllListed
FolderInv == count.hand = 0 => NoHand

\* a repacker that was started by hand stays counted
LEMMA HandCounted ==
    ASSUME TypeOK, [Next]_vars, count'.hand = 0
    PROVE  count.hand = 0 /\ ~ByHand
<1>0. count.hand \in Nat
    BY BoundsAssumption DEF TypeOK, CountType
<1>1. ~ByHand
    BY <1>0 DEF ByHand, TypeOK, CountType
<1>2. CASE UNCHANGED count
    BY <1>1, <1>2
<1>3. CASE \E n : count' = [count EXCEPT !.deaths = n] \/ count' = [count EXCEPT !.stuck = n]
    BY <1>1, <1>3 DEF TypeOK, CountType
<1>4. CASE \E p \in Procs : Repacker(p) \/ Dies(p)
    BY <1>2, <1>3, <1>4 DEF Repacker, Check, Mark, Open, WriteLayer, Seal, Dump, Verify, Compare, Record,
       Unmark, Dies
<1>5. CASE \/ (\E force \in BOOLEAN : Plan(force)) \/ Launcher \/ Decline \/ RemovePartialSetup
           \/ Cancel \/ Crash \/ Replaced
    BY <1>2, <1>3, <1>5 DEF Plan, Launcher, Consent, RemoveOne, CannotRemove, RemoveDone, Spawn, Collect,
       Decline, RemovePartialSetup, Cancel, Crash, Replaced
<1> QED
    BY <1>1, <1>2, <1>4, <1>5 DEF Next, vars

\* without a hand the launcher's child is the only repacker
LEMMA ChildAlone ==
    ASSUME TypeOK, OneAtATime, ~Live("hand"), ~ByHand, [Next]_vars
    PROVE  ~Live("hand")' /\ OneAtATime'
<1>1. ASSUME NEW p \in Procs, Repacker(p) \/ Dies(p) PROVE ~Live("hand")' /\ OneAtATime'
    BY <1>1, RepackerAlone DEF OneAtATime, Live, Others
<1>2. CASE (\E force \in BOOLEAN : Plan(force)) \/ Consent \/ Decline \/ RemovePartialSetup
    BY <1>2, LauncherStep DEF Plan, Consent, Decline, RemovePartialSetup, OneAtATime, Live, TypeOK, SetupType
<1>3. CASE RemoveOne \/ CannotRemove \/ RemoveDone
    BY <1>3, LauncherStep DEF RemoveOne, CannotRemove, RemoveDone, Removing, OneAtATime, Live, TypeOK, SetupType
<1>4. CASE Spawn \/ Collect \/ Cancel \/ Crash
    BY <1>4, LauncherStep DEF Spawn, Collect, Cancel, Crash, OneAtATime, Live, Others, TypeOK, SetupType
<1>5. CASE Replaced \/ UNCHANGED vars
    BY <1>5 DEF Replaced, vars, OneAtATime, Live
<1> QED
    BY <1>1, <1>2, <1>3, <1>4, <1>5 DEF Next, Launcher

\* --force does not come by itself
LEMMA ForceOf ==
    ASSUME TypeOK, NEW p \in Procs, Repacker(p) \/ Dies(p), proc'[p].force
    PROVE  proc[p].force
<1>1. CASE \E c : Ended(p, c)
    BY <1>1 DEF Ended, NoProc, TypeOK
<1>2. CASE Check(p) /\ ~\E c : Ended(p, c)
    BY <1>2 DEF Check, Moves, TypeOK, ProcType
<1>3. CASE Mark(p) \/ Open(p) \/ WriteLayer(p) \/ Seal(p) \/ Dump(p)
    BY <1>3 DEF Mark, Open, WriteLayer, Seal, Dump, Moves, TypeOK, ProcType
<1>4. CASE Verify(p) \/ Compare(p) \/ Record(p)
    BY <1>4 DEF Verify, Compare, Record, Moves, TypeOK, ProcType
<1> QED
    BY <1>1, <1>2, <1>3, <1>4 DEF Repacker, Unmark, Dies

\* A step of the child: it writes experts.bin where no manifest is, and its
\* verdict is on the file it leaves alone.
LEMMA ChildVouches ==
    ASSUME TypeOK, NoHand, NEW p \in Procs, Repacker(p) \/ Dies(p)
    PROVE  NeverReplaces' /\ Attested'
<1> USE DEF NoHand
<1>0. p = "child"
    BY RepackerAlone
<1>1. proc'["child"].force = FALSE
    BY <1>0, ForceOf DEF NeverReplaces, TypeOK, ProcType
<1>2. CASE Check(p)
  <2>1. UNCHANGED <<bin, manifest, report>>
    BY <1>2 DEF Check
  <2>2. proc'["child"].pc = "mark" => ~manifest.exists
    BY <1>0, <1>2, StepOfEnd DEF Check, NeverReplaces, Moves, TypeOK, ProcType
  <2>3. proc'["child"].pc \in {"none", "verify", "mark"}
    BY <1>0, <1>2, StepOfCheck
  <2> QED
    BY <1>1, <2>1, <2>2, <2>3 DEF NeverReplaces, Attested, Bound, Whole
<1>3. CASE Mark(p) \/ Open(p) \/ WriteLayer(p)
  <2>1. ~manifest'.exists
    BY <1>0, <1>3 DEF Mark, Open, WriteLayer, NeverReplaces
  <2>2. proc'["child"].pc \in {"open", "write", "seal"}
    BY <1>0, <1>3, StepOf, StepOfWrite
  <2> QED
    BY <1>1, <2>1, <2>2 DEF NeverReplaces, Attested, Bound
<1>4. CASE Seal(p) \/ Dump(p)
  <2>1. ~Bound'
    BY <1>4 DEF Seal, Dump, Bound, NamesFresh
  <2>2. proc'["child"].pc \in {"dump", "verify"}
    BY <1>0, <1>4, StepOf
  <2> QED
    BY <1>1, <2>1, <2>2 DEF NeverReplaces, Attested
<1>5. CASE Verify(p) \/ Compare(p)
  <2>1. UNCHANGED <<bin, manifest, report>>
    BY <1>5 DEF Verify, Compare
  <2>2. proc'["child"].pc \in {"compare", "append"}
    BY <1>0, <1>5, StepOfVerify
  <2>3. proc'["child"].pass => bin.body = [i \in 1..Layers |-> src]
    BY <1>0, <1>5, StepOfVerify
  <2>4. src \in Version
    BY DEF TypeOK
  <2>5. proc'["child"].pass => Whole
    BY <2>3, <2>4 DEF Whole
  <2> QED
    BY <1>1, <2>1, <2>2, <2>5 DEF NeverReplaces, Attested, Bound, Whole
<1>6. CASE Record(p)
  <2>1. /\ UNCHANGED <<bin, manifest>> /\ report'.pass = proc["child"].pass
        /\ proc["child"].pc = "append" /\ proc'["child"].pc = "unmark"
    BY <1>0, <1>6, StepOf DEF Record
  <2> QED
    BY <1>1, <2>1 DEF NeverReplaces, Attested, Bound, Whole
<1>7. CASE Unmark(p) \/ Dies(p)
  <2>1. UNCHANGED <<bin, manifest, report>> /\ proc'["child"].pc = "none"
    BY <1>0, <1>7, StepOfEnd DEF Unmark, Dies
  <2> QED
    BY <1>1, <2>1 DEF NeverReplaces, Attested, Bound, Whole
<1> QED
  BY <1>2, <1>3, <1>4, <1>5, <1>6, <1>7 DEF Repacker

\* The launcher's steps and the user's: a deletion takes away what is vouched
\* for, or the one who vouches.
LEMMA LauncherVouches ==
    ASSUME TypeOK, NoHand, ~ByHand, [Next]_vars, ~\E p \in Procs : Repacker(p) \/ Dies(p)
    PROVE  NeverReplaces' /\ Attested'
<1> USE DEF NoHand
<1>1. ~proc'["child"].force
  <2>1. CASE Spawn \/ Collect \/ Cancel \/ Crash
    <3>1. CASE Spawn
      BY <3>1 DEF Spawn, Started, NoProc, TypeOK
    <3>2. CASE proc' = [proc EXCEPT !["child"] = NoProc]
      BY <3>2 DEF NoProc, TypeOK
    <3> QED
      BY <2>1, <3>1, <3>2 DEF Collect, Cancel, Crash
  <2>2. CASE UNCHANGED proc
    BY <2>2 DEF NeverReplaces
  <2> QED
    BY <2>1, <2>2, LauncherStep DEF Next, Launcher, vars
<1>2. CASE RemoveOne
  <2>1. proc' = proc /\ proc["child"].pc = "none"
    BY <1>2, NobodyLives DEF Live
  <2>2. UNCHANGED <<bin, manifest, report>> \/ ~bin'.exists \/ ~Bound'
    BY <1>2, NobodyLives DEF NoBin, NoManifest, NoReport, Bound
  <2> QED
    BY <1>1, <2>1, <2>2 DEF NeverReplaces, Attested, Bound, Whole
<1>3. CASE Replaced \/ UNCHANGED vars
  BY <1>3 DEF Replaced, vars, NeverReplaces, Attested, Bound, Whole
<1>4. CASE \/ (\E force \in BOOLEAN : Plan(force)) \/ Consent \/ Decline \/ RemovePartialSetup
           \/ CannotRemove \/ RemoveDone \/ Spawn \/ Collect \/ Cancel \/ Crash
  <2>1. /\ UNCHANGED <<bin, manifest, report>>
        /\ proc'["child"] = proc["child"] \/ proc'["child"].pc \in {"none", "check"}
    BY <1>4, FilesKept
  <2> QED
    BY <1>1, <2>1 DEF NeverReplaces, Attested, Bound, Whole
<1> QED
  BY <1>2, <1>3, <1>4 DEF Next, Launcher

\* a plan is only a plan
LEMMA PlanOnly ==
    ASSUME \E force \in BOOLEAN : Plan(force)
    PROVE  setup'.pc = "planned" /\ setup'.verdict = "none"
<1>1. PICK todo, forced : setup' = [pc |-> "planned", failed |-> FALSE, verdict |-> "none",
                                   forced |-> forced, todo |-> todo]
    BY DEF Plan
<1> QED
    BY <1>1

\* what a deletion takes away is no longer listed, and nothing else is
LEMMA ListedStays ==
    ASSUME TypeOK, OneAtATime, ~Live("hand"), AllListed, ~ByHand, [Next]_vars
    PROVE  AllListed'
<1>0. setup \in SetupType /\ setup.todo \in Seq(Files)
  BY DEF TypeOK, SetupType
<1>1. ASSUME NEW p \in Procs, Repacker(p) \/ Dies(p) PROVE AllListed'
  BY <1>1, RepackerAlone DEF OneAtATime, AllListed, Live
<1>2. CASE RemoveOne
  <2> SUFFICES ASSUME setup'.pc = "cleanup", ~setup'.failed, NEW f \in Files, Exists(f)'
               PROVE  \E i \in DOMAIN setup'.todo : setup'.todo[i] = f
    BY DEF AllListed
  <2>1. setup.pc = "cleanup" /\ ~setup.failed /\ setup'.todo = Tail(setup.todo) /\ setup.todo # <<>>
    BY <1>0, <1>2 DEF RemoveOne, SetupType
  <2>2. Exists(f) /\ f # Head(setup.todo)
    BY <1>2 DEF RemoveOne, Exists, Files, NoBin, NoManifest, NoReport
  <2>3. PICK i \in DOMAIN setup.todo : setup.todo[i] = f
    BY <2>1, <2>2 DEF AllListed
  <2>4. i - 1 \in DOMAIN Tail(setup.todo) /\ Tail(setup.todo)[i - 1] = f
    BY <1>0, <2>1, <2>2, <2>3
  <2> QED
    BY <2>1, <2>4
<1>3. CASE Cancel
  <2>1. setup'.todo = PackedArtifactSet
    BY <1>0, <1>3 DEF Cancel, SetupType
  <2>2. \A f \in Files : \E i \in DOMAIN PackedArtifactSet : PackedArtifactSet[i] = f
    <3>1. DOMAIN PackedArtifactSet = 1..4
      BY DEF PackedArtifactSet
    <3> QED
      BY <3>1 DEF PackedArtifactSet, Files
  <2> QED
    BY <2>1, <2>2 DEF AllListed
<1>4. CASE CannotRemove
  BY <1>0, <1>4 DEF CannotRemove, AllListed, SetupType
<1>5. CASE \/ (\E force \in BOOLEAN : Plan(force)) \/ Consent \/ Decline \/ RemovePartialSetup \/ RemoveDone
           \/ Spawn \/ Collect \/ Crash
  <2>1. setup'.pc # "cleanup"
    <3>1. CASE \E force \in BOOLEAN : Plan(force)
      BY <3>1, PlanOnly
    <3>2. CASE RemovePartialSetup \/ RemoveDone
      BY <1>0, <3>2 DEF RemovePartialSetup, RemoveDone, Removing, SetupType
    <3>3. CASE Consent \/ Decline \/ Spawn \/ Collect \/ Crash
      BY <1>0, <3>3 DEF Consent, Decline, Spawn, Collect, Crash, SetupType
    <3> QED
      BY <1>5, <3>1, <3>2, <3>3
  <2> QED
    BY <2>1 DEF AllListed
<1>6. CASE Replaced \/ UNCHANGED vars
  BY <1>6 DEF Replaced, vars, AllListed, Exists
<1> QED
  BY <1>1, <1>2, <1>3, <1>4, <1>5, <1>6 DEF Next, Launcher

\* the inductive invariant of a folder that nobody touches by hand
LEMMA FolderKept == TypeOK /\ FolderInv /\ [Next]_vars => FolderInv'
<1> SUFFICES ASSUME TypeOK, FolderInv, [Next]_vars, count'.hand = 0 PROVE NoHand'
  BY DEF FolderInv
<1>1. NoHand /\ ~ByHand
  BY HandCounted DEF FolderInv
<1>2. ~Live("hand")' /\ OneAtATime' /\ NamesFresh' /\ AllListed'
  BY <1>1, ChildAlone, StaysFresh, ListedStays DEF NoHand
<1>3. NeverReplaces' /\ Attested'
  BY <1>1, ChildVouches, LauncherVouches
<1> QED
  BY <1>2, <1>3 DEF NoHand

LEMMA FolderInit == Init => FolderInv
<1> SUFFICES ASSUME Init PROVE NoHand
  BY DEF FolderInv
<1>1. \A p \in Procs : proc[p].pc = "none" /\ ~proc[p].force
  BY DEF Init, NoProc
<1>2. ~Bound /\ setup.pc = "idle"
  BY DEF Init, NoManifest, NoReport, Bound
<1> QED
  BY <1>1, <1>2 DEF NoHand, Live, OneAtATime, NamesFresh, NeverReplaces, Attested, AllListed

\* The launcher's gate, which looks at neither the size nor the bytes of
\* experts.bin, passes only what was verified as it is, as long as nobody runs
\* the repacker by hand: for every number of layers, of versions, of crashes,
\* cancels and deletions that fail.
THEOREM GateIsHonest == Spec => []GateHonest
<1>1. FolderInv => GateHonest
  BY DEF FolderInv, NoHand, Attested, Whole, GateHonest, GatePasses, NeedsRepack
<1> QED
  BY FolderInit, FolderKept, TypeCorrect, <1>1, PTL DEF Spec

\* A run that reports a cancel has left no file of the set.
THEOREM CancelLeavesNothing == Spec => CancelledIsGone
<1>1. TypeOK /\ FolderInv /\ [Next]_vars =>
        [setup'.verdict = "cancelled" /\ setup.verdict # "cancelled" /\ count.hand = 0
            => Present = <<>>]_vars
  <2> SUFFICES ASSUME TypeOK, FolderInv, Next, count.hand = 0,
                      setup'.verdict = "cancelled", setup.verdict # "cancelled"
               PROVE  Present = <<>>
    BY DEF vars
  <2>1. RemoveDone
    <3>1. setup \in SetupType
      BY DEF TypeOK
    <3>2. setup' # setup
      OBVIOUS
    <3>3. ~\E p \in Procs : Repacker(p) \/ Dies(p)
      BY <3>2 DEF Repacker, Check, Mark, Open, WriteLayer, Seal, Dump, Verify, Compare, Record, Unmark, Dies
    <3>4. ~ByHand /\ ~Replaced
      BY <3>2 DEF ByHand, Replaced
    <3>5. ~\E force \in BOOLEAN : Plan(force)
      BY PlanOnly
    <3>6. ~(Consent \/ Decline \/ RemovePartialSetup \/ Spawn \/ Crash \/ Cancel)
      BY <3>1 DEF Consent, Decline, RemovePartialSetup, Spawn, Crash, Cancel, SetupType
    <3>7. ~(RemoveOne \/ CannotRemove)
      BY <3>1 DEF RemoveOne, CannotRemove, SetupType
    <3>8. ~Collect
      BY <3>1 DEF Collect, SetupType
    <3> QED
      BY <3>3, <3>4, <3>5, <3>6, <3>7, <3>8 DEF Next, Launcher
  <2>2. setup.pc = "cleanup" /\ ~setup.failed /\ setup.todo = <<>>
    BY <2>1 DEF RemoveDone, Removing, TypeOK, SetupType
  <2>3. \A f \in Files : ~Exists(f)
    BY <2>2 DEF FolderInv, NoHand, AllListed
  <2>4. \A f \in Files : Listed(f) = <<>>
    BY <2>3 DEF Listed
  <2> QED
    BY <2>4 DEF Present, Files
<1> QED
  BY FolderInit, FolderKept, TypeCorrect, <1>1, PTL DEF Spec, CancelledIsGone

=============================================================================
