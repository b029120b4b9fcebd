------------------------------- MODULE Repack -------------------------------
(***************************************************************************)
(* The packed setup of one model: the repacker (repack_experts.py) writes  *)
(* experts.bin, manifest.json and verify_report.json into the output       *)
(* folder behind the marker experts.bin.partial; the launcher plans a      *)
(* setup from what it finds there, deletes what an interrupted run left,   *)
(* runs the repacker as a child and reads the result through its gate; the *)
(* engine checks the same files again before it serves from them.          *)
(*                                                                         *)
(* Every file is written in place, so a process that ends between two      *)
(* steps leaves what it had written.  The launcher's child dies with it; a *)
(* repacker started by hand lives on.  A file is the state a reader can    *)
(* tell apart: experts.bin the version of the model file each layer was    *)
(* copied from (0 for a hole), manifest.json the run that wrote it (its    *)
(* bytes carry a time stamp, so no two runs write the same; 0 when cut     *)
(* off) and the version of the model file it names, verify_report.json its *)
(* last record.                                                            *)
(***************************************************************************)
EXTENDS Integers, Sequences

CONSTANTS
    Layers,      \* expert layers of the model
    MaxVersions, \* versions of the model file: it is replaced MaxVersions - 1 times
    MaxDeaths,   \* crashes of the launcher, deaths of a repacker and cancels
    MaxStuck,    \* deletions that fail because another program holds the file
    MaxHand,     \* repackers started by hand
    Together     \* such a repacker and a run of the launcher may overlap

ASSUME BoundsAssumption ==
    /\ {Layers, MaxVersions} \subseteq Nat \ {0}
    /\ {MaxDeaths, MaxStuck, MaxHand} \subseteq Nat
    /\ Together \in BOOLEAN

VARIABLES
    src,      \* the version of the model file in place
    marker,   \* experts.bin.partial exists
    bin,      \* experts.bin
    manifest, \* manifest.json
    report,   \* verify_report.json: its last record
    setup,    \* the launcher's run of a plan
    proc,     \* the repackers: the launcher's child and the one started by hand
    count     \* what the bounds limit

folder == <<marker, bin, manifest, report>>
vars == <<src, marker, bin, manifest, report, setup, proc, count>>

Procs == {"child", "hand"}
Files == {"marker", "bin", "manifest", "report"}
PackedArtifactSet == <<"marker", "bin", "manifest", "report">>

Version == 1..MaxVersions
\* enough names for the runs that two files and two repackers can refer to
Run == 1..7
BinType == [exists : BOOLEAN, body : Seq(0..MaxVersions)]
ManifestType == [exists : BOOLEAN, run : Run \cup {0}, src : 0..MaxVersions]
ReportType == [exists : BOOLEAN, pass : BOOLEAN, run : Run \cup {0}]
SetupType ==
    [pc : {"idle", "planned", "clear", "probe", "run", "cleanup", "half"},
     todo : Seq(Files), failed : BOOLEAN, forced : BOOLEAN,
     verdict : {"none", "usable", "failed", "refused", "cancelled", "removed", "stuck"}]
ProcType ==
    [pc : {"none", "check", "mark", "open", "write", "seal", "dump", "verify",
           "compare", "append", "unmark"},
     only : BOOLEAN, force : BOOLEAN, id : Run \cup {0}, at : 0..Layers,
     ver : 0..MaxVersions, seen : Run \cup {0}, pass : BOOLEAN, code : {"none", "ok", "failed", "exists"}]
CountType == [deaths : 0..MaxDeaths, stuck : 0..MaxStuck, hand : 0..MaxHand]

NoBin == [exists |-> FALSE, body |-> <<>>]
NoManifest == [exists |-> FALSE, run |-> 0, src |-> 0]
NoReport == [exists |-> FALSE, pass |-> FALSE, run |-> 0]
NoProc == [pc |-> "none", only |-> FALSE, force |-> FALSE, id |-> 0, at |-> 0, ver |-> 0,
           seen |-> 0, pass |-> FALSE, code |-> "none"]

Init ==
    /\ src = 1
    /\ marker = FALSE /\ bin = NoBin /\ manifest = NoManifest /\ report = NoReport
    /\ setup = [pc |-> "idle", todo |-> <<>>, failed |-> FALSE, forced |-> FALSE, verdict |-> "none"]
    /\ proc = [p \in Procs |-> NoProc]
    /\ count = [deaths |-> 0, stuck |-> 0, hand |-> 0]

-----------------------------------------------------------------------------
(* What a reader finds in the folder. *)

Exists(f) ==
    CASE f = "marker" -> marker
      [] f = "bin" -> bin.exists
      [] f = "manifest" -> manifest.exists
      [] f = "report" -> report.exists

\* the launcher's disposition: a setup is needed, or the gate decides
NeedsRepack == marker \/ ~bin.exists \/ ~manifest.exists \/ ~report.exists

\* the last record passed, for the very bytes of the manifest in place
Bound == report.exists /\ report.pass /\ manifest.exists /\ manifest.run # 0 /\ report.run = manifest.run

GatePasses == ~NeedsRepack /\ Bound

\* what the engine asks for before it serves: the size of experts.bin and the
\* time stamp of the model file as well, and never the bytes of experts.bin
EngineAccepts == GatePasses /\ Len(bin.body) = Layers /\ manifest.src = src

\* what the files of the set hold, in the order they are deleted in
Listed(f) == IF Exists(f) THEN <<f>> ELSE <<>>
Present == Listed("marker") \o Listed("bin") \o Listed("manifest") \o Listed("report")

-----------------------------------------------------------------------------
(* The repacker. *)

Fresh ==
    CHOOSE r \in Run :
        r \notin {manifest.run, report.run} \cup {proc[p].id : p \in Procs} \cup {proc[p].seen : p \in Procs}

\* a repacker is started: by the launcher, never with --force, or by hand
Started(p, only, force) ==
    proc' = [proc EXCEPT ![p] = [NoProc EXCEPT !.pc = "check", !.only = only, !.force = force]]

Moves(p, pc) == proc' = [proc EXCEPT ![p].pc = pc]
Ended(p, code) == proc' = [proc EXCEPT ![p] = [NoProc EXCEPT !.code = code]]

\* a file written at layer i: what an other writer cut off before is a hole
Written(body, i, v) ==
    [j \in 1..(IF Len(body) < i THEN i ELSE Len(body)) |->
        IF j = i THEN v ELSE IF j <= Len(body) THEN body[j] ELSE 0]

Check(p) ==
    /\ proc[p].pc = "check"
    /\ \/ /\ proc[p].only
          /\ IF bin.exists /\ manifest.exists THEN Moves(p, "verify") ELSE Ended(p, "failed")
       \/ /\ ~proc[p].only /\ ~proc[p].force /\ (bin.exists \/ manifest.exists)
          /\ Ended(p, "exists")
       \/ /\ ~proc[p].only /\ (proc[p].force \/ (~bin.exists /\ ~manifest.exists))
          /\ proc' = [proc EXCEPT ![p].pc = "mark", ![p].id = Fresh]
    /\ UNCHANGED <<src, marker, bin, manifest, report, setup, count>>

Mark(p) ==
    /\ proc[p].pc = "mark"
    /\ marker' = TRUE
    /\ Moves(p, "open")
    /\ UNCHANGED <<src, bin, manifest, report, setup, count>>

Open(p) ==
    /\ proc[p].pc = "open"
    /\ bin' = [exists |-> TRUE, body |-> <<>>]
    /\ proc' = [proc EXCEPT ![p].pc = "write", ![p].at = 1]
    /\ UNCHANGED <<src, marker, manifest, report, setup, count>>

\* mutant: the last layer does not end the loop
WriteLayerPastEnd(p) ==
    /\ proc[p].pc = "write"
    /\ bin' = [bin EXCEPT !.body = Written(@, proc[p].at, src)]
    /\ proc' = [proc EXCEPT ![p].at = @ + 1]
    /\ UNCHANGED <<src, marker, manifest, report, setup, count>>

WriteLayer(p) ==
    /\ proc[p].pc = "write"
    /\ bin' = [bin EXCEPT !.body = Written(@, proc[p].at, src)]
    /\ proc' = [proc EXCEPT ![p].pc = IF proc[p].at = Layers THEN "seal" ELSE "write",
                            ![p].at = IF @ = Layers THEN 0 ELSE @ + 1]
    /\ UNCHANGED <<src, marker, manifest, report, setup, count>>

\* the manifest is built, then its file is opened and emptied ...
Seal(p) ==
    /\ proc[p].pc = "seal"
    /\ manifest' = [exists |-> TRUE, run |-> 0, src |-> 0]
    /\ proc' = [proc EXCEPT ![p].pc = "dump", ![p].ver = src]
    /\ UNCHANGED <<src, marker, bin, report, setup, count>>

\* ... and written
Dump(p) ==
    /\ proc[p].pc = "dump"
    /\ manifest' = [exists |-> TRUE, run |-> proc[p].id, src |-> proc[p].ver]
    /\ proc' = [proc EXCEPT ![p].pc = "verify", ![p].ver = 0]
    /\ UNCHANGED <<src, marker, bin, report, setup, count>>

\* the verification hashes and reads the manifest in the folder first ...
Verify(p) ==
    /\ proc[p].pc = "verify"
    /\ proc' = [proc EXCEPT ![p].pc = IF manifest.exists /\ manifest.run # 0 THEN "compare" ELSE "append",
                            ![p].seen = manifest.run, ![p].pass = FALSE]
    /\ UNCHANGED <<src, marker, bin, manifest, report, setup, count>>

\* mutant: a verification that looks at the size only
CompareSizes(p) ==
    /\ proc[p].pc = "compare"
    /\ proc' = [proc EXCEPT ![p].pc = "append",
                            ![p].pass = bin.exists /\ Len(bin.body) = Layers]
    /\ UNCHANGED <<src, marker, bin, manifest, report, setup, count>>

\* ... then compares every record of experts.bin with the model file
Compare(p) ==
    /\ proc[p].pc = "compare"
    /\ proc' = [proc EXCEPT ![p].pc = "append",
                            ![p].pass = bin.exists /\ bin.body = [i \in 1..Layers |-> src]]
    /\ UNCHANGED <<src, marker, bin, manifest, report, setup, count>>

\* mutant: the record names the manifest that is there by now
RecordRehashed(p) ==
    /\ proc[p].pc = "append"
    /\ report' = [exists |-> TRUE, pass |-> proc[p].pass, run |-> manifest.run]
    /\ Moves(p, "unmark")
    /\ UNCHANGED <<src, marker, bin, manifest, setup, count>>

Record(p) ==
    /\ proc[p].pc = "append"
    /\ report' = [exists |-> TRUE, pass |-> proc[p].pass, run |-> proc[p].seen]
    /\ Moves(p, "unmark")
    /\ UNCHANGED <<src, marker, bin, manifest, setup, count>>

Unmark(p) ==
    /\ proc[p].pc = "unmark"
    /\ marker' = (marker /\ (proc[p].only \/ ~proc[p].pass))
    /\ Ended(p, IF proc[p].pass THEN "ok" ELSE "failed")
    /\ UNCHANGED <<src, bin, manifest, report, setup, count>>

\* a read, a write or the process fails: what was written stays
Dies(p) ==
    /\ proc[p].pc # "none" /\ count.deaths < MaxDeaths
    /\ Ended(p, "failed")
    /\ count' = [count EXCEPT !.deaths = @ + 1]
    /\ UNCHANGED <<src, marker, bin, manifest, report, setup>>

ByHand ==
    /\ proc["hand"].pc = "none" /\ count.hand < MaxHand
    /\ Together \/ setup.pc \in {"idle", "planned"}
    /\ \E only, force \in BOOLEAN : (only => ~force) /\ Started("hand", only, force)
    /\ count' = [count EXCEPT !.hand = @ + 1]
    /\ UNCHANGED <<src, marker, bin, manifest, report, setup>>

Repacker(p) ==
    \/ Check(p) \/ Mark(p) \/ Open(p) \/ WriteLayer(p) \/ Seal(p) \/ Dump(p)
    \/ Verify(p) \/ Compare(p) \/ Record(p) \/ Unmark(p)

-----------------------------------------------------------------------------
(* The launcher. *)

\* nothing but the user keeps a repacker started by hand and a run apart
Alone == Together \/ proc["hand"].pc = "none"

\* mutant: only a setup that was asked for again clears the folder
PlanKeepsPartial(force) ==
    /\ setup.pc = "idle" /\ (NeedsRepack \/ force)
    /\ setup' = [pc |-> "planned", failed |-> FALSE, verdict |-> "none",
                 forced |-> ~NeedsRepack,
                 todo |-> IF ~NeedsRepack THEN Present ELSE <<>>]
    /\ UNCHANGED <<src, marker, bin, manifest, report, proc, count>>

\* a plan says what its run deletes: what an interrupted or a replaced setup
\* left, and nothing when files are only missing
Plan(force) ==
    /\ setup.pc = "idle" /\ (NeedsRepack \/ force)
    /\ setup' = [pc |-> "planned", failed |-> FALSE, verdict |-> "none",
                 forced |-> ~NeedsRepack,
                 todo |-> IF marker \/ ~NeedsRepack THEN Present ELSE <<>>]
    /\ UNCHANGED <<src, marker, bin, manifest, report, proc, count>>

\* the user agrees, or turns the plan down
Consent ==
    /\ setup.pc = "planned" /\ Alone
    /\ setup' = [setup EXCEPT !.pc = "clear"]
    /\ UNCHANGED <<src, marker, bin, manifest, report, proc, count>>

Decline ==
    /\ setup.pc = "planned"
    /\ setup' = [setup EXCEPT !.pc = "idle", !.todo = <<>>]
    /\ UNCHANGED <<src, marker, bin, manifest, report, proc, count>>

\* «delete half-made only»
RemovePartialSetup ==
    /\ setup.pc = "idle" /\ marker /\ Alone
    /\ setup' = [setup EXCEPT !.pc = "half", !.todo = PackedArtifactSet, !.failed = FALSE, !.verdict = "none"]
    /\ UNCHANGED <<src, marker, bin, manifest, report, proc, count>>

\* a file a repacker has open cannot be deleted
Held(f) ==
    \/ f = "bin" /\ \E p \in Procs : proc[p].pc \in {"write", "compare"}
    \/ f = "manifest" /\ \E p \in Procs : proc[p].pc = "dump"

Removing == setup.pc \in {"clear", "cleanup", "half"}

\* one deletion of removeArtifacts: a failure is noted and the rest goes on
RemoveOne ==
    /\ Removing /\ setup.todo # <<>> /\ ~Held(Head(setup.todo))
    /\ LET f == Head(setup.todo) IN
        /\ marker' = (marker /\ f # "marker")
        /\ bin' = IF f = "bin" THEN NoBin ELSE bin
        /\ manifest' = IF f = "manifest" THEN NoManifest ELSE manifest
        /\ report' = IF f = "report" THEN NoReport ELSE report
    /\ setup' = [setup EXCEPT !.todo = Tail(@)]
    /\ UNCHANGED <<src, proc, count>>

CannotRemove ==
    /\ Removing /\ setup.todo # <<>>
    /\ LET f == Head(setup.todo) IN
        /\ Exists(f)
        /\ \/ Held(f) /\ UNCHANGED count
           \/ ~Held(f) /\ count.stuck < MaxStuck /\ count' = [count EXCEPT !.stuck = @ + 1]
    /\ setup' = [setup EXCEPT !.todo = Tail(@), !.failed = TRUE]
    /\ UNCHANGED <<src, marker, bin, manifest, report, proc>>

RemoveDone ==
    /\ Removing /\ setup.todo = <<>>
    /\ setup' =
        IF setup.failed THEN [setup EXCEPT !.pc = "idle", !.verdict = "stuck"]
        ELSE CASE setup.pc = "clear" -> [setup EXCEPT !.pc = "probe"]
               [] setup.pc = "cleanup" -> [setup EXCEPT !.pc = "idle", !.verdict = "cancelled"]
               [] setup.pc = "half" -> [setup EXCEPT !.pc = "idle", !.verdict = "removed"]
    /\ UNCHANGED <<src, marker, bin, manifest, report, proc, count>>

Spawn ==
    /\ setup.pc = "probe"
    /\ setup' = [setup EXCEPT !.pc = "run"]
    /\ Started("child", FALSE, FALSE)
    /\ UNCHANGED <<src, marker, bin, manifest, report, count>>

\* mutant: the files go first, the child is left to end by itself
CancelNoKill ==
    /\ setup.pc \in {"probe", "run"} /\ count.deaths < MaxDeaths
    /\ setup' = [setup EXCEPT !.pc = "cleanup", !.todo = PackedArtifactSet]
    /\ count' = [count EXCEPT !.deaths = @ + 1]
    /\ UNCHANGED <<src, marker, bin, manifest, report, proc>>

\* the user cancels: the child is killed first, even one that had just
\* finished, and everything in the folder is deleted
Cancel ==
    /\ setup.pc \in {"probe", "run"} /\ count.deaths < MaxDeaths
    /\ setup' = [setup EXCEPT !.pc = "cleanup", !.todo = PackedArtifactSet]
    /\ proc' = [proc EXCEPT !["child"] = NoProc]
    /\ count' = [count EXCEPT !.deaths = @ + 1]
    /\ UNCHANGED <<src, marker, bin, manifest, report>>

\* the child has ended: its exit code, then the gate
Collect ==
    /\ setup.pc = "run" /\ proc["child"].pc = "none"
    /\ setup' = [setup EXCEPT !.pc = "idle",
                    !.verdict = CASE proc["child"].code = "exists" -> "refused"
                                  [] proc["child"].code = "ok" /\ GatePasses -> "usable"
                                  [] OTHER -> "failed"]
    /\ proc' = [proc EXCEPT !["child"] = NoProc]
    /\ UNCHANGED <<src, marker, bin, manifest, report, count>>

\* the launcher ends, and its child with it
Crash ==
    /\ setup.pc # "idle" /\ count.deaths < MaxDeaths
    /\ setup' = [setup EXCEPT !.pc = "idle", !.todo = <<>>]
    /\ proc' = [proc EXCEPT !["child"] = NoProc]
    /\ count' = [count EXCEPT !.deaths = @ + 1]
    /\ UNCHANGED <<src, marker, bin, manifest, report>>

\* the model file is downloaded again
Replaced ==
    /\ src < MaxVersions
    /\ src' = src + 1
    /\ UNCHANGED <<marker, bin, manifest, report, setup, proc, count>>

Launcher == Consent \/ RemoveOne \/ CannotRemove \/ RemoveDone \/ Spawn \/ Collect

Next ==
    \/ \E p \in Procs : Repacker(p) \/ Dies(p)
    \/ ByHand
    \/ \E force \in BOOLEAN : Plan(force)
    \/ Launcher \/ Decline \/ RemovePartialSetup \/ Cancel \/ Crash
    \/ Replaced

Spec == Init /\ [][Next]_vars

-----------------------------------------------------------------------------
(* What it promises. *)

\* The values the state takes.
TypeOK ==
    /\ src \in Version /\ marker \in BOOLEAN
    /\ bin \in BinType /\ manifest \in ManifestType /\ report \in ReportType
    /\ setup \in SetupType /\ proc \in [Procs -> ProcType] /\ count \in CountType

\* The engine never reads the bytes of experts.bin before it serves from them.
\* Whatever ended half way - a repacker, the launcher, a deletion - and
\* whichever version of the model file was copied when, what it accepts
\* (marker, report, manifest, size, time stamp) holds every layer of the
\* model file in place.
ServesWholeFile == EngineAccepts => bin.body = [i \in 1..Layers |-> src]

\* The launcher's gate looks at neither the size nor the bytes of experts.bin.
\* As long as nobody runs the repacker by hand, what it lets pass was verified
\* as it is: all layers, from one version of the model file.
GateHonest ==
    GatePasses /\ count.hand = 0 => \E v \in Version : bin.body = [i \in 1..Layers |-> v]

\* A run that reports a cancel has left no file of the set: the child, which
\* could write again, is gone before the first deletion.  (A repacker started
\* by hand during the run may still write.)
CancelledIsGone ==
    [][setup'.verdict = "cancelled" /\ setup.verdict # "cancelled" /\ count.hand = 0
          => Present = <<>>]_vars

\* Files that are too few to be a setup and carry no marker: the plan deletes
\* nothing then, and the repacker refuses a folder that holds any of them, on
\* every run until the user deletes them.
Wedged == ~marker /\ NeedsRepack /\ (bin.exists \/ manifest.exists)

\* the user tries again as long as there is no usable setup
Retry == ~GatePasses /\ Plan(TRUE)

\* The goroutine of a run goes on, the child is a running process, and a user
\* who tries again does not turn every plan down.
Fairness ==
    /\ WF_vars(Launcher) /\ WF_vars(Retry) /\ SF_vars(Consent)
    /\ \A p \in Procs : WF_vars(Repacker(p))

FairSpec == Spec /\ Fairness

\* Once nothing dies any more, trying again ends in a usable setup, from every
\* state that crashes, cancels and deletions that failed can leave - but one.
RetriesSucceed == []<>(GatePasses \/ Wedged)
=============================================================================
