# MoE-Direct: a TLA+ model of the expert store and its launcher

MoE-Direct runs mixture-of-experts models that do not fit in memory: the weights
of an expert are read from NVMe into a fixed number of host slots when a layer
asks for them, and a predictor reads some of them ahead. A launcher starts the
server that does this, stops it, and keeps the state of its conversation on disk. This
directory holds TLA+ modules for the concurrent and the crash-prone parts of that
program, TLC configurations that check them on small instances, and TLAPS proofs.

Paths are relative to the repository's root; `dispatch.cpp`, `direct.cpp`,
`state.h` and `phaseb.cpp` stand for `ggml-moe-direct-dispatch.cpp`,
`ggml-moe-direct.cpp`, `ggml-moe-direct-state.h` and `ggml-moe-phaseb.cpp` in
`engine/ggml/src`; `start.go`, `stop.go`, `warmstart.go`, `repack.go`, `gates.go` are in
`launcher/internal/core`, `wire.go` in `launcher/internal/wire`. `PROJECT.json` maps
every definition to its lines.

## 1. Inventory

| Part | State it keeps | Operations | Modelled by |
|---|---|---|---|
| Slot cache (`direct.cpp`, `state.h`) | `slots` (owner, generation, lease, LRU tick, class), `record_table`, `tick` | plan a demand, claim a victim, publish, release, give back | `SlotCache` |
| Dispatcher, mode=bin (`dispatch.cpp`) | pool of pending reads, `pending_by_record`, `slot_pending`, submit queue, I/O channels, commands, intent cursor | one turn: commands, retire, pump, admit, re-check; graceful tail; abort | `Dispatcher` |
| Dispatcher, mode=virtual (`dispatch.cpp` 241-335, 804-1434) | waves of a record's parts, budgets of guesses, staging cells, copy ring | reads in waves, copies, retry, cancel, clean-up | `VirtualReads` |
| Control queue (`dispatch.cpp`) | command slots, ring, `command_event`, `q_stopping` | `cq_alloc`, `cq_submit_and_wait`, `cq_free`, `disp_peek`, the waits of `dispatcher_main` | `ControlQueue` |
| Store lifecycle (`direct.cpp`) | `g_xs_state`, `g_xs_epoch`, `g_xs_admit`, lease-unit ledger, drain anchor | acquire and release on two surfaces, `drain_begin`, `drain_finish` | `StoreDrain` |
| Token table and views (`direct.cpp`) | chunks of handles, generations, captured slots | issue, look up, view, free | epoch only, in `StoreDrain` |
| Phase B predictor (`phaseb.cpp`) | capture slots and ring, worker, intent queue, rows, pending notes, latches | capture, predict, queue, note, cut, bounded and unbounded shutdown | `PhaseB`; the dispatcher's side in `Dispatcher` |
| Launcher, stored states (`warmstart.go`, `cachesave.go`) | three generations of state and sidecar, temporary and stale files, autosave | sweep, judge, restore, autosave, save of a stop, clean-up | `WarmStart` |
| Launcher, session (`start.go`, `stop.go`, `wire.go`) | child process, locks, `ready`, `stopping`, `ended`, final event | start, recovery restart, watch, stop, cancel, teardown | `Session` |
| Repacker and setup (`repack_experts.py`, `repack.go`, `gates.go`) | marker, `experts.bin`, `manifest.json`, `verify_report.json`; the launcher's plan | repack, verify again, plan, delete, run the child, cancel, gate; the engine's acceptance | `Repack`; the virtual plan is not |
| Callers (`ggml-cpu.c`, `ops.cpp`, `ggml-backend.cpp`) | their lease | acquire, compute, release | clients and threads of the models |
| Manifest (`ggml-moe-direct-manifest.cpp`) | none after load | parse, cross-check | no |
| Observation and telemetry (`-observe`, `phasea`, `trace`, `lmtrace`, `leadtime`, `gpuearly`, `shadow`) | counters, ledgers, digests | record, write files | no |
| Memory plan (`llama-memplan.cpp`) | none | sizes the cache | no |
| Launcher configuration and UI | settings | validate, derive, draw | no |
| llama.cpp, patches, docs | | | no |

How they interact. A compute thread calls `store_acquire`; the call takes an
admission (an atomic counter), fills a command slot, appends it to the ring under
`q_mutex`, sets `command_event` and sleeps. The one dispatcher thread wakes up,
handles all commands under `g_mod.mutex`, hands reads to overlapped I/O channels,
and completes the command when the last read it depends on is in; in mode=virtual a
copy thread moves misaligned parts from staging to the slot under the same mutex. The
compute thread also hands the input of a layer to the predictor, whose
worker appends intents under its own mutex `int_mu` and sets the same event. A
release is a command, too. The drain closes the gate, waits until no admission and
no lease unit is left, closes the predictor, stops the dispatcher and invalidates
the epoch of the tokens. The launcher runs the whole in a child process and talks to it
over HTTP; its start, its watch and a stop are goroutines over one session. Before all
that it runs the repacker as a child; the two, and later the engine, talk through the files
in the output folder.

What is hard. (1) Several mutexes and a dozen atomics, and an event that the holders of two
mutexes set. (2) A read in flight can be joined by demands, fail, be
retried under a new generation, be cancelled and yet succeed. (3) Repeated ids:
leases are counted, not flagged. (4) The pool of reads, the channels, the budgets, the
staging cells, the slots and the command slots all have limits, and waiting for one of
them holds up others. (5) The drain reads counters without a lock while callers move
them. (6) Every wait of a stop has a time-out. (7) What becomes of a guess is noted by
two threads for a row that may not exist yet, of a graph or request that may be over.
(8) The launcher and its server can end between any two file operations, and an answer
can get lost; so can launcher and repacker, whose files are written in place.
(9) Three goroutines can each decide to end a session. `PROJECT.json`
lists these as hazards, each at its line.

What makes each part correct:

* Slot cache and dispatcher: what is leased is readable and stays so; leases equal
  the units granted; the four indices of reads in flight agree; a command is woken
  exactly when its last read is in; guesses never take what demands need; a stop
  leaves nothing behind; the whole implements a lease store without slots.
* Mode=virtual: the gauges are what is under way; an index returned to the pool has
  nothing under way; a record is published whole; every read ends.
* Control queue: no wake-up is lost, no slot is used twice, everyone is answered.
* Store lifecycle: nobody is inside when the store is torn down, tear-down happens
  in order, only an elapsed deadline aborts; the whole implements a gate.
* Predictor: every capture is accounted for, prefetching is switched off for the request
  that overflowed and no other, the rows say what happened, nothing happens after the cut,
  and the dispatcher does not leave an intent behind.
* Stored states: what is restored is what was saved, a crash costs at most the
  generation being written, no temporary file is forgotten, changes are saved.
* Packed setup: what the engine accepts holds the whole model file, whatever was cut off
  when; a cancel leaves nothing; trying again ends in a usable setup.
* Session: one teardown, one end, nothing left behind; a stop and a cancel end it; what
  a stop saves is known.

## 2. Modules

| Module | Holds | Properties and proofs |
|---|---|---|
| `SlotCache` | slots, record table, the pure operators over them | |
| `Dispatcher` (extends `SlotCache`) | reads, commands, guesses, shutdown | `DispatcherProperties`, with the refinement to `ExpertLease`; `DispatcherProofs` |
| `VirtualReads` | the read engine of mode=virtual | in the module; `VirtualReadsProofs` |
| `ControlQueue` | the wake-up protocol | `ControlQueueProofs` |
| `StoreDrain` | the lifecycle; implements `StoreGate` | `StoreDrainProofs` |
| `PhaseB` | the predictor | `PhaseBProofs` |
| `WarmStart` | the stored states | `WarmStartProofs` |
| `Session` | start, stop, watch, cancel | `SessionProofs` |
| `Repack` | the packed setup | `RepackProofs` |
| `MC...` | requests and uses for TLC | |

How they compose. `Dispatcher` extends `SlotCache`. The others meet at interfaces that
each of them states: `Dispatcher` lets the event be `HasWork`, which `ControlQueue`
justifies (`SleepIsJustified`); its predictor is an environment that publishes intents
until it is drained, which is what `PhaseB` guarantees (`NoIntentLeftBehind`);
`StoreDrain` takes the stop of the dispatcher as a step that ends or times out, and
`Dispatcher_stop` shows that it ends; `Session` says who may save and restore, and
`WarmStart` what a save and a restore do to the files.

### SlotCache and Dispatcher

| Code | Model |
|---|---|
| `Slot`, `RecordEntry`, `g_mod.tick` | `slot`, `table`, `tick` |
| `pf_rank`, `pf_intent_ordinal` (written together) | field `pf` |
| `victim_better_locked` and the claim loop | `Better`, `BestFirst` |
| `plan_demand_locked` | `Hits`, `Joins`, `Misses`, `Fits`, `PlanAcquire` |
| `pending_ops`, `pending_by_record`, `slot_pending`, `submit_q` | `op`, `byRec`, `pinned`, `submitQ` |
| `disp_op_terminal_locked` | `Terminal`: `Publish`, `Retry`, `Discard`, `Die` |
| `disp_pass_locked`, `dispatcher_main` | `disp.pc`: commands, retire, pump, admit, pumpIssued, recheck, cutAdmit, cancel, abort |
| `disp_pump_locked` | `SubmitPending`, `SubmitSync`, `SubmitRefused` |
| `pb_admit_locked` | `AdmitClaim`, `AdmitDrop`, `AdmitNothing`, `CutAdmit` |
| the bytes of a slot | ghost variable `memory`: a record, or garbage while a read is under way |

Granularity. A handler runs under `g_mod.mutex` from start to end and is one action;
clients, the device and the predictor step between handlers, where the code lets them.
The planned demand is applied at once although the code walks the ids: the walk is
under the mutex. `disp_peek` and the event are reduced to `HasWork`. A caller that passed
the capture latch before it closed may still enqueue until `q_stopping`.

### VirtualReads

| Code | Model |
|---|---|
| `pending_ops`, `pending_free`, `submit_q` | `op`, `free` (a stack), `queue` |
| `v3_child`, `pbv_rec` | `child`, `rec` |
| channels with `v3_child_ordinal` and staging cell | `chan` |
| `v3_inflight_*`, `pbv_child_reserved`, `pbv_rec_active`, `v3_copy_outstanding` | `counts` |
| `v3_child_retire_locked` | `Retire` |
| `v3_maybe_terminal_locked`, `disp_op_terminal_locked`, `pio_release_locked` | `KeepOpen`, `Finish`, `Retry`, `FailStop` |
| `disp_pump_locked` in mode=virtual | `Spent`, `PassOver`, `Issue`, `SettleOne`, `Settled`, `PumpEnd` |
| `pb_admit_locked` in mode=virtual | `AdmitNothing`, `Dispose`, `Claim` |
| the copy thread | `EndCopy` |
| graceful tail, `dispatcher_cleanup_locked` | `CutIntents`, `CancelGuesses`, `DrainOne`, `DrainFails`, `EndTurn`, `CleanUp` |

Granularity. A turn holds the mutex, so the copy thread steps only between turns. The turn
itself is taken apart into the steps of its loops; a completion sets `closing`, and the
read it names is judged before anything else. Callers, the predictor and the disk are
seen only where the turn looks for them, and step only there. `landed` and `fate` are
ghosts: the parts that are in the slot, and how the last read of an index ended. Which
slot and record a read is for is `Dispatcher`'s business and left out, so a demand here
finds its record, joins a read or starts one, nondeterministically.

### ControlQueue

Producers go through `cq_alloc` (latch first, without the mutex), `cq_submit_and_wait`
and `cq_free`. `disp_peek` is split where the intent queue's mutex lets an intent in:
look at the depth, reset the event, look again. What a command does is abstracted to
"answered at once", "answered when its read is in" or "deferred".

### StoreDrain

Every atomic access is a step: the increment of an admission, the look at the state,
the grants, the three reads of `xstore_drain_zero` (the two ledger totals in either
order, as C++ allows), the swap in `drain_begin`, the anchor, the stop, the epoch,
STOPPED. Counters are sets (admission objects, unit identities), which makes the
ledger's difference and its double counting visible. Time is one bit: the deadline
measured from the anchor has passed.

### PhaseB

The compute thread (`hook`) is called once per part of a layer; what it does under
`cap_mu` is one step, so is what the worker does under `int_mu` and what either notes
under `tm_mu`: the interleavings are those of the critical sections. The worker takes the
capture at the head of the ring, guesses (a finite result, or not), queues an intent or
overflows, notes the outcome in the mailbox of the graph and in the status ring, and
gives the slot back. The dispatcher's part is what it does for the predictor: it takes
intents, writes a row per guess (`row`, `pending`), applies notes, and leaves when the
predictor is done. Two threads can shut down: the bounded drain and the unbounded
finalize. `fate` (what became of each capture) and `owner` (the request of each graph) are
ghosts against which the counters and rows are judged.

### WarmStart

`dir` is the profile's directory: names and what the files hold, a state or torn. Each
file operation is a step, and a crash may come between any two: the sweep, the judgement
of one generation, the write of a state by the server, the two renames for the data and
the two for the sidecar (`DataAway`, `DataIn`, `MetaAway`, `MetaIn`), the autosave in
place (`AutoBegin`, `AutoWritten`, `AutoMeta`, `AutoDone`). A removal may leave any of its
files. A lost answer (`SaveLostAnswer`, `AutoLostAnswer`) leaves open whether the server
has written the file. The ghosts are `refused`, `orphans` (temporary files that only the
next sweep removes) and `mine` (the autosave generation this session can fall back on).

### Session

Each of start, stop and watch is a goroutine with a place; each critical section of
`s.mu` is a step. The teardown (`Kill`, `Close`, `Release`, `Ended`) is the same for the
three; `tear[s][a]` is where goroutine a is in it. The backend of the screens cancels a
start until its final event and stops the session afterwards; `Uses` says whether the
package's `Stop` is also called directly, and whether there is a state to restore. The
save of a stop and the restore are one step each here, excluded by `saveMu`.

### Repack

| Code | Model |
|---|---|
| the bytes of `experts.bin` | `bin.body`: for each layer the version of the model file it was copied from, 0 for a hole |
| `manifest.json` | the run that wrote it (its bytes carry a time stamp), 0 while its file is empty, and the version it names |
| last record of `verify_report.json` | passed or not, and the manifest it was made for |
| `do_repack` | `Check`, `Mark`, `Open`, `WriteLayer`, `Seal`, `Dump`, `Verify`, `Compare`, `Record`, `Unmark` |
| `PlanRepack`, `RunRepack`, `RemovePartialSetup` | `Plan`, `Consent`, `Decline`, `RemoveOne`, `CannotRemove`, `RemoveDone`, `Spawn`, `Cancel`, `Collect` |
| `CheckFormat`, `verifyGate`; the seal of the engine | `NeedsRepack`, `GatePasses`; `EngineAccepts` |

A repacker ends at any step (`Dies`), the launcher does and takes its child along (`Crash`:
the child is in the launcher's job object), a repacker started by hand lives on, with or
without `--force` and `--verify-only` (`ByHand`). The model file is replaced at any moment
(`Replaced`). A deletion fails while a repacker has the file open, and a bounded number of
times because another program has it. Names of runs are taken from seven and reused when
nothing refers to them any more.

## 3. Runs

The bounds are the constants `Max...` and the sizes of the sets. `Dispatcher_cache` takes the
two callers for interchangeable (nothing in the module tells them apart, and it checks
safety only); no other run uses symmetry.
Deadlock is checked in the runs of `VirtualReads`, whose only ends are `Done`, and of
`Repack`, where a setup can always be asked for again; the others
say `CHECK_DEADLOCK FALSE`, because a system nobody calls is quiet and a stopped one has
ended.

| Run | Instance | Shows |
|---|---|---|
| `Dispatcher_cache` | 2 clients, 2 slots, 2 layers x 2 experts, 2 channels, 3 acquires, 1 intent of up to two ranks, 2 graphs, all faults, symmetric callers (1.07 million states, about 150 s) | the cache invariants, dependency counts with joins by several clients; guesses leave room for a demand; `ImplementsLease` |
| `Dispatcher_stop` | 2 clients, 4 slots, 2 channels, 2 acquires, one of them of as many places as the pool has entries, 2 intents with 2 guesses each, graceful and abort stop, fairness (about 135 s) | no demand is stranded by a refused submission; clean exit; commands and the stop end |
| `VirtualReads_reads` | 2 indices, 3 channels of which 1 for demands, records of 3 parts in waves of 2, part 2 staged, 1 cell, 1 demand, 1 guess, 1 fault, fairness | the budgets, the quiet pool, whole records, and that reads end |
| `ControlQueue_safety` | 3 producers, 2 command slots, 1 read, 1 intent, 3 commands, fairness | no lost wake-up, slots exact, nobody left waiting, every command returns |
| `StoreDrain_safety` | 2 callers, 2 units, fairness | safety, the order of the teardown, the refinement to `StoreGate`, the drain ends |
| `PhaseB_requests` | 2 layers of 2 parts, 1 capture slot, queues of 1 and 2, 2 graphs, 2 requests | captures accounted, overflow charged to its own request, rows true, no intent left, the cut is final |
| `WarmStart_crash` | 3 starts, 3 saves, 3 states, 1 fault (a crash, a lost answer or a failed operation), fairness | whole restores, the fallback survives, temporary files accounted, changes are saved |
| `Session_teardown` | 2 sessions, either use, fairness | nothing left behind, one teardown, saved slots known, cancels and stops end |
| `Repack_setup` | 2 layers, 2 versions of the model file, 1 death or cancel, 1 stuck deletion, 1 repacker by hand that may overlap the launcher's run, fairness (1.46 million states, about 170 s) | the engine accepts only a whole file, the gate is honest, a cancel leaves nothing, trying again succeeds |
| `Dispatcher_cancel_error`, `Session_cancel`, `VirtualReads_exit` | the smallest that show it | three disagreements, section 5 |

Why the bounds are enough to be interesting: two slots with two-expert requests make
every miss evict and every guess compete with a demand; two channels let reads
complete out of order; three acquires cover fill, hit or join, and eviction of what
was filled; a repeated id exercises multiplicity; a request with as many places as the pool has entries is
deferred behind any read in flight, and with it the release of the other caller behind it; a guess can be admitted, joined,
fail, be retried, succeed late, be cancelled. Three parts in waves of two make a second
wave that waits for credit or channels; the staged part ends in another thread. Three
producers on two slots make one sleep while another frees. A capture slot and queues of
one make every limit of the predictor bite; two requests let a guess outlive its own.
Three starts with three saves let every generation be written, lost and fallen back on
across a crash. Two sessions let the second one start in what the first has left. Two
layers let a file be half written; two versions let a layer and the manifest differ from the
file in place. The
passing runs fire every action between them, and every property is broken by a one-line
bug (the definitions that precede the one they vary and that nothing else uses).

Larger instances checked by hand while the models were built, without errors:
`VirtualReads` with 3 indices, 2 guesses and 2 intents, with 2 demands, and with 2
intents (612 thousand states); `PhaseB`'s inductive invariant with 2 capture slots (2.6
million states); `WarmStart` with two faults in a behaviour (533 thousand states, with the
liveness); `Repack` with overlap, 2 deaths and the liveness (3.4 million states), with 3
versions, 3 deaths and 2 stuck deletions and nothing by hand, and with 2 repackers by hand in
between the launcher's runs; `Dispatcher` with two callers and three slots (1.97 million
states); and, on the same instances as above, the proved invariants the runs do not list
(`TokensDieFirst`, `NobodyLeftWaiting`, the `TypeOK` of every module), and every part of the
ledger of leases (two callers, three slots, every failure, either stop: 3.4 million states).

Bounds not in the code: `MaxAcquires`, `MaxIntents`, `MaxGraphs`, `MaxCommands`,
`MaxAsks`, `MaxFaults`, `MaxRequests`, `MaxStarts`, `MaxSaves`, `MaxStates`,
`MaxSessions`, `MaxVersions`, `MaxDeaths`, `MaxStuck` and `MaxHand` end behaviours. When `clock` reaches `MaxSaves` a stop does without its
save, which the properties of `WarmStart` leave out of account.

Fairness. The dispatcher, the copy thread, the drain and the goroutines of the launcher
are threads that run when they can (weak fairness of their steps; strong fairness for a
copy and for the disk, which the model lets step only at certain places of a turn, and for
the stop's save, which waits for a mutex that is handed over). Reads complete: the code
waits for overlapped reads without a time-out and relies on it. A holder gives back what
it holds: every caller in the repository releases after its kernel. Calls to the server
end, by their own time-outs. Time passes. For `RetriesSucceed` the user tries again while no
setup is usable and does not turn every plan down (strong fairness of `Consent`); `Wedged`,
the state of section 5 from which no try succeeds, is left out of that claim by name. Nobody has to acquire, guess, save or ask for a
stop (once the latch of a stop is closed the stop is gone through with, which is
straight-line code). `CommandsReturn` of the control queue needs a stream of commands that
pauses: the command loop of a pass runs until the ring is empty (`dispatch.cpp`
3025-3049). Callers wait for their command, so the stream is limited by their number,
and `MaxCommands` stands for the pause. No liveness of the predictor is checked.

One caller at a time. `ggml-moe-direct.h` lets one compute thread acquire at a time.
`Dispatcher_cache` has two callers; `RetryFindsAnEntry` and `GuessesLeaveRoom` speak of the
moments at which one of them is alone, because two can empty the pool or be refused for
what the other holds, which the abstract lease store allows.

What the reserve is for. The comment at `dispatch.cpp` 2318 credits the reserve of the admission
(2917-2920) with keeping `pb_demand_preflight_reject` at zero. For a caller that is alone
the pool check (2303) does that by itself: the pool has an entry for every slot, so what the
check lets through finds its slots. Without the reserve the check would defer: guesses
could take the entries of a token's worth of experts, and the acquire would wait for reads
nobody has asked for. `GuessesLeaveRoom` states both, and its mutant is a reserve counted before
the claim instead of after it. An abort answers callers one by one while the rest of
their reads and the units they had been granted remain, and plans no acquire again, which is
why the property ends where an abort is asked for.

## 4. Proofs

`DispatcherProofs` proves for every set of layers and experts, any finite set of callers,
any number of slots and channels, with every failure and either stop
(`DispatcherAssumption`, `ClientsAssumption`, `NSlotsAssumption`, `ReserveAssumption`,
`NoRecAssumption`: the sizes are positive, a token's experts are no more than the slots
(`direct.cpp` 2644 makes sure of a slot for every expert of a layer),
requests and guesses name experts of a layer and at least one, the callers are finitely
many, "no record" is not a record):

* `DispatcherInvariant`: `Spec => []DispatcherInv`; from it `DispatcherTypes` (`TypeOK`),
  `PendingIsExact` (`PendingExact`), `RefusedGuessStrandsNobody` (`RefusalStrandsNobody`) and
  `GracefulExitIsClean` (`CleanExit`).

The argument. Four indices speak of the reads in flight, and a step that ends a read or plans
one writes all of them. `Indexed` says what they say of each other; `Placed` says that each
read waits in one place, the queue or a channel, with witnesses instead of counts. A read
ends in one of three ways (`EndPool`): it is gone, it has moved to another entry for its
second try, or the process dies; `EndOfRead` settles each once for the retire step, the pump, the
cancel and the abort. Both steps that claim slots, the plan of a demand and the admission
of a guess, are instances of `Claims`, for which `ClaimKeeps` does the indices. That the n
slots and entries a plan takes are distinct follows from the order it takes them in
(`PlacesApart`, `MissesClaimed`). `Counted` compares a command's count with the reads that list
it. `GuessFresh` is what `RefusalStrandsNobody` needs: a guess goes into an empty queue with a
channel free, so it is in the queue only until the pump that follows, and no command is
planned in between. `TailKnows` is what `CleanExit` needs: what each step of the graceful tail
has seen before the next, and that nothing can arrive after it.

Its second part goes on from there, under the same assumptions:

* `StoreInvariant`: `Spec => []StoreInv`, which adds the ledger of the leases (`LedgerInv`) and
  what the command queue holds (`QueueAsks`);
* `GrantsAreReadable` (`GrantedIsReadable`), in every state;
* `LeasesAreExact` and `WaitersAreExact` (`LeaseExact`, `WaitersExact`), in every state before
  an abort starts (`Orderly`), and `UndisturbedLedger`, in every state of a program whose
  `Stops` has no abort;
* `DispatcherImplementsLease` (`ImplementsLease`), with every failure and either stop;
* `RetriesFindAnEntry` (`RetryFindsAnEntry`), in every state, and `GuessesLeaveDemandsRoom`
  (`GuessesLeaveRoom`), in every state before an abort is asked for.

The argument. `LeaseExact` follows one record from the plan that asks for it to the release
that gives it back, through a read that is pending in between, so it is proved as an account
of three parts: a resident record's lease is the units of all clients with a claim on it
(`Leases`), a read carries the units of the clients it lists (`Carried`), and a client with a
claim finds the record resident or is listed by its read (`Covered`). The units move from the second
account to the first when the read is published (`PublishLedger`), to a client when a plan hits
(`PlanLedger`), and out at the release (`ReleaseLedger`, where `GivenBackUnits` shows that the slot
and the record it is looked up by agree). A claim takes slots without a lease only, so
`ClaimsLease` spares what anybody holds (`ClaimSparesHolders`). An abort answers
commands that wait and leaves what they had been granted already leased for ever: the two
accounts are stated as `Orderly => ...`, while `Covered` needs no such condition and carries
`GrantedIsReadable` and the refinement through an abort. For the refinement every step that
is not a call settles each client (`Settles`), which is a step `Work` of `ExpertLease`.

The room in the pool comes from counting. The entries in use and the pinned slots name each
other, so the free entries of the pool are as many as the slots nobody has pinned
(`RoomIsSlots`). Admission lets a command through only with an entry for each place of its
request (`AdmitRoom`). So the pool is full only while a command waits that joined no
guess: the plan that took the last entries needed all of them for its own reads (`PoolRoom`,
`PlanTakesAll`, `PlanRoom`). A command that is the only one to wait, and whose guess fails,
is not that command, so its retry finds an entry (`PoolRoomStep`, `RetryRoomStep`). And an
acquire with every other caller idle meets no lease, so what is not pinned can be evicted, and
its places are no more than that (`AloneFits`): what the pool check lets through is not
turned down for want of a slot.

That the check lets a token's worth of experts through is the reserve's doing, and needs an
invariant of its own: the guesses nobody waits for, and `n_expert_used` entries more, fit into
the pool (`GuessRoom`). Only an admission adds such a guess, and it leaves that many
entries free (`AdmitRoom`); plans, joins and ends of reads add none (`PlanAddsNone`,
`EndAddsNone`, `GuessRoomStep`). With a lone caller queued, every read in flight is such a guess
(`AloneHasRoom`), so the free entries are at least `n_expert_used` (`PoolSplits`).

`VirtualReadsProofs` proves for any pool, any number of channels, parts, staging cells and
guesses, any set of parts that go through staging and any knobs, with every fault and a stop
at any time (`VirtualReadsAssumption`: what the start-up check makes sure of - the sizes and
the knobs are positive, a wave fits into the channels, the staging cells hold the parts of
a record that need one and the copy credit all cells):

* `VirtualInvariant`: `Spec => []VirtualInv`; from it `VirtualTypes` (`TypeOK`),
  `OnlyWholeIsPublished` (`PublishedWhole`), `ReturnedIsQuiet` (`FreedIsQuiet`) and
  `BudgetIsExact` (`BudgetExact`).

The argument. None of the three is inductive, because a step counts and a property compares
sets. `PartsOut` says that whatever a channel or the copy ring holds is a part of a
read in use, of a wave that has been sent, that is not in the slot yet; `PartsApart` that it
is held once; `CellsApart` that a staging cell has one holder, which passes from the channel
to the ring. With them `Tallies` can say that the counters of a read are the sizes of these
sets: a read that is not unfinished has nothing out (`OverHasNothing`), so what `Finish` and
`Retry` return is quiet; and each part that counts as read is another part in the slot, so
that a read with as many as it has parts is whole. `Records`, `Gauged` and `Guessed` do
the same for the budget: a reservation of one wave stands exactly from the admission to
the first wave. A part moves in three ways, each settled once: a wave is sent (`SendKeeps`; that
its channels and cells are distinct and idle is `ChannelsPicked` and `CellsPicked`), a part
is retired (`RetireKeeps`), a copy ends (`EndCopyStep`). Steps that move none leave all
of it as it is (`StillKeeps`), those that give an index to another read touch only that
index (`IndexStep`). `AtOnceSettled` is needed for the second wave: what was done at
once is retired before the pump looks for channels again.

The proof corrected one claim. `BudgetExact` used to bound the guesses by
`io_qd_total - io_qd_demand_reserve`, and nothing keeps the reserve below the total: with the
defaults it is above it, and the difference is negative. Then nothing is admitted
(`seal_virtual_apply_ncap_locked` warns of it), and the bound that holds is `Budget`, which
is zero in that case.

`StoreDrainProofs` proves for any set of callers and any finite set of units
(`UnitsAssumption`, the only assumption):

* `DrainInvariance`: `Spec => []DrainInv`; from it `TypesHold`, `DrainIsSafe`,
  `TokensAreSafe`, `AbortsOnlyLate`;
* `LedgerIsFinal` and `TearDownOrder`, two action properties;
* `GateRefinement`: `StoreDrain` implements `StoreGate`.

The argument. `NobodyInside` ("after the first confirmation nobody is acquiring or
owes a unit") is not inductive. What carries it:

1. `AdmissionsExact`: which places of a call have an admission counted. So a drain
   that reads zero admissions in DRAINING knows that nobody is acquiring, and a caller
   that counts itself later reads DRAINING and leaves.
2. `UnitsExact`: granted minus returned is partitioned among the callers.
3. `DrainKnows`: what each place of the drain thread has learned. When it has read the
   admissions as zero nobody is acquiring any more, so `granted` is final; one total
   read earlier than the other can then only make the difference larger
   (`readReturned`: the granted total read first is still current; `readGranted`: the
   returned total read first is a subset of the current one). If they are equal, the
   sets are equal (`EqualTotals`) and nobody owes a unit.
4. `TokensExact` with 3: a token that is held has the live epoch, because the epoch
   goes only when nobody holds one.

The steps of callers (`CallerStep`) and of the drain (`DrainerStep`) are proved apart; the
refinement maps every step to one of the gate or to a stutter (`CallerRefines`,
`DrainerRefines`).

`ControlQueueProofs` proves for any set of producers and command slots and every pool
(`QueueAssumption`: the pool is a positive number, the bounds are numbers, `NoCmd` is not
a slot):

* `QueueSafe`: `Spec => []QueueInv`; from it `QueueTypes`, `NoLostWakeUp`
  (`SleepIsJustified`), `CommandsNeverLost` (`CommandsExact`) and `ExitLeavesNobody`
  (`NobodyLeftWaiting`).

The argument. "Asleep with the event down means nothing to do" is inductive only with
what the event means at every other place of the dispatcher: `EventTellsAll` says that it
is down only over an empty queue, with one exception, an intent that came in between the
reset and the re-arm; and that ring and stop cannot change while `disp_peek` holds the
mutex. `CommandsExact` counts places, which induction does not like; `SlotsOwned` and
`CommandsPlaced` say the same with witnesses (unique owner; ring and reads together hold
the unanswered commands, without repetition) and the counts follow at the end. A slot
must also be fresh when it is submitted (`~done` while `filled`), or the answer to the
last command would be taken for the answer to this one. `StopInOrder` records what a stop
has behind it, so that the thread that ends has nobody in front of it. Commands are touched
by few steps: the lemmas `CommandsUntouched` and `ProducerMoves` settle the others.

`PhaseBProofs` proves for any number of layers, parts, slots, graphs and requests and any
size of the queues (`PhaseBAssumption`: the sizes are positive, the slots finite):

* `PredictorSafe`: `Spec => []PredictorInv`; from it `TypeCorrect`, `SlotsNeverShared`,
  `EveryCaptureAccounted` (`CapturesAccounted`), `SwitchIsOwn` (`DisabledIsOwn`),
  `ExitAfterWorker` (`NoIntentLeftBehind`);
* `CutEndsObservations` (`CutIsFinal`), an action property;
* `RowsAreTruthful` (`RowsTellTheTruth`): the rows of a shutdown that did not time out are
  complete or say that they are not.

The argument. A capture slot is free, once in the ring, or with the worker (`SlotsApart`),
and every key of graph and layer has at most one capture somewhere (`CapturesKnown`), so
the counters balance when a slot changes hands. `HookKnows` and `FateKnown` tie the place of
the compute thread and what became of a capture to the places of the slots. `DisabledIsOwn`
compares the switch with the guesses of the current request, but the worker can run a
request behind: captures leave the ring in the order of their requests (`SwitchInOrder`), so
once a guess of the current request has overflowed no older one can come after it and take
the switch back. `StopInOrder` says what a shutdown has behind it at each place of its
closer: the latch goes up only over a worker that has ended.

For the rows (`RowsInv`) the idea is that a row is owed at most one note (`Owed`): the reason
why its guess was not made, or the overflow, once the worker has told of it. What is
owed passes through the mailbox of the graph, the ring, the note kept for a row that is not
made yet, and the row, and each of them says only what is owed (`MailTells`, `RingTells`,
`PendingTells`, `RowTells`; `IntentsTell` for the guesses). `Delivered` is the other half:
as long as nothing was dropped, a note that is owed is in the ring, kept, or in the row, and
a guess is in the queue or its row has it. A capture without a fate is still with
the worker (`Outstanding`). `WrittenLast` ends the argument: the rows are written when the
dispatcher has left and the ring is empty, so that only the row is left as a place. This
last step is where a stop that timed out is excluded.

`SessionProofs` proves for any number of sessions, under `SessionAssumption` and
`NoStopInRecovery`: no use both stops a session directly and restores. The excluded case is
the one `start.go` does not handle (section 5); the shipped screens stay on the safe side
of it, because they cancel until the final event.

* `SessionSafe`: `Spec => []SessionInv`; from it `TypeCorrect`, `NothingLeft`
  (`EndedMeansStopped`), `OneTearsDown` (`OneTeardown`), `KnownIsSaved` (`SavedSlotKnown`),
  `AnnouncedOnce` (s.done is closed once) and `ServersCovered` (no server without locks).

The argument. Four facts for each session. `StartKnows`: at which places of the start the
session is ready, may be stopping, has a watch. `OneTakesIt`: a goroutine in a teardown
has taken the right to it, the start while nobody else can be there, all of them with
`stopping`; this is what makes one teardown exclude the others. `WhatIsLeft`: what exists of
the session at each place of a teardown - the server until `Close`, the locks until
`Release` - and that start and stop agree on which server it is. `SlotKnown`: a slot
nobody knows belongs to the server that the recovery is about to replace, where no stop can
be. A step touches one session (`OnlyIn`), and `OthersKept` carries the facts of all others.

`WarmStartProofs` proves for any number of starts, saves, states and faults
(`WarmStartAssumption`: they are natural numbers):

* `WarmSafe`: `Spec => []WarmInv`; from it `TypeCorrect`, `Restored` (`RestoredIsWhole`),
  `Fallback` (`PreviousSurvives`), `Accounted` (`TemporariesAccounted`) and `SavesApart`
  (an autosave and the save of a stop never write at the same time).

The argument. An autosave touches only the two files of its generation (`AutoFrame`), the
save of a stop only the canonical pair and four temporary names of its own (`SaveFrame`),
and `MutexKnown` keeps them apart. The generation an autosave writes is the other one than
the fallback (`AutoKnown`: `autoNext = Other(mine)` for as long as an autosave can begin),
and a clean-up that removes a generation follows a lost answer, after which nothing is
saved automatically; so no step reaches the fallback. What a start has elected was whole
when it was judged, and what is judged after it is another generation (`SelectionKnown`,
which needs that the order of the candidates repeats none: `OrderIsOne`, `TailDoes`).
`SaveFiles` gives the temporary names that exist at each step of a save; they carry the
number of the save, and no file of a later save exists (`FilesKnown`), so a new save finds
its names free.

`RepackProofs` proves for any number of layers, versions, deaths, stuck deletions and
repackers started by hand (`BoundsAssumption`: they are natural numbers):

* `TypeCorrect` (`TypeOK`), with overlapping runs too;
* `WholeFileServed`: `ServesWholeFile`, if no repacker started by hand overlaps a run of the
  launcher;
* `GateIsHonest` (`GateHonest`) and `CancelLeavesNothing` (`CancelledIsGone`, an action
  property), as long as no repacker was started by hand.

The argument. Versions only grow. A layer copied after a manifest was built is at least as
new as that manifest says, a verification that passed has seen layers as new as the file it
compared with, and what overwrites a layer later is newer still: so as long as the last
report is for the manifest in place, no layer is older than the manifest's time stamp
(`Verified`, with `InOrder` and `ManifestIsOld`). The engine demands that this stamp is the
one of the model file, and no layer is newer than the file. That the report is not for an
older manifest is `NamesFresh`, the time stamp in the bytes; that no layer is missing needs
one writer at a time (`OneAtATime`), which is the user's part.

The launcher's gate compares no time stamp with the model file, so it needs another
argument (`FolderInv`). Without a repacker started by hand the child is the only
one who writes, and it begins only where there is no manifest (`NeverReplaces`: it never has
`--force`). No report can vouch for an `experts.bin` that is being written, so what is
vouched for is what the comparison saw (`Attested`). The order of the deletions plays no
part in it. After a cancel everything that exists is before the deletions, which nobody
adds to (`AllListed`, with the child killed first).

Only model-checked: all liveness, which is out of reach of the provers (as are ENABLED and
inductions over data). Every invariant and action property of the passing runs is proved. No module uses a RECURSIVE operator.

## 5. Disagreements found

Shown by a run:

* `Dispatcher_cancel_error`. The comment at `dispatch.cpp` 2107 calls an error of a
  prefetch read fail-soft; the graceful cancel (2230) aborts on any error except
  ERROR_OPERATION_ABORTED, and a read that failed by itself between the last retire and
  the cancel reports another one.
* `VirtualReads_exit`. The exit test of `dispatcher_main` (`dispatch.cpp` 3171) does not
  look at copies; the clean-up (3430) clears the tables (3247) that the copy thread still
  indexes (1060). `direct.cpp` 6320 waits for the copies, but after the clean-up.
* `Session_cancel`. `wire.go` 811-812 says that a cancel while starting ends the start with
  `cancelled_user` after its own teardown. Between the server's answer and the final event
  nothing looks at the cancelled context: the start ends Ready and the server runs on while
  the screens report an end.
Statements the code does not keep that have no run of their own:

* The second zero check of `drain_finish` (`direct.cpp` 5834) is said (5829-5833) to see
  only a lease without an admission. It also counts acquires that are on their way to being
  refused, so it can abort with nobody inside; `DrainIsSafe` proves that this abort is
  always a false alarm.
* `docs/troubleshooting.md` 117-119 says of a failed deletion to close what
  holds the file and to run again. `removeArtifacts` has deleted the marker by then, the next
  plan takes the folder for one in which files are only missing and deletes nothing, and the
  repacker, which the launcher never starts with `--force`, refuses it
  (`repack_experts.py` 1594), every time. Deleting the folder helps. `RetriesSucceed` leaves this
  state out by its name, `Wedged`.
* `disp_can_plan_demand` (`dispatch.cpp` 2303) defers a request with more ids than pending
  entries for ever; `ggml-moe-direct.h` 105 says an acquire beyond the slots fails with a
  negative result.
* `finalize` drops the outcome of its stop (`dispatch.cpp` 3462, `direct.cpp` 6335): after a
  time-out the rows are written (6391-6392) while the dispatcher may still change them.
  `RowsTellTheTruth` is stated for a stop that did not time out.
* After the failure of a part the pump still sends the later waves of the record
  (`dispatch.cpp` 1522-1580); the comment at 1001 says that they are not sent.
* When a guess with several waves fails while its place in the queue waits for the next
  wave, the place stays. The index is returned on top of the stack; a demand that takes it
  goes out at the stale place, ahead of earlier demands, which 1542 calls strictly in order.
* A save that is interrupted between its renames (`warmstart.go` 1046) leaves no canonical
  state; `disk-layout.md` 34 says that it can leave a stale file or a temporary one beside
  the state.
* A direct stop between the look at `stopping` (`start.go` 322) and `ready=false` in the
  recovery (`warmstart.go` 1404-1407) ends a session whose start goes on to spawn a server;
  a stop that waits for a failed restore saves the slot it left (`start.go` 325,
  `warmstart.go` 899-900, 1411). Neither can be reached through the screens.
* Two repackers started by hand with `--force` while the launcher's run is under way can leave
  an `experts.bin` with holes that the engine accepts; there is no lock, and `repack.go`
  486-487 only says that one run at a time is meant. And the launcher's gate, which looks at
  neither size nor bytes of `experts.bin`, can pass what a forced run by hand has cut off
  after the launcher has deleted its marker; the engine's look at the size refuses it.
  `GateHonest` is stated for runs of the launcher alone.

## 6. Not modelled, and why

Dispatcher: test-only hooks (pause, hold retire, abort after submit, queries); the Phase A
switch that forbids two demands at a time; `CMD_STOP`; ledgers, digests and metrics;
releasing a token's units through the tensor surface; finalising the store without a
drain; the 48-bit generation's exhaustion (the code aborts).

VirtualReads: the abort of the tests, injected copy failures, coalesced reads (off in the
shipped configurations), parking and wake-ups (`ControlQueue`), slots, leases and hits
(`Dispatcher`). A read error and a short read are one fault.

PhaseB: the arithmetic of the guess; the records of the modes other than trace; the seal
and its failure; counters of a run; the charge of the buffer.

WarmStart takes for granted that the clock behind `saved_at` does not go back, that the
token count tells two states apart, that the server's save is atomic with respect to
requests, and that the watch of a session has ended before the next start. What makes a
whole generation ineligible (its binding to another configuration, a failed read) is a
nondeterministic `refused`; so is the profile's size cap.

Session: the quit of the screens (`Shutdown`, `wire.go` 893-940), repack runs (the screens'
side of them), the wording of a teardown's status, phases and bars, the stop history.

Repack: the virtual plan (`do_virtual_plan`); template setups, whose derived expectations are
one more file; the checks of model, disk and memory before a run; what a report says besides
its outcome; a layer that is copied while the model file changes (a layer is of one version);
loss of power, after which files that were closed may be incomplete (the repacker never
flushes them to the disk); a plan that is stale because the model file is not the catalog's,
which deletes what a forced one does. Two simplifications: the engine compares the model
file's time stamp in whole seconds (`manifest.cpp` 484), while versions in the model can always
be told apart, so a file replaced twice within a second is not covered; and `Compare`
is one step although the verification reads record by record (what it passes has to
equal the file in place, whose versions only grow).

Whole components. The token table and its views: a table of handles under one mutex; only
the epoch of a token is in a module. The memory plan, the layout arithmetic of the
repacker and the manifest: sequential calculations and validation over file contents,
better served by tests. Telemetry: it steers nothing here. Configuration, discovery and
user interface of the launcher: pure functions and I/O. llama.cpp: third-party code apart
from the hooks, and by far the most of the 125 thousand lines, together with a self-test of
26 thousand; the modules cover the concurrent core and not a large share of the lines.

## 7. What is left

1. `TokenTable`: handles with generations and views against an abstract set of live
   tokens; the virtual plan of the repacker, which is written beside the old one, verified and
   renamed into place, and the launcher's deletions around it; the memory plan as operators
   against a reference.
