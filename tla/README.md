# A verification project for WaveBench

WaveBench drives laboratory instruments (oscilloscopes, generators, power
supplies, meters) over VISA, RsInstrument or serial lines, from a CLI, a TUI, an
HTTP tool server and run plans.  Mistakes in its core are not crashes: they are
an output that stays on, an answer read as the answer to another question, two
processes on one instrument, a plugin environment nobody can explain.  These
modules specify that core, TLC checks them on small instances, and TLAPS proves
the most important properties for every instance.

## 1. The system

Calls go down through the layers

    CLI / TUI / HTTP / run plan -> services -> coordinators (phases, budgets)
        -> driver -> GuardedAuditedTransport -> concrete transport -> instrument

and every exchange with an instrument passes the guarded transport.  Processes
meet in two places only: resource leases, and the state files of a plugin
environment.

| component | state it keeps | operations | hard behaviour | what makes it correct |
|---|---|---|---|---|
| session health, authorizations (`transport/session.py`) | health, verified fields, transaction lock, the active authorization | degrade, close, authorize, record evidence, complete verification | threads on one re-entrant lock, deadlines, failures inside an authorization | trust falls step by step and is regained only by a verified read-back |
| guarded transport (`transport/guarded.py`) | closed flag, construction latch, audit counters, lease | write, query, block and binary queries, close | failure classification, close against exchanges, interrupts | no exchange on a lost epoch; the lease outlives the last exchange |
| binary ledger (`transport/binary.py`) | remaining bytes and queries, discarded bytes | reserve, commit, fail, invalidate | failure between reserve and commit | the operation's byte limit is never exceeded |
| concrete transports (`pyvisa_`, `rsinstrument_`, `serial_transport.py`) | the connection | exchanges, replay of reads declared safe | partial answers | a failure says what was sent and how far the answer came |
| instrument factory (`instruments/factory.py`) | opened transports, latch | open, validate, release the latch | failure half way | no I/O before validation, nothing leaked |
| session alias (`services/session_alias.py`) | none of its own: it forwards to the service's session | prepare a reopen | poisoned and closed epochs | one live epoch per service |
| resource leases (`services/resource_lease.py`, `file_lock.py`) | kernel locks, sidecar metadata | acquire many, release, status, clear stale | processes that race, fail and die | work is exclusive, the metadata names the holder |
| scope operations (`services/scope_phase_coordinator.py`, `scope_extension_service.py`, two executors, `scope_error_policy.py`) | phases used, baselines, cleanup flags, deadline | screenshot, trace, waveform, averaged capture, display, focus, acquisition | failure and refusal in each phase, time | a cleanup is reached, and ends verified or with the session lost |
| source operations (`source_operation_context.py`, `source_service.py`, `source_budget.py`) | phases, failure marks, proofs, deadline reserve, fire receipts | configure, enable, fire, store, relate channels, recover to OFF | writes that fail, are ignored, or reach coupled channels | the health left behind tells what is known of the outputs |
| RF output (`rf_source_service.py`) | session, recovery status | every write of the port, recover OFF | failure after ON was sent, stale modes | one bounded OFF, then an honest state; what returns ON is within the limits |
| run service (`run_service.py`, `run_plan.py`, `run_restore.py`, `run_safety.py`) | records, services, leases, snapshots | run steps, restore, close | step failure, interrupt | restoration and close happen on every path |
| state guard, power service (`state_guard.py`, `power_service.py`) | expected state per channel | compare, write, observe | changes from outside | no write over an unexpected state |
| plugin lifecycle (`plugins/lifecycle.py`) | ledger, journal, environment | install, upgrade, downgrade, remove, recover | crash at every disk write, a child process that survives | changes are atomic, or in doubt and blocking |
| plugin packages, registry, market, SCPI | none | validation | none | functions of their input |
| TUI (`tui/app.py`) | in-flight flags, a queued refresh | refresh, write | events out of order | the last state wins |
| MCP server, access policy | access mode | handlers | none of its own | writes need read_write |
| CLI, doctor, discovery, advisor, data, analysis, report | files | none shared | none | numeric and textual output |

## 2. Modules

| module | models | extends |
|---|---|---|
| `BinaryQueryLedger` | the ledger's operations as operators on a record | |
| `InstrumentSession` | one connection epoch: threads, lock, authorizations, guard, ledger, close | `BinaryQueryLedger` |
| `ConnectionEpoch` | abstract: what an epoch promises to services | |
| `InstrumentSession_proofs` | proofs | `InstrumentSession` |
| `PluginLifecycle` | commands, journal, ledger, `uv`, crashes, recovery | |
| `PluginStore` | abstract: an atomic store with at most one change in doubt | |
| `PluginLifecycle_proofs` | proofs | `PluginLifecycle` |
| `ResourceLease` | processes, kernel locks, metadata, batches, probes, crashes | |
| `LeaseTable` | abstract: whole batches, granted when they agree and given back | |
| `ResourceLease_proofs` | proofs | `ResourceLease` |
| `SourceContext` | a source operation's phases, deadlines and marks, as operators on a record | |
| `SourceContracts` | what each of the Source V2 operations does differently | |
| `SourceMutation` | abstract: what one source mutation promises | |
| `SourceTransaction` | a source session, its operations one after the other, the device, time | `SourceContext`, `SourceContracts` |
| `SourceTransaction_proofs` | proofs | `SourceTransaction` |
| `StateGuard` | the expectations of a state guard, as operators | |
| `RunLifecycle` | one run: leases, sessions, steps, gate, restoration, files, ways out | `StateGuard` |
| `RunLifecycle_proofs` | proofs | `RunLifecycle` |
| `ScopePhases` | which phase of a scope operation may follow which, and when it ends well | |
| `ScopeOperation` | a scope session and its operations one after the other | `ScopePhases` |
| `ScopeOperation_proofs` | proofs | `ScopeOperation` |
| `RfOutput` | one RF port, its operations one after the other, recovery to OFF | |
| `RfOutput_proofs` | proofs | `RfOutput` |
| `MC...` | small instances for TLC | the module they name |

In `SourceTransaction`, `ScopeOperation` and `RfOutput` the session appears as its
health, which a failed exchange lowers as `_transition_after_failure` does
(`AfterFailure`), and in `RunLifecycle` as the set `broken`; what stands behind it
is `InstrumentSession`.

Every component module ends with its inductive invariant (`IInv`, `LifecycleInv`,
`LeaseInv`, `SourceInv`, `RunInv`, `ScopeInv`, `RfInv`), so that a run checks the
very formula a proof is about.

### InstrumentSession

State: `health` and `verified` are `_health` and `_verified_fields`; `owner`
the holder of `transaction_lock`; `auth` the installed `SessionAuthorization`;
`ledger` the `BinaryQueryLedger`; `closed`, `latched`, `lease`, `audit` the
guard's fields; `exchange` the call the backend works on; `pc` a thread inside
`close`.  Three variables exist only for the properties: `boundary` (is the
response boundary on the wire proven), `delivered` (payload bytes handed out)
and `retired` (some close has returned).

A call is cut where another actor can act: `Begin`/`BeginBinary` go from the
lock to the backend, `Succeed`, `Fail`, `SucceedBinary`, `ViolateContract`,
`FailBinary` and `Interrupt` are the backend's answers with everything the guard
does about them, `CloseSession` runs to the release of the lock and
`ReleaseLease` after it.  A refused call that spends nothing is left out: it
changes only a counter of refusals.  `Expire` is the passing of the deadline,
possible at any moment.  An authorization passes the gate's checks for purpose,
kind, steps and deadline exactly as `_consume_authorization` does; the checks of
its arguments are `ValidGrant`.  The answer of an exchange is classified as in
`_transition_after_failure`: not sent, boundary proven, boundary unproven, or an
exception without transport facts.

A service may keep the re-entrant lock over several calls (RF output does).  The
model lets the lock go between them: it has more interleavings than the code,
so what holds here holds there.

### PluginLifecycle

State: `env` is the environment as the inventory probe reports it, `ledger` and
`journal` are the two files, `run` is the command that holds the environment
lock with the variables of its Python frames (`before`, `package`, `goal`), `uv`
the child it waits for, `orphan` a child whose command died.  `outside` and
`orphaned` remember which distributions were changed by others.  Every disk
write is an action with three outcomes: done, raised without effect, raised
after it took effect (`atomic_write_json` syncs the directory after the rename).
`Crash` is the death of the process between any two of them.  Recovery reads the
environment, decides (`Decide`, `Refuse`), writes the ledger (`Settle`) and
removes the journal (`Clear`), and can die in between like any command.

### ResourceLease

State: `locks` is the kernel's table, `meta` the sidecar files, and `mode`,
`wanted`, `held`, `pc`, `at` what a process knows.  `fate` and `luck` exist only
for `SomeoneWins`.  A batch takes its fingerprints in ascending order, one
`TryLock` and one `WriteMetadata` each, and gives them back in reverse, each
with a read, a compare, an unlink and an unlock.  `LeaseTable` is what sessions
may believe: `Batch` is `wanted` while a process works and nothing otherwise, so
the whole of `acquire_many` shows as one grant, at its last metadata write, and the
whole release as one return, at its first step.

### SourceTransaction

One service runs one operation at a time on a persistent session, and the
device may be used from its panel in between.  An operation is a request with a
`Contract`: the twenty-odd transactions of `source_service.py` have the same
skeleton and differ in which outputs they answer for (`emergency`), whether
outputs must be OFF before and after, whether they may be skipped, what they
refuse.  `Interlocks` are the features the profile of the sweep declares to be
switched off by it: only those must be inactive, before the write and after.  State: `ctx` is the `SourceOperationContext` (phases used, main
entered, failure marked, postcondition proven, safe state proven), `clock` the
time left as "main", "reserve" or "over", `sent` the OFFs of the recovery,
`closure` the channels a relation reaches, `receipts` the fire receipts with the
session they belong to, `device` the source itself.  `wrote` and `moved` exist
for the properties.

Each phase is one action, because the transaction lock is held inside a phase
and free between two.  `Main` hands one write to the driver; `Outcomes` lets the
device obey, ignore it, or do more, and coupled partners follow an output that is
enabled.  `Confirm` is the reading afterwards with all its checks.  A phase that
is refused (the deadline, the order) is an action of its own (`RefuseMain`,
`FailSafeState`, `FailVerify`), and `Complete` computes the health that is left.
`Tick` moves the clock at any moment.  `UsePanel` also switches existing
relations on and off, and a write may set up one more than it was asked for, so
that a closure can grow under an operation.

### RunLifecycle and StateGuard

`stage` says what the run does next: acquire, open, guards, snapshot, step, gate,
record, restore, post_gate, files, close, report, analysis, end; `path`
says how the steps were left.  `call` is a call whose comparison with the guard
has passed and whose write has not been sent: `Check` and `Send` are two
actions, with `UsePanel` between them.  `expected` are the guards of both
instruments.  `saved`, `at` and `leg` are the snapshot and the place in it (each
saved state is restored by up to three calls: OFF, level, ON), `unrestored` is
`restore_error`, `files` and `raised` what the caller gets to see.  `left` and
`offed` remember, for the properties, how the run left each output and what its
gate has switched OFF.  `Interrupt` may happen wherever the code has a handler
for it; `Fail` is a step that raises.  The analysis is one action, which returns,
raises or is interrupted at any point: the status of the run changes with the
first analysis that is found failed, and the files say so only when all records
are in (`Written`), so an exception in between can leave the `ok` of before, or
half a file.

### ScopePhases and ScopeOperation

`ScopePhases` holds the rules of the coordinator as pure operators: the order of
phases, the main deadline with its reserve for cleaning up, the states of a
baseline, and the health at the end.  `ScopeOperation` runs the thirteen
operations through them; `Contract` says when a baseline handle is created
(always, only when something changes, never; stopping an acquisition creates none
and yet cleans up), whether the settings are only lent, whether a session poisoned
by the main phase is left alone, and whether a failure is cleaned up to a stopped
scope.  The last is so for starting an acquisition, continuous or single: what
must be read back is the other settings as preflight found them and the run state
"stopped", whatever it was (`Stopped` maps a setting to itself with the
acquisition stopped, `Wanted` says what is written back).  A phase
that returns may still have lowered the session's health (`AfterPhase`): a driver
may keep the failure of an exchange to itself, and no line looks at the health
between the main phase and the next one.
`Settle` is the decision in the `except` clauses and after the main phase whether
to write the settings back.  `RefuseMain` and `RefuseRestore` are the
coordinator's refusals, `CheckPhase` the two drains of the error queue.  What
happens to the device is in `snap` (what preflight read), `device` and the
request's `asked`.

### RfOutput

One port with its output, level, modulation modes, pulse and sweep profiles,
pulse output and protection alarm, each small.  An operation goes from preflight
(`Ready`, `Skips`) over `Send` to `Confirm`, or over `FailSend`, `Fail` and
`FailConfirm` to the end or into the recovery (`SwitchOff`, `VerifyOff` and their
failures).  `Emittable` is what must hold before RF is switched on; `Fits` says the same
as a promise to the user, modulation included; `Asked` is what
the reading afterwards must show; `ModesBefore` and `ModesAfter` what the
modulation operations demand of the other modes.  `sent` is the list of
commands, so "exactly one OFF" can be said.  The port may change along with a
command, and the front panel at any moment; `touched` says that it did since the
last reading that passed.  `Reopen` is a new session on a port it knows nothing of.

## 3. Runs

| run | shows | bounds |
|---|---|---|
| `session_safety` | the session's safety properties and the refinement of `ConnectionEpoch` | 2 threads, 2 fields, 3 grants, 5 calls, budget of 3 bytes, 2 queries, 1 discarded byte |
| `session_interrupted_safety` | the inductive invariant and `CloseCompletes`, with interrupts, block reads and parsed lists | the same |
| `plugin_lifecycle` | write-ahead, isolation of records, recoverability, atomicity | 2 distributions, 2 versions, 1 digest, 1 orphan |
| `lease` | exclusion, contests, nothing kept, the refinement of `LeaseTable` (which has the metadata) | 3 processes, 2 resources, both modes |
| `source_transaction` | the refinement of `SourceMutation`, coupled outputs, relations, limits of ON and triggers, the OFFs the reserve is kept for, operations end | 3 channels in a chain of relations, 5 features, 12 requests, 3 operations, 1 panel action; 655,078 states |
| `run_lifecycle` | nothing left open, truthful files, gate, drift, the run ends | 3 plans on 2 source outputs and 1 supply output, 2 levels, 1 panel action, 1 interrupt; 922,784 states |
| `scope_operation` | cleanup is reached, settled or poisoned, results are true | 13 operations with 4 choices of error checks, 3 settings, one of which is not a stopped one, 2 panel actions; 219,657 states |
| `rf_output` | a failed ON, the health, the limits before an ON and after it | every request over 3 levels, 2 profiles, 2 modulations, 2 panel actions; 540,038 states |
| `session_interrupt`, `session_resync`, `plugin_orphan`, `run_gate_restore` | one disagreement each, section 5 | as above |

The type invariant of a component is a conjunct of its inductive invariant, and no
run checks it a second time.  The same goes for `EvidenceOnlyWhenHealthy`, a
conjunct of `IInv`, and for `MetadataNamesHolder`, which `LeaseTable` promises as
`NotesHold`.

Why the bounds are enough.  Sessions: two threads suffice for every race on one
lock, because a third can only wait as the second does; five calls allow an
authorization, two exchanges in it and a close by each thread; the budget is
small enough that a second response must be cut, that a query count runs out and
that a discarded byte exceeds its limit.  Plugins: records of one distribution
are touched through those of another only via the whole ledger, so two suffice;
two versions give both directions.  A single digest keeps the run short; with
two, an installation may differ from the recorded one by digest only, and the
model was also run that way without an error.  Leases: with two resources
batches can overlap in one, in both or not at all, and a third process can probe
or clear while two compete.  Distributions and processes are symmetric; fingerprints
are ordered and are not.

Sources: channel 3 can be reached only through a relation that preflight
discovers, which is the case the closure exists for; three operations let one
configure, one trigger and one come between; the requests take one operation of
every kind of contract, and a sweep that a burst set from the panel must stop.  Runs: the three plans have a gate of the plan, a gate of
one step that names no outputs, and none, and the outputs start as one ON, one
OFF and one too high, so that restoration has to switch ON, OFF and change a
level.  Scopes: a setting can be the one asked for, the one found, or neither,
and with two panel actions it can leave and return.  RF: one level that is safe
always, one that is safe without modulation, one that never is.  Scope and RF
operations follow one another without end; a run is one run.

Every property is checked against a fault as well: the definitions commented
"Mutant" state a plausible bug (a missing reset, an early completion, a journal
written late), and the property they are paired with in `PROJECT.json` fails
under them.

`CHECK_DEADLOCK FALSE` is set where the modelled system may stop: sessions when
the bound on calls is used up, processes when all requests are over, the plugin
environment when everything in it was changed from outside and no command is
allowed any more, a source when its operations are used up, and a run at its end.

Fairness is used by `CloseCompletes`, `TransactionsEnd` and `RunEnds` only.
`TransactionsEnd` and `RunEnds` need that the
service takes its next step (`WF` on the service's or the run's steps): every
exchange with an instrument has a timeout, and the panel and the clock are not
made fair.  In a session, `Answer`: every backend call has a
timeout.  `EndAuthorization`: `with` blocks end.  `Close`: a thread that waits
for the lock gets it when it is free again and again is *not* assumed; weak
fairness is enough because the bound on calls ends the contest for the lock.  So
the property says that no lock is leaked on any path, not that Python's lock is
fair.

## 4. What is proved

`InstrumentSession_proofs` proves for any number of threads, fields, grants,
budgets and any access mode, from the assumptions `LedgerAssumption` (what the
ledger's constructor demands), `SessionAssumption` (what the argument checks of
`_authorize` demand) and `NullAssumption` (the null values are no records):

- `InvariantHolds`: the inductive invariant `IInv`;
- `TypeCorrect`, `UncertainAuthorized`, `LeaseHeldToTheEnd`,
  `EvidenceNeedsHealth`, `BudgetHolds`;
- `BoundaryLatched`, `AuditHolds`, for exchanges that are not interrupted;
- `HealthImproves`: the action property;
- `ImplementsEpoch`: the session refines `ConnectionEpoch`, without interrupts;
- `ResyncLeavesOpen` and `OnlyInterrupts`, see the end of this section.

The properties are not inductive alone.  That nothing is sent outside an
authorization on an uncertain session needs `LockHeld` (whoever has an exchange
or an authorization holds the lock), and the lease needs `ChannelConsistent` (an
exchange runs only on a transport that is not closed).  `IInv` is the type
invariant, these two, and the properties themselves; TLC checks it as an
invariant of `session_interrupted_safety`.

`PluginLifecycle_proofs` proves for any distributions, versions and digests, with
orphaned installers and without, from `LifecycleAssumption` (null values are no
records):

- `LifecycleInvariantHolds`, `LifecycleTypeCorrect`, `WriteAheadHolds`;
- `RecordsAreKept` and `OldStateRecovered`, the two action properties;
- `PromiseIsKept`: the commands with their journal refine `PluginStore`;
- `RecoveredWithoutOrphans`, see the end of this section.

Its invariant `LifecycleInv` says that the journal on disk and the command in
memory tell one story (`JournalIsOfRun`), what each journal stage means for
ledger and environment (`StagesFit`), that every copy of the ledger agrees with
the ledger on other distributions (`OthersAgree`), that a command asks for a real
change (`ChangesAreReal`), and that what a command is about to write is what is
installed (`GoalIsInstalled`).  Without the last two, a rollback that starts
after the journal has been removed could resolve to a third version.  In the
refinement, `Prepare` begins a change, and `Forget`, `Unjournal`, `Clear`, a
`Rollback` that fails without a journal and the crash before it resolve it; all
other steps stutter.

`ResourceLease_proofs` proves for any processes and resources, from
`LeaseAssumption`: `LeaseInvariantHolds`, `LeaseTypeCorrect`, `ExclusiveWork`,
`HolderNamed`, `NoLockKept`, `ContestHasWinner` and `LeasesAreBatches`.  `LockInv`
ties what a process believes to the kernel's table (`LocksAgree`,
`LocksAreKnown`), says that work starts with the whole batch (`BatchIsWhole`), and
who may have written a sidecar file (`MetadataIsOwn`).  `LeasesAreBatches`, the
refinement of `LeaseTable`, follows from it and from the lemma that a batch shows in
two steps only, its last metadata write and the first of its release (or a crash).

`ContestHasWinner` needs a reason of another kind, `ContestInv`, the other half
of `LeaseInv`: a process takes its batch in order (`TakenInOrder`), and, as long as
no probe, failed write or crash has interfered, beyond every lock a loser has still to
give up somebody who has not lost has reached a later fingerprint
(`LosersAreBehind`).  So a refusal is always by somebody who is still in the
contest, or who is behind such a process, and when everyone has been answered that
one has won.  The obvious argument, the loser that came furthest, is an induction
over a finite set; an invariant that keeps a witness needs none, and holds for
infinitely many processes as well.

TLC checks the invariants of all components in their runs.

`SourceTransaction_proofs` proves for any channels, relations, features, requests
and starting states, from `SourceAssumption`: `SourceInvariant`,
`SourceTypeCorrect`, `SourceOffIsReserved`, `SourceEmitsWithinLimits`,
`SourceNothingElseEnergised`, `SourceRelationsStayInside`, `SourceStepsAdvance`, and
`SourceKeepsPromise`, the refinement of `SourceMutation`.  `SourceInv` says which
marks a context can bear in which phase (`PhaseInv`, `MarkInv`), that a proof in the context is true of the device
(`ProofInv`), that a recovery ends with every OFF sent (`OffInv`), and that until
the panel is used the device is as preflight saw it (`ReadyInv`).  `OnInv` adds
which outputs can be ON.  The refinement needs `ProofInv`: `Complete` looks at
the marks only.  `GraphInv` follows the relations: the closure an operation answers
for never exceeds what the device's relations reach, and is all of it once the
postcondition is proven.  It rests on lemmas about the model's operators:
the affected channels are the least set that holds the given ones and is closed
under the relations, and grow with them (`AffectedFacts`); only the main write adds
relations, and nothing takes one away (`GraphGrows`).

`RunLifecycle_proofs` proves for any plans, outputs, levels and bounds, from
`RunAssumption`: `RunInvariant`, `RunTypeCorrect`, `RunLeavesNothingOpen`,
`RunFilesTellTheTruth`, `RunGatedStaysOff`, `RunDriftStopsTheCall`,
`RunStepsAdvance`.  `RunInv` ties stages to what is held (`HeldInv`), the snapshot
to the guard (`SnapshotInv`, `GuardInv`), a checked call to the stage it was checked in
(`CallInv`), the gate to its targets (`OffInv`), the place in the restoration to
the way out (`PlaceInv`), and restored outputs to what the run left them as
(`RestoredInv`, `FilesInv`).  The last two carry the claim of `run.json` back to
the single calls.  That claim is for a run that returns; one that raises in or
after its analysis may leave an "ok", but only over outputs that were all
restored.

`ScopeOperation_proofs` proves for any settings, requests and bounds, from
`ScopeAssumption`: `ScopeInvariant`, `ScopeTypeCorrect`, `ScopeCleanupIsForeseen`,
`ScopeSettledOrPoisoned`, `ScopeResultIsTrue`.  `ScopeInv` follows the baseline
handle (`BaselineInv`), the phases used (`PhaseInv`) and, while the panel is not
touched, the settings on the device (`DeviceInv`) and what may be said of them at
the end (`ResultInv`).  None of them needs the session to be healthy after a main
phase that returned: a result is true of the settings even then, and what was
lent is back or the session is poisoned.

`RfOutput_proofs` proves for any levels, profiles, modulations and requests, from
`RfAssumption`: `RfInvariant`, `RfTypeCorrect`, `RfFailedOnIsSwitchedOff`,
`RfHealthTellsTheTruth`, `RfEmitsWithinLimits`.  Here the properties are almost
inductive: `PendingInv` says what has been sent at each place, `ReadyInv` that
what preflight read holds until the write, and `RecoveryInv` that a recovery
follows a failed ON.

Only model-checked: liveness (`CloseCompletes`, `TransactionsEnd`, `RunEnds`).
Liveness under fairness and ENABLED are out of the prover's reach, and so is what a
recursive definition computes for every input; no module here declares a
RECURSIVE operator.  What can be proved of termination is proved:
`SourceStepsAdvance` and `RunStepsAdvance` say that no step of an operation or a
run leads back or leaves it where it was, and what lies ahead is finite: phases,
channels to switch OFF, steps of the plan, states of the snapshot, targets of the
gate.  That a step is always possible, and is taken, is the part TLC checks.

Four theorems say that each disagreement of section 5 has one cause, and that
without it the documents are right.  `OnlyInterrupts`: a step that
loses a response boundary without latching it, or a write without counting it, is
an interrupt.  `ResyncLeavesOpen`: a binary exchange that poisons the session and
leaves its transport open has discarded too much with a proven boundary, and its
operation gets no further reservation.  `RecoveredWithoutOrphans`: without an
installer that outlives its command, what recovery declares is what is
installed.  `RunGatedStaysOff`: on the normal way a gated output stays OFF.

The formulas `EveryStepAdvances`, `OnlyInterruptsEscape` and
`OnlyResyncLeavesOpen` are proved and belong to no run; TLC finds no error in
them on the instances of the runs either.

## 5. Where code and documents disagree

Each of these runs must find its property violated; `PROJECT.json` quotes the
sentences.

- `session_resync`: a proven resynchronization over its budget poisons the
  session; the guard then aims at `uncertain`, `degrade` refuses with a
  `ValueError`, and the backend is never closed.
- `session_interrupt`: a `KeyboardInterrupt` inside a backend call leaves the
  session healthy with an answer possibly outstanding.
- `plugin_orphan`: an installer that survives its killed command changes the
  environment after `recover` has declared it restored.
- `run_gate_restore`: after a safety gate has switched an output OFF, an
  interrupt before the last record is written, or an exception while it is,
  makes the run restore a snapshot in which the output is ON, without the list of
  outputs that must stay OFF.  Only the normal way passes that list and applies
  the gate again.  `GatedStaysOff`, which holds, is the same promise for the
  normal way.

Noticed while modelling, without a run of their own: after a poisoned binary
exchange `close()` returns early (`guarded.py:386`) and the health stays
`poisoned`, which `docs/concepts/sessions-and-recovery.md` does not foresee; a
normal authorization outlives the health it was given on (`guarded.py:466`);
`run.json` keeps its "ok" when an analysis has failed and writing its record or
the files of it then raises (`run_service.py:1186`); a scope driver that catches a
failed exchange returns a result on a session that is uncertain or poisoned.
Not contradicting a document: a verification can be
completed after one of its own later exchanges has failed with a proven
boundary; a verification may be allowed to write; `lock status` takes the lock
exclusively for a moment, so that an acquirer can see a busy resource; with
shared leases the metadata names one holder and is removed by that one only; the
generation number in the plugin ledger is never read; recovery at
`rollback_started` accepts the old state only.

## 6. Not modelled

Text, layout, argument parsing, numeric analysis and reports have no protocol
state.  Package validation, registry and market are functions of their input.
The HTTP server is library code over the services.  The instrument and the
kernel appear as what the code can observe of them.  Most lines of the program
are such code, and none of them is mapped: the data classes, descriptors and
validators of `instruments/`, the reports, the command line and the tools.  The
coordinators, services and stores that hold protocol state are a smaller part.

Left out in the modelled parts:

- sessions, plugins, leases: dry runs and listings, refusals without effect, the
  migration of version 1 files, the wheel cache (nothing is ever deleted from
  it), directory permissions;
- sources: operations that only read; restoration through Source V2; a source is
  used by one service at a time; a write touches one feature, of few values;
- runs: measurement, sweep and frequency-response steps, the parsing of plans,
  over-voltage and over-current settings; restoration and steps go the V1 way; a
  device obeys a V1 write that succeeded; the gate takes its targets in any
  order; an interrupt between taking the leases and entering the callback.  When
  a restoration is itself interrupted, the code loses `restore_error`:
  `FilesTellTheTruth` speaks of restorations that came to their end;
- scopes: settings, images and waveforms are single values; in the main phase
  the driver reports what it read; an epoch that changes inside an operation; the
  few statements between the main phase and the mark that requires cleaning up
  (`scope_extension_service.py:301`, 476, 1094), in which an interrupt loses the
  cleanup: `SettledOrPoisoned` speaks of interrupts inside the phases;
- RF: one port; a modulation mode and its values are one model value; the global
  modulation switch agrees with the modes; a second interrupt inside an
  exception handler; a driver that keeps the failure of the last exchange of a
  reading to itself (the next one would be refused).  An OFF of the pulse output is confirmed by reading the
  pulse output only, as in the code.

## 7. Plan

In this order, each with its run, its hazards in `PROJECT.json` and, where it
has an inductive invariant worth stating, its proofs:

1. `BinaryFraming`: the block parser as an operator checked against a reference.
2. Restoration of a source through Source V2, as further requests of
   `SourceTransaction`, and then as a second route in `RunLifecycle`.
3. Sweep and frequency-response steps of a run, which change outputs in a loop.
4. The instrument factory with interrupts between lease, transport and driver.
5. `PanelRefresh` (TUI).
6. Proofs: that scope and RF operations advance as source operations and runs do,
   and one abstract specification of a call that returns or is not trusted, which
   `ScopeOperation` and `RfOutput` implement as `SourceTransaction` implements
   `SourceMutation`.
