# InspectionHub: a TLA+ verification project

InspectionHub is a platform for building inspections. A client books and pays
for an inspection, an inspector captures evidence on a phone, the phone uploads
it, workers validate it, an agent drafts findings, the inspector reviews and
approves report modules, and the report is delivered to recipients who may
share it. The modules here model the parts of that path in which steps of
several actors interleave, processes die, messages are lost or stale copies are
acted on. TLC checks them on small instances, and TLAPS proves every invariant
and action property of the passing runs for every instance; what only TLC
checks is liveness.

Paths below are relative to the repository root. `PROJECT.json` maps every
definition to the lines it models, lists the runs, the mutants that show that
each property can fail, the hazards and the findings.

## 1. Inventory

| component | state | operations | hard part | module |
|---|---|---|---|---|
| task queue (`packages/task-queue/src/in-memory-queue.ts`) | task records with attempts, lease token, generation and expiry, dependencies, checkpoints | enqueue, lease, heartbeat, checkpoint, complete, fail, markUnknown, recordUnknownObservation, reconcileUnknown, supersedePacket, cancel, two sweeps | late and duplicated calls of fenced workers, expiry, attempt budgets, cascades | `TaskQueue`, `TaskContract` |
| worker (`worker-loop.ts`, `apps/worker`) | where each loop is, its lease, its abort signal | poll, heartbeat timer, handler outcomes, shutdown | crash in a handler, lost heartbeat, idle process, restart | `WorkerLoop` |
| snapshots and approvals (`packages/reporting/src/snapshot`, `packages/approvals`) | current snapshot, approval and withdrawal of each module | create, approve, invalidate, withdraw, reopen | edits and withdrawals that cross | `Approvals` |
| delivery (`packages/delivery`) | package record, outbox record, audit log | confirm, send, cancel, retry, provider callback | concurrent sends, status stale after an await, lost answers | `Delivery` |
| evidence sync (`packages/storage`) | upload intents, objects, durable rows, capture index | issue, upload, finalize, commit | racing uploads, retakes, lost calls | `EvidenceSync` |
| content pipeline (`content-pipeline.ts`, `evidence-handlers.ts`, `reconciliation.ts`) | assessments, proxies | process, reject, accept, reconcile | lease lost between awaits, two stores in one commit | `EvidencePipeline` |
| mobile capture (`apps/mobile/src/capture`, `storage`, the native module) | SQLite ledger, capture directory, quarantine | capture, native persist, startup recovery | kill and power loss between file system and ledger | `Capture` |
| field workflow (`apps/mobile/App.tsx`, `investigations`, `review`, `storage/field-workflow.ts`) | field session, investigation aggregate, review workflow, queue of writes | start, pause, finish, change area, link evidence, edit, accept, approve, confirm | handlers that interleave at awaits with stale closures, kill between two stores | `FieldWork` |
| coverage and packets (`packages/domain/src/inspection`) | coverage ledger, frozen packet | close out an area, load, save, freeze | two screens on one ledger | `Coverage` |
| booking (`packages/booking`, `packages/agreements`) | booking, payment, access, reminders; slot book | accept, pay, activate, reschedule, cancel; hold, confirm, release | late and repeated events and commands, double booking | `Booking`, `SlotBook` |
| booking edges (`apps/web/app/api/webhooks`, `packages/providers`, rate limiter) | observations by key, event receipts, counts | execute, reconcile, receive | lost and unknown answers, reordered events | `Boundaries` |
| booking pages (`apps/web/app/(booking)`) | step and readiness of a form | every control | going back after later steps | `BookingPages` |
| recipient access (`packages/recipient-access`) | codes, grants, invitations, withdrawals | verify, grant, invite, accept, revoke, serve | revocation racing a request | `RecipientAccess` |
| recipient portal (`apps/web/app/(reports)`, `(auth)`) | event log, lock file, session cookie | claim, verify, read, download, share, contact, sign out | several processes on one file, lost remote answers | `RecipientPortal` |
| professional record (`packages/domain/src/transitions.ts`) | modules, package, grant, lifecycle | approve, amend, withdraw, risk, confirm | callers with stale copies | `ModuleLifecycle` |
| event history (`events.ts`, `upcasters.ts`, `replay.ts`) | hash-chained log, checkpoints | append, verify, upcast, replay | a store that damages lines | `EventHistory` |
| drafting agent (`packages/agent`, `packages/providers/openai`) | draft record, run identity | run, generate, guard, verify, mark stale | overlapping attempts, a packet superseded meanwhile | `DraftRunner` |
| SQL (`supabase/migrations`) | the persistent counterparts | functions and triggers | locking and constraints | planned |
| rendering, mobile sync policy, config, contracts, theme, observability, scripts | none of their own, or no caller | formatting, schemas, tooling | none for a model checker | not modelled |

How the parts interact. The phone's capture makes an original durable locally.
Sync uploads it as an object, and finalize commits a durable row together with
a content task in the queue. A worker leases the task and runs the content
handler, which stores a proxy and records one assessment. Snapshots of report
modules are approved one by one. Delivery freezes the approved set into an
outbox record and sends it once, rechecking cancellation and withdrawal after
every await. All of this is cut in the models at the code's `await`s and
transaction boundaries: what lies between two of them is one action.

Around this path: a booking is made on the web pages, paid through webhooks and
kept in step with a calendar provider. On the phone the field workflow decides
which investigation a capture belongs to, and coverage says which areas were
seen. A packet frozen from both is what the drafting agent works on; its drafts
come back as review items. A delivered version is read through grants, which
the portal hands out and the recipient shares. At this commit no code connects
booking, domain record, agent and portal with each other, so they are separate
modules here too.

## 2. Modules and how they correspond to the code

`TaskQueue` has one variable, `tasks`, the `#tasks` map. Each public method is
one action, a call that returns false or throws is a disabled action. Whoever
was ever granted a lease may present it at any later time, which gives every
late, duplicated and reordered worker call. Time is kept relative to now
(`leaseLeft`, `availableIn`), so it is unbounded while the state space is
finite. `lease` sorts its candidates; the model lets it pick any of them, so
nothing here depends on the order. The cascade of
`reconcileBlockedDependencies` is a set that satisfies the fixed point the loop
over the Map computes in insertion order.

`TaskContract` is the abstract promise: a task is accepted once, granted at
most its limit of times, done at most once and void for good. `TaskQueue`
implements it (`ImplementsContract`).

`WorkerLoop` extends the queue with processes. `Poll` to `Restart` are the
steps of `runWorkerCycle` and `runPersistentWorkerLoop`; whatever they do to
the queue is a call of `TaskQueue`. `KeptAlive` names the processes that hold a
handle other than the unref'd idle timer; the others may end when idle.
Several processes stand for the durable queue the worker is written for; with
the in-memory queue there is one.

`Approvals` holds the snapshot store and the approval service. Commands carry
the revision their sender saw and are refused unless it is current, so the
actions say what remains: a command with the current revision may arrive at
any time. `edited` and `withdrawnEver` are history variables.

`Delivery` extends it with one package, its outbox record and `send` calls cut
at the boundary hook, the egress guard and the provider. `acts`, `lastCall` and
`sentEvent` record what the provider did and what the audit log holds. Two
assumptions about the outside: the status port reports withdrawals as soon as
the approval service has them, and a provider that answers failed or rejected
did not act.

`EvidenceSync` models `issueUploadIntent`, `upload` (head, put, observe),
`finalize` and `commitVerifiedDurability`; content stands for the bytes and
their hash. `EvidencePipeline` composes it with `WorkerLoop`: `Commit` calls the
queue, `process` is cut at its awaits, and `reconcileEvidence` is the operator
the reconciliation computes. Workers are shut down and idle processes end there
too (`Shutdown`, `Leaves`).

`Capture` models `capture()`, the native `persistCapture` (Kotlin and Swift
agree on the steps), the ledger's transactions and the startup recovery. A
kill keeps the files, a power loss may undo any directory entry that was not
synced, and a file may be damaged once while the app is down. The ledger's
acknowledgement receipt and its overlay at `hydrate` are modelled as they are.

`FieldWork` has one record per handler in flight (`doing`), what it captured
when its button was pressed, and where it waits. `sess` and `wf` are the refs
of `App.tsx`, `stored` is the ledger row, `inv` the stored investigations and
`writes` the promise chain `saveSession` appends to. Investigations are saved
with `compareAndSet`. A render is taken to be immediate, so a screen shows the
current refs; device authorization is left out.

`Booking` applies a command only at the revision its sender read (`SlotBook`
models that protocol with late and repeated commands), while payment callbacks
carry no revision and come in any order. `Boundaries` models the provider port
and the two webhook routes, and `BookingPages` the React state of the pages: the
guard of an action is the condition under which its control is shown.

`RecipientAccess` models the service of the package; `reading` holds requests
between the two checks of `withAuthorisedRequest`. `RecipientPortal` models the
web routes over an event log, with the fixture's lock file and processes that
die, or the remote authority whose answers are lost.

`ModuleLifecycle` models the transition functions, applied by callers to the
copies they hold. `EventHistory` abstracts a hash by the versions and bodies it
is the hash of, so that the chain can be checked against damage of any stored
line. A writer chains its event to whatever line it is given: the last one, an
earlier one from a stale copy, or what is last after a loss; a v1 event is only
made after a v1 event (`createEventEnvelope` parses its predecessor), so a v0
history grows by v0 events alone. `Coverage` models the ledger under
compare-and-set. `DraftRunner` models attempts of a run cut at the awaits of
runner and repository. A clause has what it says and cites, its numbers, whether
it asserts an absence and its material tokens; a source has numbers, words and
perhaps a word of absence or doubt. The verifier's rule is the code's: all
numbers, any such word in what is cited, all of up to three tokens and 55 % of
more.

Some properties are conjunctions of named parts (`TasksAreSound`,
`LeasesAreExclusive`, `RecordsAreLiteral`, `PipelineIsSound`,
`AcknowledgedIsKept`, `RestartIsClean`, `HistoryIsWhole`, `DraftIsGrounded`);
each part states one idea and has its own comment.

The operators described as mutants are not part of any specification: each is a
plausible bug that a property must detect, and `PROJECT.json` names the property.

## 3. Runs, bounds and what they show

| run | bounds | shows |
|---|---|---|
| `sync_queue` | 3 tasks in a chain, 2 revisions of a packet, 1 or 2 attempts, one-tick leases; 3 intents over 2 artifacts, 2 captures, 2 contents | type, leases, budgets, dependencies, results and checkpoints fit together; refinement of the contract; exactness and permanence of durable rows |
| `worker_loop` | 2 workers, 2 dependent tasks of which one has a handler, one worker kept alive | exclusive leases, no starvation, shutdown |
| `idle_worker` | the same, no process kept alive | **violation**: a worker that finds no task ends though nobody shut it down |
| `delivery` | 2 modules, 2 snapshots each, 2 senders | exact approvals, at most one copy, one owner of a send, literal records, termination |
| `approvals_withdrawal` | the same modules and snapshots | **violation**: a withdrawn snapshot is approved again |
| `evidence_pipeline` | 1 artifact whose intent may upload and finalize again and again, 2 workers of which one is kept alive, either may be shut down, 3 attempts | one task per row, fenced assessments, clean reconciliation; settlement provided a worker that is kept alive is never shut down |
| `job` | 2 slots, 2 links, 1 reschedule, 2 checkouts, 3 callbacks; 2 bookings on 2 slots with 3 commands; 2 call keys, 2 events; 2 symmetric captures; 2 handlers in flight, 4 presses, 2 areas, 1 mishap (kill or failing write) | booking: cancellation is final, nothing of an old slot counts, promises about slots are kept, repeated calls agree, no step of the form is skipped; phone: acknowledged evidence is whole and survives, links, sequence numbers, decisions, pointers and approvals survive interleaving and restart |
| `field_manifest` | the field workflow alone, same bounds | **violation**: a confirmed package names a version that is no longer accepted |
| `recipient` | 2 mailboxes, 2 modules, 2 grants, 1 invitation; 2 server processes, 4 log lines, 1 loss | sharing narrows, nothing after revocation or sign-out, every token is used once |
| `domain` | 2 modules, 2 callers, 4 revisions; 3 events of 4 kinds with 2 damages; 2 screens, 3 entries; 2 attempts, 2 packet revisions, 4 clauses of up to five tokens | the record explains itself, stale commands fail, histories are whole, coverage speaks once, drafts are grounded and never judged late |
| `drafting_stale` | the same | **violation**: a stale draft becomes verified again |
| `package_stale` | the same | **violation**: a package is confirmed from stale module states |

`sync_queue`, `job`, `recipient` and `domain` each check several components in
one run. A variable `part` chooses at the start which of them moves; the code
connects none of them but sync and queue, which `EvidencePipeline` joins, and
capture and field workflow, where `FieldWork` takes the outcome of a capture as
saved or failed, whichever `Capture` allows. Symmetry is
used for handlers, captures, callers, screens, attempts and processes, which
no operator tells apart, and never together with a liveness property.

Why the bounds are enough to be interesting. Two attempts let an expired lease
meet its successor, a chain of three tasks lets a cancellation cascade through
a middle task, two senders and two snapshots let a stale answer meet a newer
state, three callbacks let a success be repeated and another come late, three
intents let a third upload arrive after a race between two. The captures of one device do not share files; two of them share the directory
sync, the scan and the recovery loop. Two handlers and four presses let an edit
be in flight while an item is accepted, approved and confirmed. Two bookings
and a clock of two ticks let a hold run out, be resold and be confirmed late.
Two attempts and two packet revisions let one attempt mark as stale what the
other is about to write. Every bound is a constant of its module and a conjunct
of the guards: `MaxSnapshot`, `MaxPresses`, `MaxMishaps`, `MaxCallbacks`,
`MaxReschedules`, `MaxAttempts`, `MaxSent`, `MaxClock`, `MaxGrants`, `MaxLog`,
`MaxLost`, `MaxTime`, `MaxMinutes`, `MaxReading`, `MaxOwnerGrants`,
`MaxRevision`, `MaxHolds`, `MaxEvents`, `MaxDamage`, `MaxEntries`;
attempts of a task are bounded by `maxAttempts`. `KeptAlive`, `Requests`,
`Revisions`, `RetryDelays`, `Bodies`, `Texts` and `Proxies` are inputs,
enumerated in the MC modules.

Fairness. `WSpec` assumes that time passes, that the event loop runs what is
due, that handlers end and that the supervisor restarts a failed process.
`fly.toml` restarts on failure up to ten times, more often than the attempts of
the instance can make a worker fail. No fairness is assumed of clients,
heartbeats, crashes or shutdown. `DSpec` assumes that a promise under way
settles. `PSpec` assumes the clock, polling and the handler's steps, and
`OriginalsSettle` says itself what the code does not provide: one worker that
is kept alive and never shut down. The other specifications state safety only.
Deadlock is checked for queue, workers, delivery, sync and pipeline, which never
stop; the job, recipient and domain runs end where their counters do.

## 4. Proofs

`TaskQueueProofs` proves, for all constants that satisfy `QueueAssumption`
(valid requests, a positive lease time, distinct markers), that `Spec` implies
`TypeOK`, `LeaseIffRunning`, `AttemptBudget`, `StartedAfterDependencies`,
`ResultOfLastLease` (together `TasksAreSound`), `FencedCheckpoints` and
`SettledForever`.

The properties are not inductive one by one. `StartedAfterDependencies` needs
that a success is final but for supersession, `ResultOfLastLease` needs the
token to equal the generation while running, the budget needs that a waiting
task has an attempt left. The inductive invariant `QInv` says of each record
(`TaskOK`) that token, generation, attempts, result, checkpoints and state fit
together, and of each pair that a started task's dependencies have succeeded or
were superseded. The argument has two levels. `TaskStep` describes what any
action may do to one record, with `SweepStep` for the sweeps, and one lemma
shows that such a step preserves `TaskOK`. `QStep` lifts it to the map: at most
one task is granted, and only with its dependencies succeeded. One lemma per
action shows that the action is a `QStep`. The two action properties follow
from the same lemmas.

The same module proves `ImplementsContract`: with the states grouped into
phases, the generation as fencing number and `maxAttempts` as limit, every
action is a step of `TaskContract` or changes nothing it sees. Each action's
effect on phase, generation and limit of one record is worked out first; a
sweep may do this to many records, and only `LeaseTask` adds a grant. `QInv` is
needed where the budget is: a release needs an attempt left, and the contract
counts grants where the code counts attempts.

`WorkerProofs` builds on it. `WorkInv` is `QInv`, `LeasesAreExclusive` and
`GrantOk`: what a worker in its handler presents was granted to it. The step
that matters is that a lease that ran out is never valid again (`LostIsLost`),
because every way back to running raises the generation. It gives
`LeasesAreExclusive`, and as every step of a worker is one of the queue
(`QueueUnderWorkers`) also `TasksAreSound` and `SettledForever` of the queue as
the workers use it.

`EvidenceProofs` first treats `EvidenceSync` alone: `STypeOK`, `DurableIsExact`
and `CaptureKeepsArtifact`. The invariant `SyncInv` adds what `finalize` relies
on between its observation and its commit: the bytes it verified are still
stored, because no later put replaces an object. Then the pipeline: every step
is a step of sync, of the workers or of the handler (`StepsOfTheParts`), so both
earlier invariants hold in it, and `PipeInv` adds for each worker what its
handler has seen of the original whose lease it holds (`HandlerOk`) and for each
original that an acceptance has its proxy and a success its assessment
(`AssessedOk`). It gives `PipelineIsSound`.

`DeliveryProofs` proves `DTypeOK`, `ApprovalIsExact`, `AtMostOneEffect`,
`SendingHasOwner`, `LiteralOutcome`, `OutboxFollows`, `FrozenSetIsWhole` and
`CallsAreCleared` (together `RecordsAreLiteral`), for any number of concurrent
`send()` calls. `ApprovalInv` adds that no approval is ahead of its snapshot.
`SendInv` adds that at most one call is active (`OneActive`), that an active
call has its outbox record and caused every effect there is (`SenderOK`), and
that a package which may still be sent has had none (`EffectOK`).

`MobileProofs` treats the phone. For `Capture` it proves `AcknowledgedIsKept`
and `RestartIsClean`, for any number of captures in any state. `CaptureInv`
states for each capture what its row, its two files, its native call, the plan
of recovery and what was told of it know of each other (`CaptureOK`): most of
it is about the moments between file system and ledger, for instance that a
native call that is done has published its source under a synced name, and that
until recovery has settled a row its file is as the scan saw it. For
`FieldWork` it proves `NothingLinkedIsLost`, `SequencesAreUnique`,
`ReportedIsDurable`, `NoGhostInvestigation` and `ApprovedIsAccepted`, for any
number of handlers in flight and any number of presses. None of the five is
inductive. `FieldInv` needs the queue of writes (`QueueOK`: its sequence numbers
rise, each entry has its own waiting handler, and each points to an
investigation if its status says so), what every handler holds across its
awaits (`HandlerOK`; `Checked`: a snapshot that was loaded is the stored one or
has an older revision), and which numbers are reserved, used and stored
(`SequencesOK`). One lemma per action shows that it is a `HandlerStep` or, for
the head of the queue, a `WriteStep`, and one lemma each shows that such a step
keeps `FieldInv`.

`BookingProofs` proves `PromisesKept` (`SlotInv`: a command carries an instant
that has passed, and the book keeps a hold at least as long as promised),
`NothingOfAnOldSlot` and `CancellationIsFinal` (`BookingInv`: a booking that is
being cancelled is never paid again, and links and reminders are of the slot and
generation there is), `AnswersAgree` (`ProviderInv` and `HookInv`: every answer
was made from the one stored record of its key or event) and `StepIsEarned`.

`RecipientProofs` proves `SharingOnlyNarrows`, that lineages are one step long,
and `NothingServedAfterRevocation` (`RecipientInv`: a waiting invitation is
within the terms of its inviter's grant, terms never change, a redeemed
invitation gave one grant), and `OneUseEach` and `SignedOutStaysOut` of the
portal (`PortalInv`: whoever is in the locked section is alone there, and has seen the
whole log when it appends).

`DomainProofs` proves `RecordExplainsItself` and `StaleCommandsFail`
(`RecordInv`: what a caller has read is an earlier state of the record, and the
same state if the revision is the same), `DraftIsGrounded` and `NoLateVerdict`
(`DraftInv`: what an attempt holds is bound to its packet at each of its
awaits), `CoverageSpeaksOnce` (`CoverInv`: a screen whose revision is current
holds the ledger itself) and `HistoryIsWhole`. For `DraftIsGrounded` the texts
a verdict was made from are the texts of cited sources of the packet
(`TextsAreCited`, `TermsAreFound`). `HistoryIsWhole` needs inductions over the
length of a history. They are made without the induction theorems, as arguments
about a least counterexample (`LeastOf`, from the well-foundedness of the
naturals): the invariant says only that every hash a line or checkpoint was
given is one that a writer made, and the chain of a store that verifies is then
compared with that hash from the first line on.

Assumptions. Each theorem rests on its module's named assumption about the
constants (`QueueAssumption`, `WorkerAssumption`, `SyncAssumption`,
`PipelineAssumption`, `ApprovalAssumption`, `FieldAssumption`, `BookingAssumption`,
`SlotBookAssumption`, `BoundariesAssumption`, `RecipientAssumption`,
`PortalAssumption`, `LifecycleAssumption`, `PacketAssumption`, `TextsAssumption`,
`CoverageAssumption`, `HistoryAssumption`), which TLC evaluates in the runs: the
bounds are naturals, the requests are valid, and identifiers of different kinds
differ (a payment link is no reminder, a fingerprint or invitation is not the
word that stands for none, an event id is no access token).

Only model-checked: the liveness properties `NoTaskStarves`,
`ShutdownCompletes`, `SendEnds` and `OriginalsSettle`, which fairness and
`ENABLED` put out of the prover's reach, and of course the properties that the
violation runs refute.

## 5. What the checks found

Five statements of the repository are checked as runs that TLC refutes:

- the withdrawn module that needs a new snapshot (`approvals_withdrawal`);
- the package that references exact current snapshots, once on the phone
  (`field_manifest`) and once in the domain's `confirmDeliveryPackage`, which
  expects no revision of the module states it is given (`package_stale`);
- the stale draft that cannot become reviewable (`drafting_stale`);
- the worker that polls until graceful shutdown (`idle_worker`): its idle timer
  is unref'd, and an exit that is no failure is not restarted (`fly.toml`).

`PROJECT.json` quotes each with its lines. Three more are stated in the modules
and are false as well; to see it, give TLC the configuration named with the
property as its only one:

- `SentIsFinal` (`Delivery`, `MCDelivery.cfg`): a later confirm with a new key
  puts a sent package back to waiting (`delivery-service.ts` lines 111-150).
- `NoStaleSend` (`Delivery`, `MCDelivery.cfg`): a queued package is sent although
  the approval was replaced since (`worker.ts` lines 396-423), against
  `docs/runbooks/queue-reconciliation.md` line 23.
- `DiscardedHasNoResidue` (`Capture`, `MCJob.cfg`): an intent whose residue
  was quarantined at one start is recorded as `no_file_residue` at the next
  (`reconciliation.ts` line 193).

A fourth is a comment. `semantic-entailment.ts` lines 22-28 say that the verifier
proves that material words are anchored in the cited sources; of a clause with
more than three material tokens it asks for 55 % of them (line 177), and any word
of absence or doubt in a cited source answers for any absence in the clause
(lines 157-166). `VerdictIsExact` states what verified does mean.

What the properties do not catch, so that nobody relies on it: that one sweep of
the queue suffices in whatever order the Map is walked (the model's cascade is a
fixed point); an approval replaced since it was frozen into an outbox (`NoStaleSend`); an
access link that is used after a cancellation; an agreement that stays ticked
when the scope changes; lines lost from the end of an event history, after which
newly written events verify as well.

Two things hold only by a thread and are worth knowing. `activateBooking` does
not look at the lifecycle: `CancellationIsFinal` rests on payment never becoming
paid after a cancellation was requested. And a record of the drafting agent can
say verified while its deterministic check is recorded as not done, when
attempts overlap; its verdict is still of exactly that draft, because the
verifier runs the same guard again.

## 6. Not modelled

Event logs, formatting, wording, names and hashes as such; the byte checks of
the decoder (any original may pass or be rejected); a torn reconciliation scan;
handler timeouts, which the code does not have; signatures and schemas of
requests beyond valid and invalid; the agent's skill registry, live evaluator,
transcription and evaluation harness; measurements and transcripts of an
investigation; prices. `applyQueueEvent`, `canDeleteLocalOriginal` and the sync
policy of the phone have no caller at this commit. The scripts under `scripts`
(release, submission and milestone validation) check files once and keep no
state. Of the SQL in `supabase/migrations` only the recipient commands and the
rate limit are called by the applications at this commit; `RecipientPortal` and
`Boundaries` model them as single remote transactions.

## 7. Plan

1. Done: `TaskContract`, `TaskQueue`, `WorkerLoop`, `Approvals`, `Delivery`,
   `EvidenceSync`, `EvidencePipeline`, `Capture`; the proofs of section 4.
2. Done: `Booking`, `SlotBook`, `Boundaries`, `BookingPages`, `RecipientAccess`,
   `RecipientPortal`, `ModuleLifecycle`, `EventHistory`, `FieldWork`, `Coverage`,
   `DraftRunner`.
3. Done: the proofs of every invariant and action property that a passing run
   checks (section 4).
4. `SqlQueue`: the migration's queue functions shown to implement
   `TaskContract` as well.
