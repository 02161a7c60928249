# A TLA+ model of python-hwpx-automation

The repository edits HWPX documents for agents. Much of it is sequential: a plan
goes in, a changed XML package comes out. What is hard to test is the part that
keeps promises across processes, crashes and other programs: the **workflow
service** (an allowlisted, ledger-backed execution of one work order), the
**durable render queue**, the **daemons** that render what is queued on a desktop
application, the guarded **publication** of a file, the **backups** and the undo
around it, the **batches** that publish an output and take it back, and the **edit
requests** of clients that time out and send again. Of the document processing
itself, the **structural commands** of a batch are modelled, where a long
sequence of legal calls can make an illegal document. The models are checked with
TLC, and the safety properties of all of them are proved with TLAPS, those of the
structural commands but for the order and the places of nodes.

Paths below are relative to the repository; `W/` is
`src/hwpx_automation/workflow/`, `B/` is `src/hwpx_automation/`.

## Inventory

### Components, their state and their operations

**Durable render queue** (`W/render_queue.py`). One SQLite file: table
`render_jobs` (state, attempt, worker, lease deadline, cancel flag, receipt
JSON, terminal time) and a content-addressed directory of documents. Operations:
`submit`, `claim` (which first recovers expired leases), `keepalive`,
`complete`, `fail`, `cancel`, `get`, `purge`. Every method is one
`BEGIN IMMEDIATE` transaction, but `submit` and `purge` also touch the directory
outside of theirs. Callers are clients (submit, cancel, get) and daemons (claim
... fail). Hard: leases that run out while the worker goes on, workers of one
name, a cancel at any moment, the content store next to the table. Correct
when: one owner per job, bounded attempts, a receipt that tells the truth, a
cancel that sticks, every job ends, the document is there.

**Render daemon** (`scripts/hancom_render_worker.py`,
`B/office/rendering/worker.py`). State: the lease, a session, at most one
renderer thread, and the *poisoned* thread that ignored an abort. Operations:
`run_queue_once` (claim, render, keepalive, complete or fail) around
`SerializedHancomWorker.render` (poll every 0.1 s with a keepalive, watchdog,
abort, grace, rasterise). Interacts with the queue by calls, with the renderer by
a thread it cannot kill, with other daemons only through the queue and the
desktop lock. Hard: time passes between any two calls. Correct when: renderers
of one desktop exclude each other, a daemon never runs two, success means the
render of this attempt, every lease is given up.

**Desktop session lock** (`B/office/rendering/mac_session.py`). A mutex and a
thread-local per process and an `flock` per user around each render on macOS; on
Windows a no-op. One thread may enter nested; a process may be forked inside, and
then shares the parent's open file. Hard: the lock belongs to an open file and not
to who opened it, and a child inherits the parent's bookkeeping. Correct when: one
thread of all processes is inside, and a thread that is inside does not wait for
itself.

**Workflow store and state machine** (`W/store.py`, `W/state_machine.py`,
`W/models.py`). State: the record (state, version), an append-only ledger with
unique event keys, and expiring encrypted tool results. Operations: `create`,
`get`, `transition` (expected state and version), `append_event` (a known key
answers before the version is compared), `put_action_result`,
`get_action_result`, purge of expired results. Correct when: the table of
transitions is respected, a key never changes its payload.

**Dispatcher and policy** (`W/dispatcher.py`, `W/policy.py`). No state of their
own: `dispatch_durable` brackets a tool call by started, completed and failed
receipts; `authorize_action` checks state, budgets, revisions and the decision.
Hard: a client that dies in the tool, a second client, a record read before it
is used.

**Workflow service and adapters** (`W/service.py`, `W/adapters.py`). `start`,
`continue_workflow`, `resume`, `approve_decision`, `cancel`. Each request builds
its own service on the shared file, so two requests share nothing but the store.
Correct when: a destructive tool runs only under an approval, once; completion
rests on every mandatory check; an ended workflow is left alone.

**Render client and transport** (`W/rendering.py`, `W/render_transport.py`),
**contracts and security policy** (`W/render_contracts.py`,
`W/render_security.py`, `W/render_metrics.py`): what the service sees of the
queue, and pure checks.

**Workspace publication** (`B/workspace.py`). State: the entry at a name, and
`.tmp`, `.restore` and `.remove` names next to it. Operations: `capture_output`
(the guard), `atomic_publish_bytes`, `remove_output`. With `renameat2` or
`renameatx_np` the candidate is *exchanged* with what is at the name and what came
out is compared with the guard; without, the guard is compared and then
`os.replace` is called. Hard: another program writes between any two of these
system calls, and each may fail, those of the rollback too. Correct when: the
version that was captured is the only one ever replaced for good, a failure that is
rolled back leaves no candidate and no residue, a reader always finds a whole file.

**Save policy, backups, undo** (`B/ops_services/save_policy.py`,
`B/core/transactions.py`, `B/ops_services/transactions.py`, `B/storage.py`).
State: the document, `.bak`, `.bak.1` ..., and `.recovery` sidecars. Operations:
`byte_preserving_patch` and `undo_last_edit` on guarded generations, the plain
saves that rotate by name. Correct when: no version is lost by one fault, a call
is all or nothing, no other program's file is trampled.

**Agent batch and mixed form** (`B/office/agent/_batch_publication.py`,
`B/office/agent/commands.py`, `B/handlers/agent_document.py`, `B/mixed_form.py`,
`B/office/agent/form_plan.py`). State: source, output, an idempotency store, a
preimage sidecar. A request reads the source, edits in memory, verifies, publishes
the output under a guard, looks again at both files and withdraws what it
published when either changed. The mixed-form adapters wrap this once more.
Correct when: `rolledBack` and `ok` are true of the files, a key stands for a
success, the replaced document survives.

**Edit requests** (`B/handlers/_shared.py`, `B/handlers/content_edit.py`,
`B/document_state.py`, `B/fastmcp_adapter.py`, `B/execution_lock.py`). State: an
in-memory cache of answers by idempotency key, the document. One call at a time
under `PUBLIC_MUTATION_LOCK`: replay, compare the expected revision, open, edit,
save, record. Correct when: an edit sent twice is made once, an acknowledged edit
stays, nothing but a racing external edit is lost.

**Agent document commands** (`B/office/agent/commands.py`,
`B/office/agent/document.py`). State: the XML tree of a section. `add`, `remove`,
`move`, `copy`, each followed by a new projection of the tree. Correct when: nodes
land where they were asked to, nothing else moves, layout caches, row addresses,
identities and the controls of notes agree with the content.

**Everything else** (what an edit does to text and styles, authoring, charts,
exams, compliance, tool contracts, capabilities, lineage): functions from values
to values or static tables, without a state that outlives a call. Left out.

`PROJECT.json` lists every component with its status, and under `hazards` the
places where the code is hard to test, with the property that watches each.

## Modules

| module | models | composed of |
| --- | --- | --- |
| `RenderJobLifecycle` | what a client is promised about one job (abstract) | |
| `RenderQueue` | the queue, its content store, the holders of leases | INSTANCE `RenderJobLifecycle` |
| `RenderWorker` | daemons, renderer threads, the desktop | EXTENDS `RenderQueue` |
| `RenderProofs` | theorems about the queue and the daemons | `RenderWorker`, TLAPS |
| `DesktopLock` | the lock around each render: threads, processes, forks | |
| `DesktopLockProofs` | theorems about the lock | `DesktopLock`, TLAPS |
| `WorkflowStore` | record, ledger, results of one workflow | |
| `WorkflowDispatcher` | `dispatch_durable` and `authorize_action` by several processes | EXTENDS `WorkflowStore` |
| `WorkflowService` | the calls of the service, adapters, the render job | EXTENDS `WorkflowDispatcher` |
| `WorkflowProofs` | theorems about the workflow, its attempts and how they end | `WorkflowService`, TLAPS |
| `GuardedRegister` | what guarded publication promises: compare-and-swap of one file (abstract) | |
| `GuardedFile` | `capture_output`, `atomic_publish_bytes`, `remove_output`, one system call or check per action | INSTANCE `GuardedRegister` |
| `GuardedFileProofs` | theorems about the publication | `GuardedFile`, TLAPS |
| `Backups` | a document and its generations under patches, undos and plain saves | guarded steps as `GuardedRegister` promises them |
| `BackupsProofs` | theorems about the backups | `Backups`, TLAPS |
| `BatchApply` | agent batch, mixed-form plan and specialised form operation | guarded steps as `GuardedRegister` promises them |
| `BatchApplyProofs` | theorems about the batches | `BatchApply`, TLAPS |
| `EditRequests` | the protocol of an edit between clients, cache, lock and document | |
| `EditRequestsProofs` | theorems about the edit requests | `EditRequests`, TLAPS |
| `AgentCommands` | the structural commands on the tree of a section | |
| `AgentCommandsProofs` | theorems about the commands | `AgentCommands`, TLAPS |
| `MC...` | small instances of each | |

Operators under a comment that begins with *Bug:* are mutants: each is a
plausible mistake in the definition it stands before. No model uses them; they
serve to show that a property can fail.

### RenderQueue

`row` is the table, by job id; `older` is the order of `created_at`, which a
submission reads before its transaction: two of them may be inserted against it;
`blobs` the content directory; `lease` what each worker process holds; `pending`,
`purging` and `unlinking` are the calls of `submit` and `purge` that are between
their transaction and the file system. `overlapped` and `raced` are history: the
submissions in flight while purge was between its look and its unlink, and the jobs
that came of them. Times are kept relative (`ttl` is
`lease_expires_at - now`, `age` is `now - terminal_at`) and saturate, so the
state space is finite without a bound on time. `ttl` distinguishes the three
cases the code does: `keepalive` refuses at `<= now`, recovery takes only
`< now`, and `complete` and `fail` do not look at the deadline at all.

Actions: `PutContent`/`InsertRow`/`SubmitDies` (submit), `Cancel`, `Claim` (all
of it: recovery of every row, then the oldest row is started, or buried when it
was cancelled), `KeepAlive`, `Complete`, `Fail`, `Abandon` (the process dies or
returns with a lost lease), `PurgeRows`/`PurgeLook`/`PurgeUnlink`/`PurgeDies`,
`Tick`.

### RenderWorker

`step` is where the main thread of a daemon is, `thread` its renderer thread and
the lease it was started for, `verdict` the failure it will report, `poisoned`
whether `_poisoned_thread` is set. The actions follow `_render_locked` and
`run_queue_once` line by line; every action that calls the queue conjoins the
queue's action, so the cancel flag and the lease are what the queue says at that
moment and not before. `Enters` is the attempt to take the desktop lock
(one atomic step here; `DesktopLock` has its parts),
`RenderEnds` any outcome of the renderer. A daemon can be killed in any step
(`Crash`) and is restarted by the service manager.

Modelled as the code has it, though it may surprise: a renderer that meets a
busy desktop reports a reason, and any reason is final (`Blame`); `queue.fail`
for a lease that was lost unnoticed raises out of `main` (`Reports`,
`Acknowledges`); a poisoned renderer makes every further job of its daemon fail
at once, retryably (`StillRunning`).

### DesktopLock

`pc` is where each thread is in `hancom_desktop_lock`, `depth` the levels it has
entered itself and `outer` the one of them that took the flock; `held` and `copied`
are `local.held` of the process's own thread-local and of the one it was forked
with; `stage` says whether the process has replaced what it inherited; `flock` is
the open file that has the lock, `fds` the processes with a descriptor of each open
file, `past` the files of levels a child was forked in. Actions: `Notices`,
`Replaces`, `CallsHalfway` (`_desktop_thread_state`, which is two assignments),
`Calls`, `Acquires`, `Locks`, `Refused`, `Leaves`, `Releases`, `Unwinds` (a child
leaves its parent's level), and from outside `Fork`, `Starts`, `Ends`.

### WorkflowStore, WorkflowDispatcher, WorkflowService

One workflow. `state`/`version`, `ledger` (a set of receipts: the code asks which
there are), `results` and `expired` are the store; `call` holds, for every process,
the call it is in, with the record that call has read; `runs` counts how often the
tool of an action was entered; `output` is what is at the output path; `order`
is the work order and stands for the adapter; `render` the status of the one
render job. A call is split at every store transaction; it passes on the record
it read, and the transaction compares it. `Stops` ends a call anywhere: the
process died, or the store raised. What a tool says is `good`, `vague` (no
explicit verdict) or `bad`: the adapters differ exactly in which of these pass.

### GuardedRegister, GuardedFile

A file is an inode (`Inode(kind, by)`) with a content (`data`), named by its author;
`target`, `temp` and `spare` are what is at the published name and at each call's
side names; `guard` is what each call captured (inode and content, or nothing). An
action is one system call or one check, `pc` the place in the code; the branches of
`atomic_publish_bytes` after a failed comparison, of its rollback (`Doubt`,
`Withdraw`, `Recheck...`) and of `remove_output` with its sentinel directory are
there, and so are the failures of the steps that put something back or away:
`SwapBackFails`, `RollbackFails` (opening, writing and syncing `.restore`, its
exchange, the unlinks), `Misread`, `UnswapLeaves`, `CleanupFails` and
`PutBackFails`; `broken` remembers which kind has failed in a call. An external
writer replaces the file or rewrites it in place between any two of them; every
check may fail, a process may die anywhere. `cas` says whether the host exchanges
names. `KeepsPromise` maps this to `GuardedRegister`: the register's content is what
is at the name, `taken` is what a call has exchanged out and not judged yet, the
outcome of a call is a function of its `pc`. So the register also says what is *not*
promised: `PutBack` and `Unrestore` put a version back over whatever is at the name
by then.

The promise is made for calls that run one at a time (`Serialised`), as
`PUBLIC_MUTATION_LOCK` has it within one server. Two server processes on one
document are outside of it: their rollbacks can meet.

### Backups

`slot` is the document (0), `.bak` (1) and the numbered generations; `recov` the
recovery sidecars; `pre` what the call captured. Entries carry the call that
published them, because guards tell a file from one with the same bytes. `patch`
captures all slots, preserves them in recoveries, writes oldest first, reads back,
rechecks, and restores in reverse after a fault; `undo` exchanges two; `edit` and
`tool` rotate by name and copy into `.bak` in place. `trouble` counts the faults, the
crash and the external writes of a call.

### BatchApply

`file` is the source and the output, `before`, `base` and `seen` the snapshots of
adapter and executor, `token` the entry published, `store` the idempotency entry per
kind of request. What an edit does is to add its call to `by` of a value: so a
version tells what it was made from. `Validate` and `Judge` are the gates
(verification, preservation reports), each of which may refuse.

### EditRequests

`doc` is the sequence of the edits made, which is also its revision; `inbox` the
requests that wait for the lock (a client that gives up waiting sends again while
its first request still runs); `cache` the recorded answers, oldest first, and
`forgotten` the clients whose edit was published and has no record any more. The
revision is compared on one read, the document opened by a second and the guard of
the save taken by a third, as in the code.

### AgentCommands

The tree is a sequence of child lists (`kids`), indexed by nodes in the order of
their making; `kind`, `id`, `shape` and `addr` run along. Commands name nodes of
the current tree: a reference is resolved in the view projected after the command
before. `Siblings` is the projection's list of one kind in one parent, which for
inline objects reaches through runs and controls (`Content`). A refused command is
not enabled. A merge over rows is a row that *spans* followed by one that is
*covered*. `IsDocument` says what a batch may find: a tree (`IsTree`: no node held
twice, none by what is below it) all of whose nodes are in the tree, where every
element is held by one that may hold it (`Holders`), controls are not empty, and a
covered row follows one that spans it. `Below` is the walk in document order, a
recursive function that opens one node after the other (`Visit`). The library's
own additions (`add_paragraph`, `add_run`, `add_table`) are an append, as the
callers rely on.

## Runs

| run | instance | shows |
| --- | --- | --- |
| `queue` | 2 jobs sharing a document, 1 worker, 2 attempts, lease 2 ticks, purge after 1 tick | `LeasedInputExists`, `ReceiptTellsTheEnd`; refinement of `RenderJobLifecycle` (`KeepsLifecycle`); `JobsSettle` |
| `worker` | 1 job, 2 daemons of one name on one desktop, 2 attempts, lease 2 ticks, kills, no purge | `OneOwner`, `CancelSticks`, `OneRenderer`, `SuccessIsOwn`, `LeaseEnds`, `WorkSettles` |
| `desktop` | a process with 2 threads, forked children with 1 and with 2 threads, nesting of 2 | `Alone`, `Reenters` |
| `workflow` | 8 orders, one driver and one client that decides and cancels, 2 attempts | `RunsOnce`, `OneOutcome`, `MutationDecided`, `ResultIsReceipted`, `CompletedIsVerified`, `CompletedIsRendered`, `EndIsFinal` |
| `workflow_live` | one driver, results expire | `DoubtSettles` |
| `publish` | 1 publication, 1 removal, 2 external edits, with and without the exchange | `NoResidue`, `FailureLeavesNoCandidate`, `ReaderFindsFile`, `KeepsPromise` |
| `backups` | 2 generations, 2 calls, 2 troubles each, 1 external writer | `TargetWhole`, `GenerationsSurvive`, `AllOrNothing`, `NothingTrampled` |
| `batch` | 2 calls of one request, in three kinds, in place or not, dry or not, 2 troubles each, 1 external writer | `RolledBackIsTrue`, `OkIsTrue`, `KeyMeansDone`, `PreimageSurvives` |
| `requests` | 2 clients, 2 keys, a cache of 1, 2 sends each, 1 restart, 1 external writer | `AppliedOnce`, `AckedIsKept`, `OnlyRacingIsLost` |
| `edits` | every pair of commands on three sections of 10 to 14 nodes | `SoundDocument`, `NothingElseMoves`, `LandsWhereAsked`, `LinesMatch`, `TablesKept` |
| `worker_dies`, `workflow_twice` | as small as possible | that a statement of the repository does not hold (below) |

Why the bounds are enough. *Queue and daemons*: two workers are what ownership
needs and what a cancel needs that meets the late call of a lost lease: they are
in `worker`. One is enough for the fate of jobs and documents in `queue`, where it
may let a lease run out and claim again; that no number of workers harms the
safety properties there is proved. Two jobs make the order of the queue, the
recovery of a row next to a claimed one and a shared document matter; two attempts
are the first and the last; a lease of two ticks is the shortest that a keepalive
can prolong. In the worker run one job suffices, because a daemon meets another
only over the same job or on the desktop. *Desktop lock*: two threads of one
process meet on the mutex, a child and its parent on the open file and the two
children on the flock; the child with two threads is there for what it lets in; a
nesting of two has a level that took the lock and one that did not. *Workflow*:
two processes are a driver and a decision or a cancel (two drivers are in
`workflow_twice`); one verifier is the first and the last at once; two attempts
allow a retry; `Says` is `good` or `bad` in `workflow`, and has `vague` as well in
`workflow_live` and `workflow_twice`. *Publication*: calls are serialised, so the
publication and the removal meet, in either order, what the other left; two edits
tell the writer before a step from the writer after it. *Backups*: two generations
are the newest and one that rotates on; two calls are a call and one that finds
what it left behind, a torn backup or a recovery; two troubles are a fault and a
second one during its rollback, and the properties say where they speak of one
only. (Three generations and two external writers have been run as well and pass.)
*Batch*: two calls are a request and its retry. *Requests*: a cache of one makes
the second client evict the first; two sends are a request and its repetition.
*Commands*: a pair is a command on what another one left; the three sections have
objects sharing a run, a note in its control, a child of the section that is no
paragraph, tables with and without a merge, a paragraph in a cell.

`CHECK_DEADLOCK FALSE` stands in the cfgs of the workflow, the publication, the
backups, the batches, the requests and the commands because a workflow ends and
the calls there are bounded in number; the queue, the daemons and the desktop lock
never stop, and deadlock is checked there.

### Fairness

*Queue* (`queue`): time passes; some daemon polls; a worker that holds a
lease lets go of it in the end (`Leave`). The last is an assumption about the
daemon, and the property `LeaseEnds` of run `worker` shows it for the daemon as
it is, with renderers that never return.

*Daemons* (`worker`): weak fairness of the main thread's steps and of its
deadline (`time.monotonic() < deadline` is re-evaluated every 0.1 s), of the
renderer's first step, of restart, and strong fairness of claiming: a daemon is
not killed every single time before it gets to claim, and the application is not
unavailable for ever. No fairness for `RenderEnds`: a renderer may hang for
ever, and that is the case the watchdog exists for.

*Workflow* (`workflow_live`): some client keeps calling `resume`, calls end, and
a step of the way out that is possible again and again is taken: crashes and
conflicts do not hit the same point each time. No fairness for tools, renders or
the clock.

## What is proved

All theorems hold for any number of jobs, workers, processes, attempts, ticks,
orders, verifiers, backups and calls, under the named assumptions of the modules
(`QueueAssumption`, `DesktopAssumption`, `ServiceAssumption`, `PublicationAssumption`,
`BackupsAssumption`, `BatchAssumption`, `EditAssumption`, `CommandsAssumption`),
which TLC evaluates in every run. They say that bounds are numbers, that model
values for "no file" or "a torn file" are no files, and that every document a batch
finds is one (`IsDocument`). Where a theorem needs more, the hypothesis is in its
statement. Type invariants (`TypeCorrect`, `WorkersTyped`) and the bound on attempts
(`AttemptsBounded`; it is part of `KeepsLifecycle` too) are stated as theorems only.

*Queue.* `IInv` adds to `TypeOK` that every row is well-formed (`RowOK`): a
queued row has an attempt left, a terminal row has its own receipt and the other
way round, a succeeded row was not cancelled, an absent row is empty. Each is
needed for the next step of another (the attempt bound of `Claim` is only kept
because *queued* implies an attempt is left; the receipt only because recovery
rewrites it when it ends a row). From it: `TypeCorrect`, `AttemptsBounded`,
`ReceiptsHonest`, `CancelIsFinal`. `LifecycleKept` maps each row to the abstract
job and shows, row by row, that a step of the queue is a step of the lifecycle or
a stutter. `SingleOwner` needs `LeasesOK` (a lease's attempt is at most its
row's, and two leases of one job differ in their attempts), which holds because
the attempt of a row never decreases. A purge deletes rows and a resubmission
restarts at 0, so the theorem is stated without purge. `SourceIsThere`
(`LeasedInputExists`) is stated with it: a blob that is about to be unlinked belongs
to no row that has not raced (`SourcesKept`), because a submission that puts its blob
before purge's look and inserts its row after it is in flight at the look, and one
that finds the blob between look and unlink is marked as it comes. What is left out
is what the code does lose then.

*Daemons.* `OnQueue` is the refinement: every step of a daemon is a step of the
queue or leaves it unchanged, so every theorem above holds of `WorkerSpec`.
`WorkerIInv` adds `DaemonOK`: a lease is held exactly inside `run_queue_once`; no
renderer is alive when one is about to be started; a live renderer is attended
to or poisoned; what is attended to or delivered was started for the lease held.
From it `WorkersTyped`, `RendererKept` (`OneRenderer`), and `SuccessKept`
(`SuccessIsOwn`), the last with the lemma that only `complete` makes a row succeed.

*Desktop lock.* For any processes, threads, forks and nesting. `Backed` ties a level
that took the flock to it: the flock is its open file's, and its own process has a
descriptor of that file, so that neither a child that unwinds nor the death of
another process frees it. That gives `OneFlock` (`OneHolder`) besides `DesktopTyped`.
`AloneInside` (`Alone`) and `ReentersHolds` (`Reenters`) need `Grounded` as well: a
thread that is the only one of its forked process, or in a process that was not
forked, stands on such a level whenever it is inside, and its `held` says so.

*Workflow.* `IInv` adds to `TypeOK` that at most one answer to the decision was
ever receipted, about the destructive action (`OneAnswer`), and that a process
between authorization and the end of the destructive tool has an approval behind
it (`Permitted`). Actions are sorted by the shape of their transaction, and the
shape is shown to keep the invariant. Results: `TypeCorrect` and
`DecidedMutation`: no number of clients that crash anywhere and answer both ways
gets the destructive tool entered without an approval or against a rejection.

*How a workflow ends.* Most steps leave receipts, results and tools alone
(`Quietly`); that is shown once, and what is left are the six steps inside
`dispatch_durable` and the clock. `AttemptInv` counts attempts: the started
receipts of an action are numbered 1 to n, all but the last have failed, and a
call inside the dispatcher works on the last of an action nobody has completed
(`EngagedOK`). With one driver this gives `NoSecondRun` (`RunsOnce`) and
`SingleOutcome` (`OneOutcome`). `EndInv` (a call about to enter a tool read a live
record) gives `EndStays` (`EndIsFinal`). These three are stated with `ASSUME
OneDriver`, any number of others deciding, cancelling and starting beside it; each
is false with two drivers. `ReceiptInv` (a completed action's row holds what its
receipt says, or has run out) gives `ReceiptsMatch` (`ResultIsReceipted`), and
`WalkInv` with the chronicle `Lasting` gives `VerifiedCompletion`
(`CompletedIsVerified`): a call at its third verifier has left receipts of the
first two, a result means its tool ran, and the state tells which action was
completed. Both hold for one driver, or for any number when results do not run
out. `RenderInv` (what a call has seen of the render job, and that a succeeded job
stays so) gives `RenderedCompletion` (`CompletedIsRendered`) without a hypothesis.

*Edit requests.* For any clients, keys, external writers, cache size, sends and
restarts: `TypeCorrect`, `MadeOnce` (`AppliedOnce`), `AnswersKept`
(`AckedIsKept`), `LossBounded` (`OnlyRacingIsLost`). `IInv` adds to `TypeOK` who
holds the lock (`Busy`), that what was opened is the document but for what has
been racing since (`OpenedOK`), that what a client was told, what is recorded and
what is about to be is in the document (`ToldOK`), that a client that has sent
nothing has no edit in it (`UnsentOK`), that a revision was read before the edit
it guards was made (`RevisionOK`), that a call that goes on is about to extend a
document without its edit (`FreshOK`), that a published edit with a key is
recorded or forgotten (`RecordOK`), and that no edit is there twice (`SingleOK`).
The argument for `MadeOnce`: the second of two calls of one client finds either
the record or a document that is not the one its revision was read from.

*Publication.* For any publications, removals and edits. `Base` is `TypeOK` and
what is at each side name (`NamesOK`: only a call's own inodes are ever created,
and each is at one name). `TypeCorrect` and `NothingLeft` (`NoResidue`) follow
without serialisation; the latter leaves out a call whose rollback or unlink has
failed, and `NoFailedCandidate` one whose rollback has. With it, at most one call
is between its guard and its end (`Alone`); `Absent` says for every place in the
code at which names the candidate of a call cannot be, unless someone wrote over
it, which gives `NoFailedCandidate`; `Files` says that while no removal runs a
call that found a file leaves one at the name in every step, and has one to put
there, which gives `FileStays`. Both are stated with `ASSUME Serialised`.
`PromiseKept` is the refinement `KeepsPromise`, under the same hypothesis, for the
rollbacks that fail as well. The register admits that a version nobody captured is
lost in one place, between two exchanges of one call (`PutBack`, `Unrestore`). On
the invariant `Faithful` (the above, that an edit yet to come is nowhere
(`Unborn`), that a publication's content is in its own inodes alone (`Owned`), and
what is at the name and at the side names at each step (`Placed`)) each action is
shown to be one step of the register or a stutter.

*Backups.* For any depth, any calls one after the other, crashes and foreign
writes. `Base` is `TypeOK`, where each kind of call can be (`PhaseOK`), what it
has captured (`CaptureOK`) and `TargetWhole` itself (`DocumentWhole`): an undo
takes no torn backup, and what a rollback puts back was captured whole.
`ForeignKept` (`NothingTrampled`) needs `RecovOK`, what the sidecars hold at each
step, and `NotYet`: a version a foreign program has not written yet is nowhere, so
that a comparison which succeeds compared with what is really there.
`GenerationsKept` (`GenerationsSurvive`) needs `RotationOK` and `CopyOK`: at
position *i* of the rotation the slots above have moved up by one and those below
are untouched. `AllOrNone` (`AllOrNothing`) needs the exact history of a call
nobody interfered with (`PatchOK`, `UndoOK`): which slots are as captured, and
which are back with the same content.

*Batches.* For any number of requests, faults, crashes and external writes. `IInv`
is `TypeOK`, `FilesOK` (nothing is edited by a request yet to come), and during a
request: where each kind of it can be (`PhaseOK`); that its own edit is nowhere it
has not published (`AgeOK`); what has been read (`OpenOK`), that a file nobody
else wrote is what was captured of it (`KeptOK`); what a rollback (`RolledOK`),
the idempotency entry (`KeyOK`) and the sidecars (`SideOK`) say; that a source
which was changed stays different from what was read, because external writers
write new contents (`SourceOK`); and what the answering steps know (`BatchOK`,
`LookOK`). From it: `TypeCorrect`, `RolledBackHolds` (`RolledBackIsTrue`),
`KeyHolds` (`KeyMeansDone`), `OkHolds` (`OkIsTrue`) and `PreimageKept`
(`PreimageSurvives`). Nothing is claimed of the answer rolledBack after a failed
read of the document's state, unless the executor itself had rolled back: it is
wrong there. A recorded key is claimed of batches and forms alike to stand for a
candidate that was published and is in place (`PlacedOK`), or a dry run, and the
caller to have been told ok, but for two steps that are named: that read, and the
exception handler of a form.

*Commands.* For any documents and any number of commands. `CommandsInv` is that
the records describe the nodes (`Described`), that the children are a tree whose
nodes may hold what they hold and where nothing cut off keeps children (`Formed`),
and that identities are unique (`Distinct`). A tree has no induction here; what is
used in its place is a clause of `IsTree` (every set of nodes has one that none of
the others holds) and facts about the walk `Below` for every length of it, by the
least number that fails (`LeastNumber`). Each command has a lemma that names the
nodes it touches and shows that the rest is as it was (`Effect`); a copy is shown
to mirror what it copies (`Mirrors`), with identities above the highest there was
(`Renewed`). From it: `CommandsTypeOK` (`TypeOK`), `CommandsSoundDocument`
(`SoundDocument`, where identities are those outside of notes: what a note holds
is copied with the identities it has) and, because a paragraph whose content a
command touches is one whose cache it drops (`Calm`), `CommandsLinesMatch`
(`LinesMatch`). `CommandsTablesKept` (`TablesKept`) needs `TablesInv` besides: the
rows are numbered, and a table with a covered row has one that spans, so that the
refusal of a table where a row spans (`_table_has_vertical_merge`) is one of all
merged tables.

Only model-checked: liveness (`JobsSettle`, `LeaseEnds`, `WorkSettles`,
`DoubtSettles`), which under fairness is out of reach of this prover; and two
properties of the commands, `NothingElseMoves` and `LandsWhereAsked`, which
compare the order of filtered lists before and after (`SelectSeq`, whose parameter
is an operator, has no fact the provers can use). All other properties of the
passing runs are theorems: that of the queue's leases without purge, and those of
the workflow and the publication with the hypotheses named.

## Where the code and its words differ

With a run that finds the counterexample (`PROJECT.json` quotes the line):

- `workflow_twice`: two clients that resume one approved workflow both enter the
  edit. `append_event` answers a known key before it compares the version, and
  `dispatch_durable` does not look at `created`. With one driver `RunsOnce`
  holds. (The same makes a second driver enter the tool after a cancel:
  `EndIsFinal` holds with one driver and not with two. Two drivers can also give
  one attempt a failed and a completed receipt, and, when results run out, a row
  that is not what the receipt says.)
- `worker_dies`: a cancel between the keepalive and `complete`, and the loss of
  the lease before the following `fail`, end the daemon.

Seen while modelling, without a run of its own.

*Workflow and queue.* The test of the output path and the copy onto it are
separate, so a second driver copies the source over the edited document
(`W/adapters.py:98-103`), which `OUTPUT_ALREADY_EXISTS` is there to refuse. With a
render requested, completion asks less of the verifiers than without: a check that
did not say it passed is enough (`W/service.py:665` against `W/policy.py:152`). A
client that dies between submitting a render and its receipt leaves a job that a
later cancel does not reach (`W/service.py:634`, `698`), and a cancel that cannot
get the render's receipt cancels the workflow and not the job (`:700`). `start` on
the key of a rejected order tries to fail the failed workflow again
(`W/service.py:130`). An expired result makes the replay of a completed action
raise (`W/service.py:228`), and a used-up attempt budget makes every continue
raise (`W/policy.py:83`): such workflows can only be cancelled. A submission
between purge's look for references and its unlink is queued without its document
(`W/render_queue.py:468-473`): `LeasedInputExists` says that nothing else loses
one. Nothing calls `purge` yet, hence `PurgeCalled`.

*Desktop lock.* A forked child stores its pid before it replaces the inherited mutex
and thread-local (`B/office/rendering/mac_session.py:40-43`), so a second thread of
it that enters in between can go in beside the holder; line 38 says that a fork must
not inherit them. `Alone` and `Reenters` leave the threads of such a child out.

*Files.* When the document's state cannot be read after a batch, the handler
answers `ok: false` and `rolledBack: true` although the output stands and its key
is recorded (`B/handlers/agent_document.py:130-141`, `B/agent_document.py:155`),
where `docs/result-truth-072.md:3` says that `ok=false` means not published:
`RolledBackIsTrue` and `KeyMeansDone` leave that answer out. A version saved over
the candidate between the exchange and the exchange back comes out with it and is
unlinked (`B/workspace.py:1370-1387`, `1447`), where the comment at line 1383 has
an external writer preserved: `GuardedRegister` admits it. When a step of a
rollback fails, the failed candidate can stay at the document's name and a
`.restore` next to it: there is no `finally` around the opening and writing of
`.restore` (`B/workspace.py:1318-1343`), and an `unlink` that fails in the
`finally` is ignored (`:1444-1449`). The expected revision of an edit is compared
on a read of its own (`B/handlers/_shared.py:177`), so an edit by another program
before the next read is edited upon rather than refused. A file that another
program put in place of a candidate and that the exchange brought out can be lost
when its way back fails too (`B/workspace.py:1386`). A repeated `undo_last_edit`
redoes the edit: it swaps document and backup. The fingerprint of `apply_edits`
leaves out `quality`, so a request that differs in it alone is answered from the
record.

*Commands.* References by alias are path strings; one with a position in it means
another node once a sibling came before it (the table matrix of
`tests/agent_runtime_parity/test_agent_commands.py:424-463` removes another row than
the one it added). Identities start above the highest *present*, so one that was
removed with its node is given again (`B/office/agent/commands.py:1144-1166`). For
objects that share a run, before, after and index mean the run (`:467-499`):
`LandsWhereAsked` excuses them. A row may be added to or moved into a table with
rows merged, though removing and copying one there is refused (`:983-988` looks at
the source): `TablesKept` excuses it. `CHANGELOG.md:44` speaks of moving notes, which
the catalog of operations does not allow.

## Not modelled, and why

- Signatures, encryption, the ledger's hash chain, archive limits, byte limits,
  metrics, the health row: they decide no state change among those modelled.
  Where one makes a call fail, the failure is the call ending (`Stops`).
- Budgets other than `max_attempts`: a refusal by one of them is the
  environment's choice in `DispatchRefused`.
- The state `repair`: nothing in the service leads into it.
- `purge` in the worker run, file-system errors in the daemon, the fake session.
- What a scripting process started by a killed daemon goes on doing to the
  desktop: the flock is gone with the daemon.
- The length of a wait for the desktop lock: it may end at any moment.
- A document, a backup or a side name that is *deleted* from outside, and writers
  that hold a file descriptor across an exchange. The checks of root and parent
  directories and the fsyncs are in the model as checks that may fail.
- Two server processes publishing at once: the lock is per process, and the
  properties of the publication are stated under it.
- `undo_last_backup` of `B/core/transactions.py`, which no tool calls; the remote
  storage; the publication of a patch into an output of another name.
- Gates (verification, quality, byte preservation, reports) are a choice between
  pass and refuse: what they compute is document processing.
- Memos, sections, header stories, `set`, column counts, shapes (they behave as
  tables or pictures), paths and aliases, and what is inside a note.
- The rest of the document processing, which is most of the 85,000 lines: values in,
  values out. The share of lines the models stand for is small for that reason; the
  share of the code that keeps state across steps is what they cover.

## Plan

Done, in this order: queue and lifecycle, store, dispatcher, service, daemons;
publication and its abstract register, backups, batches, edit requests, commands;
the desktop lock.

Proved, in this order: queue and lifecycle, daemons, the decision of a workflow;
edit requests, publication; outcomes of a workflow, backups, the refinement of the
publication, batches; commands; the desktop lock.

Theorems to come: `SingleOwner` under purge, for what remains true of it;
`LandsWhereAsked` and `NothingElseMoves` for the commands, over
filters that are functions.

Models to come, if anything: aliases and paths over `AgentCommands`; an at-most-once
specification implemented by the dispatcher under one driver; the remote storage.
