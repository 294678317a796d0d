# flyrail: TLA+ models, model checks and proofs

flyrail installs *bundles* (skills, instructions, hooks, MCP servers, support
assets) into the directories and shared configuration files of coding agents. It
does so next to content that it does not own, for several bundles at once, from
several processes, and it keeps enough state to upgrade, remove and recover without
the source of what it installed. These modules model the Rust implementation
(`src/rust/src/`) and the hook bridge (`src/rust/src/runtime/*.mts`). The Python and
the Swift packages implement the same documents (`src/spec/`) and are held to the
Rust one by interoperability tests; of them only Python's state decoder is modelled.

## 1. Inventory of the system

| Part | State it keeps | Operations | Talks to |
| --- | --- | --- | --- |
| State store (`stores.rs`) | one record per key, named locks | `read`, `write(expected)`, `delete(expected)`, `keys`, `lock` | called by everything below |
| Admission (`state.rs`, `resource_io.rs::admit`) | an `authority` record per destination, never deleted | `admit`, `hierarchy_conflicts` | store, file system |
| Resource transaction (`resource_transaction.rs`, `resource_io.rs`) | `preparation`, `journal`, `receipt` of a destination; a private directory with a staging and a backup area | `prepare`, `publish`, `cleanup`, `recover` (`abandon`, `rollback`) | store, file system |
| Resource planning (`resource_plan.rs`) | none | `plan_resource`, `pending_index`, `completed_index` | receipts, destinations, the editors |
| Document editing (`editors.rs`, `json_document.rs`, `toml_document.rs`) | none; baselines and separators in the receipt | acquire, set, retire and restore a selection of a text, JSON or TOML document | called by planning |
| Installation lifecycle (`lifecycle_impl.rs`, `lifecycle.rs`) | an `index` per bundle and context: current, pending and previous generation, residual resources | `preview`, `apply_preview`, `sync`, `remove`, `recover_installation`, `inspect` | planning, transaction, store |
| State codec (`codec.rs`, `resource_models.rs`, `authority.rs`) | the form of every record | `encode`, `decode` | store |
| Bundles and sources (`bundle.rs`, `sources.rs`) | none | load from a directory, from memory, from an archive | file system, which others write to |
| Artifacts and translation (`translation.rs`, `mcp_translation.rs`, `hook_translation.rs`) | none | `render`, `render_many` | bundles, lifecycle; the hosts read the result |
| Hook runtime (`hooks.rs`, `runtime/*.mts`) | child processes of one call | read a call, run handlers, fold their effects, answer | the host, the commands |
| Inspection (`inspection.rs`, `summary.rs`, `lifecycle_impl.rs::inspect`) | none | inspect an installation or a skill target, preview, summarize; install, update and uninstall a skill | reads what the lifecycle wrote |
| Resource security, test seams | none | platform attributes, fault injection | not modelled |

A call of the lifecycle takes the index lock of its installation, then the lock
of every resource it refers to, in destination order. It then plans, writes the
pending index, runs one transaction per resource, and writes the completed
index. Processes share the store and the file system and nothing else. The
user's editor and the agent write destinations and take no lock at all. A host
starts the bridge that was installed for it once per event; the bridge reads the
rendered configuration and starts one command after the other.

What is hard: a crash between any two system calls; a store call that takes
effect and still reports an error; previews computed long before they are
applied; a partial failure in the middle of a generation; the order in which a
configuration and the assets it refers to appear and disappear; private data
that must remain findable; resources nested in one another; user edits at any
moment; text given back to its user after others have edited around it; a source
that changes while it is read; commands that hang, write without end or leave
descendants behind; and one document read by two implementations or by a host.
`PROJECT.json` lists each as a hazard, at its line, with the properties that would
fail if the code got it wrong.

What makes each part correct:

* store: an atomic, durable compare-and-set register for each key; exclusive
  locks, and no waiter forgotten;
* admission: a directory tree and something inside it are never both managed;
* transaction: content and receipt change together or not at all, nothing of the
  user's is destroyed, and recovery ends;
* planning and lifecycle: a claim belongs to one bundle, what is owned can be
  found again, a completed index is exact, references never dangle, what the
  user had comes back, and another call always repairs a failed one;
* inspection: what is reported is what the records and the destinations hold, and what is reported
  current needs nothing and can be removed;
* document editing: nobody's content but the editor's changes, and giving
  everything back restores the document;
* codec: a record is read back as it was written and nothing else passes for it;
* sources: what is loaded was there at one moment;
* translation: a host reads what the author wrote, or the bundle is refused;
* hook runtime: the host learns all that was decided or nothing, in time, and
  nothing keeps running.

## 2. Modules

| Module | Models | Kind |
| --- | --- | --- |
| `AtomicResource` | what a managed resource promises: content and receipt in one step | abstract |
| `ResourceTransaction` | `resource_transaction.rs` and what it uses of `resource_io.rs`, for one destination | state machine; implements `AtomicResource` |
| `Admission` | `admit()`, `hierarchy_conflicts()`, acquisition of a resource | state machine |
| `CompareAndSet` | what a store promises: an atomic, durable register per key | abstract |
| `DirectoryStore` | `DirectoryStore` of `stores.rs` | state machine; implements `CompareAndSet` |
| `MemoryLocks` | `MemoryStore::lock()`/`release()` | state machine |
| `ResourcePlan` | `references`, `plan_resource`, `order_plans`, the indexes | operators |
| `Installation` | `lifecycle_impl.rs` and `execute_transaction()` over several resources, bundles and processes | state machine; uses `ResourcePlan` |
| `Inspection` | `inspect()` of an installation and of a skill target, previews, summaries, the calls of install, update and uninstall | operators over the state of `Installation` |
| `Claims`, `Selections` | claims and their overlap; the requests and states of an edit | operators |
| `TextSections`, `JsonText`, `StructuredEditor`, `Revisions` | the editors of text, JSON, structured documents, and of trees and containers | operators |
| `SharedDocument` | the plan of one document by several bundles and its user | state machine over the editors |
| `TomlEdit` | the TOML backend: reading, layout, edits | operators |
| `TomlDocuments` | a TOML document its user writes, its selections taken and given back | state machine |
| `StateCodec` | the records of the state, their conditions, their encoding and two decoders; a record written, edited by somebody, and read by both | operators, state machine |
| `BundleFormat`, `StaticSources` | manifests and how a bundle is put together; memory and archives | operators |
| `BundleLoad` | `DirectorySource`, one system call at a time, beside a writer | state machine |
| `Rendered`, `HookSupport`, `Translation` | artifacts, edges and notices; servers; hooks; `render`, `render_many` | operators |
| `HostReading` | how the hosts read what is installed (external) | operators |
| `Rendering` | a batch rendered context by context | state machine |
| `HookProtocol`, `HookBridge` | the records of the hook protocol; requests and answers of each host | operators |
| `HookRun` | one call of the bridge: `runner.mts`, `process.mts` and child processes | state machine |
| `MC*` | instances for TLC; `MCResourceTransaction` also states one finding | model checking |
| `*_proofs` | theorems and their proofs | TLAPS |

Each definition's source lines are in `PROJECT.json` under `map`. Operators such as
`RecoverJournals`, `NotifyOne` or `PendingAsCurrent`, which no specification uses,
are plausible mistakes: each is a faulty variant of the definition that follows it,
with which the property named in `PROJECT.json` under `mutants` is violated.

State machines that read or write documents take their operators as CONSTANTS
(`ReadState`, `Answering`, `Manifest`), and the configuration gives them those of the
modules above. The machine states when they are called and what its steps do with
the result; the operator modules are pure and recursive where the data is.

### ResourceTransaction

One destination, its private directory per transaction id, and its three
records. One action is one system call or one store operation; `pc` says where a
process is in `prepare` (`mkdir` … `journal`), `publish_with` (`publish`,
`backup`, `place`, `confirm`, `commit`, `acknowledge`), `cleanup` (`cleanup`,
`rmdirs`, `forget`, `release`), and recovery (`recover`, `abandon`, `rollback`,
`undo`, `restore`, `restored`). `Fail` takes any step to its error path,
including that of a store call which took effect; `Crash` ends the process and the
operating system drops its lock; `User` writes, deletes or re-saves the
destination.

A revision is the list of nodes `observe()` returns, with their inodes, so two
writes are never equal. The model keeps who wrote it and how many of its nodes
are left, because `destroy()` removes them one at a time and
`cleanup_revision()` must recognise the remainder. `late` holds the revisions
whose modification time is after that of the transaction directory, which is all
that `require_unchanged_since()` can tell.

Abstractions: two consecutive reads of the destination with no effect in between
are one step. Checks of the directory layout, mounts, ancestors' identities and the
index are failures that may happen at their step. Transaction ids are fresh, so
creating the directory never meets an existing one. The clock is finer than the
gap between a retouch and the next operation. A user who keeps a file
descriptor open across a rename, and a loss of power during a file operation, are
not modelled. The first, unlocked `fresh()` of `apply()` is part of `GiveUp`.

### Admission

The lock of a destination, its authority record and the file system around it.
`Record` writes the caller's own record before `Look` reads, one at a time, the
records above and, for a tree, below: the code's argument that two nested callers
"cannot both pass". `CreateParent`, `Publish` and `User` change the file system,
and `removed` remembers where something vanished. Not modelled: several references
of one call (each is admitted under its own lock in the same way), the directories
of unfinished transactions, and the spelling of paths.

### DirectoryStore and MemoryLocks

`DirectoryStore` has one file per record, the `mutation` file lock, and one
temporary file per writer. Every system call of `write`, `delete` and `read` is an
action and can fail. `possible[k]` is the set of files that a loss of power may
leave at key `k`: a rename or a removal adds to it, a sync of the directory settles
it, and a file that was never synced may come back torn. The records directory is
itself taken to be durable; opening and reading a record is one step; left-over
temporary files are ignored, as `keys()` ignores them.

`MemoryLocks` is the set of held names under a mutex and its one condition
variable, with spurious wake-ups and timeouts. The records of `MemoryStore` are a
map under one mutex and need no model.

### ResourcePlan and Installation

`ResourcePlan` holds the pure part of a call. *Claims* are selections of
resources; a *generation* gives the content of each claim and which claim refers
to which, and which of these references are stable ones. `PlanError`, `Planned`, `After` and
`Baseline` are `plan_resource()`; `Edges`, `OrderError` and `Wave` are
`order_plans()`; `PendingIndex` and `CompletedIndex` the two index writes.

`Installation` runs calls by several processes: `Start` reads without locks (all
of it for a preview, the index alone for `sync`, `remove` and recovery);
`LockIndex` and `LockResource` take the locks; `RecoverResource` resolves open
transactions; `Check` is `run_locked()` up to its first write; `Announce` writes the
pending index; `Skip`, `Prepare`, `Publish` and `Cleanup` execute the plans in
order; `Complete` writes the completed index. Each can fail, die or time out.

Abstractions:

* One resource's transaction is `Prepare`, `Publish`, `Cleanup` and an open
  record. `ResourceTransaction` shows why: content and receipt move in one step,
  recovery moves neither, and the record stays until one of them resolves it.
* A preview reads its resources one by one. `fresh()` compares every one of those
  reads again under the locks, so a preview torn between two states is given up
  like any other stale one; it is read in one step here.
* A receipt's transaction id is left out, which makes `fresh()` accept more than
  the code does: a receipt that was replaced by an equal one.
* Claims overlap only when they are equal. Shared documents follow the same policy
  for acquisition as whole files. Schema versions, `require_existing` and created
  directories are left out.
* An owner is a bundle, not an installation, as in the code: the installations of one
  bundle in several contexts share their claims.
* `order_plans()` computes the whole order first; the model takes the same order
  wave by wave.

### Inspection

`Inspection` adds no step: it is what may be read of `Installation` at any moment, also in the
middle of a call, after a failed one, and beside other processes. `Inspect` is the source-free report of
a bundle in a context, resource by resource, with a set of resources that cannot be read;
`TargetInspection` and `IsCurrent` compare a target with the bundle a host has; `Previewed`, `Refusal`,
`Applicable`, `Action` and `Summary` are a preview and what is shown of it; `SkillCall` is the call that
`install`, `update` or `uninstall` makes of an inspection, which takes no lock. Version and digests name
a generation; an inspection reads its records in one step; the claims of the embedder's own inventory
(`installed_inventory`) are those of the index. Prose, routing and JSON of the reports are left out.

### Document editing

`SharedDocument` is the plan of one document: bundles come, change and leave with a
policy, and their user writes once, at any moment. The format is the section editor
(`TextSections`), JSON and JSONC (`JsonText` under `StructuredEditor`), a container
of skills or a whole tree (`Revisions`); `Selections` is what they share. A text is a
sequence of tokens, and every separator, line ending and blank line is one, since what
must come back comes back to the byte. A plan and its publication are one step: the
transaction publishes only over the file the plan was computed from.

`TomlEdit` reads a TOML text into the tree that `toml_document.rs` keeps, with the
place of every token, and sets, inserts, moves and deletes in it.
`TomlDocuments` builds a text line by line, opens it, takes selections and gives them
back in any order. Left out are the spellings of numbers, dates and escapes, and the
branches of `toml_document.rs` that no caller reaches (the "holder" branch of
`assign_proxy`, `append_into_part`).

### State codec

`StateCodec` has the records with the conditions of their constructors, the tree each
is encoded to, and two decoders: the typed one of `codec.rs`, and the generic one of
the Python package. Its state machine writes a record, edits the file anywhere once, and
reads it with both. The characters of the canonical JSON text are left out.

### Bundles and sources

`BundleFormat` has both manifest schemas and how a bundle is put together from records;
`StaticSources` loads from a tree that is handed over whole and from an archive's directory and local headers.
`BundleLoad` is `DirectorySource`: what is left to do is a list of operations (`todo`), and
between any two system calls another writer may overwrite a block in place, create, replace or
remove. `read`, `slurp` and `root` take several system calls and stay at the head of `todo`
until they are through; `find` goes from component to component. `observed`, `directories` and
`matches` are the three ordered maps of the code; `seen` is auxiliary and remembers what was read
from which file. Stamps are as coarse as the clock, so a change within one tick can be invisible:
`blurred` says that a file or directory that had been looked at was changed and shows the
same signature still. `LoadsOneMoment` excuses the load then. `HeldBy` says what it means
that the bundle is that of a tree. Discovery, inventories,
decompression and checksums are left out.

### Translation

`Translation` (servers included), `HookSupport` and `Rendered` are `render` and `render_many`:
artifacts with destination and content, edges, notices, collisions. `HostReading` is not code
of this repository: it says, from the tables of `spec/translation.md` and
`spec/hook-protocol.md`, what a host makes of a published file. `Rendering` renders a
batch context by context. Left out are the content rules of native artifacts and the
quoting of Windows command lines beyond what splits a line into words.

### Hook runtime

`HookRun` is one call of the bridge: `ReadInput`/`StdinTimeout` (`readInput`), `PassOver`,
`Start`, `SpawnFails`, `Writes`, `WritesError`, `LeaderExits`, `NoticeExit`, `Finish`,
`Timeout`, `Complete`. A command is a process group with a leader and a descendant, which may
keep the pipes, close them, or keep them and leave the group. `Tick` passes time as long as no
timer is due; `lag` is the time the bridge itself takes between two handlers.
`HookProtocol` has the records as both ends read them, `HookBridge` what each host calls
with and acts on. The job object of Windows is not modelled.

## 3. Runs

| Run | Instance | What it shows |
| --- | --- | --- |
| `transaction_safety` | 2 processes, 2 transactions, 2 nodes, 2 user edits; symmetric | A reader sees a whole revision or none (`DestinationWhole`); what the user wrote or a commit published is always somewhere complete (`KeptSurvives`); private data is always named by a record (`Discoverable`); a reported completion was committed (`ReportIsTrue`); the transaction implements `AtomicResource` (`ImplementsAtomic`). |
| `transaction_recovery` | the same without edits, with fairness | Recovery never refuses data that flyrail alone produced (`NeverRefused`), and always ends (`RecoveryEnds`). |
| `rollback_boundary` | 1 process, 1 transaction | **Violated** (`SkipsOnlyAfterCheck`), see section 6. |
| `stores` | one of: admission with 2 processes, a chain of 3 destinations, 2 changes; the directory store with 2 callers, 2 keys, 2 values; the memory store with 4 threads, 2 names | Admissions never contradict each other (`NoConflict`): of one destination and of nested ones, and documents lie above others only where something was removed; the directory store is a durable register (`ImplementsRegister`); locks exclude and no waiter is forgotten (`Exclusive`, `NotStranded`). |
| `installation_one` | one installation at a time: one bundle with 2 generations of 3 claims over 4 resources, one with claims of a document that has user content; all policies, 2 faults (1 beside user content), 1 edit, 2 of both together | `Discoverable`, `ReferencesHold`, `BaselinesKept`, `EditsKept` through install, upgrade, downgrade, removal and recovery; what inspections, previews and summaries say is true at every moment (`ReportsAreTrue`), and a completed call is reported as current (`CompletesCurrent`). |
| `installation_shared` | 2 processes, 2 bundles sharing 2 resources, living beside each other or wanting the same entry, 1 fault; symmetric | `NoLockCycle`, and a claim is never taken from its bundle (`OwnersOnly`). |
| `installation_liveness` | one bundle, 2 faults, no edits, with fairness | `Settles`: after failures anywhere another call completes every index. |
| `installation_contexts` | 1 bundle in 2 contexts with 1 shared asset | **Violated** (`ReferencesHold`), see section 6. |
| `shared_document` | 2 bundles, each of 4 formats, 1 user edit | An untouched document is restored (`Restored`); a bundle can always leave (`CanLeave`); other bundles' selections and the user's content stay (`OthersKept`, `ForeignKept`); what a plan records is in the file (`PublishedIsThere`). |
| `hook_run` | each host, good and bad calls, 2 handlers that do as they please | The host sees all effects of a run or none, in order (`EffectsReachTheHost`); nothing of a handler outlives it (`NothingLeftRunning`); library and bridge read outputs alike (`ProtocolAgrees`); every call is answered (`Answered`). |
| `reading` | one of: a load beside a writer; a catalogue of manifests, directories and archives; each kind of record edited once; 70 bundles in one and two of 41 contexts | `LoadsOneMoment`, `CalmLoadsAgree`; `OnlyAsWritten`, `CodecsAgree`; `ServedAsAuthored`, `CapabilitiesTrue`, `NeverInvalid`. |
| `toml` | every text of up to 4 lines of a catalogue, at most 30 tokens and 4 events | A text says what TOML says and is kept (`OpensAsWritten`); taking a unit changes that unit (`OthersKept`); comments stay (`NotesKept`); the text comes back (`Returned`). |

Why the bounds are enough to be of interest:

* Two transactions let one meet what another left, and two processes are what a lock
  keeps apart. Two nodes give a revision a proper remnant. Two edits let the user
  edit a revision that recovery is about to move, and again afterwards.
* A chain of three destinations has a middle one which is looked at from above
  and from below, and is a parent that another process may create. Two keys are needed
  because all keys share one file lock and one directory sync. Four threads and two names
  are the least for a release with waiters of both names.
* `installation_one` has the shape of a translated hook: a configuration entry
  with a stable reference to a launcher that changes in place, and a revisioned
  runtime it refers to in turn. The destination order differs from the
  order of publication and from that of retirement. Two faults, without an edit, let a call fail, the
  call that repairs it fail as well, and a third one meet the result; one fault and one edit let the
  user write in the middle of a failed call. The theorems know no such bound.
* `shared_document`: two bundles are what separators and created containers are shared
  by; three sections with a boundary line in common, two members and a field in a container
  that may not exist are the least for each editor's special cases.
* `toml`: four lines are a table, its header, an array continued elsewhere and a comment; the
  events count lines as well as units taken, so that longer texts have fewer of these.
* `hook_run`: two handlers show order, the deadline of an event that the first one spends, and a
  descendant of one beside the other. `StdinDeadline` 1, `EventDeadline` 2 and `MaxLag` 1 are the
  least with which each timer can fire first.
* `reading`: one edit at any system call of a load; `MaxClock` 2 is a change with and
  without a new stamp. A record is edited at one place, but at every place.

Every counter (`MaxEdits`, `MaxChanges`, `MaxFaults`, `MaxClock`, `MaxLag`, `MaxSize`) only
limits the environment.

Deadlock is checked in the transaction, store and installation runs, whose models can always
go on. A shared document may come to where every plan is refused and its user has no edit left; a call
of the bridge ends with its answer, a load with its result, a batch with its outcome and a
TOML text with its bound. Those four say `CHECK_DEADLOCK FALSE`; that the bridge does not stop
earlier is `Answered`.

### Fairness

* `ResourceTransaction!Fairness`: from some moment on nothing fails, dies or is
  edited; a running process is executed further (threads are scheduled, system
  calls return); and someone runs recovery while there is something to recover. The
  code never recovers by itself, and its documentation asks the host to call it.
* `Installation!Fairness`: a running call goes on, giving up at a lock included; and the
  host synchronizes again as long as it can. Failures need no fairness assumption,
  as they are bounded in number.
* `HookRun!Fairness`: the event loop runs what is ready and fires its timers, and time passes.
  Nothing is assumed of a command, nor of a host that keeps its end of standard input open.

No property relies on the fairness of a lock, a failure, a user or a child process.

## 4. Proofs

`tlapm` checks each `*_proofs` module to the last leaf. The theorems hold for every
value of the constants that satisfies the modules' named assumptions: the sets may be of any size and, except for resources and claims, infinite. `PROJECT.json` lists the theorems a reader should know of.

* `ResourceTransaction_proofs`: `TypeCorrect`, `AlwaysDiscoverable`, `ReportedIsCommitted`
  (`ReportIsTrue`), `AlwaysWhole` (`DestinationWhole`). `Discoverable` is not inductive by
  itself, because whether a step may create a directory or delete a record depends on who
  holds the lock and on how far it got. `IInv` adds `Mutex` (only the holder of the lock is
  past its acquisition) and `PcFacts` (what each step of the holder knows of the records, of
  the parts of the directory and of the two areas). `Reports` adds what is written when an
  outcome is collected, and `Wholes` that an area is whole whenever a rename moves it.
* `AtomicResource_proofs`: `KeptAlwaysSurvives` (`KeptSurvives`), `TransactionIsAtomic`
  (`ImplementsAtomic`), `NeverRefusesItsOwn` (`NeverRefused` as long as `edits = 0`).
  `Safe` follows who wrote what: ids and edit numbers are drawn once (`Drawn`), so two places
  of a transaction never hold revisions of one writer (`Apart`); records bound what the places
  of a transaction hold that nobody runs (`Journaling`), and the step of its process bounds them
  further on the way to the commit (`Intact`) and back (`Reversing`). The step simulation maps the
  receipt write to `ACommit` and every other step of a process to a stutter. Without edits `Clean`
  says more: wherever a failure stops, the destination and the areas are one of the few
  combinations that `recover_locked()` accounts for (`Traced`), and what `prepare()` checked before it wrote the journal still holds when it does
  (`Checked`).
* `Admission_proofs`: `TypeCorrect`, `CannotBothPass`, `OneKind`, `DocumentsStayApart`, and all of
  them together as `NeverContradict` (`NoConflict`). `Protocol` states the argument of two raised flags:
  whoever is past `Record` has its own record in place, an admitted reference keeps it for ever, and
  whoever found a destination clear had its own record there at that time, so that
  the other one, recording later, finds it. `Ground` adds what stands in the file system under an
  admission, or has vanished since.
* `Stores_proofs`: `AlwaysWhole`, `ComparisonAlwaysHolds` and `Refinement` (`ImplementsRegister`),
  for any number of processes, keys and values; `AlwaysExclusive`, `NeverStranded`. `IInv` adds
  what the holder of `mutation` knows of its call and its temporary file (`CallFits`,
  `TemporaryFits`), and that what is in place is among what may remain (`Present`).
* `Installation_proofs`: `TypeCorrect`, `NeverDeadlocked` (`NoLockCycle`), `OnlyOwnersMove`
  (`OwnersOnly`), `BaselinesAlwaysKept`, `EditsAlwaysKept`, `AlwaysDiscoverable`,
  `CompletedStaysExact`, `ReferencesAlwaysHold`. The invariant says of each process what it may
  rely on between two of its steps: the locks it holds (`Locking`), that the index is as read or
  announced (`IndexKnown`), that the plan was executable (`Sound`), and that resources not yet
  reached are as they were read and the others as planned (`Halfway`). A step of another process
  keeps all this because it touches only what it has locked itself (`Touches`, `Frame`). That no
  circle of waiting processes exists is an argument over the destination order: of a finite, non-empty
  set of waiters, the one that waits for the resource with the fewest above it waits for somebody
  who waits for one with fewer still. `ReferencesAlwaysHold` needs in addition that what a claim
  requires is its own bundle's (`SameOwner`) and how far the waves got (`Waving`).
* `Inspection_proofs`: `ReportsAlwaysTrue` (`ReportsAreTrue`), `CompletionIsReported` (`CompletesCurrent`).
  An inspection calls current what no call has in its hands, whose receipts are all there and which nobody has
  edited (`Settled`); in the first direction this needs the exactness of completed indexes, in the other that an
  open transaction stays `Discoverable`. That a current installation can be kept and removed follows from its plans:
  those of a call for what is current are all unchanged, those of a removal have no error, and their edges have no
  circle, because the generation could be put in order when it was completed (`CurrentOrderable`) and a removal takes that order
  backwards. `CompletionIsReported` follows the content as well
  (`Untouched`): as long as the user has written nothing, a claim's content is the body of the generation in its receipt,
  so that a complete installation is current.
* `HookRun_proofs`: `AlwaysNothingLeft` (`NothingLeftRunning`), `AlwaysInOrder` (`HeardInOrder`),
  `AlwaysWaitsNoLonger` (`WaitsNoLonger`), `AlwaysAllOrNothing` (`AllOrNothing`),
  `AlwaysAccumulated` (`Accumulated`: what is passed on is what the handlers heard so far have decided), whatever the
  records, hosts and children are: the operators of `HookProtocol` and `HookBridge` are constants of
  which nothing is assumed. `Timely` says that every timer is cut to what is left of the event and
  that time passes no timer; `Ordered` that the handlers that were heard come before the next.
* `BundleLoad_proofs`: `LoadsWhatWas` (`LoadsOneMoment`), for any directory, any number of edits, and
  whatever manifests and archives say (`Manifest`, `ReadsOf`, `Build`, `Unpack` are constants). A load
  is a double collect. Inodes are not used again and the clock does not go back, so a path that no
  longer shows the signature it was observed with never shows it again, and one that does is unchanged
  unless `blurred` (`Looked`). What was read or listed of a path that still matches is therefore what it
  holds (`Faithful`). The moment is when `finish()` begins: whatever matches at a later look matched
  then, and everything that was observed is looked at again (`Witness`). `Gathers`, `Covers` and `Whole` say
  that what was gathered is all of it: every directory of a tree was listed and everything listed was
  taken. Entries of a tree are a function of its paths, so the order in which they were visited does not
  matter; what `Build` makes of them is the same because its arguments are.

Assumptions, each named and evaluated by TLC in the runs: `ConstantsAssumption`,
`NoneIsNoJournal`, `NoneAssumption`, `NobodyAssumption` and `NoNameAssumption` (markers are not
members of the sets they mark, counts are numbers); `NestingAssumption` (nesting of paths is a
strict order); `ProcessAssumption` (the kinds of calls and policies are those of the code);
`RenderingAssumption` (finitely many resources, numbered in destination order, and finitely many claims,
each of one resource; a generation is rendered for one installation, and refers from what it holds to what
it holds); `ConfigAssumption` and `ClockAssumption` (a rendered configuration lists its handlers by ascending id;
deadlines and bounds of clocks are numbers); `JobsAssumption` (a directory is finite and every
entry's parent is a directory of it) and `ManifestAssumption` (a manifest that is read names what it
reads by paths below the directory).
`CompletedStaysExact`, `ReferencesAlwaysHold`, `ReportsAlwaysTrue` and `CompletionIsReported` have the hypothesis `OneContext`, that no bundle is
installed in two contexts of one store. It cannot be dropped: the run `installation_contexts` is the
counterexample.

Only model-checked:

* all liveness (`RecoveryEnds`, `Settles`, `Answered`), which needs fairness;
* what recursive definitions compute from data: every property of `shared_document` and `toml`, and
  `OnlyAsWritten`, `CodecsAgree`, `CalmLoadsAgree`, `ServedAsAuthored`, `CapabilitiesTrue`, `NeverInvalid`;
* `EffectsReachTheHost` and `ProtocolAgrees`, which are about the records and hosts that
  `HookRun_proofs` leaves open (`HeardInOrder`, `AllOrNothing` and `Accumulated` are the part of the former that is not).

## 5. Plan

Done, in this order: the transaction and its abstract resource, admission, the two
stores, planning and the lifecycle, inspection, document editing, the hook runtime, bundles and sources, the
codec, translation; the theorems above.

Next:

1. Theorem: the part of `OthersKept` of `SharedDocument` that is about the receipt, which holds for every
   editor.
2. Models: the creation of the store's own directories, whose durability `private_directory()` leaves to
   the process that created them; the directories of unfinished transactions in `hierarchy_conflicts()`.

## 6. Findings

* `rollback_boundary`: a comment in `rollback()`
  (`src/rust/src/resource_transaction.rs:1214`) and
  `src/spec/transaction-protocol.md:219` say that a transaction directory which is
  gone was removed by the cleanup of an earlier rollback, after its comparison of
  modification times. `prepare()` removes it too, through `discard()`, when the write of
  the journal takes effect and reports an error; the rollback that follows skips a
  comparison that was never made. No property of `transaction_safety` is violated by
  this: nothing has been moved by then.
* `installation_contexts`: `src/spec/translation.md:227` promises that references are
  retired before old assets. `order_plans()` considers only the resources of the
  calling installation. A support asset is one destination for all contexts of a
  bundle under one root, owned by the bundle: removing or upgrading the bundle in
  one agent's context retires the asset under the other agent's configuration.

Observations, where a property names an exception because of what the code does:

* TOML layout (`Regular` in `TomlDocuments`). With `[a.b]` before `[a] # n`, setting a key of `a` and deleting
  it again drops the header and the user's comment with it (`spec/document-editing.md:68-69`); parts of a table
  that stand apart likewise. Comments between dotted keys of a table that also has a header are moved or lost by
  takeover and restoration (`spec/document-editing.md:133-137`). The keys of one table spelt differently, or
  `[[a.b]]`, `[a]`, `[[a.b]]`, give a baseline that cannot be put back. An array of tables continued after
  another table is written in another order as soon as it is opened.
* TOML syntax. Some duplicates are accepted: `[a]`, `b = 1`, `[a.b]`, or `a.b = 1`, `[a.b]`
  (`spec/document-editing.md:128-129`); so is `{a=1 b=2}`. Inserting into `{a=1,}` gives `{a=1,, b = 3}`.
* JSON: a schema field that other content still needs stays behind its bundle
  (`spec/hook-protocol.md:213-223`), which `Restored` allows.
* Text: a section with lone carriage returns that is taken over in a file of line feeds counts as modified at once;
  a section its user deleted cannot be replaced, not even with `replace_modified`.
* Hooks: `HookEffects::parse` refuses a record above `OUTPUT_LIMIT`, which the runner may produce; `ProtocolAgrees`
  is about those below. The callbacks of Pi and OpenCode pass an empty tool name that `HookRequest::parse` refuses.
* Rendering: a hook that requires another, and a stable reference to something other than a whole file, are errors
  of `render` rather than notices (`NeverInvalid`); so is a relative `CODEX_HOME`.
* Codec (`Excused` in `MCReading`): Rust's paths forget the second slash of `//w/a`, Python's do not; a duplicate
  residual reference is refused by Rust only (`resource_models.rs:942-960`, `spec/receipt-format.md:57`).

## 7. Not modelled

The wording and the JSON of reports, resource security (platform attributes), test seams, the Swift
package, and all of the Python package but its decoder. `PROJECT.json` gives for each part what is left out and why.

## 8. Running

    tlc -config transaction_safety.cfg MCResourceTransaction.tla
    tlapm ResourceTransaction_proofs.tla

`PROJECT.json` names the module and the configuration of every run.
