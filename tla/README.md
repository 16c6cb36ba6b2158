# Formal verification of reth-processor

TLA+ specifications of reth-processor, the program that executes Ethereum blocks against an RPC
node, packs what the execution needs into a client input, and runs the same execution inside a zkVM.
TLC checks the specifications on small instances; TLAPS proves the theorems of the `*Proofs` modules
for every value of the constants. All paths below are paths of the repository, under `src/`.

## 1. The system

| Component | State | Operations | Talks to |
|---|---|---|---|
| Continuous driver, `bin/continuous/src/main.rs` | block number, semaphore, failure flag, one task per block | loop: acquire, spawn, check the flag; task: wait for the block, execute with retries, alert, raise the flag, return the permit | full executor (call), tasks (semaphore, relaxed atomic), PagerDuty |
| Alerting, `crates/executor/host/src/alerting.rs` | – | `send_alert`, awaited, errors only logged | PagerDuty (HTTP) |
| Host executor, `crates/executor/host/src/host_executor.rs` | locals of `execute` | fetch block and parent, execute, check receipts and state root, fetch ancestors, build the input | RPC database, RPC provider |
| Basic RPC database, `crates/storage/rpc-db/src/basic.rs` | accounts and slots read, oldest ancestor asked for | account, slot and hash reads; `state` (proofs before and after); `ancestor_headers` | RPC provider, by block number |
| Execution-witness RPC database, `crates/storage/rpc-db/src/execution_witness.rs`, `crates/mpt/src/execution_witness.rs` | tries of `debug_executionWitness` | the same interface, behind a cargo feature | RPC provider |
| Guest executor, `crates/executor/guest/src/{executor,io,lib}.rs`, `bin/guest` | the client input | `witness_db` (anchor, storage roots, header links), execution on the tries, receipts and state root | zkVM: commits the block hash |
| Full and cached executor, `crates/executor/host/src/full_executor.rs` | cache file per chain and block, `ELF_ID` | load or build the input, save it, prove or execute the client, call hooks | host executor, file system, prover |
| Host CLI, `bin/host/src/{main,cli}.rs`, `crates/primitives/src/genesis.rs` | – | resolve the configuration, build an executor, execute one block | full or cached executor |
| Merkle Patricia trie, `crates/mpt/src/mpt.rs` | nodes, cached references | get, insert, delete, hash, decode, tries from proofs | – |
| Ethereum state, `crates/mpt/src/lib.rs` | state trie, storage tries | `from_transition_proofs`, `update`, `state_root` | trie |
| Hooks and CSV report, `crates/executor/host/src/{hooks,bins/persist_report_hook}.rs` | report file shared by runs | append a header if the file is empty, append a record | file system |
| eth-proofs driver, `bin/eth-proofs/src/{main,cli,eth_proofs}.rs` | place in the header stream, the block in hand, detached posts | one block at a time: wait, report queued, execute, report proving and proved, alert a failure | websocket, HTTP provider, full executor, proofs API, PagerDuty |
| Block validation and conversion, custom EVM, opcode tracking, provider, type wiring | – | calls into reth, revm and alloy | – |
| `crates/storage/witness-db` | – | not used by any crate of the workspace | – |

**What is hard here.** (1) *Reads that are not a snapshot.* Everything is fetched by block number in
dozens of calls; a reorganisation of the provider's chain between two of them mixes forks in one
input. (2) *Threads.* Permits, a relaxed flag and an alert order the tasks of the driver; a task can
end by success, failure, unwinding or cancellation. (3) *A file shared by processes.* The cached
input is written in place, without a lock and without a rename; runs overlap and may be killed.
(4) *Two verifiers.* The host checks less than the guest, so it can return inputs the guest rejects.
(5) *Partial tries.* Reading, inserting and deleting work only where the proofs resolved the trie.
(6) *A stream that does not wait.* The eth-proofs driver proves blocks in the loop that reads the
headers, and reports in tasks that nobody joins.
`PROJECT.json` lists each hazard at its line, with the properties that cover it.

**What makes each component correct.**

* Driver: blocks start in order, none is skipped or started twice, at most the configured number is
  in flight, a failure is alerted before it stops the driver and stops it soon, no permit leaks.
* Host executor with the guest: an accepted input is a snapshot of one chain; an attempt on a stable
  chain always yields an accepted input; the retries suffice for as many disturbances as they allow.
* Full and cached executor: a completely written cache file is one run's input and is loaded; the
  settings of the user win over those the input was cached with.
* Trie and state: the operations agree with a map from keys to values; what can be read, inserted
  and deleted with the proofs at hand covers what the block does.
* Report: a record has the columns of the header; every successful run leaves one record.
* eth-proofs: each block of the interval is reported queued, proving and proved, in order.

## 2. Modules and runs

| Module | What it is |
|---|---|
| `ProofReports` | what the proofs API can learn from the eth-proofs driver |
| `EthProofs`, `MCEthProofs`, `EthProofsProofs` | the eth-proofs driver, its instance, its theorems |
| `BlockPipeline` | what the driver promises, without threads |
| `Continuous`, `MCContinuous`, `ContinuousProofs` | the driver, its instance, its theorems |
| `GuestExecutor` | what the guest accepts: predicates over a client input |
| `HostExecutor`, `MCHostExecutor`, `HostExecutorProofs` | the host collecting an input from a changing chain, composed with the guest's verdict and the driver's retry |
| `FullExecutor`, `MCFullExecutor`, `FullExecutorProofs` | runs of the host CLI sharing a cache file |
| `ReportFile`, `MCReportFile`, `ReportFileProofs` | runs of the host CLI appending to one report |
| `Mpt` | the sparse Merkle Patricia trie: a function from the path of each node to its data |
| `PathProofs`, `MptProofs` | lemmas about sequences of nibbles and their encoding; theorems about the operations of `Mpt` |
| `EthereumState`, `MCEthereumState`, `EthereumStateProofs` | tries from proofs or a witness, and `update` on them; their instance, their theorems |

`GuestExecutor` and `HostExecutor` see the tries as a map with resolved locations; `Mpt` and
`EthereumState` justify that view: what they show of nodes (lookups are right or unresolved, the
root after an update is that of the overlay) is what the other two take for granted.

### 2.1 The driver: `Continuous`

State: where the loop stands (`driver`, `block`), the semaphore (`permits`), the flag (`failed`), and
per block where its task stands, its retry count and its result. One action per await or shared
access: `Acquire`, `Spawn`, `CheckPanic`/`CheckPass` (the loop), `WaitOk`, `WaitErr`, `ExecOk`,
`ExecErr`, `ExecPanic`, `SendAlert`, `StoreFlag`, `DropPermit`, `Cancel` (a task), `NewBlock` (the
chain). `Ordering::Relaxed` is modelled by letting `CheckPass` miss a raised flag unless a permit
was acquired after the storing task returned its own, which is the only ordering the code creates
(`synced`). After the panic of `main` the tasks go on until the dropped runtime cancels each of them.

Properties: `PermitConservation`, `ExitIsExplained` (invariants); `ImplementsPipeline` (refinement of
`BlockPipeline` with a slack of two starts after a reported failure: the permit in hand, and the one
whose acquire makes the store visible); `FailureStopsDriver`, `EveryBlockEnds` (liveness).

Fairness: weak fairness of the loop, of each task and of the chain's growth. tokio polls every
ready task; that RPC calls, executions and the alert's request return is an assumption of the model
and stated at `Fairness` (reqwest sets no timeout; a hanging alert keeps the driver from stopping).
`FailureStopsDriver` is only claimed while a block below `LastBlock` is left: the endless loop of the
code always has a next iteration in which to see the flag.

Bounds: four blocks, two permits, one retry. Two permits are the least with which a failing and a
running task overlap while the loop holds neither; four blocks leave two to be started after a
failure, which is the slack. `LastBlock` bounds the run: the loop of the code is endless.

### 2.2 Host and guest: `GuestExecutor`, `HostExecutor`

A block stands for its hash and a state for its root (hashes are taken to be injective). A state maps
locations, an account's info or its storage, to values; a partial trie is a full state together with the accounts
whose path is resolved. The EVM is the constant operator `Run`, a function of the block, the values
and the block hashes it reads; nothing is assumed of it but that it changes only accounts it loaded.
reth's consensus checks of a header and body on their own are assumed to pass for every block.

`HostExecutor` follows `HostExecutor::execute` call by call: `FetchCurrent`, `FetchPrevious`,
`ReadState`, `ReadHash`, `Execute`, `FetchProof` (the proof of one account at the parent),
`FetchAfterProof` (at the block), `StateMismatch`/`BuildState`, `FetchAncestor`, `ReturnInput`; then
`RunGuest` applies `GuestAccepts`, and `process_block` starts over (`Retry`) until `retries` exceeds
`MaxRetries`, when it returns the error (`GiveUp`); a panic ends the task at once. Between any two steps,
`Reorg` changes the chain the provider serves and `RpcFault` fails a call. What is read of an account
are its info, its storage and its code, each a location of its own. The root node of the state trie
is the one of the last proof in hash map order, so any of them; an account proved on another fork is
resolved if its path happens to agree. An account whose deletion needs an orphaned node that no
after-proof brings is not `DeletionsResolved`: `BuildState` may then panic, or compute another root.
These are the accounts for which the execution writes `Zero`, to themselves or to a slot (`Deleted`).

The host does not run the checks of the guest: it compares the state root and the receipts, but
neither the parent's hash nor the storage roots nor whether all that was read is resolved. So after a
reorganisation it may return an input the guest rejects. `RejectedIsTorn` bounds the difference: this
happens only if no chain gives all the answers the input was made of.

Properties:

* `AcceptedIsOneChain`: whatever happened while it was collected, an accepted input is one chain's.
* `RejectedIsTorn`: whatever happened, an input made of one chain's answers is not rejected. The
  after-proofs may be of another fork; they serve the host's own update alone.
* `StableAttemptSucceeds`: an undisturbed attempt takes no step to an error, a panic or a rejection.
* `EventuallyVerified` (liveness): if the provider has the block throughout, and reorganisations and
  faults are fewer than the `MaxRetries + 2` attempts, the block is verified and not given up. The
  only other end is the panic below, and only with proofs of two forks (`TornProofs`).
* `ExecutionIsRetried` is violated (run `host_panic`). A reorganisation between two calls of
  `get_proof` leaves a changed account unresolved under the right root; `update` unwraps, the task
  panics, and the block is lost without one of its retries and without an alert.

Fairness: weak fairness of `Step`: the task is polled, and the calls return. Reorganisations and
faults are bounded (`MaxReorgs`, `MaxFaults`); as both together may exceed the attempts, `GiveUp` is
reached as well.

Bounds: blocks 1 to 3, three forks and one chain that lacks block 3, two accounts, values 0 to 2, two
reorganisations, one fault and one retry, which is the default. The forks are chosen so that parents
differ in state, or only in their header and grandparent, and on one of them the block removes an
account; two reorganisations let a fork be left and returned to. `host_panic` has two forks without a
removal, so that only a path left unresolved can panic.

### 2.3 Full and cached executor: `FullExecutor`

Each run is a process with its command line and environment; all of them execute the same block of
the same chain with the same cache directory. `Full` resolves the RPC as `as_config` does: the given
one, or that of `RPC_{chain_id}`. `Build` picks the executor, and `BuildFails`, `SetupFails` and
`BuildPanics` are the ends before it runs: `main` unwraps the chain spec, which OpMainnet and a file
that is no genesis do not have. `Load`, `ReadPiece`, `ReadEof`, `Parse`, `ParseGarbled` are
`try_load_input_from_cache`; `HostOk`, `HostFails` the host; `Create`, `WritePiece` the save;
`ClientOk`, `ClientFails`, `ClientPanics` the end in `process_client`. `Kill` stops a run anywhere. The file
is a sequence of pieces, each known by the run that wrote it. Reading is assumed to meet no I/O error.

A genesis is one of the named chains of Ethereum's kind, OpMainnet, or a file. The cache key does not
hold it, and `CacheIsOfTheChain` says why that does no harm: the host panics on the chain id of a
custom genesis (`HostFails`, host_executor.rs:76), so what is cached under a chain is always of the
chain's own genesis. It also means that `--genesis-path` cannot work: with a cached input the file
is ignored, and without one the run panics.

A run without an RPC URL keeps the opcode tracking flag of the input it loads (`Take`), whatever
`--opcode-tracking` says; README.md:40 does not say so.

Properties: `CacheIntegrity`, `UndamagedCacheLoads`, `OpcodeAsAsked`, `CacheIsOfTheChain`;
`ProveOffline` is violated (run `cached_prove`). What a file of several writers parses as
(`ParseGarbled`), a damaged file that a cached run meets each time, and a cached input the guest
rejects are in the model; no property speaks of them, as the code promises nothing there. No liveness is claimed: a run may be killed at any time.

Bounds: three runs, three pieces (a gap between two written pieces needs three), four assignments
of settings that between them have runs with and without RPC URL, cache, genesis file, `--prove` and
opcode tracking.

### 2.4 The report: `ReportFile`

Each run of the CLI is a process: `Execute` (the client), `Open` (the file is opened for appending
and its length read), `Write` (header and record into the csv writer), `Flush`, and `Fail` and `Kill`
anywhere before the end. The file is a sequence of cells, a cell being what one `write_record` leaves
in it. It is assumed that header and record are handed over in one append, as together they fit the
writer's buffer of 8 KiB (some 150 opcodes make about 3 KB of header and less of record). `HeaderColumns` and `RecordColumns` count
what `write_header` and `write_record` push, for every setting. The csv writer is not flexible: a
record of another length than the header of the same run is refused, after its fields were buffered
and before they are terminated.

Properties: `HeaderLeads`, `RecordIsKept` (one terminated record per successful run, for ever),
`NoLateHeader` (a second header only from runs that overlapped while the report was empty; the code
allows that), `OpcodeTable`. No fairness, no liveness: a run may be killed at any time.

Bounds: three runs, so that two may find the file empty and a third comes later; settings uniform or mixed;
five opcodes and four syscalls stand for the numbers revm and the zkVM define, as only their multiples
matter.

### 2.5 Trie and state: `Mpt`, `EthereumState`

A trie of `Mpt` is the function from the path of each of its nodes to the node's data, together with
the references that are cached. The children of a branch are the nodes one nibble further, the child
of an extension is the node at the end of its nibbles, and Null is the empty function. So where the
code walks down recursively, the node it ends at is the last one on the `Way` of the key (`End`), and
what it rebuilds on its way back is a change of the function at a few paths: `Split`, `RemoveLeaf`
and `Collapse` are the cases of `insert_internal` and `delete_internal`, in the code's order. The
code's recursion is thereby unrolled, which is what makes the operations provable.

The cached references are a part of the state because a stale one is the hazard of `insert` and
`delete`: `Changed` drops those on the way to the key, which is where the code calls
`invalidate_ref_cache`, and `Reference` believes whatever is cached. Paths go through the compact
encoding, with its parity, at each step the code encodes or decodes them. A hash is injective, so the
reference of a node is modelled by the trie below it. Keys are hashed in the program and have one
length. A leaf shorter than 32 bytes stands in its parent instead of its digest (`ShortLeafs`,
`Embedded`): with hashed keys this happens to small values nine nibbles deep, as in a storage trie of
some hundred thousand slots. Such a leaf is decoded with its parent and is no element of a proof; it
may cross the limit when its value changes, its branch collapses or it is split. Extensions and
branches are never that short. `Canonical`, the trie of a map defined from the map alone (the paths at
which keys part are its branches), is the reference definition.

`EthereumState` has the two ways to build tries, `BuildFromProofs` (`transition_proofs_to_tries`) and
`BuildFromWitness` (`build_validated_tries`), and `update` as one action per account and per slot in
any order: the code iterates over hash maps, whose order differs between host and guest. `unwrap` of
a failed operation is the state "panic".

Properties: `RootIsRight` (against `Canonical` of the state after), `TouchedIsResolved` (nothing
unwrapped fails with proofs of one chain), `LookupIsSound` (also between two changes and with proofs
of two forks: a lookup is right or reports that it is unresolved). The storage half of
`LookupIsSound` and `RootIsRight` are claimed where the storage was provided (`StorageProvided`):
a witness may omit it, and then it is taken for empty, which is what the run `witness_storage` shows.
`RootIsRight` and `TouchedIsResolved` are claimed for proofs of one chain (`OneChain`), which is what
the guest makes sure of (`AcceptedIsOneChain`).

Assumptions: `KeysAssumption` (hashed addresses have one length, and so have hashed slots: `to_nibs`
of a `B256`), `TransitionsAssumption` (a transition starts and ends in states, which store no slot of
value zero, and changes nothing but what was touched, except that a wiped account loses its slots: the
meaning of the `HashedPostState` that `update` is given), `ShortLeafsAssumption` (a leaf of the same
value with fewer nibbles is not longer). TLC evaluates them on the instances.

Bounds: five keys of four nibbles that make nested branches, extensions of odd and even length and
a branch of three; leaves of the value 1 with at most one nibble, or of the value 2 with none, are
short; every change of at most three of them, with proofs of one chain; every change of at
most two with proofs torn between two forks. The paths of real keys differ only in length. The
empty state is left out for witnesses: no chain has one.

### 2.6 The eth-proofs driver: `EthProofs`

The chain grows and is announced (`NewBlock`, `Reannounce` after a reorganisation, `Close` when the
WS provider gives up); the HTTP provider serves it later (`Serve`). The subscription is a broadcast
channel that keeps the last `Capacity` headers: `Receive` takes the oldest one left, skips those the
interval does not select, and takes the first it does; `ReceivePanics` is the division by an interval
of zero, `StreamEnds` the end of the loop. One block is in hand at a time: `WaitOk`, `WaitFails`,
`Start` (`on_execution_start`: the post "queued"), `HostOk` (`on_proving_start`: "proving"),
`ProveOk` ("proved", with the proof), `ClientOk` without `--prove`, `ExecuteErr` and `ExecutePanics`,
and `SendAlert`. A post is a task that nobody joins: `Deliver`, `Refuse` (an answer that is not
retried), `Unreachable` and `Unanswered` (retried, and in the second case the report has arrived all
the same); when `main` ends, `Cancel` drops those under way.

Properties: `ImplementsReports` (refinement of `ProofReports`: jobs one after another, phases in
order, "proved" only with a proof, no report arrives more often than it is tried); `MissedByLagOnly`
(a selected header is passed over only if the buffer overran); `FailuresAreAlerted`;
`EveryHeaderIsHandled` and `ReportsArrive` (liveness).

Fairness: weak fairness of `main`, of the HTTP provider catching up, and of each post. That
executions, proofs and HTTP requests return is assumed at `Fairness`: neither client sets a timeout.
Announcements are not fair, and every property that could be lost with the process names the exit.

Bounds: two blocks, three headers, one of them announced again, a buffer of one, one retry, two
faults; an interval of two with proving and alerts, of one without either, and of zero. A buffer of
one is overrun by two headers while a block is in hand; with two faults and one retry a report is
given up, or arrives twice. The code retries three times and the channel holds more headers; both
are constants of the theorems.

### 2.7 Runs

| Run | Result | Shows |
|---|---|---|
| `continuous` | passes, 173,993 states | section 2.1 |
| `continuous_retries` | violation | a block is retried `execution_retries + 1` times |
| `continuous_panic` | violation | a panicking task does not stop the driver |
| `host_executor` | passes, 35,510 states | section 2.2 |
| `host_panic` | violation | a reorganisation between two proofs panics the task, and its block is never retried |
| `full_executor` | passes, 1,476,833 states | section 2.3 |
| `cached_prove` | violation | a cached run with `--prove` panics |
| `report_file` | passes, 5,340 states | section 2.4 |
| `report_columns` | violation | without opcode tracking the first run of a new report fails: its header has ten cycle columns, its record nine |
| `ethereum_state` | passes, 55,948 states | section 2.5 |
| `witness_storage` | violation | paying a contract whose storage the witness omits gives a wrong state root |
| `eth_proofs` | passes, 196,500 states | section 2.6 |

Every violation is a disagreement of the code with its documentation or an evident intention; the
`findings` of `PROJECT.json` quote the lines.

## 3. Proofs

| Theorem | Argument |
|---|---|
| `ContinuousProofs!TypeCorrect` | `TypeOK` with the fact that a task of a live state is of a block already started |
| `ContinuousProofs!PermitsConserved` | `TypeOK` and the conservation equation are inductive; each action changes the set of live tasks by at most one block, and a lemma gives the cardinality |
| `ContinuousProofs!ExitExplained` | a raised flag is explained by a failed and, with alerting, alerted block; a task at "flag" or past it with an error has been alerted |
| `ContinuousProofs!Refinement` | initial states map to initial states, each step to a pipeline step or a stutter; needs that blocks below the loop's are started and above it are not, conservation for the limit of running blocks, and that a pass of the check after synchronisation is impossible |
| `HostExecutorProofs!TypeCorrect` | `TypeOK`, with the bound of `retries`; the writes stay within the accounts read by the assumption on `Run` |
| `HostExecutorProofs!RejectedTorn` | what the host has checked when it returns an input is kept (`BuiltInv`: the block passed its receipts, the root is the parent's, accounts proved under it are resolved; `RejectionInv`: the rejected input is still there, and `GuestAccepts` refuses it); if one chain gave every answer, the input is that chain's snapshot, which by `ValidOn` passes each check of the guest (`SnapshotAccepted`) |
| `HostExecutorProofs!AcceptedOneChain` | whatever the ancestors were fetched from, as long as each is the parent of the one before they are those of every chain with the block (`AncestryInv`, a header at a time, so no induction over the list is left); the block is from some chain, and the root comparison of the host ties the writes to it; the guest's checks give the links, the parent's state and the storage |
| `HostExecutorProofs!StableAttempts` | while `stable` holds, everything fetched so far is what `canon` gives: block, parent, values, hashes, proofs, ancestors; with `ValidOn` each check of host and guest then succeeds |
| `FullExecutorProofs!TypeCorrect` | `TypeOK` |
| `FullExecutorProofs!CacheIsIntact` | the pieces below the creator's offset are written, and by the creator alone as long as no older writer is left; a run writes in order and truncates only on creation |
| `FullExecutorProofs!OpcodeIsAsked` | the flag of the input of a run with an RPC URL is its setting from the moment it has an input |
| `FullExecutorProofs!CachedGenesis` | a run that writes holds an input of a named genesis from then on; each piece in the file, and each piece that was read, is of such a run; an input of one writer is that writer's |
| `ReportFileProofs!TypeCorrect` | the file has at most two cells per run that has appended, by cardinality |
| `ReportFileProofs!HeaderFirst` | a run between its test and its append that saw content is right, since the file only grows; so the first append comes from a run that writes a header |
| `ReportFileProofs!RecordKept` | every record is of a run that has appended, so the one a run appends is its first, and no append changes earlier cells |
| `ReportFileProofs!OpcodeColumns` | every line has four columns and three per opcode, so the writer accepts each record; an append adds such lines to such lines |
| `ReportFileProofs!HeadersAreEarly` | from the moment a report has settled every run between its test and its append has seen content, and appends a record only |
| `EthProofsProofs!TypeCorrect` | a report arrives at most once per attempt (`CountInv`), and the job in hand is the last one main came to (`OrderInv`) |
| `EthProofsProofs!MissedByLag` | `Receive` passes over selected headers only by falling off the buffer, and the stream only grows |
| `EthProofsProofs!FailuresAlerted` | a failed job without an alert is the one in hand, at "alert" |
| `EthProofsProofs!Refinement` | the posts of the job in hand follow the loop and those of later jobs have not begun (`StageInv`): each step is a phase, an arrival or a stutter |
| `FullExecutorProofs!UndamagedLoads` | from `CacheIsIntact`: neither the end of the file nor a garbled input can be met |
| `PathProofs!EncodedPath` | `prefix_nibs` gives back the nibbles `to_encoded_path` was given, and the decoder's test (`SaysLeaf`) whether they were a leaf's, in even or odd number; by cases of parity and position, and by the arithmetic of the flag byte |
| `MptProofs!LookupIsExact` | on a well-formed trie the nodes on the way to a key are those at prefixes of it, so the last one is a leaf of the key, a digest, or shows that there is none |
| `MptProofs!InsertIsRight`, `MptProofs!DeleteIsRight` | they fail only if a digest stands on the way to the key (never with `ValueInBranch`); otherwise the leaves change at the key alone, the trie stays well-formed, the digests stay where they are, and every cached reference that is kept is of a node below which nothing changed. One lemma says when replacing what is below a path keeps the shape (`Shape`); each case of the code is an instance of it |
| `MptProofs!CanonicalIsTrie` | the trie of a map is well-formed and its leaves are the map's entries |
| `MptProofs!OneTrie` | two well-formed tries with the same leaves and no digests are the same trie; so the root depends on the map alone, and not on the order of the changes |
| `EthereumStateProofs!TypeCorrect` | `TypeOK` with the fact that the account `update` is at has a storage trie (`Inv`); for proofs of whatever chains |
| `EthereumStateProofs!NothingUnwrappedFails` | resolving reaches every key whose proof is in the store, and no change puts a digest where none was (`ReachInv`) |
| `EthereumStateProofs!LookupsAreSound` | every leaf that is reached has the value it should have by now, slot by slot and account by account (`LeafInv`) |
| `EthereumStateProofs!RootsAreRight` | `RootInv`, below |

`RootsAreRight` is the deepest of these. A partial trie stands for a whole one: `Whole(F, f)` puts
the nodes of the trie `F` of the state before the block in the place of the digests of `f`. As long
as the digests and the cached references are those of nodes of `F` (`IsOver`, `IsCached`), the
reference of the partial trie is its whole (`ReferenceIsWhole`). The invariant `IsUnderway(n, new,
old, keys, store, len)` says of a trie that this is so, that what is resolved of it is the new map for
the `keys` applied so far and the old one for the others, that nothing left unresolved is in the
store, and that an extension leads to a digest only if a branch is behind it or it is next to a
deleted key. It holds of what is built from proofs or from a witness, and each insertion, deletion and
hash keeps it (`StepIsUnderway`, `HashedIsUnderway`). What could go wrong is the last part: a deletion
collapses a branch onto a digest that hides a leaf or an extension, and the trie would then not have
the shape of a canonical one. When everything is applied this cannot be (`UnderwayEnds`): such an
orphan is, with its path shortened by some nibbles, the last node of the deleted key's
non-inclusion proof after the block (`OrphanIsFound`), which is what `add_orphaned_leafs` puts into
the store, or a sibling that the witness brings (`SiblingIsStored`); either way it would have been
resolved. Then the whole is a trie with the leaves of the new map, and by `OneTrie` it is the
canonical one. The storage roots come first, as the state trie's values hold them.

Induction: a few lemmas need a least or a longest prefix. The library's induction theorems take an
operator and are out of reach, but that every set of naturals has a least element (`LeastNat`) suffices.

The assumptions are the named `ASSUME`s of the modules; TLC evaluates them in every run whose module
extends theirs.

Every safety property and every action property of the passing runs is proved, each for all values of
the constants. Only model-checked: the liveness properties (`FailureStopsDriver`, `EveryBlockEnds`,
`EventuallyVerified`, `EveryHeaderIsHandled`, `ReportsArrive`), as fairness and `ENABLED` are out of
the prover's reach, and the six properties that are violated.

## 4. Not modelled

* reth's consensus rules, revm, alloy's transport and retries, the zkVM and its prover: external.
* Block validation (`into_primitives.rs`): calls of reth's rules, assumed to pass for every block of
  a chain. What is hard about it lies in those rules: on Linea an error that is swallowed
  (`handle_custom_chains`) also skips whatever reth would have checked after it. The checks of a
  header against its parent that tell forks apart, hash and number, are in `GuestExecutor`.
* The custom EVM and the opcode inspector (`custom.rs`, `tracking/`): construction of revm with
  another beneficiary, another precompile table and an inspector that prints; `Run` stands for it.
* Conversions between RPC, consensus and primitive types, and the fork tables of the genesis.
* Of the continuous CLI: the resolution of chain and genesis, which is that of the host CLI.
* Of the Merkle Patricia trie: RLP, size and debug output, and the constructors nothing calls (`proofs_to_tries`, `from_proofs`, `from_account_proof`).
* Logging, metrics, texts of errors and alerts.
* Of the execution-witness database: its maps of codes and headers; its tries are modelled.
* `crates/storage/witness-db`: unused. The retry layer of `crates/provider` is alloy's: a call that
  fails beyond it is a fault of the model.

## 5. Plan

1. (done) `BlockPipeline`, `Continuous`: the driver and its refinement.
2. (done) `GuestExecutor`, `HostExecutor`: the input under reorganisations.
3. (done) `FullExecutor`: the cache.
4. (done) `ReportFile`: runs appending to one CSV file.
5. (done) `Mpt`, `EthereumState`: nodes with unresolved digests; tries from proofs and from a witness.
6. (done) `EthProofs`, `ProofReports`: the stream driver, its detached posts, and their refinement.
7. (done) Command line and genesis in `FullExecutor`; embedded leaves in `Mpt`; proofs of
   `AcceptedIsOneChain`, `OpcodeTable`, `NoLateHeader`, `CacheIsOfTheChain`.
8. (done) `Mpt` by paths instead of recursion; the theorems about its operations, and every
   invariant of `EthereumState`.
9. Theorems about the functions the specifications rest on that no run's property names: that
   `from_proofs` and the witness resolve what `HostExecutor` takes for resolved, and what
   `GuestAccepts` and `as_config` give for every input.
10. The code and header maps of the execution-witness database, with the block hashes they answer.
