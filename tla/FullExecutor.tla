---------------------------- MODULE FullExecutor ----------------------------
(***************************************************************************)
(* full_executor.rs: runs of the host CLI that share a cache directory and *)
(* execute the same block.  A run with an RPC URL is a FullExecutor, one   *)
(* with a cache directory only is a CachedExecutor.  The runs are          *)
(* processes of their own: nothing keeps them from overlapping, and any of *)
(* them may be killed.                                                     *)
(*                                                                         *)
(* A file is written and read in Chunks pieces.  A run writes at its own   *)
(* offset, so writing past the end of a file that another run truncated    *)
(* leaves a gap that reads as zeros.                                       *)
(***************************************************************************)
EXTENDS Integers, Sequences

CONSTANTS
  Proc,         \* the runs
  Assignments,  \* the settings the runs may be started with
  Chunks,       \* bound of the model: pieces of a cached client input
  Nobody        \* the writer of a piece that was not written

\* genesis.rs: one of the named chains of Ethereum's kind, OpMainnet, or the
\* contents of a genesis file.
Genesis == {"named", "op", "custom"}

\* The command line of a run and its environment: --rpc-url, --chain-id,
\* whether RPC_{chain_id} is set, --genesis-path ("custom"), --cache-dir,
\* --prove, --opcode-tracking.
Config == [url : BOOLEAN, chainId : BOOLEAN, env : BOOLEAN, genesis : Genesis,
           cache : BOOLEAN, prove : BOOLEAN, opcode : BOOLEAN]

Piece == 1..Chunks

ASSUME CacheAssumption ==
  /\ Assignments \subseteq [Proc -> Config]
  /\ Chunks \in Nat \ {0}
  /\ Nobody \notin Proc

VARIABLES
  config,   \* the settings of each run
  pc,       \* where each run stands
  exists,   \* whether the cache file exists
  creator,  \* the run that last created or truncated the file
  others,   \* the runs that were in the middle of writing it then
  file,     \* the writer of each piece of the file
  offset,   \* the pieces a run has written
  got,      \* the pieces a run has read, by writer
  input     \* the client input of a run

fileVars == <<exists, creator, others, file>>
vars == <<config, pc, fileVars, offset, got, input>>

\* What the runs tell apart of a client input: its opcode_tracking flag, its
\* genesis, and whether the guest accepts the rest of it (see HostExecutor).
ClientInput == [opcode : BOOLEAN, genesis : Genesis, sound : BOOLEAN]

NoInput == [opcode |-> FALSE, genesis |-> "named", sound |-> FALSE]

\* The mutant takes the chain id of a custom genesis from its file.
MutHasChainId(g) == TRUE

\* u64::try_from(&genesis).
HasChainId(g) == g # "custom"

\* ChainSpec::try_from(&genesis).
HasSpec(g) == g # "op"

Ends == {"ok", "err", "panicked", "killed"}

\* as_config: the RPC is the given one, or that of the environment for the
\* given chain.
Full(p) == config[p].url \/ (config[p].chainId /\ config[p].env)

Goto(p, label) == pc' = [pc EXCEPT ![p] = label]

TypeOK ==
  /\ config \in Assignments
  /\ pc \in [Proc -> {"build", "load", "read", "host", "create", "write", "client"}
                       \union Ends]
  /\ exists \in BOOLEAN
  /\ creator \in Proc \union {Nobody}
  /\ others \in SUBSET Proc
  /\ file \in [Piece -> Proc \union {Nobody}]
  /\ offset \in [Proc -> 0..Chunks]
  /\ got \in [Proc -> Seq(Proc \union {Nobody})]
  /\ input \in [Proc -> ClientInput]

Init ==
  /\ config \in Assignments
  /\ pc = [p \in Proc |-> "build"]
  /\ exists = FALSE /\ creator = Nobody /\ others = {}
  /\ file = [i \in Piece |-> Nobody]
  /\ offset = [p \in Proc |-> 0]
  /\ got = [p \in Proc |-> <<>>]
  /\ input = [p \in Proc |-> NoInput]

-----------------------------------------------------------------------------
(* as_config, build_executor, and the start of execute *)

\* Either the RPC or the command line names the chain.  Then the chain spec is
\* made for the EVM, and with an RPC URL a FullExecutor is built, without one
\* a CachedExecutor if there is a cache directory; a FullExecutor calls
\* on_execution_start.
Build(p) ==
  /\ pc[p] = "build"
  /\ config[p].url \/ config[p].chainId
  /\ HasSpec(config[p].genesis)
  /\ Full(p) \/ config[p].cache
  /\ Goto(p, IF config[p].cache THEN "load" ELSE "host")
  /\ UNCHANGED <<config, fileVars, offset, got, input>>

\* as_config or build_executor: neither is given, the chain is unknown, its RPC
\* does not tell it, a URL or the genesis file cannot be read.
BuildFails(p) ==
  /\ pc[p] = "build"
  /\ Goto(p, "err")
  /\ UNCHANGED <<config, fileVars, offset, got, input>>

\* try_new: the keys' setup, or in a FullExecutor the hook.
SetupFails(p) ==
  /\ pc[p] = "build"
  /\ config[p].url \/ config[p].chainId
  /\ HasSpec(config[p].genesis)
  /\ Full(p) \/ config[p].cache
  /\ Goto(p, "err")
  /\ UNCHANGED <<config, fileVars, offset, got, input>>

\* create_eth_block_execution_strategy_factory unwraps the chain spec: there
\* is none for OpMainnet, nor for a file that is not a genesis.
BuildPanics(p) ==
  /\ pc[p] = "build"
  /\ config[p].genesis # "named"
  /\ Goto(p, "panicked")
  /\ UNCHANGED <<config, fileVars, offset, got, input>>

-----------------------------------------------------------------------------
(* try_load_input_from_cache and what each executor makes of its result *)

\* Nothing to load: a FullExecutor runs the host, a CachedExecutor fails.
Missed(p) == Goto(p, IF Full(p) THEN "host" ELSE "err")

Load(p) ==
  /\ pc[p] = "load"
  /\ IF exists THEN Goto(p, "read") ELSE Missed(p)
  /\ UNCHANGED <<config, fileVars, offset, got, input>>

\* The mutant keeps the flag the input was cached with.
MutTake(p, in) == in

\* The flag of the user overrides the cached one, in a FullExecutor.
Take(p, in) == IF Full(p) THEN [in EXCEPT !.opcode = config[p].opcode] ELSE in

ReadPiece(p) ==
  LET next == Len(got[p]) + 1
  IN  /\ pc[p] = "read"
      /\ next \in Piece
      /\ \E i \in next..Chunks : file[i] # Nobody
      /\ got' = [got EXCEPT ![p] = Append(@, file[next])]
      /\ UNCHANGED <<config, pc, fileVars, offset, input>>

\* The mutant takes the last piece for the end of the file.
MutReadEof(p) ==
  LET next == Len(got[p]) + 1
  IN  /\ pc[p] = "read"
      /\ next \in Piece
      /\ \A i \in (next + 1)..Chunks : file[i] = Nobody
      /\ Missed(p)
      /\ UNCHANGED <<config, fileVars, offset, got, input>>

\* The file ends before the input does: deserialize_from fails.
ReadEof(p) ==
  LET next == Len(got[p]) + 1
  IN  /\ pc[p] = "read"
      /\ next \in Piece
      /\ \A i \in next..Chunks : file[i] = Nobody
      /\ Missed(p)
      /\ UNCHANGED <<config, fileVars, offset, got, input>>

\* The input of the run that wrote every piece.
Parse(p) ==
  /\ pc[p] = "read"
  /\ \E w \in Proc :
       /\ got[p] = [i \in Piece |-> w]
       /\ input' = [input EXCEPT ![p] = Take(p, input[w])]
  /\ Goto(p, "client")
  /\ UNCHANGED <<config, fileVars, offset, got>>

\* Pieces of several inputs, or gaps: deserialize_from fails, or it returns
\* whatever they make.
ParseGarbled(p) ==
  /\ pc[p] = "read"
  /\ Len(got[p]) = Chunks
  /\ ~\E w \in Proc : got[p] = [i \in Piece |-> w]
  /\ \/ Missed(p) /\ UNCHANGED input
     \/ /\ \E in \in ClientInput : input' = [input EXCEPT ![p] = Take(p, in)]
        /\ Goto(p, "client")
  /\ UNCHANGED <<config, fileVars, offset, got>>

-----------------------------------------------------------------------------
(* FullExecutor: the host, and saving its input *)

\* HostExecutor::execute unwraps the chain id of the genesis and returns an
\* input, which the guest may yet reject.
HostOk(p) ==
  /\ pc[p] = "host"
  /\ HasChainId(config[p].genesis)
  /\ \E sound \in BOOLEAN :
       input' = [input EXCEPT ![p] = [opcode |-> config[p].opcode,
                                      genesis |-> config[p].genesis, sound |-> sound]]
  /\ Goto(p, IF config[p].cache THEN "create" ELSE "client")
  /\ UNCHANGED <<config, fileVars, offset, got>>

HostFails(p) ==
  /\ pc[p] = "host"
  /\ \E end \in {"err", "panicked"} :
       /\ end = "err" => HasChainId(config[p].genesis)
       /\ Goto(p, end)
  /\ UNCHANGED <<config, fileVars, offset, got, input>>

\* create_dir_all if the folder is missing, and File::create, which truncates.
Create(p) ==
  /\ pc[p] = "create"
  /\ exists' = TRUE
  /\ creator' = p
  /\ others' = {q \in Proc : pc[q] = "write"}
  /\ file' = [i \in Piece |-> Nobody]
  /\ Goto(p, "write")
  /\ UNCHANGED <<config, offset, got, input>>

CreateFails(p) ==
  /\ pc[p] = "create"
  /\ Goto(p, "err")
  /\ UNCHANGED <<config, fileVars, offset, got, input>>

\* The mutant takes a short write for the whole.
MutShortWrite(p) ==
  /\ pc[p] = "write"
  /\ offset[p] < Chunks
  /\ file' = [file EXCEPT ![offset[p] + 1] = p]
  /\ offset' = [offset EXCEPT ![p] = Chunks]
  /\ Goto(p, "client")
  /\ UNCHANGED <<config, exists, creator, others, got, input>>

\* The mutant writes one piece too many.
MutLongWrite(p) ==
  /\ pc[p] = "write"
  /\ offset[p] <= Chunks
  /\ file' = [file EXCEPT ![offset[p] + 1] = p]
  /\ offset' = [offset EXCEPT ![p] = @ + 1]
  /\ IF offset'[p] > Chunks THEN Goto(p, "client") ELSE UNCHANGED pc
  /\ UNCHANGED <<config, exists, creator, others, got, input>>

\* serialize_into writes the next piece at the run's offset.
WritePiece(p) ==
  /\ pc[p] = "write"
  /\ offset[p] < Chunks
  /\ file' = [file EXCEPT ![offset[p] + 1] = p]
  /\ offset' = [offset EXCEPT ![p] = @ + 1]
  /\ IF offset'[p] = Chunks THEN Goto(p, "client") ELSE UNCHANGED pc
  /\ UNCHANGED <<config, exists, creator, others, got, input>>

\* A write fails; what was written stays.
WriteFails(p) ==
  /\ pc[p] = "write"
  /\ Goto(p, "err")
  /\ UNCHANGED <<config, fileVars, offset, got, input>>

-----------------------------------------------------------------------------
(* process_client *)

\* The guest has a chain spec and a chain id for the input's genesis, accepts
\* the rest of it, and no hook fails.  Proving needs ELF_ID, which only
\* FullExecutor::try_new sets.
ClientOk(p) ==
  /\ pc[p] = "client"
  /\ input[p].sound
  /\ HasSpec(input[p].genesis) /\ HasChainId(input[p].genesis)
  /\ config[p].prove => Full(p)
  /\ Goto(p, "ok")
  /\ UNCHANGED <<config, fileVars, offset, got, input>>

\* The guest rejects the input, the prover fails or a hook does.
ClientFails(p) ==
  /\ pc[p] = "client"
  /\ config[p].prove => Full(p)
  /\ Goto(p, "err")
  /\ UNCHANGED <<config, fileVars, offset, got, input>>

\* ELF_ID.get().unwrap() on nothing, or without --prove the dump of the
\* program, which unwraps its writes.
ClientPanics(p) ==
  /\ pc[p] = "client"
  /\ config[p].prove => ~Full(p)
  /\ Goto(p, "panicked")
  /\ UNCHANGED <<config, fileVars, offset, got, input>>

-----------------------------------------------------------------------------

\* The process is killed.
Kill(p) ==
  /\ pc[p] \notin Ends
  /\ Goto(p, "killed")
  /\ UNCHANGED <<config, fileVars, offset, got, input>>

Finished ==
  /\ \A p \in Proc : pc[p] \in Ends
  /\ UNCHANGED vars

Step(p) ==
  \/ Build(p) \/ BuildFails(p) \/ SetupFails(p) \/ BuildPanics(p) \/ Load(p)
  \/ ReadPiece(p) \/ ReadEof(p) \/ Parse(p) \/ ParseGarbled(p)
  \/ HostOk(p) \/ HostFails(p)
  \/ Create(p) \/ CreateFails(p) \/ WritePiece(p) \/ WriteFails(p)
  \/ ClientOk(p) \/ ClientFails(p) \/ ClientPanics(p)

Next == Finished \/ \E p \in Proc : Step(p) \/ Kill(p)

Spec == Init /\ [][Next]_vars

-----------------------------------------------------------------------------
(* Properties *)

\* The run that last truncated the file has written all its pieces.
Settled == exists /\ offset[creator] = Chunks

\* Once the run that last truncated the file has written its input, the file
\* has no gap, whatever runs were killed or failed in the middle of writing
\* it before or since; and if no other run was writing when it truncated the
\* file, the file is its input and nothing else.
CacheIntegrity ==
  Settled =>
    /\ \A i \in Piece : file[i] # Nobody
    /\ others = {} => \A i \in Piece : file[i] = creator

\* A run that reads such a file, and has read none of its predecessor, gets
\* its input: no CachedExecutor fails, no FullExecutor asks the RPC again.
UndamagedCacheLoads ==
  [][\A p \in Proc :
       /\ Settled /\ others = {}
       /\ \A i \in DOMAIN got[p] : got[p][i] = creator
       /\ pc[p] \in {"load", "read"}
       => pc'[p] \in {"load", "read", "client", "killed"}]_vars

\* With an RPC URL the client runs with the opcode tracking its user asked
\* for, whoever cached the input and with whatever setting.
OpcodeAsAsked ==
  \A p \in Proc :
    Full(p) /\ pc[p] \in {"client", "ok"} => input[p].opcode = config[p].opcode

\* The name of the cache file holds the chain and the block, not the genesis;
\* yet runs with --genesis-path and runs without may share it: what any run
\* writes into it was executed under the genesis of the named chain, and so is
\* what any run takes from a file that one run wrote undisturbed.
CacheIsOfTheChain ==
  \A p \in Proc :
    /\ pc[p] \in {"create", "write"} \/ offset[p] > 0 => input[p].genesis = "named"
    /\ \A w \in Proc :
         pc[p] \in {"client", "ok"} /\ got[p] = [i \in Piece |-> w]
           => input[p].genesis = "named"

\* cli.rs documents --prove as "Whether to generate a proof or just execute
\* the block", and the client input may come from the cache: a run with a
\* cached input and --prove can prove it.
ProveOffline ==
  \A p \in Proc : ~Full(p) /\ config[p].prove => pc[p] # "panicked"
=============================================================================
