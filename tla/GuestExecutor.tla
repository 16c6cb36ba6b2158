---------------------------- MODULE GuestExecutor ----------------------------
(***************************************************************************)
(* What the guest program accepts (crates/executor/guest): the checks of   *)
(* witness_db and ClientExecutor::execute on a client input, over a chain  *)
(* whose blocks, bodies and hashes are given by constants.                 *)
(*                                                                         *)
(* A block stands for its hash, so equal hashes are equal blocks; a state  *)
(* stands for its state root.  A location is an account's info (nonce and  *)
(* balance), its code or its storage.  A partial trie is the full state    *)
(* its root commits to and the accounts whose path is resolved: reading    *)
(* an unresolved one panics.  The checks reth's consensus makes of a       *)
(* header and a body on their own are assumed to pass for every Block.     *)
(***************************************************************************)
EXTENDS Integers, Sequences

CONSTANTS
  Block,             \* the blocks of every fork
  Addr, Value,       \* accounts, and the values a location can hold
  Number,            \* Number[b]: the number in the header of b
  Parent,            \* Parent[b]: the parent hash in the header of b
  StateOf,           \* StateOf[b]: the state root in the header of b
  Receipts,          \* Receipts[b]: the receipts root, gas used and bloom of b
  Reads,             \* Reads[b]: the locations the transactions of b read
  HashReads,         \* HashReads[b]: the block numbers they ask the hash of
  Run(_, _, _)       \* revm on a block, the values and the hashes it reads

Part == {"info", "code", "storage"}

Location == Addr \X Part

State == [Location -> Value]

\* The functions from some of S to V.
PartialMap(S, V) == UNION {[D -> V] : D \in SUBSET S}

\* The accounts a block touches: revm loads an account before it writes it.
Touched(b) == {l[1] : l \in Reads[b]}

\* The accounts a set of writes changes.
Changed(writes) == {l[1] : l \in DOMAIN writes}

\* EthereumState::update: the bundle's accounts and slots over the state.
Overlay(state, writes) ==
  [l \in Location |-> IF l \in DOMAIN writes THEN writes[l] ELSE state[l]]

ASSUME ChainAssumption ==
  /\ Number \in [Block -> Nat]
  /\ StateOf \in [Block -> State]
  /\ Parent \in [Block -> Block]
  /\ Reads \in [Block -> SUBSET Location]
  /\ HashReads \in [Block -> SUBSET Nat]

\* The values come from a full state, the hashes from the chain below b.
ASSUME WritesAssumption ==
  \A b \in Block : \A values \in [Reads[b] -> Value] :
    \A hashes \in [HashReads[b] -> Block] :
      /\ Changed(Run(b, values, hashes).writes) \subseteq Touched(b)
      /\ Run(b, values, hashes).writes \in PartialMap(Location, Value)

-----------------------------------------------------------------------------
(* WitnessInput::witness_db *)

\* A client input is a record of the block (current), the ancestor headers from
\* the parent down (ancestors), the partial state trie (state, resolved), the
\* storage tries of some accounts (storage) and some bytecodes (codes), which
\* witness_db keys by their own hashes.

\* sealed_headers: the current header, then its ancestors.
SealedHeaders(in) == <<in.current>> \o in.ancestors

\* The state trie hashes to the state root of the first ancestor.
StateAnchored(in) ==
  /\ in.ancestors # <<>>
  /\ StateOf[in.ancestors[1]] = in.state

\* Each storage trie hashes to the storage root of its account.
StorageAnchored(in) ==
  \A a \in DOMAIN in.storage :
    /\ a \in in.resolved
    /\ in.state[<<a, "storage">>] = in.storage[a]

\* The mutant trusts the order of the headers.
MutHeadersLinked(in) ==
  \A i \in 1..Len(in.ancestors) :
    Number[SealedHeaders(in)[i + 1]] = Number[SealedHeaders(in)[i]] - 1

\* Each header is the parent of the one before it.
HeadersLinked(in) ==
  \A i \in 1..Len(in.ancestors) :
    /\ Number[SealedHeaders(in)[i + 1]] = Number[SealedHeaders(in)[i]] - 1
    /\ SealedHeaders(in)[i + 1] = Parent[SealedHeaders(in)[i]]

\* The numbers whose hash the guest can answer, and the answers.
HashNumbers(in) == {Number[in.ancestors[i]] : i \in 1..Len(in.ancestors)}

HashOf(in, n) ==
  in.ancestors[CHOOSE i \in 1..Len(in.ancestors) : Number[in.ancestors[i]] = n]

-----------------------------------------------------------------------------
(* ClientExecutor::execute *)

\* TrieDB: the account comes from the state trie, its code from the bytecodes
\* by its hash, and the slots from the storage trie of the account; the code
\* and the trie must have been provided.
Readable(in) ==
  /\ Touched(in.current) \subseteq in.resolved
  /\ Touched(in.current) \subseteq DOMAIN in.storage
  /\ \A l \in Reads[in.current] : l[2] = "code" => in.state[l] \in in.codes
  /\ HashReads[in.current] \subseteq HashNumbers(in)

GuestRun(in) ==
  Run(in.current,
      [l \in Reads[in.current] |->
         IF l[2] = "storage" THEN in.storage[l[1]] ELSE in.state[l]],
      [n \in HashReads[in.current] |-> HashOf(in, n)])

\* The execution passes validate_block_post_execution, no update meets an
\* unresolved node, and the updated trie hashes to the header's state root.
RunsToHeader(in) ==
  /\ GuestRun(in).receipts = Receipts[in.current]
  /\ Changed(GuestRun(in).writes) \subseteq in.resolved
  /\ Overlay(in.state, GuestRun(in).writes) = StateOf[in.current]

\* verify_block commits the block hash: every check of the guest passes.
GuestAccepts(in) ==
  /\ StateAnchored(in)
  /\ StorageAnchored(in)
  /\ HeadersLinked(in)
  /\ Readable(in)
  /\ RunsToHeader(in)
=============================================================================
