---------------------------- MODULE HostExecutor ----------------------------
(***************************************************************************)
(* HostExecutor::execute and BasicRpcDb: the host builds the client input  *)
(* of block N by many RPC calls, each of them by block number, so each is  *)
(* answered from the chain that is canonical when it is made.  The chain   *)
(* may reorganise between any two of them and a call may fail.  The guest  *)
(* then judges the input, and process_block executes the block again after *)
(* an error until its retries are used up.                                 *)
(***************************************************************************)
EXTENDS GuestExecutor

CONSTANTS
  N,             \* the number of the block to execute
  Chains,        \* the chains the provider may serve: ch[n] is block n
  Zero,          \* the value of a slot or an account that is not there
  MaxRetries,    \* max_retries of process_block
  MaxReorgs,     \* bound of the model: reorganisations
  MaxFaults,     \* bound of the model: failing RPC calls
  NoBlock        \* current and previous before they are fetched

\* Block N of a chain passes the checks of its own execution.
ValidOn(ch) ==
  LET out == Run(ch[N], [l \in Reads[ch[N]] |-> StateOf[ch[N - 1]][l]],
                 [n \in HashReads[ch[N]] |-> ch[n]])
  IN  /\ HashReads[ch[N]] \subseteq 1..(N - 1)
      /\ out.receipts = Receipts[ch[N]]
      /\ Overlay(StateOf[ch[N - 1]], out.writes) = StateOf[ch[N]]

\* Block 1 is the oldest block of the model.  Each chain holds the parent of
\* block N, and where it holds block N that block is valid on it.
ASSUME ChainsAssumption ==
  /\ N \in Nat /\ N >= 2
  /\ MaxRetries \in Nat /\ MaxReorgs \in Nat /\ MaxFaults \in Nat
  /\ NoBlock \notin Block
  /\ \A ch \in Chains :
       /\ ch \in Seq(Block)
       /\ Len(ch) >= N - 1
       /\ \A n \in 1..Len(ch) : Number[ch[n]] = n
       /\ \A n \in 2..Len(ch) : Parent[ch[n]] = ch[n - 1]
       /\ N \in DOMAIN ch => ValidOn(ch)

VARIABLES
  canon,      \* the chain the provider serves
  reorgs,     \* reorganisations so far
  faults,     \* failed RPC calls so far
  stable,     \* no reorganisation since this attempt started
  retries,    \* retry_count of process_block
  pc,         \* where execute stands
  current,    \* current_block
  previous,   \* previous_block
  values,     \* accounts and storage of BasicRpcDb: the values read
  hashes,     \* the block hashes read
  oldest,     \* oldest_ancestor: the parent, or the oldest block asked for
  writes,     \* the bundle state of the execution
  proofs,     \* per account, the block its before-proof was made for
  afters,     \* per account, the block its after-proof was made for
  trie,       \* the state, the resolved accounts and the storage tries
  ancestors   \* ancestor_headers

world == <<canon, reorgs, faults, stable, retries>>
blocks == <<current, previous>>
reads == <<values, hashes, oldest>>
proven == <<proofs, afters>>
fetched == <<blocks, reads, writes, proven, trie, ancestors>>
vars == <<world, pc, fetched>>

Empty == [x \in {} |-> x]

\* f with k mapped to v.
Put(f, k, v) == [x \in DOMAIN f \union {k} |-> IF x = k THEN v ELSE f[x]]

NoTrie == [state |-> Empty, resolved |-> {}, storage |-> Empty]

Fresh ==
  /\ current = NoBlock /\ previous = NoBlock
  /\ values = Empty /\ hashes = Empty /\ oldest = N - 1 /\ writes = Empty
  /\ proofs = Empty /\ afters = Empty /\ trie = NoTrie /\ ancestors = <<>>

Init ==
  /\ canon \in Chains
  /\ reorgs = 0 /\ faults = 0 /\ stable = TRUE /\ retries = 0
  /\ pc = "current"
  /\ Fresh

\* The height ancestor_headers fetches next, going down from the parent.
NextHeight == N - 1 - Len(ancestors)

Input ==
  [ current |-> current, ancestors |-> ancestors, state |-> trie.state,
    resolved |-> trie.resolved, storage |-> trie.storage,
    codes |-> {values[l] : l \in {k \in DOMAIN values : k[2] = "code"}} ]

-----------------------------------------------------------------------------

FetchCurrent ==
  /\ pc = "current"
  /\ N \in DOMAIN canon
  /\ current' = canon[N]
  /\ pc' = "previous"
  /\ UNCHANGED <<world, previous, reads, writes, proven, trie, ancestors>>

FetchPrevious ==
  /\ pc = "previous"
  /\ previous' = canon[N - 1]
  /\ pc' = "execute"
  /\ UNCHANGED <<world, current, reads, writes, proven, trie, ancestors>>

\* get_block_by_number answered None: ExpectedBlock, or for an after-proof an
\* error of the provider.
MissingBlock ==
  /\ \/ pc = "current"
     \/ pc = "proofs" /\ DOMAIN afters # DOMAIN proofs
  /\ N \notin DOMAIN canon
  /\ pc' = "err"
  /\ UNCHANGED <<world, fetched>>

\* fetch_account_info, which asks for the account and its code in two calls,
\* fetch_storage_at: CacheDB asks once per location.
ReadState(l) ==
  /\ pc = "execute"
  /\ l \in Reads[current] \ DOMAIN values
  /\ values' = Put(values, l, StateOf[canon[N - 1]][l])
  /\ UNCHANGED <<world, pc, blocks, hashes, oldest, writes, proven, trie, ancestors>>

\* The mutant reaches one block too far.
MutReadHashBefore(n) ==
  /\ pc = "execute"
  /\ n \in HashReads[current] \ DOMAIN hashes
  /\ n \in DOMAIN canon
  /\ hashes' = Put(hashes, n, canon[n])
  /\ oldest' = IF n < oldest THEN n - 1 ELSE oldest
  /\ UNCHANGED <<world, pc, blocks, values, writes, proven, trie, ancestors>>

\* The mutant does not move oldest_ancestor.
MutReadHashOldest(n) ==
  /\ pc = "execute"
  /\ n \in HashReads[current] \ DOMAIN hashes
  /\ n \in DOMAIN canon
  /\ hashes' = Put(hashes, n, canon[n])
  /\ UNCHANGED <<world, pc, blocks, values, oldest, writes, proven, trie, ancestors>>

\* fetch_block_hash
ReadHash(n) ==
  /\ pc = "execute"
  /\ n \in HashReads[current] \ DOMAIN hashes
  /\ n \in DOMAIN canon
  /\ hashes' = Put(hashes, n, canon[n])
  /\ oldest' = IF n < oldest THEN n ELSE oldest
  /\ UNCHANGED <<world, pc, blocks, values, writes, proven, trie, ancestors>>

\* The block has run on the values read; validate_block_post_execution.
Execute ==
  /\ pc = "execute"
  /\ Reads[current] \subseteq DOMAIN values
  /\ HashReads[current] \subseteq DOMAIN hashes
  /\ LET out == Run(current, values, hashes)
     IN  /\ writes' = out.writes
         /\ pc' = IF out.receipts = Receipts[current] THEN "proofs" ELSE "err"
  /\ UNCHANGED <<world, blocks, reads, proven, trie, ancestors>>

\* get_proof at the parent for the next account that was read.
FetchProof(a) ==
  /\ pc = "proofs"
  /\ DOMAIN afters = DOMAIN proofs
  /\ a \in Touched(current) \ DOMAIN proofs
  /\ proofs' = Put(proofs, a, canon[N - 1])
  /\ UNCHANGED <<world, pc, blocks, reads, writes, afters, trie, ancestors>>

\* get_proof at the block for the same account.
FetchAfterProof(a) ==
  /\ pc = "proofs"
  /\ a \in DOMAIN proofs \ DOMAIN afters
  /\ N \in DOMAIN canon
  /\ afters' = Put(afters, a, canon[N])
  /\ UNCHANGED <<world, pc, blocks, reads, writes, proofs, trie, ancestors>>

\* Both proofs of every account that was read are there.
ProofsComplete ==
  DOMAIN proofs = Touched(current) /\ DOMAIN afters = DOMAIN proofs

\* transition_proofs_to_tries: the trie must hash to previous_block's root.
Anchors(root) == root = StateOf[previous]

\* The account's path is resolved in the trie of root: by a proof for that
\* root, or by chance when its account is the same under both.
ProofResolves(a, root) == StateOf[proofs[a]] = root

MayResolve(a, root) ==
  \A part \in Part :
    StateOf[proofs[a]][<<a, part>>] = root[<<a, part>>]

\* The root node is that of the last proof in HashMap order, or the digest of
\* previous_block's root if no account was read.
RootNodes ==
  IF DOMAIN proofs = {} THEN {StateOf[previous]}
  ELSE {StateOf[proofs[a]] : a \in DOMAIN proofs}

\* from_transition_proofs fails.
StateMismatch ==
  /\ pc = "proofs"
  /\ ProofsComplete
  /\ \E root \in RootNodes : ~Anchors(root)
  /\ pc' = "err"
  /\ UNCHANGED <<world, fetched>>

\* The accounts that are removed, or lose a slot.
Deleted(out) == {l[1] : l \in {k \in DOMAIN out : out[k] = Zero}}

\* The leaves of the after-proofs are those the deletions leave behind.  With
\* proofs of another state a deletion may meet an unresolved sibling, which it
\* wraps wrongly: the root is wrong, or a later step panics below it.
DeletionsResolved ==
  \A a \in Deleted(writes) : StateOf[afters[a]] = StateOf[current]

\* from_transition_proofs succeeds, the copy of the state is updated (an
\* unresolved node panics) and the state root is compared.
BuildState ==
  /\ pc = "proofs"
  /\ ProofsComplete
  /\ \E root \in RootNodes :
       /\ Anchors(root)
       /\ \E resolved \in SUBSET Touched(current) :
            /\ \A a \in Touched(current) :
                 /\ ProofResolves(a, root) => a \in resolved
                 /\ a \in resolved => MayResolve(a, root)
            /\ trie' = [ state |-> root, resolved |-> resolved,
                         storage |-> [a \in Touched(current) |->
                                        StateOf[proofs[a]][<<a, "storage">>]] ]
            /\ \/ /\ (Changed(writes) \subseteq resolved) => ~DeletionsResolved
                  /\ pc' = "panic"
               \/ /\ Changed(writes) \subseteq resolved
                  /\ pc' = IF Overlay(root, writes) = StateOf[current]
                           THEN "ancestors" ELSE "err"
               \/ /\ ~DeletionsResolved
                  /\ pc' = "err"
  /\ UNCHANGED <<world, blocks, reads, writes, proven, ancestors>>

\* ancestor_headers, one block of its loop.
FetchAncestor ==
  /\ pc = "ancestors"
  /\ NextHeight >= oldest
  /\ ancestors' = Append(ancestors, canon[NextHeight])
  /\ UNCHANGED <<world, pc, blocks, reads, writes, proven, trie>>

\* The header is derived from current_block and the state root that was just
\* compared, so its hash is the expected one; the input is returned.
ReturnInput ==
  /\ pc = "ancestors"
  /\ NextHeight < oldest
  /\ pc' = "guest"
  /\ UNCHANGED <<world, fetched>>

\* The guest program runs on the input.
RunGuest ==
  /\ pc = "guest"
  /\ pc' = IF GuestAccepts(Input) THEN "accepted" ELSE "rejected"
  /\ UNCHANGED <<world, fetched>>

\* An RPC call fails beyond the provider's own retries.
RpcFault ==
  /\ pc \in {"current", "previous", "execute", "proofs", "ancestors"}
  /\ faults < MaxFaults
  /\ faults' = faults + 1
  /\ pc' = "err"
  /\ UNCHANGED <<canon, reorgs, stable, retries, fetched>>

\* process_block, the Err branch of its second loop: the block is executed
\* again from nothing.
Retry ==
  /\ pc \in {"err", "rejected"}
  /\ retries <= MaxRetries
  /\ retries' = retries + 1
  /\ pc' = "current"
  /\ stable' = TRUE
  /\ current' = NoBlock /\ previous' = NoBlock
  /\ values' = Empty /\ hashes' = Empty /\ oldest' = N - 1 /\ writes' = Empty
  /\ proofs' = Empty /\ afters' = Empty /\ trie' = NoTrie /\ ancestors' = <<>>
  /\ UNCHANGED <<canon, reorgs, faults>>

\* The mutant counts the first attempt as a retry.
MutGiveUp ==
  /\ pc \in {"err", "rejected"}
  /\ retries >= MaxRetries
  /\ pc' = "failed"
  /\ UNCHANGED <<world, fetched>>

\* The same branch with the retries used up: process_block returns the error.
GiveUp ==
  /\ pc \in {"err", "rejected"}
  /\ retries > MaxRetries
  /\ pc' = "failed"
  /\ UNCHANGED <<world, fetched>>

\* The provider's view of the chain changes.
Reorg ==
  /\ reorgs < MaxReorgs
  /\ canon' \in Chains \ {canon}
  /\ reorgs' = reorgs + 1
  /\ stable' = FALSE
  /\ UNCHANGED <<faults, retries, pc, fetched>>

\* The block is verified or given up, or the task has unwound, which nothing
\* catches below process_block.
Ended ==
  /\ pc \in {"accepted", "failed", "panic"}
  /\ UNCHANGED vars

Step ==
  \/ FetchCurrent \/ FetchPrevious \/ MissingBlock
  \/ \E l \in Location : ReadState(l)
  \/ \E n \in 1..(N - 1) : ReadHash(n)
  \/ Execute
  \/ \E a \in Addr : FetchProof(a) \/ FetchAfterProof(a)
  \/ StateMismatch \/ BuildState
  \/ FetchAncestor \/ ReturnInput \/ RunGuest \/ Retry \/ GiveUp

Next == Step \/ RpcFault \/ Reorg \/ Ended

Spec == Init /\ [][Next]_vars

\* The executor's task is polled to its end, and process_block retries.
FairSpec == Spec /\ WF_vars(Step)

-----------------------------------------------------------------------------
(* Properties *)

PartialTries ==
  [ state    : State \union {Empty},
    resolved : SUBSET Addr,
    storage  : PartialMap(Addr, Value) ]

TypeOK ==
  /\ canon \in Chains
  /\ reorgs \in 0..MaxReorgs
  /\ faults \in 0..MaxFaults
  /\ stable \in BOOLEAN
  /\ retries \in 0..(MaxRetries + 1)
  /\ pc \in {"current", "previous", "execute", "proofs", "ancestors", "guest",
            "accepted", "rejected", "err", "failed", "panic"}
  /\ current \in Block \union {NoBlock}
  /\ previous \in Block \union {NoBlock}
  /\ values \in PartialMap(Location, Value)
  /\ hashes \in PartialMap(1..(N - 1), Block)
  /\ oldest \in 1..(N - 1)
  /\ writes \in PartialMap(Location, Value)
  /\ proofs \in PartialMap(Addr, Block)
  /\ afters \in PartialMap(Addr, Block)
  /\ trie \in PartialTries
  /\ ancestors \in Seq(Block)

\* Whatever the provider served while the input was put together, an input the
\* guest accepts is a snapshot of one chain: its block, the block's ancestors
\* without a gap, and the parent's state; and the host's own run read nothing
\* from another fork that made a difference.
AcceptedIsOneChain ==
  pc = "accepted" =>
    \E ch \in Chains :
      /\ Len(ch) >= N /\ ch[N] = current
      /\ \A i \in DOMAIN ancestors : ancestors[i] = ch[N - i]
      /\ trie.state = StateOf[ch[N - 1]]
      /\ Overlay(StateOf[ch[N - 1]], writes) = StateOf[ch[N]]

\* Each answer the host was given while it put the input together is the one
\* chain ch would have given, whichever chain gave it.  The after-proofs, which
\* only help the host's own update, are left out.
AnsweredAsBy(ch) ==
  /\ N \in DOMAIN ch /\ current = ch[N]
  /\ StateOf[previous] = StateOf[ch[N - 1]]
  /\ \A l \in DOMAIN values : values[l] = StateOf[ch[N - 1]][l]
  /\ \A n \in DOMAIN hashes : hashes[n] = ch[n]
  /\ \A a \in DOMAIN proofs : StateOf[proofs[a]] = StateOf[ch[N - 1]]
  /\ \A i \in DOMAIN ancestors : ancestors[i] = ch[N - i]

\* The host checks less than the guest: the receipts and the state root, but
\* neither the parent hashes, nor the storage roots, nor that every read is
\* resolved and every code there.  Yet the guest rejects what the host returns
\* only if no chain gives all the answers it was made of: with answers of one
\* chain, though others came between and after-proofs came from elsewhere,
\* what the host leaves unchecked is right.
RejectedIsTorn ==
  pc = "rejected" => ~\E ch \in Chains : AnsweredAsBy(ch)

\* While the chain stays as it is and no call fails, an attempt neither errs
\* nor panics, and the guest accepts what the host returns: everything the
\* guest demands, down to each ancestor whose hash was read, is in the input.
StableAttemptSucceeds ==
  [][stable /\ N \in DOMAIN canon /\ faults' = faults
       => (pc' \in {"err", "panic", "rejected"} => pc' = pc)]_vars

\* Some account was proved against another state than that of the block's
\* parent, or afterwards than that of the block.
TornProofs ==
  \E a \in DOMAIN proofs :
    \/ StateOf[proofs[a]] # StateOf[previous]
    \/ a \in DOMAIN afters /\ StateOf[afters[a]] # StateOf[current]

\* process_block does not give up too early: if the provider always has the
\* block and fewer than MaxRetries + 2 reorganisations and faults happen, as
\* many as there are attempts, then one attempt gets the block verified.
\* Proofs of two forks that make the task panic are the only other end.
EventuallyVerified ==
  [](N \in DOMAIN canon /\ reorgs + faults <= MaxRetries + 1)
    => <>(pc = "accepted" \/ (pc = "panic" /\ TornProofs))

\* cli.rs:35 documents execution_retries as "Retry count on failed execution":
\* a block is lost only after its retries.
ExecutionIsRetried ==
  pc \in {"failed", "panic"} => retries > MaxRetries

=============================================================================
