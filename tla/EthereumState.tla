--------------------------- MODULE EthereumState ---------------------------
(***************************************************************************)
(* lib.rs and execution_witness.rs of the mpt crate: the partial tries of  *)
(* a state are put together from the proofs of the touched accounts and    *)
(* slots, or from an execution witness; then the changes of the block are  *)
(* applied to them, account by account and slot by slot in the order of a  *)
(* hash map, which may be another in the guest than it was in the host.    *)
(***************************************************************************)
EXTENDS Mpt

CONSTANTS
  Addr,          \* the hashed addresses
  Slot,          \* the hashed slots
  Transitions    \* the transitions to apply

(***************************************************************************)
(* A state maps the addresses of its accounts to an info and to the slots  *)
(* that are not zero.  A transition has                                    *)
(*   source    where the tries are from: "proofs" or "witness"             *)
(*   before    the state of the parent                                     *)
(*   after     the state of the block                                      *)
(*   wiped     the accounts that were destroyed and created again          *)
(*   slots     for each touched account the slots that were touched        *)
(*   parents   for each of them the state its before-proofs are from       *)
(*   afters    and the state its after-proofs are from                     *)
(***************************************************************************)

StorageOf(s, a) == IF a \in DOMAIN s THEN s[a].storage ELSE [k \in {} |-> 0]

ValueAt(storage, k) == IF k \in DOMAIN storage THEN storage[k] ELSE 0

Word(v) == [word |-> v]

(* What a state is, and what tells the transitions apart. *)

IsState(s) ==
  /\ DOMAIN s \subseteq Addr
  /\ \A a \in DOMAIN s :
       /\ DOMAIN s[a].storage \subseteq Slot
       /\ \A k \in DOMAIN s[a].storage : s[a].storage[k] # 0

\* The block changes nothing but what it touches; an account that is wiped
\* loses its slots.
IsTransition(tr) ==
  /\ tr.source \in {"proofs", "witness"}
  /\ IsState(tr.before) /\ IsState(tr.after)
  /\ DOMAIN tr.slots \subseteq Addr
  /\ \A a \in DOMAIN tr.slots :
       tr.slots[a] \subseteq Slot /\ IsState(tr.parents[a]) /\ IsState(tr.afters[a])
  /\ \A a \in Addr \ DOMAIN tr.slots :
       /\ a \in DOMAIN tr.before <=> a \in DOMAIN tr.after
       /\ a \in DOMAIN tr.after => tr.before[a] = tr.after[a]
  /\ \A a \in DOMAIN tr.slots \intersect DOMAIN tr.after, k \in Slot :
       k \notin tr.slots[a] =>
         ValueAt(StorageOf(tr.after, a), k) =
           IF a \in tr.wiped THEN 0 ELSE ValueAt(StorageOf(tr.before, a), k)
  /\ tr.source = "witness" =>
       DOMAIN tr.before # {} /\ \A a \in DOMAIN tr.slots : tr.parents[a] = tr.before

\* to_nibs of a hash has always the same length.
ASSUME KeysAssumption ==
  \A keys \in {Addr, Slot} : keys \subseteq Path /\ \A j, k \in keys : Len(j) = Len(k)

ASSUME TransitionsAssumption == \A tr \in Transitions : IsTransition(tr)

StorageRoot(storage) == Canonical([k \in DOMAIN storage |-> Word(storage[k])])

TrieAccount(info, root) == [info |-> info, storage_root |-> root]

StateRoot(s) ==
  Canonical([a \in DOMAIN s |-> TrieAccount(s[a].info, StorageRoot(s[a].storage))])

VARIABLES
  t,              \* the transition
  pc,             \* where building and updating stand
  state_trie,
  storage_tries,  \* by account
  accounts,       \* the changed accounts that update has not come to
  account,        \* the account it is at, if any
  slots           \* the changed slots of account that are not applied

tries == <<state_trie, storage_tries>>
todo == <<accounts, account, slots>>
vars == <<t, pc, tries, todo>>

Touched == DOMAIN t.slots

\* The accounts of the HashedPostState.
ChangedAccounts ==
  {a \in Touched :
     \/ a \in t.wiped
     \/ (a \in DOMAIN t.before) # (a \in DOMAIN t.after)
     \/ a \in DOMAIN t.before /\ t.before[a] # t.after[a]}

\* The slots of its storage.
ChangedSlots(a) ==
  {k \in t.slots[a] :
     \/ a \in t.wiped
     \/ ValueAt(StorageOf(t.before, a), k) # ValueAt(StorageOf(t.after, a), k)}

Init ==
  /\ t \in Transitions
  /\ pc = "build"
  /\ state_trie = Null
  /\ storage_tries = [a \in {} |-> Null]
  /\ accounts = {} /\ account = {} /\ slots = {}

-----------------------------------------------------------------------------
(* transition_proofs_to_tries *)

\* The nodes of the proofs of some keys.
ProofNodes(root, keys) == UNION {Proof(root, k) : k \in keys}

\* The mutant does not add the leaves a deletion leaves behind.
MutStorageNodes(a) ==
  ProofNodes(StorageRoot(StorageOf(t.parents[a], a)), t.slots[a])

\* The nodes the storage trie of an account is put together from.
StorageNodes(a) ==
  LET after == StorageRoot(StorageOf(t.afters[a], a))
  IN  ProofNodes(StorageRoot(StorageOf(t.parents[a], a)), t.slots[a])
        \union UNION {OrphanedLeafs(after, k) : k \in ChangedSlots(a)}

\* The storage trie; it is only a root if no slot was touched.
StorageTrie(a) ==
  LET root == StorageRoot(StorageOf(t.parents[a], a))
  IN  IF t.slots[a] = {} THEN NodeFromDigest(root)
      ELSE ResolveNodes(root, StorageNodes(a))

StateNodes ==
  UNION {LET after == StateRoot(t.afters[a])
         IN  Proof(StateRoot(t.parents[a]), a) \union OrphanedLeafs(after, a) : a \in Touched}

\* The root node is that of whichever account comes last.
StateTries ==
  LET nodes == StateNodes
  IN  IF Touched = {} THEN {NodeFromDigest(StateRoot(t.before))}
      ELSE {ResolveNodes(StateRoot(t.parents[a]), nodes) : a \in Touched}

BuildFromProofs ==
  /\ pc = "build"
  /\ t.source = "proofs"
  /\ \E trie \in StateTries :
       /\ Reference(trie) = StateRoot(t.before)
       /\ state_trie' = Hashed(trie)
  /\ storage_tries' = [a \in Touched |-> Hashed(StorageTrie(a))]
  /\ accounts' = ChangedAccounts
  /\ pc' = "update"
  /\ UNCHANGED <<t, account, slots>>

MismatchedStateRoot ==
  /\ pc = "build"
  /\ t.source = "proofs"
  /\ \E trie \in StateTries : Reference(trie) # StateRoot(t.before)
  /\ pc' = "err"
  /\ UNCHANGED <<t, tries, todo>>

-----------------------------------------------------------------------------
(* build_validated_tries *)

\* With the nodes on the way to the keys, those next to them.
WithSiblings(nodes) ==
  LET children(n) == {Below(n, p) : p \in {q \in DOMAIN n : Len(q) = 1}}
  IN  nodes \union {e \in UNION {children(n) : n \in {m \in nodes : m[<<>>] = Branch}} :
                      ~Embedded(e)}

\* The state of debug_executionWitness: nothing of an account's storage is in
\* it unless one of its slots was touched.
Witness ==
  WithSiblings(ProofNodes(StateRoot(t.before), Touched))
    \union UNION {WithSiblings(ProofNodes(StorageRoot(StorageOf(t.before, a)), t.slots[a])) :
                    a \in Touched}

\* The resolved leaves of the state trie whose storage root is in the witness
\* get a storage trie.
BuildFromWitness ==
  /\ pc = "build"
  /\ t.source = "witness"
  /\ LET nodes == Witness
         root == StateRoot(t.before)
         trie == IF root \in nodes THEN ResolveNodes(root, nodes)
                 ELSE Trie([p \in {<<>>} |-> Digest(root)])
         leaves == {l \in Leaves(trie) : l[2].storage_root \in nodes}
     IN  /\ state_trie' = Hashed(trie)
         /\ storage_tries' =
              [a \in {l[1] : l \in leaves} |->
                 LET l == CHOOSE m \in leaves : m[1] = a
                 IN  Hashed(ResolveNodes(l[2].storage_root, nodes))]
  /\ accounts' = ChangedAccounts
  /\ pc' = "update"
  /\ UNCHANGED <<t, account, slots>>

-----------------------------------------------------------------------------
(* update *)

\* The result of an operation on a trie is unwrapped.
Unwrap(result) == pc' = IF result.error = "none" THEN "update" ELSE "panic"

Entry(a) == IF a \in DOMAIN storage_tries THEN storage_tries[a] ELSE Null

\* The mutant does not take the account from the list.
MutStartAccount(a) ==
  /\ pc = "update" /\ account = {}
  /\ a \in accounts \intersect DOMAIN t.after
  /\ storage_tries' = With(storage_tries, a, IF a \in t.wiped THEN Null ELSE Entry(a))
  /\ account' = {a} /\ slots' = ChangedSlots(a)
  /\ UNCHANGED <<t, pc, state_trie, accounts>>

\* An account that is there after the block: its storage trie is taken, or
\* made, and cleared if it was wiped.
StartAccount(a) ==
  /\ pc = "update" /\ account = {}
  /\ a \in accounts \intersect DOMAIN t.after
  /\ storage_tries' = With(storage_tries, a, IF a \in t.wiped THEN Null ELSE Entry(a))
  /\ account' = {a} /\ accounts' = accounts \ {a} /\ slots' = ChangedSlots(a)
  /\ UNCHANGED <<t, pc, state_trie>>

\* One slot of its storage.
ApplySlot(a, k) ==
  /\ pc = "update" /\ account = {a} /\ k \in slots
  /\ LET value == ValueAt(StorageOf(t.after, a), k)
         result == IF value = 0 THEN DeleteInternal(storage_tries[a], k)
                   ELSE InsertInternal(storage_tries[a], k, Word(value))
     IN  /\ storage_tries' = With(storage_tries, a, result.trie)
         /\ Unwrap(result)
  /\ slots' = slots \ {k}
  /\ UNCHANGED <<t, state_trie, accounts, account>>

\* The storage trie is hashed and the account inserted.
InsertAccount(a) ==
  /\ pc = "update" /\ account = {a} /\ slots = {}
  /\ LET storage == Hashed(storage_tries[a])
         value == TrieAccount(t.after[a].info, Reference(storage))
         result == InsertInternal(state_trie, a, value)
     IN  /\ storage_tries' = With(storage_tries, a, storage)
         /\ state_trie' = result.trie
         /\ Unwrap(result)
  /\ account' = {}
  /\ UNCHANGED <<t, accounts, slots>>

\* An account that is not there after the block.
DeleteAccount(a) ==
  /\ pc = "update" /\ account = {}
  /\ a \in accounts \ DOMAIN t.after
  /\ LET result == DeleteInternal(state_trie, a)
     IN  /\ state_trie' = result.trie
         /\ Unwrap(result)
  /\ accounts' = accounts \ {a}
  /\ UNCHANGED <<t, storage_tries, account, slots>>

\* update returns; state_root hashes the trie.
Finish ==
  /\ pc = "update" /\ account = {} /\ accounts = {}
  /\ state_trie' = Hashed(state_trie)
  /\ pc' = "done"
  /\ UNCHANGED <<t, storage_tries, todo>>

Ended ==
  /\ pc \in {"done", "err", "panic"}
  /\ UNCHANGED vars

Next ==
  \/ BuildFromProofs \/ MismatchedStateRoot \/ BuildFromWitness
  \/ \E a \in Addr :
       \/ StartAccount(a) \/ InsertAccount(a) \/ DeleteAccount(a)
       \/ \E k \in Slot : ApplySlot(a, k)
  \/ Finish \/ Ended

Spec == Init /\ [][Next]_vars

-----------------------------------------------------------------------------
(* Properties *)

TypeOK ==
  /\ pc \in {"build", "update", "done", "err", "panic"}
  /\ \A a \in Addr : WellFormed(state_trie, Len(a))
  /\ DOMAIN storage_tries \subseteq Addr
  /\ \A a \in DOMAIN storage_tries : \A k \in Slot : WellFormed(storage_tries[a], Len(k))
  /\ accounts \subseteq ChangedAccounts
  /\ account \in {{}} \union {{a} : a \in ChangedAccounts \ accounts}
  /\ slots # {} => \E a \in account : slots \subseteq ChangedSlots(a)

\* All proofs are from the two states of the transition.
OneChain ==
  \A a \in Touched : t.parents[a] = t.before /\ t.afters[a] = t.after

\* The storage of each changed account was provided, if there is any.
StorageProvided ==
  t.source = "proofs" \/
  \A a \in ChangedAccounts \intersect DOMAIN t.after :
    DOMAIN StorageOf(t.before, a) # {} => t.slots[a] # {} \/ a \in t.wiped

\* In whatever order the changes are applied, and though most of the trie is
\* only digests, the root is that of the trie of the whole new state.
RootIsRight ==
  pc = "done" /\ OneChain /\ StorageProvided =>
    Reference(state_trie) = StateRoot(t.after)

\* Proofs of one chain resolve whatever the block touched, through every
\* change of the trie: nothing that is unwrapped fails.
TouchedIsResolved ==
  OneChain /\ pc # "build" =>
    /\ pc \in {"update", "done"}
    /\ \A a \in Touched :
         /\ GetInternal(state_trie, a).resolved
         /\ \A k \in t.slots[a] : GetInternal(Entry(a), k).resolved

\* update is done with the account.
Applied(a) == a \in ChangedAccounts \ (accounts \union account)

\* The value a slot of the account should have by now.
Expected(a, k) ==
  IF k \in ChangedSlots(a) /\ (Applied(a) \/ (a \in account /\ k \notin slots))
  THEN ValueAt(StorageOf(t.after, a), k)
  ELSE IF a \in t.wiped /\ (Applied(a) \/ a \in account) THEN 0
  ELSE ValueAt(StorageOf(t.parents[a], a), k)

\* A lookup in a trie, of any key and at any time, gives what the state holds
\* there or fails to resolve it: also if the proofs are of several forks, and
\* also between two changes, when the trie may not be in its canonical shape.
\* Of an account whose storage is not provided, the storage is taken for empty.
LookupIsSound ==
  pc \in {"update", "done"} =>
    /\ \A a \in Addr :
         LET r == GetInternal(state_trie, a)
             s == IF Applied(a) THEN t.after ELSE t.before
         IN  r.resolved =>
               {v.info : v \in r.value} = {s[b].info : b \in {a} \intersect DOMAIN s}
    /\ StorageProvided => \A a \in DOMAIN storage_tries \intersect Touched, k \in Slot :
         LET r == GetInternal(storage_tries[a], k)
             v == Expected(a, k)
         IN  r.resolved /\ ~(Applied(a) /\ a \notin DOMAIN t.after) =>
               r.value = IF v = 0 THEN {} ELSE {Word(v)}

\* lib.rs: update "Mutates state based on diffs provided in HashedPostState",
\* and the witness may omit the storage of an account when none of it was
\* touched: the root is right for such a witness too.
WitnessIsEnough ==
  pc = "done" /\ t.source = "witness" => Reference(state_trie) = StateRoot(t.after)
=============================================================================
