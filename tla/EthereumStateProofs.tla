------------------------ MODULE EthereumStateProofs ------------------------
(***************************************************************************)
(* The invariants of EthereumState, for all keys and all transitions.      *)
(***************************************************************************)
EXTENDS EthereumState, MptProofs

-----------------------------------------------------------------------------
(* Tries as they are put together *)

\* hash changes nothing but what is cached.
LEMMA HashedIs ==
  ASSUME NEW n
  PROVE  /\ Hashed(n).nodes = n.nodes
         /\ \A len : WellFormed(n, len) => WellFormed(Hashed(n), len)
<1>1. Hashed(n).nodes = n.nodes
  BY DEF Hashed
<1>2. DOMAIN Hashed(n).cached \subseteq DOMAIN n.cached \union DOMAIN n.nodes
  BY DEF Hashed
<1>. QED  BY <1>1, <1>2 DEF WellFormed

\* A trie of a map of which some part is not resolved.
IsPartOf(n, m) == n = Trie(n.nodes) /\ IsView(Canonical(m), n.nodes)

\* What it gives for a key that is resolved is what the map gives.
LEMMA PartIs ==
  ASSUME NEW m, NEW len \in Nat, AreKeys(DOMAIN m, len), NEW n, IsPartOf(n, m)
  PROVE  /\ WellFormed(n, len)
         /\ Reference(n) = Canonical(m)
         /\ \A k, v : IsReached(n.nodes, k) =>
              (LeafOf(n.nodes, k, v) <=> k \in DOMAIN m /\ v = m[k])
<1> DEFINE F == Canonical(m)
           f == n.nodes
<1>1. /\ F = [p \in DOMAIN F |-> F[p]] /\ Shape(F, len)
      /\ \A p \in DOMAIN F : F[p].type # "digest"
      /\ \A k, v : LeafOf(F, k, v) <=> k \in DOMAIN m /\ v = m[k]
  BY CanonicalIsTrie
<1>2. n = Trie(f) /\ IsView(F, f)
  BY DEF IsPartOf
<1>3. DOMAIN F \subseteq Path
  BY <1>1, PlacedIs
<1>4. n.cached = EmptyRoot /\ DOMAIN n.cached = {}
  BY <1>2 DEF Trie, EmptyRoot
<1> HIDE DEF F, f
<1>5. /\ Shape(f, len)
      /\ \A k, v : LeafOf(f, k, v) => LeafOf(F, k, v)
      /\ \A k, v : IsReached(f, k) /\ LeafOf(F, k, v) => LeafOf(f, k, v)
  BY <1>1, <1>2, ViewIs
<1>6. Reference(Trie(f)) = F
  BY <1>1, <1>2, <1>3, ReferenceOfView
<1>7. WellFormed(n, len)
  BY <1>4, <1>5 DEF WellFormed, f
<1>. QED  BY <1>1, <1>2, <1>5, <1>6, <1>7 DEF F, f

\* resolve_nodes reaches every key the proof of which is in the store.
LEMMA ResolvedIsPart ==
  ASSUME NEW m, NEW len \in Nat, AreKeys(DOMAIN m, len), NEW store
  PROVE  LET n == ResolveNodes(Canonical(m), store)
         IN  /\ IsPartOf(n, m)
             /\ \A k \in Path : Proof(Canonical(m), k) \subseteq store => IsReached(n.nodes, k)
<1> DEFINE F == Canonical(m)
           n == ResolveNodes(F, store)
<1>1. /\ F = [p \in DOMAIN F |-> F[p]] /\ Shape(F, len)
      /\ \A p \in DOMAIN F : F[p].type # "digest"
  BY CanonicalIsTrie
<1>2. DOMAIN F \subseteq Path
  BY <1>1, PlacedIs
<1> HIDE DEF F
<1>3. n = Trie(n.nodes) /\ IsView(F, n.nodes)
  BY <1>1, <1>2, ResolvedIsView
<1>4. ASSUME NEW k \in Path, Proof(F, k) \subseteq store PROVE IsReached(n.nodes, k)
  BY <1>1, <1>2, <1>4, ProofReaches
<1>. QED  BY <1>3, <1>4 DEF F, IsPartOf

\* A digest reaches nothing, unless there is nothing to reach.
LEMMA DigestIsPart ==
  ASSUME NEW m, NEW len \in Nat, AreKeys(DOMAIN m, len)
  PROVE  /\ IsPartOf(NodeFromDigest(Canonical(m)), m)
         /\ Canonical(m) # EmptyRoot => IsPartOf(Trie([p \in {<<>>} |-> Digest(Canonical(m))]), m)
<1> DEFINE F == Canonical(m)
<1>1. F = [p \in DOMAIN F |-> F[p]] /\ Shape(F, len)
  BY CanonicalIsTrie
<1> HIDE DEF F
<1>2. IsView(F, NodeFromDigest(F).nodes) /\ NodeFromDigest(F) = Trie(NodeFromDigest(F).nodes)
  BY <1>1, DigestIsView
<1>3. F # EmptyRoot => IsView(F, [p \in {<<>>} |-> Digest(F)])
  BY <1>1, DigestIsView
<1>. QED  BY <1>2, <1>3 DEF F, IsPartOf, Trie

\* Null is the trie of the empty map.
LEMMA NullIs ==
  /\ Null.nodes = EmptyRoot
  /\ \A len : WellFormed(Null, len)
  /\ \A k : IsReached(Null.nodes, k)
  /\ \A k, v : ~LeafOf(Null.nodes, k, v)
<1>1. Null.nodes = EmptyRoot /\ Null.cached = EmptyRoot /\ DOMAIN EmptyRoot = {}
  BY DEF Null, Trie, EmptyRoot
<1>. QED  BY <1>1 DEF WellFormed, Shape, IsReached, LeafOf

\* What an insertion (V = {v}) or a deletion (V = {}) of k makes of a trie.
IsApplied(n, r, k, V) ==
  /\ WellFormed(r.trie, Len(k))
  /\ \A j : IsReached(r.trie.nodes, j) <=> IsReached(n.nodes, j)
  /\ r.error = "none" <=> IsReached(n.nodes, k)
  /\ r.error = "none" =>
       \A j, w : LeafOf(r.trie.nodes, j, w) <=> IF j = k THEN w \in V ELSE LeafOf(n.nodes, j, w)

\* Two tries with the same digests reach the same keys.
LEMMA ReachTheSame ==
  ASSUME NEW f, NEW g, NEW len \in Nat, Shape(f, len), Shape(g, len), SameDigests(f, g)
  PROVE  \A j : IsReached(f, j) <=> IsReached(g, j)
<1>1. DOMAIN f \subseteq Path /\ DOMAIN g \subseteq Path
  BY PlacedIs
<1>. QED  BY <1>1 DEF IsReached, SameDigests, IsDigestAt

\* insert and delete, as update calls them.
LEMMA ApplyIs ==
  ASSUME NEW n, NEW k \in Path, WellFormed(n, Len(k))
  PROVE  /\ \A v : IsApplied(n, InsertInternal(n, k, v), k, {v})
         /\ IsApplied(n, DeleteInternal(n, k), k, {})
<1>1. Len(k) \in Nat
  BY PathLen
<1>2. Shape(n.nodes, Len(k))
  BY DEF WellFormed
<1>3. ASSUME NEW v PROVE IsApplied(n, InsertInternal(n, k, v), k, {v})
  <2> DEFINE r == InsertInternal(n, k, v)
  <2>1. /\ r.error = IF IsReached(n.nodes, k) THEN "none" ELSE "NodeNotResolved"
        /\ WellFormed(r.trie, Len(k)) /\ Keeps(n, r.trie)
        /\ r.error = "none" =>
             \A j, w : <<j, w>> \in Leaves(r.trie) <=>
                         IF j = k THEN w = v ELSE <<j, w>> \in Leaves(n)
    BY <1>1, InsertIsRight
  <2> HIDE DEF r
  <2>2. r.error = "none" =>
             \A j, w : LeafOf(r.trie.nodes, j, w) <=> IF j = k THEN w = v ELSE LeafOf(n.nodes, j, w)
    BY <2>1, LeafIn
  <2>3. \A j : IsReached(n.nodes, j) <=> IsReached(r.trie.nodes, j)
    BY <1>1, <1>2, <2>1, ReachTheSame DEF WellFormed, Keeps
  <2>. QED  BY <2>1, <2>2, <2>3 DEF r, IsApplied
<1>4. IsApplied(n, DeleteInternal(n, k), k, {})
  <2> DEFINE r == DeleteInternal(n, k)
  <2>1. /\ r.error = IF IsReached(n.nodes, k) THEN "none" ELSE "NodeNotResolved"
        /\ WellFormed(r.trie, Len(k)) /\ Keeps(n, r.trie)
        /\ r.error = "none" =>
             \A j, w : <<j, w>> \in Leaves(r.trie) <=> j # k /\ <<j, w>> \in Leaves(n)
    BY <1>1, DeleteIsRight
  <2> HIDE DEF r
  <2>2. r.error = "none" =>
             \A j, w : LeafOf(r.trie.nodes, j, w) <=> IF j = k THEN FALSE ELSE LeafOf(n.nodes, j, w)
    BY <2>1, LeafIn
  <2>3. \A j : IsReached(n.nodes, j) <=> IsReached(r.trie.nodes, j)
    BY <1>1, <1>2, <2>1, ReachTheSame DEF WellFormed, Keeps
  <2>. QED  BY <2>1, <2>2, <2>3 DEF r, IsApplied
<1>. QED  BY <1>3, <1>4

-----------------------------------------------------------------------------
(* States and their tries *)

\* The maps the tries of a state are of.
StateMap(s) == [a \in DOMAIN s |-> TrieAccount(s[a].info, StorageRoot(s[a].storage))]
SlotMap(storage) == [k \in DOMAIN storage |-> Word(storage[k])]

\* The keys of a state and of a storage are keys of one length.
LenOf(keys) == IF keys = {} THEN 0 ELSE Len(CHOOSE k \in keys : TRUE)

\* Their keys are of one length, and the roots are those of their tries.
LEMMA StateKeys ==
  /\ \A s : StateRoot(s) = Canonical(StateMap(s)) /\ DOMAIN StateMap(s) = DOMAIN s
  /\ \A m : StorageRoot(m) = Canonical(SlotMap(m)) /\ DOMAIN SlotMap(m) = DOMAIN m
  /\ LenOf(Addr) \in Nat /\ \A a \in Addr : a \in Path /\ Len(a) = LenOf(Addr)
  /\ LenOf(Slot) \in Nat /\ \A k \in Slot : k \in Path /\ Len(k) = LenOf(Slot)
  /\ \A s : IsState(s) => AreKeys(DOMAIN StateMap(s), LenOf(Addr))
  /\ \A s, b : IsState(s) => /\ AreKeys(DOMAIN SlotMap(StorageOf(s, b)), LenOf(Slot))
                             /\ \A k \in DOMAIN StorageOf(s, b) : StorageOf(s, b)[k] # 0
<1>1. /\ \A s : StateRoot(s) = Canonical(StateMap(s)) /\ DOMAIN StateMap(s) = DOMAIN s
      /\ \A m : StorageRoot(m) = Canonical(SlotMap(m)) /\ DOMAIN SlotMap(m) = DOMAIN m
  BY DEF StateRoot, StateMap, StorageRoot, SlotMap
<1>2. ASSUME NEW keys \in {Addr, Slot}
      PROVE  LenOf(keys) \in Nat /\ \A k \in keys : k \in Path /\ Len(k) = LenOf(keys)
  <2>1. CASE keys = {}
    BY <2>1 DEF LenOf
  <2>2. CASE keys # {}
    <3>1. LenOf(keys) = Len(CHOOSE k \in keys : TRUE) /\ (CHOOSE k \in keys : TRUE) \in keys
      BY <2>2 DEF LenOf
    <3>2. \A k \in keys : k \in Path /\ Len(k) \in Nat
      BY KeysAssumption, PathLen
    <3>. QED  BY <3>1, <3>2, KeysAssumption
  <2>. QED  BY <2>1, <2>2
<1>3. ASSUME NEW s, IsState(s) PROVE AreKeys(DOMAIN StateMap(s), LenOf(Addr))
  BY <1>1, <1>2, <1>3 DEF IsState, AreKeys
<1>4. ASSUME NEW s, IsState(s), NEW b
      PROVE  DOMAIN StorageOf(s, b) \subseteq Slot /\ \A k \in DOMAIN StorageOf(s, b) : StorageOf(s, b)[k] # 0
  BY <1>4 DEF IsState, StorageOf
<1>5. ASSUME NEW s, IsState(s), NEW b
      PROVE  AreKeys(DOMAIN SlotMap(StorageOf(s, b)), LenOf(Slot))
  BY <1>1, <1>2, <1>4, <1>5 DEF AreKeys
<1>. QED  BY <1>1, <1>2, <1>3, <1>4, <1>5

\* The parts of a transition are states.
LEMMA TransitionIs ==
  ASSUME NEW tr \in Transitions
  PROVE  /\ IsTransition(tr)
         /\ IsState(tr.before) /\ IsState(tr.after)
         /\ \A a \in DOMAIN tr.slots : /\ a \in Addr /\ tr.slots[a] \subseteq Slot
                                       /\ IsState(tr.parents[a]) /\ IsState(tr.afters[a])
BY TransitionsAssumption DEF IsTransition

\* The tries of a storage and of a state as transition_proofs_to_tries puts
\* them together.
LEMMA ProofTries ==
  ASSUME t \in Transitions
  PROVE  /\ \A a \in Touched : /\ IsPartOf(StorageTrie(a), SlotMap(StorageOf(t.parents[a], a)))
                              /\ \A k \in t.slots[a] : IsReached(StorageTrie(a).nodes, k)
         /\ \A n \in StateTries : \E s : IsState(s) /\ IsPartOf(n, StateMap(s))
         /\ OneChain => \A n \in StateTries : /\ IsPartOf(n, StateMap(t.before))
                                              /\ \A a \in Touched : IsReached(n.nodes, a)
<1>1. /\ IsState(t.before)
      /\ \A a \in Touched : a \in Addr /\ t.slots[a] \subseteq Slot /\ IsState(t.parents[a])
  BY TransitionIs DEF Touched
<1>2. ASSUME NEW a \in Touched
      PROVE  /\ IsPartOf(StorageTrie(a), SlotMap(StorageOf(t.parents[a], a)))
             /\ \A k \in t.slots[a] : IsReached(StorageTrie(a).nodes, k)
  <2> DEFINE m == SlotMap(StorageOf(t.parents[a], a))
  <2>1. AreKeys(DOMAIN m, LenOf(Slot)) /\ LenOf(Slot) \in Nat
    BY <1>1, StateKeys
  <2>2. StorageTrie(a) = IF t.slots[a] = {} THEN NodeFromDigest(Canonical(m))
                         ELSE ResolveNodes(Canonical(m), StorageNodes(a))
    BY StateKeys DEF StorageTrie
  <2>3. \A k \in t.slots[a] : k \in Path /\ Proof(Canonical(m), k) \subseteq StorageNodes(a)
    BY <1>1, StateKeys DEF StorageNodes, ProofNodes
  <2> HIDE DEF m
  <2>4. CASE t.slots[a] = {}
    BY <2>1, <2>2, <2>4, DigestIsPart DEF m
  <2>5. CASE t.slots[a] # {}
    BY <2>1, <2>2, <2>3, <2>5, ResolvedIsPart DEF m
  <2>. QED  BY <2>4, <2>5
<1>3. ASSUME NEW n \in StateTries
      PROVE  /\ \E s : IsState(s) /\ IsPartOf(n, StateMap(s))
             /\ OneChain => /\ IsPartOf(n, StateMap(t.before))
                            /\ \A a \in Touched : IsReached(n.nodes, a)
  <2>1. CASE Touched = {}
    <3>1. n = NodeFromDigest(StateRoot(t.before))
      BY <2>1 DEF StateTries
    <3>2. IsPartOf(n, StateMap(t.before))
      BY <1>1, <3>1, StateKeys, DigestIsPart
    <3>. QED  BY <1>1, <2>1, <3>2
  <2>2. CASE Touched # {}
    <3>1. PICK b \in Touched : n = ResolveNodes(StateRoot(t.parents[b]), StateNodes)
      BY <2>2 DEF StateTries
    <3> DEFINE m == StateMap(t.parents[b])
    <3>2. AreKeys(DOMAIN m, LenOf(Addr)) /\ LenOf(Addr) \in Nat /\ n = ResolveNodes(Canonical(m), StateNodes)
      BY <1>1, <3>1, StateKeys
    <3> HIDE DEF m
    <3>3. /\ IsPartOf(n, m)
          /\ \A k \in Path : Proof(Canonical(m), k) \subseteq StateNodes => IsReached(n.nodes, k)
      BY <3>2, ResolvedIsPart
    <3>4. ASSUME OneChain PROVE t.parents[b] = t.before /\ \A a \in Touched : IsReached(n.nodes, a)
      <4>1. \A a \in Touched : t.parents[a] = t.before
        BY <3>4 DEF OneChain
      <4>2. \A a \in Touched : Proof(StateRoot(t.parents[a]), a) \subseteq StateNodes
        BY DEF StateNodes
      <4>3. StateRoot(t.before) = Canonical(m)
        BY <4>1, StateKeys DEF m
      <4>. QED  BY <1>1, <3>3, <4>1, <4>2, <4>3, StateKeys
    <3>. QED  BY <1>1, <3>3, <3>4 DEF m
  <2>. QED  BY <2>1, <2>2
<1>. QED  BY <1>2, <1>3

\* The root of a map that is not empty is the first node of each proof.
LEMMA RootIsProved ==
  ASSUME NEW m, NEW len \in Nat, AreKeys(DOMAIN m, len), DOMAIN m # {}
  PROVE  Canonical(m) # EmptyRoot /\ \A k \in Path : Canonical(m) \in Proof(Canonical(m), k)
<1> DEFINE F == Canonical(m)
<1>1. /\ F = [p \in DOMAIN F |-> F[p]] /\ Shape(F, len)
      /\ \A k, v : LeafOf(F, k, v) <=> k \in DOMAIN m /\ v = m[k]
  BY CanonicalIsTrie
<1> HIDE DEF F
<1>2. DOMAIN F # {}
  BY <1>1 DEF LeafOf
<1>3. F # EmptyRoot
  BY <1>2 DEF EmptyRoot
<1>4. <<>> \in DOMAIN F
  BY <1>1, <1>3 DEF Shape
<1>5. Below(F, <<>>) = F
  BY <1>1, PlacedIs, BelowRoot
<1>6. ASSUME NEW k \in Path PROVE F \in Proof(F, k)
  <2>1. <<>> \in ProofPaths(F, k)
    BY <1>4, EmptyIsPrefix DEF ProofPaths
  <2>. QED  BY <1>5, <2>1 DEF Proof
<1>. QED  BY <1>3, <1>6 DEF F

\* The definitions inside BuildFromWitness, by name.
WitnessTrie ==
  IF StateRoot(t.before) \in Witness THEN ResolveNodes(StateRoot(t.before), Witness)
  ELSE Trie([p \in {<<>>} |-> Digest(StateRoot(t.before))])

WitnessLeaves == {l \in Leaves(WitnessTrie) : l[2].storage_root \in Witness}

WitnessStorage(a) ==
  LET l == CHOOSE m \in WitnessLeaves : m[1] = a
  IN  ResolveNodes(l[2].storage_root, Witness)

\* The tries as build_validated_tries puts them together.
LEMMA WitnessTries ==
  ASSUME t \in Transitions, t.source = "witness"
  PROVE  /\ IsPartOf(WitnessTrie, StateMap(t.before))
         /\ \A a \in Touched : IsReached(WitnessTrie.nodes, a)
         /\ \A l \in WitnessLeaves :
              /\ l[1] \in DOMAIN t.before
              /\ WitnessStorage(l[1]) =
                   ResolveNodes(Canonical(SlotMap(StorageOf(t.before, l[1]))), Witness)
              /\ IsPartOf(WitnessStorage(l[1]), SlotMap(StorageOf(t.before, l[1])))
              /\ l[1] \in Touched =>
                   \A k \in t.slots[l[1]] : IsReached(WitnessStorage(l[1]).nodes, k)
         /\ \A a \in Touched : DOMAIN StorageOf(t.before, a) # {} /\ t.slots[a] # {} =>
              \E l \in WitnessLeaves : l[1] = a
<1> DEFINE m == StateMap(t.before)
           F == Canonical(m)
           storage(a) == SlotMap(StorageOf(t.before, a))
<1>1. /\ IsState(t.before) /\ DOMAIN t.before # {}
      /\ \A a \in Touched : a \in Addr /\ t.slots[a] \subseteq Slot
  BY TransitionIs DEF Touched, IsTransition
<1>2. /\ AreKeys(DOMAIN m, LenOf(Addr)) /\ LenOf(Addr) \in Nat /\ DOMAIN m = DOMAIN t.before
      /\ StateRoot(t.before) = F
  BY <1>1, StateKeys
<1>3. \A a : /\ AreKeys(DOMAIN storage(a), LenOf(Slot)) /\ LenOf(Slot) \in Nat
             /\ DOMAIN storage(a) = DOMAIN StorageOf(t.before, a)
             /\ StorageRoot(StorageOf(t.before, a)) = Canonical(storage(a))
  BY <1>1, StateKeys
<1>4. \A a \in DOMAIN t.before : m[a].storage_root = Canonical(storage(a))
  BY <1>3 DEF StateMap, StorageOf, TrieAccount
<1>5. /\ \A a \in Touched : Proof(F, a) \subseteq Witness
      /\ \A a \in Touched : \A k \in t.slots[a] : Proof(Canonical(storage(a)), k) \subseteq Witness
  BY <1>2, <1>3 DEF Witness, ProofNodes, WithSiblings
<1> HIDE DEF m, storage
<1>6. F # EmptyRoot /\ \A k \in Path : F \in Proof(F, k)
  BY <1>1, <1>2, RootIsProved
<1>7. IsPartOf(WitnessTrie, m)
  BY <1>2, <1>6, ResolvedIsPart, DigestIsPart DEF WitnessTrie
<1>8. ASSUME NEW a \in Touched PROVE IsReached(WitnessTrie.nodes, a)
  <2>1. a \in Path
    BY <1>1, StateKeys
  <2>2. WitnessTrie = ResolveNodes(F, Witness)
    BY <1>2, <1>5, <1>6, <2>1 DEF WitnessTrie
  <2>. QED  BY <1>2, <1>5, <2>1, <2>2, ResolvedIsPart
<1>9. \A a, v : IsReached(WitnessTrie.nodes, a) =>
        (<<a, v>> \in Leaves(WitnessTrie) <=> a \in DOMAIN t.before /\ v = m[a])
  BY <1>2, <1>7, PartIs, LeafIn
<1>10. \A l \in Leaves(WitnessTrie) : l = <<l[1], l[2]>> /\ l[1] \in DOMAIN t.before /\ l[2] = m[l[1]]
  <2>1. Shape(F, LenOf(Addr)) /\ \A p \in DOMAIN F : F[p].type # "digest"
    BY <1>2, CanonicalIsTrie
  <2>2. IsView(F, WitnessTrie.nodes)
    BY <1>7 DEF IsPartOf
  <2> HIDE DEF F
  <2>3. \A k, v : LeafOf(WitnessTrie.nodes, k, v) => LeafOf(F, k, v)
    BY <1>2, <2>1, <2>2, ViewIs
  <2>4. \A k, v : <<k, v>> \in Leaves(WitnessTrie) => k \in DOMAIN t.before /\ v = m[k]
    BY <1>2, <2>3, LeafIn, CanonicalIsTrie DEF F
  <2>5. \A l \in Leaves(WitnessTrie) : l = <<l[1], l[2]>>
    BY DEF Leaves
  <2>. QED  BY <2>4, <2>5
<1>11. ASSUME NEW l \in WitnessLeaves
       PROVE  /\ l[1] \in DOMAIN t.before
              /\ WitnessStorage(l[1]) = ResolveNodes(Canonical(storage(l[1])), Witness)
  <2> DEFINE x == CHOOSE y \in WitnessLeaves : y[1] = l[1]
  <2>1. x \in WitnessLeaves /\ x[1] = l[1]
    OBVIOUS
  <2>2. x \in Leaves(WitnessTrie) /\ l \in Leaves(WitnessTrie)
    BY <2>1 DEF WitnessLeaves
  <2>3. x[1] \in DOMAIN t.before /\ x[2] = m[l[1]]
    BY <1>10, <2>1, <2>2
  <2>4. x[2].storage_root = Canonical(storage(l[1]))
    BY <1>4, <2>1, <2>3
  <2>. QED  BY <2>1, <2>3, <2>4 DEF WitnessStorage
<1>12. ASSUME NEW l \in WitnessLeaves
       PROVE  /\ IsPartOf(WitnessStorage(l[1]), storage(l[1]))
              /\ l[1] \in Touched =>
                   \A k \in t.slots[l[1]] : IsReached(WitnessStorage(l[1]).nodes, k)
  <2>1. l[1] \in Touched => \A k \in t.slots[l[1]] : k \in Path
    BY <1>1, StateKeys
  <2>. QED  BY <1>3, <1>5, <1>11, <2>1, ResolvedIsPart
<1>13. ASSUME NEW a \in Touched, DOMAIN StorageOf(t.before, a) # {}, t.slots[a] # {}
       PROVE  \E l \in WitnessLeaves : l[1] = a
  <2>1. a \in DOMAIN t.before
    BY <1>13 DEF StorageOf
  <2>2. <<a, m[a]>> \in Leaves(WitnessTrie)
    BY <1>8, <1>9, <2>1
  <2>3. PICK k \in t.slots[a] : TRUE
    BY <1>13
  <2>4. Canonical(storage(a)) \in Proof(Canonical(storage(a)), k)
    BY <1>1, <1>3, <1>13, StateKeys, RootIsProved
  <2>5. m[a].storage_root \in Witness
    BY <1>4, <1>5, <2>1, <2>3, <2>4
  <2>. QED  BY <2>2, <2>5 DEF WitnessLeaves
<1>. QED  BY <1>7, <1>8, <1>11, <1>12, <1>13 DEF m, storage

-----------------------------------------------------------------------------
(* Type correctness *)

\* TypeOK is inductive with what is known of the account that update is at.
Inv ==
  /\ TypeOK
  /\ t \in Transitions
  /\ account \subseteq DOMAIN storage_tries \intersect DOMAIN t.after
  /\ pc = "build" => account = {} /\ slots = {}

\* g is f with x for i.
IsWith(g, f, i, x) ==
  /\ DOMAIN g = DOMAIN f \union {i}
  /\ g[i] = x
  /\ \A j \in DOMAIN f : j # i => g[j] = f[j]

\* With, key by key.
LEMMA WithIs ==
  ASSUME NEW f, NEW i, NEW x
  PROVE  IsWith(With(f, i, x), f, i, x)
BY DEF With, IsWith

\* Inv holds at first,
LEMMA InitInv == Init => Inv
<1> SUFFICES ASSUME Init PROVE Inv
  OBVIOUS
<1> USE DEF Init
<1>1. \A a \in Addr : WellFormed(state_trie, Len(a))
  BY NullIs
<1>. QED  BY <1>1 DEF Inv, TypeOK

\* The tries are well formed as soon as they are built.
LEMMA BuildInv ==
  ASSUME Inv, BuildFromProofs \/ MismatchedStateRoot \/ BuildFromWitness
  PROVE  Inv'
<1> USE DEF Inv
<1>1. /\ t' = t /\ account' = {} /\ slots' = {}
      /\ pc = "build" /\ pc' \in {"update", "err"} /\ accounts' \in {accounts, ChangedAccounts}
      /\ ChangedAccounts' = ChangedAccounts
  <2>1. t' = t /\ account' = account /\ slots' = slots /\ pc = "build"
    BY DEF BuildFromProofs, MismatchedStateRoot, BuildFromWitness, todo
  <2>2. pc' \in {"update", "err"} /\ accounts' \in {accounts, ChangedAccounts}
    BY DEF BuildFromProofs, MismatchedStateRoot, BuildFromWitness, todo
  <2>3. ChangedAccounts' = ChangedAccounts
    BY <2>1 DEF ChangedAccounts, Touched
  <2>. QED  BY <2>1, <2>2, <2>3
<1>2. /\ LenOf(Addr) \in Nat /\ \A a \in Addr : Len(a) = LenOf(Addr)
      /\ LenOf(Slot) \in Nat /\ \A k \in Slot : Len(k) = LenOf(Slot)
      /\ \A s : IsState(s) => AreKeys(DOMAIN StateMap(s), LenOf(Addr))
      /\ \A s, b : IsState(s) => AreKeys(DOMAIN SlotMap(StorageOf(s, b)), LenOf(Slot))
  BY StateKeys
<1>3. /\ IsState(t.before) /\ DOMAIN t.before \subseteq Addr
      /\ \A a \in Touched : a \in Addr /\ IsState(t.parents[a])
  BY TransitionIs DEF Touched, IsState
<1>4. \A n, s : IsState(s) /\ IsPartOf(n, StateMap(s)) => \A a \in Addr : WellFormed(Hashed(n), Len(a))
  BY <1>2, PartIs, HashedIs
<1>5. \A n, s, b : IsState(s) /\ IsPartOf(n, SlotMap(StorageOf(s, b))) =>
        \A k \in Slot : WellFormed(Hashed(n), Len(k))
  BY <1>2, PartIs, HashedIs
<1>6. /\ \A a \in Addr : WellFormed(state_trie', Len(a))
      /\ DOMAIN storage_tries' \subseteq Addr
      /\ \A a \in DOMAIN storage_tries' : \A k \in Slot : WellFormed(storage_tries'[a], Len(k))
  <2>1. CASE BuildFromProofs
    <3>1. PICK n \in StateTries : state_trie' = Hashed(n)
      BY <2>1 DEF BuildFromProofs
    <3>2. storage_tries' = [a \in Touched |-> Hashed(StorageTrie(a))]
      BY <2>1 DEF BuildFromProofs
    <3>3. \A a \in Addr : WellFormed(state_trie', Len(a))
      <4>1. PICK s : IsState(s) /\ IsPartOf(n, StateMap(s))
        BY ProofTries
      <4>. QED  BY <1>4, <3>1, <4>1
    <3>4. DOMAIN storage_tries' = Touched
      BY <3>2
    <3>5. ASSUME NEW a \in Touched
          PROVE  a \in Addr /\ \A k \in Slot : WellFormed(storage_tries'[a], Len(k))
      <4>1. IsPartOf(StorageTrie(a), SlotMap(StorageOf(t.parents[a], a)))
        BY ProofTries
      <4>2. storage_tries'[a] = Hashed(StorageTrie(a))
        BY <3>2
      <4>. QED  BY <1>3, <1>5, <4>1, <4>2
    <3>. QED  BY <3>3, <3>4, <3>5
  <2>2. CASE MismatchedStateRoot
    BY <2>2 DEF MismatchedStateRoot, tries, TypeOK
  <2>3. CASE BuildFromWitness
    <3>1. /\ t.source = "witness" /\ state_trie' = Hashed(WitnessTrie)
          /\ storage_tries' = [a \in {l[1] : l \in WitnessLeaves} |-> Hashed(WitnessStorage(a))]
      BY <2>3 DEF BuildFromWitness, WitnessTrie, WitnessLeaves, WitnessStorage
    <3>2. DOMAIN storage_tries' = {l[1] : l \in WitnessLeaves}
      BY <3>1
    <3>3. ASSUME NEW a \in DOMAIN storage_tries'
          PROVE  a \in Addr /\ \A k \in Slot : WellFormed(storage_tries'[a], Len(k))
      <4>1. PICK l \in WitnessLeaves : a = l[1]
        BY <3>2, <3>3
      <4>2. a \in Addr /\ IsPartOf(WitnessStorage(a), SlotMap(StorageOf(t.before, a)))
        BY <1>3, <3>1, <4>1, WitnessTries
      <4>3. storage_tries'[a] = Hashed(WitnessStorage(a))
        BY <3>1, <3>2
      <4>. QED  BY <1>3, <1>5, <4>2, <4>3
    <3>4. \A a \in Addr : WellFormed(state_trie', Len(a))
      BY <1>3, <1>4, <3>1, WitnessTries
    <3>. QED  BY <3>3, <3>4
  <2>. QED  BY <2>1, <2>2, <2>3
<1>. QED  BY <1>1, <1>6 DEF TypeOK

\* The steps of update.
LEMMA UpdateInv ==
  ASSUME Inv, [Next]_vars, ~(BuildFromProofs \/ MismatchedStateRoot \/ BuildFromWitness)
  PROVE  Inv'
<1> USE DEF Inv
<1>1. /\ \A a \in Addr : a \in Path /\ WellFormed(state_trie, Len(a))
      /\ \A k \in Slot : k \in Path
      /\ \A j, k \in Addr : Len(j) = Len(k)
      /\ \A j, k \in Slot : Len(j) = Len(k)
  BY KeysAssumption DEF TypeOK
<1>2. \A a \in ChangedAccounts : a \in Addr /\ ChangedSlots(a) \subseteq Slot
  BY TransitionIs DEF ChangedAccounts, ChangedSlots, Touched
<1>3. t' = t => ChangedAccounts' = ChangedAccounts /\ \A a : ChangedSlots(a)' = ChangedSlots(a)
  BY DEF ChangedAccounts, ChangedSlots, Touched
<1>4. ASSUME NEW a \in Addr, StartAccount(a) PROVE Inv'
  <2> USE DEF StartAccount
  <2>1. \A k \in Slot : WellFormed(IF a \in t.wiped THEN Null ELSE Entry(a), Len(k))
    BY NullIs DEF Entry, TypeOK
  <2> DEFINE n == IF a \in t.wiped THEN Null ELSE Entry(a)
  <2>2. storage_tries' = With(storage_tries, a, n)
    BY <1>4
  <2> HIDE DEF n
  <2>3. IsWith(storage_tries', storage_tries, a, n)
    BY <2>2, WithIs
  <2>4. \A b \in DOMAIN storage_tries' : \A k \in Slot : WellFormed(storage_tries'[b], Len(k))
    BY <2>1, <2>3 DEF TypeOK, IsWith, n
  <2>5. DOMAIN storage_tries' = DOMAIN storage_tries \union {a}
    BY <2>3 DEF IsWith
  <2>. QED  BY <1>1, <1>2, <1>3, <1>4, <2>4, <2>5 DEF TypeOK
<1>5. ASSUME NEW a \in Addr, NEW k \in Slot, ApplySlot(a, k) PROVE Inv'
  <2> USE DEF ApplySlot
  <2> DEFINE value == ValueAt(StorageOf(t.after, a), k)
             result == IF value = 0 THEN DeleteInternal(storage_tries[a], k)
                       ELSE InsertInternal(storage_tries[a], k, Word(value))
  <2>1. a \in DOMAIN storage_tries /\ WellFormed(storage_tries[a], Len(k))
    BY <1>5 DEF TypeOK
  <2>2. WellFormed(result.trie, Len(k))
    BY <1>1, <2>1, ApplyIs DEF IsApplied
  <2>3. storage_tries' = With(storage_tries, a, result.trie) /\ pc' \in {"update", "panic"}
    BY <1>5 DEF Unwrap
  <2> HIDE DEF result
  <2>4. \A b \in DOMAIN storage_tries' : \A j \in Slot : WellFormed(storage_tries'[b], Len(j))
    <3>1. \A j \in Slot : WellFormed(result.trie, Len(j))
      BY <1>1, <2>2
    <3>2. IsWith(storage_tries', storage_tries, a, result.trie)
      BY <2>3, WithIs
    <3>. QED  BY <2>1, <3>1, <3>2 DEF TypeOK, IsWith
  <2>5. DOMAIN storage_tries' = DOMAIN storage_tries
    <3>1. IsWith(storage_tries', storage_tries, a, result.trie)
      BY <2>3, WithIs
    <3>. QED  BY <2>1, <3>1 DEF IsWith
  <2>. QED  BY <1>3, <1>5, <2>3, <2>4, <2>5 DEF TypeOK
<1>6. ASSUME NEW a \in Addr, InsertAccount(a) PROVE Inv'
  <2> USE DEF InsertAccount
  <2> DEFINE storage == Hashed(storage_tries[a])
             value == TrieAccount(t.after[a].info, Reference(storage))
             result == InsertInternal(state_trie, a, value)
  <2>1. a \in DOMAIN storage_tries /\ \A k \in Slot : WellFormed(storage, Len(k))
    BY <1>6, HashedIs DEF TypeOK
  <2>2. WellFormed(result.trie, Len(a))
    BY <1>1, ApplyIs DEF IsApplied
  <2>3. /\ storage_tries' = With(storage_tries, a, storage) /\ state_trie' = result.trie
        /\ pc' \in {"update", "panic"}
    BY <1>6 DEF Unwrap
  <2> HIDE DEF storage, result
  <2>4. IsWith(storage_tries', storage_tries, a, storage)
    BY <2>3, WithIs
  <2>5. /\ \A b \in DOMAIN storage_tries' : \A j \in Slot : WellFormed(storage_tries'[b], Len(j))
        /\ DOMAIN storage_tries' = DOMAIN storage_tries
    BY <2>1, <2>4 DEF TypeOK, IsWith
  <2>6. \A b \in Addr : WellFormed(state_trie', Len(b))
    BY <1>1, <2>2, <2>3
  <2>. QED  BY <1>3, <1>6, <2>3, <2>5, <2>6 DEF TypeOK
<1>7. ASSUME NEW a \in Addr, DeleteAccount(a) PROVE Inv'
  <2> USE DEF DeleteAccount
  <2> DEFINE result == DeleteInternal(state_trie, a)
  <2>1. WellFormed(result.trie, Len(a))
    BY <1>1, ApplyIs DEF IsApplied
  <2>2. state_trie' = result.trie /\ pc' \in {"update", "panic"}
    BY <1>7 DEF Unwrap
  <2> HIDE DEF result
  <2>3. \A b \in Addr : WellFormed(state_trie', Len(b))
    BY <1>1, <2>1, <2>2
  <2>. QED  BY <1>3, <1>7, <2>2, <2>3 DEF TypeOK
<1>8. CASE Finish
  <2>1. \A a \in Addr : WellFormed(state_trie', Len(a))
    BY <1>1, <1>8, HashedIs DEF Finish
  <2>. QED  BY <1>3, <1>8, <2>1 DEF Finish, TypeOK, todo
<1>9. CASE UNCHANGED vars
  BY <1>3, <1>9 DEF vars, tries, todo, TypeOK
<1>. QED  BY <1>4, <1>5, <1>6, <1>7, <1>8, <1>9 DEF Next, Ended

\* TypeOK of the runs: whatever blocks the proofs are from, the tries keep the
\* shape mpt.rs takes for granted (no leaf or extension at the end of an
\* extension, two children in each branch), and update goes through the changed
\* accounts, each once.
THEOREM TypeCorrect == Spec => []TypeOK
<1>1. Inv /\ [Next]_vars => Inv'
  BY BuildInv, UpdateInv
<1>. QED  BY <1>1, InitInv, PTL DEF Spec, Inv

\* and always.
LEMMA InvHolds == Spec => []Inv
<1>1. Inv /\ [Next]_vars => Inv'
  BY BuildInv, UpdateInv
<1>. QED  BY <1>1, InitInv, PTL DEF Spec

-----------------------------------------------------------------------------
(* What was touched is resolved *)

\* No digest comes to stand on the way to a key that was touched.
IsTouchedReached ==
  /\ \A a \in Touched : IsReached(state_trie.nodes, a)
  /\ \A a \in Touched \intersect DOMAIN storage_tries :
       \A k \in t.slots[a] : IsReached(storage_tries[a].nodes, k)

\* The invariant for TouchedIsResolved.
ReachInv ==
  OneChain /\ pc # "build" => pc \in {"update", "done"} /\ IsTouchedReached

\* The proofs of one chain are those of the root that is asked for.
LEMMA BuildReach ==
  ASSUME Inv, OneChain, BuildFromProofs \/ MismatchedStateRoot \/ BuildFromWitness
  PROVE  pc' = "update" /\ IsTouchedReached'
<1>1. t \in Transitions /\ t' = t /\ Touched' = Touched
  BY DEF Inv, BuildFromProofs, MismatchedStateRoot, BuildFromWitness, Touched
<1>2. IsState(t.before)
  BY <1>1, TransitionIs
<1>3. CASE BuildFromProofs
  <2>1. PICK n \in StateTries : state_trie' = Hashed(n)
    BY <1>3 DEF BuildFromProofs
  <2>2. storage_tries' = [a \in Touched |-> Hashed(StorageTrie(a))] /\ pc' = "update"
    BY <1>3 DEF BuildFromProofs
  <2>3. \A a \in Touched : IsReached(n.nodes, a)
    BY <1>1, ProofTries
  <2>4. \A a \in Touched : IsReached(state_trie'.nodes, a)
    BY <2>1, <2>3, HashedIs
  <2>5. ASSUME NEW a \in Touched, NEW k \in t.slots[a] PROVE IsReached(storage_tries'[a].nodes, k)
    <3>1. IsReached(StorageTrie(a).nodes, k)
      BY <1>1, ProofTries
    <3>2. storage_tries'[a].nodes = StorageTrie(a).nodes
      BY <2>2, HashedIs
    <3>. QED  BY <3>1, <3>2
  <2>. QED  BY <1>1, <2>2, <2>4, <2>5 DEF IsTouchedReached
<1>4. CASE MismatchedStateRoot
  <2>1. PICK n \in StateTries : Reference(n) # StateRoot(t.before)
    BY <1>4 DEF MismatchedStateRoot
  <2>2. IsPartOf(n, StateMap(t.before))
    BY <1>1, ProofTries
  <2>3. Reference(n) = StateRoot(t.before)
    BY <1>2, <2>2, StateKeys, PartIs
  <2>. QED  BY <2>1, <2>3
<1>5. CASE BuildFromWitness
  <2>1. /\ t.source = "witness" /\ state_trie' = Hashed(WitnessTrie) /\ pc' = "update"
        /\ storage_tries' = [a \in {l[1] : l \in WitnessLeaves} |-> Hashed(WitnessStorage(a))]
    BY <1>5 DEF BuildFromWitness, WitnessTrie, WitnessLeaves, WitnessStorage
  <2>2. \A a \in Touched : IsReached(WitnessTrie.nodes, a)
    BY <1>1, <2>1, WitnessTries
  <2>3. \A a \in Touched : IsReached(state_trie'.nodes, a)
    BY <2>1, <2>2, HashedIs
  <2>4. ASSUME NEW a \in Touched, a \in DOMAIN storage_tries', NEW k \in t.slots[a]
        PROVE  IsReached(storage_tries'[a].nodes, k)
    <3>1. PICK l \in WitnessLeaves : l[1] = a
      BY <2>1, <2>4
    <3>2. IsReached(WitnessStorage(a).nodes, k)
      BY <1>1, <2>1, <3>1, WitnessTries
    <3>3. storage_tries'[a].nodes = WitnessStorage(a).nodes
      BY <2>1, <3>1, HashedIs
    <3>. QED  BY <3>2, <3>3
  <2>. QED  BY <1>1, <2>1, <2>3, <2>4 DEF IsTouchedReached
<1>. QED  BY <1>3, <1>4, <1>5

\* update neither adds nor moves a digest, and so nothing it unwraps fails.
LEMMA UpdateReach ==
  ASSUME Inv, [Next]_vars, pc # "build", pc \in {"update", "done"}, IsTouchedReached
  PROVE  pc' \in {"update", "done"} /\ IsTouchedReached'
<1>1. /\ \A a \in Addr : a \in Path /\ WellFormed(state_trie, Len(a))
      /\ \A k \in Slot : k \in Path
      /\ \A a \in DOMAIN storage_tries : \A k \in Slot : WellFormed(storage_tries[a], Len(k))
      /\ accounts \subseteq ChangedAccounts /\ account \subseteq ChangedAccounts
      /\ slots # {} => \E a \in account : account = {a} /\ slots \subseteq ChangedSlots(a)
      /\ account \subseteq DOMAIN storage_tries
      /\ t \in Transitions
  BY KeysAssumption DEF Inv, TypeOK
<1>2. /\ ChangedAccounts \subseteq Touched
      /\ \A a : ChangedSlots(a) \subseteq t.slots[a]
      /\ Touched \subseteq Addr /\ \A a \in Touched : t.slots[a] \subseteq Slot
  BY <1>1, TransitionIs DEF ChangedAccounts, ChangedSlots, Touched
<1>3. t' = t => Touched' = Touched
  BY DEF Touched
<1>4. ASSUME NEW a \in Addr, StartAccount(a) PROVE pc' \in {"update", "done"} /\ IsTouchedReached'
  <2> DEFINE n == IF a \in t.wiped THEN Null ELSE Entry(a)
  <2>1. t' = t /\ pc' = "update" /\ state_trie' = state_trie /\ storage_tries' = With(storage_tries, a, n)
    BY <1>4 DEF StartAccount
  <2>2. \A k \in t.slots[a] : a \in Touched => IsReached(n.nodes, k)
    BY NullIs DEF IsTouchedReached, Entry
  <2> HIDE DEF n
  <2>3. IsWith(storage_tries', storage_tries, a, n)
    BY <2>1, WithIs
  <2>4. \A b \in Touched \intersect DOMAIN storage_tries' :
          \A k \in t.slots[b] : IsReached(storage_tries'[b].nodes, k)
    BY <2>2, <2>3 DEF IsWith, IsTouchedReached
  <2>. QED  BY <1>3, <2>1, <2>4 DEF IsTouchedReached
<1>5. ASSUME NEW a \in Addr, NEW k \in Slot, ApplySlot(a, k)
      PROVE  pc' \in {"update", "done"} /\ IsTouchedReached'
  <2> DEFINE value == ValueAt(StorageOf(t.after, a), k)
             result == IF value = 0 THEN DeleteInternal(storage_tries[a], k)
                       ELSE InsertInternal(storage_tries[a], k, Word(value))
  <2>1. a \in DOMAIN storage_tries /\ a \in Touched /\ k \in t.slots[a] /\ WellFormed(storage_tries[a], Len(k))
    <3>1. account = {a} /\ k \in slots
      BY <1>5 DEF ApplySlot
    <3>. QED  BY <1>1, <1>2, <3>1
  <2>2. \E V : IsApplied(storage_tries[a], result, k, V)
    BY <1>1, <2>1, ApplyIs
  <2>3. /\ t' = t /\ state_trie' = state_trie /\ storage_tries' = With(storage_tries, a, result.trie)
        /\ pc' = IF result.error = "none" THEN "update" ELSE "panic"
    BY <1>5 DEF ApplySlot, Unwrap
  <2> HIDE DEF result
  <2>4. IsWith(storage_tries', storage_tries, a, result.trie)
    BY <2>3, WithIs
  <2>5. /\ \A j : IsReached(result.trie.nodes, j) <=> IsReached(storage_tries[a].nodes, j)
        /\ result.error = "none" <=> IsReached(storage_tries[a].nodes, k)
    BY <2>2 DEF IsApplied
  <2>6. IsReached(storage_tries[a].nodes, k)
    BY <2>1 DEF IsTouchedReached
  <2>7. \A b \in Touched \intersect DOMAIN storage_tries' :
          \A j \in t.slots[b] : IsReached(storage_tries'[b].nodes, j)
    BY <2>1, <2>4, <2>5 DEF IsWith, IsTouchedReached
  <2>. QED  BY <1>3, <2>3, <2>5, <2>6, <2>7 DEF IsTouchedReached
<1>6. ASSUME NEW a \in Addr, InsertAccount(a) PROVE pc' \in {"update", "done"} /\ IsTouchedReached'
  <2> DEFINE storage == Hashed(storage_tries[a])
             value == TrieAccount(t.after[a].info, Reference(storage))
             result == InsertInternal(state_trie, a, value)
  <2>1. a \in DOMAIN storage_tries /\ a \in Touched
    <3>1. account = {a}
      BY <1>6 DEF InsertAccount
    <3>. QED  BY <1>1, <1>2, <3>1
  <2>2. IsApplied(state_trie, result, a, {value})
    BY <1>1, ApplyIs
  <2>3. /\ t' = t /\ state_trie' = result.trie /\ storage_tries' = With(storage_tries, a, storage)
        /\ pc' = IF result.error = "none" THEN "update" ELSE "panic"
    BY <1>6 DEF InsertAccount, Unwrap
  <2>4. storage.nodes = storage_tries[a].nodes
    BY HashedIs
  <2> HIDE DEF storage, value, result
  <2>5. IsWith(storage_tries', storage_tries, a, storage)
    BY <2>3, WithIs
  <2>6. /\ \A j : IsReached(result.trie.nodes, j) <=> IsReached(state_trie.nodes, j)
        /\ result.error = "none" <=> IsReached(state_trie.nodes, a)
    BY <2>2 DEF IsApplied
  <2>7. \A b \in Touched \intersect DOMAIN storage_tries' :
          \A j \in t.slots[b] : IsReached(storage_tries'[b].nodes, j)
    BY <2>1, <2>4, <2>5 DEF IsWith, IsTouchedReached
  <2>8. \A b \in Touched : IsReached(state_trie'.nodes, b)
    BY <2>3, <2>6 DEF IsTouchedReached
  <2>. QED  BY <1>3, <2>1, <2>3, <2>6, <2>7, <2>8 DEF IsTouchedReached
<1>7. ASSUME NEW a \in Addr, DeleteAccount(a) PROVE pc' \in {"update", "done"} /\ IsTouchedReached'
  <2> DEFINE result == DeleteInternal(state_trie, a)
  <2>1. a \in Touched
    BY <1>1, <1>2, <1>7 DEF DeleteAccount
  <2>2. IsApplied(state_trie, result, a, {})
    BY <1>1, ApplyIs
  <2>3. /\ t' = t /\ state_trie' = result.trie /\ storage_tries' = storage_tries
        /\ pc' = IF result.error = "none" THEN "update" ELSE "panic"
    BY <1>7 DEF DeleteAccount, Unwrap
  <2> HIDE DEF result
  <2>4. /\ \A j : IsReached(result.trie.nodes, j) <=> IsReached(state_trie.nodes, j)
        /\ result.error = "none" <=> IsReached(state_trie.nodes, a)
    BY <2>2 DEF IsApplied
  <2>5. \A b \in Touched : IsReached(state_trie'.nodes, b)
    BY <2>3, <2>4 DEF IsTouchedReached
  <2>. QED  BY <1>3, <2>1, <2>3, <2>4, <2>5 DEF IsTouchedReached
<1>8. CASE Finish
  <2>1. t' = t /\ pc' = "done" /\ storage_tries' = storage_tries /\ state_trie' = Hashed(state_trie)
    BY <1>8 DEF Finish
  <2>2. state_trie'.nodes = state_trie.nodes
    BY <2>1, HashedIs
  <2>. QED  BY <1>3, <2>1, <2>2 DEF IsTouchedReached
<1>9. CASE UNCHANGED vars
  BY <1>3, <1>9 DEF vars, tries, IsTouchedReached
<1>10. ~(BuildFromProofs \/ MismatchedStateRoot \/ BuildFromWitness)
  BY DEF BuildFromProofs, MismatchedStateRoot, BuildFromWitness
<1>. QED  BY <1>4, <1>5, <1>6, <1>7, <1>8, <1>9, <1>10 DEF Next, Ended

\* It holds, since neither insert nor delete puts a digest anywhere.
LEMMA ReachHolds == Spec => []ReachInv
<1>1. Init => ReachInv
  BY DEF Init, ReachInv
<1>2. Inv /\ ReachInv /\ [Next]_vars => ReachInv'
  <2> SUFFICES ASSUME Inv, ReachInv, [Next]_vars, OneChain', pc' # "build"
               PROVE  pc' \in {"update", "done"} /\ IsTouchedReached'
    BY DEF ReachInv
  <2>1. t' = t
    BY DEF Next, vars, Ended, BuildFromProofs, MismatchedStateRoot, BuildFromWitness,
           StartAccount, ApplySlot, InsertAccount, DeleteAccount, Finish
  <2>2. OneChain
    BY <2>1 DEF OneChain, Touched
  <2>3. CASE BuildFromProofs \/ MismatchedStateRoot \/ BuildFromWitness
    BY <2>2, <2>3, BuildReach
  <2>4. CASE ~(BuildFromProofs \/ MismatchedStateRoot \/ BuildFromWitness)
    <3>1. pc # "build"
      BY <2>4 DEF Next, vars, Ended, StartAccount, ApplySlot, InsertAccount, DeleteAccount, Finish
    <3>. QED  BY <2>2, <3>1, UpdateReach DEF ReachInv
  <2>. QED  BY <2>3, <2>4
<1>. QED  BY <1>1, <1>2, InvHolds, PTL DEF Spec

\* TouchedIsResolved of the runs: with the proofs of one chain, or with a
\* witness, building the tries does not fail, nothing that update unwraps is an
\* error, and whatever the block touched can be looked up before, between and
\* after the changes.
THEOREM NothingUnwrappedFails == Spec => []TouchedIsResolved
<1>1. Inv /\ ReachInv => TouchedIsResolved
  <2> SUFFICES ASSUME Inv, ReachInv, OneChain, pc # "build"
               PROVE  /\ pc \in {"update", "done"}
                      /\ \A a \in Touched :
                           /\ GetInternal(state_trie, a).resolved
                           /\ \A k \in t.slots[a] : GetInternal(Entry(a), k).resolved
    BY DEF TouchedIsResolved
  <2>1. pc \in {"update", "done"} /\ IsTouchedReached
    BY DEF ReachInv
  <2>2. \A a \in Touched : /\ a \in Addr /\ a \in Path /\ Len(a) \in Nat
                           /\ \A k \in t.slots[a] : k \in Slot /\ k \in Path /\ Len(k) \in Nat
    BY TransitionIs, KeysAssumption, PathLen DEF Inv, Touched
  <2>3. ASSUME NEW a \in Touched PROVE GetInternal(state_trie, a).resolved
    BY <2>1, <2>2, LookupIsExact DEF Inv, TypeOK, IsTouchedReached
  <2>4. ASSUME NEW a \in Touched, NEW k \in t.slots[a] PROVE GetInternal(Entry(a), k).resolved
    <3>1. WellFormed(Entry(a), Len(k)) /\ IsReached(Entry(a).nodes, k)
      BY <2>1, <2>2, NullIs DEF Entry, Inv, TypeOK, IsTouchedReached
    <3>. QED  BY <2>2, <3>1, LookupIsExact
  <2>. QED  BY <2>1, <2>3, <2>4
<1>. QED  BY <1>1, InvHolds, ReachHolds, PTL

-----------------------------------------------------------------------------
(* What the tries give *)

\* The info of an account, if it is resolved, is that of the state.
InfoIs(f, a, s) ==
  IsReached(f, a) =>
    \A x : (\E v : LeafOf(f, a, v) /\ v.info = x) <=> a \in DOMAIN s /\ x = s[a].info

\* The value of a slot, if it is resolved; 0 is no entry.
SlotIs(f, k, x) ==
  IsReached(f, k) => \A w : LeafOf(f, k, w) <=> x # 0 /\ w = Word(x)

\* A part of the trie of a state gives what is in the state.
LEMMA PartGives ==
  ASSUME NEW s, IsState(s), NEW n
  PROVE  /\ IsPartOf(n, StateMap(s)) => \A a \in Addr : InfoIs(n.nodes, a, s)
         /\ \A b : IsPartOf(n, SlotMap(StorageOf(s, b))) =>
              \A k \in Slot : SlotIs(n.nodes, k, ValueAt(StorageOf(s, b), k))
<1>1. ASSUME IsPartOf(n, StateMap(s)), NEW a \in Addr PROVE InfoIs(n.nodes, a, s)
  <2>1. IsReached(n.nodes, a) => \A v : LeafOf(n.nodes, a, v) <=> a \in DOMAIN s /\ v = StateMap(s)[a]
    BY <1>1, StateKeys, PartIs
  <2>2. a \in DOMAIN s => StateMap(s)[a].info = s[a].info
    BY DEF StateMap, TrieAccount
  <2>. QED  BY <2>1, <2>2 DEF InfoIs
<1>2. ASSUME NEW b, IsPartOf(n, SlotMap(StorageOf(s, b))), NEW k \in Slot
      PROVE  SlotIs(n.nodes, k, ValueAt(StorageOf(s, b), k))
  <2> DEFINE m == StorageOf(s, b)
  <2>1. IsReached(n.nodes, k) => \A v : LeafOf(n.nodes, k, v) <=> k \in DOMAIN m /\ v = SlotMap(m)[k]
    BY <1>2, StateKeys, PartIs
  <2>2. k \in DOMAIN m => m[k] # 0 /\ SlotMap(m)[k] = Word(m[k])
    BY StateKeys DEF SlotMap
  <2> HIDE DEF m
  <2>3. ValueAt(m, k) = IF k \in DOMAIN m THEN m[k] ELSE 0
    BY DEF ValueAt
  <2>4. SlotIs(n.nodes, k, ValueAt(m, k))
    BY <2>1, <2>2, <2>3 DEF SlotIs
  <2>. QED  BY <2>4 DEF m
<1>. QED  BY <1>1, <1>2

\* The infos of the state trie; the accounts of which no storage is provided;
\* the values of the storage tries.
InfosAre == \A a \in Addr : InfoIs(state_trie.nodes, a, IF Applied(a) THEN t.after ELSE t.before)

\* An account without a storage trie is one the witness has no storage of.
NotProvided ==
  \A a \in Touched \ DOMAIN storage_tries :
    t.source = "witness" /\ (DOMAIN StorageOf(t.before, a) = {} \/ t.slots[a] = {})

\* Every slot that is resolved has the value it should have by now.
SlotsAre ==
  \A a \in DOMAIN storage_tries \intersect Touched : \A k \in Slot :
    ~(Applied(a) /\ a \notin DOMAIN t.after) => SlotIs(storage_tries[a].nodes, k, Expected(a, k))

\* The invariant for LookupIsSound.
LeafInv ==
  pc \in {"update", "done"} => InfosAre /\ NotProvided /\ (StorageProvided => SlotsAre)

\* It holds of the tries that are built,
LEMMA BuildLeaf ==
  ASSUME Inv, BuildFromProofs \/ BuildFromWitness
  PROVE  InfosAre' /\ NotProvided' /\ SlotsAre'
<1>1. /\ t \in Transitions /\ t' = t /\ Touched' = Touched /\ ChangedAccounts' = ChangedAccounts
      /\ accounts' = ChangedAccounts /\ account' = {}
  <2>1. /\ t \in Transitions /\ t' = t /\ pc = "build" /\ accounts' = ChangedAccounts
        /\ account' = account
    BY DEF Inv, BuildFromProofs, BuildFromWitness
  <2>. QED  BY <2>1 DEF Inv, ChangedAccounts, Touched
<1>2. /\ \A a : ~Applied(a)'
      /\ \A a, k : Expected(a, k)' = ValueAt(StorageOf(t.parents[a], a), k)
  BY <1>1 DEF Applied, Expected
<1>3. IsState(t.before) /\ \A a \in Touched : a \in Addr /\ IsState(t.parents[a])
  BY <1>1, TransitionIs DEF Touched
<1>4. CASE BuildFromProofs
  <2>1. PICK n \in StateTries : Reference(n) = StateRoot(t.before) /\ state_trie' = Hashed(n)
    BY <1>4 DEF BuildFromProofs
  <2>2. PICK s : IsState(s) /\ IsPartOf(n, StateMap(s))
    BY <1>1, ProofTries
  <2>3. Reference(n) = Canonical(StateMap(s))
    BY <2>2, StateKeys, PartIs
  <2>4. IsPartOf(n, StateMap(t.before))
    BY <1>3, <2>1, <2>2, <2>3, StateKeys DEF IsPartOf
  <2>5. \A a \in Addr : InfoIs(state_trie'.nodes, a, t.before)
    BY <1>3, <2>1, <2>4, PartGives, HashedIs
  <2>6. InfosAre'
    BY <1>1, <1>2, <2>5 DEF InfosAre
  <2>7. storage_tries' = [a \in Touched |-> Hashed(StorageTrie(a))]
    BY <1>4 DEF BuildFromProofs
  <2>8. ASSUME NEW a \in Touched, NEW k \in Slot
        PROVE  SlotIs(storage_tries'[a].nodes, k, ValueAt(StorageOf(t.parents[a], a), k))
    <3>1. IsPartOf(StorageTrie(a), SlotMap(StorageOf(t.parents[a], a)))
      BY <1>1, ProofTries
    <3>2. storage_tries'[a].nodes = StorageTrie(a).nodes
      BY <2>7, HashedIs
    <3>. QED  BY <1>3, <3>1, <3>2, PartGives
  <2>9. SlotsAre'
    BY <1>1, <1>2, <2>8 DEF SlotsAre
  <2>10. NotProvided'
    BY <1>1, <2>7 DEF NotProvided
  <2>. QED  BY <2>6, <2>9, <2>10
<1>5. CASE BuildFromWitness
  <2>1. /\ t.source = "witness" /\ state_trie' = Hashed(WitnessTrie)
        /\ storage_tries' = [a \in {l[1] : l \in WitnessLeaves} |-> Hashed(WitnessStorage(a))]
    BY <1>5 DEF BuildFromWitness, WitnessTrie, WitnessLeaves, WitnessStorage
  <2>2. \A a \in Addr : InfoIs(state_trie'.nodes, a, t.before)
    BY <1>1, <1>3, <2>1, WitnessTries, PartGives, HashedIs
  <2>3. InfosAre'
    BY <1>1, <1>2, <2>2 DEF InfosAre
  <2>4. \A a \in Touched : t.parents[a] = t.before
    BY <1>1, <2>1, TransitionIs DEF IsTransition, Touched
  <2>5. ASSUME NEW a \in Touched, a \in DOMAIN storage_tries', NEW k \in Slot
        PROVE  SlotIs(storage_tries'[a].nodes, k, ValueAt(StorageOf(t.parents[a], a), k))
    <3>1. PICK l \in WitnessLeaves : l[1] = a
      BY <2>1, <2>5
    <3>2. IsPartOf(WitnessStorage(a), SlotMap(StorageOf(t.before, a)))
      BY <1>1, <2>1, <3>1, WitnessTries
    <3>3. storage_tries'[a].nodes = WitnessStorage(a).nodes
      BY <2>1, <3>1, HashedIs
    <3>. QED  BY <1>3, <2>4, <3>2, <3>3, PartGives
  <2>6. SlotsAre'
    BY <1>1, <1>2, <2>5 DEF SlotsAre
  <2>7. NotProvided'
    <3>1. ASSUME NEW a \in Touched, a \notin DOMAIN storage_tries'
          PROVE  DOMAIN StorageOf(t.before, a) = {} \/ t.slots[a] = {}
      <4>1. ~ \E l \in WitnessLeaves : l[1] = a
        BY <2>1, <3>1
      <4>. QED  BY <1>1, <2>1, <4>1, WitnessTries
    <3>. QED  BY <1>1, <2>1, <3>1 DEF NotProvided
  <2>. QED  BY <2>3, <2>6, <2>7
<1>. QED  BY <1>4, <1>5

\* An insertion or a deletion changes the value of its key.
LEMMA AppliedGives ==
  ASSUME NEW n, NEW r, NEW k, NEW V, IsApplied(n, r, k, V), r.error = "none"
  PROVE  /\ \A a, s : a # k /\ InfoIs(n.nodes, a, s) => InfoIs(r.trie.nodes, a, s)
         /\ \A j, x : j # k /\ SlotIs(n.nodes, j, x) => SlotIs(r.trie.nodes, j, x)
         /\ \A w : LeafOf(r.trie.nodes, k, w) <=> w \in V
<1>1. /\ \A j : IsReached(r.trie.nodes, j) <=> IsReached(n.nodes, j)
      /\ \A j, w : LeafOf(r.trie.nodes, j, w) <=> IF j = k THEN w \in V ELSE LeafOf(n.nodes, j, w)
  BY DEF IsApplied
<1>. QED  BY <1>1 DEF InfoIs, SlotIs

\* through every change of them,
LEMMA UpdateLeaf ==
  ASSUME Inv, [Next]_vars, pc \in {"update", "done"}, pc' \in {"update", "done"},
         InfosAre, NotProvided, StorageProvided => SlotsAre
  PROVE  InfosAre' /\ NotProvided' /\ (StorageProvided => SlotsAre')
<1>1. /\ \A a \in Addr : a \in Path /\ WellFormed(state_trie, Len(a))
      /\ \A k \in Slot : k \in Path
      /\ \A a \in DOMAIN storage_tries : \A k \in Slot : WellFormed(storage_tries[a], Len(k))
      /\ accounts \subseteq ChangedAccounts
      /\ account = {} \/ \E a \in ChangedAccounts \ accounts : account = {a}
      /\ slots # {} => \E a \in account : account = {a} /\ slots \subseteq ChangedSlots(a)
      /\ account \subseteq DOMAIN storage_tries \intersect DOMAIN t.after
      /\ t \in Transitions
  BY KeysAssumption DEF Inv, TypeOK
<1>2. /\ ChangedAccounts \subseteq Touched
      /\ \A a : ChangedSlots(a) \subseteq t.slots[a]
      /\ Touched \subseteq Addr /\ \A a \in Touched : t.slots[a] \subseteq Slot
  BY <1>1, TransitionIs DEF ChangedAccounts, ChangedSlots, Touched
<1>3. t' = t => /\ Touched' = Touched /\ ChangedAccounts' = ChangedAccounts
                /\ \A a : ChangedSlots(a)' = ChangedSlots(a)
  BY DEF Touched, ChangedAccounts, ChangedSlots
<1>4. ASSUME NEW a \in Addr, StartAccount(a)
      PROVE  InfosAre' /\ NotProvided' /\ (StorageProvided => SlotsAre')
  <2> DEFINE n == IF a \in t.wiped THEN Null ELSE Entry(a)
  <2>1. /\ t' = t /\ state_trie' = state_trie /\ storage_tries' = With(storage_tries, a, n)
        /\ account = {} /\ account' = {a} /\ a \in accounts /\ accounts' = accounts \ {a}
        /\ slots' = ChangedSlots(a) /\ a \in DOMAIN t.after
    BY <1>4 DEF StartAccount
  <2>2. /\ \A b : Applied(b)' = Applied(b)
        /\ ~Applied(a) /\ ~Applied(a)'
    BY <1>1, <1>3, <2>1 DEF Applied
  <2>3. InfosAre'
    BY <2>1, <2>2 DEF InfosAre
  <2>4. /\ \A b, k : b # a => Expected(b, k)' = Expected(b, k)
        /\ \A k : Expected(a, k)' = IF a \in t.wiped THEN 0 ELSE ValueAt(StorageOf(t.parents[a], a), k)
        /\ \A k : Expected(a, k) = ValueAt(StorageOf(t.parents[a], a), k)
    <3>1. \A b, k : b # a => Expected(b, k)' = Expected(b, k)
      BY <1>3, <2>1, <2>2 DEF Expected
    <3>2. \A k : Expected(a, k)' = IF a \in t.wiped THEN 0 ELSE ValueAt(StorageOf(t.parents[a], a), k)
      BY <1>3, <2>1, <2>2 DEF Expected
    <3>3. \A k : Expected(a, k) = ValueAt(StorageOf(t.parents[a], a), k)
      BY <2>1, <2>2 DEF Expected
    <3>. QED  BY <3>1, <3>2, <3>3
  <2>5. ASSUME StorageProvided, NEW k \in Slot PROVE SlotIs(n.nodes, k, Expected(a, k)')
    <3>1. \A j : ~LeafOf(Null.nodes, j, 0) /\ \A w : ~LeafOf(Null.nodes, j, w)
      BY NullIs
    <3>2. CASE a \in t.wiped
      BY <2>4, <3>1, <3>2 DEF SlotIs
    <3>3. CASE a \notin t.wiped /\ a \in DOMAIN storage_tries
      <4>1. n = storage_tries[a] /\ Expected(a, k)' = Expected(a, k)
        BY <2>4, <3>3 DEF Entry
      <4>2. a \in Touched
        BY <1>1, <1>2, <2>1
      <4>. QED  BY <2>2, <2>5, <3>3, <4>1, <4>2 DEF SlotsAre
    <3>4. CASE a \notin t.wiped /\ a \notin DOMAIN storage_tries
      <4>1. a \in Touched /\ a \in ChangedAccounts
        BY <1>1, <1>2, <2>1
      <4>2. t.source = "witness" /\ (DOMAIN StorageOf(t.before, a) = {} \/ t.slots[a] = {})
        BY <3>4, <4>1 DEF NotProvided
      <4>3. DOMAIN StorageOf(t.before, a) = {}
        BY <2>1, <2>5, <3>4, <4>1, <4>2 DEF StorageProvided
      <4>4. t.parents[a] = t.before
        BY <1>1, <4>1, <4>2, TransitionIs DEF IsTransition, Touched
      <4>5. Expected(a, k)' = 0
        BY <2>4, <3>4, <4>3, <4>4 DEF ValueAt
      <4>6. n = Null
        BY <3>4 DEF Entry
      <4>. QED  BY <3>1, <4>5, <4>6 DEF SlotIs
    <3>. QED  BY <3>2, <3>3, <3>4
  <2> HIDE DEF n
  <2>6. IsWith(storage_tries', storage_tries, a, n)
    BY <2>1, WithIs
  <2>7. NotProvided'
    BY <1>3, <2>1, <2>6 DEF NotProvided, IsWith
  <2>8. ASSUME StorageProvided PROVE SlotsAre'
    <3>1. SUFFICES ASSUME NEW b \in DOMAIN storage_tries', b \in Touched, NEW k \in Slot,
                          ~(Applied(b) /\ b \notin DOMAIN t.after)
                   PROVE  SlotIs(storage_tries'[b].nodes, k, Expected(b, k)')
      BY <1>3, <2>1, <2>2 DEF SlotsAre
    <3>2. CASE b = a
      BY <2>5, <2>6, <2>8, <3>2 DEF IsWith
    <3>3. CASE b # a
      BY <2>4, <2>6, <2>8, <3>1, <3>3 DEF IsWith, SlotsAre
    <3>. QED  BY <3>2, <3>3
  <2>. QED  BY <2>3, <2>7, <2>8
<1>5. ASSUME NEW a \in Addr, NEW k \in Slot, ApplySlot(a, k)
      PROVE  InfosAre' /\ NotProvided' /\ (StorageProvided => SlotsAre')
  <2> DEFINE value == ValueAt(StorageOf(t.after, a), k)
             result == IF value = 0 THEN DeleteInternal(storage_tries[a], k)
                       ELSE InsertInternal(storage_tries[a], k, Word(value))
             V == IF value = 0 THEN {} ELSE {Word(value)}
  <2>1. /\ t' = t /\ state_trie' = state_trie /\ storage_tries' = With(storage_tries, a, result.trie)
        /\ pc' = IF result.error = "none" THEN "update" ELSE "panic"
        /\ account = {a} /\ account' = {a} /\ k \in slots /\ slots' = slots \ {k}
        /\ accounts' = accounts
    BY <1>5 DEF ApplySlot, Unwrap
  <2>2. a \in DOMAIN storage_tries /\ a \in Touched /\ k \in ChangedSlots(a) /\ a \in DOMAIN t.after
    BY <1>1, <1>2, <2>1
  <2>3. IsApplied(storage_tries[a], result, k, V)
    BY <1>1, <2>2, ApplyIs
  <2>4. result.error = "none"
    BY <2>1
  <2>5. \A b : Applied(b)' = Applied(b)
    BY <1>3, <2>1 DEF Applied
  <2>6. /\ \A b, j : b # a \/ j # k => Expected(b, j)' = Expected(b, j)
        /\ Expected(a, k)' = value
    <3>1. \A b, j : b # a \/ j # k => Expected(b, j)' = Expected(b, j)
      BY <1>3, <2>1, <2>5 DEF Expected
    <3>2. Expected(a, k)' = value
      BY <1>3, <2>1, <2>2, <2>5 DEF Expected
    <3>. QED  BY <3>1, <3>2
  <2>7. \A w : w \in V <=> value # 0 /\ w = Word(value)
    OBVIOUS
  <2> HIDE DEF result, V, value
  <2>8. IsWith(storage_tries', storage_tries, a, result.trie)
    BY <2>1, WithIs
  <2>9. InfosAre'
    BY <2>1, <2>5 DEF InfosAre
  <2>10. NotProvided'
    BY <1>3, <2>1, <2>8 DEF NotProvided, IsWith
  <2>11. ASSUME StorageProvided PROVE SlotsAre'
    <3>1. SUFFICES ASSUME NEW b \in DOMAIN storage_tries', b \in Touched, NEW j \in Slot,
                          ~(Applied(b) /\ b \notin DOMAIN t.after)
                   PROVE  SlotIs(storage_tries'[b].nodes, j, Expected(b, j)')
      BY <1>3, <2>1, <2>5 DEF SlotsAre
    <3>2. CASE b # a
      BY <2>6, <2>8, <2>11, <3>1, <3>2 DEF IsWith, SlotsAre
    <3>3. CASE b = a /\ j # k
      <4>1. SlotIs(storage_tries[a].nodes, j, Expected(a, j))
        BY <2>2, <2>11, <3>1, <3>3 DEF SlotsAre
      <4>2. SlotIs(result.trie.nodes, j, Expected(a, j))
        BY <2>3, <2>4, <3>3, <4>1, AppliedGives
      <4>. QED  BY <2>6, <2>8, <3>3, <4>2 DEF IsWith
    <3>4. CASE b = a /\ j = k
      <4>1. SlotIs(result.trie.nodes, k, value)
        BY <2>3, <2>4, <2>7, AppliedGives DEF SlotIs
      <4>. QED  BY <2>6, <2>8, <3>4, <4>1 DEF IsWith
    <3>. QED  BY <3>2, <3>3, <3>4
  <2>. QED  BY <2>9, <2>10, <2>11
<1>6. ASSUME NEW a \in Addr, InsertAccount(a)
      PROVE  InfosAre' /\ NotProvided' /\ (StorageProvided => SlotsAre')
  <2> DEFINE storage == Hashed(storage_tries[a])
             value == TrieAccount(t.after[a].info, Reference(storage))
             result == InsertInternal(state_trie, a, value)
  <2>1. /\ t' = t /\ state_trie' = result.trie /\ storage_tries' = With(storage_tries, a, storage)
        /\ pc' = IF result.error = "none" THEN "update" ELSE "panic"
        /\ account = {a} /\ slots = {} /\ account' = {} /\ slots' = {} /\ accounts' = accounts
    BY <1>6 DEF InsertAccount, Unwrap
  <2>2. /\ a \in DOMAIN storage_tries /\ a \in DOMAIN t.after
        /\ a \in ChangedAccounts /\ a \notin accounts
    BY <1>1, <2>1
  <2>3. IsApplied(state_trie, result, a, {value})
    BY <1>1, ApplyIs
  <2>4. value.info = t.after[a].info /\ storage.nodes = storage_tries[a].nodes /\ result.error = "none"
    BY <2>1, HashedIs DEF TrieAccount
  <2>5. /\ \A b : b # a => Applied(b)' = Applied(b)
        /\ Applied(a)'
    BY <1>3, <2>1, <2>2 DEF Applied
  <2>6. \A b, k : Expected(b, k)' = Expected(b, k)
    BY <1>3, <2>1, <2>5 DEF Expected
  <2> HIDE DEF storage, value, result
  <2>7. IsWith(storage_tries', storage_tries, a, storage)
    BY <2>1, WithIs
  <2>8. InfosAre'
    <3>1. InfoIs(result.trie.nodes, a, t.after)
      <4>1. \A v : LeafOf(result.trie.nodes, a, v) <=> v \in {value}
        BY <2>3, <2>4, AppliedGives
      <4>. QED  BY <2>2, <2>4, <4>1 DEF InfoIs
    <3>2. ASSUME NEW b \in Addr, b # a
          PROVE  InfoIs(result.trie.nodes, b, IF Applied(b) THEN t.after ELSE t.before)
      BY <2>3, <2>4, <3>2, AppliedGives DEF InfosAre
    <3>. QED  BY <2>1, <2>5, <3>1, <3>2 DEF InfosAre
  <2>9. NotProvided'
    BY <1>3, <2>1, <2>7 DEF NotProvided, IsWith
  <2>10. ASSUME StorageProvided PROVE SlotsAre'
    <3>1. SUFFICES ASSUME NEW b \in DOMAIN storage_tries', b \in Touched, NEW k \in Slot,
                          ~(Applied(b)' /\ b \notin DOMAIN t.after)
                   PROVE  SlotIs(storage_tries'[b].nodes, k, Expected(b, k)')
      BY <1>3, <2>1 DEF SlotsAre
    <3>2. b \in DOMAIN storage_tries /\ storage_tries'[b].nodes = storage_tries[b].nodes
      BY <2>2, <2>4, <2>7 DEF IsWith
    <3>3. ~(Applied(b) /\ b \notin DOMAIN t.after)
      BY <2>2, <2>5, <3>1
    <3>. QED  BY <2>6, <2>10, <3>1, <3>2, <3>3 DEF SlotsAre
  <2>. QED  BY <2>8, <2>9, <2>10
<1>7. ASSUME NEW a \in Addr, DeleteAccount(a)
      PROVE  InfosAre' /\ NotProvided' /\ (StorageProvided => SlotsAre')
  <2> DEFINE result == DeleteInternal(state_trie, a)
  <2>1. /\ t' = t /\ state_trie' = result.trie /\ storage_tries' = storage_tries
        /\ pc' = IF result.error = "none" THEN "update" ELSE "panic"
        /\ account = {} /\ account' = {} /\ slots' = slots /\ accounts' = accounts \ {a}
        /\ a \in accounts /\ a \notin DOMAIN t.after
    BY <1>7 DEF DeleteAccount, Unwrap
  <2>2. IsApplied(state_trie, result, a, {}) /\ result.error = "none"
    BY <1>1, <2>1, ApplyIs
  <2> HIDE DEF result
  <2>3. /\ \A b : b # a => Applied(b)' = Applied(b)
        /\ Applied(a)'
    BY <1>1, <1>3, <2>1 DEF Applied
  <2>4. \A b, k : b # a => Expected(b, k)' = Expected(b, k)
    BY <1>3, <2>1, <2>3 DEF Expected
  <2>5. InfosAre'
    <3>1. InfoIs(result.trie.nodes, a, t.after)
      <4>1. \A v : ~LeafOf(result.trie.nodes, a, v)
        BY <2>2, AppliedGives
      <4>. QED  BY <2>1, <4>1 DEF InfoIs
    <3>2. ASSUME NEW b \in Addr, b # a
          PROVE  InfoIs(result.trie.nodes, b, IF Applied(b) THEN t.after ELSE t.before)
      BY <2>2, <3>2, AppliedGives DEF InfosAre
    <3>. QED  BY <2>1, <2>3, <3>1, <3>2 DEF InfosAre
  <2>6. NotProvided'
    BY <1>3, <2>1 DEF NotProvided
  <2>7. ASSUME StorageProvided PROVE SlotsAre'
    <3>1. SUFFICES ASSUME NEW b \in DOMAIN storage_tries, b \in Touched, NEW k \in Slot,
                          ~(Applied(b)' /\ b \notin DOMAIN t.after)
                   PROVE  SlotIs(storage_tries[b].nodes, k, Expected(b, k)')
      BY <1>3, <2>1 DEF SlotsAre
    <3>. QED  BY <2>1, <2>3, <2>4, <2>7, <3>1 DEF SlotsAre
  <2>. QED  BY <2>5, <2>6, <2>7
<1>8. ASSUME t' = t, storage_tries' = storage_tries, state_trie'.nodes = state_trie.nodes,
             accounts' = accounts, account' = account, slots' = slots
      PROVE  InfosAre' /\ NotProvided' /\ (StorageProvided => SlotsAre')
  <2>1. /\ \A b : Applied(b)' = Applied(b)
        /\ \A b, k : Expected(b, k)' = Expected(b, k)
    BY <1>3, <1>8 DEF Applied, Expected
  <2>. QED  BY <1>3, <1>8, <2>1 DEF InfosAre, NotProvided, SlotsAre
<1>9. CASE Finish
  BY <1>8, <1>9, HashedIs DEF Finish, todo
<1>10. CASE UNCHANGED vars
  BY <1>8, <1>10 DEF vars, tries, todo
<1>11. ~(BuildFromProofs \/ MismatchedStateRoot \/ BuildFromWitness)
  BY DEF BuildFromProofs, MismatchedStateRoot, BuildFromWitness
<1>. QED  BY <1>4, <1>5, <1>6, <1>7, <1>9, <1>10, <1>11 DEF Next, Ended

\* and so always.
LEMMA LeafHolds == Spec => []LeafInv
<1>1. Init => LeafInv
  BY DEF Init, LeafInv
<1>2. Inv /\ LeafInv /\ [Next]_vars => LeafInv'
  <2> SUFFICES ASSUME Inv, LeafInv, [Next]_vars, pc' \in {"update", "done"}
               PROVE  InfosAre' /\ NotProvided' /\ (StorageProvided' => SlotsAre')
    BY DEF LeafInv
  <2>1. t' = t
    BY DEF Next, vars, Ended, BuildFromProofs, MismatchedStateRoot, BuildFromWitness,
           StartAccount, ApplySlot, InsertAccount, DeleteAccount, Finish
  <2>2. StorageProvided' => StorageProvided
    BY <2>1 DEF StorageProvided, ChangedAccounts, Touched
  <2>3. CASE BuildFromProofs \/ BuildFromWitness
    BY <2>3, BuildLeaf
  <2>4. CASE MismatchedStateRoot
    BY <2>4 DEF MismatchedStateRoot
  <2>5. CASE ~(BuildFromProofs \/ MismatchedStateRoot \/ BuildFromWitness)
    <3>1. pc \in {"update", "done"}
      BY <2>5 DEF Next, vars, Ended, StartAccount, ApplySlot, InsertAccount, DeleteAccount, Finish
    <3>. QED  BY <2>2, <3>1, UpdateLeaf DEF LeafInv
  <2>. QED  BY <2>3, <2>4, <2>5
<1>. QED  BY <1>1, <1>2, InvHolds, PTL DEF Spec

\* LookupIsSound of the runs: a lookup in the state trie or in a storage trie at
\* any time, between two changes and with the proofs of several forks, too,
\* gives what the state holds there by then, unless it is not resolved.
THEOREM LookupsAreSound == Spec => []LookupIsSound
<1>1. Inv /\ LeafInv => LookupIsSound
  <2> SUFFICES ASSUME Inv, LeafInv, pc \in {"update", "done"} PROVE LookupIsSound
    BY DEF LookupIsSound
  <2>1. InfosAre /\ (StorageProvided => SlotsAre)
    BY DEF LeafInv
  <2>2. /\ \A a \in Addr : a \in Path /\ Len(a) \in Nat /\ WellFormed(state_trie, Len(a))
        /\ \A a \in DOMAIN storage_tries : \A k \in Slot :
             k \in Path /\ Len(k) \in Nat /\ WellFormed(storage_tries[a], Len(k))
    BY KeysAssumption, PathLen DEF Inv, TypeOK
  <2>3. ASSUME NEW a \in Addr, GetInternal(state_trie, a).resolved
        PROVE  LET s == IF Applied(a) THEN t.after ELSE t.before
               IN  {v.info : v \in GetInternal(state_trie, a).value} =
                     {s[b].info : b \in {a} \intersect DOMAIN s}
    <3> DEFINE s == IF Applied(a) THEN t.after ELSE t.before
               r == GetInternal(state_trie, a)
    <3>1. IsReached(state_trie.nodes, a) /\ \A v : v \in r.value <=> LeafOf(state_trie.nodes, a, v)
      BY <2>2, <2>3, LookupIsExact, LeafIn
    <3>2. InfoIs(state_trie.nodes, a, s)
      BY <2>1 DEF InfosAre
    <3> HIDE DEF s, r
    <3>3. \A x : (\E v \in r.value : v.info = x) <=> a \in DOMAIN s /\ x = s[a].info
      BY <3>1, <3>2 DEF InfoIs
    <3>4. {v.info : v \in r.value} = {s[b].info : b \in {a} \intersect DOMAIN s}
      BY <3>3
    <3>. QED  BY <3>4 DEF s, r
  <2>4. ASSUME StorageProvided, NEW a \in DOMAIN storage_tries \intersect Touched, NEW k \in Slot,
               GetInternal(storage_tries[a], k).resolved, ~(Applied(a) /\ a \notin DOMAIN t.after)
        PROVE  GetInternal(storage_tries[a], k).value =
                 IF Expected(a, k) = 0 THEN {} ELSE {Word(Expected(a, k))}
    <3> DEFINE r == GetInternal(storage_tries[a], k)
    <3>1. /\ IsReached(storage_tries[a].nodes, k)
          /\ \A v : v \in r.value <=> LeafOf(storage_tries[a].nodes, k, v)
      BY <2>2, <2>4, LookupIsExact, LeafIn
    <3>2. SlotIs(storage_tries[a].nodes, k, Expected(a, k))
      BY <2>1, <2>4 DEF SlotsAre
    <3> HIDE DEF r
    <3>3. r.value = IF Expected(a, k) = 0 THEN {} ELSE {Word(Expected(a, k))}
      BY <3>1, <3>2 DEF SlotIs
    <3>. QED  BY <3>3 DEF r
  <2>. QED  BY <2>3, <2>4 DEF LookupIsSound
<1>. QED  BY <1>1, InvHolds, LeafHolds, PTL

-----------------------------------------------------------------------------
(* The orphan of a deletion, and where it is provided *)

\* A key from p on, and from c on.
LEMMA Shortened ==
  ASSUME NEW p \in Path, NEW c \in Path, NEW e \in Path, IsPrefix(p, c), IsPrefix(c, e)
  PROVE  \E i \in Nat : /\ Len(c) = Len(p) + i /\ i <= Len(Drop(e, Len(p)))
                        /\ Len(Drop(e, Len(c))) = Len(Drop(e, Len(p))) - i
                        /\ i = Len(Drop(e, Len(p))) => c = e
                        /\ Drop(Drop(e, Len(p)), i) = Drop(e, Len(c))
                        /\ SubSeq(Drop(e, Len(p)), 1, i) \in Path
                        /\ p \o SubSeq(Drop(e, Len(p)), 1, i) = c
<1>1. /\ Len(p) \in Nat /\ Len(c) \in Nat /\ Len(e) \in Nat /\ Len(p) <= Len(c) /\ Len(c) <= Len(e)
      /\ IsPrefix(p, e)
  BY PathLen, PrefixLen, PrefixTrans
<1> DEFINE s == Drop(e, Len(p))
           i == Len(c) - Len(p)
<1>2. /\ s \in Path /\ Len(s) = Len(e) - Len(p) /\ p \o s = e
  <2>1. Len(p) \in 0..Len(e)
    BY <1>1
  <2>2. s \in Path /\ Len(s) = Len(e) - Len(p)
    BY <2>1, Dropped
  <2>. QED  BY <1>1, <2>2, JoinDropped
<1>3. i \in Nat /\ i \in 0..Len(s) /\ Len(c) = Len(p) + i
  BY <1>1, <1>2
<1> HIDE DEF s, i
<1>4. Drop(p \o s, Len(p) + i) = Drop(s, i)
  BY <1>2, <1>3, DropOfJoin
<1>5. Drop(s, i) = Drop(e, Len(c))
  BY <1>2, <1>3, <1>4, Zenon
<1>6. Len(Drop(e, Len(c))) = Len(s) - i
  BY <1>1, <1>2, <1>3, Dropped
<1> DEFINE x == SubSeq(s, 1, i)
<1>7. x \in Path /\ Len(x) = i /\ \A j \in 1..i : x[j] = s[j]
  BY <1>2, <1>3, Take
<1> HIDE DEF x
<1>8. \A j \in 1..Len(c) : c[j] = e[j]
  BY PrefixDef
<1>9. \A j \in 1..Len(x) : c[Len(p) + j] = x[j]
  BY <1>1, <1>2, <1>3, <1>7, <1>8
<1>10. \A j \in 1..Len(p) : c[j] = p[j]
  BY PrefixDef
<1>11. p \o x = c
  BY <1>3, <1>7, <1>9, <1>10, JoinedIs
<1>12. i = Len(s) => c = e
  <2>1. i = Len(s) => Len(e) <= Len(c)
    BY <1>1, <1>2, <1>3
  <2>. QED  BY <2>1, PrefixSameLen
<1>13. /\ i <= Len(s) /\ x = SubSeq(s, 1, i) /\ s = Drop(e, Len(p))
  BY <1>3 DEF x, s
<1>. QED  BY <1>3, <1>5, <1>6, <1>7, <1>11, <1>12, <1>13

\* A leaf is alone.
LEMMA LeafBelow ==
  ASSUME NEW F, NEW len \in Nat, Shape(F, len), NEW c \in DOMAIN F, F[c].type = "leaf"
  PROVE  /\ DOMAIN Below(F, c) = {<<>>} /\ Below(F, c)[<<>>] = F[c]
         /\ Below(F, c) = [x \in {<<>>} |-> F[c]]
<1>1. c \in Path /\ \A q \in DOMAIN F : q \in Path /\ (IsPrefix(c, q) => q = c)
  BY PlacedIs
<1>2. /\ \A q : q \in DOMAIN Below(F, c) <=> q \in Path /\ c \o q \in DOMAIN F
      /\ \A q \in DOMAIN Below(F, c) : Below(F, c)[q] = F[c \o q]
  BY <1>1, BelowIs
<1>3. c \o <<>> = c /\ <<>> \in Path /\ Len(<<>>) = 0 /\ Len(c) \in Nat
  BY <1>1, EmptyPath, PathLen
<1>4. ASSUME NEW q \in DOMAIN Below(F, c) PROVE q = <<>>
  <2>1. q \in Path /\ c \o q = c /\ Len(c \o q) = Len(c) + Len(q) /\ Len(q) \in Nat
    BY <1>1, <1>2, Joined, PathLen
  <2>2. Len(q) = 0
    BY <1>3, <2>1
  <2>. QED  BY <2>1, <2>2, EmptyPath
<1>5. <<>> \in DOMAIN Below(F, c) /\ Below(F, c)[<<>>] = F[c]
  BY <1>2, <1>3
<1>6. DOMAIN Below(F, c) = {<<>>}
  BY <1>4, <1>5
<1>7. Below(F, c) = [q \in DOMAIN Below(F, c) |-> Below(F, c)[q]]
  BY DEF Below
<1>. QED  BY <1>5, <1>6, <1>7

\* The orphan of a key that is not in the map is its last node or, if that stands
\* in its parent, one that does, too.
LEMMA OrphanIsLast ==
  ASSUME NEW m, NEW len \in Nat, AreKeys(DOMAIN m, len), NEW k \in Path, k \notin DOMAIN m,
         NEW p \in DOMAIN Canonical(m), IsPrefix(p, k),
         \A q \in DOMAIN Canonical(m) : IsPrefix(q, k) => Len(q) <= Len(p),
         p = <<>> \/ ~Embedded(Below(Canonical(m), p))
  PROVE  OrphanedLeafs(Canonical(m), k) = ShortenNodePath(Below(Canonical(m), p))
<1> DEFINE G == Canonical(m)
           n == MptFromProof(G, k)
           last == CHOOSE x \in ProofPaths(G, k) : \A q \in ProofPaths(G, k) : Len(q) <= Len(x)
<1>1. IsPartOf(n, m) /\ IsReached(n.nodes, k)
  BY ResolvedIsPart DEF MptFromProof
<1>2. WellFormed(n, len) /\ \A v : ~LeafOf(n.nodes, k, v)
  BY <1>1, PartIs
<1>3. IsNotIncluded(G, k)
  <2>1. \A v : v \notin GetInternal(n, k).value
    <3>1. GetInternal(n, k).resolved
      BY <1>1, <1>2, LookupIsExact
    <3>. QED  BY <1>2, <3>1, LookupIsExact, LeafIn
  <2>. QED  BY <2>1 DEF IsNotIncluded
<1>4. G # EmptyRoot
  BY DEF EmptyRoot
<1>5. p \in ProofPaths(G, k) /\ \A q \in ProofPaths(G, k) : Len(q) <= Len(p)
  BY DEF ProofPaths
<1>6. last \in ProofPaths(G, k) /\ \A q \in ProofPaths(G, k) : Len(q) <= Len(last)
  BY <1>5
<1>7. last = p
  <2> HIDE DEF last
  <2>1. last \in DOMAIN G /\ IsPrefix(last, k)
    BY <1>6 DEF ProofPaths
  <2>2. p \in Path /\ last \in Path /\ Len(p) \in Nat /\ Len(last) \in Nat
    BY <2>1, CanonicalPaths
  <2>3. Len(last) <= Len(p) /\ Len(p) <= Len(last)
    BY <1>5, <1>6
  <2>4. IsPrefix(p, last)
    BY <2>1, <2>2, <2>3, PrefixesCompare
  <2>. QED  BY <2>2, <2>3, <2>4, PrefixSameLen
<1>8. OrphanedLeafs(G, k) = ShortenNodePath(Below(G, last))
  BY <1>3, <1>4 DEF OrphanedLeafs
<1>. QED  BY <1>7, <1>8

\* What stands in its parent does so with less nibbles.
LEMMA EmbeddedIsShort ==
  ASSUME NEW g, NEW h, Embedded(g), NEW v, NEW p \in Path, NEW q \in Path,
         g[<<>>] = Leaf(p, v), DOMAIN h = {<<>>}, h[<<>>] = Leaf(q, v), Len(q) <= Len(p)
  PROVE  Embedded(h)
<1>1. /\ Nibs(Leaf(p, v)) = p /\ Nibs(Leaf(q, v)) = q
      /\ Leaf(p, v).value = v /\ Leaf(q, v).value = v /\ Leaf(q, v).type = "leaf"
  BY NibsOf DEF Leaf
<1>2. <<Len(p), v>> \in ShortLeafs
  BY <1>1 DEF Embedded
<1>3. Len(q) \in 0..Len(p)
  BY PathLen
<1>4. <<Len(q), v>> \in ShortLeafs
  BY <1>2, <1>3, ShortLeafsAssumption
<1>. QED  BY <1>1, <1>4 DEF Embedded

\* A deletion that leaves an extension to what is not resolved has its orphan in
\* the proof of the key after the block.
LEMMA OrphanIsFound ==
  ASSUME NEW m, NEW l, NEW len \in Nat, AreKeys(DOMAIN m, len), AreKeys(DOMAIN l, len),
         NEW s \in Path, NEW c \in Path, IsPrefix(s, c), Len(s) < Len(c),
         \A j \in DOMAIN m : IsPrefix(s, j) => IsPrefix(c, j),
         SameAfter(m, l, c), SameAfter(l, m, c),
         c \in DOMAIN Canonical(l), Canonical(l)[c].type # "branch",
         NEW k \in Path, k \notin DOMAIN m, IsBeside(c, k)
  PROVE  Below(Canonical(l), c) \in OrphanedLeafs(Canonical(m), k) \/ Embedded(Below(Canonical(l), c))
<1> DEFINE F == Canonical(l)
           G == Canonical(m)
           K == DOMAIN m
<1>1. PICK e : IsNodeTo(l, c, e)
  BY NoBranch
<1> DEFINE p == Start(K, e)
<1>2. /\ IsNodeTo(m, p, e) /\ IsPrefix(p, s)
      /\ e \in DOMAIN m <=> e \in DOMAIN l
      /\ e \in DOMAIN m => m[e] = l[e]
      /\ e \notin DOMAIN m => e \in Forks(DOMAIN m) /\ e \in Forks(DOMAIN l)
  BY <1>1, OrphanStart
<1>3. /\ p = Start(K, e) /\ e \in Ends(K) /\ p \in Path /\ e \in Path /\ Len(p) \in Nat
      /\ Len(e) \in Nat /\ p \in DOMAIN G
      /\ G[p] = IF e \in K THEN Leaf(Drop(e, Len(p)), m[e]) ELSE Extension(Drop(e, Len(p)))
  BY <1>2 DEF IsNodeTo
<1>4. /\ e \in Ends(DOMAIN l) /\ c = Start(DOMAIN l, e) /\ IsPrefix(c, e) /\ c \notin Forks(DOMAIN l)
      /\ F[c] = IF e \in K THEN Leaf(Drop(e, Len(c)), m[e]) ELSE Extension(Drop(e, Len(c)))
  BY <1>1, <1>2 DEF IsNodeTo
<1> HIDE DEF p
<1>5. Len(s) \in Nat /\ Len(c) \in Nat /\ Len(p) <= Len(s) /\ IsPrefix(p, c)
  BY <1>2, <1>3, PathLen, PrefixLen, PrefixTrans
\* It is on the way to the key, and nothing is after it.
<1>6. IsPrefix(p, k)
  <2>1. PICK b \in Path : IsPrefix(b, c) /\ Len(c) = Len(b) + 1 /\ IsPrefix(b, k)
    BY DEF IsBeside
  <2>2. Len(p) <= Len(b)
    BY <1>3, <1>5, <2>1, PathLen
  <2>3. IsPrefix(p, b)
    BY <1>3, <1>5, <2>1, <2>2, PrefixesCompare
  <2>. QED  BY <1>3, <2>1, <2>3, PrefixTrans
<1>7. ASSUME NEW q \in DOMAIN G, IsPrefix(q, k) PROVE Len(q) <= Len(p)
  <2>1. q \in Path /\ Len(q) \in Nat
    BY CanonicalPaths
  <2>2. SUFFICES ASSUME Len(p) <= Len(q), q # p PROVE FALSE
    BY <1>3, <2>1
  <2>3. IsPrefix(p, q)
    BY <1>3, <1>6, <1>7, <2>1, <2>2, PrefixesCompare
  <2>4. IsPrefix(e, q)
    BY <1>3, <2>2, <2>3, Between
  <2>5. IsPrefix(c, k)
    BY <1>3, <1>4, <1>7, <2>1, <2>4, PrefixTrans
  <2>. QED  BY <2>5 DEF IsBeside
<1>8. /\ Shape(G, len) /\ Shape(F, len)
  BY CanonicalIsTrie
<1>9. PICK i \in Nat : /\ Len(c) = Len(p) + i /\ i <= Len(Drop(e, Len(p)))
                       /\ Len(Drop(e, Len(c))) = Len(Drop(e, Len(p))) - i
                       /\ i = Len(Drop(e, Len(p))) => c = e
                       /\ Drop(Drop(e, Len(p)), i) = Drop(e, Len(c))
                       /\ SubSeq(Drop(e, Len(p)), 1, i) \in Path
                       /\ p \o SubSeq(Drop(e, Len(p)), 1, i) = c
  <2>1. p \in Path /\ c \in Path /\ e \in Path /\ IsPrefix(p, c) /\ IsPrefix(c, e)
    BY <1>3, <1>4, <1>5
  <2>. QED  BY <2>1, Shortened, ZenonT(60)
<1> DEFINE nibs == Drop(e, Len(p))
           rest == Drop(e, Len(c))
           x == SubSeq(nibs, 1, i)
<1>10. /\ nibs \in Path /\ rest \in Path /\ Len(nibs) \in Nat /\ Len(rest) \in Nat
       /\ Len(rest) <= Len(nibs)
  <2>1. Len(p) \in 0..Len(e) /\ Len(c) \in 0..Len(e)
    BY <1>3, <1>4, <1>5, PrefixLen
  <2>2. nibs \in Path /\ rest \in Path
    BY <1>3, <2>1, Dropped
  <2>3. Len(nibs) \in Nat /\ Len(rest) \in Nat
    BY <2>2, PathLen
  <2>. QED  BY <1>9, <2>2, <2>3
<1>11. CASE e \in K
  <2> DEFINE v == m[e]
  <2>1. /\ Leaf(nibs, v).type = "leaf" /\ Leaf(rest, v).type = "leaf" /\ Leaf(nibs, v).value = v
    BY DEF Leaf
  <2>2. G[p] = Leaf(nibs, v) /\ F[c] = Leaf(rest, v)
    BY <1>3, <1>4, <1>11
  <2> HIDE DEF nibs, rest, v
  <2>3. /\ DOMAIN Below(F, c) = {<<>>} /\ Below(F, c)[<<>>] = Leaf(rest, v)
        /\ Below(F, c) = [y \in {<<>>} |-> Leaf(rest, v)]
    BY <1>8, <2>1, <2>2, LeafBelow
  <2>4. /\ DOMAIN Below(G, p) = {<<>>} /\ Below(G, p)[<<>>] = Leaf(nibs, v)
    BY <1>3, <1>8, <2>1, <2>2, LeafBelow
  <2>5. CASE p # <<>> /\ Embedded(Below(G, p))
    BY <1>10, <2>3, <2>4, <2>5, EmbeddedIsShort
  <2>6. CASE p = <<>> \/ ~Embedded(Below(G, p))
    <3>1. OrphanedLeafs(G, k) = ShortenNodePath(Below(G, p))
      BY <1>3, <1>6, <1>7, <2>6, OrphanIsLast
    <3>2. Nibs(Leaf(nibs, v)) = nibs
      BY <1>10, NibsOf
    <3>3. ShortenNodePath(Below(G, p)) = {[y \in {<<>>} |-> Leaf(Drop(nibs, j), v)] : j \in 0..Len(nibs)}
      BY <2>1, <2>4, <3>2 DEF ShortenNodePath
    <3>4. i \in 0..Len(nibs) /\ Drop(nibs, i) = rest
      BY <1>9, <1>10 DEF nibs, rest
    <3>5. [y \in {<<>>} |-> Leaf(Drop(nibs, i), v)] \in ShortenNodePath(Below(G, p))
      BY <3>3, <3>4
    <3>. QED  BY <2>3, <3>1, <3>4, <3>5
  <2>. QED  BY <2>5, <2>6
<1>12. CASE e \notin K
  <2>1. /\ Extension(nibs).type = "extension" /\ Extension(rest).type = "extension"
    BY DEF Extension
  <2>2. G[p] = Extension(nibs) /\ F[c] = Extension(rest) /\ e \in Forks(K) /\ e \in Forks(DOMAIN l)
    BY <1>2, <1>3, <1>4, <1>12
  <2>3. c # e
    BY <1>4, <2>2
  <2>4. /\ Nibs(Extension(nibs)) = nibs /\ x \in Path /\ p \o x = c
        /\ i \in 0..(Len(nibs) - 1) /\ Drop(nibs, i) = rest
    BY <1>9, <1>10, <2>3, NibsOf
  <2> HIDE DEF nibs, rest
  <2>5. \A q \in DOMAIN G : q \in Path
    BY CanonicalPaths
  <2>6. \A q \in DOMAIN F : q \in Path
    BY CanonicalPaths
  <2>7. p \o <<>> = p /\ c \o <<>> = c /\ <<>> \in Path
    BY <1>3, EmptyPath
  <2> DEFINE E == Below(G, p)
  <2>8. <<>> \in DOMAIN E /\ E[<<>>] = Extension(nibs)
    <3>1. \A q : q \in DOMAIN Below(G, p) <=> q \in Path /\ p \o q \in DOMAIN G
      BY <1>3, <2>5, BelowIs
    <3>2. \A q \in DOMAIN Below(G, p) : Below(G, p)[q] = G[p \o q]
      BY <1>3, <2>5, BelowIs
    <3>. QED  BY <1>3, <2>2, <2>7, <3>1, <3>2
  <2>9. ~Embedded(E)
    BY <2>1, <2>8 DEF Embedded
  <2>10. OrphanedLeafs(G, k) = ShortenNodePath(E)
    BY <1>3, <1>6, <1>7, <2>9, OrphanIsLast
  <2>11. ShortenNodePath(E) =
           {With(Below(E, SubSeq(nibs, 1, j)), <<>>, Extension(Drop(nibs, j))) : j \in 0..(Len(nibs) - 1)}
    <3> HIDE DEF E
    <3>. QED  BY <2>1, <2>4, <2>8 DEF ShortenNodePath
  <2>12. With(Below(E, x), <<>>, Extension(Drop(nibs, i))) \in ShortenNodePath(E)
    BY <2>4, <2>11
  <2>13. Below(E, x) = Below(G, c)
    <3>1. x \in Path /\ p \o x = c
      BY <2>4
    <3> HIDE DEF x
    <3>2. p \in Path /\ DOMAIN G \subseteq Path
      BY <1>3, <2>5
    <3>3. Below(Below(G, p), x) = Below(G, p \o x)
      BY <3>1, <3>2, BelowBelow, ZenonT(30)
    <3>. QED  BY <3>1, <3>3
  <2> DEFINE W == With(Below(G, c), <<>>, Extension(rest))
  <2>14. W \in OrphanedLeafs(G, k)
    BY <2>4, <2>10, <2>12, <2>13
  <2>15. /\ \A q : q \in DOMAIN Below(F, c) <=> q \in Path /\ c \o q \in DOMAIN F
         /\ \A q \in DOMAIN Below(F, c) : Below(F, c)[q] = F[c \o q]
    BY <2>6, BelowIs
  <2>16. /\ \A q : q \in DOMAIN Below(G, c) <=> q \in Path /\ c \o q \in DOMAIN G
         /\ \A q \in DOMAIN Below(G, c) : Below(G, c)[q] = G[c \o q]
    BY <2>5, BelowIs
  <2>17. ASSUME NEW q \in Path, q # <<>>
         PROVE  /\ c \o q \in DOMAIN F <=> c \o q \in DOMAIN G
                /\ c \o q \in DOMAIN F => F[c \o q] = G[c \o q]
    <3>1. /\ c \o q \in Path /\ IsPrefix(c, c \o q) /\ c \o q # c /\ IsPrefix(p, c \o q) /\ c \o q # p
      <4>1. c \o q \in Path /\ IsPrefix(c, c \o q) /\ Len(c \o q) = Len(c) + Len(q)
        BY Joined
      <4>2. Len(q) \in Nat /\ Len(q) # 0
        BY <2>17, PathLen, EmptyPath
      <4>3. IsPrefix(p, c \o q)
        BY <1>3, <1>5, <4>1, PrefixTrans
      <4>4. Len(p) < Len(c \o q) /\ Len(c) < Len(c \o q)
        BY <1>3, <1>5, <4>1, <4>2
      <4>. QED  BY <1>3, <1>5, <4>1, <4>3, <4>4
    <3>2. c \o q \in DOMAIN F => IsPrefix(e, c \o q)
      BY <1>4, <3>1, Between
    <3>3. c \o q \in DOMAIN G => IsPrefix(e, c \o q)
      BY <1>3, <3>1, Between
    <3>4. SameAfter(m, l, e) /\ SameAfter(l, m, e)
      BY <1>3, <1>4, PrefixTrans DEF SameAfter
    <3>5. ASSUME c \o q \in DOMAIN F
          PROVE  c \o q \in DOMAIN G /\ G[c \o q] = F[c \o q]
      BY <2>2, <3>2, <3>4, <3>5, SameBelowFork
    <3>6. ASSUME c \o q \in DOMAIN G
          PROVE  c \o q \in DOMAIN F /\ F[c \o q] = G[c \o q]
      BY <2>2, <3>3, <3>4, <3>6, SameBelowFork
    <3>. QED  BY <3>5, <3>6
  <2>18. /\ DOMAIN W = DOMAIN Below(G, c) \union {<<>>}
         /\ W[<<>>] = Extension(rest)
         /\ \A q \in DOMAIN Below(G, c) : q # <<>> => W[q] = Below(G, c)[q]
         /\ W = [q \in DOMAIN W |-> W[q]]
    BY DEF With
  <2>19. /\ <<>> \in DOMAIN Below(F, c) /\ Below(F, c)[<<>>] = Extension(rest)
         /\ Below(F, c) = [q \in DOMAIN Below(F, c) |-> Below(F, c)[q]]
    <3>1. Below(F, c) = [q \in DOMAIN Below(F, c) |-> Below(F, c)[q]]
      BY DEF Below
    <3>. QED  BY <2>2, <2>7, <2>15, <3>1
  <2> HIDE DEF W
  <2>20. \A q : q \in DOMAIN W <=> q \in DOMAIN Below(F, c)
    <3>1. \A q : q \in DOMAIN W <=> q = <<>> \/ (q \in Path /\ c \o q \in DOMAIN G)
      BY <2>16, <2>18
    <3>. QED  BY <2>15, <2>17, <2>19, <3>1
  <2>21. ASSUME NEW q \in DOMAIN W PROVE W[q] = Below(F, c)[q]
    <3>1. CASE q = <<>>
      BY <2>18, <2>19, <3>1
    <3>2. CASE q # <<>>
      <4>1. q \in DOMAIN Below(G, c) /\ q \in DOMAIN Below(F, c) /\ q \in Path
        BY <2>15, <2>18, <2>20, <3>2
      <4>2. W[q] = G[c \o q] /\ Below(F, c)[q] = F[c \o q] /\ c \o q \in DOMAIN F
        BY <2>15, <2>16, <2>18, <3>2, <4>1
      <4>. QED  BY <2>17, <3>2, <4>1, <4>2
    <3>. QED  BY <3>1, <3>2
  <2>22. W = Below(F, c)
    BY <2>18, <2>19, <2>20, <2>21
  <2>. QED  BY <2>14, <2>22
<1>. QED  BY <1>11, <1>12

\* With the siblings of the nodes of its proof in store, the orphan is, too.
LEMMA SiblingIsStored ==
  ASSUME NEW l, NEW len \in Nat, AreKeys(DOMAIN l, len),
         NEW c \in DOMAIN Canonical(l), Canonical(l)[c].type # "branch",
         NEW k \in Path, IsBeside(c, k), NEW nodes, NEW store,
         Proof(Canonical(l), k) \subseteq nodes, WithSiblings(nodes) \subseteq store
  PROVE  IsStored(Below(Canonical(l), c), store)
<1> DEFINE F == Canonical(l)
<1>1. Shape(F, len) /\ \A p \in DOMAIN F : F[p].type # "digest"
  BY CanonicalIsTrie
<1> HIDE DEF F
<1>2. \A p \in DOMAIN F : p \in Path /\ Len(p) \in Nat
  BY <1>1, PlacedIs
<1>3. c \in DOMAIN F /\ c \in Path /\ Len(c) \in Nat
  BY <1>2 DEF F
<1>4. PICK b \in Path : IsPrefix(b, c) /\ Len(c) = Len(b) + 1 /\ IsPrefix(b, k)
  BY DEF IsBeside
<1>5. c # <<>> /\ Len(b) \in Nat
  BY <1>3, <1>4, PathLen, EmptyPath
<1>6. PICK s \in DOMAIN F :
         /\ IsPrefix(s, c) /\ s # c
         /\ \/ F[s].type = "branch" /\ Len(c) = Len(s) + 1
            \/ F[s].type = "extension" /\ c = s \o Nibs(F[s])
  BY <1>1, <1>3, <1>5, Parent
<1>7. F[s].type = "branch" /\ Len(c) = Len(s) + 1
  <2>1. SUFFICES ASSUME F[s].type = "extension", c = s \o Nibs(F[s]) PROVE FALSE
    BY <1>6
  <2>2. F[c].type \in {"branch", "digest"}
    BY <1>1, <2>1, PlacedIs
  <2>. QED  BY <1>1, <1>3, <2>2 DEF F
<1>8. s = b
  <2>1. s \in Path /\ Len(s) = Len(b) /\ Len(s) \in Nat
    BY <1>2, <1>4, <1>5, <1>7
  <2>2. IsPrefix(s, b)
    BY <1>3, <1>4, <1>6, <2>1, PrefixesCompare
  <2>. QED  BY <1>4, <2>1, <2>2, PrefixSameLen
<1>9. b \in DOMAIN F /\ F[b].type = "branch" /\ F[b] = Branch
  <2>1. IsNode(F[s])
    BY <1>1, PlacedIs
  <2>. QED  BY <1>6, <1>7, <1>8, <2>1 DEF IsNode
<1> DEFINE E == Below(F, b)
<1>10. /\ \A q : q \in DOMAIN E <=> q \in Path /\ b \o q \in DOMAIN F
       /\ \A q \in DOMAIN E : E[q] = F[b \o q]
       /\ Drop(c, Len(b)) \in DOMAIN E
  <2>1. DOMAIN F \subseteq Path
    BY <1>2
  <2>. QED  BY <1>3, <1>4, <2>1, BelowIs
<1>11. <<>> \in DOMAIN E /\ E[<<>>] = Branch
  <2>1. b \o <<>> = b /\ <<>> \in Path
    BY EmptyPath
  <2>. QED  BY <1>9, <1>10, <2>1
<1>12. Below(E, Drop(c, Len(b))) = Below(F, c) /\ Len(Drop(c, Len(b))) = 1
  <2>1. Len(b) \in 0..Len(c)
    BY <1>3, <1>4, <1>5
  <2>2. Drop(c, Len(b)) \in Path /\ Len(Drop(c, Len(b))) = 1
    <3>1. Drop(c, Len(b)) \in Path /\ Len(Drop(c, Len(b))) = Len(c) - Len(b)
      BY <1>3, <2>1, Dropped
    <3>2. Len(c) - Len(b) = 1
      BY <1>3, <1>4, <1>5
    <3>. QED  BY <3>1, <3>2
  <2>3. b \o Drop(c, Len(b)) = c
    BY <1>3, <1>4, JoinDropped
  <2>4. Below(E, Drop(c, Len(b))) = Below(F, b \o Drop(c, Len(b)))
    BY <1>2, <2>2, BelowBelow
  <2>. QED  BY <2>2, <2>3, <2>4
<1> HIDE DEF E
<1>13. E \in nodes
  <2>1. ~Embedded(E)
    BY <1>11 DEF Embedded, Branch
  <2>2. b \in ProofPaths(F, k)
    BY <1>4, <1>9, <2>1 DEF ProofPaths, E
  <2>3. E \in Proof(F, k)
    BY <2>2 DEF Proof, E
  <2>. QED  BY <2>3 DEF F
<1>14. ASSUME ~Embedded(Below(F, c)) PROVE Below(F, c) \in WithSiblings(nodes)
  <2> DEFINE x == Drop(c, Len(b))
  <2>1. x \in DOMAIN E /\ Len(x) = 1 /\ Below(E, x) = Below(F, c)
    BY <1>10, <1>12
  <2> HIDE DEF x
  <2>2. Below(F, c) \in {Below(E, p) : p \in {q \in DOMAIN E : Len(q) = 1}}
    BY <2>1
  <2>. QED  BY <1>11, <1>13, <1>14, <2>2 DEF WithSiblings
<1>. QED  BY <1>14 DEF F, IsStored

-----------------------------------------------------------------------------
(* A trie under update *)

\* What is not resolved of the trie F in n is not in store, the cached references
\* are right, and where an extension leads to what is not resolved, that is a
\* branch or has been beside one of the keys that were deleted.
IsStage(n, F, deleted, store, len) ==
  /\ WellFormed(n, len) /\ IsOver(F, n.nodes) /\ IsCached(F, n)
  /\ \A c : IsDigestAt(n.nodes, c) /\ c # <<>> => ~IsStored(Below(F, c), store)
  /\ \A c : LeadsTo(n.nodes, c) /\ IsDigestAt(n.nodes, c) =>
              F[c].type = "branch" \/ \E k \in deleted : IsBeside(c, k)

\* The old map with what the new one has for some keys.
Mixed(new, old, keys) ==
  [k \in (DOMAIN new \intersect keys) \union (DOMAIN old \ keys) |->
     IF k \in keys THEN new[k] ELSE old[k]]

\* n is on its way from the trie of the old map to that of the new.
IsUnderway(n, new, old, keys, store, len) ==
  /\ IsStage(n, Canonical(old), keys \ DOMAIN new, store, len)
  /\ IsMapOf(n.nodes, Mixed(new, old, keys), old, len)

\* A part of the trie of the old map is.
LEMMA PartIsUnderway ==
  ASSUME NEW old, NEW len \in Nat, AreKeys(DOMAIN old, len), NEW n, IsPartOf(n, old), NEW store,
         \A c : IsDigestAt(n.nodes, c) /\ c # <<>> => ~IsStored(Below(Canonical(old), c), store),
         NEW new
  PROVE  IsUnderway(n, new, old, {}, store, len)
<1> DEFINE F == Canonical(old)
           f == n.nodes
           m == Mixed(new, old, {})
<1>1. Shape(F, len) /\ \A p \in DOMAIN F : F[p].type # "digest"
  BY CanonicalIsTrie
<1>2. /\ WellFormed(n, len)
      /\ \A k, v : IsReached(f, k) => (LeafOf(f, k, v) <=> k \in DOMAIN old /\ v = old[k])
  BY PartIs
<1>3. n = Trie(f) /\ IsView(F, f)
  BY DEF IsPartOf
<1>4. DOMAIN m = DOMAIN old /\ \A k \in DOMAIN old : m[k] = old[k]
  BY DEF Mixed
<1> HIDE DEF F, f, m
<1>5. IsMapOf(f, m, old, len)
  BY <1>2, <1>4 DEF IsMapOf
<1>6. IsOver(F, f)
  BY <1>3 DEF IsView, IsOver
<1>7. IsCached(F, n)
  BY <1>3 DEF IsCached, Trie, EmptyRoot
<1>8. \A c : LeadsTo(f, c) => c \in DOMAIN F /\ F[c].type = "branch"
  BY <1>1, <1>3, ViewIs
<1>. QED  BY <1>2, <1>5, <1>6, <1>7, <1>8 DEF IsUnderway, IsStage, F, f, m

\* resolve_nodes.
LEMMA ResolvedIsUnderway ==
  ASSUME NEW old, NEW len \in Nat, AreKeys(DOMAIN old, len), NEW store, NEW new
  PROVE  IsUnderway(ResolveNodes(Canonical(old), store), new, old, {}, store, len)
<1> DEFINE F == Canonical(old)
           n == ResolveNodes(F, store)
<1>1. Shape(F, len) /\ \A p \in DOMAIN F : F[p].type # "digest"
  BY CanonicalIsTrie
<1>2. IsPartOf(n, old)
  BY ResolvedIsPart
<1>3. DOMAIN F \subseteq Path
  BY <1>1, PlacedIs
<1>4. \A p \in DOMAIN n.nodes : n.nodes[p].type = "digest" /\ F[p].type # "digest" =>
        p # <<>> /\ ~IsStored(Below(F, p), store)
  BY <1>3, ResolvedIsView
<1>5. \A p \in DOMAIN n.nodes : p \in DOMAIN F
  BY <1>2 DEF IsPartOf, IsView
<1>6. \A c : IsDigestAt(n.nodes, c) /\ c # <<>> => ~IsStored(Below(F, c), store)
  <2> HIDE DEF F, n
  <2>. QED  BY <1>1, <1>4, <1>5 DEF IsDigestAt
<1>. QED  BY <1>2, <1>6, PartIsUnderway

\* A root that is a digest.
LEMMA DigestIsUnderway ==
  ASSUME NEW old, NEW len \in Nat, AreKeys(DOMAIN old, len), NEW store, NEW new
  PROVE  /\ IsUnderway(NodeFromDigest(Canonical(old)), new, old, {}, store, len)
         /\ Canonical(old) # EmptyRoot =>
              IsUnderway(Trie([p \in {<<>>} |-> Digest(Canonical(old))]), new, old, {}, store, len)
<1> DEFINE F == Canonical(old)
           n == NodeFromDigest(F)
           d == Trie([p \in {<<>>} |-> Digest(F)])
<1>1. IsPartOf(n, old) /\ (F # EmptyRoot => IsPartOf(d, old))
  BY DigestIsPart
<1>2. \A c : IsDigestAt(n.nodes, c) => c = <<>>
  BY DEF NodeFromDigest, Trie, EmptyRoot, IsDigestAt
<1>3. \A c : IsDigestAt(d.nodes, c) => c = <<>>
  BY DEF Trie, IsDigestAt
<1> HIDE DEF n, d
<1>4. IsUnderway(n, new, old, {}, store, len)
  BY <1>1, <1>2, PartIsUnderway
<1>5. F # EmptyRoot => IsUnderway(d, new, old, {}, store, len)
  BY <1>1, <1>3, PartIsUnderway
<1>. QED  BY <1>4, <1>5 DEF n, d

\* Null, for the empty map.
LEMMA NullIsUnderway ==
  ASSUME NEW old, DOMAIN old = {}, NEW len \in Nat, NEW store, NEW new
  PROVE  IsUnderway(Null, new, old, {}, store, len)
<1>1. /\ DOMAIN Null.nodes = {} /\ DOMAIN Null.cached = {}
  BY DEF Null, Trie, EmptyRoot
<1>2. DOMAIN Mixed(new, old, {}) = {}
  BY DEF Mixed
<1>3. IsMapOf(Null.nodes, Mixed(new, old, {}), old, len)
  BY <1>2, NullIs DEF IsMapOf
<1>. QED  BY <1>1, <1>3, NullIs DEF IsUnderway, IsStage, IsOver, IsCached, IsDigestAt

\* hash.
LEMMA HashedIsUnderway ==
  ASSUME NEW n, NEW new, NEW old, NEW keys, NEW store, NEW len \in Nat, AreKeys(DOMAIN old, len),
         IsUnderway(n, new, old, keys, store, len)
  PROVE  IsUnderway(Hashed(n), new, old, keys, store, len)
<1> DEFINE F == Canonical(old)
<1>1. DOMAIN F \subseteq Path
  BY CanonicalPaths
<1>2. WellFormed(n, len) /\ IsOver(F, n.nodes) /\ IsCached(F, n)
  BY DEF IsUnderway, IsStage
<1> HIDE DEF F
<1>3. IsCached(F, Hashed(n))
  BY <1>1, <1>2, HashedIsCached
<1>4. Hashed(n).nodes = n.nodes /\ WellFormed(Hashed(n), len)
  BY <1>2, HashedIs
<1>. QED  BY <1>3, <1>4 DEF IsUnderway, IsStage, F

\* An insertion or a deletion, as update calls them.
LEMMA StepIsUnderway ==
  ASSUME NEW n, NEW new, NEW old, NEW keys, NEW store, NEW len \in Nat, AreKeys(DOMAIN old, len),
         IsUnderway(n, new, old, keys, store, len), NEW k \in Path, Len(k) = len, NEW r,
         \/ k \in DOMAIN new /\ r = InsertInternal(n, k, new[k])
         \/ k \notin DOMAIN new /\ r = DeleteInternal(n, k),
         r.error = "none"
  PROVE  IsUnderway(r.trie, new, old, keys \union {k}, store, len)
<1> DEFINE F == Canonical(old)
           f == n.nodes
           g == r.trie.nodes
           V == {v \in {new[k]} : k \in DOMAIN new}
           m == Mixed(new, old, keys)
           l == Mixed(new, old, keys \union {k})
<1>1. /\ WellFormed(n, len) /\ IsOver(F, f) /\ IsCached(F, n)
      /\ \A c : IsDigestAt(f, c) /\ c # <<>> => ~IsStored(Below(F, c), store)
      /\ \A c : LeadsTo(f, c) /\ IsDigestAt(f, c) =>
                  F[c].type = "branch" \/ \E j \in keys \ DOMAIN new : IsBeside(c, j)
      /\ IsMapOf(f, m, old, len)
  BY DEF IsUnderway, IsStage
<1>2. /\ WellFormed(r.trie, len) /\ Keeps(n, r.trie)
      /\ \A c : LeadsTo(g, c) /\ IsDigestAt(g, c) =>
                  LeadsTo(f, c) \/ (k \notin DOMAIN new /\ IsBeside(c, k))
  <2>1. CASE k \in DOMAIN new
    <3> DEFINE x == InsertInternal(n, k, new[k])
    <3>1. /\ WellFormed(x.trie, len) /\ Keeps(n, x.trie)
          /\ \A c : LeadsTo(x.trie.nodes, c) /\ IsDigestAt(x.trie.nodes, c) => LeadsTo(n.nodes, c)
      BY <1>1, InsertIsRight
    <3>2. r = x
      BY <2>1
    <3> HIDE DEF x
    <3>. QED  BY <3>1, <3>2
  <2>2. CASE k \notin DOMAIN new
    <3> DEFINE x == DeleteInternal(n, k)
    <3>1. /\ WellFormed(x.trie, len) /\ Keeps(n, x.trie)
          /\ \A c : LeadsTo(x.trie.nodes, c) /\ IsDigestAt(x.trie.nodes, c) =>
                      LeadsTo(n.nodes, c) \/ IsBeside(c, k)
      BY <1>1, DeleteIsRight
    <3>2. r = x
      BY <2>2
    <3> HIDE DEF x
    <3>. QED  BY <2>2, <3>1, <3>2
  <2>. QED  BY <2>1, <2>2
<1>3. IsApplied(n, r, k, V)
  <2>1. WellFormed(n, Len(k))
    BY <1>1
  <2>2. CASE k \in DOMAIN new
    <3>1. V = {new[k]} /\ r = InsertInternal(n, k, new[k])
      BY <2>2
    <3> HIDE DEF V
    <3>. QED  BY <2>1, <3>1, ApplyIs
  <2>3. CASE k \notin DOMAIN new
    <3>1. V = {} /\ r = DeleteInternal(n, k)
      BY <2>3
    <3> HIDE DEF V
    <3>. QED  BY <2>1, <3>1, ApplyIs
  <2>. QED  BY <2>2, <2>3
<1>4. /\ \A j : j # k => (j \in DOMAIN l <=> j \in DOMAIN m) /\ (j \in DOMAIN m => l[j] = m[j])
      /\ k \in DOMAIN l <=> k \in DOMAIN new
      /\ k \in DOMAIN new => l[k] = new[k]
  BY DEF Mixed
<1>5. DOMAIN F \subseteq Path
  BY CanonicalPaths
<1> HIDE DEF F, f, g, l, m
<1>6. \A w : w \in V <=> k \in DOMAIN l /\ w = l[k]
  BY <1>4
<1> HIDE DEF V
<1>7. IsOver(F, g) /\ IsCached(F, r.trie)
  BY <1>1, <1>2, <1>5, KeepsCached DEF f, g
<1>8. \A c : IsDigestAt(g, c) <=> IsDigestAt(f, c)
  <2>1. \A c : IsDigestAt(g, c) => c \in Path
    BY <1>2, PlacedIs DEF WellFormed, g, IsDigestAt
  <2>2. \A c : IsDigestAt(f, c) => c \in Path
    BY <1>1, PlacedIs DEF WellFormed, f, IsDigestAt
  <2>3. \A c \in Path : IsDigestAt(g, c) <=> IsDigestAt(f, c)
    BY <1>2 DEF Keeps, SameDigests, f, g
  <2>. QED  BY <2>1, <2>2, <2>3
<1>9. /\ \A j : IsReached(g, j) <=> IsReached(f, j)
      /\ IsReached(f, k)
      /\ \A j, w : LeafOf(g, j, w) <=> IF j = k THEN w \in V ELSE LeafOf(f, j, w)
  BY <1>3 DEF IsApplied, f, g
<1>10. IsMapOf(g, l, old, len)
  <2> SUFFICES ASSUME NEW j \in Path, Len(j) = len
               PROVE  IF IsReached(g, j) THEN \A v : LeafOf(g, j, v) <=> j \in DOMAIN l /\ v = l[j]
                      ELSE (j \in DOMAIN l <=> j \in DOMAIN old) /\ (j \in DOMAIN l => l[j] = old[j])
    BY DEF IsMapOf
  <2>1. IF IsReached(f, j) THEN \A v : LeafOf(f, j, v) <=> j \in DOMAIN m /\ v = m[j]
        ELSE (j \in DOMAIN m <=> j \in DOMAIN old) /\ (j \in DOMAIN m => m[j] = old[j])
    BY <1>1 DEF IsMapOf
  <2>2. CASE j = k
    BY <1>6, <1>9, <2>2
  <2>3. CASE j # k
    <3>1. (j \in DOMAIN l <=> j \in DOMAIN m) /\ (j \in DOMAIN m => l[j] = m[j])
      BY <1>4, <2>3
    <3>. QED  BY <1>9, <2>1, <2>3, <3>1
  <2>. QED  BY <2>2, <2>3
<1>11. \A c : LeadsTo(g, c) /\ IsDigestAt(g, c) =>
         F[c].type = "branch" \/ \E j \in (keys \union {k}) \ DOMAIN new : IsBeside(c, j)
  BY <1>1, <1>2, <1>8
<1>. QED  BY <1>1, <1>2, <1>7, <1>8, <1>10, <1>11 DEF IsUnderway, IsStage, F, g, l

\* The orphan that the deletion of a key may leave is in store.
IsCovered(k, new, old, store) ==
  \/ DOMAIN old = {}
  \/ OrphanedLeafs(Canonical(new), k) \subseteq store
  \/ \E nodes : Proof(Canonical(old), k) \subseteq nodes /\ WithSiblings(nodes) \subseteq store

\* When all that differs has been applied, the reference is that of the new map.
LEMMA UnderwayEnds ==
  ASSUME NEW n, NEW new, NEW old, NEW keys, NEW store, NEW len \in Nat,
         AreKeys(DOMAIN old, len), AreKeys(DOMAIN new, len),
         IsUnderway(n, new, old, keys, store, len), keys \subseteq Path,
         \A k : k \notin keys => /\ k \in DOMAIN new <=> k \in DOMAIN old
                                 /\ k \in DOMAIN new => new[k] = old[k],
         \A k \in keys \ DOMAIN new : IsCovered(k, new, old, store)
  PROVE  Reference(n) = Canonical(new)
<1> DEFINE F == Canonical(old)
           G == Canonical(new)
           f == n.nodes
           W == Whole(F, f)
           m == Mixed(new, old, keys)
<1>1. /\ WellFormed(n, len) /\ IsOver(F, f) /\ IsCached(F, n)
      /\ \A c : IsDigestAt(f, c) /\ c # <<>> => ~IsStored(Below(F, c), store)
      /\ \A c : LeadsTo(f, c) /\ IsDigestAt(f, c) =>
                  F[c].type = "branch" \/ \E j \in keys \ DOMAIN new : IsBeside(c, j)
      /\ IsMapOf(f, m, old, len)
  BY DEF IsUnderway, IsStage
<1>2. (\A k : k \in DOMAIN m <=> k \in DOMAIN new) /\ (\A k \in DOMAIN new : m[k] = new[k])
  BY DEF Mixed
<1>3. /\ F = [p \in DOMAIN F |-> F[p]] /\ Shape(F, len)
      /\ \A p \in DOMAIN F : F[p].type # "digest"
      /\ \A k, v : LeafOf(F, k, v) <=> k \in DOMAIN old /\ v = old[k]
  BY CanonicalIsTrie
<1>4. /\ G = [p \in DOMAIN G |-> G[p]] /\ Shape(G, len)
      /\ \A p \in DOMAIN G : G[p].type # "digest"
      /\ \A k, v : LeafOf(G, k, v) <=> k \in DOMAIN new /\ v = new[k]
  BY CanonicalIsTrie
<1>5. DOMAIN F \subseteq Path /\ Shape(f, len)
  BY <1>1, CanonicalPaths DEF WellFormed
<1> HIDE DEF F, G, f, m
<1>6. Reference(n) = W
  BY <1>1, <1>5, ReferenceIsWhole DEF f
<1>7. IsMapOf(f, new, old, len)
  BY <1>1, <1>2 DEF IsMapOf
<1>8. ASSUME NEW c, LeadsTo(f, c), IsDigestAt(f, c), F[c].type # "branch" PROVE FALSE
  <2>1. PICK k \in keys \ DOMAIN new : IsBeside(c, k)
    BY <1>1, <1>8
  <2>2. PICK s \in DOMAIN f : f[s].type = "extension" /\ s \o Nibs(f[s]) = c
    BY <1>8 DEF LeadsTo
  <2>3. IsOrphan(f, s, c)
    BY <1>8, <2>2 DEF IsOrphan
  <2>4. /\ s \in Path /\ c \in Path /\ IsPrefix(s, c) /\ Len(s) < Len(c)
        /\ \A j \in DOMAIN new : IsPrefix(s, j) => IsPrefix(c, j)
        /\ SameAfter(new, old, c) /\ SameAfter(old, new, c)
    BY <1>5, <1>7, <2>3, OrphanKeys
  <2>5. c \in DOMAIN F /\ k \in Path
    BY <1>1, <1>8 DEF IsOver, IsDigestAt
  <2>6. c # <<>>
    <3>1. Len(s) \in Nat
      BY <2>4, PathLen
    <3>. QED  BY <2>4, <3>1, EmptyPath
  <2>7. ~IsStored(Below(F, c), store)
    BY <1>1, <1>8, <2>6
  <2>8. CASE DOMAIN old = {}
    BY <2>5, <2>8, CanonicalPaths DEF F
  <2>9. CASE OrphanedLeafs(G, k) \subseteq store
    <3>1. Below(F, c) \in OrphanedLeafs(G, k) \/ Embedded(Below(F, c))
      BY <1>8, <2>1, <2>4, <2>5, OrphanIsFound DEF F, G
    <3>. QED  BY <2>7, <2>9, <3>1 DEF IsStored
  <2>10. CASE \E nodes : Proof(F, k) \subseteq nodes /\ WithSiblings(nodes) \subseteq store
    BY <1>8, <2>1, <2>5, <2>7, <2>10, SiblingIsStored DEF F
  <2>. QED  BY <2>1, <2>8, <2>9, <2>10 DEF IsCovered, F, G
<1>9. \A c : LeadsTo(f, c) /\ IsDigestAt(f, c) => F[c].type = "branch"
  BY <1>8
<1>10. /\ Shape(W, len) /\ \A p \in DOMAIN W : W[p].type # "digest"
       /\ \A k, v : LeafOf(W, k, v) <=>
            LeafOf(f, k, v) \/ (k \in Path /\ IsUnder(f, k) /\ LeafOf(F, k, v))
  BY <1>1, <1>3, <1>5, <1>9, WholeIsTrie
<1>11. W = [p \in DOMAIN W |-> W[p]]
  BY DEF Whole
<1> HIDE DEF W
<1>12. \A k : IsUnder(f, k) <=> ~IsReached(f, k)
  BY DEF IsUnder, IsReached
<1>13. ASSUME NEW k \in Path, Len(k) = len, NEW v PROVE LeafOf(W, k, v) <=> LeafOf(G, k, v)
  <2>1. CASE IsReached(f, k)
    <3>1. LeafOf(f, k, v) <=> k \in DOMAIN new /\ v = new[k]
      BY <1>7, <1>13, <2>1 DEF IsMapOf
    <3>. QED  BY <1>4, <1>10, <1>12, <2>1, <3>1
  <2>2. CASE ~IsReached(f, k)
    <3>1. (k \in DOMAIN new <=> k \in DOMAIN old) /\ (k \in DOMAIN new => new[k] = old[k])
      BY <1>7, <1>13, <2>2 DEF IsMapOf
    <3>2. ~LeafOf(f, k, v)
      <4>1. SUFFICES ASSUME LeafOf(f, k, v) PROVE FALSE
        OBVIOUS
      <4>2. PICK p \in DOMAIN f : IsLeafOf(f, p, k)
        BY <4>1, LeafOfIs
      <4>3. PICK q \in DOMAIN f : f[q].type = "digest" /\ IsPrefix(q, k)
        BY <2>2 DEF IsReached
      <4>4. IsPrefix(q, p)
        BY <1>5, <4>2, <4>3, LeafAfter
      <4>5. p = q
        BY <1>5, <4>3, <4>4, PlacedIs
      <4>. QED  BY <4>2, <4>3, <4>5 DEF IsLeafOf
    <3>. QED  BY <1>3, <1>4, <1>10, <1>12, <2>2, <3>1, <3>2
  <2>. QED  BY <2>1, <2>2
<1>14. /\ \A k, v : LeafOf(W, k, v) => k \in Path /\ Len(k) = len
       /\ \A k, v : LeafOf(G, k, v) => k \in Path /\ Len(k) = len
  BY <1>4, <1>10, LeafOfIs, LeafIsOf
<1>15. SameLeaves(W, G)
  BY <1>13, <1>14 DEF SameLeaves
<1>16. W = G
  BY <1>4, <1>10, <1>11, <1>15, OneTrie
<1>. QED  BY <1>6, <1>16 DEF G

-----------------------------------------------------------------------------
(* The root *)

\* The nodes that the state trie, or a storage trie, is put together from.
Store == IF t.source = "witness" THEN Witness ELSE StateNodes
StorageStore(a) == IF t.source = "witness" THEN Witness ELSE StorageNodes(a)

\* The accounts that update is done with.
AppliedAccounts == ChangedAccounts \ (accounts \union account)

\* What an account that is wiped starts from is empty.
OldSlots(a) == SlotMap(IF a \in t.wiped THEN [k \in {} |-> 0] ELSE StorageOf(t.before, a))
\* And what it ends as.
NewSlots(a) == SlotMap(StorageOf(t.after, a))

\* The storage trie of an account, with some slots applied.
IsStorage(n, a, keys) ==
  IsUnderway(n, NewSlots(a), OldSlots(a), keys, StorageStore(a), LenOf(Slot))

\* The state trie, with some accounts applied.
IsStateTrie(n, keys) ==
  IsUnderway(n, StateMap(t.after), StateMap(t.before), keys, Store, LenOf(Addr))

\* The tries as they are between two changes.
TriesAre ==
  /\ IsStateTrie(state_trie, AppliedAccounts)
  /\ \A a \in (accounts \intersect DOMAIN storage_tries) \ t.wiped : IsStorage(storage_tries[a], a, {})
  /\ \A a \in account : IsStorage(storage_tries[a], a, ChangedSlots(a) \ slots)
  /\ pc = "done" => accounts = {} /\ account = {}

\* The invariant for RootIsRight.
RootInv == OneChain /\ StorageProvided /\ pc # "build" => TriesAre

\* The maps have keys of one length.
LEMMA MapKeys ==
  ASSUME t \in Transitions
  PROVE  /\ AreKeys(DOMAIN StateMap(t.before), LenOf(Addr)) /\ AreKeys(DOMAIN StateMap(t.after), LenOf(Addr))
         /\ \A a : AreKeys(DOMAIN OldSlots(a), LenOf(Slot)) /\ AreKeys(DOMAIN NewSlots(a), LenOf(Slot))
         /\ LenOf(Addr) \in Nat /\ LenOf(Slot) \in Nat
         /\ Touched \subseteq Addr /\ ChangedAccounts \subseteq Touched
         /\ \A a \in Touched : t.slots[a] \subseteq Slot
         /\ \A a : ChangedSlots(a) \subseteq t.slots[a]
<1>1. /\ IsState(t.before) /\ IsState(t.after) /\ Touched \subseteq Addr
      /\ \A a \in Touched : t.slots[a] \subseteq Slot
  BY TransitionIs DEF Touched
<1>2. LenOf(Addr) \in Nat /\ LenOf(Slot) \in Nat
  BY StateKeys
<1>3. AreKeys(DOMAIN StateMap(t.before), LenOf(Addr)) /\ AreKeys(DOMAIN StateMap(t.after), LenOf(Addr))
  BY <1>1, StateKeys
<1>4. ASSUME NEW a
      PROVE  AreKeys(DOMAIN OldSlots(a), LenOf(Slot)) /\ AreKeys(DOMAIN NewSlots(a), LenOf(Slot))
  <2>1. /\ AreKeys(DOMAIN NewSlots(a), LenOf(Slot))
        /\ AreKeys(DOMAIN SlotMap(StorageOf(t.before, a)), LenOf(Slot))
    BY <1>1, StateKeys DEF NewSlots
  <2>2. AreKeys(DOMAIN SlotMap([k \in {} |-> 0]), LenOf(Slot))
    BY DEF SlotMap, AreKeys
  <2>. QED  BY <2>1, <2>2 DEF OldSlots
<1>5. ChangedAccounts \subseteq Touched /\ \A a : ChangedSlots(a) \subseteq t.slots[a]
  BY DEF ChangedAccounts, ChangedSlots
<1>. QED  BY <1>1, <1>2, <1>3, <1>4, <1>5

\* The tries that are built.
LEMMA BuildTries ==
  ASSUME Inv, OneChain, BuildFromProofs \/ BuildFromWitness
  PROVE  TriesAre'
<1>1. /\ t \in Transitions /\ t' = t /\ accounts' = ChangedAccounts /\ account' = {} /\ pc' = "update"
  BY DEF Inv, BuildFromProofs, BuildFromWitness
<1>2. /\ AppliedAccounts' = {} /\ Store' = Store
      /\ \A a : StorageStore(a)' = StorageStore(a) /\ NewSlots(a)' = NewSlots(a)
                /\ OldSlots(a)' = OldSlots(a)
  <2>1. AppliedAccounts' = {}
    BY <1>1 DEF AppliedAccounts, ChangedAccounts, Touched
  <2>2. Store' = Store
    BY <1>1 DEF Store, Witness, StateNodes, Touched
  <2>3. ASSUME NEW a
        PROVE  StorageStore(a)' = StorageStore(a) /\ NewSlots(a)' = NewSlots(a) /\ OldSlots(a)' = OldSlots(a)
    BY <1>1 DEF StorageStore, Witness, StorageNodes, ChangedSlots, NewSlots, OldSlots, Touched
  <2>. QED  BY <2>1, <2>2, <2>3
<1>3. /\ AreKeys(DOMAIN StateMap(t.before), LenOf(Addr)) /\ LenOf(Addr) \in Nat
      /\ \A a : AreKeys(DOMAIN OldSlots(a), LenOf(Slot)) /\ LenOf(Slot) \in Nat
      /\ ChangedAccounts \subseteq Touched
  BY <1>1, MapKeys
<1>4. SUFFICES /\ IsStateTrie(state_trie', {})
               /\ \A a \in (Touched \intersect DOMAIN storage_tries') \ t.wiped :
                    IsStorage(storage_tries'[a], a, {})
  BY <1>1, <1>2, <1>3 DEF TriesAre, IsStateTrie, IsStorage
<1>5. \A a : a \notin t.wiped => /\ OldSlots(a) = SlotMap(StorageOf(t.before, a))
                                 /\ StorageRoot(StorageOf(t.before, a)) = Canonical(OldSlots(a))
  BY StateKeys DEF OldSlots
<1>6. StateRoot(t.before) = Canonical(StateMap(t.before))
  BY StateKeys
<1>7. \A n, a : IsStorage(n, a, {}) => IsStorage(Hashed(n), a, {})
  BY <1>3, HashedIsUnderway DEF IsStorage
<1>8. \A n : IsStateTrie(n, {}) => IsStateTrie(Hashed(n), {})
  BY <1>3, HashedIsUnderway DEF IsStateTrie
<1>9. CASE BuildFromProofs
  <2>1. PICK n \in StateTries : state_trie' = Hashed(n)
    BY <1>9 DEF BuildFromProofs
  <2>2. storage_tries' = [a \in Touched |-> Hashed(StorageTrie(a))] /\ t.source = "proofs"
    BY <1>9 DEF BuildFromProofs
  <2>3. n \in {NodeFromDigest(StateRoot(t.before)), ResolveNodes(StateRoot(t.before), StateNodes)}
    <3>1. \A a \in Touched : t.parents[a] = t.before
      BY DEF OneChain
    <3>. QED  BY <3>1 DEF StateTries
  <2>4. Store = StateNodes /\ \A a : StorageStore(a) = StorageNodes(a)
    BY <2>2 DEF Store, StorageStore
  <2>5. IsStateTrie(n, {})
    BY <1>3, <1>6, <2>3, <2>4, ResolvedIsUnderway, DigestIsUnderway DEF IsStateTrie
  <2>6. ASSUME NEW a \in Touched \ t.wiped PROVE IsStorage(StorageTrie(a), a, {})
    <3>1. t.parents[a] = t.before
      BY DEF OneChain
    <3>2. StorageTrie(a) \in {NodeFromDigest(Canonical(OldSlots(a))), ResolveNodes(Canonical(OldSlots(a)), StorageNodes(a))}
      BY <1>5, <3>1 DEF StorageTrie
    <3>. QED  BY <1>3, <2>4, <3>2, ResolvedIsUnderway, DigestIsUnderway DEF IsStorage
  <2>. QED  BY <1>7, <1>8, <2>1, <2>2, <2>5, <2>6
<1>10. CASE BuildFromWitness
  <2>1. /\ t.source = "witness" /\ state_trie' = Hashed(WitnessTrie)
        /\ storage_tries' = [a \in {l[1] : l \in WitnessLeaves} |-> Hashed(WitnessStorage(a))]
    BY <1>10 DEF BuildFromWitness, WitnessTrie, WitnessLeaves, WitnessStorage
  <2>2. Store = Witness /\ \A a : StorageStore(a) = Witness
    BY <2>1 DEF Store, StorageStore
  <2>3. Canonical(StateMap(t.before)) # EmptyRoot
    <3>1. DOMAIN t.before # {}
      BY <1>1, <2>1, TransitionIs DEF IsTransition
    <3>2. DOMAIN StateMap(t.before) # {}
      BY <3>1 DEF StateMap
    <3>. QED  BY <1>3, <3>2, RootIsProved
  <2>4. IsStateTrie(WitnessTrie, {})
    <3>1. WitnessTrie \in {ResolveNodes(Canonical(StateMap(t.before)), Witness),
                           Trie([p \in {<<>>} |-> Digest(Canonical(StateMap(t.before)))])}
      BY <1>6 DEF WitnessTrie
    <3>. QED  BY <1>3, <2>2, <2>3, <3>1, ResolvedIsUnderway, DigestIsUnderway DEF IsStateTrie
  <2>5. ASSUME NEW a \in Touched \ t.wiped, a \in DOMAIN storage_tries'
        PROVE  IsStorage(storage_tries'[a], a, {})
    <3>1. PICK l \in WitnessLeaves : l[1] = a
      BY <2>1, <2>5
    <3>2. WitnessStorage(a) = ResolveNodes(Canonical(OldSlots(a)), Witness)
      BY <1>1, <1>5, <2>1, <3>1, WitnessTries
    <3>3. IsStorage(WitnessStorage(a), a, {})
      BY <1>3, <2>2, <3>2, ResolvedIsUnderway DEF IsStorage
    <3>4. storage_tries'[a] = Hashed(WitnessStorage(a))
      BY <2>1, <3>1
    <3>. QED  BY <1>7, <3>3, <3>4
  <2>. QED  BY <1>8, <2>1, <2>4, <2>5
<1>. QED  BY <1>9, <1>10

\* A storage trie to which all changed slots have been applied.
LEMMA StorageEnds ==
  ASSUME t \in Transitions, OneChain, NEW a \in ChangedAccounts, a \in DOMAIN t.after, NEW n,
         IsStorage(n, a, ChangedSlots(a))
  PROVE  Reference(n) = StorageRoot(t.after[a].storage)
<1>1. /\ IsTransition(t) /\ IsState(t.before) /\ IsState(t.after)
      /\ a \in Touched /\ a \in Addr /\ t.slots[a] \subseteq Slot
      /\ ChangedSlots(a) \subseteq t.slots[a]
      /\ AreKeys(DOMAIN OldSlots(a), LenOf(Slot)) /\ AreKeys(DOMAIN NewSlots(a), LenOf(Slot))
      /\ LenOf(Slot) \in Nat
  BY TransitionIs, MapKeys
<1>2. ChangedSlots(a) \subseteq Path
  BY <1>1, StateKeys
<1>3. /\ DOMAIN NewSlots(a) = DOMAIN StorageOf(t.after, a)
      /\ \A k \in DOMAIN NewSlots(a) : NewSlots(a)[k] = Word(StorageOf(t.after, a)[k])
      /\ \A k \in DOMAIN StorageOf(t.after, a) : StorageOf(t.after, a)[k] # 0
      /\ DOMAIN NewSlots(a) \subseteq Slot
  <2>1. /\ DOMAIN NewSlots(a) = DOMAIN StorageOf(t.after, a)
        /\ \A k \in DOMAIN NewSlots(a) : NewSlots(a)[k] = Word(StorageOf(t.after, a)[k])
    BY DEF NewSlots, SlotMap
  <2>2. DOMAIN StorageOf(t.after, a) \subseteq Slot
    BY <1>1 DEF IsState, StorageOf
  <2>. QED  BY <1>1, <2>1, <2>2, StateKeys
<1>4. a \in t.wiped => DOMAIN OldSlots(a) = {}
  BY DEF OldSlots, SlotMap
<1>5. a \notin t.wiped =>
        /\ DOMAIN OldSlots(a) = DOMAIN StorageOf(t.before, a)
        /\ \A k \in DOMAIN OldSlots(a) : OldSlots(a)[k] = Word(StorageOf(t.before, a)[k])
        /\ \A k \in DOMAIN StorageOf(t.before, a) : StorageOf(t.before, a)[k] # 0
        /\ DOMAIN OldSlots(a) \subseteq Slot
        /\ StorageRoot(StorageOf(t.before, a)) = Canonical(OldSlots(a))
  <2> SUFFICES ASSUME a \notin t.wiped
               PROVE  /\ DOMAIN OldSlots(a) = DOMAIN StorageOf(t.before, a)
                      /\ \A k \in DOMAIN OldSlots(a) : OldSlots(a)[k] = Word(StorageOf(t.before, a)[k])
                      /\ \A k \in DOMAIN StorageOf(t.before, a) : StorageOf(t.before, a)[k] # 0
                      /\ DOMAIN OldSlots(a) \subseteq Slot
                      /\ StorageRoot(StorageOf(t.before, a)) = Canonical(OldSlots(a))
    OBVIOUS
  <2>1. OldSlots(a) = SlotMap(StorageOf(t.before, a))
    BY DEF OldSlots
  <2>2. /\ DOMAIN OldSlots(a) = DOMAIN StorageOf(t.before, a)
        /\ \A k \in DOMAIN OldSlots(a) : OldSlots(a)[k] = Word(StorageOf(t.before, a)[k])
    BY <2>1 DEF SlotMap
  <2>3. DOMAIN StorageOf(t.before, a) \subseteq Slot
    BY <1>1 DEF IsState, StorageOf
  <2>. QED  BY <1>1, <2>1, <2>2, <2>3, StateKeys
\* What is not changed is the same before and after.
<1>6. ASSUME NEW k, k \notin ChangedSlots(a)
      PROVE  /\ k \in DOMAIN NewSlots(a) <=> k \in DOMAIN OldSlots(a)
             /\ k \in DOMAIN NewSlots(a) => NewSlots(a)[k] = OldSlots(a)[k]
  <2>1. CASE k \notin Slot
    BY <1>3, <1>4, <1>5, <2>1
  <2>2. CASE k \in Slot /\ a \in t.wiped
    <3>1. k \notin t.slots[a]
      BY <1>6, <2>2 DEF ChangedSlots
    <3>2. ValueAt(StorageOf(t.after, a), k) = 0
      BY <1>1, <2>2, <3>1 DEF IsTransition, Touched
    <3>3. k \notin DOMAIN NewSlots(a)
      BY <1>3, <3>2 DEF ValueAt
    <3>. QED  BY <1>4, <2>2, <3>3
  <2>3. CASE k \in Slot /\ a \notin t.wiped
    <3>1. ValueAt(StorageOf(t.after, a), k) = ValueAt(StorageOf(t.before, a), k)
      <4>1. CASE k \in t.slots[a]
        BY <1>6, <4>1 DEF ChangedSlots
      <4>2. CASE k \notin t.slots[a]
        BY <1>1, <2>3, <4>2 DEF IsTransition, Touched
      <4>. QED  BY <4>1, <4>2
    <3>. QED  BY <1>3, <1>5, <2>3, <3>1 DEF ValueAt
  <2>. QED  BY <2>1, <2>2, <2>3
<1>7. ASSUME NEW k \in ChangedSlots(a)
      PROVE  IsCovered(k, NewSlots(a), OldSlots(a), StorageStore(a))
  <2>1. CASE a \in t.wiped
    BY <1>4, <2>1 DEF IsCovered
  <2>2. CASE t.source = "proofs"
    <3>1. t.afters[a] = t.after /\ StorageStore(a) = StorageNodes(a)
      BY <1>1, <2>2 DEF OneChain, StorageStore
    <3>2. StorageRoot(StorageOf(t.after, a)) = Canonical(NewSlots(a))
      BY StateKeys DEF NewSlots
    <3>3. OrphanedLeafs(StorageRoot(StorageOf(t.afters[a], a)), k) \subseteq StorageNodes(a)
      BY <1>7 DEF StorageNodes
    <3>. QED  BY <3>1, <3>2, <3>3 DEF IsCovered
  <2>3. CASE t.source = "witness" /\ a \notin t.wiped
    <3> DEFINE nodes == ProofNodes(StorageRoot(StorageOf(t.before, a)), t.slots[a])
    <3>1. WithSiblings(nodes) \subseteq Witness /\ StorageStore(a) = Witness
      BY <1>1, <2>3 DEF Witness, StorageStore
    <3>2. Proof(Canonical(OldSlots(a)), k) \subseteq nodes
      BY <1>1, <1>5, <1>7, <2>3 DEF ProofNodes
    <3> HIDE DEF nodes
    <3>. QED  BY <3>1, <3>2 DEF IsCovered
  <2>. QED  BY <1>1, <2>1, <2>2, <2>3 DEF IsTransition
<1>8. Reference(n) = Canonical(NewSlots(a))
  BY <1>1, <1>2, <1>6, <1>7, UnderwayEnds DEF IsStorage
<1>9. StorageRoot(StorageOf(t.after, a)) = Canonical(NewSlots(a))
  BY StateKeys DEF NewSlots
<1>. QED  BY <1>8, <1>9 DEF StorageOf

\* A state trie to which all changed accounts have been applied.
LEMMA StateEnds ==
  ASSUME t \in Transitions, OneChain, NEW n, IsStateTrie(n, ChangedAccounts)
  PROVE  Reference(n) = StateRoot(t.after)
<1> DEFINE old == StateMap(t.before)
           new == StateMap(t.after)
<1>1. /\ IsTransition(t) /\ IsState(t.before) /\ IsState(t.after)
      /\ Touched \subseteq Addr /\ ChangedAccounts \subseteq Touched
      /\ AreKeys(DOMAIN old, LenOf(Addr)) /\ AreKeys(DOMAIN new, LenOf(Addr))
      /\ LenOf(Addr) \in Nat
      /\ DOMAIN old = DOMAIN t.before /\ DOMAIN new = DOMAIN t.after
      /\ StateRoot(t.before) = Canonical(old) /\ StateRoot(t.after) = Canonical(new)
  BY TransitionIs, MapKeys, StateKeys
<1>2. ChangedAccounts \subseteq Path
  BY <1>1, StateKeys
<1>3. ASSUME NEW a, a \notin ChangedAccounts
      PROVE  /\ a \in DOMAIN new <=> a \in DOMAIN old
             /\ a \in DOMAIN new => new[a] = old[a]
  <2>1. /\ a \in DOMAIN t.before <=> a \in DOMAIN t.after
        /\ a \in DOMAIN t.after => t.before[a] = t.after[a]
    <3>1. CASE a \in Touched
      BY <1>3, <3>1 DEF ChangedAccounts
    <3>2. CASE a \in Addr \ Touched
      BY <1>1, <3>2 DEF IsTransition, Touched
    <3>3. CASE a \notin Addr
      BY <1>1, <3>3 DEF IsState
    <3>. QED  BY <1>1, <3>1, <3>2, <3>3
  <2>. QED  BY <2>1 DEF StateMap
<1>4. ASSUME NEW a \in ChangedAccounts PROVE IsCovered(a, new, old, Store)
  <2>1. CASE t.source = "proofs"
    <3>1. t.afters[a] = t.after /\ Store = StateNodes
      BY <1>1, <2>1 DEF OneChain, Store
    <3>2. OrphanedLeafs(StateRoot(t.afters[a]), a) \subseteq StateNodes
      BY <1>1 DEF StateNodes
    <3>. QED  BY <1>1, <3>1, <3>2 DEF IsCovered
  <2>2. CASE t.source = "witness"
    <3> DEFINE nodes == ProofNodes(StateRoot(t.before), Touched)
    <3>1. WithSiblings(nodes) \subseteq Witness /\ Store = Witness
      BY <2>2 DEF Witness, Store
    <3>2. Proof(Canonical(old), a) \subseteq nodes
      BY <1>1 DEF ProofNodes
    <3> HIDE DEF nodes, old, new
    <3>. QED  BY <3>1, <3>2 DEF IsCovered
  <2>. QED  BY <1>1, <2>1, <2>2 DEF IsTransition
<1>5. IsUnderway(n, new, old, ChangedAccounts, Store, LenOf(Addr))
  BY DEF IsStateTrie
<1> HIDE DEF old, new
<1>. QED  BY <1>1, <1>2, <1>3, <1>4, <1>5, UnderwayEnds

\* A change keeps the tries as they should be.
LEMMA UpdateTries ==
  ASSUME Inv, [Next]_vars, pc \in {"update", "done"}, pc' \in {"update", "done"},
         OneChain, StorageProvided, NotProvided, TriesAre
  PROVE  TriesAre'
<1>1. /\ accounts \subseteq ChangedAccounts
      /\ account = {} \/ \E a \in ChangedAccounts \ accounts : account = {a}
      /\ slots # {} => \E a \in account : account = {a} /\ slots \subseteq ChangedSlots(a)
      /\ account \subseteq DOMAIN storage_tries \intersect DOMAIN t.after
      /\ t \in Transitions
  BY DEF Inv, TypeOK
<1>2. /\ AreKeys(DOMAIN StateMap(t.before), LenOf(Addr))
      /\ \A a : AreKeys(DOMAIN OldSlots(a), LenOf(Slot))
      /\ LenOf(Addr) \in Nat /\ LenOf(Slot) \in Nat
      /\ ChangedAccounts \subseteq Touched
      /\ \A a \in Addr : a \in Path /\ Len(a) = LenOf(Addr)
      /\ \A k \in Slot : k \in Path /\ Len(k) = LenOf(Slot)
  BY <1>1, MapKeys, StateKeys
<1>3. ASSUME t' = t
      PROVE  /\ ChangedAccounts' = ChangedAccounts
             /\ \A a : ChangedSlots(a)' = ChangedSlots(a)
             /\ /\ IsStateTrie(state_trie', AppliedAccounts')
                /\ \A a \in (accounts' \intersect DOMAIN storage_tries') \ t.wiped :
                     IsStorage(storage_tries'[a], a, {})
                /\ \A a \in account' : IsStorage(storage_tries'[a], a, ChangedSlots(a) \ slots')
                /\ pc' = "done" => accounts' = {} /\ account' = {}
                => TriesAre'
  <2>1. /\ Touched' = Touched /\ ChangedAccounts' = ChangedAccounts
        /\ \A a : ChangedSlots(a)' = ChangedSlots(a)
    BY <1>3 DEF Touched, ChangedAccounts, ChangedSlots
  <2>2. Store' = Store
    BY <1>3, <2>1 DEF Store, Witness, StateNodes
  <2>3. \A a : /\ StorageStore(a)' = StorageStore(a)
               /\ NewSlots(a)' = NewSlots(a) /\ OldSlots(a)' = OldSlots(a)
    BY <1>3, <2>1 DEF StorageStore, Witness, StorageNodes, NewSlots, OldSlots
  <2>. QED  BY <1>3, <2>1, <2>2, <2>3 DEF TriesAre, IsStateTrie, IsStorage
<1>4. /\ IsStateTrie(state_trie, AppliedAccounts)
      /\ \A a \in (accounts \intersect DOMAIN storage_tries) \ t.wiped : IsStorage(storage_tries[a], a, {})
      /\ \A a \in account : IsStorage(storage_tries[a], a, ChangedSlots(a) \ slots)
      /\ pc = "done" => accounts = {} /\ account = {}
  BY DEF TriesAre
<1>5. ASSUME NEW a \in Addr, StartAccount(a) PROVE TriesAre'
  <2> DEFINE n == IF a \in t.wiped THEN Null ELSE Entry(a)
  <2>1. /\ t' = t /\ state_trie' = state_trie /\ storage_tries' = With(storage_tries, a, n)
        /\ account = {} /\ account' = {a} /\ a \in accounts /\ accounts' = accounts \ {a}
        /\ slots' = ChangedSlots(a) /\ a \in DOMAIN t.after /\ pc' = "update"
    BY <1>5 DEF StartAccount
  <2>2. AppliedAccounts' = AppliedAccounts
    BY <1>3, <2>1 DEF AppliedAccounts
  <2>3. IsStorage(n, a, {})
    <3>1. \A m : DOMAIN OldSlots(a) = {} => IsStorage(Null, a, {})
      BY <1>2, NullIsUnderway DEF IsStorage
    <3>2. CASE a \in t.wiped
      <4>1. DOMAIN OldSlots(a) = {}
        BY <3>2 DEF OldSlots, SlotMap
      <4>. QED  BY <3>1, <3>2, <4>1
    <3>3. CASE a \notin t.wiped /\ a \in DOMAIN storage_tries
      BY <1>4, <2>1, <3>3 DEF Entry
    <3>4. CASE a \notin t.wiped /\ a \notin DOMAIN storage_tries
      <4>1. a \in Touched /\ a \in ChangedAccounts
        BY <1>1, <1>2, <2>1
      <4>2. t.source = "witness" /\ (DOMAIN StorageOf(t.before, a) = {} \/ t.slots[a] = {})
        BY <3>4, <4>1 DEF NotProvided
      <4>3. DOMAIN StorageOf(t.before, a) = {}
        BY <2>1, <3>4, <4>1, <4>2 DEF StorageProvided
      <4>4. DOMAIN OldSlots(a) = {}
        BY <3>4, <4>3 DEF OldSlots, SlotMap
      <4>. QED  BY <3>1, <3>4, <4>4 DEF Entry
    <3>. QED  BY <3>2, <3>3, <3>4
  <2> HIDE DEF n
  <2>4. IsWith(storage_tries', storage_tries, a, n)
    BY <2>1, WithIs
  <2>5. IsStateTrie(state_trie', AppliedAccounts')
    BY <1>3, <1>4, <2>1, <2>2
  <2>6. \A b \in (accounts' \intersect DOMAIN storage_tries') \ t.wiped : IsStorage(storage_tries'[b], b, {})
    BY <1>3, <1>4, <2>1, <2>4 DEF IsWith
  <2>7. \A b \in account' : IsStorage(storage_tries'[b], b, ChangedSlots(b) \ slots')
    <3>1. ChangedSlots(a) \ slots' = {} /\ storage_tries'[a] = n
      BY <2>1, <2>4 DEF IsWith
    <3>. QED  BY <1>3, <2>1, <2>3, <3>1
  <2>. QED  BY <1>3, <2>1, <2>5, <2>6, <2>7
<1>6. ASSUME NEW a \in Addr, NEW k \in Slot, ApplySlot(a, k) PROVE TriesAre'
  <2> DEFINE value == ValueAt(StorageOf(t.after, a), k)
             result == IF value = 0 THEN DeleteInternal(storage_tries[a], k)
                       ELSE InsertInternal(storage_tries[a], k, Word(value))
  <2>1. /\ t' = t /\ state_trie' = state_trie /\ storage_tries' = With(storage_tries, a, result.trie)
        /\ result.error = "none" /\ pc' = "update"
        /\ account = {a} /\ account' = {a} /\ k \in slots /\ slots' = slots \ {k}
        /\ accounts' = accounts
    BY <1>6 DEF ApplySlot, Unwrap
  <2>2. /\ a \in DOMAIN storage_tries /\ k \in ChangedSlots(a) /\ a \notin accounts
        /\ ChangedSlots(a) \ slots' = (ChangedSlots(a) \ slots) \union {k}
    BY <1>1, <2>1
  <2>3. \/ k \in DOMAIN NewSlots(a) /\ result = InsertInternal(storage_tries[a], k, NewSlots(a)[k])
        \/ k \notin DOMAIN NewSlots(a) /\ result = DeleteInternal(storage_tries[a], k)
    <3>1. \A j \in DOMAIN StorageOf(t.after, a) : StorageOf(t.after, a)[j] # 0
      BY <1>1, TransitionIs, StateKeys
    <3>2. k \in DOMAIN NewSlots(a) <=> value # 0
      BY <3>1 DEF NewSlots, SlotMap, ValueAt
    <3>3. k \in DOMAIN NewSlots(a) => NewSlots(a)[k] = Word(value)
      BY DEF NewSlots, SlotMap, ValueAt
    <3>. QED  BY <3>2, <3>3
  <2>4. IsStorage(storage_tries[a], a, ChangedSlots(a) \ slots)
    BY <1>4, <2>1
  <2> HIDE DEF result, value
  <2>5. IsStorage(result.trie, a, (ChangedSlots(a) \ slots) \union {k})
    BY <1>2, <2>1, <2>3, <2>4, StepIsUnderway DEF IsStorage
  <2>6. IsWith(storage_tries', storage_tries, a, result.trie)
    BY <2>1, WithIs
  <2>7. AppliedAccounts' = AppliedAccounts
    BY <1>3, <2>1 DEF AppliedAccounts
  <2>8. IsStateTrie(state_trie', AppliedAccounts')
    BY <1>3, <1>4, <2>1, <2>7
  <2>9. \A b \in (accounts' \intersect DOMAIN storage_tries') \ t.wiped : IsStorage(storage_tries'[b], b, {})
    BY <1>3, <1>4, <2>1, <2>2, <2>6 DEF IsWith
  <2>10. \A b \in account' : IsStorage(storage_tries'[b], b, ChangedSlots(b) \ slots')
    <3>1. storage_tries'[a] = result.trie
      BY <2>6 DEF IsWith
    <3>. QED  BY <1>3, <2>1, <2>2, <2>5, <3>1
  <2>. QED  BY <1>3, <2>1, <2>8, <2>9, <2>10
<1>7. ASSUME NEW a \in Addr, InsertAccount(a) PROVE TriesAre'
  <2> DEFINE storage == Hashed(storage_tries[a])
             value == TrieAccount(t.after[a].info, Reference(storage))
             result == InsertInternal(state_trie, a, value)
  <2>1. /\ t' = t /\ state_trie' = result.trie /\ storage_tries' = With(storage_tries, a, storage)
        /\ result.error = "none" /\ pc' = "update"
        /\ account = {a} /\ slots = {} /\ account' = {} /\ accounts' = accounts
    BY <1>7 DEF InsertAccount, Unwrap
  <2>2. /\ a \in DOMAIN storage_tries /\ a \in DOMAIN t.after
        /\ a \in ChangedAccounts /\ a \notin accounts
    BY <1>1, <2>1
  <2>3. IsStorage(storage, a, ChangedSlots(a))
    <3>1. IsStorage(storage_tries[a], a, ChangedSlots(a))
      BY <1>4, <2>1
    <3>. QED  BY <1>2, <3>1, HashedIsUnderway DEF IsStorage
  <2>4. Reference(storage) = StorageRoot(t.after[a].storage)
    BY <1>1, <2>2, <2>3, StorageEnds
  <2>5. a \in DOMAIN StateMap(t.after) /\ value = StateMap(t.after)[a]
    BY <2>2, <2>4 DEF StateMap
  <2>6. AppliedAccounts' = AppliedAccounts \union {a}
    BY <1>3, <2>1, <2>2 DEF AppliedAccounts
  <2>7. result = InsertInternal(state_trie, a, StateMap(t.after)[a])
    BY <2>5
  <2> HIDE DEF storage, value, result
  <2>8. IsStateTrie(result.trie, AppliedAccounts \union {a})
    BY <1>2, <1>4, <2>1, <2>5, <2>7, StepIsUnderway DEF IsStateTrie
  <2>9. IsWith(storage_tries', storage_tries, a, storage)
    BY <2>1, WithIs
  <2>10. IsStateTrie(state_trie', AppliedAccounts')
    BY <1>3, <2>1, <2>6, <2>8
  <2>11. \A b \in (accounts' \intersect DOMAIN storage_tries') \ t.wiped : IsStorage(storage_tries'[b], b, {})
    BY <1>3, <1>4, <2>1, <2>2, <2>9 DEF IsWith
  <2>. QED  BY <1>3, <2>1, <2>10, <2>11
<1>8. ASSUME NEW a \in Addr, DeleteAccount(a) PROVE TriesAre'
  <2> DEFINE result == DeleteInternal(state_trie, a)
  <2>1. /\ t' = t /\ state_trie' = result.trie /\ storage_tries' = storage_tries
        /\ result.error = "none" /\ pc' = "update"
        /\ account = {} /\ account' = {} /\ accounts' = accounts \ {a}
        /\ a \in accounts /\ a \notin DOMAIN t.after
    BY <1>8 DEF DeleteAccount, Unwrap
  <2>2. a \notin DOMAIN StateMap(t.after) /\ AppliedAccounts' = AppliedAccounts \union {a}
    BY <1>1, <1>3, <2>1 DEF AppliedAccounts, StateMap
  <2>3. result = DeleteInternal(state_trie, a)
    OBVIOUS
  <2> HIDE DEF result
  <2>4. IsStateTrie(result.trie, AppliedAccounts \union {a})
    BY <1>2, <1>4, <2>1, <2>2, <2>3, StepIsUnderway DEF IsStateTrie
  <2>5. IsStateTrie(state_trie', AppliedAccounts')
    BY <1>3, <2>1, <2>2, <2>4
  <2>6. \A b \in (accounts' \intersect DOMAIN storage_tries') \ t.wiped : IsStorage(storage_tries'[b], b, {})
    BY <1>3, <1>4, <2>1
  <2>. QED  BY <1>3, <2>1, <2>5, <2>6
<1>9. CASE Finish
  <2>1. /\ t' = t /\ state_trie' = Hashed(state_trie) /\ storage_tries' = storage_tries
        /\ accounts = {} /\ account = {} /\ accounts' = {} /\ account' = {}
    BY <1>9 DEF Finish, todo
  <2>2. IsStateTrie(Hashed(state_trie), AppliedAccounts)
    BY <1>2, <1>4, HashedIsUnderway DEF IsStateTrie
  <2>3. AppliedAccounts' = AppliedAccounts
    BY <1>3, <2>1 DEF AppliedAccounts
  <2>4. IsStateTrie(state_trie', AppliedAccounts')
    BY <1>3, <2>1, <2>2, <2>3
  <2>. QED  BY <1>3, <2>1, <2>4
<1>10. CASE UNCHANGED vars
  <2>1. /\ t' = t /\ state_trie' = state_trie /\ storage_tries' = storage_tries
        /\ accounts' = accounts /\ account' = account /\ slots' = slots /\ pc' = pc
    BY <1>10 DEF vars, tries, todo
  <2>2. AppliedAccounts' = AppliedAccounts
    BY <1>3, <2>1 DEF AppliedAccounts
  <2>3. IsStateTrie(state_trie', AppliedAccounts')
    BY <1>3, <1>4, <2>1, <2>2
  <2>4. \A b \in (accounts' \intersect DOMAIN storage_tries') \ t.wiped : IsStorage(storage_tries'[b], b, {})
    BY <1>3, <1>4, <2>1
  <2>5. \A b \in account' : IsStorage(storage_tries'[b], b, ChangedSlots(b) \ slots')
    BY <1>3, <1>4, <2>1
  <2>. QED  BY <1>3, <1>4, <2>1, <2>3, <2>4, <2>5
<1>11. ~(BuildFromProofs \/ MismatchedStateRoot \/ BuildFromWitness)
  BY DEF BuildFromProofs, MismatchedStateRoot, BuildFromWitness
<1>. QED  BY <1>5, <1>6, <1>7, <1>8, <1>9, <1>10, <1>11 DEF Next, Ended

\* It holds.
LEMMA RootHolds == Spec => []RootInv
<1>1. Init => RootInv
  BY DEF Init, RootInv
<1>2. Inv /\ ReachInv /\ LeafInv /\ RootInv /\ [Next]_vars => RootInv'
  <2> SUFFICES ASSUME Inv, ReachInv, LeafInv, RootInv, [Next]_vars,
                      OneChain', StorageProvided', pc' # "build"
               PROVE  TriesAre'
    BY DEF RootInv
  <2>1. t' = t
    BY DEF Next, vars, Ended, BuildFromProofs, MismatchedStateRoot, BuildFromWitness,
           StartAccount, ApplySlot, InsertAccount, DeleteAccount, Finish
  <2>2. OneChain /\ StorageProvided
    BY <2>1 DEF OneChain, StorageProvided, ChangedAccounts, Touched
  <2>3. CASE BuildFromProofs \/ BuildFromWitness
    BY <2>2, <2>3, BuildTries
  <2>4. CASE MismatchedStateRoot
    <3>1. pc' = "update"
      BY <2>2, <2>4, BuildReach
    <3>. QED  BY <2>4, <3>1 DEF MismatchedStateRoot
  <2>5. CASE ~(BuildFromProofs \/ MismatchedStateRoot \/ BuildFromWitness)
    <3>1. pc # "build"
      BY <2>5 DEF Next, vars, Ended, StartAccount, ApplySlot, InsertAccount, DeleteAccount, Finish
    <3>2. pc \in {"update", "done"} /\ IsTouchedReached /\ TriesAre
      BY <2>2, <3>1 DEF ReachInv, RootInv
    <3>3. pc' \in {"update", "done"}
      BY <2>2, <2>5, <3>2, UpdateReach
    <3>4. NotProvided
      BY <3>2 DEF LeafInv
    <3>. QED  BY <2>2, <3>2, <3>3, <3>4, UpdateTries
  <2>. QED  BY <2>3, <2>4, <2>5
<1>. QED  BY <1>1, <1>2, InvHolds, ReachHolds, LeafHolds, PTL DEF Spec

\* RootIsRight of the runs: in whatever order update comes to the accounts and
\* to the slots of each, and though most of the trie is only digests, the root
\* in the end is that of the trie of the state after the block.
THEOREM RootsAreRight == Spec => []RootIsRight
<1>1. Inv /\ RootInv => RootIsRight
  <2> SUFFICES ASSUME Inv, RootInv, pc = "done", OneChain, StorageProvided
               PROVE  Reference(state_trie) = StateRoot(t.after)
    BY DEF RootIsRight
  <2>1. TriesAre /\ t \in Transitions
    BY DEF RootInv, Inv
  <2>2. IsStateTrie(state_trie, AppliedAccounts) /\ AppliedAccounts = ChangedAccounts
    BY <2>1 DEF TriesAre, AppliedAccounts
  <2>3. IsStateTrie(state_trie, ChangedAccounts)
    BY <2>2
  <2>. QED  BY <2>1, <2>3, StateEnds
<1>. QED  BY <1>1, InvHolds, RootHolds, PTL
=============================================================================
