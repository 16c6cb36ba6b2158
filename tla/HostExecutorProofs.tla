------------------------- MODULE HostExecutorProofs -------------------------
(***************************************************************************)
(* Proofs about the host executor for every chain, state and block: what   *)
(* an input the guest accepts is, when it rejects one, and that an attempt *)
(* the chain does not move under succeeds.                                 *)
(***************************************************************************)
EXTENDS HostExecutor, TLAPS

\* Block N is being executed on the host, current_block is fetched.
Attempting == {"execute", "proofs", "ancestors", "guest"}

\* The bundle the execution returned is what revm makes of the data read.
Executed ==
  /\ DOMAIN values = Reads[current]
  /\ DOMAIN hashes = HashReads[current]
  /\ Run(current, values, hashes).receipts = Receipts[current]
  /\ writes = Run(current, values, hashes).writes

\* What each stage of an attempt has collected, from whatever chain.
ShapeInv ==
  /\ pc \in Attempting \union {"previous"} => current \in Block
  /\ pc \in Attempting => previous \in Block
  /\ pc \in {"current", "previous"} => values = Empty /\ hashes = Empty
  /\ pc \in {"current", "previous", "execute"} => proofs = Empty /\ afters = Empty
  /\ pc \in {"current", "previous", "execute", "proofs"} => ancestors = <<>>
  /\ pc = "execute" => /\ DOMAIN values \subseteq Reads[current]
                       /\ DOMAIN hashes \subseteq HashReads[current]
  /\ pc \in {"proofs", "ancestors", "guest"} => Executed
  /\ pc = "proofs" => DOMAIN proofs \subseteq Touched(current)
  /\ \A n \in DOMAIN hashes : oldest <= n
  /\ Len(ancestors) <= N - oldest
  /\ pc = "guest" => Len(ancestors) = N - oldest

\* The complete tries of block N - 1 of a chain, for the accounts touched.
TrieOf(ch) ==
  [ state    |-> StateOf[ch[N - 1]],
    resolved |-> Touched(ch[N]),
    storage  |-> [a \in Touched(ch[N]) |-> StateOf[ch[N - 1]][<<a, "storage">>]] ]

\* While the chain stays as it is, everything collected belongs to it.
SnapshotInv ==
  stable /\ pc \in Attempting \union {"previous"} =>
    /\ N \in DOMAIN canon
    /\ current = canon[N]
    /\ pc # "previous" => previous = canon[N - 1]
    /\ \A l \in DOMAIN values : values[l] = StateOf[canon[N - 1]][l]
    /\ \A n \in DOMAIN hashes : hashes[n] = canon[n]
    /\ \A a \in DOMAIN proofs : proofs[a] = canon[N - 1]
    /\ \A a \in DOMAIN afters : afters[a] = canon[N]
    /\ \A i \in 1..Len(ancestors) : ancestors[i] = canon[N - i]
    /\ pc \in {"ancestors", "guest"} => trie = TrieOf(canon)

\* The guest has run on the input that is still there.
VerdictInv == pc = "accepted" => GuestAccepts(Input)

IInv ==
  /\ TypeOK
  /\ ShapeInv
  /\ SnapshotInv
  /\ VerdictInv

-----------------------------------------------------------------------------
(* Partial maps and header lists *)

\* Writing a key gives a partial map again, with the key in its domain.
LEMMA PutMap ==
  ASSUME NEW S, NEW V, NEW f \in PartialMap(S, V), NEW k \in S, NEW v \in V
  PROVE  /\ Put(f, k, v) \in PartialMap(S, V)
         /\ DOMAIN Put(f, k, v) = DOMAIN f \union {k}
         /\ \A x \in DOMAIN Put(f, k, v) : Put(f, k, v)[x] = IF x = k THEN v ELSE f[x]
<1> DEFINE D == DOMAIN f \union {k}
<1>1. DOMAIN f \in SUBSET S /\ f \in [DOMAIN f -> V]
  BY DEF PartialMap
<1>2. Put(f, k, v) \in [D -> V] /\ D \in SUBSET S
  BY <1>1 DEF Put
<1>3. Put(f, k, v) \in PartialMap(S, V)
  BY <1>2 DEF PartialMap
<1> QED
  BY <1>3 DEF Put

\* The same for the proofs of an account.
LEMMA PutProof ==
  ASSUME NEW f \in PartialMap(Addr, Block), NEW a \in Addr, NEW b \in Block
  PROVE  /\ Put(f, a, b) \in PartialMap(Addr, Block)
         /\ DOMAIN Put(f, a, b) = DOMAIN f \union {a}
         /\ \A x \in DOMAIN Put(f, a, b) : Put(f, a, b)[x] = IF x = a THEN b ELSE f[x]
BY PutMap

\* A partial map with a given domain is a function on it.
LEMMA MapOn ==
  ASSUME NEW S, NEW V, NEW f \in PartialMap(S, V), NEW D, DOMAIN f = D
  PROVE  f \in [D -> V] /\ D \subseteq S
BY DEF PartialMap

\* The map without keys is a partial map between any two sets.
LEMMA EmptyMap ==
  ASSUME NEW S, NEW V
  PROVE  Empty \in PartialMap(S, V) /\ DOMAIN Empty = {}
<1>1. Empty \in [{} -> V] /\ {} \in SUBSET S
  BY DEF Empty
<1> QED
  BY <1>1 DEF PartialMap, Empty

\* The first sealed header is the block's, the others are the ancestors'.
LEMMA SealedAt ==
  ASSUME NEW in, in.ancestors \in Seq(Block)
  PROVE  /\ SealedHeaders(in)[1] = in.current
         /\ \A i \in 1..Len(in.ancestors) :
              SealedHeaders(in)[i + 1] = in.ancestors[i]
<1> DEFINE anc == in.ancestors
           one == <<in.current>>
<1>1. Len(one) = 1 /\ one[1] = in.current
  OBVIOUS
<1>2. \A i \in 1..(1 + Len(anc)) :
        (one \o anc)[i] = IF i <= 1 THEN one[i] ELSE anc[i - 1]
  BY <1>1
<1> HIDE DEF anc, one
<1>3. Len(anc) \in Nat
  BY DEF anc
<1> QED
  BY <1>1, <1>2, <1>3 DEF SealedHeaders, anc, one

\* What an input the guest accepts says about the chain its block is on.
LEMMA GuestLinks ==
  ASSUME NEW in, in.ancestors \in Seq(Block), GuestAccepts(in)
  PROVE  /\ Parent[in.current] = in.ancestors[1]
         /\ \A i \in 1..(Len(in.ancestors) - 1) :
              Parent[in.ancestors[i]] = in.ancestors[i + 1]
         /\ in.state = StateOf[Parent[in.current]]
<1> DEFINE anc == in.ancestors
<1>1. Len(anc) \in Nat /\ Len(anc) >= 1
  BY DEF GuestAccepts, StateAnchored
<1>2. \A i \in 1..Len(anc) : SealedHeaders(in)[i + 1] = Parent[SealedHeaders(in)[i]]
  BY DEF GuestAccepts, HeadersLinked
<1>3. Parent[in.current] = anc[1]
  BY <1>1, <1>2, SealedAt
<1>4. ASSUME NEW i \in 1..(Len(anc) - 1)
      PROVE  Parent[anc[i]] = anc[i + 1]
  <2>1. i + 1 \in 1..Len(anc) /\ i \in 1..Len(anc)
    BY <1>1
  <2>2. SealedHeaders(in)[(i + 1) + 1] = Parent[SealedHeaders(in)[i + 1]]
    BY <1>2, <2>1
  <2>3. SealedHeaders(in)[(i + 1) + 1] = anc[i + 1] /\ SealedHeaders(in)[i + 1] = anc[i]
    BY <2>1, SealedAt
  <2> QED
    BY <2>2, <2>3
<1> QED
  BY <1>3, <1>4 DEF GuestAccepts, StateAnchored

-----------------------------------------------------------------------------
(* The provider's chains *)

\* A chain holds each block up to the parent of block N.
LEMMA ChainHas ==
  ASSUME NEW ch \in Chains
  PROVE  /\ N \in Nat /\ N >= 2
         /\ ch \in Seq(Block)
         /\ DOMAIN ch = 1..Len(ch) /\ Len(ch) \in Nat
         /\ \A n \in 1..(N - 1) : n \in DOMAIN ch /\ ch[n] \in Block
         /\ N \in DOMAIN ch => ch[N] \in Block
<1>1. /\ ch \in Seq(Block) /\ Len(ch) \in Nat /\ Len(ch) >= N - 1
      /\ N \in Nat /\ N >= 2
  BY ChainsAssumption
<1>2. DOMAIN ch = 1..Len(ch) /\ \A n \in 1..Len(ch) : ch[n] \in Block
  BY <1>1
<1>3. \A n \in 1..(N - 1) : n \in 1..Len(ch)
  BY <1>1
<1> QED
  BY <1>1, <1>2, <1>3

\* So does the chain the provider serves.
LEMMA CanonHas ==
  ASSUME canon \in Chains
  PROVE  /\ N \in Nat /\ N >= 2
         /\ canon \in Seq(Block)
         /\ DOMAIN canon = 1..Len(canon) /\ Len(canon) \in Nat
         /\ \A n \in 1..(N - 1) : n \in DOMAIN canon /\ canon[n] \in Block
         /\ N \in DOMAIN canon => canon[N] \in Block
BY ChainHas

\* The data a block runs on at its own place in the chain.
ParentValues(ch) == [l \in Reads[ch[N]] |-> StateOf[ch[N - 1]][l]]
ParentHashes(ch) == [n \in HashReads[ch[N]] |-> ch[n]]

\* Where a chain holds block N, that block is valid on it.
LEMMA ChainValid ==
  ASSUME NEW ch \in Chains, N \in DOMAIN ch
  PROVE  LET out == Run(ch[N], ParentValues(ch), ParentHashes(ch))
         IN  /\ HashReads[ch[N]] \subseteq 1..(N - 1)
             /\ out.receipts = Receipts[ch[N]]
             /\ Overlay(StateOf[ch[N - 1]], out.writes) = StateOf[ch[N]]
BY ChainsAssumption DEF ParentValues, ParentHashes, ValidOn

\* The same of the chain the provider serves.
LEMMA CanonValid ==
  ASSUME canon \in Chains, N \in DOMAIN canon
  PROVE  LET out == Run(canon[N], ParentValues(canon), ParentHashes(canon))
         IN  /\ HashReads[canon[N]] \subseteq 1..(N - 1)
             /\ out.receipts = Receipts[canon[N]]
             /\ Overlay(StateOf[canon[N - 1]], out.writes) = StateOf[canon[N]]
BY ChainValid

\* An account that is read is an account.
LEMMA TouchedAddr ==
  ASSUME NEW b \in Block
  PROVE  Touched(b) \subseteq Addr /\ Reads[b] \subseteq Location
BY ChainAssumption DEF Touched, Location

-----------------------------------------------------------------------------
(* The invariant *)

\* The data read is complete after the execution: it is the data of block
\* N - 1 of any chain that agrees with it.
LEMMA ReadsOfChain ==
  ASSUME IInv, NEW ch \in Chains, current = ch[N], Executed,
         \A l \in DOMAIN values : values[l] = StateOf[ch[N - 1]][l],
         \A n \in DOMAIN hashes : hashes[n] = ch[n]
  PROVE  /\ values = ParentValues(ch)
         /\ hashes = ParentHashes(ch)
         /\ values \in [Reads[current] -> Value]
         /\ hashes \in [HashReads[current] -> Block]
<1>1. /\ current = ch[N] /\ Executed
      /\ \A l \in DOMAIN values : values[l] = StateOf[ch[N - 1]][l]
      /\ \A n \in DOMAIN hashes : hashes[n] = ch[n]
  OBVIOUS
<1>2. values \in [Reads[current] -> Value]
  <2>1. values \in PartialMap(Location, Value)
    BY DEF IInv, TypeOK
  <2> QED
    BY <1>1, <2>1, MapOn DEF Executed
<1>3. hashes \in [HashReads[current] -> Block]
  <2> DEFINE heights == 1..(N - 1)
  <2>1. hashes \in PartialMap(heights, Block)
    BY DEF IInv, TypeOK
  <2> HIDE DEF heights
  <2> QED
    BY <1>1, <2>1, MapOn DEF Executed
<1>4. values = ParentValues(ch)
  BY <1>1, <1>2 DEF ParentValues, Executed
<1>5. hashes = ParentHashes(ch)
  BY <1>1, <1>3 DEF ParentHashes, Executed
<1> QED
  BY <1>2, <1>3, <1>4, <1>5

\* While the chain stays as it is, it agrees.
LEMMA ReadsAreParents ==
  ASSUME IInv, stable, pc \in {"proofs", "ancestors", "guest"}
  PROVE  /\ values = ParentValues(canon)
         /\ hashes = ParentHashes(canon)
         /\ values \in [Reads[current] -> Value]
         /\ hashes \in [HashReads[current] -> Block]
<1>1. /\ canon \in Chains /\ current = canon[N] /\ Executed
      /\ \A l \in DOMAIN values : values[l] = StateOf[canon[N - 1]][l]
      /\ \A n \in DOMAIN hashes : hashes[n] = canon[n]
  BY DEF IInv, TypeOK, ShapeInv, SnapshotInv, Attempting
<1> QED
  BY <1>1, ReadsOfChain

LEMMA InitEstablishes == Init => IInv
<1> SUFFICES ASSUME Init PROVE IInv
  OBVIOUS
<1>1. /\ N \in Nat /\ N >= 2 /\ MaxReorgs \in Nat /\ MaxFaults \in Nat
      /\ MaxRetries \in Nat
  BY ChainsAssumption
<1>2. TypeOK
  <2>1. /\ values \in PartialMap(Location, Value)
        /\ hashes \in PartialMap(1..(N - 1), Block)
        /\ writes \in PartialMap(Location, Value)
        /\ proofs \in PartialMap(Addr, Block)
        /\ afters \in PartialMap(Addr, Block)
    BY EmptyMap DEF Init, Fresh
  <2>2. trie \in PartialTries
    BY EmptyMap DEF Init, Fresh, NoTrie, PartialTries
  <2> QED
    BY <1>1, <2>1, <2>2 DEF Init, Fresh, TypeOK
<1>3. ShapeInv
  BY <1>1, EmptyMap DEF Init, Fresh, ShapeInv, Attempting
<1>4. SnapshotInv /\ VerdictInv
  BY DEF Init, SnapshotInv, VerdictInv, Attempting
<1> QED
  BY <1>2, <1>3, <1>4 DEF IInv

LEMMA FetchCurrentPreserves ==
  ASSUME IInv, FetchCurrent PROVE IInv'
<1> USE DEF FetchCurrent, world, reads, proven
<1>1. canon \in Chains /\ current' \in Block
  BY CanonHas DEF IInv, TypeOK
<1>2. TypeOK'
  BY <1>1 DEF IInv, TypeOK
<1>3. ShapeInv'
  BY <1>1 DEF IInv, ShapeInv, Attempting
<1>4. SnapshotInv'
  BY <1>1, EmptyMap DEF IInv, ShapeInv, SnapshotInv, Attempting
<1>5. VerdictInv'
  BY DEF VerdictInv
<1> QED
  BY <1>2, <1>3, <1>4, <1>5 DEF IInv

LEMMA FetchPreviousPreserves ==
  ASSUME IInv, FetchPrevious PROVE IInv'
<1> USE DEF FetchPrevious, world, reads, proven
<1>1. canon \in Chains /\ previous' \in Block
  BY CanonHas DEF IInv, TypeOK
<1>2. TypeOK'
  BY <1>1 DEF IInv, TypeOK
<1>3. ShapeInv'
  BY <1>1, EmptyMap DEF IInv, ShapeInv, Attempting
<1>4. SnapshotInv'
  BY <1>1 DEF IInv, SnapshotInv, Attempting
<1>5. VerdictInv'
  BY DEF VerdictInv
<1> QED
  BY <1>2, <1>3, <1>4, <1>5 DEF IInv

LEMMA ReadStatePreserves ==
  ASSUME IInv, NEW l \in Location, ReadState(l) PROVE IInv'
<1> USE DEF ReadState, world, blocks, proven
<1> DEFINE v == StateOf[canon[N - 1]][l]
<1>1. canon \in Chains /\ canon[N - 1] \in Block
  BY CanonHas DEF IInv, TypeOK
<1>2. v \in Value
  BY <1>1, ChainAssumption DEF State
<1>3. /\ values' \in PartialMap(Location, Value)
      /\ DOMAIN values' = DOMAIN values \union {l}
      /\ \A x \in DOMAIN values' : values'[x] = IF x = l THEN v ELSE values[x]
  <2>1. values \in PartialMap(Location, Value)
    BY DEF IInv, TypeOK
  <2>2. values' = Put(values, l, v)
    OBVIOUS
  <2>3. /\ Put(values, l, v) \in PartialMap(Location, Value)
        /\ DOMAIN Put(values, l, v) = DOMAIN values \union {l}
        /\ \A x \in DOMAIN Put(values, l, v) :
             Put(values, l, v)[x] = IF x = l THEN v ELSE values[x]
    <3> HIDE DEF ReadState, v
    <3> QED
      BY <2>1, <1>2, PutMap
  <2> QED
    BY <2>2, <2>3
<1>4. TypeOK'
  BY <1>3 DEF IInv, TypeOK
<1>5. ShapeInv'
  BY <1>3 DEF IInv, ShapeInv, Attempting
<1>6. SnapshotInv'
  BY <1>3 DEF IInv, SnapshotInv, Attempting
<1>7. VerdictInv'
  BY DEF VerdictInv
<1> QED
  BY <1>4, <1>5, <1>6, <1>7 DEF IInv

LEMMA ReadHashPreserves ==
  ASSUME IInv, NEW n \in 1..(N - 1), ReadHash(n) PROVE IInv'
<1> USE DEF ReadHash, world, blocks, proven
<1>1. canon \in Chains /\ canon[n] \in Block
  BY CanonHas DEF IInv, TypeOK
<1>2. N \in Nat /\ N >= 2 /\ n \in Nat /\ oldest \in 1..(N - 1)
  BY ChainsAssumption DEF IInv, TypeOK
<1>3. /\ hashes' \in PartialMap(1..(N - 1), Block)
      /\ DOMAIN hashes' = DOMAIN hashes \union {n}
      /\ \A x \in DOMAIN hashes' : hashes'[x] = IF x = n THEN canon[n] ELSE hashes[x]
  <2>1. hashes \in PartialMap(1..(N - 1), Block)
    BY DEF IInv, TypeOK
  <2>2. hashes' = Put(hashes, n, canon[n])
    OBVIOUS
  <2>3. /\ Put(hashes, n, canon[n]) \in PartialMap(1..(N - 1), Block)
        /\ DOMAIN Put(hashes, n, canon[n]) = DOMAIN hashes \union {n}
        /\ \A x \in DOMAIN Put(hashes, n, canon[n]) :
             Put(hashes, n, canon[n])[x] = IF x = n THEN canon[n] ELSE hashes[x]
    <3> DEFINE heights == 1..(N - 1)
               h == canon[n]
               k == n
    <3>1. hashes \in PartialMap(heights, Block) /\ k \in heights /\ h \in Block
      BY <2>1, <1>1
    <3> HIDE DEF heights, h, k, ReadHash
    <3>2. /\ Put(hashes, k, h) \in PartialMap(heights, Block)
          /\ DOMAIN Put(hashes, k, h) = DOMAIN hashes \union {k}
          /\ \A x \in DOMAIN Put(hashes, k, h) :
               Put(hashes, k, h)[x] = IF x = k THEN h ELSE hashes[x]
      BY <3>1, PutMap
    <3> QED
      BY <3>2 DEF heights, h, k
  <2> QED
    BY <2>2, <2>3
<1>4. oldest' \in 1..(N - 1) /\ oldest' <= n /\ oldest' <= oldest
  BY <1>2
<1>5. TypeOK'
  BY <1>3, <1>4 DEF IInv, TypeOK
<1>6. ShapeInv'
  <2>1. \A x \in DOMAIN hashes' : oldest' <= x
    <3> SUFFICES ASSUME NEW x \in DOMAIN hashes' PROVE oldest' <= x
      OBVIOUS
    <3>1. CASE x = n
      BY <3>1, <1>4
    <3>2. CASE x \in DOMAIN hashes
      <4>1. x \in 1..(N - 1) /\ oldest <= x
        BY <3>2 DEF IInv, TypeOK, PartialMap, ShapeInv
      <4> QED
        BY <4>1, <1>2, <1>4
    <3> QED
      BY <3>1, <3>2, <1>3
  <2>2. ancestors' = <<>> /\ Len(ancestors') <= N - oldest'
    BY <1>2, <1>4 DEF IInv, ShapeInv
  <2> QED
    BY <1>3, <2>1, <2>2 DEF IInv, ShapeInv, Attempting
<1>7. SnapshotInv'
  BY <1>3 DEF IInv, SnapshotInv, Attempting
<1>8. VerdictInv'
  BY DEF VerdictInv
<1> QED
  BY <1>5, <1>6, <1>7, <1>8 DEF IInv

\* All reads answered, revm is a function of what was read.
LEMMA ExecutePreserves ==
  ASSUME IInv, Execute PROVE IInv'
<1> USE DEF Execute, world, blocks, reads, proven
<1> DEFINE out == Run(current, values, hashes)
<1>1. /\ current \in Block
      /\ DOMAIN values = Reads[current] /\ DOMAIN hashes = HashReads[current]
  BY DEF IInv, ShapeInv, Attempting
<1>2. values \in [Reads[current] -> Value] /\ hashes \in [HashReads[current] -> Block]
  <2>1. values \in PartialMap(Location, Value)
    BY DEF IInv, TypeOK
  <2>2. hashes \in [HashReads[current] -> Block]
    <3> DEFINE heights == 1..(N - 1)
    <3>1. hashes \in PartialMap(heights, Block)
      BY DEF IInv, TypeOK
    <3> HIDE DEF heights, Execute
    <3> QED
      BY <3>1, <1>1, MapOn
  <2> HIDE DEF Execute
  <2> QED
    BY <2>1, <2>2, <1>1, MapOn
<1>3. writes' \in PartialMap(Location, Value)
  BY <1>1, <1>2, WritesAssumption
<1>4. TypeOK'
  BY <1>3 DEF IInv, TypeOK
<1>5. ShapeInv'
  <2>1. pc' = "proofs" => Executed'
    BY <1>1 DEF Executed
  <2>2. pc' \in {"proofs", "err"}
    OBVIOUS
  <2>3. /\ proofs' = Empty /\ ancestors' = <<>> /\ Len(ancestors') <= N - oldest'
        /\ \A n \in DOMAIN hashes' : oldest' <= n
    BY DEF IInv, ShapeInv
  <2> QED
    BY <1>1, <2>1, <2>2, <2>3, EmptyMap DEF IInv, ShapeInv, Attempting
<1>6. SnapshotInv'
  BY DEF IInv, SnapshotInv, Attempting
<1>7. VerdictInv'
  BY DEF VerdictInv
<1> QED
  BY <1>4, <1>5, <1>6, <1>7 DEF IInv

LEMMA FetchProofPreserves ==
  ASSUME IInv, NEW a \in Addr, FetchProof(a) PROVE IInv'
<1> DEFINE parent == canon[N - 1]
<1>1. canon \in Chains /\ parent \in Block
  BY CanonHas DEF IInv, TypeOK, FetchProof
<1>2. proofs \in PartialMap(Addr, Block) /\ proofs' = Put(proofs, a, parent)
  BY DEF IInv, TypeOK, FetchProof
<1>3. /\ proofs' \in PartialMap(Addr, Block)
      /\ DOMAIN proofs' = DOMAIN proofs \union {a}
      /\ \A x \in DOMAIN proofs' : proofs'[x] = IF x = a THEN parent ELSE proofs[x]
  <2> HIDE DEF parent
  <2>1. /\ Put(proofs, a, parent) \in PartialMap(Addr, Block)
        /\ DOMAIN Put(proofs, a, parent) = DOMAIN proofs \union {a}
        /\ \A x \in DOMAIN Put(proofs, a, parent) :
             Put(proofs, a, parent)[x] = IF x = a THEN parent ELSE proofs[x]
    <3>1. proofs \in PartialMap(Addr, Block) /\ parent \in Block
      BY <1>1, <1>2
    <3> QED
      BY <3>1, PutProof
  <2> QED
    BY <1>2, <2>1
<1> USE DEF FetchProof, world, blocks, reads
<1>4. TypeOK'
  BY <1>3 DEF IInv, TypeOK
<1>5. ShapeInv'
  BY <1>3 DEF IInv, ShapeInv, Executed, Attempting
<1>6. SnapshotInv'
  BY <1>3 DEF IInv, SnapshotInv, Attempting
<1>7. VerdictInv'
  BY DEF VerdictInv
<1> QED
  BY <1>4, <1>5, <1>6, <1>7 DEF IInv

LEMMA FetchAfterProofPreserves ==
  ASSUME IInv, NEW a \in Addr, FetchAfterProof(a) PROVE IInv'
<1> DEFINE child == canon[N]
<1>1. canon \in Chains /\ child \in Block
  BY CanonHas DEF IInv, TypeOK, FetchAfterProof
<1>2. afters \in PartialMap(Addr, Block) /\ afters' = Put(afters, a, child)
  BY DEF IInv, TypeOK, FetchAfterProof
<1>3. /\ afters' \in PartialMap(Addr, Block)
      /\ DOMAIN afters' = DOMAIN afters \union {a}
      /\ \A x \in DOMAIN afters' : afters'[x] = IF x = a THEN child ELSE afters[x]
  <2> HIDE DEF child
  <2>1. /\ Put(afters, a, child) \in PartialMap(Addr, Block)
        /\ DOMAIN Put(afters, a, child) = DOMAIN afters \union {a}
        /\ \A x \in DOMAIN Put(afters, a, child) :
             Put(afters, a, child)[x] = IF x = a THEN child ELSE afters[x]
    <3>1. afters \in PartialMap(Addr, Block) /\ child \in Block
      BY <1>1, <1>2
    <3> QED
      BY <3>1, PutProof
  <2> QED
    BY <1>2, <2>1
<1> USE DEF FetchAfterProof, world, blocks, reads
<1>4. TypeOK'
  BY <1>3 DEF IInv, TypeOK
<1>5. ShapeInv'
  BY <1>3 DEF IInv, ShapeInv, Executed, Attempting
<1>6. SnapshotInv'
  BY <1>3 DEF IInv, SnapshotInv, Attempting
<1>7. VerdictInv'
  BY DEF VerdictInv
<1> QED
  BY <1>4, <1>5, <1>6, <1>7 DEF IInv

\* While the chain stays as it is, the proofs are all for its block N - 1:
\* there is one root, every path is resolved and the update gives the
\* header's state root.
LEMMA StableBuild ==
  ASSUME IInv, BuildState, stable
  PROVE  pc' = "ancestors" /\ trie' = TrieOf(canon)
<1> DEFINE parent == canon[N - 1]
           touched == Touched(current)
<1>1. /\ canon \in Chains /\ N \in DOMAIN canon
      /\ current = canon[N] /\ current \in Block /\ previous = parent
      /\ pc = "proofs" /\ DOMAIN proofs = touched
      /\ \A a \in DOMAIN proofs : proofs[a] = parent
      /\ DOMAIN afters = touched
      /\ \A a \in DOMAIN afters : afters[a] = canon[N]
  BY DEF IInv, TypeOK, SnapshotInv, ShapeInv, Attempting, BuildState,
         ProofsComplete
<1>2. PICK root \in RootNodes, resolved \in SUBSET touched :
        /\ \A a \in touched : ProofResolves(a, root) => a \in resolved
        /\ trie' = [ state |-> root, resolved |-> resolved,
                     storage |-> [a \in touched |->
                                    StateOf[proofs[a]][<<a, "storage">>]] ]
        /\ \/ Changed(writes) \subseteq resolved => ~DeletionsResolved
           \/ pc' = IF Overlay(root, writes) = StateOf[current]
                    THEN "ancestors" ELSE "err"
  BY DEF BuildState
<1>3. root = StateOf[parent]
  BY <1>1, <1>2 DEF RootNodes
<1>4. resolved = touched
  BY <1>1, <1>2, <1>3 DEF ProofResolves
<1>5. trie' = TrieOf(canon)
  <2>1. [a \in touched |-> StateOf[proofs[a]][<<a, "storage">>]]
          = [a \in touched |-> StateOf[parent][<<a, "storage">>]]
    BY <1>1
  <2> QED
    BY <1>1, <1>2, <1>3, <1>4, <2>1 DEF TrieOf
<1>6. values = ParentValues(canon) /\ hashes = ParentHashes(canon)
  BY <1>1, ReadsAreParents
<1>7. /\ Changed(writes) \subseteq touched
      /\ Overlay(StateOf[parent], writes) = StateOf[canon[N]]
  <2>1. writes = Run(current, values, hashes).writes
    BY <1>1 DEF IInv, ShapeInv, Executed
  <2>2. Changed(Run(current, values, hashes).writes) \subseteq touched
    BY <1>1, ReadsAreParents, WritesAssumption
  <2>3. Overlay(StateOf[parent], Run(current, values, hashes).writes) = StateOf[canon[N]]
    BY <1>1, <1>6, CanonValid
  <2> QED
    BY <2>1, <2>2, <2>3
<1>8. DeletionsResolved
  <2>1. Deleted(writes) \subseteq Changed(writes)
    BY DEF Deleted, Changed
  <2> QED
    BY <1>1, <1>7, <2>1 DEF DeletionsResolved
<1> QED
  BY <1>1, <1>2, <1>3, <1>4, <1>5, <1>7, <1>8

LEMMA BuildStatePreserves ==
  ASSUME IInv, BuildState PROVE IInv'
<1> USE DEF world, blocks, reads, proven
<1>1. /\ canon \in Chains /\ current \in Block /\ previous \in Block
      /\ pc = "proofs" /\ DOMAIN proofs = Touched(current)
  BY DEF IInv, TypeOK, ShapeInv, Attempting, BuildState, ProofsComplete
<1>2. PICK root \in RootNodes, resolved \in SUBSET Touched(current) :
        /\ trie' = [ state |-> root, resolved |-> resolved,
                     storage |-> [a \in Touched(current) |->
                                    StateOf[proofs[a]][<<a, "storage">>]] ]
        /\ pc' \in {"panic", "ancestors", "err"}
  BY DEF BuildState
<1>3. UNCHANGED <<world, blocks, reads, writes, proven, ancestors>>
  BY DEF BuildState
<1>4. \A a \in Touched(current) : proofs[a] \in Block
  BY <1>1 DEF IInv, TypeOK, PartialMap
<1>5. trie' \in PartialTries
  <2>1. Touched(current) \subseteq Addr
    BY <1>1, TouchedAddr
  <2>2. root \in State
    BY <1>1, <1>2, <1>4, ChainAssumption DEF RootNodes
  <2>3. \A a \in Touched(current) : StateOf[proofs[a]][<<a, "storage">>] \in Value
    <3> SUFFICES ASSUME NEW a \in Touched(current)
                 PROVE  StateOf[proofs[a]][<<a, "storage">>] \in Value
      OBVIOUS
    <3>1. StateOf[proofs[a]] \in State
      BY <1>4, ChainAssumption
    <3>2. <<a, "storage">> \in Location
      BY <2>1 DEF Location, Part
    <3> QED
      BY <3>1, <3>2 DEF State
  <2> DEFINE storage == [a \in Touched(current) |-> StateOf[proofs[a]][<<a, "storage">>]]
  <2>4. storage \in [Touched(current) -> Value]
    BY <2>3
  <2>5. storage \in PartialMap(Addr, Value)
    BY <2>1, <2>4 DEF PartialMap
  <2>6. resolved \in SUBSET Addr
    BY <1>2, <2>1
  <2> QED
    BY <1>2, <2>2, <2>5, <2>6 DEF PartialTries
<1>6. TypeOK'
  BY <1>2, <1>3, <1>5 DEF IInv, TypeOK
<1>7. ShapeInv'
  BY <1>1, <1>2, <1>3 DEF IInv, ShapeInv, Executed, Attempting
<1>8. SnapshotInv'
  <2> SUFFICES ASSUME stable PROVE SnapshotInv'
    BY <1>3 DEF SnapshotInv
  <2>1. trie' = TrieOf(canon) /\ pc' = "ancestors"
    BY StableBuild
  <2> QED
    BY <1>1, <1>3, <2>1 DEF IInv, SnapshotInv, Attempting, TrieOf
<1>9. VerdictInv'
  BY <1>2 DEF VerdictInv
<1> QED
  BY <1>6, <1>7, <1>8, <1>9 DEF IInv

LEMMA FetchAncestorPreserves ==
  ASSUME IInv, FetchAncestor PROVE IInv'
<1> USE DEF FetchAncestor, world, blocks, reads, proven
<1> DEFINE len == Len(ancestors)
<1>1. /\ canon \in Chains /\ N \in Nat /\ N >= 2 /\ oldest \in 1..(N - 1)
      /\ ancestors \in Seq(Block) /\ len \in Nat
  BY ChainsAssumption DEF IInv, TypeOK
<1>2. /\ NextHeight \in 1..(N - 1) /\ NextHeight = N - (len + 1)
      /\ len + 1 <= N - oldest
  BY <1>1 DEF NextHeight
<1>3. canon[NextHeight] \in Block
  BY <1>1, <1>2, CanonHas
<1>4. /\ ancestors' \in Seq(Block) /\ Len(ancestors') = len + 1
      /\ \A i \in 1..len : ancestors'[i] = ancestors[i]
      /\ ancestors'[len + 1] = canon[N - (len + 1)]
  <2> DEFINE b == canon[NextHeight]
  <2>1. ancestors' = Append(ancestors, b) /\ b = canon[N - (len + 1)] /\ b \in Block
    BY <1>2, <1>3
  <2> HIDE DEF b, FetchAncestor
  <2> QED
    BY <1>1, <2>1
<1>5. TypeOK'
  BY <1>4 DEF IInv, TypeOK
<1>6. ShapeInv'
  <2>1. Len(ancestors') <= N - oldest'
    BY <1>2, <1>4
  <2> QED
    BY <2>1 DEF IInv, ShapeInv, Executed, Attempting
<1>7. SnapshotInv'
  <2>1. ASSUME SnapshotInv, stable
        PROVE  \A i \in 1..Len(ancestors') : ancestors'[i] = canon[N - i]
    <3>1. \A i \in 1..len : ancestors[i] = canon[N - i]
      BY <2>1 DEF SnapshotInv, Attempting
    <3>2. \A i \in 1..(len + 1) : i \in 1..len \/ i = len + 1
      BY <1>1
    <3> QED
      BY <1>4, <3>1, <3>2
  <2> QED
    BY <2>1 DEF IInv, SnapshotInv, Attempting, TrieOf
<1>8. VerdictInv'
  BY DEF VerdictInv
<1> QED
  BY <1>5, <1>6, <1>7, <1>8 DEF IInv

LEMMA ReturnInputPreserves ==
  ASSUME IInv, ReturnInput PROVE IInv'
<1> USE DEF ReturnInput, world, fetched, blocks, reads, proven
<1>1. /\ N \in Nat /\ oldest \in 1..(N - 1) /\ Len(ancestors) \in Nat
  BY ChainsAssumption DEF IInv, TypeOK
<1>2. Len(ancestors') = N - oldest'
  BY <1>1 DEF IInv, ShapeInv, NextHeight
<1>3. TypeOK'
  BY DEF IInv, TypeOK
<1>4. ShapeInv'
  BY <1>2 DEF IInv, ShapeInv, Executed, Attempting
<1>5. SnapshotInv'
  BY DEF IInv, SnapshotInv, Attempting, TrieOf
<1>6. VerdictInv'
  BY DEF VerdictInv
<1> QED
  BY <1>3, <1>4, <1>5, <1>6 DEF IInv

LEMMA RunGuestPreserves ==
  ASSUME IInv, RunGuest PROVE IInv'
<1> USE DEF RunGuest, world, fetched, blocks, reads, proven
<1>1. Input' = Input
  BY DEF Input
<1>2. GuestAccepts(Input)' = GuestAccepts(Input)
  BY <1>1
<1>3. TypeOK' /\ ShapeInv' /\ SnapshotInv'
  BY DEF IInv, TypeOK, ShapeInv, SnapshotInv, Attempting
<1>4. VerdictInv'
  BY <1>2 DEF VerdictInv
<1> QED
  BY <1>3, <1>4 DEF IInv

\* The attempt is over; what it collected stays until the retry.
LEMMA AttemptFails ==
  ASSUME IInv, pc' \in {"err", "failed"}, canon' = canon, reorgs' = reorgs,
         faults' \in 0..MaxFaults, stable' = stable, retries' = retries,
         UNCHANGED fetched
  PROVE  IInv'
<1> USE DEF fetched, blocks, reads, proven
<1>1. TypeOK' /\ ShapeInv' /\ SnapshotInv' /\ VerdictInv'
  BY DEF IInv, TypeOK, ShapeInv, SnapshotInv, VerdictInv, Attempting
<1> QED
  BY <1>1 DEF IInv

LEMMA RetryPreserves ==
  ASSUME IInv, Retry PROVE IInv'
<1>1. /\ N \in Nat /\ N >= 2 /\ retries' \in 0..(MaxRetries + 1)
  BY ChainsAssumption DEF IInv, TypeOK, Retry
<1>2. TypeOK'
  <2>1. /\ values' \in PartialMap(Location, Value)
        /\ hashes' \in PartialMap(1..(N - 1), Block)
        /\ writes' \in PartialMap(Location, Value)
        /\ proofs' \in PartialMap(Addr, Block)
        /\ afters' \in PartialMap(Addr, Block)
    BY EmptyMap DEF Retry
  <2>2. trie' \in PartialTries
    BY EmptyMap DEF Retry, NoTrie, PartialTries
  <2> QED
    BY <1>1, <2>1, <2>2 DEF IInv, TypeOK, Retry
<1>3. ShapeInv'
  BY <1>1, EmptyMap DEF Retry, ShapeInv, Attempting
<1>4. SnapshotInv' /\ VerdictInv'
  BY DEF Retry, SnapshotInv, VerdictInv, Attempting
<1> QED
  BY <1>2, <1>3, <1>4 DEF IInv

LEMMA ReorgPreserves ==
  ASSUME IInv, Reorg PROVE IInv'
<1> USE DEF Reorg, fetched, blocks, reads, proven
<1>1. reorgs' \in 0..MaxReorgs
  BY ChainsAssumption DEF IInv, TypeOK
<1>2. TypeOK'
  <2>1. canon' \in Chains
    OBVIOUS
  <2>2. UNCHANGED <<faults, retries, pc, current, previous, values, hashes, oldest, writes,
                    proofs, afters, trie, ancestors>> /\ stable' \in BOOLEAN
    OBVIOUS
  <2> HIDE DEF Reorg
  <2> QED
    BY <1>1, <2>1, <2>2 DEF IInv, TypeOK
<1>3. ShapeInv' /\ SnapshotInv'
  BY DEF IInv, ShapeInv, SnapshotInv, Executed, Attempting
<1>4. VerdictInv'
  <2>1. Input' = Input
    BY DEF Input
  <2> QED
    BY <2>1 DEF IInv, VerdictInv
<1> QED
  BY <1>2, <1>3, <1>4 DEF IInv

LEMMA NextPreserves == IInv /\ [Next]_vars => IInv'
<1> SUFFICES ASSUME IInv, [Next]_vars PROVE IInv'
  OBVIOUS
<1>1. faults \in 0..MaxFaults /\ MaxFaults \in Nat
  BY ChainsAssumption DEF IInv, TypeOK
<1>2. CASE FetchCurrent
  BY <1>2, FetchCurrentPreserves
<1>3. CASE FetchPrevious
  BY <1>3, FetchPreviousPreserves
<1>4. CASE MissingBlock
  BY <1>1, <1>4, AttemptFails DEF MissingBlock, world
<1>5. ASSUME NEW l \in Location, ReadState(l) PROVE IInv'
  BY <1>5, ReadStatePreserves
<1>6. ASSUME NEW n \in 1..(N - 1), ReadHash(n) PROVE IInv'
  BY <1>6, ReadHashPreserves
<1>7. CASE Execute
  BY <1>7, ExecutePreserves
<1>8. ASSUME NEW a \in Addr, FetchProof(a) \/ FetchAfterProof(a) PROVE IInv'
  BY <1>8, FetchProofPreserves, FetchAfterProofPreserves
<1>9. CASE StateMismatch
  BY <1>1, <1>9, AttemptFails DEF StateMismatch, world
<1>10. CASE BuildState
  BY <1>10, BuildStatePreserves
<1>11. CASE FetchAncestor
  BY <1>11, FetchAncestorPreserves
<1>12. CASE ReturnInput
  BY <1>12, ReturnInputPreserves
<1>13. CASE RunGuest
  BY <1>13, RunGuestPreserves
<1>14. CASE Retry
  BY <1>14, RetryPreserves
<1>15. CASE RpcFault
  <2>1. faults' \in 0..MaxFaults
    BY <1>1, <1>15 DEF RpcFault
  <2> QED
    BY <1>15, <2>1, AttemptFails DEF RpcFault
<1>16. CASE Reorg
  BY <1>16, ReorgPreserves
<1>17. CASE GiveUp
  BY <1>1, <1>17, AttemptFails DEF GiveUp, world
<1>18. CASE UNCHANGED vars
  <2>1. Input' = Input
    BY <1>18 DEF vars, fetched, blocks, reads, proven, Input
  <2>2. VerdictInv'
    BY <1>18, <2>1 DEF IInv, VerdictInv, vars
  <2>3. TypeOK' /\ ShapeInv' /\ SnapshotInv'
    BY <1>18 DEF IInv, TypeOK, ShapeInv, SnapshotInv, Executed, Attempting,
       vars, world, fetched, blocks, reads, proven
  <2> QED
    BY <2>2, <2>3 DEF IInv
<1> QED
  BY <1>2, <1>3, <1>4, <1>5, <1>6, <1>7, <1>8, <1>9, <1>10, <1>11, <1>12, <1>13,
     <1>14, <1>15, <1>16, <1>17, <1>18 DEF Next, Step, Ended

LEMMA Inductive == Spec => []IInv
<1> QED
  BY InitEstablishes, NextPreserves, PTL DEF Spec

-----------------------------------------------------------------------------
(* Inputs of one chain *)

\* The guest accepts a block with the tries of its parent and the ancestors
\* down to the oldest hash read, when it was executed on the parent's data.
LEMMA SnapshotAccepted ==
  ASSUME IInv, NEW ch \in Chains, N \in DOMAIN ch, current = ch[N], Executed,
         \A l \in DOMAIN values : values[l] = StateOf[ch[N - 1]][l],
         \A n \in DOMAIN hashes : hashes[n] = ch[n],
         trie = TrieOf(ch),
         Len(ancestors) = N - oldest,
         \A i \in 1..Len(ancestors) : ancestors[i] = ch[N - i]
  PROVE  GuestAccepts(Input)
<1> DEFINE parent == ch[N - 1]
           touched == Touched(current)
           len == Len(ancestors)
<1>1. /\ N \in Nat /\ N >= 2 /\ oldest \in 1..(N - 1)
      /\ ancestors \in Seq(Block) /\ len = N - oldest
      /\ \A i \in 1..len : ancestors[i] = ch[N - i]
      /\ current = ch[N] /\ current \in Block
  BY ChainsAssumption, ChainHas DEF IInv, TypeOK
<1>2. /\ Input.current = current /\ Input.ancestors = ancestors
      /\ Input.state = StateOf[parent]
      /\ Input.resolved = touched
      /\ Input.storage = [a \in touched |-> StateOf[parent][<<a, "storage">>]]
  BY <1>1 DEF Input, TrieOf
<1>3. len \in Nat /\ len >= 1 /\ \A i \in 1..len : N - i \in 1..(N - 1)
  BY <1>1
<1>4. /\ DOMAIN ch = 1..Len(ch) /\ Len(ch) \in Nat
      /\ \A n \in 1..Len(ch) : Number[ch[n]] = n
      /\ \A n \in 2..Len(ch) : Parent[ch[n]] = ch[n - 1]
  <2>1. DOMAIN ch = 1..Len(ch) /\ Len(ch) \in Nat
    BY <1>1, ChainHas
  <2>2. /\ \A n \in 1..Len(ch) : Number[ch[n]] = n
        /\ \A n \in 2..Len(ch) : Parent[ch[n]] = ch[n - 1]
    <3>1. ch \in Chains
      BY <1>1
    <3> QED
      BY <3>1, ChainsAssumption
  <2> QED
    BY <2>1, <2>2
<1>5. StateAnchored(Input)
  <2>1. ancestors # <<>> /\ ancestors[1] = parent
    BY <1>1, <1>3
  <2> QED
    BY <1>2, <2>1 DEF StateAnchored
<1>6. StorageAnchored(Input)
  BY <1>2 DEF StorageAnchored
<1>7. \A i \in 1..len : SealedHeaders(Input)[i] = ch[N + 1 - i]
                       /\ SealedHeaders(Input)[i + 1] = ch[N - i]
  <2>1. \A i \in 1..len : SealedHeaders(Input)[i + 1] = ch[N - i]
    <3>1. \A i \in 1..Len(Input.ancestors) :
            SealedHeaders(Input)[i + 1] = Input.ancestors[i]
      BY <1>1, <1>2, SealedAt
    <3> QED
      BY <1>1, <1>2, <3>1
  <2>2. SealedHeaders(Input)[1] = ch[N]
    BY <1>1, <1>2, SealedAt
  <2>3. ASSUME NEW i \in 1..len PROVE SealedHeaders(Input)[i] = ch[N + 1 - i]
    <3>1. CASE i = 1
      BY <1>1, <2>2, <3>1
    <3>2. CASE i # 1
      <4>1. i - 1 \in 1..len /\ (i - 1) + 1 = i /\ N - (i - 1) = N + 1 - i
        BY <1>1, <1>3, <3>2
      <4>2. SealedHeaders(Input)[(i - 1) + 1] = ch[N - (i - 1)]
        BY <2>1, <4>1
      <4> QED
        BY <4>1, <4>2
    <3> QED
      BY <3>1, <3>2
  <2> QED
    BY <2>1, <2>3
<1>8. HeadersLinked(Input)
  <2> SUFFICES ASSUME NEW i \in 1..len
               PROVE  /\ Number[ch[N - i]] = Number[ch[N + 1 - i]] - 1
                      /\ ch[N - i] = Parent[ch[N + 1 - i]]
    BY <1>2, <1>7 DEF HeadersLinked
  <2>1. N - i \in 1..Len(ch) /\ N + 1 - i \in 2..Len(ch)
    BY <1>1, <1>3, <1>4
  <2>2. Number[ch[N - i]] = N - i /\ Number[ch[N + 1 - i]] = N + 1 - i
    BY <1>4, <2>1
  <2>3. Parent[ch[N + 1 - i]] = ch[(N + 1 - i) - 1] /\ (N + 1 - i) - 1 = N - i
    BY <1>1, <1>4, <2>1
  <2> QED
    BY <1>1, <2>2, <2>3
<1>9. \A i \in 1..len : Number[ancestors[i]] = N - i
  BY <1>1, <1>3, <1>4
<1>10. ASSUME NEW n \in HashReads[current]
       PROVE  n \in HashNumbers(Input) /\ HashOf(Input, n) = ch[n]
  <2>1. n \in 1..(N - 1) /\ oldest <= n
    BY <1>1, ChainValid DEF IInv, ShapeInv, Executed
  <2>2. N - n \in 1..len /\ Number[ancestors[N - n]] = n
    BY <1>1, <1>9, <2>1
  <2>3. n \in HashNumbers(Input)
    BY <1>2, <2>2 DEF HashNumbers
  <2> DEFINE i == CHOOSE j \in 1..len : Number[ancestors[j]] = n
  <2>4. i \in 1..len /\ Number[ancestors[i]] = n
    BY <2>2
  <2>5. i = N - n
    <3>1. Number[ancestors[i]] = N - i
      BY <1>9, <2>4
    <3> QED
      BY <1>1, <2>1, <2>4, <3>1
  <2>6. ancestors[i] = ch[n]
    <3>1. ancestors[i] = ch[N - i] /\ N - (N - n) = n
      BY <1>1, <2>1, <2>4
    <3> QED
      BY <2>5, <3>1
  <2>7. HashOf(Input, n) = ancestors[i]
    BY <1>2 DEF HashOf
  <2> QED
    BY <2>3, <2>6, <2>7
<1>11. Readable(Input)
  <2>1. ASSUME NEW l \in Reads[current], l[2] = "code"
        PROVE  Input.state[l] \in Input.codes
    <3>1. l \in DOMAIN values /\ values[l] = StateOf[parent][l]
      BY DEF Executed
    <3>2. Input.codes = {values[k] : k \in {j \in DOMAIN values : j[2] = "code"}}
      BY DEF Input
    <3> QED
      BY <1>2, <2>1, <3>1, <3>2
  <2> QED
    BY <1>2, <1>10, <2>1 DEF Readable
<1>12. GuestRun(Input) = Run(current, ParentValues(ch), ParentHashes(ch))
  <2>1. [l \in Reads[current] |->
           IF l[2] = "storage" THEN Input.storage[l[1]] ELSE Input.state[l]]
        = ParentValues(ch)
    <3>1. ASSUME NEW l \in Reads[current]
          PROVE  (IF l[2] = "storage" THEN Input.storage[l[1]] ELSE Input.state[l])
                   = StateOf[parent][l]
      <4>1. PICK a \in Addr, part \in Part : l = <<a, part>>
        BY <1>1, TouchedAddr DEF Location
      <4>2. a \in touched
        BY <4>1 DEF Touched
      <4> QED
        BY <1>2, <4>1, <4>2
    <3> QED
      BY <1>1, <3>1 DEF ParentValues
  <2>2. [n \in HashReads[current] |-> HashOf(Input, n)] = ParentHashes(ch)
    BY <1>1, <1>10 DEF ParentHashes
  <2> QED
    BY <1>2, <2>1, <2>2 DEF GuestRun
<1>13. RunsToHeader(Input)
  <2> DEFINE out == Run(current, ParentValues(ch), ParentHashes(ch))
  <2>1. Changed(out.writes) \subseteq touched
    BY <1>1, ReadsOfChain, WritesAssumption
  <2>2. out.receipts = Receipts[current] /\ Overlay(StateOf[parent], out.writes) = StateOf[current]
    BY <1>1, ChainValid
  <2> QED
    BY <1>2, <1>12, <2>1, <2>2 DEF RunsToHeader
<1> QED
  BY <1>5, <1>6, <1>8, <1>11, <1>13 DEF GuestAccepts

\* On a chain that does not move the guest accepts what the host returns.
LEMMA StableInputAccepted ==
  ASSUME IInv, stable, pc = "guest"
  PROVE  GuestAccepts(Input)
<1>1. /\ canon \in Chains /\ N \in DOMAIN canon /\ current = canon[N] /\ Executed
      /\ \A l \in DOMAIN values : values[l] = StateOf[canon[N - 1]][l]
      /\ \A n \in DOMAIN hashes : hashes[n] = canon[n]
      /\ trie = TrieOf(canon)
      /\ Len(ancestors) = N - oldest
      /\ \A i \in 1..Len(ancestors) : ancestors[i] = canon[N - i]
  BY DEF IInv, TypeOK, ShapeInv, SnapshotInv, Attempting
<1> QED
  BY <1>1, SnapshotAccepted

-----------------------------------------------------------------------------
(* The theorems *)

\* HostExecutor::execute keeps its types, whatever the provider serves.
THEOREM TypeCorrect == Spec => []TypeOK
<1>1. IInv => TypeOK
  BY DEF IInv
<1> QED
  BY <1>1, Inductive, PTL

\* On a chain that does not move, and while no call fails, the host neither
\* errs nor panics and the guest accepts its input: the reads, the proofs and
\* the ancestors it collects are all the guest needs, for every block.
THEOREM StableAttempts == Spec => StableAttemptSucceeds
<1> DEFINE Bad == {"err", "panic", "rejected"}
           Goal == stable /\ N \in DOMAIN canon /\ faults' = faults
                     => (pc' \in Bad => pc' = pc)
<1>1. IInv /\ [Next]_vars => [Goal]_vars
  <2> SUFFICES ASSUME IInv, Next, stable, N \in DOMAIN canon, faults' = faults
               PROVE  pc' \in Bad => pc' = pc
    OBVIOUS
  <2>1. canon \in Chains /\ faults \in Nat
    BY ChainsAssumption DEF IInv, TypeOK
  <2>2. CASE Execute
    <3>1. /\ current = canon[N] /\ DOMAIN values = Reads[current]
          /\ DOMAIN hashes = HashReads[current]
      BY <2>2 DEF Execute, IInv, ShapeInv, SnapshotInv, Attempting
    <3>2. values = ParentValues(canon) /\ hashes = ParentHashes(canon)
      <4>1. /\ \A l \in DOMAIN values : values[l] = StateOf[canon[N - 1]][l]
            /\ \A n \in DOMAIN hashes : hashes[n] = canon[n]
            /\ values \in [DOMAIN values -> Value] /\ hashes \in [DOMAIN hashes -> Block]
        BY <2>2 DEF Execute, IInv, TypeOK, PartialMap, SnapshotInv, Attempting
      <4> QED
        BY <3>1, <4>1 DEF ParentValues, ParentHashes
    <3>3. Run(current, values, hashes).receipts = Receipts[current]
      BY <2>1, <3>1, <3>2, CanonValid
    <3> QED
      BY <2>2, <3>3 DEF Execute
  <2>3. CASE StateMismatch
    <3>1. \A root \in RootNodes : root = StateOf[previous]
      BY <2>3 DEF StateMismatch, RootNodes, IInv, SnapshotInv, Attempting
    <3> QED
      BY <2>3, <3>1 DEF StateMismatch, Anchors
  <2>4. CASE BuildState
    BY <2>4, StableBuild
  <2>5. CASE RunGuest
    BY <2>5, StableInputAccepted DEF RunGuest
  <2>6. CASE \/ FetchCurrent \/ FetchPrevious \/ MissingBlock
             \/ FetchAncestor \/ ReturnInput \/ Retry \/ GiveUp
    BY <2>6 DEF FetchCurrent, FetchPrevious, MissingBlock, FetchAncestor,
                ReturnInput, Retry, GiveUp
  <2>7. CASE \/ \E l \in Location : ReadState(l)
             \/ \E n \in 1..(N - 1) : ReadHash(n)
             \/ \E a \in Addr : FetchProof(a) \/ FetchAfterProof(a)
    BY <2>7 DEF ReadState, ReadHash, FetchProof, FetchAfterProof
  <2>8. CASE Reorg \/ Ended
    BY <2>8 DEF Reorg, Ended, vars
  <2>9. CASE RpcFault
    BY <2>1, <2>9 DEF RpcFault
  <2> QED
    BY <2>2, <2>3, <2>4, <2>5, <2>6, <2>7, <2>8, <2>9 DEF Next, Step
<1> QED
  BY <1>1, Inductive, PTL DEF Spec, StableAttemptSucceeds

-----------------------------------------------------------------------------
(* An accepted input is one chain *)

\* The header ancestor i is checked against, and the check.
Below(i) == IF i = 1 THEN current ELSE ancestors[i - 1]

Link(i) == ancestors[i] = Parent[Below(i)]

\* On whatever chain block N was fetched from: as long as the links hold from
\* the block down, the ancestors are those of that chain.
AncestryInv ==
  \A ch \in Chains : \A j \in 1..Len(ancestors) :
    /\ N \in DOMAIN ch /\ ch[N] = current
    /\ \A i \in 1..j : Link(i)
    => ancestors[j] = ch[N - j]

\* Block N was fetched from some chain.
OriginInv ==
  current # NoBlock => \E ch \in Chains : N \in DOMAIN ch /\ ch[N] = current

\* The host returns an input only after its own state root comparison.
RootInv ==
  pc \in {"ancestors", "guest", "accepted"} =>
    /\ current \in Block
    /\ Overlay(trie.state, writes) = StateOf[current]

OneChainInv == AncestryInv /\ OriginInv /\ RootInv

\* What a chain says about the ancestor at a height.
LEMMA ChainLink ==
  ASSUME NEW ch \in Chains, N \in DOMAIN ch, NEW j \in Nat, j < N - 1
  PROVE  Parent[ch[N - j]] = ch[N - (j + 1)]
<1>1. /\ ch \in Seq(Block) /\ \A n \in 2..Len(ch) : Parent[ch[n]] = ch[n - 1]
      /\ N \in Nat
  BY ChainsAssumption
<1>2. N - j \in 2..Len(ch) /\ (N - j) - 1 = N - (j + 1)
  BY <1>1
<1> QED
  BY <1>1, <1>2

\* A header more keeps the ancestry.
LEMMA AncestryGrows ==
  ASSUME IInv, AncestryInv, FetchAncestor
  PROVE  AncestryInv'
<1> DEFINE len == Len(ancestors)
<1>1. /\ ancestors \in Seq(Block) /\ len \in Nat /\ current' = current
      /\ N \in Nat /\ oldest \in 1..(N - 1) /\ N - 1 - len >= oldest
  BY ChainsAssumption DEF IInv, TypeOK, FetchAncestor, NextHeight, blocks
<1>2. /\ Len(ancestors') = len + 1
      /\ \A i \in 1..len : ancestors'[i] = ancestors[i]
  BY <1>1 DEF FetchAncestor
<1> SUFFICES ASSUME NEW ch \in Chains, NEW j \in 1..(len + 1),
                    N \in DOMAIN ch, ch[N] = current, \A i \in 1..j : Link(i)'
             PROVE  ancestors'[j] = ch[N - j]
  BY <1>1, <1>2 DEF AncestryInv
<1>3. ASSUME NEW i \in 1..len, i <= j PROVE Link(i)
  <2>1. Link(i)'
    BY <1>3
  <2>2. i = 1 \/ i - 1 \in 1..len
    BY <1>1
  <2> QED
    BY <1>1, <1>2, <2>1, <2>2 DEF Link, Below
<1>4. \A k \in 1..len : k <= j => ancestors[k] = ch[N - k]
  <2> SUFFICES ASSUME NEW k \in 1..len, k <= j PROVE ancestors[k] = ch[N - k]
    OBVIOUS
  <2>1. \A i \in 1..k : Link(i)
    BY <1>1, <1>3
  <2> QED
    BY <2>1 DEF AncestryInv
<1>5. CASE j \in 1..len
  BY <1>2, <1>4, <1>5
<1>6. CASE j = len + 1
  <2>1. ancestors'[j] = Parent[IF j = 1 THEN current ELSE ancestors'[j - 1]]
    BY <1>1, <1>6 DEF Link, Below
  <2>2. (IF j = 1 THEN current ELSE ancestors'[j - 1]) = ch[N - len]
    <3>1. CASE len = 0
      BY <1>1, <1>6, <3>1
    <3>2. CASE len # 0
      BY <1>1, <1>2, <1>4, <1>6, <3>2
    <3> QED
      BY <3>1, <3>2
  <2>3. Parent[ch[N - len]] = ch[N - (len + 1)]
    BY <1>1, ChainLink
  <2> QED
    BY <1>6, <2>1, <2>2, <2>3
<1> QED
  BY <1>1, <1>5, <1>6

\* No header is there yet, or none was added.
LEMMA AncestryStays ==
  ASSUME AncestryInv, ancestors' = <<>> \/ UNCHANGED <<current, ancestors>>
  PROVE  AncestryInv'
BY DEF AncestryInv, Link, Below

LEMMA OneChainInit == Init => OneChainInv
BY DEF Init, Fresh, OneChainInv, AncestryInv, OriginInv, RootInv

LEMMA OneChainStep == IInv /\ OneChainInv /\ [Next]_vars => OneChainInv'
<1> SUFFICES ASSUME IInv, OneChainInv, [Next]_vars PROVE OneChainInv'
  OBVIOUS
<1> USE DEF OneChainInv
<1>1. CASE FetchCurrent
  <2>1. ancestors' = <<>>
    BY <1>1 DEF FetchCurrent, IInv, ShapeInv
  <2>2. OriginInv'
    BY <1>1 DEF FetchCurrent, IInv, TypeOK, OriginInv
  <2>3. RootInv'
    BY <1>1 DEF FetchCurrent, RootInv
  <2> QED
    BY <2>1, <2>2, <2>3, AncestryStays
<1>2. CASE BuildState
  <2>1. UNCHANGED <<current, ancestors>> /\ writes' = writes
    BY <1>2 DEF BuildState, blocks
  <2>2. OriginInv'
    BY <2>1 DEF OriginInv
  <2>3. RootInv'
    <3>1. current \in Block
      BY <1>2 DEF BuildState, IInv, ShapeInv, Attempting
    <3> QED
      BY <1>2, <2>1, <3>1 DEF BuildState, RootInv
  <2> QED
    BY <2>1, <2>2, <2>3, AncestryStays
<1>3. CASE FetchAncestor
  <2>1. UNCHANGED <<pc, current, writes, trie>>
    BY <1>3 DEF FetchAncestor, blocks
  <2> QED
    BY <1>3, <2>1, AncestryGrows DEF OriginInv, RootInv
<1>4. CASE Retry
  BY <1>4, AncestryStays DEF Retry, OriginInv, RootInv
<1>5. ASSUME UNCHANGED <<current, ancestors>>,
             pc' \notin {"ancestors", "guest", "accepted"}
      PROVE  OneChainInv'
  BY <1>5, AncestryStays DEF OriginInv, RootInv
<1>6. ASSUME UNCHANGED <<current, ancestors, writes, trie>>,
             pc' = pc \/ pc \in {"ancestors", "guest"}
      PROVE  OneChainInv'
  BY <1>6, AncestryStays DEF OriginInv, RootInv
<1>7. CASE FetchPrevious \/ MissingBlock \/ Execute \/ StateMismatch \/ GiveUp
  BY <1>5, <1>7 DEF FetchPrevious, MissingBlock, Execute, StateMismatch, GiveUp,
                    fetched, blocks
<1>8. CASE \/ \E l \in Location : ReadState(l)
           \/ \E n \in 1..(N - 1) : ReadHash(n)
           \/ \E a \in Addr : FetchProof(a) \/ FetchAfterProof(a)
  BY <1>6, <1>8 DEF ReadState, ReadHash, FetchProof, FetchAfterProof, blocks
<1>9. CASE ReturnInput \/ RunGuest \/ Reorg \/ Ended \/ UNCHANGED vars
  BY <1>6, <1>9 DEF ReturnInput, RunGuest, Reorg, Ended, vars, fetched, blocks
<1>10. CASE RpcFault
  BY <1>5, <1>10 DEF RpcFault, fetched, blocks
<1> QED
  BY <1>1, <1>2, <1>3, <1>4, <1>7, <1>8, <1>9, <1>10 DEF Next, Step

\* An input the guest accepts is a snapshot of one chain of the network: its
\* block, the block's ancestors without a gap and the parent's state, even
\* when every call of the host was answered from another fork.
THEOREM AcceptedOneChain == Spec => []AcceptedIsOneChain
<1>1. IInv /\ OneChainInv => AcceptedIsOneChain
  <2> SUFFICES ASSUME IInv, OneChainInv, pc = "accepted" PROVE AcceptedIsOneChain
    BY DEF AcceptedIsOneChain
  <2> DEFINE len == Len(ancestors)
  <2>1. GuestAccepts(Input) /\ ancestors \in Seq(Block)
    BY DEF IInv, VerdictInv, TypeOK
  <2>2. Input.current = current /\ Input.ancestors = ancestors /\ Input.state = trie.state
    BY DEF Input
  <2>3. /\ Parent[current] = ancestors[1]
        /\ \A i \in 1..(len - 1) : Parent[ancestors[i]] = ancestors[i + 1]
        /\ trie.state = StateOf[Parent[current]]
    BY <2>1, <2>2, GuestLinks
  <2>4. len \in Nat /\ len >= 1
    BY <2>1, <2>2 DEF GuestAccepts, StateAnchored
  <2>5. \A i \in 1..len : Link(i)
    <3> SUFFICES ASSUME NEW i \in 1..len PROVE Link(i)
      OBVIOUS
    <3>1. CASE i = 1
      BY <2>3, <3>1 DEF Link, Below
    <3>2. CASE i # 1
      <4>1. i - 1 \in 1..(len - 1) /\ (i - 1) + 1 = i
        BY <2>4, <3>2
      <4>2. Parent[ancestors[i - 1]] = ancestors[(i - 1) + 1]
        BY <2>3, <4>1
      <4> QED
        BY <3>2, <4>1, <4>2 DEF Link, Below
    <3> QED
      BY <3>1, <3>2
  <2>6. PICK ch \in Chains : N \in DOMAIN ch /\ ch[N] = current
    BY ChainsAssumption DEF OneChainInv, OriginInv, RootInv
  <2>7. \A j \in 1..len : ancestors[j] = ch[N - j]
    <3> SUFFICES ASSUME NEW j \in 1..len PROVE ancestors[j] = ch[N - j]
      OBVIOUS
    <3>1. \A i \in 1..j : Link(i)
      BY <2>4, <2>5
    <3> QED
      BY <2>6, <3>1 DEF OneChainInv, AncestryInv
  <2>8. ch \in Seq(Block) /\ Len(ch) >= N
    BY <2>6, ChainsAssumption
  <2>9. ancestors[1] = ch[N - 1]
    BY <2>4, <2>7
  <2>10. trie.state = StateOf[ch[N - 1]]
    BY <2>3, <2>9
  <2>11. Overlay(StateOf[ch[N - 1]], writes) = StateOf[ch[N]]
    BY <2>6, <2>10 DEF OneChainInv, RootInv
  <2>12. DOMAIN ancestors = 1..len
    BY <2>1
  <2> QED
    BY <2>6, <2>7, <2>8, <2>10, <2>11, <2>12 DEF AcceptedIsOneChain
<1>2. IInv /\ OneChainInv /\ [Next]_vars => OneChainInv'
  BY OneChainStep
<1> QED
  BY <1>1, <1>2, Inductive, OneChainInit, PTL DEF Spec

-----------------------------------------------------------------------------
(* A rejected input is torn *)

\* What the host's update of the state leaves in the input: the trie of the
\* parent block's root, resolved where the proofs are for that root, and the
\* storage tries of the proofs.
BuiltInv ==
  pc \in {"ancestors", "guest", "rejected"} =>
    /\ Executed
    /\ DOMAIN proofs = Touched(current)
    /\ trie.state = StateOf[previous]
    /\ trie.resolved \subseteq Touched(current)
    /\ \A a \in Touched(current) :
         StateOf[proofs[a]] = trie.state => a \in trie.resolved
    /\ trie.storage = [a \in Touched(current) |->
                         StateOf[proofs[a]][<<a, "storage">>]]

\* The guest has rejected the input that is still there.
RejectionInv ==
  pc = "rejected" => Len(ancestors) = N - oldest /\ ~GuestAccepts(Input)

TornInv == BuiltInv /\ RejectionInv

\* A trie built from answers of one chain is that of its block N - 1.
LEMMA BuiltTrie ==
  ASSUME IInv, BuiltInv, pc = "rejected", NEW ch \in Chains, AnsweredAsBy(ch)
  PROVE  trie = TrieOf(ch)
<1> DEFINE parent == ch[N - 1]
           touched == Touched(current)
<1>1. /\ current = ch[N] /\ StateOf[previous] = StateOf[parent]
      /\ \A a \in DOMAIN proofs : StateOf[proofs[a]] = StateOf[parent]
  BY DEF AnsweredAsBy
<1>2. /\ DOMAIN proofs = touched
      /\ trie.state = StateOf[previous] /\ trie.resolved \subseteq touched
      /\ \A a \in touched : StateOf[proofs[a]] = trie.state => a \in trie.resolved
      /\ trie.storage = [a \in touched |-> StateOf[proofs[a]][<<a, "storage">>]]
  BY DEF BuiltInv
<1>3. trie.state = StateOf[parent] /\ trie.resolved = touched
  BY <1>1, <1>2
<1>4. trie.storage = [a \in touched |-> StateOf[parent][<<a, "storage">>]]
  BY <1>1, <1>2
<1>5. trie = [state |-> trie.state, resolved |-> trie.resolved, storage |-> trie.storage]
  BY DEF IInv, TypeOK, PartialTries
<1> QED
  BY <1>1, <1>3, <1>4, <1>5 DEF TrieOf

LEMMA BuildEstablishes ==
  ASSUME IInv, BuildState
  PROVE  TornInv'
<1>1. /\ pc = "proofs" /\ DOMAIN proofs = Touched(current) /\ Executed
  BY DEF IInv, ShapeInv, BuildState, ProofsComplete
<1>2. PICK root \in RootNodes, resolved \in SUBSET Touched(current) :
        /\ Anchors(root)
        /\ \A a \in Touched(current) : ProofResolves(a, root) => a \in resolved
        /\ trie' = [ state |-> root, resolved |-> resolved,
                     storage |-> [a \in Touched(current) |->
                                    StateOf[proofs[a]][<<a, "storage">>]] ]
        /\ pc' \in {"panic", "ancestors", "err"}
  BY DEF BuildState
<1>3. UNCHANGED <<current, previous, values, hashes, writes, proofs>>
  BY DEF BuildState, blocks, reads, proven
<1>4. /\ trie'.state = StateOf[previous]
      /\ trie'.resolved = resolved
      /\ trie'.storage = [a \in Touched(current) |->
                            StateOf[proofs[a]][<<a, "storage">>]]
  BY <1>2 DEF Anchors
<1>5. \A a \in Touched(current) :
        StateOf[proofs[a]] = trie'.state => a \in trie'.resolved
  BY <1>2, <1>4 DEF ProofResolves, Anchors
<1>6. Executed'
  BY <1>1, <1>3 DEF Executed
<1>7. BuiltInv'
  BY <1>1, <1>2, <1>3, <1>4, <1>5, <1>6 DEF BuiltInv
<1>8. RejectionInv'
  BY <1>2 DEF RejectionInv
<1> QED
  BY <1>7, <1>8 DEF TornInv

LEMMA TornStep == IInv /\ TornInv /\ [Next]_vars => TornInv'
<1> SUFFICES ASSUME IInv, TornInv, [Next]_vars PROVE TornInv'
  OBVIOUS
<1> USE DEF TornInv
<1>1. CASE BuildState
  BY <1>1, BuildEstablishes
<1>2. ASSUME UNCHANGED <<current, previous, values, hashes, writes, proofs, trie>>,
             pc' = pc \/ pc \in {"ancestors", "guest"}
      PROVE  BuiltInv'
  BY <1>2 DEF BuiltInv, Executed
<1>3. ASSUME pc' \notin {"ancestors", "guest", "rejected"}
      PROVE  TornInv'
  BY <1>3 DEF BuiltInv, RejectionInv
<1>4. CASE RunGuest
  <2>1. BuiltInv'
    BY <1>2, <1>4 DEF RunGuest, fetched, blocks, reads, proven
  <2>2. Input' = Input
    BY <1>4 DEF RunGuest, fetched, blocks, reads, proven, Input
  <2>3. pc' = "rejected" => ~GuestAccepts(Input)'
    BY <1>4, <2>2 DEF RunGuest
  <2>4. Len(ancestors') = N - oldest'
    BY <1>4 DEF RunGuest, fetched, reads, IInv, ShapeInv
  <2> QED
    BY <2>1, <2>3, <2>4 DEF RejectionInv
<1>5. CASE FetchAncestor \/ ReturnInput
  <2>1. BuiltInv'
    BY <1>2, <1>5 DEF FetchAncestor, ReturnInput, fetched, blocks, reads, proven
  <2>2. RejectionInv'
    BY <1>5 DEF FetchAncestor, ReturnInput, RejectionInv
  <2> QED
    BY <2>1, <2>2
<1>6. CASE Reorg \/ UNCHANGED vars
  <2>1. pc' = pc /\ UNCHANGED fetched
    BY <1>6 DEF Reorg, vars
  <2>2. BuiltInv'
    BY <1>2, <2>1 DEF fetched, blocks, reads, proven
  <2>3. Input' = Input /\ UNCHANGED <<ancestors, oldest>>
    BY <2>1 DEF fetched, blocks, reads, proven, Input
  <2> QED
    BY <2>1, <2>2, <2>3 DEF RejectionInv
<1>7. CASE \/ FetchCurrent \/ FetchPrevious \/ MissingBlock \/ Execute
           \/ StateMismatch \/ RpcFault \/ Retry \/ GiveUp
  BY <1>3, <1>7 DEF FetchCurrent, FetchPrevious, MissingBlock, Execute,
                    StateMismatch, RpcFault, Retry, GiveUp
<1>8. CASE \/ \E l \in Location : ReadState(l)
           \/ \E n \in 1..(N - 1) : ReadHash(n)
           \/ \E a \in Addr : FetchProof(a) \/ FetchAfterProof(a)
  BY <1>3, <1>8 DEF ReadState, ReadHash, FetchProof, FetchAfterProof
<1> QED
  BY <1>1, <1>4, <1>5, <1>6, <1>7, <1>8 DEF Next, Step, Ended

\* The guest rejects an input of the host only if no chain gives all the
\* answers it was made of: the checks the host leaves to the guest fail on
\* torn inputs alone, for every chain, block and execution function.
THEOREM RejectedTorn == Spec => []RejectedIsTorn
<1>1. IInv /\ TornInv => RejectedIsTorn
  <2> SUFFICES ASSUME IInv, TornInv, pc = "rejected",
                      NEW ch \in Chains, AnsweredAsBy(ch)
               PROVE  FALSE
    BY DEF RejectedIsTorn
  <2>1. Executed /\ Len(ancestors) = N - oldest /\ ~GuestAccepts(Input)
    BY DEF TornInv, BuiltInv, RejectionInv
  <2>2. trie = TrieOf(ch)
    BY BuiltTrie DEF TornInv
  <2>3. DOMAIN ancestors = 1..Len(ancestors)
    BY DEF IInv, TypeOK
  <2>4. GuestAccepts(Input)
    BY <2>1, <2>2, <2>3, SnapshotAccepted DEF AnsweredAsBy
  <2> QED
    BY <2>1, <2>4
<1>2. Init => TornInv
  BY DEF Init, TornInv, BuiltInv, RejectionInv
<1>3. IInv /\ TornInv /\ [Next]_vars => TornInv'
  BY TornStep
<1> QED
  BY <1>1, <1>2, <1>3, Inductive, PTL DEF Spec
=============================================================================
