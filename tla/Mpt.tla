-------------------------------- MODULE Mpt --------------------------------
(***************************************************************************)
(* mpt.rs: the sparse Merkle Patricia trie.  A trie is the function from   *)
(* the path of each of its nodes to the data of the node; the children of  *)
(* a branch are the nodes one nibble further, and the child of an          *)
(* extension is the node at the end of its nibbles, so that where the code *)
(* walks down from the root, the node it comes to is, of those on the way, *)
(* the one with the longest path that is a prefix of the key.  The empty   *)
(* function is the trie that is Null.  Some nodes have their reference     *)
(* cached.                                                                 *)
(*                                                                         *)
(* The hash of an encoding is taken for injective, so the reference of a   *)
(* node is the trie below it with nothing left unresolved, and a digest is *)
(* what it is the digest of.  A leaf shorter than 32 bytes is referenced   *)
(* by its bytes: it stands in its parent and is decoded with it.  With     *)
(* hashed keys that is a leaf of a small value deep in a large storage     *)
(* trie; an extension or a branch is never that short.                     *)
(*                                                                         *)
(* Keys are sequences of nibbles, all of one length (to_nibs of a hash).   *)
(***************************************************************************)
EXTENDS Integers, Sequences, FiniteSets, SequencesExt

CONSTANT ShortLeafs  \* the leaves of less than 32 bytes: their length and value

\* A leaf that is short is so with fewer nibbles, too.
ASSUME ShortLeafsAssumption ==
  \A l \in ShortLeafs : l[1] \in Nat /\ \A i \in 0..l[1] : <<i, l[2]>> \in ShortLeafs

(* Paths *)

Nibble == 0..15
Path == Seq(Nibble)

\* The compact encoding of nibbles: a flag byte with the parity, and bytes.
ToEncodedPath(nibs, isLeaf) ==
  LET odd == Len(nibs) % 2
      flag == (IF isLeaf THEN 32 ELSE 0) + (IF odd = 1 THEN 16 + nibs[1] ELSE 0)
  IN  <<flag>> \o [i \in 1..(Len(nibs) \div 2) |->
                     16 * nibs[2 * i - 1 + odd] + nibs[2 * i + odd]]

PrefixNibs(prefix) ==
  LET tail == [i \in 1..(2 * (Len(prefix) - 1)) |->
                 IF i % 2 = 1 THEN prefix[(i + 3) \div 2] \div 16
                              ELSE prefix[(i + 2) \div 2] % 16]
  IN  IF (prefix[1] \div 16) % 2 = 1 THEN <<prefix[1] % 16>> \o tail ELSE tail

Drop(nibs, n) == SubSeq(nibs, n + 1, Len(nibs))

Lcp(a, b) ==
  CHOOSE n \in 0..Len(a) :
    /\ IsPrefix(SubSeq(a, 1, n), b)
    /\ n < Len(a) /\ n < Len(b) => a[n + 1] # b[n + 1]

-----------------------------------------------------------------------------
(* Nodes *)

Leaf(nibs, value) ==
  [type |-> "leaf", prefix |-> ToEncodedPath(nibs, TRUE), value |-> value]
Extension(nibs) == [type |-> "extension", prefix |-> ToEncodedPath(nibs, FALSE)]
Branch == [type |-> "branch"]
Digest(encoding) == [type |-> "digest", digest |-> encoding]

\* The nibbles of a leaf or an extension.
Nibs(d) == PrefixNibs(d.prefix)

EmptyRoot == [p \in {} |-> Branch]

\* A trie of these nodes, none of which has computed its reference.
Trie(nodes) == [nodes |-> nodes, cached |-> EmptyRoot]
Null == Trie(EmptyRoot)

With(f, i, x) == [j \in DOMAIN f \union {i} |-> IF j = i THEN x ELSE f[j]]
Without(f, S) == [j \in DOMAIN f \ S |-> f[j]]

\* The nodes from p on, by their paths from there.
Below(f, p) ==
  [q \in {Drop(r, Len(p)) : r \in {s \in DOMAIN f : IsPrefix(p, s)}} |-> f[p \o q]]

\* The nodes, with these references in place of those they are references of.
Expand(nodes, refs) ==
  LET first == {p \in DOMAIN refs : \A q \in DOMAIN refs : ~IsStrictPrefix(q, p)}
      open == {p \in DOMAIN nodes : \A q \in DOMAIN refs : ~IsPrefix(q, p)}
  IN  [r \in open \union UNION {{p \o q : q \in DOMAIN refs[p]} : p \in first} |->
         IF r \in open THEN nodes[r]
         ELSE LET p == CHOOSE q \in first : IsPrefix(q, r)
              IN  refs[p][Drop(r, Len(p))]]

Unresolved(nodes) == {p \in DOMAIN nodes : nodes[p].type = "digest"}

\* The cached reference of a node wins.
References(n) ==
  [p \in DOMAIN n.cached \union Unresolved(n.nodes) |->
     IF p \in DOMAIN n.cached THEN n.cached[p] ELSE n.nodes[p].digest]

Reference(n) == Expand(n.nodes, References(n))

\* The trie once hash has been called: its nodes have a cache.
Hashed(n) ==
  LET reached == {p \in DOMAIN n.nodes : \A q \in DOMAIN n.cached : ~IsPrefix(q, p)}
  IN  [nodes |-> n.nodes,
       cached |-> [p \in DOMAIN n.cached \union reached |->
                     IF p \in DOMAIN n.cached THEN n.cached[p] ELSE Below(Reference(n), p)]]

\* A reference by bytes.
Embedded(encoding) ==
  /\ DOMAIN encoding = {<<>>}
  /\ encoding[<<>>].type = "leaf"
  /\ <<Len(Nibs(encoding[<<>>])), encoding[<<>>].value>> \in ShortLeafs

NodeFromDigest(digest) ==
  Trie(IF digest = EmptyRoot THEN EmptyRoot ELSE [p \in {<<>>} |-> Digest(digest)])

IsNode(d) ==
  CASE d.type = "leaf" -> Nibs(d) \in Path /\ d = Leaf(Nibs(d), d.value)
    [] d.type = "extension" -> Nibs(d) \in Path \ {<<>>} /\ d = Extension(Nibs(d))
    [] d.type = "branch" -> d = Branch
    [] OTHER -> d = Digest(d.digest)

\* A leaf or a digest ends a path, an extension leads to a branch or a digest,
\* and a branch has two children.
IsPlaced(f, p, len) ==
  LET d == f[p]
      below == {q \in DOMAIN f : IsStrictPrefix(p, q)}
      child == p \o Nibs(d)
  IN  \/ d.type = "digest" /\ below = {}
      \/ d.type = "leaf" /\ below = {} /\ Len(child) = len
      \/ /\ d.type = "extension"
         /\ child \in below /\ f[child].type \in {"branch", "digest"}
         /\ \A q \in below : IsPrefix(child, q)
      \/ /\ d.type = "branch"
         /\ \A q \in below : \E r \in below : Len(r) = Len(p) + 1 /\ IsPrefix(r, q)
         /\ \E q, r \in below : Len(q) = Len(p) + 1 /\ Len(r) = Len(p) + 1 /\ q # r

\* What mpt.rs takes for granted of the nodes of keys of this length.
Shape(f, len) ==
  /\ f # EmptyRoot => <<>> \in DOMAIN f
  /\ \A p \in DOMAIN f :
       p \in Path /\ Len(p) <= len /\ IsNode(f[p]) /\ IsPlaced(f, p, len)

WellFormed(n, len) == Shape(n.nodes, len) /\ DOMAIN n.cached \subseteq DOMAIN n.nodes

-----------------------------------------------------------------------------
(* Lookup *)

\* The nodes on the way to a key; an extension leads only to its child.
Way(f, nibs) ==
  {p \in DOMAIN f :
     /\ IsPrefix(p, nibs)
     /\ \A q \in DOMAIN f : IsStrictPrefix(q, p) /\ f[q].type = "extension" =>
          LET child == q \o Nibs(f[q]) IN child \in DOMAIN f /\ IsPrefix(child, p)}

\* The last of them, by its path.
End(f, nibs) ==
  CHOOSE p \in Way(f, nibs) : \A q \in Way(f, nibs) : Len(q) <= Len(p)

Found(v) == [resolved |-> TRUE, value |-> {v}]
Absent == [resolved |-> TRUE, value |-> {}]
NodeNotResolved == [resolved |-> FALSE, value |-> {}]

GetInternal(n, nibs) ==
  LET p == End(n.nodes, nibs)
      d == n.nodes[p]
  IN  IF n.nodes = EmptyRoot THEN Absent
      ELSE IF d.type = "digest" THEN NodeNotResolved
      ELSE IF d.type = "leaf" /\ Nibs(d) = Drop(nibs, Len(p)) THEN Found(d.value)
      ELSE Absent

\* The leaves that are resolved, as pairs of key and value.
Leaves(n) ==
  {<<p \o Nibs(n.nodes[p]), n.nodes[p].value>> :
     p \in {q \in DOMAIN n.nodes : n.nodes[q].type = "leaf"}}

-----------------------------------------------------------------------------
(* Deletion and insertion return the error, if any, and the trie.           *)

Unchanged(n) == [error |-> "none", trie |-> n]
Error(n, e) == [error |-> e, trie |-> n]

\* The mutant keeps the cached references on the way to the change.
MutChanged(n, nibs, nodes) ==
  [error |-> "none",
   trie |-> [nodes |-> nodes,
             cached |-> [p \in DOMAIN n.cached \intersect DOMAIN nodes |-> n.cached[p]]]]

\* A change of the node of a key drops the references on the way to it.
Changed(n, nibs, nodes) ==
  [error |-> "none",
   trie |-> [nodes |-> nodes,
             cached |-> Without(n.cached,
                          {p \in DOMAIN n.cached : IsPrefix(p, nibs) \/ p \notin DOMAIN nodes})]]

\* The mutant drops the nibbles of the extension that is merged.
MutExtend(nibs, d) ==
  CASE d.type = "leaf" -> Leaf(nibs \o Nibs(d), d.value)
    [] OTHER -> Extension(nibs)

\* A leaf or an extension with these nibbles before its own, or an extension
\* to a branch or to a node that is not resolved.
Extend(nibs, d) ==
  CASE d.type = "leaf" -> Leaf(nibs \o Nibs(d), d.value)
    [] d.type = "extension" -> Extension(nibs \o Nibs(d))
    [] OTHER -> Extension(nibs)

\* The orphan takes the place of the branch it is left alone in, or that of
\* the extension to the branch.
Collapse(f, branch, orphan) ==
  LET isAbove(p) == f[p].type = "extension" /\ p \o Nibs(f[p]) = branch
      top == IF \E p \in DOMAIN f : isAbove(p) THEN CHOOSE p \in DOMAIN f : isAbove(p)
             ELSE branch
      gone == {branch} \union {p \in {orphan} : f[p].type \in {"leaf", "extension"}}
  IN  With(Without(f, gone), top, Extend(Drop(orphan, Len(top)), f[orphan]))

\* The nodes without a leaf.  Its parent is a branch, as an extension can only
\* point to a branch or a digest.
RemoveLeaf(f, leaf) ==
  LET remaining == {p \in DOMAIN f : Len(p) = Len(leaf) /\ IsPrefix(Front(leaf), p)} \ {leaf}
  IN  IF leaf = <<>> THEN EmptyRoot
      ELSE IF \E p \in remaining : remaining = {p}
      THEN Collapse(Without(f, {leaf}), Front(leaf), CHOOSE p \in remaining : TRUE)
      ELSE Without(f, {leaf})

DeleteInternal(n, nibs) ==
  LET p == End(n.nodes, nibs)
      d == n.nodes[p]
      rest == Drop(nibs, Len(p))
  IN  IF n.nodes = EmptyRoot THEN Unchanged(n)
      ELSE CASE d.type = "digest" -> Error(n, "NodeNotResolved")
             [] d.type = "branch" /\ rest = <<>> -> Error(n, "ValueInBranch")
             [] d.type = "leaf" /\ Nibs(d) = rest -> Changed(n, nibs, RemoveLeaf(n.nodes, p))
             [] OTHER -> Unchanged(n)

\* A branch where the key leaves the nibbles of the leaf or extension at p, with
\* what is left of that and a new leaf; above it an extension by the nibbles
\* they have in common.
Split(f, p, nibs, value) ==
  LET own == Nibs(f[p])
      common == Lcp(own, Drop(nibs, Len(p)))
      branch == p \o SubSeq(own, 1, common)
      old == Append(branch, own[common + 1])
      new == Append(branch, nibs[Len(branch) + 1])
      rest == Drop(own, common + 1)
      forked == With(With(f, branch, Branch), new, Leaf(Drop(nibs, Len(new)), value))
      moved == CASE f[p].type = "leaf" -> With(forked, old, Leaf(rest, f[p].value))
                 [] f[p].type = "extension" /\ rest # <<>> -> With(forked, old, Extension(rest))
                 [] OTHER -> forked
  IN  IF common = 0 THEN moved ELSE With(moved, p, Extension(SubSeq(own, 1, common)))

InsertInternal(n, nibs, value) ==
  LET f == n.nodes
      p == End(f, nibs)
      d == f[p]
      own == Nibs(d)
      rest == Drop(nibs, Len(p))
  IN  IF f = EmptyRoot THEN Changed(n, nibs, With(f, <<>>, Leaf(nibs, value)))
      ELSE CASE d.type = "digest" -> Error(n, "NodeNotResolved")
             [] d.type = "branch" ->
                  IF rest = <<>> THEN Error(n, "ValueInBranch")
                  ELSE Changed(n, nibs, With(f, Append(p, rest[1]), Leaf(Tail(rest), value)))
             [] d.type = "leaf" /\ own = rest ->
                  IF d.value = value THEN Unchanged(n)
                  ELSE Changed(n, nibs, With(f, p, Leaf(own, value)))
             [] OTHER ->
                  IF Lcp(own, rest) \in {Len(own), Len(rest)} THEN Error(n, "ValueInBranch")
                  ELSE Changed(n, nibs, Split(f, p, nibs, value))

-----------------------------------------------------------------------------
(* Proofs and tries.  A store of nodes by reference is the set of the       *)
(* references, since a stored node is decoded from its own.                 *)

\* The mutant takes what stands in the parent for a digest.
MutIsStored(encoding, store) == encoding \in store

\* A node that is stored, or is decoded with its parent.
IsStored(encoding, store) == encoding \in store \/ Embedded(encoding)

\* The mutant stops at an extension.
MutResolved(root, store) ==
  {p \in DOMAIN root :
     \A q \in DOMAIN root : IsPrefix(q, p) =>
       /\ q # <<>> => IsStored(Below(root, q), store)
       /\ q # p => root[q].type # "extension"}

\* The paths of the nodes that are found from the root on.
Resolved(root, store) ==
  {p \in DOMAIN root :
     \A q \in DOMAIN root \ {<<>>} : IsPrefix(q, p) => IsStored(Below(root, q), store)}

\* The trie of a root node, where the children that are not found are digests.
ResolveNodes(root, store) ==
  LET resolved == Resolved(root, store)
      digests == {p \in DOMAIN root \ resolved :
                    \A q \in DOMAIN root : IsStrictPrefix(q, p) => q \in resolved}
  IN  Trie([p \in resolved \union digests |->
              IF p \in resolved THEN root[p] ELSE Digest(Below(root, p))])

\* The nodes from a root towards a key; an embedded leaf is in its parent.
ProofPaths(root, nibs) ==
  {p \in DOMAIN root : IsPrefix(p, nibs) /\ (p = <<>> \/ ~Embedded(Below(root, p)))}

Proof(root, nibs) == {Below(root, p) : p \in ProofPaths(root, nibs)}

\* The trie of a proof, each node linked to the one before.
MptFromProof(root, nibs) == ResolveNodes(root, Proof(root, nibs))

IsNotIncluded(root, nibs) == GetInternal(MptFromProof(root, nibs), nibs).value = {}

\* The nodes a leaf or an extension may have been before its path was extended.
\* (An extension without nibbles, which the code also makes, is no node.)
ShortenNodePath(encoding) ==
  LET d == encoding[<<>>]
      nibs == Nibs(d)
  IN  CASE d.type = "leaf" ->
             {[p \in {<<>>} |-> Leaf(Drop(nibs, i), d.value)] : i \in 0..Len(nibs)}
        [] d.type = "extension" ->
             {With(Below(encoding, SubSeq(nibs, 1, i)), <<>>, Extension(Drop(nibs, i))) :
                i \in 0..(Len(nibs) - 1)}
        [] OTHER -> {}

\* The last node of a proof that the key is not there, in all its lengths.
OrphanedLeafs(root, nibs) ==
  IF root # EmptyRoot /\ IsNotIncluded(root, nibs)
  THEN ShortenNodePath(Below(root,
         CHOOSE p \in ProofPaths(root, nibs) :
           \A q \in ProofPaths(root, nibs) : Len(q) <= Len(p)))
  ELSE {}

-----------------------------------------------------------------------------
(* The network's tries: the reference the code's are compared with, and     *)
(* what proofs and witnesses are taken from.                                *)

\* Where keys part.
Forks(keys) ==
  {SubSeq(pair[1], 1, Lcp(pair[1], pair[2])) : pair \in {kl \in keys \X keys : kl[1] # kl[2]}}

\* Where the leaf of a key, or the extension or branch of a fork, starts: one
\* nibble after the last fork before it.
Start(keys, p) ==
  LET before == {q \in Forks(keys) : IsStrictPrefix(q, p)}
  IN  IF before = {} THEN <<>>
      ELSE SubSeq(p, 1, 1 + Len(CHOOSE q \in before : \A r \in before : Len(r) <= Len(q)))

\* The trie of a map from keys to values.
Canonical(map) ==
  LET keys == DOMAIN map
      ends == Forks(keys) \union keys
      node(p) == LET end == CHOOSE e \in ends : Start(keys, e) = p
                 IN  IF end \in keys THEN Leaf(Drop(end, Len(p)), map[end])
                     ELSE Extension(Drop(end, Len(p)))
  IN  [p \in Forks(keys) \union {Start(keys, e) : e \in ends} |->
         IF p \in Forks(keys) THEN Branch ELSE node(p)]
=============================================================================
