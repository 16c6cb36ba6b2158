----------------------------- MODULE MptProofs -----------------------------
(***************************************************************************)
(* Theorems about the operations on a trie: lookup, insertion, deletion    *)
(* and resolving, for all tries, keys and values.                          *)
(***************************************************************************)
EXTENDS PathProofs

(* Nodes *)

\* The kinds of nodes: a leaf,
LEMMA LeafIs ==
  ASSUME NEW nibs \in Path, NEW v
  PROVE  /\ IsNode(Leaf(nibs, v)) /\ Leaf(nibs, v).type = "leaf"
         /\ Nibs(Leaf(nibs, v)) = nibs /\ Leaf(nibs, v).value = v
<1>1. Leaf(nibs, v).type = "leaf" /\ Leaf(nibs, v).value = v
  BY DEF Leaf
<1>. QED  BY <1>1, NibsOf DEF IsNode

\* an extension,
LEMMA ExtensionIs ==
  ASSUME NEW nibs \in Path, nibs # <<>>
  PROVE  /\ IsNode(Extension(nibs)) /\ Extension(nibs).type = "extension"
         /\ Nibs(Extension(nibs)) = nibs
<1>1. Extension(nibs).type = "extension"
  BY DEF Extension
<1>. QED  BY <1>1, NibsOf DEF IsNode

\* a branch,
LEMMA BranchIs == IsNode(Branch) /\ Branch.type = "branch"
BY DEF IsNode, Branch

\* and a digest.
LEMMA DigestIs ==
  ASSUME NEW e
  PROVE  IsNode(Digest(e)) /\ Digest(e).type = "digest" /\ Digest(e).digest = e
BY DEF IsNode, Digest

\* A node is of one kind, and is what was made of that kind.
LEMMA NodeType ==
  ASSUME NEW d, IsNode(d)
  PROVE  /\ d.type \in {"leaf", "extension", "branch", "digest"}
         /\ d.type \in {"leaf", "extension"} => Nibs(d) \in Path
         /\ d.type = "extension" => Nibs(d) # <<>>
         /\ d.type = "leaf" => d = Leaf(Nibs(d), d.value)
         /\ d.type = "extension" => d = Extension(Nibs(d))
         /\ d.type = "branch" => d = Branch
         /\ d.type = "digest" => d = Digest(d.digest)
<1>1. CASE d.type = "leaf"
  BY <1>1 DEF IsNode
<1>2. CASE d.type = "extension"
  BY <1>2 DEF IsNode
<1>3. CASE d.type = "branch"
  BY <1>3 DEF IsNode
<1>4. CASE d.type \notin {"leaf", "extension", "branch"}
  <2>1. d = Digest(d.digest)
    BY <1>4 DEF IsNode
  <2>2. d.type = "digest"
    BY <2>1, DigestIs
  <2>. QED  BY <2>1, <2>2
<1>. QED  BY <1>1, <1>2, <1>3, <1>4

-----------------------------------------------------------------------------
(* The shape of a trie *)

\* What the shape says of a node, by its type.
LEMMA PlacedIs ==
  ASSUME NEW f, NEW len \in Nat, Shape(f, len), NEW p \in DOMAIN f
  PROVE  /\ p \in Path /\ Len(p) \in Nat /\ Len(p) <= len /\ IsNode(f[p])
         /\ f[p].type \in {"leaf", "extension", "branch", "digest"}
         /\ f[p].type \in {"leaf", "digest"} =>
              \A q \in DOMAIN f : IsPrefix(p, q) => q = p
         /\ f[p].type = "leaf" =>
              Nibs(f[p]) \in Path /\ p \o Nibs(f[p]) \in Path /\ Len(p \o Nibs(f[p])) = len
         /\ f[p].type = "extension" =>
              LET child == p \o Nibs(f[p])
              IN  /\ Nibs(f[p]) \in Path /\ Nibs(f[p]) # <<>>
                  /\ child \in DOMAIN f /\ child # p /\ IsPrefix(p, child)
                  /\ f[child].type \in {"branch", "digest"}
                  /\ \A q \in DOMAIN f : IsPrefix(p, q) /\ q # p => IsPrefix(child, q)
         /\ f[p].type = "branch" =>
              /\ \A q \in DOMAIN f : IsPrefix(p, q) /\ q # p =>
                   \E r \in DOMAIN f : /\ IsPrefix(p, r) /\ Len(r) = Len(p) + 1
                                       /\ IsPrefix(r, q)
              /\ \E q, r \in DOMAIN f : /\ IsPrefix(p, q) /\ IsPrefix(p, r)
                                        /\ Len(q) = Len(p) + 1 /\ Len(r) = Len(p) + 1
                                        /\ q # r
<1>1. p \in Path /\ Len(p) <= len /\ IsNode(f[p]) /\ IsPlaced(f, p, len)
  BY DEF Shape
<1>2. Len(p) \in Nat
  BY <1>1, PathLen
<1>3. /\ f[p].type \in {"leaf", "extension", "branch", "digest"}
      /\ f[p].type \in {"leaf", "extension"} => Nibs(f[p]) \in Path
      /\ f[p].type = "extension" => Nibs(f[p]) # <<>>
  BY <1>1, NodeType
<1> DEFINE below == {q \in DOMAIN f : IsStrictPrefix(p, q)}
           child == p \o Nibs(f[p])
<1>4. \A q \in DOMAIN f : q \in below <=> IsPrefix(p, q) /\ q # p
  BY DEF IsStrictPrefix
<1>5. f[p].type \in {"leaf", "extension"} => child \in Path
  BY <1>1, <1>3, Joined
<1>6. CASE f[p].type = "digest"
  BY <1>1, <1>2, <1>3, <1>4, <1>6 DEF IsPlaced
<1>7. CASE f[p].type = "leaf"
  BY <1>1, <1>2, <1>3, <1>4, <1>5, <1>7 DEF IsPlaced
<1>8. CASE f[p].type = "extension"
  <2>1. /\ child \in below /\ f[child].type \in {"branch", "digest"}
        /\ \A q \in below : IsPrefix(child, q)
    BY <1>1, <1>8 DEF IsPlaced
  <2> HIDE DEF child
  <2>2. /\ child \in DOMAIN f /\ child # p /\ IsPrefix(p, child)
        /\ \A q \in DOMAIN f : IsPrefix(p, q) /\ q # p => IsPrefix(child, q)
    BY <2>1, <1>4
  <2>. QED  BY <1>1, <1>2, <1>3, <1>8, <2>1, <2>2 DEF child
<1>9. CASE f[p].type = "branch"
  <2>1. /\ \A q \in below : \E r \in below : Len(r) = Len(p) + 1 /\ IsPrefix(r, q)
        /\ \E q, r \in below : Len(q) = Len(p) + 1 /\ Len(r) = Len(p) + 1 /\ q # r
    BY <1>1, <1>9 DEF IsPlaced
  <2> HIDE DEF below
  <2>2. below \subseteq DOMAIN f
    BY DEF below
  <2>. QED  BY <1>1, <1>2, <1>3, <1>4, <1>9, <2>1, <2>2
<1>. QED  BY <1>3, <1>6, <1>7, <1>8, <1>9

\* Conversely, what is to be shown of a node.
LEMMA MakePlaced ==
  ASSUME NEW f, NEW len, NEW p \in DOMAIN f,
         \/ /\ f[p].type = "digest"
            /\ \A q \in DOMAIN f : IsPrefix(p, q) => q = p
         \/ /\ f[p].type = "leaf" /\ Len(p \o Nibs(f[p])) = len
            /\ \A q \in DOMAIN f : IsPrefix(p, q) => q = p
         \/ /\ f[p].type = "extension"
            /\ LET child == p \o Nibs(f[p])
               IN  /\ child \in DOMAIN f /\ child # p /\ IsPrefix(p, child)
                   /\ f[child].type \in {"branch", "digest"}
                   /\ \A q \in DOMAIN f : IsPrefix(p, q) /\ q # p => IsPrefix(child, q)
         \/ /\ f[p].type = "branch"
            /\ \A q \in DOMAIN f : IsPrefix(p, q) /\ q # p =>
                 \E r \in DOMAIN f : /\ IsPrefix(p, r) /\ r # p /\ Len(r) = Len(p) + 1
                                     /\ IsPrefix(r, q)
            /\ \E q, r \in DOMAIN f : /\ IsPrefix(p, q) /\ IsPrefix(p, r) /\ q # p /\ r # p
                                      /\ Len(q) = Len(p) + 1 /\ Len(r) = Len(p) + 1
                                      /\ q # r
  PROVE  IsPlaced(f, p, len)
<1> DEFINE below == {q \in DOMAIN f : IsStrictPrefix(p, q)}
           child == p \o Nibs(f[p])
<1>1. \A q : q \in below <=> q \in DOMAIN f /\ IsPrefix(p, q) /\ q # p
  BY DEF IsStrictPrefix
<1> HIDE DEF below
<1>2. CASE /\ f[p].type \in {"leaf", "digest"}
           /\ \A q \in DOMAIN f : IsPrefix(p, q) => q = p
           /\ f[p].type = "leaf" => Len(child) = len
  <2>1. below = {}
    BY <1>1, <1>2
  <2>. QED  BY <1>2, <2>1 DEF IsPlaced, below
<1>3. CASE /\ f[p].type = "extension"
           /\ child \in DOMAIN f /\ child # p /\ IsPrefix(p, child)
           /\ f[child].type \in {"branch", "digest"}
           /\ \A q \in DOMAIN f : IsPrefix(p, q) /\ q # p => IsPrefix(child, q)
  <2> HIDE DEF child
  <2>1. child \in below /\ \A q \in below : IsPrefix(child, q)
    BY <1>1, <1>3
  <2>. QED  BY <1>3, <2>1 DEF IsPlaced, below, child
<1>4. CASE /\ f[p].type = "branch"
           /\ \A q \in DOMAIN f : IsPrefix(p, q) /\ q # p =>
                \E r \in DOMAIN f : /\ IsPrefix(p, r) /\ r # p /\ Len(r) = Len(p) + 1
                                    /\ IsPrefix(r, q)
           /\ \E q, r \in DOMAIN f : /\ IsPrefix(p, q) /\ IsPrefix(p, r) /\ q # p /\ r # p
                                     /\ Len(q) = Len(p) + 1 /\ Len(r) = Len(p) + 1
                                     /\ q # r
  <2>1. \A q \in below : \E r \in below : Len(r) = Len(p) + 1 /\ IsPrefix(r, q)
    BY <1>1, <1>4
  <2>2. \E q, r \in below : Len(q) = Len(p) + 1 /\ Len(r) = Len(p) + 1 /\ q # r
    BY <1>1, <1>4
  <2>. QED  BY <1>4, <2>1, <2>2 DEF IsPlaced, below
<1>. QED  BY <1>2, <1>3, <1>4

\* A node but the root has a parent: a branch one nibble before it, or an
\* extension that leads to it.
LEMMA Parent ==
  ASSUME NEW f, NEW len \in Nat, Shape(f, len), NEW p \in DOMAIN f, p # <<>>
  PROVE  \E s \in DOMAIN f :
           /\ IsPrefix(s, p) /\ s # p
           /\ \/ f[s].type = "branch" /\ Len(p) = Len(s) + 1
              \/ f[s].type = "extension" /\ p = s \o Nibs(f[s])
<1> DEFINE S == {Len(q) : q \in {r \in DOMAIN f : IsPrefix(r, p) /\ r # p}}
<1>1. p \in Path /\ <<>> \in DOMAIN f
  BY PlacedIs DEF Shape, EmptyRoot
<1>2. S # {}
  BY <1>1, EmptyIsPrefix
<1>3. S \subseteq 0..len
  BY PlacedIs
<1>4. PICK n \in S : \A m \in S : m <= n
  <2> HIDE DEF S
  <2>. QED  BY <1>2, <1>3, GreatestNat
<1>5. PICK s \in DOMAIN f : IsPrefix(s, p) /\ s # p /\ Len(s) = n
  BY <1>4
<1>6. \A q \in DOMAIN f : IsPrefix(q, p) /\ q # p => Len(q) <= Len(s)
  BY <1>4, <1>5
<1>7. s \in Path /\ f[s].type \in {"leaf", "extension", "branch", "digest"}
  BY PlacedIs
<1>8. CASE f[s].type \in {"leaf", "digest"}
  BY <1>5, <1>8, PlacedIs
<1>9. CASE f[s].type = "branch"
  <2>1. PICK r \in DOMAIN f : IsPrefix(s, r) /\ Len(r) = Len(s) + 1 /\ IsPrefix(r, p)
    BY <1>5, <1>9, PlacedIs
  <2>2. r = p
    BY <1>6, <1>7, <2>1, PathLen
  <2>. QED  BY <1>5, <1>9, <2>1, <2>2
<1>10. CASE f[s].type = "extension"
  <2> DEFINE child == s \o Nibs(f[s])
  <2>1. child \in DOMAIN f /\ child # s /\ IsPrefix(s, child) /\ IsPrefix(child, p)
    BY <1>5, <1>10, PlacedIs
  <2> HIDE DEF child
  <2>2. child \in Path
    BY <2>1, PlacedIs
  <2>3. child = p
    BY <1>6, <1>7, <2>1, <2>2, PrefixSameLen
  <2>. QED  BY <1>5, <1>10, <2>3 DEF child
<1>. QED  BY <1>7, <1>8, <1>9, <1>10

-----------------------------------------------------------------------------
(* Lookup *)

\* The nodes on the way to a key are those at its prefixes.
LEMMA WayIs ==
  ASSUME NEW f, NEW len \in Nat, Shape(f, len), NEW nibs \in Path
  PROVE  Way(f, nibs) = {p \in DOMAIN f : IsPrefix(p, nibs)}
<1>1. ASSUME NEW p \in DOMAIN f, IsPrefix(p, nibs),
             NEW q \in DOMAIN f, IsStrictPrefix(q, p), f[q].type = "extension"
      PROVE  LET child == q \o Nibs(f[q]) IN child \in DOMAIN f /\ IsPrefix(child, p)
  BY <1>1, PlacedIs DEF IsStrictPrefix
<1>. QED  BY <1>1 DEF Way

\* The node a key ends at is the last of them.
LEMMA EndIs ==
  ASSUME NEW f, NEW len \in Nat, Shape(f, len), f # EmptyRoot, NEW nibs \in Path
  PROVE  /\ End(f, nibs) \in DOMAIN f
         /\ IsPrefix(End(f, nibs), nibs)
         /\ \A q \in DOMAIN f : IsPrefix(q, nibs) => IsPrefix(q, End(f, nibs))
<1> DEFINE S == {Len(q) : q \in Way(f, nibs)}
<1>1. Way(f, nibs) = {p \in DOMAIN f : IsPrefix(p, nibs)}
  BY WayIs
<1>2. <<>> \in Way(f, nibs)
  BY <1>1, EmptyIsPrefix DEF Shape
<1>3. S # {} /\ S \subseteq 0..len
  <2>1. \A q \in DOMAIN f : Len(q) \in Nat /\ Len(q) <= len
    BY PlacedIs
  <2>2. \A q \in Way(f, nibs) : Len(q) \in 0..len
    BY <1>1, <2>1
  <2>. QED  BY <1>2, <2>2
<1>4. PICK n \in S : \A m \in S : m <= n
  <2> HIDE DEF S
  <2>. QED  BY <1>3, GreatestNat
<1>5. \E p \in Way(f, nibs) : \A q \in Way(f, nibs) : Len(q) <= Len(p)
  BY <1>4
<1>6. /\ End(f, nibs) \in Way(f, nibs)
      /\ \A q \in Way(f, nibs) : Len(q) <= Len(End(f, nibs))
  BY <1>5 DEF End
<1>7. ASSUME NEW q \in DOMAIN f, IsPrefix(q, nibs) PROVE IsPrefix(q, End(f, nibs))
  <2>1. q \in Path /\ End(f, nibs) \in Path
    BY <1>1, <1>6, PlacedIs
  <2>. QED  BY <1>1, <1>6, <1>7, <2>1, PrefixesCompare
<1>. QED  BY <1>1, <1>6, <1>7

\* A digest on the way to a key is where it ends.
LEMMA EndIsDigest ==
  ASSUME NEW f, NEW len \in Nat, Shape(f, len), NEW nibs \in Path,
         NEW p \in DOMAIN f, f[p].type = "digest", IsPrefix(p, nibs)
  PROVE  End(f, nibs) = p
BY EndIs, PlacedIs DEF EmptyRoot

\* So is the leaf of the key.
LEMMA EndIsLeaf ==
  ASSUME NEW f, NEW len \in Nat, Shape(f, len),
         NEW p \in DOMAIN f, f[p].type = "leaf"
  PROVE  End(f, p \o Nibs(f[p])) = p
<1>1. p \in Path /\ Nibs(f[p]) \in Path
  BY PlacedIs
<1>2. p \o Nibs(f[p]) \in Path /\ IsPrefix(p, p \o Nibs(f[p]))
  BY <1>1, Joined
<1>. QED  BY <1>2, EndIs, PlacedIs DEF EmptyRoot

\* No digest stands on the way to the key.
IsReached(f, nibs) == \A p \in DOMAIN f : f[p].type = "digest" => ~IsPrefix(p, nibs)

\* get_internal: a lookup that is resolved gives the value of the leaf of the
\* key, and fails only if a digest stands on the way.
THEOREM LookupIsExact ==
  ASSUME NEW n, NEW len \in Nat, WellFormed(n, len), NEW nibs \in Path
  PROVE  /\ GetInternal(n, nibs).resolved <=> IsReached(n.nodes, nibs)
         /\ GetInternal(n, nibs).resolved =>
              \A v : v \in GetInternal(n, nibs).value <=> <<nibs, v>> \in Leaves(n)
<1> DEFINE f == n.nodes
           p == End(f, nibs)
           d == f[p]
<1>1. Shape(f, len)
  BY DEF WellFormed
<1>2. ASSUME NEW v
      PROVE  <<nibs, v>> \in Leaves(n) <=>
               \E q \in DOMAIN f : f[q].type = "leaf" /\ q \o Nibs(f[q]) = nibs /\ f[q].value = v
  BY DEF Leaves
<1> HIDE DEF f
<1>3. CASE f = EmptyRoot
  <2>1. DOMAIN f = {}
    BY <1>3 DEF EmptyRoot
  <2>2. GetInternal(n, nibs) = Absent
    BY <1>3 DEF GetInternal, f
  <2>. QED  BY <1>2, <2>1, <2>2 DEF Absent, IsReached, f
<1>4. CASE f # EmptyRoot
  <2> HIDE DEF p
  <2>1. /\ p \in DOMAIN f /\ IsPrefix(p, nibs) /\ p \in Path
        /\ d.type \in {"leaf", "extension", "branch", "digest"}
    BY <1>1, <1>4, EndIs, PlacedIs DEF p
  <2>2. CASE d.type = "digest"
    <3>1. GetInternal(n, nibs) = NodeNotResolved
      BY <1>4, <2>2 DEF GetInternal, f, p
    <3>. QED  BY <2>1, <2>2, <3>1 DEF NodeNotResolved, IsReached, f
  <2>3. CASE d.type # "digest"
    <3>1. IsReached(f, nibs)
      BY <1>1, <2>3, EndIsDigest DEF IsReached, p
    <3>2. ASSUME NEW q \in DOMAIN f, f[q].type = "leaf", q \o Nibs(f[q]) = nibs PROVE q = p
      BY <1>1, <3>2, EndIsLeaf DEF p
    <3>3. CASE d.type = "leaf" /\ Nibs(d) = Drop(nibs, Len(p))
      <4>1. GetInternal(n, nibs) = Found(d.value)
        BY <1>4, <3>3 DEF GetInternal, f, p
      <4>2. p \o Nibs(d) = nibs
        BY <2>1, <3>3, JoinDropped
      <4>3. GetInternal(n, nibs).resolved /\ GetInternal(n, nibs).value = {d.value}
        BY <4>1 DEF Found
      <4>4. ASSUME NEW v PROVE <<nibs, v>> \in Leaves(n) <=> v = d.value
        BY <1>2, <2>1, <3>2, <3>3, <4>2
      <4>. QED  BY <3>1, <4>3, <4>4 DEF f
    <3>4. CASE ~(d.type = "leaf" /\ Nibs(d) = Drop(nibs, Len(p)))
      <4>1. GetInternal(n, nibs) = Absent
        BY <1>4, <2>3, <3>4 DEF GetInternal, f, p
      <4>2. ASSUME NEW v PROVE <<nibs, v>> \notin Leaves(n)
        <5>1. SUFFICES ASSUME d.type = "leaf", p \o Nibs(d) = nibs PROVE FALSE
          BY <1>2, <3>2
        <5>2. Nibs(d) \in Path
          BY <1>1, <2>1, <5>1, PlacedIs
        <5>. QED  BY <2>1, <3>4, <5>1, <5>2, DropJoined
      <4>. QED  BY <3>1, <4>1, <4>2 DEF Absent, f
    <3>. QED  BY <3>3, <3>4
  <2>. QED  BY <2>2, <2>3
<1>. QED  BY <1>3, <1>4

-----------------------------------------------------------------------------
(* A change of a trie *)

\* Nothing differs but below s.
SameOutside(f, g, s) ==
  \A q \in Path : ~IsPrefix(s, q) =>
    (q \in DOMAIN g <=> q \in DOMAIN f) /\ (q \in DOMAIN f => g[q] = f[q])

\* There is a node at s, or s is where a branch may get another child.
IsPlace(f, s) ==
  \/ s = <<>> \/ s \in DOMAIN f
  \/ \E b \in DOMAIN f : f[b].type = "branch" /\ IsPrefix(b, s) /\ Len(s) = Len(b) + 1

\* A trie keeps its shape when what is below s is replaced by nodes that are
\* well placed, unless an extension leads to s and comes to lead to a leaf or
\* an extension.
LEMMA Graft ==
  ASSUME NEW f, NEW len \in Nat, Shape(f, len),
         NEW g, DOMAIN g \subseteq Path, NEW s \in DOMAIN g,
         IsPlace(f, s), SameOutside(f, g, s),
         \A q \in DOMAIN f : f[q].type = "extension" /\ q \o Nibs(f[q]) = s =>
                               g[s].type \in {"branch", "digest"},
         \A q \in DOMAIN g : IsPrefix(s, q) =>
                               Len(q) <= len /\ IsNode(g[q]) /\ IsPlaced(g, q, len)
  PROVE  Shape(g, len)
<1>1. s \in Path
  OBVIOUS
<1>2. \A q \in DOMAIN f : q \in Path /\ Len(q) \in Nat
  BY PlacedIs
<1>3. \A q \in DOMAIN g : ~IsPrefix(s, q) => q \in DOMAIN f /\ g[q] = f[q]
  BY DEF SameOutside
<1>4. \A q \in DOMAIN f : ~IsPrefix(s, q) => q \in DOMAIN g /\ g[q] = f[q]
  BY <1>2 DEF SameOutside
<1>5. ASSUME <<>> \notin DOMAIN g PROVE g = EmptyRoot
  <2>1. s # <<>> /\ ~IsPrefix(s, <<>>) /\ <<>> \in Path
    BY <1>1, <1>5, EmptyPath, PrefixLen, PathLen
  <2>2. <<>> \notin DOMAIN f
    BY <1>4, <1>5, <2>1
  <2>3. DOMAIN f = {}
    BY <2>2 DEF Shape, EmptyRoot
  <2>. QED  BY <2>1, <2>3 DEF IsPlace
<1>6. ASSUME NEW p \in DOMAIN g, ~IsPrefix(s, p)
      PROVE  p \in Path /\ Len(p) <= len /\ IsNode(g[p]) /\ IsPlaced(g, p, len)
  <2>1. /\ p \in DOMAIN f /\ g[p] = f[p] /\ p \in Path /\ Len(p) <= len /\ IsNode(g[p])
        /\ f[p].type \in {"leaf", "extension", "branch", "digest"}
    BY <1>3, <1>6, PlacedIs
  \* What is above s in f: the parent of s, or s itself.
  <2>2. ASSUME IsPrefix(p, s)
        PROVE  \/ s \in DOMAIN f
               \/ \E b \in DOMAIN f : /\ f[b].type = "branch" /\ IsPrefix(b, s)
                                      /\ Len(s) = Len(b) + 1 /\ IsPrefix(p, b)
    <3>1. s # <<>> /\ s # p
      BY <1>1, <1>6, <2>1, EmptyIsPrefix, PrefixRefl
    <3>2. SUFFICES ASSUME NEW b \in DOMAIN f, f[b].type = "branch", IsPrefix(b, s),
                          Len(s) = Len(b) + 1
                   PROVE  IsPrefix(p, b)
      BY <3>1 DEF IsPlace
    <3>3. Len(p) <= Len(b)
      <4>1. ~(Len(s) <= Len(p))
        BY <1>1, <2>1, <2>2, <3>1, PrefixSameLen
      <4>. QED  BY <4>1, <3>2, <1>1, <1>2, <2>1, PathLen
    <3>. QED  BY <1>1, <1>2, <2>1, <2>2, <3>2, <3>3, PrefixesCompare
  <2>3. ASSUME NEW q \in DOMAIN g, IsPrefix(p, q), IsPrefix(s, q) PROVE IsPrefix(p, s)
    <3>1. q \in Path /\ ~(Len(s) <= Len(p))
      BY <1>1, <1>6, <2>1, <2>3, PrefixesCompare
    <3>. QED  BY <3>1, <1>1, <2>1, <2>3, PrefixesCompare, PathLen
  <2>4. CASE f[p].type \in {"leaf", "digest"}
    <3>1. ~IsPrefix(p, s)
      <4>1. SUFFICES ASSUME IsPrefix(p, s) PROVE FALSE
        OBVIOUS
      <4>2. s \notin DOMAIN f
        BY <1>1, <1>6, <2>1, <2>4, <4>1, PlacedIs, PrefixRefl
      <4>. QED  BY <2>1, <2>2, <2>4, <4>1, <4>2, PlacedIs
    <3>2. \A q \in DOMAIN g : IsPrefix(p, q) => q = p
      BY <1>3, <2>1, <2>3, <2>4, <3>1, PlacedIs
    <3>3. f[p].type = "leaf" => Len(p \o Nibs(f[p])) = len
      BY <2>1, PlacedIs
    <3>. QED  BY <2>1, <2>4, <3>2, <3>3, MakePlaced
  <2>5. CASE f[p].type = "extension"
    <3> DEFINE child == p \o Nibs(f[p])
    <3>1. /\ child \in DOMAIN f /\ child # p /\ IsPrefix(p, child)
          /\ f[child].type \in {"branch", "digest"}
          /\ \A q \in DOMAIN f : IsPrefix(p, q) /\ q # p => IsPrefix(child, q)
      BY <2>1, <2>5, PlacedIs
    <3>2. child = s => g[s].type \in {"branch", "digest"}
      BY <2>1, <2>5
    <3> HIDE DEF child
    <3>3. IsPrefix(p, s) => IsPrefix(child, s)
      <4>1. SUFFICES ASSUME IsPrefix(p, s) PROVE IsPrefix(child, s)
        OBVIOUS
      <4>2. CASE s \in DOMAIN f
        BY <1>1, <1>6, <2>1, <3>1, <4>1, <4>2, PrefixRefl
      <4>3. CASE s \notin DOMAIN f
        <5>1. PICK b \in DOMAIN f : f[b].type = "branch" /\ IsPrefix(b, s) /\ IsPrefix(p, b)
          BY <2>2, <4>1, <4>3
        <5>2. IsPrefix(child, b)
          BY <2>5, <3>1, <5>1
        <5>. QED  BY <1>1, <1>2, <3>1, <5>1, <5>2, PrefixTrans
      <4>. QED  BY <4>2, <4>3
    <3>4. child \in DOMAIN g /\ g[child].type \in {"branch", "digest"}
      <4>1. CASE IsPrefix(s, child)
        <5>1. IsPrefix(p, s)
          <6>1. child \in Path /\ ~(Len(s) <= Len(p))
            BY <1>1, <1>2, <1>6, <2>1, <3>1, <4>1, PrefixesCompare
          <6>. QED  BY <6>1, <1>1, <2>1, <3>1, <4>1, PrefixesCompare, PathLen
        <5>2. child = s
          BY <1>1, <1>2, <3>1, <3>3, <4>1, <5>1, PrefixLen, PrefixSameLen
        <5>. QED  BY <3>2, <5>2
      <4>2. CASE ~IsPrefix(s, child)
        BY <1>4, <3>1, <4>2
      <4>. QED  BY <4>1, <4>2
    <3>5. ASSUME NEW q \in DOMAIN g, IsPrefix(p, q), q # p PROVE IsPrefix(child, q)
      <4>1. CASE IsPrefix(s, q)
        <5>1. IsPrefix(child, s)
          BY <2>3, <3>3, <3>5, <4>1
        <5>. QED  BY <1>1, <1>2, <3>1, <4>1, <5>1, PrefixTrans
      <4>2. CASE ~IsPrefix(s, q)
        BY <1>3, <3>1, <3>5, <4>2
      <4>. QED  BY <4>1, <4>2
    <3>. QED  BY <2>1, <2>5, <3>1, <3>4, <3>5, MakePlaced DEF child
  <2>6. CASE f[p].type = "branch"
    <3>1. /\ \A q \in DOMAIN f : IsPrefix(p, q) /\ q # p =>
               \E r \in DOMAIN f : IsPrefix(p, r) /\ Len(r) = Len(p) + 1 /\ IsPrefix(r, q)
          /\ \E q, r \in DOMAIN f : /\ IsPrefix(p, q) /\ IsPrefix(p, r)
                                    /\ Len(q) = Len(p) + 1 /\ Len(r) = Len(p) + 1
                                    /\ q # r
      BY <2>1, <2>6, PlacedIs
    \* A child of p stays there.
    <3>2. ASSUME NEW r \in DOMAIN f, IsPrefix(p, r), Len(r) = Len(p) + 1
          PROVE  r \in DOMAIN g
      <4>1. CASE IsPrefix(s, r)
        <5>1. ~(Len(s) <= Len(p))
          BY <1>1, <1>2, <1>6, <2>1, <3>2, <4>1, PrefixesCompare
        <5>2. s = r
          BY <5>1, <1>1, <1>2, <2>1, <3>2, <4>1, PrefixSameLen, PathLen
        <5>. QED  BY <5>2
      <4>2. CASE ~IsPrefix(s, r)
        BY <1>4, <4>2
      <4>. QED  BY <4>1, <4>2
    <3>3. IsPrefix(p, s) =>
            \E r \in DOMAIN g : IsPrefix(p, r) /\ Len(r) = Len(p) + 1 /\ IsPrefix(r, s)
      <4>1. SUFFICES ASSUME IsPrefix(p, s)
                     PROVE  \E r \in DOMAIN g : /\ IsPrefix(p, r) /\ Len(r) = Len(p) + 1
                                                /\ IsPrefix(r, s)
        OBVIOUS
      <4>2. CASE s \in DOMAIN f
        BY <1>1, <1>6, <2>1, <3>1, <3>2, <4>1, <4>2, PrefixRefl
      <4>3. CASE s \notin DOMAIN f
        <5>1. PICK b \in DOMAIN f : /\ f[b].type = "branch" /\ IsPrefix(b, s)
                                    /\ Len(s) = Len(b) + 1 /\ IsPrefix(p, b)
          BY <2>2, <4>1, <4>3
        <5>2. CASE b = p
          BY <1>1, <4>1, <5>1, <5>2, PrefixRefl
        <5>3. CASE b # p
          <6>1. PICK r \in DOMAIN f : IsPrefix(p, r) /\ Len(r) = Len(p) + 1 /\ IsPrefix(r, b)
            BY <3>1, <5>1, <5>3
          <6>2. IsPrefix(r, s)
            BY <1>1, <1>2, <5>1, <6>1, PrefixTrans
          <6>. QED  BY <3>2, <6>1, <6>2
        <5>. QED  BY <5>2, <5>3
      <4>. QED  BY <4>2, <4>3
    <3>4. ASSUME NEW q \in DOMAIN g, IsPrefix(p, q), q # p
          PROVE  \E r \in DOMAIN g : IsPrefix(p, r) /\ Len(r) = Len(p) + 1 /\ IsPrefix(r, q)
      <4>1. CASE IsPrefix(s, q)
        <5>1. PICK r \in DOMAIN g : IsPrefix(p, r) /\ Len(r) = Len(p) + 1 /\ IsPrefix(r, s)
          BY <2>3, <3>3, <3>4, <4>1
        <5>. QED  BY <1>1, <4>1, <5>1, PrefixTrans
      <4>2. CASE ~IsPrefix(s, q)
        BY <1>3, <3>1, <3>2, <3>4, <4>2
      <4>. QED  BY <4>1, <4>2
    <3>5. \A r : Len(r) = Len(p) + 1 => r # p
      BY <2>1, PathLen
    <3>6. \E q, r \in DOMAIN g : /\ IsPrefix(p, q) /\ IsPrefix(p, r)
                                 /\ Len(q) = Len(p) + 1 /\ Len(r) = Len(p) + 1
                                 /\ q # r
      BY <3>1, <3>2
    <3>. QED  BY <2>1, <2>6, <3>4, <3>5, <3>6, MakePlaced
  <2>. QED  BY <2>1, <2>4, <2>5, <2>6
<1>. QED  BY <1>5, <1>6 DEF Shape

\* The nodes below p are the same.
SameBelow(f, g, p) ==
  \A q \in Path : IsPrefix(p, q) =>
    (q \in DOMAIN g <=> q \in DOMAIN f) /\ (q \in DOMAIN f => g[q] = f[q])

\* A node below which nothing changed is placed as it was.
LEMMA PlacedTheSame ==
  ASSUME NEW f, NEW len \in Nat, Shape(f, len), NEW g, DOMAIN g \subseteq Path,
         NEW p \in DOMAIN f, SameBelow(f, g, p)
  PROVE  p \in DOMAIN g /\ Len(p) <= len /\ IsNode(g[p]) /\ IsPlaced(g, p, len)
<1>1. p \in Path /\ IsPrefix(p, p)
  BY PlacedIs, PrefixRefl
<1>2. p \in DOMAIN g /\ g[p] = f[p]
  BY <1>1 DEF SameBelow
<1>3. \A q \in DOMAIN f : q \in Path
  BY PlacedIs
<1> DEFINE below(h) == {q \in DOMAIN h : IsStrictPrefix(p, q)}
<1>4. below(g) = below(f) /\ \A q \in below(f) : g[q] = f[q]
  BY <1>3 DEF SameBelow, IsStrictPrefix
<1>5. Len(p) <= len /\ IsNode(f[p]) /\ IsPlaced(f, p, len)
  BY DEF Shape
<1>. QED
  <2> DEFINE child == p \o Nibs(f[p])
  <2>1. child \in below(f) => g[child] = f[child]
    BY <1>4
  <2> HIDE DEF child
  <2>2. IsPlaced(g, p, len) <=> IsPlaced(f, p, len)
    <3>1. g[p].type = f[p].type /\ p \o Nibs(g[p]) = child
      BY <1>2 DEF child
    <3> HIDE DEF below
    <3>. QED  BY <3>1, <2>1, <1>4 DEF IsPlaced, below, child
  <2>. QED  BY <1>2, <1>5, <2>2

-----------------------------------------------------------------------------
(* What insertion and deletion keep *)

\* There is a leaf for the key k with the value v.
LeafOf(f, k, v) ==
  \E p \in DOMAIN f : f[p].type = "leaf" /\ p \o Nibs(f[p]) = k /\ f[p].value = v

\* There is a digest at p.
IsDigestAt(f, p) == p \in DOMAIN f /\ f[p].type = "digest"

\* The digests.
SameDigests(f, g) ==
  \A p \in Path : /\ IsDigestAt(g, p) <=> IsDigestAt(f, p)
                  /\ IsDigestAt(f, p) => g[p] = f[p]

\* What is below the nodes that are not on the way to a key.
SameAside(f, g, k) ==
  \A p \in DOMAIN f : p \in DOMAIN g /\ ~IsPrefix(p, k) => SameBelow(f, g, p)

\* An extension leads to c.
LeadsTo(f, c) == \E p \in DOMAIN f : f[p].type = "extension" /\ p \o Nibs(f[p]) = c

\* The nodes with the leaf of k put to v: the leaves, the digests, what is below
\* the nodes that are not on the way to k, and where extensions lead to digests.
IsPut(f, g, k, v, len) ==
  /\ Shape(g, len)
  /\ \A j, w : LeafOf(g, j, w) <=> IF j = k THEN w = v ELSE LeafOf(f, j, w)
  /\ SameDigests(f, g) /\ SameAside(f, g, k)
  /\ \A c : LeadsTo(g, c) /\ IsDigestAt(g, c) => LeadsTo(f, c)

\* The node at p is the leaf of k.
IsLeafOf(f, p, k) == f[p].type = "leaf" /\ p \o Nibs(f[p]) = k

\* A leaf for a key k, where there is none of another key.
LEMMA PutLeaf ==
  ASSUME NEW f, NEW len \in Nat, Shape(f, len),
         NEW k \in Path, Len(k) = len, NEW v, NEW s \in Path, IsPrefix(s, k),
         IsPlace(f, s),
         \A q \in DOMAIN f : IsPrefix(s, q) => q = s,
         \A q \in DOMAIN f : IsLeafOf(f, q, k) => q = s,
         s \in DOMAIN f => IsLeafOf(f, s, k),
         NEW g, g = With(f, s, Leaf(Drop(k, Len(s)), v))
  PROVE  IsPut(f, g, k, v, len)
<1> DEFINE rest == Drop(k, Len(s))
<1>1. rest \in Path /\ s \o rest = k
  <2>1. Len(s) \in 0..Len(k)
    BY PrefixLen, PathLen
  <2>. QED  BY <2>1, Dropped, JoinDropped
<1> HIDE DEF rest
<1>2. /\ g[s].type = "leaf" /\ Nibs(g[s]) = rest /\ g[s].value = v /\ IsNode(g[s])
      /\ DOMAIN g = DOMAIN f \union {s}
      /\ \A q \in DOMAIN f : q # s => g[q] = f[q]
  <2>1. g = With(f, s, Leaf(rest, v))
    BY DEF rest
  <2> DEFINE x == Leaf(rest, v)
  <2>2. g = With(f, s, x)
    BY <2>1
  <2> HIDE DEF x
  <2>3. g[s] = x /\ DOMAIN g = DOMAIN f \union {s} /\ \A q \in DOMAIN f : q # s => g[q] = f[q]
    BY <2>2 DEF With
  <2>. QED  BY <1>1, <2>3, LeafIs DEF x
<1>3. \A q \in DOMAIN f : q \in Path
  BY PlacedIs
<1>4. DOMAIN g \subseteq Path /\ s \in DOMAIN g
  BY <1>2, <1>3
<1>5. Shape(g, len)
  <2>1. SameOutside(f, g, s)
    BY <1>2, PrefixRefl DEF SameOutside
  <2>2. \A q \in DOMAIN f : f[q].type = "extension" /\ q \o Nibs(f[q]) = s => FALSE
    <3>1. s \in DOMAIN f => f[s].type = "leaf"
      BY DEF IsLeafOf
    <3>2. ASSUME NEW q \in DOMAIN f, f[q].type = "extension", q \o Nibs(f[q]) = s
          PROVE  FALSE
      <4> DEFINE child == q \o Nibs(f[q])
      <4>1. child \in DOMAIN f /\ f[child].type \in {"branch", "digest"}
        BY <3>2, PlacedIs
      <4>. QED  BY <3>1, <3>2, <4>1
    <3>. QED  BY <3>2
  <2>3. ASSUME NEW q \in DOMAIN g, IsPrefix(s, q)
        PROVE  Len(q) <= len /\ IsNode(g[q]) /\ IsPlaced(g, q, len)
    <3>1. q = s
      BY <1>2, <2>3
    <3>2. Len(s) <= len
      BY PrefixLen
    <3>3. \A r \in DOMAIN g : IsPrefix(s, r) => r = s
      BY <1>2
    <3>4. Len(s \o Nibs(g[s])) = len
      BY <1>1, <1>2
    <3>5. IsPlaced(g, s, len)
      BY <1>2, <1>4, <3>3, <3>4, MakePlaced
    <3>. QED  BY <1>2, <3>1, <3>2, <3>5
  <2>. QED  BY <1>4, <2>1, <2>2, <2>3, Graft
<1>6. ASSUME NEW j, NEW w
      PROVE  LeafOf(g, j, w) <=> IF j = k THEN w = v ELSE LeafOf(f, j, w)
  <2>1. CASE j = k
    <3>1. LeafOf(g, j, w) => w = v
      BY <1>2, <2>1 DEF LeafOf, IsLeafOf
    <3>2. LeafOf(g, k, v)
      BY <1>1, <1>2, <1>4 DEF LeafOf
    <3>. QED  BY <2>1, <3>1, <3>2
  <2>2. CASE j # k
    <3>1. ASSUME LeafOf(g, j, w) PROVE LeafOf(f, j, w)
      BY <1>1, <1>2, <2>2, <3>1 DEF LeafOf
    <3>2. ASSUME LeafOf(f, j, w) PROVE LeafOf(g, j, w)
      BY <1>2, <2>2, <3>2 DEF LeafOf, IsLeafOf
    <3>. QED  BY <2>2, <3>1, <3>2
  <2>. QED  BY <2>1, <2>2
<1>7. SameDigests(f, g)
  BY <1>2 DEF SameDigests, IsDigestAt, IsLeafOf
<1>8. SameAside(f, g, k)
  <2>1. SUFFICES ASSUME NEW p \in DOMAIN f, ~IsPrefix(p, k), NEW q \in Path, IsPrefix(p, q)
                 PROVE  (q \in DOMAIN g <=> q \in DOMAIN f) /\ (q \in DOMAIN f => g[q] = f[q])
    BY DEF SameAside, SameBelow
  <2>2. q # s
    BY <1>3, <2>1, PrefixTrans
  <2>. QED  BY <1>2, <2>2
<1>9. ASSUME NEW c, LeadsTo(g, c) PROVE LeadsTo(f, c)
  BY <1>2, <1>9 DEF LeadsTo
<1>. QED  BY <1>5, <1>6, <1>7, <1>8, <1>9 DEF IsPut

\* The nodes of a split.
IsSplit(f, p, k, v, g, common, branch, old, new, left) ==
  /\ IsFork(p, Nibs(f[p]), Drop(k, Len(p)), common, branch, old, new, left)
  /\ DOMAIN g = DOMAIN f \union {p, branch, old, new}
  /\ branch # p => g[p] = Extension(SubSeq(Nibs(f[p]), 1, common))
  /\ g[branch] = Branch
  /\ g[new] = Leaf(Drop(k, Len(new)), v)
  /\ g[old] = IF f[p].type = "leaf" THEN Leaf(left, f[p].value)
              ELSE IF left # <<>> THEN Extension(left) ELSE f[old]
  /\ \A q \in DOMAIN f \ {p, branch, old, new} : g[q] = f[q]

\* Split, node by node: where the paths part there is a branch with two children.
LEMMA SplitNodes ==
  ASSUME NEW f, NEW len \in Nat, Shape(f, len),
         NEW k \in Path, NEW v, NEW p \in DOMAIN f, IsPrefix(p, k),
         f[p].type \in {"leaf", "extension"},
         Lcp(Nibs(f[p]), Drop(k, Len(p))) < Len(Nibs(f[p])),
         Lcp(Nibs(f[p]), Drop(k, Len(p))) < Len(Drop(k, Len(p)))
  PROVE  \E common, branch, old, new, left :
           IsSplit(f, p, k, v, Split(f, p, k, v), common, branch, old, new, left)
<1> DEFINE own == Nibs(f[p])
           rest == Drop(k, Len(p))
           common == Lcp(own, rest)
           branch == p \o SubSeq(own, 1, common)
           old == Append(branch, own[common + 1])
           new == Append(branch, k[Len(branch) + 1])
           left == Drop(own, common + 1)
           g == Split(f, p, k, v)
<1>1. p \in Path /\ own \in Path /\ Len(p) \in 0..Len(k)
  BY PlacedIs, PrefixLen, PathLen
<1>2. rest \in Path /\ \A i \in 1..(Len(k) - Len(p)) : rest[i] = k[Len(p) + i]
  BY <1>1, Dropped
<1>3. IsFork(p, own, rest, common, branch, old, new, left)
  <2>1. common \in Nat /\ Len(rest) = Len(k) - Len(p)
    BY <1>1, <1>2, CommonPrefix, Dropped
  <2>2. SubSeq(own, 1, common) \in Path /\ Len(SubSeq(own, 1, common)) = common
    BY <1>1, <1>2, CommonPrefix, Take
  <2>3. Len(branch) = Len(p) + common
    <3> DEFINE take == SubSeq(own, 1, common)
    <3> HIDE DEF take
    <3>1. take \in Path /\ Len(take) = common
      BY <2>2 DEF take
    <3>2. Len(p \o take) = Len(p) + common
      BY <1>1, <3>1, Joined, ZenonT(30)
    <3>. QED  BY <3>2 DEF take
  <2>4. k[Len(branch) + 1] = rest[common + 1]
    <3>1. common + 1 \in 1..(Len(k) - Len(p)) /\ Len(branch) + 1 = Len(p) + (common + 1)
      <4> HIDE DEF common, branch
      <4>1. common < Len(rest)
        BY DEF common
      <4>. QED  BY <1>1, <2>1, <2>3, <4>1
    <3> HIDE DEF common, branch, rest
    <3>. QED  BY <1>2, <3>1
  <2>. QED  BY <2>4 DEF IsFork
<1> HIDE DEF common, branch, old, new, left, own, rest
<1>4. /\ branch # old /\ branch # new /\ old # new /\ p # old /\ p # new
      /\ branch = p <=> common = 0
      /\ common \in Nat /\ left \in Path
  <2>1. /\ common \in Nat /\ branch \in Path /\ Len(branch) = Len(p) + common
        /\ Len(old) = Len(branch) + 1 /\ Len(new) = Len(branch) + 1
        /\ IsPrefix(p, branch) /\ old # new /\ left \in Path
    BY <1>1, <1>2, <1>3, Fork
  <2>2. Len(p) \in Nat /\ Len(branch) \in Nat
    BY <1>1, <2>1
  <2>3. common = 0 => branch = p
    BY <1>1, <2>1, <2>2, PrefixSameLen
  <2>. QED  BY <2>1, <2>2, <2>3
<1> DEFINE forked == With(With(f, branch, Branch), new, Leaf(Drop(k, Len(new)), v))
           moved == CASE f[p].type = "leaf" -> With(forked, old, Leaf(left, f[p].value))
                      [] f[p].type = "extension" /\ left # <<>> ->
                           With(forked, old, Extension(left))
                      [] OTHER -> forked
<1>5. g = IF common = 0 THEN moved ELSE With(moved, p, Extension(SubSeq(own, 1, common)))
  BY DEF Split, own, rest, common, branch, old, new, left
<1>6. f[p].type = "extension" /\ left = <<>> => old \in DOMAIN f
  <2>1. SUFFICES ASSUME f[p].type = "extension", left = <<>> PROVE old \in DOMAIN f
    OBVIOUS
  <2>2. old \in Path /\ old \o left = p \o own
    BY <1>1, <1>2, <1>3, Fork, SMTT(30)
  <2>3. p \o own \in DOMAIN f
    BY <2>1, PlacedIs DEF own
  <2>4. old \o <<>> = old
    <3>1. ASSUME NEW q \in Path PROVE q \o <<>> = q
      BY DEF Path
    <3>. QED  BY <2>2, <3>1
  <2>. QED  BY <2>1, <2>2, <2>3, <2>4
<1> DEFINE leafv == Leaf(Drop(k, Len(new)), v)
           ext == Extension(SubSeq(own, 1, common))
           mv == IF f[p].type = "leaf" THEN Leaf(left, f[p].value)
                 ELSE IF left # <<>> THEN Extension(left) ELSE f[old]
<1>7. /\ DOMAIN forked = DOMAIN f \union {branch, new}
      /\ forked[branch] = Branch /\ forked[new] = leafv
      /\ \A q \in DOMAIN f \ {branch, new} : forked[q] = f[q]
  <2> DEFINE h == With(f, branch, Branch)
  <2>1. DOMAIN h = DOMAIN f \union {branch} /\ h[branch] = Branch
        /\ \A q \in DOMAIN f \ {branch} : h[q] = f[q]
    BY DEF With
  <2> HIDE DEF h, leafv
  <2>2. /\ DOMAIN With(h, new, leafv) = DOMAIN h \union {new}
        /\ With(h, new, leafv)[new] = leafv
        /\ \A q \in DOMAIN h \ {new} : With(h, new, leafv)[q] = h[q]
    BY DEF With
  <2>3. forked = With(h, new, leafv)
    BY DEF h, leafv
  <2> HIDE DEF forked
  <2>. QED  BY <1>4, <2>1, <2>2, <2>3
<1> HIDE DEF forked
<1>8. /\ DOMAIN moved = DOMAIN f \union {branch, new, old}
      /\ moved[branch] = Branch /\ moved[new] = leafv /\ moved[old] = mv
      /\ \A q \in DOMAIN f \ {branch, new, old} : moved[q] = f[q]
  <2> HIDE DEF leafv
  <2>1. ASSUME NEW x
        PROVE  /\ DOMAIN With(forked, old, x) = DOMAIN forked \union {old}
               /\ With(forked, old, x)[old] = x
               /\ \A q \in DOMAIN forked \ {old} : With(forked, old, x)[q] = forked[q]
    BY DEF With
  <2>2. CASE f[p].type = "leaf"
    <3> DEFINE x == Leaf(left, f[p].value)
    <3>1. moved = With(forked, old, x) /\ mv = x
      BY <2>2
    <3> HIDE DEF moved, mv, x
    <3>2. /\ DOMAIN moved = DOMAIN forked \union {old} /\ moved[old] = mv
          /\ \A q \in DOMAIN forked \ {old} : moved[q] = forked[q]
      BY <2>1, <3>1, Zenon
    <3>. QED  BY <1>4, <1>7, <3>2
  <2>3. CASE f[p].type = "extension" /\ left # <<>>
    <3> DEFINE x == Extension(left)
    <3>1. moved = With(forked, old, x) /\ mv = x
      BY <2>3
    <3> HIDE DEF moved, mv, x
    <3>2. /\ DOMAIN moved = DOMAIN forked \union {old} /\ moved[old] = mv
          /\ \A q \in DOMAIN forked \ {old} : moved[q] = forked[q]
      BY <2>1, <3>1, Zenon
    <3>. QED  BY <1>4, <1>7, <3>2
  <2>4. CASE f[p].type = "extension" /\ left = <<>>
    <3>1. moved = forked /\ mv = f[old]
      BY <2>4
    <3> HIDE DEF moved, mv
    <3>. QED  BY <1>4, <1>6, <1>7, <2>4, <3>1
  <2>. QED  BY <2>2, <2>3, <2>4
<1> HIDE DEF moved
<1>9. /\ DOMAIN g = DOMAIN f \union {p, branch, old, new}
      /\ branch # p => g[p] = ext
      /\ g[branch] = Branch /\ g[new] = leafv /\ g[old] = mv
      /\ \A q \in DOMAIN f \ {p, branch, old, new} : g[q] = f[q]
  <2> HIDE DEF leafv, mv, ext, g
  <2>1. /\ DOMAIN With(moved, p, ext) = DOMAIN moved \union {p}
        /\ With(moved, p, ext)[p] = ext
        /\ \A q \in DOMAIN moved \ {p} : With(moved, p, ext)[q] = moved[q]
    BY DEF With
  <2>2. CASE common = 0
    BY <1>4, <1>5, <1>8, <2>2
  <2>3. CASE common # 0
    <3>1. g = With(moved, p, ext)
      BY <1>5, <2>3 DEF ext
    <3>. QED  BY <1>4, <1>8, <2>1, <2>3, <3>1
  <2>. QED  BY <2>2, <2>3
<1>10. IsSplit(f, p, k, v, g, common, branch, old, new, left)
  <2> HIDE DEF g
  <2>. QED  BY <1>3, <1>9 DEF IsSplit, own, rest
<1>. QED  BY <1>10

\* insert_internal splits a leaf or an extension rightly.
LEMMA SplitIsRight ==
  ASSUME NEW f, NEW len \in Nat, Shape(f, len),
         NEW k \in Path, Len(k) = len, NEW v, NEW p \in DOMAIN f, IsPrefix(p, k),
         \A q \in DOMAIN f : IsPrefix(q, k) => IsPrefix(q, p),
         f[p].type \in {"leaf", "extension"},
         NEW g,
         \E common, branch, old, new, left :
           IsSplit(f, p, k, v, g, common, branch, old, new, left)
  PROVE  IsPut(f, g, k, v, len)
<1>. PICK common, branch, old, new, left :
       IsSplit(f, p, k, v, g, common, branch, old, new, left)
  OBVIOUS
<1> DEFINE own == Nibs(f[p])
           rest == Drop(k, Len(p))
           end == p \o own
           take == SubSeq(own, 1, common)
<1>1. /\ p \in Path /\ Len(p) \in Nat /\ own \in Path /\ end \in Path
      /\ Len(p) \in 0..Len(k) /\ rest \in Path /\ p \o rest = k
  <2>1. p \in Path /\ own \in Path /\ Len(p) \in 0..Len(k)
    BY PlacedIs, PrefixLen, PathLen
  <2>2. rest \in Path /\ p \o rest = k
    BY <2>1, Dropped, JoinDropped
  <2>3. end \in Path
    <3> HIDE DEF own
    <3>. QED  BY <2>1, Joined
  <2> HIDE DEF own, rest, end
  <2>. QED  BY <2>1, <2>2, <2>3, PathLen
<1>2. /\ branch \in Path /\ old \in Path /\ new \in Path /\ left \in Path /\ take \in Path
      /\ Len(branch) = Len(p) + common /\ common \in Nat /\ Len(take) = common
      /\ Len(old) = Len(branch) + 1 /\ Len(new) = Len(branch) + 1
      /\ IsPrefix(p, branch) /\ IsPrefix(branch, old) /\ IsPrefix(branch, new)
      /\ IsPrefix(old, end) /\ IsPrefix(new, k) /\ old # new
      /\ old \o left = end /\ p \o take = branch
  <2>1. IsFork(p, own, rest, common, branch, old, new, left)
    BY DEF IsSplit
  <2> HIDE DEF own, rest
  <2>2. /\ branch \in Path /\ old \in Path /\ new \in Path /\ left \in Path
        /\ Len(branch) = Len(p) + common /\ common \in Nat
        /\ Len(old) = Len(branch) + 1 /\ Len(new) = Len(branch) + 1
        /\ IsPrefix(p, branch) /\ IsPrefix(branch, old) /\ IsPrefix(branch, new) /\ old # new
    BY <1>1, <2>1, Fork
  <2>3. IsPrefix(old, end) /\ IsPrefix(new, p \o rest)
    BY <1>1, <2>1, Fork
  <2>4. take \in Path /\ Len(take) = common
    BY <1>1, <2>1, Fork
  <2>5. old \o left = end /\ p \o take = branch
    <3> HIDE DEF end, take
    <3>1. old \o left = p \o own /\ p \o SubSeq(own, 1, common) = branch
      BY <1>1, <2>1, Fork, ZenonT(30)
    <3>. QED  BY <3>1 DEF end, take
  <2> HIDE DEF end, take
  <2>. QED  BY <1>1, <2>2, <2>3, <2>4, <2>5
<1>3. /\ DOMAIN g = DOMAIN f \union {p, branch, old, new}
      /\ branch # p => g[p] = Extension(take)
      /\ g[branch] = Branch
      /\ g[new] = Leaf(Drop(k, Len(new)), v)
      /\ g[old] = IF f[p].type = "leaf" THEN Leaf(left, f[p].value)
                  ELSE IF left # <<>> THEN Extension(left) ELSE f[old]
      /\ \A q \in DOMAIN f \ {p, branch, old, new} : g[q] = f[q]
  BY DEF IsSplit
<1>4. /\ \A q \in DOMAIN f : q \in Path /\ Len(q) \in Nat
      /\ Len(branch) \in Nat /\ Len(old) \in Nat /\ Len(new) \in Nat
      /\ p # old /\ p # new /\ branch # old /\ branch # new
      /\ IsPrefix(p, old) /\ IsPrefix(p, new) /\ IsPrefix(branch, end) /\ IsPrefix(branch, k)
      /\ IsPrefix(p, end) /\ Len(branch) < Len(end)
  <2>1. \A q \in DOMAIN f : q \in Path /\ Len(q) \in Nat
    BY PlacedIs
  <2>2. Len(branch) \in Nat /\ Len(old) \in Nat /\ Len(new) \in Nat
    BY <1>1, <1>2
  <2>3. IsPrefix(p, old) /\ IsPrefix(p, new) /\ IsPrefix(branch, end) /\ IsPrefix(branch, k)
    BY <1>1, <1>2, PrefixTrans
  <2>4. Len(old) <= Len(end) /\ Len(end) \in Nat
    BY <1>1, <1>2, PrefixLen, PathLen
  <2>. QED  BY <1>1, <1>2, <2>1, <2>2, <2>3, <2>4, PrefixTrans
\* The nodes of f below p, if it is an extension, are below end.
<1>5. /\ f[p].type = "leaf" => Len(end) = len /\ \A q \in DOMAIN f : IsPrefix(p, q) => q = p
      /\ f[p].type = "extension" =>
           /\ end \in DOMAIN f /\ f[end].type \in {"branch", "digest"}
           /\ \A q \in DOMAIN f : IsPrefix(p, q) /\ q # p => IsPrefix(end, q)
  BY PlacedIs
<1> HIDE DEF own, rest, end, take
\* None of the new positions is one of f but old, which is where end is.
<1>6. /\ branch \in DOMAIN f => branch = p
      /\ new \notin DOMAIN f
      /\ old \in DOMAIN f => f[p].type = "extension" /\ old = end /\ left = <<>>
      /\ f[p].type = "extension" /\ left = <<>> => old = end
  <2>1. new \notin DOMAIN f
    BY <1>1, <1>2, <1>4, PrefixSameLen, PrefixLen
  <2>2. branch \in DOMAIN f => branch = p
    <3>1. branch \in DOMAIN f => IsPrefix(branch, p)
      BY <1>4
    <3>. QED  BY <3>1, <1>1, <1>2, <1>4, PrefixSameLen, PrefixLen
  <2>3. ASSUME old \in DOMAIN f
        PROVE  f[p].type = "extension" /\ old = end /\ left = <<>>
    <3>1. f[p].type = "extension" /\ IsPrefix(end, old)
      BY <1>4, <1>5, <2>3
    <3>2. old = end
      BY <1>1, <1>2, <3>1, PrefixLen, PrefixSameLen
    <3>3. Len(old \o left) = Len(old) + Len(left) /\ Len(left) \in Nat
      BY <1>2, Joined, PathLen
    <3>4. Len(left) = 0
      BY <1>2, <1>4, <3>2, <3>3
    <3>. QED  BY <1>2, <3>1, <3>2, <3>4, EmptyPath
  <2>4. ASSUME left = <<>> PROVE old = end
    <3>1. ASSUME NEW q \in Path PROVE q \o <<>> = q
      BY DEF Path
    <3>. QED  BY <1>2, <2>4, <3>1
  <2>. QED  BY <2>1, <2>2, <2>3, <2>4
\* The new nodes.
<1>7. /\ branch # p => /\ g[p].type = "extension" /\ Nibs(g[p]) = take /\ IsNode(g[p])
      /\ g[branch].type = "branch" /\ IsNode(g[branch])
      /\ g[new].type = "leaf" /\ new \o Nibs(g[new]) = k /\ g[new].value = v /\ IsNode(g[new])
      /\ f[p].type = "leaf" =>
           /\ g[old].type = "leaf" /\ old \o Nibs(g[old]) = end /\ IsNode(g[old])
           /\ g[old].value = f[p].value
      /\ f[p].type = "extension" /\ left # <<>> =>
           /\ g[old].type = "extension" /\ old \o Nibs(g[old]) = end /\ IsNode(g[old])
      /\ f[p].type = "extension" /\ left = <<>> => old = end /\ g[end] = f[end]
  <2>1. ASSUME branch # p
        PROVE  g[p].type = "extension" /\ Nibs(g[p]) = take /\ IsNode(g[p])
    <3>1. take # <<>>
      <4>1. SUFFICES ASSUME take = <<>> PROVE FALSE
        OBVIOUS
      <4>2. common = 0
        BY <1>2, <4>1, EmptyPath
      <4>. QED  BY <1>1, <1>2, <2>1, <4>2, PrefixSameLen
    <3>. QED  BY <1>2, <1>3, <2>1, <3>1, ExtensionIs
  <2>2. g[branch].type = "branch" /\ IsNode(g[branch])
    BY <1>3, BranchIs
  <2>3. g[new].type = "leaf" /\ new \o Nibs(g[new]) = k /\ g[new].value = v /\ IsNode(g[new])
    <3> DEFINE d == Drop(k, Len(new))
    <3>1. d \in Path /\ new \o d = k
      <4>1. Len(new) \in 0..Len(k)
        BY <1>2, PrefixLen, PathLen
      <4>. QED  BY <1>2, <4>1, Dropped, JoinDropped
    <3>2. g[new] = Leaf(d, v)
      BY <1>3
    <3> HIDE DEF d
    <3>3. IsNode(g[new]) /\ g[new].type = "leaf" /\ Nibs(g[new]) = d /\ g[new].value = v
      BY <3>1, <3>2, LeafIs, SMTT(30)
    <3>. QED  BY <3>1, <3>3
  <2>4. f[p].type = "leaf" =>
           /\ g[old].type = "leaf" /\ old \o Nibs(g[old]) = end /\ IsNode(g[old])
           /\ g[old].value = f[p].value
    <3> DEFINE x == f[p].value
    <3>1. f[p].type = "leaf" => g[old] = Leaf(left, x)
      BY <1>3
    <3> HIDE DEF x
    <3>2. f[p].type = "leaf" =>
            /\ g[old].type = "leaf" /\ Nibs(g[old]) = left /\ IsNode(g[old])
            /\ g[old].value = x
      BY <1>2, <3>1, LeafIs
    <3>3. old \o left = end
      BY <1>2
    <3>. QED  BY <3>2, <3>3 DEF x
  <2>5. f[p].type = "extension" /\ left # <<>> =>
           /\ g[old].type = "extension" /\ old \o Nibs(g[old]) = end /\ IsNode(g[old])
    BY <1>2, <1>3, ExtensionIs
  <2>. QED  BY <1>3, <1>6, <2>1, <2>2, <2>3, <2>4, <2>5
\* No node of f lies between p and what is below it, nor on the way to k.
<1>8. ASSUME NEW q \in DOMAIN f, IsPrefix(p, q), q # p
      PROVE  /\ f[p].type = "extension" /\ IsPrefix(end, q) /\ IsPrefix(old, q)
             /\ g[q] = f[q] /\ ~IsPrefix(new, q)
             /\ SameBelow(f, g, q)
  <2>1. f[p].type = "extension" /\ IsPrefix(end, q)
    BY <1>5, <1>8
  <2>2. IsPrefix(old, q)
    BY <1>1, <1>2, <1>4, <2>1, PrefixTrans
  <2>3. \A r \in Path : IsPrefix(old, r) => ~IsPrefix(new, r)
    <3>1. ASSUME NEW r \in Path, IsPrefix(old, r), IsPrefix(new, r) PROVE FALSE
      <4>1. IsPrefix(old, new)
        BY <1>2, <1>4, <3>1, PrefixesCompare
      <4>. QED  BY <1>2, <1>4, <4>1, PrefixSameLen
    <3>. QED  BY <3>1
  <2>4. ASSUME NEW r \in Path, IsPrefix(q, r)
        PROVE  (r \in DOMAIN g <=> r \in DOMAIN f) /\ (r \in DOMAIN f => g[r] = f[r])
    <3>1. IsPrefix(end, r) /\ IsPrefix(old, r)
      BY <1>1, <1>2, <1>4, <2>1, <2>2, <2>4, PrefixTrans
    <3>2. r # new
      BY <1>2, <2>3, <3>1, PrefixRefl
    <3>3. r # p /\ r # branch
      BY <1>1, <1>2, <1>4, <3>1, PrefixLen
    <3>4. r = old => old = end
      BY <1>1, <1>2, <3>1, PrefixSameLen, PrefixLen
    <3>5. old = end => left = <<>>
      <4>1. old = end => old \in DOMAIN f
        BY <1>5, <2>1
      <4>. QED  BY <4>1, <1>6
    <3>. QED  BY <1>3, <1>5, <1>6, <1>7, <2>1, <3>2, <3>3, <3>4, <3>5
  <2>. QED  BY <1>4, <2>1, <2>2, <2>3, <2>4, PrefixRefl DEF SameBelow
\* The nodes below p.
<1>9. ASSUME NEW q \in DOMAIN g, IsPrefix(p, q)
      PROVE  q \in {p, branch, old, new} \/ (q \in DOMAIN f /\ q # p)
  BY <1>3
<1>10. Shape(g, len)
  <2>1. DOMAIN g \subseteq Path /\ p \in DOMAIN g /\ branch \in DOMAIN g /\ old \in DOMAIN g
        /\ new \in DOMAIN g
    BY <1>1, <1>2, <1>3, <1>4
  <2>2. SameOutside(f, g, p)
    BY <1>1, <1>2, <1>3, <1>4, PrefixRefl DEF SameOutside
  <2>3. \A q \in DOMAIN f : f[q].type = "extension" /\ q \o Nibs(f[q]) = p => FALSE
    <3>1. ASSUME NEW q \in DOMAIN f, f[q].type = "extension", q \o Nibs(f[q]) = p
          PROVE  FALSE
      <4> DEFINE child == q \o Nibs(f[q])
      <4>1. f[child].type \in {"branch", "digest"}
        BY <3>1, PlacedIs
      <4>. QED  BY <3>1, <4>1
    <3>. QED  BY <3>1
  <2>4. /\ Len(p) <= len /\ Len(branch) <= len /\ Len(new) <= len /\ Len(old) <= len
    <3>1. Len(new) <= len
      BY <1>2, PrefixLen
    <3>. QED  BY <1>1, <1>2, <1>4, <3>1
  \* What is below each of them.
  <2>5. ASSUME NEW q \in DOMAIN g, IsPrefix(branch, q), q # branch
        PROVE  q = new \/ IsPrefix(old, q)
    <3>1. IsPrefix(p, q)
      BY <1>1, <1>2, <2>1, <2>5, PrefixTrans
    <3>2. q # p
      <4>1. q = p => IsPrefix(branch, p)
        BY <2>5
      <4>2. q = p => branch = p
        BY <4>1, <1>1, <1>2, PrefixLen, PrefixSameLen
      <4>. QED  BY <4>2, <2>5
    <3>. QED  BY <1>2, <1>8, <1>9, <2>5, <3>1, <3>2, PrefixRefl
  <2>6. ASSUME NEW q \in DOMAIN g, IsPrefix(new, q) PROVE q = new
    <3>1. IsPrefix(p, q) /\ q # branch /\ q # p
      BY <1>1, <1>2, <1>4, <2>1, <2>6, PrefixTrans, PrefixLen
    <3>2. q # old
      BY <1>2, <1>4, <2>6, PrefixSameLen
    <3>. QED  BY <1>8, <1>9, <2>6, <3>1, <3>2
  <2>7. ASSUME NEW q \in DOMAIN g, IsPrefix(old, q), q # old
        PROVE  f[p].type = "extension" /\ q \in DOMAIN f /\ IsPrefix(end, q)
    <3>1. IsPrefix(p, q) /\ q # branch /\ q # p
      BY <1>1, <1>2, <1>4, <2>1, <2>7, PrefixTrans, PrefixLen
    <3>2. q # new
      BY <1>2, <1>4, <2>7, PrefixSameLen
    <3>. QED  BY <1>8, <1>9, <2>7, <3>1, <3>2
  <2>8. IsPlaced(g, branch, len)
    <3>1. \A q \in DOMAIN g : IsPrefix(branch, q) /\ q # branch =>
            \E r \in DOMAIN g : /\ IsPrefix(branch, r) /\ r # branch
                                /\ Len(r) = Len(branch) + 1 /\ IsPrefix(r, q)
      BY <1>2, <1>4, <2>1, <2>5, PrefixRefl
    <3>. QED  BY <1>2, <1>4, <1>7, <2>1, <3>1, MakePlaced
  <2>9. IsPlaced(g, new, len)
    BY <1>7, <2>1, <2>6, MakePlaced
  <2>10. f[p].type = "leaf" => IsPlaced(g, old, len)
    BY <1>5, <1>7, <2>1, <2>7, MakePlaced
  <2>11. f[p].type = "extension" /\ left # <<>> => IsPlaced(g, old, len)
    <3>1. SUFFICES ASSUME f[p].type = "extension", left # <<>> PROVE IsPlaced(g, old, len)
      OBVIOUS
    <3>2. old # end /\ end \in DOMAIN f /\ f[end].type \in {"branch", "digest"} /\ end # p
      BY <1>1, <1>4, <1>5, <1>6, <3>1, PrefixLen
    <3>3. end \in DOMAIN g /\ g[end] = f[end]
      BY <1>3, <1>4, <1>8, <3>2
    <3>. QED  BY <1>2, <1>7, <2>1, <2>7, <3>1, <3>2, <3>3, MakePlaced
  <2>12. branch # p => IsPlaced(g, p, len)
    <3>1. SUFFICES ASSUME branch # p PROVE IsPlaced(g, p, len)
      OBVIOUS
    <3>2. \A q \in DOMAIN g : IsPrefix(p, q) /\ q # p => IsPrefix(branch, q)
      <4>1. ASSUME NEW q \in DOMAIN f, IsPrefix(p, q), q # p PROVE IsPrefix(branch, q)
        BY <1>2, <1>4, <1>8, <4>1, PrefixTrans
      <4>. QED  BY <1>2, <1>9, <4>1, PrefixRefl
    <3>. QED  BY <1>2, <1>7, <2>1, <3>1, <3>2, MakePlaced
  <2>13. ASSUME NEW q \in DOMAIN g, IsPrefix(p, q)
         PROVE  Len(q) <= len /\ IsNode(g[q]) /\ IsPlaced(g, q, len)
    <3>1. CASE q \in DOMAIN f /\ q # p
      BY <1>8, <2>1, <2>13, <3>1, PlacedTheSame
    <3>2. CASE q = p /\ branch # p
      BY <1>7, <2>4, <2>12, <3>2
    <3>3. CASE q = branch
      BY <1>7, <2>4, <2>8, <3>3
    <3>4. CASE q = new
      BY <1>7, <2>4, <2>9, <3>4
    <3>5. CASE q = old /\ q \notin DOMAIN f
      <4>1. f[p].type = "extension" => left # <<>>
        BY <1>5, <1>6, <3>5
      <4>. QED  BY <1>7, <2>4, <2>10, <2>11, <3>5, <4>1
    <3>. QED  BY <1>4, <1>9, <2>13, <3>1, <3>2, <3>3, <3>4, <3>5
  <2>14. IsPlace(f, p)
    BY DEF IsPlace
  <2>. QED  BY <2>1, <2>2, <2>3, <2>13, <2>14, Graft
<1>11. ASSUME NEW q \in DOMAIN f, q # p
       PROVE  q \in DOMAIN g /\ g[q] = f[q]
  BY <1>3, <1>5, <1>6, <1>7, <1>11
<1>12. ASSUME NEW q \in DOMAIN g, q \notin DOMAIN f \/ q = p
       PROVE  \/ q = p /\ branch # p
              \/ q = branch \/ q = new
              \/ q = old /\ (f[p].type = "extension" => left # <<>>)
  BY <1>3, <1>5, <1>6, <1>12
<1>13. (f[p].type = "extension" /\ left # <<>>) \/ f[p].type = "leaf" \/ old = end
  BY <1>6
<1>14. ASSUME NEW j, NEW w
       PROVE  LeafOf(g, j, w) <=> IF j = k THEN w = v ELSE LeafOf(f, j, w)
  \* A leaf of k would be where k ends.
  <2>1. ASSUME NEW q \in DOMAIN f, f[q].type = "leaf" PROVE q \o Nibs(f[q]) # k
    <3>1. SUFFICES ASSUME q \o Nibs(f[q]) = k PROVE FALSE
      OBVIOUS
    <3>2. q \in Path /\ Nibs(f[q]) \in Path /\ \A r \in DOMAIN f : IsPrefix(q, r) => r = q
      BY <2>1, PlacedIs
    <3>3. IsPrefix(q, k)
      BY <3>1, <3>2, Joined
    <3>4. q = p
      BY <3>2, <3>3
    <3>5. end = k
      BY <3>1, <3>4 DEF end, own
    <3>6. IsPrefix(old, new)
      BY <1>2, <1>4, <3>5, PrefixesCompare
    <3>. QED  BY <1>2, <1>4, <3>6, PrefixSameLen
  <2>2. f[p].type = "leaf" => end # k
    BY <2>1 DEF end, own
  <2>3. ASSUME LeafOf(g, j, w), j = k PROVE w = v
    <3>1. PICK q \in DOMAIN g : g[q].type = "leaf" /\ q \o Nibs(g[q]) = j /\ g[q].value = w
      BY <2>3 DEF LeafOf
    <3>2. CASE q \in DOMAIN f /\ q # p
      BY <1>11, <2>1, <2>3, <3>1, <3>2
    <3>3. CASE q \notin DOMAIN f \/ q = p
      BY <1>7, <1>12, <2>2, <2>3, <3>1, <3>3
    <3>. QED  BY <3>2, <3>3
  <2>4. LeafOf(g, k, v)
    BY <1>3, <1>7 DEF LeafOf
  <2>5. ASSUME LeafOf(g, j, w), j # k PROVE LeafOf(f, j, w)
    <3>1. PICK q \in DOMAIN g : g[q].type = "leaf" /\ q \o Nibs(g[q]) = j /\ g[q].value = w
      BY <2>5 DEF LeafOf
    <3>2. CASE q \in DOMAIN f /\ q # p
      BY <1>11, <3>1, <3>2 DEF LeafOf
    <3>3. CASE q \notin DOMAIN f \/ q = p
      <4>1. q = old /\ f[p].type = "leaf"
        BY <1>7, <1>12, <2>5, <3>1, <3>3
      <4>2. j = p \o Nibs(f[p]) /\ w = f[p].value
        BY <1>7, <3>1, <4>1 DEF end, own
      <4>. QED  BY <4>1, <4>2 DEF LeafOf
    <3>. QED  BY <3>2, <3>3
  <2>6. ASSUME LeafOf(f, j, w), j # k PROVE LeafOf(g, j, w)
    <3>1. PICK q \in DOMAIN f : f[q].type = "leaf" /\ q \o Nibs(f[q]) = j /\ f[q].value = w
      BY <2>6 DEF LeafOf
    <3>2. CASE q # p
      BY <1>11, <3>1, <3>2 DEF LeafOf
    <3>3. CASE q = p
      <4>1. j = end
        BY <3>1, <3>3 DEF end, own
      <4>2. old \in DOMAIN g
        BY <1>3
      <4>. QED  BY <1>7, <3>1, <3>3, <4>1, <4>2 DEF LeafOf
    <3>. QED  BY <3>2, <3>3
  <2>. QED  BY <2>3, <2>4, <2>5, <2>6
<1>15. SameDigests(f, g)
  <2>1. ASSUME NEW q, IsDigestAt(f, q) PROVE IsDigestAt(g, q) /\ g[q] = f[q]
    BY <1>11, <2>1 DEF IsDigestAt
  <2>2. ASSUME NEW q, IsDigestAt(g, q) PROVE IsDigestAt(f, q)
    <3>1. CASE q \in DOMAIN f /\ q # p
      BY <1>11, <2>2, <3>1 DEF IsDigestAt
    <3>2. CASE q \notin DOMAIN f \/ q = p
      BY <1>7, <1>12, <1>13, <2>2, <3>2 DEF IsDigestAt
    <3>. QED  BY <3>1, <3>2
  <2>. QED  BY <2>1, <2>2 DEF SameDigests
<1>16. SameAside(f, g, k)
  <2>1. SUFFICES ASSUME NEW q \in DOMAIN f, ~IsPrefix(q, k), NEW r \in Path, IsPrefix(q, r)
                 PROVE  (r \in DOMAIN g <=> r \in DOMAIN f) /\ (r \in DOMAIN f => g[r] = f[r])
    BY DEF SameAside, SameBelow
  <2>2. q \in Path
    BY <1>4
  <2>3. r # p /\ r # branch /\ r # new
    BY <1>1, <1>2, <1>4, <2>1, <2>2, PrefixTrans
  <2>4. CASE r = old
    \* Its only prefix that is not one of the branch is itself.
    <3>1. IsPrefix(branch, q)
      <4>1. CASE Len(q) <= Len(branch)
        <5>1. IsPrefix(q, branch)
          BY <1>2, <2>1, <2>2, <2>4, <4>1, PrefixesCompare
        <5>. QED  BY <1>2, <1>4, <2>1, <2>2, <5>1, PrefixTrans
      <4>2. CASE ~(Len(q) <= Len(branch))
        BY <1>2, <1>4, <2>1, <2>2, <2>4, <4>2, PrefixesCompare
      <4>. QED  BY <4>1, <4>2
    <3>2. q # branch /\ Len(q) <= Len(old)
      BY <1>2, <1>4, <2>1, <2>2, <2>4, PrefixLen
    <3>3. ~(Len(q) <= Len(branch))
      BY <1>2, <2>2, <3>1, <3>2, PrefixSameLen
    <3>4. q = old
      BY <1>2, <1>4, <2>1, <2>2, <2>4, <3>2, <3>3, PrefixSameLen
    <3>. QED  BY <1>11, <1>4, <2>4, <3>4
  <2>5. CASE r # old
    BY <1>3, <2>3, <2>5
  <2>. QED  BY <2>4, <2>5
<1>17. ASSUME NEW c, LeadsTo(g, c) PROVE LeadsTo(f, c) \/ c = branch
  <2>1. PICK q \in DOMAIN g : g[q].type = "extension" /\ q \o Nibs(g[q]) = c
    BY <1>17 DEF LeadsTo
  <2>2. CASE q \in DOMAIN f /\ q # p
    BY <1>11, <2>1, <2>2 DEF LeadsTo
  <2>3. CASE q = p /\ branch # p
    BY <1>2, <1>7, <2>1, <2>3
  <2>4. CASE q = old /\ f[p].type = "extension" /\ left # <<>>
    <3>1. c = p \o Nibs(f[p])
      BY <1>7, <2>1, <2>4 DEF end, own
    <3>. QED  BY <2>4, <3>1 DEF LeadsTo
  <2>5. CASE q \in {branch, new} \/ (q = old /\ f[p].type = "leaf")
    BY <1>7, <2>1, <2>5
  <2>. QED  BY <1>12, <2>2, <2>3, <2>4, <2>5
<1>18. \A c : LeadsTo(g, c) /\ IsDigestAt(g, c) => LeadsTo(f, c)
  BY <1>7, <1>17 DEF IsDigestAt
<1>. QED  BY <1>10, <1>14, <1>15, <1>16, <1>18 DEF IsPut

-----------------------------------------------------------------------------
(* Insertion *)

\* Leaves, by key.
LEMMA LeafIn ==
  ASSUME NEW n, NEW k, NEW v
  PROVE  <<k, v>> \in Leaves(n) <=> LeafOf(n.nodes, k, v)
BY DEF Leaves, LeafOf

\* What a change at a key does not change: the digests, and the references that
\* are still cached, with what they are the references of.
Keeps(n, m) ==
  /\ SameDigests(n.nodes, m.nodes)
  /\ \A p \in DOMAIN m.cached :
       /\ p \in DOMAIN n.cached /\ m.cached[p] = n.cached[p]
       /\ SameBelow(n.nodes, m.nodes, p)

\* Changed keeps the cached references of what is not on the way to the key.
LEMMA ChangedIs ==
  ASSUME NEW n, NEW len \in Nat, WellFormed(n, len), NEW k, NEW g, Shape(g, len),
         SameDigests(n.nodes, g), SameAside(n.nodes, g, k)
  PROVE  /\ Changed(n, k, g).error = "none"
         /\ Changed(n, k, g).trie.nodes = g
         /\ WellFormed(Changed(n, k, g).trie, len)
         /\ Keeps(n, Changed(n, k, g).trie)
<1> DEFINE gone == {p \in DOMAIN n.cached : IsPrefix(p, k) \/ p \notin DOMAIN g}
           m == Changed(n, k, g).trie
<1>1. Changed(n, k, g).error = "none" /\ m.nodes = g /\ m.cached = Without(n.cached, gone)
  BY DEF Changed
<1>2. /\ DOMAIN m.cached = DOMAIN n.cached \ gone
      /\ \A p \in DOMAIN n.cached \ gone : m.cached[p] = n.cached[p]
  BY <1>1 DEF Without
<1>3. \A p \in DOMAIN n.cached \ gone : p \in DOMAIN n.nodes /\ p \in DOMAIN g /\ ~IsPrefix(p, k)
  BY DEF WellFormed
<1> HIDE DEF m, gone
<1>4. WellFormed(m, len)
  BY <1>1, <1>2, <1>3 DEF WellFormed
<1>5. Keeps(n, m)
  BY <1>1, <1>2, <1>3 DEF Keeps, SameAside
<1>. QED  BY <1>1, <1>4, <1>5 DEF m

\* A trie that is not changed keeps all.
LEMMA KeepsAll ==
  ASSUME NEW n PROVE Keeps(n, n)
BY DEF Keeps, SameDigests, SameBelow

\* insert_internal: it fails only if a digest stands on the way to the key, and
\* never because a value would have to be in a branch; otherwise the leaves are
\* those from before with the one of the key.
THEOREM InsertIsRight ==
  ASSUME NEW n, NEW len \in Nat, WellFormed(n, len), NEW k \in Path, Len(k) = len, NEW v
  PROVE  LET r == InsertInternal(n, k, v)
         IN  /\ r.error = IF IsReached(n.nodes, k) THEN "none" ELSE "NodeNotResolved"
             /\ r.error # "none" => r.trie = n
             /\ WellFormed(r.trie, len) /\ Keeps(n, r.trie)
             /\ r.error = "none" =>
                  \A j, w : <<j, w>> \in Leaves(r.trie) <=>
                              IF j = k THEN w = v ELSE <<j, w>> \in Leaves(n)
             /\ \A c : LeadsTo(r.trie.nodes, c) /\ IsDigestAt(r.trie.nodes, c) =>
                         LeadsTo(n.nodes, c)
<1> DEFINE f == n.nodes
           p == End(f, k)
           d == f[p]
           own == Nibs(d)
           rest == Drop(k, Len(p))
           r == InsertInternal(n, k, v)
<1>1. Shape(f, len)
  BY DEF WellFormed
\* The change of the nodes is all there is to show.
<1>2. ASSUME NEW g, r = Changed(n, k, g), IsReached(f, k), IsPut(f, g, k, v, len)
      PROVE  /\ r.error = IF IsReached(n.nodes, k) THEN "none" ELSE "NodeNotResolved"
             /\ r.error # "none" => r.trie = n
             /\ WellFormed(r.trie, len) /\ Keeps(n, r.trie)
             /\ r.error = "none" =>
                  \A j, w : <<j, w>> \in Leaves(r.trie) <=>
                              IF j = k THEN w = v ELSE <<j, w>> \in Leaves(n)
             /\ \A c : LeadsTo(r.trie.nodes, c) /\ IsDigestAt(r.trie.nodes, c) =>
                         LeadsTo(n.nodes, c)
  <2> HIDE DEF r
  <2>1. /\ r.error = "none" /\ r.trie.nodes = g /\ WellFormed(r.trie, len) /\ Keeps(n, r.trie)
    BY <1>2, ChangedIs DEF IsPut
  <2>. QED  BY <1>2, <2>1, LeafIn DEF IsPut
<1>3. CASE f = EmptyRoot
  <2> DEFINE g == With(f, <<>>, Leaf(k, v))
  <2>1. DOMAIN f = {}
    BY <1>3 DEF EmptyRoot
  <2>2. r = Changed(n, k, g)
    BY <1>3 DEF InsertInternal
  <2>3. Drop(k, Len(<<>>)) = k
    BY EmptyPath, JoinDropped, EmptyIsPrefix, PathLen DEF Path, Drop
  <2>4. g = With(f, <<>>, Leaf(Drop(k, Len(<<>>)), v))
    BY <2>3
  <2>5. IsPlace(f, <<>>) /\ IsReached(f, k)
    BY <2>1 DEF IsPlace, IsReached
  <2> HIDE DEF g, f, r
  <2>6. IsPut(f, g, k, v, len)
    BY <1>1, <2>1, <2>4, <2>5, EmptyPath, EmptyIsPrefix, PutLeaf
  <2>. QED  BY <1>2, <2>2, <2>5, <2>6 DEF f, r
<1>4. CASE f # EmptyRoot
  <2>1. /\ p \in DOMAIN f /\ IsPrefix(p, k) /\ \A q \in DOMAIN f : IsPrefix(q, k) => IsPrefix(q, p)
        /\ p \in Path /\ Len(p) \in Nat /\ Len(p) <= len
        /\ d.type \in {"leaf", "extension", "branch", "digest"}
        /\ d.type \in {"leaf", "extension"} => own \in Path
    BY <1>1, <1>4, EndIs, PlacedIs
  <2>2. rest \in Path /\ p \o rest = k /\ Len(rest) = len - Len(p)
    <3>1. Len(p) \in 0..Len(k)
      BY <2>1
    <3>. QED  BY <2>1, <3>1, Dropped, JoinDropped
  <2>3. d.type # "digest" => IsReached(f, k)
    BY <1>1, EndIsDigest DEF IsReached
  <2>4. CASE d.type = "digest"
    <3>1. r = Error(n, "NodeNotResolved")
      BY <1>4, <2>4 DEF InsertInternal
    <3>2. ~IsReached(n.nodes, k)
      BY <2>1, <2>4 DEF IsReached
    <3>3. r.error = "NodeNotResolved" /\ r.trie = n
      BY <3>1 DEF Error
    <3> HIDE DEF r
    <3>. QED  BY <3>2, <3>3, KeepsAll DEF r
  <2>5. CASE d.type = "branch"
    <3>1. rest # <<>>
      <4>1. PICK q \in DOMAIN f : Len(q) = Len(p) + 1 /\ Len(q) <= len
        BY <1>1, <2>1, <2>5, PlacedIs
      <4>2. Len(rest) # 0
        BY <2>1, <2>2, <4>1
      <4>. QED  BY <4>2, EmptyPath
    <3> DEFINE s == Append(p, rest[1])
               g == With(f, s, Leaf(Tail(rest), v))
    <3>2. r = Changed(n, k, g)
      BY <1>4, <2>5, <3>1 DEF InsertInternal
    <3>3. s \in Path /\ IsPrefix(p, s) /\ IsPrefix(s, k) /\ Len(s) = Len(p) + 1
          /\ Tail(rest) = Drop(k, Len(s))
      <4>1. Len(rest) > 0
        BY <2>1, <2>2, <3>1, EmptyPath
      <4>2. rest[1] \in Nibble
        BY <2>2, <4>1, PathLen
      <4>3. s \in Path /\ IsPrefix(p, s) /\ Len(s) = Len(p) + 1 /\ s[Len(p) + 1] = rest[1]
        BY <2>1, <4>2, Appended
      <4>4. k[Len(p) + 1] = rest[1]
        <5>1. Len(p) \in 0..Len(k) /\ 1 \in 1..(Len(k) - Len(p))
          BY <2>1, <2>2, <4>1
        <5>. QED  BY <5>1, Dropped
      <4>5. Tail(rest) = Drop(rest, 1)
        BY <2>2, <3>1, TailIsDrop
      <4>6. Drop(k, Len(s)) = Drop(rest, 1)
        <5>1. 1 \in 0..Len(rest)
          BY <2>1, <2>2, <4>1
        <5> HIDE DEF rest, s, p
        <5>2. Drop(p \o rest, Len(p) + 1) = Drop(rest, 1)
          BY <2>1, <2>2, <5>1, DropOfJoin
        <5>. QED  BY <2>2, <4>3, <5>2
      <4>7. Len(p) < Len(k)
        BY <2>1, <2>2, <4>1
      <4> HIDE DEF s, rest, p
      <4>8. IsPrefix(s, k)
        BY <2>1, <4>3, <4>4, <4>7, NextPrefix
      <4>. QED  BY <4>3, <4>5, <4>6, <4>8
    <3>4. g = With(f, s, Leaf(Drop(k, Len(s)), v))
      BY <3>3
    <3>5. IsPlace(f, s)
      BY <2>1, <2>5, <3>3 DEF IsPlace
    <3> HIDE DEF g, f, r, s, rest, p
    <3>6. \A q \in DOMAIN f : ~IsPrefix(s, q)
      <4>1. ASSUME NEW q \in DOMAIN f, IsPrefix(s, q) PROVE FALSE
        <5>1. q \in Path /\ IsPrefix(p, q) /\ q # p
          <6>1. q \in Path
            BY <1>1, PlacedIs
          <6>2. s \in Path /\ p \in Path /\ IsPrefix(p, s) /\ Len(s) = Len(p) + 1
            BY <1>1, <2>1, <3>3
          <6>3. IsPrefix(p, q)
            BY <4>1, <6>1, <6>2, PrefixTrans
          <6>4. Len(s) <= Len(q) /\ Len(p) \in Nat
            BY <4>1, <6>1, <6>2, PrefixLen, PathLen
          <6>. QED  BY <6>1, <6>2, <6>3, <6>4
        <5>2. PICK x \in DOMAIN f : IsPrefix(p, x) /\ Len(x) = Len(p) + 1 /\ IsPrefix(x, q)
          BY <1>1, <2>1, <2>5, <5>1, PlacedIs
        <5>3. x \in Path
          BY <1>1, <5>2, PlacedIs
        <5>4. IsPrefix(x, s) /\ Len(s) = Len(x)
          BY <2>1, <3>3, <4>1, <5>1, <5>2, <5>3, PrefixesCompare
        <5>5. x = s
          BY <2>1, <3>3, <5>2, <5>3, <5>4, PrefixSameLen
        <5>. QED  BY <2>1, <3>3, <5>2, <5>5, PrefixLen
      <4>. QED  BY <4>1
    <3>7. s \notin DOMAIN f
      BY <3>3, <3>6, PrefixRefl
    <3>8. ASSUME NEW q \in DOMAIN f, IsLeafOf(f, q, k) PROVE q = s
      <4>1. q = p /\ f[q].type = "leaf"
        BY <1>1, <3>8, EndIsLeaf DEF p, IsLeafOf
      <4>. QED  BY <2>5, <3>8, <4>1
    <3>9. IsPut(f, g, k, v, len)
      BY <1>1, <3>3, <3>4, <3>5, <3>6, <3>7, <3>8, PutLeaf
    <3>. QED  BY <1>2, <2>3, <2>5, <3>2, <3>9 DEF f, r
  <2>6. CASE d.type = "leaf" /\ own = rest
    <3>1. CASE d.value = v
      <4>1. r = Unchanged(n)
        BY <1>4, <2>6, <3>1 DEF InsertInternal
      <4>2. r.error = "none" /\ r.trie = n
        BY <4>1 DEF Unchanged
      <4>3. ASSUME NEW w PROVE LeafOf(f, k, w) <=> w = v
        <5>1. p \o Nibs(f[p]) = k
          BY <2>2, <2>6
        <5>2. \A q \in DOMAIN f : f[q].type = "leaf" /\ q \o Nibs(f[q]) = k => q = p
          BY <1>1, EndIsLeaf
        <5>. QED  BY <2>1, <2>6, <3>1, <5>1, <5>2 DEF LeafOf
      <4> HIDE DEF r
      <4>. QED  BY <2>3, <2>6, <4>2, <4>3, KeepsAll, LeafIn DEF r
    <3>2. CASE d.value # v
      <4> DEFINE g == With(f, p, Leaf(own, v))
      <4>1. r = Changed(n, k, g)
        BY <1>4, <2>6, <3>2 DEF InsertInternal
      <4>2. g = With(f, p, Leaf(Drop(k, Len(p)), v))
        BY <2>6
      <4>3. IsLeafOf(f, p, k)
        BY <2>2, <2>6 DEF IsLeafOf
      <4>4. \A q \in DOMAIN f : IsLeafOf(f, q, k) => q = p
        BY <1>1, EndIsLeaf DEF IsLeafOf
      <4>5. IsPlace(f, p)
        BY <2>1 DEF IsPlace
      <4>6. \A q \in DOMAIN f : IsPrefix(p, q) => q = p
        BY <1>1, <2>1, <2>6, PlacedIs
      <4>7. p \in Path /\ IsPrefix(p, k)
        BY <2>1
      <4> HIDE DEF g, r, f, p
      <4>8. IsPut(f, g, k, v, len)
        BY <1>1, <4>2, <4>3, <4>4, <4>5, <4>6, <4>7, PutLeaf
      <4>. QED  BY <1>2, <2>3, <2>6, <4>1, <4>8 DEF f, r
    <3>. QED  BY <3>1, <3>2
  <2>7. CASE d.type = "extension" \/ (d.type = "leaf" /\ own # rest)
    <3> DEFINE c == Lcp(own, rest)
    <3>1. /\ c \in 0..Len(own) /\ c <= Len(rest)
          /\ SubSeq(own, 1, c) = SubSeq(rest, 1, c)
      BY <2>1, <2>2, <2>7, CommonPrefix
    <3>2. own \in Path /\ Len(own) \in Nat /\ Len(p \o own) = Len(p) + Len(own)
      BY <2>1, <2>7, Joined, PathLen
    <3>3. c # Len(own)
      <4>1. SUFFICES ASSUME c = Len(own) PROVE FALSE
        OBVIOUS
      <4>2. IsPrefix(own, rest)
        <5> HIDE DEF own, rest, c
        <5>1. ASSUME NEW x \in Path PROVE SubSeq(x, 1, Len(x)) = x
          BY <5>1, PrefixRefl, PrefixIsTake
        <5>2. own = SubSeq(rest, 1, c) /\ c \in 0..Len(rest)
          BY <2>2, <3>1, <3>2, <4>1, <5>1, PathLen
        <5>. QED  BY <2>2, <5>2, Take
      <4>3. CASE d.type = "leaf"
        <5>1. Len(p \o own) = len
          BY <1>1, <2>1, <4>3, PlacedIs
        <5> HIDE DEF own, rest
        <5>2. own = rest
          BY <2>1, <2>2, <3>2, <4>2, <5>1, PrefixSameLen
        <5>. QED  BY <2>7, <4>3, <5>2
      <4>4. CASE d.type = "extension"
        <5>1. p \o own \in DOMAIN f /\ p \o own # p
          BY <1>1, <2>1, <4>4, PlacedIs
        <5> HIDE DEF own, rest, p, f
        <5>2. IsPrefix(p \o own, k)
          <6>1. IsPrefix(p \o own, p \o rest)
            BY <2>1, <2>2, <3>2, <4>2, JoinIsPrefix
          <6>. QED  BY <2>2, <6>1
        <5>3. IsPrefix(p \o own, p)
          BY <2>1, <5>1, <5>2
        <5>4. p \o own \in Path /\ IsPrefix(p, p \o own)
          BY <2>1, <3>2, Joined
        <5>5. p \o own = p
          BY <2>1, <5>3, <5>4, PrefixLen, PrefixSameLen
        <5>. QED  BY <5>1, <5>5
      <4>. QED  BY <2>7, <4>3, <4>4
    <3>4. c # Len(rest)
      <4>1. Len(own) <= Len(rest)
        <5>1. Len(p \o own) <= len
          <6>1. d.type = "leaf" => Len(p \o own) = len
            BY <1>1, <2>1, PlacedIs
          <6>2. d.type = "extension" => p \o own \in DOMAIN f
            BY <1>1, <2>1, PlacedIs
          <6>3. \A q \in DOMAIN f : Len(q) <= len
            BY <1>1, PlacedIs
          <6> DEFINE x == p \o own
          <6> HIDE DEF x, f
          <6>4. d.type = "extension" => x \in DOMAIN f
            BY <6>2 DEF x
          <6>5. d.type = "leaf" => Len(x) = len
            BY <6>1 DEF x
          <6>6. Len(x) <= len
            BY <2>7, <6>3, <6>4, <6>5
          <6>. QED  BY <6>6 DEF x
        <5>. QED  BY <2>1, <2>2, <3>2, <5>1
      <4> HIDE DEF c
      <4>. QED  BY <2>1, <2>2, <3>1, <3>2, <3>3, <4>1
    <3>5. c < Len(own) /\ c < Len(rest)
      <4> HIDE DEF c
      <4>. QED  BY <2>1, <2>2, <3>1, <3>2, <3>3, <3>4
    <3> DEFINE g == Split(f, p, k, v)
    <3>6. r = Changed(n, k, g)
      BY <1>4, <2>7, <3>3, <3>4 DEF InsertInternal
    <3>7. \E common, branch, old, new, left :
            IsSplit(f, p, k, v, g, common, branch, old, new, left)
      BY <1>1, <2>1, <2>7, <3>5, SplitNodes
    <3> HIDE DEF g, r, f, p
    <3>8. IsPut(f, g, k, v, len)
      <4>1. p \in DOMAIN f /\ IsPrefix(p, k) /\ f[p].type \in {"leaf", "extension"}
        BY <2>1, <2>7
      <4>2. \A q \in DOMAIN f : IsPrefix(q, k) => IsPrefix(q, p)
        BY <2>1
      <4>. QED  BY <1>1, <3>7, <4>1, <4>2, SplitIsRight
    <3>. QED  BY <1>2, <2>3, <2>7, <3>6, <3>8 DEF f, r
  <2>. QED  BY <2>1, <2>4, <2>5, <2>6, <2>7
<1>. QED  BY <1>3, <1>4

-----------------------------------------------------------------------------
(* Deletion *)

\* A node next to the way to a key.
IsBeside(c, k) ==
  ~IsPrefix(c, k) /\ \E b \in Path : IsPrefix(b, c) /\ Len(c) = Len(b) + 1 /\ IsPrefix(b, k)

\* The nodes without the leaf of k.
IsRemoved(f, g, k, len) ==
  /\ Shape(g, len)
  /\ \A j, w : LeafOf(g, j, w) <=> j # k /\ LeafOf(f, j, w)
  /\ SameDigests(f, g) /\ SameAside(f, g, k)
  /\ \A c : LeadsTo(g, c) /\ IsDigestAt(g, c) => LeadsTo(f, c) \/ IsBeside(c, k)

\* A leaf is of one key, and a key has one leaf.
LEMMA LeafIsOf ==
  ASSUME NEW f, NEW len \in Nat, Shape(f, len), NEW p \in DOMAIN f, NEW k, IsLeafOf(f, p, k)
  PROVE  /\ k \in Path /\ Len(k) = len /\ IsPrefix(p, k)
         /\ \A q \in DOMAIN f : IsLeafOf(f, q, k) => q = p
<1>1. f[p].type = "leaf" /\ p \o Nibs(f[p]) = k
  BY DEF IsLeafOf
<1>2. p \in Path /\ Nibs(f[p]) \in Path /\ k \in Path /\ Len(k) = len
  BY <1>1, PlacedIs
<1>3. IsPrefix(p, p \o Nibs(f[p]))
  BY <1>2, Joined
<1>4. ASSUME NEW q \in DOMAIN f, IsLeafOf(f, q, k) PROVE q = End(f, k)
  BY <1>4, EndIsLeaf DEF IsLeafOf
<1>. QED  BY <1>1, <1>2, <1>3, <1>4

\* LeafOf, by the node.
LEMMA LeafOfIs ==
  ASSUME NEW f, NEW k, NEW v
  PROVE  LeafOf(f, k, v) <=> \E p \in DOMAIN f : IsLeafOf(f, p, k) /\ f[p].value = v
BY DEF LeafOf, IsLeafOf

\* The parent of a leaf is a branch.
LEMMA LeafParent ==
  ASSUME NEW f, NEW len \in Nat, Shape(f, len), NEW p \in DOMAIN f, f[p].type = "leaf",
         p # <<>>
  PROVE  \E b \in DOMAIN f : f[b].type = "branch" /\ IsPrefix(b, p) /\ Len(p) = Len(b) + 1
<1>1. PICK s \in DOMAIN f :
        /\ IsPrefix(s, p) /\ s # p
        /\ \/ f[s].type = "branch" /\ Len(p) = Len(s) + 1
           \/ f[s].type = "extension" /\ p = s \o Nibs(f[s])
  BY Parent
<1>2. ASSUME f[s].type = "extension", p = s \o Nibs(f[s]) PROVE FALSE
  <2> DEFINE child == s \o Nibs(f[s])
  <2>1. f[child].type \in {"branch", "digest"}
    BY <1>2, PlacedIs
  <2>. QED  BY <1>2, <2>1
<1>. QED  BY <1>1, <1>2

\* A branch keeps two children.
LEMMA RemoveOfMany ==
  ASSUME NEW f, NEW len \in Nat, Shape(f, len), NEW k, NEW p \in DOMAIN f, IsLeafOf(f, p, k),
         NEW b \in DOMAIN f, f[b].type = "branch", IsPrefix(b, p), Len(p) = Len(b) + 1,
         NEW x \in DOMAIN f, NEW y \in DOMAIN f, x # y, x # p, y # p,
         IsPrefix(b, x), IsPrefix(b, y), Len(x) = Len(p), Len(y) = Len(p),
         NEW g, g = Without(f, {p})
  PROVE  IsRemoved(f, g, k, len)
<1>1. DOMAIN g = DOMAIN f \ {p} /\ \A q \in DOMAIN f \ {p} : g[q] = f[q]
  BY DEF Without
<1>2. /\ \A q \in DOMAIN f : q \in Path /\ Len(q) \in Nat
      /\ f[p].type = "leaf" /\ \A q \in DOMAIN f : IsPrefix(p, q) => q = p
      /\ k \in Path /\ IsPrefix(p, k)
      /\ \A q \in DOMAIN f : IsLeafOf(f, q, k) => q = p
      /\ b # p
  <2>1. \A q \in DOMAIN f : q \in Path /\ Len(q) \in Nat
    BY PlacedIs
  <2>2. f[p].type = "leaf"
    BY DEF IsLeafOf
  <2>3. \A q \in DOMAIN f : IsPrefix(p, q) => q = p
    BY <2>2, PlacedIs
  <2>4. k \in Path /\ IsPrefix(p, k) /\ \A q \in DOMAIN f : IsLeafOf(f, q, k) => q = p
    BY LeafIsOf
  <2>5. b # p
    BY <2>1
  <2>. QED  BY <2>1, <2>2, <2>3, <2>4, <2>5
<1>3. ASSUME NEW q \in DOMAIN f, q # p, ~(IsPrefix(q, p))
      PROVE  SameBelow(f, g, q)
  BY <1>1, <1>3 DEF SameBelow
<1>4. Shape(g, len)
  <2>1. DOMAIN g \subseteq Path /\ b \in DOMAIN g
    BY <1>1, <1>2
  <2>2. SameOutside(f, g, b)
    BY <1>1 DEF SameOutside
  <2>3. g[b] = f[b]
    BY <1>1, <1>2
  <2>4. ASSUME NEW q \in DOMAIN g, IsPrefix(b, q), q # b
        PROVE  Len(q) <= len /\ IsNode(g[q]) /\ IsPlaced(g, q, len)
    <3>1. ~IsPrefix(q, p)
      <4>1. SUFFICES ASSUME IsPrefix(q, p) PROVE FALSE
        OBVIOUS
      <4>2. q \in DOMAIN f /\ q # p /\ q \in Path /\ b \in Path /\ p \in Path
        BY <1>1, <1>2
      <4>3. ~(Len(q) <= Len(b)) /\ ~(Len(p) <= Len(q))
        BY <2>4, <4>1, <4>2, PrefixSameLen
      <4>. QED  BY <1>2, <4>2, <4>3
    <3>. QED  BY <1>1, <1>3, <2>1, <3>1, PlacedTheSame
  <2>5. IsPlaced(g, b, len)
    <3>1. ASSUME NEW q \in DOMAIN g, IsPrefix(b, q), q # b
          PROVE  \E r \in DOMAIN g : /\ IsPrefix(b, r) /\ r # b /\ Len(r) = Len(b) + 1
                                     /\ IsPrefix(r, q)
      <4>1. PICK r \in DOMAIN f : IsPrefix(b, r) /\ Len(r) = Len(b) + 1 /\ IsPrefix(r, q)
        BY <1>1, <3>1, PlacedIs
      <4>2. r # b /\ r # p
        BY <1>1, <1>2, <3>1, <4>1
      <4>. QED  BY <1>1, <4>1, <4>2
    <3>2. x # b /\ y # b /\ x \in DOMAIN g /\ y \in DOMAIN g
      BY <1>1, <1>2
    <3>. QED  BY <2>1, <2>3, <3>1, <3>2, MakePlaced
  <2>6. Len(b) <= len /\ IsNode(g[b])
    BY <2>3, PlacedIs
  <2>7. IsPlace(f, b)
    BY DEF IsPlace
  <2>8. g[b].type \in {"branch", "digest"}
    BY <2>3
  <2>. QED  BY <2>1, <2>2, <2>4, <2>5, <2>6, <2>7, <2>8, Graft
<1>5. ASSUME NEW j, NEW w PROVE LeafOf(g, j, w) <=> j # k /\ LeafOf(f, j, w)
  <2>1. \A q \in DOMAIN g : IsLeafOf(g, q, j) <=> IsLeafOf(f, q, j)
    BY <1>1 DEF IsLeafOf
  <2>2. j # k => ~IsLeafOf(f, p, j)
    BY DEF IsLeafOf
  <2>. QED  BY <1>1, <1>2, <2>1, <2>2, LeafOfIs
<1>6. SameDigests(f, g)
  BY <1>1, <1>2 DEF SameDigests, IsDigestAt
<1>7. SameAside(f, g, k)
  <2>1. \A q \in DOMAIN f : IsPrefix(q, p) => IsPrefix(q, k)
    BY <1>2, PrefixTrans
  <2>. QED  BY <1>1, <1>3, <2>1 DEF SameAside
<1>8. \A c : LeadsTo(g, c) => LeadsTo(f, c)
  BY <1>1 DEF LeadsTo
<1>. QED  BY <1>4, <1>5, <1>6, <1>7, <1>8 DEF IsRemoved

\* The nodes without the leaf at p, whose parent b is left with one child, o.
IsCollapse(f, p, b, o, top, g) ==
  LET goes == f[o].type \in {"leaf", "extension"}
  IN  /\ \/ top = b /\ ~LeadsTo(f, b)
         \/ top \in DOMAIN f /\ f[top].type = "extension" /\ top \o Nibs(f[top]) = b
      /\ DOMAIN g = (DOMAIN f \ ({p, b} \union {q \in {o} : goes})) \union {top}
      /\ g[top] = Extend(Drop(o, Len(top)), f[o])
      /\ \A q \in DOMAIN g : q # top => g[q] = f[q]

\* Collapse, node by node: the branch and its orphan are one node, after an extension.
LEMMA CollapseNodes ==
  ASSUME NEW f, NEW p \in DOMAIN f, f[p].type = "leaf",
         NEW b \in DOMAIN f, NEW o \in DOMAIN f, o # p, b # p
  PROVE  \E top : IsCollapse(f, p, b, o, top, Collapse(Without(f, {p}), b, o))
<1> DEFINE h == Without(f, {p})
           above(x) == h[x].type = "extension" /\ x \o Nibs(h[x]) = b
           top == IF \E x \in DOMAIN h : above(x) THEN CHOOSE x \in DOMAIN h : above(x) ELSE b
           gone == {b} \union {q \in {o} : h[q].type \in {"leaf", "extension"}}
           new == Extend(Drop(o, Len(top)), h[o])
           i == Without(h, gone)
           g == With(i, top, new)
<1>1. DOMAIN h = DOMAIN f \ {p} /\ \A q \in DOMAIN f \ {p} : h[q] = f[q]
  BY DEF Without
<1>2. g = Collapse(Without(f, {p}), b, o)
  BY DEF Collapse
<1> HIDE DEF h
<1>3. \/ top = b /\ ~LeadsTo(f, b)
      \/ top \in DOMAIN f /\ f[top].type = "extension" /\ top \o Nibs(f[top]) = b
  <2>1. CASE \E x \in DOMAIN h : above(x)
    <3>1. top \in DOMAIN h /\ above(top)
      BY <2>1
    <3> HIDE DEF top
    <3>. QED  BY <1>1, <3>1
  <2>2. CASE ~\E x \in DOMAIN h : above(x)
    <3>1. top = b
      BY <2>2
    <3>2. ~LeadsTo(f, b)
      BY <1>1, <2>2 DEF LeadsTo
    <3>. QED  BY <3>1, <3>2
  <2>. QED  BY <2>1, <2>2
<1> HIDE DEF top
<1>4. h[o] = f[o]
  BY <1>1
<1>5. /\ DOMAIN i = DOMAIN h \ gone /\ \A q \in DOMAIN h \ gone : i[q] = h[q]
  <2> HIDE DEF gone
  <2>. QED  BY DEF Without
<1> HIDE DEF i, new, gone
<1>6. /\ DOMAIN g = DOMAIN i \union {top} /\ g[top] = new
      /\ \A q \in DOMAIN g : q # top => g[q] = i[q]
  BY DEF With
<1> HIDE DEF g
<1>7. new = Extend(Drop(o, Len(top)), f[o])
  BY <1>4 DEF new
<1>8. gone = {b} \union {q \in {o} : f[o].type \in {"leaf", "extension"}}
  BY <1>4 DEF gone
<1>9. DOMAIN g = (DOMAIN f \ ({p, b} \union {q \in {o} : f[o].type \in {"leaf", "extension"}}))
                   \union {top}
  BY <1>1, <1>5, <1>6, <1>8
<1>10. \A q \in DOMAIN g : q # top => g[q] = f[q]
  BY <1>1, <1>5, <1>6
<1>11. IsCollapse(f, p, b, o, top, g)
  BY <1>3, <1>6, <1>7, <1>9, <1>10 DEF IsCollapse
<1>. QED  BY <1>2, <1>11

\* What the orphan becomes.
LEMMA ExtendIs ==
  ASSUME NEW d, IsNode(d), NEW nibs \in Path, nibs # <<>>, NEW top \in Path
  PROVE  /\ IsNode(Extend(nibs, d))
         /\ d.type \in {"leaf", "extension"} =>
              /\ Extend(nibs, d).type = d.type
              /\ top \o Nibs(Extend(nibs, d)) = (top \o nibs) \o Nibs(d)
         /\ d.type = "leaf" => Extend(nibs, d).value = d.value
         /\ d.type \notin {"leaf", "extension"} =>
              /\ Extend(nibs, d).type = "extension" /\ Nibs(Extend(nibs, d)) = nibs
<1> DEFINE own == Nibs(d)
           e == Extend(nibs, d)
<1>1. d.type \in {"leaf", "extension"} => own \in Path
  BY NodeType
<1> HIDE DEF own
<1>2. own \in Path => /\ nibs \o own \in Path /\ nibs \o own # <<>>
                      /\ top \o (nibs \o own) = (top \o nibs) \o own
  <2>1. SUFFICES ASSUME own \in Path
                 PROVE  /\ nibs \o own \in Path /\ nibs \o own # <<>>
                        /\ top \o (nibs \o own) = (top \o nibs) \o own
    OBVIOUS
  <2>2. nibs \o own \in Path /\ Len(nibs \o own) = Len(nibs) + Len(own)
    BY <2>1, Joined
  <2>3. Len(nibs \o own) # 0
    BY <2>1, <2>2, EmptyPath, PathLen
  <2>4. top \o (nibs \o own) = (top \o nibs) \o own
    BY <2>1, JoinAssoc
  <2>. QED  BY <2>2, <2>3, <2>4, EmptyPath
<1> DEFINE both == nibs \o own
<1>3. own \in Path => both \in Path /\ both # <<>> /\ top \o both = (top \o nibs) \o own
  BY <1>2
<1>4. CASE d.type = "leaf"
  <2> DEFINE x == d.value
  <2>1. e = Leaf(both, x)
    BY <1>4 DEF Extend, own
  <2> HIDE DEF both, e, x
  <2>2. IsNode(e) /\ e.type = "leaf" /\ Nibs(e) = both /\ e.value = x
    BY <1>1, <1>3, <1>4, <2>1, LeafIs
  <2>3. top \o Nibs(e) = (top \o nibs) \o own
    BY <1>1, <1>3, <1>4, <2>2
  <2>. QED  BY <1>4, <2>2, <2>3 DEF own, e, x
<1>5. CASE d.type = "extension"
  <2>1. e = Extension(both)
    BY <1>5 DEF Extend, own
  <2> HIDE DEF both, e
  <2>2. IsNode(e) /\ e.type = "extension" /\ Nibs(e) = both
    BY <1>1, <1>3, <1>5, <2>1, ExtensionIs
  <2>3. top \o Nibs(e) = (top \o nibs) \o own
    BY <1>1, <1>3, <1>5, <2>2
  <2>. QED  BY <1>5, <2>2, <2>3 DEF own, e
<1>6. CASE d.type \notin {"leaf", "extension"}
  <2>1. e = Extension(nibs)
    BY <1>6 DEF Extend
  <2> HIDE DEF e
  <2>2. IsNode(e) /\ e.type = "extension" /\ Nibs(e) = nibs
    BY <2>1, ExtensionIs
  <2>. QED  BY <1>6, <2>2 DEF e
<1>. QED  BY <1>4, <1>5, <1>6

\* delete_internal collapses a branch with one child rightly.
LEMMA CollapseIsRight ==
  ASSUME NEW f, NEW len \in Nat, Shape(f, len), NEW k, NEW p \in DOMAIN f, IsLeafOf(f, p, k),
         NEW b \in DOMAIN f, f[b].type = "branch", IsPrefix(b, p), Len(p) = Len(b) + 1,
         NEW o \in DOMAIN f, o # p, IsPrefix(b, o), Len(o) = Len(p),
         \A q \in DOMAIN f : IsPrefix(b, q) /\ Len(q) = Len(p) => q \in {p, o},
         NEW g, \E top : IsCollapse(f, p, b, o, top, g)
  PROVE  IsRemoved(f, g, k, len)
<1>. PICK top : IsCollapse(f, p, b, o, top, g)
  OBVIOUS
<1> DEFINE d == f[o]
           nibs == Drop(o, Len(top))
           own == Nibs(f[o])
           goes == d.type \in {"leaf", "extension"}
<1>1. /\ \A q \in DOMAIN f : q \in Path /\ Len(q) \in Nat /\ Len(q) <= len
      /\ f[p].type = "leaf" /\ \A q \in DOMAIN f : IsPrefix(p, q) => q = p
      /\ k \in Path /\ IsPrefix(p, k)
      /\ \A q \in DOMAIN f : IsLeafOf(f, q, k) => q = p
      /\ b # p /\ b # o
  <2>1. \A q \in DOMAIN f : q \in Path /\ Len(q) \in Nat /\ Len(q) <= len
    BY PlacedIs
  <2>2. f[p].type = "leaf" /\ \A q \in DOMAIN f : IsPrefix(p, q) => q = p
    BY PlacedIs DEF IsLeafOf
  <2>3. k \in Path /\ IsPrefix(p, k) /\ \A q \in DOMAIN f : IsLeafOf(f, q, k) => q = p
    BY LeafIsOf
  <2>. QED  BY <2>1, <2>2, <2>3
<1>2. /\ \/ top = b /\ ~LeadsTo(f, b)
         \/ f[top].type = "extension" /\ top \o Nibs(f[top]) = b
      /\ top \in DOMAIN f
      /\ DOMAIN g = (DOMAIN f \ ({p, b} \union {q \in {o} : goes})) \union {top}
      /\ g[top] = Extend(nibs, d)
      /\ \A q \in DOMAIN g : q # top => g[q] = f[q]
  BY DEF IsCollapse
<1>3. /\ IsPrefix(top, b) /\ IsPrefix(top, p) /\ IsPrefix(top, o) /\ IsPrefix(top, k)
      /\ IsPrefix(b, k) /\ ~IsPrefix(o, k)
      /\ top # p /\ top # o /\ Len(top) <= Len(b)
  <2>1. IsPrefix(top, b)
    <3>1. f[top].type = "extension" => IsPrefix(top, top \o Nibs(f[top]))
      BY <1>2, PlacedIs
    <3>. QED  BY <1>1, <1>2, <3>1, PrefixRefl
  <2>2. IsPrefix(top, p) /\ IsPrefix(top, o) /\ IsPrefix(b, k)
    BY <1>1, <1>2, <2>1, PrefixTrans
  <2>3. IsPrefix(top, k)
    BY <1>1, <1>2, <2>2, PrefixTrans
  <2>4. Len(top) <= Len(b)
    BY <1>1, <1>2, <2>1, PrefixLen
  <2>5. ASSUME IsPrefix(o, k) PROVE FALSE
    <3>1. IsPrefix(o, p)
      BY <1>1, <2>5, PrefixesCompare
    <3>. QED  BY <1>1, <3>1, PrefixSameLen
  <2>. QED  BY <1>1, <1>2, <2>1, <2>2, <2>3, <2>4, <2>5
<1>4. nibs \in Path /\ nibs # <<>> /\ top \o nibs = o
  <2>1. Len(top) \in 0..Len(o)
    BY <1>1, <1>2, <1>3
  <2>2. nibs \in Path /\ top \o nibs = o /\ Len(nibs) = Len(o) - Len(top)
    BY <1>1, <1>2, <1>3, <2>1, Dropped, JoinDropped
  <2>3. Len(nibs) # 0
    BY <1>1, <1>2, <1>3, <2>2
  <2>. QED  BY <2>2, <2>3, EmptyPath
<1> HIDE DEF nibs
\* What becomes of the orphan.
<1>5. /\ IsNode(g[top])
      /\ goes => g[top].type = d.type /\ top \o Nibs(g[top]) = o \o own
      /\ d.type = "leaf" => g[top].value = d.value
      /\ ~goes => g[top].type = "extension" /\ top \o Nibs(g[top]) = o
  <2>1. IsNode(d)
    BY PlacedIs
  <2>2. top \in Path
    BY <1>1, <1>2
  <2> DEFINE e == Extend(nibs, d)
  <2>3. /\ IsNode(e)
        /\ goes => e.type = d.type /\ top \o Nibs(e) = (top \o nibs) \o Nibs(d)
        /\ d.type = "leaf" => e.value = d.value
        /\ ~goes => e.type = "extension" /\ Nibs(e) = nibs
    <3> HIDE DEF d
    <3>. QED  BY <1>4, <2>1, <2>2, ExtendIs
  <2>4. g[top] = e
    BY <1>2
  <2> HIDE DEF e, d
  <2>5. (top \o nibs) \o Nibs(d) = o \o own
    BY <1>4 DEF d
  <2>. QED  BY <1>4, <2>3, <2>4, <2>5
\* The nodes of f below top.
<1>6. ASSUME NEW q \in DOMAIN f, IsPrefix(top, q) PROVE q \in {top, b, p} \/ IsPrefix(o, q)
  <2>1. q = top \/ IsPrefix(b, q)
    <3>1. f[top].type = "extension" /\ q # top => IsPrefix(top \o Nibs(f[top]), q)
      BY <1>2, <1>6, PlacedIs
    <3>. QED  BY <1>2, <1>6, <3>1
  <2>2. SUFFICES ASSUME IsPrefix(b, q), q # b PROVE q = p \/ IsPrefix(o, q)
    BY <2>1
  <2>3. PICK r \in DOMAIN f : IsPrefix(b, r) /\ Len(r) = Len(b) + 1 /\ IsPrefix(r, q)
    BY <2>2, PlacedIs
  <2>4. r = p \/ r = o
    BY <2>3
  <2>. QED  BY <1>1, <2>3, <2>4
\* Those of g.
<1>7. ASSUME NEW q \in DOMAIN g, IsPrefix(top, q), q # top
      PROVE  /\ q \in DOMAIN f /\ g[q] = f[q] /\ IsPrefix(o, q)
             /\ SameBelow(f, g, q) /\ (q = o => ~goes)
  <2>1. q \in DOMAIN f /\ g[q] = f[q] /\ (q = o => ~goes) /\ q # p /\ q # b
    BY <1>2, <1>7
  <2>2. IsPrefix(o, q)
    BY <1>6, <1>7, <2>1
  <2>3. ASSUME NEW r \in Path, IsPrefix(q, r)
        PROVE  (r \in DOMAIN g <=> r \in DOMAIN f) /\ (r \in DOMAIN f => g[r] = f[r])
    <3>1. IsPrefix(o, r)
      BY <1>1, <2>1, <2>2, <2>3, PrefixTrans
    <3>2. r # p /\ r # b /\ r # top
      BY <1>1, <1>2, <1>3, <3>1, PrefixLen, PrefixSameLen
    <3>3. r = o => ~goes
      BY <1>1, <2>1, <2>2, <2>3, PrefixLen, PrefixSameLen
    <3>. QED  BY <1>2, <3>2, <3>3
  <2>. QED  BY <2>1, <2>2, <2>3 DEF SameBelow
<1>8. Shape(g, len)
  <2>1. DOMAIN g \subseteq Path /\ top \in DOMAIN g
    BY <1>1, <1>2
  <2>2. SameOutside(f, g, top)
    <3>1. ASSUME NEW q \in Path, ~IsPrefix(top, q)
          PROVE  (q \in DOMAIN g <=> q \in DOMAIN f) /\ (q \in DOMAIN f => g[q] = f[q])
      <4>1. q # top /\ q # b /\ q # p /\ q # o
        BY <1>1, <1>2, <1>3, <3>1, PrefixRefl
      <4>. QED  BY <1>2, <4>1
    <3>. QED  BY <3>1 DEF SameOutside
  <2>3. ASSUME NEW q \in DOMAIN f, f[q].type = "extension", q \o Nibs(f[q]) = top
        PROVE  FALSE
    <3> DEFINE child == q \o Nibs(f[q])
    <3>1. f[child].type \in {"branch", "digest"}
      BY <2>3, PlacedIs
    <3>2. top = b
      BY <1>2, <2>3, <3>1
    <3>. QED  BY <1>2, <2>3, <3>2 DEF LeadsTo
  <2>4. IsPlace(f, top)
    BY <1>2 DEF IsPlace
  <2>5. IsPlaced(g, top, len)
    <3>1. CASE d.type = "leaf"
      <4>1. Len(o \o own) = len /\ \A q \in DOMAIN f : IsPrefix(o, q) => q = o
        BY <3>1, PlacedIs
      <4>2. Len(top \o Nibs(g[top])) = len /\ g[top].type = "leaf"
        BY <1>5, <3>1, <4>1
      <4>3. \A q \in DOMAIN g : IsPrefix(top, q) => q = top
        BY <1>7, <3>1, <4>1
      <4>. QED  BY <2>1, <4>2, <4>3, MakePlaced
    <3>2. CASE d.type = "extension"
      <4> DEFINE child == o \o own
      <4>1. /\ child \in DOMAIN f /\ child # o /\ IsPrefix(o, child)
            /\ f[child].type \in {"branch", "digest"}
            /\ \A q \in DOMAIN f : IsPrefix(o, q) /\ q # o => IsPrefix(child, q)
        BY <3>2, PlacedIs
      <4>2. g[top].type = "extension" /\ top \o Nibs(g[top]) = child
        BY <1>5, <3>2
      <4> HIDE DEF child
      <4>3. child # p /\ child # b /\ child # top /\ IsPrefix(top, child)
        <5>1. child \in Path
          BY <1>1, <4>1
        <5>2. IsPrefix(top, child)
          BY <1>1, <1>2, <1>3, <4>1, <5>1, PrefixTrans
        <5>3. child # p
          BY <1>1, <4>1, PrefixSameLen
        <5>. QED  BY <1>1, <1>2, <1>3, <4>1, <5>1, <5>2, <5>3, PrefixLen
      <4>4. child \in DOMAIN g /\ g[child] = f[child]
        BY <1>2, <4>1, <4>3
      <4>5. \A q \in DOMAIN g : IsPrefix(top, q) /\ q # top => IsPrefix(child, q)
        BY <1>7, <3>2, <4>1
      <4>. QED  BY <2>1, <4>1, <4>2, <4>3, <4>4, <4>5, MakePlaced
    <3>3. CASE ~goes
      <4>1. d.type \in {"branch", "digest"}
        BY <3>3, PlacedIs
      <4>2. o \in DOMAIN g /\ g[o] = f[o]
        BY <1>1, <1>2, <1>3, <3>3
      <4>. QED  BY <1>3, <1>5, <1>7, <2>1, <3>3, <4>1, <4>2, MakePlaced
    <3>. QED  BY <3>1, <3>2, <3>3
  <2>6. ASSUME NEW q \in DOMAIN g, IsPrefix(top, q)
        PROVE  Len(q) <= len /\ IsNode(g[q]) /\ IsPlaced(g, q, len)
    <3>1. CASE q = top
      BY <1>1, <1>2, <1>5, <2>5, <3>1
    <3>2. CASE q # top
      BY <1>7, <2>1, <2>6, <3>2, PlacedTheSame
    <3>. QED  BY <3>1, <3>2
  <2>. QED  BY <2>1, <2>2, <2>3, <2>4, <2>6, Graft
<1>9. ASSUME NEW j, NEW w PROVE LeafOf(g, j, w) <=> j # k /\ LeafOf(f, j, w)
  <2>1. \A q \in DOMAIN g : q # top => (IsLeafOf(g, q, j) <=> IsLeafOf(f, q, j)) /\ g[q] = f[q]
    BY <1>2 DEF IsLeafOf
  <2>2. ~IsLeafOf(f, b, j) /\ ~IsLeafOf(f, top, j) /\ (IsLeafOf(f, p, j) => j = k)
    BY <1>2 DEF IsLeafOf
  <2>3. IsLeafOf(g, top, j) <=> IsLeafOf(f, o, j)
    BY <1>5 DEF IsLeafOf
  <2>4. IsLeafOf(f, o, j) => g[top].value = f[o].value
    BY <1>5 DEF IsLeafOf
  <2>5. ASSUME LeafOf(g, j, w) PROVE j # k /\ LeafOf(f, j, w)
    <3>1. PICK q \in DOMAIN g : IsLeafOf(g, q, j) /\ g[q].value = w
      BY <2>5, LeafOfIs
    <3>2. CASE q = top
      <4>1. IsLeafOf(f, o, j) /\ f[o].value = w
        BY <2>3, <2>4, <3>1, <3>2
      <4>2. j # k
        BY <1>1, <4>1
      <4>. QED  BY <4>1, <4>2, LeafOfIs
    <3>3. CASE q # top
      <4>1. q \in DOMAIN f /\ q # p /\ IsLeafOf(f, q, j) /\ f[q].value = w
        BY <1>2, <2>1, <3>1, <3>3
      <4>2. j # k
        BY <1>1, <4>1
      <4>. QED  BY <4>1, <4>2, LeafOfIs
    <3>. QED  BY <3>2, <3>3
  <2>6. ASSUME j # k, LeafOf(f, j, w) PROVE LeafOf(g, j, w)
    <3>1. PICK q \in DOMAIN f : IsLeafOf(f, q, j) /\ f[q].value = w
      BY <2>6, LeafOfIs
    <3>2. CASE q = o
      <4>1. top \in DOMAIN g /\ IsLeafOf(g, top, j) /\ g[top].value = w
        BY <1>2, <2>3, <2>4, <3>1, <3>2
      <4>. QED  BY <4>1, LeafOfIs
    <3>3. CASE q # o
      <4>1. q # p /\ q # b /\ q # top
        BY <2>2, <2>6, <3>1
      <4>2. q \in DOMAIN g
        BY <1>2, <3>3, <4>1
      <4>. QED  BY <2>1, <3>1, <4>1, <4>2, LeafOfIs
    <3>. QED  BY <3>2, <3>3
  <2>. QED  BY <2>5, <2>6
<1>10. SameDigests(f, g)
  <2>1. ASSUME NEW q, IsDigestAt(f, q) PROVE IsDigestAt(g, q) /\ g[q] = f[q]
    <3>1. q # p /\ q # b /\ q # top /\ (q = o => ~goes)
      BY <1>1, <1>2, <2>1 DEF IsDigestAt
    <3>. QED  BY <1>2, <2>1, <3>1 DEF IsDigestAt
  <2>2. ASSUME NEW q, IsDigestAt(g, q) PROVE IsDigestAt(f, q)
    <3>1. q # top
      BY <1>5, <2>2 DEF IsDigestAt
    <3>. QED  BY <1>2, <2>2, <3>1 DEF IsDigestAt
  <2>. QED  BY <2>1, <2>2 DEF SameDigests
<1>11. SameAside(f, g, k)
  <2>1. SUFFICES ASSUME NEW q \in DOMAIN f, q \in DOMAIN g, ~IsPrefix(q, k),
                        NEW r \in Path, IsPrefix(q, r)
                 PROVE  (r \in DOMAIN g <=> r \in DOMAIN f) /\ (r \in DOMAIN f => g[r] = f[r])
    BY DEF SameAside, SameBelow
  <2>2. r # p /\ r # b /\ r # top
    BY <1>1, <1>2, <1>3, <2>1, PrefixTrans
  <2>3. r = o => ~goes
    <3>1. SUFFICES ASSUME r = o, goes PROVE FALSE
      OBVIOUS
    <3>2. q # o
      BY <1>1, <1>2, <1>3, <2>1, <3>1
    <3>3. Len(q) <= Len(b)
      <4>1. Len(q) <= Len(o) /\ ~(Len(o) <= Len(q))
        BY <1>1, <2>1, <3>1, <3>2, PrefixLen, PrefixSameLen
      <4>. QED  BY <1>1, <2>1, <4>1
    <3>4. IsPrefix(q, b)
      BY <1>1, <2>1, <3>1, <3>3, PrefixesCompare
    <3>. QED  BY <1>1, <1>3, <2>1, <3>4, PrefixTrans
  <2>. QED  BY <1>2, <2>2, <2>3
<1>12. ASSUME NEW c, LeadsTo(g, c), IsDigestAt(g, c) PROVE LeadsTo(f, c) \/ IsBeside(c, k)
  <2>1. PICK q \in DOMAIN g : g[q].type = "extension" /\ q \o Nibs(g[q]) = c
    BY <1>12 DEF LeadsTo
  <2>2. CASE q # top
    BY <1>2, <2>1, <2>2 DEF LeadsTo
  <2>3. CASE q = top /\ goes
    <3>1. d.type = "extension" /\ c = o \o own
      BY <1>5, <2>1, <2>3
    <3>. QED  BY <3>1 DEF LeadsTo
  <2>4. CASE q = top /\ ~goes
    <3>1. c = o
      BY <1>5, <2>1, <2>4
    <3>2. b \in Path /\ IsPrefix(b, c) /\ Len(c) = Len(b) + 1 /\ IsPrefix(b, k) /\ ~IsPrefix(c, k)
      BY <1>1, <1>3, <3>1
    <3>. QED  BY <3>2 DEF IsBeside
  <2>. QED  BY <2>2, <2>3, <2>4
<1>. QED  BY <1>8, <1>9, <1>10, <1>11, <1>12 DEF IsRemoved

\* Whatever a leaf is in, delete_internal removes it and nothing else.
LEMMA RemoveLeafIsRight ==
  ASSUME NEW f, NEW len \in Nat, Shape(f, len), NEW k, NEW p \in DOMAIN f, IsLeafOf(f, p, k)
  PROVE  IsRemoved(f, RemoveLeaf(f, p), k, len)
<1> DEFINE g == RemoveLeaf(f, p)
           remaining == {q \in DOMAIN f : Len(q) = Len(p) /\ IsPrefix(Front(p), q)} \ {p}
<1>1. /\ \A q \in DOMAIN f : q \in Path /\ Len(q) \in Nat
      /\ f[p].type = "leaf" /\ \A q \in DOMAIN f : IsPrefix(p, q) => q = p
      /\ k \in Path
  <2>1. f[p].type = "leaf"
    BY DEF IsLeafOf
  <2>2. k \in Path
    BY LeafIsOf
  <2>. QED  BY <2>1, <2>2, PlacedIs
<1>2. CASE p = <<>>
  <2>1. DOMAIN f = {p}
    BY <1>1, <1>2, EmptyIsPrefix
  <2>2. g = EmptyRoot
    BY <1>2 DEF RemoveLeaf
  <2> HIDE DEF g
  <2>3. DOMAIN g = {}
    BY <2>2 DEF EmptyRoot
  <2>4. Shape(g, len)
    BY <2>2, <2>3 DEF Shape
  <2>5. ASSUME NEW j, NEW w PROVE LeafOf(g, j, w) <=> j # k /\ LeafOf(f, j, w)
    BY <2>1, <2>3 DEF LeafOf, IsLeafOf
  <2>6. SameDigests(f, g)
    BY <1>1, <2>1, <2>3 DEF SameDigests, IsDigestAt
  <2>7. SameAside(f, g, k)
    BY <2>3 DEF SameAside
  <2>8. \A c : ~LeadsTo(g, c)
    BY <2>3 DEF LeadsTo
  <2>. QED  BY <2>4, <2>5, <2>6, <2>7, <2>8 DEF IsRemoved, g
<1>3. CASE p # <<>>
  <2>1. PICK b \in DOMAIN f : f[b].type = "branch" /\ IsPrefix(b, p) /\ Len(p) = Len(b) + 1
    BY <1>1, <1>3, LeafParent
  <2>2. Front(p) = b
    <3>1. b = SubSeq(p, 1, Len(b)) /\ Len(p) - 1 = Len(b)
      BY <1>1, <2>1, PrefixIsTake
    <3>. QED  BY <3>1 DEF Front
  <2>3. \A q : q \in remaining <=> q \in DOMAIN f /\ q # p /\ Len(q) = Len(p) /\ IsPrefix(b, q)
    BY <2>2
  <2>4. g = IF \E q \in remaining : remaining = {q}
            THEN Collapse(Without(f, {p}), b, CHOOSE q \in remaining : TRUE)
            ELSE Without(f, {p})
    BY <1>3, <2>2 DEF RemoveLeaf
  <2>5. PICK x \in DOMAIN f, y \in DOMAIN f :
          /\ IsPrefix(b, x) /\ IsPrefix(b, y) /\ Len(x) = Len(p) /\ Len(y) = Len(p) /\ x # y
    BY <2>1, PlacedIs
  <2> HIDE DEF g, remaining
  <2>6. x \in remaining \/ y \in remaining
    BY <2>3, <2>5
  <2>7. CASE \E q \in remaining : remaining = {q}
    <3>1. PICK o \in remaining : remaining = {o}
      BY <2>7
    <3>2. (CHOOSE q \in remaining : TRUE) = o
      BY <3>1
    <3>3. g = Collapse(Without(f, {p}), b, o)
      BY <2>4, <2>7, <3>2
    <3>4. o \in DOMAIN f /\ o # p /\ Len(o) = Len(p) /\ IsPrefix(b, o)
      BY <2>3, <3>1
    <3>5. \A q \in DOMAIN f : IsPrefix(b, q) /\ Len(q) = Len(p) => q \in {p, o}
      BY <2>3, <3>1
    <3>6. b # p
      BY <1>1, <2>1
    <3>7. \E top : IsCollapse(f, p, b, o, top, g)
      BY <1>1, <3>3, <3>4, <3>6, CollapseNodes
    <3>. QED  BY <2>1, <3>4, <3>5, <3>7, CollapseIsRight DEF g
  <2>8. CASE ~\E q \in remaining : remaining = {q}
    <3>1. PICK u \in remaining, v \in remaining : u # v
      BY <2>6, <2>8
    <3>2. /\ u \in DOMAIN f /\ u # p /\ Len(u) = Len(p) /\ IsPrefix(b, u)
          /\ v \in DOMAIN f /\ v # p /\ Len(v) = Len(p) /\ IsPrefix(b, v)
      BY <2>3, <3>1
    <3>3. g = Without(f, {p})
      BY <2>4, <2>8
    <3>. QED  BY <2>1, <3>1, <3>2, <3>3, RemoveOfMany DEF g
  <2>. QED  BY <2>7, <2>8
<1>. QED  BY <1>2, <1>3

\* delete_internal: it fails only if a digest stands on the way to the key, and
\* never because there would be a value in a branch; otherwise the leaves are
\* those from before without the one of the key.  The orphan of a collapsed
\* branch may be a digest, then next to the key, that an extension leads to.
THEOREM DeleteIsRight ==
  ASSUME NEW n, NEW len \in Nat, WellFormed(n, len), NEW k \in Path, Len(k) = len
  PROVE  LET r == DeleteInternal(n, k)
         IN  /\ r.error = IF IsReached(n.nodes, k) THEN "none" ELSE "NodeNotResolved"
             /\ r.error # "none" => r.trie = n
             /\ WellFormed(r.trie, len) /\ Keeps(n, r.trie)
             /\ r.error = "none" =>
                  \A j, w : <<j, w>> \in Leaves(r.trie) <=> j # k /\ <<j, w>> \in Leaves(n)
             /\ \A c : LeadsTo(r.trie.nodes, c) /\ IsDigestAt(r.trie.nodes, c) =>
                         LeadsTo(n.nodes, c) \/ IsBeside(c, k)
<1> DEFINE f == n.nodes
           p == End(f, k)
           d == f[p]
           rest == Drop(k, Len(p))
           r == DeleteInternal(n, k)
           g == RemoveLeaf(f, p)
<1>1. Shape(f, len)
  BY DEF WellFormed
\* Without a leaf of the key nothing is changed.
<1>2. ASSUME r = Unchanged(n), IsReached(f, k), \A q \in DOMAIN f : ~IsLeafOf(f, q, k)
      PROVE  /\ r.error = IF IsReached(n.nodes, k) THEN "none" ELSE "NodeNotResolved"
             /\ r.error # "none" => r.trie = n
             /\ WellFormed(r.trie, len) /\ Keeps(n, r.trie)
             /\ r.error = "none" =>
                  \A j, w : <<j, w>> \in Leaves(r.trie) <=> j # k /\ <<j, w>> \in Leaves(n)
             /\ \A c : LeadsTo(r.trie.nodes, c) /\ IsDigestAt(r.trie.nodes, c) =>
                         LeadsTo(n.nodes, c) \/ IsBeside(c, k)
  <2>1. r.error = "none" /\ r.trie = n
    BY <1>2 DEF Unchanged
  <2>2. \A w : ~LeafOf(f, k, w)
    BY <1>2, LeafOfIs
  <2> HIDE DEF r
  <2>. QED  BY <1>2, <2>1, <2>2, KeepsAll, LeafIn
<1>3. CASE f = EmptyRoot
  <2>1. DOMAIN f = {}
    BY <1>3 DEF EmptyRoot
  <2>2. r = Unchanged(n)
    BY <1>3 DEF DeleteInternal
  <2>3. IsReached(f, k)
    BY <2>1 DEF IsReached
  <2> HIDE DEF r, f
  <2>. QED  BY <1>2, <2>1, <2>2, <2>3 DEF r, f
<1>4. CASE f # EmptyRoot
  <2>1. /\ p \in DOMAIN f /\ IsPrefix(p, k) /\ p \in Path /\ Len(p) <= len /\ Len(p) \in Nat
        /\ d.type \in {"leaf", "extension", "branch", "digest"}
    BY <1>1, <1>4, EndIs, PlacedIs
  <2>2. rest \in Path /\ p \o rest = k /\ Len(rest) = len - Len(p)
    <3>1. Len(p) \in 0..Len(k)
      BY <2>1
    <3>. QED  BY <2>1, <3>1, Dropped, JoinDropped
  <2>3. d.type # "digest" => IsReached(f, k)
    BY <1>1, EndIsDigest DEF IsReached
  <2>4. \A q \in DOMAIN f : IsLeafOf(f, q, k) => q = p
    BY <1>1, EndIsLeaf DEF IsLeafOf
  <2>5. CASE d.type = "digest"
    <3>1. r = Error(n, "NodeNotResolved")
      BY <1>4, <2>5 DEF DeleteInternal
    <3>2. ~IsReached(n.nodes, k)
      BY <2>1, <2>5 DEF IsReached
    <3>3. r.error = "NodeNotResolved" /\ r.trie = n
      BY <3>1 DEF Error
    <3> HIDE DEF r
    <3>. QED  BY <3>2, <3>3, KeepsAll DEF r
  <2>6. CASE d.type = "leaf" /\ Nibs(d) = rest
    <3>1. r = Changed(n, k, g)
      BY <1>4, <2>6 DEF DeleteInternal
    <3>2. IsLeafOf(f, p, k)
      BY <2>2, <2>6 DEF IsLeafOf
    <3> HIDE DEF g, r, f, p
    <3>3. IsRemoved(f, g, k, len)
      BY <1>1, <2>1, <3>2, RemoveLeafIsRight DEF g
    <3>4. /\ r.error = "none" /\ r.trie.nodes = g /\ WellFormed(r.trie, len) /\ Keeps(n, r.trie)
      BY <3>1, <3>3, ChangedIs DEF IsRemoved, f
    <3>5. IsReached(n.nodes, k)
      BY <2>3, <2>6 DEF f
    <3>6. \A j, w : <<j, w>> \in Leaves(r.trie) <=> j # k /\ <<j, w>> \in Leaves(n)
      BY <3>3, <3>4, LeafIn DEF IsRemoved, f
    <3>7. \A c : LeadsTo(g, c) /\ IsDigestAt(g, c) => LeadsTo(f, c) \/ IsBeside(c, k)
      BY <3>3 DEF IsRemoved
    <3>. QED  BY <3>4, <3>5, <3>6, <3>7 DEF f, r
  <2>7. CASE d.type # "digest" /\ ~(d.type = "leaf" /\ Nibs(d) = rest)
    <3>1. ~(d.type = "branch" /\ rest = <<>>)
      <4>1. SUFFICES ASSUME d.type = "branch", rest = <<>> PROVE FALSE
        OBVIOUS
      <4>2. PICK q \in DOMAIN f : Len(q) = Len(p) + 1 /\ Len(q) <= len
        BY <1>1, <2>1, <4>1, PlacedIs
      <4>. QED  BY <2>1, <2>2, <4>1, <4>2, EmptyPath
    <3>2. r = Unchanged(n)
      BY <1>4, <2>7, <3>1 DEF DeleteInternal
    <3>3. ~IsLeafOf(f, p, k)
      <4>1. SUFFICES ASSUME IsLeafOf(f, p, k) PROVE FALSE
        OBVIOUS
      <4>2. d.type = "leaf" /\ p \o Nibs(d) = k
        BY <4>1 DEF IsLeafOf
      <4>3. Nibs(d) \in Path
        BY <1>1, <2>1, <4>2, PlacedIs
      <4> DEFINE own == Nibs(d)
      <4>4. p \o own = k /\ own \in Path
        BY <4>2, <4>3
      <4>5. own # rest
        BY <2>7, <4>2
      <4> HIDE DEF own, p
      <4>. QED  BY <2>1, <4>4, <4>5, DropJoined
    <3>. QED  BY <1>2, <2>3, <2>4, <2>7, <3>2, <3>3
  <2>. QED  BY <2>1, <2>5, <2>6, <2>7
<1>. QED  BY <1>3, <1>4

-----------------------------------------------------------------------------
(* Tries of which some part is not resolved *)

\* Below, node by node.
LEMMA BelowIs ==
  ASSUME NEW f, DOMAIN f \subseteq Path, NEW p \in Path
  PROVE  /\ \A q : q \in DOMAIN Below(f, p) <=> q \in Path /\ p \o q \in DOMAIN f
         /\ \A q \in DOMAIN Below(f, p) : Below(f, p)[q] = f[p \o q]
         /\ \A r \in DOMAIN f : IsPrefix(p, r) =>
              /\ Drop(r, Len(p)) \in DOMAIN Below(f, p)
              /\ Below(f, p)[Drop(r, Len(p))] = f[r]
<1> DEFINE S == {Drop(r, Len(p)) : r \in {s \in DOMAIN f : IsPrefix(p, s)}}
           b == Below(f, p)
<1>1. b = [q \in S |-> f[p \o q]]
  BY DEF Below
<1>2. ASSUME NEW r \in DOMAIN f, IsPrefix(p, r)
      PROVE  Drop(r, Len(p)) \in Path /\ p \o Drop(r, Len(p)) = r
  <2>1. r \in Path /\ Len(p) \in 0..Len(r)
    BY <1>2, PrefixLen, PathLen
  <2>. QED  BY <1>2, <2>1, Dropped, JoinDropped
<1>3. ASSUME NEW q PROVE q \in S <=> q \in Path /\ p \o q \in DOMAIN f
  <2>1. q \in S => q \in Path /\ p \o q \in DOMAIN f
    BY <1>2
  <2>2. ASSUME q \in Path, p \o q \in DOMAIN f PROVE q \in S
    <3>1. IsPrefix(p, p \o q) /\ Drop(p \o q, Len(p)) = q
      BY <2>2, Joined, DropJoined
    <3>. QED  BY <2>2, <3>1
  <2>. QED  BY <2>1, <2>2
<1>4. \A r \in DOMAIN f : IsPrefix(p, r) => Drop(r, Len(p)) \in S
  OBVIOUS
<1> HIDE DEF S, b
<1>5. DOMAIN b = S /\ \A q \in S : b[q] = f[p \o q]
  BY <1>1
<1>6. \A r \in DOMAIN f : IsPrefix(p, r) => b[Drop(r, Len(p))] = f[r]
  <2>1. SUFFICES ASSUME NEW r \in DOMAIN f, IsPrefix(p, r) PROVE b[Drop(r, Len(p))] = f[r]
    OBVIOUS
  <2>2. b[Drop(r, Len(p))] = f[p \o Drop(r, Len(p))]
    BY <1>4, <1>5, <2>1
  <2>. QED  BY <1>2, <2>1, <2>2
<1>. QED  BY <1>3, <1>4, <1>5, <1>6 DEF b

\* A trie that is not below any of the references is the same with them in place
\* of what they are the references of.
LEMMA ExpandIs ==
  ASSUME NEW F, F = [p \in DOMAIN F |-> F[p]], DOMAIN F \subseteq Path,
         NEW f, DOMAIN f \subseteq Path,
         NEW refs, DOMAIN refs \subseteq Path,
         \A p \in DOMAIN refs : refs[p] = Below(F, p),
         \A r \in Path : (\A q \in DOMAIN refs : ~IsPrefix(q, r)) =>
           (r \in DOMAIN f <=> r \in DOMAIN F) /\ (r \in DOMAIN f => f[r] = F[r])
  PROVE  Expand(f, refs) = F
<1> DEFINE first == {p \in DOMAIN refs : \A q \in DOMAIN refs : ~IsStrictPrefix(q, p)}
           open == {p \in DOMAIN f : \A q \in DOMAIN refs : ~IsPrefix(q, p)}
           under == UNION {{p \o q : q \in DOMAIN refs[p]} : p \in first}
           new(r) == IF r \in open THEN f[r]
                     ELSE LET p == CHOOSE q \in first : IsPrefix(q, r)
                          IN  refs[p][Drop(r, Len(p))]
           e == Expand(f, refs)
<1>1. e = [r \in open \union under |-> new(r)]
  BY DEF Expand
\* The first reference on the way to a path.
<1>2. ASSUME NEW r \in Path, NEW q \in DOMAIN refs, IsPrefix(q, r)
      PROVE  \E p \in first : IsPrefix(p, r)
  <2> DEFINE S == {Len(s) : s \in {u \in DOMAIN refs : IsPrefix(u, r)}}
  <2>1. S \subseteq Nat /\ S # {}
    BY <1>2, PathLen
  <2>2. PICK n \in S : \A m \in S : n <= m
    <3> HIDE DEF S
    <3>. QED  BY <2>1, LeastNat
  <2>3. PICK p \in DOMAIN refs : IsPrefix(p, r) /\ \A u \in DOMAIN refs : IsPrefix(u, r) => Len(p) <= Len(u)
    BY <2>2
  <2>4. ASSUME NEW u \in DOMAIN refs, IsStrictPrefix(u, p) PROVE FALSE
    <3>1. u \in Path /\ p \in Path /\ IsPrefix(u, p) /\ u # p
      BY <2>4 DEF IsStrictPrefix
    <3>2. IsPrefix(u, r)
      BY <2>3, <3>1, PrefixTrans
    <3>. QED  BY <2>3, <3>1, <3>2, PrefixSameLen
  <2>. QED  BY <2>3, <2>4
<1>3. ASSUME NEW p \in first, NEW q \in first, NEW r \in Path, IsPrefix(p, r), IsPrefix(q, r)
      PROVE  p = q
  <2>1. p \in Path /\ q \in Path /\ ~IsStrictPrefix(p, q) /\ ~IsStrictPrefix(q, p)
    OBVIOUS
  <2>2. IsPrefix(p, q) \/ IsPrefix(q, p)
    BY <1>3, <2>1, PrefixesCompare, PathLen
  <2>. QED  BY <2>1, <2>2 DEF IsStrictPrefix
<1>4. ASSUME NEW r PROVE r \in open \union under <=> r \in DOMAIN F
  <2>1. ASSUME r \in open PROVE r \in DOMAIN F
    <3>1. r \in Path /\ \A q \in DOMAIN refs : ~IsPrefix(q, r)
      BY <2>1
    <3>. QED  BY <2>1, <3>1
  <2>2. ASSUME r \in under PROVE r \in DOMAIN F
    <3>1. PICK p \in first : \E q \in DOMAIN refs[p] : r = p \o q
      BY <2>2
    <3>2. PICK q \in DOMAIN refs[p] : r = p \o q
      BY <3>1
    <3>3. p \in Path /\ refs[p] = Below(F, p)
      OBVIOUS
    <3>. QED  BY <3>2, <3>3, BelowIs
  <2>3. ASSUME r \in DOMAIN F, r \notin open PROVE r \in under
    <3>1. r \in Path
      BY <2>3
    <3>2. \E q \in DOMAIN refs : IsPrefix(q, r)
      BY <2>3, <3>1
    <3>3. PICK p \in first : IsPrefix(p, r)
      BY <1>2, <3>1, <3>2
    <3>4. p \in Path /\ refs[p] = Below(F, p)
      OBVIOUS
    <3>5. Drop(r, Len(p)) \in DOMAIN refs[p] /\ p \o Drop(r, Len(p)) = r
      BY <2>3, <3>1, <3>3, <3>4, BelowIs, JoinDropped
    <3>6. r \in {p \o q : q \in DOMAIN refs[p]}
      BY Zenon, <3>5
    <3> HIDE DEF first
    <3>. QED  BY <3>6
  <2>. QED  BY <2>1, <2>2, <2>3
<1>5. ASSUME NEW r \in DOMAIN F PROVE new(r) = F[r]
  <2>1. CASE r \in open
    BY <2>1
  <2>2. CASE r \notin open
    <3>1. r \in Path /\ \E q \in DOMAIN refs : IsPrefix(q, r)
      BY <2>2
    <3>2. PICK p \in first : IsPrefix(p, r)
      BY <1>2, <3>1
    <3>3. (CHOOSE q \in first : IsPrefix(q, r)) = p
      <4> HIDE DEF first
      <4>. QED  BY <1>3, <3>1, <3>2
    <3>4. new(r) = refs[p][Drop(r, Len(p))]
      BY <2>2, <3>3
    <3>5. p \in Path /\ refs[p] = Below(F, p)
      OBVIOUS
    <3>. QED  BY <3>2, <3>4, <3>5, BelowIs
  <2>. QED  BY <2>1, <2>2
<1>6. open \union under = DOMAIN F
  BY <1>4
<1> HIDE DEF open, under, new, first
<1>7. e = [r \in DOMAIN F |-> F[r]]
  BY <1>1, <1>5, <1>6
<1>. QED  BY <1>7 DEF e

\* f is the trie F of which what is below some nodes is cut off.
IsView(F, f) ==
  /\ f = [p \in DOMAIN f |-> f[p]] /\ DOMAIN f \subseteq DOMAIN F
  /\ \A p \in DOMAIN f :
       IF f[p].type = "digest"
       THEN f[p] = Digest(Below(F, p)) /\ \A q \in DOMAIN f : IsPrefix(p, q) => q = p
       ELSE f[p] = F[p]
  /\ \A p \in DOMAIN F : p \notin DOMAIN f => \E q \in DOMAIN f : f[q].type = "digest" /\ IsPrefix(q, p)

\* A view of a trie has no leaves but its, and has all of those it reaches.
LEMMA ViewIs ==
  ASSUME NEW F, NEW len \in Nat, Shape(F, len), \A p \in DOMAIN F : F[p].type # "digest",
         NEW f, IsView(F, f)
  PROVE  /\ Shape(f, len)
         /\ \A k, v : LeafOf(f, k, v) => LeafOf(F, k, v)
         /\ \A k, v : IsReached(f, k) /\ LeafOf(F, k, v) => LeafOf(f, k, v)
         /\ \A c : LeadsTo(f, c) => c \in DOMAIN F /\ F[c].type = "branch"
<1>1. /\ \A p \in DOMAIN F : p \in Path /\ Len(p) \in Nat /\ Len(p) <= len
      /\ DOMAIN f \subseteq DOMAIN F /\ DOMAIN f \subseteq Path
      /\ \A p \in DOMAIN f : f[p].type # "digest" => f[p] = F[p]
      /\ \A p \in DOMAIN f : f[p].type = "digest" => \A q \in DOMAIN f : IsPrefix(p, q) => q = p
  BY PlacedIs DEF IsView
\* The nodes next below one that is no digest are there.
<1>2. ASSUME NEW p \in DOMAIN f, f[p].type # "digest", NEW q \in DOMAIN F, IsPrefix(p, q),
             \A s \in DOMAIN F : IsPrefix(p, s) /\ IsPrefix(s, q) => s = p \/ s = q
      PROVE  q \in DOMAIN f
  <2>1. SUFFICES ASSUME q \notin DOMAIN f PROVE FALSE
    OBVIOUS
  <2>2. PICK d \in DOMAIN f : f[d].type = "digest" /\ IsPrefix(d, q)
    BY <2>1 DEF IsView
  <2>3. d \in Path /\ p \in Path /\ q \in Path /\ d \in DOMAIN F
    BY <1>1
  <2>4. ~IsPrefix(d, p)
    BY <1>1, <1>2, <2>2
  <2>5. IsPrefix(p, d)
    BY <1>2, <2>2, <2>3, <2>4, PrefixesCompare, PathLen
  <2>. QED  BY <1>2, <2>1, <2>2, <2>3, <2>5
<1>3. ASSUME NEW p \in DOMAIN f PROVE p \in Path /\ Len(p) <= len /\ IsNode(f[p]) /\ IsPlaced(f, p, len)
  <2>1. p \in DOMAIN F /\ p \in Path /\ Len(p) <= len /\ Len(p) \in Nat
    BY <1>1
  <2>2. CASE f[p].type = "digest"
    <3>1. IsNode(f[p])
      BY <2>2, DigestIs DEF IsView
    <3>. QED  BY <1>1, <2>1, <2>2, <3>1, MakePlaced
  <2>3. CASE f[p].type # "digest"
    <3>1. f[p] = F[p] /\ IsNode(f[p]) /\ f[p].type \in {"leaf", "extension", "branch"}
      BY <1>1, <2>1, <2>3, PlacedIs
    <3>2. CASE F[p].type = "leaf"
      <4>1. Len(p \o Nibs(F[p])) = len /\ \A q \in DOMAIN F : IsPrefix(p, q) => q = p
        BY <2>1, <3>2, PlacedIs
      <4>2. Len(p \o Nibs(f[p])) = len /\ \A q \in DOMAIN f : IsPrefix(p, q) => q = p
        BY <1>1, <3>1, <4>1
      <4>. QED  BY <2>1, <3>1, <3>2, <4>2, MakePlaced
    <3>3. CASE F[p].type = "extension"
      <4> DEFINE child == p \o Nibs(F[p])
      <4>1. /\ child \in DOMAIN F /\ child # p /\ IsPrefix(p, child)
            /\ F[child].type \in {"branch", "digest"}
            /\ \A q \in DOMAIN F : IsPrefix(p, q) /\ q # p => IsPrefix(child, q)
        BY <2>1, <3>3, PlacedIs
      <4>2. child = p \o Nibs(f[p])
        BY <3>1
      <4> HIDE DEF child
      <4>3. ASSUME NEW s \in DOMAIN F, IsPrefix(p, s), IsPrefix(s, child)
            PROVE  s = p \/ s = child
        BY <1>1, <4>1, <4>3, PrefixLen, PrefixSameLen
      <4>4. child \in DOMAIN f
        BY <1>2, <2>3, <4>1, <4>3
      <4>5. f[child].type \in {"branch", "digest"}
        BY <1>1, <4>1, <4>4
      <4>. QED  BY <1>1, <2>1, <3>1, <3>3, <4>1, <4>2, <4>4, <4>5, MakePlaced
    <3>4. CASE F[p].type = "branch"
      <4>1. ASSUME NEW r \in DOMAIN F, IsPrefix(p, r), Len(r) = Len(p) + 1 PROVE r \in DOMAIN f
        <5>1. ASSUME NEW s \in DOMAIN F, IsPrefix(p, s), IsPrefix(s, r) PROVE s = p \/ s = r
          BY <1>1, <2>1, <4>1, <5>1, PrefixLen, PrefixSameLen
        <5>. QED  BY <1>2, <2>3, <4>1, <5>1
      <4>2. ASSUME NEW q \in DOMAIN f, IsPrefix(p, q), q # p
            PROVE  \E r \in DOMAIN f : /\ IsPrefix(p, r) /\ r # p /\ Len(r) = Len(p) + 1
                                       /\ IsPrefix(r, q)
        <5>1. PICK r \in DOMAIN F : IsPrefix(p, r) /\ Len(r) = Len(p) + 1 /\ IsPrefix(r, q)
          BY <1>1, <2>1, <3>4, <4>2, PlacedIs
        <5>. QED  BY <2>1, <4>1, <5>1
      <4>3. PICK x \in DOMAIN F, y \in DOMAIN F :
              /\ IsPrefix(p, x) /\ IsPrefix(p, y) /\ Len(x) = Len(p) + 1 /\ Len(y) = Len(p) + 1
              /\ x # y
        BY <2>1, <3>4, PlacedIs
      <4>4. x \in DOMAIN f /\ y \in DOMAIN f /\ x # p /\ y # p
        BY <2>1, <4>1, <4>3
      <4>. QED  BY <2>1, <3>1, <3>4, <4>2, <4>3, <4>4, MakePlaced
    <3>. QED  BY <2>1, <3>1, <3>2, <3>3, <3>4
  <2>. QED  BY <2>2, <2>3
<1>4. ASSUME <<>> \notin DOMAIN f PROVE f = EmptyRoot
  <2>1. <<>> \notin DOMAIN F
    <3>1. SUFFICES ASSUME <<>> \in DOMAIN F PROVE FALSE
      OBVIOUS
    <3>2. PICK q \in DOMAIN f : IsPrefix(q, <<>>)
      BY <1>4, <3>1 DEF IsView
    <3>3. q = <<>>
      BY <1>1, <3>2, EmptyPath, EmptyIsPrefix, PrefixSameLen, PathLen
    <3>. QED  BY <1>4, <3>3
  <2>2. DOMAIN F = {}
    BY <2>1 DEF Shape, EmptyRoot
  <2>3. DOMAIN f = {}
    BY <1>1, <2>2
  <2>. QED  BY <2>3 DEF IsView, EmptyRoot
<1>5. Shape(f, len)
  BY <1>3, <1>4 DEF Shape
<1>6. ASSUME NEW k, NEW v, LeafOf(f, k, v) PROVE LeafOf(F, k, v)
  BY <1>1, <1>6 DEF LeafOf
<1>7. ASSUME NEW k, NEW v, IsReached(f, k), LeafOf(F, k, v) PROVE LeafOf(f, k, v)
  <2>1. PICK p \in DOMAIN F : IsLeafOf(F, p, k) /\ F[p].value = v
    BY <1>7, LeafOfIs
  <2>2. IsPrefix(p, k) /\ k \in Path
    BY <2>1, LeafIsOf
  <2>3. ASSUME NEW d \in DOMAIN f, IsPrefix(d, p) PROVE f[d].type # "digest"
    <3>1. IsPrefix(d, k)
      BY <1>1, <2>2, <2>3, PrefixTrans
    <3>. QED  BY <1>7, <3>1 DEF IsReached
  <2>4. p \in DOMAIN f
    BY <2>3 DEF IsView
  <2>5. f[p] = F[p]
    BY <1>1, <2>3, <2>4, PrefixRefl
  <2>. QED  BY <2>1, <2>4, <2>5 DEF LeafOf, IsLeafOf
<1>8. ASSUME NEW c, LeadsTo(f, c) PROVE c \in DOMAIN F /\ F[c].type = "branch"
  <2>1. PICK p \in DOMAIN f : f[p].type = "extension" /\ p \o Nibs(f[p]) = c
    BY <1>8 DEF LeadsTo
  <2>2. p \in DOMAIN F /\ F[p] = f[p]
    BY <1>1, <2>1
  <2>3. p \o Nibs(F[p]) \in DOMAIN F /\ F[p \o Nibs(F[p])].type \in {"branch", "digest"}
    BY <2>1, <2>2, PlacedIs
  <2>4. c \in DOMAIN F /\ F[c].type \in {"branch", "digest"}
    BY <2>1, <2>2, <2>3
  <2>. QED  BY <2>4
<1>. QED  BY <1>5, <1>6, <1>7, <1>8

\* The reference of a view is what it is a view of.
LEMMA ReferenceOfView ==
  ASSUME NEW F, F = [p \in DOMAIN F |-> F[p]], DOMAIN F \subseteq Path, NEW f, IsView(F, f)
  PROVE  Reference(Trie(f)) = F
<1> DEFINE refs == References(Trie(f))
<1>1. Trie(f).nodes = f /\ DOMAIN Trie(f).cached = {}
  BY DEF Trie, EmptyRoot
<1>2. Reference(Trie(f)) = Expand(f, refs)
  BY <1>1 DEF Reference
<1>3. DOMAIN refs = Unresolved(f) /\ \A p \in Unresolved(f) : refs[p] = f[p].digest
  <2>1. refs = [p \in Unresolved(f) |-> f[p].digest]
    BY <1>1 DEF References
  <2> HIDE DEF refs
  <2>. QED  BY <2>1
<1> HIDE DEF refs
<1>4. \A p : p \in Unresolved(f) <=> p \in DOMAIN f /\ f[p].type = "digest"
  BY DEF Unresolved
<1>5. DOMAIN refs \subseteq DOMAIN f /\ DOMAIN f \subseteq DOMAIN F
  BY <1>3, <1>4 DEF IsView
<1>6. \A p \in DOMAIN refs : refs[p] = Below(F, p)
  BY <1>3, <1>4, DigestIs DEF IsView
<1>7. \A r \in Path : (\A q \in DOMAIN refs : ~IsPrefix(q, r)) =>
        (r \in DOMAIN f <=> r \in DOMAIN F) /\ (r \in DOMAIN f => f[r] = F[r])
  <2>1. SUFFICES ASSUME NEW r \in Path, \A q \in DOMAIN refs : ~IsPrefix(q, r)
                 PROVE  (r \in DOMAIN f <=> r \in DOMAIN F) /\ (r \in DOMAIN f => f[r] = F[r])
    OBVIOUS
  <2>2. r \in DOMAIN f => f[r].type # "digest"
    BY <1>3, <1>4, <2>1, PrefixRefl
  <2>. QED  BY <1>3, <1>4, <2>1, <2>2 DEF IsView
<1>8. Expand(f, refs) = F
  BY <1>5, <1>6, <1>7, ExpandIs
<1>. QED  BY <1>2, <1>8

\* resolve_nodes: what is not found of a trie is cut off, and nothing else.
LEMMA ResolvedIsView ==
  ASSUME NEW F, DOMAIN F \subseteq Path, NEW store
  PROVE  LET n == ResolveNodes(F, store)
         IN  /\ n = Trie(n.nodes)
             /\ (\A p \in DOMAIN F : F[p].type # "digest") => IsView(F, n.nodes)
             /\ \A p \in DOMAIN n.nodes : n.nodes[p].type = "digest" /\ F[p].type # "digest" =>
                  p # <<>> /\ ~IsStored(Below(F, p), store)
<1> DEFINE R == Resolved(F, store)
           D == {p \in DOMAIN F \ R : \A q \in DOMAIN F : IsStrictPrefix(q, p) => q \in R}
           f == [p \in R \union D |-> IF p \in R THEN F[p] ELSE Digest(Below(F, p))]
           n == ResolveNodes(F, store)
<1>1. n = Trie(f)
  BY DEF ResolveNodes
<1>2. n.nodes = f
  BY <1>1 DEF Trie
<1>3. \A p : p \in R <=> p \in DOMAIN F /\ \A q \in DOMAIN F \ {<<>>} :
                            IsPrefix(q, p) => IsStored(Below(F, q), store)
  BY DEF Resolved
<1> HIDE DEF R, n
<1>4. R \subseteq DOMAIN F /\ D \subseteq DOMAIN F /\ \A p \in D : p \notin R
  BY <1>3
<1>5. ASSUME NEW p \in D PROVE p # <<>> /\ ~IsStored(Below(F, p), store)
  <2>1. PICK q \in DOMAIN F \ {<<>>} : IsPrefix(q, p) /\ ~IsStored(Below(F, q), store)
    BY <1>3, <1>4
  <2>2. ~IsStrictPrefix(q, p)
    BY <1>3, <1>4, <2>1, PrefixRefl
  <2>3. q = p
    BY <2>1, <2>2 DEF IsStrictPrefix
  <2>. QED  BY <2>1, <2>3
\* The resolved nodes are closed under what is before them.
<1>6. ASSUME NEW p \in R, NEW q \in DOMAIN F, IsPrefix(q, p) PROVE q \in R
  <2>1. \A s \in DOMAIN F : IsPrefix(s, q) => IsPrefix(s, p)
    BY <1>4, <1>6, PrefixTrans
  <2>. QED  BY <1>3, <2>1
<1>7. ASSUME NEW p \in DOMAIN F, p \notin R PROVE \E q \in D : IsPrefix(q, p)
  <2> DEFINE S == {Len(s) : s \in {u \in DOMAIN F \ R : IsPrefix(u, p)}}
  <2>1. S \subseteq Nat /\ S # {}
    BY <1>7, PathLen, PrefixRefl
  <2>2. PICK m \in S : \A i \in S : m <= i
    <3> HIDE DEF S
    <3>. QED  BY <2>1, LeastNat
  <2>3. PICK q \in DOMAIN F \ R : IsPrefix(q, p) /\
               \A u \in DOMAIN F \ R : IsPrefix(u, p) => Len(q) <= Len(u)
    BY <2>2
  <2>4. ASSUME NEW u \in DOMAIN F, IsStrictPrefix(u, q), u \notin R PROVE FALSE
    <3>1. IsPrefix(u, q) /\ u # q /\ u \in Path /\ q \in Path /\ p \in Path
      BY <2>4 DEF IsStrictPrefix
    <3>2. IsPrefix(u, p)
      BY <2>3, <3>1, PrefixTrans
    <3>. QED  BY <2>3, <2>4, <3>1, <3>2, PrefixSameLen
  <2>. QED  BY <2>3, <2>4
<1> DEFINE digest(p) == Digest(Below(F, p))
<1>8. DOMAIN f = R \union D /\ (\A p \in R : f[p] = F[p]) /\ \A p \in D : f[p] = digest(p)
  BY <1>4
<1>9. \A p : digest(p).type = "digest"
  BY DigestIs
<1>10. f = [p \in DOMAIN f |-> f[p]]
  OBVIOUS
<1> HIDE DEF f
<1>11. ASSUME NEW p \in D, NEW q \in DOMAIN f, IsPrefix(p, q) PROVE q = p
  <2>1. q \notin R
    BY <1>4, <1>6, <1>11
  <2>2. q \in D
    BY <1>8, <1>11, <2>1
  <2>3. ~IsStrictPrefix(p, q)
    BY <1>4, <2>2
  <2>. QED  BY <1>11, <2>3 DEF IsStrictPrefix
<1> HIDE DEF D
<1>12. ASSUME \A p \in DOMAIN F : F[p].type # "digest" PROVE IsView(F, f)
  <2>1. ASSUME NEW p \in DOMAIN f
        PROVE  IF f[p].type = "digest"
               THEN f[p] = Digest(Below(F, p)) /\ \A q \in DOMAIN f : IsPrefix(p, q) => q = p
               ELSE f[p] = F[p]
    <3>1. CASE p \in R
      BY <1>4, <1>8, <1>12, <3>1
    <3>2. CASE p \in D
      BY <1>8, <1>9, <1>11, <3>2
    <3>. QED  BY <1>8, <3>1, <3>2
  <2>2. \A p \in DOMAIN F : p \notin DOMAIN f =>
          \E q \in DOMAIN f : f[q].type = "digest" /\ IsPrefix(q, p)
    BY <1>7, <1>8, <1>9
  <2>. QED  BY <1>4, <1>8, <1>10, <2>1, <2>2 DEF IsView
<1>13. \A p \in DOMAIN f : f[p].type = "digest" /\ F[p].type # "digest" =>
         p # <<>> /\ ~IsStored(Below(F, p), store)
  BY <1>5, <1>8
<1>. QED  BY <1>1, <1>2, <1>12, <1>13 DEF n

\* Whoever has the proof of a key comes to its end.
LEMMA ProofReaches ==
  ASSUME NEW F, DOMAIN F \subseteq Path, \A p \in DOMAIN F : F[p].type # "digest",
         NEW store, NEW k \in Path, Proof(F, k) \subseteq store
  PROVE  IsReached(ResolveNodes(F, store).nodes, k)
<1> DEFINE f == ResolveNodes(F, store).nodes
<1>1. SUFFICES ASSUME NEW p \in DOMAIN f, f[p].type = "digest", IsPrefix(p, k) PROVE FALSE
  BY DEF IsReached
<1>2. p \in DOMAIN F /\ p # <<>> /\ ~IsStored(Below(F, p), store)
  <2>1. IsView(F, f)
    BY ResolvedIsView
  <2>2. p \in DOMAIN F
    BY <1>1, <2>1 DEF IsView
  <2>. QED  BY <1>1, <2>2, ResolvedIsView
<1>3. p \in ProofPaths(F, k)
  BY <1>1, <1>2 DEF IsStored, ProofPaths
<1>4. Below(F, p) \in Proof(F, k)
  BY <1>3 DEF Proof
<1>. QED  BY <1>2, <1>4 DEF IsStored

\* What is below the root is all.
LEMMA BelowRoot ==
  ASSUME NEW F, F = [p \in DOMAIN F |-> F[p]], DOMAIN F \subseteq Path
  PROVE  Below(F, <<>>) = F
<1> DEFINE b == Below(F, <<>>)
<1>1. <<>> \in Path /\ \A q \in Path : <<>> \o q = q
  BY EmptyPath DEF Path
<1>2. b = [q \in DOMAIN b |-> b[q]]
  BY DEF Below
<1> HIDE DEF b
<1>3. DOMAIN b = DOMAIN F /\ \A q \in DOMAIN b : b[q] = F[q]
  <2>1. /\ \A q : q \in DOMAIN b <=> q \in Path /\ <<>> \o q \in DOMAIN F
        /\ \A q \in DOMAIN b : b[q] = F[<<>> \o q]
    BY <1>1, BelowIs DEF b
  <2>2. ASSUME NEW q \in Path
        PROVE  (q \in DOMAIN b <=> q \in DOMAIN F) /\ (q \in DOMAIN b => b[q] = F[q])
    BY Zenon, <1>1, <2>1, <2>2
  <2>. QED  BY <2>1, <2>2
<1>4. b = [q \in DOMAIN F |-> F[q]]
  BY <1>2, <1>3
<1>. QED  BY <1>4 DEF b

\* Only the reference of a trie: all of it is cut off.
LEMMA DigestIsView ==
  ASSUME NEW F, F = [p \in DOMAIN F |-> F[p]], NEW len \in Nat, Shape(F, len)
  PROVE  /\ F # EmptyRoot => IsView(F, [p \in {<<>>} |-> Digest(F)])
         /\ IsView(F, NodeFromDigest(F).nodes) /\ NodeFromDigest(F) = Trie(NodeFromDigest(F).nodes)
         /\ F = EmptyRoot => NodeFromDigest(F).nodes = EmptyRoot
         /\ \A k \in Path : IsReached(NodeFromDigest(F).nodes, k) => F = EmptyRoot
<1> DEFINE f == [p \in {<<>>} |-> Digest(F)]
           n == NodeFromDigest(F)
<1>1. \A p \in DOMAIN F : p \in Path
  BY PlacedIs
<1>2. F # EmptyRoot => IsView(F, f)
  <2>1. SUFFICES ASSUME F # EmptyRoot PROVE IsView(F, f)
    OBVIOUS
  <2>2. <<>> \in DOMAIN F
    BY <2>1 DEF Shape
  <2>3. f[<<>>] = Digest(Below(F, <<>>)) /\ f[<<>>].type = "digest"
    BY <1>1, BelowRoot, DigestIs
  <2>. QED  BY <1>1, <2>2, <2>3, EmptyIsPrefix DEF IsView
<1>3. n.nodes = (IF F = EmptyRoot THEN EmptyRoot ELSE f) /\ n = Trie(n.nodes)
  BY DEF NodeFromDigest, Trie
<1>4. IsView(EmptyRoot, EmptyRoot)
  BY DEF IsView, EmptyRoot
<1>5. ASSUME F # EmptyRoot, NEW k \in Path PROVE ~IsReached(f, k)
  <2>1. f[<<>>].type = "digest"
    BY DigestIs
  <2>. QED  BY <2>1, EmptyIsPrefix DEF IsReached
<1> HIDE DEF n, f
<1>. QED  BY <1>2, <1>3, <1>4, <1>5 DEF n, f

-----------------------------------------------------------------------------
(* The trie of a map *)

\* Two keys part at p.
PartAt(keys, p) ==
  \E k, l \in keys : /\ IsPrefix(p, k) /\ IsPrefix(p, l) /\ Len(p) < Len(k) /\ Len(p) < Len(l)
                     /\ k[Len(p) + 1] # l[Len(p) + 1]

\* Keys are paths of one length.
AreKeys(keys, len) == keys \subseteq Path /\ \A k \in keys : Len(k) = len

\* Forks, as the paths at which keys part.
LEMMA ForksAre ==
  ASSUME NEW keys, NEW len \in Nat, AreKeys(keys, len)
  PROVE  \A p : p \in Forks(keys) <=> p \in Path /\ PartAt(keys, p)
<1>1. \A k \in keys : k \in Path /\ Len(k) = len
  BY DEF AreKeys
<1>2. ASSUME NEW k \in keys, NEW l \in keys, k # l
      PROVE  SubSeq(k, 1, Lcp(k, l)) \in Path /\ PartAt(keys, SubSeq(k, 1, Lcp(k, l)))
  <2> DEFINE c == Lcp(k, l)
             p == SubSeq(k, 1, c)
  <2>1. /\ c \in 0..Len(k) /\ c <= Len(l) /\ p = SubSeq(l, 1, c)
        /\ c < Len(k) /\ c < Len(l) => k[c + 1] # l[c + 1]
    BY <1>1, CommonPrefix
  <2> HIDE DEF c
  <2>2. p \in Path /\ Len(p) = c /\ IsPrefix(p, k) /\ IsPrefix(p, l)
    <3>1. p \in Path /\ Len(p) = c /\ IsPrefix(p, k)
      BY <1>1, <2>1, Take
    <3>2. IsPrefix(SubSeq(l, 1, c), l)
      BY <1>1, <2>1, Take
    <3>. QED  BY <2>1, <3>1, <3>2
  <2> HIDE DEF p
  <2>3. c # len
    <3>1. c = len => p = k /\ p = l
      BY <1>1, <2>2, PrefixSameLen
    <3>. QED  BY <1>2, <3>1
  <2>. QED  BY <1>1, <2>1, <2>2, <2>3 DEF PartAt, p, c
<1>3. ASSUME NEW p \in Path, NEW k \in keys, NEW l \in keys,
             IsPrefix(p, k), IsPrefix(p, l), Len(p) < Len(k), Len(p) < Len(l),
             k[Len(p) + 1] # l[Len(p) + 1]
      PROVE  k # l /\ SubSeq(k, 1, Lcp(k, l)) = p
  <2> DEFINE c == Lcp(k, l)
             s == SubSeq(k, 1, c)
             u == SubSeq(l, 1, c)
  <2>1. /\ c \in 0..Len(k) /\ c <= Len(l) /\ s = u
        /\ c < Len(k) /\ c < Len(l) => k[c + 1] # l[c + 1]
    BY <1>1, CommonPrefix
  <2> HIDE DEF c
  <2>2. \A i \in 1..c : s[i] = k[i] /\ u[i] = l[i]
    BY <1>1, <2>1, Take
  <2>3. Len(p) \in Nat /\ \A i \in 1..Len(p) : k[i] = p[i] /\ l[i] = p[i]
    BY <1>1, <1>3, PrefixDef, PathLen
  <2> HIDE DEF s, u
  <2>4. c = Len(p)
    <3>1. ~(c < Len(p))
      <4>1. SUFFICES ASSUME c < Len(p) PROVE FALSE
        OBVIOUS
      <4>2. c + 1 \in 1..Len(p) /\ c < Len(k) /\ c < Len(l)
        BY <1>1, <1>3, <2>1, <2>3, <4>1
      <4>. QED  BY <2>1, <2>3, <4>2
    <3>2. ~(Len(p) < c)
      <4>1. SUFFICES ASSUME Len(p) < c PROVE FALSE
        OBVIOUS
      <4>2. Len(p) + 1 \in 1..c
        BY <1>1, <2>1, <2>3, <4>1
      <4>. QED  BY <1>3, <2>1, <2>2, <4>2
    <3>. QED  BY <1>1, <2>1, <2>3, <3>1, <3>2
  <2>5. s = p
    BY <1>1, <1>3, <2>4, PrefixIsTake DEF s
  <2>. QED  BY <1>3, <2>5 DEF s, c
<1>4. ASSUME NEW p PROVE p \in Forks(keys) <=> p \in Path /\ PartAt(keys, p)
  <2>1. ASSUME p \in Forks(keys) PROVE p \in Path /\ PartAt(keys, p)
    <3>1. PICK x \in {kl \in keys \X keys : kl[1] # kl[2]} : p = SubSeq(x[1], 1, Lcp(x[1], x[2]))
      BY <2>1 DEF Forks
    <3>2. x[1] \in keys /\ x[2] \in keys /\ x[1] # x[2]
      BY <3>1
    <3>. QED  BY <1>2, <3>1, <3>2
  <2>2. ASSUME p \in Path, PartAt(keys, p) PROVE p \in Forks(keys)
    <3>1. PICK k \in keys, l \in keys :
            /\ IsPrefix(p, k) /\ IsPrefix(p, l) /\ Len(p) < Len(k) /\ Len(p) < Len(l)
            /\ k[Len(p) + 1] # l[Len(p) + 1]
      BY <2>2 DEF PartAt
    <3>2. k # l /\ SubSeq(k, 1, Lcp(k, l)) = p
      BY <1>3, <2>2, <3>1
    <3> DEFINE x == <<k, l>>
    <3>3. x \in {kl \in keys \X keys : kl[1] # kl[2]} /\ p = SubSeq(x[1], 1, Lcp(x[1], x[2]))
      BY <3>2
    <3> HIDE DEF x
    <3>. QED  BY Zenon, <3>3 DEF Forks
  <2>. QED  BY <2>1, <2>2
<1>. QED  BY <1>4

\* Paths to keys that are not one a prefix of the other part at a fork.
LEMMA Diverge ==
  ASSUME NEW keys, NEW len \in Nat, AreKeys(keys, len), NEW x \in Path, NEW y \in Path,
         NEW k \in keys, NEW l \in keys, IsPrefix(x, k), IsPrefix(y, l),
         ~IsPrefix(x, y), ~IsPrefix(y, x)
  PROVE  \E c \in Forks(keys) : /\ IsPrefix(c, x) /\ IsPrefix(c, y) /\ c # x /\ c # y
                                /\ x[Len(c) + 1] # y[Len(c) + 1]
<1> DEFINE n == Lcp(x, y)
           c == SubSeq(x, 1, n)
<1>0. k \in Path /\ l \in Path
  BY DEF AreKeys
<1>1. /\ n \in 0..Len(x) /\ n <= Len(y) /\ c = SubSeq(y, 1, n)
      /\ n < Len(x) /\ n < Len(y) => x[n + 1] # y[n + 1]
  BY CommonPrefix
<1> HIDE DEF n
<1>2. c \in Path /\ Len(c) = n /\ IsPrefix(c, x) /\ IsPrefix(c, y)
  <2>1. c \in Path /\ Len(c) = n /\ IsPrefix(c, x)
    BY <1>1, Take
  <2>2. n \in 0..Len(y)
    BY <1>1, PathLen
  <2>3. IsPrefix(SubSeq(y, 1, n), y)
    BY <2>2, Take
  <2>. QED  BY <1>1, <2>1, <2>3
<1> HIDE DEF c
<1>3. c # x /\ c # y
  BY <1>2
<1>4. n < Len(x) /\ n < Len(y)
  <2>1. ~(Len(x) <= Len(c)) /\ ~(Len(y) <= Len(c))
    BY <1>2, <1>3, PrefixSameLen
  <2>2. Len(x) \in Nat /\ Len(y) \in Nat
    BY PathLen
  <2>. QED  BY <1>1, <1>2, <2>1, <2>2
<1>5. k[n + 1] = x[n + 1] /\ l[n + 1] = y[n + 1] /\ n < Len(k) /\ n < Len(l)
  <2>1. n + 1 \in 1..Len(x) /\ n + 1 \in 1..Len(y)
    BY <1>1, <1>4, PathLen
  <2>. QED  BY <1>0, <1>1, <2>1, PrefixDef, PathLen
<1>6. IsPrefix(c, k) /\ IsPrefix(c, l)
  BY <1>0, <1>2, PrefixTrans
<1>7. PartAt(keys, c)
  BY <1>1, <1>2, <1>4, <1>5, <1>6 DEF PartAt
<1>. QED  BY <1>1, <1>2, <1>3, <1>4, <1>7, ForksAre

\* Where what ends at p starts.
LEMMA StartIs ==
  ASSUME NEW keys, NEW len \in Nat, AreKeys(keys, len), NEW p \in Path
  PROVE  LET s == Start(keys, p)
         IN  /\ s \in Path /\ IsPrefix(s, p)
             /\ \A q \in Forks(keys) : IsPrefix(q, p) /\ q # p => Len(q) < Len(s)
             /\ s # <<>> => \E q \in Forks(keys) : IsPrefix(q, s) /\ Len(s) = Len(q) + 1
<1> DEFINE before == {q \in Forks(keys) : IsStrictPrefix(q, p)}
           s == Start(keys, p)
<1>1. \A q : q \in before <=> q \in Forks(keys) /\ IsPrefix(q, p) /\ q # p
  BY DEF IsStrictPrefix
<1>2. Forks(keys) \subseteq Path
  BY ForksAre
<1>3. s = IF before = {} THEN <<>>
          ELSE SubSeq(p, 1, 1 + Len(CHOOSE q \in before : \A r \in before : Len(r) <= Len(q)))
  BY DEF Start
<1> HIDE DEF before, s
<1>4. CASE before = {}
  <2>1. s = <<>>
    BY <1>3, <1>4
  <2>. QED  BY <1>1, <1>4, <2>1, EmptyPath, EmptyIsPrefix DEF s
<1>5. CASE before # {}
  <2> DEFINE S == {Len(q) : q \in before}
             last == CHOOSE q \in before : \A r \in before : Len(r) <= Len(q)
  <2>1. S \subseteq 0..Len(p) /\ S # {} /\ Len(p) \in Nat
    <3>1. \A q \in before : Len(q) \in Nat /\ Len(q) <= Len(p)
      BY <1>1, <1>2, PrefixLen, PathLen
    <3>2. Len(p) \in Nat
      BY PathLen
    <3>. QED  BY <1>5, <3>1, <3>2
  <2>2. PICK n \in S : \A m \in S : m <= n
    <3> HIDE DEF S
    <3>. QED  BY <2>1, GreatestNat
  <2>3. \E q \in before : \A r \in before : Len(r) <= Len(q)
    BY <2>2
  <2>4. last \in before /\ \A r \in before : Len(r) <= Len(last)
    BY <2>3
  <2>5. s = SubSeq(p, 1, 1 + Len(last))
    BY <1>3, <1>5
  <2> HIDE DEF last
  <2>6. last \in Path /\ IsPrefix(last, p) /\ last # p /\ Len(last) \in Nat
    BY <1>1, <1>2, <2>4, PathLen
  <2>7. 1 + Len(last) \in 0..Len(p)
    BY <2>1, <2>6, PrefixSameLen, PrefixLen
  <2> DEFINE n1 == 1 + Len(last)
  <2>8. s = SubSeq(p, 1, n1) /\ n1 \in 0..Len(p)
    BY <2>5, <2>7
  <2>9. n1 = Len(last) + 1
    BY <2>6
  <2> HIDE DEF n1
  <2>10. s \in Path /\ Len(s) = n1 /\ IsPrefix(s, p)
    BY <2>8, Take
  <2>11. IsPrefix(last, s)
    BY <2>6, <2>9, <2>10, PrefixesCompare
  <2>12. ASSUME NEW q \in Forks(keys), IsPrefix(q, p), q # p PROVE Len(q) < Len(s)
    <3>1. Len(q) <= Len(last) /\ Len(q) \in Nat
      BY <1>1, <1>2, <2>4, <2>12, PathLen
    <3>. QED  BY <2>6, <2>9, <2>10, <3>1
  <2>13. last \in Forks(keys) /\ IsPrefix(last, s) /\ Len(s) = Len(last) + 1
    BY <1>1, <2>4, <2>9, <2>10, <2>11
  <2>. QED  BY <2>10, <2>12, <2>13 DEF s
<1>. QED  BY <1>4, <1>5

\* Where the nodes of a canonical trie end: at a key or at a branch.
Ends(keys) == Forks(keys) \union keys

\* Such an end is on the way to a key; those that are shorter are branches.
LEMMA EndsAre ==
  ASSUME NEW keys, NEW len \in Nat, AreKeys(keys, len), NEW e \in Ends(keys)
  PROVE  /\ e \in Path /\ Len(e) \in Nat /\ Len(e) <= len
         /\ \E k \in keys : IsPrefix(e, k)
         /\ e \in Forks(keys) <=> Len(e) < len
<1>1. \A k \in keys : k \in Path /\ Len(k) = len
  BY DEF AreKeys
<1>2. CASE e \in Forks(keys)
  <2>1. e \in Path /\ PartAt(keys, e)
    BY <1>2, ForksAre
  <2>2. PICK k \in keys : IsPrefix(e, k) /\ Len(e) < Len(k)
    BY <2>1 DEF PartAt
  <2>. QED  BY <1>1, <1>2, <2>1, <2>2, PathLen
<1>3. CASE e \in keys /\ e \notin Forks(keys)
  BY <1>1, <1>3, PrefixRefl
<1>. QED  BY <1>2, <1>3 DEF Ends

\* A fork is before what starts after it.
LEMMA StartOfFork ==
  ASSUME NEW keys, NEW len \in Nat, AreKeys(keys, len), NEW e \in Ends(keys),
         Start(keys, e) \in Forks(keys)
  PROVE  Start(keys, e) = e
<1> DEFINE s == Start(keys, e)
<1>1. s \in Path /\ IsPrefix(s, e) /\ (s # e => Len(s) < Len(s))
  BY EndsAre, StartIs
<1>. QED  BY <1>1, PathLen

\* No two of them have the same start.
LEMMA StartsDiffer ==
  ASSUME NEW keys, NEW len \in Nat, AreKeys(keys, len),
         NEW e \in Ends(keys), NEW g \in Ends(keys), Start(keys, e) = Start(keys, g)
  PROVE  e = g
<1> DEFINE s == Start(keys, e)
<1>1. /\ e \in Path /\ g \in Path /\ s \in Path /\ IsPrefix(s, e) /\ IsPrefix(s, g)
      /\ \A q \in Forks(keys) : IsPrefix(q, e) /\ q # e => Len(q) < Len(s)
      /\ \A q \in Forks(keys) : IsPrefix(q, g) /\ q # g => Len(q) < Len(s)
  BY EndsAre, StartIs
<1> HIDE DEF s
<1>2. Len(s) <= Len(e) /\ Len(s) <= Len(g) /\ Len(s) \in Nat
  BY <1>1, PrefixLen, PathLen
\* One is not before the other.
<1>3. ASSUME NEW x \in Ends(keys), NEW y \in Ends(keys), IsPrefix(x, y), x # y
      PROVE  x \in Forks(keys)
  <2>1. x \in Path /\ y \in Path /\ Len(y) <= len /\ Len(x) \in Nat /\ Len(y) \in Nat
    BY EndsAre
  <2>2. Len(x) < len
    BY <1>3, <2>1, PrefixSameLen
  <2>. QED  BY <2>2, EndsAre
<1>4. CASE IsPrefix(e, g)
  <2>1. SUFFICES ASSUME e # g PROVE FALSE
    OBVIOUS
  <2>2. Len(e) < Len(s)
    BY <1>1, <1>3, <1>4, <2>1
  <2>. QED  BY <1>1, <1>2, <2>2, PathLen
<1>5. CASE IsPrefix(g, e)
  <2>1. SUFFICES ASSUME e # g PROVE FALSE
    OBVIOUS
  <2>2. Len(g) < Len(s)
    BY <1>1, <1>3, <1>5, <2>1
  <2>. QED  BY <1>1, <1>2, <2>2, PathLen
<1>6. CASE ~IsPrefix(e, g) /\ ~IsPrefix(g, e)
  <2>1. PICK k \in keys, l \in keys : IsPrefix(e, k) /\ IsPrefix(g, l)
    BY EndsAre
  <2>2. PICK c \in Forks(keys) : /\ IsPrefix(c, e) /\ IsPrefix(c, g) /\ c # e /\ c # g
                                 /\ e[Len(c) + 1] # g[Len(c) + 1]
    BY <1>1, <1>6, <2>1, Diverge
  <2>3. c \in Path /\ Len(c) \in Nat
    BY ForksAre, PathLen
  <2>4. Len(c) + 1 \in 1..Len(s)
    BY <1>1, <1>2, <2>2, <2>3
  <2>5. e[Len(c) + 1] = s[Len(c) + 1] /\ g[Len(c) + 1] = s[Len(c) + 1]
    BY <1>1, <2>4, PrefixDef
  <2>. QED  BY <2>2, <2>5
<1>. QED  BY <1>4, <1>5, <1>6

\* Canonical, node by node.
LEMMA CanonicalIs ==
  ASSUME NEW m, NEW len \in Nat, AreKeys(DOMAIN m, len)
  PROVE  LET keys == DOMAIN m
             c == Canonical(m)
         IN  /\ c = [p \in DOMAIN c |-> c[p]]
             /\ \A p : p \in DOMAIN c <=> p \in Forks(keys) \/ \E e \in Ends(keys) : p = Start(keys, e)
             /\ \A p \in Forks(keys) : c[p] = Branch
             /\ \A e \in keys :
                  LET s == Start(keys, e)
                  IN  s \notin Forks(keys) /\ c[s] = Leaf(Drop(e, Len(s)), m[e])
             /\ \A e \in Forks(keys) :
                  LET s == Start(keys, e)
                  IN  s # e => s \notin Forks(keys) /\ c[s] = Extension(Drop(e, Len(s)))
<1> DEFINE keys == DOMAIN m
           ends == Forks(keys) \union keys
           node(p) == LET end == CHOOSE e \in ends : Start(keys, e) = p
                      IN  IF end \in keys THEN Leaf(Drop(end, Len(p)), m[end])
                          ELSE Extension(Drop(end, Len(p)))
           D == Forks(keys) \union {Start(keys, e) : e \in ends}
           c == Canonical(m)
<1>1. c = [p \in D |-> IF p \in Forks(keys) THEN Branch ELSE node(p)]
  BY DEF Canonical
<1>2. ends = Ends(keys)
  BY DEF Ends
<1>3. \A p : p \in D <=> p \in Forks(keys) \/ \E e \in Ends(keys) : p = Start(keys, e)
  BY <1>2
<1>4. ASSUME NEW e \in Ends(keys)
      PROVE  node(Start(keys, e)) =
               IF e \in keys THEN Leaf(Drop(e, Len(Start(keys, e))), m[e])
               ELSE Extension(Drop(e, Len(Start(keys, e))))
  <2> DEFINE s == Start(keys, e)
             end == CHOOSE g \in ends : Start(keys, g) = s
  <2>1. end = e
    BY <1>2, StartsDiffer
  <2>2. node(s) = IF end \in keys THEN Leaf(Drop(end, Len(s)), m[end])
                  ELSE Extension(Drop(end, Len(s)))
    BY Zenon
  <2> HIDE DEF end, node
  <2>3. node(s) = IF e \in keys THEN Leaf(Drop(e, Len(s)), m[e]) ELSE Extension(Drop(e, Len(s)))
    BY <2>1, <2>2
  <2>. QED  BY <2>3
<1> HIDE DEF node, D, c, ends
<1>5. DOMAIN c = D /\ \A p \in D : c[p] = IF p \in Forks(keys) THEN Branch ELSE node(p)
  BY <1>1
<1>6. c = [p \in DOMAIN c |-> c[p]]
  BY <1>1
<1>7. \A e \in Ends(keys) : e \in Forks(keys) <=> e \notin keys
  <2>1. \A e \in keys : Len(e) = len
    BY DEF AreKeys
  <2>2. \A e \in Ends(keys) : Len(e) \in Nat /\ (e \in Forks(keys) <=> Len(e) < len)
    BY EndsAre
  <2>3. \A e \in Ends(keys) : e \in Forks(keys) \/ e \in keys
    BY DEF Ends
  <2>. QED  BY <2>1, <2>2, <2>3
<1>8. keys \subseteq Ends(keys) /\ Forks(keys) \subseteq Ends(keys)
  BY DEF Ends
<1>9. \A p \in Forks(keys) : c[p] = Branch
  BY <1>3, <1>5
<1>10. ASSUME NEW e \in Ends(keys), Start(keys, e) # e \/ e \in keys
       PROVE  /\ Start(keys, e) \notin Forks(keys)
              /\ c[Start(keys, e)] = IF e \in keys THEN Leaf(Drop(e, Len(Start(keys, e))), m[e])
                                     ELSE Extension(Drop(e, Len(Start(keys, e))))
  <2>1. Start(keys, e) \notin Forks(keys)
    BY <1>7, <1>10, StartOfFork
  <2>. QED  BY <1>3, <1>4, <1>5, <2>1
<1>11. \A e \in keys : LET s == Start(keys, e)
                       IN  s \notin Forks(keys) /\ c[s] = Leaf(Drop(e, Len(s)), m[e])
  BY <1>8, <1>10
<1>12. \A e \in Forks(keys) :
         LET s == Start(keys, e)
         IN  s # e => s \notin Forks(keys) /\ c[s] = Extension(Drop(e, Len(s)))
  BY <1>7, <1>8, <1>10
<1>. QED  BY <1>3, <1>5, <1>6, <1>9, <1>11, <1>12 DEF c

\* The nodes are on the way to the keys.
LEMMA CanonicalPaths ==
  ASSUME NEW m, NEW len \in Nat, AreKeys(DOMAIN m, len), NEW p \in DOMAIN Canonical(m)
  PROVE  /\ p \in Path /\ Len(p) \in Nat /\ Len(p) <= len
         /\ \E k \in DOMAIN m : IsPrefix(p, k)
         /\ \E e \in Ends(DOMAIN m) : IsPrefix(p, e)
<1> DEFINE keys == DOMAIN m
<1>1. PICK e \in Ends(keys) : p = e \/ p = Start(keys, e)
  BY CanonicalIs DEF Ends
<1>2. e \in Path /\ Len(e) <= len /\ Len(e) \in Nat
  BY EndsAre
<1>3. p \in Path /\ IsPrefix(p, e)
  BY <1>1, <1>2, StartIs, PrefixRefl
<1>4. PICK k \in keys : IsPrefix(e, k)
  BY EndsAre
<1>5. k \in Path
  BY DEF AreKeys
<1>6. IsPrefix(p, k)
  BY <1>2, <1>3, <1>4, <1>5, PrefixTrans
<1>7. Len(p) <= Len(e)
  BY <1>2, <1>3, PrefixLen
<1>. QED  BY <1>2, <1>3, <1>6, <1>7, PathLen

\* No node is between where an end starts and the end.
LEMMA Between ==
  ASSUME NEW m, NEW len \in Nat, AreKeys(DOMAIN m, len), NEW e \in Ends(DOMAIN m),
         NEW q \in DOMAIN Canonical(m), IsPrefix(Start(DOMAIN m, e), q)
  PROVE  q = Start(DOMAIN m, e) \/ IsPrefix(e, q)
<1> DEFINE keys == DOMAIN m
           s == Start(keys, e)
<1>1. /\ e \in Path /\ s \in Path /\ IsPrefix(s, e) /\ q \in Path
      /\ \A f \in Forks(keys) : f \in Path /\ Len(f) \in Nat
      /\ \A f \in Forks(keys) : IsPrefix(f, e) /\ f # e => Len(f) < Len(s)
      /\ Len(s) \in Nat /\ Len(e) \in Nat /\ Len(q) \in Nat
  BY EndsAre, StartIs, CanonicalPaths, ForksAre, PathLen
<1>2. SUFFICES ASSUME q # s, ~IsPrefix(e, q) PROVE FALSE
  OBVIOUS
<1>3. q \in Forks(keys) \/ \E f \in Forks(keys) : IsPrefix(f, q) /\ Len(q) = Len(f) + 1
  <2>1. SUFFICES ASSUME q \notin Forks(keys)
                 PROVE  \E f \in Forks(keys) : IsPrefix(f, q) /\ Len(q) = Len(f) + 1
    OBVIOUS
  <2>2. PICK g \in Ends(keys) : q = Start(keys, g)
    BY <2>1, CanonicalIs
  <2>3. q # <<>>
    BY <1>1, <1>2, EmptyPath, PrefixSameLen
  <2>4. g \in Path
    BY EndsAre
  <2>. QED  BY <2>2, <2>3, <2>4, StartIs
<1> HIDE DEF s
<1>4. Len(s) < Len(q)
  <2>1. ~(Len(q) <= Len(s))
    BY <1>1, <1>2, PrefixSameLen DEF s
  <2>. QED  BY <1>1, <2>1
<1>5. CASE IsPrefix(q, e)
  <2>1. q # e
    BY <1>1, <1>2, PrefixRefl
  <2>2. q \notin Forks(keys)
    BY <1>1, <1>4, <1>5, <2>1
  <2>3. PICK f \in Forks(keys) : IsPrefix(f, q) /\ Len(q) = Len(f) + 1
    BY <1>3, <2>2
  <2>4. IsPrefix(f, e) /\ f # e
    <3>1. IsPrefix(f, e) /\ Len(q) <= Len(e)
      BY <1>1, <1>5, <2>3, PrefixTrans, PrefixLen
    <3>. QED  BY <1>1, <2>3, <3>1
  <2>. QED  BY <1>1, <1>4, <2>3, <2>4
<1>6. CASE ~IsPrefix(q, e)
  <2>1. PICK k \in keys, l \in keys : IsPrefix(e, k) /\ IsPrefix(q, l)
    BY EndsAre, CanonicalPaths
  <2>2. PICK c \in Forks(keys) : /\ IsPrefix(c, e) /\ c # e
                                 /\ e[Len(c) + 1] # q[Len(c) + 1]
    BY <1>1, <1>2, <1>6, <2>1, Diverge
  <2>3. Len(c) + 1 \in 1..Len(s)
    BY <1>1, <2>2
  <2>4. e[Len(c) + 1] = s[Len(c) + 1] /\ q[Len(c) + 1] = s[Len(c) + 1]
    BY <1>1, <2>3, PrefixDef DEF s
  <2>. QED  BY <2>2, <2>4
<1>. QED  BY <1>5, <1>6

\* A fork has a child towards each key after it.
LEMMA ChildOfFork ==
  ASSUME NEW m, NEW len \in Nat, AreKeys(DOMAIN m, len), NEW p \in Forks(DOMAIN m),
         NEW x \in Path, IsPrefix(p, x), Len(x) = Len(p) + 1,
         NEW k \in DOMAIN m, IsPrefix(x, k)
  PROVE  x \in DOMAIN Canonical(m)
<1> DEFINE keys == DOMAIN m
           S == {Len(e) : e \in {g \in Ends(keys) : IsPrefix(x, g)}}
<1>1. \A e \in Ends(keys) : e \in Path /\ Len(e) \in Nat
  BY EndsAre
<1>2. k \in Ends(keys) /\ Forks(keys) \subseteq Ends(keys)
  BY DEF Ends
<1>3. S \subseteq Nat /\ S # {}
  BY <1>1, <1>2
<1>4. PICK n \in S : \A i \in S : n <= i
  <2> HIDE DEF S
  <2>. QED  BY <1>3, LeastNat
<1>5. PICK e \in Ends(keys) : IsPrefix(x, e) /\ \A g \in Ends(keys) : IsPrefix(x, g) => Len(e) <= Len(g)
  BY <1>4
<1> DEFINE s == Start(keys, e)
<1>6. /\ s \in Path /\ IsPrefix(s, e) /\ Len(s) \in Nat
      /\ \A q \in Forks(keys) : IsPrefix(q, e) /\ q # e => Len(q) < Len(s)
      /\ s # <<>> => \E q \in Forks(keys) : IsPrefix(q, s) /\ Len(s) = Len(q) + 1
  BY <1>1, StartIs, PathLen
<1>7. s \in DOMAIN Canonical(m)
  BY CanonicalIs
<1> HIDE DEF s
<1>8. p \in Path /\ e \in Path /\ Len(x) <= Len(e) /\ Len(p) \in Nat
  BY <1>1, <1>2, <1>5, PrefixLen
<1>9. Len(x) <= Len(s)
  <2>1. IsPrefix(p, e) /\ p # e
    BY <1>1, <1>5, <1>8, PrefixTrans
  <2>. QED  BY <1>6, <1>8, <2>1
<1>10. Len(s) <= Len(x)
  <2>1. SUFFICES ASSUME Len(x) < Len(s) PROVE FALSE
    BY <1>6, PathLen
  <2>2. s # <<>>
    BY <2>1, EmptyPath, PathLen
  <2>3. PICK q \in Forks(keys) : IsPrefix(q, s) /\ Len(s) = Len(q) + 1
    BY <1>6, <2>2
  <2>4. q \in Path /\ q \in Ends(keys) /\ Len(q) \in Nat
    BY <1>1, <1>2
  <2>5. Len(x) \in Nat /\ Len(s) <= Len(e) /\ Len(e) \in Nat
    BY <1>6, <1>8, PathLen, PrefixLen
  <2>6. Len(x) <= Len(q) /\ Len(q) < Len(e)
    BY <1>6, <2>1, <2>3, <2>4, <2>5
  <2>7. IsPrefix(q, e)
    BY <1>6, <1>8, <2>3, <2>4, PrefixTrans
  <2>8. IsPrefix(x, q)
    BY <1>5, <1>8, <2>4, <2>6, <2>7, PrefixesCompare
  <2>. QED  BY <1>5, <2>4, <2>5, <2>6, <2>8
<1>11. s = x
  <2>1. IsPrefix(s, x)
    BY <1>5, <1>6, <1>8, <1>10, PrefixesCompare
  <2>. QED  BY <1>6, <1>9, <2>1, PrefixSameLen
<1>. QED  BY <1>7, <1>11

\* The trie of a map is a trie, and has the map's entries for leaves.
THEOREM CanonicalIsTrie ==
  ASSUME NEW m, NEW len \in Nat, AreKeys(DOMAIN m, len)
  PROVE  LET c == Canonical(m)
         IN  /\ c = [p \in DOMAIN c |-> c[p]] /\ Shape(c, len)
             /\ \A p \in DOMAIN c : c[p].type # "digest"
             /\ \A k, v : LeafOf(c, k, v) <=> k \in DOMAIN m /\ v = m[k]
<1> DEFINE keys == DOMAIN m
           c == Canonical(m)
<1>0. c = [p \in DOMAIN c |-> c[p]]
  BY CanonicalIs
<1>1. /\ \A p : p \in DOMAIN c <=> p \in Forks(keys) \/ \E e \in Ends(keys) : p = Start(keys, e)
      /\ \A p \in Forks(keys) : c[p] = Branch
      /\ \A e \in keys :
           LET s == Start(keys, e)
           IN  s \notin Forks(keys) /\ c[s] = Leaf(Drop(e, Len(s)), m[e])
      /\ \A e \in Forks(keys) :
           LET s == Start(keys, e)
           IN  s # e => s \notin Forks(keys) /\ c[s] = Extension(Drop(e, Len(s)))
  BY CanonicalIs
<1>2. \A p \in DOMAIN c : /\ p \in Path /\ Len(p) \in Nat /\ Len(p) <= len
                          /\ \E k \in keys : IsPrefix(p, k)
                          /\ \E e \in Ends(keys) : IsPrefix(p, e)
  BY CanonicalPaths
<1>3. \A p \in Forks(keys) : c[p].type = "branch" /\ IsNode(c[p])
  BY <1>1, BranchIs
<1> HIDE DEF c
\* The leaves.
<1>4. ASSUME NEW e \in keys
      PROVE  LET s == Start(keys, e)
             IN  /\ s \in DOMAIN c /\ s \notin Forks(keys) /\ IsPrefix(s, e)
                 /\ c[s].type = "leaf" /\ IsNode(c[s]) /\ s \o Nibs(c[s]) = e /\ c[s].value = m[e]
  <2> DEFINE s == Start(keys, e)
             v == m[e]
             d == Drop(e, Len(s))
  <2>1. e \in Path /\ e \in Ends(keys)
    BY DEF AreKeys, Ends
  <2>2. s \in Path /\ IsPrefix(s, e)
    BY <2>1, StartIs
  <2>3. s \in DOMAIN c /\ s \notin Forks(keys) /\ c[s] = Leaf(d, v)
    BY <1>1, <2>1
  <2> HIDE DEF s, v
  <2>4. d \in Path /\ s \o d = e
    <3>1. Len(s) \in 0..Len(e)
      BY <2>1, <2>2, PathLen, PrefixLen
    <3>. QED  BY <2>1, <2>2, <3>1, Dropped, JoinDropped
  <2> HIDE DEF d
  <2>5. c[s].type = "leaf" /\ IsNode(c[s]) /\ Nibs(c[s]) = d /\ c[s].value = v
    BY <2>3, <2>4, LeafIs
  <2>6. s \o Nibs(c[s]) = e
    BY <2>4, <2>5
  <2>. QED  BY <2>2, <2>3, <2>5, <2>6 DEF s, v
\* The extensions.
<1>5. ASSUME NEW e \in Forks(keys), Start(keys, e) # e
      PROVE  LET s == Start(keys, e)
             IN  /\ s \in DOMAIN c /\ s \notin Forks(keys) /\ IsPrefix(s, e)
                 /\ c[s].type = "extension" /\ IsNode(c[s]) /\ s \o Nibs(c[s]) = e
  <2> DEFINE s == Start(keys, e)
             d == Drop(e, Len(s))
  <2>1. e \in Path /\ e \in Ends(keys)
    BY ForksAre DEF Ends
  <2>2. s \in Path /\ IsPrefix(s, e) /\ s # e
    BY <1>5, <2>1, StartIs
  <2>3. s \in DOMAIN c /\ s \notin Forks(keys) /\ c[s] = Extension(d)
    BY <1>1, <1>5, <2>1
  <2> HIDE DEF s
  <2>4. d \in Path /\ s \o d = e /\ d # <<>>
    <3>1. Len(s) \in 0..Len(e) /\ ~(Len(e) <= Len(s)) /\ Len(e) \in Nat
      BY <2>1, <2>2, PathLen, PrefixLen, PrefixSameLen
    <3>2. d \in Path /\ s \o d = e /\ Len(d) = Len(e) - Len(s)
      BY <2>1, <2>2, <3>1, Dropped, JoinDropped
    <3>3. Len(d) # 0
      BY <3>1, <3>2
    <3>. QED  BY <3>2, <3>3, EmptyPath
  <2> HIDE DEF d
  <2>5. c[s].type = "extension" /\ IsNode(c[s]) /\ Nibs(c[s]) = d
    BY <2>3, <2>4, ExtensionIs
  <2>6. s \o Nibs(c[s]) = e
    BY <2>4, <2>5
  <2>. QED  BY <2>2, <2>3, <2>5, <2>6 DEF s
<1>6. ASSUME NEW p \in DOMAIN c, p \notin Forks(keys)
      PROVE  \/ \E e \in keys : p = Start(keys, e)
             \/ \E e \in Forks(keys) : p = Start(keys, e) /\ p # e
  BY <1>1, <1>6 DEF Ends
<1>7. ASSUME <<>> \notin DOMAIN c PROVE c = EmptyRoot
  <2>1. SUFFICES ASSUME NEW p \in DOMAIN c PROVE FALSE
    BY <1>0 DEF EmptyRoot, c
  <2> DEFINE S == {Len(e) : e \in Ends(keys)}
  <2>2. S \subseteq Nat /\ S # {}
    BY <1>2, EndsAre
  <2>3. PICK n \in S : \A i \in S : n <= i
    <3> HIDE DEF S
    <3>. QED  BY <2>2, LeastNat
  <2>4. PICK e \in Ends(keys) : \A g \in Ends(keys) : Len(e) <= Len(g)
    BY <2>3
  <2> DEFINE s == Start(keys, e)
  <2>5. s \in DOMAIN c
    BY <1>1
  <2>6. e \in Path
    BY EndsAre
  <2>7. s \in Path /\ IsPrefix(s, e)
    BY <2>6, StartIs
  <2>8. PICK q \in Forks(keys) : Len(s) = Len(q) + 1
    BY <1>7, <2>5, <2>6, StartIs
  <2>9. q \in Path /\ q \in Ends(keys)
    BY ForksAre DEF Ends
  <2> HIDE DEF s
  <2>. QED  BY <2>4, <2>6, <2>7, <2>8, <2>9, PathLen, PrefixLen
<1>8. ASSUME NEW p \in DOMAIN c PROVE IsNode(c[p]) /\ IsPlaced(c, p, len) /\ c[p].type # "digest"
  <2>1. p \in Path /\ Len(p) \in Nat /\ Len(p) <= len
    BY <1>2
  <2>2. CASE p \in Forks(keys)
    <3>1. ASSUME NEW x \in Path, IsPrefix(p, x), p # x, NEW k \in keys, IsPrefix(x, k)
          PROVE  \E r \in DOMAIN c : /\ IsPrefix(p, r) /\ r # p /\ Len(r) = Len(p) + 1
                                     /\ IsPrefix(r, x)
      <4> DEFINE n1 == Len(p) + 1
                 r == SubSeq(x, 1, n1)
      <4>1. k \in Path
        BY DEF AreKeys
      <4>2. n1 \in 0..Len(x)
        BY <2>1, <3>1, PathLen, PrefixLen, PrefixSameLen
      <4> HIDE DEF n1
      <4>3. r \in Path /\ Len(r) = n1 /\ IsPrefix(r, x)
        BY <4>2, Take
      <4> HIDE DEF r
      <4>4. IsPrefix(p, r) /\ IsPrefix(r, k) /\ Len(r) = Len(p) + 1 /\ r # p
        BY <2>1, <3>1, <4>1, <4>3, PrefixesCompare, PrefixTrans DEF n1
      <4>5. r \in DOMAIN c
        BY <2>2, <4>3, <4>4, ChildOfFork DEF c
      <4>. QED  BY <4>3, <4>4, <4>5
    <3>2. \A q \in DOMAIN c : IsPrefix(p, q) /\ q # p =>
            \E r \in DOMAIN c : /\ IsPrefix(p, r) /\ r # p /\ Len(r) = Len(p) + 1
                                /\ IsPrefix(r, q)
      BY <1>2, <3>1
    <3>3. PICK k \in keys, l \in keys :
            /\ IsPrefix(p, k) /\ IsPrefix(p, l) /\ Len(p) < Len(k) /\ Len(p) < Len(l)
            /\ k[Len(p) + 1] # l[Len(p) + 1]
      BY <2>2, ForksAre DEF PartAt
    <3>4. k \in Path /\ l \in Path /\ p # k /\ p # l
      BY <3>3, PathLen DEF AreKeys
    <3>5. PICK x \in DOMAIN c : /\ IsPrefix(p, x) /\ x # p /\ Len(x) = Len(p) + 1 /\ IsPrefix(x, k)
      BY <3>1, <3>3, <3>4, PrefixRefl
    <3>6. PICK y \in DOMAIN c : /\ IsPrefix(p, y) /\ y # p /\ Len(y) = Len(p) + 1 /\ IsPrefix(y, l)
      BY <3>1, <3>3, <3>4, PrefixRefl
    <3>7. x # y
      <4>1. x \in Path /\ y \in Path
        BY <1>2
      <4>2. k[Len(p) + 1] = x[Len(p) + 1] /\ l[Len(p) + 1] = y[Len(p) + 1]
        BY <2>1, <3>4, <3>5, <3>6, <4>1, NextPrefix, PrefixDef
      <4>. QED  BY <3>3, <4>2
    <3>8. IsPlaced(c, p, len)
      BY <1>3, <2>1, <2>2, <3>2, <3>5, <3>6, <3>7, MakePlaced
    <3>. QED  BY <1>3, <2>2, <3>8
  <2>3. ASSUME NEW e \in keys, p = Start(keys, e)
        PROVE  IsNode(c[p]) /\ IsPlaced(c, p, len) /\ c[p].type # "digest"
    <3>1. c[p].type = "leaf" /\ IsNode(c[p]) /\ p \o Nibs(c[p]) = e /\ Len(e) = len /\ e \in Path
      BY <1>4, <2>3 DEF AreKeys
    <3>2. ASSUME NEW q \in DOMAIN c, IsPrefix(p, q) PROVE q = p
      <4>1. SUFFICES ASSUME q # p PROVE FALSE
        OBVIOUS
      <4>2. e \in Ends(keys)
        BY DEF Ends
      <4>3. IsPrefix(e, q) /\ q \in Path /\ Len(q) <= len
        BY <1>2, <2>3, <3>2, <4>1, <4>2, Between DEF c
      <4>4. q = e
        BY <3>1, <4>3, PrefixSameLen
      <4>5. q \notin Forks(keys)
        BY <3>1, <4>2, <4>4, EndsAre
      <4>6. PICK g \in Ends(keys) : q = Start(keys, g)
        BY <1>1, <4>5
      <4>7. g \in Path /\ Len(g) <= len /\ IsPrefix(q, g)
        BY <4>6, EndsAre, StartIs
      <4>8. g = q
        BY <3>1, <4>3, <4>4, <4>7, PrefixSameLen
      <4>. QED  BY <2>3, <4>1, <4>4, <4>6, <4>8
    <3>3. Len(p \o Nibs(c[p])) = len
      BY <3>1
    <3>. QED  BY <2>1, <3>1, <3>2, <3>3, MakePlaced
  <2>4. ASSUME NEW e \in Forks(keys), p = Start(keys, e), p # e
        PROVE  IsNode(c[p]) /\ IsPlaced(c, p, len) /\ c[p].type # "digest"
    <3>1. c[p].type = "extension" /\ IsNode(c[p]) /\ p \o Nibs(c[p]) = e /\ IsPrefix(p, e)
      BY <1>5, <2>4
    <3>2. e \in DOMAIN c /\ c[e].type = "branch"
      BY <1>1, <1>3
    <3>3. \A q \in DOMAIN c : IsPrefix(p, q) /\ q # p => IsPrefix(e, q)
      BY <2>4, Between DEF Ends, c
    <3>. QED  BY <2>1, <2>4, <3>1, <3>2, <3>3, MakePlaced
  <2>. QED  BY <1>6, <2>2, <2>3, <2>4
<1>9. Shape(c, len)
  BY <1>2, <1>7, <1>8 DEF Shape
<1>10. ASSUME NEW k, NEW v PROVE LeafOf(c, k, v) <=> k \in DOMAIN m /\ v = m[k]
  <2>1. ASSUME LeafOf(c, k, v) PROVE k \in DOMAIN m /\ v = m[k]
    <3>1. PICK p \in DOMAIN c : c[p].type = "leaf" /\ p \o Nibs(c[p]) = k /\ c[p].value = v
      BY <2>1 DEF LeafOf
    <3>2. PICK e \in keys : p = Start(keys, e)
      BY <1>3, <1>5, <1>6, <3>1
    <3>. QED  BY <1>4, <3>1, <3>2
  <2>2. ASSUME k \in keys, v = m[k] PROVE LeafOf(c, k, v)
    BY <1>4, <2>2 DEF LeafOf
  <2>. QED  BY <2>1, <2>2
<1>. QED  BY <1>0, <1>8, <1>9, <1>10 DEF c

-----------------------------------------------------------------------------
(* There is one trie of a map. *)

\* Below each node is a leaf or a digest.
LEMMA EndsBelow ==
  ASSUME NEW f, NEW len \in Nat, Shape(f, len), NEW p \in DOMAIN f
  PROVE  \E q \in DOMAIN f : IsPrefix(p, q) /\ f[q].type \in {"leaf", "digest"}
<1> DEFINE S == {Len(q) : q \in {r \in DOMAIN f : IsPrefix(p, r)}}
<1>1. \A q \in DOMAIN f : q \in Path /\ Len(q) \in Nat /\ Len(q) <= len
  BY PlacedIs
<1>2. S \subseteq 0..len /\ S # {}
  <2>1. Len(p) \in S
    BY <1>1, PrefixRefl
  <2>2. ASSUME NEW i \in S PROVE i \in 0..len
    BY <1>1, <2>2
  <2>. HIDE DEF S
  <2>. QED  BY <2>1, <2>2
<1>3. PICK n \in S : \A i \in S : i <= n
  <2> HIDE DEF S
  <2>. QED  BY <1>2, GreatestNat
<1>4. PICK q \in DOMAIN f : IsPrefix(p, q) /\ \A r \in DOMAIN f : IsPrefix(p, r) => Len(r) <= Len(q)
  BY <1>3
<1>5. ASSUME NEW r \in DOMAIN f, IsPrefix(q, r), q # r PROVE FALSE
  <2>1. IsPrefix(p, r)
    BY <1>1, <1>4, <1>5, PrefixTrans
  <2>. QED  BY <1>1, <1>4, <1>5, <2>1, PrefixSameLen
<1>6. f[q].type \in {"leaf", "extension", "branch", "digest"}
  BY PlacedIs
<1>7. f[q].type # "extension"
  BY <1>5, PlacedIs
<1>8. f[q].type # "branch"
  <2>1. SUFFICES ASSUME f[q].type = "branch" PROVE FALSE
    OBVIOUS
  <2>2. PICK r \in DOMAIN f : IsPrefix(q, r) /\ Len(r) = Len(q) + 1
    BY <2>1, PlacedIs
  <2>. QED  BY <1>1, <1>5, <2>2
<1>. QED  BY <1>4, <1>6, <1>7, <1>8

\* A leaf whose key is after a node is below the node.
LEMMA LeafAfter ==
  ASSUME NEW f, NEW len \in Nat, Shape(f, len), NEW p \in DOMAIN f,
         NEW q \in DOMAIN f, NEW k, IsLeafOf(f, q, k), IsPrefix(p, k)
  PROVE  IsPrefix(p, q)
<1>1. f[q].type = "leaf" /\ q \o Nibs(f[q]) = k /\ k \in Path /\ f # EmptyRoot
  BY LeafIsOf DEF IsLeafOf, EmptyRoot
<1>2. End(f, k) = q
  BY <1>1, EndIsLeaf
<1>. QED  BY <1>1, <1>2, EndIs

\* Two leaves part at p.
TwoLeaves(f, p) ==
  \E k, l \in Path : \E v, w :
    /\ LeafOf(f, k, v) /\ LeafOf(f, l, w) /\ IsPrefix(p, k) /\ IsPrefix(p, l)
    /\ Len(p) < Len(k) /\ Len(p) < Len(l) /\ k[Len(p) + 1] # l[Len(p) + 1]

\* What leaves are below a node, by its kind.
LEMMA NodeLeaves ==
  ASSUME NEW f, NEW len \in Nat, Shape(f, len), \A q \in DOMAIN f : f[q].type # "digest",
         NEW p \in DOMAIN f
  PROVE  /\ \E k \in Path : \E v : LeafOf(f, k, v) /\ IsPrefix(p, k)
         /\ f[p].type = "leaf" =>
              /\ LeafOf(f, p \o Nibs(f[p]), f[p].value)
              /\ \A k, v : LeafOf(f, k, v) /\ IsPrefix(p, k) => k = p \o Nibs(f[p]) /\ v = f[p].value
         /\ f[p].type = "branch" => TwoLeaves(f, p)
         /\ f[p].type = "extension" =>
              /\ TwoLeaves(f, p \o Nibs(f[p]))
              /\ \A k, v : LeafOf(f, k, v) /\ IsPrefix(p, k) => IsPrefix(p \o Nibs(f[p]), k)
<1>1. \A q \in DOMAIN f : q \in Path /\ Len(q) \in Nat
  BY PlacedIs
<1>2. ASSUME NEW q \in DOMAIN f
      PROVE  \E k \in Path : \E v : LeafOf(f, k, v) /\ IsPrefix(q, k)
  <2>1. PICK r \in DOMAIN f : IsPrefix(q, r) /\ f[r].type = "leaf"
    BY EndsBelow
  <2> DEFINE k == r \o Nibs(f[r])
  <2>2. IsLeafOf(f, r, k)
    BY <2>1 DEF IsLeafOf
  <2> HIDE DEF k
  <2>3. k \in Path /\ IsPrefix(r, k)
    BY <2>2, LeafIsOf
  <2>4. IsPrefix(q, k)
    BY <1>1, <2>1, <2>3, PrefixTrans
  <2>5. LeafOf(f, k, f[r].value)
    BY <2>2, LeafOfIs
  <2>. QED  BY <2>3, <2>4, <2>5
<1>3. ASSUME NEW b \in DOMAIN f, f[b].type = "branch" PROVE TwoLeaves(f, b)
  <2>1. PICK x \in DOMAIN f, y \in DOMAIN f :
          /\ IsPrefix(b, x) /\ IsPrefix(b, y) /\ Len(x) = Len(b) + 1 /\ Len(y) = Len(b) + 1
          /\ x # y
    BY <1>3, PlacedIs
  <2>2. PICK k \in Path : \E v : LeafOf(f, k, v) /\ IsPrefix(x, k)
    BY <1>2
  <2>3. PICK l \in Path : \E v : LeafOf(f, l, v) /\ IsPrefix(y, l)
    BY <1>2
  <2>4. IsPrefix(b, k) /\ IsPrefix(b, l)
    BY <1>1, <2>1, <2>2, <2>3, PrefixTrans
  <2>5. /\ Len(b) < Len(k) /\ k[Len(b) + 1] = x[Len(b) + 1]
        /\ Len(b) < Len(l) /\ l[Len(b) + 1] = y[Len(b) + 1]
    BY <1>1, <2>1, <2>2, <2>3, <2>4, NextPrefix
  <2>6. x[Len(b) + 1] # y[Len(b) + 1]
    <3>1. SUFFICES ASSUME x[Len(b) + 1] = y[Len(b) + 1] PROVE FALSE
      OBVIOUS
    <3>2. IsPrefix(x, l)
      BY <1>1, <2>1, <2>4, <2>5, <3>1, NextPrefix
    <3>3. IsPrefix(x, y)
      BY <1>1, <2>1, <2>3, <3>2, PrefixesCompare
    <3>. QED  BY <1>1, <2>1, <3>3, PrefixSameLen
  <2>. QED  BY <2>2, <2>3, <2>4, <2>5, <2>6 DEF TwoLeaves
<1>4. ASSUME NEW k, NEW v, LeafOf(f, k, v), IsPrefix(p, k)
      PROVE  \E q \in DOMAIN f : IsLeafOf(f, q, k) /\ f[q].value = v /\ IsPrefix(p, q) /\ IsPrefix(q, k)
                                 /\ k \in Path
  <2>1. PICK q \in DOMAIN f : IsLeafOf(f, q, k) /\ f[q].value = v
    BY <1>4, LeafOfIs
  <2>. QED  BY <1>4, <2>1, LeafAfter, LeafIsOf
<1>5. f[p].type = "leaf" =>
        /\ LeafOf(f, p \o Nibs(f[p]), f[p].value)
        /\ \A k, v : LeafOf(f, k, v) /\ IsPrefix(p, k) => k = p \o Nibs(f[p]) /\ v = f[p].value
  <2>1. SUFFICES ASSUME f[p].type = "leaf"
                 PROVE  /\ LeafOf(f, p \o Nibs(f[p]), f[p].value)
                        /\ \A k, v : LeafOf(f, k, v) /\ IsPrefix(p, k) =>
                                       k = p \o Nibs(f[p]) /\ v = f[p].value
    OBVIOUS
  <2>2. LeafOf(f, p \o Nibs(f[p]), f[p].value)
    BY <2>1 DEF LeafOf
  <2>3. \A q \in DOMAIN f : IsPrefix(p, q) => q = p
    BY <2>1, PlacedIs
  <2>4. ASSUME NEW k, NEW v, LeafOf(f, k, v), IsPrefix(p, k)
        PROVE  k = p \o Nibs(f[p]) /\ v = f[p].value
    BY <1>4, <2>3, <2>4 DEF IsLeafOf
  <2>. QED  BY <2>2, <2>4
<1>6. f[p].type = "extension" =>
        /\ TwoLeaves(f, p \o Nibs(f[p]))
        /\ \A k, v : LeafOf(f, k, v) /\ IsPrefix(p, k) => IsPrefix(p \o Nibs(f[p]), k)
  <2>1. SUFFICES ASSUME f[p].type = "extension"
                 PROVE  /\ TwoLeaves(f, p \o Nibs(f[p]))
                        /\ \A k, v : LeafOf(f, k, v) /\ IsPrefix(p, k) => IsPrefix(p \o Nibs(f[p]), k)
    OBVIOUS
  <2> DEFINE child == p \o Nibs(f[p])
  <2>2. /\ child \in DOMAIN f /\ f[child].type = "branch"
        /\ \A q \in DOMAIN f : IsPrefix(p, q) /\ q # p => IsPrefix(child, q)
    BY <2>1, PlacedIs
  <2> HIDE DEF child
  <2>3. ASSUME NEW k, NEW v, LeafOf(f, k, v), IsPrefix(p, k) PROVE IsPrefix(child, k)
    <3>1. PICK q \in DOMAIN f : IsLeafOf(f, q, k) /\ IsPrefix(p, q) /\ IsPrefix(q, k) /\ k \in Path
      BY <1>4, <2>3
    <3>2. q # p
      BY <2>1, <3>1 DEF IsLeafOf
    <3>. QED  BY <1>1, <2>2, <3>1, <3>2, PrefixTrans
  <2>4. TwoLeaves(f, child)
    BY <1>3, <2>2
  <2>. QED  BY <2>3, <2>4 DEF child
<1>. QED  BY <1>2, <1>3, <1>5, <1>6

\* Two tries hold the same map.
SameLeaves(f, g) == \A k, v : LeafOf(f, k, v) <=> LeafOf(g, k, v)

\* A path that two leaves share is not after where they part.
LEMMA PartsAfter ==
  ASSUME NEW f, NEW p \in Path, NEW c \in Path, TwoLeaves(f, p),
         \A k, v : LeafOf(f, k, v) /\ IsPrefix(p, k) => IsPrefix(c, k)
  PROVE  IsPrefix(c, p)
<1>1. PICK k \in Path, l \in Path :
        /\ IsPrefix(p, k) /\ IsPrefix(p, l) /\ IsPrefix(c, k) /\ IsPrefix(c, l)
        /\ k[Len(p) + 1] # l[Len(p) + 1]
  BY DEF TwoLeaves
<1>2. Len(c) \in Nat /\ Len(p) \in Nat
  BY PathLen
<1>3. Len(c) <= Len(p)
  <2>1. SUFFICES ASSUME Len(p) + 1 \in 1..Len(c) PROVE FALSE
    BY <1>2
  <2>2. k[Len(p) + 1] = c[Len(p) + 1] /\ l[Len(p) + 1] = c[Len(p) + 1]
    BY <1>1, <2>1, PrefixDef
  <2>. QED  BY <1>1, <2>2
<1>. QED  BY <1>1, <1>3, PrefixesCompare

\* Nodes at the same path, by the types they may have.
LEMMA NodesNotOther ==
  ASSUME NEW f, NEW g, NEW len \in Nat, Shape(f, len), Shape(g, len), SameLeaves(f, g),
         \A q \in DOMAIN f : f[q].type # "digest", \A q \in DOMAIN g : g[q].type # "digest",
         NEW p, p \in DOMAIN f, p \in DOMAIN g
  PROVE  /\ f[p].type = "leaf" => g[p].type = "leaf"
         /\ f[p].type = "branch" => g[p].type # "extension"
<1>0. p \in Path /\ Len(p) \in Nat
  BY PlacedIs
<1>1. g[p].type \in {"leaf", "extension", "branch", "digest"}
  BY PlacedIs
<1>2. \A k, v : LeafOf(f, k, v) <=> LeafOf(g, k, v)
  BY DEF SameLeaves
<1>3. ASSUME f[p].type = "leaf", g[p].type \in {"branch", "extension"} PROVE FALSE
  <2>1. \A k, v : LeafOf(g, k, v) /\ IsPrefix(p, k) => k = p \o Nibs(f[p])
    BY <1>2, <1>3, NodeLeaves
  <2>2. PICK c \in Path : IsPrefix(p, c) /\ TwoLeaves(g, c)
    <3>1. CASE g[p].type = "branch"
      BY <1>0, <3>1, NodeLeaves, PrefixRefl
    <3>2. CASE g[p].type = "extension"
      <4> DEFINE c == p \o Nibs(g[p])
      <4>1. c \in DOMAIN g /\ IsPrefix(p, c)
        BY <3>2, PlacedIs
      <4>2. TwoLeaves(g, c)
        BY <3>2, NodeLeaves
      <4> HIDE DEF c
      <4>3. c \in Path
        BY <4>1, PlacedIs
      <4>. QED  BY <4>1, <4>2, <4>3
    <3>. QED  BY <1>3, <3>1, <3>2
  <2>3. PICK k \in Path, l \in Path :
          /\ IsPrefix(c, k) /\ IsPrefix(c, l) /\ k[Len(c) + 1] # l[Len(c) + 1]
          /\ \E v : LeafOf(g, k, v)
          /\ \E v : LeafOf(g, l, v)
    BY <2>2 DEF TwoLeaves
  <2>4. IsPrefix(p, k) /\ IsPrefix(p, l)
    BY <1>0, <2>2, <2>3, PrefixTrans
  <2>5. k = l
    BY Zenon, <2>1, <2>3, <2>4
  <2>. QED  BY <2>3, <2>5
<1>4. ASSUME f[p].type = "branch", g[p].type = "extension" PROVE FALSE
  <2> DEFINE c == p \o Nibs(g[p])
  <2>1. c \in DOMAIN g /\ IsPrefix(p, c) /\ c # p
    BY <1>4, PlacedIs
  <2>2. \A k, v : LeafOf(g, k, v) /\ IsPrefix(p, k) => IsPrefix(c, k)
    BY <1>4, NodeLeaves
  <2> HIDE DEF c
  <2>3. \A k, v : LeafOf(f, k, v) /\ IsPrefix(p, k) => IsPrefix(c, k)
    BY <1>2, <2>2
  <2>4. c \in Path
    BY <2>1, PlacedIs
  <2>5. IsPrefix(c, p)
    BY <1>0, <1>4, <2>3, <2>4, NodeLeaves, PartsAfter
  <2>. QED  BY <1>0, <2>1, <2>4, <2>5, PrefixLen, PrefixSameLen
<1>. QED  BY <1>1, <1>3, <1>4

\* Where both have a node it is the same.
LEMMA NodesAreSame ==
  ASSUME NEW f, NEW g, NEW len \in Nat, Shape(f, len), Shape(g, len), SameLeaves(f, g),
         \A q \in DOMAIN f : f[q].type # "digest", \A q \in DOMAIN g : g[q].type # "digest",
         NEW p, p \in DOMAIN f, p \in DOMAIN g
  PROVE  f[p] = g[p]
<1>0. SameLeaves(g, f) /\ \A k, v : LeafOf(f, k, v) <=> LeafOf(g, k, v)
  BY DEF SameLeaves
<1>1. /\ p \in Path /\ IsNode(f[p]) /\ IsNode(g[p])
      /\ f[p].type \in {"leaf", "extension", "branch"} /\ g[p].type \in {"leaf", "extension", "branch"}
  BY PlacedIs
<1>2. f[p].type = g[p].type
  BY <1>0, <1>1, NodesNotOther
<1> DEFINE a == Nibs(f[p])
           b == Nibs(g[p])
<1>3. /\ f[p].type \in {"leaf", "extension"} => a \in Path
      /\ g[p].type \in {"leaf", "extension"} => b \in Path
      /\ f[p].type = "leaf" => f[p] = Leaf(a, f[p].value)
      /\ g[p].type = "leaf" => g[p] = Leaf(b, g[p].value)
      /\ f[p].type = "extension" => f[p] = Extension(a)
      /\ g[p].type = "extension" => g[p] = Extension(b)
      /\ f[p].type = "branch" => f[p] = Branch
      /\ g[p].type = "branch" => g[p] = Branch
  BY <1>1, NodeType
<1> DEFINE x == p \o a
           y == p \o b
<1>4. ASSUME x = y, a \in Path, b \in Path PROVE a = b
  <2>1. Drop(x, Len(p)) = a /\ Drop(y, Len(p)) = b
    BY <1>1, <1>4, DropJoined
  <2> HIDE DEF x, y
  <2>. QED  BY <1>4, <2>1
<1>5. CASE f[p].type = "leaf"
  <2>1. LeafOf(f, x, f[p].value)
    BY <1>5, NodeLeaves
  <2>2. \A k, v : LeafOf(g, k, v) /\ IsPrefix(p, k) => k = y /\ v = g[p].value
    BY <1>2, <1>5, NodeLeaves
  <2>3. IsPrefix(p, x)
    BY <1>1, <1>3, <1>5, Joined
  <2>4. x = y /\ f[p].value = g[p].value
    BY Zenon, <1>0, <2>1, <2>2, <2>3
  <2>5. a = b
    BY <1>2, <1>3, <1>4, <1>5, <2>4
  <2> HIDE DEF a, b
  <2>. QED  BY <1>2, <1>3, <1>5, <2>4, <2>5
<1>6. CASE f[p].type = "extension"
  <2>1. x \in Path /\ y \in Path /\ IsPrefix(p, x) /\ IsPrefix(p, y)
    BY <1>1, <1>2, <1>3, <1>6, Joined
  <2>2. /\ TwoLeaves(f, x) /\ \A k, v : LeafOf(f, k, v) /\ IsPrefix(p, k) => IsPrefix(x, k)
        /\ TwoLeaves(g, y) /\ \A k, v : LeafOf(g, k, v) /\ IsPrefix(p, k) => IsPrefix(y, k)
    BY <1>2, <1>6, NodeLeaves
  <2> HIDE DEF x, y
  <2>3. ASSUME NEW k, NEW v, LeafOf(f, k, v), IsPrefix(x, k) \/ IsPrefix(y, k) PROVE IsPrefix(p, k)
    <3>1. k \in Path
      <4>1. PICK q \in DOMAIN f : IsLeafOf(f, q, k)
        BY <2>3, LeafOfIs
      <4>. QED  BY <4>1, LeafIsOf
    <3>. QED  BY <1>1, <2>1, <2>3, <3>1, PrefixTrans
  <2>4. IsPrefix(y, x)
    <3>1. \A k, v : LeafOf(f, k, v) /\ IsPrefix(x, k) => IsPrefix(y, k)
      BY <1>0, <2>2, <2>3
    <3>. QED  BY <2>1, <2>2, <3>1, PartsAfter
  <2>5. IsPrefix(x, y)
    <3>1. \A k, v : LeafOf(g, k, v) /\ IsPrefix(y, k) => IsPrefix(x, k)
      BY <1>0, <2>2, <2>3
    <3>. QED  BY <2>1, <2>2, <3>1, PartsAfter
  <2>6. x = y
    BY <2>1, <2>4, <2>5, PrefixLen, PrefixSameLen
  <2>7. a = b
    BY <1>2, <1>3, <1>4, <1>6, <2>6 DEF x, y
  <2> HIDE DEF a, b
  <2>. QED  BY <1>2, <1>3, <1>6, <2>7
<1>7. CASE f[p].type = "branch"
  BY <1>2, <1>3, <1>7
<1>. QED  BY <1>1, <1>5, <1>6, <1>7

\* Where nothing differs before it, a node of one is a node of the other.
LEMMA NodeIsThere ==
  ASSUME NEW f, NEW g, NEW len \in Nat, Shape(f, len), Shape(g, len), SameLeaves(f, g),
         \A q \in DOMAIN f : f[q].type # "digest", \A q \in DOMAIN g : g[q].type # "digest",
         NEW p \in DOMAIN f,
         \A q \in DOMAIN f : Len(q) < Len(p) => q \in DOMAIN g /\ g[q] = f[q]
  PROVE  p \in DOMAIN g
<1>1. p \in Path /\ Len(p) \in Nat /\ \A q \in DOMAIN g : q \in Path /\ Len(q) \in Nat
  BY PlacedIs
<1>2. PICK k \in Path : (\E v : LeafOf(f, k, v)) /\ IsPrefix(p, k)
  BY NodeLeaves
<1>3. PICK r \in DOMAIN g : IsLeafOf(g, r, k)
  BY <1>2, LeafOfIs DEF SameLeaves
<1>4. CASE p = <<>>
  BY <1>3, <1>4 DEF Shape, EmptyRoot
<1>5. CASE p # <<>>
  <2>1. PICK s \in DOMAIN f :
          /\ IsPrefix(s, p) /\ s # p
          /\ \/ f[s].type = "branch" /\ Len(p) = Len(s) + 1
             \/ f[s].type = "extension" /\ p = s \o Nibs(f[s])
    BY <1>5, Parent
  <2>2. s \in Path /\ Len(s) < Len(p) /\ Len(s) \in Nat
    <3>1. s \in Path
      BY PlacedIs
    <3>2. ~(Len(p) <= Len(s))
      BY <1>1, <2>1, <3>1, PrefixSameLen
    <3>. QED  BY <1>1, <3>1, <3>2, PathLen
  <2>3. s \in DOMAIN g /\ g[s] = f[s]
    BY <2>2
  <2>4. CASE f[s].type = "extension" /\ p = s \o Nibs(f[s])
    <3> DEFINE child == s \o Nibs(g[s])
    <3>1. child \in DOMAIN g
      BY <2>3, <2>4, PlacedIs
    <3>2. child = p
      BY <2>3, <2>4
    <3> HIDE DEF child
    <3>. QED  BY <3>1, <3>2
  <2>5. CASE f[s].type = "branch" /\ Len(p) = Len(s) + 1
    <3>1. IsPrefix(s, k)
      BY <1>1, <1>2, <2>1, <2>2, PrefixTrans
    <3>2. IsPrefix(s, r) /\ r # s /\ IsPrefix(r, k) /\ r \in Path
      <4>1. IsPrefix(s, r) /\ IsPrefix(r, k)
        BY <1>3, <2>3, <3>1, LeafAfter, LeafIsOf
      <4>2. r # s
        BY <1>3, <2>3, <2>5 DEF IsLeafOf
      <4>. QED  BY <1>1, <4>1, <4>2
    <3>3. PICK c \in DOMAIN g : IsPrefix(s, c) /\ Len(c) = Len(s) + 1 /\ IsPrefix(c, r)
      BY <2>3, <2>5, <3>2, PlacedIs
    <3>4. c \in Path /\ IsPrefix(c, k)
      BY <1>1, <3>2, <3>3, PrefixTrans
    <3>5. IsPrefix(c, p)
      BY <1>1, <1>2, <2>5, <3>3, <3>4, PrefixesCompare
    <3>6. c = p
      BY <1>1, <2>5, <3>3, <3>4, <3>5, PrefixSameLen
    <3>. QED  BY <3>6
  <2>. QED  BY <2>1, <2>4, <2>5
<1>. QED  BY <1>4, <1>5

\* Two tries with the same leaves are the same trie.
THEOREM OneTrie ==
  ASSUME NEW f, NEW g, NEW len \in Nat, Shape(f, len), Shape(g, len), SameLeaves(f, g),
         \A q \in DOMAIN f : f[q].type # "digest", \A q \in DOMAIN g : g[q].type # "digest",
         f = [q \in DOMAIN f |-> f[q]], g = [q \in DOMAIN g |-> g[q]]
  PROVE  f = g
<1>1. \A q \in DOMAIN f \union DOMAIN g : Len(q) \in Nat
  BY PlacedIs
<1>2. SameLeaves(g, f)
  BY DEF SameLeaves
<1> DEFINE D == {q \in DOMAIN f \union DOMAIN g : ~(q \in DOMAIN f /\ q \in DOMAIN g /\ f[q] = g[q])}
           S == {Len(q) : q \in D}
<1>3. D = {}
  <2>1. SUFFICES ASSUME D # {} PROVE FALSE
    OBVIOUS
  <2>2. S # {} /\ S \subseteq Nat
    <3>1. PICK q \in D : TRUE
      BY <2>1
    <3>2. Len(q) \in S
      BY <3>1
    <3>3. ASSUME NEW i \in S PROVE i \in Nat
      <4>1. PICK r \in D : i = Len(r)
        OBVIOUS
      <4>. QED  BY <1>1, <4>1
    <3>. HIDE DEF S
    <3>. QED  BY <3>2, <3>3
  <2>3. PICK n \in S : \A i \in S : n <= i
    <3> HIDE DEF S
    <3>. QED  BY <2>2, LeastNat
  <2>4. PICK p \in D : \A q \in D : Len(p) <= Len(q)
    <3>1. PICK p \in D : n = Len(p)
      BY <2>3
    <3>2. \A q \in D : Len(q) \in S
      OBVIOUS
    <3>3. \A q \in D : Len(p) <= Len(q)
      <4>. HIDE DEF S, D
      <4>. QED  BY <2>3, <3>1, <3>2
    <3>. QED  BY <3>1, <3>3
  <2>5. \A q \in DOMAIN f \union DOMAIN g : Len(q) < Len(p) =>
          q \in DOMAIN f /\ q \in DOMAIN g /\ f[q] = g[q]
    BY <1>1, <2>4
  <2>6. p \in DOMAIN f => p \in DOMAIN g
    BY <2>5, NodeIsThere
  <2>7. p \in DOMAIN g => p \in DOMAIN f
    BY <1>2, <2>5, NodeIsThere
  <2>. QED  BY <2>4, <2>6, <2>7, NodesAreSame
<1>4. DOMAIN f = DOMAIN g /\ \A q \in DOMAIN f : f[q] = g[q]
  BY <1>3
<1>. QED  BY <1>4

-----------------------------------------------------------------------------
(* A trie with what its digests stand for *)

\* The digests of f are of nodes of F.
IsOver(F, f) ==
  \A q \in DOMAIN f : f[q].type = "digest" => q \in DOMAIN F /\ f[q] = Digest(Below(F, q))

\* What is at r is not resolved: there is a digest on the way.
IsUnder(f, r) == \E q \in DOMAIN f : f[q].type = "digest" /\ IsPrefix(q, r)

\* f with the nodes of F for its digests.
Whole(F, f) ==
  [r \in {p \in DOMAIN f : f[p].type # "digest"} \union {p \in DOMAIN F : IsUnder(f, p)} |->
     IF r \in DOMAIN f /\ f[r].type # "digest" THEN f[r] ELSE F[r]]

\* Whole, node by node.
LEMMA WholeIs ==
  ASSUME NEW F, NEW f, NEW len \in Nat, Shape(f, len), DOMAIN F \subseteq Path, IsOver(F, f)
  PROVE  LET W == Whole(F, f)
         IN  /\ W = [r \in DOMAIN W |-> W[r]] /\ DOMAIN W \subseteq Path
             /\ \A r : r \in DOMAIN W <=> \/ r \in DOMAIN f /\ f[r].type # "digest"
                                          \/ r \in DOMAIN F /\ IsUnder(f, r)
             /\ \A r \in DOMAIN f : f[r].type # "digest" => W[r] = f[r] /\ ~IsUnder(f, r)
             /\ \A r \in DOMAIN F : IsUnder(f, r) => W[r] = F[r]
             /\ \A r \in DOMAIN f : r \in DOMAIN W
<1> DEFINE W == Whole(F, f)
<1>1. \A r : r \in DOMAIN W <=> \/ r \in DOMAIN f /\ f[r].type # "digest"
                                \/ r \in DOMAIN F /\ IsUnder(f, r)
  BY DEF Whole
<1>2. \A r \in DOMAIN W : W[r] = IF r \in DOMAIN f /\ f[r].type # "digest" THEN f[r] ELSE F[r]
  BY DEF Whole
<1>3. W = [r \in DOMAIN W |-> W[r]]
  BY DEF Whole
<1> HIDE DEF W
<1>4. \A p \in DOMAIN f : p \in Path
  BY PlacedIs
<1>5. ASSUME NEW r \in DOMAIN f, IsUnder(f, r) PROVE f[r].type = "digest"
  BY <1>5, PlacedIs DEF IsUnder
<1>6. ASSUME NEW r \in DOMAIN f, f[r].type = "digest" PROVE r \in DOMAIN W
  <2>1. IsPrefix(r, r)
    BY <1>4, PrefixRefl
  <2>. QED  BY <1>1, <1>6, <2>1 DEF IsOver, IsUnder
<1>7. DOMAIN W \subseteq Path
  BY <1>1, <1>4
<1>8. \A r \in DOMAIN f : f[r].type # "digest" => W[r] = f[r] /\ ~IsUnder(f, r)
  BY <1>1, <1>2, <1>5
<1>9. \A r \in DOMAIN F : IsUnder(f, r) => W[r] = F[r]
  BY <1>1, <1>2, <1>5
<1>10. \A r \in DOMAIN f : r \in DOMAIN W
  BY <1>1, <1>6
<1>. QED  BY <1>1, <1>3, <1>7, <1>8, <1>9, <1>10 DEF W

\* What is the same below p is the same trie.
LEMMA BelowTheSame ==
  ASSUME NEW f, NEW g, DOMAIN f \subseteq Path, DOMAIN g \subseteq Path, NEW p \in Path,
         SameBelow(f, g, p)
  PROVE  Below(f, p) = Below(g, p)
<1>1. \A q \in Path : p \o q \in Path /\ IsPrefix(p, p \o q)
  BY Joined
<1>2. \A q : q \in DOMAIN Below(f, p) <=> q \in DOMAIN Below(g, p)
  BY <1>1, BelowIs DEF SameBelow
<1>3. \A q \in DOMAIN Below(f, p) : Below(f, p)[q] = Below(g, p)[q]
  BY <1>1, <1>2, BelowIs DEF SameBelow
<1>4. /\ Below(f, p) = [q \in DOMAIN Below(f, p) |-> Below(f, p)[q]]
      /\ Below(g, p) = [q \in DOMAIN Below(g, p) |-> Below(g, p)[q]]
  BY DEF Below
<1>. QED  BY <1>2, <1>3, <1>4

\* Below a digest, the whole is F.
LEMMA WholeBelowDigest ==
  ASSUME NEW F, NEW f, NEW len \in Nat, Shape(f, len), DOMAIN F \subseteq Path, IsOver(F, f),
         NEW p \in DOMAIN f, f[p].type = "digest", NEW s \in Path, IsPrefix(p, s)
  PROVE  SameBelow(F, Whole(F, f), s)
<1> DEFINE W == Whole(F, f)
<1>1. /\ \A r : r \in DOMAIN W <=> \/ r \in DOMAIN f /\ f[r].type # "digest"
                                   \/ r \in DOMAIN F /\ IsUnder(f, r)
      /\ \A r \in DOMAIN f : f[r].type # "digest" => ~IsUnder(f, r)
      /\ \A r \in DOMAIN F : IsUnder(f, r) => W[r] = F[r]
  BY WholeIs
<1> HIDE DEF W
<1>2. p \in Path
  BY PlacedIs
<1>3. ASSUME NEW r \in Path, IsPrefix(s, r) PROVE IsUnder(f, r)
  BY <1>2, <1>3, PrefixTrans DEF IsUnder
<1>. QED  BY <1>1, <1>3 DEF W, SameBelow

\* The references that are cached are right.
IsCached(F, n) == \A p \in DOMAIN n.cached : n.cached[p] = Below(Whole(F, n.nodes), p)

\* The reference is that of the whole, if the digests and the cached references
\* are those of one trie.
LEMMA ReferenceIsWhole ==
  ASSUME NEW F, NEW n, NEW len \in Nat, WellFormed(n, len), DOMAIN F \subseteq Path,
         IsOver(F, n.nodes), IsCached(F, n)
  PROVE  Reference(n) = Whole(F, n.nodes)
<1> DEFINE f == n.nodes
           W == Whole(F, f)
           refs == References(n)
<1>1. Shape(f, len) /\ DOMAIN n.cached \subseteq DOMAIN f
  BY DEF WellFormed
<1>2. /\ W = [r \in DOMAIN W |-> W[r]] /\ DOMAIN W \subseteq Path
      /\ \A r : r \in DOMAIN W <=> \/ r \in DOMAIN f /\ f[r].type # "digest"
                                   \/ r \in DOMAIN F /\ IsUnder(f, r)
      /\ \A r \in DOMAIN f : f[r].type # "digest" => W[r] = f[r] /\ ~IsUnder(f, r)
  BY <1>1, WholeIs
<1>3. DOMAIN f \subseteq Path
  BY <1>1, PlacedIs
<1>4. /\ DOMAIN refs = DOMAIN n.cached \union {p \in DOMAIN f : f[p].type = "digest"}
      /\ \A p \in DOMAIN n.cached : refs[p] = n.cached[p]
      /\ \A p \in DOMAIN refs : p \notin DOMAIN n.cached => refs[p] = f[p].digest
  BY DEF References, Unresolved
<1> HIDE DEF f, W, refs
<1>5. ASSUME NEW p \in DOMAIN refs PROVE refs[p] = Below(W, p)
  <2>1. CASE p \in DOMAIN n.cached
    BY <1>4, <2>1 DEF IsCached, W, f
  <2>2. CASE p \notin DOMAIN n.cached
    <3>1. p \in DOMAIN f /\ f[p].type = "digest" /\ p \in Path /\ IsPrefix(p, p)
      BY <1>3, <1>4, <2>2, PrefixRefl
    <3>2. refs[p] = Below(F, p)
      BY <1>4, <2>2, <3>1, DigestIs DEF IsOver, f
    <3>3. SameBelow(F, W, p)
      BY <1>1, <3>1, WholeBelowDigest DEF W, f
    <3>. QED  BY <1>2, <3>1, <3>2, <3>3, BelowTheSame
  <2>. QED  BY <2>1, <2>2
<1>6. ASSUME NEW r \in Path, \A q \in DOMAIN refs : ~IsPrefix(q, r)
      PROVE  (r \in DOMAIN f <=> r \in DOMAIN W) /\ (r \in DOMAIN f => f[r] = W[r])
  <2>1. ~IsUnder(f, r)
    BY <1>4, <1>6 DEF IsUnder
  <2>2. r \in DOMAIN f => f[r].type # "digest"
    BY <2>1, PrefixRefl DEF IsUnder
  <2>. QED  BY <1>2, <2>1, <2>2
<1>7. DOMAIN refs \subseteq Path
  BY <1>1, <1>3, <1>4
<1>8. Expand(f, refs) = W
  BY <1>2, <1>3, <1>5, <1>6, <1>7, ExpandIs
<1>. QED  BY <1>8 DEF Reference, f, W, refs

\* hash caches right references.
LEMMA HashedIsCached ==
  ASSUME NEW F, NEW n, NEW len \in Nat, WellFormed(n, len), DOMAIN F \subseteq Path,
         IsOver(F, n.nodes), IsCached(F, n)
  PROVE  IsCached(F, Hashed(n))
<1>1. Hashed(n).nodes = n.nodes
  BY DEF Hashed
<1>2. \A p \in DOMAIN Hashed(n).cached :
        Hashed(n).cached[p] = IF p \in DOMAIN n.cached THEN n.cached[p] ELSE Below(Reference(n), p)
  BY DEF Hashed
<1>3. Reference(n) = Whole(F, n.nodes)
  BY ReferenceIsWhole
<1>. QED  BY <1>1, <1>2, <1>3 DEF IsCached

\* The references that an insertion or a deletion leaves cached are right.
LEMMA KeepsCached ==
  ASSUME NEW F, NEW n, NEW m, NEW len \in Nat, WellFormed(n, len), WellFormed(m, len),
         DOMAIN F \subseteq Path, IsOver(F, n.nodes), IsCached(F, n), Keeps(n, m)
  PROVE  IsOver(F, m.nodes) /\ IsCached(F, m)
<1> DEFINE f == n.nodes
           g == m.nodes
<1>1. Shape(f, len) /\ Shape(g, len) /\ DOMAIN f \subseteq Path /\ DOMAIN g \subseteq Path
      /\ DOMAIN n.cached \subseteq DOMAIN f
  BY PlacedIs DEF WellFormed
<1>2. \A p \in Path : /\ IsDigestAt(g, p) <=> IsDigestAt(f, p)
                      /\ IsDigestAt(f, p) => g[p] = f[p]
  BY DEF Keeps, SameDigests
<1>3. \A p \in DOMAIN m.cached : p \in DOMAIN n.cached /\ m.cached[p] = n.cached[p] /\ SameBelow(f, g, p)
  BY DEF Keeps
<1>4. IsOver(F, f) /\ \A p \in DOMAIN n.cached : n.cached[p] = Below(Whole(F, f), p)
  BY DEF IsCached
<1> HIDE DEF f, g
<1>5. IsOver(F, g)
  BY <1>1, <1>2, <1>4 DEF IsOver, IsDigestAt
<1>6. \A r : IsUnder(g, r) <=> IsUnder(f, r)
  BY <1>1, <1>2 DEF IsUnder, IsDigestAt
<1>7. /\ \A r : r \in DOMAIN Whole(F, f) <=> \/ r \in DOMAIN f /\ f[r].type # "digest"
                                             \/ r \in DOMAIN F /\ IsUnder(f, r)
      /\ \A r \in DOMAIN f : f[r].type # "digest" => Whole(F, f)[r] = f[r]
      /\ \A r \in DOMAIN F : IsUnder(f, r) => Whole(F, f)[r] = F[r]
      /\ DOMAIN Whole(F, f) \subseteq Path
  BY <1>1, <1>4, WholeIs
<1>8. /\ \A r : r \in DOMAIN Whole(F, g) <=> \/ r \in DOMAIN g /\ g[r].type # "digest"
                                             \/ r \in DOMAIN F /\ IsUnder(g, r)
      /\ \A r \in DOMAIN g : g[r].type # "digest" => Whole(F, g)[r] = g[r]
      /\ \A r \in DOMAIN F : IsUnder(g, r) => Whole(F, g)[r] = F[r]
      /\ DOMAIN Whole(F, g) \subseteq Path
  BY <1>1, <1>5, WholeIs
<1>9. ASSUME NEW p \in DOMAIN m.cached PROVE m.cached[p] = Below(Whole(F, g), p)
  <2>1. p \in Path /\ SameBelow(f, g, p)
    BY <1>1, <1>3
  <2>2. SameBelow(Whole(F, f), Whole(F, g), p)
    BY <1>6, <1>7, <1>8, <2>1 DEF SameBelow
  <2>3. Below(Whole(F, f), p) = Below(Whole(F, g), p)
    BY <1>7, <1>8, <2>1, <2>2, BelowTheSame
  <2>. QED  BY <1>3, <1>4, <2>3
<1>. QED  BY <1>5, <1>9 DEF IsCached, f, g

\* The whole is a trie, unless an extension of it leads to a leaf or to an
\* extension.
LEMMA WholeIsTrie ==
  ASSUME NEW F, NEW f, NEW len \in Nat, Shape(F, len), \A p \in DOMAIN F : F[p].type # "digest",
         Shape(f, len), IsOver(F, f),
         \A c : LeadsTo(f, c) /\ IsDigestAt(f, c) => F[c].type = "branch"
  PROVE  LET W == Whole(F, f)
         IN  /\ Shape(W, len) /\ \A p \in DOMAIN W : W[p].type # "digest"
             /\ \A k, v : LeafOf(W, k, v) <=>
                  LeafOf(f, k, v) \/ (k \in Path /\ IsUnder(f, k) /\ LeafOf(F, k, v))
<1> DEFINE W == Whole(F, f)
<1>1. DOMAIN F \subseteq Path /\ DOMAIN f \subseteq Path
  BY PlacedIs
<1>2. /\ DOMAIN W \subseteq Path
      /\ \A r : r \in DOMAIN W <=> \/ r \in DOMAIN f /\ f[r].type # "digest"
                                   \/ r \in DOMAIN F /\ IsUnder(f, r)
      /\ \A r \in DOMAIN f : f[r].type # "digest" => W[r] = f[r] /\ ~IsUnder(f, r)
      /\ \A r \in DOMAIN F : IsUnder(f, r) => W[r] = F[r]
      /\ \A r \in DOMAIN f : r \in DOMAIN W
  BY <1>1, WholeIs
<1>3. \A p \in DOMAIN W : W[p].type # "digest"
  BY <1>2
<1>4. ASSUME NEW r \in DOMAIN W, IsUnder(f, r)
      PROVE  r \in DOMAIN F /\ SameBelow(F, W, r)
  <2>1. r \in DOMAIN F
    BY <1>2, <1>4
  <2>2. PICK q \in DOMAIN f : f[q].type = "digest" /\ IsPrefix(q, r)
    BY <1>4 DEF IsUnder
  <2>. QED  BY <1>1, <2>1, <2>2, WholeBelowDigest
<1> HIDE DEF W
\* What is after a node of f that is no digest: nodes of f, or nodes after a digest.
<1>5. ASSUME NEW r \in DOMAIN f, f[r].type # "digest", NEW s \in DOMAIN W, IsPrefix(r, s), s # r
      PROVE  \E q \in DOMAIN f : IsPrefix(r, q) /\ q # r /\ IsPrefix(q, s)
  <2>1. r \in Path /\ s \in Path
    BY <1>1, <1>2
  <2>2. CASE s \in DOMAIN f
    BY <1>5, <2>1, <2>2, PrefixRefl
  <2>3. CASE s \notin DOMAIN f
    <3>1. PICK q \in DOMAIN f : f[q].type = "digest" /\ IsPrefix(q, s)
      BY <1>2, <2>3 DEF IsUnder
    <3>2. q \in Path /\ q # r /\ Len(q) \in Nat /\ Len(r) \in Nat
      BY <1>1, <1>5, <3>1, PathLen
    <3>3. ~IsPrefix(q, r)
      BY <1>5, <3>1, <3>2, PlacedIs
    <3>4. IsPrefix(r, q)
      BY <1>5, <2>1, <3>1, <3>2, <3>3, PrefixesCompare
    <3>. QED  BY <3>1, <3>2, <3>4
  <2>. QED  BY <2>2, <2>3
<1>6. ASSUME NEW r \in DOMAIN W
      PROVE  Len(r) <= len /\ IsNode(W[r]) /\ IsPlaced(W, r, len)
  <2>1. CASE IsUnder(f, r)
    BY <1>2, <1>4, <2>1, PlacedTheSame
  <2>2. CASE ~IsUnder(f, r)
    <3>1. r \in DOMAIN f /\ f[r].type # "digest" /\ W[r] = f[r] /\ r \in Path
      BY <1>1, <1>2, <2>2
    <3>2. Len(r) <= len /\ IsNode(f[r]) /\ f[r].type \in {"leaf", "extension", "branch"}
      BY <3>1, PlacedIs
    <3>3. \A q \in DOMAIN f : q \in DOMAIN W /\ q \in Path
      BY <1>1, <1>2
    <3>4. CASE f[r].type = "leaf"
      <4>1. Len(r \o Nibs(f[r])) = len /\ \A q \in DOMAIN f : IsPrefix(r, q) => q = r
        BY <3>1, <3>4, PlacedIs
      <4>2. \A s \in DOMAIN W : IsPrefix(r, s) => s = r
        BY <1>5, <3>1, <4>1
      <4>. QED  BY <3>1, <3>2, <3>4, <4>1, <4>2, MakePlaced
    <3>5. CASE f[r].type = "extension"
      <4> DEFINE child == r \o Nibs(f[r])
      <4>1. /\ child \in DOMAIN f /\ child # r /\ IsPrefix(r, child)
            /\ f[child].type \in {"branch", "digest"}
            /\ \A q \in DOMAIN f : IsPrefix(r, q) /\ q # r => IsPrefix(child, q)
        BY <3>1, <3>5, PlacedIs
      <4>2. LeadsTo(f, child)
        BY <3>1, <3>5 DEF LeadsTo
      <4>3. W[r].type = "extension" /\ r \o Nibs(W[r]) = child
        BY <3>1, <3>5
      <4> HIDE DEF child
      <4>4. W[child].type = "branch"
        <5>1. CASE f[child].type = "branch"
          BY <1>2, <4>1, <5>1
        <5>2. CASE f[child].type = "digest"
          <6>1. F[child].type = "branch"
            BY <4>1, <4>2, <5>2 DEF IsDigestAt
          <6>2. IsUnder(f, child) /\ child \in DOMAIN F
            BY <3>3, <4>1, <5>2, PrefixRefl DEF IsUnder, IsOver
          <6>. QED  BY <1>2, <6>1, <6>2
        <5>. QED  BY <4>1, <5>1, <5>2
      <4>5. ASSUME NEW s \in DOMAIN W, IsPrefix(r, s), s # r PROVE IsPrefix(child, s)
        <5>1. PICK q \in DOMAIN f : IsPrefix(r, q) /\ q # r /\ IsPrefix(q, s)
          BY <1>5, <3>1, <4>5
        <5>2. IsPrefix(child, q)
          BY <4>1, <5>1
        <5>. QED  BY <1>2, <3>3, <4>1, <5>1, <5>2, PrefixTrans
      <4>6. child \in DOMAIN W
        BY <3>3, <4>1
      <4>. QED  BY <4>1, <4>3, <4>4, <4>5, <4>6, <3>2, <3>1, MakePlaced
    <3>6. CASE f[r].type = "branch"
      <4>1. /\ \A q \in DOMAIN f : IsPrefix(r, q) /\ q # r =>
                 \E x \in DOMAIN f : /\ IsPrefix(r, x) /\ Len(x) = Len(r) + 1
                                     /\ IsPrefix(x, q)
            /\ \E q, x \in DOMAIN f : /\ IsPrefix(r, q) /\ IsPrefix(r, x)
                                      /\ Len(q) = Len(r) + 1 /\ Len(x) = Len(r) + 1
                                      /\ q # x
        BY <3>1, <3>6, PlacedIs
      <4>2. Len(r) \in Nat
        BY <3>1, PathLen
      <4>3. ASSUME NEW s \in DOMAIN W, IsPrefix(r, s), s # r
            PROVE  \E x \in DOMAIN W : /\ IsPrefix(r, x) /\ x # r /\ Len(x) = Len(r) + 1
                                       /\ IsPrefix(x, s)
        <5>1. PICK q \in DOMAIN f : IsPrefix(r, q) /\ q # r /\ IsPrefix(q, s)
          BY <1>5, <3>1, <4>3
        <5>2. PICK x \in DOMAIN f : IsPrefix(r, x) /\ Len(x) = Len(r) + 1 /\ IsPrefix(x, q)
          BY <4>1, <5>1
        <5>3. IsPrefix(x, s) /\ x # r /\ x \in DOMAIN W
          BY <1>2, <3>3, <4>2, <5>1, <5>2, PrefixTrans
        <5>. QED  BY <5>2, <5>3
      <4>4. \E q, x \in DOMAIN W : /\ IsPrefix(r, q) /\ IsPrefix(r, x) /\ q # r /\ x # r
                                   /\ Len(q) = Len(r) + 1 /\ Len(x) = Len(r) + 1
                                   /\ q # x
        <5>1. PICK q \in DOMAIN f : \E x \in DOMAIN f :
                 /\ IsPrefix(r, q) /\ IsPrefix(r, x)
                 /\ Len(q) = Len(r) + 1 /\ Len(x) = Len(r) + 1 /\ q # x
          BY <4>1
        <5>2. PICK x \in DOMAIN f :
                 /\ IsPrefix(r, q) /\ IsPrefix(r, x)
                 /\ Len(q) = Len(r) + 1 /\ Len(x) = Len(r) + 1 /\ q # x
          BY <5>1
        <5>3. q # r /\ x # r /\ q \in DOMAIN W /\ x \in DOMAIN W
          BY <3>3, <4>2, <5>2
        <5>. QED  BY <5>2, <5>3
      <4>5. W[r].type = "branch"
        BY <3>1, <3>6
      <4>. QED  BY <3>1, <3>2, <4>3, <4>4, <4>5, MakePlaced
    <3>. QED  BY <3>2, <3>4, <3>5, <3>6
  <2>. QED  BY <2>1, <2>2
<1>7. W # EmptyRoot => <<>> \in DOMAIN W
  <2>1. SUFFICES ASSUME W # EmptyRoot PROVE <<>> \in DOMAIN W
    OBVIOUS
  <2>2. W = [r \in DOMAIN W |-> W[r]]
    BY <1>1, WholeIs DEF W
  <2>3. DOMAIN W # {}
    BY <2>1, <2>2 DEF EmptyRoot
  <2>4. DOMAIN f # {}
    BY <1>2, <2>3 DEF IsUnder
  <2>5. f # EmptyRoot
    BY <2>4 DEF EmptyRoot
  <2>. QED  BY <1>2, <2>5 DEF Shape
<1>8. Shape(W, len)
  BY <1>2, <1>6, <1>7 DEF Shape
<1>9. ASSUME NEW k, NEW v, LeafOf(W, k, v)
      PROVE  LeafOf(f, k, v) \/ (k \in Path /\ IsUnder(f, k) /\ LeafOf(F, k, v))
  <2>1. PICK p \in DOMAIN W : W[p].type = "leaf" /\ p \o Nibs(W[p]) = k /\ W[p].value = v
    BY <1>9 DEF LeafOf
  <2>2. CASE IsUnder(f, p)
    <3>1. p \in DOMAIN F /\ F[p] = W[p]
      BY <1>2, <2>2
    <3>2. PICK q \in DOMAIN f : f[q].type = "digest" /\ IsPrefix(q, p)
      BY <2>2 DEF IsUnder
    <3>3. IsLeafOf(F, p, k)
      BY <2>1, <3>1 DEF IsLeafOf
    <3>4. k \in Path /\ IsPrefix(p, k)
      BY <3>1, <3>3, LeafIsOf
    <3>5. IsPrefix(q, k)
      BY <1>1, <3>1, <3>2, <3>4, PrefixTrans
    <3>. QED  BY <2>1, <3>1, <3>2, <3>4, <3>5 DEF LeafOf, IsUnder
  <2>3. CASE ~IsUnder(f, p)
    <3>1. p \in DOMAIN f /\ f[p] = W[p]
      BY <1>2, <2>3
    <3>. QED  BY <2>1, <3>1 DEF LeafOf
  <2>. QED  BY <2>2, <2>3
<1>10. ASSUME NEW k, NEW v, LeafOf(f, k, v) PROVE LeafOf(W, k, v)
  <2>1. PICK p \in DOMAIN f : f[p].type = "leaf" /\ p \o Nibs(f[p]) = k /\ f[p].value = v
    BY <1>10 DEF LeafOf
  <2>2. p \in DOMAIN W /\ W[p] = f[p]
    BY <1>2, <2>1
  <2>. QED  BY <2>1, <2>2 DEF LeafOf
<1>11. ASSUME NEW k \in Path, NEW v, IsUnder(f, k), LeafOf(F, k, v) PROVE LeafOf(W, k, v)
  <2>1. PICK p \in DOMAIN F : IsLeafOf(F, p, k) /\ F[p].value = v
    BY <1>11, LeafOfIs
  <2>2. PICK q \in DOMAIN f : f[q].type = "digest" /\ IsPrefix(q, k)
    BY <1>11 DEF IsUnder
  <2>3. q \in DOMAIN F
    BY <2>2 DEF IsOver
  <2>4. IsPrefix(q, p)
    BY <2>1, <2>2, <2>3, LeafAfter
  <2>5. p \in DOMAIN W /\ W[p] = F[p]
    BY <1>2, <2>2, <2>4 DEF IsUnder
  <2>6. IsLeafOf(W, p, k) /\ W[p].value = v
    BY <2>1, <2>5 DEF IsLeafOf
  <2>. QED  BY <2>5, <2>6, LeafOfIs
<1>. QED  BY <1>3, <1>8, <1>9, <1>10, <1>11 DEF W

\* The trie below x in the trie below p.
LEMMA BelowBelow ==
  ASSUME NEW f, DOMAIN f \subseteq Path, NEW p \in Path, NEW x \in Path
  PROVE  Below(Below(f, p), x) = Below(f, p \o x)
<1> DEFINE g == Below(f, p)
<1>1. p \o x \in Path
  BY Joined
<1>2. /\ \A q : q \in DOMAIN g <=> q \in Path /\ p \o q \in DOMAIN f
      /\ \A q \in DOMAIN g : g[q] = f[p \o q]
  BY BelowIs
<1> HIDE DEF g
<1>3. DOMAIN g \subseteq Path
  BY <1>2
<1>4. /\ \A q : q \in DOMAIN Below(g, x) <=> q \in Path /\ x \o q \in DOMAIN g
      /\ \A q \in DOMAIN Below(g, x) : Below(g, x)[q] = g[x \o q]
  BY <1>3, BelowIs
<1>5. /\ \A q : q \in DOMAIN Below(f, p \o x) <=> q \in Path /\ (p \o x) \o q \in DOMAIN f
      /\ \A q \in DOMAIN Below(f, p \o x) : Below(f, p \o x)[q] = f[(p \o x) \o q]
  BY <1>1, BelowIs
<1>6. \A q \in Path : (p \o x) \o q = p \o (x \o q) /\ x \o q \in Path
  BY JoinAssoc, Joined, ZenonT(30)
<1>7. \A q : q \in DOMAIN Below(g, x) <=> q \in DOMAIN Below(f, p \o x)
  BY <1>2, <1>4, <1>5, <1>6
<1>8. ASSUME NEW q \in DOMAIN Below(g, x) PROVE Below(g, x)[q] = Below(f, p \o x)[q]
  <2>1. Below(g, x)[q] = g[x \o q] /\ x \o q \in DOMAIN g /\ q \in Path
    BY <1>4
  <2>2. g[x \o q] = f[p \o (x \o q)]
    BY <1>2, <2>1
  <2>3. Below(f, p \o x)[q] = f[(p \o x) \o q]
    BY <1>5, <1>7
  <2>4. (p \o x) \o q = p \o (x \o q)
    BY <1>6, <2>1
  <2>. QED  BY <2>1, <2>2, <2>3, <2>4, Zenon
<1>9. /\ Below(g, x) = [q \in DOMAIN Below(g, x) |-> Below(g, x)[q]]
      /\ Below(f, p \o x) = [q \in DOMAIN Below(f, p \o x) |-> Below(f, p \o x)[q]]
  BY DEF Below
<1>. QED  BY <1>7, <1>8, <1>9 DEF g

\* Two maps are the same for the keys after e.
SameAfter(m, l, e) ==
  \A j \in Path : IsPrefix(e, j) =>
    (j \in DOMAIN m <=> j \in DOMAIN l) /\ (j \in DOMAIN m => m[j] = l[j])

\* The forks of two maps are the same where the keys are.
LEMMA SameForks ==
  ASSUME NEW m, NEW l, NEW len \in Nat, AreKeys(DOMAIN m, len), AreKeys(DOMAIN l, len),
         NEW e \in Path, SameAfter(m, l, e), NEW x \in Path, IsPrefix(e, x)
  PROVE  x \in Forks(DOMAIN m) => x \in Forks(DOMAIN l)
<1>1. \A j \in DOMAIN m : j \in Path
  BY DEF AreKeys
<1>2. \A j \in DOMAIN m : IsPrefix(x, j) => j \in DOMAIN l
  BY <1>1, PrefixTrans DEF SameAfter
<1>. QED  BY <1>2, ForksAre DEF PartAt

\* The trie of a map below one of its forks is that of another with the same
\* keys there.
LEMMA SameBelowFork ==
  ASSUME NEW m, NEW l, NEW len \in Nat, AreKeys(DOMAIN m, len), AreKeys(DOMAIN l, len),
         NEW e \in Forks(DOMAIN m), SameAfter(m, l, e), SameAfter(l, m, e),
         NEW r \in DOMAIN Canonical(m), IsPrefix(e, r)
  PROVE  r \in DOMAIN Canonical(l) /\ Canonical(l)[r] = Canonical(m)[r]
<1> DEFINE K == DOMAIN m
           L == DOMAIN l
<1>1. /\ \A p : p \in DOMAIN Canonical(m) <=> p \in Forks(K) \/ \E g \in Ends(K) : p = Start(K, g)
      /\ \A p \in Forks(K) : Canonical(m)[p] = Branch
      /\ \A g \in K : Canonical(m)[Start(K, g)] = Leaf(Drop(g, Len(Start(K, g))), m[g])
      /\ \A g \in Forks(K) : LET s == Start(K, g)
                             IN  s # g => Canonical(m)[s] = Extension(Drop(g, Len(s)))
  BY CanonicalIs
<1>2. /\ \A p : p \in DOMAIN Canonical(l) <=> p \in Forks(L) \/ \E g \in Ends(L) : p = Start(L, g)
      /\ \A p \in Forks(L) : Canonical(l)[p] = Branch
      /\ \A g \in L : Canonical(l)[Start(L, g)] = Leaf(Drop(g, Len(Start(L, g))), l[g])
      /\ \A g \in Forks(L) : LET s == Start(L, g)
                             IN  s # g => Canonical(l)[s] = Extension(Drop(g, Len(s)))
  BY CanonicalIs
<1>3. /\ e \in Path /\ r \in Path /\ e \in Forks(L)
      /\ \A x \in Path : IsPrefix(e, x) => (x \in Forks(K) <=> x \in Forks(L))
  <2>1. e \in Path
    BY ForksAre
  <2>. QED  BY <2>1, CanonicalPaths, PrefixRefl, SameForks
<1>4. CASE r \in Forks(K)
  BY <1>1, <1>2, <1>3, <1>4
<1>5. CASE r \notin Forks(K)
  <2>1. PICK g \in Ends(K) : r = Start(K, g)
    BY <1>1, <1>5
  <2>2. g \in Path /\ IsPrefix(r, g) /\ IsPrefix(e, g) /\ Len(g) \in Nat /\ Len(e) \in Nat /\ Len(r) \in Nat
    <3>1. g \in Path
      BY EndsAre
    <3>2. IsPrefix(r, g)
      BY <2>1, <3>1, StartIs
    <3>. QED  BY <1>3, <3>1, <3>2, PrefixTrans, PathLen
  <2>3. e # g
    <3>1. SUFFICES ASSUME e = g PROVE FALSE
      OBVIOUS
    <3>2. e = r
      BY <1>3, <2>2, <3>1, PrefixLen, PrefixSameLen
    <3>. QED  BY <1>5, <3>2
  <2>4. g \in Ends(L) /\ (g \in K <=> g \in L) /\ (g \in K => m[g] = l[g])
    BY <1>3, <2>2 DEF Ends, SameAfter
  <2> DEFINE s == Start(L, g)
  <2>5. /\ s \in Path /\ IsPrefix(s, g) /\ Len(s) \in Nat
        /\ \A q \in Forks(L) : IsPrefix(q, g) /\ q # g => Len(q) < Len(s)
        /\ s # <<>> => \E q \in Forks(L) : IsPrefix(q, s) /\ Len(s) = Len(q) + 1
    BY <2>2, StartIs, PathLen
  <2>6. /\ \A q \in Forks(K) : IsPrefix(q, g) /\ q # g => Len(q) < Len(r)
        /\ r # <<>> => \E q \in Forks(K) : IsPrefix(q, r) /\ Len(r) = Len(q) + 1
    BY <2>1, <2>2, StartIs
  <2> HIDE DEF s
  <2>7. Len(e) < Len(s) /\ Len(e) < Len(r)
    BY <1>3, <2>2, <2>3, <2>5, <2>6
  <2>8. r # <<>> /\ s # <<>>
    BY <2>2, <2>7, EmptyPath
  <2>9. Len(r) <= Len(s)
    <3>1. PICK q \in Forks(K) : IsPrefix(q, r) /\ Len(r) = Len(q) + 1
      BY <2>6, <2>8
    <3>2. q \in Path /\ Len(q) \in Nat
      BY ForksAre, PathLen
    <3>3. IsPrefix(e, q) /\ IsPrefix(q, g) /\ q # g
      <4>1. IsPrefix(q, g)
        BY <1>3, <2>2, <3>1, <3>2, PrefixTrans
      <4>2. IsPrefix(e, q)
        BY <1>3, <2>2, <2>7, <3>1, <3>2, <4>1, PrefixesCompare
      <4>3. Len(r) <= Len(g)
        BY <1>3, <2>2, PrefixLen
      <4>. QED  BY <2>2, <3>1, <3>2, <4>1, <4>2, <4>3
    <3>. QED  BY <1>3, <2>5, <3>1, <3>2, <3>3
  <2>10. Len(s) <= Len(r)
    <3>1. PICK q \in Forks(L) : IsPrefix(q, s) /\ Len(s) = Len(q) + 1
      BY <2>5, <2>8
    <3>2. q \in Path /\ Len(q) \in Nat
      BY ForksAre, PathLen
    <3>3. IsPrefix(e, q) /\ IsPrefix(q, g) /\ q # g
      <4>1. IsPrefix(q, g)
        BY <2>2, <2>5, <3>1, <3>2, PrefixTrans
      <4>2. IsPrefix(e, q)
        BY <1>3, <2>2, <2>5, <2>7, <3>1, <3>2, <4>1, PrefixesCompare
      <4>3. Len(s) <= Len(g)
        BY <2>2, <2>5, PrefixLen
      <4>. QED  BY <2>2, <2>5, <3>1, <3>2, <4>1, <4>2, <4>3
    <3>. QED  BY <1>3, <2>2, <2>6, <3>1, <3>2, <3>3
  <2>11. r = s
    <3>1. Len(r) = Len(s)
      BY <2>2, <2>5, <2>9, <2>10
    <3>2. IsPrefix(r, s)
      BY <1>3, <2>2, <2>5, <3>1, PrefixesCompare
    <3>. QED  BY <1>3, <2>5, <3>1, <3>2, PrefixSameLen
  <2>12. r \in DOMAIN Canonical(l)
    BY <1>2, <2>4, <2>11 DEF s
  <2>13. CASE g \in K
    BY <1>1, <1>2, <2>1, <2>4, <2>11, <2>12, <2>13 DEF s
  <2>14. CASE g \notin K
    <3>1. g \in Forks(K) /\ g \in Forks(L) /\ r # g
      BY <1>3, <1>5, <2>2, <2>14 DEF Ends
    <3>. QED  BY <1>1, <1>2, <2>1, <2>11, <2>12, <3>1 DEF s
  <2>. QED  BY <2>13, <2>14
<1>. QED  BY <1>4, <1>5

-----------------------------------------------------------------------------
(* Orphans: where a deletion leaves an extension to a digest *)

\* f is a trie of the map m: what it resolves is m, and what it does not is as
\* in the map l it is from.
IsMapOf(f, m, l, len) ==
  \A k \in Path : Len(k) = len =>
    IF IsReached(f, k) THEN \A v : LeafOf(f, k, v) <=> k \in DOMAIN m /\ v = m[k]
    ELSE (k \in DOMAIN m <=> k \in DOMAIN l) /\ (k \in DOMAIN m => m[k] = l[k])

\* An extension from s leads to a digest at c.
IsOrphan(f, s, c) ==
  /\ s \in DOMAIN f /\ f[s].type = "extension" /\ s \o Nibs(f[s]) = c
  /\ IsDigestAt(f, c)

\* The keys after such an extension are those below the digest.
LEMMA OrphanKeys ==
  ASSUME NEW f, NEW len \in Nat, Shape(f, len), NEW m, NEW l, AreKeys(DOMAIN m, len),
         AreKeys(DOMAIN l, len), IsMapOf(f, m, l, len), NEW s, NEW c, IsOrphan(f, s, c)
  PROVE  /\ s \in Path /\ c \in Path /\ IsPrefix(s, c) /\ Len(s) < Len(c)
         /\ \A j \in DOMAIN m : IsPrefix(s, j) => IsPrefix(c, j)
         /\ SameAfter(m, l, c) /\ SameAfter(l, m, c)
<1>1. /\ s \in DOMAIN f /\ f[s].type = "extension" /\ s \o Nibs(f[s]) = c
      /\ c \in DOMAIN f /\ f[c].type = "digest"
  BY DEF IsOrphan, IsDigestAt
<1>2. /\ s \in Path /\ c \in Path /\ c # s /\ IsPrefix(s, c)
      /\ \A q \in DOMAIN f : IsPrefix(s, q) /\ q # s => IsPrefix(c, q)
      /\ \A q \in DOMAIN f : IsPrefix(c, q) => q = c
      /\ \A q \in DOMAIN f : q \in Path /\ Len(q) \in Nat
  BY <1>1, PlacedIs
<1>3. Len(s) < Len(c)
  BY <1>1, <1>2, PrefixLen, PrefixSameLen
<1>4. /\ \A j \in DOMAIN m : j \in Path /\ Len(j) = len
      /\ \A j \in DOMAIN l : j \in Path /\ Len(j) = len
  BY DEF AreKeys
<1>5. ASSUME NEW j \in Path, IsPrefix(c, j) PROVE ~IsReached(f, j)
  BY <1>1, <1>5 DEF IsReached
<1>6. SameAfter(m, l, c) /\ SameAfter(l, m, c)
  <2>1. ASSUME NEW j \in Path, IsPrefix(c, j), Len(j) = len
        PROVE  (j \in DOMAIN m <=> j \in DOMAIN l) /\ (j \in DOMAIN m => m[j] = l[j])
    BY <1>5, <2>1 DEF IsMapOf
  <2>. QED  BY <1>4, <2>1 DEF SameAfter
<1>7. ASSUME NEW j \in DOMAIN m, IsPrefix(s, j) PROVE IsPrefix(c, j)
  <2>1. j \in Path /\ Len(j) = len
    BY <1>4
  <2>2. CASE IsReached(f, j)
    <3>1. LeafOf(f, j, m[j])
      BY <2>1, <2>2 DEF IsMapOf
    <3>2. PICK p \in DOMAIN f : IsLeafOf(f, p, j)
      BY <3>1, LeafOfIs
    <3>3. IsPrefix(s, p) /\ p # s
      BY <1>1, <1>7, <3>2, LeafAfter DEF IsLeafOf
    <3>4. p = c
      BY <1>2, <3>3
    <3>. QED  BY <1>1, <3>2, <3>4 DEF IsLeafOf
  <2>3. CASE ~IsReached(f, j)
    <3>1. PICK q \in DOMAIN f : f[q].type = "digest" /\ IsPrefix(q, j)
      BY <2>3 DEF IsReached
    <3>2. q # s /\ ~IsPrefix(q, s)
      BY <1>1, <3>1, PlacedIs
    <3>3. IsPrefix(s, q)
      BY <1>1, <1>2, <1>7, <2>1, <3>1, <3>2, PrefixesCompare
    <3>4. IsPrefix(c, q)
      BY <1>2, <3>2, <3>3
    <3>. QED  BY <1>2, <2>1, <3>1, <3>4, PrefixTrans
  <2>. QED  BY <2>2, <2>3
<1>. QED  BY <1>2, <1>3, <1>6, <1>7

\* The node of the leaf or extension that ends at e.
IsNodeTo(m, p, e) ==
  /\ p = Start(DOMAIN m, e) /\ e \in Ends(DOMAIN m)
  /\ p \in Path /\ e \in Path /\ IsPrefix(p, e) /\ Len(p) \in Nat /\ Len(e) \in Nat
  /\ p \in DOMAIN Canonical(m) /\ p \notin Forks(DOMAIN m)
  /\ Canonical(m)[p] = IF e \in DOMAIN m THEN Leaf(Drop(e, Len(p)), m[e])
                       ELSE Extension(Drop(e, Len(p)))

\* The node of a canonical trie that ends at e.
LEMMA NodeTo ==
  ASSUME NEW m, NEW len \in Nat, AreKeys(DOMAIN m, len), NEW e \in Ends(DOMAIN m),
         Start(DOMAIN m, e) # e \/ e \in DOMAIN m
  PROVE  IsNodeTo(m, Start(DOMAIN m, e), e)
<1> DEFINE K == DOMAIN m
           p == Start(K, e)
<1>1. e \in Path /\ Len(e) \in Nat /\ (e \in Forks(K) <=> Len(e) < len)
  BY EndsAre
<1>2. p \in Path /\ IsPrefix(p, e) /\ Len(p) \in Nat
  BY <1>1, StartIs, PathLen
<1>3. /\ \A g \in K : Len(g) = len
      /\ e \in Forks(K) \/ e \in K
  BY DEF AreKeys, Ends
<1>4. p \notin Forks(K)
  BY <1>1, <1>3, StartOfFork
<1>5. /\ p \in DOMAIN Canonical(m)
      /\ e \in K => Canonical(m)[p] = Leaf(Drop(e, Len(p)), m[e])
      /\ e \in Forks(K) /\ p # e => Canonical(m)[p] = Extension(Drop(e, Len(p)))
  BY CanonicalIs
<1>. QED  BY <1>1, <1>2, <1>3, <1>4, <1>5 DEF IsNodeTo

\* Where there is no branch, there is such a node.
LEMMA NoBranch ==
  ASSUME NEW m, NEW len \in Nat, AreKeys(DOMAIN m, len), NEW c \in DOMAIN Canonical(m),
         Canonical(m)[c].type # "branch"
  PROVE  \E e : IsNodeTo(m, c, e)
<1>1. c \notin Forks(DOMAIN m)
  BY CanonicalIs, BranchIs
<1>2. PICK e \in Ends(DOMAIN m) : c = Start(DOMAIN m, e)
  BY <1>1, CanonicalIs
<1>3. c # e \/ e \in DOMAIN m
  BY <1>1 DEF Ends
<1>. QED  BY <1>2, <1>3, NodeTo

\* The leaf or extension that is a digest in f starts in the trie of m where the
\* extension starts, or before.
LEMMA OrphanStart ==
  ASSUME NEW m, NEW l, NEW len \in Nat, AreKeys(DOMAIN m, len), AreKeys(DOMAIN l, len),
         NEW s \in Path, NEW c \in Path, IsPrefix(s, c), Len(s) < Len(c),
         \A j \in DOMAIN m : IsPrefix(s, j) => IsPrefix(c, j),
         SameAfter(m, l, c), SameAfter(l, m, c), NEW e, IsNodeTo(l, c, e)
  PROVE  LET p == Start(DOMAIN m, e)
         IN  /\ IsNodeTo(m, p, e) /\ IsPrefix(p, s)
             /\ e \in DOMAIN m <=> e \in DOMAIN l
             /\ e \in DOMAIN m => m[e] = l[e]
             /\ e \notin DOMAIN m => e \in Forks(DOMAIN m) /\ e \in Forks(DOMAIN l)
<1> DEFINE K == DOMAIN m
           L == DOMAIN l
           p == Start(K, e)
<1>1. /\ c = Start(L, e) /\ e \in Ends(L) /\ e \in Path /\ IsPrefix(c, e)
      /\ Len(c) \in Nat /\ Len(e) \in Nat
  BY DEF IsNodeTo
<1>2. (e \in K <=> e \in L) /\ (e \in K => m[e] = l[e])
  BY <1>1 DEF SameAfter
<1>3. /\ Len(s) \in Nat /\ IsPrefix(s, e)
      /\ \A j \in K : j \in Path /\ Len(j) = len
  BY <1>1, PathLen, PrefixTrans DEF AreKeys
<1>4. \A x \in Path : IsPrefix(c, x) => (x \in Forks(K) <=> x \in Forks(L))
  BY SameForks
<1>5. e \in Ends(K) /\ (e \notin K => e \in Forks(K) /\ e \in Forks(L))
  BY <1>1, <1>2, <1>4 DEF Ends
<1>6. /\ p \in Path /\ IsPrefix(p, e) /\ Len(p) \in Nat
      /\ p # <<>> => \E q \in Forks(K) : IsPrefix(q, p) /\ Len(p) = Len(q) + 1
  BY <1>1, StartIs, PathLen
<1> HIDE DEF p
<1>7. Len(p) <= Len(s)
  <2>1. SUFFICES ASSUME Len(s) < Len(p) PROVE FALSE
    BY <1>3, <1>6
  <2>2. PICK b \in Forks(K) : IsPrefix(b, p) /\ Len(p) = Len(b) + 1
    BY <1>3, <1>6, <2>1, EmptyPath
  <2>3. b \in Path /\ Len(b) \in Nat /\ PartAt(K, b)
    BY ForksAre, PathLen
  <2>4. IsPrefix(b, e) /\ IsPrefix(s, b)
    <3>1. IsPrefix(b, e)
      BY <1>1, <1>6, <2>2, <2>3, PrefixTrans
    <3>. QED  BY <1>1, <1>3, <1>6, <2>1, <2>2, <2>3, <3>1, PrefixesCompare
  <2>5. PICK j \in K : \E i \in K : /\ IsPrefix(b, j) /\ IsPrefix(b, i) /\ Len(b) < Len(j)
                                    /\ Len(b) < Len(i) /\ j[Len(b) + 1] # i[Len(b) + 1]
    BY <2>3 DEF PartAt
  <2>6. PICK i \in K : /\ IsPrefix(b, j) /\ IsPrefix(b, i) /\ Len(b) < Len(j)
                       /\ Len(b) < Len(i) /\ j[Len(b) + 1] # i[Len(b) + 1]
    BY <2>5
  <2>7. j \in Path /\ i \in Path
    BY <1>3
  <2>8. IsPrefix(c, j) /\ IsPrefix(c, i)
    BY <2>3, <2>4, <2>6, <2>7, PrefixTrans
  <2>9. Len(c) <= Len(b)
    <3>1. SUFFICES ASSUME Len(b) < Len(c) PROVE FALSE
      BY <1>1, <2>3
    <3>2. Len(b) + 1 \in 1..Len(c)
      BY <1>1, <2>3, <3>1
    <3>3. j[Len(b) + 1] = c[Len(b) + 1] /\ i[Len(b) + 1] = c[Len(b) + 1]
      BY <2>7, <2>8, <3>2, PrefixDef
    <3>. QED  BY <2>6, <3>3
  <2>10. IsPrefix(c, b)
    BY <1>1, <2>3, <2>4, <2>9, PrefixesCompare
  <2>11. b \in Forks(L) /\ b # e
    <3>1. Len(p) <= Len(e)
      BY <1>1, <1>6, PrefixLen
    <3>. QED  BY <1>4, <1>1, <2>2, <2>3, <2>10, <3>1
  <2>12. Len(b) < Len(c)
    BY <1>1, <2>4, <2>11, StartIs
  <2>. QED  BY <1>1, <2>3, <2>9, <2>12
<1>8. IsPrefix(p, s)
  BY <1>1, <1>3, <1>6, <1>7, PrefixesCompare
<1>9. p # e
  BY <1>1, <1>3, <1>6, <1>7, PrefixLen
<1>10. IsNodeTo(m, p, e)
  BY <1>5, <1>9, NodeTo DEF p
<1>. QED  BY <1>2, <1>5, <1>8, <1>10 DEF p
=============================================================================
