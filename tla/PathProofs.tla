----------------------------- MODULE PathProofs -----------------------------
(***************************************************************************)
(* Theorems about paths: prefixes, what is left of a path after one, the   *)
(* common prefix of two, and the compact encoding.                         *)
(***************************************************************************)
EXTENDS Mpt, WellFoundedInduction, TLAPS

\* A set of numbers has a least one.
LEMMA LeastNat ==
  ASSUME NEW S, S \subseteq Nat, S # {}
  PROVE  \E n \in S : \A m \in S : n <= m
<1>1. PICK n \in S : \A m \in S : ~(<<m, n>> \in OpToRel(<, Nat))
  <2> HIDE DEF OpToRel
  <2>. QED  BY NatLessThanWellFounded, WFMin
<1>2. \A m \in S : ~(m < n)
  BY <1>1 DEF OpToRel
<1>. QED  BY <1>2

\* A bounded set of numbers has a greatest one.
LEMMA GreatestNat ==
  ASSUME NEW N \in Nat, NEW S, S \subseteq 0..N, S # {}
  PROVE  \E n \in S : \A m \in S : m <= n
<1> DEFINE T == {N - m : m \in S}
<1>1. T \subseteq Nat /\ T # {}
  <2>1. PICK m \in S : TRUE
    OBVIOUS
  <2>2. N - m \in T
    OBVIOUS
  <2>3. \A k \in S : N - k \in Nat
    OBVIOUS
  <2>. QED  BY <2>2, <2>3
<1>2. PICK k \in T : \A j \in T : k <= j
  <2> HIDE DEF T
  <2>. QED  BY <1>1, LeastNat
<1>. QED  BY <1>2

-----------------------------------------------------------------------------
(* Prefixes *)

\* IsPrefix, position by position.
LEMMA PrefixDef ==
  ASSUME NEW p \in Path, NEW q \in Path
  PROVE  IsPrefix(p, q) <=> Len(p) <= Len(q) /\ \A i \in 1..Len(p) : p[i] = q[i]
BY DEF Path, IsPrefix

\* A path is a sequence of nibbles.
LEMMA PathLen ==
  ASSUME NEW p \in Path
  PROVE  Len(p) \in Nat /\ \A i \in 1..Len(p) : p[i] \in Nibble
BY DEF Path

\* Paths of one length are equal if their nibbles are.
LEMMA PathEq ==
  ASSUME NEW p \in Path, NEW q \in Path, Len(p) = Len(q),
         \A i \in 1..Len(p) : p[i] = q[i]
  PROVE  p = q
BY DEF Path

\* The empty path is the only one of length 0.
LEMMA EmptyPath == <<>> \in Path /\ Len(<<>>) = 0 /\ \A p \in Path : Len(p) = 0 => p = <<>>
BY DEF Path

\* The root is on the way to every path.
LEMMA EmptyIsPrefix == ASSUME NEW p \in Path PROVE IsPrefix(<<>>, p)
BY EmptyPath, PrefixDef, PathLen

\* Prefixes are a partial order, and those of one path a linear one.
LEMMA PrefixLen ==
  ASSUME NEW p \in Path, NEW q \in Path, IsPrefix(p, q)
  PROVE  Len(p) <= Len(q)
BY PrefixDef

\* Prefixes are a partial order: reflexive,
LEMMA PrefixRefl == ASSUME NEW p \in Path PROVE IsPrefix(p, p)
BY PrefixDef, PathLen

\* transitive,
LEMMA PrefixTrans ==
  ASSUME NEW p \in Path, NEW q \in Path, NEW r \in Path, IsPrefix(p, q), IsPrefix(q, r)
  PROVE  IsPrefix(p, r)
BY PrefixDef, PathLen

\* and antisymmetric, of which the lengths say enough.
LEMMA PrefixSameLen ==
  ASSUME NEW p \in Path, NEW q \in Path, IsPrefix(p, q), Len(q) <= Len(p)
  PROVE  p = q
BY PrefixDef, PathLen, PathEq

\* Of two prefixes of a path the shorter is one of the longer.
LEMMA PrefixesCompare ==
  ASSUME NEW p \in Path, NEW q \in Path, NEW r \in Path, IsPrefix(p, r), IsPrefix(q, r),
         Len(p) <= Len(q)
  PROVE  IsPrefix(p, q)
BY PrefixDef, PathLen

\* The first nibbles of a path.
LEMMA Take ==
  ASSUME NEW q \in Path, NEW n \in 0..Len(q)
  PROVE  /\ SubSeq(q, 1, n) \in Path
         /\ Len(SubSeq(q, 1, n)) = n
         /\ \A i \in 1..n : SubSeq(q, 1, n)[i] = q[i]
         /\ IsPrefix(SubSeq(q, 1, n), q)
<1> DEFINE s == SubSeq(q, 1, n)
<1>1. s \in Path /\ Len(s) = n /\ \A i \in 1..n : s[i] = q[i]
  BY DEF Path
<1> HIDE DEF s
<1>2. IsPrefix(s, q)
  BY <1>1, PrefixDef, PathLen
<1>. QED  BY <1>1, <1>2 DEF s

\* A prefix is what SubSeq takes,
LEMMA PrefixIsTake ==
  ASSUME NEW p \in Path, NEW q \in Path, IsPrefix(p, q)
  PROVE  p = SubSeq(q, 1, Len(p))
<1> DEFINE s == SubSeq(q, 1, Len(p))
<1>1. Len(p) \in 0..Len(q) /\ \A i \in 1..Len(p) : p[i] = q[i]
  BY PrefixDef, PathLen
<1>2. s \in Path /\ Len(s) = Len(p) /\ \A i \in 1..Len(p) : s[i] = q[i]
  BY <1>1, Take
<1> HIDE DEF s
<1>3. p = s
  BY <1>1, <1>2, PathEq
<1>. QED  BY <1>3 DEF s

\* and the prefixes of what it takes are the prefixes that fit in it.
LEMMA PrefixOfTake ==
  ASSUME NEW p \in Path, NEW q \in Path, NEW n \in 0..Len(q)
  PROVE  IsPrefix(p, SubSeq(q, 1, n)) <=> IsPrefix(p, q) /\ Len(p) <= n
<1> DEFINE s == SubSeq(q, 1, n)
<1>1. s \in Path /\ Len(s) = n /\ IsPrefix(s, q)
  BY Take
<1> HIDE DEF s
<1>2. ASSUME IsPrefix(p, s) PROVE IsPrefix(p, q) /\ Len(p) <= n
  BY <1>1, <1>2, PrefixLen, PrefixTrans
<1>3. ASSUME IsPrefix(p, q), Len(p) <= n PROVE IsPrefix(p, s)
  BY <1>1, <1>3, PrefixesCompare
<1>4. IsPrefix(p, s) <=> IsPrefix(p, q) /\ Len(p) <= n
  BY <1>2, <1>3
<1>. QED  BY <1>4 DEF s

\* One nibble more.
LEMMA Appended ==
  ASSUME NEW p \in Path, NEW i \in Nibble
  PROVE  /\ Append(p, i) \in Path
         /\ Len(Append(p, i)) = Len(p) + 1
         /\ Append(p, i)[Len(p) + 1] = i
         /\ \A j \in 1..Len(p) : Append(p, i)[j] = p[j]
         /\ IsPrefix(p, Append(p, i))
<1> DEFINE s == Append(p, i)
<1>1. /\ s \in Path /\ Len(s) = Len(p) + 1 /\ s[Len(p) + 1] = i
      /\ \A j \in 1..Len(p) : s[j] = p[j]
  BY DEF Path
<1> HIDE DEF s
<1>2. IsPrefix(p, s)
  BY <1>1, PrefixDef, PathLen
<1>. QED  BY <1>1, <1>2 DEF s

\* A path that goes on as another does.
LEMMA NextPrefix ==
  ASSUME NEW p \in Path, NEW s \in Path, NEW q \in Path, IsPrefix(p, s), IsPrefix(p, q),
         Len(s) = Len(p) + 1
  PROVE  IsPrefix(s, q) <=> Len(p) < Len(q) /\ q[Len(p) + 1] = s[Len(p) + 1]
<1>1. Len(p) \in Nat /\ Len(q) \in Nat
  BY PathLen
<1>2. \A j \in 1..Len(p) : p[j] = q[j] /\ p[j] = s[j]
  BY PrefixDef
<1>. QED  BY <1>1, <1>2, PrefixDef

-----------------------------------------------------------------------------
(* What is left of a path *)

\* Drop, position by position.
LEMMA Dropped ==
  ASSUME NEW q \in Path, NEW n \in 0..Len(q)
  PROVE  /\ Drop(q, n) \in Path
         /\ Len(Drop(q, n)) = Len(q) - n
         /\ \A i \in 1..(Len(q) - n) : Drop(q, n)[i] = q[n + i]
BY DEF Path, Drop

\* Tail drops one nibble.
LEMMA TailIsDrop ==
  ASSUME NEW q \in Path, q # <<>>
  PROVE  Tail(q) = Drop(q, 1)
<1> DEFINE s == Tail(q)
           d == Drop(q, 1)
<1>1. Len(q) \in Nat /\ Len(q) # 0
  BY EmptyPath, PathLen
<1>2. /\ s \in Path /\ Len(s) = Len(q) - 1
      /\ \A i \in 1..(Len(q) - 1) : s[i] = q[i + 1]
  BY DEF Path
<1>3. /\ d \in Path /\ Len(d) = Len(q) - 1
      /\ \A i \in 1..(Len(q) - 1) : d[i] = q[1 + i]
  <2>1. 1 \in 0..Len(q)
    BY <1>1
  <2>. QED  BY <2>1, Dropped
<1> HIDE DEF s, d
<1>4. \A i \in 1..(Len(q) - 1) : i + 1 = 1 + i
  BY <1>1
<1>5. s = d
  BY <1>2, <1>3, <1>4, PathEq
<1>. QED  BY <1>5 DEF s, d

\* The path from a path on is a path.
LEMMA Joined ==
  ASSUME NEW p \in Path, NEW s \in Path
  PROVE  /\ p \o s \in Path
         /\ Len(p \o s) = Len(p) + Len(s)
         /\ \A i \in 1..Len(p) : (p \o s)[i] = p[i]
         /\ \A i \in 1..Len(s) : (p \o s)[Len(p) + i] = s[i]
         /\ IsPrefix(p, p \o s)
<1> DEFINE r == p \o s
<1>1. /\ r \in Path
      /\ Len(r) = Len(p) + Len(s)
      /\ \A i \in 1..Len(p) : r[i] = p[i]
      /\ \A i \in 1..Len(s) : r[Len(p) + i] = s[i]
  BY DEF Path
<1> HIDE DEF r
<1>2. IsPrefix(p, r)
  BY <1>1, PrefixDef, PathLen
<1>. QED  BY <1>1, <1>2 DEF r

\* Joining and dropping undo each other:
LEMMA DropJoined ==
  ASSUME NEW p \in Path, NEW s \in Path
  PROVE  Drop(p \o s, Len(p)) = s
<1> DEFINE r == p \o s
<1>1. /\ r \in Path
      /\ Len(r) = Len(p) + Len(s)
      /\ \A i \in 1..Len(s) : r[Len(p) + i] = s[i]
  BY Joined
<1> HIDE DEF r
<1> DEFINE d == Drop(r, Len(p))
<1>2. Len(p) \in 0..Len(r) /\ Len(r) - Len(p) = Len(s)
  BY <1>1, PathLen
<1>3. /\ d \in Path /\ Len(d) = Len(s)
      /\ \A i \in 1..Len(s) : d[i] = r[Len(p) + i]
  BY <1>1, <1>2, Dropped
<1> HIDE DEF d
<1>4. d = s
  BY <1>1, <1>3, PathEq
<1>. QED  BY <1>4 DEF d, r

\* A path with p in front is one that has p as a prefix.
LEMMA JoinedIs ==
  ASSUME NEW p \in Path, NEW s \in Path, NEW q \in Path,
         Len(q) = Len(p) + Len(s),
         \A i \in 1..Len(p) : q[i] = p[i],
         \A i \in 1..Len(s) : q[Len(p) + i] = s[i]
  PROVE  p \o s = q
<1> DEFINE r == p \o s
<1>1. /\ r \in Path
      /\ Len(r) = Len(p) + Len(s)
      /\ \A i \in 1..Len(p) : r[i] = p[i]
      /\ \A i \in 1..Len(s) : r[Len(p) + i] = s[i]
  BY Joined
<1> HIDE DEF r
<1>2. Len(p) \in Nat /\ Len(s) \in Nat
  BY PathLen
<1>3. ASSUME NEW i \in 1..Len(r) PROVE r[i] = q[i]
  <2>1. CASE i <= Len(p)
    BY <2>1, <1>1, <1>2
  <2>2. CASE i > Len(p)
    <3>1. i - Len(p) \in 1..Len(s) /\ Len(p) + (i - Len(p)) = i
      BY <2>2, <1>1, <1>2
    <3>. QED  BY <3>1, <1>1
  <2>. QED  BY <2>1, <2>2, <1>1, <1>2
<1>4. r = q
  BY <1>1, <1>3, PathEq
<1>. QED  BY <1>4 DEF r

\* in the other order, too.
LEMMA JoinDropped ==
  ASSUME NEW p \in Path, NEW q \in Path, IsPrefix(p, q)
  PROVE  p \o Drop(q, Len(p)) = q
<1>1. Len(p) \in 0..Len(q) /\ \A i \in 1..Len(p) : q[i] = p[i]
  BY PrefixDef, PathLen
<1> DEFINE d == Drop(q, Len(p))
<1>2. /\ d \in Path
      /\ Len(d) = Len(q) - Len(p)
      /\ \A i \in 1..(Len(q) - Len(p)) : d[i] = q[Len(p) + i]
  BY <1>1, Dropped
<1> HIDE DEF d
<1>3. /\ Len(q) = Len(p) + Len(d)
      /\ \A i \in 1..Len(p) : q[i] = p[i]
      /\ \A i \in 1..Len(d) : q[Len(p) + i] = d[i]
  BY <1>1, <1>2, PathLen
<1>4. p \o d = q
  BY <1>2, <1>3, JoinedIs
<1>. QED  BY <1>4 DEF d

\* Prefixes are the same from a path on.
LEMMA JoinIsPrefix ==
  ASSUME NEW p \in Path, NEW s \in Path, NEW t \in Path
  PROVE  IsPrefix(p \o s, p \o t) <=> IsPrefix(s, t)
<1> DEFINE x == p \o s
           y == p \o t
<1>1. /\ x \in Path
      /\ Len(x) = Len(p) + Len(s)
      /\ \A i \in 1..Len(p) : x[i] = p[i]
      /\ \A i \in 1..Len(s) : x[Len(p) + i] = s[i]
  BY Joined
<1>2. /\ y \in Path
      /\ Len(y) = Len(p) + Len(t)
      /\ \A i \in 1..Len(p) : y[i] = p[i]
      /\ \A i \in 1..Len(t) : y[Len(p) + i] = t[i]
  BY Joined
<1> HIDE DEF x, y
<1>3. Len(p) \in Nat /\ Len(s) \in Nat /\ Len(t) \in Nat
  BY PathLen
<1>4. ASSUME IsPrefix(x, y) PROVE IsPrefix(s, t)
  <2>1. Len(s) <= Len(t)
    BY <1>1, <1>2, <1>3, <1>4, PrefixLen
  <2>2. ASSUME NEW i \in 1..Len(s) PROVE s[i] = t[i]
    <3>1. Len(p) + i \in 1..Len(x) /\ i \in 1..Len(t)
      BY <2>1, <1>1, <1>3
    <3>2. x[Len(p) + i] = y[Len(p) + i]
      BY <3>1, <1>1, <1>2, <1>4, PrefixDef
    <3>. QED  BY <3>1, <3>2, <1>1, <1>2
  <2>. QED  BY <2>1, <2>2, PrefixDef
<1>5. ASSUME IsPrefix(s, t) PROVE IsPrefix(x, y)
  <2>1. Len(s) <= Len(t) /\ \A i \in 1..Len(s) : s[i] = t[i]
    BY <1>5, PrefixDef
  <2>2. ASSUME NEW i \in 1..Len(x) PROVE x[i] = y[i]
    <3>1. CASE i <= Len(p)
      BY <3>1, <1>1, <1>2, <1>3
    <3>2. CASE i > Len(p)
      <4>1. i - Len(p) \in 1..Len(s) /\ i - Len(p) \in 1..Len(t) /\ Len(p) + (i - Len(p)) = i
        BY <3>2, <2>1, <1>1, <1>3
      <4> DEFINE j == i - Len(p)
      <4>2. j \in 1..Len(s) /\ j \in 1..Len(t) /\ Len(p) + j = i
        BY <4>1
      <4> HIDE DEF j
      <4>3. x[Len(p) + j] = s[j] /\ y[Len(p) + j] = t[j] /\ s[j] = t[j]
        BY <4>2, <2>1, <1>1, <1>2
      <4>. QED  BY <4>2, <4>3
    <3>. QED  BY <3>1, <3>2, <1>1, <1>3
  <2>. QED  BY <2>1, <2>2, <1>1, <1>2, <1>3, PrefixDef
<1>6. IsPrefix(x, y) <=> IsPrefix(s, t)
  BY <1>4, <1>5
<1>. QED  BY <1>6 DEF x, y

\* Joining is associative.
LEMMA JoinAssoc ==
  ASSUME NEW p \in Path, NEW s \in Path, NEW t \in Path
  PROVE  (p \o s) \o t = p \o (s \o t)
BY DEF Path

\* What is a prefix of the rest of a path.
LEMMA PrefixOfDrop ==
  ASSUME NEW p \in Path, NEW s \in Path, NEW q \in Path, IsPrefix(p, q)
  PROVE  IsPrefix(p \o s, q) <=> IsPrefix(s, Drop(q, Len(p)))
<1>1. Len(p) \in 0..Len(q)
  BY PrefixLen, PathLen
<1> DEFINE d == Drop(q, Len(p))
<1>2. d \in Path
  BY <1>1, Dropped
<1>3. p \o d = q
  BY JoinDropped
<1> HIDE DEF d
<1>4. IsPrefix(p \o s, p \o d) <=> IsPrefix(s, d)
  BY <1>2, JoinIsPrefix
<1>. QED  BY <1>3, <1>4 DEF d

-----------------------------------------------------------------------------
(* The compact encoding *)

\* A byte of two nibbles.
LEMMA TwoNibbles ==
  ASSUME NEW x \in Nibble, NEW y \in Nibble
  PROVE  16 * x + y \in Nat /\ (16 * x + y) \div 16 = x /\ (16 * x + y) % 16 = y
BY DEF Nibble

\* A function that is a sequence of nibbles is a path.
LEMMA FunctionIsPath ==
  ASSUME NEW n \in Nat, NEW f \in [1..n -> Nibble]
  PROVE  f \in Path /\ Len(f) = n
BY DEF Path

\* The test of the decoder of a node with two items: bit 5 of the first byte.
SaysLeaf(prefix) == (prefix[1] \div 32) % 2 = 1

\* to_encoded_path, prefix_nibs and the decoder: the nibbles that are encoded
\* are those that are decoded, for an even and an odd number, and a leaf is
\* decoded as a leaf, an extension as an extension.
THEOREM EncodedPath ==
  ASSUME NEW nibs \in Path, NEW isLeaf \in BOOLEAN
  PROVE  /\ PrefixNibs(ToEncodedPath(nibs, isLeaf)) = nibs
         /\ SaysLeaf(ToEncodedPath(nibs, isLeaf)) <=> isLeaf
<1> DEFINE n == Len(nibs)
           odd == n % 2
           h == n \div 2
           flag == (IF isLeaf THEN 32 ELSE 0) + (IF odd = 1 THEN 16 + nibs[1] ELSE 0)
           bytes == [i \in 1..h |-> 16 * nibs[2 * i - 1 + odd] + nibs[2 * i + odd]]
           e == <<flag>> \o bytes
           tail == [i \in 1..(2 * (Len(e) - 1)) |->
                      IF i % 2 = 1 THEN e[(i + 3) \div 2] \div 16
                                   ELSE e[(i + 2) \div 2] % 16]
<1>1. /\ n \in Nat /\ h \in Nat /\ odd \in {0, 1} /\ n = 2 * h + odd
      /\ \A i \in 1..n : nibs[i] \in Nibble
  BY PathLen
<1>2. \A j \in 1..h : /\ 2 * j - 1 + odd \in 1..n /\ 2 * j + odd \in 1..n
                      /\ nibs[2 * j - 1 + odd] \in Nibble /\ nibs[2 * j + odd] \in Nibble
  BY <1>1
<1>3. bytes \in Seq(Nat) /\ Len(bytes) = h
  <2>1. \A j \in 1..h : 16 * nibs[2 * j - 1 + odd] + nibs[2 * j + odd] \in Nat
    <3> HIDE DEF h, odd, n
    <3>. QED  BY <1>2, TwoNibbles
  <2>. QED  BY <1>1, <2>1
<1>4. flag \in Nat
  <2>1. CASE odd = 0
    BY <2>1
  <2>2. CASE odd = 1
    <3>1. nibs[1] \in 0..15
      BY <2>2, <1>1 DEF Nibble
    <3>2. flag = (IF isLeaf THEN 32 ELSE 0) + 16 + nibs[1]
      BY <2>2, <3>1
    <3> HIDE DEF flag, odd
    <3>. QED  BY <3>1, <3>2
  <2>. QED  BY <1>1, <2>1, <2>2
<1>5. /\ Len(e) = h + 1 /\ e[1] = flag
      /\ \A j \in 1..h : e[j + 1] = 16 * nibs[2 * j - 1 + odd] + nibs[2 * j + odd]
  <2>1. \A j \in 1..h : bytes[j] = 16 * nibs[2 * j - 1 + odd] + nibs[2 * j + odd]
    OBVIOUS
  <2> HIDE DEF bytes, flag
  <2>2. Len(e) = h + 1 /\ e[1] = flag /\ \A j \in 1..h : e[j + 1] = bytes[j]
    BY <1>1, <1>3, <1>4
  <2>. QED  BY <2>1, <2>2
<1>6. /\ DOMAIN tail = 1..(2 * h)
      /\ \A i \in 1..(2 * h) : tail[i] = nibs[i + odd]
  <2> HIDE DEF e
  <2>1. Len(e) - 1 = h
    BY <1>1, <1>5
  <2>2. DOMAIN tail = 1..(2 * h)
    BY <2>1
  <2>3. ASSUME NEW i \in 1..(2 * h) PROVE tail[i] = nibs[i + odd]
    <3> HIDE DEF bytes, flag, n, odd, h
    <3>1. CASE i % 2 = 1
      <4> DEFINE j == (i + 1) \div 2
      <4>1. j \in 1..h /\ i = 2 * j - 1
        BY <3>1, <1>1
      <4> HIDE DEF j
      <4>2. (i + 3) \div 2 = j + 1 /\ 2 * j - 1 + odd = i + odd
        BY <4>1, <1>1
      <4>3. tail[i] = e[j + 1] \div 16
        BY <3>1, <4>2, <2>1
      <4>4. e[j + 1] = 16 * nibs[2 * j - 1 + odd] + nibs[2 * j + odd]
        BY <4>1, <1>5
      <4>5. nibs[2 * j - 1 + odd] \in Nibble /\ nibs[2 * j + odd] \in Nibble
        BY <4>1, <1>2
      <4>6. e[j + 1] \div 16 = nibs[2 * j - 1 + odd]
        BY <4>4, <4>5, TwoNibbles
      <4> HIDE DEF tail
      <4>. QED  BY <4>2, <4>3, <4>6
    <3>2. CASE i % 2 # 1
      <4> DEFINE j == i \div 2
      <4>1. j \in 1..h /\ i = 2 * j
        BY <3>2, <1>1
      <4> HIDE DEF j
      <4>2. (i + 2) \div 2 = j + 1 /\ 2 * j + odd = i + odd
        BY <4>1, <1>1
      <4>3. tail[i] = e[j + 1] % 16
        BY <3>2, <4>2, <2>1
      <4>4. e[j + 1] = 16 * nibs[2 * j - 1 + odd] + nibs[2 * j + odd]
        BY <4>1, <1>5
      <4>5. nibs[2 * j - 1 + odd] \in Nibble /\ nibs[2 * j + odd] \in Nibble
        BY <4>1, <1>2
      <4>6. e[j + 1] % 16 = nibs[2 * j + odd]
        BY <4>4, <4>5, TwoNibbles
      <4> HIDE DEF tail
      <4>. QED  BY <4>2, <4>3, <4>6
    <3>. QED  BY <3>1, <3>2
  <2>. QED  BY <2>2, <2>3
<1>7. tail \in Path /\ Len(tail) = 2 * h
  <2>1. ASSUME NEW i \in 1..(2 * h) PROVE tail[i] \in Nibble
    <3>1. i + odd \in 1..n
      BY <1>1
    <3> HIDE DEF h, odd, n, tail
    <3>. QED  BY <1>1, <1>6, <3>1
  <2>2. tail \in [1..(2 * h) -> Nibble]
    <3> HIDE DEF e, h, odd, n
    <3>. QED  BY <2>1, <1>6
  <2>3. 2 * h \in Nat
    BY <1>1
  <2> HIDE DEF tail, h
  <2>. QED  BY <2>2, <2>3, FunctionIsPath
<1>8. (flag \div 16) % 2 = odd /\ (odd = 1 => flag % 16 = nibs[1])
  <2>1. CASE odd = 0
    BY <2>1, <1>1
  <2>2. CASE odd = 1
    <3>1. nibs[1] \in 0..15
      BY <2>2, <1>1 DEF Nibble
    <3>2. flag = (IF isLeaf THEN 32 ELSE 0) + 16 + nibs[1]
      BY <2>2, <3>1
    <3> HIDE DEF flag, odd
    <3>. QED  BY <2>2, <3>1, <3>2
  <2>. QED  BY <1>1, <2>1, <2>2
<1>9. (flag \div 32) % 2 = 1 <=> isLeaf
  <2>1. CASE odd = 0
    BY <2>1, <1>1
  <2>2. CASE odd = 1
    <3>1. nibs[1] \in 0..15
      BY <2>2, <1>1 DEF Nibble
    <3>2. flag = (IF isLeaf THEN 32 ELSE 0) + 16 + nibs[1]
      BY <2>2, <3>1
    <3> HIDE DEF flag, odd
    <3>. QED  BY <3>1, <3>2
  <2>. QED  BY <1>1, <2>1, <2>2
<1>10. SaysLeaf(ToEncodedPath(nibs, isLeaf)) <=> isLeaf
  <2>1. ToEncodedPath(nibs, isLeaf) = e
    BY DEF ToEncodedPath
  <2> HIDE DEF e, flag
  <2>. QED  BY <1>5, <1>9, <2>1 DEF SaysLeaf
<1>11. PrefixNibs(e) = IF odd = 1 THEN <<nibs[1]>> \o tail ELSE tail
  <2> HIDE DEF flag, odd, bytes, h
  <2>. QED  BY <1>5, <1>8 DEF PrefixNibs
<1> HIDE DEF tail, flag, bytes
<1>12. ASSUME odd = 0
       PROVE  PrefixNibs(ToEncodedPath(nibs, isLeaf)) = nibs
  <2>1. Len(tail) = Len(nibs) /\ 2 * h = n
    BY <1>1, <1>7, <1>12
  <2>2. \A i \in 1..Len(nibs) : tail[i] = nibs[i]
    <3> HIDE DEF h, e
    <3>1. \A i \in 1..(2 * h) : tail[i] = nibs[i + odd]
      BY <1>6
    <3>2. \A i \in 1..n : i + odd = i
      BY <1>1, <1>12
    <3> HIDE DEF odd
    <3>. QED  BY <2>1, <3>1, <3>2
  <2>3. tail = nibs
    <3> HIDE DEF h, e, odd, n
    <3>. QED  BY <1>7, <2>1, <2>2, PathEq
  <2>. QED  BY <1>11, <1>12, <2>3 DEF ToEncodedPath, flag, bytes
<1>13. ASSUME odd = 1
       PROVE  PrefixNibs(ToEncodedPath(nibs, isLeaf)) = nibs
  <2>1. nibs[1] \in Nibble
    BY <1>1, <1>13
  <2> DEFINE one == <<nibs[1]>>
  <2>2. one \in Path /\ Len(one) = 1 /\ one[1] = nibs[1]
    BY <2>1 DEF Path
  <2> HIDE DEF one
  <2>3. /\ Len(nibs) = Len(one) + Len(tail)
        /\ \A i \in 1..Len(one) : nibs[i] = one[i]
        /\ \A i \in 1..Len(tail) : nibs[Len(one) + i] = tail[i]
    <3>1. Len(nibs) = Len(one) + Len(tail)
      BY <2>2, <1>1, <1>7, <1>13
    <3>2. \A i \in 1..Len(one) : nibs[i] = one[i]
      BY <2>2
    <3>3. ASSUME NEW i \in 1..Len(tail) PROVE nibs[Len(one) + i] = tail[i]
      <4>1. i \in 1..(2 * h) /\ Len(one) + i = i + odd
        BY <2>2, <1>1, <1>7, <1>13
      <4> HIDE DEF h, odd, n
      <4>. QED  BY <4>1, <1>6
    <3>. QED  BY <3>1, <3>2, <3>3
  <2>4. one \o tail = nibs
    BY <2>2, <2>3, <1>7, JoinedIs
  <2>. QED  BY <1>11, <1>13, <2>4 DEF ToEncodedPath, flag, bytes, one
<1>. QED  BY <1>1, <1>12, <1>13, <1>10

\* prefix_nibs gives back what to_encoded_path was given.
LEMMA NibsOf ==
  ASSUME NEW nibs \in Path
  PROVE  /\ \A v : Nibs(Leaf(nibs, v)) = nibs
         /\ Nibs(Extension(nibs)) = nibs
BY EncodedPath DEF Nibs, Leaf, Extension

-----------------------------------------------------------------------------
(* The common prefix of two paths *)

\* lcp is the length of the longest common prefix.
LEMMA CommonPrefix ==
  ASSUME NEW a \in Path, NEW b \in Path
  PROVE  /\ Lcp(a, b) \in 0..Len(a)
         /\ Lcp(a, b) <= Len(b)
         /\ SubSeq(a, 1, Lcp(a, b)) = SubSeq(b, 1, Lcp(a, b))
         /\ Lcp(a, b) < Len(a) /\ Lcp(a, b) < Len(b) => a[Lcp(a, b) + 1] # b[Lcp(a, b) + 1]
<1> DEFINE same(n) == IsPrefix(SubSeq(a, 1, n), b)
           S == {n \in 0..Len(a) : same(n)}
           fits(n) == same(n) /\ (n < Len(a) /\ n < Len(b) => a[n + 1] # b[n + 1])
<1>1. 0 \in S
  <2>1. 0 \in 0..Len(a) /\ Len(b) \in Nat
    BY PathLen
  <2> DEFINE s == SubSeq(a, 1, 0)
  <2>2. s \in Path /\ Len(s) = 0
    BY <2>1, Take
  <2> HIDE DEF s
  <2>3. IsPrefix(s, b)
    BY <2>1, <2>2, PrefixDef
  <2>. QED  BY <2>1, <2>3 DEF s
<1>2. PICK m \in S : \A k \in S : k <= m
  <2>1. S \subseteq 0..Len(a) /\ S # {} /\ Len(a) \in Nat
    BY <1>1, PathLen
  <2> HIDE DEF S
  <2>. QED  BY <2>1, GreatestNat
<1>3. fits(m)
  <2>1. SUFFICES ASSUME m < Len(a), m < Len(b), a[m + 1] = b[m + 1]
                 PROVE  FALSE
    BY <1>2
  <2> DEFINE s == SubSeq(a, 1, m)
             r == SubSeq(a, 1, m + 1)
  <2>2. s \in Path /\ Len(s) = m /\ IsPrefix(s, b) /\ \A i \in 1..m : s[i] = a[i]
    BY <1>2, Take
  <2>3. m + 1 \in 0..Len(a)
    BY <2>1, <1>2, PathLen
  <2>4. r \in Path /\ Len(r) = m + 1 /\ \A i \in 1..(m + 1) : r[i] = a[i]
    BY <2>3, Take
  <2> HIDE DEF s, r
  <2>5. \A i \in 1..m : s[i] = b[i]
    BY <2>2, PrefixDef
  <2>6. \A i \in 1..(m + 1) : r[i] = b[i]
    BY <2>1, <2>2, <2>4, <2>5, <1>2
  <2>7. IsPrefix(r, b)
    BY <2>1, <2>4, <2>6, <1>2, PrefixDef, PathLen
  <2>8. m + 1 \in S
    BY <2>3, <2>7 DEF r
  <2>. QED  BY <2>8, <1>2
<1>4. Lcp(a, b) \in 0..Len(a) /\ fits(Lcp(a, b))
  BY <1>2, <1>3 DEF Lcp
<1> HIDE DEF S
<1>5. /\ SubSeq(a, 1, Lcp(a, b)) \in Path /\ Len(SubSeq(a, 1, Lcp(a, b))) = Lcp(a, b)
      /\ IsPrefix(SubSeq(a, 1, Lcp(a, b)), b)
  BY <1>4, Take
<1>6. Lcp(a, b) <= Len(b)
  BY <1>5, PrefixLen
<1>7. SubSeq(a, 1, Lcp(a, b)) = SubSeq(b, 1, Lcp(a, b))
  BY <1>5, PrefixIsTake
<1>. QED  BY <1>4, <1>6, <1>7

\* Dropping more than the first part drops from the second.
LEMMA DropOfJoin ==
  ASSUME NEW p \in Path, NEW s \in Path, NEW n \in 0..Len(s)
  PROVE  Drop(p \o s, Len(p) + n) = Drop(s, n)
<1> DEFINE r == p \o s
           a == Drop(r, Len(p) + n)
           b == Drop(s, n)
<1>1. Len(p) \in Nat /\ Len(s) \in Nat
  BY PathLen
<1>2. /\ r \in Path
      /\ Len(r) = Len(p) + Len(s)
      /\ \A i \in 1..Len(s) : r[Len(p) + i] = s[i]
  BY Joined
<1> HIDE DEF r
<1>3. /\ a \in Path /\ Len(a) = Len(s) - n
      /\ \A i \in 1..(Len(s) - n) : a[i] = r[Len(p) + n + i]
  <2>1. Len(p) + n \in 0..Len(r) /\ Len(r) - (Len(p) + n) = Len(s) - n
    BY <1>1, <1>2
  <2>. QED  BY <1>2, <2>1, Dropped
<1>4. /\ b \in Path /\ Len(b) = Len(s) - n
      /\ \A i \in 1..(Len(s) - n) : b[i] = s[n + i]
  BY Dropped
<1> HIDE DEF a, b
<1>5. ASSUME NEW i \in 1..Len(a) PROVE a[i] = b[i]
  <2>1. n + i \in 1..Len(s) /\ Len(p) + n + i = Len(p) + (n + i)
    BY <1>1, <1>3
  <2>2. r[Len(p) + n + i] = s[n + i]
    BY <1>2, <2>1
  <2>. QED  BY <1>3, <1>4, <2>2
<1>6. a = b
  BY <1>3, <1>4, <1>5, PathEq
<1>. QED  BY <1>6 DEF a, b, r

\* Where two continuations of a path part.
IsFork(p, own, rest, common, branch, old, new, left) ==
  /\ common = Lcp(own, rest) /\ common < Len(own) /\ common < Len(rest)
  /\ branch = p \o SubSeq(own, 1, common)
  /\ old = Append(branch, own[common + 1])
  /\ new = Append(branch, rest[common + 1])
  /\ left = Drop(own, common + 1)

\* Where two paths part, and the two ways on from there.
LEMMA Fork ==
  ASSUME NEW p \in Path, NEW own \in Path, NEW rest \in Path,
         NEW common, NEW branch, NEW old, NEW new, NEW left,
         IsFork(p, own, rest, common, branch, old, new, left)
  PROVE  /\ common \in Nat /\ branch \in Path /\ old \in Path /\ new \in Path
         /\ Len(branch) = Len(p) + common
         /\ Len(old) = Len(branch) + 1 /\ Len(new) = Len(branch) + 1
         /\ IsPrefix(p, branch) /\ IsPrefix(branch, old) /\ IsPrefix(branch, new)
         /\ IsPrefix(old, p \o own) /\ IsPrefix(new, p \o rest)
         /\ old # new
         /\ left \in Path /\ old \o left = p \o own
         /\ SubSeq(own, 1, common) \in Path /\ Len(SubSeq(own, 1, common)) = common
         /\ p \o SubSeq(own, 1, common) = branch
<1> DEFINE take == SubSeq(own, 1, common)
<1>1. /\ common \in 0..Len(own) /\ common \in 0..Len(rest) /\ common \in Nat
      /\ take = SubSeq(rest, 1, common)
      /\ own[common + 1] # rest[common + 1]
      /\ common < Len(own) /\ common < Len(rest)
  BY CommonPrefix, PathLen DEF IsFork
<1>2. /\ take \in Path /\ Len(take) = common /\ IsPrefix(take, own) /\ IsPrefix(take, rest)
  BY <1>1, Take
<1> HIDE DEF take
<1>3. /\ branch \in Path /\ Len(branch) = Len(p) + common /\ IsPrefix(p, branch)
      /\ IsPrefix(branch, p \o own) /\ IsPrefix(branch, p \o rest)
  <2>1. branch = p \o take
    BY DEF take, IsFork
  <2>. QED  BY <1>2, <2>1, Joined, JoinIsPrefix
<1>4. /\ p \o own \in Path /\ Len(p \o own) = Len(p) + Len(own)
      /\ p \o rest \in Path /\ Len(p \o rest) = Len(p) + Len(rest)
  BY Joined
<1>5. Len(p) \in Nat /\ Len(own) \in Nat /\ Len(rest) \in Nat
  BY PathLen
<1> DEFINE r == p \o own
           k == p \o rest
           i == own[common + 1]
           j == rest[common + 1]
<1>6. r[Len(branch) + 1] = i /\ i \in Nibble /\ k[Len(branch) + 1] = j /\ j \in Nibble
  <2>1. common + 1 \in 1..Len(own) /\ common + 1 \in 1..Len(rest)
    BY <1>1, <1>5
  <2>2. Len(branch) + 1 = Len(p) + (common + 1)
    BY <1>1, <1>3, <1>5
  <2>3. i \in Nibble /\ j \in Nibble
    BY <2>1, PathLen
  <2>4. r[Len(p) + (common + 1)] = i
    BY <2>1, Joined
  <2>5. k[Len(p) + (common + 1)] = j
    BY <2>1, Joined
  <2>. QED  BY <2>2, <2>3, <2>4, <2>5
<1>7. /\ old \in Path /\ Len(old) = Len(branch) + 1 /\ IsPrefix(branch, old)
      /\ old[Len(branch) + 1] = i
  BY <1>3, <1>6, Appended DEF IsFork
<1>8. /\ new \in Path /\ Len(new) = Len(branch) + 1 /\ IsPrefix(branch, new)
      /\ new[Len(branch) + 1] = j
  BY <1>3, <1>6, Appended DEF IsFork
<1>9. IsPrefix(old, r) /\ IsPrefix(new, k)
  <2>1. /\ Len(branch) < Len(r) /\ Len(branch) < Len(k)
        /\ r \in Path /\ k \in Path /\ IsPrefix(branch, r) /\ IsPrefix(branch, k)
    BY <1>1, <1>3, <1>4, <1>5
  <2> HIDE DEF i, j, r, k
  <2>. QED  BY <1>3, <1>6, <1>7, <1>8, <2>1, NextPrefix
<1>10. old # new
  BY <1>1, <1>7, <1>8
<1>11. left \in Path /\ old \o left = p \o own
  <2>1. common + 1 \in 0..Len(own) /\ Len(old) = Len(p) + (common + 1)
    BY <1>1, <1>3, <1>5, <1>7
  <2>2. left = Drop(own, common + 1)
    BY DEF IsFork
  <2>3. Drop(r, Len(old)) = left
    BY <2>1, <2>2, DropOfJoin
  <2>4. left \in Path
    BY <2>1, <2>2, Dropped
  <2>5. r \in Path
    BY <1>4
  <2> HIDE DEF r
  <2>6. old \o Drop(r, Len(old)) = r
    BY <1>7, <1>9, <2>5, JoinDropped
  <2>7. old \o left = r
    BY <2>3, <2>6
  <2>. QED  BY <2>4, <2>7 DEF r
<1>12. p \o SubSeq(own, 1, common) = branch
  BY DEF IsFork
<1>. QED  BY <1>1, <1>2, <1>3, <1>7, <1>8, <1>9, <1>10, <1>11, <1>12 DEF take
=============================================================================
