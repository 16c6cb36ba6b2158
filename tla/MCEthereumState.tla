-------------------------- MODULE MCEthereumState --------------------------
(***************************************************************************)
(* Keys of four nibbles that make every shape of a trie: nested branches,  *)
(* a branch of three, extensions of one to three nibbles, odd and even     *)
(* paths.  Four families of transitions, each with every small change:     *)
(*   one account and its storage; accounts only, with proofs of one chain  *)
(*   or of two; an account that is wiped; an execution witness.            *)
(***************************************************************************)
EXTENDS EthereumState

K1 == <<0, 0, 5, 0>>
K2 == <<0, 0, 5, 1>>
K3 == <<0, 0, 5, 12>>
K4 == <<0, 0, 7, 7>>
K5 == <<9, 1, 1, 1>>

MCKeys == {K1, K2, K3, K4, K5}

\* Of two values, and two lengths of a path: a leaf becomes embedded or ceases
\* to be when its value changes, when its branch collapses or when it is split.
MCShortLeafs == {<<n, Word(v)>> : <<n, v>> \in {<<0, 1>>, <<1, 1>>, <<0, 2>>}}

\* The vectors of test_to_encoded_path.
ASSUME
  /\ ToEncodedPath(<<10, 11, 12, 13>>, FALSE) = <<0, 171, 205>>
  /\ ToEncodedPath(<<10, 11, 12>>, FALSE) = <<26, 188>>
  /\ ToEncodedPath(<<10, 11, 12, 13>>, TRUE) = <<32, 171, 205>>
  /\ ToEncodedPath(<<10, 11, 12>>, TRUE) = <<58, 188>>

\* A map that is one on keys, and its change to new values; 0 is no entry.
Ones(keys) == [k \in keys |-> 1]
Update(map, new) ==
  [k \in {l \in DOMAIN map \union DOMAIN new : l \in DOMAIN new => new[l] # 0} |->
     IF k \in DOMAIN new THEN new[k] ELSE map[k]]

Small(S, n) == {T \in SUBSET S : Cardinality(T) <= n}

\* Changes of at most n keys; a touched key may be unchanged.
Changes(before, keys, n) ==
  UNION {[T -> {0, 2}] : T \in Small(keys, n)}
    \union UNION {{[k \in T |-> ValueAt(before, k)] : T \in Small(keys, 2)}}

AccountOf(info, storage) == [info |-> info, storage |-> storage]
NoStorage == [k \in {} |-> 0]

Transition(source, before, after, wiped, touched) ==
  [ source |-> source, before |-> before, after |-> after, wiped |-> wiped,
    slots |-> touched,
    parents |-> [a \in DOMAIN touched |-> before],
    afters |-> [a \in DOMAIN touched |-> after] ]

\* Storage of one account, next to another one.
Storages(source, keys, n) ==
  {LET before == [a \in {K1, K4} |-> AccountOf(1, IF a = K1 THEN Ones(c[1]) ELSE NoStorage)]
       after == [before EXCEPT ![K1].storage = Update(@, c[2])]
   IN  Transition(source, before, after, {}, [a \in {K1} |-> DOMAIN c[2]]) :
     c \in UNION {{<<B, new>> : new \in Changes(Ones(B), keys, n)} : B \in SUBSET keys}}

\* Accounts with the infos given and no storage.
Infos(map) == [a \in DOMAIN map |-> AccountOf(map[a], NoStorage)]

Accounts(source, keys, n) ==
  {Transition(source, Infos(Ones(c[1])), Infos(Update(Ones(c[1]), c[2])), {},
              [a \in DOMAIN c[2] |-> {}]) :
     c \in UNION {{<<B, new>> : new \in Changes(Ones(B), keys, n)} : B \in SUBSET keys}}

\* The same with the proofs of some accounts from another fork, where K2 is
\* there or not, and differs.
Torn(keys) ==
  UNION {LET fork == Infos(Update(Ones(DOMAIN tr.before), [k \in {K2} |-> v]))
         IN  {[tr EXCEPT
                 !.parents = [a \in DOMAIN @ |-> IF a \in T THEN fork ELSE tr.before],
                 !.afters = [a \in DOMAIN @ |-> IF a \in T \/ w THEN fork ELSE tr.after]] :
                T \in SUBSET DOMAIN tr.slots, w \in BOOLEAN} :
           tr \in Accounts("proofs", keys, 2), v \in {0, 2}}

\* An account that is destroyed and created again in one block.
Wiped(source) ==
  {LET before == [a \in {K1, K2} |-> AccountOf(1, IF a = K1 THEN Ones(B) ELSE NoStorage)]
       after == [before EXCEPT ![K1] = AccountOf(2, [k \in A |-> 2])]
   IN  Transition(source, before, after, {K1}, [a \in {K1} |-> A \union R]) :
     A \in Small({K1, K2, K5}, 2), B \in SUBSET {K1, K2, K5}, R \in Small({K1, K2}, 1)}

MCTransitions ==
  Storages("proofs", MCKeys, 3) \union Accounts("proofs", MCKeys \ {K3}, 3)
    \union Torn({K1, K2, K5}) \union Wiped("proofs")
    \union Storages("witness", {K1, K2, K5}, 2)
    \union {tr \in Accounts("witness", {K1, K2, K5}, 2) : tr.before # NoStorage}

\* A contract is paid without any of its code running.
MCPayments ==
  {LET before == [a \in {K1, K2} |-> AccountOf(1, IF a = K1 THEN Ones(B) ELSE NoStorage)]
   IN  Transition("witness", before, [before EXCEPT ![p].info = 2], {},
                  [a \in {p} |-> S]) :
     p \in {K1, K2}, B \in SUBSET MCKeys, S \in SUBSET {K1, K2}}
=============================================================================
