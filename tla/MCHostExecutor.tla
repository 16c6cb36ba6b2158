--------------------------- MODULE MCHostExecutor ---------------------------
(***************************************************************************)
(* Three forks and a chain that has not reached block 3 yet.  The parents  *)
(* p1 and p2 differ in their state; p1 and p3 have the same state under    *)
(* different headers and grandparents, so that only the header links tell  *)
(* them apart.  Block 3 calls y, whose code pays to x and stores the hash  *)
(* of block 1; on the fork of g2 the account x is removed.                 *)
(***************************************************************************)
EXTENDS HostExecutor

MCBlock == {"g1", "g2", "p1", "p2", "p3", "c1", "c2", "c3"}
MCAddr == {"x", "y"}
MCValue == 0..2
MCN == 3
MCChains ==
  {<<"g1", "p1", "c1">>, <<"g1", "p2", "c2">>, <<"g2", "p3", "c3">>, <<"g1", "p1">>}

\* Two forks whose block 3 removes nothing: only a path that the proofs leave
\* unresolved can make the update panic.
MCPanicChains == {<<"g1", "p1", "c1">>, <<"g1", "p2", "c2">>}

MCNumber == [b \in MCBlock |->
  IF b \in {"g1", "g2"} THEN 1 ELSE IF b \in {"p1", "p2", "p3"} THEN 2 ELSE 3]

MCParent == [b \in MCBlock |->
  CASE b \in {"p1", "p2"} -> "g1"
    [] b = "p3" -> "g2"
    [] b = "c1" -> "p1"
    [] b = "c2" -> "p2"
    [] b = "c3" -> "p3"
    [] OTHER -> b]

\* A state by the info of x, the code of y and the storage of y.
Accounts(x, y, s) ==
  [l \in MCAddr \X {"info", "code", "storage"} |->
     CASE l = <<"x", "info">> -> x
       [] l = <<"y", "code">> -> y
       [] l = <<"y", "storage">> -> s
       [] OTHER -> 0]

MCStateOf == [b \in MCBlock |->
  CASE b \in {"g1", "g2"} -> Accounts(0, 0, 0)
    [] b \in {"p1", "p3"} -> Accounts(1, 0, 0)
    [] b = "p2" -> Accounts(0, 1, 0)
    [] b = "c1" -> Accounts(1, 0, 1)
    [] b = "c2" -> Accounts(2, 1, 1)
    [] b = "c3" -> Accounts(0, 0, 2)]

IsChild(b) == b \in {"c1", "c2", "c3"}

MCReads == [b \in MCBlock |->
  IF IsChild(b) THEN {<<"x", "info">>, <<"y", "info">>, <<"y", "code">>, <<"y", "storage">>} ELSE {}]

MCHashReads == [b \in MCBlock |-> IF IsChild(b) THEN {1} ELSE {}]

\* x gets one more than the code of y says, or is removed on the fork of g2; y
\* stores which block 1 it saw; the gas spent depends on x.
MCRun(b, vals, hs) ==
  IF ~IsChild(b) THEN [writes |-> <<>>, receipts |-> 0]
  ELSE [ writes |-> [l \in {<<"x", "info">>, <<"y", "storage">>} |->
                       IF l = <<"x", "info">>
                       THEN IF vals[<<"y", "code">>] # 0 THEN 2
                            ELSE IF hs[1] = "g1" THEN 1 ELSE 0
                       ELSE IF hs[1] = "g1" THEN 1 ELSE 2],
         receipts |-> vals[<<"x", "info">>] ]

MCReceipts == [b \in MCBlock |-> IF b \in {"c1", "c3"} THEN 1 ELSE 0]
=============================================================================
