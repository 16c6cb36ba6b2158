------------------------- MODULE FullExecutorProofs -------------------------
(***************************************************************************)
(* Proofs about the runs that share a cache file, for any number of runs   *)
(* with any settings and a file of any length: the file's integrity, what  *)
(* a reader of an undamaged file gets, and the opcode setting.             *)
(***************************************************************************)
EXTENDS FullExecutor, TLAPS

\* The run that last truncated the file has written its first pieces since;
\* whoever else is writing was writing then.
FileInv ==
  /\ \A p \in Proc :
       pc[p] \in {"build", "load", "read", "host", "create"} => offset[p] = 0
  /\ \A p \in Proc : pc[p] = "write" => exists /\ (p = creator \/ p \in others)
  /\ exists =>
       /\ creator \in Proc
       /\ \A i \in 1..offset[creator] : file[i] # Nobody
       /\ others = {} => \A i \in 1..offset[creator] : file[i] = creator

\* From the moment a run with an RPC URL has an input.
OpcodeInv ==
  \A p \in Proc :
    Full(p) /\ pc[p] \in {"create", "write", "client", "ok"}
      => input[p].opcode = config[p].opcode

IInv ==
  /\ TypeOK
  /\ FileInv
  /\ OpcodeInv

-----------------------------------------------------------------------------

LEMMA InitEstablishes == Init => IInv
<1> SUFFICES ASSUME Init PROVE IInv
  OBVIOUS
<1> USE DEF Init
<1>1. Chunks \in Nat /\ 0 \in 0..Chunks
  BY CacheAssumption
<1>2. TypeOK
  <2>1. got \in [Proc -> Seq(Proc \union {Nobody})]
    OBVIOUS
  <2>2. input \in [Proc -> ClientInput]
    BY DEF NoInput, ClientInput, Genesis
  <2> QED
    BY <1>1, <2>1, <2>2 DEF TypeOK
<1>3. FileInv /\ OpcodeInv
  BY DEF FileInv, OpcodeInv
<1> QED
  BY <1>2, <1>3 DEF IInv

\* The steps of a run that leave the file and every offset alone, whatever
\* they do to what the run has read or holds.
LEMMA QuietStep ==
  ASSUME IInv, NEW p \in Proc, NEW label,
         label \in {"load", "read", "host", "create", "client"} \union Ends,
         pc[p] # "write" \/ label \in Ends,
         pc[p] \notin {"client"} \union Ends \/ label \in Ends,
         Goto(p, label),
         UNCHANGED <<config, fileVars, offset>>,
         got' \in [Proc -> Seq(Proc \union {Nobody})],
         input' \in [Proc -> ClientInput],
         \A q \in Proc : q # p => input'[q] = input[q],
         Full(p) /\ label \in {"create", "client", "ok"}
           => input'[p].opcode = config[p].opcode
  PROVE  IInv'
<1> USE DEF Goto, fileVars, Ends
<1>1. pc' \in [Proc -> {"build", "load", "read", "host", "create", "write", "client"}
                         \union Ends]
  BY DEF IInv, TypeOK
<1>2. TypeOK'
  BY <1>1 DEF IInv, TypeOK
<1>3. \A q \in Proc : pc'[q] = IF q = p THEN label ELSE pc[q]
  BY DEF IInv, TypeOK
<1>4. FileInv'
  <2>1. label \in {"load", "read", "host", "create"} => offset[p] = 0
    <3>1. pc[p] \in {"build", "load", "read", "host", "create", "write", "client"} \union Ends
      BY DEF IInv, TypeOK
    <3> QED
      BY <3>1 DEF IInv, FileInv
  <2>2. \A q \in Proc :
          pc'[q] \in {"build", "load", "read", "host", "create"} => offset'[q] = 0
    BY <1>3, <2>1 DEF IInv, FileInv
  <2>3. \A q \in Proc : pc'[q] = "write" => pc[q] = "write"
    BY <1>3
  <2> QED
    BY <2>2, <2>3 DEF IInv, FileInv
<1>5. OpcodeInv'
  BY <1>3 DEF IInv, OpcodeInv, Full
<1> QED
  BY <1>2, <1>4, <1>5 DEF IInv

\* What a FullExecutor takes from the cache has its own opcode setting.
LEMMA TakeOpcode ==
  ASSUME config \in Assignments, NEW p \in Proc, NEW in \in ClientInput
  PROVE  /\ Take(p, in) \in ClientInput
         /\ Full(p) => Take(p, in).opcode = config[p].opcode
<1>1. config[p] \in Config
  BY CacheAssumption
<1> QED
  BY <1>1 DEF Take, ClientInput, Config, Full

LEMMA CreatePreserves ==
  ASSUME IInv, NEW p \in Proc, Create(p) PROVE IInv'
<1> USE DEF Create, Goto
<1>1. \A q \in Proc : pc'[q] = IF q = p THEN "write" ELSE pc[q]
  BY DEF IInv, TypeOK
<1>2. TypeOK'
  <2>1. pc' \in [Proc -> {"build", "load", "read", "host", "create", "write", "client"}
                           \union Ends]
    BY DEF IInv, TypeOK
  <2>2. file' \in [Piece -> Proc \union {Nobody}]
    OBVIOUS
  <2> QED
    BY <2>1, <2>2 DEF IInv, TypeOK
<1>3. FileInv'
  <2>1. offset'[p] = 0 /\ creator' = p
    BY DEF IInv, FileInv
  <2> QED
    BY <1>1, <2>1 DEF IInv, FileInv
<1>4. OpcodeInv'
  BY <1>1 DEF IInv, OpcodeInv, Full
<1> QED
  BY <1>2, <1>3, <1>4 DEF IInv

LEMMA WritePiecePreserves ==
  ASSUME IInv, NEW p \in Proc, WritePiece(p) PROVE IInv'
<1> USE DEF WritePiece, Goto
<1>1. Chunks \in Nat /\ Nobody \notin Proc /\ offset[p] \in Nat /\ offset[p] + 1 \in Piece
  BY CacheAssumption DEF IInv, TypeOK, Piece
<1>2. /\ \A q \in Proc : pc'[q] = pc[q] \/ (q = p /\ pc'[q] = "client")
      /\ \A q \in Proc : offset'[q] = IF q = p THEN offset[p] + 1 ELSE offset[q]
      /\ \A i \in Piece : file'[i] = IF i = offset[p] + 1 THEN p ELSE file[i]
  BY DEF IInv, TypeOK
<1>3. TypeOK'
  <2>1. pc' \in [Proc -> {"build", "load", "read", "host", "create", "write", "client"}
                           \union Ends]
    BY DEF IInv, TypeOK
  <2>2. offset' \in [Proc -> 0..Chunks]
    BY <1>1 DEF IInv, TypeOK
  <2>3. file' \in [Piece -> Proc \union {Nobody}]
    BY DEF IInv, TypeOK
  <2> QED
    BY <2>1, <2>2, <2>3 DEF IInv, TypeOK
<1>4. FileInv'
  <2>1. /\ pc[p] = "write" /\ exists /\ creator \in Proc
        /\ p = creator \/ p \in others
    BY DEF IInv, FileInv
  <2>2. \A q \in Proc :
          pc'[q] \in {"build", "load", "read", "host", "create"} => offset'[q] = 0
    BY <1>2, <2>1 DEF IInv, FileInv
  <2>3. \A q \in Proc : pc'[q] = "write" => exists' /\ (q = creator' \/ q \in others')
    BY <1>2 DEF IInv, FileInv
  <2>4. \A i \in 1..offset'[creator] :
          i \in Piece /\ (i \in 1..offset[creator] \/ (p = creator /\ i = offset[p] + 1))
    <3>1. offset[creator] \in 0..Chunks /\ offset'[creator] \in 0..Chunks
      BY <1>3, <2>1 DEF IInv, TypeOK
    <3> QED
      BY <1>1, <1>2, <2>1, <3>1 DEF Piece
  <2>5. \A i \in 1..offset'[creator] : file'[i] # Nobody
    BY <1>1, <1>2, <2>1, <2>4 DEF IInv, FileInv
  <2>6. others = {} => \A i \in 1..offset'[creator] : file'[i] = creator
    BY <1>2, <2>1, <2>4 DEF IInv, FileInv
  <2> QED
    BY <2>1, <2>2, <2>3, <2>5, <2>6 DEF FileInv
<1>5. OpcodeInv'
  BY <1>2 DEF IInv, OpcodeInv, Full
<1> QED
  BY <1>3, <1>4, <1>5 DEF IInv

LEMMA NextPreserves == IInv /\ [Next]_vars => IInv'
<1> SUFFICES ASSUME IInv, [Next]_vars PROVE IInv'
  OBVIOUS
<1> USE DEF Ends
<1>1. CASE UNCHANGED vars
  BY <1>1 DEF vars, fileVars, IInv, TypeOK, FileInv, OpcodeInv, Full
<1>2. ASSUME NEW p \in Proc, Step(p) \/ Kill(p) PROVE IInv'
  <2>1. /\ got \in [Proc -> Seq(Proc \union {Nobody})]
        /\ input \in [Proc -> ClientInput]
        /\ config \in Assignments /\ config[p] \in Config
    BY CacheAssumption DEF IInv, TypeOK
  <2>2. \A q \in Proc : Full(q) /\ pc[q] \in {"create", "client"}
                          => input[q].opcode = config[q].opcode
    BY DEF IInv, OpcodeInv
  <2>3. CASE Build(p) \/ BuildFails(p) \/ SetupFails(p) \/ Load(p) \/ ReadEof(p)
    <3>1. PICK label \in {"load", "host", "read", "err"} : Goto(p, label)
      BY <2>3 DEF Build, BuildFails, SetupFails, Load, ReadEof, Missed
    <3>2. pc[p] \in {"build", "load", "read"} /\ UNCHANGED <<config, fileVars, offset, got, input>>
      BY <2>3 DEF Build, BuildFails, SetupFails, Load, ReadEof
    <3> QED
      BY <2>1, <3>1, <3>2, QuietStep
  <2>4. CASE ReadPiece(p)
    <3>1. got' \in [Proc -> Seq(Proc \union {Nobody})]
      <4> DEFINE next == Len(got[p]) + 1
      <4>1. file[next] \in Proc \union {Nobody}
        BY <2>4 DEF ReadPiece, IInv, TypeOK
      <4>2. Append(got[p], file[next]) \in Seq(Proc \union {Nobody})
        BY <2>1, <4>1
      <4> QED
        BY <2>1, <2>4, <4>2 DEF ReadPiece
    <3>2. /\ TypeOK' /\ FileInv' /\ OpcodeInv'
      BY <2>4, <3>1 DEF ReadPiece, fileVars, IInv, TypeOK, FileInv, OpcodeInv, Full
    <3> QED
      BY <3>2 DEF IInv
  <2>5. CASE Parse(p)
    <3>1. PICK w \in Proc : input' = [input EXCEPT ![p] = Take(p, input[w])]
      BY <2>5 DEF Parse
    <3>2. Take(p, input[w]) \in ClientInput
          /\ (Full(p) => Take(p, input[w]).opcode = config[p].opcode)
      BY <2>1, TakeOpcode
    <3>3. /\ input' \in [Proc -> ClientInput]
          /\ \A q \in Proc : q # p => input'[q] = input[q]
          /\ Full(p) => input'[p].opcode = config[p].opcode
      BY <2>1, <3>1, <3>2
    <3>4. pc[p] = "read" /\ Goto(p, "client") /\ UNCHANGED <<config, fileVars, offset, got>>
      BY <2>5 DEF Parse
    <3> QED
      BY <2>1, <3>3, <3>4, QuietStep
  <2>6. CASE ParseGarbled(p)
    <3>1. pc[p] = "read" /\ UNCHANGED <<config, fileVars, offset, got>>
      BY <2>6 DEF ParseGarbled
    <3>2. CASE Missed(p) /\ UNCHANGED input
      <4>1. PICK label \in {"host", "err"} : Goto(p, label)
        BY <3>2 DEF Missed
      <4> QED
        BY <2>1, <3>1, <3>2, <4>1, QuietStep
    <3>3. CASE /\ \E in \in ClientInput : input' = [input EXCEPT ![p] = Take(p, in)]
               /\ Goto(p, "client")
      <4>1. PICK in \in ClientInput : input' = [input EXCEPT ![p] = Take(p, in)]
        BY <3>3
      <4>2. /\ Take(p, in) \in ClientInput
            /\ Full(p) => Take(p, in).opcode = config[p].opcode
        BY <2>1, TakeOpcode
      <4>3. /\ input' \in [Proc -> ClientInput]
            /\ \A q \in Proc : q # p => input'[q] = input[q]
            /\ Full(p) => input'[p].opcode = config[p].opcode
        BY <2>1, <4>1, <4>2
      <4> QED
        BY <2>1, <3>1, <3>3, <4>3, QuietStep
    <3> QED
      BY <2>6, <3>2, <3>3 DEF ParseGarbled
  <2>7. CASE HostOk(p)
    <3> DEFINE HostInput(s) == [opcode |-> config[p].opcode,
                                genesis |-> config[p].genesis, sound |-> s]
    <3>1. PICK sound \in BOOLEAN :
            input' = [input EXCEPT ![p] = HostInput(sound)]
      BY <2>7 DEF HostOk
    <3>2. HostInput(sound) \in ClientInput
      BY <2>1 DEF Config, ClientInput
    <3>3. /\ input' \in [Proc -> ClientInput]
          /\ \A q \in Proc : q # p => input'[q] = input[q]
          /\ input'[p].opcode = config[p].opcode
      BY <2>1, <3>1, <3>2
    <3>4. PICK label \in {"create", "client"} : Goto(p, label)
      BY <2>7 DEF HostOk
    <3>5. pc[p] = "host" /\ UNCHANGED <<config, fileVars, offset, got>>
      BY <2>7 DEF HostOk
    <3> QED
      BY <2>1, <3>3, <3>4, <3>5, QuietStep
  <2>8. CASE \/ BuildPanics(p) \/ HostFails(p) \/ CreateFails(p) \/ WriteFails(p)
             \/ ClientOk(p) \/ ClientFails(p) \/ ClientPanics(p) \/ Kill(p)
    <3>1. PICK label \in Ends : Goto(p, label) /\ (label = "ok" => pc[p] = "client")
      BY <2>8 DEF BuildPanics, HostFails, CreateFails, WriteFails, ClientOk, ClientFails,
                  ClientPanics, Kill
    <3>2. UNCHANGED <<config, fileVars, offset, got, input>>
      BY <2>8 DEF BuildPanics, HostFails, CreateFails, WriteFails, ClientOk, ClientFails,
                  ClientPanics, Kill
    <3> QED
      BY <2>1, <2>2, <3>1, <3>2, QuietStep
  <2>9. CASE Create(p)
    BY <2>9, CreatePreserves
  <2>10. CASE WritePiece(p)
    BY <2>10, WritePiecePreserves
  <2> QED
    BY <1>2, <2>3, <2>4, <2>5, <2>6, <2>7, <2>8, <2>9, <2>10 DEF Step
<1> QED
  BY <1>1, <1>2 DEF Next, Finished

LEMMA Inductive == Spec => []IInv
<1> QED
  BY InitEstablishes, NextPreserves, PTL DEF Spec

-----------------------------------------------------------------------------
(* The genesis of what is cached *)

\* A run past its start has a chain spec, and what the host gives it is of the
\* named chain.  Whoever wrote a piece that is in the file, or that was read
\* from it, holds such an input still.
GenesisInv ==
  /\ \A p \in Proc :
       pc[p] \in {"load", "read", "host", "create", "write", "client"}
         => HasSpec(config[p].genesis)
  /\ \A p \in Proc :
       pc[p] \in {"create", "write"} \/ offset[p] > 0 => input[p].genesis = "named"
  /\ \A i \in Piece : file[i] # Nobody => offset[file[i]] > 0
  /\ \A p \in Proc : \A i \in DOMAIN got[p] :
       got[p][i] # Nobody => offset[got[p][i]] > 0
  /\ \A p, w \in Proc :
       pc[p] \in {"client", "ok"} /\ got[p] = [i \in Piece |-> w]
         => input[p].genesis = "named"

LEMMA GenesisInit == Init => GenesisInv
<1> SUFFICES ASSUME Init PROVE GenesisInv
  OBVIOUS
<1>1. Chunks \in Nat \ {0} /\ Nobody \notin Proc
  BY CacheAssumption
<1> QED
  BY <1>1 DEF Init, GenesisInv

\* The steps that write nothing and read nothing.
LEMMA GenesisQuiet ==
  ASSUME IInv, IInv', GenesisInv, NEW p \in Proc, NEW label, Goto(p, label),
         UNCHANGED <<config, fileVars, offset, got>>,
         label # "write",
         pc[p] # "build" \/ HasSpec(config[p].genesis) \/ label \in Ends,
         pc[p] \notin Ends,
         \A q \in Proc : q # p => input'[q] = input[q],
         \/ input' = input /\ (label = "ok" => pc[p] = "client")
                          /\ label \notin {"create", "client"}
         \/ /\ offset[p] = 0 /\ label # "ok"
            /\ label \in {"create", "client"} => input'[p].genesis = "named"
         \/ /\ offset[p] = 0 /\ label = "client"
            /\ ~\E w \in Proc : got[p] = [i \in Piece |-> w]
  PROVE  GenesisInv'
<1> USE DEF Goto, fileVars
<1>1. \A q \in Proc : pc'[q] = IF q = p THEN label ELSE pc[q]
  BY DEF IInv, TypeOK
<1>2. pc[p] \in {"build", "load", "read", "host", "create", "write", "client"}
  BY DEF IInv, TypeOK
<1>3. \A q \in Proc :
        pc'[q] \in {"load", "read", "host", "create", "write", "client"}
          => HasSpec(config'[q].genesis)
  BY <1>1, <1>2 DEF GenesisInv, Ends, HasSpec
<1>4. \A q \in Proc :
        pc'[q] \in {"create", "write"} \/ offset'[q] > 0 => input'[q].genesis = "named"
  BY <1>1 DEF GenesisInv
<1>5. \A q, w \in Proc :
        pc'[q] \in {"client", "ok"} /\ got'[q] = [i \in Piece |-> w]
          => input'[q].genesis = "named"
  <2> DEFINE Whole(w) == [i \in Piece |-> w]
  <2>1. \A q, w \in Proc :
          pc[q] \in {"client", "ok"} /\ got[q] = Whole(w) => input[q].genesis = "named"
    BY DEF GenesisInv
  <2>2. (~\E w \in Proc : got[p] = [i \in Piece |-> w])
          => \A w \in Proc : got[p] # Whole(w)
    OBVIOUS
  <2> HIDE DEF Whole
  <2> SUFFICES ASSUME NEW q \in Proc, NEW w \in Proc,
                      pc'[q] \in {"client", "ok"}, got[q] = Whole(w)
               PROVE  input'[q].genesis = "named"
    BY DEF Whole
  <2>3. CASE q # p
    BY <1>1, <2>1, <2>3
  <2>4. CASE q = p
    <3>1. label \in {"client", "ok"}
      BY <1>1, <2>4
    <3> QED
      BY <2>1, <2>2, <2>4, <3>1
  <2> QED
    BY <2>3, <2>4
<1> QED
  BY <1>3, <1>4, <1>5 DEF GenesisInv

LEMMA GenesisWrite ==
  ASSUME IInv, IInv', GenesisInv, NEW p \in Proc, WritePiece(p)
  PROVE  GenesisInv'
<1> USE DEF WritePiece, Goto
<1>1. Chunks \in Nat /\ Nobody \notin Proc /\ offset[p] \in Nat
  BY CacheAssumption DEF IInv, TypeOK
<1>2. /\ \A q \in Proc : pc'[q] = pc[q] \/ (q = p /\ pc'[q] = "client")
      /\ \A q \in Proc : offset'[q] = IF q = p THEN offset[p] + 1 ELSE offset[q]
      /\ \A i \in Piece : file'[i] = IF i = offset[p] + 1 THEN p ELSE file[i]
      /\ \A q \in Proc : offset[q] \in Nat
  BY DEF IInv, TypeOK
<1>3. pc[p] = "write" /\ input[p].genesis = "named"
  BY DEF GenesisInv
<1>4. \A q \in Proc : offset[q] > 0 => offset'[q] > 0
  BY <1>1, <1>2
<1>5. \A i \in Piece : file'[i] # Nobody => offset'[file'[i]] > 0
  <2> SUFFICES ASSUME NEW i \in Piece, file'[i] # Nobody PROVE offset'[file'[i]] > 0
    OBVIOUS
  <2>1. CASE file'[i] = p
    BY <1>1, <1>2, <2>1
  <2>2. CASE file'[i] = file[i]
    BY <1>4, <2>2 DEF GenesisInv, IInv, TypeOK
  <2> QED
    BY <1>2, <2>1, <2>2
<1>6. \A q \in Proc : \A i \in DOMAIN got'[q] :
        got'[q][i] # Nobody => offset'[got'[q][i]] > 0
  <2> SUFFICES ASSUME NEW q \in Proc, NEW i \in DOMAIN got[q], got[q][i] # Nobody
               PROVE  offset'[got[q][i]] > 0
    OBVIOUS
  <2>1. got[q] \in Seq(Proc \union {Nobody})
    BY DEF IInv, TypeOK
  <2>2. got[q][i] \in Proc
    BY <2>1
  <2> QED
    BY <1>4, <2>2 DEF GenesisInv
<1>7. /\ \A q \in Proc :
           pc'[q] \in {"load", "read", "host", "create", "write", "client"}
             => HasSpec(config'[q].genesis)
      /\ \A q \in Proc :
           pc'[q] \in {"create", "write"} \/ offset'[q] > 0 => input'[q].genesis = "named"
      /\ \A q, w \in Proc :
           pc'[q] \in {"client", "ok"} /\ got'[q] = [i \in Piece |-> w]
             => input'[q].genesis = "named"
  BY <1>2, <1>3 DEF GenesisInv
<1> QED
  BY <1>5, <1>6, <1>7 DEF GenesisInv

LEMMA GenesisCreate ==
  ASSUME IInv, IInv', GenesisInv, NEW p \in Proc, Create(p)
  PROVE  GenesisInv'
<1>1. \A q \in Proc : pc'[q] = IF q = p THEN "write" ELSE pc[q]
  BY DEF Create, Goto, IInv, TypeOK
<1>2. pc[p] = "create" /\ UNCHANGED <<config, offset, got, input>>
  BY DEF Create
<1>3. \A i \in Piece : file'[i] = Nobody
  BY DEF Create
<1> QED
  BY <1>1, <1>2, <1>3 DEF GenesisInv

\* A piece that was read is in the file.
LEMMA GenesisRead ==
  ASSUME IInv, IInv', GenesisInv, NEW p \in Proc, ReadPiece(p)
  PROVE  GenesisInv'
<1> DEFINE next == Len(got[p]) + 1
<1>1. /\ pc[p] = "read" /\ next \in Piece
      /\ got' = [got EXCEPT ![p] = Append(@, file[next])]
      /\ UNCHANGED <<config, pc, fileVars, offset, input>>
  BY DEF ReadPiece
<1>2. /\ got[p] \in Seq(Proc \union {Nobody})
      /\ file[next] \in Proc \union {Nobody}
      /\ got \in [Proc -> Seq(Proc \union {Nobody})]
  BY <1>1 DEF IInv, TypeOK
<1>3. \A q \in Proc : \A i \in DOMAIN got'[q] :
        got'[q][i] # Nobody => offset'[got'[q][i]] > 0
  <2> SUFFICES ASSUME NEW q \in Proc, NEW i \in DOMAIN got'[q], got'[q][i] # Nobody
               PROVE  offset[got'[q][i]] > 0
    BY <1>1
  <2>1. CASE q # p
    BY <1>1, <1>2, <2>1 DEF GenesisInv
  <2>2. CASE q = p
    <3>1. got'[p] = Append(got[p], file[next])
      BY <1>1, <1>2
    <3>2. \/ i \in DOMAIN got[p] /\ got'[p][i] = got[p][i]
          \/ got'[p][i] = file[next]
      BY <1>2, <2>2, <3>1
    <3> QED
      BY <1>1, <2>2, <3>2 DEF GenesisInv
  <2> QED
    BY <2>1, <2>2
<1>4. \A q, w \in Proc :
        pc'[q] \in {"client", "ok"} /\ got'[q] = [i \in Piece |-> w]
          => input'[q].genesis = "named"
  BY <1>1, <1>2 DEF GenesisInv
<1> QED
  BY <1>1, <1>3, <1>4 DEF GenesisInv, fileVars

LEMMA GenesisNext == IInv /\ IInv' /\ GenesisInv /\ [Next]_vars => GenesisInv'
<1> SUFFICES ASSUME IInv, IInv', GenesisInv, [Next]_vars PROVE GenesisInv'
  OBVIOUS
<1>1. CASE UNCHANGED vars
  BY <1>1 DEF vars, fileVars, GenesisInv
<1>2. ASSUME NEW p \in Proc, Step(p) \/ Kill(p) PROVE GenesisInv'
  <2>1. /\ pc[p] \in {"build", "load", "read", "host", "create"} => offset[p] = 0
        /\ input \in [Proc -> ClientInput] /\ config[p] \in Config
        /\ Chunks \in Nat \ {0}
    BY CacheAssumption DEF IInv, TypeOK, FileInv
  <2>2. CASE Build(p) \/ BuildFails(p) \/ SetupFails(p) \/ BuildPanics(p) \/ Load(p) \/ ReadEof(p)
    <3>1. PICK label \in {"load", "host", "read", "err", "panicked"} :
            Goto(p, label) /\ (label \in {"err", "panicked"} \/ pc[p] # "build"
                                \/ HasSpec(config[p].genesis))
      BY <2>2 DEF Build, BuildFails, SetupFails, BuildPanics, Load, ReadEof, Missed
    <3>2. /\ pc[p] \in {"build", "load", "read"}
          /\ UNCHANGED <<config, fileVars, offset, got, input>>
      BY <2>2 DEF Build, BuildFails, SetupFails, BuildPanics, Load, ReadEof
    <3> QED
      BY <3>1, <3>2, GenesisQuiet DEF Ends
  <2>3. CASE Parse(p)
    <3>1. PICK w \in Proc :
            got[p] = [i \in Piece |-> w] /\ input' = [input EXCEPT ![p] = Take(p, input[w])]
      BY <2>3 DEF Parse
    <3>2. offset[w] > 0
      <4>1. 1 \in DOMAIN got[p] /\ got[p][1] = w /\ w # Nobody
        BY <2>1, <3>1, CacheAssumption DEF Piece
      <4> QED
        BY <4>1 DEF GenesisInv
    <3>3. Take(p, input[w]).genesis = "named"
      BY <2>1, <3>2 DEF GenesisInv, Take, ClientInput
    <3>4. /\ \A q \in Proc : q # p => input'[q] = input[q]
          /\ input'[p].genesis = "named"
      BY <2>1, <3>1, <3>3
    <3>5. pc[p] = "read" /\ Goto(p, "client") /\ UNCHANGED <<config, fileVars, offset, got>>
      BY <2>3 DEF Parse
    <3> QED
      BY <2>1, <3>4, <3>5, GenesisQuiet DEF Ends
  <2>4. CASE ParseGarbled(p)
    <3>1. /\ pc[p] = "read" /\ UNCHANGED <<config, fileVars, offset, got>>
          /\ ~\E w \in Proc : got[p] = [i \in Piece |-> w]
      BY <2>4 DEF ParseGarbled
    <3>2. CASE Missed(p) /\ UNCHANGED input
      <4>1. PICK label \in {"host", "err"} : Goto(p, label)
        BY <3>2 DEF Missed
      <4> QED
        BY <3>1, <3>2, <4>1, GenesisQuiet DEF Ends
    <3>3. CASE /\ \E in \in ClientInput : input' = [input EXCEPT ![p] = Take(p, in)]
               /\ Goto(p, "client")
      <4>1. \A q \in Proc : q # p => input'[q] = input[q]
        BY <2>1, <3>3
      <4> QED
        BY <2>1, <3>1, <3>3, <4>1, GenesisQuiet DEF Ends
    <3> QED
      BY <2>4, <3>2, <3>3 DEF ParseGarbled
  <2>5. CASE HostOk(p)
    <3> DEFINE HostInput(s) == [opcode |-> config[p].opcode,
                                genesis |-> config[p].genesis, sound |-> s]
    <3>1. PICK sound \in BOOLEAN : input' = [input EXCEPT ![p] = HostInput(sound)]
      BY <2>5 DEF HostOk
    <3>2. /\ pc[p] = "host" /\ HasChainId(config[p].genesis)
          /\ UNCHANGED <<config, fileVars, offset, got>>
      BY <2>5 DEF HostOk
    <3>3. config[p].genesis = "named"
      BY <2>1, <3>2 DEF GenesisInv, HasChainId, HasSpec, Config, Genesis
    <3>4. /\ \A q \in Proc : q # p => input'[q] = input[q]
          /\ input'[p].genesis = "named"
      BY <2>1, <3>1, <3>3
    <3>5. PICK label \in {"create", "client"} : Goto(p, label)
      BY <2>5 DEF HostOk
    <3> QED
      BY <2>1, <3>2, <3>4, <3>5, GenesisQuiet DEF Ends
  <2>6. CASE \/ HostFails(p) \/ CreateFails(p) \/ WriteFails(p)
             \/ ClientOk(p) \/ ClientFails(p) \/ ClientPanics(p) \/ Kill(p)
    <3>1. PICK label \in Ends : Goto(p, label) /\ (label = "ok" => pc[p] = "client")
      BY <2>6 DEF HostFails, CreateFails, WriteFails, ClientOk, ClientFails,
                  ClientPanics, Kill, Ends
    <3>2. pc[p] \notin Ends /\ UNCHANGED <<config, fileVars, offset, got, input>>
      BY <2>6 DEF HostFails, CreateFails, WriteFails, ClientOk, ClientFails,
                  ClientPanics, Kill, Ends
    <3> QED
      BY <3>1, <3>2, GenesisQuiet DEF Ends
  <2> QED
    BY <1>2, <2>2, <2>3, <2>4, <2>5, <2>6, GenesisCreate, GenesisWrite, GenesisRead
       DEF Step
<1> QED
  BY <1>1, <1>2 DEF Next, Finished

-----------------------------------------------------------------------------
(* The theorems *)

\* full_executor.rs keeps its types, however the runs overlap or are killed.
THEOREM TypeCorrect == Spec => []TypeOK
<1>1. IInv => TypeOK
  BY DEF IInv
<1> QED
  BY <1>1, Inductive, PTL

LEMMA SettledFile ==
  ASSUME IInv, Settled
  PROVE  /\ creator \in Proc
         /\ \A i \in Piece : file[i] # Nobody
         /\ others = {} => \A i \in Piece : file[i] = creator
<1>1. exists /\ offset[creator] = Chunks
  BY DEF Settled
<1> QED
  BY <1>1 DEF IInv, FileInv, Piece

\* A run that has written its input leaves no trace of the runs before it: the
\* file has no gap once its last truncation is followed by a whole write, and
\* is that run's input if no write was under way then.
THEOREM CacheIsIntact == Spec => []CacheIntegrity
<1>1. IInv => CacheIntegrity
  BY SettledFile DEF CacheIntegrity
<1> QED
  BY <1>1, Inductive, PTL

\* A FullExecutor runs the client with its own opcode setting, wherever the
\* input comes from.
THEOREM OpcodeIsAsked == Spec => []OpcodeAsAsked
<1>1. IInv => OpcodeAsAsked
  BY DEF IInv, OpcodeInv, OpcodeAsAsked
<1> QED
  BY <1>1, Inductive, PTL

\* Loading a file that one run wrote undisturbed does not fail.
THEOREM UndamagedLoads == Spec => UndamagedCacheLoads
<1> DEFINE Goal ==
      \A p \in Proc :
        /\ Settled /\ others = {}
        /\ \A i \in DOMAIN got[p] : got[p][i] = creator
        /\ pc[p] \in {"load", "read"}
        => pc'[p] \in {"load", "read", "client", "killed"}
<1>1. IInv /\ [Next]_vars => [Goal]_vars
  <2> SUFFICES ASSUME IInv, Next, NEW p \in Proc, Settled, others = {},
                      \A i \in DOMAIN got[p] : got[p][i] = creator,
                      pc[p] \in {"load", "read"}
               PROVE  pc'[p] \in {"load", "read", "client", "killed"}
    OBVIOUS
  <2>1. /\ exists /\ creator \in Proc /\ Nobody \notin Proc /\ Chunks \in Nat
        /\ \A i \in Piece : file[i] = creator
        /\ got[p] \in Seq(Proc \union {Nobody})
    BY CacheAssumption, SettledFile DEF Settled, IInv, TypeOK
  <2>2. /\ pc \in [Proc -> {"build", "load", "read", "host", "create", "write", "client"}
                               \union Ends]
    BY DEF IInv, TypeOK
  <2>3. ASSUME NEW q \in Proc, q # p, Step(q) \/ Kill(q)
        PROVE  pc'[p] = pc[p]
    BY <2>2, <2>3 DEF Step, Kill, Goto, Missed, Build, BuildFails, SetupFails, Load, ReadPiece,
       ReadEof, Parse, ParseGarbled, HostOk, HostFails, Create, CreateFails,
       WritePiece, WriteFails, ClientOk, ClientFails, ClientPanics, BuildPanics
  <2>4. CASE Load(p) \/ ReadPiece(p) \/ Parse(p) \/ Kill(p)
    BY <2>1, <2>2, <2>4 DEF Load, ReadPiece, Parse, Kill, Goto
  <2>5. ~ReadEof(p)
    <3> DEFINE next == Len(got[p]) + 1
    <3>1. next \in Piece => next \in next..Chunks /\ file[next] # Nobody
      BY <2>1 DEF Piece
    <3> QED
      BY <3>1 DEF ReadEof
  <2>6. ~ParseGarbled(p)
    <3>1. Len(got[p]) = Chunks => got[p] = [i \in Piece |-> creator]
      BY <2>1 DEF Piece
    <3> QED
      BY <2>1, <3>1 DEF ParseGarbled
  <2>7. ~(\/ Build(p) \/ BuildFails(p) \/ SetupFails(p) \/ BuildPanics(p)
          \/ HostOk(p) \/ HostFails(p) \/ Create(p) \/ CreateFails(p) \/ WritePiece(p) \/ WriteFails(p) \/ ClientOk(p)
          \/ ClientFails(p) \/ ClientPanics(p))
    BY DEF Build, BuildFails, SetupFails, BuildPanics, HostOk, HostFails, Create,
       CreateFails, WritePiece, WriteFails, ClientOk, ClientFails, ClientPanics
  <2>8. CASE Finished
    BY <2>8 DEF Finished, vars
  <2> QED
    BY <2>3, <2>4, <2>5, <2>6, <2>7, <2>8 DEF Next, Step
<1> QED
  BY <1>1, Inductive, PTL DEF Spec, UndamagedCacheLoads

\* Sharing a cache between runs with and without --genesis-path is harmless:
\* the file of a chain holds inputs of that chain's own genesis only.
THEOREM CachedGenesis == Spec => []CacheIsOfTheChain
<1>1. GenesisInv => CacheIsOfTheChain
  BY DEF GenesisInv, CacheIsOfTheChain
<1> QED
  BY <1>1, GenesisInit, GenesisNext, Inductive, PTL DEF Spec
=============================================================================
