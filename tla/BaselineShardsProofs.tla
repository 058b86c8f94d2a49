------------------------ MODULE BaselineShardsProofs ------------------------
(***************************************************************************)
(* Proofs about BaselineShards for any number of shards, of prompts, of    *)
(* shells to a shard and of killed processes, with and without lines cut   *)
(* short: type correctness, that what is published was written down, and   *)
(* that the merged files of a script that reports success are complete.    *)
(* With one shell to a shard and no line cut short the pipeline implements *)
(* StageLedger.                                                            *)
(***************************************************************************)
EXTENDS BaselineShards, NaturalFacts, FiniteSetTheorems, TLAPS

---------------------------------------------------------------------------
\* The records of a cell.
Full(c) == Expected(c[1], c[2])

\* In the payloads P the cell c is published, complete unless it was cut short.
Settled(c, P) == P[c].exists /\ P[c].data \subseteq {Full(c)}

\* What a shell in the state sh relies on: the stages it has done are settled, its input
\* is all of its source, and what it is about to publish is complete and written down.
ShellOK(w, sh, J, P) ==
    LET c == <<w[1], sh.stage>>
    IN  /\ sh.pc \notin {"off", "failed"} =>
               \A st \in 1..(sh.stage - 1) : Settled(<<w[1], st>>, P)
        /\ sh.pc = "done" => sh.stage = LastStage /\ Settled(c, P)
        /\ sh.pc = "next" => sh.stage = Detection /\ sh.out = Full(<<w[1], Generations>>)
        /\ sh.pc = "loop" =>
               /\ sh.input = Full(c)
               /\ J[c].valid => sh.existing \subseteq J[c].keys
        /\ sh.pc \in {"save", "write", "rename"} =>
               sh.out = Full(c) /\ Full(c) \subseteq J[c].keys

ShellsInv == \A w \in Workers : ShellOK(w, worker[w], journal, payload)

\* A temporary file is empty or complete.
TmpInv == \A c \in Cells : tmp[c].data \subseteq {Full(c)}

\* The script merges when its shells are done, stage by stage.
ScriptInv ==
    /\ script.pc = "waiting" => script.stage = 1
    /\ script.pc \in {"merging", "summarize", "done"} =>
           \A w \in MainShells : worker[w].pc = "done"
    /\ script.pc = "merging" => \A st \in 1..(script.stage - 1) : merged[st] = {AllRecords(st)}
    /\ script.pc \in {"summarize", "done"} => \A st \in Stages : merged[st] = {AllRecords(st)}
    /\ script.pc = "done" => summary = {merged}

IInv == TypeOK /\ PublishedIsJournalled /\ ShellsInv /\ TmpInv /\ ScriptInv

---------------------------------------------------------------------------
\* The records a shard may have to compute are finitely many.
LEMMA KeysFinite == IsFiniteSet(Keys)
  <1>1. IsFiniteSet(Samples) /\ IsFiniteSet({1, 2}) /\ IsFiniteSet(0..NumAttacks)
    <2>1. {1, 2} = {1} \cup {2}
      OBVIOUS
    <2>2. \A a, b \in Int : IsFiniteSet(a..b)
      BY FS_Interval
    <2>3. Limit - 1 \in Int /\ NumAttacks \in Int
      BY ShardsAssumption
    <2> DEFINE last == Limit - 1
    <2>4. IsFiniteSet(0..last)
      <3> HIDE DEF last
      <3> QED
        BY <2>2, <2>3 DEF last
    <2>5. IsFiniteSet(0..NumAttacks)
      BY <2>2, <2>3
    <2>6. IsFiniteSet({1} \cup {2})
      <3>1. IsFiniteSet({1})
        BY FS_Singleton
      <3> QED
        BY <3>1, FS_AddElement
    <2> QED
      BY <2>1, <2>4, <2>5, <2>6 DEF Samples
  <1>2. IsFiniteSet(Samples \X {1, 2})
    BY <1>1, FS_Product
  <1>3. IsFiniteSet((Samples \X {1, 2}) \X (0..NumAttacks))
    BY <1>1, <1>2, FS_Product
  <1> DEFINE S == (Samples \X {1, 2}) \X (0..NumAttacks)
             f == [p \in S |-> <<p[1][1], p[1][2], p[2]>>]
  <1>4. Keys = {f[p] : p \in S}
    <2>1. ASSUME NEW k \in Keys PROVE \E p \in S : f[p] = k
      <3>1. <<<<k[1], k[2]>>, k[3]>> \in S
        BY DEF Keys
      <3>2. f[<<<<k[1], k[2]>>, k[3]>>] = k
        BY <3>1 DEF Keys
      <3> QED
        BY <3>1, <3>2
    <2>2. ASSUME NEW p \in S PROVE f[p] \in Keys
      BY DEF Keys
    <2> HIDE DEF f, S
    <2> QED
      BY <2>1, <2>2
  <1>5. f \in Surjection(S, Keys)
    BY <1>4 DEF Surjection
  <1> QED
    BY <1>3, <1>5, FS_Surjection

\* The next record of a process is one it still has to compute.
LEMMA FirstIsMember ==
    ASSUME NEW S, S \subseteq Keys, S # {}
    PROVE  First(S) \in S
  <1> DEFINE A == {k[1] : k \in S}
  <1>1. A # {} /\ A \subseteq Nat
    BY ShardsAssumption DEF Keys, Samples
  <1>2. PICK a \in A : \A m \in A : a <= m
    BY <1>1, LeastNatural
  <1> DEFINE B == {k[2] : k \in {l \in S : l[1] = a}}
  <1>3. B # {} /\ B \subseteq Nat
    BY <1>2 DEF Keys
  <1>4. PICK b \in B : \A m \in B : b <= m
    BY <1>3, LeastNatural
  <1> DEFINE C == {k[3] : k \in {l \in S : l[1] = a /\ l[2] = b}}
  <1>5. C # {} /\ C \subseteq Nat
    BY <1>4 DEF Keys
  <1>6. PICK c \in C : \A m \in C : c <= m
    BY <1>5, LeastNatural
  <1>7. PICK k \in S : k[1] = a /\ k[2] = b /\ k[3] = c
    BY <1>6
  <1>8. ASSUME NEW l \in S \ {k} PROVE Before(k, l)
    <2>1. /\ k = <<k[1], k[2], k[3]>> /\ l = <<l[1], l[2], l[3]>>
          /\ l[1] \in Nat /\ l[2] \in Nat /\ l[3] \in Nat
          /\ k[1] \in Nat /\ k[2] \in Nat /\ k[3] \in Nat
      BY ShardsAssumption DEF Keys, Samples
    <2>2. a <= l[1]
      BY <1>2
    <2>3. l[1] = a => b <= l[2]
      BY <1>4
    <2>4. l[1] = a /\ l[2] = b => c <= l[3]
      BY <1>6
    <2>5. l[1] # k[1] \/ l[2] # k[2] \/ l[3] # k[3]
      BY <2>1
    <2> QED
      BY <1>7, <2>1, <2>2, <2>3, <2>4, <2>5 DEF Before
  <1> QED
    BY <1>7, <1>8 DEF First
\* What a stage has to do when its source is complete.
LEMMA SourceInCells ==
    ASSUME NEW st \in Stages, st # Generations
    PROVE  Source(st) \in 1..(st - 1)
  BY ShardsAssumption DEF Source, Stages, Generations, AttackDetection, AttackPpl, Attacks

LEMMA DerivedFull ==
    ASSUME NEW s \in Shards, NEW st \in Stages
    PROVE  /\ Derived(st, ShardItems(s)) = Expected(s, st)
           /\ st # Generations => Derived(st, Expected(s, Source(st))) = Expected(s, st)
  <1>1. Derived(st, ShardItems(s)) = Expected(s, st)
    BY DEF Expected
  <1>2. ASSUME NEW k \in Keys
        PROVE  /\ <<k[1], k[2], 0>> \in Keys
               /\ <<k[1], k[2], 0>>[1] = k[1]
               /\ <<k[1], k[2], 0>>[2] = k[2]
               /\ <<k[1], k[2], 0>>[3] = 0
    BY ShardsAssumption DEF Keys
  <1>3. Source(st) \notin PerAttack
    BY DEF Source, PerAttack, Generations, AttackDetection, AttackPpl, Attacks
  <1>4. ASSUME NEW k \in Keys
        PROVE  <<k[1], k[2], 0>> \in Expected(s, Source(st)) <=> <<k[1], k[2], 0>> \in ShardItems(s)
    BY <1>2, <1>3 DEF Expected, Derived
  <1>5. Derived(st, Expected(s, Source(st))) = Expected(s, st)
    BY <1>4 DEF Expected, Derived
  <1> QED
    BY <1>1, <1>5

LEMMA FullIsKeys == \A c : Full(c) \subseteq Keys
  BY DEF Full, Expected, Derived

LEMMA EarlierIsExpected ==
    ASSUME NEW c \in Cells
    PROVE  /\ EarlierKeys(c) \subseteq Full(c)
           /\ EarlierKeys(c) \subseteq Keys
           /\ Cardinality(EarlierKeys(c)) \in Nat
  <1>1. EarlierKeys(c) \subseteq Full(c) /\ EarlierKeys(c) \subseteq Keys
    BY FullIsKeys DEF EarlierKeys, Full
  <1>2. IsFiniteSet(EarlierKeys(c))
    BY <1>1, KeysFinite, FS_Subset
  <1> QED
    BY <1>1, <1>2, FS_CardinalityType

LEMMA InitIInv == Init => IInv
  <1> SUFFICES ASSUME Init PROVE IInv
    OBVIOUS
  <1>1. journal \in [Cells -> Journals]
    BY EarlierIsExpected DEF Init, EarlierJournal, EmptyJournal, Journals
  <1>2. payload \in [Cells -> FilesOf(SUBSET Keys, Workers)]
    BY EarlierIsExpected DEF Init, EarlierPayload, Absent, FilesOf
  <1>3. tmp \in [Cells -> FilesOf(SUBSET Keys, Workers)]
    BY DEF Init, Absent, FilesOf
  <1>4. 1 \in Stages
    BY ShardsAssumption DEF Stages
  <1>5. worker \in [Workers -> ShellStates]
    BY <1>4 DEF Init, Shell, ShellStates
  <1>6. EarlierMerged \in [Stages -> SUBSET SUBSET Keys]
    BY EarlierIsExpected DEF EarlierMerged, Cells
  <1>7. /\ merged \in [Stages -> SUBSET SUBSET Keys]
        /\ summary \in SUBSET [Stages -> SUBSET SUBSET Keys]
    BY <1>6 DEF Init
  <1>8. /\ script \in [pc : {"off", "waiting", "failed", "merging", "summarize", "done"},
                       stage : Stages]
        /\ crashes \in 0..MaxCrashes
    BY <1>4, ShardsAssumption DEF Init
  <1>9. TypeOK
    BY <1>1, <1>2, <1>3, <1>5, <1>7, <1>8 DEF TypeOK
  <1>10. PublishedIsJournalled
    BY EarlierIsExpected DEF Init, PublishedIsJournalled, OnlyJournalled, EarlierJournal,
       EmptyJournal, EarlierPayload, Absent, Full
  <1>11. ShellsInv
    BY DEF Init, ShellsInv, ShellOK, Shell
  <1>12. TmpInv
    BY DEF Init, TmpInv, Absent
  <1>13. ScriptInv
    BY DEF Init, ScriptInv
  <1> QED
    BY <1>9, <1>10, <1>11, <1>12, <1>13 DEF IInv

---------------------------------------------------------------------------
\* A cell a shell has its hands on.
LEMMA CellType ==
    ASSUME NEW w \in Workers, NEW st \in Stages
    PROVE  <<w[1], st>> \in Cells /\ w[1] \in Shards /\ w = <<w[1], w[2]>>
  BY DEF Workers, Cells

\* The journals only grow, a broken one stays broken, what is settled stays settled.
FilesKeep ==
    \A c \in Cells :
        /\ journal[c].keys \subseteq journal'[c].keys
        /\ journal'[c].valid => journal[c].valid
        /\ Settled(c, payload) => Settled(c, payload')

\* What a shell relies on, it can rely on as the files grow.
LEMMA ShellKeeps ==
    ASSUME NEW w \in Workers, NEW sh \in ShellStates, NEW J, NEW K, NEW P, NEW Q,
           ShellOK(w, sh, J, P),
           \A c \in Cells :
               /\ J[c].keys \subseteq K[c].keys
               /\ K[c].valid => J[c].valid
               /\ Settled(c, P) => Settled(c, Q)
    PROVE  ShellOK(w, sh, K, Q)
  <1>1. sh.stage \in Stages /\ <<w[1], sh.stage>> \in Cells
    BY CellType DEF ShellStates
  <1>2. \A st \in 1..(sh.stage - 1) : st \in Stages /\ <<w[1], st>> \in Cells
    BY <1>1, CellType, ShardsAssumption DEF Stages
  <1> QED
    BY <1>1, <1>2 DEF ShellOK

\* A step of one shell: the others keep what they rely on, and the script what it has seen.
LEMMA ShellMoves ==
    ASSUME IInv, NEW w \in Workers, TypeOK', FilesKeep,
           PublishedIsJournalled', TmpInv',
           \A v \in Workers \ {w} : worker'[v] = worker[v],
           w \in MainShells => worker[w].pc # "done",
           ShellOK(w, worker'[w], journal', payload'),
           UNCHANGED <<script, results>>
    PROVE  IInv'
  <1>1. ASSUME NEW v \in Workers
        PROVE  ShellOK(v, worker'[v], journal', payload')
    <2>1. CASE v = w
      BY <2>1
    <2>2. CASE v # w
      <3>1. worker'[v] = worker[v] /\ worker[v] \in ShellStates
        BY <2>2 DEF IInv, TypeOK
      <3>2. ShellOK(v, worker[v], journal, payload)
        BY DEF IInv, ShellsInv
      <3>3. ShellOK(v, worker[v], journal', payload')
        BY <3>1, <3>2, ShellKeeps DEF FilesKeep
      <3> QED
        BY <3>1, <3>3
    <2> QED
      BY <2>1, <2>2
  <1>2. ShellsInv'
    BY <1>1 DEF ShellsInv
  <1>3. ScriptInv'
    <2>1. script' = script /\ merged' = merged /\ summary' = summary
      BY DEF results
    <2>2. ASSUME script.pc \in {"merging", "summarize", "done"}, NEW v \in MainShells
          PROVE  worker'[v].pc = "done"
      <3>1. v \in Workers
        BY ShardsAssumption DEF MainShells, Workers
      <3>2. worker[v].pc = "done"
        BY <2>2 DEF IInv, ScriptInv
      <3> QED
        BY <3>1, <3>2
    <2> QED
      BY <2>1, <2>2 DEF IInv, ScriptInv
  <1> QED
    BY <1>2, <1>3 DEF IInv

\* The same when the step leaves the files alone.
LEMMA OnlyShellMoves ==
    ASSUME IInv, NEW w \in Workers,
           worker' = [worker EXCEPT ![w] = worker'[w]],
           worker'[w] \in ShellStates,
           w \in MainShells => worker[w].pc # "done",
           ShellOK(w, worker'[w], journal, payload),
           UNCHANGED <<files, script, results, crashes>>
    PROVE  IInv'
  <1>1. journal' = journal /\ payload' = payload /\ tmp' = tmp
    BY DEF files
  <1>2. /\ worker' \in [Workers -> ShellStates]
        /\ \A v \in Workers \ {w} : worker'[v] = worker[v]
    BY DEF IInv, TypeOK
  <1>3. TypeOK'
    BY <1>1, <1>2 DEF IInv, TypeOK, results
  <1>4. FilesKeep
    BY <1>1 DEF FilesKeep
  <1>5. PublishedIsJournalled' /\ TmpInv'
    BY <1>1 DEF IInv, PublishedIsJournalled, OnlyJournalled, TmpInv
  <1>6. ShellOK(w, worker'[w], journal', payload')
    BY <1>1, <1>2
  <1> QED
    BY <1>2, <1>3, <1>4, <1>5, <1>6, ShellMoves

\* What is known of a shell before its step.
LEMMA ShellBefore ==
    ASSUME IInv, NEW w \in Workers
    PROVE  /\ worker[w] \in ShellStates
           /\ worker[w].stage \in Stages
           /\ Cell(w) = <<w[1], worker[w].stage>>
           /\ Cell(w) \in Cells
           /\ w[1] \in Shards
           /\ ShellOK(w, worker[w], journal, payload)
  BY CellType DEF IInv, TypeOK, ShellsInv, ShellStates, Cell

LEMMA StartProcessIInv ==
    ASSUME IInv, NEW w \in Workers, StartProcess(w)
    PROVE  IInv'
  <1>1. worker' = [worker EXCEPT ![w].pc = "start"]
    BY DEF StartProcess, Goto
  <1>2. /\ worker[w] \in ShellStates /\ worker[w].pc = "gap"
        /\ ShellOK(w, worker[w], journal, payload)
    BY ShellBefore DEF StartProcess
  <1>3. worker'[w] = [worker[w] EXCEPT !.pc = "start"]
    BY <1>1 DEF IInv, TypeOK
  <1>4. worker'[w] \in ShellStates
    BY <1>2, <1>3 DEF ShellStates, Busy
  <1>5. ShellOK(w, worker'[w], journal, payload)
    BY <1>2, <1>3 DEF ShellOK, ShellStates
  <1>6. worker' = [worker EXCEPT ![w] = worker'[w]]
    BY <1>1, <1>3 DEF IInv, TypeOK
  <1> QED
    BY <1>2, <1>4, <1>5, <1>6, OnlyShellMoves DEF StartProcess

\* A shell that stops relies on nothing.
LEMMA FailsIInv ==
    ASSUME IInv, NEW w \in Workers, worker[w].pc \in Busy, Fails(w),
           UNCHANGED <<files, script, results, crashes>>
    PROVE  IInv'
  <1>1. worker'[w] = Shell("failed", worker[w].stage)
    BY DEF Fails, IInv, TypeOK
  <1>2. worker' = [worker EXCEPT ![w] = worker'[w]]
    BY <1>1 DEF Fails
  <1>3. worker'[w] \in ShellStates
    BY <1>1, ShellBefore DEF Shell, ShellStates
  <1>4. ShellOK(w, worker'[w], journal, payload)
    BY <1>1 DEF Shell, ShellOK
  <1> QED
    BY <1>2, <1>3, <1>4, OnlyShellMoves DEF Busy

LEMMA BeginStageIInv ==
    ASSUME IInv, NEW w \in Workers, BeginStage(w)
    PROVE  IInv'
  <1> DEFINE st == worker[w].stage
  <1>1. PICK S \in InputsOf(w) :
           worker' = [worker EXCEPT ![w] =
               [Shell("loop", @.stage) EXCEPT !.input = Derived(worker[w].stage, S),
                                              !.existing = journal[Cell(w)].keys]]
    BY DEF BeginStage
  <1>2. /\ worker[w].pc \in {"start", "next"}
        /\ UNCHANGED <<files, script, results, crashes>>
    BY DEF BeginStage
  <1>3. worker'[w] = [pc |-> "loop", stage |-> st, input |-> Derived(st, S),
                      existing |-> journal[Cell(w)].keys, out |-> {}]
    BY <1>1 DEF IInv, TypeOK, Shell
  <1>4. worker' = [worker EXCEPT ![w] = worker'[w]]
    BY <1>1 DEF IInv, TypeOK
  <1>5. journal[Cell(w)].keys \in SUBSET Keys
    BY ShellBefore DEF IInv, TypeOK, Journals
  <1>6. worker'[w] \in ShellStates
    BY <1>3, <1>5, ShellBefore DEF ShellStates, Busy, Derived
  <1>7. Derived(st, S) = Expected(w[1], st)
    <2>1. CASE worker[w].pc = "next"
      <3>1. st = Detection /\ S = Expected(w[1], Generations)
        BY <2>1, ShellBefore DEF ShellOK, InputsOf, Full
      <3>2. Detection # Generations /\ Source(Detection) = Generations
        BY DEF Detection, Generations, Source, AttackDetection, AttackPpl
      <3> QED
        BY <3>1, <3>2, DerivedFull, ShellBefore
    <2>2. CASE worker[w].pc = "start" /\ st = Generations
      <3>1. S = ShardItems(w[1])
        BY <2>2 DEF InputsOf
      <3> QED
        BY <3>1, DerivedFull, ShellBefore
    <2>3. CASE worker[w].pc = "start" /\ st # Generations
      <3>1. S \in payload[<<w[1], Source(st)>>].data
        BY <2>3 DEF InputsOf
      <3>2. Source(st) \in 1..(st - 1)
        BY <2>3, SourceInCells, ShellBefore
      <3>3. Settled(<<w[1], Source(st)>>, payload)
        BY <2>3, <3>2, ShellBefore DEF ShellOK
      <3>4. S = Expected(w[1], Source(st))
        BY <3>1, <3>3 DEF Settled, Full
      <3> QED
        BY <2>3, <3>4, DerivedFull, ShellBefore
    <2> QED
      BY <1>2, <2>1, <2>2, <2>3
  <1>8. \A i \in 1..(st - 1) : Settled(<<w[1], i>>, payload)
    BY <1>2, ShellBefore DEF ShellOK
  <1>9. ShellOK(w, worker'[w], journal, payload)
    BY <1>3, <1>7, <1>8, ShellBefore DEF ShellOK, Full
  <1> QED
    BY <1>2, <1>4, <1>6, <1>9, OnlyShellMoves

\* The keys of a journal after the write of a line: one more, or the line is lost.
LEMMA LineWritten ==
    ASSUME NEW j \in Journals, NEW k \in Keys
    PROVE  /\ WriteLine(j, k) \in Journals
           /\ j.keys \subseteq WriteLine(j, k).keys
           /\ WriteLine(j, k).keys \subseteq j.keys \cup {k}
           /\ WriteLine(j, k).valid => j.valid /\ k \in WriteLine(j, k).keys
  <1>1. /\ j.keys \in SUBSET Keys /\ j.lines \in Nat
        /\ j.valid \in BOOLEAN /\ j.ended \in BOOLEAN
        /\ j = [keys |-> j.keys, lines |-> j.lines, valid |-> j.valid, ended |-> j.ended]
    BY DEF Journals
  <1>2. CASE j.ended
    <2>1. WriteLine(j, k) = [keys |-> j.keys \cup {k}, lines |-> j.lines + 1,
                             valid |-> j.valid, ended |-> j.ended]
      BY <1>1, <1>2 DEF WriteLine
    <2>2. j.keys \cup {k} \in SUBSET Keys /\ j.lines + 1 \in Nat
      BY <1>1
    <2> QED
      BY <1>1, <2>1, <2>2 DEF Journals
  <1>3. CASE ~j.ended
    <2>1. WriteLine(j, k) = [keys |-> j.keys, lines |-> j.lines, valid |-> FALSE, ended |-> TRUE]
      BY <1>1, <1>3 DEF WriteLine
    <2> QED
      BY <1>1, <2>1 DEF Journals
  <1> QED
    BY <1>2, <1>3

LEMMA PartWritten ==
    ASSUME NEW j \in Journals, NEW k \in Keys, NEW p \in WritePart(j, k)
    PROVE  /\ p \in Journals
           /\ j.keys \subseteq p.keys
           /\ p.keys \subseteq j.keys \cup {k}
           /\ p.valid => j.valid
  <1>1. j.keys \in SUBSET Keys /\ j.lines \in Nat /\ j.ended \in BOOLEAN
    BY DEF Journals
  <1>2. CASE p = [j EXCEPT !.lines = IF j.ended THEN @ + 1 ELSE @, !.valid = FALSE, !.ended = FALSE]
    <2>1. PICK n \in Nat : p = [keys |-> j.keys, lines |-> n, valid |-> FALSE, ended |-> FALSE]
      <3>1. (IF j.ended THEN j.lines + 1 ELSE j.lines) \in Nat
        BY <1>1
      <3>2. j = [keys |-> j.keys, lines |-> j.lines, valid |-> j.valid, ended |-> j.ended]
        BY DEF Journals
      <3> DEFINE n == IF j.ended THEN j.lines + 1 ELSE j.lines
      <3>3. p = [j EXCEPT !.lines = n, !.valid = FALSE, !.ended = FALSE]
        BY <1>2
      <3> HIDE DEF n
      <3>4. p = [keys |-> j.keys, lines |-> n, valid |-> FALSE, ended |-> FALSE]
        BY <3>2, <3>3
      <3> QED
        BY <3>1, <3>4 DEF n
    <2> QED
      BY <1>1, <2>1 DEF Journals
  <1>3. CASE j.ended /\ p = [WriteLine(j, k) EXCEPT !.ended = FALSE]
    <2> DEFINE l == WriteLine(j, k)
    <2>1. l \in Journals /\ j.keys \subseteq l.keys /\ l.keys \subseteq j.keys \cup {k}
          /\ (l.valid => j.valid)
      BY LineWritten
    <2>2. p = [l EXCEPT !.ended = FALSE]
      BY <1>3
    <2> HIDE DEF l
    <2>3. p = [keys |-> l.keys, lines |-> l.lines, valid |-> l.valid, ended |-> FALSE]
      BY <2>1, <2>2 DEF Journals
    <2>4. /\ l.keys \in SUBSET Keys /\ l.lines \in Nat
          /\ l.valid \in BOOLEAN
      BY <2>1 DEF Journals
    <2>5. p \in Journals
      BY <2>3, <2>4 DEF Journals
    <2>6. p.keys = l.keys /\ p.valid = l.valid
      BY <2>3
    <2> QED
      BY <2>1, <2>5, <2>6
  <1> QED
    BY <1>2, <1>3 DEF WritePart

\* What a change of journals that adds expected records keeps.
LEMMA JournalGrows ==
    ASSUME IInv, NEW c \in Cells, NEW k \in Full(c),
           journal' = [journal EXCEPT ![c] = journal'[c]],
           journal'[c] \in Journals,
           journal[c].keys \subseteq journal'[c].keys,
           journal'[c].keys \subseteq journal[c].keys \cup {k},
           journal'[c].valid => journal[c].valid,
           \A d \in Cells : /\ payload'[d].data = payload[d].data
                            /\ payload'[d].exists = payload[d].exists
                            /\ tmp'[d].data = tmp[d].data
    PROVE  /\ journal' \in [Cells -> Journals]
           /\ FilesKeep
           /\ PublishedIsJournalled'
           /\ TmpInv'
  <1>1. /\ journal' \in [Cells -> Journals]
        /\ \A d \in Cells \ {c} : journal'[d] = journal[d]
    BY DEF IInv, TypeOK
  <1>2. \A d \in Cells : /\ journal[d].keys \subseteq journal'[d].keys
                         /\ journal'[d].valid => journal[d].valid
                         /\ journal'[d].keys \subseteq Full(d)
    BY <1>1 DEF IInv, PublishedIsJournalled, Full
  <1>3. FilesKeep
    BY <1>2 DEF FilesKeep, Settled
  <1>4. PublishedIsJournalled'
    BY <1>2 DEF IInv, PublishedIsJournalled, OnlyJournalled, Full
  <1>5. TmpInv'
    BY DEF IInv, TmpInv
  <1> QED
    BY <1>1, <1>3, <1>4, <1>5

LEMMA FirstToDo ==
    ASSUME IInv, NEW w \in Workers, worker[w].pc = "loop", Todo(w) # {}
    PROVE  First(Todo(w)) \in Full(Cell(w)) /\ First(Todo(w)) \in Keys
  <1>1. worker[w].input = Full(Cell(w))
    BY ShellBefore DEF ShellOK
  <1>2. Todo(w) \subseteq Full(Cell(w)) /\ Todo(w) \subseteq Keys
    BY <1>1, FullIsKeys DEF Todo
  <1> QED
    BY <1>2, FirstIsMember

LEMMA AppendRecordIInv ==
    ASSUME IInv, NEW w \in Workers, AppendRecord(w)
    PROVE  IInv'
  <1> DEFINE k == First(Todo(w))
             c == Cell(w)
  <1>1. /\ worker[w].pc = "loop" /\ Todo(w) # {}
        /\ journal' = [journal EXCEPT ![c] = WriteLine(@, k)]
        /\ worker' = [worker EXCEPT ![w].existing = @ \cup {k}]
        /\ UNCHANGED <<payload, tmp, script, results, crashes>>
    BY DEF AppendRecord
  <1>2. k \in Full(c) /\ k \in Keys
    BY <1>1, FirstToDo
  <1>3. c \in Cells /\ journal[c] \in Journals /\ c = <<w[1], worker[w].stage>>
    BY ShellBefore DEF IInv, TypeOK
  <1> HIDE DEF k
  <1>4. journal'[c] = WriteLine(journal[c], k)
    BY <1>1, <1>3 DEF IInv, TypeOK
  <1>5. journal' = [journal EXCEPT ![c] = journal'[c]]
    BY <1>1, <1>4, <1>3 DEF IInv, TypeOK
  <1>6. /\ journal' \in [Cells -> Journals]
        /\ FilesKeep /\ PublishedIsJournalled' /\ TmpInv'
    <2>1. /\ journal'[c] \in Journals
          /\ journal[c].keys \subseteq journal'[c].keys
          /\ journal'[c].keys \subseteq journal[c].keys \cup {k}
          /\ journal'[c].valid => journal[c].valid
      BY <1>2, <1>3, <1>4, LineWritten
    <2>2. \A d \in Cells : /\ payload'[d].data = payload[d].data
                           /\ payload'[d].exists = payload[d].exists
                           /\ tmp'[d].data = tmp[d].data
      BY <1>1
    <2> HIDE DEF c
    <2> QED
      BY <1>2, <1>3, <1>5, <2>1, <2>2, JournalGrows
  <1>7. worker'[w] = [worker[w] EXCEPT !.existing = @ \cup {k}]
    BY <1>1 DEF IInv, TypeOK
  <1>8. worker'[w] \in ShellStates
    BY <1>2, <1>7, ShellBefore DEF ShellStates
  <1>9. /\ worker' \in [Workers -> ShellStates]
        /\ \A v \in Workers \ {w} : worker'[v] = worker[v]
    BY <1>1, <1>8 DEF IInv, TypeOK
  <1>10. TypeOK'
    BY <1>1, <1>6, <1>9 DEF IInv, TypeOK, results
  <1>11. ShellOK(w, worker'[w], journal', payload')
    <2>1. /\ worker'[w].pc = "loop" /\ worker'[w].stage = worker[w].stage
          /\ worker'[w].input = worker[w].input
          /\ worker'[w].existing = worker[w].existing \cup {k}
      BY <1>1, <1>7, ShellBefore DEF ShellStates
    <2>2. ShellOK(w, worker[w], journal', payload)
      <3>1. \A d \in Cells : /\ journal[d].keys \subseteq journal'[d].keys
                             /\ journal'[d].valid => journal[d].valid
        BY <1>6 DEF FilesKeep
      <3> QED
        BY <3>1, ShellBefore, ShellKeeps
    <2>3. journal'[c].valid => k \in journal'[c].keys
      BY <1>2, <1>3, <1>4, LineWritten
    <2> QED
      BY <1>1, <1>3, <2>1, <2>2, <2>3 DEF ShellOK
  <1> QED
    BY <1>1, <1>6, <1>9, <1>10, <1>11, ShellMoves

\* A process that has no record left to compute has a complete journal, if all its lines
\* are whole: what it collects is every record of the cell.
LEMMA CollectRecordsIInv ==
    ASSUME IInv, NEW w \in Workers, CollectRecords(w)
    PROVE  IInv'
  <1> DEFINE c == Cell(w)
             out == (UNION payload[c].data) \cup journal[c].keys
  <1>1. /\ worker[w].pc = "loop" /\ Todo(w) = {}
        /\ journal[c].valid
        /\ worker' = [worker EXCEPT ![w] = [Shell("save", @.stage) EXCEPT !.out = out]]
        /\ UNCHANGED <<files, script, results, crashes>>
    BY DEF CollectRecords
  <1>2. worker'[w] = [pc |-> "save", stage |-> worker[w].stage, input |-> {},
                      existing |-> {}, out |-> out]
    BY <1>1 DEF IInv, TypeOK, Shell
  <1>3. Full(c) \subseteq journal[c].keys
    <2>1. worker[w].input = Full(c) /\ worker[w].existing \subseteq journal[c].keys
      BY <1>1, ShellBefore DEF ShellOK
    <2> QED
      BY <1>1, <2>1 DEF Todo
  <1>4. journal[c].keys \subseteq Full(c) /\ OnlyJournalled(c, payload[c])
    BY ShellBefore DEF IInv, PublishedIsJournalled, Full
  <1>5. out = Full(c)
    BY <1>3, <1>4 DEF OnlyJournalled
  <1>6. worker'[w] \in ShellStates
    BY <1>2, <1>5, ShellBefore, FullIsKeys DEF ShellStates, Busy
  <1>7. \A st \in 1..(worker[w].stage - 1) : Settled(<<w[1], st>>, payload)
    BY <1>1, ShellBefore DEF ShellOK
  <1>8. ShellOK(w, worker'[w], journal, payload)
    <2>1. /\ worker'[w].pc = "save" /\ worker'[w].stage = worker[w].stage
          /\ worker'[w].out = Full(c)
      BY <1>2, <1>5
    <2>2. c = <<w[1], worker[w].stage>>
      BY ShellBefore
    <2> HIDE DEF c
    <2> QED
      BY <1>3, <1>7, <2>1, <2>2 DEF ShellOK
  <1>9. worker' = [worker EXCEPT ![w] = worker'[w]]
    BY <1>1, <1>2 DEF IInv, TypeOK
  <1> QED
    BY <1>1, <1>6, <1>8, <1>9, OnlyShellMoves

---------------------------------------------------------------------------
\* What the operations on a file keep.
LEMMA FileOperations ==
    ASSUME NEW f \in FilesOf(SUBSET Keys, Workers), NEW w \in Workers, NEW S \in SUBSET Keys
    PROVE  /\ OpenFile(f, w) \in FilesOf(SUBSET Keys, Workers)
           /\ OpenFile(f, w).data = {}
           /\ WriteFile(f, w, S) \in FilesOf(SUBSET Keys, Workers)
           /\ WriteFile(f, w, S).data \subseteq f.data \cup {S}
           /\ WriteFile(f, w, S).exists = f.exists
           /\ CloseFile(f, w) \in FilesOf(SUBSET Keys, Workers)
           /\ CloseFile(f, w).data = f.data
           /\ CloseFile(f, w).exists = f.exists
           /\ Absent \in FilesOf(SUBSET Keys, Workers)
           /\ Absent.data = {}
  <1>1. /\ f.exists \in BOOLEAN /\ f.data \in SUBSET SUBSET Keys /\ f.writers \in SUBSET Workers
        /\ f = [exists |-> f.exists, data |-> f.data, writers |-> f.writers]
    BY DEF FilesOf
  <1>2. CloseFile(f, w) = [exists |-> f.exists, data |-> f.data, writers |-> f.writers \ {w}]
    BY DEF CloseFile, FilesOf
  <1>3. w \in f.writers =>
           WriteFile(f, w, S) = [exists |-> f.exists, data |-> {S}, writers |-> f.writers \ {w}]
    BY <1>1 DEF WriteFile
  <1>4. w \notin f.writers => WriteFile(f, w, S) = f
    BY DEF WriteFile
  <1>5. f.writers \ {w} \in SUBSET Workers /\ f.writers \cup {w} \in SUBSET Workers
        /\ {S} \in SUBSET SUBSET Keys
    BY <1>1
  <1>6. CloseFile(f, w) \in FilesOf(SUBSET Keys, Workers)
    BY <1>1, <1>2, <1>5 DEF FilesOf
  <1>7. WriteFile(f, w, S) \in FilesOf(SUBSET Keys, Workers)
    BY <1>1, <1>3, <1>4, <1>5 DEF FilesOf
  <1>8. OpenFile(f, w) \in FilesOf(SUBSET Keys, Workers)
    BY <1>5 DEF OpenFile, FilesOf
  <1>9. Absent \in FilesOf(SUBSET Keys, Workers)
    BY DEF Absent, FilesOf
  <1> QED
    BY <1>2, <1>3, <1>4, <1>6, <1>7, <1>8, <1>9 DEF OpenFile, Absent

\* What a change of payloads and temporary files keeps, if it only puts complete and
\* journalled records anywhere new.
LEMMA PayloadsChange ==
    ASSUME IInv, journal' = journal,
           \A d \in Cells : \A S \in tmp'[d].data :
               S \in tmp[d].data \/ (S = Full(d) /\ Full(d) \subseteq journal[d].keys),
           \A d \in Cells : \A S \in payload'[d].data :
               S \in payload[d].data \/ (S = Full(d) /\ Full(d) \subseteq journal[d].keys),
           \A d \in Cells : payload[d].exists => payload'[d].exists
    PROVE  FilesKeep /\ PublishedIsJournalled' /\ TmpInv'
  <1>1. FilesKeep
    BY DEF FilesKeep, Settled
  <1>2. PublishedIsJournalled'
    BY DEF IInv, PublishedIsJournalled, OnlyJournalled
  <1>3. TmpInv'
    BY DEF IInv, TmpInv
  <1> QED
    BY <1>1, <1>2, <1>3

\* A shell that goes on in the same stage.
LEMMA ShellGoes ==
    ASSUME IInv, NEW w \in Workers, NEW pc \in Busy, Goto(w, pc),
           worker[w].pc # "done"
    PROVE  /\ worker' \in [Workers -> ShellStates]
           /\ \A v \in Workers \ {w} : worker'[v] = worker[v]
           /\ worker'[w] = [worker[w] EXCEPT !.pc = pc]
           /\ worker'[w].pc = pc /\ worker'[w].stage = worker[w].stage
           /\ worker'[w].out = worker[w].out
  <1>1. worker'[w] = [worker[w] EXCEPT !.pc = pc]
    BY DEF IInv, TypeOK, Goto
  <1>2. worker'[w] \in ShellStates
    BY <1>1, ShellBefore DEF ShellStates
  <1>3. worker' \in [Workers -> ShellStates]
        /\ \A v \in Workers \ {w} : worker'[v] = worker[v]
    BY <1>2 DEF IInv, TypeOK, Goto
  <1>4. /\ worker'[w].pc = pc /\ worker'[w].stage = worker[w].stage
        /\ worker'[w].out = worker[w].out
    BY <1>1, ShellBefore DEF ShellStates
  <1> QED
    BY <1>1, <1>3, <1>4

LEMMA OpenTmpIInv ==
    ASSUME IInv, NEW w \in Workers, OpenTmp(w)
    PROVE  IInv'
  <1> DEFINE c == Cell(w)
  <1>1. /\ worker[w].pc = "save" /\ Goto(w, "write")
        /\ tmp' = [tmp EXCEPT ![c] = OpenFile(@, w)]
        /\ UNCHANGED <<journal, payload, script, results, crashes>>
    BY DEF OpenTmp
  <1>2. c \in Cells /\ c = <<w[1], worker[w].stage>> /\ ShellOK(w, worker[w], journal, payload)
    BY ShellBefore
  <1>3. OpenFile(tmp[c], w) \in FilesOf(SUBSET Keys, Workers) /\ OpenFile(tmp[c], w).data = {}
    BY <1>2, FileOperations DEF IInv, TypeOK
  <1>4. /\ tmp' \in [Cells -> FilesOf(SUBSET Keys, Workers)]
        /\ \A d \in Cells : \A S \in tmp'[d].data : S \in tmp[d].data
    BY <1>1, <1>2, <1>3 DEF IInv, TypeOK
  <1>5. FilesKeep /\ PublishedIsJournalled' /\ TmpInv'
    <2>1. \A d \in Cells : /\ payload[d].exists => payload'[d].exists
                           /\ \A S \in payload'[d].data : S \in payload[d].data
      BY <1>1
    <2> QED
      BY <1>1, <1>4, <2>1, PayloadsChange
  <1>6. /\ worker' \in [Workers -> ShellStates]
        /\ \A v \in Workers \ {w} : worker'[v] = worker[v]
        /\ worker'[w].pc = "write" /\ worker'[w].stage = worker[w].stage
        /\ worker'[w].out = worker[w].out
    BY <1>1, ShellGoes DEF Busy
  <1>7. TypeOK'
    BY <1>1, <1>4, <1>6 DEF IInv, TypeOK, results
  <1>8. ShellOK(w, worker'[w], journal', payload')
    <2> HIDE DEF c
    <2> QED
      BY <1>1, <1>2, <1>6 DEF ShellOK
  <1> QED
    BY <1>1, <1>5, <1>6, <1>7, <1>8, ShellMoves

LEMMA WriteTmpIInv ==
    ASSUME IInv, NEW w \in Workers, WriteTmp(w)
    PROVE  IInv'
  <1> DEFINE c == Cell(w)
             out == worker[w].out
  <1>1. /\ worker[w].pc = "write" /\ Goto(w, "rename")
        /\ tmp' = [tmp EXCEPT ![c] = WriteFile(@, w, out)]
        /\ payload' = [payload EXCEPT ![c] = WriteFile(@, w, out)]
        /\ UNCHANGED <<journal, script, results, crashes>>
    BY DEF WriteTmp
  <1>2. c \in Cells /\ c = <<w[1], worker[w].stage>> /\ ShellOK(w, worker[w], journal, payload)
    BY ShellBefore
  <1>3. out = Full(c) /\ Full(c) \subseteq journal[c].keys /\ out \in SUBSET Keys
    BY <1>1, <1>2, FullIsKeys DEF ShellOK
  <1> HIDE DEF out, c
  <1>4. /\ tmp' \in [Cells -> FilesOf(SUBSET Keys, Workers)]
        /\ \A d \in Cells : \A S \in tmp'[d].data :
               S \in tmp[d].data \/ (S = Full(d) /\ Full(d) \subseteq journal[d].keys)
    <2>1. tmp[c] \in FilesOf(SUBSET Keys, Workers)
      BY <1>2 DEF IInv, TypeOK
    <2>2. /\ WriteFile(tmp[c], w, out) \in FilesOf(SUBSET Keys, Workers)
          /\ WriteFile(tmp[c], w, out).data \subseteq tmp[c].data \cup {out}
      BY <1>3, <2>1, FileOperations
    <2>3. /\ tmp' \in [Cells -> FilesOf(SUBSET Keys, Workers)]
          /\ tmp'[c].data \subseteq tmp[c].data \cup {out}
          /\ \A d \in Cells \ {c} : tmp'[d] = tmp[d]
      BY <1>1, <1>2, <2>2 DEF IInv, TypeOK
    <2>4. ASSUME NEW d \in Cells, NEW S \in tmp'[d].data
          PROVE  S \in tmp[d].data \/ (S = Full(d) /\ Full(d) \subseteq journal[d].keys)
      BY <1>3, <2>3
    <2> QED
      BY <2>3, <2>4
  <1>5. /\ payload' \in [Cells -> FilesOf(SUBSET Keys, Workers)]
        /\ \A d \in Cells : payload[d].exists => payload'[d].exists
        /\ \A d \in Cells : \A S \in payload'[d].data :
               S \in payload[d].data \/ (S = Full(d) /\ Full(d) \subseteq journal[d].keys)
    <2>1. payload[c] \in FilesOf(SUBSET Keys, Workers)
      BY <1>2 DEF IInv, TypeOK
    <2>2. /\ WriteFile(payload[c], w, out) \in FilesOf(SUBSET Keys, Workers)
          /\ WriteFile(payload[c], w, out).data \subseteq payload[c].data \cup {out}
          /\ WriteFile(payload[c], w, out).exists = payload[c].exists
      <3> DEFINE f == payload[c]
      <3> HIDE DEF f
      <3>1. f \in FilesOf(SUBSET Keys, Workers)
        BY <2>1 DEF f
      <3>2. /\ WriteFile(f, w, out) \in FilesOf(SUBSET Keys, Workers)
            /\ WriteFile(f, w, out).data \subseteq f.data \cup {out}
        BY <1>3, <3>1, FileOperations
      <3>3. WriteFile(f, w, out).exists = f.exists
        BY DEF WriteFile
      <3> QED
        BY <3>2, <3>3 DEF f
    <2>3. /\ payload' \in [Cells -> FilesOf(SUBSET Keys, Workers)]
          /\ payload'[c].data \subseteq payload[c].data \cup {out}
          /\ payload'[c].exists = payload[c].exists
          /\ \A d \in Cells \ {c} : payload'[d] = payload[d]
      BY <1>1, <1>2, <2>2 DEF IInv, TypeOK
    <2> QED
      BY <1>3, <2>3
  <1>6. FilesKeep /\ PublishedIsJournalled' /\ TmpInv'
    BY <1>1, <1>4, <1>5, PayloadsChange
  <1>7. /\ worker' \in [Workers -> ShellStates]
        /\ \A v \in Workers \ {w} : worker'[v] = worker[v]
        /\ worker'[w].pc = "rename" /\ worker'[w].stage = worker[w].stage
        /\ worker'[w].out = worker[w].out
    BY <1>1, ShellGoes DEF Busy
  <1>8. TypeOK'
    BY <1>1, <1>4, <1>5, <1>7 DEF IInv, TypeOK, results
  <1>9. ShellOK(w, worker'[w], journal', payload')
    <2>1. ShellOK(w, worker[w], journal', payload')
      BY <1>2, <1>6, ShellBefore, ShellKeeps DEF FilesKeep
    <2> QED
      BY <1>1, <1>2, <1>7, <2>1 DEF ShellOK
  <1> QED
    BY <1>1, <1>6, <1>7, <1>8, <1>9, ShellMoves

\* The shell after a stage: its next process, its next stage or its end.
LEMMA AfterStageOK ==
    ASSUME NEW w \in Workers, worker[w] \in ShellStates, worker[w].pc = "rename",
           NEW J, NEW P, ShellOK(w, worker[w], J, P),
           Settled(<<w[1], worker[w].stage>>, P)
    PROVE  /\ AfterStage(w) \in ShellStates
           /\ ShellOK(w, AfterStage(w), J, P)
  <1> DEFINE st == worker[w].stage
  <1>1. st \in Stages /\ worker[w].out \in SUBSET Keys
    BY DEF ShellStates
  <1>2. /\ Stages = 1..LastStage /\ LastStage \in 2..6
        /\ Generations = 1 /\ Detection = 2
    BY ShardsAssumption DEF Stages, Generations, Detection
  <1>3. \A i \in 1..st : Settled(<<w[1], i>>, P)
    <2>1. \A i \in 1..(st - 1) : Settled(<<w[1], i>>, P)
      BY DEF ShellOK
    <2> QED
      BY <1>1, <1>2, <2>1
  <1>4. worker[w].out = Full(<<w[1], st>>)
    BY DEF ShellOK
  <1>5. CASE st = Generations
    <2>1. AfterStage(w) = [pc |-> "next", stage |-> Detection, input |-> {}, existing |-> {},
                           out |-> worker[w].out]
      BY <1>5 DEF AfterStage, Shell
    <2>2. AfterStage(w) \in ShellStates
      BY <1>1, <1>2, <2>1 DEF ShellStates, Busy
    <2>3. ShellOK(w, AfterStage(w), J, P)
      BY <1>2, <1>3, <1>4, <1>5, <2>1 DEF ShellOK
    <2> QED
      BY <2>2, <2>3
  <1>6. CASE st # Generations /\ st = LastStage
    <2>1. AfterStage(w) = [pc |-> "done", stage |-> LastStage, input |-> {}, existing |-> {},
                           out |-> {}]
      BY <1>6 DEF AfterStage, Shell
    <2>2. AfterStage(w) \in ShellStates
      BY <1>2, <2>1 DEF ShellStates
    <2>3. ShellOK(w, AfterStage(w), J, P)
      BY <1>2, <1>3, <1>6, <2>1 DEF ShellOK
    <2> QED
      BY <2>2, <2>3
  <1>7. CASE st # Generations /\ st # LastStage
    <2>1. AfterStage(w) = [pc |-> "gap", stage |-> st + 1, input |-> {}, existing |-> {},
                           out |-> {}]
      BY <1>7 DEF AfterStage, Shell
    <2>2. st + 1 \in Stages /\ (st + 1) - 1 = st
      BY <1>1, <1>2, <1>7
    <2>3. AfterStage(w) \in ShellStates
      BY <2>1, <2>2 DEF ShellStates
    <2>4. ShellOK(w, AfterStage(w), J, P)
      BY <1>3, <2>1, <2>2 DEF ShellOK
    <2> QED
      BY <2>3, <2>4
  <1> QED
    BY <1>5, <1>6, <1>7

LEMMA ReplacePayloadIInv ==
    ASSUME IInv, NEW w \in Workers, ReplacePayload(w)
    PROVE  IInv'
  <1> DEFINE c == Cell(w)
  <1>1. /\ worker[w].pc = "rename" /\ tmp[c].exists
        /\ payload' = [payload EXCEPT ![c] = tmp[c]]
        /\ tmp' = [tmp EXCEPT ![c] = Absent]
        /\ worker' = [worker EXCEPT ![w] = AfterStage(w)]
        /\ UNCHANGED <<journal, script, results, crashes>>
    BY DEF ReplacePayload
  <1>2. c \in Cells /\ c = <<w[1], worker[w].stage>> /\ ShellOK(w, worker[w], journal, payload)
    BY ShellBefore
  <1> HIDE DEF c
  <1>3. /\ tmp[c] \in FilesOf(SUBSET Keys, Workers)
        /\ Absent \in FilesOf(SUBSET Keys, Workers) /\ Absent.data = {}
    BY <1>2 DEF IInv, TypeOK, Absent, FilesOf
  <1>4. \A S \in tmp[c].data : S = Full(c) /\ Full(c) \subseteq journal[c].keys
    BY <1>2 DEF IInv, TmpInv, PublishedIsJournalled, OnlyJournalled
  <1>5. /\ tmp' \in [Cells -> FilesOf(SUBSET Keys, Workers)]
        /\ tmp'[c].data = {}
        /\ \A d \in Cells \ {c} : tmp'[d] = tmp[d]
    BY <1>1, <1>2, <1>3 DEF IInv, TypeOK
  <1>6. /\ payload' \in [Cells -> FilesOf(SUBSET Keys, Workers)]
        /\ payload'[c] = tmp[c]
        /\ \A d \in Cells \ {c} : payload'[d] = payload[d]
    BY <1>1, <1>2, <1>3 DEF IInv, TypeOK
  <1>7. FilesKeep /\ PublishedIsJournalled' /\ TmpInv'
    <2>1. ASSUME NEW d \in Cells, NEW S \in tmp'[d].data PROVE S \in tmp[d].data
      BY <1>5
    <2>2. ASSUME NEW d \in Cells, NEW S \in payload'[d].data
          PROVE  S \in payload[d].data \/ (S = Full(d) /\ Full(d) \subseteq journal[d].keys)
      BY <1>4, <1>6
    <2>3. ASSUME NEW d \in Cells, payload[d].exists PROVE payload'[d].exists
      BY <1>1, <1>6, <2>3
    <2> QED
      BY <1>1, <2>1, <2>2, <2>3, PayloadsChange
  <1>8. Settled(c, payload')
    BY <1>1, <1>4, <1>6 DEF Settled
  <1>9. ShellOK(w, worker[w], journal', payload')
    BY <1>2, <1>7, ShellBefore, ShellKeeps DEF FilesKeep
  <1>10. AfterStage(w) \in ShellStates /\ ShellOK(w, AfterStage(w), journal', payload')
    BY <1>1, <1>2, <1>8, <1>9, ShellBefore, AfterStageOK
  <1>11. /\ worker' \in [Workers -> ShellStates] /\ worker'[w] = AfterStage(w)
         /\ \A v \in Workers \ {w} : worker'[v] = worker[v]
    BY <1>1, <1>10 DEF IInv, TypeOK
  <1>12. TypeOK'
    BY <1>1, <1>5, <1>6, <1>11 DEF IInv, TypeOK, results
  <1> QED
    BY <1>1, <1>7, <1>10, <1>11, <1>12, ShellMoves

\* A kill closes files and stops the shell, whatever it does to the journal.
LEMMA KillKeeps ==
    ASSUME IInv, NEW w \in Workers, Kill(w)
    PROVE  /\ worker[w].pc \in Busy
           /\ \A d \in Cells : /\ payload'[d].data = payload[d].data
                               /\ payload'[d].exists = payload[d].exists
                               /\ tmp'[d].data = tmp[d].data
           /\ payload' \in [Cells -> FilesOf(SUBSET Keys, Workers)]
           /\ tmp' \in [Cells -> FilesOf(SUBSET Keys, Workers)]
           /\ worker' \in [Workers -> ShellStates]
           /\ \A v \in Workers \ {w} : worker'[v] = worker[v]
           /\ worker'[w] = Shell("failed", worker[w].stage)
           /\ crashes' \in 0..MaxCrashes
  <1> DEFINE c == Cell(w)
  <1>1. /\ worker[w].pc \in Busy /\ crashes < MaxCrashes /\ crashes' = crashes + 1
        /\ tmp' = [tmp EXCEPT ![c] = CloseFile(@, w)]
        /\ payload' = [payload EXCEPT ![c] = CloseFile(@, w)]
        /\ Fails(w)
    BY DEF Kill
  <1>2. c \in Cells
    BY ShellBefore
  <1> HIDE DEF c
  <1>3. ASSUME NEW f \in FilesOf(SUBSET Keys, Workers)
        PROVE  /\ CloseFile(f, w) \in FilesOf(SUBSET Keys, Workers)
               /\ CloseFile(f, w).data = f.data
               /\ CloseFile(f, w).exists = f.exists
    <2>1. CloseFile(f, w).data = f.data /\ CloseFile(f, w).exists = f.exists
      BY DEF CloseFile, FilesOf
    <2>2. {} \in SUBSET Keys
      OBVIOUS
    <2> QED
      BY <2>1, <2>2, FileOperations
  <1>4. payload[c] \in FilesOf(SUBSET Keys, Workers) /\ tmp[c] \in FilesOf(SUBSET Keys, Workers)
    BY <1>2 DEF IInv, TypeOK
  <1>5. /\ payload' \in [Cells -> FilesOf(SUBSET Keys, Workers)]
        /\ payload'[c] = CloseFile(payload[c], w)
        /\ \A d \in Cells \ {c} : payload'[d] = payload[d]
    BY <1>1, <1>2, <1>3, <1>4 DEF IInv, TypeOK
  <1>6. /\ tmp' \in [Cells -> FilesOf(SUBSET Keys, Workers)]
        /\ tmp'[c] = CloseFile(tmp[c], w)
        /\ \A d \in Cells \ {c} : tmp'[d] = tmp[d]
    BY <1>1, <1>2, <1>3, <1>4 DEF IInv, TypeOK
  <1>7. ASSUME NEW d \in Cells
        PROVE  /\ payload'[d].data = payload[d].data
               /\ payload'[d].exists = payload[d].exists
               /\ tmp'[d].data = tmp[d].data
    BY <1>3, <1>4, <1>5, <1>6
  <1>8. Shell("failed", worker[w].stage) \in ShellStates
    BY ShellBefore DEF Shell, ShellStates
  <1>9. /\ worker' \in [Workers -> ShellStates]
        /\ \A v \in Workers \ {w} : worker'[v] = worker[v]
        /\ worker'[w] = Shell("failed", worker[w].stage)
    BY <1>1, <1>8 DEF IInv, TypeOK, Fails
  <1>10. crashes' \in 0..MaxCrashes
    BY <1>1, ShardsAssumption DEF IInv, TypeOK
  <1> QED
    BY <1>1, <1>5, <1>6, <1>7, <1>9, <1>10

LEMMA CrashIInv ==
    ASSUME IInv, NEW w \in Workers, Crash(w)
    PROVE  IInv'
  <1>1. Kill(w) /\ UNCHANGED <<journal, script, results>>
    BY DEF Crash
  <1>2. /\ \A d \in Cells : /\ payload'[d].data = payload[d].data
                            /\ payload'[d].exists = payload[d].exists
                            /\ tmp'[d].data = tmp[d].data
        /\ payload' \in [Cells -> FilesOf(SUBSET Keys, Workers)]
        /\ tmp' \in [Cells -> FilesOf(SUBSET Keys, Workers)]
        /\ worker' \in [Workers -> ShellStates]
        /\ \A v \in Workers \ {w} : worker'[v] = worker[v]
        /\ worker'[w] = Shell("failed", worker[w].stage)
        /\ crashes' \in 0..MaxCrashes
        /\ worker[w].pc # "done"
    BY <1>1, KillKeeps DEF Busy
  <1>3. FilesKeep /\ PublishedIsJournalled' /\ TmpInv'
    <2>1. \A d \in Cells : \A S \in tmp'[d].data : S \in tmp[d].data
      BY <1>2
    <2>2. \A d \in Cells : \A S \in payload'[d].data : S \in payload[d].data
      BY <1>2
    <2>3. \A d \in Cells : payload[d].exists => payload'[d].exists
      BY <1>2
    <2> QED
      BY <1>1, <2>1, <2>2, <2>3, PayloadsChange
  <1>4. TypeOK'
    BY <1>1, <1>2 DEF IInv, TypeOK, results
  <1>5. ShellOK(w, worker'[w], journal', payload')
    BY <1>2 DEF Shell, ShellOK
  <1> QED
    BY <1>1, <1>2, <1>3, <1>4, <1>5, ShellMoves

LEMMA CrashMidLineIInv ==
    ASSUME IInv, NEW w \in Workers, CrashMidLine(w)
    PROVE  IInv'
  <1> DEFINE c == Cell(w)
             k == First(Todo(w))
  <1>1. /\ worker[w].pc = "loop" /\ Todo(w) # {} /\ Kill(w)
        /\ UNCHANGED <<script, results>>
    BY DEF CrashMidLine
  <1>2. PICK j \in WritePart(journal[c], k) : journal' = [journal EXCEPT ![c] = j]
    BY DEF CrashMidLine
  <1>3. k \in Full(c) /\ k \in Keys
    BY <1>1, FirstToDo
  <1>4. c \in Cells /\ journal[c] \in Journals
    BY ShellBefore DEF IInv, TypeOK
  <1> HIDE DEF c, k
  <1>5. /\ j \in Journals /\ journal[c].keys \subseteq j.keys
        /\ j.keys \subseteq journal[c].keys \cup {k}
        /\ j.valid => journal[c].valid
    BY <1>2, <1>3, <1>4, PartWritten
  <1>6. journal'[c] = j /\ journal' = [journal EXCEPT ![c] = journal'[c]]
    BY <1>2, <1>4 DEF IInv, TypeOK
  <1>7. /\ \A d \in Cells : /\ payload'[d].data = payload[d].data
                            /\ payload'[d].exists = payload[d].exists
                            /\ tmp'[d].data = tmp[d].data
        /\ payload' \in [Cells -> FilesOf(SUBSET Keys, Workers)]
        /\ tmp' \in [Cells -> FilesOf(SUBSET Keys, Workers)]
        /\ worker' \in [Workers -> ShellStates]
        /\ \A v \in Workers \ {w} : worker'[v] = worker[v]
        /\ worker'[w] = Shell("failed", worker[w].stage)
        /\ crashes' \in 0..MaxCrashes
    BY <1>1, KillKeeps
  <1>8. /\ journal' \in [Cells -> Journals]
        /\ FilesKeep /\ PublishedIsJournalled' /\ TmpInv'
    BY <1>3, <1>4, <1>5, <1>6, <1>7, JournalGrows
  <1>9. TypeOK'
    BY <1>1, <1>7, <1>8 DEF IInv, TypeOK, results
  <1>10. ShellOK(w, worker'[w], journal', payload')
    BY <1>7 DEF Shell, ShellOK
  <1> QED
    BY <1>1, <1>7, <1>8, <1>9, <1>10, ShellMoves

\* A shell that starts relies on nothing yet.
LEMMA StartShellIInv ==
    ASSUME IInv, NEW w \in Workers, StartShell(w)
    PROVE  IInv'
  <1>1. worker'[w] = [pc |-> "gap", stage |-> 1, input |-> {}, existing |-> {}, out |-> {}]
    BY DEF StartShell, IInv, TypeOK, Shell
  <1>2. 1 \in Stages
    BY ShardsAssumption DEF Stages
  <1>3. worker'[w] \in ShellStates
    BY <1>1, <1>2 DEF ShellStates
  <1>4. ShellOK(w, worker'[w], journal, payload)
    BY <1>1 DEF ShellOK
  <1>5. worker' = [worker EXCEPT ![w] = worker'[w]]
    BY <1>1 DEF StartShell, Shell
  <1> QED
    BY <1>3, <1>4, <1>5, OnlyShellMoves DEF StartShell

LEMMA WorkerIInv ==
    ASSUME IInv, NEW w \in Workers, WorkerStep(w) \/ Crash(w) \/ CrashMidLine(w) \/ StartShell(w)
    PROVE  IInv'
  <1>1. ASSUME BeginFails(w) \/ CollectFails(w) \/ ReplaceFails(w) PROVE IInv'
    <2>1. /\ worker[w].pc \in Busy /\ Fails(w)
          /\ UNCHANGED <<files, script, results, crashes>>
      BY <1>1 DEF BeginFails, CollectFails, ReplaceFails, Busy
    <2> QED
      BY <2>1, FailsIInv
  <1> QED
    BY <1>1, StartProcessIInv, BeginStageIInv, AppendRecordIInv, CollectRecordsIInv,
       OpenTmpIInv, WriteTmpIInv, ReplacePayloadIInv, CrashIInv, CrashMidLineIInv,
       StartShellIInv DEF WorkerStep

---------------------------------------------------------------------------
\* A step of the script leaves the files alone.
LEMMA ScriptMoves ==
    ASSUME IInv, TypeOK', ShellsInv', ScriptInv', UNCHANGED files
    PROVE  IInv'
  <1>1. journal' = journal /\ payload' = payload /\ tmp' = tmp
    BY DEF files
  <1>2. PublishedIsJournalled' /\ TmpInv'
    BY <1>1 DEF IInv, PublishedIsJournalled, OnlyJournalled, TmpInv
  <1> QED
    BY <1>2 DEF IInv

LEMMA LaunchScriptIInv == ASSUME IInv, LaunchScript PROVE IInv'
  <1>1. /\ script' = [pc |-> "waiting", stage |-> 1]
        /\ worker' = [w \in Workers |->
               IF w \in MainShells THEN Shell("gap", 1) ELSE worker[w]]
        /\ UNCHANGED <<files, results, crashes>>
    BY DEF LaunchScript
  <1>2. 1 \in Stages
    BY ShardsAssumption DEF Stages
  <1>3. Shell("gap", 1) \in ShellStates
    BY <1>2 DEF Shell, ShellStates
  <1>4. \A w \in Workers : worker'[w] = IF w \in MainShells THEN Shell("gap", 1) ELSE worker[w]
    BY <1>1
  <1>5. worker' \in [Workers -> ShellStates]
    BY <1>1, <1>3 DEF IInv, TypeOK
  <1>6. TypeOK'
    BY <1>1, <1>2, <1>5 DEF IInv, TypeOK, files, results
  <1>7. ShellsInv'
    <2> SUFFICES ASSUME NEW w \in Workers
                 PROVE  ShellOK(w, worker'[w], journal', payload')
      BY DEF ShellsInv
    <2>1. journal' = journal /\ payload' = payload
      BY <1>1 DEF files
    <2>2. CASE w \in MainShells
      <3>1. worker'[w] = Shell("gap", 1)
        BY <1>4, <2>2
      <3> QED
        BY <3>1 DEF Shell, ShellOK
    <2>3. CASE w \notin MainShells
      <3>1. worker'[w] = worker[w]
        BY <1>4, <2>3
      <3> QED
        BY <2>1, <3>1 DEF IInv, ShellsInv
    <2> QED
      BY <2>2, <2>3
  <1>8. ScriptInv'
    BY <1>1 DEF ScriptInv
  <1> QED
    BY <1>1, <1>6, <1>7, <1>8, ScriptMoves

\* The steps of the script that leave the shells alone.
LEMMA ScriptGoes ==
    ASSUME IInv, UNCHANGED <<files, worker, crashes>>,
           script' \in [pc : {"off", "waiting", "failed", "merging", "summarize", "done"},
                        stage : Stages],
           merged' \in [Stages -> SUBSET SUBSET Keys],
           summary' \in SUBSET [Stages -> SUBSET SUBSET Keys],
           ScriptInv'
    PROVE  IInv'
  <1>1. journal' = journal /\ payload' = payload /\ tmp' = tmp
    BY DEF files
  <1>2. TypeOK'
    BY <1>1 DEF IInv, TypeOK
  <1>3. ShellsInv'
    BY <1>1 DEF IInv, ShellsInv
  <1> QED
    BY <1>2, <1>3, ScriptMoves

LEMMA ScriptWaitsIInv == ASSUME IInv, ScriptWaits PROVE IInv'
  <1>1. /\ script.pc = "waiting"
        /\ \A w \in MainShells : worker[w].pc \in {"done", "failed"}
        /\ script' = [script EXCEPT !.pc =
               IF \E w \in MainShells : worker[w].pc = "failed" THEN "failed" ELSE "merging"]
        /\ UNCHANGED <<files, worker, results, crashes>>
    BY DEF ScriptWaits
  <1>2. script \in [pc : {"off", "waiting", "failed", "merging", "summarize", "done"},
                    stage : Stages]
    BY DEF IInv, TypeOK
  <1>3. script.stage = 1
    BY <1>1 DEF IInv, ScriptInv
  <1>4. script'.pc = (IF \E w \in MainShells : worker[w].pc = "failed" THEN "failed" ELSE "merging")
        /\ script'.stage = 1
    BY <1>1, <1>2, <1>3
  <1>5. ScriptInv'
    BY <1>1, <1>4 DEF ScriptInv
  <1>6. script' \in [pc : {"off", "waiting", "failed", "merging", "summarize", "done"},
                     stage : Stages]
    BY <1>1, <1>2
  <1> QED
    BY <1>1, <1>5, <1>6, ScriptGoes DEF IInv, TypeOK, results

\* What is merged when all shells are done is every record of the stage.
LEMMA MergedShares ==
    ASSUME IInv, script.pc = "merging", MergePayloads(script.stage)
    PROVE  merged' = [merged EXCEPT ![script.stage] = {AllRecords(script.stage)}]
  <1> DEFINE st == script.stage
  <1>1. st \in Stages
    BY DEF IInv, TypeOK
  <1>2. ASSUME NEW s \in Shards
        PROVE  /\ payload[<<s, st>>].exists
               /\ payload[<<s, st>>].data \subseteq {Expected(s, st)}
    <2> DEFINE w == <<s, "main">>
    <2>1. w \in MainShells /\ w \in Workers /\ w[1] = s
      BY ShardsAssumption DEF MainShells, Workers
    <2>2. worker[w].pc = "done"
      BY <2>1 DEF IInv, ScriptInv
    <2>3. ShellOK(w, worker[w], journal, payload)
      BY <2>1 DEF IInv, ShellsInv
    <2>4. /\ worker[w].stage = LastStage
          /\ Settled(<<s, LastStage>>, payload)
          /\ \A i \in 1..(LastStage - 1) : Settled(<<s, i>>, payload)
      BY <2>1, <2>2, <2>3 DEF ShellOK
    <2>5. Settled(<<s, st>>, payload)
      BY <1>1, <2>4, ShardsAssumption DEF Stages
    <2> QED
      BY <2>5 DEF Settled, Full
  <1>3. Shares(st) = {payload[<<s, st>>] : s \in Shards}
    BY <1>2 DEF Shares
  <1>4. ASSUME NEW s \in Shards PROVE payload[<<s, st>>].data = {Expected(s, st)}
    <2>1. ~Unreadable(payload[<<s, st>>])
      BY <1>3 DEF MergePayloads
    <2> QED
      BY <1>2, <2>1 DEF Unreadable
  <1>5. 0 \in Shards
    BY ShardsAssumption DEF Shards
  <1>6. Shares(st) # {}
    BY <1>3, <1>5
  <1>7. UNION UNION {f.data : f \in Shares(st)} = AllRecords(st)
    <2>1. UNION {f.data : f \in Shares(st)} = {Expected(s, st) : s \in Shards}
      <3>1. ASSUME NEW S \in UNION {f.data : f \in Shares(st)}
            PROVE  S \in {Expected(s, st) : s \in Shards}
        <4>1. PICK f \in Shares(st) : S \in f.data
          OBVIOUS
        <4>2. PICK s \in Shards : f = payload[<<s, st>>]
          BY <1>3
        <4> QED
          BY <1>4, <4>1, <4>2
      <3>2. ASSUME NEW s \in Shards
            PROVE  Expected(s, st) \in UNION {f.data : f \in Shares(st)}
        <4>1. payload[<<s, st>>] \in Shares(st)
          BY <1>3
        <4>2. Expected(s, st) \in payload[<<s, st>>].data
          BY <1>4
        <4> QED
          BY <4>1, <4>2
      <3> QED
        BY <3>1, <3>2
    <2> QED
      BY <2>1 DEF AllRecords
  <1> QED
    BY <1>6, <1>7 DEF MergePayloads

LEMMA AllRecordsAreKeys == \A st \in Stages : AllRecords(st) \subseteq Keys
  BY FullIsKeys DEF AllRecords, Expected, Derived

LEMMA MergeStageIInv == ASSUME IInv, MergeStage PROVE IInv'
  <1> DEFINE st == script.stage
  <1>1. /\ script.pc = "merging" /\ MergePayloads(st)
        /\ script' = IF st = LastStage THEN [script EXCEPT !.pc = "summarize"]
                     ELSE [script EXCEPT !.stage = @ + 1]
        /\ UNCHANGED <<files, worker, summary, crashes>>
    BY DEF MergeStage
  <1>2. merged' = [merged EXCEPT ![st] = {AllRecords(st)}]
    BY <1>1, MergedShares
  <1>3. /\ script \in [pc : {"off", "waiting", "failed", "merging", "summarize", "done"},
                       stage : Stages]
        /\ st \in Stages
        /\ merged \in [Stages -> SUBSET SUBSET Keys]
        /\ summary \in SUBSET [Stages -> SUBSET SUBSET Keys]
    BY DEF IInv, TypeOK
  <1>4. merged' \in [Stages -> SUBSET SUBSET Keys]
    BY <1>2, <1>3, AllRecordsAreKeys
  <1>5. /\ \A w \in MainShells : worker'[w].pc = "done"
        /\ \A i \in 1..(st - 1) : merged[i] = {AllRecords(i)}
    BY <1>1 DEF IInv, ScriptInv
  <1>6. \A i \in 1..st : merged'[i] = {AllRecords(i)}
    BY <1>2, <1>3, <1>5, ShardsAssumption DEF Stages
  <1>7. CASE st = LastStage
    <2>1. script' = [script EXCEPT !.pc = "summarize"]
      BY <1>1, <1>7
    <2>2. script'.pc = "summarize"
      BY <1>3, <2>1
    <2>3. script' \in [pc : {"off", "waiting", "failed", "merging", "summarize", "done"},
                       stage : Stages]
      BY <1>3, <2>1
    <2>4. ScriptInv'
      BY <1>5, <1>6, <1>7, <2>2 DEF ScriptInv, Stages
    <2> QED
      BY <1>1, <1>3, <1>4, <2>3, <2>4, ScriptGoes
  <1>8. CASE st # LastStage
    <2>1. script' = [script EXCEPT !.stage = @ + 1]
      BY <1>1, <1>8
    <2>2. /\ script'.pc = "merging" /\ script'.stage = st + 1
          /\ st + 1 \in Stages /\ (st + 1) - 1 = st
      BY <1>1, <1>3, <1>8, <2>1, ShardsAssumption DEF Stages
    <2>3. script' \in [pc : {"off", "waiting", "failed", "merging", "summarize", "done"},
                       stage : Stages]
      BY <1>3, <2>1, <2>2
    <2>4. ScriptInv'
      BY <1>5, <1>6, <2>2 DEF ScriptInv
    <2> QED
      BY <1>1, <1>3, <1>4, <2>3, <2>4, ScriptGoes
  <1> QED
    BY <1>7, <1>8

LEMMA MergeFailsIInv == ASSUME IInv, MergeFails PROVE IInv'
  <1>1. /\ script' = [script EXCEPT !.pc = "failed"]
        /\ UNCHANGED <<files, worker, results, crashes>>
    BY DEF MergeFails
  <1>2. /\ script' \in [pc : {"off", "waiting", "failed", "merging", "summarize", "done"},
                        stage : Stages]
        /\ script'.pc = "failed"
    BY <1>1 DEF IInv, TypeOK
  <1>3. ScriptInv'
    BY <1>2 DEF ScriptInv
  <1> QED
    BY <1>1, <1>2, <1>3, ScriptGoes DEF IInv, TypeOK, results

LEMMA SummarizeIInv == ASSUME IInv, Summarize PROVE IInv'
  <1>1. /\ script.pc = "summarize"
        /\ summary' = {merged}
        /\ script' = [script EXCEPT !.pc = "done"]
        /\ UNCHANGED <<files, worker, merged, crashes>>
    BY DEF Summarize
  <1>2. /\ script' \in [pc : {"off", "waiting", "failed", "merging", "summarize", "done"},
                        stage : Stages]
        /\ script'.pc = "done"
        /\ merged \in [Stages -> SUBSET SUBSET Keys]
    BY <1>1 DEF IInv, TypeOK
  <1>3. ScriptInv'
    BY <1>1, <1>2 DEF IInv, ScriptInv
  <1>4. summary' \in SUBSET [Stages -> SUBSET SUBSET Keys]
    BY <1>1, <1>2
  <1> QED
    BY <1>1, <1>2, <1>3, <1>4, ScriptGoes

LEMMA NextIInv == IInv /\ [Next]_vars => IInv'
  <1> SUFFICES ASSUME IInv, [Next]_vars PROVE IInv'
    OBVIOUS
  <1>1. CASE UNCHANGED vars
    <2>1. /\ journal' = journal /\ payload' = payload /\ tmp' = tmp /\ worker' = worker
          /\ script' = script /\ merged' = merged /\ summary' = summary /\ crashes' = crashes
      BY <1>1 DEF vars, files, results
    <2>2. TypeOK' /\ ShellsInv' /\ ScriptInv'
      BY <2>1 DEF IInv, TypeOK, ShellsInv, ScriptInv
    <2> QED
      BY <2>1, <2>2, ScriptMoves DEF files
  <1>2. CASE \E w \in Workers : WorkerStep(w) \/ Crash(w) \/ CrashMidLine(w) \/ StartShell(w)
    BY <1>2, WorkerIInv
  <1>3. CASE ScriptStep
    BY <1>3, LaunchScriptIInv, ScriptWaitsIInv, MergeStageIInv, MergeFailsIInv, SummarizeIInv
    DEF ScriptStep
  <1>4. CASE Terminated
    BY <1>1, <1>4 DEF Terminated
  <1> QED
    BY <1>1, <1>2, <1>3, <1>4 DEF Next

LEMMA IInvAlways == Spec => []IInv
  BY InitIInv, NextIInv, PTL DEF Spec

\* Every variable has its type, for any numbers of shards, shells and killed processes.
THEOREM TypeCorrect == Spec => []TypeOK
  BY IInvAlways, PTL DEF IInv

\* However the shells of a shard overlap on one temporary file, and wherever they are
\* killed, a payload only has records its journal has, and the journal only records of
\* its shard.
THEOREM PublishedWasJournalled == Spec => []PublishedIsJournalled
  BY IInvAlways, PTL DEF IInv

\* A script that reports success has merged every record of every shard and summarised
\* just that, whatever failed, was killed, was cut short or ran twice before.
THEOREM SuccessIsComplete == Spec => []MergedIsComplete
  <1>1. IInv => MergedIsComplete
    BY DEF IInv, ScriptInv, MergedIsComplete
  <1> QED
    BY <1>1, IInvAlways, PTL

---------------------------------------------------------------------------
\* With one shell to a shard and whole lines, a shell also knows that nobody else writes
\* to its files: its existing keys are all its journal has, the source of its records is
\* published, and the temporary file it writes and renames is its own.
ShellAlone(w, sh, J, P, T) ==
    LET c == <<w[1], sh.stage>>
    IN  /\ sh.pc = "next" => P[<<w[1], Generations>>].data = {Full(<<w[1], Generations>>)}
        /\ sh.pc = "loop" =>
               /\ J[c].keys \subseteq sh.existing
               /\ sh.stage # Generations =>
                      P[<<w[1], Source(sh.stage)>>].data = {Full(<<w[1], Source(sh.stage)>>)}
        /\ sh.pc = "write" => w \in T[c].writers
        /\ sh.pc = "rename" => T[c].data = {Full(c)}

WholeJournals == \A c \in Cells : journal[c].valid /\ journal[c].ended

AloneInv ==
    /\ WholeJournals
    /\ \A w \in Workers : ShellAlone(w, worker[w], journal, payload, tmp)

OneShellEach == Roles = {"main"} /\ ~TornWrites

\* A step of a shell that touches no file of another shard.
LEMMA OtherShellsAlone ==
    ASSUME IInv, AloneInv, OneShellEach, NEW w \in Workers,
           \A v \in Workers \ {w} : worker'[v] = worker[v],
           \A c \in Cells : c[1] # w[1] =>
               journal'[c] = journal[c] /\ payload'[c] = payload[c] /\ tmp'[c] = tmp[c],
           WholeJournals',
           ShellAlone(w, worker'[w], journal', payload', tmp')
    PROVE  AloneInv'
  <1>1. ASSUME NEW v \in Workers
        PROVE  ShellAlone(v, worker'[v], journal', payload', tmp')
    <2>1. CASE v = w
      BY <2>1
    <2>2. CASE v # w
      <3>1. v[1] # w[1]
        BY <2>2 DEF Workers, OneShellEach
      <3>2. worker'[v] = worker[v] /\ worker[v].stage \in Stages
        BY <2>2, ShellBefore
      <3>3. /\ <<v[1], worker[v].stage>> \in Cells
            /\ <<v[1], Generations>> \in Cells
            /\ worker[v].stage # Generations => <<v[1], Source(worker[v].stage)>> \in Cells
        <4>1. worker[v].stage # Generations => Source(worker[v].stage) \in Stages
          BY <3>2, SourceInCells, ShardsAssumption DEF Stages
        <4>2. Generations \in Stages
          BY ShardsAssumption DEF Stages, Generations
        <4> QED
          BY <3>2, <4>1, <4>2, CellType
      <3>4. ShellAlone(v, worker[v], journal, payload, tmp)
        BY DEF AloneInv
      <3>5. \A c \in Cells : c[1] = v[1] =>
               journal'[c] = journal[c] /\ payload'[c] = payload[c] /\ tmp'[c] = tmp[c]
        BY <3>1
      <3> QED
        BY <3>2, <3>3, <3>4, <3>5 DEF ShellAlone
    <2> QED
      BY <2>1, <2>2
  <1> QED
    BY <1>1 DEF AloneInv

\* The same when the step leaves the files alone.
LEMMA OnlyShellAlone ==
    ASSUME IInv, AloneInv, OneShellEach, NEW w \in Workers,
           \A v \in Workers \ {w} : worker'[v] = worker[v],
           UNCHANGED files,
           ShellAlone(w, worker'[w], journal, payload, tmp)
    PROVE  AloneInv'
  <1>1. journal' = journal /\ payload' = payload /\ tmp' = tmp
    BY DEF files
  <1>2. WholeJournals'
    BY <1>1 DEF AloneInv, WholeJournals
  <1> QED
    BY <1>1, <1>2, OtherShellsAlone

\* The ledger as the files show it.
LedgerDone == [c \in Cells |-> journal[c].keys]
LedgerLines == [c \in Cells |-> journal[c].lines]
LedgerPublished == [c \in Cells |-> payload[c].data]
LedgerStep == [Ledger!Next]_(Ledger!vars)

\* A step the ledger does not see.
LEMMA LedgerStutters ==
    ASSUME \A c \in Cells : /\ journal'[c] = journal[c]
                            /\ payload'[c].data = payload[c].data
    PROVE  LedgerStep
  BY DEF LedgerStep, Ledger!vars

LEMMA LedgerCounts == \A S : Ledger!Cardinality(S) = Cardinality(S)
  BY DEF Ledger!Cardinality, Cardinality

LEMMA InitAlone == OneShellEach /\ Init => AloneInv /\ Ledger!Init
  <1> SUFFICES ASSUME OneShellEach, Init PROVE AloneInv /\ Ledger!Init
    OBVIOUS
  <1>1. AloneInv
    BY DEF Init, AloneInv, WholeJournals, ShellAlone, Shell, EarlierJournal, EmptyJournal
  <1> DEFINE Asked == [c \in Cells |-> Expected(c[1], c[2])]
  <1>2. ASSUME NEW c \in Cells
        PROVE  /\ LedgerDone[c] = EarlierKeys(c)
               /\ LedgerLines[c] = Cardinality(EarlierKeys(c))
               /\ LedgerPublished[c] \in {{}, {EarlierKeys(c)}}
               /\ EarlierKeys(c) \subseteq Asked[c]
    BY EarlierIsExpected DEF Init, LedgerDone, LedgerLines, LedgerPublished, EarlierJournal,
       EmptyJournal, EarlierPayload, Absent, Full
  <1>3. LedgerDone \in [Cells -> UNION {SUBSET Asked[c] : c \in Cells}]
    BY <1>2 DEF LedgerDone
  <1>4. LedgerLines = [c \in Cells |-> Cardinality(LedgerDone[c])]
    BY <1>2 DEF LedgerLines
  <1>5. LedgerPublished \in [Cells -> {{}} \cup {{LedgerDone[c]} : c \in Cells}]
    BY <1>2 DEF LedgerPublished
  <1>6. \A c \in Cells : LedgerDone[c] \subseteq Asked[c]
                         /\ LedgerPublished[c] \in {{}, {LedgerDone[c]}}
    BY <1>2
  <1>7. Ledger!Init
    BY <1>3, <1>4, <1>5, <1>6, LedgerCounts
    DEF Ledger!Init, LedgerDone, LedgerLines, LedgerPublished
  <1> QED
    BY <1>1, <1>7

\* A shell that holds nothing of its own: it starts, saves, rests or has stopped.
LEMMA RestsAlone ==
    ASSUME IInv, AloneInv, OneShellEach, NEW w \in Workers,
           \A v \in Workers \ {w} : worker'[v] = worker[v],
           worker'[w].pc \notin {"next", "loop", "write", "rename"},
           UNCHANGED files
    PROVE  AloneInv' /\ LedgerStep
  <1>1. ShellAlone(w, worker'[w], journal, payload, tmp)
    BY DEF ShellAlone
  <1>2. LedgerStep
    BY LedgerStutters DEF files
  <1> QED
    BY <1>1, <1>2, OnlyShellAlone

LEMMA RestingStepsAlone ==
    ASSUME IInv, AloneInv, OneShellEach, NEW w \in Workers,
           \/ StartProcess(w) \/ BeginFails(w) \/ CollectRecords(w) \/ CollectFails(w)
           \/ ReplaceFails(w) \/ StartShell(w)
    PROVE  AloneInv' /\ LedgerStep
  <1>1. UNCHANGED files
    BY DEF StartProcess, BeginFails, CollectRecords, CollectFails, ReplaceFails, StartShell
  <1>2. worker \in [Workers -> ShellStates]
    BY DEF IInv, TypeOK
  <1>3. PICK sh : worker' = [worker EXCEPT ![w] = sh]
                  /\ sh.pc \notin {"next", "loop", "write", "rename"}
    <2>1. CASE StartProcess(w)
      <3> DEFINE new == [worker[w] EXCEPT !.pc = "start"]
      <3>1. worker' = [worker EXCEPT ![w] = new]
        BY <1>2, <2>1 DEF StartProcess, Goto
      <3>2. new.pc = "start"
        BY ShellBefore DEF ShellStates
      <3>3. new.pc \notin {"next", "loop", "write", "rename"}
        BY <3>2
      <3> HIDE DEF new
      <3> QED
        BY <3>1, <3>3
    <2>2. CASE CollectRecords(w)
      <3> DEFINE out == (UNION payload[Cell(w)].data) \cup journal[Cell(w)].keys
                 new == [Shell("save", worker[w].stage) EXCEPT !.out = out]
      <3>1. worker' = [worker EXCEPT ![w] = new]
        BY <2>2 DEF CollectRecords
      <3>2. new.pc = "save"
        BY DEF Shell
      <3>3. new.pc \notin {"next", "loop", "write", "rename"}
        BY <3>2
      <3> HIDE DEF new
      <3> QED
        BY <3>1, <3>3
    <2>3. CASE StartShell(w)
      <3> DEFINE new == Shell("gap", 1)
      <3>1. worker' = [worker EXCEPT ![w] = new]
        BY <2>3 DEF StartShell
      <3>2. new.pc \notin {"next", "loop", "write", "rename"}
        BY DEF Shell
      <3> HIDE DEF new
      <3> QED
        BY <3>1, <3>2
    <2>4. CASE BeginFails(w) \/ CollectFails(w) \/ ReplaceFails(w)
      <3> DEFINE new == Shell("failed", worker[w].stage)
      <3>1. worker' = [worker EXCEPT ![w] = new]
        BY <2>4 DEF BeginFails, CollectFails, ReplaceFails, Fails
      <3>2. new.pc \notin {"next", "loop", "write", "rename"}
        BY DEF Shell
      <3> HIDE DEF new
      <3> QED
        BY <3>1, <3>2
    <2> QED
      BY <2>1, <2>2, <2>3, <2>4
  <1>4. worker'[w] = sh /\ \A v \in Workers \ {w} : worker'[v] = worker[v]
    BY <1>2, <1>3
  <1> QED
    BY <1>1, <1>3, <1>4, RestsAlone

\* A process that begins knows its source is published: it has just read it, or has
\* published it itself.
LEMMA BeginStageAlone ==
    ASSUME IInv, AloneInv, OneShellEach, NEW w \in Workers, BeginStage(w)
    PROVE  AloneInv' /\ LedgerStep
  <1> DEFINE st == worker[w].stage
  <1>1. PICK S \in InputsOf(w) :
           worker' = [worker EXCEPT ![w] =
               [Shell("loop", @.stage) EXCEPT !.input = Derived(worker[w].stage, S),
                                              !.existing = journal[Cell(w)].keys]]
    BY DEF BeginStage
  <1>2. worker[w].pc \in {"start", "next"} /\ UNCHANGED files
    BY DEF BeginStage
  <1>3. /\ worker'[w] = [pc |-> "loop", stage |-> st, input |-> Derived(st, S),
                         existing |-> journal[Cell(w)].keys, out |-> {}]
        /\ \A v \in Workers \ {w} : worker'[v] = worker[v]
    BY <1>1 DEF IInv, TypeOK, Shell
  <1>4. ASSUME st # Generations
        PROVE  payload[<<w[1], Source(st)>>].data = {Full(<<w[1], Source(st)>>)}
    <2>1. CASE worker[w].pc = "next"
      <3>1. st = Detection
        BY <2>1, ShellBefore DEF ShellOK
      <3>2. Source(st) = Generations
        BY <3>1 DEF Detection, Source, AttackDetection, AttackPpl
      <3> QED
        BY <2>1, <3>2 DEF AloneInv, ShellAlone
    <2>2. CASE worker[w].pc = "start"
      <3>1. S \in payload[<<w[1], Source(st)>>].data
        BY <1>4, <2>2 DEF InputsOf
      <3>2. Source(st) \in 1..(st - 1)
        BY <1>4, SourceInCells, ShellBefore
      <3>3. Settled(<<w[1], Source(st)>>, payload)
        BY <2>2, <3>2, ShellBefore DEF ShellOK
      <3> QED
        BY <3>1, <3>3 DEF Settled
    <2> QED
      BY <1>2, <2>1, <2>2
  <1>5. ShellAlone(w, worker'[w], journal, payload, tmp)
    BY <1>3, <1>4, ShellBefore DEF ShellAlone
  <1>6. LedgerStep
    BY <1>2, LedgerStutters DEF files
  <1> QED
    BY <1>2, <1>3, <1>5, <1>6, OnlyShellAlone

LEMMA WholeLineWritten ==
    ASSUME NEW j \in Journals, NEW k, j.valid, j.ended
    PROVE  WriteLine(j, k) = [keys |-> j.keys \cup {k}, lines |-> j.lines + 1,
                              valid |-> TRUE, ended |-> TRUE]
  <1>1. /\ j.valid \in BOOLEAN /\ j.ended \in BOOLEAN
        /\ j = [keys |-> j.keys, lines |-> j.lines, valid |-> j.valid, ended |-> j.ended]
    BY DEF Journals
  <1>2. WriteLine(j, k) = [keys |-> j.keys \cup {k}, lines |-> j.lines + 1,
                           valid |-> j.valid, ended |-> j.ended]
    BY <1>1 DEF WriteLine
  <1> QED
    BY <1>1, <1>2

\* One more line in one journal, of a record whose source is published.
LEMMA LedgerRecords ==
    ASSUME NEW c \in Cells, NEW k \in Full(c), k \notin journal[c].keys,
           SourcePublished(c, k, LedgerPublished),
           journal'[c].keys = journal[c].keys \cup {k},
           journal'[c].lines = journal[c].lines + 1,
           \A d \in Cells \ {c} : journal'[d] = journal[d],
           payload' = payload
    PROVE  LedgerStep
  <1> DEFINE K == [d \in Cells |-> IF d = c THEN journal[c].keys \cup {k} ELSE journal[d].keys]
             N == [d \in Cells |-> IF d = c THEN journal[c].lines + 1 ELSE journal[d].lines]
  <1>1. LedgerDone' = [LedgerDone EXCEPT ![c] = @ \cup {k}]
    <2>1. LedgerDone' = K
      BY DEF LedgerDone
    <2>2. [LedgerDone EXCEPT ![c] = @ \cup {k}] = K
      BY DEF LedgerDone
    <2> QED
      BY <2>1, <2>2
  <1>2. LedgerLines' = [LedgerLines EXCEPT ![c] = @ + 1]
    <2>1. LedgerLines' = N
      BY DEF LedgerLines
    <2>2. [LedgerLines EXCEPT ![c] = @ + 1] = N
      BY DEF LedgerLines
    <2> QED
      BY <2>1, <2>2
  <1>3. LedgerPublished' = LedgerPublished
    BY DEF LedgerPublished
  <1>4. k \in [d \in Cells |-> Expected(d[1], d[2])][c] \ LedgerDone[c]
    BY DEF Full, LedgerDone
  <1>5. Ledger!Record(c)
    BY <1>1, <1>2, <1>3, <1>4 DEF Ledger!Record, LedgerDone, LedgerLines, LedgerPublished
  <1>6. Ledger!Next
    BY <1>5 DEF Ledger!Next
  <1> QED
    BY <1>6 DEF LedgerStep

\* One payload that has all that was asked for, and was written down.
LEMMA LedgerPublishes ==
    ASSUME NEW c \in Cells, journal[c].keys = Full(c), journal' = journal,
           payload'[c].data = {Full(c)},
           \A d \in Cells \ {c} : payload'[d].data = payload[d].data
    PROVE  LedgerStep
  <1> DEFINE P == [d \in Cells |-> IF d = c THEN {Full(c)} ELSE payload[d].data]
  <1>1. LedgerPublished' = [LedgerPublished EXCEPT ![c] = {LedgerDone[c]}]
    <2>1. LedgerPublished' = P
      BY DEF LedgerPublished
    <2>2. [LedgerPublished EXCEPT ![c] = {LedgerDone[c]}] = P
      BY DEF LedgerPublished, LedgerDone
    <2> QED
      BY <2>1, <2>2
  <1>2. LedgerDone' = LedgerDone /\ LedgerLines' = LedgerLines
    BY DEF LedgerDone, LedgerLines
  <1>3. LedgerDone[c] = [d \in Cells |-> Expected(d[1], d[2])][c]
    BY DEF LedgerDone, Full
  <1>4. Ledger!Publish(c)
    BY <1>1, <1>2, <1>3 DEF Ledger!Publish, LedgerDone, LedgerLines, LedgerPublished
  <1>5. Ledger!Next
    BY <1>4 DEF Ledger!Next
  <1> QED
    BY <1>5 DEF LedgerStep

\* The record that is appended was not in the journal yet, and its source is published:
\* the ledger records it, once.
LEMMA AppendRecordAlone ==
    ASSUME IInv, AloneInv, OneShellEach, NEW w \in Workers, AppendRecord(w)
    PROVE  AloneInv' /\ LedgerStep
  <1> DEFINE k == First(Todo(w))
             c == Cell(w)
  <1>1. /\ worker[w].pc = "loop" /\ Todo(w) # {}
        /\ journal' = [journal EXCEPT ![c] = WriteLine(@, k)]
        /\ worker' = [worker EXCEPT ![w].existing = @ \cup {k}]
        /\ payload' = payload /\ tmp' = tmp
    BY DEF AppendRecord
  <1>2. /\ c \in Cells /\ c = <<w[1], worker[w].stage>>
        /\ worker[w] \in ShellStates /\ worker[w].stage \in Stages
        /\ journal[c] \in Journals
        /\ journal[c].valid /\ journal[c].ended
    BY ShellBefore DEF IInv, TypeOK, AloneInv, WholeJournals
  <1>3. k \in Full(c) /\ k \notin journal[c].keys /\ journal[c].keys \subseteq worker[w].existing
    <2>1. Todo(w) \subseteq Keys /\ Todo(w) \subseteq Full(c)
      BY <1>1, ShellBefore, FullIsKeys DEF Todo, ShellOK
    <2>2. k \in Todo(w)
      BY <1>1, <2>1, FirstIsMember
    <2>3. journal[c].keys \subseteq worker[w].existing
      BY <1>1, <1>2 DEF AloneInv, ShellAlone
    <2> QED
      BY <2>1, <2>2, <2>3 DEF Todo
  <1>4. worker[w].stage # Generations =>
            payload[<<w[1], Source(worker[w].stage)>>].data
                = {Full(<<w[1], Source(worker[w].stage)>>)}
    BY <1>1 DEF AloneInv, ShellAlone
  <1> HIDE DEF k, c
  <1>5. /\ journal'[c] = [keys |-> journal[c].keys \cup {k}, lines |-> journal[c].lines + 1,
                          valid |-> TRUE, ended |-> TRUE]
        /\ \A d \in Cells \ {c} : journal'[d] = journal[d]
    <2>1. WriteLine(journal[c], k)
              = [keys |-> journal[c].keys \cup {k}, lines |-> journal[c].lines + 1,
                 valid |-> TRUE, ended |-> TRUE]
      BY <1>2, WholeLineWritten
    <2> QED
      BY <1>1, <1>2, <2>1 DEF IInv, TypeOK
  <1>6. /\ worker'[w] = [worker[w] EXCEPT !.existing = @ \cup {k}]
        /\ \A v \in Workers \ {w} : worker'[v] = worker[v]
    BY <1>1 DEF IInv, TypeOK
  <1>7. AloneInv'
    <2>1. /\ worker'[w].pc = "loop" /\ worker'[w].stage = worker[w].stage
          /\ worker'[w].existing = worker[w].existing \cup {k}
      BY <1>1, <1>2, <1>6 DEF ShellStates
    <2>2. journal'[c].keys \subseteq worker'[w].existing
      BY <1>3, <1>5, <2>1
    <2>3. ShellAlone(w, worker'[w], journal', payload', tmp')
      BY <1>1, <1>2, <1>4, <2>1, <2>2 DEF ShellAlone
    <2>4. WholeJournals'
      BY <1>5 DEF AloneInv, WholeJournals
    <2>5. \A d \in Cells : d[1] # w[1] =>
             journal'[d] = journal[d] /\ payload'[d] = payload[d] /\ tmp'[d] = tmp[d]
      BY <1>1, <1>2, <1>5
    <2> QED
      BY <1>6, <2>3, <2>4, <2>5, OtherShellsAlone
  <1>8. LedgerStep
    <2>1. SourcePublished(c, k, LedgerPublished)
      <3>1. CASE worker[w].stage = Generations
        BY <1>2, <3>1 DEF SourcePublished
      <3>2. CASE worker[w].stage # Generations
        <4> DEFINE st == worker[w].stage
                   src == <<w[1], Source(st)>>
        <4>1. src \in Cells
          BY <1>2, <3>2, SourceInCells, CellType, ShardsAssumption DEF Stages
        <4>2. LedgerPublished[src] = {Full(src)}
          BY <1>4, <3>2, <4>1 DEF LedgerPublished
        <4>3. <<k[1], k[2], 0>> \in Full(src)
          <5>1. Derived(st, Full(src)) = Full(c)
            BY <1>2, <3>2, DerivedFull, ShellBefore DEF Full
          <5> QED
            BY <1>3, <5>1 DEF Derived
        <4>4. c[2] = st /\ c[1] = w[1]
          BY <1>2
        <4> QED
          BY <4>2, <4>3, <4>4 DEF SourcePublished
      <3> QED
        BY <3>1, <3>2
    <2> QED
      BY <1>1, <1>2, <1>3, <1>5, <2>1, LedgerRecords
  <1> QED
    BY <1>7, <1>8

\* The temporary file a shell opens is open for it until it has written it.
LEMMA OpenTmpAlone ==
    ASSUME IInv, AloneInv, OneShellEach, NEW w \in Workers, OpenTmp(w)
    PROVE  AloneInv' /\ LedgerStep
  <1> DEFINE c == Cell(w)
  <1>1. /\ worker[w].pc = "save" /\ Goto(w, "write")
        /\ tmp' = [tmp EXCEPT ![c] = OpenFile(@, w)]
        /\ journal' = journal /\ payload' = payload
    BY DEF OpenTmp
  <1>2. c \in Cells /\ c = <<w[1], worker[w].stage>>
    BY ShellBefore
  <1>3. /\ \A v \in Workers \ {w} : worker'[v] = worker[v]
        /\ worker'[w].pc = "write" /\ worker'[w].stage = worker[w].stage
    BY <1>1, ShellGoes DEF Busy
  <1> HIDE DEF c
  <1>4. w \in tmp'[c].writers /\ \A d \in Cells \ {c} : tmp'[d] = tmp[d]
    BY <1>1, <1>2 DEF OpenFile, IInv, TypeOK
  <1>5. ShellAlone(w, worker'[w], journal', payload', tmp')
    BY <1>2, <1>3, <1>4 DEF ShellAlone
  <1>6. WholeJournals'
    BY <1>1 DEF AloneInv, WholeJournals
  <1>7. AloneInv'
    <2>1. \A d \in Cells : d[1] # w[1] =>
             journal'[d] = journal[d] /\ payload'[d] = payload[d] /\ tmp'[d] = tmp[d]
      BY <1>1, <1>2, <1>4
    <2> QED
      BY <1>3, <1>5, <1>6, <2>1, OtherShellsAlone
  <1>8. LedgerStep
    BY <1>1, LedgerStutters
  <1> QED
    BY <1>7, <1>8

\* What is written down is all that was asked for when a shell has something to publish.
LEMMA OutIsJournal ==
    ASSUME IInv, NEW w \in Workers, worker[w].pc \in {"save", "write", "rename"}
    PROVE  /\ worker[w].out = Full(Cell(w))
           /\ journal[Cell(w)].keys = Full(Cell(w))
  <1>1. /\ worker[w].out = Full(Cell(w))
        /\ Full(Cell(w)) \subseteq journal[Cell(w)].keys
    BY ShellBefore DEF ShellOK
  <1>2. journal[Cell(w)].keys \subseteq Full(Cell(w))
    BY ShellBefore DEF IInv, PublishedIsJournalled, Full
  <1> QED
    BY <1>1, <1>2

\* The file it writes is complete, whether it is still the temporary one or already the
\* payload.
LEMMA WriteTmpAlone ==
    ASSUME IInv, AloneInv, OneShellEach, NEW w \in Workers, WriteTmp(w)
    PROVE  AloneInv' /\ LedgerStep
  <1> DEFINE c == Cell(w)
             out == worker[w].out
  <1>1. /\ worker[w].pc = "write" /\ Goto(w, "rename")
        /\ tmp' = [tmp EXCEPT ![c] = WriteFile(@, w, out)]
        /\ payload' = [payload EXCEPT ![c] = WriteFile(@, w, out)]
        /\ journal' = journal
    BY DEF WriteTmp
  <1>2. c \in Cells /\ c = <<w[1], worker[w].stage>>
    BY ShellBefore
  <1>3. out = Full(c) /\ journal[c].keys = Full(c)
    BY <1>1, OutIsJournal
  <1>4. w \in tmp[c].writers
    BY <1>1, <1>2 DEF AloneInv, ShellAlone
  <1>5. /\ \A v \in Workers \ {w} : worker'[v] = worker[v]
        /\ worker'[w].pc = "rename" /\ worker'[w].stage = worker[w].stage
    BY <1>1, ShellGoes DEF Busy
  <1>6. tmp \in [Cells -> FilesOf(SUBSET Keys, Workers)]
        /\ payload \in [Cells -> FilesOf(SUBSET Keys, Workers)]
    BY DEF IInv, TypeOK
  <1> HIDE DEF c, out
  <1>7. tmp'[c].data = {Full(c)} /\ \A d \in Cells \ {c} : tmp'[d] = tmp[d]
    <2>1. tmp[c] \in FilesOf(SUBSET Keys, Workers)
      BY <1>2, <1>6
    <2>2. WriteFile(tmp[c], w, out).data = {out}
      BY <1>4, <2>1 DEF WriteFile, FilesOf
    <2> QED
      BY <1>1, <1>2, <1>3, <1>6, <2>2
  <1>8. payload'[c].data \in {payload[c].data, {Full(c)}}
        /\ \A d \in Cells \ {c} : payload'[d] = payload[d]
    <2>1. payload[c] \in FilesOf(SUBSET Keys, Workers)
      BY <1>2, <1>6
    <2>2. WriteFile(payload[c], w, out).data \in {payload[c].data, {out}}
      BY <2>1 DEF WriteFile, FilesOf
    <2> QED
      BY <1>1, <1>2, <1>3, <1>6, <2>2
  <1>9. ShellAlone(w, worker'[w], journal', payload', tmp')
    BY <1>2, <1>5, <1>7 DEF ShellAlone
  <1>10. AloneInv'
    <2>1. WholeJournals'
      BY <1>1 DEF AloneInv, WholeJournals
    <2>2. \A d \in Cells : d[1] # w[1] =>
             journal'[d] = journal[d] /\ payload'[d] = payload[d] /\ tmp'[d] = tmp[d]
      BY <1>1, <1>2, <1>7, <1>8
    <2> QED
      BY <1>5, <1>9, <2>1, <2>2, OtherShellsAlone
  <1>11. LedgerStep
    <2>1. CASE payload'[c].data = payload[c].data
      <3>1. \A d \in Cells : journal'[d] = journal[d] /\ payload'[d].data = payload[d].data
        BY <1>1, <1>8, <2>1
      <3> QED
        BY <3>1, LedgerStutters
    <2>2. CASE payload'[c].data = {Full(c)}
      BY <1>1, <1>2, <1>3, <1>8, <2>2, LedgerPublishes
    <2> QED
      BY <1>8, <2>1, <2>2
  <1> QED
    BY <1>10, <1>11

\* What is renamed over the payload is its own complete file: the ledger publishes.
LEMMA ReplacePayloadAlone ==
    ASSUME IInv, AloneInv, OneShellEach, NEW w \in Workers, ReplacePayload(w)
    PROVE  AloneInv' /\ LedgerStep
  <1> DEFINE c == Cell(w)
  <1>1. /\ worker[w].pc = "rename"
        /\ payload' = [payload EXCEPT ![c] = tmp[c]]
        /\ tmp' = [tmp EXCEPT ![c] = Absent]
        /\ worker' = [worker EXCEPT ![w] = AfterStage(w)]
        /\ journal' = journal
    BY DEF ReplacePayload
  <1>2. c \in Cells /\ c = <<w[1], worker[w].stage>>
    BY ShellBefore
  <1>3. journal[c].keys = Full(c)
    BY <1>1, OutIsJournal
  <1>4. tmp[c].data = {Full(c)}
    BY <1>1, <1>2 DEF AloneInv, ShellAlone
  <1>5. worker'[w] = AfterStage(w) /\ \A v \in Workers \ {w} : worker'[v] = worker[v]
    BY <1>1 DEF IInv, TypeOK
  <1> HIDE DEF c
  <1>6. payload'[c].data = {Full(c)} /\ \A d \in Cells \ {c} : payload'[d] = payload[d]
    BY <1>1, <1>2, <1>4 DEF IInv, TypeOK
  <1>7. \A d \in Cells \ {c} : tmp'[d] = tmp[d]
    BY <1>1 DEF IInv, TypeOK
  <1>8. ShellAlone(w, worker'[w], journal', payload', tmp')
    <2>1. CASE worker[w].stage = Generations
      <3>1. worker'[w].pc = "next"
        BY <1>5, <2>1 DEF AfterStage, Shell
      <3> QED
        BY <1>2, <1>6, <2>1, <3>1 DEF ShellAlone
    <2>2. CASE worker[w].stage # Generations
      <3>1. worker'[w].pc \in {"gap", "done"}
        BY <1>5, <2>2 DEF AfterStage, Shell
      <3> QED
        BY <3>1 DEF ShellAlone
    <2> QED
      BY <2>1, <2>2
  <1>9. AloneInv'
    <2>1. WholeJournals'
      BY <1>1 DEF AloneInv, WholeJournals
    <2>2. \A d \in Cells : d[1] # w[1] =>
             journal'[d] = journal[d] /\ payload'[d] = payload[d] /\ tmp'[d] = tmp[d]
      BY <1>1, <1>2, <1>6, <1>7
    <2> QED
      BY <1>5, <1>8, <2>1, <2>2, OtherShellsAlone
  <1>10. LedgerStep
    BY <1>1, <1>2, <1>3, <1>6, LedgerPublishes
  <1> QED
    BY <1>9, <1>10

\* A kill between two lines is nothing to the ledger.
LEMMA CrashAlone ==
    ASSUME IInv, AloneInv, OneShellEach, NEW w \in Workers, Crash(w)
    PROVE  AloneInv' /\ LedgerStep
  <1> DEFINE c == Cell(w)
  <1>1. /\ Kill(w) /\ journal' = journal
        /\ tmp' = [tmp EXCEPT ![c] = CloseFile(@, w)]
        /\ payload' = [payload EXCEPT ![c] = CloseFile(@, w)]
    BY DEF Crash, Kill
  <1>2. c \in Cells /\ c = <<w[1], worker[w].stage>>
    BY ShellBefore
  <1> HIDE DEF c
  <1>3. /\ \A d \in Cells : payload'[d].data = payload[d].data
        /\ \A v \in Workers \ {w} : worker'[v] = worker[v]
        /\ worker'[w] = Shell("failed", worker[w].stage)
    BY <1>1, KillKeeps
  <1>4. \A d \in Cells \ {c} : payload'[d] = payload[d] /\ tmp'[d] = tmp[d]
    BY <1>1 DEF IInv, TypeOK
  <1>5. ShellAlone(w, worker'[w], journal', payload', tmp')
    BY <1>3 DEF ShellAlone, Shell
  <1>6. AloneInv'
    <2>1. WholeJournals'
      BY <1>1 DEF AloneInv, WholeJournals
    <2>2. \A d \in Cells : d[1] # w[1] =>
             journal'[d] = journal[d] /\ payload'[d] = payload[d] /\ tmp'[d] = tmp[d]
      BY <1>1, <1>2, <1>4
    <2> QED
      BY <1>3, <1>5, <2>1, <2>2, OtherShellsAlone
  <1>7. LedgerStep
    BY <1>1, <1>3, LedgerStutters
  <1> QED
    BY <1>6, <1>7

\* The script leaves the journals and the payloads alone.
LEMMA ScriptAlone ==
    ASSUME IInv, AloneInv, ScriptStep \/ Terminated \/ UNCHANGED vars
    PROVE  AloneInv' /\ LedgerStep
  <1>1. journal' = journal /\ payload' = payload /\ tmp' = tmp
    BY DEF ScriptStep, LaunchScript, ScriptWaits, MergeStage, MergeFails, Summarize,
       Terminated, vars, files
  <1>2. ASSUME NEW w \in Workers
        PROVE  worker'[w] = worker[w] \/ worker'[w].pc = "gap"
    <2>1. CASE LaunchScript
      <3>1. worker'[w] = IF w \in MainShells THEN Shell("gap", 1) ELSE worker[w]
        BY <2>1 DEF LaunchScript
      <3> QED
        BY <3>1 DEF Shell
    <2>2. CASE ~LaunchScript
      BY <2>2 DEF ScriptStep, ScriptWaits, MergeStage, MergeFails, Summarize, Terminated, vars
    <2> QED
      BY <2>1, <2>2
  <1>3. ASSUME NEW w \in Workers
        PROVE  ShellAlone(w, worker'[w], journal', payload', tmp')
    <2>1. CASE worker'[w] = worker[w]
      BY <1>1, <2>1 DEF AloneInv
    <2>2. CASE worker'[w].pc = "gap"
      BY <2>2 DEF ShellAlone
    <2> QED
      BY <1>2, <2>1, <2>2
  <1>4. WholeJournals'
    BY <1>1 DEF AloneInv, WholeJournals
  <1>5. LedgerStep
    BY <1>1, LedgerStutters
  <1> QED
    BY <1>3, <1>4, <1>5 DEF AloneInv

LEMMA NextAlone == OneShellEach /\ IInv /\ AloneInv /\ [Next]_vars => AloneInv' /\ LedgerStep
  <1> SUFFICES ASSUME OneShellEach, IInv, AloneInv, [Next]_vars
               PROVE  AloneInv' /\ LedgerStep
    OBVIOUS
  <1>1. ASSUME NEW w \in Workers,
               WorkerStep(w) \/ Crash(w) \/ CrashMidLine(w) \/ StartShell(w)
        PROVE  AloneInv' /\ LedgerStep
    <2>1. ~CrashMidLine(w)
      BY DEF OneShellEach, CrashMidLine
    <2> QED
      BY <1>1, <2>1, RestingStepsAlone, BeginStageAlone, AppendRecordAlone, OpenTmpAlone,
         WriteTmpAlone, ReplacePayloadAlone, CrashAlone DEF WorkerStep
  <1> QED
    BY <1>1, ScriptAlone DEF Next

\* With one shell to a shard and lines that are written whole, the pipeline implements
\* the ledger: across crashes and re-runs no record is computed twice, none before its
\* source is published, and nothing is published before all of it is written down.
THEOREM OneShellKeepsTheLedger ==
    ASSUME OneShellEach
    PROVE  Spec => KeepsLedger
  <1>1. Init => AloneInv /\ Ledger!Init
    BY InitAlone
  <1>2. IInv /\ AloneInv /\ [Next]_vars => AloneInv' /\ [Ledger!Next]_(Ledger!vars)
    BY NextAlone DEF LedgerStep
  <1> QED
    BY <1>1, <1>2, IInvAlways, PTL DEF Spec, KeepsLedger, Ledger!Spec
=============================================================================
