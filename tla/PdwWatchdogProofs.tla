-------------------------- MODULE PdwWatchdogProofs --------------------------
(***************************************************************************)
(* Proofs about PdwWatchdog for any number of shards, prompts, shells and  *)
(* killed processes, torn lines included: types, and what it takes for     *)
(* complete is complete, and it exits with everything merged, if no files  *)
(* of an earlier run are there and every stage has records to make.  The   *)
(* invariant of BaselineShards carries over: to the shells and the script  *)
(* the watchdog is one more starter of shells and one more merge.          *)
(***************************************************************************)
EXTENDS PdwWatchdog, BaselineShardsProofs

\* A payload holds an earlier run's records, all of its stage's or, cut short, none; only
\* a file that is there holds any or is open.
PayloadsInv ==
    \A c \in Cells :
        /\ payload[c].data \in {{}, {EarlierKeys(c)}, {Full(c)}}
        /\ payload[c].data # {} \/ payload[c].writers # {} => payload[c].exists

\* The kinds of change a step makes to a payload.
PayloadChange(c) ==
    \/ payload'[c] = payload[c]
    \/ /\ payload'[c].data = payload[c].data /\ payload'[c].exists = payload[c].exists
       /\ payload'[c].writers \subseteq payload[c].writers
    \/ /\ payload[c].writers # {} /\ payload'[c].exists = payload[c].exists
       /\ payload'[c].data = {Full(c)}
    \/ payload'[c].exists /\ payload'[c].data \subseteq {Full(c)}

LEMMA PayloadChanges ==
    ASSUME IInv, [Next]_vars, NEW c \in Cells
    PROVE  PayloadChange(c)
  <1> USE DEF PayloadChange
  <1>1. CASE payload' = payload
    BY <1>1
  <1>2. ASSUME NEW w \in Workers, WriteTmp(w) PROVE PayloadChange(c)
    <2> DEFINE d == Cell(w)
               out == worker[w].out
    <2>1. /\ payload' = [payload EXCEPT ![d] = WriteFile(@, w, out)]
          /\ worker[w].pc = "write"
      BY <1>2 DEF WriteTmp
    <2>2. d \in Cells /\ out = Full(d) /\ payload \in [Cells -> FilesOf(SUBSET Keys, Workers)]
      BY <2>1, ShellBefore DEF ShellOK, IInv, TypeOK
    <2> HIDE DEF d, out
    <2>3. CASE c # d
      BY <2>1, <2>2, <2>3
    <2>4. CASE c = d
      <3>1. payload'[c] = WriteFile(payload[c], w, out) /\ payload[c] \in FilesOf(SUBSET Keys, Workers)
        BY <2>1, <2>2, <2>4
      <3>2. CASE w \in payload[c].writers
        BY <2>2, <2>4, <3>1, <3>2 DEF WriteFile, FilesOf
      <3>3. CASE w \notin payload[c].writers
        BY <3>1, <3>3 DEF WriteFile
      <3> QED
        BY <3>2, <3>3
    <2> QED
      BY <2>3, <2>4
  <1>3. ASSUME NEW w \in Workers, ReplacePayload(w) PROVE PayloadChange(c)
    <2> DEFINE d == Cell(w)
    <2>1. payload' = [payload EXCEPT ![d] = tmp[d]] /\ tmp[d].exists
      BY <1>3 DEF ReplacePayload
    <2>2. d \in Cells /\ payload \in [Cells -> FilesOf(SUBSET Keys, Workers)]
          /\ tmp[d].data \subseteq {Full(d)}
      BY ShellBefore DEF IInv, TypeOK, TmpInv
    <2> HIDE DEF d
    <2> QED
      BY <2>1, <2>2
  <1>4. ASSUME NEW w \in Workers, Kill(w) PROVE PayloadChange(c)
    <2> DEFINE d == Cell(w)
    <2>1. payload' = [payload EXCEPT ![d] = CloseFile(@, w)]
      BY <1>4 DEF Kill
    <2>2. d \in Cells /\ payload \in [Cells -> FilesOf(SUBSET Keys, Workers)]
      BY ShellBefore DEF IInv, TypeOK
    <2> HIDE DEF d
    <2>3. CASE c # d
      BY <2>1, <2>2, <2>3
    <2>4. CASE c = d
      BY <2>1, <2>2, <2>4 DEF CloseFile, FilesOf
    <2> QED
      BY <2>3, <2>4
  <1>5. ASSUME NEW w \in Workers, WorkerStep(w) PROVE PayloadChange(c)
    BY <1>1, <1>2, <1>3, <1>5
    DEF WorkerStep, StartProcess, BeginStage, BeginFails, AppendRecord, CollectRecords,
        CollectFails, OpenTmp, ReplaceFails, files
  <1>6. ASSUME NEW w \in Workers, Crash(w) \/ CrashMidLine(w) PROVE PayloadChange(c)
    BY <1>4, <1>6 DEF Crash, CrashMidLine
  <1>7. ASSUME NEW w \in Workers, StartShell(w) PROVE PayloadChange(c)
    BY <1>1, <1>7 DEF StartShell, files
  <1>8. CASE ScriptStep
    BY <1>1, <1>8 DEF ScriptStep, LaunchScript, ScriptWaits, MergeStage, MergeFails, Summarize,
                      files
  <1>9. CASE UNCHANGED vars
    BY <1>1, <1>9 DEF vars, files
  <1> QED
    BY <1>5, <1>6, <1>7, <1>8, <1>9 DEF Next, Terminated

LEMMA PayloadsKeep ==
    ASSUME IInv, PayloadsInv, [Next]_vars
    PROVE  /\ PayloadsInv'
           /\ \A c \in Cells : Settled(c, payload) => Settled(c, payload')
  <1>1. ASSUME NEW c \in Cells
        PROVE  /\ payload'[c].data \in {{}, {EarlierKeys(c)}, {Full(c)}}
               /\ payload'[c].data # {} \/ payload'[c].writers # {} => payload'[c].exists
               /\ Settled(c, payload) => Settled(c, payload')
    BY PayloadChanges DEF PayloadChange, PayloadsInv, Settled
  <1> QED
    BY <1>1 DEF PayloadsInv, EarlierKeys, Full

---------------------------------------------------------------------------
\* Counts tell completeness: a payload only has records of its stage, and as many as all
\* of them are all of them.
LEMMA CountsTell ==
    ASSUME IInv, NEW c \in Cells, PayloadSize(payload[c]) >= Cardinality(Full(c))
    PROVE  UNION payload[c].data = Full(c)
  <1> DEFINE have == UNION payload[c].data
  <1>1. have \subseteq Full(c)
    BY DEF IInv, PublishedIsJournalled, OnlyJournalled, Full
  <1>2. IsFiniteSet(Full(c))
    BY KeysFinite, FullIsKeys, FS_Subset
  <1>3. IsFiniteSet(have) /\ Cardinality(have) \in Nat /\ Cardinality(Full(c)) \in Nat
        /\ Cardinality(have) <= Cardinality(Full(c))
        /\ (Cardinality(have) = Cardinality(Full(c)) => have = Full(c))
    BY <1>1, <1>2, FS_Subset, FS_CardinalityType
  <1>4. Cardinality(have) >= Cardinality(Full(c))
    BY DEF PayloadSize
  <1> QED
    BY <1>3, <1>4

LEMMA CompleteTells == IInv => CompleteHasAll
  <1> SUFFICES ASSUME IInv, NEW s \in Shards, Complete(s), NEW st \in Stages
               PROVE  UNION payload[<<s, st>>].data = Expected(s, st)
    BY DEF CompleteHasAll
  <1>1. <<s, st>> \in Cells /\ Full(<<s, st>>) = Expected(s, st)
    BY DEF Cells, Full
  <1> QED
    BY <1>1, CountsTell DEF Complete

\* A stage that has nothing to make, or whose payload is complete or cut short for good.
Sealed(c) == Full(c) = {} \/ Settled(c, payload)

LEMMA CompleteIsSealed ==
    ASSUME IInv, PayloadsInv, NEW s \in Shards, Complete(s), NEW st \in Stages
    PROVE  Sealed(<<s, st>>)
  <1> DEFINE c == <<s, st>>
  <1>1. c \in Cells
    BY DEF Cells
  <1>2. UNION payload[c].data = Full(c)
    BY CompleteTells DEF CompleteHasAll, Full
  <1>3. payload[c].data \in {{}, {EarlierKeys(c)}, {Full(c)}}
        /\ (payload[c].data # {} => payload[c].exists)
    BY <1>1 DEF PayloadsInv
  <1> HIDE DEF c
  <1>4. ASSUME Full(c) # {} PROVE Settled(c, payload)
    <2>1. payload[c].data # {}
      BY <1>2, <1>4
    <2>2. payload[c].data = {EarlierKeys(c)} => EarlierKeys(c) = Full(c)
      BY <1>2
    <2> QED
      BY <1>3, <2>1, <2>2 DEF Settled
  <1> QED
    BY <1>4 DEF Sealed, c
---------------------------------------------------------------------------
\* The watchdog has passed a shard in this round, or has ended it.
Passed(s) == s < dog.shard \/ dog.pc \in {"round", "merging", "summarize"}

\* A round in which every shard was complete has found every payload sealed, and they
\* stay so while it merges, whatever the shells do.
DogInv ==
    /\ dog \in [pc : {"scan", "check", "recover", "round", "merging", "summarize", "exited"},
                shard : Shards, stage : Stages, all : BOOLEAN]
    /\ dog.pc \in {"merging", "summarize"} => dog.all
    /\ dog.pc \in {"check", "recover"} => ~dog.all
    /\ dog.all => \A s \in Shards : Passed(s) => \A st \in Stages : Sealed(<<s, st>>)

DogIInv == IInv /\ PayloadsInv /\ DogInv

LEMMA InitDogIInv == DogInit => DogIInv
  <1> SUFFICES ASSUME DogInit PROVE DogIInv
    OBVIOUS
  <1>1. IInv /\ Init /\ dog = NewRound
    BY InitIInv DEF DogInit
  <1>2. PayloadsInv
    BY <1>1 DEF Init, PayloadsInv, EarlierPayload, Absent
  <1>3. 0 \in Shards /\ 1 \in Stages /\ \A s \in Shards : ~(s < 0)
    BY ShardsAssumption DEF Shards, Stages
  <1>4. DogInv
    BY <1>1, <1>3 DEF DogInv, NewRound, Passed
  <1> QED
    BY <1>1, <1>2, <1>4 DEF DogIInv

\* A step of the shells or the script breaks no seal.
LEMMA SealsHold ==
    ASSUME IInv, PayloadsInv, [Next]_vars, NEW s \in Shards, NEW st \in Stages, Sealed(<<s, st>>)
    PROVE  Sealed(<<s, st>>)'
  <1>1. <<s, st>> \in Cells
    BY DEF Cells
  <1> QED
    BY <1>1, PayloadsKeep DEF Sealed, Full

LEMMA ShardStepDog ==
    ASSUME DogIInv, [Next]_vars, UNCHANGED dog
    PROVE  DogIInv'
  <1>1. IInv' /\ PayloadsInv'
    BY NextIInv, PayloadsKeep DEF DogIInv
  <1>2. DogInv'
    BY SealsHold DEF DogIInv, DogInv, Passed
  <1> QED
    BY <1>1, <1>2 DEF DogIInv

\* The next shard, or the end of the round when there is none.
LEMMA NextShardPasses ==
    ASSUME DogInv
    PROVE  /\ NextShard \in [pc : {"scan", "round"}, shard : Shards, stage : {dog.stage},
                             all : {dog.all}]
           /\ \A s \in Shards : s < NextShard.shard \/ NextShard.pc = "round"
                                    => s < dog.shard \/ s = dog.shard
  <1>1. /\ dog.shard \in Shards /\ dog.stage \in Stages /\ dog.all \in BOOLEAN
        /\ dog = [pc |-> dog.pc, shard |-> dog.shard, stage |-> dog.stage, all |-> dog.all]
    BY DEF DogInv
  <1>2. Shards = 0 .. NumShards - 1 /\ NumShards \in Nat \ {0}
    BY ShardsAssumption DEF Shards
  <1>3. CASE dog.shard + 1 < NumShards
    <2>1. NextShard = [pc |-> "scan", shard |-> dog.shard + 1, stage |-> dog.stage, all |-> dog.all]
      BY <1>1, <1>3 DEF NextShard
    <2>2. /\ dog.shard + 1 \in Shards
          /\ \A s \in Shards : s < dog.shard + 1 => s < dog.shard \/ s = dog.shard
      BY <1>1, <1>2, <1>3
    <2> QED
      BY <2>1, <2>2
  <1>4. CASE ~(dog.shard + 1 < NumShards)
    <2>1. NextShard = [pc |-> "round", shard |-> dog.shard, stage |-> dog.stage, all |-> dog.all]
      BY <1>1, <1>4 DEF NextShard
    <2>2. \A s \in Shards : s < dog.shard \/ s = dog.shard
      BY <1>1, <1>2, <1>4
    <2> QED
      BY <1>1, <2>1, <2>2
  <1> QED
    BY <1>3, <1>4

\* What the watchdog's own steps that leave the files alone do to its invariant.
LEMMA PassesOn ==
    ASSUME DogInv, UNCHANGED payload, dog' = NextShard,
           dog.all => \A st \in Stages : Sealed(<<dog.shard, st>>)
    PROVE  DogInv'
  <1>1. /\ dog'.pc \in {"scan", "round"} /\ dog'.shard \in Shards /\ dog'.stage \in Stages
        /\ dog'.all = dog.all /\ dog.all \in BOOLEAN
        /\ dog' \in [pc : {"scan", "round"}, shard : Shards, stage : Stages, all : BOOLEAN]
    BY NextShardPasses DEF DogInv
  <1>2. ASSUME dog'.all, NEW s \in Shards, Passed(s)', NEW st \in Stages
        PROVE  Sealed(<<s, st>>)'
    <2>1. s < dog.shard \/ s = dog.shard
      BY <1>1, <1>2, NextShardPasses DEF Passed
    <2>2. Sealed(<<s, st>>)
      BY <1>1, <1>2, <2>1 DEF DogInv, Passed
    <2> QED
      BY <2>2 DEF Sealed, Full
  <1> QED
    BY <1>1, <1>2 DEF DogInv

LEMMA NewRoundInv ==
    ASSUME dog' = NewRound
    PROVE  DogInv'
  <1>1. 0 \in Shards /\ 1 \in Stages /\ \A s \in Shards : ~(s < 0)
    BY ShardsAssumption DEF Shards, Stages
  <1> QED
    BY <1>1 DEF DogInv, NewRound, Passed

LEMMA ScanShardDog == ASSUME DogIInv, ScanShard PROVE DogIInv'
  <1>1. dog.pc = "scan" /\ UNCHANGED vars
    BY DEF ScanShard
  <1>2. payload' = payload
    BY <1>1 DEF vars, files
  <1>3. IInv' /\ PayloadsInv'
    BY <1>1, NextIInv, PayloadsKeep DEF DogIInv
  <1>4. CASE Complete(dog.shard) /\ dog' = NextShard
    <2>1. \A st \in Stages : Sealed(<<dog.shard, st>>)
      BY <1>4, CompleteIsSealed DEF DogIInv, DogInv
    <2> QED
      BY <1>2, <1>3, <1>4, <2>1, PassesOn DEF DogIInv
  <1>5. CASE dog' = [dog EXCEPT !.pc = "check", !.all = FALSE]
    <2>1. DogInv'
      BY <1>5 DEF DogIInv, DogInv
    <2> QED
      BY <1>3, <2>1 DEF DogIInv
  <1> QED
    BY <1>4, <1>5 DEF ScanShard

LEMMA CheckRunningDog == ASSUME DogIInv, CheckRunning PROVE DogIInv'
  <1>1. dog.pc = "check" /\ ~dog.all /\ UNCHANGED vars
    BY DEF CheckRunning, DogIInv, DogInv
  <1>2. payload' = payload
    BY <1>1 DEF vars, files
  <1>3. IInv' /\ PayloadsInv'
    BY <1>1, NextIInv, PayloadsKeep DEF DogIInv
  <1>4. CASE dog' = NextShard
    BY <1>1, <1>2, <1>3, <1>4, PassesOn DEF DogIInv
  <1>5. CASE dog' = [dog EXCEPT !.pc = "recover"]
    <2>1. DogInv'
      BY <1>1, <1>5 DEF DogIInv, DogInv
    <2> QED
      BY <1>3, <2>1 DEF DogIInv
  <1> QED
    BY <1>4, <1>5 DEF CheckRunning

\* A recovery is one more shell that starts.
LEMMA StartRecoveryDog == ASSUME DogIInv, StartRecovery PROVE DogIInv'
  <1> DEFINE w == Recovery(dog.shard)
  <1>1. /\ dog.pc = "recover" /\ ~dog.all /\ dog' = NextShard
        /\ worker' = IF Alive(w) THEN worker ELSE [worker EXCEPT ![w] = Shell("gap", 1)]
        /\ UNCHANGED <<files, script, results, crashes>>
    BY DEF StartRecovery, DogIInv, DogInv
  <1>2. w \in Workers /\ w \notin MainShells
    BY WatchdogAssumption DEF DogIInv, DogInv, Recovery, Workers, MainShells
  <1>3. StartShell(w) \/ UNCHANGED vars
    BY <1>1, <1>2 DEF StartShell, vars
  <1>4. [Next]_vars
    BY <1>2, <1>3 DEF Next
  <1>5. IInv' /\ PayloadsInv'
    BY <1>4, NextIInv, PayloadsKeep DEF DogIInv
  <1>6. payload' = payload
    BY <1>1 DEF files
  <1> QED
    BY <1>1, <1>5, <1>6, PassesOn DEF DogIInv

LEMMA EndRoundDog == ASSUME DogIInv, EndRound PROVE DogIInv'
  <1>1. dog.pc = "round" /\ UNCHANGED vars
    BY DEF EndRound
  <1>2. payload' = payload
    BY <1>1 DEF vars, files
  <1>3. IInv' /\ PayloadsInv'
    BY <1>1, NextIInv, PayloadsKeep DEF DogIInv
  <1>4. CASE dog' = NewRound
    BY <1>3, <1>4, NewRoundInv DEF DogIInv
  <1>5. CASE dog.all /\ dog' \in {[dog EXCEPT !.pc = "exited"], [dog EXCEPT !.pc = "merging"]}
    <2>1. dog'.shard = dog.shard /\ dog'.all = dog.all /\ dog'.pc \in {"exited", "merging"}
          /\ dog' \in [pc : {"exited", "merging"}, shard : Shards, stage : Stages, all : BOOLEAN]
      BY <1>5 DEF DogIInv, DogInv
    <2>2. \A s \in Shards, st \in Stages : Sealed(<<s, st>>)'
      <3>1. \A s \in Shards, st \in Stages : Sealed(<<s, st>>)
        BY <1>1, <1>5 DEF DogIInv, DogInv, Passed
      <3> QED
        BY <1>2, <3>1 DEF Sealed, Full
    <2>3. DogInv'
      BY <1>5, <2>1, <2>2 DEF DogInv
    <2> QED
      BY <1>3, <2>3 DEF DogIInv
  <1> QED
    BY <1>4, <1>5 DEF EndRound

\* Merging sealed payloads gives every record of the stage, or nothing where no shard has
\* a payload.
LEMMA SealedMerge ==
    ASSUME IInv, NEW st \in Stages, \A s \in Shards : Sealed(<<s, st>>), MergePayloads(st)
    PROVE  /\ \/ merged' = merged
              \/ merged' = [merged EXCEPT ![st] = {AllRecords(st)}]
           /\ AllRecords(st) # {} => merged' = [merged EXCEPT ![st] = {AllRecords(st)}]
  <1> DEFINE all == UNION UNION {f.data : f \in Shares(st)}
  <1>1. /\ \A f \in Shares(st) : ~Unreadable(f)
        /\ merged' = IF Shares(st) = {} THEN merged ELSE [merged EXCEPT ![st] = {all}]
    BY DEF MergePayloads
  <1>2. ASSUME NEW k \in all PROVE k \in AllRecords(st)
    <2>1. PICK f \in Shares(st) : \E S \in f.data : k \in S
      OBVIOUS
    <2>2. PICK s \in Shards : f = payload[<<s, st>>]
      BY DEF Shares
    <2>3. <<s, st>> \in Cells
      BY DEF Cells
    <2>4. k \in Expected(s, st)
      BY <2>1, <2>2, <2>3 DEF IInv, PublishedIsJournalled, OnlyJournalled
    <2> QED
      BY <2>4 DEF AllRecords
  <1>3. ASSUME NEW k \in AllRecords(st) PROVE k \in all /\ Shares(st) # {}
    <2>1. PICK s \in Shards : k \in Expected(s, st)
      BY DEF AllRecords
    <2> DEFINE f == payload[<<s, st>>]
    <2>2. f.exists /\ f.data \subseteq {Expected(s, st)}
      BY <2>1 DEF Sealed, Settled, Full
    <2>3. f \in Shares(st)
      BY <2>2 DEF Shares
    <2>4. f.data # {}
      BY <1>1, <2>2, <2>3 DEF Unreadable
    <2>5. Expected(s, st) \in f.data
      BY <2>2, <2>4
    <2> HIDE DEF f
    <2> QED
      BY <2>1, <2>3, <2>5
  <1>4. all = AllRecords(st)
    BY <1>2, <1>3
  <1> HIDE DEF all
  <1> QED
    BY <1>1, <1>3, <1>4

LEMMA DogMergesDog == ASSUME DogIInv, DogMerges PROVE DogIInv'
  <1> DEFINE st == dog.stage
  <1>1. /\ dog.pc = "merging" /\ dog.all /\ st \in Stages /\ MergePayloads(st)
        /\ UNCHANGED <<files, worker, script, summary, crashes>>
    BY DEF DogMerges, DogIInv, DogInv
  <1>2. /\ journal' = journal /\ payload' = payload /\ tmp' = tmp /\ worker' = worker
        /\ script' = script /\ summary' = summary /\ crashes' = crashes
    BY <1>1 DEF files
  <1>3. \A s \in Shards : \A i \in Stages : Sealed(<<s, i>>)
    BY <1>1 DEF DogIInv, DogInv, Passed
  <1>4. merged' = merged \/ merged' = [merged EXCEPT ![st] = {AllRecords(st)}]
    BY <1>1, <1>3, SealedMerge DEF DogIInv
  <1>5. merged \in [Stages -> SUBSET SUBSET Keys] /\ AllRecords(st) \subseteq Keys
    BY <1>1, AllRecordsAreKeys DEF DogIInv, IInv, TypeOK
  <1>6. /\ merged' \in [Stages -> SUBSET SUBSET Keys]
        /\ \A i \in Stages : merged[i] = {AllRecords(i)} => merged'[i] = {AllRecords(i)}
    BY <1>1, <1>4, <1>5
  <1> HIDE DEF st
  <1>7. ScriptInv'
    <2>1. script.pc \in {"summarize", "done"} => \A i \in Stages : merged[i] = {AllRecords(i)}
      BY DEF DogIInv, IInv, ScriptInv
    <2>2. script.pc = "done" => merged' = merged
      BY <1>1, <1>4, <1>5, <2>1
    <2>3. \A i \in 1 .. (script.stage - 1) : i \in Stages
      BY ShardsAssumption DEF DogIInv, IInv, TypeOK, Stages
    <2> QED
      BY <1>2, <1>6, <2>1, <2>2, <2>3 DEF DogIInv, IInv, ScriptInv
  <1>8. TypeOK' /\ ShellsInv'
    BY <1>2, <1>6 DEF DogIInv, IInv, TypeOK, ShellsInv
  <1>9. IInv'
    BY <1>2, <1>7, <1>8, ScriptMoves DEF DogIInv, files
  <1>10. PayloadsInv'
    BY <1>2 DEF DogIInv, PayloadsInv, EarlierKeys, Full
  <1>11. dog' = (IF st = LastStage THEN [dog EXCEPT !.pc = "summarize"]
                 ELSE [dog EXCEPT !.stage = @ + 1])
    BY DEF DogMerges, st
  <1>12. st # LastStage => st + 1 \in Stages
    BY <1>1, ShardsAssumption DEF Stages
  <1>13. DogInv'
    <2>1. \A s \in Shards : \A i \in Stages : Sealed(<<s, i>>)'
      BY <1>2, <1>3 DEF Sealed, Full
    <2>2. /\ dog' \in [pc : {"merging", "summarize"}, shard : Shards, stage : Stages, all : BOOLEAN]
          /\ dog'.all
      BY <1>1, <1>11, <1>12 DEF DogIInv, DogInv, st
    <2> QED
      BY <2>1, <2>2 DEF DogInv
  <1> QED
    BY <1>9, <1>10, <1>13 DEF DogIInv

LEMMA DogSummarizesDog == ASSUME DogIInv, DogSummarizes PROVE DogIInv'
  <1>1. /\ dog.pc = "summarize" /\ dog' = [dog EXCEPT !.pc = "exited"]
        /\ summary' = {merged}
        /\ UNCHANGED <<files, worker, script, merged, crashes>>
    BY DEF DogSummarizes
  <1>2. payload' = payload
    BY <1>1 DEF files
  <1>3. merged \in [Stages -> SUBSET SUBSET Keys]
    BY DEF DogIInv, IInv, TypeOK
  <1>4. ScriptInv'
    BY <1>1 DEF DogIInv, IInv, ScriptInv
  <1>5. IInv'
    BY <1>1, <1>3, <1>4, ScriptGoes DEF DogIInv, IInv, TypeOK
  <1>6. PayloadsInv'
    BY <1>2 DEF DogIInv, PayloadsInv, EarlierKeys, Full
  <1>7. DogInv'
    <2>1. \A s \in Shards : \A i \in Stages : Sealed(<<s, i>>)
      BY <1>1 DEF DogIInv, DogInv, Passed
    <2>2. \A s \in Shards : \A i \in Stages : Sealed(<<s, i>>)'
      BY <1>2, <2>1 DEF Sealed, Full
    <2> QED
      BY <1>1, <2>2 DEF DogIInv, DogInv
  <1> QED
    BY <1>5, <1>6, <1>7 DEF DogIInv

LEMMA DogNextIInv == DogIInv /\ [DogNext]_allVars => DogIInv'
  <1> SUFFICES ASSUME DogIInv, [DogNext]_allVars PROVE DogIInv'
    OBVIOUS
  <1>1. CASE ShardStep
    <2>1. [Next]_vars /\ UNCHANGED dog
      BY <1>1 DEF ShardStep, Next, dogVars
    <2> QED
      BY <2>1, ShardStepDog
  <1>2. CASE DogMergeFails
    <2>1. UNCHANGED vars /\ dog' = NewRound
      BY <1>2 DEF DogMergeFails
    <2>2. IInv' /\ PayloadsInv'
      BY <2>1, NextIInv, PayloadsKeep DEF DogIInv
    <2> QED
      BY <2>1, <2>2, NewRoundInv DEF DogIInv
  <1>3. CASE DogStep
    BY <1>2, <1>3, ScanShardDog, CheckRunningDog, StartRecoveryDog, EndRoundDog, DogMergesDog,
       DogSummarizesDog DEF DogStep
  <1>4. CASE UNCHANGED allVars
    <2>1. UNCHANGED vars /\ UNCHANGED dog
      BY <1>4 DEF allVars, dogVars
    <2> QED
      BY <2>1, ShardStepDog
  <1> QED
    BY <1>1, <1>3, <1>4 DEF DogNext, DogExited

LEMMA DogIInvAlways == DogSpec => []DogIInv
  BY InitDogIInv, DogNextIInv, PTL DEF DogSpec

\* Whatever shells write a shard's files, and wherever they are killed, a shard whose
\* payloads have the expected lengths (shard_complete) has all the expected records.
THEOREM CountsDoTell == DogSpec => []CompleteHasAll
  BY DogIInvAlways, CompleteTells, PTL DEF DogIInv

\* What the shards promise holds with a watchdog beside them as well: its recovery
\* shells publish nothing that is not in the journal.
THEOREM PublishedBesideDog == DogSpec => []PublishedIsJournalled
  BY DogIInvAlways, PTL DEF DogIInv, IInv

\* A script that reports success is complete also when the watchdog merges at its side.
THEOREM SuccessBesideDog == DogSpec => []MergedIsComplete
  <1>1. DogIInv => MergedIsComplete
    BY DEF DogIInv, IInv, ScriptInv, MergedIsComplete
  <1> QED
    BY <1>1, DogIInvAlways, PTL

---------------------------------------------------------------------------
\* Without files of an earlier run a merged file is whole once it is there, and summaries
\* are of whole files; the watchdog merges from the first stage on.
AllMerged == \A st \in Stages : merged[st] = {AllRecords(st)}

MergedInv ==
    /\ \A st \in Stages : merged[st] \in {{}, {AllRecords(st)}}
    /\ summary # {} => AllMerged

ExitInv ==
    /\ dog.pc \in {"scan", "check", "recover", "round"} => dog.stage = 1
    /\ dog.pc = "merging" => \A st \in 1..(dog.stage - 1) : merged[st] = {AllRecords(st)}
    /\ dog.pc \in {"summarize", "exited"} => AllMerged

\* Whoever merges writes all records of a stage.
LEMMA MergedMoves ==
    ASSUME DogIInv, [DogNext]_allVars
    PROVE  \/ merged' = merged
           \/ \E st \in Stages : merged' = [merged EXCEPT ![st] = {AllRecords(st)}]
  <1>1. CASE MergeStage
    <2>1. script.pc = "merging" /\ MergePayloads(script.stage) /\ script.stage \in Stages
      BY <1>1 DEF MergeStage, DogIInv, IInv, TypeOK
    <2> QED
      BY <2>1, MergedShares DEF DogIInv
  <1>2. CASE DogMerges
    <2>1. /\ dog.pc = "merging" /\ dog.all /\ dog.stage \in Stages
          /\ MergePayloads(dog.stage)
      BY <1>2 DEF DogMerges, DogIInv, DogInv
    <2>2. \A s \in Shards : Sealed(<<s, dog.stage>>)
      BY <2>1 DEF DogIInv, DogInv, Passed
    <2> QED
      BY <2>1, <2>2, SealedMerge DEF DogIInv
  <1>3. CASE ScriptStep
    BY <1>1, <1>3 DEF ScriptStep, LaunchScript, ScriptWaits, MergeFails, Summarize, results
  <1>4. ASSUME NEW w \in Workers, WorkerStep(w) \/ Crash(w) \/ CrashMidLine(w)
        PROVE  merged' = merged
    BY <1>4
    DEF WorkerStep, StartProcess, BeginStage, BeginFails, AppendRecord, CollectRecords,
        CollectFails, OpenTmp, WriteTmp, ReplacePayload, ReplaceFails, Crash, CrashMidLine,
        Kill, results
  <1>5. CASE DogStep
    BY <1>2, <1>5 DEF DogStep, ScanShard, CheckRunning, StartRecovery, EndRound, DogMergeFails,
                      DogSummarizes, vars, results
  <1>6. CASE UNCHANGED allVars
    BY <1>6 DEF allVars, vars, results
  <1> QED
    BY <1>3, <1>4, <1>5, <1>6 DEF DogNext, ShardStep, DogExited

\* Summaries are written of complete merges only.
LEMMA SummaryMoves ==
    ASSUME DogIInv, ExitInv, [DogNext]_allVars
    PROVE  summary' = summary \/ AllMerged
  <1>1. CASE Summarize
    BY <1>1 DEF Summarize, DogIInv, IInv, ScriptInv, AllMerged
  <1>2. CASE DogSummarizes
    BY <1>2 DEF DogSummarizes, ExitInv
  <1>3. CASE ScriptStep
    BY <1>1, <1>3 DEF ScriptStep, LaunchScript, ScriptWaits, MergeStage, MergeFails, results
  <1>4. ASSUME NEW w \in Workers, WorkerStep(w) \/ Crash(w) \/ CrashMidLine(w)
        PROVE  summary' = summary
    BY <1>4
    DEF WorkerStep, StartProcess, BeginStage, BeginFails, AppendRecord, CollectRecords,
        CollectFails, OpenTmp, WriteTmp, ReplacePayload, ReplaceFails, Crash, CrashMidLine,
        Kill, results
  <1>5. CASE DogStep
    BY <1>2, <1>5 DEF DogStep, ScanShard, CheckRunning, StartRecovery, EndRound, DogMerges,
                      DogMergeFails, vars, results
  <1>6. CASE UNCHANGED allVars
    BY <1>6 DEF allVars, vars, results
  <1> QED
    BY <1>3, <1>4, <1>5, <1>6 DEF DogNext, ShardStep, DogExited

LEMMA MergedKeeps ==
    ASSUME DogIInv, MergedInv, ExitInv, [DogNext]_allVars
    PROVE  /\ MergedInv'
           /\ \A st \in Stages : merged[st] = {AllRecords(st)} => merged'[st] = {AllRecords(st)}
  <1>1. merged \in [Stages -> SUBSET SUBSET Keys]
    BY DEF DogIInv, IInv, TypeOK
  <1>2. \A st \in Stages : \/ merged'[st] = merged[st]
                            \/ merged'[st] = {AllRecords(st)}
    BY <1>1, MergedMoves
  <1>3. \A st \in Stages : merged[st] = {AllRecords(st)} => merged'[st] = {AllRecords(st)}
    BY <1>2
  <1>4. AllMerged => AllMerged'
    BY <1>3 DEF AllMerged
  <1>5. summary' # {} => AllMerged'
    BY <1>4, SummaryMoves DEF MergedInv
  <1>6. \A st \in Stages : merged'[st] \in {{}, {AllRecords(st)}}
    BY <1>2 DEF MergedInv
  <1> QED
    BY <1>3, <1>5, <1>6 DEF MergedInv

\* With prompts and attacks no stage is without records.
LEMMA SomeRecords ==
    ASSUME Limit >= 1, NumAttacks >= 1, NEW st \in Stages
    PROVE  AllRecords(st) # {}
  <1>1. 0 \in Samples /\ 0 \in Shards /\ 0 % NumShards = 0
    BY ShardsAssumption DEF Samples, Shards
  <1>2. {0, 1} \subseteq 0..NumAttacks
    BY ShardsAssumption
  <1>3. <<0, 1, 0>> \in Keys /\ <<0, 1, 1>> \in Keys
    BY <1>1, <1>2 DEF Keys
  <1>4. <<0, 1, 0>> \in ShardItems(0)
    BY <1>1, <1>3 DEF ShardItems
  <1>5. CASE st \in PerAttack
    <2>1. <<0, 1, 1>> \in Expected(0, st)
      BY <1>3, <1>4, <1>5 DEF Expected, Derived
    <2> QED
      BY <1>1, <2>1 DEF AllRecords
  <1>6. CASE st \notin PerAttack
    <2>1. <<0, 1, 0>> \in Expected(0, st)
      BY <1>3, <1>4, <1>6 DEF Expected, Derived
    <2> QED
      BY <1>1, <2>1 DEF AllRecords
  <1> QED
    BY <1>5, <1>6

LEMMA DogMergesExits ==
    ASSUME Limit >= 1, NumAttacks >= 1, DogIInv, ExitInv, DogMerges
    PROVE  ExitInv'
  <1> DEFINE st == dog.stage
  <1>1. /\ dog.pc = "merging" /\ dog.all /\ st \in Stages /\ MergePayloads(st)
        /\ dog = [pc |-> dog.pc, shard |-> dog.shard, stage |-> dog.stage, all |-> dog.all]
        /\ dog' = (IF st = LastStage THEN [dog EXCEPT !.pc = "summarize"]
                   ELSE [dog EXCEPT !.stage = @ + 1])
    BY DEF DogMerges, DogIInv, DogInv
  <1>2. \A s \in Shards : Sealed(<<s, st>>)
    BY <1>1 DEF DogIInv, DogInv, Passed
  <1>3. merged' = [merged EXCEPT ![st] = {AllRecords(st)}]
    BY <1>1, <1>2, SealedMerge, SomeRecords DEF DogIInv
  <1>4. merged \in [Stages -> SUBSET SUBSET Keys]
    BY DEF DogIInv, IInv, TypeOK
  <1>5. \A i \in 1..(st - 1) : merged[i] = {AllRecords(i)}
    BY <1>1 DEF ExitInv
  <1>6. LastStage \in Nat /\ Stages = 1..LastStage
    BY ShardsAssumption DEF Stages
  <1> HIDE DEF st
  <1>7. \A i \in 1..st : merged'[i] = {AllRecords(i)}
    <2>1. \A i \in 1..st : i \in Stages /\ (i = st \/ i \in 1..(st - 1))
      BY <1>1, <1>6
    <2> QED
      BY <1>3, <1>4, <1>5, <2>1
  <1>8. CASE st = LastStage
    <2>1. dog'.pc = "summarize"
      BY <1>1, <1>8
    <2>2. AllMerged'
      BY <1>6, <1>7, <1>8 DEF AllMerged
    <2> QED
      BY <2>1, <2>2 DEF ExitInv
  <1>9. CASE st # LastStage
    <2>1. dog'.pc = "merging" /\ dog'.stage = st + 1
      BY <1>1, <1>9 DEF st
    <2>2. (st + 1) - 1 = st
      BY <1>1, <1>6
    <2> QED
      BY <1>7, <2>1, <2>2 DEF ExitInv
  <1> QED
    BY <1>8, <1>9

LEMMA NextExitInv ==
    ASSUME Limit >= 1, NumAttacks >= 1, DogIInv, MergedInv, ExitInv, [DogNext]_allVars
    PROVE  MergedInv' /\ ExitInv'
  <1>1. MergedInv' /\ \A st \in Stages : merged[st] = {AllRecords(st)} => merged'[st] = {AllRecords(st)}
    BY MergedKeeps
  <1> SUFFICES ExitInv'
    BY <1>1
  <1>2. AllMerged => AllMerged'
    BY <1>1 DEF AllMerged
  <1>3. /\ dog.stage \in Stages
        /\ dog = [pc |-> dog.pc, shard |-> dog.shard, stage |-> dog.stage, all |-> dog.all]
    BY DEF DogIInv, DogInv
  <1>4. \A i \in 1..(dog.stage - 1) : i \in Stages
    BY <1>3, ShardsAssumption DEF Stages
  <1>5. CASE UNCHANGED dog
    BY <1>1, <1>2, <1>4, <1>5 DEF ExitInv
  <1>6. CASE dog' = NewRound
    BY <1>6 DEF ExitInv, NewRound
  <1>7. ASSUME dog' = NextShard, dog.stage = 1 PROVE ExitInv'
    <2>1. dog'.pc \in {"scan", "round"} /\ dog'.stage = 1
      BY <1>7, NextShardPasses DEF DogIInv
    <2> QED
      BY <2>1 DEF ExitInv
  <1>8. ASSUME NEW pc \in {"check", "recover"}, dog'.pc = pc, dog'.stage = dog.stage,
               dog.stage = 1
        PROVE  ExitInv'
    BY <1>8 DEF ExitInv
  <1>9. CASE ScanShard
    <2>1. dog.stage = 1
      BY <1>9 DEF ScanShard, ExitInv
    <2>2. CASE dog' = [dog EXCEPT !.pc = "check", !.all = FALSE]
      BY <1>3, <1>8, <2>1, <2>2
    <2> QED
      BY <1>7, <1>9, <2>1, <2>2 DEF ScanShard
  <1>10. CASE CheckRunning
    <2>1. dog.stage = 1
      BY <1>10 DEF CheckRunning, ExitInv
    <2>2. CASE dog' = [dog EXCEPT !.pc = "recover"]
      BY <1>3, <1>8, <2>1, <2>2
    <2> QED
      BY <1>7, <1>10, <2>1, <2>2 DEF CheckRunning
  <1>11. CASE StartRecovery
    BY <1>7, <1>11 DEF StartRecovery, ExitInv
  <1>12. CASE EndRound
    <2>1. dog.stage = 1
      BY <1>12 DEF EndRound, ExitInv
    <2>2. CASE summary # {} /\ dog' = [dog EXCEPT !.pc = "exited"]
      BY <1>2, <1>3, <2>2 DEF ExitInv, MergedInv
    <2>3. CASE dog' = [dog EXCEPT !.pc = "merging"]
      <3>1. dog'.pc = "merging" /\ dog'.stage = 1
        BY <1>3, <2>1, <2>3
      <3> QED
        BY <3>1 DEF ExitInv
    <2> QED
      BY <1>6, <1>12, <2>2, <2>3 DEF EndRound
  <1>13. CASE DogSummarizes
    BY <1>2, <1>3, <1>13 DEF DogSummarizes, ExitInv
  <1>14. CASE DogStep
    BY <1>6, <1>9, <1>10, <1>11, <1>12, <1>13, <1>14, DogMergesExits DEF DogStep, DogMergeFails
  <1> QED
    BY <1>1, <1>5, <1>14 DEF DogNext, ShardStep, DogExited, allVars, dogVars

\* Where no files of an earlier run are there and there is something to make, the watchdog
\* exits only beside merged files with every record of every shard (merge_if_ready).
THEOREM ExitIsComplete ==
    ASSUME EarlierLimit = 0, Limit >= 1, NumAttacks >= 1
    PROVE  DogSpec => []ExitsWithAll
  <1>1. DogInit => MergedInv /\ ExitInv
    BY DEF DogInit, Init, NewRound, MergedInv, ExitInv
  <1>2. DogIInv /\ MergedInv /\ ExitInv /\ [DogNext]_allVars => (MergedInv /\ ExitInv)'
    BY NextExitInv
  <1>3. ExitInv => ExitsWithAll
    BY DEF ExitInv, AllMerged, ExitsWithAll
  <1> QED
    BY <1>1, <1>2, <1>3, DogIInvAlways, PTL DEF DogSpec

---------------------------------------------------------------------------
\* The total of a shard's lines is a recursive function over the stages: one step of its
\* equation, that some function satisfies it, and that it counts.
Totals(s, T, n) ==
    [st \in 0..n |-> IF st = 0 THEN 0 ELSE T[st - 1] + journal[<<s, st>>].lines]

LEMMA TotalsExist ==
    ASSUME NEW s
    PROVE  \A n \in Nat : \E T : T = Totals(s, T, n)
  <1> DEFINE S == {n \in Nat : \E T : T = Totals(s, T, n)}
             Line(st) == journal[<<s, st>>].lines
  <1>1. 0 \in S
    <2> DEFINE T == [st \in 0..0 |-> 0]
    <2>1. T = Totals(s, T, 0)
      BY DEF Totals
    <2> QED
      BY <2>1
  <1>2. ASSUME NEW n \in Nat, n \in S PROVE n + 1 \in S
    <2>1. PICK T : T = Totals(s, T, n)
      BY <1>2
    <2> DEFINE U == [st \in 0..(n + 1) |-> IF st = n + 1 THEN T[n] + Line(n + 1) ELSE T[st]]
               V == Totals(s, U, n + 1)
    <2>2. \A st \in 0..(n + 1) : V[st] = IF st = 0 THEN 0 ELSE U[st - 1] + Line(st)
      BY DEF Totals
    <2>3. \A st \in 0..n : T[st] = IF st = 0 THEN 0 ELSE T[st - 1] + Line(st)
      BY <2>1 DEF Totals
    <2>4. \A st \in 0..(n + 1) : U[st] = IF st = n + 1 THEN T[n] + Line(n + 1) ELSE T[st]
      OBVIOUS
    <2>5. V = [st \in 0..(n + 1) |-> V[st]]
      BY DEF Totals
    <2> HIDE DEF U, V, Line
    <2>6. ASSUME NEW st \in 0..(n + 1) PROVE V[st] = U[st]
      <3>1. CASE st = 0
        BY <2>2, <2>3, <2>4, <3>1
      <3>2. CASE st \in 1..n
        <4>1. /\ st - 1 \in 0..(n + 1) /\ st - 1 # n + 1
              /\ st \in 0..n /\ st # 0 /\ st # n + 1
          BY <3>2
        <4> QED
          BY <2>2, <2>3, <2>4, <4>1
      <3>3. CASE st = n + 1
        <4>1. st - 1 = n /\ n \in 0..(n + 1) /\ n # n + 1 /\ st # 0
          BY <3>3
        <4> QED
          BY <2>2, <2>4, <3>3, <4>1
      <3> QED
        BY <3>1, <3>2, <3>3
    <2>7. U = V
      BY <2>5, <2>6 DEF U
    <2> QED
      BY <2>7 DEF V
  <1> HIDE DEF S
  <1>3. \A n \in Nat : n \in S
    BY <1>1, <1>2, Induction
  <1> QED
    BY <1>3 DEF S

LEMMA TotalCounts ==
    ASSUME TypeOK, NEW s \in Shards
    PROVE  JsonlTotal(s) \in Nat
  <1>1. PICK top \in Nat : top = LastStage
    BY ShardsAssumption
  <1> DEFINE T == CHOOSE U : U = Totals(s, U, top)
  <1>2. T = Totals(s, T, top)
    BY TotalsExist
  <1>3. JsonlTotal(s) = T[top]
    BY <1>1 DEF JsonlTotal, Totals
  <1> HIDE DEF T
  <1>4. \A st \in 0..top : T[st] = IF st = 0 THEN 0 ELSE T[st - 1] + journal[<<s, st>>].lines
    BY <1>2 DEF Totals
  <1> DEFINE S == {n \in Nat : n <= top => T[n] \in Nat}
  <1>5. 0 \in S
    <2>1. 0 \in 0..top
      OBVIOUS
    <2>2. T[0] = 0
      BY <1>4, <2>1
    <2> QED
      BY <2>2
  <1>6. ASSUME NEW n \in Nat, n \in S PROVE n + 1 \in S
    <2> SUFFICES ASSUME n + 1 <= top PROVE T[n + 1] \in Nat
      OBVIOUS
    <2>1. n + 1 \in 0..top /\ n + 1 # 0 /\ (n + 1) - 1 = n
      OBVIOUS
    <2>2. T[n + 1] = T[n] + journal[<<s, n + 1>>].lines
      BY <1>4, <2>1
    <2>3. <<s, n + 1>> \in Cells
      BY <1>1 DEF Cells, Stages
    <2>4. journal[<<s, n + 1>>].lines \in Nat
      BY <2>3 DEF TypeOK, Journals
    <2> QED
      BY <1>6, <2>2, <2>4
  <1> HIDE DEF S
  <1>7. \A n \in Nat : n \in S
    BY <1>5, <1>6, Induction
  <1> QED
    BY <1>3, <1>7 DEF S

\* What the watchdog remembers of the rounds before: how long a shard has been stalled,
\* which stops at the value it is compared with, and how many lines it had.
RoundsOK ==
    /\ stalled \in [Shards -> 0..StalledIntervals]
    /\ last \in [Shards -> Nat \cup {-1}]

LEMMA NextRoundsOK == DogIInv /\ RoundsOK /\ [DogNext]_allVars => RoundsOK'
  <1> SUFFICES ASSUME DogIInv, RoundsOK, [DogNext]_allVars PROVE RoundsOK'
    OBVIOUS
  <1>1. dog.shard \in Shards /\ TypeOK /\ StalledIntervals \in Nat
    BY WatchdogAssumption DEF DogIInv, DogInv, IInv
  <1>2. CASE ScanShard
    <2> DEFINE s == dog.shard
    <2>1. JsonlTotal(s) \in Nat
      BY <1>1, TotalCounts
    <2>2. \/ stalled' = [stalled EXCEPT ![s] = 0] /\ last' = last
          \/ /\ \/ stalled' = [stalled EXCEPT ![s] = 0]
                \/ stalled' = stalled
                \/ stalled[s] < StalledIntervals /\ stalled' = [stalled EXCEPT ![s] = @ + 1]
             /\ last' = [last EXCEPT ![s] = JsonlTotal(s)]
      <3>1. CASE Complete(s) /\ stalled' = [stalled EXCEPT ![s] = 0] /\ UNCHANGED last
        BY <3>1
      <3>2. CASE /\ stalled' = [stalled EXCEPT ![s] =
                     IF ~(last[s] # -1 /\ JsonlTotal(s) <= last[s]) THEN 0
                     ELSE IF @ < StalledIntervals THEN @ + 1 ELSE @]
                 /\ last' = [last EXCEPT ![s] = JsonlTotal(s)]
        BY <3>2 DEF RoundsOK
      <3> QED
        BY <1>2, <3>1, <3>2 DEF ScanShard
    <2> HIDE DEF s
    <2> QED
      BY <1>1, <2>1, <2>2 DEF RoundsOK, s
  <1>3. CASE StartRecovery
    BY <1>1, <1>3 DEF StartRecovery, RoundsOK
  <1>4. CASE UNCHANGED <<stalled, last>>
    BY <1>4 DEF RoundsOK
  <1>5. CheckRunning \/ EndRound \/ DogMerges \/ DogMergeFails \/ DogSummarizes \/ ShardStep
            \/ UNCHANGED allVars => UNCHANGED <<stalled, last>>
    BY DEF CheckRunning, EndRound, DogMerges, DogMergeFails, DogSummarizes, ShardStep, allVars,
           dogVars
  <1> QED
    BY <1>2, <1>3, <1>4, <1>5 DEF DogNext, DogStep, DogExited

\* Types, beside any shells: a shard is scanned, checked or recovered only while there is
\* one, and the counts of lines are numbers however lines are torn.
THEOREM DogTypeCorrect == DogSpec => []DogTypeOK
  <1>1. DogInit => RoundsOK
    BY WatchdogAssumption DEF DogInit, RoundsOK
  <1>2. DogIInv /\ RoundsOK => DogTypeOK
    BY DEF DogIInv, IInv, DogInv, RoundsOK, DogTypeOK
  <1> QED
    BY <1>1, <1>2, NextRoundsOK, DogIInvAlways, PTL DEF DogSpec
=============================================================================
