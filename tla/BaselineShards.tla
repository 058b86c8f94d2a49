--------------------------- MODULE BaselineShards ---------------------------
(***************************************************************************)
(* The sharded baseline experiment: run_parallel_gpt2_baseline.sh starts   *)
(* one shell per shard, which runs the experiment, the attacks, their      *)
(* detection and the perplexities one after the other.  Each stage appends *)
(* a line per record to its journal, a .records.jsonl, skips the records   *)
(* the journal already has, and at last replaces its payload, a .json,     *)
(* through a temporary file.  A shell stops at the first stage that fails, *)
(* the script merges when no shell failed, and the operator runs it again  *)
(* when one did.                                                           *)
(*                                                                         *)
(* A shard may have further shells, which a watchdog starts; here they may *)
(* start at any time.                                                      *)
(*                                                                         *)
(* What is abstracted.  A record is its key: its text, its scores and the  *)
(* errors recorded in it change nothing here.  A process is killed between *)
(* two of its steps, or, where TornWrites allows it, in the middle of the  *)
(* write of a line.  The merge reads the payloads at once.                 *)
(***************************************************************************)
EXTENDS Integers, FiniteSets, SharedFile

CONSTANTS
    NumShards,      \* one per GPU
    Limit,          \* number of prompts
    EarlierLimit,   \* number of prompts of an earlier, complete run, or 0
    NumAttacks,     \* number of text attacks
    Roles,          \* the shells a shard may have, "main" the script's
    LastStage,      \* bound: the shells run the stages up to this one of the six
    MaxCrashes,     \* bound: how many processes are killed
    TornWrites      \* whether a kill can leave part of a line

ASSUME ShardsAssumption ==
    /\ NumShards \in Nat \ {0}
    /\ Limit \in Nat
    /\ EarlierLimit \in 0..Limit
    /\ NumAttacks \in Nat
    /\ "main" \in Roles
    /\ LastStage \in 2..6
    /\ MaxCrashes \in Nat
    /\ TornWrites \in BOOLEAN

Shards == 0..(NumShards - 1)
Samples == 0..(Limit - 1)

\* PIPELINE_FILES, in the order the shell produces them.
Stages == 1..LastStage
Generations == 1
Detection == 2
Attacks == 3
AttackDetection == 4
Ppl == 5
AttackPpl == 6

\* --input of each stage; the experiment itself reads the prompts.
Source(st) == IF st \in {AttackDetection, AttackPpl} THEN Attacks ELSE Generations

\* record_key: sample, 1 for wm and 2 for uwm, and the attack or 0 for none.
Keys == Samples \X {1, 2} \X (0..NumAttacks)

\* sort_records and the nested loops over records and their attacks.
Before(k, l) ==
    \/ k[1] < l[1]
    \/ k[1] = l[1] /\ k[2] < l[2]
    \/ k[1] = l[1] /\ k[2] = l[2] /\ k[3] < l[3]
First(S) == CHOOSE k \in S : \A l \in S \ {k} : Before(k, l)

\* shard_items over the prompts, each to be answered with and without watermark.
ShardItems(s) == {k \in Keys : k[1] % NumShards = s /\ k[3] = 0}

PerAttack == {AttackDetection, AttackPpl}

\* What a stage makes of the records of its source.
Derived(st, S) ==
    {k \in Keys : <<k[1], k[2], 0>> \in S /\ (st \in PerAttack <=> k[3] # 0)}

Expected(s, st) == Derived(st, ShardItems(s))

Cells == Shards \X Stages

VARIABLES
    journal,    \* journal[c]: the records of a stage's jsonl file
    payload,    \* payload[c]: its json file
    tmp,        \* tmp[c]: the json.tmp file it is written to first
    worker,     \* worker[w]: the shell w of a shard and the process it runs
    script,     \* the script over all shards
    merged,     \* merged[st]: the merged file of a stage, at most one
    summary,    \* the merged files the summaries are of, at most one
    crashes     \* how many processes were killed

files == <<journal, payload, tmp>>
results == <<merged, summary>>
vars == <<files, worker, script, results, crashes>>

Workers == Shards \X Roles

---------------------------------------------------------------------------
\* A jsonl file: the keys of its records, its number of non-blank lines,
\* whether every line parses and whether the last line has its end.
EmptyJournal == [keys |-> {}, lines |-> 0, valid |-> TRUE, ended |-> TRUE]

\* append_jsonl: a line that has lost its end swallows the next record.
WriteLine(j, k) ==
    IF j.ended
    THEN [j EXCEPT !.keys = @ \cup {k}, !.lines = @ + 1]
    ELSE [j EXCEPT !.valid = FALSE, !.ended = TRUE]

\* The same, killed halfway through the line or just before its end.
WritePart(j, k) ==
    {[j EXCEPT !.lines = IF j.ended THEN @ + 1 ELSE @, !.valid = FALSE, !.ended = FALSE]}
    \cup (IF j.ended THEN {[WriteLine(j, k) EXCEPT !.ended = FALSE]} ELSE {})

Shell(pc, st) == [pc |-> pc, stage |-> st, input |-> {}, existing |-> {}, out |-> {}]

Cell(w) == <<w[1], worker[w].stage>>

\* The records the process at hand starts from, if it can read them: the experiment
\* shards the prompts and then detects the records it holds in memory.
InputsOf(w) ==
    IF worker[w].pc = "next" THEN {worker[w].out}
    ELSE IF worker[w].stage = Generations THEN {ShardItems(w[1])}
    ELSE payload[<<w[1], Source(worker[w].stage)>>].data

Todo(w) == worker[w].input \ worker[w].existing

\* json.load of a payload that is there but cut short raises.
Unreadable(f) == f.exists /\ f.data = {}

---------------------------------------------------------------------------
\* The files as an earlier run with fewer prompts left them.
EarlierKeys(c) == {k \in Expected(c[1], c[2]) : k[1] < EarlierLimit}

EarlierJournal(c) ==
    [EmptyJournal EXCEPT !.keys = EarlierKeys(c), !.lines = Cardinality(EarlierKeys(c))]

EarlierPayload(c) == [Absent EXCEPT !.exists = TRUE, !.data = {EarlierKeys(c)}]

EarlierMerged == [st \in Stages |-> {UNION {EarlierKeys(<<s, st>>) : s \in Shards}}]

Init ==
    /\ journal = [c \in Cells |-> EarlierJournal(c)]
    /\ payload = [c \in Cells |-> IF EarlierLimit = 0 THEN Absent ELSE EarlierPayload(c)]
    /\ tmp = [c \in Cells |-> Absent]
    /\ worker = [w \in Workers |-> Shell("off", 1)]
    /\ script = [pc |-> "off", stage |-> 1]
    /\ merged = IF EarlierLimit = 0 THEN [st \in Stages |-> {}] ELSE EarlierMerged
    /\ summary = IF EarlierLimit = 0 THEN {} ELSE {EarlierMerged}
    /\ crashes = 0

Goto(w, pc) == worker' = [worker EXCEPT ![w].pc = pc]
Fails(w) == worker' = [worker EXCEPT ![w] = Shell("failed", @.stage)]

\* The shell runs its next process, which loads its models first.
StartProcess(w) ==
    /\ worker[w].pc = "gap"
    /\ Goto(w, "start")
    /\ UNCHANGED <<files, script, results, crashes>>

\* Mutant: --no-resume.
BeginFromScratch(w) ==
    /\ worker[w].pc \in {"start", "next"}
    /\ journal[Cell(w)].valid
    /\ \E S \in InputsOf(w) :
          worker' = [worker EXCEPT ![w] =
              [Shell("loop", @.stage) EXCEPT !.input = Derived(worker[w].stage, S)]]
    /\ UNCHANGED <<files, script, results, crashes>>

\* The process reads its input and the keys its journal has already.
BeginStage(w) ==
    /\ worker[w].pc \in {"start", "next"}
    /\ journal[Cell(w)].valid
    /\ \E S \in InputsOf(w) :
          worker' = [worker EXCEPT ![w] =
              [Shell("loop", @.stage) EXCEPT !.input = Derived(worker[w].stage, S),
                                             !.existing = journal[Cell(w)].keys]]
    /\ UNCHANGED <<files, script, results, crashes>>

\* read_jsonl meets a broken line, or the input is missing or cut short.
BeginFails(w) ==
    /\ worker[w].pc \in {"start", "next"}
    /\ ~journal[Cell(w)].valid \/ InputsOf(w) = {}
    /\ Fails(w)
    /\ UNCHANGED <<files, script, results, crashes>>

\* The next record that is not in existing_keys is computed and appended.
AppendRecord(w) ==
    /\ worker[w].pc = "loop"
    /\ Todo(w) # {}
    /\ LET k == First(Todo(w))
       IN  /\ journal' = [journal EXCEPT ![Cell(w)] = WriteLine(@, k)]
           /\ worker' = [worker EXCEPT ![w].existing = @ \cup {k}]
    /\ UNCHANGED <<payload, tmp, script, results, crashes>>

\* Mutant: the records of the process are published, not those of the journal.
CollectFromMemory(w) ==
    /\ worker[w].pc = "loop"
    /\ Todo(w) = {}
    /\ worker' = [worker EXCEPT ![w] = [Shell("save", @.stage) EXCEPT !.out = worker[w].input]]
    /\ UNCHANGED <<files, script, results, crashes>>

\* load_existing_payload_records: what the last payload and the journal have.
CollectRecords(w) ==
    /\ worker[w].pc = "loop"
    /\ Todo(w) = {}
    /\ journal[Cell(w)].valid /\ ~Unreadable(payload[Cell(w)])
    /\ worker' = [worker EXCEPT ![w] =
           [Shell("save", @.stage) EXCEPT
                !.out = (UNION payload[Cell(w)].data) \cup journal[Cell(w)].keys]]
    /\ UNCHANGED <<files, script, results, crashes>>

CollectFails(w) ==
    /\ worker[w].pc = "loop"
    /\ Todo(w) = {}
    /\ ~journal[Cell(w)].valid \/ Unreadable(payload[Cell(w)])
    /\ Fails(w)
    /\ UNCHANGED <<files, script, results, crashes>>

\* Mutant: the payload is written in place.
OpenInPlace(w) ==
    /\ worker[w].pc = "save"
    /\ tmp' = [tmp EXCEPT ![Cell(w)] = OpenFile(@, w)]
    /\ payload' = [payload EXCEPT ![Cell(w)] = OpenFile(@, w)]
    /\ Goto(w, "write")
    /\ UNCHANGED <<journal, script, results, crashes>>

\* write_json: the temporary file is created or truncated ...
OpenTmp(w) ==
    /\ worker[w].pc = "save"
    /\ tmp' = [tmp EXCEPT ![Cell(w)] = OpenFile(@, w)]
    /\ Goto(w, "write")
    /\ UNCHANGED <<journal, payload, script, results, crashes>>

\* ... written, wherever the open file is by now ...
WriteTmp(w) ==
    /\ worker[w].pc = "write"
    /\ tmp' = [tmp EXCEPT ![Cell(w)] = WriteFile(@, w, worker[w].out)]
    /\ payload' = [payload EXCEPT ![Cell(w)] = WriteFile(@, w, worker[w].out)]
    /\ Goto(w, "rename")
    /\ UNCHANGED <<journal, script, results, crashes>>

\* Mutant: one stage too many.
AfterAnyStage(w) ==
    LET st == worker[w].stage
    IN  IF st = Generations THEN [Shell("next", Detection) EXCEPT !.out = worker[w].out]
        ELSE Shell("gap", st + 1)

AfterStage(w) ==
    LET st == worker[w].stage
    IN  IF st = Generations THEN [Shell("next", Detection) EXCEPT !.out = worker[w].out]
        ELSE IF st = LastStage THEN Shell("done", LastStage)
        ELSE Shell("gap", st + 1)

\* ... and renamed over the payload (os.replace).
ReplacePayload(w) ==
    /\ worker[w].pc = "rename"
    /\ tmp[Cell(w)].exists
    /\ payload' = [payload EXCEPT ![Cell(w)] = tmp[Cell(w)]]
    /\ tmp' = [tmp EXCEPT ![Cell(w)] = Absent]
    /\ worker' = [worker EXCEPT ![w] = AfterStage(w)]
    /\ UNCHANGED <<journal, script, results, crashes>>

\* Another process has renamed the temporary file already.
ReplaceFails(w) ==
    /\ worker[w].pc = "rename"
    /\ ~tmp[Cell(w)].exists
    /\ Fails(w)
    /\ UNCHANGED <<files, script, results, crashes>>

Busy == {"start", "next", "loop", "save", "write", "rename"}

\* The process is killed and the shell stops (set -e).
Kill(w) ==
    /\ worker[w].pc \in Busy
    /\ crashes < MaxCrashes
    /\ crashes' = crashes + 1
    /\ tmp' = [tmp EXCEPT ![Cell(w)] = CloseFile(@, w)]
    /\ payload' = [payload EXCEPT ![Cell(w)] = CloseFile(@, w)]
    /\ Fails(w)

Crash(w) == Kill(w) /\ UNCHANGED <<journal, script, results>>

CrashMidLine(w) ==
    /\ TornWrites
    /\ worker[w].pc = "loop"
    /\ Todo(w) # {}
    /\ Kill(w)
    /\ \E j \in WritePart(journal[Cell(w)], First(Todo(w))) :
          journal' = [journal EXCEPT ![Cell(w)] = j]
    /\ UNCHANGED <<script, results>>

WorkerStep(w) ==
    \/ StartProcess(w) \/ BeginStage(w) \/ BeginFails(w)
    \/ AppendRecord(w)
    \/ CollectRecords(w) \/ CollectFails(w)
    \/ OpenTmp(w) \/ WriteTmp(w) \/ ReplacePayload(w) \/ ReplaceFails(w)

---------------------------------------------------------------------------
MainShells == Shards \X {"main"}

Alive(w) == worker[w].pc \notin {"off", "done", "failed"}

\* A further shell runs the same stages of a shard from the first on.
StartShell(w) ==
    /\ w \notin MainShells
    /\ ~Alive(w)
    /\ worker' = [worker EXCEPT ![w] = Shell("gap", 1)]
    /\ UNCHANGED <<files, script, results, crashes>>

\* The operator starts the script, or runs it again after it failed.
LaunchScript ==
    /\ script.pc \in {"off", "failed"}
    /\ script' = [pc |-> "waiting", stage |-> 1]
    /\ worker' = [w \in Workers |->
           IF w \in MainShells THEN Shell("gap", 1) ELSE worker[w]]
    /\ UNCHANGED <<files, results, crashes>>

\* Mutant: wait does not look at the exit status.
ScriptIgnoresFailures ==
    /\ script.pc = "waiting"
    /\ \A w \in MainShells : worker[w].pc \in {"done", "failed"}
    /\ script' = [script EXCEPT !.pc = "merging"]
    /\ UNCHANGED <<files, worker, results, crashes>>

\* Every pid is waited for; one failure keeps the script from merging.
ScriptWaits ==
    /\ script.pc = "waiting"
    /\ \A w \in MainShells : worker[w].pc \in {"done", "failed"}
    /\ script' = [script EXCEPT !.pc =
           IF \E w \in MainShells : worker[w].pc = "failed" THEN "failed" ELSE "merging"]
    /\ UNCHANGED <<files, worker, results, crashes>>

\* merge_payloads over the shards whose file of the stage is there.
Shares(st) == {payload[<<s, st>>] : s \in {t \in Shards : payload[<<t, st>>].exists}}

MergePayloads(st) ==
    /\ \A f \in Shares(st) : ~Unreadable(f)
    /\ merged' = IF Shares(st) = {} THEN merged
                 ELSE [merged EXCEPT ![st] = {UNION UNION {f.data : f \in Shares(st)}}]

MergeStage ==
    /\ script.pc = "merging"
    /\ MergePayloads(script.stage)
    /\ script' = IF script.stage = LastStage THEN [script EXCEPT !.pc = "summarize"]
                 ELSE [script EXCEPT !.stage = @ + 1]
    /\ UNCHANGED <<files, worker, summary, crashes>>

MergeFails ==
    /\ script.pc = "merging"
    /\ \E f \in Shares(script.stage) : Unreadable(f)
    /\ script' = [script EXCEPT !.pc = "failed"]
    /\ UNCHANGED <<files, worker, results, crashes>>

\* summary.json and robustness_summary.json.
Summarize ==
    /\ script.pc = "summarize"
    /\ summary' = {merged}
    /\ script' = [script EXCEPT !.pc = "done"]
    /\ UNCHANGED <<files, worker, merged, crashes>>

ScriptStep == LaunchScript \/ ScriptWaits \/ MergeStage \/ MergeFails \/ Summarize

Terminated ==
    /\ script.pc = "done"
    /\ UNCHANGED vars

Next ==
    \/ \E w \in Workers : WorkerStep(w) \/ Crash(w) \/ CrashMidLine(w) \/ StartShell(w)
    \/ ScriptStep
    \/ Terminated

Spec == Init /\ [][Next]_vars

\* Processes run on and the operator runs a failed script again.
FairSpec ==
    /\ Spec
    /\ \A w \in Workers : WF_vars(WorkerStep(w))
    /\ WF_vars(ScriptStep)

---------------------------------------------------------------------------
Journals == [keys : SUBSET Keys, lines : Nat, valid : BOOLEAN, ended : BOOLEAN]

ShellStates ==
    [pc : {"off", "gap", "done", "failed"} \cup Busy, stage : Stages,
     input : SUBSET Keys, existing : SUBSET Keys, out : SUBSET Keys]

\* Every variable has its type.
TypeOK ==
    /\ journal \in [Cells -> Journals]
    /\ payload \in [Cells -> FilesOf(SUBSET Keys, Workers)]
    /\ tmp \in [Cells -> FilesOf(SUBSET Keys, Workers)]
    /\ worker \in [Workers -> ShellStates]
    /\ script \in [pc : {"off", "waiting", "failed", "merging", "summarize", "done"},
                   stage : Stages]
    /\ merged \in [Stages -> SUBSET SUBSET Keys]
    /\ summary \in SUBSET [Stages -> SUBSET SUBSET Keys]
    /\ crashes \in 0..MaxCrashes

\* What is published was computed and written down for this shard: a payload, or the
\* temporary file it comes from, only has records its journal has, and the journal only
\* has records asked of the shard, whoever else works on it.
OnlyJournalled(c, f) == \A S \in f.data : S \subseteq journal[c].keys

PublishedIsJournalled ==
    \A c \in Cells :
        /\ journal[c].keys \subseteq Expected(c[1], c[2])
        /\ OnlyJournalled(c, payload[c])
        /\ OnlyJournalled(c, tmp[c])

\* The merged files of a script that reports success have every record of every
\* shard, although shards fail, are killed and are run again, and the summaries are
\* of those files.
AllRecords(st) == UNION {Expected(s, st) : s \in Shards}

MergedIsComplete ==
    script.pc = "done" =>
        /\ \A st \in Stages : merged[st] = {AllRecords(st)}
        /\ summary = {merged}

\* Running the same command again after a failure resumes the shards and ends in the
\* merged files, as the message of the script says.
RerunsMerge == <>(script.pc = "done")

\* With one shell to a shard and whole lines, the stages keep the ledger: no record is
\* computed twice, across crashes and re-runs, none before its source is published,
\* and nothing is published before all of it is written down.
SourcePublished(c, k, published) ==
    \/ c[2] = Generations
    \/ \E S \in published[<<c[1], Source(c[2])>>] : <<k[1], k[2], 0>> \in S

Ledger == INSTANCE StageLedger WITH
    Asked <- [c \in Cells |-> Expected(c[1], c[2])],
    DependsOn <- SourcePublished,
    done <- [c \in Cells |-> journal[c].keys],
    lines <- [c \in Cells |-> journal[c].lines],
    published <- [c \in Cells |-> payload[c].data]

KeepsLedger == Ledger!Spec
=============================================================================
