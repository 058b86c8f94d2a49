---------------------------- MODULE PdwWatchdog ----------------------------
(***************************************************************************)
(* pdw_watchdog.py beside the shards of BaselineShards: in every round it  *)
(* counts the records of each shard, starts a second shell (a tmux session *)
(* named after the shard) for a shard that is incomplete, has written no   *)
(* new line for StalledIntervals rounds and does not seem to run, and      *)
(* merges when every shard is complete.                                    *)
(*                                                                         *)
(* What is abstracted.  The counts of one shard are read at once; a count  *)
(* of stalled rounds stops at StalledIntervals, the value it is compared   *)
(* with.  ps shows a process while its stage runs, not the shell of the    *)
(* script between two stages: its command line does not name the shard.    *)
(***************************************************************************)
EXTENDS BaselineShards

CONSTANT StalledIntervals

ASSUME WatchdogAssumption == StalledIntervals \in Nat /\ "recover" \in Roles

VARIABLES
    dog,        \* the watchdog: where it is, at which shard or stage, and
                \* whether all shards of this round were complete so far
    stalled,    \* stalled_counts
    last        \* last_jsonl_totals, -1 for none

dogVars == <<dog, stalled, last>>
allVars == <<vars, dogVars>>

Recovery(s) == <<s, "recover">>

---------------------------------------------------------------------------
\* payload_count: 0 for a file that is missing or cannot be parsed.
PayloadSize(f) == Cardinality(UNION f.data)

\* Mutant: the lines of the journal are counted.
CompleteByLines(s) ==
    \A st \in Stages : journal[<<s, st>>].lines >= Cardinality(Expected(s, st))

\* shard_complete: the payload of every stage has as many records as expected.
Complete(s) ==
    \A st \in Stages : PayloadSize(payload[<<s, st>>]) >= Cardinality(Expected(s, st))

JsonlTotal(s) ==
    LET UpTo[st \in 0..LastStage] ==
            IF st = 0 THEN 0 ELSE UpTo[st - 1] + journal[<<s, st>>].lines
    IN  UpTo[LastStage]

\* process_exists_for_shard or tmux_session_exists.
Running(s) == (\E r \in Roles : worker[<<s, r>>].pc \in Busy) \/ Alive(Recovery(s))

\* Mutant: one shard too many.
NextShardPast ==
    IF dog.shard + 1 <= NumShards
    THEN [dog EXCEPT !.pc = "scan", !.shard = @ + 1]
    ELSE [dog EXCEPT !.pc = "round"]

NextShard ==
    IF dog.shard + 1 < NumShards
    THEN [dog EXCEPT !.pc = "scan", !.shard = @ + 1]
    ELSE [dog EXCEPT !.pc = "round"]

NewRound == [pc |-> "scan", shard |-> 0, stage |-> 1, all |-> TRUE]

DogInit ==
    /\ Init
    /\ dog = NewRound
    /\ stalled = [s \in Shards |-> 0]
    /\ last = [s \in Shards |-> -1]

\* Mutant: only a total that shrinks counts as stalled.
ScanStrict ==
    LET s == dog.shard
        stuck == last[s] # -1 /\ JsonlTotal(s) < last[s]
    IN  /\ dog.pc = "scan"
        /\ \/ /\ Complete(s)
              /\ stalled' = [stalled EXCEPT ![s] = 0]
              /\ dog' = NextShard
              /\ UNCHANGED last
           \/ /\ ~Complete(s)
              /\ stalled' = [stalled EXCEPT ![s] =
                     IF ~stuck THEN 0 ELSE IF @ < StalledIntervals THEN @ + 1 ELSE @]
              /\ last' = [last EXCEPT ![s] = JsonlTotal(s)]
              /\ dog' = [dog EXCEPT !.pc = "check", !.all = FALSE]
        /\ UNCHANGED vars

\* Mutant: an incomplete shard does not keep the round from being complete.
ScanForgets ==
    LET s == dog.shard
        stuck == last[s] # -1 /\ JsonlTotal(s) <= last[s]
    IN  /\ dog.pc = "scan"
        /\ \/ /\ Complete(s)
              /\ stalled' = [stalled EXCEPT ![s] = 0]
              /\ dog' = NextShard
              /\ UNCHANGED last
           \/ /\ ~Complete(s)
              /\ stalled' = [stalled EXCEPT ![s] =
                     IF ~stuck THEN 0 ELSE IF @ < StalledIntervals THEN @ + 1 ELSE @]
              /\ last' = [last EXCEPT ![s] = JsonlTotal(s)]
              /\ dog' = [dog EXCEPT !.pc = "check"]
        /\ UNCHANGED vars

\* The counts of the next shard, and how long it has been stalled.
ScanShard ==
    LET s == dog.shard
        stuck == last[s] # -1 /\ JsonlTotal(s) <= last[s]
    IN  /\ dog.pc = "scan"
        /\ \/ /\ Complete(s)
              /\ stalled' = [stalled EXCEPT ![s] = 0]
              /\ dog' = NextShard
              /\ UNCHANGED last
           \/ /\ ~Complete(s)
              /\ stalled' = [stalled EXCEPT ![s] =
                     IF ~stuck THEN 0 ELSE IF @ < StalledIntervals THEN @ + 1 ELSE @]
              /\ last' = [last EXCEPT ![s] = JsonlTotal(s)]
              /\ dog' = [dog EXCEPT !.pc = "check", !.all = FALSE]
        /\ UNCHANGED vars

\* A shard that runs, or is not stalled for long enough, is left alone.
CheckRunning ==
    LET s == dog.shard
    IN  /\ dog.pc = "check"
        /\ dog' = IF Running(s) \/ stalled[s] < StalledIntervals
                  THEN NextShard
                  ELSE [dog EXCEPT !.pc = "recover"]
        /\ UNCHANGED <<vars, stalled, last>>

\* start_recovery: tmux refuses a second session of the same name.
StartRecovery ==
    LET w == Recovery(dog.shard)
    IN  /\ dog.pc = "recover"
        /\ worker' = IF Alive(w) THEN worker ELSE [worker EXCEPT ![w] = Shell("gap", 1)]
        /\ stalled' = [stalled EXCEPT ![dog.shard] = 0]
        /\ dog' = NextShard
        /\ UNCHANGED <<files, script, results, crashes, last>>

\* The next round, or merge_if_ready, which keeps what is there already.
EndRound ==
    /\ dog.pc = "round"
    /\ dog' = IF ~dog.all THEN NewRound
              ELSE IF summary # {} THEN [dog EXCEPT !.pc = "exited"]
              ELSE [dog EXCEPT !.pc = "merging"]
    /\ UNCHANGED <<vars, stalled, last>>

DogMerges ==
    /\ dog.pc = "merging"
    /\ MergePayloads(dog.stage)
    /\ dog' = IF dog.stage = LastStage THEN [dog EXCEPT !.pc = "summarize"]
              ELSE [dog EXCEPT !.stage = @ + 1]
    /\ UNCHANGED <<files, worker, script, summary, crashes, stalled, last>>

DogMergeFails ==
    /\ dog.pc = "merging"
    /\ \E f \in Shares(dog.stage) : Unreadable(f)
    /\ dog' = NewRound
    /\ UNCHANGED <<vars, stalled, last>>

DogSummarizes ==
    /\ dog.pc = "summarize"
    /\ summary' = {merged}
    /\ dog' = [dog EXCEPT !.pc = "exited"]
    /\ UNCHANGED <<files, worker, script, merged, crashes, stalled, last>>

DogStep ==
    \/ ScanShard \/ CheckRunning \/ StartRecovery \/ EndRound
    \/ DogMerges \/ DogMergeFails \/ DogSummarizes

\* The shells and the script go on beside the watchdog.  The operator starts the
\* script at any time, and leaves it to the watchdog when it failed.
ShardStep ==
    /\ \/ \E w \in Workers : WorkerStep(w) \/ Crash(w) \/ CrashMidLine(w)
       \/ script.pc # "failed" /\ ScriptStep
    /\ UNCHANGED dogVars

DogExited == dog.pc = "exited" /\ UNCHANGED allVars

DogNext == ShardStep \/ DogStep \/ DogExited

DogSpec == DogInit /\ [][DogNext]_allVars

\* The watchdog and the shells run on; nobody has to run the script again.
FairDogSpec ==
    /\ DogSpec
    /\ \A w \in Workers : WF_allVars(WorkerStep(w) /\ UNCHANGED dogVars)
    /\ WF_allVars(DogStep)

---------------------------------------------------------------------------
\* The watchdog's variables have their types.
DogTypeOK ==
    /\ TypeOK
    /\ dog \in [pc : {"scan", "check", "recover", "round", "merging", "summarize", "exited"},
                shard : Shards, stage : Stages, all : BOOLEAN]
    /\ stalled \in [Shards -> 0..StalledIntervals]
    /\ last \in [Shards -> Nat \cup {-1}]

\* A shard whose counts the watchdog takes for complete has every record it was asked
\* for in every payload, however many shells wrote its journals and in which order.
CompleteHasAll ==
    \A s \in Shards : Complete(s) =>
        \A st \in Stages : UNION payload[<<s, st>>].data = Expected(s, st)

\* The watchdog exits with the merged files complete.
ExitsWithAll ==
    dog.pc = "exited" => \A st \in Stages : merged[st] = {AllRecords(st)}

\* A shard has a recovery and a shell of the script that still runs at once.
Doubled == \E s \in Shards : Alive(Recovery(s)) /\ Alive(<<s, "main">>)
NeverDoubled == ~Doubled

\* The watchdog recovers the shards and exits, although processes are killed and the
\* script is never run again, unless a kill leaves part of a line, or a process is
\* killed while its shard has two shells: they share a temporary file, and the one that
\* renames it may publish it truncated, which no recovery gets past.
WholeLines == \A c \in Cells : journal[c].valid /\ journal[c].ended

RecoversAlone ==
    []WholeLines /\ ([]NeverDoubled \/ [](crashes = 0)) => <>(dog.pc = "exited")
=============================================================================
