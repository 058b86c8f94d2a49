---------------------------- MODULE KgwProcessor ----------------------------
(***************************************************************************)
(* KGW generation and detection (watermark_processor.py).  Before a token  *)
(* is sampled, __call__ adds delta to the logits of the green tokens of    *)
(* each row of the batch.  Four backends give the green list (a fused GPU  *)
(* kernel or mask, Rust ids, a Rust mask, ids row by row, on the GPU or in *)
(* Rust), chosen by environment variables; the first GPU error switches    *)
(* the GPU off for the process and the call falls through to the next      *)
(* backend.  Lists are kept in an LRU cache keyed by backend and previous  *)
(* token.  Afterwards WatermarkDetector scores one text.                   *)
(* A row starts with a prompt of one token; a GPU error is raised before   *)
(* the kernel has written to the scores.                                   *)
(***************************************************************************)
EXTENDS GreenList

CONSTANTS MaxText,  \* the tokens of a batch, prompts included (bound)
          Envs      \* the settings the checks range over

\* twoToOne is the hash_method, poseidon2 is hash_type = 4, cacheSize is greenlist_cache_size (0
\* keeps nothing), rows the size of the batch; the rest are flags.
EnvType == [twoToOne : BOOLEAN, poseidon2 : BOOLEAN, gpu : BOOLEAN, maskCache : BOOLEAN,
            fused : BOOLEAN, u32 : BOOLEAN, mask : BOOLEAN,
            cacheSize : Nat, rows : Nat \ {0}]
ASSUME EnvsAssumption == Envs \subseteq EnvType
ASSUME MaxTextAssumption == MaxText \in Nat

VARIABLES env,          \* settings of the process
          gpuDisabled,  \* _POSEIDON2_GPU_DISABLED
          cache,        \* _greenlist_tensor_cache, least recently used first
          stage,        \* "call", "sample", "done" or "scored"
          lists,        \* the green lists of this call's rows so far
          bias,         \* per row and token, how often delta was added
          text,         \* per row, the tokens
          drawn,        \* per row and sampled token, whether it had been biased
          score         \* what _score_sequence returned, and of which row

kgwVars == <<env, gpuDisabled, cache, stage, lists, bias, text, drawn, score>>

Rows == 1 .. env.rows
Backends == {"poseidon2_gpu", "cpu", "rust_u32", "rust_mask"}
NoBias == [r \in Rows |-> [t \in Tokens |-> 0]]
NoScore == [row |-> 0]

KgwInit ==
    /\ env \in Envs
    /\ gpuDisabled = FALSE /\ cache = <<>>
    /\ stage = "call" /\ lists = <<>> /\ bias = NoBias
    /\ text \in [Rows -> {<<t>> : t \in Tokens}]
    /\ drawn = [r \in Rows |-> <<>>]
    /\ score = NoScore

Prev(r) == text[r][Len(text[r])]
Green(prev) == FixedGreenList(env.twoToOne, prev)

-----------------------------------------------------------------------------
\* Mutant: the key leaves out the token.
KeyOfBackend(backend, prev) == <<backend>>

Key(backend, prev) == <<backend, prev>>
Cached(key) == \E i \in 1 .. Len(cache) : cache[i].key = key
EntryAt(key) == CHOOSE i \in 1 .. Len(cache) : cache[i].key = key

\* move_to_end of a hit.
Touch(i) == Append(SubSeq(cache, 1, i - 1) \o SubSeq(cache, i + 1, Len(cache)), cache[i])

\* Mutant: nothing is ever evicted.
StoreAlways(key, list) == Append(cache, [key |-> key, list |-> list])

\* A miss is stored and the least recently used entry goes.
Store(key, list) ==
    IF env.cacheSize = 0 THEN cache
    ELSE LET full == Append(cache, [key |-> key, list |-> list])
         IN  IF Len(full) > env.cacheSize THEN Tail(full) ELSE full

-----------------------------------------------------------------------------
GpuReady == env.poseidon2 /\ env.gpu /\ ~gpuDisabled

\* The two single-launch paths, taken for a batch of one row only.
TriesGpuBias == GpuReady /\ env.rows = 1 /\ (env.maskCache \/ env.fused)

AddBias(list) == [r \in Rows |-> [t \in Tokens |-> bias[r][t] + IF t \in list[r] THEN 1 ELSE 0]]

BiasOnGpu ==
    /\ stage = "call" /\ TriesGpuBias
    /\ bias' = AddBias([r \in Rows |-> Green(Prev(r))])
    /\ stage' = "sample"
    /\ UNCHANGED <<env, gpuDisabled, cache, lists, text, drawn, score>>

\* Mutant: the error comes after the kernel has written.
GpuBiasFailsLate ==
    /\ stage = "call" /\ TriesGpuBias
    /\ bias' = AddBias([r \in Rows |-> Green(Prev(r))])
    /\ gpuDisabled' = TRUE
    /\ UNCHANGED <<env, cache, stage, lists, text, drawn, score>>

GpuBiasFails ==
    /\ stage = "call" /\ TriesGpuBias
    /\ gpuDisabled' = TRUE
    /\ UNCHANGED <<env, cache, stage, lists, bias, text, drawn, score>>

-----------------------------------------------------------------------------
\* The lists of the rows, in order; r is the row whose list is next.
NeedsList == stage = "call" /\ ~TriesGpuBias /\ Len(lists) < env.rows
RowPrev == Prev(Len(lists) + 1)

RustPath == env.u32 \/ env.mask
CpuKey == Key(IF env.u32 THEN "rust_u32" ELSE IF env.mask THEN "rust_mask" ELSE "cpu", RowPrev)
GpuKey == Key("poseidon2_gpu", RowPrev)

\* The row by row path looks the GPU's entry up whether or not the GPU still works.
HitsGpuKey == ~RustPath /\ env.poseidon2 /\ Cached(GpuKey)

\* Three-to-one asks the GPU before it looks for the CPU's entry, two-to-one after.
AsksGpu == /\ ~RustPath /\ GpuReady /\ ~HitsGpuKey
           /\ ~(env.twoToOne /\ Cached(CpuKey))

TakeCached(key) ==
    /\ lists' = Append(lists, cache[EntryAt(key)].list)
    /\ cache' = Touch(EntryAt(key))
    /\ UNCHANGED <<env, gpuDisabled, stage, bias, text, drawn, score>>

TakeComputed(key) ==
    /\ lists' = Append(lists, Green(RowPrev))
    /\ cache' = Store(key, Green(RowPrev))
    /\ UNCHANGED <<env, gpuDisabled, stage, bias, text, drawn, score>>

ListFromGpuCache == NeedsList /\ HitsGpuKey /\ TakeCached(GpuKey)
ListFromGpu == NeedsList /\ AsksGpu /\ TakeComputed(GpuKey)

GpuListFails ==
    /\ NeedsList /\ AsksGpu
    /\ gpuDisabled' = TRUE
    /\ UNCHANGED <<env, cache, stage, lists, bias, text, drawn, score>>

ListFromCache == NeedsList /\ ~HitsGpuKey /\ ~AsksGpu /\ Cached(CpuKey) /\ TakeCached(CpuKey)
ListFromRust == NeedsList /\ ~HitsGpuKey /\ ~AsksGpu /\ ~Cached(CpuKey) /\ TakeComputed(CpuKey)

\* With a list for every row the batch is biased in place.
BiasRows ==
    /\ stage = "call" /\ Len(lists) = env.rows
    /\ bias' = AddBias(lists)
    /\ lists' = <<>>
    /\ stage' = "sample"
    /\ UNCHANGED <<env, gpuDisabled, cache, text, drawn, score>>

-----------------------------------------------------------------------------
\* The caller samples a token per row from the biased scores: any, for what is modelled here.
Sample(next) ==
    /\ stage = "sample"
    /\ text' = [r \in Rows |-> Append(text[r], next[r])]
    /\ drawn' = [r \in Rows |-> Append(drawn[r], bias[r][next[r]] > 0)]
    /\ bias' = NoBias
    /\ stage' = "call"
    /\ UNCHANGED <<env, gpuDisabled, cache, lists, score>>

MayCall == (Len(text[1]) + 1) * env.rows <= MaxText

Finish ==
    /\ stage = "call" /\ lists = <<>>
    /\ stage' = "done"
    /\ UNCHANGED <<env, gpuDisabled, cache, lists, bias, text, drawn, score>>

\* Mutant: a tie is green.
IsGreenOrTie(prev, token) == TokenHash(env.twoToOne, prev, token) <= FixedThreshold

IsGreen(prev, token) == TokenHash(env.twoToOne, prev, token) < FixedThreshold
Bigrams(s) == {<<s[i], s[i + 1]>> : i \in 1 .. Len(s) - 1}

(***************************************************************************)
(* _score_sequence on one text.  With ignore_repeated_bigrams every        *)
(* distinct bigram counts once, and a text without one divides by zero;    *)
(* otherwise every token after the first counts, and a text without one is *)
(* reported with -100.                                                     *)
(***************************************************************************)
ScoreSequence(s, ignoreRepeats) ==
    IF ignoreRepeats
    THEN [raised |-> Bigrams(s) = {}, scored |-> Cardinality(Bigrams(s)),
          green |-> Cardinality({b \in Bigrams(s) : IsGreen(b[1], b[2])})]
    ELSE IF Len(s) - 1 < 1
         THEN [raised |-> FALSE, scored |-> -100, green |-> -100]
         ELSE [raised |-> FALSE, scored |-> Len(s) - 1,
               green |-> Cardinality({i \in 1 .. Len(s) - 1 : IsGreen(s[i], s[i + 1])})]

Detect(r, ignoreRepeats) ==
    /\ stage = "done"
    /\ score' = [row |-> r, ignoreRepeats |-> ignoreRepeats,
                 result |-> ScoreSequence(text[r], ignoreRepeats)]
    /\ stage' = "scored"
    /\ UNCHANGED <<env, gpuDisabled, cache, lists, bias, text, drawn>>

KgwStep ==
    \/ MayCall /\ \/ BiasOnGpu \/ GpuBiasFails
                  \/ ListFromGpuCache \/ ListFromGpu \/ GpuListFails
                  \/ ListFromCache \/ ListFromRust \/ BiasRows
    \/ \E next \in [Rows -> Tokens] : Sample(next)
    \/ Finish
    \/ \E r \in Rows, ignoreRepeats \in BOOLEAN : Detect(r, ignoreRepeats)

KgwNext == KgwStep /\ UNCHANGED oracle

KgwSpec == oracle \in Oracles /\ KgwInit /\ [][KgwNext]_<<kgwVars, oracle>>

-----------------------------------------------------------------------------
(***************************************************************************)
(* When a token is sampled, the logits of every row carry delta exactly    *)
(* once on the library's green tokens of its last token and nowhere else,  *)
(* whichever backend or cache entry gave the list and whether or not a GPU *)
(* attempt of the same call failed before (__call__).                      *)
(***************************************************************************)
BiasesGreenOnce ==
    stage = "sample" =>
        \A r \in Rows, t \in Tokens : bias[r][t] = IF t \in Green(Prev(r)) THEN 1 ELSE 0

(***************************************************************************)
(* The cache never exceeds its size, holds a key once, and every entry is  *)
(* the list of the token in its key (_greenlist_tensor_from_list and its   *)
(* two siblings).                                                          *)
(***************************************************************************)
CacheHoldsLists ==
    /\ Len(cache) <= env.cacheSize
    /\ \A i \in 1 .. Len(cache) : cache[i].list = Green(cache[i].key[2])
    /\ \A i, j \in 1 .. Len(cache) : cache[i].key = cache[j].key => i = j

(***************************************************************************)
(* The detector, which recomputes every hash, counts exactly the tokens    *)
(* that generation had biased when they were drawn: every one of them, or  *)
(* every distinct bigram once (_score_sequence against __call__).          *)
(***************************************************************************)
DetectsWhatWasBiased ==
    stage = "scored" /\ Len(drawn[score.row]) > 0 =>
        LET s == text[score.row]
            biased == {i \in 1 .. Len(drawn[score.row]) : drawn[score.row][i]}
        IN  /\ ~score.result.raised
            /\ score.result.green =
                   IF score.ignoreRepeats THEN Cardinality({<<s[i], s[i + 1]>> : i \in biased})
                                          ELSE Cardinality(biased)
=============================================================================
