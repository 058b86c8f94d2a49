--------------------------- MODULE ContextHistory ---------------------------
(***************************************************************************)
(* SynthIDLogitsProcessor: for every token it hashes the context, the last *)
(* NgramLen - 1 tokens, and leaves the scores alone when the same hash is  *)
(* among the last HistorySize it has seen.  The history is kept in one of  *)
(* four ways, by the backend the process was set up with: a tensor that is *)
(* shifted, a deque with a counter of its values, or a circular buffer on  *)
(* the GPU that a kernel of its own or the fused g-value kernel looks up.  *)
(* The detector works out from the finished text alone which tokens were   *)
(* drawn from watermarked scores, and so does the batched replay.          *)
(*                                                                         *)
(* What is abstracted.  The model and the sampling are a choice of tokens; *)
(* the tournament over g-values is whether the updated scores are used.    *)
(* Hashes are numbers of one limb (the code has eight of 32 bits), given   *)
(* by a function of the context: the backend's, and the LCG hash as a      *)
(* float64 in the mask.  numba compares an int32 with a uint32 as numbers. *)
(***************************************************************************)
EXTENDS Integers, Sequences, FiniteSets

CONSTANTS
    NgramLen,       \* ngram_len
    HistorySize,    \* context_history_size
    Rows,           \* the rows of the batch
    Tokens,         \* the vocabulary; a context starts as zeros
    Eos, Pad,       \* eos_token_id and pad_token_id
    OutputsLen,     \* bound: the longest output
    Backends,       \* how the process may keep the history
    SkipFirst,      \* the values of skip_first_ngram_calls
    Half,           \* half the values of a limb
    HashOf,         \* HashOf[c]: the backend's hash of a context
    MaskHash        \* MaskHash[c]: the detector's

Contexts == [1..(NgramLen - 1) -> Tokens]
Hashes == 0..(2 * Half - 1)
Depths == 1..HistorySize
Slots == 0..(HistorySize - 1)

ASSUME ContextAssumption ==
    /\ NgramLen \in Nat /\ NgramLen >= 2
    /\ HistorySize \in Nat \ {0}
    /\ IsFiniteSet(Rows)
    /\ {0, Eos, Pad} \subseteq Tokens
    /\ OutputsLen \in Nat
    /\ Backends \subseteq {"tensor", "deque", "ring", "fused"}
    /\ SkipFirst \subseteq BOOLEAN
    /\ Half \in Nat \ {0}
    /\ HashOf \in [Contexts -> Hashes]
    /\ MaskHash \in [Contexts -> Nat]

\* Neither hash collides, and the detector's is never the zero its history starts with.
ASSUME HashAssumption ==
    /\ \A c, d \in Contexts : HashOf[c] = HashOf[d] => c = d
    /\ \A c, d \in Contexts : MaskHash[c] = MaskHash[d] => c = d
    /\ \A c \in Contexts : MaskHash[c] # 0

VARIABLES
    config,     \* the backend and skip_first_ngram_calls of the process
    numCalls,   \* state.num_calls, 0 while there is no state
    context,    \* state.context
    history,    \* state.context_history or context_history_python, latest first
    counts,     \* state.context_history_counts
    ring,       \* state.context_history_gpu_limbs
    index,      \* state.context_history_gpu_index
    text,       \* text[r]: the tokens generated for row r
    drawn,      \* drawn[r][k]: the k-th token had updated scores to be drawn from
    unfinished  \* unfinished_sequences

kept == <<history, counts, ring, index>>
vars == <<config, numCalls, context, kept, text, drawn, unfinished>>

---------------------------------------------------------------------------
Init ==
    /\ config \in [backend : Backends, skip : SkipFirst]
    /\ numCalls = 0
    /\ context = [r \in Rows |-> [j \in 1..(NgramLen - 1) |-> 0]]
    /\ history = [r \in Rows |-> [d \in Depths |-> 0]]
    /\ counts = [r \in Rows |-> [h \in Hashes |-> IF h = 0 THEN HistorySize ELSE 0]]
    /\ ring = [r \in Rows |-> [i \in Slots |-> 0]]
    /\ index = 0
    /\ text = [r \in Rows |-> <<>>]
    /\ drawn = [r \in Rows |-> <<>>]
    /\ unfinished = [r \in Rows |-> TRUE]

\* The context of this call: zeros in the first, then shifted by the last token.
Shifted(r) ==
    IF numCalls = 0 THEN context[r]
    ELSE [j \in 1..(NgramLen - 1) |->
             IF j = NgramLen - 1 THEN text[r][numCalls] ELSE context[r][j + 1]]

Hash(r) == HashOf[Shifted(r)]

\* A limb as the int32 tensor holds it.
Stored(h) == IF h < Half THEN h ELSE h - 2 * Half

\* The new hash first, the oldest one dropped.
Pushed(hist, h) == [d \in Depths |-> IF d = 1 THEN h ELSE hist[d - 1]]

\* Scores are updated in the rows whose context is new, with a short cut when the
\* rows agree.
UpdatedRows(repeated) ==
    IF \A r \in Rows : ~repeated[r] THEN [r \in Rows |-> TRUE]
    ELSE IF \A r \in Rows : repeated[r] THEN [r \in Rows |-> FALSE]
    ELSE [r \in Rows |-> ~repeated[r]]

\* The rest of a call and of the loop of _sample around it: the next tokens are drawn
\* and appended, rows that are finished are padded.
Sample(updated) ==
    /\ numCalls < OutputsLen
    /\ \E r \in Rows : unfinished[r]
    /\ \E tokens \in [Rows -> Tokens] :
          /\ \A r \in Rows : unfinished[r] \/ tokens[r] = Pad
          /\ text' = [r \in Rows |-> Append(text[r], tokens[r])]
          /\ unfinished' = [r \in Rows |-> unfinished[r] /\ tokens[r] # Eos]
    /\ drawn' = [r \in Rows |-> Append(drawn[r], updated[r])]
    /\ numCalls' = numCalls + 1
    /\ context' = [r \in Rows |-> Shifted(r)]
    /\ UNCHANGED config

\* skip_first_ngram_calls: the first calls return before the history.
Skips == config.skip /\ numCalls + 1 < NgramLen

SkipCall ==
    /\ Skips
    /\ Sample([r \in Rows |-> FALSE])
    /\ UNCHANGED kept

\* Without RUST_LIB: the hashes of the history are compared, then shifted.
TensorCall ==
    /\ config.backend = "tensor" /\ ~Skips
    /\ Sample([r \in Rows |-> \A d \in Depths : history[r][d] # Hash(r)])
    /\ history' = [r \in Rows |-> Pushed(history[r], Hash(r))]
    /\ UNCHANGED <<counts, ring, index>>

\* Mutant: the count of the evicted hash stays.
CountedWithoutEviction(r) == [counts[r] EXCEPT ![Hash(r)] = @ + 1]

\* The counter when the oldest hash is popped and the new one is put in.
Counted(r) ==
    LET evicted == history[r][HistorySize]
    IN  [[counts[r] EXCEPT ![evicted] = @ - 1] EXCEPT ![Hash(r)] = @ + 1]

\* With RUST_LIB: the count of the hash tells.
DequeCall ==
    /\ config.backend = "deque" /\ ~Skips
    /\ Sample(UpdatedRows([r \in Rows |-> counts[r][Hash(r)] > 0]))
    /\ counts' = [r \in Rows |-> Counted(r)]
    /\ history' = [r \in Rows |-> Pushed(history[r], Hash(r))]
    /\ UNCHANGED <<ring, index>>

\* Mutant: one slot is never written.
NextIndexShort == IF index + 2 < HistorySize THEN index + 1 ELSE 0

NextIndex == (index + 1) % HistorySize

\* The slot at the index is overwritten.
WriteRing ==
    /\ ring' = [r \in Rows |-> [ring[r] EXCEPT ![index] = Stored(Hash(r))]]
    /\ index' = NextIndex
    /\ UNCHANGED <<history, counts>>

\* update_context_history_gpu: the hash goes through an int32 tensor before the lookup.
RingCall ==
    /\ config.backend = "ring" /\ ~Skips
    /\ Sample(UpdatedRows([r \in Rows |-> \E i \in Slots : ring[r][i] = Stored(Hash(r))]))
    /\ WriteRing

\* GPU_FUSED_HISTORY_UPDATE: the kernel compares the uint32 it has just computed.
FusedCall ==
    /\ config.backend = "fused" /\ ~Skips
    /\ Sample(UpdatedRows([r \in Rows |-> \E i \in Slots : ring[r][i] = Hash(r)]))
    /\ WriteRing

Over == numCalls = OutputsLen \/ \A r \in Rows : ~unfinished[r]

Terminated == Over /\ UNCHANGED vars

Next == SkipCall \/ TensorCall \/ DequeCall \/ RingCall \/ FusedCall \/ Terminated

Spec == Init /\ [][Next]_vars

---------------------------------------------------------------------------
\* The detector's side, for the tokens t of one row.

\* Mutant: the last token is not cut off first, the first one is.
WindowLate(t, i) == [j \in 1..(NgramLen - 1) |-> t[i + j]]

\* unfold: the i-th window of NgramLen - 1 tokens, the context of token i + NgramLen - 1.
Window(t, i) == [j \in 1..(NgramLen - 1) |-> t[i + j - 1]]

NumContexts(t) == IF Len(t) < NgramLen THEN 0 ELSE Len(t) - NgramLen + 1

\* compute_context_repetition_mask: a history of its own over the windows.
MaskHistory(t) ==
    LET after[i \in 0..NumContexts(t)] ==
            IF i = 0 THEN [d \in Depths |-> 0]
            ELSE Pushed(after[i - 1], MaskHash[Window(t, i)])
    IN  after

ContextRepetitionMask(t) ==
    LET seen == MaskHistory(t)
    IN  [i \in 1..NumContexts(t) |->
            \A d \in Depths : seen[i - 1][d] # MaskHash[Window(t, i)]]

\* compute_eos_token_mask: the tokens before the first end-of-sequence token.
EosTokenMask(t) == [k \in 1..Len(t) |-> \A j \in 1..k : t[j] # Eos]

\* The n-grams whose g-values the detector scores, by the position of their last token.
CombinedMask(t) ==
    {i + NgramLen - 1 : i \in {i \in 1..NumContexts(t) :
                                  /\ ContextRepetitionMask(t)[i]
                                  /\ EosTokenMask(t)[i + NgramLen - 1]}}

\* _build_online_contexts: the contexts of all calls, from the text behind zeros.
OnlineContext(t, k) ==
    [j \in 1..(NgramLen - 1) |->
        IF k + j > NgramLen THEN t[k + j - NgramLen] ELSE 0]

\* Mutant: the zeros of the initial history never leave.
BatchedRepeatedZero(t, k) ==
    LET h == HashOf[OnlineContext(t, k)]
    IN  \/ h = 0
        \/ \E p \in 1..(k - 1) : p >= k - HistorySize /\ HashOf[OnlineContext(t, p)] = h

\* _batched_context_repetition_kernel, at step k - 1.
BatchedRepeated(t, k) ==
    LET h == HashOf[OnlineContext(t, k)]
    IN  \/ h = 0 /\ k - 1 < HistorySize
        \/ \E p \in 1..(k - 1) : p >= k - HistorySize /\ HashOf[OnlineContext(t, p)] = h

---------------------------------------------------------------------------
\* Every variable has its type.
TypeOK ==
    /\ config \in [backend : Backends, skip : SkipFirst]
    /\ numCalls \in 0..OutputsLen
    /\ context \in [Rows -> Contexts]
    /\ history \in [Rows -> [Depths -> Hashes]]
    /\ counts \in [Rows -> [Hashes -> 0..HistorySize]]
    /\ ring \in [Rows -> [Slots -> (-Half)..(Half - 1)]]
    /\ index \in Slots
    /\ text \in [Rows -> Seq(Tokens)] /\ \A r \in Rows : Len(text[r]) = numCalls
    /\ drawn \in [Rows -> Seq(BOOLEAN)] /\ \A r \in Rows : Len(drawn[r]) = numCalls
    /\ unfinished \in [Rows -> BOOLEAN]

\* The call whose context is the first to go into the history.
FirstKept == IF config.skip THEN NgramLen ELSE 1

\* What call k of row r should find d calls back: the hash of that call's context, or
\* the zero of the initial history.
Back(r, k, d) ==
    IF k - d >= FirstKept THEN HashOf[OnlineContext(text[r], k - d)] ELSE 0

Repeats(r, k) == \E d \in Depths : Back(r, k, d) = HashOf[OnlineContext(text[r], k)]

\* The fused kernel never finds a hash with a limb of Half or more.
Forgotten(r, k) == config.backend = "fused" /\ HashOf[OnlineContext(text[r], k)] >= Half

\* A token is drawn from the plain scores exactly when its context is that of one of the
\* HistorySize calls before, whichever way the history is kept, and although it only
\* has the hashes, shifted, counted or overwritten in a circle; the fused kernel is
\* the exception.
SkipsRepeats ==
    \A r \in Rows : \A k \in FirstKept..numCalls :
        drawn[r][k] <=> (~Repeats(r, k) \/ Forgotten(r, k))

\* A token whose context is also that of a call the detector has no window for: one
\* that started with zeros, or the zero of the initial history.
PaddedTwin(r, k) ==
    \E d \in Depths :
        k - d < NgramLen /\ Back(r, k, d) = HashOf[OnlineContext(text[r], k)]

\* What the detector scores agrees with what the generation did, for every row and
\* however the text ends: a scored token was drawn from watermarked scores, unless its
\* context is a padded twin, and a watermarked one before the end is scored.
ScoresWhatWasDrawn ==
    config.backend # "fused" =>
        \A r \in Rows : \A k \in NgramLen..numCalls :
            LET scored == k \in CombinedMask(text[r])
            IN  /\ scored => drawn[r][k] \/ PaddedTwin(r, k)
                /\ drawn[r][k] /\ EosTokenMask(text[r])[k] => scored

\* The batched replay of a finished text takes the same decisions as the calls did.
ReplayAgrees ==
    config.backend # "fused" /\ ~config.skip =>
        \A r \in Rows : \A k \in 1..numCalls :
            drawn[r][k] <=> ~BatchedRepeated(text[r], k)
=============================================================================
