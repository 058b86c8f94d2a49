--------------------------- MODULE KgwProofProofs ---------------------------
(***************************************************************************)
(* Proofs about the way from a text to its proof, for every vocabulary,    *)
(* hash table, setting, batch, cache size and length of text.  Of the      *)
(* generating process: whichever backend serves a call and whenever the    *)
(* GPU fails, a call adds delta to the green tokens once, the cache holds  *)
(* lists of the library, and the detector counts what was biased.  Of the  *)
(* sorted lists: their size and what their threshold separates.  Of the    *)
(* composition: whatever blank line the file has and whatever number of    *)
(* tokens is asked for, only the published text is proved.                 *)
(***************************************************************************)
EXTENDS KgwProof, HaloDetectProofs

Entries == [key : Backends \X Tokens, list : SUBSET Tokens]

TextInv ==
    /\ text \in [Rows -> Seq(Tokens)] /\ drawn \in [Rows -> Seq(BOOLEAN)]
    /\ \A r \in Rows : /\ Len(text[r]) = Len(drawn[r]) + 1
                       /\ \A i \in 1 .. Len(drawn[r]) :
                             drawn[r][i] <=> text[r][i + 1] \in Green(text[r][i])

CacheInv == cache \in Seq(Entries) /\ CacheHoldsLists

ListsInv ==
    /\ lists \in Seq(SUBSET Tokens) /\ Len(lists) <= env.rows
    /\ \A k \in 1 .. Len(lists) : lists[k] = Green(Prev(k))

KgwInv ==
    /\ env \in EnvType
    /\ stage \in {"call", "sample", "done", "scored"}
    /\ TextInv /\ CacheInv /\ ListsInv
    /\ stage # "call" => lists = <<>>
    /\ lists # <<>> => ~TriesGpuBias
    /\ stage # "sample" => bias = NoBias
    /\ BiasesGreenOnce
    /\ stage = "scored" => /\ score.row \in Rows
                           /\ score.result = ScoreSequence(text[score.row], score.ignoreRepeats)

LEMMA KgwInitInv == oracle \in Oracles /\ KgwInit => KgwInv
  <1> SUFFICES ASSUME KgwInit PROVE KgwInv
    OBVIOUS
  <1>1. env \in EnvType
    BY EnvsAssumption DEF KgwInit
  <1>2. TextInv
    <2>1. \A r \in Rows : text[r] \in {<<t>> : t \in Tokens} /\ drawn[r] = <<>>
      BY DEF KgwInit
    <2>2. \A r \in Rows : text[r] \in Seq(Tokens) /\ Len(text[r]) = 1
      <3>1. \A t \in Tokens : <<t>> \in Seq(Tokens) /\ Len(<<t>>) = 1
        OBVIOUS
      <3> QED
        BY <2>1, <3>1
    <2> QED
      BY <2>1, <2>2 DEF KgwInit, TextInv
  <1>3. CacheInv
    BY <1>1 DEF KgwInit, CacheInv, CacheHoldsLists, EnvType
  <1>4. ListsInv
    BY <1>1 DEF KgwInit, ListsInv, EnvType
  <1> QED
    BY <1>1, <1>2, <1>3, <1>4 DEF KgwInit, KgwInv, BiasesGreenOnce

-----------------------------------------------------------------------------
\* The token a row's list is for.
LEMMA PrevType ==
    ASSUME KgwInv, NEW r \in Rows
    PROVE  Prev(r) \in Tokens
  <1>1. text[r] \in Seq(Tokens) /\ Len(text[r]) \in Nat \ {0}
    BY DEF KgwInv, TextInv
  <1> QED
    BY <1>1 DEF Prev

LEMMA RowPrevType ==
    ASSUME KgwInv, NeedsList
    PROVE  /\ Len(lists) + 1 \in Rows /\ RowPrev \in Tokens
           /\ GpuKey \in Backends \X Tokens /\ CpuKey \in Backends \X Tokens
           /\ GpuKey[2] = RowPrev /\ CpuKey[2] = RowPrev
  <1>1. Len(lists) + 1 \in Rows
    BY DEF KgwInv, ListsInv, NeedsList, Rows, EnvType
  <1>2. RowPrev \in Tokens
    BY <1>1, PrevType DEF RowPrev
  <1> QED
    BY <1>1, <1>2 DEF GpuKey, CpuKey, Key, Backends

\* A sequence without its i-th element.
LEMMA ConcatSeq ==
    ASSUME NEW S, NEW a \in Seq(S), NEW b \in Seq(S)
    PROVE  /\ a \o b \in Seq(S) /\ Len(a \o b) = Len(a) + Len(b)
           /\ \A k \in 1 .. Len(a) : (a \o b)[k] = a[k]
           /\ \A k \in 1 .. Len(b) : (a \o b)[Len(a) + k] = b[k]
  OBVIOUS

LEMMA Without ==
    ASSUME NEW S, NEW s \in Seq(S), NEW i \in 1 .. Len(s)
    PROVE  LET rest == SubSeq(s, 1, i - 1) \o SubSeq(s, i + 1, Len(s))
           IN  /\ rest \in Seq(S) /\ Len(rest) = Len(s) - 1
               /\ \A k \in 1 .. i - 1 : rest[k] = s[k]
               /\ \A k \in i .. Len(s) - 1 : rest[k] = s[k + 1]
  <1> DEFINE n == Len(s)
             front == SubSeq(s, 1, i - 1)
             back == SubSeq(s, i + 1, n)
             rest == front \o back
  <1>1. n \in Nat /\ i \in 1 .. n
    OBVIOUS
  <1>2. front \in Seq(S) /\ Len(front) = i - 1 /\ \A k \in 1 .. i - 1 : front[k] = s[k]
    BY <1>1
  <1>3. back \in Seq(S) /\ Len(back) = n - i /\ \A k \in 1 .. n - i : back[k] = s[k + i]
    BY <1>1
  <1> HIDE DEF n, front, back
  <1>4. /\ rest \in Seq(S) /\ Len(rest) = Len(front) + Len(back)
        /\ \A k \in 1 .. Len(front) : rest[k] = front[k]
        /\ \A k \in 1 .. Len(back) : rest[Len(front) + k] = back[k]
    <2>1. front \in Seq(S) /\ back \in Seq(S)
      BY <1>2, <1>3
    <2> QED
      BY <2>1, ConcatSeq
  <1> HIDE DEF rest
  <1>5. Len(rest) = n - 1
    BY <1>1, <1>2, <1>3, <1>4
  <1>6. \A k \in 1 .. i - 1 : rest[k] = s[k]
    BY <1>2, <1>4
  <1>7. ASSUME NEW k \in i .. n - 1
        PROVE  rest[k] = s[k + 1]
    <2> DEFINE j == k - (i - 1)
    <2>1. j \in 1 .. n - i /\ (i - 1) + j = k /\ j + i = k + 1
      BY <1>1
    <2> HIDE DEF j
    <2>2. rest[(i - 1) + j] = back[j] /\ back[j] = s[j + i]
      BY <1>2, <1>3, <1>4, <2>1
    <2> QED
      BY <2>1, <2>2
  <1> QED
    BY <1>4, <1>5, <1>6, <1>7 DEF n, front, back, rest

\* A hit moved to the end leaves the same entries.
LEMMA TouchInv ==
    ASSUME CacheInv, NEW i \in 1 .. Len(cache)
    PROVE  LET c == Touch(i)
           IN  /\ c \in Seq(Entries) /\ Len(c) = Len(cache)
               /\ \A k \in 1 .. Len(c) : c[k].list = Green(c[k].key[2])
               /\ \A k, l \in 1 .. Len(c) : c[k].key = c[l].key => k = l
  <1> DEFINE n == Len(cache)
             rest == SubSeq(cache, 1, i - 1) \o SubSeq(cache, i + 1, n)
             c == Touch(i)
  <1>1. cache \in Seq(Entries) /\ n \in Nat /\ i \in 1 .. n /\ CacheHoldsLists
    BY DEF CacheInv
  <1>2. c = Append(rest, cache[i])
    BY DEF Touch
  <1> HIDE DEF rest, c
  <1>3. /\ rest \in Seq(Entries) /\ Len(rest) = n - 1
        /\ \A k \in 1 .. i - 1 : rest[k] = cache[k]
        /\ \A k \in i .. n - 1 : rest[k] = cache[k + 1]
    BY <1>1, Without DEF rest
  <1>4. cache[i] \in Entries
    BY <1>1
  <1>5. /\ c \in Seq(Entries) /\ Len(c) = n /\ c[n] = cache[i]
        /\ \A k \in 1 .. n - 1 : c[k] = rest[k]
    BY <1>1, <1>2, <1>3, <1>4
  <1>6. \A k \in 1 .. n : c[k] = IF k < i THEN cache[k] ELSE IF k < n THEN cache[k + 1] ELSE cache[i]
    BY <1>1, <1>3, <1>5
  <1>7. \A k \in 1 .. n : c[k].list = Green(c[k].key[2])
    BY <1>1, <1>6 DEF CacheHoldsLists
  <1>8. ASSUME NEW k \in 1 .. n, NEW l \in 1 .. n, c[k].key = c[l].key
        PROVE  k = l
    <2> DEFINE place(m) == IF m < i THEN m ELSE IF m < n THEN m + 1 ELSE i
    <2>1. \A m \in 1 .. n : place(m) \in 1 .. n /\ c[m] = cache[place(m)]
      BY <1>1, <1>6
    <2>2. \A a, b \in 1 .. n : cache[a].key = cache[b].key => a = b
      BY <1>1 DEF CacheHoldsLists
    <2>3. place(k) = place(l)
      <3> HIDE DEF place, n
      <3>1. /\ place(k) \in 1 .. n /\ place(l) \in 1 .. n
            /\ cache[place(k)].key = cache[place(l)].key
        BY <1>8, <2>1
      <3> QED
        BY <2>2, <3>1
    <2> QED
      BY <2>3, <1>1
  <1> QED
    BY <1>1, <1>5, <1>7, <1>8 DEF c

\* A stored list keeps the cache in its size and its keys apart.
LEMMA StoreInv ==
    ASSUME env \in EnvType, CacheInv, NEW key \in Backends \X Tokens, NEW list \in SUBSET Tokens,
           list = Green(key[2]), ~Cached(key)
    PROVE  LET c == Store(key, list)
           IN  /\ c \in Seq(Entries) /\ Len(c) <= env.cacheSize
               /\ \A k \in 1 .. Len(c) : c[k].list = Green(c[k].key[2])
               /\ \A k, l \in 1 .. Len(c) : c[k].key = c[l].key => k = l
  <1> DEFINE n == Len(cache)
             e == [key |-> key, list |-> list]
             full == Append(cache, e)
             c == Store(key, list)
  <1>1. cache \in Seq(Entries) /\ n \in Nat /\ n <= env.cacheSize /\ env.cacheSize \in Nat
    BY DEF CacheInv, CacheHoldsLists, EnvType
  <1>2. e \in Entries /\ e.key = key /\ e.list = Green(e.key[2])
    BY DEF Entries
  <1> HIDE DEF e
  <1>3. full \in Seq(Entries) /\ Len(full) = n + 1
        /\ \A k \in 1 .. n + 1 : full[k] = IF k <= n THEN cache[k] ELSE e
    BY <1>1, <1>2
  <1>4. \A k \in 1 .. n + 1 : full[k].list = Green(full[k].key[2])
    BY <1>2, <1>3 DEF CacheInv, CacheHoldsLists
  <1>5. \A k, l \in 1 .. n + 1 : full[k].key = full[l].key => k = l
    <2>1. \A k \in 1 .. n : cache[k].key # key
      BY DEF Cached
    <2>2. \A k, l \in 1 .. n : cache[k].key = cache[l].key => k = l
      BY DEF CacheInv, CacheHoldsLists
    <2>3. n \in Nat /\ e.key = key
      BY <1>1, <1>2
    <2> HIDE DEF full, n
    <2> QED
      BY <1>3, <2>1, <2>2, <2>3
  <1>6. c = IF env.cacheSize = 0 THEN cache ELSE IF n + 1 > env.cacheSize THEN Tail(full) ELSE full
    BY <1>3 DEF Store, e
  <1> HIDE DEF full, c
  <1>7. CASE env.cacheSize = 0
    BY <1>1, <1>6, <1>7 DEF CacheInv, CacheHoldsLists, c
  <1>8. CASE env.cacheSize # 0 /\ n + 1 > env.cacheSize
    <2>1. c = Tail(full)
      BY <1>6, <1>8
    <2>2. c \in Seq(Entries) /\ Len(c) = n /\ \A k \in 1 .. n : c[k] = full[k + 1]
      BY <1>1, <1>3, <2>1
    <2>3. \A k \in 1 .. n : c[k].list = Green(c[k].key[2])
      <3> TAKE k \in 1 .. n
      <3>1. k + 1 \in 1 .. n + 1 /\ c[k] = full[k + 1]
        BY <1>1, <2>2
      <3> QED
        BY <1>4, <3>1
    <2>4. \A k, l \in 1 .. n : c[k].key = c[l].key => k = l
      <3>1. \A k \in 1 .. n : k + 1 \in 1 .. n + 1 /\ c[k].key = full[k + 1].key
        BY <1>1, <2>2
      <3> QED
        BY <1>1, <1>5, <3>1
    <2> QED
      BY <1>1, <2>2, <2>3, <2>4 DEF c
  <1>9. CASE env.cacheSize # 0 /\ ~(n + 1 > env.cacheSize)
    BY <1>1, <1>3, <1>4, <1>5, <1>6, <1>9 DEF c
  <1> QED
    BY <1>7, <1>8, <1>9

-----------------------------------------------------------------------------
\* A call that gets one more row's list, from the cache or computed.
LEMMA OneMoreList ==
    ASSUME KgwInv, NeedsList, UNCHANGED <<env, oracle, text, stage, drawn, bias, score>>,
           NEW list \in SUBSET Tokens, list = Green(RowPrev), lists' = Append(lists, list)
    PROVE  ListsInv'
  <1>1. Len(lists) + 1 \in Rows /\ lists \in Seq(SUBSET Tokens) /\ Len(lists) < env.rows
    BY RowPrevType DEF KgwInv, ListsInv, NeedsList
  <1>2. \A r : Prev(r)' = Prev(r)
    BY DEF Prev
  <1>3. \A p : Green(p)' = Green(p)
    BY DEF Green, FixedGreenList, TokenHash
  <1>4. /\ lists' \in Seq(SUBSET Tokens) /\ Len(lists') = Len(lists) + 1
        /\ \A k \in 1 .. Len(lists) : lists'[k] = lists[k]
        /\ lists'[Len(lists) + 1] = list
    BY <1>1
  <1>5. Len(lists') <= env'.rows
    BY <1>1, <1>4 DEF Rows
  <1>6. ASSUME NEW k \in 1 .. Len(lists')
        PROVE  lists'[k] = Green(Prev(k))
    <2>1. CASE k \in 1 .. Len(lists)
      BY <1>4, <2>1 DEF KgwInv, ListsInv
    <2>2. CASE k = Len(lists) + 1
      BY <1>4, <2>2 DEF RowPrev
    <2> QED
      BY <1>1, <1>4, <2>1, <2>2
  <1>7. \A k \in 1 .. Len(lists') : lists'[k] = Green(Prev(k))'
    BY <1>2, <1>3, <1>6 DEF Green, FixedGreenList, TokenHash
  <1> QED
    BY <1>4, <1>5, <1>7 DEF ListsInv

\* The parts of the invariant that a step without a new token keeps.
LEMMA SameText ==
    ASSUME KgwInv, UNCHANGED <<env, oracle, text, drawn>>
    PROVE  /\ (env \in EnvType)' /\ TextInv'
           /\ UNCHANGED cache => CacheInv'
           /\ UNCHANGED lists => ListsInv'
           /\ \A s, b : ScoreSequence(s, b)' = ScoreSequence(s, b)
           /\ NoBias' = NoBias /\ Rows' = Rows
           /\ \A r : Green(Prev(r))' = Green(Prev(r))
  <1>1. Rows' = Rows /\ NoBias' = NoBias
    BY DEF Rows, NoBias
  <1>2. \A p : Green(p)' = Green(p)
    BY DEF Green, FixedGreenList, TokenHash
  <1>3. \A r : Green(Prev(r))' = Green(Prev(r))
    BY DEF Green, FixedGreenList, TokenHash, Prev
  <1>4. TextInv'
    <2>1. TextInv /\ UNCHANGED <<env, oracle, text, drawn>> /\ Rows' = Rows
      BY <1>1 DEF KgwInv
    <2> QED
      BY <2>1 DEF TextInv, Green, FixedGreenList, TokenHash
  <1>5. UNCHANGED cache => CacheInv'
    <2>1. CacheInv /\ UNCHANGED <<env, oracle>>
      BY DEF KgwInv
    <2> QED
      BY <2>1 DEF CacheInv, CacheHoldsLists, Green, FixedGreenList, TokenHash
  <1>6. UNCHANGED lists => ListsInv'
    BY <1>3 DEF KgwInv, ListsInv, Green, FixedGreenList, TokenHash, Prev
  <1>7. \A p, t : IsGreen(p, t)' <=> IsGreen(p, t)
    BY DEF IsGreen, TokenHash
  <1>8. \A s, b : ScoreSequence(s, b)' = ScoreSequence(s, b)
    BY <1>7 DEF ScoreSequence
  <1> QED
    BY <1>1, <1>3, <1>4, <1>5, <1>6, <1>8 DEF KgwInv

LEMMA TakeCachedInv ==
    ASSUME KgwInv, NeedsList, UNCHANGED oracle, NEW key \in Backends \X Tokens,
           key[2] = RowPrev, Cached(key), TakeCached(key)
    PROVE  KgwInv'
  <1> DEFINE i == EntryAt(key)
  <1>1. i \in 1 .. Len(cache) /\ cache[i].key = key
    BY DEF Cached, EntryAt
  <1> HIDE DEF i
  <1>2. /\ lists' = Append(lists, cache[i].list) /\ cache' = Touch(i)
        /\ UNCHANGED <<env, oracle, gpuDisabled, stage, bias, text, drawn, score>>
    BY DEF TakeCached, i
  <1>3. cache[i].list = Green(RowPrev) /\ cache[i].list \in SUBSET Tokens
    BY <1>1 DEF KgwInv, CacheInv, CacheHoldsLists, Green, FixedGreenList
  <1>4. ListsInv'
    BY <1>2, <1>3, OneMoreList
  <1>5. \A p : Green(p)' = Green(p)
    BY <1>2 DEF Green, FixedGreenList, TokenHash
  <1>6. CacheInv'
    <2>1. /\ cache' \in Seq(Entries) /\ Len(cache') = Len(cache)
          /\ \A k \in 1 .. Len(cache') : cache'[k].list = Green(cache'[k].key[2])
          /\ \A k, l \in 1 .. Len(cache') : cache'[k].key = cache'[l].key => k = l
      BY <1>1, <1>2, TouchInv DEF KgwInv
    <2> QED
      BY <2>1, <1>2 DEF KgwInv, CacheInv, CacheHoldsLists, Green, FixedGreenList, TokenHash
  <1>7. stage = "call" /\ stage' = "call"
    BY <1>2 DEF NeedsList
  <1>8. ~TriesGpuBias'
    BY <1>2 DEF NeedsList, TriesGpuBias, GpuReady
  <1> QED
    BY <1>2, <1>4, <1>6, <1>7, <1>8, SameText DEF KgwInv, BiasesGreenOnce

LEMMA TakeComputedInv ==
    ASSUME KgwInv, NeedsList, UNCHANGED oracle, NEW key \in Backends \X Tokens,
           key[2] = RowPrev, ~Cached(key), TakeComputed(key)
    PROVE  KgwInv'
  <1> DEFINE list == Green(RowPrev)
  <1>1. list \in SUBSET Tokens
    BY DEF Green, FixedGreenList
  <1>2. /\ lists' = Append(lists, list) /\ cache' = Store(key, list)
        /\ UNCHANGED <<env, oracle, gpuDisabled, stage, bias, text, drawn, score>>
    BY DEF TakeComputed
  <1>3. ListsInv'
    BY <1>1, <1>2, OneMoreList
  <1>4. CacheInv'
    <2>1. list = Green(key[2])
      OBVIOUS
    <2> HIDE DEF list
    <2>2. /\ cache' \in Seq(Entries) /\ Len(cache') <= env.cacheSize
          /\ \A k \in 1 .. Len(cache') : cache'[k].list = Green(cache'[k].key[2])
          /\ \A k, l \in 1 .. Len(cache') : cache'[k].key = cache'[l].key => k = l
      BY <1>1, <1>2, <2>1, StoreInv DEF KgwInv
    <2> QED
      BY <2>2, <1>2 DEF KgwInv, CacheInv, CacheHoldsLists, Green, FixedGreenList, TokenHash
  <1>5. stage = "call" /\ stage' = "call"
    BY <1>2 DEF NeedsList
  <1>6. ~TriesGpuBias'
    BY <1>2 DEF NeedsList, TriesGpuBias, GpuReady
  <1> QED
    BY <1>2, <1>3, <1>4, <1>5, <1>6, SameText DEF KgwInv, BiasesGreenOnce

-----------------------------------------------------------------------------
\* One pass of delta over the rows, on logits that had none.
LEMMA AddBiasOnce ==
    ASSUME KgwInv, stage = "call", UNCHANGED <<env, oracle, text>>, stage' = "sample",
           NEW list, \A r \in Rows : list[r] = Green(Prev(r)), bias' = AddBias(list)
    PROVE  BiasesGreenOnce'
  <1>1. bias = NoBias
    BY DEF KgwInv
  <1>2. \A r \in Rows, t \in Tokens :
            bias'[r][t] = NoBias[r][t] + IF t \in list[r] THEN 1 ELSE 0
    BY <1>1 DEF AddBias
  <1>3. \A r \in Rows, t \in Tokens : NoBias[r][t] = 0
    BY DEF NoBias
  <1>4. ASSUME NEW r \in Rows, NEW t \in Tokens
        PROVE  bias'[r][t] = IF t \in Green(Prev(r)) THEN 1 ELSE 0
    BY <1>2, <1>3
  <1>5. Rows' = Rows /\ \A r : Green(Prev(r))' = Green(Prev(r))
    BY DEF Rows, Green, FixedGreenList, TokenHash, Prev
  <1>6. BiasesGreenOnce' <=> \A r \in Rows', t \in Tokens :
            bias'[r][t] = IF t \in Green(Prev(r))' THEN 1 ELSE 0
    BY DEF BiasesGreenOnce
  <1> HIDE DEF BiasesGreenOnce
  <1>7. \A r \in Rows', t \in Tokens : bias'[r][t] = IF t \in Green(Prev(r))' THEN 1 ELSE 0
    BY <1>4, <1>5
  <1> QED
    BY <1>6, <1>7

\* A sampled token is one more bigram, green exactly if it carried delta.
LEMMA SampleText ==
    ASSUME KgwInv, stage = "sample", UNCHANGED <<env, oracle>>, NEW next \in [Rows -> Tokens],
           text' = [r \in Rows |-> Append(text[r], next[r])],
           drawn' = [r \in Rows |-> Append(drawn[r], bias[r][next[r]] > 0)]
    PROVE  TextInv'
  <1>1. Rows' = Rows /\ \A p : Green(p)' = Green(p)
    BY DEF Rows, Green, FixedGreenList, TokenHash
  <1>2. \A r \in Rows : text[r] \in Seq(Tokens) /\ drawn[r] \in Seq(BOOLEAN)
                       /\ Len(text[r]) = Len(drawn[r]) + 1
    BY DEF KgwInv, TextInv
  <1>3. ASSUME NEW r \in Rows
        PROVE  /\ text'[r] \in Seq(Tokens) /\ drawn'[r] \in Seq(BOOLEAN)
               /\ Len(text'[r]) = Len(drawn'[r]) + 1
               /\ \A i \in 1 .. Len(drawn'[r]) :
                      drawn'[r][i] <=> text'[r][i + 1] \in Green(text'[r][i])
    <2> DEFINE n == Len(drawn[r])
               green == bias[r][next[r]] > 0
    <2>1. n \in Nat /\ text[r] \in Seq(Tokens) /\ drawn[r] \in Seq(BOOLEAN) /\ Len(text[r]) = n + 1
      BY <1>2
    <2>2. text'[r] = Append(text[r], next[r]) /\ next[r] \in Tokens
      OBVIOUS
    <2>3. drawn'[r] = Append(drawn[r], green) /\ green \in BOOLEAN
      OBVIOUS
    <2>4. green <=> next[r] \in Green(Prev(r))
      <3>1. bias[r][next[r]] = IF next[r] \in Green(Prev(r)) THEN 1 ELSE 0
        BY <2>2 DEF KgwInv, BiasesGreenOnce
      <3> QED
        BY <3>1
    <2> HIDE DEF n, green
    <2>5. /\ text'[r] \in Seq(Tokens) /\ Len(text'[r]) = n + 2 /\ text'[r][n + 2] = next[r]
          /\ \A i \in 1 .. n + 1 : text'[r][i] = text[r][i]
      BY <2>1, <2>2
    <2>6. drawn'[r] \in Seq(BOOLEAN) /\ Len(drawn'[r]) = n + 1
      BY <2>1, <2>3 DEF n
    <2>7. drawn'[r][n + 1] = green /\ \A i \in 1 .. n : drawn'[r][i] = drawn[r][i]
      BY <2>1, <2>3 DEF n
    <2>8. Prev(r) = text[r][n + 1]
      BY <2>1 DEF Prev
    <2>9. ASSUME NEW i \in 1 .. n + 1
          PROVE  drawn'[r][i] <=> text'[r][i + 1] \in Green(text'[r][i])
      <3>1. CASE i \in 1 .. n
        <4>1. i \in 1 .. n + 1 /\ i + 1 \in 1 .. n + 1
          BY <3>1, <2>1
        <4>2. drawn[r][i] <=> text[r][i + 1] \in Green(text[r][i])
          BY <3>1 DEF KgwInv, TextInv, n
        <4> QED
          BY <4>1, <4>2, <3>1, <2>5, <2>7
      <3>2. CASE i = n + 1
        <4>1. i \in 1 .. n + 1 /\ i + 1 = n + 2
          BY <3>2, <2>1
        <4>2. text'[r][i] = Prev(r) /\ text'[r][i + 1] = next[r] /\ drawn'[r][i] = green
          BY <4>1, <3>2, <2>5, <2>7, <2>8
        <4>3. Green(text'[r][i]) = Green(Prev(r))
          BY <4>2
        <4>4. drawn'[r][i] <=> green
          BY <4>2, Zenon
        <4>5. text'[r][i + 1] \in Green(text'[r][i]) <=> next[r] \in Green(Prev(r))
          BY <4>2, <4>3, Zenon
        <4> QED
          BY <4>4, <4>5, <2>4, Zenon
      <3>3. i \in 1 .. n \/ i = n + 1
        BY <2>1
      <3> QED
        BY <3>1, <3>2, <3>3, Zenon
    <2> QED
      BY <2>1, <2>5, <2>6, <2>9
  <1>4. text' \in [Rows -> Seq(Tokens)] /\ drawn' \in [Rows -> Seq(BOOLEAN)]
    BY <1>3
  <1>5. \A r \in Rows : /\ Len(text'[r]) = Len(drawn'[r]) + 1
                        /\ \A i \in 1 .. Len(drawn'[r]) :
                              drawn'[r][i] <=> text'[r][i + 1] \in Green(text'[r][i])
    BY <1>3
  <1>6. ASSUME NEW r \in Rows, NEW i \in 1 .. Len(drawn'[r])
        PROVE  drawn'[r][i] <=> text'[r][i + 1] \in Green(text[r][i])'
    <2>1. Green(text'[r][i]) = Green(text[r][i])'
      BY DEF Green, FixedGreenList, TokenHash
    <2> QED
      BY <1>5, <2>1
  <1>7. TextInv' <=> /\ text' \in [Rows' -> Seq(Tokens)] /\ drawn' \in [Rows' -> Seq(BOOLEAN)]
                     /\ \A r \in Rows' : /\ Len(text'[r]) = Len(drawn'[r]) + 1
                                         /\ \A i \in 1 .. Len(drawn'[r]) :
                                               drawn'[r][i] <=> text'[r][i + 1] \in Green(text[r][i])'
    BY DEF TextInv
  <1> QED
    BY <1>1, <1>4, <1>5, <1>6, <1>7

LEMMA KgwNextInv == KgwInv /\ [KgwNext]_<<kgwVars, oracle>> => KgwInv'
  <1> SUFFICES ASSUME KgwInv, [KgwNext]_<<kgwVars, oracle>> PROVE KgwInv'
    OBVIOUS
  <1>1. CASE UNCHANGED oracle /\ BiasOnGpu
    <2>1. BiasesGreenOnce'
      <3> DEFINE list == [r \in Rows |-> Green(Prev(r))]
      <3>1. \A r \in Rows : list[r] = Green(Prev(r))
        OBVIOUS
      <3>2. bias' = AddBias(list)
        BY <1>1 DEF BiasOnGpu
      <3> HIDE DEF list
      <3> QED
        BY <1>1, <3>1, <3>2, AddBiasOnce DEF BiasOnGpu
    <2>2. lists = <<>>
      BY <1>1 DEF KgwInv, BiasOnGpu
    <2> QED
      BY <1>1, <2>1, <2>2, SameText DEF KgwInv, BiasOnGpu
  <1>2. CASE UNCHANGED oracle /\ (GpuBiasFails \/ GpuListFails)
    BY <1>2, SameText DEF KgwInv, GpuBiasFails, GpuListFails, NeedsList, BiasesGreenOnce,
                          TriesGpuBias, GpuReady
  <1>3. CASE UNCHANGED oracle /\ ListFromGpuCache
    BY <1>3, RowPrevType, TakeCachedInv DEF ListFromGpuCache, HitsGpuKey
  <1>4. CASE UNCHANGED oracle /\ ListFromGpu
    <2>1. ~Cached(GpuKey)
      BY <1>4 DEF ListFromGpu, AsksGpu, HitsGpuKey, GpuReady
    <2> QED
      BY <1>4, <2>1, RowPrevType, TakeComputedInv DEF ListFromGpu
  <1>5. CASE UNCHANGED oracle /\ ListFromCache
    BY <1>5, RowPrevType, TakeCachedInv DEF ListFromCache
  <1>6. CASE UNCHANGED oracle /\ ListFromRust
    BY <1>6, RowPrevType, TakeComputedInv DEF ListFromRust
  <1>7. CASE UNCHANGED oracle /\ BiasRows
    <2>1. \A r \in Rows : lists[r] = Green(Prev(r))
      BY <1>7 DEF KgwInv, ListsInv, BiasRows, Rows
    <2>2. BiasesGreenOnce'
      BY <1>7, <2>1, AddBiasOnce DEF BiasRows
    <2>3. ListsInv'
      BY <1>7 DEF KgwInv, ListsInv, BiasRows, EnvType
    <2> QED
      BY <1>7, <2>2, <2>3, SameText DEF KgwInv, BiasRows
  <1>8. ASSUME UNCHANGED oracle, NEW next \in [Rows -> Tokens], Sample(next)
        PROVE  KgwInv'
    <2>1. TextInv'
      BY <1>8, SampleText DEF Sample
    <2>2. CacheInv'
      BY <1>8 DEF KgwInv, CacheInv, CacheHoldsLists, Sample, Green, FixedGreenList, TokenHash
    <2>3. ListsInv' /\ lists = <<>>
      BY <1>8 DEF KgwInv, ListsInv, Sample, EnvType
    <2>4. bias' = NoBias'
      BY <1>8 DEF Sample, NoBias, Rows
    <2> QED
      BY <1>8, <2>1, <2>2, <2>3, <2>4 DEF KgwInv, Sample, BiasesGreenOnce
  <1>9. CASE UNCHANGED oracle /\ Finish
    BY <1>9, SameText DEF KgwInv, Finish, BiasesGreenOnce, TriesGpuBias, GpuReady
  <1>10. ASSUME UNCHANGED oracle, NEW r \in Rows, NEW ignoreRepeats \in BOOLEAN,
                Detect(r, ignoreRepeats)
         PROVE  KgwInv'
    <2>1. UNCHANGED <<env, oracle, text, drawn, cache, lists, bias>>
      BY <1>10 DEF Detect
    <2>2. score'.row = r /\ score'.result = ScoreSequence(text[r], ignoreRepeats)
          /\ score'.ignoreRepeats = ignoreRepeats
      BY <1>10 DEF Detect
    <2>3. ScoreSequence(text[r], ignoreRepeats) = ScoreSequence(text[r], ignoreRepeats)'
      BY <2>1 DEF ScoreSequence, IsGreen, TokenHash
    <2>4. ScoreSequence(text[score.row], score.ignoreRepeats)' = score'.result
      BY <2>1, <2>2 DEF ScoreSequence, IsGreen, TokenHash, Bigrams
    <2>5. (env \in EnvType)' /\ TextInv' /\ CacheInv' /\ ListsInv' /\ Rows' = Rows /\ NoBias' = NoBias
      BY <2>1, SameText
    <2>6. stage = "done" /\ stage' = "scored"
      BY <1>10 DEF Detect
    <2> QED
      BY <2>1, <2>2, <2>4, <2>5, <2>6 DEF KgwInv, BiasesGreenOnce
  <1>11. CASE UNCHANGED <<kgwVars, oracle>>
    BY <1>11, SameText DEF KgwInv, kgwVars, BiasesGreenOnce, TriesGpuBias, GpuReady
  <1> QED
    BY <1>1, <1>2, <1>3, <1>4, <1>5, <1>6, <1>7, <1>8, <1>9, <1>10, <1>11 DEF KgwNext, KgwStep

LEMMA KgwInvariance == KgwSpec => []KgwInv
  <1>1. oracle \in Oracles /\ KgwInit => KgwInv
    BY KgwInitInv
  <1>2. KgwInv /\ [KgwNext]_<<kgwVars, oracle>> => KgwInv'
    BY KgwNextInv
  <1> QED
    BY <1>1, <1>2, PTL DEF KgwSpec

-----------------------------------------------------------------------------
(***************************************************************************)
(* Whichever backend serves a call, whichever entry of the cache it meets  *)
(* and however often the GPU fails, a token is sampled from logits that    *)
(* carry delta once on the library's green tokens (__call__).              *)
(***************************************************************************)
THEOREM BiasedOnce == KgwSpec => []BiasesGreenOnce
  <1>1. KgwInv => BiasesGreenOnce
    BY DEF KgwInv
  <1> QED
    BY <1>1, KgwInvariance, PTL

(***************************************************************************)
(* The cache keeps its size, one entry per key, and under each key the     *)
(* library's list, for every vocabulary and every size (the three cache    *)
(* fills of watermark_processor.py).                                       *)
(***************************************************************************)
THEOREM CacheSound == KgwSpec => []CacheHoldsLists
  <1>1. KgwInv => CacheHoldsLists
    BY DEF KgwInv, CacheInv
  <1> QED
    BY <1>1, KgwInvariance, PTL

\* The bigrams that carried delta and those that hash below the threshold are the same.
LEMMA DetectsInv == KgwInv => DetectsWhatWasBiased
  <1> SUFFICES ASSUME KgwInv, stage = "scored", Len(drawn[score.row]) > 0
               PROVE  DetectsWhatWasBiased
    BY DEF DetectsWhatWasBiased
  <1> DEFINE d == drawn[score.row]
             s == text[score.row]
             n == Len(d)
             biased == {i \in 1 .. n : d[i]}
             bigram == [i \in 1 .. n |-> <<s[i], s[i + 1]>>]
  <1>1. score.row \in Rows /\ score.result = ScoreSequence(s, score.ignoreRepeats)
    BY DEF KgwInv
  <1>2. n \in Nat /\ n > 0 /\ s \in Seq(Tokens) /\ Len(s) = n + 1
    BY <1>1 DEF KgwInv, TextInv
  <1>3. \A i \in 1 .. n : d[i] <=> s[i + 1] \in Green(s[i])
    BY <1>1 DEF KgwInv, TextInv
  <1> HIDE DEF d, s
  <1>4. ASSUME NEW i \in 1 .. n
        PROVE  s[i + 1] \in Green(s[i]) <=> IsGreen(s[i], s[i + 1])
    <2>1. s[i + 1] \in Tokens
      BY <1>2
    <2> QED
      BY <2>1 DEF Green, FixedGreenList, IsGreen
  <1>5. Len(s) - 1 = n
    BY <1>2
  <1>6. {i \in 1 .. Len(s) - 1 : IsGreen(s[i], s[i + 1])} = biased
    BY <1>3, <1>4, <1>5
  <1>7. Bigrams(s) = {bigram[i] : i \in 1 .. n}
    BY <1>5 DEF Bigrams
  <1>8. \A i \in 1 .. n : bigram[i][1] = s[i] /\ bigram[i][2] = s[i + 1]
    OBVIOUS
  <1>9. {<<s[i], s[i + 1]>> : i \in biased} = {bigram[i] : i \in biased}
    OBVIOUS
  <1> HIDE DEF bigram
  <1>10. {b \in Bigrams(s) : IsGreen(b[1], b[2])} = {bigram[i] : i \in biased}
    BY <1>3, <1>4, <1>7, <1>8
  <1>11. Bigrams(s) # {}
    <2>1. 1 \in 1 .. n
      BY <1>2
    <2> QED
      BY <1>7, <2>1
  <1>12. CASE score.ignoreRepeats
    <2>1. ~score.result.raised /\ score.result.green = Cardinality({bigram[i] : i \in biased})
      <3> DEFINE counted == {b \in Bigrams(s) : IsGreen(b[1], b[2])}
      <3>0. (Bigrams(s) = {}) = FALSE
        BY <1>11
      <3>1. score.result = [raised |-> FALSE, scored |-> Cardinality(Bigrams(s)),
                            green |-> Cardinality(counted)]
        <4>1. score.result = [raised |-> Bigrams(s) = {}, scored |-> Cardinality(Bigrams(s)),
                              green |-> Cardinality(counted)]
          BY <1>1, <1>12 DEF ScoreSequence
        <4> HIDE DEF counted
        <4> QED
          BY <3>0, <4>1, Zenon
      <3>2. counted = {bigram[i] : i \in biased}
        BY <1>10
      <3> HIDE DEF counted
      <3>3. score.result.green = Cardinality(counted) /\ ~score.result.raised
        BY <3>1
      <3> QED
        BY <3>2, <3>3
    <2> QED
      BY <2>1, <1>9, <1>12 DEF DetectsWhatWasBiased, s, d
  <1>13. CASE ~score.ignoreRepeats
    <2>1. ~(Len(s) - 1 < 1)
      BY <1>2
    <2>2. ~score.result.raised /\ score.result.green = Cardinality(biased)
      <3> DEFINE counted == {i \in 1 .. Len(s) - 1 : IsGreen(s[i], s[i + 1])}
      <3>1. score.result = [raised |-> FALSE, scored |-> Len(s) - 1,
                            green |-> Cardinality(counted)]
        BY <1>1, <1>13, <2>1 DEF ScoreSequence
      <3>2. counted = biased
        BY <1>6
      <3> HIDE DEF counted
      <3>3. score.result.green = Cardinality(counted) /\ ~score.result.raised
        BY <3>1
      <3> QED
        BY <3>2, <3>3
    <2> QED
      BY <2>2, <1>13 DEF DetectsWhatWasBiased, s, d
  <1> QED
    BY <1>12, <1>13

(***************************************************************************)
(* What the detector counts is what generation had biased: as many tokens, *)
(* or as many distinct bigrams, as were drawn with delta on them           *)
(* (_score_sequence against __call__).                                     *)
(***************************************************************************)
THEOREM DetectorAgrees == KgwSpec => []DetectsWhatWasBiased
  BY DetectsInv, KgwInvariance, PTL

-----------------------------------------------------------------------------
\* A hash of the library is an element of the field.
LEMMA TokenHashType ==
    ASSUME oracle \in Oracles, NEW prev \in Tokens, NEW token \in Tokens, NEW twoToOne \in BOOLEAN
    PROVE  TokenHash(twoToOne, prev, token) \in Field /\ TokenHash(twoToOne, prev, token) \in Nat
  <1>1. oracle.two[oracle.seed[prev]][token] \in Field
    <2>1. oracle.seed[prev] \in Field /\ oracle.two \in [Field -> [Tokens -> Field]]
      BY OraclesAssumption
    <2> QED
      BY <2>1
  <1>2. oracle.three[prev][token] \in Field
    BY OraclesAssumption
  <1> QED
    BY <1>1, <1>2, FieldAssumption DEF TokenHash, Field

(***************************************************************************)
(* The stable sort by hash puts the tokens in one row: the number of       *)
(* tokens before a token is its place, and every place is taken by one.    *)
(***************************************************************************)
LEMMA PlacesAreTaken ==
    ASSUME oracle \in Oracles, NEW prev \in Tokens, NEW twoToOne \in BOOLEAN,
           NEW k \in 0 .. Cardinality(Tokens) - 1
    PROVE  /\ \E t \in Tokens : Cardinality(SortedBefore(twoToOne, prev, t)) = k
           /\ \A t, u \in Tokens :
                 Cardinality(SortedBefore(twoToOne, prev, t)) < Cardinality(SortedBefore(twoToOne, prev, u))
                    <=> t \in SortedBefore(twoToOne, prev, u)
  <1> DEFINE N == Cardinality(Tokens)
             h == [t \in Tokens |-> TokenHash(twoToOne, prev, t)]
             before(t) == SortedBefore(twoToOne, prev, t)
             place == [t \in Tokens |-> Cardinality(before(t))]
  <1>1. IsFiniteSet(Tokens) /\ N \in Nat /\ Tokens \subseteq Nat
    BY TokensAssumption, FS_CardinalityType
  <1>2. \A t \in Tokens : h[t] \in Nat
    BY TokenHashType
  <1>3. \A t, u \in Tokens : u \in before(t) <=> h[u] < h[t] \/ (h[u] = h[t] /\ u < t)
    BY DEF SortedBefore
  <1>4. \A t \in Tokens : before(t) \subseteq Tokens
    BY DEF SortedBefore
  <1>5. \A t \in Tokens : place[t] = Cardinality(before(t))
    OBVIOUS
  <1>6. place \in [Tokens -> 0 .. N - 1]
    <2>1. ASSUME NEW t \in Tokens
          PROVE  Cardinality(before(t)) \in 0 .. N - 1
      <3>1. before(t) \in SUBSET (Tokens \ {t})
        BY <1>1, <1>2, <1>3, <1>4
      <3> HIDE DEF before
      <3>2. IsFiniteSet(Tokens \ {t}) /\ Cardinality(Tokens \ {t}) = N - 1
        BY <1>1, FS_RemoveElement
      <3>3. IsFiniteSet(before(t)) /\ Cardinality(before(t)) <= N - 1
        BY <3>1, <3>2, FS_Subset
      <3> QED
        BY <1>1, <3>3, FS_CardinalityType
    <2> QED
      BY <2>1
  <1> HIDE DEF h, before, place, N
  <1>7. ASSUME NEW t \in Tokens, NEW u \in Tokens, t \in before(u)
        PROVE  place[t] < place[u]
    <2>1. before(t) \in SUBSET before(u)
      <3>1. ASSUME NEW v \in before(t)
            PROVE  v \in before(u)
        <4>1. v \in Tokens
          BY <1>4
        <4>2. h[v] \in Nat /\ h[t] \in Nat /\ h[u] \in Nat /\ v \in Nat /\ t \in Nat /\ u \in Nat
          BY <1>1, <1>2, <4>1
        <4>3. h[v] < h[t] \/ (h[v] = h[t] /\ v < t)
          BY <1>3, <4>1
        <4>4. h[t] < h[u] \/ (h[t] = h[u] /\ t < u)
          BY <1>3, <1>7
        <4>5. h[v] < h[u] \/ (h[v] = h[u] /\ v < u)
          BY <4>2, <4>3, <4>4
        <4> QED
          BY <1>3, <4>1, <4>5
      <3> QED
        BY <3>1
    <2>2. t \notin before(t)
      BY <1>1, <1>2, <1>3
    <2>3. IsFiniteSet(before(u)) /\ IsFiniteSet(before(t))
      BY <1>1, <1>4, FS_Subset
    <2>4. Cardinality(before(t)) <= Cardinality(before(u))
      BY <2>1, <2>3, FS_Subset
    <2>5. Cardinality(before(t)) # Cardinality(before(u))
      BY <1>7, <2>1, <2>2, <2>3, FS_Subset
    <2>6. Cardinality(before(t)) \in Nat /\ Cardinality(before(u)) \in Nat
      BY <2>3, FS_CardinalityType
    <2> QED
      BY <1>5, <2>4, <2>5, <2>6
  <1>8. \A t, u \in Tokens : t = u \/ t \in before(u) \/ u \in before(t)
    <2> TAKE t, u \in Tokens
    <2>1. h[t] \in Nat /\ h[u] \in Nat /\ t \in Nat /\ u \in Nat
      BY <1>1, <1>2
    <2>2. t = u \/ (h[t] < h[u] \/ (h[t] = h[u] /\ t < u)) \/ (h[u] < h[t] \/ (h[u] = h[t] /\ u < t))
      BY <2>1
    <2> QED
      BY <1>3, <2>2
  <1>9. \A t \in Tokens : place[t] \in Nat
    BY <1>6, <1>1
  <1>10. \A t, u \in Tokens : place[t] < place[u] <=> t \in before(u)
    <2> TAKE t, u \in Tokens
    <2>1. t \in before(u) => place[t] < place[u]
      BY <1>7
    <2>2. u \in before(t) => place[u] < place[t]
      BY <1>7
    <2> QED
      BY <1>8, <1>9, <2>1, <2>2
  <1>11. place \in Injection(Tokens, 0 .. N - 1)
    <2>1. \A t, u \in Tokens : place[t] = place[u] => t = u
      <3> TAKE t, u \in Tokens
      <3> QED
        BY <1>7, <1>8, <1>9
    <2> QED
      BY <1>6, <2>1 DEF Injection, IsInjective
  <1>12. IsFiniteSet(0 .. N - 1) /\ Cardinality(0 .. N - 1) = N
    BY <1>1, FS_Interval
  <1>13. place \in Surjection(Tokens, 0 .. N - 1)
    BY <1>11, <1>12, FS_Injection DEF N
  <1>14. \E t \in Tokens : place[t] = k
    BY <1>13 DEF Surjection, N
  <1> QED
    BY <1>5, <1>10, <1>14 DEF before

\* The CHOOSE of SortedThreshold has its token.
LEMMA LastOfList ==
    ASSUME oracle \in Oracles, NEW prev \in Tokens, NEW twoToOne \in BOOLEAN
    PROVE  \E last \in SortedGreenList(twoToOne, prev) :
              /\ Cardinality(SortedBefore(twoToOne, prev, last)) = GreenListSize - 1
              /\ SortedThreshold(twoToOne, prev) = TokenHash(twoToOne, prev, last)
  <1> DEFINE list == SortedGreenList(twoToOne, prev)
             place(t) == Cardinality(SortedBefore(twoToOne, prev, t))
             last == CHOOSE t \in list : place(t) = GreenListSize - 1
  <1>1. GreenListSize \in Nat /\ GreenListSize - 1 \in 0 .. Cardinality(Tokens) - 1
    BY TokensAssumption, FS_CardinalityType
  <1>2. \E t \in Tokens : place(t) = GreenListSize - 1
    BY <1>1, PlacesAreTaken
  <1>3. \E t \in list : place(t) = GreenListSize - 1
    BY <1>1, <1>2 DEF SortedGreenList
  <1>4. last \in list /\ place(last) = GreenListSize - 1
    BY <1>3
  <1>5. SortedThreshold(twoToOne, prev) = TokenHash(twoToOne, prev, last)
    BY DEF SortedThreshold
  <1> QED
    BY <1>4, <1>5

(***************************************************************************)
(* A sorted green list has exactly GreenListSize tokens, whatever hashes   *)
(* collide, and its threshold separates them: no token of the list hashes  *)
(* above it and no other token below (par_sort_by and the cut at           *)
(* greenlist_size).                                                        *)
(***************************************************************************)
THEOREM SortedListIsExact ==
    ASSUME oracle \in Oracles, NEW prev \in Tokens, NEW twoToOne \in BOOLEAN
    PROVE  /\ Cardinality(SortedGreenList(twoToOne, prev)) = GreenListSize
           /\ \A t \in Tokens :
                 IF t \in SortedGreenList(twoToOne, prev)
                 THEN TokenHash(twoToOne, prev, t) <= SortedThreshold(twoToOne, prev)
                 ELSE TokenHash(twoToOne, prev, t) >= SortedThreshold(twoToOne, prev)
  <1> DEFINE list == SortedGreenList(twoToOne, prev)
             place == [t \in Tokens |-> Cardinality(SortedBefore(twoToOne, prev, t))]
             G == GreenListSize
  <1>1. G \in Nat \ {0} /\ 0 .. G - 1 \subseteq 0 .. Cardinality(Tokens) - 1
    BY TokensAssumption, FS_CardinalityType
  <1>2. \A t \in Tokens : place[t] = Cardinality(SortedBefore(twoToOne, prev, t))
    OBVIOUS
  <1>3. list \subseteq Tokens /\ \A t \in Tokens : t \in list <=> place[t] < G
    BY <1>2 DEF SortedGreenList
  <1>4. \A k \in 0 .. G - 1 : \E t \in Tokens : place[t] = k
    BY <1>1, <1>2, PlacesAreTaken
  <1>5. \A t, u \in Tokens : place[t] < place[u] <=> t \in SortedBefore(twoToOne, prev, u)
    <2>1. 0 \in 0 .. Cardinality(Tokens) - 1
      BY <1>1
    <2> QED
      BY <1>2, <2>1, PlacesAreTaken
  <1>6. \A t \in Tokens : place[t] \in Nat
    <2> TAKE t \in Tokens
    <2>1. SortedBefore(twoToOne, prev, t) \in SUBSET Tokens
      BY DEF SortedBefore
    <2>2. IsFiniteSet(SortedBefore(twoToOne, prev, t))
      BY <2>1, TokensAssumption, FS_Subset
    <2> QED
      BY <2>2, FS_CardinalityType
  <1>7. \A t, u \in Tokens : \/ t = u
                            \/ t \in SortedBefore(twoToOne, prev, u)
                            \/ u \in SortedBefore(twoToOne, prev, t)
    <2> TAKE t, u \in Tokens
    <2>1. /\ TokenHash(twoToOne, prev, t) \in Nat /\ TokenHash(twoToOne, prev, u) \in Nat
          /\ t \in Nat /\ u \in Nat
      BY TokenHashType, TokensAssumption
    <2> QED
      BY <2>1 DEF SortedBefore
  <1> HIDE DEF list, place, G
  <1>8. Cardinality(list) = G
    <2> DEFINE f == [t \in list |-> place[t]]
    <2>1. f \in [list -> 0 .. G - 1]
      BY <1>1, <1>3, <1>6
    <2>2. \A t, u \in list : f[t] = f[u] => t = u
      <3> TAKE t, u \in list
      <3>1. t \in Tokens /\ u \in Tokens
        BY <1>3
      <3>2. place[t] = place[u] => ~(place[t] < place[u]) /\ ~(place[u] < place[t])
        BY <1>6, <3>1
      <3> QED
        BY <1>5, <1>7, <3>1, <3>2
    <2>3. \A k \in 0 .. G - 1 : \E t \in list : f[t] = k
      <3> TAKE k \in 0 .. G - 1
      <3>1. PICK t \in Tokens : place[t] = k
        BY <1>4
      <3>2. t \in list
        BY <1>1, <1>3, <3>1
      <3> QED
        BY <3>1, <3>2
    <2>4. f \in Injection(list, 0 .. G - 1) /\ f \in Surjection(list, 0 .. G - 1)
      BY <2>1, <2>2, <2>3 DEF Injection, IsInjective, Surjection
    <2>5. IsFiniteSet(0 .. G - 1) /\ Cardinality(0 .. G - 1) = G
      BY <1>1, FS_Interval
    <2> HIDE DEF f
    <2> QED
      BY <2>4, <2>5, FS_Injection
  <1>9. PICK last \in Tokens : /\ place[last] = G - 1
                              /\ SortedThreshold(twoToOne, prev) = TokenHash(twoToOne, prev, last)
    BY <1>2, <1>3, LastOfList DEF list, G
  <1>10. ASSUME NEW t \in Tokens
         PROVE  IF t \in list
                THEN TokenHash(twoToOne, prev, t) <= SortedThreshold(twoToOne, prev)
                ELSE TokenHash(twoToOne, prev, t) >= SortedThreshold(twoToOne, prev)
    <2>1. TokenHash(twoToOne, prev, t) \in Nat /\ TokenHash(twoToOne, prev, last) \in Nat
      BY TokenHashType
    <2>2. t \in SortedBefore(twoToOne, prev, last) =>
              TokenHash(twoToOne, prev, t) <= TokenHash(twoToOne, prev, last)
      BY <2>1 DEF SortedBefore
    <2>3. last \in SortedBefore(twoToOne, prev, t) =>
              TokenHash(twoToOne, prev, t) >= TokenHash(twoToOne, prev, last)
      BY <2>1 DEF SortedBefore
    <2>4. t \in list => ~(last \in SortedBefore(twoToOne, prev, t))
      BY <1>1, <1>3, <1>5, <1>6, <1>9
    <2>5. t \notin list => ~(t \in SortedBefore(twoToOne, prev, last))
      BY <1>1, <1>3, <1>5, <1>6, <1>9
    <2> QED
      BY <1>7, <1>9, <2>1, <2>2, <2>3, <2>4, <2>5
  <1> QED
    BY <1>8, <1>10 DEF list, G

-----------------------------------------------------------------------------
(***************************************************************************)
(* The composition: one invariant over the generating process while it     *)
(* runs, and over the file and the prover program once it has exited.      *)
(***************************************************************************)
Settled == /\ env \in EnvType /\ env.rows = 1 /\ cache = <<>>
           /\ text \in [Rows -> Seq(Tokens)] /\ Len(text[1]) > 0

\* The file holds the lines of the text, with at most one blank among them.
FileInv ==
    /\ prog.twoToOne = env.twoToOne /\ maxToken <= Len(text[1])
    /\ \E gap \in 0 .. Len(Expected(prog.perToken)) + 1 : file = Written(prog.perToken, gap)

(***************************************************************************)
(* What was read is the front of the file: the first lines as thresholds   *)
(* and, while no line has been skipped, every later one as a token.        *)
(***************************************************************************)
ReadInv ==
    /\ pc = "idle" => line = 0 /\ strings = <<>> /\ tokens = <<>>
    /\ line <= Len(file) /\ line <= ThresholdLines + maxToken + 1
    /\ Len(strings) = IF line < ThresholdLines THEN line ELSE ThresholdLines
    /\ \A i \in 1 .. Len(strings) : strings[i] = file[i]
    /\ Len(tokens) <= line - Len(strings)
    /\ Len(tokens) = line - Len(strings) =>
           \A j \in 1 .. Len(tokens) : tokens[j] = file[Len(strings) + j]

RunInv ==
    /\ Inv /\ gpuDisabled \in BOOLEAN /\ ReadInv
    /\ stage # "exited" => KgwInv /\ pc = "idle"
    /\ stage = "exited" => Settled /\ FileInv /\ pc # "idle"

LEMMA ConcatLines ==
    \A a, b \in Seq(Lines) :
        /\ a \o b \in Seq(Lines) /\ Len(a \o b) = Len(a) + Len(b)
        /\ \A k \in 1 .. Len(a) : (a \o b)[k] = a[k]
        /\ \A k \in 1 .. Len(b) : (a \o b)[Len(a) + k] = b[k]
  <1> TAKE a, b \in Seq(Lines)
  <1> HIDE DEF Lines
  <1> QED
    BY ConcatSeq

\* The lines a text is published as.
LEMMA ExpectedLines ==
    ASSUME oracle \in Oracles, env \in EnvType, text[1] \in Seq(Tokens), Len(text[1]) > 0,
           NEW perToken \in BOOLEAN
    PROVE  /\ Expected(perToken) \in Seq(Lines)
           /\ Len(Expected(perToken)) = IF perToken THEN 2 * Len(text[1]) - 1 ELSE Len(text[1])
           /\ \A k \in 1 .. Len(Expected(perToken)) :
                 Expected(perToken)[k] =
                     IF perToken /\ k < Len(text[1])
                     THEN [kind |-> "hash", val |-> SortedThreshold(env.twoToOne, text[1][k])]
                     ELSE [kind |-> "token",
                           val |-> text[1][IF perToken THEN k - (Len(text[1]) - 1) ELSE k]]
  <1> DEFINE s == text[1]
             n == Len(s)
             bound(i) == SortedThreshold(env.twoToOne, s[i])
  <1>1. n \in Nat /\ n > 0 /\ s \in Seq(Tokens) /\ \A i \in 1 .. n : s[i] \in Tokens
    OBVIOUS
  <1>2. /\ TokenLines = [i \in 1 .. n |-> [kind |-> "token", val |-> s[i]]]
        /\ WrittenThresholds = [i \in 1 .. n - 1 |-> [kind |-> "hash", val |-> bound(i)]]
    BY DEF TokenLines, WrittenThresholds
  <1>3. \A i \in 1 .. n - 1 : bound(i) \in Field
    <2> TAKE i \in 1 .. n - 1
    <2>1. s[i] \in Tokens
      BY <1>1
    <2>2. env.twoToOne \in BOOLEAN
      BY DEF EnvType
    <2>3. PICK last \in Tokens : bound(i) = TokenHash(env.twoToOne, s[i], last)
      BY <2>1, <2>2, LastOfList DEF SortedGreenList
    <2> QED
      BY <2>1, <2>2, <2>3, TokenHashType
  <1> HIDE DEF s, n, bound
  <1>4. /\ TokenLines \in Seq(Lines) /\ Len(TokenLines) = n
        /\ \A i \in 1 .. n : TokenLines[i] = [kind |-> "token", val |-> s[i]]
    <2>1. \A i \in 1 .. n : [kind |-> "token", val |-> s[i]] \in Lines
      BY <1>1 DEF Lines
    <2> QED
      BY <1>1, <1>2, <2>1
  <1>5. /\ WrittenThresholds \in Seq(Lines) /\ Len(WrittenThresholds) = n - 1
        /\ \A i \in 1 .. n - 1 : WrittenThresholds[i] = [kind |-> "hash", val |-> bound(i)]
    <2>1. \A i \in 1 .. n - 1 : [kind |-> "hash", val |-> bound(i)] \in Lines
      BY <1>3 DEF Lines
    <2>2. n - 1 \in Nat
      BY <1>1
    <2> QED
      BY <1>2, <2>1, <2>2
  <1>6. CASE ~perToken
    <2>1. Expected(perToken) = TokenLines
      BY <1>6 DEF Expected
    <2> QED
      BY <1>4, <1>6, <2>1 DEF s, n
  <1>7. CASE perToken
    <2> DEFINE e == WrittenThresholds \o TokenLines
    <2>1. Expected(perToken) = e
      BY <1>7 DEF Expected
    <2>2. /\ e \in Seq(Lines) /\ Len(e) = Len(WrittenThresholds) + Len(TokenLines)
          /\ \A k \in 1 .. Len(WrittenThresholds) : e[k] = WrittenThresholds[k]
          /\ \A k \in 1 .. Len(TokenLines) : e[Len(WrittenThresholds) + k] = TokenLines[k]
      BY <1>4, <1>5, ConcatLines
    <2> HIDE DEF e
    <2>3. Len(e) = 2 * n - 1
      BY <1>1, <1>4, <1>5, <2>2
    <2>4. ASSUME NEW k \in 1 .. 2 * n - 1
          PROVE  e[k] = IF k < n THEN [kind |-> "hash", val |-> bound(k)]
                                 ELSE [kind |-> "token", val |-> s[k - (n - 1)]]
      <3>1. CASE k < n
        BY <1>1, <1>5, <2>2, <3>1
      <3>2. CASE ~(k < n)
        <4>1. k - (n - 1) \in 1 .. n /\ (n - 1) + (k - (n - 1)) = k
          BY <1>1, <3>2
        <4>2. e[(n - 1) + (k - (n - 1))] = TokenLines[k - (n - 1)]
          BY <1>4, <1>5, <2>2, <4>1
        <4> QED
          BY <1>4, <3>2, <4>1, <4>2
      <3> QED
        BY <3>1, <3>2
    <2> QED
      BY <1>7, <2>1, <2>2, <2>3, <2>4 DEF s, n, bound
  <1> QED
    BY <1>6, <1>7

\* A blank line moves the lines after it down by one.
LEMMA WrittenLines ==
    ASSUME NEW perToken, Expected(perToken) \in Seq(Lines),
           NEW gap \in 0 .. Len(Expected(perToken)) + 1
    PROVE  /\ Written(perToken, gap) \in Seq(Lines)
           /\ Len(Written(perToken, gap)) = Len(Expected(perToken)) + IF gap = 0 THEN 0 ELSE 1
           /\ \A k \in 1 .. Len(Written(perToken, gap)) :
                 Written(perToken, gap)[k] =
                     IF gap = 0 \/ k < gap THEN Expected(perToken)[k]
                     ELSE IF k = gap THEN [kind |-> "blank", val |-> 0]
                     ELSE Expected(perToken)[k - 1]
  <1> DEFINE e == Expected(perToken)
             n == Len(e)
             blank == [kind |-> "blank", val |-> 0]
             front == SubSeq(e, 1, gap - 1)
             middle == front \o <<blank>>
             back == SubSeq(e, gap, n)
             w == Written(perToken, gap)
  <1>1. e \in Seq(Lines) /\ n \in Nat /\ gap \in 0 .. n + 1 /\ blank \in Lines
    BY DEF Lines
  <1>2. w = IF gap = 0 THEN e ELSE middle \o back
    BY DEF Written
  <1> HIDE DEF e, blank, w
  <1>3. CASE gap = 0
    BY <1>1, <1>2, <1>3 DEF w, e
  <1>4. CASE gap # 0
    <2>1. front \in Seq(Lines) /\ Len(front) = gap - 1 /\ \A k \in 1 .. gap - 1 : front[k] = e[k]
      BY <1>1, <1>4
    <2>2. /\ back \in Seq(Lines) /\ Len(back) = n - gap + 1
          /\ \A k \in 1 .. n - gap + 1 : back[k] = e[k + gap - 1]
      BY <1>1, <1>4
    <2>3. <<blank>> \in Seq(Lines) /\ Len(<<blank>>) = 1 /\ <<blank>>[1] = blank
      BY <1>1
    <2> HIDE DEF front, back, n
    <2>4. /\ middle \in Seq(Lines) /\ Len(middle) = gap
          /\ \A k \in 1 .. gap - 1 : middle[k] = e[k]
          /\ middle[gap] = blank
      <3>1. /\ middle \in Seq(Lines) /\ Len(middle) = Len(front) + Len(<<blank>>)
            /\ \A k \in 1 .. Len(front) : middle[k] = front[k]
            /\ \A k \in 1 .. Len(<<blank>>) : middle[Len(front) + k] = <<blank>>[k]
        BY <2>1, <2>3, ConcatLines
      <3> HIDE DEF middle
      <3>2. middle[(gap - 1) + 1] = blank
        BY <1>1, <2>1, <2>3, <3>1
      <3>3. (gap - 1) + 1 = gap
        BY <1>1
      <3>4. Len(middle) = gap
        BY <2>1, <2>3, <3>1, <3>3
      <3>5. \A k \in 1 .. gap - 1 : middle[k] = e[k]
        BY <2>1, <3>1
      <3>6. middle[gap] = blank
        BY <3>2, <3>3
      <3> QED
        BY <3>1, <3>4, <3>5, <3>6
    <2> HIDE DEF middle
    <2>5. /\ middle \o back \in Seq(Lines) /\ Len(middle \o back) = Len(middle) + Len(back)
          /\ \A k \in 1 .. Len(middle) : (middle \o back)[k] = middle[k]
          /\ \A k \in 1 .. Len(back) : (middle \o back)[Len(middle) + k] = back[k]
      BY <2>2, <2>4, ConcatLines
    <2>6. w = middle \o back
      BY <1>2, <1>4
    <2>7. w \in Seq(Lines) /\ Len(w) = n + 1
      BY <1>1, <2>2, <2>4, <2>5, <2>6
    <2>8. ASSUME NEW k \in 1 .. n + 1
          PROVE  w[k] = IF k < gap THEN e[k] ELSE IF k = gap THEN blank ELSE e[k - 1]
      <3>1. CASE k <= gap
        BY <1>1, <2>4, <2>5, <2>6, <3>1
      <3>2. CASE ~(k <= gap)
        <4>1. k - gap \in 1 .. n - gap + 1 /\ gap + (k - gap) = k /\ (k - gap) + gap - 1 = k - 1
          BY <1>1, <3>2
        <4>2. w[gap + (k - gap)] = back[k - gap] /\ back[k - gap] = e[(k - gap) + gap - 1]
          BY <2>2, <2>4, <2>5, <2>6, <4>1
        <4> QED
          BY <1>1, <3>2, <4>1, <4>2
      <3> QED
        BY <3>1, <3>2
    <2> QED
      BY <1>4, <2>7, <2>8 DEF w, e, n, blank
  <1> QED
    BY <1>3, <1>4

\* What is written does not change any more.
LEMMA SameWritten ==
    ASSUME UNCHANGED <<text, oracle>>, env'.twoToOne = env.twoToOne
    PROVE  \A p, gap : Expected(p)' = Expected(p) /\ Written(p, gap)' = Written(p, gap)
  <1>1. \A w, p, t : SortedBefore(w, p, t)' = SortedBefore(w, p, t)
    BY DEF SortedBefore, TokenHash
  <1>2. \A w, p : SortedGreenList(w, p)' = SortedGreenList(w, p)
    BY <1>1 DEF SortedGreenList
  <1>3. \A w, p : SortedThreshold(w, p)' = SortedThreshold(w, p)
    BY DEF SortedThreshold, SortedGreenList, SortedBefore, TokenHash
  <1>4. TokenLines' = TokenLines /\ WrittenThresholds' = WrittenThresholds
    BY <1>3 DEF TokenLines, WrittenThresholds
  <1>5. \A p : Expected(p)' = Expected(p)
    BY <1>4 DEF Expected
  <1> QED
    BY <1>5 DEF Written

-----------------------------------------------------------------------------
\* Reading keeps the front of the file apart as thresholds and tokens.
LEMMA ReadStep ==
    ASSUME Inv, ReadInv, TakeThreshold \/ TakeToken \/ SkipLine
    PROVE  ReadInv'
  <1> DEFINE T == ThresholdLines
  <1>1. /\ line \in Nat /\ maxToken \in Nat /\ T \in Nat
        /\ file \in Seq(Lines) /\ strings \in Seq(Lines)
        /\ tokens \in Seq([kind : {"token"}, val : Tokens])
    BY DEF Inv, ProverTypeOK, ThresholdLines
  <1>2. /\ pc = "read" /\ line < Len(file) /\ line < T + maxToken + 1
        /\ line' = line + 1 /\ UNCHANGED <<prog, file, maxToken, pc>>
    BY DEF TakeThreshold, TakeToken, SkipLine, Reading
  <1>3. T' = T
    BY <1>2 DEF ThresholdLines
  <1>4. line + 1 \in 1 .. Len(file) /\ file[line + 1] \in Lines
    BY <1>1, <1>2
  <1>5. /\ Len(strings) = IF line < T THEN line ELSE T
        /\ \A i \in 1 .. Len(strings) : strings[i] = file[i]
        /\ Len(tokens) <= line - Len(strings)
        /\ Len(tokens) = line - Len(strings) =>
               \A j \in 1 .. Len(tokens) : tokens[j] = file[Len(strings) + j]
        /\ Len(strings) \in Nat /\ Len(tokens) \in Nat
    BY <1>1 DEF ReadInv
  <1>6. /\ pc' # "idle" /\ line' <= Len(file') /\ line' <= T' + maxToken' + 1
    BY <1>1, <1>2, <1>3
  <1> HIDE DEF T
  <1>7. CASE TakeThreshold
    <2>1. line < T /\ strings' = Append(strings, file[line + 1]) /\ tokens' = tokens
      BY <1>7 DEF TakeThreshold, T
    <2>2. Len(strings) = line /\ Len(tokens) = 0
      BY <1>1, <1>5, <2>1
    <2>3. /\ Len(strings') = line + 1 /\ strings'[line + 1] = file[line + 1]
          /\ \A i \in 1 .. line : strings'[i] = strings[i]
      BY <1>1, <1>4, <2>1, <2>2
    <2>4. \A i \in 1 .. Len(strings') : strings'[i] = file'[i]
      BY <1>1, <1>2, <1>5, <2>2, <2>3
    <2>5. Len(strings') = IF line' < T' THEN line' ELSE T'
      BY <1>1, <1>2, <1>3, <2>1, <2>3
    <2>6. Len(tokens') = 0 /\ Len(tokens') = line' - Len(strings')
      BY <1>1, <1>2, <2>1, <2>2, <2>3
    <2> QED
      BY <1>1, <1>6, <2>4, <2>5, <2>6 DEF ReadInv, T
  <1>8. CASE TakeToken \/ SkipLine
    <2>1. line >= T /\ strings' = strings /\ Len(strings) = T
      BY <1>1, <1>5, <1>8 DEF TakeToken, SkipLine, T
    <2>2. Len(strings') = IF line' < T' THEN line' ELSE T'
      BY <1>1, <1>2, <1>3, <2>1
    <2>3. \A i \in 1 .. Len(strings') : strings'[i] = file'[i]
      BY <1>2, <1>5, <2>1
    <2>4. CASE SkipLine
      <3>1. tokens' = tokens
        BY <2>4 DEF SkipLine
      <3>2. Len(tokens') <= line' - Len(strings') /\ Len(tokens') # line' - Len(strings')
        BY <1>1, <1>2, <1>5, <2>1, <3>1
      <3> QED
        BY <1>6, <2>2, <2>3, <3>2 DEF ReadInv, T
    <2>5. CASE TakeToken
      <3>1. tokens' = Append(tokens, file[line + 1])
        BY <2>5 DEF TakeToken
      <3>2. file[line + 1] \in [kind : {"token"}, val : Tokens]
        BY <1>4, <2>5 DEF TakeToken, Lines
      <3>3. /\ Len(tokens') = Len(tokens) + 1 /\ tokens'[Len(tokens) + 1] = file[line + 1]
            /\ \A j \in 1 .. Len(tokens) : tokens'[j] = tokens[j]
        BY <1>1, <3>1, <3>2
      <3>4. Len(tokens') <= line' - Len(strings')
        BY <1>1, <1>2, <1>5, <2>1, <3>3
      <3>5. ASSUME Len(tokens') = line' - Len(strings'), NEW j \in 1 .. Len(tokens')
            PROVE  tokens'[j] = file'[Len(strings') + j]
        <4>1. Len(tokens) = line - Len(strings)
          BY <1>1, <1>2, <1>5, <2>1, <3>3, <3>5
        <4>2. CASE j \in 1 .. Len(tokens)
          BY <1>2, <1>5, <2>1, <3>3, <4>1, <4>2
        <4>3. CASE j = Len(tokens) + 1
          <5>1. line \in Nat /\ Len(strings) \in Nat /\ Len(strings') = Len(strings)
            BY <1>1, <1>5, <2>1
          <5>2. Len(strings) + (line - Len(strings) + 1) = line + 1
            BY <5>1
          <5>3. Len(strings') + j = line + 1
            BY <4>1, <4>3, <5>1, <5>2
          <5> QED
            BY <1>2, <3>3, <4>3, <5>3
        <4> QED
          BY <1>5, <3>3, <4>2, <4>3
      <3> QED
        BY <1>6, <2>2, <2>3, <3>4, <3>5 DEF ReadInv, T
    <2> QED
      BY <1>8, <2>4, <2>5
  <1> QED
    BY <1>7, <1>8

\* A step of the prover leaves the file and what belongs to it.
LEMMA ProverStepRun ==
    ASSUME RunInv, ProverStep, UNCHANGED <<oracle, kgwVars>>
    PROVE  RunInv'
  <1>1. UNCHANGED <<env, gpuDisabled, cache, stage, lists, bias, text, drawn, score, oracle>>
    BY DEF kgwVars
  <1>2. pc # "idle" /\ pc' # "idle" /\ UNCHANGED <<prog, file, maxToken>>
    BY DEF ProverStep, TakeThreshold, TakeToken, SkipLine, EndRead, CountGreen, CountPanics,
           AssignTokens, SumRow, CheckCircuit, Reading
  <1>3. stage = "exited" /\ Settled /\ FileInv
    BY <1>2 DEF RunInv
  <1>4. Settled'
    BY <1>1, <1>3 DEF Settled, Rows
  <1>5. FileInv'
    BY <1>1, <1>2, <1>3, SameWritten DEF FileInv
  <1>6. Inv'
    BY NextInv DEF RunInv, ProverNext
  <1>7. ReadInv'
    <2>1. CASE TakeThreshold \/ TakeToken \/ SkipLine
      BY <2>1, ReadStep DEF RunInv
    <2>2. CASE EndRead \/ CountGreen \/ CountPanics \/ AssignTokens \/ SumRow \/ CheckCircuit
      <3>1. UNCHANGED <<prog, file, maxToken, line, strings, tokens>>
        BY <2>2 DEF EndRead, CountGreen, CountPanics, AssignTokens, SumRow, CheckCircuit
      <3> QED
        BY <1>2, <3>1 DEF RunInv, ReadInv, ThresholdLines
    <2> QED
      BY <2>1, <2>2 DEF ProverStep
  <1> QED
    BY <1>1, <1>2, <1>3, <1>4, <1>5, <1>6, <1>7 DEF RunInv

\* A step of the generating process, before any program has been started.
LEMMA KgwStepRun ==
    ASSUME RunInv, KgwNext, UNCHANGED proverVars
    PROVE  RunInv'
  <1>1. UNCHANGED <<prog, file, maxToken, pc, line, strings, tokens, count, rows, sums, at, oracle>>
    BY DEF KgwNext, proverVars
  <1>2. stage # "exited" /\ stage' # "exited" /\ gpuDisabled' \in {gpuDisabled, TRUE}
    BY DEF KgwNext, KgwStep, BiasOnGpu, GpuBiasFails, ListFromGpuCache, ListFromGpu, GpuListFails,
           ListFromCache, ListFromRust, BiasRows, Sample, Finish, Detect, TakeCached, TakeComputed,
           NeedsList
  <1>3. KgwInv'
    BY <1>2, KgwNextInv DEF RunInv
  <1>4. Inv'
    BY <1>1, NextInv DEF RunInv, proverVars
  <1>5. ReadInv'
    BY <1>1 DEF RunInv, ReadInv, ThresholdLines
  <1> QED
    BY <1>1, <1>2, <1>3, <1>4, <1>5 DEF RunInv

\* A file nothing of which was read.
LEMMA NothingRead ==
    ASSUME (line = 0 /\ strings = <<>> /\ tokens = <<>> /\ pc = "read")',
           (maxToken \in Nat /\ file \in Seq(Lines))'
    PROVE  ReadInv'
  <1> DEFINE T == ThresholdLines
  <1>1. T' \in Nat /\ maxToken' \in Nat
    BY DEF ThresholdLines
  <1>2. line' = 0 /\ Len(strings') = 0 /\ Len(tokens') = 0 /\ pc' # "idle"
    OBVIOUS
  <1> HIDE DEF T
  <1>3. Len(strings') = IF line' < T' THEN line' ELSE T'
    BY <1>1, <1>2
  <1>4. T' + maxToken' + 1 \in Nat
    <2>1. \A a, b \in Nat : a + b + 1 \in Nat
      OBVIOUS
    <2> QED
      BY <1>1, <2>1, Zenon
  <1>5. line' <= T' + maxToken' + 1
    BY <1>2, <1>4
  <1>6. line' <= Len(file') /\ Len(tokens') <= line' - Len(strings')
    BY <1>2
  <1>7. 1 .. Len(strings') = {} /\ 1 .. Len(tokens') = {}
    BY <1>2
  <1> QED
    BY <1>2, <1>3, <1>5, <1>6, <1>7 DEF ReadInv, T

\* The process exits and a program is started on what was written.
LEMMA PublishRun ==
    ASSUME RunInv, Publish, UNCHANGED oracle
    PROVE  RunInv'
  <1>1. stage = "scored" /\ stage' = "exited" /\ KgwInv /\ pc = "idle" /\ env.rows = 1
    BY DEF RunInv, Publish, Exits
  <1>2. /\ env' = [[flag \in DOMAIN env |-> FALSE] EXCEPT
                       !.twoToOne = env.twoToOne, !.cacheSize = 0, !.rows = 1]
        /\ gpuDisabled' = FALSE /\ cache' = <<>> /\ text' = text
    BY DEF Publish, Exits
  <1>3. env \in EnvType /\ oracle \in Oracles
    BY <1>1 DEF KgwInv, RunInv, Inv
  <1>4. env' \in EnvType /\ env'.rows = 1 /\ env'.twoToOne = env.twoToOne
    <2> DEFINE flags == {"twoToOne", "poseidon2", "gpu", "maskCache", "fused", "u32", "mask",
                         "cacheSize", "rows"}
               off == [flag \in flags |-> FALSE]
    <2>1. DOMAIN env = flags /\ env.twoToOne \in BOOLEAN
      BY <1>3 DEF EnvType
    <2>2. env' = [off EXCEPT !.twoToOne = env.twoToOne, !.cacheSize = 0, !.rows = 1]
      BY <1>2, <2>1
    <2>3. env' = [twoToOne |-> env.twoToOne, poseidon2 |-> FALSE, gpu |-> FALSE,
                  maskCache |-> FALSE, fused |-> FALSE, u32 |-> FALSE, mask |-> FALSE,
                  cacheSize |-> 0, rows |-> 1]
      BY <2>2
    <2> QED
      BY <2>1, <2>3 DEF EnvType
  <1>5. text \in [Rows -> Seq(Tokens)] /\ text[1] \in Seq(Tokens) /\ Len(text[1]) > 0
    <2>1. 1 \in Rows
      BY <1>1 DEF Rows
    <2>2. drawn[1] \in Seq(BOOLEAN) /\ text[1] \in Seq(Tokens) /\ Len(text[1]) = Len(drawn[1]) + 1
      BY <1>1, <2>1 DEF KgwInv, TextInv
    <2> QED
      BY <1>1, <2>2 DEF KgwInv, TextInv
  <1>6. Settled'
    BY <1>1, <1>2, <1>4, <1>5 DEF Settled, Rows
  <1>7. PICK perToken \in BOOLEAN, m \in 0 .. Len(text[1]) :
          \E g \in {0, 1, Len(text[1]), Len(Expected(perToken)) + 1} :
             Start([perToken |-> perToken, twoToOne |-> env.twoToOne], Written(perToken, g), m)
    BY DEF Publish
  <1>8. PICK gap \in {0, 1, Len(text[1]), Len(Expected(perToken)) + 1} :
             Start([perToken |-> perToken, twoToOne |-> env.twoToOne], Written(perToken, gap), m)
    BY <1>7
  <1>9. /\ Expected(perToken) \in Seq(Lines)
        /\ Len(Expected(perToken)) = IF perToken THEN 2 * Len(text[1]) - 1 ELSE Len(text[1])
    BY <1>3, <1>5, ExpectedLines
  <1>10. gap \in 0 .. Len(Expected(perToken)) + 1
    BY <1>5, <1>8, <1>9
  <1>11. Written(perToken, gap) \in Seq(Lines)
    BY <1>9, <1>10, WrittenLines
  <1>12. /\ prog' = [perToken |-> perToken, twoToOne |-> env.twoToOne]
         /\ file' = Written(perToken, gap) /\ maxToken' = m /\ pc' = "read"
         /\ UNCHANGED <<line, strings, tokens>>
    BY <1>8 DEF Start
  <1>13. prog'.perToken = perToken /\ prog'.twoToOne = env.twoToOne
    BY <1>12
  <1>14. m \in Nat /\ [perToken |-> perToken, twoToOne |-> env.twoToOne] \in Programs
    BY <1>3, <1>5, <1>7 DEF EnvType, Programs
  <1>15. Inv'
    <2>1. ProverNext
      BY <1>8, <1>11, <1>14 DEF ProverNext
    <2> QED
      BY <2>1, NextInv DEF RunInv
  <1>16. FileInv'
    <2>1. \A p, g : Expected(p)' = Expected(p) /\ Written(p, g)' = Written(p, g)
      BY <1>2, <1>4, SameWritten
    <2>2. maxToken' <= Len(text'[1])
      BY <1>2, <1>5, <1>7, <1>12
    <2>3. prog'.twoToOne = env'.twoToOne
      BY <1>4, <1>13
    <2>4. /\ gap \in 0 .. Len(Expected(prog'.perToken)) + 1
          /\ file' = Written(prog'.perToken, gap)
      BY <1>10, <1>12, <1>13
    <2>5. /\ gap \in 0 .. Len(Expected(prog.perToken)') + 1
          /\ file' = Written(prog.perToken, gap)'
      BY <2>1, <2>4
    <2> QED
      BY <2>2, <2>3, <2>5 DEF FileInv
  <1>17. ReadInv'
    <2>1. line = 0 /\ strings = <<>> /\ tokens = <<>>
      BY <1>1 DEF RunInv, ReadInv
    <2>2. maxToken' \in Nat /\ file' \in Seq(Lines)
      <3>1. m \in Nat
        BY <1>14
      <3> QED
        BY <3>1, <1>11, <1>12
    <2> QED
      BY <1>12, <2>1, <2>2, NothingRead
  <1> QED
    BY <1>1, <1>2, <1>6, <1>12, <1>15, <1>16, <1>17 DEF RunInv

-----------------------------------------------------------------------------
\* A run that comes past its count has skipped no line.
LEMMA ReadAll ==
    ASSUME RunInv, pc \in Past
    PROVE  /\ maxToken \in Nat \ {0} /\ ThresholdLines + maxToken + 1 <= Len(file)
           /\ Len(tokens) = maxToken + 1 /\ Len(strings) = ThresholdLines
           /\ \A i \in 1 .. ThresholdLines : strings[i] = file[i]
           /\ \A j \in 1 .. maxToken + 1 : /\ tokens[j] = file[ThresholdLines + j]
                                           /\ file[ThresholdLines + j].kind = "token"
  <1> DEFINE T == ThresholdLines
  <1>1. /\ line \in Nat /\ maxToken \in Nat /\ T \in Nat
        /\ strings \in Seq(Lines) /\ tokens \in Seq([kind : {"token"}, val : Tokens])
        /\ file \in Seq(Lines)
    BY DEF RunInv, Inv, ProverTypeOK, ThresholdLines
  <1>2. maxToken > 0 /\ Len(tokens) > maxToken
    BY DEF RunInv, Inv, Complete
  <1>3. Len(strings) >= T
    BY <1>1 DEF RunInv, Inv, Complete, ThresholdLines
  <1>4. /\ line <= Len(file) /\ line <= T + maxToken + 1
        /\ Len(strings) = IF line < T THEN line ELSE T
        /\ \A i \in 1 .. Len(strings) : strings[i] = file[i]
        /\ Len(tokens) <= line - Len(strings)
        /\ Len(tokens) = line - Len(strings) =>
               \A j \in 1 .. Len(tokens) : tokens[j] = file[Len(strings) + j]
    BY DEF RunInv, ReadInv
  <1>5. Len(strings) \in Nat /\ Len(tokens) \in Nat /\ Len(file) \in Nat
    BY <1>1
  <1> HIDE DEF T
  <1>6. Len(strings) = T
    BY <1>1, <1>3, <1>4, <1>5
  <1>7. Len(tokens) = maxToken + 1 /\ Len(tokens) = line - Len(strings) /\ line = T + maxToken + 1
    BY <1>1, <1>2, <1>4, <1>5, <1>6
  <1>8. \A j \in 1 .. maxToken + 1 : tokens[j].kind = "token"
    <2> DEFINE S == [kind : {"token"}, val : Tokens]
    <2>1. \A t \in S : t.kind = "token"
      OBVIOUS
    <2>2. tokens \in Seq(S)
      BY <1>1
    <2> HIDE DEF S
    <2> QED
      BY <1>7, <2>1, <2>2
  <1>9. maxToken \in Nat \ {0} /\ T + maxToken + 1 <= Len(file)
    BY <1>1, <1>2, <1>4, <1>7
  <1>10. \A j \in 1 .. maxToken + 1 : tokens[j] = file[T + j]
    BY <1>4, <1>6, <1>7
  <1>11. \A i \in 1 .. T : strings[i] = file[i]
    BY <1>4, <1>6
  <1>12. \A j \in 1 .. maxToken + 1 : file[T + j].kind = "token"
    BY <1>8, <1>10
  <1> QED
    BY <1>6, <1>7, <1>9, <1>10, <1>11, <1>12 DEF T

(***************************************************************************)
(* Where a blank line may be when every line that was read parsed: behind  *)
(* what was read.  A per token program then has read to the last token.    *)
(***************************************************************************)
LEMMA OwnText == RunInv => ProvesOwnText
  <1> SUFFICES ASSUME RunInv, pc \in Past, NEW i \in 1 .. maxToken + 1
               PROVE  /\ i <= Len(text[1]) /\ tokens[i].val = text[1][i]
                      /\ prog.perToken /\ i <= maxToken =>
                             strings[i].val = SortedThreshold(prog.twoToOne, text[1][i])
    BY DEF ProvesOwnText, Past
  <1> DEFINE n == Len(text[1])
             m == maxToken
             T == ThresholdLines
             e == Expected(prog.perToken)
             bound(k) == SortedThreshold(env.twoToOne, text[1][k])
  <1>1. /\ stage = "exited" /\ Settled /\ FileInv
        /\ oracle \in Oracles /\ prog.perToken \in BOOLEAN
    BY DEF RunInv, Past, Inv, ProverTypeOK, Programs
  <1>2. env \in EnvType /\ text[1] \in Seq(Tokens) /\ n \in Nat \ {0}
    BY <1>1 DEF Settled, Rows
  <1>3. /\ e \in Seq(Lines) /\ Len(e) = IF prog.perToken THEN 2 * n - 1 ELSE n
        /\ \A k \in 1 .. Len(e) :
              e[k] = IF prog.perToken /\ k < n
                     THEN [kind |-> "hash", val |-> bound(k)]
                     ELSE [kind |-> "token",
                           val |-> text[1][IF prog.perToken THEN k - (n - 1) ELSE k]]
    BY <1>1, <1>2, ExpectedLines
  <1>4. PICK gap \in 0 .. Len(e) + 1 : file = Written(prog.perToken, gap)
    BY <1>1 DEF FileInv
  <1>5. /\ Len(file) = Len(e) + IF gap = 0 THEN 0 ELSE 1
        /\ \A k \in 1 .. Len(file) :
              file[k] = IF gap = 0 \/ k < gap THEN e[k]
                        ELSE IF k = gap THEN [kind |-> "blank", val |-> 0] ELSE e[k - 1]
    BY <1>1, <1>3, <1>4, WrittenLines
  <1>6. /\ m \in Nat \ {0} /\ T + m + 1 <= Len(file)
        /\ \A k \in 1 .. T : strings[k] = file[k]
        /\ \A j \in 1 .. m + 1 : tokens[j] = file[T + j] /\ file[T + j].kind = "token"
    BY ReadAll
  <1>7. T = IF prog.perToken THEN m ELSE 0
    BY DEF ThresholdLines
  <1>8. prog.twoToOne = env.twoToOne /\ m <= n
    BY <1>1 DEF FileInv
  <1>9. gap \in Nat /\ Len(e) \in Nat /\ gap <= Len(e) + 1 /\ i \in 1 .. m + 1
    BY <1>3, <1>4
  <1> HIDE DEF n, m, T, e, bound
  \* The blank is not one of the lines that were read as tokens.
  <1>10. gap <= T \/ gap > T + m + 1
    <2> SUFFICES ASSUME gap > T, gap <= T + m + 1 PROVE FALSE
      BY <1>6, <1>7, <1>9
    <2>1. gap - T \in 1 .. m + 1 /\ T + (gap - T) = gap /\ gap \in 1 .. Len(file) /\ gap # 0
      BY <1>3, <1>5, <1>6, <1>7, <1>9
    <2>2. file[gap].kind = "token"
      BY <1>6, <2>1
    <2>3. file[gap] = [kind |-> "blank", val |-> 0]
      BY <1>5, <2>1
    <2> QED
      BY <2>2, <2>3
  <1>11. CASE ~prog.perToken
    <2>1. T = 0 /\ (gap = 0 \/ gap > m + 1) /\ Len(e) = n
      BY <1>3, <1>6, <1>7, <1>9, <1>10, <1>11
    <2>2. i \in 1 .. n /\ i \in 1 .. Len(file) /\ (gap = 0 \/ i < gap)
      BY <1>2, <1>5, <1>6, <1>9, <2>1
    <2>3. tokens[i] = file[i] /\ file[i] = e[i]
      BY <1>5, <1>6, <1>9, <2>1, <2>2
    <2>4. e[i] = [kind |-> "token", val |-> text[1][i]]
      BY <1>3, <1>11, <2>1, <2>2
    <2> QED
      BY <1>11, <2>2, <2>3, <2>4 DEF n
  <1>12. CASE prog.perToken
    <2>1. T = m /\ Len(e) = 2 * n - 1 /\ (gap <= m \/ gap > 2 * m + 1)
      BY <1>3, <1>6, <1>7, <1>9, <1>10, <1>12
    <2>2. m + 1 \in 1 .. Len(file) /\ file[m + 1].kind = "token" /\ 2 * m + 1 <= 2 * n
      BY <1>2, <1>5, <1>6, <1>9, <2>1
    \* The first line read as a token is one, so that all thresholds come before it.
    <2>3. m + 1 >= n /\ (gap = 0 \/ gap > 2 * m + 1)
      <3>1. ASSUME NEW k \in 1 .. Len(e), e[k].kind = "token"
            PROVE  k >= n
        <4> SUFFICES ASSUME k < n PROVE FALSE
          BY <1>2, <1>9
        <4>1. e[k] = [kind |-> "hash", val |-> bound(k)]
          BY <1>3, <1>12
        <4> QED
          BY <3>1, <4>1
      <3>2. CASE gap = 0 \/ gap > 2 * m + 1
        <4>1. m + 1 \in 1 .. Len(e) /\ file[m + 1] = e[m + 1]
          BY <1>2, <1>5, <1>6, <1>9, <2>1, <2>2, <3>2
        <4> QED
          BY <2>2, <3>1, <3>2, <4>1
      <3>3. CASE gap # 0 /\ gap <= m
        <4>1. m \in 1 .. Len(e) /\ file[m + 1] = e[(m + 1) - 1] /\ (m + 1) - 1 = m
          BY <1>2, <1>5, <1>6, <1>9, <2>1, <2>2, <3>3
        <4>2. m >= n
          BY <2>2, <3>1, <4>1
        <4> QED
          BY <1>2, <1>6, <2>2, <4>2
      <3> QED
        BY <2>1, <3>2, <3>3
    <2>4. m = n - 1
      BY <1>2, <1>6, <2>2, <2>3
    <2>5. ASSUME NEW k \in 1 .. 2 * n - 1
          PROVE  k \in 1 .. Len(file) /\ file[k] = e[k]
      BY <1>2, <1>5, <1>6, <1>9, <2>1, <2>3, <2>4
    <2>6. tokens[i].val = text[1][i]
      <3>1. m + i \in 1 .. 2 * n - 1 /\ ~(m + i < n) /\ (m + i) - (n - 1) = i
        BY <1>2, <1>9, <2>4
      <3>2. tokens[i] = e[m + i]
        BY <1>6, <1>9, <2>1, <2>5, <3>1
      <3>3. e[m + i] = [kind |-> "token", val |-> text[1][(m + i) - (n - 1)]]
        BY <1>3, <1>12, <2>1, <3>1
      <3> QED
        BY <3>1, <3>2, <3>3
    <2>7. ASSUME i <= m
          PROVE  strings[i].val = SortedThreshold(prog.twoToOne, text[1][i])
      <3>1. i \in 1 .. m /\ i \in 1 .. 2 * n - 1 /\ i < n
        BY <1>2, <1>6, <1>9, <2>4, <2>7
      <3>2. strings[i] = e[i]
        BY <1>6, <2>1, <2>5, <3>1
      <3>3. e[i] = [kind |-> "hash", val |-> bound(i)]
        BY <1>3, <1>12, <2>1, <3>1
      <3> QED
        BY <1>8, <3>2, <3>3 DEF bound
    <2>8. i <= n
      BY <1>2, <1>9, <2>4
    <2> QED
      BY <2>6, <2>7, <2>8 DEF m, n
  <1> QED
    BY <1>1, <1>11, <1>12

-----------------------------------------------------------------------------
LEMMA RunInvariance == Spec => []RunInv
  <1>1. Init => RunInv
    <2> SUFFICES ASSUME Init PROVE RunInv
      OBVIOUS
    <2>1. Inv /\ KgwInv /\ stage # "exited" /\ pc = "idle" /\ gpuDisabled \in BOOLEAN
      BY InitInv, KgwInitInv DEF Init, KgwInit, ProverInit
    <2>2. ReadInv
      BY DEF Init, ProverInit, ReadInv, ThresholdLines
    <2> QED
      BY <2>1, <2>2 DEF RunInv
  <1>2. RunInv /\ [Next]_vars => RunInv'
    <2> SUFFICES ASSUME RunInv, [Next]_vars PROVE RunInv'
      OBVIOUS
    <2>1. CASE KgwNext /\ UNCHANGED proverVars
      BY <2>1, KgwStepRun
    <2>2. CASE Publish /\ UNCHANGED oracle
      BY <2>2, PublishRun
    <2>3. CASE ProverStep /\ UNCHANGED <<oracle, kgwVars>>
      BY <2>3, ProverStepRun
    <2>4. CASE UNCHANGED vars
      <3>1. UNCHANGED <<oracle, kgwVars, proverVars>>
        BY <2>4 DEF vars
      <3>2. /\ UNCHANGED <<env, gpuDisabled, cache, stage, lists, bias, text, drawn, score, oracle>>
            /\ UNCHANGED <<prog, file, maxToken, pc, line, strings, tokens>>
        BY <3>1 DEF kgwVars, proverVars
      <3>3. Inv' /\ (stage # "exited" => KgwInv')
        BY <3>1, NextInv, KgwNextInv DEF RunInv
      <3>4. ReadInv'
        BY <3>2 DEF RunInv, ReadInv, ThresholdLines
      <3>5. Settled => Settled'
        BY <3>2 DEF Settled, Rows
      <3>6. FileInv => FileInv'
        BY <3>2, SameWritten DEF FileInv
      <3> QED
        BY <3>2, <3>3, <3>4, <3>5, <3>6 DEF RunInv
    <2> QED
      BY <2>1, <2>2, <2>3, <2>4 DEF Next
  <1> QED
    BY <1>1, <1>2, PTL DEF Spec

(***************************************************************************)
(* Every variable keeps its type, from generation to the verdict of the    *)
(* prover, for every file that is written.                                 *)
(***************************************************************************)
THEOREM RunTypeCorrect == Spec => []TypeOK
  <1>1. RunInv => TypeOK
    <2> SUFFICES ASSUME RunInv PROVE TypeOK
      OBVIOUS
    <2>1. ProverTypeOK /\ oracle \in Oracles /\ gpuDisabled \in BOOLEAN
      BY DEF RunInv, Inv
    <2>2. CASE stage # "exited"
      <3>1. env \in EnvType /\ cache \in Seq(Entries) /\ stage \in {"call", "sample", "done", "scored"}
        BY <2>2 DEF RunInv, KgwInv, CacheInv
      <3>2. \A e \in Entries : e.key \in Backends \X Tokens
        BY DEF Entries
      <3>3. \A i \in 1 .. Len(cache) : cache[i].key \in Backends \X Tokens
        BY <3>1, <3>2
      <3> QED
        BY <2>1, <3>1, <3>3 DEF TypeOK
    <2>3. CASE stage = "exited"
      BY <2>1, <2>3 DEF RunInv, Settled, TypeOK
    <2> QED
      BY <2>2, <2>3
  <1> QED
    BY <1>1, RunInvariance, PTL

(***************************************************************************)
(* For every text, hash, --max-token-num and place of the line that does   *)
(* not parse, a run that comes past its count has read the tokens of the   *)
(* text and, per token, the threshold of each                              *)
(* (get_public_inputs_from_file).                                          *)
(***************************************************************************)
THEOREM ProvesThePublishedText == Spec => []ProvesOwnText
  BY OwnText, RunInvariance, PTL

(***************************************************************************)
(* What was proved of the generating process and of the prover programs    *)
(* apart holds of the way from one to the other.                           *)
(***************************************************************************)
THEOREM TheWayKeepsItsParts ==
    Spec => [](/\ BiasesGreenOnce /\ CacheHoldsLists /\ DetectsWhatWasBiased
               /\ SumsEveryFlag /\ AcceptedUnlessTie /\ CountsGreenAndFolded)
  <1>1. RunInv => BiasesGreenOnce /\ CacheHoldsLists /\ DetectsWhatWasBiased
    <2>1. KgwInv => BiasesGreenOnce /\ CacheHoldsLists /\ DetectsWhatWasBiased
      BY DetectsInv DEF KgwInv, CacheInv
    <2>2. Settled /\ stage = "exited" => BiasesGreenOnce /\ CacheHoldsLists /\ DetectsWhatWasBiased
      BY DEF Settled, EnvType, BiasesGreenOnce, CacheHoldsLists, DetectsWhatWasBiased
    <2> QED
      BY <2>1, <2>2 DEF RunInv
  <1>2. RunInv => SumsEveryFlag /\ AcceptedUnlessTie /\ CountsGreenAndFolded
    BY SumsAll, AcceptedInv, FoldedInv DEF RunInv
  <1> QED
    BY <1>1, <1>2, RunInvariance, PTL

\* What the comparisons of an accepted run say of the published text.
LEMMA ComparedLists ==
    ASSUME RunInv, pc = "success", NEW i \in 1 .. maxToken,
           FoldKeeps(text[1][i], text[1][i + 1])
    PROVE  Hash(i) < Threshold(i) <=> Listed(text[1][i], text[1][i + 1])
  <1> DEFINE prev == text[1][i]
             token == text[1][i + 1]
  <1>1. pc \in Past /\ pc \in Checked /\ Inv /\ stage = "exited" /\ oracle \in Oracles
    BY DEF Past, Checked, RunInv, Inv
  <1>2. prog.twoToOne = env.twoToOne /\ env.twoToOne \in BOOLEAN /\ maxToken \in Nat
    BY <1>1 DEF RunInv, FileInv, Settled, EnvType, Inv, ProverTypeOK
  <1>3. /\ tokens[i].val = prev
        /\ prog.perToken => strings[i].val = SortedThreshold(env.twoToOne, prev)
    BY <1>1, <1>2, OwnText DEF ProvesOwnText, Past
  <1>4. tokens[i + 1].val = token
    <2>1. i + 1 \in 1 .. maxToken + 1
      BY <1>2
    <2> QED
      BY <1>1, <2>1, OwnText DEF ProvesOwnText, Past
  <1>5. prev \in Tokens /\ token \in Tokens /\ Hash(i) \in Nat /\ Threshold(i) \in Nat
    BY <1>1, <1>3, <1>4, ComparedType
  <1>6. Hash(i) = TokenHash(env.twoToOne, prev, token)
    BY <1>2, <1>3, <1>4 DEF Hash, FoldKeeps
  <1> HIDE DEF prev, token
  <1>7. CASE ~prog.perToken
    <2>1. Threshold(i) = FixedThreshold
      BY <1>7 DEF Threshold
    <2>2. Listed(prev, token) <=> TokenHash(env.twoToOne, prev, token) < FixedThreshold
      BY <1>7 DEF Listed, IsGreen
    <2> QED
      BY <1>6, <2>1, <2>2 DEF prev, token
  <1>8. CASE prog.perToken
    <2>1. Threshold(i) = SortedThreshold(env.twoToOne, prev)
      BY <1>3, <1>8 DEF Threshold
    <2>2. Hash(i) # Threshold(i)
      BY <1>1, AcceptedInv DEF AcceptedUnlessTie, Checked
    <2>3. Listed(prev, token) <=> token \in SortedGreenList(env.twoToOne, prev)
      BY <1>8 DEF Listed
    <2>4. IF token \in SortedGreenList(env.twoToOne, prev)
          THEN Hash(i) <= Threshold(i) ELSE Hash(i) >= Threshold(i)
      BY <1>1, <1>2, <1>5, <1>6, <2>1, SortedListIsExact
    <2> QED
      BY <1>5, <2>2, <2>3, <2>4 DEF prev, token
  <1> QED
    BY <1>7, <1>8

(***************************************************************************)
(* From the generation's lists to the exposed count, for every vocabulary, *)
(* hash, text and way the file is cut: unless the fold of SubFp meddles    *)
(* with a hash of the text, an accepted proof counts exactly the tokens of *)
(* the published text that are in the library's lists, the fixed ones or   *)
(* the sorted ones.                                                        *)
(***************************************************************************)
THEOREM ProofsCountTheLists == Spec => []CountsListedTokens
  <1>1. ASSUME RunInv, pc = "success",
               \A i \in 1 .. maxToken : FoldKeeps(text[1][i], text[1][i + 1])
        PROVE  count = Cardinality({i \in 1 .. maxToken : Listed(text[1][i], text[1][i + 1])})
    <2>1. Inv /\ pc \in Checked /\ Satisfied
      BY <1>1 DEF RunInv, Checked, Inv
    <2>2. count = Cardinality({i \in 1 .. maxToken : Hash(i) < Threshold(i)})
      BY <2>1, VerdictIsCount, SumIsLess
    <2>3. {i \in 1 .. maxToken : Hash(i) < Threshold(i)}
              = {i \in 1 .. maxToken : Listed(text[1][i], text[1][i + 1])}
      BY <1>1, ComparedLists
    <2> QED
      BY <2>2, <2>3
  <1>2. RunInv => CountsListedTokens
    BY <1>1 DEF CountsListedTokens
  <1> QED
    BY <1>2, RunInvariance, PTL
=============================================================================
