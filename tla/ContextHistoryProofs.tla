------------------------ MODULE ContextHistoryProofs ------------------------
(***************************************************************************)
(* For every batch, history size, n-gram length and hash: the shifted      *)
(* history, the counter beside it and the circular buffer all stand for    *)
(* the same window of hashes, so that every backend takes the decision     *)
(* SkipsRepeats asks for, and the batched replay of the text takes it too. *)
(* The mask the detector works out from the text is that of the decisions. *)
(***************************************************************************)
EXTENDS ContextHistory, FiniteSetTheorems, NaturalFacts, TLAPS

---------------------------------------------------------------------------
(* The inductive invariant: what the kept state stands for. *)

\* What the next call of row r should find d calls back.
Upcoming(r, d) == Back(r, numCalls + 1, d)

ContextInv == \A r \in Rows : Shifted(r) = OnlineContext(text[r], numCalls + 1)

HistoryInv ==
    config.backend \in {"tensor", "deque"} =>
        \A r \in Rows : \A d \in Depths : history[r][d] = Upcoming(r, d)

\* The depths at which a history has the hash h.
At(hist, h) == {d \in Depths : hist[d] = h}

CountsInv ==
    config.backend = "deque" =>
        \A r \in Rows : \A h \in Hashes : counts[r][h] = Cardinality(At(history[r], h))

\* The slot that was written d calls ago.
SlotAt(i, d) == IF d <= i THEN i - d ELSE i - d + HistorySize

RingInv ==
    config.backend \in {"ring", "fused"} =>
        \A r \in Rows : \A d \in Depths : ring[r][SlotAt(index, d)] = Stored(Upcoming(r, d))

IInv ==
    /\ TypeOK
    /\ ContextInv
    /\ HistoryInv
    /\ CountsInv
    /\ RingInv
    /\ SkipsRepeats

---------------------------------------------------------------------------
(* Texts and contexts. *)

\* The context of a call is one the hash is defined on.
LEMMA OnlineContextType ==
    ASSUME NEW t \in Seq(Tokens), NEW k \in 1..(Len(t) + 1)
    PROVE  OnlineContext(t, k) \in Contexts
<1>1. ASSUME NEW j \in 1..(NgramLen - 1), k + j > NgramLen
      PROVE  k + j - NgramLen \in 1..Len(t)
  BY <1>1, ContextAssumption
<1>2. \A i \in 1..Len(t) : t[i] \in Tokens
  OBVIOUS
<1>3. 0 \in Tokens
  BY ContextAssumption
<1> QED
  BY <1>1, <1>2, <1>3 DEF OnlineContext, Contexts

\* The entries of a context are those of the text behind zeros.
LEMMA OnlineContextAt ==
    ASSUME NEW t, NEW k \in Nat, NEW j \in 1..(NgramLen - 1), NEW q \in Nat, k + j = q
    PROVE  /\ q > NgramLen => OnlineContext(t, k)[j] = t[q - NgramLen]
           /\ ~(q > NgramLen) => OnlineContext(t, k)[j] = 0
<1>1. /\ k + j > NgramLen => OnlineContext(t, k)[j] = t[k + j - NgramLen]
      /\ ~(k + j > NgramLen) => OnlineContext(t, k)[j] = 0
  BY DEF OnlineContext
<1>2. k + j - NgramLen = q - NgramLen
  BY ContextAssumption
<1> QED
  BY <1>1, <1>2

\* A further token changes no context up to the next call's.
LEMMA OnlineContextPrefix ==
    ASSUME NEW t \in Seq(Tokens), NEW x \in Tokens, NEW k \in 1..(Len(t) + 1)
    PROVE  OnlineContext(Append(t, x), k) = OnlineContext(t, k)
<1>1. ASSUME NEW j \in 1..(NgramLen - 1), k + j > NgramLen
      PROVE  k + j - NgramLen \in 1..Len(t)
  BY <1>1, ContextAssumption
<1>2. \A i \in 1..Len(t) : Append(t, x)[i] = t[i]
  OBVIOUS
<1> QED
  BY <1>1, <1>2 DEF OnlineContext

\* The context after a further token is the one before it, shifted.
LEMMA OnlineContextShift ==
    ASSUME NEW t \in Seq(Tokens), NEW x \in Tokens, NEW j \in 1..(NgramLen - 1)
    PROVE  OnlineContext(Append(t, x), Len(t) + 2)[j]
             = IF j = NgramLen - 1 THEN x ELSE OnlineContext(t, Len(t) + 1)[j + 1]
<1> DEFINE u == Append(t, x)
<1>1. /\ NgramLen \in Nat /\ NgramLen >= 2
      /\ Len(t) \in Nat
  BY ContextAssumption
<1> DEFINE q == Len(t) + 2 + j
<1>2. q \in Nat /\ (Len(t) + 2) + j = q /\ Len(t) + 2 \in Nat
  BY <1>1
<1>3. CASE j = NgramLen - 1
  <2>1. q > NgramLen /\ q - NgramLen = Len(t) + 1
    BY <1>1, <1>3
  <2>2. u[Len(t) + 1] = x
    OBVIOUS
  <2> HIDE DEF u, q
  <2>3. OnlineContext(u, Len(t) + 2)[j] = u[q - NgramLen]
    BY <1>2, <2>1, OnlineContextAt
  <2> QED
    BY <1>3, <2>1, <2>2, <2>3 DEF u
<1>4. CASE j # NgramLen - 1
  <2>1. j + 1 \in 1..(NgramLen - 1)
    BY <1>1, <1>4
  <2>2. (Len(t) + 1) + (j + 1) = q /\ Len(t) + 1 \in Nat
    BY <1>1
  <2>3. CASE q > NgramLen
    <3>1. q - NgramLen \in 1..Len(t)
      BY <1>1, <1>4, <2>3
    <3>2. \A i \in 1..Len(t) : u[i] = t[i]
      OBVIOUS
    <3> HIDE DEF u, q
    <3>3. u[q - NgramLen] = t[q - NgramLen]
      BY <3>1, <3>2
    <3>4. OnlineContext(u, Len(t) + 2)[j] = u[q - NgramLen]
      BY <1>2, <2>3, OnlineContextAt
    <3>5. OnlineContext(t, Len(t) + 1)[j + 1] = t[q - NgramLen]
      BY <1>2, <2>1, <2>2, <2>3, OnlineContextAt
    <3> QED
      BY <1>4, <3>3, <3>4, <3>5 DEF u
  <2>4. CASE ~(q > NgramLen)
    <3> HIDE DEF u, q
    <3>1. OnlineContext(u, Len(t) + 2)[j] = 0
      BY <1>2, <2>4, OnlineContextAt
    <3>2. OnlineContext(t, Len(t) + 1)[j + 1] = 0
      BY <1>2, <2>1, <2>2, <2>4, OnlineContextAt
    <3> QED
      BY <1>4, <3>1, <3>2 DEF u
  <2> QED
    BY <2>3, <2>4
<1> QED
  BY <1>3, <1>4

\* The hash of a call is a hash, of the context its text says.
LEMMA HashOfCall ==
    ASSUME TypeOK, ContextInv, NEW r \in Rows
    PROVE  /\ Shifted(r) \in Contexts
           /\ Hash(r) = HashOf[OnlineContext(text[r], numCalls + 1)]
           /\ Hash(r) \in Hashes
<1>1. OnlineContext(text[r], numCalls + 1) \in Contexts
  BY OnlineContextType DEF TypeOK
<1> QED
  BY <1>1, ContextAssumption DEF ContextInv, Hash

---------------------------------------------------------------------------
(* What a call does to the text, whatever it decides. *)

LEMMA SampleStep ==
    ASSUME TypeOK, ContextInv, NEW updated \in [Rows -> BOOLEAN], Sample(updated)
    PROVE  /\ config' = config
           /\ numCalls' = numCalls + 1
           /\ numCalls' \in 0..OutputsLen
           /\ context' \in [Rows -> Contexts]
           /\ text' \in [Rows -> Seq(Tokens)] /\ \A r \in Rows : Len(text'[r]) = numCalls'
           /\ drawn' \in [Rows -> Seq(BOOLEAN)] /\ \A r \in Rows : Len(drawn'[r]) = numCalls'
           /\ unfinished' \in [Rows -> BOOLEAN]
           /\ \A r \in Rows : \A k \in 1..(numCalls + 1) :
                 OnlineContext(text'[r], k) = OnlineContext(text[r], k)
           /\ ContextInv'
           /\ \A r \in Rows : \A k \in 1..numCalls : drawn'[r][k] = drawn[r][k]
           /\ \A r \in Rows : drawn'[r][numCalls + 1] = updated[r]
<1>1. PICK tokens \in [Rows -> Tokens] :
          /\ text' = [r \in Rows |-> Append(text[r], tokens[r])]
          /\ unfinished' = [r \in Rows |-> unfinished[r] /\ tokens[r] # Eos]
  BY DEF Sample
<1>2. /\ config' = config
      /\ numCalls' = numCalls + 1
      /\ drawn' = [r \in Rows |-> Append(drawn[r], updated[r])]
      /\ context' = [r \in Rows |-> Shifted(r)]
      /\ numCalls < OutputsLen
  BY DEF Sample
<1>3. numCalls \in Nat /\ numCalls' \in 0..OutputsLen /\ OutputsLen \in Nat
  BY <1>2, ContextAssumption DEF TypeOK
<1>4. context' \in [Rows -> Contexts]
  BY <1>2, HashOfCall
<1>5. ASSUME NEW r \in Rows
      PROVE  /\ text[r] \in Seq(Tokens) /\ Len(text[r]) = numCalls
             /\ text'[r] = Append(text[r], tokens[r]) /\ tokens[r] \in Tokens
             /\ text'[r] \in Seq(Tokens) /\ Len(text'[r]) = numCalls'
             /\ drawn'[r] \in Seq(BOOLEAN) /\ Len(drawn'[r]) = numCalls'
             /\ \A k \in 1..numCalls : drawn'[r][k] = drawn[r][k]
             /\ drawn'[r][numCalls + 1] = updated[r]
  <2>1. /\ text[r] \in Seq(Tokens) /\ Len(text[r]) = numCalls
        /\ drawn[r] \in Seq(BOOLEAN) /\ Len(drawn[r]) = numCalls
        /\ updated[r] \in BOOLEAN /\ tokens[r] \in Tokens
    BY DEF TypeOK
  <2>2. text'[r] = Append(text[r], tokens[r]) /\ drawn'[r] = Append(drawn[r], updated[r])
    BY <1>1, <1>2
  <2> QED
    BY <1>2, <1>3, <2>1, <2>2
<1>6. unfinished' \in [Rows -> BOOLEAN]
  BY <1>1 DEF TypeOK
<1>7. ASSUME NEW r \in Rows, NEW k \in 1..(numCalls + 1)
      PROVE  OnlineContext(text'[r], k) = OnlineContext(text[r], k)
  <2>1. text[r] \in Seq(Tokens) /\ tokens[r] \in Tokens /\ k \in 1..(Len(text[r]) + 1)
    BY <1>5
  <2>2. text'[r] = Append(text[r], tokens[r])
    BY <1>5
  <2> QED
    BY <2>1, <2>2, OnlineContextPrefix
<1>8. ASSUME NEW r \in Rows
      PROVE  Shifted(r)' = OnlineContext(text'[r], numCalls' + 1)
  <2> DEFINE new == OnlineContext(text'[r], numCalls' + 1)
             old == OnlineContext(text[r], numCalls + 1)
  <2>0. /\ text[r] \in Seq(Tokens) /\ Len(text[r]) = numCalls
        /\ text'[r] = Append(text[r], tokens[r]) /\ tokens[r] \in Tokens
        /\ text'[r] \in Seq(Tokens) /\ Len(text'[r]) = numCalls'
    BY <1>5
  <2>1. context'[r] = old
    BY <1>2 DEF ContextInv
  <2>2. numCalls' # 0 /\ numCalls' = Len(text[r]) + 1 /\ numCalls' + 1 = Len(text[r]) + 2
    BY <1>2, <1>3, <2>0
  <2>3. text'[r][numCalls'] = tokens[r]
    BY <2>0, <2>2
  <2>4. \A j \in 1..(NgramLen - 1) :
            new[j] = IF j = NgramLen - 1 THEN tokens[r] ELSE old[j + 1]
    BY <2>0, <2>2, OnlineContextShift
  <2>5. new \in Contexts
    <3>1. numCalls' + 1 \in 1..(Len(text'[r]) + 1)
      <4> DEFINE n == numCalls'
                 l == Len(text'[r])
      <4>1. n \in Nat /\ l = n
        BY <1>3, <2>0
      <4> HIDE DEF n, l
      <4>2. n + 1 \in 1..(l + 1)
        BY <4>1
      <4> QED
        BY <4>2 DEF n, l
    <3> QED
      BY <2>0, <3>1, OnlineContextType
  <2>6. Shifted(r)' = [j \in 1..(NgramLen - 1) |->
            IF j = NgramLen - 1 THEN text'[r][numCalls'] ELSE context'[r][j + 1]]
    BY <2>2 DEF Shifted
  <2> HIDE DEF new, old
  <2>7. Shifted(r)' = [j \in 1..(NgramLen - 1) |-> new[j]]
    BY <2>1, <2>3, <2>4, <2>6
  <2>8. new = [j \in 1..(NgramLen - 1) |-> new[j]]
    BY <2>5 DEF Contexts
  <2>9. Shifted(r)' = new
    BY <2>7, <2>8
  <2> QED
    BY <2>9 DEF new
<1>9. ContextInv'
  BY <1>8 DEF ContextInv, OnlineContext
<1>10. /\ text' \in [Rows -> Seq(Tokens)]
       /\ drawn' \in [Rows -> Seq(BOOLEAN)]
  BY <1>1, <1>2, <1>5
<1> QED
  BY <1>2, <1>3, <1>4, <1>5, <1>6, <1>7, <1>9, <1>10

---------------------------------------------------------------------------
(* The window of a call, and of the next one. *)

\* A call that is not skipped is one from which on the contexts are kept.
LEMMA KeptFrom ==
    ASSUME TypeOK
    PROVE  /\ numCalls \in Nat
           /\ FirstKept \in Nat /\ FirstKept >= 1
           /\ Skips <=> numCalls + 1 < FirstKept
BY ContextAssumption DEF TypeOK, FirstKept, Skips

\* What a call finds in the window is a hash.
LEMMA UpcomingType ==
    ASSUME TypeOK, NEW r \in Rows, NEW d \in Depths
    PROVE  Upcoming(r, d) \in Hashes
<1>1. 0 \in Hashes
  BY ContextAssumption DEF Hashes
<1>2. CASE (numCalls + 1) - d >= FirstKept
  <2>1. (numCalls + 1) - d \in 1..(Len(text[r]) + 1)
    BY <1>2, KeptFrom DEF TypeOK, Depths
  <2>2. OnlineContext(text[r], (numCalls + 1) - d) \in Contexts
    BY <2>1, OnlineContextType DEF TypeOK
  <2>3. HashOf[OnlineContext(text[r], (numCalls + 1) - d)] \in Hashes
    BY <2>2, ContextAssumption
  <2>4. Upcoming(r, d) = HashOf[OnlineContext(text[r], (numCalls + 1) - d)]
    BY <1>2 DEF Upcoming, Back
  <2> QED
    BY <2>3, <2>4
<1>3. CASE ~((numCalls + 1) - d >= FirstKept)
  <2>1. Upcoming(r, d) = 0
    BY <1>3 DEF Upcoming, Back
  <2> QED
    BY <1>1, <2>1
<1> QED
  BY <1>2, <1>3

\* A further token leaves the windows of all calls up to now as they were.
LEMMA BackStays ==
    ASSUME TypeOK, ContextInv, NEW updated \in [Rows -> BOOLEAN], Sample(updated),
           NEW r \in Rows, NEW k \in 1..(numCalls + 1), NEW d \in Depths
    PROVE  Back(r, k, d)' = Back(r, k, d)
<1>1. FirstKept' = FirstKept
  BY SampleStep DEF FirstKept
<1>2. CASE k - d >= FirstKept
  <2>1. k - d \in 1..(numCalls + 1)
    BY <1>2, KeptFrom DEF Depths
  <2>2. OnlineContext(text'[r], k - d) = OnlineContext(text[r], k - d)
    BY <2>1, SampleStep
  <2> QED
    BY <1>1, <2>2 DEF Back
<1>3. CASE ~(k - d >= FirstKept)
  BY <1>1, <1>3 DEF Back
<1> QED
  BY <1>2, <1>3

\* The window moves by the call's hash; that of a skipped call holds zeros.
LEMMA WindowMoves ==
    ASSUME TypeOK, ContextInv, NEW updated \in [Rows -> BOOLEAN], Sample(updated),
           NEW r \in Rows, NEW d \in Depths
    PROVE  /\ Skips => Upcoming(r, d)' = 0 /\ Upcoming(r, d) = 0
           /\ ~Skips /\ d = 1 => Upcoming(r, d)' = Hash(r)
           /\ ~Skips /\ d # 1 => d - 1 \in Depths /\ Upcoming(r, d)' = Upcoming(r, d - 1)
<1>1. FirstKept' = FirstKept /\ numCalls' = numCalls + 1
  BY SampleStep DEF FirstKept
<1>2. /\ d \in Nat /\ d >= 1 /\ d <= HistorySize
      /\ HistorySize \in Nat
  BY ContextAssumption DEF Depths
<1>3. Upcoming(r, d)' = IF (numCalls + 1 + 1) - d >= FirstKept
                        THEN HashOf[OnlineContext(text'[r], (numCalls + 1 + 1) - d)] ELSE 0
  BY <1>1 DEF Upcoming, Back
<1>4. CASE Skips
  <2>1. ~((numCalls + 1 + 1) - d >= FirstKept) /\ ~((numCalls + 1) - d >= FirstKept)
    BY <1>2, <1>4, KeptFrom
  <2> QED
    BY <1>3, <1>4, <2>1 DEF Upcoming, Back
<1>5. CASE ~Skips /\ d = 1
  <2>1. (numCalls + 1 + 1) - d = numCalls + 1 /\ numCalls + 1 >= FirstKept
    BY <1>5, KeptFrom
  <2>2. Upcoming(r, d)' = HashOf[OnlineContext(text'[r], numCalls + 1)]
    BY <1>3, <2>1
  <2>3. OnlineContext(text'[r], numCalls + 1) = OnlineContext(text[r], numCalls + 1)
    <3>1. numCalls + 1 \in 1..(numCalls + 1)
      BY KeptFrom
    <3> QED
      BY <3>1, SampleStep
  <2> QED
    BY <1>5, <2>2, <2>3, HashOfCall
<1>6. CASE ~Skips /\ d # 1
  <2>1. /\ d - 1 \in Depths
        /\ (numCalls + 1 + 1) - d = (numCalls + 1) - (d - 1)
    BY <1>2, <1>6, KeptFrom DEF Depths
  <2>2. CASE (numCalls + 1) - (d - 1) >= FirstKept
    <3>1. (numCalls + 1) - (d - 1) \in 1..(numCalls + 1)
      BY <1>2, <1>6, <2>2, KeptFrom
    <3>2. OnlineContext(text'[r], (numCalls + 1) - (d - 1))
            = OnlineContext(text[r], (numCalls + 1) - (d - 1))
      BY <3>1, SampleStep
    <3>3. Upcoming(r, d)' = HashOf[OnlineContext(text'[r], (numCalls + 1) - (d - 1))]
      BY <1>3, <2>1, <2>2
    <3>4. Upcoming(r, d - 1) = HashOf[OnlineContext(text[r], (numCalls + 1) - (d - 1))]
      BY <2>2 DEF Upcoming, Back
    <3> QED
      BY <1>6, <2>1, <3>2, <3>3, <3>4
  <2>3. CASE ~((numCalls + 1) - (d - 1) >= FirstKept)
    <3>1. Upcoming(r, d)' = 0
      BY <1>3, <2>1, <2>3
    <3>2. Upcoming(r, d - 1) = 0
      BY <2>3 DEF Upcoming, Back
    <3> QED
      BY <1>6, <2>1, <3>1, <3>2
  <2> QED
    BY <2>2, <2>3
<1> QED
  BY <1>4, <1>5, <1>6

\* A call that decides by its window keeps SkipsRepeats.
LEMMA DecisionHolds ==
    ASSUME TypeOK, ContextInv, SkipsRepeats,
           NEW updated \in [Rows -> BOOLEAN], Sample(updated),
           ~Skips => \A r \in Rows :
               updated[r] <=> \/ \A d \in Depths : Upcoming(r, d) # Hash(r)
                              \/ config.backend = "fused" /\ Hash(r) >= Half
    PROVE  SkipsRepeats'
<1> SUFFICES ASSUME NEW r \in Rows, NEW k \in (FirstKept..numCalls)'
             PROVE  (drawn[r][k] <=> (~Repeats(r, k) \/ Forgotten(r, k)))'
  BY DEF SkipsRepeats
<1>1. FirstKept' = FirstKept /\ numCalls' = numCalls + 1 /\ config' = config
  BY SampleStep DEF FirstKept
<1>2. k \in FirstKept..(numCalls + 1) /\ k \in 1..(numCalls + 1)
  BY <1>1, KeptFrom
<1>3. OnlineContext(text'[r], k) = OnlineContext(text[r], k)
  BY <1>2, SampleStep
<1>4. \A d \in Depths : Back(r, k, d)' = Back(r, k, d)
  BY <1>2, BackStays
<1>5. Repeats(r, k)' <=> Repeats(r, k)
  BY <1>3, <1>4 DEF Repeats
<1>6. Forgotten(r, k)' <=> Forgotten(r, k)
  BY <1>1, <1>3 DEF Forgotten
<1>7. CASE k = numCalls + 1
  <2>1. ~Skips
    BY <1>2, <1>7, KeptFrom
  <2>2. drawn'[r][k] = updated[r]
    BY <1>7, SampleStep
  <2>3. Hash(r) = HashOf[OnlineContext(text[r], k)]
    BY <1>7, HashOfCall
  <2>4. Repeats(r, k) <=> \E d \in Depths : Upcoming(r, d) = Hash(r)
    BY <1>7, <2>3 DEF Repeats, Upcoming
  <2>5. Forgotten(r, k) <=> config.backend = "fused" /\ Hash(r) >= Half
    BY <2>3 DEF Forgotten
  <2> QED
    BY <1>5, <1>6, <2>1, <2>2, <2>4, <2>5
<1>8. CASE k # numCalls + 1
  <2>1. k \in FirstKept..numCalls /\ k \in 1..numCalls
    BY <1>2, <1>8, KeptFrom
  <2>2. drawn'[r][k] = drawn[r][k]
    BY <2>1, SampleStep
  <2> QED
    BY <1>5, <1>6, <2>1, <2>2 DEF SkipsRepeats
<1> QED
  BY <1>7, <1>8

---------------------------------------------------------------------------
(* The deque and its counter. *)

\* The depths at which a hash is found are finitely many.
LEMMA AtFinite ==
    ASSUME NEW hist, NEW h
    PROVE  /\ IsFiniteSet(At(hist, h))
           /\ Cardinality(At(hist, h)) \in 0..HistorySize
<1>1. HistorySize \in Nat \ {0}
  BY ContextAssumption
<1>2. IsFiniteSet(Depths) /\ Cardinality(Depths) = HistorySize
  BY <1>1, FS_Interval DEF Depths
<1>3. At(hist, h) \in SUBSET Depths
  BY DEF At
<1>4. IsFiniteSet(At(hist, h)) /\ Cardinality(At(hist, h)) <= Cardinality(Depths)
  BY <1>2, <1>3, FS_Subset
<1>5. Cardinality(At(hist, h)) \in Nat
  BY <1>4, FS_CardinalityType
<1> QED
  BY <1>1, <1>2, <1>4, <1>5

\* A push adds one to the depths of the pushed hash and takes one from those of the
\* hash that falls out.
LEMMA PushCount ==
    ASSUME NEW hist, NEW new, NEW h
    PROVE  Cardinality(At(Pushed(hist, new), h))
             = Cardinality(At(hist, h)) + (IF new = h THEN 1 ELSE 0)
                                        - (IF hist[HistorySize] = h THEN 1 ELSE 0)
<1> DEFINE A == At(hist, h)
           B == At(Pushed(hist, new), h)
           kept_ == A \ {HistorySize}
           f == [d \in kept_ |-> d + 1]
<1>1. HistorySize \in Nat /\ HistorySize >= 1
  BY ContextAssumption
<1>2. /\ 1 \in B <=> new = h
      /\ HistorySize \in A <=> hist[HistorySize] = h
  BY <1>1 DEF At, Pushed, Depths
<1>3. \A d \in kept_ : d + 1 \in B \ {1}
  BY <1>1 DEF At, Pushed, Depths
<1>4. \A e \in B \ {1} : e - 1 \in kept_ /\ f[e - 1] = e
  BY <1>1 DEF At, Pushed, Depths
<1>5. f \in Bijection(kept_, B \ {1})
  <2>1. f \in [kept_ -> B \ {1}]
    BY <1>3
  <2>2. \A d, e \in kept_ : f[d] = f[e] => d = e
    BY <1>1 DEF At, Depths
  <2>3. \A e \in B \ {1} : \E d \in kept_ : f[d] = e
    BY <1>4
  <2> HIDE DEF f, kept_, B
  <2> QED
    BY <2>1, <2>2, <2>3 DEF Bijection, Injection, Surjection, IsInjective
<1>6. IsFiniteSet(A) /\ IsFiniteSet(B) /\ Cardinality(A) \in Nat /\ Cardinality(B) \in Nat
  BY AtFinite, <1>1
<1> HIDE DEF A, B, f
<1>7. IsFiniteSet(kept_) /\ Cardinality(kept_) = IF HistorySize \in A THEN Cardinality(A) - 1
                                                ELSE Cardinality(A)
  BY <1>6, FS_RemoveElement
<1>8. Cardinality(B \ {1}) = IF 1 \in B THEN Cardinality(B) - 1 ELSE Cardinality(B)
  BY <1>6, FS_RemoveElement
<1>9. ExistsBijection(kept_, B \ {1})
  BY <1>5 DEF ExistsBijection
<1>10. Cardinality(B \ {1}) = Cardinality(kept_)
  BY <1>7, <1>9, FS_Bijection
<1>11. Cardinality(B) = Cardinality(A) + (IF 1 \in B THEN 1 ELSE 0)
                                       - (IF HistorySize \in A THEN 1 ELSE 0)
  BY <1>6, <1>7, <1>8, <1>10
<1> QED
  BY <1>2, <1>11 DEF A, B

---------------------------------------------------------------------------
(* The circular buffer. *)

\* Advancing the index makes the slot just written the first one back and moves every
\* other slot one further back.
LEMMA SlotMoves ==
    ASSUME index \in Slots, NEW d \in Depths
    PROVE  /\ NextIndex \in Slots
           /\ SlotAt(index, d) \in Slots
           /\ d = 1 => SlotAt(NextIndex, d) = index
           /\ d # 1 => /\ SlotAt(NextIndex, d) = SlotAt(index, d - 1)
                       /\ SlotAt(NextIndex, d) # index
                       /\ SlotAt(NextIndex, d) \in Slots
<1>1. HistorySize \in Nat /\ HistorySize >= 1
  BY ContextAssumption
<1>2. NextIndex = IF index + 1 = HistorySize THEN 0 ELSE index + 1
  BY <1>1 DEF NextIndex, Slots
<1>3. CASE index + 1 = HistorySize
  <2>1. NextIndex = 0
    BY <1>2, <1>3
  <2> QED
    BY <1>1, <1>3, <2>1 DEF SlotAt, Slots, Depths
<1>4. CASE index + 1 # HistorySize
  <2>1. NextIndex = index + 1
    BY <1>2, <1>4
  <2> QED
    BY <1>1, <1>4, <2>1 DEF SlotAt, Slots, Depths
<1> QED
  BY <1>3, <1>4

\* Every slot is one of the last HistorySize that were written.
LEMMA SlotOfDepth ==
    ASSUME index \in Slots, NEW i \in Slots
    PROVE  \E d \in Depths : SlotAt(index, d) = i
<1>1. HistorySize \in Nat /\ HistorySize >= 1
  BY ContextAssumption
<1>2. CASE i < index
  <2>1. index - i \in Depths /\ SlotAt(index, index - i) = i
    BY <1>1, <1>2 DEF SlotAt, Slots, Depths
  <2> QED
    BY <2>1
<1>3. CASE ~(i < index)
  <2>1. (index - i) + HistorySize \in Depths /\ SlotAt(index, (index - i) + HistorySize) = i
    BY <1>1, <1>3 DEF SlotAt, Slots, Depths
  <2> QED
    BY <2>1
<1> QED
  BY <1>2, <1>3

\* A slot holds x exactly when some depth of the window is stored as x.
LEMMA RingLookup ==
    ASSUME TypeOK, RingInv, config.backend \in {"ring", "fused"}, NEW r \in Rows, NEW x
    PROVE  (\E i \in Slots : ring[r][i] = x) <=> (\E d \in Depths : Stored(Upcoming(r, d)) = x)
<1>1. index \in Slots
  BY DEF TypeOK
<1>2. \A d \in Depths : SlotAt(index, d) \in Slots /\ ring[r][SlotAt(index, d)] = Stored(Upcoming(r, d))
  BY <1>1, SlotMoves DEF RingInv
<1> QED
  BY <1>1, <1>2, SlotOfDepth

\* The int32 of a limb determines it, and equals a limb as a number only below Half.
LEMMA StoredFaithful ==
    ASSUME NEW g \in Hashes, NEW h \in Hashes
    PROVE  /\ Stored(h) \in (-Half)..(Half - 1)
           /\ Stored(g) = Stored(h) <=> g = h
           /\ Stored(g) = h <=> g = h /\ ~(h >= Half)
BY ContextAssumption DEF Stored, Hashes

---------------------------------------------------------------------------
(* The short cuts for the rows' agreement change nothing. *)
LEMMA UpdatedWhereNew ==
    ASSUME NEW repeated \in [Rows -> BOOLEAN]
    PROVE  /\ UpdatedRows(repeated) \in [Rows -> BOOLEAN]
           /\ \A r \in Rows : UpdatedRows(repeated)[r] <=> ~repeated[r]
<1>1. CASE \A r \in Rows : ~repeated[r]
  BY <1>1, Zenon DEF UpdatedRows
<1>2. CASE ~(\A r \in Rows : ~repeated[r]) /\ \A r \in Rows : repeated[r]
  BY <1>2, Zenon DEF UpdatedRows
<1>3. CASE ~(\A r \in Rows : ~repeated[r]) /\ ~(\A r \in Rows : repeated[r])
  <2>1. UpdatedRows(repeated) = [r \in Rows |-> ~repeated[r]]
    BY <1>3, Zenon DEF UpdatedRows
  <2> QED
    BY <2>1
<1> QED
  BY <1>1, <1>2, <1>3

---------------------------------------------------------------------------
(* Every step keeps the invariant. *)

\* What a call that changes the history moves: a history that held the window and gets
\* the hash pushed holds the next window.
LEMMA PushHoldsWindow ==
    ASSUME TypeOK, ContextInv, ~Skips,
           NEW updated \in [Rows -> BOOLEAN], Sample(updated),
           NEW r \in Rows, NEW hist \in [Depths -> Hashes],
           \A d \in Depths : hist[d] = Upcoming(r, d)
    PROVE  /\ Pushed(hist, Hash(r)) \in [Depths -> Hashes]
           /\ \A d \in Depths : Pushed(hist, Hash(r))[d] = Upcoming(r, d)'
<1>1. Hash(r) \in Hashes
  BY HashOfCall
<1>2. \A d \in Depths : d # 1 => d - 1 \in Depths
  BY ContextAssumption DEF Depths
<1>3. Pushed(hist, Hash(r)) \in [Depths -> Hashes]
  BY <1>1, <1>2 DEF Pushed
<1>4. ASSUME NEW d \in Depths
      PROVE  Pushed(hist, Hash(r))[d] = Upcoming(r, d)'
  <2>1. CASE d = 1
    BY <2>1, WindowMoves DEF Pushed
  <2>2. CASE d # 1
    <3>1. d - 1 \in Depths /\ Upcoming(r, d)' = Upcoming(r, d - 1)
      BY <2>2, WindowMoves
    <3>2. Pushed(hist, Hash(r))[d] = hist[d - 1]
      BY <2>2 DEF Pushed
    <3> QED
      BY <3>1, <3>2
  <2> QED
    BY <2>1, <2>2
<1> QED
  BY <1>3, <1>4

\* A skipped call leaves the zeros of the history, which is what the next one finds.
LEMMA SkipCallKeeps == ASSUME IInv, SkipCall PROVE IInv'
<1> DEFINE none == [r \in Rows |-> FALSE]
<1> USE DEF IInv
<1>1. none \in [Rows -> BOOLEAN] /\ Sample(none) /\ Skips /\ UNCHANGED kept
  BY DEF SkipCall
<1> HIDE DEF none
<1>2. \A r \in Rows, d \in Depths : Upcoming(r, d)' = Upcoming(r, d)
  BY <1>1, WindowMoves
<1>3. TypeOK'
  BY <1>1, SampleStep DEF TypeOK, kept
<1>4. ContextInv' /\ config' = config
  BY <1>1, SampleStep
<1>5. HistoryInv'
  BY <1>1, <1>2, <1>4 DEF HistoryInv, kept
<1>6. CountsInv'
  BY <1>1, <1>4 DEF CountsInv, kept
<1>7. RingInv'
  BY <1>1, <1>2, <1>4 DEF RingInv, kept
<1>8. SkipsRepeats'
  BY <1>1, DecisionHolds
<1> QED
  BY <1>3, <1>4, <1>5, <1>6, <1>7, <1>8

\* The shifted tensor.
LEMMA TensorCallKeeps == ASSUME IInv, TensorCall PROVE IInv'
<1> DEFINE updated == [r \in Rows |-> \A d \in Depths : history[r][d] # Hash(r)]
<1> USE DEF IInv
<1>1. /\ updated \in [Rows -> BOOLEAN] /\ Sample(updated) /\ ~Skips
      /\ config.backend = "tensor"
      /\ history' = [r \in Rows |-> Pushed(history[r], Hash(r))]
      /\ UNCHANGED <<counts, ring, index>>
  BY DEF TensorCall
<1>2. \A r \in Rows : updated[r] <=> \A d \in Depths : Upcoming(r, d) # Hash(r)
  BY <1>1 DEF HistoryInv
<1> HIDE DEF updated
<1>3. ASSUME NEW r \in Rows
      PROVE  /\ history'[r] \in [Depths -> Hashes]
             /\ \A d \in Depths : history'[r][d] = Upcoming(r, d)'
  <2>1. history[r] \in [Depths -> Hashes] /\ \A d \in Depths : history[r][d] = Upcoming(r, d)
    BY <1>1 DEF TypeOK, HistoryInv
  <2>2. history'[r] = Pushed(history[r], Hash(r))
    BY <1>1
  <2> QED
    BY <1>1, <2>1, <2>2, PushHoldsWindow
<1>4. history' \in [Rows -> [Depths -> Hashes]]
  BY <1>1, <1>3
<1>5. TypeOK'
  BY <1>1, <1>4, SampleStep DEF TypeOK
<1>6. ContextInv' /\ config' = config
  BY <1>1, SampleStep
<1>7. HistoryInv'
  BY <1>3 DEF HistoryInv
<1>8. CountsInv' /\ RingInv'
  BY <1>1, <1>6 DEF CountsInv, RingInv
<1>9. SkipsRepeats'
  BY <1>1, <1>2, DecisionHolds
<1> QED
  BY <1>5, <1>6, <1>7, <1>8, <1>9

\* The deque with its counter.
LEMMA DequeCallKeeps == ASSUME IInv, DequeCall PROVE IInv'
<1> DEFINE repeated == [r \in Rows |-> counts[r][Hash(r)] > 0]
           updated == UpdatedRows(repeated)
<1> USE DEF IInv
<1>1. /\ repeated \in [Rows -> BOOLEAN] /\ Sample(updated) /\ ~Skips
      /\ config.backend = "deque"
      /\ counts' = [r \in Rows |-> Counted(r)]
      /\ history' = [r \in Rows |-> Pushed(history[r], Hash(r))]
      /\ UNCHANGED <<ring, index>>
  BY DEF DequeCall
<1>2. updated \in [Rows -> BOOLEAN] /\ \A r \in Rows : updated[r] <=> ~repeated[r]
  BY <1>1, UpdatedWhereNew
<1>3. ASSUME NEW r \in Rows
      PROVE  updated[r] <=> \A d \in Depths : Upcoming(r, d) # Hash(r)
  <2>1. Hash(r) \in Hashes
    BY HashOfCall
  <2>2. counts[r][Hash(r)] = Cardinality(At(history[r], Hash(r)))
    BY <1>1, <2>1 DEF CountsInv
  <2>3. counts[r][Hash(r)] > 0 <=> At(history[r], Hash(r)) # {}
    <3>1. IsFiniteSet(At(history[r], Hash(r)))
          /\ Cardinality(At(history[r], Hash(r))) \in 0..HistorySize
      BY AtFinite
    <3>2. Cardinality(At(history[r], Hash(r))) = 0 <=> At(history[r], Hash(r)) = {}
      BY <3>1, FS_EmptySet
    <3> QED
      BY <2>2, <3>1, <3>2, ContextAssumption
  <2>4. At(history[r], Hash(r)) # {} <=> \E d \in Depths : Upcoming(r, d) = Hash(r)
    BY <1>1 DEF At, HistoryInv
  <2>5. repeated[r] <=> counts[r][Hash(r)] > 0
    OBVIOUS
  <2> QED
    BY <1>2, <2>3, <2>4, <2>5
<1> HIDE DEF repeated, updated
<1>4. ASSUME NEW r \in Rows
      PROVE  /\ history'[r] \in [Depths -> Hashes]
             /\ \A d \in Depths : history'[r][d] = Upcoming(r, d)'
             /\ history'[r] = Pushed(history[r], Hash(r))
  <2>1. history[r] \in [Depths -> Hashes] /\ \A d \in Depths : history[r][d] = Upcoming(r, d)
    BY <1>1 DEF TypeOK, HistoryInv
  <2>2. history'[r] = Pushed(history[r], Hash(r))
    BY <1>1
  <2> QED
    BY <1>1, <1>2, <2>1, <2>2, PushHoldsWindow
<1>5. history' \in [Rows -> [Depths -> Hashes]]
  BY <1>1, <1>4
<1>6. ASSUME NEW r \in Rows
      PROVE  /\ counts'[r] \in [Hashes -> 0..HistorySize]
             /\ \A h \in Hashes : counts'[r][h] = Cardinality(At(history'[r], h))
  <2> DEFINE evicted == history[r][HistorySize]
             new == Hash(r)
  <2>1. new \in Hashes /\ evicted \in Hashes
    BY HashOfCall, ContextAssumption DEF TypeOK, Depths
  <2>2. /\ counts[r] \in [Hashes -> 0..HistorySize]
        /\ counts'[r] = [[counts[r] EXCEPT ![evicted] = @ - 1] EXCEPT ![new] = @ + 1]
        /\ HistorySize \in Nat
    BY <1>1, ContextAssumption DEF TypeOK, Counted
  <2>3. history'[r] = Pushed(history[r], new)
    BY <1>4
  <2> HIDE DEF evicted, new
  <2>4. ASSUME NEW h \in Hashes
        PROVE  counts'[r][h] = counts[r][h] + (IF new = h THEN 1 ELSE 0)
                                            - (IF evicted = h THEN 1 ELSE 0)
    BY <2>1, <2>2
  <2>5. ASSUME NEW h \in Hashes
        PROVE  counts'[r][h] = Cardinality(At(history'[r], h))
    <3>1. counts[r][h] = Cardinality(At(history[r], h))
      BY <1>1 DEF CountsInv
    <3>2. Cardinality(At(Pushed(history[r], new), h))
            = Cardinality(At(history[r], h)) + (IF new = h THEN 1 ELSE 0)
                                             - (IF evicted = h THEN 1 ELSE 0)
      BY PushCount DEF evicted
    <3> QED
      BY <2>3, <2>4, <3>1, <3>2
  <2>6. \A h \in Hashes : counts'[r][h] \in 0..HistorySize
    BY <2>5, AtFinite
  <2>7. counts'[r] = [h \in Hashes |-> counts'[r][h]]
    BY <2>2
  <2> QED
    BY <2>5, <2>6, <2>7
<1>7. counts' \in [Rows -> [Hashes -> 0..HistorySize]]
  BY <1>1, <1>6
<1>8. TypeOK'
  BY <1>1, <1>2, <1>5, <1>7, SampleStep DEF TypeOK
<1>9. ContextInv' /\ config' = config
  BY <1>1, <1>2, SampleStep
<1>10. HistoryInv'
  BY <1>4 DEF HistoryInv
<1>11. CountsInv' /\ RingInv'
  BY <1>1, <1>6, <1>9 DEF CountsInv, RingInv
<1>12. SkipsRepeats'
  BY <1>1, <1>2, <1>3, DecisionHolds
<1> QED
  BY <1>8, <1>9, <1>10, <1>11, <1>12

\* What either kernel writes keeps the types and the window, given its decision.
LEMMA WriteRingKeeps ==
    ASSUME IInv, NEW updated \in [Rows -> BOOLEAN], Sample(updated), WriteRing,
           config.backend \in {"ring", "fused"}, ~Skips,
           \A r \in Rows :
               updated[r] <=> \/ \A d \in Depths : Upcoming(r, d) # Hash(r)
                              \/ config.backend = "fused" /\ Hash(r) >= Half
    PROVE  IInv'
<1> USE DEF IInv
<1>1. /\ ring' = [r \in Rows |-> [ring[r] EXCEPT ![index] = Stored(Hash(r))]]
      /\ index' = NextIndex
      /\ UNCHANGED <<history, counts>>
      /\ index \in Slots
  BY DEF WriteRing, TypeOK
<1>2. index' \in Slots
  <2>1. 1 \in Depths
    BY ContextAssumption DEF Depths
  <2> QED
    BY <1>1, <2>1, SlotMoves
<1>3. ASSUME NEW r \in Rows
      PROVE  /\ ring'[r] \in [Slots -> (-Half)..(Half - 1)]
             /\ \A d \in Depths : ring'[r][SlotAt(index', d)] = Stored(Upcoming(r, d)')
  <2>1. Hash(r) \in Hashes
    BY HashOfCall
  <2>2. Stored(Hash(r)) \in (-Half)..(Half - 1)
    BY <2>1, StoredFaithful
  <2>3. ring[r] \in [Slots -> (-Half)..(Half - 1)]
    BY DEF TypeOK
  <2>4. ring'[r] = [ring[r] EXCEPT ![index] = Stored(Hash(r))]
    BY <1>1
  <2>5. ASSUME NEW d \in Depths
        PROVE  ring'[r][SlotAt(index', d)] = Stored(Upcoming(r, d)')
    <3>1. CASE d = 1
      <4>1. SlotAt(index', d) = index
        BY <1>1, <3>1, SlotMoves
      <4>2. Upcoming(r, d)' = Hash(r)
        BY <3>1, WindowMoves
      <4> QED
        BY <1>1, <2>3, <2>4, <4>1, <4>2
    <3>2. CASE d # 1
      <4>1. /\ SlotAt(index', d) = SlotAt(index, d - 1)
            /\ SlotAt(index', d) # index /\ SlotAt(index', d) \in Slots
        BY <1>1, <3>2, SlotMoves
      <4>2. d - 1 \in Depths /\ Upcoming(r, d)' = Upcoming(r, d - 1)
        BY <3>2, WindowMoves
      <4>3. ring'[r][SlotAt(index', d)] = ring[r][SlotAt(index, d - 1)]
        BY <2>3, <2>4, <4>1
      <4>4. ring[r][SlotAt(index, d - 1)] = Stored(Upcoming(r, d - 1))
        BY <4>2 DEF RingInv
      <4> QED
        BY <4>2, <4>3, <4>4
    <3> QED
      BY <3>1, <3>2
  <2> QED
    BY <2>2, <2>3, <2>4, <2>5
<1>4. ring' \in [Rows -> [Slots -> (-Half)..(Half - 1)]]
  BY <1>1, <1>3
<1>5. TypeOK'
  BY <1>1, <1>2, <1>4, SampleStep DEF TypeOK
<1>6. ContextInv' /\ config' = config
  BY SampleStep
<1>7. HistoryInv' /\ CountsInv'
  BY <1>6 DEF HistoryInv, CountsInv
<1>8. RingInv'
  BY <1>3 DEF RingInv, SlotAt, Stored
<1>9. SkipsRepeats'
  BY DecisionHolds
<1> QED
  BY <1>5, <1>6, <1>7, <1>8, <1>9

\* The kernel of its own, which sees the hash as the ring holds it.
LEMMA RingCallKeeps == ASSUME IInv, RingCall PROVE IInv'
<1> DEFINE repeated == [r \in Rows |-> \E i \in Slots : ring[r][i] = Stored(Hash(r))]
           updated == UpdatedRows(repeated)
<1>1. /\ repeated \in [Rows -> BOOLEAN] /\ Sample(updated) /\ ~Skips /\ WriteRing
      /\ config.backend = "ring"
  BY DEF RingCall
<1>2. updated \in [Rows -> BOOLEAN] /\ \A r \in Rows : updated[r] <=> ~repeated[r]
  BY <1>1, UpdatedWhereNew
<1>3. ASSUME NEW r \in Rows
      PROVE  updated[r] <=> \A d \in Depths : Upcoming(r, d) # Hash(r)
  <2>1. Hash(r) \in Hashes /\ \A d \in Depths : Upcoming(r, d) \in Hashes
    BY HashOfCall, UpcomingType DEF IInv
  <2>2. repeated[r] <=> \E i \in Slots : ring[r][i] = Stored(Hash(r))
    OBVIOUS
  <2>3. (\E i \in Slots : ring[r][i] = Stored(Hash(r)))
          <=> \E d \in Depths : Stored(Upcoming(r, d)) = Stored(Hash(r))
    BY <1>1, RingLookup DEF IInv
  <2>4. \A d \in Depths : Stored(Upcoming(r, d)) = Stored(Hash(r)) <=> Upcoming(r, d) = Hash(r)
    BY <2>1, StoredFaithful
  <2> QED
    BY <1>2, <2>2, <2>3, <2>4
<1> HIDE DEF repeated, updated
<1> QED
  BY <1>1, <1>2, <1>3, WriteRingKeeps

\* The fused kernel, which misses the hashes of Half or more.
LEMMA FusedCallKeeps == ASSUME IInv, FusedCall PROVE IInv'
<1> DEFINE repeated == [r \in Rows |-> \E i \in Slots : ring[r][i] = Hash(r)]
           updated == UpdatedRows(repeated)
<1>1. /\ repeated \in [Rows -> BOOLEAN] /\ Sample(updated) /\ ~Skips /\ WriteRing
      /\ config.backend = "fused"
  BY DEF FusedCall
<1>2. updated \in [Rows -> BOOLEAN] /\ \A r \in Rows : updated[r] <=> ~repeated[r]
  BY <1>1, UpdatedWhereNew
<1>3. ASSUME NEW r \in Rows
      PROVE  updated[r] <=> (\A d \in Depths : Upcoming(r, d) # Hash(r)) \/ Hash(r) >= Half
  <2>1. Hash(r) \in Hashes /\ \A d \in Depths : Upcoming(r, d) \in Hashes
    BY HashOfCall, UpcomingType DEF IInv
  <2>2. repeated[r] <=> \E i \in Slots : ring[r][i] = Hash(r)
    OBVIOUS
  <2>3. (\E i \in Slots : ring[r][i] = Hash(r))
          <=> \E d \in Depths : Stored(Upcoming(r, d)) = Hash(r)
    BY <1>1, RingLookup DEF IInv
  <2>4. \A d \in Depths : Stored(Upcoming(r, d)) = Hash(r)
                             <=> Upcoming(r, d) = Hash(r) /\ ~(Hash(r) >= Half)
    BY <2>1, StoredFaithful
  <2> QED
    BY <1>2, <2>2, <2>3, <2>4
<1> HIDE DEF repeated, updated
<1> QED
  BY <1>1, <1>2, <1>3, WriteRingKeeps

\* At the start every history is all zeros, and so is the window.
LEMMA InitHolds == ASSUME Init PROVE IInv
<1>1. /\ HistorySize \in Nat /\ HistorySize >= 1
      /\ NgramLen \in Nat /\ NgramLen >= 2
      /\ Half \in Nat \ {0} /\ OutputsLen \in Nat
      /\ 0 \in Tokens
  BY ContextAssumption
<1>2. /\ 0 \in Hashes /\ 0 \in (-Half)..(Half - 1) /\ Stored(0) = 0
      /\ 0 \in Slots
  BY <1>1 DEF Hashes, Slots, Stored
<1>3. \A r \in Rows, d \in Depths : Upcoming(r, d) = 0
  BY <1>1 DEF Init, Upcoming, Back, FirstKept, Depths
<1>4. TypeOK
  <2>1. context \in [Rows -> Contexts]
    BY <1>1 DEF Init, Contexts
  <2>2. counts \in [Rows -> [Hashes -> 0..HistorySize]]
    BY <1>1 DEF Init
  <2>3. /\ text \in [Rows -> Seq(Tokens)] /\ \A r \in Rows : Len(text[r]) = numCalls
        /\ drawn \in [Rows -> Seq(BOOLEAN)] /\ \A r \in Rows : Len(drawn[r]) = numCalls
    BY DEF Init
  <2>4. history \in [Rows -> [Depths -> Hashes]] /\ ring \in [Rows -> [Slots -> (-Half)..(Half - 1)]]
    BY <1>2 DEF Init
  <2>5. numCalls \in 0..OutputsLen /\ index \in Slots
    BY <1>1, <1>2 DEF Init
  <2>6. config \in [backend : Backends, skip : SkipFirst] /\ unfinished \in [Rows -> BOOLEAN]
    BY DEF Init
  <2> QED
    BY <2>1, <2>2, <2>3, <2>4, <2>5, <2>6 DEF TypeOK
<1>5. ContextInv
  BY <1>1 DEF Init, ContextInv, Shifted, OnlineContext
<1>6. HistoryInv
  BY <1>3 DEF HistoryInv, Init
<1>7. CountsInv
  <2> SUFFICES ASSUME NEW r \in Rows, NEW h \in Hashes
               PROVE  counts[r][h] = Cardinality(At(history[r], h))
    BY DEF CountsInv
  <2>1. CASE h = 0
    <3>1. At(history[r], h) = Depths
      BY <2>1 DEF At, Init
    <3>2. Cardinality(Depths) = HistorySize
      BY <1>1, FS_Interval DEF Depths
    <3> QED
      BY <2>1, <3>1, <3>2 DEF Init
  <2>2. CASE h # 0
    <3>1. At(history[r], h) = {}
      BY <2>2 DEF At, Init
    <3> QED
      BY <2>2, <3>1, FS_EmptySet DEF Init
  <2> QED
    BY <2>1, <2>2
<1>8. RingInv
  <2>1. \A d \in Depths : SlotAt(index, d) \in Slots
    BY <1>4, SlotMoves DEF TypeOK
  <2> QED
    BY <1>2, <1>3, <2>1 DEF RingInv, Init
<1>9. SkipsRepeats
  <2>1. numCalls = 0 /\ FirstKept \in Nat /\ FirstKept >= 1
    BY <1>4, KeptFrom DEF Init
  <2>2. FirstKept..numCalls = {}
    BY <2>1
  <2> QED
    BY <2>2 DEF SkipsRepeats
<1> QED
  BY <1>4, <1>5, <1>6, <1>7, <1>8, <1>9 DEF IInv

\* Nothing changes while nothing does.
LEMMA StutterKeeps == ASSUME IInv, UNCHANGED vars PROVE IInv'
<1> USE DEF IInv, vars, kept
<1>1. TypeOK'
  BY DEF TypeOK
<1>2. ContextInv'
  BY DEF ContextInv, Shifted
<1>3. FirstKept' = FirstKept
  BY DEF FirstKept
<1>4. \A r \in Rows, d \in Depths : Upcoming(r, d)' = Upcoming(r, d)
  BY <1>3 DEF Upcoming, Back
<1>5. HistoryInv'
  BY <1>4 DEF HistoryInv
<1>6. CountsInv'
  BY DEF CountsInv
<1>7. RingInv'
  BY <1>4 DEF RingInv
<1>8. SkipsRepeats'
  BY <1>3 DEF SkipsRepeats, Repeats, Back, Forgotten
<1> QED
  BY <1>1, <1>2, <1>5, <1>6, <1>7, <1>8

\* The inductive invariant.
LEMMA Invariance == Spec => []IInv
<1>1. Init => IInv
  BY InitHolds
<1>2. IInv /\ [Next]_vars => IInv'
  <2> SUFFICES ASSUME IInv, [Next]_vars PROVE IInv'
    OBVIOUS
  <2>1. CASE SkipCall
    BY <2>1, SkipCallKeeps
  <2>2. CASE TensorCall
    BY <2>2, TensorCallKeeps
  <2>3. CASE DequeCall
    BY <2>3, DequeCallKeeps
  <2>4. CASE RingCall
    BY <2>4, RingCallKeeps
  <2>5. CASE FusedCall
    BY <2>5, FusedCallKeeps
  <2>6. CASE Terminated \/ UNCHANGED vars
    BY <2>6, StutterKeeps DEF Terminated
  <2> QED
    BY <2>1, <2>2, <2>3, <2>4, <2>5, <2>6 DEF Next
<1> QED
  BY <1>1, <1>2, PTL DEF Spec

---------------------------------------------------------------------------
\* Types, for every batch, vocabulary, history size and hash.
THEOREM TypeCorrect == Spec => []TypeOK
<1>1. IInv => TypeOK
  BY DEF IInv
<1> QED
  BY <1>1, Invariance, PTL

\* Whichever way the history is kept, a token is drawn from the plain scores exactly
\* when its context is one of the HistorySize kept before it; the fused kernel forgets
\* the hashes of Half or more.
THEOREM RepeatsAreSkipped == Spec => []SkipsRepeats
<1>1. IInv => SkipsRepeats
  BY DEF IInv
<1> QED
  BY <1>1, Invariance, PTL

\* For a finished text the batched replay finds a repetition where the calls did: the
\* calls it looks at and the zeros of the initial history are the window.
LEMMA BatchedIsWindow ==
    ASSUME TypeOK, ~config.skip, NEW r \in Rows, NEW k \in 1..numCalls
    PROVE  BatchedRepeated(text[r], k) <=> Repeats(r, k)
<1> DEFINE h == HashOf[OnlineContext(text[r], k)]
<1>1. FirstKept = 1 /\ HistorySize \in Nat /\ HistorySize >= 1 /\ k \in Nat /\ k >= 1
  BY ContextAssumption DEF FirstKept, TypeOK
<1>2. ASSUME BatchedRepeated(text[r], k) PROVE Repeats(r, k)
  <2>1. CASE h = 0 /\ k - 1 < HistorySize
    <3>1. k \in Depths /\ ~(k - k >= FirstKept)
      BY <1>1, <2>1 DEF Depths
    <3>2. Back(r, k, k) = 0
      BY <3>1 DEF Back
    <3> QED
      BY <2>1, <3>1, <3>2 DEF Repeats
  <2>2. ASSUME NEW p \in 1..(k - 1), p >= k - HistorySize,
               HashOf[OnlineContext(text[r], p)] = h
        PROVE  Repeats(r, k)
    <3>1. k - p \in Depths /\ k - (k - p) = p /\ p >= FirstKept
      BY <1>1, <2>2 DEF Depths
    <3>2. Back(r, k, k - p) = HashOf[OnlineContext(text[r], p)]
      BY <3>1 DEF Back
    <3> QED
      BY <2>2, <3>1, <3>2 DEF Repeats
  <2> QED
    BY <1>2, <2>1, <2>2 DEF BatchedRepeated
<1>3. ASSUME Repeats(r, k) PROVE BatchedRepeated(text[r], k)
  <2>1. PICK d \in Depths : Back(r, k, d) = h
    BY <1>3 DEF Repeats
  <2>2. CASE k - d >= FirstKept
    <3>1. k - d \in 1..(k - 1) /\ k - d >= k - HistorySize
      BY <1>1, <2>2 DEF Depths
    <3>2. HashOf[OnlineContext(text[r], k - d)] = h
      BY <2>1, <2>2 DEF Back
    <3> QED
      BY <3>1, <3>2 DEF BatchedRepeated
  <2>3. CASE ~(k - d >= FirstKept)
    <3>1. h = 0
      BY <2>1, <2>3 DEF Back
    <3>2. k - 1 < HistorySize
      BY <1>1, <2>3 DEF Depths
    <3> QED
      BY <3>1, <3>2 DEF BatchedRepeated
  <2> QED
    BY <2>2, <2>3
<1> QED
  BY <1>2, <1>3

\* The batched replay takes the decisions of the calls.
THEOREM ReplayIsFaithful == Spec => []ReplayAgrees
<1>1. IInv => ReplayAgrees
  <2> SUFFICES ASSUME IInv, config.backend # "fused", ~config.skip,
                      NEW r \in Rows, NEW k \in 1..numCalls
               PROVE  drawn[r][k] <=> ~BatchedRepeated(text[r], k)
    BY DEF ReplayAgrees
  <2>1. k \in FirstKept..numCalls /\ ~Forgotten(r, k)
    BY DEF FirstKept, Forgotten
  <2>2. drawn[r][k] <=> ~Repeats(r, k)
    BY <2>1 DEF IInv, SkipsRepeats
  <2> QED
    BY <2>2, BatchedIsWindow DEF IInv
<1> QED
  BY <1>1, Invariance, PTL

---------------------------------------------------------------------------
(* The detector's mask.  Its history is a recursive function: one step of its equation,  *)
(* that some function satisfies it, and what it holds.                                    *)

AfterWindows(t, A, n) ==
    [i \in 0..n |-> IF i = 0 THEN [d \in Depths |-> 0]
                    ELSE Pushed(A[i - 1], MaskHash[Window(t, i)])]

LEMMA HistoryOfMask ==
    ASSUME NEW t
    PROVE  \A n \in Nat : \E A : A = AfterWindows(t, A, n)
<1> DEFINE S == {n \in Nat : \E A : A = AfterWindows(t, A, n)}
           zeros == [d \in Depths |-> 0]
           Push(h, i) == Pushed(h, MaskHash[Window(t, i)])
<1>1. 0 \in S
  <2> DEFINE A == [i \in 0..0 |-> zeros]
  <2>1. A = AfterWindows(t, A, 0)
    BY DEF AfterWindows
  <2> QED
    BY <2>1
<1>2. ASSUME NEW n \in Nat, n \in S PROVE n + 1 \in S
  <2>1. PICK A : A = AfterWindows(t, A, n)
    BY <1>2
  <2> DEFINE B == [i \in 0..(n + 1) |-> IF i = n + 1 THEN Push(A[n], n + 1) ELSE A[i]]
             C == AfterWindows(t, B, n + 1)
  <2>2. \A i \in 0..(n + 1) : C[i] = IF i = 0 THEN zeros ELSE Push(B[i - 1], i)
    BY DEF AfterWindows
  <2>3. \A i \in 0..n : A[i] = IF i = 0 THEN zeros ELSE Push(A[i - 1], i)
    BY <2>1 DEF AfterWindows
  <2>4. \A i \in 0..(n + 1) : B[i] = IF i = n + 1 THEN Push(A[n], n + 1) ELSE A[i]
    OBVIOUS
  <2>5. C = [i \in 0..(n + 1) |-> C[i]]
    BY DEF AfterWindows
  <2> HIDE DEF B, C, zeros, Push
  <2>6. ASSUME NEW i \in 0..(n + 1) PROVE C[i] = B[i]
    <3>1. CASE i = 0
      BY <2>2, <2>3, <2>4, <3>1
    <3>2. CASE i \in 1..n
      <4>1. i - 1 \in 0..(n + 1) /\ i - 1 # n + 1 /\ i \in 0..n /\ i # 0 /\ i # n + 1
        BY <3>2
      <4> QED
        BY <2>2, <2>3, <2>4, <4>1
    <3>3. CASE i = n + 1
      <4>1. i - 1 = n /\ n \in 0..(n + 1) /\ n # n + 1 /\ i # 0
        BY <3>3
      <4> QED
        BY <2>2, <2>4, <3>3, <4>1
    <3> QED
      BY <3>1, <3>2, <3>3
  <2>7. B = C
    BY <2>5, <2>6 DEF B
  <2> QED
    BY <2>7 DEF C
<1> HIDE DEF S
<1>3. \A n \in Nat : n \in S
  BY <1>1, <1>2, Induction
<1> QED
  BY <1>3 DEF S

\* After n windows the mask's history has their hashes, the last first, before zeros.
LEMMA MaskHistoryHolds ==
    ASSUME NEW t, NumContexts(t) \in Nat
    PROVE  \A n \in 0..NumContexts(t) : \A d \in Depths :
               MaskHistory(t)[n][d] = IF d <= n THEN MaskHash[Window(t, n + 1 - d)] ELSE 0
<1> DEFINE top == NumContexts(t)
           after == CHOOSE A : A = AfterWindows(t, A, top)
<1>1. after = AfterWindows(t, after, top)
  BY HistoryOfMask
<1>2. MaskHistory(t) = after
  BY DEF MaskHistory, AfterWindows
<1> HIDE DEF after, top
<1>3. top \in Nat
  BY DEF top
<1>4. \A n \in 0..top : after[n] = IF n = 0 THEN [d \in Depths |-> 0]
                                   ELSE Pushed(after[n - 1], MaskHash[Window(t, n)])
  BY <1>1 DEF AfterWindows
<1> DEFINE S == {n \in Nat : n <= top => \A d \in Depths :
                     after[n][d] = IF d <= n THEN MaskHash[Window(t, n + 1 - d)] ELSE 0}
<1>5. 0 \in S
  <2>1. after[0] = [d \in Depths |-> 0]
    BY <1>3, <1>4
  <2>2. ASSUME NEW d \in Depths
        PROVE  after[0][d] = IF d <= 0 THEN MaskHash[Window(t, 0 + 1 - d)] ELSE 0
    <3>1. ~(d <= 0)
      BY ContextAssumption DEF Depths
    <3> QED
      BY <2>1, <3>1
  <2> QED
    BY <2>2
<1>6. ASSUME NEW n \in Nat, n \in S PROVE n + 1 \in S
  <2> SUFFICES ASSUME n + 1 <= top, NEW d \in Depths
               PROVE  after[n + 1][d]
                        = IF d <= n + 1 THEN MaskHash[Window(t, n + 1 + 1 - d)] ELSE 0
    OBVIOUS
  <2>1. n + 1 \in 0..top /\ n + 1 # 0 /\ (n + 1) - 1 = n /\ n <= top
    BY <1>3
  <2>2. after[n + 1] = Pushed(after[n], MaskHash[Window(t, n + 1)])
    BY <1>4, <2>1
  <2>3. CASE d = 1
    <3>1. n + 1 + 1 - d = n + 1 /\ d <= n + 1
      BY <2>3
    <3> QED
      BY <2>2, <2>3, <3>1 DEF Pushed
  <2>4. CASE d # 1
    <3>1. d - 1 \in Depths /\ (d - 1 <= n <=> d <= n + 1) /\ n + 1 - (d - 1) = n + 1 + 1 - d
      BY <2>4, ContextAssumption DEF Depths
    <3>2. after[n + 1][d] = after[n][d - 1]
      BY <2>2, <2>4 DEF Pushed
    <3>3. after[n][d - 1] = IF d - 1 <= n THEN MaskHash[Window(t, n + 1 - (d - 1))] ELSE 0
      BY <1>6, <2>1, <3>1
    <3> QED
      BY <3>1, <3>2, <3>3
  <2> QED
    BY <2>3, <2>4
<1> HIDE DEF S
<1>7. \A n \in Nat : n \in S
  BY <1>5, <1>6, Induction
<1>8. \A n \in 0..top : n \in Nat /\ n <= top
  BY <1>3
<1> QED
  BY <1>2, <1>7, <1>8 DEF S, top

\* The windows of a text are the contexts of its calls from the NgramLen-th on.
LEMMA WindowIsContext ==
    ASSUME NEW t \in Seq(Tokens), NEW i \in 1..NumContexts(t)
    PROVE  /\ Window(t, i) \in Contexts
           /\ Window(t, i) = OnlineContext(t, i + NgramLen - 1)
<1>1. /\ NgramLen \in Nat /\ NgramLen >= 2
      /\ Len(t) \in Nat
  BY ContextAssumption
<1>2. i \in Nat /\ i >= 1 /\ i <= Len(t) - NgramLen + 1
  BY <1>1 DEF NumContexts
<1>3. ASSUME NEW j \in 1..(NgramLen - 1)
      PROVE  /\ i + j - 1 \in 1..Len(t)
             /\ (i + NgramLen - 1) + j > NgramLen
             /\ (i + NgramLen - 1) + j - NgramLen = i + j - 1
  BY <1>1, <1>2
<1>4. \A m \in 1..Len(t) : t[m] \in Tokens
  OBVIOUS
<1> QED
  BY <1>3, <1>4 DEF Window, Contexts, OnlineContext

\* A window is kept by the mask when none of the HistorySize windows before it is the same.
LEMMA MaskIsWindow ==
    ASSUME NEW t \in Seq(Tokens), NEW i \in 1..NumContexts(t)
    PROVE  ContextRepetitionMask(t)[i]
             <=> \A d \in Depths : d < i => Window(t, i - d) # Window(t, i)
<1>1. NumContexts(t) \in Nat
  BY ContextAssumption DEF NumContexts
<1>2. ContextRepetitionMask(t)[i]
        <=> \A d \in Depths : MaskHistory(t)[i - 1][d] # MaskHash[Window(t, i)]
  BY DEF ContextRepetitionMask
<1>3. ASSUME NEW d \in Depths
      PROVE  MaskHistory(t)[i - 1][d] # MaskHash[Window(t, i)]
               <=> (d < i => Window(t, i - d) # Window(t, i))
  <2>1. i - 1 \in 0..NumContexts(t) /\ i - 1 + 1 - d = i - d /\ (d <= i - 1 <=> d < i)
    BY <1>1 DEF Depths
  <2>2. MaskHistory(t)[i - 1][d] = IF d < i THEN MaskHash[Window(t, i - d)] ELSE 0
    BY <1>1, <2>1, MaskHistoryHolds
  <2>3. Window(t, i) \in Contexts
    BY WindowIsContext
  <2>4. CASE d < i
    <3>1. i - d \in 1..NumContexts(t)
      BY <1>1, <2>4 DEF Depths
    <3>2. Window(t, i - d) \in Contexts
      BY <3>1, WindowIsContext
    <3> QED
      BY <2>2, <2>3, <2>4, <3>2, HashAssumption
  <2>5. CASE ~(d < i)
    BY <2>2, <2>3, <2>5, HashAssumption
  <2> QED
    BY <2>4, <2>5
<1> QED
  BY <1>2, <1>3

\* A call is scored when its context is new to the mask and the text has not ended.
LEMMA ScoredWhenKept ==
    ASSUME NEW t \in Seq(Tokens), NEW k \in NgramLen..Len(t)
    PROVE  /\ k - NgramLen + 1 \in 1..NumContexts(t)
           /\ k \in CombinedMask(t)
                <=> /\ ContextRepetitionMask(t)[k - NgramLen + 1]
                    /\ EosTokenMask(t)[k]
<1>1. NgramLen \in Nat /\ NgramLen >= 2 /\ Len(t) \in Nat
  BY ContextAssumption
<1> DEFINE i == k - NgramLen + 1
<1>2. i \in 1..NumContexts(t) /\ i + NgramLen - 1 = k
  BY <1>1 DEF NumContexts
<1>3. \A m \in 1..NumContexts(t) : m + NgramLen - 1 = k => m = i
  BY <1>1, <1>2 DEF NumContexts
<1> HIDE DEF i
<1>4. k \in CombinedMask(t) <=> ContextRepetitionMask(t)[i] /\ EosTokenMask(t)[k]
  BY <1>2, <1>3 DEF CombinedMask
<1> QED
  BY <1>2, <1>4 DEF i

\* Where the call d calls back has a window of its own, that call's context is the same
\* exactly when its window is.
LEMMA BackIsWindow ==
    ASSUME TypeOK, NEW r \in Rows, NEW k \in NgramLen..numCalls, NEW d \in Depths,
           k - d >= NgramLen
    PROVE  LET i == k - NgramLen + 1
           IN  /\ d < i
               /\ Back(r, k, d) = HashOf[OnlineContext(text[r], k)]
                    <=> Window(text[r], i - d) = Window(text[r], i)
<1> DEFINE t == text[r]
           i == k - NgramLen + 1
<1>1. /\ NgramLen \in Nat /\ NgramLen >= 2
      /\ numCalls \in Nat /\ t \in Seq(Tokens) /\ Len(t) = numCalls
      /\ HistorySize \in Nat
  BY ContextAssumption DEF TypeOK
<1>2. /\ i \in 1..NumContexts(t) /\ i - d \in 1..NumContexts(t) /\ d < i
      /\ i + NgramLen - 1 = k /\ (i - d) + NgramLen - 1 = k - d
  BY <1>1 DEF NumContexts, Depths
<1>3. k - d >= FirstKept
  BY <1>1 DEF FirstKept, Depths
<1>4. Back(r, k, d) = HashOf[OnlineContext(t, k - d)]
  BY <1>3 DEF Back
<1> HIDE DEF t, i
<1>5. /\ Window(t, i) \in Contexts /\ Window(t, i) = OnlineContext(t, k)
      /\ Window(t, i - d) \in Contexts /\ Window(t, i - d) = OnlineContext(t, k - d)
  BY <1>1, <1>2, WindowIsContext
<1>6. Back(r, k, d) = HashOf[OnlineContext(t, k)] <=> Window(t, i - d) = Window(t, i)
  BY <1>4, <1>5, HashAssumption
<1> QED
  BY <1>2, <1>6 DEF t, i

LEMMA ScoresDrawn == IInv => ScoresWhatWasDrawn
<1> SUFFICES ASSUME IInv, config.backend # "fused", NEW r \in Rows, NEW k \in NgramLen..numCalls
             PROVE  /\ k \in CombinedMask(text[r]) => drawn[r][k] \/ PaddedTwin(r, k)
                    /\ drawn[r][k] /\ EosTokenMask(text[r])[k] => k \in CombinedMask(text[r])
  BY DEF ScoresWhatWasDrawn
<1> DEFINE t == text[r]
           i == k - NgramLen + 1
<1>1. /\ NgramLen \in Nat /\ NgramLen >= 2 /\ numCalls \in Nat /\ HistorySize \in Nat
      /\ t \in Seq(Tokens) /\ Len(t) = numCalls /\ k \in NgramLen..Len(t)
  BY ContextAssumption DEF IInv, TypeOK
<1>2. drawn[r][k] <=> ~Repeats(r, k)
  <2>1. k \in FirstKept..numCalls
    BY <1>1 DEF FirstKept
  <2> QED
    BY <2>1 DEF IInv, SkipsRepeats, Forgotten
<1>3. \A d \in Depths : k - d >= NgramLen =>
          /\ d < i
          /\ Back(r, k, d) = HashOf[OnlineContext(t, k)] <=> Window(t, i - d) = Window(t, i)
  BY BackIsWindow DEF IInv
<1>4. \A d \in Depths : d < i <=> k - d >= NgramLen
  BY <1>1 DEF Depths
<1>5. /\ i \in 1..NumContexts(t)
      /\ k \in CombinedMask(t) <=> ContextRepetitionMask(t)[i] /\ EosTokenMask(t)[k]
  BY <1>1, ScoredWhenKept
<1> HIDE DEF t, i
<1>6. ContextRepetitionMask(t)[i] <=> \A d \in Depths : d < i => Window(t, i - d) # Window(t, i)
  BY <1>1, <1>5, MaskIsWindow
<1>7. ASSUME k \in CombinedMask(t), ~drawn[r][k] PROVE PaddedTwin(r, k)
  <2>1. PICK d \in Depths : Back(r, k, d) = HashOf[OnlineContext(t, k)]
    BY <1>2, <1>7 DEF Repeats, t
  <2>2. ~(k - d >= NgramLen)
    BY <1>3, <1>5, <1>6, <1>7, <2>1
  <2>3. k - d < NgramLen
    BY <1>1, <2>2 DEF Depths
  <2> QED
    BY <2>1, <2>3 DEF PaddedTwin, t
<1>8. ASSUME drawn[r][k], EosTokenMask(t)[k] PROVE k \in CombinedMask(t)
  <2>1. \A d \in Depths : Back(r, k, d) # HashOf[OnlineContext(t, k)]
    BY <1>2, <1>8 DEF Repeats, t
  <2> QED
    BY <1>3, <1>4, <1>5, <1>6, <1>8, <2>1
<1> QED
  BY <1>7, <1>8 DEF t

\* What the detector works out from a text agrees with what the calls did, whichever way
\* the history is kept (the fused kernel aside) and for any text.
THEOREM DetectorScoresWhatWasDrawn == Spec => []ScoresWhatWasDrawn
  BY ScoresDrawn, Invariance, PTL
=============================================================================
