-------------------------- MODULE EncodeBudgetProofs --------------------------
(***************************************************************************)
(* What encode_with_max_bytes returns, for every encoder, byte budget,     *)
(* initial quality, quality range and attempt allowance.                   *)
(***************************************************************************)
EXTENDS EncodeBudget, TLAPS

\* Before the first encode the search variables are as they were initialised.
FirstInv == pc = "first" => low = 1 /\ high = 0 /\ best = initial

IInv == TypeOK /\ FirstInv /\ SearchInv /\ BestOfTried /\ OptimalIfUncut

\* The midpoint of a range that is not empty lies in it, whatever its ends:
\* low + (high - low) / 2 neither leaves the range nor, on u8, overflows.
LEMMA MidInRange ==
    ASSUME TypeOK, low <= high
    PROVE  Mid \in low..high
  BY BudgetAssumption DEF TypeOK, Mid, Qualities

\* Outputs have a length.
LEMMA SizesAreNat ==
    ASSUME TypeOK, NEW q \in Qualities
    PROVE  size[q] \in Nat
<1>1. size[q] \in Sizes
  BY DEF TypeOK
<1> QED
  BY <1>1, BudgetAssumption

\* The search begins with nothing tried.
LEMMA InitIInv == Init => IInv
  BY BudgetAssumption
     DEF Init, IInv, TypeOK, FirstInv, SearchInv, BestOfTried, OptimalIfUncut, Qualities

\* A step of the search preserves the type invariant: no end of the range
\* leaves the quality range, so the u8 arithmetic of the code is exact.
LEMMA TypeStep == TypeOK /\ SearchInv /\ [Next]_vars => TypeOK'
<1> SUFFICES ASSUME TypeOK, SearchInv, [Next]_vars
             PROVE  TypeOK'
  OBVIOUS
<1> USE BudgetAssumption
<1>1. CASE EncodeFirst
  BY <1>1 DEF TypeOK, EncodeFirst, inputs, Qualities
<1>2. CASE RaiseQuality
  <2>1. Mid \in low..high
    BY <1>2, MidInRange DEF RaiseQuality, Searching
  <2>2. high < initial
    BY <1>2 DEF RaiseQuality, Searching, SearchInv
  <2> QED
    BY <1>2, <2>1, <2>2 DEF TypeOK, RaiseQuality, Searching, inputs, Qualities
<1>3. CASE LowerQuality
  <2>1. Mid \in low..high
    BY <1>3, MidInRange DEF LowerQuality, Searching
  <2> QED
    BY <1>3, <2>1 DEF TypeOK, LowerQuality, Searching, inputs, Qualities
<1>4. CASE EndSearch
  BY <1>4 DEF TypeOK, EndSearch, inputs
<1>5. CASE EncodeFails
  BY <1>5 DEF TypeOK, EncodeFails, inputs
<1>6. CASE UNCHANGED vars
  BY <1>6 DEF TypeOK, vars
<1> QED
  BY <1>1, <1>2, <1>3, <1>4, <1>5, <1>6 DEF Next

\* One iteration after another keeps what is known of the range.
LEMMA SearchStep == TypeOK /\ FirstInv /\ SearchInv /\ [Next]_vars => SearchInv'
<1> SUFFICES ASSUME TypeOK, FirstInv, SearchInv, [Next]_vars, pc' = "search"
             PROVE  SearchInv'
  BY DEF SearchInv
<1> USE BudgetAssumption
<1>1. CASE EncodeFirst
  <2>1. /\ tried' = {initial} /\ high' = initial - 1 /\ low' = 1 /\ best' = initial
        /\ size' = size /\ budget' = budget /\ initial' = initial
        /\ initial > 1 /\ ~Fits(initial)
    BY <1>1 DEF EncodeFirst, FirstInv, inputs, TypeOK, Qualities
  <2>2. initial \in Nat /\ size[initial] \in Nat
    BY SizesAreNat DEF TypeOK, Qualities
  <2>3. (initial - 1) + 1 = initial
    BY <2>2
  <2>4. ~Fits(high + 1)' /\ ~Fits(initial)' /\ ~Fits(best)'
    BY <2>1, <2>3 DEF Fits
  <2> QED
    BY <2>1, <2>2, <2>4 DEF SearchInv, Fits
<1>2. CASE RaiseQuality
  <2>1. Mid \in low..high
    BY <1>2, MidInRange DEF RaiseQuality, Searching
  <2>2. /\ low' = Mid + 1 /\ best' = Mid /\ tried' = tried \cup {Mid}
        /\ size' = size /\ budget' = budget /\ initial' = initial /\ high' = high
        /\ pc = "search" /\ Fits(Mid)
    BY <1>2 DEF RaiseQuality, Searching, inputs
  <2>3. Fits(best)'
    BY <2>2 DEF Fits
  <2>4. ASSUME NEW q \in tried'
        PROVE  q \notin (low..high)' /\ (Fits(q)' => q <= best')
    <3>1. CASE q = Mid
      BY <3>1, <2>1, <2>2 DEF TypeOK, Qualities
    <3>2. CASE q \in tried
      BY <3>2, <2>1, <2>2 DEF TypeOK, Qualities, SearchInv, Fits
    <3> QED
      BY <3>1, <3>2, <2>2, <2>4
  <2> QED
    BY <2>1, <2>2, <2>3, <2>4 DEF TypeOK, Qualities, SearchInv, Fits
<1>3. CASE LowerQuality
  <2>1. Mid \in low..high
    BY <1>3, MidInRange DEF LowerQuality, Searching
  <2>2. /\ high' = Mid - 1 /\ tried' = tried \cup {Mid} /\ low' = low
        /\ best' = IF ~Fits(best) /\ size[Mid] < size[best] THEN Mid ELSE best
        /\ size' = size /\ budget' = budget /\ initial' = initial
        /\ pc = "search" /\ ~Fits(Mid)
    BY <1>3, <2>1 DEF LowerQuality, Searching, inputs, TypeOK
  <2>3. Mid \in Qualities /\ budget \in Nat /\ \A q \in Qualities : size[q] \in Nat
    BY <2>1, SizesAreNat DEF TypeOK, Qualities
  <2>4. ASSUME NEW q \in tried'
        PROVE  /\ q \notin (low..high)'
               /\ IF Fits(best)' THEN Fits(q)' => q <= best'
                                 ELSE ~Fits(q)' /\ size'[best'] <= size'[q]
    <3>1. CASE q = Mid
      BY <3>1, <2>1, <2>2, <2>3 DEF TypeOK, Qualities, SearchInv, Fits
    <3>2. CASE q \in tried
      BY <3>2, <2>1, <2>2, <2>3 DEF TypeOK, Qualities, SearchInv, Fits
    <3> QED
      BY <3>1, <3>2, <2>2, <2>4
  <2>5. (Mid - 1) + 1 = Mid /\ low \in Nat /\ high \in Nat /\ initial \in Nat
    BY <2>1, <2>3 DEF TypeOK, Qualities
  <2>6. ~Fits(high + 1)' /\ ~Fits(initial)'
    BY <2>2, <2>5 DEF SearchInv, Fits
  <2>7. best' \in tried'
    BY <2>2 DEF SearchInv
  <2>8. IF low > 1 THEN Fits(best)' /\ best' = low - 1 ELSE ~Fits(best)'
    BY <2>2 DEF SearchInv, Fits
  <2>9. low' <= high' + 1 /\ high' < initial'
    BY <2>1, <2>2, <2>3, <2>5 DEF SearchInv, Qualities
  <2> QED
    BY <2>2, <2>4, <2>6, <2>7, <2>8, <2>9 DEF SearchInv
<1>4. CASE EndSearch
  BY <1>4 DEF EndSearch
<1>5. CASE EncodeFails
  BY <1>5 DEF EncodeFails
<1>6. CASE UNCHANGED vars
  BY <1>6 DEF SearchInv, Fits, vars
<1> QED
  BY <1>1, <1>2, <1>3, <1>4, <1>5, <1>6 DEF Next

\* The call returns from the first encode, or from the loop with what the
\* loop maintained; the early exits inside an iteration are never taken.
LEMMA ResultStep == IInv /\ [Next]_vars => (BestOfTried /\ OptimalIfUncut)'
<1> SUFFICES ASSUME IInv, [Next]_vars, pc' = "done"
             PROVE  (BestOfTried /\ OptimalIfUncut)'
  BY DEF BestOfTried, OptimalIfUncut
<1> USE BudgetAssumption
<1>1. CASE EncodeFirst
  <2>1. /\ tried' = {initial} /\ best' = initial /\ high' = high
        /\ size' = size /\ budget' = budget /\ initial' = initial
        /\ Fits(initial) \/ initial <= 1
    BY <1>1 DEF IInv, FirstInv, EncodeFirst, inputs
  <2>2. initial \in Nat /\ size[initial] \in Nat
    BY SizesAreNat DEF IInv, TypeOK, Qualities
  <2>3. BestOfTried'
    BY <2>1, <2>2 DEF BestOfTried, Fits
  <2>4. ASSUME NEW q \in 1..initial, Fits(q)
        PROVE  Fits(initial) /\ q <= initial
    <3>1. CASE Fits(initial)
      BY <3>1, <2>2
    <3>2. CASE initial <= 1
      <4>1. q = initial
        BY <3>2, <2>2
      <4> QED
        BY <4>1, <2>2, <2>4
    <3> QED
      BY <2>1, <3>1, <3>2
  <2> QED
    BY <2>1, <2>3, <2>4 DEF OptimalIfUncut, Fits
<1>2. CASE RaiseQuality
  <2>1. Mid \in low..high
    BY <1>2, MidInRange DEF RaiseQuality, Searching, IInv
  <2>2. Mid < MaxQuality
    BY <1>2, <2>1 DEF RaiseQuality, Searching, IInv, TypeOK, SearchInv, Qualities
  <2> QED
    BY <1>2, <2>2 DEF RaiseQuality, Searching
<1>3. CASE LowerQuality
  <2>1. Mid \in low..high
    BY <1>3, MidInRange DEF LowerQuality, Searching, IInv
  <2>2. Mid # 0
    BY <2>1 DEF IInv, TypeOK
  <2> QED
    BY <1>3, <2>2 DEF LowerQuality, Searching
<1>4. CASE EndSearch
  <2>1. /\ pc = "search" /\ low' = low /\ high' = high /\ best' = best
        /\ tried' = tried /\ size' = size /\ budget' = budget /\ initial' = initial
    BY <1>4 DEF EndSearch, inputs
  <2>2. BestOfTried'
    BY <2>1 DEF IInv, SearchInv, BestOfTried, Fits
  <2>3. ASSUME Monotone, low > high, NEW q \in 1..initial, Fits(q)
        PROVE  Fits(best) /\ q <= best
    <3>1. initial \in Qualities /\ low \in Nat /\ high \in 0..MaxQuality /\ budget \in Nat
      BY DEF IInv, TypeOK, Qualities
    <3>2. q \in Qualities /\ high + 1 \in Qualities
      BY <3>1, <2>1 DEF Qualities, IInv, SearchInv
    <3>3. size[q] \in Nat /\ size[high + 1] \in Nat
      BY <3>2 DEF IInv, TypeOK
    <3>4. q <= high
      <4>1. CASE high + 1 <= q
        BY <4>1, <3>1, <3>2, <3>3, <2>1, <2>3 DEF Monotone, Fits, IInv, SearchInv
      <4> QED
        BY <4>1, <3>1, <3>2 DEF Qualities
    <3> QED
      BY <3>1, <3>4, <2>1, <2>3 DEF IInv, SearchInv, Qualities
  <2>4. ~Fits(initial)
    BY <2>1 DEF IInv, SearchInv
  <2> QED
    BY <2>1, <2>2, <2>3, <2>4 DEF OptimalIfUncut, Monotone, Fits
<1>5. CASE EncodeFails
  BY <1>5 DEF EncodeFails
<1>6. CASE UNCHANGED vars
  BY <1>6 DEF IInv, BestOfTried, OptimalIfUncut, Monotone, Fits, vars
<1> QED
  BY <1>1, <1>2, <1>3, <1>4, <1>5, <1>6 DEF Next

\* The inductive invariant of the search.
THEOREM Invariance == Spec => []IInv
<1>1. IInv /\ [Next]_vars => IInv'
  <2>1. FirstInv /\ [Next]_vars => FirstInv'
    BY DEF FirstInv, Next, EncodeFirst, RaiseQuality, LowerQuality, EndSearch,
           EncodeFails, Searching, vars
  <2> QED
    BY <2>1, TypeStep, SearchStep, ResultStep DEF IInv
<1> QED
  BY InitIInv, <1>1, PTL DEF Spec

\* For every encoder, the output returned is the one of the highest quality
\* tried that fits the budget or, when none fits, the smallest one tried.
THEOREM ReturnsBestOfTried == Spec => []BestOfTried
<1>1. IInv => BestOfTried
  BY DEF IInv
<1> QED
  BY Invariance, <1>1, PTL

\* The u8 arithmetic of the search stays in range, and the best output wins.
THEOREM SearchSound == Spec => []EncodeInv
<1>1. IInv => EncodeInv
  BY DEF IInv, EncodeInv
<1> QED
  BY Invariance, <1>1, PTL

\* For an encoder whose output grows with quality, a search that the attempt
\* cap did not cut short returns the best quality that fits.
THEOREM OptimalUnlessCut == Spec => []OptimalIfUncut
<1>1. IInv => OptimalIfUncut
  BY DEF IInv
<1> QED
  BY Invariance, <1>1, PTL

\* Every attempt is spent on a quality not tried before.
THEOREM AttemptsNotWasted == Spec => NoWastedAttempt
<1>1. IInv /\ [Next]_vars => [attempts' # attempts =>
                                 tried' # tried /\ attempts' = attempts + 1]_vars
  <2> SUFFICES ASSUME IInv, Next, attempts' # attempts
               PROVE  tried' # tried /\ attempts' = attempts + 1
    BY DEF vars
  <2>1. RaiseQuality \/ LowerQuality
    BY DEF Next, EncodeFirst, EndSearch, EncodeFails
  <2>2. Searching /\ tried' = tried \cup {Mid} /\ attempts' = attempts + 1
    BY <2>1 DEF RaiseQuality, LowerQuality
  <2>3. Mid \in low..high
    BY <2>2, MidInRange DEF Searching, IInv
  <2>4. Mid \notin tried
    BY <2>2, <2>3 DEF Searching, IInv, SearchInv
  <2> QED
    BY <2>2, <2>4
<1> QED
  BY Invariance, <1>1, PTL DEF Spec, NoWastedAttempt

=============================================================================
