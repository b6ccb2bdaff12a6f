---------------------------- MODULE EncodeBudget ----------------------------
(***************************************************************************)
(* ImageService::encode_with_max_bytes: the bounded binary search for a    *)
(* JPEG quality whose output fits a byte budget.                           *)
(*                                                                         *)
(* An encoder is a function from quality to output size; nothing is        *)
(* assumed of it, a smaller quality may well give a bigger file.  One step *)
(* is one iteration of the loop.                                           *)
(***************************************************************************)
EXTENDS Integers

CONSTANTS
    MaxQuality,    \* u8::MAX
    MaxAttempts,   \* MAX_BYTES_SEARCH_ATTEMPTS
    Budgets,       \* values of max_bytes
    Sizes          \* output sizes, in bytes

ASSUME BudgetAssumption ==
    /\ MaxQuality \in Nat \ {0}
    /\ MaxAttempts \in Nat
    /\ Budgets \subseteq Nat
    /\ Sizes \subseteq Nat

Qualities == 0..MaxQuality

VARIABLES
    pc,
    size,      \* the encoder: output size at each quality
    budget,    \* max_bytes
    initial,   \* initial_quality
    low, high, \* what is left of the range to search
    best,      \* the quality `best` was encoded at
    tried,     \* the qualities encoded so far
    attempts   \* iterations of the loop so far

vars == <<pc, size, budget, initial, low, high, best, tried, attempts>>
inputs == <<size, budget, initial>>

TypeOK ==
    /\ pc \in {"first", "search", "done", "failed"}
    /\ size \in [Qualities -> Sizes]
    /\ budget \in Budgets
    /\ initial \in Qualities
    /\ low \in 1..MaxQuality
    /\ high \in 0..MaxQuality
    /\ best \in Qualities
    /\ tried \subseteq Qualities
    /\ attempts \in 0..MaxAttempts

Init ==
    /\ pc = "first"
    /\ size \in [Qualities -> Sizes]
    /\ budget \in Budgets
    /\ initial \in Qualities
    /\ low = 1
    /\ high = 0
    /\ best = initial
    /\ tried = {}
    /\ attempts = 0

Fits(q) == size[q] <= budget

\* Faults: initial - 1 computed before quality 0 is ruled out; the range
\* begun one below it.
EncodeFirstUnderflows ==
    /\ pc = "first"
    /\ tried' = {initial}
    /\ high' = initial - 1
    /\ pc' = IF Fits(initial) \/ initial <= 1 THEN "done" ELSE "search"
    /\ UNCHANGED <<low, best, attempts>>
    /\ UNCHANGED inputs

EncodeFirstSkips ==
    /\ pc = "first"
    /\ tried' = {initial}
    /\ IF Fits(initial) \/ initial <= 1
       THEN pc' = "done" /\ UNCHANGED high
       ELSE pc' = "search" /\ high' = initial - 2
    /\ UNCHANGED <<low, best, attempts>>
    /\ UNCHANGED inputs

\* The quality asked for is tried first, and often good enough.
EncodeFirst ==
    /\ pc = "first"
    /\ tried' = {initial}
    /\ IF Fits(initial) \/ initial <= 1
       THEN pc' = "done" /\ UNCHANGED high
       ELSE pc' = "search" /\ high' = initial - 1
    /\ UNCHANGED <<low, best, attempts>>
    /\ UNCHANGED inputs

Searching == pc = "search" /\ low <= high /\ attempts < MaxAttempts

Mid == low + (high - low) \div 2

\* mid fits: it is the best so far, and a higher quality may still fit.
RaiseQuality ==
    /\ Searching
    /\ Fits(Mid)
    /\ best' = Mid
    /\ tried' = tried \cup {Mid}
    /\ attempts' = attempts + 1
    /\ IF Mid = MaxQuality THEN pc' = "done" /\ UNCHANGED low
                           ELSE low' = Mid + 1 /\ UNCHANGED pc
    /\ UNCHANGED high
    /\ UNCHANGED inputs

\* Faults: the comparison turned round; mid stays in
\* the range.
LowerQualityLargest ==
    /\ Searching
    /\ ~Fits(Mid)
    /\ best' = IF ~Fits(best) /\ size[Mid] > size[best] THEN Mid ELSE best
    /\ tried' = tried \cup {Mid}
    /\ attempts' = attempts + 1
    /\ high' = Mid - 1
    /\ UNCHANGED <<pc, low>>
    /\ UNCHANGED inputs

LowerQualityRepeats ==
    /\ Searching
    /\ ~Fits(Mid)
    /\ best' = IF ~Fits(best) /\ size[Mid] < size[best] THEN Mid ELSE best
    /\ tried' = tried \cup {Mid}
    /\ attempts' = attempts + 1
    /\ high' = Mid
    /\ UNCHANGED <<pc, low>>
    /\ UNCHANGED inputs

\* mid does not fit: keep it only if nothing fits yet and it is smaller.
LowerQuality ==
    /\ Searching
    /\ ~Fits(Mid)
    /\ best' = IF ~Fits(best) /\ size[Mid] < size[best] THEN Mid ELSE best
    /\ tried' = tried \cup {Mid}
    /\ attempts' = attempts + 1
    /\ IF Mid = 0 THEN pc' = "done" /\ UNCHANGED high
                  ELSE high' = Mid - 1 /\ UNCHANGED pc
    /\ UNCHANGED low
    /\ UNCHANGED inputs

EndSearch ==
    /\ pc = "search"
    /\ low > high \/ attempts = MaxAttempts
    /\ pc' = "done"
    /\ UNCHANGED <<low, high, best, tried, attempts>>
    /\ UNCHANGED inputs

\* encode_at fails: so does the whole call.
EncodeFails ==
    /\ pc = "first" \/ Searching
    /\ pc' = "failed"
    /\ UNCHANGED <<low, high, best, tried, attempts>>
    /\ UNCHANGED inputs

Next == EncodeFirst \/ RaiseQuality \/ LowerQuality \/ EndSearch \/ EncodeFails

Spec == Init /\ [][Next]_vars

-----------------------------------------------------------------------------
(* Properties *)

\* The doc comment's promise, for any encoder: among everything encoded the
\* output returned is the one of the highest quality that fits or, if none
\* fits, the smallest.
BestOfTried ==
    pc = "done" =>
        /\ best \in tried
        /\ \A q \in tried :
              IF Fits(best) THEN Fits(q) => q <= best
                            ELSE ~Fits(q) /\ size[best] <= size[q]

\* The search's quality stays in range and its result is the best one tried.
EncodeInv == TypeOK /\ BestOfTried

\* No quality is encoded twice: each attempt of the small allowance is spent
\* on a new one, so the encodes are the first and at most MaxAttempts more.
NoWastedAttempt ==
    [][attempts' # attempts => tried' # tried /\ attempts' = attempts + 1]_vars

\* What makes these inductive: the range still to be searched ends just below
\* a quality that did not fit, begins just above the best one that did, if
\* any did, and holds nothing tried.
SearchInv ==
    pc = "search" =>
        /\ low <= high + 1
        /\ high < initial
        /\ ~Fits(initial) /\ ~Fits(high + 1)
        /\ IF low > 1 THEN Fits(best) /\ best = low - 1 ELSE ~Fits(best)
        /\ best \in tried
        /\ \A q \in tried :
              /\ q \notin low..high
              /\ IF Fits(best) THEN Fits(q) => q <= best
                               ELSE ~Fits(q) /\ size[best] <= size[q]

\* An encoder whose output grows with quality, which the search is made for.
Monotone == \A p, q \in Qualities : p <= q => size[p] <= size[q]

\* For such an encoder a search that is not cut short by the attempt cap
\* finds the best quality there is that fits and is at most the initial one.
OptimalIfUncut ==
    pc = "done" /\ Monotone /\ (low > high \/ Fits(initial)) =>
        \A q \in 1..initial : Fits(q) => Fits(best) /\ q <= best

=============================================================================
