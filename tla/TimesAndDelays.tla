--------------------------- MODULE TimesAndDelays ---------------------------
(***************************************************************************)
(* What the breaker and the retries compute: the failures that are still   *)
(* inside the window, and a delay doubled at each retry.  Both are         *)
(* recursive functions, so that they can be reasoned about as well as      *)
(* evaluated.                                                              *)
(***************************************************************************)
EXTENDS Integers, Sequences

\* The times after the cutoff, picked one after the other.
TimesAfter(times, cutoff) ==
    LET kept[k \in 0 .. Len(times)] ==
          IF k = 0 THEN <<>>
          ELSE IF times[k] > cutoff THEN Append(kept[k-1], times[k]) ELSE kept[k-1]
    IN  kept[Len(times)]

\* base * 2 ^ retries
Doubled(base, retries) ==
    LET delay[n \in 0 .. retries] == IF n = 0 THEN base ELSE 2 * delay[n-1]
    IN  delay[retries]
=============================================================================
