-------------------------- MODULE RingBufferHistory --------------------------
(* The ring buffer with the history of all entries ever added beside it, so *)
(* that what GetLast returns can be compared with the end of the history.   *)
EXTENDS RingBuffer

VARIABLE history    \* every entry added so far

historyVars == <<entries, head, count, history>>

HistoryInit == BufferInit /\ history = <<>>

HistoryNext == \E e \in Entry : Add(e) /\ history' = Append(history, e)

HistorySpec == HistoryInit /\ [][HistoryNext]_historyVars
-----------------------------------------------------------------------------
(* The last k elements of s. *)
LastOf(s, k) == SubSeq(s, Len(s) - k + 1, Len(s))

Smaller(a, b) == IF a < b THEN a ELSE b

GetLastIsRecent(n) ==
  LET held == Smaller(Len(history), Size)
      want == IF n <= 0 THEN held ELSE Smaller(n, held)
  IN  GetLast(n) = LastOf(history, want)

(* GetLast(n) returns the n newest entries ever added in the order they     *)
(* arrived, as many as the capacity still holds, and all of those for n <= 0*)
(* (the comment over GetLast): however often the indices have wrapped.      *)
GetLastIsRecentHistory == \A n \in -1 .. Size + 1 : GetLastIsRecent(n)
=============================================================================
