---------------------------- MODULE MCRingBuffer ----------------------------
(* The ring buffer and its history on a small instance.                     *)
EXTENDS RingBufferHistory

CONSTANT MaxAdds    \* bound: how many entries one behaviour adds

MCNext == Len(history) < MaxAdds /\ HistoryNext

MCSpec == HistoryInit /\ [][MCNext]_historyVars
=============================================================================
