----------------------------- MODULE RecentLog -----------------------------
(* What the daemon's log buffer promises to its readers: a log that keeps   *)
(* the Size most recent entries in arrival order.  RingBuffer implements it *)
(* with a circular array and two indices.                                   *)
EXTENDS Naturals, Sequences

CONSTANTS Size,     \* capacity of the buffer (log_buffer_size)
          Entry     \* the log entries

VARIABLE log        \* the entries a reader may see, oldest first

Init == log = <<>>

(* A new entry goes to the end; a full log forgets its oldest entry first. *)
Record(e) ==
  log' = Append(IF Len(log) < Size THEN log ELSE Tail(log), e)

Next == \E e \in Entry : Record(e)

Spec == Init /\ [][Next]_log
=============================================================================
