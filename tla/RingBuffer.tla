----------------------------- MODULE RingBuffer -----------------------------
(* core.RingBuffer (src/internal/core/log_manager.go): the fixed-capacity   *)
(* circular buffer behind the "log" command.  Add runs under the write lock *)
(* and GetLast under the read lock, so each is one atomic step.             *)
EXTENDS Integers, Sequences

CONSTANTS Size,     \* capacity given to NewRingBuffer
          Entry,    \* driver.LogEntry values
          Blank     \* the zero LogEntry that make() puts in every slot

ASSUME SizeAssumption == Size \in Nat \ {0}

VARIABLES entries,  \* the circular array, indexed 0 .. Size-1
          head,     \* the slot the next Add writes
          count     \* how many slots hold an entry

bufVars == <<entries, head, count>>

Slot == 0 .. Size - 1

BufferInit ==
  /\ entries = [i \in Slot |-> Blank]
  /\ head = 0
  /\ count = 0

Add(e) ==
  /\ entries' = [entries EXCEPT ![head] = e]
  /\ head' = (head + 1) % Size
  /\ count' = IF count < Size THEN count + 1 ELSE count

\* Mutant: the oldest entry is taken to be in slot 0 of a full buffer too.
OldestIsSlotZero == 0

(* Physical index of the oldest entry stored. *)
Oldest == IF count < Size THEN 0 ELSE head

(* How many entries GetLast(n) returns: a non-positive n asks for all. *)
Returned(n) == IF n <= 0 \/ n >= count THEN count ELSE n

\* Mutant: reading starts at head also when the buffer is not full.
GetLastFromHead(n) ==
  LET skip == count - Returned(n)
  IN  [i \in 1 .. Returned(n) |-> entries[(head + skip + i - 1) % Size]]

GetLast(n) ==
  LET skip == count - Returned(n)
  IN  [i \in 1 .. Returned(n) |-> entries[(Oldest + skip + i - 1) % Size]]

GetAll == GetLast(0)

BufferNext == \E e \in Entry : Add(e)

BufferSpec == BufferInit /\ [][BufferNext]_bufVars
-----------------------------------------------------------------------------
(* The indices stay in the array, a buffer that is not full has been filled *)
(* from slot 0 up, and only filled slots hold entries: the two index        *)
(* computations of GetLast rely on it.                                      *)
BufferTypeOK ==
  /\ entries \in [Slot -> Entry \cup {Blank}]
  /\ head \in Slot
  /\ count \in 0 .. Size
  /\ count < Size => head = count
  /\ \A i \in Slot : i < count => entries[i] \in Entry

(* The circular array implements the log that keeps the most recent         *)
(* entries: its abstract value is what GetAll returns.                      *)
Recent == INSTANCE RecentLog WITH log <- GetAll
ImplementsRecentLog == Recent!Spec
=============================================================================
