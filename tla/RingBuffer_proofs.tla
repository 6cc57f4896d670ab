-------------------------- MODULE RingBuffer_proofs --------------------------
(* The ring buffer implements the log of recent entries, and what GetLast   *)
(* returns is the end of the history, for every capacity and set of entries.*)
EXTENDS RingBufferHistory, SequenceTheorems, TLAPS

(* Every index the buffer computes is below twice its size, where the       *)
(* remainder is at most one subtraction.                                    *)
LEMMA Wrap ==
  ASSUME NEW a \in 0 .. 2 * Size - 1
  PROVE  a % Size = IF a < Size THEN a ELSE a - Size
<1>1. CASE a < Size
  BY <1>1, SizeAssumption, Z3
<1>2. CASE a >= Size
  BY <1>2, SizeAssumption, Z3
<1> QED BY <1>1, <1>2, SizeAssumption

(* BufferTypeOK is inductive: the indices computed by Add stay in the array *)
(* and only filled slots count as filled.                                   *)
LEMMA AddPreservesType ==
  ASSUME BufferTypeOK, NEW e \in Entry, Add(e)
  PROVE  BufferTypeOK'
<1> USE SizeAssumption DEF Slot
<1>1. head \in 0 .. Size - 1 /\ count \in 0 .. Size
  BY DEF BufferTypeOK
<1>2. (head + 1) % Size = IF head + 1 < Size THEN head + 1 ELSE 0
  BY <1>1, Wrap, head + 1 \in 0 .. 2 * Size - 1
<1>3. (entries \in [Slot -> Entry \cup {Blank}])'
  BY DEF BufferTypeOK, Add
<1>4. (head \in Slot)' /\ (count \in 0 .. Size)'
  BY <1>1, <1>2 DEF Add
<1>5. (count < Size => head = count)'
  BY <1>1, <1>2 DEF BufferTypeOK, Add
<1>6. (\A i \in Slot : i < count => entries[i] \in Entry)'
  BY <1>1 DEF BufferTypeOK, Add
<1> QED BY <1>3, <1>4, <1>5, <1>6 DEF BufferTypeOK

(* BufferTypeOK holds of every behaviour of the buffer. *)
THEOREM BufferTypeCorrect == BufferSpec => []BufferTypeOK
<1>1. BufferInit => BufferTypeOK
  BY SizeAssumption DEF BufferInit, BufferTypeOK, Slot
<1>2. BufferTypeOK /\ [BufferNext]_bufVars => BufferTypeOK'
  <2> SUFFICES ASSUME BufferTypeOK, [BufferNext]_bufVars PROVE BufferTypeOK'
    OBVIOUS
  <2>1. CASE BufferNext
    BY <2>1, AddPreservesType DEF BufferNext
  <2>2. CASE UNCHANGED bufVars
    BY <2>2 DEF bufVars, BufferTypeOK
  <2> QED BY <2>1, <2>2
<1> QED BY <1>1, <1>2, PTL DEF BufferSpec

(* What GetAll returns, slot by slot: as many entries as the buffer counts, *)
(* read from the oldest one on, continuing at slot 0 past the last slot.    *)
Contents ==
  /\ GetAll \in Seq(Entry)
  /\ Len(GetAll) = count
  /\ \A i \in 1 .. count :
       GetAll[i] = entries[IF Oldest + i - 1 < Size
                           THEN Oldest + i - 1 ELSE Oldest + i - 1 - Size]

(* GetAll has these contents whenever the indices are well formed. *)
LEMMA GetAllContents == BufferTypeOK => Contents
<1> SUFFICES ASSUME BufferTypeOK PROVE Contents
  OBVIOUS
<1> USE SizeAssumption DEF Slot
<1> DEFINE at(i) == IF Oldest + i - 1 < Size THEN Oldest + i - 1 ELSE Oldest + i - 1 - Size
<1>1. head \in 0 .. Size - 1 /\ count \in 0 .. Size /\ Oldest \in 0 .. Size - 1
  BY DEF BufferTypeOK, Oldest
<1>2. GetAll = [i \in 1 .. count |-> entries[(Oldest + (count - count) + i - 1) % Size]]
  BY <1>1 DEF GetAll, GetLast, Returned
<1>3. ASSUME NEW i \in 1 .. count
      PROVE  (Oldest + (count - count) + i - 1) % Size = at(i) /\ entries[at(i)] \in Entry
  <2>1. Oldest + (count - count) + i - 1 = Oldest + i - 1
    BY <1>1
  <2>2. Oldest + i - 1 \in 0 .. 2 * Size - 1
    BY <1>1
  <2>3. (Oldest + i - 1) % Size = at(i)
    <3>1. PICK a \in 0 .. 2 * Size - 1 : a = Oldest + i - 1
      BY <2>2
    <3>2. a % Size = IF a < Size THEN a ELSE a - Size
      BY Wrap
    <3>3. at(i) = IF a < Size THEN a ELSE a - Size
      BY <1>1, <3>1
    <3> QED BY <3>1, <3>2, <3>3
  <2>4. at(i) \in Slot /\ at(i) < count
    BY <1>1 DEF Oldest
  <2> HIDE DEF at
  <2> QED BY <2>1, <2>3, <2>4 DEF BufferTypeOK
<1> HIDE DEF at
<1>4. GetAll = [i \in 1 .. count |-> entries[at(i)]]
  BY <1>2, <1>3
<1>5. GetAll \in Seq(Entry) /\ Len(GetAll) = count
  BY <1>1, <1>3, <1>4
<1>6. \A i \in 1 .. count : GetAll[i] = entries[at(i)]
  BY <1>4
<1> QED BY <1>5, <1>6 DEF at, Contents

(* One Add is one Record of the abstract log: the entry appears at the end  *)
(* and, when the buffer was full, exactly the oldest entry disappears.      *)
LEMMA AddRecords ==
  ASSUME BufferTypeOK, NEW e \in Entry, Add(e)
  PROVE  Recent!Record(e)
<1> USE SizeAssumption
<1>1. BufferTypeOK'
  BY AddPreservesType
<1>2. head \in 0 .. Size - 1 /\ count \in 0 .. Size
  BY DEF BufferTypeOK, Slot
<1>3. (head + 1) % Size = IF head + 1 < Size THEN head + 1 ELSE 0
  BY <1>2, Wrap, head + 1 \in 0 .. 2 * Size - 1
<1> DEFINE old == GetAll
           new == GetAll'
           kept == IF count < Size THEN old ELSE Tail(old)
<1>4. /\ old \in Seq(Entry) /\ Len(old) = count
      /\ \A i \in 1 .. count :
           old[i] = entries[IF Oldest + i - 1 < Size
                            THEN Oldest + i - 1 ELSE Oldest + i - 1 - Size]
  BY GetAllContents DEF Contents
<1>5. /\ new \in Seq(Entry) /\ Len(new) = count'
      /\ \A i \in 1 .. count' :
           new[i] = entries'[IF Oldest' + i - 1 < Size
                             THEN Oldest' + i - 1 ELSE Oldest' + i - 1 - Size]
  <2>1. Contents'
    BY <1>1, GetAllContents, PTL
  <2> QED BY <2>1 DEF Contents
<1> HIDE DEF old, new
<1>6. /\ kept \in Seq(Entry)
      /\ Len(kept) = count' - 1
      /\ \A i \in 1 .. count' - 1 : kept[i] = IF count < Size THEN old[i] ELSE old[i + 1]
  <2>1. CASE count < Size
    BY <2>1, <1>2, <1>4 DEF Add
  <2>2. CASE count = Size
    BY <2>2, <1>2, <1>4, HeadTailProperties DEF Add
  <2> QED BY <2>1, <2>2, <1>2
<1>7. /\ Append(kept, e) \in Seq(Entry)
      /\ Len(Append(kept, e)) = count'
      /\ \A i \in 1 .. count' : Append(kept, e)[i] = IF i = count' THEN e ELSE kept[i]
  BY <1>2, <1>6, AppendProperties DEF Add
<1>8. ASSUME NEW i \in 1 .. count'
      PROVE  new[i] = Append(kept, e)[i]
  <2> HIDE DEF kept
  <2> DEFINE from == IF Oldest' + i - 1 < Size
                     THEN Oldest' + i - 1 ELSE Oldest' + i - 1 - Size
  <2>1. new[i] = entries'[from]
    BY <1>5
  <2>2. entries' = [entries EXCEPT ![head] = e] /\ DOMAIN entries = 0 .. Size - 1
    BY DEF Add, BufferTypeOK, Slot
  <2>3. CASE count < Size
    <3>1. head = count /\ count' = count + 1 /\ Oldest = 0
      BY <2>3 DEF Add, BufferTypeOK, Oldest
    <3>2. from = i - 1
      BY <2>3, <3>1, <1>2, <1>3 DEF Add, Oldest
    <3> HIDE DEF from
    <3>3. CASE i = count'
      BY <2>1, <2>2, <3>1, <3>2, <3>3, <1>2, <1>7
    <3>4. CASE i # count'
      <4>1. i \in 1 .. count /\ i \in 1 .. count' - 1
        BY <3>1, <3>4, <1>2
      <4>2. kept[i] = entries[i - 1]
        BY <2>3, <3>1, <4>1, <1>2, <1>4, <1>6
      <4> QED BY <2>1, <2>2, <3>1, <3>2, <3>4, <4>1, <4>2, <1>2, <1>7
    <3> QED BY <3>3, <3>4
  <2>4. CASE count = Size
    <3>1. count' = Size /\ Oldest = head /\ Oldest' = IF head + 1 < Size THEN head + 1 ELSE 0
      BY <2>4, <1>2, <1>3 DEF Add, Oldest
    <3>2. CASE i = Size
      <4>1. from = head
        BY <3>1, <3>2, <1>2
      <4> HIDE DEF from
      <4> QED BY <2>1, <2>2, <3>1, <3>2, <4>1, <1>2, <1>7
    <3>3. CASE i # Size
      <4>1. i \in 1 .. Size - 1 /\ i + 1 \in 1 .. count /\ i \in 1 .. count' - 1
        BY <2>4, <3>1, <3>3, <1>2
      <4>2. /\ from = IF head + i < Size THEN head + i ELSE head + i - Size
            /\ from # head
            /\ from \in 0 .. Size - 1
        BY <3>1, <4>1, <1>2
      <4>3. kept[i] = old[i + 1]
        BY <2>4, <4>1, <1>2, <1>6
      <4>4. old[i + 1] = entries[from]
        BY <3>1, <4>1, <4>2, <1>2, <1>4
      <4> HIDE DEF from
      <4> QED BY <2>1, <2>2, <3>1, <4>1, <4>2, <4>3, <4>4, <1>2, <1>7
    <3> QED BY <3>2, <3>3
  <2>5. count < Size \/ count = Size
    BY <1>2
  <2> QED BY <2>3, <2>4, <2>5
<1>9. new = Append(kept, e)
  BY <1>5, <1>7, <1>8, SeqEqual
<1> QED BY <1>9, <1>4 DEF Recent!Record, old, new

(* Every behaviour of the circular buffer is, through GetAll, a behaviour of*)
(* the log that keeps the most recent entries.                              *)
THEOREM BufferImplementsRecentLog == BufferSpec => ImplementsRecentLog
<1>1. BufferInit => Recent!Init
  BY SizeAssumption DEF BufferInit, Recent!Init, GetAll, GetLast, Returned
<1>2. BufferTypeOK /\ [BufferNext]_bufVars => [Recent!Next]_GetAll
  <2> SUFFICES ASSUME BufferTypeOK, [BufferNext]_bufVars PROVE [Recent!Next]_GetAll
    OBVIOUS
  <2>1. CASE BufferNext
    BY <2>1, AddRecords DEF BufferNext, Recent!Next
  <2>2. CASE UNCHANGED bufVars
    BY <2>2 DEF bufVars, GetAll, GetLast, Returned, Oldest
  <2> QED BY <2>1, <2>2
<1> QED
  BY <1>1, <1>2, BufferTypeCorrect, PTL
  DEF BufferSpec, ImplementsRecentLog, Recent!Spec
-----------------------------------------------------------------------------
(* GetLast(n) returns the end of what GetAll returns.                       *)
LEMMA GetLastIsEndOfAll ==
  ASSUME BufferTypeOK, NEW n \in Int
  PROVE  /\ Returned(n) \in 0 .. count
         /\ GetLast(n) = LastOf(GetAll, Returned(n))
<1>1. count \in Nat /\ Oldest \in Int /\ Size \in Nat \ {0}
  BY SizeAssumption DEF BufferTypeOK, Slot, Oldest
<1>2. Returned(n) \in 0 .. count /\ Returned(0) = count
  BY <1>1 DEF Returned
<1>3. PICK r \in 0 .. count : r = Returned(n)
  BY <1>2
<1>4. GetLast(n) = [i \in 1 .. r |-> entries[(Oldest + (count - r) + i - 1) % Size]]
  BY <1>3 DEF GetLast
<1>5. GetAll = [i \in 1 .. count |-> entries[(Oldest + (count - count) + i - 1) % Size]]
  BY <1>2 DEF GetAll, GetLast
<1>6. GetAll \in Seq(Entry) /\ Len(GetAll) = count
  BY GetAllContents DEF Contents
<1>7. LastOf(GetAll, r) = [i \in 1 .. r |-> GetAll[count - r + i]]
  <2>1. LastOf(GetAll, r) = SubSeq(GetAll, count - r + 1, count)
    BY <1>6 DEF LastOf
  <2>2. PICK s \in Seq(Entry) : s = GetAll
    BY <1>6
  <2>3. SubSeq(s, count - r + 1, count) = [i \in 1 .. r |-> s[count - r + i]]
    BY <1>1, <1>6, <2>2
  <2> QED BY <2>1, <2>2, <2>3
<1>8. ASSUME NEW i \in 1 .. r
      PROVE  GetAll[count - r + i] = entries[(Oldest + (count - r) + i - 1) % Size]
  <2>1. PICK j \in 1 .. count : j = count - r + i
    BY <1>1
  <2>2. GetAll[j] = entries[(Oldest + (count - count) + j - 1) % Size]
    BY <1>5
  <2>3. Oldest + (count - count) + j - 1 = Oldest + (count - r) + i - 1
    BY <1>1, <2>1
  <2> QED BY <2>1, <2>2, <2>3
<1> QED BY <1>2, <1>3, <1>4, <1>7, <1>8

(* Adding an entry at the end moves the last k elements on by one.          *)
LEMMA LastOfAppend ==
  ASSUME NEW s \in Seq(Entry), NEW e \in Entry, NEW k \in 0 .. Len(s)
  PROVE  /\ LastOf(Append(s, e), k + 1) = Append(LastOf(s, k), e)
         /\ Len(LastOf(s, k)) = k
         /\ k # 0 => Tail(LastOf(s, k)) = LastOf(s, k - 1)
  BY DEF LastOf

(* The end of an end is an end.                                             *)
LEMMA LastOfLast ==
  ASSUME NEW s \in Seq(Entry), NEW k \in 0 .. Len(s), NEW m \in 0 .. k
  PROVE  LastOf(LastOf(s, k), m) = LastOf(s, m)
<1>1. LastOf(s, k) = [i \in 1 .. k |-> s[Len(s) - k + i]] /\ LastOf(s, k) \in Seq(Entry)
  BY DEF LastOf
<1>2. PICK t \in Seq(Entry) : t = LastOf(s, k)
  BY <1>1
<1>3. Len(t) = k /\ \A i \in 1 .. k : t[i] = s[Len(s) - k + i]
  BY <1>1, <1>2
<1>4. LastOf(t, m) = [i \in 1 .. m |-> t[k - m + i]]
  BY <1>3 DEF LastOf
<1>5. LastOf(s, m) = [i \in 1 .. m |-> s[Len(s) - m + i]]
  BY DEF LastOf
<1>6. ASSUME NEW i \in 1 .. m
      PROVE  t[k - m + i] = s[Len(s) - m + i]
  BY <1>3
<1> QED BY <1>2, <1>4, <1>5, <1>6

(* The buffer holds the end of its history: what GetAll returns is the last *)
(* Size entries ever added, or all of them while they are fewer.            *)
HistoryInv ==
  /\ BufferTypeOK
  /\ history \in Seq(Entry)
  /\ GetAll = LastOf(history, Smaller(Len(history), Size))

LEMMA HistoryStep == HistoryInv /\ [HistoryNext]_historyVars => HistoryInv'
<1> SUFFICES ASSUME HistoryInv, [HistoryNext]_historyVars PROVE HistoryInv'
  OBVIOUS
<1>1. ASSUME NEW e \in Entry, Add(e), history' = Append(history, e)
      PROVE  HistoryInv'
  <2>1. BufferTypeOK' /\ Recent!Record(e)
    BY <1>1, AddPreservesType, AddRecords DEF HistoryInv
  <2>2. history \in Seq(Entry) /\ history' \in Seq(Entry) /\ Len(history') = Len(history) + 1
    BY <1>1 DEF HistoryInv
  <2> DEFINE k == Smaller(Len(history), Size)
  <2>3. Size \in Nat \ {0} /\ k \in 0 .. Len(history) /\ k <= Size
    BY <2>2, SizeAssumption DEF Smaller
  <2>4. GetAll = LastOf(history, k) /\ Len(GetAll) = k
    BY <2>2, <2>3, <1>1, LastOfAppend DEF HistoryInv
  <2>5. (GetAll)' = Append(IF k < Size THEN GetAll ELSE Tail(GetAll), e)
    BY <2>1, <2>4 DEF Recent!Record
  <2>6. CASE k < Size
    <3>1. k = Len(history) /\ Smaller(Len(history'), Size) = k + 1
      BY <2>2, <2>3, <2>6 DEF Smaller
    <3>2. (GetAll)' = LastOf(history', k + 1)
      BY <1>1, <2>2, <2>3, <2>4, <2>5, <2>6, LastOfAppend
    <3> QED BY <2>1, <2>2, <3>1, <3>2 DEF HistoryInv
  <2>7. CASE k = Size
    <3>1. Smaller(Len(history'), Size) = Size /\ k - 1 \in 0 .. Len(history) /\ k - 1 + 1 = Size
      BY <2>2, <2>3, <2>7 DEF Smaller
    <3>2. (GetAll)' = Append(LastOf(history, k - 1), e)
      <4>1. Tail(LastOf(history, k)) = LastOf(history, k - 1)
        <5> HIDE DEF k
        <5>1. k # 0
          BY <2>3, <2>7
        <5> QED BY <1>1, <2>2, <2>3, <5>1, LastOfAppend
      <4>2. ~ (k < Size)
        BY <2>3, <2>7
      <4> HIDE DEF k
      <4> QED BY <2>4, <2>5, <4>1, <4>2
    <3>3. LastOf(history', Size) = Append(LastOf(history, k - 1), e)
      BY <1>1, <2>2, <3>1, LastOfAppend
    <3> QED BY <2>1, <2>2, <3>1, <3>2, <3>3 DEF HistoryInv
  <2> QED BY <2>3, <2>6, <2>7
<1>2. CASE UNCHANGED historyVars
  BY <1>2
  DEF historyVars, HistoryInv, BufferTypeOK, GetAll, GetLast, Returned, Oldest, LastOf, Smaller
<1> QED BY <1>1, <1>2 DEF HistoryNext

(* Whatever was added, however often the indices have wrapped and whatever  *)
(* number is asked for, GetLast returns the newest entries of the history in*)
(* the order in which they arrived.                                         *)
THEOREM GetLastAlwaysRecent ==
  HistorySpec => [](GetLastIsRecentHistory /\ \A n \in Int : GetLastIsRecent(n))
<1>1. HistoryInit => HistoryInv
  <2> SUFFICES ASSUME HistoryInit PROVE HistoryInv
    OBVIOUS
  <2>1. BufferTypeOK
    BY SizeAssumption DEF HistoryInit, BufferInit, BufferTypeOK, Slot
  <2>2. GetAll = <<>> /\ history = <<>>
    BY SizeAssumption DEF HistoryInit, BufferInit, GetAll, GetLast, Returned
  <2>3. LastOf(<<>>, Smaller(Len(<<>>), Size)) = <<>>
    BY SizeAssumption DEF LastOf, Smaller
  <2> QED BY <2>1, <2>2, <2>3 DEF HistoryInv
<1>2. HistoryInv => GetLastIsRecentHistory /\ \A n \in Int : GetLastIsRecent(n)
  <2> SUFFICES ASSUME HistoryInv, NEW n \in Int PROVE GetLastIsRecent(n)
    BY SizeAssumption DEF GetLastIsRecentHistory
  <2> DEFINE held == Smaller(Len(history), Size)
  <2>1. Len(history) \in Nat /\ Size \in Nat \ {0} /\ held \in 0 .. Len(history)
    BY SizeAssumption DEF HistoryInv, Smaller
  <2>2. GetAll = LastOf(history, held) /\ Len(GetAll) = count
    BY GetAllContents DEF HistoryInv, Contents
  <2>3. Len(LastOf(history, held)) = held
    BY <2>1 DEF HistoryInv, LastOf
  <2>4. count = held
    BY <2>2, <2>3
  <2>5. Returned(n) \in 0 .. held /\ GetLast(n) = LastOf(GetAll, Returned(n))
    BY <2>4, GetLastIsEndOfAll DEF HistoryInv
  <2>6. GetLast(n) = LastOf(history, Returned(n))
    BY <2>1, <2>2, <2>5, LastOfLast DEF HistoryInv
  <2>7. Returned(n) = IF n <= 0 THEN held ELSE Smaller(n, held)
    BY <2>1, <2>4 DEF Returned, Smaller
  <2> QED BY <2>6, <2>7 DEF GetLastIsRecent
<1> QED BY <1>1, <1>2, HistoryStep, PTL DEF HistorySpec
=============================================================================
